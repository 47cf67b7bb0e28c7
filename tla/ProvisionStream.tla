--------------------------- MODULE ProvisionStream ---------------------------
(***************************************************************************)
(* One ProvisionWorkspaceStream or StartWorkspaceStream call once its      *)
(* workspace is prepared: the job record, the handshake, and the event     *)
(* loop of runWorkspaceStream (internal/server/provision.go) beside the    *)
(* goroutine that runs Provision, Start or Inject.  The goroutine reports  *)
(* on a buffered channel of messages and hands its outcome over on an      *)
(* unbuffered one; the loop selects among the channels that are ready, in  *)
(* any order.  The client may go away at any time.                         *)
(***************************************************************************)
EXTENDS Integers, Sequences

CONSTANTS
    Inject,        \* the request is an injection, not a standalone provision
    Jobs,          \* NATS is enabled: the request has a job record
    SendProgress,  \* the client asked for progress percentages
    SendEvents,    \* the client asked for Kubernetes events
    Cap,           \* capacity of the messages channel (100 in the code)
    MaxMessages    \* bound: the messages one operation emits

ASSUME StreamConstants ==
    /\ {Inject, Jobs, SendProgress, SendEvents} \subseteq BOOLEAN
    /\ Cap \in Nat \ {0} /\ MaxMessages \in Nat

VARIABLES
    ctx,        \* the stream's context: "live" or "done"
    cpc,        \* where the handler is
    gpc,        \* where the goroutine is
    pending,    \* the message the goroutine is about to send
    messages,   \* the messages channel
    emitted,    \* how many messages the goroutine has sent
    step,       \* provisioningStep
    progress,   \* progressPct
    out,        \* what was sent on the stream
    job         \* status of the job record

handler    == <<cpc, step, progress, out, job>>
worker     == <<gpc, pending, emitted>>
streamVars == <<ctx, handler, worker, messages>>

\* What PodWatcher reports: the statuses, and Kubernetes events.
Statuses == {"Provisioning", "Pulling", "Running", "Warning"}
Messages == Statuses \union {"Event"}
Finals   == {"Final", "Error"}
Milestones == <<20, 40, 60, 75>>

Sent == [type : {"status", "event"}, what : Messages \union Finals]
          \union [type : {"progress"}, what : 0..100]

StreamTypeOK ==
    /\ ctx \in {"live", "done"}
    /\ cpc \in {"start", "handshake", "loop", "returned", "cancelled", "crashed"}
    /\ gpc \in {"off", "begin", "run", "emit", "ok", "failed", "ended", "panic"}
    /\ pending \in Messages \union {"none"}
    /\ messages \in Seq(Messages) /\ Len(messages) <= Cap
    /\ emitted \in 0..MaxMessages
    /\ step \in 0..Len(Milestones)
    /\ progress \in 0..100
    /\ out \in Seq(Sent)
    /\ job \in {"none", "running", "completed"}

StreamInit ==
    /\ ctx = "live" /\ cpc = "start" /\ gpc = "off"
    /\ pending = "none" /\ messages = <<>> /\ emitted = 0
    /\ step = 0 /\ progress = 0 /\ out = <<>> /\ job = "none"

Status(s)   == [type |-> "status", what |-> s]
Progress(n) == [type |-> "progress", what |-> n]

-----------------------------------------------------------------------------
(* The handler.                                                            *)

\* The job record is created and set to running before the handshake.
CreateJob ==
    /\ cpc = "start"
    /\ job' = IF Jobs THEN "running" ELSE job
    /\ cpc' = "handshake"
    /\ UNCHANGED <<ctx, step, progress, out, worker, messages>>

\* The handshake; runWorkspaceStream then starts the goroutine.  A handshake
\* that cannot be sent ends the request.
Handshake ==
    /\ cpc = "handshake"
    /\ \/ ctx = "live" /\ cpc' = "loop" /\ gpc' = "begin"
       \/ ctx = "done" /\ cpc' = "cancelled" /\ UNCHANGED gpc
    /\ UNCHANGED <<ctx, step, progress, out, job, pending, emitted, messages>>

\* The percentage a status message stands for; 0 for none.
NewPerc(m) ==
    CASE m = "Provisioning" /\ step < Len(Milestones) -> Milestones[step + 1]
      [] m = "Pulling" -> 50
      [] m = "Running" -> 100
      [] OTHER -> 0

ReportAny(m) ==   \* mutant: every percentage is reported
    IF SendProgress /\ m \in Statuses /\ NewPerc(m) > 0
    THEN <<Progress(NewPerc(m))>> ELSE <<>>

\* The progress event a message leads to, if any.
ReportProgress(m) ==
    IF SendProgress /\ m \in Statuses /\ NewPerc(m) > progress
    THEN <<Progress(NewPerc(m))>> ELSE <<>>

\* A message is forwarded: sendProvisionEvent also appends it to the job
\* record, and goes on when the stream is broken.
Forward ==
    /\ cpc = "loop" /\ messages # <<>>
    /\ LET m == Head(messages) IN
         /\ out' = out \o (CASE m \in Statuses -> <<Status(m)>>
                             [] m = "Event" /\ SendEvents -> <<[type |-> "event", what |-> m]>>
                             [] OTHER -> <<>>)
                       \o ReportProgress(m)
         /\ step' = IF SendProgress /\ m = "Provisioning" /\ step < Len(Milestones)
                    THEN step + 1 ELSE step
         /\ progress' = IF ReportProgress(m) = <<>> THEN progress ELSE NewPerc(m)
    /\ messages' = Tail(messages)
    /\ UNCHANGED <<ctx, cpc, job, worker>>

\* The last events, the completed job, and the end of the stream.
Finish(last) ==
    /\ out' = out \o last
    /\ job' = IF Jobs THEN "completed" ELSE job
    /\ cpc' = "returned"
    /\ gpc' = "ended"
    /\ UNCHANGED <<ctx, step, progress, pending, emitted, messages>>

\* The outcome arrives on the done channel.
Done ==
    /\ cpc = "loop" /\ gpc = "ok"
    /\ Finish(<<Status("Final")>>
              \o (IF SendProgress /\ progress < 100 THEN <<Progress(100)>> ELSE <<>>))

FailedUnheard == FALSE /\ UNCHANGED streamVars   \* mutant: errorChan is not selected

\* The outcome arrives on the error channel.
Failed ==
    /\ cpc = "loop" /\ gpc = "failed"
    /\ Finish(<<Status("Error")>>)

\* The context is done: the handler returns and touches nothing else.
Cancelled ==
    /\ cpc = "loop" /\ ctx = "done"
    /\ cpc' = "cancelled"
    /\ UNCHANGED <<ctx, step, progress, out, job, worker, messages>>

-----------------------------------------------------------------------------
(* The goroutine, and the client.                                          *)

\* runFn begins.  The injection's options are built from job.ID, which a
\* request without a job record does not have: the process dies.
BeginRun ==
    /\ gpc = "begin"
    /\ IF Inject /\ ~Jobs THEN gpc' = "panic" /\ cpc' = "crashed"
                          ELSE gpc' = "run" /\ UNCHANGED cpc
    /\ UNCHANGED <<ctx, step, progress, out, job, pending, emitted, messages>>

\* The operation has something to report, or returns.
Work ==
    /\ gpc = "run"
    /\ \/ /\ emitted < MaxMessages
          /\ \E m \in Messages : pending' = m
          /\ gpc' = "emit"
       \/ /\ gpc' \in {"ok", "failed"}
          /\ UNCHANGED pending
    /\ UNCHANGED <<ctx, handler, emitted, messages>>

\* emitSnapshot and emitEvent send without looking at the context: the send
\* waits for room in the channel.
Emit ==
    /\ gpc = "emit" /\ Len(messages) < Cap
    /\ messages' = Append(messages, pending)
    /\ emitted' = emitted + 1
    /\ pending' = "none"
    /\ gpc' = "run"
    /\ UNCHANGED <<ctx, handler>>

\* The client disconnects or cancels.
ClientLeaves ==
    /\ ctx = "live" /\ cpc \in {"start", "handshake", "loop"}
    /\ ctx' = "done"
    /\ UNCHANGED <<handler, worker, messages>>

Handler   == CreateJob \/ Handshake \/ Forward \/ Done \/ Failed \/ Cancelled
Goroutine == BeginRun \/ Work \/ Emit

StreamNext == Handler \/ Goroutine \/ ClientLeaves

\* Both goroutines run; nobody makes the client leave.
StreamFairness == WF_streamVars(Handler) /\ WF_streamVars(Goroutine)

StreamSpec     == StreamInit /\ [][StreamNext]_streamVars
FairStreamSpec == StreamSpec /\ StreamFairness

-----------------------------------------------------------------------------
(* Properties.                                                             *)

\* A client sees the percentage grow with every progress event, however
\* pulling, provisioning and running statuses alternate, and reach 100 before
\* the stream ends with the operation's result, unless the operation failed.
ProgressGrows ==
    /\ \A i, j \in 1..Len(out) :
           i < j /\ out[i].type = "progress" /\ out[j].type = "progress" =>
               out[i].what < out[j].what
    /\ cpc = "returned" /\ SendProgress /\ out[Len(out)] # Status("Error") =>
           \E i \in 1..Len(out) : out[i] = Progress(100)

\* The request never hangs: whatever the operation emits and however slowly
\* the handler drains the channel, the stream ends.
StreamReturns == (cpc = "loop") ~> (cpc \in {"returned", "cancelled"})
=============================================================================
