------------------------------ MODULE PodWatch ------------------------------
(***************************************************************************)
(* PodWatcher.Watch (internal/workspace/podstate.go) beside the cluster it *)
(* watches.  The pod and its events are logs of versions: Watch reads the  *)
(* pod, lists the events, and its loop then consumes both logs from the    *)
(* resource versions it read, each in order and neither in step with the   *)
(* other, until the pod is up, failed or the time is over.  A watch stream *)
(* may close, and is not opened again.  Events outlive the pod: a pod that *)
(* is deleted and created again has the same name.                         *)
(***************************************************************************)
EXTENDS PodState, FiniteSets, SequencesExt

CONSTANTS
    HasInit,      \* the pod has an init container
    Recreated,    \* the pod may be deleted and created again
    StreamsClose, \* the API server may close a watch stream
    MaxTime,      \* bound: seconds on the clock events are stamped with
    MaxVersions,  \* bound: versions of the pod
    MaxEvents     \* bound: events

ASSUME PodWatchConstants ==
    /\ {HasInit, Recreated, StreamsClose} \subseteq BOOLEAN
    /\ {MaxTime, MaxVersions, MaxEvents} \subseteq Nat

VARIABLES
    now,       \* the cluster's clock, in seconds
    versions,  \* all versions of the pod; the last is the current one
    events,    \* all events, in the order the cluster recorded them
    pull,      \* the kubelet's pull of the image: "no", "active" or "done"
    wpc,       \* where Watch is
    cur,       \* currentPod
    vpos,      \* the versions the pod stream has delivered
    known,     \* knownEvents, as positions in events
    epos,      \* the events the event stream has delivered
    alive,     \* the streams that are open
    stage      \* lastStage, and the result when Watch has returned

cluster      == <<now, versions, events, pull>>
watcher      == <<wpc, cur, vpos, known, epos, alive, stage>>
podWatchVars == <<cluster, watcher>>

NoPod == [uid |-> 0]
Pod   == Last(versions)

NewPod(uid) ==
    [uid |-> uid, deleting |-> FALSE, stop |-> FALSE, overdue |-> FALSE,
     ready |-> FALSE, phase |-> "Pending", node |-> FALSE, restarts |-> 0,
     init |-> <<>>, main |-> <<>>]

PodWatchTypeOK ==
    /\ now \in 0..MaxTime
    /\ \A i \in 1..Len(versions) : versions[i] = NoPod \/ versions[i] \in Pods(Nat)
    /\ \A i \in 1..Len(events) :
           events[i] \in [reason : Reasons, path : {"main"}, time : 0..now]
    /\ pull \in {"no", "active", "done"}
    /\ wpc \in {"idle", "list", "loop", "returned"}
    /\ vpos \in 0..Len(versions) /\ epos \in 0..Len(events)
    /\ known \subseteq 1..Len(events)
    /\ alive \subseteq {"pod", "events"}

PodWatchInit ==
    /\ now = 0 /\ versions = <<NewPod(1)>> /\ events = <<>> /\ pull = "no"
    /\ wpc = "idle" /\ cur = NoPod /\ vpos = 0 /\ known = {} /\ epos = 0
    /\ alive = {"pod", "events"} /\ stage = "none"

-----------------------------------------------------------------------------
(* The cluster: scheduler, kubelet and the provisioner's other requests.   *)

SetPod(p) ==
    /\ Len(versions) < MaxVersions
    /\ versions' = Append(versions, p)

Record(reason) ==
    /\ Len(events) < MaxEvents
    /\ events' = Append(events, [reason |-> reason, path |-> "main", time |-> now])

Up == Pod # NoPod /\ ~Pod.deleting /\ Pod.phase \in {"Pending", "Running"}

Schedule ==
    /\ Up /\ ~Pod.node
    /\ SetPod([Pod EXCEPT !.node = TRUE, !.main = <<"waiting">>,
                          !.init = IF HasInit THEN <<"waiting">> ELSE <<>>])
    /\ UNCHANGED <<now, events, pull>>

PullImage ==
    /\ Up /\ Pod.node
    /\ \/ pull = "no" /\ pull' = "active" /\ Record("Pulling") /\ UNCHANGED versions
       \/ pull = "active" /\ pull' = "done" /\ Record("Pulled") /\ UNCHANGED versions
       \/ pull = "active" /\ pull' = "no" /\ Record("ImageError")
          /\ SetPod([Pod EXCEPT !.main = <<"hard">>])
    /\ UNCHANGED now

RunInit ==
    /\ Up /\ Pod.init # <<>> /\ pull = "done"
    /\ \E c \in {"running", "completed", "exited"} :
         /\ c # "running" => Pod.init[1] = "running"
         /\ SetPod([Pod EXCEPT !.init = <<c>>])
    /\ UNCHANGED <<now, events, pull>>

RunMain ==
    /\ Up /\ Pod.node /\ pull = "done" /\ Pod.init \in {<<>>, <<"completed">>}
    /\ \/ /\ Pod.main # <<"running">>
          /\ SetPod([Pod EXCEPT !.main = <<"running">>, !.ready = TRUE, !.phase = "Running"])
          /\ UNCHANGED events
       \/ /\ Pod.main = <<"running">> /\ Pod.restarts < Threshold
          /\ SetPod([Pod EXCEPT !.main = <<"waiting">>, !.ready = FALSE, !.restarts = @ + 1])
          /\ Record("BackOff")
       \/ /\ Pod.main = <<"running">>
          /\ \E p \in {"Succeeded", "Failed"} :
               SetPod([Pod EXCEPT !.main = <<"completed">>, !.ready = FALSE, !.phase = p])
          /\ UNCHANGED events
    /\ UNCHANGED <<now, pull>>

\* The pod is stopped or deleted, disappears, and is created again.
Recreate ==
    /\ Recreated
    /\ \/ /\ Pod # NoPod /\ ~Pod.deleting
          /\ \E b \in BOOLEAN : SetPod([Pod EXCEPT !.deleting = TRUE, !.stop = b])
          /\ UNCHANGED pull
       \/ /\ Pod # NoPod /\ Pod.deleting
          /\ SetPod(NoPod)
          /\ UNCHANGED pull
       \/ /\ Pod = NoPod
          /\ SetPod(NewPod(2))
          /\ pull' = "no"
    /\ UNCHANGED <<now, events>>

Tick ==
    /\ now < MaxTime
    /\ now' = now + 1
    /\ UNCHANGED <<versions, events, pull>>

Cluster ==
    /\ Schedule \/ PullImage \/ RunInit \/ RunMain \/ Recreate \/ Tick
    /\ UNCHANGED watcher

-----------------------------------------------------------------------------
(* The watcher.                                                            *)

\* The loop ranges over a map of the events at the positions E.
Orders(E) == {[i \in 1..Cardinality(E) |-> events[s[i]]] : s \in SetToSeqs(E)}

\* Analyse, and return at a terminal stage.
Settle(s) ==
    /\ stage' = s
    /\ wpc' = IF s \in Terminal THEN "returned" ELSE "loop"

\* Watch reads the pod; it returns an error when there is none or the read
\* fails.
GetPod ==
    /\ wpc = "idle"
    /\ \/ stage' = "error" /\ wpc' = "returned" /\ UNCHANGED <<cur, vpos>>
       \/ Pod # NoPod /\ cur' = Pod /\ vpos' = Len(versions) /\ wpc' = "list" /\ UNCHANGED stage
    /\ UNCHANGED <<cluster, known, epos, alive>>

ListEventsLate ==   \* mutant: the pod stream starts at the newest version
    /\ wpc = "list"
    /\ known' = 1..Len(events) /\ epos' = Len(events)
    /\ Settle(Stage(cur, events))
    /\ vpos' = Len(versions)
    /\ UNCHANGED <<cluster, cur, alive>>

\* Then it lists the events, in the order of recording, and takes the first
\* snapshot.  A list that fails is empty, and has no resource version: the
\* stream starts from the oldest.
ListEvents ==
    /\ wpc = "list"
    /\ \/ known' = 1..Len(events) /\ epos' = Len(events) /\ Settle(Stage(cur, events))
       \/ known' = {} /\ epos' = 0 /\ Settle(Stage(cur, <<>>))
    /\ UNCHANGED <<cluster, cur, vpos, alive>>

\* The next version of the pod arrives; the deletion itself is skipped.
DeliverPod ==
    /\ wpc = "loop" /\ "pod" \in alive /\ vpos < Len(versions)
    /\ vpos' = vpos + 1
    /\ cur' = IF versions[vpos + 1] = NoPod THEN cur ELSE versions[vpos + 1]
    /\ IF versions[vpos + 1] = NoPod THEN UNCHANGED <<wpc, stage>>
       ELSE \E evs \in Orders(known) : Settle(Stage(cur', evs))
    /\ UNCHANGED <<cluster, known, epos, alive>>

DeliverSkipping ==   \* mutant: one event too many is marked as delivered
    /\ wpc = "loop" /\ "events" \in alive /\ epos < Len(events)
    /\ epos' = epos + 2
    /\ known' = known \union {epos + 1}
    /\ \E evs \in Orders(known') : Settle(Stage(cur, evs))
    /\ UNCHANGED <<cluster, cur, vpos, alive>>

\* The next event arrives.
DeliverEvent ==
    /\ wpc = "loop" /\ "events" \in alive /\ epos < Len(events)
    /\ epos' = epos + 1
    /\ known' = known \union {epos + 1}
    /\ \E evs \in Orders(known') : Settle(Stage(cur, evs))
    /\ UNCHANGED <<cluster, cur, vpos, alive>>

\* A stream closes: its goroutine returns, the loop is not told.
CloseStream ==
    /\ StreamsClose /\ wpc = "loop"
    /\ \E s \in alive : alive' = alive \ {s}
    /\ UNCHANGED <<cluster, wpc, cur, vpos, known, epos, stage>>

\* The timeout elapses, or the context is cancelled.
GiveUp ==
    /\ wpc = "loop"
    /\ wpc' = "returned"
    /\ stage' = "timeout"
    /\ UNCHANGED <<cluster, cur, vpos, known, epos, alive>>

Watch == GetPod \/ ListEvents \/ DeliverPod \/ DeliverEvent \/ GiveUp

PodWatchNext == Cluster \/ Watch \/ CloseStream

PodWatchSpec == PodWatchInit /\ [][PodWatchNext]_podWatchVars

-----------------------------------------------------------------------------
(* Properties.                                                             *)

\* The streams are open and have delivered everything.
CaughtUp ==
    wpc = "loop" /\ alive = {"pod", "events"} /\ vpos = Len(versions) /\ epos = Len(events)

\* Nothing is lost between the read of the pod, the list of its events and
\* the two streams: a loop that has caught up and still waits is not waiting
\* beside a pod that is up or has failed, in whatever order the pod's
\* versions and events came in.
NothingMissed ==
    CaughtUp /\ Pod # NoPod =>
        \E evs \in Orders(1..Len(events)) : Stage(Pod, evs) \notin Terminal

\* No two pull events carry the same second.
NoTies ==
    \A i, j \in 1..Len(events) :
        /\ i # j
        /\ {events[i].reason, events[j].reason} \subseteq {"Pulling", "Pulled"}
        => events[i].time # events[j].time

\* Watch observes the pod "until the pod reaches Running": as long as the
\* timestamps of pull events differ, a loop that has caught up does not go on
\* waiting for a pod that is up and whose image has been pulled, also after
\* pulls that failed.
ReadyIsSeen ==
    CaughtUp /\ Pod # NoPod /\ pull = "done" /\ NoTies =>
        \/ MainStage(Pod.main) # "Running" \/ Pod.deleting
        \/ Pod.init \notin {<<>>, <<"completed">>}
=============================================================================
