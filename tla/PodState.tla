------------------------------ MODULE PodState ------------------------------
(***************************************************************************)
(* How the state of a workspace pod is derived: AnalyzePod and what it     *)
(* calls (internal/workspace/podstate.go).  A pure function of the pod and *)
(* of the events listed for it, in the order they are passed.  Messages    *)
(* and restart totals are left out.                                        *)
(***************************************************************************)
EXTENDS Integers, Sequences

CONSTANT Threshold   \* crashLoopThreshold (2 in the code)

ASSUME ThresholdNat == Threshold \in Nat

\* A container waits for an ordinary or for a hard reason, runs, completed
\* or ended with an error.
ContainerStates == {"waiting", "hard", "running", "completed", "exited"}

\* What AnalyzePod reads of a pod.  "overdue": its deletion deadline passed
\* more than nodeLostGrace ago; "ready": its PodReady condition.
Pods(uids) ==
    [uid : uids, deleting : BOOLEAN, stop : BOOLEAN, overdue : BOOLEAN,
     ready : BOOLEAN, phase : {"Pending", "Running", "Succeeded", "Failed"},
     node : BOOLEAN, restarts : Nat,
     init : Seq(ContainerStates), main : Seq(ContainerStates)]

\* A reason stands for all reasons that are classified alike: "ImageError"
\* for image errors and OOMKilled, "FailedBinding" for the claim's own,
\* "FailedMount" for the warnings.
Reasons == {"Pulling", "Pulled", "ImageError", "BackOff", "FailedBinding", "FailedMount"}

\* classifyEvent.
Severity(e, pod) ==
    CASE e.reason \in {"ImageError", "FailedBinding"} -> "critical"
      [] e.reason = "BackOff" /\ pod.restarts >= Threshold -> "critical"
      [] e.reason \in {"BackOff", "FailedMount"} -> "warning"
      [] OTHER -> "info"

CriticalEvent(pod, evs) == \E i \in 1..Len(evs) : Severity(evs[i], pod) = "critical"

\* The pull state of a container: of its Pulling and Pulled events with the
\* latest timestamp, the one that comes first in the list.
ActivePulling(evs) ==
    LET Pull == {i \in 1..Len(evs) : evs[i].reason \in {"Pulling", "Pulled"}}
    IN  \E i \in Pull :
          /\ evs[i].reason = "Pulling"
          /\ \A j \in Pull \ {i} : evs[j].path = evs[i].path =>
                 \/ evs[j].time < evs[i].time
                 \/ evs[j].time = evs[i].time /\ i < j

\* podNodeLost.
PodNodeLost(pod) ==
    /\ pod.deleting /\ pod.node /\ pod.overdue /\ ~pod.ready
    /\ \E i \in 1..Len(pod.main) : pod.main[i] \notin {"completed", "exited"}

DeletingStage(pod) ==
    CASE PodNodeLost(pod) -> "NodeLost"
      [] ~PodNodeLost(pod) /\ pod.stop -> "Stopping"
      [] OTHER -> "Terminating"

\* The smallest of the positions I.
First(I) == CHOOSE i \in I : \A j \in I : i <= j

\* The first init container that has not completed decides.
InitStage(c) == IF c \in {"hard", "exited"} THEN "Failed" ELSE "Initializing"

\* The first waiting container decides, then whether all are ready.
MainStage(cs) ==
    LET waiting == {i \in 1..Len(cs) : cs[i] \in {"waiting", "hard"}}
    IN  CASE waiting # {} -> IF cs[First(waiting)] = "hard" THEN "Failed" ELSE "Starting"
          [] cs # <<>> /\ \A i \in 1..Len(cs) : cs[i] = "running" -> "Running"
          [] OTHER -> "Starting"

Stage(pod, evs) ==
    LET openInit == {i \in 1..Len(pod.init) : pod.init[i] # "completed"}
    IN  CASE pod.deleting -> DeletingStage(pod)
          [] ~pod.deleting /\ pod.phase = "Succeeded" -> "Stopped"
          [] ~pod.deleting /\ pod.phase = "Failed" -> "Failed"
          [] OTHER ->
               IF ~pod.node THEN "Scheduling"
               ELSE IF ActivePulling(evs) THEN "Pulling"
               ELSE IF CriticalEvent(pod, evs) THEN "Failed"
               ELSE IF openInit # {} THEN InitStage(pod.init[First(openInit)])
               ELSE MainStage(pod.main)

\* The stages at which Watch returns.
Terminal == {"Running", "Stopped", "Failed"}
=============================================================================
