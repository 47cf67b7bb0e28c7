----------------------------- MODULE MCPodWatch -----------------------------
(* One watcher beside one pod; the configurations choose what the pod does. *)
EXTENDS PodWatch
=============================================================================
