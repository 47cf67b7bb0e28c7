-------------------------- MODULE MCProvisionStream --------------------------
(* One stream with a channel of two messages; the configurations choose the *)
(* kind of request.                                                         *)
EXTENDS ProvisionStream
=============================================================================
