-------------------------- MODULE MCSessionRuntime --------------------------
(* SessionRuntime on small instances; the configurations choose the events.  *)
EXTENDS SessionRuntime

=============================================================================
