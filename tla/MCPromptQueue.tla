--------------------------- MODULE MCPromptQueue ---------------------------
(* PromptQueue on small instances: one plain send, one draft send, and any  *)
(* number of sends without a client id, within the bounds of the cfg.       *)
EXTENDS PromptQueue

=============================================================================
