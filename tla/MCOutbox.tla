------------------------------ MODULE MCOutbox ------------------------------
(***************************************************************************)
(* Instances of OutboxPipeline.                                            *)
(***************************************************************************)
EXTENDS OutboxPipeline
============================================================================
