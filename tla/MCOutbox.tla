------------------------------ MODULE MCOutbox ------------------------------
(* Instances of Outbox for TLC: the workers' processes are model values. *)
EXTENDS Outbox
============================================================================
