------------------------------- MODULE MCOutbox -------------------------------
(* Instances of Outbox for TLC.  The runs check liveness, so no symmetry. *)
EXTENDS Outbox
=============================================================================
