------------------------------- MODULE MCServing -------------------------------
(* Three requests, two threads and one connection: as many as a stall needs. *)
EXTENDS Serving

MCSlots == 1..3

MCKinds == {"probe", "ready", "register", "update"}

=============================================================================
