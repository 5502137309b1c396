------------------------------- MODULE MCStartup -------------------------------
(* Three containers that start beside each other. *)
EXTENDS Startup

CONSTANTS a, b, c

MCContainers == {a, b, c}
MCOne == {a}

=============================================================================
