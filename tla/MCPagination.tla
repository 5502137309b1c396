---------------------------- MODULE MCPagination ----------------------------
(* Small instances of Pagination and Stats for TLC. *)
EXTENDS Stats

MCIds == 1..3

=============================================================================
