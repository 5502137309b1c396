------------------------------ MODULE MCAccounts ------------------------------
(* A small instance of Accounts for TLC. *)
EXTENDS Accounts, TLC

CONSTANTS c1, c2, s1, s2

MCClients == {c1, c2}
MCSeeders == {s1, s2}
MCSymmetry == Permutations(Clients) \cup Permutations(Seeders)

Call(op, name, box, case, password) ==
  [op |-> op, username |-> name, email |-> [box |-> box, case |-> case],
   password |-> password]

\* Two registrations that share a mailbox in two spellings, one of them with a
\* username of the sample; a login in a third spelling; a request with a token.
MCCalls ==
  {Call("register", "cy", "cy", "lower", "p"), Call("register", "bob", "cy", "mixed", "q"),
   Call("login", "cy", "cy", "mixed", "p"), Call("resource", "cy", "cy", "lower", "p")}

=============================================================================
