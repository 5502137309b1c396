------------------------------- MODULE Registry -------------------------------
(***************************************************************************)
(* What registration keeps to: an account is entered in one step, at a     *)
(* moment when neither its username nor its mailbox is taken; a request    *)
(* ends without an account only at a moment when one of them is.  It ends  *)
(* with a conflict then, or with an error if it was overtaken: if the key  *)
(* it is refused for was entered while it was under way.                   *)
(***************************************************************************)
CONSTANTS
  Clients,
  Entries,       \* accounts the clients may ask for: username, email, password
  SampleEntries, \* accounts the seeding script enters
  NoEntry        \* what a client asks for that does not register

VARIABLES
  accounts,  \* the accounts there are
  phase,     \* per client: "idle", "pending" or "enrolled"
  request,   \* per client: the entry it asks for
  overtaken, \* clients that may have found a key free before it was entered
  answer     \* per client: how its last registration ended

rvars == <<accounts, phase, request, overtaken, answer>>

SameKey(entry, other) == entry.username = other.username \/ entry.email = other.email

Taken(entry) == \E account \in accounts : SameKey(account, entry)

\* Who is asking for a key of the entry while it is entered.
Rivals(entry) == {c \in Clients : phase[c] = "pending" /\ SameKey(entry, request[c])}

\* Which of them have looked for it already is not said.
Overtake(rivals) == \E late \in SUBSET rivals : overtaken' = overtaken \cup late

RInit ==
  /\ accounts = {}
  /\ phase = [c \in Clients |-> "idle"]
  /\ request = [c \in Clients |-> NoEntry]
  /\ overtaken = {}
  /\ answer = [c \in Clients |-> "none"]

Submit(c) ==
  /\ phase[c] = "idle"
  /\ \E entry \in Entries : request' = [request EXCEPT ![c] = entry]
  /\ phase' = [phase EXCEPT ![c] = "pending"]
  /\ answer' = [answer EXCEPT ![c] = "none"]
  /\ UNCHANGED <<accounts, overtaken>>

Enroll(c) ==
  /\ phase[c] = "pending" /\ ~Taken(request[c])
  /\ accounts' = accounts \cup {request[c]}
  /\ phase' = [phase EXCEPT ![c] = "enrolled"]
  /\ Overtake(Rivals(request[c]) \ {c})
  /\ UNCHANGED <<request, answer>>

Return(c, outcome) ==
  /\ phase' = [phase EXCEPT ![c] = "idle"]
  /\ request' = [request EXCEPT ![c] = NoEntry]
  /\ overtaken' = overtaken \ {c}
  /\ answer' = [answer EXCEPT ![c] = outcome]
  /\ UNCHANGED accounts

Refuse(c) == phase[c] = "pending" /\ Taken(request[c]) /\ Return(c, "conflict")

Fail(c) == phase[c] = "pending" /\ c \in overtaken /\ Return(c, "error")

\* The account is there, or was wiped since it was entered.
Confirm(c) ==
  /\ phase[c] = "enrolled"
  /\ \/ request[c] \in accounts /\ Return(c, "created")
     \/ Return(c, "error")

\* The API process dies: nobody is answered any more.
LoseAll ==
  /\ phase' = [c \in Clients |-> "idle"]
  /\ request' = [c \in Clients |-> NoEntry]
  /\ overtaken' = {}
  /\ UNCHANGED <<accounts, answer>>

EnterSample ==
  /\ \E entry \in SampleEntries :
       /\ ~Taken(entry) /\ Overtake(Rivals(entry))
       /\ accounts' = accounts \cup {entry}
  /\ UNCHANGED <<phase, request, answer>>

\* No key is taken after it, so nobody is behind any more.
Wipe ==
  /\ accounts' = {} /\ overtaken' = {}
  /\ UNCHANGED <<phase, request, answer>>

RNext ==
  \/ \E c \in Clients : Submit(c) \/ Enroll(c) \/ Refuse(c) \/ Fail(c) \/ Confirm(c)
  \/ LoseAll \/ EnterSample \/ Wipe

RSpec == RInit /\ [][RNext]_rvars

=============================================================================
