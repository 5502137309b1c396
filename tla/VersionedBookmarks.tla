------------------------- MODULE VersionedBookmarks -------------------------
(***************************************************************************)
(* What the bookmark resource promises to the clients that write to it,    *)
(* whatever happens inside the service: every accepted write is one atomic *)
(* step on the table, taken while the If-Match header matches the version  *)
(* stored at that very moment; a refused request has no effect; a request  *)
(* takes effect at most once.                                              *)
(*                                                                         *)
(* The content of read answers is not part of this contract (a read is two *)
(* SELECTs and may mix two versions, see Bookmarks).                       *)
(***************************************************************************)
EXTENDS ETag, FiniteSets, Sequences

CONSTANTS
  Clients,     \* concurrent callers, each with one request in flight
  Calls,       \* the requests a client may send
  NoCall,      \* what a client that has no request in flight is sending
  Null,        \* a field the request leaves out
  Stored       \* the bookmark table at the start

VARIABLES
  store,       \* id -> [owner, version, body, tags]
  phase,       \* per client: "idle", "pending" or "applied"
  request,     \* per client: the call being served
  answer       \* per client: kind of the last answer

avars == <<store, phase, request, answer>>

Names(list) == {list[i] : i \in DOMAIN list}

Asked(field, current) == IF field = Null THEN current ELSE field

AskedTags(list, current) == IF list = Null THEN current ELSE Names(list)

AInit ==
  /\ store = Stored
  /\ phase = [c \in Clients |-> "idle"]
  /\ request = [c \in Clients |-> NoCall]
  /\ answer = [c \in Clients |-> "none"]

Invoke(c) ==
  /\ phase[c] = "idle"
  /\ \E call \in Calls : request' = [request EXCEPT ![c] = call]
  /\ phase' = [phase EXCEPT ![c] = "pending"]
  /\ answer' = [answer EXCEPT ![c] = "none"]
  /\ UNCHANGED store

Reply(c, kind) ==
  /\ phase' = [phase EXCEPT ![c] = "idle"]
  /\ request' = [request EXCEPT ![c] = NoCall]
  /\ answer' = [answer EXCEPT ![c] = kind]

MayWrite(call) ==
  /\ call.id \in DOMAIN store
  /\ store[call.id].owner = call.user
  /\ call.ifMatch.present
  /\ Matches(call.ifMatch, store[call.id].version)

ApplyCreate(c) ==
  LET call == request[c] IN
  /\ phase[c] = "pending" /\ call.op = "create"
  /\ \E id \in DOMAIN store' \ DOMAIN store :
       store' = [i \in DOMAIN store \cup {id} |->
                   IF i = id
                   THEN [owner |-> call.user, version |-> 1,
                         body |-> call.body, tags |-> Names(call.tags)]
                   ELSE store[i]]
  /\ phase' = [phase EXCEPT ![c] = "applied"]
  /\ UNCHANGED <<request, answer>>

ApplyUpdate(c) ==
  LET call == request[c]
      old == store[call.id] IN
  /\ phase[c] = "pending" /\ call.op = "update"
  /\ MayWrite(call)
  /\ store' = [store EXCEPT ![call.id] =
                 [owner |-> old.owner, version |-> old.version + 1,
                  body |-> Asked(call.body, old.body),
                  tags |-> AskedTags(call.tags, old.tags)]]
  /\ phase' = [phase EXCEPT ![c] = "applied"]
  /\ UNCHANGED <<request, answer>>

ApplyDelete(c) ==
  LET call == request[c] IN
  /\ phase[c] = "pending" /\ call.op = "delete"
  /\ MayWrite(call)
  /\ store' = [i \in DOMAIN store \ {call.id} |-> store[i]]
  /\ Reply(c, "ok")

\* A refusal, or an internal error before the effect: nothing was written.
Refuse(c) ==
  /\ phase[c] = "pending"
  /\ \E kind \in {"refused", "error"} : Reply(c, kind)
  /\ UNCHANGED store

\* Reads answer without an effect; applied writes answer after it, and an
\* internal error may still hide it.
Conclude(c) ==
  /\ \/ phase[c] = "pending" /\ request[c].op = "get" /\ Reply(c, "ok")
     \/ phase[c] = "applied" /\ \E kind \in {"ok", "error"} : Reply(c, kind)
  /\ UNCHANGED store

\* The process dies: no request in flight is answered any more.
LoseAll ==
  /\ phase' = [c \in Clients |-> "idle"]
  /\ request' = [c \in Clients |-> NoCall]
  /\ UNCHANGED <<store, answer>>

ANext ==
  \/ \E c \in Clients :
       \/ Invoke(c) \/ ApplyCreate(c) \/ ApplyUpdate(c) \/ ApplyDelete(c)
       \/ Refuse(c) \/ Conclude(c)
  \/ LoseAll

ASpec == AInit /\ [][ANext]_avars
=============================================================================
