----------------------------- MODULE MCBookmarks -----------------------------
(* Small instances of Bookmarks for TLC. *)
EXTENDS Bookmarks, TLC

CONSTANTS c1, c2, c3

MCTwoClients == {c1, c2}
MCThreeClients == {c1, c2, c3}
MCSymmetry == Permutations(Clients)

\* One bookmark of ann, as two edits or so leave it.
MCStored ==
  [id \in {1} |-> [owner |-> "ann", version |-> 1, body |-> "a", tags |-> {"x"}]]

\* A second, newer bookmark that no call deletes: the largest rowid stays.
MCTwoStored ==
  [id \in {1, 2} |-> [owner |-> "ann", version |-> 1, body |-> "a", tags |-> {"x"}]]

Version(v) == IfMatch({MakeETag(v)})

Get(user, id) ==
  [op |-> "get", user |-> user, id |-> id, ifMatch |-> NoHeader,
   body |-> Null, tags |-> Null]

Create(user, body, tags) ==
  [op |-> "create", user |-> user, id |-> 0, ifMatch |-> NoHeader,
   body |-> body, tags |-> tags]

Update(user, id, header, body, tags) ==
  [op |-> "update", user |-> user, id |-> id, ifMatch |-> header,
   body |-> body, tags |-> tags]

Delete(user, id, header) ==
  [op |-> "delete", user |-> user, id |-> id, ifMatch |-> header,
   body |-> Null, tags |-> Null]

\* Every way to read and edit one bookmark, with every kind of header.
MCEdits ==
  {Get("ann", 1),
   Update("ann", 1, Version(1), "b", Null),
   Update("ann", 1, Version(2), "a", Null),
   Update("ann", 1, Version(1), Null, <<"y">>),
   Update("ann", 1, IfMatch({Star}), "b", <<>>),
   Update("ann", 1, NoHeader, "b", Null),
   Delete("ann", 1, Version(1)),
   Delete("ann", 1, IfMatch({WeakETag(1), MakeETag(2)}))}

\* Creation, and requests for a bookmark of somebody else.
MCOwners ==
  {Create("ann", "a", <<"x">>), Create("bob", "b", <<"y">>),
   Get("bob", 1), Update("bob", 1, IfMatch({Star}), "b", Null),
   Update("bob", 2, Version(1), "a", <<"x">>)}

MCRequests == MCEdits \cup MCOwners

\* New tags in opposite orders, and deletion against an edit that removes a tag.
MCTagging ==
  {Create("ann", "a", <<"y", "z">>), Create("ann", "a", <<"z", "y">>),
   Update("ann", 1, IfMatch({Star}), Null, <<"z">>),
   Delete("ann", 1, IfMatch({Star}))}

\* Edits of the older of two bookmarks, and new bookmarks beside them, with new
\* tags in opposite orders.
MCPinned ==
  {Get("ann", 1), Create("ann", "c", <<"y", "x">>), Create("ann", "a", <<"z", "y">>),
   Update("ann", 1, Version(1), Null, <<"y">>),
   Update("ann", 1, Version(2), "b", <<"x", "z">>),
   Delete("ann", 1, Version(1)), Delete("ann", 1, IfMatch({Star}))}

\* A bookmark is deleted and another created while a client holds its ETag.
MCReuse ==
  {Get("ann", 1), Update("ann", 1, Version(1), "b", Null),
   Delete("ann", 1, Version(1)), Create("ann", "c", <<>>)}
=============================================================================
