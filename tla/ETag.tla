-------------------------------- MODULE ETag --------------------------------
(***************************************************************************)
(* The version-based ETag service (app/utils/etag/etag.py).                *)
(*                                                                         *)
(* The ETag of a bookmark is its version number in quotes.  An If-Match    *)
(* header is a comma-separated list; only the kind of each entry and, for  *)
(* a quoted one, the number it names can influence the comparison, so a    *)
(* header is modelled as the set of its non-empty entries.  A quoted entry *)
(* that is not the decimal text of a version names version 0, which no     *)
(* bookmark has.                                                           *)
(***************************************************************************)
EXTENDS Naturals

EntryKinds == {"strong", "weak", "bare", "star"}

Entries == [kind : EntryKinds, version : Nat]

\* A header that is not sent, or holds only white space, is not "present".
Headers == [present : BOOLEAN, entries : SUBSET Entries]

NoHeader == [present |-> FALSE, entries |-> {}]

MakeETag(version) == [kind |-> "strong", version |-> version]

WeakETag(version) == [kind |-> "weak", version |-> version]

Star == [kind |-> "star", version |-> 0]

IfMatch(entries) == [present |-> TRUE, entries |-> entries]

\* Strong comparison: weak and unquoted entries never match, "*" always does.
Matches(header, version) ==
  \E entry \in header.entries :
    \/ entry.kind = "star"
    \/ entry = MakeETag(version)
=============================================================================
