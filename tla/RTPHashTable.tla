------------------------------ MODULE RTPHashTable ------------------------------
(***************************************************************************)
(* RTPHashTable and RTPKeyHashTable (rtphashtable.h, rtpkeyhashtable.h),   *)
(* pointer by pointer: an element is linked into the chain of its bucket   *)
(* and into one list of all elements, and a cursor inside the table is     *)
(* what every search and iteration moves.  The two templates are the same  *)
(* code; the second keeps a value with each key.                           *)
(*                                                                         *)
(* An element is named by its key, since the table has no key twice.  WILD *)
(* is a pointer that was never set or whose element was deleted.           *)
(***************************************************************************)
EXTENDS Naturals, Sequences, FiniteSets

CONSTANTS
  NULL, WILD,
  HashSize,     \* hashsize, the number of buckets
  GetIndex(_)   \* the bucket of a key

Bucket == 0 .. HashSize - 1
NoLinks == [k \in {} |-> NULL]

\* The constructor does not set the cursor.
EmptyTable ==
  [table |-> [b \in Bucket |-> NULL], first |-> NULL, last |-> NULL, cur |-> WILD,
   hashprev |-> NoLinks, hashnext |-> NoLinks, listprev |-> NoLinks, listnext |-> NoLinks]

Elements(t) == DOMAIN t.listnext

\* The elements from p on along next.
Path(next, p) ==
  LET walk[n \in 0 .. Cardinality(DOMAIN next)] ==
        IF n = 0 THEN <<>>
        ELSE LET w == walk[n - 1]  q == IF w = <<>> THEN p ELSE next[w[Len(w)]]
             IN IF q = NULL THEN w ELSE Append(w, q)
  IN walk[Cardinality(DOMAIN next)]

Listed(t) == Path(t.listnext, t.first)
Chain(t, b) == Path(t.hashnext, t.table[b])

HasElement(t, k) == \E i \in DOMAIN Chain(t, GetIndex(k)) : Chain(t, GetIndex(k))[i] = k

\* A search that finds nothing leaves the cursor at the end.
GotoElement(t, k) == [t EXCEPT !.cur = IF HasElement(t, k) THEN k ELSE NULL]

GotoFirstElement(t) == [t EXCEPT !.cur = t.first]
HasCurrentElement(t) == t.cur # NULL
GotoNextElement(t) == [t EXCEPT !.cur = IF @ = NULL THEN NULL ELSE t.listnext[@]]
GotoPreviousElement(t) == [t EXCEPT !.cur = IF @ = NULL THEN NULL ELSE t.listprev[@]]

\* next[p] = q, if there is a p.
Linked(next, p, q) == IF p = NULL THEN next ELSE [next EXCEPT ![p] = q]
Extended(next, k, q) == [x \in DOMAIN next \cup {k} |-> IF x = k THEN q ELSE next[x]]
Reduced(next, k) == [x \in DOMAIN next \ {k} |-> next[x]]

\* Mutant: the cursor is moved to the new element.
AddAndGoto(t, k) ==
  LET b == GetIndex(k)
  IN IF HasElement(t, k) THEN t
     ELSE [table |-> [t.table EXCEPT ![b] = k],
           first |-> IF t.first = NULL THEN k ELSE t.first,
           last |-> k, cur |-> k,
           hashnext |-> Extended(t.hashnext, k, t.table[b]),
           hashprev |-> Extended(Linked(t.hashprev, t.table[b], k), k, NULL),
           listnext |-> Extended(Linked(t.listnext, t.last, k), k, NULL),
           listprev |-> Extended(t.listprev, k, t.last)]

\* At the head of its bucket, at the end of the list; a key that is there
\* already is an error.
AddElement(t, k) ==
  LET b == GetIndex(k)
  IN IF HasElement(t, k) THEN t
     ELSE [table |-> [t.table EXCEPT ![b] = k],
           first |-> IF t.first = NULL THEN k ELSE t.first,
           last |-> k, cur |-> t.cur,
           hashnext |-> Extended(t.hashnext, k, t.table[b]),
           hashprev |-> Extended(Linked(t.hashprev, t.table[b], k), k, NULL),
           listnext |-> Extended(Linked(t.listnext, t.last, k), k, NULL),
           listprev |-> Extended(t.listprev, k, t.last)]

\* The cursor moves on to the next element of the list.
DeleteCurrentElement(t) ==
  LET e == t.cur
      hp == t.hashprev[e]  hn == t.hashnext[e]  lp == t.listprev[e]  ln == t.listnext[e]
  IN IF e = NULL THEN t
     ELSE [table |-> IF hp = NULL THEN [t.table EXCEPT ![GetIndex(e)] = hn] ELSE t.table,
           first |-> IF lp = NULL THEN ln ELSE t.first,
           last |-> IF ln = NULL THEN lp ELSE t.last,
           cur |-> ln,
           hashnext |-> Reduced(Linked(t.hashnext, hp, hn), e),
           hashprev |-> Reduced(Linked(t.hashprev, hn, hp), e),
           listnext |-> Reduced(Linked(t.listnext, lp, ln), e),
           listprev |-> Reduced(Linked(t.listprev, ln, lp), e)]

DeleteElement(t, k) == DeleteCurrentElement(GotoElement(t, k))

\* All elements are freed; the cursor is left where it was.
Clear(t) == [EmptyTable EXCEPT !.cur = IF t.cur = NULL THEN NULL ELSE WILD]

-----------------------------------------------------------------------------
(* RTPKeyHashTable: the keys, and the element of each. *)

EmptyMap == [keys |-> EmptyTable, elements |-> NoLinks]

MapHasElement(m, k) == HasElement(m.keys, k)
MapGotoElement(m, k) == [m EXCEPT !.keys = GotoElement(@, k)]
MapGotoFirstElement(m) == [m EXCEPT !.keys = GotoFirstElement(@)]
MapGotoNextElement(m) == [m EXCEPT !.keys = GotoNextElement(@)]
MapGotoPreviousElement(m) == [m EXCEPT !.keys = GotoPreviousElement(@)]
GetCurrentElement(m) == m.elements[m.keys.cur]
SetCurrentElement(m, e) == [m EXCEPT !.elements[m.keys.cur] = e]

MapAddElement(m, k, e) ==
  IF HasElement(m.keys, k) THEN m
  ELSE [keys |-> AddElement(m.keys, k), elements |-> Extended(m.elements, k, e)]

MapDeleteCurrentElement(m) ==
  [keys |-> DeleteCurrentElement(m.keys), elements |-> Reduced(m.elements, m.keys.cur)]

MapClear(m) == [keys |-> Clear(m.keys), elements |-> NoLinks]

-----------------------------------------------------------------------------
Reversed(s) == [i \in DOMAIN s |-> s[Len(s) + 1 - i]]

\* A table is whole: forwards and backwards its list has the same elements, all
\* of them once, and every bucket has the ones whose index it is.
Whole(t) ==
  LET inList == Listed(t)
      range(s) == {s[i] : i \in DOMAIN s}
  IN /\ Reversed(inList) = Path(t.listprev, t.last)
     /\ range(inList) = Elements(t) /\ Len(inList) = Cardinality(Elements(t))
     /\ \A b \in Bucket :
          /\ range(Chain(t, b)) = {k \in Elements(t) : GetIndex(k) = b}
          /\ \A k \in range(Chain(t, b)) :
               t.hashprev[k] = NULL <=> t.table[b] = k
          /\ \A i \in DOMAIN Chain(t, b) :
               i > 1 => t.hashprev[Chain(t, b)[i]] = Chain(t, b)[i - 1]

=============================================================================
