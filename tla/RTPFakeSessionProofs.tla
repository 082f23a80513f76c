-------------------------- MODULE RTPFakeSessionProofs --------------------------
(***************************************************************************)
(* Proofs about RTPFakeSession, for any destinations, sources, sizes and   *)
(* packets: its tables serve the loops over them, it can be created again, *)
(* what it sends parses and is numbered without a gap, the walks of the    *)
(* application miss nothing, and what is known of a source is what its     *)
(* SDES packets, of which the reader finds every item, said of it.         *)
(***************************************************************************)
EXTENDS RTPFakeSession, FiniteSetTheorems, SequenceTheorems, TLAPS

\* What is proved of hash tables, for the two that the session has.
DP == INSTANCE RTPHashTableProofs WITH NULL <- None, GetIndex <- DestinationIndex
HP == INSTANCE RTPHashTableProofs WITH NULL <- None, GetIndex <- HostIndex

-----------------------------------------------------------------------------
(* The tables of the model are those of the proofs. *)

LEMMA DestinationTables ==
  /\ D!EmptyTable = DP!EmptyTable
  /\ \A t : D!Elements(t) = DP!Elements(t) /\ D!Listed(t) = DP!Listed(t)
  /\ \A t, k : D!HasElement(t, k) <=> DP!HasElement(t, k)
  /\ \A t : D!Whole(t) <=> DP!Whole(t)
  /\ \A t, k : D!AddElement(t, k) = DP!AddElement(t, k)
  /\ \A t : D!DeleteCurrentElement(t) = DP!DeleteCurrentElement(t)
<1>1. D!EmptyTable = DP!EmptyTable
  BY DEF D!EmptyTable, D!Bucket, D!NoLinks, DP!EmptyTable, DP!Bucket, DP!NoLinks
<1>2. \A next, p : D!Path(next, p) = DP!Path(next, p)
  <2> SUFFICES ASSUME NEW next, NEW p PROVE D!Path(next, p) = DP!Path(next, p)
    OBVIOUS
  <2> QED BY Zenon DEF D!Path, DP!Path, D!Cardinality, DP!Cardinality
<1>3. \A t : D!Elements(t) = DP!Elements(t) /\ D!Listed(t) = DP!Listed(t)
  BY <1>2 DEF D!Elements, D!Listed, DP!Elements, DP!Listed
<1>4. \A t, b : D!Chain(t, b) = DP!Chain(t, b)
  BY <1>2 DEF D!Chain, DP!Chain
<1>5. \A t, k : D!HasElement(t, k) <=> DP!HasElement(t, k)
  BY <1>4 DEF D!HasElement, DP!HasElement
<1>6. \A t : D!Whole(t) <=> DP!Whole(t)
  <2> SUFFICES ASSUME NEW t PROVE D!Whole(t) <=> DP!Whole(t)
    OBVIOUS
  <2> QED BY Zenon DEF D!Whole, D!Listed, D!Path, D!Chain, D!Elements, D!Bucket, D!Reversed, D!Cardinality,
                    DP!Whole, DP!Listed, DP!Path, DP!Chain, DP!Elements, DP!Bucket, DP!Reversed, DP!Cardinality
<1>7. \A t, k : D!AddElement(t, k) = DP!AddElement(t, k)
  BY <1>5 DEF D!AddElement, D!Extended, D!Linked, DP!AddElement, DP!Extended, DP!Linked
<1>8. \A t : D!DeleteCurrentElement(t) = DP!DeleteCurrentElement(t)
  BY DEF D!DeleteCurrentElement, D!Reduced, D!Linked, DP!DeleteCurrentElement, DP!Reduced, DP!Linked
<1> QED BY <1>1, <1>3, <1>5, <1>6, <1>7, <1>8

LEMMA HostTables ==
  /\ H!EmptyTable = HP!EmptyTable
  /\ \A next, p : H!Path(next, p) = HP!Path(next, p)
  /\ \A t : H!Elements(t) = HP!Elements(t) /\ H!Listed(t) = HP!Listed(t)
  /\ \A t, k : H!HasElement(t, k) <=> HP!HasElement(t, k)
  /\ \A t : H!Whole(t) <=> HP!Whole(t)
  /\ \A t, k : H!AddElement(t, k) = HP!AddElement(t, k)
  /\ \A t : H!DeleteCurrentElement(t) = HP!DeleteCurrentElement(t)
<1>1. H!EmptyTable = HP!EmptyTable
  BY DEF H!EmptyTable, H!Bucket, H!NoLinks, HP!EmptyTable, HP!Bucket, HP!NoLinks
<1>2. \A next, p : H!Path(next, p) = HP!Path(next, p)
  <2> SUFFICES ASSUME NEW next, NEW p PROVE H!Path(next, p) = HP!Path(next, p)
    OBVIOUS
  <2> QED BY Zenon DEF H!Path, HP!Path, H!Cardinality, HP!Cardinality
<1>3. \A t : H!Elements(t) = HP!Elements(t) /\ H!Listed(t) = HP!Listed(t)
  BY <1>2 DEF H!Elements, H!Listed, HP!Elements, HP!Listed
<1>4. \A t, b : H!Chain(t, b) = HP!Chain(t, b)
  BY <1>2 DEF H!Chain, HP!Chain
<1>5. \A t, k : H!HasElement(t, k) <=> HP!HasElement(t, k)
  BY <1>4 DEF H!HasElement, HP!HasElement
<1>6. \A t : H!Whole(t) <=> HP!Whole(t)
  <2> SUFFICES ASSUME NEW t PROVE H!Whole(t) <=> HP!Whole(t)
    OBVIOUS
  <2> QED BY Zenon DEF H!Whole, H!Listed, H!Path, H!Chain, H!Elements, H!Bucket, H!Reversed, H!Cardinality,
                    HP!Whole, HP!Listed, HP!Path, HP!Chain, HP!Elements, HP!Bucket, HP!Reversed, HP!Cardinality
<1>7. \A t, k : H!AddElement(t, k) = HP!AddElement(t, k)
  BY <1>5 DEF H!AddElement, H!Extended, H!Linked, HP!AddElement, HP!Extended, HP!Linked
<1>8. \A t : H!DeleteCurrentElement(t) = HP!DeleteCurrentElement(t)
  BY DEF H!DeleteCurrentElement, H!Reduced, H!Linked, HP!DeleteCurrentElement, HP!Reduced, HP!Linked
<1> QED BY <1>1, <1>2, <1>3, <1>5, <1>6, <1>7, <1>8

-----------------------------------------------------------------------------
(* The table of destinations. *)

LEMMA DestinationIndexIs ==
  \A d \in Destination : DestinationIndex(d) \in DP!Bucket /\ d # None
<1> SUFFICES ASSUME NEW d \in Destination PROVE DestinationIndex(d) \in DP!Bucket /\ d # None
  OBVIOUS
<1>1. d \in Nat \X Nat /\ HashSize \in Nat \ {0} /\ d # None
  BY FakeSessionAssumption
<1>2. d[1] \in Nat
  BY <1>1
<1>3. d[1] % HashSize \in 0 .. HashSize - 1
  BY <1>1, <1>2
<1> QED BY <1>1, <1>3 DEF DestinationIndex, DP!Bucket

\* A sound table of destinations.
DestinationsSound(t) == DP!Sound(t) /\ D!Elements(t) \subseteq Destination

LEMMA DestinationsWhole ==
  ASSUME NEW t, DestinationsSound(t)
  PROVE  D!Whole(t)
  BY DP!SoundIsWhole, DestinationTables DEF DestinationsSound

\* q is the list of a table: each destination once, linked forwards.
DestinationList(t, q) ==
  /\ q \in Seq(D!Elements(t)) /\ None \notin D!Elements(t)
  /\ \A i, j \in 1 .. Len(q) : q[i] = q[j] => i = j
  /\ \A x \in D!Elements(t) : \E i \in 1 .. Len(q) : q[i] = x
  /\ t.first = IF Len(q) = 0 THEN None ELSE q[1]
  /\ \A i \in 1 .. Len(q) : t.listnext[q[i]] = IF i = Len(q) THEN None ELSE q[i + 1]

LEMMA DestinationsListed ==
  ASSUME NEW t, DestinationsSound(t), NEW q, q = D!Listed(t)
  PROVE  DestinationList(t, q)
<1>1. D!Listed(t) = DP!Listed(t) /\ D!Elements(t) = DP!Elements(t)
  BY DestinationTables
<1>2. DP!Sound(t) /\ q = DP!Listed(t)
  BY <1>1 DEF DestinationsSound
<1>3. DP!ListIn(t, q)
  BY ONLY <1>2, DP!ListIs, Zenon
<1>4. D!Elements(t) = DP!Elements(t)
  BY <1>1
<1> QED BY ONLY <1>3, <1>4, Zenon DEF DestinationList, DP!ListIn

LEMMA DestinationsCursor ==
  ASSUME NEW t, DestinationsSound(t), NEW x, NEW u, u = [t EXCEPT !.cur = x]
  PROVE  /\ DestinationsSound(u) /\ D!Elements(u) = D!Elements(t) /\ D!Listed(u) = D!Listed(t)
         /\ u.cur = x /\ u.listnext = t.listnext
<1>1. DP!Sound(u) /\ DP!Elements(u) = DP!Elements(t) /\ DP!Listed(u) = DP!Listed(t) /\ u.cur = x
  BY DP!CursorMoves DEF DestinationsSound
<1>2. D!Listed(t) = DP!Listed(t) /\ D!Elements(t) = DP!Elements(t)
  BY DestinationTables
<1>3. D!Listed(u) = DP!Listed(u) /\ D!Elements(u) = DP!Elements(u)
  BY DestinationTables
<1>4. u.listnext = t.listnext
  <2>1. t = [f \in DP!Field |-> t[f]]
    BY DEF DestinationsSound, DP!Sound
  <2> QED BY <2>1 DEF DP!Field
<1> QED BY <1>1, <1>2, <1>3, <1>4 DEF DestinationsSound

LEMMA DestinationsAdd ==
  ASSUME NEW t, DestinationsSound(t), NEW d \in Destination, NEW u, u = D!AddElement(t, d)
  PROVE  /\ DestinationsSound(u) /\ D!Elements(u) = D!Elements(t) \cup {d} /\ u.cur = t.cur
         /\ D!Listed(u) = IF d \in D!Elements(t) THEN D!Listed(t) ELSE Append(D!Listed(t), d)
<1>1. D!Listed(t) = DP!Listed(t) /\ D!Elements(t) = DP!Elements(t)
  BY DestinationTables
<1>2. D!Listed(u) = DP!Listed(u) /\ D!Elements(u) = DP!Elements(u)
  BY DestinationTables
<1>3. DestinationIndex(d) \in DP!Bucket /\ d # None
  BY DestinationIndexIs
<1>4. D!HasElement(t, d) <=> d \in D!Elements(t)
  <2>1. D!HasElement(t, d) <=> DP!HasElement(t, d)
    BY DestinationTables
  <2>2. DP!HasElement(t, d) <=> d \in DP!Elements(t)
    BY <1>3, DP!SearchIs DEF DestinationsSound
  <2> QED BY <1>1, <2>1, <2>2
<1>5. CASE d \in D!Elements(t)
  <2>1. u = t
    BY <1>4, <1>5 DEF D!AddElement
  <2> QED BY <1>5, <2>1
<1>6. CASE d \notin D!Elements(t)
  <2>1. u = DP!AddElement(t, d)
    BY DestinationTables
  <2>2. /\ DP!Sound(u) /\ DP!Elements(u) = DP!Elements(t) \cup {d}
        /\ DP!Listed(u) = Append(DP!Listed(t), d) /\ u.cur = t.cur
    BY <1>1, <1>3, <1>6, <2>1, DP!AddSound DEF DestinationsSound
  <2> QED BY <1>1, <1>2, <1>6, <2>2 DEF DestinationsSound
<1> QED BY <1>5, <1>6

LEMMA DestinationsDelete ==
  ASSUME NEW t, DestinationsSound(t), NEW d \in Destination, NEW u, u = D!DeleteElement(t, d)
  PROVE  DestinationsSound(u) /\ u.cur \in D!Elements(u) \cup {None}
<1> DEFINE v == D!GotoElement(t, d)
<1>1. u = D!DeleteCurrentElement(v)
  BY DEF D!DeleteElement
<1>2. v = [t EXCEPT !.cur = IF D!HasElement(t, d) THEN d ELSE None]
  BY DEF D!GotoElement
<1> HIDE DEF v
<1>3. /\ DestinationsSound(v) /\ D!Elements(v) = D!Elements(t)
      /\ v.cur = IF D!HasElement(t, d) THEN d ELSE None
  BY <1>2, DestinationsCursor
<1>4. CASE ~D!HasElement(t, d)
  <2>1. u = v
    BY <1>1, <1>3, <1>4 DEF D!DeleteCurrentElement
  <2> QED BY <1>3, <1>4, <2>1
<1>5. CASE D!HasElement(t, d)
  <2>1. d \in DP!Elements(t)
    <3>1. DestinationIndex(d) \in DP!Bucket
      BY DestinationIndexIs
    <3>2. DP!HasElement(t, d)
      BY <1>5, DestinationTables
    <3> QED BY <3>1, <3>2, DP!SearchIs DEF DestinationsSound
  <2>2. DP!Sound(v) /\ v.cur \in DP!Elements(v)
    <3>1. DP!Elements(v) = D!Elements(v) /\ DP!Elements(t) = D!Elements(t)
      BY DestinationTables
    <3> QED BY <1>3, <1>5, <2>1, <3>1 DEF DestinationsSound
  <2>3. u = DP!DeleteCurrentElement(v)
    BY <1>1, DestinationTables
  <2>4. /\ DP!Sound(u) /\ DP!Elements(u) = DP!Elements(v) \ {v.cur}
        /\ u.cur = v.listnext[v.cur]
    BY <2>2, <2>3, DP!DeleteSound
  <2>5. D!Elements(u) = DP!Elements(u) /\ D!Elements(v) = DP!Elements(v)
    BY DestinationTables
  <2>6. u.cur \in D!Elements(u) \cup {None}
    <3>1. PICK q : q = D!Listed(v)
      OBVIOUS
    <3>2. DestinationList(v, q)
      BY <1>3, <3>1, DestinationsListed
    <3>3. Len(q) \in Nat /\ \A i \in 1 .. Len(q) : q[i] \in D!Elements(v)
      BY <3>2 DEF DestinationList
    <3>4. PICK i \in 1 .. Len(q) : q[i] = v.cur
      BY <2>2, <2>5, <3>2 DEF DestinationList
    <3>5. u.cur = IF i = Len(q) THEN None ELSE q[i + 1]
      BY <2>4, <3>2, <3>4 DEF DestinationList
    <3>6. ASSUME i # Len(q)
          PROVE  q[i + 1] \in D!Elements(v) /\ q[i + 1] # v.cur
      <4>1. i + 1 \in 1 .. Len(q) /\ i + 1 # i
        BY <3>3, <3>6
      <4>2. q[i + 1] # q[i]
        BY <3>2, <4>1 DEF DestinationList
      <4> QED BY <3>3, <3>4, <4>1, <4>2
    <3> QED BY <2>4, <2>5, <3>5, <3>6
  <2> QED BY <1>3, <2>4, <2>5, <2>6 DEF DestinationsSound
<1> QED BY <1>4, <1>5

LEMMA DestinationsEmpty ==
  /\ DestinationsSound(D!EmptyTable)
  /\ \A t : DestinationsSound(D!Clear(t))
<1>1. ASSUME NEW x, NEW u, u = [D!EmptyTable EXCEPT !.cur = x] PROVE DestinationsSound(u)
  <2>1. u = [DP!EmptyTable EXCEPT !.cur = x]
    BY <1>1, DestinationTables
  <2>2. DP!Sound(u) /\ DP!Elements(u) = {}
    BY <2>1, DP!EmptySound
  <2>3. D!Elements(u) = DP!Elements(u)
    BY DestinationTables
  <2> QED BY <2>2, <2>3 DEF DestinationsSound
<1>2. D!EmptyTable = [D!EmptyTable EXCEPT !.cur = WILD]
  BY DEF D!EmptyTable
<1>3. DestinationsSound(D!EmptyTable)
  BY <1>1, <1>2
<1>4. ASSUME NEW t PROVE DestinationsSound(D!Clear(t))
  <2> DEFINE x == IF t.cur = None THEN None ELSE WILD
  <2>1. D!Clear(t) = [D!EmptyTable EXCEPT !.cur = x]
    BY DEF D!Clear
  <2> HIDE DEF x
  <2> QED BY <1>1, <2>1
<1> QED BY <1>3, <1>4

-----------------------------------------------------------------------------
(* The tables with a value for each key. *)

Key == Nat \ {None}

\* A sound map: a value for each key of a sound table.
MapSound(m) ==
  /\ m = [f \in {"keys", "elements"} |-> m[f]]
  /\ HP!Sound(m.keys) /\ DOMAIN m.elements = H!Elements(m.keys)

\* Its cursor is on an element, or at the end.
AtElement(m) == m.keys.cur \in H!Elements(m.keys) \cup {None}

LEMMA HostIndexIs == \A k \in Key : HostIndex(k) \in HP!Bucket /\ k # None
<1> SUFFICES ASSUME NEW k \in Key PROVE HostIndex(k) \in HP!Bucket /\ k # None
  OBVIOUS
<1>1. k \in Nat /\ HashSize \in Nat \ {0} /\ k # None
  BY FakeSessionAssumption DEF Key
<1>2. k % HashSize \in 0 .. HashSize - 1
  BY <1>1
<1> QED BY <1>1, <1>2 DEF HostIndex, HP!Bucket

LEMMA MapWhole ==
  ASSUME NEW m, MapSound(m)
  PROVE  H!Whole(m.keys)
  BY HP!SoundIsWhole, HostTables DEF MapSound

\* q is the list of a map: each key once, linked both ways.
MapList(m, q) ==
  /\ q \in Seq(DOMAIN m.elements) /\ None \notin DOMAIN m.elements
  /\ DOMAIN m.elements = H!Elements(m.keys)
  /\ \A i, j \in 1 .. Len(q) : q[i] = q[j] => i = j
  /\ \A x \in DOMAIN m.elements : \E i \in 1 .. Len(q) : q[i] = x
  /\ m.keys.first = IF Len(q) = 0 THEN None ELSE q[1]
  /\ \A i \in 1 .. Len(q) : m.keys.listnext[q[i]] = IF i = Len(q) THEN None ELSE q[i + 1]
  /\ \A i \in 1 .. Len(q) : m.keys.listprev[q[i]] = IF i = 1 THEN None ELSE q[i - 1]

LEMMA MapListed ==
  ASSUME NEW m, MapSound(m), NEW q, q = H!Listed(m.keys)
  PROVE  MapList(m, q)
<1> DEFINE t == m.keys
<1>1. H!Listed(t) = HP!Listed(t) /\ H!Elements(t) = HP!Elements(t)
  BY HostTables
<1>2. HP!Sound(t) /\ DOMAIN m.elements = HP!Elements(t) /\ q = HP!Listed(t)
  BY <1>1 DEF MapSound
<1> HIDE DEF t
<1>3. /\ q \in Seq(HP!Elements(t)) /\ None \notin HP!Elements(t)
      /\ \A i, j \in 1 .. Len(q) : q[i] = q[j] => i = j
      /\ \A x \in HP!Elements(t) : \E i \in 1 .. Len(q) : q[i] = x
      /\ t.first = IF Len(q) = 0 THEN None ELSE q[1]
      /\ \A i \in 1 .. Len(q) : t.listnext[q[i]] = IF i = Len(q) THEN None ELSE q[i + 1]
      /\ \A i \in 1 .. Len(q) : t.listprev[q[i]] = IF i = 1 THEN None ELSE q[i - 1]
  BY <1>2, HP!ListIs DEF HP!ListIn
<1> QED BY <1>1, <1>2, <1>3 DEF t, MapList

\* What stays when only the cursor moves.
Alike(u, m) ==
  /\ MapSound(u) /\ u.elements = m.elements
  /\ H!Elements(u.keys) = H!Elements(m.keys) /\ H!Listed(u.keys) = H!Listed(m.keys)
  /\ u.keys.listnext = m.keys.listnext /\ u.keys.listprev = m.keys.listprev

LEMMA MapCursor ==
  ASSUME NEW m, MapSound(m), NEW x, NEW u, u = [m EXCEPT !.keys.cur = x]
  PROVE  Alike(u, m) /\ u.keys.cur = x
<1>1. m = [f \in {"keys", "elements"} |-> m[f]] /\ HP!Sound(m.keys)
  BY DEF MapSound
<1>2. u.keys = [m.keys EXCEPT !.cur = x] /\ u.elements = m.elements
  BY <1>1
<1>3. u = [f \in {"keys", "elements"} |-> u[f]]
  BY <1>1
<1>4. /\ HP!Sound(u.keys) /\ HP!Elements(u.keys) = HP!Elements(m.keys)
      /\ HP!Listed(u.keys) = HP!Listed(m.keys) /\ u.keys.cur = x
  BY <1>1, <1>2, HP!CursorMoves
<1>5. /\ H!Elements(u.keys) = HP!Elements(u.keys) /\ H!Elements(m.keys) = HP!Elements(m.keys)
      /\ H!Listed(u.keys) = HP!Listed(u.keys) /\ H!Listed(m.keys) = HP!Listed(m.keys)
  BY HostTables
<1>6. u.keys.listnext = m.keys.listnext /\ u.keys.listprev = m.keys.listprev
  <2>1. m.keys = [f \in HP!Field |-> m.keys[f]]
    BY <1>1 DEF HP!Sound
  <2> QED BY <1>2, <2>1 DEF HP!Field
<1> QED BY <1>2, <1>3, <1>4, <1>5, <1>6 DEF MapSound, Alike

LEMMA MapGoto ==
  ASSUME NEW m, MapSound(m), NEW k \in Key, NEW u, u = H!MapGotoElement(m, k)
  PROVE  Alike(u, m) /\ AtElement(u) /\ u.keys.cur = IF k \in DOMAIN m.elements THEN k ELSE None
<1> DEFINE x == IF H!HasElement(m.keys, k) THEN k ELSE None
<1>1. u = [m EXCEPT !.keys.cur = x]
  BY DEF H!MapGotoElement, H!GotoElement
<1>2. H!HasElement(m.keys, k) <=> k \in DOMAIN m.elements
  <2>1. HostIndex(k) \in HP!Bucket
    BY HostIndexIs
  <2>2. HP!HasElement(m.keys, k) <=> k \in HP!Elements(m.keys)
    BY <2>1, HP!SearchIs DEF MapSound
  <2> QED BY <2>2, HostTables DEF MapSound
<1>3. x = IF k \in DOMAIN m.elements THEN k ELSE None
  BY <1>2
<1> HIDE DEF x
<1>4. Alike(u, m) /\ u.keys.cur = x
  BY <1>1, MapCursor
<1>5. x \in H!Elements(u.keys) \cup {None}
  BY <1>3, <1>4 DEF Alike, MapSound
<1> QED BY <1>3, <1>4, <1>5 DEF AtElement

LEMMA MapFirst ==
  ASSUME NEW m, MapSound(m), NEW u, u = H!MapGotoFirstElement(m), NEW q, q = H!Listed(m.keys)
  PROVE  Alike(u, m) /\ AtElement(u) /\ u.keys.cur = IF Len(q) = 0 THEN None ELSE q[1]
<1> DEFINE x == m.keys.first
<1>1. u = [m EXCEPT !.keys.cur = x]
  <2>1. m = [f \in {"keys", "elements"} |-> m[f]]
    BY DEF MapSound
  <2> QED BY <2>1 DEF H!MapGotoFirstElement, H!GotoFirstElement
<1>0. MapList(m, q)
  BY MapListed
<1>2. x = IF Len(q) = 0 THEN None ELSE q[1]
  BY <1>0 DEF MapList
<1>3. x \in H!Elements(m.keys) \cup {None}
  <2>1. q \in Seq(DOMAIN m.elements) /\ DOMAIN m.elements = H!Elements(m.keys)
    BY <1>0 DEF MapList
  <2>2. Len(q) # 0 => q[1] \in DOMAIN m.elements
    BY <2>1
  <2> QED BY <1>2, <2>1, <2>2
<1> HIDE DEF x
<1>4. Alike(u, m) /\ u.keys.cur = x
  BY <1>1, MapCursor
<1> QED BY <1>2, <1>3, <1>4 DEF AtElement, Alike

\* Where the links of an element lead.
LEMMA MapLinks ==
  ASSUME NEW m, MapSound(m), NEW e \in DOMAIN m.elements
  PROVE  /\ m.keys.listnext[e] \in H!Elements(m.keys) \cup {None}
         /\ m.keys.listprev[e] \in H!Elements(m.keys) \cup {None}
         /\ m.keys.listnext[e] # e
<1>0. PICK q : MapList(m, q)
  BY MapListed
<1>1. /\ q \in Seq(DOMAIN m.elements) /\ None \notin DOMAIN m.elements
      /\ DOMAIN m.elements = H!Elements(m.keys)
      /\ \A x \in DOMAIN m.elements : \E i \in 1 .. Len(q) : q[i] = x
      /\ \A i \in 1 .. Len(q) : m.keys.listnext[q[i]] = IF i = Len(q) THEN None ELSE q[i + 1]
      /\ \A i \in 1 .. Len(q) : m.keys.listprev[q[i]] = IF i = 1 THEN None ELSE q[i - 1]
  BY <1>0 DEF MapList
<1>2. PICK i \in 1 .. Len(q) : q[i] = e
  BY <1>1
<1>3. Len(q) \in Nat /\ \A j \in 1 .. Len(q) : q[j] \in DOMAIN m.elements
  <2>1. PICK S : S = DOMAIN m.elements
    OBVIOUS
  <2>2. q \in Seq(S)
    BY ONLY <1>1, <2>1
  <2>3. Len(q) \in Nat /\ \A j \in 1 .. Len(q) : q[j] \in S
    BY ONLY <2>2
  <2> QED BY ONLY <2>1, <2>3
<1>4. (i # Len(q) => i + 1 \in 1 .. Len(q)) /\ (i # 1 => i - 1 \in 1 .. Len(q))
  BY <1>3
<1>5. \A j, l \in 1 .. Len(q) : q[j] = q[l] => j = l
  BY <1>0 DEF MapList
<1>6. m.keys.listnext[e] # e
  <2>1. m.keys.listnext[e] = IF i = Len(q) THEN None ELSE q[i + 1]
    BY <1>1, <1>2
  <2>2. CASE i = Len(q)
    BY <1>1, <2>1, <2>2
  <2>3. CASE i # Len(q)
    <3>1. i + 1 \in 1 .. Len(q) /\ i + 1 # i
      BY <1>4, <2>3
    <3> QED BY <1>2, <1>5, <2>1, <2>3, <3>1
  <2> QED BY <2>2, <2>3
<1> QED BY <1>1, <1>2, <1>3, <1>4, <1>6

LEMMA MapNext ==
  ASSUME NEW m, MapSound(m), AtElement(m), NEW u, u = H!MapGotoNextElement(m)
  PROVE  /\ Alike(u, m) /\ AtElement(u)
         /\ u.keys.cur = IF m.keys.cur = None THEN None ELSE m.keys.listnext[m.keys.cur]
<1> DEFINE x == IF m.keys.cur = None THEN None ELSE m.keys.listnext[m.keys.cur]
<1>1. u = [m EXCEPT !.keys.cur = x]
  <2>1. m = [f \in {"keys", "elements"} |-> m[f]]
    BY DEF MapSound
  <2> QED BY <2>1 DEF H!MapGotoNextElement, H!GotoNextElement
<1>2. x \in H!Elements(m.keys) \cup {None}
  BY MapLinks DEF AtElement, MapSound
<1> HIDE DEF x
<1>3. Alike(u, m) /\ u.keys.cur = x
  BY <1>1, MapCursor
<1> QED BY <1>2, <1>3 DEF AtElement, Alike, x

LEMMA MapPrevious ==
  ASSUME NEW m, MapSound(m), AtElement(m), NEW u, u = H!MapGotoPreviousElement(m)
  PROVE  Alike(u, m) /\ AtElement(u)
<1> DEFINE x == IF m.keys.cur = None THEN None ELSE m.keys.listprev[m.keys.cur]
<1>1. u = [m EXCEPT !.keys.cur = x]
  <2>1. m = [f \in {"keys", "elements"} |-> m[f]]
    BY DEF MapSound
  <2> QED BY <2>1 DEF H!MapGotoPreviousElement, H!GotoPreviousElement
<1>2. x \in H!Elements(m.keys) \cup {None}
  BY MapLinks DEF AtElement, MapSound
<1> HIDE DEF x
<1>3. Alike(u, m) /\ u.keys.cur = x
  BY <1>1, MapCursor
<1> QED BY <1>2, <1>3 DEF AtElement, Alike

LEMMA MapSet ==
  ASSUME NEW m, MapSound(m), NEW e, NEW u, u = H!SetCurrentElement(m, e)
  PROVE  /\ MapSound(u) /\ u.keys = m.keys /\ DOMAIN u.elements = DOMAIN m.elements
         /\ \A k \in DOMAIN m.elements : u.elements[k] = IF k = m.keys.cur THEN e ELSE m.elements[k]
<1>1. m = [f \in {"keys", "elements"} |-> m[f]]
  BY DEF MapSound
<1>2. u = [m EXCEPT !.elements[m.keys.cur] = e]
  BY DEF H!SetCurrentElement
<1>3. u.keys = m.keys /\ u.elements = [m.elements EXCEPT ![m.keys.cur] = e]
  BY <1>1, <1>2
<1>4. u = [f \in {"keys", "elements"} |-> u[f]]
  BY <1>1, <1>2
<1> QED BY <1>3, <1>4 DEF MapSound

\* A key that is not there comes to the end of the list.
LEMMA MapAdd ==
  ASSUME NEW m, MapSound(m), NEW k \in Key, k \notin DOMAIN m.elements, NEW e,
         NEW u, u = H!MapAddElement(m, k, e)
  PROVE  MapSound(u) /\ DOMAIN u.elements = DOMAIN m.elements \cup {k} /\ u.keys.cur = m.keys.cur
<1>1. HostIndex(k) \in HP!Bucket /\ k # None
  BY HostIndexIs
<1>2. HP!Sound(m.keys) /\ k \notin HP!Elements(m.keys) /\ HP!Elements(m.keys) = DOMAIN m.elements
  BY HostTables DEF MapSound
<1>3. ~H!HasElement(m.keys, k)
  BY <1>1, <1>2, HP!SearchIs, HostTables
<1>4. u = [keys |-> H!AddElement(m.keys, k), elements |-> H!Extended(m.elements, k, e)]
  BY <1>3 DEF H!MapAddElement
<1>5. u.keys = HP!AddElement(m.keys, k)
  BY <1>4, HostTables
<1>6. HP!Sound(u.keys) /\ HP!Elements(u.keys) = DOMAIN m.elements \cup {k} /\ u.keys.cur = m.keys.cur
  BY <1>1, <1>2, <1>5, HP!AddSound
<1>7. DOMAIN u.elements = DOMAIN m.elements \cup {k} /\ u = [f \in {"keys", "elements"} |-> u[f]]
  BY <1>4 DEF H!Extended
<1> QED BY <1>6, <1>7, HostTables DEF MapSound

LEMMA MapDelete ==
  ASSUME NEW m, MapSound(m), m.keys.cur \in DOMAIN m.elements, NEW u, u = H!MapDeleteCurrentElement(m)
  PROVE  MapSound(u) /\ DOMAIN u.elements = DOMAIN m.elements \ {m.keys.cur} /\ AtElement(u)
<1> DEFINE t == m.keys
           e == t.cur
<1>1. u = [keys |-> H!DeleteCurrentElement(t), elements |-> H!Reduced(m.elements, e)]
  BY DEF H!MapDeleteCurrentElement
<1>2. HP!Sound(t) /\ e \in HP!Elements(t) /\ HP!Elements(t) = DOMAIN m.elements
  BY HostTables DEF MapSound
<1>3. t.listnext[e] \in H!Elements(t) \cup {None}
  BY MapLinks
<1>4. u.keys = HP!DeleteCurrentElement(t)
  BY <1>1, HostTables
<1>5. DOMAIN u.elements = DOMAIN m.elements \ {e} /\ u = [f \in {"keys", "elements"} |-> u[f]]
  BY <1>1 DEF H!Reduced
<1> HIDE DEF e, t
<1>6. HP!Sound(u.keys) /\ HP!Elements(u.keys) = HP!Elements(t) \ {e} /\ u.keys.cur = t.listnext[e]
  BY <1>2, <1>4, HP!DeleteSound DEF e
<1>7. MapSound(u)
  BY <1>2, <1>5, <1>6, HostTables DEF MapSound
<1>8. t.listnext[e] # e
  BY <1>2, MapLinks DEF e, t
<1>9. AtElement(u)
  <2>1. H!Elements(u.keys) = H!Elements(t) \ {e}
    BY <1>6, HostTables
  <2> QED BY <1>3, <1>6, <1>8, <2>1 DEF AtElement
<1> QED BY <1>5, <1>7, <1>9 DEF e, t

LEMMA MapEmpty ==
  /\ MapSound(H!EmptyMap) /\ DOMAIN H!EmptyMap.elements = {}
  /\ \A m : /\ MapSound(H!MapClear(m)) /\ DOMAIN H!MapClear(m).elements = {}
            /\ m.keys.cur = None => H!MapClear(m).keys.cur = None
<1>1. ASSUME NEW x, NEW t, t = [H!EmptyTable EXCEPT !.cur = x],
             NEW u, u = [keys |-> t, elements |-> H!NoLinks]
      PROVE  MapSound(u) /\ DOMAIN u.elements = {} /\ u.keys.cur = x
  <2>1. t = [HP!EmptyTable EXCEPT !.cur = x]
    BY <1>1, HostTables
  <2>2. HP!Sound(t) /\ HP!Elements(t) = {} /\ t.cur = x
    BY <2>1, HP!EmptySound
  <2>3. H!Elements(t) = {}
    BY <2>2, HostTables
  <2>4. u.keys = t /\ DOMAIN u.elements = {} /\ u = [f \in {"keys", "elements"} |-> u[f]]
    BY <1>1 DEF H!NoLinks
  <2> QED BY <2>2, <2>3, <2>4 DEF MapSound
<1>2. H!EmptyTable = [H!EmptyTable EXCEPT !.cur = WILD]
  BY DEF H!EmptyTable
<1>3. MapSound(H!EmptyMap) /\ DOMAIN H!EmptyMap.elements = {}
  BY <1>1, <1>2 DEF H!EmptyMap
<1>4. ASSUME NEW m
      PROVE  /\ MapSound(H!MapClear(m)) /\ DOMAIN H!MapClear(m).elements = {}
             /\ m.keys.cur = None => H!MapClear(m).keys.cur = None
  <2> DEFINE x == IF m.keys.cur = None THEN None ELSE WILD
             t == H!Clear(m.keys)
  <2>1. t = [H!EmptyTable EXCEPT !.cur = x]
    BY DEF H!Clear
  <2>2. H!MapClear(m) = [keys |-> t, elements |-> H!NoLinks]
    BY DEF H!MapClear
  <2>3. m.keys.cur = None => x = None
    OBVIOUS
  <2> HIDE DEF x, t
  <2>4. MapSound(H!MapClear(m)) /\ DOMAIN H!MapClear(m).elements = {} /\ H!MapClear(m).keys.cur = x
    BY <1>1, <2>1, <2>2
  <2> QED BY <2>3, <2>4
<1> QED BY <1>3, <1>4

\* The paths from an element of a map.
LEMMA MapPaths ==
  ASSUME NEW m, MapSound(m), NEW q, q = H!Listed(m.keys)
  PROVE  /\ H!Path(m.keys.listnext, None) = <<>> /\ H!Path(m.keys.listprev, None) = <<>>
         /\ \A i \in 1 .. Len(q) : /\ H!Path(m.keys.listnext, q[i]) = HP!From(q, i)
                                  /\ H!Path(m.keys.listprev, q[i]) = HP!Back(q, i)
<1>1. HP!Sound(m.keys) /\ q = HP!Listed(m.keys)
  BY HostTables DEF MapSound
<1>2. /\ HP!Path(m.keys.listnext, None) = <<>> /\ HP!Path(m.keys.listprev, None) = <<>>
      /\ \A i \in 1 .. Len(q) : /\ HP!Path(m.keys.listnext, q[i]) = HP!From(q, i)
                               /\ HP!Path(m.keys.listprev, q[i]) = HP!Back(q, i)
  BY <1>1, HP!PathsAre
<1> QED BY <1>2, HostTables

LEMMA PathFromCursor ==
  ASSUME NEW m, MapSound(m), AtElement(m), NEW next \in {m.keys.listnext, m.keys.listprev}
  PROVE  H!Path(next, m.keys.cur) \in Seq(DOMAIN m.elements)
<1>1. PICK q : q = H!Listed(m.keys)
  OBVIOUS
<1>2. MapList(m, q)
  BY <1>1, MapListed
<1>3. /\ q \in Seq(DOMAIN m.elements) /\ DOMAIN m.elements = H!Elements(m.keys)
      /\ \A x \in DOMAIN m.elements : \E i \in 1 .. Len(q) : q[i] = x
  BY <1>2 DEF MapList
<1>4. PICK n : n = Len(q)
  OBVIOUS
<1>5. n \in Nat /\ \A i \in 1 .. n : q[i] \in DOMAIN m.elements
  BY <1>3, <1>4
<1>6. CASE m.keys.cur = None
  <2>1. H!Path(next, m.keys.cur) = <<>>
    BY <1>1, <1>6, MapPaths
  <2>2. <<>> \in Seq(DOMAIN m.elements)
    OBVIOUS
  <2> QED BY ONLY <2>1, <2>2, Zenon
<1>7. CASE m.keys.cur # None
  <2>1. PICK i \in 1 .. n : q[i] = m.keys.cur
    BY <1>3, <1>4, <1>7 DEF AtElement
  <2>2. HP!From(q, i) \in Seq(DOMAIN m.elements)
    <3>1. HP!From(q, i) = [l \in 1 .. n + 1 - i |-> q[l + i - 1]]
      BY <1>4 DEF HP!From
    <3>2. n + 1 - i \in Nat /\ \A l \in 1 .. n + 1 - i : l + i - 1 \in 1 .. n
      BY <1>5
    <3>3. \A l \in 1 .. n + 1 - i : q[l + i - 1] \in DOMAIN m.elements
      BY <1>5, <3>2
    <3> QED BY <3>1, <3>2, <3>3
  <2>3. HP!Back(q, i) \in Seq(DOMAIN m.elements)
    <3>1. HP!Back(q, i) = [l \in 1 .. i |-> q[i + 1 - l]]
      BY DEF HP!Back
    <3>2. i \in Nat /\ \A l \in 1 .. i : i + 1 - l \in 1 .. n
      BY <1>5
    <3>3. \A l \in 1 .. i : q[i + 1 - l] \in DOMAIN m.elements
      BY <1>5, <3>2
    <3> QED BY <3>1, <3>2, <3>3
  <2>4. H!Path(next, q[i]) \in {HP!From(q, i), HP!Back(q, i)}
    BY <1>1, <1>4, MapPaths
  <2> QED BY <2>1, <2>2, <2>3, <2>4
<1> QED BY <1>6, <1>7

\* The element that ToData comes to, on its way along a path.
FirstOn(m, path, x) ==
  \/ x = None /\ \A i \in 1 .. Len(path) : ~m.elements[path[i]]
  \/ \E i \in 1 .. Len(path) :
       x = path[i] /\ m.elements[path[i]] /\ \A j \in 1 .. Len(path) : j < i => ~m.elements[path[j]]

LEMMA ToDataIs ==
  ASSUME NEW m, MapSound(m), AtElement(m), NEW next \in {m.keys.listnext, m.keys.listprev},
         NEW u, u = ToData(m, next)
  PROVE  Alike(u, m) /\ AtElement(u) /\ FirstOn(m, H!Path(next, m.keys.cur), u.keys.cur)
<1>1. PICK path : path = H!Path(next, m.keys.cur)
  OBVIOUS
<1>2. path \in Seq(DOMAIN m.elements)
  BY <1>1, PathFromCursor
<1> DEFINE hits == {i \in DOMAIN path : m.elements[path[i]]}
           x == IF hits = {} THEN None ELSE path[CHOOSE i \in hits : \A j \in hits : i <= j]
<1>3. u = [m EXCEPT !.keys.cur = x]
  BY <1>1 DEF ToData
<1>4. DOMAIN path = 1 .. Len(path) /\ Len(path) \in Nat
  BY <1>2
<1>5. FirstOn(m, path, x)
  <2>1. CASE hits = {}
    <3>1. \A i \in DOMAIN path : ~m.elements[path[i]]
      BY <2>1, Zenon
    <3> QED BY <1>4, <2>1, <3>1 DEF FirstOn
  <2>2. CASE hits # {}
    <3>1. \A i \in hits : i \in 1 .. Len(path) /\ m.elements[path[i]]
      BY <1>4
    <3>2. \A i \in DOMAIN path : m.elements[path[i]] => i \in hits
      BY Zenon
    <3> HIDE DEF hits
    <3>3. hits \subseteq Nat
      BY <1>4, <3>1
    <3>4. \E i \in hits : \A j \in hits : i <= j
      BY <2>2, <3>3, HP!LeastOf
    <3>5. PICK i : i = CHOOSE k \in hits : \A j \in hits : k <= j
      OBVIOUS
    <3>6. i \in hits /\ \A j \in hits : i <= j
      BY <3>4, <3>5
    <3>7. x = path[i]
      BY <2>2, <3>5
    <3>8. ASSUME NEW j \in 1 .. Len(path), j < i PROVE ~m.elements[path[j]]
      <4>1. j \notin hits
        BY <3>3, <3>6, <3>8
      <4> QED BY <1>4, <3>2, <4>1, Zenon
    <3> HIDE DEF x
    <3>9. i \in 1 .. Len(path) /\ m.elements[path[i]]
      BY <3>1, <3>6
    <3> QED BY <3>7, <3>8, <3>9 DEF FirstOn
  <2> QED BY <2>1, <2>2
<1> HIDE DEF x
<1>6. Alike(u, m) /\ u.keys.cur = x
  <2>1. PICK y : y = x
    OBVIOUS
  <2>2. u = [m EXCEPT !.keys.cur = y]
    BY <1>3, <2>1
  <2>3. Alike(u, m) /\ u.keys.cur = y
    BY ONLY <2>2, MapSound(m), MapCursor
  <2> QED BY <2>1, <2>3
<1>7. x \in DOMAIN m.elements \cup {None}
  BY <1>2, <1>5 DEF FirstOn
<1>8. AtElement(u)
  BY <1>6, <1>7 DEF Alike, AtElement, MapSound
<1> QED BY <1>1, <1>5, <1>6, <1>8

LEMMA ObtainedIs ==
  ASSUME NEW m, MapSound(m), NEW k \in Key, NEW data, NEW u, u = Obtained(m, k, data)
  PROVE  MapSound(u) /\ AtElement(u) /\ DOMAIN u.elements = DOMAIN m.elements \cup {k}
<1>1. PICK g : g = H!MapGotoElement(m, k)
  OBVIOUS
<1>2. /\ Alike(g, m) /\ AtElement(g) /\ g.keys.cur = IF k \in DOMAIN m.elements THEN k ELSE None
  BY <1>1, MapGoto
<1>3. k # None
  BY DEF Key
<1>4. CASE k \in DOMAIN m.elements
  <2>1. u = g
    BY <1>1, <1>2, <1>3, <1>4 DEF Obtained, H!HasCurrentElement
  <2> QED BY <1>2, <1>4, <2>1 DEF Alike
<1>5. CASE k \notin DOMAIN m.elements
  <2>1. u = H!MapAddElement(g, k, data)
    BY <1>1, <1>2, <1>5 DEF Obtained, H!HasCurrentElement
  <2>2. MapSound(g) /\ k \notin DOMAIN g.elements /\ g.keys.cur = None
    BY <1>2, <1>5 DEF Alike
  <2>3. MapSound(u) /\ DOMAIN u.elements = DOMAIN g.elements \cup {k} /\ u.keys.cur = None
    BY <2>1, <2>2, MapAdd
  <2> QED BY <1>2, <2>3 DEF Alike, AtElement
<1> QED BY <1>4, <1>5

LEMMA KeysAre == SSRC \cup {OwnSSRC} \cup Host \subseteq Key
  BY FakeSessionAssumption DEF Key

LEMMA WithOwnIs ==
  ASSUME NEW m, MapSound(m), OwnSSRC \notin DOMAIN m.elements, NEW u, u = WithOwn(m)
  PROVE  MapSound(u) /\ AtElement(u)
<1>1. PICK g : g = H!MapGotoElement(m, OwnSSRC)
  OBVIOUS
<1>2. OwnSSRC \in Key
  BY KeysAre
<1>3. Alike(g, m) /\ g.keys.cur = None
  BY <1>1, <1>2, MapGoto
<1>0. PICK e : e = FALSE
  OBVIOUS
<1>4. u = H!MapAddElement(g, OwnSSRC, e)
  BY <1>0, <1>1 DEF WithOwn
<1>5. MapSound(g) /\ OwnSSRC \notin DOMAIN g.elements
  BY <1>3 DEF Alike
<1>6. MapSound(u) /\ u.keys.cur = None
  BY ONLY <1>2, <1>3, <1>4, <1>5, MapAdd
<1> QED BY <1>6 DEF AtElement

-----------------------------------------------------------------------------
(* Where the session is. *)

\* A send is under way exactly in the places for it, all of which are in a
\* session; a walk is there only between the calls of one.
ControlInv ==
  /\ created \in BOOLEAN /\ (created => trans)
  /\ sending \in {"no", "rtp", "rtcp"}
  /\ at \in {"idle", "sending", "process", "sweep", "report"}
  /\ at = "sending" <=> sending = "rtp"
  /\ at = "report" <=> sending = "rtcp"
  /\ at # "idle" => created
  /\ calling => at \in {"sending", "report"}
  /\ ~created => before = None
  /\ walk.kind # "no" => created /\ at = "idle" /\ part = "sources"

LEMMA ControlStep ==
  ASSUME ControlInv, [Next]_vars
  PROVE  ControlInv'
<1> USE DEF ControlInv, session, sent, described, loop, transVars, OnlySources, Walking, KeepsTrans
<1>1. ASSUME NEW size, CreateOwn(size) \/ CreateWith(size) PROVE ControlInv'
  <2>1. created' \in BOOLEAN /\ (created' => trans')
    <3>1. CASE CreateOwn(size)
      <4>1. (created' = TRUE /\ trans' = TRUE) \/ created' = FALSE
        BY <3>1 DEF CreateOwn, Initialised, Undone, TransCreate
      <4> QED BY <4>1
    <3>2. CASE CreateWith(size)
      BY <3>2 DEF CreateWith, Initialised, Undone
    <3> QED BY <1>1, <3>1, <3>2
  <2>2. ~created /\ at = "idle" /\ UNCHANGED <<part, at, sending, calling, before, walk>>
    <3>1. CASE CreateOwn(size)
      BY <3>1 DEF CreateOwn, TransCreate
    <3>2. CASE CreateWith(size)
      BY <3>2 DEF CreateWith
    <3> QED BY <1>1, <3>1, <3>2
  <2> QED BY <2>1, <2>2
<1>2. CASE MakeTransmitter
  BY <1>2 DEF MakeTransmitter, TransCreate
<1>3. CASE Destroy
  BY <1>3 DEF Destroy, TransDestroyed, NoWalk
<1>4. ASSUME NEW pt, NEW mark, NEW inc, NEW words, NEW len,
             SendPacket(pt, mark, inc, words, len) PROVE ControlInv'
  BY <1>4 DEF SendPacket, Sends, BeginSend
<1>5. ASSUME NEW words, NEW len, SendDefault(words, len) PROVE ControlInv'
  BY <1>5 DEF SendDefault, Sends, BeginSend
<1>6. CASE Callback \/ SendRTCPInCallback
  BY <1>6 DEF Callback, Call, Return, SendRTCPInCallback, SendAgain
<1>25. ASSUME NEW pt, NEW mark, NEW inc, NEW words, NEW len, SendInCallback(pt, mark, inc, words, len)
       PROVE  ControlInv'
  <2>1. calling /\ UNCHANGED <<created, trans, sending, at, walk, part, calling>>
    BY <1>25 DEF SendInCallback, SendAgain
  <2> QED BY <2>1
<1>7. CASE SendEnds
  BY <1>7 DEF SendEnds, EndSend
<1>8. CASE ConfigureBuilder
  BY <1>8 DEF ConfigureBuilder
<1>9. ASSUME NEW size, NEW ok, SetMaximumPacketSize(size, ok) PROVE ControlInv'
  BY <1>9 DEF SetMaximumPacketSize, Resized
<1>10. CASE Destinations
  BY <1>10 DEF Destinations, AddDestination, DeleteDestination, ClearDestinations
<1>11. CASE Filter
  BY <1>11 DEF Filter
<1>12. ASSUME NEW d, SetCurrentData(d) PROVE ControlInv'
  BY <1>12 DEF SetCurrentData
<1>13. CASE Poll
  BY <1>13 DEF Poll, NoWalk
<1>14. CASE ProcessPacket
  BY <1>14 DEF ProcessPacket
<1>15. CASE ProcessSDES
  BY <1>15 DEF ProcessSDES
<1>16. CASE BeginSweep
  BY <1>16 DEF BeginSweep
<1>17. ASSUME NEW timedout, SweepNext(timedout) PROVE ControlInv'
  BY <1>17 DEF SweepNext
<1>18. CASE SweepEnds
  BY <1>18 DEF SweepEnds, BeginSend
<1>19. CASE GotoFirstSource \/ GotoNextSource \/ GotoPreviousSource
  BY <1>19 DEF GotoFirstSource, GotoNextSource, GotoPreviousSource, Walked, NoWalk
<1>20. CASE GotoFirstSourceWithData \/ GotoNextSourceWithData \/ GotoPreviousSourceWithData
  BY <1>20 DEF GotoFirstSourceWithData, GotoNextSourceWithData, GotoPreviousSourceWithData, Walked, NoWalk
<1>21. ASSUME NEW s, GetSourceInfo(s) PROVE ControlInv'
  BY <1>21 DEF GetSourceInfo, NoWalk
<1>22. CASE GetNextPacket
  BY <1>22 DEF GetNextPacket
<1>23. ASSUME NEW s, SDES_GotoFirstPrivateValue(s) \/ SDES_GetNextPrivateValue(s) PROVE ControlInv'
  BY <1>23 DEF SDES_GotoFirstPrivateValue, SDES_GetNextPrivateValue, AsksFor
<1>24. CASE UNCHANGED vars
  BY <1>24 DEF vars
<1> QED BY <1>1, <1>2, <1>3, <1>4, <1>5, <1>6, <1>7, <1>8, <1>9, <1>10, <1>11, <1>12, <1>13, <1>14,
           <1>15, <1>16, <1>17, <1>18, <1>19, <1>20, <1>21, <1>22, <1>23, <1>24, <1>25 DEF Next

-----------------------------------------------------------------------------
(* The loop over the destinations. *)

\* The loop over the list q has come to its jth, or to the end: c says how
\* often it called back for each, and cur is where the cursor is.
ComeTo(q, cur, c, j) ==
  /\ j \in 1 .. Len(q) + 1
  /\ cur = IF j = Len(q) + 1 THEN None ELSE q[j]
  /\ \A i \in 1 .. Len(q) : IF i < j THEN q[i] \in DOMAIN c /\ c[q[i]] = 1
                            ELSE q[i] \in DOMAIN c => c[q[i]] = 0

\* Where the loop over q goes on after the callback for its jth; and it is in
\* this callback, for which it counts already.
NextIn(q, j) == IF j = Len(q) THEN None ELSE q[j + 1]
InCallback(q, cur, c, j) ==
  j \in 1 .. Len(q) /\ cur = q[j] /\ ComeTo(q, NextIn(q, j), c, j + 1)

\* No callback moved the cursor of the loop.
Undisturbed ==
  /\ DOMAIN called \subseteq D!Elements(destinations) /\ stayed \subseteq D!Elements(destinations)
  /\ \E j : IF calling THEN InCallback(D!Listed(destinations), destinations.cur, called, j)
            ELSE ComeTo(D!Listed(destinations), destinations.cur, called, j)

LoopInv ==
  /\ DestinationsSound(destinations)
  /\ sending = "no" => ~calling /\ disturbed = "no" /\ DOMAIN called = {} /\ stayed = {}
  /\ sending # "no" /\ disturbed = "no" => Undisturbed
  /\ disturbed \notin {"no", "cleared"} => destinations.cur \in D!Elements(destinations) \cup {None}

LEMMA LoopBegins ==
  ASSUME LoopInv, NEW what, what # "no", BeginSend(what)
  PROVE  LoopInv'
<1>1. DestinationsSound(destinations) /\ destinations' = D!GotoFirstElement(destinations)
  BY DEF LoopInv, BeginSend
<1>2. PICK x : x = destinations.first
  OBVIOUS
<1>3. destinations' = [destinations EXCEPT !.cur = x]
  BY <1>1, <1>2 DEF D!GotoFirstElement
<1>4. /\ DestinationsSound(destinations') /\ D!Elements(destinations') = D!Elements(destinations)
      /\ D!Listed(destinations') = D!Listed(destinations) /\ destinations'.cur = x
  BY <1>1, <1>3, DestinationsCursor
<1>5. called' = [d \in D!Elements(destinations) |-> 0] /\ stayed' = D!Elements(destinations)
  BY DEF BeginSend
<1>6. PICK q : q = D!Listed(destinations)
  OBVIOUS
<1>7. DestinationList(destinations, q)
  BY <1>1, <1>6, DestinationsListed
<1>8. ComeTo(q, x, called', 1)
  <2>1. Len(q) \in Nat /\ x = IF Len(q) = 0 THEN None ELSE q[1]
    BY <1>2, <1>7 DEF DestinationList
  <2>2. 1 \in 1 .. Len(q) + 1 /\ x = IF 1 = Len(q) + 1 THEN None ELSE q[1]
    BY <2>1
  <2>3. \A i \in 1 .. Len(q) : ~(i < 1) /\ (q[i] \in DOMAIN called' => called'[q[i]] = 0)
    BY <1>5, <2>1
  <2> QED BY <2>2, <2>3 DEF ComeTo
<1>9. ComeTo(D!Listed(destinations'), destinations'.cur, called', 1)
  BY <1>4, <1>6, <1>8
<1>10. DOMAIN called' = D!Elements(destinations')
  BY <1>4, <1>5
<1>11. sending' # "no" /\ ~calling' /\ disturbed' = "no"
  BY DEF BeginSend, LoopInv
<1>12. Undisturbed'
  BY <1>4, <1>5, <1>9, <1>10, <1>11 DEF Undisturbed
<1> QED BY <1>4, <1>11, <1>12 DEF LoopInv

\* A destination that is added in the callback comes to the end, and has not
\* been called.
LEMMA LoopGrows ==
  ASSUME NEW q \in Seq(Destination), NEW cur, NEW c, NEW j, InCallback(q, cur, c, j),
         NEW d, d \notin DOMAIN c, NEW r, r = Append(q, d)
  PROVE  InCallback(r, cur, c, j)
<1>1. /\ Len(q) \in Nat /\ Len(r) = Len(q) + 1 /\ r[Len(q) + 1] = d
      /\ \A i \in 1 .. Len(q) : r[i] = q[i]
  OBVIOUS
<1>2. j \in 1 .. Len(q) /\ cur = q[j] /\ ComeTo(q, NextIn(q, j), c, j + 1)
  BY DEF InCallback
<1>3. j \in 1 .. Len(r) /\ cur = r[j] /\ j + 1 \in 1 .. Len(r) + 1 /\ j + 1 # Len(r) + 1
  BY <1>1, <1>2
<1>4. NextIn(r, j) = r[j + 1]
  BY <1>1, <1>2 DEF NextIn
<1>5. ASSUME NEW i \in 1 .. Len(r)
      PROVE  IF i < j + 1 THEN r[i] \in DOMAIN c /\ c[r[i]] = 1 ELSE r[i] \in DOMAIN c => c[r[i]] = 0
  <2>1. CASE i \in 1 .. Len(q)
    BY <1>1, <1>2, <2>1 DEF ComeTo
  <2>2. CASE i = Len(q) + 1
    BY <1>1, <1>2, <2>2
  <2> QED BY <1>1, <2>1, <2>2
<1>6. ComeTo(r, NextIn(r, j), c, j + 1)
  BY <1>3, <1>4, <1>5 DEF ComeTo
<1> QED BY <1>3, <1>6 DEF InCallback

CalledOnceMore(c, cur) ==
  [x \in DOMAIN c \cup {cur} |-> LET n == IF x \in DOMAIN c THEN c[x] ELSE 0
                                 IN IF x = cur /\ n < 2 THEN n + 1 ELSE n]

\* The callback for the jth begins.
LEMMA LoopCounts ==
  ASSUME NEW q \in Seq(Destination), NEW cur, NEW c, NEW j, ComeTo(q, cur, c, j), cur # None,
         \A k, l \in 1 .. Len(q) : q[k] = q[l] => k = l,
         NEW e, e = CalledOnceMore(c, cur)
  PROVE  InCallback(q, cur, e, j)
<1>0. e = [x \in DOMAIN c \cup {cur} |-> LET n == IF x \in DOMAIN c THEN c[x] ELSE 0
                                         IN IF x = cur /\ n < 2 THEN n + 1 ELSE n]
  BY DEF CalledOnceMore
<1>1. j \in 1 .. Len(q) /\ Len(q) \in Nat /\ cur = q[j]
  BY DEF ComeTo
<1>2. j + 1 \in 1 .. Len(q) + 1 /\ NextIn(q, j) = IF j + 1 = Len(q) + 1 THEN None ELSE q[j + 1]
  BY <1>1 DEF NextIn
<1>3. ASSUME NEW i \in 1 .. Len(q)
      PROVE  IF i < j + 1 THEN q[i] \in DOMAIN e /\ e[q[i]] = 1 ELSE q[i] \in DOMAIN e => e[q[i]] = 0
  <2>1. CASE i = j
    <3>1. q[i] \in DOMAIN c => c[q[i]] = 0
      BY <1>1, <2>1 DEF ComeTo
    <3>2. q[i] = cur /\ q[i] \in DOMAIN e
      BY <1>0, <1>1, <2>1
    <3>3. e[q[i]] = 1
      BY <1>0, <3>1, <3>2
    <3> QED BY <1>1, <2>1, <3>2, <3>3
  <2>2. CASE i < j
    <3>1. q[i] \in DOMAIN c /\ c[q[i]] = 1
      BY <1>1, <2>2 DEF ComeTo
    <3>2. q[i] # cur
      BY <1>1, <2>2
    <3>3. q[i] \in DOMAIN e /\ e[q[i]] = 1
      BY <1>0, <3>1, <3>2
    <3> QED BY <1>1, <2>2, <3>3
  <2>3. CASE i > j
    <3>1. q[i] \in DOMAIN c => c[q[i]] = 0
      BY <1>1, <2>3 DEF ComeTo
    <3>2. q[i] # cur
      BY <1>1, <2>3
    <3>3. q[i] \in DOMAIN e => e[q[i]] = 0
      BY <1>0, <3>1, <3>2
    <3> QED BY <1>1, <2>3, <3>3
  <2> QED BY <1>1, <2>1, <2>2, <2>3
<1>4. ComeTo(q, NextIn(q, j), e, j + 1)
  BY <1>2, <1>3 DEF ComeTo
<1> QED BY <1>1, <1>4 DEF InCallback

\* What the list of a sound table is.
LEMMA ListOfDestinations ==
  ASSUME NEW t, DestinationsSound(t), NEW q, q = D!Listed(t)
  PROVE  /\ q \in Seq(Destination) /\ Len(q) \in Nat
         /\ \A k, l \in 1 .. Len(q) : q[k] = q[l] => k = l
         /\ \A k \in 1 .. Len(q) : q[k] \in D!Elements(t) /\ q[k] # None /\ q[k] # WILD
         /\ \A k \in 1 .. Len(q) : t.listnext[q[k]] = NextIn(q, k)
         /\ \A x \in D!Elements(t) : \E k \in 1 .. Len(q) : q[k] = x
<1>1. DestinationList(t, q) /\ D!Elements(t) \subseteq Destination
  BY DestinationsListed DEF DestinationsSound
<1>2. q \in Seq(D!Elements(t)) /\ None \notin D!Elements(t) /\ WILD \notin D!Elements(t)
  BY <1>1, FakeSessionAssumption DEF DestinationList
<1>3. q \in Seq(Destination) /\ Len(q) \in Nat /\ \A k \in 1 .. Len(q) : q[k] \in D!Elements(t)
  BY <1>1, <1>2
<1>4. \A k \in 1 .. Len(q) : t.listnext[q[k]] = NextIn(q, k)
  BY <1>1 DEF DestinationList, NextIn
<1> QED BY <1>1, <1>2, <1>3, <1>4 DEF DestinationList

LEMMA LoopCalls ==
  ASSUME LoopInv, Call
  PROVE  LoopInv'
<1>1. /\ sending # "no" /\ ~calling /\ calling' /\ destinations.cur # None
      /\ UNCHANGED <<destinations, sending, stayed, disturbed>>
  BY DEF Call, D!HasCurrentElement
<1>2. CASE disturbed # "no"
  BY <1>1, <1>2 DEF LoopInv
<1>3. CASE disturbed = "no"
  <2>1. Undisturbed /\ DestinationsSound(destinations)
    BY <1>1, <1>3 DEF LoopInv
  <2>2. PICK q : q = D!Listed(destinations)
    OBVIOUS
  <2>3. PICK j : ComeTo(q, destinations.cur, called, j)
    BY <1>1, <2>1, <2>2 DEF Undisturbed
  <2>4. PICK cur : cur = destinations.cur
    OBVIOUS
  <2>5. /\ q \in Seq(Destination) /\ Len(q) \in Nat
        /\ \A k, l \in 1 .. Len(q) : q[k] = q[l] => k = l
        /\ \A k \in 1 .. Len(q) : q[k] \in D!Elements(destinations) /\ q[k] # WILD
    BY <2>1, <2>2, ListOfDestinations
  <2>6. j \in 1 .. Len(q) /\ cur = q[j] /\ cur # None
    BY <1>1, <2>3, <2>4, <2>5 DEF ComeTo
  <2>7. cur # WILD /\ cur \in D!Elements(destinations)
    BY <2>5, <2>6
  <2>8. called' = CalledOnceMore(called, cur)
    BY <2>4, <2>7 DEF Call, CalledOnceMore
  <2>9. InCallback(q, cur, called', j)
    BY <2>3, <2>4, <2>5, <2>6, <2>8, LoopCounts
  <2>10. DOMAIN called' = DOMAIN called \cup {cur}
    BY <2>8 DEF CalledOnceMore
  <2>11. Undisturbed'
    BY <1>1, <2>1, <2>2, <2>4, <2>7, <2>9, <2>10 DEF Undisturbed
  <2> QED BY <1>1, <1>3, <2>1, <2>11 DEF LoopInv
<1> QED BY <1>2, <1>3

LEMMA LoopReturns ==
  ASSUME LoopInv, sending # "no", Return
  PROVE  LoopInv'
<1>1. /\ calling /\ ~calling' /\ DestinationsSound(destinations)
      /\ UNCHANGED <<sending, called, stayed, disturbed>>
  BY DEF Return, LoopInv
<1>2. PICK x : destinations' = [destinations EXCEPT !.cur = x]
               /\ (destinations.cur # WILD =>
                     x = IF destinations.cur = None THEN None ELSE destinations.listnext[destinations.cur])
  <2>1. CASE destinations.cur = WILD
    BY <2>1 DEF Return
  <2>2. CASE destinations.cur # WILD
    <3>1. destinations' = D!GotoNextElement(destinations)
      BY <2>2 DEF Return
    <3>2. destinations = [f \in DP!Field |-> destinations[f]]
      BY <1>1 DEF DestinationsSound, DP!Sound
    <3>3. destinations' = [destinations EXCEPT !.cur =
                             IF destinations.cur = None THEN None ELSE destinations.listnext[destinations.cur]]
      BY <3>1, <3>2 DEF D!GotoNextElement, DP!Field
    <3> QED BY <3>3
  <2> QED BY <2>1, <2>2
<1>3. /\ DestinationsSound(destinations') /\ D!Elements(destinations') = D!Elements(destinations)
      /\ D!Listed(destinations') = D!Listed(destinations) /\ destinations'.cur = x
  BY <1>1, <1>2, DestinationsCursor
<1>4. PICK q : q = D!Listed(destinations)
  OBVIOUS
<1>5. /\ Len(q) \in Nat
      /\ \A k \in 1 .. Len(q) : q[k] \in D!Elements(destinations) /\ q[k] # None /\ q[k] # WILD
      /\ \A k \in 1 .. Len(q) : destinations.listnext[q[k]] = NextIn(q, k)
      /\ \A d \in D!Elements(destinations) : \E k \in 1 .. Len(q) : q[k] = d
  BY <1>1, <1>4, ListOfDestinations
<1>6. CASE disturbed = "no"
  <2>1. Undisturbed
    BY <1>6 DEF LoopInv
  <2>2. PICK j : InCallback(q, destinations.cur, called, j)
    BY <1>1, <1>4, <2>1 DEF Undisturbed
  <2>3. j \in 1 .. Len(q) /\ destinations.cur = q[j] /\ ComeTo(q, NextIn(q, j), called, j + 1)
    BY <2>2 DEF InCallback
  <2>4. x = NextIn(q, j)
    BY <1>2, <1>5, <2>3
  <2>5. ComeTo(D!Listed(destinations'), destinations'.cur, called', j + 1)
    BY <1>1, <1>3, <1>4, <2>3, <2>4
  <2>6. Undisturbed'
    BY <1>1, <1>3, <2>1, <2>5 DEF Undisturbed
  <2> QED BY <1>1, <1>3, <1>6, <2>6 DEF LoopInv
<1>7. CASE disturbed \notin {"no", "cleared"}
  <2>1. destinations.cur \in D!Elements(destinations) \cup {None}
    BY <1>7 DEF LoopInv
  <2>2. x \in D!Elements(destinations) \cup {None}
    <3>1. CASE destinations.cur = None
      BY <1>2, <3>1, FakeSessionAssumption
    <3>2. CASE destinations.cur # None
      <4>1. PICK k \in 1 .. Len(q) : q[k] = destinations.cur
        BY <1>5, <2>1, <3>2
      <4>2. x = NextIn(q, k)
        BY <1>2, <1>5, <3>2, <4>1
      <4>3. k # Len(q) => k + 1 \in 1 .. Len(q)
        BY <1>5
      <4> QED BY <1>5, <4>2, <4>3 DEF NextIn
    <3> QED BY <3>1, <3>2
  <2> QED BY <1>1, <1>3, <1>7, <2>2 DEF LoopInv
<1>8. CASE disturbed = "cleared"
  BY <1>1, <1>3, <1>8 DEF LoopInv
<1> QED BY <1>6, <1>7, <1>8

LEMMA LoopSendsAgain ==
  ASSUME LoopInv, sending # "no", SendAgain
  PROVE  LoopInv'
<1>1. /\ DestinationsSound(destinations) /\ destinations' = [destinations EXCEPT !.cur = None]
      /\ disturbed' = "moved" /\ sending' = sending
  BY DEF SendAgain, LoopInv
<1>2. DestinationsSound(destinations') /\ destinations'.cur = None
  BY <1>1, DestinationsCursor
<1> QED BY <1>1, <1>2 DEF LoopInv

LEMMA LoopAdds ==
  ASSUME LoopInv, sending # "no", calling, NEW d \in Destination, AddDestination(d)
  PROVE  LoopInv'
<1>1. /\ DestinationsSound(destinations) /\ destinations' = D!AddElement(destinations, d)
      /\ UNCHANGED <<sending, calling, called, stayed, disturbed>>
  BY DEF AddDestination, LoopInv, loop
<1>2. /\ DestinationsSound(destinations')
      /\ D!Elements(destinations') = D!Elements(destinations) \cup {d}
      /\ destinations'.cur = destinations.cur
      /\ D!Listed(destinations') = IF d \in D!Elements(destinations) THEN D!Listed(destinations)
                                   ELSE Append(D!Listed(destinations), d)
  BY <1>1, DestinationsAdd
<1>3. CASE disturbed # "no"
  BY <1>1, <1>2, <1>3 DEF LoopInv
<1>4. CASE disturbed = "no"
  <2>1. Undisturbed
    BY <1>4 DEF LoopInv
  <2>2. PICK q : q = D!Listed(destinations)
    OBVIOUS
  <2>3. PICK j : InCallback(q, destinations.cur, called, j)
    BY <2>1, <2>2 DEF Undisturbed
  <2>4. q \in Seq(Destination)
    BY <1>1, <2>2, ListOfDestinations
  <2>5. InCallback(D!Listed(destinations'), destinations'.cur, called', j)
    <3>1. CASE d \in D!Elements(destinations)
      BY <1>1, <1>2, <2>2, <2>3, <3>1
    <3>2. CASE d \notin D!Elements(destinations)
      <4>1. d \notin DOMAIN called
        BY <2>1, <3>2 DEF Undisturbed
      <4>2. PICK r : r = Append(q, d)
        OBVIOUS
      <4>3. InCallback(r, destinations.cur, called, j)
        BY <2>3, <2>4, <4>1, <4>2, LoopGrows
      <4> QED BY <1>1, <1>2, <2>2, <3>2, <4>2, <4>3
    <3> QED BY <3>1, <3>2
  <2>6. Undisturbed'
    BY <1>1, <1>2, <2>1, <2>5 DEF Undisturbed
  <2> QED BY <1>1, <1>2, <1>4, <2>6 DEF LoopInv
<1> QED BY <1>3, <1>4

LEMMA LoopQuiet ==
  ASSUME LoopInv, UNCHANGED <<destinations, loop>>
  PROVE  LoopInv'
<1>1. UNCHANGED <<destinations, sending, calling, called, stayed, disturbed>>
  BY DEF loop
<1> QED BY <1>1 DEF LoopInv, Undisturbed

\* Between sends the table may change as a whole.
LEMMA LoopIdle ==
  ASSUME LoopInv, sending = "no", UNCHANGED <<sending, calling, called, disturbed>>,
         stayed' \subseteq stayed, DestinationsSound(destinations')
  PROVE  LoopInv'
  BY DEF LoopInv

LEMMA LoopStep ==
  ASSUME ControlInv, LoopInv, [Next]_vars
  PROVE  LoopInv'
<1>1. ASSUME NEW size, CreateOwn(size) \/ CreateWith(size) PROVE LoopInv'
  <2>1. UNCHANGED <<destinations, loop>>
    <3>1. CASE CreateOwn(size)
      BY <3>1 DEF CreateOwn, TransCreate, transVars
    <3>2. CASE CreateWith(size)
      BY <3>2 DEF CreateWith
    <3> QED BY <1>1, <3>1, <3>2
  <2> QED BY <2>1, LoopQuiet
<1>2. CASE MakeTransmitter
  BY <1>2, LoopQuiet DEF MakeTransmitter, TransCreate
<1>3. CASE Destroy
  <2>1. sending = "no" /\ UNCHANGED <<sending, calling, called, stayed, disturbed>>
    BY <1>3 DEF Destroy, TransDestroyed, transVars, loop, ControlInv
  <2>2. destinations' \in {destinations, D!EmptyTable}
    BY <1>3 DEF Destroy, TransDestroyed, transVars
  <2>3. DestinationsSound(destinations')
    BY <2>2, DestinationsEmpty DEF LoopInv
  <2> QED BY <2>1, <2>3, LoopIdle
<1>4. ASSUME NEW pt, NEW mark, NEW inc, NEW words, NEW len, Sends(pt, mark, inc, words, len)
      PROVE  LoopInv'
  <2>1. BeginSend("rtp") \/ UNCHANGED <<destinations, loop>>
    BY <1>4 DEF Sends
  <2> QED BY <2>1, LoopBegins, LoopQuiet
<1>5. ASSUME NEW pt, NEW mark, NEW inc, NEW words, NEW len, SendPacket(pt, mark, inc, words, len)
      PROVE  LoopInv'
  BY <1>4, <1>5 DEF SendPacket
<1>6. ASSUME NEW words, NEW len, SendDefault(words, len) PROVE LoopInv'
  BY <1>4, <1>6 DEF SendDefault
<1>7. CASE Callback
  <2>1. sending # "no" /\ (Call \/ Return)
    BY <1>7 DEF Callback, ControlInv
  <2> QED BY <2>1, LoopCalls, LoopReturns
<1>21. ASSUME SendAgain PROVE LoopInv'
  <2>1. sending # "no"
    BY <1>21 DEF SendAgain, LoopInv
  <2> QED BY <1>21, <2>1, LoopSendsAgain
<1>22. CASE SendRTCPInCallback
  BY <1>21, <1>22 DEF SendRTCPInCallback
<1>23. ASSUME NEW pt, NEW mark, NEW inc, NEW words, NEW len, SendInCallback(pt, mark, inc, words, len)
       PROVE  LoopInv'
  BY <1>21, <1>23 DEF SendInCallback
<1>8. CASE SendEnds
  <2>1. /\ sending' = "no" /\ called' = [d \in {} |-> 0] /\ stayed' = {} /\ disturbed' = "no"
        /\ ~calling' /\ destinations' = destinations
    BY <1>8 DEF SendEnds, EndSend
  <2> QED BY <2>1 DEF LoopInv
<1>9. CASE Destinations
  <2>1. IF calling THEN sending # "no" ELSE sending = "no"
    BY <1>9 DEF Destinations, ControlInv, LoopInv
  <2>2. ASSUME NEW d \in Destination, AddDestination(d) PROVE LoopInv'
    <3>1. /\ destinations' = D!AddElement(destinations, d)
          /\ UNCHANGED <<sending, calling, called, stayed, disturbed>>
      BY <2>2 DEF AddDestination, loop
    <3>2. DestinationsSound(destinations')
      BY <3>1, DestinationsAdd DEF LoopInv
    <3> QED BY <2>1, <2>2, <3>1, <3>2, LoopIdle, LoopAdds
  <2>3. ASSUME NEW d \in Destination, DeleteDestination(d) PROVE LoopInv'
    <3>1. /\ destinations' = D!DeleteElement(destinations, d) /\ stayed' \subseteq stayed
          /\ disturbed' = (IF calling THEN "moved" ELSE disturbed)
          /\ UNCHANGED <<sending, calling, called>>
      BY <2>3 DEF DeleteDestination
    <3>2. /\ DestinationsSound(destinations')
          /\ destinations'.cur \in D!Elements(destinations') \cup {None}
      BY <3>1, DestinationsDelete DEF LoopInv
    <3>3. CASE calling
      BY <2>1, <3>1, <3>2, <3>3 DEF LoopInv
    <3>4. CASE ~calling
      BY <2>1, <3>1, <3>2, <3>4, LoopIdle
    <3> QED BY <3>3, <3>4
  <2>4. CASE ClearDestinations
    <3>1. /\ destinations' = D!Clear(destinations) /\ stayed' = {}
          /\ disturbed' = (IF calling THEN "cleared" ELSE disturbed)
          /\ UNCHANGED <<sending, calling, called>>
      BY <2>4 DEF ClearDestinations
    <3>2. DestinationsSound(destinations')
      BY <3>1, DestinationsEmpty
    <3>3. CASE calling
      BY <2>1, <3>1, <3>2, <3>3 DEF LoopInv
    <3>4. CASE ~calling
      BY <2>1, <3>1, <3>2, <3>4, LoopIdle
    <3> QED BY <3>3, <3>4
  <2> QED BY <1>9, <2>2, <2>3, <2>4 DEF Destinations
<1>10. CASE SweepEnds
  <2>1. BeginSend("rtcp") \/ UNCHANGED <<destinations, loop>>
    BY <1>10 DEF SweepEnds
  <2> QED BY <2>1, LoopBegins, LoopQuiet
<1>11. ASSUME NEW size, NEW ok, SetMaximumPacketSize(size, ok) PROVE LoopInv'
  BY <1>11, LoopQuiet DEF SetMaximumPacketSize
<1>12. ASSUME NEW d, SetCurrentData(d) PROVE LoopInv'
  BY <1>12, LoopQuiet DEF SetCurrentData
<1>13. CASE ConfigureBuilder \/ Filter \/ Poll \/ ProcessPacket \/ ProcessSDES \/ BeginSweep
  <2>1. UNCHANGED <<destinations, loop>>
    BY <1>13 DEF ConfigureBuilder, Filter, Poll, ProcessPacket, ProcessSDES, BeginSweep, transVars
  <2> QED BY <2>1, LoopQuiet
<1>14. ASSUME NEW timedout, SweepNext(timedout) PROVE LoopInv'
  BY <1>14, LoopQuiet DEF SweepNext, transVars
<1>15. ASSUME OnlySources PROVE LoopInv'
  BY <1>15, LoopQuiet DEF OnlySources, transVars
<1>16. CASE GotoFirstSource \/ GotoNextSource \/ GotoPreviousSource \/ GetNextPacket
  BY <1>15, <1>16 DEF GotoFirstSource, GotoNextSource, GotoPreviousSource, GetNextPacket
<1>17. CASE GotoFirstSourceWithData \/ GotoNextSourceWithData \/ GotoPreviousSourceWithData
  BY <1>15, <1>17 DEF GotoFirstSourceWithData, GotoNextSourceWithData, GotoPreviousSourceWithData
<1>18. ASSUME NEW s, GetSourceInfo(s) PROVE LoopInv'
  BY <1>15, <1>18 DEF GetSourceInfo
<1>19. ASSUME NEW s, SDES_GotoFirstPrivateValue(s) \/ SDES_GetNextPrivateValue(s) PROVE LoopInv'
  <2>1. AsksFor(s)
    BY <1>19 DEF SDES_GotoFirstPrivateValue, SDES_GetNextPrivateValue
  <2> QED BY <2>1, LoopQuiet DEF AsksFor, transVars
<1>20. CASE UNCHANGED vars
  BY <1>20, LoopQuiet DEF vars, transVars
<1> QED BY <1>1, <1>2, <1>3, <1>5, <1>6, <1>7, <1>8, <1>9, <1>10, <1>11, <1>12, <1>13, <1>14,
           <1>16, <1>17, <1>18, <1>19, <1>20, <1>22, <1>23 DEF Next

LEMMA LoopServes ==
  ASSUME LoopInv
  PROVE  /\ EachDestinationOnce
         /\ D!Whole(destinations)
         /\ sending # "no" /\ disturbed # "cleared" =>
              destinations.cur \in D!Elements(destinations) \cup {None}
<1>1. D!Whole(destinations)
  BY DestinationsWhole DEF LoopInv
<1>2. CASE sending = "no"
  BY <1>1, <1>2 DEF EachDestinationOnce
<1>3. CASE disturbed # "no"
  BY <1>1, <1>3 DEF LoopInv, EachDestinationOnce
<1>4. CASE sending # "no" /\ disturbed = "no"
  <2>1. PICK q : q = D!Listed(destinations)
    OBVIOUS
  <2>2. /\ Len(q) \in Nat
        /\ \A k \in 1 .. Len(q) : q[k] \in D!Elements(destinations) /\ q[k] # None
        /\ \A x \in D!Elements(destinations) : \E k \in 1 .. Len(q) : q[k] = x
    BY <2>1, ListOfDestinations DEF LoopInv
  <2>3. Undisturbed
    BY <1>4 DEF LoopInv
  <2>4. PICK j, cur : /\ ComeTo(q, cur, called, j)
                      /\ destinations.cur = cur \/ destinations.cur \in D!Elements(destinations)
    <3>1. CASE calling
      <4>1. PICK j : InCallback(q, destinations.cur, called, j)
        BY <2>1, <2>3, <3>1 DEF Undisturbed
      <4>2. ComeTo(q, NextIn(q, j), called, j + 1) /\ destinations.cur \in D!Elements(destinations)
        BY <2>2, <4>1 DEF InCallback
      <4> QED BY <4>2
    <3>2. CASE ~calling
      BY <2>1, <2>3, <3>2 DEF Undisturbed
    <3> QED BY <3>1, <3>2
  <2>5. /\ j \in 1 .. Len(q) + 1 /\ cur = IF j = Len(q) + 1 THEN None ELSE q[j]
        /\ \A i \in 1 .. Len(q) : IF i < j THEN q[i] \in DOMAIN called /\ called[q[i]] = 1
                                  ELSE q[i] \in DOMAIN called => called[q[i]] = 0
    BY <2>4 DEF ComeTo
  <2>6. destinations.cur \in D!Elements(destinations) \cup {None}
    BY <2>2, <2>4, <2>5
  <2>7. \A d \in DOMAIN called : called[d] <= 1
    <3>1. SUFFICES ASSUME NEW d \in DOMAIN called PROVE called[d] <= 1
      OBVIOUS
    <3>2. PICK i \in 1 .. Len(q) : q[i] = d
      BY <2>2, <2>3 DEF Undisturbed
    <3>3. called[d] \in {0, 1}
      BY <2>5, <3>2
    <3> QED BY <3>3
  <2>8. ASSUME destinations.cur = None, NEW d \in stayed PROVE called[d] = 1
    <3>1. PICK i \in 1 .. Len(q) : q[i] = d
      BY <2>2, <2>3 DEF Undisturbed
    <3>2. None \notin D!Elements(destinations)
      BY <2>2
    <3>3. cur = None
      BY <2>4, <2>8, <3>2
    <3>4. j = Len(q) + 1
      BY <2>2, <2>5, <3>3
    <3>5. i < j
      BY <2>2, <3>4
    <3> QED BY <2>5, <3>1, <3>5
  <2> QED BY <1>1, <2>6, <2>7, <2>8 DEF EachDestinationOnce, D!HasCurrentElement
<1> QED BY <1>2, <1>3, <1>4

-----------------------------------------------------------------------------
(* What a session that was not created has left. *)

NothingLeft == ~builder.init /\ DOMAIN sources.elements = {} /\ rtcpmax = 0

CreateInv == ~created => NothingLeft

LEMMA UndoneLeavesNothing ==
  ASSUME NothingLeft, NEW stage, NEW size, Undone(stage, size)
  PROVE  NothingLeft'
<1>1. DestroyBuilder.init = FALSE
  BY DEF DestroyBuilder, NewBuilder
<1>2. builder' \in {builder, DestroyBuilder} /\ rtcpmax' = 0
  BY DEF Undone
<1>3. DOMAIN sources'.elements = {}
  <2>1. \A m : DOMAIN H!MapClear(m).elements = {}
    BY MapEmpty
  <2>2. sources' = sources \/ sources' = H!MapClear(WithOwn(sources))
    BY DEF Undone
  <2> QED BY <2>1, <2>2 DEF NothingLeft
<1> QED BY <1>1, <1>2, <1>3 DEF NothingLeft

LEMMA CreateStep ==
  ASSUME ControlInv, CreateInv, [Next]_vars
  PROVE  CreateInv'
<1>1. ASSUME NEW size, CreateOwn(size) PROVE CreateInv'
  <2>1. ~created /\ NothingLeft
    BY <1>1 DEF CreateOwn, CreateInv
  <2>2. CASE Initialised(size)
    BY <2>2 DEF Initialised, CreateInv
  <2>3. CASE \E stage \in Stage : Undone(stage, size)
    BY <2>1, <2>3, UndoneLeavesNothing DEF CreateInv
  <2>4. CASE UNCHANGED <<created, builder, sources, rtcpmax>>
    BY <2>1, <2>4 DEF CreateInv, NothingLeft
  <2> QED BY <1>1, <2>2, <2>3, <2>4 DEF CreateOwn
<1>2. ASSUME NEW size, CreateWith(size) PROVE CreateInv'
  <2>1. ~created /\ NothingLeft
    BY <1>2 DEF CreateWith, CreateInv
  <2>2. CASE Initialised(size)
    BY <2>2 DEF Initialised, CreateInv
  <2>3. CASE \E stage \in Stage : Undone(stage, size)
    BY <2>1, <2>3, UndoneLeavesNothing DEF CreateInv
  <2>4. CASE UNCHANGED <<created, builder, sources, rtcpmax>>
    BY <2>1, <2>4 DEF CreateInv, NothingLeft
  <2> QED BY <1>2, <2>2, <2>3, <2>4 DEF CreateWith
<1>3. ASSUME UNCHANGED <<session, builder, sources>> PROVE CreateInv'
  BY <1>3 DEF session, CreateInv, NothingLeft
<1>4. CASE MakeTransmitter
  BY <1>3, <1>4 DEF MakeTransmitter
<1>5. CASE Destroy
  <2>1. \A m : DOMAIN H!MapClear(m).elements = {}
    BY MapEmpty
  <2>2. DestroyBuilder.init = FALSE
    BY DEF DestroyBuilder, NewBuilder
  <2>3. builder' = DestroyBuilder /\ rtcpmax' = 0 /\ DOMAIN sources'.elements = {}
    BY <1>5, <2>1 DEF Destroy
  <2> QED BY <2>2, <2>3 DEF CreateInv, NothingLeft
<1>6. ASSUME NEW d, SetCurrentData(d) PROVE CreateInv'
  BY <1>3, <1>6 DEF SetCurrentData
<1>7. ASSUME created, created' = created PROVE CreateInv'
  BY <1>7 DEF CreateInv
<1> USE DEF ControlInv, session, OnlySources, Walking
<1>8. ASSUME NEW pt, NEW mark, NEW inc, NEW words, NEW len, SendPacket(pt, mark, inc, words, len)
      PROVE  CreateInv'
  BY <1>7, <1>8 DEF SendPacket
<1>9. ASSUME NEW words, NEW len, SendDefault(words, len) PROVE CreateInv'
  BY <1>7, <1>9 DEF SendDefault
<1>10. CASE Callback \/ SendRTCPInCallback
  BY <1>3, <1>10 DEF Callback, SendRTCPInCallback
<1>20. ASSUME NEW pt, NEW mark, NEW inc, NEW words, NEW len, SendInCallback(pt, mark, inc, words, len)
       PROVE  CreateInv'
  BY <1>7, <1>20 DEF SendInCallback, SendAgain
<1>11. ASSUME NEW size, NEW ok, SetMaximumPacketSize(size, ok) PROVE CreateInv'
  BY <1>7, <1>11 DEF SetMaximumPacketSize
<1>12. CASE SendEnds \/ ConfigureBuilder \/ Destinations \/ Filter \/ Poll
  BY <1>7, <1>12 DEF SendEnds, ConfigureBuilder, Destinations, Filter, Poll
<1>13. CASE ProcessPacket \/ ProcessSDES \/ BeginSweep \/ SweepEnds
  BY <1>7, <1>13 DEF ProcessPacket, ProcessSDES, BeginSweep, SweepEnds
<1>14. ASSUME NEW timedout, SweepNext(timedout) PROVE CreateInv'
  BY <1>7, <1>14 DEF SweepNext
<1>15. CASE GotoFirstSource \/ GotoNextSource \/ GotoPreviousSource \/ GetNextPacket
  BY <1>7, <1>15 DEF GotoFirstSource, GotoNextSource, GotoPreviousSource, GetNextPacket
<1>16. CASE GotoFirstSourceWithData \/ GotoNextSourceWithData \/ GotoPreviousSourceWithData
  BY <1>7, <1>16 DEF GotoFirstSourceWithData, GotoNextSourceWithData, GotoPreviousSourceWithData
<1>17. ASSUME NEW s, GetSourceInfo(s) PROVE CreateInv'
  BY <1>7, <1>17 DEF GetSourceInfo
<1>18. ASSUME NEW s, SDES_GotoFirstPrivateValue(s) \/ SDES_GetNextPrivateValue(s) PROVE CreateInv'
  <2>1. AsksFor(s)
    BY <1>18 DEF SDES_GotoFirstPrivateValue, SDES_GetNextPrivateValue
  <2> QED BY <1>7, <2>1 DEF AsksFor
<1>19. CASE UNCHANGED vars
  BY <1>3, <1>19 DEF vars
<1> QED BY <1>1, <1>2, <1>4, <1>5, <1>6, <1>8, <1>9, <1>10, <1>11, <1>12, <1>13, <1>14, <1>15, <1>16,
           <1>17, <1>18, <1>19, <1>20 DEF Next

-----------------------------------------------------------------------------
(* Packets. *)

BuilderFields == {"init", "max", "csrcs", "payloadtype", "mark", "timestampinc", "ssrc", "timestamp",
                  "seqnr", "numpackets", "lasttimestamp"}

IsBuilder(b) == b = [f \in BuilderFields |-> b[f]] /\ b.csrcs \in Seq(CSRC)

After(n) == (n + 1) % Cycle

LEMMA NewIsBuilder == IsBuilder(NewBuilder)
  BY DEF IsBuilder, NewBuilder, BuilderFields

LEMMA InitIsBuilder ==
  ASSUME NEW size, NEW b, b = InitBuilder(size, OwnSSRC, 0, 0)
  PROVE  IsBuilder(b) /\ b.max = size
<1>1. b.csrcs = <<>> /\ b.max = size /\ b = [f \in BuilderFields |-> b[f]]
  BY DEF InitBuilder, CreateNewSSRC, NewBuilder, BuilderFields
<1>2. b.csrcs \in Seq(CSRC)
  <2>1. <<>> \in Seq(CSRC)
    OBVIOUS
  <2> QED BY ONLY <1>1, <2>1, Zenon
<1> QED BY ONLY <1>1, <1>2 DEF IsBuilder

\* What the functions that configure a builder leave alone.
LEMMA ConfiguredIs ==
  ASSUME IsBuilder(builder), NEW b \in Builders
  PROVE  IsBuilder(b) /\ b.seqnr = builder.seqnr /\ b.max = builder.max /\ b.init = builder.init
<1> DEFINE Good(x) == IsBuilder(x) /\ x.seqnr = builder.seqnr /\ x.max = builder.max /\ x.init = builder.init
<1>1. ASSUME NEW f \in BuilderFields \ {"csrcs", "seqnr", "max", "init"}, NEW v,
             NEW x, x = [builder EXCEPT ![f] = v] PROVE Good(x)
  BY <1>1 DEF IsBuilder, BuilderFields
<1>2. ASSUME NEW v \in Seq(CSRC), NEW x, x = [builder EXCEPT !.csrcs = v] PROVE Good(x)
  BY <1>2 DEF IsBuilder, BuilderFields
<1>3. Good(builder)
  OBVIOUS
<1>4. ASSUME NEW c \in CSRC PROVE Good(AddCSRC(builder, c))
  <2>1. Append(builder.csrcs, c) \in Seq(CSRC)
    BY DEF IsBuilder
  <2> QED BY <1>2, <1>3, <2>1 DEF AddCSRC
<1>5. ASSUME NEW c \in CSRC PROVE Good(DeleteCSRC(builder, c))
  <2> DEFINE q == builder.csrcs
             n == Len(q)
             v == [i \in 1 .. n - 1 |-> IF q[i] = c THEN q[n] ELSE q[i]]
  <2>1. n \in Nat /\ \A i \in 1 .. n : q[i] \in CSRC
    BY DEF IsBuilder
  <2>2. ASSUME n # 0 PROVE v \in Seq(CSRC)
    <3>1. n - 1 \in Nat /\ n \in 1 .. n /\ \A i \in 1 .. n - 1 : i \in 1 .. n
      BY <2>1, <2>2
    <3>2. \A i \in 1 .. n - 1 : (IF q[i] = c THEN q[n] ELSE q[i]) \in CSRC
      BY <2>1, <3>1
    <3> QED BY <3>1, <3>2
  <2>3. DOMAIN q = 1 .. n
    BY DEF IsBuilder
  <2>4. CASE \A i \in DOMAIN q : q[i] # c
    <3>1. DeleteCSRC(builder, c) = builder
      BY <2>4 DEF DeleteCSRC
    <3> QED BY <1>3, <3>1
  <2>5. CASE \E i \in DOMAIN q : q[i] = c
    <3>1. n # 0
      BY <2>1, <2>3, <2>5
    <3>2. DeleteCSRC(builder, c) = [builder EXCEPT !.csrcs = v]
      BY <2>5 DEF DeleteCSRC, IsBuilder, BuilderFields
    <3> HIDE DEF v
    <3> QED BY <1>2, <2>2, <3>1, <3>2
  <2> QED BY <2>4, <2>5
<1>6. Good(ClearCSRCList(builder))
  <2>1. <<>> \in Seq(CSRC)
    OBVIOUS
  <2> QED BY <1>2, <2>1 DEF ClearCSRCList
<1>7. \A inc : Good(IncrementTimestamp(builder, inc))
  BY <1>3 DEF IncrementTimestamp, IsBuilder, BuilderFields
<1>8. Good(IncrementTimestampDefault(builder))
  BY <1>3, <1>7 DEF IncrementTimestampDefault
<1>9. \A pt : Good(SetDefaultPayloadType(builder, pt))
  BY DEF SetDefaultPayloadType, IsBuilder, BuilderFields
<1>10. \A m : Good(SetDefaultMark(builder, m))
  BY DEF SetDefaultMark, IsBuilder, BuilderFields
<1>11. \A inc : Good(SetDefaultTimestampIncrement(builder, inc))
  BY DEF SetDefaultTimestampIncrement, IsBuilder, BuilderFields
<1> QED BY <1>4, <1>5, <1>6, <1>7, <1>8, <1>9, <1>10, <1>11, ZenonT(40) DEF Builders

\* The packet that a builder makes, and the builder after it.
LEMMA PacketIs ==
  ASSUME NEW b, IsBuilder(b), NEW pt, NEW mark, NEW inc, NEW words \in Nat \cup {None}, NEW len \in Nat,
         Fits(b, pt, words, len), NEW p, p = ThePacket(b, pt, mark, words, len)
  PROVE  /\ Parses(p) /\ PayloadLength(p) = len /\ p.length <= b.max
         /\ p.sequencenumber = b.seqnr /\ p.timestamp = b.timestamp
<1> DEFINE n == Len(b.csrcs)
           e == ExtensionLength(words)
<1>1. n \in Nat
  BY DEF IsBuilder
<1>2. WordCycle \in Nat \ {0}
  BY FakeSessionAssumption
<1>3. e \in Nat /\ e = (IF words # None THEN 1 + ExtensionWords(words) ELSE 0)
  <2>1. CASE words = None
    BY <2>1 DEF ExtensionLength
  <2>2. CASE words # None
    <3>1. words \in Nat
      BY <2>2
    <3>2. words % WordCycle \in Nat
      BY <1>2, <3>1
    <3> QED BY <2>2, <3>2 DEF ExtensionLength, ExtensionWords
  <2> QED BY <2>1, <2>2
<1>4. /\ p.version = 2 /\ p.padding = FALSE /\ p.pad = 0 /\ p.extension = (words # None)
      /\ p.extwords = ExtensionWords(words) /\ p.payloadtype = pt /\ p.csrcs = b.csrcs
      /\ p.sequencenumber = b.seqnr /\ p.timestamp = b.timestamp
      /\ p.length = PacketLength(b.csrcs, words, len)
  BY DEF ThePacket, BuildPacket
<1>5. PacketLength(b.csrcs, words, len) = 3 + n + e + len
  BY DEF PacketLength, HeaderLength
<1>6. PayloadOffset(p) = 3 + n + e
  BY <1>3, <1>4 DEF PayloadOffset, HeaderLength
<1>7. pt \notin LooksLikeRTCP /\ p.length <= b.max
  BY <1>4 DEF Fits, Buildable
<1> HIDE DEF n, e
<1>8. p.length >= HeaderLength /\ p.length >= PayloadOffset(p) + p.pad
  BY <1>1, <1>3, <1>4, <1>5, <1>6 DEF HeaderLength
<1>9. Parses(p)
  BY <1>4, <1>7, <1>8 DEF Parses
<1>10. PayloadLength(p) = len
  BY <1>1, <1>3, <1>4, <1>5, <1>6 DEF PayloadLength
<1> QED BY <1>4, <1>7, <1>9, <1>10

LEMMA AfterPacketIs ==
  ASSUME NEW b, IsBuilder(b), NEW inc, NEW c, c = AfterPacket(b, inc)
  PROVE  /\ IsBuilder(c) /\ c.max = b.max /\ c.init = b.init
         /\ c.seqnr = After(b.seqnr) /\ c.lasttimestamp = b.timestamp
  BY DEF AfterPacket, IsBuilder, BuilderFields, After

\* The builder and the transmitter of a session take packets of the same
\* size, so that none that is built is refused.
SizesAgree ==
  created => /\ maxpacksize \in Nat /\ maxpacksize <= MaxTransSize
             /\ builder.max = maxpacksize /\ transsize = maxpacksize

\* The builder's number is the one after that of the last packet.
NumbersFollow ==
  /\ sending # "rtp" /\ before # None => builder.seqnr = After(before)
  /\ sending = "rtp" => builder.seqnr = After(out.sequencenumber)

PacketInv == IsBuilder(builder) /\ SizesAgree /\ NumbersFollow /\ PacketsGoOut

LEMMA PacketQuiet ==
  ASSUME PacketInv, UNCHANGED <<builder, created, maxpacksize, transsize, sending, before, out, asked>>
  PROVE  PacketInv'
  BY DEF PacketInv, SizesAgree, NumbersFollow, PacketsGoOut

LEMMA SendsPacket ==
  ASSUME ControlInv, PacketInv, at = "idle", created, KeepsTrans, UNCHANGED session,
         NEW pt, NEW mark, NEW inc, NEW words \in Nat \cup {None}, NEW len \in Nat,
         Sends(pt, mark, inc, words, len)
  PROVE  PacketInv'
<1>1. PICK p : p = ThePacket(builder, pt, mark, words, len)
  OBVIOUS
<1>2. UNCHANGED <<created, maxpacksize, transsize>>
  BY DEF KeepsTrans, session
<1>3. CASE ~Fits(builder, pt, words, len)
  <2>1. UNCHANGED <<builder, sending, before, out, asked>>
    BY <1>3 DEF Sends, loop, sent
  <2> QED BY <1>2, <2>1, PacketQuiet
<1>4. CASE Fits(builder, pt, words, len)
  <2>1. /\ Parses(p) /\ PayloadLength(p) = len /\ p.length <= builder.max
        /\ p.sequencenumber = builder.seqnr /\ p.timestamp = builder.timestamp
    BY <1>1, <1>4, PacketIs DEF PacketInv
  <2>2. p.length \in Int /\ transsize \in Int /\ p.length <= transsize
    <3>1. builder.max = transsize /\ transsize \in Nat
      BY DEF PacketInv, SizesAgree
    <3>2. p.length = PacketLength(builder.csrcs, words, len)
      BY <1>1 DEF ThePacket, BuildPacket
    <3>3. PacketLength(builder.csrcs, words, len) \in Int
      <4>1. Len(builder.csrcs) \in Nat
        BY DEF PacketInv, IsBuilder
      <4>2. ExtensionLength(words) \in Nat
        <5>1. CASE words = None
          BY <5>1 DEF ExtensionLength
        <5>2. CASE words # None
          <6>1. words \in Nat /\ WordCycle \in Nat \ {0}
            BY <5>2, FakeSessionAssumption
          <6>2. words % WordCycle \in Nat
            BY <6>1
          <6> QED BY <5>2, <6>2 DEF ExtensionLength, ExtensionWords
        <5> QED BY <5>1, <5>2
      <4> QED BY <4>1, <4>2 DEF PacketLength, HeaderLength
    <3> QED BY <2>1, <3>1, <3>2, <3>3
  <2>3. builder' = AfterPacket(builder, inc)
    BY <1>4 DEF Sends
  <2>4. ~(p.length > transsize)
    BY <2>2
  <2>5. BeginSend("rtp") /\ out' = p /\ asked' = len /\ before' = before
    BY <1>1, <1>4, <2>4 DEF Sends
  <2>6. /\ IsBuilder(builder') /\ builder'.max = builder.max
        /\ builder'.seqnr = After(builder.seqnr) /\ builder'.lasttimestamp = builder.timestamp
    BY <2>3, AfterPacketIs DEF PacketInv
  <2>7. sending = "no" /\ sending' = "rtp"
    BY <2>5 DEF BeginSend
  <2>8. SizesAgree'
    BY <1>2, <2>6 DEF PacketInv, SizesAgree
  <2>9. NumbersFollow'
    BY <2>1, <2>5, <2>6, <2>7 DEF NumbersFollow
  <2>10. before # None => builder.seqnr = After(before)
    BY <2>7 DEF PacketInv, NumbersFollow
  <2>11. PacketsGoOut'
    BY <2>1, <2>5, <2>6, <2>10 DEF PacketsGoOut, After
  <2> QED BY <2>6, <2>8, <2>9, <2>11 DEF PacketInv
<1> QED BY <1>3, <1>4

\* A packet that is sent in the callback takes the next number, and what an outer
\* send of a packet has left to do it does with the new one.
LEMMA SendsPacketAgain ==
  ASSUME ControlInv, PacketInv,
         NEW pt, NEW mark, NEW inc, NEW words \in Nat \cup {None}, NEW len \in Nat,
         SendInCallback(pt, mark, inc, words, len)
  PROVE  PacketInv'
<1>1. PICK p : p = ThePacket(builder, pt, mark, words, len)
  OBVIOUS
<1>2. /\ UNCHANGED <<created, maxpacksize, transsize, sending>> /\ calling
      /\ Fits(builder, pt, words, len) /\ builder' = AfterPacket(builder, inc)
      /\ before' = IF at = "sending" THEN out.sequencenumber ELSE p.sequencenumber
      /\ IF at = "sending" THEN out' = p /\ asked' = len ELSE UNCHANGED <<out, asked>>
  BY <1>1 DEF SendInCallback, SendAgain, KeepsTrans, session
<1>3. /\ Parses(p) /\ PayloadLength(p) = len
      /\ p.sequencenumber = builder.seqnr /\ p.timestamp = builder.timestamp
  BY <1>1, <1>2, PacketIs DEF PacketInv
<1>4. /\ IsBuilder(builder') /\ builder'.max = builder.max
      /\ builder'.seqnr = After(builder.seqnr) /\ builder'.lasttimestamp = builder.timestamp
  BY <1>2, AfterPacketIs DEF PacketInv
<1>5. SizesAgree'
  BY <1>2, <1>4 DEF PacketInv, SizesAgree
<1>6. CASE at = "sending"
  <2>1. sending = "rtp" /\ builder.seqnr = After(out.sequencenumber)
    BY <1>6 DEF ControlInv, PacketInv, NumbersFollow
  <2>2. sending' = "rtp" /\ out' = p /\ asked' = len /\ before' = out.sequencenumber
    BY <1>2, <1>6, <2>1
  <2>3. NumbersFollow'
    BY <1>3, <1>4, <2>2 DEF NumbersFollow
  <2>4. PacketsGoOut'
    BY <1>3, <1>4, <2>1, <2>2 DEF PacketsGoOut, After
  <2> QED BY <1>4, <1>5, <2>3, <2>4 DEF PacketInv
<1>7. CASE at # "sending"
  <2>1. sending' # "rtp" /\ before' = p.sequencenumber
    BY <1>2, <1>7 DEF ControlInv
  <2>2. NumbersFollow' /\ PacketsGoOut'
    BY <1>3, <1>4, <2>1 DEF NumbersFollow, PacketsGoOut
  <2> QED BY <1>4, <1>5, <2>2 DEF PacketInv
<1> QED BY <1>6, <1>7

LEMMA SomePacketIs ==
  ASSUME NEW a \in SomePacket
  PROVE  a[4] \in Nat \cup {None} /\ a[5] \in Nat
<1>1. Words \subseteq Nat /\ Length \subseteq Nat
  BY FakeSessionAssumption
<1>2. CASE part = "packets"
  <2>1. a \in PayloadType \X {FALSE} \X Increment \X (Words \cup {None}) \X Length
    BY <1>2 DEF SomePacket
  <2> QED BY <1>1, <2>1
<1>3. CASE part # "packets"
  <2>1. a = <<8, FALSE, 0, None, 1>>
    BY <1>3 DEF SomePacket
  <2> QED BY <2>1
<1> QED BY <1>2, <1>3

LEMMA CreateKeepsPackets ==
  ASSUME ControlInv, PacketInv, NEW size \in Nat, CreateOwn(size) \/ CreateWith(size)
  PROVE  PacketInv'
<1>1. sending = "no" /\ before = None /\ UNCHANGED <<sending, before>>
  <2>1. CASE CreateOwn(size)
    BY <2>1 DEF CreateOwn, TransCreate, ControlInv, transVars, loop, sent
  <2>2. CASE CreateWith(size)
    BY <2>2 DEF CreateWith, ControlInv, loop, sent
  <2> QED BY <2>1, <2>2
<1>2. NumbersFollow' /\ PacketsGoOut'
  BY <1>1 DEF NumbersFollow, PacketsGoOut
<1>3. ASSUME Initialised(size)
      PROVE  IsBuilder(builder') /\ builder'.max = size
  BY <1>3, InitIsBuilder DEF Initialised
<1>4. ASSUME NEW stage, Undone(stage, size)
      PROVE  IsBuilder(builder') /\ ~created'
  BY <1>4, NewIsBuilder DEF Undone, DestroyBuilder, PacketInv
<1>5. CASE CreateOwn(size)
  <2>1. CASE TransCreate(size) /\ Initialised(size)
    <3>1. size <= MaxTransSize /\ transsize' = size /\ maxpacksize' = size
      BY <1>5, <2>1 DEF CreateOwn, TransCreate
    <3> QED BY <1>2, <1>3, <2>1, <3>1 DEF PacketInv, SizesAgree
  <2>2. CASE \E stage \in Stage : Undone(stage, size)
    BY <1>2, <1>4, <2>2 DEF PacketInv, SizesAgree
  <2>3. CASE UNCHANGED <<created, builder>>
    <3>1. ~created
      BY <1>5 DEF CreateOwn
    <3> QED BY <1>2, <2>3, <3>1 DEF PacketInv, SizesAgree
  <2> QED BY <1>5, <2>1, <2>2, <2>3 DEF CreateOwn
<1>6. CASE CreateWith(size)
  <2>1. CASE size <= MaxTransSize /\ Initialised(size)
    <3>1. transsize' = size /\ maxpacksize' = size
      BY <1>6, <2>1 DEF CreateWith, SizeOf
    <3> QED BY <1>2, <1>3, <2>1, <3>1 DEF PacketInv, SizesAgree
  <2>2. CASE \E stage \in Stage : Undone(stage, size)
    BY <1>2, <1>4, <2>2 DEF PacketInv, SizesAgree
  <2>3. CASE UNCHANGED <<created, builder>>
    <3>1. ~created
      BY <1>6 DEF CreateWith
    <3> QED BY <1>2, <2>3, <3>1 DEF PacketInv, SizesAgree
  <2> QED BY <1>6, <2>1, <2>2, <2>3 DEF CreateWith
<1> QED BY <1>5, <1>6

LEMMA ResizedKeepsPackets ==
  ASSUME ControlInv, PacketInv, NEW size \in Nat, NEW ok \in BOOLEAN, SetMaximumPacketSize(size, ok)
  PROVE  PacketInv'
<1>1. created /\ at = "idle" /\ UNCHANGED <<created, sending, before, out, asked>>
  BY DEF SetMaximumPacketSize, loop, sent
<1>2. /\ maxpacksize \in Nat /\ maxpacksize <= MaxTransSize
      /\ builder.max = maxpacksize /\ transsize = maxpacksize /\ IsBuilder(builder)
  BY <1>1 DEF PacketInv, SizesAgree
<1>3. sending = "no"
  BY <1>1 DEF ControlInv
<1>4. Resized(size, ok)
  BY DEF SetMaximumPacketSize
<1>5. CASE size <= MaxTransSize /\ ok
  <2>1. builder' = [builder EXCEPT !.max = size] /\ maxpacksize' = size /\ transsize' = size
    BY <1>4, <1>5 DEF Resized, SizeOf
  <2>2. IsBuilder(builder') /\ builder'.max = size /\ builder'.seqnr = builder.seqnr
    BY <1>2, <2>1 DEF IsBuilder, BuilderFields
  <2>3. SizesAgree'
    BY <1>5, <2>1, <2>2 DEF SizesAgree
  <2>4. NumbersFollow' /\ PacketsGoOut'
    BY <1>1, <1>3, <2>2 DEF PacketInv, NumbersFollow, PacketsGoOut
  <2> QED BY <2>2, <2>3, <2>4 DEF PacketInv
<1>6. CASE ~(size <= MaxTransSize /\ ok)
  <2>1. UNCHANGED <<maxpacksize, builder>>
    BY <1>4, <1>6 DEF Resized
  <2>2. transsize' = transsize
    BY <1>2, <1>4, <1>6 DEF Resized, SizeOf
  <2> QED BY <1>1, <2>1, <2>2, PacketQuiet
<1> QED BY <1>5, <1>6

LEMMA PacketStep ==
  ASSUME ControlInv, PacketInv, [Next]_vars
  PROVE  PacketInv'
<1>0. SomeSize \subseteq Nat /\ Size \subseteq Nat /\ Words \subseteq Nat /\ Length \subseteq Nat
  BY FakeSessionAssumption DEF SomeSize
<1>1. ASSUME NEW size \in SomeSize, CreateOwn(size) \/ CreateWith(size) PROVE PacketInv'
  BY <1>0, <1>1, CreateKeepsPackets
<1>2. CASE MakeTransmitter
  <2>1. ~created /\ UNCHANGED <<created, builder, sending, before, out, asked>>
    BY <1>2 DEF MakeTransmitter, TransCreate, session, loop, sent
  <2> QED BY <2>1 DEF PacketInv, SizesAgree, NumbersFollow, PacketsGoOut
<1>3. CASE Destroy
  <2>1. created' = FALSE /\ builder' = NewBuilder /\ before' = None
    BY <1>3 DEF Destroy, DestroyBuilder
  <2>2. sending' = "no"
    BY <1>3 DEF Destroy, ControlInv, TransDestroyed, transVars, loop
  <2> QED BY <2>1, <2>2, NewIsBuilder DEF PacketInv, SizesAgree, NumbersFollow, PacketsGoOut
<1>4. ASSUME NEW a \in SomePacket, SendPacket(a[1], a[2], a[3], a[4], a[5]) PROVE PacketInv'
  <2>1. a[4] \in Nat \cup {None} /\ a[5] \in Nat
    BY SomePacketIs
  <2>2. /\ at = "idle" /\ created /\ KeepsTrans /\ UNCHANGED session
        /\ Sends(a[1], a[2], a[3], a[4], a[5])
    BY <1>4 DEF SendPacket
  <2> QED BY <2>1, <2>2, SendsPacket
<1>5. ASSUME NEW words \in Words \cup {None}, NEW len \in Length, SendDefault(words, len) PROVE PacketInv'
  <2>1. words \in Nat \cup {None} /\ len \in Nat
    BY <1>0
  <2>2. /\ at = "idle" /\ created /\ KeepsTrans /\ UNCHANGED session
        /\ Sends(builder.payloadtype, builder.mark, builder.timestampinc, words, len)
    BY <1>5 DEF SendDefault
  <2> QED BY <2>1, <2>2, SendsPacket
<1>6. CASE Callback \/ SendRTCPInCallback
  BY <1>6, PacketQuiet DEF Callback, Call, Return, SendRTCPInCallback, SendAgain, KeepsTrans, session, sent
<1>40. ASSUME NEW a \in SomePacket, SendInCallback(a[1], a[2], a[3], a[4], a[5]) PROVE PacketInv'
  <2>1. a[4] \in Nat \cup {None} /\ a[5] \in Nat
    BY SomePacketIs
  <2> QED BY <1>40, <2>1, SendsPacketAgain
<1>7. CASE SendEnds
  <2>1. UNCHANGED <<builder, created, maxpacksize, transsize>> /\ sending' = "no"
    BY <1>7 DEF SendEnds, EndSend, KeepsTrans, session
  <2>2. SizesAgree' /\ IsBuilder(builder')
    BY <2>1 DEF PacketInv, SizesAgree
  <2>3. before' # None => builder.seqnr = After(before')
    <3>1. CASE at = "sending"
      <4>1. sending = "rtp" /\ before' = out.sequencenumber
        BY <1>7, <3>1 DEF SendEnds, ControlInv
      <4> QED BY <4>1 DEF PacketInv, NumbersFollow
    <3>2. CASE at # "sending"
      <4>1. sending # "rtp" /\ before' = before
        BY <1>7, <3>2 DEF SendEnds, ControlInv
      <4> QED BY <4>1 DEF PacketInv, NumbersFollow
    <3> QED BY <3>1, <3>2
  <2> QED BY <2>1, <2>2, <2>3 DEF PacketInv, NumbersFollow, PacketsGoOut
<1>8. CASE ConfigureBuilder
  <2>1. builder' \in Builders /\ at = "idle"
    BY <1>8 DEF ConfigureBuilder
  <2>2. UNCHANGED <<created, maxpacksize, transsize, sending, before, out, asked>>
    BY <1>8 DEF ConfigureBuilder, transVars, session, loop, sent
  <2>3. sending = "no"
    BY <2>1 DEF ControlInv
  <2>4. IsBuilder(builder') /\ builder'.seqnr = builder.seqnr /\ builder'.max = builder.max
    BY <2>1, ConfiguredIs DEF PacketInv
  <2> QED BY <2>2, <2>3, <2>4 DEF PacketInv, SizesAgree, NumbersFollow, PacketsGoOut
<1>9. ASSUME NEW size \in Size, NEW ok \in BOOLEAN, SetMaximumPacketSize(size, ok) PROVE PacketInv'
  BY <1>0, <1>9, ResizedKeepsPackets
<1>10. CASE SweepEnds
  <2>1. UNCHANGED <<builder, created, maxpacksize, transsize, before, out, asked>>
    BY <1>10 DEF SweepEnds, KeepsTrans, session, sent
  <2>2. sending # "rtp" /\ sending' # "rtp"
    BY <1>10 DEF SweepEnds, ControlInv, BeginSend, loop
  <2> QED BY <2>1, <2>2 DEF PacketInv, SizesAgree, NumbersFollow, PacketsGoOut
<1> USE PacketQuiet DEF session, loop, sent
<1>11. CASE Destinations
  BY <1>11 DEF Destinations, KeepsTrans, AddDestination, DeleteDestination, ClearDestinations
<1>12. ASSUME NEW d, SetCurrentData(d) PROVE PacketInv'
  BY <1>12 DEF SetCurrentData
<1>13. CASE Filter \/ Poll
  BY <1>13 DEF Filter, Poll
<1>14. CASE ProcessPacket \/ ProcessSDES \/ BeginSweep
  BY <1>14 DEF ProcessPacket, ProcessSDES, BeginSweep, transVars
<1>15. ASSUME NEW timedout, SweepNext(timedout) PROVE PacketInv'
  BY <1>15 DEF SweepNext, transVars
<1>16. ASSUME OnlySources PROVE PacketInv'
  BY <1>16 DEF OnlySources, transVars
<1>17. CASE GotoFirstSource \/ GotoNextSource \/ GotoPreviousSource \/ GetNextPacket
  BY <1>16, <1>17 DEF GotoFirstSource, GotoNextSource, GotoPreviousSource, GetNextPacket
<1>18. CASE GotoFirstSourceWithData \/ GotoNextSourceWithData \/ GotoPreviousSourceWithData
  BY <1>16, <1>18 DEF GotoFirstSourceWithData, GotoNextSourceWithData, GotoPreviousSourceWithData
<1>19. ASSUME NEW s, GetSourceInfo(s) PROVE PacketInv'
  BY <1>16, <1>19 DEF GetSourceInfo
<1>20. ASSUME NEW s, SDES_GotoFirstPrivateValue(s) \/ SDES_GetNextPrivateValue(s) PROVE PacketInv'
  <2>1. AsksFor(s)
    BY <1>20 DEF SDES_GotoFirstPrivateValue, SDES_GetNextPrivateValue
  <2> QED BY <2>1 DEF AsksFor, transVars
<1>21. CASE UNCHANGED vars
  BY <1>21 DEF vars, transVars
<1> QED BY <1>40, <1>1, <1>2, <1>3, <1>4, <1>5, <1>6, <1>7, <1>8, <1>9, <1>10, <1>11, <1>12, <1>13, <1>14,
           <1>15, <1>17, <1>18, <1>19, <1>20, <1>21 DEF Next

-----------------------------------------------------------------------------
(* The recursions of the model, step by step. *)

Made(kind, arg, x, i) ==
  CASE kind = "heard" -> OneItem(x, arg[i])
    [] kind = "told" -> Tells(x, arg[i])
    [] kind = "past" -> PastItem(arg, x)
    [] kind = "chunk" -> NextChunk(arg, x)
    [] OTHER -> x \o arg[i + 1]

Results(f, kind, arg, st, k) == f = [i \in 0 .. k |-> IF i = 0 THEN st ELSE Made(kind, arg, f[i - 1], i)]

\* The functions that they are defined by are there.
LEMMA ResultsExist ==
  ASSUME NEW n \in Nat, NEW kind, NEW arg, NEW st
  PROVE  \E f : Results(f, kind, arg, st, n)
<1> DEFINE Has(k) == \E f : Results(f, kind, arg, st, k)
           P == {k \in 0 .. n : Has(k)}
<1>1. Has(0)
  <2> DEFINE f == [i \in 0 .. 0 |-> st]
             g == [i \in 0 .. 0 |-> IF i = 0 THEN st ELSE Made(kind, arg, f[i - 1], i)]
  <2>1. \A i \in 0 .. 0 : f[i] = g[i]
    OBVIOUS
  <2>2. f = [i \in 0 .. 0 |-> f[i]] /\ g = [i \in 0 .. 0 |-> g[i]]
    OBVIOUS
  <2> HIDE DEF f, g
  <2>3. f = g
    BY <2>1, <2>2
  <2>4. Results(f, kind, arg, st, 0)
    BY <2>3 DEF Results, g
  <2> QED BY <2>4
<1>2. ASSUME NEW k \in Nat, Has(k), NEW m, m = k + 1 PROVE Has(m)
  <2>1. PICK f : Results(f, kind, arg, st, k)
    BY <1>2
  <2>2. PICK v : v = Made(kind, arg, f[k], m)
    OBVIOUS
  <2> DEFINE h == [i \in 0 .. m |-> IF i = m THEN v ELSE f[i]]
             g == [i \in 0 .. m |-> IF i = 0 THEN st ELSE Made(kind, arg, h[i - 1], i)]
  <2>3. \A i \in 0 .. k : i \in 0 .. m /\ i # m /\ h[i] = f[i]
    BY <1>2
  <2>4. ASSUME NEW i \in 0 .. m PROVE h[i] = g[i]
    <3>0. g[i] = IF i = 0 THEN st ELSE Made(kind, arg, h[i - 1], i)
      OBVIOUS
    <3>1. CASE i = m
      <4>1. h[i] = v
        BY <3>1
      <4>2. i # 0 /\ i - 1 = k /\ h[k] = f[k]
        BY <1>2, <2>3, <3>1
      <4> HIDE DEF h, g
      <4> QED BY <2>2, <3>0, <3>1, <4>1, <4>2
    <3>2. CASE i # m
      <4>1. i \in 0 .. k
        BY <1>2, <3>2
      <4>2. h[i] = f[i]
        BY <2>3, <4>1
      <4>3. f[i] = IF i = 0 THEN st ELSE Made(kind, arg, f[i - 1], i)
        <5> DEFINE r == [j \in 0 .. k |-> IF j = 0 THEN st ELSE Made(kind, arg, f[j - 1], j)]
        <5>1. f = r
          BY <2>1 DEF Results
        <5>2. r[i] = IF i = 0 THEN st ELSE Made(kind, arg, f[i - 1], i)
          BY <4>1
        <5> HIDE DEF r
        <5> QED BY <5>1, <5>2
      <4>4. i # 0 => i - 1 \in 0 .. k
        BY <1>2, <4>1
      <4>5. i # 0 => h[i - 1] = f[i - 1]
        BY <2>3, <4>4
      <4> HIDE DEF h, g
      <4> QED BY <3>0, <4>2, <4>3, <4>5
    <3> QED BY <3>1, <3>2
  <2>5. h = [i \in 0 .. m |-> h[i]] /\ g = [i \in 0 .. m |-> g[i]]
    OBVIOUS
  <2>6. g = [i \in 0 .. m |-> IF i = 0 THEN st ELSE Made(kind, arg, h[i - 1], i)]
    OBVIOUS
  <2> HIDE DEF h, g
  <2>7. h = g
    BY <2>4, <2>5
  <2>8. Results(h, kind, arg, st, m)
    BY <2>6, <2>7 DEF Results
  <2> QED BY <2>8
<1> HIDE DEF Has
<1>3. 0 \in P
  BY <1>1
<1>4. ASSUME NEW i \in 1 .. n, i - 1 \in P PROVE i \in P
  <2>1. i - 1 \in Nat /\ i = (i - 1) + 1 /\ i \in 0 .. n
    OBVIOUS
  <2>2. Has(i - 1)
    BY <1>4
  <2>3. PICK k : k = i - 1
    OBVIOUS
  <2>4. Has(i)
    BY <1>2, <2>1, <2>2, <2>3
  <2> QED BY <2>1, <2>4
<1>5. \A i \in 0 .. n : i \in P
  <2> HIDE DEF P
  <2> QED BY <1>3, <1>4, HP!UpTo
<1>6. n \in P
  BY <1>5
<1> QED BY <1>6 DEF Has

\* f is the function of such a definition.
IsResult(f, kind, arg, st, n) == f = CHOOSE g : Results(g, kind, arg, st, n)

LEMMA ResultIs ==
  ASSUME NEW n \in Nat, NEW kind, NEW arg, NEW st, NEW f, IsResult(f, kind, arg, st, n)
  PROVE  f[0] = st /\ \A i \in 1 .. n : f[i] = Made(kind, arg, f[i - 1], i)
<1>1. \E g : Results(g, kind, arg, st, n)
  BY ResultsExist
<1>2. Results(f, kind, arg, st, n)
  BY <1>1 DEF IsResult
<1> DEFINE r == [i \in 0 .. n |-> IF i = 0 THEN st ELSE Made(kind, arg, f[i - 1], i)]
<1>3. r[0] = st /\ \A i \in 1 .. n : r[i] = Made(kind, arg, f[i - 1], i)
  OBVIOUS
<1>4. f = r
  BY <1>2 DEF Results
<1> HIDE DEF r
<1> QED BY <1>3, <1>4

HearsAll(f, st, items, n) ==
  /\ f[0] = st /\ AfterItems(st, items) = f[n]
  /\ \A i \in 1 .. n : f[i] = OneItem(f[i - 1], items[i])

LEMMA AfterItemsIs ==
  ASSUME NEW st, NEW items, NEW n \in Nat, n = Len(items)
  PROVE  \E f : HearsAll(f, st, items, n)
<1> DEFINE f == CHOOSE g : Results(g, "heard", items, st, Len(items))
<1>0. IsResult(f, "heard", items, st, Len(items))
  BY DEF IsResult
<1>1. f[0] = st /\ \A i \in 1 .. Len(items) : f[i] = Made("heard", items, f[i - 1], i)
  <2> HIDE DEF f
  <2> QED BY <1>0, ResultIs
<1>2. AfterItems(st, items) = f[Len(items)]
  BY DEF AfterItems, Results, Made
<1> HIDE DEF f
<1> QED BY <1>1, <1>2 DEF Made, HearsAll

TellsAll(f, st, items, n) ==
  /\ f[0] = st /\ AfterSaying(st, items) = f[n]
  /\ \A i \in 1 .. n : f[i] = Tells(f[i - 1], items[i])

LEMMA AfterSayingIs ==
  ASSUME NEW st, NEW items, NEW n \in Nat, n = Len(items)
  PROVE  \E f : TellsAll(f, st, items, n)
<1> DEFINE f == CHOOSE g : Results(g, "told", items, st, Len(items))
<1>0. IsResult(f, "told", items, st, Len(items))
  BY DEF IsResult
<1>1. f[0] = st /\ \A i \in 1 .. Len(items) : f[i] = Made("told", items, f[i - 1], i)
  <2> HIDE DEF f
  <2> QED BY <1>0, ResultIs
<1>2. AfterSaying(st, items) = f[Len(items)]
  BY DEF AfterSaying, Results, Made
<1> HIDE DEF f
<1> QED BY <1>1, <1>2 DEF Made, TellsAll

LEMMA ItemAtIs ==
  ASSUME NEW p, NEW first, Len(p.bytes) \in Nat
  PROVE  /\ ItemAt(p, first)[0] = first /\ DOMAIN ItemAt(p, first) = 0 .. Len(p.bytes)
         /\ \A k \in 1 .. Len(p.bytes) : ItemAt(p, first)[k] = PastItem(p, ItemAt(p, first)[k - 1])
<1> DEFINE f == CHOOSE g : Results(g, "past", p, first, Len(p.bytes))
<1>0. IsResult(f, "past", p, first, Len(p.bytes))
  BY DEF IsResult
<1>1. f[0] = first /\ \A i \in 1 .. Len(p.bytes) : f[i] = Made("past", p, f[i - 1], i)
  <2> HIDE DEF f
  <2> QED BY <1>0, ResultIs
<1>2. ItemAt(p, first) = f
  BY DEF ItemAt, Results, Made
<1>3. DOMAIN f = 0 .. Len(p.bytes)
  <2>1. Results(f, "past", p, first, Len(p.bytes))
    BY ResultsExist
  <2> HIDE DEF f
  <2> QED BY <2>1 DEF Results
<1> HIDE DEF f
<1> QED BY <1>1, <1>2, <1>3 DEF Made

LEMMA ChunkAtIs ==
  ASSUME NEW p, p.count \in Nat
  PROVE  /\ ChunkAt(p)[0] = 0
         /\ \A n \in 1 .. p.count : ChunkAt(p)[n] = NextChunk(p, ChunkAt(p)[n - 1])
<1> DEFINE f == CHOOSE g : Results(g, "chunk", p, 0, p.count)
<1>0. IsResult(f, "chunk", p, 0, p.count)
  BY DEF IsResult
<1>1. f[0] = 0 /\ \A i \in 1 .. p.count : f[i] = Made("chunk", p, f[i - 1], i)
  <2> HIDE DEF f
  <2> QED BY <1>0, ResultIs
<1>2. ChunkAt(p) = f
  BY DEF ChunkAt, Results, Made
<1> HIDE DEF f
<1> QED BY <1>1, <1>2 DEF Made

-----------------------------------------------------------------------------
(* One sequence after the other. *)

\* n sequences of elements of S.
Family(seqs, S, n) == seqs = [i \in 1 .. n |-> seqs[i]] /\ \A i \in 1 .. n : seqs[i] \in Seq(S)

\* f[i] is what the first i of them make.
Joins(f, seqs, n) ==
  f[0] = <<>> /\ FlattenSeq(seqs) = f[n] /\ \A i \in 1 .. n : f[i] = f[i - 1] \o seqs[i]

LEMMA FlattenIs ==
  ASSUME NEW S, NEW n \in Nat, NEW seqs, Family(seqs, S, n)
  PROVE  \E f : Joins(f, seqs, n)
<1>0. seqs = [i \in 1 .. n |-> seqs[i]] /\ \A i \in 1 .. n : seqs[i] \in Seq(S)
  BY DEF Family
<1>1. Len(seqs) = n
  BY <1>0
<1>2. CASE n = 0
  <2>1. FlattenSeq(seqs) = seqs
    BY <1>1, <1>2 DEF FlattenSeq
  <2>2. seqs = <<>>
    BY <1>0, <1>2
  <2> DEFINE f == [i \in 0 .. 0 |-> <<>>]
  <2>3. f[0] = <<>>
    OBVIOUS
  <2> HIDE DEF f
  <2> QED BY <1>2, <2>1, <2>2, <2>3 DEF Joins
<1>3. CASE n # 0
  <2>0. n - 1 \in Nat
    BY <1>3
  <2>1. PICK h : Results(h, "flat", seqs, seqs[1], n - 1)
    BY <2>0, ResultsExist
  <2> DEFINE g == [i \in 1 .. n |-> h[i - 1]]
             r == [i \in 1 .. n |-> IF i = 1 THEN seqs[i] ELSE g[i - 1] \o seqs[i]]
             e == [i \in 0 .. n - 1 |-> IF i = 0 THEN seqs[1] ELSE Made("flat", seqs, h[i - 1], i)]
  <2>2. h = e
    BY <2>1 DEF Results
  <2>3. ASSUME NEW i \in 1 .. n PROVE g[i] = r[i]
    <3>1. g[i] = h[i - 1] /\ r[i] = (IF i = 1 THEN seqs[i] ELSE g[i - 1] \o seqs[i])
      OBVIOUS
    <3>2. CASE i = 1
      <4>1. e[0] = seqs[1]
        BY <2>0
      <4> HIDE DEF e
      <4> QED BY <2>2, <3>1, <3>2, <4>1
    <3>3. CASE i # 1
      <4>1. PICK k \in 1 .. n - 1 : k = i - 1
        BY <3>3
      <4>2. e[k] = Made("flat", seqs, h[k - 1], k)
        BY <4>1
      <4>3. g[k] = h[k - 1] /\ k + 1 = i
        BY <4>1
      <4>4. h[k] = h[k - 1] \o seqs[i]
        <5> HIDE DEF e
        <5>1. Made("flat", seqs, h[k - 1], k) = h[k - 1] \o seqs[k + 1]
          BY DEF Made
        <5> QED BY <2>2, <4>2, <4>3, <5>1
      <4> HIDE DEF e, g, r
      <4> QED BY <3>1, <3>3, <4>1, <4>3, <4>4
    <3> QED BY <3>2, <3>3
  <2>4. g = [i \in 1 .. n |-> g[i]] /\ r = [i \in 1 .. n |-> r[i]]
    OBVIOUS
  <2>5. r = [i \in 1 .. n |-> IF i = 1 THEN seqs[i] ELSE g[i - 1] \o seqs[i]]
    OBVIOUS
  <2>6. \E x : x = [i \in 1 .. n |-> IF i = 1 THEN seqs[i] ELSE x[i - 1] \o seqs[i]]
    <3> HIDE DEF g, r, e
    <3>1. g = r
      BY <2>3, <2>4
    <3> QED BY <2>5, <3>1
  <2> HIDE DEF g, r, e
  <2> DEFINE F == CHOOSE x : x = [i \in 1 .. Len(seqs) |-> IF i = 1 THEN seqs[i] ELSE x[i - 1] \o seqs[i]]
             G == [i \in 1 .. n |-> IF i = 1 THEN seqs[i] ELSE F[i - 1] \o seqs[i]]
             R == [i \in 0 .. n |-> IF i = 0 THEN <<>> ELSE F[i]]
  <2>7. FlattenSeq(seqs) = F[n]
    BY <1>1, <1>3 DEF FlattenSeq
  <2>8. F = G
    BY <1>1, <2>6
  <2>9. /\ \A i \in 1 .. n : G[i] = IF i = 1 THEN seqs[i] ELSE F[i - 1] \o seqs[i]
        /\ \A i \in 1 .. n : R[i] = F[i]
        /\ R[0] = <<>>
    <3>1. \A i \in 1 .. n : G[i] = IF i = 1 THEN seqs[i] ELSE F[i - 1] \o seqs[i]
      OBVIOUS
    <3>2. (\A i \in 1 .. n : R[i] = F[i]) /\ R[0] = <<>>
      <4> HIDE DEF F
      <4> QED OBVIOUS
    <3> QED BY ONLY <3>1, <3>2
  <2> HIDE DEF F, G, R
  <2>10. ASSUME NEW i \in 1 .. n PROVE R[i] = R[i - 1] \o seqs[i]
    <3>1. CASE i = 1
      <4>1. R[i] = seqs[i] /\ R[i - 1] = <<>>
        BY <2>8, <2>9, <3>1
      <4>2. seqs[i] \in Seq(S)
        BY <1>0
      <4>3. <<>> \o seqs[i] = seqs[i]
        BY ONLY <4>2, ConcatEmptySeq
      <4> QED BY <4>1, <4>3
    <3>2. CASE i # 1
      <4>1. i - 1 \in 1 .. n
        BY <3>2
      <4>2. R[i - 1] = F[i - 1] /\ R[i] = F[i] /\ F[i] = F[i - 1] \o seqs[i]
        BY <2>8, <2>9, <3>2, <4>1
      <4> QED BY <4>2
    <3> QED BY <3>1, <3>2
  <2>11. FlattenSeq(seqs) = R[n]
    BY <1>3, <2>7, <2>9
  <2> QED BY <2>9, <2>10, <2>11 DEF Joins
<1> QED BY <1>2, <1>3

\* pos[i] is where the i-th of the sequences ends.
LayOut(pos, seqs, n) ==
  /\ pos[0] = 0 /\ \A i \in 0 .. n : pos[i] \in Nat /\ pos[i] <= pos[n]
  /\ \A i \in 1 .. n : pos[i] = pos[i - 1] + Len(seqs[i])

\* ... in F, which has nothing else.
Parted(pos, seqs, S, F, n) ==
  /\ LayOut(pos, seqs, n)
  /\ F \in Seq(S) /\ Len(F) = pos[n]
  /\ \A i \in 1 .. n : \A k \in 1 .. Len(seqs[i]) : F[pos[i - 1] + k] = seqs[i][k]

\* What is laid out after m of them.
LaidSoFar(f, pos, seqs, S, m) ==
  /\ f[m] \in Seq(S) /\ pos[m] \in Nat
  /\ \A j \in 1 .. m : pos[j] = pos[j - 1] + Len(seqs[j])
  /\ \A j \in 0 .. m : pos[j] \in Nat /\ pos[j] <= pos[m]
  /\ \A j \in 1 .. m : \A k \in 1 .. Len(seqs[j]) : f[m][pos[j - 1] + k] = seqs[j][k]

LEMMA FlattenParts ==
  ASSUME NEW S, NEW n \in Nat, NEW seqs, Family(seqs, S, n), NEW F, F = FlattenSeq(seqs)
  PROVE  \E pos : Parted(pos, seqs, S, F, n)
<1>0. seqs = [i \in 1 .. n |-> seqs[i]] /\ \A i \in 1 .. n : seqs[i] \in Seq(S)
  BY DEF Family
<1>1. PICK f : /\ f[0] = <<>> /\ F = f[n]
               /\ \A i \in 1 .. n : f[i] = f[i - 1] \o seqs[i]
  <2>1. PICK f : Joins(f, seqs, n)
    BY FlattenIs
  <2> QED BY <2>1 DEF Joins
<1> DEFINE pos == [i \in 0 .. n |-> Len(f[i])]
<1>2. \A i \in 0 .. n : pos[i] = Len(f[i])
  OBVIOUS
<1> HIDE DEF pos
<1> DEFINE Good(m) == LaidSoFar(f, pos, seqs, S, m)
           P == {m \in 0 .. n : Good(m)}
<1>3. 0 \in P
  <2>1. pos[0] = 0
    BY <1>1, <1>2
  <2>2. <<>> \in Seq(S)
    OBVIOUS
  <2>3. f[0] \in Seq(S)
    BY ONLY <1>1, <2>2, Zenon
  <2>4. Good(0)
    BY <2>1, <2>3 DEF LaidSoFar
  <2> QED BY <2>4
<1>4. ASSUME NEW i \in 1 .. n, i - 1 \in P PROVE i \in P
  <2>1. PICK h \in 0 .. n : h = i - 1
    OBVIOUS
  <2>2. Good(h)
    BY <1>4, <2>1
  <2>2a. /\ f[h] \in Seq(S) /\ pos[h] \in Nat
         /\ \A j \in 1 .. h : pos[j] = pos[j - 1] + Len(seqs[j])
         /\ \A j \in 0 .. h : pos[j] \in Nat /\ pos[j] <= pos[h]
         /\ \A j \in 1 .. h : \A k \in 1 .. Len(seqs[j]) : f[h][pos[j - 1] + k] = seqs[j][k]
    BY <2>2 DEF LaidSoFar
  <2> HIDE DEF P, Good
  <2>3. PICK s : s = f[h]
    OBVIOUS
  <2>4. PICK t : t = seqs[i]
    OBVIOUS
  <2>5. PICK u : u = f[i]
    OBVIOUS
  <2>6. s \in Seq(S) /\ t \in Seq(S) /\ u = s \o t
    BY <1>0, <1>1, <2>1, <2>2a, <2>3, <2>4, <2>5
  <2>7. /\ u \in Seq(S) /\ Len(u) = Len(s) + Len(t)
        /\ \A k \in 1 .. Len(s) + Len(t) : u[k] = IF k <= Len(s) THEN s[k] ELSE t[k - Len(s)]
    BY ONLY <2>6, ConcatProperties
  <2>8. /\ pos[h] = Len(s) /\ pos[i] = Len(u) /\ Len(s) \in Nat /\ Len(t) \in Nat
    <3>1. h \in 0 .. n /\ i \in 0 .. n
      BY <2>1
    <3>2. pos[h] = Len(s) /\ pos[i] = Len(u)
      BY <1>2, <2>3, <2>5, <3>1
    <3> QED BY ONLY <2>6, <3>2
  <2>9. \A j \in 1 .. i : pos[j] = pos[j - 1] + Len(seqs[j])
    <3> SUFFICES ASSUME NEW j \in 1 .. i PROVE pos[j] = pos[j - 1] + Len(seqs[j])
      OBVIOUS
    <3>1. CASE j = i
      BY <2>1, <2>4, <2>7, <2>8, <3>1
    <3>2. CASE j # i
      <4>1. j \in 1 .. h
        BY <2>1, <3>2
      <4> QED BY <2>2a, <4>1
    <3> QED BY <3>1, <3>2
  <2>10. \A j \in 0 .. i : pos[j] \in Nat /\ pos[j] <= pos[i]
    <3> SUFFICES ASSUME NEW j \in 0 .. i PROVE pos[j] \in Nat /\ pos[j] <= pos[i]
      OBVIOUS
    <3>1. CASE j = i
      BY <2>7, <2>8, <3>1
    <3>2. CASE j # i
      <4>1. j \in 0 .. h
        BY <2>1, <3>2
      <4>2. pos[j] \in Nat /\ pos[j] <= pos[h]
        BY <2>2a, <4>1
      <4> QED BY <2>7, <2>8, <4>2
    <3> QED BY <3>1, <3>2
  <2>11. ASSUME NEW j \in 1 .. i, NEW k \in 1 .. Len(seqs[j]) PROVE u[pos[j - 1] + k] = seqs[j][k]
    <3>1. CASE j = i
      <4>1. PICK l : l = pos[h] + k
        OBVIOUS
      <4>2. k \in 1 .. Len(t) /\ pos[j - 1] = pos[h]
        BY <2>1, <2>4, <3>1
      <4>3. l \in 1 .. Len(s) + Len(t) /\ ~(l <= Len(s)) /\ l - Len(s) = k
        BY <2>8, <4>1, <4>2
      <4>4. u[l] = t[k]
        BY <2>7, <4>3
      <4> QED BY <2>4, <3>1, <4>1, <4>2, <4>4
    <3>2. CASE j # i
      <4>1. j \in 1 .. h /\ j - 1 \in 0 .. h
        BY <2>1, <3>2
      <4>2. seqs[j] \in Seq(S) /\ Len(seqs[j]) \in Nat
        BY <1>0, <4>1, <2>1
      <4>3. pos[j] = pos[j - 1] + Len(seqs[j]) /\ pos[j] <= pos[h] /\ pos[j - 1] \in Nat
        <5>1. j \in 0 .. h
          BY <4>1
        <5> QED BY ONLY <2>2a, <4>1, <5>1
      <4>4. PICK l : l = pos[j - 1] + k
        OBVIOUS
      <4>5. l \in 1 .. Len(s)
        BY ONLY <2>8, <4>2, <4>3, <4>4, SMTT(30)
      <4>6. l \in 1 .. Len(s) + Len(t) /\ l <= Len(s)
        BY <2>8, <4>5
      <4>7. u[l] = s[l]
        BY <2>7, <4>6
      <4>8. s[l] = seqs[j][k]
        BY <2>2a, <2>3, <4>1, <4>4
      <4> QED BY <4>4, <4>7, <4>8
    <3> QED BY <3>1, <3>2
  <2>12. Good(i)
    <3>1. f[i] \in Seq(S) /\ pos[i] \in Nat
      BY <2>5, <2>7, <2>8
    <3>2. \A j \in 1 .. i : \A k \in 1 .. Len(seqs[j]) : f[i][pos[j - 1] + k] = seqs[j][k]
      BY <2>5, <2>11
    <3> QED BY <2>9, <2>10, <3>1, <3>2 DEF Good, LaidSoFar
  <2>13. i \in 0 .. n
    OBVIOUS
  <2> QED BY <2>12, <2>13 DEF P
<1>5. \A i \in 0 .. n : i \in P
  <2> HIDE DEF P
  <2> QED BY <1>3, <1>4, HP!UpTo
<1>6. Good(n)
  <2> HIDE DEF Good
  <2> QED BY <1>5
<1>6a. /\ f[n] \in Seq(S) /\ pos[n] \in Nat
       /\ \A j \in 1 .. n : pos[j] = pos[j - 1] + Len(seqs[j])
       /\ \A j \in 0 .. n : pos[j] \in Nat /\ pos[j] <= pos[n]
       /\ \A j \in 1 .. n : \A k \in 1 .. Len(seqs[j]) : f[n][pos[j - 1] + k] = seqs[j][k]
  BY <1>6 DEF LaidSoFar
<1> HIDE DEF P, Good
<1>7. pos[0] = 0
  BY <1>1, <1>2
<1>8. Len(F) = pos[n]
  BY <1>1, <1>2
<1>9. LayOut(pos, seqs, n)
  BY <1>6a, <1>7 DEF LayOut
<1>10. f[n] = F
  BY <1>1
<1>11. \A i \in 1 .. n : \A k \in 1 .. Len(seqs[i]) : F[pos[i - 1] + k] = seqs[i][k]
  BY <1>6a, <1>10
<1>12. F \in Seq(S)
  BY <1>6a, <1>10
<1> QED BY <1>8, <1>9, <1>11, <1>12 DEF Parted

-----------------------------------------------------------------------------
(* What a chunk is laid out as. *)

Item == [id : Nat \ {0}, data : Seq(Nat)]

\* pos[i] is where the i-th item ends among the items.
ItemEnds(pos, items, n) ==
  /\ pos[0] = 0 /\ \A i \in 0 .. n : pos[i] \in Nat /\ pos[i] <= pos[n]
  /\ \A i \in 1 .. n : pos[i] = pos[i - 1] + ItemHeader + Len(items[i].data)

\* The items are in w, behind the first b bytes.
ItemsIn(w, b, pos, items, n) ==
  \A i \in 1 .. n :
    /\ w[b + pos[i - 1] + 1] = items[i].id
    /\ w[b + pos[i - 1] + 2] = Len(items[i].data)
    /\ \A k \in 1 .. Len(items[i].data) : w[b + pos[i - 1] + 2 + k] = items[i].data[k]

LEMMA LaidItemIs ==
  ASSUME NEW x \in Item, NEW s, s = <<x.id, Len(x.data)>> \o x.data
  PROVE  /\ s \in Seq(Nat) /\ Len(s) = ItemHeader + Len(x.data) /\ s[1] = x.id /\ s[2] = Len(x.data)
         /\ \A k \in 1 .. Len(x.data) : s[2 + k] = x.data[k]
<1>1. PICK d : d = x.data
  OBVIOUS
<1>2. PICK i \in Nat : i = x.id
  BY DEF Item
<1>3. d \in Seq(Nat) /\ Len(d) \in Nat
  BY <1>1 DEF Item
<1>4. PICK h : h = <<i, Len(d)>>
  OBVIOUS
<1>5. h \in Seq(Nat) /\ Len(h) = 2 /\ h[1] = i /\ h[2] = Len(d)
  BY <1>3, <1>4
<1>6. s = h \o d
  BY <1>1, <1>2, <1>4
<1>7. /\ s \in Seq(Nat) /\ Len(s) = Len(h) + Len(d)
      /\ \A k \in 1 .. Len(h) + Len(d) : s[k] = IF k <= Len(h) THEN h[k] ELSE d[k - Len(h)]
  BY ONLY <1>3, <1>5, <1>6, ConcatProperties
<1>8. s[1] = h[1] /\ s[2] = h[2]
  <2>1. 1 \in 1 .. Len(h) + Len(d) /\ 2 \in 1 .. Len(h) + Len(d)
    BY <1>3, <1>5
  <2> QED BY <1>5, <1>7, <2>1
<1>9. ASSUME NEW k \in 1 .. Len(d) PROVE s[2 + k] = d[k]
  <2>1. PICK l : l = 2 + k
    OBVIOUS
  <2>2. l \in 1 .. Len(h) + Len(d) /\ ~(l <= Len(h)) /\ l - Len(h) = k
    BY <1>3, <1>5, <2>1
  <2> QED BY <1>7, <2>1, <2>2
<1> QED BY <1>1, <1>2, <1>3, <1>5, <1>7, <1>8, <1>9 DEF ItemHeader

LEMMA LaidItemsAre ==
  ASSUME NEW items \in Seq(Item), NEW n \in Nat, n = Len(items), NEW w, w = LaidItems(items)
  PROVE  \E pos : ItemEnds(pos, items, n) /\ ItemsIn(w, 0, pos, items, n) /\ w \in Seq(Nat) /\ Len(w) = pos[n]
<1> DEFINE S == [i \in 1 .. n |-> <<items[i].id, Len(items[i].data)>> \o items[i].data]
<1>1. ASSUME NEW i \in 1 .. n
      PROVE  /\ S[i] \in Seq(Nat) /\ Len(S[i]) = ItemHeader + Len(items[i].data) /\ Len(items[i].data) \in Nat
             /\ S[i][1] = items[i].id /\ S[i][2] = Len(items[i].data)
             /\ \A k \in 1 .. Len(items[i].data) : S[i][2 + k] = items[i].data[k]
  <2>1. PICK s : s = S[i]
    OBVIOUS
  <2>2. PICK x : x = items[i]
    OBVIOUS
  <2>3. x \in Item /\ Len(x.data) \in Nat
    <3>1. x \in Item
      BY <2>2
    <3>2. PICK d : d = x.data
      OBVIOUS
    <3>3. d \in Seq(Nat)
      BY <3>1, <3>2 DEF Item
    <3>4. Len(d) \in Nat
      BY ONLY <3>3
    <3> QED BY ONLY <3>1, <3>2, <3>4
  <2>4. s = <<x.id, Len(x.data)>> \o x.data
    BY <2>1, <2>2
  <2>5. /\ s \in Seq(Nat) /\ Len(s) = ItemHeader + Len(x.data) /\ s[1] = x.id /\ s[2] = Len(x.data)
        /\ \A k \in 1 .. Len(x.data) : s[2 + k] = x.data[k]
    BY ONLY <2>3, <2>4, LaidItemIs
  <2> HIDE DEF S
  <2> QED BY <2>1, <2>2, <2>3, <2>5
<1>2. S = [i \in 1 .. n |-> S[i]]
  OBVIOUS
<1>3. w = FlattenSeq(S)
  <2>1. DOMAIN items = 1 .. n
    OBVIOUS
  <2> QED BY <2>1 DEF LaidItems
<1> HIDE DEF S
<1>4. Family(S, Nat, n)
  BY <1>1, <1>2 DEF Family
<1>5. PICK pos : /\ LayOut(pos, S, n) /\ w \in Seq(Nat) /\ Len(w) = pos[n]
                 /\ \A i \in 1 .. n : \A k \in 1 .. Len(S[i]) : w[pos[i - 1] + k] = S[i][k]
  <2>1. PICK pos : Parted(pos, S, Nat, w, n)
    BY <1>3, <1>4, FlattenParts
  <2> QED BY <2>1 DEF Parted
<1>6. ItemEnds(pos, items, n)
  <2>1. /\ pos[0] = 0 /\ \A i \in 0 .. n : pos[i] \in Nat /\ pos[i] <= pos[n]
        /\ \A i \in 1 .. n : pos[i] = pos[i - 1] + Len(S[i])
    BY <1>5 DEF LayOut
  <2>2. ASSUME NEW i \in 1 .. n PROVE pos[i] = pos[i - 1] + ItemHeader + Len(items[i].data)
    <3>1. pos[i - 1] \in Nat
      BY <2>1
    <3>2. pos[i] = pos[i - 1] + (ItemHeader + Len(items[i].data)) /\ Len(items[i].data) \in Nat
      BY <1>1, <2>1
    <3> QED BY <3>1, <3>2, SMTT(30) DEF ItemHeader
  <2> QED BY <2>1, <2>2 DEF ItemEnds
<1>7. ASSUME NEW i \in 1 .. n
      PROVE  /\ w[0 + pos[i - 1] + 1] = items[i].id
             /\ w[0 + pos[i - 1] + 2] = Len(items[i].data)
             /\ \A k \in 1 .. Len(items[i].data) : w[0 + pos[i - 1] + 2 + k] = items[i].data[k]
  <2>1. PICK b \in Nat : b = pos[i - 1]
    BY <1>6 DEF ItemEnds
  <2>2. /\ Len(S[i]) = 2 + Len(items[i].data) /\ Len(items[i].data) \in Nat
        /\ S[i][1] = items[i].id /\ S[i][2] = Len(items[i].data)
        /\ \A k \in 1 .. Len(items[i].data) : S[i][2 + k] = items[i].data[k]
    BY <1>1 DEF ItemHeader
  <2>3. \A k \in 1 .. Len(S[i]) : w[b + k] = S[i][k]
    BY <1>5, <2>1
  <2>4. w[b + 1] = S[i][1] /\ w[b + 2] = S[i][2]
    <3>1. 1 \in 1 .. Len(S[i]) /\ 2 \in 1 .. Len(S[i])
      BY <2>2
    <3> QED BY <2>3, <3>1
  <2>5. ASSUME NEW k \in 1 .. Len(items[i].data) PROVE w[b + 2 + k] = items[i].data[k]
    <3>1. PICK l : l = 2 + k
      OBVIOUS
    <3>2. l \in 1 .. Len(S[i]) /\ b + 2 + k = b + l
      BY <2>2, <3>1
    <3>3. w[b + l] = S[i][l]
      BY <2>3, <3>2
    <3> QED BY <2>2, <3>1, <3>2, <3>3
  <2>6. 0 + b = b
    OBVIOUS
  <2> QED BY <2>1, <2>2, <2>4, <2>5, <2>6
<1>8. ItemsIn(w, 0, pos, items, n)
  BY <1>7 DEF ItemsIn
<1> QED BY <1>5, <1>6, <1>8

LEMMA ToWordIs ==
  ASSUME NEW n \in Nat
  PROVE  /\ \E k \in Nat : ToWord(n) = 4 * k
         /\ ToWord(n) \in Nat /\ n <= ToWord(n) /\ ToWord(n) <= n + 3
         /\ \A k \in Nat : ToWord(4 * k + n) = 4 * k + ToWord(n)
<1>1. PICK q \in Nat : q = (n + 3) \div 4
  OBVIOUS
<1>2. n + 3 - 3 <= 4 * q /\ 4 * q <= n + 3
  BY <1>1
<1>3. ToWord(n) = 4 * q
  BY <1>1 DEF ToWord
<1>4. ASSUME NEW k \in Nat PROVE ToWord(4 * k + n) = 4 * k + ToWord(n)
  <2>1. PICK r \in Nat : r = (4 * k + n + 3) \div 4
    OBVIOUS
  <2>2. 4 * r <= 4 * k + n + 3 /\ 4 * k + n + 3 < 4 * r + 4
    BY <2>1
  <2>3. 4 * q <= n + 3 /\ n + 3 < 4 * q + 4
    BY <1>1
  <2>4. r = k + q
    BY <2>2, <2>3
  <2>5. ToWord(4 * k + n) = 4 * r
    BY <2>1 DEF ToWord
  <2> QED BY <1>3, <2>4, <2>5
<1> QED BY <1>2, <1>3, <1>4

AnyChunk == [ssrc : Nat, items : Seq(Item)]

\* The chunk is in w, behind the first b bytes.
ChunkIn(w, b, c, pos, n) ==
  /\ w[b + SSRCLength] = c.ssrc
  /\ ItemsIn(w, b + SSRCLength, pos, c.items, n)
  /\ w[b + SSRCLength + pos[n] + 1] = 0

ChunkLaid(w, c, pos, n) ==
  /\ ItemEnds(pos, c.items, n)
  /\ Len(w) = ToWord(SSRCLength + pos[n] + 1) /\ ChunkIn(w, 0, c, pos, n)

LEMMA LaidChunkIs ==
  ASSUME NEW c \in AnyChunk, NEW n \in Nat, n = Len(c.items), NEW w, w = LaidChunk(c)
  PROVE  w \in Seq(Nat) /\ \E pos : ChunkLaid(w, c, pos, n)
<1>1. PICK l : l = LaidItems(c.items)
  OBVIOUS
<1>2. c.ssrc \in Nat /\ c.items \in Seq(Item)
  BY DEF AnyChunk
<1>3. PICK pos : ItemEnds(pos, c.items, n) /\ ItemsIn(l, 0, pos, c.items, n) /\ l \in Seq(Nat) /\ Len(l) = pos[n]
  BY <1>1, <1>2, LaidItemsAre
<1>4. PICK e \in Nat : e = pos[n]
  BY <1>3 DEF ItemEnds
<1>5. PICK s \in Nat : s = c.ssrc
  BY <1>2
<1>6. PICK a : a = Zeros(3) \o <<s>>
  OBVIOUS
<1>7. a \in Seq(Nat) /\ Len(a) = 4 /\ a[4] = s
  <2>1. PICK z : z = Zeros(3)
    OBVIOUS
  <2>2. z \in Seq(Nat) /\ Len(z) = 3
    BY <2>1 DEF Zeros
  <2>3. <<s>> \in Seq(Nat) /\ Len(<<s>>) = 1 /\ <<s>>[1] = s
    OBVIOUS
  <2>4. PICK y : y = <<s>>
    OBVIOUS
  <2>5. y \in Seq(Nat) /\ Len(y) = 1 /\ y[1] = s /\ a = z \o y
    BY ONLY <1>6, <2>1, <2>3, <2>4
  <2>6. /\ a \in Seq(Nat) /\ Len(a) = Len(z) + Len(y)
        /\ \A k \in 1 .. Len(z) + Len(y) : a[k] = IF k <= Len(z) THEN z[k] ELSE y[k - Len(z)]
    BY ONLY <2>2, <2>5, ConcatProperties
  <2>7. a[4] = y[1]
    <3>1. 4 \in 1 .. Len(z) + Len(y) /\ ~(4 <= Len(z)) /\ 4 - Len(z) = 1
      BY <2>2, <2>5
    <3> QED BY <2>6, <3>1
  <2> QED BY <2>2, <2>5, <2>6, <2>7
<1>8. PICK t : t = a \o l
  OBVIOUS
<1>9. /\ t \in Seq(Nat) /\ Len(t) = 4 + e /\ t[4] = s
      /\ \A k \in 1 .. e : t[4 + k] = l[k]
  <2>1. /\ t \in Seq(Nat) /\ Len(t) = Len(a) + Len(l)
        /\ \A k \in 1 .. Len(a) + Len(l) : t[k] = IF k <= Len(a) THEN a[k] ELSE l[k - Len(a)]
    BY ONLY <1>3, <1>7, <1>8, ConcatProperties
  <2>2. t[4] = a[4]
    <3>1. 4 \in 1 .. Len(a) + Len(l) /\ 4 <= Len(a)
      BY <1>3, <1>4, <1>7
    <3> QED BY <2>1, <3>1
  <2>3. ASSUME NEW k \in 1 .. e PROVE t[4 + k] = l[k]
    <3>1. PICK j : j = 4 + k
      OBVIOUS
    <3>2. j \in 1 .. Len(a) + Len(l) /\ ~(j <= Len(a)) /\ j - Len(a) = k
      BY <1>3, <1>4, <1>7, <3>1
    <3> QED BY <2>1, <3>1, <3>2
  <2> QED BY <1>3, <1>4, <1>7, <2>1, <2>2, <2>3
<1>10. PICK u : u = t \o <<0>>
  OBVIOUS
<1>11. /\ u \in Seq(Nat) /\ Len(u) = 4 + e + 1 /\ u[4 + e + 1] = 0
       /\ \A k \in 1 .. 4 + e : u[k] = t[k]
  <2>1. <<0>> \in Seq(Nat) /\ Len(<<0>>) = 1 /\ <<0>>[1] = 0
    OBVIOUS
  <2>2. PICK y : y = <<0>>
    OBVIOUS
  <2>3. y \in Seq(Nat) /\ Len(y) = 1 /\ y[1] = 0 /\ u = t \o y
    BY ONLY <1>10, <2>1, <2>2
  <2>4. /\ u \in Seq(Nat) /\ Len(u) = Len(t) + Len(y)
        /\ \A k \in 1 .. Len(t) + Len(y) : u[k] = IF k <= Len(t) THEN t[k] ELSE y[k - Len(t)]
    BY ONLY <1>9, <2>3, ConcatProperties
  <2>5. u[4 + e + 1] = y[1]
    <3>1. PICK j : j = 4 + e + 1
      OBVIOUS
    <3>2. j \in 1 .. Len(t) + Len(y) /\ ~(j <= Len(t)) /\ j - Len(t) = 1
      BY <1>9, <2>3, <3>1
    <3> QED BY <2>4, <3>1, <3>2
  <2>6. ASSUME NEW k \in 1 .. 4 + e PROVE u[k] = t[k]
    <3>1. k \in 1 .. Len(t) + Len(y) /\ k <= Len(t)
      BY <1>9, <2>3
    <3> QED BY <2>4, <3>1
  <2> QED BY <1>9, <2>3, <2>4, <2>5, <2>6
<1>12. PICK g \in Nat : ToWord(4 + e + 1) = 4 + e + 1 + g
  <2>1. 4 + e + 1 \in Nat
    OBVIOUS
  <2>2. PICK x \in Nat : x = ToWord(4 + e + 1) /\ 4 + e + 1 <= x
    BY <2>1, ToWordIs
  <2>3. x - (4 + e + 1) \in Nat /\ x = 4 + e + 1 + (x - (4 + e + 1))
    BY <2>2
  <2> QED BY <2>2, <2>3
<1>13. w = u \o Zeros(g)
  <2>1. w = u \o Zeros(ToWord(Len(u)) - Len(u))
    BY <1>1, <1>5, <1>6, <1>8, <1>10 DEF LaidChunk
  <2>2. ToWord(Len(u)) - Len(u) = g
    BY <1>11, <1>12
  <2> QED BY <2>1, <2>2
<1>14. /\ w \in Seq(Nat) /\ Len(w) = ToWord(4 + e + 1)
       /\ \A k \in 1 .. 4 + e + 1 : w[k] = u[k]
  <2>1. PICK z : z = Zeros(g)
    OBVIOUS
  <2>2. z \in Seq(Nat) /\ Len(z) = g
    BY <2>1 DEF Zeros
  <2>3. /\ w \in Seq(Nat) /\ Len(w) = Len(u) + Len(z)
        /\ \A k \in 1 .. Len(u) + Len(z) : w[k] = IF k <= Len(u) THEN u[k] ELSE z[k - Len(u)]
    <3>1. w = u \o z
      BY <1>13, <2>1
    <3> QED BY ONLY <1>11, <2>2, <3>1, ConcatProperties
  <2>4. ASSUME NEW k \in 1 .. 4 + e + 1 PROVE w[k] = u[k]
    <3>1. k \in 1 .. Len(u) + Len(z) /\ k <= Len(u)
      BY <1>11, <2>2
    <3> QED BY <2>3, <3>1
  <2> QED BY <1>11, <1>12, <2>2, <2>3, <2>4
<1>15. ASSUME NEW k \in 1 .. e PROVE w[4 + k] = l[k]
  <2>1. PICK j : j = 4 + k
    OBVIOUS
  <2>2. j \in 1 .. 4 + e /\ j \in 1 .. 4 + e + 1
    BY <2>1
  <2> QED BY <1>9, <1>11, <1>14, <2>1, <2>2
<1>16. w[4] = s /\ w[4 + e + 1] = 0
  <2>1. 4 \in 1 .. 4 + e /\ 4 \in 1 .. 4 + e + 1 /\ 4 + e + 1 \in 1 .. 4 + e + 1
    OBVIOUS
  <2> QED BY <1>9, <1>11, <1>14, <2>1
<1>17. ASSUME NEW i \in 1 .. n
       PROVE  /\ w[0 + 4 + pos[i - 1] + 1] = c.items[i].id
              /\ w[0 + 4 + pos[i - 1] + 2] = Len(c.items[i].data)
              /\ \A k \in 1 .. Len(c.items[i].data) : w[0 + 4 + pos[i - 1] + 2 + k] = c.items[i].data[k]
  <2>1. PICK b \in Nat : b = pos[i - 1]
    BY <1>3 DEF ItemEnds
  <2>2. PICK m \in Nat : m = Len(c.items[i].data)
    <3>1. c.items[i] \in Item
      BY <1>2
    <3>2. PICK d : d = c.items[i].data
      OBVIOUS
    <3>3. d \in Seq(Nat)
      BY <3>1, <3>2 DEF Item
    <3>4. Len(d) \in Nat
      BY ONLY <3>3
    <3> QED BY <3>2, <3>4
  <2>3. b + 2 + m <= e
    <3>1. pos[i] = pos[i - 1] + ItemHeader + Len(c.items[i].data) /\ pos[i] <= pos[n]
      BY <1>3 DEF ItemEnds
    <3> QED BY <1>4, <2>1, <2>2, <3>1 DEF ItemHeader
  <2>4. /\ l[0 + b + 1] = c.items[i].id /\ l[0 + b + 2] = m
        /\ \A k \in 1 .. m : l[0 + b + 2 + k] = c.items[i].data[k]
    BY <1>3, <2>1, <2>2 DEF ItemsIn
  <2>5. w[0 + 4 + b + 1] = l[0 + b + 1] /\ w[0 + 4 + b + 2] = l[0 + b + 2]
    <3>1. PICK j : j = 0 + b + 1
      OBVIOUS
    <3>2. PICK k : k = 0 + b + 2
      OBVIOUS
    <3>3. j \in 1 .. e /\ k \in 1 .. e /\ 0 + 4 + b + 1 = 4 + j /\ 0 + 4 + b + 2 = 4 + k
      BY <2>3, <3>1, <3>2
    <3> QED BY <1>15, <3>1, <3>2, <3>3
  <2>6. ASSUME NEW k \in 1 .. m PROVE w[0 + 4 + b + 2 + k] = c.items[i].data[k]
    <3>1. PICK j : j = 0 + b + 2 + k
      OBVIOUS
    <3>2. j \in 1 .. e /\ 0 + 4 + b + 2 + k = 4 + j
      BY <2>3, <3>1
    <3> QED BY <1>15, <2>4, <3>1, <3>2
  <2> QED BY <2>1, <2>2, <2>4, <2>5, <2>6
<1>18. ChunkIn(w, 0, c, pos, n)
  <2>1. ItemsIn(w, 0 + SSRCLength, pos, c.items, n)
    BY <1>17 DEF ItemsIn, SSRCLength
  <2> QED BY <1>4, <1>5, <1>16, <2>1 DEF ChunkIn, SSRCLength
<1> QED BY <1>3, <1>4, <1>14, <1>18 DEF ChunkLaid, SSRCLength

\* The chunks are in w, each behind b[i - 1] bytes.
ChunksIn(w, b, chunks, n) ==
  /\ b[0] = 0 /\ b[n] = Len(w)
  /\ \A i \in 0 .. n : b[i] \in Nat /\ b[i] <= b[n] /\ \E k \in Nat : b[i] = 4 * k
  /\ \A i \in 1 .. n : \E pos :
       /\ ItemEnds(pos, chunks[i].items, Len(chunks[i].items))
       /\ b[i] = b[i - 1] + ToWord(SSRCLength + pos[Len(chunks[i].items)] + 1)
       /\ ChunkIn(w, b[i - 1], chunks[i], pos, Len(chunks[i].items))

\* The length of an item's data, and of the items.
LEMMA LengthsAre ==
  ASSUME NEW items \in Seq(Item)
  PROVE  /\ Len(items) \in Nat /\ DOMAIN items = 1 .. Len(items)
         /\ \A i \in 1 .. Len(items) : /\ items[i] \in Item /\ items[i].id \in Nat \ {0}
                                       /\ items[i].data \in Seq(Nat) /\ Len(items[i].data) \in Nat
<1>1. ASSUME NEW i \in 1 .. Len(items)
      PROVE  items[i] \in Item /\ items[i].id \in Nat \ {0} /\ items[i].data \in Seq(Nat) /\ Len(items[i].data) \in Nat
  <2>1. items[i] \in Item
    OBVIOUS
  <2>2. PICK d : d = items[i].data
    OBVIOUS
  <2>3. d \in Seq(Nat) /\ items[i].id \in Nat \ {0}
    BY <2>1, <2>2 DEF Item
  <2>4. Len(d) \in Nat
    BY ONLY <2>3
  <2> QED BY ONLY <2>1, <2>2, <2>3, <2>4
<1> QED BY <1>1

\* What is in a part of the whole is in the whole.
LEMMA ChunkInWhole ==
  ASSUME NEW c \in AnyChunk, NEW n \in Nat, n = Len(c.items), NEW pos, NEW s, ChunkLaid(s, c, pos, n),
         NEW w, NEW b \in Nat, \A k \in 1 .. Len(s) : w[b + k] = s[k]
  PROVE  ChunkIn(w, b, c, pos, n)
<1>1. /\ ItemEnds(pos, c.items, n) /\ Len(s) = ToWord(4 + pos[n] + 1)
      /\ s[4] = c.ssrc /\ s[4 + pos[n] + 1] = 0
      /\ \A i \in 1 .. n :
           /\ s[4 + pos[i - 1] + 1] = c.items[i].id
           /\ s[4 + pos[i - 1] + 2] = Len(c.items[i].data)
           /\ \A k \in 1 .. Len(c.items[i].data) : s[4 + pos[i - 1] + 2 + k] = c.items[i].data[k]
  BY DEF ChunkLaid, ChunkIn, ItemsIn, SSRCLength
<1>2. PICK e \in Nat : e = pos[n]
  BY <1>1 DEF ItemEnds
<1>3. Len(s) \in Nat /\ 4 + e + 1 <= Len(s)
  <2>1. 4 + e + 1 \in Nat
    OBVIOUS
  <2> QED BY <1>1, <1>2, <2>1, ToWordIs
<1>4. \A k \in 1 .. 4 + e + 1 : w[b + k] = s[k]
  BY <1>3
<1>5. w[b + 4] = c.ssrc /\ w[b + 4 + e + 1] = 0
  <2>1. PICK j \in 1 .. 4 + e + 1 : j = 4 + e + 1
    OBVIOUS
  <2>2. b + 4 + e + 1 = b + j /\ 4 \in 1 .. 4 + e + 1
    BY <2>1
  <2> QED BY <1>1, <1>2, <1>4, <2>1, <2>2
<1>6. c.items \in Seq(Item)
  BY DEF AnyChunk
<1>7. ASSUME NEW i \in 1 .. n
      PROVE  /\ w[b + 4 + pos[i - 1] + 1] = c.items[i].id
             /\ w[b + 4 + pos[i - 1] + 2] = Len(c.items[i].data)
             /\ \A k \in 1 .. Len(c.items[i].data) : w[b + 4 + pos[i - 1] + 2 + k] = c.items[i].data[k]
  <2>1. PICK a \in Nat : a = pos[i - 1]
    BY <1>1 DEF ItemEnds
  <2>2. PICK m \in Nat : m = Len(c.items[i].data)
    BY <1>6, LengthsAre
  <2>3. a + 2 + m <= e
    <3>1. pos[i] = pos[i - 1] + ItemHeader + Len(c.items[i].data) /\ pos[i] <= pos[n]
      BY <1>1 DEF ItemEnds
    <3> QED BY <1>2, <2>1, <2>2, <3>1 DEF ItemHeader
  <2>4. /\ s[4 + a + 1] = c.items[i].id /\ s[4 + a + 2] = m
        /\ \A k \in 1 .. m : s[4 + a + 2 + k] = c.items[i].data[k]
    BY <1>1, <2>1, <2>2
  <2>5. w[b + 4 + a + 1] = s[4 + a + 1] /\ w[b + 4 + a + 2] = s[4 + a + 2]
    <3>1. PICK j : j = 4 + a + 1
      OBVIOUS
    <3>2. PICK k : k = 4 + a + 2
      OBVIOUS
    <3>3. j \in 1 .. 4 + e + 1 /\ k \in 1 .. 4 + e + 1 /\ b + 4 + a + 1 = b + j /\ b + 4 + a + 2 = b + k
      BY <2>3, <3>1, <3>2
    <3> QED BY <1>4, <3>1, <3>2, <3>3
  <2>6. ASSUME NEW k \in 1 .. m PROVE w[b + 4 + a + 2 + k] = c.items[i].data[k]
    <3>1. PICK j : j = 4 + a + 2 + k
      OBVIOUS
    <3>2. j \in 1 .. 4 + e + 1 /\ b + 4 + a + 2 + k = b + j
      BY <2>3, <3>1
    <3> QED BY <1>4, <2>4, <3>1, <3>2
  <2> QED BY <2>1, <2>2, <2>4, <2>5, <2>6
<1>8. ItemsIn(w, b + SSRCLength, pos, c.items, n)
  BY <1>7 DEF ItemsIn, SSRCLength
<1> QED BY <1>2, <1>5, <1>8 DEF ChunkIn, SSRCLength

LEMMA LaidIs ==
  ASSUME NEW chunks \in Seq(AnyChunk), NEW n \in Nat, n = Len(chunks), NEW p, p = Laid(chunks)
  PROVE  p.count = n /\ p.bytes \in Seq(Nat) /\ \E b : ChunksIn(p.bytes, b, chunks, n)
<1> DEFINE S == [i \in 1 .. n |-> LaidChunk(chunks[i])]
<1>1. PICK w : w = p.bytes
  OBVIOUS
<1>2. p.count = n /\ w = FlattenSeq(S)
  <2>1. DOMAIN chunks = 1 .. n
    OBVIOUS
  <2> QED BY <1>1, <2>1 DEF Laid
<1>3. ASSUME NEW i \in 1 .. n
      PROVE  /\ S[i] \in Seq(Nat) /\ chunks[i] \in AnyChunk /\ Len(chunks[i].items) \in Nat
             /\ \E pos : ChunkLaid(S[i], chunks[i], pos, Len(chunks[i].items))
  <2>1. PICK c : c = chunks[i]
    OBVIOUS
  <2>2. c \in AnyChunk
    BY <2>1
  <2>3. PICK m : m = Len(c.items)
    OBVIOUS
  <2>4. m \in Nat
    <3>1. c.items \in Seq(Item)
      BY <2>2 DEF AnyChunk
    <3> QED BY <2>3, <3>1, LengthsAre
  <2>5. PICK s : s = LaidChunk(c)
    OBVIOUS
  <2>6. s \in Seq(Nat) /\ \E pos : ChunkLaid(s, c, pos, m)
    BY <2>2, <2>3, <2>4, <2>5, LaidChunkIs
  <2> QED BY <2>1, <2>2, <2>3, <2>4, <2>5, <2>6
<1>4. S = [i \in 1 .. n |-> S[i]]
  OBVIOUS
<1> HIDE DEF S
<1>5. Family(S, Nat, n)
  BY <1>3, <1>4 DEF Family
<1>6. PICK b : Parted(b, S, Nat, w, n)
  BY <1>2, <1>5, FlattenParts
<1>7. /\ b[0] = 0 /\ \A i \in 0 .. n : b[i] \in Nat /\ b[i] <= b[n]
      /\ \A i \in 1 .. n : b[i] = b[i - 1] + Len(S[i])
      /\ w \in Seq(Nat) /\ Len(w) = b[n]
      /\ \A i \in 1 .. n : \A k \in 1 .. Len(S[i]) : w[b[i - 1] + k] = S[i][k]
  BY <1>6 DEF Parted, LayOut
<1>8. ASSUME NEW i \in 1 .. n
      PROVE  \E pos : /\ ItemEnds(pos, chunks[i].items, Len(chunks[i].items))
                      /\ b[i] = b[i - 1] + ToWord(SSRCLength + pos[Len(chunks[i].items)] + 1)
                      /\ ChunkIn(w, b[i - 1], chunks[i], pos, Len(chunks[i].items))
                      /\ \E k \in Nat : Len(S[i]) = 4 * k
  <2>1. PICK c \in AnyChunk : c = chunks[i]
    BY <1>3
  <2>2. PICK m \in Nat : m = Len(c.items)
    BY <1>3, <2>1
  <2>3. PICK a \in Nat : a = b[i - 1]
    BY <1>7
  <2>4. PICK s : s = S[i]
    OBVIOUS
  <2>5. PICK pos : ChunkLaid(s, c, pos, m)
    BY <1>3, <2>1, <2>2, <2>4
  <2>6. \A k \in 1 .. Len(s) : w[a + k] = s[k]
    BY <1>7, <2>3, <2>4
  <2>7. ChunkIn(w, a, c, pos, m)
    BY ONLY <2>1, <2>2, <2>3, <2>5, <2>6, ChunkInWhole
  <2>8. ItemEnds(pos, c.items, m) /\ Len(s) = ToWord(SSRCLength + pos[m] + 1)
    BY <2>5 DEF ChunkLaid
  <2>9. \E k \in Nat : Len(s) = 4 * k
    <3>1. PICK x : x = pos[m]
      OBVIOUS
    <3>2. x \in Nat
      BY <2>8, <3>1 DEF ItemEnds
    <3>3. SSRCLength + x + 1 \in Nat
      BY <3>2 DEF SSRCLength
    <3> QED BY <2>8, <3>1, <3>3, ToWordIs
  <2>10. b[i] = a + ToWord(SSRCLength + pos[m] + 1)
    BY <1>7, <2>3, <2>4, <2>8
  <2> QED BY <2>1, <2>2, <2>3, <2>4, <2>7, <2>8, <2>9, <2>10
<1>9. \A i \in 0 .. n : \E k \in Nat : b[i] = 4 * k
  <2> DEFINE P == {i \in 0 .. n : \E k \in Nat : b[i] = 4 * k}
  <2>1. 0 \in P
    <3>1. b[0] = 4 * 0 /\ 0 \in Nat
      BY <1>7
    <3> QED BY <3>1
  <2>2. ASSUME NEW i \in 1 .. n, i - 1 \in P PROVE i \in P
    <3>1. PICK k \in Nat : b[i - 1] = 4 * k
      BY <2>2
    <3>2. PICK l \in Nat : Len(S[i]) = 4 * l
      BY <1>8
    <3>3. b[i] = 4 * (k + l) /\ k + l \in Nat
      BY <1>7, <3>1, <3>2
    <3> QED BY <3>3
  <2>3. \A i \in 0 .. n : i \in P
    <3> HIDE DEF P
    <3> QED BY <2>1, <2>2, HP!UpTo
  <2> QED BY <2>3
<1>10. ChunksIn(w, b, chunks, n)
  BY <1>7, <1>8, <1>9 DEF ChunksIn
<1> QED BY <1>1, <1>2, <1>7, <1>10

-----------------------------------------------------------------------------
(* What is read back. *)

ReadAs(p, first, pos, n) ==
  ItemsEnd(p, first) = first + pos[n] /\ ItemsFrom(p, first) = [k \in 1 .. n |-> first + pos[k - 1]]

LEMMA ItemsRead ==
  ASSUME NEW p, p.bytes \in Seq(Nat), NEW first \in Nat, NEW items \in Seq(Item), NEW n \in Nat, n = Len(items),
         NEW pos, ItemEnds(pos, items, n), ItemsIn(p.bytes, first, pos, items, n),
         first + pos[n] < Len(p.bytes), p.bytes[first + pos[n] + 1] = 0
  PROVE  ReadAs(p, first, pos, n)
<1>1. PICK w : w = p.bytes
  OBVIOUS
<1>2. PICK l \in Nat : l = Len(w)
  <2>1. Len(p.bytes) \in Nat
    OBVIOUS
  <2> QED BY <1>1, <2>1
<1>3. PICK e \in Nat : e = pos[n]
  BY DEF ItemEnds
<1>4. first + e < l /\ w[first + e + 1] = 0
  BY <1>1, <1>2, <1>3
<1>5. ASSUME NEW i \in 1 .. n
      PROVE  HasItem(p, first + pos[i - 1]) /\ NextItem(p, first + pos[i - 1]) = first + pos[i] /\ pos[i - 1] < pos[i]
  <2>1. PICK a \in Nat : a = pos[i - 1]
    BY DEF ItemEnds
  <2>2. PICK m \in Nat : m = Len(items[i].data)
    BY LengthsAre
  <2>3. pos[i] = a + 2 + m /\ pos[i] <= e
    BY <1>3, <2>1, <2>2 DEF ItemEnds, ItemHeader
  <2>4. w[first + a + 1] = items[i].id /\ w[first + a + 2] = m
    BY <1>1, <2>1, <2>2 DEF ItemsIn
  <2>5. items[i].id # 0
    BY LengthsAre
  <2>6. PICK x \in Nat : x = first + a
    OBVIOUS
  <2>7. Byte(p, x) # 0 /\ Byte(p, x + 1) = m
    <3>1. x + 1 = first + a + 1 /\ x + 1 + 1 = first + a + 2
      BY <2>6
    <3> QED BY <1>1, <2>4, <2>5, <3>1 DEF Byte
  <2>8. NextItem(p, x) = x + 2 + m
    BY <2>7 DEF NextItem, ItemHeader
  <2>9. x + 2 + m = first + pos[i] /\ x + 2 + m <= l /\ x < l /\ x + 2 <= l
    BY <1>4, <2>3, <2>6
  <2>10. HasItem(p, x)
    BY <1>1, <1>2, <2>7, <2>8, <2>9 DEF HasItem, ItemHeader
  <2>11. first + pos[i - 1] = x /\ pos[i - 1] < pos[i]
    <3>1. first + pos[i - 1] = x
      BY <2>1, <2>6
    <3>2. a < a + 2 + m
      OBVIOUS
    <3> QED BY <2>1, <2>3, <3>1, <3>2, Zenon
  <2> QED BY <2>8, <2>9, <2>10, <2>11
<1>6. ~HasItem(p, first + e)
  BY <1>1, <1>4 DEF HasItem, Byte
<1>7. n <= l
  <2> DEFINE P == {k \in 0 .. n : pos[k] >= k}
  <2>1. 0 \in P
    BY DEF ItemEnds
  <2>2. ASSUME NEW i \in 1 .. n, i - 1 \in P PROVE i \in P
    <3>1. pos[i - 1] >= i - 1 /\ pos[i - 1] < pos[i] /\ pos[i - 1] \in Nat /\ pos[i] \in Nat
      BY <1>5, <2>2 DEF ItemEnds
    <3> QED BY <3>1
  <2>3. \A i \in 0 .. n : i \in P
    <3> HIDE DEF P
    <3> QED BY <2>1, <2>2, HP!UpTo
  <2>4. e >= n
    BY <1>3, <2>3
  <2> QED BY <1>4, <2>4
<1>8. PICK A : A = ItemAt(p, first)
  OBVIOUS
<1>9. A[0] = first /\ DOMAIN A = 0 .. l /\ \A k \in 1 .. l : A[k] = PastItem(p, A[k - 1])
  BY <1>1, <1>2, <1>8, ItemAtIs
<1>10. \A k \in 0 .. n : A[k] = first + pos[k]
  <2> DEFINE P == {k \in 0 .. n : A[k] = first + pos[k]}
  <2>1. 0 \in P
    BY <1>9 DEF ItemEnds
  <2>2. ASSUME NEW i \in 1 .. n, i - 1 \in P PROVE i \in P
    <3>1. A[i - 1] = first + pos[i - 1]
      BY <2>2
    <3>2. i \in 1 .. l
      BY <1>7
    <3>3. A[i] = NextItem(p, first + pos[i - 1])
      BY <1>5, <1>9, <3>1, <3>2 DEF PastItem
    <3> QED BY <1>5, <3>3
  <2>3. \A i \in 0 .. n : i \in P
    <3> HIDE DEF P
    <3> QED BY <2>1, <2>2, HP!UpTo
  <2> QED BY <2>3
<1>11. A[l] = first + e
  <2>1. PICK r \in Nat : r = l - n
    BY <1>7
  <2> DEFINE P == {k \in 0 .. r : A[n + k] = first + e}
  <2>2. 0 \in P
    <3>1. n \in 0 .. n /\ n + 0 = n
      OBVIOUS
    <3> QED BY <1>3, <1>10, <3>1
  <2>3. ASSUME NEW i \in 1 .. r, i - 1 \in P PROVE i \in P
    <3>1. PICK j : j = n + i
      OBVIOUS
    <3>2. j \in 1 .. l /\ j - 1 = n + (i - 1)
      BY <2>1, <3>1
    <3>3. A[j - 1] = first + e
      BY <2>3, <3>2
    <3>4. A[j] = first + e
      BY <1>6, <1>9, <3>2, <3>3 DEF PastItem
    <3> QED BY <3>1, <3>4
  <2>4. \A i \in 0 .. r : i \in P
    <3> HIDE DEF P
    <3> QED BY <2>2, <2>3, HP!UpTo
  <2>5. r \in 0 .. r /\ n + r = l
    BY <2>1
  <2> QED BY <2>4, <2>5
<1>12. ItemsEnd(p, first) = first + pos[n]
  BY <1>1, <1>2, <1>3, <1>8, <1>11 DEF ItemsEnd
<1>13. /\ n \in DOMAIN A /\ ~HasItem(p, A[n]) /\ \A j \in 0 .. n - 1 : HasItem(p, A[j])
  <2>1. A[n] = first + e /\ n \in 0 .. l
    BY <1>3, <1>7, <1>10
  <2>2. ASSUME NEW j \in 0 .. n - 1 PROVE HasItem(p, A[j])
    <3>1. PICK i \in 1 .. n : i = j + 1
      OBVIOUS
    <3>2. i - 1 = j /\ j \in 0 .. n
      BY <3>1
    <3> QED BY <1>5, <1>10, <3>2
  <2> QED BY <1>6, <1>9, <2>1, <2>2
<1>14. ASSUME NEW k \in DOMAIN A, ~HasItem(p, A[k]), \A j \in 0 .. k - 1 : HasItem(p, A[j]) PROVE k = n
  <2>1. k \in Nat
    BY <1>9
  <2>2. ~(k < n)
    <3>1. ASSUME k < n PROVE FALSE
      <4>1. k \in 0 .. n - 1
        BY <2>1, <3>1
      <4> QED BY <1>13, <1>14, <4>1
    <3> QED BY <3>1
  <2>3. ~(n < k)
    <3>1. ASSUME n < k PROVE FALSE
      <4>1. n \in 0 .. k - 1
        BY <2>1, <3>1
      <4> QED BY <1>13, <1>14, <4>1
    <3> QED BY <3>1
  <2> QED BY <2>1, <2>2, <2>3
<1>15. n = CHOOSE k \in DOMAIN A : ~HasItem(p, A[k]) /\ \A j \in 0 .. k - 1 : HasItem(p, A[j])
  BY <1>13, <1>14
<1>16. ItemsFrom(p, first) = [k \in 1 .. n |-> A[k - 1]]
  BY <1>8, <1>15 DEF ItemsFrom
<1>17. \A k \in 1 .. n : A[k - 1] = first + pos[k - 1]
  BY <1>10
<1>18. ItemsFrom(p, first) = [k \in 1 .. n |-> first + pos[k - 1]]
  BY <1>16, <1>17
<1> QED BY <1>12, <1>18 DEF ReadAs

\* One chunk, its items where the reader goes.
ChunkReadAs(p, b, pos, n) ==
  /\ ItemsEnd(p, b + SSRCLength) = b + SSRCLength + pos[n]
  /\ ItemsFrom(p, b + SSRCLength) = [k \in 1 .. n |-> b + SSRCLength + pos[k - 1]]
  /\ NextChunk(p, b) = b + ToWord(SSRCLength + pos[n] + 1)
  /\ b + 2 * SSRCLength <= Len(p.bytes)
  /\ b + SSRCLength + pos[n] < Len(p.bytes) /\ Byte(p, b + SSRCLength + pos[n]) = 0
  /\ ToWord(b + SSRCLength + pos[n] + 1) <= Len(p.bytes)

LEMMA ChunkRead ==
  ASSUME NEW p, p.bytes \in Seq(Nat), NEW b \in Nat, NEW q \in Nat, b = 4 * q,
         NEW c \in AnyChunk, NEW n \in Nat, n = Len(c.items), NEW pos, ItemEnds(pos, c.items, n),
         ChunkIn(p.bytes, b, c, pos, n), b + ToWord(SSRCLength + pos[n] + 1) <= Len(p.bytes)
  PROVE  ChunkReadAs(p, b, pos, n)
<1>1. PICK e \in Nat : e = pos[n]
  BY ONLY n \in Nat, ItemEnds(pos, c.items, n) DEF ItemEnds
<1>2. PICK l \in Nat : l = Len(p.bytes)
  <2>1. Len(p.bytes) \in Nat
    OBVIOUS
  <2> QED BY <2>1
<1>3. PICK t \in Nat, s \in Nat : t = ToWord(4 + e + 1) /\ t = 4 * s /\ 4 + e + 1 <= t
  <2>1. 4 + e + 1 \in Nat
    OBVIOUS
  <2> QED BY <2>1, ToWordIs
<1>4. b + t <= l
  BY <1>1, <1>2, <1>3 DEF SSRCLength
<1>5. b + 4 + e < l /\ b + 8 <= l
  <2>1. s >= 2
    BY <1>3
  <2> QED BY <1>3, <1>4, <2>1
<1>6. ToWord(b + 4 + e + 1) = b + t
  <2>1. 4 + e + 1 \in Nat /\ b + 4 + e + 1 = 4 * q + (4 + e + 1)
    OBVIOUS
  <2> QED BY <1>3, <2>1, ToWordIs
<1>7. PICK first \in Nat : first = b + SSRCLength
  BY DEF SSRCLength
<1>8. c.items \in Seq(Item)
  BY DEF AnyChunk
<1>9. ItemsIn(p.bytes, first, pos, c.items, n) /\ p.bytes[first + pos[n] + 1] = 0
  BY <1>7 DEF ChunkIn
<1>10. first + pos[n] < Len(p.bytes)
  BY <1>1, <1>2, <1>5, <1>7 DEF SSRCLength
<1>11. ItemsEnd(p, first) = first + pos[n] /\ ItemsFrom(p, first) = [k \in 1 .. n |-> first + pos[k - 1]]
  <2>1. ReadAs(p, first, pos, n)
    BY <1>8, <1>9, <1>10, ItemsRead
  <2> QED BY <2>1 DEF ReadAs
<1>12. NextChunk(p, b) = b + ToWord(SSRCLength + pos[n] + 1)
  <2>1. first + pos[n] = b + 4 + e
    BY <1>1, <1>7 DEF SSRCLength
  <2>2. NextChunk(p, b) = ToWord(b + 4 + e + 1)
    BY <1>7, <1>11, <2>1 DEF NextChunk
  <2> QED BY <1>1, <1>3, <1>6, <2>2 DEF SSRCLength
<1>13. Byte(p, first + pos[n]) = 0
  BY <1>9 DEF Byte
<1>14. ToWord(first + pos[n] + 1) <= Len(p.bytes)
  BY <1>1, <1>2, <1>4, <1>6, <1>7 DEF SSRCLength
<1>15. b + 2 * SSRCLength <= Len(p.bytes)
  BY <1>2, <1>5 DEF SSRCLength
<1> QED BY <1>7, <1>10, <1>11, <1>12, <1>13, <1>14, <1>15 DEF ChunkReadAs

\* What is read of an item is what was said.
ReadItem(p, x, item) ==
  /\ ItemType(p, x) = IF item.id \in DOMAIN Types THEN Types[item.id] ELSE "Unknown"
  /\ ItemData(p, x) = item.data
  /\ PRIVPrefix(p, x) = Says(0, item).prefix /\ PRIVValue(p, x) = Says(0, item).value

LEMMA ItemSays ==
  ASSUME NEW p, p.bytes \in Seq(Nat), NEW x \in Nat, NEW item \in Item,
         Byte(p, x) = item.id, Byte(p, x + 1) = Len(item.data),
         \A k \in 1 .. Len(item.data) : p.bytes[x + 2 + k] = item.data[k],
         x + 2 + Len(item.data) <= Len(p.bytes)
  PROVE  ReadItem(p, x, item)
<1>1. PICK d \in Seq(Nat) : d = item.data
  BY DEF Item
<1>2. PICK m \in Nat : m = Len(d)
  <2>1. Len(d) \in Nat
    OBVIOUS
  <2> QED BY <2>1
<1>3. PICK w \in Seq(Nat) : w = p.bytes
  OBVIOUS
<1>4. ItemData(p, x) = SubSeq(w, x + 3, x + 2 + m)
  <2>1. NextItem(p, x) = x + 2 + m
    BY <1>1, <1>2 DEF NextItem, ItemHeader
  <2>2. x + ItemHeader + 1 = x + 3
    BY DEF ItemHeader
  <2> QED BY <1>3, <2>1, <2>2 DEF ItemData
<1>5. PICK s : s = SubSeq(w, x + 3, x + 2 + m)
  OBVIOUS
<1>6. s = d
  <2>1. x + 3 \in Int /\ x + 2 + m \in Int
    OBVIOUS
  <2>2. \A i \in x + 3 .. x + 2 + m : w[i] \in Nat
    <3>1. x + 2 + m <= Len(w)
      BY <1>1, <1>2, <1>3
    <3>2. PICK l : l = Len(w)
      OBVIOUS
    <3>3. l \in Nat
      BY ONLY w \in Seq(Nat), <3>2
    <3>4. \A i \in x + 3 .. x + 2 + m : i \in 1 .. l
      BY ONLY x \in Nat, m \in Nat, <3>1, <3>2, <3>3
    <3> QED BY <3>2, <3>4
  <2>3. PICK u \in Int : u = x + 3
    OBVIOUS
  <2>4. PICK v \in Int : v = x + 2 + m
    OBVIOUS
  <2>5. \A i \in u .. v : w[i] \in Nat
    BY <2>2, <2>3, <2>4
  <2>6. /\ s \in Seq(Nat) /\ Len(s) = IF u <= v THEN v - u + 1 ELSE 0
        /\ \A i \in 1 .. v - u + 1 : s[i] = w[u + i - 1]
    <3>1. s = SubSeq(w, u, v)
      BY <1>5, <2>3, <2>4
    <3>2. /\ SubSeq(w, u, v) \in Seq(Nat) /\ Len(SubSeq(w, u, v)) = IF u <= v THEN v - u + 1 ELSE 0
          /\ \A i \in 1 .. v - u + 1 : SubSeq(w, u, v)[i] = w[u + i - 1]
      <4>1. u \in Int /\ v \in Int
        OBVIOUS
      <4> QED BY ONLY <2>5, <4>1, SubSeqProperties
    <3> QED BY ONLY <3>1, <3>2
  <2>7. Len(s) = m
    BY <2>3, <2>4, <2>6
  <2>8. ASSUME NEW i \in 1 .. m PROVE s[i] = d[i]
    <3>1. i \in 1 .. v - u + 1 /\ u + i - 1 = x + 2 + i
      BY <2>3, <2>4
    <3>2. s[i] = w[x + 2 + i]
      BY <2>6, <3>1
    <3> QED BY <1>1, <1>2, <1>3, <3>2
  <2> QED BY ONLY <1>1, <1>2, <2>6, <2>7, <2>8, SeqEqual
<1>7. ItemData(p, x) = d
  BY <1>4, <1>5, <1>6
<1>8. HasPrefix(p, x) <=> (Len(d) > 0 /\ d[1] < Len(d))
  <2>1. HasPrefix(p, x) <=> (d # <<>> /\ Head(d) <= Len(d) - 1)
    BY <1>7 DEF HasPrefix
  <2>2. d # <<>> <=> Len(d) > 0
    BY <1>1
  <2>3. Len(d) > 0 => Head(d) = d[1] /\ d[1] \in Nat
    BY <1>1, <1>2
  <2> QED BY <1>2, <2>1, <2>2, <2>3
<1>9. PICK h \in BOOLEAN : h <=> HasPrefix(p, x)
  OBVIOUS
<1>10. /\ PRIVPrefix(p, x) = IF h THEN SubSeq(d, 2, Head(d) + 1) ELSE <<>>
       /\ PRIVValue(p, x) = IF h THEN SubSeq(d, Head(d) + 2, Len(d)) ELSE <<>>
  BY <1>7, <1>9 DEF PRIVPrefix, PRIVValue
<1>11. /\ Says(0, item).prefix = IF h THEN SubSeq(d, 2, d[1] + 1) ELSE <<>>
       /\ Says(0, item).value = IF h THEN SubSeq(d, d[1] + 2, Len(d)) ELSE <<>>
  BY <1>1, <1>8, <1>9 DEF Says
<1>12. h => Head(d) = d[1]
  BY <1>1, <1>2, <1>8, <1>9
<1>13. PRIVPrefix(p, x) = Says(0, item).prefix /\ PRIVValue(p, x) = Says(0, item).value
  BY <1>10, <1>11, <1>12
<1> QED BY <1>1, <1>7, <1>13 DEF ItemType, ReadItem

\* What is heard of a chunk is what was said.
LEMMA ChunkSays ==
  ASSUME NEW p, p.bytes \in Seq(Nat), NEW b \in Nat, NEW q \in Nat, b = 4 * q,
         NEW c \in AnyChunk, NEW n \in Nat, n = Len(c.items), NEW pos, ItemEnds(pos, c.items, n),
         ChunkIn(p.bytes, b, c, pos, n), b + ToWord(SSRCLength + pos[n] + 1) <= Len(p.bytes)
  PROVE  HeardChunk(p, b) = SaidChunk(c)
<1>1. PICK first \in Nat : first = b + SSRCLength
  BY DEF SSRCLength
<1>2. PICK items \in Seq(Item) : items = c.items
  BY DEF AnyChunk
<1>3. n = Len(items) /\ DOMAIN items = 1 .. n
  BY <1>2
<1>4. ItemsFrom(p, first) = [k \in 1 .. n |-> first + pos[k - 1]] /\ first + pos[n] < Len(p.bytes)
  <2>1. /\ ItemsFrom(p, b + SSRCLength) = [k \in 1 .. n |-> b + SSRCLength + pos[k - 1]]
        /\ b + SSRCLength + pos[n] < Len(p.bytes)
    <3>1. ChunkReadAs(p, b, pos, n)
      BY ChunkRead
    <3> QED BY <3>1 DEF ChunkReadAs
  <2> QED BY <1>1, <2>1
<1>5. PICK R : R = ItemsFrom(p, first)
  OBVIOUS
<1>6. DOMAIN R = 1 .. n /\ (R = <<>> <=> n = 0) /\ \A k \in 1 .. n : R[k] = first + pos[k - 1]
  <2>1. DOMAIN R = 1 .. n /\ \A k \in 1 .. n : R[k] = first + pos[k - 1]
    BY <1>4, <1>5
  <2>2. R = <<>> <=> n = 0
    <3>1. CASE n = 0
      BY <1>4, <1>5, <3>1
    <3>2. CASE n # 0
      <4>1. 1 \in DOMAIN R
        BY <2>1, <3>2
      <4>2. R # <<>>
        BY <4>1
      <4> QED BY <3>2, <4>2
    <3> QED BY <3>1, <3>2
  <2> QED BY <2>1, <2>2
<1>7. ChunkSSRC(p, b) = c.ssrc
  <2>1. p.bytes[b + 4] = c.ssrc /\ b + 3 + 1 = b + 4
    BY DEF ChunkIn, SSRCLength
  <2> QED BY <2>1 DEF ChunkSSRC, Byte
<1>8. CASE n = 0
  <2>1. items = <<>>
    BY <1>3, <1>8
  <2>2. HeardChunk(p, b) = <<Nothing(c.ssrc)>>
    BY <1>1, <1>5, <1>6, <1>7, <1>8 DEF HeardChunk
  <2> QED BY <1>2, <2>1, <2>2 DEF SaidChunk
<1>9. CASE n # 0
  <2>1. items # <<>>
    BY <1>3, <1>9
  <2>2. HeardChunk(p, b) =
          [i \in 1 .. n |-> [ssrc |-> c.ssrc, type |-> ItemType(p, R[i]), data |-> ItemData(p, R[i]),
                             prefix |-> PRIVPrefix(p, R[i]), value |-> PRIVValue(p, R[i])]]
    BY <1>1, <1>5, <1>6, <1>7, <1>9 DEF HeardChunk
  <2>3. SaidChunk(c) = [i \in 1 .. n |-> Says(c.ssrc, items[i])]
    BY <1>2, <1>3, <2>1 DEF SaidChunk
  <2>4. ASSUME NEW i \in 1 .. n
        PROVE  [ssrc |-> c.ssrc, type |-> ItemType(p, R[i]), data |-> ItemData(p, R[i]),
                prefix |-> PRIVPrefix(p, R[i]), value |-> PRIVValue(p, R[i])] = Says(c.ssrc, items[i])
    <3>1. PICK item \in Item : item = items[i]
      BY <1>3
    <3>2. PICK a \in Nat : a = pos[i - 1]
      BY DEF ItemEnds
    <3>3. PICK x \in Nat : x = first + a
      OBVIOUS
    <3>4. PICK m \in Nat : m = Len(item.data)
      BY <1>3, <3>1, LengthsAre
    <3>5. /\ p.bytes[first + a + 1] = item.id /\ p.bytes[first + a + 2] = m
          /\ \A k \in 1 .. m : p.bytes[first + a + 2 + k] = item.data[k]
      <4>1. ItemsIn(p.bytes, first, pos, items, n)
        BY <1>1, <1>2 DEF ChunkIn
      <4> QED BY <3>1, <3>2, <3>4, <4>1 DEF ItemsIn
    <3>6. Byte(p, x) = item.id /\ Byte(p, x + 1) = m /\ \A k \in 1 .. m : p.bytes[x + 2 + k] = item.data[k]
      <4>1. x + 1 = first + a + 1 /\ x + 1 + 1 = first + a + 2 /\ \A k \in 1 .. m : x + 2 + k = first + a + 2 + k
        BY <3>3
      <4> QED BY <3>5, <4>1 DEF Byte
    <3>7. x + 2 + m <= Len(p.bytes)
      <4>1. pos[i] = a + 2 + m /\ pos[i] <= pos[n] /\ pos[n] \in Nat
        <5>1. ItemEnds(pos, items, n)
          BY <1>2
        <5>2. pos[i] = pos[i - 1] + 2 + Len(items[i].data) /\ pos[i] <= pos[n] /\ pos[n] \in Nat
          BY <5>1 DEF ItemEnds, ItemHeader
        <5> QED BY <3>1, <3>2, <3>4, <5>2
      <4>2. PICK e \in Nat : e = pos[n]
        BY <4>1
      <4>3. PICK l : l = Len(p.bytes)
        OBVIOUS
      <4>4. l \in Nat
        BY ONLY p.bytes \in Seq(Nat), <4>3
      <4> QED BY <1>4, <3>3, <4>1, <4>2, <4>3, <4>4, SMTT(30)
    <3>8. /\ ItemType(p, x) = IF item.id \in DOMAIN Types THEN Types[item.id] ELSE "Unknown"
          /\ ItemData(p, x) = item.data
          /\ PRIVPrefix(p, x) = Says(0, item).prefix /\ PRIVValue(p, x) = Says(0, item).value
      <4>1. ReadItem(p, x, item)
        <5>1. /\ Byte(p, x) = item.id /\ Byte(p, x + 1) = Len(item.data)
              /\ \A k \in 1 .. Len(item.data) : p.bytes[x + 2 + k] = item.data[k]
              /\ x + 2 + Len(item.data) <= Len(p.bytes)
          BY <3>4, <3>6, <3>7
        <5> QED BY ONLY p.bytes \in Seq(Nat), x \in Nat, item \in Item, <5>1, ItemSays
      <4> QED BY <4>1 DEF ReadItem
    <3>9. R[i] = x
      BY <1>6, <3>2, <3>3
    <3>10. PICK s : s = c.ssrc
      OBVIOUS
    <3>11. /\ Says(s, item).prefix = Says(0, item).prefix /\ Says(s, item).value = Says(0, item).value
           /\ Says(s, item) =
                [ssrc |-> s, type |-> IF item.id \in DOMAIN Types THEN Types[item.id] ELSE "Unknown",
                 data |-> item.data, prefix |-> Says(s, item).prefix, value |-> Says(s, item).value]
      BY ONLY item \in Item DEF Says
    <3>12. [ssrc |-> s, type |-> ItemType(p, x), data |-> ItemData(p, x),
            prefix |-> PRIVPrefix(p, x), value |-> PRIVValue(p, x)] = Says(s, item)
      BY ONLY <3>8, <3>11
    <3> QED BY <3>1, <3>9, <3>10, <3>12
  <2> QED BY <2>2, <2>3, <2>4, ZenonT(40)
<1> QED BY <1>8, <1>9

\* What a sender lays out as an SDES packet, whatever its chunks and items, is
\* of a known format for the reader, which goes from chunk to chunk and from
\* item to item to just the places where they were laid, and hears what they say.
THEOREM LaidIsSaid ==
  ASSUME NEW chunks \in Seq(AnyChunk), NEW p, p = Laid(chunks)
  PROVE  KnownFormat(p) /\ Delivered(p) = Said(chunks)
<1>1. PICK n \in Nat : n = Len(chunks)
  <2>1. Len(chunks) \in Nat
    OBVIOUS
  <2> QED BY <2>1
<1>2. DOMAIN chunks = 1 .. n /\ \A i \in 1 .. n : chunks[i] \in AnyChunk
  BY <1>1
<1>3. p.count = n /\ p.bytes \in Seq(Nat) /\ \E b : ChunksIn(p.bytes, b, chunks, n)
  BY <1>1, LaidIs
<1>4. PICK b : ChunksIn(p.bytes, b, chunks, n)
  BY <1>3
<1>5. b[0] = 0 /\ b[n] = Len(p.bytes) /\ \A i \in 0 .. n : b[i] \in Nat /\ b[i] <= b[n]
  BY <1>4 DEF ChunksIn
<1>6. ASSUME NEW i \in 1 .. n
      PROVE  /\ NextChunk(p, b[i - 1]) = b[i]
             /\ b[i - 1] + 2 * SSRCLength <= Len(p.bytes)
             /\ ItemsEnd(p, b[i - 1] + SSRCLength) < Len(p.bytes)
             /\ Byte(p, ItemsEnd(p, b[i - 1] + SSRCLength)) = 0
             /\ ToWord(ItemsEnd(p, b[i - 1] + SSRCLength) + 1) <= Len(p.bytes)
             /\ HeardChunk(p, b[i - 1]) = SaidChunk(chunks[i])
  <2>1. PICK c \in AnyChunk : c = chunks[i]
    BY <1>2
  <2>2. PICK m \in Nat : m = Len(c.items)
    <3>1. c.items \in Seq(Item)
      BY DEF AnyChunk
    <3> QED BY <3>1, LengthsAre
  <2>3. PICK a \in Nat : a = b[i - 1]
    BY <1>5
  <2>4. PICK q \in Nat : a = 4 * q
    <3>1. i - 1 \in 0 .. n
      OBVIOUS
    <3> QED BY <1>4, <2>3, <3>1 DEF ChunksIn
  <2>5. PICK pos : /\ ItemEnds(pos, c.items, m) /\ b[i] = a + ToWord(SSRCLength + pos[m] + 1)
                   /\ ChunkIn(p.bytes, a, c, pos, m)
    BY <1>4, <2>1, <2>2, <2>3 DEF ChunksIn
  <2>6. a + ToWord(SSRCLength + pos[m] + 1) <= Len(p.bytes)
    BY <1>5, <2>5
  <2>7. /\ ItemsEnd(p, a + SSRCLength) = a + SSRCLength + pos[m]
        /\ NextChunk(p, a) = a + ToWord(SSRCLength + pos[m] + 1)
        /\ a + 2 * SSRCLength <= Len(p.bytes)
        /\ a + SSRCLength + pos[m] < Len(p.bytes) /\ Byte(p, a + SSRCLength + pos[m]) = 0
        /\ ToWord(a + SSRCLength + pos[m] + 1) <= Len(p.bytes)
    <3>1. ChunkReadAs(p, a, pos, m)
      BY ONLY <1>3, <2>2, <2>4, <2>5, <2>6, ChunkRead
    <3> QED BY <3>1 DEF ChunkReadAs
  <2>8. HeardChunk(p, a) = SaidChunk(c)
    BY <1>3, <2>2, <2>4, <2>5, <2>6, ChunkSays
  <2> QED BY <2>1, <2>3, <2>5, <2>7, <2>8
<1>7. \A i \in 0 .. n : ChunkAt(p)[i] = b[i]
  <2> DEFINE P == {i \in 0 .. n : ChunkAt(p)[i] = b[i]}
  <2>1. ChunkAt(p)[0] = 0 /\ \A i \in 1 .. n : ChunkAt(p)[i] = NextChunk(p, ChunkAt(p)[i - 1])
    BY <1>3, ChunkAtIs
  <2>2. 0 \in P
    BY <1>5, <2>1
  <2>3. ASSUME NEW i \in 1 .. n, i - 1 \in P PROVE i \in P
    BY <1>6, <2>1, <2>3
  <2>4. \A i \in 0 .. n : i \in P
    <3> HIDE DEF P
    <3> QED BY <2>2, <2>3, HP!UpTo
  <2> QED BY <2>4
<1>8. PICK C : C = ChunksOf(p)
  OBVIOUS
<1>9. DOMAIN C = 1 .. n /\ \A i \in 1 .. n : C[i] = b[i - 1]
  <2>1. C = [i \in 1 .. n |-> ChunkAt(p)[i - 1]]
    BY <1>3, <1>8 DEF ChunksOf
  <2> QED BY <1>7, <2>1
<1>10. KnownFormat(p)
  <2>1. ChunkAt(p)[p.count] = Len(p.bytes)
    BY <1>3, <1>5, <1>7
  <2>2. \A i \in DOMAIN ChunksOf(p) :
          /\ ChunksOf(p)[i] + 2 * SSRCLength <= Len(p.bytes)
          /\ ItemsEnd(p, ChunksOf(p)[i] + SSRCLength) < Len(p.bytes)
          /\ Byte(p, ItemsEnd(p, ChunksOf(p)[i] + SSRCLength)) = 0
          /\ ToWord(ItemsEnd(p, ChunksOf(p)[i] + SSRCLength) + 1) <= Len(p.bytes)
    BY <1>6, <1>8, <1>9
  <2> QED BY <2>1, <2>2 DEF KnownFormat
<1>11. Delivered(p) = FlattenSeq([i \in 1 .. n |-> HeardChunk(p, C[i])])
  BY <1>8, <1>9, <1>10 DEF Delivered
<1>12. [i \in 1 .. n |-> HeardChunk(p, C[i])] = [i \in 1 .. n |-> SaidChunk(chunks[i])]
  BY <1>6, <1>9
<1>13. Said(chunks) = FlattenSeq([i \in 1 .. n |-> SaidChunk(chunks[i])])
  BY <1>2 DEF Said
<1> QED BY <1>10, <1>11, <1>12, <1>13

\* What an item is, when a chunk says it.
LEMMA SaysItem ==
  ASSUME NEW ssrc \in SSRC, NEW item \in Item
  PROVE  Says(ssrc, item) \in SDESItem(SSRC)
<1>1. PICK d \in Seq(Nat) : d = item.data
  BY DEF Item
<1>2. PICK t : t = IF item.id \in DOMAIN Types THEN Types[item.id] ELSE "Unknown"
  OBVIOUS
<1>3. t \in ToSet(Types) \cup {"none", "Unknown"}
  <2>1. PICK T : T = Types
    OBVIOUS
  <2>2. t = IF item.id \in DOMAIN T THEN T[item.id] ELSE "Unknown"
    BY <1>2, <2>1
  <2>3. t \in {T[i] : i \in DOMAIN T} \cup {"none", "Unknown"}
    BY ONLY <2>2
  <2> QED BY <2>1, <2>3 DEF ToSet
<1>4. ASSUME Len(d) > 0, d[1] < Len(d)
      PROVE  SubSeq(d, 2, d[1] + 1) \in Seq(Nat) /\ SubSeq(d, d[1] + 2, Len(d)) \in Seq(Nat)
  <2>1. PICK m \in Nat : m = Len(d)
    BY <1>1
  <2>2. PICK h \in Nat : h = d[1]
    BY <1>1, <1>4, <2>1
  <2>3. h < m
    BY <1>4, <2>1, <2>2
  <2>4. \A i \in 1 .. m : d[i] \in Nat
    BY <1>1, <2>1
  <2>5. SubSeq(d, 2, h + 1) \in Seq(Nat)
    <3>1. PICK v \in Int : v = h + 1
      OBVIOUS
    <3>2. \A i \in 2 .. v : d[i] \in Nat
      BY <2>3, <2>4, <3>1
    <3>3. 2 \in Int
      OBVIOUS
    <3> QED BY ONLY <3>1, <3>2, <3>3, v \in Int, SubSeqProperties
  <2>6. SubSeq(d, h + 2, m) \in Seq(Nat)
    <3>1. PICK u \in Int : u = h + 2
      OBVIOUS
    <3>2. \A i \in u .. m : d[i] \in Nat
      BY <2>3, <2>4, <3>1
    <3>3. m \in Int
      OBVIOUS
    <3> QED BY ONLY <3>1, <3>2, <3>3, u \in Int, SubSeqProperties
  <2> QED BY <2>1, <2>2, <2>5, <2>6
<1>5. <<>> \in Seq(Nat)
  OBVIOUS
<1>6. PICK a : a = Says(ssrc, item).prefix
  OBVIOUS
<1>7. PICK b : b = Says(ssrc, item).value
  OBVIOUS
<1>8. a \in Seq(Nat) /\ b \in Seq(Nat)
  <2>1. CASE Len(d) > 0 /\ d[1] < Len(d)
    BY <1>1, <1>4, <1>6, <1>7, <2>1 DEF Says
  <2>2. CASE ~(Len(d) > 0 /\ d[1] < Len(d))
    <3>1. a = <<>> /\ b = <<>>
      BY <1>1, <1>6, <1>7, <2>2 DEF Says
    <3> QED BY ONLY <1>5, <3>1, Zenon
  <2> QED BY <2>1, <2>2
<1>9. Says(ssrc, item) = [ssrc |-> ssrc, type |-> t, data |-> d, prefix |-> a, value |-> b]
  BY <1>1, <1>2, <1>6, <1>7 DEF Says
<1>10. PICK T : T = ToSet(Types) \cup {"none", "Unknown"}
  OBVIOUS
<1>11. SDESItem(SSRC) = [ssrc : SSRC, type : T, data : Seq(Nat), prefix : Seq(Nat), value : Seq(Nat)]
  BY ONLY <1>10 DEF SDESItem
<1> QED BY ONLY <1>1, <1>3, <1>8, <1>9, <1>10, <1>11, d \in Seq(Nat), ssrc \in SSRC

\* What is heard in a datagram is what its chunks say: nothing, if it has no
\* known format.
LEMMA DeliveredIsSaid ==
  ASSUME NEW d \in SDESDatagram
  PROVE  Delivered(d.packet) = Said(d.chunks) /\ Said(d.chunks) \in Seq(SDESItem(SSRC))
<1>1. PICK chunks : chunks = d.chunks
  OBVIOUS
<1>2. CASE chunks \in Seq(SDESChunk(SSRC)) /\ d.packet = Laid(chunks)
  <2>1. PICK n \in Nat : n = Len(chunks)
    BY <1>2
  <2>2. chunks \in [1 .. n -> SDESChunk(SSRC)]
    BY ONLY <1>2, <2>1
  <2>3. \A i \in 1 .. n : chunks[i] \in AnyChunk /\ chunks[i].ssrc \in SSRC /\ chunks[i].items \in Seq(Item)
    BY <2>2, FakeSessionAssumption DEF SDESChunk, AnyChunk, Item
  <2>4. chunks \in Seq(AnyChunk)
    <3>1. chunks \in [1 .. n -> AnyChunk]
      BY <2>2, <2>3
    <3>2. PICK S : S = AnyChunk
      OBVIOUS
    <3>3. chunks \in [1 .. n -> S] /\ n \in Nat
      BY ONLY n \in Nat, <3>1, <3>2
    <3>4. chunks \in Seq(S)
      BY ONLY <3>3
    <3> QED BY ONLY <3>2, <3>4
  <2>5. Delivered(d.packet) = Said(chunks)
    BY <1>2, <2>4, LaidIsSaid
  <2> DEFINE S == [i \in 1 .. n |-> SaidChunk(chunks[i])]
  <2>6. ASSUME NEW i \in 1 .. n PROVE S[i] \in Seq(SDESItem(SSRC))
    <3>1. PICK c : c = chunks[i]
      OBVIOUS
    <3>2. c.ssrc \in SSRC /\ c.items \in Seq(Item)
      BY <2>3, <3>1
    <3>3. S[i] = SaidChunk(c)
      BY <3>1
    <3>4. PICK I : I = SDESItem(SSRC)
      OBVIOUS
    <3>5. CASE c.items = <<>>
      <4>1. PICK x : x = Nothing(c.ssrc)
        OBVIOUS
      <4>2. x \in I
        <5>1. <<>> \in Seq(Nat)
          OBVIOUS
        <5>2. PICK y : y = <<>>
          OBVIOUS
        <5>3. y \in Seq(Nat)
          BY ONLY <5>1, <5>2, Zenon
        <5>4. x = [ssrc |-> c.ssrc, type |-> "none", data |-> y, prefix |-> y, value |-> y]
          BY <4>1, <5>2 DEF Nothing
        <5>5. PICK T : T = ToSet(Types) \cup {"none", "Unknown"}
          OBVIOUS
        <5>6. "none" \in T
          BY ONLY <5>5
        <5>7. I = [ssrc : SSRC, type : T, data : Seq(Nat), prefix : Seq(Nat), value : Seq(Nat)]
          BY ONLY <3>4, <5>5 DEF SDESItem
        <5> QED BY ONLY <3>2, <5>3, <5>4, <5>6, <5>7
      <4>3. S[i] = <<x>>
        BY <3>3, <3>5, <4>1 DEF SaidChunk
      <4>4. <<x>> \in Seq(I)
        BY ONLY <4>2
      <4> QED BY ONLY <3>4, <4>3, <4>4
    <3>6. CASE c.items # <<>>
      <4>1. PICK m \in Nat : m = Len(c.items)
        BY <3>2
      <4>2. DOMAIN c.items = 1 .. m /\ \A k \in 1 .. m : c.items[k] \in Item
        BY <3>2, <4>1
      <4>3. S[i] = [k \in 1 .. m |-> Says(c.ssrc, c.items[k])]
        BY <3>3, <3>6, <4>2 DEF SaidChunk
      <4>4. \A k \in 1 .. m : Says(c.ssrc, c.items[k]) \in I
        BY <3>2, <3>4, <4>2, SaysItem
      <4>5. S[i] \in [1 .. m -> I]
        BY ONLY <4>3, <4>4
      <4>6. S[i] \in Seq(I)
        BY ONLY m \in Nat, <4>5
      <4> QED BY ONLY <3>4, <4>6
    <3> QED BY <3>5, <3>6
  <2>7. S = [i \in 1 .. n |-> S[i]]
    OBVIOUS
  <2>8. Said(chunks) = FlattenSeq(S)
    <3>1. DOMAIN chunks = 1 .. n
      BY <2>2
    <3> QED BY <3>1 DEF Said
  <2> HIDE DEF S
  <2>9. Family(S, SDESItem(SSRC), n)
    BY <2>6, <2>7 DEF Family
  <2>10. PICK F : F = FlattenSeq(S)
    OBVIOUS
  <2>11. \E pos : Parted(pos, S, SDESItem(SSRC), F, n)
    BY ONLY n \in Nat, <2>9, <2>10, FlattenParts
  <2>12. F \in Seq(SDESItem(SSRC))
    BY <2>11 DEF Parted
  <2> QED BY <1>1, <2>5, <2>8, <2>10, <2>12
<1>3. CASE chunks = <<>> /\ ~KnownFormat(d.packet)
  <2>1. Delivered(d.packet) = <<>>
    BY <1>3 DEF Delivered
  <2>2. PICK S : S = [i \in DOMAIN chunks |-> SaidChunk(chunks[i])]
    OBVIOUS
  <2>3. S = <<>>
    BY <1>3, <2>2
  <2>4. FlattenSeq(S) = <<>>
    BY <2>3 DEF FlattenSeq
  <2>5. Said(chunks) = <<>>
    BY <2>2, <2>4 DEF Said
  <2>6. <<>> \in Seq(SDESItem(SSRC))
    OBVIOUS
  <2> QED BY ONLY <1>1, <2>1, <2>5, <2>6, Zenon
<1> QED BY <1>1, <1>2, <1>3, FakeSessionAssumption


-----------------------------------------------------------------------------
(* The tables with a value for each key, in the session. *)

Incoming == Datagram \cup SDESDatagram

\* Both tables are sound; in a session the cursor of the sources is on one or
\* at the end; and what is received comes from hosts and sources that a table
\* has a bucket for.
TablesInv ==
  /\ MapSound(acceptignore) /\ MapSound(sources)
  /\ created => AtElement(sources)
  /\ currentdata \in Incoming \cup {None}
  /\ rawpackets \in Seq(Incoming)

LEMMA IncomingIs ==
  ASSUME NEW d \in Incoming
  PROVE  d # None /\ d.from[1] \in Key
<1>1. d # None /\ d.from \in Host \X Port
  BY FakeSessionAssumption DEF Incoming
<1> QED BY <1>1, KeysAre

\* The sources after an item are sound, if they were.
LEMMA OneItemKeeps ==
  ASSUME NEW st, MapSound(st.sources), AtElement(st.sources), NEW item, item.ssrc \in SSRC,
         NEW r, r = OneItem(st, item)
  PROVE  MapSound(r.sources) /\ AtElement(r.sources)
<1>1. item.ssrc \in Key
  BY KeysAre
<1>2. CASE ~st.ok \/ item.type = "Unknown"
  <2>1. r = [st EXCEPT !.ok = FALSE]
    BY <1>2 DEF OneItem
  <2>2. r.sources = st.sources
    BY <2>1
  <2> QED BY <2>2
<1>3. CASE ~(~st.ok \/ item.type = "Unknown")
  <2>1. r.sources = Obtained(st.sources, item.ssrc, FALSE)
    BY <1>3 DEF OneItem
  <2>2. PICK data : data = FALSE
    OBVIOUS
  <2>3. r.sources = Obtained(st.sources, item.ssrc, data)
    BY <2>1, <2>2
  <2> QED BY ONLY <1>1, <2>3, MapSound(st.sources), ObtainedIs
<1> QED BY <1>2, <1>3

LEMMA AfterItemsKeeps ==
  ASSUME NEW st, MapSound(st.sources), AtElement(st.sources),
         NEW items \in Seq(SDESItem(SSRC)), NEW r, r = AfterItems(st, items)
  PROVE  MapSound(r.sources) /\ AtElement(r.sources)
<1>1. PICK n : n = Len(items)
  OBVIOUS
<1>2. n \in Nat /\ \A i \in 1 .. n : items[i].ssrc \in SSRC
  <2>1. n \in Nat /\ \A i \in 1 .. n : items[i] \in SDESItem(SSRC)
    BY <1>1
  <2> QED BY <2>1 DEF SDESItem
<1>3. PICK f : /\ f[0] = st /\ AfterItems(st, items) = f[n]
               /\ \A i \in 1 .. n : f[i] = OneItem(f[i - 1], items[i])
  <2>1. \E x : HearsAll(x, st, items, n)
    BY ONLY <1>1, <1>2, AfterItemsIs
  <2> QED BY <2>1 DEF HearsAll
<1> DEFINE P == {i \in 0 .. n : MapSound(f[i].sources) /\ AtElement(f[i].sources)}
<1>4. 0 \in P
  BY <1>2, <1>3
<1>5. ASSUME NEW i \in 1 .. n, i - 1 \in P PROVE i \in P
  <2>1. PICK x : x = f[i - 1]
    OBVIOUS
  <2>2. MapSound(x.sources) /\ AtElement(x.sources)
    BY <1>5, <2>1
  <2>3. PICK y : y = f[i]
    OBVIOUS
  <2>4. y = OneItem(x, items[i]) /\ items[i].ssrc \in SSRC
    BY <1>2, <1>3, <2>1, <2>3
  <2>5. MapSound(y.sources) /\ AtElement(y.sources)
    BY <2>2, <2>4, OneItemKeeps
  <2> QED BY <2>3, <2>5
<1>6. \A i \in 0 .. n : i \in P
  <2> HIDE DEF P
  <2> QED BY <1>2, <1>4, <1>5, HP!UpTo
<1>7. MapSound(f[n].sources) /\ AtElement(f[n].sources)
  BY <1>2, <1>6
<1> QED BY <1>3, <1>7

LEMMA TablesQuiet ==
  ASSUME TablesInv, UNCHANGED <<acceptignore, sources, created, currentdata, rawpackets>>
  PROVE  TablesInv'
  BY DEF TablesInv, MapSound, AtElement

\* When only the sources change.
LEMMA TablesSources ==
  ASSUME TablesInv, UNCHANGED <<acceptignore, currentdata, rawpackets>>,
         MapSound(sources'), created' => AtElement(sources')
  PROVE  TablesInv'
  BY DEF TablesInv

\* When only the filter changes.
LEMMA TablesFilter ==
  ASSUME TablesInv, UNCHANGED <<sources, created, currentdata, rawpackets>>, MapSound(acceptignore')
  PROVE  TablesInv'
  BY DEF TablesInv

\* Creating: the sources of the new session, or none.
LEMMA CreateKeepsTables ==
  ASSUME CreateInv, TablesInv, ~created, NEW size,
         \/ Initialised(size)
         \/ \E stage \in Stage : Undone(stage, size)
         \/ UNCHANGED <<created, sources>>
  PROVE  MapSound(sources') /\ (created' => AtElement(sources'))
<1>1. MapSound(sources) /\ OwnSSRC \notin DOMAIN sources.elements
  BY DEF CreateInv, NothingLeft, TablesInv
<1>2. PICK w : w = WithOwn(sources)
  OBVIOUS
<1>3. MapSound(w) /\ AtElement(w)
  BY <1>1, <1>2, WithOwnIs
<1>4. CASE Initialised(size)
  BY <1>2, <1>3, <1>4 DEF Initialised
<1>5. CASE \E stage \in Stage : Undone(stage, size)
  <2>1. ~created' /\ (sources' = sources \/ sources' = H!MapClear(w))
    BY <1>2, <1>5 DEF Undone
  <2> QED BY <1>1, <2>1, MapEmpty
<1>6. CASE UNCHANGED <<created, sources>>
  BY <1>1, <1>6
<1> QED BY <1>4, <1>5, <1>6

LEMMA ReceiveModeKeepsTables ==
  ASSUME MapSound(acceptignore), NEW m, SetReceiveMode(m)
  PROVE  MapSound(acceptignore')
<1>1. acceptignore' = H!MapClear(acceptignore) \/ acceptignore' = acceptignore
  BY DEF SetReceiveMode
<1> QED BY <1>1, MapEmpty

LEMMA EntriesKeepTables ==
  ASSUME MapSound(acceptignore), NEW h \in Host, NEW p, AddEntry(h, p) \/ DeleteEntry(h, p)
  PROVE  MapSound(acceptignore')
<1>1. h \in Key
  BY KeysAre
<1>2. PICK g : g = H!MapGotoElement(acceptignore, h)
  OBVIOUS
<1>3. Alike(g, acceptignore) /\ g.keys.cur = IF h \in DOMAIN acceptignore.elements THEN h ELSE None
  BY <1>1, <1>2, MapGoto
<1>4. MapSound(g) /\ DOMAIN g.elements = DOMAIN acceptignore.elements
  BY <1>3 DEF Alike
<1>5. ASSUME NEW v, acceptignore' = H!SetCurrentElement(g, v) PROVE MapSound(acceptignore')
  BY <1>4, <1>5, MapSet
<1>6. ASSUME NEW v, acceptignore' = H!MapAddElement(g, h, v), h \notin DOMAIN g.elements
      PROVE  MapSound(acceptignore')
  BY <1>1, <1>4, <1>6, MapAdd
<1>7. CASE AddEntry(h, p)
  <2>1. CASE H!HasCurrentElement(g.keys)
    <3>1. PICK v : v = AddedToEntry(H!GetCurrentElement(g), p)
      OBVIOUS
    <3>2. acceptignore' = H!SetCurrentElement(g, v)
      BY <1>2, <1>7, <2>1, <3>1 DEF AddEntry
    <3> QED BY <1>5, <3>2
  <2>2. CASE ~H!HasCurrentElement(g.keys)
    <3>1. PICK v : v = AddedToEntry([all |-> FALSE, ports |-> {}], p)
      OBVIOUS
    <3>2. acceptignore' = H!MapAddElement(g, h, v)
      BY <1>2, <1>7, <2>2, <3>1 DEF AddEntry
    <3>3. h \notin DOMAIN g.elements
      BY <1>1, <1>3, <1>4, <2>2 DEF H!HasCurrentElement, Key
    <3> QED BY <1>6, <3>2, <3>3
  <2> QED BY <2>1, <2>2
<1>8. CASE DeleteEntry(h, p)
  <2>1. CASE H!HasCurrentElement(g.keys)
    <3>1. PICK v : v = DeletedFromEntry(H!GetCurrentElement(g), p)
      OBVIOUS
    <3>2. acceptignore' = H!SetCurrentElement(g, v)
      BY <1>2, <1>8, <2>1, <3>1 DEF DeleteEntry
    <3> QED BY <1>5, <3>2
  <2>2. CASE ~H!HasCurrentElement(g.keys)
    <3>1. acceptignore' = g
      BY <1>2, <1>8, <2>2 DEF DeleteEntry
    <3> QED BY <1>4, <3>1
  <2> QED BY <2>1, <2>2
<1> QED BY <1>7, <1>8

LEMMA PollKeepsTables ==
  ASSUME TablesInv, TransPoll, UNCHANGED <<sources, created>>
  PROVE  TablesInv'
<1>1. currentdata' = None
  BY DEF TransPoll
<1>2. CASE currentdata = None
  BY <1>1, <1>2 DEF TransPoll, TablesInv
<1>3. CASE currentdata # None
  <2>1. currentdata \in Incoming
    BY <1>3 DEF TablesInv
  <2>2. rawpackets' \in Seq(Incoming)
    <3>1. rawpackets' = Append(rawpackets, currentdata) \/ rawpackets' = rawpackets
      BY <1>3 DEF TransPoll
    <3> QED BY <2>1, <3>1 DEF TablesInv
  <2>3. MapSound(acceptignore')
    <3>1. PICK g : g = H!MapGotoElement(acceptignore, currentdata.from[1])
      OBVIOUS
    <3>2. MapSound(g)
      <4>1. currentdata.from[1] \in Key
        BY <2>1, IncomingIs
      <4> QED BY <3>1, <4>1, MapGoto DEF TablesInv, Alike
    <3>3. acceptignore' = g \/ acceptignore' = acceptignore
      BY <1>3, <3>1 DEF TransPoll, Found
    <3> QED BY <3>2, <3>3 DEF TablesInv
  <2> QED BY <1>1, <2>2, <2>3 DEF TablesInv
<1> QED BY <1>2, <1>3

\* A walk's call moves the cursor, or sets the current element.
LEMMA WalkKeepsTables ==
  ASSUME ControlInv, TablesInv, OnlySources, created,
         \/ GotoFirstSource \/ GotoNextSource \/ GotoPreviousSource
         \/ GotoFirstSourceWithData \/ GotoNextSourceWithData \/ GotoPreviousSourceWithData
         \/ (\E s \in SSRC : GetSourceInfo(s)) \/ GetNextPacket
  PROVE  TablesInv'
<1>0. MapSound(sources) /\ AtElement(sources)
  BY DEF TablesInv
<1>1. UNCHANGED <<acceptignore, currentdata, rawpackets>>
  BY DEF OnlySources, transVars
<1>2. ASSUME MapSound(sources'), AtElement(sources') PROVE TablesInv'
  BY <1>1, <1>2, TablesSources
<1>3. CASE GotoFirstSource
  <2>1. sources' = H!MapGotoFirstElement(sources)
    BY <1>3 DEF GotoFirstSource
  <2> QED BY <1>0, <1>2, <2>1, MapFirst DEF Alike
<1>4. CASE GotoNextSource
  <2>1. sources' = H!MapGotoNextElement(sources)
    BY <1>4 DEF GotoNextSource
  <2> QED BY <1>0, <1>2, <2>1, MapNext DEF Alike
<1>5. CASE GotoPreviousSource
  <2>1. sources' = H!MapGotoPreviousElement(sources)
    BY <1>5 DEF GotoPreviousSource
  <2> QED BY <1>0, <1>2, <2>1, MapPrevious DEF Alike
<1>6. ASSUME NEW m, Alike(m, sources), AtElement(m),
             \/ sources' = ToData(m, sources.keys.listnext)
             \/ sources' = ToData(m, sources.keys.listprev)
      PROVE  TablesInv'
  <2>1. /\ MapSound(m) /\ m.keys.listnext = sources.keys.listnext
        /\ m.keys.listprev = sources.keys.listprev
    BY <1>6 DEF Alike
  <2>2. PICK next \in {m.keys.listnext, m.keys.listprev} : sources' = ToData(m, next)
    BY <1>6, <2>1
  <2>3. Alike(sources', m) /\ AtElement(sources')
    BY <1>6, <2>1, <2>2, ToDataIs
  <2> QED BY <1>2, <2>3 DEF Alike
<1>7. CASE GotoFirstSourceWithData
  <2>1. PICK m : m = H!MapGotoFirstElement(sources)
    OBVIOUS
  <2>2. Alike(m, sources) /\ AtElement(m)
    BY <1>0, <2>1, MapFirst
  <2> QED BY <1>6, <1>7, <2>1, <2>2 DEF GotoFirstSourceWithData
<1>8. CASE GotoNextSourceWithData
  <2>1. PICK m : m = H!MapGotoNextElement(sources)
    OBVIOUS
  <2>2. Alike(m, sources) /\ AtElement(m)
    BY <1>0, <2>1, MapNext
  <2> QED BY <1>6, <1>8, <2>1, <2>2 DEF GotoNextSourceWithData
<1>9. CASE GotoPreviousSourceWithData
  <2>1. PICK m : m = H!MapGotoPreviousElement(sources)
    OBVIOUS
  <2>2. Alike(m, sources) /\ AtElement(m)
    BY <1>0, <2>1, MapPrevious
  <2> QED BY <1>6, <1>9, <2>1, <2>2 DEF GotoPreviousSourceWithData
<1>10. ASSUME NEW s \in SSRC, GetSourceInfo(s) PROVE TablesInv'
  <2>1. sources' = H!MapGotoElement(sources, s) /\ s \in Key
    BY <1>10, KeysAre DEF GetSourceInfo
  <2> QED BY <1>0, <1>2, <2>1, MapGoto DEF Alike
<1>11. CASE GetNextPacket
  <2>1. PICK e : e = FALSE
    OBVIOUS
  <2>2. sources' = H!SetCurrentElement(sources, e)
    BY <1>11, <2>1 DEF GetNextPacket
  <2>3. MapSound(sources') /\ sources'.keys = sources.keys
    BY ONLY <1>0, <2>2, MapSet
  <2>4. AtElement(sources')
    BY <1>0, <2>3 DEF AtElement
  <2> QED BY <1>2, <2>3, <2>4
<1> QED BY <1>3, <1>4, <1>5, <1>7, <1>8, <1>9, <1>10, <1>11

LEMMA ProcessKeepsTables ==
  ASSUME ControlInv, TablesInv, ProcessPacket \/ ProcessSDES
  PROVE  TablesInv'
<1>1. /\ rawpackets # <<>> /\ rawpackets' = Tail(rawpackets) /\ created
      /\ UNCHANGED <<acceptignore, currentdata, created>>
  BY DEF ProcessPacket, ProcessSDES, ControlInv, session
<1>2. MapSound(sources) /\ AtElement(sources) /\ MapSound(acceptignore)
  BY <1>1 DEF TablesInv
<1>3. rawpackets' \in Seq(Incoming)
  BY <1>1 DEF TablesInv
<1>4. ASSUME MapSound(sources'), AtElement(sources') PROVE TablesInv'
  BY <1>1, <1>2, <1>3, <1>4 DEF TablesInv
<1>5. PICK d : d = Head(rawpackets)
  OBVIOUS
<1>6. CASE ProcessPacket
  <2>1. d \in Datagram
    BY <1>5, <1>6 DEF ProcessPacket
  <2>2. d.packet.ssrc \in Key
    BY <2>1, KeysAre, FakeSessionAssumption
  <2>3. PICK data : data = TRUE
    OBVIOUS
  <2>4. PICK m : m = Obtained(sources, d.packet.ssrc, data)
    OBVIOUS
  <2>5. MapSound(m) /\ AtElement(m)
    BY ONLY <1>2, <2>2, <2>4, ObtainedIs
  <2>6. PICK u : u = H!SetCurrentElement(m, data)
    OBVIOUS
  <2>7. MapSound(u) /\ u.keys = m.keys /\ DOMAIN u.elements = DOMAIN m.elements
    BY ONLY <2>5, <2>6, MapSet
  <2>8. AtElement(u)
    BY <2>5, <2>7 DEF AtElement
  <2>9. sources' = u \/ sources' = sources
    BY <1>5, <1>6, <2>3, <2>4, <2>6 DEF ProcessPacket
  <2> QED BY <1>2, <1>4, <2>7, <2>8, <2>9
<1>7. CASE ProcessSDES
  <2>1. d \in SDESDatagram
    BY <1>5, <1>7 DEF ProcessSDES
  <2>2. Delivered(d.packet) \in Seq(SDESItem(SSRC))
    BY <2>1, DeliveredIsSaid
  <2>3. PICK st : st = [ok |-> TRUE, sources |-> sources, infos |-> infos]
    OBVIOUS
  <2>4. PICK r : r = AfterItems(st, Delivered(d.packet))
    OBVIOUS
  <2>5. st.sources = sources
    BY <2>3
  <2>6. MapSound(r.sources) /\ AtElement(r.sources)
    BY ONLY <1>2, <2>2, <2>4, <2>5, AfterItemsKeeps
  <2>7. sources' = r.sources \/ sources' = sources
    BY <1>5, <1>7, <2>3, <2>4 DEF ProcessSDES
  <2> QED BY <1>2, <1>4, <2>6, <2>7
<1> QED BY <1>6, <1>7

LEMMA SweepKeepsTables ==
  ASSUME ControlInv, TablesInv, BeginSweep \/ \E timedout \in BOOLEAN : SweepNext(timedout)
  PROVE  TablesInv'
<1>1. created /\ UNCHANGED <<acceptignore, currentdata, rawpackets, created>>
  BY DEF BeginSweep, SweepNext, ControlInv, session, transVars
<1>2. MapSound(sources) /\ AtElement(sources)
  BY <1>1 DEF TablesInv
<1>3. CASE BeginSweep
  <2>1. sources' = H!MapGotoFirstElement(sources)
    BY <1>3 DEF BeginSweep
  <2>2. MapSound(sources') /\ AtElement(sources')
    BY <1>2, <2>1, MapFirst DEF Alike
  <2> QED BY <1>1, <2>2, TablesSources
<1>4. ASSUME NEW timedout \in BOOLEAN, SweepNext(timedout) PROVE TablesInv'
  <2>1. sources.keys.cur \in DOMAIN sources.elements
    BY <1>2, <1>4 DEF SweepNext, H!HasCurrentElement, AtElement, MapSound
  <2>2. sources' = H!MapDeleteCurrentElement(sources) \/ sources' = H!MapGotoNextElement(sources)
    BY <1>4 DEF SweepNext
  <2>3. MapSound(sources') /\ AtElement(sources')
    BY <1>2, <2>1, <2>2, MapDelete, MapNext DEF Alike
  <2> QED BY <1>1, <2>3, TablesSources
<1> QED BY <1>3, <1>4

LEMMA TablesStep ==
  ASSUME ControlInv, CreateInv, TablesInv, [Next]_vars
  PROVE  TablesInv'
<1>0. MapSound(acceptignore) /\ MapSound(sources)
  BY DEF TablesInv
<1>1. ASSUME NEW size, CreateOwn(size) PROVE TablesInv'
  <2>1. UNCHANGED <<acceptignore, currentdata, rawpackets>> /\ ~created
    BY <1>1 DEF CreateOwn, TransCreate, transVars
  <2>2. \/ Initialised(size) \/ \E stage \in Stage : Undone(stage, size)
        \/ UNCHANGED <<created, sources>>
    BY <1>1 DEF CreateOwn
  <2>3. MapSound(sources') /\ (created' => AtElement(sources'))
    BY <2>1, <2>2, CreateKeepsTables
  <2> QED BY <2>1, <2>3, TablesSources
<1>2. ASSUME NEW size, CreateWith(size) PROVE TablesInv'
  <2>1. UNCHANGED <<currentdata, rawpackets>> /\ ~created
    BY <1>2 DEF CreateWith
  <2>2. \/ Initialised(size) \/ \E stage \in Stage : Undone(stage, size)
        \/ UNCHANGED <<created, sources>>
    BY <1>2 DEF CreateWith
  <2>3. MapSound(sources') /\ (created' => AtElement(sources'))
    BY <2>1, <2>2, CreateKeepsTables
  <2>4. PICK m : m = "all"
    OBVIOUS
  <2>5. SetReceiveMode(m) \/ acceptignore' = acceptignore
    BY <1>2, <2>4 DEF CreateWith
  <2>6. MapSound(acceptignore')
    BY <1>0, <2>5, ReceiveModeKeepsTables
  <2> QED BY <2>1, <2>3, <2>6 DEF TablesInv
<1>3. CASE MakeTransmitter
  BY <1>3, TablesQuiet DEF MakeTransmitter, TransCreate, session
<1>4. CASE Destroy
  <2>1. ~created'
    BY <1>4 DEF Destroy
  <2>2. MapSound(sources')
    BY <1>4, MapEmpty DEF Destroy
  <2>3. MapSound(acceptignore')
    <3>1. acceptignore' \in {H!EmptyMap, acceptignore}
      BY <1>4 DEF Destroy, TransDestroyed, transVars
    <3> QED BY <1>0, <3>1, MapEmpty
  <2>4. currentdata' \in Incoming \cup {None} /\ rawpackets' \in Seq(Incoming)
    <3>1. <<>> \in Seq(Incoming)
      OBVIOUS
    <3>2. \/ currentdata' = None /\ rawpackets' = <<>>
          \/ currentdata' = currentdata /\ rawpackets' = rawpackets
      BY <1>4 DEF Destroy, TransDestroyed, transVars
    <3>3. currentdata \in Incoming \cup {None} /\ rawpackets \in Seq(Incoming)
      BY DEF TablesInv
    <3> QED BY ONLY <3>1, <3>2, <3>3, Zenon
  <2> QED BY <2>1, <2>2, <2>3, <2>4 DEF TablesInv
<1>5. ASSUME KeepsTrans, UNCHANGED <<session, sources>> PROVE TablesInv'
  BY <1>5, TablesQuiet DEF KeepsTrans, session
<1>6. ASSUME NEW pt, NEW mark, NEW inc, NEW words, NEW len, SendPacket(pt, mark, inc, words, len)
      PROVE  TablesInv'
  BY <1>5, <1>6 DEF SendPacket
<1>7. ASSUME NEW words, NEW len, SendDefault(words, len) PROVE TablesInv'
  BY <1>5, <1>7 DEF SendDefault
<1>8. CASE Callback \/ SendRTCPInCallback
  BY <1>5, <1>8 DEF Callback, SendRTCPInCallback
<1>40. ASSUME NEW pt, NEW mark, NEW inc, NEW words, NEW len, SendInCallback(pt, mark, inc, words, len)
       PROVE  TablesInv'
  BY <1>5, <1>40 DEF SendInCallback
<1>9. CASE SendEnds \/ Destinations \/ SweepEnds
  BY <1>5, <1>9 DEF SendEnds, Destinations, SweepEnds
<1>10. CASE ConfigureBuilder
  BY <1>10, TablesQuiet DEF ConfigureBuilder, transVars, session
<1>11. ASSUME NEW size, NEW ok, SetMaximumPacketSize(size, ok) PROVE TablesInv'
  BY <1>11, TablesQuiet DEF SetMaximumPacketSize
<1>12. CASE Filter
  <2>1. UNCHANGED <<sources, created, currentdata, rawpackets>>
    BY <1>12 DEF Filter, session
  <2>2. ASSUME NEW m, SetReceiveMode(m) PROVE MapSound(acceptignore')
    BY <1>0, <2>2, ReceiveModeKeepsTables
  <2>3. ASSUME NEW h \in Host, NEW p, AddEntry(h, p) \/ DeleteEntry(h, p) PROVE MapSound(acceptignore')
    BY <1>0, <2>3, EntriesKeepTables
  <2>4. ASSUME ClearEntries PROVE MapSound(acceptignore')
    <3>1. PICK m : m = [acceptignore EXCEPT !.keys.cur = None]
      OBVIOUS
    <3>2. acceptignore' = H!MapClear(m)
      BY <2>4, <3>1 DEF ClearEntries
    <3> QED BY <3>2, MapEmpty
  <2>5. MapSound(acceptignore')
    <3>1. \/ \E m \in {"all", "accept", "ignore"} : SetReceiveMode(m)
          \/ \E h \in Host, p \in Port \cup {0} : AddEntry(h, p) \/ DeleteEntry(h, p)
          \/ ClearEntries
      BY <1>12 DEF Filter
    <3> QED BY ONLY <2>2, <2>3, <2>4, <3>1
  <2> QED BY <2>1, <2>5, TablesFilter
<1>13. ASSUME NEW d \in SomeDatagram, SetCurrentData(d) PROVE TablesInv'
  <2>1. d \in Incoming
    BY DEF SomeDatagram, Incoming
  <2> QED BY <1>13, <2>1 DEF SetCurrentData, session, TablesInv
<1>14. CASE Poll
  BY <1>14, PollKeepsTables DEF Poll, session
<1>15. CASE ProcessPacket \/ ProcessSDES
  BY <1>15, ProcessKeepsTables
<1>16. CASE BeginSweep \/ \E timedout \in BOOLEAN : SweepNext(timedout)
  BY <1>16, SweepKeepsTables
<1>17. ASSUME \/ GotoFirstSource \/ GotoNextSource \/ GotoPreviousSource
              \/ GotoFirstSourceWithData \/ GotoNextSourceWithData \/ GotoPreviousSourceWithData
              \/ (\E s \in SSRC : GetSourceInfo(s)) \/ GetNextPacket
       PROVE  TablesInv'
  <2>1. OnlySources /\ created
    BY <1>17 DEF GotoFirstSource, GotoNextSource, GotoPreviousSource, GotoFirstSourceWithData,
                 GotoNextSourceWithData, GotoPreviousSourceWithData, GetSourceInfo, GetNextPacket, Walking
  <2> QED BY <1>17, <2>1, WalkKeepsTables
<1>18. ASSUME NEW s \in SSRC, SDES_GotoFirstPrivateValue(s) \/ SDES_GetNextPrivateValue(s) PROVE TablesInv'
  <2>1. AsksFor(s)
    BY <1>18 DEF SDES_GotoFirstPrivateValue, SDES_GetNextPrivateValue
  <2>2. sources' = H!MapGotoElement(sources, s) /\ s \in Key
    BY <2>1, KeysAre DEF AsksFor
  <2>3. MapSound(sources') /\ AtElement(sources')
    BY <1>0, <2>2, MapGoto DEF Alike
  <2>4. UNCHANGED <<acceptignore, currentdata, rawpackets>>
    BY <2>1 DEF AsksFor, transVars
  <2> QED BY <2>3, <2>4, TablesSources
<1>19. CASE UNCHANGED vars
  BY <1>19, TablesQuiet DEF vars, transVars, session
<1> QED BY <1>40, <1>1, <1>2, <1>3, <1>4, <1>6, <1>7, <1>8, <1>9, <1>10, <1>11, <1>12, <1>13, <1>14,
           <1>15, <1>16, <1>17, <1>18, <1>19 DEF Next

-----------------------------------------------------------------------------
(* The application's walk through the sources. *)

\* The list q of the set S: each element once.
Lists(q, S) ==
  /\ q \in Seq(S)
  /\ \A i, k \in 1 .. Len(q) : q[i] = q[k] => i = k
  /\ \A x \in S : \E i \in 1 .. Len(q) : q[i] = x

\* A walk has seen everything once.
SeesAll(seen, expected) ==
  /\ \A i, j \in DOMAIN seen : seen[i] = seen[j] => i = j
  /\ {seen[i] : i \in DOMAIN seen} = expected

\* A walk along q has seen its first j ...
AllTo(q, S, seen, j) ==
  /\ j \in 0 .. Len(q) /\ seen \in Seq(S) /\ Len(seen) = j
  /\ \A i \in 1 .. j : seen[i] = q[i]

\* ... or those of the first j that it expects; after the jth it expects those
\* that are in D, the ones with data.
DataTo(q, S, D1, seen, expected, j) ==
  /\ j \in 0 .. Len(q) /\ seen \in Seq(S) /\ expected \subseteq S
  /\ \A k, l \in 1 .. Len(seen) : seen[k] = seen[l] => k = l
  /\ \A k \in 1 .. Len(seen) : seen[k] \in expected /\ \E i \in 1 .. j : q[i] = seen[k]
  /\ \A i \in 1 .. j : q[i] \in expected => \E k \in 1 .. Len(seen) : seen[k] = q[i]
  /\ \A i \in 1 .. Len(q) : i > j => (q[i] \in expected <=> q[i] \in D1)

LEMMA AllGrows ==
  ASSUME NEW S, NEW q, Lists(q, S), NEW seen, NEW j, AllTo(q, S, seen, j), j # Len(q),
         NEW r, r = Append(seen, q[j + 1])
  PROVE  AllTo(q, S, r, j + 1)
<1>1. Len(q) \in Nat /\ j \in 0 .. Len(q) /\ seen \in Seq(S) /\ Len(seen) = j
  BY DEF AllTo, Lists
<1>2. j + 1 \in 1 .. Len(q)
  BY <1>1
<1>3. q[j + 1] \in S
  BY <1>2 DEF Lists
<1>4. /\ r \in Seq(S) /\ Len(r) = j + 1 /\ r[j + 1] = q[j + 1]
      /\ \A i \in 1 .. j : r[i] = seen[i]
  BY <1>1, <1>3
<1>5. \A i \in 1 .. j + 1 : r[i] = q[i]
  <2>1. SUFFICES ASSUME NEW i \in 1 .. j + 1 PROVE r[i] = q[i]
    OBVIOUS
  <2>2. i = j + 1 \/ i \in 1 .. j
    BY <1>1
  <2> QED BY <1>4, <2>2 DEF AllTo
<1> QED BY <1>2, <1>4, <1>5 DEF AllTo

LEMMA AllEnds ==
  ASSUME NEW S, NEW q, Lists(q, S), NEW seen, AllTo(q, S, seen, Len(q))
  PROVE  SeesAll(seen, S)
<1>1. DOMAIN seen = 1 .. Len(q) /\ \A i \in 1 .. Len(q) : seen[i] = q[i] /\ q[i] \in S
  BY DEF AllTo, Lists
<1>2. \A i, j \in DOMAIN seen : seen[i] = seen[j] => i = j
  BY <1>1 DEF Lists
<1>3. \A x \in S : \E i \in DOMAIN seen : seen[i] = x
  BY <1>1 DEF Lists
<1>4. {seen[i] : i \in DOMAIN seen} = S
  BY <1>1, <1>3
<1> QED BY <1>2, <1>4 DEF SeesAll

LEMMA DataGrows ==
  ASSUME NEW S, NEW q, Lists(q, S), NEW D1, NEW seen, NEW expected, NEW j,
         DataTo(q, S, D1, seen, expected, j),
         NEW l \in 1 .. Len(q), l > j, q[l] \in D1,
         \A i \in 1 .. Len(q) : i > j /\ i < l => q[i] \notin D1,
         NEW r, r = Append(seen, q[l])
  PROVE  DataTo(q, S, D1, r, expected, l)
<1>1. /\ Len(q) \in Nat /\ j \in 0 .. Len(q) /\ seen \in Seq(S) /\ Len(seen) \in Nat
      /\ expected \subseteq S
  BY DEF DataTo, Lists
<1>2. PICK n : n = Len(seen)
  OBVIOUS
<1>3. PICK m : m = n + 1
  OBVIOUS
<1>4. q[l] \in S
  BY DEF Lists
<1>5. /\ r \in Seq(S) /\ Len(r) = m /\ r[m] = q[l] /\ m \in 1 .. m /\ m \notin 1 .. n
      /\ \A k \in 1 .. n : r[k] = seen[k] /\ k \in 1 .. m
      /\ \A k \in 1 .. m : k = m \/ k \in 1 .. n
  BY <1>1, <1>2, <1>3, <1>4
<1>6. \A k \in 1 .. n : seen[k] # q[l]
  <2>1. SUFFICES ASSUME NEW k \in 1 .. n, seen[k] = q[l] PROVE FALSE
    OBVIOUS
  <2>2. PICK i \in 1 .. j : q[i] = q[l]
    BY <1>2, <2>1 DEF DataTo
  <2>3. i \in 1 .. Len(q) /\ i # l
    BY <1>1
  <2> QED BY <2>2, <2>3 DEF Lists
<1>7. \A i \in 1 .. j : i \in 1 .. l
  BY <1>1
<1>8. \A k, k1 \in 1 .. Len(r) : r[k] = r[k1] => k = k1
  BY <1>2, <1>5, <1>6 DEF DataTo
<1>9. q[l] \in expected
  BY DEF DataTo
<1>10. \A k \in 1 .. Len(r) : r[k] \in expected /\ \E i \in 1 .. l : q[i] = r[k]
  <2>1. l \in 1 .. l
    OBVIOUS
  <2>2. SUFFICES ASSUME NEW k \in 1 .. m PROVE r[k] \in expected /\ \E i \in 1 .. l : q[i] = r[k]
    BY <1>5
  <2>3. CASE k = m
    BY <1>5, <1>9, <2>1, <2>3
  <2>4. CASE k \in 1 .. n
    <3>1. seen[k] \in expected /\ \E i \in 1 .. j : q[i] = seen[k]
      BY <1>2, <2>4 DEF DataTo
    <3> QED BY <1>5, <1>7, <2>4, <3>1
  <2> QED BY <1>5, <2>3, <2>4
<1>11. \A i \in 1 .. l : q[i] \in expected => \E k \in 1 .. Len(r) : r[k] = q[i]
  <2>1. SUFFICES ASSUME NEW i \in 1 .. l, q[i] \in expected PROVE \E k \in 1 .. m : r[k] = q[i]
    BY <1>5
  <2>2. CASE i = l
    BY <1>5, <2>2
  <2>3. CASE i \in 1 .. j
    <3>1. \E k \in 1 .. n : seen[k] = q[i]
      BY <1>2, <2>1, <2>3 DEF DataTo
    <3> QED BY <1>5, <3>1
  <2>4. CASE i > j /\ i < l
    <3>1. i \in 1 .. Len(q)
      BY <1>1
    <3> QED BY <2>1, <2>4, <3>1 DEF DataTo
  <2>5. i = l \/ i \in 1 .. j \/ (i > j /\ i < l)
    BY <1>1
  <2> QED BY <2>2, <2>3, <2>4, <2>5
<1>12. \A i \in 1 .. Len(q) : i > l => (q[i] \in expected <=> q[i] \in D1)
  <2>1. \A i \in 1 .. Len(q) : i > l => i > j
    BY <1>1
  <2> QED BY <2>1 DEF DataTo
<1>13. l \in 0 .. Len(q)
  BY <1>1
<1> QED BY <1>1, <1>5, <1>8, <1>10, <1>11, <1>12, <1>13 DEF DataTo

LEMMA DataEnds ==
  ASSUME NEW S, NEW q, Lists(q, S), NEW D1, NEW seen, NEW expected, NEW j,
         DataTo(q, S, D1, seen, expected, j),
         \A i \in 1 .. Len(q) : i > j => q[i] \notin D1
  PROVE  SeesAll(seen, expected)
<1>1. DOMAIN seen = 1 .. Len(seen) /\ j \in 0 .. Len(q) /\ Len(q) \in Nat
  BY DEF DataTo, Lists
<1>2. \A x \in expected : \E k \in 1 .. Len(seen) : seen[k] = x
  <2>1. SUFFICES ASSUME NEW x \in expected PROVE \E k \in 1 .. Len(seen) : seen[k] = x
    OBVIOUS
  <2>2. PICK i \in 1 .. Len(q) : q[i] = x
    BY DEF DataTo, Lists
  <2>3. ~(i > j)
    BY <2>2 DEF DataTo
  <2>4. i \in 1 .. j
    BY <1>1, <2>3
  <2> QED BY <2>2, <2>4 DEF DataTo
<1>3. \A k \in 1 .. Len(seen) : seen[k] \in expected
  BY DEF DataTo
<1>4. {seen[i] : i \in DOMAIN seen} = expected
  BY <1>1, <1>2, <1>3
<1>5. \A i, k \in DOMAIN seen : seen[i] = seen[k] => i = k
  BY <1>1 DEF DataTo
<1> QED BY <1>4, <1>5 DEF SeesAll

\* What has no data any more was seen.
LEMMA DataTaken ==
  ASSUME NEW S, NEW q, Lists(q, S), NEW D1, NEW D2, NEW seen, NEW expected, NEW j,
         DataTo(q, S, D1, seen, expected, j), j # 0,
         \A x \in S : x # q[j] => (x \in D1 <=> x \in D2)
  PROVE  DataTo(q, S, D2, seen, expected, j)
<1>1. Len(q) \in Nat /\ j \in 1 .. Len(q)
  BY DEF DataTo, Lists
<1>2. ASSUME NEW i \in 1 .. Len(q), i > j PROVE q[i] \in D1 <=> q[i] \in D2
  <2>1. q[i] # q[j] /\ q[i] \in S
    BY <1>1, <1>2 DEF Lists
  <2> QED BY <2>1
<1>3. \A i \in 1 .. Len(q) : i > j => (q[i] \in expected <=> q[i] \in D2)
  BY <1>2 DEF DataTo
<1> QED BY <1>3 DEF DataTo

\* Where ToData comes to from the element after the jth.
LEMMA ToDataComes ==
  ASSUME NEW m, MapSound(m), AtElement(m), NEW q, q = H!Listed(m.keys), NEW j \in 0 .. Len(q),
         m.keys.cur = IF j = Len(q) THEN None ELSE q[j + 1],
         NEW u, u = ToData(m, m.keys.listnext)
  PROVE  \/ u.keys.cur = None /\ \A i \in 1 .. Len(q) : i > j => q[i] \notin WithData(m)
         \/ \E l \in 1 .. Len(q) :
              /\ l > j /\ u.keys.cur = q[l] /\ q[l] \in WithData(m)
              /\ \A i \in 1 .. Len(q) : i > j /\ i < l => q[i] \notin WithData(m)
<1>1. PICK next : next = m.keys.listnext
  OBVIOUS
<1>2. PICK path : path = H!Path(next, m.keys.cur)
  OBVIOUS
<1>3. FirstOn(m, path, u.keys.cur)
  BY <1>1, <1>2, ToDataIs
<1>4. PICK n : n = Len(q)
  OBVIOUS
<1>5. n \in Nat /\ j \in 0 .. n /\ \A i \in 1 .. n : q[i] \in DOMAIN m.elements
  <2>1. MapList(m, q)
    BY MapListed
  <2>2. q \in Seq(DOMAIN m.elements)
    BY <2>1 DEF MapList
  <2> QED BY <1>4, <2>2
<1>6. \A i \in 1 .. n : q[i] \in WithData(m) <=> m.elements[q[i]]
  BY <1>5 DEF WithData
<1>7. CASE j = n
  <2>1. \A i \in 1 .. n : ~(i > j)
    BY <1>7, <1>5
  <2>2. path = <<>>
    BY <1>1, <1>2, <1>4, <1>7, MapPaths
  <2>3. 1 .. Len(path) = {}
    BY <2>2
  <2>4. u.keys.cur = None
    BY <1>3, <2>3 DEF FirstOn
  <2> QED BY <1>4, <2>1, <2>4
<1>8. CASE j # n
  <2>1. PICK k : k = j + 1
    OBVIOUS
  <2>2. k \in 1 .. n /\ m.keys.cur = q[k]
    BY <1>4, <1>5, <1>8, <2>1
  <2>3. path = HP!From(q, k)
    BY <1>1, <1>2, <1>4, <2>2, MapPaths
  <2>4. path = [l \in 1 .. n + 1 - k |-> q[l + k - 1]]
    BY <1>4, <2>3 DEF HP!From
  <2>5. Len(path) = n - j /\ \A l \in 1 .. n - j : path[l] = q[l + j] /\ l + j \in 1 .. n
    <3>1. n + 1 - k = n - j /\ n - j \in Nat
      BY <1>5, <2>1, <2>2
    <3>2. path = [l \in 1 .. n - j |-> q[l + k - 1]]
      BY <2>4, <3>1
    <3>3. \A l \in 1 .. n - j : l + k - 1 = l + j /\ l + j \in 1 .. n
      BY <1>5, <2>1
    <3>4. Len(path) = n - j
      BY ONLY <3>1, <3>2
    <3>5. \A l \in 1 .. n - j : path[l] = q[l + k - 1]
      BY ONLY <3>2
    <3>6. \A l \in 1 .. n - j : path[l] = q[l + j]
      BY ONLY <3>3, <3>5
    <3> QED BY ONLY <3>3, <3>4, <3>6
  <2>6. \A i \in 1 .. n : i > j => i - j \in 1 .. n - j /\ q[i] = path[i - j]
    <3>1. SUFFICES ASSUME NEW i \in 1 .. n, i > j PROVE i - j \in 1 .. n - j /\ q[i] = path[i - j]
      OBVIOUS
    <3>2. PICK l : l = i - j
      OBVIOUS
    <3>3. l \in 1 .. n - j /\ l + j = i
      BY <1>5, <3>1, <3>2
    <3> QED BY <2>5, <3>2, <3>3
  <2>7. CASE u.keys.cur = None /\ \A i \in 1 .. Len(path) : ~m.elements[path[i]]
    <3>1. ASSUME NEW i \in 1 .. n, i > j PROVE q[i] \notin WithData(m)
      <4>1. PICK l : l = i - j
        OBVIOUS
      <4>2. l \in 1 .. Len(path) /\ q[i] = path[l]
        BY <2>5, <2>6, <3>1, <4>1
      <4>3. ~m.elements[q[i]]
        BY <2>7, <4>2
      <4> QED BY <1>6, <4>3
    <3> QED BY <1>4, <2>7, <3>1
  <2>8. CASE \E i \in 1 .. Len(path) :
               /\ u.keys.cur = path[i] /\ m.elements[path[i]]
               /\ \A k1 \in 1 .. Len(path) : k1 < i => ~m.elements[path[k1]]
    <3>1. PICK i \in 1 .. n - j :
               /\ u.keys.cur = path[i] /\ m.elements[path[i]]
               /\ \A k1 \in 1 .. n - j : k1 < i => ~m.elements[path[k1]]
      BY <2>5, <2>8
    <3>2. PICK l : l = i + j
      OBVIOUS
    <3>3. l \in 1 .. n /\ l > j /\ path[i] = q[l]
      BY <1>5, <2>5, <3>2
    <3>4. q[l] \in WithData(m)
      BY <1>6, <3>1, <3>3
    <3>5. ASSUME NEW x \in 1 .. n, x > j, x < l PROVE q[x] \notin WithData(m)
      <4>1. PICK y : y = x - j
        OBVIOUS
      <4>2. y \in 1 .. n - j /\ q[x] = path[y] /\ y < i
        BY <1>5, <2>6, <3>2, <3>5, <4>1
      <4>3. ~m.elements[q[x]]
        BY <3>1, <4>2
      <4> QED BY <1>6, <4>3
    <3> QED BY <1>4, <3>1, <3>3, <3>4, <3>5
  <2> QED BY <1>3, <2>7, <2>8 DEF FirstOn
<1> QED BY <1>7, <1>8

WalkInv ==
  /\ walk.kind = "end" => SeesAll(walk.seen, walk.expected)
  /\ walk.kind = "all" =>
       /\ walk.expected = DOMAIN sources.elements
       /\ \E j : /\ AllTo(H!Listed(sources.keys), DOMAIN sources.elements, walk.seen, j)
                 /\ j # 0 /\ sources.keys.cur = H!Listed(sources.keys)[j]
  /\ walk.kind = "data" =>
       \E j : /\ DataTo(H!Listed(sources.keys), DOMAIN sources.elements, WithData(sources),
                        walk.seen, walk.expected, j)
              /\ j # 0 /\ sources.keys.cur = H!Listed(sources.keys)[j]

LEMMA MapLists ==
  ASSUME NEW m, MapSound(m), NEW q, q = H!Listed(m.keys)
  PROVE  /\ Lists(q, DOMAIN m.elements) /\ None \notin DOMAIN m.elements
         /\ m.keys.first = IF Len(q) = 0 THEN None ELSE q[1]
         /\ \A i \in 1 .. Len(q) : m.keys.listnext[q[i]] = IF i = Len(q) THEN None ELSE q[i + 1]
<1>1. MapList(m, q)
  BY MapListed
<1> QED BY <1>1 DEF MapList, Lists

LEMMA WalkQuiet ==
  ASSUME WalkInv, UNCHANGED <<sources, walk>>
  PROVE  WalkInv'
  BY DEF WalkInv, WithData

LEMMA NoWalkGoesOn ==
  ASSUME walk'.kind = "no"
  PROVE  WalkInv'
  BY DEF WalkInv

\* All sources, one by one.
LEMMA AllGoesOn ==
  ASSUME MapSound(sources), Alike(sources', sources), NEW q, q = H!Listed(sources.keys),
         NEW seen, NEW j, AllTo(q, DOMAIN sources.elements, seen, j),
         sources'.keys.cur = IF j = Len(q) THEN None ELSE q[j + 1],
         walk' = Walked(sources', "all", seen, DOMAIN sources.elements)
  PROVE  WalkInv'
<1>1. PICK S : S = DOMAIN sources.elements
  OBVIOUS
<1>2. Lists(q, S) /\ None \notin S /\ AllTo(q, S, seen, j)
  BY <1>1, MapLists
<1>3. Len(q) \in Nat /\ j \in 0 .. Len(q) /\ \A i \in 1 .. Len(q) : q[i] \in S
  BY <1>2 DEF Lists, AllTo
<1>4. H!Listed(sources'.keys) = q /\ DOMAIN sources'.elements = S
  BY <1>1 DEF Alike
<1>5. CASE j = Len(q)
  <2>1. walk'.kind = "end" /\ walk'.seen = seen /\ walk'.expected = S
    BY <1>1, <1>5 DEF Walked
  <2>2. SeesAll(seen, S)
    BY <1>2, <1>5, AllEnds
  <2> QED BY <2>1, <2>2 DEF WalkInv
<1>6. CASE j # Len(q)
  <2>1. PICK r : r = Append(seen, q[j + 1])
    OBVIOUS
  <2>2. AllTo(q, S, r, j + 1)
    BY <1>2, <1>6, <2>1, AllGrows
  <2>3. j + 1 \in 1 .. Len(q) /\ j + 1 # 0
    BY <1>3, <1>6
  <2>4. sources'.keys.cur = q[j + 1] /\ q[j + 1] # None
    BY <1>2, <1>3, <1>6, <2>3
  <2>5. walk'.kind = "all" /\ walk'.seen = r /\ walk'.expected = S
    BY <1>1, <2>1, <2>4 DEF Walked
  <2> QED BY <1>4, <2>2, <2>3, <2>4, <2>5 DEF WalkInv
<1> QED BY <1>5, <1>6

\* The sources with data, from one to the next.
LEMMA DataGoesOn ==
  ASSUME MapSound(sources), NEW m, Alike(m, sources), AtElement(m),
         NEW q, q = H!Listed(sources.keys),
         NEW seen, NEW expected, NEW j,
         DataTo(q, DOMAIN sources.elements, WithData(sources), seen, expected, j),
         m.keys.cur = IF j = Len(q) THEN None ELSE q[j + 1],
         sources' = ToData(m, sources.keys.listnext),
         walk' = Walked(sources', "data", seen, expected)
  PROVE  WalkInv'
<1>1. PICK S : S = DOMAIN sources.elements
  OBVIOUS
<1>2. PICK D1 : D1 = WithData(sources)
  OBVIOUS
<1>3. Lists(q, S) /\ None \notin S /\ DataTo(q, S, D1, seen, expected, j)
  BY <1>1, <1>2, MapLists
<1>4. Len(q) \in Nat /\ j \in 0 .. Len(q) /\ \A i \in 1 .. Len(q) : q[i] \in S
  BY <1>3 DEF Lists, DataTo
<1>5. /\ MapSound(m) /\ q = H!Listed(m.keys) /\ m.keys.listnext = sources.keys.listnext
      /\ WithData(m) = D1
  BY <1>2 DEF Alike, WithData
<1>6. PICK u : u = ToData(m, m.keys.listnext)
  OBVIOUS
<1>7. sources' = u
  BY <1>5, <1>6
<1>8. Alike(u, m)
  BY <1>5, <1>6, ToDataIs
<1>9. H!Listed(u.keys) = q /\ DOMAIN u.elements = S /\ WithData(u) = D1
  BY <1>1, <1>2, <1>5, <1>8 DEF Alike, WithData
<1>10. \/ u.keys.cur = None /\ \A i \in 1 .. Len(q) : i > j => q[i] \notin D1
       \/ \E l \in 1 .. Len(q) :
            /\ l > j /\ u.keys.cur = q[l] /\ q[l] \in D1
            /\ \A i \in 1 .. Len(q) : i > j /\ i < l => q[i] \notin D1
  BY <1>4, <1>5, <1>6, ToDataComes
<1>11. CASE u.keys.cur = None /\ \A i \in 1 .. Len(q) : i > j => q[i] \notin D1
  <2>1. walk'.kind = "end" /\ walk'.seen = seen /\ walk'.expected = expected
    BY <1>7, <1>11 DEF Walked
  <2>2. SeesAll(seen, expected)
    BY <1>3, <1>11, DataEnds
  <2> QED BY <2>1, <2>2 DEF WalkInv
<1>12. ASSUME NEW l \in 1 .. Len(q), l > j, u.keys.cur = q[l], q[l] \in D1,
              \A i \in 1 .. Len(q) : i > j /\ i < l => q[i] \notin D1
       PROVE  WalkInv'
  <2>1. PICK r : r = Append(seen, q[l])
    OBVIOUS
  <2>2. DataTo(q, S, D1, r, expected, l)
    BY <1>3, <1>12, <2>1, DataGrows
  <2>3. q[l] # None /\ l # 0
    BY <1>3, <1>4
  <2>4. walk'.kind = "data" /\ walk'.seen = r /\ walk'.expected = expected
    BY <1>7, <1>12, <2>1, <2>3 DEF Walked
  <2> QED BY <1>7, <1>9, <1>12, <2>2, <2>3, <2>4 DEF WalkInv
<1> QED BY <1>10, <1>11, <1>12

LEMMA FirstWalks ==
  ASSUME MapSound(sources), WalkInv, GotoFirstSource \/ GotoFirstSourceWithData
  PROVE  WalkInv'
<1>1. PICK m : m = H!MapGotoFirstElement(sources)
  OBVIOUS
<1>2. PICK q : q = H!Listed(sources.keys)
  OBVIOUS
<1>3. Alike(m, sources) /\ AtElement(m) /\ m.keys.cur = IF Len(q) = 0 THEN None ELSE q[1]
  BY <1>1, <1>2, MapFirst
<1>4. m.keys.cur = IF 0 = Len(q) THEN None ELSE q[0 + 1]
  BY <1>3
<1>5. PICK j : j = 0
  OBVIOUS
<1>6. m.keys.cur = IF j = Len(q) THEN None ELSE q[j + 1]
  BY <1>4, <1>5
<1>7. Lists(q, DOMAIN sources.elements)
  BY <1>2, MapLists
<1>8. PICK seen : seen = <<>>
  OBVIOUS
<1>9. Len(q) \in Nat /\ j \in 0 .. Len(q) /\ 1 .. j = {} /\ Len(seen) = 0 /\ 1 .. Len(seen) = {}
  BY <1>5, <1>7, <1>8 DEF Lists
<1>10. seen \in Seq(DOMAIN sources.elements)
  <2>1. <<>> \in Seq(DOMAIN sources.elements)
    OBVIOUS
  <2> QED BY ONLY <1>8, <2>1, Zenon
<1>11. CASE GotoFirstSource
  <2>1. sources' = m /\ walk' = Walked(sources', "all", seen, DOMAIN sources.elements)
    BY <1>1, <1>8, <1>11 DEF GotoFirstSource
  <2>2. AllTo(q, DOMAIN sources.elements, seen, j)
    BY <1>5, <1>9, <1>10 DEF AllTo
  <2> QED BY <1>2, <1>3, <1>6, <2>1, <2>2, AllGoesOn
<1>12. CASE GotoFirstSourceWithData
  <2>1. /\ sources' = ToData(m, sources.keys.listnext)
        /\ walk' = Walked(sources', "data", seen, WithData(sources))
    BY <1>1, <1>8, <1>12 DEF GotoFirstSourceWithData
  <2>2. WithData(sources) \subseteq DOMAIN sources.elements
    BY DEF WithData
  <2>3. DataTo(q, DOMAIN sources.elements, WithData(sources), seen, WithData(sources), j)
    BY <1>9, <1>10, <2>2 DEF DataTo
  <2> QED BY <1>2, <1>3, <1>6, <2>1, <2>3, DataGoesOn
<1> QED BY <1>11, <1>12

LEMMA NextWalks ==
  ASSUME MapSound(sources), AtElement(sources), WalkInv, GotoNextSource \/ GotoNextSourceWithData
  PROVE  WalkInv'
<1>1. PICK m : m = H!MapGotoNextElement(sources)
  OBVIOUS
<1>2. PICK q : q = H!Listed(sources.keys)
  OBVIOUS
<1>3. /\ Alike(m, sources) /\ AtElement(m)
      /\ m.keys.cur = IF sources.keys.cur = None THEN None ELSE sources.keys.listnext[sources.keys.cur]
  BY <1>1, MapNext
<1>4. /\ Lists(q, DOMAIN sources.elements) /\ None \notin DOMAIN sources.elements
      /\ \A i \in 1 .. Len(q) : sources.keys.listnext[q[i]] = IF i = Len(q) THEN None ELSE q[i + 1]
  BY <1>2, MapLists
<1>5. ASSUME NEW j \in 0 .. Len(q), j # 0, sources.keys.cur = q[j]
      PROVE  m.keys.cur = IF j = Len(q) THEN None ELSE q[j + 1]
  <2>1. Len(q) \in Nat /\ j \in 1 .. Len(q)
    BY <1>4, <1>5 DEF Lists
  <2>2. q[j] # None
    BY <1>4, <2>1 DEF Lists
  <2> QED BY <1>3, <1>4, <1>5, <2>1, <2>2
<1>6. CASE GotoNextSource
  <2>1. sources' = m
    BY <1>1, <1>6 DEF GotoNextSource
  <2>2. CASE walk.kind = "all"
    <3>1. /\ walk.expected = DOMAIN sources.elements
          /\ \E j : /\ AllTo(q, DOMAIN sources.elements, walk.seen, j)
                    /\ j # 0 /\ sources.keys.cur = q[j]
      BY <1>2, <2>2 DEF WalkInv
    <3>2. PICK j : AllTo(q, DOMAIN sources.elements, walk.seen, j) /\ j # 0 /\ sources.keys.cur = q[j]
      BY <3>1
    <3>3. j \in 0 .. Len(q)
      BY <3>2 DEF AllTo
    <3>4. m.keys.cur = IF j = Len(q) THEN None ELSE q[j + 1]
      BY <1>5, <3>2, <3>3
    <3>5. walk' = Walked(sources', "all", walk.seen, DOMAIN sources.elements)
      BY <1>6, <2>2, <3>1 DEF GotoNextSource
    <3> QED BY <1>2, <1>3, <2>1, <3>2, <3>4, <3>5, AllGoesOn
  <2>3. CASE walk.kind # "all"
    <3>1. walk'.kind = "no"
      BY <1>6, <2>3 DEF GotoNextSource, NoWalk
    <3> QED BY <3>1, NoWalkGoesOn
  <2> QED BY <2>2, <2>3
<1>7. CASE GotoNextSourceWithData
  <2>1. sources' = ToData(m, sources.keys.listnext)
    BY <1>1, <1>7 DEF GotoNextSourceWithData
  <2>2. CASE walk.kind = "data"
    <3>1. PICK j : /\ DataTo(q, DOMAIN sources.elements, WithData(sources), walk.seen, walk.expected, j)
                   /\ j # 0 /\ sources.keys.cur = q[j]
      BY <1>2, <2>2 DEF WalkInv
    <3>2. j \in 0 .. Len(q)
      BY <3>1 DEF DataTo
    <3>3. m.keys.cur = IF j = Len(q) THEN None ELSE q[j + 1]
      BY <1>5, <3>1, <3>2
    <3>4. walk' = Walked(sources', "data", walk.seen, walk.expected)
      BY <1>7, <2>2 DEF GotoNextSourceWithData
    <3> QED BY <1>2, <1>3, <2>1, <3>1, <3>3, <3>4, DataGoesOn
  <2>3. CASE walk.kind # "data"
    <3>1. walk'.kind = "no"
      BY <1>7, <2>3 DEF GotoNextSourceWithData, NoWalk
    <3> QED BY <3>1, NoWalkGoesOn
  <2> QED BY <2>2, <2>3
<1> QED BY <1>6, <1>7

\* Taking the data of the current source leaves the walk where it is.
LEMMA TakingWalks ==
  ASSUME MapSound(sources), WalkInv, GetNextPacket
  PROVE  WalkInv'
<1>1. PICK e : e = FALSE
  OBVIOUS
<1>2. PICK u : u = H!SetCurrentElement(sources, e)
  OBVIOUS
<1>3. sources' = u /\ walk' = walk
  BY <1>1, <1>2 DEF GetNextPacket
<1>4. /\ u.keys = sources.keys /\ DOMAIN u.elements = DOMAIN sources.elements
      /\ \A k \in DOMAIN sources.elements :
           u.elements[k] = IF k = sources.keys.cur THEN e ELSE sources.elements[k]
  BY ONLY MapSound(sources), <1>2, MapSet
<1>5. PICK q : q = H!Listed(sources.keys)
  OBVIOUS
<1>6. Lists(q, DOMAIN sources.elements)
  BY <1>5, MapLists
<1>7. CASE walk.kind = "data"
  <2>1. PICK j : /\ DataTo(q, DOMAIN sources.elements, WithData(sources), walk.seen, walk.expected, j)
                 /\ j # 0 /\ sources.keys.cur = q[j]
    BY <1>5, <1>7 DEF WalkInv
  <2>2. \A x \in DOMAIN sources.elements : x # q[j] => (x \in WithData(sources) <=> x \in WithData(u))
    <3>1. SUFFICES ASSUME NEW x \in DOMAIN sources.elements, x # q[j]
                   PROVE  x \in WithData(sources) <=> x \in WithData(u)
      OBVIOUS
    <3>2. u.elements[x] = sources.elements[x] /\ x \in DOMAIN u.elements
      BY <1>4, <2>1, <3>1
    <3> QED BY <3>2 DEF WithData
  <2>3. DataTo(q, DOMAIN sources.elements, WithData(u), walk.seen, walk.expected, j)
    BY <1>6, <2>1, <2>2, DataTaken
  <2> QED BY <1>3, <1>4, <1>5, <1>7, <2>1, <2>3 DEF WalkInv
<1>8. CASE walk.kind # "data"
  BY <1>3, <1>4, <1>8 DEF WalkInv
<1> QED BY <1>7, <1>8

LEMMA WalkStep ==
  ASSUME ControlInv, TablesInv, WalkInv, [Next]_vars
  PROVE  WalkInv'
<1>1. ASSUME UNCHANGED <<sources, walk>> PROVE WalkInv'
  BY <1>1, WalkQuiet
<1>2. ASSUME walk.kind = "no", walk' = walk PROVE WalkInv'
  BY <1>2, NoWalkGoesOn
<1>3. ASSUME walk' = NoWalk PROVE WalkInv'
  BY <1>3, NoWalkGoesOn DEF NoWalk
<1>4. ASSUME NEW size, CreateOwn(size) \/ CreateWith(size) PROVE WalkInv'
  BY <1>2, <1>4 DEF CreateOwn, CreateWith, ControlInv
<1>5. CASE MakeTransmitter
  BY <1>1, <1>5 DEF MakeTransmitter
<1>6. CASE Destroy
  BY <1>3, <1>6 DEF Destroy
<1>7. ASSUME NEW pt, NEW mark, NEW inc, NEW words, NEW len, SendPacket(pt, mark, inc, words, len)
      PROVE  WalkInv'
  BY <1>1, <1>7 DEF SendPacket
<1>8. ASSUME NEW words, NEW len, SendDefault(words, len) PROVE WalkInv'
  BY <1>1, <1>8 DEF SendDefault
<1>9. CASE Callback \/ SendRTCPInCallback
  BY <1>1, <1>9 DEF Callback, SendRTCPInCallback
<1>40. ASSUME NEW pt, NEW mark, NEW inc, NEW words, NEW len, SendInCallback(pt, mark, inc, words, len)
       PROVE  WalkInv'
  BY <1>1, <1>40 DEF SendInCallback
<1>10. CASE SendEnds \/ ConfigureBuilder \/ Destinations \/ Filter
  BY <1>1, <1>10 DEF SendEnds, ConfigureBuilder, Destinations, Filter
<1>11. ASSUME NEW size, NEW ok, SetMaximumPacketSize(size, ok) PROVE WalkInv'
  BY <1>1, <1>11 DEF SetMaximumPacketSize
<1>12. ASSUME NEW d, SetCurrentData(d) PROVE WalkInv'
  BY <1>1, <1>12 DEF SetCurrentData
<1>13. CASE Poll
  BY <1>3, <1>13 DEF Poll
<1>14. CASE ProcessPacket \/ ProcessSDES \/ BeginSweep
  BY <1>2, <1>14 DEF ProcessPacket, ProcessSDES, BeginSweep, ControlInv
<1>15. ASSUME NEW timedout, SweepNext(timedout) PROVE WalkInv'
  BY <1>2, <1>15 DEF SweepNext, ControlInv
<1>16. CASE SweepEnds
  BY <1>1, <1>16 DEF SweepEnds
<1>17. CASE GotoFirstSource \/ GotoNextSource \/ GotoFirstSourceWithData \/ GotoNextSourceWithData
            \/ GetNextPacket
  <2>1. created
    BY <1>17 DEF GotoFirstSource, GotoNextSource, GotoFirstSourceWithData, GotoNextSourceWithData,
                 GetNextPacket, Walking
  <2>2. MapSound(sources) /\ AtElement(sources)
    BY <2>1 DEF TablesInv
  <2> QED BY <1>17, <2>2, FirstWalks, NextWalks, TakingWalks
<1>18. CASE GotoPreviousSource \/ GotoPreviousSourceWithData
  BY <1>3, <1>18 DEF GotoPreviousSource, GotoPreviousSourceWithData
<1>19. ASSUME NEW s, GetSourceInfo(s) PROVE WalkInv'
  BY <1>3, <1>19 DEF GetSourceInfo
<1>20. ASSUME NEW s, SDES_GotoFirstPrivateValue(s) \/ SDES_GetNextPrivateValue(s) PROVE WalkInv'
  <2>1. AsksFor(s)
    BY <1>20 DEF SDES_GotoFirstPrivateValue, SDES_GetNextPrivateValue
  <2>2. part = "sdes" /\ walk' = walk
    BY <2>1 DEF AsksFor
  <2> QED BY <1>2, <2>2 DEF ControlInv
<1>21. CASE UNCHANGED vars
  BY <1>1, <1>21 DEF vars
<1> QED BY <1>40, <1>4, <1>5, <1>6, <1>7, <1>8, <1>9, <1>10, <1>11, <1>12, <1>13, <1>14, <1>15, <1>16, <1>17,
           <1>18, <1>19, <1>20, <1>21 DEF Next

LEMMA WalkSees ==
  ASSUME WalkInv
  PROVE  WalkSeesEverySource
  BY DEF WalkInv, WalkSeesEverySource, SeesAll

-----------------------------------------------------------------------------
(* The application's walk through the private items of a source. *)

PrivItem == [prefix : Seq(Nat), value : Seq(Nat)]

\* No prefix twice.
IsInfo(info) ==
  /\ info = [f \in {"items", "privitems", "curitem"} |-> info[f]]
  /\ info.privitems \in Seq(PrivItem)
  /\ \A i, j \in 1 .. Len(info.privitems) :
       info.privitems[i].prefix = info.privitems[j].prefix => i = j

\* The walk began when the list had neither of its first o items; it has seen
\* the others, but for the last curitem of them.
PrivTo(info, w, o) ==
  LET p == info.privitems  n == Len(p)  c == info.curitem
  IN /\ o \in 0 .. n /\ c \in 0 .. n - o
     /\ w.seen \in Seq(Seq(Nat)) /\ Len(w.seen) = n - o - c
     /\ \A k \in 1 .. n - o - c : w.seen[k] = p[o + k].prefix
     /\ \A k \in 1 .. n : k > o => p[k].prefix \in w.expected
     /\ \A x \in w.expected : \E k \in 1 .. n : k > o /\ p[k].prefix = x
     /\ w.ended => c = 0

PrivOf(known, w) ==
  /\ \A s \in DOMAIN known : IsInfo(known[s])
  /\ w.ssrc = None => w.seen = <<>> /\ ~w.ended
  /\ w.ssrc # None => w.ssrc \in DOMAIN known /\ \E o : PrivTo(known[w.ssrc], w, o)

IsPrivWalk(w) == w = [f \in {"ssrc", "seen", "expected", "ended"} |-> w[f]]

PrivInv == PrivOf(infos, privwalk) /\ IsPrivWalk(privwalk)

\* A list that keeps its prefixes, perhaps behind a new one.
LEMMA PrivKept ==
  ASSUME NEW info, NEW r, NEW d \in {0, 1}, IsInfo(info), IsInfo(r),
         Len(r.privitems) = Len(info.privitems) + d, r.curitem = info.curitem,
         \A k \in 1 .. Len(info.privitems) : r.privitems[k + d].prefix = info.privitems[k].prefix,
         NEW w, NEW o, PrivTo(info, w, o)
  PROVE  PrivTo(r, w, o + d)
<1>1. PICK n : n = Len(info.privitems)
  OBVIOUS
<1>2. PICK c : c = info.curitem
  OBVIOUS
<1>3. PICK m : m = n + d
  OBVIOUS
<1>4. PICK e : e = o + d
  OBVIOUS
<1>5. PICK x : x = n - o - c
  OBVIOUS
<1>6. /\ n \in Nat /\ o \in 0 .. n /\ c \in 0 .. n - o
      /\ w.seen \in Seq(Seq(Nat)) /\ Len(w.seen) = x
      /\ \A k \in 1 .. x : w.seen[k] = info.privitems[o + k].prefix
      /\ \A k \in 1 .. n : k > o => info.privitems[k].prefix \in w.expected
      /\ \A y \in w.expected : \E k \in 1 .. n : k > o /\ info.privitems[k].prefix = y
      /\ w.ended => c = 0
  BY <1>1, <1>2, <1>5 DEF PrivTo, IsInfo
<1>7. e \in 0 .. m /\ c \in 0 .. m - e /\ x = m - e - c
  BY <1>3, <1>4, <1>5, <1>6
<1>8. Len(r.privitems) = m /\ r.curitem = c /\ \A k \in 1 .. n : r.privitems[k + d].prefix = info.privitems[k].prefix
  BY <1>1, <1>2, <1>3
<1>9. ASSUME NEW k \in 1 .. x PROVE w.seen[k] = r.privitems[e + k].prefix
  <2>1. PICK l : l = o + k
    OBVIOUS
  <2>2. l \in 1 .. n /\ l + d = e + k
    BY <1>4, <1>5, <1>6, <2>1
  <2>3. r.privitems[l + d].prefix = info.privitems[l].prefix
    BY <1>8, <2>2
  <2> QED BY <1>6, <2>1, <2>2, <2>3
<1>10. ASSUME NEW k \in 1 .. m, k > e PROVE r.privitems[k].prefix \in w.expected
  <2>1. PICK l : l = k - d
    OBVIOUS
  <2>2. l \in 1 .. n /\ l > o /\ l + d = k
    BY <1>3, <1>4, <1>6, <1>10, <2>1
  <2>3. r.privitems[l + d].prefix = info.privitems[l].prefix
    BY <1>8, <2>2
  <2> QED BY <1>6, <2>2, <2>3
<1>11. ASSUME NEW y \in w.expected PROVE \E k \in 1 .. m : k > e /\ r.privitems[k].prefix = y
  <2>1. PICK l \in 1 .. n : l > o /\ info.privitems[l].prefix = y
    BY <1>6
  <2>2. PICK k : k = l + d
    OBVIOUS
  <2>3. k \in 1 .. m /\ k > e
    BY <1>3, <1>4, <1>6, <2>1, <2>2
  <2> QED BY <1>8, <2>1, <2>2, <2>3
<1>12. PrivTo(r, w, e)
  BY <1>6, <1>7, <1>8, <1>9, <1>10, <1>11 DEF PrivTo
<1> QED BY <1>4, <1>12

LEMMA NewIsInfo == IsInfo(NewInfo)
<1>1. NewInfo.privitems = <<>> /\ NewInfo = [f \in {"items", "privitems", "curitem"} |-> NewInfo[f]]
  BY DEF NewInfo
<1>2. Len(NewInfo.privitems) = 0
  BY <1>1
<1>3. NewInfo.privitems \in Seq(PrivItem)
  <2>1. <<>> \in Seq(PrivItem)
    OBVIOUS
  <2> QED BY ONLY <1>1, <2>1, Zenon
<1> QED BY <1>1, <1>2, <1>3 DEF IsInfo

\* What an item makes of the information about its source.
Heard(info, item) ==
  CASE item.type = "none" -> info
    [] item.type = "PRIV" -> ProcessPrivateSDESItem(info, item.prefix, item.value)
    [] OTHER -> ProcessSDESItem(info, item.type, item.data)

\* The information is still good, and a walk through it goes on.
GoesOn(info, r) == IsInfo(r) /\ \A w, o : PrivTo(info, w, o) => \E e : PrivTo(r, w, e)

LEMMA SameGoesOn ==
  ASSUME NEW info, IsInfo(info), NEW r, r = [f \in {"items", "privitems", "curitem"} |-> r[f]],
         r.privitems = info.privitems, r.curitem = info.curitem
  PROVE  GoesOn(info, r)
<1>1. IsInfo(r)
  BY DEF IsInfo
<1>2. \A w, o : PrivTo(info, w, o) => PrivTo(r, w, o)
  BY DEF PrivTo
<1> QED BY <1>1, <1>2 DEF GoesOn

LEMMA ValueGoesOn ==
  ASSUME NEW info, IsInfo(info), NEW i \in 1 .. Len(info.privitems), NEW value \in Seq(Nat),
         NEW r, r = [info EXCEPT !.privitems[i].value = value]
  PROVE  GoesOn(info, r)
<1>1. PICK p : p = info.privitems
  OBVIOUS
<1>2. PICK t : t = [p EXCEPT ![i].value = value]
  OBVIOUS
<1>3. r = [info EXCEPT !.privitems = t]
  BY <1>1, <1>2 DEF IsInfo
<1>4. r = [f \in {"items", "privitems", "curitem"} |-> r[f]] /\ r.privitems = t /\ r.curitem = info.curitem
  BY <1>3 DEF IsInfo
<1>5. p \in Seq(PrivItem) /\ Len(p) \in Nat
  BY <1>1 DEF IsInfo
<1>6. p[i] \in PrivItem
  BY <1>1, <1>5
<1>7. PICK x : x = [p[i] EXCEPT !.value = value]
  OBVIOUS
<1>8. x \in PrivItem /\ x.prefix = p[i].prefix
  BY <1>6, <1>7 DEF PrivItem
<1>9. t = [p EXCEPT ![i] = x]
  BY <1>2, <1>7
<1>10. t \in Seq(PrivItem) /\ Len(t) = Len(p)
  <2>1. PICK m : m = Len(p)
    OBVIOUS
  <2>2. p \in [1 .. m -> PrivItem] /\ m \in Nat
    BY ONLY <1>5, <2>1
  <2>3. t \in [1 .. m -> PrivItem]
    BY ONLY <1>8, <1>9, <2>2
  <2>4. PICK S : S = PrivItem
    OBVIOUS
  <2>5. t \in [1 .. m -> S]
    BY ONLY <2>3, <2>4
  <2>6. t \in Seq(S) /\ Len(t) = m
    BY ONLY <2>2, <2>5
  <2> QED BY ONLY <2>1, <2>4, <2>6
<1>11. \A k \in 1 .. Len(p) : t[k].prefix = p[k].prefix
  <2>1. \A k \in 1 .. Len(p) : t[k] = IF k = i THEN x ELSE p[k]
    BY ONLY <1>5, <1>9
  <2> QED BY ONLY <1>8, <2>1
<1>12. IsInfo(r)
  <2>1. \A k, j \in 1 .. Len(p) : p[k].prefix = p[j].prefix => k = j
    BY <1>1 DEF IsInfo
  <2>2. \A k, j \in 1 .. Len(t) : t[k].prefix = t[j].prefix => k = j
    BY ONLY <1>10, <1>11, <2>1
  <2> QED BY ONLY <1>4, <1>10, <2>2 DEF IsInfo
<1>13. ASSUME NEW w, NEW o, PrivTo(info, w, o) PROVE PrivTo(r, w, o)
  <2>1. PICK n : n = Len(p)
    OBVIOUS
  <2>2. o \in 0 .. n /\ info.curitem \in 0 .. n - o /\ n \in Nat
    BY <1>1, <1>5, <1>13, <2>1 DEF PrivTo
  <2>3. PICK d : d = 0
    OBVIOUS
  <2>4. Len(r.privitems) = Len(info.privitems) + d
    BY <1>1, <1>4, <1>5, <1>10, <2>3
  <2>5. \A k \in 1 .. Len(info.privitems) : r.privitems[k + d].prefix = info.privitems[k].prefix
    BY <1>1, <1>4, <1>5, <1>11, <2>3
  <2>6. PrivTo(r, w, o + d)
    BY <1>4, <1>12, <1>13, <2>3, <2>4, <2>5, PrivKept
  <2>7. o + d = o
    BY <2>2, <2>3
  <2> QED BY <2>6, <2>7
<1> QED BY <1>12, <1>13 DEF GoesOn

LEMMA InsertGoesOn ==
  ASSUME NEW info, IsInfo(info), NEW prefix \in Seq(Nat), NEW value \in Seq(Nat),
         \A i \in 1 .. Len(info.privitems) : info.privitems[i].prefix # prefix,
         NEW x, x = [prefix |-> prefix, value |-> value],
         NEW r, r = [info EXCEPT !.privitems = <<x>> \o @]
  PROVE  GoesOn(info, r)
<1>1. PICK p : p = info.privitems
  OBVIOUS
<1>2. PICK n : n = Len(p)
  OBVIOUS
<1>3. PICK t : t = <<x>> \o p
  OBVIOUS
<1>4. r = [f \in {"items", "privitems", "curitem"} |-> r[f]] /\ r.privitems = t /\ r.curitem = info.curitem
  BY <1>1, <1>3 DEF IsInfo
<1>5. p \in Seq(PrivItem) /\ n \in Nat
  BY <1>1, <1>2 DEF IsInfo
<1>6. x \in PrivItem /\ x.prefix = prefix
  BY DEF PrivItem
<1>7. <<x>> \in Seq(PrivItem) /\ Len(<<x>>) = 1 /\ <<x>>[1] = x
  BY <1>6
<1>8. t \in Seq(PrivItem) /\ Len(t) = n + 1 /\ t[1] = x /\ \A k \in 1 .. n : t[k + 1] = p[k]
  <2>1. PICK y : y = <<x>>
    OBVIOUS
  <2>2. y \in Seq(PrivItem) /\ Len(y) = 1 /\ y[1] = x
    BY ONLY <1>7, <2>1
  <2>3. t = y \o p
    BY <1>3, <2>1
  <2>4. /\ t \in Seq(PrivItem) /\ Len(t) = 1 + n
        /\ \A k \in 1 .. 1 + n : t[k] = IF k <= 1 THEN y[k] ELSE p[k - 1]
    <3>1. /\ t \in Seq(PrivItem) /\ Len(t) = Len(y) + Len(p)
          /\ \A k \in 1 .. Len(y) + Len(p) : t[k] = IF k <= Len(y) THEN y[k] ELSE p[k - Len(y)]
      BY ONLY <1>5, <2>2, <2>3, ConcatProperties
    <3> QED BY ONLY <1>2, <2>2, <3>1
  <2>5. t[1] = x
    <3>1. 1 \in 1 .. 1 + n
      BY <1>5
    <3> QED BY ONLY <2>2, <2>4, <3>1
  <2>6. ASSUME NEW k \in 1 .. n PROVE t[k + 1] = p[k]
    <3>1. PICK l : l = k + 1
      OBVIOUS
    <3>2. l \in 1 .. 1 + n /\ ~(l <= 1) /\ l - 1 = k
      BY ONLY <1>5, <3>1, k \in 1 .. n
    <3>3. t[l] = p[l - 1]
      BY ONLY <2>4, <3>2
    <3> QED BY <3>1, <3>2, <3>3
  <2>7. 1 + n = n + 1
    BY <1>5
  <2> QED BY <2>4, <2>5, <2>6, <2>7
<1>9. \A i \in 1 .. n : p[i].prefix # prefix
  BY <1>1, <1>2
<1>10. \A k \in 1 .. n + 1 : k = 1 \/ (k - 1 \in 1 .. n /\ t[k] = p[k - 1])
  <2>1. SUFFICES ASSUME NEW k \in 1 .. n + 1, k # 1 PROVE k - 1 \in 1 .. n /\ t[k] = p[k - 1]
    OBVIOUS
  <2>2. PICK l : l = k - 1
    OBVIOUS
  <2>3. l \in 1 .. n /\ l + 1 = k
    BY <1>5, <2>1, <2>2
  <2>4. t[l + 1] = p[l]
    BY <1>8, <2>3
  <2> QED BY <2>2, <2>3, <2>4
<1>11. ASSUME NEW i \in 1 .. n + 1, NEW j \in 1 .. n + 1, t[i].prefix = t[j].prefix PROVE i = j
  <2>1. CASE i = 1
    BY <1>6, <1>8, <1>9, <1>10, <1>11, <2>1
  <2>2. CASE j = 1
    BY <1>6, <1>8, <1>9, <1>10, <1>11, <2>2
  <2>3. CASE i # 1 /\ j # 1
    <3>1. /\ i - 1 \in 1 .. n /\ j - 1 \in 1 .. n
          /\ p[i - 1].prefix = p[j - 1].prefix
      BY <1>10, <1>11, <2>3
    <3>2. i - 1 = j - 1
      BY <1>1, <1>2, <3>1 DEF IsInfo
    <3> QED BY <1>5, <3>2
  <2> QED BY <2>1, <2>2, <2>3
<1>12. IsInfo(r)
  BY <1>4, <1>8, <1>11 DEF IsInfo
<1>13. ASSUME NEW w, NEW o, PrivTo(info, w, o) PROVE \E e : PrivTo(r, w, e)
  <2>1. PICK d : d = 1
    OBVIOUS
  <2>2. \A k \in 1 .. Len(info.privitems) : r.privitems[k + d].prefix = info.privitems[k].prefix
    BY <1>1, <1>2, <1>4, <1>8, <2>1
  <2>3. Len(r.privitems) = Len(info.privitems) + d
    BY <1>1, <1>2, <1>4, <1>8, <2>1
  <2>4. PrivTo(r, w, o + d)
    BY <1>4, <1>12, <1>13, <2>1, <2>2, <2>3, PrivKept
  <2> QED BY <2>4
<1> QED BY <1>12, <1>13 DEF GoesOn

LEMMA HeardGoesOn ==
  ASSUME NEW info, IsInfo(info), NEW item \in SDESItem(SSRC), NEW r, r = Heard(info, item)
  PROVE  GoesOn(info, r)
<1>1. item.prefix \in Seq(Nat) /\ item.value \in Seq(Nat)
  BY DEF SDESItem
<1>2. info = [f \in {"items", "privitems", "curitem"} |-> info[f]]
  BY DEF IsInfo
<1>3. GoesOn(info, info)
  BY <1>2, SameGoesOn
<1>4. CASE item.type = "none"
  BY <1>3, <1>4 DEF Heard
<1>5. CASE item.type = "PRIV"
  <2>1. PICK prefix : prefix = item.prefix
    OBVIOUS
  <2>2. PICK value : value = item.value
    OBVIOUS
  <2>3. PICK found : found = {i \in DOMAIN info.privitems : info.privitems[i].prefix = prefix}
    OBVIOUS
  <2>4. DOMAIN info.privitems = 1 .. Len(info.privitems) /\ Len(info.privitems) \in Nat
    BY DEF IsInfo
  <2>5. r = SetPrivateValue(info, prefix, value)
    BY <1>5, <2>1, <2>2 DEF Heard, ProcessPrivateSDESItem
  <2>6. CASE found # {}
    <3>1. PICK i : i = CHOOSE k \in found : \A j \in found : k <= j
      OBVIOUS
    <3>2. found \subseteq Nat
      BY <2>3, <2>4
    <3>3. \E k \in found : \A j \in found : k <= j
      BY <2>6, <3>2, HP!LeastOf
    <3>4. i \in found
      BY <3>1, <3>3
    <3>5. i \in 1 .. Len(info.privitems)
      BY <2>3, <2>4, <3>4
    <3>6. r = [info EXCEPT !.privitems[i].value = value]
      BY <2>3, <2>5, <2>6, <3>1 DEF SetPrivateValue
    <3> QED BY <1>1, <2>2, <3>5, <3>6, ValueGoesOn
  <2>7. CASE found = {} /\ Len(info.privitems) < MaxPrivItems
    <3>1. PICK x : x = [prefix |-> prefix, value |-> value]
      OBVIOUS
    <3>2. r = [info EXCEPT !.privitems = <<x>> \o @]
      BY <2>3, <2>5, <2>7, <3>1 DEF SetPrivateValue
    <3>3. \A i \in 1 .. Len(info.privitems) : info.privitems[i].prefix # prefix
      BY <2>3, <2>4, <2>7
    <3> QED BY <1>1, <2>1, <2>2, <3>1, <3>2, <3>3, InsertGoesOn
  <2>8. CASE found = {} /\ ~(Len(info.privitems) < MaxPrivItems)
    <3>1. r = info
      BY <2>3, <2>5, <2>8 DEF SetPrivateValue
    <3> QED BY <1>3, <3>1
  <2> QED BY <2>6, <2>7, <2>8
<1>6. CASE item.type # "none" /\ item.type # "PRIV"
  <2>1. r = ProcessSDESItem(info, item.type, item.data)
    BY <1>6 DEF Heard
  <2>2. r = info \/ r = [info EXCEPT !.items[item.type] = item.data]
    BY <2>1 DEF ProcessSDESItem, SetItem
  <2>3. CASE r = info
    BY <1>3, <2>3
  <2>4. CASE r = [info EXCEPT !.items[item.type] = item.data]
    <3>1. /\ r = [f \in {"items", "privitems", "curitem"} |-> r[f]]
          /\ r.privitems = info.privitems /\ r.curitem = info.curitem
      BY <1>2, <2>4
    <3> QED BY <3>1, SameGoesOn
  <2> QED BY <2>2, <2>3, <2>4
<1> QED BY <1>4, <1>5, <1>6

\* The information about a source changes, or there is one more.
LEMMA PrivChanges ==
  ASSUME NEW known, NEW w, PrivOf(known, w), NEW s, NEW more,
         more = [x \in DOMAIN known \cup {s} |-> IF x = s THEN more[s] ELSE known[x]],
         IsInfo(more[s]), s \in DOMAIN known => GoesOn(known[s], more[s])
  PROVE  PrivOf(more, w)
<1>1. DOMAIN more = DOMAIN known \cup {s} /\ \A x \in DOMAIN known : x # s => more[x] = known[x]
  <2>1. PICK v : v = more[s]
    OBVIOUS
  <2>2. more = [x \in DOMAIN known \cup {s} |-> IF x = s THEN v ELSE known[x]]
    BY <2>1
  <2> QED BY ONLY <2>2
<1>2. \A x \in DOMAIN more : IsInfo(more[x])
  BY <1>1 DEF PrivOf
<1>3. ASSUME w.ssrc # None PROVE w.ssrc \in DOMAIN more /\ \E o : PrivTo(more[w.ssrc], w, o)
  <2>1. w.ssrc \in DOMAIN known /\ \E o : PrivTo(known[w.ssrc], w, o)
    BY <1>3 DEF PrivOf
  <2>2. CASE w.ssrc = s
    BY <1>1, <2>1, <2>2 DEF GoesOn
  <2>3. CASE w.ssrc # s
    BY <1>1, <2>1, <2>3
  <2> QED BY <2>2, <2>3
<1> QED BY <1>2, <1>3 DEF PrivOf

LEMMA OneItemTells ==
  ASSUME NEW st, NEW w, PrivOf(st.infos, w), NEW item \in SDESItem(SSRC), NEW r, r = OneItem(st, item)
  PROVE  PrivOf(r.infos, w)
<1>1. CASE ~st.ok \/ item.type = "Unknown"
  <2>1. r = [st EXCEPT !.ok = FALSE]
    BY <1>1 DEF OneItem
  <2>2. r.infos = st.infos
    BY <2>1
  <2> QED BY <2>2
<1>2. CASE ~(~st.ok \/ item.type = "Unknown")
  <2>1. PICK known : known = st.infos
    OBVIOUS
  <2>2. PICK s : s = item.ssrc
    OBVIOUS
  <2>3. PICK all : all = [x \in DOMAIN known \cup {s} |-> IF x \in DOMAIN known THEN known[x] ELSE NewInfo]
    OBVIOUS
  <2>4. PICK info : info = IF s \in DOMAIN known THEN known[s] ELSE NewInfo
    OBVIOUS
  <2>5. all[s] = info
    BY <2>3, <2>4
  <2>6. PICK h : h = Heard(info, item)
    OBVIOUS
  <2>7. r.infos = [all EXCEPT ![s] = h]
    BY <1>2, <2>1, <2>2, <2>3, <2>5, <2>6 DEF OneItem, Heard
  <2>8. IsInfo(info)
    BY <2>1, <2>4, NewIsInfo DEF PrivOf
  <2>9. GoesOn(info, h)
    BY <2>6, <2>8, HeardGoesOn
  <2>10. PICK more : more = r.infos
    OBVIOUS
  <2>11. more[s] = h /\ more = [x \in DOMAIN known \cup {s} |-> IF x = s THEN h ELSE known[x]]
    BY ONLY <2>3, <2>7, <2>10
  <2>12. more = [x \in DOMAIN known \cup {s} |-> IF x = s THEN more[s] ELSE known[x]]
    BY ONLY <2>11
  <2>13. IsInfo(more[s])
    BY <2>9, <2>11 DEF GoesOn
  <2>14. s \in DOMAIN known => GoesOn(known[s], more[s])
    BY <2>4, <2>9, <2>11
  <2>15. PrivOf(known, w)
    BY <2>1
  <2> QED BY ONLY <2>10, <2>12, <2>13, <2>14, <2>15, PrivChanges
<1> QED BY <1>1, <1>2

LEMMA AfterItemsTells ==
  ASSUME NEW st, NEW w, PrivOf(st.infos, w),
         NEW items \in Seq(SDESItem(SSRC)), NEW r, r = AfterItems(st, items)
  PROVE  PrivOf(r.infos, w)
<1>1. PICK n : n = Len(items)
  OBVIOUS
<1>2. n \in Nat /\ \A i \in 1 .. n : items[i] \in SDESItem(SSRC)
  BY <1>1
<1>3. PICK f : /\ f[0] = st /\ AfterItems(st, items) = f[n]
               /\ \A i \in 1 .. n : f[i] = OneItem(f[i - 1], items[i])
  <2>1. \E x : HearsAll(x, st, items, n)
    BY ONLY <1>1, <1>2, AfterItemsIs
  <2> QED BY <2>1 DEF HearsAll
<1> DEFINE P == {i \in 0 .. n : PrivOf(f[i].infos, w)}
<1>4. 0 \in P
  BY <1>2, <1>3
<1>5. ASSUME NEW i \in 1 .. n, i - 1 \in P PROVE i \in P
  <2>1. PICK x : x = f[i - 1]
    OBVIOUS
  <2>2. PrivOf(x.infos, w)
    BY <1>5, <2>1
  <2>3. PICK y : y = f[i]
    OBVIOUS
  <2>4. y = OneItem(x, items[i]) /\ items[i] \in SDESItem(SSRC)
    BY <1>2, <1>3, <2>1, <2>3
  <2>5. PrivOf(y.infos, w)
    BY <2>2, <2>4, OneItemTells
  <2> QED BY <2>3, <2>5
<1>6. \A i \in 0 .. n : i \in P
  <2> HIDE DEF P
  <2> QED BY <1>2, <1>4, <1>5, HP!UpTo
<1>7. PrivOf(f[n].infos, w)
  BY <1>2, <1>6
<1> QED BY <1>3, <1>7

LEMMA NoPrivs ==
  ASSUME NEW known, NEW w, known = NoInfos, w = NoPrivWalk
  PROVE  PrivOf(known, w) /\ IsPrivWalk(w)
<1>1. DOMAIN known = {}
  BY DEF NoInfos
<1>2. w.ssrc = None /\ w.seen = <<>> /\ ~w.ended /\ IsPrivWalk(w)
  BY DEF NoPrivWalk, IsPrivWalk
<1> QED BY <1>1, <1>2 DEF PrivOf

LEMMA PrivForgets ==
  ASSUME PrivInv, NEW s, infos' = [x \in DOMAIN infos \ {s} |-> infos[x]],
         privwalk' = IF privwalk.ssrc = s THEN NoPrivWalk ELSE privwalk
  PROVE  PrivInv'
<1>1. /\ \A x \in DOMAIN infos : IsInfo(infos[x])
      /\ privwalk.ssrc = None => privwalk.seen = <<>> /\ ~privwalk.ended
      /\ privwalk.ssrc # None => /\ privwalk.ssrc \in DOMAIN infos
                                 /\ \E o : PrivTo(infos[privwalk.ssrc], privwalk, o)
  BY DEF PrivInv, PrivOf
<1>2. \A x \in DOMAIN infos' : IsInfo(infos'[x]) /\ x \in DOMAIN infos /\ infos'[x] = infos[x]
  BY <1>1
<1>3. CASE privwalk.ssrc = s
  <2>1. privwalk'.ssrc = None /\ privwalk'.seen = <<>> /\ ~privwalk'.ended /\ IsPrivWalk(privwalk')
    BY <1>3 DEF NoPrivWalk, IsPrivWalk
  <2> QED BY <1>2, <2>1 DEF PrivInv, PrivOf
<1>4. CASE privwalk.ssrc # s
  <2>1. privwalk' = privwalk /\ IsPrivWalk(privwalk)
    BY <1>4 DEF PrivInv
  <2>2. privwalk.ssrc \in DOMAIN infos => privwalk.ssrc \in DOMAIN infos'
    BY <1>4
  <2> QED BY <1>1, <1>2, <2>1, <2>2 DEF PrivInv, PrivOf
<1> QED BY <1>3, <1>4

LEMMA PrivFirst ==
  ASSUME PrivInv, NEW s \in SSRC, SDES_GotoFirstPrivateValue(s)
  PROVE  PrivInv'
<1>1. PICK info : info = infos[s]
  OBVIOUS
<1>2. s \in DOMAIN infos /\ IsInfo(info) /\ s # None
  BY <1>1, FakeSessionAssumption DEF SDES_GotoFirstPrivateValue, AsksFor, PrivInv, PrivOf
<1>3. PICK n : n = Len(info.privitems)
  OBVIOUS
<1>4. PICK r : r = [info EXCEPT !.curitem = n]
  OBVIOUS
<1>5. infos' = [infos EXCEPT ![s] = r]
  BY <1>1, <1>3, <1>4 DEF SDES_GotoFirstPrivateValue, GotoFirstPrivateValue
<1>6. /\ privwalk'.ssrc = s /\ privwalk'.seen = <<>> /\ ~privwalk'.ended
      /\ privwalk'.expected = PrefixesOf(info) /\ IsPrivWalk(privwalk')
  BY <1>1 DEF SDES_GotoFirstPrivateValue, IsPrivWalk
<1>7. /\ r = [f \in {"items", "privitems", "curitem"} |-> r[f]]
      /\ r.privitems = info.privitems /\ r.curitem = n
  BY <1>2, <1>4 DEF IsInfo
<1>8. IsInfo(r)
  BY <1>2, <1>7 DEF IsInfo
<1>9. n \in Nat /\ DOMAIN info.privitems = 1 .. n
  BY <1>2, <1>3 DEF IsInfo
<1>10. privwalk'.expected = {info.privitems[i].prefix : i \in 1 .. n}
  BY <1>6, <1>9 DEF PrefixesOf
<1>11. \E o : PrivTo(r, privwalk', o)
  <2>1. PICK o : o = 0
    OBVIOUS
  <2>2. o \in 0 .. n /\ n \in 0 .. n - o /\ n - o - n = 0 /\ 1 .. n - o - n = {}
    BY <1>9, <2>1
  <2>3. privwalk'.seen \in Seq(Seq(Nat))
    <3>1. <<>> \in Seq(Seq(Nat))
      OBVIOUS
    <3> QED BY ONLY <1>6, <3>1, Zenon
  <2>4. Len(privwalk'.seen) = 0
    BY <1>6
  <2>5. \A x \in privwalk'.expected : \E k \in 1 .. n : k > o /\ info.privitems[k].prefix = x
    BY <1>9, <1>10, <2>1
  <2>6. \A k \in 1 .. n : k > o => info.privitems[k].prefix \in privwalk'.expected
    BY <1>10
  <2>7. PrivTo(r, privwalk', o)
    BY <1>3, <1>6, <1>7, <2>2, <2>3, <2>4, <2>5, <2>6 DEF PrivTo
  <2> QED BY <2>7
<1>12. DOMAIN infos' = DOMAIN infos /\ infos'[s] = r /\ \A x \in DOMAIN infos : x # s => infos'[x] = infos[x]
  BY <1>2, <1>5
<1> QED BY <1>2, <1>6, <1>8, <1>11, <1>12 DEF PrivInv, PrivOf

LEMMA PrivNext ==
  ASSUME PrivInv, NEW s \in SSRC, SDES_GetNextPrivateValue(s)
  PROVE  PrivInv'
<1>1. PICK info : info = infos[s]
  OBVIOUS
<1>2. /\ s \in DOMAIN infos /\ IsInfo(info) /\ s # None /\ privwalk.ssrc = s
      /\ \E o : PrivTo(info, privwalk, o)
  BY <1>1, FakeSessionAssumption DEF SDES_GetNextPrivateValue, AsksFor, PrivInv, PrivOf
<1>3. PICK n : n = Len(info.privitems)
  OBVIOUS
<1>4. PICK c : c = info.curitem
  OBVIOUS
<1>5. PICK o : PrivTo(info, privwalk, o)
  BY <1>2
<1>6. PICK seen : seen = privwalk.seen
  OBVIOUS
<1>7. /\ o \in 0 .. n /\ c \in 0 .. n - o
      /\ seen \in Seq(Seq(Nat)) /\ Len(seen) = n - o - c
      /\ \A k \in 1 .. n - o - c : seen[k] = info.privitems[o + k].prefix
      /\ \A k \in 1 .. n : k > o => info.privitems[k].prefix \in privwalk.expected
      /\ \A x \in privwalk.expected : \E k \in 1 .. n : k > o /\ info.privitems[k].prefix = x
  BY <1>3, <1>4, <1>5, <1>6 DEF PrivTo
<1>8. n \in Nat /\ \A k \in 1 .. n : info.privitems[k] \in PrivItem
  BY <1>2, <1>3 DEF IsInfo
<1>9. /\ IsPrivWalk(privwalk) /\ ~privwalk.ended
      /\ info = [f \in {"items", "privitems", "curitem"} |-> info[f]]
  BY <1>2 DEF SDES_GetNextPrivateValue, PrivInv, IsInfo
<1>10. CASE HasNextPrivateValue(info)
  <2>1. PICK r : r = [info EXCEPT !.curitem = c - 1]
    OBVIOUS
  <2>2. infos' = [infos EXCEPT ![s] = r]
    BY <1>1, <1>4, <1>10, <2>1 DEF SDES_GetNextPrivateValue, GetNextPrivateValue
  <2>3. c > 0
    BY <1>4, <1>10 DEF HasNextPrivateValue
  <2>4. PICK m : m = n - c + 1
    OBVIOUS
  <2>5. PICK k : k = n - o - c + 1
    OBVIOUS
  <2>6. m \in 1 .. n /\ m = o + k /\ k = n - o - (c - 1) /\ c - 1 \in 0 .. n - o
    <3>1. n \in Nat /\ o \in 0 .. n /\ c \in 0 .. n - o /\ c > 0
      BY <1>7, <1>8, <2>3
    <3>2. m \in 1 .. n /\ m = o + k
      BY ONLY <2>4, <2>5, <3>1
    <3>3. k = n - o - (c - 1) /\ c - 1 \in 0 .. n - o
      BY ONLY <2>5, <3>1
    <3> QED BY ONLY <3>2, <3>3
  <2>7. PICK p : p = info.privitems[m].prefix
    OBVIOUS
  <2>8. p \in Seq(Nat)
    BY <1>8, <2>6, <2>7 DEF PrivItem
  <2>9. privwalk' = [privwalk EXCEPT !.seen = Append(@, p)]
    BY <1>1, <1>3, <1>4, <1>10, <2>4, <2>7 DEF SDES_GetNextPrivateValue, NextPrivateValue
  <2>10. PICK t : t = Append(seen, p)
    OBVIOUS
  <2>11. privwalk' = [privwalk EXCEPT !.seen = t]
    BY <1>6, <2>9, <2>10
  <2>12. /\ privwalk'.ssrc = s /\ privwalk'.ended = privwalk.ended
         /\ privwalk'.expected = privwalk.expected
         /\ privwalk'.seen = t /\ IsPrivWalk(privwalk')
    BY <1>2, <1>9, <2>11 DEF IsPrivWalk
  <2>13. /\ r = [f \in {"items", "privitems", "curitem"} |-> r[f]]
         /\ r.privitems = info.privitems /\ r.curitem = c - 1
    BY <1>9, <2>1
  <2>14. IsInfo(r)
    BY <1>2, <2>13 DEF IsInfo
  <2>15. /\ t \in Seq(Seq(Nat)) /\ Len(t) = k /\ t[k] = p
         /\ \A i \in 1 .. n - o - c : t[i] = seen[i]
    BY <1>7, <1>8, <2>5, <2>8, <2>10
  <2>16. ASSUME NEW i \in 1 .. k PROVE t[i] = info.privitems[o + i].prefix
    <3>1. CASE i = k
      BY <2>6, <2>7, <2>15, <3>1
    <3>2. CASE i # k
      <4>1. i \in 1 .. n - o - c
        BY <1>7, <1>8, <2>5, <3>2
      <4> QED BY <1>7, <2>15, <4>1
    <3> QED BY <3>1, <3>2
  <2>17. PICK b : b = c - 1
    OBVIOUS
  <2>18. k = n - o - b /\ b \in 0 .. n - o /\ r.curitem = b
    BY <2>6, <2>13, <2>17
  <2>19. PrivTo(r, privwalk', o)
    <3>1. PICK z : z = privwalk'
      OBVIOUS
    <3>2. PICK items : items = info.privitems
      OBVIOUS
    <3>3. /\ r.privitems = items /\ Len(items) = n /\ r.curitem = b
          /\ o \in 0 .. n /\ b \in 0 .. n - o
      BY <1>3, <1>7, <2>13, <2>18, <3>2
    <3>4. z.seen = t /\ ~z.ended /\ z.expected = privwalk.expected
      BY <1>9, <2>12, <3>1
    <3>5. \A i \in 1 .. k : t[i] = items[o + i].prefix
      BY <2>16, <3>2
    <3>6. /\ \A i \in 1 .. n : i > o => items[i].prefix \in z.expected
          /\ \A x \in z.expected : \E i \in 1 .. n : i > o /\ items[i].prefix = x
      BY <1>7, <3>2, <3>4
    <3>7. t \in Seq(Seq(Nat)) /\ Len(t) = n - o - b /\ k = n - o - b
      BY <2>15, <2>18
    <3>8. PrivTo(r, z, o)
      BY ONLY <3>3, <3>4, <3>5, <3>6, <3>7 DEF PrivTo
    <3> QED BY <3>1, <3>8
  <2>20. DOMAIN infos' = DOMAIN infos /\ infos'[s] = r /\ \A x \in DOMAIN infos : x # s => infos'[x] = infos[x]
    BY <1>2, <2>2
  <2> QED BY <1>2, <2>12, <2>14, <2>19, <2>20 DEF PrivInv, PrivOf
<1>11. CASE ~HasNextPrivateValue(info)
  <2>1. privwalk' = [privwalk EXCEPT !.ended = TRUE] /\ infos' = infos
    BY <1>1, <1>11 DEF SDES_GetNextPrivateValue
  <2>2. /\ privwalk'.ssrc = s /\ privwalk'.seen = privwalk.seen
        /\ privwalk'.expected = privwalk.expected /\ IsPrivWalk(privwalk')
    BY <1>2, <1>9, <2>1 DEF IsPrivWalk
  <2>3. c = 0
    BY <1>4, <1>7, <1>8, <1>11 DEF HasNextPrivateValue
  <2>4. PrivTo(info, privwalk', o)
    BY <1>4, <1>5, <2>2, <2>3 DEF PrivTo
  <2> QED BY <1>1, <1>2, <2>1, <2>2, <2>4 DEF PrivInv, PrivOf
<1> QED BY <1>10, <1>11

LEMMA PrivStep ==
  ASSUME TablesInv, PrivInv, [Next]_vars
  PROVE  PrivInv'
<1>1. ASSUME UNCHANGED <<infos, privwalk>> PROVE PrivInv'
  BY <1>1 DEF PrivInv
<1>2. ASSUME UNCHANGED described PROVE PrivInv'
  BY <1>1, <1>2 DEF described
<1>3. ASSUME NEW size, CreateOwn(size) \/ CreateWith(size) PROVE PrivInv'
  BY <1>2, <1>3 DEF CreateOwn, CreateWith
<1>4. CASE MakeTransmitter
  BY <1>2, <1>4 DEF MakeTransmitter
<1>5. CASE Destroy
  <2>1. infos' = NoInfos /\ privwalk' = NoPrivWalk
    BY <1>5 DEF Destroy
  <2> QED BY <2>1, NoPrivs DEF PrivInv
<1>6. ASSUME NEW pt, NEW mark, NEW inc, NEW words, NEW len, SendPacket(pt, mark, inc, words, len)
      PROVE  PrivInv'
  BY <1>2, <1>6 DEF SendPacket
<1>7. ASSUME NEW words, NEW len, SendDefault(words, len) PROVE PrivInv'
  BY <1>2, <1>7 DEF SendDefault
<1>8. CASE Callback \/ SendRTCPInCallback
  BY <1>2, <1>8 DEF Callback, SendRTCPInCallback
<1>40. ASSUME NEW pt, NEW mark, NEW inc, NEW words, NEW len, SendInCallback(pt, mark, inc, words, len)
       PROVE  PrivInv'
  BY <1>2, <1>40 DEF SendInCallback
<1>9. CASE SendEnds \/ ConfigureBuilder \/ Destinations \/ Filter
  BY <1>2, <1>9 DEF SendEnds, ConfigureBuilder, Destinations, Filter
<1>10. ASSUME NEW size, NEW ok, SetMaximumPacketSize(size, ok) PROVE PrivInv'
  BY <1>2, <1>10 DEF SetMaximumPacketSize
<1>11. ASSUME NEW d, SetCurrentData(d) PROVE PrivInv'
  BY <1>2, <1>11 DEF SetCurrentData
<1>12. CASE Poll \/ ProcessPacket \/ BeginSweep \/ SweepEnds
  BY <1>2, <1>12 DEF Poll, ProcessPacket, BeginSweep, SweepEnds
<1>13. CASE ProcessSDES
  <2>1. PICK d : d = Head(rawpackets)
    OBVIOUS
  <2>2. d \in SDESDatagram /\ privwalk' = privwalk
    BY <1>13, <2>1 DEF ProcessSDES
  <2>3. PICK st : st = [ok |-> TRUE, sources |-> sources, infos |-> infos]
    OBVIOUS
  <2>4. PICK items : items = Delivered(d.packet)
    OBVIOUS
  <2>5. PICK r : r = AfterItems(st, items)
    OBVIOUS
  <2>6. infos' = infos \/ infos' = r.infos
    BY <1>13, <2>1, <2>3, <2>4, <2>5 DEF ProcessSDES
  <2>7. PrivOf(st.infos, privwalk)
    BY <2>3 DEF PrivInv
  <2>8. items \in Seq(SDESItem(SSRC))
    BY <2>2, <2>4, DeliveredIsSaid
  <2>9. PrivOf(r.infos, privwalk)
    BY ONLY <2>5, <2>7, <2>8, AfterItemsTells
  <2> QED BY <2>2, <2>6, <2>9 DEF PrivInv
<1>14. ASSUME NEW timedout, SweepNext(timedout) PROVE PrivInv'
  <2>1. PICK s : s = sources.keys.cur
    OBVIOUS
  <2>2. CASE timedout
    <3>1. /\ infos' = [x \in DOMAIN infos \ {s} |-> infos[x]]
          /\ privwalk' = IF privwalk.ssrc = s THEN NoPrivWalk ELSE privwalk
      BY <1>14, <2>1, <2>2 DEF SweepNext
    <3> QED BY <3>1, PrivForgets
  <2>3. CASE ~timedout
    BY <1>2, <1>14, <2>3 DEF SweepNext
  <2> QED BY <2>2, <2>3
<1>15. CASE GotoFirstSource \/ GotoNextSource \/ GotoFirstSourceWithData \/ GotoNextSourceWithData
            \/ GetNextPacket \/ GotoPreviousSource \/ GotoPreviousSourceWithData
  BY <1>2, <1>15 DEF GotoFirstSource, GotoNextSource, GotoFirstSourceWithData, GotoNextSourceWithData,
                     GetNextPacket, GotoPreviousSource, GotoPreviousSourceWithData, OnlySources
<1>16. ASSUME NEW s, GetSourceInfo(s) PROVE PrivInv'
  BY <1>2, <1>16 DEF GetSourceInfo, OnlySources
<1>17. ASSUME NEW s \in SSRC, SDES_GotoFirstPrivateValue(s) \/ SDES_GetNextPrivateValue(s) PROVE PrivInv'
  BY <1>17, PrivFirst, PrivNext
<1>18. CASE UNCHANGED vars
  BY <1>2, <1>18 DEF vars
<1> QED BY <1>40, <1>3, <1>4, <1>5, <1>6, <1>7, <1>8, <1>9, <1>10, <1>11, <1>12, <1>13, <1>14, <1>15, <1>16, <1>17,
           <1>18 DEF Next

LEMMA PrivSees ==
  ASSUME PrivInv
  PROVE  PrivateWalkSeesAll
<1>1. CASE privwalk.ssrc = None
  <2>1. privwalk.seen = <<>> /\ ~privwalk.ended
    BY <1>1 DEF PrivInv, PrivOf
  <2>2. DOMAIN privwalk.seen = {}
    BY <2>1
  <2> QED BY <2>1, <2>2 DEF PrivateWalkSeesAll
<1>2. CASE privwalk.ssrc # None
  <2>1. PICK info : info = infos[privwalk.ssrc]
    OBVIOUS
  <2>2. IsInfo(info) /\ \E o : PrivTo(info, privwalk, o)
    BY <1>2, <2>1 DEF PrivInv, PrivOf
  <2>3. PICK o : PrivTo(info, privwalk, o)
    BY <2>2
  <2>4. PICK n : n = Len(info.privitems)
    OBVIOUS
  <2>5. PICK c : c = info.curitem
    OBVIOUS
  <2>6. PICK x : x = n - o - c
    OBVIOUS
  <2>7. /\ n \in Nat /\ o \in 0 .. n /\ c \in 0 .. n - o
        /\ privwalk.seen \in Seq(Seq(Nat)) /\ Len(privwalk.seen) = x
        /\ \A k \in 1 .. x : privwalk.seen[k] = info.privitems[o + k].prefix
        /\ \A k \in 1 .. n : k > o => info.privitems[k].prefix \in privwalk.expected
        /\ \A y \in privwalk.expected : \E k \in 1 .. n : k > o /\ info.privitems[k].prefix = y
        /\ privwalk.ended => c = 0
    BY <2>2, <2>3, <2>4, <2>5, <2>6 DEF PrivTo, IsInfo
  <2>8. DOMAIN privwalk.seen = 1 .. x /\ x \in Nat
    BY <2>6, <2>7
  <2>9. \A i, j \in 1 .. n : info.privitems[i].prefix = info.privitems[j].prefix => i = j
    BY <2>2, <2>4 DEF IsInfo
  <2>10. ASSUME NEW i \in 1 .. x, NEW j \in 1 .. x, privwalk.seen[i] = privwalk.seen[j] PROVE i = j
    <3>1. PICK a : a = o + i
      OBVIOUS
    <3>2. PICK b : b = o + j
      OBVIOUS
    <3>3. a \in 1 .. n /\ b \in 1 .. n
      BY <2>6, <2>7, <3>1, <3>2
    <3>4. info.privitems[a].prefix = info.privitems[b].prefix
      BY <2>7, <2>10, <3>1, <3>2
    <3>5. a = b
      BY <2>9, <3>3, <3>4
    <3> QED BY <2>7, <2>8, <3>1, <3>2, <3>5
  <2>11. ASSUME privwalk.ended PROVE privwalk.expected = ToSet(privwalk.seen)
    <3>1. x = n - o
      BY <2>6, <2>7, <2>11
    <3>2. ASSUME NEW y \in privwalk.expected PROVE \E k \in 1 .. x : privwalk.seen[k] = y
      <4>1. PICK k \in 1 .. n : k > o /\ info.privitems[k].prefix = y
        BY <2>7
      <4>2. PICK l : l = k - o
        OBVIOUS
      <4>3. l \in 1 .. x /\ k = o + l
        BY <2>7, <3>1, <4>1, <4>2
      <4> QED BY <2>7, <4>1, <4>3
    <3>3. ASSUME NEW k \in 1 .. x PROVE privwalk.seen[k] \in privwalk.expected
      <4>1. PICK l : l = o + k
        OBVIOUS
      <4>2. l \in 1 .. n /\ l > o
        BY <2>7, <3>1, <4>1
      <4> QED BY <2>7, <4>1, <4>2
    <3> QED BY <2>8, <3>2, <3>3 DEF ToSet
  <2> QED BY <2>8, <2>10, <2>11 DEF PrivateWalkSeesAll
<1> QED BY <1>1, <1>2

-----------------------------------------------------------------------------
(* What is known of a source, and what it said. *)

HasTexts(info) == info.items = [t \in KeptItem \cup ReplacedItem |-> info.items[t]]

Keeps(info, said) ==
  /\ IsInfo(info)
  /\ HasTexts(info) /\ Len(info.privitems) <= MaxPrivItems
  /\ FirstIsKept(info, said) /\ LastIsKept(info, said) /\ PrivateIsKept(info, said)

LEMMA NothingSaid == Keeps(NewInfo, <<>>)
<1>1. PICK info : info = NewInfo
  OBVIOUS
<1>2. PICK said : said = <<>>
  OBVIOUS
<1>3. /\ info.privitems = <<>> /\ Len(info.privitems) = 0
      /\ info.items = [t \in KeptItem \cup ReplacedItem |-> info.items[t]]
      /\ \A t \in KeptItem \cup ReplacedItem : info.items[t] = <<>>
  BY <1>1 DEF NewInfo
<1>4. DOMAIN said = {}
  BY <1>2
<1>5. \A t : Of(said, t) = {} /\ Real(said, t) = {}
  BY <1>4 DEF Of, Real
<1>6. FirstIsKept(info, said) /\ LastIsKept(info, said)
  BY <1>3, <1>5 DEF FirstIsKept, LastIsKept
<1>7. PrivateIsKept(info, said)
  <2>1. DOMAIN info.privitems = {}
    BY <1>3
  <2> QED BY <1>5, <2>1 DEF PrivateIsKept
<1>8. IsInfo(info)
  BY <1>1, NewIsInfo
<1> QED BY <1>1, <1>2, <1>3, <1>6, <1>7, <1>8, SDESInfoAssumption DEF Keeps, HasTexts

\* An item is said after n others.
Longer(said, more, item, n) ==
  /\ DOMAIN said = 1 .. n /\ DOMAIN more = 1 .. n + 1
  /\ more[n + 1] = item /\ \A i \in 1 .. n : more[i] = said[i]

LEMMA OfMore ==
  ASSUME NEW n \in Nat, NEW said, NEW more, NEW item, Longer(said, more, item, n), NEW t
  PROVE  /\ Of(said, t) \subseteq 1 .. n /\ \A i \in Of(said, t) : more[i] = said[i]
         /\ Of(more, t) = Of(said, t) \cup (IF item.type = t THEN {n + 1} ELSE {})
         /\ Real(said, t) \subseteq 1 .. n /\ \A i \in Real(said, t) : more[i] = said[i]
         /\ Real(more, t) = Real(said, t) \cup (IF item.type = t /\ item.data # <<>> THEN {n + 1} ELSE {})
<1>1. /\ DOMAIN said = 1 .. n /\ DOMAIN more = 1 .. n + 1
      /\ more[n + 1] = item /\ \A i \in 1 .. n : more[i] = said[i]
  BY DEF Longer
<1>2. 1 .. n + 1 = (1 .. n) \cup {n + 1}
  OBVIOUS
<1>3. Of(said, t) \subseteq 1 .. n /\ Real(said, t) \subseteq 1 .. n
  BY <1>1 DEF Of, Real
<1>4. Of(more, t) = Of(said, t) \cup (IF item.type = t THEN {n + 1} ELSE {})
  BY ONLY <1>1, <1>2 DEF Of
<1>5. Real(more, t) = Real(said, t) \cup (IF item.type = t /\ item.data # <<>> THEN {n + 1} ELSE {})
  BY ONLY <1>1, <1>2 DEF Of, Real
<1> QED BY <1>1, <1>3, <1>4, <1>5

\* The texts of an item that is heard.
TextsAre(h, info, item) ==
  \A t \in KeptItem \cup ReplacedItem :
    h.items[t] = IF t = item.type /\ ~(t \in KeptItem /\ info.items[t] # <<>>) THEN item.data ELSE info.items[t]

LEMMA HeardTexts ==
  ASSUME NEW info, NEW said, Keeps(info, said), NEW item, item.type # "none", NEW h, h = Heard(info, item)
  PROVE  HasTexts(h) /\ TextsAre(h, info, item)
<1>1. /\ info = [f \in {"items", "privitems", "curitem"} |-> info[f]]
      /\ info.items = [t \in KeptItem \cup ReplacedItem |-> info.items[t]]
  BY DEF Keeps, HasTexts, IsInfo
<1>2. CASE item.type = "PRIV"
  <2>1. h = SetPrivateValue(info, item.prefix, item.value)
    BY <1>2 DEF Heard, ProcessPrivateSDESItem
  <2>2. h.items = info.items
    BY <1>1, <2>1 DEF SetPrivateValue
  <2>3. item.type \notin KeptItem \cup ReplacedItem
    BY <1>2 DEF KeptItem, ReplacedItem
  <2> QED BY <1>1, <2>2, <2>3 DEF TextsAre, HasTexts
<1>3. CASE item.type # "PRIV"
  <2>1. h = ProcessSDESItem(info, item.type, item.data)
    BY <1>3 DEF Heard
  <2>2. CASE item.type \in KeptItem /\ info.items[item.type] # <<>>
    <3>1. h = info
      BY <2>1, <2>2 DEF ProcessSDESItem
    <3> QED BY <1>1, <2>2, <3>1 DEF TextsAre, HasTexts
  <2>3. CASE ~(item.type \in KeptItem /\ info.items[item.type] # <<>>)
    <3>1. h = [info EXCEPT !.items[item.type] = item.data]
      BY <2>1, <2>3 DEF ProcessSDESItem, SetItem
    <3>2. h.items = [info.items EXCEPT ![item.type] = item.data]
      BY <1>1, <3>1
    <3>3. h.items = [t \in KeptItem \cup ReplacedItem |-> IF t = item.type THEN item.data ELSE info.items[t]]
      BY <1>1, <3>2
    <3> QED BY <2>3, <3>3 DEF TextsAre, HasTexts
  <2> QED BY <2>2, <2>3
<1> QED BY <1>2, <1>3

LEMMA FirstGoesOn ==
  ASSUME NEW n \in Nat, NEW said, NEW more, NEW item, Longer(said, more, item, n),
         NEW info, NEW h, TextsAre(h, info, item), FirstIsKept(info, said)
  PROVE  FirstIsKept(h, more)
<1> SUFFICES ASSUME NEW t \in KeptItem
             PROVE  \/ Real(more, t) = {} /\ h.items[t] = <<>>
                    \/ \E i \in Real(more, t) : h.items[t] = more[i].data /\ \A j \in Real(more, t) : i <= j
  BY DEF FirstIsKept
<1>1. PICK R : R = Real(said, t)
  OBVIOUS
<1>2. PICK M : M = Real(more, t)
  OBVIOUS
<1>3. /\ R \subseteq 1 .. n /\ \A i \in R : more[i] = said[i]
      /\ M = R \cup (IF item.type = t /\ item.data # <<>> THEN {n + 1} ELSE {})
  BY <1>1, <1>2, OfMore
<1>4. \/ R = {} /\ info.items[t] = <<>>
      \/ \E i \in R : info.items[t] = said[i].data /\ \A j \in R : i <= j
  BY <1>1 DEF FirstIsKept
<1>5. h.items[t] = IF t = item.type /\ info.items[t] = <<>> THEN item.data ELSE info.items[t]
  BY DEF TextsAre
<1>6. more[n + 1] = item
  BY DEF Longer
<1>7. \A i \in R : said[i].data # <<>>
  BY <1>1 DEF Real
<1>8. CASE R = {} /\ info.items[t] = <<>>
  <2>1. CASE item.type = t /\ item.data # <<>>
    <3>1. M = {n + 1} /\ h.items[t] = item.data /\ n + 1 \in Nat
      BY <1>3, <1>5, <1>8, <2>1
    <3>2. n + 1 \in M /\ h.items[t] = more[n + 1].data /\ \A j \in M : n + 1 <= j
      BY <1>6, <3>1
    <3> QED BY <1>2, <3>2
  <2>2. CASE ~(item.type = t /\ item.data # <<>>)
    <3>1. M = {} /\ h.items[t] = <<>>
      BY <1>3, <1>5, <1>8, <2>2
    <3> QED BY <1>2, <3>1
  <2> QED BY <2>1, <2>2
<1>9. ASSUME NEW i \in R, info.items[t] = said[i].data, \A j \in R : i <= j
      PROVE  i \in M /\ h.items[t] = more[i].data /\ \A j \in M : i <= j
  <2>1. h.items[t] = info.items[t]
    BY <1>5, <1>7, <1>9
  <2>2. i \in 1 .. n /\ i <= n + 1
    BY <1>3
  <2> QED BY <1>3, <1>9, <2>1, <2>2
<1> QED BY <1>2, <1>4, <1>8, <1>9

LEMMA LastGoesOn ==
  ASSUME NEW n \in Nat, NEW said, NEW more, NEW item, Longer(said, more, item, n),
         NEW info, NEW h, TextsAre(h, info, item), LastIsKept(info, said)
  PROVE  LastIsKept(h, more)
<1> SUFFICES ASSUME NEW t \in ReplacedItem
             PROVE  \/ Of(more, t) = {} /\ h.items[t] = <<>>
                    \/ \E i \in Of(more, t) : h.items[t] = more[i].data /\ \A j \in Of(more, t) : j <= i
  BY DEF LastIsKept
<1>1. PICK R : R = Of(said, t)
  OBVIOUS
<1>2. PICK M : M = Of(more, t)
  OBVIOUS
<1>3. /\ R \subseteq 1 .. n /\ \A i \in R : more[i] = said[i]
      /\ M = R \cup (IF item.type = t THEN {n + 1} ELSE {})
  BY <1>1, <1>2, OfMore
<1>4. \/ R = {} /\ info.items[t] = <<>>
      \/ \E i \in R : info.items[t] = said[i].data /\ \A j \in R : j <= i
  BY <1>1 DEF LastIsKept
<1>5. h.items[t] = IF t = item.type THEN item.data ELSE info.items[t]
  <2>1. t \notin KeptItem
    BY DEF KeptItem, ReplacedItem
  <2> QED BY <2>1 DEF TextsAre
<1>6. more[n + 1] = item
  BY DEF Longer
<1>7. CASE item.type = t
  <2>1. n + 1 \in M /\ \A j \in M : j <= n + 1
    BY <1>3, <1>7
  <2> QED BY <1>2, <1>5, <1>6, <1>7, <2>1
<1>8. CASE item.type # t
  <2>1. M = R /\ h.items[t] = info.items[t]
    BY <1>3, <1>5, <1>8
  <2> QED BY <1>2, <1>3, <1>4, <2>1
<1> QED BY <1>7, <1>8

\* The private items q after a value for a prefix, to the items p before.
Takes(p, q, prefix, value) ==
  /\ \A i \in DOMAIN q : \/ q[i].prefix = prefix /\ q[i] = [prefix |-> prefix, value |-> value]
                         \/ q[i].prefix # prefix /\ \E j \in DOMAIN p : q[i] = p[j]
  /\ \A i \in DOMAIN p : \E j \in DOMAIN q : q[j].prefix = p[i].prefix
  /\ Len(q) \in Len(p) .. MaxPrivItems
  /\ Len(q) = MaxPrivItems \/ \E j \in DOMAIN q : q[j].prefix = prefix

LEMMA ValueTakes ==
  ASSUME NEW info, IsInfo(info), Len(info.privitems) <= MaxPrivItems, NEW prefix, NEW value,
         NEW h, h = SetPrivateValue(info, prefix, value)
  PROVE  Takes(info.privitems, h.privitems, prefix, value)
<1>1. PICK p : p = info.privitems
  OBVIOUS
<1>2. PICK n : n = Len(p)
  OBVIOUS
<1>3. /\ p \in Seq(PrivItem) /\ n \in Nat /\ n <= MaxPrivItems /\ DOMAIN p = 1 .. n
      /\ \A i \in 1 .. n : p[i] = [prefix |-> p[i].prefix, value |-> p[i].value]
      /\ \A i, j \in 1 .. n : p[i].prefix = p[j].prefix => i = j
      /\ info = [f \in {"items", "privitems", "curitem"} |-> info[f]]
  <2>1. p \in Seq(PrivItem) /\ n \in Nat /\ DOMAIN p = 1 .. n
    BY <1>1, <1>2 DEF IsInfo
  <2>2. \A i \in 1 .. n : p[i] \in PrivItem
    BY ONLY <1>2, <2>1
  <2>3. \A i \in 1 .. n : p[i] = [prefix |-> p[i].prefix, value |-> p[i].value]
    BY ONLY <2>2 DEF PrivItem
  <2> QED BY <1>1, <1>2, <2>1, <2>3 DEF IsInfo
<1>4. PICK q : q = h.privitems
  OBVIOUS
<1>5. PICK found : found = {i \in 1 .. n : p[i].prefix = prefix}
  OBVIOUS
<1>6. found = {i \in DOMAIN info.privitems : info.privitems[i].prefix = prefix}
  BY <1>1, <1>3, <1>5
<1>7. CASE found # {}
  <2>1. PICK i : i = CHOOSE k \in found : \A j \in found : k <= j
    OBVIOUS
  <2>2. found \subseteq Nat
    BY <1>5
  <2>3. \E k \in found : \A j \in found : k <= j
    BY <1>7, <2>2, HP!LeastOf
  <2>4. i \in found
    BY <2>1, <2>3
  <2>5. h = [info EXCEPT !.privitems[i].value = value]
    BY <1>6, <1>7, <2>1 DEF SetPrivateValue
  <2>6. q = [p EXCEPT ![i].value = value]
    BY <1>1, <1>3, <1>4, <2>5
  <2>7. PICK x : x = [p[i] EXCEPT !.value = value]
    OBVIOUS
  <2>8. i \in 1 .. n /\ p[i].prefix = prefix
    BY <1>5, <2>4
  <2>9. p[i] = [prefix |-> p[i].prefix, value |-> p[i].value]
    BY <1>3, <2>8
  <2>10. x.prefix = prefix /\ x = [prefix |-> prefix, value |-> value]
    BY ONLY <2>7, <2>8, <2>9
  <2>11. q = [p EXCEPT ![i] = x]
    BY <2>6, <2>7
  <2>12. p = [k \in 1 .. n |-> p[k]]
    BY ONLY <1>2, <1>3
  <2>13. q = [k \in 1 .. n |-> IF k = i THEN x ELSE p[k]]
    BY ONLY <2>11, <2>12
  <2>14. DOMAIN q = 1 .. n /\ Len(q) = n /\ \A k \in 1 .. n : q[k] = IF k = i THEN x ELSE p[k]
    BY ONLY <1>3, <2>13
  <2>15. \A k \in DOMAIN q : \/ q[k].prefix = prefix /\ q[k] = [prefix |-> prefix, value |-> value]
                             \/ q[k].prefix # prefix /\ \E j \in DOMAIN p : q[k] = p[j]
    <3> SUFFICES ASSUME NEW k \in 1 .. n
                 PROVE  \/ q[k].prefix = prefix /\ q[k] = [prefix |-> prefix, value |-> value]
                        \/ q[k].prefix # prefix /\ \E j \in DOMAIN p : q[k] = p[j]
      BY <2>14
    <3>1. CASE k = i
      BY <2>10, <2>14, <3>1
    <3>2. CASE k # i
      <4>1. q[k] = p[k] /\ p[k].prefix # prefix
        BY <1>3, <2>8, <2>14, <3>2
      <4> QED BY <1>3, <4>1
    <3> QED BY <3>1, <3>2
  <2>16. \A k \in DOMAIN p : \E j \in DOMAIN q : q[j].prefix = p[k].prefix
    BY <1>3, <2>8, <2>10, <2>14
  <2>17. \E j \in DOMAIN q : q[j].prefix = prefix
    BY <2>8, <2>10, <2>14
  <2>18. Len(q) \in Len(p) .. MaxPrivItems
    BY ONLY <1>2, <1>3, <2>14, SDESInfoAssumption
  <2>19. Takes(p, q, prefix, value)
    BY ONLY <2>15, <2>16, <2>17, <2>18 DEF Takes
  <2> QED BY ONLY <1>1, <1>4, <2>19
<1>8. CASE found = {} /\ n < MaxPrivItems
  <2>1. PICK x : x = [prefix |-> prefix, value |-> value]
    OBVIOUS
  <2>2. h = [info EXCEPT !.privitems = <<x>> \o @]
    BY <1>1, <1>2, <1>6, <1>8, <2>1 DEF SetPrivateValue
  <2>3. PICK y : y = <<x>>
    OBVIOUS
  <2>4. q = y \o p
    BY <1>1, <1>3, <1>4, <2>2, <2>3
  <2>5. PICK S : S = PrivItem \cup {x}
    OBVIOUS
  <2>6. p \in Seq(S)
    <3>1. p \in [1 .. n -> S]
      BY ONLY <1>2, <1>3, <2>5
    <3> QED BY ONLY <1>3, <3>1
  <2>7. y \in Seq(S) /\ Len(y) = 1 /\ y[1] = x
    <3>1. x \in S
      BY ONLY <2>5
    <3> QED BY ONLY <2>3, <3>1
  <2>8. /\ q \in Seq(S) /\ Len(q) = Len(y) + Len(p)
        /\ \A k \in 1 .. Len(y) + Len(p) : q[k] = IF k <= Len(y) THEN y[k] ELSE p[k - Len(y)]
    BY ONLY <2>4, <2>6, <2>7, ConcatProperties
  <2>9. Len(q) = n + 1 /\ DOMAIN q = 1 .. n + 1
    BY ONLY <1>2, <1>3, <2>7, <2>8
  <2>10. q[1] = x /\ \A k \in 1 .. n + 1 : k # 1 => k - 1 \in 1 .. n /\ q[k] = p[k - 1]
    BY ONLY <1>2, <1>3, <2>7, <2>8
  <2>11. x.prefix = prefix
    BY <2>1
  <2>12. \A k \in DOMAIN q : \/ q[k].prefix = prefix /\ q[k] = [prefix |-> prefix, value |-> value]
                             \/ q[k].prefix # prefix /\ \E j \in DOMAIN p : q[k] = p[j]
    <3> SUFFICES ASSUME NEW k \in 1 .. n + 1
                 PROVE  \/ q[k].prefix = prefix /\ q[k] = [prefix |-> prefix, value |-> value]
                        \/ q[k].prefix # prefix /\ \E j \in DOMAIN p : q[k] = p[j]
      BY <2>9
    <3>1. CASE k = 1
      BY <2>1, <2>10, <2>11, <3>1
    <3>2. CASE k # 1
      <4>1. PICK l \in 1 .. n : l = k - 1 /\ q[k] = p[l]
        BY <2>10, <3>2
      <4>2. p[l].prefix # prefix
        BY <1>5, <1>8
      <4> QED BY <1>3, <4>1, <4>2
    <3> QED BY <3>1, <3>2
  <2>13. ASSUME NEW k \in 1 .. n PROVE \E j \in 1 .. n + 1 : q[j].prefix = p[k].prefix
    <3>1. PICK j : j = k + 1
      OBVIOUS
    <3>2. j \in 1 .. n + 1 /\ j # 1 /\ j - 1 = k
      <4>1. n \in Nat
        BY <1>3
      <4> QED BY ONLY <3>1, <4>1, k \in 1 .. n
    <3>3. q[j] = p[k]
      BY ONLY <2>10, <3>2
    <3> QED BY <3>2, <3>3
  <2>14. \A k \in DOMAIN p : \E j \in DOMAIN q : q[j].prefix = p[k].prefix
    BY <1>3, <2>9, <2>13
  <2>15. \E j \in DOMAIN q : q[j].prefix = prefix
    <3>1. 1 \in 1 .. n + 1
      BY <1>3
    <3> QED BY <2>9, <2>10, <2>11, <3>1
  <2>16. n + 1 <= MaxPrivItems
    BY <1>3, <1>8, SDESInfoAssumption
  <2> QED BY <1>1, <1>2, <1>4, <2>9, <2>12, <2>14, <2>15, <2>16 DEF Takes
<1>9. CASE found = {} /\ ~(n < MaxPrivItems)
  <2>1. h = info
    BY <1>1, <1>2, <1>6, <1>9 DEF SetPrivateValue
  <2>2. q = p /\ Len(q) = MaxPrivItems
    BY <1>1, <1>2, <1>3, <1>4, <1>9, <2>1, SDESInfoAssumption
  <2>3. \A k \in 1 .. n : p[k].prefix # prefix
    BY <1>5, <1>9
  <2>4. Len(q) \in Len(p) .. MaxPrivItems
    BY ONLY <1>2, <1>3, <2>2, SDESInfoAssumption
  <2>5. Takes(p, q, prefix, value)
    BY ONLY <1>3, <2>2, <2>3, <2>4 DEF Takes
  <2> QED BY ONLY <1>1, <1>4, <2>5
<1> QED BY <1>7, <1>8, <1>9

LEMMA PrivateTakes ==
  ASSUME NEW n \in Nat, NEW said, NEW more, NEW item, Longer(said, more, item, n), item.type = "PRIV",
         NEW info, NEW h, Len(info.privitems) \in Nat, Len(info.privitems) <= MaxPrivItems, PrivateIsKept(info, said),
         Takes(info.privitems, h.privitems, item.prefix, item.value)
  PROVE  PrivateIsKept(h, more)
<1>1. PICK p : p = info.privitems
  OBVIOUS
<1>2. PICK q : q = h.privitems
  OBVIOUS
<1>3. PICK O : O = Of(said, "PRIV")
  OBVIOUS
<1>4. PICK M : M = Of(more, "PRIV")
  OBVIOUS
<1>5. /\ O \subseteq 1 .. n /\ \A i \in O : more[i] = said[i]
      /\ M = O \cup {n + 1} /\ more[n + 1] = item
  BY <1>3, <1>4, OfMore DEF Longer
<1>6. PICK prefix : prefix = item.prefix
  OBVIOUS
<1>7. PICK value : value = item.value
  OBVIOUS
<1>8. /\ \A i \in DOMAIN q : \/ q[i].prefix = prefix /\ q[i] = [prefix |-> prefix, value |-> value]
                             \/ q[i].prefix # prefix /\ \E j \in DOMAIN p : q[i] = p[j]
      /\ \A i \in DOMAIN p : \E j \in DOMAIN q : q[j].prefix = p[i].prefix
      /\ Len(q) = MaxPrivItems \/ \E j \in DOMAIN q : q[j].prefix = prefix
      /\ Len(q) \in Len(p) .. MaxPrivItems
  BY ONLY Takes(info.privitems, h.privitems, item.prefix, item.value), <1>1, <1>2, <1>6, <1>7 DEF Takes
<1>9. /\ \A i \in O : said[i].prefix \notin PrefixesOf(info) => Len(p) = MaxPrivItems
      /\ \A i \in DOMAIN p :
           \E k \in O : /\ p[i] = [prefix |-> said[k].prefix, value |-> said[k].value]
                        /\ \A j \in O : said[j].prefix = said[k].prefix => j <= k
  BY <1>1, <1>3 DEF PrivateIsKept
<1>10. PrefixesOf(info) \subseteq PrefixesOf(h)
  BY ONLY <1>1, <1>2, <1>8 DEF PrefixesOf
<1>11. (\E j \in DOMAIN q : q[j].prefix = prefix) => prefix \in PrefixesOf(h)
  BY ONLY <1>2 DEF PrefixesOf
<1>12. ASSUME NEW i \in M, more[i].prefix \notin PrefixesOf(h) PROVE Len(q) = MaxPrivItems
  <2>1. CASE i = n + 1
    BY <1>5, <1>6, <1>8, <1>11, <1>12, <2>1
  <2>2. CASE i # n + 1
    <3>1. i \in O /\ more[i] = said[i]
      BY <1>5, <2>2
    <3>2. Len(p) = MaxPrivItems
      BY <1>9, <1>10, <1>12, <3>1
    <3>3. PICK m : m = Len(q)
      OBVIOUS
    <3> QED BY ONLY <1>8, <3>2, <3>3, SDESInfoAssumption
  <2> QED BY <2>1, <2>2
<1>13. ASSUME NEW i \in DOMAIN q
       PROVE  \E k \in M : /\ q[i] = [prefix |-> more[k].prefix, value |-> more[k].value]
                           /\ \A j \in M : more[j].prefix = more[k].prefix => j <= k
  <2>1. CASE q[i].prefix = prefix /\ q[i] = [prefix |-> prefix, value |-> value]
    <3>1. \A j \in M : j <= n + 1
      BY <1>5
    <3> QED BY <1>5, <1>6, <1>7, <2>1, <3>1
  <2>2. CASE q[i].prefix # prefix /\ \E j \in DOMAIN p : q[i] = p[j]
    <3>1. PICK j \in DOMAIN p : q[i] = p[j]
      BY <2>2
    <3>2. PICK k \in O : /\ p[j] = [prefix |-> said[k].prefix, value |-> said[k].value]
                         /\ \A l \in O : said[l].prefix = said[k].prefix => l <= k
      BY <1>9
    <3>3. more[k] = said[k] /\ k \in M /\ said[k].prefix # prefix
      BY <1>5, <2>2, <3>1, <3>2
    <3>4. \A l \in M : more[l].prefix = more[k].prefix => l <= k
      BY <1>5, <1>6, <3>2, <3>3
    <3> QED BY <3>1, <3>2, <3>3, <3>4
  <2> QED BY <1>8, <2>1, <2>2
<1> QED BY ONLY <1>2, <1>4, <1>12, <1>13 DEF PrivateIsKept

LEMMA PrivateSame ==
  ASSUME NEW n \in Nat, NEW said, NEW more, NEW item, Longer(said, more, item, n), item.type # "PRIV",
         NEW info, NEW h, h.privitems = info.privitems, PrivateIsKept(info, said)
  PROVE  PrivateIsKept(h, more)
<1>1. PICK O : O = Of(said, "PRIV")
  OBVIOUS
<1>2. PICK M : M = Of(more, "PRIV")
  OBVIOUS
<1>3. M = O /\ \A i \in O : more[i] = said[i]
  <2>1. PICK t : t = "PRIV"
    OBVIOUS
  <2>2. Of(more, t) = Of(said, t) \cup (IF item.type = t THEN {n + 1} ELSE {}) /\ \A i \in Of(said, t) : more[i] = said[i]
    BY OfMore
  <2>3. item.type # t
    BY <2>1
  <2> QED BY ONLY <1>1, <1>2, <2>1, <2>2, <2>3
<1>4. PrefixesOf(h) = PrefixesOf(info)
  BY DEF PrefixesOf
<1>5. PICK P : P = PrefixesOf(info)
  OBVIOUS
<1>6. PICK p : p = info.privitems
  OBVIOUS
<1>7. /\ \A i \in O : said[i].prefix \notin P => Len(p) = MaxPrivItems
      /\ \A i \in DOMAIN p :
           \E k \in O : /\ p[i] = [prefix |-> said[k].prefix, value |-> said[k].value]
                        /\ \A j \in O : said[j].prefix = said[k].prefix => j <= k
  BY <1>1, <1>5, <1>6 DEF PrivateIsKept
<1>8. /\ \A i \in M : more[i].prefix \notin P => Len(p) = MaxPrivItems
      /\ \A i \in DOMAIN p :
           \E k \in M : /\ p[i] = [prefix |-> more[k].prefix, value |-> more[k].value]
                        /\ \A j \in M : more[j].prefix = more[k].prefix => j <= k
  BY ONLY <1>3, <1>7
<1>9. h.privitems = p /\ PrefixesOf(h) = P
  BY <1>4, <1>5, <1>6
<1> QED BY ONLY <1>2, <1>8, <1>9 DEF PrivateIsKept

\* What is known goes on, with an item more.
LEMMA KeepsOn ==
  ASSUME NEW info, NEW said \in Seq(SDESItem(SSRC)), Keeps(info, said),
         NEW item \in SDESItem(SSRC), item.type # "none", NEW h, h = Heard(info, item)
  PROVE  Keeps(h, Append(said, item))
<1>1. PICK n \in Nat : n = Len(said)
  OBVIOUS
<1>2. PICK more : more = Append(said, item)
  OBVIOUS
<1>3. Longer(said, more, item, n)
  BY <1>1, <1>2 DEF Longer
<1>4. /\ IsInfo(info) /\ Len(info.privitems) \in Nat /\ Len(info.privitems) <= MaxPrivItems
      /\ FirstIsKept(info, said) /\ LastIsKept(info, said) /\ PrivateIsKept(info, said)
  BY DEF Keeps, IsInfo
<1>5. HasTexts(h) /\ TextsAre(h, info, item)
  BY HeardTexts
<1>6. IsInfo(h)
  BY <1>4, HeardGoesOn DEF GoesOn
<1>7. FirstIsKept(h, more)
  BY <1>3, <1>4, <1>5, FirstGoesOn
<1>8. LastIsKept(h, more)
  BY <1>3, <1>4, <1>5, LastGoesOn
<1>9. CASE item.type = "PRIV"
  <2>1. h = SetPrivateValue(info, item.prefix, item.value)
    BY <1>9 DEF Heard, ProcessPrivateSDESItem
  <2>2. Takes(info.privitems, h.privitems, item.prefix, item.value)
    BY <1>4, <2>1, ValueTakes
  <2>3. PrivateIsKept(h, more)
    BY <1>3, <1>4, <1>9, <2>2, PrivateTakes
  <2>4. Len(h.privitems) <= MaxPrivItems
    <3>1. PICK m : m = Len(h.privitems)
      OBVIOUS
    <3>2. m \in Len(info.privitems) .. MaxPrivItems
      BY <2>2, <3>1 DEF Takes
    <3> QED BY <3>1, <3>2
  <2> QED BY <1>2, <1>5, <1>6, <1>7, <1>8, <2>3, <2>4 DEF Keeps
<1>10. CASE item.type # "PRIV"
  <2>1. h = ProcessSDESItem(info, item.type, item.data)
    BY <1>10 DEF Heard
  <2>2. h.privitems = info.privitems
    <3>1. info = [f \in {"items", "privitems", "curitem"} |-> info[f]]
      BY <1>4 DEF IsInfo
    <3> QED BY <2>1, <3>1 DEF ProcessSDESItem, SetItem
  <2>3. PrivateIsKept(h, more)
    BY <1>3, <1>4, <1>10, <2>2, PrivateSame
  <2> QED BY <1>2, <1>4, <1>5, <1>6, <1>7, <1>8, <2>2, <2>3 DEF Keeps
<1> QED BY <1>9, <1>10

\* What is known of the sources, and what they said.
KnownOf(known, said) ==
  /\ said \in [SSRC -> Seq(SDESItem(SSRC))] /\ DOMAIN known \subseteq SSRC
  /\ \A s \in DOMAIN known : Keeps(known[s], said[s])
  /\ \A s \in SSRC \ DOMAIN known : said[s] = <<>>

\* The two tellings of the same items: what they make of what is known, and what was said.
InStep(st, sy) ==
  /\ st = [f \in {"ok", "sources", "infos"} |-> st[f]] /\ sy = [f \in {"ok", "told"} |-> sy[f]]
  /\ st.ok = sy.ok /\ KnownOf(st.infos, sy.told)

LEMMA OneItemKnown ==
  ASSUME NEW st, NEW sy, InStep(st, sy), NEW item \in SDESItem(SSRC)
  PROVE  InStep(OneItem(st, item), Tells(sy, item))
<1>1. PICK known : known = st.infos
  OBVIOUS
<1>2. PICK said : said = sy.told
  OBVIOUS
<1>3. /\ said \in [SSRC -> Seq(SDESItem(SSRC))] /\ DOMAIN known \subseteq SSRC
      /\ \A s \in DOMAIN known : Keeps(known[s], said[s])
      /\ \A s \in SSRC \ DOMAIN known : said[s] = <<>>
  BY <1>1, <1>2 DEF InStep, KnownOf
<1>4. st = [f \in {"ok", "sources", "infos"} |-> st[f]] /\ sy = [f \in {"ok", "told"} |-> sy[f]] /\ st.ok = sy.ok
  BY DEF InStep
<1>5. PICK r : r = OneItem(st, item)
  OBVIOUS
<1>6. PICK v : v = Tells(sy, item)
  OBVIOUS
<1>7. CASE ~st.ok \/ item.type = "Unknown"
  <2>1. r = [st EXCEPT !.ok = FALSE] /\ v = [sy EXCEPT !.ok = FALSE]
    BY <1>4, <1>5, <1>6, <1>7 DEF OneItem, Tells
  <2>2. r = [f \in {"ok", "sources", "infos"} |-> r[f]] /\ r.ok = FALSE /\ r.infos = known
    BY <1>1, <1>4, <2>1
  <2>3. v = [f \in {"ok", "told"} |-> v[f]] /\ v.ok = FALSE /\ v.told = said
    BY <1>2, <1>4, <2>1
  <2> QED BY <1>3, <1>5, <1>6, <2>2, <2>3 DEF InStep, KnownOf
<1>8. CASE st.ok /\ item.type # "Unknown"
  <2>1. PICK s : s = item.ssrc
    OBVIOUS
  <2>2. s \in SSRC
    BY <2>1 DEF SDESItem
  <2>3. PICK all : all = [x \in DOMAIN known \cup {s} |-> IF x \in DOMAIN known THEN known[x] ELSE NewInfo]
    OBVIOUS
  <2>4. PICK info : info = IF s \in DOMAIN known THEN known[s] ELSE NewInfo
    OBVIOUS
  <2>5. all[s] = info
    BY <2>3, <2>4
  <2>6. PICK h : h = Heard(info, item)
    OBVIOUS
  <2>7. r = [ok |-> TRUE, sources |-> Obtained(st.sources, item.ssrc, FALSE), infos |-> [all EXCEPT ![s] = h]]
    BY <1>1, <1>5, <1>8, <2>1, <2>3, <2>5, <2>6 DEF OneItem, Heard
  <2>8. PICK more : more = r.infos
    OBVIOUS
  <2>9. /\ r = [f \in {"ok", "sources", "infos"} |-> r[f]] /\ r.ok = TRUE
        /\ more = [x \in DOMAIN known \cup {s} |-> IF x = s THEN h ELSE all[x]]
    BY <2>3, <2>7, <2>8
  <2>10. DOMAIN more = DOMAIN known \cup {s} /\ more[s] = h /\ \A x \in DOMAIN known : x # s => more[x] = known[x]
    BY <2>3, <2>9
  <2>11. Keeps(info, said[s])
    <3>1. s \notin DOMAIN known => said[s] = <<>>
      BY <1>3, <2>2
    <3> QED BY <1>3, <2>4, <3>1, NothingSaid
  <2>12. CASE item.type = "none"
    <3>1. v = sy
      BY <1>4, <1>6, <1>8, <2>12 DEF Tells
    <3>2. h = info
      BY <2>6, <2>12 DEF Heard
    <3>3. \A x \in DOMAIN more : Keeps(more[x], said[x])
      BY <1>3, <2>10, <2>11, <3>2
    <3>4. KnownOf(more, said)
      BY <1>3, <2>2, <2>10, <3>3 DEF KnownOf
    <3> QED BY <1>2, <1>4, <1>5, <1>6, <1>8, <2>8, <2>9, <3>1, <3>4 DEF InStep
  <2>13. CASE item.type # "none"
    <3>1. v = [sy EXCEPT !.told[s] = Append(@, item)]
      BY <1>4, <1>6, <1>8, <2>1, <2>13 DEF Tells
    <3>2. PICK now : now = v.told
      OBVIOUS
    <3>3. /\ v = [f \in {"ok", "told"} |-> v[f]] /\ v.ok = sy.ok
          /\ now = [said EXCEPT ![s] = Append(said[s], item)]
      BY <1>2, <1>4, <3>1, <3>2
    <3>4. said[s] \in Seq(SDESItem(SSRC))
      BY <1>3, <2>2
    <3>5. PICK longer : longer = Append(said[s], item)
      OBVIOUS
    <3>6. longer \in Seq(SDESItem(SSRC))
      BY <3>4, <3>5
    <3>7. Keeps(h, longer)
      BY <2>6, <2>11, <2>13, <3>4, <3>5, KeepsOn
    <3>8. /\ now \in [SSRC -> Seq(SDESItem(SSRC))] /\ now[s] = longer
          /\ \A x \in SSRC : x # s => now[x] = said[x]
      BY ONLY <1>3, <2>2, <3>3, <3>5, <3>6
    <3>9. \A x \in DOMAIN more : Keeps(more[x], now[x])
      <4> SUFFICES ASSUME NEW x \in DOMAIN more PROVE Keeps(more[x], now[x])
        OBVIOUS
      <4>1. CASE x = s
        BY <2>10, <3>7, <3>8, <4>1
      <4>2. CASE x # s
        BY <1>3, <2>10, <3>8, <4>2
      <4> QED BY <4>1, <4>2
    <3>10. KnownOf(more, now)
      BY <1>3, <2>2, <2>10, <3>8, <3>9 DEF KnownOf
    <3> QED BY <1>4, <1>5, <1>6, <1>8, <2>8, <2>9, <3>2, <3>3, <3>10 DEF InStep
  <2> QED BY <2>12, <2>13
<1> QED BY <1>7, <1>8

LEMMA AfterItemsKnown ==
  ASSUME NEW st, NEW sy, InStep(st, sy), NEW items \in Seq(SDESItem(SSRC))
  PROVE  InStep(AfterItems(st, items), AfterSaying(sy, items))
<1>1. PICK n : n = Len(items)
  OBVIOUS
<1>2. n \in Nat /\ \A i \in 1 .. n : items[i] \in SDESItem(SSRC)
  BY <1>1
<1>3. PICK f : /\ f[0] = st /\ AfterItems(st, items) = f[n]
               /\ \A i \in 1 .. n : f[i] = OneItem(f[i - 1], items[i])
  <2>1. \E x : HearsAll(x, st, items, n)
    BY ONLY <1>1, <1>2, AfterItemsIs
  <2> QED BY <2>1 DEF HearsAll
<1>4. PICK g : /\ g[0] = sy /\ AfterSaying(sy, items) = g[n]
               /\ \A i \in 1 .. n : g[i] = Tells(g[i - 1], items[i])
  <2>1. \E x : TellsAll(x, sy, items, n)
    BY ONLY <1>1, <1>2, AfterSayingIs
  <2> QED BY <2>1 DEF TellsAll
<1> DEFINE P == {i \in 0 .. n : InStep(f[i], g[i])}
<1>5. 0 \in P
  BY <1>2, <1>3, <1>4
<1>6. ASSUME NEW i \in 1 .. n, i - 1 \in P PROVE i \in P
  <2>1. InStep(f[i - 1], g[i - 1])
    BY <1>6
  <2>2. InStep(OneItem(f[i - 1], items[i]), Tells(g[i - 1], items[i]))
    BY <1>2, <2>1, OneItemKnown
  <2> QED BY <1>3, <1>4, <2>2
<1>7. \A i \in 0 .. n : i \in P
  <2> HIDE DEF P
  <2> QED BY <1>2, <1>5, <1>6, HP!UpTo
<1>8. InStep(f[n], g[n])
  BY <1>2, <1>7
<1> QED BY <1>3, <1>4, <1>8

KnownInv == KnownOf(infos, told)

LEMMA NoneKnown ==
  ASSUME NEW known, NEW said, known = NoInfos, said = [s \in SSRC |-> <<>>]
  PROVE  KnownOf(known, said)
<1>1. DOMAIN known = {}
  BY DEF NoInfos
<1>2. PICK S : S = SDESItem(SSRC)
  OBVIOUS
<1>3. <<>> \in Seq(S)
  OBVIOUS
<1>4. PICK e : e = <<>>
  OBVIOUS
<1>5. e \in Seq(S)
  BY ONLY <1>3, <1>4, Zenon
<1>6. said \in [SSRC -> Seq(S)] /\ \A s \in SSRC : said[s] = e
  BY ONLY <1>4, <1>5, said = [s \in SSRC |-> <<>>]
<1> QED BY ONLY <1>1, <1>2, <1>4, <1>6 DEF KnownOf

\* The application's walk moves the iterator of the items, and nothing else.
LEMMA WalkKeepsKnown ==
  ASSUME KnownInv, NEW s \in DOMAIN infos, NEW x, infos' = [infos EXCEPT ![s].curitem = x], UNCHANGED told
  PROVE  KnownInv'
<1>1. PICK known : known = infos
  OBVIOUS
<1>2. PICK now : now = infos'
  OBVIOUS
<1>3. PICK said : said = told
  OBVIOUS
<1>4. PICK info : info = known[s]
  OBVIOUS
<1>5. PICK r : r = [info EXCEPT !.curitem = x]
  OBVIOUS
<1>6. /\ said \in [SSRC -> Seq(SDESItem(SSRC))] /\ DOMAIN known \subseteq SSRC
      /\ \A y \in DOMAIN known : Keeps(known[y], said[y])
      /\ \A y \in SSRC \ DOMAIN known : said[y] = <<>>
  BY <1>1, <1>3 DEF KnownInv, KnownOf
<1>7. now = [known EXCEPT ![s] = r]
  BY <1>1, <1>2, <1>4, <1>5
<1>8. DOMAIN now = DOMAIN known /\ now[s] = r /\ \A y \in DOMAIN known : y # s => now[y] = known[y]
  BY ONLY s \in DOMAIN infos, <1>1, <1>7
<1>9. Keeps(info, said[s])
  BY <1>1, <1>4, <1>6
<1>10. info = [f \in {"items", "privitems", "curitem"} |-> info[f]]
  BY <1>9 DEF Keeps, IsInfo
<1>11. /\ r = [f \in {"items", "privitems", "curitem"} |-> r[f]]
       /\ r.items = info.items /\ r.privitems = info.privitems
  BY ONLY <1>5, <1>10
<1>12. IsInfo(r)
  BY <1>9, <1>11 DEF Keeps, IsInfo
<1>13. Keeps(r, said[s])
  <2>1. FirstIsKept(r, said[s]) /\ LastIsKept(r, said[s])
    BY <1>9, <1>11 DEF Keeps, FirstIsKept, LastIsKept
  <2>2. PrivateIsKept(r, said[s])
    <3>1. PrefixesOf(r) = PrefixesOf(info)
      BY <1>11 DEF PrefixesOf
    <3> QED BY <1>9, <1>11, <3>1 DEF Keeps, PrivateIsKept
  <2> QED BY <1>9, <1>11, <1>12, <2>1, <2>2 DEF Keeps, HasTexts
<1>14. \A y \in DOMAIN now : Keeps(now[y], said[y])
  BY <1>6, <1>8, <1>13
<1>15. KnownOf(now, said)
  BY <1>6, <1>8, <1>14 DEF KnownOf
<1> QED BY <1>2, <1>3, <1>15 DEF KnownInv

\* A source that timed out is forgotten, with what it said.
LEMMA ForgetKeepsKnown ==
  ASSUME KnownInv, NEW s, infos' = [x \in DOMAIN infos \ {s} |-> infos[x]], told' = [told EXCEPT ![s] = <<>>]
  PROVE  KnownInv'
<1>1. /\ told \in [SSRC -> Seq(SDESItem(SSRC))] /\ DOMAIN infos \subseteq SSRC
      /\ \A y \in DOMAIN infos : Keeps(infos[y], told[y])
      /\ \A y \in SSRC \ DOMAIN infos : told[y] = <<>>
  BY DEF KnownInv, KnownOf
<1>2. PICK S : S = Seq(SDESItem(SSRC))
  OBVIOUS
<1>3. PICK e : e = <<>>
  OBVIOUS
<1>4. e \in S
  <2>1. <<>> \in Seq(SDESItem(SSRC))
    OBVIOUS
  <2> QED BY ONLY <1>2, <1>3, <2>1, Zenon
<1>5. PICK said : said = told'
  OBVIOUS
<1>6. said = [told EXCEPT ![s] = e]
  BY <1>3, <1>5
<1>7. told \in [SSRC -> S]
  BY <1>1, <1>2
<1>8. said \in [SSRC -> S] /\ \A y \in SSRC : said[y] = IF y = s THEN e ELSE told[y]
  BY ONLY <1>4, <1>6, <1>7
<1>9. DOMAIN infos' = DOMAIN infos \ {s} /\ \A y \in DOMAIN infos' : infos'[y] = infos[y]
  OBVIOUS
<1>10. \A y \in DOMAIN infos' : Keeps(infos'[y], said[y])
  BY <1>1, <1>8, <1>9
<1>11. \A y \in SSRC \ DOMAIN infos' : said[y] = e
  BY <1>1, <1>3, <1>8, <1>9
<1>12. KnownOf(infos', said)
  BY <1>1, <1>2, <1>3, <1>8, <1>9, <1>10, <1>11 DEF KnownOf
<1> QED BY <1>5, <1>12 DEF KnownInv

\* What a datagram tells.
LEMMA HearKeepsKnown ==
  ASSUME KnownInv, ProcessSDES
  PROVE  KnownInv'
<1>1. PICK d : d = Head(rawpackets)
  OBVIOUS
<1>2. d \in SDESDatagram
  BY <1>1 DEF ProcessSDES
<1>3. PICK items : items = Said(d.chunks)
  OBVIOUS
<1>4. Delivered(d.packet) = items /\ items \in Seq(SDESItem(SSRC))
  BY <1>2, <1>3, DeliveredIsSaid
<1>5. PICK st : st = [ok |-> TRUE, sources |-> sources, infos |-> infos]
  OBVIOUS
<1>6. PICK sy : sy = [ok |-> TRUE, told |-> told]
  OBVIOUS
<1>7. InStep(st, sy)
  <2>1. st = [f \in {"ok", "sources", "infos"} |-> st[f]] /\ st.ok = TRUE /\ st.infos = infos
    BY ONLY <1>5
  <2>2. sy = [f \in {"ok", "told"} |-> sy[f]] /\ sy.ok = TRUE /\ sy.told = told
    BY ONLY <1>6
  <2> QED BY <2>1, <2>2 DEF InStep, KnownInv
<1>8. PICK a : a = AfterItems(st, items)
  OBVIOUS
<1>9. PICK b : b = AfterSaying(sy, items)
  OBVIOUS
<1>10. InStep(a, b)
  BY ONLY <1>4, <1>7, <1>8, <1>9, AfterItemsKnown
<1>11. KnownOf(a.infos, b.told)
  BY <1>10 DEF InStep
<1>12. UNCHANGED <<infos, told>> \/ (infos' = a.infos /\ told' = b.told)
  BY <1>1, <1>3, <1>4, <1>5, <1>6, <1>8, <1>9 DEF ProcessSDES
<1> QED BY <1>11, <1>12 DEF KnownInv

LEMMA KnownStep ==
  ASSUME KnownInv, [Next]_vars
  PROVE  KnownInv'
<1>1. ASSUME UNCHANGED <<infos, told>> PROVE KnownInv'
  BY <1>1 DEF KnownInv
<1>2. ASSUME UNCHANGED described PROVE KnownInv'
  BY <1>1, <1>2 DEF described
<1>3. ASSUME NEW size, CreateOwn(size) \/ CreateWith(size) PROVE KnownInv'
  BY <1>2, <1>3 DEF CreateOwn, CreateWith
<1>4. CASE MakeTransmitter
  BY <1>2, <1>4 DEF MakeTransmitter
<1>5. CASE Destroy
  <2>1. infos' = NoInfos /\ told' = [s \in SSRC |-> <<>>]
    BY <1>5 DEF Destroy
  <2> QED BY <2>1, NoneKnown DEF KnownInv
<1>6. ASSUME NEW pt, NEW mark, NEW inc, NEW words, NEW len, SendPacket(pt, mark, inc, words, len)
      PROVE  KnownInv'
  BY <1>2, <1>6 DEF SendPacket
<1>7. ASSUME NEW words, NEW len, SendDefault(words, len) PROVE KnownInv'
  BY <1>2, <1>7 DEF SendDefault
<1>8. CASE Callback \/ SendRTCPInCallback
  BY <1>2, <1>8 DEF Callback, SendRTCPInCallback
<1>40. ASSUME NEW pt, NEW mark, NEW inc, NEW words, NEW len, SendInCallback(pt, mark, inc, words, len)
       PROVE  KnownInv'
  BY <1>2, <1>40 DEF SendInCallback
<1>9. CASE SendEnds \/ ConfigureBuilder \/ Destinations \/ Filter
  BY <1>2, <1>9 DEF SendEnds, ConfigureBuilder, Destinations, Filter
<1>10. ASSUME NEW size, NEW ok, SetMaximumPacketSize(size, ok) PROVE KnownInv'
  BY <1>2, <1>10 DEF SetMaximumPacketSize
<1>11. ASSUME NEW d, SetCurrentData(d) PROVE KnownInv'
  BY <1>2, <1>11 DEF SetCurrentData
<1>12. CASE Poll \/ ProcessPacket \/ BeginSweep \/ SweepEnds
  BY <1>2, <1>12 DEF Poll, ProcessPacket, BeginSweep, SweepEnds
<1>13. CASE ProcessSDES
  BY <1>13, HearKeepsKnown
<1>14. ASSUME NEW timedout, SweepNext(timedout) PROVE KnownInv'
  <2>1. PICK s : s = sources.keys.cur
    OBVIOUS
  <2>2. CASE timedout
    <3>1. infos' = [x \in DOMAIN infos \ {s} |-> infos[x]] /\ told' = [told EXCEPT ![s] = <<>>]
      BY <1>14, <2>1, <2>2 DEF SweepNext
    <3> QED BY <3>1, ForgetKeepsKnown
  <2>3. CASE ~timedout
    BY <1>2, <1>14, <2>3 DEF SweepNext
  <2> QED BY <2>2, <2>3
<1>15. CASE GotoFirstSource \/ GotoNextSource \/ GotoFirstSourceWithData \/ GotoNextSourceWithData
            \/ GetNextPacket \/ GotoPreviousSource \/ GotoPreviousSourceWithData
  BY <1>2, <1>15 DEF GotoFirstSource, GotoNextSource, GotoFirstSourceWithData, GotoNextSourceWithData,
                     GetNextPacket, GotoPreviousSource, GotoPreviousSourceWithData, OnlySources
<1>16. ASSUME NEW s, GetSourceInfo(s) PROVE KnownInv'
  BY <1>2, <1>16 DEF GetSourceInfo, OnlySources
<1>17. ASSUME NEW s \in SSRC, SDES_GotoFirstPrivateValue(s) PROVE KnownInv'
  <2>1. s \in DOMAIN infos /\ UNCHANGED told
    BY <1>17 DEF SDES_GotoFirstPrivateValue, AsksFor
  <2>2. infos' = [infos EXCEPT ![s].curitem = Len(infos[s].privitems)]
    BY <1>17, <2>1 DEF SDES_GotoFirstPrivateValue, GotoFirstPrivateValue
  <2> QED BY <2>1, <2>2, WalkKeepsKnown
<1>18. ASSUME NEW s \in SSRC, SDES_GetNextPrivateValue(s) PROVE KnownInv'
  <2>1. s \in DOMAIN infos /\ UNCHANGED told
    BY <1>18 DEF SDES_GetNextPrivateValue, AsksFor
  <2>2. UNCHANGED infos \/ infos' = [infos EXCEPT ![s].curitem = infos[s].curitem - 1]
    BY <1>18, <2>1 DEF SDES_GetNextPrivateValue, GetNextPrivateValue
  <2> QED BY <1>1, <2>1, <2>2, WalkKeepsKnown
<1>19. CASE UNCHANGED vars
  BY <1>2, <1>19 DEF vars
<1> QED BY <1>40, <1>3, <1>4, <1>5, <1>6, <1>7, <1>8, <1>9, <1>10, <1>11, <1>12, <1>13, <1>14, <1>15, <1>16, <1>17,
           <1>18, <1>19 DEF Next

LEMMA KnownIs ==
  ASSUME KnownInv
  PROVE  KnownIsSaid
<1>1. DOMAIN infos \subseteq SSRC
  BY DEF KnownInv, KnownOf
<1>2. ASSUME NEW s \in DOMAIN infos
      PROVE  /\ FirstIsKept(infos[s], told[s]) /\ LastIsKept(infos[s], told[s]) /\ PrivateIsKept(infos[s], told[s])
             /\ \A i, j \in DOMAIN infos[s].privitems :
                  infos[s].privitems[i].prefix = infos[s].privitems[j].prefix => i = j
  <2>1. PICK info : info = infos[s]
    OBVIOUS
  <2>2. Keeps(info, told[s])
    BY <2>1 DEF KnownInv, KnownOf
  <2>3. /\ info.privitems \in Seq(PrivItem)
        /\ \A i, j \in 1 .. Len(info.privitems) : info.privitems[i].prefix = info.privitems[j].prefix => i = j
    BY <2>2 DEF Keeps, IsInfo
  <2>4. DOMAIN info.privitems = 1 .. Len(info.privitems)
    BY <2>3
  <2> QED BY <2>1, <2>2, <2>3, <2>4 DEF Keeps
<1> QED BY <1>1, <1>2 DEF KnownIsSaid

-----------------------------------------------------------------------------
(* The theorems. *)

LEMMA TablesAreWhole ==
  ASSUME LoopInv, TablesInv
  PROVE  TablesServe
<1>1. H!Whole(acceptignore.keys) /\ H!Whole(sources.keys)
  BY MapWhole DEF TablesInv
<1>2. created => sources.keys.cur \in H!Elements(sources.keys) \cup {None}
  BY DEF TablesInv, AtElement
<1> QED BY <1>1, <1>2, LoopServes DEF TablesServe, TablesWhole

LEMMA NothingLeftIs ==
  ASSUME CreateInv, TablesInv
  PROVE  CreateCanBeRetried
<1> SUFFICES ASSUME ~created PROVE CanBeInitialised
  BY DEF CreateCanBeRetried
<1>1. ~builder.init /\ DOMAIN sources.elements = {} /\ rtcpmax = 0
  BY DEF CreateInv, NothingLeft
<1>2. HostIndex(OwnSSRC) \in HP!Bucket
  BY KeysAre, HostIndexIs
<1>3. HP!HasElement(sources.keys, OwnSSRC) <=> OwnSSRC \in HP!Elements(sources.keys)
  BY <1>2, HP!SearchIs DEF TablesInv, MapSound
<1>4. HP!Elements(sources.keys) = {}
  BY <1>1, HostTables DEF TablesInv, MapSound
<1>5. ~H!MapHasElement(sources, OwnSSRC)
  BY <1>3, <1>4, HostTables DEF H!MapHasElement
<1> QED BY <1>1, <1>5 DEF CanBeInitialised

SessionInv ==
  /\ ControlInv /\ LoopInv /\ CreateInv /\ TablesInv /\ PacketInv
  /\ WalkInv /\ PrivInv /\ KnownInv

LEMMA SessionStarts ==
  ASSUME Init
  PROVE  SessionInv
<1> USE DEF Init, TransInit
<1>1. ControlInv
  BY DEF ControlInv, NoWalk
<1>2. LoopInv
  BY DestinationsEmpty DEF LoopInv
<1>3. CreateInv
  BY MapEmpty DEF CreateInv, NothingLeft, NewBuilder
<1>4. TablesInv
  <2>1. <<>> \in Seq(Incoming)
    OBVIOUS
  <2>2. rawpackets \in Seq(Incoming)
    BY <2>1, Zenon
  <2> QED BY <2>2, MapEmpty DEF TablesInv
<1>5. PacketInv
  BY NewIsBuilder DEF PacketInv, SizesAgree, NumbersFollow, PacketsGoOut
<1>6. WalkInv
  BY DEF WalkInv, NoWalk
<1>7. PrivInv
  BY NoPrivs DEF PrivInv
<1>8. KnownInv
  BY NoneKnown DEF KnownInv
<1> QED BY <1>1, <1>2, <1>3, <1>4, <1>5, <1>6, <1>7, <1>8 DEF SessionInv

LEMMA SessionGoesOn ==
  ASSUME SessionInv, [Next]_vars
  PROVE  SessionInv'
  BY ControlStep, LoopStep, CreateStep, TablesStep, PacketStep, WalkStep, PrivStep, KnownStep DEF SessionInv

LEMMA SessionIs == Spec => []SessionInv
<1>1. Init => SessionInv
  BY SessionStarts
<1>2. SessionInv /\ [Next]_vars => SessionInv'
  BY SessionGoesOn
<1> QED BY <1>1, <1>2, PTL DEF Spec

THEOREM TablesAlwaysServe == Spec => []TablesServe
<1>1. SessionInv => TablesServe
  BY TablesAreWhole DEF SessionInv
<1> QED BY <1>1, SessionIs, PTL

THEOREM CreateCanAlwaysBeRetried == Spec => []CreateCanBeRetried
<1>1. SessionInv => CreateCanBeRetried
  BY NothingLeftIs DEF SessionInv
<1> QED BY <1>1, SessionIs, PTL

THEOREM PacketsAlwaysGoOut == Spec => []PacketsGoOut
<1>1. SessionInv => PacketsGoOut
  BY DEF SessionInv, PacketInv
<1> QED BY <1>1, SessionIs, PTL

\* A walk through the sources, or through those with data, comes to each once,
\* though GetNextPacket takes their data on the way, and a walk through the
\* private items of a source to each that was there when it began, though the
\* packets that Poll hears add, change and forget items between its calls.
THEOREM WalksAlwaysSeeAll == Spec => []WalksSeeAll
<1>1. SessionInv => WalksSeeAll
  BY WalkSees, PrivSees DEF SessionInv, WalksSeeAll
<1> QED BY <1>1, SessionIs, PTL

\* What the session knows of a source is what the source said since it is known:
\* over all packets, also those that end Poll in the middle, and though a
\* time-out forgets the source between two of them.
THEOREM KnownIsAlwaysSaid == Spec => []KnownIsSaid
<1>1. SessionInv => KnownIsSaid
  BY KnownIs DEF SessionInv
<1> QED BY <1>1, SessionIs, PTL

=============================================================================
