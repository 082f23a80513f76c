---------------------------- MODULE RTPSourcesProofs ----------------------------
(***************************************************************************)
(* What RTPSources promises of the source table, for any number of         *)
(* participants, addresses and packets, and any delays: the counters and   *)
(* the announcements agree with the list, and a source belongs to a host.  *)
(***************************************************************************)
EXTENDS RTPSources, FiniteSetTheorems, TLAPS

-----------------------------------------------------------------------------
(* Tables and sources, as far as their fields matter. *)

SourceFields == {"rtp", "rtcp", "own", "csrc", "validated", "sender", "bye", "cname", "note", "data",
                 "probation", "queue", "heard", "heardRTP", "byeAge", "noteAge"}
TableFields == {"listed", "src", "total", "senders", "active", "announced", "owncollision", "ok"}

IsSource(x) ==
  /\ x = [f \in SourceFields |-> x[f]]
  /\ {x.own, x.validated, x.sender, x.bye, x.note} \subseteq BOOLEAN

\* Of what is not listed nothing is left.
IsTable(T) ==
  /\ T = [f \in TableFields |-> T[f]]
  /\ T.src = [s \in SSRC |-> T.src[s]]
  /\ \A s \in SSRC : IsSource(T.src[s])
  /\ T.listed \subseteq SSRC /\ IsFiniteSet(T.listed)
  /\ \A s \in SSRC \ T.listed : T.src[s] = NewSource

SendersOf(T) == {s \in T.listed : T.src[s].sender}
ActiveOf(T) == {s \in T.listed : IsActive(T.src[s])}

Counts(T) ==
  /\ T.total = Cardinality(T.listed)
  /\ T.senders = Cardinality(SendersOf(T))
  /\ T.active \in Int /\ T.active <= Cardinality(ActiveOf(T))
  /\ T.announced = T.listed

LEMMA NewIsSource == IsSource(NewSource) /\ ~NewSource.sender /\ ~IsActive(NewSource) /\ ~NewSource.own
  BY DEF IsSource, NewSource, SourceFields, IsActive

One(b) == IF b THEN 1 ELSE 0

\* Two finite sets that differ in one element at most.
LEMMA CountOne ==
  ASSUME NEW A, NEW B, NEW s, IsFiniteSet(A), A \ {s} = B \ {s}
  PROVE  /\ IsFiniteSet(B)
         /\ Cardinality(A) \in Nat /\ Cardinality(B) \in Nat
         /\ Cardinality(B) = Cardinality(A) + One(s \in B) - One(s \in A)
<1> DEFINE C == A \ {s}
<1>1. IsFiniteSet(C) /\ Cardinality(C) \in Nat
  BY FS_RemoveElement, FS_CardinalityType
<1>2. s \notin C
  OBVIOUS
<1>3. IsFiniteSet(C \cup {s}) /\ Cardinality(C \cup {s}) = Cardinality(C) + 1
  BY <1>1, <1>2, FS_AddElement
<1>4. ASSUME NEW D, D \ {s} = C
      PROVE  IsFiniteSet(D) /\ Cardinality(D) = Cardinality(C) + One(s \in D)
  <2>1. CASE s \in D
    <3>1. D = C \cup {s}
      BY <1>4, <2>1
    <3> HIDE DEF C
    <3>2. IsFiniteSet(D) /\ Cardinality(D) = Cardinality(C) + 1
      BY <1>3, <3>1
    <3> QED BY <2>1, <3>2 DEF One
  <2>2. CASE s \notin D
    <3>1. D = C
      BY <1>4, <2>2
    <3> HIDE DEF C
    <3>2. IsFiniteSet(D) /\ Cardinality(D) = Cardinality(C) + 0
      BY <1>1, <3>1
    <3> QED BY <2>2, <3>2 DEF One
  <2> QED BY <2>1, <2>2
<1>5. A \ {s} = C /\ B \ {s} = C
  OBVIOUS
<1>6. One(s \in A) \in Nat /\ One(s \in B) \in Nat
  BY DEF One
<1> HIDE DEF C
<1>7. Cardinality(A) = Cardinality(C) + One(s \in A)
  BY <1>4, <1>5
<1>8. IsFiniteSet(B) /\ Cardinality(B) = Cardinality(C) + One(s \in B)
  BY <1>4, <1>5
<1> QED BY <1>1, <1>6, <1>7, <1>8

\* Source s of table T becomes y, and the counters follow; "active" may fall
\* behind.
Becomes(T, U, s, y) ==
  /\ U = [f \in TableFields |-> U[f]]
  /\ U.listed = T.listed \cup {s}
  /\ U.src = [T.src EXCEPT ![s] = y]
  /\ U.total = (IF s \in T.listed THEN T.total ELSE T.total + 1)
  /\ U.senders = T.senders + One(y.sender /\ ~T.src[s].sender)
  /\ U.active \in Int /\ U.active <= T.active + One(IsActive(y)) - One(IsActive(T.src[s]))
  /\ U.announced = U.listed

LEMMA BecomesCounted ==
  ASSUME NEW T, NEW U, NEW s \in SSRC, NEW y,
         IsTable(T), Counts(T), IsSource(y), T.src[s].sender => y.sender, Becomes(T, U, s, y)
  PROVE  IsTable(U) /\ Counts(U)
<1>0. /\ \A u \in SSRC : U.src[u] = IF u = s THEN y ELSE T.src[u]
      /\ U.src = [u \in SSRC |-> U.src[u]]
  BY DEF Becomes, IsTable
<1>1. IsFiniteSet(U.listed) /\ U.total = Cardinality(U.listed)
  <2>1. T.listed \ {s} = U.listed \ {s} /\ s \in U.listed
    BY DEF Becomes
  <2>2. /\ IsFiniteSet(U.listed)
        /\ Cardinality(T.listed) \in Nat
        /\ Cardinality(U.listed) = Cardinality(T.listed) + One(s \in U.listed) - One(s \in T.listed)
    <3>1. IsFiniteSet(T.listed)
      BY DEF IsTable
    <3> QED BY <2>1, <3>1, CountOne
  <2> QED BY <2>1, <2>2 DEF Becomes, Counts, One
<1>2. IsTable(U)
  <2>1. \A u \in SSRC : IsSource(U.src[u])
    BY <1>0 DEF IsTable
  <2>2. \A u \in SSRC \ U.listed : U.src[u] = NewSource
    BY <1>0 DEF IsTable, Becomes
  <2>3. U.listed \subseteq SSRC /\ U = [f \in TableFields |-> U[f]]
    BY DEF IsTable, Becomes
  <2> QED BY <1>0, <1>1, <2>1, <2>2, <2>3 DEF IsTable
<1>3. U.senders = Cardinality(SendersOf(U))
  <2>1. SendersOf(T) \ {s} = SendersOf(U) \ {s}
    BY <1>0 DEF SendersOf, Becomes, IsTable
  <2>2. (s \in SendersOf(T) <=> T.src[s].sender) /\ (s \in SendersOf(U) <=> y.sender)
    BY <1>0, NewIsSource DEF SendersOf, Becomes, IsTable
  <2>3. IsFiniteSet(SendersOf(T))
    BY FS_Subset DEF SendersOf, IsTable
  <2>4. /\ Cardinality(SendersOf(T)) \in Nat
        /\ Cardinality(SendersOf(U)) = Cardinality(SendersOf(T)) + One(s \in SendersOf(U)) - One(s \in SendersOf(T))
    BY <2>1, <2>3, CountOne
  <2> QED BY <2>2, <2>4 DEF Becomes, Counts, One
<1>4. U.active <= Cardinality(ActiveOf(U))
  <2>1. ActiveOf(T) \ {s} = ActiveOf(U) \ {s}
    BY <1>0 DEF ActiveOf, Becomes, IsTable
  <2>2. (s \in ActiveOf(T) <=> IsActive(T.src[s])) /\ (s \in ActiveOf(U) <=> IsActive(y))
    BY <1>0, NewIsSource DEF ActiveOf, Becomes, IsTable
  <2>3. IsFiniteSet(ActiveOf(T))
    BY FS_Subset DEF ActiveOf, IsTable
  <2>4. /\ Cardinality(ActiveOf(T)) \in Nat
        /\ Cardinality(ActiveOf(U)) = Cardinality(ActiveOf(T)) + One(s \in ActiveOf(U)) - One(s \in ActiveOf(T))
    BY <2>1, <2>3, CountOne
  <2>5. One(IsActive(y)) = One(s \in ActiveOf(U)) /\ One(IsActive(T.src[s])) = One(s \in ActiveOf(T))
    BY <2>2 DEF One
  <2>6. One(s \in ActiveOf(U)) \in Int /\ One(s \in ActiveOf(T)) \in Int
    BY DEF One
  <2> QED BY <2>4, <2>5, <2>6 DEF Becomes, Counts
<1> QED BY <1>1, <1>2, <1>3, <1>4 DEF Counts, Becomes

-----------------------------------------------------------------------------
(* The helpers that change a table. *)

HasFields(T) == T = [f \in TableFields |-> T[f]] /\ T.src = [s \in SSRC |-> T.src[s]]

LEMMA ObtainIs ==
  ASSUME NEW T, NEW s \in SSRC, IsTable(T), NEW M, M = Obtain(T, s)
  PROVE  /\ HasFields(M) /\ M.src = T.src
         /\ M.listed = T.listed \cup {s} /\ M.total = (IF s \in T.listed THEN T.total ELSE T.total + 1)
         /\ M.senders = T.senders /\ M.active = T.active /\ M.announced = T.announced
<1>1. CASE s \in T.listed
  BY <1>1 DEF Obtain, IsTable, HasFields
<1>2. CASE s \notin T.listed
  <2> DEFINE N == [T EXCEPT !.listed = @ \cup {s}, !.src[s] = NewSource, !.total = @ + 1]
  <2>1. HasFields(T) /\ T.src[s] = NewSource
    BY <1>2 DEF IsTable, HasFields
  <2>2. [T.src EXCEPT ![s] = NewSource] = T.src
    BY <2>1 DEF HasFields
  <2>3. /\ HasFields(N) /\ N.src = [T.src EXCEPT ![s] = NewSource]
        /\ N.listed = T.listed \cup {s} /\ N.total = T.total + 1
        /\ N.senders = T.senders /\ N.active = T.active /\ N.announced = T.announced
    BY <2>1 DEF HasFields, TableFields
  <2>4. M = N
    BY <1>2 DEF Obtain
  <2> HIDE DEF N
  <2> QED BY <1>2, <2>2, <2>3, <2>4
<1> QED BY <1>1, <1>2

LEMMA RecountedIs ==
  ASSUME NEW M, NEW s \in SSRC, NEW y, HasFields(M), NEW U, U = Recounted(M, s, y)
  PROVE  /\ HasFields(U) /\ U.src = [M.src EXCEPT ![s] = y]
         /\ U.listed = M.listed /\ U.total = M.total /\ U.announced = M.announced
         /\ U.senders = M.senders + One(y.sender /\ ~M.src[s].sender)
         /\ U.active = M.active + One(IsActive(y)) - One(IsActive(M.src[s]))
<1> DEFINE S == [M EXCEPT !.src[s] = y]
           ds == IF y.sender /\ ~M.src[s].sender THEN 1 ELSE 0
           da == IF IsActive(y) THEN 1 ELSE 0
           db == IF IsActive(M.src[s]) THEN 1 ELSE 0
           R == [S EXCEPT !.senders = @ + ds, !.active = @ + da - db]
<1>1. /\ HasFields(S) /\ S.src = [M.src EXCEPT ![s] = y]
      /\ S.listed = M.listed /\ S.total = M.total /\ S.announced = M.announced
      /\ S.senders = M.senders /\ S.active = M.active
  BY DEF HasFields, TableFields
<1>2. U = R
  BY DEF Recounted, Set
<1>3. ds = One(y.sender /\ ~M.src[s].sender) /\ da = One(IsActive(y)) /\ db = One(IsActive(M.src[s]))
  BY DEF One
<1> HIDE DEF S, ds, da, db
<1>4. /\ HasFields(R) /\ R.src = S.src
      /\ R.listed = S.listed /\ R.total = S.total /\ R.announced = S.announced
      /\ R.senders = S.senders + ds /\ R.active = S.active + da - db
  BY <1>1 DEF HasFields, TableFields
<1> QED BY <1>1, <1>2, <1>3, <1>4

LEMMA AnnouncedIs ==
  ASSUME NEW P, NEW s \in SSRC, HasFields(P), NEW U, U = Announced(P, s)
  PROVE  /\ HasFields(U) /\ U.src = P.src /\ U.listed = P.listed /\ U.total = P.total
         /\ U.senders = P.senders /\ U.active = P.active /\ U.announced = P.announced \cup {s}
  BY DEF Announced, HasFields, TableFields

\* A source that is obtained, changed, counted and, if it is new, announced.
LEMMA ChangedBecomes ==
  ASSUME NEW T, IsTable(T), Counts(T), NEW s \in SSRC, NEW y, NEW U,
         LET P == Recounted(Obtain(T, s), s, y)
         IN  U = Announced(P, s) \/ (U = P /\ s \in T.listed)
  PROVE  Becomes(T, U, s, y)
<1> DEFINE M == Obtain(T, s)
           P == Recounted(M, s, y)
<1>1. /\ HasFields(M) /\ M.src = T.src
      /\ M.listed = T.listed \cup {s} /\ M.total = (IF s \in T.listed THEN T.total ELSE T.total + 1)
      /\ M.senders = T.senders /\ M.active = T.active /\ M.announced = T.announced
  BY ObtainIs
<1> HIDE DEF M
<1>2. /\ HasFields(P) /\ P.src = [M.src EXCEPT ![s] = y]
      /\ P.listed = M.listed /\ P.total = M.total /\ P.announced = M.announced
      /\ P.senders = M.senders + One(y.sender /\ ~M.src[s].sender)
      /\ P.active = M.active + One(IsActive(y)) - One(IsActive(M.src[s]))
  BY <1>1, RecountedIs
<1>3. U = Announced(P, s) \/ (U = P /\ s \in T.listed)
  BY DEF M
<1> HIDE DEF P
<1>4. /\ HasFields(U) /\ U.src = P.src /\ U.listed = P.listed /\ U.total = P.total
      /\ U.senders = P.senders /\ U.active = P.active /\ U.announced = P.announced \cup {s}
  <2>1. CASE U = Announced(P, s)
    BY <1>2, <2>1, AnnouncedIs
  <2>2. CASE U = P /\ s \in T.listed
    BY <1>1, <1>2, <2>2 DEF Counts
  <2> QED BY <1>3, <2>1, <2>2
<1>5. U.announced = U.listed
  BY <1>1, <1>2, <1>4 DEF Counts
<1>6. U.active \in Int /\ U.active = T.active + One(IsActive(y)) - One(IsActive(T.src[s]))
  BY <1>1, <1>2, <1>4 DEF Counts, One
<1>7. U.active <= T.active + One(IsActive(y)) - One(IsActive(T.src[s]))
  BY <1>6
<1> QED BY <1>1, <1>2, <1>4, <1>5, <1>6, <1>7 DEF Becomes, HasFields

\* A source that is listed changes, and is not counted again.
LEMMA SetBecomes ==
  ASSUME NEW T, IsTable(T), Counts(T), NEW s \in T.listed, NEW y, IsSource(y),
         y.sender = T.src[s].sender, IsActive(T.src[s]) => IsActive(y), NEW U, HasFields(U),
         U.src = [T.src EXCEPT ![s] = y], U.listed = T.listed, U.total = T.total,
         U.announced = T.announced, U.senders = T.senders, U.active = T.active
  PROVE  Becomes(T, U, s, y)
<1>1. T.senders \in Nat
  <2>1. IsFiniteSet(SendersOf(T))
    BY FS_Subset DEF IsTable, SendersOf
  <2> QED BY <2>1, FS_CardinalityType DEF Counts
<1>2. One(y.sender /\ ~T.src[s].sender) = 0
  BY DEF One
<1>3. One(IsActive(y)) - One(IsActive(T.src[s])) \in {0, 1}
  BY DEF One
<1>4. U.active <= T.active + One(IsActive(y)) - One(IsActive(T.src[s]))
  <2>1. One(IsActive(y)) \in Int /\ One(IsActive(T.src[s])) \in Int /\ T.active \in Int
    BY DEF One, Counts
  <2> QED BY <1>3, <2>1
<1>5. T.listed = T.listed \cup {s}
  OBVIOUS
<1>6. T.senders = T.senders + One(y.sender /\ ~T.src[s].sender)
  BY <1>1, <1>2
<1> QED BY <1>4, <1>5, <1>6 DEF Becomes, Counts, HasFields

-----------------------------------------------------------------------------
(* What a packet from an address may do to a source. *)

\* What a source is known by, which only its own host may change.
Known(x) == <<x.rtp, x.rtcp, x.validated, x.csrc, x.cname, x.bye, x.data, x.probation>>

OneHost(x) == x.rtp # Unset /\ x.rtcp # Unset => x.rtp.host = x.rtcp.host

OfHost(x, from) == \A a \in {x.rtp, x.rtcp} \ {Unset} : a.host = from.host

Evolves(x, y, from) ==
  /\ IsSource(y)
  /\ y.own = x.own
  /\ x.sender => y.sender
  /\ x.own => (x.validated => y.validated) /\ y.bye = x.bye
  /\ x.rtp # Unset => y.rtp = x.rtp
  /\ x.rtcp # Unset => y.rtcp = x.rtcp
  /\ OneHost(y)
  /\ Known(y) # Known(x) => OfHost(x, from)

\* Source x, which accepts the sender, with his address.
AddressFrom(x, w, from) ==
  \E isrtp \in BOOLEAN : Agrees(x, from, isrtp) /\ w = WithAddress(x, from, isrtp)

\* The sender's address is stored where none was known.
LEMMA AddressEvolves ==
  ASSUME NEW x, NEW from, NEW isrtp \in BOOLEAN, IsSource(x), OneHost(x), Agrees(x, from, isrtp),
         NEW y, y = WithAddress(x, from, isrtp)
  PROVE  /\ IsSource(y) /\ OneHost(y) /\ OfHost(x, from)
         /\ x.rtp # Unset => y.rtp = x.rtp
         /\ x.rtcp # Unset => y.rtcp = x.rtcp
         /\ \A f \in SourceFields \ {"rtp", "rtcp"} : y[f] = x[f]
<1>1. CASE isrtp
  BY <1>1 DEF Agrees, WithAddress, IsSource, OneHost, OfHost, SourceFields
<1>2. CASE ~isrtp
  BY <1>2 DEF Agrees, WithAddress, IsSource, OneHost, OfHost, SourceFields
<1> QED BY <1>1, <1>2

\* Of the source, the address is all that changes with it.
LEMMA TakesAddress ==
  ASSUME NEW x, NEW from, IsSource(x), OneHost(x), NEW w, AddressFrom(x, w, from)
  PROVE  /\ IsSource(w) /\ OneHost(w) /\ OfHost(x, from)
         /\ x.rtp # Unset => w.rtp = x.rtp
         /\ x.rtcp # Unset => w.rtcp = x.rtcp
         /\ w.own = x.own /\ w.sender = x.sender /\ w.bye = x.bye /\ w.validated = x.validated
<1>1. PICK isrtp \in BOOLEAN : Agrees(x, from, isrtp) /\ w = WithAddress(x, from, isrtp)
  BY DEF AddressFrom
<1> QED BY <1>1, AddressEvolves DEF SourceFields

\* Whatever else changes, the source agreed with the sender.
LEMMA AgreedEvolves ==
  ASSUME NEW x, NEW from, IsSource(x), OneHost(x), NEW w, AddressFrom(x, w, from), NEW y, IsSource(y),
         y.rtp = w.rtp, y.rtcp = w.rtcp, y.own = w.own, w.sender => y.sender,
         w.own => (w.validated => y.validated) /\ y.bye = w.bye
  PROVE  Evolves(x, y, from)
<1>1. /\ IsSource(w) /\ OneHost(w) /\ OfHost(x, from)
      /\ x.rtp # Unset => w.rtp = x.rtp
      /\ x.rtcp # Unset => w.rtcp = x.rtcp
      /\ w.own = x.own /\ w.sender = x.sender /\ w.validated = x.validated /\ w.bye = x.bye
  BY TakesAddress
<1>2. OneHost(y)
  BY <1>1 DEF OneHost
<1> QED BY <1>1, <1>2 DEF Evolves, IsSource

\* One's own source is the only one, and it is active.
OneOwn(T) ==
  \E s \in T.listed :
    /\ \A u \in T.listed : T.src[u].own <=> u = s
    /\ IsActive(T.src[s]) /\ T.src[s].rtp = Own /\ T.src[s].rtcp = Own

TableInv(T) ==
  /\ IsTable(T) /\ Counts(T) /\ OneOwn(T)
  /\ \A s \in SSRC : OneHost(T.src[s])

\* What a packet from this address makes of a table.
Reached(T, U, from) ==
  /\ TableInv(U)
  /\ T.listed \subseteq U.listed
  /\ \A s \in T.listed : Known(U.src[s]) # Known(T.src[s]) => OfHost(T.src[s], from)

LEMMA ReachedRefl == ASSUME NEW T, TableInv(T), NEW from PROVE Reached(T, T, from)
  BY DEF Reached

LEMMA ReachedTrans ==
  ASSUME NEW T, NEW U, NEW V, NEW from, Reached(T, U, from), Reached(U, V, from)
  PROVE  Reached(T, V, from)
<1>1. ASSUME NEW s \in T.listed, Known(V.src[s]) # Known(T.src[s]) PROVE OfHost(T.src[s], from)
  <2>1. CASE Known(U.src[s]) # Known(T.src[s])
    BY <2>1 DEF Reached
  <2>2. CASE Known(U.src[s]) = Known(T.src[s])
    <3>1. OfHost(U.src[s], from)
      BY <1>1, <2>2 DEF Reached
    <3>2. U.src[s].rtp = T.src[s].rtp /\ U.src[s].rtcp = T.src[s].rtcp
      BY <2>2 DEF Known
    <3> QED BY <3>1, <3>2 DEF OfHost
  <2> QED BY <2>1, <2>2
<1> QED BY <1>1 DEF Reached

\* A new source agrees with every sender.
LEMMA NewAgrees == ASSUME NEW from, NEW isrtp \in BOOLEAN PROVE Agrees(NewSource, from, isrtp)
  BY DEF Agrees, NewSource

LEMMA NewHasOneHost == OneHost(NewSource)
  BY DEF OneHost, NewSource

\* A change of one source that evolves is all right.
LEMMA BecomesReached ==
  ASSUME NEW T, NEW U, NEW s \in SSRC, NEW y, NEW from,
         TableInv(T), Becomes(T, U, s, y), Evolves(T.src[s], y, from)
  PROVE  Reached(T, U, from)
<1>1. IsTable(U) /\ Counts(U)
  BY BecomesCounted DEF TableInv, Evolves
<1>2. /\ \A u \in SSRC : U.src[u] = IF u = s THEN y ELSE T.src[u]
      /\ T.listed \subseteq SSRC /\ U.listed = T.listed \cup {s}
  BY DEF Becomes, IsTable, TableInv
<1>3. \A u \in SSRC : OneHost(U.src[u])
  BY <1>2 DEF TableInv, Evolves
<1>4. OneOwn(U)
  <2>1. PICK o \in T.listed :
          /\ \A u \in T.listed : T.src[u].own <=> u = o
          /\ IsActive(T.src[o]) /\ T.src[o].rtp = Own /\ T.src[o].rtcp = Own
    BY DEF TableInv, OneOwn
  <2>2. s \notin T.listed => ~T.src[s].own
    BY NewIsSource DEF TableInv, IsTable
  <2>3. y.own = T.src[s].own
    BY DEF Evolves
  <2>4. \A u \in U.listed : U.src[u].own <=> u = o
    BY <1>2, <2>1, <2>2, <2>3
  <2>5. Own # Unset
    <3>1. Own.host = "own" /\ Unset.host = "none"
      BY DEF Own, Unset
    <3> QED BY <3>1
  <2>6. IsActive(U.src[o]) /\ U.src[o].rtp = Own /\ U.src[o].rtcp = Own
    <3>1. CASE o = s
      <4>1. U.src[o] = y /\ T.src[o] = T.src[s] /\ T.src[s].own
        BY <1>2, <2>1, <3>1
      <4>2. y.rtp = Own /\ y.rtcp = Own
        BY <2>1, <2>5, <4>1 DEF Evolves
      <4>3. y.validated /\ ~y.bye
        BY <2>1, <4>1 DEF Evolves, IsActive
      <4> QED BY <4>1, <4>2, <4>3 DEF IsActive
    <3>2. CASE o # s
      <4>1. U.src[o] = T.src[o]
        BY <1>2, <3>2
      <4> QED BY <2>1, <4>1
    <3> QED BY <3>1, <3>2
  <2> QED BY <1>2, <2>1, <2>4, <2>6 DEF OneOwn
<1>5. ASSUME NEW u \in T.listed, Known(U.src[u]) # Known(T.src[u]) PROVE OfHost(T.src[u], from)
  <2>1. u = s
    BY <1>2, <1>5
  <2> QED BY <1>2, <1>5, <2>1 DEF Evolves
<1> QED BY <1>1, <1>2, <1>3, <1>4, <1>5 DEF Reached, TableInv

\* The flags of a table are not of its sources.
LEMMA FlagsReached ==
  ASSUME NEW T, NEW U, NEW from, TableInv(T), U = [f \in TableFields |-> U[f]],
         \A f \in TableFields \ {"owncollision", "ok"} : U[f] = T[f]
  PROVE  Reached(T, U, from)
<1>1. /\ U.listed = T.listed /\ U.src = T.src /\ U.total = T.total
      /\ U.senders = T.senders /\ U.active = T.active /\ U.announced = T.announced
  BY DEF TableFields
<1>2. IsTable(U)
  BY <1>1 DEF TableInv, IsTable
<1>3. Counts(U)
  BY <1>1 DEF TableInv, Counts, SendersOf, ActiveOf
<1>4. OneOwn(U) /\ \A s \in SSRC : OneHost(U.src[s])
  BY <1>1 DEF TableInv, OneOwn
<1> QED BY <1>1, <1>2, <1>3, <1>4 DEF Reached, TableInv

LEMMA CollidedReached ==
  ASSUME NEW T, TableInv(T), NEW s, NEW from, NEW U, U = Collided(T, s) PROVE Reached(T, U, from)
<1> DEFINE c == T.owncollision \/ T.src[s].own
<1>1. U = [T EXCEPT !.owncollision = c]
  BY DEF Collided
<1> HIDE DEF c
<1>2. T = [f \in TableFields |-> T[f]]
  BY DEF TableInv, IsTable
<1>3. U = [f \in TableFields |-> U[f]] /\ \A f \in TableFields \ {"owncollision", "ok"} : U[f] = T[f]
  BY <1>1, <1>2 DEF TableFields
<1> QED BY <1>3, FlagsReached

-----------------------------------------------------------------------------
(* RTP packets. *)

LEMMA NewEvolves ==
  ASSUME NEW y, NEW from, IsSource(y), ~y.own, OneHost(y) PROVE Evolves(NewSource, y, from)
<1>1. /\ NewSource.rtp = Unset /\ NewSource.rtcp = Unset /\ NewSource.own = FALSE
      /\ NewSource.sender = FALSE
  BY DEF NewSource
<1>2. OfHost(NewSource, from)
  BY <1>1 DEF OfHost
<1>3. y.own = NewSource.own
  BY <1>1 DEF IsSource
<1> QED BY <1>1, <1>2, <1>3 DEF Evolves

\* Statistics, validation and the queue leave alone whose source it is.
LEMMA ProcessedIs ==
  ASSUME NEW w, NEW next, NEW dup, IsSource(w), NEW y, y = Processed(w, next, dup)
  PROVE  /\ IsSource(y)
         /\ y.rtp = w.rtp /\ y.rtcp = w.rtcp /\ y.own = w.own /\ y.bye = w.bye
         /\ w.sender => y.sender
         /\ w.validated => y.validated
<1> DEFINE accept == Accepts(w, next)
           data == w.data \/ accept
           age == IF accept /\ ~w.own THEN 0 ELSE w.heardRTP
           prob == ProbationAfter(w, next)
           stats == [w EXCEPT !.heard = 0, !.probation = prob, !.data = data, !.heardRTP = age]
           kept == accept \/ Probation = "store"
           validated == w.validated \/ accept
           room == IF ~validated /\ w.queue = MaxProbationPackets THEN w.queue - 1 ELSE w.queue
           sends == IF validated /\ ~w.own THEN TRUE ELSE w.sender
           queue == IF dup THEN room ELSE room + 1
           z == [stats EXCEPT !.validated = validated, !.sender = sends, !.queue = queue]
<1>1. stats.sender = w.sender
  BY DEF IsSource, SourceFields
<1>2. y = IF ~kept THEN stats ELSE z
  BY <1>1 DEF Processed
<1>3. validated \in BOOLEAN /\ sends \in BOOLEAN /\ (w.validated => validated) /\ (w.sender => sends)
  BY DEF IsSource, Accepts
<1> HIDE DEF accept, data, age, prob, kept, validated, room, sends, queue
<1>4. /\ IsSource(stats)
      /\ stats.rtp = w.rtp /\ stats.rtcp = w.rtcp /\ stats.own = w.own /\ stats.bye = w.bye
      /\ stats.sender = w.sender /\ stats.validated = w.validated
  BY DEF IsSource, SourceFields
<1> HIDE DEF stats
<1>5. /\ IsSource(z)
      /\ z.rtp = w.rtp /\ z.rtcp = w.rtcp /\ z.own = w.own /\ z.bye = w.bye
      /\ z.sender = sends /\ z.validated = validated
  BY <1>3, <1>4 DEF IsSource, SourceFields
<1> HIDE DEF z
<1> QED BY <1>2, <1>3, <1>4, <1>5

\* One contributing source: made, marked, or refused.
LEMMA CSRCReached ==
  ASSUME NEW T, TableInv(T), NEW s \in SSRC, NEW from, NEW U, U = OneCSRC(T, s, from)
  PROVE  Reached(T, U, from)
<1> DEFINE x == T.src[s]
<1>1. IsTable(T) /\ Counts(T) /\ IsSource(x) /\ OneHost(x)
  BY DEF TableInv, IsTable
<1>2. CASE s \notin T.listed
  <2> DEFINE M == Obtain(T, s)
             now == [M.src[s] EXCEPT !.csrc = TRUE, !.validated = TRUE]
  <2>1. x = NewSource /\ M.src[s] = x
    BY <1>1, <1>2, ObtainIs DEF IsTable
  <2>2. IsSource(now) /\ ~now.own /\ OneHost(now)
    <3>1. now = [NewSource EXCEPT !.csrc = TRUE, !.validated = TRUE]
      BY <2>1
    <3>2. /\ now = [f \in SourceFields |-> now[f]]
          /\ now.own = FALSE /\ now.validated = TRUE /\ now.sender = FALSE /\ now.bye = FALSE /\ now.note = FALSE
      BY <3>1 DEF NewSource, SourceFields
    <3>3. now.rtp = Unset
      BY <3>1 DEF NewSource
    <3> HIDE DEF now
    <3> QED BY <3>2, <3>3 DEF IsSource, OneHost
  <2>3. U = Announced(Recounted(M, s, now), s)
    BY <1>2 DEF OneCSRC
  <2> HIDE DEF now
  <2>4. Becomes(T, U, s, now)
    BY <1>1, <2>3, ChangedBecomes
  <2>5. Evolves(x, now, from)
    BY <2>1, <2>2, NewEvolves
  <2> QED BY <2>4, <2>5, BecomesReached
<1>3. CASE s \in T.listed /\ Agrees(x, from, TRUE)
  <2> DEFINE was == WithAddress(x, from, TRUE)
             now == [was EXCEPT !.csrc = TRUE, !.validated = TRUE]
  <2>3. U = [T EXCEPT !.src[s] = now]
    BY <1>3 DEF OneCSRC, Set
  <2>10. AddressFrom(x, was, from)
    BY <1>3, Zenon DEF AddressFrom
  <2> HIDE DEF was
  <2>1. IsSource(was) /\ was.sender = x.sender /\ was.bye = x.bye
    <3> HIDE DEF x
    <3> QED BY <1>1, <2>10, TakesAddress
  <2>2. /\ IsSource(now) /\ now.rtp = was.rtp /\ now.rtcp = was.rtcp /\ now.own = was.own /\ now.bye = was.bye
        /\ now.sender = was.sender /\ now.validated
    BY <2>1 DEF IsSource, SourceFields
  <2> HIDE DEF now
  <2>4. /\ HasFields(U) /\ U.src = [T.src EXCEPT ![s] = now]
        /\ U.listed = T.listed /\ U.total = T.total /\ U.announced = T.announced
        /\ U.senders = T.senders /\ U.active = T.active
    BY <1>1, <2>3 DEF IsTable, HasFields, TableFields
  <2>9. Becomes(T, U, s, now)
    BY <1>1, <1>3, <2>1, <2>2, <2>4, SetBecomes DEF IsActive
  <2>11. Evolves(x, now, from)
    BY <1>1, <2>1, <2>2, <2>10, AgreedEvolves
  <2> QED BY <2>9, <2>11, BecomesReached
<1>4. CASE s \in T.listed /\ ~Agrees(x, from, TRUE)
  BY <1>4, CollidedReached DEF OneCSRC
<1> QED BY <1>2, <1>3, <1>4

-----------------------------------------------------------------------------
(* RTCP packets. *)

\* What a part does to a source that is not one's own.
HeardOf(w, q, y) ==
  /\ IsSource(y)
  /\ y.rtp = w.rtp /\ y.rtcp = w.rtcp /\ y.own = w.own /\ y.sender = w.sender
  /\ w.validated => y.validated
  /\ q.kind # "bye" => y.bye = w.bye

LEMMA HeardIs ==
  ASSUME NEW w, IsSource(w), NEW q, NEW y, y = Heard(w, q)
  PROVE  HeardOf(w, q, y)
<1>1. CASE q.kind = "bye"
  <2>1. y = [w EXCEPT !.heard = 0, !.bye = TRUE, !.byeAge = 0]
    BY <1>1 DEF Heard
  <2> QED BY <1>1, <2>1 DEF IsSource, SourceFields, HeardOf
<1>2. CASE q.kind = "note"
  <2>1. y = [w EXCEPT !.heard = 0, !.note = TRUE, !.noteAge = 0]
    BY <1>2 DEF Heard
  <2> QED BY <2>1 DEF IsSource, SourceFields, HeardOf
<1>3. CASE q.kind = "cname"
  <2> DEFINE v == w.validated \/ w.cname = NoName
             n == IF w.cname = NoName THEN q.name ELSE w.cname
  <2>1. y = [w EXCEPT !.heard = 0, !.validated = v, !.cname = n]
    BY <1>3 DEF Heard
  <2>2. v \in BOOLEAN /\ (w.validated => v)
    OBVIOUS
  <2> HIDE DEF v, n
  <2> QED BY <2>1, <2>2 DEF IsSource, SourceFields, HeardOf
<1>4. CASE q.kind \notin {"bye", "note", "cname"}
  <2>1. y = [w EXCEPT !.heard = 0]
    BY <1>4 DEF Heard
  <2> QED BY <2>1 DEF IsSource, SourceFields, HeardOf
<1> QED BY <1>1, <1>2, <1>3, <1>4

\* Nobody's part but a BYE for ourselves, which ProcessBYE refuses, could end
\* a source of ours.
LEMMA InfoReached ==
  ASSUME NEW T, TableInv(T), NEW q, q.ssrc \in SSRC, NEW from,
         q.kind = "bye" => ~T.src[q.ssrc].own,
         NEW U, U = ProcessInfo(T, q, from)
  PROVE  Reached(T, U, from)
<1> DEFINE s == q.ssrc
           M == Obtain(T, s)
           x == T.src[s]
           was == WithAddress(M.src[s], from, FALSE)
           now == Heard(was, q)
<1>0. /\ U = IF ~Agrees(M.src[s], from, FALSE) THEN Collided(T, s) ELSE Announced(Recounted(M, s, now), s)
      /\ s \in SSRC
  BY DEF ProcessInfo
<1>1. IsTable(T) /\ Counts(T) /\ IsSource(x) /\ OneHost(x) /\ M.src = T.src
  <2>1. IsTable(T) /\ Counts(T) /\ \A i \in SSRC : OneHost(T.src[i])
    BY DEF TableInv
  <2>2. s \in SSRC /\ M = Obtain(T, s)
    OBVIOUS
  <2>3. M.src = T.src
    <3> HIDE DEF M, s
    <3> QED BY ONLY <2>1, <2>2, ObtainIs
  <2>4. IsSource(x) /\ OneHost(x)
    BY <2>1, <2>2 DEF IsTable
  <2> QED BY <2>1, <2>3, <2>4
<1>2. CASE ~Agrees(x, from, FALSE)
  BY <1>0, <1>1, <1>2, CollidedReached
<1>3. CASE Agrees(x, from, FALSE)
  <2>1. U = Announced(Recounted(M, s, now), s)
    BY <1>0, <1>1, <1>3
  <2>2. AddressFrom(x, was, from)
    BY <1>1, <1>3, Zenon DEF AddressFrom
  <2>3. M = Obtain(T, s) /\ now = Heard(was, q) /\ s \in SSRC
    OBVIOUS
  <2>4. q.kind = "bye" => ~x.own
    OBVIOUS
  <2> HIDE DEF now, was, M, s, x
  <2>5. /\ IsSource(was) /\ was.own = x.own /\ was.sender = x.sender
    BY <1>1, <2>2, TakesAddress
  <2>6. /\ IsSource(now)
        /\ now.rtp = was.rtp /\ now.rtcp = was.rtcp /\ now.own = was.own /\ now.sender = was.sender
        /\ was.validated => now.validated
        /\ q.kind # "bye" => now.bye = was.bye
    <3>1. now = Heard(was, q) /\ IsSource(was)
      BY <2>3, <2>5
    <3>2. HeardOf(was, q, now)
      BY ONLY <3>1, HeardIs, Zenon
    <3> QED BY ONLY <3>2 DEF HeardOf
  <2>7. Becomes(T, U, s, now)
    BY <1>1, <2>1, <2>3, ChangedBecomes
  <2>8. Evolves(x, now, from)
    BY <1>1, <2>2, <2>4, <2>5, <2>6, AgreedEvolves
  <2> QED BY <2>3, <2>7, <2>8, BecomesReached DEF x
<1> QED BY <1>2, <1>3

LEMMA PartReached ==
  ASSUME NEW T, TableInv(T), NEW q, q.ssrc \in SSRC, NEW from, NEW U, U = OnePart(T, q, from)
  PROVE  Reached(T, U, from)
<1>1. CASE ~T.ok
  BY <1>1, ReachedRefl DEF OnePart
<1>2. CASE T.ok /\ q.kind = "illegal"
  <2>1. U = [T EXCEPT !.ok = FALSE]
    BY <1>2 DEF OnePart
  <2>2. T = [f \in TableFields |-> T[f]]
    BY DEF TableInv, IsTable
  <2>3. U = [f \in TableFields |-> U[f]] /\ \A f \in TableFields \ {"owncollision", "ok"} : U[f] = T[f]
    BY <2>1, <2>2 DEF TableFields
  <2> QED BY <2>3, FlagsReached
<1>3. CASE T.ok /\ q.kind = "bye"
  <2>1. U = ProcessBYE(T, q, from)
    BY <1>3 DEF OnePart
  <2>2. CASE q.ssrc \in T.listed /\ T.src[q.ssrc].own
    BY <2>1, <2>2, ReachedRefl, CollidedReached DEF ProcessBYE
  <2>3. CASE ~(q.ssrc \in T.listed /\ T.src[q.ssrc].own)
    <3>1. ~T.src[q.ssrc].own
      BY <2>3, NewIsSource DEF TableInv, IsTable
    <3>2. U = ProcessInfo(T, q, from)
      BY <2>1, <2>3 DEF ProcessBYE
    <3> QED BY <3>1, <3>2, InfoReached
  <2> QED BY <2>2, <2>3
<1>4. CASE T.ok /\ q.kind \notin {"illegal", "bye"}
  <2>1. U = ProcessInfo(T, q, from)
    BY <1>4 DEF OnePart
  <2> QED BY <1>4, <2>1, InfoReached
<1> QED BY <1>1, <1>2, <1>3, <1>4

-----------------------------------------------------------------------------
(* The steps of a list: the CSRCs of an RTP packet, the parts of a compound   *)
(* RTCP packet.  FoldLeft is a function on the subsets of the list's places,  *)
(* which takes the last one first.                                            *)

\* Where a natural number has a property, a least one has it.
LEMMA LeastOf ==
  ASSUME NEW S, S \subseteq Nat, S # {}
  PROVE  \E i \in S : \A j \in S : i <= j
<1> DEFINE R == {ss \in Nat \X Nat : ss[1] < ss[2]}
<1>1. IsWellFoundedOn(R, Nat)
  BY NatLessThanWellFounded DEF OpToRel
<1>2. PICK i \in S : \A j \in S : ~ (<<j, i>> \in R)
  <2> HIDE DEF R
  <2> QED BY <1>1, WFMin, Zenon
<1>3. ASSUME NEW j \in S PROVE i <= j
  <2>1. i \in Nat /\ j \in Nat
    OBVIOUS
  <2>2. <<j, i>> \in Nat \X Nat /\ <<j, i>>[1] = j /\ <<j, i>>[2] = i
    BY <2>1
  <2>3. ~ (j < i)
    BY <1>2, <2>2
  <2> QED BY <2>1, <2>3
<1> QED BY <1>3

\* One place of the list: a CSRC when rtp, otherwise a part.
Step(rtp, T, c, from) == IF rtp THEN OneCSRC(T, c, from) ELSE OnePart(T, c, from)

Steps(g, k, rtp, T, list, from) ==
  g = [t \in SUBSET (1 .. k) |->
         IF t = {} THEN T ELSE Step(rtp, g[t \ {Max(t)}], list[Max(t)], from)]

LEMMA MaxOf ==
  ASSUME NEW k \in Nat, NEW t, t \subseteq 1 .. k, k \in t
  PROVE  Max(t) = k
<1>1. k \in t /\ \A y \in t : k >= y
  OBVIOUS
<1>2. \A x \in t : (\A y \in t : x >= y) => x = k
  <2>1. \A x \in t : x \in Int /\ x <= k
    OBVIOUS
  <2> QED BY <1>1, <2>1
<1> QED BY <1>1, <1>2 DEF Max

\* There is such a function, for a list of any length.
LEMMA StepsExist ==
  ASSUME NEW n \in Nat, NEW rtp, NEW T, NEW list, NEW from
  PROVE  \E g : Steps(g, n, rtp, T, list, from)
<1> DEFINE Has(k) == \E g : Steps(g, k, rtp, T, list, from)
           Without1 == {k \in Nat : ~Has(k)}
<1>1. Has(0)
  <2> DEFINE g == [t \in SUBSET (1 .. 0) |-> T]
  <2>1. \A t \in SUBSET (1 .. 0) : t = {}
    OBVIOUS
  <2>2. g = [t \in SUBSET (1 .. 0) |->
               IF t = {} THEN T ELSE Step(rtp, g[t \ {Max(t)}], list[Max(t)], from)]
    <3> DEFINE h == [t \in SUBSET (1 .. 0) |->
               IF t = {} THEN T ELSE Step(rtp, g[t \ {Max(t)}], list[Max(t)], from)]
    <3>1. \A t \in SUBSET (1 .. 0) : h[t] = T
      BY <2>1
    <3>2. g = [t \in SUBSET (1 .. 0) |-> g[t]] /\ h = [t \in SUBSET (1 .. 0) |-> h[t]]
          /\ \A t \in SUBSET (1 .. 0) : g[t] = T
      OBVIOUS
    <3> HIDE DEF g, h
    <3>3. g = h
      BY <3>1, <3>2
    <3> QED BY <3>3 DEF h
  <2> HIDE DEF g
  <2>3. Steps(g, 0, rtp, T, list, from)
    BY <2>2 DEF Steps
  <2> QED BY <2>3
<1>2. ASSUME NEW k \in Nat, Has(k) PROVE Has(k + 1)
  <2>1. PICK g : Steps(g, k, rtp, T, list, from)
    BY <1>2
  <2> DEFINE D == SUBSET (1 .. k + 1)
             h == [t \in D |-> IF t \in SUBSET (1 .. k) THEN g[t]
                               ELSE Step(rtp, g[t \ {k + 1}], list[k + 1], from)]
             f == [t \in D |-> IF t = {} THEN T ELSE Step(rtp, h[t \ {Max(t)}], list[Max(t)], from)]
  <2>2. \A t \in SUBSET (1 .. k) : t \in D
    OBVIOUS
  <2>3. \A t \in SUBSET (1 .. k) : h[t] = g[t]
    BY <2>2
  <2>4. ASSUME NEW t \in D PROVE h[t] = f[t]
    <3>1. CASE t \in SUBSET (1 .. k)
      <4>1. g[t] = IF t = {} THEN T ELSE Step(rtp, g[t \ {Max(t)}], list[Max(t)], from)
        <5> DEFINE r == [u \in SUBSET (1 .. k) |->
                           IF u = {} THEN T ELSE Step(rtp, g[u \ {Max(u)}], list[Max(u)], from)]
        <5>1. g = r
          BY <2>1 DEF Steps
        <5>2. r[t] = IF t = {} THEN T ELSE Step(rtp, g[t \ {Max(t)}], list[Max(t)], from)
          BY <3>1
        <5> HIDE DEF r
        <5> QED BY <5>1, <5>2
      <4>2. t \ {Max(t)} \in SUBSET (1 .. k)
        BY <3>1
      <4>3. h[t \ {Max(t)}] = g[t \ {Max(t)}] /\ h[t] = g[t]
        BY <2>3, <3>1, <4>2
      <4>4. f[t] = IF t = {} THEN T ELSE Step(rtp, h[t \ {Max(t)}], list[Max(t)], from)
        OBVIOUS
      <4> HIDE DEF h, f
      <4> QED BY <4>1, <4>3, <4>4
    <3>2. CASE t \notin SUBSET (1 .. k)
      <4>1. k + 1 \in t
        <5>1. PICK i \in t : i \notin 1 .. k
          BY <3>2
        <5>2. i \in 1 .. k + 1
          OBVIOUS
        <5> QED BY <5>1, <5>2
      <4>2. Max(t) = k + 1
        <5>1. k + 1 \in Nat /\ t \subseteq 1 .. k + 1
          OBVIOUS
        <5> QED BY <4>1, <5>1, MaxOf
      <4>3. t \ {k + 1} \in SUBSET (1 .. k)
        OBVIOUS
      <4>4. h[t] = Step(rtp, g[t \ {k + 1}], list[k + 1], from)
        BY <3>2
      <4>5. h[t \ {k + 1}] = g[t \ {k + 1}]
        BY <2>3, <4>3
      <4>6. f[t] = IF t = {} THEN T ELSE Step(rtp, h[t \ {Max(t)}], list[Max(t)], from)
        OBVIOUS
      <4> HIDE DEF h, f
      <4> QED BY <4>1, <4>2, <4>4, <4>5, <4>6
    <3> QED BY <3>1, <3>2
  <2>5. h = [t \in D |-> h[t]] /\ f = [t \in D |-> f[t]]
    OBVIOUS
  <2>6. f = [t \in D |-> IF t = {} THEN T ELSE Step(rtp, h[t \ {Max(t)}], list[Max(t)], from)]
    OBVIOUS
  <2> HIDE DEF h, f
  <2>7. h = f
    BY <2>4, <2>5
  <2>8. Steps(h, k + 1, rtp, T, list, from)
    BY <2>6, <2>7 DEF Steps
  <2> QED BY <2>8
<1> HIDE DEF Has
<1>3. CASE Without1 = {}
  <2>1. Has(n)
    BY <1>3
  <2> QED BY <2>1 DEF Has
<1>4. CASE Without1 # {}
  <2>1. PICK i \in Without1 : \A j \in Without1 : i <= j
    BY <1>4, LeastOf
  <2>2. i \in Nat /\ ~Has(i) /\ i # 0
    BY <1>1, <2>1
  <2>3. i - 1 \in Nat /\ i - 1 \notin Without1
    BY <2>1, <2>2
  <2>4. Has(i - 1)
    BY <2>3
  <2>5. i - 1 + 1 = i
    BY <2>2
  <2>6. Has(i - 1 + 1)
    BY <1>2, <2>3, <2>4
  <2> QED BY <2>2, <2>5, <2>6
<1> QED BY <1>3, <1>4

\* What is carried on to each place is carried on to the last.
LEMMA StepsReached ==
  ASSUME NEW n \in Nat, NEW rtp \in BOOLEAN, NEW T, TableInv(T), NEW list, NEW from,
         \A i \in 1 .. n : IF rtp THEN list[i] \in SSRC ELSE list[i].ssrc \in SSRC,
         NEW g, Steps(g, n, rtp, T, list, from)
  PROVE  Reached(T, g[1 .. n], from)
<1> DEFINE Good(k) == Reached(T, g[1 .. k], from)
           Bad == {k \in 0 .. n : ~Good(k)}
           r == [t \in SUBSET (1 .. n) |->
                   IF t = {} THEN T ELSE Step(rtp, g[t \ {Max(t)}], list[Max(t)], from)]
<1>1. g = r
  BY DEF Steps
<1>2. Good(0)
  <2>1. 1 .. 0 = {} /\ {} \in SUBSET (1 .. n)
    OBVIOUS
  <2>2. r[{}] = T
    OBVIOUS
  <2> HIDE DEF r
  <2> QED BY <1>1, <2>1, <2>2, ReachedRefl
<1>3. ASSUME NEW k \in 0 .. n, k # n, Good(k) PROVE Good(k + 1)
  <2>1. k + 1 \in Nat /\ k + 1 \in 1 .. n /\ 1 .. k + 1 \in SUBSET (1 .. n) /\ 1 .. k + 1 # {}
    <3>1. k \in Nat /\ k + 1 <= n
      BY <1>3
    <3>2. k + 1 \in 1 .. k + 1
      BY <3>1
    <3> QED BY <3>1, <3>2
  <2>2. Max(1 .. k + 1) = k + 1
    <3>1. 1 .. k + 1 \subseteq 1 .. k + 1 /\ k + 1 \in 1 .. k + 1
      BY <2>1
    <3> QED BY <2>1, <3>1, MaxOf
  <2>3. (1 .. k + 1) \ {k + 1} = 1 .. k
    BY <1>3
  <2>4. r[1 .. k + 1] = Step(rtp, g[(1 .. k + 1) \ {Max(1 .. k + 1)}], list[Max(1 .. k + 1)], from)
    BY <2>1
  <2> DEFINE U == g[1 .. k]
             V == g[1 .. k + 1]
             c == list[k + 1]
  <2> HIDE DEF r
  <2>5. V = Step(rtp, U, c, from)
    BY <1>1, <2>2, <2>3, <2>4
  <2>6. Reached(T, U, from) /\ TableInv(U)
    BY <1>3 DEF Reached, U
  <2>7. IF rtp THEN c \in SSRC ELSE c.ssrc \in SSRC
    BY <2>1
  <2> HIDE DEF U, V, c
  <2>8. Reached(U, V, from)
    <3>1. CASE rtp
      <4>1. V = OneCSRC(U, c, from) /\ c \in SSRC
        BY <2>5, <2>7, <3>1 DEF Step
      <4> QED BY <2>6, <4>1, CSRCReached
    <3>2. CASE ~rtp
      <4>1. V = OnePart(U, c, from) /\ c.ssrc \in SSRC
        BY <2>5, <2>7, <3>2 DEF Step
      <4> QED BY <2>6, <4>1, PartReached
    <3> QED BY <3>1, <3>2
  <2> QED BY <2>6, <2>8, ReachedTrans DEF V
<1> HIDE DEF Good
<1>4. CASE Bad = {}
  <2>1. n \in 0 .. n
    OBVIOUS
  <2>2. Good(n)
    BY <1>4, <2>1
  <2> QED BY <2>2 DEF Good
<1>5. CASE Bad # {}
  <2>1. PICK i \in Bad : \A j \in Bad : i <= j
    <3>1. Bad \subseteq Nat
      OBVIOUS
    <3> HIDE DEF Bad
    <3> QED BY <1>5, <3>1, LeastOf
  <2>2. i \in 0 .. n /\ ~Good(i) /\ i # 0
    BY <1>2, <2>1
  <2>3. i - 1 \in 0 .. n /\ i - 1 # n /\ i - 1 \notin Bad
    BY <2>1, <2>2
  <2>4. Good(i - 1)
    BY <2>3
  <2>5. i - 1 + 1 = i
    BY <2>2
  <2>6. Good(i - 1 + 1)
    BY <1>3, <2>3, <2>4
  <2> QED BY <2>2, <2>5, <2>6
<1> QED BY <1>4, <1>5

\* All the CSRCs of a packet.
AllCSRCs(T, list, from) == FoldLeft(LAMBDA V, c : OneCSRC(V, c, from), T, list)

LEMMA CSRCsReached ==
  ASSUME NEW T, TableInv(T), NEW list \in Seq(SSRC), NEW from,
         NEW U, U = AllCSRCs(T, list, from)
  PROVE  Reached(T, U, from)
<1> DEFINE n == Len(list)
           Iter(g) == g = [t \in SUBSET (DOMAIN list) |->
                             IF t = {} THEN T ELSE OneCSRC(g[t \ {Max(t)}], list[Max(t)], from)]
           h == CHOOSE g : Iter(g)
<1>1. U = h[DOMAIN list]
  BY DEF AllCSRCs, FoldLeft, MapThenFoldSet
<1>2. n \in Nat /\ DOMAIN list = 1 .. n /\ \A i \in 1 .. n : list[i] \in SSRC
  OBVIOUS
<1>3. \A g : Iter(g) <=> Steps(g, n, TRUE, T, list, from)
  BY <1>2 DEF Steps, Step
<1>4. \E g : Steps(g, n, TRUE, T, list, from)
  BY <1>2, StepsExist
<1>5. Steps(h, n, TRUE, T, list, from)
  <2>1. \E g : Iter(g)
    BY <1>3, <1>4
  <2>2. Iter(h)
    BY <2>1
  <2> HIDE DEF h
  <2> QED BY <1>3, <2>2
<1>6. TRUE \in BOOLEAN /\ \A i \in 1 .. n : IF TRUE THEN list[i] \in SSRC ELSE list[i].ssrc \in SSRC
  BY <1>2
<1> HIDE DEF h
<1>7. Reached(T, h[1 .. n], from)
  BY <1>2, <1>5, <1>6, StepsReached
<1> QED BY <1>1, <1>2, <1>7

\* All the parts of a compound packet.
LEMMA PartsReached ==
  ASSUME NEW T, TableInv(T), NEW P, NEW list \in Seq(P), \A q \in P : q.ssrc \in SSRC, NEW from,
         NEW U, U = ProcessRTCPCompoundPacket(T, list, from)
  PROVE  Reached(T, U, from)
<1> DEFINE n == Len(list)
           Iter(g) == g = [t \in SUBSET (DOMAIN list) |->
                             IF t = {} THEN T ELSE OnePart(g[t \ {Max(t)}], list[Max(t)], from)]
           h == CHOOSE g : Iter(g)
<1>1. U = h[DOMAIN list]
  BY DEF ProcessRTCPCompoundPacket, FoldLeft, MapThenFoldSet
<1>2. n \in Nat /\ DOMAIN list = 1 .. n /\ \A i \in 1 .. n : list[i].ssrc \in SSRC
  OBVIOUS
<1>3. \A g : Iter(g) <=> Steps(g, n, FALSE, T, list, from)
  BY <1>2 DEF Steps, Step
<1>4. \E g : Steps(g, n, FALSE, T, list, from)
  BY <1>2, StepsExist
<1>5. Steps(h, n, FALSE, T, list, from)
  <2>1. \E g : Iter(g)
    BY <1>3, <1>4
  <2>2. Iter(h)
    BY <2>1
  <2> HIDE DEF h
  <2> QED BY <1>3, <2>2
<1>6. FALSE \in BOOLEAN /\ \A i \in 1 .. n : IF FALSE THEN list[i] \in SSRC ELSE list[i].ssrc \in SSRC
  BY <1>2
<1> HIDE DEF h
<1>7. Reached(T, h[1 .. n], from)
  BY <1>2, <1>5, <1>6, StepsReached
<1> QED BY <1>1, <1>2, <1>7

\* A whole RTP packet: its source, then its CSRCs when that is validated.
LEMMA RTPReached ==
  ASSUME NEW T, TableInv(T), NEW p, p.ssrc \in SSRC, p.csrcs \in Seq(SSRC), NEW from,
         NEW U, U = ProcessRTPPacket(T, p, from)
  PROVE  Reached(T, U, from)
<1> DEFINE s == p.ssrc
           M == Obtain(T, s)
           x == T.src[s]
           created == s \notin T.listed
           was == WithAddress(M.src[s], from, TRUE)
           now == Processed(was, p.next, p.dup)
           P == Recounted(M, s, now)
           A == IF created THEN Announced(P, s) ELSE P
<1>0. /\ U = IF ~created /\ ~Agrees(M.src[s], from, TRUE) THEN Collided(T, s)
             ELSE IF A.src[s].validated
                  THEN AllCSRCs(A, p.csrcs, from)
                  ELSE A
      /\ s \in SSRC
  BY DEF ProcessRTPPacket, AllCSRCs
<1>1. /\ IsTable(T) /\ Counts(T) /\ IsSource(x) /\ OneHost(x) /\ M.src = T.src
      /\ created => x = NewSource
  <2>1. IsTable(T) /\ Counts(T) /\ IsSource(x) /\ OneHost(x)
    BY <1>0 DEF TableInv, IsTable
  <2>2. M.src = T.src
    BY <1>0, <2>1, ObtainIs
  <2>3. created => x = NewSource
    BY <1>0, <2>1 DEF IsTable
  <2> QED BY <2>1, <2>2, <2>3
<1>2. CASE ~created /\ ~Agrees(x, from, TRUE)
  <2>1. U = Collided(T, s)
    BY <1>0, <1>1, <1>2
  <2> QED BY <2>1, CollidedReached
<1>3. CASE created \/ Agrees(x, from, TRUE)
  <2>1. Agrees(x, from, TRUE)
    BY <1>1, <1>3, NewAgrees
  <2>2. AddressFrom(x, was, from)
    BY <1>1, <2>1, Zenon DEF AddressFrom
  <2>3. /\ M = Obtain(T, s) /\ now = Processed(was, p.next, p.dup) /\ P = Recounted(M, s, now)
        /\ s \in SSRC
    OBVIOUS
  <2>4. A = Announced(P, s) \/ (A = P /\ s \in T.listed)
    OBVIOUS
  <2>5. U = AllCSRCs(A, p.csrcs, from) \/ U = A
    BY <1>0, <1>1, <1>3
  <2> HIDE DEF A, P, now, was, M, x
  <2>6. /\ IsSource(was) /\ was.own = x.own /\ was.sender = x.sender
    BY <1>1, <2>2, TakesAddress
  <2>7. /\ IsSource(now)
        /\ now.rtp = was.rtp /\ now.rtcp = was.rtcp /\ now.own = was.own /\ now.bye = was.bye
        /\ was.sender => now.sender
        /\ was.validated => now.validated
    <3>1. now = Processed(was, p.next, p.dup) /\ IsSource(was)
      BY <2>3, <2>6
    <3> QED BY ONLY <3>1, ProcessedIs
  <2>8. Becomes(T, A, s, now)
    BY <1>1, <2>3, <2>4, ChangedBecomes
  <2>9. Evolves(x, now, from)
    BY <1>1, <2>2, <2>6, <2>7, AgreedEvolves
  <2>10. Reached(T, A, from)
    BY <2>3, <2>8, <2>9, BecomesReached DEF x
  <2>11. TableInv(A)
    BY <2>10 DEF Reached
  <2>12. Reached(A, U, from)
    <3>1. CASE U = A
      BY <2>11, <3>1, ReachedRefl
    <3>2. CASE U = AllCSRCs(A, p.csrcs, from)
      BY <2>11, <3>2, CSRCsReached
    <3> QED BY <2>5, <3>1, <3>2
  <2> QED BY <2>10, <2>12, ReachedTrans
<1> QED BY <1>2, <1>3

-----------------------------------------------------------------------------
(* Our own source. *)

\* A table with nobody's own source in it.
Ownerless(T) ==
  /\ IsTable(T) /\ Counts(T)
  /\ \A s \in SSRC : OneHost(T.src[s])
  /\ \A s \in T.listed : ~T.src[s].own

LEMMA EmptyIsOwnerless == Ownerless(EmptyTable)
<1>1. HasFields(EmptyTable)
  BY DEF HasFields, EmptyTable, TableFields
<1>2. /\ EmptyTable.listed = {} /\ EmptyTable.announced = {} /\ EmptyTable.total = 0
      /\ EmptyTable.senders = 0 /\ EmptyTable.active = 0
      /\ \A s \in SSRC : EmptyTable.src[s] = NewSource
  BY DEF EmptyTable
<1>3. IsTable(EmptyTable)
  BY <1>1, <1>2, NewIsSource, FS_EmptySet DEF IsTable, HasFields
<1>4. SendersOf(EmptyTable) = {} /\ ActiveOf(EmptyTable) = {}
  BY <1>2 DEF SendersOf, ActiveOf
<1>5. Counts(EmptyTable)
  BY <1>2, <1>4, FS_EmptySet DEF Counts
<1> QED BY <1>2, <1>3, <1>5, NewHasOneHost DEF Ownerless

\* An own source is made, under an SSRC that was free.
LEMMA CreateIs ==
  ASSUME NEW T, Ownerless(T), NEW s \in SSRC \ T.listed, NEW U, U = CreateOwnSSRC(T, s)
  PROVE  /\ TableInv(U) /\ U.listed = T.listed \cup {s}
         /\ \A u \in T.listed : U.src[u] = T.src[u]
<1> DEFINE M == Obtain(T, s)
           y == [NewSource EXCEPT !.own = TRUE, !.validated = TRUE, !.rtp = Own, !.rtcp = Own]
           P == [M EXCEPT !.src[s] = y, !.active = @ + 1]
<1>1. U = Announced(P, s)
  BY DEF CreateOwnSSRC
<1>2. /\ HasFields(M) /\ M.src = T.src
      /\ M.listed = T.listed \cup {s} /\ M.total = T.total + 1
      /\ M.senders = T.senders /\ M.active = T.active /\ M.announced = T.announced
  BY ObtainIs DEF Ownerless
<1>3. /\ y = [f \in SourceFields |-> y[f]]
      /\ y.own = TRUE /\ y.validated = TRUE /\ y.sender = FALSE /\ y.bye = FALSE /\ y.note = FALSE
      /\ y.rtp = Own /\ y.rtcp = Own
  BY DEF NewSource, SourceFields
<1> HIDE DEF M, y
<1>4. /\ HasFields(P) /\ P.src = [M.src EXCEPT ![s] = y] /\ P.listed = M.listed
      /\ P.total = M.total /\ P.senders = M.senders /\ P.active = M.active + 1
      /\ P.announced = M.announced
  BY <1>2 DEF HasFields, TableFields
<1> HIDE DEF P
<1>5. /\ HasFields(U) /\ U.src = P.src /\ U.listed = P.listed /\ U.total = P.total
      /\ U.senders = P.senders /\ U.active = P.active /\ U.announced = P.announced \cup {s}
  BY <1>1, <1>4, AnnouncedIs
<1>6. IsSource(y) /\ IsActive(y) /\ OneHost(y)
  BY <1>3 DEF IsSource, IsActive, OneHost
<1>7. IsTable(T) /\ Counts(T) /\ T.src[s] = NewSource
  BY DEF Ownerless, IsTable
<1>8. Becomes(T, U, s, y)
  <2>1. T.senders \in Nat
    <3>1. IsFiniteSet(SendersOf(T))
      BY <1>7, FS_Subset DEF IsTable, SendersOf
    <3> QED BY <1>7, <3>1, FS_CardinalityType DEF Counts
  <2>2. U.senders = T.senders + One(y.sender /\ ~T.src[s].sender)
    <3>1. One(y.sender /\ ~T.src[s].sender) = 0
      BY <1>3 DEF One
    <3> QED BY <1>2, <1>4, <1>5, <2>1, <3>1
  <2>3. T.active \in Int /\ U.active = T.active + 1
    BY <1>2, <1>4, <1>5, <1>7 DEF Counts
  <2>4. One(IsActive(y)) = 1 /\ One(IsActive(T.src[s])) = 0
    BY <1>6, <1>7, NewIsSource DEF One
  <2>5. U.active \in Int /\ U.active <= T.active + One(IsActive(y)) - One(IsActive(T.src[s]))
    BY <2>3, <2>4
  <2>6. U.announced = U.listed
    BY <1>2, <1>4, <1>5, <1>7 DEF Counts
  <2> QED BY <1>2, <1>4, <1>5, <2>2, <2>5, <2>6 DEF Becomes, HasFields
<1>9. IsTable(U) /\ Counts(U)
  BY <1>6, <1>7, <1>8, NewIsSource, BecomesCounted
<1>10. /\ \A u \in SSRC : U.src[u] = IF u = s THEN y ELSE T.src[u]
       /\ U.listed = T.listed \cup {s} /\ T.listed \subseteq SSRC
  BY <1>7, <1>8 DEF Becomes, IsTable
<1>11. \A u \in SSRC : OneHost(U.src[u])
  BY <1>6, <1>10 DEF Ownerless
<1>12. OneOwn(U)
  <2>1. \A u \in U.listed : U.src[u].own <=> u = s
    BY <1>3, <1>10 DEF Ownerless
  <2>2. s \in U.listed /\ U.src[s] = y
    BY <1>10
  <2> QED BY <1>3, <1>6, <2>1, <2>2 DEF OneOwn
<1>13. \A u \in T.listed : U.src[u] = T.src[u]
  BY <1>10
<1> QED BY <1>9, <1>10, <1>11, <1>12, <1>13 DEF TableInv

\* ... and the one there was is removed.
LEMMA DeleteIs ==
  ASSUME NEW T, TableInv(T), NEW s \in T.listed, T.src[s].own, NEW U, U = DeleteOwnSSRC(T, s)
  PROVE  /\ Ownerless(U) /\ U.listed = T.listed \ {s}
         /\ \A u \in U.listed : U.src[u] = T.src[u]
<1> DEFINE ds == IF T.src[s].sender THEN 1 ELSE 0
           da == IF IsActive(T.src[s]) THEN 1 ELSE 0
           src == [T.src EXCEPT ![s] = NewSource]
           total == T.total - 1
           senders == T.senders - ds
           active == T.active - da
<1>1. U = [T EXCEPT !.listed = @ \ {s}, !.src = src, !.total = total, !.senders = senders,
                    !.active = active, !.announced = @ \ {s}]
  BY DEF DeleteOwnSSRC
<1>2. ds = One(T.src[s].sender) /\ da = One(IsActive(T.src[s]))
  BY DEF One
<1>3. IsTable(T) /\ Counts(T) /\ HasFields(T) /\ s \in SSRC
  BY DEF TableInv, IsTable, HasFields
<1> HIDE DEF ds, da
<1>4. /\ HasFields(U) /\ U.src = [T.src EXCEPT ![s] = NewSource]
      /\ U.listed = T.listed \ {s} /\ U.total = T.total - 1 /\ U.senders = T.senders - ds
      /\ U.active = T.active - da /\ U.announced = T.announced \ {s}
  <2>1. src = [u \in SSRC |-> src[u]]
    BY <1>3 DEF HasFields
  <2> HIDE DEF src, total, senders, active
  <2>2. /\ HasFields(U) /\ U.src = src /\ U.listed = T.listed \ {s} /\ U.total = total
        /\ U.senders = senders /\ U.active = active /\ U.announced = T.announced \ {s}
    BY <1>1, <1>3, <2>1 DEF HasFields, TableFields
  <2> QED BY <2>2 DEF src, total, senders, active
<1>5. \A u \in SSRC : U.src[u] = IF u = s THEN NewSource ELSE T.src[u]
  BY <1>3, <1>4 DEF HasFields
<1>6. IsTable(U)
  <2>1. IsFiniteSet(U.listed)
    BY <1>3, <1>4, FS_Subset DEF IsTable
  <2>2. \A u \in SSRC : IsSource(U.src[u])
    BY <1>3, <1>5, NewIsSource DEF IsTable
  <2>3. \A u \in SSRC \ U.listed : U.src[u] = NewSource
    BY <1>3, <1>4, <1>5 DEF IsTable
  <2> QED BY <1>3, <1>4, <2>1, <2>2, <2>3 DEF IsTable, HasFields
<1>7. /\ U.total = Cardinality(U.listed)
      /\ U.senders = Cardinality(SendersOf(U))
      /\ U.active \in Int /\ U.active <= Cardinality(ActiveOf(U))
  <2>1. T.listed \ {s} = U.listed \ {s} /\ s \notin U.listed
    BY <1>4
  <2>2. SendersOf(T) \ {s} = SendersOf(U) \ {s} /\ s \notin SendersOf(U)
    BY <1>3, <1>4, <1>5 DEF SendersOf, IsTable
  <2>3. ActiveOf(T) \ {s} = ActiveOf(U) \ {s} /\ s \notin ActiveOf(U)
    BY <1>3, <1>4, <1>5 DEF ActiveOf, IsTable
  <2>4. IsFiniteSet(T.listed) /\ IsFiniteSet(SendersOf(T)) /\ IsFiniteSet(ActiveOf(T))
    BY <1>3, FS_Subset DEF IsTable, SendersOf, ActiveOf
  <2>5. U.total = Cardinality(U.listed)
    <3>1. /\ Cardinality(T.listed) \in Nat /\ Cardinality(U.listed) \in Nat
          /\ Cardinality(U.listed) = Cardinality(T.listed) + One(s \in U.listed) - One(s \in T.listed)
      BY <2>1, <2>4, CountOne
    <3>2. One(s \in U.listed) = 0 /\ One(s \in T.listed) = 1
      BY <2>1 DEF One
    <3> QED BY <1>3, <1>4, <3>1, <3>2 DEF Counts
  <2>6. U.senders = Cardinality(SendersOf(U))
    <3>1. /\ Cardinality(SendersOf(T)) \in Nat
          /\ Cardinality(SendersOf(U)) = Cardinality(SendersOf(T)) + One(s \in SendersOf(U)) - One(s \in SendersOf(T))
      BY <2>2, <2>4, CountOne
    <3>2. One(s \in SendersOf(U)) = 0 /\ One(s \in SendersOf(T)) = ds
      BY <1>2, <2>2 DEF One, SendersOf
    <3>3. ds \in Nat
      BY <1>2 DEF One
    <3> QED BY <1>3, <1>4, <3>1, <3>2, <3>3 DEF Counts
  <2>7. U.active \in Int /\ U.active <= Cardinality(ActiveOf(U))
    <3>1. /\ Cardinality(ActiveOf(T)) \in Nat
          /\ Cardinality(ActiveOf(U)) = Cardinality(ActiveOf(T)) + One(s \in ActiveOf(U)) - One(s \in ActiveOf(T))
      BY <2>3, <2>4, CountOne
    <3>2. One(s \in ActiveOf(U)) = 0 /\ One(s \in ActiveOf(T)) = da
      BY <1>2, <2>3 DEF One, ActiveOf
    <3>3. da \in Nat
      BY <1>2 DEF One
    <3> QED BY <1>3, <1>4, <3>1, <3>2, <3>3 DEF Counts
  <2> QED BY <2>5, <2>6, <2>7
<1>8. Counts(U)
  BY <1>3, <1>4, <1>7 DEF Counts
<1>9. \A u \in U.listed : ~U.src[u].own
  <2>1. \A u \in T.listed \ {s} : ~T.src[u].own
    BY DEF TableInv, OneOwn
  <2> QED BY <1>3, <1>4, <1>5, <2>1 DEF IsTable
<1>10. \A u \in SSRC : OneHost(U.src[u])
  BY <1>5, NewHasOneHost DEF TableInv
<1>11. \A u \in U.listed : U.src[u] = T.src[u]
  BY <1>3, <1>4, <1>5 DEF IsTable
<1> QED BY <1>4, <1>6, <1>8, <1>9, <1>10, <1>11 DEF Ownerless

-----------------------------------------------------------------------------
(* Time. *)

\* Ages and marks that say nothing of who a source is.
Similar(x, y) == IsSource(y) /\ y.own = x.own /\ Known(y) = Known(x)

\* Some sources leave, the others stay who they are, and our own is not
\* among those that leave.
LEMMA KeptInv ==
  ASSUME NEW T, TableInv(T), NEW U, HasFields(U), Counts(U), U.listed \subseteq T.listed,
         \A s \in T.listed : T.src[s].own => s \in U.listed,
         \A s \in U.listed : Similar(T.src[s], U.src[s]),
         \A s \in SSRC \ U.listed : U.src[s] = NewSource
  PROVE  TableInv(U)
<1>1. T.listed \subseteq SSRC /\ IsFiniteSet(U.listed)
  BY FS_Subset DEF TableInv, IsTable
<1>2. \A s \in SSRC : IsSource(U.src[s])
  BY NewIsSource DEF Similar
<1>3. IsTable(U)
  BY <1>1, <1>2 DEF IsTable, HasFields
<1>4. ASSUME NEW s \in SSRC PROVE OneHost(U.src[s])
  <2>1. CASE s \in U.listed
    <3>1. U.src[s].rtp = T.src[s].rtp /\ U.src[s].rtcp = T.src[s].rtcp
      BY <2>1 DEF Similar, Known
    <3> QED BY <3>1 DEF TableInv, OneHost
  <2>2. CASE s \notin U.listed
    BY <2>2, NewHasOneHost
  <2> QED BY <2>1, <2>2
<1>5. OneOwn(U)
  <2>1. PICK o \in T.listed :
          /\ \A u \in T.listed : T.src[u].own <=> u = o
          /\ IsActive(T.src[o]) /\ T.src[o].rtp = Own /\ T.src[o].rtcp = Own
    BY DEF TableInv, OneOwn
  <2>2. o \in U.listed
    BY <2>1
  <2>3. \A u \in U.listed : U.src[u].own = T.src[u].own
    BY DEF Similar
  <2>4. \A u \in U.listed : U.src[u].own <=> u = o
    BY <2>1, <2>3
  <2>5. /\ U.src[o].rtp = T.src[o].rtp /\ U.src[o].rtcp = T.src[o].rtcp
        /\ U.src[o].validated = T.src[o].validated /\ U.src[o].bye = T.src[o].bye
    BY <2>2 DEF Similar, Known
  <2>6. IsActive(U.src[o]) /\ U.src[o].rtp = Own /\ U.src[o].rtcp = Own
    BY <2>1, <2>5 DEF IsActive
  <2> QED BY <2>2, <2>4, <2>6 DEF OneOwn
<1> QED BY <1>3, <1>4, <1>5 DEF TableInv

\* A table whose counters are set to what is listed.
LEMMA CountedIs ==
  ASSUME NEW W, HasFields(W), NEW U, U = Counted(W)
  PROVE  /\ HasFields(U) /\ U.listed = W.listed /\ U.src = W.src /\ U.announced = W.announced
         /\ U.owncollision = W.owncollision /\ U.ok = W.ok
         /\ U.total = Cardinality(U.listed) /\ U.senders = Cardinality(SendersOf(U))
         /\ U.active = Cardinality(ActiveOf(U))
<1> DEFINE c == Cardinality(W.listed)
           cs == Cardinality(SendersOf(W))
           ca == Cardinality(ActiveOf(W))
<1>1. U = [W EXCEPT !.total = c, !.senders = cs, !.active = ca]
  BY DEF Counted, SendersOf, ActiveOf
<1> HIDE DEF c, cs, ca
<1>2. /\ HasFields(U) /\ U.listed = W.listed /\ U.src = W.src /\ U.announced = W.announced
      /\ U.owncollision = W.owncollision /\ U.ok = W.ok
      /\ U.total = c /\ U.senders = cs /\ U.active = ca
  BY <1>1 DEF HasFields, TableFields
<1>3. SendersOf(U) = SendersOf(W) /\ ActiveOf(U) = ActiveOf(W)
  BY <1>2 DEF SendersOf, ActiveOf
<1> QED BY <1>2, <1>3 DEF c, cs, ca

\* What a sweep does to a source that stays.
Swept(x) == [x EXCEPT !.sender = @ /\ x.heardRTP <= SenderTimeoutDelay,
                      !.note = @ /\ x.noteAge <= NoteTimeoutDelay]

LEMMA SweptIs ==
  ASSUME NEW x, IsSource(x), NEW y, y = Swept(x)
  PROVE  /\ y = [f \in SourceFields |-> y[f]] /\ Similar(x, y)
         /\ y.sender = (x.sender /\ x.heardRTP <= SenderTimeoutDelay)
         /\ y.note = (x.note /\ x.noteAge <= NoteTimeoutDelay)
         /\ \A f \in SourceFields \ {"sender", "note"} : y[f] = x[f]
<1> DEFINE b == x.sender /\ x.heardRTP <= SenderTimeoutDelay
           c == x.note /\ x.noteAge <= NoteTimeoutDelay
<1>1. y = [x EXCEPT !.sender = b, !.note = c] /\ b \in BOOLEAN /\ c \in BOOLEAN
  BY DEF Swept
<1> HIDE DEF b, c
<1>2. /\ y = [f \in SourceFields |-> y[f]] /\ y.sender = b /\ y.note = c
      /\ \A f \in SourceFields \ {"sender", "note"} : y[f] = x[f]
  BY <1>1 DEF IsSource, SourceFields
<1>3. Similar(x, y)
  BY <1>1, <1>2 DEF Similar, IsSource, Known, SourceFields
<1> QED BY <1>2, <1>3 DEF b, c

\* The single sweep.
LEMMA SweepIs ==
  ASSUME NEW T, TableInv(T), NEW U, U = MultipleTimeouts(T),
         NEW kept, kept = T.listed \ (Gone(T) \cup Silent(T))
  PROVE  /\ HasFields(U) /\ U.listed = kept /\ U.announced = kept
         /\ \A s \in kept : U.src[s] = Swept(T.src[s])
         /\ \A s \in SSRC \ kept : U.src[s] = NewSource
         /\ U.owncollision = T.owncollision /\ U.ok = T.ok
         /\ U.total = Cardinality(U.listed) /\ U.senders = Cardinality(SendersOf(U))
         /\ U.active = Cardinality(ActiveOf(U))
<1> DEFINE src == [s \in SSRC |-> IF s \in kept THEN Swept(T.src[s]) ELSE NewSource]
           ann == T.announced \cap kept
           W == [T EXCEPT !.listed = kept, !.announced = ann, !.src = src]
<1>1. U = Counted(W)
  BY DEF MultipleTimeouts, Swept
<1>2. src = [s \in SSRC |-> src[s]] /\ \A s \in SSRC : src[s] = IF s \in kept THEN Swept(T.src[s]) ELSE NewSource
  OBVIOUS
<1>3. ann = kept /\ kept \subseteq SSRC /\ T = [f \in TableFields |-> T[f]]
  BY DEF TableInv, Counts, IsTable
<1> HIDE DEF src, ann
<1>4. /\ HasFields(W) /\ W.listed = kept /\ W.announced = ann /\ W.src = src
      /\ W.owncollision = T.owncollision /\ W.ok = T.ok
  BY <1>2, <1>3 DEF HasFields, TableFields
<1> HIDE DEF W
<1>5. /\ HasFields(U) /\ U.listed = W.listed /\ U.src = W.src /\ U.announced = W.announced
      /\ U.owncollision = W.owncollision /\ U.ok = W.ok
      /\ U.total = Cardinality(U.listed) /\ U.senders = Cardinality(SendersOf(U))
      /\ U.active = Cardinality(ActiveOf(U))
  BY <1>1, <1>4, CountedIs
<1> QED BY <1>2, <1>3, <1>4, <1>5

LEMMA SweepInv ==
  ASSUME NEW T, TableInv(T), NEW U, U = MultipleTimeouts(T)
  PROVE  TableInv(U) /\ \A s \in T.listed \cap U.listed : Known(U.src[s]) = Known(T.src[s])
<1> DEFINE kept == T.listed \ (Gone(T) \cup Silent(T))
<1>1. /\ HasFields(U) /\ U.listed = kept /\ U.announced = kept
      /\ \A s \in kept : U.src[s] = Swept(T.src[s])
      /\ \A s \in SSRC \ kept : U.src[s] = NewSource
      /\ U.total = Cardinality(U.listed) /\ U.senders = Cardinality(SendersOf(U))
      /\ U.active = Cardinality(ActiveOf(U))
  <2>1. kept = T.listed \ (Gone(T) \cup Silent(T))
    OBVIOUS
  <2> HIDE DEF kept
  <2> QED BY <2>1, SweepIs
<1>2. kept \subseteq T.listed /\ \A s \in T.listed : T.src[s].own => s \in kept
  BY DEF Gone, Silent
<1>3. T.listed \subseteq SSRC /\ \A s \in SSRC : IsSource(T.src[s])
  BY DEF TableInv, IsTable
<1> HIDE DEF kept
<1>4. \A s \in U.listed : Similar(T.src[s], U.src[s])
  BY <1>1, <1>2, <1>3, SweptIs
<1>5. Counts(U)
  <2>1. IsFiniteSet(T.listed)
    BY DEF TableInv, IsTable
  <2>2. IsFiniteSet(ActiveOf(U))
    BY <1>1, <1>2, <2>1, FS_Subset DEF ActiveOf
  <2>3. Cardinality(ActiveOf(U)) \in Nat
    BY <2>2, FS_CardinalityType
  <2> QED BY <1>1, <2>3 DEF Counts
<1>6. TableInv(U)
  BY <1>1, <1>2, <1>4, <1>5, KeptInv
<1> QED BY <1>4, <1>6 DEF Similar

Grown(x) ==
  [x EXCEPT !.heard = Older(@, MemberTimeout), !.heardRTP = Older(@, SenderTimeoutDelay),
            !.byeAge = Older(@, ByeTimeout), !.noteAge = Older(@, NoteTimeoutDelay)]

\* Time passes: nobody's standing changes before the next sweep.
LEMMA AgedInv ==
  ASSUME NEW T, TableInv(T), NEW U, U = Aged(T)
  PROVE  /\ TableInv(U) /\ U.listed = T.listed
         /\ \A s \in T.listed : Known(U.src[s]) = Known(T.src[s])
<1> DEFINE src == [s \in SSRC |-> IF s \in T.listed THEN Grown(T.src[s]) ELSE T.src[s]]
<1>1. U = [T EXCEPT !.src = src]
  BY DEF Aged, Grown
<1>2. src = [s \in SSRC |-> src[s]] /\ \A s \in SSRC : src[s] = IF s \in T.listed THEN Grown(T.src[s]) ELSE T.src[s]
  OBVIOUS
<1>3. IsTable(T) /\ Counts(T) /\ T.listed \subseteq SSRC /\ T = [f \in TableFields |-> T[f]]
  BY DEF TableInv, IsTable
<1>4. ASSUME NEW x, IsSource(x) PROVE Similar(x, Grown(x)) /\ Grown(x).sender = x.sender
  <2> DEFINE a == Older(x.heard, MemberTimeout)
             b == Older(x.heardRTP, SenderTimeoutDelay)
             c == Older(x.byeAge, ByeTimeout)
             d == Older(x.noteAge, NoteTimeoutDelay)
             y == [x EXCEPT !.heard = a, !.heardRTP = b, !.byeAge = c, !.noteAge = d]
  <2>1. Grown(x) = y
    BY DEF Grown
  <2> HIDE DEF a, b, c, d
  <2>2. y = [f \in SourceFields |-> y[f]]
        /\ \A f \in SourceFields \ {"heard", "heardRTP", "byeAge", "noteAge"} : y[f] = x[f]
    BY <1>4 DEF IsSource, SourceFields
  <2> HIDE DEF y
  <2>3. Similar(x, y) /\ y.sender = x.sender
    BY <1>4, <2>2 DEF Similar, IsSource, Known, SourceFields
  <2> QED BY <2>1, <2>3
<1> HIDE DEF src
<1>5. /\ HasFields(U) /\ U.src = src /\ U.listed = T.listed /\ U.total = T.total
      /\ U.senders = T.senders /\ U.active = T.active /\ U.announced = T.announced
  BY <1>1, <1>2, <1>3 DEF HasFields, TableFields
<1>6. \A s \in T.listed : Similar(T.src[s], U.src[s]) /\ U.src[s].sender = T.src[s].sender
  BY <1>2, <1>3, <1>4, <1>5 DEF IsTable
<1>7. \A s \in SSRC \ T.listed : U.src[s] = NewSource
  BY <1>2, <1>3, <1>5 DEF IsTable
<1>8. SendersOf(U) = SendersOf(T)
  BY <1>5, <1>6 DEF SendersOf
<1>9. \A s \in T.listed : IsActive(U.src[s]) <=> IsActive(T.src[s])
  BY <1>6 DEF Similar, Known, IsActive
<1>10. ActiveOf(U) = ActiveOf(T)
  BY <1>5, <1>9 DEF ActiveOf
<1>11. Counts(U)
  BY <1>3, <1>5, <1>8, <1>10 DEF Counts
<1>12. TableInv(U)
  BY <1>5, <1>6, <1>7, <1>11, KeptInv
<1> QED BY <1>5, <1>6, <1>12 DEF Similar

\* Tables with the same fields are one.
LEMMA SameTable ==
  ASSUME NEW T, NEW U, HasFields(T), HasFields(U), \A s \in SSRC : U.src[s] = T.src[s],
         U.listed = T.listed, U.total = T.total, U.senders = T.senders, U.active = T.active,
         U.announced = T.announced, U.owncollision = T.owncollision, U.ok = T.ok
  PROVE  U = T
<1>1. U.src = T.src
  BY DEF HasFields
<1>2. \A f \in TableFields : U[f] = T[f]
  BY <1>1 DEF TableFields
<1>3. T = [f \in TableFields |-> T[f]] /\ U = [f \in TableFields |-> U[f]]
  BY DEF HasFields
<1> QED BY <1>2, <1>3

\* One of the four timeouts, on any table: only notes, or only sender marks.
LEMMA NoteTimeoutIs ==
  ASSUME NEW T, HasFields(T), \A s \in SSRC : IsSource(T.src[s]), NEW U, U = NoteTimeout(T)
  PROVE  /\ HasFields(U) /\ U.listed = T.listed /\ U.announced = T.announced
         /\ U.owncollision = T.owncollision /\ U.ok = T.ok
         /\ \A s \in SSRC : /\ U.src[s] = [f \in SourceFields |-> U.src[s][f]]
                            /\ U.src[s].note = (T.src[s].note /\ T.src[s].noteAge <= NoteTimeoutDelay)
                            /\ \A f \in SourceFields \ {"note"} : U.src[s][f] = T.src[s][f]
<1> DEFINE src == [s \in SSRC |-> [T.src[s] EXCEPT !.note = @ /\ T.src[s].noteAge <= NoteTimeoutDelay]]
           W == [T EXCEPT !.src = src]
<1>1. U = Counted(W)
  BY DEF NoteTimeout
<1>2. ASSUME NEW s \in SSRC
      PROVE  /\ src[s] = [f \in SourceFields |-> src[s][f]]
             /\ src[s].note = (T.src[s].note /\ T.src[s].noteAge <= NoteTimeoutDelay)
             /\ \A f \in SourceFields \ {"note"} : src[s][f] = T.src[s][f]
  <2> DEFINE x == T.src[s]
             b == x.note /\ x.noteAge <= NoteTimeoutDelay
             y == [x EXCEPT !.note = b]
  <2>1. src[s] = y /\ IsSource(x)
    OBVIOUS
  <2> HIDE DEF b, x, src
  <2>2. /\ y = [f \in SourceFields |-> y[f]] /\ y.note = b
        /\ \A f \in SourceFields \ {"note"} : y[f] = x[f]
    BY <2>1 DEF IsSource, SourceFields
  <2> QED BY <2>1, <2>2 DEF b, x
<1>3. src = [s \in SSRC |-> src[s]]
  OBVIOUS
<1> HIDE DEF src
<1>4. /\ HasFields(W) /\ W.src = src /\ W.listed = T.listed /\ W.announced = T.announced
      /\ W.owncollision = T.owncollision /\ W.ok = T.ok
  BY <1>3 DEF HasFields, TableFields
<1> HIDE DEF W
<1>5. /\ HasFields(U) /\ U.listed = W.listed /\ U.src = W.src /\ U.announced = W.announced
      /\ U.owncollision = W.owncollision /\ U.ok = W.ok
  BY <1>1, <1>4, CountedIs
<1> QED BY <1>2, <1>4, <1>5

LEMMA SenderTimeoutIs ==
  ASSUME NEW T, HasFields(T), \A s \in SSRC : T.src[s] = [f \in SourceFields |-> T.src[s][f]],
         NEW U, U = SenderTimeout(T)
  PROVE  /\ HasFields(U) /\ U.listed = T.listed /\ U.announced = T.announced
         /\ U.owncollision = T.owncollision /\ U.ok = T.ok
         /\ U.total = Cardinality(U.listed) /\ U.senders = Cardinality(SendersOf(U))
         /\ U.active = Cardinality(ActiveOf(U))
         /\ \A s \in SSRC : /\ U.src[s] = [f \in SourceFields |-> U.src[s][f]]
                            /\ U.src[s].sender = (T.src[s].sender /\ T.src[s].heardRTP <= SenderTimeoutDelay)
                            /\ \A f \in SourceFields \ {"sender"} : U.src[s][f] = T.src[s][f]
<1> DEFINE src == [s \in SSRC |-> [T.src[s] EXCEPT !.sender = @ /\ T.src[s].heardRTP <= SenderTimeoutDelay]]
           W == [T EXCEPT !.src = src]
<1>1. U = Counted(W)
  BY DEF SenderTimeout
<1>2. ASSUME NEW s \in SSRC
      PROVE  /\ src[s] = [f \in SourceFields |-> src[s][f]]
             /\ src[s].sender = (T.src[s].sender /\ T.src[s].heardRTP <= SenderTimeoutDelay)
             /\ \A f \in SourceFields \ {"sender"} : src[s][f] = T.src[s][f]
  <2> DEFINE x == T.src[s]
             b == x.sender /\ x.heardRTP <= SenderTimeoutDelay
             y == [x EXCEPT !.sender = b]
  <2>1. src[s] = y /\ x = [f \in SourceFields |-> x[f]]
    OBVIOUS
  <2> HIDE DEF b, x, src
  <2>2. /\ y = [f \in SourceFields |-> y[f]] /\ y.sender = b
        /\ \A f \in SourceFields \ {"sender"} : y[f] = x[f]
    BY <2>1 DEF SourceFields
  <2> QED BY <2>1, <2>2 DEF b, x
<1>3. src = [s \in SSRC |-> src[s]]
  OBVIOUS
<1> HIDE DEF src
<1>4. /\ HasFields(W) /\ W.src = src /\ W.listed = T.listed /\ W.announced = T.announced
      /\ W.owncollision = T.owncollision /\ W.ok = T.ok
  BY <1>3 DEF HasFields, TableFields
<1> HIDE DEF W
<1>5. /\ HasFields(U) /\ U.listed = W.listed /\ U.src = W.src /\ U.announced = W.announced
      /\ U.owncollision = W.owncollision /\ U.ok = W.ok
      /\ U.total = Cardinality(U.listed) /\ U.senders = Cardinality(SendersOf(U))
      /\ U.active = Cardinality(ActiveOf(U))
  BY <1>1, <1>4, CountedIs
<1> QED BY <1>2, <1>4, <1>5

\* ... and those that make sources leave.
LEMMA LeaveIs ==
  ASSUME NEW T, HasFields(T), NEW S, S \subseteq SSRC, NEW U, U = Counted(Without(T, S))
  PROVE  /\ HasFields(U) /\ U.listed = T.listed \ S /\ U.announced = T.announced \ S
         /\ U.owncollision = T.owncollision /\ U.ok = T.ok
         /\ \A s \in SSRC : U.src[s] = IF s \in S THEN NewSource ELSE T.src[s]
<1> DEFINE src == [s \in SSRC |-> IF s \in S THEN NewSource ELSE T.src[s]]
           W == Without(T, S)
<1>1. W = [T EXCEPT !.listed = @ \ S, !.announced = @ \ S, !.src = src]
  BY DEF Without
<1>2. src = [s \in SSRC |-> src[s]] /\ \A s \in SSRC : src[s] = IF s \in S THEN NewSource ELSE T.src[s]
  OBVIOUS
<1> HIDE DEF src, W
<1>3. /\ HasFields(W) /\ W.src = src /\ W.listed = T.listed \ S /\ W.announced = T.announced \ S
      /\ W.owncollision = T.owncollision /\ W.ok = T.ok
  BY <1>1, <1>2 DEF HasFields, TableFields
<1>4. /\ HasFields(U) /\ U.listed = W.listed /\ U.src = W.src /\ U.announced = W.announced
      /\ U.owncollision = W.owncollision /\ U.ok = W.ok
  BY <1>3, CountedIs DEF W
<1> QED BY <1>2, <1>3, <1>4

\* Marks that a source does not have cannot expire.
LEMMA NewIsSwept ==
  ASSUME NEW y, y = [f \in SourceFields |-> y[f]], NEW b, NEW c,
         y.sender = (NewSource.sender /\ b), y.note = (NewSource.note /\ c),
         \A f \in SourceFields \ {"sender", "note"} : y[f] = NewSource[f]
  PROVE  y = NewSource
<1>1. /\ NewSource = [f \in SourceFields |-> NewSource[f]]
      /\ NewSource.sender = FALSE /\ NewSource.note = FALSE
  BY DEF NewSource, SourceFields
<1>2. y.sender = FALSE /\ y.note = FALSE
  BY <1>1
<1>3. \A f \in SourceFields : y[f] = NewSource[f]
  BY <1>1, <1>2
<1> HIDE DEF SourceFields
<1> QED BY <1>1, <1>3

\* The single sweep is the four timeouts.
LEMMA SweepOfFour ==
  ASSUME NEW T, TableInv(T)
  PROVE  MultipleTimeouts(T) = SenderTimeout(Timeout(BYETimeout(NoteTimeout(T))))
<1> DEFINE U == MultipleTimeouts(T)
           A == NoteTimeout(T)
           B == BYETimeout(A)
           C == Timeout(B)
           D == SenderTimeout(C)
           gone == Gone(T)
           silent == Silent(T) \ gone
           kept == T.listed \ (Gone(T) \cup Silent(T))
<1>1. /\ HasFields(T) /\ \A s \in SSRC : IsSource(T.src[s])
      /\ T.announced = T.listed /\ T.listed \subseteq SSRC
      /\ \A s \in SSRC \ T.listed : T.src[s] = NewSource
  BY DEF TableInv, IsTable, Counts, HasFields
<1>2. /\ HasFields(A) /\ A.listed = T.listed /\ A.announced = T.announced
      /\ A.owncollision = T.owncollision /\ A.ok = T.ok
      /\ \A s \in SSRC : /\ A.src[s] = [f \in SourceFields |-> A.src[s][f]]
                         /\ A.src[s].note = (T.src[s].note /\ T.src[s].noteAge <= NoteTimeoutDelay)
                         /\ \A f \in SourceFields \ {"note"} : A.src[s][f] = T.src[s][f]
  BY <1>1, NoteTimeoutIs
<1>3. Gone(A) = gone
  <2>1. \A s \in T.listed : /\ A.src[s].own = T.src[s].own /\ A.src[s].bye = T.src[s].bye
                            /\ A.src[s].byeAge = T.src[s].byeAge
    BY <1>1, <1>2 DEF SourceFields
  <2> HIDE DEF A
  <2> QED BY <1>2, <2>1 DEF Gone
<1>4. /\ HasFields(B) /\ B.listed = T.listed \ gone /\ B.announced = T.listed \ gone
      /\ B.owncollision = T.owncollision /\ B.ok = T.ok
      /\ \A s \in SSRC : B.src[s] = IF s \in gone THEN NewSource ELSE A.src[s]
  <2>1. gone \subseteq SSRC /\ B = Counted(Without(A, gone))
    BY <1>1, <1>3 DEF BYETimeout, Gone
  <2> HIDE DEF A, B, gone
  <2> QED BY <1>1, <1>2, <2>1, LeaveIs
<1>5. Silent(B) = silent
  <2>1. \A s \in T.listed \ gone : B.src[s].own = T.src[s].own /\ B.src[s].heard = T.src[s].heard
    <3> HIDE DEF A, B, gone
    <3>1. \A s \in T.listed \ gone : s \in SSRC /\ B.src[s] = A.src[s]
      BY <1>1, <1>4
    <3>2. "own" \in SourceFields \ {"note"} /\ "heard" \in SourceFields \ {"note"}
      BY DEF SourceFields
    <3>3. \A s \in SSRC : A.src[s].own = T.src[s].own /\ A.src[s].heard = T.src[s].heard
      BY <1>2, <3>2
    <3> QED BY <3>1, <3>3
  <2> HIDE DEF B, gone
  <2> QED BY <1>4, <2>1 DEF Silent
<1>6. /\ HasFields(C) /\ C.listed = (T.listed \ gone) \ silent
      /\ C.announced = (T.listed \ gone) \ silent
      /\ C.owncollision = T.owncollision /\ C.ok = T.ok
      /\ \A s \in SSRC : C.src[s] = IF s \in silent THEN NewSource ELSE B.src[s]
  <2>1. silent \subseteq SSRC /\ C = Counted(Without(B, silent))
    BY <1>1, <1>5 DEF Timeout, Silent
  <2> HIDE DEF B, C, gone, silent
  <2> QED BY <1>4, <2>1, LeaveIs
<1>7. (T.listed \ gone) \ silent = kept
  OBVIOUS
<1>8. \A s \in SSRC : C.src[s] = IF s \in gone \cup silent THEN NewSource ELSE A.src[s]
  <2> HIDE DEF A, B, C, gone, silent
  <2> QED BY <1>4, <1>6
<1>9. gone \cup silent = Gone(T) \cup Silent(T)
  OBVIOUS
<1>10. /\ HasFields(U) /\ U.listed = kept /\ U.announced = kept
       /\ \A s \in kept : U.src[s] = Swept(T.src[s])
       /\ \A s \in SSRC \ kept : U.src[s] = NewSource
       /\ U.owncollision = T.owncollision /\ U.ok = T.ok
       /\ U.total = Cardinality(U.listed) /\ U.senders = Cardinality(SendersOf(U))
       /\ U.active = Cardinality(ActiveOf(U))
  <2>1. kept = T.listed \ (Gone(T) \cup Silent(T))
    OBVIOUS
  <2> HIDE DEF kept
  <2> QED BY <2>1, SweepIs
<1>11. NewSource = [f \in SourceFields |-> NewSource[f]]
  BY NewIsSource DEF IsSource
<1>12. /\ HasFields(D) /\ D.listed = C.listed /\ D.announced = C.announced
       /\ D.owncollision = C.owncollision /\ D.ok = C.ok
       /\ D.total = Cardinality(D.listed) /\ D.senders = Cardinality(SendersOf(D))
       /\ D.active = Cardinality(ActiveOf(D))
       /\ \A s \in SSRC : /\ D.src[s] = [f \in SourceFields |-> D.src[s][f]]
                          /\ D.src[s].sender = (C.src[s].sender /\ C.src[s].heardRTP <= SenderTimeoutDelay)
                          /\ \A f \in SourceFields \ {"sender"} : D.src[s][f] = C.src[s][f]
  <2>1. \A s \in SSRC : C.src[s] = [f \in SourceFields |-> C.src[s][f]]
    <3> HIDE DEF A, C, gone, silent
    <3> QED BY <1>2, <1>8, <1>11
  <2>2. D = SenderTimeout(C)
    OBVIOUS
  <2> HIDE DEF C, D
  <2> QED BY <1>6, <2>1, <2>2, SenderTimeoutIs
<1> HIDE DEF U, A, B, C, D, gone, silent
<1>13. ASSUME NEW s \in SSRC PROVE D.src[s] = U.src[s]
  <2>1. CASE s \in kept
    <3> DEFINE x == T.src[s]
               y == D.src[s]
               z == Swept(x)
    <3>1. C.src[s] = A.src[s]
      BY <1>8, <1>9, <2>1
    <3>2. /\ z = [f \in SourceFields |-> z[f]]
          /\ z.sender = (x.sender /\ x.heardRTP <= SenderTimeoutDelay)
          /\ z.note = (x.note /\ x.noteAge <= NoteTimeoutDelay)
          /\ \A f \in SourceFields \ {"sender", "note"} : z[f] = x[f]
      BY <1>1, SweptIs
    <3>3. /\ A.src[s].sender = x.sender /\ A.src[s].heardRTP = x.heardRTP
      BY <1>2 DEF SourceFields
    <3>4. /\ y = [f \in SourceFields |-> y[f]]
          /\ y.sender = (x.sender /\ x.heardRTP <= SenderTimeoutDelay)
      BY <1>12, <3>1, <3>3
    <3>5. y.note = (x.note /\ x.noteAge <= NoteTimeoutDelay)
      <4>1. y.note = A.src[s].note
        <5>1. "note" \in SourceFields \ {"sender"}
          BY DEF SourceFields
        <5> QED BY <1>12, <3>1, <5>1
      <4> QED BY <1>2, <4>1
    <3>6. \A f \in SourceFields \ {"sender", "note"} : y[f] = x[f]
      <4>1. \A f \in SourceFields \ {"sender"} : y[f] = A.src[s][f]
        BY <1>12, <3>1
      <4>2. \A f \in SourceFields \ {"note"} : A.src[s][f] = x[f]
        BY <1>2
      <4> QED BY <4>1, <4>2
    <3> HIDE DEF x, y, z
    <3>7. \A f \in SourceFields : y[f] = z[f]
      BY <3>2, <3>4, <3>5, <3>6
    <3> HIDE DEF SourceFields
    <3>8. y = z
      BY <3>2, <3>4, <3>7
    <3> QED BY <1>10, <2>1, <3>8 DEF x, y, z
  <2>2. CASE s \in gone \cup silent
    <3> DEFINE y == D.src[s]
               b == NewSource.heardRTP <= SenderTimeoutDelay
    <3>1. C.src[s] = NewSource
      BY <1>8, <2>2
    <3>2. /\ y = [f \in SourceFields |-> y[f]]
          /\ y.sender = (NewSource.sender /\ b)
          /\ \A f \in SourceFields \ {"sender"} : y[f] = NewSource[f]
      BY <1>12, <3>1
    <3>3. y.note = (NewSource.note /\ TRUE)
      <4>1. y.note = NewSource.note /\ NewSource.note = FALSE
        BY <3>2 DEF SourceFields, NewSource
      <4> QED BY <4>1
    <3> HIDE DEF y, b
    <3>4. y = NewSource
      BY <3>2, <3>3, NewIsSwept
    <3> QED BY <1>9, <1>10, <2>2, <3>4 DEF y
  <2>3. CASE s \notin T.listed
    <3> DEFINE y == D.src[s]
               b == NewSource.heardRTP <= SenderTimeoutDelay
               c == NewSource.noteAge <= NoteTimeoutDelay
    <3>1. C.src[s] = A.src[s] /\ T.src[s] = NewSource
      BY <1>1, <1>8, <2>3 DEF gone, silent, Gone, Silent
    <3>2. A.src[s].sender = NewSource.sender /\ A.src[s].heardRTP = NewSource.heardRTP
      BY <1>2, <3>1 DEF SourceFields
    <3>3. /\ y = [f \in SourceFields |-> y[f]]
          /\ y.sender = (NewSource.sender /\ b)
          /\ y.note = (NewSource.note /\ c)
          /\ \A f \in SourceFields \ {"sender", "note"} : y[f] = NewSource[f]
      <4>1. y.note = A.src[s].note
        <5>1. "note" \in SourceFields \ {"sender"}
          BY DEF SourceFields
        <5> QED BY <1>12, <3>1, <5>1
      <4>2. y.note = (NewSource.note /\ c)
        BY <1>2, <3>1, <4>1
      <4>3. \A f \in SourceFields \ {"sender"} : y[f] = A.src[s][f]
        BY <1>12, <3>1
      <4>4. \A f \in SourceFields \ {"note"} : A.src[s][f] = NewSource[f]
        BY <1>2, <3>1
      <4>5. /\ y = [f \in SourceFields |-> y[f]]
            /\ y.sender = (NewSource.sender /\ b)
        BY <1>12, <3>1, <3>2
      <4> QED BY <4>2, <4>3, <4>4, <4>5
    <3> HIDE DEF y, b, c
    <3>4. y = NewSource
      BY <3>3, NewIsSwept
    <3> QED BY <1>10, <2>3, <3>4 DEF y
  <2> QED BY <1>9, <2>1, <2>2, <2>3
<1>14. D.listed = kept /\ D.announced = kept
  BY <1>6, <1>7, <1>12
<1>15. SendersOf(D) = SendersOf(U) /\ ActiveOf(D) = ActiveOf(U)
  <2>1. kept \subseteq SSRC
    BY <1>1
  <2> HIDE DEF kept
  <2> QED BY <1>10, <1>13, <1>14, <2>1 DEF SendersOf, ActiveOf
<1>16. /\ D.owncollision = U.owncollision /\ D.ok = U.ok /\ D.listed = U.listed
       /\ D.announced = U.announced /\ D.total = U.total /\ D.senders = U.senders
       /\ D.active = U.active
  BY <1>6, <1>10, <1>12, <1>14, <1>15
<1>17. U = D
  BY <1>10, <1>12, <1>13, <1>16, SameTable
<1> QED BY <1>17 DEF U, A, B, C, D

-----------------------------------------------------------------------------
(* The state machine. *)

\* Who a source is changes only by a packet of its own host.
HostsKept(T, U, from) ==
  \A s \in T.listed \cap U.listed : Known(T.src[s]) # Known(U.src[s]) => OfHost(T.src[s], from)

\* Each packet begins with the flags cleared.
LEMMA FreshReached == ASSUME TableInv(table), NEW from PROVE Reached(table, Fresh, from)
<1>1. table = [f \in TableFields |-> table[f]]
  BY DEF TableInv, IsTable
<1>2. /\ Fresh = [f \in TableFields |-> Fresh[f]]
      /\ \A f \in TableFields \ {"owncollision", "ok"} : Fresh[f] = table[f]
  BY <1>1 DEF Fresh, TableFields
<1> HIDE DEF Fresh
<1> QED BY <1>2, FlagsReached

LEMMA ReachedKept ==
  ASSUME NEW T, NEW U, NEW from, Reached(T, U, from)
  PROVE  TableInv(U) /\ HostsKept(T, U, from)
  BY DEF Reached, HostsKept

LEMMA ReceiveRTPKept ==
  ASSUME TableInv(table), NEW p \in RTPPacket, NEW from \in Sender, ReceiveRTP(p, from)
  PROVE  TableInv(table') /\ HostsKept(table, table', sender')
<1>1. p.ssrc \in SSRC /\ p.csrcs \in Seq(SSRC)
  <2>1. p.ssrc \in SSRC /\ p.csrcs \in {<<>>} \cup {<<c>> : c \in SSRC}
    BY DEF RTPPacket
  <2>2. CASE p.csrcs = <<>>
    BY <2>1, <2>2
  <2>3. CASE p.csrcs \in {<<c>> : c \in SSRC}
    <3>1. PICK c \in SSRC : p.csrcs = <<c>>
      BY <2>3
    <3> QED BY <2>1, <3>1
  <2> QED BY <2>1, <2>2, <2>3
<1>2. table' = ProcessRTPPacket(Fresh, p, from) /\ sender' = from
  BY DEF ReceiveRTP, Receive
<1>3. Reached(table, Fresh, from) /\ TableInv(Fresh)
  BY FreshReached DEF Reached
<1>4. Reached(Fresh, table', from)
  BY <1>1, <1>2, <1>3, RTPReached
<1>5. Reached(table, table', from)
  BY <1>3, <1>4, ReachedTrans
<1> QED BY <1>2, <1>5, ReachedKept

LEMMA ReceiveRTCPKept ==
  ASSUME TableInv(table), NEW parts \in Compound, NEW from \in Sender, ReceiveRTCP(parts, from)
  PROVE  TableInv(table') /\ HostsKept(table, table', sender')
<1> DEFINE Reports == [kind : {"report"}, ssrc : SSRC, name : {NoName}]
           P == Reports \cup Part
<1>1. parts \in Seq(P)
  <2>1. PICK r \in Reports : parts \in {<<r>>} \cup {<<r, a>> : a \in Part}
    BY DEF Compound
  <2>2. r \in P
    OBVIOUS
  <2>3. CASE parts = <<r>>
    <3> HIDE DEF P
    <3> QED BY <2>2, <2>3
  <2>4. CASE parts \in {<<r, a>> : a \in Part}
    <3>1. PICK a \in Part : parts = <<r, a>>
      BY <2>4
    <3>2. a \in P
      OBVIOUS
    <3> HIDE DEF P
    <3> QED BY <2>2, <3>1, <3>2
  <2> QED BY <2>1, <2>3, <2>4
<1>2. \A q \in P : q.ssrc \in SSRC
  BY DEF Part
<1> HIDE DEF P
<1>3. table' = ProcessRTCPCompoundPacket(Fresh, parts, from) /\ sender' = from
  BY DEF ReceiveRTCP, Receive
<1>4. Reached(table, Fresh, from) /\ TableInv(Fresh)
  BY FreshReached DEF Reached
<1>5. Reached(Fresh, table', from)
  BY <1>1, <1>2, <1>3, <1>4, PartsReached
<1>6. Reached(table, table', from)
  BY <1>4, <1>5, ReachedTrans
<1> QED BY <1>3, <1>6, ReachedKept

\* A source that stays what it is known as, whatever its marks.
LEMMA MarkKept ==
  ASSUME NEW T, TableInv(T), NEW s \in T.listed, NEW U, NEW y, Becomes(T, U, s, y),
         IsSource(y), y.own = T.src[s].own, T.src[s].sender => y.sender, Known(y) = Known(T.src[s]),
         NEW from
  PROVE  TableInv(U) /\ HostsKept(T, U, from)
<1> DEFINE x == T.src[s]
<1>1. OneHost(x) /\ T.listed \subseteq SSRC
  BY DEF TableInv, IsTable
<1>2. y.rtp = x.rtp /\ y.rtcp = x.rtcp /\ y.validated = x.validated /\ y.bye = x.bye
  BY DEF Known
<1>3. Evolves(x, y, from)
  <2> HIDE DEF x
  <2>1. OneHost(y)
    BY <1>1, <1>2 DEF OneHost
  <2> QED BY <1>2, <2>1 DEF Evolves, x
<1>4. Reached(T, U, from)
  BY <1>1, <1>3, BecomesReached
<1> QED BY <1>4, ReachedKept

LEMMA SendKept ==
  ASSUME TableInv(table), SendRTPPacket
  PROVE  TableInv(table') /\ HostsKept(table, table', sender')
<1>1. PICK s \in OwnSources : table' = SentRTPPacket(table, s)
  BY DEF SendRTPPacket
<1> DEFINE x == table.src[s]
           y == [x EXCEPT !.sender = TRUE, !.heard = 0, !.heardRTP = 0]
<1>2. /\ s \in table.listed /\ s \in SSRC /\ HasFields(table) /\ IsSource(x)
      /\ IsTable(table) /\ Counts(table)
  BY DEF OwnSources, TableInv, IsTable, HasFields
<1>3. table' = Recounted(table, s, y)
  BY <1>1 DEF SentRTPPacket
<1>4. IsSource(y) /\ y.own = x.own /\ y.sender /\ Known(y) = Known(x)
  BY <1>2 DEF IsSource, SourceFields, Known
<1> HIDE DEF y
<1>5. /\ HasFields(table') /\ table'.src = [table.src EXCEPT ![s] = y]
      /\ table'.listed = table.listed /\ table'.total = table.total
      /\ table'.announced = table.announced
      /\ table'.senders = table.senders + One(y.sender /\ ~table.src[s].sender)
      /\ table'.active = table.active + One(IsActive(y)) - One(IsActive(table.src[s]))
  BY <1>2, <1>3, RecountedIs
<1>6. table'.active \in Int
  <2>1. table.active \in Int /\ One(IsActive(y)) \in Int /\ One(IsActive(table.src[s])) \in Int
    BY <1>2 DEF Counts, One
  <2> QED BY <1>5, <2>1
<1>7. table.listed = table.listed \cup {s}
  BY <1>2
<1>8. Becomes(table, table', s, y)
  <2>1. table'.active <= table.active + One(IsActive(y)) - One(IsActive(table.src[s]))
    BY <1>5, <1>6
  <2> QED BY <1>2, <1>5, <1>6, <1>7, <2>1 DEF Becomes, HasFields, Counts
<1> QED BY <1>2, <1>4, <1>8, MarkKept

LEMMA TakeKept ==
  ASSUME TableInv(table), TakePacket
  PROVE  TableInv(table') /\ HostsKept(table, table', sender')
<1>1. PICK s \in table.listed : table' = [table EXCEPT !.src[s].queue = @ - 1]
  BY DEF TakePacket
<1> DEFINE x == table.src[s]
           n == x.queue - 1
           y == [x EXCEPT !.queue = n]
<1>2. s \in SSRC /\ HasFields(table) /\ IsSource(x) /\ IsTable(table) /\ Counts(table)
  BY DEF TableInv, IsTable, HasFields
<1>3. table' = [table EXCEPT !.src = [table.src EXCEPT ![s] = y]]
  BY <1>1
<1> HIDE DEF n
<1>4. IsSource(y) /\ y.own = x.own /\ y.sender = x.sender /\ Known(y) = Known(x)
  BY <1>2 DEF IsSource, SourceFields, Known
<1> HIDE DEF y
<1>5. /\ HasFields(table') /\ table'.src = [table.src EXCEPT ![s] = y]
      /\ table'.listed = table.listed /\ table'.total = table.total
      /\ table'.announced = table.announced /\ table'.senders = table.senders
      /\ table'.active = table.active
  BY <1>2, <1>3 DEF HasFields, TableFields
<1>6. IsActive(x) => IsActive(y)
  BY <1>4 DEF Known, IsActive
<1>7. Becomes(table, table', s, y)
  BY <1>2, <1>4, <1>5, <1>6, SetBecomes
<1> QED BY <1>4, <1>7, MarkKept

LEMMA ChangeKept ==
  ASSUME TableInv(table), ChangeSSRC
  PROVE  TableInv(table') /\ HostsKept(table, table', sender')
<1> DEFINE Cleared == [table EXCEPT !.owncollision = FALSE]
<1>1. PICK s \in OwnSources, new \in SSRC \ table.listed :
        table' = CreateOwnSSRC(DeleteOwnSSRC(Cleared, s), new)
  BY DEF ChangeSSRC
<1>2. table = [f \in TableFields |-> table[f]]
  BY DEF TableInv, IsTable
<1>3. /\ Cleared = [f \in TableFields |-> Cleared[f]]
      /\ \A f \in TableFields \ {"owncollision", "ok"} : Cleared[f] = table[f]
      /\ Cleared.listed = table.listed /\ Cleared.src = table.src
  BY <1>2 DEF TableFields
<1> HIDE DEF Cleared
<1>4. TableInv(Cleared)
  <2>1. Reached(table, Cleared, sender)
    BY <1>3, FlagsReached
  <2> QED BY <2>1 DEF Reached
<1> DEFINE D == DeleteOwnSSRC(Cleared, s)
<1>5. s \in Cleared.listed /\ Cleared.src[s].own
  BY <1>3 DEF OwnSources
<1>6. /\ Ownerless(D) /\ D.listed = Cleared.listed \ {s}
      /\ \A u \in D.listed : D.src[u] = Cleared.src[u]
  BY <1>4, <1>5, DeleteIs
<1>7. table' = CreateOwnSSRC(D, new)
  BY <1>1
<1> HIDE DEF D
<1>8. new \in SSRC \ D.listed
  BY <1>3, <1>6
<1>9. /\ TableInv(table') /\ table'.listed = D.listed \cup {new}
      /\ \A u \in D.listed : table'.src[u] = D.src[u]
  BY <1>6, <1>7, <1>8, CreateIs
<1>10. \A u \in table.listed \cap table'.listed : table'.src[u] = table.src[u]
  BY <1>3, <1>6, <1>9
<1> QED BY <1>9, <1>10 DEF HostsKept

\* The table is in order, and stays so.
LEMMA StepKept ==
  ASSUME TableInv(table), [Next]_vars
  PROVE  TableInv(table') /\ HostsKept(table, table', sender')
<1>1. ASSUME NEW p \in RTPPacket, NEW from \in Sender, ReceiveRTP(p, from)
      PROVE  TableInv(table') /\ HostsKept(table, table', sender')
  BY <1>1, ReceiveRTPKept
<1>2. ASSUME NEW parts \in Compound, NEW from \in Sender, ReceiveRTCP(parts, from)
      PROVE  TableInv(table') /\ HostsKept(table, table', sender')
  BY <1>2, ReceiveRTCPKept
<1>3. CASE SendRTPPacket
  BY <1>3, SendKept
<1>4. CASE ChangeSSRC
  BY <1>4, ChangeKept
<1>5. CASE TakePacket
  BY <1>5, TakeKept
<1>6. CASE Sweep
  <2>1. table' = MultipleTimeouts(table)
    BY <1>6 DEF Sweep
  <2>2. TableInv(table')
        /\ \A s \in table.listed \cap table'.listed : Known(table'.src[s]) = Known(table.src[s])
    BY <2>1, SweepInv
  <2> QED BY <2>2 DEF HostsKept
<1>7. CASE Tick
  <2>1. table' = Aged(table)
    BY <1>7 DEF Tick
  <2>2. TableInv(table') /\ \A s \in table.listed : Known(table'.src[s]) = Known(table.src[s])
    BY <2>1, AgedInv
  <2> QED BY <2>2 DEF HostsKept
<1>8. CASE UNCHANGED vars
  <2>1. table' = table
    BY <1>8 DEF vars
  <2> QED BY <2>1 DEF HostsKept
<1> QED BY <1>1, <1>2, <1>3, <1>4, <1>5, <1>6, <1>7, <1>8 DEF Next

LEMMA InitHolds == Init => TableInv(table)
<1> SUFFICES ASSUME Init PROVE TableInv(table)
  OBVIOUS
<1>1. table = CreateOwnSSRC(EmptyTable, OwnSSRC)
  BY DEF Init
<1>2. OwnSSRC \in SSRC \ EmptyTable.listed
  BY SourcesAssumption DEF EmptyTable
<1> QED BY <1>1, <1>2, EmptyIsOwnerless, CreateIs

\* Every table the session can come to is in order: the counters and the
\* announcements agree with the list, one source is our own and active under
\* our addresses, and no source has addresses of two hosts (rtpsources.cpp,
\* rtpinternalsourcedata.cpp), whatever packets come, for any number of
\* participants and any delays.
THEOREM TableStaysInOrder == Spec => []TableInv(table)
<1>1. TableInv(table) /\ [Next]_vars => TableInv(table)'
  BY StepKept
<1> QED BY <1>1, InitHolds, PTL DEF Spec

LEMMA OrderedIsCounted == TableInv(table) => SourcesCounted
<1> SUFFICES ASSUME TableInv(table) PROVE SourcesCounted
  OBVIOUS
<1>1. CountsAgree /\ ActiveNeverOver /\ AnnouncedAreListed
  BY DEF TableInv, Counts, SendersOf, ActiveOf, CountsAgree, ActiveNeverOver, AnnouncedAreListed
<1>2. SweepIsFourTimeouts
  BY SweepOfFour DEF SweepIsFourTimeouts
<1> QED BY <1>1, <1>2 DEF SourcesCounted

\* What JRTPLIB counts in the table and what it announced to the application
\* is what the table lists, after any packets, timeouts, collisions and
\* changes of our SSRC; and MultipleTimeouts does in one walk what the four
\* timeouts of RTPSources do one after the other.
THEOREM SourcesAreCounted == Spec => []SourcesCounted
  BY TableStaysInOrder, OrderedIsCounted, PTL

LEMMA OrderedIsHosted == TableInv(table) => SameHost /\ OwnStaysActive
<1> SUFFICES ASSUME TableInv(table) PROVE SameHost /\ OwnStaysActive
  OBVIOUS
<1>1. SameHost
  BY DEF TableInv, IsTable, OneHost, SameHost
<1>2. PICK o \in table.listed :
        /\ \A u \in table.listed : table.src[u].own <=> u = o
        /\ IsActive(table.src[o]) /\ table.src[o].rtp = Own /\ table.src[o].rtcp = Own
  BY DEF TableInv, OneOwn
<1>3. OwnSources = {o}
  BY <1>2 DEF OwnSources
<1>4. OwnStaysActive
  BY <1>2, <1>3 DEF OwnStaysActive
<1> QED BY <1>1, <1>4

\* RTPInternalSourceData::CheckCollision and the ignored BYE together: nobody
\* but a host itself changes who its sources are, whether they are valid and
\* whether they have left, and our own source stays one and active.
THEOREM SourcesBelongToHosts == Spec => SourcesKeepHost
<1>1. TableInv(table) /\ [Next]_vars =>
        [\A s \in table.listed \cap table'.listed :
           LET x == table.src[s]
               y == table'.src[s]
           IN <<x.rtp, x.rtcp, x.validated, x.csrc, x.cname, x.bye, x.data, x.probation>>
                # <<y.rtp, y.rtcp, y.validated, y.csrc, y.cname, y.bye, y.data, y.probation>>
              => \A a \in {x.rtp, x.rtcp} \ {Unset} : a.host = sender'.host]_vars
  BY StepKept DEF HostsKept, Known, OfHost
<1> QED BY <1>1, TableStaysInOrder, OrderedIsHosted, PTL
         DEF Spec, SourcesKeepHost, OnlyOwnHostChanges

==================================================
