------------------------ MODULE ServerSessionsProofs ------------------------
(***************************************************************************)
(* Proofs about ServerSessions, for every set of clients, names and heap   *)
(* slots.  The inductive invariant is SessionInv: that a held object is    *)
(* live is not inductive by itself, since removeServerMediaSession only    *)
(* looks at the reference count; it needs that the count covers the        *)
(* holders, and that what the table lists is live.                         *)
(***************************************************************************)
EXTENDS ServerSessions, FiniteSetTheorems, TLAPS

-----------------------------------------------------------------------------
(* Counting the users of an object. *)

\* The number of users is a natural number, and zero only if nobody uses it.
LEMMA UserCount ==
  ASSUME NEW f, NEW o
  PROVE  /\ IsFiniteSet(Users(f, o))
         /\ Cardinality(Users(f, o)) \in Nat
         /\ Cardinality(Users(f, o)) = 0 => \A c \in Client : f[c] # o
<1>1. IsFiniteSet(Users(f, o))
  BY FS_Subset, ServerAssumption DEF Users
<1>2. Cardinality(Users(f, o)) \in Nat
  BY <1>1, FS_CardinalityType
<1>3. Cardinality(Users(f, o)) = 0 => Users(f, o) = {}
  BY <1>1, FS_EmptySet
<1>4. QED
  BY <1>1, <1>2, <1>3 DEF Users

\* Giving client c the session p: the users of any other object do not grow,
\* and those of p grow by at most c.
LEMMA Reassign ==
  ASSUME NEW f \in [Client -> ObjectOrNone], NEW c \in Client,
         NEW p \in ObjectOrNone, NEW o \in Object
  PROVE  LET g == [f EXCEPT ![c] = p]
         IN /\ p # o => Cardinality(Users(g, o)) <= Cardinality(Users(f, o))
            /\ p # o /\ f[c] = o
                 => Cardinality(Users(g, o)) = Cardinality(Users(f, o)) - 1
            /\ p = o => Cardinality(Users(g, o)) <= Cardinality(Users(f, o)) + 1
<1> DEFINE g == [f EXCEPT ![c] = p]
<1>1. IsFiniteSet(Users(f, o)) /\ Cardinality(Users(f, o)) \in Nat
  BY UserCount
<1>2. ASSUME p # o, f[c] # o
      PROVE  Users(g, o) = Users(f, o)
  BY <1>2 DEF Users
<1>3. ASSUME p # o, f[c] = o
      PROVE  Cardinality(Users(g, o)) = Cardinality(Users(f, o)) - 1
  <2>1. Users(g, o) = Users(f, o) \ {c} /\ c \in Users(f, o)
    BY <1>3 DEF Users
  <2>2. QED
    BY <2>1, <1>1, FS_RemoveElement
<1>4. ASSUME p = o
      PROVE  Cardinality(Users(g, o)) <= Cardinality(Users(f, o)) + 1
  <2>1. Users(g, o) = Users(f, o) \cup {c}
    BY <1>4 DEF Users
  <2>2. /\ c \in Users(f, o) => Cardinality(Users(f, o) \cup {c}) = Cardinality(Users(f, o))
        /\ c \notin Users(f, o)
             => Cardinality(Users(f, o) \cup {c}) = Cardinality(Users(f, o)) + 1
    BY <1>1, FS_AddElement
  <2> HIDE DEF g
  <2>3. Cardinality(Users(f, o) \cup {c}) <= Cardinality(Users(f, o)) + 1
    BY <2>2, <1>1
  <2>4. QED
    BY <2>1, <2>3
<1>5. QED
  BY <1>1, <1>2, <1>3, <1>4

-----------------------------------------------------------------------------
(* The two building blocks of the handlers. *)

\* The destructor of a client session keeps the invariant, from a state in
\* which the reference counts r already cover c's use of o.
LEMMA DeleteKeeps ==
  ASSUME SessionInv, NEW c \in Client, NEW o \in ObjectOrNone,
         NEW r \in [Object -> Nat],
         o # None => life[o] = "live",
         \A x \in Object : Cardinality(Users([ours EXCEPT ![c] = o], x)) <= r[x],
         DeleteClientSession(c, o, r)
  PROVE  /\ table' \in [Name -> ObjectOrNone] /\ life' \in [Object -> {"free", "live"}]
         /\ streamName' \in [Object -> Name] /\ refs' \in [Object -> Nat]
         /\ open' \subseteq Client /\ reader' \subseteq Client /\ timer' \subseteq Client
         /\ ours' \in [Client -> ObjectOrNone] /\ streams' \in [Client -> ObjectOrNone]
         /\ NoDanglingSession' /\ TableListsLiveSessions' /\ RefCountCoversHolders'
<1> DEFINE f == [ours EXCEPT ![c] = o]
           left == Decrement(r, o)
           last == o # None /\ left[o] = 0
<1>1. TypeOK /\ None \notin Object
  BY ServerAssumption DEF SessionInv
<1>2. f \in [Client -> ObjectOrNone] /\ left \in [Object -> Nat]
  BY <1>1 DEF TypeOK, ObjectOrNone, Decrement
<1>3. ours' = [f EXCEPT ![c] = None] /\ refs' = left
  BY <1>1 DEF DeleteClientSession, TypeOK
<1>4. RefCountCoversHolders'
  <2> SUFFICES ASSUME NEW x \in Object
               PROVE  Cardinality(Users(ours', x)) <= left[x]
    BY <1>3 DEF RefCountCoversHolders, Users
  <2>1. Cardinality(Users(f, x)) \in Nat /\ Cardinality(Users(f, x)) <= r[x]
    BY UserCount
  <2>2. Cardinality(Users(ours', x)) \in Nat
    BY UserCount
  <2>3. None # x /\ None \in ObjectOrNone
    BY <1>1 DEF ObjectOrNone
  <2>4. CASE x = o
    <3>1. f[c] = x
      BY <2>4, <1>1 DEF TypeOK
    <3>2. Cardinality(Users(ours', x)) = Cardinality(Users(f, x)) - 1
      BY <3>1, <2>3, <1>2, <1>3, Reassign
    <3>3. left[x] = IF r[x] > 0 THEN r[x] - 1 ELSE r[x]
      BY <2>4, <2>3 DEF Decrement
    <3>4. QED
      BY <3>2, <3>3, <2>1, <2>2
  <2>5. CASE x # o
    <3>1. Cardinality(Users(ours', x)) <= Cardinality(Users(f, x))
      BY <2>3, <1>2, <1>3, Reassign
    <3>2. left[x] = r[x]
      BY <2>5 DEF Decrement
    <3>3. QED
      BY <3>1, <3>2, <2>1, <2>2
  <2>6. QED
    BY <2>4, <2>5
<1>5. /\ table' = IF last THEN Unlist(table, o) ELSE table
      /\ life' = IF last THEN [life EXCEPT ![o] = "free"] ELSE life
      /\ streamName' = streamName
      /\ open' = open \ {c}
  BY DEF DeleteClientSession
<1> HIDE DEF f, left
<1>6. NoDanglingSession'
  <2> SUFFICES ASSUME NEW d \in Client, ours'[d] # None
               PROVE  d \in open' /\ life'[ours'[d]] = "live"
    BY DEF NoDanglingSession
  <2>1. d # c /\ ours'[d] = ours[d] /\ ours[d] \in Object
    BY <1>1 DEF DeleteClientSession, TypeOK, ObjectOrNone
  <2>2. d \in open /\ life[ours[d]] = "live"
    BY <2>1 DEF SessionInv, NoDanglingSession
  <2>3. ASSUME last
        PROVE  ours[d] # o
    <3>1. o \in Object /\ refs'[o] = 0
      BY <2>3, <1>3 DEF ObjectOrNone
    <3>2. Cardinality(Users(ours', o)) = 0
      <4>1. Cardinality(Users(ours', o)) \in Nat
        BY UserCount
      <4>2. Cardinality(Users(ours', o)) <= 0
        BY <3>1, <1>4 DEF RefCountCoversHolders, Users
      <4>3. QED
        BY <4>1, <4>2
    <3>3. QED
      BY <3>2, <2>1, UserCount
  <2>4. QED
    BY <2>1, <2>2, <2>3, <1>1, <1>5 DEF TypeOK
<1>7. TableListsLiveSessions'
  <2> SUFFICES ASSUME NEW n \in Name, table'[n] # None
               PROVE  life'[table'[n]] = "live" /\ streamName'[table'[n]] = n
    BY DEF TableListsLiveSessions
  <2>1. ASSUME last
        PROVE  /\ n # streamName[o] => table'[n] = table[n]
               /\ n = streamName[o] => table'[n] = None
    BY <2>1, <1>1, <1>5 DEF TypeOK, Unlist
  <2>2. table'[n] = table[n]
    BY <2>1, <1>5
  <2>3. life[table[n]] = "live" /\ streamName[table[n]] = n /\ table[n] \in Object
    BY <2>2, <1>1 DEF SessionInv, TableListsLiveSessions, TypeOK, ObjectOrNone
  <2>4. last => table[n] # o
    BY <2>1, <2>3
  <2>5. QED
    BY <2>2, <2>3, <2>4, <1>1, <1>5 DEF TypeOK
<1>8. /\ table' \in [Name -> ObjectOrNone] /\ life' \in [Object -> {"free", "live"}]
      /\ streamName' \in [Object -> Name]
  BY <1>1, <1>5 DEF TypeOK, Unlist, ObjectOrNone
<1>9. /\ refs' \in [Object -> Nat]
      /\ open' \subseteq Client /\ reader' \subseteq Client /\ timer' \subseteq Client
  BY <1>1, <1>2, <1>3 DEF TypeOK, DeleteClientSession, CloseSockets
<1>10. ours' \in [Client -> ObjectOrNone] /\ streams' \in [Client -> ObjectOrNone]
  BY <1>1 DEF TypeOK, DeleteClientSession, ObjectOrNone
<1>11. QED
  BY <1>4, <1>6, <1>7, <1>8, <1>9, <1>10

\* The reference SETUP takes covers the use it makes of its target.
LEMMA SetupReference ==
  ASSUME SessionInv, NEW c \in Client, NEW n \in Name, NEW t \in Track,
         SetupTarget(c, n, t) # None
  PROVE  LET o == SetupTarget(c, n, t)
             r == SetupRefs(c, n, t)
         IN /\ o \in Object /\ life[o] = "live"
            /\ r \in [Object -> Nat]
            /\ \A x \in Object : Cardinality(Users([ours EXCEPT ![c] = o], x)) <= r[x]
<1> DEFINE o == SetupTarget(c, n, t)
           r == SetupRefs(c, n, t)
<1>1. TypeOK /\ None \notin Object
  BY ServerAssumption DEF SessionInv
<1>2. o \in Object /\ life[o] = "live"
  BY <1>1 DEF SessionInv, TypeOK, ObjectOrNone, SetupTarget, KeepsSession,
              NoDanglingSession, TableListsLiveSessions
<1>3. r \in [Object -> Nat]
  BY <1>1, <1>2 DEF SetupRefs, Increment, TypeOK
<1>4. ASSUME NEW x \in Object
      PROVE  Cardinality(Users([ours EXCEPT ![c] = o], x)) <= r[x]
  <2>1. Cardinality(Users(ours, x)) <= refs[x] /\ Cardinality(Users(ours, x)) \in Nat
    BY UserCount DEF SessionInv, RefCountCoversHolders
  <2>2. CASE KeepsSession(c, n, t)
    <3>1. [ours EXCEPT ![c] = o] = ours /\ r = refs
      BY <2>2, <1>1 DEF SetupTarget, SetupRefs, TypeOK
    <3>2. QED
      BY <3>1, <2>1
  <2>3. CASE ~ KeepsSession(c, n, t)
    <3>1. r = [refs EXCEPT ![o] = @ + 1]
      BY <2>3 DEF SetupRefs, Increment
    <3>2. Cardinality(Users([ours EXCEPT ![c] = o], x)) \in Nat /\ refs[x] \in Nat
      BY UserCount, <1>1 DEF TypeOK
    <3>3. o \in ObjectOrNone /\ ours \in [Client -> ObjectOrNone]
      BY <1>1, <1>2 DEF ObjectOrNone, TypeOK
    <3>4. CASE x = o
      <4>1. Cardinality(Users([ours EXCEPT ![c] = o], x)) <= Cardinality(Users(ours, x)) + 1
        BY <3>3, <3>4, Reassign
      <4>2. r[x] = refs[x] + 1
        BY <3>1, <3>4, <1>1 DEF TypeOK
      <4> HIDE DEF o, r
      <4>3. QED
        BY <4>1, <4>2, <3>2, <2>1
    <3>5. CASE x # o
      <4>1. Cardinality(Users([ours EXCEPT ![c] = o], x)) <= Cardinality(Users(ours, x))
        BY <3>3, <3>5, Reassign
      <4>2. r[x] = refs[x]
        BY <3>1, <3>5, <1>1 DEF TypeOK
      <4> HIDE DEF o, r
      <4>3. QED
        BY <4>1, <4>2, <3>2, <2>1
    <3>6. QED
      BY <3>4, <3>5
  <2>4. QED
    BY <2>2, <2>3
<1>5. QED
  BY <1>2, <1>3, <1>4

-----------------------------------------------------------------------------
(* The invariant. *)

LEMMA InitInv == Init => SessionInv
<1> SUFFICES ASSUME Init PROVE SessionInv
  OBVIOUS
<1>1. TypeOK
  BY ServerAssumption DEF Init, TypeOK, ObjectOrNone, AppView
<1>2. ASSUME NEW o \in Object
      PROVE  Cardinality(Users(ours, o)) <= refs[o]
  <2>1. Users(ours, o) = {}
    BY ServerAssumption DEF Init, Users
  <2>2. QED
    BY <2>1, FS_EmptySet DEF Init
<1>3. QED
  BY <1>1, <1>2 DEF Init, SessionInv, NoDanglingSession, TableListsLiveSessions,
                    RefCountCoversHolders

\* A handler that ends by deleting its client session, with no reference taken.
LEMMA LeaveKeeps ==
  ASSUME SessionInv, NEW c \in Client, DeleteClientSession(c, ours[c], refs),
         app' \in [Client -> AppView], vanished' \subseteq Client
  PROVE  SessionInv'
<1>1. TypeOK
  BY DEF SessionInv
<1>2. ours[c] \in ObjectOrNone /\ refs \in [Object -> Nat]
  BY <1>1 DEF TypeOK
<1>3. ours[c] # None => life[ours[c]] = "live"
  BY DEF SessionInv, NoDanglingSession
<1>4. [ours EXCEPT ![c] = ours[c]] = ours
  BY <1>1 DEF TypeOK
<1>5. \A x \in Object : Cardinality(Users([ours EXCEPT ![c] = ours[c]], x)) <= refs[x]
  BY <1>4 DEF SessionInv, RefCountCoversHolders
<1>6. QED
  BY <1>2, <1>3, <1>5, DeleteKeeps DEF SessionInv, TypeOK

\* A client session that is deleted after SETUP overwrote its session by NULL.
LEMMA ForgetKeeps ==
  ASSUME SessionInv, NEW c \in Client, DeleteClientSession(c, None, refs),
         app' = app, vanished' = vanished
  PROVE  SessionInv'
<1>1. TypeOK /\ None \notin Object /\ None \in ObjectOrNone
  BY ServerAssumption DEF SessionInv, ObjectOrNone
<1>2. ASSUME NEW x \in Object
      PROVE  Cardinality(Users([ours EXCEPT ![c] = None], x)) <= refs[x]
  <2>1. Cardinality(Users(ours, x)) <= refs[x] /\ Cardinality(Users(ours, x)) \in Nat
    BY UserCount DEF SessionInv, RefCountCoversHolders
  <2>2. Cardinality(Users([ours EXCEPT ![c] = None], x)) <= Cardinality(Users(ours, x))
    BY <1>1, Reassign DEF TypeOK
  <2>3. Cardinality(Users([ours EXCEPT ![c] = None], x)) \in Nat /\ refs[x] \in Nat
    BY UserCount, <1>1 DEF TypeOK
  <2>4. QED
    BY <2>1, <2>2, <2>3
<1>3. refs \in [Object -> Nat]
  BY <1>1 DEF TypeOK
<1>4. QED
  BY <1>1, <1>2, <1>3, DeleteKeeps DEF SessionInv, TypeOK

\* DESCRIBE of a new path.
LEMMA DescribeNewKeeps ==
  ASSUME SessionInv, NEW c \in Client, NEW u \in DescribeURL, NEW o \in Object,
         DescribeNew(c, u, o)
  PROVE  SessionInv'
<1> DEFINE existing == table[u[2]]
<1>1. TypeOK /\ None \notin Object /\ u[1] \in Name /\ u[2] \in Name
  BY ServerAssumption DEF SessionInv
<1>2. /\ life[o] = "free" /\ ours' = ours
      /\ refs' = [refs EXCEPT ![o] = 0]
      /\ streamName' = [streamName EXCEPT ![o] = u[2]]
      /\ table' = IF existing = None THEN [table EXCEPT ![u[2]] = o]
                  ELSE Unlist([table EXCEPT ![u[2]] = o], existing)
      /\ life' = IF existing # None /\ refs[existing] = 0
                 THEN [[life EXCEPT ![o] = "live"] EXCEPT ![existing] = "free"]
                 ELSE [life EXCEPT ![o] = "live"]
  BY DEF DescribeNew
<1>3. existing # None => /\ existing \in Object /\ existing # o
                         /\ life[existing] = "live" /\ streamName[existing] = u[2]
  BY <1>1, <1>2 DEF SessionInv, TableListsLiveSessions, TypeOK, ObjectOrNone
<1>4. table' = [table EXCEPT ![u[2]] = IF existing = None THEN o ELSE None]
  BY <1>1, <1>2, <1>3 DEF Unlist, TypeOK
<1> HIDE DEF existing
<1>5. TypeOK'
  <2>1. table' \in [Name -> ObjectOrNone]
    <3>1. (IF existing = None THEN o ELSE None) \in ObjectOrNone
      BY DEF ObjectOrNone
    <3>2. QED
      BY <3>1, <1>1, <1>4 DEF TypeOK
  <2>2. streamName' \in [Object -> Name]
    BY <1>1, <1>2 DEF TypeOK
  <2>3. life' \in [Object -> {"free", "live"}] /\ refs' \in [Object -> Nat]
    BY <1>1, <1>2 DEF TypeOK
  <2>4. QED
    BY <2>1, <2>2, <2>3, <1>1 DEF TypeOK, DescribeNew, Stays, NoteLiveness
<1>6. ASSUME NEW d \in Client, ours[d] # None
      PROVE  ours[d] # o /\ ours[d] \in Object /\ d \in open /\ life'[ours[d]] = "live"
  <2>1. life[ours[d]] = "live" /\ ours[d] \in Object /\ d \in open
    BY <1>6, <1>1 DEF SessionInv, NoDanglingSession, TypeOK, ObjectOrNone
  <2>2. refs[ours[d]] # 0
    <3>1. Cardinality(Users(ours, ours[d])) # 0
      BY UserCount
    <3>2. /\ Cardinality(Users(ours, ours[d])) <= refs[ours[d]]
          /\ Cardinality(Users(ours, ours[d])) \in Nat
      BY <2>1, UserCount DEF SessionInv, RefCountCoversHolders
    <3>3. QED
      BY <3>1, <3>2
  <2>3. ours[d] # o
    BY <2>1, <1>2
  <2>4. QED
    BY <2>1, <2>2, <2>3, <1>1, <1>2 DEF TypeOK
<1>7. NoDanglingSession'
  BY <1>2, <1>6 DEF NoDanglingSession, DescribeNew, Stays
<1>8. TableListsLiveSessions'
  <2> SUFFICES ASSUME NEW n \in Name, table'[n] # None
               PROVE  life'[table'[n]] = "live" /\ streamName'[table'[n]] = n
    BY DEF TableListsLiveSessions
  <2>1. CASE n = u[2]
    <3>1. table'[n] = o /\ existing = None
      BY <2>1, <1>1, <1>4 DEF TypeOK
    <3>2. QED
      BY <2>1, <3>1, <1>1, <1>2 DEF TypeOK
  <2>2. CASE n # u[2]
    <3>1. table'[n] = table[n] /\ table[n] \in Object
      BY <2>2, <1>1, <1>4 DEF TypeOK, ObjectOrNone
    <3>2. life[table[n]] = "live" /\ streamName[table[n]] = n
      BY <3>1, <1>1 DEF SessionInv, TableListsLiveSessions
    <3>3. table[n] # o /\ (existing # None => table[n] # existing)
      BY <2>2, <3>2, <1>2, <1>3
    <3>4. QED
      BY <3>1, <3>2, <3>3, <1>1, <1>2 DEF TypeOK
  <2>3. QED
    BY <2>1, <2>2
<1>9. RefCountCoversHolders'
  <2> SUFFICES ASSUME NEW x \in Object
               PROVE  Cardinality(Users(ours, x)) <= refs'[x]
    BY <1>2 DEF RefCountCoversHolders, Users
  <2>1. CASE x = o
    <3>1. Users(ours, x) = {}
      BY <2>1, <1>1, <1>6 DEF Users
    <3>2. QED
      BY <2>1, <3>1, <1>1, <1>2, FS_EmptySet DEF TypeOK
  <2>2. CASE x # o
    BY <2>2, <1>1, <1>2 DEF SessionInv, RefCountCoversHolders, TypeOK
  <2>3. QED
    BY <2>1, <2>2
<1>10. QED
  BY <1>5, <1>7, <1>8, <1>9 DEF SessionInv

\* removeServerMediaSession by name.
LEMMA RemoveKeeps ==
  ASSUME SessionInv, NEW n \in Name, RemoveServerMediaSession(n)
  PROVE  SessionInv'
<1> DEFINE o == table[n]
<1>1. TypeOK /\ None \notin Object /\ o # None /\ o \in Object
  BY ServerAssumption DEF SessionInv, RemoveServerMediaSession, TypeOK, ObjectOrNone
<1>2. life[o] = "live" /\ streamName[o] = n
  BY <1>1 DEF SessionInv, TableListsLiveSessions
<1>3. /\ table' = [table EXCEPT ![n] = None]
      /\ life' = IF refs[o] = 0 THEN [life EXCEPT ![o] = "free"] ELSE life
      /\ UNCHANGED <<streamName, refs, open, ours, streams, reader, timer, app, vanished>>
  BY <1>1, <1>2 DEF RemoveServerMediaSession, Unlist, clients
<1> HIDE DEF o
<1>4. TypeOK'
  <2>1. None \in ObjectOrNone
    BY DEF ObjectOrNone
  <2>2. QED
    BY <2>1, <1>1, <1>3 DEF TypeOK
<1>5. NoDanglingSession'
  <2> SUFFICES ASSUME NEW d \in Client, ours[d] # None
               PROVE  d \in open /\ life'[ours[d]] = "live"
    BY <1>3 DEF NoDanglingSession
  <2>1. life[ours[d]] = "live" /\ ours[d] \in Object /\ d \in open
    BY <1>1 DEF SessionInv, NoDanglingSession, TypeOK, ObjectOrNone
  <2>2. ASSUME refs[o] = 0
        PROVE  ours[d] # o
    <3>1. Cardinality(Users(ours, o)) <= 0 /\ Cardinality(Users(ours, o)) \in Nat
      BY <2>2, <1>1, UserCount DEF SessionInv, RefCountCoversHolders
    <3>2. Cardinality(Users(ours, o)) = 0
      BY <3>1
    <3>3. QED
      BY <3>2, UserCount
  <2>3. QED
    BY <2>1, <2>2, <1>1, <1>3 DEF TypeOK
<1>6. TableListsLiveSessions'
  BY <1>1, <1>2, <1>3 DEF SessionInv, TableListsLiveSessions, TypeOK, ObjectOrNone
<1>7. RefCountCoversHolders'
  BY <1>3 DEF SessionInv, RefCountCoversHolders, Users
<1>8. QED
  BY <1>4, <1>5, <1>6, <1>7 DEF SessionInv

\* SETUP that gets as far as taking its reference.
LEMMA SetupKeeps ==
  ASSUME SessionInv, NEW c \in Client, NEW n \in Name, NEW t \in Track,
         NEW playNow \in BOOLEAN,
         SetupRefused(c, n, t, playNow) \/ SetupAccepted(c, n, t, playNow)
  PROVE  SessionInv'
<1> DEFINE o == SetupTarget(c, n, t)
           r == SetupRefs(c, n, t)
<1>1. TypeOK /\ None \notin Object
  BY ServerAssumption DEF SessionInv
<1>2. o # None
  BY DEF SetupRefused, SetupAccepted
<1>3. /\ o \in Object /\ life[o] = "live"
      /\ r \in [Object -> Nat]
      /\ \A x \in Object : Cardinality(Users([ours EXCEPT ![c] = o], x)) <= r[x]
  BY <1>2, SetupReference
<1>4. CASE SetupRefused(c, n, t, playNow)
  <2>1. DeleteClientSession(c, o, r)
    BY <1>4 DEF SetupRefused
  <2>2. app' \in [Client -> AppView] /\ vanished' \subseteq Client
    BY <1>1, <1>4 DEF SetupRefused, TypeOK, AppView
  <2>3. o \in ObjectOrNone
    BY <1>3 DEF ObjectOrNone
  <2> HIDE DEF o, r
  <2>4. QED
    BY <2>1, <2>2, <2>3, <1>3, DeleteKeeps DEF SessionInv, TypeOK
<1>5. CASE SetupAccepted(c, n, t, playNow)
  <2>1. /\ refs' = r /\ ours' = [ours EXCEPT ![c] = o] /\ c \in open
        /\ UNCHANGED <<table, life, streamName, open, reader, vanished>>
        /\ streams' = streams \/ streams' = [streams EXCEPT ![c] = o]
        /\ app' \in [Client -> AppView] /\ timer' = timer \cup {c}
    BY <1>1, <1>5 DEF SetupAccepted, Stays, NoteLiveness, Receives, TypeOK, AppView
  <2> HIDE DEF o, r
  <2>2. o \in ObjectOrNone
    BY <1>3 DEF ObjectOrNone
  <2>3. TypeOK'
    BY <2>1, <2>2, <1>1, <1>3 DEF TypeOK
  <2>4. NoDanglingSession' /\ TableListsLiveSessions'
    BY <2>1, <1>1, <1>3 DEF SessionInv, NoDanglingSession, TableListsLiveSessions, TypeOK
  <2>5. RefCountCoversHolders'
    BY <2>1, <1>3 DEF RefCountCoversHolders, Users
  <2>6. QED
    BY <2>3, <2>4, <2>5 DEF SessionInv
<1>6. QED
  BY <1>4, <1>5

\* Steps that leave the table, the heap and the clients' sessions alone.
LEMMA QuietKeeps ==
  ASSUME SessionInv, UNCHANGED <<table, life, streamName, refs, ours>>,
         open \subseteq open', TypeOK'
  PROVE  SessionInv'
<1>1. NoDanglingSession' /\ TableListsLiveSessions'
  BY DEF SessionInv, NoDanglingSession, TableListsLiveSessions
<1>2. RefCountCoversHolders'
  BY DEF SessionInv, RefCountCoversHolders, Users
<1>3. QED
  BY <1>1, <1>2 DEF SessionInv

LEMMA StepInv == SessionInv /\ [Next]_vars => SessionInv'
<1> SUFFICES ASSUME SessionInv, [Next]_vars PROVE SessionInv'
  OBVIOUS
<1>1. TypeOK /\ None \notin Object
  BY ServerAssumption DEF SessionInv
<1>2. ASSUME NEW c \in Client, AcceptConnection(c)
      PROVE  SessionInv'
  <2>1. ours[c] = None
    BY <1>2 DEF AcceptConnection, SessionInv, NoDanglingSession
  <2>2. ours' = ours
    BY <2>1, <1>1, <1>2 DEF AcceptConnection, TypeOK
  <2>3. TypeOK'
    <3>1. None \in ObjectOrNone
      BY DEF ObjectOrNone
    <3>2. QED
      BY <3>1, <2>2, <1>1, <1>2 DEF AcceptConnection, TypeOK, NoteLiveness, heap, AppView
  <2>4. QED
    BY <2>2, <2>3, <1>2, QuietKeeps DEF AcceptConnection, heap
<1>3. ASSUME NEW c \in Client, PeerVanishes(c) \/ OnlyReplies(c)
      PROVE  SessionInv'
  <2>1. TypeOK'
    BY <1>1, <1>3 DEF PeerVanishes, OnlyReplies, Stays, NoteLiveness, TypeOK, heap, clients
  <2>2. QED
    BY <2>1, <1>3, QuietKeeps DEF PeerVanishes, OnlyReplies, Stays, heap, clients
<1>4. ASSUME NEW c \in Client, ReadFails(c) \/ LivenessTimeout(c)
      PROVE  SessionInv'
  BY <1>1, <1>4, LeaveKeeps DEF ReadFails, LivenessTimeout, TypeOK
<1>5. ASSUME NEW c \in Client, NEW u \in DescribeURL, Describe(c, u)
      PROVE  SessionInv'
  <2>1. CASE DescribeNotFound(c, u)
    BY <2>1, <1>1, LeaveKeeps DEF DescribeNotFound, TypeOK
  <2>2. CASE DescribeExisting(c, u)
    <3>1. TypeOK'
      BY <2>2, <1>1 DEF DescribeExisting, Stays, NoteLiveness, TypeOK, heap
    <3>2. QED
      BY <2>2, <3>1, QuietKeeps DEF DescribeExisting, Stays, heap
  <2>3. CASE \E o \in Object : DescribeNew(c, u, o)
    BY <2>3, DescribeNewKeeps
  <2>4. QED
    BY <1>5, <2>1, <2>2, <2>3 DEF Describe
<1>6. ASSUME NEW c \in Client, NEW n \in Name, NEW t \in Track, Setup(c, n, t)
      PROVE  SessionInv'
  <2>1. CASE SetupNoSession(c, n, t)
    BY <2>1, ForgetKeeps DEF SetupNoSession
  <2>2. CASE \E playNow \in BOOLEAN :
               SetupRefused(c, n, t, playNow) \/ SetupAccepted(c, n, t, playNow)
    BY <2>2, SetupKeeps
  <2>3. QED
    BY <1>6, <2>1, <2>2 DEF Setup
<1>7. ASSUME NEW c \in Client, NEW n \in Name, NEW t \in Track, Within(c, n, t)
      PROVE  SessionInv'
  <2>1. CASE WithinSessionNotFound(c, n, t)
    BY <2>1, <1>1, LeaveKeeps DEF WithinSessionNotFound, TypeOK
  <2>2. CASE Play(c, n, t) \/ Pause(c, n, t)
    <3>1. TypeOK'
      BY <2>2, <1>1 DEF Play, Pause, WithinSession, Stays, NoteLiveness, TypeOK, heap, AppView
    <3>2. QED
      BY <2>2, <3>1, QuietKeeps DEF Play, Pause, Stays, heap
  <2>3. CASE Teardown(c, n, t)
    <3>1. DeleteClientSession(c, ours[c], refs) /\ vanished' \subseteq Client
      BY <2>3, <1>1 DEF Teardown, TypeOK
    <3>2. app' \in [Client -> AppView]
      BY <2>3, <1>1 DEF Teardown, TypeOK, AppView
    <3>3. QED
      BY <3>1, <3>2, LeaveKeeps
  <2>4. QED
    BY <1>7, <2>1, <2>2, <2>3 DEF Within
<1>8. ASSUME NEW n \in Name, RemoveServerMediaSession(n)
      PROVE  SessionInv'
  BY <1>8, RemoveKeeps
<1>9. CASE UNCHANGED vars
  <2>1. TypeOK'
    BY <1>9, <1>1 DEF vars, heap, clients, TypeOK
  <2>2. QED
    BY <1>9, <2>1, QuietKeeps DEF vars, heap, clients
<1>10. QED
  BY <1>2, <1>3, <1>4, <1>5, <1>6, <1>7, <1>8, <1>9 DEF Next, Connection

-----------------------------------------------------------------------------
(* The theorems. *)

\* The inductive invariant holds in every reachable state.
THEOREM SessionSafety == Spec => []SessionInv
<1>1. QED
  BY InitInv, StepInv, PTL DEF Spec

\* Type correctness of the session table, the heap and the client sessions.
THEOREM TypeCorrect == Spec => []TypeOK
<1>1. SessionInv => TypeOK
  BY DEF SessionInv
<1>2. QED
  BY <1>1, SessionSafety, PTL

\* No handler dereferences a media session that was closed.
THEOREM NoUseAfterClose == Spec => []NoDanglingSession
<1>1. SessionInv => NoDanglingSession
  BY DEF SessionInv
<1>2. QED
  BY <1>1, SessionSafety, PTL

\* Lookups by name return live objects of that name.
THEOREM LookupSafe == Spec => []TableListsLiveSessions
<1>1. SessionInv => TableListsLiveSessions
  BY DEF SessionInv
<1>2. QED
  BY <1>1, SessionSafety, PTL

\* The reference count is never below the number of users.
THEOREM ReferencesCovered == Spec => []RefCountCoversHolders
<1>1. SessionInv => RefCountCoversHolders
  BY DEF SessionInv
<1>2. QED
  BY <1>1, SessionSafety, PTL

-----------------------------------------------------------------------------
(* What each client session keeps to itself.  Given TypeOK, the conjunction  *)
(* is inductive: a handler touches only its own client session, and one that *)
(* refuses a SETUP deletes it.                                               *)

\* A deleted client session takes its fields, its socket and its timer along.
LEMMA DeleteKeepsClients ==
  ASSUME TypeOK, ClientInv, NEW c \in Client, NEW o, NEW r,
         DeleteClientSession(c, o, r),
         \A d \in Client : d # c => app'[d] = app[d]
  PROVE  ClientInv'
<1>1. /\ open' = open \ {c} /\ reader' = reader \ {c} /\ timer' = timer \ {c}
      /\ \A d \in Client : d # c => ours'[d] = ours[d] /\ streams'[d] = streams[d]
  BY DEF DeleteClientSession, CloseSockets, TypeOK
<1>2. open \subseteq Client
  BY DEF TypeOK
<1>3. QED
  BY <1>1, <1>2 DEF ClientInv, StreamStatesMatchSession, CallbacksMatchSessions,
                    HeldOnlyIfAccepted

LEMMA ClientStep == TypeOK /\ ClientInv /\ [Next]_vars => ClientInv'
<1> SUFFICES ASSUME TypeOK, ClientInv, [Next]_vars PROVE ClientInv'
  OBVIOUS
<1> USE DEF ClientInv, StreamStatesMatchSession, CallbacksMatchSessions, HeldOnlyIfAccepted
<1>1. ASSUME NEW c \in Client, AcceptConnection(c)
      PROVE  ClientInv'
  BY <1>1 DEF AcceptConnection, NoteLiveness, TypeOK
<1>2. ASSUME NEW c \in Client, PeerVanishes(c) \/ OnlyReplies(c)
      PROVE  ClientInv'
  BY <1>2 DEF PeerVanishes, OnlyReplies, Stays, NoteLiveness, Receives, clients, TypeOK
<1>3. ASSUME NEW c \in Client,
             ReadFails(c) \/ LivenessTimeout(c)
      PROVE  ClientInv'
  BY <1>3, DeleteKeepsClients DEF ReadFails, LivenessTimeout
<1>4. ASSUME NEW c \in Client, NEW u \in DescribeURL, Describe(c, u)
      PROVE  ClientInv'
  <2>1. CASE DescribeNotFound(c, u)
    BY <2>1, DeleteKeepsClients DEF DescribeNotFound
  <2>2. CASE DescribeExisting(c, u)
    BY <2>2 DEF DescribeExisting, Stays, NoteLiveness, Receives
  <2>3. CASE \E o \in Object : DescribeNew(c, u, o)
    <3>1. /\ UNCHANGED <<open, reader, ours, streams, app>>
          /\ timer' = timer \cup {c} /\ c \in open
      BY <2>3 DEF DescribeNew, Stays, NoteLiveness, Receives
    <3>2. QED
      BY <3>1
  <2>4. QED
    BY <1>4, <2>1, <2>2, <2>3 DEF Describe
<1>5. ASSUME NEW c \in Client, NEW n \in Name, NEW t \in Track, Setup(c, n, t)
      PROVE  ClientInv'
  <2>1. CASE SetupNoSession(c, n, t)
    BY <2>1, DeleteKeepsClients DEF SetupNoSession
  <2>2. ASSUME NEW playNow \in BOOLEAN, SetupRefused(c, n, t, playNow)
        PROVE  ClientInv'
    <3>1. \A d \in Client : d # c => app'[d] = app[d]
      BY <2>2 DEF SetupRefused, TypeOK
    <3>2. DeleteClientSession(c, SetupTarget(c, n, t), SetupRefs(c, n, t))
      BY <2>2 DEF SetupRefused
    <3>3. QED
      BY <3>1, <3>2, DeleteKeepsClients
  <2>3. ASSUME NEW playNow \in BOOLEAN, SetupAccepted(c, n, t, playNow)
        PROVE  ClientInv'
    <3> DEFINE o == SetupTarget(c, n, t)
    <3>1. /\ UNCHANGED <<open, reader>> /\ timer' = timer \cup {c} /\ c \in open
          /\ ours' = [ours EXCEPT ![c] = o]
          /\ app'[c] \in Accepted
          /\ \A d \in Client : d # c => app'[d] = app[d]
      BY <2>3 DEF SetupAccepted, Stays, NoteLiveness, Receives, TypeOK, Accepted
    <3>2. /\ streams'[c] = o
          /\ \A d \in Client : d # c => streams'[d] = streams[d]
      BY <2>3 DEF SetupAccepted, Receives, KeepsSession, SetupTarget, TypeOK
    <3> HIDE DEF o
    <3>3. StreamStatesMatchSession'
      BY <3>1, <3>2 DEF TypeOK
    <3>4. CallbacksMatchSessions'
      BY <3>1
    <3>5. HeldOnlyIfAccepted'
      BY <3>1 DEF TypeOK
    <3>6. QED
      BY <3>3, <3>4, <3>5
  <2>4. QED
    BY <1>5, <2>1, <2>2, <2>3 DEF Setup
<1>6. ASSUME NEW c \in Client, NEW n \in Name, NEW t \in Track, Within(c, n, t)
      PROVE  ClientInv'
  <2>1. CASE WithinSessionNotFound(c, n, t)
    BY <2>1, DeleteKeepsClients DEF WithinSessionNotFound
  <2>2. CASE Play(c, n, t) \/ Pause(c, n, t)
    BY <2>2 DEF Play, Pause, WithinSession, Stays, NoteLiveness, Receives, TypeOK, Accepted
  <2>3. CASE Teardown(c, n, t)
    <3>1. \A d \in Client : d # c => app'[d] = app[d]
      BY <2>3 DEF Teardown, TypeOK
    <3>2. DeleteClientSession(c, ours[c], refs)
      BY <2>3 DEF Teardown
    <3>3. QED
      BY <3>1, <3>2, DeleteKeepsClients
  <2>4. QED
    BY <1>6, <2>1, <2>2, <2>3 DEF Within
<1>7. ASSUME NEW n \in Name, RemoveServerMediaSession(n)
      PROVE  ClientInv'
  BY <1>7 DEF RemoveServerMediaSession, clients
<1>8. CASE UNCHANGED vars
  BY <1>8 DEF vars, clients
<1>9. QED
  BY <1>1, <1>2, <1>3, <1>4, <1>5, <1>6, <1>7, <1>8 DEF Next, Connection

\* A client session only ever uses the tracks of its own media session, is
\* watched and timed exactly while it exists, and holds a media session only
\* after the application accepted its SETUP.
THEOREM ClientSafety == Spec => []ClientInv
<1>1. Init => ClientInv
  BY DEF Init, ClientInv, StreamStatesMatchSession, CallbacksMatchSessions,
         HeldOnlyIfAccepted
<1>2. QED
  BY <1>1, ClientStep, TypeCorrect, PTL DEF Spec

=============================================================================
