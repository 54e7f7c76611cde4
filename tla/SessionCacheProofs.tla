------------------------ MODULE SessionCacheProofs --------------------------
(***************************************************************************)
(* Proofs about SessionCache, for any number of threads, sessions, places  *)
(* and calls: a connection never gets a session whose secret does not go   *)
(* with its ID, the two locks never leave every call waiting, and a row    *)
(* that nobody writes is what the last insertions made of it.              *)
(*                                                                         *)
(* What a connection copies is whole because every place of the row is,    *)
(* except one that a thread has copied to and not yet named; that thread   *)
(* holds the lock.  So the invariant also says which thread holds which    *)
(* lock, and that the positions carried from step to step are places.      *)
(* AskInv adds that a place found through an object holds its session, or  *)
(* nothing, or one stored later, until it is copied.                       *)
(* RowInv adds where in the ring each session of the history is.           *)
(***************************************************************************)
EXTENDS SessionCache, FiniteSetTheorems, TLAPS

AnyID == IDs \cup {NoID, BogusID} \cup (Servers \X {0})

Entry == [id : AnyID, secret : Nat, server : Servers \cup {"none"}, born : Nat]

CallPlace == {"idle", "claim", "overwrite", "insert", "advance", "name", "unlock",
              "index", "lookup", "expired", "server", "search", "resolve to set",
              "resolve to remove", "to set", "to remove", "set", "remove", "flush"}

CallType == [at : CallPlace, id : AnyID, idx : Int, left : Int]

Types ==
  /\ entry \in [Places -> Entry]
  /\ ring \in [next : Places, total : Nat]
  /\ object \in [ClientPlaces -> [idx : Places, hash : AnyID]]
  /\ clients \in [next : ClientPlaces, total : Nat]
  /\ call \in [Threads -> CallType]
  /\ ref \in [Threads -> ClientPlaces \cup {NoRef}]
  /\ session \in [Threads -> Entry]
  /\ now \in Nat
  /\ IsFiniteSet(put)

\* Where a thread holds the row, and where it holds the mutex.
Writing == {"overwrite", "insert", "advance", "name", "unlock"}
Searching == {"search", "to set", "to remove"}

LocksHeld ==
  /\ lock \in Threads \cup {NoOne}
  /\ mutex \in Threads \cup {NoOne}
  /\ \A t \in Threads : /\ lock = t <=> call[t].at \in Writing
                        /\ mutex = t <=> call[t].at \in Searching

\* What a thread carries from step to step is used where it makes sense.
Carried(c, r) ==
  /\ c.at \in Writing \cup {"index", "set", "remove"} => c.idx \in Places
  /\ c.at = "search" => c.idx \in ClientPlaces
  /\ c.at \in {"resolve to set", "resolve to remove", "to set", "to remove"}
       => r \in ClientPlaces
  /\ c.at \in Writing \cup {"claim", "index"} => c.id \in IDs
  /\ c.at \in {"server", "search"} => c.id \in Servers \X {0}
  /\ c.at = "set" => c.id \in {NoID} \cup (Servers \X {0})

Positions == \A t \in Threads : Carried(call[t], ref[t])

Whole(s, stored) == \/ s.id = NoID /\ s.secret = 0
                    \/ [id |-> s.id, secret |-> s.secret] \in stored

\* A thread in call c has copied a session to place i and not yet named it.
Unnamed(c, i) == c.at \in {"advance", "name"} /\ c.idx = i

RowWhole == \A i \in Places :
              Whole(entry[i], put) \/ \E t \in Threads : Unnamed(call[t], i)

CopiesWhole == \A t \in Threads : Whole(session[t], put)

IndInv == Types /\ LocksHeld /\ Positions /\ RowWhole /\ CopiesWhole

-----------------------------------------------------------------------------
(* What the parts of the invariant need of a step in which only t moves.   *)

\* Places are integers.
LEMMA PlaceInt == Places \subseteq Int /\ ClientPlaces \subseteq Int
BY SizeAssumption DEF Places, ClientPlaces

\* What a thread carries, field by field.
LEMMA AtFields ==
  ASSUME NEW place \in CallPlace, NEW id \in AnyID, NEW i \in Int, NEW k \in Int
  PROVE  /\ At(place, id, i, k) \in CallType
         /\ At(place, id, i, k).at = place
         /\ At(place, id, i, k).id = id
         /\ At(place, id, i, k).idx = i
BY DEF At, CallType

\* The record of an idle thread.
LEMMA IdleFields == Idle \in CallType /\ Idle.at = "idle"
<1>1. NoID \in AnyID
  BY DEF AnyID
<1>2. At("idle", NoID, 0, 0) \in CallType /\ At("idle", NoID, 0, 0).at = "idle"
  BY <1>1 DEF At, CallType, CallPlace
<1> QED
  BY <1>2 DEF Idle

\* A step of t changes call[t] only.
LEMMA OneMoves ==
  ASSUME Types, NEW t \in Threads, NEW n \in CallType, Goes(t, n)
  PROVE  /\ call' \in [Threads -> CallType]
         /\ call'[t] = n
         /\ \A u \in Threads \ {t} : call'[u] = call[u]
BY DEF Types, Goes

\* A thread takes a lock that is free, gives up the one it has, or neither.
Takes(t, n, held, held2, places) ==
  \/ held2 = held /\ (call[t].at \in places <=> n.at \in places)
  \/ held = NoOne /\ held2 = t /\ n.at \in places
  \/ held = t /\ held2 = NoOne /\ n.at \notin places

\* Then the locks are still held where they should be.
LEMMA LocksStep ==
  ASSUME Types, LocksHeld, NEW t \in Threads, NEW n \in CallType, Goes(t, n),
         Takes(t, n, lock, lock', Writing), Takes(t, n, mutex, mutex', Searching)
  PROVE  LocksHeld'
<1>1. /\ call'[t] = n
      /\ \A u \in Threads \ {t} : call'[u] = call[u]
  BY OneMoves
<1>2. lock' \in Threads \cup {NoOne} /\ mutex' \in Threads \cup {NoOne}
  BY DEF Takes, LocksHeld
<1>3. ASSUME NEW u \in Threads PROVE lock' = u <=> call'[u].at \in Writing
  BY <1>1, <1>3, ThreadAssumption DEF Takes, LocksHeld
<1>4. ASSUME NEW u \in Threads PROVE mutex' = u <=> call'[u].at \in Searching
  BY <1>1, <1>4, ThreadAssumption DEF Takes, LocksHeld
<1> QED
  BY <1>2, <1>3, <1>4 DEF LocksHeld

\* What the other threads carry does not change.
LEMMA PositionsStep ==
  ASSUME Types, Positions, NEW t \in Threads, NEW n \in CallType, Goes(t, n),
         Carried(n, ref'[t]), \A u \in Threads \ {t} : ref'[u] = ref[u]
  PROVE  Positions'
<1>1. /\ call'[t] = n
      /\ \A u \in Threads \ {t} : call'[u] = call[u]
  BY OneMoves
<1>2. ASSUME NEW u \in Threads PROVE Carried(call'[u], ref'[u])
  BY <1>1, <1>2 DEF Positions
<1>3. Positions' <=> \A u \in Threads : Carried(call'[u], ref'[u])
  BY DEF Positions, Carried
<1> QED
  BY <1>2, <1>3

\* A step that writes no place keeps the row whole unless t leaves one unnamed.
LEMMA SameRow ==
  ASSUME Types, RowWhole, NEW t \in Threads, NEW n \in CallType, Goes(t, n),
         entry' = entry, put' = put, call[t].at \notin {"advance", "name"}
  PROVE  RowWhole'
<1>1. \A u \in Threads \ {t} : call'[u] = call[u]
  BY OneMoves
<1> QED
  BY <1>1 DEF RowWhole, Whole, Unnamed

\* While nobody writes, every place is whole.
LEMMA ReadableWhole ==
  ASSUME LocksHeld, RowWhole, lock = NoOne, NEW i \in Places
  PROVE  Whole(entry[i], put)
BY ThreadAssumption DEF LocksHeld, RowWhole, Unnamed, Writing

\* A connection that takes over a whole session has a whole session.
LEMMA SessionStep ==
  ASSUME Types, CopiesWhole, put \subseteq put', NEW t \in Threads, NEW s, Whole(s, put),
         session' = [session EXCEPT ![t] = s]
  PROVE  CopiesWhole'
BY DEF Types, CopiesWhole, Whole

\* Evicting leaves a session whole.
LEMMA EvictedWhole ==
  ASSUME NEW s \in Entry PROVE Evicted(s) \in Entry /\ Whole(Evicted(s), put)
<1>1. NoID \in AnyID
  BY DEF AnyID
<1> QED
  BY <1>1 DEF Evicted, Entry, Whole

\* Evicting a place that can be written keeps the row typed and whole.
LEMMA EvictStep ==
  ASSUME Types, LocksHeld, RowWhole, lock = NoOne, put' = put,
         NEW i \in Places, Evict(i)
  PROVE  entry' \in [Places -> Entry] /\ RowWhole'
<1>1. entry \in [Places -> Entry]
  BY DEF Types
<1>2. Evicted(entry[i]) \in Entry /\ Whole(Evicted(entry[i]), put)
  BY <1>1, EvictedWhole
<1>3. entry' = [entry EXCEPT ![i] = Evicted(entry[i])]
  BY <1>1 DEF Evict
<1>4. ASSUME NEW j \in Places PROVE Whole(entry'[j], put)
  BY <1>1, <1>2, <1>3, ReadableWhole
<1> QED
  BY <1>1, <1>2, <1>3, <1>4 DEF RowWhole, Whole

-----------------------------------------------------------------------------
(* One lemma per action.  Each first says where t goes, and what it takes  *)
(* along; the lemmas above do the rest.                                    *)

\* A call that ends and holds neither lock.
LEMMA CallEnds ==
  ASSUME Types, LocksHeld, Positions, NEW t \in Threads, Goes(t, Idle),
         call[t].at \notin Writing \cup Searching, lock' = lock, mutex' = mutex,
         \A u \in Threads \ {t} : ref'[u] = ref[u]
  PROVE  call' \in [Threads -> CallType] /\ LocksHeld' /\ Positions'
<1>1. Idle \in CallType /\ Idle.at \notin Writing \cup Searching
  BY IdleFields DEF Writing, Searching
<1>2. Takes(t, Idle, lock, lock', Writing) /\ Takes(t, Idle, mutex, mutex', Searching)
  BY <1>1 DEF Takes
<1>3. Carried(Idle, ref'[t])
  BY IdleFields DEF Carried, Writing
<1> QED
  BY <1>1, <1>2, <1>3, OneMoves, LocksStep, PositionsStep

\* AddSessionToCache takes the row and a place in it.
LEMMA AddClaimInv ==
  ASSUME IndInv, NEW t \in Threads, AddClaim(t) PROVE IndInv'
<1> USE DEF IndInv
<1>0. /\ call[t] \in CallType /\ call[t].at = "claim" /\ call[t].id \in IDs
      /\ lock = NoOne /\ lock' = t /\ mutex' = mutex /\ ref' = ref
  BY DEF AddClaim, Types, Positions, Carried
<1>1. PICK place \in {"overwrite", "insert"}, i \in Places :
        /\ Goes(t, At(place, call[t].id, i, 0))
        /\ entry' = entry \/ Evict(i)
  BY DEF AddClaim, Same, Types
<1> DEFINE n == At(place, call[t].id, i, 0)
<1>a. call[t].id \in AnyID /\ i \in Int
  BY <1>0, PlaceInt DEF CallType
<1>b. place \in CallPlace
  BY <1>1 DEF CallPlace
<1>2. n \in CallType /\ n.at = place /\ n.id = call[t].id /\ n.idx = i
  BY <1>a, <1>b, AtFields
<1>3. call' \in [Threads -> CallType]
  BY <1>1, <1>2, OneMoves
<1>4. LocksHeld'
  <2>1. Takes(t, n, lock, lock', Writing) /\ Takes(t, n, mutex, mutex', Searching)
    BY <1>0, <1>1, <1>2 DEF Takes, Writing, Searching
  <2> QED
    BY <1>1, <1>2, <2>1, LocksStep
<1>5. Positions'
  <2>1. Carried(n, ref'[t])
    BY <1>0, <1>1, <1>2 DEF Carried, Writing
  <2> QED
    BY <1>0, <1>1, <1>2, <2>1, PositionsStep
<1>6. entry' \in [Places -> Entry] /\ RowWhole'
  <2>1. put' = put
    BY DEF AddClaim
  <2>2. CASE entry' = entry
    BY <1>0, <1>1, <1>2, <2>1, <2>2, SameRow DEF Types
  <2>3. CASE Evict(i)
    BY <1>0, <1>1, <2>1, <2>3, EvictStep
  <2> QED
    BY <1>1, <2>2, <2>3
<1>7. Types'
  BY <1>3, <1>6 DEF AddClaim, Types
<1>8. CopiesWhole'
  BY DEF AddClaim, CopiesWhole
<1> QED
  BY <1>4, <1>5, <1>6, <1>7, <1>8

\* DupSession leaves the place unnamed, and t holds the lock.
LEMMA AddDupInv ==
  ASSUME IndInv, NEW t \in Threads, AddDup(t) PROVE IndInv'
<1> USE DEF IndInv
<1>0. /\ call[t] \in CallType /\ call[t].at \in {"overwrite", "insert"}
      /\ call[t].id \in IDs /\ call[t].idx \in Places
      /\ lock' = lock /\ mutex' = mutex /\ ref' = ref /\ put' = put
  BY DEF AddDup, Types, Positions, Carried, Writing
<1>1. PICK place \in {"advance", "name"} : Goes(t, Kept(t, place))
  BY DEF AddDup
<1> DEFINE n == Kept(t, place)
<1>2. n \in CallType /\ n.at = place /\ n.id = call[t].id /\ n.idx = call[t].idx
  BY <1>0, <1>1 DEF Kept, At, CallType, CallPlace
<1>3. call' \in [Threads -> CallType] /\ call'[t] = n
      /\ \A u \in Threads \ {t} : call'[u] = call[u]
  BY <1>1, <1>2, OneMoves
<1>4. LocksHeld'
  <2>1. Takes(t, n, lock, lock', Writing) /\ Takes(t, n, mutex, mutex', Searching)
    BY <1>0, <1>1, <1>2 DEF Takes, Writing, Searching
  <2> QED
    BY <1>1, <1>2, <2>1, LocksStep
<1>5. Positions'
  <2>1. Carried(n, ref'[t])
    BY <1>0, <1>1, <1>2 DEF Carried, Writing
  <2> QED
    BY <1>0, <1>1, <1>2, <2>1, PositionsStep
<1>6. PICK s \in Entry : entry' = [entry EXCEPT ![call[t].idx] = s]
  <2>1. Cardinality(put) + 1 \in Nat
    BY FS_CardinalityType DEF Types
  <2>2. call[t].id[1] \in Servers /\ call[t].id \in AnyID /\ {NoID, BogusID} \subseteq AnyID
    BY <1>0, IDAssumption DEF AnyID
  <2>3. now \in Nat
    BY DEF Types
  <2>4. PICK own \in {call[t].id, BogusID} :
          entry' = [entry EXCEPT ![call[t].idx] =
                      [id |-> own,
                       secret |-> Cardinality(put) + 1,
                       server |-> call[t].id[1], born |-> now]]
    BY DEF AddDup
  <2>5. [id |-> own, secret |-> Cardinality(put) + 1,
         server |-> call[t].id[1], born |-> now] \in Entry
    BY <2>1, <2>2, <2>3 DEF Entry
  <2> QED
    BY <2>4, <2>5
<1>7. RowWhole'
  <2>1. ASSUME NEW j \in Places
        PROVE  Whole(entry'[j], put) \/ \E u \in Threads : Unnamed(call'[u], j)
    <3>1. CASE j = call[t].idx
      BY <1>1, <1>2, <1>3, <3>1 DEF Unnamed
    <3>2. CASE j # call[t].idx
      <4>1. entry'[j] = entry[j]
        BY <1>6, <3>2 DEF Types
      <4>2. ASSUME NEW u \in Threads, Unnamed(call[u], j) PROVE Unnamed(call'[u], j)
        BY <1>0, <1>3, <4>2 DEF Unnamed
      <4> QED
        BY <4>1, <4>2 DEF RowWhole
    <3> QED
      BY <3>1, <3>2
  <2> QED
    BY <1>0, <2>1 DEF RowWhole, Whole, Unnamed
<1>8. Types'
  BY <1>0, <1>3, <1>6 DEF AddDup, Types
<1>9. CopiesWhole'
  BY DEF AddDup, CopiesWhole
<1> QED
  BY <1>4, <1>5, <1>7, <1>8, <1>9

\* The place gets its name: what is there is now what put has.
LEMMA AddNameInv ==
  ASSUME IndInv, NEW t \in Threads, AddName(t) PROVE IndInv'
<1> USE DEF IndInv
<1>0. /\ call[t] \in CallType /\ call[t].at \in {"advance", "name"}
      /\ call[t].id \in IDs /\ call[t].idx \in Places
      /\ lock' = lock /\ mutex' = mutex /\ ref' = ref
      /\ put' = put \cup {Stored(t)} /\ Goes(t, Kept(t, "unlock"))
      /\ entry' = [entry EXCEPT ![call[t].idx] = Named(entry[call[t].idx], call[t].id)]
  BY DEF AddName, Types, Positions, Carried, Writing
<1> DEFINE n == Kept(t, "unlock")
<1>2. n \in CallType /\ n.at = "unlock" /\ n.id = call[t].id /\ n.idx = call[t].idx
  BY <1>0 DEF Kept, At, CallType, CallPlace
<1>3. call' \in [Threads -> CallType] /\ call'[t] = n
      /\ \A u \in Threads \ {t} : call'[u] = call[u]
  BY <1>0, <1>2, OneMoves
<1>4. LocksHeld'
  <2>1. Takes(t, n, lock, lock', Writing) /\ Takes(t, n, mutex, mutex', Searching)
    BY <1>0, <1>2 DEF Takes, Writing, Searching
  <2> QED
    BY <1>0, <1>2, <2>1, LocksStep
<1>5. Positions'
  <2>1. Carried(n, ref'[t])
    BY <1>0, <1>2 DEF Carried, Writing
  <2> QED
    BY <1>0, <1>2, <2>1, PositionsStep
<1>6. entry' \in [Places -> Entry]
  <2>1. entry \in [Places -> Entry] /\ call[t].id \in AnyID
    BY <1>0 DEF Types, AnyID
  <2>2. Named(entry[call[t].idx], call[t].id) \in Entry
    BY <1>0, <2>1 DEF Named, Entry
  <2> QED
    BY <1>0, <2>1, <2>2
<1>7. RowWhole'
  <2>1. ASSUME NEW j \in Places
        PROVE  Whole(entry'[j], put') \/ \E u \in Threads : Unnamed(call'[u], j)
    <3>1. CASE j = call[t].idx
      <4>1. entry'[j] = Named(entry[call[t].idx], call[t].id)
        BY <1>0, <3>1 DEF Types
      <4>2. entry'[j].id = call[t].id /\ entry'[j].secret = entry[call[t].idx].secret
        BY <4>1 DEF Named
      <4> QED
        BY <1>0, <4>2 DEF Whole, Stored
    <3>2. CASE j # call[t].idx
      <4>1. entry'[j] = entry[j]
        BY <1>0, <3>2 DEF Types
      <4>2. ASSUME NEW u \in Threads, Unnamed(call[u], j) PROVE Unnamed(call'[u], j)
        BY <1>0, <1>3, <3>2, <4>2 DEF Unnamed
      <4> QED
        BY <1>0, <4>1, <4>2 DEF RowWhole, Whole
    <3> QED
      BY <3>1, <3>2
  <2> QED
    BY <2>1 DEF RowWhole, Whole, Unnamed
<1>8. Types'
  <2>1. ring' \in [next : Places, total : Nat]
    <3>1. ring \in [next : Places, total : Nat]
      BY DEF Types
    <3>2. Advanced(ring, PER_ROW) \in [next : Places, total : Nat]
      BY <3>1, SizeAssumption DEF Advanced, Places
    <3> QED
      BY <3>1, <3>2 DEF AddName
  <2>2. IsFiniteSet(put')
    BY <1>0, FS_AddElement DEF Types
  <2> QED
    BY <1>3, <1>6, <2>1, <2>2 DEF AddName, Types
<1>9. CopiesWhole'
  BY <1>0 DEF AddName, CopiesWhole, Whole
<1> QED
  BY <1>4, <1>5, <1>7, <1>8, <1>9

\* The row is given up with every place named.
LEMMA AddUnlockInv ==
  ASSUME IndInv, NEW t \in Threads, AddUnlock(t) PROVE IndInv'
<1> USE DEF IndInv
<1>0. /\ call[t] \in CallType /\ call[t].at = "unlock"
      /\ call[t].id \in IDs /\ call[t].idx \in Places
      /\ lock = t /\ lock' = NoOne /\ mutex' = mutex /\ ref' = ref
      /\ entry' = entry /\ put' = put /\ Goes(t, Kept(t, "index"))
  BY DEF AddUnlock, Types, Positions, Carried, LocksHeld, Writing
<1> DEFINE n == Kept(t, "index")
<1>2. n \in CallType /\ n.at = "index" /\ n.id = call[t].id /\ n.idx = call[t].idx
  BY <1>0 DEF Kept, At, CallType, CallPlace
<1>3. Takes(t, n, lock, lock', Writing) /\ Takes(t, n, mutex, mutex', Searching)
  BY <1>0, <1>2 DEF Takes, Writing, Searching
<1>4. Carried(n, ref'[t])
  BY <1>0, <1>2 DEF Carried, Writing
<1>5. LocksHeld' /\ Positions' /\ RowWhole'
  BY <1>0, <1>2, <1>3, <1>4, LocksStep, PositionsStep, SameRow
<1>6. Types'
  BY <1>0, <1>2, OneMoves DEF AddUnlock, Types
<1>7. CopiesWhole'
  BY DEF AddUnlock, CopiesWhole
<1> QED
  BY <1>5, <1>6, <1>7

\* The object gets the place, and the application a reference to the object.
LEMMA AddSessionToClientCacheInv ==
  ASSUME IndInv, NEW t \in Threads, AddSessionToClientCache(t) PROVE IndInv'
<1> USE DEF IndInv
<1>0. /\ call[t].at = "index" /\ call[t].id \in IDs /\ call[t].idx \in Places
      /\ lock' = lock /\ mutex' = mutex /\ entry' = entry /\ put' = put
      /\ Goes(t, Idle) /\ clients \in [next : ClientPlaces, total : Nat]
      /\ ref' = [ref EXCEPT ![t] = clients.next]
  BY DEF AddSessionToClientCache, Types, Positions, Carried
<1>1. /\ ref' \in [Threads -> ClientPlaces \cup {NoRef}]
      /\ \A u \in Threads \ {t} : ref'[u] = ref[u]
  BY <1>0 DEF Types
<1>2. call' \in [Threads -> CallType] /\ LocksHeld' /\ Positions'
  BY <1>0, <1>1, CallEnds DEF Writing, Searching
<1>3. RowWhole'
  BY <1>0, IdleFields, SameRow
<1>4. clients' \in [next : ClientPlaces, total : Nat]
  <2>1. Advanced(clients, CLIENT_PER_ROW) \in [next : ClientPlaces, total : Nat]
    BY <1>0, SizeAssumption DEF Advanced, ClientPlaces
  <2> QED
    BY <2>1 DEF AddSessionToClientCache
<1>5. object' \in [ClientPlaces -> [idx : Places, hash : AnyID]]
  BY <1>0 DEF AddSessionToClientCache, Types, AnyID
<1>6. Types'
  BY <1>1, <1>2, <1>4, <1>5 DEF AddSessionToClientCache, Types
<1>7. CopiesWhole'
  BY DEF AddSessionToClientCache, CopiesWhole
<1> QED
  BY <1>2, <1>3, <1>6, <1>7

\* A lookup copies while it can read, when every place is whole.
LEMMA LookupInv ==
  ASSUME IndInv, NEW t \in Threads, Lookup(t) PROVE IndInv'
<1> USE DEF IndInv
<1>0. /\ call[t] \in CallType /\ call[t].at = "lookup" /\ lock = NoOne
      /\ lock' = lock /\ mutex' = mutex /\ ref' = ref
      /\ entry' = entry /\ put' = put
  BY DEF Lookup, Types, Readable
<1>1. PICK n \in {Idle, At("expired", call[t].id, 0, 0)} : Goes(t, n)
  BY DEF Lookup
<1>2. n \in CallType /\ n.at \in {"idle", "expired"}
  <2>a. call[t].id \in AnyID
    BY <1>0 DEF CallType
  <2>1. /\ At("expired", call[t].id, 0, 0) \in CallType
        /\ At("expired", call[t].id, 0, 0).at = "expired"
    BY <2>a DEF At, CallType, CallPlace
  <2> QED
    BY <1>1, <2>1, IdleFields
<1>3. Takes(t, n, lock, lock', Writing) /\ Takes(t, n, mutex, mutex', Searching)
  BY <1>0, <1>2 DEF Takes, Writing, Searching
<1>4. Carried(n, ref'[t])
  BY <1>2 DEF Carried, Writing
<1>5. LocksHeld' /\ Positions' /\ RowWhole'
  BY <1>0, <1>1, <1>2, <1>3, <1>4, LocksStep, PositionsStep, SameRow
<1>6. session' = session \/ \E i \in Places : session' = [session EXCEPT ![t] = entry[i]]
  BY DEF Lookup, Found, Matches
<1>7. session' \in [Threads -> Entry] /\ CopiesWhole'
  <2>1. CASE session' = session
    BY <1>0, <2>1 DEF Types, CopiesWhole
  <2>2. ASSUME NEW i \in Places, session' = [session EXCEPT ![t] = entry[i]]
        PROVE  session' \in [Threads -> Entry] /\ CopiesWhole'
    <3>1. Whole(entry[i], put)
      BY <1>0, ReadableWhole
    <3> QED
      BY <1>0, <2>2, <3>1, SessionStep DEF Types
  <2> QED
    BY <1>6, <2>1, <2>2
<1>8. Types'
  BY <1>0, <1>1, <1>2, <1>7, OneMoves DEF Lookup, Types
<1> QED
  BY <1>5, <1>7, <1>8

\* Evicting what was found keeps the invariant.
LEMMA GetAndEvictInv ==
  ASSUME IndInv, NEW t \in Threads, NEW id, GetAndEvict(id), Goes(t, Idle),
         call[t].at \in {"expired", "remove"},
         UNCHANGED <<ring, object, clients, lock, mutex, ref, session, now, calls, put>>
  PROVE  IndInv'
<1> USE DEF IndInv
<1>1. call' \in [Threads -> CallType] /\ LocksHeld' /\ Positions'
  BY CallEnds DEF Writing, Searching
<1>2. entry' \in [Places -> Entry] /\ RowWhole'
  <2>1. lock = NoOne /\ (entry' = entry \/ \E i \in Places : Evict(i))
    BY DEF GetAndEvict, Found, Matches
  <2>2. CASE entry' = entry
    BY <2>2, IdleFields, SameRow DEF Types
  <2>3. ASSUME NEW i \in Places, Evict(i) PROVE entry' \in [Places -> Entry] /\ RowWhole'
    BY <2>1, <2>3, EvictStep
  <2> QED
    BY <2>1, <2>2, <2>3
<1>3. Types'
  BY <1>1, <1>2 DEF Types
<1>4. CopiesWhole'
  BY DEF CopiesWhole
<1> QED
  BY <1>1, <1>2, <1>3, <1>4

\* The lookup that found a session too old evicts what it finds now.
LEMMA EvictExpiredInv ==
  ASSUME IndInv, NEW t \in Threads, EvictExpired(t) PROVE IndInv'
BY GetAndEvictInv DEF EvictExpired

\* Removing evicts what has the ID that stands at the place now.
LEMMA RemoveSessionInv ==
  ASSUME IndInv, NEW t \in Threads, RemoveSession(t) PROVE IndInv'
BY GetAndEvictInv DEF RemoveSession

\* wolfSSL_GetSessionClient takes the mutex.
LEMMA SearchLockInv ==
  ASSUME IndInv, NEW t \in Threads, SearchLock(t) PROVE IndInv'
<1> USE DEF IndInv
<1> DEFINE k == Before(clients.next, CLIENT_PER_ROW)
           n == At("search", call[t].id, k, clients.total)
<1>0. /\ call[t] \in CallType /\ call[t].at = "server" /\ call[t].id \in Servers \X {0}
      /\ lock' = lock /\ mutex = NoOne /\ mutex' = t /\ ref' = ref
      /\ entry' = entry /\ put' = put /\ Goes(t, n)
      /\ clients \in [next : ClientPlaces, total : Nat]
  BY DEF SearchLock, Types, Positions, Carried
<1>1. k \in ClientPlaces
  BY <1>0, SizeAssumption DEF Before, ClientPlaces
<1>a. call[t].id \in AnyID
  BY <1>0 DEF CallType
<1>b. k \in Int
  BY <1>1, PlaceInt
<1>c. clients.total \in Int
  BY <1>0
<1>d. "search" \in CallPlace
  BY DEF CallPlace
<1>2. n \in CallType /\ n.at = "search" /\ n.id = call[t].id /\ n.idx = k
  BY <1>a, <1>b, <1>c, <1>d, AtFields
<1>3. Takes(t, n, lock, lock', Writing) /\ Takes(t, n, mutex, mutex', Searching)
  BY <1>0, <1>2 DEF Takes, Writing, Searching
<1>4. Carried(n, ref'[t])
  BY <1>0, <1>1, <1>2 DEF Carried, Writing
<1>5. LocksHeld' /\ Positions' /\ RowWhole'
  BY <1>0, <1>2, <1>3, <1>4, LocksStep, PositionsStep, SameRow
<1>6. Types'
  BY <1>0, <1>2, OneMoves DEF SearchLock, Types
<1>7. CopiesWhole'
  BY DEF SearchLock, CopiesWhole
<1> QED
  BY <1>5, <1>6, <1>7

\* It gives the mutex up with a place of the row, or with nothing.
LEMMA GetSessionClientInv ==
  ASSUME IndInv, NEW t \in Threads, GetSessionClient(t) PROVE IndInv'
<1> USE DEF IndInv
<1>0. /\ call[t] \in CallType /\ call[t].at = "search"
      /\ call[t].id \in Servers \X {0} /\ call[t].idx \in ClientPlaces
      /\ mutex = t /\ lock' = lock /\ ref' = ref /\ entry' = entry /\ put' = put
  BY DEF GetSessionClient, Types, Positions, Carried, LocksHeld, Searching
<1>a. call[t].id \in AnyID /\ call[t].left \in Int
  BY <1>0 DEF CallType
<1>1. PICK n \in CallType :
        /\ Goes(t, n)
        /\ \/ n.at = "idle" /\ mutex' = NoOne
           \/ n.at = "set" /\ n.id = call[t].id /\ n.idx \in Places /\ mutex' = NoOne
           \/ /\ n.at = "search" /\ n.id = call[t].id /\ n.idx \in ClientPlaces
              /\ mutex' = mutex
  <2>1. CASE Goes(t, Idle) /\ mutex' = NoOne
    BY <2>1, IdleFields
  <2> DEFINE i == object[call[t].idx].idx
  <2>2. CASE Goes(t, At("set", call[t].id, i, 0)) /\ mutex' = NoOne
    <3>1. i \in Places /\ i \in Int
      BY <1>0, PlaceInt DEF Types
    <3>2. LET n == At("set", call[t].id, i, 0)
          IN  n \in CallType /\ n.at = "set" /\ n.id = call[t].id /\ n.idx = i
      BY <1>a, <3>1 DEF At, CallType, CallPlace
    <3> QED
      BY <2>2, <3>1, <3>2
  <2> DEFINE k == Before(call[t].idx, CLIENT_PER_ROW)
  <2>3. CASE Goes(t, At("search", call[t].id, k, call[t].left - 1)) /\ mutex' = mutex
    <3>1. k \in ClientPlaces /\ k \in Int
      BY <1>0, SizeAssumption, PlaceInt DEF Before, ClientPlaces
    <3>a. call[t].left - 1 \in Int
      BY <1>a
    <3>2. LET n == At("search", call[t].id, k, call[t].left - 1)
          IN  n \in CallType /\ n.at = "search" /\ n.id = call[t].id /\ n.idx = k
      BY <1>a, <3>1, <3>a DEF At, CallType, CallPlace
    <3> QED
      BY <2>3, <3>1, <3>2
  <2> QED
    BY <2>1, <2>2, <2>3 DEF GetSessionClient
<1>3. Takes(t, n, lock, lock', Writing) /\ Takes(t, n, mutex, mutex', Searching)
  BY <1>0, <1>1 DEF Takes, Writing, Searching
<1>4. Carried(n, ref'[t])
  BY <1>0, <1>1 DEF Carried, Writing
<1>5. LocksHeld' /\ Positions' /\ RowWhole'
  BY <1>0, <1>1, <1>3, <1>4, LocksStep, PositionsStep, SameRow
<1>6. session' \in [Threads -> Entry] /\ CopiesWhole'
  <2>1. CASE session' = session
    BY <1>0, <2>1 DEF Types, CopiesWhole
  <2> DEFINE s == ForServer(session[t], call[t].id[1])
  <2>2. CASE session' = [session EXCEPT ![t] = s]
    <3>1. session[t] \in Entry /\ call[t].id[1] \in Servers
      BY <1>0 DEF Types
    <3>2. s \in Entry /\ s.id = session[t].id /\ s.secret = session[t].secret
      BY <3>1 DEF ForServer, Entry
    <3>3. Whole(s, put)
      BY <3>2 DEF Whole, CopiesWhole
    <3> QED
      BY <1>0, <2>2, <3>2, <3>3, SessionStep DEF Types
  <2> QED
    BY <2>1, <2>2 DEF GetSessionClient
<1>7. Types'
  BY <1>0, <1>1, <1>6, OneMoves DEF GetSessionClient, Types
<1> QED
  BY <1>5, <1>6, <1>7

\* ClientSessionToSession takes the mutex.
LEMMA ResolveLockInv ==
  ASSUME IndInv, NEW t \in Threads, ResolveLock(t) PROVE IndInv'
<1> USE DEF IndInv
<1>0. /\ call[t] \in CallType /\ call[t].at \in {"resolve to set", "resolve to remove"}
      /\ ref[t] \in ClientPlaces
      /\ lock' = lock /\ mutex = NoOne /\ mutex' = t /\ ref' = ref
      /\ entry' = entry /\ put' = put
  BY DEF ResolveLock, Types, Positions, Carried
<1>1. PICK place \in {"to set", "to remove"} : Goes(t, Kept(t, place))
  BY DEF ResolveLock
<1> DEFINE n == Kept(t, place)
<1>2. n \in CallType /\ n.at = place
  BY <1>0, <1>1 DEF Kept, At, CallType, CallPlace
<1>3. Takes(t, n, lock, lock', Writing) /\ Takes(t, n, mutex, mutex', Searching)
  BY <1>0, <1>1, <1>2 DEF Takes, Writing, Searching
<1>4. Carried(n, ref'[t])
  BY <1>0, <1>1, <1>2 DEF Carried, Writing
<1>5. LocksHeld' /\ Positions' /\ RowWhole'
  BY <1>0, <1>1, <1>2, <1>3, <1>4, LocksStep, PositionsStep, SameRow
<1>6. Types'
  BY <1>0, <1>1, <1>2, OneMoves DEF ResolveLock, Types
<1>7. CopiesWhole'
  BY DEF ResolveLock, CopiesWhole
<1> QED
  BY <1>5, <1>6, <1>7

\* It gives the mutex up with the place the object names, or with nothing.
LEMMA ClientSessionToSessionInv ==
  ASSUME IndInv, NEW t \in Threads, ClientSessionToSession(t) PROVE IndInv'
<1> USE DEF IndInv
<1> DEFINE i == object[ref[t]].idx
<1>0. /\ call[t] \in CallType /\ call[t].at \in {"to set", "to remove"}
      /\ ref[t] \in ClientPlaces /\ i \in Places
      /\ mutex = t /\ mutex' = NoOne /\ lock' = lock /\ ref' = ref
      /\ entry' = entry /\ put' = put
  BY DEF ClientSessionToSession, Types, Positions, Carried, LocksHeld, Searching
<1>1. PICK n \in CallType :
        /\ Goes(t, n)
        /\ \/ n.at = "idle"
           \/ n.at \in {"set", "remove"} /\ n.id = NoID /\ n.idx = i
  <2>1. ASSUME Goes(t, Idle) PROVE \E n \in CallType : Goes(t, n) /\ n.at = "idle"
    BY <2>1, IdleFields
  <2>2. ASSUME NEW place \in {"set", "remove"}, Goes(t, At(place, NoID, i, 0))
        PROVE  \E n \in CallType : /\ Goes(t, n)
                                   /\ n.at \in {"set", "remove"} /\ n.id = NoID /\ n.idx = i
    <3>1. NoID \in AnyID /\ i \in Int /\ place \in CallPlace
      BY <1>0, PlaceInt DEF AnyID, CallPlace
    <3>2. LET n == At(place, NoID, i, 0)
          IN  n \in CallType /\ n.at = place /\ n.id = NoID /\ n.idx = i
      BY <3>1 DEF At, CallType
    <3> QED
      BY <2>2, <3>2
  <2> QED
    BY <2>1, <2>2 DEF ClientSessionToSession
<1>3. Takes(t, n, lock, lock', Writing) /\ Takes(t, n, mutex, mutex', Searching)
  BY <1>0, <1>1 DEF Takes, Writing, Searching
<1>4. Carried(n, ref'[t])
  BY <1>0, <1>1 DEF Carried, Writing
<1>5. LocksHeld' /\ Positions' /\ RowWhole'
  BY <1>0, <1>1, <1>3, <1>4, LocksStep, PositionsStep, SameRow
<1>6. Types'
  BY <1>0, <1>1, OneMoves DEF ClientSessionToSession, Types
<1>7. CopiesWhole'
  BY DEF ClientSessionToSession, CopiesWhole
<1> QED
  BY <1>5, <1>6, <1>7

\* wolfSSL_SetSession copies while it can read, when every place is whole.
LEMMA SetSessionInv ==
  ASSUME IndInv, NEW t \in Threads, SetSession(t) PROVE IndInv'
<1> USE DEF IndInv
<1> DEFINE s == entry[call[t].idx]
           f == ForServer(s, call[t].id[1])
<1>0. /\ call[t] \in CallType /\ call[t].at = "set" /\ call[t].idx \in Places
      /\ call[t].id \in {NoID} \cup (Servers \X {0})
      /\ lock = NoOne /\ lock' = lock /\ mutex' = mutex /\ ref' = ref
      /\ entry' = entry /\ put' = put /\ Goes(t, Idle)
  BY DEF SetSession, Readable, Types, Positions, Carried
<1>1. call' \in [Threads -> CallType] /\ LocksHeld' /\ Positions'
  BY <1>0, CallEnds DEF Writing, Searching
<1>2. RowWhole'
  BY <1>0, IdleFields, SameRow
<1>3. s \in Entry /\ Whole(s, put)
  BY <1>0, ReadableWhole DEF Types
<1>4. call[t].id # NoID => f \in Entry /\ Whole(f, put)
  <2>1. SUFFICES ASSUME call[t].id # NoID PROVE f \in Entry /\ Whole(f, put)
    OBVIOUS
  <2>2. call[t].id[1] \in Servers
    BY <1>0, <2>1
  <2>3. f \in Entry /\ f.id = s.id /\ f.secret = s.secret
    BY <1>3, <2>2 DEF ForServer, Entry
  <2> QED
    BY <1>3, <2>3 DEF Whole
<1>5. \/ session' = [session EXCEPT ![t] = s]
      \/ call[t].id # NoID /\ session' = [session EXCEPT ![t] = f]
  BY DEF SetSession
<1>6. session' \in [Threads -> Entry]
  BY <1>3, <1>4, <1>5 DEF Types
<1>7. CopiesWhole'
  BY <1>0, <1>3, <1>4, <1>5, SessionStep
<1>8. Types'
  BY <1>1, <1>6, <1>0 DEF SetSession, Types
<1> QED
  BY <1>1, <1>2, <1>7, <1>8

\* Flushing evicts while it can write.
LEMMA FlushInv ==
  ASSUME IndInv, NEW t \in Threads, Flush(t) PROVE IndInv'
<1> USE DEF IndInv
<1>0. /\ call[t].at = "flush" /\ lock = NoOne
      /\ lock' = lock /\ mutex' = mutex /\ ref' = ref /\ put' = put /\ Goes(t, Idle)
  BY DEF Flush
<1>1. call' \in [Threads -> CallType] /\ LocksHeld' /\ Positions'
  BY <1>0, CallEnds DEF Writing, Searching
<1>2. PICK old \in SUBSET Places :
        entry' = [i \in Places |-> IF i \in old THEN Evicted(entry[i]) ELSE entry[i]]
  BY DEF Flush
<1>3. ASSUME NEW i \in Places PROVE entry'[i] \in Entry /\ Whole(entry'[i], put)
  <2>1. entry[i] \in Entry /\ Whole(entry[i], put)
    BY <1>0, ReadableWhole DEF Types
  <2> QED
    BY <1>2, <2>1, EvictedWhole
<1>4. entry' \in [Places -> Entry]
  BY <1>2, <1>3
<1>5. RowWhole'
  BY <1>0, <1>3 DEF RowWhole, Whole
<1>6. Types'
  BY <1>1, <1>4 DEF Flush, Types
<1>7. CopiesWhole'
  BY DEF Flush, CopiesWhole
<1> QED
  BY <1>1, <1>5, <1>6, <1>7

\* A call starts with an ID of the row, a server, or a reference.
LEMMA CallInv ==
  ASSUME IndInv, NEW t \in Threads, Call(t) PROVE IndInv'
<1> USE DEF IndInv
<1>0. /\ call[t].at = "idle" /\ lock' = lock /\ mutex' = mutex /\ ref' = ref
      /\ entry' = entry /\ put' = put /\ session' = [session EXCEPT ![t] = Blank]
  BY IdleFields DEF Call
<1>1. PICK place, id :
        /\ Goes(t, At(place, id, 0, 0))
        /\ \/ place \in {"claim", "lookup"} /\ id \in IDs
           \/ place = "server" /\ id \in Servers \X {0}
           \/ /\ place \in {"resolve to set", "resolve to remove"} /\ id = NoID
              /\ ref[t] # NoRef
           \/ place = "flush" /\ id = NoID
  <2>1. ASSUME NEW id \in IDs, NEW place \in {"claim", "lookup"},
               Goes(t, At(place, id, 0, 0))
        PROVE  \E p, d : Goes(t, At(p, d, 0, 0)) /\ p \in {"claim", "lookup"} /\ d \in IDs
    BY <2>1
  <2>2. ASSUME NEW server \in Servers, Goes(t, At("server", <<server, 0>>, 0, 0))
        PROVE  \E id : Goes(t, At("server", id, 0, 0)) /\ id \in Servers \X {0}
    <3>1. <<server, 0>> \in Servers \X {0}
      OBVIOUS
    <3> QED
      BY <2>2, <3>1
  <2> QED
    BY <2>1, <2>2 DEF Call
<1> DEFINE n == At(place, id, 0, 0)
<1>a. place \in CallPlace /\ id \in AnyID
  BY <1>1 DEF CallPlace, AnyID
<1>2. n \in CallType /\ n.at = place /\ n.id = id
  BY <1>a DEF At, CallType
<1>3. Takes(t, n, lock, lock', Writing) /\ Takes(t, n, mutex, mutex', Searching)
  BY <1>0, <1>1, <1>2 DEF Takes, Writing, Searching
<1>4. Carried(n, ref'[t])
  <2>1. ref[t] # NoRef => ref'[t] \in ClientPlaces
    BY <1>0 DEF Types
  <2> QED
    BY <1>1, <1>2, <2>1 DEF Carried, Writing
<1>5. LocksHeld' /\ Positions' /\ RowWhole'
  BY <1>0, <1>1, <1>2, <1>3, <1>4, LocksStep, PositionsStep, SameRow
<1>6. Blank \in Entry /\ Whole(Blank, put)
  <2>1. NoID \in AnyID
    BY DEF AnyID
  <2> QED
    BY <2>1 DEF Blank, Entry, Whole
<1>7. Types'
  BY <1>0, <1>1, <1>2, <1>6, OneMoves, ZenonT(60) DEF Call, Types
<1>8. CopiesWhole'
  BY <1>0, <1>6, SessionStep
<1> QED
  BY <1>5, <1>7, <1>8

-----------------------------------------------------------------------------
(* The theorems.                                                           *)

\* The caches are empty and nobody calls.
LEMMA InitInv == Init => IndInv
<1> SUFFICES ASSUME Init PROVE IndInv
  OBVIOUS
<1>1. NoID \in AnyID /\ 0 \in Places /\ 0 \in ClientPlaces
  BY SizeAssumption DEF AnyID, Places, ClientPlaces
<1>2. Blank \in Entry /\ Whole(Blank, put) /\ Blank.id = NoID /\ Blank.secret = 0
  BY <1>1 DEF Blank, Entry, Whole
<1>3. Types
  BY <1>1, <1>2, IdleFields, FS_EmptySet DEF Init, Types
<1>4. LocksHeld
  BY IdleFields, ThreadAssumption DEF Init, LocksHeld, Writing, Searching
<1>5. Positions
  BY IdleFields DEF Init, Positions, Carried, Writing
<1>6. RowWhole /\ CopiesWhole
  BY <1>2 DEF Init, RowWhole, CopiesWhole
<1> QED
  BY <1>3, <1>4, <1>5, <1>6 DEF IndInv

\* Every step of the caches keeps the invariant.
LEMMA StepInv == IndInv /\ [Next]_vars => IndInv'
<1> SUFFICES ASSUME IndInv, [Next]_vars PROVE IndInv'
  OBVIOUS
<1>1. CASE UNCHANGED vars
  BY <1>1 DEF vars, IndInv, Types, LocksHeld, Positions, Carried, RowWhole, Whole, Unnamed,
     CopiesWhole
<1>2. CASE Tick
  <2>1. now' \in Nat
    BY <1>2 DEF Tick, IndInv, Types
  <2> QED
    BY <1>2, <2>1 DEF Tick, IndInv, Types, LocksHeld, Positions, Carried, RowWhole, Whole,
       Unnamed, CopiesWhole
<1>3. ASSUME NEW t \in Threads, Call(t) \/ Step(t) PROVE IndInv'
  BY <1>3, CallInv, AddClaimInv, AddDupInv, AddNameInv, AddUnlockInv,
     AddSessionToClientCacheInv, LookupInv, EvictExpiredInv, SearchLockInv,
     GetSessionClientInv, ResolveLockInv, ClientSessionToSessionInv, SetSessionInv,
     RemoveSessionInv, FlushInv DEF Step
<1> QED
  BY <1>1, <1>2, <1>3 DEF Next

\* Whoever holds the row does not wait, and whoever holds the mutex waits only
\* for the row.
LEMMA InvProceeds == IndInv => SomeoneProceeds
<1> SUFFICES ASSUME IndInv, NEW t \in Threads, call[t] # Idle
             PROVE  \E u \in Threads : /\ call[u] # Idle
                                       /\ ~ WaitsForRow(u) /\ ~ WaitsForMutex(u)
  BY DEF SomeoneProceeds
<1>1. CASE lock # NoOne
  <2>1. lock \in Threads /\ call[lock].at \in Writing
    BY <1>1 DEF IndInv, LocksHeld
  <2>2. call[lock] # Idle /\ ~ WaitsForRow(lock) /\ ~ WaitsForMutex(lock)
    BY <2>1, IdleFields DEF Writing, WaitsForRow, WaitsForMutex
  <2> QED
    BY <2>1, <2>2
<1>2. CASE lock = NoOne /\ mutex # NoOne
  <2>1. mutex \in Threads /\ call[mutex].at \in Searching
    BY <1>2 DEF IndInv, LocksHeld
  <2>2. call[mutex] # Idle /\ ~ WaitsForRow(mutex) /\ ~ WaitsForMutex(mutex)
    BY <1>2, <2>1, IdleFields DEF Searching, WaitsForRow, WaitsForMutex
  <2> QED
    BY <2>1, <2>2
<1>3. CASE lock = NoOne /\ mutex = NoOne
  BY <1>3 DEF WaitsForRow, WaitsForMutex
<1> QED
  BY <1>1, <1>2, <1>3

(***************************************************************************)
(* The object and its session.  A thread that resolved an object carries a *)
(* place; what comes to stand there is nothing or was stored since, since  *)
(* every session is stored with a secret no earlier one has.               *)
(***************************************************************************)
Resolving == {"resolve to set", "resolve to remove", "to set", "to remove"}

\* What holds of a thread in call c with session s that asked for a, over a row
\* in which n sessions have been stored.
Remembers(c, s, a, row, n) ==
  /\ a \in [id : AnyID, stored : Nat] /\ a.stored <= n
  /\ a # NotAsked => c.at \in {"idle", "set", "remove"}
  /\ c.at = "set" => AskedFor(row[c.idx], a)
  /\ c.at \in Resolving => s.id = NoID
  /\ AskedFor(s, a)
  /\ c.at \in {"advance", "name"} => row[c.idx].secret = n + 1

AskInv ==
  /\ asked \in [Threads -> [id : AnyID, stored : Nat]]
  /\ \A t \in Threads : Remembers(call[t], session[t], asked[t], entry, Cardinality(put))

\* What a step of t may do to the row under another thread.
RowMoves(t, n, n2) ==
  \/ entry' = entry /\ n2 = n
  \/ /\ lock \in {NoOne, t} /\ n <= n2
     /\ \A i \in Places : \/ entry'[i] = entry[i] \/ entry'[i].id = NoID
                          \/ entry'[i].secret > n

\* Sessions are counted.
LEMMA PutCounted == Types => Cardinality(put) \in Nat
BY FS_CardinalityType DEF Types

\* Another thread remembers as before.
LEMMA OthersRemember ==
  ASSUME Types, Types', LocksHeld, Positions, NEW t \in Threads, NEW u \in Threads \ {t},
         NEW n \in Nat, NEW n2 \in Nat, RowMoves(t, n, n2),
         Remembers(call[u], session[u], asked[u], entry, n)
  PROVE  Remembers(call[u], session[u], asked[u], entry', n2)
<1> DEFINE c == call[u]
           a == asked[u]
<1>1. /\ a \in [id : AnyID, stored : Nat] /\ a.stored <= n
      /\ a # NotAsked => c.at \in {"idle", "set", "remove"}
      /\ c.at = "set" => AskedFor(entry[c.idx], a)
      /\ c.at \in Resolving => session[u].id = NoID
      /\ AskedFor(session[u], a)
      /\ c.at \in {"advance", "name"} => entry[c.idx].secret = n + 1
  BY DEF Remembers
<1>2. c.at = "set" => c.idx \in Places
  BY DEF Positions, Carried
<1>3. lock \in {NoOne, t} => c.at \notin {"advance", "name"}
  BY ThreadAssumption DEF LocksHeld, Writing
<1>4. a.stored <= n2
  <2>1. a.stored \in Nat /\ n <= n2
    BY <1>1 DEF RowMoves
  <2> QED
    BY <1>1, <2>1
<1>5. c.at = "set" => AskedFor(entry'[c.idx], a)
  <2>1. SUFFICES ASSUME c.at = "set", entry'[c.idx] # entry[c.idx],
                        entry'[c.idx].id # NoID
                 PROVE  entry'[c.idx].secret > a.stored
    BY <1>1 DEF AskedFor
  <2>2. entry'[c.idx].secret > n
    BY <1>2, <2>1 DEF RowMoves
  <2>3. entry'[c.idx].secret > a.stored
    <3>1. entry'[c.idx].secret \in Int
      BY <1>2, <2>1 DEF Types, Entry
    <3> QED
      BY <1>1, <2>2, <3>1
  <2> QED
    BY <2>3
<1>6. c.at \in {"advance", "name"} => entry'[c.idx].secret = n2 + 1
  BY <1>1, <1>3 DEF RowMoves
<1> HIDE DEF c, a
<1>7. /\ a \in [id : AnyID, stored : Nat]
      /\ a # NotAsked => c.at \in {"idle", "set", "remove"}
      /\ c.at \in Resolving => session[u].id = NoID
      /\ AskedFor(session[u], a)
  BY <1>1
<1>8. Remembers(c, session[u], a, entry', n2)
  BY <1>4, <1>5, <1>6, <1>7 DEF Remembers
<1> QED
  BY <1>8 DEF c, a

\* So it is enough to look at the thread that moves.
LEMMA AskStep ==
  ASSUME IndInv, IndInv', AskInv, NEW t \in Threads, NEW c, Goes(t, c),
         NEW s, session' = [session EXCEPT ![t] = s],
         NEW a, asked' = [asked EXCEPT ![t] = a],
         RowMoves(t, Cardinality(put), Cardinality(put')),
         Remembers(c, s, a, entry', Cardinality(put'))
  PROVE  AskInv'
<1>1. Types /\ LocksHeld /\ Positions /\ Types'
  BY DEF IndInv
<1>2. Cardinality(put) \in Nat /\ Cardinality(put') \in Nat
  BY <1>1, FS_CardinalityType DEF Types
<1>3. /\ call'[t] = c /\ session'[t] = s /\ asked'[t] = a
      /\ \A u \in Threads \ {t} : /\ call'[u] = call[u] /\ session'[u] = session[u]
                                  /\ asked'[u] = asked[u]
  BY <1>1 DEF Goes, Types, AskInv
<1>4. ASSUME NEW u \in Threads
      PROVE  Remembers(call'[u], session'[u], asked'[u], entry', Cardinality(put'))
  <2>1. CASE u = t
    BY <1>3, <2>1
  <2>2. CASE u # t
    <3>1. Remembers(call[u], session[u], asked[u], entry, Cardinality(put))
      BY DEF AskInv
    <3>2. Remembers(call[u], session[u], asked[u], entry', Cardinality(put'))
      BY <1>1, <1>2, <2>2, <3>1, OthersRemember
    <3> QED
      BY <1>3, <2>2, <3>2
  <2> QED
    BY <2>1, <2>2
<1>5. asked' \in [Threads -> [id : AnyID, stored : Nat]]
  BY DEF AskInv, Remembers
<1>6. AskInv' <=> /\ asked' \in [Threads -> [id : AnyID, stored : Nat]]
                  /\ \A u \in Threads :
                       Remembers(call'[u], session'[u], asked'[u], entry', Cardinality(put'))
  BY DEF AskInv, Remembers, AskedFor
<1> QED
  BY <1>4, <1>5, <1>6

\* A step that only moves t and evicts, and leaves t with nothing to read.
LEMMA AskQuiet ==
  ASSUME IndInv, IndInv', AskInv, NEW t \in Threads, NEW c, Goes(t, c),
         session' = session, asked' = asked, put' = put,
         RowMoves(t, Cardinality(put), Cardinality(put)),
         c.at \notin {"set", "advance", "name"},
         c.at = "idle" \/ call[t].at \notin {"idle", "set", "remove"},
         c.at \in Resolving => call[t].at \in Resolving
  PROVE  AskInv'
<1>1. Remembers(call[t], session[t], asked[t], entry, Cardinality(put))
  BY DEF AskInv
<1>2. Remembers(c, session[t], asked[t], entry', Cardinality(put))
  BY <1>1 DEF Remembers
<1>3. /\ session' = [session EXCEPT ![t] = session[t]]
      /\ asked' = [asked EXCEPT ![t] = asked[t]]
  BY DEF IndInv, Types, AskInv
<1>4. Cardinality(put') = Cardinality(put)
  OBVIOUS
<1> QED
  BY <1>2, <1>3, <1>4, AskStep

\* Evicting while nobody writes.
LEMMA EvictMoves ==
  ASSUME Types, NEW t \in Threads, NEW n \in Nat, lock = NoOne,
         entry' = entry \/ \E i \in Places : Evict(i)
  PROVE  RowMoves(t, n, n)
<1>1. CASE entry' = entry
  BY <1>1 DEF RowMoves
<1>2. ASSUME NEW i \in Places, Evict(i) PROVE RowMoves(t, n, n)
  <2>1. \A j \in Places : entry'[j] = entry[j] \/ entry'[j].id = NoID
    BY <1>2 DEF Evict, Evicted, Types
  <2> QED
    BY <2>1 DEF RowMoves
<1> QED
  BY <1>1, <1>2

\* The place that is claimed is evicted at most.
LEMMA AddClaimAsk ==
  ASSUME IndInv, IndInv', AskInv, NEW t \in Threads, AddClaim(t) PROVE AskInv'
<1>1. /\ call[t].at = "claim" /\ lock = NoOne
      /\ session' = session /\ asked' = asked /\ put' = put
  BY DEF AddClaim
<1>2. PICK place \in {"overwrite", "insert"}, i \in Places :
        /\ Goes(t, At(place, call[t].id, i, 0))
        /\ entry' = entry \/ Evict(i)
  BY DEF AddClaim, Same, IndInv, Types
<1>3. At(place, call[t].id, i, 0).at = place
  BY DEF At
<1>4. RowMoves(t, Cardinality(put), Cardinality(put))
  BY <1>1, <1>2, PutCounted, EvictMoves DEF IndInv
<1> QED
  BY <1>1, <1>2, <1>3, <1>4, AskQuiet DEF Resolving

\* What is copied to the place has a secret that nobody has stored yet.
LEMMA AddDupAsk ==
  ASSUME IndInv, IndInv', AskInv, NEW t \in Threads, AddDup(t) PROVE AskInv'
<1> DEFINE n == Cardinality(put)
           m == asked[t]
<1>1. /\ call[t].at \in {"overwrite", "insert"} /\ call[t].idx \in Places /\ lock = t
      /\ session' = session /\ asked' = asked /\ put' = put
  BY DEF AddDup, IndInv, Positions, Carried, LocksHeld, Writing
<1>2. PICK place \in {"advance", "name"} : Goes(t, Kept(t, place))
  BY DEF AddDup
<1>3. /\ entry'[call[t].idx].secret = n + 1
      /\ \A j \in Places \ {call[t].idx} : entry'[j] = entry[j]
  BY <1>1 DEF AddDup, IndInv, Types
<1>4. n \in Nat
  BY PutCounted DEF IndInv
<1> HIDE DEF n
<1>5. RowMoves(t, n, n)
  BY <1>1, <1>3, <1>4 DEF RowMoves
<1>6. Kept(t, place).at = place /\ Kept(t, place).idx = call[t].idx
  BY DEF Kept, At
<1>7. Remembers(call[t], session[t], m, entry, n)
  BY DEF AskInv, n
<1>8. m \in [id : AnyID, stored : Nat] /\ m.stored <= n /\ m = NotAsked
      /\ AskedFor(session[t], m)
  BY <1>1, <1>7 DEF Remembers
<1>9. Remembers(Kept(t, place), session[t], m, entry', n)
  BY <1>2, <1>3, <1>6, <1>8 DEF Remembers, Resolving
<1>10. /\ session' = [session EXCEPT ![t] = session[t]]
       /\ asked' = [asked EXCEPT ![t] = m]
  BY <1>1 DEF IndInv, Types, AskInv
<1>11. n = Cardinality(put) /\ Cardinality(put') = Cardinality(put)
  BY <1>1 DEF n
<1> QED
  BY <1>2, <1>5, <1>9, <1>10, <1>11, AskStep

\* Naming the place stores what nobody has stored yet.
LEMMA AddNameAsk ==
  ASSUME IndInv, IndInv', AskInv, NEW t \in Threads, AddName(t) PROVE AskInv'
<1> DEFINE n == Cardinality(put)
           n2 == Cardinality(put')
           m == asked[t]
           c == Kept(t, "unlock")
<1>1. /\ call[t].at \in {"advance", "name"} /\ call[t].idx \in Places /\ lock = t
      /\ session' = session /\ asked' = asked /\ put' = put \cup {Stored(t)}
      /\ Goes(t, c)
  BY DEF AddName, IndInv, Positions, Carried, LocksHeld, Writing
<1>2. Remembers(call[t], session[t], m, entry, n)
  BY DEF AskInv
<1>3. /\ m \in [id : AnyID, stored : Nat] /\ m.stored <= n /\ m = NotAsked
      /\ AskedFor(session[t], m) /\ entry[call[t].idx].secret = n + 1
  BY <1>1, <1>2 DEF Remembers
<1>4. n \in Nat /\ n2 \in Nat /\ n <= n2
  <2>1. IsFiniteSet(put) /\ IsFiniteSet(put') /\ put \subseteq put'
    BY <1>1 DEF IndInv, Types
  <2> QED
    BY <2>1, FS_CardinalityType, FS_Subset
<1>5. /\ entry'[call[t].idx].secret = n + 1
      /\ \A j \in Places \ {call[t].idx} : entry'[j] = entry[j]
  BY <1>1, <1>3 DEF AddName, Named, IndInv, Types
<1>6. c.at = "unlock"
  BY DEF Kept, At
<1>7. /\ session' = [session EXCEPT ![t] = session[t]]
      /\ asked' = [asked EXCEPT ![t] = m]
  BY <1>1 DEF IndInv, Types, AskInv
<1> HIDE DEF n, n2, c
<1>8. RowMoves(t, n, n2)
  BY <1>1, <1>4, <1>5 DEF RowMoves
<1>9. m.stored <= n2
  BY <1>3, <1>4
<1>10. Remembers(c, session[t], m, entry', n2)
  BY <1>3, <1>6, <1>9 DEF Remembers, Resolving
<1> QED
  BY <1>1, <1>7, <1>8, <1>10, AskStep DEF n, n2

\* Giving the row up, and putting the place in an object.
LEMMA AddEndAsk ==
  ASSUME IndInv, IndInv', AskInv, NEW t \in Threads,
         AddUnlock(t) \/ AddSessionToClientCache(t)
  PROVE  AskInv'
<1>1. /\ call[t].at \in {"unlock", "index"}
      /\ session' = session /\ asked' = asked /\ put' = put /\ entry' = entry
  BY DEF AddUnlock, AddSessionToClientCache
<1>2. PICK c \in {Kept(t, "index"), Idle} : Goes(t, c)
  BY DEF AddUnlock, AddSessionToClientCache
<1>3. c.at \in {"index", "idle"}
  BY <1>2, IdleFields DEF Kept, At
<1>4. RowMoves(t, Cardinality(put), Cardinality(put))
  BY <1>1 DEF RowMoves
<1> QED
  BY <1>1, <1>2, <1>3, <1>4, AskQuiet DEF Resolving

\* Eviction of what was found.
LEMMA GetAndEvictAsk ==
  ASSUME IndInv, IndInv', AskInv, NEW t \in Threads, EvictExpired(t) \/ RemoveSession(t)
  PROVE  AskInv'
<1>1. /\ session' = session /\ asked' = asked /\ put' = put /\ Goes(t, Idle)
      /\ \E id : GetAndEvict(id)
  BY DEF EvictExpired, RemoveSession
<1>2. lock = NoOne /\ (entry' = entry \/ \E i \in Places : Evict(i))
  BY <1>1 DEF GetAndEvict, Found, Matches
<1>3. RowMoves(t, Cardinality(put), Cardinality(put))
  BY <1>2, PutCounted, EvictMoves DEF IndInv
<1> QED
  BY <1>1, <1>3, IdleFields, AskQuiet DEF Resolving

\* Flushing evicts too.
LEMMA FlushAsk ==
  ASSUME IndInv, IndInv', AskInv, NEW t \in Threads, Flush(t) PROVE AskInv'
<1>1. /\ session' = session /\ asked' = asked /\ put' = put /\ Goes(t, Idle)
      /\ lock = NoOne
  BY DEF Flush
<1>2. \A i \in Places : entry'[i] = entry[i] \/ entry'[i].id = NoID
  BY DEF Flush, Evicted
<1>3. Cardinality(put) \in Nat
  BY PutCounted DEF IndInv
<1>4. RowMoves(t, Cardinality(put), Cardinality(put))
  BY <1>1, <1>2, <1>3 DEF RowMoves
<1> QED
  BY <1>1, <1>4, IdleFields, AskQuiet DEF Resolving

\* A lookup copies for a thread that used no object.
LEMMA LookupAsk ==
  ASSUME IndInv, IndInv', AskInv, NEW t \in Threads, Lookup(t) PROVE AskInv'
<1>1. /\ call[t].at = "lookup"
      /\ asked' = asked /\ put' = put /\ entry' = entry
  BY DEF Lookup
<1>2. PICK c \in {Idle, At("expired", call[t].id, 0, 0)} : Goes(t, c)
  BY DEF Lookup
<1>3. c.at \in {"idle", "expired"}
  BY <1>2, IdleFields DEF At
<1>4. PICK s : session' = [session EXCEPT ![t] = s]
  <2>1. session = [session EXCEPT ![t] = session[t]]
    BY DEF IndInv, Types
  <2> QED
    BY <2>1 DEF Lookup
<1>5. Remembers(call[t], session[t], asked[t], entry, Cardinality(put))
  BY DEF AskInv
<1>6. Remembers(c, s, asked[t], entry, Cardinality(put))
  BY <1>1, <1>3, <1>5 DEF Remembers, AskedFor, Resolving
<1>7. asked' = [asked EXCEPT ![t] = asked[t]]
  BY <1>1 DEF AskInv
<1>8. RowMoves(t, Cardinality(put), Cardinality(put))
  BY <1>1 DEF RowMoves
<1> QED
  BY <1>1, <1>2, <1>4, <1>6, <1>7, <1>8, AskStep

\* Taking the mutex.
LEMMA MutexAsk ==
  ASSUME IndInv, IndInv', AskInv, NEW t \in Threads, SearchLock(t) \/ ResolveLock(t)
  PROVE  AskInv'
<1>1. session' = session /\ asked' = asked /\ put' = put /\ entry' = entry
  BY DEF SearchLock, ResolveLock
<1>2. \/ /\ call[t].at = "server"
         /\ Goes(t, At("search", call[t].id, Before(clients.next, CLIENT_PER_ROW),
                       clients.total))
      \/ /\ call[t].at \in {"resolve to set", "resolve to remove"}
         /\ Goes(t, Kept(t, IF call[t].at = "resolve to set" THEN "to set" ELSE "to remove"))
  BY DEF SearchLock, ResolveLock
<1>3. RowMoves(t, Cardinality(put), Cardinality(put))
  BY <1>1 DEF RowMoves
<1>4. CASE call[t].at = "server"
  <2> DEFINE c == At("search", call[t].id, Before(clients.next, CLIENT_PER_ROW),
                     clients.total)
  <2>1. c.at = "search" /\ Goes(t, c)
    BY <1>2, <1>4 DEF At
  <2> QED
    BY <1>1, <1>3, <1>4, <2>1, AskQuiet DEF Resolving
<1>5. CASE call[t].at \in {"resolve to set", "resolve to remove"}
  <2>1. PICK place \in {"to set", "to remove"} : Goes(t, Kept(t, place))
    BY <1>2, <1>5
  <2>2. Kept(t, place).at = place
    BY DEF Kept, At
  <2> QED
    BY <1>1, <1>3, <1>5, <2>1, <2>2, AskQuiet DEF Resolving
<1> QED
  BY <1>2, <1>4, <1>5

\* The search gives a place to a thread that used no object.
LEMMA GetSessionClientAsk ==
  ASSUME IndInv, IndInv', AskInv, NEW t \in Threads, GetSessionClient(t) PROVE AskInv'
<1>1. /\ call[t].at = "search"
      /\ asked' = asked /\ put' = put /\ entry' = entry
  BY DEF GetSessionClient
<1>2. PICK c : Goes(t, c) /\ c.at \in {"idle", "set", "search"}
  <2> DEFINE i == object[call[t].idx].idx
             set == At("set", call[t].id, i, 0)
             search == At("search", call[t].id, Before(call[t].idx, CLIENT_PER_ROW),
                          call[t].left - 1)
  <2>1. set.at = "set" /\ search.at = "search"
    BY DEF At
  <2>2. Goes(t, Idle) \/ Goes(t, set) \/ Goes(t, search)
    BY DEF GetSessionClient
  <2> QED
    BY <2>1, <2>2, IdleFields
<1>3. PICK s : session' = [session EXCEPT ![t] = s]
  <2>1. session = [session EXCEPT ![t] = session[t]]
    BY DEF IndInv, Types
  <2> QED
    BY <2>1 DEF GetSessionClient
<1>4. Remembers(call[t], session[t], asked[t], entry, Cardinality(put))
  BY DEF AskInv
<1>5. Remembers(c, s, asked[t], entry, Cardinality(put))
  BY <1>1, <1>2, <1>4 DEF Remembers, AskedFor, Resolving
<1>6. asked' = [asked EXCEPT ![t] = asked[t]]
  BY <1>1 DEF AskInv
<1>7. RowMoves(t, Cardinality(put), Cardinality(put))
  BY <1>1 DEF RowMoves
<1> QED
  BY <1>1, <1>2, <1>3, <1>5, <1>6, <1>7, AskStep

\* The object's session is at the place, because the hash was compared.
LEMMA ClientSessionToSessionAsk ==
  ASSUME IndInv, IndInv', AskInv, NEW t \in Threads, ClientSessionToSession(t)
  PROVE  AskInv'
<1> DEFINE o == object[ref[t]]
           n == Cardinality(put)
<1>1. /\ call[t].at \in {"to set", "to remove"} /\ ref[t] \in ClientPlaces
      /\ session' = session /\ put' = put /\ entry' = entry
  BY DEF ClientSessionToSession, IndInv, Positions, Carried
<1>2. RowMoves(t, n, n)
  BY <1>1 DEF RowMoves
<1>3. Remembers(call[t], session[t], asked[t], entry, n)
  BY DEF AskInv
<1>4. CASE Goes(t, Idle) /\ asked' = asked
  BY <1>1, <1>2, <1>4, IdleFields, AskQuiet DEF Resolving
<1>5. ASSUME NEW place \in {"set", "remove"}, SameClientSession(o.idx, o),
             Goes(t, At(place, NoID, o.idx, 0)),
             asked' = [asked EXCEPT ![t] = [id |-> o.hash, stored |-> n]]
      PROVE  AskInv'
  <2> DEFINE c == At(place, NoID, o.idx, 0)
             a == [id |-> o.hash, stored |-> n]
  <2>1. c.at = place /\ c.idx = o.idx
    BY DEF At
  <2>2. o.hash \in AnyID /\ n \in Nat
    BY <1>1, PutCounted DEF IndInv, Types
  <2>3. a \in [id : AnyID, stored : Nat] /\ a.stored <= n /\ a.id = o.hash
    BY <2>2
  <2>4. session[t].id = NoID
    BY <1>1, <1>3 DEF Remembers, Resolving
  <2>5. AskedFor(entry[o.idx], a) /\ AskedFor(session[t], a)
    BY <1>5, <2>3, <2>4 DEF AskedFor, SameClientSession
  <2> HIDE DEF a, c
  <2>6. Remembers(c, session[t], a, entry, n)
    BY <1>5, <2>1, <2>3, <2>5 DEF Remembers, Resolving
  <2>7. session' = [session EXCEPT ![t] = session[t]]
    BY <1>1 DEF IndInv, Types
  <2>8. Goes(t, c) /\ asked' = [asked EXCEPT ![t] = a]
    BY <1>5 DEF a, c
  <2> QED
    BY <1>1, <1>2, <2>6, <2>7, <2>8, AskStep
<1> QED
  BY <1>4, <1>5 DEF ClientSessionToSession

\* What is copied is what is remembered of the place.
LEMMA SetSessionAsk ==
  ASSUME IndInv, IndInv', AskInv, NEW t \in Threads, SetSession(t) PROVE AskInv'
<1>1. /\ call[t].at = "set" /\ Goes(t, Idle)
      /\ asked' = asked /\ put' = put /\ entry' = entry
  BY DEF SetSession
<1>2. PICK s : /\ session' = [session EXCEPT ![t] = s]
               /\ s.id = entry[call[t].idx].id /\ s.secret = entry[call[t].idx].secret
  <2> DEFINE copy == entry[call[t].idx]
             f == ForServer(copy, call[t].id[1])
  <2>1. f.id = copy.id /\ f.secret = copy.secret
    BY DEF ForServer
  <2>2. \/ session' = [session EXCEPT ![t] = copy]
        \/ session' = [session EXCEPT ![t] = f]
    BY DEF SetSession
  <2> QED
    BY <2>1, <2>2
<1>3. Remembers(call[t], session[t], asked[t], entry, Cardinality(put))
  BY DEF AskInv
<1>4. AskedFor(s, asked[t])
  BY <1>1, <1>2, <1>3 DEF Remembers, AskedFor
<1>5. Remembers(Idle, s, asked[t], entry, Cardinality(put))
  BY <1>3, <1>4, IdleFields DEF Remembers, Resolving
<1>6. asked' = [asked EXCEPT ![t] = asked[t]]
  BY <1>1 DEF AskInv
<1>7. RowMoves(t, Cardinality(put), Cardinality(put))
  BY <1>1 DEF RowMoves
<1> QED
  BY <1>1, <1>2, <1>5, <1>6, <1>7, AskStep

\* A new connection has asked for nothing.
LEMMA CallAsk ==
  ASSUME IndInv, IndInv', AskInv, NEW t \in Threads, Call(t) PROVE AskInv'
<1>0. NotAsked.stored <= Cardinality(put)
  BY PutCounted DEF IndInv, NotAsked
<1>1. /\ session' = [session EXCEPT ![t] = Blank]
      /\ asked' = [asked EXCEPT ![t] = NotAsked]
      /\ put' = put /\ entry' = entry
  BY DEF Call
<1>2. PICK place \in {"claim", "lookup", "server", "resolve to set", "resolve to remove",
                      "flush"} :
        \E id : Goes(t, At(place, id, 0, 0))
  BY DEF Call
<1>3. PICK id : Goes(t, At(place, id, 0, 0))
  BY <1>2
<1>4. At(place, id, 0, 0).at = place
  BY DEF At
<1>5. /\ NotAsked \in [id : AnyID, stored : Nat] /\ NotAsked.stored = 0
      /\ Blank.id = NoID
  BY DEF NotAsked, AnyID, Blank
<1>6. Remembers(At(place, id, 0, 0), Blank, NotAsked, entry, Cardinality(put))
  <2>1. place \notin {"set", "advance", "name"}
    BY <1>2
  <2>2. AskedFor(Blank, NotAsked)
    BY DEF AskedFor
  <2> QED
    BY <1>0, <1>4, <1>5, <2>1, <2>2 DEF Remembers
<1>7. RowMoves(t, Cardinality(put), Cardinality(put))
  BY <1>1 DEF RowMoves
<1> QED
  BY <1>1, <1>3, <1>6, <1>7, AskStep

\* Nobody has asked for anything at first.
LEMMA InitAsk == Init => AskInv
<1> SUFFICES ASSUME Init PROVE AskInv
  OBVIOUS
<1>1. /\ NotAsked \in [id : AnyID, stored : Nat] /\ NotAsked.stored = 0
      /\ Cardinality(put) = 0
  BY FS_EmptySet DEF NotAsked, AnyID, Init
<1>2. asked \in [Threads -> [id : AnyID, stored : Nat]]
  BY <1>1 DEF Init
<1>3. ASSUME NEW t \in Threads
      PROVE  Remembers(call[t], session[t], asked[t], entry, Cardinality(put))
  <2>1. call[t].at = "idle" /\ asked[t] = NotAsked
    BY IdleFields DEF Init
  <2> QED
    BY <1>1, <2>1 DEF Remembers, AskedFor, Resolving
<1> QED
  BY <1>2, <1>3 DEF AskInv

\* Every step keeps what threads remember.
LEMMA StepAsk == IndInv /\ IndInv' /\ AskInv /\ [Next]_vars => AskInv'
<1> SUFFICES ASSUME IndInv, IndInv', AskInv, [Next]_vars PROVE AskInv'
  OBVIOUS
<1>1. CASE UNCHANGED vars \/ Tick
  <2>1. /\ call' = call /\ entry' = entry /\ session' = session /\ asked' = asked
        /\ put' = put
    BY <1>1 DEF vars, Tick
  <2> QED
    BY <2>1 DEF AskInv, Remembers, AskedFor
<1>2. ASSUME NEW t \in Threads, Call(t) \/ Step(t) PROVE AskInv'
  BY <1>2, CallAsk, AddClaimAsk, AddDupAsk, AddNameAsk, AddEndAsk, GetAndEvictAsk,
     FlushAsk, LookupAsk, MutexAsk, GetSessionClientAsk, ClientSessionToSessionAsk,
     SetSessionAsk DEF Step
<1> QED
  BY <1>1, <1>2 DEF Next

\* Together the two invariants say what SessionsWhole does.
LEMMA InvWhole == IndInv /\ AskInv => SessionsWhole
<1> SUFFICES ASSUME IndInv, AskInv, NEW t \in Threads
             PROVE  /\ Whole(session[t], put) /\ AskedFor(session[t], asked[t])
  BY DEF SessionsWhole, Whole
<1>1. Whole(session[t], put)
  BY DEF IndInv, CopiesWhole
<1>2. AskedFor(session[t], asked[t])
  BY DEF AskInv, Remembers
<1> QED
  BY <1>1, <1>2

(***************************************************************************)
(* The row and its history.  The k-th newest session of recent is at the   *)
(* place Last(k), except while a writer, who holds the lock, has evicted   *)
(* or overwritten that place and not yet named it.  The writer knows that  *)
(* no other place has the ID it will give.                                 *)
(***************************************************************************)
Last(k) == IF k <= ring.next THEN ring.next - k ELSE ring.next + PER_ROW - k

Claiming == {"overwrite", "insert", "advance", "name"}

Overwritten(c, i) == c.at \in {"insert", "advance", "name"} /\ c.idx = i
Settled(i) == \A t \in Threads : ~ Overwritten(call[t], i)

RingShape ==
  /\ recent \in Seq([id : IDs \cup {NoID}, secret : Nat])
  /\ Len(recent) = ring.total
  /\ ring.total <= PER_ROW
  /\ ring.total < PER_ROW => ring.next = ring.total

RowRecent ==
  /\ \A k \in 1 .. ring.total :
       Settled(Last(k)) =>
         /\ entry[Last(k)].id = recent[k].id
         /\ recent[k].id # NoID => entry[Last(k)].secret = recent[k].secret
  /\ \A i \in Places : i >= ring.total /\ Settled(i) => entry[i].id = NoID

RowUnique ==
  \A i, j \in Places :
    Settled(i) /\ Settled(j) /\ i # j /\ entry[i].id = entry[j].id => entry[i].id = NoID

Claim(c) ==
  /\ c.at \in {"insert", "advance"} => c.idx = ring.next
  /\ c.at \in {"overwrite", "name"} =>
       /\ c.idx < ring.total
       /\ \A k \in 1 .. ring.total : Last(k) = c.idx => recent[k].id = c.id
  /\ c.at \in Claiming => \A i \in Places \ {c.idx} : entry[i].id # c.id

Claims == \A t \in Threads : Claim(call[t])

RowInv == RingShape /\ RowRecent /\ RowUnique /\ Claims

\* An ID is neither of the two that stand for none.
LEMMA RealIDs == \A id \in IDs : id # NoID /\ id # BogusID
BY IDAssumption DEF NoID, BogusID

\* What a sequence over a set is.
LEMMA SeqElements ==
  ASSUME NEW S, NEW q \in Seq(S)
  PROVE  Len(q) \in Nat /\ DOMAIN q = 1 .. Len(q) /\ \A k \in 1 .. Len(q) : q[k] \in S
OBVIOUS

\* The indices of the ring are integers within the row.
LEMMA RingInts ==
  ASSUME Types
  PROVE  /\ PER_ROW \in Nat \ {0} /\ ring.next \in 0 .. PER_ROW - 1 /\ ring.total \in Nat
         /\ ring.next \in Places
BY SizeAssumption DEF Types, Places

\* The places of the sessions in recent are places below totalCount, each of
\* them has one, and no two share one.
LEMMA LastPlaces ==
  ASSUME Types, RingShape
  PROVE  /\ \A k \in 1 .. ring.total : Last(k) \in Places /\ Last(k) < ring.total
         /\ \A i \in Places : i < ring.total => \E k \in 1 .. ring.total : Last(k) = i
         /\ \A k, l \in 1 .. ring.total : Last(k) = Last(l) => k = l
<1> DEFINE T == ring.total
           N == ring.next
<1>1. /\ PER_ROW \in Nat \ {0} /\ N \in 0 .. PER_ROW - 1 /\ T \in Nat
      /\ T <= PER_ROW /\ (T < PER_ROW => N = T)
  BY RingInts DEF RingShape
<1>2. Places = 0 .. PER_ROW - 1
  BY DEF Places
<1>3. \A k : Last(k) = IF k <= N THEN N - k ELSE N + PER_ROW - k
  BY DEF Last
<1> HIDE DEF T, N
<1>4. \A k \in 1 .. T : Last(k) \in 0 .. PER_ROW - 1 /\ Last(k) < T
  BY <1>1, <1>3
<1>5. ASSUME NEW i \in 0 .. PER_ROW - 1, i < T PROVE \E k \in 1 .. T : Last(k) = i
  <2>1. CASE i < N
    <3>1. N - i \in 1 .. T /\ Last(N - i) = i
      BY <1>1, <1>3, <1>5, <2>1
    <3> QED
      BY <3>1
  <2>2. CASE i >= N
    <3>1. N + PER_ROW - i \in 1 .. T /\ Last(N + PER_ROW - i) = i
      BY <1>1, <1>3, <1>5, <2>2
    <3> QED
      BY <3>1
  <2> QED
    BY <1>1, <2>1, <2>2
<1>6. \A k, l \in 1 .. T : Last(k) = Last(l) => k = l
  BY <1>1, <1>3
<1> QED
  BY <1>2, <1>4, <1>5, <1>6 DEF T

\* While nobody holds the row every place is settled; a holder unsettles no place
\* but its own.
LEMMA SettledPlaces ==
  ASSUME LocksHeld
  PROVE  /\ lock = NoOne => \A i : Settled(i)
         /\ \A i : \A t \in Threads : lock = t =>
              (Settled(i) <=> ~ Overwritten(call[t], i))
BY ThreadAssumption DEF LocksHeld, Settled, Overwritten, Writing

\* A step that leaves the row alone, of a thread that claims no place.
LEMMA RowKept ==
  ASSUME IndInv, IndInv', RowInv, NEW t \in Threads, NEW n, Goes(t, n),
         call[t].at \notin Claiming, call'[t].at \notin Claiming,
         entry' = entry, ring' = ring, recent' = recent
  PROVE  RowInv'
<1>1. \A u \in Threads \ {t} : call'[u] = call[u]
  BY DEF IndInv, Types, Goes
<1>2. \A i : Settled(i)' <=> Settled(i)
  BY <1>1 DEF Settled, Overwritten, Claiming
<1>3. \A k : Last(k)' = Last(k)
  BY DEF Last
<1>4. RingShape'
  BY DEF RowInv, RingShape
<1>5. RowRecent'
  BY <1>2, <1>3 DEF RowInv, RowRecent
<1>6. RowUnique'
  BY <1>2 DEF RowInv, RowUnique
<1>7. Claims'
  <2> SUFFICES ASSUME NEW u \in Threads PROVE Claim(call[u])'
    BY DEF Claims
  <2>1. CASE u = t
    BY <2>1 DEF Claim, Claiming
  <2>2. CASE u # t
    BY <1>1, <1>3, <2>2 DEF RowInv, Claims, Claim
  <2> QED
    BY <2>1, <2>2
<1> QED
  BY <1>4, <1>5, <1>6, <1>7 DEF RowInv

\* The same for a thread that does not hold the row and does not take it.
LEMMA RowKeptUnlocked ==
  ASSUME IndInv, IndInv', RowInv, NEW t \in Threads, NEW n, Goes(t, n),
         call[t].at \notin Writing, lock' = lock,
         entry' = entry, ring' = ring, recent' = recent
  PROVE  RowInv'
<1>1. lock # t /\ call'[t].at \notin Writing
  BY DEF IndInv, LocksHeld
<1>2. call[t].at \notin Claiming /\ call'[t].at \notin Claiming
  BY <1>1 DEF Writing, Claiming
<1> QED
  BY <1>2, RowKept

\* Evicting places, and forgetting their IDs, while nobody holds the row.
LEMMA RowEvicted ==
  ASSUME IndInv, IndInv', RowInv, lock = NoOne, lock' = NoOne, ring' = ring,
         NEW old \in SUBSET Places, \A i \in old : entry[i].id # NoID,
         entry' = [i \in Places |-> IF i \in old THEN Evicted(entry[i]) ELSE entry[i]],
         Forgets({entry[i].id : i \in old})
  PROVE  RowInv'
<1> DEFINE gone == {entry[i].id : i \in old}
<1>0. /\ recent \in Seq([id : IDs \cup {NoID}, secret : Nat])
      /\ Types /\ RingShape /\ RowRecent /\ RowUnique
  BY DEF IndInv, RowInv, RingShape
<1>1. \A i : Settled(i) /\ Settled(i)'
  BY SettledPlaces, ThreadAssumption DEF IndInv, LocksHeld, Settled, Overwritten, Writing
<1>2. \A k : Last(k)' = Last(k)
  BY DEF Last
<1>3. \A i \in Places : /\ i \in old => entry'[i].id = NoID
                        /\ i \notin old => entry'[i] = entry[i]
  BY DEF Evicted
<1>4. recent' = [k \in 1 .. Len(recent) |->
                   IF recent[k].id \in gone THEN [id |-> NoID, secret |-> 0] ELSE recent[k]]
  BY <1>0 DEF Forgets
<1>5. /\ recent' \in Seq([id : IDs \cup {NoID}, secret : Nat])
      /\ Len(recent') = Len(recent)
      /\ \A k \in 1 .. Len(recent) :
           recent'[k] = IF recent[k].id \in gone THEN [id |-> NoID, secret |-> 0]
                        ELSE recent[k]
  <2> HIDE DEF gone
  <2>0. recent \in Seq([id : IDs \cup {NoID}, secret : Nat])
    BY <1>0
  <2>1. \A k \in 1 .. Len(recent) : recent[k] \in [id : IDs \cup {NoID}, secret : Nat]
    BY <2>0, SeqElements
  <2>2. [id |-> NoID, secret |-> 0] \in [id : IDs \cup {NoID}, secret : Nat]
    OBVIOUS
  <2>3. Len(recent) \in Nat
    BY <1>0
  <2> QED
    BY <1>4, <2>1, <2>2, <2>3
<1>6. RingShape'
  BY <1>0, <1>5 DEF RingShape
<1>7. ASSUME NEW k \in 1 .. ring.total
      PROVE  /\ entry'[Last(k)].id = recent'[k].id
             /\ recent'[k].id # NoID => entry'[Last(k)].secret = recent'[k].secret
  <2>1. /\ Last(k) \in Places /\ k \in 1 .. Len(recent)
        /\ entry[Last(k)].id = recent[k].id
        /\ recent[k].id # NoID => entry[Last(k)].secret = recent[k].secret
    BY <1>0, <1>1, LastPlaces DEF RowRecent, RingShape
  <2>2. CASE Last(k) \in old
    <3>1. recent[k].id \in gone
      BY <2>1, <2>2
    <3> HIDE DEF gone
    <3> QED
      BY <1>3, <1>5, <2>1, <2>2, <3>1
  <2>3. CASE Last(k) \notin old
    <3>1. recent[k].id \notin gone
      BY <1>0, <1>1, <2>1, <2>3 DEF RowUnique
    <3> HIDE DEF gone
    <3> QED
      BY <1>3, <1>5, <2>1, <2>3, <3>1
  <2> QED
    BY <2>2, <2>3
<1>8. RowRecent'
  <2>1. \A i \in Places : i >= ring.total => entry'[i].id = NoID
    BY <1>0, <1>1, <1>3 DEF RowRecent
  <2>2. \A k \in 1 .. ring.total :
          /\ entry'[Last(k)].id = recent'[k].id
          /\ recent'[k].id # NoID => entry'[Last(k)].secret = recent'[k].secret
    BY <1>7
  <2>3. ASSUME NEW k \in 1 .. ring'.total
        PROVE  /\ entry'[Last(k)'].id = recent'[k].id
               /\ recent'[k].id # NoID => entry'[Last(k)'].secret = recent'[k].secret
    BY <1>2, <2>2
  <2>4. \A i \in Places : i >= ring'.total => entry'[i].id = NoID
    BY <2>1
  <2> HIDE DEF gone
  <2> QED
    BY <2>3, <2>4 DEF RowRecent
<1>9. RowUnique'
  BY <1>0, <1>1, <1>3 DEF RowUnique
<1>10. Claims'
  BY ThreadAssumption DEF IndInv, LocksHeld, Claims, Claim, Writing, Claiming
<1> QED
  BY <1>6, <1>8, <1>9, <1>10 DEF RowInv

\* TlsSessionCacheGetAndWrLock and EvictSessionFromCache.
LEMMA GetAndEvictRow ==
  ASSUME IndInv, IndInv', RowInv, NEW t \in Threads, NEW id, GetAndEvict(id), Goes(t, Idle),
         call[t].at \notin Writing, lock' = lock, ring' = ring
  PROVE  RowInv'
<1>1. CASE entry' = entry /\ recent' = recent
  BY <1>1, RowKeptUnlocked
<1>2. ASSUME NEW i \in Found(id), Evict(i), Forgets({entry[i].id}) PROVE RowInv'
  <2>1. i \in Places /\ entry[i].id # NoID /\ lock = NoOne
    BY <1>2 DEF Found, Matches, GetAndEvict
  <2>2. entry' = [j \in Places |-> IF j \in {i} THEN Evicted(entry[j]) ELSE entry[j]]
    BY <1>2, <2>1 DEF Evict, IndInv, Types
  <2>3. {entry[i].id} = {entry[j].id : j \in {i}}
    OBVIOUS
  <2>4. Forgets({entry[j].id : j \in {i}})
    BY <1>2, <2>3
  <2>5. {i} \in SUBSET Places /\ \A j \in {i} : entry[j].id # NoID
    BY <2>1
  <2>6. lock' = NoOne
    BY <2>1
  <2> QED
    BY <2>1, <2>2, <2>4, <2>5, <2>6, RowEvicted
<1> QED
  BY <1>1, <1>2 DEF GetAndEvict

\* Flushing evicts the sessions that are too old.
LEMMA FlushRow ==
  ASSUME IndInv, IndInv', RowInv, NEW t \in Threads, Flush(t) PROVE RowInv'
<1> DEFINE old == {i \in Places : entry[i].id # NoID /\ entry[i].born + TIMEOUT < now}
<1>1. /\ entry' = [i \in Places |-> IF i \in old THEN Evicted(entry[i]) ELSE entry[i]]
      /\ Forgets({entry[i].id : i \in old})
      /\ lock = NoOne /\ lock' = NoOne /\ ring' = ring
  BY DEF Flush
<1>2. old \in SUBSET Places /\ \A i \in old : entry[i].id # NoID
  OBVIOUS
<1> HIDE DEF old
<1> QED
  BY <1>1, <1>2, RowEvicted

\* AddSessionToCache finds the session with its ID, or evicts the oldest one and
\* knows that no other place has the ID.
LEMMA AddClaimRow ==
  ASSUME IndInv, IndInv', RowInv, NEW t \in Threads, AddClaim(t) PROVE RowInv'
<1> DEFINE id == call[t].id
<1>0. /\ Types /\ RingShape /\ RowRecent /\ RowUnique
      /\ lock = NoOne /\ lock' = t /\ ring' = ring /\ recent' = recent
      /\ id \in IDs /\ id # NoID
  BY RealIDs DEF IndInv, RowInv, AddClaim, Positions, Carried
<1>1. \A i : Settled(i)
  BY <1>0, SettledPlaces DEF IndInv
<1>2. \A u \in Threads \ {t} : call'[u].at \notin Claiming /\ call'[u].at \notin Writing
  BY <1>0 DEF IndInv, LocksHeld, Writing, Claiming
<1>3. \A k : Last(k)' = Last(k)
  BY <1>0 DEF Last
<1>4. RingShape'
  BY <1>0 DEF RingShape
<1> HIDE DEF id
<1>5. ASSUME NEW i \in Same(id), Goes(t, At("overwrite", id, i, 0)), entry' = entry
      PROVE  RowInv'
  <2>1. /\ call'[t].at = "overwrite" /\ call'[t].id = id /\ call'[t].idx = i
        /\ i \in Places /\ i < ring.total /\ entry[i].id = id
    BY <1>0, <1>5 DEF Goes, At, Types, Same
  <2>2. \A j : Settled(j)'
    BY <1>2, <2>1 DEF Settled, Overwritten, Claiming
  <2>3. RowRecent' /\ RowUnique'
    BY <1>0, <1>1, <1>3, <1>5 DEF RowRecent, RowUnique
  <2>4. \A j \in Places \ {i} : entry[j].id # id
    BY <1>0, <1>1, <2>1 DEF RowUnique
  <2>5. \A k \in 1 .. ring.total : Last(k) = i => recent[k].id = id
    BY <1>0, <1>1, <2>1 DEF RowRecent
  <2>6. Claim(call[t])'
    BY <1>0, <1>3, <1>5, <2>1, <2>4, <2>5 DEF Claim
  <2>7. Claims'
    BY <1>2, <2>6 DEF Claims, Claim, Claiming
  <2> QED
    BY <1>4, <2>3, <2>7 DEF RowInv
<1>6. ASSUME Same(id) = {}, Goes(t, At("insert", id, ring.next, 0)), Evict(ring.next)
      PROVE  RowInv'
  <2>1. /\ call'[t].at = "insert" /\ call'[t].id = id /\ call'[t].idx = ring.next
        /\ ring.next \in Places
    BY <1>0, <1>6, RingInts DEF Goes, At, Types
  <2>2. \A j : Settled(j)' <=> j # ring.next
    BY <1>2, <2>1 DEF Settled, Overwritten, Claiming
  <2>3. \A j \in Places : j # ring.next => entry'[j] = entry[j]
    BY <1>0, <1>6 DEF Evict, Types
  <2>4. RowRecent'
    <3>1. \A k \in 1 .. ring.total : Last(k) \in Places
      BY <1>0, LastPlaces
    <3> QED
      BY <1>0, <1>1, <1>3, <2>2, <2>3, <3>1 DEF RowRecent
  <2>5. RowUnique'
    BY <1>0, <1>1, <2>2, <2>3 DEF RowUnique
  <2>6. ASSUME NEW j \in Places \ {ring.next} PROVE entry'[j].id # id
    <3>1. CASE j < ring.total
      BY <1>6, <2>3, <3>1 DEF Same
    <3>2. CASE j >= ring.total
      BY <1>0, <1>1, <2>3, <3>2 DEF RowRecent
    <3> QED
      BY <1>0, <3>1, <3>2, PlaceInt DEF Types
  <2>7. Claim(call[t])'
    BY <1>0, <2>1, <2>6 DEF Claim
  <2>8. Claims'
    BY <1>2, <2>7 DEF Claims, Claim, Claiming
  <2> QED
    BY <1>4, <2>4, <2>5, <2>8 DEF RowInv
<1> QED
  BY <1>5, <1>6 DEF AddClaim, id

\* wolfSSL_DupSession writes the place that was claimed and no other.
LEMMA AddDupRow ==
  ASSUME IndInv, IndInv', RowInv, NEW t \in Threads, AddDup(t) PROVE RowInv'
<1> DEFINE c == call[t]
<1>0. /\ Types /\ RingShape /\ RowRecent /\ RowUnique /\ Claim(c)
      /\ lock = t /\ lock' = t /\ ring' = ring /\ recent' = recent
      /\ c.at \in {"overwrite", "insert"} /\ c.idx \in Places
      /\ \A j \in Places \ {c.idx} : entry'[j] = entry[j]
  BY DEF IndInv, RowInv, Claims, AddDup, LocksHeld, Writing, Types, Positions, Carried
<1>1. /\ call'[t].at = IF c.at = "insert" THEN "advance" ELSE "name"
      /\ call'[t].id = c.id /\ call'[t].idx = c.idx
  BY DEF AddDup, Goes, Kept, At, IndInv, Types
<1>2. \A u \in Threads \ {t} : call'[u].at \notin Claiming /\ call'[u].at \notin Writing
  BY <1>0 DEF IndInv, LocksHeld, Writing, Claiming
<1>3. \A k : Last(k)' = Last(k)
  BY <1>0 DEF Last
<1>4. RingShape'
  BY <1>0 DEF RingShape
<1>5. \A j : j # c.idx => Settled(j)
  BY <1>0, SettledPlaces DEF IndInv, Overwritten
<1>6. \A j : Settled(j)' => j # c.idx
  BY <1>1 DEF Settled, Overwritten
<1> HIDE DEF c
<1>7. RowRecent'
  <2>1. \A k \in 1 .. ring.total : Last(k) \in Places
    BY <1>0, LastPlaces
  <2> QED
    BY <1>0, <1>3, <1>5, <1>6, <2>1 DEF RowRecent
<1>8. RowUnique'
  BY <1>0, <1>5, <1>6 DEF RowUnique
<1>9. Claim(call[t])'
  <2>1. \A i \in Places \ {c.idx} : entry'[i].id # c.id
    BY <1>0 DEF Claim, Claiming
  <2> QED
    BY <1>0, <1>1, <1>3, <2>1 DEF Claim
<1>10. Claims'
  BY <1>2, <1>9 DEF Claims, Claim, Claiming
<1> QED
  BY <1>4, <1>7, <1>8, <1>10 DEF RowInv

\* The first n elements of a sequence with x put before it.
LEMMA PushFront ==
  ASSUME NEW S, NEW q \in Seq(S), NEW x \in S, NEW n \in 1 .. Len(q) + 1
  PROVE  /\ SubSeq(<<x>> \o q, 1, n) \in Seq(S)
         /\ Len(SubSeq(<<x>> \o q, 1, n)) = n
         /\ SubSeq(<<x>> \o q, 1, n)[1] = x
         /\ \A k \in 2 .. n : SubSeq(<<x>> \o q, 1, n)[k] = q[k - 1]
<1> DEFINE p == <<x>> \o q
<1>1. p \in Seq(S) /\ Len(p) = Len(q) + 1
  OBVIOUS
<1>2. p[1] = x /\ \A k \in 2 .. Len(q) + 1 : p[k] = q[k - 1]
  OBVIOUS
<1> HIDE DEF p
<1>3. \A k \in 1 .. n : SubSeq(p, 1, n)[k] = p[k]
  BY <1>1
<1>4. SubSeq(p, 1, n) \in Seq(S) /\ Len(SubSeq(p, 1, n)) = n
  BY <1>1
<1> QED
  BY <1>2, <1>3, <1>4 DEF p

\* The session overwritten has the same place in the history as before.
LEMMA NameRow ==
  ASSUME IndInv, IndInv', RowInv, NEW t \in Threads, AddName(t), call[t].at = "name"
  PROVE  RowInv'
<1> DEFINE c == call[t]
           R == [id : IDs \cup {NoID}, secret : Nat]
<1>0. /\ Types /\ RingShape /\ RowRecent /\ RowUnique /\ Claim(c)
      /\ lock = t /\ lock' = t /\ ring' = ring
      /\ c.at = "name" /\ c.idx \in Places /\ c.id \in IDs /\ c.id # NoID
      /\ \A j \in Places \ {c.idx} : entry'[j] = entry[j]
  BY RealIDs DEF IndInv, RowInv, Claims, AddName, LocksHeld, Writing, Types, Positions, Carried
<1>1. entry'[c.idx].id = c.id /\ entry'[c.idx].secret = Stored(t).secret
  BY <1>0 DEF AddName, Named, Stored, Types
<1>2. Stored(t).id = c.id /\ Stored(t) \in R
  BY <1>0 DEF Stored, Types, Entry
<1>3. \A u \in Threads : call'[u].at \notin Claiming
  <2>1. call'[t].at = "unlock"
    BY DEF AddName, Goes, Kept, At, IndInv, Types
  <2> QED
    BY <1>0, <2>1 DEF IndInv, LocksHeld, Writing, Claiming
<1>4. \A j : Settled(j)' /\ (j # c.idx => Settled(j))
  BY <1>0, <1>3, SettledPlaces DEF IndInv, Settled, Overwritten, Claiming
<1>5. \A k : Last(k)' = Last(k)
  BY <1>0 DEF Last
<1>6. /\ recent' \in Seq(R) /\ Len(recent') = Len(recent)
      /\ \A k \in 1 .. Len(recent) :
           recent'[k] = IF recent[k].id = c.id THEN Stored(t) ELSE recent[k]
  <2>1. Len(recent) \in Nat /\ DOMAIN recent = 1 .. Len(recent)
        /\ \A k \in 1 .. Len(recent) : recent[k] \in R
    BY <1>0, SeqElements DEF RingShape
  <2>2. recent' = [k \in 1 .. Len(recent) |->
                     IF recent[k].id = c.id THEN Stored(t) ELSE recent[k]]
    BY <1>0, <2>1 DEF AddName
  <2> HIDE DEF R, c
  <2> QED
    BY <1>2, <2>1, <2>2
<1>7. RingShape'
  BY <1>0, <1>6 DEF RingShape
<1> HIDE DEF c, R
<1>8. ASSUME NEW k \in 1 .. ring.total
      PROVE  /\ entry'[Last(k)].id = recent'[k].id
             /\ recent'[k].id # NoID => entry'[Last(k)].secret = recent'[k].secret
  <2>1. Last(k) \in Places /\ k \in 1 .. Len(recent)
    BY <1>0, LastPlaces DEF RingShape
  <2>2. CASE Last(k) = c.idx
    <3>1. recent[k].id = c.id
      BY <1>0, <2>2 DEF Claim
    <3> QED
      BY <1>1, <1>2, <1>6, <2>1, <2>2, <3>1
  <2>3. CASE Last(k) # c.idx
    <3>1. /\ entry[Last(k)].id = recent[k].id
          /\ recent[k].id # NoID => entry[Last(k)].secret = recent[k].secret
      BY <1>0, <1>4, <2>3 DEF RowRecent
    <3>2. entry[Last(k)].id # c.id
      BY <1>0, <2>1, <2>3 DEF Claim, Claiming
    <3> QED
      BY <1>0, <1>6, <2>1, <2>3, <3>1, <3>2
  <2> QED
    BY <2>2, <2>3
<1>9. RowRecent'
  <2>1. c.idx < ring.total
    BY <1>0 DEF Claim
  <2>2. ASSUME NEW i \in Places, i >= ring.total PROVE entry'[i].id = NoID
    <3>1. i # c.idx
      BY <1>0, <2>1, <2>2, PlaceInt, RingInts
    <3> QED
      BY <1>0, <1>4, <2>2, <3>1 DEF RowRecent
  <2> QED
    BY <1>0, <1>5, <1>8, <2>2 DEF RowRecent
<1>10. RowUnique'
  <2>1. \A i \in Places \ {c.idx} : entry'[i].id # c.id
    BY <1>0 DEF Claim, Claiming
  <2> QED
    BY <1>0, <1>1, <1>4, <2>1 DEF RowUnique
<1>11. Claims'
  BY <1>3 DEF Claims, Claim, Claiming
<1> QED
  BY <1>7, <1>9, <1>10, <1>11 DEF RowInv

\* A session inserted is the newest; the others are one further back and the one
\* that was at its place is gone.
LEMMA AdvanceRow ==
  ASSUME IndInv, IndInv', RowInv, NEW t \in Threads, AddName(t), call[t].at = "advance"
  PROVE  RowInv'
<1> DEFINE c == call[t]
           R == [id : IDs \cup {NoID}, secret : Nat]
           T == ring.total
           N == ring.next
           T2 == ring'.total
<1>0. /\ Types /\ RingShape /\ RowRecent /\ RowUnique /\ Claim(c)
      /\ lock = t /\ lock' = t
      /\ c.at = "advance" /\ c.idx \in Places /\ c.id \in IDs /\ c.id # NoID
      /\ \A j \in Places \ {c.idx} : entry'[j] = entry[j]
  BY RealIDs DEF IndInv, RowInv, Claims, AddName, LocksHeld, Writing, Types, Positions, Carried
<1>1. entry'[c.idx].id = c.id /\ entry'[c.idx].secret = Stored(t).secret
  BY <1>0 DEF AddName, Named, Stored, Types
<1>2. Stored(t).id = c.id /\ Stored(t) \in R
  BY <1>0 DEF Stored, Types, Entry
<1>3. \A u \in Threads : call'[u].at \notin Claiming
  <2>1. call'[t].at = "unlock"
    BY DEF AddName, Goes, Kept, At, IndInv, Types
  <2> QED
    BY <1>0, <2>1 DEF IndInv, LocksHeld, Writing, Claiming
<1>4. \A j : Settled(j)' /\ (j # c.idx => Settled(j))
  BY <1>0, <1>3, SettledPlaces DEF IndInv, Settled, Overwritten, Claiming
<1>5. /\ PER_ROW \in Nat \ {0} /\ N \in 0 .. PER_ROW - 1 /\ T \in Nat
      /\ T <= PER_ROW /\ (T < PER_ROW => N = T) /\ c.idx = N
  BY <1>0, RingInts DEF RingShape, Claim
<1>6. /\ ring'.next = (N + 1) % PER_ROW
      /\ T2 = IF T < PER_ROW THEN T + 1 ELSE T
  BY <1>0 DEF AddName, Advanced
<1>7. ring'.next = IF N + 1 < PER_ROW THEN N + 1 ELSE 0
  <2> HIDE DEF N
  <2>1. CASE N + 1 < PER_ROW
    BY <1>5, <1>6, <2>1
  <2>2. CASE N + 1 = PER_ROW
    BY <1>5, <1>6, <2>2
  <2> QED
    BY <1>5, <2>1, <2>2
<1>8. /\ recent' \in Seq(R) /\ Len(recent') = T2
      /\ recent'[1] = Stored(t)
      /\ \A k \in 2 .. T2 : recent'[k] = recent[k - 1]
  <2>1. recent \in Seq(R) /\ Len(recent) = T
    BY <1>0 DEF RingShape
  <2>2. recent' = SubSeq(<<Stored(t)>> \o recent, 1, T2)
    BY <1>0, <1>5, <1>6, <2>1 DEF AddName
  <2> HIDE DEF R, T, T2
  <2>3. T2 \in 1 .. Len(recent) + 1
    BY <1>5, <1>6, <2>1
  <2> QED
    BY <1>2, <2>1, <2>2, <2>3, PushFront
<1>9. RingShape'
  BY <1>5, <1>6, <1>7, <1>8 DEF RingShape
<1>10. /\ Last(1)' = N
       /\ \A k \in 2 .. T2 : /\ Last(k)' = Last(k - 1) /\ k - 1 \in 1 .. T
                             /\ Last(k - 1) # N
  <2>1. \A k : Last(k) = IF k <= N THEN N - k ELSE N + PER_ROW - k
    BY DEF Last
  <2>2. \A k : Last(k)' = IF k <= ring'.next THEN ring'.next - k
                          ELSE ring'.next + PER_ROW - k
    BY DEF Last
  <2> DEFINE M == ring'.next
  <2>3. M = IF N + 1 < PER_ROW THEN N + 1 ELSE 0
    BY <1>7
  <2>4. \A k : Last(k)' = IF k <= M THEN M - k ELSE M + PER_ROW - k
    BY <2>2
  <2>5. /\ PER_ROW \in Nat \ {0} /\ N \in 0 .. PER_ROW - 1 /\ T \in Nat
        /\ T <= PER_ROW /\ (T < PER_ROW => N = T)
    BY <1>5
  <2>6. T2 = IF T < PER_ROW THEN T + 1 ELSE T
    BY <1>6
  <2> HIDE DEF N, M, T, T2
  <2>7. Last(1)' = N
    BY <2>3, <2>4, <2>5
  <2>8. ASSUME NEW k \in 2 .. T2
        PROVE  Last(k)' = Last(k - 1) /\ k - 1 \in 1 .. T /\ Last(k - 1) # N
    <3>1. k - 1 \in 1 .. T /\ k - 1 < PER_ROW /\ k \in Int
      BY <2>5, <2>6
    <3>2. CASE N + 1 < PER_ROW
      BY <2>1, <2>3, <2>4, <2>5, <3>1, <3>2
    <3>3. CASE N + 1 = PER_ROW
      BY <2>1, <2>3, <2>4, <2>5, <3>1, <3>3
    <3> QED
      BY <2>5, <3>2, <3>3
  <2> QED
    BY <2>7, <2>8
<1> HIDE DEF c, R
<1>11. ASSUME NEW k \in 1 .. T2
       PROVE  /\ entry'[Last(k)'].id = recent'[k].id
              /\ recent'[k].id # NoID => entry'[Last(k)'].secret = recent'[k].secret
  <2>1. CASE k = 1
    BY <1>1, <1>2, <1>5, <1>8, <1>10, <2>1
  <2>2. CASE k # 1
    <3>1. k \in 2 .. T2
      BY <1>5, <1>6, <2>2
    <3>2. Last(k - 1) \in Places
      BY <1>0, <1>10, <3>1, LastPlaces
    <3>3. /\ entry[Last(k - 1)].id = recent[k - 1].id
          /\ recent[k - 1].id # NoID => entry[Last(k - 1)].secret = recent[k - 1].secret
      BY <1>0, <1>4, <1>5, <1>10, <3>1 DEF RowRecent
    <3> QED
      BY <1>0, <1>5, <1>8, <1>10, <3>1, <3>2, <3>3
  <2> QED
    BY <2>1, <2>2
<1>12. RowRecent'
  <2>1. ASSUME NEW i \in Places, i >= T2 PROVE entry'[i].id = NoID
    <3>1. i # c.idx /\ i >= T
      BY <1>5, <1>6, <2>1, PlaceInt DEF Places
    <3> QED
      BY <1>0, <1>4, <3>1 DEF RowRecent
  <2> QED
    BY <1>11, <2>1 DEF RowRecent
<1>13. RowUnique'
  <2>1. \A i \in Places \ {c.idx} : entry'[i].id # c.id
    BY <1>0 DEF Claim, Claiming
  <2> QED
    BY <1>0, <1>1, <1>4, <2>1 DEF RowUnique
<1>14. Claims'
  BY <1>3 DEF Claims, Claim, Claiming
<1> QED
  BY <1>9, <1>12, <1>13, <1>14 DEF RowInv

\* The row is empty at first.
LEMMA InitRow == Init => RowInv
<1> SUFFICES ASSUME Init PROVE RowInv
  OBVIOUS
<1>1. Types
  BY InitInv DEF IndInv
<1>2. ring.next = 0 /\ ring.total = 0 /\ recent = <<>>
  BY DEF Init
<1>3. \A i \in Places : entry[i].id = NoID
  BY DEF Init, Blank
<1>4. RingShape
  BY <1>2, SizeAssumption DEF RingShape
<1>5. RowRecent /\ RowUnique
  BY <1>2, <1>3 DEF RowRecent, RowUnique
<1>6. Claims
  BY IdleFields DEF Init, Claims, Claim, Claiming
<1> QED
  BY <1>4, <1>5, <1>6 DEF RowInv

\* Every step keeps the row and its history together.
LEMMA StepRow == IndInv /\ IndInv' /\ RowInv /\ [Next]_vars => RowInv'
<1> SUFFICES ASSUME IndInv, IndInv', RowInv, [Next]_vars PROVE RowInv'
  OBVIOUS
<1>1. CASE UNCHANGED vars \/ Tick
  <2>1. call' = call /\ entry' = entry /\ ring' = ring /\ recent' = recent
    BY <1>1 DEF vars, Tick
  <2> QED
    BY <2>1 DEF RowInv, RingShape, RowRecent, RowUnique, Claims, Claim, Settled, Last
<1>2. ASSUME NEW t \in Threads, Call(t) PROVE RowInv'
  <2>1. call[t].at \notin Writing /\ \E n : Goes(t, n)
    BY <1>2, IdleFields DEF Call, Writing
  <2> QED
    BY <1>2, <2>1, RowKeptUnlocked DEF Call
<1>3. ASSUME NEW t \in Threads, AddClaim(t) \/ AddDup(t) \/ AddName(t) PROVE RowInv'
  BY <1>3, AddClaimRow, AddDupRow, NameRow, AdvanceRow DEF AddName
<1>4. ASSUME NEW t \in Threads, AddUnlock(t) PROVE RowInv'
  <2>1. call[t].at \notin Claiming
    BY <1>4 DEF AddUnlock, Claiming
  <2>2. call'[t].at \notin Claiming
    BY <1>4, ThreadAssumption DEF AddUnlock, IndInv, LocksHeld, Writing, Claiming
  <2> QED
    BY <1>4, <2>1, <2>2, RowKept DEF AddUnlock
<1>5. ASSUME NEW t \in Threads,
             \/ AddSessionToClientCache(t) \/ Lookup(t) \/ SearchLock(t)
             \/ GetSessionClient(t) \/ ResolveLock(t) \/ ClientSessionToSession(t)
             \/ SetSession(t)
      PROVE  RowInv'
  <2>1. /\ call[t].at \notin Writing
        /\ entry' = entry /\ ring' = ring /\ recent' = recent /\ lock' = lock
    BY <1>5 DEF AddSessionToClientCache, Lookup, SearchLock, GetSessionClient,
       ResolveLock, ClientSessionToSession, SetSession, Writing
  <2>2. \E n : Goes(t, n)
    BY <1>5 DEF AddSessionToClientCache, Lookup, SearchLock, GetSessionClient,
       ResolveLock, ClientSessionToSession, SetSession
  <2> QED
    BY <2>1, <2>2, RowKeptUnlocked
<1>6. ASSUME NEW t \in Threads, EvictExpired(t) PROVE RowInv'
  BY <1>6, GetAndEvictRow DEF EvictExpired, Writing
<1>7. ASSUME NEW t \in Threads, RemoveSession(t) PROVE RowInv'
  BY <1>7, GetAndEvictRow DEF RemoveSession, Writing
<1>8. ASSUME NEW t \in Threads, Flush(t) PROVE RowInv'
  BY <1>8, FlushRow
<1> QED
  BY <1>1, <1>2, <1>3, <1>4, <1>5, <1>6, <1>7, <1>8 DEF Next, Step

\* Seen while nobody writes, that is what RowIsLastStored says.
LEMMA RowInvExact == IndInv /\ RowInv => RowIsLastStored
<1> SUFFICES ASSUME IndInv, RowInv, lock = NoOne
             PROVE  /\ \A id \in IDs : Cardinality(Matches(id)) <= 1
                    /\ {[id |-> entry[i].id, secret |-> entry[i].secret] :
                          i \in {j \in Places : entry[j].id # NoID}}
                         = {recent[k] : k \in {k \in DOMAIN recent : recent[k].id # NoID}}
  BY DEF RowIsLastStored
<1>1. Types /\ RingShape /\ RowRecent /\ RowUnique
  BY DEF IndInv, RowInv
<1>2. \A i : Settled(i)
  BY SettledPlaces DEF IndInv
<1>3. ASSUME NEW id \in IDs PROVE Cardinality(Matches(id)) <= 1
  <2>1. \A i, j \in Matches(id) : i = j
    BY <1>1, <1>2 DEF RowUnique, Matches
  <2>2. CASE Matches(id) = {}
    BY <2>2, FS_EmptySet
  <2>3. ASSUME NEW i \in Matches(id) PROVE Cardinality(Matches(id)) <= 1
    <3>1. Matches(id) = {i}
      BY <2>1, <2>3
    <3> QED
      BY <3>1, FS_Singleton, SMTT(30)
  <2> QED
    BY <2>2, <2>3
<1>4. /\ Len(recent) = ring.total /\ DOMAIN recent = 1 .. ring.total
      /\ \A k \in 1 .. ring.total :
           \E d \in IDs \cup {NoID}, s \in Nat : recent[k] = [id |-> d, secret |-> s]
  <2>1. /\ Len(recent) = ring.total /\ DOMAIN recent = 1 .. ring.total
        /\ \A k \in 1 .. ring.total : recent[k] \in [id : IDs \cup {NoID}, secret : Nat]
    BY <1>1, SeqElements DEF RingShape
  <2> QED
    BY <2>1
<1>5. ASSUME NEW k \in 1 .. ring.total, recent[k].id # NoID
      PROVE  /\ Last(k) \in Places /\ entry[Last(k)].id # NoID
             /\ recent[k] = [id |-> entry[Last(k)].id, secret |-> entry[Last(k)].secret]
  <2>1. PICK d \in IDs \cup {NoID}, s \in Nat : recent[k] = [id |-> d, secret |-> s]
    BY <1>4
  <2> QED
    BY <1>1, <1>2, <1>5, <2>1, LastPlaces DEF RowRecent
<1>6. ASSUME NEW i \in Places, entry[i].id # NoID
      PROVE  \E k \in 1 .. ring.total :
               /\ recent[k].id # NoID
               /\ recent[k] = [id |-> entry[i].id, secret |-> entry[i].secret]
  <2>1. i < ring.total
    BY <1>1, <1>2, <1>6, PlaceInt, RingInts DEF RowRecent
  <2>2. PICK k \in 1 .. ring.total : Last(k) = i
    BY <1>1, <2>1, LastPlaces
  <2>3. recent[k].id # NoID
    BY <1>1, <1>2, <1>6, <2>2 DEF RowRecent
  <2> QED
    BY <1>5, <2>2, <2>3
<1> DEFINE Row == {[id |-> entry[i].id, secret |-> entry[i].secret] :
                     i \in {j \in Places : entry[j].id # NoID}}
           History == {recent[k] : k \in {k \in DOMAIN recent : recent[k].id # NoID}}
<1>7. ASSUME NEW x \in Row PROVE x \in History
  <2>1. PICK i \in Places : /\ entry[i].id # NoID
                            /\ x = [id |-> entry[i].id, secret |-> entry[i].secret]
    BY <1>7
  <2>2. PICK k \in 1 .. ring.total : recent[k].id # NoID /\ recent[k] = x
    BY <1>6, <2>1
  <2> QED
    BY <1>4, <2>2
<1>8. ASSUME NEW x \in History PROVE x \in Row
  <2>1. PICK k \in 1 .. ring.total : recent[k].id # NoID /\ x = recent[k]
    BY <1>4, <1>8
  <2> QED
    BY <1>5, <2>1
<1>9. Row = History
  BY <1>7, <1>8
<1> QED
  BY <1>3, <1>9

-----------------------------------------------------------------------------
\* No connection ever gets a session with another session's secret, nor, through
\* an object of wolfSSL_get_session, one stored earlier for another ID, however
\* adding, evicting, resolving and copying interleave (ssl_sess.c).
THEOREM SessionsStayWhole == Spec => []SessionsWhole
BY InitInv, StepInv, InitAsk, StepAsk, InvWhole, PTL DEF Spec

\* The row lock and the mutex of the client cache never deadlock.
THEOREM NoDeadlock == Spec => []SomeoneProceeds
BY InitInv, StepInv, InvProceeds, PTL DEF Spec

\* Whatever overlaps, overwrites, evicts or times out, an unlocked row holds what
\* the last insertions put there: each ID once, with the secret stored last.
THEOREM RowStaysExact == Spec => []RowIsLastStored
BY InitInv, StepInv, InitRow, StepRow, RowInvExact, PTL DEF Spec
=============================================================================
