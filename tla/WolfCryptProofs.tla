-------------------------- MODULE WolfCryptProofs ---------------------------
(***************************************************************************)
(* Proofs about the two parts of wolfCrypt: that its counted               *)
(* initialisation is safe, and that no one-time key of an LMS or XMSS key  *)
(* signs twice.                                                            *)
(***************************************************************************)
EXTENDS InitState, StatefulSignatures, FiniteSetTheorems, TLAPS

(***************************************************************************)
(* The counted initialisation of wolfCrypt is safe for every set of        *)
(* callers, every width of the count and every number of calls.            *)
(*                                                                         *)
(* The count alone is not inductive.  What makes it so is that the state   *)
(* says where the counted callers are (Phase), that a caller about to      *)
(* store the word holds a copy that is still current (Fresh), and that a   *)
(* caller only ever compares with a word that was possible when it was     *)
(* loaded (Compared).                                                      *)
(***************************************************************************)
CountedPlaces == Bodies \cup {"in", "down", "failed"}

(* Where the counted callers are in each state.                             *)
PlacesIn(ws) ==
  CASE ws = UNINITED -> {}
    [] ws = INITING -> {"init", "upStore", "badStore"}
    [] ws = INITED -> {"in", "down"}
    [] ws = CLEANING_UP -> {"clean", "downStore"}
    [] ws = BAD_STATE -> {"failed"}

Phase == \A t \in Callers : pc[t] \in CountedPlaces => pc[t] \in PlacesIn(word.state)

Fresh == \A t \in Callers :
           pc[t] \in {"upStore", "badStore", "downStore"} => seen[t] = word

Compared == \A t \in Callers :
              /\ seen[t].state = UNINITED <=> seen[t].count = 0
              /\ pc[t] = "down" => seen[t].state = INITED

SetUp == /\ word.state = INITED => module = "ready"
         /\ \A t \in Callers : pc[t] = "upStore" => module = "ready"

IndInv == TypeOK /\ CountExact /\ NothingImpossible /\ Phase /\ Fresh /\ Compared /\ SetUp

-----------------------------------------------------------------------------
(* Counting callers.                                                        *)

(* The set of counted callers is finite and its size is a natural number.   *)
LEMMA CountedFinite ==
  IsFiniteSet(Counted) /\ Cardinality(Counted) \in Nat
<1>1. IsFiniteSet(Counted)
  BY CallersAssumption, FS_Subset DEF Counted
<1> QED
  BY <1>1, FS_CardinalityType

(* With one reference, two counted callers are the same.                    *)
LEMMA OneCounted ==
  ASSUME CountExact, word.count = 1,
         NEW t \in Callers, pc[t] \in CountedPlaces,
         NEW u \in Callers, pc[u] \in CountedPlaces
  PROVE  t = u
<1>1. t \in Counted /\ u \in Counted
  BY DEF Counted, CountedPlaces
<1>2. PICK x : Counted = {x}
  BY CountedFinite, FS_Singleton DEF CountExact
<1> QED
  BY <1>1, <1>2

(* A caller that stays on its side of the count leaves the set alone.       *)
LEMMA CountedSame ==
  ASSUME pc \in [Callers -> Place], NEW t \in Callers, NEW p \in Place,
         Goes(t, p), pc[t] \in CountedPlaces <=> p \in CountedPlaces
  PROVE  Counted' = Counted
BY DEF Counted, CountedPlaces, Goes

(* A caller that enters raises the number of counted callers by one ...     *)
LEMMA CountedUp ==
  ASSUME pc \in [Callers -> Place], NEW t \in Callers, NEW p \in Place,
         Goes(t, p), pc[t] \notin CountedPlaces, p \in CountedPlaces
  PROVE  Cardinality(Counted)' = Cardinality(Counted) + 1
<1>1. t \notin Counted /\ Counted' = Counted \cup {t}
  BY DEF Counted, CountedPlaces, Goes
<1> QED
  BY <1>1, CountedFinite, FS_AddElement

(* ... and one that leaves lowers it.                                       *)
LEMMA CountedDown ==
  ASSUME pc \in [Callers -> Place], NEW t \in Callers, NEW p \in Place,
         Goes(t, p), pc[t] \in CountedPlaces, p \notin CountedPlaces
  PROVE  Cardinality(Counted)' = Cardinality(Counted) - 1
<1>1. t \in Counted /\ Counted' = Counted \ {t}
  BY DEF Counted, CountedPlaces, Goes
<1> QED
  BY <1>1, CountedFinite, FS_RemoveElement

(* Below its maximum the count does not wrap.                               *)
LEMMA NoWrap ==
  ASSUME NEW c \in 0..COUNT_MAX, c # COUNT_MAX
  PROVE  (c + 1) % (COUNT_MAX + 1) = c + 1
BY CountMaxAssumption

-----------------------------------------------------------------------------
(* The invariant.                                                           *)

(* Nothing is initialised and nobody is counted at first.                   *)
LEMMA InitInv == Init => IndInv
<1> SUFFICES ASSUME Init PROVE IndInv
  OBVIOUS
<1>1. TypeOK
  BY CountMaxAssumption, MaxCallsAssumption
  DEF Init, TypeOK, Word, Place, UNINITED, INITING, INITED, CLEANING_UP, BAD_STATE
<1>2. CountExact
  <2>1. Counted = {}
    BY DEF Init, Counted, Bodies
  <2> QED
    BY <2>1, FS_EmptySet DEF Init, CountExact
<1>3. NothingImpossible /\ Phase /\ Fresh /\ Compared /\ SetUp
  BY DEF Init, NothingImpossible, Phase, Fresh, Compared, SetUp, CountedPlaces, Bodies,
         UNINITED, INITED
<1> QED
  BY <1>1, <1>2, <1>3 DEF IndInv

(* Every step keeps the invariant.  In each case the count is treated apart *)
(* from the rest; a caller that stores is alone, so nobody else is touched. *)
LEMMA StepInv == IndInv /\ [Next]_vars => IndInv'
<1> SUFFICES ASSUME IndInv, [Next]_vars PROVE IndInv'
  OBVIOUS
<1> USE CountMaxAssumption, MaxCallsAssumption
<1> USE DEF UNINITED, INITING, INITED, CLEANING_UP, BAD_STATE
<1>0. CASE UNCHANGED vars
  BY <1>0 DEF IndInv, TypeOK, CountExact, Counted, NothingImpossible, Phase, Fresh,
              Compared, SetUp, vars
<1>a. ASSUME NEW t \in Callers,
             InitUp(t) \/ InitDown(t) \/ Proceeds(t)
      PROVE  IndInv'
  <2> DEFINE NotCounting == /\ TypeOK' /\ NothingImpossible' /\ Phase'
                            /\ Fresh' /\ Compared' /\ SetUp'
  <2> USE <1>a
  <2>1. CASE InitUp(t)
    <3>1. NotCounting
      BY <2>1 DEF IndInv, TypeOK, NothingImpossible, Phase, Fresh, Compared, SetUp,
        InitUp, Loads, Goes, Place, Word, CountedPlaces, Bodies
    <3>2. Counted' = Counted
      BY <2>1, CountedSame DEF IndInv, TypeOK, InitUp, Place, CountedPlaces, Bodies
    <3> QED
      BY <2>1, <3>1, <3>2 DEF IndInv, CountExact, InitUp
  <2>2. CASE InitDown(t)
    <3>1. NotCounting
      BY <2>2 DEF IndInv, TypeOK, NothingImpossible, Phase, Fresh, Compared, SetUp,
        InitDown, Loads, Goes, Place, Word, CountedPlaces, Bodies, PlacesIn
    <3>2. Counted' = Counted
      BY <2>2, CountedSame DEF IndInv, TypeOK, InitDown, Place, CountedPlaces, Bodies
    <3> QED
      BY <2>2, <3>1, <3>2 DEF IndInv, CountExact, InitDown
  <2>3. CASE InitUpFails(t)
    <3>1. UpError(seen[t]) \in {"out", "refused"}
      BY <2>3 DEF IndInv, TypeOK, Compared, InitUpFails, UpError, Word
    <3>2. NotCounting
      BY <2>3, <3>1 DEF IndInv, TypeOK, NothingImpossible, Phase, Fresh, Compared, SetUp,
        InitUpFails, Goes, Place, CountedPlaces, Bodies
    <3>3. Counted' = Counted
      BY <2>3, <3>1, CountedSame
      DEF IndInv, TypeOK, InitUpFails, Place, CountedPlaces, Bodies
    <3> QED
      BY <2>3, <3>2, <3>3 DEF IndInv, CountExact, InitUpFails
  <2>4. CASE InitUpSwaps(t)
    <3>1. seen[t] \in Word /\ seen[t].count # COUNT_MAX
      BY <2>4 DEF IndInv, TypeOK, InitUpSwaps, UpError
    <3>2. /\ word.count = seen[t].count
          /\ word.state = IF seen[t].state = "UNINITED" THEN "UNINITED" ELSE "INITED"
      BY <2>4, <3>1 DEF InitUpSwaps, UpExpected, Word
    <3>3. /\ word' \in Word
          /\ word'.count = word.count + 1
          /\ word'.state = IF word.state = "UNINITED" THEN "INITING" ELSE "INITED"
      BY <2>4, <3>1, <3>2, NoWrap DEF InitUpSwaps, UpNew, Word
    <3>4. Goes(t, IF word.state = "UNINITED" THEN "init" ELSE "in")
      BY <2>4, <3>3 DEF InitUpSwaps
    <3>5. NotCounting
      <4>1. TypeOK'
        BY <2>4, <3>2, <3>3, <3>4 DEF IndInv, TypeOK, InitUpSwaps, Goes, Place, Word
      <4>2. NothingImpossible' /\ Phase' /\ Fresh' /\ Compared' /\ SetUp'
        BY <2>4, <3>2, <3>3, <3>4 DEF IndInv, TypeOK, NothingImpossible, Phase, Fresh,
          Compared, SetUp, InitUpSwaps, Goes, Place, CountedPlaces, Bodies, PlacesIn
      <4> QED
        BY <4>1, <4>2
    <3>6. Cardinality(Counted)' = Cardinality(Counted) + 1
      BY <2>4, <3>4, CountedUp
      DEF IndInv, TypeOK, InitUpSwaps, Place, CountedPlaces, Bodies
    <3> QED
      BY <3>3, <3>5, <3>6 DEF IndInv, CountExact
  <2>5. CASE InitUpRetries(t)
    <3>1. NotCounting
      BY <2>5 DEF IndInv, TypeOK, NothingImpossible, Phase, Fresh, Compared, SetUp,
        InitUpRetries, Loads
    <3>2. Counted' = Counted
      BY <2>5 DEF InitUpRetries, Counted
    <3> QED
      BY <2>5, <3>1, <3>2 DEF IndInv, CountExact, InitUpRetries
  <2>6. CASE InitUpDone(t)
    <3>1. word.state = "INITING" /\ Goes(t, "upStore")
      BY <2>6 DEF IndInv, Phase, InitUpDone, CountedPlaces, Bodies, PlacesIn, TypeOK, Word
    <3>2. NotCounting
      BY <2>6, <3>1 DEF IndInv, TypeOK, NothingImpossible, Phase, Fresh, Compared, SetUp,
        InitUpDone, Loads, Goes, Place, Word, CountedPlaces, Bodies, PlacesIn
    <3>3. Counted' = Counted
      BY <2>6, <3>1, CountedSame
      DEF IndInv, TypeOK, InitUpDone, Place, CountedPlaces, Bodies
    <3> QED
      BY <2>6, <3>2, <3>3 DEF IndInv, CountExact, InitUpDone
  <2>7. CASE InitUpStores(t)
    <3>1. word.state = "INITING" /\ seen[t] = word /\ word.count = 1 /\ word \in Word
      BY <2>7 DEF IndInv, TypeOK, Phase, Fresh, InitUpStores, CountedPlaces, Bodies,
        PlacesIn, Word
    <3>2. word' \in Word /\ word'.state = "INITED" /\ word'.count = word.count
      BY <2>7, <3>1 DEF InitUpStores, Word
    <3>3. \A u \in Callers : pc[u] \in CountedPlaces => u = t
      BY <2>7, <3>1, OneCounted DEF IndInv, InitUpStores, CountedPlaces, Bodies
    <3>4. NotCounting
      BY <2>7, <3>1, <3>2, <3>3 DEF IndInv, TypeOK, NothingImpossible, Phase, Fresh,
        Compared, SetUp, InitUpStores, Goes, Place, CountedPlaces, Bodies, PlacesIn
    <3>5. Counted' = Counted
      BY <2>7, CountedSame DEF IndInv, TypeOK, InitUpStores, Place, CountedPlaces, Bodies
    <3> QED
      BY <3>2, <3>4, <3>5 DEF IndInv, CountExact
  <2>8. CASE RaiseBadState(t)
    <3>1. NotCounting
      BY <2>8 DEF IndInv, TypeOK, NothingImpossible, Phase, Fresh, Compared, SetUp,
        RaiseBadState, Loads, Goes, Place, Word, CountedPlaces, Bodies, PlacesIn
    <3>2. Counted' = Counted
      BY <2>8, CountedSame DEF IndInv, TypeOK, RaiseBadState, Place, CountedPlaces, Bodies
    <3> QED
      BY <2>8, <3>1, <3>2 DEF IndInv, CountExact, RaiseBadState
  <2>9. CASE StoreBadState(t)
    <3>1. word.state = "INITING" /\ seen[t] = word /\ word.count = 1 /\ word \in Word
      BY <2>9 DEF IndInv, TypeOK, Phase, Fresh, StoreBadState, CountedPlaces, Bodies,
        PlacesIn, Word
    <3>2. word' \in Word /\ word'.state = "BAD_STATE" /\ word'.count = word.count
      BY <2>9, <3>1 DEF StoreBadState, Word
    <3>3. \A u \in Callers : pc[u] \in CountedPlaces => u = t
      BY <2>9, <3>1, OneCounted DEF IndInv, StoreBadState, CountedPlaces, Bodies
    <3>4. NotCounting
      BY <2>9, <3>1, <3>2, <3>3 DEF IndInv, TypeOK, NothingImpossible, Phase, Fresh,
        Compared, SetUp, StoreBadState, Goes, Place, CountedPlaces, Bodies, PlacesIn
    <3>5. Counted' = Counted
      BY <2>9, CountedSame DEF IndInv, TypeOK, StoreBadState, Place, CountedPlaces, Bodies
    <3> QED
      BY <3>2, <3>4, <3>5 DEF IndInv, CountExact
  <2>10. CASE InitDownEnds(t)
    <3>1. ~DownImpossible(seen[t]) /\ word = seen[t] /\ word \in Word
      BY <2>10 DEF IndInv, TypeOK, Compared, InitDownEnds, DownImpossible
    <3>2. word.state = "INITED" /\ word.count # 0
      BY <3>1 DEF DownImpossible
    <3>3. CASE word.count = 1
      <4>1. /\ word' \in Word /\ word'.state = "CLEANING_UP"
            /\ word'.count = word.count /\ Goes(t, "clean")
        BY <2>10, <3>1, <3>3 DEF InitDownEnds, DownNew, Word
      <4>2. \A u \in Callers : pc[u] \in CountedPlaces => u = t
        BY <2>10, <3>3, OneCounted DEF IndInv, InitDownEnds, CountedPlaces, Bodies
      <4>3. NotCounting
        BY <2>10, <3>2, <3>3, <4>1, <4>2 DEF IndInv, TypeOK, NothingImpossible, Phase,
          Fresh, Compared, SetUp, InitDownEnds, Goes, Place, CountedPlaces, Bodies, PlacesIn
      <4>4. Counted' = Counted
        BY <2>10, <4>1, CountedSame
        DEF IndInv, TypeOK, InitDownEnds, Place, CountedPlaces, Bodies
      <4> QED
        BY <4>1, <4>3, <4>4 DEF IndInv, CountExact
    <3>4. CASE word.count # 1
      <4>1. /\ word' \in Word /\ word'.state = "INITED"
            /\ word'.count = word.count - 1 /\ word'.count # 0 /\ Goes(t, "out")
        BY <2>10, <3>1, <3>2, <3>4 DEF InitDownEnds, DownNew, Word
      <4>2. NotCounting
        BY <2>10, <3>2, <4>1 DEF IndInv, TypeOK, NothingImpossible, Phase, Fresh,
          Compared, SetUp, InitDownEnds, Goes, Place, CountedPlaces, Bodies, PlacesIn
      <4>3. Cardinality(Counted)' = Cardinality(Counted) - 1
        BY <2>10, <4>1, CountedDown
        DEF IndInv, TypeOK, InitDownEnds, Place, CountedPlaces, Bodies
      <4> QED
        BY <4>1, <4>2, <4>3 DEF IndInv, CountExact
    <3> QED
      BY <3>3, <3>4
  <2>11. CASE InitDownRetries(t)
    <3>1. word.state = "INITED"
      BY <2>11 DEF IndInv, Phase, InitDownRetries, CountedPlaces, Bodies, PlacesIn, TypeOK,
        Word
    <3>2. NotCounting
      BY <2>11, <3>1 DEF IndInv, TypeOK, NothingImpossible, Phase, Fresh, Compared, SetUp,
        InitDownRetries, Loads
    <3>3. Counted' = Counted
      BY <2>11 DEF InitDownRetries, Counted
    <3> QED
      BY <2>11, <3>2, <3>3 DEF IndInv, CountExact, InitDownRetries
  <2>12. CASE InitDownDone(t)
    <3>1. word.state = "CLEANING_UP" /\ Goes(t, "downStore")
      BY <2>12 DEF IndInv, Phase, InitDownDone, CountedPlaces, Bodies, PlacesIn, TypeOK, Word
    <3>2. NotCounting
      BY <2>12, <3>1 DEF IndInv, TypeOK, NothingImpossible, Phase, Fresh, Compared, SetUp,
        InitDownDone, Loads, Goes, Place, Word, CountedPlaces, Bodies, PlacesIn
    <3>3. Counted' = Counted
      BY <2>12, <3>1, CountedSame
      DEF IndInv, TypeOK, InitDownDone, Place, CountedPlaces, Bodies
    <3> QED
      BY <2>12, <3>2, <3>3 DEF IndInv, CountExact, InitDownDone
  <2>13. CASE InitDownStores(t)
    <3>1. /\ word.state = "CLEANING_UP" /\ seen[t] = word /\ word.count = 1
          /\ word \in Word
      BY <2>13 DEF IndInv, TypeOK, Phase, Fresh, InitDownStores, CountedPlaces, Bodies,
        PlacesIn, Word
    <3>2. word' \in Word /\ word'.state = "UNINITED" /\ word'.count = 0
      BY <2>13, <3>1 DEF InitDownStores, Word
    <3>3. \A u \in Callers : pc[u] \in CountedPlaces => u = t
      BY <2>13, <3>1, OneCounted DEF IndInv, InitDownStores, CountedPlaces, Bodies
    <3>4. NotCounting
      BY <2>13, <3>1, <3>2, <3>3 DEF IndInv, TypeOK, NothingImpossible, Phase, Fresh,
        Compared, SetUp, InitDownStores, Goes, Place, CountedPlaces, Bodies, PlacesIn
    <3>5. Cardinality(Counted)' = Cardinality(Counted) - 1
      BY <2>13, CountedDown
      DEF IndInv, TypeOK, InitDownStores, Place, CountedPlaces, Bodies
    <3>6. CountExact'
      <4>1. Cardinality(Counted) = 1
        BY <3>1 DEF IndInv, CountExact
      <4> QED
        BY <3>2, <3>5, <4>1 DEF CountExact
    <3> QED
      BY <3>4, <3>6 DEF IndInv
  <2> QED
    BY <1>a, <2>1, <2>2, <2>3, <2>4, <2>5, <2>6, <2>7, <2>8, <2>9, <2>10, <2>11, <2>12,
       <2>13 DEF Proceeds
<1> QED
  BY <1>0, <1>a DEF Next

(* The specification's fairness is not needed for what follows.             *)
LEMMA SpecInv == Spec => []IndInv
BY InitInv, StepInv, PTL DEF Spec

(* While a caller holds a reference the module is initialised and nobody    *)
(* initialises it or cleans it up, and two bodies never run at once         *)
(* (wolfCrypt_Init, wolfCrypt_Cleanup), for any number of callers.          *)
THEOREM ReadyTheorem == Spec => []ReadyWhileHeld
<1>1. IndInv => ReadyWhileHeld
  <2> SUFFICES ASSUME IndInv, NEW t \in Callers, NEW u \in Callers
               PROVE  /\ pc[t] = "in" => module = "ready" /\ pc[u] \notin Bodies
                      /\ pc[t] \in Bodies /\ pc[u] \in Bodies => t = u
    BY DEF ReadyWhileHeld
  <2> USE DEF UNINITED, INITING, INITED, CLEANING_UP, BAD_STATE
  <2>1. ASSUME pc[t] = "in" PROVE module = "ready" /\ pc[u] \notin Bodies
    BY <2>1 DEF IndInv, TypeOK, Word, Phase, SetUp, CountedPlaces, Bodies, PlacesIn
  <2>2. ASSUME pc[t] \in Bodies, pc[u] \in Bodies PROVE t = u
    <3>1. word.count = 1
      BY <2>2 DEF IndInv, TypeOK, Word, Phase, CountedPlaces, Bodies, PlacesIn
    <3> QED
      BY <2>2, <3>1, OneCounted DEF IndInv, CountedPlaces
  <2> QED
    BY <2>1, <2>2
<1> QED
  BY <1>1, SpecInv, PTL

(* The count is the number of references (wc_local_InitUp, InitUpDone,      *)
(* InitDown, InitDownDone), for every width of the count.                   *)
THEOREM CountTheorem == Spec => []CountExact
BY SpecInv, PTL DEF IndInv

(* Matched calls never take an error branch that a comment calls impossible.*)
THEOREM PossibleTheorem == Spec => []NothingImpossible
BY SpecInv, PTL DEF IndInv

(* The variables have their types and the word is a possible one.           *)
THEOREM TypeTheorem == Spec => []TypeOK
BY SpecInv, PTL DEF IndInv

-----------------------------------------------------------------------------
(***************************************************************************)
(* Proof that no one-time key is used for two signatures, for any number   *)
(* of objects, leaves and private keys.                                    *)
(*                                                                         *)
(* NoIndexReuse is not inductive: it says nothing of the index the next    *)
(* signature will use.  What makes it inductive is that storage is ahead   *)
(* of every signature released (Stored), and that the call in progress     *)
(* works on the stored index: what it signs with is what storage holds,    *)
(* and what it writes is the next index (CallInProgress).  For LMS that    *)
(* needs the memory of a usable object to agree with storage               *)
(* (MemoryMatchesStore), hence at most one usable object (OneLive).        *)
(***************************************************************************)
Below(a, b) == \/ a.key < b.key
               \/ a.key = b.key /\ a.q < b.q

Stored == /\ \A i \in 1 .. Len(released) : Below(released[i], nv)
          /\ nv.key <= made

OneLive == scheme = "lms" =>
             \A g, h \in Handles : state[g] = "OK" /\ state[h] = "OK" => g = h

NoneLive == scheme = "lms" => \A h \in Handles : state[h] # "OK"

CallInProgress ==
    /\ step = "make" => /\ priv[who].key = made /\ nv.key < made
                        /\ NoneLive
    /\ step \in {"sign", "write"} => state[who] = "BAD" /\ NoneLive
    /\ step = "sign" => priv[who] = nv
    /\ step = "write" => sig = nv /\ priv[who] = Advance(nv) /\ nv.q < LEAVES

KeysInv == /\ KeysTypeOK
           /\ NoIndexReuse
           /\ Stored
           /\ MemoryMatchesStore
           /\ OneLive
           /\ CallInProgress

-----------------------------------------------------------------------------
(* The invariant holds when no object has been initialised.                 *)
LEMMA KeysInitInv == KeysInit => KeysInv
BY LeavesAssumption DEF KeysInit, KeysInv, KeysTypeOK, NoIndexReuse, Stored, OneLive,
   MemoryMatchesStore, CallInProgress, NoneLive, Index, NoKey, States

(* Every step preserves it, a crash included.                               *)
LEMMA KeysStepInv == KeysInv /\ [KeysNext]_keyVars => KeysInv'
<1> SUFFICES ASSUME KeysInv, [KeysNext]_keyVars PROVE KeysInv'
  OBVIOUS
<1> USE LeavesAssumption DEF KeysInv
<1>1. ASSUME NEW h \in Handles, InitKey(h) PROVE KeysInv'
  <2>1. KeysTypeOK'
    BY <1>1 DEF InitKey, call, SetState, KeysTypeOK, States
  <2>2. NoIndexReuse'
    BY <1>1 DEF InitKey, NoIndexReuse
  <2>3. Stored'
    BY <1>1 DEF InitKey, Stored
  <2>4. MemoryMatchesStore'
    BY <1>1 DEF InitKey, SetState, KeysTypeOK, MemoryMatchesStore
  <2>5. OneLive'
    BY <1>1 DEF InitKey, SetState, KeysTypeOK, OneLive, CallInProgress, NoneLive
  <2>6. CallInProgress'
    BY <1>1 DEF InitKey, call, CallInProgress
  <2> QED  BY <2>1, <2>2, <2>3, <2>4, <2>5, <2>6
<1>2. ASSUME NEW h \in Handles, SetParameters(h) PROVE KeysInv'
  <2>1. KeysTypeOK'
    BY <1>2 DEF SetParameters, call, SetState, KeysTypeOK, States
  <2>2. NoIndexReuse'
    BY <1>2 DEF SetParameters, NoIndexReuse
  <2>3. Stored'
    BY <1>2 DEF SetParameters, Stored
  <2>4. MemoryMatchesStore'
    BY <1>2 DEF SetParameters, SetState, KeysTypeOK, MemoryMatchesStore
  <2>5. OneLive'
    BY <1>2 DEF SetParameters, SetState, KeysTypeOK, OneLive, CallInProgress,
       NoneLive
  <2>6. CallInProgress'
    BY <1>2 DEF SetParameters, call, CallInProgress
  <2> QED  BY <2>1, <2>2, <2>3, <2>4, <2>5, <2>6
<1>3. ASSUME NEW h \in Handles, FreeKey(h) PROVE KeysInv'
  <2>1. KeysTypeOK'
    BY <1>3 DEF FreeKey, call, SetState, SetPriv, KeysTypeOK, States, Index, NoKey
  <2>2. NoIndexReuse'
    BY <1>3 DEF FreeKey, NoIndexReuse
  <2>3. Stored'
    BY <1>3 DEF FreeKey, Stored
  <2>4. MemoryMatchesStore'
    BY <1>3 DEF FreeKey, call, SetState, SetPriv, KeysTypeOK, MemoryMatchesStore,
       OneLive, CallInProgress, NoneLive
  <2>5. OneLive'
    BY <1>3 DEF FreeKey, SetState, KeysTypeOK, OneLive, CallInProgress, NoneLive
  <2>6. CallInProgress'
    BY <1>3 DEF FreeKey, call, SetState, SetPriv, KeysTypeOK, CallInProgress,
       NoneLive, OneLive, Stored, MemoryMatchesStore, Index
  <2> QED  BY <2>1, <2>2, <2>3, <2>4, <2>5, <2>6
<1>4. ASSUME NEW h \in Handles, MakeKey(h) PROVE KeysInv'
  <2>1. KeysTypeOK'
    BY <1>4 DEF MakeKey, call, SetPriv, OnlyLive, KeysTypeOK, States, Index, NoKey
  <2>2. NoIndexReuse'
    BY <1>4 DEF MakeKey, NoIndexReuse
  <2>3. Stored'
    BY <1>4, SMTT(30) DEF MakeKey, Stored, KeysTypeOK, Index, Below
  <2>4. MemoryMatchesStore'
    BY <1>4 DEF MakeKey, call, SetPriv, OnlyLive, KeysTypeOK, MemoryMatchesStore,
       OneLive, CallInProgress, NoneLive
  <2>5. OneLive'
    BY <1>4 DEF MakeKey, OnlyLive, KeysTypeOK, OneLive, CallInProgress, NoneLive
  <2>6. CallInProgress'
    BY <1>4 DEF MakeKey, call, SetPriv, OnlyLive, KeysTypeOK, CallInProgress,
       NoneLive, OneLive, Stored, MemoryMatchesStore, Index
  <2> QED  BY <2>1, <2>2, <2>3, <2>4, <2>5, <2>6
<1>5. ASSUME NEW h \in Handles, MakeKeyWrite(h) PROVE KeysInv'
  <2>a. /\ priv[h] \in Index /\ NoKey \in Index
        /\ nv' = nv \/ nv' = priv[h]
    BY <1>5 DEF MakeKeyWrite, KeysTypeOK, Index, NoKey
  <2>b. priv' \in [Handles -> Index]
    BY <1>5, <2>a DEF MakeKeyWrite, Wipe, SetPriv, KeysTypeOK
  <2>c. state' \in [Handles -> States]
    BY <1>5 DEF MakeKeyWrite, SetState, KeysTypeOK, States
  <2>1. KeysTypeOK'
    BY <1>5, <2>a, <2>b, <2>c DEF MakeKeyWrite, EndCall, KeysTypeOK
  <2>2. NoIndexReuse'
    BY <1>5 DEF MakeKeyWrite, NoIndexReuse
  <2>3. Stored'
    <3>1. /\ priv[h].key = made /\ nv.key < made
          /\ made' = made /\ released' = released
      BY <1>5 DEF MakeKeyWrite, CallInProgress
    <3>2. nv'.key <= made'
      <4>1. made \in Int /\ nv.key <= made
        BY DEF KeysTypeOK, Stored
      <4>2. nv'.key = nv.key \/ nv'.key = priv[h].key
        BY <2>a
      <4> QED  BY <3>1, <4>1, <4>2
    <3>3. ASSUME NEW i \in 1 .. Len(released) PROVE Below(released[i], nv')
      <4>1. Below(released[i], nv) /\ released[i] \in Index /\ nv \in Index
        BY <3>3 DEF Stored, KeysTypeOK
      <4>2. CASE nv' = nv
        BY <4>1, <4>2
      <4>3. CASE nv' = priv[h]
        <5>1. /\ released[i].key \in Int /\ nv.key \in Int
              /\ released[i].key < nv.key \/ released[i].key = nv.key
          BY <4>1 DEF Below, Index
        <5>2. nv'.key = made /\ nv.key < made /\ made \in Int
          BY <4>3, <3>1 DEF KeysTypeOK
        <5>3. released[i].key < nv'.key
          BY <5>1, <5>2
        <5> QED  BY <5>3 DEF Below
      <4> QED  BY <4>2, <4>3, <2>a
    <3> QED  BY <3>1, <3>2, <3>3 DEF Stored
  <2>4. MemoryMatchesStore'
    BY <1>5 DEF MakeKeyWrite, call, SetState, SetPriv, Wipe, EndCall, KeysTypeOK,
       MemoryMatchesStore, OneLive, CallInProgress, NoneLive
  <2>5. OneLive'
    BY <1>5 DEF MakeKeyWrite, SetState, EndCall, KeysTypeOK, OneLive,
       CallInProgress, NoneLive
  <2>6. CallInProgress'
    BY <1>5 DEF MakeKeyWrite, EndCall, CallInProgress
  <2> QED  BY <2>1, <2>2, <2>3, <2>4, <2>5, <2>6
<1>6. ASSUME NEW h \in Handles, Reload(h) PROVE KeysInv'
  <2>a. state' \in [Handles -> States]
    BY <1>6 DEF Reload, SetState, KeysTypeOK, States
  <2>b. priv' \in [Handles -> Index]
    BY <1>6 DEF Reload, SetPriv, KeysTypeOK
  <2>1. KeysTypeOK'
    BY <1>6, <2>a, <2>b DEF Reload, call, KeysTypeOK
  <2>2. NoIndexReuse'
    BY <1>6 DEF Reload, NoIndexReuse
  <2>3. Stored'
    BY <1>6 DEF Reload, Stored
  <2>4. MemoryMatchesStore'
    BY <1>6 DEF Reload, call, SetState, SetPriv, SigsLeft, OnlyLive, KeysTypeOK,
       MemoryMatchesStore, OneLive, CallInProgress, NoneLive
  <2>5. OneLive'
    BY <1>6 DEF Reload, SetState, SigsLeft, OnlyLive, KeysTypeOK, OneLive,
       CallInProgress, NoneLive
  <2>6. CallInProgress'
    BY <1>6 DEF Reload, call, SetState, SetPriv, SigsLeft, OnlyLive, KeysTypeOK,
       CallInProgress, NoneLive, OneLive, Stored, MemoryMatchesStore, Index
  <2> QED  BY <2>1, <2>2, <2>3, <2>4, <2>5, <2>6
<1>7. ASSUME NEW h \in Handles, SignBegin(h) PROVE KeysInv'
  <2>1. KeysTypeOK'
    BY <1>7 DEF SignBegin, call, SetState, SetPriv, KeysTypeOK, States, Index,
       NoKey
  <2>2. NoIndexReuse'
    BY <1>7 DEF SignBegin, NoIndexReuse
  <2>3. Stored'
    BY <1>7 DEF SignBegin, Stored
  <2>4. MemoryMatchesStore'
    BY <1>7 DEF SignBegin, call, SetState, SetPriv, KeysTypeOK,
       MemoryMatchesStore, OneLive, CallInProgress, NoneLive
  <2>5. OneLive'
    BY <1>7 DEF SignBegin, SetState, KeysTypeOK, OneLive, CallInProgress, NoneLive
  <2>6. CallInProgress'
    BY <1>7 DEF SignBegin, call, SetState, SetPriv, KeysTypeOK, CallInProgress,
       NoneLive, OneLive, Stored, MemoryMatchesStore, Index
  <2> QED  BY <2>1, <2>2, <2>3, <2>4, <2>5, <2>6
<1>8. ASSUME NEW h \in Handles, Sign(h) PROVE KeysInv'
  <2>a. /\ priv[h] \in Index /\ NoKey \in Index
        /\ SigsLeft(priv[h]) => Advance(priv[h]) \in Index
    <3>1. priv[h] \in Index /\ NoKey \in Index
      BY DEF KeysTypeOK, Index, NoKey
    <3>2. ASSUME NEW i \in Index, i.q < LEAVES
          PROVE  [i EXCEPT !.q = @ + 1] \in Index
      BY <3>2 DEF Index
    <3> QED  BY <3>1, <3>2 DEF SigsLeft, Advance
  <2>b. priv' \in [Handles -> Index]
    BY <1>8, <2>a DEF Sign, Wipe, SetPriv, KeysTypeOK
  <2>c. state' \in [Handles -> States]
    BY <1>8 DEF Sign, SetState, KeysTypeOK, States
  <2>1. KeysTypeOK'
    BY <1>8, <2>a, <2>b, <2>c DEF Sign, EndCall, KeysTypeOK
  <2>2. NoIndexReuse'
    BY <1>8 DEF Sign, NoIndexReuse
  <2>3. Stored'
    BY <1>8 DEF Sign, Stored
  <2>4. MemoryMatchesStore'
    BY <1>8 DEF Sign, call, SetState, SetPriv, Wipe, EndCall, SigsLeft,
       Advance, KeysTypeOK, MemoryMatchesStore, OneLive, CallInProgress, NoneLive
  <2>5. OneLive'
    BY <1>8 DEF Sign, SetState, EndCall, SigsLeft, KeysTypeOK, OneLive,
       CallInProgress, NoneLive
  <2>6. CallInProgress'
    <3>1. priv[h] = nv /\ nv' = nv /\ state[h] = "BAD" /\ NoneLive
      BY <1>8 DEF Sign, CallInProgress
    <3>2. CASE step' = "idle"
      BY <3>2 DEF CallInProgress
    <3>3. CASE step' # "idle"
      <4>1. /\ step' = "write" /\ sig' = nv /\ state' = state /\ who' = h
            /\ priv' = [priv EXCEPT ![h] = Advance(nv)]
            /\ nv.q < LEAVES /\ scheme' = scheme
        BY <1>8, <3>1, <3>3 DEF Sign, EndCall, SetPriv, SigsLeft
      <4>2. priv'[h] = Advance(nv)
        BY <4>1 DEF KeysTypeOK
      <4> QED  BY <4>1, <4>2, <3>1 DEF CallInProgress, NoneLive, Advance
    <3> QED  BY <3>2, <3>3
  <2> QED  BY <2>1, <2>2, <2>3, <2>4, <2>5, <2>6
<1>9. ASSUME NEW h \in Handles, SignWrite(h) PROVE KeysInv'
  <2>a. /\ priv[h] \in Index /\ NoKey \in Index /\ nv \in Index
        /\ sig = nv /\ priv[h] = Advance(nv)
        /\ nv' = nv \/ nv' = priv[h]
    BY <1>9 DEF SignWrite, CallInProgress, KeysTypeOK, Index, NoKey
  <2>b. priv' \in [Handles -> Index]
    BY <1>9, <2>a DEF SignWrite, Wipe, SetPriv, KeysTypeOK
  <2>c. state' \in [Handles -> States]
    BY <1>9 DEF SignWrite, SetState, KeysTypeOK, States
  <2>d. \/ released' = released
        \/ released' = Append(released, nv) /\ nv' = priv[h]
    BY <1>9, <2>a DEF SignWrite
  <2>e. released \in Seq(Index) /\ released' \in Seq(Index)
    BY <2>a, <2>d DEF KeysTypeOK
  <2>f. \A i \in 1 .. Len(released') :
            \/ i \in 1 .. Len(released) /\ released'[i] = released[i]
            \/ i = Len(released') /\ released'[i] = nv
               /\ Len(released') = Len(released) + 1 /\ nv' = priv[h]
    BY <2>d, <2>e, <2>a
  <2>g. \A i \in 1 .. Len(released) : released[i] \in Index
    BY <2>e
  <2>1. KeysTypeOK'
    BY <1>9, <2>a, <2>b, <2>c, <2>e DEF SignWrite, EndCall, KeysTypeOK
  <2>2. NoIndexReuse'
    <3>1. \A i \in 1 .. Len(released) : released[i] # nv
      BY <2>a, <2>g DEF Stored, Below, Index
    <3> QED  BY <2>f, <3>1, <2>e DEF NoIndexReuse
  <2>3. Stored'
    <3>1. nv'.key = nv.key /\ made' = made
      BY <1>9, <2>a DEF SignWrite, Advance, Index
    <3>2. ASSUME NEW i \in 1 .. Len(released') PROVE Below(released'[i], nv')
      <4>1. CASE i \in 1 .. Len(released) /\ released'[i] = released[i]
        <5>1. Below(released[i], nv) /\ released[i] \in Index
          BY <4>1, <2>g DEF Stored
        <5>2. nv' = nv \/ nv' = [nv EXCEPT !.q = @ + 1]
          BY <2>a DEF Advance
        <5> QED  BY <4>1, <5>1, <5>2, <2>a DEF Below, Index
      <4>2. CASE released'[i] = nv /\ nv' = priv[h]
        BY <4>2, <2>a DEF Below, Advance, Index
      <4> QED  BY <4>1, <4>2, <2>f
    <3> QED  BY <3>1, <3>2 DEF Stored
  <2>4. MemoryMatchesStore'
    BY <1>9 DEF SignWrite, call, SetState, SetPriv, Wipe, EndCall, Advance,
       KeysTypeOK, MemoryMatchesStore, OneLive, CallInProgress, NoneLive
  <2>5. OneLive'
    BY <1>9 DEF SignWrite, SetState, EndCall, KeysTypeOK, OneLive,
       CallInProgress, NoneLive
  <2>6. CallInProgress'
    BY <1>9 DEF SignWrite, call, SetState, SetPriv, Wipe, EndCall, Advance,
       KeysTypeOK, CallInProgress, NoneLive, OneLive, Stored, MemoryMatchesStore,
       Index
  <2> QED  BY <2>1, <2>2, <2>3, <2>4, <2>5, <2>6
<1>10. CASE Crash
  <2>a. priv[who] \in Index /\ NoKey \in Index /\ nv \in Index
    BY DEF KeysTypeOK, Index, NoKey
  <2>b. \/ nv' = nv
        \/ step = "make" /\ nv' = priv[who]
        \/ step = "write" /\ nv' = Advance(nv)
    BY <1>10 DEF Crash, CallInProgress
  <2>1. KeysTypeOK'
    BY <1>10, <2>a, <2>b DEF Crash, EndCall, KeysTypeOK, States, CallInProgress
  <2>2. NoIndexReuse'
    BY <1>10 DEF Crash, NoIndexReuse
  <2>3. Stored'
    <3>1. nv'.key <= made'
      <4>1. made' = made /\ made \in Int /\ nv.key <= made
        BY <1>10 DEF Crash, KeysTypeOK, Stored
      <4>2. nv'.key = nv.key \/ nv'.key = made
        BY <2>a, <2>b DEF CallInProgress, Advance, Index
      <4> QED  BY <4>1, <4>2
    <3>2. ASSUME NEW i \in 1 .. Len(released) PROVE Below(released[i], nv')
      <4>1. Below(released[i], nv) /\ released[i] \in Index
        BY DEF Stored, KeysTypeOK
      <4>2. CASE nv' = nv
        BY <4>1, <4>2
      <4>3. CASE step = "make" /\ nv' = priv[who]
        <5>1. /\ released[i].key \in Int /\ nv.key \in Int
              /\ released[i].key < nv.key \/ released[i].key = nv.key
          BY <4>1, <2>a DEF Below, Index
        <5>2. nv'.key = made /\ nv.key < made /\ made \in Int
          BY <4>3 DEF CallInProgress, KeysTypeOK
        <5>3. released[i].key < nv'.key
          BY <5>1, <5>2
        <5> QED  BY <5>3 DEF Below
      <4>4. CASE nv' = Advance(nv)
        BY <4>1, <4>4, <2>a DEF Below, Advance, Index
      <4> QED  BY <4>2, <4>3, <4>4, <2>b
    <3> QED  BY <1>10, <3>1, <3>2 DEF Stored, Crash
  <2>4. MemoryMatchesStore' /\ OneLive' /\ CallInProgress'
    BY <1>10 DEF Crash, EndCall, MemoryMatchesStore, OneLive, CallInProgress,
       NoneLive
  <2> QED  BY <2>1, <2>2, <2>3, <2>4
<1>11. CASE UNCHANGED keyVars
  BY <1>11 DEF keyVars, KeysTypeOK, NoIndexReuse, Stored, Below, MemoryMatchesStore,
     OneLive, CallInProgress, NoneLive
<1> QED
  BY <1>1, <1>2, <1>3, <1>4, <1>5, <1>6, <1>7, <1>8, <1>9, <1>10, <1>11 DEF
     KeysNext

(***************************************************************************)
(* Type correctness of the key objects, the storage and the call in        *)
(* progress; in particular no index goes past the last one-time key.       *)
(***************************************************************************)
THEOREM TypeCorrect == KeysSpec => []KeysTypeOK
<1> QED  BY KeysInitInv, KeysStepInv, PTL DEF KeysSpec, KeysInv

(***************************************************************************)
(* No one-time key of an LMS or XMSS key is used for two signatures that   *)
(* wc_LmsKey_Sign or wc_XmssKey_Sign returned, whatever writes fail and    *)
(* wherever the process dies.                                              *)
(***************************************************************************)
THEOREM OneSignaturePerIndex == KeysSpec => []NoIndexReuse
<1> QED  BY KeysInitInv, KeysStepInv, PTL DEF KeysSpec, KeysInv

(***************************************************************************)
(* A usable LmsKey object agrees with storage on the next index.           *)
(***************************************************************************)
THEOREM LmsMemoryIsStored == KeysSpec => []MemoryMatchesStore
<1> QED  BY KeysInitInv, KeysStepInv, PTL DEF KeysSpec, KeysInv
=============================================================================
