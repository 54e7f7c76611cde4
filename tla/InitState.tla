----------------------------- MODULE InitState ------------------------------
(***************************************************************************)
(* The counted initialisation of wolfCrypt: wolfCrypt_Init and             *)
(* wolfCrypt_Cleanup over wc_local_InitUp, InitUpDone, InitDown and        *)
(* InitDownDone (wolfcrypt/src/wc_port.c, wolfcrypt/wc_port.h), whose      *)
(* comment says "with initialization/cleanup races fully mitigated".       *)
(*                                                                         *)
(* One atomic word holds a state and a count.  Callers change it with      *)
(* loads, compare-and-exchange loops and, where the state serves as a      *)
(* mutex, with a plain load followed by a plain store.  Each of these      *)
(* accesses is a step.  A caller is a matched pair of calls: a thread that *)
(* initialises twice is two callers.  WC_INIT_ERROR_WHEN_CONTENDED (return *)
(* BUSY_E instead of trying again) and calls from inside the               *)
(* initialisation (in_init) are left out.                                  *)
(***************************************************************************)
EXTENDS Integers, FiniteSets

CONSTANTS
  Callers,    \* the matched pairs of calls that may be under way
  COUNT_MAX,  \* 2^WC_INIT_STATE_COUNT_BITS - 1
  MAX_CALLS   \* bound: how many calls of wolfCrypt_Init are made

ASSUME CallersAssumption == IsFiniteSet(Callers)
ASSUME CountMaxAssumption == COUNT_MAX \in Nat \ {0}
ASSUME MaxCallsAssumption == MAX_CALLS \in Nat

VARIABLES
  word,    \* *s: the state and the count
  seen,    \* what each caller last loaded from the word
  pc,      \* where each caller is
  module,  \* whether the tables and locks of wolfCrypt are set up
  calls    \* how many calls of wolfCrypt_Init have been made

vars == <<word, seen, pc, module, calls>>

UNINITED == "UNINITED"
INITING == "INITING"
INITED == "INITED"
CLEANING_UP == "CLEANING_UP"
BAD_STATE == "BAD_STATE"

Word == [state : {UNINITED, INITING, INITED, CLEANING_UP, BAD_STATE},
         count : 0..COUNT_MAX]

(* out, in     holds no reference, holds one                                *)
(* up, down    in the loop of wc_local_InitUp, of wc_local_InitDown         *)
(* init, clean runs the body of wolfCrypt_Init, of wolfCrypt_Cleanup        *)
(* upStore, badStore, downStore  about to store the word it has loaded      *)
(* failed, refused  its initialisation failed; the module has failed        *)
(* impossible  took a branch that a comment calls impossible                *)
Place == {"out", "up", "init", "upStore", "badStore", "in", "down", "clean",
          "downStore", "failed", "refused", "impossible"}

Goes(t, place) == pc' = [pc EXCEPT ![t] = place]
Loads(t) == seen' = [seen EXCEPT ![t] = word]

Init ==
  /\ word = [state |-> UNINITED, count |-> 0]
  /\ seen = [t \in Callers |-> word]
  /\ pc = [t \in Callers |-> "out"]
  /\ module = "raw"
  /\ calls = 0

-----------------------------------------------------------------------------
(* wolfCrypt_Init                                                           *)

(* The first load of wc_local_InitUp.                                       *)
InitUp(t) ==
  /\ pc[t] = "out"
  /\ calls < MAX_CALLS
  /\ calls' = calls + 1
  /\ Loads(t)
  /\ Goes(t, "up")
  /\ UNCHANGED <<word, module>>

(* Where a pass of the loop that ends with an error goes, in the order of   *)
(* the tests; "up" if there is none.                                        *)
UpError(e) ==
  CASE e.count = COUNT_MAX -> "out"
    [] e.count # COUNT_MAX /\ e.state = BAD_STATE -> "refused"
    [] e.count # COUNT_MAX /\ e.state # BAD_STATE
         /\ (e.state = UNINITED) # (e.count = 0) -> "impossible"
    [] OTHER -> "up"

(* The expected word: "Force expected state to _INITED", so that the        *)
(* exchange fails while another caller is initialising or cleaning up.      *)
UnforcedUpExpected(e) == e
UpExpected(e) == IF e.state = UNINITED THEN e ELSE [e EXCEPT !.state = INITED]

FirstOnlyUpNew(e) == [state |-> IF e.state = UNINITED THEN INITING ELSE INITED,
                      count |-> IF e.state = UNINITED THEN 1 ELSE e.count]

(* The bit field of the count wraps.                                        *)
UpNew(e) == [state |-> IF e.state = UNINITED THEN INITING ELSE INITED,
             count |-> (e.count + 1) % (COUNT_MAX + 1)]

InitUpFails(t) ==
  /\ pc[t] = "up"
  /\ UpError(seen[t]) # "up"
  /\ Goes(t, UpError(seen[t]))
  /\ UNCHANGED <<word, seen, module, calls>>

InitUpSwaps(t) ==
  /\ pc[t] = "up"
  /\ UpError(seen[t]) = "up"
  /\ word = UpExpected(seen[t])
  /\ word' = UpNew(seen[t])
  /\ Goes(t, IF word'.state = INITING THEN "init" ELSE "in")
  /\ UNCHANGED <<seen, module, calls>>

InitUpRetries(t) ==
  /\ pc[t] = "up"
  /\ UpError(seen[t]) = "up"
  /\ word # UpExpected(seen[t])
  /\ Loads(t)
  /\ UNCHANGED <<word, pc, module, calls>>

(* The body of wolfCrypt_Init, and the load of wc_local_InitUpDone ...      *)
InitUpDone(t) ==
  /\ pc[t] = "init"
  /\ module' = "ready"
  /\ Loads(t)
  /\ Goes(t, IF word.state = INITING THEN "upStore" ELSE "impossible")
  /\ UNCHANGED <<word, calls>>

(* ... and its store.                                                       *)
InitUpStores(t) ==
  /\ pc[t] = "upStore"
  /\ word' = [seen[t] EXCEPT !.state = INITED]
  /\ Goes(t, "in")
  /\ UNCHANGED <<seen, module, calls>>

(* WC_INIT_STATE_RAISE_BAD_STATE when a step of the body fails.             *)
RaiseBadState(t) ==
  /\ pc[t] = "init"
  /\ Loads(t)
  /\ Goes(t, "badStore")
  /\ UNCHANGED <<word, module, calls>>

ForgottenBadState(t) ==
  /\ pc[t] = "badStore"
  /\ Goes(t, "failed")
  /\ UNCHANGED <<word, seen, module, calls>>

StoreBadState(t) ==
  /\ pc[t] = "badStore"
  /\ word' = [seen[t] EXCEPT !.state = BAD_STATE]
  /\ Goes(t, "failed")
  /\ UNCHANGED <<seen, module, calls>>

-----------------------------------------------------------------------------
(* wolfCrypt_Cleanup, of a caller whose wolfCrypt_Init returned success     *)

InitDown(t) ==
  /\ pc[t] = "in"
  /\ Loads(t)
  /\ Goes(t, "down")
  /\ UNCHANGED <<word, module, calls>>

(* The count is zeroed when the clean up begins.                            *)
EarlyZeroDownNew(e) == IF e.count = 1 THEN [state |-> CLEANING_UP, count |-> 0]
                                      ELSE [e EXCEPT !.count = @ - 1]

(* The last caller keeps its reference until the clean up has ended:        *)
(* "don't zero until end".                                                  *)
DownNew(e) == IF e.count = 1 THEN [e EXCEPT !.state = CLEANING_UP]
                             ELSE [e EXCEPT !.count = @ - 1]

(* The words for which a pass of wc_local_InitDown returns an error: only   *)
(* unmatched calls could meet them.                                         *)
DownImpossible(e) == e.state # INITED \/ e.count = 0

(* The pass that returns, with an error or because the exchange succeeds.   *)
InitDownEnds(t) ==
  /\ pc[t] = "down"
  /\ DownImpossible(seen[t]) \/ word = seen[t]
  /\ word' = IF DownImpossible(seen[t]) THEN word ELSE DownNew(seen[t])
  /\ Goes(t, IF DownImpossible(seen[t]) THEN "impossible"
             ELSE IF word'.state = CLEANING_UP THEN "clean" ELSE "out")
  /\ UNCHANGED <<seen, module, calls>>

InitDownRetries(t) ==
  /\ pc[t] = "down"
  /\ ~DownImpossible(seen[t])
  /\ word # seen[t]
  /\ Loads(t)
  /\ UNCHANGED <<word, pc, module, calls>>

(* The body of wolfCrypt_Cleanup, and the load of wc_local_InitDownDone ... *)
InitDownDone(t) ==
  /\ pc[t] = "clean"
  /\ module' = "raw"
  /\ Loads(t)
  /\ Goes(t, IF word.state = CLEANING_UP THEN "downStore" ELSE "impossible")
  /\ UNCHANGED <<word, calls>>

CountedInitDownStores(t) ==
  /\ pc[t] = "downStore"
  /\ word' = [seen[t] EXCEPT !.state = UNINITED]
  /\ Goes(t, "out")
  /\ UNCHANGED <<seen, module, calls>>

(* ... and its store.                                                       *)
InitDownStores(t) ==
  /\ pc[t] = "downStore"
  /\ word' = [state |-> UNINITED, count |-> 0]
  /\ Goes(t, "out")
  /\ UNCHANGED <<seen, module, calls>>

-----------------------------------------------------------------------------

(* Every step of a call that has begun.                                     *)
Proceeds(t) ==
  \/ InitUpFails(t)
  \/ InitUpSwaps(t)
  \/ InitUpRetries(t)
  \/ InitUpDone(t)
  \/ InitUpStores(t)
  \/ RaiseBadState(t)
  \/ StoreBadState(t)
  \/ InitDownEnds(t)
  \/ InitDownRetries(t)
  \/ InitDownDone(t)
  \/ InitDownStores(t)

Next == \E t \in Callers : InitUp(t) \/ InitDown(t) \/ Proceeds(t)

(* A thread that has begun a call is scheduled again and again.             *)
Spec == Init /\ [][Next]_vars /\ \A t \in Callers : WF_vars(Proceeds(t))

-----------------------------------------------------------------------------

(* The types, and the words the comments of wc_port.c call possible: a      *)
(* count of zero exactly when not initialised, one while somebody           *)
(* initialises or cleans up.                                                *)
TypeOK ==
  /\ word \in Word
  /\ seen \in [Callers -> Word]
  /\ pc \in [Callers -> Place]
  /\ module \in {"raw", "ready"}
  /\ calls \in 0..MAX_CALLS
  /\ word.state = UNINITED <=> word.count = 0
  /\ word.state \in {INITING, CLEANING_UP, BAD_STATE} => word.count = 1

Bodies == {"init", "upStore", "badStore", "clean", "downStore"}

(* The callers that have to be counted.                                     *)
Counted == {t \in Callers : pc[t] \in Bodies \cup {"in", "down", "failed"}}

(* The count is the number of references, although it is changed by plain   *)
(* stores of a word loaded earlier (wc_local_InitUpDone, InitDownDone,      *)
(* WC_INIT_STATE_RAISE_BAD_STATE) beside the exchanges of the other         *)
(* callers: no reference is lost or counted twice.                          *)
CountExact == word.count = Cardinality(Counted)

(* Between the return of its wolfCrypt_Init and its call of                 *)
(* wolfCrypt_Cleanup a caller has an initialised module, and nobody is      *)
(* initialising or cleaning it up; two bodies never run at once.            *)
ReadyWhileHeld ==
  \A t, u \in Callers :
    /\ pc[t] = "in" => module = "ready" /\ pc[u] \notin Bodies
    /\ pc[t] \in Bodies /\ pc[u] \in Bodies => t = u

(* The error branches that the comments call impossible are not taken by    *)
(* matched calls, however they interleave.                                  *)
NothingImpossible == \A t \in Callers : pc[t] # "impossible"

(* Every call returns, if the initialisation and clean up themselves do and *)
(* only finitely many calls are made: nobody spins for ever on INITING or   *)
(* CLEANING_UP, not after a failed initialisation either.                   *)
CallsReturn ==
  \A t \in Callers :
    pc[t] \in Bodies \cup {"up", "down"} ~> pc[t] \notin Bodies \cup {"up", "down"}

=============================================================================
