----------------------------- MODULE AntiReplay -----------------------------
(***************************************************************************)
(* What a replay window promises, without saying how it remembers: every   *)
(* record number is handed to the message layer at most once, and a record *)
(* that arrives is refused only for one of three reasons: it was delivered *)
(* before, it is more than W records older than the next expected one, or  *)
(* it is so far from the expected one that the shortened number on the     *)
(* wire no longer identifies it.  The verdict on the record handled last   *)
(* is part of the state, so that a wrongful refusal is visible.            *)
(***************************************************************************)
EXTENDS Integers

CONSTANTS Seq,      \* the record numbers, a set of naturals
          W,        \* how far back records are tracked
          Reach     \* distance below which a number on the wire is certain

VARIABLES times,        \* how often each record was handed up
          next,         \* one more than the newest of them, 0 at first
          last          \* the record handled last and the verdict on it

vars == <<times, next, last>>

NoRecord == [seq |-> 0, verdict |-> "none"]

Init == /\ times = [s \in Seq |-> 0]
        /\ next = 0
        /\ last = NoRecord

Deliver(s) ==
    /\ times[s] = 0
    /\ times' = [times EXCEPT ![s] = 1]
    /\ next' = IF s >= next THEN s + 1 ELSE next
    /\ last' = [seq |-> s, verdict |-> "deliver"]

Refuse(s) ==
    /\ \/ times[s] > 0
       \/ next - s > W
       \/ s - next >= Reach
       \/ next - s >= Reach
    /\ last' = [seq |-> s, verdict |-> "drop"]
    /\ UNCHANGED <<times, next>>

Next == \E s \in Seq : Deliver(s) \/ Refuse(s)

Spec == Init /\ [][Next]_vars
=============================================================================
