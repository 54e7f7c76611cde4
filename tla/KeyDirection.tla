---------------------------- MODULE KeyDirection ----------------------------
(***************************************************************************)
(* What a key update promises for one direction of a connection: sender    *)
(* and receiver go through the epochs in lockstep, the receiver first.  The *)
(* receiver learns of the next epoch only while the sender still uses the  *)
(* present one, and the sender moves on only to an epoch the receiver has  *)
(* learned of, so at any time the two are at most one epoch apart.         *)
(***************************************************************************)
EXTENDS Integers

CONSTANT FIRST      \* the epoch both start in

VARIABLES
    sendEpoch,      \* epoch the sender protects new records with
    knownEpoch      \* newest epoch the receiver holds the KeyUpdate for

vars == <<sendEpoch, knownEpoch>>

Init == sendEpoch = FIRST /\ knownEpoch = FIRST

Learn == /\ knownEpoch = sendEpoch
         /\ knownEpoch' = knownEpoch + 1
         /\ UNCHANGED sendEpoch

Switch == /\ sendEpoch < knownEpoch
          /\ sendEpoch' = sendEpoch + 1
          /\ UNCHANGED knownEpoch

Next == Learn \/ Switch

Spec == Init /\ [][Next]_vars
=============================================================================
