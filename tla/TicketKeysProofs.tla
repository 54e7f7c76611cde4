-------------------------- MODULE TicketKeysProofs --------------------------
(***************************************************************************)
(* The ticket keys for every number of threads, every key lifetime, every  *)
(* set of hints and every sequence of calls.                               *)
(*                                                                         *)
(* All rest on when a key may be overwritten.  For the hints: a call seals *)
(* only while the hint is short enough (Permitted), so the expiraries are  *)
(* always such a hint apart (Gap) and one key is spent before the other is *)
(* too short-lived to seal with; and whoever is about to seal, and every   *)
(* ticket that is still fresh, has a key that is not spent (Sealing,       *)
(* Safe).  For the expiraries: a slot that still holds the key of a ticket *)
(* expires a lifetime after the sealing at the latest (Aged).              *)
(***************************************************************************)
EXTENDS TicketKeys, TLAPS

(* The hints with which tickets are sealed: two of them, the same or not,   *)
(* together are shorter than a key lifetime.                                *)
SealHints == {h \in HINTS : 2 * h < KEY_LIFETIME}

SealSteps == {"clock", "test0", "test1", "choose", "publish", "seal"}
OpenSteps == {"name", "open"}

(* Before the set up there is no ticket, and nobody is past it.             *)
NotSetUp ==
  expirary[0] = 0 =>
    /\ expirary[1] = 0
    /\ tickets = {}
    /\ \A t \in Threads : call[t].ticket = NoTicket /\ ~At(t, "open")
    /\ \A t \in Threads : call[t].pc \in Outcomes \cup {"setup"}

Named == expirary[0] # 0 => name # 0

Roles ==
  \A t \in Threads : /\ call[t].pc \in SealSteps => call[t].ticket = NoTicket
                     /\ call[t].pc \in OpenSteps => call[t].ticket # NoTicket

(* What needs nothing of the key lifetime.                                  *)
Core == TypeOK /\ NotSetUp /\ Named /\ Roles

(* From DefTicketHintTooLarge to the end of the call the hint stays one     *)
(* that lets a ticket be sealed.                                            *)
ToSeal(t) == call[t].pc \in SealSteps \/ (At(t, "setup") /\ call[t].ticket = NoTicket)

Permitted == \A t \in Threads : ToSeal(t) => hint \in SealHints

Gap ==
  expirary[0] # 0 =>
    \/ \A h \in SealHints : expirary[0] + h <= expirary[1]
    \/ \A h \in SealHints : expirary[1] + h <= expirary[0]

(* The thread that holds the mutex replaces a key that was spent, because   *)
(* the other one was too short-lived.                                       *)
Replacing ==
  \A t \in Threads :
    At(t, "publish") =>
      /\ expirary[call[t].idx] < call[t].now
      /\ \E h \in SealHints : expirary[1 - call[t].idx] < call[t].now + h

Times ==
  \A t \in Threads :
    /\ call[t].issued <= clock
    /\ call[t].pc \in {"test0", "test1", "publish"} => call[t].issued <= call[t].now

Sealing ==
  \A t \in Threads :
    At(t, "seal") => expirary[call[t].idx] >= call[t].issued + hint

Safe(ticket) ==
  ticket # NoTicket /\ clock < ticket.issued + ticket.hint =>
    /\ ticket.name = name
    /\ ticket.key = key[ticket.idx]
    /\ expirary[ticket.idx] >= ticket.issued + ticket.hint

AllSafe == /\ \A ticket \in tickets : Safe(ticket)
           /\ \A t \in Threads : Safe(call[t].ticket)

IndInv == /\ Core /\ Permitted /\ KeyAvailable
          /\ Gap /\ Replacing /\ Times /\ Sealing /\ AllSafe

-----------------------------------------------------------------------------
(* The core.                                                                *)

(* Updating a call keeps its type.                                          *)
LEMMA CallUpdate ==
  ASSUME NEW r \in Call, NEW p \in Outcomes \cup Steps
  PROVE  /\ \A x \in Time : [r EXCEPT !.pc = p, !.issued = x] \in Call
         /\ \A x \in Time : [r EXCEPT !.pc = p, !.now = x] \in Call
         /\ \A x \in Index : [r EXCEPT !.pc = p, !.idx = x] \in Call
         /\ \A x \in {NoTicket} \cup Ticket : [r EXCEPT !.pc = p, !.ticket = x] \in Call
BY DEF Call

(* What a call that seals carries is no ticket.                             *)
LEMMA NoTicketHeld == NoTicket \notin Ticket
BY DEF NoTicket, Ticket, Draws

(* The core holds before the context is set up.                             *)
LEMMA InitCore == Init => Core
<1> SUFFICES ASSUME Init PROVE Core
  OBVIOUS
<1> USE LifetimeAssumption, HintsAssumption, BoundsAssumption
<1>1. TypeOK
  BY DEF Init, TypeOK, Returned, Call, Outcomes, Steps, Index, Time, At
<1>2. NotSetUp /\ Named /\ Roles
  BY DEF Init, NotSetUp, Named, Roles, Returned, Outcomes, SealSteps, OpenSteps, At, Index
<1> QED
  BY <1>1, <1>2 DEF Core

(* A new hint leaves the keys and the calls alone.                          *)
LEMMA SetTicketHintCore ==
  ASSUME Core, NEW h \in HINTS, SetTicketHint(h)
  PROVE  Core'
<1> USE LifetimeAssumption, HintsAssumption, BoundsAssumption
<1>1. TypeOK'
  BY DEF Core, SetTicketHint, TypeOK, At
<1>2. NotSetUp' /\ Named' /\ Roles'
  BY DEF Core, NotSetUp, Named, Roles, SetTicketHint, TypeOK, At
<1> QED
  BY <1>1, <1>2 DEF Core

(* A call to seal passes the set up only when the context has been set up.  *)
LEMMA EnterSealCore ==
  ASSUME Core, NEW t \in Threads, EnterSeal(t)
  PROVE  Core'
<1> USE LifetimeAssumption, HintsAssumption, BoundsAssumption
<1>1. TypeOK'
  <2>1. call' = [call EXCEPT ![t] = [Returned("OK") EXCEPT !.pc = IF expirary[0] = 0 THEN "setup" ELSE "clock",
                                        !.issued = clock]]
    BY DEF EnterSeal
  <2>2. [Returned("OK") EXCEPT !.pc = IF expirary[0] = 0 THEN "setup" ELSE "clock",
                                        !.issued = clock] \in Call
    <3>1. Returned("OK") \in Call
      BY DEF Returned, Call, Outcomes, Time, Index
    <3> QED
      BY <3>1, CallUpdate DEF Core, TypeOK, Steps
  <2>3. call' \in [Threads -> Call]
    BY <2>1, <2>2 DEF Core, TypeOK
  <2>4. /\ \A u \in Threads : u # t => call'[u] = call[u]
        /\ call[t].pc # "publish"
        /\ call'[t].pc # "publish"
    BY <2>1 DEF Core, EnterSeal, TypeOK, Call, At, Idle, Outcomes, Returned
  <2>5. {u \in Threads : At(u, "publish")}' = {u \in Threads : At(u, "publish")}
    BY <2>4 DEF At
  <2>6. \A u \in lock : call'[u] = call[u]
    BY <2>4 DEF Core, TypeOK, At
  <2> QED
    BY <2>3, <2>5, <2>6 DEF Core, EnterSeal, TypeOK
<1>2. NotSetUp' /\ Named' /\ Roles'
  BY DEF Core, NotSetUp, Named, Roles, OpenSteps, EnterSeal, TypeOK, Returned, At
<1> QED
  BY <1>1, <1>2 DEF Core

(* A call to open does too, and carries a ticket that a client holds.       *)
LEMMA EnterOpenCore ==
  ASSUME Core, NEW t \in Threads, NEW ticket \in tickets, EnterOpen(t, ticket)
  PROVE  Core'
<1> USE LifetimeAssumption, HintsAssumption, BoundsAssumption
<1>1. TypeOK'
  <2>1. call' = [call EXCEPT ![t] = [Returned("OK") EXCEPT !.pc = IF expirary[0] = 0 THEN "setup" ELSE "name",
                                        !.ticket = ticket]]
    BY DEF EnterOpen
  <2>2. [Returned("OK") EXCEPT !.pc = IF expirary[0] = 0 THEN "setup" ELSE "name",
                                        !.ticket = ticket] \in Call
    <3>1. Returned("OK") \in Call
      BY DEF Returned, Call, Outcomes, Time, Index
    <3> QED
      BY <3>1, CallUpdate DEF Core, TypeOK, Steps
  <2>3. call' \in [Threads -> Call]
    BY <2>1, <2>2 DEF Core, TypeOK
  <2>4. /\ \A u \in Threads : u # t => call'[u] = call[u]
        /\ call[t].pc # "publish"
        /\ call'[t].pc # "publish"
    BY <2>1 DEF Core, EnterOpen, TypeOK, Call, At, Idle, Outcomes, Returned
  <2>5. {u \in Threads : At(u, "publish")}' = {u \in Threads : At(u, "publish")}
    BY <2>4 DEF At
  <2>6. \A u \in lock : call'[u] = call[u]
    BY <2>4 DEF Core, TypeOK, At
  <2> QED
    BY <2>3, <2>5, <2>6 DEF Core, EnterOpen, TypeOK
<1>2. NotSetUp' /\ Named' /\ Roles'
  BY DEF Core, NotSetUp, Named, Roles, SealSteps, EnterOpen, TypeOK, Ticket,
     NoTicket
<1> QED
  BY <1>1, <1>2 DEF Core

(* The set up draws the name before it writes the expirary of key 0.        *)
LEMMA SetupCore ==
  ASSUME Core, NEW t \in Threads, Setup(t)
  PROVE  Core'
<1> USE LifetimeAssumption, HintsAssumption, BoundsAssumption
<1>1. TypeOK'
  <2>1. call' \in [Threads -> Call] /\ call'[t].pc # "publish"
    <3>1. AfterSetup(t) \in [Threads -> Call] /\ AfterSetup(t)[t].pc # "publish"
      BY DEF Core, TypeOK, AfterSetup, Call, Steps
    <3>2. Returned("RNG_ERROR") \in Call /\ Returned("RNG_ERROR").pc # "publish"
      BY DEF Returned, Call, Outcomes, Time, Index
    <3> QED
      BY <3>1, <3>2 DEF Core, TypeOK, Setup
  <2>2. /\ \A u \in Threads : u # t => call'[u] = call[u]
        /\ call[t].pc # "publish"
    BY DEF Core, TypeOK, Setup, AfterSetup, At
  <2>3. {u \in Threads : At(u, "publish")}' = {u \in Threads : At(u, "publish")}
    BY <2>1, <2>2 DEF At
  <2>4. /\ name' \in 0..MAX_DRAWS
        /\ draws' \in 0..MAX_DRAWS
        /\ key' \in [Index -> 0..draws']
        /\ expirary' \in [Index -> 0..(MAX_CLOCK + KEY_LIFETIME)]
    BY DEF Core, TypeOK, Setup, Index, Time
  <2> QED
    BY <2>1, <2>3, <2>4 DEF Core, TypeOK, Setup
<1>2. NotSetUp' /\ Named' /\ Roles'
  BY DEF Core, NotSetUp, Named, Roles, SealSteps, OpenSteps, Setup, TypeOK, Call,
     Outcomes, Index, Time, Returned, At, AfterSetup
<1> QED
  BY <1>1, <1>2 DEF Core

(* Reading the clock moves the caller on.                                   *)
LEMMA ReadClockCore ==
  ASSUME Core, NEW t \in Threads, ReadClock(t)
  PROVE  Core'
<1> USE LifetimeAssumption, HintsAssumption, BoundsAssumption
<1>1. TypeOK'
  <2>1. call' = [call EXCEPT ![t] = [call[t] EXCEPT !.pc = "test0", !.now = clock]]
    BY DEF ReadClock
  <2>2. [call[t] EXCEPT !.pc = "test0", !.now = clock] \in Call
    <3>1. call[t] \in Call /\ clock \in Time /\ "test0" \in Outcomes \cup Steps
      BY DEF Core, TypeOK, Steps
    <3> QED  BY <3>1, CallUpdate
  <2>3. call' \in [Threads -> Call]
    BY <2>1, <2>2 DEF Core, TypeOK
  <2>4. /\ \A u \in Threads : u # t => call'[u] = call[u]
        /\ call[t].pc # "publish"
        /\ call'[t].pc # "publish"
    BY <2>1 DEF Core, ReadClock, TypeOK, Call, At, Idle, Outcomes, Returned
  <2>5. {u \in Threads : At(u, "publish")}' = {u \in Threads : At(u, "publish")}
    BY <2>4 DEF At
  <2>6. \A u \in lock : call'[u] = call[u]
    BY <2>4 DEF Core, TypeOK, At
  <2> QED
    BY <2>3, <2>5, <2>6 DEF Core, ReadClock, TypeOK
<1>2. NotSetUp' /\ Named' /\ Roles'
  BY DEF Core, NotSetUp, Named, Roles, SealSteps, OpenSteps, ReadClock, TypeOK,
     Outcomes, At
<1> QED
  BY <1>1, <1>2 DEF Core

(* The unlocked test of the primary key moves the caller on.                *)
LEMMA TestPrimaryCore ==
  ASSUME Core, NEW t \in Threads, TestPrimary(t)
  PROVE  Core'
<1> USE LifetimeAssumption, HintsAssumption, BoundsAssumption
<1>1. TypeOK'
  <2>1. call' = [call EXCEPT ![t] = [call[t] EXCEPT !.pc = IF expirary[0] > call[t].now + hint THEN "seal"
                                ELSE "test1", !.idx = 0]]
    BY DEF TestPrimary
  <2>2. [call[t] EXCEPT !.pc = IF expirary[0] > call[t].now + hint THEN "seal"
                                ELSE "test1", !.idx = 0] \in Call
    <3> DEFINE p == IF expirary[0] > call[t].now + hint THEN "seal" ELSE "test1"
    <3>1. call[t] \in Call /\ 0 \in Index
      BY DEF Core, TypeOK, Index
    <3>2. p \in Outcomes \cup Steps
      BY DEF Steps
    <3> HIDE DEF p
    <3>3. [call[t] EXCEPT !.pc = p, !.idx = 0] \in Call
      BY <3>1, <3>2, CallUpdate
    <3> QED  BY <3>3 DEF p
  <2>3. call' \in [Threads -> Call]
    BY <2>1, <2>2 DEF Core, TypeOK
  <2>4. /\ \A u \in Threads : u # t => call'[u] = call[u]
        /\ call[t].pc # "publish"
        /\ call'[t].pc # "publish"
    BY <2>1 DEF Core, TestPrimary, TypeOK, Call, At, Idle, Outcomes, Returned
  <2>5. {u \in Threads : At(u, "publish")}' = {u \in Threads : At(u, "publish")}
    BY <2>4 DEF At
  <2>6. \A u \in lock : call'[u] = call[u]
    BY <2>4 DEF Core, TypeOK, At
  <2> QED
    BY <2>3, <2>5, <2>6 DEF Core, TestPrimary, TypeOK
<1>2. NotSetUp' /\ Named' /\ Roles'
  BY DEF Core, NotSetUp, Named, Roles, SealSteps, OpenSteps, TestPrimary, TypeOK,
     Outcomes, At
<1> QED
  BY <1>1, <1>2 DEF Core

(* The unlocked test of the other key moves the caller on.                  *)
LEMMA TestSecondaryCore ==
  ASSUME Core, NEW t \in Threads, TestSecondary(t)
  PROVE  Core'
<1> USE LifetimeAssumption, HintsAssumption, BoundsAssumption
<1>1. TypeOK'
  <2>1. call' = [call EXCEPT ![t] = [call[t] EXCEPT !.pc = IF expirary[1] > call[t].now + hint THEN "seal"
                                ELSE "choose", !.idx = 1]]
    BY DEF TestSecondary
  <2>2. [call[t] EXCEPT !.pc = IF expirary[1] > call[t].now + hint THEN "seal"
                                ELSE "choose", !.idx = 1] \in Call
    <3> DEFINE p == IF expirary[1] > call[t].now + hint THEN "seal" ELSE "choose"
    <3>1. call[t] \in Call /\ 1 \in Index
      BY DEF Core, TypeOK, Index
    <3>2. p \in Outcomes \cup Steps
      BY DEF Steps
    <3> HIDE DEF p
    <3>3. [call[t] EXCEPT !.pc = p, !.idx = 1] \in Call
      BY <3>1, <3>2, CallUpdate
    <3> QED  BY <3>3 DEF p
  <2>3. call' \in [Threads -> Call]
    BY <2>1, <2>2 DEF Core, TypeOK
  <2>4. /\ \A u \in Threads : u # t => call'[u] = call[u]
        /\ call[t].pc # "publish"
        /\ call'[t].pc # "publish"
    BY <2>1 DEF Core, TestSecondary, TypeOK, Call, At, Idle, Outcomes, Returned
  <2>5. {u \in Threads : At(u, "publish")}' = {u \in Threads : At(u, "publish")}
    BY <2>4 DEF At
  <2>6. \A u \in lock : call'[u] = call[u]
    BY <2>4 DEF Core, TypeOK, At
  <2> QED
    BY <2>3, <2>5, <2>6 DEF Core, TestSecondary, TypeOK
<1>2. NotSetUp' /\ Named' /\ Roles'
  BY DEF Core, NotSetUp, Named, Roles, SealSteps, OpenSteps, TestSecondary,
     TypeOK, Outcomes, At
<1> QED
  BY <1>1, <1>2 DEF Core

(* Choosing a key that is there, or none, leaves the mutex free.            *)
LEMMA ChooseKeptCore ==
  ASSUME Core, NEW t \in Threads, ChooseKept(t)
  PROVE  Core'
<1> USE LifetimeAssumption, HintsAssumption, BoundsAssumption
<1>a. PICK r \in Call :
        /\ call' = [call EXCEPT ![t] = r]
        /\ r.ticket = NoTicket
        /\ r.pc \in {"seal", "BAD_STATE"}
  <2>1. ASSUME NEW i \in Index
        PROVE  /\ [call[t] EXCEPT !.pc = "seal", !.idx = i] \in Call
               /\ [call[t] EXCEPT !.pc = "seal", !.idx = i].ticket = NoTicket
               /\ [call[t] EXCEPT !.pc = "seal", !.idx = i].pc = "seal"
    <3>1. call[t] \in Call /\ "seal" \in Outcomes \cup Steps
      BY DEF Core, TypeOK, Steps
    <3>2. call[t].ticket = NoTicket
      BY DEF Core, Roles, ChooseKept, At, SealSteps
    <3>3. [call[t] EXCEPT !.pc = "seal", !.idx = i] \in Call
      BY <2>1, <3>1, CallUpdate
    <3> QED  BY <3>1, <3>2, <3>3 DEF Call
  <2>2. /\ Returned("BAD_STATE") \in Call
        /\ Returned("BAD_STATE").ticket = NoTicket
        /\ Returned("BAD_STATE").pc = "BAD_STATE"
    BY DEF Returned, Call, Outcomes, Time, Index
  <2>3. 0 \in Index /\ 1 \in Index
    BY DEF Index
  <2> QED
    BY <2>1, <2>2, <2>3 DEF ChooseKept
<1>b. /\ At(t, "choose")
      /\ UNCHANGED <<name, key, expirary, lock, hint, draws, clock, tickets>>
  BY DEF ChooseKept
<1>1. TypeOK'
  <2>1. call' \in [Threads -> Call]
    BY <1>a DEF Core, TypeOK
  <2>2. /\ \A u \in Threads : u # t => call'[u] = call[u]
        /\ call[t].pc # "publish"
        /\ call'[t].pc # "publish"
    BY <1>a, <1>b DEF Core, TypeOK, At
  <2>3. {u \in Threads : At(u, "publish")}' = {u \in Threads : At(u, "publish")}
    BY <2>2 DEF At
  <2>4. \A u \in lock : call'[u] = call[u]
    BY <2>2 DEF Core, TypeOK, At
  <2> QED
    BY <1>b, <2>1, <2>3, <2>4 DEF Core, TypeOK
<1>2. NotSetUp' /\ Named' /\ Roles'
  BY <1>a, <1>b DEF Core, NotSetUp, Named, Roles, SealSteps, OpenSteps, TypeOK,
     Outcomes, At
<1> QED
  BY <1>1, <1>2 DEF Core

(* The thread that draws a key takes the mutex, and its key is the last drawn.*)
LEMMA ChooseNewCore ==
  ASSUME Core, NEW t \in Threads, ChooseNew(t)
  PROVE  Core'
<1> USE LifetimeAssumption, HintsAssumption, BoundsAssumption
<1>1. TypeOK'
  BY DEF Core, ChooseNew, TypeOK, Call, Steps, Outcomes, Index, Time, Returned, At
<1>2. NotSetUp' /\ Named' /\ Roles'
  BY DEF Core, NotSetUp, Named, Roles, SealSteps, OpenSteps, ChooseNew, TypeOK,
     Call, Outcomes, Returned, At
<1> QED
  BY <1>1, <1>2 DEF Core

(* The thread that writes the new expirary gives the mutex back.            *)
LEMMA PublishCore ==
  ASSUME Core, NEW t \in Threads, Publish(t)
  PROVE  Core'
<1> USE LifetimeAssumption, HintsAssumption, BoundsAssumption
<1>1. TypeOK'
  BY DEF Core, Publish, TypeOK, Call, Steps, Time, At
<1>2. NotSetUp' /\ Named' /\ Roles'
  BY DEF Core, NotSetUp, Named, Roles, SealSteps, OpenSteps, Publish, TypeOK,
     Call, Outcomes, Time, At
<1> QED
  BY <1>1, <1>2 DEF Core

(* A ticket is sealed after the set up, so it has a name.                   *)
LEMMA SealCore ==
  ASSUME Core, NEW t \in Threads, Seal(t)
  PROVE  Core'
<1> USE LifetimeAssumption, HintsAssumption, BoundsAssumption
<1>1. TypeOK'
  BY DEF Core, NotSetUp, Named, Seal, TypeOK, Call, Ticket, Outcomes, Index, Time,
     Draws, Returned, At
<1>2. NotSetUp' /\ Named' /\ Roles'
  BY DEF Core, NotSetUp, Named, Roles, OpenSteps, Seal, TypeOK, Outcomes,
     Returned, At
<1> QED
  BY <1>1, <1>2 DEF Core

(* A failed seal ends the call.                                             *)
LEMMA SealFailsCore ==
  ASSUME Core, NEW t \in Threads, SealFails(t)
  PROVE  Core'
<1> USE LifetimeAssumption, HintsAssumption, BoundsAssumption
<1>1. TypeOK'
  BY DEF Core, SealFails, TypeOK, Call, Outcomes, Index, Time, Returned, At
<1>2. NotSetUp' /\ Named' /\ Roles'
  BY DEF Core, NotSetUp, Named, Roles, OpenSteps, SealFails, TypeOK, Outcomes,
     Returned, At
<1> QED
  BY <1>1, <1>2 DEF Core

(* Checking the name moves the caller on or ends the call.                  *)
LEMMA CheckNameCore ==
  ASSUME Core, NEW t \in Threads, CheckName(t)
  PROVE  Core'
<1> USE LifetimeAssumption, HintsAssumption, BoundsAssumption
<1>1. TypeOK'
  BY DEF Core, CheckName, TypeOK, Call, Steps, Outcomes, Index, Time, Returned, At
<1>2. NotSetUp' /\ Named' /\ Roles'
  BY DEF Core, NotSetUp, Named, Roles, SealSteps, OpenSteps, CheckName, TypeOK,
     Returned, At
<1> QED
  BY <1>1, <1>2 DEF Core

(* Opening ends the call.                                                   *)
LEMMA OpenCore ==
  ASSUME Core, NEW t \in Threads, Open(t)
  PROVE  Core'
<1> USE LifetimeAssumption, HintsAssumption, BoundsAssumption
<1>1. TypeOK'
  BY DEF Core, Open, TypeOK, Call, Outcomes, Index, Time, Returned, At
<1>2. NotSetUp' /\ Named' /\ Roles'
  BY DEF Core, NotSetUp, Named, Roles, OpenSteps, Open, TypeOK, Returned
<1> QED
  BY <1>1, <1>2 DEF Core

(* Time leaves the context alone.                                           *)
LEMMA TickCore ==
  ASSUME Core, Tick
  PROVE  Core'
<1> USE LifetimeAssumption, HintsAssumption, BoundsAssumption
<1>1. TypeOK'
  BY DEF Core, Tick, TypeOK, Time, At
<1>2. NotSetUp' /\ Named' /\ Roles'
  BY DEF Core, NotSetUp, Named, Roles, Tick, TypeOK, At
<1> QED
  BY <1>1, <1>2 DEF Core

(* Clients may forget tickets.                                              *)
LEMMA ForgetCore ==
  ASSUME Core, NEW ticket \in tickets, Forget(ticket)
  PROVE  Core'
<1> USE LifetimeAssumption, HintsAssumption, BoundsAssumption
<1>1. TypeOK'
  BY DEF Core, Forget, TypeOK, At
<1>2. NotSetUp' /\ Named' /\ Roles'
  BY DEF Core, NotSetUp, Named, Roles, Forget, TypeOK
<1> QED
  BY <1>1, <1>2 DEF Core

(* Every step keeps the core, whatever the lifetime of a key.               *)
LEMMA StepCore == Core /\ [Next]_vars => Core'
<1> SUFFICES ASSUME Core, [Next]_vars PROVE Core'
  OBVIOUS
<1>1. CASE \E h \in HINTS : SetTicketHint(h)
  BY <1>1, SetTicketHintCore
<1>2. ASSUME NEW t \in Threads, DefTicketEncCb(t) PROVE Core'
  BY <1>2, EnterSealCore, EnterOpenCore, SetupCore, ReadClockCore, TestPrimaryCore,
     TestSecondaryCore, ChooseKeptCore, ChooseNewCore, PublishCore,
     SealCore, SealFailsCore, CheckNameCore, OpenCore
     DEF DefTicketEncCb
<1>3. CASE Tick
  BY <1>3, TickCore
<1>4. CASE \E ticket \in tickets : Forget(ticket)
  BY <1>4, ForgetCore
<1>5. CASE UNCHANGED vars
  BY <1>5 DEF vars, Core, TypeOK, NotSetUp, Named, Roles, At
<1> QED
  BY <1>1, <1>2, <1>3, <1>4, <1>5 DEF Next

-----------------------------------------------------------------------------
(* The invariant behind the hints.                                          *)

(* It holds before the context is set up.                                   *)
LEMMA InitInv == Init => IndInv
<1> SUFFICES ASSUME Init PROVE IndInv
  OBVIOUS
<1> USE LifetimeAssumption, HintsAssumption, BoundsAssumption
<1>1. Core
  BY InitCore
<1>2. KeyAvailable /\ Gap
  BY DEF Init, KeyAvailable, Gap, Returned, At, Index
<1>3. Replacing /\ Times /\ Sealing /\ AllSafe
  BY DEF Init, Replacing, Times, Sealing, AllSafe, Safe, Returned, At
<1>4. Permitted
  BY DEF Init, Permitted, ToSeal, SealSteps, Returned, At
<1> QED
  BY <1>1, <1>2, <1>3, <1>4 DEF IndInv

(* A call comes to seal only through EnterSeal, which asks for the hint.    *)
LEMMA CallPermitted ==
  ASSUME Core, Permitted, NEW t \in Threads, DefTicketEncCb(t)
  PROVE  Permitted'
<1>1. hint' = hint
  BY DEF DefTicketEncCb, EnterSeal, EnterOpen, Setup, ReadClock, TestPrimary,
     TestSecondary, ChooseKept, ChooseNew, Publish, Seal, SealFails, CheckName, Open
<1>2. CASE EnterSeal(t)
  <2>1. hint \in SealHints
    BY <1>2, LifetimeAssumption, HintsAssumption
       DEF EnterSeal, HintTooLarge, SealHints, Core, TypeOK
  <2> QED
    BY <1>1, <2>1 DEF Permitted
<1>3. CASE ~EnterSeal(t)
  <2>1. \A u \in Threads : u # t => call'[u] = call[u]
    BY DEF DefTicketEncCb, EnterSeal, EnterOpen, Setup, AfterSetup, ReadClock,
       TestPrimary, TestSecondary, ChooseKept, ChooseNew, Publish, Seal,
       SealFails, CheckName, Open, Core, TypeOK
  <2>2. ToSeal(t)' => ToSeal(t)
    <3>1. CASE \E ticket \in tickets : EnterOpen(t, ticket)
      <4>1. PICK ticket \in tickets : EnterOpen(t, ticket)
        BY <3>1
      <4>2. /\ call'[t].pc \in {"setup", "name"}
            /\ call'[t].ticket = ticket
        BY <4>1 DEF EnterOpen, Returned, Core, TypeOK
      <4>3. ticket # NoTicket
        BY NoTicketHeld DEF Core, TypeOK
      <4> QED
        BY <4>2, <4>3 DEF ToSeal, SealSteps
    <3>2. CASE Setup(t)
      <4>1. At(t, "setup")
        BY <3>2 DEF Setup
      <4>2. \/ call'[t].pc = IF call[t].ticket = NoTicket THEN "clock" ELSE "name"
            \/ call'[t].pc = "RNG_ERROR"
        BY <3>2 DEF Setup, AfterSetup, Returned, Core, TypeOK, Call
      <4> QED
        BY <4>1, <4>2 DEF ToSeal, At, SealSteps
    <3>3. CASE CheckName(t) \/ Open(t)
      <4>1. call'[t].pc \in Outcomes \cup {"open"}
        BY <3>3 DEF CheckName, Open, Returned, Outcomes, Core, TypeOK, Call
      <4> QED
        BY <4>1 DEF ToSeal, At, SealSteps, Outcomes
    <3>4. CASE \/ ReadClock(t) \/ TestPrimary(t) \/ TestSecondary(t) \/ ChooseKept(t)
               \/ ChooseNew(t) \/ Publish(t) \/ Seal(t) \/ SealFails(t)
      <4>1. call[t].pc \in SealSteps
        BY <3>4 DEF ReadClock, TestPrimary, TestSecondary, ChooseKept, ChooseNew,
           Publish, Seal, SealFails, At, SealSteps
      <4> QED
        BY <4>1 DEF ToSeal
    <3> QED
      BY <1>3, <3>1, <3>2, <3>3, <3>4 DEF DefTicketEncCb
  <2> QED
    BY <1>1, <2>1, <2>2 DEF Permitted, ToSeal, At
<1> QED
  BY <1>2, <1>3

(* A new hint changes the hint only while nobody is sealing.               *)
LEMMA SetTicketHintInv ==
  ASSUME IndInv, NEW h \in HINTS, SetTicketHint(h)
  PROVE  IndInv'
<1> USE LifetimeAssumption, HintsAssumption, BoundsAssumption
<1>1. Core'
  BY SetTicketHintCore DEF IndInv
<1>2. KeyAvailable'
  BY DEF IndInv, Core, KeyAvailable, SetTicketHint, TypeOK, At
<1>3. Gap'
  BY DEF IndInv, Core, Gap, SetTicketHint, TypeOK
<1>4. Replacing'
  BY DEF IndInv, Core, Replacing, SetTicketHint, TypeOK, At
<1>5. Times' /\ Sealing'
  BY DEF IndInv, Core, Times, Sealing, SetTicketHint, TypeOK, Outcomes, At, Idle
<1>6. AllSafe'
  BY DEF IndInv, Core, AllSafe, Safe, SetTicketHint, TypeOK
<1>7. Permitted'
  BY DEF IndInv, Permitted, ToSeal, At, SetTicketHint, Idle, Outcomes, SealSteps
<1> QED
  BY <1>1, <1>2, <1>3, <1>4, <1>5, <1>6, <1>7 DEF IndInv

(* A call enters past the set up only when the context has been set up.    *)
LEMMA EnterSealInv ==
  ASSUME IndInv, NEW t \in Threads, EnterSeal(t)
  PROVE  IndInv'
<1> USE LifetimeAssumption, HintsAssumption, BoundsAssumption
<1>1. Core'
  BY EnterSealCore DEF IndInv
<1>2. KeyAvailable'
  BY DEF IndInv, Core, KeyAvailable, EnterSeal, TypeOK, At
<1>3. Gap'
  BY DEF IndInv, Core, Gap, EnterSeal, TypeOK
<1>4. Replacing'
  BY DEF IndInv, Core, Replacing, EnterSeal, TypeOK, At
<1>5. Times' /\ Sealing'
  BY DEF IndInv, Core, Times, Sealing, EnterSeal, TypeOK, Time, At
<1>6. AllSafe'
  BY DEF IndInv, Core, AllSafe, Safe, EnterSeal, TypeOK, Returned
<1>7. Permitted'
  BY CallPermitted DEF IndInv, DefTicketEncCb
<1> QED
  BY <1>1, <1>2, <1>3, <1>4, <1>5, <1>6, <1>7 DEF IndInv

(* The same for a call with a ticket, which is as safe as the one it presents. *)
LEMMA EnterOpenInv ==
  ASSUME IndInv, NEW t \in Threads, NEW ticket \in tickets, EnterOpen(t, ticket)
  PROVE  IndInv'
<1> USE LifetimeAssumption, HintsAssumption, BoundsAssumption
<1>1. Core'
  BY EnterOpenCore DEF IndInv
<1>2. KeyAvailable'
  BY DEF IndInv, Core, KeyAvailable, EnterOpen, TypeOK, At
<1>3. Gap'
  BY DEF IndInv, Core, Gap, EnterOpen, TypeOK
<1>4. Replacing'
  BY DEF IndInv, Core, Replacing, EnterOpen, TypeOK, At
<1>5. Times' /\ Sealing'
  BY DEF IndInv, Core, Times, Sealing, EnterOpen, TypeOK, Time, Returned, At
<1>6. AllSafe'
  BY DEF IndInv, Core, AllSafe, Safe, EnterOpen, TypeOK
<1>7. Permitted'
  BY CallPermitted DEF IndInv, DefTicketEncCb
<1> QED
  BY <1>1, <1>2, <1>3, <1>4, <1>5, <1>6, <1>7 DEF IndInv

(* The set up draws the name once: afterwards the expirary of key 0 is not 0. *)
LEMMA SetupInv ==
  ASSUME IndInv, NEW t \in Threads, Setup(t)
  PROVE  IndInv'
<1> USE LifetimeAssumption, HintsAssumption, BoundsAssumption
<1>1. Core'
  BY SetupCore DEF IndInv
<1>2. KeyAvailable'
  BY DEF IndInv, Core, KeyAvailable, Setup, TypeOK, Call, Returned, At, AfterSetup
<1>3. Gap'
  BY DEF IndInv, Core, Gap, SealHints, NotSetUp, Setup, TypeOK, Index, Time
<1>4. Replacing'
  BY DEF IndInv, Core, Replacing, Setup, TypeOK, Call, Returned, At, AfterSetup
<1>5. Times' /\ Sealing'
  BY DEF IndInv, Core, Times, Sealing, Setup, TypeOK, Call, Time, Returned, At, AfterSetup
<1>6. AllSafe'
  BY DEF IndInv, Core, AllSafe, Safe, NotSetUp, Setup, TypeOK, Call, Returned, AfterSetup
<1>7. Permitted'
  BY CallPermitted DEF IndInv, DefTicketEncCb
<1> QED
  BY <1>1, <1>2, <1>3, <1>4, <1>5, <1>6, <1>7 DEF IndInv

(* The time a call works with is not before the call began.                *)
LEMMA ReadClockInv ==
  ASSUME IndInv, NEW t \in Threads, ReadClock(t)
  PROVE  IndInv'
<1> USE LifetimeAssumption, HintsAssumption, BoundsAssumption
<1>1. Core'
  BY ReadClockCore DEF IndInv
<1>2. KeyAvailable'
  BY DEF IndInv, Core, KeyAvailable, ReadClock, TypeOK, At
<1>3. Gap'
  BY DEF IndInv, Core, Gap, ReadClock, TypeOK
<1>4. Replacing'
  BY DEF IndInv, Core, Replacing, ReadClock, TypeOK, At
<1>5. Times' /\ Sealing'
  BY DEF IndInv, Core, Times, Sealing, ReadClock, TypeOK, At
<1>6. AllSafe'
  BY DEF IndInv, Core, AllSafe, Safe, ReadClock, TypeOK
<1>7. Permitted'
  BY CallPermitted DEF IndInv, DefTicketEncCb
<1> QED
  BY <1>1, <1>2, <1>3, <1>4, <1>5, <1>6, <1>7 DEF IndInv

(* The unlocked tests let a call seal with a key that outlives its ticket. *)
LEMMA TestPrimaryInv ==
  ASSUME IndInv, NEW t \in Threads, TestPrimary(t)
  PROVE  IndInv'
<1> USE LifetimeAssumption, HintsAssumption, BoundsAssumption
<1>1. Core'
  BY TestPrimaryCore DEF IndInv
<1>2. KeyAvailable'
  BY DEF IndInv, Core, KeyAvailable, TestPrimary, TypeOK, At
<1>3. Gap'
  BY DEF IndInv, Core, Gap, TestPrimary, TypeOK
<1>4. Replacing'
  BY DEF IndInv, Core, Replacing, TestPrimary, TypeOK, At
<1>5. Times' /\ Sealing'
  BY DEF IndInv, Core, Times, Sealing, TestPrimary, TypeOK, Call, Index, Time, At
<1>6. AllSafe'
  BY DEF IndInv, Core, AllSafe, Safe, TestPrimary, TypeOK
<1>7. Permitted'
  BY CallPermitted DEF IndInv, DefTicketEncCb
<1> QED
  BY <1>1, <1>2, <1>3, <1>4, <1>5, <1>6, <1>7 DEF IndInv

(* The same for the second key.                                            *)
LEMMA TestSecondaryInv ==
  ASSUME IndInv, NEW t \in Threads, TestSecondary(t)
  PROVE  IndInv'
<1> USE LifetimeAssumption, HintsAssumption, BoundsAssumption
<1>1. Core'
  BY TestSecondaryCore DEF IndInv
<1>2. KeyAvailable'
  BY DEF IndInv, Core, KeyAvailable, TestSecondary, TypeOK, At
<1>3. Gap'
  BY DEF IndInv, Core, Gap, TestSecondary, TypeOK
<1>4. Replacing'
  BY DEF IndInv, Core, Replacing, TestSecondary, TypeOK, At
<1>5. Times' /\ Sealing'
  BY DEF IndInv, Core, Times, Sealing, TestSecondary, TypeOK, Call, Index, Time, At
<1>6. AllSafe'
  BY DEF IndInv, Core, AllSafe, Safe, TestSecondary, TypeOK
<1>7. Permitted'
  BY CallPermitted DEF IndInv, DefTicketEncCb
<1> QED
  BY <1>1, <1>2, <1>3, <1>4, <1>5, <1>6, <1>7 DEF IndInv

(* The gap between the expiraries rules out that there is no key; the       *)
(* locked test, with the clock read again, is at least as strict.           *)
LEMMA ChooseKeptInv ==
  ASSUME IndInv, NEW t \in Threads, ChooseKept(t)
  PROVE  IndInv'
<1> USE LifetimeAssumption, HintsAssumption, BoundsAssumption
<1>0. \E i \in Index : Outlives(i)
  <2>1. hint \in SealHints /\ At(t, "choose")
    BY DEF IndInv, Permitted, ToSeal, SealSteps, ChooseKept, At
  <2>2. expirary[0] # 0
    BY <2>1 DEF IndInv, Core, NotSetUp, At, Outcomes
  <2>3. expirary[0] + hint <= expirary[1] \/ expirary[1] + hint <= expirary[0]
    BY <2>1, <2>2 DEF IndInv, Gap
  <2>4. /\ expirary[0] \in Int /\ expirary[1] \in Int
        /\ clock \in Int /\ hint \in Int
    BY DEF IndInv, Core, TypeOK, Index, Time
  <2>5. ASSUME \A i \in Index : ~Outlives(i) PROVE Spent # {}
    BY <2>3, <2>4, <2>5 DEF Outlives, Spent, Index
  <2> QED
    BY <2>5 DEF ChooseKept
<1>a. PICK i \in Index :
        /\ Outlives(i)
        /\ call' = [call EXCEPT ![t] = [@ EXCEPT !.pc = "seal", !.idx = i]]
  BY <1>0 DEF ChooseKept, Index
<1>b. /\ At(t, "choose")
      /\ UNCHANGED <<name, key, expirary, lock, hint, draws, clock, tickets>>
  BY DEF ChooseKept
<1>1. Core'
  BY ChooseKeptCore DEF IndInv
<1>2. KeyAvailable'
  BY <1>a DEF IndInv, Core, KeyAvailable, TypeOK, At
<1>3. Gap'
  BY <1>b DEF IndInv, Core, Gap, TypeOK
<1>4. Replacing'
  BY <1>a, <1>b DEF IndInv, Core, Replacing, TypeOK, At
<1>5. Times' /\ Sealing'
  BY <1>a, <1>b DEF IndInv, Core, Times, Sealing, TypeOK, Call, Time, At, Outlives
<1>6. AllSafe'
  BY <1>a, <1>b DEF IndInv, Core, AllSafe, Safe, TypeOK
<1>7. Permitted'
  BY CallPermitted DEF IndInv, DefTicketEncCb
<1> QED
  BY <1>1, <1>2, <1>3, <1>4, <1>5, <1>6, <1>7 DEF IndInv

(* Only a spent key is overwritten, and no fresh ticket was sealed with one. *)
LEMMA ChooseNewInv ==
  ASSUME IndInv, NEW t \in Threads, ChooseNew(t)
  PROVE  IndInv'
<1> USE LifetimeAssumption, HintsAssumption, BoundsAssumption
<1>1. Core'
  BY ChooseNewCore DEF IndInv
<1>2. KeyAvailable'
  BY DEF IndInv, Core, KeyAvailable, ChooseNew, TypeOK, Call, Returned, At
<1>3. Gap'
  BY DEF IndInv, Core, Gap, ChooseNew, TypeOK
<1>4. Replacing'
  <2>1. hint \in SealHints
    BY DEF IndInv, Permitted, ToSeal, SealSteps, ChooseNew, At
  <2>2. /\ expirary' = expirary
        /\ \A u \in Threads : u # t => call'[u] = call[u]
    BY DEF ChooseNew, IndInv, Core, TypeOK
  <2>3. ASSUME At(t, "publish")'
        PROVE  /\ expirary[call'[t].idx] < call'[t].now
               /\ expirary[1 - call'[t].idx] < call'[t].now + hint
    <3>1. PICK i \in Spent : call' = [call EXCEPT ![t].pc = "publish", ![t].idx = i,
                                                 ![t].now = clock]
      <4>1. PICK i \in Spent :
              \/ call' = [call EXCEPT ![t].pc = "publish", ![t].idx = i, ![t].now = clock]
              \/ call' = [call EXCEPT ![t] = Returned("REJECT")]
        BY DEF ChooseNew
      <4>2. call' # [call EXCEPT ![t] = Returned("REJECT")]
        <5>1. [call EXCEPT ![t] = Returned("REJECT")][t].pc # "publish"
          BY DEF Returned, IndInv, Core, TypeOK
        <5> QED
          BY <2>3, <5>1 DEF At
      <4> QED
        BY <4>1, <4>2
    <3>2. call'[t].idx = i /\ call'[t].now = clock
      BY <3>1 DEF IndInv, Core, TypeOK, Call
    <3>3. i \in Index /\ 1 - i \in Index /\ expirary[i] < clock
      BY DEF Spent, Index
    <3>4. ~Outlives(1 - i)
      BY <3>3 DEF ChooseNew
    <3>5. expirary[1 - i] \in Int /\ clock \in Int /\ hint \in Int
      BY <3>3 DEF IndInv, Core, TypeOK, Time
    <3> QED
      BY <3>2, <3>3, <3>4, <3>5 DEF Outlives
  <2> QED
    BY <2>1, <2>2, <2>3 DEF IndInv, Replacing, At
<1>5. Times' /\ Sealing'
  BY DEF IndInv, Core, Times, Sealing, ChooseNew, TypeOK, Call, Ticket, Time, Returned, At
<1>6. AllSafe'
  BY DEF IndInv, Core, AllSafe, Safe, ChooseNew, TypeOK, Call, Ticket, Time, Returned, Spent
<1>7. Permitted'
  BY CallPermitted DEF IndInv, DefTicketEncCb
<1> QED
  BY <1>1, <1>2, <1>3, <1>4, <1>5, <1>6, <1>7 DEF IndInv

(* The new expirary is a hint and more after the other one.                *)
LEMMA PublishInv ==
  ASSUME IndInv, NEW t \in Threads, Publish(t)
  PROVE  IndInv'
<1> USE LifetimeAssumption, HintsAssumption, BoundsAssumption
<1>1. Core'
  BY PublishCore DEF IndInv
<1>2. KeyAvailable'
  BY DEF IndInv, Core, KeyAvailable, Publish, TypeOK, At
<1>3. Gap'
  <2> DEFINE i == call[t].idx
  <2>1. /\ At(t, "publish") /\ i \in Index
        /\ call[t].now \in Nat /\ KEY_LIFETIME \in Nat
    BY DEF Publish, IndInv, Core, TypeOK, Call, Time
  <2>2. PICK h \in SealHints : expirary[1 - i] < call[t].now + h
    BY <2>1 DEF IndInv, Replacing
  <2>3. expirary'[i] = call[t].now + KEY_LIFETIME /\ expirary'[1 - i] = expirary[1 - i]
    BY <2>1 DEF Publish, IndInv, Core, TypeOK, Index
  <2>4. expirary[1 - i] \in Nat
    BY <2>1 DEF IndInv, Core, TypeOK, Index
  <2> HIDE DEF i
  <2>5. ASSUME NEW g \in SealHints PROVE expirary'[1 - i] + g <= expirary'[i]
    <3>1. /\ g \in Nat /\ h \in Nat
          /\ 2 * g < KEY_LIFETIME /\ 2 * h < KEY_LIFETIME
      BY DEF SealHints
    <3>2. g + h <= KEY_LIFETIME
      BY <2>1, <3>1
    <3> QED
      BY <2>1, <2>2, <2>3, <2>4, <3>1, <3>2
  <2> QED
    BY <2>1, <2>5 DEF Gap, Index
<1>4. Replacing'
  BY DEF IndInv, Core, Replacing, Publish, TypeOK, At
<1>5. Times' /\ Sealing'
  <2> DEFINE i == call[t].idx
  <2>1. At(t, "publish") /\ i \in Index /\ UNCHANGED <<hint, clock>>
    BY DEF Publish, IndInv, Core, TypeOK, Call
  <2>2. \A u \in Threads : /\ call'[u].idx = call[u].idx
                           /\ call'[u].issued = call[u].issued
                           /\ call'[u].now = call[u].now
                           /\ u # t => call'[u].pc = call[u].pc
    BY DEF Publish, IndInv, Core, TypeOK, Call
  <2>3. call'[t].pc = "seal"
    BY DEF Publish, IndInv, Core, TypeOK, Call
  <2>4. expirary' = [expirary EXCEPT ![i] = call[t].now + KEY_LIFETIME]
    BY DEF Publish
  <2>5. /\ \A u \in Threads : call[u].issued \in Nat /\ call[u].now \in Nat
        /\ \A u \in Threads : call[u].idx \in Index
        /\ \A j \in Index : expirary[j] \in Nat
        /\ hint \in Nat
    BY DEF IndInv, Core, TypeOK, Call, Time
  <2>6. call[t].issued <= call[t].now /\ expirary[i] < call[t].now
    BY <2>1 DEF IndInv, Times, Replacing, At
  <2>7. hint < KEY_LIFETIME
    <3>1. hint \in SealHints
      BY <2>1 DEF IndInv, Permitted, ToSeal, SealSteps, At
    <3> QED
      BY <2>5, <3>1 DEF SealHints
  <2>8. \A j \in Index : expirary'[j] >= expirary[j]
    BY <2>1, <2>4, <2>5, <2>6 DEF IndInv, Core, TypeOK
  <2>9. expirary'[i] >= call[t].issued + hint
    BY <2>1, <2>4, <2>5, <2>6, <2>7 DEF IndInv, Core, TypeOK
  <2>10. Times'
    BY <2>1, <2>2, <2>3 DEF IndInv, Times
  <2>11. ASSUME NEW u \in Threads, u # t, At(u, "seal")
         PROVE  expirary'[call[u].idx] >= call[u].issued + hint
    <3>1. expirary[call[u].idx] >= call[u].issued + hint
      BY <2>11 DEF IndInv, Sealing
    <3>2. expirary'[call[u].idx] >= expirary[call[u].idx]
      BY <2>5, <2>8
    <3>3. expirary'[call[u].idx] \in Nat
      BY <2>1, <2>4, <2>5 DEF IndInv, Core, TypeOK
    <3> QED
      BY <2>5, <3>1, <3>2, <3>3
  <2>12. Sealing'
    BY <2>1, <2>2, <2>9, <2>11 DEF Sealing, At
  <2> QED
    BY <2>10, <2>12
<1>6. AllSafe'
  BY DEF IndInv, Core, AllSafe, Safe, Replacing, Publish, TypeOK, Call, Ticket, Time
<1>7. Permitted'
  BY CallPermitted DEF IndInv, DefTicketEncCb
<1> QED
  BY <1>1, <1>2, <1>3, <1>4, <1>5, <1>6, <1>7 DEF IndInv

(* The key is still the one that was chosen, and outlives the ticket.      *)
LEMMA SealInv ==
  ASSUME IndInv, NEW t \in Threads, Seal(t)
  PROVE  IndInv'
<1> USE LifetimeAssumption, HintsAssumption, BoundsAssumption
<1>1. Core'
  BY SealCore DEF IndInv
<1>2. KeyAvailable'
  BY DEF IndInv, Core, KeyAvailable, Seal, TypeOK, Returned, At
<1>3. Gap'
  BY DEF IndInv, Core, Gap, Seal, TypeOK
<1>4. Replacing'
  BY DEF IndInv, Core, Replacing, Seal, TypeOK, Returned, At
<1>5. Times' /\ Sealing'
  BY DEF IndInv, Core, Times, Sealing, Seal, TypeOK, Time, Returned, At
<1>6. AllSafe'
  BY DEF IndInv, Core, AllSafe, Safe, Sealing, Seal, TypeOK, Returned
<1>7. Permitted'
  BY CallPermitted DEF IndInv, DefTicketEncCb
<1> QED
  BY <1>1, <1>2, <1>3, <1>4, <1>5, <1>6, <1>7 DEF IndInv

(* Opening a ticket changes the caller only.                               *)
LEMMA SealFailsInv ==
  ASSUME IndInv, NEW t \in Threads, SealFails(t)
  PROVE  IndInv'
<1> USE LifetimeAssumption, HintsAssumption, BoundsAssumption
<1>1. Core'
  BY SealFailsCore DEF IndInv
<1>2. KeyAvailable'
  BY DEF IndInv, Core, KeyAvailable, SealFails, TypeOK, Returned, At
<1>3. Gap'
  BY DEF IndInv, Core, Gap, SealFails, TypeOK
<1>4. Replacing'
  BY DEF IndInv, Core, Replacing, SealFails, TypeOK, Returned, At
<1>5. Times' /\ Sealing'
  BY DEF IndInv, Core, Times, Sealing, SealFails, TypeOK, Time, Returned, At
<1>6. AllSafe'
  BY DEF IndInv, Core, AllSafe, Safe, SealFails, TypeOK, Returned
<1>7. Permitted'
  BY CallPermitted DEF IndInv, DefTicketEncCb
<1> QED
  BY <1>1, <1>2, <1>3, <1>4, <1>5, <1>6, <1>7 DEF IndInv

(* Checking the name changes the caller only.                              *)
LEMMA CheckNameInv ==
  ASSUME IndInv, NEW t \in Threads, CheckName(t)
  PROVE  IndInv'
<1> USE LifetimeAssumption, HintsAssumption, BoundsAssumption
<1>1. Core'
  BY CheckNameCore DEF IndInv
<1>2. KeyAvailable'
  BY DEF IndInv, Core, KeyAvailable, CheckName, TypeOK, Returned, At
<1>3. Gap'
  BY DEF IndInv, Core, Gap, CheckName, TypeOK
<1>4. Replacing'
  BY DEF IndInv, Core, Replacing, CheckName, TypeOK, Returned, At
<1>5. Times' /\ Sealing'
  BY DEF IndInv, Core, Times, Sealing, CheckName, TypeOK, Time, Returned, At
<1>6. AllSafe'
  BY DEF IndInv, Core, AllSafe, Safe, CheckName, TypeOK, Returned
<1>7. Permitted'
  BY CallPermitted DEF IndInv, DefTicketEncCb
<1> QED
  BY <1>1, <1>2, <1>3, <1>4, <1>5, <1>6, <1>7 DEF IndInv

(* Opening a ticket changes the caller only.                               *)
LEMMA OpenInv ==
  ASSUME IndInv, NEW t \in Threads, Open(t)
  PROVE  IndInv'
<1> USE LifetimeAssumption, HintsAssumption, BoundsAssumption
<1>1. Core'
  BY OpenCore DEF IndInv
<1>2. KeyAvailable'
  BY DEF IndInv, Core, KeyAvailable, Open, TypeOK, Returned, At
<1>3. Gap'
  BY DEF IndInv, Core, Gap, Open, TypeOK
<1>4. Replacing'
  BY DEF IndInv, Core, Replacing, Open, TypeOK, Returned, At
<1>5. Times' /\ Sealing'
  BY DEF IndInv, Core, Times, Sealing, Open, TypeOK, Time, Returned, At
<1>6. AllSafe'
  BY DEF IndInv, Core, AllSafe, Safe, Open, TypeOK, Returned
<1>7. Permitted'
  BY CallPermitted DEF IndInv, DefTicketEncCb
<1> QED
  BY <1>1, <1>2, <1>3, <1>4, <1>5, <1>6, <1>7 DEF IndInv

(* As time passes tickets only stop being fresh.                           *)
LEMMA TickInv ==
  ASSUME IndInv, Tick
  PROVE  IndInv'
<1> USE LifetimeAssumption, HintsAssumption, BoundsAssumption
<1>1. Core'
  BY TickCore DEF IndInv
<1>2. KeyAvailable'
  BY DEF IndInv, Core, KeyAvailable, Tick, TypeOK, At
<1>3. Gap'
  BY DEF IndInv, Core, Gap, Tick, TypeOK
<1>4. Replacing'
  BY DEF IndInv, Core, Replacing, Tick, TypeOK, At
<1>5. Times' /\ Sealing'
  BY DEF IndInv, Core, Times, Sealing, Tick, TypeOK, Call, Time, At
<1>6. AllSafe'
  <2>1. \A ticket \in {NoTicket} \cup Ticket : Safe(ticket) => Safe(ticket)'
    <3>1. ASSUME NEW ticket \in Ticket, Safe(ticket) PROVE Safe(ticket)'
      <4>1. ticket.issued \in Time /\ ticket.hint \in HINTS
        BY DEF Ticket
      <4>2. ticket.hint \in Nat \ {0}
        BY <4>1, HintsAssumption, Zenon
      <4>3. ticket.issued \in Int /\ ticket.hint \in Int
        BY <4>1, <4>2 DEF Time
      <4>4. clock \in Int
        BY DEF IndInv, Core, TypeOK, Time
      <4> QED
        BY <3>1, <4>3, <4>4 DEF Safe, Tick
    <3> QED
      BY <3>1 DEF Safe
  <2> QED
    BY <2>1 DEF IndInv, Core, AllSafe, Tick, TypeOK, Call
<1>7. Permitted'
  BY DEF IndInv, Permitted, ToSeal, At, Tick
<1> QED
  BY <1>1, <1>2, <1>3, <1>4, <1>5, <1>6, <1>7 DEF IndInv

(* Fewer tickets are as safe.                                              *)
LEMMA ForgetInv ==
  ASSUME IndInv, NEW ticket \in tickets, Forget(ticket)
  PROVE  IndInv'
<1> USE LifetimeAssumption, HintsAssumption, BoundsAssumption
<1>1. Core'
  BY ForgetCore DEF IndInv
<1>2. KeyAvailable'
  BY DEF IndInv, Core, KeyAvailable, Forget, TypeOK, At
<1>3. Gap'
  BY DEF IndInv, Core, Gap, Forget, TypeOK
<1>4. Replacing'
  BY DEF IndInv, Core, Replacing, Forget, TypeOK, At
<1>5. Times' /\ Sealing'
  BY DEF IndInv, Core, Times, Sealing, Forget, TypeOK, At
<1>6. AllSafe'
  BY DEF IndInv, Core, AllSafe, Safe, Forget, TypeOK
<1>7. Permitted'
  BY DEF IndInv, Permitted, ToSeal, At, Forget
<1> QED
  BY <1>1, <1>2, <1>3, <1>4, <1>5, <1>6, <1>7 DEF IndInv

(* Every step keeps the invariant.                                          *)
LEMMA StepInv == IndInv /\ [Next]_vars => IndInv'
<1> SUFFICES ASSUME IndInv, [Next]_vars PROVE IndInv'
  OBVIOUS
<1>1. CASE \E h \in HINTS : SetTicketHint(h)
  BY <1>1, SetTicketHintInv
<1>2. ASSUME NEW t \in Threads, DefTicketEncCb(t) PROVE IndInv'
  BY <1>2, EnterSealInv, EnterOpenInv, SetupInv, ReadClockInv, TestPrimaryInv,
     TestSecondaryInv, ChooseKeptInv, ChooseNewInv, PublishInv,
     SealInv, SealFailsInv, CheckNameInv, OpenInv
     DEF DefTicketEncCb
<1>3. CASE Tick
  BY <1>3, TickInv
<1>4. CASE \E ticket \in tickets : Forget(ticket)
  BY <1>4, ForgetInv
<1>5. CASE UNCHANGED vars
  BY <1>5 DEF vars, IndInv, Core, TypeOK, KeyAvailable, Permitted, ToSeal, NotSetUp, Named,
     Roles, Gap, Replacing, Times, Sealing, AllSafe, Safe, At
<1> QED
  BY <1>1, <1>2, <1>3, <1>4, <1>5 DEF Next

-----------------------------------------------------------------------------
(* The invariant behind the expiraries: a ticket carries the number of its  *)
(* key, and as long as its slot still holds that key, the slot expires a    *)
(* key lifetime after the sealing at the latest.  Nothing here depends on   *)
(* how long a key lives.                                                    *)

(* A client holds the ticket, or a call carries it.                         *)
Held(ticket) == ticket \in tickets \/ \E t \in Threads : call[t].ticket = ticket

Ageing(ticket) ==
  /\ ticket.key <= draws
  /\ ticket.key = key[ticket.idx] =>
       /\ \/ expirary[ticket.idx] < clock
          \/ expirary[ticket.idx] <= ticket.sealed + KEY_LIFETIME
       /\ \A t \in Threads :
            At(t, "publish") /\ call[t].idx = ticket.idx => call[t].now <= ticket.sealed

(* No expirary is further away than a lifetime, and a slot without a        *)
(* complete key is spent.                                                   *)
Slots ==
  \A i \in Index : /\ expirary[i] <= clock + KEY_LIFETIME
                   /\ key[i] = 0 => expirary[i] < clock

Publishing == \A t \in Threads : At(t, "publish") => call[t].now <= clock /\ draws # 0

Aged == /\ Slots /\ Publishing
        /\ \A ticket \in Ticket : Held(ticket) => Ageing(ticket)

AgeInv == Core /\ Aged

(* The numbers of a ticket.                                                 *)
LEMMA TicketTypes ==
  ASSUME NEW ticket \in Ticket
  PROVE  /\ ticket.idx \in Index
         /\ ticket.key \in Nat
         /\ ticket.sealed \in Nat
<1>1. ticket.idx \in Index /\ ticket.key \in {0} \cup Draws /\ ticket.sealed \in Time
  BY DEF Ticket
<1> QED
  BY <1>1, BoundsAssumption DEF Draws, Time

(* The numbers of the context.                                              *)
LEMMA ContextTypes ==
  ASSUME Core
  PROVE  /\ \A i \in Index : key[i] \in Nat /\ expirary[i] \in Nat
         /\ draws \in Nat /\ clock \in Nat
         /\ \A i \in Index : key[i] <= draws
         /\ \A t \in Threads : call[t].now \in Nat /\ call[t].idx \in Index
<1> USE LifetimeAssumption, BoundsAssumption
<1>1. /\ \A i \in Index : key[i] \in 0..draws
      /\ \A i \in Index : expirary[i] \in 0..(MAX_CLOCK + KEY_LIFETIME)
      /\ draws \in 0..MAX_DRAWS /\ clock \in Time
  BY DEF Core, TypeOK
<1>2. \A t \in Threads : call[t].now \in Time /\ call[t].idx \in Index
  BY DEF Core, TypeOK, Call
<1> QED
  BY <1>1, <1>2 DEF Time

(* A step that leaves the keys, their expiraries and the clock alone, and   *)
(* in which no thread gets to the publishing of a key, keeps the age of     *)
(* every ticket.                                                            *)
LEMMA AgedKept ==
  ASSUME AgeInv, Core',
         UNCHANGED <<key, expirary, clock>>,
         draws' >= draws,
         tickets' \subseteq tickets,
         \A u \in Threads : call'[u].ticket \in {NoTicket, call[u].ticket} \cup tickets,
         \A u \in Threads : At(u, "publish")' => call'[u] = call[u]
  PROVE  Aged'
<1> USE LifetimeAssumption
<1>1. Slots' /\ Publishing'
  <2>1. draws # 0 => draws' # 0
    BY ContextTypes, Core' DEF AgeInv, Core, TypeOK
  <2> QED
    BY <2>1 DEF AgeInv, Aged, Slots, Publishing, At
<1>2. ASSUME NEW ticket \in Ticket, Ageing(ticket) PROVE Ageing(ticket)'
  <2>1. ticket.key <= draws => ticket.key <= draws'
    BY TicketTypes, ContextTypes, Core' DEF AgeInv, Core, TypeOK
  <2> QED
    BY <1>2, <2>1 DEF Ageing, At
<1>3. \A ticket \in Ticket : Held(ticket)' => Held(ticket)
  BY NoTicketHeld DEF Held
<1> QED
  BY <1>1, <1>2, <1>3 DEF AgeInv, Aged

(* Time only spends keys.                                                   *)
LEMMA TickAged ==
  ASSUME AgeInv, Tick
  PROVE  Aged'
<1> USE LifetimeAssumption
<1>0. clock' = clock + 1 /\ UNCHANGED <<key, expirary, call, draws, tickets>>
  BY DEF Tick
<1>1. Slots' /\ Publishing'
  BY <1>0, ContextTypes DEF AgeInv, Aged, Slots, Publishing, At
<1>2. ASSUME NEW ticket \in Ticket, Ageing(ticket) PROVE Ageing(ticket)'
  BY <1>0, <1>2, TicketTypes, ContextTypes DEF Ageing, At, AgeInv
<1>3. \A ticket \in Ticket : Held(ticket)' => Held(ticket)
  BY <1>0 DEF Held
<1> QED
  BY <1>1, <1>2, <1>3 DEF AgeInv, Aged

(* The set up finds no ticket anywhere.                                     *)
LEMMA SetupAged ==
  ASSUME AgeInv, Core', NEW t \in Threads, Setup(t)
  PROVE  Aged'
<1> USE LifetimeAssumption
<1>0. /\ \A u \in Threads : call'[u].ticket \in {NoTicket, call[u].ticket}
      /\ \A u \in Threads : At(u, "publish")' => call'[u] = call[u]
  BY DEF Setup, AfterSetup, Returned, At, AgeInv, Core, TypeOK, Call
<1>1. CASE UNCHANGED <<key, expirary>>
  <2>1. /\ draws' >= draws
        /\ UNCHANGED <<clock, tickets>>
    BY ContextTypes DEF Setup, AgeInv
  <2> QED
    BY <1>0, <1>1, <2>1, AgedKept
<1>2. CASE /\ expirary[0] = 0
           /\ key' = [key EXCEPT ![0] = draws']
           /\ expirary' = [expirary EXCEPT ![0] = clock + KEY_LIFETIME]
           /\ draws' = draws + 1
  <2>1. /\ tickets = {}
        /\ \A u \in Threads : call[u].ticket = NoTicket
    BY <1>2 DEF AgeInv, Core, NotSetUp
  <2>2. UNCHANGED <<clock, tickets>>
    BY DEF Setup
  <2>3. \A ticket \in Ticket : ~Held(ticket)'
    BY <1>0, <2>1, <2>2, NoTicketHeld DEF Held
  <2>4. \A i \in Index : /\ key'[i] = IF i = 0 THEN draws + 1 ELSE key[i]
                         /\ expirary'[i] = IF i = 0 THEN clock + KEY_LIFETIME ELSE expirary[i]
    BY <1>2 DEF AgeInv, Core, TypeOK
  <2>5. Slots'
    BY <2>2, <2>4, ContextTypes DEF AgeInv, Aged, Slots
  <2>6. Publishing'
    BY <1>0, <1>2, <2>2, ContextTypes DEF AgeInv, Aged, Publishing, At
  <2> QED
    BY <2>3, <2>5, <2>6 DEF Aged
<1> QED
  BY <1>1, <1>2 DEF Setup

(* A key is drawn for a spent slot, and no ticket carries its number; a     *)
(* failed draw leaves the slot spent.                                       *)
LEMMA ChooseNewAged ==
  ASSUME AgeInv, Core', NEW t \in Threads, ChooseNew(t)
  PROVE  Aged'
<1> USE LifetimeAssumption
<1>0. /\ UNCHANGED <<expirary, clock, tickets>>
      /\ lock = {}
      /\ \A u \in Threads : ~At(u, "publish")
  BY DEF ChooseNew, AgeInv, Core, TypeOK
<1>1. PICK i \in Index :
        /\ expirary[i] < clock
        /\ \/ /\ draws' = draws + 1
              /\ key' = [key EXCEPT ![i] = draws']
              /\ call' = [call EXCEPT ![t].pc = "publish", ![t].idx = i, ![t].now = clock]
           \/ /\ \E k \in {0, key[i]} : key' = [key EXCEPT ![i] = k]
              /\ call' = [call EXCEPT ![t] = Returned("REJECT")]
              /\ UNCHANGED draws
  BY DEF ChooseNew, Spent
<1>2. CASE /\ draws' = draws + 1
           /\ key' = [key EXCEPT ![i] = draws']
           /\ call' = [call EXCEPT ![t].pc = "publish", ![t].idx = i, ![t].now = clock]
  <2>1. \A j \in Index : key'[j] = IF j = i THEN draws + 1 ELSE key[j]
    BY <1>2 DEF AgeInv, Core, TypeOK
  <2>2. \A u \in Threads : /\ call'[u].ticket = call[u].ticket
                           /\ At(u, "publish")' => u = t
    BY <1>0, <1>2 DEF AgeInv, Core, TypeOK, Call, At
  <2>3. call'[t].now = clock /\ call'[t].idx = i
    BY <1>2 DEF AgeInv, Core, TypeOK, Call
  <2>4. Slots'
    BY <1>0, <1>1, <2>1, ContextTypes DEF AgeInv, Aged, Slots
  <2>5. Publishing'
    <3>1. clock \in Nat /\ draws' # 0
      BY <1>2, ContextTypes DEF AgeInv
    <3>2. call'[t].now <= clock'
      BY <1>0, <2>3, <3>1
    <3> QED
      BY <2>2, <3>1, <3>2 DEF Publishing
  <2>6. ASSUME NEW ticket \in Ticket, Ageing(ticket) PROVE Ageing(ticket)'
    <3>1. ticket.key <= draws'
      BY <1>2, <2>6, TicketTypes, ContextTypes DEF Ageing, AgeInv
    <3>2. ticket.idx = i => ticket.key # key'[i]
      BY <2>1, <2>6, TicketTypes, ContextTypes DEF Ageing, AgeInv
    <3>3. ASSUME ticket.idx # i, ticket.key = key'[ticket.idx]
          PROVE  \/ expirary[ticket.idx] < clock
                 \/ expirary[ticket.idx] <= ticket.sealed + KEY_LIFETIME
      BY <2>1, <2>6, <3>3, TicketTypes DEF Ageing
    <3> QED
      BY <1>0, <2>2, <2>3, <3>1, <3>2, <3>3, TicketTypes DEF Ageing
  <2>7. \A ticket \in Ticket : Held(ticket)' => Held(ticket)
    BY <1>0, <2>2 DEF Held
  <2> QED
    BY <2>4, <2>5, <2>6, <2>7 DEF AgeInv, Aged
<1>3. CASE /\ \E k \in {0, key[i]} : key' = [key EXCEPT ![i] = k]
           /\ call' = [call EXCEPT ![t] = Returned("REJECT")]
           /\ UNCHANGED draws
  <2>1. \A j \in Index : key'[j] = key[j] \/ (j = i /\ key'[j] = 0)
    BY <1>3 DEF AgeInv, Core, TypeOK
  <2>2. \A u \in Threads : /\ call'[u].ticket \in {NoTicket, call[u].ticket}
                           /\ ~At(u, "publish")'
    BY <1>0, <1>3 DEF AgeInv, Core, TypeOK, Call, At, Returned
  <2>3. Slots' /\ Publishing'
    BY <1>0, <1>1, <2>1, <2>2 DEF AgeInv, Aged, Slots, Publishing
  <2>4. ASSUME NEW ticket \in Ticket, Ageing(ticket) PROVE Ageing(ticket)'
    BY <1>0, <1>1, <1>3, <2>1, <2>2, <2>4, TicketTypes DEF Ageing
  <2>5. \A ticket \in Ticket : Held(ticket)' => Held(ticket)
    BY <1>0, <2>2, NoTicketHeld DEF Held
  <2> QED
    BY <2>3, <2>4, <2>5 DEF AgeInv, Aged
<1> QED
  BY <1>1, <1>2, <1>3

(* The expirary counts from when the key was drawn, and what was sealed     *)
(* with that key was sealed later.                                          *)
LEMMA PublishAged ==
  ASSUME AgeInv, Core', NEW t \in Threads, Publish(t)
  PROVE  Aged'
<1> USE LifetimeAssumption
<1> DEFINE i == call[t].idx
<1>0. /\ UNCHANGED <<key, draws, clock, tickets>>
      /\ At(t, "publish")
      /\ lock' = {}
      /\ i \in Index
  BY ContextTypes DEF Publish, AgeInv
<1>1. \A j \in Index : expirary'[j] = IF j = i THEN call[t].now + KEY_LIFETIME
                                               ELSE expirary[j]
  BY DEF Publish, AgeInv, Core, TypeOK
<1>2. \A u \in Threads : ~At(u, "publish")' /\ call'[u].ticket = call[u].ticket
  <2>1. \A u \in Threads : ~At(u, "publish")'
    BY <1>0, Core' DEF Core, TypeOK
  <2> QED
    BY <2>1 DEF Publish, AgeInv, Core, TypeOK, Call
<1>3. call[t].now <= clock
  BY <1>0 DEF AgeInv, Aged, Publishing
<1>4. key[i] # 0
  <2>1. key[i] = draws
    BY DEF AgeInv, Core, TypeOK, Publish
  <2>2. draws # 0
    BY <1>0 DEF AgeInv, Aged, Publishing
  <2> QED
    BY <2>1, <2>2
<1>5. Slots'
  BY <1>0, <1>1, <1>3, <1>4, ContextTypes DEF AgeInv, Aged, Slots
<1>6. ASSUME NEW ticket \in Ticket, Ageing(ticket) PROVE Ageing(ticket)'
  <2>1. ASSUME ticket.key = key[ticket.idx], ticket.idx = i
        PROVE  call[t].now <= ticket.sealed
    BY <1>0, <1>6, <2>1 DEF Ageing
  <2> QED
    BY <1>0, <1>1, <1>2, <1>6, <2>1, TicketTypes, ContextTypes DEF Ageing, AgeInv
<1>7. \A ticket \in Ticket : Held(ticket)' => Held(ticket)
  BY <1>0, <1>2 DEF Held
<1> QED
  BY <1>2, <1>5, <1>6, <1>7 DEF AgeInv, Aged, Publishing

(* What is sealed now is sealed with a key that lasts a lifetime at most.   *)
LEMMA SealAged ==
  ASSUME AgeInv, Core', NEW t \in Threads, Seal(t)
  PROVE  Aged'
<1> USE LifetimeAssumption
<1> DEFINE new == [name |-> name, idx |-> call[t].idx, key |-> key[call[t].idx],
                   issued |-> call[t].issued, hint |-> hint, sealed |-> clock]
<1>0. /\ UNCHANGED <<key, expirary, draws, clock>>
      /\ tickets' = tickets \cup {new}
  BY DEF Seal
<1>1. \A u \in Threads : /\ call'[u].ticket \in {NoTicket, call[u].ticket}
                         /\ At(u, "publish")' => call'[u] = call[u]
  BY DEF Seal, Returned, At, AgeInv, Core, TypeOK
<1>2. Slots' /\ Publishing'
  BY <1>0, <1>1 DEF AgeInv, Aged, Slots, Publishing, At
<1>3. ASSUME NEW ticket \in Ticket, Ageing(ticket) PROVE Ageing(ticket)'
  BY <1>0, <1>1, <1>3 DEF Ageing, At
<1>4. ASSUME NEW ticket \in Ticket, ticket = new PROVE Ageing(ticket)'
  <2>1. ticket.key = key[call[t].idx] /\ ticket.idx = call[t].idx /\ ticket.sealed = clock
    BY <1>4
  <2>2. ticket.key <= draws
    BY <2>1, ContextTypes DEF AgeInv
  <2>3. expirary[ticket.idx] <= ticket.sealed + KEY_LIFETIME
    BY <2>1, ContextTypes DEF AgeInv, Aged, Slots
  <2>4. \A u \in Threads : At(u, "publish")' => call'[u].now <= ticket.sealed
    BY <1>1, <2>1 DEF AgeInv, Aged, Publishing, At
  <2> QED
    BY <1>0, <2>2, <2>3, <2>4 DEF Ageing
<1> HIDE DEF new
<1>5. \A ticket \in Ticket : Held(ticket)' => Held(ticket) \/ ticket = new
  BY <1>0, <1>1, NoTicketHeld DEF Held
<1> QED
  BY <1>2, <1>3, <1>4, <1>5 DEF AgeInv, Aged

(* The other steps of a call change no key and no ticket.                   *)
LEMMA OtherStepsAged ==
  ASSUME AgeInv, Core', NEW t \in Threads,
         \/ EnterSeal(t)
         \/ \E ticket \in tickets : EnterOpen(t, ticket)
         \/ ReadClock(t) \/ TestPrimary(t) \/ TestSecondary(t) \/ ChooseKept(t)
         \/ SealFails(t) \/ CheckName(t) \/ Open(t)
  PROVE  Aged'
<1>1. UNCHANGED <<key, expirary, draws, clock, tickets>>
  BY DEF EnterSeal, EnterOpen, ReadClock, TestPrimary, TestSecondary, ChooseKept,
     SealFails, CheckName, Open
<1>2. draws' >= draws
  BY <1>1, ContextTypes DEF AgeInv
<1>3. /\ \A u \in Threads : u # t => call'[u] = call[u]
      /\ call'[t].pc # "publish"
      /\ call'[t].ticket \in {NoTicket, call[t].ticket} \cup tickets
  <2>0. call[t] = [pc |-> call[t].pc, issued |-> call[t].issued, now |-> call[t].now,
                   idx |-> call[t].idx, ticket |-> call[t].ticket]
    BY DEF AgeInv, Core, TypeOK, Call
  <2>1. CASE EnterSeal(t)
    BY <2>1 DEF EnterSeal, Returned, AgeInv, Core, TypeOK
  <2>2. CASE \E ticket \in tickets : EnterOpen(t, ticket)
    <3>1. PICK ticket \in tickets :
            call' = [call EXCEPT ![t] =
              [Returned("OK") EXCEPT !.pc = IF expirary[0] = 0 THEN "setup" ELSE "name",
                                     !.ticket = ticket]]
      BY <2>2 DEF EnterOpen
    <3>2. /\ call'[t].pc \in {"setup", "name"}
          /\ call'[t].ticket = ticket
      BY <3>1 DEF Returned, AgeInv, Core, TypeOK
    <3>3. \A u \in Threads : u # t => call'[u] = call[u]
      BY <3>1 DEF AgeInv, Core, TypeOK
    <3> QED
      BY <3>1, <3>2, <3>3
  <2>3. CASE ReadClock(t)
    BY <2>0, <2>3 DEF ReadClock, AgeInv, Core, TypeOK
  <2>4. CASE TestPrimary(t)
    BY <2>0, <2>4 DEF TestPrimary, AgeInv, Core, TypeOK
  <2>5. CASE TestSecondary(t)
    BY <2>0, <2>5 DEF TestSecondary, AgeInv, Core, TypeOK
  <2>6. CASE ChooseKept(t)
    BY <2>0, <2>6 DEF ChooseKept, Returned, AgeInv, Core, TypeOK
  <2>7. CASE SealFails(t)
    BY <2>7 DEF SealFails, Returned, AgeInv, Core, TypeOK
  <2>8. CASE CheckName(t)
    BY <2>0, <2>8 DEF CheckName, Returned, AgeInv, Core, TypeOK
  <2>9. CASE Open(t)
    BY <2>9 DEF Open, Returned, AgeInv, Core, TypeOK
  <2> QED
    BY <2>1, <2>2, <2>3, <2>4, <2>5, <2>6, <2>7, <2>8, <2>9
<1>4. \A u \in Threads : /\ call'[u].ticket \in {NoTicket, call[u].ticket} \cup tickets
                         /\ At(u, "publish")' => call'[u] = call[u]
  BY <1>3 DEF At, AgeInv, Core, TypeOK
<1> QED
  BY <1>1, <1>2, <1>4, AgedKept

(* The age of every ticket is known in every state.                         *)
LEMMA AgeInvariant == Spec => []AgeInv
<1>1. Init => AgeInv
  <2> SUFFICES ASSUME Init PROVE Aged
    BY InitCore DEF AgeInv
  <2>1. Slots /\ Publishing
    BY LifetimeAssumption DEF Init, Slots, Publishing, Returned, At, Index
  <2>2. \A ticket \in Ticket : ~Held(ticket)
    BY NoTicketHeld DEF Init, Held, Returned
  <2> QED
    BY <2>1, <2>2 DEF Aged
<1>2. AgeInv /\ [Next]_vars => AgeInv'
  <2> SUFFICES ASSUME AgeInv, [Next]_vars PROVE Aged'
    BY StepCore DEF AgeInv
  <2>0. Core'
    BY StepCore DEF AgeInv
  <2>1. CASE \E h \in HINTS : SetTicketHint(h)
    BY <2>0, <2>1, ContextTypes, AgedKept DEF SetTicketHint, AgeInv
  <2>2. ASSUME NEW t \in Threads, DefTicketEncCb(t) PROVE Aged'
    BY <2>0, <2>2, OtherStepsAged, SetupAged, ChooseNewAged, PublishAged, SealAged
       DEF DefTicketEncCb
  <2>3. CASE Tick
    BY <2>3, TickAged
  <2>4. CASE \E ticket \in tickets : Forget(ticket)
    BY <2>0, <2>4, ContextTypes, AgedKept DEF Forget, AgeInv
  <2>5. CASE UNCHANGED vars
    BY <2>0, <2>5, ContextTypes, AgedKept DEF vars, AgeInv
  <2> QED
    BY <2>1, <2>2, <2>3, <2>4, <2>5 DEF Next
<1> QED
  BY <1>1, <1>2, PTL DEF Spec

-----------------------------------------------------------------------------

(* A call with a ticket is ended by CheckName or by Open, unless the set up *)
(* fails: the other steps that end a call are those of a call that seals,   *)
(* which has no ticket.                                                     *)
LEMMA EndedByOpening ==
  ASSUME Core, [Next]_vars, NEW t \in Threads, NEW r \in {"OK", "REJECT", "FATAL"},
         Ends(t, r), call[t].ticket # NoTicket
  PROVE  CheckName(t) \/ Open(t)
<1>1. /\ call'[t].pc = r
      /\ call[t].pc \in Steps
      /\ call'[t] # call[t]
  BY DEF Core, TypeOK, Call, Ends, Idle, Returned, Outcomes, Steps
<1>2. ~UNCHANGED vars /\ ~Tick
  BY <1>1 DEF vars, Tick
<1>3. \A h \in HINTS : ~SetTicketHint(h)
  BY <1>1 DEF SetTicketHint
<1>4. \A ticket \in tickets : ~Forget(ticket)
  BY <1>1 DEF Forget
<1>5. ASSUME NEW u \in Threads, DefTicketEncCb(u), u # t PROVE FALSE
  <2>1. call'[t] = call[t]
    BY <1>5 DEF DefTicketEncCb, EnterSeal, EnterOpen, Setup, AfterSetup, ReadClock,
       TestPrimary, TestSecondary, ChooseKept, ChooseNew, Publish, Seal,
       SealFails, CheckName, Open, Core, TypeOK
  <2> QED
    BY <2>1, <1>1
<1>6. DefTicketEncCb(t)
  BY <1>2, <1>3, <1>4, <1>5 DEF Next
<1>7. ~EnterSeal(t) /\ \A ticket \in tickets : ~EnterOpen(t, ticket)
  BY DEF EnterSeal, EnterOpen, Ends
<1>8. ~Setup(t)
  <2> SUFFICES ASSUME Setup(t) PROVE FALSE
    OBVIOUS
  <2>1. call'[t].pc \in {"clock", "name", "RNG_ERROR"}
    BY DEF Setup, AfterSetup, Returned, Core, TypeOK, Call
  <2> QED
    BY <1>1, <2>1
<1>9. call[t].pc \notin SealSteps
  BY DEF Core, Roles
<1>10. /\ ~ReadClock(t) /\ ~TestPrimary(t) /\ ~TestSecondary(t) /\ ~ChooseKept(t)
       /\ ~ChooseNew(t) /\ ~Publish(t)
       /\ ~Seal(t) /\ ~SealFails(t)
  BY <1>9 DEF SealSteps, At, ReadClock, TestPrimary, TestSecondary, ChooseKept,
     ChooseNew, Publish, Seal, SealFails
<1> QED
  BY <1>6, <1>7, <1>8, <1>10 DEF DefTicketEncCb

(* The types, and that the mutex is held exactly while a new key waits for  *)
(* its expirary.                                                            *)
THEOREM TypeCorrect == Spec => []TypeOK
<1>1. Core => TypeOK
  BY DEF Core
<1> QED
  BY <1>1, InitCore, StepCore, PTL DEF Spec

(* A call of DefTicketEncCb that seals a ticket never reaches the branch    *)
(* of TicketEncCbCtx_ChooseKey that returns BAD_STATE_E, for every key      *)
(* lifetime and whatever hints wolfSSL_CTX_set_TicketHint sets in turn: a   *)
(* hint with which that could happen is refused before the call.            *)
THEOREM KeyAlwaysAvailable == Spec => []KeyAvailable
<1>1. IndInv => KeyAvailable
  BY DEF IndInv
<1> QED
  BY <1>1, InitInv, StepInv, PTL DEF Spec

(* No ticket is refused by DefTicketEncCb before its hint has passed, though *)
(* sealing takes its key without the mutex.                                 *)
THEOREM FreshTicketsOpen == Spec => FreshTicketOpens
<1> DEFINE Step == \A t \in Threads : \A r \in {"REJECT", "FATAL"} :
                     Ends(t, r) /\ call[t].ticket # NoTicket =>
                       clock >= call[t].ticket.issued + call[t].ticket.hint
<1>1. IndInv /\ [Next]_vars => Step
  <2> SUFFICES ASSUME IndInv, [Next]_vars,
                      NEW t \in Threads, NEW r \in {"REJECT", "FATAL"},
                      Ends(t, r), call[t].ticket # NoTicket,
                      ~(clock >= call[t].ticket.issued + call[t].ticket.hint)
               PROVE  FALSE
    OBVIOUS
  <2> DEFINE ticket == call[t].ticket
  <2>1. ticket \in Ticket
    BY DEF IndInv, Core, TypeOK, Call
  <2>2. ticket.issued \in Time /\ ticket.hint \in HINTS
    BY <2>1 DEF Ticket
  <2>3. ticket.hint \in Nat \ {0}
    BY <2>2, HintsAssumption, Zenon
  <2>4. clock < ticket.issued + ticket.hint
    BY <2>2, <2>3 DEF IndInv, Core, TypeOK, Time
  <2>5. /\ ticket.name = name
        /\ ticket.key = key[ticket.idx]
        /\ expirary[ticket.idx] >= ticket.issued + ticket.hint
    BY <2>4 DEF IndInv, AllSafe, Safe
  <2>6. expirary[ticket.idx] > clock
    BY <2>1, <2>2, <2>3, <2>4, <2>5, LifetimeAssumption, BoundsAssumption
       DEF IndInv, Core, TypeOK, Ticket, Time
  <2>7. CASE CheckName(t)
    <3>1. call'[t].pc = "open"
      BY <2>5, <2>7 DEF CheckName, IndInv, Core, TypeOK, Call
    <3> QED
      BY <3>1 DEF Ends, Returned
  <2>8. CASE Open(t)
    <3>1. call'[t] = Returned("OK")
      BY <2>5, <2>6, <2>8 DEF Open, Opens, IndInv, Core, TypeOK
    <3> QED
      BY <3>1 DEF Ends, Returned
  <2> QED
    BY <2>7, <2>8, EndedByOpening DEF IndInv
<1> QED
  BY <1>1, InitInv, StepInv, PTL DEF Spec, FreshTicketOpens

(* No ticket is opened a key lifetime after it was sealed or later, though  *)
(* sealing takes its key without the mutex, and the slot of the ticket may  *)
(* have been given a new key and a new expirary in between.  This holds for *)
(* every key lifetime and every hint.                                       *)
THEOREM OldTicketsRefused == Spec => OldTicketRefused
<1> DEFINE Step == \A t \in Threads :
                     Ends(t, "OK") /\ call[t].ticket # NoTicket =>
                       clock < call[t].ticket.sealed + KEY_LIFETIME
<1>1. AgeInv /\ [Next]_vars => Step
  <2> SUFFICES ASSUME AgeInv, [Next]_vars, NEW t \in Threads,
                      Ends(t, "OK"), call[t].ticket # NoTicket
               PROVE  clock < call[t].ticket.sealed + KEY_LIFETIME
    OBVIOUS
  <2> DEFINE ticket == call[t].ticket
  <2>1. ticket \in Ticket
    BY DEF AgeInv, Core, TypeOK, Call
  <2>2. Open(t)
    <3>1. CheckName(t) \/ Open(t)
      BY EndedByOpening DEF AgeInv
    <3>2. ~CheckName(t)
      <4>1. CheckName(t) => call'[t].pc \in {"open", "FATAL"}
        BY DEF CheckName, Returned, AgeInv, Core, TypeOK, Call
      <4> QED
        BY <4>1 DEF Ends, Returned
    <3> QED
      BY <3>1, <3>2
  <2>3. Opens(ticket)
    <3>1. call'[t] = Returned(IF Opens(ticket) THEN "OK" ELSE "REJECT")
      BY <2>2 DEF Open, AgeInv, Core, TypeOK
    <3> QED
      BY <3>1 DEF Ends, Returned
  <2>4. expirary[ticket.idx] > clock /\ key[ticket.idx] = ticket.key
    BY <2>3 DEF Opens
  <2>5. Ageing(ticket)
    BY <2>1 DEF AgeInv, Aged, Held
  <2> HIDE DEF ticket
  <2>6. \/ expirary[ticket.idx] < clock
        \/ expirary[ticket.idx] <= ticket.sealed + KEY_LIFETIME
    BY <2>1, <2>4, <2>5 DEF Ageing, ticket
  <2>7. /\ expirary[ticket.idx] \in Nat /\ clock \in Nat
        /\ ticket.sealed \in Nat /\ KEY_LIFETIME \in Nat
    BY <2>1, TicketTypes, ContextTypes, LifetimeAssumption DEF AgeInv
  <2>8. clock < ticket.sealed + KEY_LIFETIME
    BY <2>4, <2>6, <2>7
  <2> QED
    BY <2>8 DEF ticket
<1> QED
  BY <1>1, AgeInvariant, PTL DEF Spec, OldTicketRefused

=============================================================================
