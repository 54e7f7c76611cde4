----------------------------- MODULE TicketKeys -----------------------------
(***************************************************************************)
(* The two keys of the default session ticket callback, shared by every    *)
(* thread that serves connections of one WOLFSSL_CTX (src/internal.c,      *)
(* TicketEncCbCtx and DefTicketEncCb).                                     *)
(*                                                                         *)
(* The key context has one name, and two keys with an expirary each.  A    *)
(* call that seals a ticket reads the expiraries WITHOUT the mutex and     *)
(* only takes it when neither key outlives the ticket; it also uses the    *)
(* key it chose without the mutex.  A call that opens a ticket checks the  *)
(* expirary and decrypts under the mutex.  Every unlocked read is a step   *)
(* of its own, and so are the two writes under the mutex between which an  *)
(* unlocked reader can look: the new key, then its new expirary.  The      *)
(* writes of TicketEncCbCtx_Setup are one step, because until the last of  *)
(* them every other thread finds expirary[0] = 0 and waits for the mutex.  *)
(*                                                                         *)
(* Random names and keys are the numbers 1, 2, ... in the order they are   *)
(* drawn; 0 is memory that holds no complete key.  A mutex that cannot be  *)
(* locked and a ticket too short to be one are left out.                   *)
(***************************************************************************)
EXTENDS Integers, FiniteSets

CONSTANTS
  Threads,       \* the threads that serve connections
  KEY_LIFETIME,  \* WOLFSSL_TICKET_KEY_LIFETIME
  HINTS,         \* the values given to wolfSSL_CTX_set_TicketHint
  MAX_CLOCK,     \* bound: the last instant of the low resolution timer
  MAX_DRAWS,     \* bound: how many keys are generated
  MAX_TICKETS    \* bound: how many tickets the clients hold

(* A hint of 0, for tickets that are old at once, is left out.  A hint that *)
(* is too long for the key lifetime may be set; no ticket is sealed then.   *)
ASSUME LifetimeAssumption == KEY_LIFETIME \in Nat \ {0}
ASSUME HintsAssumption == HINTS \subseteq Nat \ {0} /\ HINTS # {}
ASSUME BoundsAssumption ==
  MAX_CLOCK \in Nat \ {0} /\ MAX_DRAWS \in Nat /\ MAX_TICKETS \in Nat

VARIABLES
  name,      \* keyCtx->name, without its index bit
  key,       \* keyCtx->key
  expirary,  \* keyCtx->expirary
  lock,      \* the thread that holds keyCtx->mutex, or the empty set
  hint,      \* ctx->ticketHint
  call,      \* what each thread is doing in DefTicketEncCb
  draws,     \* how many random values the context has drawn
  clock,     \* LowResTimer()
  tickets    \* the tickets the clients hold

vars == <<name, key, expirary, lock, hint, call, draws, clock, tickets>>

Index == {0, 1}
Draws == 1..MAX_DRAWS
Time  == 0..MAX_CLOCK

(* A ticket names the context and the index of its key; inside it is sealed *)
(* with the key's value.  The time the ticket was made, its hint and the    *)
(* time it was sealed are kept for the properties.                          *)
Ticket == [name : Draws, idx : Index, key : {0} \cup Draws,
           issued : Time, hint : HINTS, sealed : Time]

(* A call: where it is, when it began, the time and the key index it works  *)
(* with, and the ticket it is to open, if any.                              *)
NoTicket == [name |-> 0, idx |-> 0, key |-> 0, issued |-> 0, hint |-> 0, sealed |-> 0]
Outcomes == {"OK", "REJECT", "FATAL", "BAD_STATE", "RNG_ERROR"}
Steps == {"setup", "clock", "test0", "test1", "choose", "publish", "seal", "name", "open"}

Call == [pc : Outcomes \cup Steps, issued : Time, now : Time, idx : Index,
         ticket : {NoTicket} \cup Ticket]

(* A thread that is not in DefTicketEncCb has the outcome of its last call. *)
(* BAD_STATE is the REJECT that comes from BAD_STATE_E.                     *)
Returned(r) == [pc |-> r, issued |-> 0, now |-> 0, idx |-> 0, ticket |-> NoTicket]

At(t, step) == call[t].pc = step
Idle(t) == call[t].pc \in Outcomes

-----------------------------------------------------------------------------

Init ==
  /\ name = 0
  /\ key = [i \in Index |-> 0]
  /\ expirary = [i \in Index |-> 0]
  /\ lock = {}
  /\ hint \in HINTS
  /\ call = [t \in Threads |-> Returned("OK")]
  /\ draws = 0
  /\ clock = 1
  /\ tickets = {}

(* wolfSSL_CTX_set_TicketHint: called while the context is being set up or  *)
(* between connections.                                                     *)
SetTicketHint(h) ==
  /\ \A t \in Threads : Idle(t)
  /\ hint' = h
  /\ UNCHANGED <<name, key, expirary, lock, call, draws, clock, tickets>>

UnlimitedHint == FALSE

(* DefTicketHintTooLarge, with the default callback in use.                 *)
HintTooLarge == 2 * hint >= KEY_LIFETIME

(* SendTicket and SendTls13NewSessionTicket seal a ticket unless the hint   *)
(* is too large.  Then the unlocked test at the start of DefTicketEncCb:    *)
(* has the context been set up?                                             *)
EnterSeal(t) ==
  /\ ~HintTooLarge
  /\ Idle(t)
  /\ call' = [call EXCEPT ![t] =
       [Returned("OK") EXCEPT !.pc = IF expirary[0] = 0 THEN "setup" ELSE "clock",
                              !.issued = clock]]
  /\ UNCHANGED <<name, key, expirary, lock, hint, draws, clock, tickets>>

EnterOpen(t, ticket) ==
  /\ Idle(t)
  /\ call' = [call EXCEPT ![t] =
       [Returned("OK") EXCEPT !.pc = IF expirary[0] = 0 THEN "setup" ELSE "name",
                              !.ticket = ticket]]
  /\ UNCHANGED <<name, key, expirary, lock, hint, draws, clock, tickets>>

(* What the call does after the set up.                                     *)
AfterSetup(t) ==
  [call EXCEPT ![t].pc = IF call[t].ticket = NoTicket THEN "clock" ELSE "name"]

UncheckedSetup(t) ==
  /\ At(t, "setup")
  /\ lock = {}
  /\ draws < MAX_DRAWS
  /\ draws' = draws + 1
  /\ name' = draws'
  /\ key' = [key EXCEPT ![0] = draws']
  /\ expirary' = [expirary EXCEPT ![0] = clock + KEY_LIFETIME]
  /\ call' = AfterSetup(t)
  /\ UNCHANGED <<lock, hint, clock, tickets>>

(* TicketEncCbCtx_Setup under the mutex.  Another thread may have set the   *)
(* context up while this one waited.  When the random number generator      *)
(* fails, before or after the name was drawn, the call ends with its error, *)
(* and expirary[0] is still 0.                                              *)
Setup(t) ==
  /\ At(t, "setup")
  /\ lock = {}
  /\ \/ /\ expirary[0] # 0
        /\ call' = AfterSetup(t)
        /\ UNCHANGED <<name, key, expirary, draws>>
     \/ /\ expirary[0] = 0
        /\ draws < MAX_DRAWS
        /\ draws' = draws + 1
        /\ name' = draws'
        /\ key' = [key EXCEPT ![0] = draws']
        /\ expirary' = [expirary EXCEPT ![0] = clock + KEY_LIFETIME]
        /\ call' = AfterSetup(t)
     \/ /\ expirary[0] = 0
        /\ call' = [call EXCEPT ![t] = Returned("RNG_ERROR")]
        /\ \/ UNCHANGED <<name, draws>>
           \/ draws < MAX_DRAWS /\ draws' = draws + 1 /\ name' = draws'
        /\ UNCHANGED <<key, expirary>>
  /\ UNCHANGED <<lock, hint, clock, tickets>>

-----------------------------------------------------------------------------
(* Sealing a ticket.                                                        *)

ReadClock(t) ==
  /\ At(t, "clock")
  /\ call' = [call EXCEPT ![t] = [@ EXCEPT !.pc = "test0", !.now = clock]]
  /\ UNCHANGED <<name, key, expirary, lock, hint, draws, clock, tickets>>

(* "As long as encryption expirary isn't imminent - no lock."               *)
TestPrimary(t) ==
  /\ At(t, "test0")
  /\ call' = [call EXCEPT ![t] = [@ EXCEPT
       !.pc = IF expirary[0] > call[t].now + hint THEN "seal" ELSE "test1",
       !.idx = 0]]
  /\ UNCHANGED <<name, key, expirary, lock, hint, draws, clock, tickets>>

TestSecondary(t) ==
  /\ At(t, "test1")
  /\ call' = [call EXCEPT ![t] = [@ EXCEPT
       !.pc = IF expirary[1] > call[t].now + hint THEN "seal" ELSE "choose",
       !.idx = 1]]
  /\ UNCHANGED <<name, key, expirary, lock, hint, draws, clock, tickets>>


(* Can a ticket sealed with key i now be opened for its whole lifetime?     *)
Outlives(i) == expirary[i] >= clock + hint

(* The keys that no ticket needs any more, the primary first.               *)
Spent == {i \in Index : expirary[i] < clock}

(* TicketEncCbCtx_ChooseKey under the mutex, with the clock read again: one *)
(* of the keys there are, the primary first, or, if neither outlives the    *)
(* ticket and none is spent, the branch that "Timeouts and expirary should  *)
(* not allow", ...                                                          *)
ChooseKept(t) ==
  /\ At(t, "choose")
  /\ lock = {}
  /\ (\A i \in Index : ~Outlives(i)) => Spent = {}
  /\ call' = [call EXCEPT ![t] =
       LET i == IF Outlives(0) THEN 0 ELSE 1
       IN  IF Outlives(i) THEN [@ EXCEPT !.pc = "seal", !.idx = i]
                          ELSE Returned("BAD_STATE")]
  /\ UNCHANGED <<name, key, expirary, lock, hint, draws, clock, tickets>>

(* ... or a new key in the place of a spent one; the mutex is held on, for  *)
(* the expirary is written after the key.                                   *)
ChooseNew(t) ==
  /\ At(t, "choose")
  /\ lock = {}
  /\ \A i \in Index : ~Outlives(i)
  /\ \E i \in Spent :
       /\ i = 1 => 0 \notin Spent
       /\ \/ /\ draws < MAX_DRAWS
             /\ draws' = draws + 1
             /\ key' = [key EXCEPT ![i] = draws']
             /\ lock' = {t}
             /\ call' = [call EXCEPT ![t].pc = "publish", ![t].idx = i, ![t].now = clock]
          \/ /\ \E k \in {0, key[i]} : key' = [key EXCEPT ![i] = k]
             /\ call' = [call EXCEPT ![t] = Returned("REJECT")]
             /\ UNCHANGED <<draws, lock>>
  /\ UNCHANGED <<name, expirary, hint, clock, tickets>>

KeepLockPublish(t) ==
  /\ At(t, "publish")
  /\ lock = {t}
  /\ expirary' = [expirary EXCEPT ![call[t].idx] = call[t].now + KEY_LIFETIME]
  /\ call' = [call EXCEPT ![t].pc = "seal"]
  /\ UNCHANGED <<name, key, lock, hint, draws, clock, tickets>>

(* The end of TicketEncCbCtx_ChooseKey: the time read at its start counts.  *)
Publish(t) ==
  /\ At(t, "publish")
  /\ lock = {t}
  /\ expirary' = [expirary EXCEPT ![call[t].idx] = call[t].now + KEY_LIFETIME]
  /\ lock' = {}
  /\ call' = [call EXCEPT ![t].pc = "seal"]
  /\ UNCHANGED <<name, key, hint, draws, clock, tickets>>

(* TicketEncDec on whatever keyCtx->key[keyIdx] holds now, without the      *)
(* mutex.  The client holds the ticket from now on.                         *)
Seal(t) ==
  /\ At(t, "seal")
  /\ Cardinality(tickets) < MAX_TICKETS
  /\ tickets' = tickets \cup
       {[name |-> name, idx |-> call[t].idx, key |-> key[call[t].idx],
         issued |-> call[t].issued, hint |-> hint, sealed |-> clock]}
  /\ call' = [call EXCEPT ![t] = Returned("OK")]
  /\ UNCHANGED <<name, key, expirary, lock, hint, draws, clock>>

(* No random IV, or TicketEncDec fails: nothing is handed out.              *)
SealFails(t) ==
  /\ At(t, "clock") \/ At(t, "seal")
  /\ call' = [call EXCEPT ![t] = Returned("REJECT")]
  /\ UNCHANGED <<name, key, expirary, lock, hint, draws, clock, tickets>>

-----------------------------------------------------------------------------
(* Opening a ticket.                                                        *)

(* "For decryption, see if we know this key": before the mutex is taken.    *)
CheckName(t) ==
  /\ At(t, "name")
  /\ call' = [call EXCEPT ![t] =
       IF call[t].ticket.name = name THEN [call[t] EXCEPT !.pc = "open"]
                                     ELSE Returned("FATAL")]
  /\ UNCHANGED <<name, key, expirary, lock, hint, draws, clock, tickets>>

UnexpiringOpens(ticket) == key[ticket.idx] = ticket.key

(* The part of DefTicketEncCb that opens a ticket, under the mutex.         *)
Opens(ticket) ==
  /\ expirary[ticket.idx] > clock
  /\ key[ticket.idx] = ticket.key

Open(t) ==
  /\ At(t, "open")
  /\ lock = {}
  /\ call' = [call EXCEPT ![t] =
                Returned(IF Opens(call[t].ticket) THEN "OK" ELSE "REJECT")]
  /\ UNCHANGED <<name, key, expirary, lock, hint, draws, clock, tickets>>

-----------------------------------------------------------------------------
(* The environment: time passes, clients throw tickets away.                *)

Tick ==
  /\ clock < MAX_CLOCK
  /\ clock' = clock + 1
  /\ UNCHANGED <<name, key, expirary, lock, hint, call, draws, tickets>>

Forget(ticket) ==
  /\ tickets' = tickets \ {ticket}
  /\ UNCHANGED <<name, key, expirary, lock, hint, call, draws, clock>>

DefTicketEncCb(t) ==
  \/ EnterSeal(t)
  \/ \E ticket \in tickets : EnterOpen(t, ticket)
  \/ Setup(t)
  \/ ReadClock(t)
  \/ TestPrimary(t)
  \/ TestSecondary(t)
  \/ ChooseKept(t)
  \/ ChooseNew(t)
  \/ Publish(t)
  \/ Seal(t)
  \/ SealFails(t)
  \/ CheckName(t)
  \/ Open(t)

Next ==
  \/ \E h \in HINTS : SetTicketHint(h)
  \/ \E t \in Threads : DefTicketEncCb(t)
  \/ Tick
  \/ \E ticket \in tickets : Forget(ticket)

Spec == Init /\ [][Next]_vars

-----------------------------------------------------------------------------

(* The types; a thread holds the mutex exactly while its new key waits for  *)
(* its expirary, and that key is the last one drawn.                        *)
TypeOK ==
  /\ name \in 0..MAX_DRAWS
  /\ key \in [Index -> 0..draws]
  /\ expirary \in [Index -> 0..(MAX_CLOCK + KEY_LIFETIME)]
  /\ lock = {t \in Threads : At(t, "publish")}
  /\ hint \in HINTS
  /\ call \in [Threads -> Call]
  /\ draws \in 0..MAX_DRAWS
  /\ clock \in Time
  /\ tickets \subseteq Ticket
  /\ \A t \in lock : key[call[t].idx] = draws

(* The call of t ends in this step with outcome r.                          *)
Ends(t, r) == ~Idle(t) /\ call'[t] = Returned(r)

(* A ticket is not refused before its lifetime hint has passed, whatever    *)
(* the threads of the server did in between: no call replaces the name, or  *)
(* the key the ticket was sealed with, or lets that key expire.  Sealing    *)
(* looks at the expiraries and uses the key without the mutex, so this      *)
(* rests on when the locked code may overwrite a key (DefTicketEncCb,       *)
(* TicketEncCbCtx_Setup, TicketEncCbCtx_ChooseKey).                         *)
FreshTicketOpens ==
  [][\A t \in Threads : \A r \in {"REJECT", "FATAL"} :
       Ends(t, r) /\ call[t].ticket # NoTicket =>
         clock >= call[t].ticket.issued + call[t].ticket.hint]_vars

(* "Keys expire for decryption after ticket key lifetime": a ticket that    *)
(* was sealed a key lifetime ago or earlier is never opened, though its key *)
(* stays in memory until somebody seals a ticket and needs the place.       *)
OldTicketRefused ==
  [][\A t \in Threads :
       Ends(t, "OK") /\ call[t].ticket # NoTicket =>
         clock < call[t].ticket.sealed + KEY_LIFETIME]_vars

(* "If one ticket is only valid for decryption, then the other will be      *)
(* valid for encryption": a call that seals a ticket always finds a key     *)
(* that outlives it or a spent one to replace, so it never comes to the     *)
(* branch of TicketEncCbCtx_ChooseKey that returns BAD_STATE_E, whatever    *)
(* hints the context is given in turn.  It rests on DefTicketHintTooLarge,  *)
(* which is asked before the call, in another function.                     *)
KeyAvailable == \A t \in Threads : ~At(t, "BAD_STATE")

=============================================================================
