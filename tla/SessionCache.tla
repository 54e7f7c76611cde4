---------------------------- MODULE SessionCache ----------------------------
(***************************************************************************)
(* The cache of TLS sessions that all threads of a client share            *)
(* (src/ssl_sess.c): a row of sessions that is a ring behind a read-write  *)
(* lock, and the client cache behind a mutex, a ring of small objects that *)
(* say where in the row a session was put.  wolfSSL_get_session hands the  *)
(* application a pointer to such an object; it is resolved when used.      *)
(*                                                                         *)
(* Calls lock, look, unlock and later lock again, and what they carry from *)
(* one lock to the next is a position in the row.  A section that reads    *)
(* under the lock is one step; a section that writes is one step per part  *)
(* written, so that a reader without the lock would see the middle.        *)
(*                                                                         *)
(* One row of each cache stands for all (sessions of different rows only   *)
(* share the locks).  Left out: SESSION_CACHE_DYNAMIC_MEM, external caches *)
(* (callbacks), ex_data, saving the cache to a file, lock failures, and    *)
(* DupSession failing, for which AddSessionToCache allocates beforehand.   *)
(***************************************************************************)
EXTENDS Integers, FiniteSets, Sequences

CONSTANTS
  Threads,
  Servers,        \* what wolfSSL_SetServerID names
  IDs,            \* the IDs of sessions that fall in this row
  PER_ROW,        \* SESSIONS_PER_ROW
  CLIENT_PER_ROW, \* CLIENT_SESSIONS_PER_ROW
  TIMEOUT,        \* life of a session
  MAX_TIME,       \* bound: the clock
  MAX_CALLS       \* bound: the calls made

NoOne == "no one"

ASSUME SizeAssumption == /\ PER_ROW \in Nat \ {0}
                         /\ CLIENT_PER_ROW \in Nat \ {0}
ASSUME ThreadAssumption == NoOne \notin Threads
ASSUME IDAssumption == IDs \subseteq Servers \X (Nat \ {0})
ASSUME BoundAssumption == {TIMEOUT, MAX_TIME, MAX_CALLS} \subseteq Nat

VARIABLES
  entry,    \* SessionCache[row].Sessions
  ring,     \* SessionCache[row]: nextIdx and totalCount
  object,   \* ClientCache[row].Clients
  clients,  \* ClientCache[row]: nextIdx and totalCount
  lock,     \* who holds the row for writing
  mutex,    \* who holds clisession_mutex
  call,     \* the call each thread is in
  ref,      \* the object wolfSSL_get_session gave each thread
  session,  \* ssl->session of the connection a thread is setting up (the ID
            \* is the one it is kept by)
  now,      \* LowResTimer
  calls,    \* calls made
  put,      \* observer: the sessions stored so far
  recent,   \* observer: what was put in the row last, newest first
  asked     \* observer: the ID the object a thread uses stood for, and how many
            \* sessions had been stored, when the object was resolved

vars == <<entry, ring, object, clients, lock, mutex, call, ref, session, now, calls,
          put, recent, asked>>

NoRef == -1

\* An ID, which the server picks, names the server and the session.  A client
\* that resumes by ticket keeps its session under an ID of its own
\* (altSessionID) and presents a bogus one in the handshake.
NoID == <<"none", 0>>
BogusID == <<"bogus", 0>>
NotAsked == [id |-> NoID, stored |-> 0]

Blank == [id |-> NoID, secret |-> 0, server |-> "none", born |-> 0]

Places == 0 .. PER_ROW - 1
ClientPlaces == 0 .. CLIENT_PER_ROW - 1

\* What a thread carries from step to step of a call.
At(place, id, idx, left) == [at |-> place, id |-> id, idx |-> idx, left |-> left]
Idle == At("idle", NoID, 0, 0)
Kept(t, place) == At(place, call[t].id, call[t].idx, call[t].left)
Goes(t, next) == call' = [call EXCEPT ![t] = next]

Init ==
  /\ entry = [i \in Places |-> Blank]
  /\ ring = [next |-> 0, total |-> 0]
  /\ object = [k \in ClientPlaces |-> [idx |-> 0, hash |-> NoID]]
  /\ clients = [next |-> 0, total |-> 0]
  /\ lock = NoOne
  /\ mutex = NoOne
  /\ call = [t \in Threads |-> Idle]
  /\ ref = [t \in Threads |-> NoRef]
  /\ session = [t \in Threads |-> Blank]
  /\ now = 0
  /\ calls = 0
  /\ put = {}
  /\ recent = <<>>
  /\ asked = [t \in Threads |-> NotAsked]

-----------------------------------------------------------------------------
(* Looking into a row.                                                     *)

\* The place used before i in a ring of n.
Before(i, n) == IF i > 0 THEN i - 1 ELSE n - 1

\* How far back from the newest place i is.
Back(i) == (ring.next - 1 - i) % PER_ROW

\* Where TlsSessionCacheGetAndLock finds an ID, starting from the most recent.
Matches(id) == {i \in Places : /\ Back(i) < ring.total
                               /\ entry[i].id # NoID /\ entry[i].id = id}
Found(id) == {i \in Matches(id) : \A j \in Matches(id) : Back(i) <= Back(j)}

Expired(s) == now >= s.born + TIMEOUT

\* EvictSessionFromCache clears the secret and the ID; what else the session
\* holds (its server, its age) stays.
Evicted(s) == [id |-> NoID, secret |-> 0, server |-> s.server, born |-> s.born]
Evict(i) == entry' = [entry EXCEPT ![i] = Evicted(@)]

\* A ring of n after an insertion.
Advanced(r, n) == [next |-> (r.next + 1) % n,
                   total |-> IF r.total < n THEN r.total + 1 ELSE r.total]

\* wc_LockRwLock_Rd and wc_LockRwLock_Wr; sections that read are single steps,
\* so a reader is never seen holding the lock.
Readable == lock = NoOne

-----------------------------------------------------------------------------
(***************************************************************************)
(* AddSession: AddSessionToCache, then AddSessionToClientCache.            *)
(***************************************************************************)

\* The sessions with this ID; the first one is overwritten.
NeverSame(id) == {}
Same(id) == {i \in Places : i < ring.total /\ entry[i].id = id}

\* Locks the row and picks the place: that of the session with this ID, or the
\* next of the ring, whose session is evicted.
AddClaim(t) ==
  /\ call[t].at = "claim"
  /\ lock = NoOne
  /\ lock' = t
  /\ LET id == call[t].id
     IN  \/ /\ Same(id) # {}
            /\ \E i \in Same(id) : /\ \A j \in Same(id) : i <= j
                                   /\ Goes(t, At("overwrite", id, i, 0))
            /\ UNCHANGED entry
         \/ /\ Same(id) = {}
            /\ Evict(ring.next)
            /\ Goes(t, At("insert", id, ring.next, 0))
  /\ UNCHANGED <<ring, object, clients, mutex, ref, session, now, calls, put,
                 recent, asked>>

\* wolfSSL_DupSession: the session with the ID of the handshake.  The alternative
\* ID stands before the part that is copied and never gets into the row.
AddDup(t) ==
  /\ call[t].at \in {"overwrite", "insert"}
  /\ \E own \in {call[t].id, BogusID} :
       entry' = [entry EXCEPT ![call[t].idx] =
                   [id |-> own, secret |-> Cardinality(put) + 1,
                    server |-> call[t].id[1], born |-> now]]
  /\ Goes(t, Kept(t, IF call[t].at = "insert" THEN "advance" ELSE "name"))
  /\ UNCHANGED <<ring, object, clients, lock, mutex, ref, session, now, calls, put,
                 recent, asked>>

\* The indices of the ring, unless a session was overwritten, and the ID under
\* which the session is kept.
Stored(t) == [id |-> call[t].id, secret |-> entry[call[t].idx].secret]

Named(s, id) == [id |-> id, secret |-> s.secret, server |-> s.server, born |-> s.born]

AddName(t) ==
  /\ call[t].at \in {"advance", "name"}
  /\ entry' = [entry EXCEPT ![call[t].idx] = Named(@, call[t].id)]
  /\ ring' = IF call[t].at = "name" THEN ring ELSE Advanced(ring, PER_ROW)
  /\ put' = put \cup {Stored(t)}
  /\ recent' = IF call[t].at = "name"
               THEN [k \in DOMAIN recent |->
                       IF recent[k].id = call[t].id THEN Stored(t) ELSE recent[k]]
               ELSE SubSeq(<<Stored(t)>> \o recent, 1,
                           IF Len(recent) < PER_ROW THEN Len(recent) + 1 ELSE PER_ROW)
  /\ Goes(t, Kept(t, "unlock"))
  /\ UNCHANGED <<object, clients, lock, mutex, ref, session, now, calls, asked>>

KeepLockAddUnlock(t) ==
  /\ call[t].at = "unlock"
  /\ Goes(t, Kept(t, "index"))
  /\ UNCHANGED <<entry, ring, object, clients, lock, mutex, ref, session, now,
                 calls,
                 put, recent, asked>>

\* "Can't access after unlocked": the place is all that is left.
AddUnlock(t) ==
  /\ call[t].at = "unlock"
  /\ lock' = NoOne
  /\ Goes(t, Kept(t, "index"))
  /\ UNCHANGED <<entry, ring, object, clients, mutex, ref, session, now, calls,
                 put, recent, asked>>

AddSessionToClientCache(t) ==
  /\ call[t].at = "index"
  /\ mutex = NoOne
  /\ object' = [object EXCEPT ![clients.next] =
                  [idx |-> call[t].idx, hash |-> call[t].id]]
  /\ clients' = Advanced(clients, CLIENT_PER_ROW)
  /\ ref' = [ref EXCEPT ![t] = clients.next]
  /\ Goes(t, Idle)
  /\ UNCHANGED <<entry, ring, lock, mutex, session, now, calls, put, recent, asked>>

(***************************************************************************)
(* wolfSSL_GetSessionFromCache.  A session that has timed out is evicted   *)
(* under the write lock, after the read lock was given up and without      *)
(* asking for its age again.                                               *)
(***************************************************************************)
Lookup(t) ==
  /\ call[t].at = "lookup"
  /\ Readable
  /\ LET id == call[t].id
     IN  \/ \E i \in Found(id) :
              /\ ~ Expired(entry[i])
              /\ session' = [session EXCEPT ![t] = entry[i]]
              /\ Goes(t, Idle)
         \/ \E i \in Found(id) :
              /\ Expired(entry[i])
              /\ Goes(t, At("expired", id, 0, 0))
              /\ UNCHANGED session
         \/ /\ Matches(id) = {}
            /\ Goes(t, Idle)
            /\ UNCHANGED session
  /\ UNCHANGED <<entry, ring, object, clients, lock, mutex, ref, now, calls, put,
                 recent, asked>>

\* The observer forgets a session that was evicted, not its place in the ring.
Forgets(ids) ==
  recent' = [k \in DOMAIN recent |->
               IF recent[k].id \in ids THEN [id |-> NoID, secret |-> 0] ELSE recent[k]]

\* TlsSessionCacheGetAndWrLock and EvictSessionFromCache.
GetAndEvict(id) ==
  /\ lock = NoOne
  /\ \/ \E i \in Found(id) : Evict(i) /\ Forgets({entry[i].id})
     \/ /\ Matches(id) = {}
        /\ UNCHANGED <<entry, recent>>

EvictExpired(t) ==
  /\ call[t].at = "expired"
  /\ GetAndEvict(call[t].id)
  /\ Goes(t, Idle)
  /\ UNCHANGED <<ring, object, clients, lock, mutex, ref, session, now, calls, put,
                 asked>>

(***************************************************************************)
(* wolfSSL_SetServerID: wolfSSL_GetSessionClient goes through the client   *)
(* cache under its mutex, locks the row for each object, and returns a     *)
(* pointer into the row; wolfSSL_SetSession locks the row again.           *)
(***************************************************************************)
SearchLock(t) ==
  /\ call[t].at = "server"
  /\ mutex = NoOne
  /\ mutex' = t
  /\ Goes(t, At("search", call[t].id, Before(clients.next, CLIENT_PER_ROW), clients.total))
  /\ UNCHANGED <<entry, ring, object, clients, lock, ref, session, now, calls, put,
                 recent, asked>>

\* Without a session, the connection only takes the name of the server.
ForServer(s, server) == [id |-> s.id, secret |-> s.secret, server |-> server,
                         born |-> s.born]

GetSessionClient(t) ==
  /\ call[t].at = "search"
  /\ \/ /\ call[t].left = 0
        /\ mutex' = NoOne
        /\ session' = [session EXCEPT ![t] = ForServer(@, call[t].id[1])]
        /\ Goes(t, Idle)
     \/ /\ call[t].left > 0
        /\ Readable
        /\ LET i == object[call[t].idx].idx
               current == entry[i]
           IN  \/ /\ current.server = call[t].id[1] /\ ~ Expired(current)
                  /\ mutex' = NoOne
                  /\ Goes(t, At("set", call[t].id, i, 0))
               \/ /\ ~ (current.server = call[t].id[1] /\ ~ Expired(current))
                  /\ Goes(t, At("search", call[t].id, Before(call[t].idx, CLIENT_PER_ROW),
                             call[t].left - 1))
                  /\ UNCHANGED mutex
        /\ UNCHANGED session
  /\ UNCHANGED <<entry, ring, object, clients, lock, ref, now, calls, put, recent,
                 asked>>

(***************************************************************************)
(* wolfSSL_set_session and wolfSSL_SSL_CTX_remove_session on the object    *)
(* wolfSSL_get_session gave: ClientSessionToSession finds its session,     *)
(* with the mutex and inside it the row locked, and compares the hash of   *)
(* the ID with the one in the object (different IDs, different hashes).    *)
(***************************************************************************)
ResolveLock(t) ==
  /\ call[t].at \in {"resolve to set", "resolve to remove"}
  /\ mutex = NoOne
  /\ mutex' = t
  /\ Goes(t, Kept(t, IF call[t].at = "resolve to set" THEN "to set" ELSE "to remove"))
  /\ UNCHANGED <<entry, ring, object, clients, lock, ref, session, now, calls, put,
                 recent, asked>>

\* The hash is not compared.
AnyClientSession(i, o) == entry[i].id # NoID

\* Is the session at place i the one the object stands for?
SameClientSession(i, o) == entry[i].id # NoID /\ entry[i].id = o.hash

ClientSessionToSession(t) ==
  /\ call[t].at \in {"to set", "to remove"}
  /\ Readable
  /\ mutex' = NoOne
  /\ LET o == object[ref[t]]
     IN  \/ /\ ~ SameClientSession(o.idx, o)
            /\ Goes(t, Idle)
            /\ UNCHANGED asked
         \/ /\ SameClientSession(o.idx, o)
            /\ Goes(t, At(IF call[t].at = "to set" THEN "set" ELSE "remove",
                          NoID, o.idx, 0))
            /\ asked' = [asked EXCEPT ![t] = [id |-> o.hash, stored |-> Cardinality(put)]]
  /\ UNCHANGED <<entry, ring, object, clients, lock, ref, session, now, calls, put,
                 recent>>

UnlockedSetSession(t) ==
  /\ call[t].at = "set"
  /\ session' = [session EXCEPT ![t] = entry[call[t].idx]]
  /\ Goes(t, Idle)
  /\ UNCHANGED <<entry, ring, object, clients, lock, mutex, ref, now, calls, put,
                 recent, asked>>

\* wolfSSL_SetSession copies what is at the place now, then looks at its age.
SetSession(t) ==
  /\ call[t].at = "set"
  /\ Readable
  /\ LET copy == entry[call[t].idx]
     IN  session' = [session EXCEPT ![t] =
                       IF call[t].id # NoID /\ Expired(copy)
                       THEN ForServer(copy, call[t].id[1]) ELSE copy]
  /\ Goes(t, Idle)
  /\ UNCHANGED <<entry, ring, object, clients, lock, mutex, ref, now, calls, put,
                 recent, asked>>

\* wolfSSL_SSL_CTX_remove_session has a pointer to the ID in the row and reads
\* what it is now, under the lock.
RemoveSession(t) ==
  /\ call[t].at = "remove"
  /\ GetAndEvict(entry[call[t].idx].id)
  /\ Goes(t, Idle)
  /\ UNCHANGED <<ring, object, clients, lock, mutex, ref, session, now, calls, put,
                 asked>>

\* wolfSSL_CTX_flush_sessions, with the present as the time.
Flush(t) ==
  /\ call[t].at = "flush"
  /\ lock = NoOne
  /\ LET old == {i \in Places : entry[i].id # NoID /\ entry[i].born + TIMEOUT < now}
     IN  /\ entry' = [i \in Places |->
                       IF i \in old THEN Evicted(entry[i]) ELSE entry[i]]
         /\ Forgets({entry[i].id : i \in old})
  /\ Goes(t, Idle)
  /\ UNCHANGED <<ring, object, clients, lock, mutex, ref, session, now, calls, put,
                 asked>>

-----------------------------------------------------------------------------
\* The application calls, on a new connection.
Call(t) ==
  /\ call[t] = Idle
  /\ calls < MAX_CALLS
  /\ calls' = calls + 1
  /\ \/ \E id \in IDs, place \in {"claim", "lookup"} : Goes(t, At(place, id, 0, 0))
     \/ \E server \in Servers : Goes(t, At("server", <<server, 0>>, 0, 0))
     \/ /\ ref[t] # NoRef
        /\ \E place \in {"resolve to set", "resolve to remove"} : Goes(t, At(place, NoID, 0, 0))
     \/ Goes(t, At("flush", NoID, 0, 0))
  /\ session' = [session EXCEPT ![t] = Blank]
  /\ asked' = [asked EXCEPT ![t] = NotAsked]
  /\ UNCHANGED <<entry, ring, object, clients, lock, mutex, ref, now, put, recent>>

Step(t) == \/ AddClaim(t) \/ AddDup(t) \/ AddName(t) \/ AddUnlock(t)
           \/ AddSessionToClientCache(t)
           \/ Lookup(t) \/ EvictExpired(t)
           \/ SearchLock(t) \/ GetSessionClient(t)
           \/ ResolveLock(t) \/ ClientSessionToSession(t) \/ SetSession(t)
           \/ RemoveSession(t) \/ Flush(t)

Tick == /\ now < MAX_TIME
        /\ now' = now + 1
        /\ UNCHANGED <<entry, ring, object, clients, lock, mutex, call, ref,
                       session,
                       calls, put, recent, asked>>

Next == Tick \/ \E t \in Threads : Call(t) \/ Step(t)

Spec == Init /\ [][Next]_vars

-----------------------------------------------------------------------------
\* A session a connection has got from the cache is one that was put there: its
\* secret goes with its ID, although DupSession first writes the ID of the
\* handshake and a pointer may be used after its place was reused.  At worst it
\* is an evicted one, without ID and secret.  If the application named it with
\* an object of wolfSSL_get_session, it has the ID the object stands for, or was
\* stored after ClientSessionToSession had looked: a place that was reused
\* earlier, however often, is noticed.
AskedFor(s, a) == \/ a = NotAsked
                  \/ s.id \in {NoID, a.id}
                  \/ s.secret > a.stored

SessionsWhole ==
  \A t \in Threads :
    /\ \/ session[t].id = NoID /\ session[t].secret = 0
       \/ [id |-> session[t].id, secret |-> session[t].secret] \in put
    /\ AskedFor(session[t], asked[t])

\* The row is what AddSession makes of the last PER_ROW insertions: an ID is
\* found if it is among them and was not evicted, once, and with the secret
\* stored last, whatever was overwritten, evicted or timed out in between.
RowIsLastStored ==
  lock = NoOne =>
    /\ \A id \in IDs : Cardinality(Matches(id)) <= 1
    /\ {[id |-> entry[i].id, secret |-> entry[i].secret] :
          i \in {j \in Places : entry[j].id # NoID}}
         = {recent[k] : k \in {k \in DOMAIN recent : recent[k].id # NoID}}

\* No deadlock: while there are calls, one of them is not waiting for a lock.
\* GetSessionClient and ClientSessionToSession lock the row inside the mutex;
\* AddSessionToCache has given the row up before it asks for the mutex.
WaitsForRow(t) ==
  /\ lock # NoOne
  /\ call[t].at \in {"claim", "lookup", "expired", "search", "to set", "to remove",
                     "set", "remove", "flush"}
WaitsForMutex(t) ==
  /\ mutex # NoOne
  /\ call[t].at \in {"index", "server", "resolve to set", "resolve to remove"}

SomeoneProceeds ==
  LET busy == {t \in Threads : call[t] # Idle}
  IN  busy # {} => \E t \in busy : ~ WaitsForRow(t) /\ ~ WaitsForMutex(t)
=============================================================================
