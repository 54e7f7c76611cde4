------------------------- MODULE StatefulSignatures -------------------------
(***************************************************************************)
(* The signing keys of LMS/HSS (wc_lms.c) and XMSS (wc_xmss.c).  A key is  *)
(* a fixed number of one-time keys; the private key holds the index of the *)
(* next one and lives in non-volatile storage behind the application's     *)
(* write and read callbacks.  Signing twice with one index breaks the key, *)
(* so the advanced index has to be stored before a signature is released,  *)
(* whatever fails and wherever the power goes.                             *)
(*                                                                         *)
(* The two schemes differ in where the index is while a key object is in   *)
(* use: LMS keeps it in memory (priv_raw) from MakeKey or Reload on and    *)
(* only writes; XMSS reads storage at every signature and keeps nothing.   *)
(* The key objects of the application share the storage; the application   *)
(* makes one call at a time, and with LMS has one live object.  Calls are  *)
(* split where a crash makes a difference.                                 *)
(***************************************************************************)
EXTENDS Integers, Sequences

CONSTANTS
    Handles,        \* LmsKey or XmssKey objects
    LEAVES,         \* one-time keys of a private key, 2^(total height)
    MAX_KEYS        \* bound: private keys generated

ASSUME LeavesAssumption == LEAVES \in Nat \ {0} /\ MAX_KEYS \in Nat

VARIABLES
    scheme,         \* "lms" or "xmss"
    state,          \* key->state, by object
    priv,           \* index in memory (priv_raw, sk), by object
    nv,             \* what storage holds
    step,           \* where the call in progress is, "idle" if there is none
    who,            \* the object of that call
    sig,            \* the index of the signature in the last caller's buffer
    made,           \* private keys generated so far
    released        \* the indices of the signatures returned, in order

call == <<step, who, sig>>
keyVars == <<scheme, state, priv, nv, step, who, sig, made, released>>

States == {"FREED", "INITED", "PARMSET", "OK", "BAD", "NOSIGS"}

\* An index: which private key, and which of its one-time keys is next.
Index == [key : 0 .. MAX_KEYS, q : 0 .. LEAVES]
NoKey == [key |-> 0, q |-> 0]

KeysTypeOK == /\ scheme \in {"lms", "xmss"}
              /\ state \in [Handles -> States]
              /\ priv \in [Handles -> Index]
              /\ nv \in Index /\ sig \in Index
              /\ step \in {"idle", "make", "sign", "write"}
              /\ who \in Handles
              /\ made \in 0 .. MAX_KEYS
              /\ released \in Seq(Index)

KeysInit == /\ scheme \in {"lms", "xmss"}
            /\ state = [h \in Handles |-> "FREED"]
            /\ priv = [h \in Handles |-> NoKey]
            /\ nv = NoKey /\ sig = NoKey
            /\ step = "idle" /\ who \in Handles
            /\ made = 0 /\ released = <<>>

-----------------------------------------------------------------------------
SetState(h, s) == state' = [state EXCEPT ![h] = s]
SetPriv(h, i) == priv' = [priv EXCEPT ![h] = i]

\* XMSS wipes the secret key from memory at the end of every call.
Wipe(h) == IF scheme = "xmss" THEN SetPriv(h, NoKey) ELSE UNCHANGED priv

EndCall == step' = "idle" /\ sig' = NoKey /\ UNCHANGED who
\* Off by one.
LateSigsLeft(i) == i.q <= LEAVES

SigsLeft(i) == i.q < LEAVES
Advance(i) == [i EXCEPT !.q = @ + 1]

\* The application's side of LMS: one object that may sign at a time.
OnlyLive(h) == scheme = "lms" => \A g \in Handles \ {h} : state[g] # "OK"

(***************************************************************************)
(* wc_LmsKey_Init / wc_XmssKey_Init, SetParameters / SetParamStr, Free.    *)
(***************************************************************************)
InitKey(h) == /\ step = "idle" /\ state[h] = "FREED"
              /\ SetState(h, "INITED")
              /\ UNCHANGED <<scheme, priv, nv, call, made, released>>

SetParameters(h) == /\ step = "idle" /\ state[h] = "INITED"
                    /\ SetState(h, "PARMSET")
                    /\ UNCHANGED <<scheme, priv, nv, call, made, released>>

FreeKey(h) == /\ step = "idle" /\ state[h] # "FREED"
              /\ SetState(h, "FREED") /\ SetPriv(h, NoKey)
              /\ UNCHANGED <<scheme, nv, call, made, released>>

(***************************************************************************)
(* wc_LmsKey_MakeKey and wc_XmssKey_MakeKey: generate, then write.  The    *)
(* write callback can save and say so, save and report a failure all the   *)
(* same, or not save.  An LMS key whose write failed may be made again.    *)
(***************************************************************************)
MakeKey(h) ==
    /\ step = "idle" /\ state[h] = "PARMSET" /\ OnlyLive(h)
    /\ made < MAX_KEYS
    /\ made' = made + 1
    /\ SetPriv(h, [key |-> made + 1, q |-> 0])
    /\ step' = "make" /\ who' = h
    /\ UNCHANGED <<scheme, state, nv, sig, released>>

MakeKeyWrite(h) ==
    /\ step = "make" /\ who = h
    /\ \/ nv' = priv[h] /\ SetState(h, "OK")
       \/ /\ nv' \in {nv, priv[h]}
          /\ IF scheme = "xmss" THEN SetState(h, "BAD") ELSE UNCHANGED state
    /\ Wipe(h)
    /\ EndCall
    /\ UNCHANGED <<scheme, made, released>>

(***************************************************************************)
(* wc_LmsKey_Reload keeps what it read; wc_XmssKey_Reload only tries the   *)
(* read, and does not look at the index.  The read may fail.               *)
(***************************************************************************)
Reload(h) ==
    /\ step = "idle" /\ state[h] = "PARMSET" /\ OnlyLive(h)
    /\ \/ /\ nv # NoKey
          /\ SetState(h, IF scheme = "xmss" \/ SigsLeft(nv) THEN "OK" ELSE "NOSIGS")
          /\ IF scheme = "lms" THEN SetPriv(h, nv) ELSE UNCHANGED priv
       \/ /\ IF scheme = "xmss" THEN SetState(h, "BAD") ELSE UNCHANGED state
          /\ UNCHANGED priv
    /\ UNCHANGED <<scheme, nv, call, made, released>>

(***************************************************************************)
(* wc_LmsKey_Sign and wc_xmsskey_signupdate.  The key is bad from the      *)
(* first step to the committed write, so that a failure in between leaves  *)
(* it bad.  XMSS reads the index first.                                    *)
(***************************************************************************)
SignBegin(h) ==
    /\ step = "idle" /\ state[h] = "OK"
    /\ SetState(h, "BAD")
    /\ \/ /\ IF scheme = "xmss" THEN SetPriv(h, nv) ELSE UNCHANGED priv
          /\ step' = "sign" /\ who' = h /\ UNCHANGED sig
       \/ scheme = "xmss" /\ UNCHANGED <<priv, call>>          \* read failed
    /\ UNCHANGED <<scheme, nv, made, released>>

\* wc_hss_sign, wc_xmss_sign: exhausted, failed, or a signature in the
\* caller's buffer and the index in memory advanced.  wc_hss_sign may fail even
\* then, when it prepares the next signature (wc_hss_expand_private_key,
\* wc_hss_update_auth_path): the index stays advanced and the signature stays
\* in the buffer of a call that returns an error.
Sign(h) ==
    /\ step = "sign" /\ who = h
    /\ \/ /\ ~ SigsLeft(priv[h])
          /\ SetState(h, "NOSIGS") /\ Wipe(h) /\ EndCall
       \/ /\ SigsLeft(priv[h])
          /\ Wipe(h) /\ EndCall /\ UNCHANGED state
       \/ /\ scheme = "lms" /\ SigsLeft(priv[h]) /\ SigsLeft(Advance(priv[h]))
          /\ SetPriv(h, Advance(priv[h]))
          /\ step' = "idle" /\ sig' = priv[h] /\ UNCHANGED <<state, who>>
       \/ /\ SigsLeft(priv[h])
          /\ SetPriv(h, Advance(priv[h]))
          /\ step' = "write" /\ sig' = priv[h] /\ UNCHANGED <<state, who>>
    /\ UNCHANGED <<scheme, nv, made, released>>

\* What the write callback returns is not looked at.
UncheckedSignWrite(h) ==
    /\ step = "write" /\ who = h
    /\ nv' \in {nv, priv[h]} /\ SetState(h, "OK")
    /\ released' = Append(released, sig)
    /\ Wipe(h)
    /\ EndCall
    /\ UNCHANGED <<scheme, made>>

\* The key stays usable after a failed write.
StillGoodSignWrite(h) ==
    /\ step = "write" /\ who = h
    /\ \/ nv' = priv[h] /\ released' = Append(released, sig)
       \/ nv' \in {nv, priv[h]} /\ UNCHANGED released
    /\ SetState(h, "OK")
    /\ Wipe(h)
    /\ EndCall
    /\ UNCHANGED <<scheme, made>>

SignWrite(h) ==
    /\ step = "write" /\ who = h
    /\ \/ /\ nv' = priv[h] /\ SetState(h, "OK")
          /\ released' = Append(released, sig)
       \/ nv' \in {nv, priv[h]} /\ UNCHANGED <<state, released>>
    /\ Wipe(h)
    /\ EndCall
    /\ UNCHANGED <<scheme, made>>

(***************************************************************************)
(* The process dies, in the middle of a write before or after it took      *)
(* effect; storage remains.  A signature not yet returned is lost.         *)
(***************************************************************************)
Crash == /\ state' = [h \in Handles |-> "FREED"]
         /\ priv' = [h \in Handles |-> NoKey]
         /\ nv' \in {nv} \cup (IF step \in {"make", "write"} THEN {priv[who]} ELSE {})
         /\ EndCall
         /\ UNCHANGED <<scheme, made, released>>

KeysNext == \/ \E h \in Handles : \/ InitKey(h) \/ SetParameters(h) \/ FreeKey(h)
                                  \/ MakeKey(h) \/ MakeKeyWrite(h) \/ Reload(h)
                                  \/ SignBegin(h) \/ Sign(h) \/ SignWrite(h)
            \/ Crash

KeysSpec == KeysInit /\ [][KeysNext]_keyVars

-----------------------------------------------------------------------------
(***************************************************************************)
(* No two signatures that were ever returned used the same one-time key,   *)
(* over all failed writes, crashes, restarts and objects.                  *)
(***************************************************************************)
NoIndexReuse == \A i, j \in 1 .. Len(released) :
                    released[i] = released[j] => i = j

(***************************************************************************)
(* An LMS key that may sign holds the index that is in storage: a failed   *)
(* write never leaves a usable object that has moved away from it.         *)
(***************************************************************************)
MemoryMatchesStore ==
    \A h \in Handles : scheme = "lms" /\ state[h] = "OK" => priv[h] = nv
=============================================================================
