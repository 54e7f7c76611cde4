------------------------------ MODULE BytePipe ------------------------------
(***************************************************************************)
(* What one direction of a BIO pair promises: a bounded pipe.  Bytes come  *)
(* out in the order in which they went in, each once; what a read hands    *)
(* over is exactly what it takes off the pipe; and only an explicit reset, *)
(* a new buffer or the end of the writing BIO throws bytes away.           *)
(***************************************************************************)
EXTENDS Naturals, Sequences

CONSTANTS Byte,       \* what is written
          MAX_SIZE    \* the largest buffer

VARIABLES pipe,       \* the bytes written and not yet read
          out         \* the bytes the last operation handed to the reader

vars == <<pipe, out>>

Init == pipe = <<>> /\ out = <<>>

\* A write takes a prefix of what it was offered: some bytes join the pipe.
Put == \E n \in 1 .. MAX_SIZE - Len(pipe) : \E s \in [1 .. n -> Byte] :
          pipe' = pipe \o s /\ out' = <<>>

Take == \E n \in 1 .. Len(pipe) :
          /\ out' = SubSeq(pipe, 1, n)
          /\ pipe' = SubSeq(pipe, n + 1, Len(pipe))

\* An operation that moves nothing.
Idle == out' = <<>> /\ UNCHANGED pipe

Clear == pipe' = <<>> /\ out' = <<>>

Next == Put \/ Take \/ Idle \/ Clear

Spec == Init /\ [][Next]_vars
=============================================================================
