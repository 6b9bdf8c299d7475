----------------------------- MODULE BlockCopy ------------------------------
(***************************************************************************)
(* What a started memory transfer promises: the bytes of one picture       *)
(* arrive at the destination one by one, in order, and the transfer is     *)
(* over when as many as were asked for have arrived.                       *)
(***************************************************************************)
EXTENDS Naturals

CONSTANTS
  Pictures,  \* sources
  Sizes,     \* transfer sizes
  FbBytes    \* bytes of the destination

VARIABLES
  fb,     \* the destination, byte by byte: <<picture, position>>
  job,    \* the size of the transfer in progress, {} for none
  stored  \* bytes of it that have arrived

Start == \E n \in Sizes : job = {} /\ job' = {n} /\ stored' = 0 /\ UNCHANGED fb

\* The first byte decides which picture it is.
CopyByte == \E n \in job, p \in Pictures :
  /\ stored < n
  /\ stored > 0 => fb[0] = <<p, 0>>
  /\ fb' = [fb EXCEPT ![stored] = <<p, stored>>]
  /\ stored' = stored + 1
  /\ UNCHANGED job

Finish == job = {stored} /\ job' = {} /\ UNCHANGED <<fb, stored>>

Init == fb = [k \in 0..(FbBytes - 1) |-> <<>>] /\ job = {} /\ stored = 0
Next == Start \/ CopyByte \/ Finish
Spec == Init /\ [][Next]_<<fb, job, stored>>
=============================================================================
