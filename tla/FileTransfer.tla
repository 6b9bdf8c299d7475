---------------------------- MODULE FileTransfer ----------------------------
(***************************************************************************)
(* What a file transfer promises to the shell that asked for it: the file  *)
(* appears block after block, nothing else is ever stored, and success is  *)
(* reported only for the whole file.  The receive loop of my_xmodem.c is   *)
(* shown to implement this specification.                                  *)
(***************************************************************************)
EXTENDS Naturals, Sequences

CONSTANT File       \* the sequence of blocks the sender holds

VARIABLES stored,   \* the blocks in memory, in address order
          outcome   \* what the caller has been told

vars == <<stored, outcome>>

Init == /\ stored = <<>>
        /\ outcome = "pending"

StoreNext == /\ outcome = "pending"
             /\ Len(stored) < Len(File)
             /\ stored' = Append(stored, File[Len(stored) + 1])
             /\ UNCHANGED outcome

Succeed == /\ outcome = "pending"
           /\ stored = File
           /\ outcome' = "success"
           /\ UNCHANGED stored

Fail == /\ outcome = "pending"
        /\ outcome' = "failure"
        /\ UNCHANGED stored

Next == StoreNext \/ Succeed \/ Fail

Spec == Init /\ [][Next]_vars
=============================================================================
