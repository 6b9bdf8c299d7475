------------------------------ MODULE Monitor -------------------------------
(***************************************************************************)
(* What a boot monitor promises its operator: a command changes only the   *)
(* memory that its arguments name, it ends with everything in place unless *)
(* the card or the line failed it, and a program is started only after the *)
(* command that brings it has ended that way.  Superboot is shown to       *)
(* implement this specification.                                           *)
(***************************************************************************)
VARIABLES memory,   \* a function from addresses
          mode,     \* "off", "console", "started" (a program runs), "lost"
          task,     \* the command under way
          spoiled   \* it has met a failure it cannot see

vars == <<memory, mode, task, spoiled>>

\* cells may change; wanted is what they must hold in the end.
None == [cells |-> {}, wanted |-> <<>>]

Kept(cells) == \A a \in DOMAIN memory \ cells : memory'[a] = memory[a]
Met == \A a \in DOMAIN task.wanted : memory'[a] = task.wanted[a]

Init == mode = "off" /\ task = None /\ spoiled = FALSE

TurnOn == /\ mode = "off"
          /\ mode' \in {"console", "lost"}
          /\ UNCHANGED task

Begin == /\ mode = "console" /\ task = None
         /\ task' # None
         /\ UNCHANGED <<memory, mode>>

Work == /\ mode = "console"
        /\ Kept(task.cells)
        /\ mode' \in {"console", "lost"}
        /\ task # None /\ spoiled => spoiled'
        /\ UNCHANGED task

Finish == /\ mode = "console"
          /\ Kept(task.cells)
          /\ spoiled \/ Met
          /\ task' = None
          /\ mode' \in {"console", "started", "lost"}
          /\ UNCHANGED spoiled

Return == /\ mode = "started" /\ mode' = "console"
          /\ UNCHANGED <<memory, task, spoiled>>

TurnOff == mode' = "off" /\ task' = None

Next == TurnOn \/ Begin \/ Work \/ Finish \/ Return \/ TurnOff

Spec == Init /\ [][Next]_vars
=============================================================================
