------------------------------- MODULE Pl330 --------------------------------
(***************************************************************************)
(* Copying a picture to the frame buffer with the PL330 DMA controller:    *)
(* dma_mem_transfer, _setup_loops and _loop of                             *)
(* src/tiny210-linux-codes/prj3-dpf-dma/dma.c write a program of DMA       *)
(* instructions into a buffer on the stack and start it; the controller    *)
(* (external) then runs it while the processor goes on.                    *)
(*                                                                         *)
(* A byte of the buffer is an instruction at the instruction's first byte  *)
(* and "operand" at the others, so a jump that lands anywhere else is      *)
(* seen.  A byte of a picture is <<picture, position>>.                    *)
(***************************************************************************)
EXTENDS Integers, Sequences

CONSTANTS
  CountModulus,  \* counts an LP byte can hold, and the largest count: 256 in the code
  JumpModulus,   \* backward jumps an LPEND byte can hold: 256 in the code
  BufBytes,      \* size of buf: 60000 in the code
  StackUse,      \* bytes at the end of buf that later calls may overwrite
  Pictures,      \* sources
  Sizes,         \* bound: the sizes asked for
  FbBytes,       \* bound: bytes of the destination that are modelled
  MaxCalls       \* bound: calls of dma_mem_transfer

ASSUME ByteAssumption ==
  /\ CountModulus \in Nat /\ CountModulus >= 2
  /\ JumpModulus \in Nat /\ JumpModulus >= 11
ASSUME BufAssumption ==
  /\ BufBytes \in Nat /\ StackUse \in 0..BufBytes
  /\ FbBytes \in Nat /\ Sizes \subseteq 0..FbBytes /\ MaxCalls \in Nat

VARIABLES
  pc,      \* the call: "idle", "head", "loops", "go"
  pic,     \* argument src
  size,    \* argument size, the same in every call
  bursts,  \* of _setup_loops: what is left to be programmed
  off,     \* bytes of buf written
  code,    \* buf
  calls,   \* calls returned
  st,      \* channel 0: "stopped", "executing"
  mpc,     \* its program counter, relative to buf
  lc,      \* its two loop counters
  sar,     \* its source address
  dar,     \* its destination address
  fifo,    \* bytes loaded and not stored
  fb,      \* the frame buffer
  job,     \* history: the size of the transfer in progress, {} for none
  stored   \* history: bytes of it stored

cpuVars == <<pc, pic, size, bursts, off, code, calls>>
engineVars == <<st, mpc, lc, sar, dar, fifo, fb>>
history == <<job, stored>>
vars == <<cpuVars, engineVars, history>>

-----------------------------------------------------------------------------
(* Instructions and the bytes they take.                                   *)

Instr(op, a, b) == [op |-> op, a |-> a, b |-> b]
Operand == Instr("operand", 0, 0)
Length == [MOV |-> 6, LP |-> 2, LD |-> 1, ST |-> 1, LPEND |-> 2, SEV |-> 2, END |-> 1]
Emit(i) == <<i>> \o [k \in 1..(Length[i.op] - 1) |-> Operand]

\* _emit_LP takes the count as a u8 and stores one less.
LP(loop, cnt) == Emit(Instr("LP", loop, (cnt - 1) % CountModulus))
LPEND(loop, bjump) == Emit(Instr("LPEND", loop, bjump % JumpModulus))

\* What one call of _loop programs when b bursts are left: lcnt0 rounds (0: no
\* outer loop) of lcnt1 rounds of cyc bursts.
cycmax == (JumpModulus - 1 - (2 * 2 + 2 * 2)) \div 2
Full == CountModulus * CountModulus
\* Bytes of program that are enough for n bursts: the head, a largest chunk for
\* every Full * cycmax of them, a smaller one, one of two loops and cyc 1, one of
\* a single loop, and the tail.  A picture of 522240 bytes needs no more than 289.
Room(n) == 18 + (n \div (Full * cycmax)) * (8 + 2 * cycmax) + (8 + 2 * (cycmax - 1)) + 10 + 6 + 3
ASSUME RoomAssumption == \A n \in Sizes : Room(n) <= BufBytes - StackUse

ChunkUncapped(b) ==
  IF b >= Full
  THEN [lcnt0 |-> CountModulus, lcnt1 |-> CountModulus,
        cyc |-> (b \div CountModulus) \div CountModulus]
  ELSE IF b > CountModulus
  THEN [lcnt0 |-> b \div CountModulus, lcnt1 |-> CountModulus, cyc |-> 1]
  ELSE [lcnt0 |-> 0, lcnt1 |-> b, cyc |-> 1]
ChunkOneLoop(b) ==
  [lcnt0 |-> 0, lcnt1 |-> IF b > CountModulus THEN CountModulus ELSE b, cyc |-> 1]
ChunkRoundsUp(b) ==
  LET c == ChunkUncapped(b) IN
  [c EXCEPT !.cyc = IF cycmax < c.cyc THEN cycmax ELSE c.cyc,
            !.lcnt0 = IF b > CountModulus /\ b < Full THEN @ + 1 ELSE @]
Chunk(b) ==
  LET c == ChunkUncapped(b) IN
  [c EXCEPT !.cyc = IF cycmax < c.cyc THEN cycmax ELSE c.cyc]

\* *bursts at the end of _loop.
Consumed(c) == c.lcnt1 * c.cyc * (IF c.lcnt0 = 0 THEN 1 ELSE c.lcnt0)

LoopCode(c) ==
  LET body == [k \in 1..(2 * c.cyc) |-> Instr(IF k % 2 = 1 THEN "LD" ELSE "ST", 0, 0)]
      inner == LP(1, c.lcnt1) \o body \o LPEND(1, Len(body)) IN
  IF c.lcnt0 = 0 THEN inner ELSE LP(0, c.lcnt0) \o inner \o LPEND(0, Len(inner))

HeadKeepsSar(p) ==
  Emit(Instr("MOV", "CCR", 0)) \o Emit(Instr("MOV", "DAR", 0)) \o
  Emit(Instr("MOV", "DAR", 0))
Head3(p) ==
  Emit(Instr("MOV", "CCR", 0)) \o Emit(Instr("MOV", "SAR", <<p, 0>>)) \o
  Emit(Instr("MOV", "DAR", 0))
TailNoEnd == Emit(Instr("SEV", 0, 0))
Tail2 == Emit(Instr("SEV", 0, 0)) \o Emit(Instr("END", 0, 0))

-----------------------------------------------------------------------------
(* dma_mem_transfer                                                        *)

Init ==
  /\ pc = "idle" /\ pic \in Pictures /\ size \in Sizes
  /\ bursts = 0 /\ off = 0 /\ calls = 0
  /\ code = [k \in 0..(BufBytes - 1) |-> Operand]
  /\ st = "stopped" /\ mpc = 0 /\ lc = <<0, 0>> /\ sar = <<pic, 0>> /\ dar = 0 /\ fifo = <<>>
  /\ fb = [k \in 0..(FbBytes - 1) |-> <<>>]
  /\ job = {} /\ stored = 0

Put(bytes) ==
  /\ code' = [k \in DOMAIN code |->
               IF off <= k /\ k < off + Len(bytes) THEN bytes[k - off + 1] ELSE code[k]]
  /\ off' = off + Len(bytes)

Call ==
  /\ pc = "idle" /\ calls < MaxCalls
  /\ pic' \in Pictures
  /\ off' = 0
  /\ pc' = "head"
  /\ UNCHANGED <<size, bursts, code, calls, engineVars, history>>

EmitHead ==
  /\ pc = "head"
  /\ Put(Head3(pic))
  /\ bursts' = size
  /\ pc' = "loops"
  /\ UNCHANGED <<pic, size, calls, engineVars, history>>

\* while (bursts) of _setup_loops, with the call of _loop.
EmitLoop ==
  /\ pc = "loops" /\ bursts # 0
  /\ Put(LoopCode(Chunk(bursts)))
  /\ bursts' = bursts - Consumed(Chunk(bursts))
  /\ UNCHANGED <<pc, pic, size, calls, engineVars, history>>

EmitTail ==
  /\ pc = "loops" /\ bursts = 0
  /\ Put(Tail2)
  /\ pc' = "go"
  /\ UNCHANGED <<pic, size, bursts, calls, engineVars, history>>

\* DBGINST0, DBGINST1 and DBGCMD, without waiting for the controller to be idle:
\* DMAGO starts a stopped channel and does nothing to one that runs.  The call
\* returns at once.
Go ==
  /\ pc = "go"
  /\ IF st = "stopped"
     THEN /\ st' = "executing" /\ mpc' = 0 /\ fifo' = <<>>
          /\ job' = {size} /\ stored' = 0
     ELSE UNCHANGED <<st, mpc, fifo, history>>
  /\ pc' = "idle" /\ calls' = calls + 1
  /\ UNCHANGED <<pic, size, bursts, off, code, lc, sar, dar, fb>>

\* The calls that follow use the stack where buf was.
OtherCalls ==
  /\ pc = "idle" /\ calls > 0
  /\ code' = [k \in DOMAIN code |-> IF k >= BufBytes - StackUse THEN Operand ELSE code[k]]
  /\ UNCHANGED <<pc, pic, size, bursts, off, calls, engineVars, history>>

-----------------------------------------------------------------------------
(* The channel (external).                                                 *)

Fetch == IF mpc \in DOMAIN code THEN code[mpc] ELSE Operand
Executes(op) == st = "executing" /\ Fetch.op = op

Mov ==
  /\ Executes("MOV")
  /\ sar' = IF Fetch.a = "SAR" THEN Fetch.b ELSE sar
  /\ dar' = IF Fetch.a = "DAR" THEN Fetch.b ELSE dar
  /\ mpc' = mpc + Length.MOV
  /\ UNCHANGED <<cpuVars, st, lc, fifo, fb, history>>

LoopStart ==
  /\ Executes("LP")
  /\ lc' = [lc EXCEPT ![Fetch.a + 1] = Fetch.b]
  /\ mpc' = mpc + Length.LP
  /\ UNCHANGED <<cpuVars, st, sar, dar, fifo, fb, history>>

LoopEnd ==
  /\ Executes("LPEND")
  /\ LET l == Fetch.a + 1 IN
     IF lc[l] = 0
     THEN mpc' = mpc + Length.LPEND /\ UNCHANGED lc
     ELSE mpc' = mpc - Fetch.b /\ lc' = [lc EXCEPT ![l] = @ - 1]
  /\ UNCHANGED <<cpuVars, st, sar, dar, fifo, fb, history>>

Load ==
  /\ Executes("LD")
  /\ fifo' = Append(fifo, sar)
  /\ sar' = <<sar[1], sar[2] + 1>>
  /\ mpc' = mpc + Length.LD
  /\ UNCHANGED <<cpuVars, st, lc, dar, fb, history>>

Store ==
  /\ Executes("ST") /\ fifo # <<>> /\ dar < FbBytes
  /\ fb' = [fb EXCEPT ![dar] = Head(fifo)]
  /\ fifo' = Tail(fifo)
  /\ dar' = dar + 1
  /\ stored' = stored + 1
  /\ mpc' = mpc + Length.ST
  /\ UNCHANGED <<cpuVars, st, lc, sar, job>>

SendEvent ==
  /\ Executes("SEV")
  /\ mpc' = mpc + Length.SEV
  /\ UNCHANGED <<cpuVars, st, lc, sar, dar, fifo, fb, history>>

End ==
  /\ Executes("END")
  /\ st' = "stopped" /\ job' = {}
  /\ UNCHANGED <<cpuVars, mpc, lc, sar, dar, fifo, fb, stored>>

Engine == Mov \/ LoopStart \/ LoopEnd \/ Load \/ Store \/ SendEvent \/ End
Cpu == Call \/ EmitHead \/ EmitLoop \/ EmitTail \/ Go \/ OtherCalls
Next == Cpu \/ Engine

Spec == Init /\ [][Next]_vars
FairSpec == Spec /\ WF_vars(Engine) /\ WF_vars(EmitHead \/ EmitLoop \/ EmitTail \/ Go)

-----------------------------------------------------------------------------
(* Properties.                                                             *)

\* The variables keep their types; the bursts left never wrap below zero.
TypeOK ==
  /\ pc \in {"idle", "head", "loops", "go"} /\ pic \in Pictures
  /\ size \in Sizes /\ bursts \in 0..size /\ off \in Nat /\ calls \in 0..MaxCalls
  /\ DOMAIN code = 0..(BufBytes - 1)
  /\ st \in {"stopped", "executing"}
  /\ mpc \in Nat /\ lc \in [1..2 -> 0..(CountModulus - 1)] /\ dar \in Nat
  /\ Len(fifo) <= 1 /\ stored \in Nat

\* The program never outgrows buf, whatever the size (dma.c:607, 635-639).
ProgramFits == off <= BufBytes

\* Whatever is left to be programmed, what _loop programs next fits the bytes of
\* its instructions: a count the u8 of DMALP can hold, backward jumps the u8 of
\* DMALPEND can hold (dma.c:528-537); and it takes at least one burst and never
\* more than are left, so the unsigned bursts of _setup_loops reaches zero.
LoopEncodes ==
  pc = "loops" /\ bursts # 0 =>
    LET c == Chunk(bursts) IN
    /\ c.lcnt0 \in 0..CountModulus /\ c.lcnt1 \in 1..CountModulus /\ c.cyc \in 1..cycmax
    /\ Length.LP + 2 * c.cyc + Length.LPEND < JumpModulus
    /\ Consumed(c) \in 1..bursts

\* A program started on a stopped channel copies one picture, byte by byte, and
\* ends after exactly size bytes, however _loop splits the size; also when calls
\* come while it is running, which write their program over the one that runs
\* and whose DMAGO is ignored.  The frame buffer never stays a mixture.
ImplementsCopy == INSTANCE BlockCopy
CopyIsExact == ImplementsCopy!Spec

\* A started transfer ends.
Completes == (st = "executing") ~> (st = "stopped")
=============================================================================
