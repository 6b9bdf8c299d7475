-------------------------------- MODULE Sdhc --------------------------------
(***************************************************************************)
(* The SD card driver of src/tiny210-linux-codes/prj3-dpf-dma/sdhc.c:      *)
(* SDHC_Init and the commands it sends, SDHC_ReadBlocks, SDHC_WriteBlocks. *)
(* The driver polls (m_eOpMode is SDHC_POLLING_MODE and nothing changes it;*)
(* the interrupt handlers are never installed).                            *)
(*                                                                         *)
(* The host controller and the card are the environment, modelled from the *)
(* registers the driver reads and the commands it sends.  A command or its *)
(* answer may be lost, a data block may be damaged, at most MaxFaults times*)
(* in a behaviour.  A block of data is a value; a transfer of n blocks is  *)
(* the sequence of them.                                                   *)
(***************************************************************************)
EXTENDS Integers, Sequences

CONSTANTS
  OcrTries,       \* polls of ACMD41 in SDHC_SetSDOCR: 500 in the code
  IdentifyTries,  \* failures of SDHC_IdentifyCard accepted: 4 in the code
  CardBlocks,     \* bound: number of blocks of the card
  MaxBlocks,      \* bound: blocks of one call
  MaxCalls,       \* bound: calls of SDHC_ReadBlocks and SDHC_WriteBlocks
  MaxFaults,      \* bound: commands lost and blocks damaged
  Cards           \* the cards that may be inserted: records [kind, ver]

ASSUME BoundAssumption ==
  /\ OcrTries \in Nat \ {0} /\ IdentifyTries \in Nat /\ CardBlocks \in Nat \ {0}
  /\ MaxBlocks \in Nat \ {0} /\ MaxCalls \in Nat /\ MaxFaults \in Nat
  /\ Cards \subseteq [kind : {"byte", "block"}, ver : 0..2]

BlockSize == 512
Rca == 1          \* the address the card publishes
Bogus == 2        \* RSP0 >> 16 when CMD3 was not answered
\* Blocks of data are pairs: block b of the disk holds <<call that wrote it, b>>.
Scr(v) == <<-2, v>>    \* the SCR register of a card of version v
Damaged == <<-1, 0>>
Stale == <<-1, 1>>          \* what the data port gives when no block is in it
CardRegister == <<-1, 2>>   \* the answer to CMD6, which is only printed

VARIABLES
  drv,    \* the driver: SDHC_descriptor, the arguments, where it is
  host,   \* the controller: bus width, error bit 15, buffer-ready bit 4 or 5,
          \* transfer-complete bit 1, the data port, the transfer under way
  card,   \* the card: its state as CMD13 gives it, app: CMD55 came just before
  disk,   \* the blocks of the card
  faults, \* faults still to happen
  hist    \* history: calls left, whether the last call met a fault, whether a
          \* wait for a data event ran out

vars == <<drv, host, card, disk, faults, hist>>

Idle == [dir |-> "none", at |-> 0, left |-> 0, multi |-> FALSE]

-----------------------------------------------------------------------------
(* The card.                                                               *)

\* The block a data command's argument means to the card.
Block(arg) == IF card.kind = "byte" THEN arg \div BlockSize ELSE arg
InRange(arg) == (card.kind = "byte" => (arg % BlockSize) = 0) /\ Block(arg) \in DOMAIN disk

Selected == card.state \in {"tran", "data", "rcv", "prg"}

\* The commands the card obeys in its present state.
Obeys(c, arg) ==
  CASE c = 0 -> TRUE
    [] c = 55 -> arg = card.rca /\ card.state \in {"idle", "stby", "tran"}
    [] c = 41 -> card.app /\ card.state = "idle"
    [] c = 2 -> card.state = "ready"
    [] c = 3 -> card.state = "ident"
    [] c \in {7, 9} -> card.state = "stby" /\ arg = card.rca
    [] c = 13 -> arg = card.rca /\ (Selected \/ card.state = "stby")
    [] c = 16 -> card.state = "tran"
    [] c = 51 -> card.state = "tran" /\ card.app
    [] c = 6 -> card.state = "tran" /\ (card.app \/ card.ver > 0)
    [] c \in {17, 18, 24, 25} -> card.state = "tran" /\ InRange(arg)

PlainCard(k) == [k EXCEPT !.app = FALSE]

\* What obeying does to the card; CMD41 leaves it idle while it powers up.
After(c, arg) ==
  LET k == PlainCard(card) IN
  CASE c = 0 -> {[k EXCEPT !.state = "idle", !.rca = 0, !.width = 1, !.blklen = BlockSize]}
    [] c = 55 -> {[k EXCEPT !.app = TRUE]}
    [] c = 41 -> {k, [k EXCEPT !.state = "ready"]}
    [] c = 2 -> {[k EXCEPT !.state = "ident"]}
    [] c = 3 -> {[k EXCEPT !.state = "stby", !.rca = Rca]}
    [] c = 7 -> {[k EXCEPT !.state = "tran"]}
    [] c = 16 -> {[k EXCEPT !.blklen = arg]}
    [] c = 6 /\ card.app -> {[k EXCEPT !.width = arg]}
    [] c = 51 \/ (c = 6 /\ ~card.app) \/ c \in {17, 18} -> {[k EXCEPT !.state = "data"]}
    [] c \in {24, 25} -> {[k EXCEPT !.state = "rcv"]}
    [] OTHER -> {k}

-----------------------------------------------------------------------------
(* SDHC_IssueCommand.                                                      *)

\* Commands whose error SDHC_IssueCommand leaves in the register and forgives.
Forgiven == {1, 55, 41}
NoCheck == {0, 41}     \* no response, or one without CRC and index check

\* Mutant: every error is cleared, that of a forgiven command too.
ForgetfulOutcome(k, answered, failed, cost, c) ==
  LET seen == host.err \/ failed IN
  [card |-> k, answered |-> answered, cost |-> cost, ok |-> ~seen \/ c \in Forgiven, err |-> FALSE]

Outcome(k, answered, failed, cost, c) ==
  LET seen == host.err \/ failed IN
  [card |-> k, answered |-> answered, cost |-> cost,
   ok |-> ~seen \/ c \in Forgiven, err |-> seen /\ c \in Forgiven]

\* The card obeys; it does not answer; the command is lost; the answer is
\* damaged, and a card that should now send or take one block only is done.
Outcomes(c, arg) ==
  LET ok == Obeys(c, arg)
      after == IF ok THEN After(c, arg) ELSE {PlainCard(card)}
      cut == {[k EXCEPT !.state = IF c \in {6, 17, 51} /\ @ = "data" THEN "tran" ELSE @] : k \in after}
  IN {Outcome(k, ok, ~ok /\ c # 0, 0, c) : k \in after}
       \cup (IF faults = 0 THEN {} ELSE {Outcome(card, FALSE, c # 0, 1, c)})
       \cup (IF faults > 0 /\ ok /\ c \notin NoCheck THEN {Outcome(k, FALSE, TRUE, 1, c) : k \in cut}
              ELSE {})

\* The driver sends c and goes to yes or no by the result; new is what else
\* changes in the driver.  Busy responses (R1B) may leave a transfer complete.
Issue(o, c) ==
  /\ card' = o.card /\ faults' = faults - o.cost
  /\ hist' = [hist EXCEPT !.hurt = @ \/ o.cost = 1]
  /\ \E tc \in IF c \in {7, 13} /\ o.answered THEN {host.tc, TRUE} ELSE {host.tc} :
       host' = [host EXCEPT !.err = o.err, !.tc = tc]
  /\ UNCHANGED disk

Send(c, arg, yes, no) ==
  \E o \in Outcomes(c, arg) :
    /\ Issue(o, c) /\ drv' = [drv EXCEPT !.pc = IF o.ok THEN yes ELSE no]

-----------------------------------------------------------------------------
(* SDHC_IdentifyCard and SDHC_SetSDOCR.                                    *)

\* The clock, width and interrupt enables are set, pending errors cleared, and
\* CMD0 sent, which has no response to fail.
Identify ==
  /\ drv.pc = "identify"
  /\ \E o \in Outcomes(0, 0) :
       /\ card' = o.card /\ faults' = faults - o.cost
       /\ host' = [host EXCEPT !.err = FALSE, !.width = 1]
       /\ drv' = [drv EXCEPT !.pc = "cmd55", !.ocr = 0]
  /\ UNCHANGED <<disk, hist>>

Cmd55 == drv.pc = "cmd55" /\ Send(55, 0, "cmd41", "cmd41")

\* RSP0 has its top bit set only when the card answered CMD41 and is ready.
\* With the tries used up the identification fails, and is started again.
Cmd41 ==
  /\ drv.pc = "cmd41"
  /\ \E o \in Outcomes(41, 0) :
       LET up == o.answered /\ o.card.state = "ready"
           last == drv.ocr + 1 = OcrTries
           stop == drv.tries + 1 > IdentifyTries
       IN /\ Issue([o EXCEPT !.err = IF up \/ last THEN FALSE ELSE @], 41)
          /\ drv' = IF up THEN [drv EXCEPT !.pc = "cmd2", !.mode = card.kind]
                    ELSE IF ~last THEN [drv EXCEPT !.pc = "cmd55", !.ocr = @ + 1]
                    ELSE [drv EXCEPT !.pc = IF stop THEN "failed" ELSE "identify",
                                     !.tries = @ + 1]

\* The results of CMD2, CMD3 and CMD9 are not looked at.
Cmd2 == drv.pc = "cmd2" /\ Send(2, 0, "cmd3", "cmd3")
Cmd3 ==
  /\ drv.pc = "cmd3"
  /\ \E o \in Outcomes(3, 0) :
       /\ Issue(o, 3)
       /\ \E rca \in IF o.answered THEN {Rca} ELSE {Rca, Bogus} :
            drv' = [drv EXCEPT !.pc = "cmd9", !.rca = rca]
Cmd9 == drv.pc = "cmd9" /\ Send(9, drv.rca, "cmd7", "cmd7")

-----------------------------------------------------------------------------
(* The rest of SDHC_Init: SDHC_GetSdScr, SDHC_SetSdCardSpeedMode,           *)
(* SDHC_SetDataTransferWidth, SDHC_WaitForCard2TransferState.              *)

Cmd7 == drv.pc = "cmd7" /\ Send(7, drv.rca, "scr16", "failed")

\* A command that starts a transfer; it runs when the card obeyed, whatever the
\* driver makes of the answer.
SendData(c, arg, run, yes, no) ==
  \E o \in Outcomes(c, arg) :
    /\ card' = o.card /\ faults' = faults - o.cost
    /\ hist' = [hist EXCEPT !.hurt = @ \/ o.cost = 1]
    /\ host' = IF o.answered THEN [host EXCEPT !.err = o.err, !.run = run, !.port = <<>>,
                                               !.ready = run.dir = "write" /\ run.left > 0]
               ELSE [host EXCEPT !.err = o.err]
    /\ drv' = IF o.ok THEN yes ELSE no
    /\ UNCHANGED disk

GoTo(pc) == [drv EXCEPT !.pc = pc]
OneBlock(dir) == [dir |-> dir, at |-> 0, left |-> 1, multi |-> FALSE]
ReadRegister(dir) ==
  [drv EXCEPT !.pc = "wait", !.op = dir, !.remain = 1, !.buf = <<>>]

\* The result of SDHC_GetSdScr is not looked at: m_ucSpecVer stays as it was.
Scr16 == drv.pc = "scr16" /\ Send(16, 8, "scr55", "version")
Scr55 == drv.pc = "scr55" /\ Send(55, drv.rca, "scr51", "version")
Scr51 == drv.pc = "scr51" /\ SendData(51, 0, OneBlock("scr"), ReadRegister("scr"), GoTo("version"))

\* Cards of version 1.0 and 1.01 reach Assert(uOperFreq<=...), whose expansion
\* "if(!uOperFreq<=25000000) while(1)" always loops.
Version ==
  /\ drv.pc = "version"
  /\ drv' = GoTo(IF drv.ver \in {1, 2} THEN "speed16" ELSE "assert")
  /\ UNCHANGED <<host, card, disk, faults, hist>>

Speed16 == drv.pc = "speed16" /\ Send(16, 64, "speed6", "failed")
Speed6 ==
  drv.pc = "speed6" /\ SendData(6, 0, OneBlock("switch"), ReadRegister("switch"), GoTo("failed"))

\* CMD55 forgives its error, which the bit keeps for ACMD6.
Width55 == drv.pc = "width55" /\ Send(55, drv.rca, "width6", "width6")
Width6 ==
  /\ drv.pc = "width6"
  /\ \E o \in Outcomes(6, 4) :
       /\ card' = [o.card EXCEPT !.state = IF @ = "data" THEN "tran" ELSE @]
       /\ faults' = faults - o.cost
       /\ host' = [host EXCEPT !.err = o.err, !.width = IF o.ok THEN 4 ELSE @]
       /\ drv' = IF o.ok THEN [drv EXCEPT !.pc = "cmd13", !.op = "init"] ELSE GoTo("failed")
       /\ UNCHANGED <<disk, hist>>

Return(value) == [drv EXCEPT !.pc = "returned", !.ret = value]

\* Mutant: it asks until the state is tran.
Cmd13UntilTran ==
  /\ drv.pc = "cmd13"
  /\ \E o \in Outcomes(13, drv.rca) :
       /\ Issue(o, 13)
       /\ drv' = IF o.ok /\ o.card.state # "tran" THEN drv
                 ELSE IF o.ok THEN GoTo(IF drv.op = "init" THEN "cmd16" ELSE "command")
                 ELSE IF drv.op = "init" THEN GoTo("failed") ELSE Return(3)

\* SDHC_WaitForCard2TransferState asks again while the card takes or programs
\* data; the state must then be tran.
Cmd13 ==
  /\ drv.pc = "cmd13"
  /\ \E o \in Outcomes(13, drv.rca) :
       /\ Issue(o, 13)
       /\ drv' = IF o.ok /\ o.card.state \in {"rcv", "prg"} THEN drv
                 ELSE IF o.ok /\ o.card.state = "tran"
                      THEN GoTo(IF drv.op = "init" THEN "cmd16" ELSE "command")
                 ELSE IF drv.op = "init" THEN GoTo("failed") ELSE Return(3)

Cmd16 == drv.pc = "cmd16" /\ Send(16, BlockSize, "ready", "failed")

-----------------------------------------------------------------------------
(* SDHC_ReadBlocks and SDHC_WriteBlocks.  SDHC_Init's failure stops nobody *)
(* from calling them.                                                      *)

\* Mutant: one block too many is counted.
CallOneMore(op, start, n) ==
  /\ drv.pc \in {"ready", "failed", "returned"} /\ hist.calls > 0
  /\ start + n <= CardBlocks
  /\ drv' = [drv EXCEPT !.pc = "cmd13", !.op = op, !.start = start, !.blocks = n,
                        !.remain = n + 1, !.buf = <<>>, !.ret = -1]
  /\ hist' = [hist EXCEPT !.calls = @ - 1, !.hurt = FALSE]
  /\ UNCHANGED <<host, card, disk, faults>>

Call(op, start, n) ==
  /\ drv.pc \in {"ready", "failed", "returned"} /\ hist.calls > 0
  /\ start + n <= CardBlocks
  /\ drv' = [drv EXCEPT !.pc = "cmd13", !.op = op, !.start = start, !.blocks = n,
                        !.remain = n, !.buf = <<>>, !.ret = -1]
  /\ hist' = [hist EXCEPT !.calls = @ - 1, !.hurt = FALSE]
  /\ UNCHANGED <<host, card, disk, faults>>

\* A block written in a call is told from every other.
Data(k) == <<hist.calls + 1, drv.start + k - 1>>

Address == IF drv.mode = "byte" THEN drv.start * BlockSize ELSE drv.start

\* Where a command without error leads, the mutant ignoring that n may be 0.
FirstWaitAlways == "wait"
FirstWait == IF drv.remain = 0 THEN "complete" ELSE "wait"

\* Block size and count, transfer mode, and the command for one or more blocks.
Command ==
  /\ drv.pc = "command"
  /\ LET one == drv.blocks = 1
         write == drv.op = "write"
         c == CASE write /\ one -> 24 [] write /\ ~one -> 25 [] ~write /\ one -> 17 [] OTHER -> 18
     IN SendData(c, Address,
                 [dir |-> drv.op, at |-> Block(Address), left |-> drv.blocks, multi |-> ~one],
                 GoTo(FirstWait),
                 Return(IF one THEN 4 ELSE 5))

\* Mutant: the bit is not cleared.
WaitBufferUncleared ==
  /\ drv.pc = "wait" /\ host.ready /\ drv' = GoTo("move")
  /\ UNCHANGED <<host, card, disk, faults, hist>>

\* SDHC_INT_WAIT_CLEAR of bit 5 or 4 in SDHC_ReadOneBlock and SDHC_WriteOneBlock.
WaitBuffer ==
  /\ drv.pc = "wait" /\ host.ready
  /\ host' = [host EXCEPT !.ready = FALSE]
  /\ drv' = GoTo("move")
  /\ UNCHANGED <<card, disk, faults, hist>>

\* Its count of 0x7F000000 runs out without a word.  The count is longer than any
\* delay of a transfer still going on, which is an assumption.
BufferWillBeReady ==
  \/ host.run.dir \in {"read", "scr", "switch"} /\ host.run.left > 0 /\ host.port = <<>>
  \/ host.run.dir = "write" /\ host.run.left > 1 /\ host.port # <<>>
WaitBufferRunsOut ==
  /\ drv.pc = "wait" /\ ~host.ready /\ ~BufferWillBeReady
  /\ drv' = GoTo("move")
  /\ hist' = [hist EXCEPT !.late = TRUE]
  /\ UNCHANGED <<host, card, disk, faults>>

\* The block at m_uBufferPtr.
NextOut == Data(drv.blocks - drv.remain + 1)

\* The words of one block through SDHC_BUF_DAT_PORT; a port that holds none
\* gives whatever it has, and takes none when nothing is being written.
MoveBlock ==
  /\ drv.pc = "move"
  /\ LET left == drv.remain - 1
         next == [drv EXCEPT !.remain = left, !.pc = IF left = 0 THEN "complete" ELSE "wait"]
     IN IF drv.op = "write"
        THEN /\ drv' = next
             /\ host' = IF host.run.dir # "write" THEN host
                        ELSE [host EXCEPT !.port = <<NextOut>>]
        ELSE /\ drv' = [next EXCEPT !.buf = Append(@, IF host.port = <<>> THEN Stale
                                                      ELSE host.port[1])]
             /\ host' = [host EXCEPT !.port = <<>>]
  /\ UNCHANGED <<card, disk, faults, hist>>

\* What follows a transfer.  SDHC_GetSdScr makes a version of whatever it read.
Finished ==
  CASE drv.op = "scr" -> {[drv EXCEPT !.pc = "version", !.ver = v] :
                            v \in IF drv.buf[1] \in {Stale, Damaged} THEN 0..2 ELSE {drv.buf[1][2]}}
    [] drv.op = "switch" -> {GoTo("width55")}
    [] drv.op = "read" -> {Return(1)}
    [] drv.op = "write" -> {Return(0)}

\* SDHC_INT_WAIT_CLEAR of bit 1.
WaitComplete ==
  /\ drv.pc = "complete" /\ host.tc
  /\ host' = [host EXCEPT !.tc = FALSE]
  /\ drv' \in Finished
  /\ UNCHANGED <<card, disk, faults, hist>>

\* Mutant: a wait that ran out clears the error register.
WaitCompleteClearsError ==
  /\ drv.pc = "complete" /\ ~host.tc /\ host.run = Idle
  /\ drv' \in Finished
  /\ hist' = [hist EXCEPT !.late = TRUE]
  /\ host' = [host EXCEPT !.err = FALSE]
  /\ UNCHANGED <<card, disk, faults>>

WaitCompleteRunsOut ==
  /\ drv.pc = "complete" /\ ~host.tc /\ host.run = Idle
  /\ drv' \in Finished
  /\ hist' = [hist EXCEPT !.late = TRUE]
  /\ UNCHANGED <<host, card, disk, faults>>

-----------------------------------------------------------------------------
(* The controller and the card during a transfer.                          *)

Matching ==
  /\ host.width = card.width
  /\ host.run.dir \in {"read", "write"} /\ card.kind = "byte" => card.blklen = BlockSize

Content == CASE host.run.dir = "scr" -> Scr(card.ver) [] host.run.dir = "switch" -> CardRegister
             [] OTHER -> disk[host.run.at]

Moved == [host.run EXCEPT !.at = @ + 1, !.left = @ - 1]

\* A block arrives; after the last one the card is stopped by the controller.
CardSends ==
  /\ host.run.dir \in {"read", "scr", "switch"} /\ host.run.left > 0 /\ host.port = <<>>
  /\ Matching
  /\ host' = [host EXCEPT !.run = Moved, !.port = <<Content>>, !.ready = TRUE]
  /\ card' = [card EXCEPT !.state = IF host.run.left = 1 THEN "tran" ELSE @]
  /\ UNCHANGED <<drv, disk, faults, hist>>

CardTakes ==
  /\ host.run.dir = "write" /\ host.run.left > 0 /\ host.port # <<>> /\ Matching
  /\ disk' = [disk EXCEPT ![host.run.at] = host.port[1]]
  /\ host' = [host EXCEPT !.run = Moved, !.port = <<>>, !.ready = host.run.left > 1]
  /\ UNCHANGED <<drv, card, faults, hist>>

\* A block is damaged on the way, or the two ends do not agree: the transfer
\* stops, with or without a block in the port; a card in the middle of several
\* blocks may be left there, for nobody sends it CMD12.
Damage ==
  /\ host.run.left > 0 /\ (host.port = <<>>) = (host.run.dir # "write")
  /\ Matching => faults > 0
  /\ faults' = IF Matching THEN faults - 1 ELSE faults
  /\ \E port \in IF host.run.dir = "write" THEN {<<>>} ELSE {<<>>, <<Damaged>>},
        stuck \in {FALSE, host.run.multi} :
       /\ host' = [host EXCEPT !.run = Idle, !.err = TRUE, !.port = port, !.ready = port # <<>>]
       /\ card' = [card EXCEPT !.state = IF stuck THEN @ ELSE "tran"]
  /\ hist' = [hist EXCEPT !.hurt = TRUE]
  /\ UNCHANGED <<drv, disk>>

Complete ==
  /\ host.run # Idle /\ host.run.left = 0 /\ host.port = <<>>
  /\ host' = [host EXCEPT !.run = Idle, !.tc = TRUE]
  /\ card' = [card EXCEPT !.state = IF host.run.dir = "write" THEN "prg" ELSE "tran"]
  /\ UNCHANGED <<drv, disk, faults, hist>>

Programmed ==
  /\ card.state = "prg"
  /\ card' = [card EXCEPT !.state = "tran"]
  /\ UNCHANGED <<drv, host, disk, faults, hist>>

-----------------------------------------------------------------------------

\* The board starts with the card just powered up, or as the last program left it.
Init ==
  /\ drv = [pc |-> "identify", op |-> "init", tries |-> 0, ocr |-> 0, mode |-> "byte",
            rca |-> 0, ver |-> 0, start |-> 0, blocks |-> 0, remain |-> 0, buf |-> <<>>,
            ret |-> -1]
  /\ host = [width |-> 1, err |-> FALSE, ready |-> FALSE, tc |-> FALSE, port |-> <<>>,
             run |-> Idle]
  /\ card \in {[kind |-> k.kind, ver |-> k.ver, state |-> "idle", app |-> FALSE, rca |-> 0,
                width |-> 1, blklen |-> BlockSize] : k \in Cards}
         \cup {[kind |-> k.kind, ver |-> k.ver, state |-> "tran", app |-> FALSE, rca |-> Rca,
                width |-> 4, blklen |-> BlockSize] : k \in Cards}
  /\ disk = [b \in 0..(CardBlocks - 1) |-> <<0, b>>]
  /\ faults = MaxFaults
  /\ hist = [calls |-> MaxCalls, hurt |-> FALSE, late |-> FALSE]

Initialise ==
  \/ Identify \/ Cmd55 \/ Cmd41 \/ Cmd2 \/ Cmd3 \/ Cmd9 \/ Cmd7 \/ Scr16 \/ Scr55 \/ Scr51
  \/ Version \/ Speed16 \/ Speed6 \/ Width55 \/ Width6 \/ Cmd16

Driver ==
  \/ Initialise \/ Cmd13 \/ Command \/ WaitBuffer \/ WaitBufferRunsOut \/ MoveBlock
  \/ WaitComplete \/ WaitCompleteRunsOut

Hardware == CardSends \/ CardTakes \/ Complete \/ Programmed

ReadBlocks == \E s \in 0..CardBlocks, n \in 0..MaxBlocks : Call("read", s, n)
WriteBlocks == \E s \in 0..CardBlocks, n \in 0..MaxBlocks : Call("write", s, n)

Next == Driver \/ Hardware \/ Damage \/ ReadBlocks \/ WriteBlocks

Spec == Init /\ [][Next]_vars

\* The processor goes on; a card goes on with a transfer, one damage or another
\* being as good as the block, and ends its programming.
FairSpec == Spec /\ WF_vars(Driver) /\ WF_vars(Hardware \/ Damage)

-----------------------------------------------------------------------------
(* Properties.                                                             *)

TypeOK ==
  /\ drv.mode \in {"byte", "block"} /\ drv.rca \in {0, Rca, Bogus} /\ drv.ver \in 0..2
  /\ drv.remain \in 0..MaxBlocks /\ drv.ret \in {-1, 0, 1, 3, 4, 5}
  /\ drv.ocr \in 0..OcrTries /\ drv.tries \in 0..(IdentifyTries + 1)
  /\ host.run.left \in 0..MaxBlocks /\ host.width \in {1, 4} /\ Len(host.port) <= 1
  /\ card.state \in {"idle", "ready", "ident", "stby", "tran", "data", "rcv", "prg"}
  /\ faults \in 0..MaxFaults /\ hist.calls \in 0..MaxCalls

\* When SDHC_Init reports success the two ends agree: the card is selected under
\* the address the driver uses, on the same bus width, with blocks of 512 bytes
\* and the driver's idea of how blocks are addressed, and no error is pending,
\* whatever was lost on the way.
InitMeansReady ==
  drv.pc = "ready" =>
    /\ card.state = "tran" /\ card.rca = drv.rca /\ card.width = host.width
    /\ card.blklen = BlockSize /\ drv.mode = card.kind /\ ~host.err

\* A read that met no fault and returns 1 has put exactly the blocks asked for,
\* in order, into the buffer, also after calls that failed half way and with a
\* transfer-complete bit left from a busy response.
ReadArrives ==
  (drv.pc = "returned" /\ drv.op = "read" /\ drv.ret = 1 /\ ~hist.hurt) =>
    drv.buf = [k \in 1..drv.blocks |-> disk[drv.start + k - 1]]

\* A write that met no fault and returns 0 is on the card when the card has left
\* the receive state, each block where it belongs.
WriteArrives ==
  (drv.pc = "returned" /\ drv.op = "write" /\ drv.ret = 0 /\ ~hist.hurt
     /\ card.state # "rcv") =>
    \A k \in 1..drv.blocks : disk[drv.start + k - 1] = Data(k)

\* A call that met no fault moves exactly the blocks asked for (sdhc.c:795-940).
TransferIsExact == ReadArrives /\ WriteArrives

\* A call that met a fault and still reports success leaves the error bit set,
\* so that the next command, in another call, fails for it.
FaultIsPending ==
  (drv.pc = "returned" /\ drv.ret \in {0, 1} /\ hist.hurt) => host.err

\* As long as nothing is lost or damaged no wait for a data event runs out: no
\* buffer-ready is cleared before it was seen, none is awaited that cannot come.
NoWaitRunsOut == hist.late => faults < MaxFaults

\* SDHC_Init and every call return; Assert's endless loop and a card left in the
\* receive state, which is asked about for ever, are the only ways not to.
Returns ==
  \/ (drv.pc # "returned") ~> (drv.pc \in {"ready", "failed", "returned", "assert"})
  \/ <>[](card.state = "rcv")

\* The comment beside Assert: "Old version SD card can not support working
\* frequency higher than 25MHz"; the loop is for those and uOperFreq is 0.
OperFreq == 0
OnlyTooFastStops == drv.pc = "assert" => OperFreq > 25000000
=============================================================================
