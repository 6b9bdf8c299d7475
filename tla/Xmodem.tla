------------------------------- MODULE Xmodem -------------------------------
(***************************************************************************)
(* The XMODEM receiver of src/mini6410-codes/9-xmodem-c-sram/my_xmodem.c,  *)
(* with the sender at the other end of the serial line and the line itself.*)
(*                                                                         *)
(* A packet is one record: its 128 data bytes are one value and its        *)
(* checksum is a flag.  The receiver has no clock; the only timeout in the *)
(* system is the sender's.  The sender (a terminal program) and the line   *)
(* are external; they are modelled from the protocol my_xmodem.c answers.  *)
(***************************************************************************)
EXTENDS Integers, Sequences

CONSTANTS
  Blocks,       \* the contents a 128-byte block can have
  File,         \* the sequence of blocks to be sent
  Garbled,      \* the data of a block damaged on the line
  NumModulus,   \* block numbers are compared modulo this: 256 in the code
  RETRIES,      \* consecutive unusable records tolerated: 20 in the code
  LineFaults,   \* which of "data", "number", "junk", "loss", "reply" occur
  NumberDamage, \* what a damaged block number differs by, modulo NumModulus
  Patience,     \* bound: timeouts the sender suffers on one item
  MaxFaults,    \* bound: line faults in one behaviour
  MaxInFlight   \* bound: records on the line at once

FaultKinds == {"data", "number", "junk", "loss", "reply"}

ASSUME FileAssumption == File \in Seq(Blocks) /\ Garbled \in Blocks
ASSUME ModulusAssumption == NumModulus \in Nat /\ NumModulus >= 2
ASSUME RetriesAssumption == RETRIES \in Nat \ {0}
ASSUME FaultAssumption == LineFaults \subseteq FaultKinds
ASSUME DamageAssumption == NumberDamage \subseteq 1..(NumModulus - 1)
ASSUME BoundAssumption == Patience \in Nat /\ MaxFaults \in Nat /\ MaxInFlight \in Nat

VARIABLES
  pc,            \* receiver: "start", "record", "exit" (loop left), "returned"
  r,             \* last result of get_record
  rx_block_num,  \* the block number expected next
  error_count,   \* retries left
  foffset,       \* blocks stored (128 bytes each); the value returned
  mem,           \* memory from download_addr on, block by block
  sender,        \* "idle", "sending", "waiting", "done", "gave_up", "cancelled"
  item,          \* the block the sender is at; Len(File)+1 is EOT
  timeouts,      \* timeouts the sender suffered on this item
  line,          \* records on the way to the receiver
  replies,       \* ACKs and NAKs on the way back
  faults         \* line faults so far

receiverVars == <<pc, r, rx_block_num, error_count, foffset, mem>>
senderVars == <<sender, item, timeouts>>
vars == <<receiverVars, senderVars, line, replies, faults>>

\* blk is a history field: the block the packet was built from.
Packet(k) == [kind |-> "SOH", blk |-> k, num |-> k % NumModulus,
              data |-> File[k], sumok |-> TRUE]
Control(c) == [kind |-> c, blk |-> 0, num |-> 0, data |-> Garbled, sumok |-> TRUE]

Record == [kind : {"SOH", "EOT", "CAN", "junk"}, blk : 0..Len(File),
           num : 0..(NumModulus - 1), data : Blocks, sumok : BOOLEAN]

Init ==
  /\ pc = "start" /\ r = 0 /\ rx_block_num = 0 /\ error_count = 0
  /\ foffset = 0 /\ mem = <<>>
  /\ sender = "idle" /\ item = 0 /\ timeouts = 0
  /\ line = <<>> /\ replies = <<>> /\ faults = 0

-----------------------------------------------------------------------------
(* The receiver.                                                           *)

\* The result of get_record() for a record whose bytes have all arrived: the
\* block number, or -3 bad checksum, -4 end of file, -5 cancel or any other
\* character.  The complement of the block number is read and not compared.
GetRecordNoSum(rec) == IF rec.kind = "SOH" THEN rec.num
                       ELSE IF rec.kind = "EOT" THEN -4 ELSE -5
GetRecord(rec) == IF rec.kind = "SOH" THEN IF rec.sumok THEN rec.num ELSE -3
                  ELSE IF rec.kind = "EOT" THEN -4 ELSE -5

\* The byte copy to download_addr + foffset.
StoreAt(m, off, d) == IF off < Len(m) THEN [m EXCEPT ![off + 1] = d] ELSE Append(m, d)

\* ochr in the switch.
ReplyAckWrongBlock(res) == IF res # -3 THEN "ACK" ELSE "NAK"
Reply(res) == IF res \in {-4, -5} THEN "ACK" ELSE "NAK"

\* while ((r > -3) && error_count)
KeepGoingUnlimited(res, errs) == res > -3
KeepGoingPastEot(res, errs) == res >= -4 /\ errs # 0
KeepGoing(res, errs) == res > -3 /\ errs # 0

\* The start NAK, sent once after the countdown.
Start ==
  /\ pc = "start"
  /\ pc' = "record"
  /\ rx_block_num' = 1
  /\ error_count' = RETRIES
  /\ replies' = Append(replies, "NAK")
  /\ UNCHANGED <<r, foffset, mem, senderVars, line, faults>>

Expected(rec) == GetRecord(rec) = rx_block_num % NumModulus

\* One turn of the loop on the block that was expected.
ReceiveExpected ==
  /\ pc = "record" /\ line # <<>> /\ Expected(Head(line))
  /\ r' = GetRecord(Head(line))
  /\ error_count' = RETRIES
  /\ mem' = StoreAt(mem, foffset, Head(line).data)
  /\ rx_block_num' = rx_block_num + 1
  /\ foffset' = foffset + 1
  /\ replies' = Append(replies, "ACK")
  /\ line' = Tail(line)
  /\ UNCHANGED <<pc, senderVars, faults>>

\* One turn of the loop on anything else: the switch, error_count--, the
\* reply and the loop condition.
ReceiveOther ==
  /\ pc = "record" /\ line # <<>> /\ ~Expected(Head(line))
  /\ r' = GetRecord(Head(line))
  /\ error_count' = error_count - 1
  /\ replies' = Append(replies, Reply(r'))
  /\ pc' = IF KeepGoing(r', error_count') THEN "record" ELSE "exit"
  /\ line' = Tail(line)
  /\ UNCHANGED <<rx_block_num, foffset, mem, senderVars, faults>>

\* if ((!error_count) || (r != -4)) foffset = 0; return foffset
ReturnUnchecked ==
  /\ pc = "exit"
  /\ pc' = "returned"
  /\ UNCHANGED <<foffset, r, rx_block_num, error_count, mem, senderVars, line, replies, faults>>
Return ==
  /\ pc = "exit"
  /\ pc' = "returned"
  /\ foffset' = IF error_count = 0 \/ r # -4 THEN 0 ELSE foffset
  /\ UNCHANGED <<r, rx_block_num, error_count, mem, senderVars, line, replies, faults>>

Receiver == Start \/ ReceiveExpected \/ ReceiveOther \/ Return

-----------------------------------------------------------------------------
(* The sender (external).                                                  *)

\* (Re)send the current block, or EOT after the last one.
Send ==
  /\ sender = "sending"
  /\ Len(line) < MaxInFlight
  /\ line' = Append(line, IF item <= Len(File) THEN Packet(item) ELSE Control("EOT"))
  /\ sender' = "waiting"
  /\ UNCHANGED <<receiverVars, item, timeouts, replies, faults>>

\* The first NAK starts the transfer.
StartSending ==
  /\ sender = "idle" /\ replies # <<>>
  /\ replies' = Tail(replies)
  /\ sender' = "sending" /\ item' = 1 /\ timeouts' = 0
  /\ UNCHANGED <<receiverVars, line, faults>>

TakeReply ==
  /\ sender = "waiting" /\ replies # <<>>
  /\ replies' = Tail(replies)
  /\ IF Head(replies) = "ACK"
     THEN /\ sender' = IF item > Len(File) THEN "done" ELSE "sending"
          /\ item' = IF item > Len(File) THEN item ELSE item + 1
          /\ timeouts' = 0
     ELSE sender' = "sending" /\ UNCHANGED <<item, timeouts>>
  /\ UNCHANGED <<receiverVars, line, faults>>

\* No answer in time, which may also be an answer that is merely late.
Timeout ==
  /\ sender = "waiting"
  /\ IF timeouts < Patience
     THEN sender' = "sending" /\ timeouts' = timeouts + 1
     ELSE sender' = "gave_up" /\ UNCHANGED timeouts
  /\ UNCHANGED <<receiverVars, item, line, replies, faults>>

\* The user stops the terminal program's transfer.
Cancel ==
  /\ sender \in {"sending", "waiting"}
  /\ Len(line) < MaxInFlight
  /\ line' = Append(line, Control("CAN"))
  /\ sender' = "cancelled"
  /\ UNCHANGED <<receiverVars, item, timeouts, replies, faults>>

Sender == Send \/ StartSending \/ TakeReply \/ Timeout \/ Cancel

-----------------------------------------------------------------------------
(* The line (external).                                                    *)

Fault(kind) == /\ kind \in LineFaults
               /\ faults < MaxFaults
               /\ faults' = faults + 1

Damaged(rec) == [kind |-> rec.kind, blk |-> rec.blk, num |-> rec.num,
                 data |-> Garbled, sumok |-> FALSE]
Renumbered(rec, n) == [kind |-> rec.kind, blk |-> rec.blk, num |-> n,
                       data |-> rec.data, sumok |-> rec.sumok]

\* A data or checksum byte is damaged: the checksum no longer matches.
DamageData ==
  /\ Fault("data")
  /\ \E i \in DOMAIN line :
       /\ line[i].kind = "SOH"
       /\ line' = [line EXCEPT ![i] = Damaged(@)]
  /\ UNCHANGED <<receiverVars, senderVars, replies>>

\* The block-number byte is damaged: the checksum does not cover it.
DamageNumber ==
  /\ Fault("number")
  /\ \E i \in DOMAIN line, d \in NumberDamage :
       /\ line[i].kind = "SOH"
       /\ line' = [line EXCEPT ![i] = Renumbered(@, (line[i].blk + d) % NumModulus)]
  /\ UNCHANGED <<receiverVars, senderVars, replies>>

\* A stray character, not a control code, arrives between two records.
Noise ==
  /\ Fault("junk")
  /\ Len(line) < MaxInFlight
  /\ line' = Append(line, Control("junk"))
  /\ UNCHANGED <<receiverVars, senderVars, replies>>

\* A whole record, or a reply, disappears.
LoseRecord ==
  /\ Fault("loss") /\ line # <<>>
  /\ line' = Tail(line)
  /\ UNCHANGED <<receiverVars, senderVars, replies>>

LoseReply ==
  /\ Fault("reply") /\ replies # <<>>
  /\ replies' = Tail(replies)
  /\ UNCHANGED <<receiverVars, senderVars, line>>

Line == DamageData \/ DamageNumber \/ Noise \/ LoseRecord \/ LoseReply

-----------------------------------------------------------------------------

Next == Receiver \/ Sender \/ Line

Spec == Init /\ [][Next]_vars

\* The processor keeps running the receive loop, and the terminal program keeps to
\* the protocol.
FairSpec == Spec /\ WF_vars(Receiver) /\ WF_vars(Send \/ StartSending \/ TakeReply) /\ WF_vars(Timeout)

-----------------------------------------------------------------------------
(* Properties.                                                             *)

TypeOK ==
  /\ pc \in {"start", "record", "exit", "returned"}
  /\ r \in {-5, -4, -3} \cup 0..(NumModulus - 1)
  /\ rx_block_num \in Nat /\ error_count \in 0..RETRIES /\ foffset \in Nat
  /\ mem \in Seq(Blocks)
  /\ sender \in {"idle", "sending", "waiting", "done", "gave_up", "cancelled"}
  /\ item \in 0..(Len(File) + 1) /\ timeouts \in Nat
  /\ line \in Seq(Record) /\ replies \in Seq({"ACK", "NAK"}) /\ faults \in Nat

\* What is stored at download_addr is the beginning of the file, in order and
\* without a repeated, skipped or damaged block, although block numbers wrap
\* and a late answer makes the sender repeat itself (my_xmodem.c:86-93).
DeliveredIsPrefix ==
  /\ Len(mem) <= Len(File)
  /\ \A i \in 1..Len(mem) : mem[i] = File[i]

\* The receive loop implements the promise of FileTransfer: nothing is stored
\* once the caller has its answer, and a size is returned only for the whole
\* file (my_xmodem.c:131-136).
outcomeBar == IF pc # "returned" THEN "pending"
              ELSE IF foffset > 0 THEN "success" ELSE "failure"
Abstract == INSTANCE FileTransfer WITH stored <- mem, outcome <- outcomeBar
ImplementsFileTransfer == Abstract!Spec

\* An ACK tells the truth: the sender has never moved past a block that is not
\* in memory, and it believes the transfer complete only when the receiver has
\* the whole file and left its loop on the EOT (my_xmodem.c:92, 115).  Once the
\* receiver has taken a stray character for a cancellation, which it acknowledges
\* (my_xmodem.c:117), nothing of the kind can be said.
AckMeansStored ==
  r # -5 =>
    /\ item <= Len(mem) + 1
    /\ sender = "done" => mem = File /\ pc \in {"exit", "returned"} /\ r = -4

(* The inductive invariant of XmodemProofs.  It needs a line on which a
   damaged block number is never the number of the following block. *)

SohRecords == {i \in DOMAIN line : line[i].kind = "SOH"}
Acks == {i \in DOMAIN replies : replies[i] = "ACK"}

ControlInv ==
  /\ pc = "start" => /\ mem = <<>> /\ foffset = 0 /\ item = 0
                     /\ replies = <<>>
                     /\ \A i \in DOMAIN line : line[i].kind = "junk"
  /\ pc = "record" => rx_block_num = Len(mem) + 1 /\ error_count > 0
  /\ pc \in {"start", "record"} => r >= 0
  /\ pc # "returned" => foffset = Len(mem)
  /\ pc \in {"exit", "returned"} /\ r = -4 => Len(mem) = Len(File)
  /\ pc = "returned" /\ foffset > 0 => r = -4 /\ foffset = Len(mem)
  /\ sender = "idle" <=> item = 0

\* The number on a packet is the block's, or what damage makes of it.
NumberOf(rec) == \E d \in NumberDamage \cup {0} : rec.num = (rec.blk + d) % NumModulus

\* The packets on the line are repetitions of the last block stored, then the
\* next one.
LineInv ==
  pc = "record" =>
    /\ \A i \in SohRecords :
         /\ line[i].blk >= 1 /\ line[i].blk \in {Len(mem), Len(mem) + 1}
         /\ line[i].blk <= item
         /\ NumberOf(line[i])
         /\ line[i].sumok => line[i].data = File[line[i].blk]
    /\ \A i, j \in SohRecords : i < j => line[i].blk <= line[j].blk
    /\ \A i \in DOMAIN line : line[i].kind = "EOT" =>
         Len(mem) = Len(File) /\ item = Len(File) + 1

\* An ACK is under way only from the storing of a block to the moment the
\* sender learns of it.
AckInv ==
  r # -5 =>
    /\ item \in {Len(mem), Len(mem) + 1}
    /\ sender # "cancelled" => \A i \in Acks :
         \/ item = Len(mem) /\ item >= 1
         \/ pc \in {"exit", "returned"} /\ r = -4 /\ item = Len(File) + 1
    /\ sender # "cancelled" => \A i, j \in Acks : i = j
    /\ sender = "done" => pc \in {"exit", "returned"} /\ r = -4

IInv == TypeOK /\ DeliveredIsPrefix /\ ControlInv /\ LineInv /\ AckInv

\* The answer the sender needs to go on was lost: the first NAK, which is sent
\* once, or the ACK of a block, whose repetitions are then refused for ever.
AnswerLost ==
  /\ pc = "record" /\ item = Len(mem)
  /\ \A k \in DOMAIN replies : replies[k] # IF item = 0 THEN "NAK" ELSE "ACK"

\* The call returns in the end, with the size of the whole file unless a damaged
\* packet ended it, whenever no answer is lost, no stray character is taken for a
\* cancellation and the sender neither gives up nor cancels: stale NAKs and
\* repeated packets never use up the retries or make the two sides exchange
\* messages forever (my_xmodem.c:83-129).
TransferEnds ==
  <>(\/ pc = "returned" /\ (foffset = Len(File) \/ r = -3)
     \/ sender \in {"gave_up", "cancelled"} \/ AnswerLost \/ r = -5)

-----------------------------------------------------------------------------
(* A statement of the source's comments that the loop does not keep.        *)

\* my_xmodem.c:80 "times to retry", 109-111 "Bad checksum ... ochr = NAK": a
\* packet with a bad checksum is asked for again while retries are left.
BadChecksumIsRetried == [][r' = -3 /\ error_count' > 0 => pc' = "record"]_vars
=============================================================================
