---------------------------- MODULE XmodemProofs ----------------------------
(***************************************************************************)
(* Proofs about the XMODEM receiver, for every file, every modulus of the  *)
(* block numbers of at least 2, every retry limit, and any number of       *)
(* damaged, lost, repeated and stray records and lost replies.             *)
(***************************************************************************)
EXTENDS Xmodem, TLAPS, SequenceTheorems

\* Block numbers that differ by less than the modulus stay different when they
\* wrap: the comparison modulo 256 tells a repeated packet from the next one.
LEMMA NumbersDiffer ==
  ASSUME NEW k \in Nat, NEW e \in 1..(NumModulus - 1)
  PROVE  k % NumModulus # (k + e) % NumModulus
<1> DEFINE M == NumModulus
           q == k \div M
           p == (k + e) \div M
<1> HIDE DEF M, q, p
<1>0. M \in Nat /\ M >= 2 /\ e \in 1..(M - 1)  BY ModulusAssumption DEF M
<1>1. k = M * q + (k % M) /\ q \in Int  BY <1>0 DEF q
<1>2. k + e = M * p + ((k + e) % M) /\ p \in Int  BY <1>0 DEF p
<1>3. k % M \in 0..(M - 1)  BY <1>0
<1>4. ASSUME k % M = (k + e) % M PROVE FALSE
  <2>1. M * p = M * q + e  BY <1>0, <1>1, <1>2, <1>3, <1>4
  <2>2. CASE p <= q
    <3>1. M * p <= M * q  BY <1>0, <1>1, <1>2, <2>2
    <3> QED  BY <3>1, <2>1, <1>0, <1>1, <1>2
  <2>3. CASE p >= q + 1
    <3>1. M * p >= M * (q + 1)  BY <1>0, <1>1, <1>2, <2>3
    <3>2. M * (q + 1) = M * q + M  BY <1>0, <1>1
    <3> QED  BY <3>1, <3>2, <2>1, <1>0, <1>1, <1>2
  <2> QED  BY <2>2, <2>3, <1>1, <1>2
<1> QED  BY <1>4 DEF M

LEMMA NumberInRange ==
  ASSUME NEW k \in Nat
  PROVE  k % NumModulus \in 0..(NumModulus - 1)
BY ModulusAssumption

\* A number that is the block's, or damaged by anything but 1, is never the
\* number of the next block.
LEMMA NumberIsNotNext ==
  ASSUME 1 \notin NumberDamage, NEW rec \in Record, NumberOf(rec)
  PROVE  rec.num # (rec.blk + 1) % NumModulus
<1>1. PICK d \in NumberDamage \cup {0} : rec.num = (rec.blk + d) % NumModulus
  BY DEF NumberOf
<1>2. rec.blk \in Nat  BY FileAssumption DEF Record
<1>3. NumModulus \in Nat /\ NumModulus >= 2  BY ModulusAssumption
<1>4. CASE d = 0
  <2>1. 1 \in 1..(NumModulus - 1) /\ rec.blk + d = rec.blk  BY <1>2, <1>3, <1>4
  <2>2. rec.blk % NumModulus # (rec.blk + 1) % NumModulus  BY <1>2, <2>1, NumbersDiffer
  <2> QED  BY <1>1, <2>1, <2>2
<1>5. CASE d # 0
  <2>1. d \in 2..(NumModulus - 1)  BY <1>3, <1>5, DamageAssumption
  <2>2. PICK e : e = d - 1  OBVIOUS
  <2>3. /\ e \in 1..(NumModulus - 1) /\ rec.blk + 1 \in Nat
        /\ (rec.blk + 1) + e = rec.blk + d
    BY <1>2, <1>3, <2>1, <2>2
  <2>4. (rec.blk + 1) % NumModulus # ((rec.blk + 1) + e) % NumModulus
    BY <2>3, NumbersDiffer
  <2> QED  BY <1>1, <2>3, <2>4
<1> QED  BY <1>4, <1>5

\* What the sender puts on the line is a record.
LEMMA RecordsSent ==
  /\ \A k \in 1..Len(File) : Packet(k) \in Record
  /\ \A c \in {"EOT", "CAN", "junk"} : Control(c) \in Record
<1>1. ASSUME NEW k \in 1..Len(File) PROVE Packet(k) \in Record
  <2>1. k \in DOMAIN File /\ k \in Nat  BY FileAssumption
  <2>2. File[k] \in Blocks  BY <2>1, FileAssumption
  <2>3. k % NumModulus \in 0..(NumModulus - 1)  BY NumberInRange, <2>1
  <2> QED  BY <2>1, <2>2, <2>3 DEF Packet, Record
<1>2. ASSUME NEW c \in {"EOT", "CAN", "junk"} PROVE Control(c) \in Record
  <2>1. Garbled \in Blocks  BY FileAssumption
  <2> QED  BY <2>1, ModulusAssumption, FileAssumption DEF Control, Record
<1> QED  BY <1>1, <1>2

\* get_record of a record is a block number or one of the three codes.
LEMMA GetRecordRange ==
  ASSUME NEW rec \in Record
  PROVE  GetRecord(rec) \in {-5, -4, -3} \cup 0..(NumModulus - 1)
BY ModulusAssumption DEF GetRecord, Record

-----------------------------------------------------------------------------
(* Type correctness.                                                       *)

LEMMA InitTypeOK == Init => TypeOK
BY RetriesAssumption, ModulusAssumption, FileAssumption DEF Init, TypeOK

\* The counters, codes and queues keep their ranges: in particular the retry
\* counter of xmodem_receive never wraps below zero (my_xmodem.c:125-129).
LEMMA StepTypeOK ==
  ASSUME TypeOK, ControlInv, [Next]_vars
  PROVE  TypeOK'
<1> USE RetriesAssumption, ModulusAssumption, FileAssumption
<1>1. CASE Start
  BY <1>1 DEF TypeOK, Start, senderVars
<1>2. CASE ReceiveExpected
  <2> USE <1>2 DEF ReceiveExpected
  <2>1. Head(line) \in Record /\ Tail(line) \in Seq(Record)
    BY HeadTailProperties DEF TypeOK
  <2>2. Head(line).data \in Blocks  BY <2>1 DEF Record
  <2>3. mem' \in Seq(Blocks)
    BY <2>2, ExceptSeq DEF StoreAt, TypeOK
  <2>4. r' \in {-5, -4, -3} \cup 0..(NumModulus - 1)
    BY <2>1, GetRecordRange
  <2> QED  BY <2>1, <2>3, <2>4 DEF TypeOK, senderVars
<1>3. CASE ReceiveOther
  <2> USE <1>3 DEF ReceiveOther
  <2>1. Head(line) \in Record /\ Tail(line) \in Seq(Record)
    BY HeadTailProperties DEF TypeOK
  <2>2. r' \in {-5, -4, -3} \cup 0..(NumModulus - 1)
    BY <2>1, GetRecordRange
  <2>3. error_count' \in 0..RETRIES  BY DEF TypeOK, ControlInv
  <2>4. replies' \in Seq({"ACK", "NAK"})  BY DEF TypeOK, Reply
  <2> QED  BY <2>1, <2>2, <2>3, <2>4 DEF TypeOK, senderVars
<1>4. CASE Return
  BY <1>4 DEF TypeOK, Return, senderVars
<1>5. CASE Send
  <2> USE <1>5 DEF Send
  <2> DEFINE rec == IF item <= Len(File) THEN Packet(item) ELSE Control("EOT")
  <2>1. item \in 1..(Len(File) + 1)  BY DEF TypeOK, ControlInv
  <2>2. rec \in Record  BY <2>1, RecordsSent
  <2>3. line' \in Seq(Record)  BY <2>2, AppendProperties DEF TypeOK
  <2> QED  BY <2>3 DEF TypeOK, receiverVars
<1>6. CASE StartSending
  BY <1>6, HeadTailProperties DEF TypeOK, StartSending, receiverVars
<1>7. CASE TakeReply
  BY <1>7, HeadTailProperties DEF TypeOK, TakeReply, receiverVars
<1>8. CASE Timeout
  BY <1>8 DEF TypeOK, Timeout, receiverVars
<1>9. CASE Cancel
  BY <1>9, RecordsSent DEF TypeOK, Cancel, receiverVars
<1>10. CASE DamageData
  <2>0. PICK i \in DOMAIN line : line' = [line EXCEPT ![i] = Damaged(line[i])]
    BY <1>10 DEF DamageData
  <2>1. line[i] \in Record /\ Garbled \in Blocks  BY DEF TypeOK
  <2>2. Damaged(line[i]) \in Record  BY <2>1 DEF Damaged, Record
  <2>3. line' \in Seq(Record)  BY <2>0, <2>1, <2>2, ExceptSeq DEF TypeOK
  <2>4. UNCHANGED <<receiverVars, senderVars, replies>> /\ faults' = faults + 1
    BY <1>10 DEF DamageData, Fault
  <2> QED  BY <2>3, <2>4 DEF TypeOK, receiverVars, senderVars
<1>11. CASE DamageNumber
  <2> DEFINE Num(i, d) == (line[i].blk + d) % NumModulus
  <2>a. PICK i \in DOMAIN line, d \in NumberDamage :
        line' = [line EXCEPT ![i] = Renumbered(line[i], Num(i, d))]
    BY <1>11 DEF DamageNumber
  <2>b1. line[i] \in Record  BY DEF TypeOK
  <2>b2. line[i].blk \in Nat  BY <2>b1 DEF Record
  <2>b. line[i].blk \in Nat /\ d \in Nat  BY <2>b2, DamageAssumption, ModulusAssumption
  <2>c. PICK n \in 0..(NumModulus - 1) : n = Num(i, d)
    BY <2>b, ModulusAssumption
  <2>0. line' = [line EXCEPT ![i] = Renumbered(line[i], n)]  BY <2>a, <2>c
  <2>1. line[i] \in Record /\ i \in 1..Len(line)  BY DEF TypeOK
  <2>2. Renumbered(line[i], n) \in Record  BY <2>1 DEF Renumbered, Record
  <2>3. line' \in Seq(Record)  BY <2>0, <2>1, <2>2, ExceptSeq DEF TypeOK
  <2>4. UNCHANGED <<receiverVars, senderVars, replies>> /\ faults' = faults + 1
    BY <1>11 DEF DamageNumber, Fault
  <2> QED  BY <2>3, <2>4 DEF TypeOK, receiverVars, senderVars
<1>12. CASE Noise
  BY <1>12, RecordsSent DEF TypeOK, Noise, Fault, receiverVars, senderVars
<1>13. CASE LoseRecord
  BY <1>13, HeadTailProperties DEF TypeOK, LoseRecord, Fault, receiverVars, senderVars
<1>14. CASE LoseReply
  BY <1>14, HeadTailProperties DEF TypeOK, LoseReply, Fault, receiverVars, senderVars
<1>15. CASE UNCHANGED vars
  BY <1>15 DEF TypeOK, vars, receiverVars, senderVars
<1> QED
  BY <1>1, <1>2, <1>3, <1>4, <1>5, <1>6, <1>7, <1>8, <1>9, <1>10, <1>11, <1>12,
     <1>13, <1>14, <1>15 DEF Next, Receiver, Sender, Line

-----------------------------------------------------------------------------
(* The inductive invariant.                                                *)

LEMMA TailIndex ==
  ASSUME NEW S, NEW s \in Seq(S), s # <<>>
  PROVE  \A i \in DOMAIN Tail(s) : i + 1 \in DOMAIN s /\ Tail(s)[i] = s[i + 1]
BY HeadTailProperties

LEMMA AppendIndex ==
  ASSUME NEW S, NEW s \in Seq(S), NEW e \in S
  PROVE  /\ DOMAIN Append(s, e) = DOMAIN s \cup {Len(s) + 1}
         /\ \A i \in DOMAIN s : Append(s, e)[i] = s[i]
         /\ Append(s, e)[Len(s) + 1] = e
BY AppendProperties

LEMMA InitIInv == Init => IInv
<1> SUFFICES ASSUME Init PROVE IInv  OBVIOUS
<1>1. TypeOK  BY InitTypeOK
<1>2. Len(File) \in Nat  BY FileAssumption
<1>3. DeliveredIsPrefix  BY <1>2 DEF Init, DeliveredIsPrefix
<1>4. ControlInv  BY DEF Init, ControlInv
<1>5. LineInv  BY DEF Init, LineInv
<1>6. AckInv  BY DEF Init, AckInv, Acks
<1> QED  BY <1>1, <1>3, <1>4, <1>5, <1>6 DEF IInv

\* The record that passes the comparison of my_xmodem.c:86 is the undamaged
\* packet of the block after the last one stored.
LEMMA ExpectedIsNext ==
  ASSUME 1 \notin NumberDamage,
         IInv, pc = "record", line # <<>>, Expected(Head(line))
  PROVE  /\ 1 \in SohRecords
         /\ line[1].blk = Len(mem) + 1 /\ Len(mem) + 1 \in 1..Len(File)
         /\ item = Len(mem) + 1
         /\ line[1].data = File[Len(mem) + 1]
<1> USE DEF IInv
<1>0. line \in Seq(Record) /\ mem \in Seq(Blocks)  BY DEF TypeOK
<1>1. 1 \in DOMAIN line /\ Head(line) = line[1] /\ line[1] \in Record
  BY <1>0, HeadTailProperties
<1>2. Len(mem) \in Nat /\ Len(File) \in Nat /\ item \in Nat
  BY <1>0, FileAssumption DEF TypeOK
<1>3. rx_block_num = Len(mem) + 1  BY DEF ControlInv
<1>4. rx_block_num % NumModulus \in 0..(NumModulus - 1)
  BY <1>2, <1>3, NumberInRange
<1>5. line[1].kind = "SOH" /\ line[1].sumok /\ line[1].num = rx_block_num % NumModulus
  BY <1>1, <1>4, ModulusAssumption DEF Expected, GetRecord
<1>6. 1 \in SohRecords  BY <1>1, <1>5 DEF SohRecords
<1>7. /\ line[1].blk \in {Len(mem), Len(mem) + 1}
      /\ line[1].blk >= 1 /\ line[1].blk <= item
      /\ NumberOf(line[1])
      /\ line[1].data = File[line[1].blk]
  BY <1>5, <1>6 DEF LineInv
<1>8. line[1].blk = Len(mem) + 1
  <2>1. line[1].num # (line[1].blk + 1) % NumModulus
    BY <1>1, <1>7, NumberIsNotNext
  <2> QED  BY <1>2, <1>3, <1>5, <1>7, <2>1
<1>9. line[1].blk \in 0..Len(File)  BY <1>1 DEF Record
<1>10. item \in {Len(mem), Len(mem) + 1}  BY DEF AckInv, ControlInv
<1> QED  BY <1>2, <1>6, <1>7, <1>8, <1>9, <1>10

LEMMA ReceiveExpectedInv ==
  ASSUME 1 \notin NumberDamage, IInv, ReceiveExpected
  PROVE  DeliveredIsPrefix' /\ ControlInv' /\ LineInv' /\ AckInv'
<1> USE DEF IInv
<1>1. pc = "record" /\ pc' = "record" /\ line # <<>> /\ line' = Tail(line)
      /\ error_count' = RETRIES /\ foffset' = foffset + 1
      /\ rx_block_num' = rx_block_num + 1 /\ replies' = Append(replies, "ACK")
      /\ UNCHANGED <<sender, item>> /\ Expected(Head(line))
  BY DEF ReceiveExpected, senderVars
<1>2. /\ 1 \in SohRecords
      /\ line[1].blk = Len(mem) + 1 /\ Len(mem) + 1 \in 1..Len(File)
      /\ item = Len(mem) + 1
      /\ line[1].data = File[Len(mem) + 1]
  BY <1>1, ExpectedIsNext
<1>3. line \in Seq(Record) /\ mem \in Seq(Blocks) /\ replies \in Seq({"ACK", "NAK"})
      /\ Len(mem) \in Nat /\ Len(File) \in Nat
  BY FileAssumption DEF TypeOK
<1>4. Head(line) = line[1] /\ line[1].data \in Blocks
  <2>1. Head(line) = line[1] /\ line[1] \in Record
    BY <1>1, <1>3, HeadTailProperties
  <2> QED  BY <2>1 DEF Record
<1>5. foffset = Len(mem)  BY <1>1 DEF ControlInv
<1>6. mem' = Append(mem, File[Len(mem) + 1])
  BY <1>2, <1>3, <1>4, <1>5 DEF ReceiveExpected, StoreAt
<1>7. Len(mem') = Len(mem) + 1 /\ mem'[Len(mem) + 1] = File[Len(mem) + 1]
      /\ \A i \in 1..Len(mem) : mem'[i] = mem[i]
  BY <1>2, <1>3, <1>4, <1>6, AppendProperties
<1>8. DeliveredIsPrefix'
  BY <1>2, <1>3, <1>7 DEF DeliveredIsPrefix
<1>9. ControlInv'
  <2>1. r' >= 0
    <3>1. r' = rx_block_num % NumModulus  BY DEF ReceiveExpected, Expected
    <3>2. rx_block_num = Len(mem) + 1  BY <1>1 DEF ControlInv
    <3>3. r' \in 0..(NumModulus - 1)  BY <1>3, <3>1, <3>2, NumberInRange
    <3> QED  BY <3>3, ModulusAssumption
  <2> QED  BY <1>1, <1>2, <1>3, <1>5, <1>7, <2>1, RetriesAssumption DEF ControlInv
<1>10. LineInv'
  <2>1. \A i \in DOMAIN line' : i + 1 \in DOMAIN line /\ line'[i] = line[i + 1]
    BY <1>1, <1>3, TailIndex
  <2>2. \A i \in SohRecords' : i + 1 \in SohRecords /\ line'[i] = line[i + 1] /\ i \in Nat \ {0}
    BY <1>1, <1>3, <2>1, HeadTailProperties DEF SohRecords
  <2>3. ASSUME NEW i \in SohRecords'
        PROVE  line'[i].blk = Len(mem')
    <3>1. i + 1 \in SohRecords /\ 1 < i + 1  BY <2>2
    <3>2. line[1].blk <= line[i + 1].blk
      BY <1>1, <1>2, <3>1, <2>2 DEF LineInv
    <3>3. line[i + 1].blk \in {Len(mem), Len(mem) + 1}
      BY <1>1, <3>1 DEF LineInv
    <3> QED  BY <1>2, <1>3, <1>7, <2>2, <3>2, <3>3
  <2>4. \A i \in DOMAIN line : line[i].kind # "EOT"
    BY <1>1, <1>2, <1>3 DEF LineInv
  <2>5. ASSUME NEW i \in SohRecords'
        PROVE  /\ NumberOf(line'[i])
               /\ line'[i].sumok => line'[i].data = File[line'[i].blk]
    BY <1>1, <2>2 DEF LineInv
  <2>6. \A i \in SohRecords' :
           /\ line'[i].blk >= 1 /\ line'[i].blk \in {Len(mem'), Len(mem') + 1}
           /\ line'[i].blk <= item'
    <3>1. Len(mem') >= 1 /\ Len(mem') = item'  BY <1>1, <1>2, <1>3, <1>7
    <3> QED  BY <2>3, <3>1, <1>3, <1>7
  <2>7. \A i, j \in SohRecords' : i < j => line'[i].blk <= line'[j].blk
    BY <2>3, <1>3, <1>7
  <2>8. \A i \in DOMAIN line' : line'[i].kind # "EOT"
    BY <2>1, <2>4
  <2> QED  BY <2>5, <2>6, <2>7, <2>8 DEF LineInv
<1>11. AckInv'
  <2>0. r >= 0  BY <1>1 DEF ControlInv
  <2>1. sender # "cancelled" => Acks = {}
    BY <1>1, <1>2, <1>3, <2>0 DEF AckInv
  <2>2. sender # "cancelled" => Acks' = {Len(replies) + 1}
    BY <1>1, <1>3, <2>1, AppendIndex DEF Acks
  <2>3. item' = Len(mem') /\ item' >= 1
    BY <1>1, <1>2, <1>3, <1>7
  <2>4. sender' # "done"
    BY <1>1 DEF AckInv, ControlInv
  <2> QED  BY <1>1, <2>2, <2>3, <2>4 DEF AckInv
<1> QED  BY <1>8, <1>9, <1>10, <1>11

LEMMA ReceiveOtherInv ==
  ASSUME IInv, ReceiveOther
  PROVE  DeliveredIsPrefix' /\ ControlInv' /\ LineInv' /\ AckInv'
<1> USE DEF IInv
<1>1. /\ pc = "record" /\ line # <<>> /\ line' = Tail(line)
      /\ r' = GetRecord(Head(line)) /\ error_count' = error_count - 1
      /\ replies' = Append(replies, Reply(r'))
      /\ pc' = IF KeepGoing(r', error_count') THEN "record" ELSE "exit"
      /\ UNCHANGED <<rx_block_num, foffset, mem, sender, item>>
  BY DEF ReceiveOther, senderVars
<1>2. line \in Seq(Record) /\ mem \in Seq(Blocks) /\ replies \in Seq({"ACK", "NAK"})
      /\ Len(mem) \in Nat /\ Len(File) \in Nat /\ error_count \in Nat /\ item \in Nat
  BY FileAssumption, RetriesAssumption DEF TypeOK
<1>3. 1 \in DOMAIN line /\ Head(line) = line[1] /\ line[1] \in Record
  BY <1>1, <1>2, HeadTailProperties
<1>4. /\ r' = -4 => line[1].kind = "EOT"
      /\ r' = -5 => line[1].kind \in {"CAN", "junk"}
      /\ r' \in {-4, -5} => pc' = "exit"
      /\ pc' = "record" => r' >= 0
      /\ r' \in Int
  BY <1>1, <1>3, ModulusAssumption DEF GetRecord, Record, KeepGoing
<1>5. pc' \in {"record", "exit"} /\ (pc' = "record" => error_count' > 0)
  BY <1>1, <1>2 DEF KeepGoing, ControlInv
<1>6. DeliveredIsPrefix'
  BY <1>1 DEF DeliveredIsPrefix
<1>7. ControlInv'
  <2>1. r' = -4 => Len(mem) = Len(File)  BY <1>1, <1>3, <1>4 DEF LineInv
  <2> QED  BY <1>1, <1>4, <1>5, <2>1 DEF ControlInv
<1>8. \A i \in DOMAIN line' : /\ i + 1 \in DOMAIN line /\ line'[i] = line[i + 1]
                              /\ i \in Nat
  BY <1>1, <1>2, TailIndex, HeadTailProperties
<1>9. LineInv'
  <2>1. \A i \in SohRecords' : i + 1 \in SohRecords /\ line'[i] = line[i + 1] /\ i \in Nat
    BY <1>8 DEF SohRecords
  <2>2. \A i \in SohRecords' :
         /\ line'[i].blk >= 1 /\ line'[i].blk \in {Len(mem), Len(mem) + 1}
         /\ line'[i].blk <= item
         /\ NumberOf(line'[i])
         /\ line'[i].sumok => line'[i].data = File[line'[i].blk]
    BY <1>1, <2>1 DEF LineInv
  <2>3. \A i, j \in SohRecords' : i < j => line'[i].blk <= line'[j].blk
    <3>1. \A i, j \in SohRecords : i < j => line[i].blk <= line[j].blk
      BY <1>1 DEF LineInv
    <3> QED  BY <2>1, <3>1
  <2>4. \A i \in DOMAIN line' : line'[i].kind = "EOT" =>
          Len(mem) = Len(File) /\ item = Len(File) + 1
    BY <1>1, <1>8 DEF LineInv
  <2> QED  BY <1>1, <2>2, <2>3, <2>4 DEF LineInv
<1>10. AckInv'
  <2>0. r # -5  BY <1>1 DEF ControlInv
  <2>1. item \in {Len(mem), Len(mem) + 1} /\ sender # "done"
    BY <1>1, <2>0 DEF AckInv
  <2>2. ASSUME Reply(r') = "NAK"
        PROVE  Acks' = Acks /\ \A i \in Acks : replies'[i] = replies[i]
    BY <1>1, <1>2, <2>2, AppendIndex DEF Acks
  <2>3. CASE Reply(r') = "NAK"
    BY <1>1, <1>5, <2>0, <2>1, <2>2, <2>3 DEF AckInv
  <2>4. CASE r' = -4
    <3>1. item = Len(File) + 1 /\ Len(mem) = Len(File) /\ pc' = "exit"
      BY <1>1, <1>3, <1>4, <2>4 DEF LineInv
    <3>2. sender # "cancelled" => Acks = {}
      BY <1>1, <1>2, <2>0, <3>1 DEF AckInv
    <3>3. Reply(r') = "ACK"  BY <2>4 DEF Reply
    <3>4. sender # "cancelled" => Acks' = {Len(replies) + 1}
      BY <1>1, <1>2, <3>2, <3>3, AppendIndex DEF Acks
    <3> QED  BY <1>1, <2>1, <2>4, <3>1, <3>4 DEF AckInv
  <2>5. CASE r' = -5
    BY <2>5 DEF AckInv
  <2> QED  BY <2>3, <2>4, <2>5, <1>4 DEF Reply
<1> QED  BY <1>6, <1>7, <1>9, <1>10

LEMMA StartInv ==
  ASSUME IInv, Start
  PROVE  DeliveredIsPrefix' /\ ControlInv' /\ LineInv' /\ AckInv'
<1> USE DEF IInv
<1>1. /\ pc = "start" /\ pc' = "record" /\ rx_block_num' = 1 /\ error_count' = RETRIES
      /\ replies' = Append(replies, "NAK")
      /\ UNCHANGED <<r, foffset, mem, sender, item, line>>
  BY DEF Start, senderVars
<1>2. /\ mem = <<>> /\ foffset = 0 /\ item = 0 /\ replies = <<>> /\ sender = "idle"
      /\ \A i \in DOMAIN line : line[i].kind = "junk"
  BY <1>1 DEF ControlInv
<1>3. replies' = <<"NAK">> /\ Len(mem) = 0  BY <1>1, <1>2
<1>4. DeliveredIsPrefix'  BY <1>1 DEF DeliveredIsPrefix
<1>5. ControlInv'  BY <1>1, <1>2, <1>3, RetriesAssumption DEF ControlInv
<1>6. LineInv'  BY <1>1, <1>2 DEF LineInv, SohRecords
<1>7. AckInv'
  <2>1. Acks' = {}  BY <1>3 DEF Acks
  <2> QED  BY <1>1, <1>2, <1>3, <2>1 DEF AckInv
<1> QED  BY <1>4, <1>5, <1>6, <1>7

LEMMA ReturnInv ==
  ASSUME IInv, Return
  PROVE  DeliveredIsPrefix' /\ ControlInv' /\ LineInv' /\ AckInv'
<1> USE DEF IInv
<1>1. /\ pc = "exit" /\ pc' = "returned"
      /\ foffset' = IF error_count = 0 \/ r # -4 THEN 0 ELSE foffset
      /\ UNCHANGED <<r, rx_block_num, error_count, mem, sender, item, line, replies>>
  BY DEF Return, senderVars
<1>2. DeliveredIsPrefix'  BY <1>1 DEF DeliveredIsPrefix
<1>3. ControlInv'  BY <1>1 DEF ControlInv
<1>4. LineInv'  BY <1>1 DEF LineInv
<1>5. AckInv'
  <2>1. Acks' = Acks  BY <1>1 DEF Acks
  <2> QED  BY <1>1, <2>1 DEF AckInv
<1> QED  BY <1>2, <1>3, <1>4, <1>5

LEMMA SendInv ==
  ASSUME IInv, Send
  PROVE  DeliveredIsPrefix' /\ ControlInv' /\ LineInv' /\ AckInv'
<1> USE DEF IInv
<1> DEFINE rec == IF item <= Len(File) THEN Packet(item) ELSE Control("EOT")
           n == Len(line) + 1
<1>1. /\ sender = "sending" /\ sender' = "waiting" /\ line' = Append(line, rec)
      /\ UNCHANGED <<pc, r, rx_block_num, error_count, foffset, mem, item, replies>>
  BY DEF Send, receiverVars
<1>2. /\ item \in 1..(Len(File) + 1) /\ Len(File) \in Nat /\ Len(mem) \in Nat
      /\ line \in Seq(Record) /\ Len(line) \in Nat /\ pc # "start"
  BY <1>1, FileAssumption DEF TypeOK, ControlInv
<1>3. rec \in Record  BY <1>2, RecordsSent
<1>4. /\ rec.kind = "SOH" => /\ rec.blk = item /\ item <= Len(File)
                             /\ NumberOf(rec) /\ rec.data = File[item]
      /\ rec.kind = "EOT" => item = Len(File) + 1
      /\ rec.kind \in {"SOH", "EOT"}
  <2>1. item + 0 = item  BY <1>2
  <2>2. rec.kind = "SOH" => NumberOf(rec)
    BY <2>1 DEF Packet, Control, NumberOf
  <2> QED  BY <1>2, <2>2 DEF Packet, Control
<1> HIDE DEF rec
<1>5. /\ DOMAIN line' = DOMAIN line \cup {n}
      /\ \A i \in DOMAIN line : line'[i] = line[i] /\ i < n /\ i \in Nat
      /\ line'[n] = rec /\ n \in Nat
  BY <1>1, <1>2, <1>3, AppendIndex
<1>6. DeliveredIsPrefix'  BY <1>1 DEF DeliveredIsPrefix
<1>7. ControlInv'  BY <1>1, <1>2 DEF ControlInv
<1>8. LineInv'
  <2> SUFFICES ASSUME pc = "record" PROVE LineInv'
    BY <1>1 DEF LineInv
  <2>1. item \in {Len(mem), Len(mem) + 1} /\ Len(mem) <= Len(File)
    BY DEF AckInv, ControlInv, DeliveredIsPrefix
  <2>2. \A i \in SohRecords' : (i \in SohRecords /\ line'[i] = line[i] /\ i < n)
                               \/ (i = n /\ line'[i] = rec /\ rec.kind = "SOH")
    BY <1>5 DEF SohRecords
  <2>3. \A i \in SohRecords' :
         /\ line'[i].blk >= 1 /\ line'[i].blk \in {Len(mem), Len(mem) + 1}
         /\ line'[i].blk <= item
         /\ NumberOf(line'[i])
         /\ line'[i].sumok => line'[i].data = File[line'[i].blk]
    <3> SUFFICES ASSUME NEW i \in SohRecords'
                 PROVE  /\ line'[i].blk >= 1 /\ line'[i].blk \in {Len(mem), Len(mem) + 1}
                        /\ line'[i].blk <= item
                        /\ NumberOf(line'[i])
                        /\ line'[i].sumok => line'[i].data = File[line'[i].blk]
      OBVIOUS
    <3>1. CASE i \in SohRecords /\ line'[i] = line[i]
      BY <3>1 DEF LineInv
    <3>2. CASE line'[i] = rec /\ rec.kind = "SOH"
      BY <1>2, <1>4, <2>1, <3>2
    <3> QED  BY <2>2, <3>1, <3>2
  <2>4. ASSUME NEW i \in SohRecords', NEW j \in SohRecords', i < j
        PROVE  line'[i].blk <= line'[j].blk
    <3>1. i \in SohRecords /\ line'[i] = line[i]
      BY <1>5, <2>2, <2>4 DEF SohRecords
    <3>2. CASE j \in SohRecords /\ line'[j] = line[j]
      BY <2>4, <3>1, <3>2 DEF LineInv
    <3>3. CASE line'[j] = rec /\ rec.kind = "SOH"
      <4>1. line[i].blk <= item  BY <3>1 DEF LineInv
      <4> QED  BY <1>4, <3>1, <3>3, <4>1
    <3> QED  BY <2>2, <3>2, <3>3
  <2>5. \A i \in DOMAIN line' : line'[i].kind = "EOT" =>
          Len(mem) = Len(File) /\ item = Len(File) + 1
    <3>1. rec.kind = "EOT" => Len(mem) = Len(File) /\ item = Len(File) + 1
      BY <1>2, <1>4, <2>1
    <3>2. \A i \in DOMAIN line : line[i].kind = "EOT" =>
            Len(mem) = Len(File) /\ item = Len(File) + 1
      BY DEF LineInv
    <3> QED  BY <1>5, <3>1, <3>2
  <2> QED  BY <1>1, <2>3, <2>4, <2>5 DEF LineInv
<1>9. AckInv'
  <2>1. Acks' = Acks  BY <1>1 DEF Acks
  <2> QED  BY <1>1, <2>1 DEF AckInv
<1> QED  BY <1>6, <1>7, <1>8, <1>9

\* A stray or cancelling character behind the packets leaves LineInv alone.
LEMMA AppendControlLine ==
  ASSUME IInv, NEW c \in {"CAN", "junk"}, line' = Append(line, Control(c)),
         UNCHANGED <<pc, mem, item>>
  PROVE  /\ LineInv'
         /\ DOMAIN line' = DOMAIN line \cup {Len(line) + 1}
         /\ \A i \in DOMAIN line : line'[i] = line[i]
         /\ line'[Len(line) + 1].kind = c
<1> USE DEF IInv
<1>1. line \in Seq(Record) /\ Control(c) \in Record  BY RecordsSent DEF TypeOK
<1>2. Control(c).kind = c  BY DEF Control
<1>3. /\ DOMAIN line' = DOMAIN line \cup {Len(line) + 1}
      /\ \A i \in DOMAIN line : line'[i] = line[i]
      /\ line'[Len(line) + 1].kind = c
  BY <1>1, <1>2, AppendIndex
<1>4. SohRecords' = SohRecords
  BY <1>1, <1>3 DEF SohRecords
<1>5. \A i \in DOMAIN line' : line'[i].kind = "EOT" => i \in DOMAIN line
  BY <1>3
<1>6. \A i \in SohRecords : line'[i] = line[i]  BY <1>3 DEF SohRecords
<1>7. LineInv'
  BY <1>3, <1>4, <1>5, <1>6 DEF LineInv
<1> QED  BY <1>3, <1>7

LEMMA CancelInv ==
  ASSUME IInv, Cancel
  PROVE  DeliveredIsPrefix' /\ ControlInv' /\ LineInv' /\ AckInv'
<1> USE DEF IInv
<1>1. /\ sender \in {"sending", "waiting"} /\ sender' = "cancelled"
      /\ line' = Append(line, Control("CAN"))
      /\ UNCHANGED <<pc, r, rx_block_num, error_count, foffset, mem, item, replies>>
  BY DEF Cancel, receiverVars
<1>2. /\ LineInv'
      /\ DOMAIN line' = DOMAIN line \cup {Len(line) + 1}
      /\ \A i \in DOMAIN line : line'[i] = line[i]
      /\ line'[Len(line) + 1].kind = "CAN"
  BY <1>1, AppendControlLine
<1>3. DeliveredIsPrefix'  BY <1>1 DEF DeliveredIsPrefix
<1>4. ControlInv'  BY <1>1, <1>2 DEF ControlInv
<1>5. AckInv'  BY <1>1, <1>2 DEF AckInv
<1> QED  BY <1>2, <1>3, <1>4, <1>5

LEMMA NoiseInv ==
  ASSUME IInv, Noise
  PROVE  DeliveredIsPrefix' /\ ControlInv' /\ LineInv' /\ AckInv'
<1> USE DEF IInv
<1>1. /\ "junk" \in LineFaults /\ line' = Append(line, Control("junk"))
      /\ UNCHANGED <<pc, r, rx_block_num, error_count, foffset, mem, sender, item, replies>>
  BY DEF Noise, Fault, receiverVars, senderVars
<1>2. /\ LineInv'
      /\ DOMAIN line' = DOMAIN line \cup {Len(line) + 1}
      /\ \A i \in DOMAIN line : line'[i] = line[i]
      /\ line'[Len(line) + 1].kind = "junk"
  BY <1>1, AppendControlLine
<1>3. DeliveredIsPrefix'  BY <1>1 DEF DeliveredIsPrefix
<1>4. ControlInv'  BY <1>1, <1>2 DEF ControlInv
<1>5. AckInv'
  <2>1. Acks' = Acks  BY <1>1 DEF Acks
  <2> QED  BY <1>1, <2>1 DEF AckInv
<1> QED  BY <1>2, <1>3, <1>4, <1>5

\* Removing the head of the replies, whoever takes it.
LEMMA AcksOfTail ==
  ASSUME TypeOK, replies # <<>>, replies' = Tail(replies)
  PROVE  \A i \in Acks' : i + 1 \in Acks /\ i \in Nat \ {0}
<1>1. replies \in Seq({"ACK", "NAK"})  BY DEF TypeOK
<1>2. \A i \in DOMAIN replies' : i + 1 \in DOMAIN replies /\ replies'[i] = replies[i + 1]
  BY <1>1, TailIndex
<1>3. DOMAIN replies' \subseteq Nat \ {0}
  BY <1>1, HeadTailProperties
<1> QED  BY <1>2, <1>3 DEF Acks

LEMMA StartSendingInv ==
  ASSUME IInv, StartSending
  PROVE  DeliveredIsPrefix' /\ ControlInv' /\ LineInv' /\ AckInv'
<1> USE DEF IInv
<1>1. /\ sender = "idle" /\ sender' = "sending" /\ item' = 1
      /\ replies # <<>> /\ replies' = Tail(replies)
      /\ UNCHANGED <<pc, r, rx_block_num, error_count, foffset, mem, line>>
  BY DEF StartSending, receiverVars
<1>2. item = 0 /\ pc # "start" /\ Len(mem) \in Nat /\ Len(File) \in Nat
  BY <1>1, FileAssumption DEF ControlInv, TypeOK
<1>3. DeliveredIsPrefix'  BY <1>1 DEF DeliveredIsPrefix
<1>4. ControlInv'  BY <1>1, <1>2 DEF ControlInv
<1>5. LineInv'
  <2> SUFFICES ASSUME pc = "record" PROVE LineInv'
    BY <1>1 DEF LineInv
  <2>1. SohRecords = {}
    <3> SUFFICES ASSUME NEW i \in SohRecords PROVE FALSE  OBVIOUS
    <3>1. line[i].blk >= 1 /\ line[i].blk <= 0 /\ line[i].blk \in {Len(mem), Len(mem) + 1}
      BY <1>2 DEF LineInv
    <3> QED  BY <3>1, <1>2
  <2>2. \A i \in DOMAIN line : line[i].kind # "EOT"
    BY <1>2 DEF LineInv
  <2> QED  BY <1>1, <2>1, <2>2 DEF LineInv, SohRecords
<1>6. AckInv'
  <2>1. r # -5 => Len(mem) = 0 /\ Acks = {}
    BY <1>1, <1>2 DEF AckInv
  <2>2. \A i \in Acks' : i + 1 \in Acks  BY <1>1, AcksOfTail
  <2> QED  BY <1>1, <1>2, <2>1, <2>2 DEF AckInv
<1> QED  BY <1>3, <1>4, <1>5, <1>6

LEMMA TakeReplyInv ==
  ASSUME IInv, TakeReply
  PROVE  DeliveredIsPrefix' /\ ControlInv' /\ LineInv' /\ AckInv'
<1> USE DEF IInv
<1>1. /\ sender = "waiting" /\ replies # <<>> /\ replies' = Tail(replies)
      /\ UNCHANGED <<pc, r, rx_block_num, error_count, foffset, mem, line>>
  BY DEF TakeReply, receiverVars
<1>2. /\ Len(mem) \in Nat /\ Len(File) \in Nat /\ item \in 1..(Len(File) + 1)
      /\ pc # "start" /\ replies \in Seq({"ACK", "NAK"})
  BY <1>1, FileAssumption DEF ControlInv, TypeOK
<1>3. DeliveredIsPrefix'  BY <1>1 DEF DeliveredIsPrefix
<1>4. \A i \in Acks' : i + 1 \in Acks /\ i \in Nat \ {0}  BY <1>1, AcksOfTail
<1>5. CASE Head(replies) = "NAK"
  <2>1. sender' = "sending" /\ item' = item  BY <1>5 DEF TakeReply
  <2>2. ControlInv'  BY <1>1, <1>2, <2>1 DEF ControlInv
  <2>3. LineInv'  BY <1>1, <2>1 DEF LineInv, SohRecords
  <2>4. AckInv'
    <3>1. r # -5 =>
            /\ item' \in {Len(mem'), Len(mem') + 1}
            /\ \A i \in Acks' :
                 \/ item' = Len(mem') /\ item' >= 1
                 \/ pc' \in {"exit", "returned"} /\ r' = -4 /\ item' = Len(File) + 1
            /\ \A i, j \in Acks' : i = j
      BY <1>1, <1>4, <2>1 DEF AckInv
    <3> QED  BY <1>1, <2>1, <3>1 DEF AckInv
  <2> QED  BY <1>3, <2>2, <2>3, <2>4
<1>6. CASE Head(replies) = "ACK"
  <2>1. /\ sender' = IF item > Len(File) THEN "done" ELSE "sending"
        /\ item' = IF item > Len(File) THEN item ELSE item + 1
    BY <1>6 DEF TakeReply
  <2>2. 1 \in Acks
    BY <1>1, <1>2, <1>6, HeadTailProperties DEF Acks
  <2>3. ControlInv'  BY <1>1, <1>2, <2>1 DEF ControlInv
  <2>4. ASSUME r # -5
        PROVE  /\ \/ item = Len(mem) /\ item >= 1
                  \/ pc \in {"exit", "returned"} /\ r = -4 /\ item = Len(File) + 1
               /\ Acks' = {}
    <3>1. \A i, j \in Acks : i = j  BY <1>1, <2>4 DEF AckInv
    <3>2. Acks' = {}  BY <1>4, <2>2, <3>1
    <3> QED  BY <1>1, <2>2, <2>4, <3>2 DEF AckInv
  <2>5. pc = "record" => item = Len(mem) /\ item <= Len(File) /\ item' = item + 1
    BY <1>2, <2>1, <2>4 DEF DeliveredIsPrefix, ControlInv
  <2>6. LineInv'
    <3> SUFFICES ASSUME pc = "record" PROVE LineInv'
      BY <1>1 DEF LineInv
    <3>1. SohRecords' = SohRecords  BY <1>1 DEF SohRecords
    <3>2. \A i \in SohRecords : line[i].blk <= item'
      <4> SUFFICES ASSUME NEW i \in SohRecords PROVE line[i].blk <= item'  OBVIOUS
      <4>1. line[i].blk <= item /\ line[i].blk \in {Len(mem), Len(mem) + 1}
        BY DEF LineInv
      <4> QED  BY <4>1, <1>2, <2>5
    <3>3. \A i \in DOMAIN line : line[i].kind # "EOT"
      BY <1>2, <2>5 DEF LineInv
    <3> QED  BY <1>1, <3>1, <3>2, <3>3 DEF LineInv
  <2>7. AckInv'
    <3>1. ASSUME r # -5
          PROVE  item' \in {Len(mem), Len(mem) + 1}
      <4>1. pc \in {"exit", "returned"} /\ r = -4 => Len(mem) = Len(File)
        BY DEF ControlInv
      <4> QED  BY <1>2, <2>1, <2>4, <3>1, <4>1 DEF DeliveredIsPrefix
    <3>2. r # -5 =>
            (sender' = "done" => pc \in {"exit", "returned"} /\ r = -4)
      BY <1>2, <2>1, <2>4 DEF DeliveredIsPrefix
    <3>3. sender' # "cancelled"  BY <2>1
    <3> QED  BY <1>1, <1>2, <2>4, <3>1, <3>2, <3>3 DEF AckInv
  <2> QED  BY <1>3, <2>3, <2>6, <2>7
<1> QED
  <2>1. Head(replies) \in {"ACK", "NAK"}  BY <1>1, <1>2, HeadTailProperties
  <2> QED  BY <1>5, <1>6, <2>1

LEMMA TimeoutInv ==
  ASSUME IInv, Timeout
  PROVE  DeliveredIsPrefix' /\ ControlInv' /\ LineInv' /\ AckInv'
<1> USE DEF IInv
<1>1. /\ sender = "waiting" /\ sender' \in {"sending", "gave_up"}
      /\ UNCHANGED <<pc, r, rx_block_num, error_count, foffset, mem, item, line, replies>>
  BY DEF Timeout, receiverVars
<1>2. DeliveredIsPrefix'  BY <1>1 DEF DeliveredIsPrefix
<1>3. ControlInv'  BY <1>1 DEF ControlInv
<1>4. LineInv'  BY <1>1 DEF LineInv, SohRecords
<1>5. AckInv'
  <2>1. Acks' = Acks  BY <1>1 DEF Acks
  <2> QED  BY <1>1, <2>1 DEF AckInv
<1> QED  BY <1>2, <1>3, <1>4, <1>5

LEMMA DamageDataInv ==
  ASSUME IInv, DamageData
  PROVE  DeliveredIsPrefix' /\ ControlInv' /\ LineInv' /\ AckInv'
<1> USE DEF IInv
<1>1. UNCHANGED <<pc, r, rx_block_num, error_count, foffset, mem, sender, item, replies>>
  BY DEF DamageData, receiverVars, senderVars
<1>2. PICK k \in DOMAIN line : line[k].kind = "SOH"
                               /\ line' = [line EXCEPT ![k] = Damaged(line[k])]
  BY DEF DamageData
<1>3. /\ DOMAIN line' = DOMAIN line
      /\ \A i \in DOMAIN line : i # k => line'[i] = line[i]
      /\ line'[k] = Damaged(line[k])
  BY <1>2 DEF TypeOK
<1>4. \A i \in DOMAIN line :
        /\ line'[i].kind = line[i].kind /\ line'[i].blk = line[i].blk
        /\ line'[i].num = line[i].num
        /\ line'[i].sumok => line'[i] = line[i]
  BY <1>3 DEF Damaged
<1>5. SohRecords' = SohRecords  BY <1>3, <1>4 DEF SohRecords
<1>6. DeliveredIsPrefix'  BY <1>1 DEF DeliveredIsPrefix
<1>7. ControlInv'  BY <1>1, <1>3, <1>4 DEF ControlInv
<1>8. LineInv'
  <2>1. ASSUME pc = "record", NEW i \in SohRecords
        PROVE  /\ NumberOf(line'[i])
               /\ line'[i].sumok => line'[i].data = File[line'[i].blk]
    <3>1. i \in DOMAIN line /\ NumberOf(line[i])  BY <2>1 DEF LineInv, SohRecords
    <3>2. NumberOf(line'[i])  BY <1>4, <3>1 DEF NumberOf
    <3>3. line[i].sumok => line[i].data = File[line[i].blk]  BY <2>1 DEF LineInv
    <3> QED  BY <1>4, <3>1, <3>2, <3>3
  <2>2. SohRecords \subseteq DOMAIN line  BY DEF SohRecords
  <2> QED  BY <1>1, <1>3, <1>4, <1>5, <2>1, <2>2 DEF LineInv
<1>9. AckInv'
  <2>1. Acks' = Acks  BY <1>1 DEF Acks
  <2> QED  BY <1>1, <1>3, <1>4, <2>1 DEF AckInv
<1> QED  BY <1>6, <1>7, <1>8, <1>9

LEMMA DamageNumberInv ==
  ASSUME IInv, DamageNumber
  PROVE  DeliveredIsPrefix' /\ ControlInv' /\ LineInv' /\ AckInv'
<1> USE DEF IInv
<1>1. UNCHANGED <<pc, r, rx_block_num, error_count, foffset, mem, sender, item, replies>>
  BY DEF DamageNumber, receiverVars, senderVars
<1>2. PICK k \in DOMAIN line, d \in NumberDamage :
        line' = [line EXCEPT ![k] = Renumbered(line[k], (line[k].blk + d) % NumModulus)]
  BY DEF DamageNumber
<1>3. /\ DOMAIN line' = DOMAIN line
      /\ \A i \in DOMAIN line : i # k => line'[i] = line[i]
      /\ line'[k] = Renumbered(line[k], (line[k].blk + d) % NumModulus)
  BY <1>2 DEF TypeOK
<1>4. \A i \in DOMAIN line :
        /\ line'[i].kind = line[i].kind /\ line'[i].blk = line[i].blk
        /\ line'[i].sumok = line[i].sumok /\ line'[i].data = line[i].data
  BY <1>3 DEF Renumbered
<1>5. SohRecords' = SohRecords /\ SohRecords \subseteq DOMAIN line
  BY <1>3, <1>4 DEF SohRecords
<1>6. DeliveredIsPrefix'  BY <1>1 DEF DeliveredIsPrefix
<1>7. ControlInv'  BY <1>1, <1>3, <1>4 DEF ControlInv
<1>8. ASSUME pc = "record", NEW i \in SohRecords
      PROVE  NumberOf(line'[i])
  <2>1. CASE i = k
    BY <1>3, <2>1 DEF NumberOf, Renumbered
  <2>2. CASE i # k
    <3>1. line'[i] = line[i]  BY <1>3, <1>5, <2>2
    <3>2. NumberOf(line[i])  BY <1>8 DEF LineInv
    <3> QED  BY <3>1, <3>2
  <2> QED  BY <2>1, <2>2
<1>9. LineInv'
  BY <1>1, <1>3, <1>4, <1>5, <1>8 DEF LineInv
<1>10. AckInv'
  <2>1. Acks' = Acks  BY <1>1 DEF Acks
  <2> QED  BY <1>1, <2>1 DEF AckInv
<1> QED  BY <1>6, <1>7, <1>9, <1>10

LEMMA LoseRecordInv ==
  ASSUME IInv, LoseRecord
  PROVE  DeliveredIsPrefix' /\ ControlInv' /\ LineInv' /\ AckInv'
<1> USE DEF IInv
<1>1. /\ line # <<>> /\ line' = Tail(line) /\ line \in Seq(Record)
      /\ UNCHANGED <<pc, r, rx_block_num, error_count, foffset, mem, sender, item, replies>>
  BY DEF LoseRecord, receiverVars, senderVars, TypeOK
<1>2. \A i \in DOMAIN line' : /\ i + 1 \in DOMAIN line /\ line'[i] = line[i + 1]
                              /\ i \in Nat
  BY <1>1, TailIndex, HeadTailProperties
<1>3. \A i \in SohRecords' : i + 1 \in SohRecords /\ line'[i] = line[i + 1] /\ i \in Nat
  BY <1>2 DEF SohRecords
<1>4. DeliveredIsPrefix'  BY <1>1 DEF DeliveredIsPrefix
<1>5. ControlInv'  BY <1>1, <1>2 DEF ControlInv
<1>6. LineInv'
  <2> SUFFICES ASSUME pc = "record" PROVE LineInv'
    BY <1>1 DEF LineInv
  <2>1. \A i, j \in SohRecords' : i < j => line'[i].blk <= line'[j].blk
    <3>1. \A i, j \in SohRecords : i < j => line[i].blk <= line[j].blk
      BY DEF LineInv
    <3> QED  BY <1>3, <3>1
  <2> QED  BY <1>1, <1>2, <1>3, <2>1 DEF LineInv
<1>7. AckInv'
  <2>1. Acks' = Acks  BY <1>1 DEF Acks
  <2> QED  BY <1>1, <1>2, <2>1 DEF AckInv
<1> QED  BY <1>4, <1>5, <1>6, <1>7

LEMMA LoseReplyInv ==
  ASSUME IInv, LoseReply
  PROVE  DeliveredIsPrefix' /\ ControlInv' /\ LineInv' /\ AckInv'
<1> USE DEF IInv
<1>1. /\ replies # <<>> /\ replies' = Tail(replies)
      /\ UNCHANGED <<pc, r, rx_block_num, error_count, foffset, mem, sender, item, line>>
  BY DEF LoseReply, receiverVars, senderVars
<1>2. DeliveredIsPrefix'  BY <1>1 DEF DeliveredIsPrefix
<1>3. ControlInv'  BY <1>1 DEF ControlInv
<1>4. LineInv'  BY <1>1 DEF LineInv, SohRecords
<1>5. AckInv'
  <2>1. \A i \in Acks' : i + 1 \in Acks /\ i \in Nat \ {0}  BY <1>1, AcksOfTail
  <2> QED  BY <1>1, <2>1 DEF AckInv
<1> QED  BY <1>2, <1>3, <1>4, <1>5

LEMMA StepIInv ==
  ASSUME 1 \notin NumberDamage, IInv, [Next]_vars
  PROVE  IInv'
<1>1. TypeOK'  BY StepTypeOK DEF IInv
<1>2. DeliveredIsPrefix' /\ ControlInv' /\ LineInv' /\ AckInv'
  <2>1. CASE Receiver
    BY <2>1, StartInv, ReceiveExpectedInv, ReceiveOtherInv, ReturnInv DEF Receiver
  <2>2. CASE Sender
    BY <2>2, SendInv, StartSendingInv, TakeReplyInv, TimeoutInv, CancelInv DEF Sender
  <2>3. CASE Line
    BY <2>3, DamageDataInv, DamageNumberInv, NoiseInv, LoseRecordInv, LoseReplyInv
       DEF Line
  <2>4. CASE UNCHANGED vars
    BY <2>4 DEF vars, receiverVars, senderVars, IInv, DeliveredIsPrefix, ControlInv,
                LineInv, AckInv, SohRecords, Acks
  <2> QED  BY <2>1, <2>2, <2>3, <2>4 DEF Next
<1> QED  BY <1>1, <1>2 DEF IInv

-----------------------------------------------------------------------------
(* The theorems.                                                           *)

\* The invariant holds throughout on every line whose damage never turns a block
\* number into the next one, whatever else it damages, loses or adds.
THEOREM Invariance == ASSUME 1 \notin NumberDamage PROVE Spec => []IInv
<1>1. Init => IInv  BY InitIInv
<1>2. IInv /\ [Next]_vars => IInv'  BY StepIInv
<1> QED  BY <1>1, <1>2, PTL DEF Spec

\* The counters, codes and queues keep their ranges (my_xmodem.c:78-137).
THEOREM TypeCorrect == ASSUME 1 \notin NumberDamage PROVE Spec => []TypeOK
BY Invariance, PTL DEF IInv

\* The memory at download_addr always holds a prefix of the file, for every
\* file, every wrap of the block numbers and every pattern of repeats and
\* losses (my_xmodem.c:86-93).
THEOREM Delivery == ASSUME 1 \notin NumberDamage PROVE Spec => []DeliveredIsPrefix
BY Invariance, PTL DEF IInv

\* An ACK is never a lie until the receiver takes a stray character for a
\* cancellation (my_xmodem.c:92, 117).
THEOREM AcksAreTrue ==
  ASSUME 1 \notin NumberDamage
  PROVE  Spec => []AckMeansStored
<1>1. IInv => AckMeansStored
  <2> SUFFICES ASSUME IInv PROVE AckMeansStored  OBVIOUS
  <2> USE DEF IInv
  <2>0. Len(mem) \in Nat /\ Len(File) \in Nat /\ mem \in Seq(Blocks) /\ File \in Seq(Blocks)
    BY FileAssumption DEF TypeOK
  <2>1. r # -5 => item <= Len(mem) + 1  BY <2>0 DEF AckInv
  <2>2. ASSUME r # -5, sender = "done"
        PROVE  mem = File /\ pc \in {"exit", "returned"} /\ r = -4
    <3>1. pc \in {"exit", "returned"} /\ r = -4  BY <2>2 DEF AckInv
    <3>2. Len(mem) = Len(File)  BY <3>1 DEF ControlInv
    <3>3. mem = File  BY <2>0, <3>2, SeqEqual DEF DeliveredIsPrefix
    <3> QED  BY <3>1, <3>3
  <2> QED  BY <2>1, <2>2 DEF AckMeansStored
<1> QED  BY <1>1, Invariance, PTL

\* The receive loop implements FileTransfer: it never stores anything but the
\* next block, stores nothing after its answer, and answers with a size only
\* when the whole file is in memory (my_xmodem.c:83-136).
THEOREM Refinement ==
  ASSUME 1 \notin NumberDamage
  PROVE  Spec => ImplementsFileTransfer
<1>1. Init => Abstract!Init
  BY DEF Init, Abstract!Init, outcomeBar
<1>2. ASSUME IInv, IInv', [Next]_vars
      PROVE  [Abstract!Next]_(Abstract!vars)
  <2>a. mem \in Seq(Blocks) /\ foffset \in Nat  BY <1>2 DEF IInv, TypeOK
  <2>b. File \in Seq(Blocks)  BY FileAssumption
  <2>c. \A s \in Seq(Blocks) : Len(s) \in Nat  OBVIOUS
  <2>0. /\ Len(mem) \in Nat /\ Len(File) \in Nat /\ mem \in Seq(Blocks) /\ File \in Seq(Blocks)
        /\ foffset \in Nat
    BY <2>a, <2>b, <2>c
  <2> USE <1>2 DEF IInv
  <2>1. CASE ReceiveExpected
    <3>1. /\ pc = "record" /\ pc' = "record" /\ line # <<>> /\ Expected(Head(line))
          /\ mem' = StoreAt(mem, foffset, Head(line).data)
      BY <2>1 DEF ReceiveExpected
    <3>2. /\ Len(mem) + 1 \in 1..Len(File) /\ 1 \in SohRecords
          /\ line[1].data = File[Len(mem) + 1]
      BY <3>1, ExpectedIsNext
    <3>3. foffset = Len(mem)  BY <3>1 DEF ControlInv
    <3>4. Head(line) = line[1]
      BY <3>1, HeadTailProperties DEF TypeOK
    <3>5. mem' = Append(mem, File[Len(mem) + 1])
      BY <2>0, <3>1, <3>2, <3>3, <3>4 DEF StoreAt
    <3>6. Abstract!StoreNext
      BY <2>0, <3>1, <3>2, <3>5 DEF Abstract!StoreNext, outcomeBar
    <3> QED  BY <3>6 DEF Abstract!Next
  <2>2. CASE Return
    <3>1. /\ pc = "exit" /\ pc' = "returned" /\ mem' = mem /\ r' = r
      BY <2>2 DEF Return
    <3>2. CASE foffset' > 0
      <4>1. r = -4  BY <3>1, <3>2 DEF ControlInv
      <4>2. Len(mem) = Len(File)  BY <3>1, <4>1 DEF ControlInv
      <4>3. mem = File  BY <2>0, <4>2, SeqEqual DEF DeliveredIsPrefix
      <4> QED  BY <3>1, <3>2, <4>3 DEF Abstract!Next, Abstract!Succeed, outcomeBar
    <3>3. CASE ~(foffset' > 0)
      BY <3>1, <3>3 DEF Abstract!Next, Abstract!Fail, outcomeBar
    <3> QED  BY <3>2, <3>3
  <2>3. CASE ~ReceiveExpected /\ ~Return
    <3>1. mem' = mem
      BY <2>3 DEF Next, Receiver, Sender, Line, Start, ReceiveOther, Send, StartSending,
         TakeReply, Timeout, Cancel, DamageData, DamageNumber, Noise, LoseRecord,
         LoseReply, vars, receiverVars
    <3>2. outcomeBar' = outcomeBar
      <4>1. \/ pc = "start" /\ pc' = "record"
            \/ pc = "record" /\ pc' \in {"record", "exit"}
            \/ pc' = pc /\ foffset' = foffset
        BY <2>3 DEF Next, Receiver, Sender, Line, Start, ReceiveOther, Send, StartSending,
           TakeReply, Timeout, Cancel, DamageData, DamageNumber, Noise, LoseRecord,
           LoseReply, vars, receiverVars
      <4> QED  BY <4>1 DEF outcomeBar
    <3> QED  BY <3>1, <3>2 DEF Abstract!vars
  <2> QED  BY <2>1, <2>2, <2>3
<1>3. Spec => []IInv  BY Invariance
<1> QED  BY <1>1, <1>2, <1>3, PTL DEF Spec, ImplementsFileTransfer, Abstract!Spec
=============================================================================
