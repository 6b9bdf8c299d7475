---------------------------- MODULE SimpleXmodem ----------------------------
(***************************************************************************)
(* xmodem_recv of xmodem.c in                                              *)
(* src/tiny210-linux-codes/b-superboot-demo/bootloader: the receiver that  *)
(* tests neither block number nor checksum, sends one NAK and knows no     *)
(* retry, with the sender and the serial line around it (external).        *)
(*                                                                         *)
(* It reads byte by byte, so a byte more or less shifts everything behind  *)
(* it.  A byte is a record: is tells what the code compares it with, what  *)
(* is the value that it leaves in memory.                                  *)
(***************************************************************************)
EXTENDS Integers, Sequences, SequencesExt

CONSTANTS
  PacketBytes,  \* data bytes of a packet: 128 in the code
  Image,        \* the bytes sent, padded to whole packets
  LineFaults,   \* which of "stray", "byte", "answer" occur
  MaxFaults,    \* bound: line faults in one behaviour
  Patience      \* bound: timeouts of the sender in one transfer

ASSUME PacketAssumption ==
  /\ PacketBytes \in Nat \ {0} /\ Len(Image) % PacketBytes = 0
  /\ Image \in Seq([is : STRING, what : {"sent"} \X Nat])
  /\ \A k \in DOMAIN Image : Image[k].what = <<"sent", k>>

VARIABLES
  mem,       \* the memory of the board
  pc,        \* "countdown", "packet": xmodem_recv is running
  at,        \* bytes of the current packet that have been read
  addr,      \* where the next data byte goes
  rx,        \* bytes on the way to the board
  tx,        \* answers on the way to the sender
  host,      \* the sender: "absent", "ready", "sending", "waiting", "done", "gone"
  item,      \* the packet the sender is at; Packets + 1 is EOT
  timeouts,  \* timeouts suffered in this transfer
  faults,    \* line faults so far
  disturbed  \* the transfer under way has met a fault

hostVars == <<host, item, timeouts>>
xmodemVars == <<mem, pc, at, addr, rx, tx, hostVars, faults, disturbed>>

Packets == Len(Image) \div PacketBytes
Sign(s, k) == [is |-> s, what |-> <<s, k>>]
Packet(k) == <<Sign("SOH", 0), Sign("number", k), Sign("complement", k)>>
             \o SubSeq(Image, (k - 1) * PacketBytes + 1, k * PacketBytes)
             \o <<Sign("checksum", k)>>

-----------------------------------------------------------------------------
(* The receiver.                                                           *)

\* The ninth digit has been shown and the last delay is over: uart_putchar(NAK).
StartNak ==
  /\ pc = "countdown"
  /\ pc' = "packet" /\ at' = 0
  /\ tx' = Append(tx, "NAK")
  /\ UNCHANGED <<mem, addr, rx, hostVars, faults, disturbed>>

\* Memory that is not modelled takes no byte.
StoreByte(m, a, b) == IF a \in DOMAIN m THEN [m EXCEPT ![a] = b.what] ELSE m

\* uart_getchar() where the header of a packet is expected.
GetHeader ==
  /\ pc = "packet" /\ at = 0 /\ rx # <<>>
  /\ rx' = Tail(rx)
  /\ IF Head(rx).is = "EOT"
     THEN pc' = "prompt" /\ tx' = Append(tx, "ACK") /\ UNCHANGED at
     ELSE at' = 1 /\ UNCHANGED <<pc, tx>>
  /\ UNCHANGED <<mem, addr, hostVars, faults, disturbed>>

\* The two bytes that are read and dropped, and the data behind them.  What
\* becomes of a program that writes over itself (pc) is left to Superboot.
\* Mutant: the complement of the block number is taken for data.
GetByteSkipsOne ==
  /\ pc = "packet" /\ at \in 1..(PacketBytes + 2) /\ rx # <<>>
  /\ rx' = Tail(rx) /\ at' = at + 1
  /\ IF at < 2 \/ at = PacketBytes + 2
     THEN UNCHANGED <<mem, addr>>
     ELSE mem' = StoreByte(mem, addr, Head(rx)) /\ addr' = addr + 1
  /\ UNCHANGED <<tx, hostVars, faults, disturbed>>
GetByte ==
  /\ pc = "packet" /\ at \in 1..(PacketBytes + 2) /\ rx # <<>>
  /\ rx' = Tail(rx) /\ at' = at + 1
  /\ IF at <= 2
     THEN UNCHANGED <<mem, addr>>
     ELSE mem' = StoreByte(mem, addr, Head(rx)) /\ addr' = addr + 1
  /\ UNCHANGED <<tx, hostVars, faults, disturbed>>

\* The checksum, dropped as well, and the answer.
\* Mutants: the next header is not looked for; the packet is not acknowledged.
GetChecksumKeepsAt ==
  /\ pc = "packet" /\ at = PacketBytes + 3 /\ rx # <<>>
  /\ rx' = Tail(rx) /\ at' = at + 1
  /\ tx' = Append(tx, "ACK")
  /\ UNCHANGED <<mem, pc, addr, hostVars, faults, disturbed>>
GetChecksumSilent ==
  /\ pc = "packet" /\ at = PacketBytes + 3 /\ rx # <<>>
  /\ rx' = Tail(rx) /\ at' = 0
  /\ UNCHANGED <<mem, pc, addr, tx, hostVars, faults, disturbed>>
GetChecksum ==
  /\ pc = "packet" /\ at = PacketBytes + 3 /\ rx # <<>>
  /\ rx' = Tail(rx) /\ at' = 0
  /\ tx' = Append(tx, "ACK")
  /\ UNCHANGED <<mem, pc, addr, hostVars, faults, disturbed>>

-----------------------------------------------------------------------------
(* The sender (external).                                                  *)

\* The operator starts it during the countdown; the NAK that came before is lost.
HostStart ==
  /\ pc \in {"countdown", "packet"} /\ host = "absent"
  /\ host' = "ready" /\ item' = 1 /\ timeouts' = 0
  /\ tx' = <<>>
  /\ UNCHANGED <<mem, pc, at, addr, rx, faults, disturbed>>

HostSend ==
  /\ host = "sending"
  /\ rx' = rx \o IF item <= Packets THEN Packet(item) ELSE <<Sign("EOT", 0)>>
  /\ host' = "waiting"
  /\ UNCHANGED <<mem, pc, at, addr, tx, item, timeouts, faults, disturbed>>

HostReply ==
  /\ tx # <<>> /\ tx' = Tail(tx)
  /\ \/ host = "ready" /\ Head(tx) = "NAK" /\ host' = "sending" /\ UNCHANGED item
     \/ host = "waiting" /\ Head(tx) = "ACK"
        /\ IF item > Packets THEN host' = "done" /\ UNCHANGED item
                             ELSE host' = "sending" /\ item' = item + 1
  /\ UNCHANGED <<mem, pc, at, addr, rx, timeouts, faults, disturbed>>

\* No answer can come any more: send again, or give up.
HostTimeout ==
  /\ host = "waiting" /\ tx = <<>> /\ rx = <<>>
  /\ IF timeouts < Patience THEN host' = "sending" /\ timeouts' = timeouts + 1
                            ELSE host' = "gone" /\ UNCHANGED timeouts
  /\ UNCHANGED <<mem, pc, at, addr, rx, tx, item, faults, disturbed>>

Host == HostStart \/ HostSend \/ HostReply \/ HostTimeout

-----------------------------------------------------------------------------
(* The line (external).                                                    *)

Fault(kind) == /\ pc = "packet" /\ kind \in LineFaults /\ faults < MaxFaults
               /\ faults' = faults + 1 /\ disturbed' = TRUE

StrayByte == /\ Fault("stray")
             /\ rx' = Append(rx, Sign("stray", 0))
             /\ UNCHANGED <<mem, pc, at, addr, tx, hostVars>>

LoseByte == /\ Fault("byte") /\ rx # <<>>
            /\ rx' = Tail(rx)
            /\ UNCHANGED <<mem, pc, at, addr, tx, hostVars>>

LoseAnswer == /\ Fault("answer") /\ tx # <<>>
              /\ tx' = Tail(tx)
              /\ UNCHANGED <<mem, pc, at, addr, rx, hostVars>>

Line == StrayByte \/ LoseByte \/ LoseAnswer
=============================================================================
