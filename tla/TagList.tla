------------------------------ MODULE TagList -------------------------------
(***************************************************************************)
(* The list of tags that bootm leaves for the Linux kernel: init_taglist   *)
(* of command.c, in src/tiny210-linux-codes/b-superboot-demo/bootloader,   *)
(* and what a kernel reads from it.                                        *)
(*                                                                         *)
(* Memory is a function from byte addresses, counted from the address of   *)
(* the list, to cells: a byte of a word, or a character.  Sizes in the     *)
(* headers count words of 4 bytes.                                         *)
(***************************************************************************)
EXTENDS Integers

\* The low bytes of the tag names.
ATAG_NONE == 0
ATAG_CORE == 1
ATAG_MEM == 2
ATAG_CMDLINE == 9

Stale == <<"stale", 0, 0>>
ByteOf(v, b) == <<"word", v, b>>
Char(k) == <<"char", k, 0>>       \* the k-th character of cmd; 0 is NUL

HeaderWords == 2

\* The two words of a tag header and the fields behind them.
PutTag(m, w, tag, size, fields) ==
  [a \in DOMAIN m |->
     LET k == (a \div 4) - w
     IN CASE k = 0 -> ByteOf(size, a % 4)
          [] k = 1 -> ByteOf(tag, a % 4)
          [] k - 1 \in DOMAIN fields -> ByteOf(fields[k - 1], a % 4)
          [] OTHER -> m[a]]

\* cmd is sizeof(cmd) = length bytes, the last of them NUL.
CmdChar(length, k) == IF k = length THEN Char(0) ELSE Char(k)
PutCmd(m, w, length) ==
  [a \in DOMAIN m |->
     IF a - 4 * w + 1 \in 1..length THEN CmdChar(length, a - 4 * w + 1) ELSE m[a]]

\* (sizeof(cmd) + sizeof(struct tag_header) + 3) >> 2
\* Mutant: the size is rounded down.
CmdlineSizeDown(length) == (length + 4 * HeaderWords) \div 4
CmdlineSize(length) == (length + 4 * HeaderWords + 3) \div 4
CoreSize == HeaderWords + 3
MemSize == HeaderWords + 2

MemFields == <<256, 512>>         \* size and start, in units of 1M

init_taglist(m, length) ==
  LET cmdAt == CoreSize
      memAt == cmdAt + CmdlineSize(length)
      endAt == memAt + MemSize
      core == PutTag(m, 0, ATAG_CORE, CoreSize, <<1, 4096, 0>>)
      header == PutTag(core, cmdAt, ATAG_CMDLINE, CmdlineSize(length), <<>>)
      cmd == PutCmd(header, cmdAt + HeaderWords, length)
  IN PutTag(PutTag(cmd, memAt, ATAG_MEM, MemSize, MemFields), endAt, ATAG_NONE, 0, <<>>)

-----------------------------------------------------------------------------
(* What the kernel reads (external): the first tag must be ATAG_CORE with   *)
(* its full size; the list goes on until a tag of size 0.                   *)

IsWord(m, w, v) == \A b \in 0..3 : 4 * w + b \in DOMAIN m /\ m[4 * w + b] = ByteOf(v, b)

\* A command line is read up to its NUL.
IsCmdline(m, w, length) ==
  \A k \in 1..length : 4 * w + k - 1 \in DOMAIN m /\ m[4 * w + k - 1] = CmdChar(length, k)

\* A walk from tag to tag finds the three tags, with their contents, and ends.
TagListParses(m, length) ==
  /\ IsWord(m, 0, CoreSize) /\ IsWord(m, 1, ATAG_CORE)
  /\ \E size \in HeaderWords..(length + HeaderWords) :
       LET cmdAt == CoreSize
           memAt == cmdAt + size
       IN /\ IsWord(m, cmdAt, size) /\ IsWord(m, cmdAt + 1, ATAG_CMDLINE)
          /\ IsCmdline(m, cmdAt + HeaderWords, length)
          /\ IsWord(m, memAt, MemSize) /\ IsWord(m, memAt + 1, ATAG_MEM)
          /\ IsWord(m, memAt + 2, MemFields[1]) /\ IsWord(m, memAt + 3, MemFields[2])
          /\ IsWord(m, memAt + MemSize, 0)
=============================================================================
