------------------------------ MODULE NandStore ------------------------------
(***************************************************************************)
(* The commands flashw and flashl of the mc2410 loader, which copy memory  *)
(* to the NAND flash and back a page at a time, over                       *)
(* nand_blockerase, nand_program and nand_readpage                         *)
(* (src/mc2410-codes/7-myboot-SWI/command.c and nand.c).                   *)
(*                                                                         *)
(* Addresses are counted in pages: both commands drop the bits below.  A   *)
(* page of flash is the set of page images programmed into it since its    *)
(* block was erased, because programming only clears bits; a page of       *)
(* memory holds one image.                                                 *)
(***************************************************************************)
EXTENDS Integers, FiniteSets

CONSTANTS
  PageBytes,      \* 512
  PagesPerBlock,  \* 32
  BootPages,      \* 8: write addresses below 0x1000 are refused
  Blocks,         \* blocks of the chip; row addresses beyond them wrap
  MemoryPages,    \* pages of memory; pointers wrap, as 32-bit ones do
  BlockModulus,   \* the unsigned int block wraps here
  FlashAddrs,     \* bound: flash addresses given, in pages
  Downloads,      \* bound: memory addresses given, in pages
  Lens,           \* bound: lengths given, in bytes
  MaxCalls        \* bound: commands typed

ASSUME NandAssumption ==
  /\ PageBytes \in Nat \ {0} /\ PagesPerBlock \in Nat \ {0} /\ BootPages \in Nat
  /\ Blocks \in Nat \ {0} /\ MemoryPages \in Nat \ {0}
  /\ FlashAddrs \subseteq Nat /\ Downloads \subseteq 0..(MemoryPages - 1)
  /\ Lens \subseteq Nat /\ MaxCalls \in Nat

\* Both are powers of two; an address has no bits for more blocks.
ASSUME BlockAssumption ==
  /\ BlockModulus \in Nat \ {0} /\ BlockModulus % Blocks = 0
  /\ \A first \in FlashAddrs : first \div PagesPerBlock < BlockModulus

\* The pages a length takes.  What is copied is a file or a part of one, and is
\* no longer than the chip or the memory; the code takes every length.
PagesOf(len) == (len + PageBytes - 1) \div PageBytes
ASSUME FitAssumption ==
  \A len \in Lens : PagesOf(len) <= Blocks * PagesPerBlock /\ PagesOf(len) <= MemoryPages

Rows == 0..(Blocks * PagesPerBlock - 1)
Memory == 0..(MemoryPages - 1)

\* The image in memory page m at first, what a chip page may hold at first, and
\* what an erased or an over-programmed page reads as.
Image(m) == m
Old == -1
Ones == -2
Mixed == -3
Images == Memory \cup {Old, Ones, Mixed}

VARIABLES
  flash,    \* the chip, row by row
  sdram,    \* the memory, page by page
  cmd,      \* "none" at the prompt, "flashw" or "flashl" while it runs
  block, i, pages, page_offset, download_addr,   \* the variables of the command
  call,     \* history: command ("lost": cut short), first flash page, memory page, length
  flash0,   \* history: the chip when the command was given
  sdram0,   \* history: the memory then
  calls     \* history: commands given

locals == <<block, i, pages, page_offset, download_addr>>
history == <<call, flash0, sdram0, calls>>
vars == <<flash, sdram, cmd, locals, history>>

Init ==
  /\ \E dirty \in SUBSET (0..(Blocks - 1)) :
       flash = [r \in Rows |-> IF r \div PagesPerBlock \in dirty THEN {Old} ELSE {}]
  /\ sdram = [m \in Memory |-> Image(m)]
  /\ cmd = "none"
  /\ block = 0 /\ i = 0 /\ pages = 0 /\ page_offset = 0 /\ download_addr = 0
  /\ call = [name |-> "none", first |-> 0, memory |-> 0, len |-> 0]
  /\ flash0 = flash /\ sdram0 = sdram /\ calls = 0

-----------------------------------------------------------------------------
(* The chip, seen through nand.c: the row address is block and page.       *)

Row(b, p) == (b * PagesPerBlock + p) % (Blocks * PagesPerBlock)
BlockOf(row) == row \div PagesPerBlock

nand_blockerase(chip, b) ==
  [r \in Rows |-> IF BlockOf(r) = BlockOf(Row(b, 0)) THEN {} ELSE chip[r]]
nand_program(chip, b, p, image) == [chip EXCEPT ![Row(b, p)] = @ \cup {image}]
nand_readpage(chip, b, p) ==
  LET held == chip[Row(b, p)] IN
  IF held = {} THEN Ones
  ELSE IF Cardinality(held) = 1 THEN CHOOSE image \in held : TRUE ELSE Mixed

-----------------------------------------------------------------------------
(* The commands.                                                           *)

\* Up to the loop.  A write below the boot image's end returns at once.
CommandRoundsUp(name, first, memory, len) ==
  /\ cmd = "none" /\ calls < MaxCalls
  /\ name = "flashw" => first >= BootPages
  /\ cmd' = name
  /\ block' = first \div PagesPerBlock
  /\ pages' = len \div PageBytes + 1
  /\ page_offset' = len % PageBytes
  /\ i' = 0
  /\ download_addr' = memory
  /\ call' = [name |-> name, first |-> first, memory |-> memory, len |-> len]
  /\ flash0' = flash /\ sdram0' = sdram /\ calls' = calls + 1
  /\ UNCHANGED <<flash, sdram>>
Command(name, first, memory, len) ==
  /\ cmd = "none" /\ calls < MaxCalls
  /\ name = "flashw" => first >= BootPages
  /\ cmd' = name
  /\ block' = first \div PagesPerBlock
  /\ pages' = len \div PageBytes
  /\ page_offset' = len % PageBytes
  /\ i' = 0
  /\ download_addr' = memory
  /\ call' = [name |-> name, first |-> first, memory |-> memory, len |-> len]
  /\ flash0' = flash /\ sdram0' = sdram /\ calls' = calls + 1
  /\ UNCHANGED <<flash, sdram>>

\* "each block 32 pages": where the loop, and the last page, go on after a
\* block is full.
FullLate(n) == n > PagesPerBlock
Full(n) == n >= PagesPerBlock
Here == IF Full(i) THEN [block |-> (block + 1) % BlockModulus, page |-> 0]
        ELSE [block |-> block, page |-> i]

\* The rest of a pass of either loop: the counters.
NextPageKeepsCount ==
  /\ block' = Here.block
  /\ i' = Here.page + 1
  /\ pages' = pages
  /\ download_addr' = (download_addr + 1) % MemoryPages
  /\ UNCHANGED <<cmd, page_offset, history>>
NextPage ==
  /\ block' = Here.block
  /\ i' = Here.page + 1
  /\ pages' = IF Full(i) THEN pages - PagesPerBlock ELSE pages
  /\ download_addr' = (download_addr + 1) % MemoryPages
  /\ UNCHANGED <<cmd, page_offset, history>>

\* A pass of the loop of flashw: the erasure is decided before the step to the
\* next block.
WritePage ==
  /\ cmd = "flashw" /\ i < pages
  /\ LET chip == IF i = 0 THEN nand_blockerase(flash, block) ELSE flash IN
     flash' = nand_program(chip, Here.block, Here.page, sdram[download_addr])
  /\ NextPage
  /\ UNCHANGED sdram

\* "last page", and the return: here the step comes before the erasure.
WriteLastPageErasesAlways ==
  /\ cmd = "flashw" /\ i >= pages
  /\ flash' = IF page_offset = 0 THEN flash
              ELSE nand_program(nand_blockerase(flash, Here.block),
                                Here.block, Here.page, sdram[download_addr])
  /\ block' = Here.block /\ i' = Here.page
  /\ cmd' = "none"
  /\ UNCHANGED <<sdram, pages, page_offset, download_addr, history>>
WriteLastPage ==
  /\ cmd = "flashw" /\ i >= pages
  /\ LET chip == IF Here.page = 0 THEN nand_blockerase(flash, Here.block) ELSE flash IN
     flash' = IF page_offset = 0 THEN flash
              ELSE nand_program(chip, Here.block, Here.page, sdram[download_addr])
  /\ block' = Here.block /\ i' = Here.page
  /\ cmd' = "none"
  /\ UNCHANGED <<sdram, pages, page_offset, download_addr, history>>

ReadPage ==
  /\ cmd = "flashl" /\ i < pages
  /\ sdram' = [sdram EXCEPT ![download_addr] = nand_readpage(flash, Here.block, Here.page)]
  /\ NextPage
  /\ UNCHANGED flash

ReadLastPage ==
  /\ cmd = "flashl" /\ i >= pages
  /\ sdram' = IF page_offset = 0 THEN sdram
              ELSE [sdram EXCEPT ![download_addr] = nand_readpage(flash, Here.block, Here.page)]
  /\ block' = Here.block /\ i' = Here.page
  /\ cmd' = "none"
  /\ UNCHANGED <<flash, pages, page_offset, download_addr, history>>

\* The power fails in the middle of a command: the flash stays as it is, the
\* memory is lost and the operator loads the same files into it again.
PowerLoss ==
  /\ cmd # "none" /\ cmd' = "none"
  /\ block' = 0 /\ i' = 0 /\ pages' = 0 /\ page_offset' = 0 /\ download_addr' = 0
  /\ sdram' = [m \in Memory |-> Image(m)]
  /\ call' = [call EXCEPT !.name = "lost"]
  /\ UNCHANGED <<flash, flash0, sdram0, calls>>

Run == WritePage \/ WriteLastPage \/ ReadPage \/ ReadLastPage
Next ==
  \/ \E name \in {"flashw", "flashl"}, first \in FlashAddrs, memory \in Downloads, len \in Lens :
       Command(name, first, memory, len)
  \/ Run
  \/ PowerLoss

Spec == Init /\ [][Next]_vars
FairSpec == Spec /\ WF_vars(Run)

-----------------------------------------------------------------------------
(* Properties.                                                             *)

\* The variables keep their types, and the page within a block never runs past
\* the block's end.
TypeOK ==
  /\ flash \in [Rows -> SUBSET Images] /\ sdram \in [Memory -> Images]
  /\ cmd \in {"none", "flashw", "flashl"}
  /\ block \in 0..(BlockModulus - 1) /\ i \in 0..PagesPerBlock /\ pages \in Nat
  /\ page_offset \in 0..(PageBytes - 1) /\ download_addr \in Memory
  /\ call \in [name : {"none", "flashw", "flashl", "lost"}, first : Nat, memory : Memory, len : Nat]
  /\ flash0 \in [Rows -> SUBSET Images] /\ sdram0 \in [Memory -> Images]
  /\ calls \in 0..MaxCalls

\* Where the k-th page of a range belongs.
FlashPlace(k) == ((call.first \div PagesPerBlock) * PagesPerBlock + k) % (Blocks * PagesPerBlock)
MemoryPlace(k) == (call.memory + k) % MemoryPages

\* When a flashw has returned, every page of the range lies in its place, in
\* order over the block limits, and every page that was blank before, or lies in
\* the first block, which the command erased, holds nothing else, whatever a
\* command that lost its power left there before (command.c:151-178).  A written
\* page of a later block keeps its old image under the new one: only the first
\* block is erased.
Stored(n) ==
  \A k \in 0..(n - 1) :
    LET r == FlashPlace(k) IN
    /\ sdram[MemoryPlace(k)] \in flash[r]
    /\ flash[r] \subseteq flash0[r] \cup {sdram[MemoryPlace(k)]}
    /\ k < PagesPerBlock => flash[r] = {sdram[MemoryPlace(k)]}
StoresTheRange == (cmd = "none" /\ call.name = "flashw") => Stored(PagesOf(call.len))

\* During a flashw, and after one that lost its power at any page, a page outside
\* the range is changed only by the erasure of its block, and a block that the
\* range does not enter is not changed at all (command.c:151-178).
RestOfFlashKept ==
  \A r \in Rows :
    LET range == {FlashPlace(k) : k \in 0..(PagesOf(call.len) - 1)} IN
    r \notin range => \/ flash[r] = flash0[r]
                      \/ flash[r] = {} /\ \E q \in range : BlockOf(q) = BlockOf(r)

\* When a flashl has returned, the memory holds the pages of the range as the
\* chip reads them, in order over the block limits, and the rest of the memory
\* is as before (command.c:203-222).
Loaded(n) ==
  /\ \A k \in 0..(n - 1) : sdram[MemoryPlace(k)] = nand_readpage(flash, 0, FlashPlace(k))
  /\ \A m \in Memory : (\A k \in 0..(n - 1) : MemoryPlace(k) # m) => sdram[m] = sdram0[m]
LoadsTheRange == (cmd = "none" /\ call.name = "flashl") => Loaded(PagesOf(call.len))

\* What a command that has returned was asked to copy is where it belongs, and what
\* it was not asked for is as before (command.c:134-223).
RangeIsCopied == StoresTheRange /\ LoadsTheRange

\* Both loops set i back to 0 when a block is full and end all the same, because
\* the pages done are taken off the bound (command.c:157-161, 205-209).
CommandsEnd == (cmd # "none") ~> (cmd = "none")
=============================================================================
