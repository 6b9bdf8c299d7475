# Verification of ARM-Codes

TLA+ models, TLC runs and TLAPS proofs for the bare-metal programs of this
repository: the teaching programs for the AKAE2440, MC2410, Mini6410, Top6410 and
Tiny210 boards, and the programs they grow into - an XMODEM loader, a loader with
NAND flash commands, a boot loader that starts from an SD card, and a digital
photo frame with sound.

Contents: [the system](#the-system), [modules](#modules), [runs](#runs),
[fairness](#fairness), [findings](#findings), [proofs](#proofs),
[what is not modelled](#what-is-not-modelled), [plan](#plan).

## The system

The repository is a set of board directories. Each is a sequence of small
programs in which every one contains most of its predecessors: LED, UART, stdio,
printf, shell, command table, loader, XMODEM, NAND, IIS sound, LCD, interrupts,
timer, SD card, FAT, photo frame, boot loader. There is no operating system and
no allocator; a program is one loop, its interrupt handler if it has one, and the
controllers it has started. `.lst` and most `.txt` files are disassembly.

The same source file lies in many directories. The modules name one copy, the
latest: `fat.c` is the same file in `app6` to `app9`, `prj1` to `prj3` and
`b-superboot-demo/bootloader`, and so is `sdhc.c`, but for `app5` and the first
stage, which hold earlier forms.

### Inventory

**XMODEM receiver** (`mini6410-codes/9-xmodem-c-sram/my_xmodem.c`). State: the
block number expected, the retries left, the last result of `get_record`, the
bytes stored. Operations: the start NAK, one turn of the receive loop, the return.
It talks to a terminal program over the UART and has no clock of its own. Hard:
damaged and lost packets, repeated packets after late answers, block numbers that
wrap, the retry counter, the exits of the loop. Correct: memory is always a prefix
of the file, a size is returned only for the whole file, an ACK never lies, the
transfer ends.

**FAT file contents** (`tiny210-linux-codes/prj3-dpf-dma/fat.c`: `get_contents`,
`get_cluster`, `get_fatent`, `disk_read`). State: the cached stretch of the FAT
and its tag, the run of clusters being collected, the bytes still wanted and those
read. It reads through the SD driver into the caller's buffer. Hard: chains that
jump back and forth through the cache, files that end at the edge of a sector or a
cluster, circular and damaged chains, a read that fails after the card was found.
Correct: the bytes counted are the file's, nothing is written beyond what was
asked for, every call returns.

**FAT directory search** (same file: `fat_register_device`, `read_bootsectandvi`,
`do_fat_read`, `get_dentfromdir`, `get_vfatname`). State: where the volume starts on
the card, `mydata`, which is its geometry in fields of 16 bits, the sector buffer,
three counters that walk the root directory together, the entry at hand. Hard: a
partition table that is not there or cannot be read, a data area beyond what a signed
16-bit field can say, long names whose slots cross sectors and clusters, deleted
entries, labels that count as slots, directories without a free entry. Correct: clusters
are sought where they are, a path leads to the file it names, and to nothing else.

**DMA microcode** (`prj3-dpf-dma/dma.c`). `dma_mem_transfer` writes a program for
the PL330 controller into a buffer on its stack and starts the controller, which
runs it after the call has returned. Hard: a size split into two loop counts of a
byte and an unrolling, backward jumps of a byte, a buffer with no bound check, a
transfer asked for while one is running, a stack frame that is gone. Correct: the
program fits, and the copy is exact.

**SD card driver** (`prj3-dpf-dma/sdhc.c`). State: the descriptor (addressing,
RCA, width), the controller's interrupt-status bits, the state of the card. Hard:
commands whose results are thrown away, errors forgiven and left in the register,
waits that run out and go on, bits cleared before or after the data is moved, a
call after one that failed half way. Correct: success of `SDHC_Init` means that
both ends agree, success of a call means that its blocks were moved.

**boot.ini and command lines** (`prj3-dpf-dma/lib.c` `get_key_value`, `shell.c`
`shell_parse`). Two state machines over characters. Correct: the names on the
first line of a key, and no other, become the arguments.

**Photo frame** (`prj3-dpf-dma/main.c`, `timer.c`, `irq.s`). Main loads pictures
and plays music; the timer interrupt shows the next picture by DMA. They share
the picture index, the DMA channel and a memory whose regions nothing keeps apart
but their addresses. Hard: the interrupt between any two steps, the index limit,
regions running into each other. Correct: the screen holds the picture whose turn
it is, and every picture comes again.

**NAND flash commands** (`mc2410-codes/7-myboot-SWI/command.c` `flashw` and
`flashl`, `nand.c`). Copies of memory to flash and back, page by page over blocks.
Hard: counters reset and bounds reduced at a full block, the last partial page,
erasure by blocks of what is programmed by pages, power lost half way. Correct: each
page in its place, nothing else changed but by the erasure, and the command given
again after a power loss mends it.

**Boot loader** (`tiny210-linux-codes/b-superboot-demo`: the first stage `main.c`, and
`bootloader/` with `main.c`, `command.c`, `stdio.c`, `lib.c`, `nand.c`, `xmodem.c`). The
first stage brings the loader from the card. The loader waits for a key, and without
one starts the program that `boot.ini` names; with one it obeys command lines that
fill memory from the serial line, the flash or the card, and start what is there.
State: memory with the loader in the middle of it, the characters waiting in the
UART, the command under way, the tag list. Hard: results of reads nobody looks at,
`boot.ini` read into an array it can fill to the last byte, a key that stays in the
receiver, sizes rounded up to pages next to the loader, a receiver without checks or
retries. Correct: a command writes only what its arguments name and ends with it in
place, nothing but a complete program is started, a kernel finds its tags, every
order is answered.

**Not modelled**: IIS sound by DMA, software and key interrupts, timer demos, the
DM9000 test, LCD and drawing, sound codec and IIC, UART and printf, LED, clock and
memory set-up, drawing demos, Linux kernel files. [Below](#what-is-not-modelled) says
why.

### How the components interact

    boot.ini --get_key_value, shell_parse--> main (photo frame) <--shares index-- timer interrupt
                                               |   |                               |
                              file_fat_read <--+   +--> dma_mem_transfer <---------+
                                    |                        |
        do_fat_read: search, then get_contents          PL330 channel 0 --> frame buffer
                                    |
                              disk_read --> SDHC_ReadBlocks --> host controller <--> card

    terminal program <--UART--> xmodem_receive --> memory --flashw--> NAND --flashl--> memory

    first stage --card--> loader --boot.ini--> program
                             |
    operator --UART--> gets --> shell_parse --> command_do --> mw, nand_read, file_fat_read,
                                                   |           xmodem_recv, loadb
                                                   +--> bootm: nand_read, init_taglist --> kernel

Calls are synchronous, but for the DMA channel, which goes on by itself and is
never waited for, and the interrupt. Errors are return values, and several are
thrown away on the way up; the findings and hazards name the lines. `PROJECT.json`
lists every hazard with its line, the properties that watch it, and what they leave
open where they do.

## Modules

| Module | Models | Extends or uses |
|---|---|---|
| `FileTransfer` | what a transfer promises the shell: abstract specification | |
| `Xmodem` | receiver, sender and line | implements `FileTransfer` |
| `XmodemProofs` | invariant and refinement of `Xmodem`, proved | `Xmodem` |
| `FatFile` | file contents, FAT cache, failing reads | |
| `FatEntry` | the entries of a FAT12, FAT16 or FAT32 as bytes | |
| `FatFileProofs` | invariants of `FatFile` and the decoding of entries, proved | `FatFile`, `FatEntry` |
| `FatDir` | partition, boot sector, directory search and long names | |
| `FatDirProofs` | geometry, position, types and result of the search, proved | `FatDir` |
| `BlockCopy` | what a memory transfer promises: abstract specification | |
| `Pl330` | the program writer and the controller that runs the program | implements `BlockCopy` |
| `Pl330Proofs` | the loops, the length of the program and the refinement, proved | `Pl330` |
| `Sdhc` | SD driver, host controller and card | |
| `SdhcProofs` | what the results of the driver mean and what it moves, proved | `Sdhc` |
| `BootIni` | `get_key_value`, `shell_parse` | |
| `SlideShow` | main of the photo frame, timer interrupt, DMA channel, memory map | `BootIni` |
| `SlideShowProofs` | what the screen holds, the counters and what is read of `boot.ini`, proved | `SlideShow` |
| `NandStore` | `flashw`, `flashl`, the chip, loss of power | |
| `NandStoreProofs` | the place of every page, at every step, proved | `NandStore` |
| `Monitor` | what a boot monitor promises its operator: abstract specification | |
| `SimpleXmodem` | `xmodem_recv` of the boot loader, sender and line | |
| `TagList` | `init_taglist` and the kernel that reads the list | |
| `Superboot` | first stage, key wait, automatic start, console, all commands | `SimpleXmodem`, `BootIni`, `TagList`; implements `Monitor` |
| `SuperbootProofs` | tag list, kernel, the promise of `Monitor`, what is read of `boot.ini` and what leads the board astray, proved | `Superboot` |
| `MC*` | the instance of each that TLC runs | |

### Xmodem

A packet is one record: its 128 bytes are one value and its checksum is a flag.
`get_record` and the turn of the loop that uses its result are one action,
`ReceiveExpected` for the block awaited and `ReceiveOther` for everything else,
because the receiver shares nothing with anyone between the first byte of a packet
and its answer. `GetRecord`, `Reply` and `KeepGoing` are the result codes, the
switch and the loop condition. `Return` is the last test and the return.

The sender (`Send`, `StartSending`, `TakeReply`, `Timeout`, `Cancel`) and the line
(`DamageData`, `DamageNumber`, `Noise`, `LoseRecord`, `LoseReply`) are external.
The sender is modelled from the protocol the receiver answers: it repeats a block
on a NAK or a timeout, takes the first reply it sees for an answer to its current
block, and gives up after `Patience` timeouts on one item. A timeout may come
although the answer is only late, which is what puts repeated packets and stale
NAKs in circulation. `LineFaults` selects the faults of an instance. Parsing of the
load address and the countdown before the start NAK are left out: nothing depends
on them.

### FatFile

`Begin` is the entry of `get_contents`, `Search` one turn of the search for
consecutive clusters, `GetTail` and `GetIt` the two ways the run is read (the last
one, split into sectors and a tail through a bounce buffer, or a run that is not
the last), `NextRun` the lookup of the next run, `Return` the return of
`do_fat_read`. `GetFatent` refills the cache when the tag differs. A byte on the
card is named by its position, so the content of the buffer says where each byte
came from; `Garbage` is a byte copied from memory that was never written. The
volume is arbitrary: any FAT, any first cluster, any size. With `ReadsFail` a read
may fail having moved any number of its blocks; `disk_read` returns 0 all the same.
FAT entries are numbers here; `FatEntry` decodes them from the bytes of the buffer as
`get_fatent` does, with its masks and shifts, and states what the FAT holds.

### FatDir

`Register` is `fat_register_device`: the start of the first partition is taken from the
four bytes at 0x1c6 of sector 0, whatever is there, and stays 0 when the sector cannot
be read or has no signature. `Sectors` adds it to every sector read; `Recognised` says
that it leads to a boot sector the code knows. A sector elsewhere has no such sign.
`ReadBootSector` is `read_bootsectandvi` and what `do_fat_read` makes of it:
`Geometry` computes `mydata` with the width of its fields, `U16` and the signed `S16`
of `data_begin`, for the file systems the code knows by their sign. `SectorAt` is
where the volume has a cluster; `Readable` are the volumes whose data begin fits the
field and whose FAT32 root directory begins in cluster 2, where `fat.c:877` looks for
it. `Stored`, `StoredFrom` and `InChain` are what the volume holds in a sector, in
sectors that follow each other and in a chain of clusters. It is arbitrary in layout but
its directories are well formed (`WellFormed`): the slots of a long name stand before
their entry in descending order, and nothing follows a free entry. A name is a file
and which of its two names is meant; the long one is cut into pieces, one for each slot.
An entry has the first byte it has as the number of a slot, `seq`: `Initial` gives that of
a short name, 1 to 9 for A to I. A label may have the short name of a file, and any
number; it is `"label"` if its first character has the bit 0x40, as every letter has, and
`"digits"` otherwise. `ReadRootBlock` and `ReadDirBlock` read what the code reads at once, which
is more than the sector being searched. `RootEntry` and `DirEntry` are one turn of
the two searches. `Voice` is what the code takes an entry for: `GetVfatname` at the first
slot of a name and at a `"label"`, where it counts down over whatever follows
(`Descending`), to the end of the block and on into the next cluster, and collects the
pieces backwards as `slot2str` does (`Pieces`). The entry it comes to is written over the
first slot in the block that is being searched. Where it fails the entry is left, and a
label is compared with the name itself (`Matches`, `Enter`). `found` is `"other"` when what
is returned is the size of a label or of another entry that is no file's. `NextRootSector` is the
code's arithmetic on three counters, `NextDirCluster` the step along the chain of a
subdirectory. Listings only print and are left out.

### Pl330

The buffer is modelled byte by byte: an instruction stands at its first byte and
`operand` at the others, so a jump that lands anywhere else is seen. `EmitHead`,
`EmitLoop` and `EmitTail` write the program as `dma_mem_transfer`, `_loop` and the
emitters do, `Go` is DMAGO through the debug registers, which a running channel
ignores, `OtherCalls` is the later use of the stack where the program lies. The
actions of the channel are external and follow the instruction set. Loads and
stores move one byte because the code sets bursts of one byte and length 1. The
buffer lies in the stack frame of a call that has returned; later calls use its
upper end first, and `StackUse` says how much of it they may overwrite.

### Sdhc

`SDHC_Init` is one action per command, each with what the controller and the card
make of it and every result the driver ignores ignored. A read or write is
`Call`, the wait for the card (`Cmd13`), the data command (`Command`), and for
each block `WaitBuffer` and `MoveBlock`, then `WaitComplete`. The two waits may
run out and then go on as the code does. The controller and the card are external:
a card of either addressing and any SCR version, its states as CMD13 reports them,
commands or answers lost, blocks damaged. Assumed of the hardware: the wait count
is longer than any healthy delay (waits run out only when the event cannot come),
and a transfer with a block count of 0 ends at once and is stopped automatically.
Polling mode only: nothing selects SDMA, ADMA2 or interrupts.

### BootIni and SlideShow

A text is a sequence of words and signs. `Scanned` is the state of `get_key_value`
after each of them and `Character` the body of its loop; the `found` that stands for
its `return` is tested first, and apart from the `CASE`, whose branches have no order.
`Starts` collects the places where `shell_parse` begins an argument. Both are recursive
functions over the places of the text, so that they can be proved about. `IniLine` is a
line as `boot.ini` is meant to be written and `Named` what it means. Texts that are left
out are listed with the [bounds](#bounds).

`SlideShow` has one action per statement of `mymain` that touches something shared
(`FindPictures` to `PlayWav`), the interrupt (`Tick`) and the end of a copy
(`Copied`). Memory is counted in units of 512K from `BMP_ARRAY_ADDR`, so a picture
takes two units, its file and its image, and the frame buffer is unit 16 in the
code. A file read and a DMA copy are a step each here, being `FatFile`, `FatDir` and
`Pl330` in detail. Assumed: a period of the timer is longer than one copy, and the
stack frame of a running DMA program is not overwritten.

### NandStore

Addresses are in pages. A page of flash is the set of images programmed into it
since its block was erased, because programming only clears bits; so a page written
twice without erasure is visible as a set of two. `Command` is the head of either
command, `WritePage`/`ReadPage` a turn of the loop, `WriteLastPage`/`ReadLastPage`
the last partial page and the return. `Here` is the step to the next block, which
comes after the erasure is decided in the loop and before it at the last page. The
chip starts with any set of blocks written. `PowerLoss` ends a command at any page:
memory is as after a start, the flash keeps what was done, and the next command may
be the same one.

### TagList, SimpleXmodem, Monitor and Superboot

`TagList` writes the tags of `bootm` byte by byte as `init_taglist` does, the command
line with `strcpy` and its size rounded up to words. `TagListParses` is external: the
walk of the Linux kernel over the list, which must find memory, the whole command line
and the end.

`SimpleXmodem` reads byte by byte: `StartNak`, then `GetHeader`, `GetByte` and
`GetChecksum` by the place in the packet. A byte is a record of what the code compares
it with and what it leaves in memory, so the data of a file may hold EOT and SOH. The
sender and the line (`HostSend`, `HostReply`, `HostTimeout`, `StrayByte`, `LoseByte`,
`LoseAnswer`) are external.

`Superboot` composes both with `boot.ini` and the two stages. Memory is a line of
places in the order of the real addresses - kernel, loader, program, file - and each
place holds where its content came from. `FirstStage` reads the loader and jumps,
`KeyWait`, `ReadIni` and `LoadOs` are the start, `GetLine` is `gets` with its
backspaces and `Do` the command table with one operator per command (`MemoryWrite`,
`NandRead`, `Bootm`, `SdLoad`, `Draw`, `LoadX`, `LoadB`, `Go`). A read of the flash is
written page by page (`WritePiece`) because it may reach the loader that executes it.
`get_key_value_os` is the boot loader's copy of the parser, which differs from the
photo frame's: it obeys a line that begins with `#`. `PowerCycle` is external. A read
of the card may stop short, at a fault; `harmed` remembers that the card, or an order
of the operator to overwrite the loader or to jump where nothing is, led the board
astray, and `task` what the command under way was asked for.

`Monitor` is the promise: a command changes only the cells its arguments name, it ends
with the wanted content there unless the card or the line failed it, and a program is
started only after that.

## Runs

| Run | Instance | What it shows |
|---|---|---|
| `xmodem_transfer` | 4 blocks, faults of data, of block numbers, stray characters, lost packets and replies | `DeliveredIsPrefix`: memory is a prefix of the file although numbers wrap and packets repeat. `AckMeansStored`: no ACK lies until a stray character is taken for a cancellation. `ImplementsFileTransfer`: a size is returned only for the whole file. `TransferEnds`: stale NAKs and repeated packets never use up the retries or go on for ever |
| `xmodem_checksum` | violation | a damaged packet ends the command although retries are left |
| `fatfile_reads` | every FAT of three clusters, failing reads | `CacheCoherent`, `ContentIsFile`, `ShortReadIsExact`, `NoOverrun`, `Terminates` |
| `fatfile_error` | violation | a failed read of the card is never reported |
| `fatdir_lookup` | FAT16 and FAT32, fragmented root, subdirectories, data areas at the limit of the field, labels named like files and counted as slots, foreign signs, cards with and without a partition table | `GeometryIsExact`: clusters are found exactly if what lies before them fits a signed 16-bit field. `LookupIsExact`: a path leads to its file and to nothing else, but for the four exceptions below. `RootPosition`, `LookupEnds` |
| `fatdir_split` | violation | a long name across root clusters that lie apart is lost, or has the entry behind the gap |
| `pl330_copy` | sizes at every limit, two calls | `ProgramFits`, `LoopEncodes`, `CopyIsExact` (refinement of `BlockCopy`), `Completes` |
| `sdhc_calls` | cards of four kinds, two faults, two calls | `InitMeansReady`, `TransferIsExact` (reads and writes), `FaultIsPending`, `NoWaitRunsOut`, `Returns` |
| `sdhc_assert` | violation | an old card that answers everything stops the program in `Assert` |
| `slideshow_frame` | every boot.ini of three lines | `ArgumentsAreNamed`, `ScreenIsPicture`, `EveryPictureShown` |
| `nand_calls` | any two commands on any chip, power lost at any page | `RangeIsCopied` (both directions), `RestOfFlashKept`, `CommandsEnd` |
| `superboot_console` | five boot.ini, any two of fifteen lines, a key, a power cycle, one fault | `NeverAstray`, `KernelGetsTags`, `ImplementsMonitor` (refinement), `Answers` |

Every passing run also checks the type invariant of its module. Deadlock is not
checked: each of these programs really stops, at a prompt or after its return, once
the calls of the instance are used up. Each property of a passing run has a mutant in
`PROJECT.json`, a plausible slip in the code (a counter not reset, a test in the other
order, a bound off by one) under which TLC finds the property violated with the same
bounds.

### Bounds

Every bound is a constant marked `bound` in its module, or a definition of an MC
module. They are small, but each is chosen so that both sides of every limit in the
code are met.

- **Xmodem.** A file of 4 blocks with `NumModulus` 3 instead of 256: the numbers wrap
  within the file, and the number of the block before differs from the number of the
  next, which is what the receiver's test rests on. `RETRIES` is 12, more than two
  faults and the repeated packets can cost, because `TransferEnds` says that they never
  use them up; with fewer the bound on retries would be met by the bounds of the
  model and not by a dead line. Two faults of any kind, two timeouts on an
  item and two records on the line are enough for a repeated packet, a stale NAK and
  a damaged packet under way together. Without a bound on records and timeouts the
  state space is infinite. `NumberDamage = {2}` turns the number of a packet
  into that of the block before it. The damage left out, 1, would turn the number of
  a repeated packet into the awaited one; nothing in the receiver can tell such a
  packet, because the comparison with the complement is compiled out
  (`my_xmodem.c:184-189`), and with it `AckMeansStored` fails.
- **FatFile.** Sectors of 2 bytes, clusters of 2 sectors, 3 clusters, 2 FAT entries
  in the cache: chains cross the cached stretch in both directions. The sizes 0, 1,
  3, 4, 5, 8, 9, 11, 14 lie below, at and above the edges of sectors and clusters and
  beyond the whole volume; `maxsize` 0 is "no limit", 6 cuts a file in a cluster.
  `CheckFrom` lies two above the last cluster number, as `ShortReadIsExact` needs.
  `StaleEntries` is what the uninitialised cache may hold. With `CountModulus` at its
  real value every size fits it. The same run evaluates the decoding of `FatEntry` on
  three FATs of two buffers of 12 bytes (`EntriesAreRead`).
- **FatDir.** Sectors of 4 entries and clusters of 1 and 2 sectors, root chains of
  one to three clusters that are adjacent or apart, names of 0, 2 and 3 slots with
  `VFAT_MAXSEQ` 2. The number of deleted entries before the files runs from none to
  all the room there is, so the slots meet every sector and cluster edge and the
  directory may be full to its last entry. `FieldModulus` is 64 instead of 65536, and
  26 to 34 reserved sectors put the data area at, below and beyond half of it; the
  other volumes lie well below. FAT32 roots begin in cluster 2, and in cluster 5. The
  volume starts at sector 3 or 0, with and without a signature and with 0, 3 or another
  number in the table. The first read may fail; how later reads fail is the matter of
  `FatFile`. Labels have the number 0, 1, 2 or a greater one and the name of a file, of a
  directory or of neither. They stand first, behind 2, 3, 6 or 7 deleted entries, and in
  front of an entry whose letter is a number, a name of one slot, a label that is skipped,
  another that is not, a piece of a deleted name, a free entry, or the end of the
  directory, in both kinds of root directory and in a subdirectory, so that what they
  announce lies in the block, across clusters, or beyond the directory; some directories
  are full and have another one behind them on the card. 1016897 states.

  Each exception of `LookupIsExact` is needed: without any one of them TLC finds a card
  of this run on which the path goes wrong. `Split` and `Misled` are the fault of finding
  3. `Labelled` and `Cropped` are those of labels, described under the findings.
- **Pl330.** Counts up to 4 instead of 256 and jumps below 16 instead of 256: 16 bytes
  fill both loops, 48 need the longest unrolling the outer jump can span. Sizes lie at
  and beside 4, 16, 48 and 96. The longest of their programs, for 95 bytes, takes 63
  bytes of the buffer. `RoomAssumption` asks for the room of 77 that `EveryProgramFits` is
  proved for; it leaves 9 of the 86 bytes to later calls, which overwrite them.
  The theorems lift all of it to every size and every width.
- **Sdhc.** A card of 2 blocks, calls of 0 to 2 blocks at every start, two of them
  and two faults anywhere, from an identification of the card or from a card left
  ready by the first stage; `OcrTries` 2 and `IdentifyTries` 1 let each polling loop
  both succeed at a second try and run out. 494888 states.
- **SlideShow.** Three lines drawn from eight, with and without spaces, of other keys
  and commented out, one to three names. `ScreenUnit` 6 is just enough for the three
  pictures; a fourth would be read into the frame buffer, as the ninth is in the code.
  Texts outside the run and the theorem: a comment without `=`, an empty value, a key
  that is missing, an unterminated last line, and a key, or a comment before its first
  space or `=`, of more than the 15 letters `name[16]` has room for; the parser tests for
  none of them. The sample `sd-card-file/boot.ini` is none of these. A word
  counts for one place in a buffer.
- **NandStore.** 4 blocks of 2 pages of 2 bytes, 1 boot page. Lengths 0 to 11 bytes
  are nothing, part of a page, whole pages up to a full block and beyond, ranges over
  three blocks and a last partial page that opens a block. Row addresses, the block
  number and the memory wrap. Two commands are enough for one that is cut short
  and given again.
- **Superboot.** Pages and packets of two bytes, a kernel of two pages, a loader of two
  places between kernel and program, a file of two packets whose data hold EOT and
  SOH. `ini_buf` takes 8 words, which some of the five texts exceed, and what lies
  behind may continue the text. Two lines out of fifteen, every command with and
  without arguments, with addresses that end at the loader and one that reaches it,
  one key (a letter, a space or a return) at any moment, one power cycle, one fault:
  two lines are what a load and a start take, and a fault or a key before either of
  them is what can come between. A second fault only shifts a receiver that has no
  way to recover from the first. `Answers` says by name what it excepts: a transfer
  that met a fault, a sender that began after the only NAK, a `loadb` told more bytes
  than come.

## Fairness

Liveness is stated under weak fairness of whole processes, never of single
branches.

- Processor: a program is one loop without blocking calls other than those modelled,
  and no other task takes the processor away. `WF(Receiver)`, `WF(Next)` of `FatFile`
  and `FatDir`, `WF(Driver)`, `WF(Main)`, `WF(Run)` (a loss of power disables it), and
  for `Pl330` `WF` of the steps of a call that has begun. No call need ever begin:
  `Call`, `Command`, `ReadBlocks` and `WriteBlocks` carry no fairness.
- Boot loader: `WF(Board)` of every step of either stage and of the commands; the
  operator need never type, press or switch off. `WF(SendRaw)` and `WF(SendX)`: who
  typed `loadb` or `loadx` sends the file.
- Sender: `TransferEnds` assumes a terminal program that goes on sending and reads
  its replies (`WF(Send \/ StartSending \/ TakeReply)`) and that has a timeout
  (`WF(Timeout)`). The receiver relies on it: it has no clock, and nothing in the
  repository would end a call whose sender falls silent. No fairness holds of
  faults.
- Controllers: a started DMA channel, a card with a transfer in hand and a running
  timer go on (`WF(Engine)`, `WF(Hardware \/ Damage)`, `WF(Copied)`, `WF(Tick)`). They
  are clocked hardware. `Damage` stands in that disjunction because a block that
  arrives damaged has arrived.

## Findings

Four runs end in a violation, each of a statement the repository itself makes.

1. `xmodem_checksum` (`my_xmodem.c:129`). The loop runs while `r > -3`, so a packet
   with a bad checksum (`r = -3`) gets its NAK and ends the transfer, although line 80
   speaks of "times to retry" and line 109 of a bad checksum answered by a NAK.
2. `fatfile_error` (`fat.c:91`). `disk_read` drops the driver's result and returns 0;
   the error paths above it are dead and a file that could not be read is counted as
   read, where line 382 promises -1.
3. `fatdir_split` (`fat.c:952`). At the last sector of a FAT32 root cluster the
   search has read on into the sectors that follow on the card, and looks there for
   the rest of a long name that lies in the next cluster of the chain. It finds nothing, or
   whatever entry lies there.
4. `sdhc_assert` (`sdhc.c:156`). `Assert(a)` is `if(!a) while(1);` without parentheses
   round `a`, so the test at line 556 negates only `uOperFreq` and stops for every
   card whose SCR gives version 1.0 or could not be read.

Volume labels are not skipped. The comments at `fat.c:684` and `1038` say "Volume label or
VFAT entry" where an entry is passed over, but a label whose first character has the bit
of `LAST_LONG_ENTRY_MASK`, so any that begins with a letter, does not come there:
`get_vfatname` takes it for a slot. When that fails, as it mostly does, the label is
compared with the name, so a label MUSIC in front of a directory MUSIC makes every path
below it return -1 (line 1102), and one named like a file returns its own size instead of
the file (`Labelled`). The letters A to I are the numbers 1 to 9 (line 512), so such a
label may count down to the entry that follows, which is copied over it and compared once
early, without harm; or, in a subdirectory, to the first free entry, which ends the search
there (line 689) although entries of files that begin with such letters were counted over
(`Cropped`). `LookupIsExact` excepts these paths and says that labels do no other harm.

Smaller things met while modelling, of which no run speaks: `flashw` erases only the
first block of its range and one opened by a last partial page (`command.c:152` says
"erase before program"); `RangeIsCopied` therefore promises the old content of a
later block under the new. A `flashw` at 0x1000 passes the guard and erases the boot
block, of 16K. The search of a FAT32 root directory assumes that it starts at
cluster 2, and the end marks 0xff8 to 0xfff of FAT12 are not recognised. The comment
at `fat.c:167` assumes a card without a partition table; the lines below it read one,
so on such a card every sector is counted from what its boot code has at 0x1c6. The
upper four bits of a FAT32 entry, which the format reserves, are not masked. `main.c:112`
writes its terminating zero beyond the buffer when `boot.ini` has 1024 bytes or more,
and before it when there is none. With no picture named, `bmpi` grows with every
interrupt. `irq.s` does not save `r0`. No CMD8 is sent. In the boot loader: `boot.ini`
of 128 bytes or more is not terminated, so what lies behind it is parsed as well
(`bootloader/main.c:84`), a line for `OS` beyond is not seen, and its parser obeys
lines that begin with `#`; a missing key leaves the name as the stack had it; a program
longer than 64K is cut (`main.c:90`); `play` uses a `filesize` nothing clears;
`draw` without an address shows a file from the frame buffer it draws over; `nand
write` prints that it is finished and writes nothing; a sender that starts before
the one NAK of `xmodem_recv`, or loses it, is never heard; a command line reaches
`argv` without a count. A card whose FATs put the data area at sector 32768 or beyond
is read at wrong sectors without an error.

## Proofs

| Theorem | States | Assumes |
|---|---|---|
| `XmodemProofs!Invariance` | `Spec => []IInv` | `1 \notin NumberDamage`: damage does not turn a block number into the next |
| `XmodemProofs!TypeCorrect` | `[]TypeOK` | the same |
| `XmodemProofs!Delivery` | `[]DeliveredIsPrefix` | the same |
| `XmodemProofs!AcksAreTrue` | `[]AckMeansStored` | the same |
| `XmodemProofs!Refinement` | `Spec => Abstract!Spec` | the same |
| `FatFileProofs!SafeAlways` | the strengthening `Safe` | |
| `FatFileProofs!TypeCorrect` | `[]TypeOK` | |
| `FatFileProofs!NeverOverruns` | `[]NoOverrun` | |
| `FatFileProofs!CacheIsCoherent` | `[]CacheCoherent` | |
| `FatFileProofs!ContentCorrect` | `[]ContentIsFile` | `CountsFit`: sizes fit the 16-bit sector count |
| `FatFileProofs!ShortReadsExact` | `[]ShortReadIsExact` | `NoEdgeCluster`: `CheckFrom > Clusters + 2` |
| `FatFileProofs!EveryEntryIsRead` | `get_fatent` decodes every entry of every FAT | |
| `FatDirProofs!BootSectorIsRead` | `mydata` is the geometry of the boot sector | |
| `FatDirProofs!ClustersAreFound` | `[]GeometryIsExact` | |
| `FatDirProofs!RootSearchStays` | `[]RootPosition` | |
| `FatDirProofs!TypeCorrect` | `[]TypeOK` | |
| `FatDirProofs!SearchIsExact` | `[]LookupIsExact` | |
| `Pl330Proofs!EveryLoopEncodes` | `[]LoopEncodes` | |
| `Pl330Proofs!EveryProgramFits` | `[]ProgramFits` | |
| `Pl330Proofs!TypeCorrect` | `[]TypeOK` | |
| `Pl330Proofs!TheCopyIsExact` | `Spec => ImplementsCopy!Spec` (`CopyIsExact`) | |
| `SdhcProofs!TypeCorrect` | `[]TypeOK` | |
| `SdhcProofs!TransfersAreExact` | `[]TransferIsExact` | |
| `SdhcProofs!NoWaitIsInVain` | `[]NoWaitRunsOut` | |
| `SdhcProofs!InitReady` | `[]InitMeansReady` | |
| `SdhcProofs!FaultStaysPending` | `[]FaultIsPending` | |
| `SlideShowProofs!ScreenShowsPictures` | `[]ScreenIsPicture` | |
| `SlideShowProofs!TypeCorrect` | `[]TypeOK` | |
| `SlideShowProofs!ArgumentsAreMeant` | `[]ArgumentsAreNamed` | |
| `NandStoreProofs!TypeCorrect` | `[]TypeOK` | |
| `NandStoreProofs!EveryRangeIsCopied` | `[]RangeIsCopied` | |
| `NandStoreProofs!RestOfFlashStays` | `[]RestOfFlashKept` | |
| `SuperbootProofs!EveryTagListParses` | `TagListParses` of whatever `init_taglist` leaves | room for the tags |
| `SuperbootProofs!TypeCorrect` | `[]TypeOK` | |
| `SuperbootProofs!KernelIsReady` | `[]KernelGetsTags` | |
| `SuperbootProofs!TheLoaderIsAMonitor` | `Spec => Promise!Spec` (`ImplementsMonitor`) | |
| `SuperbootProofs!TheBoardStaysOnCourse` | `[]NeverAstray` | |

Beside these, each rests on the named `ASSUME`s of its module, which TLC evaluates in
every run. Most say only what kind of value a constant is. Those that say more:
`FatDir!VolumeAssumption`, that a FAT32 root directory is a chain of the FAT and a
FAT12 or FAT16 one has sectors, and that four clusters fit the field;
`FatDir!CardAssumption`, that a sector of a directory holds entries and the FAT numbers,
which is true of any bytes, and that the file of an entry is one of `Files`;
`FatDir!DirectoryAssumption`, that no cluster has the number 0, the chains of directories
are chains of the FAT, and a directory holds each of its files once or more, its slots and
its entry together in their order, and nothing behind a free entry, as FAT file systems
write them; labels, of any name and any number, deleted entries and pieces of deleted names
may stand anywhere between. What the bytes of a slot would be as a short name, and those of
another entry as a piece of a long one, is nobody's name, and only the entry of a file is
that of a directory: this is how the model writes entries;
`SlideShow!PicturesAssumption`, that the pictures `boot.ini` names are words of the card
and fit below the frame buffer, without which the property is false;
`IniAssumption` of `SlideShow` and of `Superboot`, that the lines of `boot.ini` are `IniLine`s:
a key, one `=` with spaces around it, at least one name, spaces between the names, the end
of the line, and before the key nothing or a comment that begins with `#` and goes up to it;
of what lies behind the text in `ini_buf` it says only that it is a sequence;
`Superboot!KernelAssumption` and `LayoutAssumption`, that kernel and flash address are
whole pages within the chip and that kernel, loader, program and file lie in this order,
as the addresses in the code do (0x20008000, 0x20808000, 0x21000000, 0x22000000);
`StageAssumption`, that the first stage reads at least the length of the loader;
`NumberAssumption`, that numbers typed are those `atoi` gives for words of digits;
`SimpleXmodem!PacketAssumption`, that a file is sent in whole packets and each of its bytes
is known by its place;
`NandStore!BlockAssumption`, that blocks wrap on the chip as row addresses do, and
`FitAssumption`, that what is copied fits the chip and the memory, which a file does and
the code does not test;
`Pl330!RoomAssumption`, that `buf` has room for `Room(n)` bytes below what later calls use:
289 for the 522240 bytes of a picture, of the 60000 the code has;
`Sdhc!BoundAssumption`, that tries and blocks are at least one.

**Xmodem.** `DeliveredIsPrefix` is not inductive: storing the awaited block is right
only if a packet that carries the awaited number *is* that block. `IInv` adds that the
packets under way are repetitions of the last block stored followed by the next one
(`LineInv`), that the sender is at one of those two blocks and at most one ACK is under
way, and only while the sender has not learnt of the block stored last (`AckInv`), and
how the block counter, the memory and the control point go together (`ControlInv`).
Two neighbouring numbers differ modulo `NumModulus` (`NeighboursDiffer`), so of the two
blocks on the line only the right one has the awaited number (`ExpectedIsNext`). There
is one lemma per action. `Refinement` maps `mem` to `stored` and the value returned to
`outcome`: storing maps to `StoreNext`, returning to `Succeed` or `Fail`, the rest
stutters. The hypothesis is needed, because the checksum does not cover the number and
its complement is not compared: a packet damaged into the next number passes for the
awaited one. An ACK may be false once a stray character was acknowledged like a
cancellation; `AckMeansStored` speaks of the time before.

**FatFile.** `Safe` is `TypeOK` with `RunInv`, `CacheCoherent` and `NoOverrun`: the run
being collected is the end of the clusters followed, its bytes are those not yet
counted, and what is counted and what is still wanted make up what was asked for. It
is preserved whatever the FAT holds and whichever reads fail. `ContentIsFile` is
added in a second induction: `GetFatentCorrect` gives the entry through the cache,
`RunBytes` turns consecutive clusters into consecutive positions, `GotCorrect` and
`SectorCounts` handle the split of the last cluster. `EveryEntryIsRead` splits a FAT12
buffer into groups of four entries in six bytes (`Entry12`), which no buffer cuts
because its length is a multiple of twelve; the value of a function outside its domain
is unknown, so the equality also says that no byte beyond the buffer is used.

**FatDir.** What the fields hold is the true value modulo `FieldModulus`, and two
numbers that are congruent and less than a modulus apart are equal (`CongruentNear`);
so `data_begin` is right if and only if the true value fits (`DataBeginExact`), whatever
the intermediate sums lost. For the search, `RootInv` adds to `RootPosition` that `j` is
a number and the file system a known one; the step to the next cluster follows the
chain because the entry the code reads is the successor in it, or ends the search.
`EntryInv` is about the entries: a block is as long as the loop over it runs
(`BlockRead`), a cluster that is searched was let through by `CHECK_CLUST` or stands in
an entry (`InClusters`), and `get_vfatname` gives an entry that was read wherever the
slots lead it (`VfatEntry`), because a name that is not refused for its length ends within
the first sector of the next cluster. `LookupIsExact` says what comes of a search as a
whole, and `SearchInv` how far it has come: no entry of the directory before the one at
hand is the one asked for (`NotYet`), the entries of the block that were not examined are
still those of the card, although examined ones were written over (`Unread`), and the
cluster is the k-th of the directory's chain, in the root directory and, once its first
name is found, below it (`RootSearch`, `DirSearch`, `Below`). What the code takes an entry
for is `Voice`. Where the block goes on as the directory does, or ends with it (`ReadsOn`:
`BlockTold`, `ClusterTold`, `AreaTold`, `RootTold`), it is what stands in the directory: the
slots of a name give its pieces and its entry (`NameRead`); whatever gives the pieces of a
name, also when it began at a label, ends with the last slot of that name, in front of its
entry (`LastPiece`, `LongHeard`); and a short name heard early is that of an entry which is
a file's, or of a label (`ToldIsHeard`). So the search ends with the file asked for or goes
on rightly (`Heard`), and a free entry that is led to in a subdirectory ends it rightly
(`NothingCropped`), but for `Labelled` and `Cropped`. The block of a root directory goes on
differently in one place, at the end of the directory or of a cluster the chain does not
continue from on the card (`Cut`); what comes of that is harmless but for `Split` and
`Misled` (`CutIsHeard`). Behind the last entry `NotYet` covers the directory, so
it does not hold the name (`NothingLeft`).

**Pl330.** The chunk that `_loop` programs next depends only on the bursts left;
`CycmaxBounds`, `CountDivision`, `QuotientRange` and `ChunkBounds` bound its counts,
its unrolling and what it consumes for every positive number, and `BurstsInv` says
that the number is one. For the length, a full chunk is paid for by its span of bursts,
and at most one smaller chunk of each kind follows (`Left`, `FitsInv`). For the copy, a
set of places says which chunk was written at which byte with how many bursts left
(`Program`); a second call writes the same bytes at the same places, so a channel that
runs while a program is being written again does not see it. The channel is at one of the
places (`InChunk`), and the bytes not yet stored are those that its counters, the rest of
the chunk and the chunks behind it stand for; each instruction keeps that equation.

**Sdhc.** `OutcomeCases` says what the results of a command can mean: a command not
forgiven whose result is success was obeyed, with no error pending before or after,
and a fault is an error. `SdInv` then follows `SDHC_Init` command by command: which
transfer is made where (`OpFits`), that no block is under way but between a data
command and the end of its wait, or after the SCR until the next command that the card
obeys, because a card with a block to send is in the data state and obeys nothing
(`Link`, `Quiet`), and what driver and card agree on so far (`Agreed`). That both ends
end with four lines rests on the error that a missed CMD55 leaves in the register:
before ACMD6 either that bit is set or the card expects an application command.
`Pending` is the same idea for a call. `Transfers` ties the blocks moved so far, the blocks
the driver still counts, the block under way and the place where the card is to the
arguments of the call, separately for reading and writing, as long as the call met no
fault. `Clean` says, for a session without any fault, which status bits are set or about
to be when the driver begins to wait.

**SlideShow.** `SInv` says that the pictures before the index of main are in their
units and stay there (`ImagesKept`), that the index of the interrupt is one of them
(`IndexKept`), that a copy under way reads the image of the picture it stands for
(`CopyKept`), and where main writes at each of its steps (`AtPicture`): above what is
already shown and below the frame buffer, or at the WAV file beyond it. `Counted` ties the loop
counter to the list it runs over; with no picture it has no bound but `IndexInMemory`.

**boot.ini.** What a parser gives is found by induction over the places of the text: a set of
numbers that holds 0 and the successor of each of its members holds all (`Counting`, from
`WFMin` of the library). `LineParts` says where key, `=`, names and end of a line are in its
text. Within a line that is not a comment the machine has the key for its name, and after
the names began their first tokens as its value (`InLine`, `InLineStep`); within a
comment its name begins with `#`, which no key does, and by the first name it is in the
value, so the end of the line ends the comment whatever signs stood in it (`InComment`).
Each line leaves the machine ready for the next (`Ready`) but the first of its key, which
leaves the names behind a NUL (`Answers`, `KeyIsFound`), and nothing after it is looked
at (`FoundStays`). `shell_parse` starts an argument at each name, a fixed distance apart
(`StartsAreNames`, `ArgumentIs`). `NamedIsRead` puts the two together, and `PiecesStay`
that what was parsed is not changed. The boot loader's parser is proved in the same way in
`SuperbootProofs` (`KeyIsFound`, `IniIsRead`); there the text is cut at the size of
`ini_buf` and anything may follow it, so all it uses is that the text begins with the lines
up to the one for `OS` (`BufferBegins`).

**NandStore.** `NandInv` keeps, while a command runs, what the two counters and the block
number stand for: after `q` full blocks the bound has lost `q` blocks and the counter
starts again, so the next row is that of page number `Whole - pages + i` of the range
(`Counters`), whatever is wrapped. The pages before it are in their places, programmed
once where the block was erased or blank (`Running`), and every other row is untouched but
for an erasure (`Untouched`). Two pages of a range never share a row because the range is
no longer than the chip. `PowerLoss` keeps the flash, so what it leaves is what
`RestOfFlashKept` allows.

**TagList and Superboot.** Each tag is written behind the ones before it, so the two
memories agree below its first byte (`Agree`), and the rounded size of the command line
puts the next tag behind its NUL. The invariant of the board has a part for each way
memory is filled. `Orders`: the pieces a command has still to write lie within its task
and hold what the task wants, and what they do not hold of it is in memory (`InOrder`), or
the command was disturbed; before a jump nothing is left to write. `Booting`: a `bootm`
is never disturbed, and tags and kernel are in memory before the jump. `Receiving`: the
bytes stored are the first ones of the file, and what waits in the UART together with the
place in the packet is the packet due, its end, or a sender that has not begun
(`PacketIsDue`, `PacketComes`, `EndComes`, `PacketIsAnswered`, `NotStarted`); `Raw` is the
same for `loadb`. From them every step maps to a step of `Monitor` or none. `OnCourse` adds
that the loader is whole while it is obeyed; that the automatic start brings the program
that is named rests on `IniIsRead`.

**Only model-checked.** All liveness and everything under fairness: the provers do not
know `ENABLED`. `AckMeansStored` with block numbers damaged into the next. What the
community modules' folds compute for every sequence, because their induction theorems take
operators; where a theorem needs such a result the model has a recursive function instead.
All other safety properties of the passing runs are theorems.

To repeat: `tlc -config X.cfg M` for each run of `PROJECT.json`, `tlapm M.tla` for each of
the eight `*Proofs` modules.

## What is not modelled

- *IIS sound by DMA* (akae2440): one channel, started and not waited for; how its
  count register of 20 bits shares a word with flags is a matter of one assignment.
- *Interrupt and timer demos, software and key interrupt*: handlers that blink, beep
  or print with nothing kept between them. The interrupt that shares state is that of
  the photo frame.
- *DM9000 test*: a polled straight line of register writes; what it depends on is a
  chip whose behaviour the sources do not give.
- *LCD, codec, IIC, UART, printf, LED, clock, memory set-up, drawing demos*: values
  written once to registers, pure input and output, number formatting, pixels.
- *Linux kernel files*: another project's code, kept for study.
- Inside modelled components: `dma_peri_transfer` (its one call is disabled), SDMA,
  ADMA2 and interrupt mode of the SD driver (nothing selects them), listings of
  directories, the end mark of FAT12 in directory chains, initialisation of the screen
  and the sound, the photo frame without a picture (its index then grows without end),
  the entry code `irq.s`, the room in the line buffer and in `argv` of the console,
  the other `xmodem.c` of the simple receivers, which differs in where it lies.

The repository has 73520 lines in 739 files, but most of them are copies: the same
`fat.c`, `sdhc.c`, `dma.c` and register headers lie in up to eight directories, and a
module maps one. Of the distinct `.c` and `.s` lines (about 30000) the larger part are
register tables, font and picture data, kernel files and the predecessors of the
programs modelled here. So the share of all lines that the map names is small, and
would stay so if every behaviour with state were modelled.

## Plan

The order has been: the XMODEM receiver, the one protocol over an unreliable line; the
path of a file from the card to memory (`FatFile`, `FatDir`, `Sdhc`); the DMA program
writer; the photo frame that composes them; the NAND commands with loss of power; the
boot loader, composed of its receiver, its parser and its tag list under the promise of
`Monitor`; then the proofs, last those of the two parsers. What is left is IIS sound by DMA,
with a controller of its own.
