----------------------------- MODULE Superboot ------------------------------
(***************************************************************************)
(* The boot loader of src/tiny210-linux-codes/b-superboot-demo: the first  *)
(* stage, which brings the loader from the SD card, and the loader         *)
(* (bootloader/), which starts the program named in boot.ini unless a key  *)
(* is pressed, and else obeys commands that load memory over the serial    *)
(* line, from the NAND flash or from the card and start what they loaded.  *)
(*                                                                         *)
(* Memory is a line of places, in the order of the addresses in the code:  *)
(* the kernel, the loader, the program, the file.  A place holds what it   *)
(* was last given: <<"sent", k>> is the k-th byte of the file sent, <<"os",*)
(* k>> of the program named in boot.ini, <<"nand", k>> of the flash.  The  *)
(* tag list has a memory of its own (TagList).  A character typed, and a   *)
(* word of a command line, is one byte on the line.                        *)
(***************************************************************************)
EXTENDS SimpleXmodem, BootIni, TagList

CONSTANTS
  Addresses,    \* the places of memory
  Kernel,       \* LINUX_BOOT_ADDR 0x20008000
  KernelBytes,  \* 0x800000
  Loader,       \* BL2_SDRAM_ADDR 0x20808000
  LoaderBytes,  \* the size of bootloader.bin: 20164
  StageBytes,   \* what the first stage reads: 64 blocks
  Down,         \* DOWN_BIN_ADDR 0x21000000
  OsBytes,      \* what the automatic start reads of a program: 0x10000
  FileAddr,     \* LOAD_FILE_ADDR and FB_ADDR: 0x22000000
  PageBytes,    \* PAGE_SIZE 2048
  NandRows,     \* pages of the flash
  NandKernel,   \* where bootm finds the kernel: 0x400000
  CmdSize,      \* sizeof(cmd)
  OsFile,       \* the program on the card that boot.ini may name: its length
  OsName,       \* and its name
  FileBytes,    \* the length of the other files on the card
  Inis,         \* the boot.ini files a card may hold: sequences of lines
  IniBytes,     \* the size of ini_buf: 128
  StackTails,   \* what may lie behind the text in ini_buf
  Lines,        \* what the operator types
  Keys,         \* the keys that may be pressed at any time
  atoi,         \* the number written in a word
  MaxLines, MaxKeys, MaxCycles  \* bounds: lines typed, keys pressed, power cycles

ASSUME KernelAssumption ==
  /\ PageBytes \in Nat \ {0} /\ NandRows \in Nat /\ CmdSize \in Nat
  /\ KernelBytes \in Nat \ {0} /\ NandKernel \in Nat
  /\ KernelBytes % PageBytes = 0 /\ NandKernel % PageBytes = 0
  /\ NandKernel + KernelBytes <= NandRows * PageBytes
ASSUME LayoutAssumption ==
  /\ Addresses \subseteq Nat /\ Kernel \in Nat /\ Loader \in Nat /\ Down \in Nat /\ FileAddr \in Nat
  /\ {Kernel, Down} \subseteq Addresses
  /\ Kernel + KernelBytes <= Loader /\ Loader + LoaderBytes <= Down /\ Down <= FileAddr
ASSUME StageAssumption == LoaderBytes \in Nat /\ StageBytes \in Nat /\ LoaderBytes <= StageBytes
ASSUME FileAssumption == OsFile \in Nat \ {0} /\ OsBytes \in Nat \ {0} /\ FileBytes \in Nat
ASSUME IniAssumption ==
  Inis \subseteq Seq(IniLine) /\ IniBytes \in Nat /\ StackTails \subseteq Seq(STRING)
\* atoi (lib.c:12-41) knows no sign; words of digits that fit an int.
ASSUME NumberAssumption == \A word \in DOMAIN atoi : atoi[word] \in Nat

VARIABLES
  tags,     \* the memory at 0x20000100, <<>> until bootm writes there
  binfilename, \* the value of OS
  argv,     \* the words of the line typed last, while its command is looked up
  work,     \* what the command under way has still to write, piece by piece
  after,    \* where it goes then
  entry,    \* the address started last
  task,     \* history: what the command under way was asked for (see Monitor)
  harmed,   \* history: the card or an order of the operator led the board astray
  lines, keys, cycles   \* counts for the bounds

counts == <<lines, keys, cycles>>
consoleVars == <<tags, binfilename, argv, work, after, entry, task, harmed, counts>>
vars == <<xmodemVars, consoleVars>>

Junk == <<"junk", 0>>
Places(a, n) == (a..(a + n - 1)) \cap Addresses
Piece(a, n, origin, from) == [x \in Places(a, n) |-> <<origin, from + x - a + 1>>]
Overlay(m, piece) == [a \in DOMAIN m |-> IF a \in DOMAIN piece THEN piece[a] ELSE m[a]]

LoaderPlaces == Places(Loader, LoaderBytes)
HasLoader(m) == \A a \in LoaderPlaces : m[a] = <<"loader", a - Loader + 1>>

\* What a program that works begins with.
ProgramStarts == {<<"sent", 1>>, <<"os", 1>>, <<"nand", NandKernel + 1>>}

\* The memory at 0x20000100 before bootm, of which no other command is told to
\* write anything.
TagWords == CoreSize + CmdlineSize(CmdSize) + MemSize + HeaderWords
StaleTags == [b \in 0..(4 * TagWords) |-> Stale]

NoTask == [cells |-> {}, wanted |-> <<>>]
Task(cells, wanted) == [cells |-> cells, wanted |-> wanted]

-----------------------------------------------------------------------------
(* The flash (nand.c).                                                     *)

\* The k-th byte after the address cycles: the column within the page, then the
\* row.  Behind the page come its spare bytes.
NandByte(addr_, k) ==
  LET row == (addr_ \div PageBytes) % NandRows
      column == (addr_ % PageBytes) + k
  IN IF column < PageBytes THEN <<"nand", row * PageBytes + column + 1>>
                           ELSE <<"spare", row>>

nand_read_page(nand_addr, sdram_addr) ==
  [a \in Places(sdram_addr, PageBytes) |-> NandByte(nand_addr, a - sdram_addr)]

\* (size - 1)/PAGE_SIZE + 1, where the division rounds towards 0.
\* Mutant: one page too many when the size is a multiple.
PagesOneMore(size) == size \div PageBytes + 1
Pages(size) == IF size = 0 THEN 1 ELSE (size - 1) \div PageBytes + 1

nand_read(sdram_addr, nand_addr, size) ==
  [i \in 1..Pages(size) |->
     nand_read_page(nand_addr + (i - 1) * PageBytes, sdram_addr + (i - 1) * PageBytes)]

-----------------------------------------------------------------------------
(* boot.ini (lib.c).  Unlike the photo frame's (BootIni), this get_key_value *)
(* takes no '#' into a key and no space into a value.                       *)

CharacterOs(key, st, c) ==
  LET word == c \notin Signs
      ended == [st EXCEPT !.value = PutAt(@, st.v, NUL), !.state = 0, !.name = <<>>, !.v = 0]
  IN IF st.found THEN st
     ELSE CASE st.state \in {0, 1} /\ word -> [st EXCEPT !.name = Append(@, c), !.state = 1]
       [] st.state = 1 /\ c = Space -> [st EXCEPT !.state = 2]
       [] st.state \in {1, 2} /\ c = Equals -> [st EXCEPT !.state = 3]
       [] st.state = 3 /\ c = Space -> [st EXCEPT !.state = 4]
       [] st.state \in {3, 4, 5} /\ word ->
            [st EXCEPT !.value = PutAt(@, st.v, c), !.v = @ + 1, !.state = 5]
       [] st.state = 5 /\ c = Newline -> [ended EXCEPT !.found = st.name = <<key>>]
       [] OTHER -> st

OnceOs(key, st, c) == CHOOSE next \in {CharacterOs(key, now, c) : now \in {st}} : TRUE

ScannedOs(key, text, value) ==
  LET st[k \in 0..Len(text)] == IF k = 0 THEN Begin(value) ELSE OnceOs(key, st[k - 1], text[k])
  IN st
get_key_value_os(key, text, value) == ScannedOs(key, text, value)[Len(text)].value

\* file_fat_read("/boot.ini", ini_buf, 128) leaves no NUL behind the text; n tokens
\* have come from the card.
Least(x, y) == IF x < y THEN x ELSE y
IniRead(ini) == Least(Len(Text(ini)), IniBytes)
OsRead == Least(OsFile, OsBytes)
IniBuffer(ini, n, tail) == SubSeq(Text(ini), 1, n) \o tail

\* boot.ini says what to start when its line for OS, comments and all, fits ini_buf.
OsLines(ini) == {k \in DOMAIN ini : ini[k].key = "OS"}
PlainIni(ini) ==
  /\ OsLines(ini) # {}
  /\ \A k \in DOMAIN ini : ini[k].comment = <<>> /\ Len(ini[k].names) = 1
  /\ \A k \in OsLines(ini) : Len(TextTo(ini, k)) <= IniBytes
NamesOs(ini) == PlainIni(ini) /\ Named("OS", ini) = <<OsName>>

-----------------------------------------------------------------------------
(* Power, first stage, start of the loader.                                *)

Init ==
  /\ mem = [a \in Addresses |-> Junk] /\ tags = <<>>
  /\ pc = "off"
  /\ at = 0 /\ addr = Down /\ rx = <<>> /\ tx = <<>>
  /\ host = "absent" /\ item = 1 /\ timeouts = 0 /\ faults = 0 /\ disturbed = FALSE
  /\ binfilename = <<>> /\ argv = <<>> /\ work = <<>> /\ after = "prompt" /\ entry = Down
  /\ task = NoTask /\ harmed = FALSE
  /\ lines = 0 /\ keys = 0 /\ cycles = 0

\* The power fails, or the operator resets the board: memory is lost, the card and
\* the flash are not.
PowerCycle ==
  /\ pc # "off" /\ cycles < MaxCycles
  /\ pc' = "off" /\ cycles' = cycles + 1
  /\ mem' = [a \in Addresses |-> Junk] /\ tags' = <<>>
  /\ at' = 0 /\ addr' = Down /\ rx' = <<>> /\ tx' = <<>>
  /\ host' = "absent" /\ item' = 1 /\ timeouts' = 0 /\ disturbed' = FALSE
  /\ binfilename' = <<>> /\ argv' = <<>> /\ work' = <<>> /\ after' = "prompt" /\ entry' = Down
  /\ task' = NoTask /\ harmed' = FALSE
  /\ UNCHANGED <<faults, lines, keys>>

\* A read of the card brings everything, or fails after the first n of all.
CardBrings(n, all) ==
  \/ n = all /\ UNCHANGED faults
  \/ n \in 0..(all - 1) /\ "card" \in LineFaults /\ faults < MaxFaults /\ faults' = faults + 1

\* SDHC_ReadBlocks to BL2_SDRAM_ADDR and the jump there, whatever it returned; then
\* the loader's own start, which clears the screen.
LoaderImage(n) ==
  [a \in Places(Loader, n) |->
     IF a \in LoaderPlaces THEN <<"loader", a - Loader + 1>> ELSE Junk]
FirstStage ==
  /\ pc = "off"
  /\ \E n \in 0..StageBytes :
       /\ CardBrings(n, StageBytes)
       /\ mem' = Overlay(Overlay(mem, LoaderImage(n)), Piece(FileAddr, FileBytes, "pixel", 0))
       /\ harmed' = (n # StageBytes)
       /\ pc' = IF HasLoader(mem') THEN "wait" ELSE "lost"
  /\ UNCHANGED <<at, addr, rx, tx, hostVars, disturbed, binfilename, tags, argv, work,
                 after, entry, task, counts>>

\* The three seconds: UTRSTAT0 is tested, the key stays in URXH0.
KeyWait ==
  /\ pc = "wait"
  /\ pc' = IF rx # <<>> THEN "prompt" ELSE "auto"
  /\ UNCHANGED <<mem, at, addr, rx, tx, hostVars, faults, disturbed, consoleVars>>

\* file_fat_read("/boot.ini", ini_buf, 128) and the name it gives; of a short read
\* the rest of ini_buf is what the stack held.
ReadIni ==
  /\ pc = "auto" /\ pc' = "os"
  /\ \E ini \in Inis, tail \in StackTails :
       \E n \in 0..IniRead(ini) :
         /\ CardBrings(n, IniRead(ini))
         /\ \E value \in {get_key_value_os("OS", IniBuffer(ini, n, tail), <<"?">>)} :
              binfilename' = Content(value)
         /\ harmed' = (harmed \/ n # IniRead(ini) \/ ~NamesOs(ini))
  /\ UNCHANGED <<mem, at, addr, rx, tx, hostVars, disturbed, tags, argv, work, after,
                 entry, task, counts>>

\* file_fat_read(binfilename, 0x21000000, 0x10000); if there is no such file nothing
\* is read, and the jump is made all the same.
LoadOs ==
  /\ pc = "os" /\ pc' = "work" /\ after' = "jump" /\ entry' = Down
  /\ \E n \in 0..OsRead :
       /\ IF binfilename = <<OsName>> THEN CardBrings(n, OsRead) ELSE n = 0 /\ UNCHANGED faults
       /\ work' = <<Piece(Down, n, "os", 0)>>
       /\ disturbed' = (n # OsRead)
       /\ harmed' = (harmed \/ (binfilename = <<OsName>> /\ n # OsRead))
  /\ task' = Task(Places(Down, OsBytes), IF ~harmed THEN Piece(Down, OsRead, "os", 0) ELSE <<>>)
  /\ binfilename' = <<>>
  /\ UNCHANGED <<mem, at, addr, rx, tx, hostVars, tags, argv, counts>>

-----------------------------------------------------------------------------
(* The prompt: gets and shell_parse, then command_do.                      *)

LineEnd == CHOOSE k \in DOMAIN rx : rx[k].is = "\n" /\ \A j \in 1..(k - 1) : rx[j].is # "\n"
HasLine == \E k \in DOMAIN rx : rx[k].is = "\n"

\* gets: a backspace takes the last character back, if there is one.
Gets(typed) ==
  FoldLeft(LAMBDA s, c : IF c # "BS" THEN Append(s, c) ELSE IF s = <<>> THEN s ELSE Front(s),
           <<>>, typed) \o <<NUL>>

GetLine ==
  /\ pc = "prompt" /\ HasLine
  /\ \E typed \in {[k \in 1..(LineEnd - 1) |-> rx[k].is]} :
       \E buf \in {Gets(typed)} : argv' = shell_parse(buf)
  /\ rx' = SubSeq(rx, LineEnd + 1, Len(rx))
  /\ pc' = "do"
  /\ UNCHANGED <<mem, at, addr, tx, hostVars, faults, disturbed, binfilename, tags, work,
                 after, entry, task, harmed, counts>>

Word(k) == IF k \in DOMAIN argv /\ Len(argv[k]) = 1 THEN argv[k][1] ELSE "?"
Number(k, default) == IF k \notin DOMAIN argv THEN default
                      ELSE IF Word(k) \in DOMAIN atoi THEN atoi[Word(k)] ELSE 0

Do(name) == pc = "do" /\ argv # <<>> /\ Word(1) = name /\ argv' = <<>>

\* A command that writes pieces to memory, and what is asked of it.
Write(pieces, t, next) ==
  /\ pc' = "work" /\ work' = pieces /\ after' = next /\ task' = t
  /\ harmed' = (harmed \/ t.cells \cap LoaderPlaces # {})
  /\ UNCHANGED <<mem, at, addr, rx, tx, hostVars, binfilename, tags, counts>>

Undisturbed == disturbed' = FALSE /\ UNCHANGED <<faults, entry>>

\* mw [address [value]]; address 0 is not in the memory modelled.
Nowhere == -1
MemoryWrite ==
  /\ Do("mw")
  /\ LET piece == [a \in Places(Number(2, Nowhere), 1) |-> <<"poke", Number(3, 0)>>]
     IN Write(<<piece>>, Task(DOMAIN piece, piece), "prompt")
  /\ Undisturbed

\* nand read sdram nand size: the bytes asked for are those of the flash where a page
\* begins there and the flash does not end before.
NandRead ==
  /\ Do("nand") /\ Len(argv) >= 5 /\ Word(2) = "read"
  /\ LET to == Number(3, 0)
         from == Number(4, 0)
         size == Number(5, 0)
         rounded == PageBytes * (IF size = 0 THEN 1 ELSE (size + PageBytes - 1) \div PageBytes)
     IN Write(nand_read(to, from, size),
              Task(Places(to, rounded),
                   IF from % PageBytes = 0 /\ from + size <= NandRows * PageBytes
                   THEN Piece(to, size, "nand", from) ELSE <<>>),
              "prompt")
  /\ Undisturbed

\* bootm: the kernel, then the tags, then the jump.
Bootm ==
  /\ Do("bootm")
  /\ Write(nand_read(Kernel, NandKernel, KernelBytes),
           Task(Places(Kernel, KernelBytes), Piece(Kernel, KernelBytes, "nand", NandKernel)),
           "tags")
  /\ entry' = Kernel /\ disturbed' = FALSE
  /\ UNCHANGED faults

\* sdload [file [address]]: any file but the program has FileBytes bytes.
SdLoad ==
  /\ Do("sdload")
  /\ \E n \in 0..(IF Word(2) = OsName THEN OsFile ELSE FileBytes) :
       LET all == IF Word(2) = OsName THEN OsFile ELSE FileBytes
           origin == IF Word(2) = OsName THEN "os" ELSE "file"
           to == Number(3, FileAddr)
       IN /\ CardBrings(n, all)
          /\ disturbed' = (n # all)
          /\ Write(<<Piece(to, n, origin, 0)>>,
                   Task(Places(to, all), Piece(to, all, origin, 0)), "prompt")
  /\ UNCHANGED entry

\* draw: the picture is copied to the screen.
Draw ==
  /\ Do("draw")
  /\ Write(<<Piece(FileAddr, FileBytes, "pixel", 0)>>, Task(Places(FileAddr, FileBytes), <<>>),
           "prompt")
  /\ Undisturbed

\* loadx [address]
LoadX ==
  /\ Do("loadx")
  /\ pc' = "countdown" /\ addr' = Number(2, Down)
  /\ task' = Task({a \in Addresses : a >= addr'}, Piece(addr', Len(Image), "sent", 0))
  /\ harmed' = (harmed \/ Places(addr', Len(Image)) \cap LoaderPlaces # {})
  /\ host' = "absent" /\ tx' = <<>> /\ disturbed' = (rx # <<>>)  \* a character waits already
  /\ UNCHANGED <<mem, at, rx, item, timeouts, faults, binfilename, tags, work, after,
                 entry, counts>>

\* loadb size: raw bytes, as many as the operator said.
LoadB ==
  /\ Do("loadb")
  /\ LET size == Number(2, 0)
     IN /\ at' = size /\ pc' = IF size = 0 THEN "prompt" ELSE "raw"
        /\ task' = IF size = 0 THEN NoTask
                   ELSE Task(Places(Down, size), Piece(Down, size, "sent", 0))
  /\ addr' = Down
  /\ host' = "absent" /\ tx' = <<>> /\ disturbed' = (rx # <<>>)
  /\ UNCHANGED <<mem, rx, item, timeouts, faults, binfilename, tags, work, after, entry,
                 harmed, counts>>

\* go [address]
Go ==
  /\ Do("go")
  /\ entry' = Number(2, Down)
  /\ pc' = "jump" /\ after' = "jump"
  /\ harmed' = (harmed \/ entry' \notin Addresses \/ mem[entry'] \notin ProgramStarts)
  /\ UNCHANGED <<mem, at, addr, rx, tx, hostVars, faults, disturbed, binfilename, tags,
                 work, task, counts>>

\* help, md and play change nothing; nand write is an empty function; an empty line
\* and an unknown word do nothing.
Idle ==
  /\ pc = "do"
  /\ \/ argv = <<>>
     \/ Word(1) \notin {"mw", "nand", "bootm", "sdload", "draw", "loadx", "loadb", "go"}
     \/ Word(1) = "nand" /\ (Len(argv) < 5 \/ Word(2) # "read")
  /\ pc' = "prompt" /\ argv' = <<>>
  /\ UNCHANGED <<mem, at, addr, rx, tx, hostVars, faults, disturbed, binfilename, tags,
                 work, after, entry, task, harmed, counts>>

Commands == MemoryWrite \/ NandRead \/ Bootm \/ SdLoad \/ Draw \/ LoadX \/ LoadB \/ Go \/ Idle

-----------------------------------------------------------------------------
(* Commands under way.                                                     *)

\* The next piece.  A loader that writes over itself is gone.
WritePiece ==
  /\ pc = "work" /\ work # <<>>
  /\ mem' = Overlay(mem, Head(work))
  /\ work' = Tail(work)
  /\ pc' = IF HasLoader(mem') THEN pc ELSE "lost"
  /\ UNCHANGED <<at, addr, rx, tx, hostVars, faults, disturbed, binfilename, tags, argv,
                 after, entry, task, harmed, counts>>

WriteDone ==
  /\ pc = "work" /\ work = <<>>
  /\ pc' = after
  /\ task' = IF after = "prompt" THEN NoTask ELSE task
  /\ UNCHANGED <<mem, at, addr, rx, tx, hostVars, faults, disturbed, binfilename, tags,
                 argv, work, after, entry, harmed, counts>>

InitTaglist ==
  /\ pc = "tags"
  /\ tags' = init_taglist(StaleTags, CmdSize)
  /\ pc' = "jump"
  /\ UNCHANGED <<mem, at, addr, rx, tx, hostVars, faults, disturbed, binfilename, argv,
                 work, after, entry, task, harmed, counts>>

\* ((void (*)(void))addr)()
Jump ==
  /\ pc = "jump"
  /\ pc' = IF entry \in Addresses /\ mem[entry] \in ProgramStarts THEN "running" ELSE "lost"
  /\ task' = NoTask
  /\ UNCHANGED <<mem, at, addr, rx, tx, hostVars, faults, disturbed, binfilename, tags,
                 argv, work, after, entry, harmed, counts>>

\* xmodem_recv, with the end of the command; the bytes it stores may be the loader's.
ReceiveX ==
  /\ \/ (StartNak \/ GetHeader \/ GetChecksum) /\ UNCHANGED harmed
     \/ /\ GetByte
        /\ pc' = IF HasLoader(mem') THEN pc ELSE "lost"
        /\ harmed' = (harmed \/ (pc' = "lost" /\ disturbed))
  /\ task' = IF pc' = "prompt" THEN NoTask ELSE task
  /\ UNCHANGED <<binfilename, tags, argv, work, after, entry, counts>>

\* loadb's uart_getchar().
GetRawByte ==
  /\ pc = "raw" /\ rx # <<>>
  /\ rx' = Tail(rx) /\ at' = at - 1 /\ addr' = addr + 1
  /\ mem' = StoreByte(mem, addr, Head(rx))
  /\ pc' = IF at = 1 THEN "prompt" ELSE pc
  /\ task' = IF at = 1 THEN NoTask ELSE task
  /\ UNCHANGED <<tx, hostVars, faults, disturbed, binfilename, tags, argv, work, after,
                 entry, harmed, counts>>

Board == FirstStage \/ KeyWait \/ ReadIni \/ LoadOs \/ GetLine \/ Commands \/ WritePiece
         \/ WriteDone \/ InitTaglist \/ Jump \/ ReceiveX \/ GetRawByte

-----------------------------------------------------------------------------
(* What is around the board (external).                                    *)

\* The operator types at the prompt.
TypeLine ==
  /\ pc = "prompt" /\ ~HasLine /\ lines < MaxLines
  /\ \E line \in Lines : rx' = rx \o [k \in DOMAIN line |-> Sign(line[k], 0)]
  /\ lines' = lines + 1
  /\ UNCHANGED <<mem, pc, at, addr, tx, hostVars, faults, disturbed, binfilename, tags,
                 argv, work, after, entry, task, harmed, keys, cycles>>

\* A key at any other time; the UART keeps one character.
PressKey ==
  /\ pc \notin {"off", "prompt", "packet"} /\ rx = <<>> /\ keys < MaxKeys
  /\ \E key \in Keys : rx' = <<Sign(key, 0)>>
  /\ keys' = keys + 1
  /\ disturbed' = (disturbed \/ pc \in {"countdown", "raw"})
  /\ UNCHANGED <<mem, pc, at, addr, tx, hostVars, faults, binfilename, tags, argv, work,
                 after, entry, task, harmed, lines, cycles>>

\* The operator sends the file raw.
SendRaw ==
  /\ pc = "raw" /\ host = "absent"
  /\ rx' = rx \o Image /\ host' = "done"
  /\ UNCHANGED <<mem, pc, at, addr, tx, item, timeouts, faults, disturbed, consoleVars>>

\* A program other than the kernel may return.
ProgramReturns ==
  /\ pc = "running" /\ mem[entry] # <<"nand", NandKernel + 1>>
  /\ pc' = "prompt"
  /\ UNCHANGED <<mem, at, addr, rx, tx, hostVars, faults, disturbed, consoleVars>>

SendX == Host /\ UNCHANGED consoleVars
LineFault == Line /\ UNCHANGED consoleVars

-----------------------------------------------------------------------------

Next == Board \/ TypeLine \/ PressKey \/ SendRaw \/ ProgramReturns \/ SendX \/ LineFault
        \/ PowerCycle

Spec == Init /\ [][Next]_vars

\* The processor runs; the operator sends the file that the command asked for.
FairSpec == Spec /\ WF_vars(Board) /\ WF_vars(SendRaw) /\ WF_vars(SendX)

-----------------------------------------------------------------------------
(* Properties.                                                             *)

TypeOK ==
  /\ pc \in {"off", "wait", "auto", "os", "prompt", "do", "work", "tags", "jump", "countdown",
             "packet", "raw", "running", "lost"}
  /\ DOMAIN mem = Addresses /\ entry \in Nat /\ addr \in Nat
  /\ pc = "packet" => at \in 0..(PacketBytes + 3)
  /\ host \in {"absent", "ready", "sending", "waiting", "done", "gone"}
  /\ item \in 1..(Packets + 1) /\ after \in {"prompt", "tags", "jump"}
  /\ disturbed \in BOOLEAN /\ harmed \in BOOLEAN

\* The loader keeps the promises of Monitor: no command writes beside the memory its
\* arguments name, rounded up to pages (nand.c:88), each ends with everything in
\* place unless the card or the serial line failed it, and a program is started
\* only then (main.c:84-90, command.c:83-114, 227-246).
modeBar == CASE pc = "off" -> "off" [] pc = "running" -> "started" [] pc = "lost" -> "lost"
             [] OTHER -> "console"
Promise == INSTANCE Monitor WITH memory <- mem, mode <- modeBar, spoiled <- disturbed
ImplementsMonitor == Promise!Spec

\* The board never executes what is not a program, nor a damaged loader, unless the
\* card failed or the operator's own order led there: bootm fills the memory right up
\* to the loader that executes it (command.c:236, main.c:10 of the first stage), the
\* first stage brings all of the loader, and boot.ini leads to the program it names
\* whatever lies behind its text (bootloader/main.c:84-90).
NeverAstray == pc = "lost" => harmed

\* The kernel that bootm starts lies in memory as in the flash, and its walk over the
\* tags finds the memory and the whole command line (command.c:197-243).
KernelGetsTags ==
  pc = "running" /\ after = "tags" =>
    /\ \A a \in Places(Kernel, KernelBytes) : mem[a] = <<"nand", NandKernel + a - Kernel + 1>>
    /\ TagListParses(tags, CmdSize)

\* Every start and every line typed leads back to the prompt or to a program, unless
\* the serial line has met a fault, the sender was started after the one NAK of
\* xmodem_recv (xmodem.c:20), or loadb was told more bytes than there are
\* (command.c:75).
Busy == (pc = "prompt" /\ HasLine) \/ pc \notin {"prompt", "running", "lost", "off"}
BytesMissing ==
  \/ pc \in {"countdown", "packet"} /\ disturbed
  \/ pc = "packet" /\ host = "ready" /\ tx = <<>>
  \/ pc = "raw" /\ host = "done" /\ rx = <<>>
Answers == Busy ~> ~Busy \/ BytesMissing
=============================================================================
