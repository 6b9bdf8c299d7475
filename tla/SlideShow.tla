----------------------------- MODULE SlideShow ------------------------------
(***************************************************************************)
(* The photo frame: mymain and user_irq_handler of                         *)
(* src/tiny210-linux-codes/prj3-dpf-dma/main.c with the timer of timer.c.  *)
(* Main reads boot.ini, loads every picture and shows each once, starts the*)
(* timer and plays the WAV files for ever; the timer's interrupt shows the *)
(* next picture through the DMA controller, which works beside them.       *)
(*                                                                         *)
(* Memory is in units of BMP_SIZE, 512K, from BMP_ARRAY_ADDR on.  A unit   *)
(* holds a file, an image or something else.  Reading a file (FatFile,     *)
(* FatDir) and running a DMA program (Pl330) have modules of their own;    *)
(* here they are a step each.                                              *)
(***************************************************************************)
EXTENDS BootIni

CONSTANTS
  ScreenUnit,  \* the frame buffer, 0x22000000: 16 in the code
  WavUnit,     \* WAV_FILE_ADDR, 0x23000000: 48 in the code
  Files,       \* the files on the card
  Inis         \* the boot.ini files: sequences of lines

ASSUME IniAssumption == Inis \subseteq Seq(IniLine)
ASSUME LayoutAssumption ==
  ScreenUnit \in Nat /\ WavUnit \in Nat /\ 0 < ScreenUnit /\ ScreenUnit < WavUnit

VARIABLES
  ini,      \* history: the lines of boot.ini
  buf,      \* its text
  bmpfilenames, wavfilenames,  \* the values of BMP and WAV
  pc,       \* mymain: "find", "parse", "read", "draw", "dma", "timer", "pieces",
            \* "wav", "play"
  argv,     \* the pictures named by boot.ini, as written: sequences of tokens
  wargv,    \* the WAV files
  i,        \* the loop counter of mymain
  p,        \* the unit p points to
  bmpi,     \* the picture the next interrupt shows
  timer,    \* timer_init has started the timer
  dma,      \* the unit the DMA channel is copying from, -1 when idle
  mem,      \* the units
  shown     \* history: the picture of the last copy that ended, from 0; -1 none

texts == <<ini, buf, bmpfilenames, wavfilenames>>
vars == <<texts, pc, argv, wargv, i, p, bmpi, timer, dma, mem, shown>>

argc == Len(argv)
wargc == Len(wargv)

Junk == <<"junk">>
File(w) == <<"file", w>>
Image(of) == <<"image", of>>

Buffer == <<NUL>>     \* both are zero at the start

\* The pictures a boot.ini names, as written.  They are on the card, and all of them
\* fit below the frame buffer.
Pictures(l) == shell_parse(get_key_value("BMP", Text(l), Buffer))
ASSUME PicturesAssumption ==
  \A l \in Inis : Pictures(l) \in Seq({<<w>> : w \in Files}) /\ 2 * Len(Pictures(l)) <= ScreenUnit
\* The WAV files it names, a list of words; they need not be on the card.
Pieces(l) == shell_parse(get_key_value("WAV", Text(l), Buffer))
ASSUME PiecesAssumption == \A l \in Inis : Pieces(l) \in Seq(Seq(STRING))

-----------------------------------------------------------------------------
(* mymain                                                                  *)

\* The value of BMP is taken from boot.ini, then taken apart in place.
FindPictures ==
  /\ pc = "find"
  /\ bmpfilenames' = get_key_value("BMP", buf, Buffer)
  /\ pc' = "parse"
  /\ UNCHANGED <<ini, buf, wavfilenames, argv, wargv, i, p, bmpi, timer, dma, mem, shown>>

ParsePictures ==
  /\ pc = "parse"
  /\ argv' = shell_parse(bmpfilenames)
  /\ pc' = IF argv' = <<>> THEN "timer" ELSE "read"
  /\ UNCHANGED <<texts, wargv, i, p, bmpi, timer, dma, mem, shown>>

\* file_fat_read(argv[i], p, 0x100000): a name of no file leaves the memory.
Read(name, unit) == IF name \in {<<w>> : w \in Files} THEN [mem EXCEPT ![unit] = File(name)] ELSE mem

ReadPicture ==
  /\ pc = "read"
  /\ mem' = Read(argv[i + 1], p)
  /\ pc' = "draw"
  /\ UNCHANGED <<texts, argv, wargv, i, p, bmpi, timer, dma, shown>>

\* lcd_draw_bmp_v makes an image of whatever is at p, half a picture further on.
DrawPicture ==
  /\ pc = "draw"
  /\ mem' = [mem EXCEPT ![p + 1] = IF mem[p][1] = "file" THEN Image(mem[p][2]) ELSE Junk]
  /\ pc' = "dma"
  /\ UNCHANGED <<texts, argv, wargv, i, p, bmpi, timer, dma, shown>>

\* dma_mem_transfer: a busy channel ignores it.
Start(unit) == dma' = IF dma = -1 THEN unit ELSE dma

\* BMP_FB_SIZE is two units; the mutant steps by BMP_SIZE.
HalfStride == 1
Stride == 2

\* The end of the loop body: p = p + BMP_FB_SIZE and i++.
ShowLoaded ==
  /\ pc = "dma"
  /\ Start(p + 1)
  /\ p' = p + Stride /\ i' = i + 1
  /\ pc' = IF i + 1 = argc THEN "timer" ELSE "read"
  /\ UNCHANGED <<texts, argv, wargv, bmpi, timer, mem, shown>>

\* bmpi = 0, timer_init, and the value of WAV.
StartTimer ==
  /\ pc = "timer"
  /\ bmpi' = 0 /\ timer' = TRUE /\ i' = 0 /\ p' = WavUnit
  /\ wavfilenames' = get_key_value("WAV", buf, Buffer)
  /\ pc' = "pieces"
  /\ UNCHANGED <<ini, buf, bmpfilenames, argv, wargv, dma, mem, shown>>

ParsePieces ==
  /\ pc = "pieces"
  /\ wargv' = shell_parse(wavfilenames)
  /\ pc' = "wav"
  /\ UNCHANGED <<texts, argv, i, p, bmpi, timer, dma, mem, shown>>

ReadWav ==
  /\ pc = "wav" /\ i < wargc
  /\ mem' = Read(wargv[i + 1], p)
  /\ pc' = "play"
  /\ UNCHANGED <<texts, argv, wargv, i, p, bmpi, timer, dma, shown>>

\* audio_play_wav returns at the end of the piece, and the list starts again.
PlayWav ==
  /\ pc = "play"
  /\ i' = (i + 1) % wargc
  /\ pc' = "wav"
  /\ UNCHANGED <<texts, argv, wargv, p, bmpi, timer, dma, mem, shown>>

-----------------------------------------------------------------------------
(* The interrupt and the DMA channel.                                      *)

\* Mutants: the index wraps one picture late, or one early.
AfterEarly(n) == IF n + 2 >= argc THEN 0 ELSE n + 1
AfterLate(n) == IF n = argc THEN 0 ELSE n + 1
\* bmpi++, and 0 when it equals argc.  With no picture at all it never does; a
\* bound keeps the index in memory there.
After(n) == IF n + 1 = argc THEN 0 ELSE n + 1
IndexInMemory == Stride * bmpi + 1 < ScreenUnit

\* user_irq_handler, from any point of mymain once the timer runs; the handler is
\* not interrupted.  A period of four seconds is longer than a copy of one screen,
\* which is an assumption.
Tick ==
  /\ timer /\ dma = -1 /\ IndexInMemory
  /\ Start(Stride * bmpi + 1)
  /\ bmpi' = After(bmpi)
  /\ UNCHANGED <<texts, pc, argv, wargv, i, p, timer, mem, shown>>

\* The channel has copied the image to 0x22000000.
Copied ==
  /\ dma # -1
  /\ mem' = [mem EXCEPT ![ScreenUnit] = mem[dma]]
  /\ shown' = dma \div 2
  /\ dma' = -1
  /\ UNCHANGED <<texts, pc, argv, wargv, i, p, bmpi, timer>>

-----------------------------------------------------------------------------

Init ==
  /\ ini \in Inis /\ buf = Text(ini) /\ bmpfilenames = Buffer /\ wavfilenames = Buffer
  /\ pc = "find" /\ argv = <<>> /\ wargv = <<>> /\ i = 0 /\ p = 0 /\ bmpi = 0
  /\ timer = FALSE /\ dma = -1 /\ shown = -1
  /\ mem = [u \in 0..WavUnit |-> Junk]

Main == \/ FindPictures \/ ParsePictures \/ ReadPicture \/ DrawPicture \/ ShowLoaded
        \/ StartTimer \/ ParsePieces \/ ReadWav \/ PlayWav

Next == Main \/ Tick \/ Copied

Spec == Init /\ [][Next]_vars

\* The processor goes on with mymain, the timer goes on ticking, a copy ends.
FairSpec == Spec /\ WF_vars(Main) /\ WF_vars(Tick) /\ WF_vars(Copied)
-----------------------------------------------------------------------------
(* Properties.                                                             *)

Words(names) == [k \in DOMAIN names |-> <<names[k]>>]
Says(key) == \E n \in DOMAIN ini : IsFor(key, ini[n])

TypeOK ==
  /\ pc \in {"find", "parse", "read", "draw", "dma", "timer", "pieces", "wav", "play"}
  /\ i \in 0..argc \cup 0..wargc /\ p \in 0..WavUnit
  /\ bmpi < argc \/ argc = 0
  /\ dma \in -1..WavUnit /\ shown \in -1..WavUnit
  /\ \A u \in DOMAIN mem : mem[u][1] \in {"junk", "file", "image"}

\* The program shows and plays the files on the first line of boot.ini for the key,
\* whichever way spaces, other keys and lines commented out stand around it.
ArgumentsAreNamed ==
  /\ (pc \notin {"find", "parse"} /\ Says("BMP")) => argv = Words(Named("BMP", ini))
  /\ (timer /\ pc # "pieces" /\ Says("WAV")) => wargv = Words(Named("WAV", ini))

\* From the first copy on the screen shows the picture the index stood for, whole:
\* no file being read, no image being drawn and no WAV file gets into the frame
\* buffer or into an image that is still to be shown.
ScreenIsPicture ==
  (shown # -1 /\ argc > 0) => mem[ScreenUnit] = Image(argv[shown + 1])

\* The interrupts show every picture again and again, also the one whose first
\* copy was ignored by a busy channel.
EveryPictureShown ==
  \A k \in 0..(ScreenUnit \div 2 - 1) : []<>(shown = k \/ k >= argc)

=============================================================================
