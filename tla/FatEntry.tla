------------------------------ MODULE FatEntry ------------------------------
(***************************************************************************)
(* The FAT as bytes: how get_fatent of                                     *)
(* src/tiny210-linux-codes/prj3-dpf-dma/fat.c picks an entry of 12, 16 or  *)
(* 32 bits out of fatbuf, which it reads as words of 16 bits (32 on        *)
(* FAT32), low byte first.  Module FatFile takes the entries as numbers.   *)
(***************************************************************************)
EXTENDS Integers

CONSTANT FATBUFSIZE   \* bytes in fatbuf: 3072 in the code
ASSUME FatbufAssumption == FATBUFSIZE \in Nat \ {0} /\ FATBUFSIZE % 12 = 0

\* FAT12BUFSIZE, FAT16BUFSIZE, FAT32BUFSIZE
EntriesInBuf(fatsize) ==
  CASE fatsize = 12 -> (FATBUFSIZE * 2) \div 3
    [] fatsize = 16 -> FATBUFSIZE \div 2
    [] fatsize = 32 -> FATBUFSIZE \div 4

\* The stretch of the FAT in fatbuf: f[n] is byte n of the FAT.
Fatbuf(f, bufnum) == [k \in 0..(FATBUFSIZE - 1) |-> f[bufnum * FATBUFSIZE + k]]

Word(buf, k) == buf[2 * k] + 256 * buf[2 * k + 1]

\* The entry at offset of the buffer, with the masks and shifts of the code.
EntryOf12(buf, offset) ==
  LET off16 == (offset * 3) \div 4
      here == Word(buf, off16)
      next == Word(buf, off16 + 1)
  IN  CASE offset % 4 = 0 -> here % 4096
        [] offset % 4 = 1 -> (next % 256) * 16 + here \div 4096
        [] offset % 4 = 2 -> (next % 16) * 256 + here \div 256
        [] offset % 4 = 3 -> here \div 16
EntryOf(buf, fatsize, offset) ==
  CASE fatsize = 12 -> EntryOf12(buf, offset)
    [] fatsize = 16 -> Word(buf, offset)
    [] fatsize = 32 -> Word(buf, 2 * offset) + 65536 * Word(buf, 2 * offset + 1)

GetFatentBytes(f, fatsize, entry) ==
  LET bufnum == entry \div EntriesInBuf(fatsize) IN
  EntryOf(Fatbuf(f, bufnum), fatsize, entry - bufnum * EntriesInBuf(fatsize))

\* The layout of a FAT: a FAT12 entry is one and a half bytes, the lower half of a
\* shared byte belonging to the entry before.
Packed(f, fatsize, entry) ==
  CASE fatsize = 12 /\ entry % 2 = 0 ->
         LET at == 3 * (entry \div 2) IN f[at] + 256 * (f[at + 1] % 16)
    [] fatsize = 12 /\ entry % 2 = 1 ->
         LET at == 3 * (entry \div 2) + 1 IN f[at] \div 16 + 16 * f[at + 1]
    [] fatsize = 16 -> f[2 * entry] + 256 * f[2 * entry + 1]
    [] fatsize = 32 -> f[4 * entry] + 256 * f[4 * entry + 1]
                         + 65536 * (f[4 * entry + 2] + 256 * f[4 * entry + 3])
=============================================================================
