----------------------------- MODULE MCFatFile ------------------------------
(* Small volumes for FatFile, and small FATs for FatEntry: two buffers of 12 bytes,
   counted up, counted down and mixed. *)
EXTENDS FatFile, FatEntry

SmallFats ==
  LET places == 0..(2 * FATBUFSIZE - 1) IN
  {[n \in places |-> 16 * (n % 8) + 15 - (n % 16)], [n \in places |-> 127 - 5 * n],
   [n \in places |-> (n * n * 37 + 11) % 128]}
ASSUME EntriesAreRead ==
  \A f \in SmallFats, fatsize \in {12, 16, 32} : \A entry \in 0..(2 * EntriesInBuf(fatsize) - 1) :
    GetFatentBytes(f, fatsize, entry) = Packed(f, fatsize, entry)
=============================================================================
