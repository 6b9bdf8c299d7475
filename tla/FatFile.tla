------------------------------ MODULE FatFile -------------------------------
(***************************************************************************)
(* Reading the contents of a file from a FAT volume: get_contents,         *)
(* get_cluster, get_fatent with its one-buffer cache, and disk_read of     *)
(* src/tiny210-linux-codes/prj3-dpf-dma/fat.c, from the directory entry    *)
(* found to the value do_fat_read returns.                                 *)
(*                                                                         *)
(* The volume is the environment: any FAT, any first cluster and any size  *)
(* the directory entry may claim, damaged chains included.  A byte on the  *)
(* card is named by its position, cluster * bytes per cluster + offset, so *)
(* a run of consecutive clusters is a run of consecutive positions.        *)
(***************************************************************************)
EXTENDS Integers, Sequences

CONSTANTS
  SECTOR_SIZE,   \* bytes per sector: 512 in the code
  ClustSize,     \* sectors per cluster: clust_size of the volume
  Clusters,      \* bound: the data clusters are 2..Clusters+1
  EntriesPerBuf, \* FAT entries in fatbuf: FAT12BUFSIZE, FAT16BUFSIZE or FAT32BUFSIZE
  CheckFrom,     \* least value CHECK_CLUST refuses: 0xfff0 or 0xffffff0
  EndMark,       \* what ends a chain on the volume
  CountModulus,  \* block counts pass through a __u16: 65536 in the code
  Sizes,         \* bound: file sizes a directory entry may claim
  MaxSizes,      \* bound: maxsize arguments
  BufferBytes,   \* bound: how much of the memory from buffer on is modelled
  StaleEntries,  \* bound: what fatbuf, on the stack, may hold at first
  ReadsFail,     \* whether SDHC_ReadBlocks may fail
  Untouched,     \* a byte of the caller's buffer that was never written
  Garbage        \* a byte copied from memory that was never written

ClusterNums == 2..(Clusters + 1)
bytesperclust == ClustSize * SECTOR_SIZE
FatValues == {0, EndMark} \cup ClusterNums
Slots == 0..(EntriesPerBuf - 1)
Memory == 0..(BufferBytes - 1)

ASSUME SizeAssumption ==
  /\ SECTOR_SIZE \in Nat \ {0} /\ ClustSize \in Nat \ {0}
  /\ Clusters \in Nat \ {0} /\ EntriesPerBuf \in Nat \ {0}
  /\ CountModulus \in Nat \ {0}
  /\ CheckFrom \in Nat /\ CheckFrom > Clusters + 1
  /\ EndMark \in Nat /\ EndMark >= CheckFrom
  /\ BufferBytes \in Nat /\ Sizes \subseteq 0..BufferBytes /\ MaxSizes \subseteq Nat
  /\ StaleEntries \subseteq FatValues
  /\ ReadsFail \in BOOLEAN
ASSUME MarkAssumption == Untouched \notin Int /\ Garbage \notin Int /\ Untouched # Garbage

VARIABLES
  fat,        \* the FAT on the card
  start,      \* START(dentptr)
  size,       \* dentptr->size
  maxsize,    \* argument: capacity of the caller's buffer, 0 for no limit
  fatbuf,     \* mydata->fatbuf: entries of one stretch of the FAT
  fatbufnum,  \* mydata->fatbufnum: which stretch, -1 for none
  pc,         \* "begin", "search", "tail", "getit", "next", "done", "returned"
  curclust,   \* first cluster of the run being collected
  endclust,   \* last cluster of that run
  actsize,    \* bytes in that run
  filesize,   \* bytes still wanted
  gotsize,    \* bytes read; also the distance buffer has advanced
  buffer,     \* the caller's memory, byte by byte
  result,     \* what do_fat_read returns
  path,       \* history: the clusters followed so far, in order
  failed      \* history: some disk_read failed

entryVars == <<fat, start, size, maxsize>>
cacheVars == <<fatbuf, fatbufnum>>
loopVars == <<curclust, endclust, actsize, filesize, gotsize>>
vars == <<entryVars, cacheVars, pc, loopVars, buffer, result, path, failed>>

\* The bytes the caller asked for.
Wanted == IF maxsize > 0 /\ size > maxsize THEN maxsize ELSE size

Init ==
  /\ fat \in [ClusterNums -> FatValues]
  /\ size \in Sizes /\ maxsize \in MaxSizes
  /\ start \in ClusterNums \cup (IF size = 0 THEN {0} ELSE {})
  /\ fatbuf \in {[i \in Slots |-> v] : v \in StaleEntries}
  /\ fatbufnum = -1
  /\ pc = "begin"
  /\ curclust = start /\ endclust = 0 /\ actsize = 0 /\ filesize = size /\ gotsize = 0
  /\ buffer = [b \in Memory |-> Untouched]
  /\ result = 0 /\ path = <<>> /\ failed = FALSE

-----------------------------------------------------------------------------
(* disk_read always returns 0, so a failure shows only in what was not     *)
(* read: the caller goes on as if all n blocks had arrived.                *)

ReadCounts(n) == IF ReadsFail THEN 0..n ELSE {n}

\* CHECK_CLUST
CheckClustLowOnly(x) == x <= 1
CheckClust(x) == x <= 1 \/ x >= CheckFrom

\* Stretch n of the FAT, as fatbuf holds it.
FatStretch(n) ==
  [i \in Slots |-> LET e == n * EntriesPerBuf + i IN IF e \in ClusterNums THEN fat[e] ELSE 0]

\* The cache of get_fatent: refilled unless it holds the stretch already.
RefillFirst(bufnum) ==
  \E n \in ReadCounts(EntriesPerBuf) :
    /\ fatbuf' = [i \in Slots |-> IF i < n THEN FatStretch(0)[i] ELSE fatbuf[i]]
    /\ fatbufnum' = bufnum
    /\ failed' = (failed \/ n < EntriesPerBuf)
Refill(bufnum) ==
  \E n \in ReadCounts(EntriesPerBuf) :
    /\ fatbuf' = [i \in Slots |-> IF i < n THEN FatStretch(bufnum)[i] ELSE fatbuf[i]]
    /\ fatbufnum' = bufnum
    /\ failed' = (failed \/ n < EntriesPerBuf)
CachedForward(bufnum) == bufnum <= fatbufnum
Cached(bufnum) == bufnum = fatbufnum

\* get_fatent(entry) leaves its stretch in fatbuf; its value is then read there.
GetFatent(entry) ==
  LET bufnum == entry \div EntriesPerBuf IN
  IF Cached(bufnum) THEN UNCHANGED <<cacheVars, failed>> ELSE Refill(bufnum)
Entry(buf, entry) == buf[entry % EntriesPerBuf]

\* get_cluster: sz bytes of cluster cl and those after it go to buf + off.
\* Whole sectors first, as many as a __u16 can count, of which whole arrive;
\* then what is left of the last sector, through tmpbuf.
SectorCount(sz) == (sz \div SECTOR_SIZE) % CountModulus
GetClusterWholeSectors(buf, cl, off, sz, whole, rest) ==
  [b \in DOMAIN buf |->
     IF /\ off <= b
        /\ b < off + whole * SECTOR_SIZE + (IF sz % SECTOR_SIZE = 0 THEN 0 ELSE SECTOR_SIZE)
     THEN cl * bytesperclust + (b - off)
     ELSE buf[b]]
GetCluster(buf, cl, off, sz, whole, rest) ==
  LET idx == sz \div SECTOR_SIZE IN
  [b \in DOMAIN buf |->
     IF off + idx * SECTOR_SIZE <= b /\ b < off + sz
     THEN IF rest THEN cl * bytesperclust + (b - off) ELSE Garbage
     ELSE IF off <= b /\ b < off + whole * SECTOR_SIZE
     THEN cl * bytesperclust + (b - off)
     ELSE buf[b]]

\* The same with any outcome of its reads.
Got(buf, cl, off, sz) ==
  {[bytes |-> GetCluster(buf, cl, off, sz, whole, rest = 1),
    ok |-> whole = SectorCount(sz) /\ rest = 1] :
     whole \in ReadCounts(SectorCount(sz)), rest \in ReadCounts(1)}

-----------------------------------------------------------------------------
(* get_contents                                                            *)

\* Up to the do: the limits of the read and the first run.
Begin ==
  /\ pc = "begin"
  /\ filesize' = Wanted
  /\ actsize' = bytesperclust
  /\ endclust' = curclust
  /\ path' = <<curclust>>
  /\ pc' = "search"
  /\ UNCHANGED <<entryVars, cacheVars, curclust, gotsize, buffer, result, failed>>

\* while (actsize < filesize), entered: the run goes on, is complete, or meets
\* an invalid entry.
SearchStopsAtGap ==
  /\ pc = "search" /\ actsize < filesize
  /\ GetFatent(endclust)
  /\ LET newclust == Entry(fatbuf', endclust) IN
     IF newclust - 1 # endclust \/ CheckClust(newclust)
     THEN pc' = "done" /\ UNCHANGED <<endclust, actsize, path>>
     ELSE /\ endclust' = newclust
          /\ actsize' = actsize + bytesperclust
          /\ path' = Append(path, newclust)
          /\ pc' = "search"
  /\ UNCHANGED <<entryVars, curclust, filesize, gotsize, buffer, result>>
Search ==
  /\ pc = "search" /\ actsize < filesize
  /\ GetFatent(endclust)
  /\ LET newclust == Entry(fatbuf', endclust) IN
     IF newclust - 1 # endclust
     THEN pc' = "getit" /\ UNCHANGED <<endclust, actsize, path>>
     ELSE IF CheckClust(newclust)
     THEN pc' = "done" /\ UNCHANGED <<endclust, actsize, path>>
     ELSE /\ endclust' = newclust
          /\ actsize' = actsize + bytesperclust
          /\ path' = Append(path, newclust)
          /\ pc' = "search"
  /\ UNCHANGED <<entryVars, curclust, filesize, gotsize, buffer, result>>

\* The loop is left with the last cluster of the file in the run: the clusters
\* before it, then what remains of the file.
GetTail ==
  /\ pc = "search" /\ actsize >= filesize
  /\ LET run == actsize - bytesperclust
         rest == filesize - run IN
     \E got \in Got(buffer, curclust, gotsize, run) :
       \E got2 \in Got(got.bytes, endclust, gotsize + run, rest) :
         /\ buffer' = got2.bytes
         /\ failed' = (failed \/ ~got.ok \/ ~got2.ok)
         /\ gotsize' = gotsize + run + rest
         /\ filesize' = rest
         /\ actsize' = rest
  /\ pc' = "done"
  /\ UNCHANGED <<entryVars, cacheVars, curclust, endclust, result, path>>

\* getit: the whole run is read.
GetIt ==
  /\ pc = "getit"
  /\ \E got \in Got(buffer, curclust, gotsize, actsize) :
       /\ buffer' = got.bytes
       /\ failed' = (failed \/ ~got.ok)
  /\ gotsize' = gotsize + actsize
  /\ filesize' = filesize - actsize
  /\ pc' = "next"
  /\ UNCHANGED <<entryVars, cacheVars, curclust, endclust, actsize, result, path>>

\* The start of the next run, or an invalid entry.
NextRunAsksAgain ==
  /\ pc = "next"
  /\ GetFatent(endclust)
  /\ curclust' = Entry(fatbuf', endclust)
  /\ IF CheckClust(curclust')
     THEN UNCHANGED <<pc, endclust, actsize, path>>
     ELSE /\ pc' = "search"
          /\ actsize' = bytesperclust
          /\ endclust' = curclust'
          /\ path' = Append(path, curclust')
  /\ UNCHANGED <<entryVars, filesize, gotsize, buffer, result>>
NextRun ==
  /\ pc = "next"
  /\ GetFatent(endclust)
  /\ curclust' = Entry(fatbuf', endclust)
  /\ IF CheckClust(curclust')
     THEN pc' = "done" /\ UNCHANGED <<endclust, actsize, path>>
     ELSE /\ pc' = "search"
          /\ actsize' = bytesperclust
          /\ endclust' = curclust'
          /\ path' = Append(path, curclust')
  /\ UNCHANGED <<entryVars, filesize, gotsize, buffer, result>>

\* do_fat_read ignores the count and returns the size in the directory entry.
Return ==
  /\ pc = "done"
  /\ result' = size
  /\ pc' = "returned"
  /\ UNCHANGED <<entryVars, cacheVars, loopVars, buffer, path, failed>>

Next == Begin \/ Search \/ GetTail \/ GetIt \/ NextRun \/ Return

Spec == Init /\ [][Next]_vars
FairSpec == Spec /\ WF_vars(Next)

-----------------------------------------------------------------------------
(* Properties.                                                             *)

Phases == {"begin", "search", "getit", "next", "done", "returned"}

\* The variables keep their types; filesize stays within what was asked for.
TypeOK ==
  /\ fat \in [ClusterNums -> FatValues] /\ size \in Sizes /\ maxsize \in MaxSizes
  /\ start \in ClusterNums \cup {0}
  /\ fatbuf \in [Slots -> FatValues] /\ fatbufnum \in Nat \cup {-1}
  /\ pc \in Phases /\ failed \in BOOLEAN /\ result \in {0, size}
  /\ curclust \in FatValues /\ endclust \in FatValues
  /\ actsize \in Nat /\ filesize \in Nat /\ gotsize \in Nat
  /\ buffer \in [Memory -> Nat \cup {Untouched, Garbage}]
  /\ path \in Seq(ClusterNums \cup {0})

\* While no read has failed, the cached stretch is what the card holds there,
\* whichever stretches were asked for before (get_fatent, fatbufnum).
CacheCoherent == ~failed /\ fatbufnum # -1 => fatbuf = FatStretch(fatbufnum)

\* While no read has failed, the clusters followed are the chain of the file, and
\* byte o of the k-th of them is at its place in the caller's buffer as soon as
\* gotsize counts it: runs of consecutive clusters read in one go, run after
\* run through the cache, and the split of the last cluster lose and repeat
\* nothing (get_contents).
ContentIsFile ==
  ~failed =>
    /\ path # <<>> => path[1] = start
    /\ \A k \in 1..(Len(path) - 1) : path[k + 1] = fat[path[k]]
    /\ \A k \in 1..Len(path) : \A o \in 0..(bytesperclust - 1) :
         LET b == (k - 1) * bytesperclust + o IN
         b < gotsize => buffer[b] = path[k] * bytesperclust + o
    /\ gotsize <= Len(path) * bytesperclust

\* Whatever the FAT holds and whichever reads fail, no byte at or beyond the
\* number asked for, the smaller of the file's size and maxsize, is written, and
\* no more than that is counted (get_contents, the tail of get_cluster).
NoOverrun ==
  /\ gotsize <= Wanted
  /\ \A b \in Memory : b >= Wanted => buffer[b] = Untouched

\* When no read has failed, a count below what was asked for means that the
\* chain really ends there, at an invalid entry, and every cluster before the
\* end has been read.  This needs CheckFrom > Clusters + 2: the entry CheckFrom
\* itself, met after cluster CheckFrom - 1, drops the run.
ShortReadIsExact ==
  pc \in {"done", "returned"} /\ ~failed /\ gotsize # Wanted =>
    /\ gotsize = Len(path) * bytesperclust
    /\ CheckClust(fat[path[Len(path)]])

\* What the steps keep: the run being collected is the end of the path, its
\* bytes are the ones not yet counted, and what is counted and what is still
\* wanted make up what was asked for.
RunInv ==
  /\ pc = "begin" => curclust = start /\ gotsize = 0 /\ path = <<>>
  /\ pc # "begin" => path # <<>>
  /\ size > 0 => start \in ClusterNums /\ path \in Seq(ClusterNums)
  /\ pc \in {"search", "getit", "next"} => gotsize + filesize = Wanted
  /\ pc \in {"search", "getit"} =>
       /\ curclust <= endclust
       /\ actsize = (endclust - curclust + 1) * bytesperclust
       /\ actsize - bytesperclust <= filesize
       /\ gotsize + actsize = Len(path) * bytesperclust
       /\ \A k \in 1..Len(path) :
            k >= Len(path) - (endclust - curclust) => path[k] = endclust - (Len(path) - k)
  /\ pc = "getit" => actsize < filesize
  /\ pc = "next" => gotsize = Len(path) * bytesperclust /\ path[Len(path)] = endclust
                    /\ filesize > 0
IInv == RunInv /\ CacheCoherent /\ ContentIsFile /\ NoOverrun

\* Every call returns, also when the chain runs in circles: each run read takes
\* at least one cluster off filesize (get_contents, do ... while (1)).
Terminates == <>(pc = "returned")

\* fat.c:382 says of get_contents: "Return the number of bytes read or -1 on
\* fatal errors."  The count is gotsize.
ReadErrorIsReported == pc = "done" /\ failed => gotsize = -1
=============================================================================
