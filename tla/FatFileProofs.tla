--------------------------- MODULE FatFileProofs ----------------------------
(***************************************************************************)
(* Proofs about reading a file from a FAT volume, for every volume, every  *)
(* geometry, every FAT and every size a directory entry may claim.         *)
(***************************************************************************)
EXTENDS FatFile, FatEntry, TLAPS, SequenceTheorems

\* A cluster holds at least one byte.
LEMMA ClusterBytes == bytesperclust \in Nat \ {0}
<1>1. \A a, b \in Nat \ {0} : a * b \in Nat \ {0}  OBVIOUS
<1> QED  BY <1>1, SizeAssumption DEF bytesperclust

\* Two clusters of a file do not share a byte of the buffer.
LEMMA ClusterOrder ==
  ASSUME NEW a \in Int, NEW b \in Int, NEW C \in Nat \ {0}, NEW o \in 0..(C - 1),
         a * C + o >= b * C
  PROVE  a >= b
<1> SUFFICES ASSUME a + 1 <= b PROVE FALSE  OBVIOUS
<1>1. \A d \in Nat : d * C >= 0  OBVIOUS
<1>2. (b - (a + 1)) * C >= 0  BY <1>1
<1>3. (b - (a + 1)) * C = b * C - a * C - C  OBVIOUS
<1>4. o <= C - 1 /\ o \in Int /\ a * C \in Int /\ b * C \in Int  OBVIOUS
<1> QED  BY <1>2, <1>3, <1>4

\* Division with remainder.
LEMMA Division ==
  ASSUME NEW a \in Nat, NEW d \in Nat \ {0}
  PROVE  /\ a % d \in 0..(d - 1) /\ a \div d \in Nat
         /\ a = (a \div d) * d + (a % d)
<1> DEFINE q == a \div d
<1>0. d \in Nat /\ d > 0  OBVIOUS
<1>1. a % d \in 0..(d - 1)  BY <1>0
<1>2. a = d * q + (a % d) /\ q \in Int  BY <1>0
<1> HIDE DEF q
<1>3. q >= 0
  <2> SUFFICES ASSUME q <= -1 PROVE FALSE  BY <1>2
  <2>1. \A t \in Int : t <= -1 => d * t <= -d  BY <1>0
  <2> QED  BY <2>1, <1>0, <1>1, <1>2
<1>4. d * q = q * d  BY <1>0, <1>2
<1>5. a = q * d + (a % d)  BY <1>2, <1>4
<1>6. q \in Nat  BY <1>2, <1>3
<1> QED  BY <1>1, <1>5, <1>6 DEF q

\* Slots of fatbuf.
LEMMA SlotRange ==
  ASSUME NEW e \in Nat
  PROVE  /\ e % EntriesPerBuf \in Slots
         /\ e \div EntriesPerBuf \in Nat
         /\ e = (e \div EntriesPerBuf) * EntriesPerBuf + (e % EntriesPerBuf)
BY SizeAssumption, Division DEF Slots

\* A stretch of a FAT holds FAT values.
LEMMA StretchType ==
  ASSUME fat \in [ClusterNums -> FatValues], NEW n
  PROVE  FatStretch(n) \in [Slots -> FatValues]
BY DEF FatStretch, FatValues

\* get_fatent keeps the cache a stretch of FAT values and, unless a read failed,
\* a copy of the stretch on the card, which then holds the entry asked for.
LEMMA GetFatentCorrect ==
  ASSUME TypeOK, CacheCoherent, fat' = fat,
         NEW e \in ClusterNums, GetFatent(e)
  PROVE  /\ fatbuf' \in [Slots -> FatValues] /\ fatbufnum' \in Nat \cup {-1}
         /\ failed' \in BOOLEAN /\ (failed => failed')
         /\ CacheCoherent'
         /\ Entry(fatbuf', e) \in FatValues
         /\ ~failed' => Entry(fatbuf', e) = fat[e]
<1> DEFINE q == e \div EntriesPerBuf
<1>0. e \in Nat  BY SizeAssumption DEF ClusterNums
<1>1. e % EntriesPerBuf \in Slots /\ q \in Nat
      /\ e = q * EntriesPerBuf + (e % EntriesPerBuf)
  BY <1>0, SlotRange
<1> HIDE DEF q
<1>2. FatStretch(q) \in [Slots -> FatValues]  BY StretchType DEF TypeOK
<1>3. \A n : FatStretch(n)' = FatStretch(n)  BY DEF FatStretch
<1>4. FatStretch(q)[e % EntriesPerBuf] = fat[e]
  <2>1. \A x \in Slots : q * EntriesPerBuf + x = e => FatStretch(q)[x] = fat[e]
    BY DEF FatStretch
  <2> DEFINE y == e % EntriesPerBuf
  <2>2. y \in Slots /\ q * EntriesPerBuf + y = e  BY <1>1
  <2> HIDE DEF y
  <2>3. FatStretch(q)[y] = fat[e]  BY <2>1, <2>2
  <2> QED  BY <2>3 DEF y
<1>5. IF Cached(q) THEN UNCHANGED <<cacheVars, failed>> ELSE Refill(q)
  BY DEF GetFatent, q
<1>6. /\ fatbuf' \in [Slots -> FatValues] /\ fatbufnum' = q
      /\ failed' \in BOOLEAN /\ (failed => failed')
      /\ ~failed' => fatbuf' = FatStretch(q)
  <2>1. CASE Cached(q)
    BY <2>1, <1>1, <1>5 DEF Cached, cacheVars, TypeOK, CacheCoherent
  <2>2. CASE ~Cached(q)
    <3>0. Refill(q)  BY <2>2, <1>5
    <3>1. PICK n \in ReadCounts(EntriesPerBuf) :
            /\ fatbuf' = [i \in Slots |-> IF i < n THEN FatStretch(q)[i] ELSE fatbuf[i]]
            /\ fatbufnum' = q
            /\ failed' = (failed \/ n < EntriesPerBuf)
      BY <3>0 DEF Refill
    <3>2. fatbuf' \in [Slots -> FatValues]  BY <3>1, <1>2 DEF TypeOK
    <3>3. n \in Nat  BY SizeAssumption DEF ReadCounts
    <3>4. ASSUME n >= EntriesPerBuf PROVE fatbuf' = FatStretch(q)
      <4>1. \A i \in Slots : i < n  BY <3>3, <3>4, SizeAssumption DEF Slots
      <4>2. fatbuf' = [i \in Slots |-> FatStretch(q)[i]]  BY <3>1, <4>1
      <4> QED  BY <4>2, <1>2
    <3>5. failed \in BOOLEAN /\ EntriesPerBuf \in Nat  BY SizeAssumption DEF TypeOK
    <3>6. ~failed' => ~(n < EntriesPerBuf)  BY <3>1
    <3>7. ~failed' => n >= EntriesPerBuf  BY <3>3, <3>5, <3>6
    <3>8. failed' \in BOOLEAN /\ (failed => failed')  BY <3>1
    <3> QED  BY <3>1, <3>2, <3>4, <3>7, <3>8
  <2> QED  BY <2>1, <2>2
<1>7. CacheCoherent'
  BY <1>3, <1>6 DEF CacheCoherent
<1> QED  BY <1>1, <1>4, <1>6, <1>7 DEF Entry

\* The number of whole sectors asked for never exceeds the number wanted, and
\* equals it when it fits a __u16.
LEMMA SectorCounts ==
  ASSUME NEW sz \in Nat
  PROVE  /\ SectorCount(sz) \in Nat /\ sz \div SECTOR_SIZE \in Nat
         /\ SectorCount(sz) * SECTOR_SIZE <= (sz \div SECTOR_SIZE) * SECTOR_SIZE
         /\ (sz \div SECTOR_SIZE) * SECTOR_SIZE <= sz
         /\ sz < CountModulus * SECTOR_SIZE => SectorCount(sz) = sz \div SECTOR_SIZE
<1> DEFINE S == SECTOR_SIZE
           M == CountModulus
           i == sz \div S
<1>0. S \in Nat \ {0} /\ M \in Nat \ {0}  BY SizeAssumption
<1> HIDE DEF S, M
<1>1. sz = i * S + (sz % S) /\ sz % S \in 0..(S - 1) /\ i \in Nat  BY <1>0, Division
<1> HIDE DEF i
<1>4. i * S <= sz
  <2>1. i * S \in Nat  BY <1>0, <1>1
  <2>2. \A u, v, w \in Nat : u = v + w => v <= u  OBVIOUS
  <2> DEFINE x == sz % S
  <2>3. sz = i * S + x /\ x \in Nat  BY <1>0, <1>1
  <2> HIDE DEF x
  <2> QED  BY <2>1, <2>2, <2>3
<1>5. i % M \in 0..(M - 1) /\ i = (i \div M) * M + (i % M) /\ i \div M \in Nat
  BY <1>0, <1>1, Division
<1> DEFINE c == i % M
<1> HIDE DEF c
<1>7. c \in 0..(M - 1) /\ c <= i
  <2>1. \A t \in Nat : t * M \in Nat  BY <1>0
  <2>2. (i \div M) * M \in Nat  BY <2>1, <1>5
  <2> QED  BY <2>2, <1>0, <1>1, <1>5 DEF c
<1>9. \A d \in Nat : d * S >= 0  BY <1>0
<1>10. (i - c) * S >= 0  BY <1>7, <1>9, <1>1, <1>0
<1>11. (i - c) * S = i * S - c * S  BY <1>0, <1>1, <1>7
<1>12. c * S <= i * S /\ c \in Nat
  BY <1>10, <1>11, <1>0, <1>1, <1>7
<1>13. ASSUME sz < M * S PROVE c = i
  <2>1. i < M
    <3> SUFFICES ASSUME i >= M PROVE FALSE  BY <1>0, <1>1
    <3>1. (i - M) * S >= 0  BY <1>9, <1>0, <1>1
    <3>2. (i - M) * S = i * S - M * S  BY <1>0, <1>1
    <3> QED  BY <3>1, <3>2, <1>13, <1>4, <1>0, <1>1
  <2> QED  BY <2>1, <1>0, <1>1 DEF c
<1> QED  BY <1>1, <1>4, <1>12, <1>13 DEF SectorCount, c, i, S, M

Values == Nat \cup {Untouched, Garbage}

\* get_cluster touches only the sz bytes at buf + off and, when its reads
\* succeed and the count fits, those hold the card's bytes from cluster cl on.
LEMMA GotCorrect ==
  ASSUME NEW buf \in [Memory -> Values], NEW cl \in Nat, NEW off \in Nat, NEW sz \in Nat,
         NEW got \in Got(buf, cl, off, sz)
  PROVE  /\ got.bytes \in [Memory -> Values] /\ got.ok \in BOOLEAN
         /\ \A b \in Memory : b < off \/ b >= off + sz => got.bytes[b] = buf[b]
         /\ got.ok /\ sz < CountModulus * SECTOR_SIZE =>
              \A b \in Memory : off <= b /\ b < off + sz =>
                got.bytes[b] = cl * bytesperclust + (b - off)
<1> DEFINE i == (sz \div SECTOR_SIZE) * SECTOR_SIZE
<1>1. PICK whole \in ReadCounts(SectorCount(sz)), rest \in ReadCounts(1) :
        got = [bytes |-> GetCluster(buf, cl, off, sz, whole, rest = 1),
               ok |-> whole = SectorCount(sz) /\ rest = 1]
  BY DEF Got
<1>2. /\ SectorCount(sz) \in Nat /\ sz \div SECTOR_SIZE \in Nat
      /\ SectorCount(sz) * SECTOR_SIZE <= i /\ i <= sz
      /\ sz < CountModulus * SECTOR_SIZE => SectorCount(sz) * SECTOR_SIZE = i
  BY SectorCounts
<1>3. SECTOR_SIZE \in Nat \ {0} /\ bytesperclust \in Nat /\ cl * bytesperclust \in Nat
  BY SizeAssumption, ClusterBytes
<1>4. whole \in Nat /\ whole <= SectorCount(sz)  BY <1>2 DEF ReadCounts
<1>5. whole * SECTOR_SIZE <= SectorCount(sz) * SECTOR_SIZE
  <2>1. \A d \in Nat : d * SECTOR_SIZE >= 0  BY <1>3
  <2>2. (SectorCount(sz) - whole) * SECTOR_SIZE >= 0  BY <2>1, <1>2, <1>4
  <2>3. (SectorCount(sz) - whole) * SECTOR_SIZE
          = SectorCount(sz) * SECTOR_SIZE - whole * SECTOR_SIZE  BY <1>2, <1>3, <1>4
  <2> QED  BY <2>2, <2>3, <1>2, <1>3, <1>4
<1>6. i \in Nat /\ whole * SECTOR_SIZE \in Nat /\ SectorCount(sz) * SECTOR_SIZE \in Nat
  BY <1>2, <1>3, <1>4
<1> DEFINE w == whole * SECTOR_SIZE
<1>7. w \in Nat /\ w <= i /\ (got.ok /\ sz < CountModulus * SECTOR_SIZE => w = i)
  <2>1. got.ok => whole = SectorCount(sz)  BY <1>1
  <2> QED  BY <2>1, <1>2, <1>5, <1>6
<1>8. got.bytes = [b \in Memory |->
         IF off + i <= b /\ b < off + sz
         THEN IF rest = 1 THEN cl * bytesperclust + (b - off) ELSE Garbage
         ELSE IF off <= b /\ b < off + w
         THEN cl * bytesperclust + (b - off)
         ELSE buf[b]]
  BY <1>1 DEF GetCluster
<1>9. got.ok = (whole = SectorCount(sz) /\ rest = 1)  BY <1>1
<1> HIDE DEF i, w
<1>10. Memory \subseteq Nat  BY SizeAssumption DEF Memory
<1>11. got.bytes \in [Memory -> Values]
  <2>1. \A b \in Memory : off <= b => cl * bytesperclust + (b - off) \in Nat
    BY <1>3, <1>10
  <2>2. \A b \in Memory : off + i <= b => off <= b  BY <1>6, <1>10 DEF i
  <2> QED  BY <1>8, <2>1, <2>2 DEF Values
<1>12. \A b \in Memory : b < off \/ b >= off + sz => got.bytes[b] = buf[b]
  BY <1>8, <1>7, <1>2, <1>6, <1>10 DEF i
<1>13. ASSUME got.ok, sz < CountModulus * SECTOR_SIZE, NEW b \in Memory,
              off <= b, b < off + sz
       PROVE  got.bytes[b] = cl * bytesperclust + (b - off)
  <2>1. w = i /\ rest = 1  BY <1>7, <1>9, <1>13
  <2>2. off + i <= b \/ b < off + w  BY <2>1, <1>6, <1>10 DEF i
  <2> QED  BY <1>8, <1>13, <2>1, <2>2
<1> QED  BY <1>9, <1>11, <1>12, <1>13

-----------------------------------------------------------------------------
(* What every step keeps, whatever fails.                                  *)

Safe == TypeOK /\ RunInv /\ CacheCoherent /\ NoOverrun

LEMMA WantedBound ==
  ASSUME TypeOK
  PROVE  /\ Wanted \in Nat /\ Wanted <= size /\ Wanted <= BufferBytes
         /\ size \in Sizes /\ size \in Nat /\ size <= BufferBytes /\ (Wanted > 0 => size > 0)
BY SizeAssumption DEF TypeOK, Wanted

\* A value that CHECK_CLUST lets through is a data cluster.
LEMMA ValidIsCluster ==
  ASSUME NEW v \in FatValues, ~CheckClust(v)
  PROVE  v \in ClusterNums
BY SizeAssumption DEF CheckClust, FatValues, ClusterNums

\* While bytes are wanted, the run ends with the last cluster of the path.
LEMMA EndOfPath ==
  ASSUME TypeOK, RunInv, pc \in {"search", "getit", "next"}, filesize > 0
  PROVE  /\ path \in Seq(ClusterNums) /\ Len(path) \in Nat \ {0}
         /\ endclust = path[Len(path)] /\ endclust \in ClusterNums /\ endclust \in Nat
<1>1. size > 0  BY WantedBound DEF RunInv, TypeOK
<1>2. path \in Seq(ClusterNums) /\ path # <<>>  BY <1>1 DEF RunInv
<1>3. Len(path) \in Nat \ {0}  BY <1>2, EmptySeq, LenProperties
<1>4. Len(path) \in 1..Len(path)  BY <1>3
<1>5. endclust \in Int  BY SizeAssumption DEF TypeOK, FatValues, ClusterNums
<1>6. curclust \in Int  BY SizeAssumption DEF TypeOK, FatValues, ClusterNums
<1>7. ASSUME pc = "next" PROVE path[Len(path)] = endclust  BY <1>7 DEF RunInv
<1>8. ASSUME pc \in {"search", "getit"} PROVE path[Len(path)] = endclust
  <2>1. curclust <= endclust
        /\ \A k \in 1..Len(path) :
             k >= Len(path) - (endclust - curclust) => path[k] = endclust - (Len(path) - k)
    BY <1>8 DEF RunInv
  <2>2. path[Len(path)] = endclust - (Len(path) - Len(path))
    BY <2>1, <1>3, <1>4, <1>5, <1>6
  <2> QED  BY <2>2, <1>3, <1>5
<1>9. endclust = path[Len(path)]  BY <1>7, <1>8
<1> QED  BY <1>2, <1>3, <1>4, <1>9, ElementOfSeq, SizeAssumption DEF ClusterNums

LEMMA InitSafe == Init => Safe
<1> SUFFICES ASSUME Init PROVE Safe  OBVIOUS
<1> USE SizeAssumption DEF Init
<1>1. start \in ClusterNums \cup {0} /\ (size > 0 => start \in ClusterNums)  OBVIOUS
<1>2. PICK v \in StaleEntries : fatbuf = [i \in Slots |-> v]  OBVIOUS
<1>3. fatbuf \in [Slots -> FatValues]  BY <1>2
<1>4. curclust \in FatValues /\ endclust \in FatValues  BY <1>1 DEF FatValues
<1>5. size \in Nat /\ path \in Seq(ClusterNums \cup {0}) /\ path \in Seq(ClusterNums)
  OBVIOUS
<1>6. TypeOK  BY <1>1, <1>3, <1>4, <1>5 DEF TypeOK, Phases
<1>7. RunInv  BY <1>1, <1>5 DEF RunInv
<1>8. CacheCoherent  BY DEF CacheCoherent
<1>9. NoOverrun  BY <1>6, WantedBound DEF NoOverrun
<1> QED  BY <1>6, <1>7, <1>8, <1>9 DEF Safe

\* The parameters of the call do not change.
LEMMA EntryStable ==
  ASSUME UNCHANGED entryVars
  PROVE  /\ fat' = fat /\ start' = start /\ size' = size /\ maxsize' = maxsize
         /\ Wanted' = Wanted
BY DEF entryVars, Wanted

LEMMA BeginSafe == ASSUME Safe, Begin PROVE Safe'
<1> USE DEF Safe, Begin
<1>0. /\ fat' = fat /\ start' = start /\ size' = size /\ maxsize' = maxsize
      /\ Wanted' = Wanted
  BY EntryStable
<1>1. /\ UNCHANGED <<fatbuf, fatbufnum, curclust, gotsize, buffer, result, failed>>
      /\ curclust = start /\ gotsize = 0 /\ filesize' = Wanted /\ pc' = "search"
      /\ path' = <<start>> /\ endclust' = curclust /\ actsize' = bytesperclust
  BY DEF cacheVars, RunInv
<1>2. bytesperclust \in Nat \ {0} /\ Wanted \in Nat /\ (Wanted > 0 => size > 0) /\ size \in Nat
  BY ClusterBytes, WantedBound
<1>3. start \in ClusterNums \cup {0} /\ (size > 0 => start \in ClusterNums)
  BY DEF TypeOK, RunInv
<1>4. path' \in Seq(ClusterNums \cup {0}) /\ (size > 0 => path' \in Seq(ClusterNums))
      /\ Len(path') = 1 /\ path'[1] = start /\ path' # <<>>
  BY <1>1, <1>3
<1>5. start \in FatValues /\ start \in Nat
  BY <1>3, SizeAssumption DEF FatValues, ClusterNums
<1>6. TypeOK'  BY <1>0, <1>1, <1>2, <1>4, <1>5 DEF TypeOK, Phases
<1>7. RunInv'
  <2>1. actsize' = (endclust' - curclust' + 1) * bytesperclust
    BY <1>1, <1>2, <1>5
  <2>2. gotsize' + actsize' = Len(path') * bytesperclust
    BY <1>1, <1>2, <1>4
  <2>3. \A k \in 1..Len(path') : path'[k] = endclust' - (Len(path') - k)
    BY <1>1, <1>4, <1>5
  <2> QED  BY <1>0, <1>1, <1>2, <1>3, <1>4, <1>5, <2>1, <2>2, <2>3 DEF RunInv, bytesperclust
<1>8. CacheCoherent'  BY <1>0, <1>1 DEF CacheCoherent, FatStretch
<1>9. NoOverrun'  BY <1>0, <1>1, <1>2 DEF NoOverrun
<1> QED  BY <1>6, <1>7, <1>8, <1>9

LEMMA SearchSafe == ASSUME Safe, Search PROVE Safe'
<1> USE DEF Safe
<1>0. /\ fat' = fat /\ start' = start /\ size' = size /\ maxsize' = maxsize
      /\ Wanted' = Wanted
  BY EntryStable DEF Search
<1>1. /\ UNCHANGED <<curclust, filesize, gotsize, buffer, result>>
      /\ pc = "search" /\ actsize < filesize /\ GetFatent(endclust)
  BY DEF Search
<1>2. bytesperclust \in Nat \ {0} /\ actsize \in Nat /\ filesize \in Nat /\ gotsize \in Nat
      /\ filesize > 0
  BY <1>1, ClusterBytes DEF TypeOK
<1>3. /\ path \in Seq(ClusterNums) /\ Len(path) \in Nat \ {0}
      /\ endclust = path[Len(path)] /\ endclust \in ClusterNums /\ endclust \in Nat
  BY <1>1, <1>2, EndOfPath
<1>4. /\ fatbuf' \in [Slots -> FatValues] /\ fatbufnum' \in Nat \cup {-1}
      /\ failed' \in BOOLEAN /\ CacheCoherent' /\ Entry(fatbuf', endclust) \in FatValues
  BY <1>0, <1>1, <1>3, GetFatentCorrect
<1> DEFINE newclust == Entry(fatbuf', endclust)
<1>5. newclust \in Int  BY <1>4, SizeAssumption DEF FatValues, ClusterNums
<1>6. IF newclust - 1 # endclust
      THEN pc' = "getit" /\ UNCHANGED <<endclust, actsize, path>>
      ELSE IF CheckClust(newclust)
      THEN pc' = "done" /\ UNCHANGED <<endclust, actsize, path>>
      ELSE /\ endclust' = newclust
           /\ actsize' = actsize + bytesperclust
           /\ path' = Append(path, newclust)
           /\ pc' = "search"
  BY DEF Search
<1> HIDE DEF newclust
<1>7. NoOverrun'  BY <1>0, <1>1 DEF NoOverrun
<1>8. curclust \in Int  BY SizeAssumption DEF TypeOK, FatValues, ClusterNums
<1>9. CASE pc' \in {"getit", "done"} /\ UNCHANGED <<endclust, actsize, path>>
  <2>1. TypeOK'  BY <1>0, <1>1, <1>4, <1>9 DEF TypeOK, Phases
  <2>2. RunInv'  BY <1>0, <1>1, <1>9 DEF RunInv, bytesperclust
  <2> QED  BY <2>1, <2>2, <1>4, <1>7
<1>10. CASE /\ endclust' = newclust /\ newclust - 1 = endclust /\ ~CheckClust(newclust)
            /\ actsize' = actsize + bytesperclust
            /\ path' = Append(path, newclust) /\ pc' = "search"
  <2> DEFINE n == Len(path)
  <2>0. /\ actsize' = actsize + bytesperclust /\ endclust' = endclust + 1
        /\ gotsize' = gotsize /\ filesize' = filesize /\ curclust' = curclust
    BY <1>1, <1>3, <1>5, <1>10
  <2>1. newclust \in ClusterNums /\ newclust \in FatValues
    BY <1>4, <1>10, ValidIsCluster DEF newclust
  <2>2. /\ path' \in Seq(ClusterNums) /\ path' \in Seq(ClusterNums \cup {0})
        /\ Len(path') = n + 1 /\ path'[n + 1] = newclust /\ path' # <<>>
        /\ \A k \in 1..n : path'[k] = path[k]
    BY <2>1, <1>3, <1>10, AppendProperties
  <2>3. TypeOK'  BY <1>0, <1>1, <1>2, <1>4, <1>10, <2>1, <2>2 DEF TypeOK, Phases
  <2>4. /\ curclust <= endclust
        /\ actsize = (endclust - curclust + 1) * bytesperclust
        /\ gotsize + actsize = n * bytesperclust
        /\ gotsize + filesize = Wanted
        /\ size > 0 => start \in ClusterNums
        /\ \A k \in 1..n : k >= n - (endclust - curclust) => path[k] = endclust - (n - k)
    BY <1>1 DEF RunInv
  <2>5. actsize' = (endclust' - curclust' + 1) * bytesperclust
    <3>1. \A d \in Int : (d + 1) * bytesperclust = d * bytesperclust + bytesperclust
      BY <1>2
    <3>2. endclust' - curclust' + 1 = (endclust - curclust + 1) + 1
      BY <2>0, <1>3, <1>8
    <3>3. endclust - curclust + 1 \in Int  BY <1>3, <1>8
    <3> QED  BY <3>1, <3>2, <3>3, <2>0, <2>4
  <2>6. gotsize' + actsize' = Len(path') * bytesperclust
    <3>1. (n + 1) * bytesperclust = n * bytesperclust + bytesperclust
      BY <1>2, <1>3
    <3>2. gotsize + actsize = n * bytesperclust  BY <2>4
    <3>3. gotsize' + actsize' = (gotsize + actsize) + bytesperclust  BY <2>0, <1>2
    <3>4. Len(path') = n + 1  BY <2>2
    <3> QED  BY <3>1, <3>2, <3>3, <3>4
  <2>7. ASSUME NEW k \in 1..Len(path'), k >= Len(path') - (endclust' - curclust')
        PROVE  path'[k] = endclust' - (Len(path') - k)
    <3>1. CASE k = n + 1  BY <3>1, <2>2, <1>3, <1>5, <1>10
    <3>2. CASE k \in 1..n
      <4>1. k >= n - (endclust - curclust)
        BY <3>2, <2>7, <2>2, <1>1, <1>3, <1>5, <1>8, <1>10
      <4> QED  BY <4>1, <3>2, <2>2, <2>4, <1>3, <1>5, <1>10
    <3> QED  BY <3>1, <3>2, <2>2, <1>3
  <2>8. actsize' - bytesperclust <= filesize' /\ curclust' <= endclust'
    <3>1. actsize + bytesperclust - bytesperclust = actsize  BY <1>2
    <3>2. actsize < filesize  BY <1>1
    <3>3. curclust <= endclust  BY <2>4
    <3>4. curclust' <= endclust'  BY <3>3, <1>3, <1>8, <2>0
    <3> QED  BY <3>1, <3>2, <3>4, <1>2, <2>0
  <2>9. RunInv'
    BY <1>0, <1>1, <1>10, <2>2, <2>4, <2>5, <2>6, <2>7, <2>8 DEF RunInv, bytesperclust
  <2> QED  BY <2>3, <2>9, <1>4, <1>7
<1> QED  BY <1>6, <1>9, <1>10

LEMMA GetTailSafe == ASSUME Safe, GetTail PROVE Safe'
<1> USE DEF Safe
<1> DEFINE run == actsize - bytesperclust
           rest == filesize - run
<1>0. /\ fat' = fat /\ start' = start /\ size' = size /\ maxsize' = maxsize
      /\ Wanted' = Wanted
  BY EntryStable DEF GetTail
<1>1. /\ UNCHANGED <<fatbuf, fatbufnum, curclust, endclust, result, path>>
      /\ pc = "search" /\ actsize >= filesize /\ pc' = "done"
  BY DEF GetTail, cacheVars
<1>2. PICK got \in Got(buffer, curclust, gotsize, run) :
        \E got2 \in Got(got.bytes, endclust, gotsize + run, rest) :
          /\ buffer' = got2.bytes
          /\ failed' = (failed \/ ~got.ok \/ ~got2.ok)
          /\ gotsize' = gotsize + run + rest
          /\ filesize' = rest
          /\ actsize' = rest
  BY DEF GetTail
<1>3. PICK got2 \in Got(got.bytes, endclust, gotsize + run, rest) :
          /\ buffer' = got2.bytes
          /\ failed' = (failed \/ ~got.ok \/ ~got2.ok)
          /\ gotsize' = gotsize + run + rest
          /\ filesize' = rest
          /\ actsize' = rest
  BY <1>2
<1>4. /\ bytesperclust \in Nat \ {0} /\ actsize \in Nat /\ filesize \in Nat /\ gotsize \in Nat
      /\ curclust \in Nat /\ endclust \in Nat /\ Wanted \in Nat
  BY ClusterBytes, WantedBound, SizeAssumption DEF TypeOK, FatValues, ClusterNums
<1>5. /\ curclust <= endclust /\ actsize = (endclust - curclust + 1) * bytesperclust
      /\ run <= filesize /\ gotsize + filesize = Wanted
  BY <1>1 DEF RunInv
<1>6. run \in Nat /\ rest \in Nat
  <2>1. \A d \in Nat : d * bytesperclust \in Nat  BY <1>4
  <2>2. (endclust - curclust) * bytesperclust \in Nat  BY <2>1, <1>4, <1>5
  <2>3. (endclust - curclust + 1) * bytesperclust
          = (endclust - curclust) * bytesperclust + bytesperclust
    BY <1>4
  <2> QED  BY <2>2, <2>3, <1>4, <1>5
<1>7. gotsize' = Wanted  BY <1>3, <1>4, <1>5, <1>6
<1> HIDE DEF run, rest
<1>8. buffer \in [Memory -> Values]  BY DEF TypeOK, Values
<1>9. /\ got.bytes \in [Memory -> Values] /\ got.ok \in BOOLEAN
      /\ \A b \in Memory : b < gotsize \/ b >= gotsize + run => got.bytes[b] = buffer[b]
  BY <1>4, <1>6, <1>8, GotCorrect
<1>10. /\ got2.bytes \in [Memory -> Values] /\ got2.ok \in BOOLEAN
       /\ \A b \in Memory : b < gotsize + run \/ b >= gotsize + run + rest =>
            got2.bytes[b] = got.bytes[b]
  BY <1>4, <1>6, <1>9, GotCorrect
<1>11. failed' \in BOOLEAN  BY <1>3, <1>9, <1>10 DEF TypeOK
<1>12. TypeOK'
  BY <1>0, <1>1, <1>3, <1>6, <1>7, <1>4, <1>10, <1>11 DEF TypeOK, Phases, Values
<1>13. RunInv'  BY <1>0, <1>1 DEF RunInv
<1>14. CacheCoherent'  BY <1>0, <1>1, <1>3, <1>11 DEF CacheCoherent, FatStretch, TypeOK
<1>15. NoOverrun'
  <2>1. \A b \in Memory : b \in Nat  BY SizeAssumption DEF Memory
  <2>2. gotsize + run + rest = Wanted  BY <1>3, <1>7
  <2>3. \A b \in Memory : b >= Wanted => buffer'[b] = Untouched
    BY <2>1, <2>2, <1>3, <1>4, <1>6, <1>9, <1>10 DEF NoOverrun
  <2> QED  BY <2>3, <1>0, <1>4, <1>7 DEF NoOverrun, Memory
<1> QED  BY <1>12, <1>13, <1>14, <1>15

LEMMA GetItSafe == ASSUME Safe, GetIt PROVE Safe'
<1> USE DEF Safe
<1>0. /\ fat' = fat /\ start' = start /\ size' = size /\ maxsize' = maxsize
      /\ Wanted' = Wanted
  BY EntryStable DEF GetIt
<1>1. /\ UNCHANGED <<fatbuf, fatbufnum, curclust, endclust, actsize, result, path>>
      /\ pc = "getit" /\ pc' = "next"
      /\ gotsize' = gotsize + actsize /\ filesize' = filesize - actsize
  BY DEF GetIt, cacheVars
<1>2. PICK got \in Got(buffer, curclust, gotsize, actsize) :
        buffer' = got.bytes /\ failed' = (failed \/ ~got.ok)
  BY DEF GetIt
<1>3. /\ actsize \in Nat /\ filesize \in Nat /\ gotsize \in Nat
      /\ curclust \in Nat /\ endclust \in Nat /\ Wanted \in Nat
  BY WantedBound, SizeAssumption DEF TypeOK, FatValues, ClusterNums
<1>4. /\ gotsize + filesize = Wanted /\ gotsize + actsize = Len(path) * bytesperclust
      /\ actsize < filesize
  BY <1>1 DEF RunInv
<1>5. buffer \in [Memory -> Values]  BY DEF TypeOK, Values
<1>6. /\ got.bytes \in [Memory -> Values] /\ got.ok \in BOOLEAN
      /\ \A b \in Memory : b < gotsize \/ b >= gotsize + actsize => got.bytes[b] = buffer[b]
  BY <1>3, <1>5, GotCorrect
<1>7. failed' \in BOOLEAN  BY <1>2, <1>6 DEF TypeOK
<1>8. gotsize' \in Nat /\ filesize' \in Nat /\ filesize' > 0
      /\ gotsize' + filesize' = Wanted
  <2>1. gotsize + actsize + (filesize - actsize) = gotsize + filesize  BY <1>3
  <2> QED  BY <2>1, <1>1, <1>3, <1>4
<1>9. TypeOK'
  BY <1>0, <1>1, <1>2, <1>6, <1>7, <1>8 DEF TypeOK, Phases, Values
<1>10. endclust = path[Len(path)]  BY <1>1, <1>3, <1>4, EndOfPath
<1>11. RunInv'
  <2>1. /\ gotsize' = Len(path') * bytesperclust /\ path'[Len(path')] = endclust'
    BY <1>1, <1>4, <1>10
  <2> QED  BY <2>1, <1>0, <1>1, <1>8 DEF RunInv, bytesperclust
<1>12. CacheCoherent'  BY <1>0, <1>1, <1>2, <1>7 DEF CacheCoherent, FatStretch, TypeOK
<1>13. NoOverrun'
  <2>1. \A b \in Memory : b \in Nat  BY SizeAssumption DEF Memory
  <2>2. gotsize + actsize <= Wanted  BY <1>3, <1>4
  <2>3. \A b \in Memory : b >= Wanted => buffer'[b] = Untouched
    BY <2>1, <2>2, <1>2, <1>3, <1>6 DEF NoOverrun
  <2> QED  BY <2>2, <2>3, <1>0, <1>1 DEF NoOverrun, Memory
<1> QED  BY <1>9, <1>11, <1>12, <1>13

\* The value curclust takes, and what it is while no read has failed.
LEMMA NextRunSafe == ASSUME Safe, NextRun PROVE Safe'
<1> USE DEF Safe
<1>0. /\ fat' = fat /\ start' = start /\ size' = size /\ maxsize' = maxsize
      /\ Wanted' = Wanted
  BY EntryStable DEF NextRun
<1> DEFINE v == Entry(fatbuf', endclust)
<1>1. /\ UNCHANGED <<filesize, gotsize, buffer, result>>
      /\ pc = "next" /\ GetFatent(endclust) /\ curclust' = v
  BY DEF NextRun
<1>2. bytesperclust \in Nat \ {0} /\ filesize \in Nat /\ gotsize \in Nat
      /\ filesize > 0 /\ gotsize = Len(path) * bytesperclust
  BY <1>1, ClusterBytes DEF TypeOK, RunInv
<1>3. /\ path \in Seq(ClusterNums) /\ Len(path) \in Nat \ {0}
      /\ endclust = path[Len(path)] /\ endclust \in ClusterNums /\ endclust \in Nat
  BY <1>1, <1>2, EndOfPath
<1>4. /\ fatbuf' \in [Slots -> FatValues] /\ fatbufnum' \in Nat \cup {-1}
      /\ failed' \in BOOLEAN /\ CacheCoherent' /\ v \in FatValues
  BY <1>0, <1>1, <1>3, GetFatentCorrect
<1>5. IF CheckClust(v)
      THEN pc' = "done" /\ UNCHANGED <<endclust, actsize, path>>
      ELSE /\ pc' = "search" /\ actsize' = bytesperclust
           /\ endclust' = v /\ path' = Append(path, v)
  BY <1>1 DEF NextRun
<1> HIDE DEF v
<1>6. NoOverrun'  BY <1>0, <1>1 DEF NoOverrun
<1>7. CASE pc' = "done" /\ UNCHANGED <<endclust, actsize, path>>
  <2>1. TypeOK'  BY <1>0, <1>1, <1>4, <1>7 DEF TypeOK, Phases
  <2>2. RunInv'  BY <1>0, <1>1, <1>7 DEF RunInv
  <2> QED  BY <2>1, <2>2, <1>4, <1>6
<1>8. CASE /\ ~CheckClust(v) /\ pc' = "search" /\ actsize' = bytesperclust
           /\ endclust' = v /\ path' = Append(path, v)
  <2> DEFINE n == Len(path)
  <2>1. v \in ClusterNums  BY <1>4, <1>8, ValidIsCluster
  <2>2. /\ path' \in Seq(ClusterNums) /\ path' \in Seq(ClusterNums \cup {0})
        /\ Len(path') = n + 1 /\ path'[n + 1] = v /\ path' # <<>>
    BY <2>1, <1>3, <1>8, AppendProperties
  <2>3. TypeOK'  BY <1>0, <1>1, <1>2, <1>4, <1>8, <2>1, <2>2 DEF TypeOK, Phases
  <2>4. v \in Int  BY <2>1, SizeAssumption DEF ClusterNums
  <2>5. actsize' = (endclust' - curclust' + 1) * bytesperclust
    BY <1>1, <1>2, <1>8, <2>4
  <2>6. gotsize' + actsize' = Len(path') * bytesperclust
    <3>1. (n + 1) * bytesperclust = n * bytesperclust + bytesperclust
      BY <1>2, <1>3
    <3> QED  BY <3>1, <2>2, <1>1, <1>2, <1>8
  <2>7. ASSUME NEW k \in 1..Len(path'), k >= Len(path') - (endclust' - curclust')
        PROVE  path'[k] = endclust' - (Len(path') - k)
    <3>1. k = n + 1  BY <2>2, <2>4, <2>7, <1>1, <1>3, <1>8
    <3> QED  BY <3>1, <2>2, <2>4, <1>3, <1>8
  <2>8. gotsize' + filesize' = Wanted' /\ (size' > 0 => start' \in ClusterNums)
    BY <1>0, <1>1 DEF RunInv
  <2>9. actsize' - bytesperclust <= filesize' /\ curclust' <= endclust'
    BY <1>1, <1>2, <1>8, <2>4
  <2>10. RunInv'
    BY <1>8, <2>2, <2>5, <2>6, <2>7, <2>8, <2>9 DEF RunInv, bytesperclust
  <2> QED  BY <2>3, <2>10, <1>4, <1>6
<1> QED  BY <1>5, <1>7, <1>8

LEMMA ReturnSafe == ASSUME Safe, Return PROVE Safe'
<1> USE DEF Safe
<1>0. /\ fat' = fat /\ start' = start /\ size' = size /\ maxsize' = maxsize
      /\ Wanted' = Wanted
  BY EntryStable DEF Return
<1>1. /\ UNCHANGED <<cacheVars, loopVars, buffer, path, failed>>
      /\ result' = size /\ pc = "done" /\ pc' = "returned"
  BY DEF Return
<1>2. TypeOK'  BY <1>0, <1>1 DEF TypeOK, Phases, cacheVars, loopVars
<1>3. RunInv'  BY <1>0, <1>1 DEF RunInv, loopVars
<1>4. CacheCoherent'  BY <1>0, <1>1 DEF CacheCoherent, FatStretch, cacheVars
<1>5. NoOverrun'  BY <1>0, <1>1 DEF NoOverrun, loopVars
<1> QED  BY <1>2, <1>3, <1>4, <1>5

LEMMA StepSafe == Safe /\ [Next]_vars => Safe'
<1> SUFFICES ASSUME Safe, [Next]_vars PROVE Safe'  OBVIOUS
<1>1. CASE UNCHANGED vars
  BY <1>1 DEF Safe, TypeOK, RunInv, CacheCoherent, FatStretch, NoOverrun, Wanted, vars,
    entryVars, cacheVars, loopVars
<1> QED  BY <1>1, BeginSafe, SearchSafe, GetTailSafe, GetItSafe, NextRunSafe, ReturnSafe
  DEF Next

-----------------------------------------------------------------------------
(* The contents.                                                           *)

\* Every file fits the sector counts that a __u16 can hold.
CountsFit == \A s \in Sizes : s < CountModulus * SECTOR_SIZE

\* ContentIsFile without its condition.
ChainRead ==
  /\ path # <<>> => path[1] = start
  /\ \A k \in 1..(Len(path) - 1) : path[k + 1] = fat[path[k]]
  /\ \A k \in 1..Len(path) : \A o \in 0..(bytesperclust - 1) :
       LET b == (k - 1) * bytesperclust + o IN
       b < gotsize => buffer[b] = path[k] * bytesperclust + o
  /\ gotsize <= Len(path) * bytesperclust

LEMMA ContentByChain == ContentIsFile <=> (~failed => ChainRead)
BY DEF ContentIsFile, ChainRead

\* A path grown by the entry of its last cluster is still the chain, and its new
\* cluster has no byte counted yet.
LEMMA ChainGrows ==
  ASSUME Safe, ChainRead, fat' = fat, start' = start, gotsize' = gotsize, buffer' = buffer,
         path \in Seq(ClusterNums), path # <<>>,
         NEW v \in ClusterNums, v = fat[path[Len(path)]], path' = Append(path, v)
  PROVE  ChainRead'
<1> DEFINE n == Len(path)
<1>1. n \in Nat \ {0}  BY EmptySeq, LenProperties
<1>2. /\ Len(path') = n + 1 /\ path'[n + 1] = v /\ path' # <<>>
      /\ \A k \in 1..n : path'[k] = path[k]
  BY AppendProperties
<1>3. bytesperclust \in Nat \ {0} /\ gotsize \in Nat  BY ClusterBytes DEF Safe, TypeOK
<1>4. (n + 1) * bytesperclust = n * bytesperclust + bytesperclust
      /\ n * bytesperclust \in Int
  BY <1>1, <1>3
<1>5. path'[1] = start'  BY <1>1, <1>2 DEF ChainRead
<1>6. ASSUME NEW k \in 1..(Len(path') - 1) PROVE path'[k + 1] = fat'[path'[k]]
  <2>1. CASE k = n  BY <2>1, <1>1, <1>2
  <2>2. CASE k \in 1..(n - 1)
    <3>1. k \in 1..n /\ k + 1 \in 1..n  BY <2>2, <1>1
    <3> QED  BY <3>1, <2>2, <1>2 DEF ChainRead
  <2> QED  BY <2>1, <2>2, <1>1, <1>2
<1>7. ASSUME NEW k \in 1..Len(path'), NEW o \in 0..(bytesperclust - 1),
             (k - 1) * bytesperclust + o < gotsize'
      PROVE  buffer'[(k - 1) * bytesperclust + o] = path'[k] * bytesperclust + o
  <2>1. gotsize <= n * bytesperclust  BY DEF ChainRead
  <2>2. CASE k = n + 1
    <3>1. (k - 1) * bytesperclust = n * bytesperclust  BY <2>2, <1>1, <1>3
    <3> QED  BY <3>1, <2>1, <1>3, <1>4, <1>7
  <2>3. CASE k \in 1..n  BY <2>3, <1>2, <1>7 DEF ChainRead
  <2> QED  BY <2>2, <2>3, <1>1, <1>2
<1>8. gotsize' <= Len(path') * bytesperclust  BY <1>2, <1>3, <1>4 DEF ChainRead
<1> QED  BY <1>5, <1>6, <1>7, <1>8 DEF ChainRead, bytesperclust

LEMMA BeginContent == ASSUME Safe, Begin PROVE ContentIsFile'
<1>1. path' = <<curclust>> /\ curclust = start /\ start' = start /\ gotsize' = 0
  BY DEF Safe, RunInv, Begin, entryVars
<1>2. Len(path') = 1 /\ path'[1] = start'  BY <1>1
<1>3. bytesperclust \in Nat \ {0}  BY ClusterBytes
<1>4. \A k \in 1..1, o \in 0..(bytesperclust - 1) : ~((k - 1) * bytesperclust + o < 0)
  BY <1>3
<1> QED  BY <1>1, <1>2, <1>3, <1>4 DEF ContentIsFile, bytesperclust

\* Search and NextRun change no byte and lengthen the path along the chain.
LEMMA SearchContent == ASSUME Safe, ContentIsFile, Search PROVE ContentIsFile'
<1>0. fat' = fat /\ start' = start  BY EntryStable DEF Search
<1>1. /\ gotsize' = gotsize /\ buffer' = buffer
      /\ pc = "search" /\ actsize < filesize /\ GetFatent(endclust)
  BY DEF Search
<1>2. filesize > 0 /\ TypeOK /\ RunInv /\ CacheCoherent
  BY <1>1 DEF Safe, TypeOK
<1>3. /\ path \in Seq(ClusterNums) /\ Len(path) \in Nat \ {0}
      /\ endclust = path[Len(path)] /\ endclust \in ClusterNums
  BY <1>1, <1>2, EndOfPath
<1> DEFINE v == Entry(fatbuf', endclust)
<1>4. (failed => failed') /\ v \in FatValues /\ (~failed' => v = fat[endclust])
  BY <1>0, <1>1, <1>2, <1>3, GetFatentCorrect
<1>5. path' = path \/ (path' = Append(path, v) /\ ~CheckClust(v))  BY DEF Search
<1> HIDE DEF v
<1> SUFFICES ASSUME ~failed' PROVE ChainRead'  BY DEF ContentIsFile, ChainRead
<1>6. ChainRead  BY <1>4, ContentByChain
<1>7. CASE path' = path  BY <1>0, <1>1, <1>6, <1>7 DEF ChainRead, bytesperclust
<1>8. CASE path' = Append(path, v) /\ ~CheckClust(v)
  <2>1. v \in ClusterNums  BY <1>4, <1>8, ValidIsCluster
  <2>2. path # <<>>  BY <1>3, LenProperties
  <2> QED  BY <2>1, <2>2, <1>0, <1>1, <1>3, <1>4, <1>6, <1>8, ChainGrows
<1> QED  BY <1>5, <1>7, <1>8

LEMMA NextRunContent == ASSUME Safe, ContentIsFile, NextRun PROVE ContentIsFile'
<1>0. fat' = fat /\ start' = start  BY EntryStable DEF NextRun
<1>1. /\ gotsize' = gotsize /\ buffer' = buffer
      /\ pc = "next" /\ GetFatent(endclust)
  BY DEF NextRun
<1>2. filesize > 0 /\ TypeOK /\ RunInv /\ CacheCoherent
  BY <1>1 DEF Safe, RunInv
<1>3. /\ path \in Seq(ClusterNums) /\ Len(path) \in Nat \ {0}
      /\ endclust = path[Len(path)] /\ endclust \in ClusterNums
  BY <1>1, <1>2, EndOfPath
<1> DEFINE v == Entry(fatbuf', endclust)
<1>4. (failed => failed') /\ v \in FatValues /\ (~failed' => v = fat[endclust])
  BY <1>0, <1>1, <1>2, <1>3, GetFatentCorrect
<1>5. path' = path \/ (path' = Append(path, v) /\ ~CheckClust(v))
  <2>1. curclust' = v  BY DEF NextRun
  <2>2. IF CheckClust(curclust')
        THEN path' = path ELSE path' = Append(path, curclust')
    BY DEF NextRun
  <2> QED  BY <2>1, <2>2
<1> HIDE DEF v
<1> SUFFICES ASSUME ~failed' PROVE ChainRead'  BY DEF ContentIsFile, ChainRead
<1>6. ChainRead  BY <1>4, ContentByChain
<1>7. CASE path' = path  BY <1>0, <1>1, <1>6, <1>7 DEF ChainRead, bytesperclust
<1>8. CASE path' = Append(path, v) /\ ~CheckClust(v)
  <2>1. v \in ClusterNums  BY <1>4, <1>8, ValidIsCluster
  <2>2. path # <<>>  BY <1>3, LenProperties
  <2> QED  BY <2>1, <2>2, <1>0, <1>1, <1>3, <1>4, <1>6, <1>8, ChainGrows
<1> QED  BY <1>5, <1>7, <1>8

\* The bytes of a run of consecutive clusters are those of the clusters of the
\* path, wherever in the run they lie.
LEMMA RunBytes ==
  ASSUME Safe, pc \in {"search", "getit"}, filesize > 0,
         NEW k \in 1..Len(path), NEW o \in 0..(bytesperclust - 1),
         NEW b, b = (k - 1) * bytesperclust + o, b >= gotsize
  PROVE  curclust * bytesperclust + (b - gotsize) = path[k] * bytesperclust + o
<1> DEFINE n == Len(path)
           m == endclust - curclust + 1
           C == bytesperclust
<1>1. /\ n \in Nat /\ endclust \in Nat /\ k \in Nat /\ o \in Nat
  BY EndOfPath, ClusterBytes DEF Safe
<1>2. C \in Nat \ {0} /\ curclust \in Int /\ gotsize \in Nat /\ actsize \in Nat
  BY ClusterBytes, SizeAssumption DEF Safe, TypeOK, FatValues, ClusterNums
<1>3. /\ actsize = m * C /\ gotsize + actsize = n * C
      /\ (k >= n - (endclust - curclust) => path[k] = endclust - (n - k))
  BY DEF Safe, RunInv
<1>4. m \in Int  BY <1>1, <1>2
<1>5. gotsize = (n - m) * C
  <2>1. (n - m) * C = n * C - m * C  BY <1>1, <1>2, <1>4
  <2> QED  BY <2>1, <1>2, <1>3
<1>6. k - 1 >= n - m
  <2>1. o \in 0..(C - 1) /\ (k - 1) * C + o >= (n - m) * C  BY <1>5
  <2>2. k - 1 \in Int /\ n - m \in Int  BY <1>1, <1>4
  <2> QED  BY <2>1, <2>2, <1>2, ClusterOrder
<1>7. path[k] = endclust - (n - k)  BY <1>1, <1>2, <1>3, <1>6
<1> HIDE DEF C
<1>8. (curclust + (k - 1) - (n - m)) * C
        = curclust * C + (k - 1) * C - (n - m) * C
  BY <1>1, <1>2, <1>4
<1>9. curclust + (k - 1) - (n - m) = endclust - (n - k)  BY <1>1, <1>2
<1>10. /\ curclust * C \in Int /\ (k - 1) * C \in Int /\ (n - m) * C \in Int
       /\ b = (k - 1) * C + o
  BY <1>1, <1>2, <1>4 DEF C
<1>11. path[k] * C = curclust * C + (k - 1) * C - gotsize
  BY <1>5, <1>7, <1>8, <1>9
<1>12. curclust * C + (b - gotsize) = path[k] * C + o
  BY <1>1, <1>2, <1>10, <1>11
<1> QED  BY <1>12 DEF C

LEMMA GetItContent ==
  ASSUME Safe, CountsFit, ContentIsFile, GetIt PROVE ContentIsFile'
<1> DEFINE C == bytesperclust
<1>0. fat' = fat /\ start' = start  BY EntryStable DEF GetIt
<1>1. path' = path /\ gotsize' = gotsize + actsize /\ pc = "getit"
  BY DEF GetIt
<1>2. PICK got \in Got(buffer, curclust, gotsize, actsize) :
        buffer' = got.bytes /\ failed' = (failed \/ ~got.ok)
  BY DEF GetIt
<1>3. /\ actsize \in Nat /\ filesize \in Nat /\ gotsize \in Nat /\ curclust \in Nat
      /\ buffer \in [Memory -> Values]
  BY SizeAssumption DEF Safe, TypeOK, FatValues, ClusterNums, Values
<1>4. /\ actsize < filesize /\ gotsize + filesize = Wanted
      /\ gotsize + actsize = Len(path) * C
  BY <1>1 DEF Safe, RunInv
<1>5. Wanted \in Nat /\ Wanted <= size /\ size <= BufferBytes /\ size \in Nat /\ size \in Sizes
  BY WantedBound DEF Safe
<1>6. actsize < CountModulus * SECTOR_SIZE
  <2>1. size < CountModulus * SECTOR_SIZE  BY <1>5 DEF CountsFit
  <2>2. CountModulus * SECTOR_SIZE \in Nat  BY SizeAssumption
  <2>3. actsize < size  BY <1>3, <1>4, <1>5
  <2> QED  BY <2>1, <2>2, <2>3, <1>3, <1>5
<1>7. /\ \A b \in Memory : b < gotsize \/ b >= gotsize + actsize => got.bytes[b] = buffer[b]
      /\ got.ok => \A b \in Memory : gotsize <= b /\ b < gotsize + actsize =>
                     got.bytes[b] = curclust * C + (b - gotsize)
  BY <1>3, <1>6, GotCorrect
<1> SUFFICES ASSUME ~failed' PROVE ChainRead'  BY DEF ContentIsFile, ChainRead
<1>8. ChainRead /\ got.ok  BY <1>2, ContentByChain
<1>9. ASSUME NEW k \in 1..Len(path), NEW o \in 0..(C - 1),
             (k - 1) * C + o < gotsize + actsize
      PROVE  got.bytes[(k - 1) * C + o] = path[k] * C + o
  <2> DEFINE b == (k - 1) * C + o
  <2>1. C \in Nat \ {0}  BY ClusterBytes
  <2>2. k - 1 \in Nat /\ o \in Nat  BY <2>1
  <2>3. (k - 1) * C \in Nat  BY <2>1, <2>2
  <2>4. b \in Nat  BY <2>2, <2>3
  <2>5. b < gotsize => buffer[b] = path[k] * C + o  BY <1>8 DEF ChainRead
  <2>6. b >= gotsize => curclust * C + (b - gotsize) = path[k] * C + o
    <3>1. filesize > 0  BY <1>3, <1>4
    <3>2. pc \in {"search", "getit"}  BY <1>1
    <3> SUFFICES ASSUME b >= gotsize PROVE curclust * C + (b - gotsize) = path[k] * C + o
      OBVIOUS
    <3> QED  BY <3>1, <3>2, RunBytes
  <2>7. b < gotsize + actsize  BY <1>9
  <2> HIDE DEF b, C
  <2>8. b \in Memory
    BY <2>4, <2>7, <1>3, <1>4, <1>5, SizeAssumption DEF Memory
  <2> QED  BY <2>4, <2>5, <2>6, <2>7, <2>8, <1>3, <1>7, <1>8 DEF b
<1>10. gotsize' <= Len(path') * C
  BY <1>1, <1>3, <1>4
<1> QED  BY <1>0, <1>1, <1>2, <1>8, <1>9, <1>10 DEF ChainRead, bytesperclust

LEMMA GetTailContent ==
  ASSUME Safe, CountsFit, ContentIsFile, GetTail PROVE ContentIsFile'
<1> DEFINE C == bytesperclust
           run == actsize - C
           rest == filesize - run
           mid == gotsize + run
           n == Len(path)
<1>0. fat' = fat /\ start' = start  BY EntryStable DEF GetTail
<1>1. path' = path /\ pc = "search" /\ actsize >= filesize
  BY DEF GetTail
<1>2. PICK got \in Got(buffer, curclust, gotsize, run) :
        \E got2 \in Got(got.bytes, endclust, mid, rest) :
          /\ buffer' = got2.bytes
          /\ failed' = (failed \/ ~got.ok \/ ~got2.ok)
          /\ gotsize' = gotsize + run + rest
  BY DEF GetTail
<1>3. PICK got2 \in Got(got.bytes, endclust, mid, rest) :
          /\ buffer' = got2.bytes
          /\ failed' = (failed \/ ~got.ok \/ ~got2.ok)
          /\ gotsize' = gotsize + run + rest
  BY <1>2
<1>4. /\ C \in Nat \ {0} /\ actsize \in Nat /\ filesize \in Nat /\ gotsize \in Nat
      /\ curclust \in Nat /\ endclust \in Nat /\ buffer \in [Memory -> Values] /\ n \in Nat
  BY ClusterBytes, SizeAssumption DEF Safe, TypeOK, FatValues, ClusterNums, Values
<1>5. Wanted \in Nat /\ Wanted <= size /\ size <= BufferBytes /\ size \in Nat /\ size \in Sizes
  BY WantedBound DEF Safe
<1>6. /\ curclust <= endclust /\ actsize = (endclust - curclust + 1) * C
      /\ run <= filesize /\ gotsize + filesize = Wanted /\ gotsize + actsize = n * C
  BY <1>1 DEF Safe, RunInv
<1>7. run \in Nat /\ rest \in Nat /\ run <= size /\ rest <= size
  <2>1. \A d \in Nat : d * C \in Nat  BY <1>4
  <2>2. (endclust - curclust) * C \in Nat  BY <2>1, <1>4, <1>6
  <2>3. (endclust - curclust + 1) * C = (endclust - curclust) * C + C
    BY <1>4
  <2>4. run \in Nat  BY <2>2, <2>3, <1>4, <1>6
  <2>5. gotsize + filesize = Wanted /\ run <= filesize  BY <1>6
  <2> QED  BY <2>4, <2>5, <1>4, <1>5
<1>8. run < CountModulus * SECTOR_SIZE /\ rest < CountModulus * SECTOR_SIZE
  <2>1. size < CountModulus * SECTOR_SIZE  BY <1>5 DEF CountsFit
  <2>2. CountModulus * SECTOR_SIZE \in Nat  BY SizeAssumption
  <2> HIDE DEF run, rest
  <2> QED  BY <2>1, <2>2, <1>5, <1>7
<1>9. mid = (n - 1) * C /\ mid \in Nat /\ mid + rest = Wanted /\ mid + rest <= n * C
      /\ gotsize' = Wanted
  <2>1. (n - 1) * C = n * C - C  BY <1>4
  <2>2. mid = (gotsize + actsize) - C  BY <1>4
  <2>3. mid + rest = gotsize + filesize  BY <1>4
  <2>4. gotsize + filesize <= gotsize + actsize  BY <1>1, <1>4
  <2>5. gotsize + actsize = n * C /\ gotsize + filesize = Wanted  BY <1>6
  <2>6. mid \in Nat  BY <1>4, <1>7
  <2> QED  BY <2>1, <2>2, <2>3, <2>4, <2>5, <2>6, <1>3
<1> HIDE DEF run, rest, mid
<1>10. /\ got.bytes \in [Memory -> Values]
       /\ \A b \in Memory : b < gotsize \/ b >= gotsize + run => got.bytes[b] = buffer[b]
       /\ got.ok => \A b \in Memory : gotsize <= b /\ b < gotsize + run =>
                      got.bytes[b] = curclust * C + (b - gotsize)
  BY <1>4, <1>7, <1>8, GotCorrect
<1>11. /\ \A b \in Memory : b < mid \/ b >= mid + rest => got2.bytes[b] = got.bytes[b]
       /\ got2.ok => \A b \in Memory : mid <= b /\ b < mid + rest =>
                      got2.bytes[b] = endclust * C + (b - mid)
  BY <1>4, <1>7, <1>8, <1>9, <1>10, GotCorrect
<1> SUFFICES ASSUME ~failed' PROVE ChainRead'  BY DEF ContentIsFile, ChainRead
<1>12. ChainRead /\ got.ok /\ got2.ok  BY <1>3, ContentByChain
<1>13. ASSUME NEW k \in 1..n, NEW o \in 0..(C - 1), (k - 1) * C + o < Wanted
       PROVE  got2.bytes[(k - 1) * C + o] = path[k] * C + o
  <2> DEFINE b == (k - 1) * C + o
  <2>2. k - 1 \in Nat /\ o \in Nat /\ k \in Nat  BY <1>4
  <2>3. (k - 1) * C \in Nat  BY <1>4, <2>2
  <2>4. b \in Nat /\ b < Wanted  BY <2>2, <2>3, <1>13
  <2>5. b < gotsize => buffer[b] = path[k] * C + o  BY <1>12 DEF ChainRead
  <2>6. filesize > 0 /\ b >= gotsize => curclust * C + (b - gotsize) = path[k] * C + o
    <3>1. pc \in {"search", "getit"}  BY <1>1
    <3> SUFFICES ASSUME filesize > 0, b >= gotsize
                 PROVE  curclust * C + (b - gotsize) = path[k] * C + o
      OBVIOUS
    <3> QED  BY <3>1, RunBytes
  <2>7. ASSUME b >= mid PROVE /\ filesize > 0 => path[k] = endclust
                              /\ b - mid = o
    <3>1. (k - 1) * C + o >= (n - 1) * C /\ o \in 0..(C - 1)  BY <2>7, <1>9
    <3>2. k - 1 \in Int /\ n - 1 \in Int  BY <1>4, <2>2
    <3>3. k - 1 >= n - 1  BY <3>1, <3>2, <1>4, ClusterOrder
    <3>4. k = n  BY <3>3, <1>4, <2>2
    <3>5. filesize > 0 => endclust = path[n]  BY <1>1, EndOfPath DEF Safe
    <3>6. b = mid + o  BY <3>4, <1>9
    <3> QED  BY <3>4, <3>5, <3>6, <2>2, <1>9
  <2>8. b >= gotsize => filesize > 0
    <3>1. gotsize + filesize = Wanted  BY <1>6
    <3> HIDE DEF b
    <3> QED  BY <3>1, <2>4, <1>4
  <2> HIDE DEF b, C
  <2>9. b \in Memory
    BY <2>4, <1>5, SizeAssumption DEF Memory
  <2>10. gotsize + run = mid /\ gotsize <= mid  BY <1>4, <1>7 DEF mid
  <2>11. CASE b < gotsize
    <3>1. b < mid  BY <2>4, <2>10, <2>11, <1>4, <1>9
    <3>2. got2.bytes[b] = buffer[b]  BY <3>1, <2>9, <2>11, <1>10, <1>11
    <3> QED  BY <3>2, <2>5, <2>11 DEF b
  <2>12. CASE b >= gotsize /\ b < mid
    BY <2>4, <2>6, <2>8, <2>9, <2>10, <2>12, <1>4, <1>9, <1>10, <1>11, <1>12 DEF b
  <2>13. CASE b >= mid
    <3>1. filesize > 0  BY <2>8, <2>10, <2>13, <2>4, <1>4, <1>9
    <3>2. path[k] = endclust /\ b - mid = o  BY <2>7, <2>13, <3>1
    <3>3. got2.bytes[b] = endclust * C + (b - mid)
      BY <2>4, <2>9, <2>13, <1>9, <1>11, <1>12
    <3> QED  BY <3>2, <3>3 DEF b
  <2> QED  BY <2>11, <2>12, <2>13, <2>4, <1>4, <1>9
<1>14. gotsize' <= Len(path') * C
  BY <1>1, <1>9
<1> QED  BY <1>0, <1>1, <1>3, <1>9, <1>12, <1>13, <1>14 DEF ChainRead, bytesperclust

LEMMA StepContent ==
  Safe /\ CountsFit /\ ContentIsFile /\ [Next]_vars => ContentIsFile'
<1> SUFFICES ASSUME Safe, CountsFit, ContentIsFile, [Next]_vars PROVE ContentIsFile'
  OBVIOUS
<1>1. CASE UNCHANGED vars
  BY <1>1 DEF ContentIsFile, vars, entryVars, cacheVars, loopVars, bytesperclust
<1>2. CASE Return
  BY <1>2 DEF ContentIsFile, Return, entryVars, cacheVars, loopVars, bytesperclust
<1> QED
  BY <1>1, <1>2, BeginContent, SearchContent, GetTailContent, GetItContent, NextRunContent
  DEF Next

\* The value CHECK_CLUST refuses first is not the number after the last cluster.
NoEdgeCluster == CheckFrom > Clusters + 2

LEMMA StepShortRead ==
  Safe /\ NoEdgeCluster /\ ShortReadIsExact /\ [Next]_vars => ShortReadIsExact'
<1> SUFFICES ASSUME Safe, NoEdgeCluster, ShortReadIsExact, [Next]_vars,
                    pc' \in {"done", "returned"}, ~failed', gotsize' # Wanted'
             PROVE  /\ gotsize' = Len(path') * bytesperclust
                    /\ CheckClust(fat'[path'[Len(path')]])
  BY DEF ShortReadIsExact, bytesperclust, CheckClust
<1>1. CASE UNCHANGED vars
  BY <1>1 DEF ShortReadIsExact, vars, entryVars, cacheVars, loopVars, Wanted, bytesperclust
<1>2. CASE Return
  BY <1>2 DEF ShortReadIsExact, Return, entryVars, cacheVars, loopVars, Wanted, bytesperclust
<1>3. CASE Begin  BY <1>3 DEF Begin
<1>4. CASE GetIt  BY <1>4 DEF GetIt
<1>5. CASE GetTail
  <2>1. Wanted' = Wanted /\ pc = "search"  BY <1>5, EntryStable DEF GetTail
  <2>2. /\ gotsize' = gotsize + (actsize - bytesperclust)
                        + (filesize - (actsize - bytesperclust))
    BY <1>5 DEF GetTail
  <2>3. gotsize + filesize = Wanted  BY <2>1 DEF Safe, RunInv
  <2>4. gotsize \in Nat /\ actsize \in Nat /\ filesize \in Nat /\ bytesperclust \in Nat
    BY ClusterBytes DEF Safe, TypeOK
  <2> QED  BY <2>1, <2>2, <2>3, <2>4
<1>6. CASE Search
  <2>0. /\ fat' = fat /\ pc = "search" /\ actsize < filesize /\ GetFatent(endclust)
    BY <1>6, EntryStable DEF Search
  <2>1. /\ filesize > 0 /\ TypeOK /\ RunInv /\ CacheCoherent
    BY <2>0 DEF Safe, TypeOK
  <2>2. endclust \in ClusterNums /\ endclust \in Nat  BY <2>0, <2>1, EndOfPath
  <2> DEFINE v == Entry(fatbuf', endclust)
  <2>3. v \in FatValues  BY <2>0, <2>1, <2>2, GetFatentCorrect
  <2>4. v - 1 = endclust /\ CheckClust(v)
    BY <1>6 DEF Search
  <2> HIDE DEF v
  <2>5. v \in Nat  BY <2>3, SizeAssumption DEF FatValues, ClusterNums
  <2> QED
    BY <2>2, <2>4, <2>5, SizeAssumption DEF NoEdgeCluster, CheckClust, ClusterNums
<1>7. CASE NextRun
  <2>0. /\ fat' = fat /\ pc = "next" /\ GetFatent(endclust) /\ gotsize' = gotsize
    BY <1>7, EntryStable DEF NextRun
  <2>1. /\ filesize > 0 /\ TypeOK /\ RunInv /\ CacheCoherent
        /\ gotsize = Len(path) * bytesperclust
    BY <2>0 DEF Safe, RunInv
  <2>2. endclust \in ClusterNums /\ endclust = path[Len(path)]
    BY <2>0, <2>1, EndOfPath
  <2>3. Entry(fatbuf', endclust) = fat[endclust]
    BY <2>0, <2>1, <2>2, GetFatentCorrect
  <2>4. CheckClust(Entry(fatbuf', endclust)) /\ path' = path
    <3>1. curclust' = Entry(fatbuf', endclust)  BY <1>7 DEF NextRun
    <3>2. IF CheckClust(curclust') THEN path' = path ELSE pc' = "search"
      BY <1>7 DEF NextRun
    <3> QED  BY <3>1, <3>2
  <2> QED  BY <2>0, <2>1, <2>2, <2>3, <2>4
<1> QED  BY <1>1, <1>2, <1>3, <1>4, <1>5, <1>6, <1>7 DEF Next

-----------------------------------------------------------------------------
(* The theorems.                                                           *)

THEOREM SafeAlways == Spec => []Safe
BY InitSafe, StepSafe, PTL DEF Spec

\* The variables keep their types on every volume (fat.c:241-459).
THEOREM TypeCorrect == Spec => []TypeOK
<1>1. Safe => TypeOK  BY DEF Safe
<1> QED  BY <1>1, SafeAlways, PTL

\* Whatever the FAT holds and whichever reads fail, nothing is written beyond
\* the bytes asked for (fat.c:396-447).
THEOREM NeverOverruns == Spec => []NoOverrun
<1>1. Safe => NoOverrun  BY DEF Safe
<1> QED  BY <1>1, SafeAlways, PTL

\* The one-buffer cache of get_fatent is coherent (fat.c:275-291).
THEOREM CacheIsCoherent == Spec => []CacheCoherent
<1>1. Safe => CacheCoherent  BY DEF Safe
<1> QED  BY <1>1, SafeAlways, PTL

\* The bytes counted are those of the clusters along the chain of the file, in
\* order, provided that the sector counts of its runs fit a __u16.
THEOREM ContentCorrect ==
  ASSUME CountsFit
  PROVE  Spec => [](IInv /\ ContentIsFile)
<1>1. Init => ContentIsFile
  <2>1. ASSUME Init PROVE /\ path = <<>> /\ gotsize = 0  BY <2>1 DEF Init
  <2> QED  BY <2>1, ClusterBytes DEF ContentIsFile
<1>2. Safe /\ ContentIsFile => IInv  BY DEF Safe, IInv
<1> QED  BY <1>1, <1>2, SafeAlways, StepContent, PTL DEF Spec

\* A count below what was asked for means that the chain of the file ends there.
THEOREM ShortReadsExact ==
  ASSUME NoEdgeCluster
  PROVE  Spec => []ShortReadIsExact
<1>1. Init => ShortReadIsExact  BY DEF Init, ShortReadIsExact
<1> QED  BY <1>1, SafeAlways, StepShortRead, PTL DEF Spec

-----------------------------------------------------------------------------
(* The FAT as bytes.                                                       *)

Bytes == [Nat -> 0..255]

\* The buffer holds whole entries of each kind, FAT12 ones in groups of four.
LEMMA WholeBuffers ==
  /\ EntriesInBuf(12) \in Nat \ {0} /\ EntriesInBuf(16) \in Nat \ {0} /\ EntriesInBuf(32) \in Nat \ {0}
  /\ 3 * EntriesInBuf(12) = 2 * FATBUFSIZE /\ EntriesInBuf(12) % 4 = 0
  /\ 2 * EntriesInBuf(16) = FATBUFSIZE /\ 4 * EntriesInBuf(32) = FATBUFSIZE
<1>1. PICK g \in Nat \ {0} : FATBUFSIZE = 12 * g
  <2>1. FATBUFSIZE = 12 * (FATBUFSIZE \div 12) /\ FATBUFSIZE \div 12 \in Nat \ {0}
    BY FatbufAssumption
  <2> QED BY <2>1
<1>2. EntriesInBuf(12) = 8 * g /\ EntriesInBuf(16) = 6 * g /\ EntriesInBuf(32) = 3 * g
  BY <1>1 DEF EntriesInBuf
<1> QED BY <1>1, <1>2

LEMMA Place ==
  ASSUME NEW entry \in Nat, NEW n \in Nat \ {0}
  PROVE  entry \div n \in Nat /\ entry - (entry \div n) * n \in 0..(n - 1)
OBVIOUS

\* A byte of the buffer is a byte of the FAT.
LEMMA BufferBytesOf ==
  ASSUME NEW f \in Bytes, NEW q \in Nat, NEW k \in 0..(FATBUFSIZE - 1)
  PROVE  Fatbuf(f, q)[k] = f[q * FATBUFSIZE + k] /\ f[q * FATBUFSIZE + k] \in 0..255
<1>1. q * FATBUFSIZE \in Nat  BY FatbufAssumption
<1>2. q * FATBUFSIZE + k \in Nat  BY <1>1, FatbufAssumption
<1> QED  BY <1>2 DEF Fatbuf, Bytes

\* The arithmetic of a group of four FAT12 entries, which is six bytes.
LEMMA Nibbles ==
  ASSUME NEW a \in 0..255, NEW b \in 0..255
  PROVE  /\ (a + 256 * b) % 4096 = a + 256 * (b % 16)
         /\ (a + 256 * b) \div 4096 = b \div 16
         /\ (a + 256 * b) \div 256 = b /\ (a + 256 * b) % 256 = a
         /\ (a + 256 * b) \div 16 = a \div 16 + 16 * b
         /\ (a + 256 * b) % 16 = a % 16
OBVIOUS

LEMMA GroupOfFour ==
  ASSUME NEW o \in Nat
  PROVE  \E h \in Nat, r \in 0..3 : o = 4 * h + r /\ o % 4 = r /\ o \div 4 = h
<1>1. o \div 4 \in Nat /\ o % 4 \in 0..3  OBVIOUS
<1>2. o = 4 * (o \div 4) + (o % 4)  OBVIOUS
<1> QED  BY <1>1, <1>2

\* Every entry of a FAT12 is decoded to what the FAT holds there (fat.c:302-331).
LEMMA Entry12 ==
  ASSUME NEW f \in Bytes, NEW entry \in Nat
  PROVE  GetFatentBytes(f, 12, entry) = Packed(f, 12, entry)
<1> DEFINE n == EntriesInBuf(12)
           q == entry \div n
           o == entry - q * n
<1>1. PICK g \in Nat \ {0} : n = 8 * g /\ FATBUFSIZE = 12 * g
  <2>1. n \in Nat \ {0} /\ 3 * n = 2 * FATBUFSIZE  BY WholeBuffers
  <2>2. FATBUFSIZE = 12 * (FATBUFSIZE \div 12) /\ FATBUFSIZE \div 12 \in Nat \ {0}
    BY FatbufAssumption
  <2>3. n = 8 * (FATBUFSIZE \div 12)
    <3> HIDE DEF n
    <3> QED  BY <2>1, <2>2
  <2> QED  BY <2>2, <2>3
<1>2. n \in Nat \ {0} /\ q \in Nat /\ o \in 0..(n - 1)
  <2>1. n \in Nat \ {0}  BY WholeBuffers
  <2> HIDE DEF n
  <2> QED  BY <2>1, Place
<1>3. GetFatentBytes(f, 12, entry) = EntryOf12(Fatbuf(f, q), o) /\ o = entry - q * n
  BY DEF GetFatentBytes, EntryOf
<1> HIDE DEF q, o, n
<1>4. PICK h \in Nat, r \in 0..3 : o = 4 * h + r /\ o % 4 = r  BY <1>2, GroupOfFour
<1>5. PICK x \in Nat : q * n = 8 * x /\ q * FATBUFSIZE = 12 * x
  <2>1. \A y \in Nat : q * (8 * y) = 8 * (q * y) /\ q * (12 * y) = 12 * (q * y) /\ q * y \in Nat
    BY <1>2
  <2> QED  BY <1>1, <2>1
<1>6. entry = 8 * x + 4 * h + r
  <2>1. entry = q * n + o
    <3> DEFINE y == q * n
    <3>1. y \in Nat /\ o = entry - y  BY <1>3, <1>5
    <3> HIDE DEF y
    <3>2. entry = y + o  BY <3>1
    <3> QED  BY <3>2 DEF y
  <2> QED  BY <1>4, <1>5, <2>1
<1> DEFINE at == 12 * x + 6 * h
           b == [k \in 0..5 |-> f[at + k]]
           w(k) == b[2 * k] + 256 * b[2 * k + 1]
\* The six bytes of the group.
<1>7. b \in [0..5 -> 0..255]
  <2>1. \A k \in 0..5 : at + k \in Nat  OBVIOUS
  <2> QED  BY <2>1 DEF Bytes
<1>8. \A k \in 0..2 : Word(Fatbuf(f, q), 3 * h + k) = w(k)
  <2>1. ASSUME NEW k \in 0..5 PROVE Fatbuf(f, q)[6 * h + k] = b[k]
    <3>1. 6 * h + k \in 0..(FATBUFSIZE - 1)
      <4>1. h + 1 <= 2 * g  BY <1>1, <1>2, <1>4
      <4> QED  BY <1>1, <4>1
    <3>2. q * FATBUFSIZE + (6 * h + k) = at + k  BY <1>5
    <3>3. Fatbuf(f, q)[6 * h + k] = f[q * FATBUFSIZE + (6 * h + k)]
      BY <1>2, <3>1, BufferBytesOf
    <3> QED  BY <3>2, <3>3
  <2> HIDE DEF b
  <2> TAKE k \in 0..2
  <2>2. /\ 2 * (3 * h + k) = 6 * h + 2 * k /\ 2 * (3 * h + k) + 1 = 6 * h + (2 * k + 1)
        /\ 2 * k \in 0..5 /\ 2 * k + 1 \in 0..5
    OBVIOUS
  <2> QED  BY <2>1, <2>2 DEF Word
<1>9. Packed(f, 12, entry) =
        CASE r = 0 -> b[0] + 256 * (b[1] % 16)
          [] r = 1 -> b[1] \div 16 + 16 * b[2]
          [] r = 2 -> b[3] + 256 * (b[4] % 16)
          [] r = 3 -> b[4] \div 16 + 16 * b[5]
  <2>1. CASE r = 0
    <3>1. entry % 2 = 0 /\ 3 * (entry \div 2) = at + 0 /\ (at + 0) + 1 = at + 1  BY <1>6, <2>1
    <3> QED  BY <2>1, <3>1 DEF Packed
  <2>2. CASE r = 1
    <3>1. entry % 2 = 1 /\ 3 * (entry \div 2) + 1 = at + 1 /\ (at + 1) + 1 = at + 2  BY <1>6, <2>2
    <3> QED  BY <2>2, <3>1 DEF Packed
  <2>3. CASE r = 2
    <3>1. entry % 2 = 0 /\ 3 * (entry \div 2) = at + 3 /\ (at + 3) + 1 = at + 4  BY <1>6, <2>3
    <3> QED  BY <2>3, <3>1 DEF Packed
  <2>4. CASE r = 3
    <3>1. entry % 2 = 1 /\ 3 * (entry \div 2) + 1 = at + 4 /\ (at + 4) + 1 = at + 5  BY <1>6, <2>4
    <3> QED  BY <2>4, <3>1 DEF Packed
  <2> QED  BY <2>1, <2>2, <2>3, <2>4
<1>10. EntryOf12(Fatbuf(f, q), o) =
         CASE r = 0 -> w(0) % 4096
           [] r = 1 -> (w(1) % 256) * 16 + w(0) \div 4096
           [] r = 2 -> (w(2) % 16) * 256 + w(1) \div 256
           [] r = 3 -> w(2) \div 16
  <2>1. (o * 3) \div 4 = 3 * h + (IF r = 0 THEN 0 ELSE r - 1)  BY <1>4
  <2> HIDE DEF w
  <2>2. CASE r = 0
    BY <1>4, <1>8, <2>1, <2>2 DEF EntryOf12
  <2>3. CASE r = 1
    <3>1. (o * 3) \div 4 = 3 * h + 0 /\ (3 * h + 0) + 1 = 3 * h + 1  BY <2>1, <2>3
    <3> QED  BY <1>4, <1>8, <2>3, <3>1 DEF EntryOf12
  <2>4. CASE r = 2
    <3>1. (o * 3) \div 4 = 3 * h + 1 /\ (3 * h + 1) + 1 = 3 * h + 2  BY <2>1, <2>4
    <3> QED  BY <1>4, <1>8, <2>4, <3>1 DEF EntryOf12
  <2>5. CASE r = 3
    BY <1>4, <1>8, <2>1, <2>5 DEF EntryOf12
  <2> QED  BY <2>2, <2>3, <2>4, <2>5
<1> HIDE DEF b
<1>11. \A k \in 0..5 : b[k] \in 0..255  BY <1>7
<1>12. /\ w(0) = b[0] + 256 * b[1] /\ w(1) = b[2] + 256 * b[3] /\ w(2) = b[4] + 256 * b[5]
  OBVIOUS
<1> HIDE DEF w
<1>13. /\ w(0) % 4096 = b[0] + 256 * (b[1] % 16) /\ w(0) \div 4096 = b[1] \div 16
  <2>1. b[0] \in 0..255 /\ b[1] \in 0..255  BY <1>11
  <2>2. PICK a \in 0..255, c \in 0..255 : b[0] = a /\ b[1] = c  BY <2>1, Zenon
  <2>3. w(0) = a + 256 * c  BY <1>12, <2>2
  <2> QED  BY <2>2, <2>3, Nibbles
<1>14. w(1) % 256 = b[2] /\ w(1) \div 256 = b[3]
  <2>1. b[2] \in 0..255 /\ b[3] \in 0..255  BY <1>11
  <2>2. PICK a \in 0..255, c \in 0..255 : b[2] = a /\ b[3] = c  BY <2>1, Zenon
  <2>3. w(1) = a + 256 * c  BY <1>12, <2>2
  <2> QED  BY <2>2, <2>3, Nibbles
<1>15. w(2) % 16 = b[4] % 16 /\ w(2) \div 16 = b[4] \div 16 + 16 * b[5]
  <2>1. b[4] \in 0..255 /\ b[5] \in 0..255  BY <1>11
  <2>2. PICK a \in 0..255, c \in 0..255 : b[4] = a /\ b[5] = c  BY <2>1, Zenon
  <2>3. w(2) = a + 256 * c  BY <1>12, <2>2
  <2> QED  BY <2>2, <2>3, Nibbles
<1>16. GetFatentBytes(f, 12, entry) = Packed(f, 12, entry)
  <2>1. b[1] \div 16 \in Int /\ b[2] \in Int /\ b[3] \in Int /\ b[4] % 16 \in Int
    BY <1>11
  <2>2. b[2] * 16 + b[1] \div 16 = b[1] \div 16 + 16 * b[2]  BY <2>1
  <2>3. (b[4] % 16) * 256 + b[3] = b[3] + 256 * (b[4] % 16)  BY <2>1
  <2> QED  BY <1>3, <1>9, <1>10, <1>13, <1>14, <1>15, <2>2, <2>3
<1> QED  BY <1>16

\* Entries of 16 and 32 bits never cross the end of a buffer.
LEMMA EntryWhole ==
  ASSUME NEW f \in Bytes, NEW entry \in Nat, NEW fatsize \in {16, 32}
  PROVE  GetFatentBytes(f, fatsize, entry) = Packed(f, fatsize, entry)
<1> DEFINE w == fatsize \div 8
           n == EntriesInBuf(fatsize)
           q == entry \div n
           o == entry - q * n
<1>1. n \in Nat \ {0} /\ w * n = FATBUFSIZE /\ w \in {2, 4} /\ (w = 2 <=> fatsize = 16)
  BY WholeBuffers
<1>2. q \in Nat /\ o \in 0..(n - 1)  BY <1>1, Place
<1>3. GetFatentBytes(f, fatsize, entry) = EntryOf(Fatbuf(f, q), fatsize, o)
  BY DEF GetFatentBytes
<1>4. o = entry - q * n  OBVIOUS
<1> HIDE DEF q, o, n, w
<1>5. q * FATBUFSIZE = w * (q * n) /\ q * n \in Nat
  <2>1. \A x \in Nat : q * (2 * x) = 2 * (q * x) /\ q * (4 * x) = 4 * (q * x) /\ q * x \in Nat
    BY <1>2
  <2> QED  BY <1>1, <2>1
<1>6. \A k \in 0..(w - 1) : Fatbuf(f, q)[w * o + k] = f[w * entry + k] /\ f[w * entry + k] \in 0..255
  <2> TAKE k \in 0..(w - 1)
  <2>1. w * o + k \in 0..(FATBUFSIZE - 1)  BY <1>1, <1>2
  <2>2. q * FATBUFSIZE + (w * o + k) = w * entry + k
    <3> DEFINE y == q * n
    <3>1. y \in Nat /\ o = entry - y /\ q * FATBUFSIZE = w * y  BY <1>4, <1>5
    <3> HIDE DEF y
    <3>2. w * y + (w * o + k) = w * entry + k  BY <1>1, <1>2, <3>1
    <3> QED  BY <3>1, <3>2
  <2>3. /\ Fatbuf(f, q)[w * o + k] = f[q * FATBUFSIZE + (w * o + k)]
        /\ f[q * FATBUFSIZE + (w * o + k)] \in 0..255
    BY <1>2, <2>1, BufferBytesOf
  <2> QED  BY <2>2, <2>3
<1>7. CASE fatsize = 16
  <2>1. EntryOf(Fatbuf(f, q), 16, o) = Fatbuf(f, q)[2 * o] + 256 * Fatbuf(f, q)[2 * o + 1]
    BY DEF EntryOf, Word
  <2>2. 2 * o = w * o + 0 /\ 2 * o + 1 = w * o + 1 /\ w * entry + 0 = 2 * entry /\ w = 2
    BY <1>1, <1>2, <1>7
  <2> QED  BY <1>3, <1>6, <1>7, <2>1, <2>2 DEF Packed
<1>8. CASE fatsize = 32
  <2> DEFINE b == Fatbuf(f, q)
  <2>1. EntryOf(b, 32, o) = b[2 * (2 * o)] + 256 * b[2 * (2 * o) + 1]
                              + 65536 * (b[2 * (2 * o + 1)] + 256 * b[2 * (2 * o + 1) + 1])
    BY DEF EntryOf, Word
  <2>2. /\ w = 4 /\ 2 * (2 * o) = w * o + 0 /\ 2 * (2 * o) + 1 = w * o + 1
        /\ 2 * (2 * o + 1) = w * o + 2 /\ 2 * (2 * o + 1) + 1 = w * o + 3
        /\ w * entry + 0 = 4 * entry
    BY <1>1, <1>2, <1>8
  <2> HIDE DEF b
  <2>3. /\ b[w * o + 0] = f[4 * entry] /\ b[w * o + 1] = f[4 * entry + 1]
        /\ b[w * o + 2] = f[4 * entry + 2] /\ b[w * o + 3] = f[4 * entry + 3]
    BY <1>6, <2>2 DEF b
  <2>4. Packed(f, 32, entry) = f[4 * entry] + 256 * f[4 * entry + 1]
                                 + 65536 * (f[4 * entry + 2] + 256 * f[4 * entry + 3])
    BY DEF Packed
  <2>5. EntryOf(b, 32, o) = Packed(f, 32, entry)
    BY <2>1, <2>2, <2>3, <2>4
  <2> QED  BY <1>3, <1>8, <2>5 DEF b
<1> QED  BY <1>7, <1>8

\* On every FAT, however long, get_fatent gives the entry the FAT holds, also where
\* a FAT12 entry shares bytes with its neighbours or lies at the end of the buffer
\* (fat.c:252-335).  Only bytes of the buffer are used: outside of it nothing is known.
THEOREM EveryEntryIsRead ==
  \A f \in Bytes, fatsize \in {12, 16, 32}, entry \in Nat :
    GetFatentBytes(f, fatsize, entry) = Packed(f, fatsize, entry)
BY Entry12, EntryWhole
=============================================================================
