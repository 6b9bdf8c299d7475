---------------------------- MODULE FatDirProofs ----------------------------
(***************************************************************************)
(* The boot sector and the directory search for every volume: where the    *)
(* code looks for the clusters, that the search of the root directory stays*)
(* in it, that no block is left, and that the search finds what the card   *)
(* says the path names.  The last part follows the directory entry by      *)
(* entry: the lemmas on StoredFrom and InChain say where an entry lies,    *)
(* ReadsOn that the code reads on where the directory goes on, NameRead and*)
(* LongHeard what get_vfatname makes of a name or of a label taken for a   *)
(* slot, Heard what the search hears at an entry, and SearchInv how far it *)
(* has come.                                                               *)
(***************************************************************************)
EXTENDS FatDir, TLAPS

-----------------------------------------------------------------------------
(* Fields of 16 bits.                                                      *)

Half == FieldModulus \div 2
Congruent(a, b) == \E k \in Int : a = b + k * FieldModulus

LEMMA HalfOfModulus == Half \in Nat \ {0} /\ FieldModulus = 2 * Half
  BY SizeAssumption DEF Half

LEMMA Remainder ==
  ASSUME NEW n \in Int
  PROVE  /\ n % FieldModulus \in 0..(FieldModulus - 1)
         /\ \E k \in Int : n % FieldModulus = n + k * FieldModulus
  <1> USE SizeAssumption
  <1> DEFINE q == n \div FieldModulus
  <1>1. n = FieldModulus * q + (n % FieldModulus) /\ q \in Int
    OBVIOUS
  <1>2. n % FieldModulus \in 0..(FieldModulus - 1)
    OBVIOUS
  <1> HIDE DEF q
  <1>3. n % FieldModulus = n + (-q) * FieldModulus /\ -q \in Int
    <2>1. (-q) * FieldModulus = -(FieldModulus * q)
      BY <1>1
    <2> QED BY <1>1, <1>2, <2>1
  <1> QED BY <1>2, <1>3

LEMMA Product == ASSUME NEW a \in Int, NEW b \in Int PROVE a * b \in Int
  OBVIOUS

LEMMA ClusterNumber == ASSUME NEW c \in ClusterNums PROVE c \in Int
  BY ClusterAssumption

LEMMA CongruentTrans ==
  ASSUME NEW a \in Int, NEW b \in Int, NEW c \in Int, Congruent(a, b), Congruent(b, c)
  PROVE  Congruent(a, c)
  <1> USE SizeAssumption
  <1>1. PICK k \in Int : a = b + k * FieldModulus
    BY DEF Congruent
  <1>2. PICK m \in Int : b = c + m * FieldModulus
    BY DEF Congruent
  <1>3. (m + k) * FieldModulus = m * FieldModulus + k * FieldModulus
    OBVIOUS
  <1>4. a = c + (m + k) * FieldModulus
    BY <1>1, <1>2, <1>3
  <1>5. m + k \in Int
    OBVIOUS
  <1> QED BY <1>4, <1>5 DEF Congruent

LEMMA CongruentAdd ==
  ASSUME NEW a \in Int, NEW b \in Int, NEW c \in Int, Congruent(a, b)
  PROVE  Congruent(a + c, b + c)
  BY SizeAssumption DEF Congruent

LEMMA CongruentTimes ==
  ASSUME NEW a \in Int, NEW b \in Int, NEW c \in Int, Congruent(a, b)
  PROVE  Congruent(a * c, b * c)
  <1> USE SizeAssumption
  <1>1. PICK k \in Int : a = b + k * FieldModulus
    BY DEF Congruent
  <1>2. a * c = b * c + (k * c) * FieldModulus
    <2>1. (b + k * FieldModulus) * c = b * c + (k * FieldModulus) * c
      OBVIOUS
    <2>2. (k * FieldModulus) * c = (k * c) * FieldModulus
      OBVIOUS
    <2> QED BY <1>1, <2>1, <2>2
  <1>3. k * c \in Int
    OBVIOUS
  <1> QED BY <1>2, <1>3 DEF Congruent

\* Two congruent numbers less than FieldModulus apart are equal.
LEMMA CongruentNear ==
  ASSUME NEW a \in Int, NEW b \in Int, Congruent(a, b),
         a - b < FieldModulus, b - a < FieldModulus
  PROVE  a = b
  <1> USE SizeAssumption
  <1>1. PICK k \in Int : a = b + k * FieldModulus
    BY DEF Congruent
  <1>2. CASE k = 0
    BY <1>1, <1>2
  <1>3. CASE k >= 1
    <2>1. k * FieldModulus >= FieldModulus
      BY <1>3
    <2> QED BY <1>1, <2>1
  <1>4. CASE k <= -1
    <2>1. k * FieldModulus <= -FieldModulus
      BY <1>4
    <2> QED BY <1>1, <2>1
  <1> QED BY <1>2, <1>3, <1>4

LEMMA Unsigned ==
  ASSUME NEW n \in Int
  PROVE  U16(n) \in 0..(FieldModulus - 1) /\ Congruent(U16(n), n)
  BY Remainder DEF U16, Congruent

LEMMA Signed ==
  ASSUME NEW n \in Int
  PROVE  S16(n) \in (-Half)..(Half - 1) /\ Congruent(S16(n), n)
  <1> DEFINE r == (n + Half) % FieldModulus
  <1>1. r \in 0..(FieldModulus - 1) /\ \E k \in Int : r = (n + Half) + k * FieldModulus
    <2>1. n + Half \in Int
      BY HalfOfModulus
    <2> QED BY <2>1, Remainder
  <1>2. S16(n) = r - Half
    BY DEF S16, Half
  <1> HIDE DEF r
  <1>3. PICK k \in Int : r = (n + Half) + k * FieldModulus
    BY <1>1
  <1>4. S16(n) = n + k * FieldModulus
    BY <1>1, <1>2, <1>3, HalfOfModulus
  <1> QED BY <1>1, <1>2, <1>4, HalfOfModulus DEF Congruent

-----------------------------------------------------------------------------
(* The boot sector.                                                        *)

\* The length of one FAT, and the sectors before the data, without wrapping.
FatSectors(bs) == IF FatSize(bs) = 32 THEN bs.fat32_length ELSE bs.fat_length

LEMMA Fields ==
  ASSUME NEW v \in Volumes
  PROVE  /\ v.bs.reserved \in Nat /\ v.bs.fats \in Nat /\ FatSectors(v.bs) \in Nat
         /\ v.bs.cluster_size \in Nat \ {0} /\ 4 * v.bs.cluster_size <= FieldModulus
         /\ RootDirSize(v.bs) \in Nat /\ FatSize(v.bs) \in {0, 12, 16, 32}
  <1> USE SizeAssumption, ClusterAssumption, VolumeAssumption
  <1>1. v.bs \in BootSectors /\ 4 * v.bs.cluster_size <= FieldModulus
    OBVIOUS
  <1>2. /\ v.bs.reserved \in Nat /\ v.bs.fats \in Nat /\ v.bs.cluster_size \in Nat \ {0}
        /\ v.bs.fat_length \in Nat /\ v.bs.fat32_length \in Nat /\ v.bs.dir_entries \in Nat
    BY <1>1 DEF BootSectors
  <1>3. v.bs.dir_entries \div DIRENTSPERBLOCK \in Nat
    BY <1>2
  <1>4. FatSize(v.bs) \in {0, 12, 16, 32}
    BY DEF FatSize
  <1> QED BY <1>1, <1>2, <1>3, <1>4 DEF FatSectors, RootDirSize

\* The two sectors the code works out are right but for what 16 bits lose.
LEMMA BeginsAt ==
  ASSUME vol \in Volumes
  PROVE  /\ RootAt \in Nat /\ DataAt \in Int
         /\ Geometry(vol.bs).rootdir_sect \in 0..(FieldModulus - 1)
         /\ Congruent(Geometry(vol.bs).rootdir_sect, RootAt)
         /\ Geometry(vol.bs).data_begin \in (-Half)..(Half - 1)
         /\ Congruent(Geometry(vol.bs).data_begin, DataAt)
  <1> USE SizeAssumption, ClusterAssumption, VolumeAssumption
  <1> DEFINE r == vol.bs.reserved
             f == vol.bs.fats
             l == FatSectors(vol.bs)
             past == RootDirSize(vol.bs) - 2 * vol.bs.cluster_size
             wrapped == U16(r) + U16(l) * f
             root == U16(wrapped)
  <1>1. /\ r \in Nat /\ f \in Nat /\ l \in Nat /\ past \in Int
    BY Fields
  <1>2. RootAt = r + f * l /\ DataAt = RootAt + RootDirSize(vol.bs) - 2 * vol.bs.cluster_size
    BY DEF RootAt, RootSector, DataAt, DataSector, FatSectors
  <1>3. /\ Geometry(vol.bs).rootdir_sect = root
        /\ Geometry(vol.bs).data_begin = S16(root + RootDirSize(vol.bs) - 2 * vol.bs.cluster_size)
    BY DEF Geometry, FatSectors
  <1>4. /\ root + RootDirSize(vol.bs) - 2 * vol.bs.cluster_size = root + past
        /\ RootAt \in Nat /\ DataAt = RootAt + past /\ DataAt \in Int
    <2>1. f * l \in Nat
      BY <1>1
    <2>2. root \in Int
      <3>1. U16(r) \in Int /\ U16(l) \in Int
        BY <1>1, Unsigned
      <3>2. wrapped \in Int
        BY <3>1, <1>1
      <3> QED BY <3>2, Unsigned
    <2> QED BY <2>1, <2>2, <1>1, <1>2, Fields
  <1> HIDE DEF r, f, l, past
  <1>5. U16(r) \in Int /\ U16(l) \in Int /\ Congruent(U16(r), r) /\ Congruent(U16(l), l)
    BY <1>1, Unsigned
  <1>6. Congruent(wrapped, r + f * l)
    <2>1. Congruent(U16(l) * f, l * f)
      <3> DEFINE ul == U16(l)
      <3>1. ul \in Int /\ l \in Int /\ f \in Int /\ Congruent(ul, l)
        BY <1>1, <1>5
      <3> HIDE DEF ul
      <3>2. Congruent(ul * f, l * f)
        BY <3>1, CongruentTimes, Zenon
      <3> QED BY <3>2 DEF ul
    <2>2. U16(l) * f \in Int /\ l * f \in Int /\ l * f = f * l
      BY <1>1, <1>5
    <2> HIDE DEF wrapped
    <2>3. Congruent(U16(l) * f + U16(r), l * f + U16(r))
      BY <2>1, <2>2, <1>5, CongruentAdd
    <2>4. Congruent(U16(r) + l * f, r + l * f)
      BY <2>2, <1>1, <1>5, CongruentAdd
    <2>5. wrapped = U16(l) * f + U16(r) /\ l * f + U16(r) = U16(r) + l * f
      BY <2>2, <1>5 DEF wrapped
    <2>6. wrapped \in Int /\ U16(r) + l * f \in Int /\ r + l * f \in Int
      BY <2>2, <2>5, <1>1, <1>5
    <2>7. Congruent(wrapped, U16(r) + l * f)
      BY <2>3, <2>5
    <2>8. Congruent(wrapped, r + l * f)
      BY <2>4, <2>6, <2>7, CongruentTrans
    <2> QED BY <2>2, <2>8
  <1>7. wrapped \in Int
    BY <1>1, <1>5
  <1> HIDE DEF wrapped
  <1>8. root \in 0..(FieldModulus - 1) /\ Congruent(root, wrapped)
    BY <1>7, Unsigned
  <1> HIDE DEF root
  <1>9. Congruent(root, RootAt)
    BY <1>2, <1>4, <1>6, <1>7, <1>8, CongruentTrans
  <1>10. Congruent(root + past, DataAt)
    BY <1>1, <1>4, <1>8, <1>9, CongruentAdd
  <1>11. /\ S16(root + past) \in (-Half)..(Half - 1)
         /\ Congruent(S16(root + past), root + past)
    BY <1>1, <1>8, Signed
  <1>12. Congruent(S16(root + past), DataAt)
    <2>1. S16(root + past) \in Int /\ root + past \in Int
      BY <1>1, <1>8, <1>11, HalfOfModulus
    <2> QED BY <2>1, <1>4, <1>10, <1>11, CongruentTrans
  <1> QED BY <1>3, <1>4, <1>8, <1>9, <1>11, <1>12

-----------------------------------------------------------------------------
(* Where the code looks for the clusters.                                  *)

Mounted ==
  /\ vol \in Volumes
  /\ IF pc \in {"register", "mount"} THEN mydata = NoGeometry
     ELSE mydata = IF Recognised THEN Geometry(vol.bs) ELSE NoGeometry

LEMMA ExamineStays ==
  ASSUME NEW cur, Examine(cur)
  PROVE  \/ pc' \in {"returned", "dirblock"}
         \/ pc' = pc /\ cluster' = cluster
  BY DEF Examine, Enter, Return

\* After the boot sector was read no step reads it again.
LEMMA OtherSteps ==
  ASSUME [Next]_vars, ~Register, ~ReadBootSector
  PROVE  UNCHANGED <<vol, part_offset, mydata>>
         /\ (pc \in {"register", "mount"} <=> pc' \in {"register", "mount"})
  <1>1. CASE ReadRootBlock
    BY <1>1 DEF ReadRootBlock
  <1>2. CASE RootEntry
    BY <1>2, ExamineStays DEF RootEntry
  <1>3. CASE NextRootSector
    BY <1>3 DEF NextRootSector
  <1>4. CASE ReadDirBlock
    BY <1>4 DEF ReadDirBlock
  <1>5. CASE DirEntry
    BY <1>5, ExamineStays DEF DirEntry
  <1>6. CASE NextDirCluster
    BY <1>6 DEF NextDirCluster
  <1>7. CASE UNCHANGED vars
    BY <1>7 DEF vars
  <1> QED BY <1>1, <1>2, <1>3, <1>4, <1>5, <1>6, <1>7 DEF Next

\* From the first step on mydata is what the boot sector says, if the code knows
\* the file system (fat.c:840-875).
THEOREM BootSectorIsRead == Spec => []Mounted
  <1>1. Init => Mounted
    BY DEF Init, Mounted
  <1>2. Mounted /\ [Next]_vars => Mounted'
    <2> SUFFICES ASSUME Mounted, [Next]_vars PROVE Mounted'
      OBVIOUS
    <2>1. CASE ReadBootSector
      BY <2>1 DEF ReadBootSector, Mounted, Recognised
    <2>2. CASE Register
      BY <2>2 DEF Register, Mounted
    <2>3. CASE ~Register /\ ~ReadBootSector
      BY <2>3, OtherSteps DEF Mounted, Recognised
    <2> QED BY <2>1, <2>2, <2>3
  <1> QED BY <1>1, <1>2, PTL DEF Spec

LEMMA DataBeginExact ==
  ASSUME vol \in Volumes
  PROVE  /\ Geometry(vol.bs).data_begin = DataAt
              <=> DataAt \in (-(FieldModulus \div 2))..(FieldModulus \div 2 - 1)
         /\ Geometry(vol.bs).data_begin \in Int /\ DataAt \in Int
  <1> DEFINE begin == Geometry(vol.bs).data_begin
  <1>1. /\ begin \in (-Half)..(Half - 1) /\ Congruent(begin, DataAt) /\ DataAt \in Int
        /\ begin \in Int
    BY BeginsAt, HalfOfModulus
  <1> HIDE DEF begin
  <1>2. ASSUME DataAt \in (-Half)..(Half - 1)
        PROVE  begin = DataAt
    <2>1. begin - DataAt < FieldModulus /\ DataAt - begin < FieldModulus
      BY <1>1, <1>2, HalfOfModulus
    <2> QED BY <1>1, <2>1, CongruentNear
  <1> QED BY <1>1, <1>2 DEF Half, begin

\* On every volume: the code finds all clusters where they are if the sectors before
\* the data fit a short, and else none of them (fat.h:231-235, fat.c:855-870).
THEOREM ClustersAreFound == Spec => []GeometryIsExact
  <1> USE SizeAssumption, ClusterAssumption, VolumeAssumption
  <1>1. Mounted => GeometryIsExact
    <2> SUFFICES ASSUME Mounted, mydata.fatsize # 0
                 PROVE  (\A c \in ClusterNums : FirstSector(c) = SectorAt(c))
                          <=> DataAt \in (-(FieldModulus \div 2))..(FieldModulus \div 2 - 1)
      BY DEF GeometryIsExact
    <2>1. vol \in Volumes /\ mydata = Geometry(vol.bs)
      BY DEF Mounted, NoGeometry
    <2>2. mydata.clust_size = vol.bs.cluster_size /\ vol.bs.cluster_size \in Nat
      BY <2>1, Fields DEF Geometry
    <2>3. \A c \in ClusterNums : FirstSector(c) = SectorAt(c) <=> mydata.data_begin = DataAt
      <3> TAKE c \in ClusterNums
      <3>1. c * vol.bs.cluster_size \in Int /\ mydata.data_begin \in Int /\ DataAt \in Int
        BY <2>1, <2>2, DataBeginExact
      <3> QED BY <2>2, <3>1 DEF FirstSector, SectorAt, ClusterSector, DataAt
    <2>4. (\A c \in ClusterNums : FirstSector(c) = SectorAt(c)) <=> mydata.data_begin = DataAt
      BY <2>3
    <2> QED BY <2>1, <2>4, DataBeginExact
  <1> QED BY <1>1, BootSectorIsRead, PTL

-----------------------------------------------------------------------------
(* The search of the root directory.                                       *)

\* On a readable card both sectors are exact.
LEMMA ReadableIsExact ==
  ASSUME vol \in Volumes, Readable
  PROVE  /\ Geometry(vol.bs).data_begin = DataAt /\ Geometry(vol.bs).rootdir_sect = RootAt
         /\ RootAt \in Nat /\ DataAt \in Int
  <1> USE SizeAssumption, ClusterAssumption, VolumeAssumption
  <1> DEFINE root == Geometry(vol.bs).rootdir_sect
  <1>1. /\ vol.bs.cluster_size \in Nat \ {0} /\ 4 * vol.bs.cluster_size <= FieldModulus
        /\ RootDirSize(vol.bs) \in Nat
    BY Fields
  <1>2. DataAt < Half /\ RootAt \in Nat /\ DataAt \in Int
    BY BeginsAt DEF Readable, Half
  <1>3. DataAt = RootAt + RootDirSize(vol.bs) - 2 * vol.bs.cluster_size
    BY DEF DataAt, DataSector, RootAt
  <1>4. DataAt \in (-Half)..(Half - 1) /\ RootAt < FieldModulus
    BY <1>1, <1>2, <1>3, HalfOfModulus
  <1>5. root \in 0..(FieldModulus - 1) /\ Congruent(root, RootAt)
    BY BeginsAt
  <1> HIDE DEF root
  <1>6. root = RootAt
    BY <1>2, <1>4, <1>5, CongruentNear, SMTT(30)
  <1> QED BY <1>2, <1>4, <1>6, DataBeginExact DEF Half, root

RootInv == Mounted /\ RootPosition /\ (pc \in {"register", "mount"} => j = 0)
             /\ (pc \in {"rootblock", "rootentry"} => mydata.fatsize # 0 /\ j \in Nat)

LEMMA RootStart ==
  ASSUME RootInv, ReadBootSector
  PROVE  RootInv'
  <1> USE SizeAssumption, ClusterAssumption, VolumeAssumption
  <1>1. Mounted'
    BY DEF RootInv, ReadBootSector, Mounted, Recognised
  <1> USE DEF RootInv, Mounted
  <1>2. vol' = vol /\ j' = 0 /\ vol \in Volumes
    BY DEF ReadBootSector
  <1>3. CASE ~Recognised
    BY <1>1, <1>2, <1>3 DEF ReadBootSector, RootPosition
  <1>4. CASE Recognised
    <2>1. /\ pc' = "rootblock" /\ mydata' = Geometry(vol.bs)
          /\ cluster' = vol.bs.root_cluster /\ cursect' = Geometry(vol.bs).rootdir_sect
      BY <1>4 DEF ReadBootSector
    <2>2. mydata'.fatsize = FatSize(vol.bs) /\ FatSize(vol.bs) # 0
      BY <1>4, <2>1 DEF Geometry, Recognised
    <2>3. ASSUME Readable' PROVE RootPosition'
      <3>1. Readable /\ RootAt' = RootAt /\ (\A c : SectorAt(c)' = SectorAt(c))
        BY <1>2, <2>3 DEF Readable, RootAt, RootSector, DataAt, DataSector, SectorAt, ClusterSector
      <3>2. cursect' = RootAt /\ RootAt \in Nat
        BY <1>2, <2>1, <3>1, ReadableIsExact
      <3>3. CASE FatSize(vol.bs) = 32
        <4>1. /\ IsChain(vol.rootchain, vol.fat) /\ vol.rootchain[1] = vol.bs.root_cluster
              /\ vol.bs.root_cluster = 2
          BY <1>2, <3>1, <3>3 DEF Readable
        <4>2. 1 \in DOMAIN vol.rootchain
          BY <4>1 DEF IsChain
        <4>3. SectorAt(2) = RootAt
          <5>1. RootDirSize(vol.bs) = 0
            BY <3>3 DEF RootDirSize
          <5> QED BY <1>2, <3>2, <5>1, Fields DEF SectorAt, ClusterSector, DataAt, DataSector, RootAt
        <4>4. vol.bs.cluster_size \in Nat \ {0}
          BY <1>2, Fields
        <4>5. \E k \in DOMAIN vol'.rootchain : cluster' = vol'.rootchain[k]
          BY <1>2, <2>1, <4>1, <4>2
        <4>6. cursect' = SectorAt(cluster)' + j' /\ j' < vol'.bs.cluster_size
          <5>1. SectorAt(cluster)' = SectorAt(2)
            BY <1>2, <2>1, <4>1 DEF SectorAt, ClusterSector, DataAt, DataSector, RootAt, RootSector
          <5> QED BY <1>2, <3>2, <4>3, <4>4, <5>1
        <4> QED BY <2>2, <3>3, <4>5, <4>6 DEF RootPosition
      <3>4. CASE FatSize(vol.bs) # 32
        <4>1. RootDirSize(vol.bs) > 0
          BY <1>2, <2>2, <3>4, Fields
        <4>2. cursect' = RootAt' + j' /\ j' < RootDirSize(vol'.bs)
          BY <1>2, <3>1, <3>2, <4>1
        <4> QED BY <2>2, <3>4, <4>2 DEF RootPosition
      <3> QED BY <3>3, <3>4
    <2>4. RootPosition'
      BY <2>3 DEF RootPosition
    <2> QED BY <1>1, <1>2, <1>4, <2>1, <2>2, <2>4
  <1> QED BY <1>3, <1>4

LEMMA RootStep ==
  ASSUME RootInv, NextRootSector
  PROVE  RootInv'
  <1> USE SizeAssumption, ClusterAssumption, VolumeAssumption
  <1> USE DEF RootInv, Mounted
  <1>1. /\ vol' = vol /\ mydata' = mydata /\ vol \in Volumes /\ pc = "rootentry" /\ j \in Nat
        /\ pc' \notin {"register", "mount"} /\ part_offset' = part_offset
    BY DEF NextRootSector
  <1>2. mydata = Geometry(vol.bs) /\ mydata.fatsize # 0
    BY <1>1 DEF NoGeometry
  <1>3. /\ mydata.fatsize = FatSize(vol.bs) /\ mydata.clust_size = vol.bs.cluster_size
        /\ mydata.rootdir_size = RootDirSize(vol.bs)
    BY <1>2 DEF Geometry
  <1>4. vol.bs.cluster_size \in Nat \ {0} /\ RootDirSize(vol.bs) \in Nat
    BY <1>1, Fields
  <1>5. j' \in Nat
    BY <1>1, <1>4 DEF NextRootSector
  <1>6. ASSUME Readable', pc' \in {"rootblock", "rootentry"} PROVE RootPosition'
    <2>1. Readable /\ RootAt' = RootAt /\ (\A c : SectorAt(c)' = SectorAt(c))
      BY <1>1, <1>6 DEF Readable, RootAt, RootSector, DataAt, DataSector, SectorAt, ClusterSector
    <2>2. pc' = "rootblock"
      BY <1>6 DEF NextRootSector
    <2>3. /\ mydata.data_begin = DataAt /\ DataAt \in Int /\ RootAt \in Nat
      BY <1>1, <1>2, <2>1, ReadableIsExact
    <2>4. CASE mydata.fatsize = 32 /\ j + 1 = mydata.clust_size
      <3>1. PICK k \in DOMAIN vol.rootchain : cluster = vol.rootchain[k]
        BY <1>1, <2>1, <2>4 DEF RootPosition
      <3>2. IsChain(vol.rootchain, vol.fat)
        BY <1>1, <1>3, <2>4
      <3>3. /\ cluster' = vol.fat[cluster] /\ cursect' = FirstSector(vol.fat[cluster]) /\ j' = 0
            /\ vol.fat[cluster] \in ClusterNums
        BY <1>1, <2>2, <2>4 DEF NextRootSector, CheckClust, FirstSector
      <3>4. k + 1 \in DOMAIN vol.rootchain /\ cluster' = vol.rootchain[k + 1]
        <4>1. k \in 1..Len(vol.rootchain) /\ Len(vol.rootchain) \in Nat
              /\ DOMAIN vol.rootchain = 1..Len(vol.rootchain)
          BY <3>1, <3>2 DEF IsChain
        <4>2. k # Len(vol.rootchain)
          BY <3>1, <3>2, <3>3 DEF IsChain
        <4>3. k \in 1..(Len(vol.rootchain) - 1)
          BY <4>1, <4>2
        <4> QED BY <3>1, <3>2, <3>3, <4>1, <4>3 DEF IsChain
      <3>5. cursect' = SectorAt(cluster)' + j' /\ j' < vol'.bs.cluster_size
        <4>1. SectorAt(cluster)' = SectorAt(vol.fat[cluster])
          BY <1>1, <3>3 DEF SectorAt, ClusterSector, DataAt, DataSector, RootAt, RootSector
        <4>2. vol.fat[cluster] * vol.bs.cluster_size \in Int
          <5>1. vol.fat[cluster] \in Int /\ vol.bs.cluster_size \in Int
            <6>1. vol.fat[cluster] \in Int
              BY <3>3, ClusterNumber, Zenon
            <6> QED BY <6>1, <1>4
          <5> QED BY <5>1, Product
        <4>3. FirstSector(vol.fat[cluster]) = SectorAt(vol.fat[cluster])
              /\ SectorAt(vol.fat[cluster]) \in Int
          BY <1>3, <2>3, <4>2 DEF FirstSector, SectorAt, ClusterSector, DataAt
        <4> QED BY <1>1, <1>4, <3>3, <4>1, <4>3
      <3> QED BY <1>1, <2>4, <3>4, <3>5 DEF RootPosition
    <2>5. CASE mydata.fatsize = 32 /\ j + 1 # mydata.clust_size
      <3>1. cluster' = cluster /\ cursect' = cursect + 1 /\ j' = j + 1
        BY <2>5 DEF NextRootSector
      <3>2. /\ \E k \in DOMAIN vol.rootchain : cluster = vol.rootchain[k]
            /\ cursect = SectorAt(cluster) + j /\ j < vol.bs.cluster_size
        BY <1>1, <2>1, <2>5 DEF RootPosition
      <3>3. SectorAt(cluster)' = SectorAt(cluster) /\ SectorAt(cluster) \in Int
        <4>1. IsChain(vol.rootchain, vol.fat)
          BY <1>1, <1>3, <2>5
        <4>2. cluster \in Int
          <5>1. PICK k \in DOMAIN vol.rootchain : cluster = vol.rootchain[k]
            BY <3>2
          <5>2. vol.rootchain \in Seq(ClusterNums)
            BY <4>1 DEF IsChain
          <5>3. vol.rootchain[k] \in ClusterNums
            BY <5>2
          <5> QED BY <5>1, <5>3, ClusterNumber
        <4>3. cluster * vol.bs.cluster_size \in Int
          BY <4>2, <1>4, Product
        <4> QED BY <1>1, <2>3, <3>1, <4>3 DEF SectorAt, ClusterSector, DataAt, DataSector, RootAt, RootSector
      <3>4. cursect' = SectorAt(cluster)' + j' /\ j' < vol'.bs.cluster_size
        BY <1>1, <1>3, <1>4, <2>5, <3>1, <3>2, <3>3
      <3> QED BY <1>1, <2>5, <3>1, <3>2, <3>4 DEF RootPosition
    <2>6. CASE mydata.fatsize # 32
      <3>1. cursect' = cursect + 1 /\ j' = j + 1 /\ j + 1 # mydata.rootdir_size
        BY <2>2, <2>6 DEF NextRootSector
      <3>2. cursect = RootAt + j /\ j < RootDirSize(vol.bs)
        BY <1>1, <2>1, <2>6 DEF RootPosition
      <3>3. cursect' = RootAt' + j' /\ j' < RootDirSize(vol'.bs)
        BY <1>1, <1>3, <1>4, <2>1, <2>3, <3>1, <3>2
      <3> QED BY <1>1, <2>6, <3>3 DEF RootPosition
    <2> QED BY <2>4, <2>5, <2>6
  <1>7. RootPosition'
    BY <1>6 DEF RootPosition
  <1> QED BY <1>1, <1>2, <1>5, <1>7 DEF Recognised

\* The other steps leave the position where it is.
LEMMA RootKept ==
  ASSUME RootInv, UNCHANGED <<vol, part_offset, mydata, cursect, j>>,
         \/ pc' \in {"returned", "dirblock", "direntry"}
         \/ pc = "rootblock" /\ pc' = "rootentry" /\ cluster' = cluster
         \/ pc' = pc /\ cluster' = cluster,
         pc \in {"register", "mount"} => pc' = pc
  PROVE  RootInv'
  <1>1. Mounted'
    BY DEF RootInv, Mounted, Recognised
  <1>2. RootPosition'
    BY DEF RootInv, RootPosition, Readable, RootAt, RootSector, DataAt, DataSector, SectorAt, ClusterSector
  <1> QED BY <1>1, <1>2 DEF RootInv

\* On every card the code can read, the search of the root directory stays in it:
\* the sector at hand is the j-th of a cluster of the chain that the card's FAT
\* gives, or of the directory area in front of the data (fat.c:1118-1140).
THEOREM RootSearchStays == Spec => []RootPosition
  <1>1. Init => RootInv
    BY DEF Init, RootInv, Mounted, RootPosition
  <1>2. RootInv /\ [Next]_vars => RootInv'
    <2> SUFFICES ASSUME RootInv, [Next]_vars PROVE RootInv'
      OBVIOUS
    <2>1. CASE ReadBootSector
      BY <2>1, RootStart
    <2>2. CASE ReadRootBlock
      BY <2>2, RootKept DEF ReadRootBlock
    <2>3. CASE RootEntry
      BY <2>3, RootKept, ExamineStays DEF RootEntry
    <2>4. CASE NextRootSector
      BY <2>4, RootStep
    <2>5. CASE ReadDirBlock
      BY <2>5, RootKept DEF ReadDirBlock
    <2>6. CASE DirEntry
      BY <2>6, RootKept, ExamineStays DEF DirEntry
    <2>7. CASE NextDirCluster
      BY <2>7, RootKept DEF NextDirCluster
    <2>8. CASE Register
      BY <2>8 DEF Register, RootInv, Mounted, RootPosition
    <2>9. CASE UNCHANGED vars
      BY <2>9, RootKept DEF vars
    <2> QED BY <2>1, <2>2, <2>3, <2>4, <2>5, <2>6, <2>7, <2>8, <2>9 DEF Next
  <1>3. RootInv => RootPosition
    BY DEF RootInv
  <1> QED BY <1>1, <1>2, <1>3, PTL DEF Spec
-----------------------------------------------------------------------------
(* The entries that are read, and the types.                               *)

Directory(b) == b \in Seq(DirEntries)

LEMMA SectorEntries ==
  ASSUME NEW v \in Volumes, NEW s
  PROVE  Stored(v, s) \in [1..DIRENTSPERBLOCK -> DirEntries]
  <1>1. End \in DirEntries
    BY SizeAssumption DEF End, Entry, DirEntries
  <1> QED BY <1>1, CardAssumption DEF Stored

LEMMA PlaceInSector ==
  ASSUME NEW k \in Nat
  PROVE  (k % DIRENTSPERBLOCK) + 1 \in 1..DIRENTSPERBLOCK
  <1> USE SizeAssumption
  <1>1. k % DIRENTSPERBLOCK \in 0..(DIRENTSPERBLOCK - 1)
    OBVIOUS
  <1> QED BY <1>1

LEMMA AtLeastOnce ==
  ASSUME NEW m \in Nat \ {0}, NEW d \in Nat
  PROVE  m * d >= d
  <1>1. m * d = ((m - 1) * d) + d
    OBVIOUS
  <1>2. (m - 1) \in Nat
    OBVIOUS
  <1> DEFINE p == (m - 1) * d
  <1>3. p \in Nat
    BY <1>2
  <1> HIDE DEF p
  <1>4. p + d >= d
    BY <1>3
  <1> QED BY <1>1, <1>4 DEF p

LEMMA StoredEntries ==
  ASSUME NEW v \in Volumes, NEW s, NEW n \in Nat
  PROVE  Directory(StoredFrom(v, s, n)) /\ Len(StoredFrom(v, s, n)) = n * DIRENTSPERBLOCK
  <1> USE SizeAssumption
  <1> DEFINE size == n * DIRENTSPERBLOCK
             at(k) == Stored(v, s + ((k - 1) \div DIRENTSPERBLOCK))[((k - 1) % DIRENTSPERBLOCK) + 1]
  <1>1. size \in Nat
    OBVIOUS
  <1>2. StoredFrom(v, s, n) = [k \in 1..size |-> at(k)]
    BY DEF StoredFrom
  <1>3. ASSUME NEW k \in 1..size PROVE at(k) \in DirEntries
    <2> DEFINE sector == Stored(v, s + ((k - 1) \div DIRENTSPERBLOCK))
    <2>1. sector \in [1..DIRENTSPERBLOCK -> DirEntries]
      BY SectorEntries
    <2> HIDE DEF sector
    <2>2. ((k - 1) % DIRENTSPERBLOCK) + 1 \in 1..DIRENTSPERBLOCK
      <3>1. k - 1 \in Nat
        BY <1>1
      <3> QED BY <3>1, PlaceInSector
    <2> QED BY <2>1, <2>2 DEF sector
  <1> HIDE DEF size, at
  <1>4. StoredFrom(v, s, n) \in Seq(DirEntries) /\ Len(StoredFrom(v, s, n)) = size
    BY <1>1, <1>2, <1>3
  <1> QED BY <1>4 DEF Directory, size

LEMMA SectorsEntries ==
  ASSUME vol \in Volumes, NEW s, NEW n \in Nat
  PROVE  Directory(Sectors(s, n)) /\ Len(Sectors(s, n)) = n * DIRENTSPERBLOCK
  BY StoredEntries DEF Sectors

\* Whatever is taken for the entry a long name belongs to is an entry that was read.
LEMMA VfatEntry ==
  ASSUME vol \in Volumes, mydata.clust_size \in Nat \ {0}, NEW cur,
         NEW b, Directory(b), NEW n \in 1..Len(b)
  PROVE  GetVfatname(b, n, cur).dent \in DirEntries
  <1> USE SizeAssumption
  <1> DEFINE counter == Id(b[n])
             size == mydata.clust_size
             block == Sectors(FirstSector(vol.fat[cur]), size)
             all == size * DIRENTSPERBLOCK
  <1>1. b \in Seq(DirEntries) /\ Len(b) \in Nat /\ b[n] \in DirEntries
    BY DEF Directory
  <1>2. size \in Nat /\ size * DIRENTSPERBLOCK >= DIRENTSPERBLOCK
    BY AtLeastOnce
  <1>3. Directory(block) /\ Len(block) = all
    BY <1>2, SectorsEntries
  <1>4. ASSUME counter \in 1..VFAT_MAXSEQ
        PROVE  Ahead(b, n, cur, counter) \in DirEntries
    <2>1. counter \in Nat
      BY <1>4
    <2> HIDE DEF counter
    <2>2. CASE n + counter <= Len(b)
      <3>1. n + counter \in 1..Len(b)
        BY <1>1, <2>1, <2>2
      <3>2. b[n + counter] \in DirEntries
        BY <1>1, <3>1
      <3> QED BY <2>2, <3>2 DEF Ahead
    <2>3. CASE ~(n + counter <= Len(b))
      <3> DEFINE rest == n + counter - Len(b)
      <3>1. rest \in 1..DIRENTSPERBLOCK
        BY <1>1, <1>4, <2>3
      <3>2. all \in Int /\ all >= DIRENTSPERBLOCK /\ DIRENTSPERBLOCK \in Int
        BY <1>2
      <3> HIDE DEF rest, all, block, size
      <3>3. rest \in 1..Len(block)
        BY ONLY <1>3, <3>1, <3>2
      <3>4. block[rest] \in DirEntries
        BY <1>3, <3>3 DEF Directory
      <3> QED BY <2>3, <3>4 DEF Ahead, rest, block, size
    <2> QED BY <2>2, <2>3
  <1>5. \/ GetVfatname(b, n, cur) = Failed(b[n])
        \/ /\ counter \in 1..VFAT_MAXSEQ
           /\ GetVfatname(b, n, cur) = [dent |-> Ahead(b, n, cur, counter),
                                        l_name |-> Pieces(b, n, cur, counter)]
    BY ONLY DEF GetVfatname
  <1> HIDE DEF counter
  <1>6. Failed(b[n]).dent = b[n]
    BY DEF Failed
  <1> QED BY <1>1, <1>4, <1>5, <1>6

LEMMA VoiceEntry ==
  ASSUME vol \in Volumes, mydata.clust_size \in Nat \ {0}, NEW cur,
         NEW b, Directory(b), NEW n \in 1..Len(b)
  PROVE  Voice(b, n, cur).dent \in DirEntries
  <1>1. b[n] \in DirEntries
    BY DEF Directory
  <1> QED BY <1>1, VfatEntry DEF Voice, Failed

Searched ==
  /\ path \in Seq(Names) /\ path # <<>> /\ asked \in Seq(Names) /\ part_offset \in Nat
  /\ pc \in {"register", "mount", "rootblock", "rootentry", "dirblock", "direntry", "returned"}
  /\ cluster \in Nat /\ (InClusters => cluster \in ClusterNums)
  /\ cursect \in Int /\ j \in Nat /\ i \in Nat /\ found \in Files \cup {"none", "other"}

\* What the loops over the entries rely on: the block is as long as they run.
BlockRead ==
  /\ pc \in {"rootblock", "rootentry", "dirblock", "direntry"} => mydata.fatsize # 0
  /\ pc \in {"rootentry", "direntry"} => Directory(buf) /\ i >= 1
  /\ pc = "rootentry" => Len(buf) >= DIRENTSPERBLOCK
  /\ pc = "direntry" => Len(buf) = DirentsPerClust

EntryInv == Mounted /\ Searched /\ BlockRead

LEMMA MountedFields ==
  ASSUME Mounted
  PROVE  /\ vol \in Volumes /\ mydata.fatsize \in {0, 12, 16, 32}
         /\ mydata.rootdir_sect \in 0..(FieldModulus - 1)
         /\ mydata.fatsize # 0 => mydata.clust_size \in Nat \ {0} /\ mydata.data_begin \in Int
                                    /\ mydata = Geometry(vol.bs)
  <1>1. vol \in Volumes
    BY DEF Mounted
  <1>2. CASE mydata = NoGeometry
    BY <1>1, <1>2, HalfOfModulus DEF NoGeometry
  <1>3. CASE mydata = Geometry(vol.bs)
    <2>1. mydata.fatsize = FatSize(vol.bs) /\ mydata.clust_size = vol.bs.cluster_size
      BY <1>3 DEF Geometry
    <2> QED BY <1>1, <1>3, <2>1, Fields, BeginsAt, DataBeginExact
  <1> QED BY <1>1, <1>2, <1>3 DEF Mounted

LEMMA TypesFollow == EntryInv => TypeOK
  BY MountedFields DEF EntryInv, Searched, TypeOK

LEMMA ShortPath ==
  ASSUME NEW n \in Nat \ {0}, NEW p \in [1..n -> Names]
  PROVE  p \in Seq(Names) /\ Len(p) = n /\ p # <<>>
  <1>1. p = [k \in 1..n |-> p[k]] /\ \A k \in 1..n : p[k] \in Names
    OBVIOUS
  <1>2. [k \in 1..n |-> p[k]] \in Seq(Names) /\ Len([k \in 1..n |-> p[k]]) = n
    BY <1>1
  <1>3. p \in Seq(Names) /\ Len(p) = n
    BY <1>1, <1>2
  <1> QED BY <1>3

LEMMA Paths ==
  ASSUME NEW p, p \in Seq(Names), p # <<>>
  PROVE  /\ p[1] \in Names /\ p[1].file \in Files
         /\ Len(p) # 1 => Tail(p) \in Seq(Names) /\ Tail(p) # <<>>
  <1> USE SizeAssumption
  <1>1. p[1] \in Names /\ Len(p) \in Nat
    OBVIOUS
  <1>2. p[1].file \in Files
    BY <1>1 DEF Names, Name
  <1>3. ASSUME Len(p) # 1 PROVE Tail(p) \in Seq(Names) /\ Tail(p) # <<>>
    <2>1. Tail(p) \in Seq(Names) /\ Len(Tail(p)) = Len(p) - 1
      OBVIOUS
    <2>2. Len(p) # 0
      OBVIOUS
    <2>3. Len(Tail(p)) # 0
      BY <1>1, <1>3, <2>1, <2>2
    <2> QED BY <2>1, <2>3
  <1> QED BY <1>1, <1>2, <1>3

\* A turn of the loop over the entries of a block.
LEMMA Turn ==
  ASSUME NEW cur, Examine(cur)
  PROVE  LET e == buf[i]
             v == Voice(buf, i, cur)
             crossed == e.kind \in {"deleted", "slot", "digits"}
             ended == e.kind = "end" \/ (pc = "direntry" /\ v.dent.kind = "end")
         IN  \/ /\ crossed \/ (~ended /\ ~Matches(v, path[1]))
                /\ e.kind # "end" /\ i' = i + 1
                /\ buf' = buf \/ buf' = [buf EXCEPT ![i] = v.dent]
                /\ UNCHANGED <<path, pc, cluster, found>>
             \/ ~crossed /\ ended /\ Return("none")
             \/ ~crossed /\ ~ended /\ Matches(v, path[1]) /\ Enter(v.dent)
  <1> DEFINE e == buf[i]
             v == Voice(buf, i, cur)
             crossed == e.kind \in {"deleted", "slot", "digits"}
             ended == e.kind = "end" \/ (pc = "direntry" /\ v.dent.kind = "end")
  <1>1. IF crossed
        THEN i' = i + 1 /\ UNCHANGED <<path, pc, cluster, buf, found>>
        ELSE /\ buf' = [buf EXCEPT ![i] = v.dent]
             /\ IF ended THEN Return("none")
                ELSE IF Matches(v, path[1]) THEN Enter(v.dent)
                ELSE i' = i + 1 /\ UNCHANGED <<path, pc, cluster, found>>
    BY Zenon DEF Examine
  <1>2. crossed => e.kind # "end"
    OBVIOUS
  <1>3. ~ended => e.kind # "end"
    OBVIOUS
  <1>4. SUFFICES \/ /\ crossed \/ (~ended /\ ~Matches(v, path[1]))
                    /\ e.kind # "end" /\ i' = i + 1
                    /\ buf' = buf \/ buf' = [buf EXCEPT ![i] = v.dent]
                    /\ UNCHANGED <<path, pc, cluster, found>>
                 \/ ~crossed /\ ended /\ Return("none")
                 \/ ~crossed /\ ~ended /\ Matches(v, path[1]) /\ Enter(v.dent)
    BY Zenon
  <1> HIDE DEF v, crossed, ended, e
  <1> QED BY <1>1, <1>2, <1>3

LEMMA ExamineEntry ==
  ASSUME EntryInv, NEW cur, Examine(cur), pc \in {"rootentry", "direntry"}, i \in 1..Len(buf),
         UNCHANGED <<vol, part_offset, mydata, asked, cursect, j>>
  PROVE  EntryInv'
  <1> USE SizeAssumption
  <1> DEFINE v == Voice(buf, i, cur)
             dent == v.dent
  <1>1. /\ vol \in Volumes /\ mydata.fatsize # 0 /\ mydata.clust_size \in Nat \ {0}
        /\ Directory(buf)
    BY MountedFields DEF EntryInv, BlockRead, Directory
  <1>2. dent \in DirEntries
    BY <1>1, VoiceEntry
  <1>3. /\ path \in Seq(Names) /\ path # <<>> /\ path[1].file \in Files
        /\ Len(path) # 1 => Tail(path) \in Seq(Names) /\ Tail(path) # <<>>
    BY Paths DEF EntryInv, Searched
  <1>4. Mounted'
    <2>1. pc' \notin {"register", "mount"}
      BY ExamineStays
    <2> QED BY <2>1 DEF EntryInv, Mounted, Recognised
  <1>5. \/ i' = i + 1 /\ UNCHANGED <<path, pc, cluster, found>>
             /\ (buf' = buf \/ buf' = [buf EXCEPT ![i] = dent])
        \/ Return("none")
        \/ Enter(dent) /\ Matches(v, path[1])
    BY Turn
  <1>6. dent.kind = "short" => dent.file \in Files \cup {"none"}
    BY <1>2 DEF DirEntries
  <1> HIDE DEF v
  <1>7. CASE i' = i + 1 /\ UNCHANGED <<path, pc, cluster, found>>
             /\ (buf' = buf \/ buf' = [buf EXCEPT ![i] = dent])
    <2>1. Directory(buf') /\ Len(buf') = Len(buf)
      <3>1. buf \in Seq(DirEntries) /\ [buf EXCEPT ![i] = dent] \in Seq(DirEntries)
            /\ Len([buf EXCEPT ![i] = dent]) = Len(buf)
        BY <1>1, <1>2 DEF Directory
      <3> QED BY <1>7, <3>1 DEF Directory
    <2>2. Searched'
      BY <1>7 DEF EntryInv, Searched, InClusters
    <2>3. BlockRead'
      BY <1>7, <2>1 DEF EntryInv, Searched, BlockRead, DirentsPerClust
    <2> QED BY <1>4, <2>2, <2>3 DEF EntryInv
  <1>8. ASSUME NEW f \in Files \cup {"none", "other"}, Return(f) PROVE EntryInv'
    BY <1>4, <1>8 DEF Return, EntryInv, Searched, BlockRead, InClusters
  <1>9. CASE Enter(dent)
    <2>1. CASE Len(path) # 1 /\ dent.kind = "short" /\ dent.file \in DOMAIN DirStart
      <3>1. DirStart[dent.file] \in ClusterNums
        BY <2>1, DirAssumption
      <3>2. /\ pc' = "dirblock" /\ cluster' = DirStart[dent.file] /\ path' = Tail(path)
            /\ UNCHANGED <<i, found>>
        BY <1>9, <2>1 DEF Enter
      <3>3. path' \in Seq(Names) /\ path' # <<>> /\ cluster' \in Nat /\ cluster' \in ClusterNums
        BY ClusterAssumption, <1>3, <2>1, <3>1, <3>2
      <3>4. Searched'
        BY <3>2, <3>3 DEF EntryInv, Searched, InClusters
      <3>5. BlockRead'
        BY <1>1, <3>2 DEF BlockRead
      <3> QED BY <1>4, <3>4, <3>5 DEF EntryInv
    <2>2. CASE ~(Len(path) # 1 /\ dent.kind = "short" /\ dent.file \in DOMAIN DirStart)
      BY <1>6, <1>8, <1>9, <2>2 DEF Enter
    <2> QED BY <2>1, <2>2
  <1> QED BY <1>5, <1>7, <1>8, <1>9

\* What get_fatent gives is a number, and a cluster once CHECK_CLUST let it pass.
LEMMA FatNumber ==
  ASSUME vol \in Volumes, NEW c \in ClusterNums
  PROVE  vol.fat[c] \in Nat /\ (~CheckClust(vol.fat[c]) => vol.fat[c] \in ClusterNums)
  BY CardAssumption DEF CheckClust

LEMMA SectorNumber ==
  ASSUME Mounted, mydata.fatsize # 0, NEW c \in Nat
  PROVE  FirstSector(c) \in Int
  <1>1. mydata.clust_size \in Nat /\ mydata.data_begin \in Int
    BY MountedFields
  <1>2. c * mydata.clust_size \in Int
    BY <1>1
  <1> QED BY <1>1, <1>2 DEF FirstSector

LEMMA MountStep ==
  ASSUME EntryInv, ReadBootSector
  PROVE  EntryInv'
  <1> USE SizeAssumption, ClusterAssumption, VolumeAssumption
  <1>1. Mounted'
    BY DEF EntryInv, ReadBootSector, Mounted, Recognised
  <1>2. CASE ~Recognised
    BY <1>1, <1>2 DEF ReadBootSector, EntryInv, Searched, BlockRead, InClusters
  <1>3. CASE Recognised
    <2>1. vol \in Volumes
      BY DEF EntryInv, Mounted
    <2>2. /\ pc' = "rootblock" /\ mydata' = Geometry(vol.bs) /\ cluster' = vol.bs.root_cluster
          /\ cursect' = Geometry(vol.bs).rootdir_sect
          /\ UNCHANGED <<vol, part_offset, asked, path, j, buf, i, found>>
      BY <1>3 DEF ReadBootSector
    <2>3. mydata'.fatsize = FatSize(vol.bs) /\ mydata'.fatsize # 0 /\ cursect' \in Int
      BY <1>3, <2>1, <2>2, BeginsAt, HalfOfModulus DEF Geometry, Recognised
    <2>4. cluster' \in Nat
      <3>1. vol.bs \in BootSectors
        BY <2>1
      <3> QED BY <2>2, <3>1 DEF BootSectors
    <2>5. mydata'.fatsize = 32 => cluster' \in ClusterNums
      <3>1. SUFFICES ASSUME FatSize(vol.bs) = 32 PROVE vol.bs.root_cluster \in ClusterNums
        BY <2>2, <2>3
      <3>2. IsChain(vol.rootchain, vol.fat) /\ vol.rootchain[1] = vol.bs.root_cluster
        BY <2>1, <3>1
      <3>3. vol.rootchain \in Seq(ClusterNums) /\ vol.rootchain # <<>>
        BY <3>2 DEF IsChain
      <3>4. 1 \in DOMAIN vol.rootchain
        BY <3>3
      <3> QED BY <3>2, <3>3, <3>4
    <2> QED BY <1>1, <2>2, <2>3, <2>4, <2>5 DEF EntryInv, Searched, BlockRead, InClusters
  <1> QED BY <1>2, <1>3

LEMMA RootBlockStep ==
  ASSUME EntryInv, ReadRootBlock
  PROVE  EntryInv'
  <1> USE SizeAssumption
  <1> DEFINE n == IF mydata.fatsize = 32 THEN mydata.clust_size ELSE PrefetchSectors
  <1>1. /\ pc = "rootblock" /\ pc' = "rootentry" /\ buf' = Sectors(cursect, n) /\ i' = 1
        /\ UNCHANGED <<vol, part_offset, mydata, asked, path, cluster, cursect, j, found>>
    BY DEF ReadRootBlock
  <1>2. vol \in Volumes /\ mydata.fatsize # 0 /\ n \in Nat \ {0}
    BY <1>1, MountedFields DEF EntryInv, BlockRead
  <1> HIDE DEF n
  <1>3. Directory(buf') /\ Len(buf') = n * DIRENTSPERBLOCK
    BY <1>1, <1>2, SectorsEntries
  <1>4. n * DIRENTSPERBLOCK >= DIRENTSPERBLOCK
    BY <1>2
  <1>5. Mounted' /\ Searched'
    BY <1>1 DEF EntryInv, Mounted, Recognised, Searched, InClusters
  <1>6. BlockRead'
    BY <1>1, <1>2, <1>3, <1>4 DEF BlockRead
  <1> QED BY <1>5, <1>6 DEF EntryInv

LEMMA DirBlockStep ==
  ASSUME EntryInv, ReadDirBlock
  PROVE  EntryInv'
  <1>1. /\ pc = "dirblock" /\ pc' = "direntry" /\ i' = 1
        /\ buf' = Sectors(FirstSector(cluster), mydata.clust_size)
        /\ UNCHANGED <<vol, part_offset, mydata, asked, path, cluster, cursect, j, found>>
    BY DEF ReadDirBlock
  <1>2. vol \in Volumes /\ mydata.fatsize # 0 /\ mydata.clust_size \in Nat \ {0}
    BY <1>1, MountedFields DEF EntryInv, BlockRead
  <1>3. Directory(buf') /\ Len(buf') = DirentsPerClust
    BY <1>1, <1>2, SectorsEntries DEF DirentsPerClust
  <1>4. Mounted' /\ Searched'
    BY <1>1 DEF EntryInv, Mounted, Recognised, Searched, InClusters
  <1>5. BlockRead'
    BY <1>1, <1>2, <1>3 DEF BlockRead, DirentsPerClust
  <1> QED BY <1>4, <1>5 DEF EntryInv

LEMMA NextRootStep ==
  ASSUME EntryInv, NextRootSector
  PROVE  EntryInv'
  <1>1. /\ pc = "rootentry" /\ pc' \in {"returned", "rootblock"}
        /\ UNCHANGED <<vol, part_offset, mydata, asked, path, buf, i, found>>
    BY DEF NextRootSector
  <1>2. vol \in Volumes /\ mydata.fatsize # 0 /\ Mounted
    BY <1>1, MountedFields DEF EntryInv, BlockRead
  <1>3. Mounted' /\ BlockRead'
    BY <1>1, <1>2 DEF Mounted, Recognised, BlockRead
  <1>4. CASE mydata.fatsize = 32 /\ j + 1 = mydata.clust_size
    <2>1. cluster \in ClusterNums
      BY <1>1, <1>4 DEF EntryInv, Searched, InClusters
    <2>2. /\ cluster' = vol.fat[cluster] /\ cursect' = FirstSector(vol.fat[cluster]) /\ j' = 0
          /\ pc' = IF CheckClust(vol.fat[cluster]) THEN "returned" ELSE "rootblock"
      BY <1>4 DEF NextRootSector, FirstSector
    <2>3. cluster' \in Nat /\ (pc' = "rootblock" => cluster' \in ClusterNums)
      BY <1>2, <2>1, <2>2, FatNumber
    <2>4. cursect' \in Int
      BY <1>2, <2>2, <2>3, SectorNumber
    <2>5. Searched'
      BY <1>1, <2>2, <2>3, <2>4 DEF EntryInv, Searched, InClusters
    <2> QED BY <1>3, <2>5 DEF EntryInv
  <1>5. CASE ~(mydata.fatsize = 32 /\ j + 1 = mydata.clust_size)
    <2>1. cluster' = cluster /\ cursect' = cursect + 1 /\ j' = j + 1
      BY <1>5 DEF NextRootSector
    <2>2. Searched'
      BY <1>1, <2>1 DEF EntryInv, Searched, InClusters
    <2> QED BY <1>3, <2>2 DEF EntryInv
  <1> QED BY <1>4, <1>5

LEMMA NextClusterStep ==
  ASSUME EntryInv, NextDirCluster
  PROVE  EntryInv'
  <1>1. /\ pc = "direntry" /\ cluster' = vol.fat[cluster]
        /\ pc' = IF CheckClust(vol.fat[cluster]) THEN "returned" ELSE "dirblock"
        /\ UNCHANGED <<vol, part_offset, mydata, asked, path, cursect, j, buf, i, found>>
    BY DEF NextDirCluster
  <1>2. vol \in Volumes /\ mydata.fatsize # 0 /\ cluster \in ClusterNums
    BY <1>1, MountedFields DEF EntryInv, BlockRead, Searched, InClusters
  <1>3. cluster' \in Nat /\ (pc' = "dirblock" => cluster' \in ClusterNums)
    BY <1>1, <1>2, FatNumber
  <1>4. Searched'
    BY <1>1, <1>3 DEF EntryInv, Searched, InClusters
  <1>5. Mounted' /\ BlockRead'
    BY <1>1, <1>2 DEF EntryInv, Mounted, Recognised, BlockRead
  <1> QED BY <1>4, <1>5 DEF EntryInv

LEMMA EntryInvariant ==
  /\ Init => EntryInv
  /\ EntryInv /\ [Next]_vars => EntryInv'
  <1> USE SizeAssumption
  <1>1. Init => EntryInv
    <2> SUFFICES ASSUME Init PROVE EntryInv
      OBVIOUS
    <2>1. asked \in Seq(Names) /\ asked # <<>>
      <3>1. CASE asked \in [1..1 -> Names]
        <4> DEFINE len == 1
        <4>1. len \in Nat \ {0} /\ asked \in [1..len -> Names]
          BY <3>1
        <4> HIDE DEF len
        <4> QED BY <4>1, ShortPath
      <3>2. CASE asked \in [1..2 -> Names]
        <4> DEFINE len == 2
        <4>1. len \in Nat \ {0} /\ asked \in [1..len -> Names]
          BY <3>2
        <4> HIDE DEF len
        <4> QED BY <4>1, ShortPath
      <3> QED BY <3>1, <3>2 DEF Init
    <2>2. Mounted
      BY DEF Init, Mounted
    <2> QED BY <2>1, <2>2 DEF Init, EntryInv, Searched, BlockRead, InClusters
  <1>2. EntryInv /\ [Next]_vars => EntryInv'
    <2> SUFFICES ASSUME EntryInv, [Next]_vars PROVE EntryInv'
      OBVIOUS
    <2>1. CASE Register
      <3>1. vol.entry \in Nat
        BY CardAssumption DEF EntryInv, Mounted
      <3>2. part_offset' \in Nat
        BY <2>1, <3>1 DEF Register, EntryInv, Searched
      <3> QED BY <2>1, <3>2 DEF Register, EntryInv, Mounted, Searched, BlockRead, InClusters
    <2>2. CASE ReadBootSector
      BY <2>2, MountStep
    <2>3. CASE ReadRootBlock
      BY <2>3, RootBlockStep
    <2>4. CASE RootEntry
      <3>1. i \in 1..Len(buf)
        <4>1. Len(buf) \in Nat
          BY <2>4 DEF RootEntry, EntryInv, BlockRead, Directory
        <4> QED BY <2>4, <4>1 DEF RootEntry, EntryInv, Searched, BlockRead
      <3> QED BY <2>4, <3>1, ExamineEntry DEF RootEntry
    <2>5. CASE NextRootSector
      BY <2>5, NextRootStep
    <2>6. CASE ReadDirBlock
      BY <2>6, DirBlockStep
    <2>7. CASE DirEntry
      <3>1. i \in 1..Len(buf)
        <4>1. Len(buf) \in Nat
          BY <2>7 DEF DirEntry, EntryInv, BlockRead, Directory
        <4> QED BY <2>7, <4>1 DEF DirEntry, EntryInv, Searched, BlockRead
      <3> QED BY <2>7, <3>1, ExamineEntry DEF DirEntry
    <2>8. CASE NextDirCluster
      BY <2>8, NextClusterStep
    <2>9. CASE UNCHANGED vars
      BY <2>9 DEF vars, EntryInv, Mounted, Recognised, Searched, BlockRead, InClusters,
                  DirentsPerClust
    <2> QED BY <2>1, <2>2, <2>3, <2>4, <2>5, <2>6, <2>7, <2>8, <2>9 DEF Next
  <1> QED BY <1>1, <1>2

\* On every card, also those the code cannot read: no step reads a cluster that is not
\* the volume's, no loop runs past the block it searches, and what is returned is a
\* file of the card or nothing, although entries are written over the slots of the
\* block (fat.c:502-585, 608-765, 841-1196).
THEOREM TypeCorrect == Spec => []TypeOK
  BY EntryInvariant, TypesFollow, PTL DEF Spec

-----------------------------------------------------------------------------
(* Where the entries of a directory lie.                                   *)

LEMMA Division ==
  ASSUME NEW n \in Nat, NEW d \in Nat \ {0}
  PROVE  /\ n \div d \in Nat /\ n % d \in 0..(d - 1)
         /\ n = ((n \div d) * d) + (n % d)
  OBVIOUS

LEMMA SmallerFactor ==
  ASSUME NEW a \in Nat, NEW b \in Nat, NEW d \in Nat, a * d < b * d
  PROVE  a < b
  <1>1. ASSUME a >= b PROVE FALSE
    <2> DEFINE c == a - b
    <2>1. c \in Nat /\ a = c + b
      BY <1>1
    <2> HIDE DEF c
    <2>2. a * d = (c * d) + (b * d) /\ c * d \in Nat /\ b * d \in Nat
      BY <2>1
    <2> QED BY <2>2
  <1> QED BY <1>1

\* Quotient and remainder are the only ones.
LEMMA DivisionUnique ==
  ASSUME NEW d \in Nat \ {0}, NEW q \in Nat, NEW r \in 0..(d - 1)
  PROVE  ((q * d) + r) \div d = q /\ ((q * d) + r) % d = r
  <1> DEFINE n == (q * d) + r
             p == n \div d
             s == n % d
  <1>1. n \in Nat
    OBVIOUS
  <1>2. p \in Nat /\ s \in 0..(d - 1) /\ n = (p * d) + s
    BY <1>1, Division
  <1> HIDE DEF p, s
  <1>3. ASSUME p > q PROVE FALSE
    <2>1. p * d >= (q * d) + d
      BY <1>2, <1>3
    <2> QED BY <1>2, <2>1
  <1>4. ASSUME q > p PROVE FALSE
    <2>1. q * d >= (p * d) + d
      BY <1>2, <1>4
    <2> QED BY <1>2, <2>1
  <1>5. p = q
    BY <1>2, <1>3, <1>4
  <1>6. s = r
    BY <1>2, <1>5
  <1> QED BY <1>5, <1>6 DEF p, s

\* Every place in n blocks of d is one of a block, and the other way round.
LEMMA PlaceInBlocks ==
  ASSUME NEW d \in Nat \ {0}, NEW n \in Nat
  PROVE  /\ \A m \in 1..(n * d) : \E q \in 0..(n - 1), x \in 1..d : m = (q * d) + x
         /\ \A q \in 0..(n - 1), x \in 1..d :
              /\ (q * d) + x \in 1..(n * d)
              /\ (((q * d) + x) - 1) \div d = q /\ ((((q * d) + x) - 1) % d) + 1 = x
  <1>1. ASSUME NEW m \in 1..(n * d) PROVE \E q \in 0..(n - 1), x \in 1..d : m = (q * d) + x
    <2> DEFINE q == (m - 1) \div d
               r == (m - 1) % d
               all == n * d
    <2>1. all \in Nat /\ m - 1 \in Nat /\ m <= all
      OBVIOUS
    <2>2. q \in Nat /\ r \in 0..(d - 1) /\ m - 1 = (q * d) + r
      BY <2>1, Division
    <2> HIDE DEF q, r
    <2>3. q * d < n * d
      <3> DEFINE left == q * d
      <3>1. left \in Nat
        BY <2>2
      <3> HIDE DEF left
      <3>2. left < all
        BY <2>1, <2>2, <3>1 DEF left
      <3> QED BY <3>2 DEF left
    <2>4. q < n
      BY <2>2, <2>3, SmallerFactor
    <2>5. q \in 0..(n - 1) /\ r + 1 \in 1..d /\ m = (q * d) + (r + 1)
      BY <2>1, <2>2, <2>4
    <2> QED BY <2>5
  <1>2. ASSUME NEW q \in 0..(n - 1), NEW x \in 1..d
        PROVE  /\ (q * d) + x \in 1..(n * d)
               /\ (((q * d) + x) - 1) \div d = q /\ ((((q * d) + x) - 1) % d) + 1 = x
    <2> DEFINE left == q * d
               rest == (n - 1 - q) * d
               all == n * d
    <2>1. left \in Nat /\ rest \in Nat /\ all = left + rest + d
      OBVIOUS
    <2>2. x - 1 \in 0..(d - 1) /\ q \in Nat
      OBVIOUS
    <2>3. (left + (x - 1)) \div d = q /\ (left + (x - 1)) % d = x - 1
      BY <2>2, DivisionUnique
    <2> HIDE DEF left, rest, all
    <2>4. (left + x) - 1 = left + (x - 1) /\ left + x \in 1..all
      BY <2>1
    <2>5. ((left + x) - 1) \div d = q /\ ((left + x) - 1) % d = x - 1
      BY <2>3, <2>4
    <2> QED BY <2>4, <2>5 DEF left, all
  <1> QED BY <1>1, <1>2

LEMMA StoredPlace ==
  ASSUME NEW v, NEW s, NEW n \in Nat, NEW q \in 0..(n - 1), NEW x \in 1..DIRENTSPERBLOCK
  PROVE  /\ (q * DIRENTSPERBLOCK) + x \in 1..(n * DIRENTSPERBLOCK)
         /\ StoredFrom(v, s, n)[(q * DIRENTSPERBLOCK) + x] = Stored(v, s + q)[x]
  <1> DEFINE at == (q * DIRENTSPERBLOCK) + x
             all == n * DIRENTSPERBLOCK
  <1>1. DIRENTSPERBLOCK \in Nat \ {0}
    BY SizeAssumption
  <1>2. at \in 1..all /\ (at - 1) \div DIRENTSPERBLOCK = q /\ ((at - 1) % DIRENTSPERBLOCK) + 1 = x
    BY <1>1, PlaceInBlocks
  <1> HIDE DEF at, all
  <1>3. StoredFrom(v, s, n)[at] =
          Stored(v, s + ((at - 1) \div DIRENTSPERBLOCK))[((at - 1) % DIRENTSPERBLOCK) + 1]
    BY <1>2 DEF StoredFrom, all
  <1> QED BY <1>2, <1>3 DEF at, all

\* Reading from a later sector on is reading on.
LEMMA StoredLater ==
  ASSUME NEW v, NEW s \in Int, NEW n \in Nat, NEW many \in Nat, NEW later \in Nat,
         NEW m \in 1..(many * DIRENTSPERBLOCK),
         (later * DIRENTSPERBLOCK) + m <= n * DIRENTSPERBLOCK
  PROVE  StoredFrom(v, s + later, many)[m] = StoredFrom(v, s, n)[(later * DIRENTSPERBLOCK) + m]
  <1> DEFINE d == DIRENTSPERBLOCK
  <1>1. d \in Nat \ {0}
    BY SizeAssumption
  <1>2. PICK q \in 0..(many - 1), x \in 1..d : m = (q * d) + x
    BY <1>1, PlaceInBlocks
  <1>3. StoredFrom(v, s + later, many)[(q * d) + x] = Stored(v, (s + later) + q)[x]
    BY StoredPlace
  <1>4. (later * d) + m = ((later + q) * d) + x
    <2>1. (later + q) * d = (later * d) + (q * d) /\ later * d \in Nat /\ q * d \in Nat
      BY <1>1
    <2> HIDE DEF d
    <2> QED BY <1>2, <2>1
  <1>5. later + q \in 0..(n - 1)
    <2> DEFINE left == (later + q) * d
               all == n * d
    <2>1. left \in Nat /\ all \in Nat
      BY <1>1
    <2>2. left + x <= all
      BY <1>4
    <2>3. left < all
      <3> HIDE DEF left, all, d
      <3> QED BY <2>1, <2>2, <1>1
    <2>4. later + q < n
      BY <1>1, <2>3, SmallerFactor
    <2> QED BY <2>4
  <1>6. StoredFrom(v, s, n)[((later + q) * d) + x] = Stored(v, s + (later + q))[x]
    BY <1>5, StoredPlace
  <1>7. (s + later) + q = s + (later + q)
    OBVIOUS
  <1> QED BY <1>2, <1>3, <1>4, <1>6, <1>7

ClusterEntries(v) == v.bs.cluster_size * DIRENTSPERBLOCK

LEMMA ClusterEntriesType ==
  ASSUME NEW v \in Volumes
  PROVE  /\ v.bs.cluster_size \in Nat \ {0} /\ ClusterEntries(v) \in Nat \ {0}
         /\ ClusterEntries(v) >= DIRENTSPERBLOCK
  <1>1. v.bs.cluster_size \in Nat \ {0} /\ DIRENTSPERBLOCK \in Nat \ {0}
    BY Fields, SizeAssumption
  <1>2. v.bs.cluster_size * DIRENTSPERBLOCK >= DIRENTSPERBLOCK
    BY <1>1, AtLeastOnce
  <1>3. v.bs.cluster_size * DIRENTSPERBLOCK \in Nat
    BY <1>1
  <1> QED BY <1>1, <1>2, <1>3 DEF ClusterEntries

LEMMA ChainPlace ==
  ASSUME NEW v \in Volumes, NEW chain \in Seq(ClusterNums), NEW k \in 1..Len(chain),
         NEW m \in 1..ClusterEntries(v)
  PROVE  /\ ((k - 1) * ClusterEntries(v)) + m \in 1..(Len(chain) * ClusterEntries(v))
         /\ InChain(v, chain)[((k - 1) * ClusterEntries(v)) + m]
              = StoredFrom(v, ClusterSector(v.bs, chain[k]), v.bs.cluster_size)[m]
  <1> DEFINE size == ClusterEntries(v)
             at == ((k - 1) * size) + m
             all == Len(chain) * size
             n == Len(chain)
             held(p) == StoredFrom(v, ClusterSector(v.bs, chain[((p - 1) \div size) + 1]),
                                   v.bs.cluster_size)[((p - 1) % size) + 1]
  <1>1. size \in Nat \ {0} /\ n \in Nat /\ k - 1 \in 0..(n - 1) /\ m \in 1..size
    BY ClusterEntriesType
  <1>2. at \in 1..all /\ (at - 1) \div size = k - 1 /\ ((at - 1) % size) + 1 = m
    <2> DEFINE before == k - 1
    <2>1. before \in 0..(n - 1)
      BY <1>1
    <2> HIDE DEF size, n, before
    <2>2. /\ (before * size) + m \in 1..(n * size)
          /\ (((before * size) + m) - 1) \div size = before
          /\ ((((before * size) + m) - 1) % size) + 1 = m
      BY <1>1, <2>1, PlaceInBlocks
    <2> QED BY <2>2 DEF before, n
  <1>3. InChain(v, chain) = [p \in 1..all |-> held(p)]
    BY DEF InChain, ClusterEntries
  <1> HIDE DEF at, all, size
  <1>4. InChain(v, chain)[at] = held(at)
    BY <1>2, <1>3
  <1>5. (k - 1) + 1 = k
    OBVIOUS
  <1> QED BY <1>2, <1>4, <1>5 DEF at, all, size

LEMMA ChainLength ==
  ASSUME NEW v \in Volumes, NEW chain \in Seq(ClusterNums)
  PROVE  DOMAIN InChain(v, chain) = 1..(Len(chain) * ClusterEntries(v))
  BY DEF InChain, ClusterEntries

-----------------------------------------------------------------------------
(* What get_vfatname makes of the slots of a long name.                    *)

LEMMA SlotsType ==
  ASSUME NEW f \in Files
  PROVE  Slots[f] \in 0..(DIRENTSPERBLOCK - 1) /\ Slots[f] \in Nat
  BY SizeAssumption

LEMMA OneMore ==
  ASSUME NEW S, NEW a \in Seq(S), NEW x \in S
  PROVE  /\ \A k \in 1..Len(a) : (a \o <<x>>)[k] = a[k]
         /\ (a \o <<x>>)[Len(a) + 1] = x
  OBVIOUS

LEMMA GroupEntries ==
  ASSUME NEW f \in Files
  PROVE  /\ \A k \in 1..Slots[f] :
              Group(f)[k] = Entry(IF k = 1 THEN "last" ELSE "slot", f, Slots[f] + (1 - k))
         /\ Group(f)[Slots[f] + 1] = Short(f)
  <1> DEFINE n == Slots[f]
             slot(k) == Entry(IF k = 1 THEN "last" ELSE "slot", f, Slots[f] + 1 - k)
             slots == [k \in 1..n |-> slot(k)]
             All == {slot(k) : k \in 1..n} \cup {Short(f)}
  <1>1. n \in Nat
    BY SlotsType
  <1>2. Group(f) = slots \o <<Short(f)>>
    BY DEF Group
  <1>3. Short(f) \in All /\ \A k \in 1..n : slot(k) \in All
    OBVIOUS
  <1>5. \A k \in 1..n : slot(k) = Entry(IF k = 1 THEN "last" ELSE "slot", f, n + (1 - k))
    OBVIOUS
  <1> HIDE DEF n, slot, All
  <1>6. slots \in Seq(All) /\ Len(slots) = n /\ \A k \in 1..n : slots[k] = slot(k)
    BY <1>1, <1>3
  <1> HIDE DEF slots
  <1>7. /\ \A k \in 1..n : Group(f)[k] = slots[k]
        /\ Group(f)[n + 1] = Short(f)
    BY <1>2, <1>3, <1>6, OneMore
  <1> QED BY <1>5, <1>6, <1>7 DEF n

LEMMA GroupRead ==
  ASSUME NEW dir, NEW p \in Int, GroupAt(dir, p), NEW f, f = dir[p].file
  PROVE  /\ f \in Files /\ Slots[f] \in Nat \ {0} /\ p + Slots[f] \in DOMAIN dir
         /\ \A k \in 0..(Slots[f] - 1) :
              /\ dir[p + k].file = f /\ dir[p + k].seq = Slots[f] - k
              /\ Id(dir[p + k]) = Slots[f] - k
              /\ dir[p + k].kind = IF k = 0 THEN "last" ELSE "slot"
         /\ dir[p + Slots[f]] = Short(f)
  <1> DEFINE n == Slots[f]
  <1>1. f \in Files /\ n \in Nat \ {0} /\ p + n \in DOMAIN dir
    BY SlotsType DEF GroupAt
  <1>2. \A k \in 1..(n + 1) : dir[p + (k - 1)] = Group(f)[k]
    BY <1>1 DEF GroupAt
  <1>3. \A k \in 1..n : Group(f)[k] = Entry(IF k = 1 THEN "last" ELSE "slot", f, n + (1 - k))
    BY <1>1, GroupEntries
  <1>4. Group(f)[n + 1] = Short(f)
    BY <1>1, GroupEntries
  <1> HIDE DEF n
  <1>6. ASSUME NEW k \in 0..(n - 1)
        PROVE  dir[p + k] = Entry(IF k = 0 THEN "last" ELSE "slot", f, n - k)
    <2>1. k + 1 \in 1..n /\ k + 1 \in 1..(n + 1) /\ (k + 1) - 1 = k /\ n + (1 - (k + 1)) = n - k
          /\ (k + 1 = 1 <=> k = 0)
      BY <1>1
    <2>2. dir[p + k] = Group(f)[k + 1]
      BY <1>2, <2>1
    <2>3. Group(f)[k + 1] = Entry(IF k + 1 = 1 THEN "last" ELSE "slot", f, n - k)
      BY <1>3, <2>1
    <2> QED BY <2>1, <2>2, <2>3
  <1>7. dir[p + n] = Short(f)
    <2>1. n + 1 \in 1..(n + 1) /\ (n + 1) - 1 = n
      BY <1>1
    <2> QED BY <1>2, <1>4, <2>1
  <1>8. ASSUME NEW k \in 0..(n - 1)
        PROVE  /\ dir[p + k].file = f /\ dir[p + k].seq = n - k
               /\ Id(dir[p + k]) = n - k /\ dir[p + k].kind = IF k = 0 THEN "last" ELSE "slot"
    <2> DEFINE e == dir[p + k]
    <2>1. e = Entry(IF k = 0 THEN "last" ELSE "slot", f, n - k)
      BY <1>6
    <2> HIDE DEF e
    <2>3. e.file = f /\ e.seq = n - k /\ e.kind = IF k = 0 THEN "last" ELSE "slot"
      BY <2>1 DEF Entry
    <2>2. Id(e) = n - k
      BY <2>3 DEF Id
    <2> QED BY <2>2, <2>3 DEF e
  <1> QED BY <1>1, <1>7, <1>8 DEF n

Area(dir, all) ==
  /\ all \in Nat /\ DOMAIN dir = 1..all /\ Len(dir) = all
  /\ \A p \in 1..all : dir[p] \in DirEntries

LEMMA SequenceArea ==
  ASSUME NEW dir, dir \in Seq(DirEntries)
  PROVE  Area(dir, Len(dir))
  BY DEF Area

LEMMA StoredArea ==
  ASSUME NEW v \in Volumes, NEW s, NEW n \in Nat
  PROVE  Area(StoredFrom(v, s, n), n * DIRENTSPERBLOCK)
  BY StoredEntries, SequenceArea DEF Directory

LEMMA ChainArea ==
  ASSUME NEW v \in Volumes, NEW chain \in Seq(ClusterNums)
  PROVE  Area(InChain(v, chain), Len(chain) * ClusterEntries(v))
  <1> DEFINE size == ClusterEntries(v)
             all == Len(chain) * size
             block(p) == StoredFrom(v, ClusterSector(v.bs, chain[((p - 1) \div size) + 1]),
                                    v.bs.cluster_size)
             held(p) == block(p)[((p - 1) % size) + 1]
  <1>1. size \in Nat \ {0} /\ v.bs.cluster_size \in Nat
    BY ClusterEntriesType
  <1>2. all \in Nat
    <2>1. Len(chain) \in Nat
      OBVIOUS
    <2> HIDE DEF size
    <2> QED BY <1>1, <2>1
  <1>3. InChain(v, chain) = [p \in 1..all |-> held(p)]
    BY DEF InChain, ClusterEntries
  <1>4. ASSUME NEW p \in 1..all PROVE held(p) \in DirEntries
    <2> DEFINE x == ((p - 1) % size) + 1
               b == block(p)
    <2>1. b \in Seq(DirEntries) /\ Len(b) = size
      BY <1>1, StoredEntries DEF Directory, ClusterEntries
    <2>2. x \in 1..size
      <3>1. p - 1 \in Nat
        BY <1>2
      <3> HIDE DEF size
      <3>2. (p - 1) % size \in 0..(size - 1)
        BY <1>1, <3>1
      <3> QED BY <1>1, <3>2
    <2> HIDE DEF b, x, size
    <2>3. b[x] \in DirEntries
      BY <2>1, <2>2
    <2> QED BY <2>3 DEF b, x
  <1> HIDE DEF all, held
  <1>5. InChain(v, chain) \in Seq(DirEntries) /\ Len(InChain(v, chain)) = all
    BY <1>2, <1>3, <1>4
  <1> QED BY <1>5, SequenceArea DEF all

\* What the code has at entry n of block b is what follows p in the directory, as far as
\* the number at p leads, and behind its end the code does not get.
ReadsOn(dir, p, b, n, cur) ==
  /\ b[n] = dir[p]
  /\ Id(dir[p]) <= VFAT_MAXSEQ =>
       \A k \in 0..Id(dir[p]) :
         IF p + k \in DOMAIN dir THEN InReach(b, n, cur, k) /\ Ahead(b, n, cur, k) = dir[p + k]
         ELSE ~InReach(b, n, cur, k)

\* The number at p counts down to an entry.
Announced(dir, p) ==
  LET c == Id(dir[p])
  IN  /\ c \in 1..VFAT_MAXSEQ /\ p + c \in DOMAIN dir
      /\ \A k \in 0..(c - 1) : Id(dir[p + k]) = c - k

LEMMA ReadAs ==
  ASSUME NEW dir, NEW all, Area(dir, all), NEW p \in 1..all, NEW b, NEW n, NEW cur,
         ReadsOn(dir, p, b, n, cur)
  PROVE  LET c == Id(dir[p])
         IN  /\ Announced(dir, p) =>
                  GetVfatname(b, n, cur) = [dent |-> dir[p + c], l_name |-> Pieces(b, n, cur, c)]
             /\ ~Announced(dir, p) => GetVfatname(b, n, cur) = Failed(dir[p])
  <1> DEFINE c == Id(dir[p])
             read == c \in 1..VFAT_MAXSEQ /\ InReach(b, n, cur, c) /\ Descending(b, n, cur, c)
  <1>1. GetVfatname(b, n, cur) =
          IF read THEN [dent |-> Ahead(b, n, cur, c), l_name |-> Pieces(b, n, cur, c)]
          ELSE Failed(dir[p])
    BY DEF GetVfatname, ReadsOn
  <1>2. all \in Nat /\ DOMAIN dir = 1..all /\ VFAT_MAXSEQ \in Nat
    BY SizeAssumption DEF Area
  <1>3. ASSUME c \in 1..VFAT_MAXSEQ, NEW k \in 0..c
        PROVE  IF p + k \in DOMAIN dir THEN InReach(b, n, cur, k) /\ Ahead(b, n, cur, k) = dir[p + k]
               ELSE ~InReach(b, n, cur, k)
    BY <1>2, <1>3 DEF ReadsOn
  <1>4. ASSUME c \in 1..VFAT_MAXSEQ, p + c \in DOMAIN dir
        PROVE  /\ Ahead(b, n, cur, c) = dir[p + c] /\ InReach(b, n, cur, c)
               /\ \A k \in 0..(c - 1) : Ahead(b, n, cur, k) = dir[p + k]
    <2>1. c \in 0..c /\ \A k \in 0..(c - 1) : k \in 0..c /\ p + k \in DOMAIN dir
      BY <1>2, <1>4
    <2> HIDE DEF c
    <2> QED BY <1>3, <1>4, <2>1
  <1>5. ASSUME c \in 1..VFAT_MAXSEQ, p + c \notin DOMAIN dir
        PROVE  ~InReach(b, n, cur, c)
    <2>1. c \in 0..c
      BY <1>2, <1>5
    <2> HIDE DEF c
    <2> QED BY <1>3, <1>5, <2>1
  <1> HIDE DEF c
  <1>6. read <=> Announced(dir, p)
    BY <1>4, <1>5 DEF Announced, Descending, c
  <1>7. Announced(dir, p) => c \in 1..VFAT_MAXSEQ /\ p + c \in DOMAIN dir
    BY DEF Announced, c
  <1> HIDE DEF read
  <1> QED BY <1>1, <1>4, <1>6, <1>7 DEF c

LEMMA ReadsItself ==
  ASSUME NEW dir, NEW all, Area(dir, all), NEW p \in 1..all
  PROVE  ReadsOn(dir, p, dir, p, 0)
  <1>1. dir[p] \in DirEntries /\ all \in Nat /\ DOMAIN dir = 1..all /\ Len(dir) = all
    BY DEF Area
  <1>2. Id(dir[p]) \in Nat
    BY <1>1 DEF Id, DirEntries
  <1>3. ASSUME NEW k \in 0..Id(dir[p])
        PROVE  IF p + k \in DOMAIN dir THEN InReach(dir, p, 0, k) /\ Ahead(dir, p, 0, k) = dir[p + k]
               ELSE ~InReach(dir, p, 0, k)
    <2>1. k \in Nat
      BY <1>2
    <2>2. p + k \in DOMAIN dir <=> p + k <= Len(dir)
      BY <1>1, <2>1
    <2> QED BY <2>2 DEF InReach, Ahead
  <1> QED BY <1>3 DEF ReadsOn

\* Which entry it is does not depend on how the directory is read.
LEMMA SameDent ==
  ASSUME NEW dir, NEW all, Area(dir, all), NEW p \in 1..all, NEW b, NEW n, NEW cur,
         ReadsOn(dir, p, b, n, cur)
  PROVE  GetVfatname(b, n, cur).dent = GetVfatname(dir, p, 0).dent
  <1>1. ReadsOn(dir, p, dir, p, 0)
    BY ReadsItself
  <1>2. CASE Announced(dir, p)
    BY <1>1, <1>2, ReadAs
  <1>3. CASE ~Announced(dir, p)
    BY <1>1, <1>3, ReadAs
  <1> QED BY <1>2, <1>3

\* The pieces that are read, and what they are.
Numbers(dir, p, b, n, c) ==
  {h \in 1..c : \A m \in 1..(h - 1) : n + c - m <= Len(b) => dir[p + (c - m)].kind = "slot"}
LEMMA PiecesAre ==
  ASSUME NEW dir, NEW all, Area(dir, all), NEW p \in 1..all, NEW b, NEW n, NEW cur,
         ReadsOn(dir, p, b, n, cur), Announced(dir, p), NEW c, c = Id(dir[p])
  PROVE  LET read == Pieces(b, n, cur, c)
         IN  /\ DOMAIN read = Numbers(dir, p, b, n, c)
             /\ \A k \in DOMAIN read : read[k] = Piece(dir[p + (c - k)])
             /\ c \in Nat /\ c <= VFAT_MAXSEQ /\ \A m \in 1..c : p + (c - m) \in 1..all
  <1>1. c \in 1..VFAT_MAXSEQ /\ p + c \in 1..all /\ all \in Nat /\ VFAT_MAXSEQ \in Nat
    BY SizeAssumption DEF Announced, Area
  <1>2. ASSUME NEW m \in 1..c
        PROVE  p + (c - m) \in 1..all /\ Ahead(b, n, cur, c - m) = dir[p + (c - m)]
    <2>1. c - m \in 0..c /\ p + (c - m) \in 1..all
      BY <1>1
    <2> QED BY <1>1, <2>1 DEF ReadsOn, Area
  <1>3. \A h \in 1..c : \A m \in 1..(h - 1) : m \in 1..c
    BY <1>1
  <1> DEFINE D == {h \in 1..c : \A m \in 1..(h - 1) :
                     n + c - m <= Len(b) => Ahead(b, n, cur, c - m).kind = "slot"}
  <1>4. D = Numbers(dir, p, b, n, c)
    BY <1>2, <1>3 DEF Numbers
  <1>5. Pieces(b, n, cur, c) = [k \in D |-> Piece(Ahead(b, n, cur, c - k))]
    BY DEF Pieces
  <1>6. \A k \in D : k \in 1..c
    OBVIOUS
  <1> HIDE DEF D
  <1>7. DOMAIN Pieces(b, n, cur, c) = D
    BY <1>5
  <1>8. \A k \in D : Pieces(b, n, cur, c)[k] = Piece(dir[p + (c - k)])
    BY <1>2, <1>5, <1>6
  <1> QED BY <1>1, <1>2, <1>4, <1>7, <1>8

\* All slots of a name are read, wherever they lie.
LEMMA NameRead ==
  ASSUME NEW dir, NEW all, Area(dir, all), NEW p \in 1..all, NEW b, NEW n, NEW cur,
         ReadsOn(dir, p, b, n, cur),
         GroupAt(dir, p), NEW f, f = dir[p].file, Slots[f] <= VFAT_MAXSEQ
  PROVE  GetVfatname(b, n, cur) = [dent |-> Short(f), l_name |-> Long(f)]
  <1> DEFINE s == Slots[f]
  <1>1. /\ s \in Nat \ {0} /\ dir[p + s] = Short(f) /\ p + s \in DOMAIN dir
        /\ \A k \in 0..(s - 1) : /\ dir[p + k].file = f /\ dir[p + k].seq = s - k
                                 /\ Id(dir[p + k]) = s - k
                                 /\ dir[p + k].kind = IF k = 0 THEN "last" ELSE "slot"
    <2>1. GroupAt(dir, p) /\ p \in Int /\ f = dir[p].file
      OBVIOUS
    <2> QED BY ONLY <2>1, GroupRead, SMTT(30)
  <1>2. Id(dir[p]) = s
    <2>1. 0 \in 0..(s - 1) /\ p + 0 = p /\ s - 0 = s
      BY <1>1
    <2> QED BY <1>1, <2>1
  <1>3. s \in 1..VFAT_MAXSEQ
    BY <1>1, SizeAssumption
  <1> HIDE DEF s
  <1>4. Announced(dir, p)
    BY <1>1, <1>2, <1>3 DEF Announced
  <1>5. GetVfatname(b, n, cur) = [dent |-> dir[p + s], l_name |-> Pieces(b, n, cur, s)]
    BY <1>2, <1>4, ReadAs
  <1> DEFINE read == Pieces(b, n, cur, s)
  <1>6. /\ DOMAIN read = Numbers(dir, p, b, n, s)
        /\ \A k \in DOMAIN read : read[k] = Piece(dir[p + (s - k)])
    BY <1>2, <1>4, PiecesAre
  <1>7. ASSUME NEW k \in 1..s
        PROVE  /\ Piece(dir[p + (s - k)]) = <<f, k>>
               /\ k < s => dir[p + (s - k)].kind = "slot"
    <2>1. s - k \in 0..(s - 1) /\ s - (s - k) = k /\ (s - k = 0 <=> k = s)
      BY <1>1
    <2> DEFINE m == s - k
               e == dir[p + m]
    <2>2. /\ e.file = f /\ e.seq = s - m /\ e.kind = IF m = 0 THEN "last" ELSE "slot"
      BY <1>1, <2>1
    <2>3. e.seq = k /\ e.kind \in {"slot", "last"} /\ (k < s => e.kind = "slot")
      BY <2>1, <2>2
    <2> HIDE DEF e
    <2>4. Piece(e) = <<f, k>>
      BY <2>2, <2>3 DEF Piece
    <2> QED BY <2>3, <2>4 DEF e
  <1>8. DOMAIN read = 1..s
    <2>1. \A h \in 1..s : \A m \in 1..(h - 1) : m \in 1..s /\ m < s
      BY <1>1
    <2>2. \A h \in 1..s : \A m \in 1..(h - 1) : dir[p + (s - m)].kind = "slot"
      BY <1>7, <2>1
    <2>3. Numbers(dir, p, b, n, s) = 1..s
      BY <2>2 DEF Numbers
    <2> QED BY <1>6, <2>3
  <1>9. read = [k \in 1..s |-> read[k]]
    BY <1>8 DEF Pieces
  <1>10. read = [k \in 1..s |-> <<f, k>>]
    <2> HIDE DEF read
    <2>1. \A k \in 1..s : read[k] = <<f, k>>
      BY <1>6, <1>7, <1>8
    <2> QED BY <1>9, <2>1
  <1> QED BY <1>1, <1>5, <1>10 DEF Long, s

\* A long name is heard only if all its slots were read, in front of its entry.
LEMMA LastPiece ==
  ASSUME NEW dir, NEW all, Area(dir, all), NEW p \in 1..all, NEW b, NEW n, NEW cur,
         ReadsOn(dir, p, b, n, cur), Announced(dir, p), NEW c, c = Id(dir[p]),
         dir[p].kind \in {"last", "label"},
         NEW g \in Files, NEW s \in Nat \ {0}, s = Slots[g], Pieces(b, n, cur, c) = Long(g)
  PROVE  LET e == dir[p + (c - s)]
         IN  /\ s <= c /\ c <= VFAT_MAXSEQ /\ p + (c - s) \in 1..all
             /\ e.kind = "last" /\ e.file = g /\ e.seq = s
  <1> DEFINE read == Pieces(b, n, cur, c)
             e == dir[p + (c - s)]
             D == Numbers(dir, p, b, n, c)
  <1>1. /\ DOMAIN read = D /\ \A k \in DOMAIN read : read[k] = Piece(dir[p + (c - k)])
        /\ c \in Nat /\ c <= VFAT_MAXSEQ /\ \A m \in 1..c : p + (c - m) \in 1..all
    BY PiecesAre
  <1>2. DOMAIN read = 1..s /\ read[s] = <<g, s>> /\ s \in 1..s
    <2>1. Long(g) = [k \in 1..s |-> <<g, k>>] /\ s \in 1..s
      BY DEF Long
    <2> QED BY <2>1
  <1> HIDE DEF read
  <1>3. s \in D /\ s \in 1..c
    BY <1>1, <1>2 DEF Numbers
  <1>4. Piece(e) = <<g, s>>
    BY <1>1, <1>2
  <1>5. e.file = g /\ e.kind \in {"slot", "last"} /\ e.seq = s
    <2> DEFINE number == IF e.kind \in {"slot", "last"} THEN e.seq ELSE 0
    <2>1. Piece(e) = <<e.file, number>>
      BY DEF Piece
    <2> HIDE DEF e, number
    <2>2. e.file = g /\ number = s
      BY <1>4, <2>1
    <2>3. number # 0
      BY <2>2
    <2> QED BY <2>2, <2>3 DEF number
  <1>6. e.kind = "last"
    <2>1. CASE s = c
      <3>1. p + (c - s) = p
        BY <2>1, <1>1
      <3> QED BY <1>5, <3>1
    <2>2. CASE s # c
      <3>1. s + 1 \in 1..c /\ s + 1 \notin 1..s
        BY <1>1, <1>3, <2>2
      <3>2. s + 1 \notin D
        BY <1>1, <1>2, <3>1
      <3>3. PICK m \in 1..((s + 1) - 1) :
              n + c - m <= Len(b) /\ dir[p + (c - m)].kind # "slot"
        BY <3>1, <3>2 DEF Numbers
      <3>4. m \notin 1..(s - 1)
        BY <1>3, <3>3 DEF Numbers
      <3>5. m = s
        BY <3>4
      <3> QED BY <1>5, <3>3, <3>5
    <2> QED BY <2>1, <2>2
  <1>7. s <= c /\ c <= VFAT_MAXSEQ /\ p + (c - s) \in 1..all
    BY <1>1, <1>3
  <1> QED BY <1>5, <1>6, <1>7

LEMMA LongHeard ==
  ASSUME NEW dir, NEW all, Area(dir, all), NEW files, WellFormed(dir, files), NEW p \in 1..all,
         NEW b, NEW n, NEW cur, ReadsOn(dir, p, b, n, cur), dir[p].kind \in {"last", "label"},
         NEW g \in Files, Slots[g] > 0, GetVfatname(b, n, cur).l_name = Long(g)
  PROVE  GetVfatname(b, n, cur).dent = Short(g) /\ g \in files /\ Slots[g] <= VFAT_MAXSEQ
  <1> DEFINE c == Id(dir[p])
             s == Slots[g]
             q == p + (c - s)
  <1>1. s \in Nat \ {0} /\ all \in Nat /\ DOMAIN dir = 1..all /\ VFAT_MAXSEQ \in Nat
    BY SlotsType, SizeAssumption DEF Area
  <1>2. Announced(dir, p)
    <2>1. ASSUME ~Announced(dir, p) PROVE FALSE
      <3>1. GetVfatname(b, n, cur) = Failed(dir[p])
        BY <2>1, ReadAs
      <3>2. Long(g) = <<>>
        BY <3>1 DEF Failed
      <3>3. 1 \in DOMAIN Long(g)
        BY <1>1 DEF Long
      <3>4. 1 \notin DOMAIN << >>
        OBVIOUS
      <3> QED BY <3>2, <3>3, <3>4
    <2> QED BY <2>1
  <1>3. GetVfatname(b, n, cur) = [dent |-> dir[p + c], l_name |-> Pieces(b, n, cur, c)]
    BY <1>2, ReadAs
  <1>4. c \in 1..VFAT_MAXSEQ
    BY <1>2 DEF Announced
  <1>5. /\ s <= c /\ c <= VFAT_MAXSEQ /\ q \in 1..all
        /\ dir[q].kind = "last" /\ dir[q].file = g /\ dir[q].seq = s
    <2> HIDE DEF c, s
    <2>1. Pieces(b, n, cur, c) = Long(g) /\ c = Id(dir[p]) /\ s = Slots[g]
      BY <1>3 DEF c, s
    <2> QED BY <1>1, <1>2, <2>1, LastPiece
  <1>6. q + s = p + c /\ q \in Int
    <2> HIDE DEF c, s
    <2> QED BY <1>1, <1>4
  <1> HIDE DEF q
  <1>7. GroupAt(dir, q)
    BY <1>1, <1>5 DEF WellFormed
  <1>8. dir[q + s] = Short(g) /\ q + s \in DOMAIN dir
    BY ONLY <1>5, <1>6, <1>7, GroupRead
  <1>9. dir[q + s].kind = "short" /\ dir[q + s].file = g
    BY <1>8 DEF Short, Entry
  <1>10. g \in files
    BY <1>8, <1>9 DEF WellFormed
  <1>11. Slots[g] <= VFAT_MAXSEQ
    <2> HIDE DEF c, s
    <2>1. s <= VFAT_MAXSEQ
      BY <1>1, <1>4, <1>5
    <2> QED BY <2>1 DEF s
  <1> QED BY <1>3, <1>6, <1>8, <1>10, <1>11

LEMMA SameSequence ==
  ASSUME NEW S, NEW a \in Seq(S), NEW b \in Seq(S), Len(a) = Len(b),
         \A k \in 1..Len(a) : a[k] = b[k]
  PROVE  a = b
  OBVIOUS

-----------------------------------------------------------------------------
(* What a turn of the loop hears of the entry at hand, on a readable card.  *)

Exact ==
  /\ vol \in Volumes /\ mydata = Geometry(vol.bs) /\ Recognised /\ Readable /\ part_offset \in Nat

LEMMA ExactReads ==
  ASSUME Exact
  PROVE  /\ mydata.clust_size = vol.bs.cluster_size /\ mydata.fatsize = FatSize(vol.bs)
         /\ mydata.rootdir_size = RootDirSize(vol.bs) /\ mydata.fatsize # 0
         /\ \A s \in Int : \A n : Sectors(s, n) = StoredFrom(vol, s, n)
         /\ RootAt \in Nat
         /\ \A c \in ClusterNums : FirstSector(c) = SectorAt(c) /\ SectorAt(c) \in Int
                                     /\ ClusterSector(vol.bs, c) = SectorAt(c)
  <1>1. /\ mydata.clust_size = vol.bs.cluster_size /\ mydata.fatsize = FatSize(vol.bs)
        /\ mydata.rootdir_size = RootDirSize(vol.bs) /\ mydata.fatsize # 0
    BY DEF Exact, Geometry, Recognised
  <1>2. ASSUME NEW s \in Int, NEW n PROVE Sectors(s, n) = StoredFrom(vol, s, n)
    <2>1. (part_offset + s) - vol.start = s /\ part_offset + (s - vol.start) = s
      BY DEF Exact, Recognised
    <2> QED BY <2>1 DEF Sectors
  <1>3. mydata.data_begin = DataAt /\ DataAt \in Int /\ RootAt \in Nat
    BY ReadableIsExact DEF Exact
  <1>4. ASSUME NEW c \in ClusterNums
        PROVE  /\ FirstSector(c) = SectorAt(c) /\ SectorAt(c) \in Int
               /\ ClusterSector(vol.bs, c) = SectorAt(c)
    <2>1. c * vol.bs.cluster_size \in Int
      <3>1. c \in Int
        BY ClusterNumber
      <3>2. vol.bs.cluster_size \in Int
        BY Fields DEF Exact
      <3> QED BY <3>1, <3>2, Product
    <2> QED BY <1>1, <1>3, <2>1 DEF FirstSector, SectorAt, ClusterSector, DataAt
  <1> QED BY <1>1, <1>2, <1>3, <1>4

LEMMA ChainEnds ==
  ASSUME NEW v \in Volumes, NEW chain, IsChain(chain, v.fat), NEW k \in 1..Len(chain)
  PROVE  /\ chain[k] \in ClusterNums /\ chain \in Seq(ClusterNums)
         /\ k < Len(chain) => v.fat[chain[k]] = chain[k + 1] /\ chain[k + 1] \in ClusterNums
         /\ k = Len(chain) => CheckClust(v.fat[chain[k]])
  <1>1. chain \in Seq(ClusterNums) /\ Len(chain) \in Nat
    BY DEF IsChain
  <1>2. \A x \in 1..Len(chain) : chain[x] \in ClusterNums
    BY <1>1
  <1>3. ASSUME k < Len(chain) PROVE k \in 1..(Len(chain) - 1) /\ k + 1 \in 1..Len(chain)
    BY <1>1, <1>3
  <1>4. k < Len(chain) => v.fat[chain[k]] = chain[k + 1] /\ chain[k + 1] \in ClusterNums
    BY <1>2, <1>3 DEF IsChain
  <1>5. k = Len(chain) => CheckClust(v.fat[chain[k]])
    BY DEF IsChain, CheckClust
  <1> QED BY <1>1, <1>2, <1>4, <1>5

Base(k, s) == ((k - 1) * ClusterEntries(vol)) + (s * DIRENTSPERBLOCK)

\* A cluster is read as a whole, and where it ends the next one of the chain follows.
LEMMA ClusterTold ==
  ASSUME Exact, NEW chain, IsChain(chain, vol.fat),
         NEW k \in 1..Len(chain), NEW b, Len(b) = ClusterEntries(vol), NEW n \in 1..Len(b),
         \A m \in n..Len(b) :
           b[m] = StoredFrom(vol, SectorAt(chain[k]), vol.bs.cluster_size)[m]
  PROVE  LET dir == InChain(vol, chain)
             p == ((k - 1) * ClusterEntries(vol)) + n
         IN  p \in DOMAIN dir /\ ReadsOn(dir, p, b, n, chain[k])
  <1> DEFINE size == ClusterEntries(vol)
             dir == InChain(vol, chain)
             before == (k - 1) * size
             all == Len(chain) * size
             p == before + n
             cs == vol.bs.cluster_size
             held == StoredFrom(vol, SectorAt(chain[k]), cs)
             c == Id(dir[p])
  <1>1. /\ vol \in Volumes /\ size \in Nat \ {0} /\ size >= DIRENTSPERBLOCK /\ cs \in Nat
        /\ chain \in Seq(ClusterNums) /\ chain[k] \in ClusterNums
        /\ ClusterSector(vol.bs, chain[k]) = SectorAt(chain[k])
    BY ClusterEntriesType, ChainEnds, ExactReads DEF Exact
  <1>2. ASSUME NEW m \in 1..size PROVE before + m \in 1..all /\ dir[before + m] = held[m]
    BY <1>1, <1>2, ChainPlace, SMTT(30)
  <1>3. DOMAIN dir = 1..all
    BY <1>1, ChainLength
  <1>4. before \in Nat /\ all \in Nat /\ Len(chain) \in Nat
    <2>1. Len(chain) \in Nat /\ k - 1 \in Nat
      BY <1>1
    <2> QED BY <1>1, <2>1
  <1>5. n \in 1..size /\ Len(b) = size /\ \A m \in n..size : b[m] = held[m]
    OBVIOUS
  <1>6. k < Len(chain) => k * size = before + size
    BY <1>1
  <1>7. k = Len(chain) => all = before + size
    BY <1>1, <1>4
  <1>8. held \in Seq(DirEntries) /\ Len(held) = size
    BY <1>1, StoredEntries DEF Directory, ClusterEntries
  <1> HIDE DEF size, before, all, held, dir
  <1>9. p \in DOMAIN dir /\ p \in Int /\ b[n] = dir[p] /\ c \in Nat
    <2>1. p \in 1..all /\ dir[p] = held[n] /\ n \in n..size
      BY <1>1, <1>2, <1>5
    <2>2. p \in DOMAIN dir /\ b[n] = dir[p] /\ p \in Int
      BY <1>3, <1>4, <1>5, <2>1
    <2>3. dir[p] \in DirEntries
      BY <1>5, <1>8, <2>1
    <2> QED BY <2>2, <2>3 DEF DirEntries, Id
  <1> DEFINE nxt == vol.fat[chain[k]]
             block == Sectors(FirstSector(nxt), mydata.clust_size)
  <1>10. ASSUME k < Len(chain)
         PROVE  /\ chain[k] # 0 /\ ~CheckClust(nxt)
                /\ \A m \in 1..size : (before + size) + m \in 1..all /\ dir[(before + size) + m] = block[m]
    <2>1. nxt = chain[k + 1] /\ nxt \in ClusterNums /\ k + 1 \in 1..Len(chain)
      BY <1>1, <1>4, <1>10, ChainEnds
    <2>2. block = StoredFrom(vol, ClusterSector(vol.bs, chain[k + 1]), cs)
      BY <2>1, ExactReads
    <2>3. ASSUME NEW m \in 1..size
          PROVE  (before + size) + m \in 1..all /\ dir[(before + size) + m] = block[m]
      <3>1. /\ (((k + 1) - 1) * ClusterEntries(vol)) + m \in 1..(Len(chain) * ClusterEntries(vol))
            /\ dir[(((k + 1) - 1) * ClusterEntries(vol)) + m]
                 = StoredFrom(vol, ClusterSector(vol.bs, chain[k + 1]), cs)[m]
        BY <1>1, <2>1, <2>3, ChainPlace DEF size, dir
      <3>2. (k + 1) - 1 = k
        OBVIOUS
      <3>3. ((k + 1) - 1) * ClusterEntries(vol) = before + size
        BY <1>6, <1>10, <3>2 DEF size
      <3> QED BY <2>2, <3>1, <3>3 DEF all, size
    <2>4. chain[k] # 0 /\ ~CheckClust(nxt)
      BY <1>1, <2>1, DirectoryAssumption DEF CheckClust
    <2> HIDE DEF block, nxt
    <2> QED BY <2>3, <2>4
  <1>11. k = Len(chain) => CheckClust(nxt)
    BY <1>1, ChainEnds
  <1>12. ASSUME c <= VFAT_MAXSEQ, NEW x \in 0..c
         PROVE  IF p + x \in DOMAIN dir
                THEN InReach(b, n, chain[k], x) /\ Ahead(b, n, chain[k], x) = dir[p + x]
                ELSE ~InReach(b, n, chain[k], x)
    <2>1. x \in Nat /\ x < size /\ p + x = before + (n + x) /\ n + x \in Nat
      BY <1>1, <1>4, <1>5, <1>9, <1>12, SizeAssumption
    <2> HIDE DEF c, block, nxt
    <2>2. CASE n + x <= size
      <3>1. n + x \in n..size /\ n + x \in 1..size
        BY <1>1, <1>5, <2>1, <2>2
      <3>2. p + x \in DOMAIN dir /\ b[n + x] = dir[p + x]
        BY <1>2, <1>3, <1>5, <2>1, <3>1
      <3> QED BY <1>5, <2>2, <3>2 DEF InReach, Ahead
    <2>3. CASE n + x > size /\ k < Len(chain)
      <3> DEFINE y == (n + x) - size
      <3>1. y \in 1..size /\ (before + size) + y = p + x
        BY <1>1, <1>4, <1>5, <2>1, <2>3
      <3>2. p + x \in DOMAIN dir /\ block[y] = dir[p + x]
        BY <1>3, <1>10, <2>3, <3>1
      <3>3. chain[k] # 0 /\ ~CheckClust(nxt) /\ ~(n + x <= Len(b)) /\ (n + x) - Len(b) = y
        BY <1>1, <1>5, <1>10, <2>1, <2>3
      <3> HIDE DEF y
      <3> QED BY <3>2, <3>3 DEF InReach, Ahead, block, nxt
    <2>4. CASE n + x > size /\ k = Len(chain)
      <3>1. p + x > all
        BY <1>1, <1>4, <1>5, <1>7, <2>1, <2>4
      <3>2. p + x \notin DOMAIN dir
        BY <1>3, <1>4, <3>1
      <3>3. ~(n + x <= Len(b))
        BY <1>1, <1>5, <2>1, <2>4
      <3> QED BY <1>11, <2>4, <3>2, <3>3 DEF InReach, nxt
    <2>5. k < Len(chain) \/ k = Len(chain)
      BY <1>4
    <2> QED BY <1>1, <1>5, <2>1, <2>2, <2>3, <2>4, <2>5
  <1>13. ReadsOn(dir, p, b, n, chain[k])
    BY <1>9, <1>12 DEF ReadsOn
  <1> QED BY <1>9, <1>13 DEF dir, before, size

\* What is read on lies in the block.
LEMMA BlockTold ==
  ASSUME NEW dir, NEW all \in Nat, DOMAIN dir = 1..all, NEW base \in Nat, NEW b, NEW n \in Nat,
         NEW c \in Nat, c = Id(dir[base + n]), b[n] = dir[base + n],
         c <= VFAT_MAXSEQ => \A m \in n..(n + c) :
           m <= Len(b) /\ base + m \in 1..all /\ b[m] = dir[base + m],
         NEW cur
  PROVE  ReadsOn(dir, base + n, b, n, cur)
  <1> DEFINE p == base + n
  <1>1. ASSUME c <= VFAT_MAXSEQ, NEW x \in 0..c
        PROVE  p + x \in DOMAIN dir /\ InReach(b, n, cur, x) /\ Ahead(b, n, cur, x) = dir[p + x]
    <2>1. n + x \in n..(n + c) /\ base + (n + x) = p + x
      OBVIOUS
    <2>2. n + x <= Len(b) /\ p + x \in 1..all /\ b[n + x] = dir[p + x]
      BY <1>1, <2>1
    <2> QED BY <2>2 DEF InReach, Ahead
  <1> HIDE DEF p
  <1>2. ReadsOn(dir, p, b, n, cur)
    <2>1. b[n] = dir[p] /\ c = Id(dir[p])
      BY DEF p
    <2> QED BY <1>1, <2>1 DEF ReadsOn
  <1> QED BY <1>2 DEF p

LEMMA WindowFits ==
  ASSUME NEW n \in 1..DIRENTSPERBLOCK, NEW s \in Nat, s <= VFAT_MAXSEQ, NEW many \in Nat, many > 1
  PROVE  /\ n + s <= many * DIRENTSPERBLOCK /\ many * DIRENTSPERBLOCK \in Nat
         /\ n + s < DIRENTSPERBLOCK + DIRENTSPERBLOCK
  <1>1. DIRENTSPERBLOCK \in Nat \ {0} /\ VFAT_MAXSEQ < DIRENTSPERBLOCK /\ VFAT_MAXSEQ \in Nat
    BY SizeAssumption
  <1>2. many * DIRENTSPERBLOCK = ((many - 2) * DIRENTSPERBLOCK) + (DIRENTSPERBLOCK + DIRENTSPERBLOCK)
    BY <1>1
  <1> DEFINE more == (many - 2) * DIRENTSPERBLOCK
  <1>3. more \in Nat
    BY <1>1
  <1> HIDE DEF more
  <1>4. n + s < DIRENTSPERBLOCK + DIRENTSPERBLOCK
    BY <1>1
  <1>5. more + (DIRENTSPERBLOCK + DIRENTSPERBLOCK) >= n + s
    BY <1>1, <1>3, <1>4
  <1> QED BY <1>1, <1>2, <1>3, <1>4, <1>5 DEF more

\* What the number of an entry leads to is read on where the root directory is not.
Cut(at, n, e) == n + Id(e) > DIRENTSPERBLOCK /\ BeforeGap(at)

\* The root directory of a FAT16 volume, of which PrefetchSectors are read.
LEMMA AreaTold ==
  ASSUME Exact, mydata.fatsize # 32, NEW q \in 0..(RootDirSize(vol.bs) - 1),
         NEW b, Len(b) = PrefetchSectors * DIRENTSPERBLOCK, NEW n \in 1..DIRENTSPERBLOCK,
         \A m \in n..Len(b) : b[m] = StoredFrom(vol, RootAt + q, PrefetchSectors)[m], NEW cur
  PROVE  LET dir == RootDirectory(vol)
             p == (q * DIRENTSPERBLOCK) + n
         IN  p \in DOMAIN dir /\ b[n] = dir[p] /\ (ReadsOn(dir, p, b, n, cur) \/ Cut(RootAt + q, n, b[n]))
  <1> DEFINE d == DIRENTSPERBLOCK
             dir == RootDirectory(vol)
             size == RootDirSize(vol.bs)
             all == size * d
             base == q * d
             long == PrefetchSectors * d
             c == Id(dir[base + n])
  <1>1. d \in Nat \ {0} /\ PrefetchSectors \in Nat /\ PrefetchSectors > 1
    BY SizeAssumption
  <1>2. vol \in Volumes /\ size \in Nat /\ RootAt \in Int /\ FatSize(vol.bs) # 32
    BY Fields, ExactReads DEF Exact
  <1>3. dir = StoredFrom(vol, RootAt, size)
    BY <1>2 DEF RootDirectory, RootAt
  <1>4. DOMAIN dir = 1..all /\ \A m \in 1..all : dir[m] \in DirEntries
    <2>1. StoredFrom(vol, RootAt, size) \in Seq(DirEntries) /\ Len(StoredFrom(vol, RootAt, size)) = all
      BY <1>2, StoredEntries DEF Directory
    <2> HIDE DEF all, size
    <2> QED BY <1>3, <2>1
  <1>5. base \in Nat /\ all \in Nat /\ long \in Nat
    BY <1>1, <1>2
  <1>6. base + n \in 1..all
    BY <1>1, <1>2, PlaceInBlocks
  <1>14. \A m \in n..long : b[m] = StoredFrom(vol, RootAt + q, PrefetchSectors)[m]
    OBVIOUS
  <1>15. n \in Nat \ {0} /\ q \in Nat
    BY <1>1
  <1>7. \A m \in n..long : base + m <= all => b[m] = dir[base + m]
    <2> TAKE m \in n..long
    <2> HAVE base + m <= all
    <2>1. m \in 1..(PrefetchSectors * DIRENTSPERBLOCK)
      BY <1>5, <1>15
    <2>2. (q * DIRENTSPERBLOCK) + m <= RootDirSize(vol.bs) * DIRENTSPERBLOCK
      OBVIOUS
    <2>3. StoredFrom(vol, RootAt + q, PrefetchSectors)[m]
            = StoredFrom(vol, RootAt, RootDirSize(vol.bs))[(q * DIRENTSPERBLOCK) + m]
      <3> DEFINE first == RootAt
                 many == PrefetchSectors
                 held == RootDirSize(vol.bs)
      <3>1. first \in Int /\ many \in Nat /\ held \in Nat /\ q \in Nat
        BY <1>1, <1>2, <1>15
      <3>2. m \in 1..(many * DIRENTSPERBLOCK) /\ (q * DIRENTSPERBLOCK) + m <= held * DIRENTSPERBLOCK
        BY <2>1, <2>2
      <3> HIDE DEF first, many, held
      <3>3. StoredFrom(vol, first + q, many)[m] = StoredFrom(vol, first, held)[(q * DIRENTSPERBLOCK) + m]
        BY ONLY <3>1, <3>2, StoredLater
      <3> QED BY <3>3 DEF first, many, held
    <2> QED BY <1>3, <1>14, <2>3
  <1>8. q = size - 1 => all = base + d /\ BeforeGap(RootAt + q)
    <2> HAVE q = size - 1
    <2>1. RootAt + q = (RootAt + RootDirSize(vol.bs)) - 1
      BY <1>2
    <2>2. BeforeGap(RootAt + q)
      BY <1>2, <2>1 DEF BeforeGap
    <2>3. size * d = ((size - 1) * d) + d
      <3> HIDE DEF size, d
      <3> QED BY <1>1, <1>2
    <2> QED BY <2>2, <2>3
  <1>9. q < size - 1 => base + (d + d) <= all
    <2> HAVE q < size - 1
    <2> DEFINE more == size - (q + 2)
               high == more * d
    <2>1. more \in Nat /\ size = q + (2 + more)
      BY <1>2, <1>15
    <2> HIDE DEF more, size, d
    <2>2. size * d = (q * d) + ((d + d) + high) /\ high \in Nat /\ q * d \in Nat
      BY <1>1, <1>15, <2>1
    <2> HIDE DEF high
    <2> QED BY <1>1, <2>2, SMTT(30)
  <1>10. c \in Nat /\ Len(b) = long /\ (q = size - 1 \/ q < size - 1)
    <2>1. dir[base + n] \in DirEntries
      BY <1>4, <1>6
    <2> QED BY <1>2, <1>15, <2>1 DEF Id, DirEntries
  <1> HIDE DEF dir, all, base, long, size
  <1>11. n + 0 <= long
    <2>1. 0 \in Nat /\ 0 <= VFAT_MAXSEQ /\ n \in 1..DIRENTSPERBLOCK
      BY SizeAssumption
    <2>2. n + 0 <= PrefetchSectors * DIRENTSPERBLOCK
      BY ONLY <1>1, <2>1, WindowFits
    <2> QED BY <2>2 DEF long
  <1>12. b[n] = dir[base + n]
    <2>1. n \in n..long
      BY <1>5, <1>11
    <2> QED BY <1>6, <1>7, <2>1
  <1>13. ASSUME ~Cut(RootAt + q, n, b[n]) PROVE ReadsOn(dir, base + n, b, n, cur)
    <2>1. ASSUME c <= VFAT_MAXSEQ, NEW m \in n..(n + c)
          PROVE  m <= Len(b) /\ base + m \in 1..all /\ b[m] = dir[base + m]
      <3>1. n + c <= long /\ n + c < d + d
        BY <1>1, <1>10, <2>1, WindowFits DEF long
      <3>2. q = size - 1 => n + c <= d
        <4>1. Id(b[n]) = c
          BY <1>12
        <4>2. q = size - 1 => ~(n + c > d)
          BY <1>8, <1>13, <4>1 DEF Cut
        <4> HIDE DEF c
        <4> QED BY <1>1, <1>10, <1>15, <4>2
      <3> HIDE DEF c, d
      <3>3. base + m <= all
        BY <1>1, <1>5, <1>8, <1>9, <1>10, <1>15, <3>1, <3>2
      <3>4. m \in n..long /\ base + m \in 1..all
        BY <1>5, <1>10, <1>15, <3>1, <3>3
      <3> QED BY <1>5, <1>7, <1>10, <3>3, <3>4
    <2>2. n \in Nat
      BY <1>15
    <2> HIDE DEF c
    <2>3. c = Id(dir[base + n])
      BY DEF c
    <2> QED BY ONLY <1>4, <1>5, <1>10, <1>12, <2>1, <2>2, <2>3, BlockTold
  <1> QED BY <1>4, <1>6, <1>12, <1>13 DEF dir, base, all

LEMMA NatProduct == ASSUME NEW a \in Nat, NEW c \in Nat PROVE a * c \in Nat
  OBVIOUS

LEMMA RootReads ==
  ASSUME Exact, mydata.fatsize = 32, NEW k \in 1..Len(vol.rootchain),
         NEW s \in 0..(vol.bs.cluster_size - 1), NEW m \in 1..ClusterEntries(vol),
         (s * DIRENTSPERBLOCK) + m <= ClusterEntries(vol)
  PROVE  LET dir == RootDirectory(vol)
             p == Base(k, s) + m
         IN  /\ p \in 1..(Len(vol.rootchain) * ClusterEntries(vol))
             /\ dir[p] = StoredFrom(vol, SectorAt(vol.rootchain[k]) + s, vol.bs.cluster_size)[m]
  <1> DEFINE d == DIRENTSPERBLOCK
             cs == vol.bs.cluster_size
             size == ClusterEntries(vol)
             chain == vol.rootchain
             dir == RootDirectory(vol)
             before == (k - 1) * size
             left == s * d
             first == SectorAt(chain[k])
             all == Len(chain) * size
  <1>1. /\ vol \in Volumes /\ d \in Nat \ {0} /\ cs \in Nat \ {0} /\ size \in Nat \ {0}
        /\ FatSize(vol.bs) = 32 /\ s \in Nat
    BY ExactReads, ClusterEntriesType, SizeAssumption DEF Exact
  <1>2. IsChain(chain, vol.fat)
    BY <1>1, VolumeAssumption
  <1>3. /\ chain \in Seq(ClusterNums) /\ first \in Int /\ ClusterSector(vol.bs, chain[k]) = first
    BY <1>1, <1>2, ChainEnds, ExactReads
  <1>4. dir = InChain(vol, chain)
    BY <1>1 DEF RootDirectory
  <1>5. left \in Nat /\ before \in Nat
    <2>1. k - 1 \in Nat
      OBVIOUS
    <2> QED BY <1>1, <2>1
  <1>6. size = cs * d
    BY DEF ClusterEntries
  <1>7. left + m \in 1..size
    <2> HIDE DEF left, size
    <2> QED BY <1>1, <1>5, SMTT(30) DEF left, size
  <1>8. before + (left + m) \in 1..all /\ dir[before + (left + m)] = StoredFrom(vol, first, cs)[left + m]
    <2> DEFINE at == left + m
               links == vol.rootchain
    <2>1. at \in 1..ClusterEntries(vol) /\ k \in 1..Len(links) /\ links \in Seq(ClusterNums)
      BY <1>3, <1>7
    <2> HIDE DEF at, links
    <2>2. /\ ((k - 1) * ClusterEntries(vol)) + at \in 1..(Len(links) * ClusterEntries(vol))
          /\ InChain(vol, links)[((k - 1) * ClusterEntries(vol)) + at]
               = StoredFrom(vol, ClusterSector(vol.bs, links[k]), vol.bs.cluster_size)[at]
      BY ONLY <1>1, <2>1, ChainPlace
    <2> QED BY <1>3, <1>4, <2>2 DEF at, links
  <1>9. StoredFrom(vol, first + s, cs)[m] = StoredFrom(vol, first, cs)[left + m]
    <2>1. m \in 1..(cs * d) /\ left + m <= cs * d
      BY <1>6
    <2> HIDE DEF first, cs, left
    <2>2. /\ first \in Int /\ cs \in Nat /\ s \in Nat /\ m \in 1..(cs * DIRENTSPERBLOCK)
          /\ (s * DIRENTSPERBLOCK) + m <= cs * DIRENTSPERBLOCK
      BY <1>1, <1>3, <2>1 DEF left
    <2>3. StoredFrom(vol, first + s, cs)[m] = StoredFrom(vol, first, cs)[(s * DIRENTSPERBLOCK) + m]
      BY ONLY <2>2, StoredLater, SMTT(30)
    <2> QED BY <2>3 DEF left
  <1>10. Base(k, s) + m = before + (left + m)
    <2>1. Base(k, s) = before + left
      BY DEF Base
    <2> HIDE DEF before, left
    <2> QED BY <1>5, <2>1
  <1> QED BY <1>8, <1>9, <1>10

\* Two clusters that follow each other on the card are read across.
LEMMA RootReadsOn ==
  ASSUME Exact, mydata.fatsize = 32, vol.bs.cluster_size > 1, NEW k \in 1..(Len(vol.rootchain) - 1),
         vol.rootchain[k + 1] = vol.rootchain[k] + 1, NEW x \in 1..DIRENTSPERBLOCK
  PROVE  LET dir == RootDirectory(vol)
             s == vol.bs.cluster_size - 1
             m == DIRENTSPERBLOCK + x
         IN  /\ Base(k, s) + m \in 1..(Len(vol.rootchain) * ClusterEntries(vol))
             /\ dir[Base(k, s) + m]
                  = StoredFrom(vol, SectorAt(vol.rootchain[k]) + s, vol.bs.cluster_size)[m]
  <1> DEFINE d == DIRENTSPERBLOCK
             cs == vol.bs.cluster_size
             size == ClusterEntries(vol)
             chain == vol.rootchain
             dir == RootDirectory(vol)
             first == SectorAt(chain[k])
             second == SectorAt(chain[k + 1])
  <1>1. /\ vol \in Volumes /\ d \in Nat \ {0} /\ cs \in Nat \ {0} /\ size \in Nat \ {0}
        /\ FatSize(vol.bs) = 32 /\ size >= d
    BY ExactReads, ClusterEntriesType, SizeAssumption DEF Exact
  <1>2. IsChain(chain, vol.fat)
    BY <1>1, VolumeAssumption
  <1>3. chain \in Seq(ClusterNums) /\ k \in 1..Len(chain) /\ k + 1 \in 1..Len(chain) /\ Len(chain) \in Nat
    BY <1>2 DEF IsChain
  <1>4. /\ chain[k] \in ClusterNums /\ chain[k + 1] \in ClusterNums /\ first \in Int /\ second \in Int
    BY <1>1, <1>2, <1>3, ChainEnds, ExactReads
  <1>5. second = first + cs
    <2>1. chain[k] \in Int /\ cs \in Int /\ DataAt \in Int
      BY <1>1, <1>4, ClusterNumber, ReadableIsExact, SMTT(30) DEF Exact
    <2> DEFINE c == chain[k]
    <2>2. first = DataAt + (c * cs) /\ second = DataAt + ((c + 1) * cs)
      BY DEF SectorAt, ClusterSector, DataAt
    <2> HIDE DEF c
    <2>4. c \in Int
      BY <2>1 DEF c
    <2> HIDE DEF cs
    <2>3. (c + 1) * cs = (c * cs) + cs /\ c * cs \in Int
      BY <2>1, <2>4
    <2> QED BY <2>1, <2>2, <2>3
  <1>6. /\ Base(k + 1, 0) + x \in 1..(Len(chain) * size)
        /\ dir[Base(k + 1, 0) + x] = StoredFrom(vol, second + 0, cs)[x]
    <2>1. 0 \in 0..(cs - 1) /\ x \in 1..size /\ 0 * d = 0 /\ 0 + x <= size
      BY <1>1
    <2> QED BY <1>3, <2>1, RootReads
  <1>7. StoredFrom(vol, second, cs)[(0 * d) + x] = Stored(vol, second + 0)[x]
    BY <1>1, StoredPlace
  <1>8. StoredFrom(vol, first + (cs - 1), cs)[(1 * d) + x] = Stored(vol, (first + (cs - 1)) + 1)[x]
    <2>1. 1 \in 0..(cs - 1) /\ cs \in Nat
      BY <1>1
    <2> HIDE DEF first, cs
    <2> QED BY ONLY <2>1, x \in 1..DIRENTSPERBLOCK, StoredPlace
  <1>9. /\ (first + (cs - 1)) + 1 = second /\ second + 0 = second /\ (1 * d) + x = d + x
        /\ (0 * d) + x = x
    <2> HIDE DEF first, second, cs, d
    <2> QED BY <1>1, <1>4, <1>5 DEF d
  <1>10. Base(k, cs - 1) + (d + x) = Base(k + 1, 0) + x
    <2> DEFINE before == (k - 1) * size
               last == (cs - 1) * d
    <2>1. Base(k, cs - 1) = before + last /\ before \in Nat /\ last \in Nat
      <3>1. k - 1 \in Nat /\ cs - 1 \in Nat
        BY <1>1, <1>3
      <3>2. Base(k, cs - 1) = before + last
        BY DEF Base
      <3> HIDE DEF cs, size, d
      <3> QED BY <1>1, <3>1, <3>2
    <2>2. Base(k + 1, 0) = before + size
      <3>1. Base(k + 1, 0) = (((k + 1) - 1) * size) + (0 * d)
        BY DEF Base
      <3>2. (k + 1) - 1 = (k - 1) + 1 /\ 0 * d = 0 /\ k - 1 \in Nat
        BY <1>1
      <3> HIDE DEF size
      <3>3. ((k - 1) + 1) * size = before + size
        BY <1>1, <3>2
      <3> QED BY <1>1, <2>1, <3>1, <3>2, <3>3
    <2>3. size = last + d
      <3>1. size = cs * d
        BY DEF ClusterEntries
      <3> HIDE DEF size
      <3> QED BY <1>1, <3>1
    <2> HIDE DEF before, last, size, d
    <2> QED BY <1>1, <2>1, <2>2, <2>3 DEF d
  <1> QED BY <1>6, <1>7, <1>8, <1>9, <1>10

\* The root directory of a FAT32 volume, of which a cluster's length is read from any
\* of its sectors on.
RootRead(k, s, b, n) ==
  /\ mydata.fatsize = 32 /\ vol.bs.cluster_size > 1 /\ k \in 1..Len(vol.rootchain)
  /\ s \in 0..(vol.bs.cluster_size - 1) /\ Len(b) = ClusterEntries(vol) /\ n \in 1..DIRENTSPERBLOCK
  /\ \A m \in n..Len(b) :
       b[m] = StoredFrom(vol, SectorAt(vol.rootchain[k]) + s, vol.bs.cluster_size)[m]
LEMMA RootTold ==
  ASSUME Exact, NEW k, NEW s, NEW b, NEW n, NEW cur, RootRead(k, s, b, n)
  PROVE  LET dir == RootDirectory(vol)
             p == Base(k, s) + n
         IN  /\ p \in DOMAIN dir /\ b[n] = dir[p]
             /\ ReadsOn(dir, p, b, n, cur) \/ Cut(SectorAt(vol.rootchain[k]) + s, n, b[n])
  <1> USE DEF RootRead
  <1> DEFINE d == DIRENTSPERBLOCK
             cs == vol.bs.cluster_size
             size == ClusterEntries(vol)
             chain == vol.rootchain
             dir == RootDirectory(vol)
             held == StoredFrom(vol, SectorAt(chain[k]) + s, cs)
             base == Base(k, s)
             before == (k - 1) * size
             left == s * d
             all == Len(chain) * size
  <1>1. /\ vol \in Volumes /\ d \in Nat \ {0} /\ cs \in Nat \ {0} /\ size \in Nat \ {0}
        /\ FatSize(vol.bs) = 32 /\ s \in Nat /\ size >= d /\ size = cs * d
    BY ExactReads, ClusterEntriesType, SizeAssumption DEF Exact, ClusterEntries
  <1>2. IsChain(chain, vol.fat) /\ chain \in Seq(ClusterNums) /\ Len(chain) \in Nat
    <2>1. IsChain(chain, vol.fat)
      BY <1>1, VolumeAssumption
    <2> QED BY <2>1 DEF IsChain
  <1>3. dir = InChain(vol, chain) /\ DOMAIN dir = 1..all
    BY <1>1, <1>2, ChainLength DEF RootDirectory
  <1>4. base = before + left /\ before \in Nat /\ left \in Nat /\ all \in Nat
    <2>1. k - 1 \in Nat /\ base = before + left
      BY DEF Base
    <2>2. Len(chain) \in Nat /\ size \in Nat /\ d \in Nat /\ s \in Nat
      BY <1>1, <1>2
    <2> HIDE DEF base, size, d, chain
    <2>3. all \in Nat /\ before \in Nat /\ left \in Nat
      BY ONLY <2>1, <2>2, NatProduct DEF all, before, left
    <2> QED BY <2>1, <2>3
  <1>15. d \in Nat \ {0} /\ size \in Nat \ {0} /\ size >= d /\ cs \in Nat \ {0} /\ s \in Nat
    BY <1>1
  <1>16. n \in 1..d /\ Len(b) = size
    OBVIOUS
  <1>5. k = Len(chain) => all = before + size
    <2> HAVE k = Len(chain)
    <2>1. k \in Int /\ size \in Int
      BY <1>1
    <2> HIDE DEF size
    <2>2. k * size = ((k - 1) * size) + size
      BY <2>1
    <2> QED BY <2>2
  <1>6. ASSUME NEW m \in 1..size, left + m <= size
        PROVE  base + m \in 1..all /\ dir[base + m] = held[m]
    BY <1>6, RootReads
  <1>7. size >= d + d /\ (s # cs - 1 => left + (d + d) <= size)
    <2> HIDE DEF d, cs, size, left, held, dir, base, before, all, chain
    <2>1. ASSUME NEW y \in Nat, y + 2 <= cs PROVE (y * d) + (d + d) <= size
      <3> DEFINE more == cs - (y + 2)
                 low == y * d
                 high == more * d
      <3>1. more \in Nat /\ cs = y + (2 + more)
        BY <1>1, <2>1
      <3> HIDE DEF more
      <3>2. size = low + ((d + d) + high) /\ low \in Nat /\ high \in Nat
        BY <1>1, <3>1
      <3> HIDE DEF low, high
      <3> QED BY <1>1, <3>2, SMTT(30) DEF low
    <2>2. cs > 1 /\ s <= cs - 1
      BY DEF cs
    <2>3. 0 + 2 <= cs /\ 0 * d = 0
      BY <1>1, <2>2
    <2>4. size >= d + d
      BY <1>1, <2>1, <2>3
    <2>5. s # cs - 1 => s + 2 <= cs
      BY <1>1, <2>2
    <2> QED BY <1>1, <2>1, <2>4, <2>5 DEF left, d
  <1>8. \A m \in n..size : b[m] = held[m]
    OBVIOUS
  <1>9. left + d <= size
    <2>1. CASE s # cs - 1
      <3> HIDE DEF left, size
      <3> QED BY ONLY <1>15, <1>4, <1>7, <2>1
    <2>2. CASE s = cs - 1
      <3>1. size = ((cs - 1) * d) + d
        <4> HIDE DEF cs, size
        <4> QED BY <1>1
      <3> QED BY <1>1, <2>2, <3>1
    <2> QED BY <2>1, <2>2
  <1>10. n \in 1..size /\ n \in n..size /\ left + n <= size /\ n \in Nat \ {0}
    <2> HIDE DEF left, size, d, before, base, all
    <2> QED BY ONLY <1>15, <1>16, <1>4, <1>9
  <1>11. base + n \in 1..all /\ b[n] = dir[base + n]
    BY <1>6, <1>8, <1>10
  <1>12. Id(dir[base + n]) \in Nat
    <2>1. \A m \in 1..size : held[m] \in DirEntries
      <3>1. held \in Seq(DirEntries) /\ Len(held) = size
        BY <1>1, StoredEntries DEF Directory
      <3> HIDE DEF held, size
      <3> QED BY <3>1
    <2>2. dir[base + n] \in DirEntries
      BY <1>6, <1>10, <2>1
    <2> QED BY <2>2 DEF Id, DirEntries
  <1>14. ASSUME ~Cut(SectorAt(chain[k]) + s, n, b[n]) PROVE ReadsOn(dir, base + n, b, n, cur)
    <2> DEFINE z == Id(dir[base + n])
    <2>1. ASSUME z <= VFAT_MAXSEQ, NEW m \in n..(n + z)
          PROVE  m <= Len(b) /\ base + m \in 1..all /\ b[m] = dir[base + m]
      <3>1. z \in Nat /\ n + z < d + d
        BY <1>1, <1>12, <2>1, WindowFits
      <3>2. s = cs - 1 /\ n + z > d => k < Len(chain) /\ chain[k + 1] = chain[k] + 1
        <4>1. SUFFICES ASSUME s = cs - 1, n + z > d,
                              k < Len(chain) => chain[k + 1] # chain[k] + 1
                       PROVE  BeforeGap(SectorAt(chain[k]) + s)
          <5>1. Id(b[n]) = z /\ Len(chain) \in Nat /\ k \in 1..Len(chain)
            BY <1>2, <1>11
          <5> HIDE DEF z
          <5> QED BY <1>14, <5>1 DEF Cut
        <4>2. SectorAt(chain[k]) \in Int
          BY <1>1, <1>2, ChainEnds, ExactReads
        <4>3. SectorAt(chain[k]) + s = (SectorAt(chain[k]) + cs) - 1
          <5> HIDE DEF cs
          <5> QED BY <1>1, <4>1, <4>2
        <4> QED BY <1>1, <4>1, <4>3 DEF BeforeGap
      <3> DEFINE x == m - d
      <3>3. m \in n..size /\ m \in 1..size /\ b[m] = held[m]
        <4>1. m \in n..size /\ m \in 1..size
          <5> HIDE DEF z, size
          <5> QED BY <1>1, <1>7, <1>10, <3>1
        <4> QED BY <1>8, <4>1
      <3>4. CASE left + m <= size
        BY <1>6, <1>16, <3>3, <3>4
      <3>5. CASE ~(left + m <= size)
        <4>1. s = cs - 1 /\ m > d /\ n + z > d
          <5> HIDE DEF z, left, size, d, before, base, all, cs
          <5>1. m \in n..(n + z) /\ s <= cs - 1
            BY DEF cs
          <5>2. left \in Nat /\ d \in Nat /\ size \in Nat /\ m \in Nat /\ n \in Nat /\ z \in Nat
                /\ m <= n + z /\ n + z < d + d
            BY ONLY <1>15, <1>4, <1>10, <3>1, <3>3, <5>1
          <5>3. left + m > size
            BY ONLY <5>2, <3>5
          <5>4. m > d
            BY ONLY <5>2, <5>3, <1>9
          <5>5. ~(left + (d + d) <= size)
            BY ONLY <5>2, <5>3
          <5>6. n + z > d
            BY ONLY <5>2, <5>4
          <5>7. s = cs - 1
            BY ONLY <5>5, <1>7
          <5> QED BY ONLY <5>4, <5>6, <5>7
        <4>2. x \in 1..d /\ d + x = m
          <5> HIDE DEF z
          <5> QED BY ONLY <1>15, <1>16, <3>1, <4>1, m \in n..(n + z)
        <4>3. k \in 1..(Len(chain) - 1) /\ chain[k + 1] = chain[k] + 1
          BY <1>2, <3>2, <4>1
        <4> HIDE DEF x
        <4>4. /\ Base(k, cs - 1) + (d + x) \in 1..all
              /\ dir[Base(k, cs - 1) + (d + x)] = StoredFrom(vol, SectorAt(chain[k]) + (cs - 1), cs)[d + x]
          BY <4>2, <4>3, RootReadsOn
        <4> QED BY <1>16, <3>3, <4>1, <4>2, <4>4
      <3> QED BY <3>4, <3>5
    <2>2. n \in Nat
      BY <1>10
    <2>3. z \in Nat /\ z = Id(dir[base + n]) /\ base \in Nat
      BY <1>4, <1>12
    <2> DEFINE root == dir
               start == base
    <2>4. /\ all \in Nat /\ DOMAIN root = 1..all /\ start \in Nat /\ z = Id(root[start + n])
          /\ b[n] = root[start + n]
          /\ z <= VFAT_MAXSEQ => \A m \in n..(n + z) :
               m <= Len(b) /\ start + m \in 1..all /\ b[m] = root[start + m]
      BY <1>3, <1>4, <1>11, <2>1, <2>3
    <2> HIDE DEF z, root, all, start, RootRead
    <2>5. ReadsOn(root, start + n, b, n, cur)
      BY ONLY <2>2, <2>3, <2>4, BlockTold
    <2> QED BY <2>5 DEF root, start
  <1>17. base + n \in DOMAIN dir
    BY <1>3, <1>11
  <1> HIDE DEF all, base, held, before, left, size, d, cs
  <1> QED BY ONLY <1>11, <1>14, <1>17 DEF dir, base, chain

-----------------------------------------------------------------------------
(* What a search concludes from an entry.                                  *)

\* The entry with which the search for name ends.
Answers(e, name) ==
  /\ e.file = name.file
  /\ IF name.long THEN e.kind = "last" /\ Slots[name.file] <= VFAT_MAXSEQ ELSE e.kind = "short"
\* It is none of the first p - 1.
NotYet(dir, p, name) ==
  \A q \in DOMAIN dir : q < p => dir[q].kind # "end" /\ ~Answers(dir[q], name)

\* What is heard at an entry that is not skipped.
Heard(e, files, v, name) ==
  /\ Matches(v, name) => Holds(files, name) /\ v.dent.kind = "short" /\ v.dent.file = name.file
  /\ ~Matches(v, name) => ~Answers(e, name)

LEMMA NameType ==
  ASSUME NEW name \in Names
  PROVE  /\ name.file \in Files /\ name.long \in BOOLEAN
         /\ name.long => Slots[name.file] > 0
  <1>1. CASE name \in {Name(f, FALSE) : f \in Files}
    <2>1. PICK f \in Files : name = Name(f, FALSE)
      BY <1>1
    <2> QED BY <2>1 DEF Name
  <1>2. CASE name \in {Name(f, TRUE) : f \in {g \in Files : Slots[g] > 0}}
    <2>1. PICK f \in {g \in Files : Slots[g] > 0} : name = Name(f, TRUE)
      BY <1>2
    <2> QED BY <2>1 DEF Name
  <1> QED BY <1>1, <1>2 DEF Names

LEMMA LongIs ==
  ASSUME NEW f \in Files, Slots[f] > 0
  PROVE  Long(f) # <<>> /\ Long(f)[1] = <<f, 1>> /\ DOMAIN Long(f) = 1..Slots[f]
  <1>1. Slots[f] \in Nat \ {0} /\ 1 \in 1..Slots[f]
    BY SlotsType
  <1>2. DOMAIN Long(f) = 1..Slots[f] /\ Long(f)[1] = <<f, 1>>
    BY <1>1 DEF Long
  <1>3. DOMAIN << >> = {}
    OBVIOUS
  <1> QED BY <1>1, <1>2, <1>3

LEMMA ShortFollows ==
  ASSUME NEW dir, NEW all \in Nat, DOMAIN dir = 1..all, NEW files, WellFormed(dir, files),
         NEW p \in 1..all, dir[p].kind = "last"
  PROVE  LET f == dir[p].file
         IN  /\ f \in files /\ f \in Files /\ Slots[f] \in Nat \ {0} /\ p + Slots[f] \in 1..all
             /\ dir[p + Slots[f]] = Short(f)
  <1> DEFINE f == dir[p].file
  <1>1. GroupAt(dir, p) /\ p \in Int /\ f = dir[p].file
    BY DEF WellFormed
  <1>2. /\ f \in Files /\ Slots[f] \in Nat \ {0} /\ p + Slots[f] \in DOMAIN dir
        /\ dir[p + Slots[f]] = Short(f)
    BY ONLY <1>1, GroupRead
  <1>3. Short(f).kind = "short" /\ Short(f).file = f
    BY DEF Short, Entry
  <1>4. f \in files
    <2> HIDE DEF f
    <2> QED BY <1>2, <1>3 DEF WellFormed
  <1> QED BY <1>2, <1>4

\* An entry that announces nothing is compared itself.
LEMMA FailedIsHeard ==
  ASSUME NEW dir, NEW all, Area(dir, all), NEW files, WellFormed(dir, files), NEW p \in 1..all,
         dir[p].kind \in {"end", "short"}, NEW b, NEW n, NEW cur, b[n] = dir[p], NEW name \in Names
  PROVE  Heard(dir[p], files, Voice(b, n, cur), name)
  <1> DEFINE e == dir[p]
             g == name.file
  <1>1. g \in Files /\ name.long \in BOOLEAN /\ (name.long => Slots[g] > 0)
    BY NameType
  <1>2. Voice(b, n, cur) = Failed(e) /\ Failed(e).dent = e /\ Failed(e).l_name = <<>>
    BY DEF Voice, Failed
  <1>3. e.kind = "short" => e.file \in files
    BY DEF Area, WellFormed
  <1> HIDE DEF e, g
  <1>4. CASE name.long
    <2>1. ~Matches(Failed(e), name)
      BY <1>1, <1>2, <1>4, LongIs DEF Matches, g
    <2>2. e.kind # "last"
      BY DEF e
    <2> QED BY <1>2, <1>4, <2>1, <2>2 DEF Heard, Answers, e
  <1>5. CASE ~name.long
    <2>1. e.kind \in {"end", "short"}
      BY DEF e
    <2>2. Matches(Failed(e), name) <=> e.kind = "short" /\ e.file = name.file
      BY <1>2, <1>5, <2>1 DEF Matches
    <2> QED BY <1>2, <1>3, <1>5, <2>2 DEF Heard, Holds, Answers, e
  <1> QED BY <1>1, <1>4, <1>5

LEMMA LastDent ==
  ASSUME NEW dir, NEW all, Area(dir, all), NEW p \in 1..all, GroupAt(dir, p),
         NEW b, NEW n, NEW cur, ReadsOn(dir, p, b, n, cur), dir[p].kind = "last"
  PROVE  GetVfatname(b, n, cur).dent.kind \in {"short", "last"}
  <1> DEFINE f == dir[p].file
             v == GetVfatname(b, n, cur)
  <1>1. GroupAt(dir, p) /\ f = dir[p].file /\ p \in Int
    BY DEF Area
  <1> HIDE DEF f
  <1>2. CASE Slots[f] <= VFAT_MAXSEQ
    <2>1. v = [dent |-> Short(f), l_name |-> Long(f)]
      BY <1>1, <1>2, NameRead
    <2> QED BY <2>1 DEF Short, Entry
  <1>3. CASE ~(Slots[f] <= VFAT_MAXSEQ)
    <2>1. /\ Slots[f] \in Nat \ {0}
          /\ \A k \in 0..(Slots[f] - 1) : Id(dir[p + k]) = Slots[f] - k
      BY ONLY <1>1, GroupRead
    <2> DEFINE m == Slots[f]
    <2> HIDE DEF m
    <2>2. 0 \in 0..(m - 1) /\ p + 0 = p /\ m - 0 = m
      BY <1>1, <2>1 DEF m
    <2>3. Id(dir[p]) = m
      BY <2>1, <2>2 DEF m
    <2>4. ~Announced(dir, p)
      BY <1>3, <2>3, SizeAssumption DEF Announced, m
    <2>5. v.dent = dir[p]
      BY <2>4, ReadAs DEF Failed
    <2> QED BY <2>5
  <1> QED BY <1>2, <1>3

\* The slots of a long name, and what a label is taken for, lead to the entry of the file
\* or to none that has the name, unless a label is in its way.
LEMMA ToldIsHeard ==
  ASSUME NEW dir, NEW all, Area(dir, all), NEW files, WellFormed(dir, files), NEW p \in 1..all,
         dir[p].kind \in {"last", "label"}, NEW b, NEW n, NEW cur, ReadsOn(dir, p, b, n, cur),
         NEW name \in Names, NotYet(dir, p, name), ~Labelled(dir, name)
  PROVE  Heard(dir[p], files, Voice(b, n, cur), name)
  <1> DEFINE e == dir[p]
             g == name.file
             v == GetVfatname(b, n, cur)
             c == Id(dir[p])
  <1>1. g \in Files /\ name.long \in BOOLEAN /\ (name.long => Slots[g] > 0)
    BY NameType
  <1>2. Voice(b, n, cur) = v /\ all \in Nat /\ DOMAIN dir = 1..all
    BY DEF Voice, ReadsOn, Area
  <1>3. e.kind = "last" => GroupAt(dir, p) /\ e.file \in Files
    <2>1. e.kind = "last" => GroupAt(dir, p)
      BY <1>2 DEF WellFormed
    <2> QED BY <2>1 DEF GroupAt
  <1>4. CASE name.long
    <2>1. Matches(v, name) => v.dent = Short(g) /\ g \in files /\ Slots[g] <= VFAT_MAXSEQ
      BY <1>1, <1>4, LongHeard DEF Matches
    <2>2. Short(g).kind = "short" /\ Short(g).file = g
      BY DEF Short, Entry
    <2>3. Answers(e, name) => Matches(v, name)
      <3> HAVE Answers(e, name)
      <3>1. GroupAt(dir, p) /\ g = dir[p].file /\ Slots[g] <= VFAT_MAXSEQ
        BY <1>3, <1>4 DEF Answers
      <3> HIDE DEF g
      <3>2. v = [dent |-> Short(g), l_name |-> Long(g)]
        BY <3>1, NameRead
      <3>3. v.l_name = Long(g)
        BY <3>2
      <3> QED BY <1>4, <3>3 DEF Matches, g
    <2> QED BY <1>2, <1>4, <2>1, <2>2, <2>3 DEF Heard, Holds
  <1>5. CASE ~name.long
    <2>1. ~Answers(e, name)
      BY <1>5 DEF Answers
    <2>2. SUFFICES ASSUME Matches(v, name) PROVE g \in files /\ v.dent.kind = "short"
      BY <1>2, <1>5, <2>1 DEF Heard, Holds, Matches
    <2>3. v.dent.kind \in {"short", "label", "digits"} /\ v.dent.file = g
      BY <1>5, <2>2 DEF Matches
    <2>4. PICK q \in 1..all : v.dent = dir[q]
      <3>1. CASE Announced(dir, p)
        <4>1. v.dent = dir[p + c] /\ p + c \in 1..all
          BY <1>2, <3>1, ReadAs DEF Announced
        <4> HIDE DEF c, v
        <4> QED BY <4>1
      <3>2. CASE ~Announced(dir, p)
        <4>1. v.dent = dir[p]
          BY <3>2, ReadAs DEF Failed
        <4> QED BY <4>1
      <3> QED BY <3>1, <3>2
    <2>5. v.dent.kind = "short" => g \in files
      BY <1>2, <2>3, <2>4 DEF WellFormed
    <2>6. SUFFICES ASSUME v.dent.kind \in {"label", "digits"} PROVE FALSE
      BY <2>3, <2>5
    <2>7. e.kind = "label"
      <3>1. e.kind = "last" => v.dent.kind \in {"short", "last"}
        BY <1>3, LastDent
      <3> QED BY <2>6, <3>1
    <2>8. GetVfatname(dir, p, 0).dent = v.dent
      BY SameDent
    <2>9. \A m \in 1..(p - 1) : ~IsShort(dir[m], g)
      <3> TAKE m \in 1..(p - 1)
      <3>1. m \in DOMAIN dir /\ m < p
        BY <1>2
      <3> QED BY <1>5, <3>1 DEF NotYet, Answers, IsShort
    <2> DEFINE w == GetVfatname(dir, p, 0).dent
    <2>10. w.kind \in {"label", "digits"} /\ w.file = name.file /\ p \in DOMAIN dir
      BY <1>2, <2>3, <2>6, <2>8
    <2> HIDE DEF w
    <2>11. Labelled(dir, name)
      BY <1>5, <2>7, <2>9, <2>10 DEF Labelled, w
    <2> QED BY <2>11
  <1> QED BY <1>1, <1>4, <1>5

LEMMA StillNotYet ==
  ASSUME NEW dir, NEW all \in Nat, DOMAIN dir = 1..all, NEW p \in Nat, NEW name,
         NotYet(dir, p, name), p \in 1..all => dir[p].kind # "end" /\ ~Answers(dir[p], name)
  PROVE  NotYet(dir, p + 1, name)
  <1> SUFFICES ASSUME NEW q \in 1..all, q < p + 1
               PROVE  dir[q].kind # "end" /\ ~Answers(dir[q], name)
    BY DEF NotYet
  <1>1. q = p \/ q < p
    OBVIOUS
  <1> QED BY <1>1 DEF NotYet

\* The directory is at its end, or there are only free entries.
LEMMA NothingLeft ==
  ASSUME NEW dir, NEW all \in Nat, DOMAIN dir = 1..all, NEW files, files \subseteq Files,
         WellFormed(dir, files), NEW p \in Nat, NEW name \in Names, NotYet(dir, p, name),
         p > all \/ (p \in 1..all /\ dir[p].kind = "end")
  PROVE  ~Holds(files, name)
  <1> DEFINE g == name.file
  <1>1. SUFFICES ASSUME Holds(files, name) PROVE FALSE
    OBVIOUS
  <1>2. g \in files /\ g \in Files /\ name.long \in BOOLEAN /\ (name.long => Slots[g] > 0)
        /\ (name.long => Slots[g] <= VFAT_MAXSEQ)
    BY <1>1, NameType DEF Holds
  <1>3. \A q \in 1..all : q >= p => dir[q].kind = "end"
    <2> TAKE q \in 1..all
    <2> HAVE q >= p
    <2>1. p \in 1..all /\ dir[p].kind = "end" /\ (q = p \/ q > p)
      OBVIOUS
    <2> QED BY <2>1 DEF WellFormed
  <1>4. \A q \in 1..all : dir[q].kind # "end" => ~Answers(dir[q], name)
    <2> TAKE q \in 1..all
    <2>1. q >= p \/ q < p
      OBVIOUS
    <2> QED BY <1>3, <2>1 DEF NotYet
  <1>5. PICK q \in 1..all : dir[q].file = g /\ dir[q].kind = IF Slots[g] > 0 THEN "last" ELSE "short"
    BY <1>2 DEF WellFormed
  <1>6. CASE name.long
    BY <1>2, <1>4, <1>5, <1>6 DEF Answers
  <1>7. CASE ~name.long /\ Slots[g] > 0
    <2>1. q + Slots[g] \in 1..all /\ dir[q + Slots[g]] = Short(g)
      BY <1>5, <1>7, ShortFollows
    <2>2. dir[q + Slots[g]].kind = "short" /\ dir[q + Slots[g]].file = g
      BY <2>1 DEF Short, Entry
    <2> QED BY <1>4, <1>7, <2>1, <2>2 DEF Answers
  <1>8. CASE ~name.long /\ ~(Slots[g] > 0)
    BY <1>4, <1>5, <1>8 DEF Answers
  <1> QED BY <1>6, <1>7, <1>8

\* get_dentfromdir ends at a free entry that a label leads to; nothing is behind it.
LEMMA NothingCropped ==
  ASSUME NEW dir, NEW all, Area(dir, all), NEW files, files \subseteq Files, WellFormed(dir, files),
         NEW p \in 1..all, dir[p].kind \in {"last", "label"}, NEW b, NEW n, NEW cur,
         ReadsOn(dir, p, b, n, cur), GetVfatname(b, n, cur).dent.kind = "end",
         NEW name \in Names, NotYet(dir, p, name), ~Cropped(dir, name)
  PROVE  ~Holds(files, name)
  <1> DEFINE g == name.file
  <1>1. SUFFICES ASSUME Holds(files, name) PROVE FALSE
    OBVIOUS
  <1>2. g \in files /\ g \in Files /\ name.long \in BOOLEAN /\ (name.long => Slots[g] > 0)
        /\ (name.long => Slots[g] <= VFAT_MAXSEQ)
    BY <1>1, NameType DEF Holds
  <1>3. all \in Nat /\ DOMAIN dir = 1..all
    BY DEF Area
  <1>4. dir[p].kind = "label"
    <2>1. dir[p].kind = "last" => GroupAt(dir, p)
      BY <1>3 DEF WellFormed
    <2>2. dir[p].kind = "last" => GetVfatname(b, n, cur).dent.kind \in {"short", "last"}
      BY <2>1, LastDent
    <2> QED BY <2>2
  <1>5. \A q \in 1..all : dir[q].kind = "short" /\ dir[q].file = g => q < p
    <2> DEFINE w == GetVfatname(dir, p, 0).dent
    <2>1. w.kind = "end"
      BY SameDent
    <2> TAKE q \in 1..all
    <2> HIDE DEF w
    <2>2. q > p => ~IsShort(dir[q], g)
      BY <1>3, <1>4, <2>1 DEF Cropped, w
    <2> QED BY <1>4, <2>2 DEF IsShort
  <1>6. PICK q \in 1..all : dir[q].file = g /\ dir[q].kind = IF Slots[g] > 0 THEN "last" ELSE "short"
    BY <1>2, <1>3 DEF WellFormed
  <1>7. CASE Slots[g] > 0
    <2>1. q + Slots[g] \in 1..all /\ dir[q + Slots[g]] = Short(g) /\ Slots[g] \in Nat
      BY <1>3, <1>6, <1>7, ShortFollows
    <2> DEFINE r == q + Slots[g]
    <2>2. dir[r].kind = "short" /\ dir[r].file = g /\ r \in 1..all
      BY <2>1 DEF Short, Entry
    <2>3. r < p
      BY <1>5, <2>2
    <2>4. q < p
      BY <2>1, <2>3
    <2>5. ~Answers(dir[r], name) /\ ~Answers(dir[q], name)
      BY <1>3, <2>2, <2>3, <2>4 DEF NotYet
    <2> HIDE DEF r
    <2> QED BY <1>2, <1>6, <1>7, <2>2, <2>5 DEF Answers
  <1>8. CASE ~(Slots[g] > 0)
    <2>1. dir[q].kind = "short" /\ dir[q].file = g /\ ~name.long
      BY <1>2, <1>6, <1>8
    <2>2. ~Answers(dir[q], name)
      BY <1>3, <1>5, <2>1 DEF NotYet
    <2> QED BY <2>1, <2>2 DEF Answers
  <1> QED BY <1>7, <1>8

\* What get_vfatname makes of what lies in the block depends on nothing before it.
SameFrom(b, h, n) ==
  /\ n \in Nat \ {0} /\ Len(b) \in Nat /\ Len(h) = Len(b) /\ \A m \in n..Len(b) : b[m] = h[m]
  /\ Id(b[n]) \in Nat /\ n + Id(b[n]) <= Len(b)
LEMMA SameName ==
  ASSUME NEW b, NEW h, NEW n, SameFrom(b, h, n), NEW cur, NEW at
  PROVE  GetVfatname(b, n, cur) = GetVfatname(h, n, at)
  <1> DEFINE c == Id(b[n])
  <1>1. c \in Nat /\ n + c <= Len(b) /\ n \in Nat \ {0} /\ Len(b) \in Nat /\ Len(h) = Len(b)
        /\ \A m \in n..Len(b) : b[m] = h[m]
    BY DEF SameFrom
  <1> HIDE DEF c
  <1>2. b[n] = h[n] /\ c = Id(h[n])
    BY <1>1 DEF c
  <1>3. ASSUME NEW x \in 0..c
        PROVE  Ahead(b, n, cur, x) = Ahead(h, n, at, x) /\ InReach(b, n, cur, x) /\ InReach(h, n, at, x)
    <2>1. n + x <= Len(b) /\ n + x \in n..Len(b)
      BY <1>1
    <2> QED BY <1>1, <2>1 DEF Ahead, InReach
  <1>4. InReach(b, n, cur, c) /\ InReach(h, n, at, c) /\ Ahead(b, n, cur, c) = Ahead(h, n, at, c)
    BY <1>1, <1>3
  <1>5. Descending(b, n, cur, c) <=> Descending(h, n, at, c)
    <2>1. \A k \in 0..(c - 1) : Ahead(b, n, cur, k) = Ahead(h, n, at, k)
      BY <1>1, <1>3
    <2> QED BY <2>1 DEF Descending
  <1>6. Pieces(b, n, cur, c) = Pieces(h, n, at, c)
    <2> DEFINE D(bb, cc) == {y \in 1..c : \A m \in 1..(y - 1) :
                               n + c - m <= Len(bb) => Ahead(bb, n, cc, c - m).kind = "slot"}
               F(bb, cc, k) == Piece(Ahead(bb, n, cc, c - k))
    <2>1. \A m \in 1..c : Ahead(b, n, cur, c - m) = Ahead(h, n, at, c - m)
      BY <1>1, <1>3
    <2>2. D(b, cur) = D(h, at)
      <3>1. ASSUME NEW y \in 1..c, NEW m \in 1..(y - 1) PROVE m \in 1..c
        BY <1>1
      <3> QED BY <1>1, <2>1, <3>1
    <2>3. \A k \in D(b, cur) : F(b, cur, k) = F(h, at, k)
      BY <2>1
    <2>4. /\ Pieces(b, n, cur, c) = [k \in D(b, cur) |-> F(b, cur, k)]
          /\ Pieces(h, n, at, c) = [k \in D(h, at) |-> F(h, at, k)]
      BY DEF Pieces
    <2> HIDE DEF D, F
    <2> QED BY <2>2, <2>3, <2>4
  <1> QED BY <1>2, <1>4, <1>5, <1>6 DEF GetVfatname, c

\* The exceptions of LookupIsExact in the root directory.
Excepted(name) ==
  Misled(name) \/ (name.long /\ Split(name.file)) \/ Labelled(RootDirectory(vol), name)

\* Entry n of a block whose first sector is at, which is the directory's from base on.
CutRead(dir, base, b, n, at) ==
  /\ at \in Int /\ n \in 1..DIRENTSPERBLOCK /\ base \in Nat /\ Window \in Nat /\ Window > 1
  /\ Len(b) = Window * DIRENTSPERBLOCK /\ \A m \in n..Len(b) : b[m] = StoredFrom(vol, at, Window)[m]
  /\ \A m \in 1..DIRENTSPERBLOCK : base + m \in DOMAIN dir /\ dir[base + m] = Stored(vol, at)[m]
LEMMA CutIsHeard ==
  ASSUME vol \in Volumes, NEW dir, NEW all, Area(dir, all), WellFormed(dir, vol.root),
         NEW base, NEW b, NEW n, NEW at, CutRead(dir, base, b, n, at),
         Cut(at, n, b[n]), b[n].kind \in {"last", "label"}, Id(b[n]) <= VFAT_MAXSEQ,
         NEW cur, NEW name \in Names, ~Misled(name), ~(name.long /\ Split(name.file))
  PROVE  Heard(b[n], vol.root, Voice(b, n, cur), name)
  <1> DEFINE d == DIRENTSPERBLOCK
             h == StoredFrom(vol, at, Window)
             p == base + n
             c == Id(b[n])
             f == b[n].file
             g == name.file
             v == GetVfatname(b, n, cur)
  <1>1. /\ at \in Int /\ n \in 1..d /\ base \in Nat /\ Window \in Nat /\ Window > 1
        /\ Len(b) = Window * d /\ \A m \in n..Len(b) : b[m] = h[m]
        /\ \A m \in 1..d : base + m \in DOMAIN dir /\ dir[base + m] = Stored(vol, at)[m]
    BY DEF CutRead
  <1>2. /\ d \in Nat \ {0} /\ all \in Nat /\ DOMAIN dir = 1..all /\ \A q \in 1..all : dir[q] \in DirEntries
        /\ VFAT_MAXSEQ \in Nat /\ n \in Nat \ {0}
    BY <1>1, SizeAssumption DEF Area
  <1>3. n + c <= Window * d /\ Window * d \in Nat /\ n <= Window * d /\ c \in Nat
    <2>1. h[n] \in DirEntries /\ n <= Window * d /\ Window * d \in Nat /\ b[n] = h[n]
      <3>1. h \in Seq(DirEntries) /\ Len(h) = Window * d
        BY <1>1, StoredEntries DEF Directory
      <3> HIDE DEF h
      <3>2. n + 0 <= Window * d
        BY <1>1, <1>2, WindowFits
      <3>3. n \in 1..Len(h) /\ n <= Window * d /\ Len(h) \in Nat
        BY <1>2, <3>1, <3>2
      <3>4. n \in n..Len(b)
        BY <1>1, <3>1, <3>3
      <3>5. h[n] \in DirEntries /\ b[n] = h[n]
        BY <1>1, <3>1, <3>3, <3>4
      <3> QED BY <3>1, <3>3, <3>5
    <2>2. c \in Nat
      BY <2>1 DEF DirEntries, Id
    <2>3. n + c <= Window * d
      BY <1>1, <2>2, WindowFits
    <2> QED BY <2>1, <2>2, <2>3
  <1>4. Len(h) = Window * d /\ b[n] = h[n] /\ h[n] = Stored(vol, at)[n] /\ b[n] = dir[p]
    <2>1. Len(h) = Window * d
      BY <1>1, StoredEntries
    <2>2. b[n] = h[n]
      <3>1. n \in n..Len(b)
        BY <1>1, <1>2, <1>3
      <3> QED BY <1>1, <3>1
    <2>3. h[n] = Stored(vol, at)[n]
      <3>1. h[(0 * DIRENTSPERBLOCK) + n] = Stored(vol, at + 0)[n]
        <4>1. 0 \in 0..(Window - 1)
          BY <1>1
        <4> HIDE DEF Window
        <4> QED BY <1>1, <4>1, StoredPlace
      <3>2. (0 * DIRENTSPERBLOCK) + n = n /\ at + 0 = at
        BY <1>1, <1>2
      <3> QED BY <3>1, <3>2
    <2> QED BY <1>1, <2>1, <2>2, <2>3
  <1>5. at \in DOMAIN vol.disk
    <2>1. SUFFICES ASSUME at \notin DOMAIN vol.disk PROVE FALSE
      OBVIOUS
    <2>2. Stored(vol, at) = [x \in 1..d |-> End]
      BY <2>1 DEF Stored
    <2>3. b[n] = End
      BY <1>1, <1>4, <2>2
    <2> QED BY <2>3 DEF End, Entry
  <1>6. GetVfatname(h, n, 0) = v
    <2> HIDE DEF h
    <2>1. SameFrom(b, h, n)
      BY <1>1, <1>2, <1>3, <1>4 DEF SameFrom
    <2> QED BY <2>1, SameName
  <1>7. Voice(b, n, cur) = v
    BY DEF Voice
  <1>8. BeforeGap(at) /\ n + c > d
    BY DEF Cut
  <1>9. ASSUME Matches(v, name)
        PROVE  v.dent.kind = "short" /\ v.dent.file = g /\ g \in vol.root
    <2>1. SUFFICES ASSUME ~(v.dent.kind = "short" /\ v.dent.file = g /\ g \in vol.root)
                   PROVE  Misled(name)
      OBVIOUS
    <2> DEFINE w == GetVfatname(h, n, 0)
    <2>2. Matches(w, name) /\ ~(w.dent.kind = "short" /\ w.dent.file = name.file /\ name.file \in vol.root)
      BY <1>6, <1>9, <2>1
    <2>3. h[n].kind \in {"last", "label"} /\ Id(h[n]) <= VFAT_MAXSEQ
          /\ n + Id(h[n]) > DIRENTSPERBLOCK /\ n \in 1..DIRENTSPERBLOCK
      BY <1>1, <1>4, <1>8
    <2> HIDE DEF w, v
    <2>4. h = StoredFrom(vol, at, Window)
      OBVIOUS
    <2> HIDE DEF h
    <2> QED BY <1>5, <1>8, <2>2, <2>3, <2>4 DEF Misled, w
  <1>10. name.long \in BOOLEAN /\ g \in Files /\ (name.long => Slots[g] > 0)
    BY NameType
  <1>11. CASE name.long
    <2>1. Matches(v, name) => Slots[g] <= VFAT_MAXSEQ
      <3>1. SUFFICES ASSUME v.l_name = Long(g) PROVE Slots[g] <= VFAT_MAXSEQ
        BY <1>11 DEF Matches
      <3>2. Slots[g] \in DOMAIN Long(g)
        <4>1. DOMAIN Long(g) = 1..Slots[g] /\ Slots[g] \in Nat
          BY <1>10, <1>11, LongIs, SlotsType
        <4> QED BY <1>10, <1>11, <4>1
      <3>3. v = [dent |-> Ahead(b, n, cur, c), l_name |-> Pieces(b, n, cur, c)] \/ v = Failed(b[n])
        BY ONLY DEF GetVfatname
      <3>4. v # Failed(b[n])
        BY <1>10, <1>11, <3>1, LongIs DEF Failed
      <3>5. Slots[g] \in DOMAIN Pieces(b, n, cur, c)
        <4>1. v.l_name = Pieces(b, n, cur, c)
          BY <3>3, <3>4
        <4> HIDE DEF v, c
        <4> QED BY <3>1, <3>2, <4>1
      <3> HIDE DEF c
      <3>6. Slots[g] \in 1..c
        BY <3>5 DEF Pieces
      <3>7. c <= VFAT_MAXSEQ
        BY DEF c
      <3> QED BY <1>2, <1>3, <3>6, <3>7
    <2>2. ~Answers(b[n], name)
      <3>1. SUFFICES ASSUME b[n].kind = "last", f = g PROVE Split(g)
        BY <1>11 DEF Answers
      <3>2. GroupAt(dir, p) /\ f = dir[p].file /\ p \in Int
        <4>1. p \in 1..all
          BY <1>1, <1>2
        <4> QED BY <1>2, <1>4, <3>1, <4>1 DEF WellFormed
      <3>3. /\ Slots[f] \in Nat \ {0}
            /\ \A k \in 0..(Slots[f] - 1) :
                 /\ dir[p + k].file = f /\ Id(dir[p + k]) = Slots[f] - k
                 /\ dir[p + k].kind \in {"last", "slot"}
        <4> HIDE DEF p, f
        <4> QED BY ONLY <3>2, GroupRead
      <3> DEFINE z == Slots[f]
                 x == d - n
      <3>4. 0 \in 0..(z - 1) /\ p + 0 = p /\ z - 0 = z
        <4> HIDE DEF p, z
        <4> QED BY <3>2, <3>3 DEF z
      <3>5. c = z
        BY <1>4, <3>3, <3>4
      <3>6. x \in 0..(z - 1) /\ p + x = base + d
        <4>1. /\ d \in Nat /\ n \in 1..d /\ base \in Nat /\ z \in Nat \ {0} /\ n + z > d
              /\ x = d - n /\ p = base + n
          BY <1>1, <1>2, <1>8, <3>3, <3>5
        <4> HIDE DEF d, z, x, p
        <4> QED BY ONLY <4>1
      <3> HIDE DEF x, z
      <3>7. dir[p + x].file = f /\ dir[p + x].kind \in {"last", "slot"}
        BY <3>3, <3>6 DEF z
      <3>8. Stored(vol, at)[DIRENTSPERBLOCK] = dir[p + x]
        BY <1>1, <1>2, <3>6
      <3> QED BY <1>5, <1>8, <3>1, <3>7, <3>8 DEF Split
    <2> QED BY <1>7, <1>9, <1>11, <2>1, <2>2 DEF Heard, Holds
  <1>12. CASE ~name.long
    <2>1. ~Answers(b[n], name)
      BY <1>12 DEF Answers
    <2> QED BY <1>7, <1>9, <1>12, <2>1 DEF Heard, Holds
  <1> QED BY <1>10, <1>11, <1>12

-----------------------------------------------------------------------------
(* The inductive invariant of the search.                                  *)

\* A card the code reads, and a path that is none of the exceptions.
Sought == Recognised /\ Readable /\ ~Mistaken(asked)

\* The search of the root directory is in the j-th sector of its k-th cluster; the
\* directory of a FAT16 card counts as one.
RootClusters == IF mydata.fatsize = 32 THEN 1..Len(vol.rootchain) ELSE {1}
RootPlace(k) ==
  IF mydata.fatsize = 32
  THEN cluster = vol.rootchain[k] /\ cursect = SectorAt(cluster) + j /\ j < vol.bs.cluster_size
  ELSE cursect = RootAt + j /\ j < RootDirSize(vol.bs)

\* Entries of the block that were not examined yet are those of the card.
Unread(s, n) ==
  Len(buf) = n * DIRENTSPERBLOCK /\ \A m \in i..Len(buf) : buf[m] = StoredFrom(vol, s, n)[m]

RootSearch(k) ==
  /\ RootPlace(k) /\ path = asked
  /\ NotYet(RootDirectory(vol), Base(k, j) + (IF pc = "rootentry" THEN i ELSE 1), asked[1])
  /\ pc = "rootentry" => i \in 1..(DIRENTSPERBLOCK + 1) /\ Unread(cursect, Window)

DirSearch(k) ==
  LET dir == InChain(vol, vol.subchain[asked[1].file])
  IN  /\ cluster = vol.subchain[asked[1].file][k]
      /\ NotYet(dir, Base(k, 0) + (IF pc = "direntry" THEN i ELSE 1), asked[2])
      /\ pc = "direntry" => /\ i \in 1..(ClusterEntries(vol) + 1)
                            /\ Unread(SectorAt(cluster), vol.bs.cluster_size)

\* The name of a directory that was found in the root directory, and the one below it.
Below ==
  /\ Len(asked) = 2 /\ path = <<asked[2]>>
  /\ asked[1].file \in DOMAIN DirStart /\ Holds(vol.root, asked[1])

SearchInv ==
  /\ asked \in Seq(Names) /\ Len(asked) \in {1, 2}
  /\ pc \in {"register", "mount"} => path = asked /\ j = 0
  /\ pc # "returned" \/ ~Recognised => found = "none"
  /\ Sought /\ pc \in {"rootblock", "rootentry"} => \E k \in RootClusters : RootSearch(k)
  /\ Sought /\ pc \in {"dirblock", "direntry"} =>
       Below /\ \E k \in 1..Len(vol.subchain[asked[1].file]) : DirSearch(k)
  /\ Sought /\ pc = "returned" => found = Meant(asked)

LEMMA DirBase ==
  ASSUME vol \in Volumes, NEW k \in Nat \ {0}
  PROVE  Base(k, 0) = (k - 1) * ClusterEntries(vol) /\ Base(k, 0) \in Nat
  <1>1. k - 1 \in Nat /\ ClusterEntries(vol) \in Nat /\ DIRENTSPERBLOCK \in Nat
    BY ClusterEntriesType, SizeAssumption
  <1>2. (k - 1) * ClusterEntries(vol) \in Nat
    BY <1>1, NatProduct
  <1>3. Base(k, 0) = ((k - 1) * ClusterEntries(vol)) + (0 * DIRENTSPERBLOCK)
    BY DEF Base
  <1>4. 0 * DIRENTSPERBLOCK = 0
    BY <1>1
  <1> QED BY <1>2, <1>3, <1>4

LEMMA BaseOn ==
  ASSUME vol \in Volumes, NEW k \in Nat \ {0}, NEW s \in Nat
  PROVE  /\ Base(k, s) \in Nat /\ Base(k, s + 1) = Base(k, s) + DIRENTSPERBLOCK
         /\ s + 1 = vol.bs.cluster_size =>
              /\ Base(k, s) + DIRENTSPERBLOCK = Base(k + 1, 0)
              /\ Base(k, s) + DIRENTSPERBLOCK = k * ClusterEntries(vol)
  <1> DEFINE size == ClusterEntries(vol)
             d == DIRENTSPERBLOCK
             before == (k - 1) * size
             left == s * d
  <1>1. size \in Nat /\ d \in Nat /\ k - 1 \in Nat /\ before \in Nat /\ left \in Nat
    <2>1. size \in Nat /\ d \in Nat /\ k - 1 \in Nat
      BY ClusterEntriesType, SizeAssumption
    <2> HIDE DEF size, d
    <2> QED BY <2>1, NatProduct
  <1>2. Base(k, s) = before + left /\ Base(k, s + 1) = before + ((s + 1) * d)
    BY DEF Base
  <1>3. (s + 1) * d = left + d
    <2> HIDE DEF d
    <2> QED BY <1>1
  <1>4. s + 1 = vol.bs.cluster_size => size = left + d
    BY <1>3 DEF ClusterEntries
  <1>5. before + size = k * size
    <2> HIDE DEF size
    <2>1. k * size = ((k - 1) * size) + size
      BY <1>1
    <2> QED BY <1>1, <2>1
  <1>6. Base(k + 1, 0) = ((k + 1) - 1) * size
    BY DirBase
  <1>7. (k + 1) - 1 = k
    OBVIOUS
  <1> HIDE DEF before, left, size, d
  <1>8. Base(k + 1, 0) = k * size
    BY <1>6, <1>7
  <1> QED BY <1>1, <1>2, <1>3, <1>4, <1>5, <1>8 DEF size, d

LEMMA RootLength ==
  ASSUME Exact
  PROVE  LET all == IF mydata.fatsize = 32 THEN Len(vol.rootchain) * ClusterEntries(vol)
                    ELSE RootDirSize(vol.bs) * DIRENTSPERBLOCK
         IN  /\ all \in Nat /\ DOMAIN RootDirectory(vol) = 1..all /\ Area(RootDirectory(vol), all)
             /\ WellFormed(RootDirectory(vol), vol.root) /\ vol.root \subseteq Files
  <1>1. vol \in Volumes /\ mydata.fatsize = FatSize(vol.bs)
    BY ExactReads DEF Exact
  <1>2. WellFormed(RootDirectory(vol), vol.root) /\ vol.root \subseteq Files
    BY <1>1, DirectoryAssumption
  <1>3. CASE mydata.fatsize = 32
    <2> DEFINE chain == vol.rootchain
    <2>1. IsChain(chain, vol.fat)
      BY <1>1, <1>3, VolumeAssumption
    <2>2. chain \in Seq(ClusterNums)
      BY <2>1 DEF IsChain
    <2>3. Area(InChain(vol, chain), Len(chain) * ClusterEntries(vol))
      BY <1>1, <2>2, ChainArea
    <2> QED BY <1>1, <1>2, <1>3, <2>3 DEF RootDirectory, Area
  <1>4. CASE mydata.fatsize # 32
    <2>1. RootDirSize(vol.bs) \in Nat /\ DIRENTSPERBLOCK \in Nat
      BY <1>1, Fields, SizeAssumption
    <2>2. Area(RootDirectory(vol), RootDirSize(vol.bs) * DIRENTSPERBLOCK)
      BY <1>1, <1>4, <2>1, StoredArea DEF RootDirectory
    <2> QED BY <1>2, <1>4, <2>2 DEF Area
  <1> QED BY <1>3, <1>4

\* The sector the search of the root directory is in.
LEMMA RootSectorIs ==
  ASSUME Exact, NEW k \in RootClusters, RootPlace(k), j \in Nat
  PROVE  LET dir == RootDirectory(vol)
         IN  /\ cursect \in Int /\ Base(k, j) \in Nat
             /\ \A m \in 1..DIRENTSPERBLOCK :
                  Base(k, j) + m \in DOMAIN dir /\ dir[Base(k, j) + m] = Stored(vol, cursect)[m]
  <1> DEFINE d == DIRENTSPERBLOCK
             dir == RootDirectory(vol)
             cs == vol.bs.cluster_size
             size == ClusterEntries(vol)
  <1>1. /\ vol \in Volumes /\ mydata.fatsize = FatSize(vol.bs) /\ cs \in Nat \ {0}
        /\ d \in Nat \ {0} /\ size \in Nat \ {0} /\ size >= d
    BY ExactReads, ClusterEntriesType, SizeAssumption DEF Exact
  <1>2. k \in Nat \ {0}
    BY DEF RootClusters
  <1>3. Base(k, j) \in Nat
    BY <1>1, <1>2, BaseOn
  <1>4. CASE mydata.fatsize # 32
    <2> DEFINE held == RootDirSize(vol.bs)
    <2>1. k = 1 /\ cursect = RootAt + j /\ j \in 0..(held - 1) /\ RootAt \in Nat /\ held \in Nat
      BY <1>1, <1>4, ExactReads, Fields DEF RootClusters, RootPlace
    <2>2. dir = StoredFrom(vol, RootAt, held)
      BY <1>1, <1>4 DEF RootDirectory, RootAt
    <2>3. DOMAIN dir = 1..(held * d)
      BY <2>2 DEF StoredFrom
    <2>4. Base(k, j) = j * d
      <3>1. Base(k, j) = ((1 - 1) * size) + (j * d)
        BY <2>1 DEF Base
      <3>2. j * d \in Nat
        BY <1>1, NatProduct
      <3>3. (1 - 1) * size = 0
        BY <1>1
      <3> QED BY <3>1, <3>2, <3>3
    <2>5. ASSUME NEW m \in 1..d
          PROVE  Base(k, j) + m \in DOMAIN dir /\ dir[Base(k, j) + m] = Stored(vol, cursect)[m]
      <3> HIDE DEF dir, held
      <3>1. /\ (j * DIRENTSPERBLOCK) + m \in 1..(held * DIRENTSPERBLOCK)
            /\ StoredFrom(vol, RootAt, held)[(j * DIRENTSPERBLOCK) + m] = Stored(vol, RootAt + j)[m]
        BY ONLY <2>1, <2>5, StoredPlace
      <3> QED BY <2>1, <2>2, <2>3, <2>4, <3>1
    <2> QED BY <1>3, <2>1, <2>5
  <1>5. CASE mydata.fatsize = 32
    <2> DEFINE chain == vol.rootchain
               at == SectorAt(chain[k]) + j
    <2>1. k \in 1..Len(chain) /\ cluster = chain[k] /\ cursect = at /\ j \in 0..(cs - 1)
      BY <1>1, <1>5 DEF RootClusters, RootPlace
    <2>2. IsChain(chain, vol.fat)
      BY <1>1, <1>5, VolumeAssumption
    <2>3. SectorAt(chain[k]) \in Int
      BY <1>1, <2>1, <2>2, ChainEnds, ExactReads
    <2>4. DOMAIN dir = 1..(Len(chain) * size)
      BY <1>1, <1>5, <2>2, ChainLength DEF RootDirectory, IsChain
    <2>5. ASSUME NEW m \in 1..d
          PROVE  Base(k, j) + m \in DOMAIN dir /\ dir[Base(k, j) + m] = Stored(vol, cursect)[m]
      <3>1. (j * DIRENTSPERBLOCK) + m <= ClusterEntries(vol) /\ m \in 1..ClusterEntries(vol)
        <4> DEFINE more == (cs - 1) - j
                   low == j * d
                   high == more * d
        <4>1. more \in Nat /\ cs = j + (1 + more)
          BY <1>1, <2>1
        <4>2. size = cs * d
          BY DEF ClusterEntries
        <4> HIDE DEF more, cs, d, size
        <4>3. size = low + (d + high) /\ low \in Nat /\ high \in Nat
          BY <1>1, <4>1, <4>2
        <4> HIDE DEF low, high
        <4>4. low + m <= size /\ m \in 1..size
          BY <1>1, <2>5, <4>3
        <4> QED BY <4>4 DEF low, d, size
      <3>2. /\ Base(k, j) + m \in 1..(Len(chain) * size)
            /\ dir[Base(k, j) + m] = StoredFrom(vol, at, cs)[m]
        BY <1>5, <2>1, <3>1, RootReads
      <3>3. StoredFrom(vol, at, cs)[(0 * d) + m] = Stored(vol, at + 0)[m]
        <4>1. 0 \in 0..(cs - 1) /\ cs \in Nat
          BY <1>1
        <4> HIDE DEF at, cs
        <4> QED BY <2>5, <4>1, StoredPlace
      <3>4. (0 * d) + m = m /\ at + 0 = at
        BY <1>1, <2>3
      <3> QED BY <2>1, <2>4, <3>2, <3>3, <3>4
    <2> QED BY <1>3, <2>1, <2>3, <2>5
  <1> QED BY <1>4, <1>5

\* What is read on from the entry at hand is the root directory, or ends with its sector.
LEMMA RootReadsAt ==
  ASSUME Exact, NEW k \in RootClusters, RootPlace(k), j \in Nat, i \in 1..DIRENTSPERBLOCK,
         Unread(cursect, Window)
  PROVE  LET dir == RootDirectory(vol)
             p == Base(k, j) + i
             cur == IF mydata.fatsize = 32 THEN cluster ELSE 0
         IN  /\ p \in DOMAIN dir /\ buf[i] = dir[p]
             /\ ReadsOn(dir, p, buf, i, cur)
                  \/ (Cut(cursect, i, buf[i]) /\ CutRead(dir, Base(k, j), buf, i, cursect))
  <1> DEFINE dir == RootDirectory(vol)
             p == Base(k, j) + i
             cur == IF mydata.fatsize = 32 THEN cluster ELSE 0
  <1>1. /\ vol \in Volumes /\ mydata.fatsize = FatSize(vol.bs) /\ vol.bs.cluster_size \in Nat \ {0}
        /\ DIRENTSPERBLOCK \in Nat \ {0} /\ PrefetchSectors \in Nat /\ PrefetchSectors > 1
    BY ExactReads, Fields, SizeAssumption DEF Exact
  <1>2. /\ cursect \in Int /\ Base(k, j) \in Nat
        /\ \A m \in 1..DIRENTSPERBLOCK :
             Base(k, j) + m \in DOMAIN dir /\ dir[Base(k, j) + m] = Stored(vol, cursect)[m]
    BY RootSectorIs
  <1>3. ASSUME Window > 1 PROVE CutRead(dir, Base(k, j), buf, i, cursect)
    <2>1. Window \in Nat
      BY <1>1 DEF Window
    <2> HIDE DEF dir
    <2> QED BY <1>2, <1>3, <2>1 DEF CutRead, Unread
  <1>4. CASE mydata.fatsize # 32
    <2>1. k = 1 /\ j \in 0..(RootDirSize(vol.bs) - 1) /\ cursect = RootAt + j
      BY <1>1, <1>4, Fields DEF RootClusters, RootPlace
    <2>2. /\ Len(buf) = PrefetchSectors * DIRENTSPERBLOCK
          /\ \A m \in i..Len(buf) : buf[m] = StoredFrom(vol, RootAt + j, PrefetchSectors)[m]
      BY <1>1, <1>4, <2>1 DEF Unread, Window
    <2>3. LET at == (j * DIRENTSPERBLOCK) + i
          IN  at \in DOMAIN dir /\ buf[i] = dir[at]
                /\ (ReadsOn(dir, at, buf, i, cur) \/ Cut(RootAt + j, i, buf[i]))
      <3> DEFINE c == cur
      <3> HIDE DEF c
      <3>2. i \in 1..DIRENTSPERBLOCK /\ j \in 0..(RootDirSize(vol.bs) - 1)
        BY <2>1
      <3>1. LET at == (j * DIRENTSPERBLOCK) + i
            IN  at \in DOMAIN RootDirectory(vol) /\ buf[i] = RootDirectory(vol)[at]
                /\ (ReadsOn(RootDirectory(vol), at, buf, i, c) \/ Cut(RootAt + j, i, buf[i]))
        BY ONLY Exact, <1>4, <2>2, <3>2, AreaTold, SMTT(30)
      <3> QED BY <3>1 DEF c
    <2>4. Base(k, j) = j * DIRENTSPERBLOCK
      <3>1. Base(k, j) = ((1 - 1) * ClusterEntries(vol)) + (j * DIRENTSPERBLOCK)
        BY <2>1 DEF Base
      <3>2. ClusterEntries(vol) \in Nat /\ j * DIRENTSPERBLOCK \in Nat
        BY <1>1, ClusterEntriesType, NatProduct
      <3>3. (1 - 1) * ClusterEntries(vol) = 0
        BY <3>2
      <3> QED BY <3>1, <3>2, <3>3
    <2>5. Window > 1
      BY <1>1, <1>4 DEF Window
    <2> QED BY <1>3, <2>1, <2>3, <2>4, <2>5
  <1>5. CASE mydata.fatsize = 32
    <2> DEFINE chain == vol.rootchain
               cs == vol.bs.cluster_size
    <2>1. k \in 1..Len(chain) /\ cluster = chain[k] /\ cursect = SectorAt(cluster) + j /\ j < cs
          /\ cur = chain[k] /\ Window = cs
      BY <1>1, <1>5 DEF RootClusters, RootPlace, Window
    <2>2. IsChain(chain, vol.fat)
      BY <1>1, <1>5, VolumeAssumption
    <2>3. /\ Len(buf) = cs * DIRENTSPERBLOCK
          /\ \A m \in i..Len(buf) : buf[m] = StoredFrom(vol, SectorAt(chain[k]) + j, cs)[m]
      BY <2>1 DEF Unread
    <2>4. Len(buf) = ClusterEntries(vol)
      BY <2>3 DEF ClusterEntries
    <2>5. CASE cs = 1
      <3>1. j = 0 /\ SectorAt(chain[k]) + 0 = SectorAt(chain[k])
        <4>1. SectorAt(chain[k]) \in Int
          BY <1>1, <2>1, <2>2, ChainEnds, ExactReads
        <4> QED BY <2>1, <2>5, <4>1
      <3>2. \A m \in i..Len(buf) : buf[m] = StoredFrom(vol, SectorAt(chain[k]), cs)[m]
        BY <2>3, <3>1
      <3>3. dir = InChain(vol, chain) /\ i \in 1..Len(buf)
        BY <1>1, <1>5, <2>3, <2>5 DEF RootDirectory
      <3>4. LET at == ((k - 1) * ClusterEntries(vol)) + i
            IN  at \in DOMAIN dir /\ ReadsOn(dir, at, buf, i, chain[k])
        <4> HIDE DEF dir, chain, cs
        <4>1. \A m \in i..Len(buf) : buf[m] = StoredFrom(vol, SectorAt(chain[k]), vol.bs.cluster_size)[m]
          BY <3>2 DEF cs
        <4> QED BY <2>1, <2>2, <2>4, <3>3, <4>1, ClusterTold, SMTT(30)
      <3>5. Base(k, j) = (k - 1) * ClusterEntries(vol)
        <4>1. Base(k, j) = ((k - 1) * ClusterEntries(vol)) + (0 * DIRENTSPERBLOCK)
          BY <3>1 DEF Base
        <4>2. (k - 1) * ClusterEntries(vol) \in Nat
          <5>1. k - 1 \in Nat /\ ClusterEntries(vol) \in Nat
            BY <1>1, <2>1, ClusterEntriesType
          <5> QED BY <5>1, NatProduct
        <4>3. 0 * DIRENTSPERBLOCK = 0
          BY <1>1
        <4> QED BY <4>1, <4>2, <4>3
      <3>6. p \in DOMAIN dir /\ ReadsOn(dir, p, buf, i, cur)
        BY <2>1, <3>4, <3>5
      <3>7. buf[i] = dir[p]
        <4> HIDE DEF dir, p, cur
        <4> QED BY <3>6 DEF ReadsOn
      <3> QED BY <3>6, <3>7
    <2>6. CASE cs # 1
      <3>1. RootRead(k, j, buf, i)
        BY <1>1, <1>5, <2>1, <2>3, <2>4, <2>6 DEF RootRead
      <3>2. /\ p \in DOMAIN dir /\ buf[i] = dir[p]
            /\ ReadsOn(dir, p, buf, i, cur) \/ Cut(SectorAt(chain[k]) + j, i, buf[i])
        BY <3>1, RootTold
      <3>3. Window > 1
        BY <1>1, <2>1, <2>6
      <3> QED BY <1>3, <2>1, <3>2, <3>3
    <2> QED BY <2>5, <2>6
  <1> QED BY <1>4, <1>5

Crossed == {"deleted", "slot", "digits"}

\* A turn of the loop over the root directory.
LEMMA RootHeard ==
  ASSUME Exact, NEW k \in RootClusters, RootPlace(k), j \in Nat, i \in 1..DIRENTSPERBLOCK,
         Unread(cursect, Window), NEW name \in Names, ~Excepted(name),
         NotYet(RootDirectory(vol), Base(k, j) + i, name)
  PROVE  LET dir == RootDirectory(vol)
             p == Base(k, j) + i
             cur == IF mydata.fatsize = 32 THEN cluster ELSE 0
         IN  /\ p \in DOMAIN dir /\ buf[i] = dir[p]
             /\ buf[i].kind \notin Crossed => Heard(buf[i], vol.root, Voice(buf, i, cur), name)
  <1> DEFINE dir == RootDirectory(vol)
             base == Base(k, j)
             p == base + i
             cur == IF mydata.fatsize = 32 THEN cluster ELSE 0
             all == IF mydata.fatsize = 32 THEN Len(vol.rootchain) * ClusterEntries(vol)
                    ELSE RootDirSize(vol.bs) * DIRENTSPERBLOCK
  <1>1. Area(dir, all) /\ DOMAIN dir = 1..all /\ WellFormed(dir, vol.root) /\ vol \in Volumes
    BY RootLength DEF Exact
  <1>2. /\ p \in DOMAIN dir /\ buf[i] = dir[p]
        /\ ReadsOn(dir, p, buf, i, cur)
             \/ (Cut(cursect, i, buf[i]) /\ CutRead(dir, base, buf, i, cursect))
    BY RootReadsAt
  <1>3. ~Misled(name) /\ ~(name.long /\ Split(name.file)) /\ ~Labelled(dir, name) /\ NotYet(dir, p, name)
    BY DEF Excepted
  <1> HIDE DEF dir, p, base, all, cur
  <1>4. p \in 1..all /\ dir[p] \in DirEntries
    BY <1>1, <1>2 DEF Area
  <1>5. SUFFICES ASSUME dir[p].kind \notin Crossed PROVE Heard(dir[p], vol.root, Voice(buf, i, cur), name)
    BY <1>2 DEF dir, p, base, cur
  <1>6. CASE dir[p].kind \in {"end", "short"}
    BY <1>1, <1>2, <1>4, <1>6, FailedIsHeard
  <1>7. CASE dir[p].kind \in {"last", "label"} /\ ReadsOn(dir, p, buf, i, cur)
    BY <1>1, <1>3, <1>4, <1>7, ToldIsHeard
  <1>8. CASE dir[p].kind \in {"last", "label"} /\ ~ReadsOn(dir, p, buf, i, cur)
    <2>1. Id(buf[i]) <= VFAT_MAXSEQ /\ buf[i].kind \in {"last", "label"}
      BY <1>2, <1>8 DEF ReadsOn
    <2>2. Heard(buf[i], vol.root, Voice(buf, i, cur), name)
      BY <1>1, <1>2, <1>3, <1>8, <2>1, CutIsHeard
    <2> QED BY <1>2, <2>2
  <1>9. dir[p].kind \in {"end", "short", "last", "label"}
    BY <1>4, <1>5 DEF DirEntries, Crossed
  <1> QED BY <1>6, <1>7, <1>8, <1>9

\* A turn of the loop over a directory below it.
LEMMA DirHeard ==
  ASSUME Exact, NEW d \in DOMAIN DirStart, NEW k \in 1..Len(vol.subchain[d]),
         cluster = vol.subchain[d][k], i \in 1..ClusterEntries(vol),
         Unread(SectorAt(cluster), vol.bs.cluster_size), NEW name \in Names
  PROVE  LET dir == InChain(vol, vol.subchain[d])
             p == Base(k, 0) + i
             all == Len(vol.subchain[d]) * ClusterEntries(vol)
         IN  /\ p \in DOMAIN dir /\ buf[i] = dir[p] /\ Area(dir, all) /\ DOMAIN dir = 1..all
             /\ WellFormed(dir, vol.sub[d]) /\ vol.sub[d] \subseteq Files
             /\ ReadsOn(dir, p, buf, i, cluster)
             /\ buf[i].kind \notin Crossed /\ NotYet(dir, p, name) /\ ~Labelled(dir, name) =>
                  Heard(buf[i], vol.sub[d], Voice(buf, i, cluster), name)
  <1> DEFINE chain == vol.subchain[d]
             dir == InChain(vol, chain)
             p == Base(k, 0) + i
             all == Len(chain) * ClusterEntries(vol)
             v == Voice(buf, i, cluster)
  <1>1. /\ vol \in Volumes /\ vol.sub[d] \subseteq Files /\ WellFormed(dir, vol.sub[d])
        /\ IsChain(chain, vol.fat)
    BY DirectoryAssumption DEF Exact
  <1>2. chain \in Seq(ClusterNums)
    BY <1>1 DEF IsChain
  <1>3. Area(dir, all) /\ DOMAIN dir = 1..all
    BY <1>1, <1>2, ChainArea DEF Area
  <1>4. Base(k, 0) = (k - 1) * ClusterEntries(vol)
    <2>1. k \in Nat \ {0}
      OBVIOUS
    <2> QED BY <1>1, <2>1, DirBase
  <1>5. p \in DOMAIN dir /\ ReadsOn(dir, p, buf, i, cluster)
    <2>1. Len(buf) = ClusterEntries(vol) /\ i \in 1..Len(buf)
          /\ \A m \in i..Len(buf) : buf[m] = StoredFrom(vol, SectorAt(chain[k]), vol.bs.cluster_size)[m]
      BY DEF Unread, ClusterEntries
    <2>2. LET at == ((k - 1) * ClusterEntries(vol)) + i
          IN  at \in DOMAIN dir /\ ReadsOn(dir, at, buf, i, chain[k])
      <3>1. IsChain(chain, vol.fat) /\ k \in 1..Len(chain)
        BY <1>1
      <3> HIDE DEF chain, v, p, all
      <3>2. LET held == InChain(vol, chain)
                at == ((k - 1) * ClusterEntries(vol)) + i
            IN  at \in DOMAIN held /\ ReadsOn(held, at, buf, i, chain[k])
        BY ONLY Exact, <2>1, <3>1, ClusterTold
      <3> QED BY <3>2
    <2> QED BY <1>4, <2>2
  <1> DEFINE files == vol.sub[d]
  <1>8. WellFormed(dir, files)
    BY <1>1
  <1> HIDE DEF p, dir, all, files
  <1>6. p \in 1..all /\ dir[p] \in DirEntries /\ buf[i] = dir[p]
    BY <1>3, <1>5 DEF Area, ReadsOn
  <1>7. ASSUME dir[p].kind \notin Crossed, NotYet(dir, p, name), ~Labelled(dir, name)
        PROVE  Heard(dir[p], files, Voice(buf, i, cluster), name)
    <2>1. dir[p].kind \in {"end", "short", "last", "label"}
      BY <1>6, <1>7 DEF DirEntries, Crossed
    <2>2. CASE dir[p].kind \in {"end", "short"}
      BY <1>3, <1>6, <1>8, <2>2, FailedIsHeard
    <2>3. CASE dir[p].kind \in {"last", "label"}
      BY <1>3, <1>5, <1>6, <1>7, <1>8, <2>3, ToldIsHeard
    <2> QED BY <2>1, <2>2, <2>3
  <1> QED BY <1>1, <1>3, <1>5, <1>6, <1>7, <1>8 DEF dir, p, all, files

LEMMA SoughtIsExact ==
  ASSUME EntryInv, Sought, pc \notin {"register", "mount"}
  PROVE  Exact
  BY DEF EntryInv, Mounted, Searched, Sought, Exact

LEMMA Kept ==
  ASSUME UNCHANGED <<vol, part_offset, mydata, asked>>
  PROVE  /\ Recognised' <=> Recognised
         /\ Sought' <=> Sought
         /\ RootClusters' = RootClusters /\ Window' = Window
         /\ RootAt' = RootAt /\ Meant(asked)' = Meant(asked)
         /\ \A k, s : Base(k, s)' = Base(k, s)
         /\ \A c : SectorAt(c)' = SectorAt(c)
  <1>1. Recognised' <=> Recognised
    BY DEF Recognised
  <1>2. RootClusters' = RootClusters /\ Window' = Window /\ RootAt' = RootAt
    BY DEF RootClusters, Window, RootAt
  <1>3. Meant(asked)' = Meant(asked)
    BY <1>1 DEF Meant
  <1>4. \A k, s : Base(k, s)' = Base(k, s)
    BY DEF Base
  <1>5. \A c : SectorAt(c)' = SectorAt(c)
    BY DEF SectorAt
  <1>6. Readable' <=> Readable
    BY DEF Readable, DataAt
  <1>7. \A s : BeforeGap(s)' <=> BeforeGap(s)
    BY DEF BeforeGap, SectorAt, RootAt
  <1>8. \A f : Split(f)' <=> Split(f)
    BY <1>7 DEF Split
  <1>9. \A b, n : GetVfatname(b, n, 0)' = GetVfatname(b, n, 0)
    <2>1. \A b, n, k : Ahead(b, n, 0, k)' = Ahead(b, n, 0, k)
      BY DEF Ahead, Sectors, FirstSector
    <2>2. \A b, n, k : InReach(b, n, 0, k)' <=> InReach(b, n, 0, k)
      BY DEF InReach
    <2>3. \A b, n, c : Descending(b, n, 0, c)' <=> Descending(b, n, 0, c)
      BY <2>1 DEF Descending
    <2>4. \A b, n, c : Pieces(b, n, 0, c)' = Pieces(b, n, 0, c)
      BY <2>1 DEF Pieces
    <2> QED BY <2>1, <2>2, <2>3, <2>4 DEF GetVfatname
  <1>10. \A name : Misled(name)' <=> Misled(name)
    BY <1>2, <1>7, <1>9 DEF Misled
  <1>11. \A dir, name : Labelled(dir, name)' <=> Labelled(dir, name)
    BY <1>9 DEF Labelled
  <1>12. \A dir, name : Cropped(dir, name)' <=> Cropped(dir, name)
    BY <1>9 DEF Cropped
  <1>13. Mistaken(asked)' <=> Mistaken(asked)
    BY <1>8, <1>10, <1>11, <1>12 DEF Mistaken
  <1> QED BY <1>1, <1>2, <1>3, <1>4, <1>5, <1>6, <1>13 DEF Sought

ReadOn(s, n, x) ==
  /\ Unread(s, n) /\ Directory(buf) /\ i \in 1..Len(buf) /\ i' = i + 1 /\ vol' = vol
  /\ buf' = buf \/ buf' = [buf EXCEPT ![i] = x]
LEMMA UnreadOn ==
  ASSUME NEW s, NEW n, NEW x, ReadOn(s, n, x)
  PROVE  /\ Len(buf') = n * DIRENTSPERBLOCK
         /\ \A m \in i'..Len(buf') : buf'[m] = StoredFrom(vol', s, n)[m]
  <1> USE DEF ReadOn
  <1>1. /\ buf = [m \in 1..Len(buf) |-> buf[m]] /\ Len(buf) \in Nat
    BY DEF Directory
  <1>2. Len(buf') = Len(buf) /\ \A m \in (i + 1)..Len(buf) : buf'[m] = buf[m]
    <2>1. CASE buf' = buf
      BY <2>1
    <2>2. CASE buf' = [buf EXCEPT ![i] = x]
      <3>1. buf' = [m \in 1..Len(buf) |-> IF m = i THEN x ELSE buf[m]]
        BY <1>1, <2>2
      <3>2. Len([m \in 1..Len(buf) |-> IF m = i THEN x ELSE buf[m]]) = Len(buf)
        BY <1>1
      <3> QED BY <3>1, <3>2
    <2> QED BY <2>1, <2>2
  <1>3. \A m \in (i + 1)..Len(buf) : m \in i..Len(buf)
    BY <1>1
  <1> QED BY <1>2, <1>3 DEF Unread

\* What there is on the card for a path, when its first name is one.
LEMMA MeantIs ==
  ASSUME Recognised
  PROVE  /\ ~Holds(vol.root, asked[1]) => Meant(asked) = "none"
         /\ Holds(vol.root, asked[1]) /\ Len(asked) = 1 => Meant(asked) = asked[1].file
         /\ Holds(vol.root, asked[1]) /\ Len(asked) # 1 =>
              Meant(asked) = IF asked[1].file \in DOMAIN DirStart /\ Holds(vol.sub[asked[1].file], asked[2])
                             THEN asked[2].file ELSE "none"
  BY DEF Meant

LEMMA AskedNames ==
  ASSUME asked \in Seq(Names), Len(asked) \in {1, 2}
  PROVE  /\ asked[1] \in Names /\ asked[1].file \in Files
         /\ Len(asked) = 2 => asked[2] \in Names /\ Tail(asked) = <<asked[2]>>
  <1>1. asked[1] \in Names
    OBVIOUS
  <1>2. asked[1].file \in Files
    BY <1>1, NameType
  <1>3. ASSUME Len(asked) = 2 PROVE asked[2] \in Names /\ Tail(asked) = <<asked[2]>>
    <2>1. Tail(asked) \in Seq(Names) /\ Len(Tail(asked)) = 1 /\ Tail(asked)[1] = asked[2]
      BY <1>3
    <2>2. asked[2] \in Names
      BY <1>3
    <2>3. <<asked[2]>> \in Seq(Names) /\ Len(<<asked[2]>>) = 1 /\ <<asked[2]>>[1] = asked[2]
      BY <2>2
    <2> DEFINE a == Tail(asked)
               b == <<asked[2]>>
    <2>4. a \in Seq(Names) /\ b \in Seq(Names) /\ Len(a) = Len(b)
      BY <2>1, <2>3
    <2>7. Len(a) = 1 /\ a[1] = b[1]
      BY <2>1, <2>3
    <2> HIDE DEF a, b
    <2>5. \A k \in 1..Len(a) : a[k] = b[k]
      BY ONLY <2>7
    <2>6. a = b
      BY ONLY <2>4, <2>5, SameSequence
    <2> QED BY <2>2, <2>6 DEF a, b
  <1> QED BY <1>1, <1>2, <1>3

\* The parts of the invariant that need no card the code can read.
PathInv ==
  /\ asked \in Seq(Names) /\ Len(asked) \in {1, 2}
  /\ pc \in {"register", "mount"} => path = asked /\ j = 0
  /\ pc # "returned" \/ ~Recognised => found = "none"

\* Entering the directory that was asked for, at its first entry.
LEMMA DirBegins ==
  ASSUME Exact, PathInv, Len(asked) = 2, asked[1].file \in DOMAIN DirStart, Holds(vol.root, asked[1]),
         UNCHANGED <<vol, part_offset, mydata, asked>>,
         pc' = "dirblock", cluster' = DirStart[asked[1].file], path' = <<asked[2]>>
  PROVE  Below' /\ \E k \in 1..Len(vol'.subchain[asked'[1].file]) : DirSearch(k)'
  <1> DEFINE d == asked[1].file
             chain == vol.subchain[d]
             dir == InChain(vol, chain)
             all == Len(chain) * ClusterEntries(vol)
  <1>1. vol \in Volumes /\ IsChain(chain, vol.fat) /\ chain[1] = DirStart[d]
    BY DirectoryAssumption DEF Exact
  <1>2. chain \in Seq(ClusterNums) /\ 1 \in 1..Len(chain) /\ Len(chain) \in Nat
    BY <1>1, SMTT(30) DEF IsChain
  <1>3. DOMAIN dir = 1..all
    BY <1>1, <1>2, ChainLength
  <1>4. Base(1, 0) = 0
    <2>1. ClusterEntries(vol) \in Nat /\ DIRENTSPERBLOCK \in Nat
      BY <1>1, ClusterEntriesType, SizeAssumption
    <2>2. (1 - 1) * ClusterEntries(vol) = 0 /\ 0 * DIRENTSPERBLOCK = 0
      BY <2>1
    <2>3. Base(1, 0) = ((1 - 1) * ClusterEntries(vol)) + (0 * DIRENTSPERBLOCK)
      BY DEF Base
    <2> QED BY <2>2, <2>3
  <1>5. NotYet(dir, Base(1, 0) + 1, asked[2])
    <2>1. Base(1, 0) + 1 = 1
      BY <1>4
    <2> HIDE DEF dir, all
    <2>2. \A q \in DOMAIN dir : ~(q < 1)
      BY <1>3
    <2> QED BY <2>1, <2>2 DEF NotYet
  <1>6. Base(1, 0)' = Base(1, 0)
    BY Kept
  <1>7. NotYet(InChain(vol', vol'.subchain[asked'[1].file]), Base(1, 0)' + 1, asked'[2])
    BY <1>5, <1>6
  <1>8. DirSearch(1)'
    BY <1>1, <1>7 DEF DirSearch
  <1>9. Below'
    BY DEF Below, Holds
  <1> QED BY <1>2, <1>8, <1>9

LEMMA LoopsAreRecognised ==
  ASSUME EntryInv, pc \in {"rootblock", "rootentry", "dirblock", "direntry"}
  PROVE  Recognised /\ vol \in Volumes /\ pc \notin {"register", "mount", "returned"}
  BY DEF EntryInv, Mounted, BlockRead, NoGeometry

LEMMA RootEntryFinds ==
  ASSUME EntryInv, SearchInv, RootEntry
  PROVE  SearchInv'
  <1> DEFINE cur == IF mydata.fatsize = 32 THEN cluster ELSE 0
             e == buf[i]
             v == Voice(buf, i, cur)
             name == asked[1]
             dir == RootDirectory(vol)
             all == IF mydata.fatsize = 32 THEN Len(vol.rootchain) * ClusterEntries(vol)
                    ELSE RootDirSize(vol.bs) * DIRENTSPERBLOCK
  <1>1. /\ pc = "rootentry" /\ i <= DIRENTSPERBLOCK /\ Examine(cur)
        /\ UNCHANGED <<vol, part_offset, mydata, asked, cursect, j>>
    BY DEF RootEntry
  <1>2. /\ Recognised /\ vol \in Volumes /\ j \in Nat /\ i \in 1..DIRENTSPERBLOCK
        /\ Directory(buf) /\ i \in 1..Len(buf)
    <2>1. Recognised /\ vol \in Volumes
      BY <1>1, LoopsAreRecognised
    <2>2. j \in Nat /\ i \in Nat /\ i >= 1 /\ Directory(buf) /\ Len(buf) >= DIRENTSPERBLOCK
      BY <1>1 DEF EntryInv, Searched, BlockRead
    <2>3. Len(buf) \in Nat /\ DIRENTSPERBLOCK \in Nat
      BY <2>2, SizeAssumption DEF Directory
    <2> QED BY <1>1, <2>1, <2>2, <2>3
  <1>3. /\ asked \in Seq(Names) /\ Len(asked) \in {1, 2} /\ found = "none" /\ PathInv
        /\ name \in Names /\ name.file \in Files
        /\ Len(asked) = 2 => asked[2] \in Names /\ Tail(asked) = <<asked[2]>>
    BY <1>1, AskedNames DEF SearchInv, PathInv
  <1>4. (Recognised' <=> Recognised) /\ (Sought' <=> Sought) /\ Meant(asked)' = Meant(asked)
    BY <1>1, Kept
  <1>5. /\ pc' \in {"returned", "dirblock", "rootentry"}
        /\ pc' # "returned" => found' = found
    <2> HIDE DEF cur
    <2>1. \/ UNCHANGED <<pc, found>> \/ Return("none") \/ Enter(v.dent)
      BY <1>1, Turn
    <2> HIDE DEF v
    <2> QED BY <1>1, <2>1 DEF Return, Enter
  <1>6. PathInv'
    BY <1>1, <1>2, <1>3, <1>4, <1>5 DEF PathInv
  <1>7. SUFFICES ASSUME Sought
                 PROVE  /\ pc' = "rootentry" => (\E k \in RootClusters : RootSearch(k))'
                        /\ pc' = "dirblock" =>
                             Below' /\ \E k \in 1..Len(vol'.subchain[asked'[1].file]) : DirSearch(k)'
                        /\ pc' = "returned" => found' = Meant(asked)'
    BY <1>4, <1>5, <1>6 DEF SearchInv, PathInv
  <1>8. Exact /\ ~Excepted(name)
    BY <1>1, <1>7, SoughtIsExact DEF Sought, Mistaken, Excepted
  <1>9. PICK k \in RootClusters : RootSearch(k)
    BY <1>1, <1>7 DEF SearchInv
  <1> DEFINE p == Base(k, j) + i
  <1>10. /\ RootPlace(k) /\ path = asked /\ NotYet(dir, p, name) /\ Unread(cursect, Window)
    BY <1>1, <1>9 DEF RootSearch
  <1>11. p \in DOMAIN dir /\ e = dir[p] /\ (e.kind \notin Crossed => Heard(e, vol.root, v, name))
    BY <1>2, <1>3, <1>8, <1>9, <1>10, RootHeard
  <1>12. all \in Nat /\ DOMAIN dir = 1..all /\ WellFormed(dir, vol.root) /\ vol.root \subseteq Files
    BY <1>8, RootLength
  <1>13. \/ /\ e.kind \in Crossed \/ (e.kind \notin Crossed /\ ~Matches(v, name))
            /\ e.kind # "end" /\ i' = i + 1
            /\ buf' = buf \/ buf' = [buf EXCEPT ![i] = v.dent]
            /\ UNCHANGED <<path, pc, cluster, found>>
         \/ e.kind = "end" /\ Return("none")
         \/ e.kind \notin Crossed /\ Matches(v, name) /\ Enter(v.dent)
    <2> DEFINE c == cur
    <2>1. Examine(c) /\ pc # "direntry" /\ path[1] = name
      BY <1>1, <1>10
    <2> HIDE DEF c
    <2>2. \/ /\ e.kind \in {"deleted", "slot", "digits"} \/ ~Matches(Voice(buf, i, c), path[1])
             /\ e.kind # "end" /\ i' = i + 1
             /\ buf' = buf \/ buf' = [buf EXCEPT ![i] = Voice(buf, i, c).dent]
             /\ UNCHANGED <<path, pc, cluster, found>>
          \/ e.kind = "end" /\ Return("none")
          \/ /\ e.kind \notin {"deleted", "slot", "digits"}
             /\ Matches(Voice(buf, i, c), path[1]) /\ Enter(Voice(buf, i, c).dent)
      BY <2>1, Turn
    <2> QED BY <2>1, <2>2 DEF c, Crossed
  <1> HIDE DEF v, e, dir, all, p
  <1>14. p \in Nat /\ p \in 1..all
    BY <1>11, <1>12
  <1>15. CASE /\ e.kind \in Crossed \/ (e.kind \notin Crossed /\ ~Matches(v, name))
              /\ e.kind # "end" /\ i' = i + 1
              /\ buf' = buf \/ buf' = [buf EXCEPT ![i] = v.dent]
              /\ UNCHANGED <<path, pc, cluster, found>>
    <2>1. ~Answers(e, name)
      BY <1>10, <1>11, <1>15 DEF Heard, Answers, Crossed
    <2>2. NotYet(dir, p + 1, name)
      BY <1>10, <1>11, <1>12, <1>14, <1>15, <2>1, StillNotYet
    <2>3. /\ RootClusters' = RootClusters /\ Window' = Window /\ RootAt' = RootAt
          /\ Base(k, j)' = Base(k, j) /\ SectorAt(cluster)' = SectorAt(cluster)
      <3>1. /\ RootClusters' = RootClusters /\ Window' = Window /\ RootAt' = RootAt
            /\ \A x, s : Base(x, s)' = Base(x, s)
            /\ \A c : SectorAt(c)' = SectorAt(c)
        BY <1>1, Kept
      <3>2. Base(k, j)' = Base(k, j)
        BY <1>1, <3>1 DEF Base
      <3>3. SectorAt(cluster)' = SectorAt(cluster)
        BY <1>1, <1>15 DEF SectorAt
      <3> QED BY <3>1, <3>2, <3>3
    <2>4. RootPlace(k)'
      BY <1>1, <1>10, <1>15, <2>3 DEF RootPlace
    <2>5. Unread(cursect, Window)'
      <3>1. /\ Len(buf') = Window * DIRENTSPERBLOCK
            /\ \A m \in i'..Len(buf') : buf'[m] = StoredFrom(vol', cursect, Window)[m]
        <4> DEFINE x == v.dent
                   s == cursect
                   n == Window
        <4>1. ReadOn(s, n, x)
          BY <1>1, <1>2, <1>10, <1>15 DEF ReadOn
        <4> HIDE DEF x, s, n
        <4>2. /\ Len(buf') = n * DIRENTSPERBLOCK
              /\ \A m \in i'..Len(buf') : buf'[m] = StoredFrom(vol', s, n)[m]
          BY ONLY <4>1, UnreadOn
        <4> QED BY <4>2 DEF s, n
      <3> QED BY <1>1, <2>3, <3>1 DEF Unread
    <2>6. Base(k, j)' + i' = p + 1
      <3>1. Base(k, j) \in Nat
        <4>1. k \in Nat \ {0}
          <5>1. k \in RootClusters
            OBVIOUS
          <5> QED BY <5>1 DEF RootClusters
        <4>2. k - 1 \in Nat /\ ClusterEntries(vol) \in Nat /\ DIRENTSPERBLOCK \in Nat
          BY <1>2, <4>1, ClusterEntriesType, SizeAssumption
        <4>3. (k - 1) * ClusterEntries(vol) \in Nat /\ j * DIRENTSPERBLOCK \in Nat
          BY <1>2, <4>2, NatProduct
        <4> QED BY <4>3 DEF Base
      <3> QED BY <1>2, <1>15, <2>3, <3>1 DEF p
    <2>7. i' \in 1..(DIRENTSPERBLOCK + 1)
      BY <1>2, <1>15, SizeAssumption
    <2>8. NotYet(RootDirectory(vol'), Base(k, j)' + i', asked'[1])
      BY <1>1, <2>2, <2>6 DEF dir
    <2>9. RootSearch(k)'
      BY <1>1, <1>10, <1>15, <2>4, <2>5, <2>7, <2>8 DEF RootSearch
    <2> QED BY <1>1, <1>9, <1>15, <2>3, <2>9
  <1>16. CASE e.kind = "end" /\ Return("none")
    <2>1. ~Holds(vol.root, name)
      BY <1>3, <1>10, <1>11, <1>12, <1>14, <1>16, NothingLeft
    <2>2. Meant(asked) = "none"
      BY <1>2, <2>1, MeantIs
    <2> QED BY <1>4, <1>16, <2>2 DEF Return
  <1>17. CASE e.kind \notin Crossed /\ Matches(v, name) /\ Enter(v.dent)
    <2>1. Holds(vol.root, name) /\ v.dent.kind = "short" /\ v.dent.file = name.file
      BY <1>10, <1>11, <1>17 DEF Heard
    <2>2. CASE Len(path) = 1
      <3>1. pc' = "returned" /\ found' = name.file
        BY <1>17, <2>1, <2>2 DEF Enter, Return
      <3>2. Meant(asked) = name.file
        BY <1>2, <1>10, <2>1, <2>2, MeantIs
      <3> QED BY <1>4, <3>1, <3>2
    <2>3. CASE Len(path) # 1 /\ name.file \notin DOMAIN DirStart
      <3>1. pc' = "returned" /\ found' = "none"
        BY <1>17, <2>1, <2>3 DEF Enter, Return
      <3>2. Meant(asked) = "none"
        BY <1>2, <1>10, <2>1, <2>3, MeantIs
      <3> QED BY <1>4, <3>1, <3>2
    <2>4. CASE Len(path) # 1 /\ name.file \in DOMAIN DirStart
      <3>1. pc' = "dirblock" /\ cluster' = DirStart[name.file] /\ path' = <<asked[2]>> /\ Len(asked) = 2
        BY <1>3, <1>10, <1>17, <2>1, <2>4 DEF Enter
      <3>2. Below' /\ \E x \in 1..Len(vol'.subchain[asked'[1].file]) : DirSearch(x)'
        BY <1>1, <1>3, <1>8, <2>1, <2>4, <3>1, DirBegins
      <3> QED BY <3>1, <3>2
    <2> QED BY <2>2, <2>3, <2>4
  <1> QED BY <1>13, <1>15, <1>16, <1>17

LEMMA DirEntryFinds ==
  ASSUME EntryInv, SearchInv, DirEntry
  PROVE  SearchInv'
  <1> DEFINE e == buf[i]
             v == Voice(buf, i, cluster)
             d == asked[1].file
             name == asked[2]
             dir == InChain(vol, vol.subchain[d])
             all == Len(vol.subchain[d]) * ClusterEntries(vol)
  <1>1. /\ pc = "direntry" /\ i <= DirentsPerClust /\ Examine(cluster)
        /\ UNCHANGED <<vol, part_offset, mydata, asked, cursect, j>>
    BY DEF DirEntry
  <1>2. Recognised /\ vol \in Volumes /\ i \in 1..Len(buf) /\ Directory(buf)
    <2>1. Recognised /\ vol \in Volumes
      BY <1>1, LoopsAreRecognised
    <2>2. i \in Nat /\ i >= 1 /\ Directory(buf) /\ Len(buf) = DirentsPerClust
      BY <1>1 DEF EntryInv, Searched, BlockRead
    <2>3. Len(buf) \in Nat
      BY <2>2 DEF Directory
    <2> QED BY <1>1, <2>1, <2>2, <2>3
  <1>3. found = "none" /\ PathInv
    BY <1>1 DEF SearchInv, PathInv
  <1>4. (Recognised' <=> Recognised) /\ (Sought' <=> Sought) /\ Meant(asked)' = Meant(asked)
    BY <1>1, Kept
  <1>5. \/ /\ e.kind \in Crossed \/ (e.kind \notin Crossed /\ ~Matches(v, path[1]))
           /\ e.kind # "end" /\ i' = i + 1
           /\ buf' = buf \/ buf' = [buf EXCEPT ![i] = v.dent]
           /\ UNCHANGED <<path, pc, cluster, found>>
        \/ (e.kind = "end" \/ v.dent.kind = "end") /\ e.kind \notin Crossed /\ Return("none")
        \/ e.kind \notin Crossed /\ Matches(v, path[1]) /\ Enter(v.dent)
    BY <1>1, Turn DEF Crossed
  <1> HIDE DEF v, e, dir, all
  <1>6. /\ pc' \in {"returned", "dirblock", "direntry"}
        /\ pc' # "returned" => found' = found
    BY <1>1, <1>5 DEF Return, Enter
  <1>7. PathInv'
    BY <1>1, <1>2, <1>3, <1>4, <1>6 DEF PathInv
  <1>8. SUFFICES ASSUME Sought
                 PROVE  /\ pc' \in {"dirblock", "direntry"} =>
                             Below' /\ \E k \in 1..Len(vol'.subchain[asked'[1].file]) : DirSearch(k)'
                        /\ pc' = "returned" => found' = Meant(asked)'
    BY <1>4, <1>6, <1>7 DEF SearchInv, PathInv
  <1>9. Exact /\ ~Mistaken(asked)
    BY <1>1, <1>8, SoughtIsExact DEF Sought
  <1>10. /\ Len(asked) = 2 /\ path = <<name>> /\ d \in DOMAIN DirStart /\ Holds(vol.root, asked[1])
         /\ \E k \in 1..Len(vol.subchain[d]) : DirSearch(k)
    BY <1>1, <1>8 DEF SearchInv, Below
  <1>11. PICK k \in 1..Len(vol.subchain[d]) : DirSearch(k)
    BY <1>10
  <1>12. name \in Names /\ path[1] = name /\ Len(path) = 1
    BY <1>3, <1>10, AskedNames DEF PathInv
  <1> DEFINE p == Base(k, 0) + i
  <1>13. /\ cluster = vol.subchain[d][k] /\ NotYet(dir, p, name)
         /\ i \in 1..(ClusterEntries(vol) + 1) /\ Unread(SectorAt(cluster), vol.bs.cluster_size)
    BY <1>1, <1>11 DEF DirSearch, dir
  <1>14. i \in 1..ClusterEntries(vol)
    BY <1>2, <1>13 DEF Unread, ClusterEntries
  <1>21. ~Labelled(dir, name) /\ ~Cropped(dir, name)
    BY <1>9, <1>10 DEF Mistaken, dir
  <1>15. /\ p \in DOMAIN dir /\ e = dir[p] /\ Area(dir, all) /\ DOMAIN dir = 1..all
         /\ WellFormed(dir, vol.sub[d]) /\ vol.sub[d] \subseteq Files
         /\ ReadsOn(dir, p, buf, i, cluster)
         /\ e.kind \notin Crossed => Heard(e, vol.sub[d], v, name)
    <2> HIDE DEF p
    <2>1. /\ p \in DOMAIN dir /\ e = dir[p] /\ Area(dir, all) /\ DOMAIN dir = 1..all
          /\ WellFormed(dir, vol.sub[d]) /\ vol.sub[d] \subseteq Files
          /\ ReadsOn(dir, p, buf, i, cluster)
          /\ e.kind \notin Crossed /\ NotYet(dir, p, name) /\ ~Labelled(dir, name) =>
               Heard(e, vol.sub[d], v, name)
      BY <1>9, <1>10, <1>12, <1>13, <1>14, DirHeard DEF dir, all, e, v, p
    <2> QED BY <1>13, <1>21, <2>1
  <1>22. all \in Nat
    BY <1>15 DEF Area
  <1>16. Base(k, 0) \in Nat
    BY <1>2, DirBase
  <1>17. p \in Nat /\ p \in 1..all
    BY <1>2, <1>15, <1>16, <1>22
  <1>18. CASE /\ e.kind \in Crossed \/ (e.kind \notin Crossed /\ ~Matches(v, path[1]))
              /\ e.kind # "end" /\ i' = i + 1
              /\ buf' = buf \/ buf' = [buf EXCEPT ![i] = v.dent]
              /\ UNCHANGED <<path, pc, cluster, found>>
    <2>1. ~Answers(e, name)
      BY <1>12, <1>15, <1>18 DEF Heard, Answers, Crossed
    <2>2. NotYet(dir, p + 1, name)
      <3> HIDE DEF p
      <3> QED BY <1>13, <1>15, <1>17, <1>18, <1>22, <2>1, StillNotYet
    <2>3. Base(k, 0)' = Base(k, 0) /\ SectorAt(cluster)' = SectorAt(cluster)
      <3>1. Base(k, 0)' = Base(k, 0)
        BY <1>1 DEF Base
      <3>2. SectorAt(cluster)' = SectorAt(cluster)
        BY <1>1, <1>18 DEF SectorAt
      <3> QED BY <3>1, <3>2
    <2>4. Unread(SectorAt(cluster), vol.bs.cluster_size)'
      <3> DEFINE x == v.dent
                 s == SectorAt(cluster)
                 n == vol.bs.cluster_size
      <3>1. ReadOn(s, n, x)
        BY <1>1, <1>2, <1>13, <1>18 DEF ReadOn
      <3> HIDE DEF x, s, n
      <3>2. /\ Len(buf') = n * DIRENTSPERBLOCK
            /\ \A m \in i'..Len(buf') : buf'[m] = StoredFrom(vol', s, n)[m]
        BY ONLY <3>1, UnreadOn
      <3> QED BY <1>1, <2>3, <3>2 DEF Unread, s, n
    <2>5. Base(k, 0)' + i' = p + 1
      BY <1>2, <1>16, <1>18, <2>3
    <2>6. i' \in 1..(ClusterEntries(vol') + 1)
      BY <1>1, <1>2, <1>14, <1>18, ClusterEntriesType
    <2>7. NotYet(InChain(vol', vol'.subchain[asked'[1].file]), Base(k, 0)' + i', asked'[2])
      <3> HIDE DEF p
      <3> QED BY <1>1, <2>2, <2>5 DEF dir
    <2>8. DirSearch(k)'
      BY <1>1, <1>13, <1>18, <2>4, <2>6, <2>7 DEF DirSearch
    <2>9. Below'
      BY <1>1, <1>10, <1>18 DEF Below, Holds
    <2> QED BY <1>1, <1>18, <2>8, <2>9
  <1>19. CASE (e.kind = "end" \/ v.dent.kind = "end") /\ e.kind \notin Crossed /\ Return("none")
    <2>1. ~Holds(vol.sub[d], name)
      <3> DEFINE files == vol.sub[d]
      <3> HIDE DEF p, files
      <3>1. WellFormed(dir, files) /\ files \subseteq Files
        BY <1>15 DEF files
      <3>2. CASE e.kind = "end"
        <4>1. ~Holds(files, name)
          BY <1>12, <1>13, <1>15, <1>17, <1>22, <3>1, <3>2, NothingLeft
        <4> QED BY <4>1 DEF files
      <3>3. CASE e.kind # "end"
        <4>1. dir[p].kind \in {"last", "label"} /\ GetVfatname(buf, i, cluster).dent.kind = "end"
          <5>1. e \in DirEntries /\ buf[i] = e
            BY <1>15, <1>17 DEF Area, e
          <5>2. e.kind \notin {"last", "label"} => v.dent = e
            BY <5>1 DEF v, Voice, Failed
          <5>3. e.kind \in {"last", "label"} => v = GetVfatname(buf, i, cluster)
            BY <5>1 DEF v, Voice
          <5> QED BY <1>15, <1>19, <3>3, <5>2, <5>3
        <4>2. ~Holds(files, name)
          BY <1>12, <1>13, <1>15, <1>17, <1>21, <3>1, <4>1, NothingCropped
        <4> QED BY <4>2 DEF files
      <3> QED BY <3>2, <3>3
    <2>2. Meant(asked) = "none"
      BY <1>2, <1>10, <2>1, MeantIs
    <2> QED BY <1>4, <1>19, <2>2 DEF Return
  <1>20. CASE e.kind \notin Crossed /\ Matches(v, path[1]) /\ Enter(v.dent)
    <2>1. Holds(vol.sub[d], name) /\ v.dent.kind = "short" /\ v.dent.file = name.file
      BY <1>12, <1>15, <1>20 DEF Heard
    <2>2. pc' = "returned" /\ found' = name.file
      BY <1>12, <1>20, <2>1 DEF Enter, Return
    <2>3. Meant(asked) = name.file
      BY <1>2, <1>10, <2>1, MeantIs
    <2> QED BY <1>4, <2>2, <2>3
  <1> QED BY <1>5, <1>18, <1>19, <1>20

LEMMA NextRootSectorFinds ==
  ASSUME EntryInv, SearchInv, NextRootSector
  PROVE  SearchInv'
  <1> DEFINE name == asked[1]
             dir == RootDirectory(vol)
             all == IF mydata.fatsize = 32 THEN Len(vol.rootchain) * ClusterEntries(vol)
                    ELSE RootDirSize(vol.bs) * DIRENTSPERBLOCK
             chain == vol.rootchain
             cs == vol.bs.cluster_size
  <1>1. /\ pc = "rootentry" /\ i > DIRENTSPERBLOCK
        /\ UNCHANGED <<vol, part_offset, mydata, asked, path, buf, i, found>>
        /\ pc' \in {"returned", "rootblock"}
    BY DEF NextRootSector
  <1>2. Recognised /\ vol \in Volumes /\ j \in Nat /\ cursect \in Int
    BY <1>1, LoopsAreRecognised DEF EntryInv, Searched
  <1>3. found = "none" /\ PathInv /\ name \in Names
    BY <1>1, AskedNames DEF SearchInv, PathInv
  <1>4. /\ (Recognised' <=> Recognised) /\ (Sought' <=> Sought) /\ Meant(asked)' = Meant(asked)
        /\ RootClusters' = RootClusters /\ Window' = Window /\ RootAt' = RootAt
        /\ \A x, s : Base(x, s)' = Base(x, s)
        /\ \A c : SectorAt(c)' = SectorAt(c)
    BY <1>1, Kept
  <1>5. PathInv'
    BY <1>1, <1>3, <1>4 DEF PathInv
  <1>6. SUFFICES ASSUME Sought
                 PROVE  /\ pc' = "rootblock" => (\E k \in RootClusters : RootSearch(k))'
                        /\ pc' = "returned" => found' = Meant(asked)'
    BY <1>1, <1>4, <1>5 DEF SearchInv, PathInv
  <1>7. Exact
    BY <1>1, <1>6, SoughtIsExact
  <1>8. PICK k \in RootClusters : RootSearch(k)
    BY <1>1, <1>6 DEF SearchInv
  <1>9. /\ RootPlace(k) /\ path = asked /\ NotYet(dir, Base(k, j) + i, name)
        /\ i \in 1..(DIRENTSPERBLOCK + 1) /\ DIRENTSPERBLOCK \in Nat
    BY <1>1, <1>8, SizeAssumption DEF RootSearch
  <1>10. k \in Nat \ {0}
    BY DEF RootClusters
  <1> DEFINE p == Base(k, j) + DIRENTSPERBLOCK
  <1>11. NotYet(dir, p + 1, name) /\ p \in Nat
    <2>1. i = DIRENTSPERBLOCK + 1 /\ Base(k, j) \in Nat
      BY <1>1, <1>2, <1>9, <1>10, BaseOn
    <2>2. Base(k, j) + i = p + 1
      BY <1>9, <2>1
    <2> QED BY <1>9, <2>1, <2>2
  <1>12. all \in Nat /\ DOMAIN dir = 1..all /\ WellFormed(dir, vol.root) /\ vol.root \subseteq Files
    BY <1>7, RootLength
  <1>13. ASSUME p = all PROVE Meant(asked) = "none"
    <2>1. ~Holds(vol.root, name)
      <3> HIDE DEF dir, all, p
      <3>1. p + 1 \in Nat /\ p + 1 > all
        BY <1>11, <1>13
      <3> QED BY <1>3, <1>11, <1>12, <3>1, NothingLeft
    <2> QED BY <1>2, <2>1, MeantIs
  <1>14. ASSUME pc' = "rootblock", NEW x \in RootClusters, RootPlace(x)', NEW s, s = j',
                Base(x, s) = p
         PROVE  (\E y \in RootClusters : RootSearch(y))'
    <2> HIDE DEF p
    <2>1. Base(x, j)' = p
      <3>1. Base(x, s)' = Base(x, s)
        BY <1>4
      <3> QED BY <1>1, <1>14 DEF Base
    <2>2. NotYet(RootDirectory(vol'), Base(x, j)' + 1, asked'[1])
      BY <1>1, <1>11, <2>1
    <2>3. RootSearch(x)'
      BY <1>1, <1>9, <1>14, <2>2 DEF RootSearch
    <2> QED BY <1>4, <2>3
  <1>15. mydata.clust_size = cs /\ mydata.fatsize = FatSize(vol.bs) /\ cs \in Nat \ {0}
         /\ mydata.rootdir_size = RootDirSize(vol.bs) /\ RootDirSize(vol.bs) \in Nat
    BY <1>2, <1>7, ExactReads, Fields
  <1>16. CASE mydata.fatsize = 32
    <2>1. k \in 1..Len(chain) /\ cluster = chain[k] /\ cursect = SectorAt(cluster) + j /\ j < cs
      BY <1>8, <1>9, <1>16 DEF RootClusters, RootPlace
    <2>2. IsChain(chain, vol.fat)
      BY <1>2, <1>15, <1>16, VolumeAssumption
    <2>3. CASE j + 1 = cs
      <3>1. /\ cluster' = vol.fat[cluster] /\ cursect' = FirstSector(vol.fat[cluster]) /\ j' = 0
            /\ pc' = IF CheckClust(vol.fat[cluster]) THEN "returned" ELSE "rootblock"
        BY <1>15, <1>16, <2>3 DEF NextRootSector, FirstSector
      <3>2. p = Base(k + 1, 0) /\ p = k * ClusterEntries(vol)
        BY <1>2, <1>10, <2>3, BaseOn
      <3>3. CASE k = Len(chain)
        <4>1. p = all
          BY <1>16, <3>2, <3>3
        <4>2. pc' = "returned"
          BY <1>2, <2>1, <2>2, <3>1, <3>3, ChainEnds
        <4> QED BY <1>1, <1>3, <1>4, <1>13, <4>1, <4>2
      <3>4. CASE k # Len(chain)
        <4>1. k < Len(chain) /\ k + 1 \in 1..Len(chain)
          BY <2>1, <2>2, <3>4 DEF IsChain
        <4>2. cluster' = chain[k + 1] /\ chain[k + 1] \in ClusterNums
          BY <1>2, <2>1, <2>2, <3>1, <4>1, ChainEnds
        <4>3. FirstSector(cluster') = SectorAt(cluster') /\ SectorAt(cluster') \in Int
          <5> DEFINE c == cluster'
          <5>1. c \in ClusterNums
            BY <4>2
          <5> HIDE DEF c
          <5>2. FirstSector(c) = SectorAt(c) /\ SectorAt(c) \in Int
            BY <1>7, <5>1, ExactReads
          <5> QED BY <5>2 DEF c
        <4>4. cursect' = SectorAt(cluster)' + j' /\ j' < vol'.bs.cluster_size
          <5>1. SectorAt(cluster)' = SectorAt(cluster')
            BY <1>1 DEF SectorAt
          <5>2. cursect' = FirstSector(cluster')
            BY <3>1
          <5> QED BY <1>1, <1>15, <3>1, <4>3, <5>1, <5>2
        <4>5. RootPlace(k + 1)'
          BY <1>1, <1>16, <4>2, <4>4 DEF RootPlace
        <4>6. pc' = "rootblock" /\ k + 1 \in RootClusters
          BY <1>16, <3>1, <4>1, <4>2 DEF CheckClust, RootClusters
        <4>7. Base(k + 1, j') = p
          BY <3>1, <3>2
        <4> QED BY <1>14, <4>5, <4>6, <4>7
      <3> QED BY <3>3, <3>4
    <2>4. CASE j + 1 # cs
      <3>1. cluster' = cluster /\ cursect' = cursect + 1 /\ j' = j + 1 /\ pc' = "rootblock"
        BY <1>15, <1>16, <2>4 DEF NextRootSector
      <3>2. SectorAt(cluster)' = SectorAt(cluster) /\ SectorAt(cluster) \in Int
        <4>1. SectorAt(cluster) \in Int
          BY <1>2, <1>7, <2>1, <2>2, ChainEnds, ExactReads
        <4> QED BY <1>1, <3>1, <4>1 DEF SectorAt
      <3>3. cursect' = SectorAt(cluster)' + j' /\ j' < vol'.bs.cluster_size
        BY <1>1, <1>2, <1>15, <2>1, <2>4, <3>1, <3>2
      <3>4. RootPlace(k)'
        BY <1>1, <1>16, <2>1, <3>1, <3>3 DEF RootPlace
      <3>5. Base(k, j') = p
        BY <1>2, <1>10, <3>1, BaseOn
      <3> QED BY <1>8, <1>14, <3>1, <3>4, <3>5
    <2> QED BY <2>3, <2>4
  <1>17. CASE mydata.fatsize # 32
    <2>1. k = 1 /\ cursect = RootAt + j /\ j < RootDirSize(vol.bs)
      BY <1>8, <1>9, <1>17 DEF RootClusters, RootPlace
    <2>2. /\ cursect' = cursect + 1 /\ j' = j + 1
          /\ pc' = IF j + 1 = RootDirSize(vol.bs) THEN "returned" ELSE "rootblock"
      BY <1>15, <1>17 DEF NextRootSector
    <2>3. Base(k, j') = p
      BY <1>2, <1>10, <2>2, BaseOn
    <2>4. CASE j + 1 = RootDirSize(vol.bs)
      <3>1. p = all
        <4>1. Base(1, j + 1) = ((1 - 1) * ClusterEntries(vol)) + ((j + 1) * DIRENTSPERBLOCK)
          BY DEF Base
        <4>2. ClusterEntries(vol) \in Nat /\ (j + 1) * DIRENTSPERBLOCK \in Nat
          BY <1>2, <1>9, ClusterEntriesType, NatProduct
        <4>3. (1 - 1) * ClusterEntries(vol) = 0
          BY <4>2
        <4>4. p = (j + 1) * DIRENTSPERBLOCK
          BY <2>1, <2>2, <2>3, <4>1, <4>2, <4>3
        <4> QED BY <1>17, <2>4, <4>4
      <3> QED BY <1>1, <1>3, <1>4, <1>13, <2>2, <2>4, <3>1
    <2>5. CASE j + 1 # RootDirSize(vol.bs)
      <3>1. cursect' = RootAt' + j' /\ j' < RootDirSize(vol'.bs)
        <4>1. RootAt \in Int
          BY <1>7, ExactReads
        <4> QED BY <1>1, <1>2, <1>4, <1>15, <2>1, <2>2, <2>5, <4>1
      <3>2. RootPlace(k)'
        BY <1>1, <1>17, <3>1 DEF RootPlace
      <3> QED BY <1>8, <1>14, <2>2, <2>3, <2>5, <3>2
    <2> QED BY <2>4, <2>5
  <1> QED BY <1>16, <1>17

LEMMA NextDirClusterFinds ==
  ASSUME EntryInv, SearchInv, NextDirCluster
  PROVE  SearchInv'
  <1> DEFINE d == asked[1].file
             name == asked[2]
             chain == vol.subchain[d]
             dir == InChain(vol, chain)
             all == Len(chain) * ClusterEntries(vol)
  <1>1. /\ pc = "direntry" /\ i > DirentsPerClust
        /\ cluster' = vol.fat[cluster]
        /\ pc' = IF CheckClust(vol.fat[cluster]) THEN "returned" ELSE "dirblock"
        /\ UNCHANGED <<vol, part_offset, mydata, asked, path, cursect, j, buf, i, found>>
    BY DEF NextDirCluster
  <1>2. Recognised /\ vol \in Volumes /\ mydata.fatsize # 0
    BY <1>1, LoopsAreRecognised DEF EntryInv, BlockRead
  <1>3. found = "none" /\ PathInv
    BY <1>1 DEF SearchInv, PathInv
  <1>4. /\ (Recognised' <=> Recognised) /\ (Sought' <=> Sought) /\ Meant(asked)' = Meant(asked)
        /\ \A x, s : Base(x, s)' = Base(x, s)
    BY <1>1, Kept
  <1>5. PathInv'
    BY <1>1, <1>2, <1>3, <1>4 DEF PathInv
  <1>6. SUFFICES ASSUME Sought
                 PROVE  /\ pc' = "dirblock" =>
                             Below' /\ \E k \in 1..Len(vol'.subchain[asked'[1].file]) : DirSearch(k)'
                        /\ pc' = "returned" => found' = Meant(asked)'
    BY <1>1, <1>4, <1>5 DEF SearchInv, PathInv
  <1>7. Exact
    BY <1>1, <1>6, SoughtIsExact
  <1>8. /\ Len(asked) = 2 /\ path = <<name>> /\ d \in DOMAIN DirStart /\ Holds(vol.root, asked[1])
        /\ \E k \in 1..Len(chain) : DirSearch(k)
    BY <1>1, <1>6 DEF SearchInv, Below
  <1>9. PICK k \in 1..Len(chain) : DirSearch(k)
    BY <1>8
  <1>10. name \in Names
    BY <1>3, <1>8, AskedNames DEF PathInv
  <1>11. /\ cluster = chain[k] /\ NotYet(dir, Base(k, 0) + i, name)
         /\ i \in 1..(ClusterEntries(vol) + 1)
    BY <1>1, <1>9 DEF DirSearch
  <1>12. /\ IsChain(chain, vol.fat) /\ WellFormed(dir, vol.sub[d]) /\ vol.sub[d] \subseteq Files
         /\ ClusterEntries(vol) \in Nat
    BY <1>2, <1>8, DirectoryAssumption, ClusterEntriesType
  <1>13. Len(chain) \in Nat /\ all \in Nat /\ DOMAIN dir = 1..all
    <2>1. chain \in Seq(ClusterNums)
      BY <1>12 DEF IsChain
    <2>2. Len(chain) \in Nat
      BY <2>1
    <2> QED BY <1>2, <1>12, <2>1, <2>2, NatProduct, ChainLength
  <1> DEFINE p == k * ClusterEntries(vol)
  <1>14. Base(k, 0) + i = p + 1 /\ p \in Nat /\ Base(k + 1, 0) = p
    <2>1. i = ClusterEntries(vol) + 1
      <3>1. DirentsPerClust = ClusterEntries(vol)
        BY <1>7, ExactReads DEF DirentsPerClust, ClusterEntries
      <3> QED BY <1>1, <1>11, <1>12, <3>1
    <2>2. Base(k, 0) = (k - 1) * ClusterEntries(vol) /\ Base(k, 0) \in Nat
          /\ Base(k + 1, 0) = ((k + 1) - 1) * ClusterEntries(vol) /\ (k + 1) - 1 = k
      BY <1>2, DirBase
    <2> DEFINE size == ClusterEntries(vol)
    <2> HIDE DEF size
    <2>3. ((k - 1) * size) + size = k * size /\ k * size \in Nat /\ size \in Nat
      BY <1>12 DEF size
    <2> QED BY <2>1, <2>2, <2>3 DEF size
  <1>15. NotYet(dir, p + 1, name)
    BY <1>11, <1>14
  <1>16. CASE k = Len(chain)
    <2>1. pc' = "returned"
      BY <1>1, <1>2, <1>11, <1>12, <1>16, ChainEnds
    <2>2. ~Holds(vol.sub[d], name)
      <3>1. p = all
        BY <1>16
      <3> HIDE DEF dir, all, p
      <3>2. p + 1 \in Nat /\ p + 1 > all
        BY <1>14, <3>1
      <3> QED BY <1>10, <1>12, <1>13, <1>15, <3>2, NothingLeft
    <2>3. Meant(asked) = "none"
      BY <1>2, <1>8, <2>2, MeantIs
    <2> QED BY <1>1, <1>3, <1>4, <2>1, <2>3
  <1>17. CASE k # Len(chain)
    <2>1. k < Len(chain) /\ k + 1 \in 1..Len(chain)
      BY <1>13, <1>17
    <2>2. cluster' = chain[k + 1] /\ chain[k + 1] \in ClusterNums
      BY <1>1, <1>2, <1>11, <1>12, <2>1, ChainEnds
    <2>3. pc' = "dirblock"
      BY <1>1, <2>2 DEF CheckClust
    <2>4. NotYet(InChain(vol', vol'.subchain[asked'[1].file]), Base(k + 1, 0)' + 1, asked'[2])
      <3>1. Base(k + 1, 0)' = p
        BY <1>4, <1>14
      <3> HIDE DEF p
      <3> QED BY <1>1, <1>15, <3>1
    <2>5. DirSearch(k + 1)'
      BY <1>1, <2>2, <2>3, <2>4 DEF DirSearch
    <2>6. Below'
      BY <1>1, <1>8 DEF Below, Holds
    <2> QED BY <1>1, <2>1, <2>3, <2>5, <2>6
  <1> QED BY <1>16, <1>17

LEMMA RootBlockFinds ==
  ASSUME EntryInv, SearchInv, ReadRootBlock
  PROVE  SearchInv'
  <1> DEFINE n == IF mydata.fatsize = 32 THEN mydata.clust_size ELSE PrefetchSectors
  <1>1. /\ pc = "rootblock" /\ pc' = "rootentry" /\ buf' = Sectors(cursect, n) /\ i' = 1
        /\ UNCHANGED <<vol, part_offset, mydata, asked, path, cluster, cursect, j, found>>
    BY DEF ReadRootBlock
  <1>2. /\ (Sought' <=> Sought) /\ RootClusters' = RootClusters /\ Window' = Window
        /\ RootAt' = RootAt
        /\ \A x, s : Base(x, s)' = Base(x, s)
        /\ \A c : SectorAt(c)' = SectorAt(c)
    BY <1>1, Kept
  <1>3. PathInv'
    BY <1>1 DEF SearchInv, PathInv
  <1>4. SUFFICES ASSUME Sought PROVE (\E k \in RootClusters : RootSearch(k))'
    BY <1>1, <1>2, <1>3 DEF SearchInv, PathInv
  <1>5. Exact /\ vol \in Volumes /\ cursect \in Int
    BY <1>1, <1>4, SoughtIsExact DEF Exact, EntryInv, Searched
  <1>6. PICK k \in RootClusters : RootSearch(k)
    BY <1>1, <1>4 DEF SearchInv
  <1>7. n = Window /\ n \in Nat
    BY <1>5, ExactReads, Fields, SizeAssumption DEF Window
  <1> HIDE DEF n
  <1>8. buf' = StoredFrom(vol, cursect, n)
    BY <1>1, <1>5, ExactReads
  <1>9. Len(buf') = n * DIRENTSPERBLOCK
    BY <1>5, <1>7, <1>8, StoredEntries
  <1>10. Unread(cursect, Window)'
    BY <1>1, <1>2, <1>7, <1>8, <1>9 DEF Unread
  <1>11. RootPlace(k)'
    <2>1. SectorAt(cluster)' = SectorAt(cluster)
      BY <1>1 DEF SectorAt
    <2> QED BY <1>1, <1>2, <1>6, <2>1 DEF RootSearch, RootPlace
  <1>12. Base(k, j)' = Base(k, j)
    BY <1>1 DEF Base
  <1>13. NotYet(RootDirectory(vol'), Base(k, j)' + 1, asked'[1])
    BY <1>1, <1>6, <1>12 DEF RootSearch
  <1>14. 1 \in 1..(DIRENTSPERBLOCK + 1)
    BY SizeAssumption
  <1>15. RootSearch(k)'
    BY <1>1, <1>6, <1>10, <1>11, <1>13, <1>14 DEF RootSearch
  <1> QED BY <1>2, <1>15

LEMMA DirBlockFinds ==
  ASSUME EntryInv, SearchInv, ReadDirBlock
  PROVE  SearchInv'
  <1>1. /\ pc = "dirblock" /\ pc' = "direntry" /\ i' = 1
        /\ buf' = Sectors(FirstSector(cluster), mydata.clust_size)
        /\ UNCHANGED <<vol, part_offset, mydata, asked, path, cluster, cursect, j, found>>
    BY DEF ReadDirBlock
  <1>2. /\ (Sought' <=> Sought) /\ \A x, s : Base(x, s)' = Base(x, s)
    BY <1>1, Kept
  <1>3. PathInv'
    BY <1>1 DEF SearchInv, PathInv
  <1>4. SUFFICES ASSUME Sought
                 PROVE  Below' /\ \E k \in 1..Len(vol'.subchain[asked'[1].file]) : DirSearch(k)'
    BY <1>1, <1>2, <1>3 DEF SearchInv, PathInv
  <1>5. Exact /\ vol \in Volumes /\ cluster \in ClusterNums
    BY <1>1, <1>4, SoughtIsExact DEF Exact, EntryInv, Searched, InClusters
  <1>6. Below /\ \E k \in 1..Len(vol.subchain[asked[1].file]) : DirSearch(k)
    BY <1>1, <1>4 DEF SearchInv
  <1>7. PICK k \in 1..Len(vol.subchain[asked[1].file]) : DirSearch(k)
    BY <1>6
  <1>8. buf' = StoredFrom(vol, SectorAt(cluster), vol.bs.cluster_size)
    BY <1>1, <1>5, ExactReads
  <1>9. Len(buf') = vol.bs.cluster_size * DIRENTSPERBLOCK
    BY <1>5, <1>8, Fields, StoredEntries
  <1>10. SectorAt(cluster)' = SectorAt(cluster)
    BY <1>1 DEF SectorAt
  <1>11. Unread(SectorAt(cluster), vol.bs.cluster_size)'
    BY <1>1, <1>8, <1>9, <1>10 DEF Unread
  <1>12. NotYet(InChain(vol', vol'.subchain[asked'[1].file]), Base(k, 0)' + 1, asked'[2])
    BY <1>1, <1>2, <1>7 DEF DirSearch
  <1>13. 1 \in 1..(ClusterEntries(vol') + 1)
    BY <1>1, <1>5, ClusterEntriesType
  <1>14. DirSearch(k)'
    BY <1>1, <1>7, <1>11, <1>12, <1>13 DEF DirSearch
  <1>15. Below'
    BY <1>1, <1>6 DEF Below, Holds
  <1> QED BY <1>1, <1>14, <1>15

LEMMA MountFinds ==
  ASSUME EntryInv, SearchInv, ReadBootSector
  PROVE  SearchInv'
  <1>1. /\ pc = "mount" /\ UNCHANGED <<vol, part_offset, asked, path, j, buf, i, found>>
        /\ pc' = IF Recognised THEN "rootblock" ELSE "returned"
    BY DEF ReadBootSector
  <1>2. vol \in Volumes /\ path = asked /\ j = 0 /\ found = "none" /\ asked[1] \in Names
        /\ (Recognised' <=> Recognised)
    BY <1>1, AskedNames DEF EntryInv, Mounted, SearchInv, Recognised
  <1>3. PathInv'
    BY <1>1, <1>2 DEF SearchInv, PathInv
  <1>4. SUFFICES ASSUME Recognised, Readable' PROVE (\E k \in RootClusters : RootSearch(k))'
    BY <1>1, <1>2, <1>3 DEF SearchInv, PathInv, Sought
  <1>5. /\ pc' = "rootblock" /\ mydata' = Geometry(vol.bs)
        /\ cluster' = vol.bs.root_cluster /\ cursect' = Geometry(vol.bs).rootdir_sect
    BY <1>4 DEF ReadBootSector
  <1>6. Readable /\ RootAt' = RootAt /\ mydata'.fatsize = FatSize(vol.bs) /\ FatSize(vol.bs) # 0
    <2>1. Readable /\ RootAt' = RootAt
      BY <1>1, <1>4 DEF Readable, RootAt, DataAt
    <2> QED BY <1>4, <1>5, <2>1 DEF Geometry, Recognised
  <1>7. cursect' = RootAt /\ RootAt \in Nat /\ DataAt \in Int
    BY <1>2, <1>5, <1>6, ReadableIsExact
  <1>8. vol.bs.cluster_size \in Nat \ {0} /\ RootDirSize(vol.bs) \in Nat
        /\ FatSize(vol.bs) \in {0, 12, 16, 32}
    BY <1>2, Fields
  <1>9. RootPlace(1)' /\ 1 \in RootClusters'
    <2>1. CASE FatSize(vol.bs) = 32
      <3>1. /\ IsChain(vol.rootchain, vol.fat) /\ vol.rootchain[1] = vol.bs.root_cluster
            /\ vol.bs.root_cluster = 2
        BY <1>2, <1>6, <2>1, VolumeAssumption DEF Readable
      <3>2. 1 \in 1..Len(vol.rootchain)
        BY <3>1 DEF IsChain
      <3>3. SectorAt(2) = RootAt
        <4>1. RootDirSize(vol.bs) = 0
          BY <2>1 DEF RootDirSize
        <4> QED BY <1>7, <1>8, <4>1 DEF SectorAt, ClusterSector, DataSector, RootAt
      <3>4. SectorAt(cluster)' = SectorAt(2)
        BY <1>1, <1>5, <3>1 DEF SectorAt
      <3>5. cursect' = SectorAt(cluster)' + j' /\ j' < vol'.bs.cluster_size
        BY <1>1, <1>2, <1>7, <1>8, <3>3, <3>4
      <3> QED BY <1>1, <1>5, <1>6, <2>1, <3>1, <3>2, <3>5 DEF RootPlace, RootClusters
    <2>2. CASE FatSize(vol.bs) # 32
      <3>1. RootDirSize(vol.bs) > 0
        BY <1>2, <1>6, <1>8, <2>2, VolumeAssumption
      <3> QED BY <1>1, <1>2, <1>6, <1>7, <2>2, <3>1 DEF RootPlace, RootClusters
    <2> QED BY <2>1, <2>2
  <1>10. Base(1, j)' = 0
    <2>1. Base(1, 0) = (1 - 1) * ClusterEntries(vol) /\ ClusterEntries(vol) \in Nat
      BY <1>2, DirBase, ClusterEntriesType
    <2>2. Base(1, 0) = 0
      BY <2>1
    <2>3. Base(1, j)' = Base(1, 0)
      BY <1>1, <1>2 DEF Base
    <2> QED BY <2>2, <2>3
  <1>11. NotYet(RootDirectory(vol'), Base(1, j)' + 1, asked'[1])
    <2> DEFINE all == IF FatSize(vol.bs) = 32 THEN Len(vol.rootchain) * ClusterEntries(vol)
                      ELSE RootDirSize(vol.bs) * DIRENTSPERBLOCK
    <2>1. DOMAIN RootDirectory(vol) = 1..all
      <3>1. CASE FatSize(vol.bs) = 32
        <4>1. vol.rootchain \in Seq(ClusterNums)
          BY <1>2, <3>1, VolumeAssumption DEF IsChain
        <4> QED BY <1>2, <3>1, <4>1, ChainLength DEF RootDirectory
      <3>2. CASE FatSize(vol.bs) # 32
        BY <3>2 DEF RootDirectory, StoredFrom
      <3> QED BY <3>1, <3>2
    <2> HIDE DEF all
    <2>2. \A q \in DOMAIN RootDirectory(vol) : ~(q < 1)
      BY <2>1
    <2>3. NotYet(RootDirectory(vol), 1, asked[1])
      BY <2>2 DEF NotYet
    <2> QED BY <1>1, <1>10, <2>3
  <1>12. RootSearch(1)'
    BY <1>1, <1>2, <1>5, <1>9, <1>11 DEF RootSearch
  <1> QED BY <1>9, <1>12

LEMMA RegisterFinds ==
  ASSUME EntryInv, SearchInv, Register
  PROVE  SearchInv'
  <1>1. /\ pc = "register" /\ pc' = "mount"
        /\ UNCHANGED <<vol, mydata, asked, path, cluster, cursect, j, buf, i, found>>
    BY DEF Register
  <1>2. PathInv'
    BY <1>1 DEF SearchInv, PathInv
  <1> QED BY <1>1, <1>2 DEF SearchInv, PathInv

LEMMA StutterFinds ==
  ASSUME SearchInv, UNCHANGED vars
  PROVE  SearchInv'
  <1>1. UNCHANGED <<vol, part_offset, mydata, asked, path, pc, cluster, cursect, j, buf, i, found>>
    BY DEF vars
  <1>2. /\ (Recognised' <=> Recognised) /\ (Sought' <=> Sought)
        /\ RootClusters' = RootClusters /\ Window' = Window
        /\ RootAt' = RootAt /\ Meant(asked)' = Meant(asked)
        /\ SectorAt(cluster)' = SectorAt(cluster)
    BY <1>1, Kept DEF SectorAt
  <1>3. \A s, n : Unread(s, n)' <=> Unread(s, n)
    BY <1>1 DEF Unread
  <1>4. \A k : RootSearch(k)' <=> RootSearch(k)
    <2>1. \A k : RootPlace(k)' <=> RootPlace(k)
      BY <1>1, <1>2 DEF RootPlace
    <2>2. \A k : Base(k, j)' = Base(k, j)
      BY <1>1 DEF Base
    <2>3. Unread(cursect, Window)' <=> Unread(cursect, Window)
      BY <1>1, <1>2 DEF Unread
    <2> QED BY <1>1, <2>1, <2>2, <2>3 DEF RootSearch
  <1>5. \A k : DirSearch(k)' <=> DirSearch(k)
    <2>1. \A k : Base(k, 0)' = Base(k, 0)
      BY <1>1 DEF Base
    <2>2. Unread(SectorAt(cluster), vol.bs.cluster_size)' <=> Unread(SectorAt(cluster), vol.bs.cluster_size)
      BY <1>1, <1>2 DEF Unread
    <2>3. ClusterEntries(vol)' = ClusterEntries(vol)
      BY <1>1 DEF ClusterEntries
    <2> QED BY <1>1, <2>1, <2>2, <2>3 DEF DirSearch
  <1>6. Below' <=> Below
    BY <1>1 DEF Below, Holds
  <1> QED BY <1>1, <1>2, <1>4, <1>5, <1>6 DEF SearchInv

LEMMA SearchBegins == Init => SearchInv
  <1> SUFFICES ASSUME Init PROVE SearchInv
    OBVIOUS
  <1>1. asked \in Seq(Names) /\ Len(asked) \in {1, 2}
    <2>1. CASE asked \in [1..1 -> Names]
      <3> DEFINE len == 1
      <3>1. len \in Nat \ {0} /\ asked \in [1..len -> Names]
        BY <2>1
      <3> HIDE DEF len
      <3>2. asked \in Seq(Names) /\ Len(asked) = len
        BY <3>1, ShortPath
      <3> QED BY <3>2 DEF len
    <2>2. CASE asked \in [1..2 -> Names]
      <3> DEFINE len == 2
      <3>1. len \in Nat \ {0} /\ asked \in [1..len -> Names]
        BY <2>2
      <3> HIDE DEF len
      <3>2. asked \in Seq(Names) /\ Len(asked) = len
        BY <3>1, ShortPath
      <3> QED BY <3>2 DEF len
    <2> QED BY <2>1, <2>2 DEF Init
  <1> QED BY <1>1 DEF Init, SearchInv

LEMMA SearchGoesOn ==
  ASSUME EntryInv, SearchInv, [Next]_vars
  PROVE  SearchInv'
  <1>1. CASE Register
    BY <1>1, RegisterFinds
  <1>2. CASE ReadBootSector
    BY <1>2, MountFinds
  <1>3. CASE ReadRootBlock
    BY <1>3, RootBlockFinds
  <1>4. CASE RootEntry
    BY <1>4, RootEntryFinds
  <1>5. CASE NextRootSector
    BY <1>5, NextRootSectorFinds
  <1>6. CASE ReadDirBlock
    BY <1>6, DirBlockFinds
  <1>7. CASE DirEntry
    BY <1>7, DirEntryFinds
  <1>8. CASE NextDirCluster
    BY <1>8, NextDirClusterFinds
  <1>9. CASE UNCHANGED vars
    BY <1>9, StutterFinds
  <1> QED BY <1>1, <1>2, <1>3, <1>4, <1>5, <1>6, <1>7, <1>8, <1>9 DEF Next

LEMMA SearchIsRight == SearchInv => LookupIsExact
  <1> SUFFICES ASSUME SearchInv, pc = "returned", Readable, ~Mistaken(asked)
               PROVE  found = Meant(asked)
    BY DEF LookupIsExact
  <1>1. CASE Recognised
    BY <1>1 DEF SearchInv, Sought
  <1>2. CASE ~Recognised
    BY <1>2 DEF SearchInv, Meant
  <1> QED BY <1>1, <1>2

\* A search that has come to its end has found the file that the card says the path
\* names, and nothing when the card holds none: on every card with well-formed
\* directories which the code can read, for every path of one or two names, short or
\* long, however the slots lie in sectors and clusters and although a turn of the
\* loops of do_fat_read and get_dentfromdir copies entries over the slots of the
\* block.  Labels may stand anywhere and have any name, also that of a file, and their
\* first letters count as numbers of slots.  What the faults of the code make of a path
\* is left out: Misled, Split, Labelled and Cropped.
THEOREM SearchIsExact == Spec => []LookupIsExact
  <1>1. EntryInv /\ SearchInv /\ [Next]_vars => (EntryInv /\ SearchInv)'
    BY EntryInvariant, SearchGoesOn
  <1>2. Init => EntryInv /\ SearchInv
    BY EntryInvariant, SearchBegins
  <1> QED BY <1>1, <1>2, SearchIsRight, PTL DEF Spec
=============================================================================
