------------------------------- MODULE FatDir -------------------------------
(***************************************************************************)
(* Finding a file on a card with a FAT volume: the partition               *)
(* (fat_register_device), the boot sector (read_bootsectandvi), the search *)
(* of the root directory in do_fat_read, get_dentfromdir for the           *)
(* directories below it and get_vfatname, of                               *)
(* src/tiny210-linux-codes/prj3-dpf-dma/fat.c.                             *)
(*                                                                         *)
(* The volume is the environment: any layout of well-formed directories, in*)
(* which the slots of a long name come before the entry they belong to, in *)
(* descending order, with labels and deleted entries anywhere between.  A  *)
(* name is a file and which of its two names is meant; a label may have the*)
(* short name of a file.  The long name of f is cut into the pieces        *)
(* <<f, 1>>, <<f, 2>>, ...  What the bytes of a slot would be as a short   *)
(* name, and those of another entry as a piece, is nobody's name.          *)
(* Sectors are counted from the boot sector of the volume, which is sector *)
(* start of the card.                                                      *)
(* Listings (dols) only print and are left out.                            *)
(***************************************************************************)
EXTENDS Integers, Sequences

CONSTANTS
  DIRENTSPERBLOCK,  \* 16 in the code
  PrefetchSectors,  \* LINEAR_PREFETCH_SIZE / SECTOR_SIZE: 2 in the code
  VFAT_MAXSEQ,      \* 9 in the code
  FieldModulus,     \* the 16-bit fields of fsdata wrap here: 65536
  Files,            \* bound: the files and directories on the volume
  Slots,            \* [Files -> number of slots of the long name]
  Initial,          \* [Files -> what the first letter of the short name is as the
                    \* number of a slot: 1..9 for A..I, more for others]
  DirStart,         \* [directories -> first cluster], its domain a subset of Files
  ClusterNums,      \* bound: the data clusters
  Volumes           \* bound: the volumes, see MCFatDir; root and sub, the sets of
                    \* files in each directory, and the chains of clusters, rootchain and
                    \* subchain, are there for the properties only

ASSUME DirAssumption == \A f \in DOMAIN DirStart : DirStart[f] \in ClusterNums
ASSUME SizeAssumption ==
  /\ VFAT_MAXSEQ \in Nat \ {0} /\ VFAT_MAXSEQ < DIRENTSPERBLOCK
  /\ FieldModulus \in Nat \ {0} /\ FieldModulus % 2 = 0
  /\ DIRENTSPERBLOCK \in Nat \ {0} /\ PrefetchSectors \in Nat \ {0, 1}
  /\ Slots \in [Files -> 0..(DIRENTSPERBLOCK - 1)] /\ DOMAIN DirStart \subseteq Files
  /\ Initial \in [Files -> Nat]

VARIABLES
  vol,      \* the card: its sector 0, the volume's start, boot sector bs, FAT and directories
  part_offset, \* where the code takes the volume to start
  mydata,   \* what do_fat_read works out from bs; rootdir_size with it
  asked,    \* history: argument filename, the names of the path
  path,     \* the names still to be looked up
  pc,       \* "register", "mount", "rootblock", "rootentry", "dirblock", "direntry", "returned"
  cluster,  \* root_cluster, or curclust of get_dentfromdir
  cursect,  \* root directory: the sector being searched
  j,        \* root directory: sectors of this cluster (FAT16: in all) searched
  buf,      \* do_fat_read_block or get_dentfromdir_block
  i,        \* the entry of buf at hand
  found     \* what is returned: a file, "none" for -1 and NULL, or "other" for the
            \* size and the contents by an entry that is no file's

vars == <<vol, part_offset, mydata, asked, path, pc, cluster, cursect, j, buf, i, found>>

-----------------------------------------------------------------------------
(* Directory entries.                                                      *)

\* seq is what the first byte is as the number of a slot, without LAST_LONG_ENTRY_MASK.
Entry(kind, f, seq) == [kind |-> kind, file |-> f, seq |-> seq]
End == Entry("end", "none", 0)
Deleted == Entry("deleted", "none", VFAT_MAXSEQ + 1)
\* A label whose first character has the bit of LAST_LONG_ENTRY_MASK, a letter or @,
\* and one whose first character has not.  Its name is the short name of f.
Label(letter, f, seq) == Entry(IF letter THEN "label" ELSE "digits", f, seq)
Short(f) == Entry("short", f, Initial[f])
\* The slot of the last piece comes first and carries LAST_LONG_ENTRY_MASK.
Group(f) ==
  [k \in 1..Slots[f] |-> Entry(IF k = 1 THEN "last" ELSE "slot", f, Slots[f] + 1 - k)]
    \o <<Short(f)>>
Long(f) == [k \in 1..Slots[f] |-> <<f, k>>]

Name(f, long) == [file |-> f, long |-> long]
Names == {Name(f, FALSE) : f \in Files} \cup {Name(f, TRUE) : f \in {g \in Files : Slots[g] > 0}}

\* id & ~LAST_LONG_ENTRY_MASK, of a slot or of what is taken for one.
Id(e) == e.seq

-----------------------------------------------------------------------------
(* The boot sector.                                                        *)

U16(n) == n % FieldModulus
S16(n) == ((n + FieldModulus \div 2) % FieldModulus) - FieldModulus \div 2

\* The file system its sign names; a fat_length of 0 stands for FAT32.  0: none.
FatSize(bs) ==
  CASE bs.fat_length = 0 /\ bs.sign = "FAT32" -> 32
    [] bs.fat_length # 0 /\ bs.sign = "FAT12" -> 12
    [] bs.fat_length # 0 /\ bs.sign = "FAT16" -> 16
    [] OTHER -> 0

RootDirSize(bs) == IF FatSize(bs) = 32 THEN 0 ELSE bs.dir_entries \div DIRENTSPERBLOCK

NoGeometry == [fatsize |-> 0, rootdir_sect |-> 0, rootdir_size |-> 0, clust_size |-> 0,
               data_begin |-> 0]

\* Mutant: one FAT is skipped, whatever bs.fats says.
GeometryOneFat(bs) ==
  LET fatlength == U16(IF FatSize(bs) = 32 THEN bs.fat32_length ELSE bs.fat_length)
      rootdir_sect == U16(U16(bs.reserved) + fatlength)
  IN [fatsize |-> FatSize(bs), rootdir_sect |-> rootdir_sect, rootdir_size |-> RootDirSize(bs),
      clust_size |-> bs.cluster_size,
      data_begin |-> S16(rootdir_sect + RootDirSize(bs) - 2 * bs.cluster_size)]
Geometry(bs) ==
  LET fatlength == U16(IF FatSize(bs) = 32 THEN bs.fat32_length ELSE bs.fat_length)
      rootdir_sect == U16(U16(bs.reserved) + fatlength * bs.fats)
  IN [fatsize |-> FatSize(bs), rootdir_sect |-> rootdir_sect, rootdir_size |-> RootDirSize(bs),
      clust_size |-> bs.cluster_size,
      data_begin |-> S16(rootdir_sect + RootDirSize(bs) - 2 * bs.cluster_size)]

\* Where the volume has its root directory (FAT16) or its data (FAT32), what would
\* be the first sector of cluster 0, and that of cluster c.
RootSector(bs) ==
  bs.reserved + bs.fats * (IF FatSize(bs) = 32 THEN bs.fat32_length ELSE bs.fat_length)
DataSector(bs) == RootSector(bs) + RootDirSize(bs) - 2 * bs.cluster_size
ClusterSector(bs, c) == DataSector(bs) + c * bs.cluster_size

\* The cards: a boot sector of whole numbers, no cluster beyond 128 sectors (of
\* 65536), and a root directory, which is a chain of clusters on a FAT32 card.
BootSectors ==
  [reserved : Nat, fats : Nat, fat_length : Nat, fat32_length : Nat, dir_entries : Nat,
   cluster_size : Nat \ {0}, root_cluster : Nat, sign : {"FAT12", "FAT16", "FAT32", "none"}]
IsChain(chain, fat) ==
  /\ chain \in Seq(ClusterNums) /\ chain # <<>>
  /\ \A k \in 1..(Len(chain) - 1) : fat[chain[k]] = chain[k + 1]
  /\ fat[chain[Len(chain)]] \notin ClusterNums

\* An entry of a directory: what its first byte and its attributes make of it, the file
\* it is for or has the name of, and the first byte as the number of a slot.  Only the
\* entry of a file can be a directory.
DirEntries ==
  {e \in [kind : {"end", "deleted", "label", "digits", "short", "slot", "last"},
          file : Files \cup {"none"}, seq : Nat] :
     (e.kind = "end" => e.seq = 0) /\ (e.kind = "deleted" => e.seq > VFAT_MAXSEQ)}

ASSUME ClusterAssumption == ClusterNums \subseteq Nat /\ ClusterNums # {}
ASSUME VolumeAssumption ==
  \A v \in Volumes :
    /\ v.bs \in BootSectors /\ 4 * v.bs.cluster_size <= FieldModulus
    /\ FatSize(v.bs) = 32 => IsChain(v.rootchain, v.fat) /\ v.rootchain[1] = v.bs.root_cluster
    /\ FatSize(v.bs) \in {12, 16} => RootDirSize(v.bs) > 0
ASSUME CardAssumption ==
  \A v \in Volumes :
    /\ v.entry \in Nat /\ v.fat \in [ClusterNums -> Nat]
    /\ \A s \in DOMAIN v.disk : v.disk[s] \in [1..DIRENTSPERBLOCK -> DirEntries]

-----------------------------------------------------------------------------
(* Reading.                                                                *)

\* What volume v holds in sector s, and in n sectors from s on.
Stored(v, s) == IF s \in DOMAIN v.disk THEN v.disk[s] ELSE [k \in 1..DIRENTSPERBLOCK |-> End]
StoredFrom(v, s, n) ==
  [k \in 1..(n * DIRENTSPERBLOCK) |->
     Stored(v, s + ((k - 1) \div DIRENTSPERBLOCK))[((k - 1) % DIRENTSPERBLOCK) + 1]]

\* disk_read adds part_offset to the sector asked for.
Sectors(s, n) == StoredFrom(vol, part_offset + s - vol.start, n)

\* The directories of a volume: the clusters of a chain, or the area in front of the
\* data.  In one that holds files, the slots and the entry of a file come together,
\* every file that has slots has them there, and after a free entry all are free.
InChain(v, chain) ==
  LET size == v.bs.cluster_size * DIRENTSPERBLOCK
  IN  [p \in 1..(Len(chain) * size) |->
         StoredFrom(v, ClusterSector(v.bs, chain[((p - 1) \div size) + 1]),
                    v.bs.cluster_size)[((p - 1) % size) + 1]]
RootDirectory(v) ==
  IF FatSize(v.bs) = 32 THEN InChain(v, v.rootchain)
  ELSE StoredFrom(v, RootSector(v.bs), RootDirSize(v.bs))

GroupAt(dir, p) ==
  LET f == dir[p].file
  IN  /\ f \in Files /\ Slots[f] > 0 /\ p + Slots[f] \in DOMAIN dir
      /\ \A k \in 1..(Slots[f] + 1) : dir[p + k - 1] = Group(f)[k]
WellFormed(dir, files) ==
  /\ \A p \in DOMAIN dir :
       /\ dir[p].kind = "last" => GroupAt(dir, p)
       /\ dir[p].kind = "short" => dir[p].file \in files
       /\ dir[p].kind = "end" => \A q \in DOMAIN dir : q > p => dir[q].kind = "end"
  /\ \A f \in files : \E p \in DOMAIN dir :
       dir[p].file = f /\ dir[p].kind = IF Slots[f] > 0 THEN "last" ELSE "short"

ASSUME DirectoryAssumption ==
  /\ 0 \notin ClusterNums
  /\ \A v \in Volumes :
       /\ v.root \subseteq Files /\ WellFormed(RootDirectory(v), v.root)
       /\ \A d \in DOMAIN DirStart :
            /\ v.sub[d] \subseteq Files /\ WellFormed(InChain(v, v.subchain[d]), v.sub[d])
            /\ IsChain(v.subchain[d], v.fat) /\ v.subchain[d][1] = DirStart[d]

FirstSector(c) == mydata.data_begin + c * mydata.clust_size
CheckClust(c) == c \notin ClusterNums
DirentsPerClust == mydata.clust_size * DIRENTSPERBLOCK

\* get_vfatname at entry n of block b, the directory's cluster being cur (0: the
\* root directory of a FAT16 volume): the k-th entry from there on, in the block or in
\* the next cluster of the chain, and whether the code gets that far.
Ahead(b, n, cur, k) ==
  IF n + k <= Len(b) THEN b[n + k]
  ELSE Sectors(FirstSector(vol.fat[cur]), mydata.clust_size)[n + k - Len(b)]
InReach(b, n, cur, k) == n + k <= Len(b) \/ (cur # 0 /\ ~CheckClust(vol.fat[cur]))

\* The first bytes count down to the entry, whatever is between is taken for slots.
Descending(b, n, cur, count) == \A k \in 0..(count - 1) : Id(Ahead(b, n, cur, k)) = count - k

\* slot2str from the entry backwards: the slots of the next cluster, then those of the
\* block to the first that has LAST_LONG_ENTRY_MASK, as all but the slots between have.
Piece(e) == <<e.file, IF e.kind \in {"slot", "last"} THEN e.seq ELSE 0>>
Pieces(b, n, cur, count) ==
  [k \in {h \in 1..count : \A m \in 1..(h - 1) :
            n + count - m <= Len(b) => Ahead(b, n, cur, count - m).kind = "slot"} |->
     Piece(Ahead(b, n, cur, count - k))]

\* With the number 0, of a label that begins with @, the entry belongs to itself; what
\* slot2str reads backwards from it is nobody's name.
Failed(e) == [dent |-> e, l_name |-> <<>>]
GetVfatnameSameBlock(b, n, cur) ==
  LET counter == Id(b[n])
  IN  IF counter \in 1..VFAT_MAXSEQ /\ n + counter <= Len(b) /\ Descending(b, n, cur, counter)
      THEN [dent |-> Ahead(b, n, cur, counter), l_name |-> Pieces(b, n, cur, counter)]
      ELSE Failed(b[n])
GetVfatname(b, n, cur) ==
  LET counter == Id(b[n])
  IN  IF counter \in 1..VFAT_MAXSEQ /\ InReach(b, n, cur, counter) /\ Descending(b, n, cur, counter)
      THEN [dent |-> Ahead(b, n, cur, counter), l_name |-> Pieces(b, n, cur, counter)]
      ELSE Failed(b[n])

-----------------------------------------------------------------------------
(* The search.                                                             *)

Init ==
  /\ vol \in Volumes
  /\ asked \in [1..1 -> Names] \cup [1..2 -> Names] /\ path = asked
  /\ pc = "register" /\ part_offset = 0 /\ mydata = NoGeometry
  /\ cluster = 0 /\ cursect = 0 /\ j = 0
  /\ buf = <<>> /\ i = 0 /\ found = "none"

Return(f) == pc' = "returned" /\ found' = f /\ UNCHANGED <<path, cluster, i>>

\* strcmp with the short name, which a label has as well, and with the long one.
Matches(v, name) ==
  IF name.long THEN v.l_name = Long(name.file)
  ELSE v.dent.kind \in {"short", "label", "digits"} /\ v.dent.file = name.file

\* The entry that was found is the file, or the directory to search next.
Enter(e) ==
  IF Len(path) = 1 THEN Return(IF e.kind = "short" THEN e.file ELSE "other")
  ELSE IF e.kind # "short" \/ e.file \notin DOMAIN DirStart THEN Return("none")
  ELSE pc' = "dirblock" /\ cluster' = DirStart[e.file] /\ path' = Tail(path) /\ UNCHANGED <<i, found>>

\* One turn of the for loops over the entries of a block.  A label that begins with a
\* letter is taken for a slot, too.  The entry a long name belongs to is copied over the
\* name's first slot; in get_dentfromdir a free entry ends the search then as well.
Voice(b, n, cur) ==
  IF b[n].kind \in {"last", "label"} THEN GetVfatname(b, n, cur) ELSE Failed(b[n])
Examine(cur) ==
  LET v == Voice(buf, i, cur)
  IN  IF buf[i].kind \in {"deleted", "slot", "digits"}
      THEN i' = i + 1 /\ UNCHANGED <<path, pc, cluster, buf, found>>
      ELSE /\ buf' = [buf EXCEPT ![i] = v.dent]
           /\ IF buf[i].kind = "end" \/ (pc = "direntry" /\ v.dent.kind = "end") THEN Return("none")
              ELSE IF Matches(v, path[1]) THEN Enter(v.dent)
              ELSE i' = i + 1 /\ UNCHANGED <<path, pc, cluster, found>>

\* fat_register_device, called once by fat_init: the first entry of the partition
\* table in sector 0, whichever partition was asked for.  Without the signature, or
\* when sector 0 cannot be read, it fails; nobody looks at that, and part_offset
\* keeps its first value.
Register ==
  /\ pc = "register"
  /\ \E read \in BOOLEAN :
       part_offset' = IF read /\ vol.signature THEN vol.entry ELSE part_offset
  /\ pc' = "mount"
  /\ UNCHANGED <<vol, mydata, asked, path, cluster, cursect, j, buf, i, found>>

\* read_bootsectandvi, and what do_fat_read works out from it.  A sector that is not
\* the volume's boot sector has no sign of a file system.
Recognised == part_offset = vol.start /\ FatSize(vol.bs) # 0
ReadBootSector ==
  /\ pc = "mount"
  /\ IF ~Recognised
     THEN pc' = "returned" /\ UNCHANGED <<mydata, cluster, cursect>>
     ELSE /\ pc' = "rootblock"
          /\ mydata' = Geometry(vol.bs)
          /\ cluster' = vol.bs.root_cluster
          /\ cursect' = mydata'.rootdir_sect
  /\ UNCHANGED <<vol, part_offset, asked, path, j, buf, i, found>>

ReadRootBlock ==
  /\ pc = "rootblock"
  /\ buf' = Sectors(cursect, IF mydata.fatsize = 32 THEN mydata.clust_size ELSE PrefetchSectors)
  /\ i' = 1 /\ pc' = "rootentry"
  /\ UNCHANGED <<vol, part_offset, mydata, asked, path, cluster, cursect, j, found>>

RootEntry ==
  /\ pc = "rootentry" /\ i <= DIRENTSPERBLOCK
  /\ Examine(IF mydata.fatsize = 32 THEN cluster ELSE 0)
  /\ UNCHANGED <<vol, part_offset, mydata, asked, cursect, j>>

\* The end of the while loop over the root directory's sectors.
NextRootSectorKeepsJ ==
  /\ pc = "rootentry" /\ i > DIRENTSPERBLOCK
  /\ j' = j + 1
  /\ IF mydata.fatsize = 32 /\ j' = mydata.clust_size
     THEN /\ cluster' = vol.fat[cluster]
          /\ cursect' = FirstSector(cluster')
          /\ pc' = IF CheckClust(cluster') THEN "returned" ELSE "rootblock"
     ELSE /\ cursect' = cursect + 1
          /\ pc' = IF mydata.fatsize # 32 /\ j' = mydata.rootdir_size THEN "returned" ELSE "rootblock"
          /\ UNCHANGED cluster
  /\ UNCHANGED <<vol, part_offset, mydata, asked, path, buf, i, found>>
NextRootSectorKeepsCluster ==
  /\ pc = "rootentry" /\ i > DIRENTSPERBLOCK
  /\ IF mydata.fatsize = 32 /\ j + 1 = mydata.clust_size
     THEN /\ cursect' = FirstSector(vol.fat[cluster]) /\ j' = 0
          /\ pc' = IF CheckClust(vol.fat[cluster]) THEN "returned" ELSE "rootblock"
     ELSE /\ cursect' = cursect + 1 /\ j' = j + 1
          /\ pc' = IF mydata.fatsize # 32 /\ j' = mydata.rootdir_size THEN "returned" ELSE "rootblock"
  /\ UNCHANGED <<vol, part_offset, mydata, asked, path, cluster, buf, i, found>>
NextRootSector ==
  /\ pc = "rootentry" /\ i > DIRENTSPERBLOCK
  /\ IF mydata.fatsize = 32 /\ j + 1 = mydata.clust_size
     THEN /\ cluster' = vol.fat[cluster]
          /\ cursect' = FirstSector(cluster') /\ j' = 0
          /\ pc' = IF CheckClust(cluster') THEN "returned" ELSE "rootblock"
     ELSE /\ cursect' = cursect + 1 /\ j' = j + 1
          /\ pc' = IF mydata.fatsize # 32 /\ j' = mydata.rootdir_size THEN "returned" ELSE "rootblock"
          /\ UNCHANGED cluster
  /\ UNCHANGED <<vol, part_offset, mydata, asked, path, buf, i, found>>

\* get_dentfromdir reads a whole cluster at a time.
ReadDirBlock ==
  /\ pc = "dirblock"
  /\ buf' = Sectors(FirstSector(cluster), mydata.clust_size)
  /\ i' = 1 /\ pc' = "direntry"
  /\ UNCHANGED <<vol, part_offset, mydata, asked, path, cluster, cursect, j, found>>

DirEntry ==
  /\ pc = "direntry" /\ i <= DirentsPerClust
  /\ Examine(cluster)
  /\ UNCHANGED <<vol, part_offset, mydata, asked, cursect, j>>

NextDirClusterUnchecked ==
  /\ pc = "direntry" /\ i > DirentsPerClust
  /\ cluster' = vol.fat[cluster] /\ pc' = "dirblock"
  /\ UNCHANGED <<vol, part_offset, mydata, asked, path, cursect, j, buf, i, found>>
NextDirCluster ==
  /\ pc = "direntry" /\ i > DirentsPerClust
  /\ cluster' = vol.fat[cluster]
  /\ pc' = IF CheckClust(cluster') THEN "returned" ELSE "dirblock"
  /\ UNCHANGED <<vol, part_offset, mydata, asked, path, cursect, j, buf, i, found>>

Next == Register \/ ReadBootSector \/ ReadRootBlock \/ RootEntry \/ NextRootSector
          \/ ReadDirBlock \/ DirEntry \/ NextDirCluster

Spec == Init /\ [][Next]_vars
FairSpec == Spec /\ WF_vars(Next)

-----------------------------------------------------------------------------
(* Properties.                                                             *)

\* The clusters of a directory and of a FAT32 root directory are searched; in the
\* root directory of a FAT16 card the variable holds what the boot sector says.
InClusters ==
  \/ pc \in {"dirblock", "direntry"}
  \/ pc \in {"rootblock", "rootentry"} /\ mydata.fatsize = 32

\* The variables keep their types, and no cluster is read that is not the volume's.
TypeOK ==
  /\ mydata.fatsize \in {0, 12, 16, 32} /\ mydata.rootdir_sect \in 0..(FieldModulus - 1)
  /\ path \in Seq(Names) /\ asked \in Seq(Names)
  /\ part_offset \in Nat
  /\ pc \in {"register", "mount", "rootblock", "rootentry", "dirblock", "direntry", "returned"}
  /\ cluster \in Nat /\ (InClusters => cluster \in ClusterNums) /\ cursect \in Int
  /\ j \in Nat /\ i \in Nat /\ found \in Files \cup {"none", "other"}

RootAt == RootSector(vol.bs)
DataAt == DataSector(vol.bs)
SectorAt(c) == ClusterSector(vol.bs, c)

\* The code looks for every cluster where the volume has it exactly if the number
\* of sectors before the data fits a short (fat.h:231-235): rootdir_sect and
\* data_begin may wrap, and the FAT of a large card is that long.
GeometryIsExact ==
  mydata.fatsize # 0 =>
    ((\A c \in ClusterNums : FirstSector(c) = SectorAt(c))
       <=> DataAt \in (-(FieldModulus \div 2))..(FieldModulus \div 2 - 1))

\* The cards the code can read: those, and FAT32 cards whose root directory begins
\* in cluster 2, where do_fat_read looks for it (fat.c:877).
Readable ==
  /\ DataAt < FieldModulus \div 2
  /\ FatSize(vol.bs) = 32 => vol.bs.root_cluster = 2

\* What the card says: the file a path leads to, if there is one and its long
\* name is not too long.  No file of a card whose first partition is another one, or
\* that starts with the volume but holds something else where the table would be.
Holds(dir, n) == n.file \in dir /\ (n.long => Slots[n.file] <= VFAT_MAXSEQ)
Meant(p) ==
  IF ~Recognised \/ ~Holds(vol.root, p[1]) THEN "none"
  ELSE IF Len(p) = 1 THEN p[1].file
  ELSE IF p[1].file \in DOMAIN DirStart /\ Holds(vol.sub[p[1].file], p[2]) THEN p[2].file
  ELSE "none"

\* The last sector of the root directory, or of a FAT32 root cluster which the next one
\* of the chain does not follow on the card: what is read with it from sectors behind is
\* not of the root directory (fat.c:952).
BeforeGap(s) ==
  IF FatSize(vol.bs) = 32
  THEN vol.bs.cluster_size > 1 /\ \E k \in 1..Len(vol.rootchain) :
         /\ k < Len(vol.rootchain) => vol.rootchain[k + 1] # vol.rootchain[k] + 1
         /\ s = SectorAt(vol.rootchain[k]) + vol.bs.cluster_size - 1
  ELSE s = RootAt + RootDirSize(vol.bs) - 1
Window == IF FatSize(vol.bs) = 32 THEN vol.bs.cluster_size ELSE PrefetchSectors

\* The slots of f run across such a place.
Split(f) ==
  \E s \in DOMAIN vol.disk :
    LET e == Stored(vol, s)[DIRENTSPERBLOCK]
    IN  BeforeGap(s) /\ e.file = f /\ e.kind \in {"last", "slot"}

\* The slots of another file do, or a label and what is taken for the slots it announces,
\* and what lies behind them on the card, or the label, has the name and is not the entry
\* of a file of the root directory.
Misled(name) ==
  \E s \in DOMAIN vol.disk, n \in 1..DIRENTSPERBLOCK :
    LET b == StoredFrom(vol, s, Window)
        v == GetVfatname(b, n, 0)
    IN  /\ BeforeGap(s) /\ b[n].kind \in {"last", "label"}
        /\ Id(b[n]) <= VFAT_MAXSEQ /\ n + Id(b[n]) > DIRENTSPERBLOCK
        /\ Matches(v, name)
        /\ ~(v.dent.kind = "short" /\ v.dent.file = name.file /\ name.file \in vol.root)

\* A label that begins with a letter, or one its number leads to, has the short name asked
\* for, and no entry of the file comes before it: it is not skipped (fat.c:641 and 982) but
\* compared with the name, and taken (fat.c:1094-1103).
IsShort(e, f) == e.kind = "short" /\ e.file = f
Labelled(dir, name) ==
  /\ ~name.long
  /\ \E p \in DOMAIN dir :
       LET e == GetVfatname(dir, p, 0).dent
       IN  /\ dir[p].kind = "label" /\ e.kind \in {"label", "digits"} /\ e.file = name.file
           /\ \A q \in 1..(p - 1) : ~IsShort(dir[q], name.file)

\* A label counts down over the entry of a file to the first free one, at which
\* get_dentfromdir ends (fat.c:689).
Cropped(dir, name) ==
  \E p, q \in DOMAIN dir :
    /\ dir[p].kind = "label" /\ GetVfatname(dir, p, 0).dent.kind = "end"
    /\ q > p /\ IsShort(dir[q], name.file)

\* Where a search goes wrong.  In the root directory the slots, or what is taken for them,
\* are cut, see LongNameIsFound; and in every directory labels are taken for slots.
Mistaken(p) ==
  \/ Misled(p[1]) \/ (p[1].long /\ Split(p[1].file)) \/ Labelled(RootDirectory(vol), p[1])
  \/ /\ Len(p) = 2 /\ p[1].file \in DOMAIN DirStart
     /\ LET dir == InChain(vol, vol.subchain[p[1].file])
        IN  Labelled(dir, p[2]) \/ Cropped(dir, p[2])

\* A search finds the file the path names, under its short and under its long
\* name, and nothing when there is none: whatever was deleted before it, wherever
\* its slots cross sectors and clusters, whatever labels are passed, whose first letters
\* count as numbers of slots, and although the search writes entries over the slots of
\* the block.  The exceptions come of two faults: a name that is cut in two, with an entry
\* that is taken for the one it belongs to, and a label that is compared with the name.
LookupIsExact == pc = "returned" /\ Readable /\ ~Mistaken(asked) => found = Meant(asked)

\* The search of the root directory never leaves it: root_cluster, the sector
\* read and the count of sectors agree, in every cluster of the chain
\* (fat.c:1118-1140).
RootPosition ==
  pc \in {"rootblock", "rootentry"} /\ Readable =>
    IF mydata.fatsize = 32
    THEN /\ \E k \in DOMAIN vol.rootchain : cluster = vol.rootchain[k]
         /\ cursect = SectorAt(cluster) + j /\ j < vol.bs.cluster_size
    ELSE cursect = RootAt + j /\ j < RootDirSize(vol.bs)

\* Every search ends, also in a directory filled to its last entry, where no free
\* entry marks the end (fat.c:1142-1153).
LookupEnds == <>(pc = "returned")

\* fat.c:494 "Extract the full long filename", and fat.c:1117 "On FAT32 we must
\* fetch the FAT entries for the next root directory clusters": a file is found
\* under its long name wherever its slots lie.
LongNameIsFound ==
  pc = "returned" /\ Readable /\ Len(asked) = 1 /\ asked[1].long => found = Meant(asked)
=============================================================================
