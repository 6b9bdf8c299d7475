------------------------------ MODULE MCFatDir ------------------------------
(* Small volumes for FatDir: sectors of four entries, clusters of one and two
   sectors, long names of at most two slots and one of three that is too long.  A
   number of deleted entries before the files moves their slots across every
   sector and cluster boundary; with the most of them the directory is full. *)
EXTENDS FatDir, SequencesExt

CONSTANTS plain, long, toolong, dcim

Chains32 == {<<2>>, <<2, 3>>, <<2, 5>>, <<2, 5, 3>>}
Many == VFAT_MAXSEQ + 1
Labels == <<Label(FALSE, "none", Many), Label(TRUE, "none", Many)>>

MCSlots == (plain :> 0) @@ (long :> 2) @@ (toolong :> 3) @@ (dcim :> 1)
MCInitial == (plain :> 1) @@ (long :> Many) @@ (toolong :> Many) @@ (dcim :> Many)
MCDirStart == (dcim :> 6)
MCClusters == 2..6

Concat(dirs) == FoldSeq(LAMBDA g, acc : acc \o g, <<>>, dirs)
Layout(deleted, files) ==
  [k \in 1..deleted |-> Deleted] \o Concat([k \in DOMAIN files |-> Group(files[k])])
Filled(entries, n) == entries \o [k \in 1..(n - Len(entries)) |-> End]
SectorOf(entries, n) == SubSeq(entries, (n - 1) * DIRENTSPERBLOCK + 1, n * DIRENTSPERBLOCK)
FilesOf(entries) == {entries[k].file : k \in {m \in DOMAIN entries : entries[m].kind = "short"}}

\* What lies before the directories: the boot sector, two FATs, and the root
\* directory of a FAT16 volume.
RootSectors16 == 3
Boot(reserved, sign) ==
  [reserved |-> reserved, fats |-> 2, fat_length |-> IF sign = "FAT32" THEN 0 ELSE 1,
   fat32_length |-> 1, dir_entries |-> RootSectors16 * DIRENTSPERBLOCK, sign |-> sign]

\* The card: chain gives the clusters of the FAT32 root directory or is empty,
\* <<6, 4>> or <<6>> are those of directory dcim.
VolumeAt(reserved, clust, chain, subchain, rootEntries, subEntries) ==
  LET f32 == chain # <<>>
      follow(seq, n) == \E k \in 1..(Len(seq) - 1) : seq[k] = n
      succ(seq, n) == seq[(CHOOSE k \in 1..(Len(seq) - 1) : seq[k] = n) + 1]
      rootSectors == IF f32 THEN Len(chain) * clust ELSE RootSectors16
      bs == Boot(reserved, IF f32 THEN "FAT32" ELSE "FAT16")
      data == bs.reserved + bs.fats + (IF f32 THEN 0 ELSE RootSectors16)
      root == Filled(rootEntries, rootSectors * DIRENTSPERBLOCK)
      sub == Filled(subEntries, Len(subchain) * clust * DIRENTSPERBLOCK)
      at(seq, s) == CHOOSE n \in 1..(Len(seq) * clust) :
                      s = data + (seq[((n - 1) \div clust) + 1] - 2) * clust + ((n - 1) % clust)
      sectors(seq) == {data + (seq[k] - 2) * clust + m : k \in DOMAIN seq, m \in 0..(clust - 1)}
      rootSet == IF f32 THEN sectors(chain) ELSE (data - RootSectors16)..(data - 1)
  IN [start |-> 3, signature |-> TRUE, entry |-> 3, bs |-> bs @@ [cluster_size |-> clust, root_cluster |-> IF f32 THEN chain[1] ELSE 0],
      rootchain |-> chain, subchain |-> (dcim :> subchain),
      fat |-> [n \in MCClusters |-> IF follow(chain, n) THEN succ(chain, n)
                                    ELSE IF follow(subchain, n) THEN succ(subchain, n) ELSE 0],
      disk |-> [s \in rootSet \cup sectors(subchain) |->
                  IF s \notin rootSet THEN SectorOf(sub, at(subchain, s))
                  ELSE SectorOf(root, IF f32 THEN at(chain, s) ELSE s - data + RootSectors16 + 1)],
      root |-> FilesOf(rootEntries), sub |-> (dcim :> FilesOf(subEntries))]
Volume(clust, chain, subchain, rootEntries, subEntries) ==
  VolumeAt(1, clust, chain, subchain, rootEntries, subEntries)

Room(clust, chain) == (IF chain = <<>> THEN 3 ELSE Len(chain) * clust) * DIRENTSPERBLOCK

\* The files lie in the root directory, or in directory dcim.
InRoot(clust, chain, files) ==
  LET size == Len(Layout(0, files)) + 1 IN
  {Volume(clust, chain, <<6>>, Labels \o Layout(n, files), <<>>) :
     n \in 0..(Room(clust, chain) - size - Len(Labels) + 1)}
InSub(clust, chain, files) ==
  {Volume(clust, chain, <<6, 4>>, Layout(0, <<long, dcim>>), Layout(n, files)) :
     n \in 0..(Room(clust, <<6, 4>>) - Len(Layout(0, files)))}

\* Cards the code cannot read, or only just: a data area at, before and beyond half
\* of FieldModulus, a FAT32 root directory that begins in cluster 5, another sign.
Odd ==
  {VolumeAt(reserved, clust, chain, <<6>>, Group(long), <<>>) :
     reserved \in 26..34, clust \in {1, 2}, chain \in {<<>>, <<2>>, <<5, 3>>}}
    \cup {[Volume(1, <<>>, <<6>>, Group(long), <<>>) EXCEPT !.bs.sign = "none"]}

\* Volumes that start at sector 0 with no table or with other bytes in its place, and
\* those that start elsewhere with no signature or as the second partition.
Unpartitioned ==
  {[Volume(1, chain, <<6>>, Group(long), <<>>) EXCEPT
      !.start = start, !.signature = signature, !.entry = entry] :
     chain \in {<<>>, <<2, 5>>}, start \in {0, 3}, signature \in BOOLEAN, entry \in {0, 3, 7}}

\* A FAT32 root directory whose clusters lie apart, with the entries of dcim right
\* behind one of them on the card.
Scattered ==
  {Volume(2, <<2, 3, 5>>, <<6, 4>>, Layout(n, <<long, dcim>>), Layout(8, files)) :
     n \in 0..19, files \in {<<plain>>, <<toolong>>}}

\* A label, which has a file's name or none and any number, between deleted entries and
\* other entries: one whose short name counts as a slot, a name of one slot, another label,
\* a piece of a deleted name, and in a full directory none at all.
Behind ==
  {Group(plain) \o Group(dcim), Group(dcim) \o Group(plain), Group(plain),
   Group(plain) \o <<Label(FALSE, dcim, Many)>> \o Group(dcim),
   <<Label(TRUE, plain, 1)>> \o Group(long) \o Group(plain),
   <<Entry("slot", long, 1)>> \o Group(plain), <<>>}
Marked(files, f, seq, deleted, behind) ==
  Concat([k \in DOMAIN files |-> Group(files[k])]) \o [k \in 1..deleted |-> Deleted]
    \o <<Label(TRUE, f, seq)>> \o behind
LabelledRoot(clust, chain) ==
  UNION {{Volume(clust, chain, <<6>>, Marked(<<>>, f, seq, n, behind), Group(plain)) :
            n \in {m \in {0, 2, 3, 6, 7} : m + Len(behind) < Room(clust, chain)}} :
           f \in {plain, dcim}, seq \in 0..Many, behind \in Behind}
LabelledSub(clust) ==
  UNION {{Volume(clust, <<2>>, <<6, 4>>, Group(dcim), Marked(<<>>, f, seq, n, behind)) :
            n \in {m \in {0, 2, 3, 6, 7} : m + Len(behind) < Room(clust, <<6, 4>>)}} :
           f \in {plain, dcim}, seq \in 0..Many, behind \in Behind}

\* A root directory full to the last entry, a label, and another directory behind it on
\* the card: dcim, or one in cluster 2 that is not searched.
Full(chain, seq, entries) ==
  LET v == Volume(2, chain, <<6>>, Marked(<<long>>, "none", seq, Room(2, chain) - 4, <<>>), entries)
  IN  [v EXCEPT !.disk = (DataSector(v.bs) + 4 :> SectorOf(Filled(entries, 4), 1)) @@ @]

MCVolumes ==
  LabelledRoot(1, <<>>) \cup LabelledRoot(1, <<2, 5>>) \cup LabelledRoot(2, <<2, 5>>)
    \cup LabelledSub(1)
    \cup {Full(chain, seq, Group(f)) : chain \in {<<>>, <<5>>}, seq \in 1..2, f \in {plain, dcim}} \cup
  Scattered \cup Odd \cup Unpartitioned \cup
  UNION {InRoot(clust, chain, files) :
           clust \in {1, 2}, chain \in Chains32 \cup {<<>>}, files \in {<<long, plain>>, <<toolong, long>>}}
    \cup UNION {InSub(clust, chain, files) :
           clust \in {1, 2}, chain \in {<<>>, <<2, 3>>}, files \in {<<long, plain>>, <<toolong, long>>}}
=============================================================================
