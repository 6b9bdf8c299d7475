-------------------------- MODULE SuperbootProofs ---------------------------
(***************************************************************************)
(* The boot loader for every board, file, flash and line typed: the types, *)
(* the promises of Monitor, the kernel and its tag list, and what may lead *)
(* the board astray.                                                       *)
(***************************************************************************)
EXTENDS Superboot, TLAPS, SequenceTheorems, WellFoundedInduction

-----------------------------------------------------------------------------
(* The tag list: each tag is written behind the ones before it, so what one *)
(* of the writes leaves below its first byte is what the list holds in the  *)
(* end (TagList).                                                           *)

\* The two memories agree below the byte bound.
Agree(m1, m2, bound) ==
  DOMAIN m1 = DOMAIN m2 /\ \A a \in DOMAIN m1 : a < bound => m2[a] = m1[a]

LEMMA WordIndex ==
  ASSUME NEW w \in Nat, NEW b \in 0..3
  PROVE  (4 * w + b) \div 4 = w /\ (4 * w + b) % 4 = b
  OBVIOUS

LEMMA AgreeIsTransitive ==
  ASSUME NEW m1, NEW m2, NEW m3, DOMAIN m1 \subseteq Nat, NEW x \in Nat, NEW y \in Nat, x <= y,
         Agree(m1, m2, x), Agree(m2, m3, y)
  PROVE  Agree(m1, m3, x)
  BY DEF Agree

LEMMA WordStays ==
  ASSUME NEW m1, NEW m2, NEW bound \in Nat, Agree(m1, m2, bound),
         NEW w \in Nat, NEW v, IsWord(m1, w, v), 4 * w + 4 <= bound
  PROVE  IsWord(m2, w, v)
  BY DEF Agree, IsWord

LEMMA TagIsWritten ==
  ASSUME NEW m, DOMAIN m \subseteq Nat, NEW w \in Nat, NEW tag, NEW size, NEW fields,
         DOMAIN fields \subseteq Nat \ {0}, \A a \in 0..(4 * w + 7) : a \in DOMAIN m
  PROVE  /\ IsWord(PutTag(m, w, tag, size, fields), w, size)
         /\ IsWord(PutTag(m, w, tag, size, fields), w + 1, tag)
  <1> DEFINE p == PutTag(m, w, tag, size, fields)
  <1>1. ASSUME NEW b \in 0..3
        PROVE  4 * w + b \in DOMAIN p /\ p[4 * w + b] = ByteOf(size, b)
    <2>1. 4 * w + b \in DOMAIN m
      OBVIOUS
    <2>2. (4 * w + b) \div 4 = w /\ (4 * w + b) % 4 = b
      BY WordIndex
    <2>3. ((4 * w + b) \div 4) - w = 0 /\ 0 - 1 \notin DOMAIN fields
      BY <2>2
    <2> QED BY <2>1, <2>2, <2>3 DEF PutTag
  <1>2. ASSUME NEW b \in 0..3
        PROVE  4 * (w + 1) + b \in DOMAIN p /\ p[4 * (w + 1) + b] = ByteOf(tag, b)
    <2>1. 4 * (w + 1) + b \in DOMAIN m
      OBVIOUS
    <2>2. (4 * (w + 1) + b) \div 4 = w + 1 /\ (4 * (w + 1) + b) % 4 = b
      BY WordIndex
    <2>3. ((4 * (w + 1) + b) \div 4) - w = 1 /\ 1 - 1 \notin DOMAIN fields
      BY <2>2
    <2> QED BY <2>1, <2>2, <2>3 DEF PutTag
  <1> QED BY <1>1, <1>2 DEF IsWord

LEMMA FieldIsWritten ==
  ASSUME NEW m, DOMAIN m \subseteq Nat, NEW w \in Nat, NEW tag, NEW size, NEW fields,
         NEW n \in Nat \ {0}, n \in DOMAIN fields,
         \A a \in 0..(4 * (w + n + 1) + 3) : a \in DOMAIN m
  PROVE  IsWord(PutTag(m, w, tag, size, fields), w + n + 1, fields[n])
  <1> DEFINE p == PutTag(m, w, tag, size, fields)
  <1> SUFFICES ASSUME NEW b \in 0..3
               PROVE  /\ 4 * (w + n + 1) + b \in DOMAIN p
                      /\ p[4 * (w + n + 1) + b] = ByteOf(fields[n], b)
    BY DEF IsWord
  <1>1. 4 * (w + n + 1) + b \in DOMAIN m
    OBVIOUS
  <1>2. (4 * (w + n + 1) + b) \div 4 = w + n + 1 /\ (4 * (w + n + 1) + b) % 4 = b
    BY WordIndex
  <1> QED BY <1>1, <1>2 DEF PutTag

LEMMA TagKeepsBelow ==
  ASSUME NEW m, DOMAIN m \subseteq Nat, NEW w \in Nat, NEW tag, NEW size, NEW fields,
         DOMAIN fields \subseteq Nat
  PROVE  Agree(m, PutTag(m, w, tag, size, fields), 4 * w)
  <1> SUFFICES ASSUME NEW a \in DOMAIN m, a < 4 * w
               PROVE  PutTag(m, w, tag, size, fields)[a] = m[a]
    BY DEF Agree, PutTag
  <1>1. a \div 4 < w /\ a \div 4 \in Nat
    OBVIOUS
  <1> QED BY <1>1 DEF PutTag

LEMMA CmdKeepsBelow ==
  ASSUME NEW m, DOMAIN m \subseteq Nat, NEW w \in Nat, NEW length \in Nat
  PROVE  Agree(m, PutCmd(m, w, length), 4 * w)
  BY DEF Agree, PutCmd

LEMMA CmdIsWritten ==
  ASSUME NEW m, DOMAIN m \subseteq Nat, NEW w \in Nat, NEW length \in Nat,
         \A a \in 0..(4 * w + length - 1) : a \in DOMAIN m
  PROVE  IsCmdline(PutCmd(m, w, length), w, length)
  <1> SUFFICES ASSUME NEW k \in 1..length
               PROVE  /\ 4 * w + k - 1 \in DOMAIN PutCmd(m, w, length)
                      /\ PutCmd(m, w, length)[4 * w + k - 1] = CmdChar(length, k)
    BY DEF IsCmdline
  <1>1. 4 * w + k - 1 \in DOMAIN m
    OBVIOUS
  <1>2. (4 * w + k - 1) - 4 * w + 1 = k
    OBVIOUS
  <1> QED BY <1>1, <1>2 DEF PutCmd

LEMMA CmdlineStays ==
  ASSUME NEW m1, NEW m2, NEW bound \in Nat, Agree(m1, m2, bound),
         NEW w \in Nat, NEW length \in Nat, IsCmdline(m1, w, length), 4 * w + length <= bound
  PROVE  IsCmdline(m2, w, length)
  BY DEF Agree, IsCmdline

\* The size of the tag covers the command line, its NUL included, and at most three
\* bytes more (command.c:211).
LEMMA CmdlineFits ==
  ASSUME NEW length \in Nat
  PROVE  /\ CmdlineSize(length) \in HeaderWords..(length + HeaderWords)
         /\ 4 * HeaderWords + length <= 4 * CmdlineSize(length)
         /\ 4 * CmdlineSize(length) <= 4 * HeaderWords + length + 3
  BY DEF CmdlineSize, HeaderWords

\* Whatever memory held and however long the command line is, the kernel's walk over
\* the tags that init_taglist writes finds the three tags, with the whole command
\* line, and the end of the list (command.c:197-224).
THEOREM EveryTagListParses ==
  ASSUME NEW length \in Nat, NEW m, DOMAIN m \subseteq Nat,
         \A a \in 0..(4 * (CoreSize + CmdlineSize(length) + MemSize + HeaderWords)) : a \in DOMAIN m
  PROVE  TagListParses(init_taglist(m, length), length)
  <1> DEFINE cmdAt == CoreSize
             memAt == cmdAt + CmdlineSize(length)
             endAt == memAt + MemSize
             core == PutTag(m, 0, ATAG_CORE, CoreSize, <<1, 4096, 0>>)
             header == PutTag(core, cmdAt, ATAG_CMDLINE, CmdlineSize(length), <<>>)
             cmd == PutCmd(header, cmdAt + HeaderWords, length)
             ram == PutTag(cmd, memAt, ATAG_MEM, MemSize, MemFields)
             list == PutTag(ram, endAt, ATAG_NONE, 0, <<>>)
  <1>list. init_taglist(m, length) = list
    BY DEF init_taglist
  <1>sizes. /\ CoreSize = 5 /\ MemSize = 4 /\ HeaderWords = 2
            /\ cmdAt \in Nat /\ memAt \in Nat /\ endAt \in Nat
            /\ CmdlineSize(length) \in HeaderWords..(length + HeaderWords)
            /\ 4 * (cmdAt + HeaderWords) + length <= 4 * memAt
    <2>1. CoreSize = 5 /\ MemSize = 4 /\ HeaderWords = 2
      BY DEF CoreSize, MemSize, HeaderWords
    <2>2. /\ CmdlineSize(length) \in HeaderWords..(length + HeaderWords)
          /\ 4 * HeaderWords + length <= 4 * CmdlineSize(length)
      BY CmdlineFits
    <2> HIDE DEF cmdAt
    <2>3. cmdAt = 5
      BY <2>1 DEF cmdAt
    <2> QED BY <2>1, <2>2, <2>3
  <1>dom. /\ DOMAIN core = DOMAIN m /\ DOMAIN header = DOMAIN m /\ DOMAIN cmd = DOMAIN m
          /\ DOMAIN ram = DOMAIN m
    BY DEF PutTag, PutCmd
  <1>room. \A a \in 0..(4 * endAt + 8) : a \in DOMAIN m
    BY <1>sizes
  <1> HIDE DEF core, header, cmd, ram, list, memAt, endAt
  <1>1. IsWord(core, 0, CoreSize) /\ IsWord(core, 1, ATAG_CORE)
    <2>1. \A a \in 0..(4 * 0 + 7) : a \in DOMAIN m
      BY <1>sizes, <1>room DEF endAt, memAt
    <2>2. /\ IsWord(PutTag(m, 0, ATAG_CORE, CoreSize, <<1, 4096, 0>>), 0, CoreSize)
          /\ IsWord(PutTag(m, 0, ATAG_CORE, CoreSize, <<1, 4096, 0>>), 0 + 1, ATAG_CORE)
      BY <2>1, TagIsWritten
    <2> QED BY <2>2 DEF core
  <1>2. /\ IsWord(header, cmdAt, CmdlineSize(length)) /\ IsWord(header, cmdAt + 1, ATAG_CMDLINE)
        /\ Agree(core, header, 4 * cmdAt)
    <2>1. \A a \in 0..(4 * cmdAt + 7) : a \in DOMAIN core
      BY <1>sizes, <1>room, <1>dom DEF endAt, memAt
    <2>2. DOMAIN << >> \subseteq Nat \ {0}
      OBVIOUS
    <2> QED BY <2>1, <2>2, <1>sizes, <1>dom, TagIsWritten, TagKeepsBelow DEF header
  <1>3. /\ IsCmdline(cmd, cmdAt + HeaderWords, length)
        /\ Agree(header, cmd, 4 * (cmdAt + HeaderWords))
    <2>1. \A a \in 0..(4 * (cmdAt + HeaderWords) + length - 1) : a \in DOMAIN header
      BY <1>sizes, <1>room, <1>dom DEF endAt
    <2>2. cmdAt + HeaderWords \in Nat
      BY <1>sizes
    <2> QED BY <2>1, <2>2, <1>dom, CmdIsWritten, CmdKeepsBelow DEF cmd
  <1>4. /\ IsWord(ram, memAt, MemSize) /\ IsWord(ram, memAt + 1, ATAG_MEM)
        /\ IsWord(ram, memAt + 2, MemFields[1]) /\ IsWord(ram, memAt + 3, MemFields[2])
        /\ Agree(cmd, ram, 4 * memAt)
    <2>1. \A a \in 0..(4 * (memAt + 3) + 3) : a \in DOMAIN cmd
      BY <1>sizes, <1>room, <1>dom DEF endAt
    <2>2. DOMAIN MemFields = 1..2
      BY DEF MemFields
    <2>3. IsWord(ram, memAt, MemSize) /\ IsWord(ram, memAt + 1, ATAG_MEM)
      <3>1. \A a \in 0..(4 * memAt + 7) : a \in DOMAIN cmd
        BY <2>1, <1>sizes
      <3> QED BY <3>1, <2>2, <1>sizes, <1>dom, TagIsWritten DEF ram
    <2>4. IsWord(ram, memAt + 1 + 1, MemFields[1])
      <3>1. \A a \in 0..(4 * (memAt + 1 + 1) + 3) : a \in DOMAIN cmd
        BY <2>1, <1>sizes
      <3> QED BY <3>1, <2>2, <1>sizes, <1>dom, FieldIsWritten DEF ram
    <2>5. IsWord(ram, memAt + 2 + 1, MemFields[2])
      <3>1. \A a \in 0..(4 * (memAt + 2 + 1) + 3) : a \in DOMAIN cmd
        BY <2>1, <1>sizes
      <3> QED BY <3>1, <2>2, <1>sizes, <1>dom, FieldIsWritten DEF ram
    <2>6. Agree(cmd, ram, 4 * memAt)
      BY <2>2, <1>sizes, <1>dom, TagKeepsBelow DEF ram
    <2>7. memAt + 1 + 1 = memAt + 2 /\ memAt + 2 + 1 = memAt + 3
      BY <1>sizes
    <2> QED BY <2>3, <2>4, <2>5, <2>6, <2>7
  <1>5. IsWord(list, endAt, 0) /\ Agree(ram, list, 4 * endAt)
    <2>1. \A a \in 0..(4 * endAt + 7) : a \in DOMAIN ram
      BY <1>sizes, <1>room, <1>dom
    <2>2. DOMAIN << >> \subseteq Nat \ {0}
      OBVIOUS
    <2> QED BY <2>1, <2>2, <1>sizes, <1>dom, TagIsWritten, TagKeepsBelow DEF list
  <1>6. Agree(cmd, list, 4 * memAt)
    BY <1>4, <1>5, <1>sizes, <1>dom, AgreeIsTransitive DEF endAt
  <1>7. Agree(header, list, 4 * (cmdAt + HeaderWords))
    BY <1>3, <1>6, <1>sizes, <1>dom, AgreeIsTransitive
  <1>8. Agree(core, list, 4 * cmdAt)
    BY <1>2, <1>7, <1>sizes, <1>dom, AgreeIsTransitive
  <1>9. IsWord(list, 0, CoreSize) /\ IsWord(list, 1, ATAG_CORE)
    BY <1>1, <1>8, <1>sizes, WordStays
  <1>10. IsWord(list, cmdAt, CmdlineSize(length)) /\ IsWord(list, cmdAt + 1, ATAG_CMDLINE)
    BY <1>2, <1>7, <1>sizes, WordStays
  <1>11. IsCmdline(list, cmdAt + HeaderWords, length)
    BY <1>3, <1>6, <1>sizes, CmdlineStays
  <1>12. /\ IsWord(list, memAt, MemSize) /\ IsWord(list, memAt + 1, ATAG_MEM)
         /\ IsWord(list, memAt + 2, MemFields[1]) /\ IsWord(list, memAt + 3, MemFields[2])
    BY <1>4, <1>5, <1>sizes, WordStays DEF endAt
  <1>13. /\ CmdlineSize(length) \in HeaderWords..(length + HeaderWords)
         /\ memAt = CoreSize + CmdlineSize(length) /\ endAt = memAt + MemSize
    BY <1>sizes DEF memAt, endAt
  <1> QED BY <1>list, <1>5, <1>9, <1>10, <1>11, <1>12, <1>13 DEF TagListParses

-----------------------------------------------------------------------------
(* Arithmetic and sequences.                                               *)

LEMMA Division ==
  ASSUME NEW n \in Nat, NEW d \in Nat \ {0}
  PROVE  /\ n \div d \in Nat /\ n % d \in 0..(d - 1)
         /\ n = d * (n \div d) + (n % d)
  OBVIOUS

\* Quotient and remainder are the only ones.
LEMMA DivisionUnique ==
  ASSUME NEW d \in Nat \ {0}, NEW q \in Nat, NEW r \in 0..(d - 1)
  PROVE  (d * q + r) \div d = q /\ (d * q + r) % d = r
  <1> DEFINE n == d * q + r
             p == n \div d
             s == n % d
  <1>1. n \in Nat
    OBVIOUS
  <1>2. p \in Nat /\ s \in 0..(d - 1) /\ n = d * p + s
    BY <1>1, Division
  <1> HIDE DEF p, s
  <1>3. ASSUME p > q PROVE FALSE
    <2>1. d * p >= d * q + d
      BY <1>2, <1>3
    <2> QED BY <1>2, <2>1
  <1>4. ASSUME q > p PROVE FALSE
    <2>1. d * q >= d * p + d
      BY <1>2, <1>4
    <2> QED BY <1>2, <2>1
  <1>5. p = q
    BY <1>2, <1>3, <1>4
  <1>6. s = r
    BY <1>2, <1>5
  <1> QED BY <1>5, <1>6 DEF p, s

IsSequence(s) == \E S : s \in Seq(S)

LEMMA TailOf ==
  ASSUME NEW s, IsSequence(s), s # <<>>
  PROVE  /\ IsSequence(Tail(s)) /\ 1 \in DOMAIN s /\ Head(s) = s[1]
         /\ \A k \in DOMAIN Tail(s) : k + 1 \in DOMAIN s /\ Tail(s)[k] = s[k + 1]
         /\ \A k \in DOMAIN s : k = 1 \/ (k - 1 \in DOMAIN Tail(s) /\ Tail(s)[k - 1] = s[k])
  <1>1. PICK S : s \in Seq(S)
    BY DEF IsSequence
  <1>2. Tail(s) \in Seq(S) /\ Len(s) \in Nat \ {0} /\ DOMAIN s = 1..Len(s) /\ Head(s) = s[1]
    BY <1>1
  <1>3. DOMAIN Tail(s) = 1..(Len(s) - 1) /\ \A k \in 1..(Len(s) - 1) : Tail(s)[k] = s[k + 1]
    BY <1>1, <1>2
  <1> QED BY <1>2, <1>3 DEF IsSequence

LEMMA OneOf ==
  ASSUME NEW x
  PROVE  IsSequence(<<x>>) /\ DOMAIN <<x>> = {1} /\ <<x>>[1] = x /\ <<x>> # <<>>
  <1>1. <<x>> \in Seq({x})
    OBVIOUS
  <1>2. \E S : <<x>> \in Seq(S)
    BY <1>1
  <1> QED BY <1>2 DEF IsSequence

LEMMA TableOf ==
  ASSUME NEW s, NEW n \in Nat, NEW S, s = [k \in 1..n |-> s[k]], \A k \in 1..n : s[k] \in S
  PROVE  IsSequence(s) /\ DOMAIN s = 1..n
  <1>1. s \in [1..n -> S] /\ DOMAIN s = 1..n
    OBVIOUS
  <1>2. s \in Seq(S)
    BY <1>1, SeqDef
  <1> QED BY <1>1, <1>2 DEF IsSequence

LEMMA NoPlaces == \A a \in Nat : Places(a, 0) = {}
  BY DEF Places

-----------------------------------------------------------------------------
(* A command writes piece by piece (WritePiece).                           *)

\* The places of piece p hold what p says.
Right(m, p) == \A a \in DOMAIN p : a \in Addresses /\ m[a] = p[a]

\* The pieces w still to write stay within the task t and hold what it wants; what
\* they do not hold of it is in memory m already, unless the command was disturbed.
InOrder(w, t, m, d) ==
  /\ IsSequence(w)
  /\ \A k \in DOMAIN w : DOMAIN w[k] \subseteq t.cells
  /\ ~d => /\ \A k \in DOMAIN w :
                \A a \in DOMAIN w[k] \cap DOMAIN t.wanted : w[k][a] = t.wanted[a]
           /\ \A a \in DOMAIN t.wanted :
                a \in Addresses /\ (m[a] = t.wanted[a] \/ \E k \in DOMAIN w : a \in DOMAIN w[k])

LEMMA PieceInOrder ==
  ASSUME NEW w, NEW t, NEW m, NEW d, InOrder(w, t, m, d), w # <<>>, DOMAIN m = Addresses
  PROVE  /\ InOrder(Tail(w), t, Overlay(m, Head(w)), d)
         /\ DOMAIN Head(w) \subseteq t.cells
  <1> DEFINE p == Head(w)
             n == Overlay(m, p)
             r == Tail(w)
  <1>1. /\ IsSequence(r) /\ 1 \in DOMAIN w /\ p = w[1]
        /\ \A k \in DOMAIN r : k + 1 \in DOMAIN w /\ r[k] = w[k + 1]
        /\ \A k \in DOMAIN w : k = 1 \/ (k - 1 \in DOMAIN r /\ r[k - 1] = w[k])
    BY TailOf DEF InOrder
  <1>2. \A a \in Addresses : n[a] = IF a \in DOMAIN p THEN p[a] ELSE m[a]
    BY DEF Overlay
  <1> HIDE DEF p, n, r
  <1>3. \A k \in DOMAIN r : DOMAIN r[k] \subseteq t.cells
    BY <1>1 DEF InOrder
  <1>4. DOMAIN p \subseteq t.cells
    BY <1>1 DEF InOrder
  <1>5. ASSUME ~d, NEW k \in DOMAIN r, NEW a \in DOMAIN r[k] \cap DOMAIN t.wanted
        PROVE  r[k][a] = t.wanted[a]
    BY <1>1, <1>5 DEF InOrder
  <1>6. ASSUME ~d, NEW a \in DOMAIN t.wanted
        PROVE  a \in Addresses /\ (n[a] = t.wanted[a] \/ \E k \in DOMAIN r : a \in DOMAIN r[k])
    <2>1. a \in Addresses /\ (m[a] = t.wanted[a] \/ \E k \in DOMAIN w : a \in DOMAIN w[k])
      BY <1>6 DEF InOrder
    <2>2. CASE a \in DOMAIN p
      <3>1. p[a] = t.wanted[a]
        BY <1>1, <1>6, <2>2 DEF InOrder
      <3> QED BY <1>2, <2>1, <2>2, <3>1
    <2>3. CASE a \notin DOMAIN p /\ m[a] = t.wanted[a]
      BY <1>2, <2>1, <2>3
    <2>4. CASE a \notin DOMAIN p /\ \E k \in DOMAIN w : a \in DOMAIN w[k]
      <3>1. PICK k \in DOMAIN w : a \in DOMAIN w[k]
        BY <2>4
      <3>2. k # 1
        BY <1>1, <2>4, <3>1
      <3> QED BY <1>1, <2>1, <3>1, <3>2
    <2> QED BY <2>1, <2>2, <2>3, <2>4
  <1>7. InOrder(r, t, n, d)
    BY <1>1, <1>3, <1>5, <1>6 DEF InOrder
  <1> QED BY <1>4, <1>7 DEF p, n, r

LEMMA OneInOrder ==
  ASSUME NEW p, NEW t, NEW m, NEW d, DOMAIN p \subseteq t.cells,
         ~d => \A a \in DOMAIN t.wanted : a \in Addresses /\ a \in DOMAIN p /\ p[a] = t.wanted[a]
  PROVE  InOrder(<<p>>, t, m, d)
  <1> DEFINE w == <<p>>
  <1>1. IsSequence(w) /\ DOMAIN w = {1} /\ w[1] = p
    BY OneOf
  <1> HIDE DEF w
  <1>2. InOrder(w, t, m, d)
    BY <1>1 DEF InOrder
  <1> QED BY <1>2 DEF w

LEMMA DoneInOrder ==
  ASSUME NEW t, NEW m, NEW d, InOrder(<<>>, t, m, d), ~d
  PROVE  Right(m, t.wanted)
  <1>1. DOMAIN <<>> = {}
    OBVIOUS
  <1> QED BY <1>1 DEF InOrder, Right

-----------------------------------------------------------------------------
(* What is read of boot.ini: the text goes through get_key_value token by   *)
(* token, and the first line for OS is found whatever lies behind the text. *)

Less == OpToRel(<, Nat)
LEMMA LessIsWellFounded == IsWellFoundedOn(Less, Nat)
  BY NatLessThanWellFounded DEF Less
LEMMA LessIsLess == \A x, y \in Nat : x < y => <<x, y>> \in Less
  BY DEF Less, OpToRel

LEMMA Counting ==
  ASSUME NEW N \in Nat, NEW S, 0 \in S, \A n \in 0..(N - 1) : n \in S => n + 1 \in S
  PROVE  \A n \in 0..N : n \in S
  <1> DEFINE T == (0..N) \ S
  <1>1. SUFFICES ASSUME T # {} PROVE FALSE
    OBVIOUS
  <1>2. PICK x \in T : \A y \in T : ~(<<y, x>> \in Less)
    <2>1. T \subseteq Nat
      OBVIOUS
    <2> HIDE DEF T
    <2> QED BY ONLY <1>1, <2>1, LessIsWellFounded, WFMin
  <1>3. x # 0 /\ x \in Nat /\ x - 1 \in 0..(N - 1) /\ x \in 0..N /\ x \notin S
    OBVIOUS
  <1>4. x - 1 \in S
    <2>1. <<x - 1, x>> \in Less
      BY <1>3, LessIsLess
    <2> QED BY <1>2, <1>3, <2>1
  <1> QED BY <1>3, <1>4

LEMMA ScannedIs ==
  ASSUME NEW key, NEW text, Len(text) \in Nat, NEW value
  PROVE  LET st == ScannedOs(key, text, value)
         IN  /\ st[0] = Begin(value)
             /\ \A k \in 1..Len(text) : st[k] = OnceOs(key, st[k - 1], text[k])
  <1> DEFINE N == Len(text)
             F(g, n) == [k \in 0..n |-> IF k = 0 THEN Begin(value) ELSE OnceOs(key, g[k - 1], text[k])]
             S == {n \in 0..N : \E g : g = F(g, n)}
  <1>1. 0 \in S
    <2>1. [k \in 0..0 |-> Begin(value)] = F([k \in 0..0 |-> Begin(value)], 0)
      OBVIOUS
    <2> HIDE DEF F
    <2> QED BY <2>1
  <1>2. ASSUME NEW n \in 0..(N - 1), n \in S
        PROVE  n + 1 \in S
    <2>1. PICK g : g = F(g, n)
      BY <1>2
    <2> DEFINE h == [k \in 0..(n + 1) |-> IF k <= n THEN g[k] ELSE OnceOs(key, g[n], text[n + 1])]
    <2>2. h = F(h, n + 1)
      <3>1. ASSUME NEW k \in 0..(n + 1)
            PROVE  h[k] = IF k = 0 THEN Begin(value) ELSE OnceOs(key, h[k - 1], text[k])
        <4>1. CASE k <= n
          <5>1. g[k] = IF k = 0 THEN Begin(value) ELSE OnceOs(key, g[k - 1], text[k])
            BY <2>1, <4>1
          <5> QED BY <4>1, <5>1
        <4>2. CASE k = n + 1
          BY <4>2
        <4> QED BY <4>1, <4>2
      <3> QED BY <3>1
    <2> HIDE DEF h
    <2> QED BY <2>2
  <1>3. N \in S
    <2>1. \A n \in 0..(N - 1) : n \in S => n + 1 \in S
      BY <1>2
    <2>2. N \in Nat
      OBVIOUS
    <2> HIDE DEF S, N
    <2>3. \A n \in 0..N : n \in S
      BY <1>1, <2>1, <2>2, Counting
    <2> QED BY <2>2, <2>3
  <1>4. PICK g : g = F(g, N)
    BY <1>3
  <1>5. ScannedOs(key, text, value) = F(ScannedOs(key, text, value), N)
    BY <1>4 DEF ScannedOs
  <1> HIDE DEF F
  <1> QED BY <1>5 DEF F

-----------------------------------------------------------------------------
Token == Plain \cup Signs \cup {NUL}
\* The array value may also hold what the loader has not written.
Cell == Token \cup {"?"}
Record == [state : Nat, name : Seq(Token), value : Seq(Cell), v : Nat, found : BOOLEAN]
Machine == {s \in Record : s.state <= 5 /\ s.v <= Len(s.value)}

LEMMA PutIn ==
  ASSUME NEW value \in Seq(Cell), NEW k \in Nat, k <= Len(value), NEW c \in Cell
  PROVE  /\ PutAt(value, k, c) \in Seq(Cell)
         /\ Len(PutAt(value, k, c)) > k
         /\ PutAt(value, k, c)[k + 1] = c
         /\ \A n \in 1..k : PutAt(value, k, c)[n] = value[n]
  <1> DEFINE len == IF k < Len(value) THEN Len(value) ELSE k + 1
             new == [n \in 1..len |-> IF n = k + 1 THEN c ELSE value[n]]
  <1>1. len \in Nat /\ k + 1 <= len /\ \A n \in 1..len : n = k + 1 \/ n \in 1..Len(value)
    OBVIOUS
  <1>2. \A n \in 1..Len(value) : value[n] \in Cell
    OBVIOUS
  <1> HIDE DEF len
  <1>3. \A n \in 1..len : new[n] \in Cell
    BY <1>1, <1>2
  <1>4. new \in Seq(Cell) /\ Len(new) = len
    BY <1>1, <1>3
  <1>5. PutAt(value, k, c) = new
    BY DEF PutAt, len
  <1>6. new[k + 1] = c /\ \A n \in 1..k : new[n] = value[n]
    BY <1>1
  <1> HIDE DEF new
  <1> QED BY <1>1, <1>4, <1>5, <1>6

\* The signs differ from each other and from the words.
LEMMA SignsDiffer ==
  /\ Equals # Space /\ Equals # Newline /\ Equals # Hash
  /\ Space # Newline /\ Space # Hash /\ Newline # Hash
  /\ NUL \notin Signs
  BY DEF Signs, NUL, Equals, Space, Newline, Hash
LEMMA TokensDiffer ==
  /\ Plain \subseteq Token \ {NUL} /\ NUL \in Token
  /\ {Equals, Space, Newline, Hash} \subseteq Token \ {NUL}
  /\ Equals # Space /\ Equals # Newline /\ Equals # Hash
  /\ Space # Newline /\ Space # Hash /\ Newline # Hash
  /\ Equals \notin Plain /\ Space \notin Plain /\ Newline \notin Plain /\ Hash \notin Plain
  /\ \A c \in Token \ {NUL} : c \in Plain \/ c \in {Equals, Space, Newline, Hash}
  BY SignsDiffer DEF Plain, Token, Signs

\* What one character can do.
Goes(s, x) == [s EXCEPT !.state = x]
KeyGrows(s, c) == [s EXCEPT !.name = Append(s.name, c), !.state = 1]
ValueGrows(s, c) == [s EXCEPT !.value = PutAt(s.value, s.v, c), !.v = s.v + 1, !.state = 5]
LineEnds(s, key) == [s EXCEPT !.value = PutAt(s.value, s.v, NUL), !.state = 0, !.name = <<>>,
                              !.v = 0, !.found = s.name = <<key>>]

LEMMA CharacterIs ==
  ASSUME NEW key, NEW s \in Machine, ~s.found, NEW c \in Token \ {NUL}
  PROVE  LET next == CharacterOs(key, s, c)
         IN  /\ s.state \in {0, 1} /\ c \in Plain => next = KeyGrows(s, c)
             /\ s.state = 1 /\ c = Space => next = Goes(s, 2)
             /\ s.state \in {1, 2} /\ c = Equals => next = Goes(s, 3)
             /\ s.state = 3 /\ c = Space => next = Goes(s, 4)
             /\ s.state \in {3, 4, 5} /\ c \in Plain => next = ValueGrows(s, c)
             /\ s.state = 5 /\ c = Newline => next = LineEnds(s, key)
             /\ s.state \in {2, 4} /\ c = Space => next = s
  <1>1. c \in Plain <=> c \notin Signs
    BY TokensDiffer DEF Signs
  <1>2. s.state \in 0..5
    BY DEF Machine, Record
  <1>3. ~s.found
    OBVIOUS
  <1>4. [[s EXCEPT !.value = PutAt(s.value, s.v, NUL), !.state = 0, !.name = <<>>, !.v = 0]
          EXCEPT !.found = s.name = <<key>>] = LineEnds(s, key)
    BY DEF Machine, Record, LineEnds
  <1> DEFINE next == CharacterOs(key, s, c)
             k == s.state
  <1>5. next = CASE k \in {0, 1} /\ c \notin Signs -> KeyGrows(s, c)
                 [] k = 1 /\ c = Space -> Goes(s, 2)
                 [] k \in {1, 2} /\ c = Equals -> Goes(s, 3)
                 [] k = 3 /\ c = Space -> Goes(s, 4)
                 [] k \in {3, 4, 5} /\ c \notin Signs -> ValueGrows(s, c)
                 [] k = 5 /\ c = Newline -> LineEnds(s, key)
                 [] OTHER -> s
    BY <1>4, Zenon DEF CharacterOs, Goes, KeyGrows, ValueGrows
  <1> HIDE DEF next
  <1> QED BY ONLY <1>1, <1>2, <1>5, TokensDiffer DEF next

LEMMA FoundStays ==
  ASSUME NEW key, NEW s, s.found, NEW c
  PROVE  CharacterOs(key, s, c) = s
  BY DEF CharacterOs

Same(next, s) ==
  next \in Machine /\ next.found = s.found /\ next.name = s.name /\ next.v = s.v /\ next.value = s.value

LEMMA Going ==
  ASSUME NEW s \in Machine, NEW x \in 0..5
  PROVE  Same(Goes(s, x), s) /\ Goes(s, x).state = x
  <1>1. /\ Goes(s, x) \in Record /\ Goes(s, x).state = x /\ Goes(s, x).found = s.found
        /\ Goes(s, x).name = s.name /\ Goes(s, x).value = s.value /\ Goes(s, x).v = s.v
    BY DEF Goes, Machine, Record
  <1> QED BY <1>1 DEF Same, Machine

LEMMA GrowingKey ==
  ASSUME NEW s \in Machine, NEW c \in Token
  PROVE  LET next == KeyGrows(s, c)
         IN  /\ next \in Machine /\ next.found = s.found /\ next.state = 1
             /\ next.name = Append(s.name, c) /\ next.v = s.v /\ next.value = s.value
  <1> DEFINE name == Append(s.name, c)
             next == KeyGrows(s, c)
  <1>1. name \in Seq(Token)
    BY DEF Machine, Record
  <1>2. next = [s EXCEPT !.name = name, !.state = 1]
    BY DEF KeyGrows
  <1> HIDE DEF name, next
  <1>3. /\ next \in Record /\ next.state = 1 /\ next.found = s.found
        /\ next.name = name /\ next.value = s.value /\ next.v = s.v
    BY <1>1, <1>2 DEF Machine, Record
  <1>4. next \in Machine
    BY <1>3 DEF Machine
  <1> QED BY <1>3, <1>4 DEF next, name

LEMMA GrowingValue ==
  ASSUME NEW s \in Machine, NEW c \in Token
  PROVE  LET next == ValueGrows(s, c)
         IN  /\ next \in Machine /\ next.found = s.found /\ next.state = 5
             /\ next.name = s.name /\ next.v = s.v + 1 /\ next.value = PutAt(s.value, s.v, c)
  <1> DEFINE value == PutAt(s.value, s.v, c)
             v == s.v + 1
             next == ValueGrows(s, c)
  <1>1. value \in Seq(Cell) /\ Len(value) >= v /\ v \in Nat
    <2>1. s.value \in Seq(Cell) /\ c \in Cell /\ s.v \in Nat /\ s.v <= Len(s.value)
      BY DEF Machine, Record, Cell
    <2>2. value \in Seq(Cell) /\ Len(value) > s.v
      BY <2>1, PutIn
    <2> QED BY <2>1, <2>2
  <1>2. next = [s EXCEPT !.value = value, !.v = v, !.state = 5]
    BY DEF ValueGrows
  <1> HIDE DEF value, v, next
  <1>3. /\ next \in Record /\ next.state = 5 /\ next.found = s.found
        /\ next.name = s.name /\ next.value = value /\ next.v = v
    BY <1>1, <1>2 DEF Machine, Record
  <1>4. next \in Machine
    BY <1>1, <1>3 DEF Machine
  <1> QED BY <1>3, <1>4 DEF next, value, v

LEMMA EndingLine ==
  ASSUME NEW s \in Machine, NEW key
  PROVE  LET next == LineEnds(s, key)
         IN  /\ next \in Machine /\ next.state = 0 /\ next.name = <<>> /\ next.v = 0
             /\ next.found = (s.name = <<key>>) /\ next.value = PutAt(s.value, s.v, NUL)
  <1> DEFINE value == PutAt(s.value, s.v, NUL)
             found == s.name = <<key>>
             next == LineEnds(s, key)
  <1>1. value \in Seq(Cell) /\ <<>> \in Seq(Token)
    <2>1. s.value \in Seq(Cell) /\ s.v \in Nat /\ s.v <= Len(s.value) /\ NUL \in Cell
      BY DEF Machine, Record, Cell, Token
    <2> QED BY <2>1, PutIn
  <1>2. next = [s EXCEPT !.value = value, !.state = 0, !.name = <<>>, !.v = 0, !.found = found]
    BY DEF LineEnds
  <1>3. found \in BOOLEAN
    OBVIOUS
  <1> HIDE DEF value, found, next
  <1>4. /\ next \in Record /\ next.state = 0 /\ next.found = found
        /\ next.name = <<>> /\ next.value = value /\ next.v = 0
    BY <1>1, <1>2, <1>3 DEF Machine, Record
  <1>5. next \in Machine
    BY <1>1, <1>4 DEF Machine
  <1> QED BY <1>4, <1>5 DEF next, value, found

-----------------------------------------------------------------------------
LEMMA Dividing ==
  ASSUME NEW w \in Nat \ {0}, NEW N \in Nat \ {0}, NEW m \in Nat
  PROVE  /\ m \div w \in Nat /\ m % w \in 0..(w - 1) /\ m = w * (m \div w) + (m % w)
         /\ m <= (N - 1) * w => m \div w \in 0..(N - 1)
         /\ N - 1 \in Nat /\ (N - 1) * w \in Nat
  <1> DEFINE q == m \div w
             r == m % w
  <1>1. q \in Nat /\ r \in 0..(w - 1) /\ m = w * q + r
    OBVIOUS
  <1> HIDE DEF q, r
  <1>2. ASSUME m <= (N - 1) * w, q >= N PROVE FALSE
    <2>1. w * q >= w * N
      BY ONLY w \in Nat, <1>1, N \in Nat, <1>2
    <2>2. (N - 1) * w = w * N - w
      OBVIOUS
    <2> QED BY <1>1, <1>2, <2>1, <2>2
  <1>3. N - 1 \in Nat /\ (N - 1) * w \in Nat
    OBVIOUS
  <1> QED BY <1>1, <1>2, <1>3 DEF q, r

LEMMA LineIs ==
  ASSUME NEW line \in IniLine
  PROVE  /\ line.comment \in Seq(Plain \cup {Equals, Space, Hash}) /\ line.key \in Plain
         /\ line.eq \in Seq({Space, Equals}) /\ line.gap \in Seq({Space})
         /\ line.names \in Seq(Plain)
         /\ line.comment = <<>> \/ line.comment[1] = Hash
         /\ \E k \in DOMAIN line.eq : \A j \in DOMAIN line.eq : line.eq[j] = Equals <=> j = k
         /\ line.names # <<>>
         /\ line.gap # <<>> \/ Len(line.names) = 1
  BY DEF IniLine

LEMMA SpreadIs ==
  ASSUME NEW names \in Seq(Plain), names # <<>>, NEW gap \in Seq({Space})
  PROVE  LET s == Spread(names, gap)
             w == Len(gap) + 1
             N == Len(names)
         IN  /\ s \in Seq(Token) /\ Len(s) = (N - 1) * w + 1 /\ Len(s) \in Nat \ {0}
             /\ w \in Nat \ {0} /\ N \in Nat \ {0} /\ s[1] \in Plain
             /\ \A m \in 1..Len(s) :
                  IF (m - 1) % w = 0
                  THEN s[m] = names[((m - 1) \div w) + 1] /\ s[m] \in Plain
                  ELSE s[m] = Space
  <1> DEFINE s == Spread(names, gap)
             w == Len(gap) + 1
             N == Len(names)
             L == (N - 1) * w + 1
  <1>1. w \in Nat \ {0} /\ N \in Nat \ {0}
    OBVIOUS
  <1>2. L \in Nat \ {0}
    BY <1>1, Dividing
  <1>3. s = [m \in 1..L |-> IF (m - 1) % w = 0 THEN names[((m - 1) \div w) + 1]
                                                ELSE gap[(m - 1) % w]]
    BY DEF Spread
  <1>4. /\ \A k \in 1..N : names[k] \in Plain
        /\ \A k \in 1..(w - 1) : gap[k] = Space
    OBVIOUS
  <1> HIDE DEF s, w, N
  <1>5. ASSUME NEW m \in 1..L
        PROVE  IF (m - 1) % w = 0
               THEN s[m] = names[((m - 1) \div w) + 1] /\ s[m] \in Plain
               ELSE s[m] = Space
    <2>1. m - 1 \in Nat /\ m - 1 <= (N - 1) * w
      BY <1>1, <1>2
    <2>2. (m - 1) % w \in 0..(w - 1) /\ (m - 1) \div w \in 0..(N - 1)
      BY <1>1, <2>1, Dividing
    <2> HIDE DEF L
    <2> QED BY <1>1, <1>3, <1>4, <2>2
  <1>6. s \in Seq(Token) /\ Len(s) = L
    <2> HIDE DEF L
    <2>1. \A m \in 1..L : s[m] \in Token
      BY <1>5, TokensDiffer
    <2> QED BY <1>2, <1>3, <2>1
  <1>7. s[1] \in Plain
    <2>1. 1 \in 1..L /\ (1 - 1) % w = 0
      BY <1>1, <1>2
    <2> QED BY <1>5, <2>1
  <1> HIDE DEF L
  <1> QED BY <1>1, <1>2, <1>5, <1>6, <1>7 DEF s, w, N, L

LEMMA Joined ==
  ASSUME NEW set, NEW s \in Seq(set), NEW t \in Seq(set), NEW n, NEW e,
         n = Len(s), e = n + Len(t)
  PROVE  /\ s \o t \in Seq(set) /\ Len(s \o t) = e
         /\ \A k \in 1..n : (s \o t)[k] = s[k]
         /\ \A k \in (n + 1)..e : (s \o t)[k] = t[k - n]
  OBVIOUS

\* Where the parts of a line are in its text: the "=", the end of the space around
\* it, and the end of the line.
Mark(line) == CHOOSE k \in DOMAIN line.eq : \A j \in DOMAIN line.eq : line.eq[j] = Equals <=> j = k
Names(line) == Spread(line.names, line.gap)
KeyAt(line) == Len(line.comment) + 1
EqualsAt(line) == KeyAt(line) + Mark(line)
NamesAt(line) == KeyAt(line) + Len(line.eq)
EndAt(line) == NamesAt(line) + Len(Names(line)) + 1

LEMMA LineParts ==
  ASSUME NEW line \in IniLine
  PROVE  LET t == LineText(line)
             n == KeyAt(line)
             q == EqualsAt(line)
             f == NamesAt(line)
             e == EndAt(line)
         IN  /\ t \in Seq(Token) /\ Len(t) = e
             /\ n \in Nat \ {0} /\ q \in (n + 1)..f /\ f \in Nat /\ e \in Nat /\ f + 2 <= e
             /\ Len(line.comment) = n - 1 /\ Len(Names(line)) = e - f - 1
             /\ \A m \in 1..(n - 1) : t[m] = line.comment[m] /\ t[m] \in Plain \cup {Equals, Space, Hash}
             /\ t[n] = line.key
             /\ \A m \in (n + 1)..f : m # q => t[m] = Space
             /\ t[q] = Equals
             /\ \A m \in (f + 1)..(e - 1) : t[m] = Names(line)[m - f] /\ t[m] \in Plain \cup {Space}
             /\ t[f + 1] \in Plain
             /\ t[e] = Newline
  <1> DEFINE t == LineText(line)
             n == KeyAt(line)
             q == EqualsAt(line)
             f == NamesAt(line)
             e == EndAt(line)
             c == line.comment
             k == line.key
             a == line.eq
             S == Names(line)
  <1>1. /\ c \in Seq(Plain \cup {Equals, Space, Hash}) /\ k \in Plain /\ a \in Seq({Space, Equals})
        /\ c \in Seq(Token) /\ a \in Seq(Token) /\ k \in Token /\ Newline \in Token
    BY LineIs, TokensDiffer
  <1>2. /\ S \in Seq(Token) /\ Len(S) \in Nat \ {0} /\ S[1] \in Plain
        /\ \A m \in 1..Len(S) : S[m] \in Plain \cup {Space}
    BY LineIs, SpreadIs DEF Names
  <1>3. Mark(line) \in 1..Len(a) /\ \A j \in 1..Len(a) : a[j] = Equals <=> j = Mark(line)
    <2>1. /\ DOMAIN line.eq = 1..Len(line.eq)
          /\ \E j \in DOMAIN line.eq : \A i \in DOMAIN line.eq : line.eq[i] = Equals <=> i = j
      BY LineIs
    <2> QED BY ONLY <2>1 DEF Mark
  <1>4. t = c \o <<k>> \o a \o S \o <<Newline>>
    BY DEF LineText, Names
  <1>5. /\ n = Len(c) + 1 /\ q = n + Mark(line) /\ f = n + Len(a) /\ e = f + Len(S) + 1
    BY DEF KeyAt, EqualsAt, NamesAt, EndAt
  <1> HIDE DEF t, n, q, f, e, c, k, a, S
  <1>6. /\ Len(c) \in Nat /\ Len(a) \in Nat
        /\ n \in Nat \ {0} /\ q \in (n + 1)..f /\ f \in Nat /\ e \in Nat /\ f + 2 <= e
        /\ Len(c) = n - 1 /\ Len(S) = e - f - 1
    BY <1>1, <1>2, <1>3, <1>5
  <1>7. /\ c \o <<k>> \in Seq(Token) /\ Len(c \o <<k>>) = n
        /\ \A m \in 1..(n - 1) : (c \o <<k>>)[m] = c[m]
        /\ (c \o <<k>>)[n] = k
    BY <1>1, <1>5, <1>6
  <1> DEFINE u == c \o <<k>>
             v == u \o a
             w == v \o S
  <1>8. /\ v \in Seq(Token) /\ Len(v) = f
        /\ \A m \in 1..n : v[m] = u[m]
        /\ \A m \in (n + 1)..f : v[m] = a[m - n]
    <2> HIDE DEF u
    <2> QED BY <1>1, <1>5, <1>6, <1>7 DEF u
  <1>9. /\ w \in Seq(Token) /\ Len(w) = e - 1
        /\ \A m \in 1..f : w[m] = v[m]
        /\ \A m \in (f + 1)..(e - 1) : w[m] = S[m - f]
    <2>1. e - 1 = f + Len(S)
      BY <1>2, <1>6, <1>8
    <2> HIDE DEF v
    <2> QED BY ONLY <1>2, <1>8, <2>1, Joined
  <1>10. /\ t \in Seq(Token) /\ Len(t) = e
         /\ \A m \in 1..(e - 1) : t[m] = w[m]
         /\ t[e] = Newline
    <2> DEFINE x == <<Newline>>
    <2>1. x \in Seq(Token)
      BY <1>1
    <2>2. Len(x) = 1 /\ x[1] = Newline
      OBVIOUS
    <2>3. t = w \o x
      BY <1>4
    <2> HIDE DEF w, x
    <2> DEFINE d == e - 1
    <2>4. d = Len(w) /\ w \in Seq(Token) /\ e = d + Len(x)
      BY <1>6, <1>9, <2>2
    <2>5. d \in Nat /\ e \in (d + 1)..e /\ e - d = 1
      BY <1>6
    <2> HIDE DEF d
    <2>7. /\ t \in Seq(Token) /\ Len(t) = e
          /\ \A m \in 1..d : t[m] = w[m]
          /\ \A m \in (d + 1)..e : t[m] = x[m - d]
      <3>1. t \in Seq(Token)
        BY ONLY <2>1, <2>3, <2>4, Joined
      <3>2. Len(t) = e
        BY ONLY <2>1, <2>3, <2>4, Joined
      <3>3. \A m \in 1..d : t[m] = w[m]
        BY ONLY <2>1, <2>3, <2>4, Joined
      <3>4. \A m \in (d + 1)..e : t[m] = x[m - d]
        BY ONLY <2>1, <2>3, <2>4, Joined
      <3> QED BY <3>1, <3>2, <3>3, <3>4
    <2>6. t[e] = Newline
      BY ONLY <2>2, <2>5, <2>7
    <2> QED BY <2>6, <2>7 DEF d
  <1> HIDE DEF u, v, w
  <1>11. \A m \in 1..n : t[m] = u[m]
    <2> TAKE m \in 1..n
    <2>1. m \in 1..f /\ m \in 1..(e - 1)
      BY <1>6
    <2> QED BY <1>8, <1>9, <1>10, <2>1
  <1>12. \A m \in 1..(n - 1) : t[m] = c[m] /\ t[m] \in Plain \cup {Equals, Space, Hash}
    <2>1. \A m \in 1..(n - 1) : c[m] \in Plain \cup {Equals, Space, Hash}
      BY <1>1, <1>6
    <2> QED BY <1>6, <1>7, <1>11, <2>1 DEF u
  <1>13. t[n] = k
    BY <1>6, <1>7, <1>11 DEF u
  <1>14. \A m \in (n + 1)..f : t[m] = a[m - n]
    <2> TAKE m \in (n + 1)..f
    <2>1. m \in 1..f /\ m \in 1..(e - 1)
      BY <1>6
    <2> QED BY <1>8, <1>9, <1>10, <2>1
  <1>15. \A m \in (n + 1)..f : m # q => t[m] = Space
    <2> TAKE m \in (n + 1)..f
    <2>1. m - n \in 1..Len(a)
      BY <1>5, <1>6
    <2>2. a[m - n] \in {Space, Equals}
      BY <1>1, <2>1
    <2>3. m # q => m - n # Mark(line)
      BY <1>3, <1>5, <1>6
    <2>4. m # q => a[m - n] # Equals
      BY <1>3, <2>1, <2>3
    <2> QED BY <1>14, <2>2, <2>4
  <1>16. t[q] = Equals
    <2>1. q - n = Mark(line) /\ q - n \in 1..Len(a)
      BY <1>3, <1>5, <1>6
    <2>2. a[q - n] = Equals
      BY <1>3, <2>1
    <2> QED BY <1>6, <1>14, <2>2
  <1>17. \A m \in (f + 1)..(e - 1) : t[m] = S[m - f] /\ t[m] \in Plain \cup {Space}
    <2> TAKE m \in (f + 1)..(e - 1)
    <2>1. m - f \in 1..Len(S) /\ m \in 1..(e - 1)
      BY <1>6
    <2> QED BY <1>2, <1>9, <1>10, <2>1
  <1>18. t[f + 1] \in Plain
    <2>1. f + 1 \in (f + 1)..(e - 1) /\ (f + 1) - f = 1
      BY <1>6
    <2> QED BY <1>2, <1>17, <2>1
  <1> QED BY <1>6, <1>10, <1>12, <1>13, <1>15, <1>16, <1>17, <1>18 DEF t, n, q, f, e, c, k, a, S

LEMMA Appended ==
  ASSUME NEW set, NEW s \in Seq(set), NEW c \in set
  PROVE  /\ Append(s, c) # <<>>
         /\ s = <<>> => Append(s, c) = <<c>>
         /\ s # <<>> => Append(s, c)[1] = s[1]
  <1>1. Len(Append(s, c)) = Len(s) + 1 /\ Len(s) \in Nat
    OBVIOUS
  <1>2. Append(s, c) # <<>>
    BY <1>1
  <1>3. s = <<>> => Append(s, c) = <<c>>
    OBVIOUS
  <1>4. s # <<>> => Append(s, c)[1] = s[1]
    OBVIOUS
  <1> QED BY <1>2, <1>3, <1>4

\* What the machine does with a token, one by one.
KeyTaken(next, s, c) ==
  /\ next \in Machine /\ ~next.found /\ next.state = 1
  /\ next.v = s.v /\ next.value = s.value /\ next.name # <<>>
  /\ s.name = <<>> => next.name = <<c>>
  /\ s.name # <<>> => next.name[1] = s.name[1]
LEMMA KeyToken ==
  ASSUME NEW key, NEW s \in Machine, ~s.found, NEW c \in Token \ {NUL},
         s.state \in {0, 1}, c \in Plain, NEW next, next = CharacterOs(key, s, c)
  PROVE  KeyTaken(next, s, c)
  <1>1. next = KeyGrows(s, c)
    BY CharacterIs
  <1>2. /\ KeyGrows(s, c) \in Machine /\ KeyGrows(s, c).found = s.found /\ KeyGrows(s, c).state = 1
        /\ KeyGrows(s, c).name = Append(s.name, c) /\ KeyGrows(s, c).v = s.v
        /\ KeyGrows(s, c).value = s.value
    BY c \in Token, GrowingKey
  <1> DEFINE name == s.name
  <1>3. name \in Seq(Token) /\ c \in Token
    BY DEF Machine, Record
  <1> HIDE DEF name
  <1>4. /\ Append(name, c) # <<>>
        /\ name = <<>> => Append(name, c) = <<c>>
        /\ name # <<>> => Append(name, c)[1] = name[1]
    BY <1>3, Appended
  <1> QED BY ONLY <1>1, <1>2, <1>4, ~s.found DEF name, KeyTaken
LEMMA SpaceToken ==
  ASSUME NEW key, NEW s \in Machine, ~s.found, s.state \in 1..4, NEW next,
         next = CharacterOs(key, s, Space)
  PROVE  Same(next, s) /\ next.state = IF s.state <= 2 THEN 2 ELSE 4
  <1>1. Space \in Token \ {NUL} /\ Space \notin Plain /\ Space # Equals
    BY TokensDiffer
  <1>2. s.state = 1 => next = Goes(s, 2)
    BY <1>1, CharacterIs
  <1>3. s.state = 3 => next = Goes(s, 4)
    BY <1>1, CharacterIs
  <1>4. s.state \in {2, 4} => next = s
    BY <1>1, CharacterIs
  <1>5. Same(s, s) /\ (s.state \in {1, 2} \/ s.state \in {3, 4})
    BY DEF Same
  <1> QED BY <1>2, <1>3, <1>4, <1>5, Going
LEMMA EqualsToken ==
  ASSUME NEW key, NEW s \in Machine, ~s.found, s.state \in {1, 2}, NEW next,
         next = CharacterOs(key, s, Equals)
  PROVE  Same(next, s) /\ next.state = 3
  <1>1. Equals \in Token \ {NUL}
    BY TokensDiffer
  <1>2. next = Goes(s, 3)
    BY <1>1, CharacterIs
  <1> QED BY <1>2, Going
ValueTaken(next, s, c) ==
  /\ next \in Machine /\ ~next.found /\ next.state = 5
  /\ next.name = s.name /\ next.v = s.v + 1
  /\ Len(next.value) > s.v /\ next.value[s.v + 1] = c
  /\ \A j \in 1..s.v : next.value[j] = s.value[j]
LEMMA ValueToken ==
  ASSUME NEW key, NEW s \in Machine, ~s.found, NEW c \in Token \ {NUL}, NEW next,
         s.state \in {3, 4, 5}, c \in Plain, next = CharacterOs(key, s, c)
  PROVE  ValueTaken(next, s, c)
  <1>1. next = ValueGrows(s, c)
    BY CharacterIs
  <1>2. /\ ValueGrows(s, c) \in Machine /\ ValueGrows(s, c).found = s.found
        /\ ValueGrows(s, c).state = 5 /\ ValueGrows(s, c).name = s.name
        /\ ValueGrows(s, c).v = s.v + 1 /\ ValueGrows(s, c).value = PutAt(s.value, s.v, c)
    BY c \in Token, GrowingValue
  <1> DEFINE value == s.value
             v == s.v
  <1>3. value \in Seq(Cell) /\ v \in Nat /\ v <= Len(value) /\ c \in Cell
    BY DEF Machine, Record, Cell
  <1> HIDE DEF value, v
  <1>4. /\ Len(PutAt(value, v, c)) > v /\ PutAt(value, v, c)[v + 1] = c
        /\ \A j \in 1..v : PutAt(value, v, c)[j] = value[j]
    BY <1>3, PutIn
  <1> QED BY <1>1, <1>2, <1>4 DEF value, v, ValueTaken
LineTaken(next, s, key) ==
  /\ next \in Machine /\ next.state = 0 /\ next.name = <<>> /\ next.v = 0
  /\ next.found <=> s.name = <<key>>
  /\ Len(next.value) > s.v /\ next.value[s.v + 1] = NUL
  /\ \A j \in 1..s.v : next.value[j] = s.value[j]
LEMMA NewlineToken ==
  ASSUME NEW key, NEW s \in Machine, ~s.found, s.state = 5, NEW next,
         next = CharacterOs(key, s, Newline)
  PROVE  LineTaken(next, s, key)
  <1>1. Newline \in Token \ {NUL}
    BY TokensDiffer
  <1>2. next = LineEnds(s, key)
    BY <1>1, CharacterIs
  <1>3. /\ LineEnds(s, key) \in Machine /\ LineEnds(s, key).state = 0
        /\ LineEnds(s, key).name = <<>> /\ LineEnds(s, key).v = 0
        /\ LineEnds(s, key).found = (s.name = <<key>>)
        /\ LineEnds(s, key).value = PutAt(s.value, s.v, NUL)
    BY EndingLine
  <1> DEFINE value == s.value
             v == s.v
  <1>4. value \in Seq(Cell) /\ v \in Nat /\ v <= Len(value) /\ NUL \in Cell
    BY DEF Machine, Record, Cell, Token
  <1> HIDE DEF value, v
  <1>5. /\ Len(PutAt(value, v, NUL)) > v /\ PutAt(value, v, NUL)[v + 1] = NUL
        /\ \A j \in 1..v : PutAt(value, v, NUL)[j] = value[j]
    BY <1>4, PutIn
  <1> QED BY <1>2, <1>3, <1>5 DEF value, v, LineTaken
-----------------------------------------------------------------------------
Ready(s) == s \in Machine /\ ~s.found /\ s.state = 0 /\ s.name = <<>> /\ s.v = 0

\* The machine after m tokens, m > 0, of a line for key: "=" is its token q, the name
\* comes after token f.
InLine(key, q, f, name, m, s) ==
  /\ s \in Machine /\ ~s.found /\ s.name = <<key>>
  /\ \/ m \in 1..(q - 1) /\ s.state \in {1, 2} /\ s.v = 0
     \/ m \in q..f /\ s.state \in {3, 4} /\ s.v = 0
     \/ m = f + 1 /\ s.state = 5 /\ s.v = 1 /\ s.value[1] = name

LEMMA InLineStep ==
  ASSUME NEW k, NEW key, NEW f \in Nat, NEW q \in 2..f, NEW name \in Plain, NEW m \in 1..f,
         NEW s, InLine(k, q, f, name, m, s), NEW c \in Token \ {NUL},
         m + 1 = q => c = Equals,
         m + 1 <= f /\ m + 1 # q => c = Space,
         m = f => c = name,
         NEW next, next = CharacterOs(key, s, c)
  PROVE  InLine(k, q, f, name, m + 1, next)
  <1>1. s \in Machine /\ ~s.found /\ s.name = <<k>>
    BY DEF InLine
  <1>2. CASE m \in 1..(q - 1)
    <2>1. s.state \in {1, 2} /\ s.v = 0
      BY <1>2 DEF InLine
    <2>2. CASE m + 1 = q
      <3>1. Same(next, s) /\ next.state = 3
        BY <1>1, <2>1, <2>2, EqualsToken
      <3> QED BY <1>1, <1>2, <2>1, <2>2, <3>1 DEF Same, InLine
    <2>3. CASE m + 1 # q
      <3>1. Same(next, s) /\ next.state = 2
        BY <1>1, <1>2, <2>1, <2>3, SpaceToken
      <3> QED BY <1>1, <1>2, <2>1, <2>3, <3>1 DEF Same, InLine
    <2> QED BY <2>2, <2>3
  <1>3. CASE m \in q..(f - 1)
    <2>1. s.state \in {3, 4} /\ s.v = 0
      BY <1>3 DEF InLine
    <2>2. Same(next, s) /\ next.state = 4
      BY <1>1, <1>3, <2>1, SpaceToken
    <2> QED BY <1>1, <1>3, <2>1, <2>2 DEF Same, InLine
  <1>4. CASE m = f
    <2>1. s.state \in {3, 4} /\ s.v = 0
      BY <1>4 DEF InLine
    <2>2. c = name /\ c \in Plain
      BY <1>4
    <2>3. ValueTaken(next, s, c)
      BY <1>1, <2>1, <2>2, ValueToken
    <2>4. next.value[1] = name /\ next.v = 1
      BY <2>1, <2>2, <2>3 DEF ValueTaken
    <2> QED BY <1>1, <1>4, <2>3, <2>4 DEF InLine, ValueTaken
  <1> QED BY <1>2, <1>3, <1>4

\* The machine after the first line for its key.
Gives(name, s) ==
  /\ s \in Machine /\ s.found /\ Len(s.value) > 1
  /\ s.value[1] = name /\ s.value[2] = NUL

LEMMA LineEndStep ==
  ASSUME NEW k, NEW key, NEW f \in Nat, NEW q \in 2..f, NEW name \in Plain,
         NEW s, InLine(k, q, f, name, f + 1, s), NEW next, next = CharacterOs(key, s, Newline)
  PROVE  IF k = key THEN Gives(name, next) ELSE Ready(next)
  <1>1. /\ s \in Machine /\ ~s.found /\ s.name = <<k>> /\ s.state = 5 /\ s.v = 1
        /\ s.value[1] = name
    BY DEF InLine
  <1>2. /\ next \in Machine /\ next.state = 0 /\ next.name = <<>> /\ next.v = 0
        /\ next.found <=> s.name = <<key>>
        /\ Len(next.value) > s.v /\ next.value[s.v + 1] = NUL
        /\ \A j \in 1..s.v : next.value[j] = s.value[j]
    <2>1. LineTaken(next, s, key)
      BY ONLY <1>1, next = CharacterOs(key, s, Newline), NewlineToken
    <2> QED BY <2>1 DEF LineTaken
  <1>3. next.found <=> k = key
    BY <1>1, <1>2
  <1>4. CASE k = key
    BY <1>1, <1>2, <1>3, <1>4 DEF Gives
  <1>5. CASE k # key
    BY <1>2, <1>3, <1>5 DEF Ready
  <1> QED BY <1>4, <1>5

LEMMA LineTokens ==
  ASSUME NEW line \in IniLine, NEW m \in 1..(EndAt(line) - 1)
  PROVE  LineText(line)[m] \in Token \ {NUL} /\ LineText(line)[m] # Newline
  <1> DEFINE t == LineText(line)
             n == KeyAt(line)
             q == EqualsAt(line)
             f == NamesAt(line)
             e == EndAt(line)
  <1>1. /\ n \in Nat \ {0} /\ q \in (n + 1)..f /\ f \in Nat /\ e \in Nat /\ f + 2 <= e
        /\ \A k \in 1..(n - 1) : t[k] \in Plain \cup {Equals, Space, Hash}
        /\ t[n] \in Plain
        /\ \A k \in (n + 1)..f : k # q => t[k] = Space
        /\ t[q] = Equals
        /\ \A k \in (f + 1)..(e - 1) : t[k] \in Plain \cup {Space}
    BY LineParts, LineIs
  <1> HIDE DEF t, n, q, f, e
  <1>2. m \in 1..(n - 1) \/ m = n \/ m \in (n + 1)..f \/ m \in (f + 1)..(e - 1)
    BY <1>1 DEF e
  <1>3. t[m] \in Plain \cup {Equals, Space, Hash}
    BY <1>1, <1>2
  <1> QED BY <1>3, TokensDiffer DEF t

\* A line that the loader reads as it is meant: one name, no comment.
PlainLine(line) == line \in IniLine /\ line.comment = <<>> /\ Len(line.names) = 1

LEMMA OneName ==
  ASSUME NEW line, PlainLine(line)
  PROVE  /\ Len(Names(line)) = 1 /\ Names(line)[1] = line.names[1] /\ line.names[1] \in Plain
         /\ EndAt(line) = NamesAt(line) + 2
  <1> DEFINE N == Len(line.names)
             w == Len(line.gap) + 1
             S == Names(line)
  <1>1. line \in IniLine /\ N = 1
    BY DEF PlainLine
  <1>2. /\ Len(S) = (N - 1) * w + 1 /\ w \in Nat \ {0}
        /\ \A m \in 1..Len(S) :
             IF (m - 1) % w = 0
             THEN S[m] = line.names[((m - 1) \div w) + 1] /\ S[m] \in Plain
             ELSE S[m] = Space
    BY <1>1, LineIs, SpreadIs DEF Names
  <1> HIDE DEF N, w, S
  <1>3. Len(S) = 1
    BY <1>1, <1>2
  <1>4. S[1] = line.names[1] /\ S[1] \in Plain
    <2>1. 1 \in 1..Len(S) /\ 1 - 1 = 0
      BY <1>3
    <2>2. 0 % w = 0 /\ (0 \div w) + 1 = 1
      BY <1>2
    <2> QED BY <1>2, <2>1, <2>2
  <1>5. NamesAt(line) \in Nat
    BY <1>1, LineParts
  <1>6. EndAt(line) = NamesAt(line) + 2
    BY <1>3, <1>5 DEF EndAt, S
  <1> QED BY <1>3, <1>4, <1>6 DEF S

\* One line read to its end.
LEMMA LineRuns ==
  ASSUME NEW line, PlainLine(line), NEW key, NEW from \in Nat, NEW r,
         Ready(r[from]),
         \A k \in 1..EndAt(line) : r[from + k] = CharacterOs(key, r[from + k - 1], LineText(line)[k])
  PROVE  IF line.key = key THEN Gives(line.names[1], r[from + EndAt(line)])
                           ELSE Ready(r[from + EndAt(line)])
  <1> DEFINE t == LineText(line)
             q == EqualsAt(line)
             f == NamesAt(line)
             e == EndAt(line)
             name == line.names[1]
             k == line.key
             Good == {m \in 0..f : InLine(k, q, f, name, m + 1, r[from + m + 1])}
  <1>1. /\ q \in 2..f /\ f \in Nat /\ e = f + 2
        /\ t[1] = k /\ k \in Plain /\ name \in Plain
        /\ \A m \in 2..f : m # q => t[m] = Space
        /\ t[q] = Equals
        /\ t[f + 1] = name
        /\ t[e] = Newline
    <2> DEFINE n == KeyAt(line)
               S == Names(line)
    <2>1. n = 1 /\ line \in IniLine
      BY DEF KeyAt, PlainLine
    <2>2. Len(S) = 1 /\ S[1] = name /\ name \in Plain /\ e = f + 2
      BY OneName
    <2> HIDE DEF t, q, f, e, S, n, k, name
    <2>3. /\ q \in (n + 1)..f /\ f \in Nat /\ e \in Nat
          /\ t[n] = k
          /\ \A m \in (n + 1)..f : m # q => t[m] = Space
          /\ t[q] = Equals
          /\ \A m \in (f + 1)..(e - 1) : t[m] = S[m - f]
          /\ t[e] = Newline
      BY <2>1, LineParts DEF t, q, f, e, S, n, k
    <2>4. t[f + 1] = S[1]
      <3>1. f + 1 \in (f + 1)..(e - 1) /\ (f + 1) - f = 1
        BY <2>2, <2>3
      <3> QED BY <2>3, <3>1
    <2> QED BY <2>1, <2>2, <2>3, <2>4, LineIs DEF k
  <1>2. \A m \in 1..(f + 1) : t[m] \in Token \ {NUL}
    <2>1. line \in IniLine /\ e - 1 = f + 1
      BY <1>1 DEF PlainLine
    <2> QED BY <2>1, LineTokens
  <1>3. \A m \in 1..e : r[from + m] = CharacterOs(key, r[from + m - 1], t[m])
    OBVIOUS
  <1>4. /\ r[from] \in Machine /\ ~r[from].found /\ r[from].state = 0 /\ r[from].name = <<>>
        /\ r[from].v = 0
    BY DEF Ready
  <1> HIDE DEF t, q, f, e, name, k
  <1>5. 0 \in Good
    <2> DEFINE s == r[from]
               next == r[from + 1]
    <2>1. next = CharacterOs(key, s, k)
      <3>1. 1 \in 1..e /\ from + 1 - 1 = from
        BY <1>1
      <3> QED BY <1>1, <1>3, <3>1
    <2>2. s \in Machine /\ ~s.found /\ s.state = 0 /\ s.name = <<>> /\ s.v = 0
      BY <1>4
    <2>3. k \in Token \ {NUL} /\ k \in Plain
      BY <1>1, TokensDiffer
    <2> HIDE DEF s, next
    <2>4. KeyTaken(next, s, k)
      BY ONLY <2>1, <2>2, <2>3, KeyToken
    <2>5. next \in Machine /\ ~next.found /\ next.state = 1 /\ next.v = s.v
      BY <2>4 DEF KeyTaken
    <2>6. next.name = <<k>>
      BY <2>2, <2>4 DEF KeyTaken
    <2>7. 1 \in 1..(q - 1) /\ 0 \in 0..f
      BY <1>1
    <2>8. InLine(k, q, f, name, 1, next)
      BY <2>2, <2>5, <2>6, <2>7 DEF InLine
    <2> QED BY <2>7, <2>8 DEF next
  <1>6. ASSUME NEW m \in 0..(f - 1), m \in Good
        PROVE  m + 1 \in Good
    <2> DEFINE s == r[from + m + 1]
               next == r[from + m + 2]
               c == t[m + 2]
    <2>1. /\ m + 1 \in 1..f /\ m + 2 \in 1..(f + 1) /\ m + 1 \in 0..f /\ m + 2 \in 1..e
          /\ from + (m + 2) = from + m + 2 /\ from + (m + 2) - 1 = from + m + 1
          /\ (m + 1) + 1 = m + 2 /\ from + (m + 1) + 1 = from + m + 2
      <3>1. f \in Nat /\ m \in Nat /\ m + 1 <= f /\ e = f + 2
        BY <1>1
      <3> QED BY ONLY <3>1, from \in Nat
    <2>2. next = CharacterOs(key, s, c)
      BY <1>3, <2>1
    <2>3. c \in Token \ {NUL}
      BY <1>2, <2>1
    <2>4. /\ m + 2 = q => c = Equals
          /\ m + 2 <= f /\ m + 2 # q => c = Space
          /\ m + 1 = f => c = name
      <3> DEFINE y == m + 2
      <3>1. y \in Nat /\ y >= 2 /\ y = m + 2 /\ c = t[y] /\ m \in Nat /\ f \in Nat
        BY <1>1, <2>1
      <3> HIDE DEF y, c
      <3>2. y = q => c = Equals
        BY <1>1, <3>1
      <3>3. y <= f /\ y # q => c = Space
        BY <1>1, <3>1
      <3>4. m + 1 = f => c = name
        BY <1>1, <3>1
      <3> QED BY <3>1, <3>2, <3>3, <3>4
    <2>5. InLine(k, q, f, name, m + 1, s)
      BY <1>6
    <2> HIDE DEF s, next, c, Good
    <2> DEFINE x == m + 1
    <2>6. x \in 1..f /\ x + 1 = m + 2 /\ x = m + 1
      BY <2>1
    <2> HIDE DEF x
    <2>7. /\ x + 1 = q => c = Equals
          /\ x + 1 <= f /\ x + 1 # q => c = Space
          /\ x = f => c = name
          /\ InLine(k, q, f, name, x, s)
      BY ONLY <2>4, <2>5, <2>6
    <2>8. InLine(k, q, f, name, x + 1, next)
      BY ONLY <1>1, <2>2, <2>3, <2>6, <2>7, InLineStep
    <2> QED BY <2>1, <2>6, <2>8 DEF Good, next
  <1>7. InLine(k, q, f, name, f + 1, r[from + f + 1])
    <2>1. \A m \in 0..(f - 1) : m \in Good => m + 1 \in Good
      BY <1>6
    <2> HIDE DEF Good
    <2>2. f \in Good
      <3>1. \A m \in 0..f : m \in Good
        BY ONLY <1>1, <1>5, <2>1, Counting
      <3> QED BY <1>1, <3>1
    <2> QED BY <2>2 DEF Good
  <1>8. r[from + e] = CharacterOs(key, r[from + f + 1], Newline)
    <2>1. e \in 1..e /\ from + e - 1 = from + f + 1
      BY <1>1
    <2>2. r[from + e] = CharacterOs(key, r[from + e - 1], t[e])
      BY <1>3, <2>1
    <2> QED BY <1>1, <2>1, <2>2
  <1> HIDE DEF Good
  <1>9. IF k = key THEN Gives(name, r[from + e]) ELSE Ready(r[from + e])
    <2> DEFINE s == r[from + f + 1]
               next == r[from + e]
    <2>1. /\ next = CharacterOs(key, s, Newline) /\ InLine(k, q, f, name, f + 1, s)
          /\ f \in Nat /\ q \in 2..f /\ name \in Plain
      BY <1>1, <1>7, <1>8
    <2> HIDE DEF s, next
    <2>2. k = key => Gives(name, next)
      BY ONLY <2>1, LineEndStep
    <2>3. k # key => Ready(next)
      BY ONLY <2>1, LineEndStep
    <2> QED BY <2>2, <2>3 DEF next
  <1> QED BY <1>9 DEF k, name, e

-----------------------------------------------------------------------------
\* The text line by line.
LEMMA TextToIs ==
  ASSUME NEW ini \in Seq(IniLine)
  PROVE  /\ TextTo(ini, 0) = <<>>
         /\ \A k \in 1..Len(ini) : TextTo(ini, k) = TextTo(ini, k - 1) \o LineText(ini[k])
  <1> DEFINE N == Len(ini)
             Longer(s, k) == s \o LineText(ini[k])
             F(g, n) == [k \in 0..n |-> IF k = 0 THEN <<>> ELSE Longer(g[k - 1], k)]
             S == {n \in 0..N : \E g : g = F(g, n)}
             T == CHOOSE g : g = F(g, N)
  <1>7. \A k \in 0..N : TextTo(ini, k) = T[k]
    BY DEF TextTo
  <1> HIDE DEF Longer
  <1>1. 0 \in S
    <2>1. [k \in 0..0 |-> <<>>] = F([k \in 0..0 |-> <<>>], 0)
      OBVIOUS
    <2> HIDE DEF F
    <2> QED BY <2>1
  <1>2. ASSUME NEW n \in 0..(N - 1), n \in S
        PROVE  n + 1 \in S
    <2>1. PICK g : g = F(g, n)
      BY <1>2
    <2> DEFINE h == [k \in 0..(n + 1) |-> IF k <= n THEN g[k] ELSE Longer(g[n], n + 1)]
    <2>2. h = F(h, n + 1)
      <3>1. ASSUME NEW k \in 0..(n + 1)
            PROVE  h[k] = IF k = 0 THEN <<>> ELSE Longer(h[k - 1], k)
        <4>1. CASE k <= n
          <5>1. g[k] = IF k = 0 THEN <<>> ELSE Longer(g[k - 1], k)
            BY <2>1, <4>1
          <5> QED BY <4>1, <5>1
        <4>2. CASE k = n + 1
          BY <4>2
        <4> QED BY <4>1, <4>2
      <3> QED BY <3>1
    <2> HIDE DEF h
    <2> QED BY <2>2
  <1>3. N \in S
    <2>1. \A n \in 0..(N - 1) : n \in S => n + 1 \in S
      BY <1>2
    <2>2. N \in Nat
      OBVIOUS
    <2> HIDE DEF S, N
    <2>3. \A n \in 0..N : n \in S
      BY <1>1, <2>1, <2>2, Counting
    <2> QED BY <2>2, <2>3
  <1>4. T = F(T, N)
    <2>1. PICK g : g = F(g, N)
      BY <1>3
    <2> HIDE DEF F
    <2> QED BY <2>1
  <1>5. T[0] = <<>> /\ \A k \in 1..N : T[k] = Longer(T[k - 1], k)
    <2> HIDE DEF T
    <2>1. N \in Nat
      OBVIOUS
    <2> QED BY <1>4, <2>1
  <1> HIDE DEF T, F, S
  <1>6. /\ TextTo(ini, 0) = <<>>
        /\ \A k \in 1..N : TextTo(ini, k) = Longer(TextTo(ini, k - 1), k)
    <2>1. 0 \in 0..N /\ \A k \in 1..N : k \in 0..N /\ k - 1 \in 0..N
      OBVIOUS
    <2> HIDE DEF N
    <2> QED BY <1>7, <1>5, <2>1
  <1> QED BY <1>6, Zenon DEF Longer

LEMMA TextIs ==
  ASSUME NEW ini \in Seq(IniLine)
  PROVE  \A k \in 0..Len(ini) : TextTo(ini, k) \in Seq(Token)
  <1> DEFINE N == Len(ini)
             S == {k \in 0..N : TextTo(ini, k) \in Seq(Token)}
  <1>1. N \in Nat /\ 0 \in S
    <2>1. TextTo(ini, 0) = <<>>
      BY TextToIs
    <2>2. <<>> \in Seq(Token) /\ N \in Nat /\ 0 \in 0..N
      OBVIOUS
    <2> HIDE DEF N
    <2> QED BY <2>1, <2>2
  <1>2. ASSUME NEW k \in 0..(N - 1), k \in S PROVE k + 1 \in S
    <2>1. k + 1 \in 1..N /\ ini[k + 1] \in IniLine /\ (k + 1) - 1 = k
      OBVIOUS
    <2>2. LineText(ini[k + 1]) \in Seq(Token)
      BY <2>1, LineParts
    <2>3. TextTo(ini, k + 1) = TextTo(ini, k) \o LineText(ini[k + 1])
      <3> HIDE DEF S
      <3> QED BY <2>1, TextToIs
    <2>4. TextTo(ini, k) \in Seq(Token)
      BY <1>2
    <2>5. TextTo(ini, k + 1) \in Seq(Token)
      <3> DEFINE t == TextTo(ini, k)
                 u == LineText(ini[k + 1])
      <3>1. t \in Seq(Token) /\ u \in Seq(Token) /\ TextTo(ini, k + 1) = t \o u
        BY <2>2, <2>3, <2>4
      <3> HIDE DEF t, u
      <3>2. t \o u \in Seq(Token)
        BY ONLY <3>1
      <3> QED BY <3>1, <3>2
    <2> QED BY <2>1, <2>5
  <1>3. \A k \in 0..(N - 1) : k \in S => k + 1 \in S
    BY <1>2
  <1> HIDE DEF S, N
  <1>4. \A k \in 0..N : k \in S
    BY <1>1, <1>3, Counting
  <1> QED BY <1>4 DEF S, N

\* Where a line is in the text.
LEMMA LinePlace ==
  ASSUME NEW ini \in Seq(IniLine), NEW k \in 1..Len(ini)
  PROVE  LET from == Len(TextTo(ini, k - 1))
             e == EndAt(ini[k])
             t == TextTo(ini, k)
         IN  /\ ini[k] \in IniLine /\ from \in Nat /\ e \in Nat /\ Len(t) = from + e
             /\ \A j \in 1..from : t[j] = TextTo(ini, k - 1)[j]
             /\ \A m \in 1..e : t[from + m] = LineText(ini[k])[m]
  <1> DEFINE s == TextTo(ini, k - 1)
             u == LineText(ini[k])
             e == EndAt(ini[k])
             t == TextTo(ini, k)
             n == Len(s)
             z == n + e
  <1>1. ini[k] \in IniLine /\ k - 1 \in 0..Len(ini)
    OBVIOUS
  <1>2. u \in Seq(Token) /\ Len(u) = e /\ e \in Nat
    BY <1>1, LineParts
  <1>3. s \in Seq(Token)
    BY <1>1, TextIs
  <1>4. t = s \o u
    BY TextToIs
  <1> HIDE DEF s, u, e, t
  <1>5. n \in Nat /\ z \in Nat /\ n = Len(s) /\ z = n + Len(u)
    BY <1>2, <1>3
  <1> HIDE DEF n, z
  <1>6. /\ Len(t) = z
        /\ \A j \in 1..n : t[j] = s[j]
        /\ \A j \in (n + 1)..z : t[j] = u[j - n]
    <2>1. Len(t) = z
      BY ONLY <1>2, <1>3, <1>4, <1>5, Joined
    <2>2. \A j \in 1..n : t[j] = s[j]
      BY ONLY <1>2, <1>3, <1>4, <1>5, Joined
    <2>3. \A j \in (n + 1)..z : t[j] = u[j - n]
      BY ONLY <1>2, <1>3, <1>4, <1>5, Joined
    <2> QED BY <2>1, <2>2, <2>3
  <1>7. \A m \in 1..e : t[n + m] = u[m]
    <2> TAKE m \in 1..e
    <2>1. n + m \in (n + 1)..z /\ (n + m) - n = m
      BY <1>2, <1>5
    <2> QED BY <1>6, <2>1
  <1> QED BY <1>1, <1>2, <1>5, <1>6, <1>7 DEF s, u, e, t, n, z

\* A text that begins with the first ini.
BeginsWith(text, start) == Len(start) <= Len(text) /\ \A j \in 1..Len(start) : text[j] = start[j]

LEMMA TextGrows ==
  ASSUME NEW ini \in Seq(IniLine), NEW n \in 0..Len(ini), NEW text,
         Len(text) \in Nat, BeginsWith(text, TextTo(ini, n))
  PROVE  \A k \in 0..n : BeginsWith(text, TextTo(ini, k))
  <1> DEFINE S == {d \in 0..n : BeginsWith(text, TextTo(ini, n - d))}
  <1>1. n \in Nat /\ 0 \in S
    OBVIOUS
  <1>2. ASSUME NEW d \in 0..(n - 1), d \in S PROVE d + 1 \in S
    <2> DEFINE k == n - d
               s == TextTo(ini, k - 1)
               t == TextTo(ini, k)
               e == EndAt(ini[k])
    <2>1. k \in 1..Len(ini) /\ k - 1 = n - (d + 1) /\ d + 1 \in 0..n
      OBVIOUS
    <2>2. Len(s) \in Nat /\ e \in Nat /\ Len(t) = Len(s) + e /\ \A j \in 1..Len(s) : t[j] = s[j]
      <3> HIDE DEF k
      <3> QED BY <2>1, LinePlace
    <2>3. Len(t) <= Len(text) /\ \A j \in 1..Len(t) : text[j] = t[j]
      BY <1>2 DEF BeginsWith
    <2> HIDE DEF s, t, e, k
    <2>4. BeginsWith(text, s)
      BY <2>2, <2>3 DEF BeginsWith
    <2> QED BY <2>1, <2>4 DEF s
  <1>3. \A d \in 0..(n - 1) : d \in S => d + 1 \in S
    BY <1>2
  <1>4. \A d \in 0..n : d \in S
    <2> HIDE DEF S
    <2> QED BY <1>1, <1>3, Counting
  <1> TAKE k \in 0..n
  <1>5. n - k \in 0..n /\ n - (n - k) = k
    OBVIOUS
  <1>6. n - k \in S
    <2> HIDE DEF S
    <2> QED BY <1>4, <1>5
  <1> QED BY <1>5, <1>6

\* What the machine holds at the end of a text that begins with the ini up to the
\* first for its key.
LEMMA KeyIsFound ==
  ASSUME NEW ini \in Seq(IniLine), NEW key, NEW K \in DOMAIN ini, IsFor(key, ini[K]),
         \A k \in DOMAIN ini : PlainLine(ini[k]),
         \A m \in 1..(K - 1) : ~IsFor(key, ini[m]),
         NEW text, Len(text) \in Nat, BeginsWith(text, TextTo(ini, K)),
         NEW value \in Seq(Cell)
  PROVE  Gives(ini[K].names[1], ScannedOs(key, text, value)[Len(text)])
  <1> DEFINE R == ScannedOs(key, text, value)
             L == Len(text)
             At(k) == Len(TextTo(ini, k))
             S == {k \in 0..(K - 1) : Ready(R[At(k)])}
  <1>1. K \in 1..Len(ini) /\ K \in Nat /\ ini[K] \in IniLine /\ Len(ini) \in Nat
    OBVIOUS
  <1>2. ini[K].key = key
    BY DEF IsFor
  <1>3. R[0] = Begin(value) /\ \A k \in 1..L : R[k] = CharacterOs(key, R[k - 1], text[k])
    <2>1. R[0] = Begin(value) /\ \A k \in 1..L : R[k] = OnceOs(key, R[k - 1], text[k])
      BY ScannedIs
    <2>2. \A st, c : OnceOs(key, st, c) = CharacterOs(key, st, c)
      <3> TAKE st, c
      <3>1. {CharacterOs(key, now, c) : now \in {st}} = {CharacterOs(key, st, c)}
        OBVIOUS
      <3> QED BY <3>1 DEF OnceOs
    <2> HIDE DEF R
    <2> QED BY <2>1, <2>2
  <1>4. \A k \in 0..K : BeginsWith(text, TextTo(ini, k))
    BY <1>1, TextGrows
  <1>5. ASSUME NEW k \in 1..K
        PROVE  /\ ini[k] \in IniLine /\ At(k - 1) \in Nat /\ EndAt(ini[k]) \in Nat
               /\ At(k) = At(k - 1) + EndAt(ini[k]) /\ At(k) \in 0..L
               /\ \A m \in 1..EndAt(ini[k]) :
                    R[At(k - 1) + m] = CharacterOs(key, R[At(k - 1) + m - 1], LineText(ini[k])[m])
    <2>1. k \in 1..Len(ini)
      BY <1>1
    <2>2. /\ ini[k] \in IniLine /\ At(k - 1) \in Nat /\ EndAt(ini[k]) \in Nat
          /\ At(k) = At(k - 1) + EndAt(ini[k])
          /\ \A m \in 1..EndAt(ini[k]) :
               TextTo(ini, k)[At(k - 1) + m] = LineText(ini[k])[m]
      BY <2>1, LinePlace
    <2>3. At(k) <= L /\ \A j \in 1..At(k) : text[j] = TextTo(ini, k)[j]
      <3>1. k \in 0..K
        BY <1>1
      <3>2. BeginsWith(text, TextTo(ini, k))
        BY <1>4, <3>1
      <3> QED BY <3>2 DEF BeginsWith
    <2> HIDE DEF R, L
    <2> DEFINE from == At(k - 1)
               e == EndAt(ini[k])
               to == At(k)
               t == TextTo(ini, k)
               u == LineText(ini[k])
    <2>4. /\ from \in Nat /\ e \in Nat /\ to = from + e /\ to <= L /\ L \in Nat
          /\ \A m \in 1..e : t[from + m] = u[m]
          /\ \A j \in 1..to : text[j] = t[j]
      BY <2>2, <2>3 DEF L
    <2> HIDE DEF from, e, to, t, u
    <2>5. ASSUME NEW m \in 1..e
          PROVE  R[from + m] = CharacterOs(key, R[from + m - 1], u[m])
      <3>1. from + m \in 1..L /\ from + m \in 1..to
        BY <2>4
      <3>2. text[from + m] = u[m]
        BY <2>4, <3>1
      <3>3. R[from + m] = CharacterOs(key, R[from + m - 1], text[from + m])
        <4> DEFINE y == from + m
        <4>1. y \in 1..L
          BY <3>1
        <4> HIDE DEF y
        <4>2. R[y] = CharacterOs(key, R[y - 1], text[y])
          BY ONLY <1>3, <4>1
        <4>3. y - 1 = from + m - 1
          BY <2>4 DEF y
        <4> QED BY ONLY <4>2, <4>3 DEF y
      <3> QED BY <3>2, <3>3
    <2> QED BY <2>2, <2>4, <2>5 DEF from, e, to, u, t
  <1>6. 0 \in S
    <2>1. At(0) = 0
      BY TextToIs
    <2>2. Begin(value) \in Machine
      BY DEF Begin, Machine, Record
    <2>3. Ready(Begin(value))
      BY <2>2 DEF Ready, Begin
    <2>4. 0 \in 0..(K - 1)
      BY <1>1
    <2> HIDE DEF R, At
    <2> QED BY <1>3, <2>1, <2>3, <2>4
  <1> HIDE DEF R, L, At
  <1>7. ASSUME NEW n \in 0..((K - 1) - 1), n \in S PROVE n + 1 \in S
    <2> DEFINE k == n + 1
               line == ini[k]
               from == At(n)
    <2>1. k \in 1..K /\ k \in 1..(K - 1) /\ k - 1 = n /\ k \in 0..(K - 1)
      BY <1>1
    <2>2. line.key # key /\ PlainLine(line)
      <3>1. ~IsFor(key, line) /\ k \in DOMAIN ini
        BY <1>1, <2>1
      <3>2. PlainLine(line)
        BY <3>1
      <3> QED BY <3>1, <3>2 DEF IsFor, PlainLine
    <2>3. Ready(R[from])
      BY <1>7
    <2> HIDE DEF k
    <2>4. /\ line \in IniLine /\ from \in Nat /\ At(k) = from + EndAt(line)
          /\ \A m \in 1..EndAt(line) :
               R[from + m] = CharacterOs(key, R[from + m - 1], LineText(line)[m])
      BY <1>5, <2>1
    <2> HIDE DEF line, from, S
    <2>5. Ready(R[from + EndAt(line)])
      BY ONLY <2>2, <2>3, <2>4, LineRuns
    <2> QED BY <2>1, <2>4, <2>5 DEF S, k
  <1>8. Ready(R[At(K - 1)])
    <2> DEFINE N == K - 1
    <2>1. N \in Nat
      BY <1>1
    <2>2. \A n \in 0..(N - 1) : n \in S => n + 1 \in S
      BY <1>7
    <2> HIDE DEF N, S
    <2>3. \A n \in 0..N : n \in S
      BY ONLY <1>6, <2>1, <2>2, Counting
    <2> QED BY <2>1, <2>3 DEF S, N
  <1> HIDE DEF S
  <1>9. Gives(ini[K].names[1], R[At(K)]) /\ At(K) \in 0..L
    <2> DEFINE line == ini[K]
               from == At(K - 1)
    <2>1. K \in 1..K
      BY <1>1
    <2>2. /\ line \in IniLine /\ from \in Nat /\ At(K) = from + EndAt(line) /\ At(K) \in 0..L
          /\ \A m \in 1..EndAt(line) :
               R[from + m] = CharacterOs(key, R[from + m - 1], LineText(line)[m])
      BY <1>5, <2>1
    <2>3. PlainLine(line) /\ line.key = key /\ Ready(R[from])
      BY <1>2, <1>8
    <2> HIDE DEF line, from
    <2>4. Gives(line.names[1], R[from + EndAt(line)])
      BY ONLY <2>2, <2>3, LineRuns
    <2> QED BY <2>2, <2>4 DEF line
  <1>10. R[L] = R[At(K)]
    <2> DEFINE p == At(K)
               N == L - p
               Still == {d \in 0..N : R[p + d] = R[p]}
    <2>1. p \in Nat /\ N \in Nat /\ L = p + N /\ p + 0 = p /\ R[p].found
      BY <1>9 DEF L, Gives
    <2> HIDE DEF p, N
    <2>2. 0 \in Still
      BY <2>1
    <2>3. ASSUME NEW d \in 0..(N - 1), d \in Still PROVE d + 1 \in Still
      <3>1. p + d + 1 \in 1..L /\ (p + d + 1) - 1 = p + d /\ d + 1 \in 0..N /\ p + (d + 1) = p + d + 1
        BY <2>1
      <3>2. R[p + d + 1] = CharacterOs(key, R[p + d], text[p + d + 1])
        BY <1>3, <3>1
      <3>3. R[p + d] = R[p]
        BY <2>3
      <3>4. R[p + d + 1] = R[p]
        BY <2>1, <3>2, <3>3, FoundStays
      <3> QED BY <3>1, <3>4
    <2>4. \A d \in 0..(N - 1) : d \in Still => d + 1 \in Still
      BY <2>3
    <2> HIDE DEF Still
    <2>5. N \in Still
      <3>1. \A d \in 0..N : d \in Still
        BY ONLY <2>1, <2>2, <2>4, Counting
      <3> QED BY <2>1, <3>1
    <2> QED BY <2>1, <2>5 DEF Still, p
  <1> QED BY <1>9, <1>10 DEF R, L

LEMMA OneToken ==
  ASSUME NEW set, NEW s \in Seq(set), NEW k \in 1..Len(s)
  PROVE  SubSeq(s, k, k) = <<s[k]>>
  <1> DEFINE one == SubSeq(s, k, k)
  <1>1. k \in Int /\ \A i \in k..k : s[i] \in set
    OBVIOUS
  <1>2. one \in Seq(set)
    BY <1>1, SubSeqProperties
  <1>3. Len(one) = 1
    BY <1>1, SubSeqProperties
  <1>4. one[1] = s[k]
    <2>1. \A i \in 1..(k - k + 1) : one[i] = s[k + i - 1]
      BY <1>1, SubSeqProperties
    <2> HIDE DEF one
    <2>2. 1 \in 1..(k - k + 1) /\ k + 1 - 1 = k
      BY <1>1
    <2> QED BY <2>1, <2>2
  <1> HIDE DEF one
  <1>5. one = <<one[1]>>
    BY <1>2, <1>3
  <1> QED BY <1>4, <1>5 DEF one

\* The string in the array is the name.
LEMMA ContentIs ==
  ASSUME NEW name, name # NUL, NEW s, Gives(name, s)
  PROVE  Content(s.value) = <<name>>
  <1> DEFINE value == s.value
  <1>1. /\ value \in Seq(Cell) /\ Len(value) > 1 /\ Len(value) \in Nat
        /\ value[1] = name /\ value[2] = NUL
    BY DEF Gives, Machine, Record
  <1> HIDE DEF value
  <1>2. StringOf(value) = 2
    <2> DEFINE I == {j \in 1..Len(value) : value[j] = NUL}
    <2>1. StringOf(value) = IF I # {} THEN Min(I) ELSE 0
      BY DEF StringOf, SelectInSeq
    <2>2. 2 \in I /\ \A y \in I : y \in Nat /\ 2 <= y
      BY <1>1
    <2> HIDE DEF I
    <2>3. Min(I) = 2
      BY <2>2 DEF Min
    <2> QED BY <2>1, <2>2, <2>3
  <1>3. Content(value) = SubSeq(value, 1, 1)
    BY <1>2 DEF Content
  <1>4. SubSeq(value, 1, 1) = <<name>>
    <2>1. 1 \in 1..Len(value)
      BY <1>1
    <2> QED BY <1>1, <2>1, OneToken
  <1> QED BY <1>3, <1>4 DEF value

\* What is read of boot.ini begins with the lines that fit ini_buf.
LEMMA BufferBegins ==
  ASSUME NEW ini \in Seq(IniLine), NEW tail \in Seq(STRING), NEW k \in 0..Len(ini),
         Len(TextTo(ini, k)) <= IniBytes
  PROVE  LET text == IniBuffer(ini, IniRead(ini), tail)
         IN  Len(text) \in Nat /\ BeginsWith(text, TextTo(ini, k))
  <1> DEFINE all == Text(ini)
             n == IniRead(ini)
             part == SubSeq(all, 1, n)
             text == IniBuffer(ini, n, tail)
             start == TextTo(ini, k)
  <1>1. all \in Seq(Token) /\ Len(all) \in Nat
    <2>1. Len(ini) \in 0..Len(ini)
      OBVIOUS
    <2>2. all \in Seq(Token)
      BY <2>1, TextIs DEF Text
    <2> HIDE DEF all
    <2> QED BY <2>2
  <1>2. start \in Seq(Token) /\ Len(start) \in Nat
    <2>1. start \in Seq(Token)
      BY TextIs
    <2> HIDE DEF start
    <2> QED BY <2>1
  <1>3. BeginsWith(all, start)
    <2>1. Len(ini) \in 0..Len(ini) /\ BeginsWith(all, all) /\ all = TextTo(ini, Len(ini))
      BY <1>1 DEF BeginsWith, Text
    <2> HIDE DEF all, start
    <2>2. \A j \in 0..Len(ini) : BeginsWith(all, TextTo(ini, j))
      BY <1>1, <2>1, TextGrows
    <2> QED BY <2>2 DEF start
  <1>4. n \in Nat /\ n <= Len(all) /\ Len(start) <= n
    <2>1. Len(start) <= Len(all)
      BY <1>3 DEF BeginsWith
    <2>2. n = IF Len(all) < IniBytes THEN Len(all) ELSE IniBytes
      BY DEF IniRead, Least
    <2> HIDE DEF all, n, start
    <2> QED BY <1>1, <1>2, <2>1, <2>2, IniAssumption DEF start
  <1> HIDE DEF all, n, start
  <1> DEFINE set == Token \cup STRING
  <1>5. /\ part \in Seq(set) /\ tail \in Seq(set) /\ Len(part) = n
        /\ \A j \in 1..n : part[j] = all[j]
    <2>1. tail \in Seq(set)
      OBVIOUS
    <2>2. \A i \in 1..n : all[i] \in set
      BY <1>1, <1>4
    <2> HIDE DEF set
    <2>3. part \in Seq(set)
      BY <1>4, <2>2, SubSeqProperties
    <2>4. Len(part) = n
      BY <1>4, SubSeqProperties
    <2>5. \A j \in 1..(n - 1 + 1) : part[j] = all[1 + j - 1]
      BY <1>4, SubSeqProperties
    <2>6. \A j \in 1..n : j \in 1..(n - 1 + 1) /\ 1 + j - 1 = j
      BY <1>4
    <2> HIDE DEF part
    <2> QED BY <2>1, <2>3, <2>4, <2>5, <2>6
  <1>6. text = part \o tail
    BY DEF IniBuffer, all
  <1> HIDE DEF part, text, set
  <1> DEFINE z == n + Len(tail)
  <1>7. z \in Nat
    BY <1>4
  <1>8. /\ Len(part \o tail) = z
        /\ \A j \in 1..n : (part \o tail)[j] = part[j]
    <2>1. n = Len(part) /\ z = n + Len(tail)
      BY <1>5
    <2> HIDE DEF z
    <2>2. Len(part \o tail) = z
      BY ONLY <1>5, <2>1, Joined
    <2>3. \A j \in 1..n : (part \o tail)[j] = part[j]
      BY ONLY <1>5, <2>1, Joined
    <2> QED BY <2>2, <2>3
  <1>9. Len(text) = z /\ n <= z /\ \A j \in 1..n : text[j] = all[j]
    BY <1>4, <1>5, <1>6, <1>8
  <1> HIDE DEF z
  <1>10. BeginsWith(text, start)
    <2>1. \A j \in 1..Len(start) : j \in 1..n
      BY <1>2, <1>4
    <2>2. \A j \in 1..Len(start) : all[j] = start[j]
      BY <1>3 DEF BeginsWith
    <2> QED BY <1>2, <1>4, <1>7, <1>9, <2>1, <2>2 DEF BeginsWith
  <1> QED BY <1>7, <1>9, <1>10 DEF text, n, start

\* What boot.ini says is what get_key_value finds, whatever lies behind the text in
\* ini_buf.
LEMMA IniIsRead ==
  ASSUME NEW ini \in Inis, NEW tail \in StackTails, NamesOs(ini)
  PROVE  Content(get_key_value_os("OS", IniBuffer(ini, IniRead(ini), tail), <<"?">>)) = <<OsName>>
  <1> DEFINE key == "OS"
             IsFirst(k) == IsFor(key, ini[k]) /\ \A m \in 1..(k - 1) : ~IsFor(key, ini[m])
             K == CHOOSE k \in DOMAIN ini : IsFirst(k)
             N == Len(ini)
             text == IniBuffer(ini, IniRead(ini), tail)
             value == <<"?">>
  <1>1. ini \in Seq(IniLine) /\ N \in Nat /\ DOMAIN ini = 1..N /\ tail \in Seq(STRING)
    BY IniAssumption
  <1>2. \A k \in DOMAIN ini : PlainLine(ini[k])
    BY <1>1 DEF NamesOs, PlainIni, PlainLine
  <1>3. \A k \in DOMAIN ini : IsFor(key, ini[k]) <=> k \in OsLines(ini)
    BY <1>2 DEF IsFor, OsLines, PlainLine
  <1>4. \E k \in DOMAIN ini : IsFirst(k)
    <2> DEFINE T == {n \in 1..N : IsFor(key, ini[n])}
    <2>1. T # {} /\ T \subseteq Nat
      BY <1>1, <1>3 DEF NamesOs, PlainIni, OsLines
    <2>2. PICK x \in T : \A y \in T : ~(<<y, x>> \in Less)
      <3> HIDE DEF T
      <3> QED BY ONLY <2>1, LessIsWellFounded, WFMin
    <2>3. ASSUME NEW m \in 1..(x - 1) PROVE ~IsFor(key, ini[m])
      <3>1. m \in Nat /\ x \in Nat /\ m < x /\ m \in 1..N
        BY <1>1
      <3>2. <<m, x>> \in Less
        BY <3>1, LessIsLess
      <3> QED BY <2>2, <3>1, <3>2
    <2> QED BY <1>1, <2>3
  <1>5. K \in DOMAIN ini /\ IsFirst(K)
    BY <1>4
  <1>6. Named(key, ini) = ini[K].names
    BY DEF Named
  <1> HIDE DEF K
  <1>7. ini[K].names[1] = OsName
    BY <1>6 DEF NamesOs
  <1>8. K \in 0..N /\ Len(TextTo(ini, K)) <= IniBytes
    BY <1>1, <1>3, <1>5 DEF NamesOs, PlainIni
  <1>9. Len(text) \in Nat /\ BeginsWith(text, TextTo(ini, K))
    <2> HIDE DEF text
    <2> QED BY <1>1, <1>8, BufferBegins DEF text
  <1>10. value \in Seq(Cell)
    BY DEF Cell
  <1> HIDE DEF text, value, N, key
  <1> DEFINE s == ScannedOs(key, text, value)[Len(text)]
  <1>11. Gives(ini[K].names[1], s)
    <2> HIDE DEF s
    <2> QED BY <1>1, <1>2, <1>5, <1>9, <1>10, KeyIsFound DEF s
  <1>12. get_key_value_os(key, text, value) = s.value
    BY DEF get_key_value_os
  <1>13. OsName # NUL
    <2>1. ini[K].names[1] \in Plain
      BY <1>2, <1>5, OneName
    <2> QED BY <1>7, <2>1, TokensDiffer
  <1> HIDE DEF s
  <1> QED BY <1>7, <1>11, <1>12, <1>13, ContentIs DEF text, value, key

-----------------------------------------------------------------------------
(* The pages of the flash (nand.c).                                        *)

USE KernelAssumption

\* What nand_read writes: whole pages, one at least.
Rounded(size) == PageBytes * (IF size = 0 THEN 1 ELSE (size + PageBytes - 1) \div PageBytes)

LEMMA PagesAreRounded ==
  ASSUME NEW size \in Nat
  PROVE  /\ Pages(size) \in Nat \ {0} /\ Rounded(size) = PageBytes * Pages(size)
         /\ size <= Rounded(size)
         /\ size < Rounded(size) \/ size = PageBytes * Pages(size)
  <1>1. CASE size = 0
    BY <1>1 DEF Pages, Rounded
  <1>2. CASE size # 0
    <2> DEFINE q == (size - 1) \div PageBytes
               r == (size - 1) % PageBytes
    <2>1. q \in Nat /\ r \in 0..(PageBytes - 1) /\ size - 1 = PageBytes * q + r
      BY <1>2, Division
    <2>2. Pages(size) = q + 1
      BY <1>2 DEF Pages
    <2> HIDE DEF q, r
    <2>3. size + PageBytes - 1 = PageBytes * (q + 1) + r
      BY <2>1
    <2>4. (size + PageBytes - 1) \div PageBytes = q + 1
      <3>1. q + 1 \in Nat
        BY <2>1
      <3> QED BY <2>1, <2>3, <3>1, DivisionUnique
    <2>5. PageBytes * (q + 1) = PageBytes * q + PageBytes /\ PageBytes * q \in Nat
      BY <2>1
    <2>6. Rounded(size) = PageBytes * (q + 1)
      BY <1>2, <2>4 DEF Rounded
    <2> QED BY <2>1, <2>2, <2>5, <2>6
  <1> QED BY <1>1, <1>2

LEMMA FullPages ==
  ASSUME NEW size \in Nat \ {0}, size % PageBytes = 0
  PROVE  Rounded(size) = size
  <1> DEFINE q == size \div PageBytes
  <1>1. q \in Nat /\ size = PageBytes * q
    BY Division
  <1> HIDE DEF q
  <1>2. q # 0
    BY <1>1
  <1>3. size + PageBytes - 1 = PageBytes * q + (PageBytes - 1) /\ PageBytes - 1 \in 0..(PageBytes - 1)
    BY <1>1
  <1>4. (size + PageBytes - 1) \div PageBytes = q
    BY <1>1, <1>3, DivisionUnique
  <1> QED BY <1>1, <1>4 DEF Rounded

\* The i-th page read, and where it goes.
LEMMA PageOf ==
  ASSUME NEW to \in Nat, NEW from \in Nat, NEW size \in Nat, NEW i \in 1..Pages(size)
  PROVE  /\ nand_read(to, from, size)[i]
              = nand_read_page(from + (i - 1) * PageBytes, to + (i - 1) * PageBytes)
         /\ DOMAIN nand_read(to, from, size)[i] = Places(to + (i - 1) * PageBytes, PageBytes)
         /\ (i - 1) * PageBytes \in Nat
         /\ (i - 1) * PageBytes + PageBytes <= PageBytes * Pages(size)
  <1>1. Pages(size) \in Nat
    BY PagesAreRounded
  <1>2. nand_read(to, from, size)[i]
          = nand_read_page(from + (i - 1) * PageBytes, to + (i - 1) * PageBytes)
    BY DEF nand_read
  <1>3. (i - 1) * PageBytes \in Nat /\ (i - 1) * PageBytes + PageBytes = PageBytes * i
    BY <1>1
  <1>4. PageBytes * i <= PageBytes * Pages(size)
    BY <1>1
  <1> QED BY <1>2, <1>3, <1>4 DEF nand_read_page

\* Within the flash, a byte read is the byte of the flash that belongs there.
LEMMA PageIsRight ==
  ASSUME NEW to \in Nat, NEW from \in Nat, NEW size \in Nat, NEW i \in 1..Pages(size),
         from % PageBytes = 0, from + size <= NandRows * PageBytes,
         NEW a \in DOMAIN nand_read(to, from, size)[i], a < to + size
  PROVE  nand_read(to, from, size)[i][a] = <<"nand", from + a - to + 1>>
  <1> DEFINE s == (i - 1) * PageBytes
             z == from \div PageBytes
             row == z + (i - 1)
             k == a - (to + s)
  <1>1. /\ nand_read(to, from, size)[i] = nand_read_page(from + s, to + s)
        /\ a \in Places(to + s, PageBytes) /\ s \in Nat
    <2>1. DOMAIN nand_read(to, from, size)[i] = Places(to + s, PageBytes)
      BY ONLY to \in Nat, from \in Nat, size \in Nat, i \in 1..Pages(size), PageOf
    <2>2. nand_read(to, from, size)[i] = nand_read_page(from + s, to + s) /\ s \in Nat
      BY ONLY to \in Nat, from \in Nat, size \in Nat, i \in 1..Pages(size), PageOf
    <2> QED BY <2>1, <2>2
  <1>i. i - 1 \in Nat
    BY PagesAreRounded
  <1>2. z \in Nat /\ from = PageBytes * z
    <2>1. from \div PageBytes \in Nat /\ from = PageBytes * (from \div PageBytes) + (from % PageBytes)
      BY ONLY from \in Nat, PageBytes \in Nat \ {0}, Division
    <2> HIDE DEF s, row, k, z
    <2>2. from = PageBytes * (from \div PageBytes)
      BY <2>1
    <2> QED BY <2>1, <2>2 DEF z
  <1>3. s = PageBytes * (i - 1) /\ PageBytes * row = PageBytes * z + PageBytes * (i - 1)
    BY <1>i, <1>2
  <1> HIDE DEF s, z
  <1>4. row \in Nat /\ from + s = PageBytes * row
    BY <1>i, <1>1, <1>2, <1>3
  <1>5. k \in 0..(PageBytes - 1) /\ a \in Nat /\ a = to + s + k
    BY <1>1 DEF Places
  <1>6. row < NandRows
    <2>1. from + s < NandRows * PageBytes
      BY <1>1, <1>5
    <2>2. ASSUME row >= NandRows PROVE FALSE
      <3>1. PageBytes * row >= PageBytes * NandRows
        BY <1>4, <2>2
      <3>2. PageBytes * NandRows = NandRows * PageBytes /\ PageBytes * NandRows \in Nat
        OBVIOUS
      <3> QED BY <1>4, <2>1, <3>1, <3>2
    <2> QED BY <1>4, <2>2
  <1> HIDE DEF row, k
  <1>7. (from + s) \div PageBytes = row /\ (from + s) % PageBytes = 0
    <2>1. 0 \in 0..(PageBytes - 1)
      OBVIOUS
    <2>2. (PageBytes * row + 0) \div PageBytes = row /\ (PageBytes * row + 0) % PageBytes = 0
      BY ONLY PageBytes \in Nat \ {0}, <2>1, <1>4, DivisionUnique
    <2>3. PageBytes * row + 0 = from + s
      BY <1>4
    <2> QED BY <2>2, <2>3
  <1>8. row % NandRows = row
    BY <1>4, <1>6
  <1>9. nand_read_page(from + s, to + s)[a] = NandByte(from + s, a - (to + s))
    BY <1>1 DEF nand_read_page
  <1>10. NandByte(from + s, a - (to + s)) = <<"nand", row * PageBytes + k + 1>>
    BY <1>5, <1>7, <1>8 DEF NandByte, k
  <1>11. row * PageBytes + k + 1 = from + a - to + 1
    <2>1. row * PageBytes = PageBytes * row
      BY <1>4
    <2> QED BY <1>1, <1>4, <1>5, <2>1
  <1> QED BY <1>1, <1>9, <1>10, <1>11

\* The pages read cover all of the rounded size.
LEMMA PagesCover ==
  ASSUME NEW to \in Nat, NEW from \in Nat, NEW size \in Nat, NEW a \in Places(to, Rounded(size))
  PROVE  \E i \in 1..Pages(size) : a \in DOMAIN nand_read(to, from, size)[i]
  <1> DEFINE n == Pages(size)
             q == (a - to) \div PageBytes
             r == (a - to) % PageBytes
  <1>1. n \in Nat \ {0} /\ Rounded(size) = PageBytes * n
    BY PagesAreRounded
  <1>2. PageBytes * n \in Nat
    BY <1>1
  <1>3. a \in Addresses /\ a \in Nat /\ a - to \in 0..(PageBytes * n - 1)
    BY <1>1, <1>2 DEF Places
  <1>4. q \in Nat /\ r \in 0..(PageBytes - 1) /\ a - to = PageBytes * q + r
    <2>1. a - to \in Nat
      BY <1>2, <1>3
    <2> QED BY ONLY <2>1, PageBytes \in Nat \ {0}, Division
  <1> HIDE DEF n, q, r
  <1>5. q < n
    <2>1. ASSUME q >= n PROVE FALSE
      <3>1. PageBytes * q >= PageBytes * n /\ PageBytes * q \in Nat
        BY <1>1, <1>4, <2>1
      <3> QED BY <1>2, <1>3, <1>4, <3>1
    <2> QED BY <1>1, <1>4, <2>1
  <1>6. q + 1 \in 1..n /\ (q + 1) - 1 = q
    BY <1>1, <1>4, <1>5
  <1>7. a \in Places(to + q * PageBytes, PageBytes)
    <2>1. q * PageBytes = PageBytes * q /\ PageBytes * q \in Nat
      BY <1>4
    <2> QED BY <1>3, <1>4, <2>1 DEF Places
  <1>8. DOMAIN nand_read(to, from, size)[q + 1] = Places(to + q * PageBytes, PageBytes)
    BY <1>6, PageOf DEF n
  <1> QED BY <1>6, <1>7, <1>8 DEF n

\* A read of the flash, from a page of it, is in order: it stays within the rounded
\* size and brings what was asked for.
LEMMA NandInOrder ==
  ASSUME NEW to \in Nat, NEW from \in Nat, NEW size \in Nat, NEW m, NEW d,
         NEW wanted, \/ DOMAIN wanted = {}
                     \/ /\ from % PageBytes = 0 /\ from + size <= NandRows * PageBytes
                        /\ wanted = Piece(to, size, "nand", from)
  PROVE  InOrder(nand_read(to, from, size), Task(Places(to, Rounded(size)), wanted), m, d)
  <1> DEFINE w == nand_read(to, from, size)
             cells == Places(to, Rounded(size))
             t == Task(cells, wanted)
  <1>1. t.cells = cells /\ t.wanted = wanted
    BY DEF Task
  <1>2. Pages(size) \in Nat /\ Rounded(size) = PageBytes * Pages(size) /\ size <= Rounded(size)
    BY PagesAreRounded
  <1>3. IsSequence(w) /\ DOMAIN w = 1..Pages(size)
    <2>1. w = [k \in 1..Pages(size) |-> w[k]]
      BY DEF nand_read
    <2>2. \A k \in 1..Pages(size) : w[k] \in {w[j] : j \in 1..Pages(size)}
      OBVIOUS
    <2> HIDE DEF w
    <2> QED BY <1>2, <2>1, <2>2, TableOf
  <1>4. \A k \in 1..Pages(size) : DOMAIN w[k] \subseteq cells
    <2> SUFFICES ASSUME NEW k \in 1..Pages(size), NEW a \in DOMAIN w[k] PROVE a \in cells
      OBVIOUS
    <2> DEFINE s == (k - 1) * PageBytes
    <2>1. a \in Places(to + s, PageBytes) /\ s \in Nat /\ s + PageBytes <= PageBytes * Pages(size)
      BY PageOf
    <2> HIDE DEF s
    <2>2. PageBytes * Pages(size) \in Nat
      BY <1>2
    <2> DEFINE rounded == PageBytes * Pages(size)
    <2>3. a \in Addresses /\ a \in (to + s)..(to + s + PageBytes - 1)
      BY <2>1 DEF Places
    <2>4. rounded \in Nat /\ s + PageBytes <= rounded
      BY <2>1, <2>2
    <2>5. cells = Places(to, rounded)
      BY <1>2
    <2> HIDE DEF rounded, cells
    <2>6. a \in to..(to + rounded - 1)
      BY ONLY <2>1, <2>3, <2>4, to \in Nat, PageBytes \in Nat
    <2> QED BY <2>3, <2>5, <2>6 DEF Places
  <1>5. ASSUME NEW k \in 1..Pages(size), NEW a \in DOMAIN w[k] \cap DOMAIN wanted
        PROVE  w[k][a] = wanted[a]
    <2>1. /\ from % PageBytes = 0 /\ from + size <= NandRows * PageBytes
          /\ wanted = Piece(to, size, "nand", from)
      BY <1>5
    <2>2. a \in Places(to, size) /\ wanted[a] = <<"nand", from + a - to + 1>>
      BY <1>5, <2>1 DEF Piece
    <2>3. a < to + size
      BY <2>2 DEF Places
    <2> QED BY <1>5, <2>1, <2>2, <2>3, PageIsRight
  <1>6. ASSUME NEW a \in DOMAIN wanted
        PROVE  a \in Addresses /\ \E k \in 1..Pages(size) : a \in DOMAIN w[k]
    <2>1. a \in Places(to, size)
      BY <1>6 DEF Piece
    <2>2. PageBytes * Pages(size) \in Nat
      BY <1>2
    <2>3. a \in Places(to, Rounded(size)) /\ a \in Addresses
      BY <1>2, <2>1, <2>2 DEF Places
    <2> QED BY <2>3, PagesCover
  <1> HIDE DEF w, t, cells
  <1>7. InOrder(w, t, m, d)
    BY <1>1, <1>3, <1>4, <1>5, <1>6 DEF InOrder
  <1> QED BY <1>7 DEF w, t, cells

-----------------------------------------------------------------------------
(* The file that is sent, and its packets.                                 *)

Byte == [is : STRING, what : {"sent"} \X Nat]

LEMMA ImageIs ==
  /\ Image \in Seq(Byte) /\ Len(Image) \in Nat /\ PacketBytes \in Nat \ {0}
  /\ \A k \in 1..Len(Image) : Image[k].what = <<"sent", k>>
  /\ Packets \in Nat /\ Len(Image) = PacketBytes * Packets
  <1>1. Image \in Seq(Byte)
    BY PacketAssumption DEF Byte
  <1>2. Len(Image) \in Nat /\ DOMAIN Image = 1..Len(Image)
    BY <1>1, LenProperties
  <1>3. /\ PacketBytes \in Nat \ {0} /\ Len(Image) % PacketBytes = 0
        /\ \A k \in DOMAIN Image : Image[k].what = <<"sent", k>>
    BY PacketAssumption
  <1>4. Packets \in Nat /\ Len(Image) = PacketBytes * Packets
    <2>1. Len(Image) = PacketBytes * (Len(Image) \div PacketBytes) + (Len(Image) % PacketBytes)
      BY ONLY <1>2, <1>3, Division
    <2>2. Len(Image) \div PacketBytes \in Nat
      BY ONLY <1>2, <1>3, Division
    <2>3. PacketBytes * (Len(Image) \div PacketBytes) \in Nat
      BY ONLY <1>3, <2>2
    <2> QED BY <1>3, <2>1, <2>2, <2>3 DEF Packets
  <1> QED BY <1>1, <1>2, <1>3, <1>4

LEMMA Suffix ==
  ASSUME NEW S, NEW p \in Seq(S), NEW j \in 1..Len(p)
  PROVE  /\ SubSeq(p, j, Len(p)) # <<>>
         /\ Head(SubSeq(p, j, Len(p))) = p[j]
         /\ Tail(SubSeq(p, j, Len(p))) = SubSeq(p, j + 1, Len(p))
  <1>1. Len(p) \in Nat /\ Len(p) \in j..Len(p)
    BY LenProperties
  <1>2. Len(SubSeq(p, j, Len(p))) = Len(p) - j + 1
    BY <1>1
  <1>3. SubSeq(p, j, Len(p)) # <<>>
    <2>1. Len(<<>>) = 0
      OBVIOUS
    <2>2. Len(p) - j + 1 # 0
      BY <1>1
    <2>3. Len(SubSeq(p, j, Len(p))) # Len(<<>>)
      BY ONLY <1>2, <2>1, <2>2
    <2> QED BY ONLY <2>3
  <1> QED BY <1>1, <1>3, HeadTailOfSubSeq

LEMMA NoSuffix ==
  ASSUME NEW S, NEW p \in Seq(S)
  PROVE  SubSeq(p, Len(p) + 1, Len(p)) = <<>> /\ SubSeq(p, 1, Len(p)) = p
  <1>1. Len(p) \in Nat
    BY LenProperties
  <1>2. SubSeq(p, Len(p) + 1, Len(p)) = <<>>
    BY <1>1, SubSeqEmpty
  <1> QED BY <1>2, SubSeqFull

\* A packet: the header, number and complement, the data, the checksum.
LEMMA PacketIs ==
  ASSUME NEW k \in 1..Packets
  PROVE  /\ IsSequence(Packet(k)) /\ Len(Packet(k)) = PacketBytes + 4
         /\ Packet(k)[1].is = "SOH"
         /\ \A j \in 4..(PacketBytes + 3) :
              Packet(k)[j].what = <<"sent", (k - 1) * PacketBytes + j - 3>>
  <1> DEFINE lo == (k - 1) * PacketBytes
             head == <<Sign("SOH", 0), Sign("number", k), Sign("complement", k)>>
             data == SubSeq(Image, lo + 1, k * PacketBytes)
             end == <<Sign("checksum", k)>>
             p == Packet(k)
  <1>1. Packets \in Nat /\ PacketBytes \in Nat \ {0} /\ Len(Image) \in Nat
    BY ImageIs
  <1>2. lo \in Nat /\ k * PacketBytes = lo + PacketBytes
    BY <1>1
  <1>3. k * PacketBytes <= Len(Image)
    <2>1. k <= Packets /\ k * PacketBytes <= Packets * PacketBytes
      BY <1>1
    <2>2. Packets * PacketBytes = PacketBytes * Packets
      BY <1>1
    <2> QED BY <2>1, <2>2, ImageIs
  <1> DEFINE S == Byte \cup {Sign("SOH", 0), Sign("number", k), Sign("complement", k),
                             Sign("checksum", k)}
  <1> HIDE DEF lo
  <1>4. head \in Seq(S) /\ Len(head) = 3 /\ head[1].is = "SOH"
    <2>1. Sign("SOH", 0).is = "SOH"
      BY DEF Sign
    <2> QED BY <2>1
  <1>5. end \in Seq(S) /\ Len(end) = 1
    OBVIOUS
  <1>6. /\ data \in Seq(S) /\ Len(data) = PacketBytes
        /\ \A j \in 1..PacketBytes : data[j] = Image[lo + 1 + j - 1]
    <2>1. Image \in Seq(Byte) /\ lo + PacketBytes <= Len(Image)
      BY <1>2, <1>3, ImageIs
    <2>2. \A i \in (lo + 1)..(lo + PacketBytes) : Image[i] \in S
      <3>1. \A i \in 1..Len(Image) : Image[i] \in Byte
        BY <2>1, ElementOfSeq
      <3> QED BY <1>1, <1>2, <2>1, <3>1
    <2>3. data = SubSeq(Image, lo + 1, lo + PacketBytes)
      BY <1>2
    <2>4. lo + 1 \in Int /\ lo + PacketBytes \in Int /\ lo + PacketBytes - (lo + 1) + 1 = PacketBytes
          /\ lo + 1 <= lo + PacketBytes
      BY <1>1, <1>2
    <2> DEFINE a == lo + 1
               b == lo + PacketBytes
    <2> HIDE DEF data, S, a, b
    <2>5. /\ SubSeq(Image, a, b) \in Seq(S)
          /\ Len(SubSeq(Image, a, b)) = IF a <= b THEN b - a + 1 ELSE 0
          /\ \A i \in 1..(b - a + 1) : SubSeq(Image, a, b)[i] = Image[a + i - 1]
      <3>1. a \in Int /\ b \in Int /\ \A i \in a..b : Image[i] \in S
        BY <2>2, <2>4 DEF a, b
      <3> QED BY ONLY <3>1, SubSeqProperties
    <2>6. b - a + 1 = PacketBytes /\ a <= b /\ a = lo + 1
      BY <1>1, <1>2 DEF a, b
    <2>7. data = SubSeq(Image, a, b)
      BY <2>3 DEF a, b
    <2> QED BY ONLY <2>5, <2>6, <2>7
  <1>7. p = (head \o data) \o end
    BY <1>2 DEF Packet, lo
  <1> DEFINE q == head \o data
  <1> HIDE DEF head, data, end, p, S
  <1>8. /\ q \in Seq(S) /\ Len(q) = PacketBytes + 3
        /\ \A j \in 1..(PacketBytes + 3) : q[j] = IF j <= 3 THEN head[j] ELSE data[j - 3]
    <2>1. 3 + PacketBytes = PacketBytes + 3
      BY <1>1
    <2>2. /\ q \in Seq(S) /\ Len(q) = Len(head) + Len(data)
          /\ \A j \in 1..(Len(head) + Len(data)) :
               q[j] = IF j <= Len(head) THEN head[j] ELSE data[j - Len(head)]
      BY ONLY <1>4, <1>6, ConcatProperties DEF q
    <2> QED BY ONLY <1>4, <1>6, <2>1, <2>2
  <1> HIDE DEF q
  <1>9. /\ p \in Seq(S) /\ Len(p) = PacketBytes + 4
        /\ \A j \in 1..(PacketBytes + 3) : p[j] = q[j]
    <2>1. p = q \o end
      BY <1>7 DEF q
    <2>2. /\ p \in Seq(S) /\ Len(p) = (PacketBytes + 3) + 1
          /\ \A j \in 1..(PacketBytes + 3) + 1 :
                p[j] = IF j <= PacketBytes + 3 THEN q[j] ELSE end[j - (PacketBytes + 3)]
      <3>1. /\ p \in Seq(S) /\ Len(p) = Len(q) + Len(end)
            /\ \A j \in 1..(Len(q) + Len(end)) :
                 p[j] = IF j <= Len(q) THEN q[j] ELSE end[j - Len(q)]
        BY ONLY <1>5, <1>8, <2>1, ConcatProperties
      <3> QED BY ONLY <1>5, <1>8, <3>1
    <2> QED BY <1>1, <2>2
  <1>10. p[1].is = "SOH"
    <2>1. 1 \in 1..(PacketBytes + 3)
      BY <1>1
    <2> QED BY <1>4, <1>8, <1>9, <2>1
  <1>11. ASSUME NEW j \in 4..(PacketBytes + 3)
         PROVE  p[j].what = <<"sent", lo + j - 3>>
    <2>1. j \in 1..(PacketBytes + 3) /\ j - 3 \in 1..PacketBytes /\ ~(j <= 3)
      BY <1>1
    <2>2. p[j] = data[j - 3]
      BY <1>8, <1>9, <2>1
    <2>3. p[j] = Image[lo + 1 + (j - 3) - 1]
      BY <1>6, <2>1, <2>2
    <2>4. /\ lo + 1 + (j - 3) - 1 = lo + j - 3 /\ lo + j - 3 \in 1..Len(Image)
      BY <1>1, <1>2, <1>3, <2>1
    <2>5. Image[lo + j - 3].what = <<"sent", lo + j - 3>>
      BY <2>4, ImageIs
    <2> QED BY <2>3, <2>4, <2>5
  <1>12. IsSequence(p)
    BY <1>9 DEF IsSequence
  <1> QED BY <1>9, <1>10, <1>11, <1>12 DEF p, lo

-----------------------------------------------------------------------------
(* The variables.                                                          *)

LEMMA NumberIs ==
  ASSUME NEW k, NEW default \in Nat
  PROVE  Number(k, default) \in Nat
  BY NumberAssumption DEF Number

LEMMA StoreByteDomain ==
  ASSUME NEW m, NEW a, NEW b PROVE DOMAIN StoreByte(m, a, b) = DOMAIN m
  BY DEF StoreByte

LEMMA OverlayDomain ==
  ASSUME NEW m, NEW p PROVE DOMAIN Overlay(m, p) = DOMAIN m
  BY DEF Overlay

\* What most steps leave alone.
LEMMA TypeStays ==
  ASSUME TypeOK, UNCHANGED <<hostVars, addr, entry, after>>, DOMAIN mem' = DOMAIN mem,
         pc' \in {"off", "wait", "auto", "os", "prompt", "do", "work", "tags", "jump",
                  "countdown", "raw", "running", "lost"}
           \/ (pc' = pc /\ at' = at),
         disturbed' \in BOOLEAN, harmed' \in BOOLEAN
  PROVE  TypeOK'
  BY DEF TypeOK, hostVars

LEMMA TypeOfWrite ==
  ASSUME TypeOK, NEW pieces, NEW t, NEW next \in {"prompt", "tags"}, Write(pieces, t, next),
         entry' \in Nat, disturbed' \in BOOLEAN
  PROVE  TypeOK'
  BY DEF Write, TypeOK, hostVars

LEMMA TypeOfCommands ==
  ASSUME TypeOK, Commands
  PROVE  TypeOK'
  <1>1. Down \in Nat /\ Kernel \in Nat /\ entry \in Nat
    BY LayoutAssumption DEF TypeOK
  <1>2. CASE MemoryWrite
    <2>1. PICK pieces, t : Write(pieces, t, "prompt")
      BY <1>2 DEF MemoryWrite
    <2> QED BY <1>1, <1>2, <2>1, TypeOfWrite DEF MemoryWrite, Undisturbed
  <1>3. CASE NandRead
    <2>1. PICK pieces, t : Write(pieces, t, "prompt")
      BY <1>3 DEF NandRead
    <2> QED BY <1>1, <1>3, <2>1, TypeOfWrite DEF NandRead, Undisturbed
  <1>4. CASE Bootm
    <2>1. PICK pieces, t : Write(pieces, t, "tags")
      BY <1>4 DEF Bootm
    <2> QED BY <1>1, <1>4, <2>1, TypeOfWrite DEF Bootm
  <1>5. CASE SdLoad
    <2>1. PICK pieces, t : Write(pieces, t, "prompt")
      BY <1>5 DEF SdLoad
    <2>2. disturbed' \in BOOLEAN /\ entry' = entry
      BY <1>5 DEF SdLoad
    <2> QED BY <1>1, <2>1, <2>2, TypeOfWrite
  <1>6. CASE Draw
    <2>1. PICK pieces, t : Write(pieces, t, "prompt")
      BY <1>6 DEF Draw
    <2> QED BY <1>1, <1>6, <2>1, TypeOfWrite DEF Draw, Undisturbed
  <1>7. CASE LoadX
    <2>1. Number(2, Down) \in Nat
      BY <1>1, NumberIs
    <2> QED BY <1>7, <2>1 DEF LoadX, TypeOK
  <1>8. CASE LoadB
    <2>1. pc' \in {"prompt", "raw"} /\ addr' = Down /\ host' = "absent" /\ disturbed' \in BOOLEAN
          /\ UNCHANGED <<mem, item, after, entry, harmed>>
      BY <1>8 DEF LoadB
    <2> QED BY <1>1, <2>1 DEF TypeOK
  <1>9. CASE Go
    <2>1. Number(2, Down) \in Nat
      BY <1>1, NumberIs
    <2> QED BY <1>9, <2>1 DEF Go, TypeOK, hostVars
  <1>10. CASE Idle
    BY <1>10, TypeStays DEF Idle, TypeOK
  <1> QED BY <1>2, <1>3, <1>4, <1>5, <1>6, <1>7, <1>8, <1>9, <1>10 DEF Commands

LEMMA TypeOfBoard ==
  ASSUME TypeOK, Board
  PROVE  TypeOK'
  <1>0. PacketBytes \in Nat \ {0} /\ Down \in Nat
    BY PacketAssumption, LayoutAssumption
  <1>1. CASE FirstStage
    BY <1>1, TypeStays, OverlayDomain DEF FirstStage, TypeOK
  <1>2. CASE KeyWait
    BY <1>2, TypeStays DEF KeyWait, TypeOK, consoleVars
  <1>3. CASE ReadIni
    BY <1>3, TypeStays DEF ReadIni, TypeOK
  <1>4. CASE LoadOs
    <2>1. pc' = "work" /\ after' = "jump" /\ entry' = Down /\ UNCHANGED <<mem, at, addr, hostVars>>
      BY <1>4 DEF LoadOs
    <2>2. disturbed' \in BOOLEAN /\ harmed' \in BOOLEAN
      BY <1>4 DEF LoadOs, TypeOK
    <2> QED BY <1>0, <2>1, <2>2 DEF TypeOK, hostVars
  <1>5. CASE GetLine
    BY <1>5, TypeStays DEF GetLine, TypeOK
  <1>6. CASE Commands
    BY <1>6, TypeOfCommands
  <1>7. CASE WritePiece
    BY <1>7, TypeStays, OverlayDomain DEF WritePiece, TypeOK
  <1>8. CASE WriteDone
    BY <1>8, TypeStays DEF WriteDone, TypeOK
  <1>9. CASE InitTaglist
    BY <1>9, TypeStays DEF InitTaglist, TypeOK
  <1>10. CASE Jump
    BY <1>10, TypeStays DEF Jump, TypeOK
  <1>11. CASE ReceiveX
    <2>1. CASE StartNak
      BY <1>0, <1>11, <2>1 DEF StartNak, ReceiveX, TypeOK, hostVars, GetByte, GetHeader, GetChecksum
    <2>2. CASE GetHeader
      BY <1>0, <1>11, <2>2 DEF GetHeader, ReceiveX, TypeOK, hostVars, GetByte, StartNak, GetChecksum
    <2>3. CASE GetChecksum
      BY <1>0, <1>11, <2>3 DEF GetChecksum, ReceiveX, TypeOK, hostVars, GetByte, StartNak, GetHeader
    <2>4. CASE GetByte
      <3>1. /\ at' \in 0..(PacketBytes + 3) /\ addr' \in Nat /\ UNCHANGED <<hostVars, disturbed>>
        BY <1>0, <2>4 DEF GetByte, TypeOK
      <3>2. DOMAIN mem' = DOMAIN mem
        BY <2>4, StoreByteDomain DEF GetByte
      <3>3. pc' \in {"packet", "lost"} /\ harmed' \in BOOLEAN /\ UNCHANGED <<after, entry>>
        BY <1>11, <2>4 DEF ReceiveX, GetByte, StartNak, GetHeader, GetChecksum, TypeOK
      <3> QED BY <3>1, <3>2, <3>3 DEF TypeOK, hostVars
    <2> QED BY <1>11, <2>1, <2>2, <2>3, <2>4 DEF ReceiveX
  <1>12. CASE GetRawByte
    <2>1. DOMAIN mem' = DOMAIN mem
      BY <1>12, StoreByteDomain DEF GetRawByte
    <2> QED BY <1>12, <2>1 DEF GetRawByte, TypeOK, hostVars
  <1> QED BY <1>1, <1>2, <1>3, <1>4, <1>5, <1>6, <1>7, <1>8, <1>9, <1>10, <1>11, <1>12 DEF Board

LEMMA TypeStep ==
  ASSUME TypeOK, [Next]_vars
  PROVE  TypeOK'
  <1>1. CASE Board
    BY <1>1, TypeOfBoard
  <1>2. CASE TypeLine
    BY <1>2 DEF TypeLine, TypeOK, hostVars
  <1>3. CASE PressKey
    BY <1>3 DEF PressKey, TypeOK, hostVars
  <1>4. CASE SendRaw
    BY <1>4 DEF SendRaw, TypeOK, consoleVars
  <1>5. CASE ProgramReturns
    BY <1>5 DEF ProgramReturns, TypeOK, hostVars, consoleVars
  <1>6. CASE SendX
    <2>1. UNCHANGED <<mem, pc, at, addr, disturbed, after, entry, harmed>>
      BY <1>6 DEF SendX, Host, HostStart, HostSend, HostReply, HostTimeout, consoleVars
    <2>2. item' \in 1..(Packets + 1)
      <3>1. Packets \in Nat
        BY ImageIs
      <3> QED BY <1>6, <3>1 DEF SendX, Host, HostStart, HostSend, HostReply, HostTimeout, TypeOK
    <2>3. host' \in {"absent", "ready", "sending", "waiting", "done", "gone"}
      BY <1>6 DEF SendX, Host, HostStart, HostSend, HostReply, HostTimeout, TypeOK
    <2> QED BY <2>1, <2>2, <2>3 DEF TypeOK
  <1>7. CASE LineFault
    BY <1>7 DEF LineFault, Line, StrayByte, LoseByte, LoseAnswer, Fault, consoleVars, TypeOK, hostVars
  <1>8. CASE PowerCycle
    <2>1. Packets \in Nat /\ Down \in Nat
      BY ImageIs, LayoutAssumption
    <2>2. /\ DOMAIN mem' = Addresses /\ pc' = "off" /\ entry' = Down /\ addr' = Down
          /\ host' = "absent" /\ item' = 1 /\ after' = "prompt" /\ disturbed' = FALSE
          /\ harmed' = FALSE
      BY <1>8 DEF PowerCycle
    <2>3. item' \in 1..(Packets + 1)
      BY <2>1, <2>2
    <2> QED BY ONLY <2>1, <2>2, <2>3 DEF TypeOK
  <1>9. CASE UNCHANGED vars
    BY <1>9 DEF vars, xmodemVars, consoleVars, hostVars, TypeOK
  <1> QED BY <1>1, <1>2, <1>3, <1>4, <1>5, <1>6, <1>7, <1>8, <1>9 DEF Next

LEMMA TypeAtFirst == Init => TypeOK
  <1>1. 1 \in 1..(Packets + 1) /\ Down \in Nat
    BY ImageIs, LayoutAssumption
  <1>2. Init => /\ DOMAIN mem = Addresses /\ pc = "off" /\ entry = Down /\ addr = Down
                /\ host = "absent" /\ item = 1 /\ after = "prompt" /\ disturbed = FALSE
                /\ harmed = FALSE
    BY DEF Init
  <1> QED BY ONLY <1>1, <1>2 DEF TypeOK

\* The board is always in a state that its code knows, with the receiver within its
\* packet and the sender within its file (xmodem.c:21-28, main.c:63-106).
THEOREM TypeCorrect == Spec => []TypeOK
  <1>1. TypeOK /\ [Next]_vars => TypeOK'
    BY TypeStep
  <1> QED BY TypeAtFirst, <1>1, PTL DEF Spec

-----------------------------------------------------------------------------
(* What the commands are about.                                            *)

Quiet == {"off", "wait", "auto", "os", "prompt", "do", "running"}

\* No command is under way where none is; one that writes is in order, and before a
\* jump everything is in place unless the command was disturbed.
Orders ==
  /\ pc \in Quiet => task = NoTask
  /\ pc = "work" => InOrder(work, task, mem, disturbed)
  /\ pc \in {"tags", "jump"} /\ ~disturbed => Right(mem, task.wanted)

KernelTask == Task(Places(Kernel, KernelBytes), Piece(Kernel, KernelBytes, "nand", NandKernel))

\* A bootm is never disturbed; before the jump kernel and tags are there.
Booting ==
  /\ pc \in {"work", "tags"} /\ after = "tags" => task = KernelTask /\ ~disturbed /\ entry = Kernel
  /\ pc \in {"jump", "running"} /\ after = "tags" =>
       Right(mem, KernelTask.wanted) /\ TagListParses(tags, CmdSize)

LEMMA PcOfBoard ==
  ASSUME TypeOK, Orders, Board
  PROVE  /\ pc' \in {"countdown", "packet"} => LoadX \/ ReceiveX
         /\ pc' = "raw" => LoadB \/ GetRawByte
         /\ pc' = "work" =>
              LoadOs \/ MemoryWrite \/ NandRead \/ Bootm \/ SdLoad \/ Draw \/ WritePiece
         /\ pc' \in {"tags", "jump"} => WriteDone \/ InitTaglist \/ Go
         /\ pc' = "running" => Jump
         /\ pc' \in Quiet => task' = NoTask
  <1>1. CASE FirstStage
    BY <1>1 DEF FirstStage, Orders, Quiet
  <1>2. CASE KeyWait
    BY <1>2 DEF KeyWait, Orders, Quiet, consoleVars
  <1>3. CASE ReadIni
    BY <1>3 DEF ReadIni, Orders, Quiet
  <1>4. CASE LoadOs
    BY <1>4 DEF LoadOs, Quiet
  <1>5. CASE GetLine
    BY <1>5 DEF GetLine, Orders, Quiet
  <1>6. CASE MemoryWrite
    BY <1>6 DEF MemoryWrite, Write, Quiet
  <1>7. CASE NandRead
    BY <1>7 DEF NandRead, Write, Quiet
  <1>8. CASE Bootm
    BY <1>8 DEF Bootm, Write, Quiet
  <1>9. CASE SdLoad
    BY <1>9 DEF SdLoad, Write, Quiet
  <1>10. CASE Draw
    BY <1>10 DEF Draw, Write, Quiet
  <1>11. CASE LoadX
    BY <1>11 DEF LoadX, Quiet
  <1>12. CASE LoadB
    <2>1. pc' = IF Number(2, 0) = 0 THEN "prompt" ELSE "raw"
      BY <1>12 DEF LoadB
    <2>2. Number(2, 0) = 0 => task' = NoTask
      BY <1>12 DEF LoadB
    <2> QED BY <1>12, <2>1, <2>2 DEF Quiet
  <1>13. CASE Go
    BY <1>13 DEF Go, Quiet
  <1>14. CASE Idle
    BY <1>14 DEF Idle, Orders, Quiet
  <1>15. CASE WritePiece
    BY <1>15 DEF WritePiece, Quiet
  <1>16. CASE WriteDone
    <2>1. pc' = after /\ after \in {"prompt", "tags", "jump"} /\ (after = "prompt" => task' = NoTask)
      BY <1>16 DEF WriteDone, TypeOK
    <2> QED BY <1>16, <2>1 DEF Quiet
  <1>17. CASE InitTaglist
    BY <1>17 DEF InitTaglist, Quiet
  <1>18. CASE Jump
    BY <1>18 DEF Jump, Quiet
  <1>19. CASE ReceiveX
    <2>1. pc' \in {"packet", "prompt", "lost"}
      BY <1>19 DEF ReceiveX, StartNak, GetHeader, GetByte, GetChecksum
    <2>2. pc' = "prompt" => task' = NoTask
      BY <1>19 DEF ReceiveX
    <2> QED BY <1>19, <2>1, <2>2 DEF Quiet
  <1>20. CASE GetRawByte
    BY <1>20 DEF GetRawByte, Quiet
  <1> QED BY <1>1, <1>2, <1>3, <1>4, <1>5, <1>6, <1>7, <1>8, <1>9, <1>10, <1>11, <1>12,
             <1>13, <1>14, <1>15, <1>16, <1>17, <1>18, <1>19, <1>20 DEF Board, Commands

LEMMA PlacesGrow ==
  ASSUME NEW a \in Nat, NEW n \in Nat, NEW k \in Nat, n <= k
  PROVE  Places(a, n) \subseteq Places(a, k)
  BY DEF Places

\* A read of the card, complete or not.
LEMMA CardInOrder ==
  ASSUME NEW to \in Nat, NEW n \in Nat, NEW all \in Nat, NEW size \in Nat, NEW origin,
         n <= all, all <= size, NEW m, NEW wanted,
         wanted = <<>> \/ wanted = Piece(to, all, origin, 0), NEW d, n # all => d
  PROVE  InOrder(<<Piece(to, n, origin, 0)>>, Task(Places(to, size), wanted), m, d)
  <1> DEFINE p == Piece(to, n, origin, 0)
             t == Task(Places(to, size), wanted)
  <1>1. t.cells = Places(to, size) /\ t.wanted = wanted
    BY DEF Task
  <1>2. DOMAIN p = Places(to, n) /\ Places(to, n) \subseteq Places(to, size)
    BY PlacesGrow DEF Piece
  <1>3. ASSUME ~d, NEW a \in DOMAIN wanted
        PROVE  a \in Addresses /\ a \in DOMAIN p /\ p[a] = wanted[a]
    <2>1. wanted = p
      <3>1. DOMAIN <<>> = {}
        OBVIOUS
      <3> QED BY <1>3, <3>1
    <2> QED BY <1>2, <1>3, <2>1 DEF Places
  <1> HIDE DEF p, t
  <1>4. InOrder(<<p>>, t, m, d)
    BY <1>1, <1>2, <1>3, OneInOrder
  <1> QED BY <1>4 DEF p, t

\* bootm's read, and nand read's.
LEMMA BootInOrder ==
  ASSUME NEW m, NEW d
  PROVE  InOrder(nand_read(Kernel, NandKernel, KernelBytes), KernelTask, m, d)
  <1>1. Rounded(KernelBytes) = KernelBytes
    BY FullPages
  <1>2. Kernel \in Nat
    BY LayoutAssumption
  <1>3. /\ NandKernel \in Nat /\ KernelBytes \in Nat /\ NandKernel % PageBytes = 0
        /\ NandKernel + KernelBytes <= NandRows * PageBytes
    BY KernelAssumption
  <1> DEFINE wanted == Piece(Kernel, KernelBytes, "nand", NandKernel)
  <1> HIDE DEF wanted
  <1>4. InOrder(nand_read(Kernel, NandKernel, KernelBytes),
                Task(Places(Kernel, Rounded(KernelBytes)), wanted), m, d)
    BY ONLY <1>2, <1>3, NandInOrder DEF wanted
  <1> QED BY <1>1, <1>4 DEF KernelTask, wanted

LEMMA Begun ==
  ASSUME NEW pieces, NEW t, NEW next, Write(pieces, t, next), InOrder(pieces, t, mem, disturbed')
  PROVE  pc' = "work" /\ mem' = mem /\ task' = t /\ after' = next
         /\ InOrder(work', task', mem', disturbed')
  BY DEF Write

LEMMA OrderOfCommands ==
  ASSUME TypeOK, LoadOs \/ MemoryWrite \/ NandRead \/ Bootm \/ SdLoad \/ Draw
  PROVE  /\ pc' = "work" /\ mem' = mem /\ InOrder(work', task', mem', disturbed')
         /\ after' = "tags" => Bootm /\ task' = KernelTask
  <1>0. Down \in Nat /\ FileAddr \in Nat /\ OsFile \in Nat /\ OsBytes \in Nat /\ FileBytes \in Nat
    BY LayoutAssumption, FileAssumption
  <1>1. CASE LoadOs
    <2>1. PICK n \in 0..OsRead : /\ work' = <<Piece(Down, n, "os", 0)>>
                                 /\ disturbed' = (n # OsRead)
      BY <1>1 DEF LoadOs
    <2>2. OsRead \in Nat /\ OsRead <= OsBytes
      BY <1>0 DEF OsRead, Least
    <2> DEFINE wanted == IF ~harmed THEN Piece(Down, OsRead, "os", 0) ELSE <<>>
    <2>3. /\ task' = Task(Places(Down, OsBytes), wanted) /\ pc' = "work" /\ after' = "jump"
          /\ mem' = mem
      BY <1>1 DEF LoadOs
    <2>4. wanted = <<>> \/ wanted = Piece(Down, OsRead, "os", 0)
      OBVIOUS
    <2> HIDE DEF wanted
    <2>5. InOrder(<<Piece(Down, n, "os", 0)>>, Task(Places(Down, OsBytes), wanted), mem, n # OsRead)
      <3>1. n \in Nat /\ n <= OsRead
        BY ONLY <2>2, n \in 0..OsRead
      <3> DEFINE origin == "os"
                 all == OsRead
      <3> HIDE DEF origin, all
      <3>2. wanted = <<>> \/ wanted = Piece(Down, all, origin, 0)
        BY <2>4 DEF origin, all
      <3>3. all \in Nat /\ all <= OsBytes /\ n <= all
        BY <2>2, <3>1 DEF all
      <3> DEFINE d == n # OsRead
                 cells == Places(Down, OsBytes)
      <3>4. n # all => d
        BY DEF all
      <3> HIDE DEF d
      <3>5. InOrder(<<Piece(Down, n, origin, 0)>>, Task(cells, wanted), mem, d)
        BY ONLY <1>0, <3>1, <3>2, <3>3, <3>4, CardInOrder
      <3> QED BY <3>5 DEF origin, d
    <2> QED BY <2>1, <2>3, <2>5
  <1>2. CASE MemoryWrite
    <2> DEFINE p == [x \in Places(Number(2, Nowhere), 1) |-> <<"poke", Number(3, 0)>>]
               t == Task(DOMAIN p, p)
    <2>1. Write(<<p>>, t, "prompt")
      BY <1>2 DEF MemoryWrite
    <2>2. t.cells = DOMAIN p /\ t.wanted = p /\ DOMAIN p \subseteq Addresses
      BY DEF Task, Places
    <2> HIDE DEF p, t
    <2>3. InOrder(<<p>>, t, mem, disturbed')
      BY <2>2, OneInOrder
    <2> QED BY <2>1, <2>3, Begun
  <1>3. CASE NandRead
    <2> DEFINE to == Number(3, 0)
               from == Number(4, 0)
               size == Number(5, 0)
               wanted == IF from % PageBytes = 0 /\ from + size <= NandRows * PageBytes
                         THEN Piece(to, size, "nand", from) ELSE <<>>
    <2>1. Write(nand_read(to, from, size), Task(Places(to, Rounded(size)), wanted), "prompt")
      BY <1>3 DEF NandRead, Rounded
    <2>2. to \in Nat /\ from \in Nat /\ size \in Nat
      BY NumberIs
    <2>3. \/ DOMAIN wanted = {}
          \/ /\ from % PageBytes = 0 /\ from + size <= NandRows * PageBytes
             /\ wanted = Piece(to, size, "nand", from)
      OBVIOUS
    <2> HIDE DEF to, from, size, wanted
    <2>4. InOrder(nand_read(to, from, size), Task(Places(to, Rounded(size)), wanted), mem, disturbed')
      BY ONLY <2>2, <2>3, NandInOrder
    <2> QED BY <2>1, <2>4, Begun
  <1>4. CASE Bootm
    <2>1. Write(nand_read(Kernel, NandKernel, KernelBytes), KernelTask, "tags")
      BY <1>4 DEF Bootm, KernelTask
    <2>2. InOrder(nand_read(Kernel, NandKernel, KernelBytes), KernelTask, mem, disturbed')
      BY BootInOrder
    <2> QED BY <1>4, <2>1, <2>2, Begun
  <1>5. CASE SdLoad
    <2> DEFINE all == IF Word(2) = OsName THEN OsFile ELSE FileBytes
               origin == IF Word(2) = OsName THEN "os" ELSE "file"
               to == Number(3, FileAddr)
    <2>1. PICK n \in 0..all :
            /\ disturbed' = (n # all)
            /\ Write(<<Piece(to, n, origin, 0)>>,
                     Task(Places(to, all), Piece(to, all, origin, 0)), "prompt")
      BY <1>5 DEF SdLoad
    <2>2. all \in Nat /\ to \in Nat
      BY <1>0, NumberIs
    <2> HIDE DEF all, origin, to
    <2>3. InOrder(<<Piece(to, n, origin, 0)>>, Task(Places(to, all), Piece(to, all, origin, 0)),
                  mem, disturbed')
      <3> DEFINE wanted == Piece(to, all, origin, 0)
                 d == disturbed'
      <3>1. n \in Nat /\ n <= all /\ all <= all
        BY ONLY <2>2, n \in 0..all
      <3>2. n # all => d
        BY ONLY <2>1
      <3>3. wanted = <<>> \/ wanted = Piece(to, all, origin, 0)
        OBVIOUS
      <3> HIDE DEF wanted, d
      <3>4. InOrder(<<Piece(to, n, origin, 0)>>, Task(Places(to, all), wanted), mem, d)
        BY ONLY <2>2, <3>1, <3>2, <3>3, CardInOrder
      <3> QED BY <3>4 DEF wanted, d
    <2> QED BY <2>1, <2>3, Begun
  <1>6. CASE Draw
    <2> DEFINE p == Piece(FileAddr, FileBytes, "pixel", 0)
               t == Task(Places(FileAddr, FileBytes), <<>>)
    <2>1. Write(<<p>>, t, "prompt")
      BY <1>6 DEF Draw
    <2>2. t.cells = Places(FileAddr, FileBytes) /\ DOMAIN t.wanted = {}
          /\ DOMAIN p = Places(FileAddr, FileBytes)
      BY DEF Task, Piece
    <2> HIDE DEF p, t
    <2>3. InOrder(<<p>>, t, mem, disturbed')
      BY <2>2, OneInOrder
    <2> QED BY <2>1, <2>3, Begun
  <1> QED BY <1>1, <1>2, <1>3, <1>4, <1>5, <1>6

-----------------------------------------------------------------------------
(* Orders and Booting are kept.                                            *)

\* A step of what is around the board, but for a power cycle and a return.
Calm ==
  /\ UNCHANGED <<mem, pc, task, tags, work, after, entry>>
  /\ disturbed' = disturbed \/ (disturbed' = TRUE /\ pc \in {"countdown", "packet", "raw"})

Around == TypeLine \/ PressKey \/ SendRaw \/ ProgramReturns \/ SendX \/ LineFault \/ PowerCycle
          \/ UNCHANGED vars

LEMMA AroundIsCalm ==
  ASSUME TypeOK, Orders, Around
  PROVE  Calm \/ (pc' \in {"off", "prompt"} /\ task' = NoTask)
  <1>1. CASE TypeLine
    BY <1>1 DEF TypeLine, Calm
  <1>2. CASE PressKey
    BY <1>2 DEF PressKey, Calm, TypeOK
  <1>3. CASE SendRaw
    BY <1>3 DEF SendRaw, Calm, consoleVars
  <1>4. CASE ProgramReturns
    BY <1>4 DEF ProgramReturns, Orders, Quiet, consoleVars
  <1>5. CASE SendX
    BY <1>5 DEF SendX, Host, HostStart, HostSend, HostReply, HostTimeout, consoleVars, Calm
  <1>6. CASE LineFault
    BY <1>6 DEF LineFault, Line, StrayByte, LoseByte, LoseAnswer, Fault, consoleVars, Calm
  <1>7. CASE PowerCycle
    BY <1>7 DEF PowerCycle
  <1>8. CASE UNCHANGED vars
    BY <1>8 DEF vars, xmodemVars, consoleVars, Calm
  <1> QED BY <1>1, <1>2, <1>3, <1>4, <1>5, <1>6, <1>7, <1>8 DEF Around

LEMMA NoTaskIsMet ==
  ASSUME NEW m
  PROVE  Right(m, NoTask.wanted)
  <1>1. DOMAIN NoTask.wanted = {}
    BY DEF NoTask
  <1> QED BY <1>1 DEF Right

LEMMA OrdersStep ==
  ASSUME TypeOK, Orders, [Next]_vars
  PROVE  Orders'
  <1>1. CASE Board
    <2>1. pc' \in Quiet => task' = NoTask
      BY <1>1, PcOfBoard
    <2>2. ASSUME pc' = "work" PROVE InOrder(work', task', mem', disturbed')
      <3>1. CASE LoadOs \/ MemoryWrite \/ NandRead \/ Bootm \/ SdLoad \/ Draw
        BY <3>1, OrderOfCommands
      <3>2. CASE WritePiece
        <4>1. /\ pc = "work" /\ work # <<>> /\ work' = Tail(work) /\ task' = task
              /\ disturbed' = disturbed /\ mem' = Overlay(mem, Head(work))
          BY <3>2 DEF WritePiece
        <4>2. InOrder(work, task, mem, disturbed) /\ DOMAIN mem = Addresses
          BY <4>1 DEF Orders, TypeOK
        <4> QED BY <4>1, <4>2, PieceInOrder
      <3> QED BY <1>1, <2>2, <3>1, <3>2, PcOfBoard
    <2>3. ASSUME pc' \in {"tags", "jump"}, ~disturbed' PROVE Right(mem', task'.wanted)
      <3>1. CASE WriteDone
        <4>1. /\ pc = "work" /\ work = <<>> /\ mem' = mem /\ disturbed' = disturbed /\ task' = task
          BY <2>3, <3>1 DEF WriteDone
        <4> QED BY <2>3, <4>1, DoneInOrder DEF Orders
      <3>2. CASE InitTaglist
        BY <2>3, <3>2 DEF InitTaglist, Orders
      <3>3. CASE Go
        <4>1. task' = NoTask
          BY <3>3 DEF Go, Do, Orders, Quiet
        <4> QED BY <4>1, NoTaskIsMet
      <3> QED BY <1>1, <2>3, <3>1, <3>2, <3>3, PcOfBoard
    <2> QED BY <2>1, <2>2, <2>3 DEF Orders
  <1>2. CASE Around
    <2>1. CASE Calm
      BY <2>1 DEF Calm, Orders
    <2>2. CASE pc' \in {"off", "prompt"} /\ task' = NoTask
      BY <2>2 DEF Orders
    <2> QED BY <1>2, <2>1, <2>2, AroundIsCalm
  <1> QED BY <1>1, <1>2 DEF Next, Around

LEMMA TagsAreWritten ==
  ASSUME InitTaglist
  PROVE  TagListParses(tags', CmdSize)
  <1>1. tags' = init_taglist(StaleTags, CmdSize)
    BY DEF InitTaglist
  <1>2. CmdlineSize(CmdSize) \in Nat
    BY CmdlineFits DEF HeaderWords
  <1>3. DOMAIN StaleTags = 0..(4 * TagWords) /\ DOMAIN StaleTags \subseteq Nat
    BY DEF StaleTags
  <1>4. CoreSize + CmdlineSize(CmdSize) + MemSize + HeaderWords = TagWords
    BY DEF TagWords
  <1>5. \A a \in 0..(4 * (CoreSize + CmdlineSize(CmdSize) + MemSize + HeaderWords)) :
          a \in DOMAIN StaleTags
    BY <1>3, <1>4
  <1> QED BY <1>1, <1>3, <1>5, EveryTagListParses

LEMMA BootingStep ==
  ASSUME TypeOK, Orders, Booting, [Next]_vars
  PROVE  Booting'
  <1>1. CASE Board
    <2>1. ASSUME pc' \in {"work", "tags"}, after' = "tags"
          PROVE  task' = KernelTask /\ ~disturbed' /\ entry' = Kernel
      <3>1. CASE LoadOs \/ MemoryWrite \/ NandRead \/ Bootm \/ SdLoad \/ Draw
        <4>1. Bootm /\ task' = KernelTask
          BY <2>1, <3>1, OrderOfCommands
        <4> QED BY <4>1 DEF Bootm
      <3>2. CASE WritePiece
        BY <2>1, <3>2 DEF WritePiece, Booting
      <3>3. CASE WriteDone
        BY <2>1, <3>3 DEF WriteDone, Booting
      <3>4. CASE InitTaglist \/ Go
        BY <2>1, <3>4 DEF InitTaglist, Go
      <3> QED BY <1>1, <2>1, <3>1, <3>2, <3>3, <3>4, PcOfBoard
    <2>2. ASSUME pc' \in {"jump", "running"}, after' = "tags"
          PROVE  Right(mem', KernelTask.wanted) /\ TagListParses(tags', CmdSize)
      <3>1. CASE WriteDone
        BY <2>2, <3>1 DEF WriteDone
      <3>2. CASE InitTaglist
        <4>1. pc = "tags" /\ after = "tags" /\ mem' = mem
          BY <2>2, <3>2 DEF InitTaglist
        <4>2. task = KernelTask /\ ~disturbed
          BY <4>1 DEF Booting
        <4>3. Right(mem, KernelTask.wanted)
          BY <4>1, <4>2 DEF Orders
        <4> QED BY <3>2, <4>1, <4>3, TagsAreWritten
      <3>3. CASE Go
        BY <2>2, <3>3 DEF Go
      <3>4. CASE Jump
        BY <2>2, <3>4 DEF Jump, Booting
      <3> QED BY <1>1, <2>2, <3>1, <3>2, <3>3, <3>4, PcOfBoard
    <2> QED BY <2>1, <2>2 DEF Booting
  <1>2. CASE Around
    <2>1. CASE Calm
      BY <2>1 DEF Calm, Booting
    <2>2. CASE pc' \in {"off", "prompt"} /\ task' = NoTask
      BY <2>2 DEF Booting
    <2> QED BY <1>2, <2>1, <2>2, AroundIsCalm
  <1> QED BY <1>1, <1>2 DEF Next, Around

\* Whatever was typed, sent, lost or pressed before: the kernel that bootm starts lies
\* in memory as in the flash, page for page, and finds the tags with the whole command
\* line, for every size of page, kernel and command line (command.c:197-246,
\* nand.c:54-95).
THEOREM KernelIsReady == Spec => []KernelGetsTags
  <1> DEFINE Inv == TypeOK /\ Orders /\ Booting
  <1>1. Init => Orders /\ Booting
    BY DEF Init, Orders, Booting, Quiet
  <1>2. Inv /\ [Next]_vars => Inv'
    BY TypeStep, OrdersStep, BootingStep
  <1>3. Inv => KernelGetsTags
    <2> SUFFICES ASSUME Booting, pc = "running", after = "tags", NEW a \in Places(Kernel, KernelBytes)
                 PROVE  /\ mem[a] = <<"nand", NandKernel + a - Kernel + 1>>
                        /\ TagListParses(tags, CmdSize)
      <3>1. ASSUME Booting, pc = "running", after = "tags" PROVE TagListParses(tags, CmdSize)
        BY <3>1 DEF Booting
      <3> QED BY <3>1 DEF KernelGetsTags
    <2>1. KernelTask.wanted = [x \in Places(Kernel, KernelBytes) |->
                                 <<"nand", NandKernel + x - Kernel + 1>>]
      BY DEF KernelTask, Task, Piece
    <2> QED BY <2>1 DEF Booting, Right
  <1>4. Init => TypeOK
    BY TypeAtFirst
  <1> QED BY <1>1, <1>2, <1>3, <1>4, PTL DEF Spec

-----------------------------------------------------------------------------
(* loadx: while nothing disturbs it, sender, line and receiver agree about *)
(* the byte they are at.                                                   *)

\* The first n bytes sent, from address from on.
Sent(from, n) == Piece(from, n, "sent", 0)

NotStarted(from) ==
  /\ host \in {"absent", "ready"} /\ addr = from /\ rx = <<>>
  /\ host = "ready" => item = 1
  /\ pc = "countdown" => tx = <<>>
  /\ pc = "packet" => at = 0 /\ (host = "ready" => tx \in {<<>>, <<"NAK">>})
PacketIsDue(from) ==
  /\ host = "sending" /\ pc = "packet" /\ at = 0 /\ rx = <<>> /\ tx = <<>>
  /\ addr = from + (item - 1) * PacketBytes
PacketComes(from) ==
  /\ host = "waiting" /\ pc = "packet" /\ item <= Packets /\ tx = <<>>
  /\ rx = SubSeq(Packet(item), at + 1, PacketBytes + 4)
  /\ addr = from + (item - 1) * PacketBytes + (IF at < 3 THEN 0 ELSE at - 3)
EndComes(from) ==
  /\ host = "waiting" /\ pc = "packet" /\ item = Packets + 1 /\ tx = <<>> /\ at = 0
  /\ rx = <<Sign("EOT", 0)>> /\ addr = from + (item - 1) * PacketBytes
PacketIsAnswered(from) ==
  /\ host = "waiting" /\ pc = "packet" /\ item <= Packets /\ tx = <<"ACK">> /\ at = 0
  /\ rx = <<>> /\ addr = from + item * PacketBytes

Agreed(from) ==
  /\ Right(mem, Sent(from, addr - from))
  /\ \/ NotStarted(from) \/ PacketIsDue(from) \/ PacketComes(from) \/ EndComes(from)
     \/ PacketIsAnswered(from)

LoadTask(from) == Task({a \in Addresses : a >= from}, Sent(from, Len(Image)))

Receiving ==
  pc \in {"countdown", "packet"} =>
    \E from \in Nat : task = LoadTask(from) /\ addr >= from /\ (~disturbed => Agreed(from))

LEMMA NothingSent ==
  ASSUME NEW m, NEW from \in Nat
  PROVE  Right(m, Sent(from, 0))
  BY NoPlaces DEF Right, Sent, Piece

LEMMA SentGrows ==
  ASSUME NEW m, DOMAIN m = Addresses, NEW from \in Nat, NEW n \in Nat, Right(m, Sent(from, n)),
         NEW b, b.what = <<"sent", n + 1>>
  PROVE  Right(StoreByte(m, from + n, b), Sent(from, n + 1))
  <1> DEFINE k == StoreByte(m, from + n, b)
             old == Sent(from, n)
             new == Sent(from, n + 1)
  <1>1. Addresses \subseteq Nat
    BY LayoutAssumption
  <1>2. /\ DOMAIN new = Places(from, n + 1) /\ DOMAIN old = Places(from, n)
        /\ \A a \in Places(from, n + 1) : new[a] = <<"sent", 0 + a - from + 1>>
        /\ \A a \in Places(from, n) : old[a] = <<"sent", 0 + a - from + 1>>
    BY DEF Sent, Piece
  <1> SUFFICES ASSUME NEW a \in DOMAIN new PROVE a \in Addresses /\ k[a] = new[a]
    BY DEF Right
  <1>3. a \in Addresses /\ a \in Nat /\ (a = from + n \/ a \in Places(from, n))
    BY <1>1, <1>2 DEF Places
  <1>4. CASE a = from + n
    <2>1. k[a] = b.what
      BY <1>3, <1>4 DEF StoreByte
    <2>2. 0 + a - from + 1 = n + 1
      BY <1>4
    <2> QED BY <1>2, <1>3, <2>1, <2>2
  <1>5. CASE a # from + n
    <2>1. a \in Places(from, n)
      BY <1>3, <1>5
    <2>2. k[a] = m[a]
      BY <1>3, <1>5 DEF StoreByte
    <2>3. m[a] = old[a]
      BY <1>2, <2>1 DEF Right
    <2> QED BY <1>2, <1>3, <2>1, <2>2, <2>3
  <1> QED BY <1>4, <1>5

\* What the receiver takes of a packet that comes.
LEMMA PacketComing ==
  ASSUME NEW k \in 1..Packets, NEW t \in 0..(PacketBytes + 3)
  PROVE  /\ SubSeq(Packet(k), t + 1, PacketBytes + 4) # <<>>
         /\ Head(SubSeq(Packet(k), t + 1, PacketBytes + 4)) = Packet(k)[t + 1]
         /\ Tail(SubSeq(Packet(k), t + 1, PacketBytes + 4))
              = SubSeq(Packet(k), (t + 1) + 1, PacketBytes + 4)
         /\ SubSeq(Packet(k), 0 + 1, PacketBytes + 4) = Packet(k)
         /\ SubSeq(Packet(k), (PacketBytes + 4) + 1, PacketBytes + 4) = <<>>
  <1> DEFINE p == Packet(k)
             n == PacketBytes + 4
  <1>1. PICK S : p \in Seq(S)
    BY PacketIs DEF IsSequence
  <1>2. Len(p) = n
    BY PacketIs
  <1>3. t + 1 \in 1..n
    BY ImageIs
  <1> HIDE DEF p, n
  <1>4. /\ SubSeq(p, t + 1, n) # <<>> /\ Head(SubSeq(p, t + 1, n)) = p[t + 1]
        /\ Tail(SubSeq(p, t + 1, n)) = SubSeq(p, (t + 1) + 1, n)
    BY <1>1, <1>2, <1>3, Suffix
  <1>5. SubSeq(p, n + 1, n) = <<>> /\ SubSeq(p, 1, n) = p
    BY ONLY <1>1, <1>2, NoSuffix
  <1>6. 0 + 1 = 1
    OBVIOUS
  <1> QED BY ONLY <1>4, <1>5, <1>6 DEF p, n

LEMMA LoadXStep ==
  ASSUME LoadX
  PROVE  Receiving'
  <1>1. PICK from \in Nat : addr' = from
    <2>1. Down \in Nat
      BY LayoutAssumption
    <2> QED BY <2>1, NumberIs DEF LoadX
  <1>2. /\ task' = LoadTask(from) /\ pc' = "countdown" /\ host' = "absent" /\ tx' = <<>>
        /\ disturbed' = (rx # <<>>) /\ rx' = rx
    BY <1>1 DEF LoadX, LoadTask, Sent
  <1>3. addr' >= from /\ addr' - from = 0
    BY <1>1
  <1>4. Right(mem', Sent(from, addr' - from))
    BY <1>3, NothingSent
  <1>5. ~disturbed' => NotStarted(from)'
    BY <1>1, <1>2 DEF NotStarted
  <1>6. ~disturbed' => Agreed(from)'
    BY <1>4, <1>5 DEF Agreed
  <1> QED BY <1>2, <1>3, <1>6 DEF Receiving

LEMMA ReceiveXStep ==
  ASSUME TypeOK, Receiving, ReceiveX, pc' \in {"countdown", "packet"}
  PROVE  Receiving'
  <1>0. PacketBytes \in Nat \ {0} /\ Packets \in Nat /\ item \in 1..(Packets + 1)
    BY ImageIs DEF TypeOK
  <1>1. pc \in {"countdown", "packet"} /\ task' = task /\ disturbed' = disturbed
        /\ UNCHANGED hostVars /\ pc' = "packet"
    BY DEF ReceiveX, StartNak, GetHeader, GetByte, GetChecksum
  <1>2. PICK from \in Nat : task = LoadTask(from) /\ addr >= from /\ (~disturbed => Agreed(from))
    BY <1>1 DEF Receiving
  <1>3. addr' >= from
    BY <1>2 DEF ReceiveX, StartNak, GetHeader, GetByte, GetChecksum, TypeOK
  <1>4. ASSUME ~disturbed PROVE Agreed(from)'
    <2>a. Agreed(from)
      BY <1>2, <1>4
    <2>1. CASE StartNak
      <3>1. NotStarted(from)
        BY <2>1, <2>a DEF StartNak, Agreed, PacketIsDue, PacketComes, EndComes, PacketIsAnswered
      <3>2. /\ pc = "countdown" /\ tx' = Append(tx, "NAK") /\ at' = 0
            /\ UNCHANGED <<mem, addr, rx>>
        BY <2>1 DEF StartNak
      <3>3. tx' = <<"NAK">>
        BY <3>1, <3>2 DEF NotStarted
      <3>4. NotStarted(from)'
        BY <1>1, <3>1, <3>2, <3>3 DEF NotStarted, hostVars
      <3> QED BY <2>a, <3>2, <3>4 DEF Agreed
    <2>2. CASE ~StartNak
      <3>1. /\ pc = "packet" /\ rx # <<>> /\ rx' = Tail(rx)
        BY <2>2 DEF ReceiveX, GetHeader, GetByte, GetChecksum
      <3>2. PacketComes(from) \/ EndComes(from)
        BY <2>a, <3>1 DEF Agreed, NotStarted, PacketIsDue, PacketIsAnswered
      <3>3. CASE EndComes(from)
        <4>1. GetHeader
          BY <1>0, <2>2, <3>3 DEF ReceiveX, EndComes, GetByte, GetChecksum
        <4>2. Head(rx).is = "EOT"
          <5>1. rx = <<Sign("EOT", 0)>> /\ Sign("EOT", 0).is = "EOT"
            BY <3>3 DEF EndComes, Sign
          <5> QED BY <5>1
        <4> QED BY <1>1, <4>1, <4>2 DEF GetHeader
      <3>4. CASE PacketComes(from)
        <4>1. /\ item \in 1..Packets /\ at \in 0..(PacketBytes + 3)
              /\ rx = SubSeq(Packet(item), at + 1, PacketBytes + 4)
              /\ addr = from + (item - 1) * PacketBytes + (IF at < 3 THEN 0 ELSE at - 3)
              /\ host = "waiting" /\ tx = <<>>
          BY <1>0, <3>1, <3>4 DEF PacketComes, TypeOK
        <4>2. /\ Head(rx) = Packet(item)[at + 1]
              /\ rx' = SubSeq(Packet(item), (at + 1) + 1, PacketBytes + 4)
          BY <3>1, <4>1, PacketComing
        <4> DEFINE lo == (item - 1) * PacketBytes
        <4>3. lo \in Nat /\ item * PacketBytes = lo + PacketBytes
          BY <1>0, <4>1
        <4> HIDE DEF lo
        <4>4. CASE GetHeader
          <5>1. at' = 1 /\ at = 0 /\ UNCHANGED <<mem, addr, tx>>
            BY <1>1, <4>4 DEF GetHeader
          <5>2. PacketComes(from)'
            BY <1>1, <4>1, <4>2, <5>1 DEF PacketComes, hostVars
          <5> QED BY <2>a, <5>1, <5>2 DEF Agreed
        <4>5. CASE GetByte /\ at <= 2
          <5>1. at' = at + 1 /\ UNCHANGED <<mem, addr, tx>>
            BY <4>5 DEF GetByte
          <5>2. (IF at' < 3 THEN 0 ELSE at' - 3) = 0 /\ (IF at < 3 THEN 0 ELSE at - 3) = 0
            BY <4>1, <4>5, <5>1
          <5>3. PacketComes(from)'
            BY <1>1, <4>1, <4>2, <5>1, <5>2 DEF PacketComes, hostVars
          <5> QED BY <2>a, <5>1, <5>3 DEF Agreed
        <4>6. CASE GetByte /\ at > 2
          <5>1. /\ at \in 3..(PacketBytes + 2) /\ at' = at + 1 /\ tx' = tx
                /\ mem' = StoreByte(mem, addr, Head(rx)) /\ addr' = addr + 1
            BY <1>0, <4>1, <4>6 DEF GetByte
          <5> DEFINE n == addr - from
          <5>2. n = lo + (at - 3) /\ n \in Nat /\ addr = from + n
            BY <1>0, <4>1, <4>3, <5>1 DEF lo
          <5>3. Head(rx).what = <<"sent", n + 1>>
            <6>1. at + 1 \in 4..(PacketBytes + 3)
              BY <1>0, <5>1
            <6>2. Packet(item)[at + 1].what = <<"sent", lo + (at + 1) - 3>>
              BY <4>1, <6>1, PacketIs DEF lo
            <6>3. lo + (at + 1) - 3 = n + 1
              BY <4>3, <5>1, <5>2
            <6> QED BY <4>2, <6>2, <6>3
          <5>4. Right(mem, Sent(from, n)) /\ DOMAIN mem = Addresses
            BY <2>a DEF Agreed, TypeOK
          <5>5. addr' - from = n + 1
            BY <5>1, <5>2
          <5> HIDE DEF n
          <5>6. Right(mem', Sent(from, n + 1))
            BY <5>1, <5>2, <5>3, <5>4, SentGrows
          <5>7. addr' = from + lo + (at' - 3) /\ ~(at' < 3)
            BY <4>3, <5>1, <5>2
          <5>8. PacketComes(from)'
            BY <1>1, <4>1, <4>2, <5>1, <5>7 DEF PacketComes, hostVars, lo
          <5> QED BY <5>5, <5>6, <5>8 DEF Agreed
        <4>7. CASE GetChecksum
          <5>1. /\ at = PacketBytes + 3 /\ at' = 0 /\ tx' = Append(tx, "ACK")
                /\ UNCHANGED <<mem, addr>>
            BY <4>7 DEF GetChecksum
          <5>2. rx' = <<>>
            <6>1. (at + 1) + 1 = (PacketBytes + 4) + 1
              BY <1>0, <5>1
            <6> QED BY <4>1, <4>2, <6>1, PacketComing
          <5>3. addr' = from + item * PacketBytes
            BY <1>0, <4>1, <4>3, <5>1 DEF lo
          <5>4. tx' = <<"ACK">>
            BY <4>1, <5>1
          <5>5. PacketIsAnswered(from)'
            BY <1>1, <4>1, <5>1, <5>2, <5>3, <5>4 DEF PacketIsAnswered, hostVars
          <5> QED BY <2>a, <5>1, <5>5 DEF Agreed
        <4>8. GetHeader \/ GetByte \/ GetChecksum
          BY <2>2 DEF ReceiveX
        <4>9. at <= 2 \/ at > 2
          BY <4>1
        <4> QED BY <4>4, <4>5, <4>6, <4>7, <4>8, <4>9
      <3> QED BY <3>2, <3>3, <3>4
    <2> QED BY <2>1, <2>2
  <1> QED BY <1>1, <1>2, <1>3, <1>4 DEF Receiving

LEMMA SendXStep ==
  ASSUME TypeOK, Receiving, SendX
  PROVE  Receiving'
  <1>0. PacketBytes \in Nat \ {0} /\ Packets \in Nat /\ item \in 1..(Packets + 1)
    BY ImageIs DEF TypeOK
  <1>1. UNCHANGED <<mem, pc, at, addr, disturbed, task>>
    BY DEF SendX, Host, HostStart, HostSend, HostReply, HostTimeout, consoleVars
  <1>2. SUFFICES ASSUME pc \in {"countdown", "packet"}
                 PROVE  \E from \in Nat : task = LoadTask(from) /\ addr >= from
                                          /\ (~disturbed => Agreed(from)')
    BY <1>1 DEF Receiving
  <1>3. PICK from \in Nat : task = LoadTask(from) /\ addr >= from /\ (~disturbed => Agreed(from))
    BY <1>2 DEF Receiving
  <1>4. ASSUME ~disturbed PROVE Agreed(from)'
    <2>a. Agreed(from)
      BY <1>3, <1>4
    <2>1. CASE HostStart
      <3>1. NotStarted(from)'
        BY <1>1, <1>2, <2>a, <2>1 DEF HostStart, Agreed, NotStarted, PacketIsDue, PacketComes,
                                      EndComes, PacketIsAnswered
      <3> QED BY <1>1, <2>a, <3>1 DEF Agreed
    <2>2. CASE HostSend
      <3>1. PacketIsDue(from)
        BY <2>a, <2>2 DEF HostSend, Agreed, NotStarted, PacketComes, EndComes, PacketIsAnswered
      <3>2. /\ host' = "waiting" /\ UNCHANGED <<tx, item>>
            /\ rx' = rx \o IF item <= Packets THEN Packet(item) ELSE <<Sign("EOT", 0)>>
        BY <2>2 DEF HostSend
      <3>3. CASE item <= Packets
        <4>1. item \in 1..Packets /\ 0 \in 0..(PacketBytes + 3)
          BY <1>0, <3>3
        <4>2. rx' = Packet(item)
          <5>1. PICK S : Packet(item) \in Seq(S)
            BY <4>1, PacketIs DEF IsSequence
          <5>2. <<>> \o Packet(item) = Packet(item)
            BY <5>1, ConcatEmptySeq
          <5> QED BY <3>1, <3>2, <3>3, <5>2 DEF PacketIsDue
        <4>3. rx' = SubSeq(Packet(item), at + 1, PacketBytes + 4)
          <5>1. at = 0
            BY <3>1 DEF PacketIsDue
          <5> QED BY <4>1, <4>2, <5>1, PacketComing
        <4>4. addr = from + (item - 1) * PacketBytes + 0
          BY <1>0, <3>1 DEF PacketIsDue
        <4>5. PacketComes(from)'
          BY <1>1, <3>1, <3>2, <3>3, <4>3, <4>4 DEF PacketIsDue, PacketComes
        <4> QED BY <1>1, <2>a, <4>5 DEF Agreed
      <3>4. CASE ~(item <= Packets)
        <4>1. item = Packets + 1
          BY <1>0, <3>4
        <4>2. rx' = <<Sign("EOT", 0)>>
          BY <3>1, <3>2, <3>4 DEF PacketIsDue
        <4>3. EndComes(from)'
          BY <1>1, <3>1, <3>2, <4>1, <4>2 DEF PacketIsDue, EndComes
        <4> QED BY <1>1, <2>a, <4>3 DEF Agreed
      <3> QED BY <3>3, <3>4
    <2>3. CASE HostReply
      <3>0. tx # <<>> /\ tx' = Tail(tx) /\ rx' = rx
        BY <2>3 DEF HostReply
      <3>1. CASE host = "ready"
        <4>1. NotStarted(from) /\ pc = "packet"
          BY <1>2, <2>a, <3>0, <3>1 DEF Agreed, NotStarted, PacketIsDue, PacketComes, EndComes,
                                        PacketIsAnswered
        <4>2. tx = <<"NAK">> /\ item = 1 /\ at = 0 /\ rx = <<>> /\ addr = from
          BY <3>0, <3>1, <4>1 DEF NotStarted
        <4>3. host' = "sending" /\ item' = 1 /\ tx' = <<>>
          BY <2>3, <3>0, <3>1, <4>2 DEF HostReply
        <4>4. addr = from + (1 - 1) * PacketBytes
          BY <1>0, <4>2
        <4>5. PacketIsDue(from)'
          BY <1>1, <3>0, <4>1, <4>2, <4>3, <4>4 DEF PacketIsDue
        <4> QED BY <1>1, <2>a, <4>5 DEF Agreed
      <3>2. CASE host = "waiting"
        <4>1. PacketIsAnswered(from)
          BY <2>a, <3>0, <3>2 DEF Agreed, NotStarted, PacketIsDue, PacketComes, EndComes
        <4>2. tx' = <<>> /\ item <= Packets
          BY <3>0, <4>1 DEF PacketIsAnswered
        <4>3. host' = "sending" /\ item' = item + 1
          BY <1>0, <2>3, <3>2, <4>2 DEF HostReply
        <4>4. (item + 1) - 1 = item
          BY <1>0
        <4>5. PacketIsDue(from)'
          BY <1>1, <3>0, <4>1, <4>2, <4>3, <4>4 DEF PacketIsDue, PacketIsAnswered
        <4> QED BY <1>1, <2>a, <4>5 DEF Agreed
      <3> QED BY <2>3, <3>1, <3>2 DEF HostReply
    <2>4. CASE HostTimeout
      <3>1. host = "waiting" /\ tx = <<>> /\ rx = <<>>
        BY <2>4 DEF HostTimeout
      <3>2. CASE PacketComes(from)
        <4>1. pc = "packet" /\ item \in 1..Packets /\ at \in 0..(PacketBytes + 3)
          BY <1>0, <3>2 DEF PacketComes, TypeOK
        <4> QED BY <3>1, <3>2, <4>1, PacketComing DEF PacketComes
      <3>3. CASE EndComes(from)
        BY <3>1, <3>3 DEF EndComes
      <3>4. CASE PacketIsAnswered(from)
        BY <3>1, <3>4 DEF PacketIsAnswered
      <3> QED BY <2>a, <3>1, <3>2, <3>3, <3>4 DEF Agreed, NotStarted, PacketIsDue
    <2> QED BY <2>1, <2>2, <2>3, <2>4 DEF SendX, Host
  <1> QED BY <1>3, <1>4

LEMMA ReceivingStep ==
  ASSUME TypeOK, Orders, Receiving, [Next]_vars
  PROVE  Receiving'
  <1>1. CASE Board
    <2> SUFFICES ASSUME pc' \in {"countdown", "packet"} PROVE Receiving'
      BY DEF Receiving
    <2> QED BY <1>1, PcOfBoard, LoadXStep, ReceiveXStep
  <1>2. CASE TypeLine
    BY <1>2 DEF TypeLine, Receiving
  <1>3. CASE PressKey
    <2>1. UNCHANGED <<mem, pc, addr, task>> /\ (pc = "countdown" => disturbed') /\ pc # "packet"
      BY <1>3 DEF PressKey
    <2> QED BY <2>1 DEF Receiving
  <1>4. CASE SendRaw
    BY <1>4 DEF SendRaw, Receiving
  <1>5. CASE ProgramReturns
    BY <1>5 DEF ProgramReturns, Receiving
  <1>6. CASE SendX
    BY <1>6, SendXStep
  <1>7. CASE LineFault
    <2>1. UNCHANGED <<mem, pc, addr, task>> /\ disturbed'
      BY <1>7 DEF LineFault, Line, StrayByte, LoseByte, LoseAnswer, Fault, consoleVars
    <2> QED BY <2>1 DEF Receiving
  <1>8. CASE PowerCycle
    BY <1>8 DEF PowerCycle, Receiving
  <1>9. CASE UNCHANGED vars
    <2>1. UNCHANGED <<mem, pc, at, addr, rx, tx, host, item, disturbed, task>>
      BY <1>9 DEF vars, xmodemVars, consoleVars, hostVars
    <2> QED BY <2>1 DEF Receiving, Agreed, NotStarted, PacketIsDue, PacketComes, EndComes,
                        PacketIsAnswered
  <1> QED BY <1>1, <1>2, <1>3, <1>4, <1>5, <1>6, <1>7, <1>8, <1>9 DEF Next

\* An undisturbed transfer that ends has brought the file.
LEMMA EndBringsAll ==
  ASSUME TypeOK, Receiving, pc = "packet", GetHeader, Head(rx).is = "EOT", ~disturbed
  PROVE  Right(mem, task.wanted)
  <1>0. PacketBytes \in Nat \ {0} /\ Packets \in Nat /\ item \in 1..(Packets + 1)
        /\ Len(Image) = PacketBytes * Packets
    BY ImageIs DEF TypeOK
  <1>1. PICK from \in Nat : task = LoadTask(from) /\ Agreed(from)
    BY DEF Receiving
  <1>2. rx # <<>> /\ at = 0
    BY DEF GetHeader
  <1>3. ~PacketComes(from)
    <2> SUFFICES ASSUME PacketComes(from) PROVE FALSE
      OBVIOUS
    <2>1. item \in 1..Packets /\ 0 \in 0..(PacketBytes + 3)
      BY <1>0 DEF PacketComes
    <2>2. Head(rx) = Packet(item)[0 + 1]
      BY <1>2, <2>1, PacketComing DEF PacketComes
    <2>3. Packet(item)[1].is = "SOH"
      BY <2>1, PacketIs
    <2> QED BY <2>2, <2>3
  <1>4. EndComes(from)
    BY <1>1, <1>2, <1>3 DEF Agreed, NotStarted, PacketIsDue, PacketIsAnswered
  <1>5. addr - from = Len(Image)
    <2>1. addr = from + ((Packets + 1) - 1) * PacketBytes
      BY <1>4 DEF EndComes
    <2>2. ((Packets + 1) - 1) * PacketBytes = PacketBytes * Packets /\ PacketBytes * Packets \in Nat
      BY <1>0
    <2> QED BY <1>0, <2>1, <2>2
  <1>6. task.wanted = Sent(from, Len(Image))
    BY <1>1 DEF LoadTask, Task
  <1> QED BY <1>1, <1>5, <1>6 DEF Agreed

\* An undisturbed transfer stores only within the file's places.
LEMMA BytesStayWithin ==
  ASSUME TypeOK, NEW from \in Nat, Agreed(from), GetByte, at > 2
  PROVE  addr - from \in 0..(Len(Image) - 1)
  <1>0. PacketBytes \in Nat \ {0} /\ Packets \in Nat /\ item \in 1..(Packets + 1)
        /\ Len(Image) = PacketBytes * Packets
    BY ImageIs DEF TypeOK
  <1>1. rx # <<>> /\ pc = "packet" /\ at \in 3..(PacketBytes + 2)
    BY <1>0 DEF GetByte
  <1>2. PacketComes(from)
    BY <1>0, <1>1 DEF Agreed, NotStarted, PacketIsDue, EndComes, PacketIsAnswered
  <1> DEFINE lo == (item - 1) * PacketBytes
  <1>3. addr = from + lo + (at - 3) /\ item \in 1..Packets
    BY <1>0, <1>1, <1>2 DEF PacketComes
  <1>4. lo \in Nat /\ lo + PacketBytes = PacketBytes * item
    BY <1>0, <1>3
  <1>5. PacketBytes * item <= PacketBytes * Packets
    BY <1>0, <1>3
  <1>6. PacketBytes * Packets \in Nat /\ PacketBytes * item \in Nat
    BY <1>0, <1>3
  <1> HIDE DEF lo
  <1> QED BY <1>0, <1>1, <1>3, <1>4, <1>5, <1>6

-----------------------------------------------------------------------------
(* loadb: raw bytes.                                                       *)

Raw ==
  pc = "raw" =>
    \E size \in Nat :
      /\ task = Task(Places(Down, size), Sent(Down, size))
      /\ at \in 1..size /\ addr = Down + (size - at) /\ host \in {"absent", "done"}
      /\ ~disturbed =>
           /\ Right(mem, Sent(Down, size - at))
           /\ host = "absent" => rx = <<>> /\ at = size
           /\ host = "done" =>
                size - at <= Len(Image) /\ rx = SubSeq(Image, (size - at) + 1, Len(Image))

\* The byte that loadb takes.
LEMMA RawByteIs ==
  ASSUME NEW n \in Nat, n <= Len(Image), rx = SubSeq(Image, n + 1, Len(Image)), rx # <<>>
  PROVE  /\ n + 1 <= Len(Image) /\ Head(rx).what = <<"sent", n + 1>>
         /\ Tail(rx) = SubSeq(Image, (n + 1) + 1, Len(Image))
  <1>1. Image \in Seq(Byte) /\ Len(Image) \in Nat
    BY ImageIs
  <1>2. n # Len(Image)
    <2> SUFFICES ASSUME n = Len(Image) PROVE FALSE
      OBVIOUS
    <2> QED BY <1>1, NoSuffix
  <1>3. n + 1 \in 1..Len(Image)
    BY <1>1, <1>2
  <1>4. Head(rx) = Image[n + 1] /\ Tail(rx) = SubSeq(Image, (n + 1) + 1, Len(Image))
    BY <1>1, <1>3, Suffix
  <1> QED BY <1>3, <1>4, ImageIs

\* What a byte of loadb does: it stays within the command's places, and undisturbed it
\* brings the next byte of the file.
LEMMA RawByteStep ==
  ASSUME TypeOK, Raw, GetRawByte
  PROVE  \E size \in Nat :
           /\ task = Task(Places(Down, size), Sent(Down, size))
           /\ at \in 1..size /\ addr = Down + (size - at)
           /\ ~disturbed => /\ Right(mem', Sent(Down, size - (at - 1))) /\ host = "done"
                            /\ size - (at - 1) <= Len(Image)
                            /\ rx' = SubSeq(Image, (size - (at - 1)) + 1, Len(Image))
  <1>1. /\ pc = "raw" /\ rx # <<>> /\ rx' = Tail(rx) /\ mem' = StoreByte(mem, addr, Head(rx))
    BY DEF GetRawByte
  <1>2. PICK size \in Nat :
          /\ task = Task(Places(Down, size), Sent(Down, size))
          /\ at \in 1..size /\ addr = Down + (size - at) /\ host \in {"absent", "done"}
          /\ ~disturbed =>
               /\ Right(mem, Sent(Down, size - at))
               /\ host = "absent" => rx = <<>> /\ at = size
               /\ host = "done" =>
                    size - at <= Len(Image) /\ rx = SubSeq(Image, (size - at) + 1, Len(Image))
    BY <1>1 DEF Raw
  <1>3. ASSUME ~disturbed
        PROVE  /\ Right(mem', Sent(Down, size - (at - 1))) /\ host = "done"
               /\ size - (at - 1) <= Len(Image)
               /\ rx' = SubSeq(Image, (size - (at - 1)) + 1, Len(Image))
    <2> DEFINE n == size - at
    <2>1. n \in Nat /\ size - (at - 1) = n + 1 /\ addr = Down + n
      BY <1>2
    <2>2. /\ Right(mem, Sent(Down, n)) /\ host = "done"
          /\ n <= Len(Image) /\ rx = SubSeq(Image, n + 1, Len(Image))
      BY <1>1, <1>2, <1>3
    <2> HIDE DEF n
    <2>3. /\ n + 1 <= Len(Image) /\ Head(rx).what = <<"sent", n + 1>>
          /\ Tail(rx) = SubSeq(Image, (n + 1) + 1, Len(Image))
      BY <1>1, <2>1, <2>2, RawByteIs
    <2>4. Down \in Nat /\ DOMAIN mem = Addresses
      BY LayoutAssumption DEF TypeOK
    <2>5. Right(mem', Sent(Down, n + 1))
      BY <1>1, <2>1, <2>2, <2>3, <2>4, SentGrows
    <2> QED BY <1>1, <2>1, <2>2, <2>3, <2>5
  <1> QED BY <1>2, <1>3

LEMMA RawStep ==
  ASSUME TypeOK, Orders, Raw, [Next]_vars
  PROVE  Raw'
  <1>1. CASE Board
    <2> SUFFICES ASSUME pc' = "raw" PROVE Raw'
      BY DEF Raw
    <2>1. CASE LoadB
      <3> DEFINE size == Number(2, 0)
      <3>1. size \in Nat
        BY NumberIs
      <3>2. /\ at' = size /\ size # 0 /\ addr' = Down /\ host' = "absent" /\ rx' = rx
            /\ disturbed' = (rx # <<>>)
        BY <2>1 DEF LoadB
      <3>3. task' = Task(Places(Down, size), Sent(Down, size))
        BY <2>1, <3>2 DEF LoadB, Sent
      <3> HIDE DEF size
      <3>4. at' \in 1..size /\ size - at' = 0 /\ addr' = Down + (size - at') /\ Down \in Nat
        <4>1. Down \in Nat
          BY LayoutAssumption
        <4> QED BY <3>1, <3>2, <4>1
      <3>5. Right(mem', Sent(Down, size - at'))
        BY <3>4, NothingSent
      <3> QED BY <3>1, <3>2, <3>3, <3>4, <3>5 DEF Raw
    <2>2. CASE GetRawByte
      <3>1. /\ at' = at - 1 /\ addr' = addr + 1 /\ at # 1 /\ UNCHANGED <<task, host, disturbed>>
        BY <2>2 DEF GetRawByte, hostVars
      <3>2. PICK size \in Nat :
              /\ task = Task(Places(Down, size), Sent(Down, size))
              /\ at \in 1..size /\ addr = Down + (size - at)
              /\ ~disturbed => /\ Right(mem', Sent(Down, size - (at - 1))) /\ host = "done"
                               /\ size - (at - 1) <= Len(Image)
                               /\ rx' = SubSeq(Image, (size - (at - 1)) + 1, Len(Image))
        BY <2>2, RawByteStep
      <3>3. at' \in 1..size /\ addr' = Down + (size - at')
        <4>1. Down \in Nat
          BY LayoutAssumption
        <4> QED BY <3>1, <3>2, <4>1
      <3>4. host \in {"absent", "done"}
        BY <2>2 DEF GetRawByte, Raw
      <3> QED BY <3>1, <3>2, <3>3, <3>4 DEF Raw
    <2> QED BY <1>1, <2>1, <2>2, PcOfBoard
  <1>2. CASE TypeLine
    BY <1>2 DEF TypeLine, Raw
  <1>3. CASE PressKey
    <2>1. UNCHANGED <<mem, pc, at, addr, task, host>> /\ (pc = "raw" => disturbed')
      BY <1>3 DEF PressKey, hostVars
    <2> QED BY <2>1 DEF Raw
  <1>4. CASE SendRaw
    <2>1. /\ UNCHANGED <<mem, pc, at, addr, task, disturbed>> /\ pc = "raw" /\ host = "absent"
          /\ rx' = rx \o Image /\ host' = "done"
      BY <1>4 DEF SendRaw, consoleVars
    <2>2. PICK size \in Nat :
          /\ task = Task(Places(Down, size), Sent(Down, size))
          /\ at \in 1..size /\ addr = Down + (size - at)
          /\ ~disturbed => Right(mem, Sent(Down, size - at)) /\ rx = <<>> /\ at = size
      BY <2>1 DEF Raw
    <2>3. ASSUME ~disturbed
          PROVE  size - at <= Len(Image) /\ rx' = SubSeq(Image, (size - at) + 1, Len(Image))
      <3>1. Image \in Seq(Byte) /\ Len(Image) \in Nat
        BY ImageIs
      <3>2. size - at = 0 /\ (size - at) + 1 = 1
        BY <2>2, <2>3
      <3>3. rx' = Image
        BY <2>1, <2>2, <2>3, <3>1, ConcatEmptySeq
      <3>4. SubSeq(Image, 1, Len(Image)) = Image
        BY <3>1, NoSuffix
      <3> QED BY <3>1, <3>2, <3>3, <3>4
    <2> QED BY <2>1, <2>2, <2>3 DEF Raw
  <1>5. CASE ProgramReturns
    BY <1>5 DEF ProgramReturns, Raw
  <1>6. CASE SendX
    <2>1. pc # "raw" \/ host \notin {"absent", "done"}
      BY <1>6 DEF SendX, Host, HostStart, HostSend, HostReply, HostTimeout
    <2>2. pc' = pc
      BY <1>6 DEF SendX, Host, HostStart, HostSend, HostReply, HostTimeout
    <2> QED BY <2>1, <2>2 DEF Raw
  <1>7. CASE LineFault
    BY <1>7 DEF LineFault, Line, StrayByte, LoseByte, LoseAnswer, Fault, Raw
  <1>8. CASE PowerCycle
    BY <1>8 DEF PowerCycle, Raw
  <1>9. CASE UNCHANGED vars
    <2>1. UNCHANGED <<mem, pc, at, addr, rx, host, disturbed, task>>
      BY <1>9 DEF vars, xmodemVars, consoleVars, hostVars
    <2> QED BY <2>1 DEF Raw
  <1> QED BY <1>1, <1>2, <1>3, <1>4, <1>5, <1>6, <1>7, <1>8, <1>9 DEF Next

-----------------------------------------------------------------------------
(* The refinement of Monitor: each step of the loader is a step of Monitor *)
(* or changes nothing that Monitor sees.                                   *)

LEMMA ModeIs ==
  /\ pc = "off" => modeBar = "off"
  /\ pc = "running" => modeBar = "started"
  /\ pc = "lost" => modeBar = "lost"
  /\ pc \notin {"off", "running", "lost"} => modeBar = "console"
  BY DEF modeBar

LEMMA NextModeIs ==
  /\ pc' = "off" => modeBar' = "off"
  /\ pc' = "running" => modeBar' = "started"
  /\ pc' = "lost" => modeBar' = "lost"
  /\ pc' \notin {"off", "running", "lost"} => modeBar' = "console"
  BY DEF modeBar

Step == Promise!Next \/ UNCHANGED Promise!vars

LEMMA Stutters ==
  ASSUME UNCHANGED <<mem, task, disturbed>>,
         pc' = pc \/ (pc \notin {"off", "running", "lost"} /\ pc' \notin {"off", "running", "lost"})
  PROVE  Step
  <1>1. modeBar' = modeBar
    <2>1. CASE pc' = pc
      BY <2>1 DEF modeBar
    <2>2. CASE pc' # pc
      BY <2>2, ModeIs, NextModeIs
    <2> QED BY <2>1, <2>2
  <1> QED BY <1>1 DEF Step, Promise!vars

LEMMA Works ==
  ASSUME pc \notin {"off", "running", "lost"}, pc' \notin {"off", "running"},
         \A a \in DOMAIN mem \ task.cells : mem'[a] = mem[a], task' = task,
         task # NoTask /\ disturbed => disturbed'
  PROVE  Step
  <1>1. modeBar = "console" /\ modeBar' \in {"console", "lost"}
    BY ModeIs, NextModeIs
  <1>2. Promise!Work
    BY <1>1 DEF Promise!Work, Promise!Kept, Promise!None, NoTask
  <1> QED BY <1>2 DEF Step, Promise!Next

LEMMA Begins ==
  ASSUME pc \notin {"off", "running", "lost"}, pc' \notin {"off", "running", "lost"},
         task = NoTask, mem' = mem
  PROVE  Step
  <1>1. modeBar = "console" /\ modeBar' = "console"
    BY ModeIs, NextModeIs
  <1>2. CASE task' = NoTask
    BY <1>2, Works
  <1>3. CASE task' # NoTask
    BY <1>1, <1>3 DEF Step, Promise!Next, Promise!Begin, Promise!None, NoTask
  <1> QED BY <1>2, <1>3

LEMMA Finishes ==
  ASSUME pc \notin {"off", "running", "lost"}, pc' # "off",
         \A a \in DOMAIN mem \ task.cells : mem'[a] = mem[a],
         disturbed \/ Right(mem', task.wanted), task' = NoTask, disturbed' = disturbed
  PROVE  Step
  <1>1. modeBar = "console" /\ modeBar' \in {"console", "started", "lost"}
    BY ModeIs, NextModeIs
  <1>2. disturbed \/ Promise!Met
    BY DEF Promise!Met, Right
  <1>3. Promise!Finish
    BY <1>1, <1>2 DEF Promise!Finish, Promise!Kept, Promise!None, NoTask
  <1> QED BY <1>3 DEF Step, Promise!Next

LEMMA StoreByteKeeps ==
  ASSUME NEW m, NEW k, NEW b, NEW a \in DOMAIN m, a # k
  PROVE  StoreByte(m, k, b)[a] = m[a]
  BY DEF StoreByte

Inv == TypeOK /\ Orders /\ Booting /\ Receiving /\ Raw

LEMMA ReceiveXRefines ==
  ASSUME Inv, ReceiveX
  PROVE  Step
  <1>1. CASE StartNak
    BY <1>1, Stutters DEF StartNak, ReceiveX, GetHeader, GetByte, GetChecksum
  <1>2. CASE GetChecksum
    BY <1>2, Stutters DEF GetChecksum, ReceiveX, StartNak, GetHeader, GetByte
  <1>3. CASE GetHeader /\ Head(rx).is # "EOT"
    BY <1>3, Stutters DEF GetHeader, ReceiveX, StartNak, GetChecksum, GetByte
  <1>4. CASE GetHeader /\ Head(rx).is = "EOT"
    <2>1. /\ pc = "packet" /\ pc' = "prompt" /\ UNCHANGED <<mem, disturbed>>
      BY <1>4 DEF GetHeader
    <2>2. task' = NoTask
      BY <2>1 DEF ReceiveX
    <2>3. disturbed \/ Right(mem, task.wanted)
      BY <1>4, <2>1, EndBringsAll DEF Inv
    <2> QED BY <2>1, <2>2, <2>3, Finishes
  <1>5. CASE GetByte
    <2>1. /\ pc = "packet" /\ disturbed' = disturbed
          /\ mem' = mem \/ mem' = StoreByte(mem, addr, Head(rx))
      BY <1>5 DEF GetByte
    <2>2. pc' \in {"packet", "lost"} /\ task' = task
      BY <1>5, <2>1 DEF ReceiveX, GetByte, StartNak, GetHeader, GetChecksum
    <2>3. PICK from \in Nat : task = LoadTask(from) /\ addr >= from
      BY <2>1 DEF Inv, Receiving
    <2>4. task.cells = {a \in Addresses : a >= from} /\ DOMAIN mem = Addresses
      BY <2>3 DEF LoadTask, Task, Inv, TypeOK
    <2>5. ASSUME NEW a \in DOMAIN mem \ task.cells PROVE mem'[a] = mem[a]
      <3>1. a # addr
        BY <2>3, <2>4, <2>5
      <3> QED BY <2>1, <2>5, <3>1, StoreByteKeeps
    <2> QED BY <2>1, <2>2, <2>5, Works
  <1> QED BY <1>1, <1>2, <1>3, <1>4, <1>5 DEF ReceiveX

LEMMA RawRefines ==
  ASSUME Inv, GetRawByte
  PROVE  Step
  <1>1. /\ pc = "raw" /\ disturbed' = disturbed /\ mem' = StoreByte(mem, addr, Head(rx))
        /\ pc' = IF at = 1 THEN "prompt" ELSE pc
        /\ task' = IF at = 1 THEN NoTask ELSE task
    BY DEF GetRawByte
  <1>2. PICK size \in Nat :
           /\ task = Task(Places(Down, size), Sent(Down, size))
           /\ at \in 1..size /\ addr = Down + (size - at)
           /\ ~disturbed => Right(mem', Sent(Down, size - (at - 1)))
    BY RawByteStep DEF Inv
  <1>3. Down \in Nat /\ DOMAIN mem = Addresses
    BY LayoutAssumption DEF Inv, TypeOK
  <1>4. task.cells = Places(Down, size) /\ task.wanted = Sent(Down, size)
    BY <1>2 DEF Task
  <1>5. ASSUME NEW a \in DOMAIN mem \ task.cells PROVE mem'[a] = mem[a]
    <2>1. a # addr
      <3>1. addr \in Down..(Down + size - 1)
        BY <1>2, <1>3
      <3> QED BY <1>3, <1>4, <1>5, <3>1 DEF Places
    <2> QED BY <1>1, <1>5, <2>1, StoreByteKeeps
  <1>6. CASE at = 1
    <2>1. size - (at - 1) = size
      BY <1>2, <1>6
    <2>2. disturbed \/ Right(mem', task.wanted)
      BY <1>2, <1>4, <2>1
    <2> QED BY <1>1, <1>5, <1>6, <2>2, Finishes
  <1>7. CASE at # 1
    BY <1>1, <1>5, <1>7, Works
  <1> QED BY <1>6, <1>7

LEMMA BoardRefines ==
  ASSUME Inv, Board
  PROVE  Step
  <1>0. TypeOK /\ Orders
    BY DEF Inv
  <1>1. CASE FirstStage
    <2>1. modeBar = "off" /\ modeBar' \in {"console", "lost"} /\ task' = task
      <3>1. pc = "off" /\ pc' \in {"wait", "lost"} /\ task' = task
        BY <1>1 DEF FirstStage
      <3> QED BY <3>1, ModeIs, NextModeIs
    <2> QED BY <2>1 DEF Step, Promise!Next, Promise!TurnOn
  <1>2. CASE KeyWait
    BY <1>2, Stutters DEF KeyWait, consoleVars
  <1>3. CASE ReadIni
    BY <1>3, Stutters DEF ReadIni
  <1>4. CASE LoadOs \/ MemoryWrite \/ NandRead \/ Bootm \/ SdLoad \/ Draw
    <2>1. pc' = "work" /\ mem' = mem
      BY <1>0, <1>4, OrderOfCommands
    <2>2. pc \in {"os", "do"}
      BY <1>4 DEF LoadOs, MemoryWrite, NandRead, Bootm, SdLoad, Draw, Do
    <2>3. task = NoTask
      BY <1>0, <2>2 DEF Orders, Quiet
    <2> QED BY <2>1, <2>2, <2>3, Begins
  <1>5. CASE GetLine
    BY <1>5, Stutters DEF GetLine
  <1>6. CASE LoadX \/ LoadB
    <2>1. pc = "do" /\ mem' = mem /\ pc' \in {"countdown", "prompt", "raw"}
      BY <1>6 DEF LoadX, LoadB, Do
    <2>2. task = NoTask
      BY <1>0, <2>1 DEF Orders, Quiet
    <2> QED BY <2>1, <2>2, Begins
  <1>7. CASE Go
    BY <1>7, Stutters DEF Go, Do
  <1>8. CASE Idle
    BY <1>8, Stutters DEF Idle
  <1>9. CASE WritePiece
    <2>1. /\ pc = "work" /\ pc' \in {"work", "lost"} /\ task' = task /\ disturbed' = disturbed
          /\ mem' = Overlay(mem, Head(work)) /\ work # <<>>
      BY <1>9 DEF WritePiece
    <2>2. DOMAIN Head(work) \subseteq task.cells
      BY <1>0, <2>1, PieceInOrder DEF Orders, TypeOK
    <2>3. \A a \in DOMAIN mem \ task.cells : mem'[a] = mem[a]
      BY <2>1, <2>2 DEF Overlay
    <2> QED BY <2>1, <2>3, Works
  <1>10. CASE WriteDone /\ after = "prompt"
    <2>1. /\ pc = "work" /\ pc' = "prompt" /\ task' = NoTask /\ UNCHANGED <<mem, disturbed>>
          /\ work = <<>>
      BY <1>10 DEF WriteDone
    <2>2. disturbed \/ Right(mem, task.wanted)
      BY <1>0, <2>1, DoneInOrder DEF Orders
    <2> QED BY <2>1, <2>2, Finishes
  <1>11. CASE WriteDone /\ after # "prompt"
    <2>1. /\ pc = "work" /\ pc' \in {"tags", "jump"} /\ UNCHANGED <<mem, task, disturbed>>
      BY <1>0, <1>11 DEF WriteDone, TypeOK
    <2> QED BY <2>1, Stutters
  <1>12. CASE InitTaglist
    BY <1>12, Stutters DEF InitTaglist
  <1>13. CASE Jump
    <2>1. /\ pc = "jump" /\ pc' \in {"running", "lost"} /\ task' = NoTask
          /\ UNCHANGED <<mem, disturbed>>
      BY <1>13 DEF Jump
    <2>2. disturbed \/ Right(mem, task.wanted)
      BY <1>0, <2>1 DEF Orders
    <2> QED BY <2>1, <2>2, Finishes
  <1>14. CASE ReceiveX
    BY <1>14, ReceiveXRefines
  <1>15. CASE GetRawByte
    BY <1>15, RawRefines
  <1> QED BY <1>1, <1>2, <1>3, <1>4, <1>5, <1>6, <1>7, <1>8, <1>9, <1>10, <1>11, <1>12,
             <1>13, <1>14, <1>15 DEF Board, Commands

LEMMA AroundRefines ==
  ASSUME Inv, Around
  PROVE  Step
  <1>0. TypeOK /\ Orders
    BY DEF Inv
  <1>1. CASE Calm
    <2>1. CASE disturbed' = disturbed
      BY <1>1, <2>1, Stutters DEF Calm
    <2>2. CASE disturbed' # disturbed
      <3>1. disturbed' = TRUE /\ pc \in {"countdown", "packet", "raw"}
        BY <1>1, <2>2 DEF Calm
      <3> QED BY <1>1, <3>1, Works DEF Calm
    <2> QED BY <2>1, <2>2
  <1>2. CASE PowerCycle
    <2>1. pc' = "off" /\ task' = NoTask
      BY <1>2 DEF PowerCycle
    <2>2. Promise!TurnOff
      BY <2>1, NextModeIs DEF Promise!TurnOff, Promise!None, NoTask
    <2> QED BY <2>2 DEF Step, Promise!Next
  <1>3. CASE ProgramReturns
    <2>1. pc = "running" /\ pc' = "prompt" /\ UNCHANGED <<mem, task, disturbed>>
      BY <1>3 DEF ProgramReturns, consoleVars
    <2> QED BY <2>1, ModeIs, NextModeIs DEF Step, Promise!Next, Promise!Return
  <1>4. CASE TypeLine
    BY <1>4, Stutters DEF TypeLine
  <1>5. CASE PressKey
    BY <1>0, <1>1, <1>5 DEF PressKey, Calm, TypeOK
  <1>6. CASE SendRaw
    BY <1>6, Stutters DEF SendRaw, consoleVars
  <1>7. CASE SendX
    BY <1>7, Stutters DEF SendX, Host, HostStart, HostSend, HostReply, HostTimeout, consoleVars
  <1>8. CASE LineFault
    BY <1>1, <1>8 DEF LineFault, Line, StrayByte, LoseByte, LoseAnswer, Fault, consoleVars, Calm
  <1>9. CASE UNCHANGED vars
    BY <1>9, Stutters DEF vars, xmodemVars, consoleVars
  <1> QED BY <1>2, <1>3, <1>4, <1>5, <1>6, <1>7, <1>8, <1>9 DEF Around

LEMMA InvStep ==
  ASSUME Inv, [Next]_vars
  PROVE  Inv'
  BY TypeStep, OrdersStep, BootingStep, ReceivingStep, RawStep DEF Inv

LEMMA InvAtFirst == Init => Inv
  BY TypeAtFirst DEF Init, Inv, Orders, Quiet, Booting, Receiving, Raw

\* The loader keeps what Monitor promises, on every board and for every file, flash and
\* line typed: a command writes only to the memory that it names, it ends with
\* everything in place unless the card or the line failed it, and a program is started
\* only then (main.c:84-90, command.c:83-114, 227-246, nand.c:86-95, xmodem.c:21-30).
THEOREM TheLoaderIsAMonitor == Spec => ImplementsMonitor
  <1>1. Init => Promise!Init
    <2>1. Init => pc = "off" /\ task = NoTask /\ disturbed = FALSE
      BY DEF Init
    <2> QED BY <2>1, ModeIs DEF Promise!Init, Promise!None, NoTask
  <1>2. Inv /\ [Next]_vars => [Promise!Next]_(Promise!vars)
    <2> SUFFICES ASSUME Inv, [Next]_vars PROVE Step
      BY DEF Step
    <2> QED BY BoardRefines, AroundRefines DEF Next, Around
  <1>3. Inv /\ [Next]_vars => Inv'
    BY InvStep
  <1> QED BY <1>1, <1>2, <1>3, InvAtFirst, PTL DEF Spec, ImplementsMonitor, Promise!Spec

-----------------------------------------------------------------------------
(* What leads the board astray.                                            *)

\* The loader is whole while the board obeys it, and what is started next is a program
\* or was asked for by an order that leads astray.
OnCourse ==
  /\ pc \notin {"off", "lost"} => HasLoader(mem)
  /\ pc = "lost" => harmed
  /\ pc = "tags" => after = "tags"
  /\ pc = "work" /\ ~harmed => task.cells \cap LoaderPlaces = {}
  /\ pc \in {"countdown", "packet"} /\ ~harmed => DOMAIN task.wanted \cap LoaderPlaces = {}
  /\ pc = "os" /\ ~harmed => binfilename = <<OsName>>
  /\ pc = "work" /\ after = "jump" /\ ~harmed =>
       entry = Down /\ ~disturbed /\ task.wanted = Piece(Down, OsRead, "os", 0)
  /\ pc = "jump" /\ ~harmed => entry \in Addresses /\ mem[entry] \in ProgramStarts

\* Most steps neither write to memory nor start anything.
LEMMA KeepsCourse ==
  ASSUME OnCourse, mem' = mem, pc \notin {"off", "lost"},
         pc' \in {"wait", "auto", "prompt", "do", "raw", "running"}
  PROVE  OnCourse'
  BY DEF OnCourse, HasLoader

LEMMA StageIsWhole ==
  ASSUME TypeOK, FirstStage, ~harmed'
  PROVE  HasLoader(mem')
  <1>1. /\ Loader \in Nat /\ FileAddr \in Nat /\ Loader + LoaderBytes <= FileAddr
        /\ LoaderBytes \in Nat /\ StageBytes \in Nat /\ LoaderBytes <= StageBytes
        /\ Down \in Nat
    BY LayoutAssumption, StageAssumption
  <1>2. mem' = Overlay(Overlay(mem, LoaderImage(StageBytes)), Piece(FileAddr, FileBytes, "pixel", 0))
    BY DEF FirstStage
  <1> SUFFICES ASSUME NEW a \in LoaderPlaces PROVE mem'[a] = <<"loader", a - Loader + 1>>
    BY DEF HasLoader
  <1>3. a \in Addresses /\ a \in Nat /\ a < Loader + LoaderBytes /\ a \in Places(Loader, LoaderBytes)
    BY <1>1 DEF LoaderPlaces, Places
  <1>4. a \in Places(Loader, StageBytes)
    BY <1>1, <1>3, PlacesGrow
  <1>5. a \notin Places(FileAddr, FileBytes)
    BY <1>1, <1>3 DEF Places
  <1>6. DOMAIN LoaderImage(StageBytes) = Places(Loader, StageBytes)
        /\ LoaderImage(StageBytes)[a] = <<"loader", a - Loader + 1>>
    BY <1>4 DEF LoaderImage
  <1>7. DOMAIN Piece(FileAddr, FileBytes, "pixel", 0) = Places(FileAddr, FileBytes)
    BY DEF Piece
  <1>8. DOMAIN mem = Addresses
    BY DEF TypeOK
  <1> QED BY <1>2, <1>3, <1>4, <1>5, <1>6, <1>7, <1>8 DEF Overlay

LEMMA WrittenOnCourse ==
  ASSUME OnCourse, pc = "do", NEW pieces, NEW t, NEW next \in {"prompt", "tags"},
         Write(pieces, t, next)
  PROVE  OnCourse'
  <1>1. /\ mem' = mem /\ pc' = "work" /\ after' = next /\ task' = t
        /\ harmed' = (harmed \/ t.cells \cap LoaderPlaces # {})
    BY DEF Write
  <1> QED BY <1>1 DEF OnCourse, HasLoader

LEMMA CommandsOnCourse ==
  ASSUME TypeOK, OnCourse, Commands
  PROVE  OnCourse'
  <1>0. pc = "do"
    BY DEF Commands, MemoryWrite, NandRead, Bootm, SdLoad, Draw, LoadX, LoadB, Go, Idle, Do
  <1>1. CASE MemoryWrite
    <2>1. PICK pieces, t : Write(pieces, t, "prompt")
      BY <1>1 DEF MemoryWrite
    <2> QED BY <1>0, <2>1, WrittenOnCourse
  <1>2. CASE NandRead
    <2>1. PICK pieces, t : Write(pieces, t, "prompt")
      BY <1>2 DEF NandRead
    <2> QED BY <1>0, <2>1, WrittenOnCourse
  <1>3. CASE Bootm
    <2>1. PICK pieces, t : Write(pieces, t, "tags")
      BY <1>3 DEF Bootm
    <2> QED BY <1>0, <2>1, WrittenOnCourse
  <1>4. CASE SdLoad
    <2>1. PICK pieces, t : Write(pieces, t, "prompt")
      BY <1>4 DEF SdLoad
    <2> QED BY <1>0, <2>1, WrittenOnCourse
  <1>5. CASE Draw
    <2>1. PICK pieces, t : Write(pieces, t, "prompt")
      BY <1>5 DEF Draw
    <2> QED BY <1>0, <2>1, WrittenOnCourse
  <1>6. CASE LoadX
    <2>1. /\ pc' = "countdown" /\ mem' = mem
          /\ harmed' = (harmed \/ Places(addr', Len(Image)) \cap LoaderPlaces # {})
          /\ task' = Task({a \in Addresses : a >= addr'}, Piece(addr', Len(Image), "sent", 0))
      BY <1>6 DEF LoadX
    <2>2. DOMAIN task'.wanted = Places(addr', Len(Image))
      BY <2>1 DEF Task, Piece
    <2> QED BY <1>0, <2>1, <2>2 DEF OnCourse, HasLoader
  <1>7. CASE LoadB
    <2>1. pc' \in {"prompt", "raw"} /\ mem' = mem
      BY <1>7 DEF LoadB
    <2> QED BY <1>0, <2>1, KeepsCourse
  <1>8. CASE Go
    <2>1. /\ pc' = "jump" /\ mem' = mem
          /\ harmed' = (harmed \/ entry' \notin Addresses \/ mem[entry'] \notin ProgramStarts)
      BY <1>8 DEF Go
    <2> QED BY <1>0, <2>1 DEF OnCourse, HasLoader
  <1>9. CASE Idle
    BY <1>0, <1>9, KeepsCourse DEF Idle
  <1> QED BY <1>1, <1>2, <1>3, <1>4, <1>5, <1>6, <1>7, <1>8, <1>9 DEF Commands

\* The automatic start: what boot.ini names is brought whole, or something went wrong.
LEMMA AutoOnCourse ==
  ASSUME TypeOK, OnCourse, ReadIni \/ LoadOs
  PROVE  OnCourse'
  <1>1. CASE ReadIni
    <2>1. PICK ini \in Inis, tail \in StackTails : \E n \in 0..IniRead(ini) :
            /\ binfilename' = Content(get_key_value_os("OS", IniBuffer(ini, n, tail), <<"?">>))
            /\ harmed' = (harmed \/ n # IniRead(ini) \/ ~NamesOs(ini))
      BY <1>1 DEF ReadIni
    <2>2. ~harmed' => binfilename' = <<OsName>>
      BY <2>1, IniIsRead
    <2>3. pc = "auto" /\ pc' = "os" /\ mem' = mem
      BY <1>1 DEF ReadIni
    <2> QED BY <2>2, <2>3 DEF OnCourse, HasLoader
  <1>2. CASE LoadOs
    <2>1. PICK n \in 0..OsRead :
            /\ disturbed' = (n # OsRead)
            /\ harmed' = (harmed \/ (binfilename = <<OsName>> /\ n # OsRead))
      BY <1>2 DEF LoadOs
    <2>2. /\ pc = "os" /\ pc' = "work" /\ after' = "jump" /\ entry' = Down /\ mem' = mem
          /\ task' = Task(Places(Down, OsBytes),
                          IF ~harmed THEN Piece(Down, OsRead, "os", 0) ELSE <<>>)
      BY <1>2 DEF LoadOs
    <2>3. task'.cells \cap LoaderPlaces = {}
      <3>1. /\ Loader \in Nat /\ LoaderBytes \in Nat /\ Down \in Nat
            /\ Loader + LoaderBytes <= Down
        BY LayoutAssumption, StageAssumption
      <3>2. Places(Down, OsBytes) \cap LoaderPlaces = {}
        BY <3>1 DEF LoaderPlaces, Places
      <3> QED BY <2>2, <3>2 DEF Task
    <2>4. ASSUME ~harmed' PROVE ~disturbed' /\ task'.wanted = Piece(Down, OsRead, "os", 0)
      <3>1. ~harmed /\ binfilename = <<OsName>> /\ n = OsRead
        BY <2>1, <2>2, <2>4 DEF OnCourse
      <3> QED BY <2>1, <2>2, <3>1 DEF Task
    <2> QED BY <2>2, <2>3, <2>4 DEF OnCourse, HasLoader
  <1> QED BY <1>1, <1>2

LEMMA WorkOnCourse ==
  ASSUME Inv, OnCourse, WritePiece \/ WriteDone \/ InitTaglist \/ Jump
  PROVE  OnCourse'
  <1>1. CASE WritePiece
    <2>1. /\ pc = "work" /\ mem' = Overlay(mem, Head(work)) /\ work # <<>>
          /\ pc' = IF HasLoader(mem') THEN pc ELSE "lost"
          /\ UNCHANGED <<disturbed, after, entry, task, harmed>>
      BY <1>1 DEF WritePiece
    <2>2. CASE HasLoader(mem')
      BY <2>1, <2>2 DEF OnCourse
    <2>3. CASE ~HasLoader(mem')
      <3>1. PICK a \in LoaderPlaces : mem'[a] # <<"loader", a - Loader + 1>>
        BY <2>3 DEF HasLoader
      <3>2. a \in DOMAIN mem /\ mem[a] = <<"loader", a - Loader + 1>>
        BY <2>1 DEF Inv, TypeOK, LoaderPlaces, Places, OnCourse, HasLoader
      <3>3. a \in DOMAIN Head(work)
        BY <2>1, <3>1, <3>2 DEF Overlay
      <3>4. DOMAIN Head(work) \subseteq task.cells
        BY <2>1, PieceInOrder DEF Inv, Orders, TypeOK
      <3>5. harmed
        BY <2>1, <3>3, <3>4 DEF OnCourse
      <3> QED BY <2>1, <2>3, <3>5 DEF OnCourse
    <2> QED BY <2>2, <2>3
  <1>2. CASE WriteDone
    <2>1. /\ pc = "work" /\ work = <<>> /\ pc' = after /\ after' = after
          /\ UNCHANGED <<mem, disturbed, entry, harmed>>
      BY <1>2 DEF WriteDone
    <2>2. after \in {"prompt", "tags", "jump"}
      BY DEF Inv, TypeOK
    <2>3. ASSUME after = "jump", ~harmed
          PROVE  entry \in Addresses /\ mem[entry] \in ProgramStarts
      <3>1. entry = Down /\ ~disturbed /\ task.wanted = Piece(Down, OsRead, "os", 0)
        BY <2>1, <2>3 DEF OnCourse
      <3>2. Right(mem, Piece(Down, OsRead, "os", 0))
        BY <2>1, <3>1, DoneInOrder DEF Inv, Orders
      <3>3. Down \in Addresses /\ Down \in Nat /\ OsRead \in Nat \ {0}
        BY LayoutAssumption, FileAssumption DEF OsRead, Least
      <3>4. Down \in Places(Down, OsRead)
        BY <3>3 DEF Places
      <3>5. Piece(Down, OsRead, "os", 0)[Down] = <<"os", 0 + Down - Down + 1>>
            /\ Down \in DOMAIN Piece(Down, OsRead, "os", 0)
        BY <3>4 DEF Piece
      <3>6. 0 + Down - Down + 1 = 1
        BY <3>3
      <3>7. mem[Down] = <<"os", 1>>
        BY <3>2, <3>5, <3>6 DEF Right
      <3> QED BY <3>1, <3>3, <3>7 DEF ProgramStarts
    <2> QED BY <2>1, <2>2, <2>3 DEF OnCourse, HasLoader
  <1>3. CASE InitTaglist
    <2>1. pc = "tags" /\ pc' = "jump" /\ UNCHANGED <<mem, entry, after>>
      BY <1>3 DEF InitTaglist
    <2>2. task = KernelTask /\ ~disturbed /\ entry = Kernel
      BY <2>1 DEF OnCourse, Inv, Booting
    <2>3. Right(mem, KernelTask.wanted)
      BY <2>1, <2>2 DEF Inv, Orders
    <2>4. Kernel \in Addresses /\ Kernel \in Nat /\ KernelBytes \in Nat \ {0} /\ NandKernel \in Nat
      BY LayoutAssumption
    <2>5. Kernel \in Places(Kernel, KernelBytes)
      BY <2>4 DEF Places
    <2>6. KernelTask.wanted = Piece(Kernel, KernelBytes, "nand", NandKernel)
      BY DEF KernelTask, Task
    <2>7. /\ Kernel \in DOMAIN KernelTask.wanted
          /\ KernelTask.wanted[Kernel] = <<"nand", NandKernel + Kernel - Kernel + 1>>
      BY <2>5, <2>6 DEF Piece
    <2>8. NandKernel + Kernel - Kernel + 1 = NandKernel + 1
      BY <2>4
    <2>9. mem[Kernel] = <<"nand", NandKernel + 1>>
      BY <2>3, <2>7, <2>8 DEF Right
    <2>10. entry' \in Addresses /\ mem'[entry'] \in ProgramStarts
      BY <2>1, <2>2, <2>4, <2>9 DEF ProgramStarts
    <2> QED BY <2>1, <2>10 DEF OnCourse, HasLoader
  <1>4. CASE Jump
    <2>1. /\ pc = "jump" /\ mem' = mem /\ harmed' = harmed
          /\ pc' = IF entry \in Addresses /\ mem[entry] \in ProgramStarts THEN "running" ELSE "lost"
      BY <1>4 DEF Jump
    <2>2. CASE entry \in Addresses /\ mem[entry] \in ProgramStarts
      BY <2>1, <2>2, KeepsCourse
    <2>3. CASE ~(entry \in Addresses /\ mem[entry] \in ProgramStarts)
      BY <2>1, <2>3 DEF OnCourse
    <2> QED BY <2>2, <2>3
  <1> QED BY <1>1, <1>2, <1>3, <1>4

LEMMA SerialOnCourse ==
  ASSUME Inv, OnCourse, ReceiveX \/ GetRawByte
  PROVE  OnCourse'
  <1>1. CASE GetRawByte
    <2>1. /\ pc = "raw" /\ mem' = StoreByte(mem, addr, Head(rx)) /\ pc' \in {"raw", "prompt"}
      BY <1>1 DEF GetRawByte
    <2>2. addr \in Nat /\ addr >= Down
      <3>1. Down \in Nat
        BY LayoutAssumption
      <3> QED BY <2>1, <3>1 DEF Inv, Raw, TypeOK
    <2>3. /\ Loader \in Nat /\ LoaderBytes \in Nat /\ Down \in Nat
          /\ Loader + LoaderBytes <= Down
      BY LayoutAssumption, StageAssumption
    <2>4. ASSUME NEW a \in LoaderPlaces PROVE mem'[a] = mem[a]
      <3>1. a # addr /\ a \in Addresses
        BY <2>2, <2>3 DEF LoaderPlaces, Places
      <3> QED BY <2>1, <3>1, StoreByteKeeps DEF Inv, TypeOK
    <2>5. HasLoader(mem')
      BY <2>1, <2>4 DEF OnCourse, HasLoader
    <2> QED BY <2>1, <2>5 DEF OnCourse
  <1>2. CASE ReceiveX /\ ~GetByte
    <2>1. /\ mem' = mem /\ harmed' = harmed /\ pc \in {"countdown", "packet"}
          /\ pc' \in {"packet", "prompt"} /\ (pc' = "packet" => task' = task)
      BY <1>2 DEF ReceiveX, StartNak, GetHeader, GetChecksum
    <2> QED BY <2>1 DEF OnCourse, HasLoader
  <1>3. CASE ReceiveX /\ GetByte
    <2>1. /\ pc = "packet" /\ pc' = (IF HasLoader(mem') THEN pc ELSE "lost")
          /\ harmed' = (harmed \/ (pc' = "lost" /\ disturbed))
          /\ task' = task
      BY <1>3 DEF ReceiveX, GetByte, StartNak, GetHeader, GetChecksum
    <2>2. CASE HasLoader(mem')
      BY <2>1, <2>2 DEF OnCourse
    <2>3. CASE ~HasLoader(mem')
      <3>1. PICK a \in LoaderPlaces : mem'[a] # <<"loader", a - Loader + 1>>
        BY <2>3 DEF HasLoader
      <3>2. a \in DOMAIN mem /\ mem[a] = <<"loader", a - Loader + 1>> /\ a \in Addresses
        BY <2>1 DEF Inv, TypeOK, LoaderPlaces, Places, OnCourse, HasLoader
      <3>3. at > 2 /\ mem' = StoreByte(mem, addr, Head(rx))
        <4>1. mem' # mem
          BY <3>1, <3>2
        <4>2. at \in Int
          <5>1. PacketBytes \in Nat
            BY ImageIs
          <5> QED BY <1>3, <5>1 DEF GetByte
        <4> QED BY <1>3, <4>1, <4>2 DEF GetByte
      <3>4. a = addr
        BY <3>1, <3>2, <3>3, StoreByteKeeps
      <3>5. harmed'
        <4> SUFFICES ASSUME ~harmed, ~disturbed PROVE FALSE
          BY <2>1, <2>3
        <4>1. PICK from \in Nat : task = LoadTask(from) /\ addr >= from /\ Agreed(from)
          BY <2>1 DEF Inv, Receiving
        <4>2. addr - from \in 0..(Len(Image) - 1)
          BY <1>3, <3>3, <4>1, BytesStayWithin DEF Inv
        <4>3. addr \in Places(from, Len(Image))
          <5>1. addr \in Nat /\ Len(Image) \in Nat
            BY ImageIs DEF Inv, TypeOK
          <5> QED BY <3>2, <3>4, <4>2, <5>1 DEF Places
        <4>4. DOMAIN task.wanted = Places(from, Len(Image))
          BY <4>1 DEF LoadTask, Task, Sent, Piece
        <4> QED BY <2>1, <3>4, <4>3, <4>4 DEF OnCourse
      <3> QED BY <2>1, <2>3, <3>5 DEF OnCourse
    <2> QED BY <2>2, <2>3
  <1> QED BY <1>1, <1>2, <1>3

LEMMA CourseStep ==
  ASSUME Inv, OnCourse, [Next]_vars
  PROVE  OnCourse'
  <1>0. TypeOK /\ Orders
    BY DEF Inv
  <1>1. CASE Board
    <2>1. CASE FirstStage
      <3>1. pc' = IF HasLoader(mem') THEN "wait" ELSE "lost"
        BY <2>1 DEF FirstStage
      <3>2. ~harmed' => HasLoader(mem')
        BY <1>0, <2>1, StageIsWhole
      <3> QED BY <3>1, <3>2 DEF OnCourse
    <2>2. CASE KeyWait
      BY <2>2, KeepsCourse DEF KeyWait
    <2>3. CASE GetLine
      BY <2>3, KeepsCourse DEF GetLine
    <2> QED BY <1>0, <1>1, <2>1, <2>2, <2>3, AutoOnCourse, CommandsOnCourse, WorkOnCourse,
               SerialOnCourse DEF Board
  <1>2. CASE Around /\ Calm
    <2>1. (binfilename' = binfilename /\ harmed' = harmed) \/ PowerCycle
      BY <1>2 DEF Around, TypeLine, PressKey, SendRaw, ProgramReturns, SendX, LineFault, vars,
                  xmodemVars, consoleVars
    <2>2. ~PowerCycle
      BY <1>2 DEF PowerCycle, Calm
    <2> QED BY <1>2, <2>1, <2>2 DEF Calm, OnCourse, HasLoader
  <1>3. CASE Around /\ ~Calm
    <2>1. CASE PowerCycle
      BY <2>1 DEF PowerCycle, OnCourse
    <2>2. CASE ProgramReturns
      BY <2>2, KeepsCourse DEF ProgramReturns
    <2>3. PowerCycle \/ ProgramReturns
      <3>1. SendX => Calm
        BY DEF SendX, Host, HostStart, HostSend, HostReply, HostTimeout, consoleVars, Calm
      <3>2. LineFault => Calm
        BY DEF LineFault, Line, StrayByte, LoseByte, LoseAnswer, Fault, consoleVars, Calm
      <3>3. PressKey => Calm
        BY <1>0 DEF PressKey, Calm, TypeOK
      <3>4. TypeLine => Calm
        BY DEF TypeLine, Calm
      <3>5. SendRaw => Calm
        BY DEF SendRaw, Calm, consoleVars
      <3>6. UNCHANGED vars => Calm
        BY DEF vars, xmodemVars, consoleVars, Calm
      <3> QED BY <1>3, <3>1, <3>2, <3>3, <3>4, <3>5, <3>6 DEF Around
    <2> QED BY <2>1, <2>2, <2>3
  <1> QED BY <1>1, <1>2, <1>3 DEF Next, Around

\* The board never executes what is not a program, nor a damaged loader, unless the card
\* failed or the operator's own order led there: bootm fills the memory right up to the
\* loader that executes it (command.c:236, main.c:10 of the first stage), the first stage
\* brings all of it, and boot.ini leads to the program it names whatever lies behind its
\* text in ini_buf (bootloader/main.c:84-90, lib.c:132-198).
THEOREM TheBoardStaysOnCourse == Spec => []NeverAstray
  <1>1. Init => OnCourse
    BY DEF Init, OnCourse
  <1>2. Inv /\ OnCourse /\ [Next]_vars => Inv' /\ OnCourse'
    BY InvStep, CourseStep
  <1>3. OnCourse => NeverAstray
    BY DEF OnCourse, NeverAstray
  <1> QED BY <1>1, <1>2, <1>3, InvAtFirst, PTL DEF Spec

=============================================================================
