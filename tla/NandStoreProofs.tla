-------------------------- MODULE NandStoreProofs ---------------------------
(***************************************************************************)
(* flashw and flashl for every chip, memory, address and length that fits: *)
(* how far a command has come is read off its counters, and what it has    *)
(* done so far follows from that.                                          *)
(***************************************************************************)
EXTENDS NandStore, TLAPS

\* The whole pages of the range, the pages done so far, and the first block.
Whole == call.len \div PageBytes
Done == Whole - pages + i
First == call.first \div PagesPerBlock

\* Where the command stands: after q blocks, block and pages have moved by q.
Counters ==
  /\ i <= pages
  /\ \E q \in Nat : /\ pages = Whole - q * PagesPerBlock
                    /\ block = (First + q) % BlockModulus
                    /\ i = 0 => q = 0

\* A row outside the n pages written is as it was, but for the first block's erasure.
Untouched(n) ==
  \A r \in Rows : (\A k \in 0..(n - 1) : FlashPlace(k) # r) =>
    flash[r] = IF n > 0 /\ BlockOf(r) = BlockOf(FlashPlace(0)) THEN {} ELSE flash0[r]

Running ==
  /\ call.name = cmd /\ page_offset = call.len % PageBytes
  /\ Counters /\ download_addr = MemoryPlace(Done)
  /\ cmd = "flashw" => Stored(Done) /\ Untouched(Done)
  /\ cmd = "flashl" => Loaded(Done) /\ flash = flash0

NandInv ==
  /\ TypeOK /\ call.len \in Lens \cup {0}
  /\ cmd # "none" => Running
  /\ RangeIsCopied /\ RestOfFlashKept

-----------------------------------------------------------------------------
(* Quotients and remainders.                                               *)

LEMMA Division ==
  ASSUME NEW n \in Nat, NEW d \in Nat \ {0}
  PROVE  /\ n \div d \in Nat /\ n % d \in 0..(d - 1)
         /\ n = d * (n \div d) + (n % d)
  OBVIOUS

\* Quotient and remainder are the only ones.
LEMMA DivisionUnique ==
  ASSUME NEW d \in Nat \ {0}, NEW q \in Nat, NEW r \in 0..(d - 1)
  PROVE  (d * q + r) \div d = q /\ (d * q + r) % d = r
  <1> DEFINE n == d * q + r
             p == n \div d
             s == n % d
  <1>1. n \in Nat
    OBVIOUS
  <1>2. p \in Nat /\ s \in 0..(d - 1) /\ n = d * p + s
    BY <1>1, Division
  <1> HIDE DEF p, s
  <1>3. ASSUME p > q PROVE FALSE
    <2>1. d * p >= d * q + d
      BY <1>2, <1>3
    <2> QED BY <1>2, <2>1
  <1>4. ASSUME q > p PROVE FALSE
    <2>1. d * q >= d * p + d
      BY <1>2, <1>4
    <2> QED BY <1>2, <2>1
  <1>5. p = q
    BY <1>2, <1>3, <1>4
  <1>6. s = r
    BY <1>2, <1>5
  <1> QED BY <1>5, <1>6 DEF p, s

LEMMA MultipleAdded ==
  ASSUME NEW x \in Nat, NEW c \in Nat, NEW m \in Nat \ {0}
  PROVE  (x + m * c) % m = x % m
  <1> DEFINE u == x \div m
             r == x % m
  <1>1. u \in Nat /\ r \in 0..(m - 1) /\ x = m * u + r
    BY Division
  <1> HIDE DEF u, r
  <1>2. x + m * c = m * (u + c) + r /\ u + c \in Nat
    BY <1>1
  <1>3. (m * (u + c) + r) % m = r
    BY <1>1, <1>2, DivisionUnique
  <1> QED BY <1>2, <1>3 DEF r

\* Numbers less than m apart do not meet modulo m.
LEMMA RemaindersDiffer ==
  ASSUME NEW m \in Nat \ {0}, NEW o \in Nat, NEW x \in 0..(m - 1), NEW y \in 0..(m - 1),
         (o + x) % m = (o + y) % m
  PROVE  x = y
  <1> DEFINE u == (o + x) \div m
             v == (o + y) \div m
             r == (o + x) % m
  <1>1. u \in Nat /\ v \in Nat /\ r \in 0..(m - 1) /\ o + x = m * u + r /\ o + y = m * v + r
    <2>1. o + x \in Nat /\ o + y \in Nat
      OBVIOUS
    <2> QED BY <2>1, Division, Zenon
  <1> HIDE DEF u, v, r
  <1>2. m * u - m * v = x - y
    BY <1>1
  <1>3. ASSUME u > v PROVE FALSE
    <2>1. m * u >= m * v + m
      BY <1>1, <1>3
    <2> QED BY <1>1, <1>2, <2>1
  <1>4. ASSUME v > u PROVE FALSE
    <2>1. m * v >= m * u + m
      BY <1>1, <1>4
    <2> QED BY <1>1, <1>2, <2>1
  <1>5. u = v
    BY <1>1, <1>3, <1>4
  <1> QED BY <1>1, <1>5

-----------------------------------------------------------------------------
(* Rows and places.                                                        *)

USE NandAssumption

LEMMA ChipSize == Blocks * PagesPerBlock \in Nat \ {0}
  <1>1. \A a, b \in Nat \ {0} : a * b \in Nat \ {0}
    OBVIOUS
  <1> QED BY <1>1

\* The first row of the first block.
LEMMA FirstRow ==
  ASSUME TypeOK
  PROVE  First \in Nat /\ First * PagesPerBlock \in Nat
  <1>1. call.first \in Nat
    BY DEF TypeOK
  <1>2. First \in Nat
    BY <1>1, Division DEF First
  <1> HIDE DEF First
  <1> QED BY <1>2

LEMMA PlaceTypes ==
  ASSUME TypeOK, NEW k \in Nat
  PROVE  FlashPlace(k) \in Rows /\ MemoryPlace(k) \in Memory
  <1> DEFINE m == Blocks * PagesPerBlock
             f == First * PagesPerBlock
  <1>0. call.memory \in Nat
    BY DEF TypeOK, Memory
  <1>1. f \in Nat /\ m \in Nat \ {0} /\ call.memory \in Nat /\ MemoryPages \in Nat \ {0}
    BY <1>0, FirstRow, ChipSize
  <1>2. FlashPlace(k) = (f + k) % m
    BY DEF FlashPlace, First
  <1> HIDE DEF f, m
  <1>3. (f + k) % m \in 0..(m - 1)
    <2>1. f + k \in Nat
      BY <1>1
    <2> QED BY <1>1, <2>1, Division, Zenon
  <1>4. (call.memory + k) % MemoryPages \in 0..(MemoryPages - 1)
    <2>1. call.memory + k \in Nat
      BY <1>1
    <2> QED BY <1>1, <2>1, Division, Zenon
  <1> QED BY <1>2, <1>3, <1>4 DEF MemoryPlace, Rows, Memory, m

\* Two pages of a range that fits have places of their own.
LEMMA PlacesDiffer ==
  ASSUME TypeOK, NEW j \in Nat, NEW k \in Nat
  PROVE  /\ j < Blocks * PagesPerBlock /\ k < Blocks * PagesPerBlock
              /\ FlashPlace(j) = FlashPlace(k) => j = k
         /\ j < MemoryPages /\ k < MemoryPages /\ MemoryPlace(j) = MemoryPlace(k) => j = k
  <1> DEFINE m == Blocks * PagesPerBlock
             f == First * PagesPerBlock
  <1>0. call.memory \in Nat
    BY DEF TypeOK, Memory
  <1>1. f \in Nat /\ m \in Nat \ {0} /\ call.memory \in Nat /\ MemoryPages \in Nat \ {0}
    BY <1>0, FirstRow, ChipSize
  <1>2. FlashPlace(k) = (f + k) % m /\ FlashPlace(j) = (f + j) % m
    BY DEF FlashPlace, First
  <1> HIDE DEF f, m
  <1>3. ASSUME j < m, k < m, (f + j) % m = (f + k) % m PROVE j = k
    <2>1. j \in 0..(m - 1) /\ k \in 0..(m - 1)
      BY <1>1, <1>3
    <2> QED BY <1>1, <1>3, <2>1, RemaindersDiffer, Zenon
  <1>4. ASSUME j < MemoryPages, k < MemoryPages,
               (call.memory + j) % MemoryPages = (call.memory + k) % MemoryPages
        PROVE  j = k
    BY <1>1, <1>4, RemaindersDiffer
  <1> QED BY <1>2, <1>3, <1>4 DEF MemoryPlace, m

\* Page s of the block after a blocks, and the block it is in.
LEMMA BlockOfPlace ==
  ASSUME TypeOK, NEW a \in Nat, NEW s \in 0..(PagesPerBlock - 1)
  PROVE  BlockOf(FlashPlace(a * PagesPerBlock + s)) = (First + a) % Blocks
  <1> DEFINE n == First + a
             u == n \div Blocks
             v == n % Blocks
             w == v * PagesPerBlock + s
             m == Blocks * PagesPerBlock
  <1>1. n \in Nat /\ First \in Nat
    BY FirstRow
  <1>2. u \in Nat /\ v \in 0..(Blocks - 1) /\ n = Blocks * u + v
    BY <1>1, Division
  <1>3. FlashPlace(a * PagesPerBlock + s) = (First * PagesPerBlock + (a * PagesPerBlock + s)) % m
    BY DEF FlashPlace, First
  <1>4. First * PagesPerBlock + (a * PagesPerBlock + s) = n * PagesPerBlock + s
    <2> HIDE DEF First
    <2> QED BY <1>1
  <1> HIDE DEF n, u, v
  <1>5. n * PagesPerBlock = Blocks * u * PagesPerBlock + v * PagesPerBlock
    BY <1>1, <1>2
  <1>6. Blocks * u * PagesPerBlock = m * u
    BY <1>2
  <1>7. n * PagesPerBlock + s = m * u + w
    BY <1>1, <1>2, <1>5, <1>6
  <1>8. w \in 0..(m - 1)
    <2>1. v * PagesPerBlock <= (Blocks - 1) * PagesPerBlock
      BY <1>2
    <2>2. (Blocks - 1) * PagesPerBlock = m - PagesPerBlock
      OBVIOUS
    <2>3. v * PagesPerBlock \in Nat /\ m \in Nat
      BY <1>2
    <2> QED BY <2>1, <2>2, <2>3
  <1>9. m \in Nat \ {0}
    BY ChipSize
  <1>10. (m * u + w) % m = w
    <2> HIDE DEF m, w
    <2> QED BY <1>2, <1>8, <1>9, DivisionUnique
  <1>11. w \div PagesPerBlock = v
    <2>1. (PagesPerBlock * v + s) \div PagesPerBlock = v
      BY <1>2, DivisionUnique
    <2>2. PagesPerBlock * v + s = w
      BY <1>2
    <2> QED BY <2>1, <2>2
  <1>12. FlashPlace(a * PagesPerBlock + s) = w
    BY <1>3, <1>4, <1>7, <1>10
  <1> QED BY <1>11, <1>12 DEF BlockOf, v, n

\* The row address that the counters give is the place of the page.
LEMMA RowIsPlace ==
  ASSUME TypeOK, NEW a \in Nat, NEW s \in 0..(PagesPerBlock - 1)
  PROVE  Row((First + a) % BlockModulus, s) = FlashPlace(a * PagesPerBlock + s)
  <1> DEFINE n == First + a
             u == n \div BlockModulus
             b == n % BlockModulus
             d == BlockModulus \div Blocks
             m == Blocks * PagesPerBlock
  <1>1. n \in Nat /\ First \in Nat
    BY FirstRow
  <1>2. u \in Nat /\ b \in Nat /\ n = BlockModulus * u + b
    BY <1>1, Division, BlockAssumption
  <1>3. d \in Nat /\ BlockModulus = Blocks * d
    BY BlockAssumption, Division
  <1>4. First * PagesPerBlock + (a * PagesPerBlock + s) = n * PagesPerBlock + s
    <2> HIDE DEF First
    <2> QED BY <1>1
  <1> HIDE DEF n, u, b, d
  <1>5. n = Blocks * d * u + b
    BY <1>2, <1>3
  <1>6. n * PagesPerBlock = Blocks * d * u * PagesPerBlock + b * PagesPerBlock
    BY <1>2, <1>3, <1>5
  <1>7. Blocks * d * u * PagesPerBlock = m * (d * u)
    BY <1>2, <1>3
  <1>8. d * u \in Nat /\ b * PagesPerBlock + s \in Nat /\ m \in Nat \ {0}
    BY <1>2, <1>3, ChipSize
  <1>9. n * PagesPerBlock + s = (b * PagesPerBlock + s) + m * (d * u)
    BY <1>6, <1>7, <1>8, <1>2, <1>1
  <1>10. ((b * PagesPerBlock + s) + m * (d * u)) % m = (b * PagesPerBlock + s) % m
    <2> DEFINE x == b * PagesPerBlock + s
               c == d * u
    <2> HIDE DEF x, c, m
    <2> QED BY <1>8, MultipleAdded DEF x, c
  <1>11. FlashPlace(a * PagesPerBlock + s) = (First * PagesPerBlock + (a * PagesPerBlock + s)) % m
    BY DEF FlashPlace, First
  <1> QED BY <1>4, <1>9, <1>10, <1>11 DEF Row, b, n

-----------------------------------------------------------------------------
(* Counters.                                                               *)

\* The pages a length takes: the whole ones, and one for what is left.
LEMMA PagesCount ==
  ASSUME NEW n \in Nat
  PROVE  /\ n \div PageBytes \in Nat /\ n % PageBytes \in 0..(PageBytes - 1)
         /\ PagesOf(n) = n \div PageBytes + (IF n % PageBytes > 0 THEN 1 ELSE 0)
  <1> DEFINE w == n \div PageBytes
             o == n % PageBytes
  <1>1. w \in Nat /\ o \in 0..(PageBytes - 1) /\ n = PageBytes * w + o
    BY Division
  <1> HIDE DEF w, o
  <1>2. CASE o = 0
    <2>1. PageBytes - 1 \in 0..(PageBytes - 1)
      OBVIOUS
    <2>2. (PageBytes * w + (PageBytes - 1)) \div PageBytes = w
      BY <1>1, <2>1, DivisionUnique
    <2>3. n + PageBytes - 1 = PageBytes * w + (PageBytes - 1)
      BY <1>1, <1>2
    <2> QED BY <1>1, <1>2, <2>2, <2>3 DEF PagesOf, w, o
  <1>3. CASE o > 0
    <2>1. o - 1 \in 0..(PageBytes - 1) /\ w + 1 \in Nat
      BY <1>1, <1>3
    <2>2. (PageBytes * (w + 1) + (o - 1)) \div PageBytes = w + 1
      BY <2>1, DivisionUnique
    <2>3. n + PageBytes - 1 = PageBytes * (w + 1) + (o - 1)
      BY <1>1
    <2> QED BY <1>1, <1>3, <2>2, <2>3 DEF PagesOf, w, o
  <1> QED BY <1>1, <1>2, <1>3

LEMMA RangeFits ==
  ASSUME TypeOK, call.len \in Lens \cup {0}
  PROVE  /\ PagesOf(call.len) \in Nat
         /\ PagesOf(call.len) <= Blocks * PagesPerBlock /\ PagesOf(call.len) <= MemoryPages
         /\ Whole \in Nat
         /\ PagesOf(call.len) = Whole + (IF call.len % PageBytes > 0 THEN 1 ELSE 0)
  <1>1. call.len \in Nat
    BY DEF TypeOK
  <1>2. PagesOf(0) = 0
    BY DivisionUnique, PageBytes - 1 \in 0..(PageBytes - 1) /\ 0 = PageBytes * 0 DEF PagesOf
  <1>3. Whole \in Nat /\ PagesOf(call.len) = Whole + (IF call.len % PageBytes > 0 THEN 1 ELSE 0)
    BY <1>1, PagesCount DEF Whole
  <1>4. PagesOf(call.len) \in Nat
    BY <1>3
  <1>5. 0 <= Blocks * PagesPerBlock /\ 0 <= MemoryPages
    BY ChipSize
  <1>6. PagesOf(call.len) <= Blocks * PagesPerBlock /\ PagesOf(call.len) <= MemoryPages
    BY <1>2, <1>5, FitAssumption, Zenon
  <1> QED BY <1>3, <1>4, <1>6

\* The remainder of the next number follows from that of a number.
LEMMA NextRemainder ==
  ASSUME NEW n \in Nat, NEW m \in Nat \ {0}
  PROVE  ((n % m) + 1) % m = (n + 1) % m
  <1> DEFINE u == n \div m
             r == n % m
  <1>1. u \in Nat /\ r \in 0..(m - 1) /\ n = m * u + r
    BY Division
  <1> HIDE DEF u, r
  <1>2. n + 1 = (r + 1) + m * u /\ r + 1 \in Nat
    BY <1>1
  <1>3. ((r + 1) + m * u) % m = (r + 1) % m
    BY <1>1, <1>2, MultipleAdded
  <1> QED BY <1>2, <1>3 DEF r

\* Where a pass of a loop, or the last page, finds the command: the page is the
\* one after those done, in the block and at the row of its place.
At(q) ==
  /\ Here.page \in 0..(PagesPerBlock - 1)
  /\ Here.block = (First + q) % BlockModulus
  /\ Done = q * PagesPerBlock + Here.page
  /\ (IF Full(i) THEN pages - PagesPerBlock ELSE pages) = Whole - q * PagesPerBlock
  /\ Row(Here.block, Here.page) = FlashPlace(Done)
  /\ i = 0 => q = 0 /\ Here.page = 0 /\ Here.block = block
  /\ Done = 0 => i = 0

LEMMA HereIsNext ==
  ASSUME TypeOK, call.len \in Lens \cup {0}, Counters
  PROVE  Done \in 0..Whole /\ \E q \in Nat : At(q)
  <1> USE DEF TypeOK
  <1>1. PICK q \in Nat : /\ pages = Whole - q * PagesPerBlock
                         /\ block = (First + q) % BlockModulus
                         /\ i = 0 => q = 0
    BY DEF Counters
  <1>2. Whole \in Nat /\ First \in Nat /\ i \in 0..PagesPerBlock /\ i <= pages /\ pages \in Nat
    BY RangeFits, FirstRow DEF Counters
  <1> HIDE DEF TypeOK
  <1>3. q * PagesPerBlock \in Nat
    OBVIOUS
  <1>4. Done = q * PagesPerBlock + i /\ Done \in 0..Whole
    BY <1>1, <1>2, <1>3 DEF Done
  <1>5. (block + 1) % BlockModulus = (First + (q + 1)) % BlockModulus
    <2>1. First + q \in Nat /\ (First + q) + 1 = First + (q + 1)
      BY <1>2
    <2>2. (((First + q) % BlockModulus) + 1) % BlockModulus = ((First + q) + 1) % BlockModulus
      BY <2>1, BlockAssumption, NextRemainder, Zenon
    <2> QED BY <1>1, <2>1, <2>2
  <1>6. CASE Full(i)
    <2>1. i = PagesPerBlock /\ i # 0
      BY <1>2, <1>6 DEF Full
    <2>2. (q + 1) * PagesPerBlock = q * PagesPerBlock + PagesPerBlock
      OBVIOUS
    <2>3. Here.page = 0 /\ Here.block = (First + (q + 1)) % BlockModulus
      BY <1>5, <1>6 DEF Here
    <2>4. Done = (q + 1) * PagesPerBlock + Here.page
      BY <1>4, <2>1, <2>2, <2>3
    <2>5. pages - PagesPerBlock = Whole - (q + 1) * PagesPerBlock
      BY <1>1, <1>2, <1>3, <2>2
    <2>6. Row(Here.block, Here.page) = FlashPlace(Done)
      BY <2>3, <2>4, RowIsPlace, q + 1 \in Nat, 0 \in 0..(PagesPerBlock - 1)
    <2>7. Done # 0
      BY <1>3, <1>4, <2>1
    <2>8. At(q + 1)
      BY <1>6, <2>1, <2>3, <2>4, <2>5, <2>6, <2>7 DEF At
    <2> QED BY <1>4, <2>8, q + 1 \in Nat
  <1>7. CASE ~Full(i)
    <2>1. i \in 0..(PagesPerBlock - 1)
      BY <1>2, <1>7 DEF Full
    <2>2. Here.page = i /\ Here.block = block
      BY <1>7 DEF Here
    <2>3. Row(Here.block, Here.page) = FlashPlace(Done)
      BY <1>1, <1>4, <2>1, <2>2, RowIsPlace
    <2>4. Done = 0 => i = 0
      BY <1>2, <1>3, <1>4
    <2>5. At(q)
      BY <1>1, <1>4, <1>7, <2>1, <2>2, <2>3, <2>4 DEF At
    <2> QED BY <1>4, <2>5
  <1> QED BY <1>6, <1>7

\* A pass moves the counters on by one page.
LEMMA CountersGoOn ==
  ASSUME TypeOK, call.len \in Lens \cup {0}, Counters, download_addr = MemoryPlace(Done),
         i < pages, NextPage
  PROVE  /\ Counters' /\ Done' = Done + 1 /\ Done + 1 <= Whole
         /\ (download_addr = MemoryPlace(Done))'
         /\ block' \in 0..(BlockModulus - 1) /\ i' \in 0..PagesPerBlock /\ pages' \in Nat
  <1>1. PICK q \in Nat : At(q)
    BY HereIsNext
  <1>2. /\ Done \in 0..Whole /\ Whole \in Nat /\ First \in Nat
        /\ i \in 0..PagesPerBlock /\ pages \in Nat /\ call.memory \in Nat
    BY HereIsNext, RangeFits, FirstRow DEF TypeOK, Memory
  <1>3. Whole' = Whole /\ First' = First /\ call' = call
    BY DEF NextPage, history, Whole, First
  <1>4. /\ i' = Here.page + 1 /\ block' = Here.block
        /\ pages' = Whole - q * PagesPerBlock
        /\ download_addr' = (download_addr + 1) % MemoryPages
    BY <1>1 DEF NextPage, At
  <1>5. Here.page \in 0..(PagesPerBlock - 1) /\ Done = q * PagesPerBlock + Here.page
    BY <1>1 DEF At
  <1>6. q * PagesPerBlock \in Nat
    OBVIOUS
  <1>7. Done < Whole
    BY <1>2 DEF Done
  <1>8. Done' = Done + 1
    BY <1>2, <1>3, <1>4, <1>5, <1>6 DEF Done
  <1>9. i' <= pages' /\ i' # 0
    BY <1>2, <1>4, <1>5, <1>6, <1>7
  <1>10. Counters'
    BY <1>1, <1>3, <1>4, <1>9 DEF Counters, At
  <1>11. (First + q) % BlockModulus \in 0..(BlockModulus - 1)
    BY <1>2, Division, BlockAssumption, First + q \in Nat, Zenon
  <1>12. (download_addr + 1) % MemoryPages = (call.memory + (Done + 1)) % MemoryPages
    <2>1. call.memory + Done \in Nat /\ (call.memory + Done) + 1 = call.memory + (Done + 1)
      BY <1>2
    <2>2. (((call.memory + Done) % MemoryPages) + 1) % MemoryPages
            = ((call.memory + Done) + 1) % MemoryPages
      BY <2>1, NextRemainder, Zenon
    <2> QED BY <2>1, <2>2 DEF MemoryPlace
  <1>13. (download_addr = MemoryPlace(Done))'
    <2>1. MemoryPlace(Done)' = (call.memory + (Done + 1)) % MemoryPages
      BY <1>3, <1>8 DEF MemoryPlace
    <2> QED BY <1>4, <1>12, <2>1
  <1>14. block' \in 0..(BlockModulus - 1)
    BY <1>1, <1>4, <1>11 DEF At
  <1>15. i' \in 0..PagesPerBlock /\ pages' \in Nat
    BY <1>2, <1>4, <1>5, <1>6, <1>9
  <1>16. Done + 1 <= Whole
    BY <1>2, <1>7
  <1> QED BY <1>8, <1>10, <1>13, <1>14, <1>15, <1>16

-----------------------------------------------------------------------------
(* What a page written leaves.                                             *)

\* Pages of the first block.
LEMMA FirstBlock ==
  ASSUME TypeOK, NEW k \in 0..(PagesPerBlock - 1)
  PROVE  BlockOf(FlashPlace(k)) = BlockOf(FlashPlace(0))
  <1>1. 0 * PagesPerBlock + k = k /\ 0 * PagesPerBlock + 0 = 0 /\ 0 \in 0..(PagesPerBlock - 1)
    OBVIOUS
  <1> QED BY <1>1, BlockOfPlace

\* The first page erases the first block and is programmed.
LEMMA FirstPageStored ==
  ASSUME TypeOK, Untouched(0), UNCHANGED <<call, flash0, sdram>>,
         flash' = nand_program(nand_blockerase(flash, First % BlockModulus),
                               First % BlockModulus, 0, sdram[MemoryPlace(0)])
  PROVE  (Stored(1) /\ Untouched(1))'
  <1> DEFINE p == FlashPlace(0)
             image == sdram[MemoryPlace(0)]
  <1>1. p \in Rows
    BY PlaceTypes
  <1>2. Row(First % BlockModulus, 0) = p
    <2>1. First + 0 = First /\ 0 * PagesPerBlock + 0 = 0 /\ 0 \in 0..(PagesPerBlock - 1)
      BY FirstRow
    <2> QED BY <2>1, RowIsPlace
  <1>3. \A k : FlashPlace(k)' = FlashPlace(k) /\ MemoryPlace(k)' = MemoryPlace(k)
    BY DEF FlashPlace, MemoryPlace
  <1>4. \A r \in Rows : flash[r] = flash0[r]
    BY DEF Untouched
  <1>5. \A r \in Rows : flash'[r] = IF r = p THEN {image}
                                    ELSE IF BlockOf(r) = BlockOf(p) THEN {} ELSE flash[r]
    BY <1>1, <1>2 DEF nand_program, nand_blockerase
  <1> HIDE DEF p
  <1>6. 0..(1 - 1) = {0}
    OBVIOUS
  <1>7. Stored(1)'
    BY <1>1, <1>3, <1>5, <1>6 DEF Stored, p
  <1>8. Untouched(1)'
    BY <1>3, <1>4, <1>5, <1>6 DEF Untouched, p
  <1> QED BY <1>7, <1>8

\* A further page is programmed into a chip that holds the ones before.
LEMMA NextPageStored ==
  ASSUME TypeOK, NEW n \in Nat \ {0}, n < Blocks * PagesPerBlock,
         Stored(n), UNCHANGED <<call, flash0, sdram>>,
         NEW chip, DOMAIN chip = Rows,
         \A k \in 0..(n - 1) : chip[FlashPlace(k)] = flash[FlashPlace(k)],
         n < PagesPerBlock => chip[FlashPlace(n)] = {},
         chip[FlashPlace(n)] \subseteq flash0[FlashPlace(n)],
         flash' = [chip EXCEPT ![FlashPlace(n)] = @ \cup {sdram[MemoryPlace(n)]}]
  PROVE  Stored(n + 1)'
  <1>1. \A k : FlashPlace(k)' = FlashPlace(k) /\ MemoryPlace(k)' = MemoryPlace(k)
    BY DEF FlashPlace, MemoryPlace
  <1>2. \A k \in 0..n : FlashPlace(k) \in Rows
    BY PlaceTypes
  <1>3. \A k \in 0..(n - 1) : FlashPlace(k) # FlashPlace(n)
    BY PlacesDiffer, ChipSize
  <1>4. ASSUME NEW k \in 0..(n - 1) PROVE flash'[FlashPlace(k)] = flash[FlashPlace(k)]
    BY <1>2, <1>3
  <1>5. flash'[FlashPlace(n)] = chip[FlashPlace(n)] \cup {sdram[MemoryPlace(n)]}
    BY <1>2
  <1> SUFFICES ASSUME NEW k \in 0..((n + 1) - 1)
               PROVE  /\ sdram[MemoryPlace(k)] \in flash'[FlashPlace(k)]
                      /\ flash'[FlashPlace(k)] \subseteq flash0[FlashPlace(k)] \cup {sdram[MemoryPlace(k)]}
                      /\ k < PagesPerBlock => flash'[FlashPlace(k)] = {sdram[MemoryPlace(k)]}
    BY <1>1 DEF Stored
  <1>6. CASE k = n
    BY <1>5, <1>6
  <1>7. CASE k # n
    <2>1. k \in 0..(n - 1)
      BY <1>7
    <2> QED BY <1>4, <2>1 DEF Stored
  <1> QED BY <1>6, <1>7

LEMMA NextPageUntouched ==
  ASSUME TypeOK, NEW n \in Nat \ {0}, Untouched(n), UNCHANGED <<call, flash0>>,
         flash' = [flash EXCEPT ![FlashPlace(n)] = @ \cup {sdram[MemoryPlace(n)]}]
  PROVE  Untouched(n + 1)'
  <1>1. \A k : FlashPlace(k)' = FlashPlace(k)
    BY DEF FlashPlace
  <1>2. DOMAIN flash = Rows
    BY DEF TypeOK
  <1> SUFFICES ASSUME NEW r \in Rows, \A k \in 0..((n + 1) - 1) : FlashPlace(k) # r
               PROVE  flash'[r] = IF BlockOf(r) = BlockOf(FlashPlace(0)) THEN {} ELSE flash0[r]
    BY <1>1 DEF Untouched
  <1>3. FlashPlace(n) # r /\ \A k \in 0..(n - 1) : FlashPlace(k) # r
    OBVIOUS
  <1>4. flash'[r] = flash[r]
    BY <1>2, <1>3
  <1> QED BY <1>3, <1>4 DEF Untouched

\* The pages of the range were kept or erased with the block of one of them.
LEMMA RestKept ==
  ASSUME NEW n \in Nat, (TypeOK /\ PagesOf(call.len) \in Nat /\ Untouched(n))',
         n <= PagesOf(call.len)'
  PROVE  RestOfFlashKept'
  <1> DEFINE range == {FlashPlace(k) : k \in 0..(PagesOf(call.len) - 1)}
  <1> SUFFICES ASSUME NEW r \in Rows, r \notin range'
               PROVE  (\/ flash[r] = flash0[r]
                       \/ flash[r] = {} /\ \E q \in range : BlockOf(q) = BlockOf(r))'
    BY DEF RestOfFlashKept
  <1>1. \A k \in 0..(n - 1) : FlashPlace(k)' # r
    OBVIOUS
  <1>2. n > 0 => FlashPlace(0)' \in range'
    OBVIOUS
  <1> QED BY <1>1, <1>2 DEF Untouched

\* A page not written yet: blank in the first block, as before elsewhere.
LEMMA PageBefore ==
  ASSUME TypeOK, NEW n \in Nat \ {0}, n < Blocks * PagesPerBlock, Untouched(n)
  PROVE  /\ n < PagesPerBlock => flash[FlashPlace(n)] = {}
         /\ flash[FlashPlace(n)] \subseteq flash0[FlashPlace(n)]
  <1>1. FlashPlace(n) \in Rows /\ \A k \in 0..(n - 1) : FlashPlace(k) # FlashPlace(n)
    BY PlaceTypes, PlacesDiffer, ChipSize
  <1>2. n < PagesPerBlock => BlockOf(FlashPlace(n)) = BlockOf(FlashPlace(0))
    BY FirstBlock
  <1> QED BY <1>1, <1>2 DEF Untouched

-----------------------------------------------------------------------------
(* The steps.                                                              *)

LEMMA InitInv == Init => NandInv
  <1> SUFFICES ASSUME Init PROVE NandInv
    OBVIOUS
  <1>1. TypeOK
    <2>1. flash \in [Rows -> SUBSET Images]
      BY DEF Init, Images
    <2>2. sdram \in [Memory -> Images]
      BY DEF Init, Images, Image
    <2> QED BY <2>1, <2>2, BlockAssumption DEF Init, TypeOK, Memory
  <1>2. RangeIsCopied /\ RestOfFlashKept
    BY DEF Init, RangeIsCopied, StoresTheRange, LoadsTheRange, RestOfFlashKept
  <1> QED BY <1>1, <1>2 DEF Init, NandInv

LEMMA CommandInv ==
  ASSUME NandInv, NEW name \in {"flashw", "flashl"}, NEW first \in FlashAddrs,
         NEW memory \in Downloads, NEW len \in Lens, Command(name, first, memory, len)
  PROVE  NandInv'
  <1> DEFINE f == first \div PagesPerBlock
             w == len \div PageBytes
             o == len % PageBytes
  <1>1. first \in Nat /\ memory \in Memory /\ len \in Nat
    BY DEF Memory
  <1>2. w \in Nat /\ o \in 0..(PageBytes - 1) /\ f \in Nat /\ f < BlockModulus
    BY <1>1, PagesCount, Division, BlockAssumption
  <1>3. /\ cmd' = name /\ block' = f /\ pages' = w /\ page_offset' = o /\ i' = 0
        /\ download_addr' = memory /\ flash' = flash /\ sdram' = sdram
        /\ flash0' = flash /\ sdram0' = sdram /\ calls' = calls + 1 /\ calls < MaxCalls
        /\ call' = [name |-> name, first |-> first, memory |-> memory, len |-> len]
    BY DEF Command
  <1>4. Whole' = w /\ First' = f
    BY <1>3 DEF Whole, First
  <1>5. (call.len % PageBytes)' = o
    BY <1>3
  <1> HIDE DEF f, w, o
  <1>6. TypeOK'
    BY <1>1, <1>2, <1>3, BlockAssumption DEF NandInv, TypeOK
  <1>7. Done' = 0
    BY <1>2, <1>3, <1>4 DEF Done
  <1>8. Counters'
    <2>1. (f + 0) % BlockModulus = f
      BY <1>2, BlockAssumption
    <2>2. w - 0 * PagesPerBlock = w
      BY <1>2
    <2> QED BY <1>2, <1>3, <1>4, <2>1, <2>2, 0 \in Nat DEF Counters
  <1>9. (download_addr = MemoryPlace(Done))'
    <2>1. (memory + 0) % MemoryPages = memory
      BY <1>1 DEF Memory
    <2> QED BY <1>3, <1>7, <2>1 DEF MemoryPlace
  <1>10. 0..(0 - 1) = {}
    OBVIOUS
  <1>11. (Stored(Done) /\ Untouched(Done) /\ Loaded(Done) /\ flash = flash0)'
    BY <1>3, <1>7, <1>10 DEF Stored, Untouched, Loaded
  <1>12. Running'
    BY <1>3, <1>5, <1>8, <1>9, <1>11 DEF Running
  <1>13. RangeIsCopied'
    BY <1>3 DEF RangeIsCopied, StoresTheRange, LoadsTheRange
  <1>14. RestOfFlashKept'
    BY <1>3 DEF RestOfFlashKept
  <1> QED BY <1>3, <1>6, <1>12, <1>13, <1>14 DEF NandInv

\* What is known where a pass of a loop, or the last page, begins.
LEMMA RunFacts ==
  ASSUME NandInv, cmd # "none"
  PROVE  /\ TypeOK /\ call.len \in Lens \cup {0} /\ Running /\ Counters
         /\ Done \in 0..Whole /\ Whole \in Nat /\ PagesOf(call.len) \in Nat
         /\ Whole <= PagesOf(call.len)
         /\ PagesOf(call.len) <= Blocks * PagesPerBlock /\ PagesOf(call.len) <= MemoryPages
         /\ PagesOf(call.len) = Whole + (IF page_offset > 0 THEN 1 ELSE 0)
         /\ DOMAIN flash = Rows /\ DOMAIN sdram = Memory
  <1>1. TypeOK /\ call.len \in Lens \cup {0} /\ Running /\ Counters
    BY DEF NandInv, Running
  <1>2. page_offset = call.len % PageBytes
    BY <1>1 DEF Running
  <1> QED BY <1>1, <1>2, HereIsNext, RangeFits DEF TypeOK

LEMMA ImagesStay ==
  /\ \A chip \in [Rows -> SUBSET Images], r \in Rows, image \in Images :
       [chip EXCEPT ![r] = @ \cup {image}] \in [Rows -> SUBSET Images]
  /\ \A b : \A chip \in [Rows -> SUBSET Images] :
       nand_blockerase(chip, b) \in [Rows -> SUBSET Images]
  BY DEF nand_blockerase

LEMMA WritePageInv ==
  ASSUME NandInv, WritePage
  PROVE  NandInv'
  <1> DEFINE image == sdram[MemoryPlace(Done)]
  <1>1. cmd = "flashw" /\ cmd' = cmd /\ i < pages /\ NextPage /\ UNCHANGED sdram
        /\ UNCHANGED <<call, flash0, sdram0, calls, page_offset>>
    BY DEF WritePage, NextPage, history
  <1>2. /\ TypeOK /\ call.len \in Lens \cup {0} /\ Running /\ Counters
        /\ Done \in 0..Whole /\ Whole \in Nat /\ PagesOf(call.len) \in Nat
        /\ Whole <= PagesOf(call.len)
        /\ PagesOf(call.len) <= Blocks * PagesPerBlock
    BY <1>1, RunFacts
  <1>3. Stored(Done) /\ Untouched(Done) /\ download_addr = MemoryPlace(Done)
    BY <1>1, <1>2 DEF Running
  <1>4. /\ Counters' /\ Done' = Done + 1 /\ Done + 1 <= Whole
        /\ (download_addr = MemoryPlace(Done))'
        /\ block' \in 0..(BlockModulus - 1) /\ i' \in 0..PagesPerBlock /\ pages' \in Nat
    BY <1>1, <1>2, <1>3, CountersGoOn
  <1>5. PICK q \in Nat : At(q)
    BY <1>2, HereIsNext
  <1>6. flash' = nand_program(IF i = 0 THEN nand_blockerase(flash, block) ELSE flash,
                              Here.block, Here.page, image)
    BY <1>3 DEF WritePage
  <1>7. Row(Here.block, Here.page) = FlashPlace(Done) /\ FlashPlace(Done) \in Rows
        /\ MemoryPlace(Done) \in Memory
    BY <1>2, <1>5, PlaceTypes DEF At
  <1>8. image \in Images
    BY <1>2, <1>7 DEF TypeOK
  <1>9. flash' \in [Rows -> SUBSET Images]
    BY <1>2, <1>6, <1>7, <1>8, ImagesStay DEF TypeOK, nand_program
  <1>10. TypeOK'
    <2>1. (download_addr \in Memory)'
      <3>1. download_addr \in Nat /\ MemoryPages \in Nat \ {0}
        BY <1>2 DEF TypeOK, Memory
      <3>2. (download_addr + 1) % MemoryPages \in 0..(MemoryPages - 1)
        BY <3>1
      <3> QED BY <1>1, <3>2 DEF NextPage, Memory
    <2> QED BY <1>1, <1>2, <1>4, <1>9, <2>1 DEF TypeOK
  <1>11. PICK n \in Nat : n = Done
    BY <1>2
  <1>12. n < Blocks * PagesPerBlock /\ Done' = n + 1 /\ n + 1 <= Whole
    BY <1>2, <1>4, <1>11, ChipSize
  <1>13. (Stored(n + 1) /\ Untouched(n + 1))'
    <2>1. CASE n = 0
      <3>1. i = 0 /\ Here.page = 0 /\ Here.block = block /\ block = First % BlockModulus
        <4>1. First + 0 = First
          BY <1>2, FirstRow
        <4> QED BY <1>5, <1>11, <2>1, <4>1 DEF At
      <3> QED BY <1>1, <1>2, <1>3, <1>6, <1>11, <2>1, <3>1, FirstPageStored
    <2>2. CASE n # 0
      <3>1. i # 0
        BY <1>5, <1>11, <2>2 DEF At
      <3>2. flash' = [flash EXCEPT ![FlashPlace(n)] = @ \cup {sdram[MemoryPlace(n)]}]
        BY <1>6, <1>7, <1>11, <3>1 DEF nand_program
      <3>3. n \in Nat \ {0} /\ Stored(n) /\ Untouched(n) /\ DOMAIN flash = Rows
        BY <1>2, <1>3, <1>11, <2>2 DEF TypeOK
      <3>4. /\ n < PagesPerBlock => flash[FlashPlace(n)] = {}
            /\ flash[FlashPlace(n)] \subseteq flash0[FlashPlace(n)]
        BY <1>2, <1>12, <3>3, PageBefore
      <3>5. Stored(n + 1)'
        BY <1>1, <1>2, <1>12, <3>2, <3>3, <3>4, NextPageStored
      <3>6. Untouched(n + 1)'
        BY <1>1, <1>2, <3>2, <3>3, NextPageUntouched
      <3> QED BY <3>5, <3>6
    <2> QED BY <2>1, <2>2
  <1>14. (Stored(Done) /\ Untouched(Done))'
    BY <1>12, <1>13
  <1>15. Running'
    BY <1>1, <1>2, <1>4, <1>14 DEF Running
  <1>16. RestOfFlashKept'
    <2>1. n + 1 \in Nat /\ n + 1 <= PagesOf(call.len)' /\ PagesOf(call.len)' \in Nat
      BY <1>1, <1>2, <1>12
    <2> QED BY <1>10, <1>12, <1>13, <2>1, RestKept
  <1> QED BY <1>1, <1>2, <1>10, <1>15, <1>16
          DEF NandInv, RangeIsCopied, StoresTheRange, LoadsTheRange

\* The pages before a block's first one lie in other blocks.
LEMMA BlocksDiffer ==
  ASSUME TypeOK, NEW q \in Nat, q * PagesPerBlock < Blocks * PagesPerBlock,
         NEW j \in 0..(q * PagesPerBlock - 1)
  PROVE  BlockOf(FlashPlace(j)) # BlockOf(FlashPlace(q * PagesPerBlock))
  <1> DEFINE a == j \div PagesPerBlock
             t == j % PagesPerBlock
  <1>1. a \in Nat /\ t \in 0..(PagesPerBlock - 1) /\ j = PagesPerBlock * a + t
    <2>1. j \in Nat
      OBVIOUS
    <2> QED BY <2>1, Division, Zenon
  <1> HIDE DEF a, t
  <1>2. a < q
    <2> SUFFICES ASSUME a >= q PROVE FALSE
      BY <1>1
    <2>1. PagesPerBlock * a >= PagesPerBlock * q
      BY <1>1
    <2>2. PagesPerBlock * q = q * PagesPerBlock /\ q * PagesPerBlock \in Nat
      OBVIOUS
    <2> QED BY <1>1, <2>1, <2>2
  <1>3. q < Blocks
    <2> SUFFICES ASSUME q >= Blocks PROVE FALSE
      OBVIOUS
    <2> QED OBVIOUS
  <1>4. First \in Nat
    BY FirstRow
  <1>5. BlockOf(FlashPlace(j)) = (First + a) % Blocks
    <2>1. j = a * PagesPerBlock + t
      BY <1>1
    <2> QED BY <1>1, <2>1, BlockOfPlace
  <1>6. BlockOf(FlashPlace(q * PagesPerBlock)) = (First + q) % Blocks
    <2>1. q * PagesPerBlock = q * PagesPerBlock + 0 /\ 0 \in 0..(PagesPerBlock - 1)
      OBVIOUS
    <2> QED BY <2>1, BlockOfPlace
  <1>7. a \in 0..(Blocks - 1) /\ q \in 0..(Blocks - 1) /\ a # q
    BY <1>1, <1>2, <1>3
  <1> QED BY <1>4, <1>5, <1>6, <1>7, RemaindersDiffer

LEMMA WriteLastPageInv ==
  ASSUME NandInv, WriteLastPage
  PROVE  NandInv'
  <1> DEFINE image == sdram[MemoryPlace(Done)]
             chip == IF Here.page = 0 THEN nand_blockerase(flash, Here.block) ELSE flash
  <1>1. cmd = "flashw" /\ cmd' = "none" /\ i >= pages /\ UNCHANGED <<sdram, pages, page_offset, download_addr>>
        /\ UNCHANGED <<call, flash0, sdram0, calls>> /\ block' = Here.block /\ i' = Here.page
    BY DEF WriteLastPage, history
  <1>2. /\ TypeOK /\ call.len \in Lens \cup {0} /\ Running /\ Counters
        /\ Done \in 0..Whole /\ Whole \in Nat /\ PagesOf(call.len) \in Nat
        /\ PagesOf(call.len) <= Blocks * PagesPerBlock
        /\ PagesOf(call.len) = Whole + (IF page_offset > 0 THEN 1 ELSE 0)
    BY <1>1, RunFacts
  <1>3. Stored(Done) /\ Untouched(Done) /\ download_addr = MemoryPlace(Done) /\ call.name = "flashw"
    BY <1>1, <1>2 DEF Running
  <1>4. PICK n \in Nat : n = Done
    BY <1>2
  <1>5. n = Whole
    BY <1>1, <1>2, <1>4 DEF Done, TypeOK, Counters
  <1>6. PICK q \in Nat : At(q)
    BY <1>2, HereIsNext
  <1>7. Row(Here.block, Here.page) = FlashPlace(n) /\ FlashPlace(n) \in Rows
        /\ MemoryPlace(n) \in Memory
    BY <1>2, <1>4, <1>6, PlaceTypes DEF At
  <1>8. image \in Images
    BY <1>2, <1>4, <1>7 DEF TypeOK
  <1>9. chip \in [Rows -> SUBSET Images]
    BY <1>2, ImagesStay DEF TypeOK
  <1>10. flash' = IF page_offset = 0 THEN flash
                  ELSE [chip EXCEPT ![FlashPlace(n)] = @ \cup {image}]
    BY <1>3, <1>7 DEF WriteLastPage, nand_program
  <1>11. flash' \in [Rows -> SUBSET Images]
    <2> HIDE DEF chip, image
    <2> QED BY <1>2, <1>7, <1>8, <1>9, <1>10, ImagesStay DEF TypeOK
  <1>12. TypeOK'
    <2>1. First + q \in Nat
      BY <1>2, FirstRow
    <2>2. Here.block \in 0..(BlockModulus - 1) /\ Here.page \in 0..PagesPerBlock
      <3>1. (First + q) % BlockModulus \in 0..(BlockModulus - 1)
        BY <2>1, Division, BlockAssumption, Zenon
      <3> QED BY <1>6, <3>1 DEF At
    <2> QED BY <1>1, <1>2, <1>11, <2>2 DEF TypeOK
  <1>13. \A k : FlashPlace(k)' = FlashPlace(k) /\ MemoryPlace(k)' = MemoryPlace(k)
    BY <1>1 DEF FlashPlace, MemoryPlace
  <1>14. page_offset \in Nat /\ PagesOf(call.len)' = PagesOf(call.len)
    BY <1>1, <1>2 DEF TypeOK
  <1>15. CASE page_offset = 0
    <2>1. PagesOf(call.len) = n /\ flash' = flash
      BY <1>2, <1>5, <1>10, <1>15
    <2>2. Stored(n)'
      BY <1>1, <1>3, <1>4, <1>13, <2>1 DEF Stored
    <2>3. RestOfFlashKept'
      BY <1>1, <1>13, <1>14, <2>1 DEF NandInv, RestOfFlashKept
    <2> QED BY <1>1, <1>2, <1>3, <1>12, <1>14, <2>1, <2>2, <2>3
            DEF NandInv, RangeIsCopied, StoresTheRange, LoadsTheRange
  <1>16. CASE page_offset > 0
    <2>1. PagesOf(call.len) = n + 1 /\ n < Blocks * PagesPerBlock
      BY <1>2, <1>5, <1>16, ChipSize
    <2>2. flash' = [chip EXCEPT ![FlashPlace(n)] = @ \cup {image}]
      BY <1>10, <1>14, <1>16
    <2>3. CASE n = 0
      <3>1. i = 0 /\ Here.page = 0 /\ Here.block = block /\ block = First % BlockModulus
        <4>1. First + 0 = First
          BY <1>2, FirstRow
        <4> QED BY <1>6, <1>4, <2>3, <4>1 DEF At
      <3>2. flash' = nand_program(nand_blockerase(flash, First % BlockModulus),
                                  First % BlockModulus, 0, sdram[MemoryPlace(0)])
        BY <1>4, <1>7, <2>2, <2>3, <3>1 DEF nand_program
      <3>3. (Stored(1) /\ Untouched(1))'
        BY <1>1, <1>2, <1>3, <1>4, <2>3, <3>2, FirstPageStored
      <3>4. RestOfFlashKept'
        BY <1>2, <1>12, <1>14, <2>1, <2>3, <3>3, RestKept
      <3> QED BY <1>1, <1>2, <1>3, <1>12, <1>14, <2>1, <2>3, <3>3, <3>4
              DEF NandInv, RangeIsCopied, StoresTheRange, LoadsTheRange
    <2>4. CASE n # 0
      <3>1. n \in Nat \ {0} /\ Stored(n) /\ Untouched(n)
        BY <1>3, <1>4, <2>4
      <3>2. \A r \in Rows : chip[r] = IF Here.page = 0 /\ BlockOf(r) = BlockOf(FlashPlace(n))
                                      THEN {} ELSE flash[r]
        BY <1>7 DEF nand_blockerase
      <3>3. DOMAIN chip = Rows
        BY <1>9
      <3> HIDE DEF chip
      <3>4. \A k \in 0..(n - 1) : FlashPlace(k) \in Rows
        BY <1>2, PlaceTypes
      <3>5. Here.page = 0 => \A k \in 0..(n - 1) : BlockOf(FlashPlace(k)) # BlockOf(FlashPlace(n))
        <4>1. Here.page = 0 => n = q * PagesPerBlock
          BY <1>4, <1>6 DEF At
        <4> QED BY <1>2, <2>1, <4>1, BlocksDiffer
      <3>6. \A k \in 0..(n - 1) : chip[FlashPlace(k)] = flash[FlashPlace(k)]
        BY <3>2, <3>4, <3>5
      <3>7. /\ n < PagesPerBlock => flash[FlashPlace(n)] = {}
            /\ flash[FlashPlace(n)] \subseteq flash0[FlashPlace(n)]
        BY <1>2, <2>1, <3>1, PageBefore
      <3>8. /\ n < PagesPerBlock => chip[FlashPlace(n)] = {}
            /\ chip[FlashPlace(n)] \subseteq flash0[FlashPlace(n)]
        BY <1>7, <3>2, <3>7
      <3>9. flash' = [chip EXCEPT ![FlashPlace(n)] = @ \cup {sdram[MemoryPlace(n)]}]
        BY <1>4, <2>2
      <3>10. Stored(n + 1)'
        BY <1>1, <1>2, <2>1, <3>1, <3>3, <3>6, <3>8, <3>9, NextPageStored
      <3>11. RestOfFlashKept'
        <4> DEFINE range == {FlashPlace(k) : k \in 0..n}
        <4>1. (n + 1) - 1 = n /\ FlashPlace(n) \in range /\ FlashPlace(0) \in range
          OBVIOUS
        <4>2. {FlashPlace(k)' : k \in 0..(PagesOf(call.len)' - 1)} = range
          BY <1>13, <1>14, <2>1, <4>1
        <4>3. ASSUME NEW r \in Rows, r \notin range
              PROVE  \/ flash'[r] = flash0[r]
                     \/ flash'[r] = {} /\ \E p \in range : BlockOf(p) = BlockOf(r)
          <5>1. flash'[r] = chip[r]
            BY <1>7, <3>3, <3>9, <4>1, <4>3
          <5>2. \A k \in 0..(n - 1) : FlashPlace(k) # r
            BY <4>3
          <5>3. flash[r] = IF BlockOf(r) = BlockOf(FlashPlace(0)) THEN {} ELSE flash0[r]
            BY <3>1, <5>2 DEF Untouched
          <5> QED BY <3>2, <4>1, <5>1, <5>3
        <4> HIDE DEF range
        <4> QED BY <1>1, <4>2, <4>3 DEF RestOfFlashKept
      <3> QED BY <1>1, <1>2, <1>3, <1>12, <1>14, <2>1, <3>10, <3>11
              DEF NandInv, RangeIsCopied, StoresTheRange, LoadsTheRange
    <2> QED BY <2>3, <2>4
  <1> QED BY <1>14, <1>15, <1>16

\* What a page reads as that holds these images.
ReadsAs(held) ==
  IF held = {} THEN Ones
  ELSE IF Cardinality(held) = 1 THEN CHOOSE image \in held : TRUE ELSE Mixed

\* A page read reaches its place in memory and leaves the others.
LEMMA NextPageLoaded ==
  ASSUME TypeOK, NEW n \in Nat, n < MemoryPages, Loaded(n),
         UNCHANGED <<call, flash, sdram0>>,
         NEW b, NEW p, Row(b, p) = FlashPlace(n),
         sdram' = [sdram EXCEPT ![MemoryPlace(n)] = nand_readpage(flash, b, p)]
  PROVE  Loaded(n + 1)' /\ sdram' \in [Memory -> Images]
  <1>1. \A k : FlashPlace(k)' = FlashPlace(k) /\ MemoryPlace(k)' = MemoryPlace(k)
    BY DEF FlashPlace, MemoryPlace
  <1>2. \A k \in 0..n : MemoryPlace(k) \in Memory /\ FlashPlace(k) \in Rows
    BY PlaceTypes
  <1>3. \A k \in 0..(n - 1) : MemoryPlace(k) # MemoryPlace(n)
    BY PlacesDiffer
  <1>4. Row(0, FlashPlace(n)) = FlashPlace(n)
    <2> DEFINE m == Blocks * PagesPerBlock
               r == FlashPlace(n)
    <2>1. r \in 0..(m - 1) /\ m \in Nat \ {0}
      BY <1>2, ChipSize DEF Rows
    <2> HIDE DEF m, r
    <2>2. (0 * PagesPerBlock + r) % m = r
      BY <2>1
    <2> QED BY <2>2 DEF Row, m, r
  <1>5. nand_readpage(flash, b, p) = nand_readpage(flash, 0, FlashPlace(n))
    <2>1. \A c, s : nand_readpage(flash, c, s) = ReadsAs(flash[Row(c, s)])
      BY DEF nand_readpage, ReadsAs
    <2>2. flash[Row(b, p)] = flash[Row(0, FlashPlace(n))]
      BY <1>4
    <2> QED BY <2>1, <2>2
  <1>6. nand_readpage(flash, b, p) \in Images
    <2> DEFINE held == flash[FlashPlace(n)]
    <2>1. held \subseteq Images
      BY <1>2 DEF TypeOK
    <2>2. held # {} => (CHOOSE image \in held : TRUE) \in Images
      BY <2>1
    <2>3. Ones \in Images /\ Mixed \in Images
      BY DEF Images
    <2> HIDE DEF held
    <2>4. nand_readpage(flash, b, p) = ReadsAs(held)
      BY DEF nand_readpage, ReadsAs, held
    <2> QED BY <2>2, <2>3, <2>4 DEF ReadsAs
  <1>7. DOMAIN sdram = Memory
    BY DEF TypeOK
  <1>8. sdram' \in [Memory -> Images]
    BY <1>6 DEF TypeOK
  <1>9. sdram'[MemoryPlace(n)] = nand_readpage(flash, 0, FlashPlace(n))
    BY <1>2, <1>5, <1>7
  <1>10. \A m \in Memory : m # MemoryPlace(n) => sdram'[m] = sdram[m]
    BY <1>7
  <1>11. ASSUME NEW k \in 0..((n + 1) - 1)
         PROVE  sdram'[MemoryPlace(k)] = nand_readpage(flash, 0, FlashPlace(k))
    <2>1. CASE k = n
      BY <1>9, <2>1
    <2>2. CASE k # n
      <3>1. k \in 0..(n - 1)
        BY <2>2
      <3> QED BY <1>2, <1>3, <1>10, <3>1 DEF Loaded
    <2> QED BY <2>1, <2>2
  <1>12. ASSUME NEW m \in Memory, \A k \in 0..((n + 1) - 1) : MemoryPlace(k) # m
         PROVE  sdram'[m] = sdram0[m]
    <2>1. n \in 0..((n + 1) - 1) /\ \A k \in 0..(n - 1) : k \in 0..((n + 1) - 1)
      OBVIOUS
    <2> QED BY <1>10, <1>12, <2>1 DEF Loaded
  <1>13. \A k : nand_readpage(flash, 0, k)' = nand_readpage(flash, 0, k)
    BY DEF nand_readpage, Row
  <1>14. Loaded(n + 1)'
    <2>1. \A k \in 0..((n + 1) - 1) :
             sdram'[MemoryPlace(k)'] = nand_readpage(flash', 0, FlashPlace(k)')
      BY <1>1, <1>11
    <2>2. \A m \in Memory : (\A k \in 0..((n + 1) - 1) : MemoryPlace(k)' # m) => sdram'[m] = sdram0'[m]
      BY <1>1, <1>12
    <2> QED BY <2>1, <2>2 DEF Loaded
  <1> QED BY <1>8, <1>14

LEMMA ReadPageInv ==
  ASSUME NandInv, ReadPage
  PROVE  NandInv'
  <1>1. cmd = "flashl" /\ cmd' = cmd /\ i < pages /\ NextPage /\ UNCHANGED flash
        /\ UNCHANGED <<call, flash0, sdram0, calls, page_offset>>
    BY DEF ReadPage, NextPage, history
  <1>2. /\ TypeOK /\ call.len \in Lens \cup {0} /\ Running /\ Counters
        /\ Done \in 0..Whole /\ Whole \in Nat /\ PagesOf(call.len) \in Nat
        /\ Whole <= PagesOf(call.len) /\ PagesOf(call.len) <= MemoryPages
    BY <1>1, RunFacts
  <1>3. Loaded(Done) /\ flash = flash0 /\ download_addr = MemoryPlace(Done)
    BY <1>1, <1>2 DEF Running
  <1>4. /\ Counters' /\ Done' = Done + 1 /\ Done + 1 <= Whole
        /\ (download_addr = MemoryPlace(Done))'
        /\ block' \in 0..(BlockModulus - 1) /\ i' \in 0..PagesPerBlock /\ pages' \in Nat
    BY <1>1, <1>2, <1>3, CountersGoOn
  <1>5. PICK q \in Nat : At(q)
    BY <1>2, HereIsNext
  <1>6. PICK n \in Nat : n = Done
    BY <1>2
  <1>7. n < MemoryPages /\ Done' = n + 1
    BY <1>2, <1>4, <1>6
  <1>8. Row(Here.block, Here.page) = FlashPlace(n)
    BY <1>5, <1>6 DEF At
  <1>9. sdram' = [sdram EXCEPT ![MemoryPlace(n)] = nand_readpage(flash, Here.block, Here.page)]
    BY <1>3, <1>6 DEF ReadPage
  <1>10. Loaded(n + 1)' /\ sdram' \in [Memory -> Images]
    BY <1>1, <1>2, <1>3, <1>6, <1>7, <1>8, <1>9, NextPageLoaded
  <1>11. TypeOK'
    <2>1. (download_addr \in Memory)'
      <3>1. download_addr \in Nat /\ MemoryPages \in Nat \ {0}
        BY <1>2 DEF TypeOK, Memory
      <3>2. (download_addr + 1) % MemoryPages \in 0..(MemoryPages - 1)
        BY <3>1
      <3> QED BY <1>1, <3>2 DEF NextPage, Memory
    <2> QED BY <1>1, <1>2, <1>4, <1>10, <2>1 DEF TypeOK
  <1>12. Running'
    <2>1. Loaded(Done)'
      BY <1>7, <1>10
    <2> QED BY <1>1, <1>2, <1>3, <1>4, <2>1 DEF Running
  <1>13. RestOfFlashKept'
    BY <1>1, <1>3 DEF RestOfFlashKept
  <1> QED BY <1>1, <1>2, <1>11, <1>12, <1>13
          DEF NandInv, RangeIsCopied, StoresTheRange, LoadsTheRange

LEMMA ReadLastPageInv ==
  ASSUME NandInv, ReadLastPage
  PROVE  NandInv'
  <1>1. cmd = "flashl" /\ cmd' = "none" /\ i >= pages
        /\ UNCHANGED <<flash, pages, page_offset, download_addr>>
        /\ UNCHANGED <<call, flash0, sdram0, calls>> /\ block' = Here.block /\ i' = Here.page
    BY DEF ReadLastPage, history
  <1>2. /\ TypeOK /\ call.len \in Lens \cup {0} /\ Running /\ Counters
        /\ Done \in 0..Whole /\ Whole \in Nat /\ PagesOf(call.len) \in Nat
        /\ PagesOf(call.len) <= MemoryPages
        /\ PagesOf(call.len) = Whole + (IF page_offset > 0 THEN 1 ELSE 0)
    BY <1>1, RunFacts
  <1>3. Loaded(Done) /\ flash = flash0 /\ download_addr = MemoryPlace(Done) /\ call.name = "flashl"
    BY <1>1, <1>2 DEF Running
  <1>4. PICK n \in Nat : n = Done
    BY <1>2
  <1>5. n = Whole
    BY <1>1, <1>2, <1>4 DEF Done, TypeOK, Counters
  <1>6. PICK q \in Nat : At(q)
    BY <1>2, HereIsNext
  <1>7. Row(Here.block, Here.page) = FlashPlace(n)
    BY <1>4, <1>6 DEF At
  <1>8. page_offset \in Nat /\ PagesOf(call.len)' = PagesOf(call.len)
    BY <1>1, <1>2 DEF TypeOK
  <1>9. sdram' \in [Memory -> Images] /\ Loaded(PagesOf(call.len))'
    <2>1. CASE page_offset = 0
      <3>1. PagesOf(call.len) = n /\ sdram' = sdram
        BY <1>2, <1>5, <2>1 DEF ReadLastPage
      <3>2. Loaded(n)'
        <4>1. Loaded(n)
          BY <1>3, <1>4
        <4> QED BY <1>1, <3>1, <4>1 DEF Loaded, FlashPlace, MemoryPlace, nand_readpage, Row
      <3> QED BY <1>2, <1>8, <3>1, <3>2 DEF TypeOK
    <2>2. CASE page_offset > 0
      <3>1. PagesOf(call.len) = n + 1 /\ n < MemoryPages
        BY <1>2, <1>5, <2>2
      <3>2. sdram' = [sdram EXCEPT ![MemoryPlace(n)] = nand_readpage(flash, Here.block, Here.page)]
        BY <1>3, <1>4, <2>2 DEF ReadLastPage
      <3>3. Loaded(n + 1)' /\ sdram' \in [Memory -> Images]
        BY <1>1, <1>2, <1>3, <1>4, <1>7, <3>1, <3>2, NextPageLoaded
      <3> QED BY <1>8, <3>1, <3>3
    <2> QED BY <1>8, <2>1, <2>2
  <1>10. TypeOK'
    <2>1. First + q \in Nat
      BY <1>2, FirstRow
    <2>2. Here.block \in 0..(BlockModulus - 1) /\ Here.page \in 0..PagesPerBlock
      <3>1. (First + q) % BlockModulus \in 0..(BlockModulus - 1)
        BY <2>1, Division, BlockAssumption, Zenon
      <3> QED BY <1>6, <3>1 DEF At
    <2> QED BY <1>1, <1>2, <1>9, <2>2 DEF TypeOK
  <1>11. RestOfFlashKept'
    BY <1>1, <1>3 DEF RestOfFlashKept
  <1> QED BY <1>1, <1>2, <1>3, <1>9, <1>10, <1>11
          DEF NandInv, RangeIsCopied, StoresTheRange, LoadsTheRange

LEMMA PowerLossInv ==
  ASSUME NandInv, PowerLoss
  PROVE  NandInv'
  <1>1. /\ cmd' = "none" /\ UNCHANGED <<flash, flash0, sdram0, calls>>
        /\ block' = 0 /\ i' = 0 /\ pages' = 0 /\ page_offset' = 0 /\ download_addr' = 0
        /\ sdram' = [m \in Memory |-> Image(m)]
        /\ call' = [call EXCEPT !.name = "lost"]
    BY DEF PowerLoss
  <1>2. TypeOK /\ call.len \in Lens \cup {0}
    BY DEF NandInv
  <1>3. /\ call'.name = "lost" /\ call'.len = call.len /\ call'.first = call.first
        /\ call'.memory = call.memory
        /\ call' \in [name : {"none", "flashw", "flashl", "lost"}, first : Nat, memory : Memory, len : Nat]
    BY <1>1, <1>2 DEF TypeOK
  <1>4. TypeOK'
    <2>1. sdram' \in [Memory -> Images] /\ 0 \in Memory
      BY <1>1 DEF Images, Image, Memory
    <2> QED BY <1>1, <1>2, <1>3, <2>1, BlockAssumption DEF TypeOK
  <1>5. RestOfFlashKept'
    <2>1. \A k : FlashPlace(k)' = FlashPlace(k)
      BY <1>3 DEF FlashPlace
    <2>2. RestOfFlashKept
      BY DEF NandInv
    <2> QED BY <1>1, <1>3, <2>1, <2>2 DEF RestOfFlashKept
  <1> QED BY <1>1, <1>2, <1>3, <1>4, <1>5
          DEF NandInv, RangeIsCopied, StoresTheRange, LoadsTheRange

LEMMA StutterInv ==
  ASSUME NandInv, UNCHANGED vars
  PROVE  NandInv'
  <1>1. UNCHANGED <<flash, sdram, cmd, block, i, pages, page_offset, download_addr>>
        /\ UNCHANGED <<call, flash0, sdram0, calls>>
    BY DEF vars, locals, history
  <1>2. TypeOK' /\ call'.len \in Lens \cup {0}
    BY <1>1 DEF NandInv, TypeOK
  <1>3. \A k : FlashPlace(k)' = FlashPlace(k) /\ MemoryPlace(k)' = MemoryPlace(k)
    BY <1>1 DEF FlashPlace, MemoryPlace
  <1>4. Done' = Done /\ (Counters' <=> Counters)
    BY <1>1 DEF Done, Counters, Whole, First
  <1>5. \A n : /\ Stored(n)' <=> Stored(n)
               /\ Untouched(n)' <=> Untouched(n)
               /\ Loaded(n)' <=> Loaded(n)
    BY <1>1, <1>3 DEF Stored, Untouched, Loaded, nand_readpage, Row
  <1>6. cmd' # "none" => Running'
    BY <1>1, <1>3, <1>4, <1>5 DEF NandInv, Running
  <1>7. RangeIsCopied' /\ RestOfFlashKept'
    BY <1>1, <1>3, <1>5 DEF NandInv, RangeIsCopied, StoresTheRange, LoadsTheRange, RestOfFlashKept
  <1> QED BY <1>2, <1>6, <1>7 DEF NandInv

LEMMA NandInvariance == Spec => []NandInv
  <1>1. Init => NandInv
    BY InitInv
  <1>2. NandInv /\ [Next]_vars => NandInv'
    <2> SUFFICES ASSUME NandInv, [Next]_vars PROVE NandInv'
      OBVIOUS
    <2>1. ASSUME NEW name \in {"flashw", "flashl"}, NEW first \in FlashAddrs,
                 NEW memory \in Downloads, NEW len \in Lens, Command(name, first, memory, len)
          PROVE  NandInv'
      BY <2>1, CommandInv
    <2>2. CASE WritePage
      BY <2>2, WritePageInv
    <2>3. CASE WriteLastPage
      BY <2>3, WriteLastPageInv
    <2>4. CASE ReadPage
      BY <2>4, ReadPageInv
    <2>5. CASE ReadLastPage
      BY <2>5, ReadLastPageInv
    <2>6. CASE PowerLoss
      BY <2>6, PowerLossInv
    <2>7. CASE UNCHANGED vars
      BY <2>7, StutterInv
    <2> QED BY <2>1, <2>2, <2>3, <2>4, <2>5, <2>6, <2>7 DEF Next, Run
  <1> QED BY <1>1, <1>2, PTL DEF Spec

-----------------------------------------------------------------------------

\* The variables keep their types; i never passes the end of a block
\* (command.c:157-161).
THEOREM TypeCorrect == Spec => []TypeOK
  <1>1. NandInv => TypeOK
    BY DEF NandInv
  <1> QED BY <1>1, NandInvariance, PTL

\* A flashw that returned has put every page of every range that fits into its
\* place over the block limits, a flashl has read every page of it into the memory
\* and nothing else of the memory was changed (command.c:134-223).
THEOREM EveryRangeIsCopied == Spec => []RangeIsCopied
  <1>1. NandInv => RangeIsCopied
    BY DEF NandInv
  <1> QED BY <1>1, NandInvariance, PTL

\* At every page of a flashw, and wherever the power fails in it, the flash outside
\* the range has lost nothing but pages of erased blocks (command.c:151-178).
THEOREM RestOfFlashStays == Spec => []RestOfFlashKept
  <1>1. NandInv => RestOfFlashKept
    BY DEF NandInv, Running
  <1> QED BY <1>1, NandInvariance, PTL
=============================================================================
