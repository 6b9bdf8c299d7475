---------------------------- MODULE Pl330Proofs -----------------------------
(***************************************************************************)
(* Proofs about the programs dma_mem_transfer writes, for every size of    *)
(* the counts and of the jumps and every transfer size.                    *)
(***************************************************************************)
EXTENDS Pl330, SequenceTheorems, TLAPS

\* The unrolling the jump of the outer loop can span is at least one burst.
LEMMA CycmaxBounds ==
  /\ cycmax \in Nat \ {0}
  /\ 2 * cycmax + 9 <= JumpModulus
<1> DEFINE n == JumpModulus - 1 - (2 * 2 + 2 * 2)
<1>1. n \in Nat /\ n >= 2 /\ n = JumpModulus - 9  BY ByteAssumption
<1> HIDE DEF n
<1>2. cycmax = n \div 2  BY DEF cycmax, n
<1>3. n = 2 * (n \div 2) + (n % 2) /\ n % 2 \in 0..1 /\ n \div 2 \in Int  BY <1>1
<1> QED  BY <1>1, <1>2, <1>3, ByteAssumption

\* Dividing by the modulus of a count.
LEMMA CountDivision ==
  ASSUME NEW a \in Nat
  PROVE  /\ a \div CountModulus \in Nat
         /\ (a \div CountModulus) * CountModulus <= a
         /\ a < ((a \div CountModulus) + 1) * CountModulus
<1> DEFINE d == CountModulus
           q == a \div CountModulus
           r == a % CountModulus
<1>0. d \in Nat /\ d > 0  BY ByteAssumption
<1>1. r \in 0..(d - 1)  BY <1>0
<1>2. a = d * q + r /\ q \in Int  BY <1>0
<1> HIDE DEF d, q, r
<1>3. q >= 0
  <2> SUFFICES ASSUME q <= -1 PROVE FALSE  BY <1>2
  <2>1. \A t \in Int : t <= -1 => d * t <= -d  BY <1>0
  <2>2. d * q <= -d  BY <2>1, <1>2
  <2> QED  BY <2>2, <1>0, <1>1, <1>2
<1>4. d * q = q * d /\ (q + 1) * d = q * d + d /\ q * d \in Int  BY <1>0, <1>2
<1>5. q \in Nat /\ q * d <= a /\ a < (q + 1) * d  BY <1>0, <1>1, <1>2, <1>3, <1>4
<1> QED  BY <1>5 DEF d, q

\* A quotient lies between the multiples of the modulus its dividend lies between.
LEMMA QuotientRange ==
  ASSUME NEW a \in Nat, NEW k \in Nat
  PROVE  /\ a >= k * CountModulus => a \div CountModulus >= k
         /\ a < k * CountModulus => a \div CountModulus < k
<1> DEFINE d == CountModulus
           q == a \div CountModulus
<1>1. q \in Nat /\ q * d <= a /\ a < (q + 1) * d  BY CountDivision
<1>2. d \in Nat /\ d > 0  BY ByteAssumption
<1> HIDE DEF d, q
<1>3. \A x, y \in Nat : x <= y => x * d <= y * d
  <2> TAKE x, y \in Nat
  <2> HAVE x <= y
  <2>1. \A z \in Nat : z * d >= 0  BY <1>2
  <2>2. (y - x) * d >= 0  BY <2>1
  <2>3. (y - x) * d = y * d - x * d  BY <1>2
  <2> QED  BY <2>2, <2>3, <1>2
<1>4. a >= k * d => q >= k
  <2> SUFFICES ASSUME a >= k * d, q + 1 <= k PROVE FALSE  BY <1>1
  <2>1. (q + 1) * d <= k * d  BY <1>1, <1>3
  <2> QED  BY <2>1, <1>1, <1>2
<1>5. a < k * d => q < k
  <2> SUFFICES ASSUME a < k * d, k <= q PROVE FALSE  BY <1>1
  <2>1. k * d <= q * d  BY <1>1, <1>3
  <2> QED  BY <2>1, <1>1, <1>2
<1> QED  BY <1>4, <1>5 DEF d, q

\* One call of _loop: its counts and its unrolling fit their bytes, and it takes
\* at least one burst and never more than are left.
LEMMA ChunkBounds ==
  ASSUME NEW b \in Nat \ {0}
  PROVE  /\ Chunk(b).lcnt0 \in 0..CountModulus
         /\ Chunk(b).lcnt1 \in 1..CountModulus
         /\ Chunk(b).cyc \in 1..cycmax
         /\ Consumed(Chunk(b)) \in 1..b
<1> DEFINE C == CountModulus
           q == b \div CountModulus
<1>1. C \in Nat /\ C >= 2 /\ Full = C * C /\ C * C \in Nat
  BY ByteAssumption DEF Full
<1>2. cycmax \in Nat \ {0}  BY CycmaxBounds
<1>3. q \in Nat /\ q * C <= b  BY CountDivision
<1>4. CASE b >= Full
  <2> DEFINE y == q \div CountModulus
             m == IF cycmax < y THEN cycmax ELSE y
  <2>1. q >= C  BY QuotientRange, <1>1, <1>4
  <2>2. y \in Nat /\ y * C <= q  BY CountDivision, <1>3
  <2>3. q >= 1 * CountModulus  BY <2>1, <1>1, <1>3
  <2>4. y >= 1  BY QuotientRange, <2>3, <1>3
  <2>5. m \in 1..cycmax /\ m <= y  BY <2>2, <2>4, <1>2
  <2>6. Chunk(b) = [lcnt0 |-> C, lcnt1 |-> C, cyc |-> m]
    BY <1>4 DEF Chunk, ChunkUncapped
  <2>7. Consumed(Chunk(b)) = C * m * C  BY <2>6, <1>1 DEF Consumed
  <2> HIDE DEF C, q, y, m
  <2>8. m * C <= y * C
    <3>1. \A z \in Nat : z * C >= 0  BY <1>1
    <3>2. (y - m) * C >= 0  BY <3>1, <2>2, <2>5, <1>2
    <3>3. (y - m) * C = y * C - m * C  BY <1>1, <2>2, <2>5, <1>2
    <3> QED  BY <3>2, <3>3, <1>1, <2>2, <2>5, <1>2
  <2>9. m * C <= q /\ m * C \in Nat  BY <2>8, <2>2, <2>5, <1>1, <1>2, <1>3
  <2>10. (m * C) * C <= q * C
    <3> DEFINE x == m * C
    <3>0. x \in Nat /\ x <= q  BY <2>9
    <3> HIDE DEF x
    <3>1. \A z \in Nat : z * C >= 0  BY <1>1
    <3>2. (q - x) * C >= 0  BY <3>0, <3>1, <1>3
    <3>3. (q - x) * C = q * C - x * C  BY <1>1, <1>3, <3>0
    <3>4. x * C <= q * C  BY <3>0, <3>2, <3>3, <1>1, <1>3
    <3> QED  BY <3>4 DEF x
  <2>11. C * m * C = (m * C) * C  BY <1>1, <1>2, <2>5
  <2>12. C * m * C <= b  BY <2>10, <2>11, <1>1, <1>3, <2>9
  <2>13. C * m * C \in Nat /\ C * m * C >= 1
    <3>1. \A u, v \in Nat \ {0} : u * v \in Nat \ {0}  OBVIOUS
    <3>2. C * m \in Nat \ {0}  BY <3>1, <1>1, <1>2, <2>5
    <3>3. C * m * C \in Nat \ {0}  BY <3>1, <3>2, <1>1
    <3> QED  BY <3>3
  <2>14. Consumed(Chunk(b)) \in 1..b  BY <2>7, <2>12, <2>13
  <2>15. C \in 0..C /\ C \in 1..C  BY <1>1
  <2> QED  BY <2>5, <2>6, <2>14, <2>15 DEF C
<1>5. CASE b < Full /\ b > CountModulus
  <2>1. q < C  BY QuotientRange, <1>1, <1>5
  <2>2. b >= 1 * CountModulus  BY <1>5, <1>1
  <2>3. q >= 1  BY QuotientRange, <2>2
  <2>4. ~(b >= Full)  BY <1>1, <1>5
  <2>5. Chunk(b) = [lcnt0 |-> q, lcnt1 |-> C, cyc |-> 1]
    BY <1>2, <1>5, <2>4 DEF Chunk, ChunkUncapped
  <2> HIDE DEF q, C
  <2>6. Consumed(Chunk(b)) = C * 1 * q  BY <2>5, <2>3, <1>3 DEF Consumed
  <2>7. C * 1 * q = q * C /\ q * C \in Nat /\ q * C >= 1
    <3>1. \A u, v \in Nat \ {0} : u * v \in Nat \ {0}  OBVIOUS
    <3>2. q * C \in Nat \ {0}  BY <3>1, <1>1, <1>3, <2>3
    <3> QED  BY <3>2, <1>1, <1>3
  <2>8. q \in 0..C /\ C \in 1..C /\ 1 \in 1..cycmax  BY <2>1, <2>3, <1>1, <1>2, <1>3
  <2> QED  BY <2>5, <2>6, <2>7, <2>8, <1>3 DEF C
<1>6. CASE b <= CountModulus
  <2> DEFINE c == [lcnt0 |-> 0, lcnt1 |-> b, cyc |-> 1]
  <2>1. \A z \in Nat : z >= 2 => z < z * z
    <3> TAKE z \in Nat
    <3> HAVE z >= 2
    <3>1. \A w \in Nat : w * z >= 0  OBVIOUS
    <3>2. (z - 2) * z >= 0  BY <3>1
    <3>3. (z - 2) * z = z * z - 2 * z  OBVIOUS
    <3> QED  BY <3>2, <3>3
  <2>2. ~(b >= Full) /\ ~(b > CountModulus)  BY <2>1, <1>1, <1>6
  <2>3. Chunk(b) = c  BY <1>2, <2>2 DEF Chunk, ChunkUncapped
  <2>4. Consumed(c) = b  BY DEF Consumed
  <2>5. 0 \in 0..CountModulus /\ b \in 1..CountModulus /\ 1 \in 1..cycmax /\ b \in 1..b
    BY <1>1, <1>2, <1>6
  <2> QED  BY <2>3, <2>4, <2>5
<1> QED  BY <1>1, <1>4, <1>5, <1>6

-----------------------------------------------------------------------------
(* The loop of _setup_loops.                                               *)

\* What is left to be programmed lies between 0 and the size asked for.
BurstsInv == size \in Nat /\ bursts \in Nat

LEMMA BurstsInit == Init => BurstsInv
<1>1. Sizes \subseteq Nat  BY BufAssumption
<1> QED  BY <1>1 DEF Init, BurstsInv

LEMMA BurstsNext == BurstsInv /\ [Next]_vars => BurstsInv'
<1> SUFFICES ASSUME BurstsInv, [Next]_vars PROVE BurstsInv'  OBVIOUS
<1> USE DEF BurstsInv
<1>1. CASE Call  BY <1>1 DEF Call
<1>2. CASE EmitHead  BY <1>2 DEF EmitHead
<1>3. CASE EmitLoop
  <2>1. Consumed(Chunk(bursts)) \in 1..bursts  BY <1>3, ChunkBounds DEF EmitLoop
  <2> QED  BY <1>3, <2>1 DEF EmitLoop
<1>4. CASE EmitTail  BY <1>4 DEF EmitTail
<1>5. CASE Go  BY <1>5 DEF Go
<1>6. CASE OtherCalls  BY <1>6 DEF OtherCalls
<1>7. CASE Engine
  BY <1>7 DEF Engine, Mov, LoopStart, LoopEnd, Load, Store, SendEvent, End, cpuVars
<1>8. CASE UNCHANGED vars  BY <1>8 DEF vars, cpuVars
<1> QED  BY <1>1, <1>2, <1>3, <1>4, <1>5, <1>6, <1>7, <1>8 DEF Next, Cpu

\* Every loop the program holds can be encoded, and programming ends: for every
\* picture size, not only the 480 * 272 * 4 bytes of the frame buffer.
THEOREM EveryLoopEncodes == Spec => []LoopEncodes
<1>1. BurstsInv => LoopEncodes
  <2> SUFFICES ASSUME BurstsInv, bursts # 0 PROVE
        LET c == Chunk(bursts) IN
        /\ c.lcnt0 \in 0..CountModulus /\ c.lcnt1 \in 1..CountModulus /\ c.cyc \in 1..cycmax
        /\ Length.LP + 2 * c.cyc + Length.LPEND < JumpModulus
        /\ Consumed(c) \in 1..bursts
    BY DEF LoopEncodes
  <2>1. bursts \in Nat \ {0}  BY DEF BurstsInv
  <2>2. /\ Chunk(bursts).lcnt0 \in 0..CountModulus
        /\ Chunk(bursts).lcnt1 \in 1..CountModulus
        /\ Chunk(bursts).cyc \in 1..cycmax
        /\ Consumed(Chunk(bursts)) \in 1..bursts
    BY <2>1, ChunkBounds
  <2>3. Length.LP = 2 /\ Length.LPEND = 2  BY DEF Length
  <2>4. 2 + 2 * Chunk(bursts).cyc + 2 < JumpModulus
    BY <2>2, CycmaxBounds, ByteAssumption
  <2> QED  BY <2>2, <2>3, <2>4
<1> QED  BY <1>1, BurstsInit, BurstsNext, PTL DEF Spec

-----------------------------------------------------------------------------
(* The bytes of an instruction, of a chunk and of a whole program.          *)

IsSeq(s) == \E S : s \in Seq(S)

LEMMA Concatenation ==
  ASSUME NEW s, NEW t, IsSeq(s), IsSeq(t)
  PROVE  /\ IsSeq(s \o t) /\ Len(s \o t) = Len(s) + Len(t)
         /\ Len(s) \in Nat /\ Len(t) \in Nat
         /\ \A k \in 1..Len(s) : (s \o t)[k] = s[k]
         /\ \A k \in 1..Len(t) : (s \o t)[k + Len(s)] = t[k]
<1>1. PICK S : s \in Seq(S)  BY DEF IsSeq
<1>2. PICK T : t \in Seq(T)  BY DEF IsSeq
<1>3. s \in Seq(S \cup T) /\ t \in Seq(S \cup T)  BY <1>1, <1>2
<1>4. /\ s \o t \in Seq(S \cup T)
      /\ Len(s \o t) = Len(s) + Len(t)
      /\ \A k \in 1..(Len(s) + Len(t)) :
           (s \o t)[k] = IF k <= Len(s) THEN s[k] ELSE t[k - Len(s)]
  BY <1>3, ConcatProperties
<1>5. Len(s) \in Nat /\ Len(t) \in Nat  BY <1>3, LenProperties
<1>6. ASSUME NEW k \in 1..Len(s) PROVE (s \o t)[k] = s[k]  BY <1>4, <1>5
<1>7. ASSUME NEW k \in 1..Len(t) PROVE (s \o t)[k + Len(s)] = t[k]
  <2>1. k + Len(s) \in 1..(Len(s) + Len(t)) /\ ~(k + Len(s) <= Len(s)) /\ k + Len(s) - Len(s) = k
    BY <1>5
  <2> QED  BY <1>4, <2>1
<1>8. IsSeq(s \o t)  BY <1>4 DEF IsSeq
<1> QED  BY <1>4, <1>5, <1>6, <1>7, <1>8

\* The bytes of an instruction: the first one is the instruction.
LEMMA EmitBytes ==
  ASSUME NEW i, Length[i.op] \in Nat \ {0}
  PROVE  /\ IsSeq(Emit(i)) /\ Len(Emit(i)) = Length[i.op]
         /\ Emit(i)[1] = i /\ \A k \in 2..Length[i.op] : Emit(i)[k] = Operand
<1> DEFINE n == Length[i.op] - 1
           rest == [k \in 1..n |-> Operand]
<1>1. n \in Nat  OBVIOUS
<1>2. rest \in Seq({i, Operand}) /\ Len(rest) = n /\ \A k \in 1..n : rest[k] = Operand
  <2> HIDE DEF n
  <2> QED BY <1>1
<1>3. <<i>> \in Seq({i, Operand}) /\ Len(<<i>>) = 1 /\ <<i>>[1] = i  OBVIOUS
<1> HIDE DEF rest
<1>4. Len(<<i>> \o rest) = 1 + n  BY <1>1, <1>2, <1>3
<1>5. (<<i>> \o rest)[1] = i  BY <1>1, <1>2, <1>3
<1>6. ASSUME NEW k \in 2..(n + 1) PROVE (<<i>> \o rest)[k] = Operand
  <2>1. (<<i>> \o rest)[k] = rest[k - 1] /\ k - 1 \in 1..n  BY <1>1, <1>2, <1>3
  <2> QED  BY <2>1, <1>2
<1>7. IsSeq(<<i>> \o rest)  BY <1>2, <1>3 DEF IsSeq
<1>8. n + 1 = Length[i.op]  OBVIOUS
<1> QED  BY <1>1, <1>4, <1>5, <1>6, <1>7, <1>8 DEF Emit, rest, n

\* The bytes of the loops are those of the bursts and of the loop instructions.
Body(n) == [k \in 1..n |-> Instr(IF k % 2 = 1 THEN "LD" ELSE "ST", 0, 0)]
Inner(c) == LP(1, c.lcnt1) \o Body(2 * c.cyc) \o LPEND(1, 2 * c.cyc)

LEMMA LoopBytes ==
  ASSUME NEW loop \in {0, 1}, NEW n \in Nat
  PROVE  /\ IsSeq(LP(loop, n)) /\ Len(LP(loop, n)) = 2
         /\ LP(loop, n)[1] = Instr("LP", loop, (n - 1) % CountModulus) /\ LP(loop, n)[2] = Operand
         /\ IsSeq(LPEND(loop, n)) /\ Len(LPEND(loop, n)) = 2
         /\ LPEND(loop, n)[1] = Instr("LPEND", loop, n % JumpModulus) /\ LPEND(loop, n)[2] = Operand
<1> DEFINE i == Instr("LP", loop, (n - 1) % CountModulus)
           j == Instr("LPEND", loop, n % JumpModulus)
<1>3. i.op = "LP" /\ j.op = "LPEND"  BY DEF Instr
<1> HIDE DEF i, j
<1>4. Length[i.op] = 2 /\ Length[j.op] = 2  BY <1>3 DEF Length
<1>5. 2 \in 2..2  OBVIOUS
<1>6. IsSeq(Emit(i)) /\ Len(Emit(i)) = 2 /\ Emit(i)[1] = i /\ Emit(i)[2] = Operand
  <2>1. Length[i.op] \in Nat \ {0}  BY <1>4
  <2>2. /\ IsSeq(Emit(i)) /\ Len(Emit(i)) = Length[i.op]
        /\ Emit(i)[1] = i /\ \A k \in 2..Length[i.op] : Emit(i)[k] = Operand
    BY <2>1, EmitBytes, Zenon
  <2> QED  BY <1>4, <1>5, <2>2
<1>7. IsSeq(Emit(j)) /\ Len(Emit(j)) = 2 /\ Emit(j)[1] = j /\ Emit(j)[2] = Operand
  <2>1. Length[j.op] \in Nat \ {0}  BY <1>4
  <2>2. /\ IsSeq(Emit(j)) /\ Len(Emit(j)) = Length[j.op]
        /\ Emit(j)[1] = j /\ \A k \in 2..Length[j.op] : Emit(j)[k] = Operand
    BY <2>1, EmitBytes, Zenon
  <2> QED  BY <1>4, <1>5, <2>2
<1> QED  BY <1>6, <1>7 DEF LP, LPEND, i, j

LEMMA BodyBytes ==
  ASSUME NEW n \in Nat
  PROVE  /\ IsSeq(Body(n)) /\ Len(Body(n)) = n
         /\ \A k \in 1..n : Body(n)[k] = Instr(IF k % 2 = 1 THEN "LD" ELSE "ST", 0, 0)
<1> DEFINE e(k) == Instr(IF k % 2 = 1 THEN "LD" ELSE "ST", 0, 0)
           S == {e(k) : k \in 1..n}
<1>1. \A k \in 1..n : e(k) \in S  OBVIOUS
<1> HIDE DEF e, S
<1>2. [k \in 1..n |-> e(k)] \in Seq(S) /\ Len([k \in 1..n |-> e(k)]) = n
  BY <1>1
<1>3. Body(n) = [k \in 1..n |-> e(k)]  BY DEF Body, e
<1>4. \A k \in 1..n : Body(n)[k] = e(k)  BY <1>3
<1> QED  BY <1>2, <1>3, <1>4 DEF IsSeq, e

LEMMA InnerBytes ==
  ASSUME NEW c, c.lcnt1 \in Nat, c.cyc \in Nat
  PROVE  /\ IsSeq(Inner(c)) /\ Len(Inner(c)) = 2 * c.cyc + 4
         /\ Inner(c)[1] = Instr("LP", 1, (c.lcnt1 - 1) % CountModulus)
         /\ \A k \in 1..(2 * c.cyc) : Inner(c)[k + 2] = Instr(IF k % 2 = 1 THEN "LD" ELSE "ST", 0, 0)
         /\ Inner(c)[2 * c.cyc + 3] = Instr("LPEND", 1, (2 * c.cyc) % JumpModulus)
<1> DEFINE n == 2 * c.cyc
           s == LP(1, c.lcnt1)
           t == Body(n)
           u == LPEND(1, n)
<1>1. n \in Nat  OBVIOUS
<1>2. IsSeq(s) /\ Len(s) = 2 /\ s[1] = Instr("LP", 1, (c.lcnt1 - 1) % CountModulus)
  BY LoopBytes
<1>3. IsSeq(t) /\ Len(t) = n
      /\ \A k \in 1..n : t[k] = Instr(IF k % 2 = 1 THEN "LD" ELSE "ST", 0, 0)
  BY <1>1, BodyBytes
<1>4. IsSeq(u) /\ Len(u) = 2 /\ u[1] = Instr("LPEND", 1, n % JumpModulus)
  BY <1>1, LoopBytes
<1>5. Inner(c) = s \o t \o u  BY DEF Inner
<1> HIDE DEF n, s, t, u
<1>6. /\ IsSeq(s \o t) /\ Len(s \o t) = n + 2 /\ (s \o t)[1] = s[1]
      /\ \A k \in 1..n : (s \o t)[k + 2] = t[k]
  <2>1. /\ IsSeq(s \o t) /\ Len(s \o t) = Len(s) + Len(t)
        /\ \A k \in 1..Len(s) : (s \o t)[k] = s[k]
        /\ \A k \in 1..Len(t) : (s \o t)[k + Len(s)] = t[k]
    <3>1. IsSeq(s) /\ IsSeq(t)  BY <1>2, <1>3
    <3> QED  BY ONLY <3>1, Concatenation
  <2>2. 1 \in 1..2 /\ n + 2 \in Nat
    BY <1>1
  <2> QED BY <1>1, <1>2, <1>3, <2>1, <2>2
<1>7. /\ IsSeq(s \o t \o u) /\ Len(s \o t \o u) = n + 4
      /\ \A k \in 1..(n + 2) : (s \o t \o u)[k] = (s \o t)[k]
      /\ (s \o t \o u)[1 + (n + 2)] = u[1]
  <2>1. /\ IsSeq(s \o t \o u) /\ Len(s \o t \o u) = Len(s \o t) + Len(u)
        /\ \A k \in 1..Len(s \o t) : (s \o t \o u)[k] = (s \o t)[k]
        /\ \A k \in 1..Len(u) : (s \o t \o u)[k + Len(s \o t)] = u[k]
    <3>1. IsSeq(s \o t) /\ IsSeq(u)  BY <1>4, <1>6
    <3> QED  BY ONLY <3>1, Concatenation
  <2>2. 1 \in 1..2 /\ n + 2 \in Nat
    BY <1>1
  <2> QED BY <1>1, <1>4, <1>6, <2>1, <2>2
<1>8. (s \o t \o u)[1] = s[1]  BY <1>1, <1>6, <1>7
<1>9. ASSUME NEW k \in 1..n PROVE (s \o t \o u)[k + 2] = t[k]
  <2>1. k + 2 \in 1..(n + 2)  BY <1>1
  <2> QED  BY <1>6, <1>7, <2>1
<1>10. (s \o t \o u)[n + 3] = u[1]
  <2>1. 1 + (n + 2) = n + 3  BY <1>1
  <2> QED  BY <1>7, <2>1
<1> QED  BY <1>2, <1>3, <1>4, <1>5, <1>7, <1>8, <1>9, <1>10 DEF n

\* The program of a chunk, with or without the outer loop.
LEMMA LoopCodeBytes ==
  ASSUME NEW c, c.lcnt0 \in Nat, c.lcnt1 \in Nat, c.cyc \in Nat
  PROVE  /\ IsSeq(LoopCode(c))
         /\ c.lcnt0 = 0 => LoopCode(c) = Inner(c) /\ Len(LoopCode(c)) = 2 * c.cyc + 4
         /\ c.lcnt0 # 0 =>
              /\ Len(LoopCode(c)) = 2 * c.cyc + 8
              /\ LoopCode(c)[1] = Instr("LP", 0, (c.lcnt0 - 1) % CountModulus)
              /\ \A k \in 1..(2 * c.cyc + 4) : LoopCode(c)[k + 2] = Inner(c)[k]
              /\ LoopCode(c)[2 * c.cyc + 7] = Instr("LPEND", 0, (2 * c.cyc + 4) % JumpModulus)
<1> DEFINE n == 2 * c.cyc + 4
           s == LP(0, c.lcnt0)
           t == Inner(c)
           u == LPEND(0, n)
<1>1. n \in Nat  OBVIOUS
<1>2. IsSeq(s) /\ Len(s) = 2 /\ s[1] = Instr("LP", 0, (c.lcnt0 - 1) % CountModulus)
  BY LoopBytes
<1>3. IsSeq(t) /\ Len(t) = n  BY InnerBytes
<1>4. IsSeq(u) /\ Len(u) = 2 /\ u[1] = Instr("LPEND", 0, n % JumpModulus)
  BY <1>1, LoopBytes
<1>5. Len(Body(2 * c.cyc)) = 2 * c.cyc  BY BodyBytes
<1>6. LoopCode(c) = IF c.lcnt0 = 0 THEN t ELSE s \o t \o LPEND(0, Len(t))
  BY <1>5 DEF LoopCode, Inner, Body
<1>7. LoopCode(c) = IF c.lcnt0 = 0 THEN t ELSE s \o t \o u  BY <1>3, <1>6
<1> HIDE DEF n, s, t, u
<1>8. /\ IsSeq(s \o t) /\ Len(s \o t) = n + 2 /\ (s \o t)[1] = s[1]
      /\ \A k \in 1..n : (s \o t)[k + 2] = t[k]
  <2>1. /\ IsSeq(s \o t) /\ Len(s \o t) = Len(s) + Len(t)
        /\ \A k \in 1..Len(s) : (s \o t)[k] = s[k]
        /\ \A k \in 1..Len(t) : (s \o t)[k + Len(s)] = t[k]
    <3>1. IsSeq(s) /\ IsSeq(t)  BY <1>2, <1>3
    <3> QED  BY ONLY <3>1, Concatenation
  <2>2. 1 \in 1..2 /\ n + 2 \in Nat
    BY <1>1
  <2> QED BY <1>1, <1>2, <1>3, <2>1, <2>2
<1>9. /\ IsSeq(s \o t \o u) /\ Len(s \o t \o u) = n + 4
      /\ \A k \in 1..(n + 2) : (s \o t \o u)[k] = (s \o t)[k]
      /\ (s \o t \o u)[1 + (n + 2)] = u[1]
  <2>1. /\ IsSeq(s \o t \o u) /\ Len(s \o t \o u) = Len(s \o t) + Len(u)
        /\ \A k \in 1..Len(s \o t) : (s \o t \o u)[k] = (s \o t)[k]
        /\ \A k \in 1..Len(u) : (s \o t \o u)[k + Len(s \o t)] = u[k]
    <3>1. IsSeq(s \o t) /\ IsSeq(u)  BY <1>4, <1>8
    <3> QED  BY ONLY <3>1, Concatenation
  <2>2. 1 \in 1..2 /\ n + 2 \in Nat
    BY <1>1
  <2> QED BY <1>1, <1>4, <1>8, <2>1, <2>2
<1>10. (s \o t \o u)[1] = s[1]  BY <1>1, <1>8, <1>9
<1>11. ASSUME NEW k \in 1..n PROVE (s \o t \o u)[k + 2] = t[k]
  <2>1. k + 2 \in 1..(n + 2)  BY <1>1
  <2> QED  BY <1>8, <1>9, <2>1
<1>12. (s \o t \o u)[n + 3] = u[1]
  <2>1. 1 + (n + 2) = n + 3  BY <1>1
  <2> QED  BY <1>9, <2>1
<1>13. n = 2 * c.cyc + 4 /\ n + 3 = 2 * c.cyc + 7 /\ n + 4 = 2 * c.cyc + 8  BY DEF n
<1> QED  BY <1>2, <1>3, <1>4, <1>7, <1>9, <1>10, <1>11, <1>12, <1>13 DEF t

-----------------------------------------------------------------------------
(* Bytes of a program.                                                     *)

\* What is left after a chunk, and the bytes the chunk takes.
Cost(b) == Len(LoopCode(Chunk(b)))
Rest(b) == b - Consumed(Chunk(b))

LEMMA LastChunk ==
  ASSUME NEW b \in Nat \ {0}, b <= CountModulus
  PROVE  Rest(b) = 0 /\ Cost(b) = 6
<1> DEFINE c == [lcnt0 |-> 0, lcnt1 |-> b, cyc |-> 1]
<1>1. \A z \in Nat : z >= 2 => z < z * z
  <2> TAKE z \in Nat
  <2> HAVE z >= 2
  <2>1. \A w \in Nat : w * z >= 0  OBVIOUS
  <2>2. (z - 2) * z >= 0  BY <2>1
  <2>3. (z - 2) * z = z * z - 2 * z  OBVIOUS
  <2> QED  BY <2>2, <2>3
<1>2. ~(b >= Full) /\ ~(b > CountModulus)
  <2>1. CountModulus \in Nat /\ CountModulus >= 2  BY ByteAssumption
  <2>2. CountModulus < CountModulus * CountModulus  BY <1>1, <2>1
  <2>3. CountModulus * CountModulus \in Nat  BY <2>1
  <2> QED  BY <2>1, <2>2, <2>3 DEF Full
<1>3. Chunk(b) = c  BY <1>2, CycmaxBounds DEF Chunk, ChunkUncapped
<1>4. Consumed(c) = b  BY DEF Consumed
<1>5. Len(LoopCode(c)) = 6
  <2>1. c.lcnt0 = 0 /\ c.lcnt0 \in Nat /\ c.lcnt1 \in Nat /\ c.cyc = 1 /\ c.cyc \in Nat  OBVIOUS
  <2> HIDE DEF c
  <2>2. Len(LoopCode(c)) = 2 * c.cyc + 4  BY <2>1, LoopCodeBytes
  <2> QED  BY <2>1, <2>2
<1> QED  BY <1>3, <1>4, <1>5 DEF Rest, Cost

LEMMA TwoLoopCost ==
  ASSUME NEW c, c.lcnt0 \in Nat \ {0}, c.lcnt1 \in Nat, c.cyc \in Nat
  PROVE  Len(LoopCode(c)) = 2 * c.cyc + 8
BY LoopCodeBytes

\* The remainder of a division taken off.
LEMMA CountRemainder ==
  ASSUME NEW b \in Nat
  PROVE  b - CountModulus * (b \div CountModulus) \in 0..(CountModulus - 1)
<1> DEFINE q == b \div CountModulus
           r == b % CountModulus
<1>1. r \in 0..(CountModulus - 1) /\ b = CountModulus * q + r /\ q \in Int  BY ByteAssumption
<1> HIDE DEF q, r
<1>2. CountModulus * q \in Int /\ CountModulus \in Nat  BY <1>1, ByteAssumption
<1> DEFINE p == CountModulus * q
<1> HIDE DEF p
<1>3. b - p = r  BY <1>1, <1>2 DEF p
<1> QED  BY <1>1, <1>3 DEF p, q

LEMMA SmallChunk ==
  ASSUME NEW b \in Nat, b > CountModulus, b < Full
  PROVE  Rest(b) \in 0..(CountModulus - 1) /\ Cost(b) = 10
<1> DEFINE C == CountModulus
           q == b \div CountModulus
           c == [lcnt0 |-> q, lcnt1 |-> C, cyc |-> 1]
<1>1. C \in Nat /\ C >= 2 /\ q \in Nat /\ q >= 1
  <2>1. b >= 1 * CountModulus  BY ByteAssumption
  <2> QED  BY <2>1, QuotientRange, CountDivision, ByteAssumption
<1>2. Chunk(b) = c
  <2>1. ~(b >= Full)
    <3>1. Full \in Nat  BY <1>1 DEF Full
    <3> QED  BY <3>1
  <2> QED  BY <2>1, CycmaxBounds DEF Chunk, ChunkUncapped
<1>3. c.lcnt0 = q /\ c.lcnt1 = C /\ c.cyc = 1  OBVIOUS
<1>4. b - C * q \in 0..(C - 1)  BY CountRemainder
<1> HIDE DEF q, C, c
<1>5. Consumed(c) = C * q
  <2>1. Consumed(c) = C * 1 * q  BY <1>1, <1>3 DEF Consumed
  <2> QED  BY <1>1, <2>1
<1>6. Len(LoopCode(c)) = 10
  <2>1. c.lcnt0 \in Nat \ {0} /\ c.lcnt1 \in Nat /\ c.cyc \in Nat  BY <1>1, <1>3
  <2>2. Len(LoopCode(c)) = 2 * c.cyc + 8  BY <2>1, TwoLoopCost
  <2> QED  BY <1>3, <2>2
<1> QED  BY <1>2, <1>4, <1>5, <1>6 DEF Rest, Cost, C

\* A chunk of C times C bursts, unrolled: how many are left depends on the cap.
LEMMA LargeChunk ==
  ASSUME NEW b \in Nat, b >= Full
  PROVE  \E y \in Nat \ {0} :
           /\ Chunk(b).cyc = (IF cycmax < y THEN cycmax ELSE y)
           /\ b - Full * y \in 0..(Full - 1)
           /\ Consumed(Chunk(b)) = Full * Chunk(b).cyc
           /\ Cost(b) = 2 * Chunk(b).cyc + 8
<1> DEFINE C == CountModulus
           q == b \div CountModulus
           y == q \div CountModulus
           m == IF cycmax < y THEN cycmax ELSE y
           c == [lcnt0 |-> C, lcnt1 |-> C, cyc |-> m]
<1>1. C \in Nat /\ C >= 2 /\ Full = C * C  BY ByteAssumption DEF Full
<1>2. q \in Nat /\ q >= C
  <2>1. C \in Nat  BY <1>1
  <2> QED  BY <1>1, <2>1, QuotientRange, CountDivision
<1>3. y \in Nat /\ y >= 1
  <2>1. q >= 1 * CountModulus  BY <1>1, <1>2
  <2> QED  BY <1>2, <2>1, QuotientRange, CountDivision
<1>4. Chunk(b) = c  BY DEF Chunk, ChunkUncapped
<1>5. c.lcnt0 = C /\ c.lcnt1 = C /\ c.cyc = m  OBVIOUS
<1>6. m \in Nat \ {0}  BY <1>3, CycmaxBounds
<1>7. b - C * q \in 0..(C - 1) /\ q - C * y \in 0..(C - 1)  BY <1>2, CountRemainder
<1> HIDE DEF C, q, y, m, c
<1>8. Consumed(c) = Full * m
  <2>1. C # 0  BY <1>1
  <2>2. Consumed(c) = C * m * C  BY <1>5, <2>1 DEF Consumed
  <2> QED  BY <1>1, <1>6, <2>2
<1>9. b - Full * y \in 0..(Full - 1)
  <2> DEFINE r == b - C * q
             s == q - C * y
  <2>1. r \in 0..(C - 1) /\ s \in 0..(C - 1) /\ b = C * q + r /\ q = C * y + s
    BY <1>1, <1>2, <1>3, <1>7
  <2> HIDE DEF r, s
  <2>2. C * q = C * C * y + C * s  BY <1>1, <1>3, <2>1
  <2>3. C * s <= C * (C - 1) /\ C * s >= 0 /\ C * s \in Int  BY <1>1, <2>1
  <2>4. C * (C - 1) = Full - C /\ C * C * y = Full * y  BY <1>1, <1>3
  <2>5. Full \in Nat /\ Full * y \in Nat  BY <1>1, <1>3
  <2>6. b = Full * y + C * s + r  BY <2>1, <2>2, <2>4
  <2> DEFINE p == Full * y
             t == C * s
  <2> HIDE DEF p, t
  <2>7. p \in Nat /\ t \in Int /\ t >= 0 /\ t <= Full - C /\ b = p + t + r
    BY <2>3, <2>4, <2>5, <2>6 DEF p, t
  <2>8. b - p \in 0..(Full - 1)  BY <1>1, <2>1, <2>5, <2>7
  <2> QED  BY <2>8 DEF p
<1>10. Len(LoopCode(c)) = 2 * m + 8
  <2>1. c.lcnt0 \in Nat \ {0} /\ c.lcnt1 \in Nat /\ c.cyc \in Nat  BY <1>1, <1>5, <1>6
  <2>2. Len(LoopCode(c)) = 2 * c.cyc + 8  BY <2>1, TwoLoopCost
  <2> QED  BY <1>5, <2>2
<1> QED  BY <1>3, <1>4, <1>5, <1>8, <1>9, <1>10 DEF Cost, m

\* Bytes that are enough for b bursts still to be programmed and the tail.
Span == Full * cycmax
Widest == 8 + 2 * cycmax
Left(b) ==
  IF b = 0 THEN 3
  ELSE IF b <= CountModulus THEN 9
  ELSE IF b < Full THEN 19
  ELSE IF b < Span THEN 17 + Widest
  ELSE (b \div Span) * Widest + 17 + Widest

LEMMA Sides ==
  /\ CountModulus \in Nat /\ CountModulus >= 2
  /\ Full \in Nat \ {0} /\ CountModulus < Full
  /\ Span \in Nat \ {0} /\ Full <= Span
  /\ Widest \in Nat /\ Widest >= 10
<1>1. CountModulus \in Nat /\ CountModulus >= 2 /\ cycmax \in Nat \ {0}
  BY ByteAssumption, CycmaxBounds
<1>2. Full \in Nat \ {0} /\ CountModulus < Full
  <2>1. CountModulus * CountModulus \in Nat  BY <1>1
  <2>2. (CountModulus - 2) * CountModulus >= 0  BY <1>1
  <2>3. (CountModulus - 2) * CountModulus = CountModulus * CountModulus - 2 * CountModulus  BY <1>1
  <2> QED  BY <1>1, <2>1, <2>2, <2>3 DEF Full
<1>3. Span \in Nat \ {0} /\ Full <= Span
  <2>1. Full * cycmax \in Nat /\ (cycmax - 1) * Full >= 0  BY <1>1, <1>2
  <2>2. (cycmax - 1) * Full = Full * cycmax - Full  BY <1>1, <1>2
  <2> QED  BY <1>2, <2>1, <2>2 DEF Span
<1> QED  BY <1>1, <1>2, <1>3 DEF Widest

\* The whole spans in a number.
LEMMA SpanDivision ==
  ASSUME NEW b \in Nat
  PROVE  /\ b \div Span \in Nat
         /\ b >= Span => b \div Span >= 1 /\ (b - Span) \div Span = (b \div Span) - 1
         /\ b < Span => b \div Span = 0
<1> DEFINE q == b \div Span
           r == b % Span
<1>1. Span \in Nat \ {0}  BY Sides
<1>2. r \in 0..(Span - 1) /\ b = Span * q + r /\ q \in Int  BY <1>1
<1> HIDE DEF q, r
<1>3. ASSUME q <= -1 PROVE FALSE
  <2>1. Span * q <= -Span  BY <1>1, <1>2, <1>3
  <2> QED  BY <1>1, <1>2, <2>1
<1>4. ASSUME b < Span PROVE q = 0
  <2> SUFFICES ASSUME q >= 1 PROVE FALSE  BY <1>2, <1>3
  <2>1. Span * q >= Span  BY <1>1, <1>2
  <2> QED  BY <1>1, <1>2, <1>4, <2>1
<1>5. ASSUME b >= Span PROVE q >= 1 /\ (b - Span) \div Span = q - 1
  <2>1. q # 0  BY <1>1, <1>2, <1>5
  <2>2. q - 1 \in Nat  BY <1>2, <1>3, <2>1
  <2> DEFINE p == (b - Span) \div Span
             s == (b - Span) % Span
  <2>3. b - Span \in Nat  BY <1>1, <1>5
  <2>4. s \in 0..(Span - 1) /\ b - Span = Span * p + s /\ p \in Int  BY <1>1, <2>3
  <2> HIDE DEF p, s
  <2>5. Span * q - Span * p = Span + s - r  BY <1>1, <1>2, <2>4
  <2>6. ASSUME p >= q PROVE FALSE
    <3>1. Span * p >= Span * q  BY <1>1, <1>2, <2>4, <2>6
    <3> QED  BY <1>1, <1>2, <2>4, <2>5, <3>1
  <2>7. ASSUME p <= q - 2 PROVE FALSE
    <3>1. Span * p <= Span * (q - 2)  BY <1>1, <1>2, <2>4, <2>7
    <3>2. Span * (q - 2) = Span * q - 2 * Span  BY <1>1, <1>2
    <3> QED  BY <1>1, <1>2, <2>4, <2>5, <3>1, <3>2
  <2>8. p = q - 1  BY <1>2, <2>4, <2>6, <2>7
  <2> QED  BY <1>2, <2>2, <2>8 DEF p
<1> QED  BY <1>2, <1>3, <1>4, <1>5 DEF q

\* A chunk takes no more bytes than the bursts it takes are given.
LEMMA ChunkFits ==
  ASSUME NEW b \in Nat \ {0}
  PROVE  Rest(b) \in Nat /\ Cost(b) \in Nat /\ Cost(b) + Left(Rest(b)) <= Left(b)
<1> USE Sides
<1>1. CASE b <= CountModulus
  <2>1. Rest(b) = 0 /\ Cost(b) = 6  BY <1>1, LastChunk
  <2>2. Left(0) = 3 /\ Left(b) = 9  BY <1>1 DEF Left
  <2> QED  BY <2>1, <2>2
<1>2. CASE b > CountModulus /\ b < Full
  <2>1. Rest(b) \in 0..(CountModulus - 1) /\ Cost(b) = 10  BY <1>2, SmallChunk
  <2>2. Left(Rest(b)) <= 9  BY <2>1 DEF Left
  <2>3. Left(b) = 19  BY <1>2 DEF Left
  <2>4. Left(Rest(b)) \in Int  BY <2>1 DEF Left
  <2> QED  BY <2>1, <2>2, <2>3, <2>4
<1>3. CASE b >= Full
  <2>1. PICK y \in Nat \ {0} : /\ Chunk(b).cyc = (IF cycmax < y THEN cycmax ELSE y)
                               /\ b - Full * y \in 0..(Full - 1)
                               /\ Consumed(Chunk(b)) = Full * Chunk(b).cyc
                               /\ Cost(b) = 2 * Chunk(b).cyc + 8
    BY <1>3, LargeChunk
  <2>2. cycmax \in Nat \ {0}  BY CycmaxBounds
  <2> DEFINE p == Full * y
             d == (y - cycmax) * Full
  <2>3. p \in Nat /\ d \in Int /\ d = p - Span  BY <2>2 DEF Span
  <2>4. CASE y < cycmax
    <3>1. (cycmax - y) * Full >= Full /\ (cycmax - y) * Full = Span - p
      BY <2>2, <2>4 DEF Span
    <3> HIDE DEF p, d
    <3>2. Chunk(b).cyc = y  BY <2>1, <2>2, <2>4
    <3>3. Rest(b) = b - p  BY <2>1, <3>2 DEF Rest, p
    <3>4. b - p \in 0..(Full - 1)  BY <2>1 DEF p
    <3>5. b < Span
      <4>1. (cycmax - y) * Full \in Int  BY <2>2
      <4> QED  BY <2>3, <3>1, <3>4, <4>1
    <3>6. Left(b) = 17 + Widest  BY <1>3, <3>5 DEF Left
    <3>7. Left(Rest(b)) <= 19 /\ Left(Rest(b)) \in Nat  BY <3>3, <3>4 DEF Left
    <3>8. Cost(b) = 2 * y + 8 /\ Widest = 8 + 2 * cycmax  BY <2>1, <3>2 DEF Widest
    <3> QED  BY <2>2, <2>4, <3>3, <3>4, <3>6, <3>7, <3>8
  <2>5. CASE y >= cycmax
    <3>1. d >= 0  BY <2>2, <2>5
    <3> HIDE DEF p, d
    <3>2. Chunk(b).cyc = cycmax  BY <2>1, <2>2, <2>5
    <3>3. Rest(b) = b - Span /\ Cost(b) = Widest
      BY <2>1, <2>2, <3>2 DEF Rest, Span, Widest
    <3>4. b - p \in 0..(Full - 1)  BY <2>1 DEF p
    <3>5. b >= Span  BY <2>3, <3>1, <3>4
    <3>6. b \div Span \in Nat /\ b \div Span >= 1 /\ (b - Span) \div Span = (b \div Span) - 1
      BY <3>5, SpanDivision
    <3> DEFINE q == b \div Span
               w == q * Widest
               v == ((b - Span) \div Span) * Widest
    <3>7. w \in Nat /\ v \in Nat /\ v = w - Widest
      <4>1. v = (q - 1) * Widest  BY <3>6
      <4> HIDE DEF q
      <4> QED  BY <3>6, <4>1 DEF q
    <3>8. Left(b) = w + 17 + Widest  BY <1>3, <3>5 DEF Left
    <3>9. b - Span \in Nat  BY <3>5
    <3> HIDE DEF w, v
    <3>10. Left(b - Span) \in Nat /\ Left(b - Span) <= v + 17 + Widest
      BY <3>7, <3>9 DEF Left, v
    <3> QED  BY <3>3, <3>7, <3>8, <3>9, <3>10
  <2> QED  BY <2>2, <2>4, <2>5
<1> QED  BY <1>1, <1>2, <1>3

\* The room the assumption gives is enough from the first burst on.
LEMMA LeftFitsRoom ==
  ASSUME NEW n \in Nat
  PROVE  Left(n) \in Nat /\ 18 + Left(n) <= Room(n)
<1> DEFINE w == (n \div Span) * Widest
<1>1. n \div Span \in Nat  BY SpanDivision
<1>2. w \in Nat
  <2> DEFINE q == n \div Span
  <2>1. q \in Nat  BY <1>1
  <2> HIDE DEF q
  <2>2. q * Widest \in Nat  BY <2>1, Sides
  <2> QED  BY <2>2 DEF q
<1>3. Room(n) = 18 + w + 17 + Widest
  <2>1. Room(n) = 18 + (n \div Span) * (8 + 2 * cycmax) + (8 + 2 * (cycmax - 1)) + 10 + 6 + 3
    BY DEF Room, Span
  <2> DEFINE x == (n \div Span) * (8 + 2 * cycmax)
  <2>2. x = w  BY DEF Widest
  <2> HIDE DEF w, x
  <2>3. Room(n) = 18 + x + (8 + 2 * (cycmax - 1)) + 10 + 6 + 3  BY <2>1 DEF x
  <2>4. cycmax \in Nat /\ Widest = 8 + 2 * cycmax  BY CycmaxBounds DEF Widest
  <2> QED  BY <1>2, <2>2, <2>3, <2>4
<1>4. Left(n) = 3 \/ Left(n) = 9 \/ Left(n) = 19 \/ Left(n) = 17 + Widest \/ Left(n) = w + 17 + Widest
  BY DEF Left
<1> HIDE DEF w
<1> QED  BY <1>2, <1>3, <1>4, Sides

-----------------------------------------------------------------------------

\* As far as the program is written, what is left of the size fits behind it.
FitsInv ==
  /\ size \in Sizes /\ bursts \in Nat /\ off \in Nat /\ off <= BufBytes
  /\ pc = "head" => off = 0
  /\ pc = "loops" => off + Left(bursts) <= BufBytes - StackUse

\* The bytes before the first chunk and after the last one.
LEMMA HeadBytes ==
  ASSUME NEW p
  PROVE  /\ IsSeq(Head3(p)) /\ Len(Head3(p)) = 18
         /\ Head3(p)[1] = Instr("MOV", "CCR", 0)
         /\ Head3(p)[7] = Instr("MOV", "SAR", <<p, 0>>)
         /\ Head3(p)[13] = Instr("MOV", "DAR", 0)
<1> DEFINE x == Instr("MOV", "CCR", 0)
           y == Instr("MOV", "SAR", <<p, 0>>)
           z == Instr("MOV", "DAR", 0)
<1>1. x.op = "MOV" /\ y.op = "MOV" /\ z.op = "MOV" /\ Length.MOV = 6  BY DEF Instr, Length
<1>2. Head3(p) = Emit(x) \o Emit(y) \o Emit(z)  BY DEF Head3
<1> HIDE DEF x, y, z
<1>3. ASSUME NEW i, i.op = "MOV" PROVE IsSeq(Emit(i)) /\ Len(Emit(i)) = 6 /\ Emit(i)[1] = i
  <2>1. Length[i.op] = 6 /\ Length[i.op] \in Nat \ {0}  BY <1>1, <1>3
  <2> QED  BY <2>1, EmitBytes
<1>4. /\ IsSeq(Emit(x)) /\ Len(Emit(x)) = 6 /\ Emit(x)[1] = x
      /\ IsSeq(Emit(y)) /\ Len(Emit(y)) = 6 /\ Emit(y)[1] = y
      /\ IsSeq(Emit(z)) /\ Len(Emit(z)) = 6 /\ Emit(z)[1] = z
  BY <1>1, <1>3
<1> DEFINE u == Emit(x)
           v == Emit(y)
           w == Emit(z)
<1>5. /\ IsSeq(u) /\ Len(u) = 6 /\ u[1] = x /\ IsSeq(v) /\ Len(v) = 6 /\ v[1] = y
      /\ IsSeq(w) /\ Len(w) = 6 /\ w[1] = z
  BY <1>4
<1>6. Head3(p) = u \o v \o w  BY <1>2
<1> HIDE DEF u, v, w
<1>7. /\ IsSeq(u \o v) /\ Len(u \o v) = Len(u) + Len(v)
      /\ \A k \in 1..Len(u) : (u \o v)[k] = u[k]
      /\ \A k \in 1..Len(v) : (u \o v)[k + Len(u)] = v[k]
  <2>1. IsSeq(u) /\ IsSeq(v)  BY <1>5
  <2> QED  BY ONLY <2>1, Concatenation
<1>8. /\ IsSeq(u \o v \o w) /\ Len(u \o v \o w) = Len(u \o v) + Len(w)
      /\ \A k \in 1..Len(u \o v) : (u \o v \o w)[k] = (u \o v)[k]
      /\ \A k \in 1..Len(w) : (u \o v \o w)[k + Len(u \o v)] = w[k]
  <2>1. IsSeq(u \o v) /\ IsSeq(w)  BY <1>5, <1>7
  <2> QED  BY ONLY <2>1, Concatenation
<1>9. Len(u \o v) = 12  BY <1>5, <1>7
<1>10. (u \o v)[1] = x /\ (u \o v)[7] = y
  <2>1. 1 \in 1..6 /\ 1 + 6 = 7  OBVIOUS
  <2>2. (u \o v)[1 + 6] = v[1]  BY <1>5, <1>7, <2>1
  <2> QED  BY <1>5, <1>7, <2>1, <2>2
<1>11. (u \o v \o w)[1] = x /\ (u \o v \o w)[7] = y /\ (u \o v \o w)[13] = z
  <2>1. 1 \in 1..12 /\ 7 \in 1..12 /\ 1 \in 1..6 /\ 1 + 12 = 13  OBVIOUS
  <2>2. (u \o v \o w)[1 + 12] = w[1]  BY <1>5, <1>8, <1>9, <2>1
  <2> QED  BY <1>5, <1>8, <1>9, <1>10, <2>1, <2>2
<1>12. Len(u \o v \o w) = 18  BY <1>5, <1>8, <1>9
<1> QED  BY <1>6, <1>8, <1>11, <1>12 DEF x, y, z

LEMMA TailBytes ==
  /\ IsSeq(Tail2) /\ Len(Tail2) = 3
  /\ Tail2[1] = Instr("SEV", 0, 0) /\ Tail2[3] = Instr("END", 0, 0)
<1> DEFINE x == Instr("SEV", 0, 0)
           y == Instr("END", 0, 0)
<1>1. x.op = "SEV" /\ y.op = "END" /\ Length.SEV = 2 /\ Length.END = 1  BY DEF Instr, Length
<1>2. Tail2 = Emit(x) \o Emit(y)  BY DEF Tail2
<1> HIDE DEF x, y
<1>3. Length[x.op] = 2 /\ Length[y.op] = 1  BY <1>1
<1>4. IsSeq(Emit(x)) /\ Len(Emit(x)) = 2 /\ Emit(x)[1] = x
      /\ IsSeq(Emit(y)) /\ Len(Emit(y)) = 1 /\ Emit(y)[1] = y
  <2>1. Length[x.op] \in Nat \ {0} /\ Length[y.op] \in Nat \ {0}  BY <1>3
  <2>2. /\ IsSeq(Emit(x)) /\ Len(Emit(x)) = Length[x.op] /\ Emit(x)[1] = x
        /\ IsSeq(Emit(y)) /\ Len(Emit(y)) = Length[y.op] /\ Emit(y)[1] = y
    BY <2>1, EmitBytes, Zenon
  <2> QED  BY <1>3, <2>2
<1>5. /\ IsSeq(Emit(x) \o Emit(y)) /\ Len(Emit(x) \o Emit(y)) = Len(Emit(x)) + Len(Emit(y))
      /\ \A k \in 1..Len(Emit(x)) : (Emit(x) \o Emit(y))[k] = Emit(x)[k]
      /\ \A k \in 1..Len(Emit(y)) : (Emit(x) \o Emit(y))[k + Len(Emit(x))] = Emit(y)[k]
  <2>1. IsSeq(Emit(x)) /\ IsSeq(Emit(y))  BY <1>4
  <2> QED  BY ONLY <2>1, Concatenation
<1>6. 1 \in 1..2 /\ 1 \in 1..1 /\ 1 + 2 = 3  OBVIOUS
<1>7. (Emit(x) \o Emit(y))[1 + 2] = Emit(y)[1] /\ (Emit(x) \o Emit(y))[1] = Emit(x)[1]
  BY <1>4, <1>5, <1>6
<1>8. IsSeq(Tail2) /\ Len(Tail2) = 3
  <2>1. Len(Emit(x) \o Emit(y)) = 3  BY <1>4, <1>5
  <2> QED  BY <1>2, <1>5, <2>1, Zenon
<1> QED  BY <1>2, <1>4, <1>6, <1>7, <1>8 DEF x, y

LEMMA FitsInit == Init => FitsInv
BY BufAssumption DEF Init, FitsInv

LEMMA FitsNext == FitsInv /\ [Next]_vars => FitsInv'
<1> SUFFICES ASSUME FitsInv, [Next]_vars PROVE FitsInv'  OBVIOUS
<1> USE DEF FitsInv
<1>0. BufBytes \in Nat /\ StackUse \in Nat /\ StackUse <= BufBytes  BY BufAssumption
<1>1. CASE Call  BY <1>0, <1>1 DEF Call
<1>2. CASE EmitHead
  <2>1. off' = 18 /\ size' = size /\ bursts' = size /\ pc' = "loops"
    <3>1. Len(Head3(pic)) = 18  BY HeadBytes
    <3>2. off' = off + Len(Head3(pic)) /\ off = 0  BY <1>2 DEF EmitHead, Put
    <3> QED  BY <1>2, <3>1, <3>2 DEF EmitHead
  <2>2. size \in Nat  BY BufAssumption
  <2>3. Left(size) \in Nat /\ 18 + Left(size) <= Room(size)  BY <2>2, LeftFitsRoom
  <2>4. Room(size) <= BufBytes - StackUse  BY RoomAssumption
  <2>5. Room(size) \in Int
    <3>1. size \div Span \in Nat  BY <2>2, SpanDivision
    <3>2. cycmax \in Nat  BY CycmaxBounds
    <3>3. \A q, w \in Nat : q * w \in Nat  OBVIOUS
    <3>4. (size \div (Full * cycmax)) * (8 + 2 * cycmax) \in Nat
      BY <3>1, <3>2, <3>3 DEF Span
    <3> QED  BY <3>2, <3>4 DEF Room
  <2> QED  BY <1>0, <2>1, <2>2, <2>3, <2>4, <2>5
<1>3. CASE EmitLoop
  <2>1. bursts \in Nat \ {0} /\ off + Left(bursts) <= BufBytes - StackUse  BY <1>3 DEF EmitLoop
  <2>2. off' = off + Cost(bursts) /\ bursts' = Rest(bursts) /\ UNCHANGED <<pc, size>>
    BY <1>3 DEF EmitLoop, Put, Cost, Rest
  <2>3. /\ Rest(bursts) \in Nat /\ Cost(bursts) \in Nat
        /\ Cost(bursts) + Left(Rest(bursts)) <= Left(bursts)
    BY <2>1, ChunkFits
  <2>4. Left(bursts) \in Nat /\ Left(Rest(bursts)) \in Nat  BY <2>3, LeftFitsRoom
  <2> QED  BY <1>0, <1>3, <2>1, <2>2, <2>3, <2>4 DEF EmitLoop
<1>4. CASE EmitTail
  <2>1. off' = off + 3 /\ UNCHANGED <<size, bursts>> /\ pc' = "go" /\ pc = "loops" /\ bursts = 0
    BY <1>4, TailBytes DEF EmitTail, Put
  <2>2. Left(0) = 3  BY DEF Left
  <2> QED  BY <1>0, <2>1, <2>2
<1>5. CASE Go  BY <1>5 DEF Go
<1>6. CASE OtherCalls  BY <1>6 DEF OtherCalls
<1>7. CASE Engine
  BY <1>7 DEF Engine, Mov, LoopStart, LoopEnd, Load, Store, SendEvent, End, cpuVars
<1>8. CASE UNCHANGED vars  BY <1>8 DEF vars, cpuVars
<1> QED  BY <1>1, <1>2, <1>3, <1>4, <1>5, <1>6, <1>7, <1>8 DEF Next, Cpu

\* The program of every size that the room is enough for stays inside buf
\* (dma.c:607, 635-639).
THEOREM EveryProgramFits == Spec => []ProgramFits
<1>1. FitsInv => ProgramFits  BY DEF FitsInv, ProgramFits
<1> QED  BY <1>1, FitsInit, FitsNext, PTL DEF Spec

-----------------------------------------------------------------------------
(* The program that lies in buf and where the channel is in it.            *)

\* A place <<o, b>>: at byte o begins what was written when b bursts were left.
\* L holds the places of the program, in the first call those written so far.
Places == SUBSET (Nat \X Nat)
\* The place behind a chunk.
Next2(p) == <<p[1] + Cost(p[2]), Rest(p[2])>>

\* The bytes of buf at the place are what was written there.
Written(p) ==
  IF p[2] = 0
  THEN \A k \in 1..3 : code[p[1] + k - 1] = Tail2[k]
  ELSE \A k \in 1..Cost(p[2]) : code[p[1] + k - 1] = LoopCode(Chunk(p[2]))[k]
HeadWritten == \E p \in Pictures : \A k \in 1..18 : code[k - 1] = Head3(p)[k]

\* From DMAGO on, or its preparation, the program is complete.
Complete == calls > 0 \/ pc = "go"

\* The program, whole or as far as the first call has come: every place is written
\* and leads to the next one, up to the tail or to where the next bytes go.
Program(L) ==
  /\ \A p \in L : p[1] >= 18 /\ p[1] + Left(p[2]) <= BufBytes - StackUse
  /\ pc = "loops" => <<off, bursts>> \in L
  /\ (Complete \/ pc = "loops") => <<18, size>> \in L /\ HeadWritten
  /\ \A p \in L :
       \/ Written(p) /\ (p[2] # 0 => Next2(p) \in L)
       \/ ~Complete /\ pc = "loops" /\ p = <<off, bursts>>
  /\ ~Complete /\ pc = "loops" =>
       \A p \in L : p = <<off, bursts>> \/ (p[1] + Cost(p[2]) <= off /\ p[2] # 0)

\* The channel inside the chunk at place p: nothing or one byte in the fifo, and the
\* bytes that are not stored yet are those the counters and the places behind stand for.
Togo == size - stored
Quiet == fifo = <<>> /\ dar = stored /\ sar[2] = stored
Loaded1 == fifo = <<<<sar[1], stored>>>> /\ dar = stored /\ sar[2] = stored + 1
Round(c) == c.lcnt1 * c.cyc
OuterLeft(c) == IF c.lcnt0 = 0 THEN 0 ELSE lc[1]
InnerAt(p) == IF Chunk(p[2]).lcnt0 = 0 THEN p[1] ELSE p[1] + 2

\* At the start of a chunk or of the tail, at the inner LP, before a load or the inner
\* LPEND, before a store, at the outer LPEND, at DMAEND.
AtPlace(p) == mpc = p[1] /\ Quiet /\ Togo = p[2]
AtInner(p) ==
  LET c == Chunk(p[2]) IN
  /\ p[2] # 0 /\ c.lcnt0 # 0 /\ mpc = p[1] + 2 /\ Quiet
  /\ Togo = Rest(p[2]) + lc[1] * Round(c) + Round(c)
AtLoad(p) ==
  LET c == Chunk(p[2]) IN
  /\ p[2] # 0 /\ Quiet
  /\ \E h \in 0..c.cyc :
       /\ mpc = InnerAt(p) + 2 + 2 * h
       /\ Togo = Rest(p[2]) + OuterLeft(c) * Round(c) + lc[2] * c.cyc + (c.cyc - h)
AtStore(p) ==
  LET c == Chunk(p[2]) IN
  /\ p[2] # 0 /\ Loaded1
  /\ \E h \in 0..(c.cyc - 1) :
       /\ mpc = InnerAt(p) + 2 + 2 * h + 1
       /\ Togo = Rest(p[2]) + OuterLeft(c) * Round(c) + lc[2] * c.cyc + (c.cyc - h)
AtOuterEnd(p) ==
  LET c == Chunk(p[2]) IN
  /\ p[2] # 0 /\ c.lcnt0 # 0 /\ mpc = p[1] + 2 * c.cyc + 6 /\ Quiet
  /\ Togo = Rest(p[2]) + lc[1] * Round(c)
AtEnd(p) == p[2] = 0 /\ mpc = p[1] + 2 /\ Quiet /\ Togo = 0

InChunk(p) ==
  AtPlace(p) \/ AtInner(p) \/ AtLoad(p) \/ AtStore(p) \/ AtOuterEnd(p) \/ AtEnd(p)

\* At one of the three DMAMOV.
InHead ==
  /\ stored = 0 /\ fifo = <<>>
  /\ mpc \in {0, 6} \/ (mpc = 12 /\ sar[2] = 0)

Channel(L) ==
  IF st = "stopped" THEN job = {}
  ELSE /\ job = {size} /\ Complete
       /\ InHead \/ \E p \in L : InChunk(p)
       /\ stored > 0 => fb[0] = <<sar[1], 0>>

EngineTypes ==
  /\ pc \in {"idle", "head", "loops", "go"} /\ pic \in Pictures
  /\ bursts <= size /\ calls \in 0..MaxCalls
  /\ pc \in {"head", "loops", "go"} => calls < MaxCalls
  /\ DOMAIN code = 0..(BufBytes - 1)
  /\ st \in {"stopped", "executing"}
  /\ mpc \in Nat /\ lc \in [1..2 -> 0..(CountModulus - 1)] /\ dar \in Nat
  /\ sar \in Pictures \X Nat /\ stored \in Nat
  /\ DOMAIN fb = 0..(FbBytes - 1)
  /\ fifo = <<>> \/ Len(fifo) = 1

CopyInv ==
  /\ FitsInv /\ EngineTypes
  /\ \E L \in Places : Program(L) /\ Channel(L)

-----------------------------------------------------------------------------
(* What the bytes of a program are.                                        *)

\* What a chunk is, as numbers.
LEMMA ChunkFacts ==
  ASSUME NEW b \in Nat \ {0}
  PROVE  LET c == Chunk(b) IN
         /\ c.lcnt0 \in 0..CountModulus /\ c.lcnt1 \in 1..CountModulus /\ c.cyc \in Nat \ {0}
         /\ Rest(b) \in Nat /\ Rest(b) < b
         /\ b = Rest(b) + Round(c) * (IF c.lcnt0 = 0 THEN 1 ELSE c.lcnt0)
         /\ Cost(b) = 2 * c.cyc + (IF c.lcnt0 = 0 THEN 4 ELSE 8)
         /\ Cost(b) <= Left(b) /\ Cost(b) + Left(Rest(b)) <= Left(b)
         /\ 2 * c.cyc + 4 < JumpModulus
<1> DEFINE c == Chunk(b)
<1>1. /\ c.lcnt0 \in 0..CountModulus /\ c.lcnt1 \in 1..CountModulus
      /\ c.cyc \in 1..cycmax /\ Consumed(c) \in 1..b
  BY ChunkBounds
<1>2. CountModulus \in Nat /\ JumpModulus \in Nat /\ cycmax \in Nat /\ 2 * cycmax + 9 <= JumpModulus
  BY ByteAssumption, CycmaxBounds
<1>3. c.lcnt0 \in Nat /\ c.lcnt1 \in Nat /\ c.cyc \in Nat /\ c.cyc # 0 /\ 2 * c.cyc + 4 < JumpModulus
  BY <1>1, <1>2
<1>4. Cost(b) = Len(LoopCode(c)) /\ Rest(b) = b - Consumed(c)  BY DEF Cost, Rest
<1> HIDE DEF c
<1>5. Len(LoopCode(c)) = 2 * c.cyc + (IF c.lcnt0 = 0 THEN 4 ELSE 8)
  BY <1>3, LoopCodeBytes
<1>6. Consumed(c) = Round(c) * (IF c.lcnt0 = 0 THEN 1 ELSE c.lcnt0)
  BY <1>3 DEF Consumed, Round
<1>7. Rest(b) \in Nat /\ Cost(b) \in Nat /\ Cost(b) + Left(Rest(b)) <= Left(b)  BY ChunkFits
<1>8. Left(b) \in Nat /\ Left(Rest(b)) \in Nat  BY <1>7, LeftFitsRoom
<1>9. b = Rest(b) + Consumed(c) /\ Rest(b) < b  BY <1>1, <1>4
<1> QED  BY <1>1, <1>3, <1>4, <1>5, <1>6, <1>7, <1>8, <1>9 DEF c

\* The instructions of a chunk, at their places in it.
LEMMA ChunkCode ==
  ASSUME NEW b \in Nat \ {0}
  PROVE  LET c == Chunk(b)
             o == IF c.lcnt0 = 0 THEN 0 ELSE 2 IN
         /\ c.lcnt0 # 0 => /\ LoopCode(c)[1] = Instr("LP", 0, c.lcnt0 - 1)
                           /\ LoopCode(c)[2 * c.cyc + 7] = Instr("LPEND", 0, 2 * c.cyc + 4)
         /\ LoopCode(c)[o + 1] = Instr("LP", 1, c.lcnt1 - 1)
         /\ \A h \in 0..(c.cyc - 1) : /\ LoopCode(c)[o + 2 * h + 3] = Instr("LD", 0, 0)
                                      /\ LoopCode(c)[o + 2 * h + 4] = Instr("ST", 0, 0)
         /\ LoopCode(c)[o + 2 * c.cyc + 3] = Instr("LPEND", 1, 2 * c.cyc)
<1> DEFINE c == Chunk(b)
           o == IF c.lcnt0 = 0 THEN 0 ELSE 2
<1>1. /\ c.lcnt0 \in 0..CountModulus /\ c.lcnt1 \in 1..CountModulus /\ c.cyc \in Nat \ {0}
      /\ 2 * c.cyc + 4 < JumpModulus
  BY ChunkFacts
<1>2. CountModulus \in Nat /\ CountModulus >= 2 /\ JumpModulus \in Nat  BY ByteAssumption
<1> HIDE DEF c
<1>3. \A n \in 1..CountModulus : (n - 1) % CountModulus = n - 1  BY <1>2
<1>4. (2 * c.cyc) % JumpModulus = 2 * c.cyc /\ (2 * c.cyc + 4) % JumpModulus = 2 * c.cyc + 4
  <2>1. \A n \in Nat : n < JumpModulus => n % JumpModulus = n  BY <1>2
  <2>2. 2 * c.cyc \in Nat /\ 2 * c.cyc + 4 \in Nat /\ 2 * c.cyc < JumpModulus  BY <1>1, <1>2
  <2> QED  BY <1>1, <2>1, <2>2
<1>5. c.lcnt0 \in Nat /\ c.lcnt1 \in Nat /\ c.cyc \in Nat  BY <1>1, <1>2
<1>6. /\ Inner(c)[1] = Instr("LP", 1, c.lcnt1 - 1)
      /\ \A k \in 1..(2 * c.cyc) : Inner(c)[k + 2] = Instr(IF k % 2 = 1 THEN "LD" ELSE "ST", 0, 0)
      /\ Inner(c)[2 * c.cyc + 3] = Instr("LPEND", 1, 2 * c.cyc)
  <2>1. (c.lcnt1 - 1) % CountModulus = c.lcnt1 - 1  BY <1>1, <1>3
  <2> QED  BY <1>4, <1>5, <2>1, InnerBytes
<1>7. /\ c.lcnt0 = 0 => LoopCode(c) = Inner(c)
      /\ c.lcnt0 # 0 => /\ LoopCode(c)[1] = Instr("LP", 0, (c.lcnt0 - 1) % CountModulus)
                        /\ \A k \in 1..(2 * c.cyc + 4) : LoopCode(c)[k + 2] = Inner(c)[k]
                        /\ LoopCode(c)[2 * c.cyc + 7] = Instr("LPEND", 0, (2 * c.cyc + 4) % JumpModulus)
  BY <1>5, LoopCodeBytes
<1>8. ASSUME NEW k \in 1..(2 * c.cyc + 4) PROVE LoopCode(c)[o + k] = Inner(c)[k]
  <2>1. CASE c.lcnt0 = 0
    <3>1. o + k = k  BY <2>1
    <3> QED  BY <1>7, <2>1, <3>1
  <2>2. CASE c.lcnt0 # 0
    <3>1. o + k = k + 2  BY <2>2
    <3> QED  BY <1>7, <2>2, <3>1
  <2> QED  BY <2>1, <2>2
<1>9. c.lcnt0 # 0 => (c.lcnt0 - 1) % CountModulus = c.lcnt0 - 1  BY <1>1, <1>2, <1>3
<1>10. LoopCode(c)[o + 1] = Instr("LP", 1, c.lcnt1 - 1)
  <2>1. 1 \in 1..(2 * c.cyc + 4)  BY <1>1
  <2> QED  BY <1>6, <1>8, <2>1
<1>11. LoopCode(c)[o + 2 * c.cyc + 3] = Instr("LPEND", 1, 2 * c.cyc)
  <2>1. 2 * c.cyc + 3 \in 1..(2 * c.cyc + 4)  BY <1>1
  <2>2. LoopCode(c)[o + (2 * c.cyc + 3)] = Inner(c)[2 * c.cyc + 3]  BY <1>8, <2>1
  <2>3. o + (2 * c.cyc + 3) = o + 2 * c.cyc + 3  BY <1>1
  <2> QED  BY <1>6, <2>2, <2>3
<1>12. ASSUME NEW h \in 0..(c.cyc - 1)
       PROVE  /\ LoopCode(c)[o + 2 * h + 3] = Instr("LD", 0, 0)
              /\ LoopCode(c)[o + 2 * h + 4] = Instr("ST", 0, 0)
  <2>1. /\ 2 * h + 1 \in 1..(2 * c.cyc) /\ 2 * h + 2 \in 1..(2 * c.cyc)
        /\ (2 * h + 1) % 2 = 1 /\ (2 * h + 2) % 2 = 0
    BY <1>1
  <2>2. 2 * h + 1 + 2 = 2 * h + 3 /\ 2 * h + 2 + 2 = 2 * h + 4  OBVIOUS
  <2>3. Inner(c)[2 * h + 1 + 2] = Instr("LD", 0, 0)  BY <1>6, <2>1
  <2>4. Inner(c)[2 * h + 2 + 2] = Instr("ST", 0, 0)
    <3>1. Inner(c)[2 * h + 2 + 2] = Instr(IF (2 * h + 2) % 2 = 1 THEN "LD" ELSE "ST", 0, 0)
      BY <1>6, <2>1
    <3> QED  BY <2>1, <3>1
  <2>5. 2 * h + 3 \in 1..(2 * c.cyc + 4) /\ 2 * h + 4 \in 1..(2 * c.cyc + 4)  BY <1>1
  <2>6. LoopCode(c)[o + (2 * h + 3)] = Inner(c)[2 * h + 3]  BY <1>8, <2>5
  <2>7. LoopCode(c)[o + (2 * h + 4)] = Inner(c)[2 * h + 4]  BY <1>8, <2>5
  <2>8. o + (2 * h + 3) = o + 2 * h + 3 /\ o + (2 * h + 4) = o + 2 * h + 4  OBVIOUS
  <2> QED  BY <2>2, <2>3, <2>4, <2>6, <2>7, <2>8
<1> QED  BY <1>4, <1>7, <1>9, <1>10, <1>11, <1>12 DEF c

-----------------------------------------------------------------------------
(* The processor's steps.                                                  *)

\* The channel does not see a step that only writes what is there already.
LEMMA ChannelStays ==
  ASSUME NEW L, NEW M, L \subseteq M, Complete => Complete',
         UNCHANGED <<size, engineVars, history>>, Channel(L)
  PROVE  Channel(M)'
<1>1. ASSUME NEW p \in L, InChunk(p) PROVE p \in M /\ InChunk(p)'
  BY <1>1 DEF engineVars, history, InChunk, AtPlace, AtInner, AtLoad, AtStore, AtOuterEnd,
     AtEnd, Quiet, Loaded1, Togo, OuterLeft
<1>2. InHead => InHead'  BY DEF engineVars, history, InHead
<1>3. st' = st /\ job' = job /\ size' = size /\ stored' = stored /\ fb' = fb /\ sar' = sar
  BY DEF engineVars, history
<1> QED  BY <1>1, <1>2, <1>3 DEF Channel

\* Bytes of the program that a step does not change stay written.
LEMMA WrittenStays ==
  ASSUME NEW p \in Nat \X Nat, Written(p),
         \A k \in Nat : p[1] <= k /\ k < p[1] + (IF p[2] = 0 THEN 3 ELSE Cost(p[2])) => code'[k] = code[k]
  PROVE  Written(p)'
<1>1. CASE p[2] = 0
  <2>1. ASSUME NEW k \in 1..3 PROVE code'[p[1] + k - 1] = code[p[1] + k - 1]
    <3>1. p[1] + k - 1 \in Nat /\ p[1] <= p[1] + k - 1 /\ p[1] + k - 1 < p[1] + 3  OBVIOUS
    <3> QED  BY <1>1, <3>1
  <2> QED  BY <1>1, <2>1 DEF Written
<1>2. CASE p[2] # 0
  <2>1. Cost(p[2]) \in Nat  BY <1>2, ChunkFits
  <2>2. ASSUME NEW k \in 1..Cost(p[2]) PROVE code'[p[1] + k - 1] = code[p[1] + k - 1]
    <3>1. p[1] + k - 1 \in Nat /\ p[1] <= p[1] + k - 1 /\ p[1] + k - 1 < p[1] + Cost(p[2])
      BY <2>1
    <3> QED  BY <1>2, <3>1
  <2> QED  BY <1>2, <2>2 DEF Written
<1> QED  BY <1>1, <1>2

\* What is put is then written there, and nothing else changes.
LEMMA PutBytes ==
  ASSUME NEW s, IsSeq(s), Put(s), off \in Nat, DOMAIN code = 0..(BufBytes - 1),
         off + Len(s) <= BufBytes, BufBytes \in Nat
  PROVE  /\ Len(s) \in Nat /\ off' = off + Len(s) /\ DOMAIN code' = DOMAIN code
         /\ \A k \in 1..Len(s) : code'[off + k - 1] = s[k]
         /\ \A k \in DOMAIN code : k < off \/ k >= off + Len(s) => code'[k] = code[k]
<1>1. Len(s) \in Nat
  <2>1. PICK S : s \in Seq(S)  BY DEF IsSeq
  <2> QED  BY <2>1, LenProperties
<1>2. code' = [k \in DOMAIN code |->
                 IF off <= k /\ k < off + Len(s) THEN s[k - off + 1] ELSE code[k]]
  BY DEF Put
<1>3. ASSUME NEW k \in 1..Len(s) PROVE code'[off + k - 1] = s[k]
  <2>1. off + k - 1 \in DOMAIN code /\ off <= off + k - 1 /\ off + k - 1 < off + Len(s)
        /\ (off + k - 1) - off + 1 = k
    BY <1>1
  <2> QED  BY <1>2, <2>1
<1>4. ASSUME NEW k \in DOMAIN code, k < off \/ k >= off + Len(s) PROVE code'[k] = code[k]
  <2>1. k \in Int  BY <1>4
  <2> QED  BY <1>1, <1>2, <1>4, <2>1
<1> QED  BY <1>1, <1>2, <1>3, <1>4 DEF Put

\* Writing what is there already leaves buf as it is.
LEMMA Rewrite ==
  ASSUME NEW s, IsSeq(s), Put(s), off \in Nat, DOMAIN code = 0..(BufBytes - 1),
         off + Len(s) <= BufBytes, BufBytes \in Nat,
         \A k \in 1..Len(s) : code[off + k - 1] = s[k]
  PROVE  \A k \in DOMAIN code : code'[k] = code[k]
<1>1. /\ Len(s) \in Nat /\ \A k \in 1..Len(s) : code'[off + k - 1] = s[k]
      /\ \A k \in DOMAIN code : k < off \/ k >= off + Len(s) => code'[k] = code[k]
  BY PutBytes
<1>2. ASSUME NEW k \in DOMAIN code PROVE code'[k] = code[k]
  <2>0. k \in Int  BY <1>2
  <2>1. CASE k < off \/ k >= off + Len(s)  BY <1>1, <2>1
  <2>2. CASE off <= k /\ k < off + Len(s)
    <3>1. k - off + 1 \in 1..Len(s) /\ off + (k - off + 1) - 1 = k  BY <1>1, <2>0, <2>2
    <3>2. code'[off + (k - off + 1) - 1] = s[k - off + 1] /\ code[off + (k - off + 1) - 1] = s[k - off + 1]
      BY <1>1, <3>1
    <3> QED  BY <3>1, <3>2
  <2> QED  BY <1>1, <2>0, <2>1, <2>2
<1> QED  BY <1>2

\* What holds at a place of the program.
LEMMA PlaceRoom ==
  ASSUME NEW L \in Places, Program(L), NEW p \in L
  PROVE  /\ p \in Nat \X Nat /\ p[1] \in Nat /\ p[2] \in Nat /\ p[1] >= 18
         /\ (IF p[2] = 0 THEN 3 ELSE Cost(p[2])) \in Nat
         /\ p[1] + (IF p[2] = 0 THEN 3 ELSE Cost(p[2])) <= BufBytes - StackUse
<1>1. p \in Nat \X Nat /\ p[1] \in Nat /\ p[2] \in Nat  BY DEF Places
<1>2. p[1] >= 18 /\ p[1] + Left(p[2]) <= BufBytes - StackUse  BY DEF Program
<1>3. Left(p[2]) \in Nat  BY <1>1, LeftFitsRoom
<1>4. p[2] = 0 => Left(p[2]) = 3  BY DEF Left
<1>5. p[2] # 0 => Cost(p[2]) \in Nat /\ Cost(p[2]) <= Left(p[2])
  <2> SUFFICES ASSUME p[2] # 0 PROVE Cost(p[2]) \in Nat /\ Cost(p[2]) <= Left(p[2])  OBVIOUS
  <2>1. p[2] \in Nat \ {0}  BY <1>1
  <2> QED  BY <2>1, ChunkFits, ChunkFacts
<1>6. BufBytes \in Nat /\ StackUse \in Nat  BY BufAssumption
<1> QED  BY <1>1, <1>2, <1>3, <1>4, <1>5, <1>6

\* Once complete, every place of the program is written.
LEMMA AllWritten ==
  ASSUME NEW L, Program(L), Complete, NEW p \in L
  PROVE  Written(p) /\ (p[2] # 0 => Next2(p) \in L)
BY DEF Program

LEMMA ProgramStays ==
  ASSUME NEW L \in Places, Program(L), Complete' = Complete,
         pc' # "loops", pc # "loops", size' = size,
         \A k \in Nat : k < BufBytes - StackUse => code'[k] = code[k]
  PROVE  Program(L)'
<1>0. BufBytes \in Nat /\ StackUse \in Nat /\ StackUse <= BufBytes  BY BufAssumption
<1>1. ASSUME NEW p \in L PROVE Written(p)'
  <2>1. /\ p \in Nat \X Nat /\ p[1] \in Nat
        /\ (IF p[2] = 0 THEN 3 ELSE Cost(p[2])) \in Nat
        /\ p[1] + (IF p[2] = 0 THEN 3 ELSE Cost(p[2])) <= BufBytes - StackUse
    BY PlaceRoom
  <2> DEFINE n == IF p[2] = 0 THEN 3 ELSE Cost(p[2])
  <2>2. n \in Nat /\ p[1] + n <= BufBytes - StackUse  BY <2>1
  <2>3. Written(p)  BY DEF Program
  <2>4. ASSUME NEW k \in Nat, p[1] <= k, k < p[1] + n PROVE code'[k] = code[k]
    <3> HIDE DEF n
    <3>1. k < BufBytes - StackUse  BY <1>0, <2>1, <2>2, <2>4
    <3> QED  BY <3>1
  <2> QED  BY <2>1, <2>3, <2>4, WrittenStays
<1>2. HeadWritten /\ <<18, size>> \in L => HeadWritten'
  <2> SUFFICES ASSUME HeadWritten, <<18, size>> \in L PROVE HeadWritten'  OBVIOUS
  <2>1. PICK p \in Pictures : \A k \in 1..18 : code[k - 1] = Head3(p)[k]  BY DEF HeadWritten
  <2>2. 18 <= BufBytes - StackUse
    <3> DEFINE q == <<18, size>>
    <3>1. q \in L /\ q[1] = 18  OBVIOUS
    <3> HIDE DEF q
    <3> QED  BY <1>0, <3>1, PlaceRoom
  <2>3. ASSUME NEW k \in 1..18 PROVE code'[k - 1] = Head3(p)[k]
    <3>1. k - 1 \in Nat /\ k - 1 < BufBytes - StackUse  BY <1>0, <2>2
    <3> QED  BY <2>1, <3>1
  <2> QED  BY <2>3 DEF HeadWritten
<1>3. \A p \in L : p[1] >= 18 /\ p[1] + Left(p[2]) <= BufBytes - StackUse  BY DEF Program
<1>4. \A p \in L : Written(p) /\ (p[2] # 0 => Next2(p) \in L)  BY DEF Program
<1>5. Complete => <<18, size>> \in L /\ HeadWritten  BY DEF Program
<1> QED  BY <1>1, <1>2, <1>3, <1>4, <1>5 DEF Program

LEMMA CallStep ==
  ASSUME FitsInv, EngineTypes, NEW L \in Places, Program(L), Channel(L), Call
  PROVE  Program(L)' /\ Channel(L)'
<1>1. Complete' = Complete  BY DEF Complete, Call
<1>2. Program(L)'
  <2>1. /\ pc' # "loops" /\ pc # "loops" /\ size' = size
        /\ \A k \in Nat : k < BufBytes - StackUse => code'[k] = code[k]
    BY DEF Call
  <2> QED  BY <1>1, <2>1, ProgramStays
<1>3. UNCHANGED <<size, engineVars, history>>  BY DEF Call
<1>4. Channel(L)'
  <2>1. L \subseteq L /\ (Complete => Complete')  BY <1>1
  <2> QED  BY <1>3, <2>1, ChannelStays
<1> QED  BY <1>2, <1>4

LEMMA OtherCallsStep ==
  ASSUME FitsInv, EngineTypes, NEW L \in Places, Program(L), Channel(L), OtherCalls
  PROVE  Program(L)' /\ Channel(L)'
<1>1. Complete' = Complete  BY DEF Complete, OtherCalls
<1>2. Program(L)'
  <2>0. BufBytes \in Nat /\ StackUse \in Nat /\ StackUse <= BufBytes  BY BufAssumption
  <2>1. pc' # "loops" /\ pc # "loops" /\ size' = size
    BY DEF OtherCalls
  <2>2. ASSUME NEW k \in Nat, k < BufBytes - StackUse PROVE code'[k] = code[k]
    <3>1. k \in DOMAIN code  BY <2>0, <2>2 DEF EngineTypes
    <3>2. ~(k >= BufBytes - StackUse)  BY <2>0, <2>2
    <3> QED  BY <3>1, <3>2 DEF OtherCalls
  <2> QED  BY <1>1, <2>1, <2>2, ProgramStays
<1>3. UNCHANGED <<size, engineVars, history>>  BY DEF OtherCalls
<1>4. Channel(L)'
  <2>1. L \subseteq L /\ (Complete => Complete')  BY <1>1
  <2> QED  BY <1>3, <2>1, ChannelStays
<1> QED  BY <1>2, <1>4

LEMMA GoStep ==
  ASSUME FitsInv, EngineTypes, NEW L \in Places, Program(L), Channel(L), Go
  PROVE  Program(L)' /\ Channel(L)'
<1>1. Complete' /\ Complete /\ UNCHANGED <<size, code>> /\ pc = "go" /\ pc' = "idle"
  BY DEF Complete, Go, EngineTypes
<1>2. Program(L)'
  <2>1. /\ pc' # "loops" /\ pc # "loops" /\ size' = size /\ Complete' = Complete
        /\ \A k \in Nat : k < BufBytes - StackUse => code'[k] = code[k]
    BY <1>1, Zenon
  <2> QED  BY <2>1, ProgramStays
<1>3. CASE st = "stopped"
  <2>1. InHead' /\ st' # "stopped" /\ job' = {size'} /\ stored' = 0
    BY <1>1, <1>3 DEF Go, InHead
  <2> QED  BY <1>1, <1>2, <2>1 DEF Channel
<1>4. CASE st # "stopped"
  <2>1. UNCHANGED <<size, engineVars, history>>  BY <1>4 DEF Go, engineVars
  <2>2. L \subseteq L /\ (Complete => Complete')  BY <1>1
  <2> QED  BY <1>2, <2>1, <2>2, ChannelStays
<1> QED  BY <1>3, <1>4

LEMMA EmitHeadStep ==
  ASSUME FitsInv, EngineTypes, NEW L \in Places, Program(L), Channel(L), EmitHead, FitsInv'
  PROVE  \E M \in Places : Program(M)' /\ Channel(M)'
<1>0. BufBytes \in Nat /\ StackUse \in Nat /\ StackUse <= BufBytes  BY BufAssumption
<1>1. /\ pc = "head" /\ pc' = "loops" /\ bursts' = size /\ size' = size /\ off = 0 /\ Put(Head3(pic))
      /\ calls' = calls /\ UNCHANGED <<size, engineVars, history>>
  BY DEF EmitHead, FitsInv
<1>2. Complete' = Complete /\ (Complete <=> calls > 0)  BY <1>1 DEF Complete
<1>3. off' = 18 /\ 18 + Left(size) <= BufBytes - StackUse /\ Left(size) \in Nat
  <2>1. off' = off + Len(Head3(pic))  BY <1>1 DEF Put
  <2>2. Len(Head3(pic)) = 18  BY HeadBytes
  <2>3. off' = 18  BY <1>1, <2>1, <2>2
  <2>4. off' + Left(bursts)' <= BufBytes - StackUse  BY <1>1 DEF FitsInv
  <2>5. Left(bursts)' = Left(size)  BY <1>1 DEF Left
  <2>6. size \in Nat  BY BufAssumption DEF FitsInv
  <2> QED  BY <2>3, <2>4, <2>5, <2>6, LeftFitsRoom
<1>4. /\ \A k \in 1..18 : code'[k - 1] = Head3(pic)[k]
      /\ \A k \in DOMAIN code : k >= 18 => code'[k] = code[k]
  <2>1. IsSeq(Head3(pic)) /\ Len(Head3(pic)) = 18  BY HeadBytes
  <2>2. off \in Nat /\ off + Len(Head3(pic)) <= BufBytes /\ DOMAIN code = 0..(BufBytes - 1)
    BY <1>0, <1>1, <1>3, <2>1 DEF EngineTypes
  <2>3. /\ \A k \in 1..Len(Head3(pic)) : code'[off + k - 1] = Head3(pic)[k]
        /\ \A k \in DOMAIN code : k < off \/ k >= off + Len(Head3(pic)) => code'[k] = code[k]
    BY <1>0, <1>1, <2>1, <2>2, PutBytes
  <2>4. \A k \in 1..18 : off + k - 1 = k - 1  BY <1>1
  <2>5. off + 18 = 18  BY <1>1
  <2> QED  BY <2>1, <2>3, <2>4, <2>5
<1>5. HeadWritten'
  <2>1. pic \in Pictures  BY DEF EngineTypes
  <2> QED  BY <1>4, <2>1 DEF HeadWritten
<1>6. CASE Complete
  <2>1. <<18, size>> \in L  BY <1>6 DEF Program
  <2>2. ASSUME NEW p \in L PROVE Written(p)' /\ (p[2] # 0 => Next2(p) \in L)
    <3> DEFINE n == IF p[2] = 0 THEN 3 ELSE Cost(p[2])
    <3>1. p \in Nat \X Nat /\ p[1] \in Nat /\ p[1] >= 18 /\ n \in Nat /\ p[1] + n <= BufBytes - StackUse
      BY PlaceRoom
    <3>2. Written(p) /\ (p[2] # 0 => Next2(p) \in L)  BY <1>6, AllWritten
    <3>3. ASSUME NEW k \in Nat, p[1] <= k, k < p[1] + n PROVE code'[k] = code[k]
      <4> HIDE DEF n
      <4>1. k \in 0..(BufBytes - 1) /\ k >= 18  BY <1>0, <3>1, <3>3
      <4> QED  BY <1>4, <4>1 DEF EngineTypes
    <3>4. Written(p)'  BY <3>1, <3>2, <3>3, WrittenStays
    <3> QED  BY <3>2, <3>4
  <2>3. \A p \in L : p[1] >= 18 /\ p[1] + Left(p[2]) <= BufBytes - StackUse  BY DEF Program
  <2>4. <<off', bursts'>> \in L /\ <<18, size'>> \in L  BY <1>1, <1>3, <2>1
  <2>5. Program(L)'  BY <1>2, <1>5, <1>6, <2>2, <2>3, <2>4 DEF Program
  <2>6. Channel(L)'
    <3>1. L \subseteq L /\ (Complete => Complete')  BY <1>2
    <3> QED  BY <1>1, <3>1, ChannelStays
  <2> QED  BY <2>5, <2>6
<1>7. CASE ~Complete
  <2>0. size \in Nat  BY BufAssumption DEF FitsInv
  <2>1. PICK n \in Nat : n = size  BY <2>0
  <2> DEFINE q == <<18, n>>
             M == {q}
  <2>2. q \in Nat \X Nat /\ M \in Places /\ q[1] = 18 /\ q[2] = size /\ q \in M  BY <2>1 DEF Places
  <2>3. q = <<off', bursts'>> /\ q = <<18, size'>>  BY <1>1, <1>3, <2>1
  <2> HIDE DEF q
  <2>4. \A p \in M : p = q  OBVIOUS
  <2> HIDE DEF M
  <2>5. \A p \in M : p[1] >= 18 /\ p[1] + Left(p[2]) <= BufBytes - StackUse  BY <1>3, <2>2, <2>4
  <2>6. Program(M)'  BY <1>1, <1>2, <1>5, <1>7, <2>2, <2>3, <2>4, <2>5 DEF Program
  <2>7. Channel(M)'
    <3>1. st = "stopped" /\ job = {}  BY <1>7 DEF Channel
    <3>2. st' = "stopped" /\ job' = {}  BY <1>1, <3>1 DEF engineVars, history
    <3> QED  BY <3>2 DEF Channel
  <2> QED  BY <2>2, <2>6, <2>7
<1> QED  BY <1>6, <1>7

\* Where the next bytes go.
LEMMA NextPlace ==
  ASSUME FitsInv, EngineTypes, NEW L \in Places, Program(L), pc = "loops"
  PROVE  /\ off \in Nat /\ bursts \in Nat /\ <<off, bursts>> \in L
         /\ off + (IF bursts = 0 THEN 3 ELSE Cost(bursts)) <= BufBytes - StackUse
         /\ BufBytes \in Nat /\ StackUse \in Nat /\ StackUse <= BufBytes
<1> DEFINE p == <<off, bursts>>
<1>1. p \in L  BY DEF Program
<1>2. p[1] = off /\ p[2] = bursts  OBVIOUS
<1> HIDE DEF p
<1>3. p[1] \in Nat /\ p[2] \in Nat /\ p[1] + (IF p[2] = 0 THEN 3 ELSE Cost(p[2])) <= BufBytes - StackUse
  BY <1>1, PlaceRoom
<1> QED  BY <1>1, <1>2, <1>3, BufAssumption DEF p

\* A program that is complete is written again as it is.
LEMMA EmitAgain ==
  ASSUME FitsInv, EngineTypes, NEW L \in Places, Program(L), Complete, pc = "loops",
         NEW s, IsSeq(s), Put(s),
         bursts = 0 => s = Tail2, bursts # 0 => s = LoopCode(Chunk(bursts))
  PROVE  \A k \in Nat : k < BufBytes => code'[k] = code[k]
<1> DEFINE p == <<off, bursts>>
<1>1. /\ off \in Nat /\ bursts \in Nat /\ p \in L
      /\ off + (IF bursts = 0 THEN 3 ELSE Cost(bursts)) <= BufBytes - StackUse
      /\ BufBytes \in Nat /\ StackUse \in Nat
  BY NextPlace
<1>2. p[1] = off /\ p[2] = bursts  OBVIOUS
<1> HIDE DEF p
<1>3. Written(p)  BY <1>1, AllWritten
<1>4. Len(s) = (IF bursts = 0 THEN 3 ELSE Cost(bursts))  BY TailBytes DEF Cost
<1>5. Len(s) \in Nat
  <2>1. PICK S : s \in Seq(S)  BY DEF IsSeq
  <2> QED  BY <2>1, LenProperties
<1>6. \A k \in 1..Len(s) : code[off + k - 1] = s[k]  BY <1>2, <1>3, <1>4 DEF Written
<1>7. off + Len(s) <= BufBytes  BY <1>1, <1>4, <1>5
<1>8. \A k \in DOMAIN code : code'[k] = code[k]
  BY <1>1, <1>6, <1>7, Rewrite DEF EngineTypes
<1>9. \A k \in Nat : k < BufBytes => k \in DOMAIN code  BY <1>1 DEF EngineTypes
<1> QED  BY <1>8, <1>9

LEMMA HeadStays ==
  ASSUME HeadWritten, \A k \in Nat : k < 18 => code'[k] = code[k]
  PROVE  HeadWritten'
<1>1. PICK p \in Pictures : \A k \in 1..18 : code[k - 1] = Head3(p)[k]  BY DEF HeadWritten
<1>2. ASSUME NEW k \in 1..18 PROVE code'[k - 1] = Head3(p)[k]
  <2>1. k - 1 \in Nat /\ k - 1 < 18  BY <1>2
  <2> QED  BY <1>1, <2>1
<1> QED  BY <1>2 DEF HeadWritten

\* Whatever the second call writes, the places stay written.
LEMMA AgainWritten ==
  ASSUME NEW L \in Places, Program(L), Complete,
         \A k \in Nat : k < BufBytes => code'[k] = code[k]
  PROVE  \A p \in L : Written(p)' /\ (p[2] # 0 => Next2(p) \in L)
<1> TAKE p \in L
<1> DEFINE n == IF p[2] = 0 THEN 3 ELSE Cost(p[2])
<1>0. BufBytes \in Nat /\ StackUse \in Nat  BY BufAssumption
<1>1. p \in Nat \X Nat /\ p[1] \in Nat /\ n \in Nat /\ p[1] + n <= BufBytes - StackUse
  BY PlaceRoom
<1>2. Written(p) /\ (p[2] # 0 => Next2(p) \in L)  BY AllWritten
<1>3. ASSUME NEW k \in Nat, p[1] <= k, k < p[1] + n PROVE code'[k] = code[k]
  <2> HIDE DEF n
  <2>1. k < BufBytes  BY <1>0, <1>1, <1>3
  <2> QED  BY <2>1
<1>4. Written(p)'  BY <1>1, <1>2, <1>3, WrittenStays
<1> QED  BY <1>2, <1>4

\* The first call leaves what it has written and writes the next place.
LEMMA FirstWritten ==
  ASSUME FitsInv, EngineTypes, NEW L \in Places, Program(L), ~Complete, pc = "loops",
         NEW s, IsSeq(s), Put(s),
         bursts = 0 => s = Tail2, bursts # 0 => s = LoopCode(Chunk(bursts)),
         off + Len(s) <= BufBytes,
         NEW p \in L
  PROVE  /\ Written(p)'
         /\ p = <<off, bursts>> \/ (p[2] # 0 /\ Next2(p) \in L)
<1>1. /\ off \in Nat /\ bursts \in Nat /\ BufBytes \in Nat /\ StackUse \in Nat
      /\ DOMAIN code = 0..(BufBytes - 1)
  BY NextPlace DEF EngineTypes
<1>2. /\ Len(s) \in Nat
      /\ \A k \in 1..Len(s) : code'[off + k - 1] = s[k]
      /\ \A k \in DOMAIN code : k < off \/ k >= off + Len(s) => code'[k] = code[k]
  BY <1>1, PutBytes
<1>3. /\ p \in Nat \X Nat /\ p[1] \in Nat /\ p[2] \in Nat
      /\ (IF p[2] = 0 THEN 3 ELSE Cost(p[2])) \in Nat
  BY PlaceRoom
<1>4. CASE p = <<off, bursts>>
  <2>1. p[1] = off /\ p[2] = bursts  BY <1>4
  <2>2. bursts # 0 => Cost(bursts) = Len(s)  BY DEF Cost
  <2> QED  BY <1>2, <1>4, <2>1, <2>2, TailBytes DEF Written
<1>5. CASE p # <<off, bursts>>
  <2>1. Written(p) /\ p[2] # 0 /\ Next2(p) \in L /\ p[1] + Cost(p[2]) <= off  BY <1>5 DEF Program
  <2>2. ASSUME NEW k \in Nat, p[1] <= k, k < p[1] + (IF p[2] = 0 THEN 3 ELSE Cost(p[2]))
        PROVE code'[k] = code[k]
    <3>1. k < p[1] + Cost(p[2]) /\ Cost(p[2]) \in Nat  BY <1>3, <2>1, <2>2
    <3> DEFINE n == Cost(p[2])
    <3>2. n \in Nat /\ k < p[1] + n /\ p[1] + n <= off  BY <2>1, <3>1
    <3> HIDE DEF n
    <3>3. k < off /\ k < BufBytes  BY <1>1, <1>2, <1>3, <3>2
    <3>4. k \in DOMAIN code  BY <1>1, <3>3
    <3> QED  BY <1>2, <3>3, <3>4
  <2>3. Written(p)'  BY <1>3, <2>1, <2>2, WrittenStays
  <2> QED  BY <2>1, <2>3
<1> QED  BY <1>4, <1>5

LEMMA EmitLoopStep ==
  ASSUME FitsInv, EngineTypes, NEW L \in Places, Program(L), Channel(L), EmitLoop
  PROVE  \E M \in Places : Program(M)' /\ Channel(M)'
<1>1. /\ pc = "loops" /\ pc' = "loops" /\ bursts # 0 /\ Put(LoopCode(Chunk(bursts)))
      /\ UNCHANGED <<size, calls, engineVars, history>>
      /\ bursts' = Rest(bursts) /\ off' = off + Cost(bursts)
  BY DEF EmitLoop, Put, Rest, Cost
<1>2. Complete' = Complete  BY <1>1 DEF Complete
<1>3. /\ off \in Nat /\ bursts \in Nat \ {0} /\ <<off, bursts>> \in L
      /\ off + Cost(bursts) <= BufBytes - StackUse
      /\ BufBytes \in Nat /\ StackUse \in Nat /\ StackUse <= BufBytes
  BY <1>1, NextPlace
<1> DEFINE s == LoopCode(Chunk(bursts))
<1>4. IsSeq(s) /\ Len(s) = Cost(bursts) /\ Cost(bursts) \in Nat
  <2>1. /\ Chunk(bursts).lcnt0 \in 0..CountModulus /\ Chunk(bursts).lcnt1 \in 1..CountModulus
        /\ Chunk(bursts).cyc \in 1..cycmax
    BY <1>3, ChunkBounds
  <2>2. CountModulus \in Nat /\ cycmax \in Nat  BY ByteAssumption, CycmaxBounds
  <2>3. Chunk(bursts).lcnt0 \in Nat /\ Chunk(bursts).lcnt1 \in Nat /\ Chunk(bursts).cyc \in Nat
    BY <2>1, <2>2
  <2> QED  BY <1>3, <2>3, LoopCodeBytes, ChunkFits DEF Cost
<1>5. PICK q \in L : q = <<off, bursts>>  BY <1>3
<1>6. Next2(q) = <<off', bursts'>>  BY <1>1, <1>5 DEF Next2
<1>7. \A p \in L : p[1] >= 18 /\ p[1] + Left(p[2]) <= BufBytes - StackUse  BY DEF Program
<1>8. <<18, size>> \in L /\ HeadWritten /\ 18 <= off
  <2>1. <<18, size>> \in L /\ HeadWritten  BY <1>1 DEF Program
  <2>2. q[1] >= 18 /\ q[1] = off  BY <1>5, <1>7
  <2> QED  BY <2>1, <2>2
<1>9. PICK t : t = s  OBVIOUS
<1>10. bursts # 0 => t = LoopCode(Chunk(bursts))  BY <1>9
<1>11. IsSeq(t) /\ Len(t) = Cost(bursts) /\ Put(t)  BY <1>1, <1>4, <1>9
<1> HIDE DEF s
<1>12. CASE Complete
  <2>1. \A k \in Nat : k < BufBytes => code'[k] = code[k]
    <3>1. bursts = 0 => t = Tail2  BY <1>1
    <3> QED  BY <1>1, <1>10, <1>11, <1>12, <3>1, EmitAgain
  <2>2. \A p \in L : Written(p)' /\ (p[2] # 0 => Next2(p) \in L)  BY <1>12, <2>1, AgainWritten
  <2>3. HeadWritten'
    <3>1. \A k \in Nat : k < 18 => code'[k] = code[k]
      <4>1. Cost(bursts) \in Nat  BY <1>4
      <4>2. 18 <= BufBytes  BY <1>3, <1>8, <4>1
      <4> QED  BY <1>3, <2>1, <4>2
    <3> QED  BY <1>8, <3>1, HeadStays
  <2>4. <<off', bursts'>> \in L
    <3>1. q[2] # 0  BY <1>1, <1>5
    <3>2. Next2(q) \in L  BY <2>2, <3>1
    <3> QED  BY <1>6, <3>2
  <2>5. size' = size  BY <1>1
  <2>6. Program(L)'  BY <1>1, <1>2, <1>7, <1>8, <1>12, <2>2, <2>3, <2>4, <2>5 DEF Program
  <2>7. Channel(L)'
    <3>1. L \subseteq L /\ (Complete => Complete')  BY <1>2
    <3> QED  BY <1>1, <3>1, ChannelStays
  <2> QED  BY <2>6, <2>7
<1>13. CASE ~Complete
  <2>0. PICK r : r = Next2(q)  OBVIOUS
  <2> DEFINE M == L \cup {r}
  <2>1. r \in Nat \X Nat /\ r = <<off', bursts'>> /\ r[1] = off + Cost(bursts) /\ r[2] = Rest(bursts)
    <3>1. r = <<off + Cost(bursts), Rest(bursts)>>  BY <1>1, <1>6, <2>0
    <3>2. Rest(bursts) \in Nat  BY <1>3, ChunkFits
    <3> QED  BY <1>1, <1>3, <1>4, <1>6, <2>0, <3>1, <3>2
  <2>2. M \in Places  BY <2>1 DEF Places
  <2>3. off + Len(t) <= BufBytes  BY <1>3, <1>4, <1>11
  <2>4. \A p \in L : /\ Written(p)'
                     /\ p = <<off, bursts>> \/ (p[2] # 0 /\ Next2(p) \in L)
    <3>1. bursts = 0 => t = Tail2  BY <1>1
    <3> QED  BY <1>1, <1>10, <1>11, <1>13, <2>3, <3>1, FirstWritten
  <2>5. HeadWritten'
    <3>1. \A k \in Nat : k < 18 => code'[k] = code[k]
      <4>1. DOMAIN code = 0..(BufBytes - 1)  BY DEF EngineTypes
      <4>2. \A k \in DOMAIN code : k < off \/ k >= off + Len(t) => code'[k] = code[k]
        BY <1>3, <1>11, <2>3, <4>1, PutBytes
      <4>3. Cost(bursts) \in Nat  BY <1>4
      <4>4. \A k \in Nat : k < 18 => k \in DOMAIN code /\ k < off  BY <1>3, <1>8, <4>1, <4>3
      <4> QED  BY <4>2, <4>4
    <3> QED  BY <1>8, <3>1, HeadStays
  <2>6. r[1] >= 18 /\ r[1] + Left(r[2]) <= BufBytes - StackUse
    <3>1. Rest(bursts) \in Nat /\ Cost(bursts) + Left(Rest(bursts)) <= Left(bursts)  BY <1>3, ChunkFits
    <3>2. off + Left(bursts) <= BufBytes - StackUse  BY <1>5, <1>7
    <3>3. Left(bursts) \in Nat /\ Left(Rest(bursts)) \in Nat  BY <1>3, <3>1, LeftFitsRoom
    <3> QED  BY <1>3, <1>4, <1>8, <2>1, <3>1, <3>2, <3>3
  <2>7. \A p \in M : p[1] >= 18 /\ p[1] + Left(p[2]) <= BufBytes - StackUse  BY <1>7, <2>6
  <2>8. ASSUME NEW p \in L PROVE p[2] # 0 /\ Next2(p) \in M /\ p[1] + Cost(p[2]) <= off'
    <3>1. CASE p = <<off, bursts>>
      <4>1. p = q /\ p[1] = off /\ p[2] = bursts  BY <1>5, <3>1
      <4>2. off' = off + Cost(bursts) /\ off + Cost(bursts) \in Nat  BY <1>1, <1>3, <1>4
      <4> QED  BY <1>1, <2>0, <4>1, <4>2
    <3>2. CASE p # <<off, bursts>>
      <4>1. p[2] # 0 /\ Next2(p) \in L /\ p[1] + Cost(p[2]) <= off
        BY <1>1, <1>13, <2>4, <3>2 DEF Program
      <4>2. /\ p[1] \in Nat /\ (IF p[2] = 0 THEN 3 ELSE Cost(p[2])) \in Nat  BY PlaceRoom
      <4>3. Cost(p[2]) \in Nat  BY <4>1, <4>2
      <4>4. off' = off + Cost(bursts) /\ Cost(bursts) \in Nat  BY <1>1, <1>4
      <4> QED  BY <1>3, <4>1, <4>2, <4>3, <4>4
    <3> QED  BY <3>1, <3>2
  <2>9. Program(M)'
    <3>1. ~Complete' /\ pc' = "loops" /\ size' = size  BY <1>1, <1>2, <1>13
    <3>2. <<off', bursts'>> \in M /\ <<18, size'>> \in M  BY <1>8, <2>1, <3>1
    <3>3. \A p \in M : \/ Written(p)' /\ (p[2] # 0 => Next2(p) \in M)
                       \/ ~Complete' /\ pc' = "loops" /\ p = <<off', bursts'>>
      BY <2>1, <2>4, <2>8, <3>1
    <3>4. \A p \in M : p = <<off', bursts'>> \/ (p[1] + Cost(p[2]) <= off' /\ p[2] # 0)
      BY <2>1, <2>8
    <3> HIDE DEF M
    <3> QED  BY <2>5, <2>7, <3>1, <3>2, <3>3, <3>4 DEF Program
  <2>10. Channel(M)'
    <3>1. L \subseteq M /\ (Complete => Complete')  BY <1>2
    <3> HIDE DEF M
    <3> QED  BY <1>1, <3>1, ChannelStays
  <2> QED  BY <2>2, <2>9, <2>10
<1> QED  BY <1>12, <1>13

LEMMA EmitTailStep ==
  ASSUME FitsInv, EngineTypes, NEW L \in Places, Program(L), Channel(L), EmitTail
  PROVE  Program(L)' /\ Channel(L)'
<1>1. /\ pc = "loops" /\ pc' = "go" /\ bursts = 0 /\ Put(Tail2)
      /\ UNCHANGED <<size, engineVars, history>>
  BY DEF EmitTail
<1>2. Complete'  BY <1>1 DEF Complete
<1>3. /\ off \in Nat /\ <<off, bursts>> \in L /\ off + 3 <= BufBytes - StackUse
      /\ BufBytes \in Nat /\ StackUse \in Nat /\ StackUse <= BufBytes
  BY <1>1, NextPlace
<1>4. IsSeq(Tail2) /\ Len(Tail2) = 3  BY TailBytes
<1>5. PICK t : t = Tail2  OBVIOUS
<1>6. IsSeq(t) /\ Len(t) = 3 /\ Put(t) /\ (bursts = 0 => t = Tail2)
      /\ (bursts # 0 => t = LoopCode(Chunk(bursts)))
  BY <1>1, <1>4, <1>5
<1>7. off + Len(t) <= BufBytes  BY <1>3, <1>6
<1>8. \A p \in L : p[1] >= 18 /\ p[1] + Left(p[2]) <= BufBytes - StackUse  BY DEF Program
<1>9. <<18, size>> \in L /\ HeadWritten /\ 18 <= off
  <2>1. <<18, size>> \in L /\ HeadWritten  BY <1>1 DEF Program
  <2>2. PICK q \in L : q = <<off, bursts>>  BY <1>3
  <2>3. q[1] >= 18 /\ q[1] = off  BY <1>8, <2>2
  <2> QED  BY <2>1, <2>3
<1>10. HeadWritten'
  <2>1. DOMAIN code = 0..(BufBytes - 1)  BY DEF EngineTypes
  <2>2. \A k \in DOMAIN code : k < off \/ k >= off + Len(t) => code'[k] = code[k]
    BY <1>3, <1>6, <1>7, <2>1, PutBytes
  <2>3. \A k \in Nat : k < 18 => k \in DOMAIN code /\ k < off  BY <1>3, <1>9, <2>1
  <2>4. \A k \in Nat : k < 18 => code'[k] = code[k]  BY <2>2, <2>3
  <2> QED  BY <1>9, <2>4, HeadStays
<1>11. \A p \in L : Written(p)' /\ (p[2] # 0 => Next2(p) \in L)
  <2>1. CASE Complete
    <3>1. \A k \in Nat : k < BufBytes => code'[k] = code[k]  BY <1>1, <1>6, <2>1, EmitAgain
    <3> QED  BY <2>1, <3>1, AgainWritten
  <2>2. CASE ~Complete
    <3>1. ASSUME NEW p \in L PROVE Written(p)' /\ (p = <<off, bursts>> \/ (p[2] # 0 /\ Next2(p) \in L))
      BY <1>1, <1>6, <1>7, <2>2, FirstWritten
    <3>2. \A p \in L : p = <<off, bursts>> => p[2] = 0  BY <1>1
    <3> QED  BY <3>1, <3>2
  <2> QED  BY <2>1, <2>2
<1>12. Program(L)'
  <2>1. size' = size /\ pc' # "loops"  BY <1>1
  <2> QED  BY <1>2, <1>8, <1>9, <1>10, <1>11, <2>1 DEF Program
<1>13. Channel(L)'
  <2>1. L \subseteq L /\ (Complete => Complete')  BY <1>2
  <2> QED  BY <1>1, <2>1, ChannelStays
<1> QED  BY <1>12, <1>13

-----------------------------------------------------------------------------
(* The channel's steps.                                                    *)

LEMMA ProgramKept ==
  ASSUME NEW L, Program(L), UNCHANGED cpuVars
  PROVE  Program(L)'
<1>1. /\ pc' = pc /\ size' = size /\ bursts' = bursts /\ off' = off /\ code' = code /\ calls' = calls
  BY DEF cpuVars
<1>2. Complete' = Complete  BY <1>1 DEF Complete
<1>3. HeadWritten' <=> HeadWritten  BY <1>1 DEF HeadWritten
<1>4. \A p \in L : Written(p)' <=> Written(p)  BY <1>1 DEF Written
<1> QED  BY <1>1, <1>2, <1>3, <1>4 DEF Program

LEMMA FetchHead ==
  ASSUME FitsInv, EngineTypes, NEW L \in Places, Program(L), Complete
  PROVE  /\ mpc = 0 => Fetch = Instr("MOV", "CCR", 0)
         /\ mpc = 6 => \E p \in Pictures : Fetch = Instr("MOV", "SAR", <<p, 0>>)
         /\ mpc = 12 => Fetch = Instr("MOV", "DAR", 0)
<1>1. HeadWritten /\ <<18, size>> \in L  BY DEF Program
<1>2. PICK p \in Pictures : \A k \in 1..18 : code[k - 1] = Head3(p)[k]  BY <1>1 DEF HeadWritten
<1>3. \A k \in 0..17 : k \in DOMAIN code
  <2> DEFINE q == <<18, size>>
  <2>1. q \in L /\ q[1] = 18  BY <1>1
  <2> HIDE DEF q
  <2>2. 18 <= BufBytes - StackUse /\ BufBytes \in Nat /\ StackUse \in Nat
    BY <2>1, PlaceRoom, BufAssumption
  <2> QED  BY <2>2 DEF EngineTypes
<1>4. \A k \in 0..17 : mpc = k => Fetch = Head3(p)[k + 1]
  <2> TAKE k \in 0..17
  <2> HAVE mpc = k
  <2>1. k + 1 \in 1..18 /\ (k + 1) - 1 = k  OBVIOUS
  <2>2. code[k] = Head3(p)[k + 1]  BY <1>2, <2>1
  <2> QED  BY <1>3, <2>2 DEF Fetch
<1>5. /\ Head3(p)[1] = Instr("MOV", "CCR", 0) /\ Head3(p)[7] = Instr("MOV", "SAR", <<p, 0>>)
      /\ Head3(p)[13] = Instr("MOV", "DAR", 0)
  BY HeadBytes
<1> QED  BY <1>4, <1>5

LEMMA FetchTail ==
  ASSUME FitsInv, EngineTypes, NEW L \in Places, Program(L), Complete, NEW p \in L, p[2] = 0
  PROVE  /\ mpc = p[1] => Fetch = Instr("SEV", 0, 0)
         /\ mpc = p[1] + 2 => Fetch = Instr("END", 0, 0)
<1>1. \A k \in 1..3 : code[p[1] + k - 1] = Tail2[k]  BY AllWritten DEF Written
<1>2. p[1] \in Nat /\ p[1] + 3 <= BufBytes - StackUse /\ BufBytes \in Nat /\ StackUse \in Nat
  BY PlaceRoom, BufAssumption
<1>3. \A k \in 1..3 : p[1] + k - 1 \in DOMAIN code  BY <1>2 DEF EngineTypes
<1>4. p[1] + 1 - 1 = p[1] /\ p[1] + 3 - 1 = p[1] + 2  BY <1>2
<1>5. Tail2[1] = Instr("SEV", 0, 0) /\ Tail2[3] = Instr("END", 0, 0)  BY TailBytes
<1> QED  BY <1>1, <1>3, <1>4, <1>5 DEF Fetch

LEMMA FetchChunk ==
  ASSUME FitsInv, EngineTypes, NEW L \in Places, Program(L), Complete, NEW p \in L, p[2] # 0,
         NEW k \in Nat, k < Cost(p[2]), mpc = p[1] + k
  PROVE  Fetch = LoopCode(Chunk(p[2]))[k + 1]
<1>1. \A j \in 1..Cost(p[2]) : code[p[1] + j - 1] = LoopCode(Chunk(p[2]))[j]  BY AllWritten DEF Written
<1>2. p[1] \in Nat /\ Cost(p[2]) \in Nat /\ p[1] + Cost(p[2]) <= BufBytes - StackUse
      /\ BufBytes \in Nat /\ StackUse \in Nat
  <2>1. /\ (IF p[2] = 0 THEN 3 ELSE Cost(p[2])) \in Nat
        /\ p[1] + (IF p[2] = 0 THEN 3 ELSE Cost(p[2])) <= BufBytes - StackUse /\ p[1] \in Nat
    BY PlaceRoom
  <2> QED  BY <2>1, BufAssumption
<1>3. k + 1 \in 1..Cost(p[2]) /\ p[1] + (k + 1) - 1 = p[1] + k  BY <1>2
<1>4. code[p[1] + k] = LoopCode(Chunk(p[2]))[k + 1]
  <2>1. code[p[1] + (k + 1) - 1] = LoopCode(Chunk(p[2]))[k + 1]  BY <1>1, <1>3
  <2> QED  BY <1>3, <2>1
<1>5. p[1] + k \in DOMAIN code
  <2> DEFINE n == Cost(p[2])
  <2>1. n \in Nat /\ k < n /\ p[1] + n <= BufBytes - StackUse  BY <1>2
  <2> HIDE DEF n
  <2>2. p[1] + k \in 0..(BufBytes - 1)  BY <1>2, <2>1
  <2> QED  BY <2>2 DEF EngineTypes
<1> QED  BY <1>4, <1>5 DEF Fetch

\* The instruction at every place the channel can be in a chunk.
LEMMA WhatRuns ==
  ASSUME FitsInv, EngineTypes, NEW L \in Places, Program(L), Complete, NEW p \in L, p[2] # 0
  PROVE  LET c == Chunk(p[2]) IN
         /\ AtPlace(p) => Fetch = (IF c.lcnt0 = 0 THEN Instr("LP", 1, c.lcnt1 - 1)
                                   ELSE Instr("LP", 0, c.lcnt0 - 1))
         /\ AtInner(p) => Fetch = Instr("LP", 1, c.lcnt1 - 1)
         /\ \A h \in 0..c.cyc : mpc = InnerAt(p) + 2 + 2 * h =>
              Fetch = (IF h = c.cyc THEN Instr("LPEND", 1, 2 * c.cyc) ELSE Instr("LD", 0, 0))
         /\ AtStore(p) => Fetch = Instr("ST", 0, 0)
         /\ AtOuterEnd(p) => Fetch = Instr("LPEND", 0, 2 * c.cyc + 4)
<1> DEFINE c == Chunk(p[2])
           o == IF c.lcnt0 = 0 THEN 0 ELSE 2
<1>1. p[1] \in Nat /\ p[2] \in Nat \ {0}  BY PlaceRoom
<1>2. c.cyc \in Nat \ {0} /\ Cost(p[2]) = 2 * c.cyc + (IF c.lcnt0 = 0 THEN 4 ELSE 8)
  BY <1>1, ChunkFacts
<1>3. \A k \in Nat : k < Cost(p[2]) /\ mpc = p[1] + k => Fetch = LoopCode(c)[k + 1]
  BY FetchChunk
<1>4. /\ c.lcnt0 # 0 => /\ LoopCode(c)[1] = Instr("LP", 0, c.lcnt0 - 1)
                        /\ LoopCode(c)[2 * c.cyc + 7] = Instr("LPEND", 0, 2 * c.cyc + 4)
      /\ LoopCode(c)[o + 1] = Instr("LP", 1, c.lcnt1 - 1)
      /\ \A h \in 0..(c.cyc - 1) : /\ LoopCode(c)[o + 2 * h + 3] = Instr("LD", 0, 0)
                                   /\ LoopCode(c)[o + 2 * h + 4] = Instr("ST", 0, 0)
      /\ LoopCode(c)[o + 2 * c.cyc + 3] = Instr("LPEND", 1, 2 * c.cyc)
  BY <1>1, ChunkCode
<1>5. InnerAt(p) = p[1] + o  BY <1>1 DEF InnerAt
<1>6. o \in {0, 2} /\ (c.lcnt0 # 0 => o = 2) /\ (c.lcnt0 = 0 => o = 0)
      /\ Cost(p[2]) = o + o + 2 * c.cyc + 4
  BY <1>2
<1>7. AtPlace(p) => mpc = p[1]  BY DEF AtPlace
<1>8. AtInner(p) => mpc = p[1] + 2 /\ c.lcnt0 # 0  BY DEF AtInner
<1>9. AtStore(p) => \E h \in 0..(c.cyc - 1) : mpc = InnerAt(p) + 2 + 2 * h + 1  BY DEF AtStore
<1>10. AtOuterEnd(p) => mpc = p[1] + 2 * c.cyc + 6 /\ c.lcnt0 # 0  BY DEF AtOuterEnd
<1> HIDE DEF c, o
<1>11. ASSUME AtPlace(p)
       PROVE  Fetch = (IF c.lcnt0 = 0 THEN Instr("LP", 1, c.lcnt1 - 1) ELSE Instr("LP", 0, c.lcnt0 - 1))
  <2>1. mpc = p[1] + 0 /\ 0 \in Nat /\ 0 < Cost(p[2])  BY <1>1, <1>2, <1>6, <1>7, <1>11
  <2>2. Fetch = LoopCode(c)[0 + 1]  BY <1>3, <2>1
  <2>3. 0 + 1 = 1 /\ (c.lcnt0 = 0 => o + 1 = 1)  BY <1>6
  <2> QED  BY <1>4, <2>2, <2>3
<1>12. ASSUME AtInner(p) PROVE Fetch = Instr("LP", 1, c.lcnt1 - 1)
  <2>1. mpc = p[1] + o /\ o \in Nat /\ o < Cost(p[2])  BY <1>2, <1>6, <1>8, <1>12
  <2> QED  BY <1>3, <1>4, <2>1
<1>13. ASSUME NEW h \in 0..c.cyc, mpc = InnerAt(p) + 2 + 2 * h
       PROVE  Fetch = (IF h = c.cyc THEN Instr("LPEND", 1, 2 * c.cyc) ELSE Instr("LD", 0, 0))
  <2>1. mpc = p[1] + (o + 2 + 2 * h) /\ o + 2 + 2 * h \in Nat /\ o + 2 + 2 * h < Cost(p[2])
    BY <1>1, <1>2, <1>5, <1>6, <1>13
  <2>2. Fetch = LoopCode(c)[(o + 2 + 2 * h) + 1]  BY <1>3, <2>1
  <2>3. (o + 2 + 2 * h) + 1 = o + 2 * h + 3  BY <1>2, <1>6
  <2>4. Fetch = LoopCode(c)[o + 2 * h + 3]  BY <2>2, <2>3
  <2>5. CASE h = c.cyc  BY <1>4, <2>4, <2>5
  <2>6. CASE h # c.cyc
    <3>1. h \in 0..(c.cyc - 1)  BY <1>2, <2>6
    <3> QED  BY <1>4, <2>4, <2>6, <3>1
  <2> QED  BY <2>5, <2>6
<1>14. ASSUME AtStore(p) PROVE Fetch = Instr("ST", 0, 0)
  <2>0. PICK h \in 0..(c.cyc - 1) : mpc = InnerAt(p) + 2 + 2 * h + 1  BY <1>9, <1>14
  <2>1. mpc = p[1] + (o + 2 + 2 * h + 1) /\ o + 2 + 2 * h + 1 \in Nat /\ o + 2 + 2 * h + 1 < Cost(p[2])
    BY <1>1, <1>2, <1>5, <1>6, <2>0
  <2>2. Fetch = LoopCode(c)[(o + 2 + 2 * h + 1) + 1]  BY <1>3, <2>1
  <2>3. (o + 2 + 2 * h + 1) + 1 = o + 2 * h + 4  BY <1>2, <1>6
  <2> QED  BY <1>4, <2>2, <2>3
<1>15. ASSUME AtOuterEnd(p) PROVE Fetch = Instr("LPEND", 0, 2 * c.cyc + 4)
  <2>1. mpc = p[1] + (2 * c.cyc + 6) /\ 2 * c.cyc + 6 \in Nat /\ 2 * c.cyc + 6 < Cost(p[2])
    BY <1>1, <1>2, <1>6, <1>10, <1>15
  <2>2. Fetch = LoopCode(c)[(2 * c.cyc + 6) + 1]  BY <1>3, <2>1
  <2>3. (2 * c.cyc + 6) + 1 = 2 * c.cyc + 7  BY <1>2
  <2> QED  BY <1>4, <1>10, <1>15, <2>2, <2>3
<1> QED  BY <1>11, <1>12, <1>13, <1>14, <1>15 DEF c

\* What an instruction can do.
LEMMA OnlyOne ==
  ASSUME Engine
  PROVE  /\ st = "executing" /\ UNCHANGED cpuVars
         /\ Fetch.op = "MOV" => Mov
         /\ Fetch.op = "LP" => LoopStart
         /\ Fetch.op = "LPEND" => LoopEnd
         /\ Fetch.op = "LD" => Load
         /\ Fetch.op = "ST" => Store
         /\ Fetch.op = "SEV" => SendEvent
         /\ Fetch.op = "END" => End
BY DEF Engine, Mov, LoopStart, LoopEnd, Load, Store, SendEvent, End, Executes

\* The state of the channel that goes on.
Runs(L) ==
  /\ st = "executing" /\ job = {size}
  /\ InHead \/ \E p \in L : InChunk(p)
  /\ stored > 0 => fb[0] = <<sar[1], 0>>
ChannelTypes ==
  /\ st \in {"stopped", "executing"}
  /\ mpc \in Nat /\ lc \in [1..2 -> 0..(CountModulus - 1)] /\ dar \in Nat
  /\ sar \in Pictures \X Nat /\ stored \in Nat
  /\ DOMAIN fb = 0..(FbBytes - 1)
  /\ fifo = <<>> \/ Len(fifo) = 1

LEMMA HeadStep ==
  ASSUME FitsInv, EngineTypes, NEW L \in Places, Program(L), Complete, Runs(L), InHead, Engine
  PROVE  Runs(L)' /\ ChannelTypes'
<1>0. UNCHANGED cpuVars /\ <<18, size>> \in L  BY OnlyOne DEF Program
<1>1. size' = size  BY <1>0 DEF cpuVars
<1>2. /\ mpc = 0 => Fetch = Instr("MOV", "CCR", 0)
      /\ mpc = 6 => \E p \in Pictures : Fetch = Instr("MOV", "SAR", <<p, 0>>)
      /\ mpc = 12 => Fetch = Instr("MOV", "DAR", 0)
  BY FetchHead
<1>3. mpc \in {0, 6, 12}  BY DEF InHead
<1>4. Fetch.op = "MOV"  BY <1>2, <1>3 DEF Instr
<1>5. Mov  BY <1>4, OnlyOne
<1>6. /\ sar' = (IF Fetch.a = "SAR" THEN Fetch.b ELSE sar)
      /\ dar' = (IF Fetch.a = "DAR" THEN Fetch.b ELSE dar)
      /\ mpc' = mpc + 6 /\ UNCHANGED <<st, lc, fifo, fb, job, stored>>
  BY <1>5 DEF Mov, Length, history
<1>7. stored = 0 /\ fifo = <<>> /\ stored' = 0 /\ fifo' = <<>>  BY <1>6 DEF InHead
<1>8. CASE mpc = 0
  <2>1. mpc' = 6 /\ sar' = sar /\ dar' = dar  BY <1>2, <1>6, <1>8 DEF Instr
  <2> QED  BY <1>0, <1>1, <1>6, <1>7, <2>1 DEF Runs, InHead, ChannelTypes, EngineTypes
<1>9. CASE mpc = 6
  <2>1. PICK p \in Pictures : Fetch = Instr("MOV", "SAR", <<p, 0>>)  BY <1>2, <1>9
  <2>2. mpc' = 12 /\ sar' = <<p, 0>> /\ dar' = dar  BY <1>6, <1>9, <2>1 DEF Instr
  <2>3. sar' \in Pictures \X Nat /\ sar'[2] = 0  BY <2>2
  <2> QED  BY <1>0, <1>1, <1>6, <1>7, <2>2, <2>3 DEF Runs, InHead, ChannelTypes, EngineTypes
<1>10. CASE mpc = 12
  <2>1. mpc' = 18 /\ sar' = sar /\ dar' = 0  BY <1>2, <1>6, <1>10 DEF Instr
  <2>2. sar[2] = 0  BY <1>10 DEF InHead
  <2>3. PICK q \in L : q = <<18, size>>  BY <1>0
  <2>4. size \in Nat  BY BufAssumption DEF FitsInv
  <2>5. AtPlace(q)'  BY <1>1, <1>7, <2>1, <2>2, <2>3, <2>4 DEF AtPlace, Quiet, Togo
  <2>6. Runs(L)'  BY <1>1, <1>6, <1>7, <2>5 DEF Runs, InChunk
  <2> QED  BY <1>6, <1>7, <2>1, <2>6 DEF ChannelTypes, EngineTypes
<1> QED  BY <1>3, <1>8, <1>9, <1>10

\* One round less.
LEMMA OneRound ==
  ASSUME NEW x \in Nat, NEW y \in Nat
  PROVE  x * y \in Nat /\ (x # 0 => (x - 1) * y = x * y - y)
OBVIOUS

LEMMA PlaceStep ==
  ASSUME FitsInv, EngineTypes, NEW L \in Places, Program(L), Complete, Runs(L), Engine,
         NEW p \in L, p[2] # 0, AtPlace(p)
  PROVE  Runs(L)' /\ ChannelTypes'
<1> DEFINE c == Chunk(p[2])
<1>0. UNCHANGED cpuVars  BY OnlyOne
<1>1. size' = size  BY <1>0 DEF cpuVars
<1>2. p[1] \in Nat /\ p[2] \in Nat \ {0}  BY PlaceRoom
<1>3. /\ c.lcnt0 \in 0..CountModulus /\ c.lcnt1 \in 1..CountModulus /\ c.cyc \in Nat \ {0}
      /\ Rest(p[2]) \in Nat
      /\ p[2] = Rest(p[2]) + Round(c) * (IF c.lcnt0 = 0 THEN 1 ELSE c.lcnt0)
  BY <1>2, ChunkFacts
<1>4. Fetch = (IF c.lcnt0 = 0 THEN Instr("LP", 1, c.lcnt1 - 1) ELSE Instr("LP", 0, c.lcnt0 - 1))
  BY WhatRuns
<1>5. Fetch.op = "LP"  BY <1>4 DEF Instr
<1>6. LoopStart  BY <1>5, OnlyOne
<1>7. /\ lc' = [lc EXCEPT ![Fetch.a + 1] = Fetch.b] /\ mpc' = mpc + 2
      /\ UNCHANGED <<st, sar, dar, fifo, fb, job, stored>>
  BY <1>6 DEF LoopStart, Length, history
<1>8. mpc = p[1] /\ Quiet /\ size - stored = p[2]  BY DEF AtPlace, Togo
<1>9. Quiet'  BY <1>7, <1>8 DEF Quiet
<1>10. CountModulus \in Nat /\ lc \in [1..2 -> 0..(CountModulus - 1)]  BY ByteAssumption DEF EngineTypes
<1>11. InnerAt(p) = (IF c.lcnt0 = 0 THEN p[1] ELSE p[1] + 2) /\ Round(c) = c.lcnt1 * c.cyc
  BY DEF InnerAt, Round
<1>13. Round(c) \in Nat
  <2> HIDE DEF c
  <2>1. c.lcnt1 \in Nat /\ c.cyc \in Nat  BY <1>3, <1>10
  <2> QED  BY <1>11, <2>1, OneRound
<1>14. CASE c.lcnt0 = 0
  <2>1. Fetch.a + 1 = 2 /\ Fetch.b = c.lcnt1 - 1  BY <1>4, <1>14 DEF Instr
  <2>2. lc' \in [1..2 -> 0..(CountModulus - 1)] /\ lc'[2] = c.lcnt1 - 1
    <3>1. c.lcnt1 - 1 \in 0..(CountModulus - 1)  BY <1>3, <1>10
    <3> HIDE DEF c
    <3> QED  BY <1>7, <1>10, <2>1, <3>1
  <2>3. size' - stored' = Rest(p[2]) + 0 * Round(c) + lc'[2] * c.cyc + (c.cyc - 0)
    <3>1. (c.lcnt1 - 1) * c.cyc = Round(c) - c.cyc
      <4>1. c.lcnt1 \in Nat \ {0} /\ c.cyc \in Nat  BY <1>3, <1>10
      <4> HIDE DEF c
      <4> QED  BY <1>11, <4>1, OneRound
    <3>2. p[2] = Rest(p[2]) + Round(c)  BY <1>3, <1>13, <1>14
    <3> HIDE DEF c
    <3> QED  BY <1>1, <1>3, <1>7, <1>8, <1>13, <2>2, <3>1, <3>2
  <2>4. mpc' = InnerAt(p) + 2 + 2 * 0 /\ 0 \in 0..c.cyc  BY <1>2, <1>3, <1>7, <1>8, <1>11, <1>14
  <2>5. OuterLeft(c)' = 0  BY <1>14 DEF OuterLeft
  <2>6. AtLoad(p)'
    <3>1. \E h \in 0..c.cyc : /\ mpc' = InnerAt(p) + 2 + 2 * h
            /\ size' - stored' = Rest(p[2]) + OuterLeft(c)' * Round(c) + lc'[2] * c.cyc + (c.cyc - h)
      BY <2>3, <2>4, <2>5
    <3> QED  BY <1>9, <3>1 DEF AtLoad, Togo
  <2>7. Runs(L)'  BY <1>1, <1>7, <2>6 DEF Runs, InChunk
  <2>8. mpc' \in Nat  BY <1>2, <1>7, <1>8
  <2> QED  BY <1>7, <2>2, <2>7, <2>8 DEF ChannelTypes, EngineTypes
<1>15. CASE c.lcnt0 # 0
  <2>1. Fetch.a + 1 = 1 /\ Fetch.b = c.lcnt0 - 1  BY <1>4, <1>15 DEF Instr
  <2>2. lc' \in [1..2 -> 0..(CountModulus - 1)] /\ lc'[1] = c.lcnt0 - 1
    <3>1. c.lcnt0 - 1 \in 0..(CountModulus - 1)  BY <1>3, <1>10, <1>15
    <3> HIDE DEF c
    <3> QED  BY <1>7, <1>10, <2>1, <3>1
  <2>3. size' - stored' = Rest(p[2]) + lc'[1] * Round(c) + Round(c)
    <3>1. (c.lcnt0 - 1) * Round(c) = c.lcnt0 * Round(c) - Round(c) /\ c.lcnt0 * Round(c) \in Nat
      <4>1. c.lcnt0 \in Nat \ {0}  BY <1>3, <1>10, <1>15
      <4> HIDE DEF c
      <4> QED  BY <1>13, <4>1, OneRound
    <3>2. p[2] = Rest(p[2]) + c.lcnt0 * Round(c)
      <4>1. c.lcnt0 \in Nat  BY <1>3, <1>10
      <4>2. p[2] = Rest(p[2]) + Round(c) * c.lcnt0  BY <1>3, <1>15
      <4> HIDE DEF c
      <4>3. Round(c) * c.lcnt0 = c.lcnt0 * Round(c)  BY <1>13, <4>1
      <4> QED  BY <4>2, <4>3
    <3> HIDE DEF c
    <3> DEFINE x == c.lcnt0 * Round(c)
               y == (c.lcnt0 - 1) * Round(c)
    <3>3. y = x - Round(c) /\ x \in Nat /\ p[2] = Rest(p[2]) + x  BY <3>1, <3>2
    <3>4. lc'[1] * Round(c) = y  BY <2>2
    <3> HIDE DEF x, y
    <3> QED  BY <1>1, <1>3, <1>7, <1>8, <1>13, <3>3, <3>4
  <2>4. AtInner(p)'
    <3>1. mpc' = p[1] + 2  BY <1>7, <1>8
    <3> QED  BY <1>9, <1>15, <2>3, <3>1 DEF AtInner, Togo
  <2>5. Runs(L)'  BY <1>1, <1>7, <2>4 DEF Runs, InChunk
  <2>6. mpc' \in Nat  BY <1>2, <1>7, <1>8
  <2> QED  BY <1>7, <2>2, <2>5, <2>6 DEF ChannelTypes, EngineTypes
<1> QED  BY <1>14, <1>15

LEMMA InnerStep ==
  ASSUME FitsInv, EngineTypes, NEW L \in Places, Program(L), Complete, Runs(L), Engine,
         NEW p \in L, AtInner(p)
  PROVE  Runs(L)' /\ ChannelTypes'
<1> DEFINE c == Chunk(p[2])
<1>0. UNCHANGED cpuVars  BY OnlyOne
<1>1. size' = size  BY <1>0 DEF cpuVars
<1>2. p[1] \in Nat /\ p[2] \in Nat \ {0}  BY PlaceRoom DEF AtInner
<1>3. /\ c.lcnt1 \in 1..CountModulus /\ c.cyc \in Nat \ {0} /\ Rest(p[2]) \in Nat
  BY <1>2, ChunkFacts
<1>4. Fetch = Instr("LP", 1, c.lcnt1 - 1)  BY <1>2, WhatRuns
<1>5. Fetch.op = "LP" /\ Fetch.a + 1 = 2 /\ Fetch.b = c.lcnt1 - 1  BY <1>4 DEF Instr
<1>6. LoopStart  BY <1>5, OnlyOne
<1>7. /\ lc' = [lc EXCEPT ![2] = c.lcnt1 - 1] /\ mpc' = mpc + 2
      /\ UNCHANGED <<st, sar, dar, fifo, fb, job, stored>>
  BY <1>5, <1>6 DEF LoopStart, Length, history
<1>8. /\ mpc = p[1] + 2 /\ Quiet /\ c.lcnt0 # 0
      /\ size - stored = Rest(p[2]) + lc[1] * Round(c) + Round(c)
  BY DEF AtInner, Togo
<1>9. Quiet'  BY <1>7, <1>8 DEF Quiet
<1>10. CountModulus \in Nat /\ lc \in [1..2 -> 0..(CountModulus - 1)]  BY ByteAssumption DEF EngineTypes
<1>11. lc' \in [1..2 -> 0..(CountModulus - 1)] /\ lc'[2] = c.lcnt1 - 1 /\ lc'[1] = lc[1]
  <2>1. c.lcnt1 - 1 \in 0..(CountModulus - 1)  BY <1>3, <1>10
  <2> HIDE DEF c
  <2> QED  BY <1>7, <1>10, <2>1
<1>12. Round(c) \in Nat /\ lc'[2] * c.cyc = Round(c) - c.cyc
  <2>1. c.lcnt1 \in Nat \ {0} /\ c.cyc \in Nat  BY <1>3, <1>10
  <2> HIDE DEF c
  <2> QED  BY <1>11, <2>1, OneRound DEF Round
<1>13. OuterLeft(c)' = lc[1]  BY <1>8, <1>11 DEF OuterLeft
<1>14. size' - stored' = Rest(p[2]) + OuterLeft(c)' * Round(c) + lc'[2] * c.cyc + (c.cyc - 0)
  <2> DEFINE x == lc[1] * Round(c)
             y == lc'[2] * c.cyc
  <2>1. x \in Nat
    <3>1. lc[1] \in Nat  BY <1>10
    <3> QED  BY <1>12, <3>1, OneRound
  <2>2. size' - stored' = Rest(p[2]) + x + Round(c)  BY <1>1, <1>7, <1>8
  <2>3. y = Round(c) - c.cyc  BY <1>12
  <2> HIDE DEF x, y
  <2>4. size' - stored' = Rest(p[2]) + x + y + (c.cyc - 0)  BY <1>3, <1>12, <2>1, <2>2, <2>3
  <2> QED  BY <1>13, <2>4 DEF x, y
<1>15. mpc' = InnerAt(p) + 2 + 2 * 0 /\ 0 \in 0..c.cyc  BY <1>2, <1>3, <1>7, <1>8 DEF InnerAt
<1>16. AtLoad(p)'
  <2>1. \E h \in 0..c.cyc : /\ mpc' = InnerAt(p) + 2 + 2 * h
          /\ size' - stored' = Rest(p[2]) + OuterLeft(c)' * Round(c) + lc'[2] * c.cyc + (c.cyc - h)
    BY <1>14, <1>15
  <2> QED  BY <1>2, <1>9, <2>1 DEF AtLoad, Togo
<1>17. Runs(L)'  BY <1>1, <1>7, <1>16 DEF Runs, InChunk
<1>18. mpc' \in Nat  BY <1>2, <1>7, <1>8
<1> QED  BY <1>7, <1>11, <1>17, <1>18 DEF ChannelTypes, EngineTypes

\* Where the program goes on after a chunk.
LEMMA AfterChunk ==
  ASSUME NEW L \in Places, Program(L), Complete, NEW p \in L, p[2] # 0, mpc \in Nat,
         mpc' = p[1] + Cost(p[2]), Quiet', size' - stored' = Rest(p[2])
  PROVE  \E q \in L : InChunk(q)'
<1>1. PICK q \in L : q = Next2(p)  BY AllWritten
<1>2. q[1] = p[1] + Cost(p[2]) /\ q[2] = Rest(p[2])  BY <1>1 DEF Next2
<1>3. AtPlace(q)'  BY <1>2 DEF AtPlace, Togo
<1> QED  BY <1>3 DEF InChunk

LEMMA LoadStep ==
  ASSUME FitsInv, EngineTypes, NEW L \in Places, Program(L), Complete, Runs(L), Engine,
         NEW p \in L, AtLoad(p)
  PROVE  Runs(L)' /\ ChannelTypes'
<1> DEFINE c == Chunk(p[2])
<1>0. UNCHANGED cpuVars  BY OnlyOne
<1>1. size' = size  BY <1>0 DEF cpuVars
<1>2. p[1] \in Nat /\ p[2] \in Nat \ {0}  BY PlaceRoom DEF AtLoad
<1>3. /\ c.lcnt0 \in Nat /\ c.cyc \in Nat \ {0} /\ Rest(p[2]) \in Nat /\ c.lcnt1 \in Nat
      /\ Cost(p[2]) = 2 * c.cyc + (IF c.lcnt0 = 0 THEN 4 ELSE 8)
  <2>1. CountModulus \in Nat  BY ByteAssumption
  <2> QED  BY <1>2, <2>1, ChunkFacts
<1>4. PICK h \in 0..c.cyc :
        /\ mpc = InnerAt(p) + 2 + 2 * h
        /\ size - stored = Rest(p[2]) + OuterLeft(c) * Round(c) + lc[2] * c.cyc + (c.cyc - h)
  BY DEF AtLoad, Togo
<1>5. Fetch = (IF h = c.cyc THEN Instr("LPEND", 1, 2 * c.cyc) ELSE Instr("LD", 0, 0))
  BY <1>2, <1>4, WhatRuns
<1>6. CountModulus \in Nat /\ lc \in [1..2 -> 0..(CountModulus - 1)]  BY ByteAssumption DEF EngineTypes
<1>7. fifo = <<>> /\ dar = stored /\ sar[2] = stored /\ sar \in Pictures \X Nat /\ stored \in Nat
  BY DEF AtLoad, Quiet, EngineTypes
<1>8. InnerAt(p) = (IF c.lcnt0 = 0 THEN p[1] ELSE p[1] + 2) /\ InnerAt(p) \in Nat  BY <1>2 DEF InnerAt
<1>9. Round(c) \in Nat /\ OuterLeft(c) \in Nat /\ OuterLeft(c) * Round(c) \in Nat
      /\ lc[2] \in Nat /\ lc[2] * c.cyc \in Nat /\ lc[1] \in Nat
  <2> HIDE DEF c
  <2>1. Round(c) \in Nat  BY <1>3, OneRound DEF Round
  <2>2. OuterLeft(c) \in Nat /\ lc[2] \in Nat /\ lc[1] \in Nat  BY <1>6 DEF OuterLeft
  <2> QED  BY <1>3, <2>1, <2>2, OneRound
<1>10. CASE h # c.cyc
  <2>1. Fetch.op = "LD"  BY <1>5, <1>10 DEF Instr
  <2>2. Load  BY <2>1, OnlyOne
  <2>3. /\ fifo' = Append(fifo, sar) /\ sar' = <<sar[1], sar[2] + 1>> /\ mpc' = mpc + 1
        /\ UNCHANGED <<st, lc, dar, fb, job, stored>>
    BY <2>2 DEF Load, Length, history
  <2>4. fifo' = <<sar>> /\ Len(fifo') = 1  BY <1>7, <2>3
  <2>5. sar = <<sar[1], stored>>  BY <1>7
  <2>6. /\ sar' \in Pictures \X Nat /\ sar'[1] = sar[1] /\ sar'[2] = stored + 1  BY <1>7, <2>3
  <2>7. Loaded1'  BY <1>7, <2>3, <2>4, <2>5, <2>6 DEF Loaded1
  <2>8. h \in 0..(c.cyc - 1)  BY <1>3, <1>10
  <2>9. OuterLeft(c)' = OuterLeft(c)  BY <2>3 DEF OuterLeft
  <2>10. mpc' = InnerAt(p) + 2 + 2 * h + 1  BY <1>4, <2>3
  <2>11. size' - stored' = Rest(p[2]) + OuterLeft(c)' * Round(c) + lc'[2] * c.cyc + (c.cyc - h)
    BY <1>1, <1>4, <2>3, <2>9
  <2>12. AtStore(p)'  BY <1>2, <2>7, <2>8, <2>10, <2>11 DEF AtStore, Togo
  <2>13. Runs(L)'  BY <1>1, <2>3, <2>6, <2>12 DEF Runs, InChunk
  <2>14. mpc' \in Nat  BY <1>8, <2>8, <2>10
  <2> QED  BY <2>3, <2>4, <2>6, <2>13, <2>14 DEF ChannelTypes, EngineTypes
<1>11. CASE h = c.cyc
  <2>1. Fetch.op = "LPEND" /\ Fetch.a + 1 = 2 /\ Fetch.b = 2 * c.cyc  BY <1>5, <1>11 DEF Instr
  <2>2. LoopEnd  BY <2>1, OnlyOne
  <2>3. /\ IF lc[2] = 0 THEN mpc' = mpc + 2 /\ lc' = lc
           ELSE mpc' = mpc - 2 * c.cyc /\ lc' = [lc EXCEPT ![2] = @ - 1]
        /\ UNCHANGED <<st, sar, dar, fifo, fb, job, stored>>
    BY <2>1, <2>2 DEF LoopEnd, Length, history
  <2>4. Quiet'  BY <1>7, <2>3 DEF Quiet
  <2>5. CASE lc[2] # 0
    <3>1. lc' \in [1..2 -> 0..(CountModulus - 1)] /\ lc'[2] = lc[2] - 1 /\ lc'[1] = lc[1]
      <4>1. lc[2] - 1 \in 0..(CountModulus - 1)  BY <1>6, <2>5
      <4> QED  BY <1>6, <2>3, <2>5, <4>1
    <3>2. mpc' = InnerAt(p) + 2 + 2 * 0 /\ 0 \in 0..c.cyc  BY <1>3, <1>4, <1>8, <1>11, <2>3, <2>5
    <3>3. OuterLeft(c)' = OuterLeft(c)  BY <3>1 DEF OuterLeft
    <3>4. size' - stored' = Rest(p[2]) + OuterLeft(c)' * Round(c) + lc'[2] * c.cyc + (c.cyc - 0)
      <4> DEFINE x == OuterLeft(c) * Round(c)
                 y == lc[2] * c.cyc
                 z == lc'[2] * c.cyc
      <4>1. z = y - c.cyc
        <5> HIDE DEF c
        <5> QED  BY <1>3, <1>9, <2>5, <3>1, OneRound
      <4>2. size - stored = Rest(p[2]) + x + y + 0 /\ x \in Nat /\ y \in Nat
        BY <1>3, <1>4, <1>9, <1>11
      <4>3. OuterLeft(c)' * Round(c) = x  BY <3>3
      <4>4. c.cyc \in Nat /\ Rest(p[2]) \in Nat  BY <1>3
      <4> HIDE DEF x, y, z, c
      <4>5. size' - stored' = Rest(p[2]) + x + z + (c.cyc - 0)  BY <1>1, <2>3, <4>1, <4>2, <4>4
      <4> QED  BY <4>3, <4>5 DEF z
    <3>5. AtLoad(p)'
      <4>1. \E k \in 0..c.cyc : /\ mpc' = InnerAt(p) + 2 + 2 * k
              /\ size' - stored' = Rest(p[2]) + OuterLeft(c)' * Round(c) + lc'[2] * c.cyc + (c.cyc - k)
        BY <3>2, <3>4
      <4> QED  BY <1>2, <2>4, <4>1 DEF AtLoad, Togo
    <3>6. Runs(L)'  BY <1>1, <2>3, <3>5 DEF Runs, InChunk
    <3>7. mpc' \in Nat  BY <1>8, <3>2
    <3> QED  BY <2>3, <3>1, <3>6, <3>7 DEF ChannelTypes, EngineTypes
  <2>6. CASE lc[2] = 0
    <3>1. mpc' = InnerAt(p) + 4 + 2 * c.cyc /\ lc' = lc  BY <1>3, <1>4, <1>8, <1>11, <2>3, <2>6
    <3>2. size' - stored' = Rest(p[2]) + OuterLeft(c) * Round(c)
      <4> DEFINE x == OuterLeft(c) * Round(c)
                 y == lc[2] * c.cyc
      <4>1. size - stored = Rest(p[2]) + x + y + 0 /\ x \in Nat
        BY <1>3, <1>4, <1>9, <1>11
      <4>2. y = 0  BY <1>3, <2>6
      <4> HIDE DEF x, y
      <4>3. size' - stored' = Rest(p[2]) + x  BY <1>1, <1>3, <2>3, <4>1, <4>2
      <4> QED  BY <4>3 DEF x
    <3>3. mpc' \in Nat  BY <1>3, <1>8, <3>1
    <3>4. CASE c.lcnt0 = 0
      <4>1. OuterLeft(c) * Round(c) = 0  BY <1>9, <3>4 DEF OuterLeft
      <4>2. size' - stored' = Rest(p[2])  BY <1>3, <3>2, <4>1
      <4>3. mpc' = p[1] + Cost(p[2])  BY <1>2, <1>3, <1>8, <3>1, <3>4
      <4>4. mpc \in Nat  BY DEF EngineTypes
      <4>5. \E q \in L : InChunk(q)'  BY <1>2, <2>4, <4>2, <4>3, <4>4, AfterChunk
      <4>6. Runs(L)'  BY <1>1, <2>3, <4>5 DEF Runs
      <4> QED  BY <2>3, <3>1, <3>3, <4>6 DEF ChannelTypes, EngineTypes
    <3>5. CASE c.lcnt0 # 0
      <4>1. OuterLeft(c) = lc[1] /\ lc'[1] = lc[1]  BY <3>1, <3>5 DEF OuterLeft
      <4>2. mpc' = p[1] + 2 * c.cyc + 6  BY <1>2, <1>3, <1>8, <3>1, <3>5
      <4>3. AtOuterEnd(p)'  BY <1>2, <2>4, <3>2, <3>5, <4>1, <4>2 DEF AtOuterEnd, Togo
      <4>4. Runs(L)'  BY <1>1, <2>3, <4>3 DEF Runs, InChunk
      <4> QED  BY <2>3, <3>1, <3>3, <4>4 DEF ChannelTypes, EngineTypes
    <3> QED  BY <3>4, <3>5
  <2> QED  BY <2>5, <2>6
<1> QED  BY <1>10, <1>11

\* What a store does.
LEMMA StoreCopies ==
  ASSUME FitsInv, EngineTypes, NEW L \in Places, Program(L), Complete, Runs(L), Store,
         NEW p \in L, AtStore(p)
  PROVE  /\ stored \in Nat /\ stored < size /\ sar[1] \in Pictures
         /\ fb' = [fb EXCEPT ![stored] = <<sar[1], stored>>]
         /\ stored' = stored + 1 /\ dar' = stored + 1 /\ fifo' = <<>> /\ mpc' = mpc + 1
         /\ UNCHANGED <<st, lc, sar, job>> /\ stored \in 0..(FbBytes - 1)
<1> DEFINE c == Chunk(p[2])
<1>1. /\ fifo = <<<<sar[1], stored>>>> /\ dar = stored /\ stored \in Nat /\ sar[1] \in Pictures
  BY DEF AtStore, Loaded1, EngineTypes
<1>2. /\ fb' = [fb EXCEPT ![dar] = Head(fifo)] /\ fifo' = Tail(fifo) /\ dar' = dar + 1
      /\ stored' = stored + 1 /\ mpc' = mpc + 1 /\ UNCHANGED <<st, lc, sar, job>> /\ dar < FbBytes
  BY DEF Store, Length
<1>3. Head(fifo) = <<sar[1], stored>> /\ Tail(fifo) = <<>>  BY <1>1
<1>4. stored < size
  <2>1. PICK h \in 0..(c.cyc - 1) :
          size - stored = Rest(p[2]) + OuterLeft(c) * Round(c) + lc[2] * c.cyc + (c.cyc - h)
    BY DEF AtStore, Togo
  <2>2. p[2] \in Nat \ {0}  BY PlaceRoom DEF AtStore
  <2>3. CountModulus \in Nat /\ lc \in [1..2 -> 0..(CountModulus - 1)]  BY ByteAssumption DEF EngineTypes
  <2>4. c.lcnt1 \in Nat /\ c.cyc \in Nat \ {0} /\ Rest(p[2]) \in Nat  BY <2>2, <2>3, ChunkFacts
  <2>5. size \in Nat  BY BufAssumption DEF FitsInv
  <2> HIDE DEF c
  <2>6. OuterLeft(c) * Round(c) \in Nat /\ lc[2] * c.cyc \in Nat
    <3>1. Round(c) \in Nat  BY <2>4, OneRound DEF Round
    <3>2. OuterLeft(c) \in Nat /\ lc[2] \in Nat  BY <2>3 DEF OuterLeft
    <3> QED  BY <2>4, <3>1, <3>2, OneRound
  <2> DEFINE x == OuterLeft(c) * Round(c)
             y == lc[2] * c.cyc
  <2>7. x \in Nat /\ y \in Nat /\ size - stored = Rest(p[2]) + x + y + (c.cyc - h)  BY <2>1, <2>6
  <2> HIDE DEF x, y
  <2>8. c.cyc - h >= 1  BY <2>1, <2>4
  <2> QED  BY <1>1, <2>1, <2>4, <2>5, <2>7, <2>8
<1>5. stored \in 0..(FbBytes - 1)  BY <1>1, <1>2, BufAssumption
<1> QED  BY <1>1, <1>2, <1>3, <1>4, <1>5

LEMMA StoreStep ==
  ASSUME FitsInv, EngineTypes, NEW L \in Places, Program(L), Complete, Runs(L), Engine,
         NEW p \in L, AtStore(p)
  PROVE  Runs(L)' /\ ChannelTypes'
<1> DEFINE c == Chunk(p[2])
<1>0. UNCHANGED cpuVars  BY OnlyOne
<1>1. size' = size  BY <1>0 DEF cpuVars
<1>2. p[1] \in Nat /\ p[2] \in Nat \ {0}  BY PlaceRoom DEF AtStore
<1>3. /\ c.lcnt0 \in Nat /\ c.cyc \in Nat \ {0} /\ Rest(p[2]) \in Nat /\ c.lcnt1 \in Nat
  <2>1. CountModulus \in Nat  BY ByteAssumption
  <2> QED  BY <1>2, <2>1, ChunkFacts
<1>4. PICK h \in 0..(c.cyc - 1) :
        /\ mpc = InnerAt(p) + 2 + 2 * h + 1
        /\ size - stored = Rest(p[2]) + OuterLeft(c) * Round(c) + lc[2] * c.cyc + (c.cyc - h)
  BY DEF AtStore, Togo
<1>5. Fetch.op = "ST"
  <2>1. Fetch = Instr("ST", 0, 0)  BY <1>2, WhatRuns
  <2> QED  BY <2>1 DEF Instr
<1>6. Store  BY <1>5, OnlyOne
<1>7. /\ stored \in Nat /\ stored < size /\ sar[1] \in Pictures
      /\ fb' = [fb EXCEPT ![stored] = <<sar[1], stored>>]
      /\ stored' = stored + 1 /\ dar' = stored + 1 /\ fifo' = <<>> /\ mpc' = mpc + 1
      /\ UNCHANGED <<st, lc, sar, job>> /\ stored \in 0..(FbBytes - 1)
  BY <1>6, StoreCopies
<1>8. sar[2] = stored + 1 /\ size \in Nat  BY BufAssumption DEF AtStore, Loaded1, FitsInv
<1>9. Quiet'  BY <1>7, <1>8 DEF Quiet
<1>10. CountModulus \in Nat /\ lc \in [1..2 -> 0..(CountModulus - 1)]  BY ByteAssumption DEF EngineTypes
<1>11. InnerAt(p) \in Nat  BY <1>2 DEF InnerAt
<1>12. h \in 0..(c.cyc - 1) /\ h + 1 \in 0..c.cyc /\ mpc' = InnerAt(p) + 2 + 2 * (h + 1)
  <2>1. h \in 0..(c.cyc - 1) /\ mpc = InnerAt(p) + 2 + 2 * h + 1 /\ mpc' = mpc + 1  BY <1>4, <1>7
  <2>2. c.cyc \in Nat  BY <1>3
  <2> HIDE DEF c
  <2> QED  BY <1>11, <2>1, <2>2
<1>13. OuterLeft(c)' = OuterLeft(c)  BY <1>7 DEF OuterLeft
<1>14. size' - stored' = Rest(p[2]) + OuterLeft(c)' * Round(c) + lc'[2] * c.cyc + (c.cyc - (h + 1))
  <2> HIDE DEF c
  <2>1. Round(c) \in Nat  BY <1>3, OneRound DEF Round
  <2>2. OuterLeft(c) \in Nat /\ lc[2] \in Nat  BY <1>10 DEF OuterLeft
  <2> DEFINE x == OuterLeft(c) * Round(c)
             y == lc[2] * c.cyc
  <2>3. x \in Nat /\ y \in Nat  BY <1>3, <2>1, <2>2, OneRound
  <2>4. size - stored = Rest(p[2]) + x + y + (c.cyc - h)  BY <1>4
  <2>5. OuterLeft(c)' * Round(c) = x /\ lc'[2] * c.cyc = y  BY <1>7, <1>13
  <2> HIDE DEF x, y
  <2>6. size' - stored' = Rest(p[2]) + x + y + (c.cyc - (h + 1))
    <3>1. size' = size /\ stored' = stored + 1 /\ stored \in Nat  BY <1>1, <1>7
    <3> QED  BY <1>3, <1>8, <1>12, <2>3, <2>4, <3>1
  <2> QED  BY <2>5, <2>6
<1>15. AtLoad(p)'
  <2>1. \E k \in 0..c.cyc : /\ mpc' = InnerAt(p) + 2 + 2 * k
          /\ size' - stored' = Rest(p[2]) + OuterLeft(c)' * Round(c) + lc'[2] * c.cyc + (c.cyc - k)
    BY <1>12, <1>14
  <2> QED  BY <1>2, <1>9, <2>1 DEF AtLoad, Togo
<1>16. DOMAIN fb = 0..(FbBytes - 1)  BY DEF EngineTypes
<1>17. DOMAIN fb' = 0..(FbBytes - 1) /\ fb'[0] = <<sar'[1], 0>>
  <2>1. CASE stored = 0  BY <1>7, <1>16, <2>1
  <2>2. CASE stored # 0
    <3>1. fb[0] = <<sar[1], 0>>  BY <1>7, <2>2 DEF Runs
    <3>2. 0 \in DOMAIN fb  BY <1>7, <1>16, BufAssumption
    <3> QED  BY <1>7, <1>16, <2>2, <3>1, <3>2
  <2> QED  BY <2>1, <2>2
<1>18. Runs(L)'  BY <1>1, <1>7, <1>15, <1>17 DEF Runs, InChunk
<1>19. mpc' \in Nat  BY <1>4, <1>11, <1>12
<1> QED  BY <1>7, <1>17, <1>18, <1>19 DEF ChannelTypes, EngineTypes

LEMMA OuterEndStep ==
  ASSUME FitsInv, EngineTypes, NEW L \in Places, Program(L), Complete, Runs(L), Engine,
         NEW p \in L, AtOuterEnd(p)
  PROVE  Runs(L)' /\ ChannelTypes'
<1> DEFINE c == Chunk(p[2])
<1>0. UNCHANGED cpuVars  BY OnlyOne
<1>1. size' = size  BY <1>0 DEF cpuVars
<1>2. p[1] \in Nat /\ p[2] \in Nat \ {0}  BY PlaceRoom DEF AtOuterEnd
<1>3. /\ c.lcnt0 \in Nat /\ c.cyc \in Nat \ {0} /\ Rest(p[2]) \in Nat /\ c.lcnt1 \in Nat
      /\ Cost(p[2]) = 2 * c.cyc + (IF c.lcnt0 = 0 THEN 4 ELSE 8)
  <2>1. CountModulus \in Nat  BY ByteAssumption
  <2> QED  BY <1>2, <2>1, ChunkFacts
<1>4. /\ c.lcnt0 # 0 /\ mpc = p[1] + 2 * c.cyc + 6 /\ Quiet
      /\ size - stored = Rest(p[2]) + lc[1] * Round(c)
  BY DEF AtOuterEnd, Togo
<1>5. Fetch = Instr("LPEND", 0, 2 * c.cyc + 4)  BY <1>2, WhatRuns
<1>6. Fetch.op = "LPEND" /\ Fetch.a + 1 = 1 /\ Fetch.b = 2 * c.cyc + 4  BY <1>5 DEF Instr
<1>7. LoopEnd  BY <1>6, OnlyOne
<1>8. /\ IF lc[1] = 0 THEN mpc' = mpc + 2 /\ lc' = lc
         ELSE mpc' = mpc - (2 * c.cyc + 4) /\ lc' = [lc EXCEPT ![1] = @ - 1]
      /\ UNCHANGED <<st, sar, dar, fifo, fb, job, stored>>
  BY <1>6, <1>7 DEF LoopEnd, Length, history
<1>9. Quiet'  BY <1>4, <1>8 DEF Quiet
<1>10. CountModulus \in Nat /\ lc \in [1..2 -> 0..(CountModulus - 1)]  BY ByteAssumption DEF EngineTypes
<1>11. Round(c) \in Nat
  <2> HIDE DEF c
  <2> QED  BY <1>3, OneRound DEF Round
<1>12. CASE lc[1] = 0
  <2>1. mpc' = p[1] + Cost(p[2])  BY <1>2, <1>3, <1>4, <1>8, <1>12
  <2>2. size' - stored' = Rest(p[2])
    <3> DEFINE x == lc[1] * Round(c)
    <3>1. x = 0  BY <1>11, <1>12
    <3>2. size - stored = Rest(p[2]) + x  BY <1>4
    <3> HIDE DEF x
    <3> QED  BY <1>1, <1>3, <1>8, <3>1, <3>2
  <2>3. mpc \in Nat  BY DEF EngineTypes
  <2>4. \E q \in L : InChunk(q)'  BY <1>2, <1>9, <2>1, <2>2, <2>3, AfterChunk
  <2>5. Runs(L)'  BY <1>1, <1>8, <2>4 DEF Runs
  <2>6. mpc' \in Nat  BY <1>8, <1>12, <2>3
  <2> QED  BY <1>8, <1>12, <2>5, <2>6 DEF ChannelTypes, EngineTypes
<1>13. CASE lc[1] # 0
  <2>1. mpc' = p[1] + 2
    <3>1. c.cyc \in Nat  BY <1>3
    <3>2. mpc = p[1] + 2 * c.cyc + 6 /\ mpc' = mpc - (2 * c.cyc + 4)  BY <1>4, <1>8, <1>13
    <3> HIDE DEF c
    <3> QED  BY <1>2, <3>1, <3>2
  <2>2. lc' \in [1..2 -> 0..(CountModulus - 1)] /\ lc'[1] = lc[1] - 1
    <3>1. lc[1] - 1 \in 0..(CountModulus - 1)  BY <1>10, <1>13
    <3> QED  BY <1>8, <1>10, <1>13, <3>1
  <2>3. size' - stored' = Rest(p[2]) + lc'[1] * Round(c) + Round(c)
    <3> DEFINE x == lc[1] * Round(c)
               y == lc'[1] * Round(c)
    <3>1. y = x - Round(c) /\ x \in Nat
      <4>1. lc[1] \in Nat  BY <1>10
      <4> QED  BY <1>11, <1>13, <2>2, <4>1, OneRound
    <3>2. size - stored = Rest(p[2]) + x  BY <1>4
    <3> HIDE DEF x, y
    <3>3. size' - stored' = Rest(p[2]) + y + Round(c)  BY <1>1, <1>3, <1>8, <1>11, <3>1, <3>2
    <3> QED  BY <3>3 DEF y
  <2>4. AtInner(p)'  BY <1>2, <1>4, <1>9, <2>1, <2>3 DEF AtInner, Togo
  <2>5. Runs(L)'  BY <1>1, <1>8, <2>4 DEF Runs, InChunk
  <2>6. mpc' \in Nat  BY <1>2, <2>1
  <2> QED  BY <1>8, <2>2, <2>5, <2>6 DEF ChannelTypes, EngineTypes
<1> QED  BY <1>12, <1>13

LEMMA TailStep ==
  ASSUME FitsInv, EngineTypes, NEW L \in Places, Program(L), Complete, Runs(L), Engine,
         NEW p \in L, p[2] = 0, AtPlace(p)
  PROVE  Runs(L)' /\ ChannelTypes'
<1>0. UNCHANGED cpuVars /\ p[1] \in Nat  BY OnlyOne, PlaceRoom
<1>1. size' = size  BY <1>0 DEF cpuVars
<1>2. mpc = p[1] /\ Quiet /\ size - stored = 0  BY DEF AtPlace, Togo
<1>3. Fetch = Instr("SEV", 0, 0)  BY <1>2, FetchTail
<1>4. Fetch.op = "SEV"  BY <1>3 DEF Instr
<1>5. SendEvent  BY <1>4, OnlyOne
<1>6. mpc' = mpc + 2 /\ UNCHANGED <<st, lc, sar, dar, fifo, fb, job, stored>>
  BY <1>5 DEF SendEvent, Length, history
<1>7. AtEnd(p)'  BY <1>1, <1>2, <1>6 DEF AtEnd, Quiet, Togo
<1>8. Runs(L)'  BY <1>1, <1>6, <1>7 DEF Runs, InChunk
<1>9. mpc' \in Nat  BY <1>0, <1>2, <1>6
<1> QED  BY <1>6, <1>8, <1>9 DEF ChannelTypes, EngineTypes

LEMMA EndStep ==
  ASSUME FitsInv, EngineTypes, NEW L \in Places, Program(L), Complete, Runs(L), Engine,
         NEW p \in L, AtEnd(p)
  PROVE  st' = "stopped" /\ job' = {} /\ ChannelTypes'
<1>0. p[2] = 0 /\ mpc = p[1] + 2  BY DEF AtEnd
<1>1. Fetch = Instr("END", 0, 0)  BY <1>0, FetchTail
<1>2. Fetch.op = "END"  BY <1>1 DEF Instr
<1>3. End  BY <1>2, OnlyOne
<1> QED  BY <1>3 DEF End, ChannelTypes, EngineTypes

\* Whatever the channel does, it goes on in the program or has ended.
LEMMA EngineStep ==
  ASSUME FitsInv, EngineTypes, NEW L \in Places, Program(L), Channel(L), Engine
  PROVE  Program(L)' /\ Channel(L)' /\ ChannelTypes'
<1>0. UNCHANGED cpuVars /\ st = "executing"  BY OnlyOne
<1>1. Program(L)'  BY <1>0, ProgramKept
<1>2. Complete /\ Runs(L)  BY <1>0 DEF Channel, Runs
<1>3. Complete'  BY <1>0, <1>2 DEF Complete, cpuVars
<1>4. Runs(L)' => Channel(L)'  BY <1>3 DEF Runs, Channel
<1>5. st' = "stopped" /\ job' = {} => Channel(L)'  BY DEF Channel
<1>6. CASE InHead  BY <1>1, <1>2, <1>4, <1>6, HeadStep
<1>7. CASE \E p \in L : InChunk(p)
  <2>1. PICK p \in L : InChunk(p)  BY <1>7
  <2>2. CASE AtPlace(p) /\ p[2] = 0  BY <1>1, <1>2, <1>4, <2>2, TailStep
  <2>3. CASE AtPlace(p) /\ p[2] # 0  BY <1>1, <1>2, <1>4, <2>3, PlaceStep
  <2>4. CASE AtInner(p)  BY <1>1, <1>2, <1>4, <2>4, InnerStep
  <2>5. CASE AtLoad(p)  BY <1>1, <1>2, <1>4, <2>5, LoadStep
  <2>6. CASE AtStore(p)  BY <1>1, <1>2, <1>4, <2>6, StoreStep
  <2>7. CASE AtOuterEnd(p)  BY <1>1, <1>2, <1>4, <2>7, OuterEndStep
  <2>8. CASE AtEnd(p)  BY <1>1, <1>2, <1>5, <2>8, EndStep
  <2> QED  BY <2>1, <2>2, <2>3, <2>4, <2>5, <2>6, <2>7, <2>8 DEF InChunk
<1> QED  BY <1>2, <1>6, <1>7 DEF Runs

-----------------------------------------------------------------------------
(* The invariant and what follows from it.                                 *)

LEMMA EngineTypesNext == FitsInv /\ FitsInv' /\ EngineTypes /\ Cpu => EngineTypes'
<1> SUFFICES ASSUME FitsInv, FitsInv', EngineTypes, Cpu PROVE EngineTypes'  OBVIOUS
<1> USE DEF EngineTypes
<1>0. BufBytes \in Nat /\ MaxCalls \in Nat /\ CountModulus \in Nat /\ size \in Nat
  BY BufAssumption, ByteAssumption DEF FitsInv
<1>1. CASE Call  BY <1>0, <1>1 DEF Call, engineVars, history
<1>2. ASSUME NEW s, Put(s) PROVE DOMAIN code' = DOMAIN code  BY <1>2 DEF Put
<1>3. CASE EmitHead  BY <1>0, <1>2, <1>3 DEF EmitHead, engineVars, history
<1>4. CASE EmitLoop
  <2>1. bursts \in Nat \ {0}  BY <1>4 DEF EmitLoop, FitsInv
  <2>2. Rest(bursts) \in Nat /\ Rest(bursts) < bursts  BY <2>1, ChunkFacts
  <2>3. bursts' = Rest(bursts)  BY <1>4 DEF EmitLoop, Rest
  <2> QED  BY <1>0, <1>2, <1>4, <2>1, <2>2, <2>3 DEF EmitLoop, engineVars, history
<1>5. CASE EmitTail  BY <1>0, <1>2, <1>5 DEF EmitTail, engineVars, history
<1>6. CASE Go  BY <1>0, <1>6 DEF Go, history
<1>7. CASE OtherCalls  BY <1>0, <1>7 DEF OtherCalls, engineVars, history
<1> QED  BY <1>1, <1>3, <1>4, <1>5, <1>6, <1>7 DEF Cpu

LEMMA CopyInit == Init => CopyInv
<1> SUFFICES ASSUME Init PROVE CopyInv  OBVIOUS
<1>0. BufBytes \in Nat /\ MaxCalls \in Nat /\ CountModulus \in Nat /\ CountModulus >= 2 /\ size \in Nat
  BY BufAssumption, ByteAssumption DEF Init
<1>1. FitsInv  BY FitsInit
<1>2. EngineTypes
  <2>1. lc \in [1..2 -> 0..(CountModulus - 1)]  BY <1>0 DEF Init
  <2> QED  BY <1>0, <2>1 DEF Init, EngineTypes
<1>3. Program({}) /\ Channel({}) /\ {} \in Places
  BY <1>0 DEF Init, Program, Channel, Complete, Places
<1> QED  BY <1>1, <1>2, <1>3 DEF CopyInv

LEMMA CopyNext == CopyInv /\ [Next]_vars => CopyInv'
<1> SUFFICES ASSUME CopyInv, [Next]_vars PROVE CopyInv'  OBVIOUS
<1>1. FitsInv /\ EngineTypes  BY DEF CopyInv
<1>2. PICK L \in Places : Program(L) /\ Channel(L)  BY DEF CopyInv
<1>3. FitsInv'  BY <1>1, FitsNext
<1>4. ASSUME EngineTypes', NEW M \in Places, Program(M)' /\ Channel(M)' PROVE CopyInv'
  BY <1>3, <1>4 DEF CopyInv
<1>5. CASE Cpu
  <2>1. EngineTypes'  BY <1>1, <1>3, <1>5, EngineTypesNext
  <2>2. CASE Call  BY <1>1, <1>2, <1>4, <2>1, <2>2, CallStep
  <2>3. CASE EmitHead
    <3>1. PICK M \in Places : Program(M)' /\ Channel(M)'  BY <1>1, <1>2, <1>3, <2>3, EmitHeadStep
    <3> QED  BY <1>4, <2>1, <3>1
  <2>4. CASE EmitLoop
    <3>1. PICK M \in Places : Program(M)' /\ Channel(M)'  BY <1>1, <1>2, <2>4, EmitLoopStep
    <3> QED  BY <1>4, <2>1, <3>1
  <2>5. CASE EmitTail  BY <1>1, <1>2, <1>4, <2>1, <2>5, EmitTailStep
  <2>6. CASE Go  BY <1>1, <1>2, <1>4, <2>1, <2>6, GoStep
  <2>7. CASE OtherCalls  BY <1>1, <1>2, <1>4, <2>1, <2>7, OtherCallsStep
  <2> QED  BY <1>5, <2>2, <2>3, <2>4, <2>5, <2>6, <2>7 DEF Cpu
<1>6. CASE Engine
  <2>1. Program(L)' /\ Channel(L)' /\ ChannelTypes'  BY <1>1, <1>2, <1>6, EngineStep
  <2>2. UNCHANGED cpuVars  BY <1>6, OnlyOne
  <2>3. EngineTypes'  BY <1>1, <2>1, <2>2 DEF EngineTypes, ChannelTypes, cpuVars
  <2> QED  BY <1>4, <2>1, <2>3
<1>7. CASE UNCHANGED vars
  <2>1. EngineTypes'  BY <1>1, <1>7 DEF EngineTypes, vars, cpuVars, engineVars, history
  <2>2. UNCHANGED cpuVars /\ UNCHANGED <<size, engineVars, history>>
    BY <1>7 DEF vars, cpuVars
  <2>3. Program(L)'  BY <1>2, <2>2, ProgramKept
  <2>4. Complete => Complete'  BY <2>2 DEF cpuVars, Complete
  <2>5. Channel(L)'
    <3>1. L \subseteq L  OBVIOUS
    <3> QED  BY <1>2, <2>2, <2>4, <3>1, ChannelStays
  <2> QED  BY <1>4, <2>1, <2>3, <2>5
<1> QED  BY <1>5, <1>6, <1>7 DEF Next

\* The variables keep their types; the bursts left to be programmed never wrap.
THEOREM TypeCorrect == Spec => []TypeOK
<1>1. CopyInv => TypeOK
  <2> SUFFICES ASSUME CopyInv PROVE TypeOK  OBVIOUS
  <2>1. FitsInv /\ EngineTypes  BY DEF CopyInv
  <2>2. size \in Nat  BY <2>1, BufAssumption DEF FitsInv
  <2>3. Len(fifo) <= 1
    <3>1. Len(<<>>) = 0  OBVIOUS
    <3>2. fifo = <<>> \/ Len(fifo) = 1  BY <2>1 DEF EngineTypes
    <3>3. PICK n : n = Len(fifo)  OBVIOUS
    <3>4. n = 0 \/ n = 1  BY <3>1, <3>2, <3>3
    <3>5. n <= 1  BY <3>4
    <3> QED  BY <3>3, <3>5, Zenon
  <2>4. bursts \in 0..size  BY <2>1, <2>2 DEF FitsInv, EngineTypes
  <2> QED  BY <2>1, <2>3, <2>4 DEF FitsInv, EngineTypes, TypeOK
<1> QED  BY <1>1, CopyInit, CopyNext, PTL DEF Spec

\* Where a store and an end can be.
LEMMA StorePlace ==
  ASSUME FitsInv, EngineTypes, NEW L \in Places, Program(L), Channel(L), st = "executing"
  PROVE  /\ Fetch.op = "ST" => \E p \in L : AtStore(p)
         /\ Fetch.op = "END" => \E p \in L : AtEnd(p)
<1>1. Complete /\ Runs(L)  BY DEF Channel, Runs
<1>2. CASE InHead
  <2>1. mpc \in {0, 6, 12}  BY <1>2 DEF InHead
  <2>2. Fetch.op = "MOV"  BY <1>1, <2>1, FetchHead DEF Instr
  <2> QED  BY <2>2
<1>3. CASE \E p \in L : InChunk(p)
  <2>1. PICK p \in L : InChunk(p)  BY <1>3
  <2>2. CASE AtPlace(p) /\ p[2] = 0
    <3>1. Fetch = Instr("SEV", 0, 0)  BY <1>1, <2>2, FetchTail DEF AtPlace
    <3> QED  BY <3>1 DEF Instr
  <2>3. CASE AtPlace(p) /\ p[2] # 0
    <3>1. Fetch.op = "LP"  BY <1>1, <2>3, WhatRuns DEF Instr
    <3> QED  BY <3>1
  <2>4. CASE AtInner(p)
    <3>1. Fetch.op = "LP"  BY <1>1, <2>4, WhatRuns DEF Instr, AtInner
    <3> QED  BY <3>1
  <2>5. CASE AtLoad(p)
    <3>1. p[2] # 0  BY <2>5 DEF AtLoad
    <3>2. PICK h \in 0..Chunk(p[2]).cyc : mpc = InnerAt(p) + 2 + 2 * h  BY <2>5 DEF AtLoad
    <3>3. Fetch.op = "LPEND" \/ Fetch.op = "LD"  BY <1>1, <3>1, <3>2, WhatRuns DEF Instr
    <3> QED  BY <3>3
  <2>6. CASE AtStore(p)
    <3>1. Fetch.op = "ST"  BY <1>1, <2>6, WhatRuns DEF Instr, AtStore
    <3> QED  BY <2>6, <3>1
  <2>7. CASE AtOuterEnd(p)
    <3>1. Fetch.op = "LPEND"  BY <1>1, <2>7, WhatRuns DEF Instr, AtOuterEnd
    <3> QED  BY <3>1
  <2>8. CASE AtEnd(p)
    <3>1. Fetch = Instr("END", 0, 0)  BY <1>1, <2>8, FetchTail DEF AtEnd
    <3> QED  BY <2>8, <3>1 DEF Instr
  <2> QED  BY <2>1, <2>2, <2>3, <2>4, <2>5, <2>6, <2>7, <2>8 DEF InChunk
<1> QED  BY <1>1, <1>2, <1>3 DEF Runs

\* Every step of the programs and of the channel is a step of the copy they
\* promise, or none: started on a stopped channel a program copies the size asked
\* for, byte by byte, and ends when it has, also when the next calls write over it.
THEOREM TheCopyIsExact == Spec => CopyIsExact
<1>1. Init => ImplementsCopy!Init  BY DEF Init, ImplementsCopy!Init
<1>2. CopyInv /\ [Next]_vars => [ImplementsCopy!Next]_<<fb, job, stored>>
  <2> SUFFICES ASSUME CopyInv, [Next]_vars
               PROVE  ImplementsCopy!Next \/ UNCHANGED <<fb, job, stored>>
    OBVIOUS
  <2>1. FitsInv /\ EngineTypes  BY DEF CopyInv
  <2>2. PICK L \in Places : Program(L) /\ Channel(L)  BY DEF CopyInv
  <2>3. size \in Sizes  BY <2>1 DEF FitsInv
  <2>4. CASE Go
    <3>1. CASE st = "stopped"
      <4>1. job = {}  BY <2>2, <3>1 DEF Channel
      <4>2. job' = {size} /\ stored' = 0 /\ UNCHANGED fb  BY <2>4, <3>1 DEF Go
      <4>3. ImplementsCopy!Start  BY <2>3, <4>1, <4>2 DEF ImplementsCopy!Start
      <4> QED  BY <4>3 DEF ImplementsCopy!Next
    <3>2. CASE st # "stopped"  BY <2>4, <3>2 DEF Go, history
    <3> QED  BY <3>1, <3>2
  <2>5. CASE Store
    <3>1. st = "executing" /\ Fetch.op = "ST"  BY <2>5 DEF Store, Executes
    <3>2. PICK p \in L : AtStore(p)  BY <2>1, <2>2, <3>1, StorePlace
    <3>3. Complete /\ Runs(L)  BY <2>2, <3>1 DEF Channel, Runs
    <3>4. /\ stored \in Nat /\ stored < size /\ sar[1] \in Pictures
          /\ fb' = [fb EXCEPT ![stored] = <<sar[1], stored>>]
          /\ stored' = stored + 1 /\ UNCHANGED job
      BY <2>1, <2>2, <2>5, <3>2, <3>3, StoreCopies
    <3>5. job = {size} /\ (stored > 0 => fb[0] = <<sar[1], 0>>)  BY <3>3 DEF Runs
    <3>6. ImplementsCopy!CopyByte  BY <3>4, <3>5 DEF ImplementsCopy!CopyByte
    <3> QED  BY <3>6 DEF ImplementsCopy!Next
  <2>6. CASE End
    <3>1. st = "executing" /\ Fetch.op = "END"  BY <2>6 DEF End, Executes
    <3>2. PICK p \in L : AtEnd(p)  BY <2>1, <2>2, <3>1, StorePlace
    <3>3. job = {size}  BY <2>2, <3>1 DEF Channel
    <3>4. stored = size
      <4>1. size - stored = 0  BY <3>2 DEF AtEnd, Togo
      <4>2. size \in Nat /\ stored \in Nat  BY <2>1, <2>3, BufAssumption DEF EngineTypes
      <4> QED  BY <4>1, <4>2
    <3>5. job' = {} /\ UNCHANGED <<fb, stored>>  BY <2>6 DEF End
    <3>6. ImplementsCopy!Finish  BY <3>3, <3>4, <3>5 DEF ImplementsCopy!Finish
    <3> QED  BY <3>6 DEF ImplementsCopy!Next
  <2>7. CASE Call \/ EmitHead \/ EmitLoop \/ EmitTail \/ OtherCalls
    BY <2>7 DEF Call, EmitHead, EmitLoop, EmitTail, OtherCalls, engineVars, history
  <2>8. CASE Mov \/ LoopStart \/ LoopEnd \/ Load \/ SendEvent
    BY <2>8 DEF Mov, LoopStart, LoopEnd, Load, SendEvent, history
  <2>9. CASE UNCHANGED vars  BY <2>9 DEF vars, engineVars, history
  <2> QED  BY <2>4, <2>5, <2>6, <2>7, <2>8, <2>9 DEF Next, Cpu, Engine
<1> QED  BY <1>1, <1>2, CopyInit, CopyNext, PTL DEF Spec, CopyIsExact, ImplementsCopy!Spec
=============================================================================
