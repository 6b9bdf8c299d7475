-------------------------- MODULE SlideShowProofs ---------------------------
(***************************************************************************)
(* What the photo frame takes from boot.ini, for every file written as     *)
(* meant, and its memory for every boot.ini: main, which loads and draws,  *)
(* the interrupt, which starts copies, and the copies themselves keep out  *)
(* of each other's way.                                                    *)
(***************************************************************************)
EXTENDS SlideShow, TLAPS, WellFoundedInduction, SequenceTheorems

(* Counting: a set that holds 0, and with each number the next, up to a    *)
(* bound.  The recursive functions of BootIni are followed step by step    *)
(* with it.                                                                *)

Less == OpToRel(<, Nat)
LEMMA LessIsWellFounded == IsWellFoundedOn(Less, Nat)
  BY NatLessThanWellFounded DEF Less
LEMMA LessIsLess == \A x, y \in Nat : x < y => <<x, y>> \in Less
  BY DEF Less, OpToRel

LEMMA Counting ==
  ASSUME NEW N \in Nat, NEW S, 0 \in S, \A n \in 0..(N - 1) : n \in S => n + 1 \in S
  PROVE  \A n \in 0..N : n \in S
  <1> DEFINE T == (0..N) \ S
  <1>1. SUFFICES ASSUME T # {} PROVE FALSE
    OBVIOUS
  <1>2. PICK x \in T : \A y \in T : ~(<<y, x>> \in Less)
    <2>1. T \subseteq Nat
      OBVIOUS
    <2> HIDE DEF T
    <2> QED BY ONLY <1>1, <2>1, LessIsWellFounded, WFMin
  <1>3. x # 0 /\ x \in Nat /\ x - 1 \in 0..(N - 1) /\ x \in 0..N /\ x \notin S
    OBVIOUS
  <1>4. x - 1 \in S
    <2>1. <<x - 1, x>> \in Less
      BY <1>3, LessIsLess
    <2> QED BY <1>2, <1>3, <2>1
  <1> QED BY <1>3, <1>4

LEMMA ScannedIs ==
  ASSUME NEW key, NEW text, Len(text) \in Nat, NEW value
  PROVE  LET st == Scanned(key, text, value)
         IN  /\ st[0] = Begin(value)
             /\ \A k \in 1..Len(text) : st[k] = Once(key, st[k - 1], text[k])
  <1> DEFINE N == Len(text)
             F(g, n) == [k \in 0..n |-> IF k = 0 THEN Begin(value) ELSE Once(key, g[k - 1], text[k])]
             S == {n \in 0..N : \E g : g = F(g, n)}
  <1>1. 0 \in S
    <2>1. [k \in 0..0 |-> Begin(value)] = F([k \in 0..0 |-> Begin(value)], 0)
      OBVIOUS
    <2> HIDE DEF F
    <2> QED BY <2>1
  <1>2. ASSUME NEW n \in 0..(N - 1), n \in S
        PROVE  n + 1 \in S
    <2>1. PICK g : g = F(g, n)
      BY <1>2
    <2> DEFINE h == [k \in 0..(n + 1) |-> IF k <= n THEN g[k] ELSE Once(key, g[n], text[n + 1])]
    <2>2. h = F(h, n + 1)
      <3>1. ASSUME NEW k \in 0..(n + 1)
            PROVE  h[k] = IF k = 0 THEN Begin(value) ELSE Once(key, h[k - 1], text[k])
        <4>1. CASE k <= n
          <5>1. g[k] = IF k = 0 THEN Begin(value) ELSE Once(key, g[k - 1], text[k])
            BY <2>1, <4>1
          <5> QED BY <4>1, <5>1
        <4>2. CASE k = n + 1
          BY <4>2
        <4> QED BY <4>1, <4>2
      <3> QED BY <3>1
    <2> HIDE DEF h
    <2> QED BY <2>2
  <1>3. N \in S
    <2>1. \A n \in 0..(N - 1) : n \in S => n + 1 \in S
      BY <1>2
    <2>2. N \in Nat
      OBVIOUS
    <2> HIDE DEF S, N
    <2>3. \A n \in 0..N : n \in S
      BY <1>1, <2>1, <2>2, Counting
    <2> QED BY <2>2, <2>3
  <1>4. PICK g : g = F(g, N)
    BY <1>3
  <1>5. Scanned(key, text, value) = F(Scanned(key, text, value), N)
    BY <1>4 DEF Scanned
  <1> HIDE DEF F
  <1> QED BY <1>5 DEF F

-----------------------------------------------------------------------------
Token == Plain \cup Signs \cup {NUL}
Record == [state : Nat, name : Seq(Token), value : Seq(Token), v : Nat, found : BOOLEAN]
Machine == {s \in Record : s.state <= 5 /\ s.v <= Len(s.value)}

LEMMA PutIn ==
  ASSUME NEW value \in Seq(Token), NEW k \in Nat, k <= Len(value), NEW c \in Token
  PROVE  /\ PutAt(value, k, c) \in Seq(Token)
         /\ Len(PutAt(value, k, c)) > k
         /\ PutAt(value, k, c)[k + 1] = c
         /\ \A n \in 1..k : PutAt(value, k, c)[n] = value[n]
  <1> DEFINE len == IF k < Len(value) THEN Len(value) ELSE k + 1
             new == [n \in 1..len |-> IF n = k + 1 THEN c ELSE value[n]]
  <1>1. len \in Nat /\ k + 1 <= len /\ \A n \in 1..len : n = k + 1 \/ n \in 1..Len(value)
    OBVIOUS
  <1>2. \A n \in 1..Len(value) : value[n] \in Token
    OBVIOUS
  <1> HIDE DEF len
  <1>3. \A n \in 1..len : new[n] \in Token
    BY <1>1, <1>2
  <1>4. new \in Seq(Token) /\ Len(new) = len
    BY <1>1, <1>3
  <1>5. PutAt(value, k, c) = new
    BY DEF PutAt, len
  <1>6. new[k + 1] = c /\ \A n \in 1..k : new[n] = value[n]
    BY <1>1
  <1> HIDE DEF new
  <1> QED BY <1>1, <1>4, <1>5, <1>6

\* The signs differ from each other and from the words.
LEMMA SignsDiffer ==
  /\ Equals # Space /\ Equals # Newline /\ Equals # Hash
  /\ Space # Newline /\ Space # Hash /\ Newline # Hash
  /\ NUL \notin Signs
  BY DEF Signs, NUL, Equals, Space, Newline, Hash
LEMMA TokensDiffer ==
  /\ Plain \subseteq Token \ {NUL} /\ NUL \in Token
  /\ {Equals, Space, Newline, Hash} \subseteq Token \ {NUL}
  /\ Equals # Space /\ Equals # Newline /\ Equals # Hash
  /\ Space # Newline /\ Space # Hash /\ Newline # Hash
  /\ Equals \notin Plain /\ Space \notin Plain /\ Newline \notin Plain /\ Hash \notin Plain
  /\ \A c \in Token \ {NUL} : c \in Plain \/ c \in {Equals, Space, Newline, Hash}
  BY SignsDiffer DEF Plain, Token, Signs

\* What one character can do.
Goes(s, x) == [s EXCEPT !.state = x]
KeyGrows(s, c) == [s EXCEPT !.name = Append(s.name, c), !.state = 1]
ValueGrows(s, c) == [s EXCEPT !.value = PutAt(s.value, s.v, c), !.v = s.v + 1, !.state = 5]
LineEnds(s, key) == [s EXCEPT !.value = PutAt(s.value, s.v, NUL), !.state = 0, !.name = <<>>,
                              !.v = 0, !.found = s.name = <<key>>]

LEMMA CharacterIs ==
  ASSUME NEW key, NEW s \in Machine, ~s.found, NEW c \in Token \ {NUL}
  PROVE  LET next == Character(key, s, c)
         IN  /\ s.state \in {0, 1} /\ (c \in Plain \/ c = Hash) => next = KeyGrows(s, c)
             /\ s.state = 1 /\ c = Space => next = Goes(s, 2)
             /\ s.state \in {1, 2} /\ c = Equals => next = Goes(s, 3)
             /\ s.state = 3 /\ c = Space => next = Goes(s, 4)
             /\ (s.state \in {3, 4} /\ c \in Plain) \/ (s.state = 5 /\ (c \in Plain \/ c = Space)) =>
                  next = ValueGrows(s, c)
             /\ s.state = 5 /\ c = Newline => next = LineEnds(s, key)
             /\ s.state = 2 /\ c # Equals => next = s
             /\ s.state = 3 /\ (c = Equals \/ c = Hash) => next = s
             /\ s.state = 4 /\ c \notin Plain => next = s
             /\ s.state = 5 /\ (c = Equals \/ c = Hash) => next = s
  <1>1. c \in Plain <=> c \notin Signs
    BY TokensDiffer DEF Signs
  <1>2. s.state \in 0..5
    BY DEF Machine, Record
  <1>3. ~s.found
    OBVIOUS
  <1>4. [[s EXCEPT !.value = PutAt(s.value, s.v, NUL), !.state = 0, !.name = <<>>, !.v = 0]
          EXCEPT !.found = s.name = <<key>>] = LineEnds(s, key)
    BY DEF Machine, Record, LineEnds
  <1> DEFINE next == Character(key, s, c)
             k == s.state
             word == c \in Plain
  <1>5. next = CASE k \in {0, 1} /\ (c \notin Signs \/ c = Hash) -> KeyGrows(s, c)
                 [] k = 1 /\ c = Space -> Goes(s, 2)
                 [] k \in {1, 2} /\ c = Equals -> Goes(s, 3)
                 [] k = 3 /\ c = Space -> Goes(s, 4)
                 [] (k \in {3, 4} /\ c \notin Signs) \/ (k = 5 /\ (c \notin Signs \/ c = Space)) ->
                      ValueGrows(s, c)
                 [] k = 5 /\ c = Newline -> LineEnds(s, key)
                 [] OTHER -> s
    BY <1>4, Zenon DEF Character, Goes, KeyGrows, ValueGrows
  <1> HIDE DEF next
  <1> QED BY ONLY <1>1, <1>2, <1>5, TokensDiffer DEF next

LEMMA FoundStays ==
  ASSUME NEW key, NEW s, s.found, NEW c
  PROVE  Character(key, s, c) = s
  BY DEF Character

Same(next, s) ==
  next \in Machine /\ next.found = s.found /\ next.name = s.name /\ next.v = s.v /\ next.value = s.value

LEMMA Going ==
  ASSUME NEW s \in Machine, NEW x \in 0..5
  PROVE  Same(Goes(s, x), s) /\ Goes(s, x).state = x
  <1>1. /\ Goes(s, x) \in Record /\ Goes(s, x).state = x /\ Goes(s, x).found = s.found
        /\ Goes(s, x).name = s.name /\ Goes(s, x).value = s.value /\ Goes(s, x).v = s.v
    BY DEF Goes, Machine, Record
  <1> QED BY <1>1 DEF Same, Machine

LEMMA GrowingKey ==
  ASSUME NEW s \in Machine, NEW c \in Token
  PROVE  LET next == KeyGrows(s, c)
         IN  /\ next \in Machine /\ next.found = s.found /\ next.state = 1
             /\ next.name = Append(s.name, c) /\ next.v = s.v /\ next.value = s.value
  <1> DEFINE name == Append(s.name, c)
             next == KeyGrows(s, c)
  <1>1. name \in Seq(Token)
    BY DEF Machine, Record
  <1>2. next = [s EXCEPT !.name = name, !.state = 1]
    BY DEF KeyGrows
  <1> HIDE DEF name, next
  <1>3. /\ next \in Record /\ next.state = 1 /\ next.found = s.found
        /\ next.name = name /\ next.value = s.value /\ next.v = s.v
    BY <1>1, <1>2 DEF Machine, Record
  <1>4. next \in Machine
    BY <1>3 DEF Machine
  <1> QED BY <1>3, <1>4 DEF next, name

LEMMA GrowingValue ==
  ASSUME NEW s \in Machine, NEW c \in Token
  PROVE  LET next == ValueGrows(s, c)
         IN  /\ next \in Machine /\ next.found = s.found /\ next.state = 5
             /\ next.name = s.name /\ next.v = s.v + 1 /\ next.value = PutAt(s.value, s.v, c)
  <1> DEFINE value == PutAt(s.value, s.v, c)
             v == s.v + 1
             next == ValueGrows(s, c)
  <1>1. value \in Seq(Token) /\ Len(value) >= v /\ v \in Nat
    <2>1. s.value \in Seq(Token) /\ s.v \in Nat /\ s.v <= Len(s.value)
      BY DEF Machine, Record
    <2>2. value \in Seq(Token) /\ Len(value) > s.v
      BY <2>1, PutIn
    <2> QED BY <2>1, <2>2
  <1>2. next = [s EXCEPT !.value = value, !.v = v, !.state = 5]
    BY DEF ValueGrows
  <1> HIDE DEF value, v, next
  <1>3. /\ next \in Record /\ next.state = 5 /\ next.found = s.found
        /\ next.name = s.name /\ next.value = value /\ next.v = v
    BY <1>1, <1>2 DEF Machine, Record
  <1>4. next \in Machine
    BY <1>1, <1>3 DEF Machine
  <1> QED BY <1>3, <1>4 DEF next, value, v

LEMMA EndingLine ==
  ASSUME NEW s \in Machine, NEW key
  PROVE  LET next == LineEnds(s, key)
         IN  /\ next \in Machine /\ next.state = 0 /\ next.name = <<>> /\ next.v = 0
             /\ next.found = (s.name = <<key>>) /\ next.value = PutAt(s.value, s.v, NUL)
  <1> DEFINE value == PutAt(s.value, s.v, NUL)
             found == s.name = <<key>>
             next == LineEnds(s, key)
  <1>1. value \in Seq(Token) /\ <<>> \in Seq(Token)
    BY PutIn, TokensDiffer DEF Machine, Record
  <1>2. next = [s EXCEPT !.value = value, !.state = 0, !.name = <<>>, !.v = 0, !.found = found]
    BY DEF LineEnds
  <1>3. found \in BOOLEAN
    OBVIOUS
  <1> HIDE DEF value, found, next
  <1>4. /\ next \in Record /\ next.state = 0 /\ next.found = found
        /\ next.name = <<>> /\ next.value = value /\ next.v = 0
    BY <1>1, <1>2, <1>3 DEF Machine, Record
  <1>5. next \in Machine
    BY <1>1, <1>4 DEF Machine
  <1> QED BY <1>4, <1>5 DEF next, value, found

-----------------------------------------------------------------------------
LEMMA Dividing ==
  ASSUME NEW w \in Nat \ {0}, NEW N \in Nat \ {0}, NEW m \in Nat
  PROVE  /\ m \div w \in Nat /\ m % w \in 0..(w - 1) /\ m = w * (m \div w) + (m % w)
         /\ m <= (N - 1) * w => m \div w \in 0..(N - 1)
         /\ N - 1 \in Nat /\ (N - 1) * w \in Nat
  <1> DEFINE q == m \div w
             r == m % w
  <1>1. q \in Nat /\ r \in 0..(w - 1) /\ m = w * q + r
    OBVIOUS
  <1> HIDE DEF q, r
  <1>2. ASSUME m <= (N - 1) * w, q >= N PROVE FALSE
    <2>1. w * q >= w * N
      BY ONLY w \in Nat, <1>1, N \in Nat, <1>2
    <2>2. (N - 1) * w = w * N - w
      OBVIOUS
    <2> QED BY <1>1, <1>2, <2>1, <2>2
  <1>3. N - 1 \in Nat /\ (N - 1) * w \in Nat
    OBVIOUS
  <1> QED BY <1>1, <1>2, <1>3 DEF q, r

LEMMA LineIs ==
  ASSUME NEW line \in IniLine
  PROVE  /\ line.comment \in Seq(Plain \cup {Equals, Space, Hash}) /\ line.key \in Plain
         /\ line.eq \in Seq({Space, Equals}) /\ line.gap \in Seq({Space})
         /\ line.names \in Seq(Plain)
         /\ line.comment = <<>> \/ line.comment[1] = Hash
         /\ \E k \in DOMAIN line.eq : \A j \in DOMAIN line.eq : line.eq[j] = Equals <=> j = k
         /\ line.names # <<>>
         /\ line.gap # <<>> \/ Len(line.names) = 1
  BY DEF IniLine

LEMMA SpreadIs ==
  ASSUME NEW names \in Seq(Plain), names # <<>>, NEW gap \in Seq({Space})
  PROVE  LET s == Spread(names, gap)
             w == Len(gap) + 1
             N == Len(names)
         IN  /\ s \in Seq(Token) /\ Len(s) = (N - 1) * w + 1 /\ Len(s) \in Nat \ {0}
             /\ w \in Nat \ {0} /\ N \in Nat \ {0} /\ s[1] \in Plain
             /\ \A m \in 1..Len(s) :
                  IF (m - 1) % w = 0
                  THEN s[m] = names[((m - 1) \div w) + 1] /\ s[m] \in Plain
                  ELSE s[m] = Space
  <1> DEFINE s == Spread(names, gap)
             w == Len(gap) + 1
             N == Len(names)
             L == (N - 1) * w + 1
  <1>1. w \in Nat \ {0} /\ N \in Nat \ {0}
    OBVIOUS
  <1>2. L \in Nat \ {0}
    BY <1>1, Dividing
  <1>3. s = [m \in 1..L |-> IF (m - 1) % w = 0 THEN names[((m - 1) \div w) + 1]
                                                ELSE gap[(m - 1) % w]]
    BY DEF Spread
  <1>4. /\ \A k \in 1..N : names[k] \in Plain
        /\ \A k \in 1..(w - 1) : gap[k] = Space
    OBVIOUS
  <1> HIDE DEF s, w, N
  <1>5. ASSUME NEW m \in 1..L
        PROVE  IF (m - 1) % w = 0
               THEN s[m] = names[((m - 1) \div w) + 1] /\ s[m] \in Plain
               ELSE s[m] = Space
    <2>1. m - 1 \in Nat /\ m - 1 <= (N - 1) * w
      BY <1>1, <1>2
    <2>2. (m - 1) % w \in 0..(w - 1) /\ (m - 1) \div w \in 0..(N - 1)
      BY <1>1, <2>1, Dividing
    <2> HIDE DEF L
    <2> QED BY <1>1, <1>3, <1>4, <2>2
  <1>6. s \in Seq(Token) /\ Len(s) = L
    <2> HIDE DEF L
    <2>1. \A m \in 1..L : s[m] \in Token
      BY <1>5, TokensDiffer
    <2> QED BY <1>2, <1>3, <2>1
  <1>7. s[1] \in Plain
    <2>1. 1 \in 1..L /\ (1 - 1) % w = 0
      BY <1>1, <1>2
    <2> QED BY <1>5, <2>1
  <1> HIDE DEF L
  <1> QED BY <1>1, <1>2, <1>5, <1>6, <1>7 DEF s, w, N, L

LEMMA Joined ==
  ASSUME NEW s \in Seq(Token), NEW t \in Seq(Token), NEW n, NEW e, n = Len(s), e = n + Len(t)
  PROVE  /\ s \o t \in Seq(Token) /\ Len(s \o t) = e
         /\ \A k \in 1..n : (s \o t)[k] = s[k]
         /\ \A k \in (n + 1)..e : (s \o t)[k] = t[k - n]
  OBVIOUS

\* Where the parts of a line are in its text: the "=", the end of the space around
\* it, and the end of the line.
Mark(line) == CHOOSE k \in DOMAIN line.eq : \A j \in DOMAIN line.eq : line.eq[j] = Equals <=> j = k
Names(line) == Spread(line.names, line.gap)
KeyAt(line) == Len(line.comment) + 1
EqualsAt(line) == KeyAt(line) + Mark(line)
NamesAt(line) == KeyAt(line) + Len(line.eq)
EndAt(line) == NamesAt(line) + Len(Names(line)) + 1

LEMMA LineParts ==
  ASSUME NEW line \in IniLine
  PROVE  LET t == LineText(line)
             n == KeyAt(line)
             q == EqualsAt(line)
             f == NamesAt(line)
             e == EndAt(line)
         IN  /\ t \in Seq(Token) /\ Len(t) = e
             /\ n \in Nat \ {0} /\ q \in (n + 1)..f /\ f \in Nat /\ e \in Nat /\ f + 2 <= e
             /\ Len(line.comment) = n - 1 /\ Len(Names(line)) = e - f - 1
             /\ \A m \in 1..(n - 1) : t[m] = line.comment[m] /\ t[m] \in Plain \cup {Equals, Space, Hash}
             /\ t[n] = line.key
             /\ \A m \in (n + 1)..f : m # q => t[m] = Space
             /\ t[q] = Equals
             /\ \A m \in (f + 1)..(e - 1) : t[m] = Names(line)[m - f] /\ t[m] \in Plain \cup {Space}
             /\ t[f + 1] \in Plain
             /\ t[e] = Newline
  <1> DEFINE t == LineText(line)
             n == KeyAt(line)
             q == EqualsAt(line)
             f == NamesAt(line)
             e == EndAt(line)
             c == line.comment
             k == line.key
             a == line.eq
             S == Names(line)
  <1>1. /\ c \in Seq(Plain \cup {Equals, Space, Hash}) /\ k \in Plain /\ a \in Seq({Space, Equals})
        /\ c \in Seq(Token) /\ a \in Seq(Token) /\ k \in Token /\ Newline \in Token
    BY LineIs, TokensDiffer
  <1>2. /\ S \in Seq(Token) /\ Len(S) \in Nat \ {0} /\ S[1] \in Plain
        /\ \A m \in 1..Len(S) : S[m] \in Plain \cup {Space}
    BY LineIs, SpreadIs DEF Names
  <1>3. Mark(line) \in 1..Len(a) /\ \A j \in 1..Len(a) : a[j] = Equals <=> j = Mark(line)
    <2>1. /\ DOMAIN line.eq = 1..Len(line.eq)
          /\ \E j \in DOMAIN line.eq : \A x \in DOMAIN line.eq : line.eq[x] = Equals <=> x = j
      BY LineIs
    <2> QED BY ONLY <2>1 DEF Mark
  <1>4. t = c \o <<k>> \o a \o S \o <<Newline>>
    BY DEF LineText, Names
  <1>5. /\ n = Len(c) + 1 /\ q = n + Mark(line) /\ f = n + Len(a) /\ e = f + Len(S) + 1
    BY DEF KeyAt, EqualsAt, NamesAt, EndAt
  <1> HIDE DEF t, n, q, f, e, c, k, a, S
  <1>6. /\ Len(c) \in Nat /\ Len(a) \in Nat
        /\ n \in Nat \ {0} /\ q \in (n + 1)..f /\ f \in Nat /\ e \in Nat /\ f + 2 <= e
        /\ Len(c) = n - 1 /\ Len(S) = e - f - 1
    BY <1>1, <1>2, <1>3, <1>5
  <1>7. /\ c \o <<k>> \in Seq(Token) /\ Len(c \o <<k>>) = n
        /\ \A m \in 1..(n - 1) : (c \o <<k>>)[m] = c[m]
        /\ (c \o <<k>>)[n] = k
    BY <1>1, <1>5, <1>6
  <1> DEFINE u == c \o <<k>>
             v == u \o a
             w == v \o S
  <1>8. /\ v \in Seq(Token) /\ Len(v) = f
        /\ \A m \in 1..n : v[m] = u[m]
        /\ \A m \in (n + 1)..f : v[m] = a[m - n]
    <2> HIDE DEF u
    <2> QED BY <1>1, <1>5, <1>6, <1>7 DEF u
  <1>9. /\ w \in Seq(Token) /\ Len(w) = e - 1
        /\ \A m \in 1..f : w[m] = v[m]
        /\ \A m \in (f + 1)..(e - 1) : w[m] = S[m - f]
    <2>1. e - 1 = f + Len(S)
      BY <1>2, <1>6, <1>8
    <2> HIDE DEF v
    <2> QED BY ONLY <1>2, <1>8, <2>1, Joined
  <1>10. /\ t \in Seq(Token) /\ Len(t) = e
         /\ \A m \in 1..(e - 1) : t[m] = w[m]
         /\ t[e] = Newline
    <2> DEFINE x == <<Newline>>
    <2>1. x \in Seq(Token)
      BY <1>1
    <2>2. Len(x) = 1 /\ x[1] = Newline
      OBVIOUS
    <2>3. t = w \o x
      BY <1>4
    <2> HIDE DEF w, x
    <2> DEFINE d == e - 1
    <2>4. d = Len(w) /\ w \in Seq(Token) /\ e = d + Len(x)
      BY <1>6, <1>9, <2>2
    <2>5. d \in Nat /\ e \in (d + 1)..e /\ e - d = 1
      BY <1>6
    <2> HIDE DEF d
    <2>7. /\ t \in Seq(Token) /\ Len(t) = e
          /\ \A m \in 1..d : t[m] = w[m]
          /\ \A m \in (d + 1)..e : t[m] = x[m - d]
      <3>1. t \in Seq(Token)
        BY ONLY <2>1, <2>3, <2>4, Joined
      <3>2. Len(t) = e
        BY ONLY <2>1, <2>3, <2>4, Joined
      <3>3. \A m \in 1..d : t[m] = w[m]
        BY ONLY <2>1, <2>3, <2>4, Joined
      <3>4. \A m \in (d + 1)..e : t[m] = x[m - d]
        BY ONLY <2>1, <2>3, <2>4, Joined
      <3> QED BY <3>1, <3>2, <3>3, <3>4
    <2>6. t[e] = Newline
      BY ONLY <2>2, <2>5, <2>7
    <2> QED BY <2>6, <2>7 DEF d
  <1> HIDE DEF u, v, w
  <1>11. \A m \in 1..n : t[m] = u[m]
    <2> TAKE m \in 1..n
    <2>1. m \in 1..f /\ m \in 1..(e - 1)
      BY <1>6
    <2> QED BY <1>8, <1>9, <1>10, <2>1
  <1>12. \A m \in 1..(n - 1) : t[m] = c[m] /\ t[m] \in Plain \cup {Equals, Space, Hash}
    <2>1. \A m \in 1..(n - 1) : c[m] \in Plain \cup {Equals, Space, Hash}
      BY <1>1, <1>6
    <2> QED BY <1>6, <1>7, <1>11, <2>1 DEF u
  <1>13. t[n] = k
    BY <1>6, <1>7, <1>11 DEF u
  <1>14. \A m \in (n + 1)..f : t[m] = a[m - n]
    <2> TAKE m \in (n + 1)..f
    <2>1. m \in 1..f /\ m \in 1..(e - 1)
      BY <1>6
    <2> QED BY <1>8, <1>9, <1>10, <2>1
  <1>15. \A m \in (n + 1)..f : m # q => t[m] = Space
    <2> TAKE m \in (n + 1)..f
    <2>1. m - n \in 1..Len(a)
      BY <1>5, <1>6
    <2>2. a[m - n] \in {Space, Equals}
      BY <1>1, <2>1
    <2>3. m # q => m - n # Mark(line)
      BY <1>3, <1>5, <1>6
    <2>4. m # q => a[m - n] # Equals
      BY <1>3, <2>1, <2>3
    <2> QED BY <1>14, <2>2, <2>4
  <1>16. t[q] = Equals
    <2>1. q - n = Mark(line) /\ q - n \in 1..Len(a)
      BY <1>3, <1>5, <1>6
    <2>2. a[q - n] = Equals
      BY <1>3, <2>1
    <2> QED BY <1>6, <1>14, <2>2
  <1>17. \A m \in (f + 1)..(e - 1) : t[m] = S[m - f] /\ t[m] \in Plain \cup {Space}
    <2> TAKE m \in (f + 1)..(e - 1)
    <2>1. m - f \in 1..Len(S) /\ m \in 1..(e - 1)
      BY <1>6
    <2> QED BY <1>2, <1>9, <1>10, <2>1
  <1>18. t[f + 1] \in Plain
    <2>1. f + 1 \in (f + 1)..(e - 1) /\ (f + 1) - f = 1
      BY <1>6
    <2> QED BY <1>2, <1>17, <2>1
  <1> QED BY <1>6, <1>10, <1>12, <1>13, <1>15, <1>16, <1>17, <1>18 DEF t, n, q, f, e, c, k, a, S

LEMMA Appended ==
  ASSUME NEW set, NEW s \in Seq(set), NEW c \in set
  PROVE  /\ Append(s, c) # <<>>
         /\ s = <<>> => Append(s, c) = <<c>>
         /\ s # <<>> => Append(s, c)[1] = s[1]
  <1>1. Len(Append(s, c)) = Len(s) + 1 /\ Len(s) \in Nat
    OBVIOUS
  <1>2. Append(s, c) # <<>>
    BY <1>1
  <1>3. s = <<>> => Append(s, c) = <<c>>
    OBVIOUS
  <1>4. s # <<>> => Append(s, c)[1] = s[1]
    OBVIOUS
  <1> QED BY <1>2, <1>3, <1>4

\* What the machine does with a token, one by one.
KeyTaken(next, s, c) ==
  /\ next \in Machine /\ ~next.found /\ next.state = 1
  /\ next.v = s.v /\ next.value = s.value /\ next.name # <<>>
  /\ s.name = <<>> => next.name = <<c>>
  /\ s.name # <<>> => next.name[1] = s.name[1]
LEMMA KeyToken ==
  ASSUME NEW key, NEW s \in Machine, ~s.found, NEW c \in Token \ {NUL},
         s.state = 0 \/ s.state = 1, c \in Plain \/ c = Hash, NEW next, next = Character(key, s, c)
  PROVE  KeyTaken(next, s, c)
  <1>1. next = KeyGrows(s, c)
    BY CharacterIs
  <1>2. /\ KeyGrows(s, c) \in Machine /\ KeyGrows(s, c).found = s.found /\ KeyGrows(s, c).state = 1
        /\ KeyGrows(s, c).name = Append(s.name, c) /\ KeyGrows(s, c).v = s.v
        /\ KeyGrows(s, c).value = s.value
    BY c \in Token, GrowingKey
  <1> DEFINE name == s.name
  <1>3. name \in Seq(Token) /\ c \in Token
    BY DEF Machine, Record
  <1> HIDE DEF name
  <1>4. /\ Append(name, c) # <<>>
        /\ name = <<>> => Append(name, c) = <<c>>
        /\ name # <<>> => Append(name, c)[1] = name[1]
    BY <1>3, Appended
  <1> QED BY ONLY <1>1, <1>2, <1>4, ~s.found DEF name, KeyTaken
LEMMA SpaceToken ==
  ASSUME NEW key, NEW s \in Machine, ~s.found, s.state \in 1..4, NEW next,
         next = Character(key, s, Space)
  PROVE  Same(next, s) /\ next.state = IF s.state <= 2 THEN 2 ELSE 4
  <1>1. Space \in Token \ {NUL} /\ Space \notin Plain /\ Space # Equals
    BY TokensDiffer
  <1>2. s.state = 1 => next = Goes(s, 2)
    BY <1>1, CharacterIs
  <1>3. s.state = 3 => next = Goes(s, 4)
    BY <1>1, CharacterIs
  <1>4. s.state \in {2, 4} => next = s
    BY <1>1, CharacterIs
  <1>5. Same(s, s) /\ (s.state \in {1, 2} \/ s.state \in {3, 4})
    BY DEF Same
  <1> QED BY <1>2, <1>3, <1>4, <1>5, Going
LEMMA EqualsToken ==
  ASSUME NEW key, NEW s \in Machine, ~s.found, s.state \in {1, 2}, NEW next,
         next = Character(key, s, Equals)
  PROVE  Same(next, s) /\ next.state = 3
  <1>1. Equals \in Token \ {NUL}
    BY TokensDiffer
  <1>2. next = Goes(s, 3)
    BY <1>1, CharacterIs
  <1> QED BY <1>2, Going
ValueTaken(next, s, c) ==
  /\ next \in Machine /\ ~next.found /\ next.state = 5
  /\ next.name = s.name /\ next.v = s.v + 1
  /\ Len(next.value) > s.v /\ next.value[s.v + 1] = c
  /\ \A j \in 1..s.v : next.value[j] = s.value[j]
LEMMA ValueToken ==
  ASSUME NEW key, NEW s \in Machine, ~s.found, NEW c \in Token \ {NUL}, NEW next,
         (s.state \in {3, 4} /\ c \in Plain) \/ (s.state = 5 /\ (c \in Plain \/ c = Space)),
         next = Character(key, s, c)
  PROVE  ValueTaken(next, s, c)
  <1>1. next = ValueGrows(s, c)
    BY CharacterIs
  <1>2. /\ ValueGrows(s, c) \in Machine /\ ValueGrows(s, c).found = s.found
        /\ ValueGrows(s, c).state = 5 /\ ValueGrows(s, c).name = s.name
        /\ ValueGrows(s, c).v = s.v + 1 /\ ValueGrows(s, c).value = PutAt(s.value, s.v, c)
    BY c \in Token, GrowingValue
  <1> DEFINE value == s.value
             v == s.v
  <1>3. value \in Seq(Token) /\ v \in Nat /\ v <= Len(value) /\ c \in Token
    BY DEF Machine, Record
  <1> HIDE DEF value, v
  <1>4. /\ Len(PutAt(value, v, c)) > v /\ PutAt(value, v, c)[v + 1] = c
        /\ \A j \in 1..v : PutAt(value, v, c)[j] = value[j]
    BY <1>3, PutIn
  <1> QED BY <1>1, <1>2, <1>4 DEF value, v, ValueTaken
LineTaken(next, s, key) ==
  /\ next \in Machine /\ next.state = 0 /\ next.name = <<>> /\ next.v = 0
  /\ next.found <=> s.name = <<key>>
  /\ Len(next.value) > s.v /\ next.value[s.v + 1] = NUL
  /\ \A j \in 1..s.v : next.value[j] = s.value[j]
LEMMA NewlineToken ==
  ASSUME NEW key, NEW s \in Machine, ~s.found, s.state = 5, NEW next,
         next = Character(key, s, Newline)
  PROVE  LineTaken(next, s, key)
  <1>1. Newline \in Token \ {NUL} /\ NUL \in Token
    BY TokensDiffer
  <1>2. next = LineEnds(s, key)
    BY <1>1, CharacterIs
  <1>3. /\ LineEnds(s, key) \in Machine /\ LineEnds(s, key).state = 0
        /\ LineEnds(s, key).name = <<>> /\ LineEnds(s, key).v = 0
        /\ LineEnds(s, key).found = (s.name = <<key>>)
        /\ LineEnds(s, key).value = PutAt(s.value, s.v, NUL)
    BY EndingLine
  <1> DEFINE value == s.value
             v == s.v
  <1>4. value \in Seq(Token) /\ v \in Nat /\ v <= Len(value)
    BY DEF Machine, Record
  <1> HIDE DEF value, v
  <1>5. /\ Len(PutAt(value, v, NUL)) > v /\ PutAt(value, v, NUL)[v + 1] = NUL
        /\ \A j \in 1..v : PutAt(value, v, NUL)[j] = value[j]
    BY <1>1, <1>4, PutIn
  <1> QED BY <1>2, <1>3, <1>5 DEF value, v, LineTaken
LEMMA IdleToken ==
  ASSUME NEW key, NEW s \in Machine, ~s.found, NEW c \in Token \ {NUL}, NEW next,
         (s.state = 2 /\ c # Equals) \/ (s.state \in {3, 5} /\ (c = Equals \/ c = Hash))
         \/ (s.state = 4 /\ c \notin Plain),
         next = Character(key, s, c)
  PROVE  Same(next, s) /\ next.state = s.state
  <1>1. next = s
    BY CharacterIs
  <1> QED BY <1>1 DEF Same

-----------------------------------------------------------------------------
Ready(s) == s \in Machine /\ ~s.found /\ s.state = 0 /\ s.name = <<>> /\ s.v = 0

\* The machine after m tokens, m > 0, of a line for key: "=" is its token q, the names S
\* begin after token f.
InLine(key, q, f, S, m, s) ==
  /\ s \in Machine /\ ~s.found /\ s.name = <<key>>
  /\ \/ m \in 1..(q - 1) /\ s.state \in {1, 2} /\ s.v = 0
     \/ m \in q..f /\ s.state \in {3, 4} /\ s.v = 0
     \/ m > f /\ s.state = 5 /\ s.v = m - f /\ \A j \in 1..(m - f) : s.value[j] = S[j]

LEMMA InLineStep ==
  ASSUME NEW k, NEW key, NEW f \in Nat, NEW q \in 2..f, NEW S, NEW m \in Nat \ {0},
         NEW s, InLine(k, q, f, S, m, s), NEW c \in Token \ {NUL},
         m + 1 = q => c = Equals,
         m + 1 <= f /\ m + 1 # q => c = Space,
         m >= f => c = S[m + 1 - f] /\ c \in Plain \cup {Space},
         m = f => c \in Plain,
         NEW next, next = Character(key, s, c)
  PROVE  InLine(k, q, f, S, m + 1, next)
  <1>1. s \in Machine /\ ~s.found /\ s.name = <<k>>
    BY DEF InLine
  <1>2. CASE m \in 1..(q - 1)
    <2>1. s.state \in {1, 2} /\ s.v = 0
      BY <1>2 DEF InLine
    <2>2. CASE m + 1 = q
      <3>1. Same(next, s) /\ next.state = 3
        BY <1>1, <2>1, <2>2, EqualsToken
      <3> QED BY <1>1, <1>2, <2>1, <2>2, <3>1 DEF Same, InLine
    <2>3. CASE m + 1 # q
      <3>1. Same(next, s) /\ next.state = 2
        BY <1>1, <1>2, <2>1, <2>3, SpaceToken
      <3> QED BY <1>1, <1>2, <2>1, <2>3, <3>1 DEF Same, InLine
    <2> QED BY <2>2, <2>3
  <1>3. CASE m \in q..(f - 1)
    <2>1. s.state \in {3, 4} /\ s.v = 0
      BY <1>3 DEF InLine
    <2>2. Same(next, s) /\ next.state = 4
      BY <1>1, <1>3, <2>1, SpaceToken
    <2> QED BY <1>1, <1>3, <2>1, <2>2 DEF Same, InLine
  <1>4. CASE m >= f
    <2>1. /\ m = f => s.state \in {3, 4}
          /\ m > f => s.state = 5
          /\ s.v = m - f /\ \A j \in 1..(m - f) : s.value[j] = S[j]
      BY <1>4 DEF InLine
    <2>2. (s.state \in {3, 4} /\ c \in Plain) \/ (s.state = 5 /\ (c \in Plain \/ c = Space))
      BY <1>4, <2>1
    <2>3. /\ next \in Machine /\ ~next.found /\ next.state = 5
          /\ next.name = s.name /\ next.v = s.v + 1
          /\ next.value[s.v + 1] = c /\ \A j \in 1..s.v : next.value[j] = s.value[j]
      BY <1>1, <2>2, ValueToken DEF ValueTaken
    <2>4. ASSUME NEW j \in 1..(m + 1 - f) PROVE next.value[j] = S[j]
      <3>1. j = s.v + 1 \/ j \in 1..(m - f)
        BY <1>4, <2>1
      <3>2. j \in 1..(m - f) => j \in 1..s.v /\ s.value[j] = S[j]
        BY <2>1
      <3>3. j = s.v + 1 => c = S[j]
        BY <1>4, <2>1
      <3> QED BY <2>3, <3>1, <3>2, <3>3
    <2>5. next.v = m + 1 - f /\ m + 1 > f
      BY <1>4, <2>1, <2>3
    <2> QED BY <1>1, <2>3, <2>4, <2>5 DEF InLine
  <1> QED BY <1>2, <1>3, <1>4

\* The machine after the first line for its key.
Answers(S, s) ==
  /\ s \in Machine /\ s.found /\ Len(s.value) > Len(S)
  /\ s.value[Len(S) + 1] = NUL
  /\ \A j \in 1..Len(S) : s.value[j] = S[j]

LEMMA LineEndStep ==
  ASSUME NEW k, NEW key, NEW f \in Nat, NEW q \in 2..f, NEW S, NEW m \in Nat,
         m > f, Len(S) = m - f,
         NEW s, InLine(k, q, f, S, m, s), NEW next, next = Character(key, s, Newline)
  PROVE  IF k = key THEN Answers(S, next) ELSE Ready(next)
  <1>1. /\ s \in Machine /\ ~s.found /\ s.name = <<k>> /\ s.state = 5 /\ s.v = m - f
        /\ \A j \in 1..(m - f) : s.value[j] = S[j]
    BY DEF InLine
  <1>2. /\ next \in Machine /\ next.state = 0 /\ next.name = <<>> /\ next.v = 0
        /\ next.found <=> s.name = <<key>>
        /\ Len(next.value) > s.v /\ next.value[s.v + 1] = NUL
        /\ \A j \in 1..s.v : next.value[j] = s.value[j]
    <2>1. LineTaken(next, s, key)
      BY ONLY <1>1, next = Character(key, s, Newline), NewlineToken
    <2> QED BY <2>1 DEF LineTaken
  <1>3. next.found <=> k = key
    BY <1>1, <1>2
  <1>4. CASE k = key
    <2>1. s.v = Len(S)
      BY <1>1
    <2>2. \A j \in 1..Len(S) : next.value[j] = S[j]
      BY <1>1, <1>2
    <2> QED BY <1>2, <1>3, <1>4, <2>1, <2>2 DEF Answers
  <1>5. CASE k # key
    BY <1>2, <1>3, <1>5 DEF Ready
  <1> QED BY <1>4, <1>5

\* The machine after m tokens, m > 0, of a line commented out.
InComment(q, f, m, s) ==
  /\ s \in Machine /\ ~s.found /\ s.name # <<>> /\ s.name[1] = Hash /\ s.state >= 1
  /\ m >= q => s.state >= 3
  /\ m > f => s.state = 5

LEMMA InCommentStep ==
  ASSUME NEW key, NEW f \in Nat, NEW q \in 1..f, NEW m \in Nat \ {0},
         NEW s, InComment(q, f, m, s), NEW c \in Token \ {NUL}, c # Newline,
         m + 1 = q => c = Equals,
         m = f => c \in Plain,
         NEW next, next = Character(key, s, c)
  PROVE  InComment(q, f, m + 1, next)
  <1>1. s \in Machine /\ ~s.found /\ s.state \in 1..5 /\ s.name \in Seq(Token) /\ c \in Token
    BY DEF InComment, Machine, Record
  <1>2. (c \in Plain \/ c \in {Equals, Space, Hash}) /\ Equals \notin Plain /\ Equals # Space
        /\ Equals # Hash
    BY TokensDiffer
  <1>3. /\ s.name # <<>> /\ s.name[1] = Hash
        /\ m >= q => s.state >= 3
        /\ m > f => s.state = 5
    BY DEF InComment
  <1>5. CASE s.state = 1 /\ (c \in Plain \/ c = Hash)
    <2>1. /\ next \in Machine /\ ~next.found /\ next.state = 1
          /\ next.name # <<>> /\ next.name[1] = s.name[1]
      <3>1. s.state = 1 /\ s.name # <<>> /\ (c \in Plain \/ c = Hash) /\ c \in Token \ {NUL}
            /\ s \in Machine /\ ~s.found /\ next = Character(key, s, c)
        BY <1>1, <1>3, <1>5
      <3>2. KeyTaken(next, s, c)
        BY ONLY <3>1, KeyToken
      <3> QED BY <3>1, <3>2 DEF KeyTaken
    <2>2. m < q /\ m + 1 # q
      BY <1>2, <1>3, <1>5
    <2> QED BY <1>3, <2>1, <2>2 DEF InComment
  <1>6. CASE s.state \in {1, 2} /\ c = Space
    <2>1. Same(next, s) /\ next.state = 2
      BY <1>1, <1>6, SpaceToken
    <2>2. m < q /\ m + 1 # q
      BY <1>2, <1>3, <1>6
    <2> QED BY <1>1, <1>3, <2>1, <2>2 DEF InComment, Same
  <1>7. CASE s.state \in {1, 2} /\ c = Equals
    <2>1. Same(next, s) /\ next.state = 3
      BY <1>1, <1>7, EqualsToken
    <2>2. m < q
      BY <1>3, <1>7
    <2> QED BY <1>1, <1>3, <2>1, <2>2 DEF InComment, Same
  <1>8. CASE s.state = 2 /\ (c \in Plain \/ c = Hash)
    <2>1. Same(next, s) /\ next.state = 2
      BY <1>1, <1>2, <1>8, IdleToken
    <2>2. m < q /\ m + 1 # q
      BY <1>2, <1>3, <1>8
    <2> QED BY <1>1, <1>3, <2>1, <2>2 DEF InComment, Same
  <1>9. CASE s.state \in {3, 4, 5} /\ c \in Plain
    <2>1. next \in Machine /\ ~next.found /\ next.state = 5 /\ next.name = s.name
      BY <1>1, <1>9, ValueToken DEF ValueTaken
    <2> QED BY <1>3, <2>1 DEF InComment
  <1>10. CASE s.state \in {3, 4, 5} /\ c \notin Plain
    <2>1. next \in Machine /\ ~next.found /\ next.name = s.name
          /\ next.state \in {3, 4, 5} /\ (s.state = 5 => next.state = 5)
      <3>1. s.state \in {3, 4} /\ c = Space => Same(next, s) /\ next.state = 4
        BY <1>1, SpaceToken
      <3>2. s.state = 5 /\ c = Space =>
              next \in Machine /\ ~next.found /\ next.state = 5 /\ next.name = s.name
        BY <1>1, ValueToken DEF ValueTaken
      <3>3. c = Equals \/ c = Hash => Same(next, s) /\ next.state = s.state
        <4>1. s.state = 4 => c \notin Plain
          BY <1>10
        <4> QED BY <1>1, <1>10, <4>1, IdleToken
      <3> QED BY <1>1, <1>2, <1>10, <3>1, <3>2, <3>3 DEF Same
    <2>2. m # f
      BY <1>10
    <2> QED BY <1>3, <2>1, <2>2 DEF InComment
  <1> QED BY <1>1, <1>2, <1>5, <1>6, <1>7, <1>8, <1>9, <1>10

LEMMA CommentEndStep ==
  ASSUME NEW key \in Plain, NEW f \in Nat, NEW q \in 1..f, NEW m \in Nat, m > f,
         NEW s, InComment(q, f, m, s), NEW next, next = Character(key, s, Newline)
  PROVE  Ready(next)
  <1>1. s \in Machine /\ ~s.found /\ s.state = 5 /\ s.name # <<>> /\ s.name[1] = Hash
    BY DEF InComment
  <1>2. Hash \notin Plain
    BY TokensDiffer
  <1>3. /\ next \in Machine /\ next.state = 0 /\ next.name = <<>> /\ next.v = 0
        /\ next.found <=> s.name = <<key>>
    <2>1. LineTaken(next, s, key)
      BY ONLY <1>1, next = Character(key, s, Newline), NewlineToken
    <2> QED BY <2>1 DEF LineTaken
  <1>4. s.name # <<key>>
    BY <1>1, <1>2
  <1> QED BY <1>3, <1>4 DEF Ready

LEMMA LineTokens ==
  ASSUME NEW line \in IniLine, NEW m \in 1..(EndAt(line) - 1)
  PROVE  LineText(line)[m] \in Token \ {NUL} /\ LineText(line)[m] # Newline
  <1> DEFINE t == LineText(line)
             n == KeyAt(line)
             q == EqualsAt(line)
             f == NamesAt(line)
             e == EndAt(line)
  <1>1. /\ n \in Nat \ {0} /\ q \in (n + 1)..f /\ f \in Nat /\ e \in Nat /\ f + 2 <= e
        /\ \A k \in 1..(n - 1) : t[k] \in Plain \cup {Equals, Space, Hash}
        /\ t[n] \in Plain
        /\ \A k \in (n + 1)..f : k # q => t[k] = Space
        /\ t[q] = Equals
        /\ \A k \in (f + 1)..(e - 1) : t[k] \in Plain \cup {Space}
    BY LineParts, LineIs
  <1> HIDE DEF t, n, q, f, e
  <1>2. m \in 1..(n - 1) \/ m = n \/ m \in (n + 1)..f \/ m \in (f + 1)..(e - 1)
    BY <1>1 DEF e
  <1>3. t[m] \in Plain \cup {Equals, Space, Hash}
    BY <1>1, <1>2
  <1> QED BY <1>3, TokensDiffer DEF t

\* One line read to its end.
LEMMA PlainLineRuns ==
  ASSUME NEW line \in IniLine, line.comment = <<>>, NEW key, NEW from \in Nat, NEW r,
         Ready(r[from]),
         \A k \in 1..EndAt(line) : r[from + k] = Character(key, r[from + k - 1], LineText(line)[k])
  PROVE  IF line.key = key THEN Answers(Names(line), r[from + EndAt(line)])
                           ELSE Ready(r[from + EndAt(line)])
  <1> DEFINE t == LineText(line)
             q == EqualsAt(line)
             f == NamesAt(line)
             e == EndAt(line)
             S == Names(line)
             k == line.key
             Good == {m \in 0..(e - 2) : InLine(k, q, f, S, m + 1, r[from + m + 1])}
  <1>1. /\ q \in 2..f /\ f \in Nat /\ e \in Nat /\ f + 2 <= e /\ Len(S) = e - f - 1
        /\ t[1] = k /\ k \in Plain
        /\ \A m \in 2..f : m # q => t[m] = Space
        /\ t[q] = Equals
        /\ \A m \in (f + 1)..(e - 1) : t[m] = S[m - f] /\ t[m] \in Plain \cup {Space}
        /\ t[f + 1] \in Plain
        /\ t[e] = Newline
    <2> DEFINE n == KeyAt(line)
    <2>1. n = 1
      BY DEF KeyAt
    <2> HIDE DEF t, q, f, e, S, n, k
    <2>2. /\ q \in (n + 1)..f /\ f \in Nat /\ e \in Nat /\ f + 2 <= e /\ Len(S) = e - f - 1
          /\ t[n] = k
          /\ \A m \in (n + 1)..f : m # q => t[m] = Space
          /\ t[q] = Equals
          /\ \A m \in (f + 1)..(e - 1) : t[m] = S[m - f] /\ t[m] \in Plain \cup {Space}
          /\ t[f + 1] \in Plain
          /\ t[e] = Newline
      BY LineParts DEF t, q, f, e, S, n, k
    <2> QED BY <2>1, <2>2, LineIs DEF k
  <1>2. \A m \in 1..(e - 1) : t[m] \in Token \ {NUL}
    BY LineTokens
  <1>3. \A m \in 1..e : r[from + m] = Character(key, r[from + m - 1], t[m])
    OBVIOUS
  <1>4. /\ r[from] \in Machine /\ ~r[from].found /\ r[from].state = 0 /\ r[from].name = <<>>
        /\ r[from].v = 0
    BY DEF Ready
  <1> HIDE DEF t, q, f, e, S, k
  <1>5. 0 \in Good
    <2> DEFINE s == r[from]
               next == r[from + 1]
    <2>1. next = Character(key, s, k)
      <3>1. 1 \in 1..e /\ from + 1 - 1 = from
        BY <1>1
      <3> QED BY <1>1, <1>3, <3>1
    <2>2. s \in Machine /\ ~s.found /\ s.state = 0 /\ s.name = <<>> /\ s.v = 0
      BY <1>4
    <2>3. k \in Token \ {NUL} /\ k \in Plain
      BY <1>1, TokensDiffer
    <2> HIDE DEF s, next
    <2>4. KeyTaken(next, s, k)
      BY ONLY <2>1, <2>2, <2>3, KeyToken
    <2>5. next \in Machine /\ ~next.found /\ next.state = 1 /\ next.v = s.v
      BY <2>4 DEF KeyTaken
    <2>6. next.name = <<k>>
      BY <2>2, <2>4 DEF KeyTaken
    <2>7. 1 \in 1..(q - 1) /\ 0 \in 0..(e - 2)
      BY <1>1
    <2>8. InLine(k, q, f, S, 1, next)
      BY <2>2, <2>5, <2>6, <2>7 DEF InLine
    <2> QED BY <2>7, <2>8 DEF next
  <1>6. ASSUME NEW m \in 0..(e - 3), m \in Good
        PROVE  m + 1 \in Good
    <2> DEFINE s == r[from + m + 1]
               next == r[from + m + 2]
               c == t[m + 2]
    <2>1. /\ m + 1 \in Nat \ {0} /\ m + 2 \in 1..(e - 1) /\ m + 1 \in 0..(e - 2) /\ m + 2 \in 1..e
          /\ from + (m + 2) = from + m + 2 /\ from + (m + 2) - 1 = from + m + 1
          /\ (m + 1) + 1 = m + 2 /\ from + (m + 1) + 1 = from + m + 2
      <3>1. e \in Nat /\ m \in Nat /\ m + 3 <= e
        BY <1>1
      <3> QED BY ONLY <3>1, from \in Nat
    <2>2. next = Character(key, s, c)
      BY <1>3, <2>1
    <2>3. c \in Token \ {NUL}
      BY <1>2, <2>1
    <2>4. /\ m + 2 = q => c = Equals
          /\ m + 2 <= f /\ m + 2 # q => c = Space
          /\ m + 1 >= f => c = S[m + 2 - f] /\ c \in Plain \cup {Space}
          /\ m + 1 = f => c \in Plain
      <3> DEFINE y == m + 2
      <3>1. /\ y \in Nat /\ y >= 2 /\ y <= e - 1 /\ y = m + 2 /\ c = t[y] /\ m \in Nat
            /\ f \in Nat /\ e \in Nat
        BY <1>1, <2>1
      <3> HIDE DEF y, c
      <3>2. y = q => c = Equals
        BY <1>1, <3>1
      <3>3. y <= f /\ y # q => c = Space
        BY <1>1, <3>1
      <3>4. m + 1 >= f => c = S[y - f] /\ c \in Plain \cup {Space}
        <4>1. m + 1 >= f => y \in (f + 1)..(e - 1)
          BY <3>1
        <4> QED BY <1>1, <3>1, <4>1
      <3>5. m + 1 = f => c \in Plain
        BY <1>1, <3>1
      <3> QED BY <3>1, <3>2, <3>3, <3>4, <3>5
    <2>5. InLine(k, q, f, S, m + 1, s)
      BY <1>6
    <2> HIDE DEF s, next, c, Good
    <2> DEFINE x == m + 1
    <2>6. x \in Nat \ {0} /\ x + 1 = m + 2 /\ x = m + 1
      BY <2>1
    <2> HIDE DEF x
    <2>7. /\ x + 1 = q => c = Equals
          /\ x + 1 <= f /\ x + 1 # q => c = Space
          /\ x >= f => c = S[x + 1 - f] /\ c \in Plain \cup {Space}
          /\ x = f => c \in Plain
          /\ InLine(k, q, f, S, x, s)
      <3>1. m \in Nat /\ f \in Nat
        BY <1>1
      <3> QED BY ONLY <2>4, <2>5, <2>6, <3>1
    <2>8. InLine(k, q, f, S, x + 1, next)
      BY ONLY <1>1, <2>2, <2>3, <2>6, <2>7, InLineStep
    <2> QED BY <2>1, <2>6, <2>8 DEF Good, next
  <1>7. InLine(k, q, f, S, e - 1, r[from + e - 1])
    <2> DEFINE N == e - 2
    <2>1. N \in Nat /\ N - 1 = e - 3 /\ N + 1 = e - 1 /\ from + N + 1 = from + e - 1
      BY <1>1
    <2>2. \A m \in 0..(N - 1) : m \in Good => m + 1 \in Good
      BY <1>6, <2>1
    <2> HIDE DEF N, Good
    <2>3. N \in Good
      <3>1. \A m \in 0..N : m \in Good
        BY ONLY <1>5, <2>1, <2>2, Counting
      <3> QED BY <2>1, <3>1
    <2> QED BY <2>1, <2>3 DEF Good, N
  <1>8. /\ r[from + e] = Character(key, r[from + e - 1], Newline)
        /\ e - 1 \in Nat /\ e - 1 > f /\ Len(S) = (e - 1) - f
    <2>1. e \in 1..e /\ e - 1 \in Nat /\ e - 1 > f /\ Len(S) = (e - 1) - f
      BY <1>1
    <2>2. r[from + e] = Character(key, r[from + e - 1], t[e])
      BY <1>3, <2>1
    <2> QED BY <1>1, <2>1, <2>2
  <1> HIDE DEF Good
  <1>9. IF k = key THEN Answers(S, r[from + e]) ELSE Ready(r[from + e])
    <2> DEFINE m == e - 1
               s == r[from + e - 1]
               next == r[from + e]
    <2>1. /\ next = Character(key, s, Newline) /\ InLine(k, q, f, S, m, s)
          /\ m \in Nat /\ m > f /\ Len(S) = m - f /\ f \in Nat /\ q \in 2..f
      BY <1>1, <1>7, <1>8
    <2> HIDE DEF m, s, next
    <2>2. k = key => Answers(S, next)
      BY ONLY <2>1, LineEndStep
    <2>3. k # key => Ready(next)
      BY ONLY <2>1, LineEndStep
    <2> QED BY <2>2, <2>3 DEF next
  <1> QED BY <1>9 DEF k, S, e

LEMMA CommentRuns ==
  ASSUME NEW line \in IniLine, line.comment # <<>>, NEW key \in Plain, NEW from \in Nat, NEW r,
         Ready(r[from]),
         \A k \in 1..EndAt(line) : r[from + k] = Character(key, r[from + k - 1], LineText(line)[k])
  PROVE  Ready(r[from + EndAt(line)])
  <1> DEFINE t == LineText(line)
             q == EqualsAt(line)
             f == NamesAt(line)
             e == EndAt(line)
             Good == {m \in 0..(e - 2) : InComment(q, f, m + 1, r[from + m + 1])}
  <1>1. /\ q \in 2..f /\ f \in Nat /\ e \in Nat /\ f + 2 <= e
        /\ t[1] = Hash /\ 1 < q
        /\ t[q] = Equals
        /\ t[f + 1] \in Plain
        /\ t[e] = Newline
    <2> DEFINE n == KeyAt(line)
    <2>1. line.comment[1] = Hash /\ Len(line.comment) \in Nat \ {0}
      BY LineIs
    <2>2. n > 1 /\ n \in Nat
      BY <2>1 DEF KeyAt
    <2> HIDE DEF t, q, f, e, n
    <2>3. /\ q \in (n + 1)..f /\ f \in Nat /\ e \in Nat /\ f + 2 <= e
          /\ \A m \in 1..(n - 1) : t[m] = line.comment[m]
          /\ t[q] = Equals
          /\ t[f + 1] \in Plain
          /\ t[e] = Newline
      BY LineParts DEF t, q, f, e, n
    <2> QED BY <2>1, <2>2, <2>3
  <1>2. \A m \in 1..(e - 1) : t[m] \in Token \ {NUL} /\ t[m] # Newline
    BY LineTokens
  <1>3. \A m \in 1..e : r[from + m] = Character(key, r[from + m - 1], t[m])
    OBVIOUS
  <1>4. /\ r[from] \in Machine /\ ~r[from].found /\ r[from].state = 0 /\ r[from].name = <<>>
    BY DEF Ready
  <1> HIDE DEF t, q, f, e
  <1>5. 0 \in Good
    <2> DEFINE s == r[from]
               next == r[from + 1]
    <2>1. next = Character(key, s, Hash)
      <3>1. 1 \in 1..e /\ from + 1 - 1 = from
        BY <1>1
      <3> QED BY <1>1, <1>3, <3>1
    <2>2. s \in Machine /\ ~s.found /\ s.state = 0 /\ s.name = <<>>
      BY <1>4
    <2>3. Hash \in Token \ {NUL}
      BY TokensDiffer
    <2> HIDE DEF s, next
    <2>4. KeyTaken(next, s, Hash)
      BY ONLY <2>1, <2>2, <2>3, KeyToken
    <2>5. next \in Machine /\ ~next.found /\ next.state = 1 /\ next.v = s.v
      BY <2>4 DEF KeyTaken
    <2>6. next.name = <<Hash>>
      BY <2>2, <2>4 DEF KeyTaken
    <2>7. next.name # <<>> /\ next.name[1] = Hash
      BY <2>6
    <2>8. 0 \in 0..(e - 2) /\ 1 < q /\ ~(1 > f)
      BY <1>1
    <2>9. InComment(q, f, 1, next)
      BY <1>1, <2>5, <2>7, <2>8 DEF InComment
    <2> QED BY <2>8, <2>9 DEF next
  <1>6. ASSUME NEW m \in 0..(e - 3), m \in Good
        PROVE  m + 1 \in Good
    <2> DEFINE s == r[from + m + 1]
               next == r[from + m + 2]
               c == t[m + 2]
    <2>1. /\ m + 1 \in Nat \ {0} /\ m + 2 \in 1..(e - 1) /\ m + 1 \in 0..(e - 2) /\ m + 2 \in 1..e
          /\ from + (m + 2) = from + m + 2 /\ from + (m + 2) - 1 = from + m + 1
          /\ (m + 1) + 1 = m + 2 /\ from + (m + 1) + 1 = from + m + 2
      <3>1. e \in Nat /\ m \in Nat /\ m + 3 <= e
        BY <1>1
      <3> QED BY ONLY <3>1, from \in Nat
    <2>2. next = Character(key, s, c)
      BY <1>3, <2>1
    <2>3. c \in Token \ {NUL} /\ c # Newline
      BY <1>2, <2>1
    <2>4. /\ m + 2 = q => c = Equals
          /\ m + 1 = f => c \in Plain
      BY <1>1, <2>1
    <2>5. InComment(q, f, m + 1, s)
      BY <1>6
    <2> HIDE DEF s, next, c, Good
    <2> DEFINE x == m + 1
    <2>6. x \in Nat \ {0} /\ x + 1 = m + 2 /\ x = m + 1
      BY <2>1
    <2> HIDE DEF x
    <2>7. /\ x + 1 = q => c = Equals
          /\ x = f => c \in Plain
          /\ InComment(q, f, x, s)
          /\ q \in 1..f
      BY <1>1, <2>4, <2>5, <2>6 DEF x
    <2>8. InComment(q, f, x + 1, next)
      BY ONLY <1>1, <2>2, <2>3, <2>6, <2>7, InCommentStep
    <2> QED BY <2>1, <2>6, <2>8 DEF Good, next
  <1>7. InComment(q, f, e - 1, r[from + e - 1])
    <2> DEFINE N == e - 2
    <2>1. N \in Nat /\ N - 1 = e - 3 /\ N + 1 = e - 1 /\ from + N + 1 = from + e - 1
      BY <1>1
    <2>2. \A m \in 0..(N - 1) : m \in Good => m + 1 \in Good
      BY <1>6, <2>1
    <2> HIDE DEF N, Good
    <2>3. N \in Good
      <3>1. \A m \in 0..N : m \in Good
        BY ONLY <1>5, <2>1, <2>2, Counting
      <3> QED BY <2>1, <3>1
    <2> QED BY <2>1, <2>3 DEF Good, N
  <1>8. /\ r[from + e] = Character(key, r[from + e - 1], Newline)
        /\ e - 1 \in Nat /\ e - 1 > f /\ q \in 1..f
    BY <1>1, <1>3
  <1> HIDE DEF Good
  <1>9. Ready(r[from + e])
    BY ONLY <1>1, <1>7, <1>8, key \in Plain, CommentEndStep
  <1> QED BY <1>9 DEF e

-----------------------------------------------------------------------------
\* The text line by line.
LEMMA TextToIs ==
  ASSUME NEW lines \in Seq(IniLine)
  PROVE  /\ TextTo(lines, 0) = <<>>
         /\ \A k \in 1..Len(lines) : TextTo(lines, k) = TextTo(lines, k - 1) \o LineText(lines[k])
  <1> DEFINE N == Len(lines)
             Longer(s, k) == s \o LineText(lines[k])
             F(g, n) == [k \in 0..n |-> IF k = 0 THEN <<>> ELSE Longer(g[k - 1], k)]
             S == {n \in 0..N : \E g : g = F(g, n)}
             T == CHOOSE g : g = F(g, N)
  <1>7. \A k \in 0..N : TextTo(lines, k) = T[k]
    BY DEF TextTo
  <1> HIDE DEF Longer
  <1>1. 0 \in S
    <2>1. [k \in 0..0 |-> <<>>] = F([k \in 0..0 |-> <<>>], 0)
      OBVIOUS
    <2> HIDE DEF F
    <2> QED BY <2>1
  <1>2. ASSUME NEW n \in 0..(N - 1), n \in S
        PROVE  n + 1 \in S
    <2>1. PICK g : g = F(g, n)
      BY <1>2
    <2> DEFINE h == [k \in 0..(n + 1) |-> IF k <= n THEN g[k] ELSE Longer(g[n], n + 1)]
    <2>2. h = F(h, n + 1)
      <3>1. ASSUME NEW k \in 0..(n + 1)
            PROVE  h[k] = IF k = 0 THEN <<>> ELSE Longer(h[k - 1], k)
        <4>1. CASE k <= n
          <5>1. g[k] = IF k = 0 THEN <<>> ELSE Longer(g[k - 1], k)
            BY <2>1, <4>1
          <5> QED BY <4>1, <5>1
        <4>2. CASE k = n + 1
          BY <4>2
        <4> QED BY <4>1, <4>2
      <3> QED BY <3>1
    <2> HIDE DEF h
    <2> QED BY <2>2
  <1>3. N \in S
    <2>1. \A n \in 0..(N - 1) : n \in S => n + 1 \in S
      BY <1>2
    <2>2. N \in Nat
      OBVIOUS
    <2> HIDE DEF S, N
    <2>3. \A n \in 0..N : n \in S
      BY <1>1, <2>1, <2>2, Counting
    <2> QED BY <2>2, <2>3
  <1>4. T = F(T, N)
    <2>1. PICK g : g = F(g, N)
      BY <1>3
    <2> HIDE DEF F
    <2> QED BY <2>1
  <1>5. T[0] = <<>> /\ \A k \in 1..N : T[k] = Longer(T[k - 1], k)
    <2> HIDE DEF T
    <2>1. N \in Nat
      OBVIOUS
    <2> QED BY <1>4, <2>1
  <1> HIDE DEF T, F, S
  <1>6. /\ TextTo(lines, 0) = <<>>
        /\ \A k \in 1..N : TextTo(lines, k) = Longer(TextTo(lines, k - 1), k)
    <2>1. 0 \in 0..N /\ \A k \in 1..N : k \in 0..N /\ k - 1 \in 0..N
      OBVIOUS
    <2> HIDE DEF N
    <2> QED BY <1>7, <1>5, <2>1
  <1> QED BY <1>6, Zenon DEF Longer

LEMMA TextIs ==
  ASSUME NEW lines \in Seq(IniLine)
  PROVE  \A k \in 0..Len(lines) : TextTo(lines, k) \in Seq(Token)
  <1> DEFINE N == Len(lines)
             S == {k \in 0..N : TextTo(lines, k) \in Seq(Token)}
  <1>1. N \in Nat /\ 0 \in S
    <2>1. TextTo(lines, 0) = <<>>
      BY TextToIs
    <2>2. <<>> \in Seq(Token) /\ N \in Nat /\ 0 \in 0..N
      OBVIOUS
    <2> HIDE DEF N
    <2> QED BY <2>1, <2>2
  <1>2. ASSUME NEW k \in 0..(N - 1), k \in S PROVE k + 1 \in S
    <2>1. k + 1 \in 1..N /\ lines[k + 1] \in IniLine /\ (k + 1) - 1 = k
      OBVIOUS
    <2>2. LineText(lines[k + 1]) \in Seq(Token)
      BY <2>1, LineParts
    <2>3. TextTo(lines, k + 1) = TextTo(lines, k) \o LineText(lines[k + 1])
      <3> HIDE DEF S
      <3> QED BY <2>1, TextToIs
    <2>4. TextTo(lines, k) \in Seq(Token)
      BY <1>2
    <2>5. TextTo(lines, k + 1) \in Seq(Token)
      <3> DEFINE t == TextTo(lines, k)
                 u == LineText(lines[k + 1])
      <3>1. t \in Seq(Token) /\ u \in Seq(Token) /\ TextTo(lines, k + 1) = t \o u
        BY <2>2, <2>3, <2>4
      <3> HIDE DEF t, u
      <3>2. t \o u \in Seq(Token)
        BY ONLY <3>1
      <3> QED BY <3>1, <3>2
    <2> QED BY <2>1, <2>5
  <1>3. \A k \in 0..(N - 1) : k \in S => k + 1 \in S
    BY <1>2
  <1> HIDE DEF S, N
  <1>4. \A k \in 0..N : k \in S
    BY <1>1, <1>3, Counting
  <1> QED BY <1>4 DEF S, N

\* Where a line is in the text.
LEMMA LinePlace ==
  ASSUME NEW lines \in Seq(IniLine), NEW k \in 1..Len(lines)
  PROVE  LET from == Len(TextTo(lines, k - 1))
             e == EndAt(lines[k])
             t == TextTo(lines, k)
         IN  /\ lines[k] \in IniLine /\ from \in Nat /\ e \in Nat /\ Len(t) = from + e
             /\ \A j \in 1..from : t[j] = TextTo(lines, k - 1)[j]
             /\ \A m \in 1..e : t[from + m] = LineText(lines[k])[m]
  <1> DEFINE s == TextTo(lines, k - 1)
             u == LineText(lines[k])
             e == EndAt(lines[k])
             t == TextTo(lines, k)
             n == Len(s)
             z == n + e
  <1>1. lines[k] \in IniLine /\ k - 1 \in 0..Len(lines)
    OBVIOUS
  <1>2. u \in Seq(Token) /\ Len(u) = e /\ e \in Nat
    BY <1>1, LineParts
  <1>3. s \in Seq(Token)
    BY <1>1, TextIs
  <1>4. t = s \o u
    BY TextToIs
  <1> HIDE DEF s, u, e, t
  <1>5. n \in Nat /\ z \in Nat /\ n = Len(s) /\ z = n + Len(u)
    BY <1>2, <1>3
  <1> HIDE DEF n, z
  <1>6. /\ Len(t) = z
        /\ \A j \in 1..n : t[j] = s[j]
        /\ \A j \in (n + 1)..z : t[j] = u[j - n]
    <2>1. Len(t) = z
      BY ONLY <1>2, <1>3, <1>4, <1>5, Joined
    <2>2. \A j \in 1..n : t[j] = s[j]
      BY ONLY <1>2, <1>3, <1>4, <1>5, Joined
    <2>3. \A j \in (n + 1)..z : t[j] = u[j - n]
      BY ONLY <1>2, <1>3, <1>4, <1>5, Joined
    <2> QED BY <2>1, <2>2, <2>3
  <1>7. \A m \in 1..e : t[n + m] = u[m]
    <2> TAKE m \in 1..e
    <2>1. n + m \in (n + 1)..z /\ (n + m) - n = m
      BY <1>2, <1>5
    <2> QED BY <1>6, <2>1
  <1> QED BY <1>1, <1>2, <1>5, <1>6, <1>7 DEF s, u, e, t, n, z

\* A text that begins with the first lines.
BeginsWith(text, start) == Len(start) <= Len(text) /\ \A j \in 1..Len(start) : text[j] = start[j]

LEMMA TextGrows ==
  ASSUME NEW lines \in Seq(IniLine), NEW n \in 0..Len(lines), NEW text,
         Len(text) \in Nat, BeginsWith(text, TextTo(lines, n))
  PROVE  \A k \in 0..n : BeginsWith(text, TextTo(lines, k))
  <1> DEFINE S == {d \in 0..n : BeginsWith(text, TextTo(lines, n - d))}
  <1>1. n \in Nat /\ 0 \in S
    OBVIOUS
  <1>2. ASSUME NEW d \in 0..(n - 1), d \in S PROVE d + 1 \in S
    <2> DEFINE k == n - d
               s == TextTo(lines, k - 1)
               t == TextTo(lines, k)
               e == EndAt(lines[k])
    <2>1. k \in 1..Len(lines) /\ k - 1 = n - (d + 1) /\ d + 1 \in 0..n
      OBVIOUS
    <2>2. Len(s) \in Nat /\ e \in Nat /\ Len(t) = Len(s) + e /\ \A j \in 1..Len(s) : t[j] = s[j]
      <3> HIDE DEF k
      <3> QED BY <2>1, LinePlace
    <2>3. Len(t) <= Len(text) /\ \A j \in 1..Len(t) : text[j] = t[j]
      BY <1>2 DEF BeginsWith
    <2> HIDE DEF s, t, e, k
    <2>4. BeginsWith(text, s)
      BY <2>2, <2>3 DEF BeginsWith
    <2> QED BY <2>1, <2>4 DEF s
  <1>3. \A d \in 0..(n - 1) : d \in S => d + 1 \in S
    BY <1>2
  <1>4. \A d \in 0..n : d \in S
    <2> HIDE DEF S
    <2> QED BY <1>1, <1>3, Counting
  <1> TAKE k \in 0..n
  <1>5. n - k \in 0..n /\ n - (n - k) = k
    OBVIOUS
  <1>6. n - k \in S
    <2> HIDE DEF S
    <2> QED BY <1>4, <1>5
  <1> QED BY <1>5, <1>6

\* What the machine holds at the end of a text that begins with the lines up to the
\* first for its key.
LEMMA KeyIsFound ==
  ASSUME NEW lines \in Seq(IniLine), NEW key, NEW K \in DOMAIN lines, IsFor(key, lines[K]),
         \A m \in 1..(K - 1) : ~IsFor(key, lines[m]),
         NEW text, Len(text) \in Nat, BeginsWith(text, TextTo(lines, K)),
         NEW value \in Seq(Token)
  PROVE  Answers(Names(lines[K]), Scanned(key, text, value)[Len(text)])
  <1> DEFINE R == Scanned(key, text, value)
             L == Len(text)
             At(k) == Len(TextTo(lines, k))
             S == {k \in 0..(K - 1) : Ready(R[At(k)])}
  <1>1. K \in 1..Len(lines) /\ K \in Nat /\ lines[K] \in IniLine /\ Len(lines) \in Nat
    OBVIOUS
  <1>2. key \in Plain /\ lines[K].comment = <<>> /\ lines[K].key = key
    BY <1>1, LineIs DEF IsFor
  <1>3. R[0] = Begin(value) /\ \A k \in 1..L : R[k] = Character(key, R[k - 1], text[k])
    <2>1. R[0] = Begin(value) /\ \A k \in 1..L : R[k] = Once(key, R[k - 1], text[k])
      BY ScannedIs
    <2>2. \A st, c : Once(key, st, c) = Character(key, st, c)
      <3> TAKE st, c
      <3>1. {Character(key, now, c) : now \in {st}} = {Character(key, st, c)}
        OBVIOUS
      <3> QED BY <3>1 DEF Once
    <2> HIDE DEF R
    <2> QED BY <2>1, <2>2
  <1>4. \A k \in 0..K : BeginsWith(text, TextTo(lines, k))
    BY <1>1, TextGrows
  <1>5. ASSUME NEW k \in 1..K
        PROVE  /\ lines[k] \in IniLine /\ At(k - 1) \in Nat /\ EndAt(lines[k]) \in Nat
               /\ At(k) = At(k - 1) + EndAt(lines[k]) /\ At(k) \in 0..L
               /\ \A m \in 1..EndAt(lines[k]) :
                    R[At(k - 1) + m] = Character(key, R[At(k - 1) + m - 1], LineText(lines[k])[m])
    <2>1. k \in 1..Len(lines)
      BY <1>1
    <2>2. /\ lines[k] \in IniLine /\ At(k - 1) \in Nat /\ EndAt(lines[k]) \in Nat
          /\ At(k) = At(k - 1) + EndAt(lines[k])
          /\ \A m \in 1..EndAt(lines[k]) :
               TextTo(lines, k)[At(k - 1) + m] = LineText(lines[k])[m]
      BY <2>1, LinePlace
    <2>3. At(k) <= L /\ \A j \in 1..At(k) : text[j] = TextTo(lines, k)[j]
      BY <1>4 DEF BeginsWith
    <2> HIDE DEF R, L
    <2> DEFINE from == At(k - 1)
               e == EndAt(lines[k])
               to == At(k)
               t == TextTo(lines, k)
               u == LineText(lines[k])
    <2>4. /\ from \in Nat /\ e \in Nat /\ to = from + e /\ to <= L /\ L \in Nat
          /\ \A m \in 1..e : t[from + m] = u[m]
          /\ \A j \in 1..to : text[j] = t[j]
      BY <2>2, <2>3 DEF L
    <2> HIDE DEF from, e, to, t, u
    <2>5. ASSUME NEW m \in 1..e
          PROVE  R[from + m] = Character(key, R[from + m - 1], u[m])
      <3>1. from + m \in 1..L /\ from + m \in 1..to
        BY <2>4
      <3>2. text[from + m] = u[m]
        BY <2>4, <3>1
      <3>3. R[from + m] = Character(key, R[from + m - 1], text[from + m])
        <4> DEFINE y == from + m
        <4>1. y \in 1..L
          BY <3>1
        <4> HIDE DEF y
        <4>2. R[y] = Character(key, R[y - 1], text[y])
          BY ONLY <1>3, <4>1
        <4>3. y - 1 = from + m - 1
          BY <2>4 DEF y
        <4> QED BY ONLY <4>2, <4>3 DEF y
      <3> QED BY <3>2, <3>3
    <2> QED BY <2>2, <2>4, <2>5 DEF from, e, to, u, t
  <1>6. 0 \in S
    <2>1. At(0) = 0
      BY TextToIs
    <2>2. Begin(value) \in Machine
      BY DEF Begin, Machine, Record
    <2>3. Ready(Begin(value))
      BY <2>2 DEF Ready, Begin
    <2>4. 0 \in 0..(K - 1)
      BY <1>1
    <2> HIDE DEF R, At
    <2> QED BY <1>3, <2>1, <2>3, <2>4
  <1> HIDE DEF R, L, At
  <1>7. ASSUME NEW n \in 0..((K - 1) - 1), n \in S PROVE n + 1 \in S
    <2> DEFINE k == n + 1
               line == lines[k]
               from == At(n)
    <2>1. k \in 1..K /\ k \in 1..(K - 1) /\ k - 1 = n /\ k \in 0..(K - 1)
      BY <1>1
    <2>2. ~IsFor(key, line)
      BY <2>1
    <2>3. Ready(R[from])
      BY <1>7
    <2> HIDE DEF k
    <2>4. /\ line \in IniLine /\ from \in Nat /\ At(k) = from + EndAt(line)
          /\ \A m \in 1..EndAt(line) :
               R[from + m] = Character(key, R[from + m - 1], LineText(line)[m])
      BY <1>5, <2>1
    <2> HIDE DEF line, from, S
    <2>5. Ready(R[from + EndAt(line)])
      <3>1. CASE line.comment = <<>>
        <4>1. line.key # key
          BY <2>2, <3>1 DEF IsFor
        <4> QED BY ONLY <2>3, <2>4, <3>1, <4>1, PlainLineRuns
      <3>2. CASE line.comment # <<>>
        BY ONLY <1>2, <2>3, <2>4, <3>2, CommentRuns
      <3> QED BY <3>1, <3>2
    <2> QED BY <2>1, <2>4, <2>5 DEF S, k
  <1>8. Ready(R[At(K - 1)])
    <2> DEFINE N == K - 1
    <2>1. N \in Nat
      BY <1>1
    <2>2. \A n \in 0..(N - 1) : n \in S => n + 1 \in S
      BY <1>7
    <2> HIDE DEF N, S
    <2>3. \A n \in 0..N : n \in S
      BY ONLY <1>6, <2>1, <2>2, Counting
    <2> QED BY <2>1, <2>3 DEF S, N
  <1> HIDE DEF S
  <1>9. Answers(Names(lines[K]), R[At(K)]) /\ At(K) \in 0..L
    <2> DEFINE line == lines[K]
               from == At(K - 1)
    <2>1. K \in 1..K
      BY <1>1
    <2>2. /\ line \in IniLine /\ from \in Nat /\ At(K) = from + EndAt(line) /\ At(K) \in 0..L
          /\ \A m \in 1..EndAt(line) :
               R[from + m] = Character(key, R[from + m - 1], LineText(line)[m])
      BY <1>5, <2>1
    <2>3. line.comment = <<>> /\ line.key = key /\ Ready(R[from])
      BY <1>2, <1>8
    <2> HIDE DEF line, from
    <2>4. Answers(Names(line), R[from + EndAt(line)])
      BY ONLY <2>2, <2>3, PlainLineRuns
    <2> QED BY <2>2, <2>4 DEF line
  <1>10. R[L] = R[At(K)]
    <2> DEFINE place == At(K)
               N == L - place
               Still == {d \in 0..N : R[place + d] = R[place]}
    <2>1. place \in Nat /\ N \in Nat /\ L = place + N /\ place + 0 = place /\ R[place].found
      BY <1>9 DEF L, Answers
    <2> HIDE DEF place, N
    <2>2. 0 \in Still
      BY <2>1
    <2>3. ASSUME NEW d \in 0..(N - 1), d \in Still PROVE d + 1 \in Still
      <3>1. place + d + 1 \in 1..L /\ (place + d + 1) - 1 = place + d /\ d + 1 \in 0..N /\ place + (d + 1) = place + d + 1
        BY <2>1
      <3>2. R[place + d + 1] = Character(key, R[place + d], text[place + d + 1])
        BY <1>3, <3>1
      <3>3. R[place + d] = R[place]
        BY <2>3
      <3>4. R[place + d + 1] = R[place]
        BY <2>1, <3>2, <3>3, FoundStays
      <3> QED BY <3>1, <3>4
    <2>4. \A d \in 0..(N - 1) : d \in Still => d + 1 \in Still
      BY <2>3
    <2> HIDE DEF Still
    <2>5. N \in Still
      <3>1. \A d \in 0..N : d \in Still
        BY ONLY <2>1, <2>2, <2>4, Counting
      <3> QED BY <2>1, <3>1
    <2> QED BY <2>1, <2>5 DEF Still, place
  <1> QED BY <1>9, <1>10 DEF R, L

-----------------------------------------------------------------------------
\* The names on the line, taken apart again.
LEMMA ContentIs ==
  ASSUME NEW S \in Seq(Token), NEW s, Answers(S, s), \A j \in 1..Len(S) : S[j] # NUL
  PROVE  Content(s.value) = S
  <1> DEFINE value == s.value
             N == Len(S)
  <1>1. /\ value \in Seq(Token) /\ N \in Nat /\ Len(value) > N /\ Len(value) \in Nat
        /\ value[N + 1] = NUL
        /\ \A j \in 1..N : value[j] = S[j]
    BY DEF Answers, Machine, Record
  <1>2. \A j \in 1..N : value[j] # NUL
    BY <1>1
  <1> HIDE DEF value
  <1>3. StringOf(value) = N + 1
    <2> DEFINE I == {j \in 1..Len(value) : value[j] = NUL}
    <2>1. StringOf(value) = IF I # {} THEN Min(I) ELSE 0
      BY DEF StringOf, SelectInSeq
    <2>2. N + 1 \in I /\ \A y \in I : y \in Nat /\ N + 1 <= y
      BY <1>1, <1>2
    <2> HIDE DEF I, N
    <2>3. Min(I) = N + 1
      BY <1>1, <2>2 DEF Min
    <2> QED BY <2>1, <2>2, <2>3
  <1>4. Content(value) = SubSeq(value, 1, N)
    BY <1>1, <1>3 DEF Content
  <1>5. SubSeq(value, 1, N) = S
    BY <1>1
  <1> QED BY <1>4, <1>5 DEF value

\* Every sum of whole steps and a rest divides in one way.
LEMMA DividesOnce ==
  ASSUME NEW w \in Nat \ {0}, NEW q \in Nat, NEW d \in 0..(w - 1)
  PROVE  (w * q + d) \div w = q /\ (w * q + d) % w = d
  <1> DEFINE m == w * q + d
             a == m \div w
             b == m % w
  <1>1. m \in Nat
    OBVIOUS
  <1>2. a \in Nat /\ b \in 0..(w - 1) /\ m = w * a + b
    <2> HIDE DEF m
    <2> QED BY <1>1
  <1>3. w * a + b = w * q + d
    BY <1>2
  <1> HIDE DEF a, b, m
  <1>4. w * (a - q) = d - b
    BY <1>2, <1>3
  <1>5. a = q
    <2>1. ASSUME a - q >= 1 PROVE FALSE
      <3>1. w * (a - q) >= w
        BY <1>2, <2>1
      <3> QED BY <1>2, <1>4, <3>1
    <2>2. ASSUME a - q <= -1 PROVE FALSE
      <3>1. w * (a - q) <= -w
        BY <1>2, <2>2
      <3> QED BY <1>2, <1>4, <3>1
    <2> QED BY <1>2, <2>1, <2>2
  <1>6. b = d
    BY <1>2, <1>3, <1>5
  <1> QED BY <1>5, <1>6 DEF a, b, m

\* The n-th name.
PlaceOf(n, w) == w * (n - 1) + 1

LEMMA PlacesOf ==
  ASSUME NEW names \in Seq(Plain), names # <<>>, NEW gap \in Seq({Space}),
         gap # <<>> \/ Len(names) = 1
  PROVE  LET s == Spread(names, gap)
             w == Len(gap) + 1
             N == Len(names)
         IN  /\ s \in Seq(Token) /\ w \in Nat \ {0} /\ N \in Nat \ {0} /\ (w > 1 \/ N = 1)
             /\ \A n \in 1..N : PlaceOf(n, w) \in 1..Len(s)
             /\ PlaceOf(1, w) = 1 /\ PlaceOf(N, w) = Len(s)
             /\ \A n \in 1..(N - 1) : PlaceOf(n + 1, w) = PlaceOf(n, w) + w
             /\ \A n \in 1..N : s[PlaceOf(n, w)] = names[n] /\ names[n] \in Plain
             /\ \A n \in 1..(N - 1), d \in 1..(w - 1) : s[PlaceOf(n, w) + d] = Space
  <1> DEFINE s == Spread(names, gap)
             w == Len(gap) + 1
             N == Len(names)
  <1>1. /\ s \in Seq(Token) /\ Len(s) = (N - 1) * w + 1
        /\ w \in Nat \ {0} /\ N \in Nat \ {0}
        /\ \A m \in 1..Len(s) :
             IF (m - 1) % w = 0 THEN s[m] = names[((m - 1) \div w) + 1] ELSE s[m] = Space
    BY SpreadIs
  <1>2. w > 1 \/ N = 1
    OBVIOUS
  <1>3. \A n \in 1..N : names[n] \in Plain
    OBVIOUS
  <1> HIDE DEF s, w, N
  <1>4. /\ \A n \in 1..N : PlaceOf(n, w) \in Nat \ {0}
        /\ PlaceOf(1, w) = 1 /\ PlaceOf(N, w) = Len(s)
    <2>1. ASSUME NEW n \in 1..N PROVE PlaceOf(n, w) \in Nat \ {0}
      <3> DEFINE q == n - 1
                 x == w * q
      <3>1. q \in Nat
        BY <1>1
      <3> HIDE DEF q
      <3>2. x \in Nat
        BY <1>1, <3>1
      <3> HIDE DEF x
      <3>3. PlaceOf(n, w) = x + 1
        BY DEF PlaceOf, x, q
      <3> QED BY <3>2, <3>3
    <2>2. PlaceOf(1, w) = 1
      BY <1>1 DEF PlaceOf
    <2>3. PlaceOf(N, w) = Len(s)
      BY <1>1 DEF PlaceOf
    <2> QED BY <2>1, <2>2, <2>3
  <1>5. \A n \in 1..(N - 1) : PlaceOf(n + 1, w) = PlaceOf(n, w) + w
    BY <1>1 DEF PlaceOf
  <1>6. ASSUME NEW n \in 1..N, NEW d \in 0..(w - 1), n < N \/ d = 0
        PROVE  PlaceOf(n, w) + d \in 1..Len(s)
    <2>1. w * (n - 1) + d <= (N - 1) * w
      <3>1. CASE n < N
        <4>1. w * (n - 1) + w = w * n
          BY <1>1
        <4>2. w * n <= w * (N - 1)
          BY <1>1, <3>1
        <4>3. w * (N - 1) = (N - 1) * w
          BY <1>1
        <4> DEFINE x == w * (n - 1)
                   y == w * n
                   z == (N - 1) * w
        <4>4. x \in Int /\ y \in Int /\ z \in Int
          BY <1>1
        <4> HIDE DEF x, y, z
        <4>5. x + w = y /\ y <= z
          BY <4>1, <4>2, <4>3 DEF x, y, z
        <4>6. x + d <= z
          BY <1>1, <4>4, <4>5
        <4> QED BY <4>6 DEF x, z
      <3>2. CASE n = N /\ d = 0
        BY <1>1, <3>2
      <3> QED BY <1>1, <1>6, <3>1, <3>2
    <2> DEFINE x == w * (n - 1)
               z == (N - 1) * w
    <2>2. x \in Nat /\ z \in Nat
      BY <1>1
    <2>3. x + d <= z /\ Len(s) = z + 1 /\ PlaceOf(n, w) = x + 1
      BY <1>1, <2>1 DEF PlaceOf
    <2> HIDE DEF x, z
    <2> QED BY <1>1, <2>2, <2>3
  <1>7. ASSUME NEW n \in 1..N, NEW d \in 0..(w - 1), n < N \/ d = 0
        PROVE  IF d = 0 THEN s[PlaceOf(n, w) + d] = names[n] ELSE s[PlaceOf(n, w) + d] = Space
    <2> DEFINE m == PlaceOf(n, w) + d
               q == n - 1
    <2>1. q \in Nat /\ m \in 1..Len(s)
      BY <1>1, <1>6, <1>7
    <2>2. m - 1 = w * q + d
      <3> DEFINE x == w * q
      <3>1. x \in Nat /\ PlaceOf(n, w) = x + 1
        BY <1>1, <2>1 DEF PlaceOf
      <3> HIDE DEF x
      <3>2. m - 1 = x + d
        BY <3>1
      <3> QED BY <3>2 DEF x
    <2>3. (m - 1) \div w = q /\ (m - 1) % w = d
      <3> HIDE DEF m, q
      <3> QED BY <1>1, <2>1, <2>2, DividesOnce
    <2> HIDE DEF m
    <2>4. IF (m - 1) % w = 0 THEN s[m] = names[((m - 1) \div w) + 1] ELSE s[m] = Space
      BY <1>1, <2>1
    <2>5. q + 1 = n
      BY <1>1
    <2> HIDE DEF q
    <2> QED BY <2>3, <2>4, <2>5 DEF m
  <1>8. ASSUME NEW n \in 1..N
        PROVE  PlaceOf(n, w) \in 1..Len(s) /\ s[PlaceOf(n, w)] = names[n]
    <2>1. 0 \in 0..(w - 1) /\ PlaceOf(n, w) + 0 = PlaceOf(n, w)
      BY <1>1, <1>4
    <2> QED BY <1>6, <1>7, <2>1
  <1>9. ASSUME NEW n \in 1..(N - 1), NEW d \in 1..(w - 1)
        PROVE  s[PlaceOf(n, w) + d] = Space
    <2>1. n \in 1..N /\ n < N /\ d \in 0..(w - 1) /\ d # 0
      BY <1>1
    <2> QED BY <1>7, <2>1
  <1> QED BY <1>1, <1>2, <1>3, <1>4, <1>5, <1>8, <1>9 DEF s, w, N

\* The machine of shell_parse.
LEMMA StartsIs ==
  ASSUME NEW s, Len(s) \in Nat
  PROVE  \E g : /\ Starts(s) = g[Len(s)] /\ g[0] = <<>>
                /\ \A k \in 1..Len(s) :
                     g[k] = IF s[k] # Space /\ (k = 1 \/ s[k - 1] = Space)
                            THEN Append(g[k - 1], k) ELSE g[k - 1]
  <1> DEFINE N == Len(s)
             Grown(g, k) == IF s[k] # Space /\ (k = 1 \/ s[k - 1] = Space)
                            THEN Append(g[k - 1], k) ELSE g[k - 1]
             F(g, n) == [k \in 0..n |-> IF k = 0 THEN <<>> ELSE Grown(g, k)]
             S == {n \in 0..N : \E g : g = F(g, n)}
             T == CHOOSE g : g = F(g, N)
  <1>0. Starts(s) = T[N]
    BY DEF Starts
  <1>1. \A g, k : Grown(g, k) = IF s[k] # Space /\ (k = 1 \/ s[k - 1] = Space)
                                THEN Append(g[k - 1], k) ELSE g[k - 1]
    OBVIOUS
  <1>2. ASSUME NEW g, NEW h, NEW k, g[k - 1] = h[k - 1] PROVE Grown(g, k) = Grown(h, k)
    BY <1>2
  <1> HIDE DEF Grown
  <1>3. 0 \in S
    <2>1. [k \in 0..0 |-> <<>>] = F([k \in 0..0 |-> <<>>], 0)
      OBVIOUS
    <2> HIDE DEF F
    <2> QED BY <2>1
  <1>4. ASSUME NEW n \in 0..(N - 1), n \in S
        PROVE  n + 1 \in S
    <2>1. PICK g : g = F(g, n)
      BY <1>4
    <2> DEFINE h == [k \in 0..(n + 1) |-> IF k <= n THEN g[k] ELSE Grown(g, n + 1)]
    <2>2. h = F(h, n + 1)
      <3>1. ASSUME NEW k \in 0..(n + 1)
            PROVE  h[k] = IF k = 0 THEN <<>> ELSE Grown(h, k)
        <4>1. k # 0 => g[k - 1] = h[k - 1] /\ k \in Nat
          OBVIOUS
        <4>2. k # 0 => Grown(g, k) = Grown(h, k)
          BY <1>2, <4>1
        <4>3. CASE k <= n
          <5>1. g[k] = IF k = 0 THEN <<>> ELSE Grown(g, k)
            BY <2>1, <4>3
          <5> QED BY <4>2, <4>3, <5>1
        <4>4. CASE k = n + 1
          BY <4>2, <4>4
        <4> QED BY <4>3, <4>4
      <3> QED BY <3>1
    <2> HIDE DEF h
    <2> QED BY <2>2
  <1>5. N \in S
    <2>1. \A n \in 0..(N - 1) : n \in S => n + 1 \in S
      BY <1>4
    <2>2. N \in Nat
      OBVIOUS
    <2> HIDE DEF S, N
    <2>3. \A n \in 0..N : n \in S
      BY <1>3, <2>1, <2>2, Counting
    <2> QED BY <2>2, <2>3
  <1>6. T = F(T, N)
    <2>1. PICK g : g = F(g, N)
      BY <1>5
    <2> HIDE DEF F
    <2> QED BY <2>1
  <1> HIDE DEF T
  <1>7. T[0] = <<>> /\ \A k \in 1..N : T[k] = Grown(T, k)
    <2>1. N \in Nat
      OBVIOUS
    <2> QED BY <1>6, <2>1
  <1> HIDE DEF F, S
  <1>8. \A k \in 1..N : T[k] = IF s[k] # Space /\ (k = 1 \/ s[k - 1] = Space)
                               THEN Append(T[k - 1], k) ELSE T[k - 1]
    BY <1>1, <1>7
  <1> QED BY <1>0, <1>7, <1>8

LEMMA StartsAreNames ==
  ASSUME NEW names \in Seq(Plain), names # <<>>, NEW gap \in Seq({Space}),
         gap # <<>> \/ Len(names) = 1
  PROVE  Starts(Spread(names, gap)) = [n \in 1..Len(names) |-> PlaceOf(n, Len(gap) + 1)]
  <1> DEFINE s == Spread(names, gap)
             w == Len(gap) + 1
             N == Len(names)
             P(n) == PlaceOf(n, w)
             First(n) == [x \in 1..n |-> P(x)]
  <1>1. /\ s \in Seq(Token) /\ w \in Nat \ {0} /\ N \in Nat \ {0} /\ (w > 1 \/ N = 1)
        /\ \A n \in 1..N : P(n) \in 1..Len(s)
        /\ P(1) = 1 /\ P(N) = Len(s)
        /\ \A n \in 1..(N - 1) : P(n + 1) = P(n) + w
        /\ \A n \in 1..N : s[P(n)] = names[n] /\ names[n] \in Plain
        /\ \A n \in 1..(N - 1), d \in 1..(w - 1) : s[P(n) + d] = Space
    BY PlacesOf
  <1>2. Len(s) \in Nat
    BY <1>1
  <1>3. PICK g : /\ Starts(s) = g[Len(s)] /\ g[0] = <<>>
                 /\ \A k \in 1..Len(s) :
                      g[k] = IF s[k] # Space /\ (k = 1 \/ s[k - 1] = Space)
                             THEN Append(g[k - 1], k) ELSE g[k - 1]
    <2> HIDE DEF s
    <2> QED BY <1>2, StartsIs
  <1> HIDE DEF s, w, N, P
  <1>4. \A n \in 1..N : s[P(n)] # Space
    BY <1>1, TokensDiffer
  <1>5. ASSUME NEW n \in Nat
        PROVE  Append(First(n), P(n + 1)) = First(n + 1)
    OBVIOUS
  <1>6. First(1) = <<1>>
    BY <1>1
  <1> HIDE DEF First
  <1> DEFINE Good == {n \in 0..(N - 1) : g[P(n + 1)] = First(n + 1)}
  <1>7. 0 \in Good
    <2>1. 1 \in 1..Len(s) /\ 1 \in 1..N /\ 0 \in 0..(N - 1) /\ 0 + 1 = 1 /\ 1 - 1 = 0
      BY <1>1
    <2>2. s[1] # Space
      BY <1>1, <1>4, <2>1
    <2>3. g[1] = Append(<<>>, 1)
      BY <1>3, <2>1, <2>2
    <2>4. g[P(0 + 1)] = First(0 + 1)
      <3>1. Append(<<>>, 1) = <<1>> /\ P(1) = 1
        BY <1>1
      <3>2. g[P(1)] = First(1)
        BY <1>6, <2>3, <3>1
      <3> QED BY <2>1, <3>2
    <2> QED BY <2>1, <2>4
  <1>8. ASSUME NEW n \in 0..((N - 1) - 1), n \in Good PROVE n + 1 \in Good
    <2> DEFINE place == P(n + 1)
               k == P((n + 1) + 1)
               Still == {d \in 0..(w - 1) : g[place + d] = g[place]}
    <2>1. /\ n + 1 \in 1..(N - 1) /\ n + 1 \in 1..N /\ (n + 1) + 1 \in 1..N
          /\ n + 1 \in Nat /\ n + 1 \in 0..(N - 1)
      BY <1>1
    <2>2. /\ place \in 1..Len(s) /\ k \in 1..Len(s) /\ k = place + w /\ w > 1 /\ w \in Nat
          /\ \A d \in 1..(w - 1) : s[place + d] = Space
          /\ s[k] # Space /\ g[place] = First(n + 1)
      <3>1. g[place] = First(n + 1)
        BY <1>8
      <3> HIDE DEF Good
      <3> QED BY <1>1, <1>4, <2>1, <3>1
    <2>3. First((n + 1) + 1) = Append(First(n + 1), k)
      BY <1>5, <2>1
    <2> HIDE DEF place, k, Good
    <2>4. 0 \in Still
      BY <2>2
    <2>5. ASSUME NEW d \in 0..((w - 1) - 1), d \in Still PROVE d + 1 \in Still
      <3> DEFINE y == place + (d + 1)
      <3>1. y \in 1..Len(s) /\ y - 1 = place + d /\ d + 1 \in 1..(w - 1) /\ d + 1 \in 0..(w - 1)
        BY <1>2, <2>2
      <3>2. s[y] = Space
        BY <2>2, <3>1
      <3>3. g[place + d] = g[place]
        BY <2>5
      <3> HIDE DEF y, Still
      <3>4. g[y] = g[place]
        BY <1>3, <3>1, <3>2, <3>3
      <3> QED BY <3>1, <3>4 DEF Still, y
    <2>6. w - 1 \in Still
      <3> DEFINE M == w - 1
      <3>1. M \in Nat
        BY <2>2
      <3>2. \A d \in 0..(M - 1) : d \in Still => d + 1 \in Still
        BY <2>5
      <3> HIDE DEF Still, M
      <3>3. \A d \in 0..M : d \in Still
        BY ONLY <2>4, <3>1, <3>2, Counting
      <3> QED BY <3>1, <3>3 DEF M
    <2>7. k - 1 = place + (w - 1) /\ w - 1 \in 1..(w - 1)
      BY <2>2
    <2>8. g[k - 1] = g[place] /\ s[k - 1] = Space
      BY <2>2, <2>6, <2>7
    <2> HIDE DEF Still
    <2>9. g[k] = Append(g[k - 1], k)
      BY <1>3, <2>2, <2>8
    <2>10. g[k] = First((n + 1) + 1)
      BY <2>2, <2>3, <2>8, <2>9
    <2> QED BY <2>1, <2>10 DEF Good, k
  <1>9. g[P(N)] = First(N)
    <2> DEFINE M == N - 1
    <2>1. M \in Nat /\ M + 1 = N
      BY <1>1
    <2>2. \A n \in 0..(M - 1) : n \in Good => n + 1 \in Good
      BY <1>8
    <2> HIDE DEF M, Good
    <2>3. \A n \in 0..M : n \in Good
      BY ONLY <1>7, <2>1, <2>2, Counting
    <2> QED BY <2>1, <2>3 DEF Good, M
  <1>10. Starts(s) = First(N)
    BY <1>1, <1>3, <1>9
  <1> QED BY <1>10 DEF s, First, N, P, w

LEMMA OneOf ==
  ASSUME NEW s \in Seq(Token), NEW k \in 1..Len(s)
  PROVE  SubSeq(s, k, k) = <<s[k]>>
  <1> DEFINE one == SubSeq(s, k, k)
  <1>1. k \in Int /\ \A x \in k..k : s[x] \in Token
    OBVIOUS
  <1>2. one \in Seq(Token)
    BY <1>1, SubSeqProperties
  <1>3. Len(one) = 1
    BY <1>1, SubSeqProperties
  <1>4. one[1] = s[k]
    <2>1. \A x \in 1..(k - k + 1) : one[x] = s[k + x - 1]
      BY <1>1, SubSeqProperties
    <2> HIDE DEF one
    <2>2. 1 \in 1..(k - k + 1) /\ k + 1 - 1 = k
      BY <1>1
    <2> QED BY <2>1, <2>2
  <1> HIDE DEF one
  <1>5. one = <<one[1]>>
    BY <1>2, <1>3
  <1> QED BY <1>4, <1>5 DEF one

LEMMA ArgumentIs ==
  ASSUME NEW names \in Seq(Plain), names # <<>>, NEW gap \in Seq({Space}),
         gap # <<>> \/ Len(names) = 1, NEW n \in 1..Len(names)
  PROVE  Argument(Spread(names, gap), PlaceOf(n, Len(gap) + 1)) = <<names[n]>>
  <1> DEFINE s == Spread(names, gap)
             w == Len(gap) + 1
             N == Len(names)
             k == PlaceOf(n, w)
             Ends(e) == (e = Len(s) \/ s[e + 1] = Space) /\ \A m \in k..e : s[m] # Space
  <1>1. /\ s \in Seq(Token) /\ w \in Nat \ {0} /\ N \in Nat \ {0} /\ (w > 1 \/ N = 1)
        /\ k \in 1..Len(s) /\ s[k] = names[n] /\ names[n] \in Plain
        /\ n = N => k = Len(s)
        /\ n \in 1..(N - 1) => \A d \in 1..(w - 1) : s[k + d] = Space
    BY PlacesOf
  <1>2. s[k] # Space /\ Len(s) \in Nat
    BY <1>1, TokensDiffer
  <1>3. k = Len(s) \/ s[k + 1] = Space
    <2>1. n = N \/ n \in 1..(N - 1)
      OBVIOUS
    <2> HIDE DEF s, w, k, N
    <2>2. n \in 1..(N - 1) => 1 \in 1..(w - 1)
      <3>1. n \in 1..(N - 1) => N # 1
        BY <1>1
      <3> QED BY <1>1, <3>1
    <2> QED BY <1>1, <2>1, <2>2
  <1> HIDE DEF s, w, N, k
  <1>4. k \in k..Len(s) /\ Ends(k)
    BY <1>1, <1>2, <1>3
  <1>5. ASSUME NEW e \in k..Len(s), Ends(e) PROVE e = k
    <2>1. e > k => k + 1 \in k..e /\ k # Len(s)
      BY <1>1, <1>2
    <2> QED BY <1>1, <1>2, <1>3, <1>5, <2>1
  <1> HIDE DEF Ends
  <1>6. (CHOOSE e \in k..Len(s) : Ends(e)) = k
    BY <1>4, <1>5
  <1>7. Argument(s, k) = SubSeq(s, k, k)
    BY <1>6 DEF Argument, Ends
  <1>8. SubSeq(s, k, k) = <<s[k]>>
    <2>1. s \in Seq(Token) /\ k \in 1..Len(s)
      BY <1>1
    <2> QED BY ONLY <2>1, OneOf, Zenon
  <1> QED BY <1>1, <1>7, <1>8 DEF s, k, w

\* What is taken apart are the names on the line.
LEMMA NamesAreParsed ==
  ASSUME NEW line \in IniLine, NEW value, Content(value) = Names(line)
  PROVE  shell_parse(value) = [n \in DOMAIN line.names |-> <<line.names[n]>>]
  <1> DEFINE names == line.names
             gap == line.gap
             s == Names(line)
             w == Len(gap) + 1
             N == Len(names)
  <1>1. /\ names \in Seq(Plain) /\ names # <<>> /\ gap \in Seq({Space})
        /\ gap # <<>> \/ Len(names) = 1
    BY LineIs
  <1>2. DOMAIN names = 1..N
    BY <1>1
  <1>3. s = Spread(names, gap)
    BY DEF Names
  <1> HIDE DEF names, gap, s, w
  <1>4. Starts(s) = [n \in 1..N |-> PlaceOf(n, w)]
    BY <1>1, <1>3, StartsAreNames DEF w
  <1>5. \A n \in 1..N : Argument(s, PlaceOf(n, w)) = <<names[n]>>
    BY <1>1, <1>3, ArgumentIs DEF w
  <1> HIDE DEF N
  <1>6. Arguments(s, Starts(s)) = [n \in 1..N |-> <<names[n]>>]
    BY <1>4, <1>5 DEF Arguments
  <1>7. shell_parse(value) = Arguments(s, Starts(s))
    <2>1. {Content(value)} = {s}
      BY DEF s
    <2>2. UNION {{Arguments(x, starts) : starts \in {Starts(x)}} : x \in {s}} =
            {Arguments(s, Starts(s))}
      OBVIOUS
    <2> QED BY <2>1, <2>2 DEF shell_parse
  <1> QED BY <1>2, <1>6, <1>7 DEF names

\* The first line for a key, as the program takes it from the text.
LEMMA NamedIsRead ==
  ASSUME NEW lines \in Seq(IniLine), NEW key, \E n \in DOMAIN lines : IsFor(key, lines[n]),
         NEW value \in Seq(Token)
  PROVE  shell_parse(get_key_value(key, Text(lines), value)) =
           [n \in DOMAIN Named(key, lines) |-> <<Named(key, lines)[n]>>]
  <1> DEFINE IsFirst(k) == IsFor(key, lines[k]) /\ \A m \in 1..(k - 1) : ~IsFor(key, lines[m])
             K == CHOOSE k \in DOMAIN lines : IsFirst(k)
             N == Len(lines)
             text == Text(lines)
  <1>1. N \in Nat /\ DOMAIN lines = 1..N
    OBVIOUS
  <1>2. \E k \in DOMAIN lines : IsFirst(k)
    <2> DEFINE T == {n \in 1..N : IsFor(key, lines[n])}
    <2>1. T # {} /\ T \subseteq Nat
      BY <1>1
    <2>2. PICK x \in T : \A y \in T : ~(<<y, x>> \in Less)
      <3> HIDE DEF T
      <3> QED BY ONLY <2>1, LessIsWellFounded, WFMin
    <2>3. ASSUME NEW m \in 1..(x - 1) PROVE ~IsFor(key, lines[m])
      <3>1. m \in Nat /\ x \in Nat /\ m < x /\ m \in 1..N
        BY <1>1
      <3>2. <<m, x>> \in Less
        BY <3>1, LessIsLess
      <3> QED BY <2>2, <3>1, <3>2
    <2> QED BY <1>1, <2>3
  <1>3. K \in DOMAIN lines /\ IsFirst(K)
    BY <1>2
  <1>4. Named(key, lines) = lines[K].names
    BY DEF Named
  <1> HIDE DEF K
  <1>5. text \in Seq(Token) /\ BeginsWith(text, TextTo(lines, K))
    <2>1. N \in 0..N /\ K \in 0..N
      BY <1>1, <1>3
    <2>2. text \in Seq(Token)
      BY <2>1, TextIs DEF Text
    <2>3. BeginsWith(text, TextTo(lines, N)) /\ Len(text) \in Nat
      BY <2>2 DEF BeginsWith, Text
    <2> HIDE DEF text, N
    <2>4. \A k \in 0..N : BeginsWith(text, TextTo(lines, k))
      BY <2>1, <2>3, TextGrows DEF N
    <2> QED BY <2>1, <2>2, <2>4
  <1> HIDE DEF text
  <1> DEFINE s == Scanned(key, text, value)[Len(text)]
  <1>6. Answers(Names(lines[K]), s) /\ lines[K] \in IniLine
    <2>1. Len(text) \in Nat
      BY <1>5
    <2> HIDE DEF s
    <2>2. Answers(Names(lines[K]), s)
      BY <1>3, <1>5, <2>1, KeyIsFound DEF s
    <2> QED BY <1>1, <1>3, <2>2
  <1>7. get_key_value(key, text, value) = s.value
    BY DEF get_key_value
  <1> HIDE DEF s
  <1>8. Content(s.value) = Names(lines[K])
    <2> DEFINE S == Names(lines[K])
    <2>1. S \in Seq(Token) /\ \A j \in 1..Len(S) : S[j] # NUL
      <3> DEFINE line == lines[K]
      <3>1. line \in IniLine
        BY <1>6
      <3> HIDE DEF line
      <3>2. S \in Seq(Token) /\ \A m \in 1..Len(S) : S[m] \in Plain \/ S[m] = Space
        BY <3>1, LineIs, SpreadIs DEF Names, line
      <3> QED BY <3>2, TokensDiffer
    <2> HIDE DEF S
    <2> QED BY <1>6, <2>1, ContentIs DEF S
  <1>9. shell_parse(s.value) = [n \in DOMAIN lines[K].names |-> <<lines[K].names[n]>>]
    BY <1>6, <1>8, NamesAreParsed
  <1> QED BY <1>4, <1>7, <1>9 DEF text

-----------------------------------------------------------------------------
(* Main, the interrupt and the copies.                                     *)

USE LayoutAssumption

Loop == {"read", "draw", "dma"}
Playing == {"pieces", "wav", "play"}

\* Picture k has been loaded, drawn, and offered to the screen.
Done(k) == pc \in Loop => k < i

\* What boot.ini led to.
Setup ==
  /\ ini \in Inis /\ buf = Text(ini) /\ DOMAIN mem = 0..WavUnit
  /\ pc \in {"find", "parse", "timer"} \cup Loop \cup Playing
  /\ pc = "parse" => bmpfilenames = get_key_value("BMP", buf, Buffer)
  /\ argv = IF pc \in {"find", "parse"} THEN <<>> ELSE Pictures(ini)
  /\ pc \in {"find", "parse"} => i = 0 /\ p = 0 /\ dma = -1 /\ shown = -1
  /\ pc \notin Playing => ~timer /\ bmpi = 0
  /\ pc \in Playing => p = WavUnit

\* Where the loop is, and what it has just put into memory.
AtPicture ==
  pc \in Loop =>
    /\ i \in 0..(argc - 1) /\ p = 2 * i
    /\ pc = "draw" => mem[p] = File(argv[i + 1])
    /\ pc = "dma" => mem[p + 1] = Image(argv[i + 1])

ImagesKept == \A k \in 0..(argc - 1) : Done(k) => mem[2 * k + 1] = Image(argv[k + 1])
IndexKept == argc > 0 => bmpi \in 0..(argc - 1)
CopyKept == dma # -1 /\ argc > 0 => \E k \in 0..(argc - 1) : Done(k) /\ dma = 2 * k + 1
ScreenKept ==
  shown # -1 /\ argc > 0 => shown \in 0..(argc - 1) /\ mem[ScreenUnit] = Image(argv[shown + 1])

SInv == Setup /\ AtPicture /\ ImagesKept /\ IndexKept /\ CopyKept /\ ScreenKept

LEMMA PictureNames ==
  ASSUME Setup
  PROVE  /\ argv \in Seq({<<w>> : w \in Files}) /\ argc \in Nat /\ 2 * argc <= ScreenUnit
         /\ \A k \in 0..(argc - 1) : argv[k + 1] \in {<<w>> : w \in Files}
  <1>1. argv \in Seq({<<w>> : w \in Files}) /\ 2 * argc <= ScreenUnit
    <2>1. CASE pc \in {"find", "parse"}
      BY <2>1 DEF Setup, argc
    <2>2. CASE pc \notin {"find", "parse"}
      BY <2>2, PicturesAssumption DEF Setup, argc
    <2> QED BY <2>1, <2>2
  <1> QED BY <1>1 DEF argc

LEMMA ParsePicturesStep ==
  ASSUME SInv, ParsePictures
  PROVE  SInv'
  <1>1. /\ pc = "parse" /\ argv' = Pictures(ini) /\ ini' = ini /\ buf' = buf /\ mem' = mem
        /\ pc' \in {"timer", "read"} /\ (pc' = "timer" <=> argv' = <<>>)
        /\ i' = 0 /\ p' = 0 /\ dma' = -1 /\ shown' = -1 /\ timer' = timer /\ bmpi' = bmpi
        /\ ~timer /\ bmpi = 0
    BY DEF ParsePictures, SInv, Setup, texts, Pictures, Loop, Playing
  <1>2. Setup'
    BY <1>1 DEF SInv, Setup, Loop, Playing
  <1>3. argv' \in Seq({<<w>> : w \in Files}) /\ argc' = Len(argv')
    BY <1>1, PicturesAssumption DEF SInv, Setup, argc
  <1>4. argc' \in Nat /\ (argc' = 0 <=> argv' = <<>>)
    BY <1>3
  <1>5. \A k \in 0..(argc' - 1) : ~Done(k)'
    <2>1. CASE pc' = "timer"
      BY <1>1, <1>4, <2>1
    <2>2. CASE pc' = "read"
      BY <1>1, <2>2 DEF Done, Loop
    <2> QED BY <1>1, <2>1, <2>2
  <1>6. ImagesKept'
    BY <1>5 DEF ImagesKept
  <1>7. AtPicture'
    <2>1. CASE pc' = "timer"
      BY <2>1 DEF AtPicture, Loop
    <2>2. CASE pc' = "read"
      <3>1. i' \in 0..(argc' - 1) /\ p' = 2 * i'
        <4>1. Len(argv') > 0 /\ Len(argv') \in Nat
          BY <1>1, <1>3, <1>4, <2>2
        <4> QED BY <1>1, <4>1 DEF argc
      <3> QED BY <2>2, <3>1 DEF AtPicture
    <2> QED BY <1>1, <2>1, <2>2
  <1>8. IndexKept'
    <2>1. bmpi' = 0
      BY <1>1
    <2>2. Len(argv') \in Nat
      BY <1>3, <1>4
    <2> QED BY <2>1, <2>2 DEF IndexKept, argc
  <1>9. CopyKept' /\ ScreenKept'
    BY <1>1 DEF CopyKept, ScreenKept
  <1> QED BY <1>2, <1>6, <1>7, <1>8, <1>9 DEF SInv

LEMMA ReadPictureStep ==
  ASSUME SInv, ReadPicture
  PROVE  SInv'
  <1>1. /\ pc = "read" /\ pc' = "draw" /\ mem' = Read(argv[i + 1], p)
        /\ UNCHANGED <<texts, argv, wargv, i, p, bmpi, timer, dma, shown>>
    BY DEF ReadPicture
  <1>2. /\ argc \in Nat /\ 2 * argc <= ScreenUnit /\ i \in 0..(argc - 1) /\ p = 2 * i
        /\ argv[i + 1] \in {<<w>> : w \in Files} /\ DOMAIN mem = 0..WavUnit
    BY <1>1, PictureNames DEF SInv, Setup, AtPicture, Loop
  <1>3. mem' = [mem EXCEPT ![p] = File(argv[i + 1])]
    BY <1>1, <1>2 DEF Read
  <1>4. /\ mem'[p] = File(argv[i + 1]) /\ mem'[ScreenUnit] = mem[ScreenUnit]
        /\ \A k \in 0..(argc - 1) : mem'[2 * k + 1] = mem[2 * k + 1]
        /\ DOMAIN mem' = 0..WavUnit
    BY <1>2, <1>3
  <1>5. argc' = argc
    BY <1>1 DEF argc
  <1>6. Setup'
    BY <1>1, <1>4 DEF SInv, Setup, texts, Loop, Playing
  <1> QED BY <1>1, <1>2, <1>4, <1>5, <1>6
          DEF SInv, AtPicture, ImagesKept, IndexKept, CopyKept, ScreenKept, Done, Loop

LEMMA DrawPictureStep ==
  ASSUME SInv, DrawPicture
  PROVE  SInv'
  <1>1. /\ pc = "draw" /\ pc' = "dma"
        /\ mem' = [mem EXCEPT ![p + 1] = IF mem[p][1] = "file" THEN Image(mem[p][2]) ELSE Junk]
        /\ UNCHANGED <<texts, argv, wargv, i, p, bmpi, timer, dma, shown>>
    BY DEF DrawPicture
  <1>2. /\ argc \in Nat /\ 2 * argc <= ScreenUnit /\ i \in 0..(argc - 1) /\ p = 2 * i
        /\ mem[p] = File(argv[i + 1]) /\ DOMAIN mem = 0..WavUnit
    BY <1>1, PictureNames DEF SInv, Setup, AtPicture, Loop
  <1>3. mem' = [mem EXCEPT ![p + 1] = Image(argv[i + 1])]
    BY <1>1, <1>2 DEF File
  <1>4. /\ mem'[p + 1] = Image(argv[i + 1]) /\ mem'[ScreenUnit] = mem[ScreenUnit]
        /\ \A k \in 0..(argc - 1) : k < i => mem'[2 * k + 1] = mem[2 * k + 1]
        /\ DOMAIN mem' = 0..WavUnit
    BY <1>2, <1>3
  <1>5. argc' = argc
    BY <1>1 DEF argc
  <1>6. Setup'
    BY <1>1, <1>4 DEF SInv, Setup, texts, Loop, Playing
  <1> QED BY <1>1, <1>2, <1>4, <1>5, <1>6
          DEF SInv, AtPicture, ImagesKept, IndexKept, CopyKept, ScreenKept, Done, Loop

LEMMA ShowLoadedStep ==
  ASSUME SInv, ShowLoaded
  PROVE  SInv'
  <1>1. /\ pc = "dma" /\ pc' = (IF i + 1 = argc THEN "timer" ELSE "read")
        /\ p' = p + 2 /\ i' = i + 1 /\ dma' = (IF dma = -1 THEN p + 1 ELSE dma)
        /\ UNCHANGED <<texts, argv, wargv, bmpi, timer, mem, shown>>
    BY DEF ShowLoaded, Start, Stride
  <1>2. /\ argc \in Nat /\ 2 * argc <= ScreenUnit /\ i \in 0..(argc - 1) /\ p = 2 * i
        /\ mem[p + 1] = Image(argv[i + 1])
    BY <1>1, PictureNames DEF SInv, Setup, AtPicture, Loop
  <1>3. argc' = argc
    BY <1>1 DEF argc
  <1>4. Setup'
    BY <1>1 DEF SInv, Setup, texts, Loop, Playing
  <1>5. AtPicture'
    BY <1>1, <1>2, <1>3 DEF AtPicture, Loop
  <1>6. \A k \in 0..(argc - 1) : Done(k)' => Done(k) \/ k = i
    BY <1>1, <1>2 DEF Done, Loop
  <1>7. ImagesKept'
    BY <1>1, <1>2, <1>3, <1>6 DEF SInv, ImagesKept
  <1>8. CopyKept'
    <2> SUFFICES ASSUME dma' # -1 PROVE \E k \in 0..(argc - 1) : Done(k)' /\ dma' = 2 * k + 1
      BY <1>3 DEF CopyKept
    <2>1. \A k \in 0..(argc - 1) : Done(k) \/ k = i => Done(k)'
      BY <1>1, <1>2 DEF Done, Loop
    <2>2. CASE dma = -1
      BY <1>1, <1>2, <2>1, <2>2
    <2>3. CASE dma # -1
      BY <1>1, <1>2, <2>1, <2>3 DEF SInv, CopyKept
    <2> QED BY <2>2, <2>3
  <1> QED BY <1>1, <1>3, <1>4, <1>5, <1>7, <1>8 DEF SInv, IndexKept, ScreenKept

\* The steps of main after the loop: the pictures are all done.
LEMMA PlayingStep ==
  ASSUME SInv, StartTimer \/ ParsePieces \/ PlayWav
  PROVE  SInv'
  <1>1. /\ pc \in {"timer"} \cup Playing /\ pc' \in Playing /\ p' = WavUnit
        /\ UNCHANGED <<ini, buf, argv, dma, mem, shown>>
        /\ bmpi' = bmpi
    BY DEF StartTimer, ParsePieces, PlayWav, SInv, Setup, Playing, Loop, texts
  <1>2. argc' = argc
    BY <1>1 DEF argc
  <1>3. Setup'
    BY <1>1 DEF SInv, Setup, Playing, Loop
  <1>4. AtPicture' /\ \A k : Done(k) /\ Done(k)'
    BY <1>1 DEF AtPicture, Done, Playing, Loop
  <1> QED BY <1>1, <1>2, <1>3, <1>4
          DEF SInv, ImagesKept, IndexKept, CopyKept, ScreenKept

LEMMA ReadWavStep ==
  ASSUME SInv, ReadWav
  PROVE  SInv'
  <1>1. /\ pc = "wav" /\ pc' = "play" /\ mem' = Read(wargv[i + 1], p)
        /\ UNCHANGED <<texts, argv, wargv, i, p, bmpi, timer, dma, shown>>
    BY DEF ReadWav
  <1>2. /\ argc \in Nat /\ 2 * argc <= ScreenUnit /\ p = WavUnit /\ DOMAIN mem = 0..WavUnit
    BY <1>1, PictureNames DEF SInv, Setup, Playing
  <1>3. /\ DOMAIN mem' = 0..WavUnit /\ mem'[ScreenUnit] = mem[ScreenUnit]
        /\ \A k \in 0..(argc - 1) : mem'[2 * k + 1] = mem[2 * k + 1]
    BY <1>1, <1>2 DEF Read
  <1>4. argc' = argc
    BY <1>1 DEF argc
  <1>5. Setup'
    BY <1>1, <1>3 DEF SInv, Setup, texts, Loop, Playing
  <1>6. AtPicture' /\ \A k : Done(k) /\ Done(k)'
    BY <1>1 DEF AtPicture, Done, Loop
  <1> QED BY <1>1, <1>3, <1>4, <1>5, <1>6
          DEF SInv, ImagesKept, IndexKept, CopyKept, ScreenKept

LEMMA TickStep ==
  ASSUME SInv, Tick
  PROVE  SInv'
  <1>1. /\ timer /\ dma = -1 /\ dma' = 2 * bmpi + 1 /\ bmpi' = After(bmpi)
        /\ UNCHANGED <<texts, pc, argv, wargv, i, p, timer, mem, shown>>
    BY DEF Tick, Start, Stride
  <1>2. pc \in Playing
    BY <1>1 DEF SInv, Setup
  <1>3. argc' = argc /\ argc \in Nat
    BY <1>1, PictureNames DEF argc, SInv
  <1>4. Setup' /\ AtPicture' /\ \A k : Done(k)'
    BY <1>1, <1>2 DEF SInv, Setup, AtPicture, Done, texts, Loop, Playing
  <1>5. ImagesKept' /\ ScreenKept'
    BY <1>1, <1>2, <1>3 DEF SInv, ImagesKept, ScreenKept, Done, Loop, Playing
  <1>6. IndexKept' /\ CopyKept'
    BY <1>1, <1>3, <1>4 DEF SInv, IndexKept, CopyKept, After
  <1> QED BY <1>4, <1>5, <1>6 DEF SInv

LEMMA CopiedStep ==
  ASSUME SInv, Copied
  PROVE  SInv'
  <1>1. /\ dma # -1 /\ mem' = [mem EXCEPT ![ScreenUnit] = mem[dma]] /\ shown' = dma \div 2
        /\ dma' = -1 /\ UNCHANGED <<texts, pc, argv, wargv, i, p, bmpi, timer>>
    BY DEF Copied
  <1>2. /\ argc \in Nat /\ 2 * argc <= ScreenUnit /\ DOMAIN mem = 0..WavUnit
    BY PictureNames DEF SInv, Setup
  <1>3. argc' = argc
    BY <1>1 DEF argc
  <1>4. /\ DOMAIN mem' = 0..WavUnit /\ mem'[ScreenUnit] = mem[dma]
        /\ \A k \in 0..(argc - 1) : mem'[2 * k] = mem[2 * k] /\ mem'[2 * k + 1] = mem[2 * k + 1]
    BY <1>1, <1>2
  <1>5. Setup'
    BY <1>1, <1>4 DEF SInv, Setup, texts, Loop, Playing
  <1>6. AtPicture'
    BY <1>1, <1>3, <1>4 DEF SInv, AtPicture, Loop
  <1>7. ImagesKept' /\ IndexKept' /\ CopyKept'
    BY <1>1, <1>3, <1>4 DEF SInv, ImagesKept, IndexKept, CopyKept, Done
  <1>8. ScreenKept'
    <2> SUFFICES ASSUME argc > 0
                 PROVE  shown' \in 0..(argc - 1) /\ mem'[ScreenUnit] = Image(argv[shown' + 1])
      BY <1>1, <1>3 DEF ScreenKept
    <2>1. PICK k \in 0..(argc - 1) : Done(k) /\ dma = 2 * k + 1
      BY <1>1 DEF SInv, CopyKept
    <2>2. shown' = k
      BY <1>1, <2>1
    <2>3. mem[dma] = Image(argv[k + 1])
      BY <2>1 DEF SInv, ImagesKept
    <2> QED BY <1>4, <2>2, <2>3
  <1> QED BY <1>5, <1>6, <1>7, <1>8 DEF SInv

LEMMA MemoryStays == SInv /\ [Next]_vars => SInv'
  <1> SUFFICES ASSUME SInv, [Next]_vars PROVE SInv'
    OBVIOUS
  <1>1. CASE FindPictures
    BY <1>1 DEF FindPictures, SInv, Setup, AtPicture, ImagesKept, IndexKept, CopyKept, ScreenKept,
                argc, Loop, Playing
  <1>2. CASE ParsePictures
    BY <1>2, ParsePicturesStep
  <1>3. CASE ReadPicture
    BY <1>3, ReadPictureStep
  <1>4. CASE DrawPicture
    BY <1>4, DrawPictureStep
  <1>5. CASE ShowLoaded
    BY <1>5, ShowLoadedStep
  <1>6. CASE StartTimer \/ ParsePieces \/ PlayWav
    BY <1>6, PlayingStep
  <1>7. CASE ReadWav
    BY <1>7, ReadWavStep
  <1>8. CASE Tick
    BY <1>8, TickStep
  <1>9. CASE Copied
    BY <1>9, CopiedStep
  <1>10. CASE UNCHANGED vars
    BY <1>10 DEF vars, texts, SInv, Setup, AtPicture, ImagesKept, IndexKept, CopyKept, ScreenKept,
                 argc, Done
  <1> QED BY <1>1, <1>2, <1>3, <1>4, <1>5, <1>6, <1>7, <1>8, <1>9, <1>10 DEF Next, Main

LEMMA MemoryIsKept == Spec => []SInv
  <1>1. Init => SInv
    BY DEF Init, SInv, Setup, AtPicture, ImagesKept, IndexKept, CopyKept, ScreenKept, argc, Loop,
           Playing
  <1> QED BY <1>1, MemoryStays, PTL DEF Spec

\* With any number of pictures that fits below the frame buffer, any names and any
\* interleaving of main, the interrupt and the copies: from the first copy on the
\* screen shows one of the pictures, whole, and it is the one the index stood for
\* (main.c:21-44, 111-180).
THEOREM ScreenShowsPictures == Spec => []ScreenIsPicture
  <1>1. SInv => ScreenIsPicture
    BY DEF SInv, ScreenKept, ScreenIsPicture
  <1> QED BY <1>1, MemoryIsKept, PTL

-----------------------------------------------------------------------------
(* The counters, and what the units hold.                                  *)

\* i counts the pictures, then the pieces; without a picture bmpi counts the
\* interrupts.
Counted ==
  /\ wargc \in Nat /\ bmpi \in Nat
  /\ IF pc \in {"find", "parse", "timer"} \cup Loop THEN i \in 0..argc
     ELSE i = 0 \/ i \in 0..(wargc - 1)
  /\ pc = "play" => i \in 0..(wargc - 1)
  /\ pc = "timer" => p \in 0..WavUnit
  /\ pc = "pieces" => i = 0 /\ wavfilenames = get_key_value("WAV", buf, Buffer)

Channel == dma \in -1..(WavUnit - 1) /\ shown \in -1..WavUnit
Units == \A u \in DOMAIN mem : mem[u][1] \in {"junk", "file", "image"}

CInv == Counted /\ Channel /\ Units

LEMMA TypesFollow == SInv /\ CInv => TypeOK
  <1> SUFFICES ASSUME SInv, CInv PROVE TypeOK
    OBVIOUS
  <1>1. argc \in Nat /\ 2 * argc <= ScreenUnit
    BY PictureNames DEF SInv
  <1>2. i \in 0..argc \cup 0..wargc
    BY <1>1 DEF CInv, Counted
  <1>3. p \in 0..WavUnit
    BY <1>1, <1>2 DEF SInv, CInv, Counted, Setup, AtPicture, Loop, Playing
  <1> QED BY <1>1, <1>2, <1>3 DEF SInv, CInv, Setup, IndexKept, Channel, Units, Loop, Playing, TypeOK

LEMMA CopiesStay ==
  ASSUME SInv, CInv, [Next]_vars
  PROVE  Channel'
  <1>1. argc \in Nat /\ 2 * argc <= ScreenUnit
    BY PictureNames DEF SInv
  <1> USE DEF CInv, Channel
  <1>2. CASE ShowLoaded
    <2>1. i \in 0..(argc - 1) /\ p = 2 * i
      BY <1>2 DEF SInv, AtPicture, Loop, ShowLoaded
    <2> QED BY <1>1, <1>2, <2>1 DEF ShowLoaded, Start
  <1>3. CASE Tick
    <2>1. Stride * bmpi + 1 \in 0..(WavUnit - 1)
      BY <1>3 DEF Tick, Counted, IndexInMemory, Stride
    <2> QED BY <1>3, <2>1 DEF Tick, Start
  <1>4. CASE Copied
    <2>1. dma \div 2 \in 0..WavUnit
      BY <1>4 DEF Copied
    <2> QED BY <1>4, <2>1 DEF Copied
  <1>5. CASE ~ShowLoaded /\ ~Tick /\ ~Copied
    BY <1>5 DEF Next, Main, FindPictures, ParsePictures, ReadPicture, DrawPicture, StartTimer,
                ParsePieces, ReadWav, PlayWav, vars
  <1> QED BY <1>2, <1>3, <1>4, <1>5

LEMMA UnitsStay ==
  ASSUME SInv, CInv, [Next]_vars
  PROVE  Units'
  <1>1. DOMAIN mem = 0..WavUnit
    BY DEF SInv, Setup
  <1> USE DEF CInv, Units
  <1>2. ASSUME NEW name, NEW unit, mem' = Read(name, unit) PROVE Units'
    BY <1>2 DEF Read, File
  <1>3. CASE ReadPicture
    BY <1>2, <1>3 DEF ReadPicture
  <1>4. CASE ReadWav
    BY <1>2, <1>4 DEF ReadWav
  <1>5. CASE DrawPicture
    BY <1>5 DEF DrawPicture, Image, Junk
  <1>6. CASE Copied
    <2>1. dma \in DOMAIN mem
      BY <1>1, <1>6 DEF Copied, Channel
    <2> QED BY <1>6, <2>1 DEF Copied
  <1>7. CASE ~ReadPicture /\ ~ReadWav /\ ~DrawPicture /\ ~Copied
    BY <1>7 DEF Next, Main, FindPictures, ParsePictures, ShowLoaded, StartTimer, ParsePieces,
                PlayWav, Tick, vars
  <1> QED BY <1>3, <1>4, <1>5, <1>6, <1>7

PicturesFit == argc \in Nat /\ 2 * argc <= ScreenUnit
LEMMA NamesNext == Setup' => PicturesFit'
  <1>1. Setup => PicturesFit
    BY PictureNames DEF PicturesFit
  <1> QED BY <1>1, PTL

LEMMA CountersStay ==
  ASSUME SInv, CInv, [Next]_vars
  PROVE  Counted'
  <1>1. argc \in Nat /\ 2 * argc <= ScreenUnit
    BY PictureNames DEF SInv
  <1>2. SInv'
    BY MemoryStays
  <1>3. argc' \in Nat /\ 2 * argc' <= ScreenUnit
    BY <1>2, NamesNext DEF SInv, PicturesFit
  <1> USE DEF CInv, Counted
  <1>4. CASE FindPictures
    BY <1>4 DEF FindPictures, argc, wargc, Loop
  <1>5. CASE ParsePictures
    BY <1>1, <1>3, <1>5 DEF ParsePictures, SInv, Setup, argc, wargc, Loop
  <1>6. CASE ReadPicture
    BY <1>6 DEF ReadPicture, argc, wargc, Loop
  <1>7. CASE DrawPicture
    BY <1>7 DEF DrawPicture, argc, wargc, Loop
  <1>8. CASE ShowLoaded
    <2>1. i \in 0..(argc - 1) /\ p = 2 * i /\ argc' = argc /\ wargc' = wargc
      BY <1>8 DEF SInv, AtPicture, Loop, ShowLoaded, argc, wargc
    <2> QED BY <1>1, <1>8, <2>1 DEF ShowLoaded, Stride, Loop
  <1>9. CASE StartTimer
    BY <1>9 DEF StartTimer, wargc, Loop
  <1>10. CASE ParsePieces
    <2>1. wargv' = Pieces(ini)
      BY <1>10 DEF ParsePieces, Pieces, SInv, Setup
    <2>2. wargc' \in Nat
      BY <2>1, PiecesAssumption DEF wargc, SInv, Setup
    <2> QED BY <1>10, <2>2 DEF ParsePieces, Loop
  <1>11. CASE ReadWav
    BY <1>11 DEF ReadWav, wargc, Loop
  <1>12. CASE PlayWav
    <2>1. (i + 1) % wargc \in 0..(wargc - 1)
      BY <1>12 DEF PlayWav
    <2> QED BY <1>12, <2>1 DEF PlayWav, wargc, Loop
  <1>13. CASE Tick
    BY <1>13 DEF Tick, After, texts, argc, wargc, Loop
  <1>14. CASE Copied
    BY <1>14 DEF Copied, texts, argc, wargc, Loop
  <1>15. CASE UNCHANGED vars
    BY <1>15 DEF vars, texts, argc, wargc, Loop
  <1> QED BY <1>4, <1>5, <1>6, <1>7, <1>8, <1>9, <1>10, <1>11, <1>12, <1>13, <1>14, <1>15
          DEF Next, Main

\* Whatever boot.ini says and however main, the interrupt and the copies interleave:
\* the counters stay within the two lists, the index of the interrupt on a picture
\* there is, and the channel and p within memory (main.c:21-44, 111-180).
THEOREM TypeCorrect == Spec => []TypeOK
  <1>1. Init => CInv
    BY DEF Init, CInv, Counted, Channel, Units, argc, wargc, Junk, Loop
  <1>2. SInv /\ CInv /\ [Next]_vars => CInv'
    BY CountersStay, CopiesStay, UnitsStay DEF CInv
  <1> QED BY <1>1, <1>2, TypesFollow, MemoryIsKept, PTL DEF Spec

-----------------------------------------------------------------------------
(* boot.ini.                                                               *)

LEMMA IniSays ==
  ASSUME NEW key, SInv, Says(key)
  PROVE  shell_parse(get_key_value(key, Text(ini), Buffer)) = Words(Named(key, ini))
  <1>1. ini \in Seq(IniLine)
    BY IniAssumption DEF SInv, Setup
  <1>2. Buffer \in Seq(Token)
    BY TokensDiffer DEF Buffer
  <1>3. \E n \in DOMAIN ini : IsFor(key, ini[n])
    BY DEF Says
  <1>4. shell_parse(get_key_value(key, Text(ini), Buffer)) =
          [n \in DOMAIN Named(key, ini) |-> <<Named(key, ini)[n]>>]
    BY <1>1, <1>2, <1>3, NamedIsRead
  <1> QED BY <1>4 DEF Words

\* What is played is what the second reading of boot.ini gives.
PiecesTaken == pc \in {"wav", "play"} => wargv = Pieces(ini)

LEMMA PiecesStay ==
  ASSUME SInv, CInv, PiecesTaken, [Next]_vars
  PROVE  PiecesTaken'
  <1>1. CASE ParsePieces
    <2>1. wavfilenames = get_key_value("WAV", buf, Buffer) /\ buf = Text(ini) /\ ini' = ini
      BY <1>1 DEF ParsePieces, SInv, Setup, CInv, Counted, texts
    <2> QED BY <1>1, <2>1 DEF ParsePieces, Pieces, PiecesTaken
  <1>2. CASE ReadWav \/ PlayWav
    BY <1>2 DEF ReadWav, PlayWav, PiecesTaken, texts
  <1>3. CASE Tick \/ Copied \/ UNCHANGED vars
    BY <1>3 DEF Tick, Copied, vars, texts, PiecesTaken
  <1>4. CASE FindPictures \/ ParsePictures \/ ReadPicture \/ DrawPicture \/ ShowLoaded \/ StartTimer
    BY <1>4 DEF FindPictures, ParsePictures, ReadPicture, DrawPicture, ShowLoaded, StartTimer,
                PiecesTaken
  <1> QED BY <1>1, <1>2, <1>3, <1>4 DEF Next, Main

\* Whatever lines a boot.ini has, in any order, with any names and any number of
\* spaces, other keys and lines commented out around them: the program shows and plays
\* what the first line for the key names, in its order (lib.c:152-218, shell.c:2-26,
\* main.c:111-180).
THEOREM ArgumentsAreMeant == Spec => []ArgumentsAreNamed
  <1>1. Init => CInv
    BY DEF Init, CInv, Counted, Channel, Units, argc, wargc, Junk, Loop
  <1>2. SInv /\ CInv /\ [Next]_vars => CInv'
    BY CountersStay, CopiesStay, UnitsStay DEF CInv
  <1>3. Init => PiecesTaken
    BY DEF Init, PiecesTaken
  <1>4. SInv /\ CInv /\ PiecesTaken /\ [Next]_vars => PiecesTaken'
    BY PiecesStay
  <1>5. SInv /\ CInv /\ PiecesTaken => ArgumentsAreNamed
    <2> SUFFICES ASSUME SInv, CInv, PiecesTaken PROVE ArgumentsAreNamed
      OBVIOUS
    <2>1. ASSUME pc \notin {"find", "parse"}, Says("BMP") PROVE argv = Words(Named("BMP", ini))
      <3>1. argv = Pictures(ini)
        BY <2>1 DEF SInv, Setup
      <3> QED BY <2>1, <3>1, IniSays DEF Pictures
    <2>2. ASSUME timer, pc # "pieces", Says("WAV") PROVE wargv = Words(Named("WAV", ini))
      <3>1. pc \in {"wav", "play"}
        BY <2>2 DEF SInv, Setup, Playing
      <3>2. wargv = Pieces(ini)
        BY <3>1 DEF PiecesTaken
      <3> QED BY <2>2, <3>2, IniSays DEF Pieces
    <2> QED BY <2>1, <2>2 DEF ArgumentsAreNamed
  <1> QED BY <1>1, <1>2, <1>3, <1>4, <1>5, MemoryIsKept, PTL DEF Spec
=============================================================================
