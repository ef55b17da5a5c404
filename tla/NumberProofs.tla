----------------------------- MODULE NumberProofs -----------------------------
(***************************************************************************)
(* What the recursive functions of NumberHelper are.  TLA+ only says that  *)
(* such a function is chosen to satisfy its equation if anything does.     *)
(***************************************************************************)
EXTENDS NumberHelper, WellFoundedInduction, TLAPS

(* Induction over the natural numbers.                                     *)
LEMMA CountInduction ==
  ASSUME NEW S, S \subseteq Nat, 0 \in S, \A n \in S : n + 1 \in S
  PROVE  Nat \subseteq S
<1> SUFFICES ASSUME Nat \ S # {} PROVE FALSE
  OBVIOUS
<1> DEFINE R == OpToRel(<, Nat)
<1>1. \E x \in Nat \ S : \A y \in Nat \ S : ~(<<y, x>> \in R)
  BY NatLessThanWellFounded, WFMin, Zenon
<1>2. \A x, y \in Nat : x < y => <<x, y>> \in R
  BY Zenon DEF OpToRel
<1> HIDE DEF R
<1>3. PICK x \in Nat \ S : \A y \in Nat \ S : ~(y < x)
  BY <1>1, <1>2
<1>4. x - 1 \in S /\ x = (x - 1) + 1
  BY <1>3, SMT
<1> QED BY <1>4

(* A recursion on the natural numbers: it ends in Z with what b says, and   *)
(* goes down to p elsewhere.                                                *)
Descends(S, Z, b, p, g) ==
  /\ Z \in SUBSET Nat /\ b \in [Z -> S]
  /\ p \in [Nat \ Z -> Nat] /\ \A k \in Nat \ Z : p[k] < k
  /\ g \in [Nat \X S -> S]
UpTo(t, n, S, Z, b, p, g) ==
  /\ t \in [0..n -> S]
  /\ \A k \in 0..n : t[k] = IF k \in Z THEN b[k] ELSE g[<<k, t[p[k]]>>]

(* Two tables of one recursion agree,                                       *)
LEMMA UpToAgree ==
  ASSUME NEW S, NEW Z, NEW b, NEW p, NEW g, Descends(S, Z, b, p, g),
         NEW n \in Nat, NEW m \in Nat, n <= m,
         NEW t, UpTo(t, n, S, Z, b, p, g), NEW u, UpTo(u, m, S, Z, b, p, g)
  PROVE  \A k \in 0..n : t[k] = u[k]
<1> DEFINE Good == {k \in Nat : \A j \in 0..k : j <= n => t[j] = u[j]}
<1>1. ASSUME NEW j \in 0..n, j \notin Z => t[p[j]] = u[p[j]]
      PROVE  t[j] = u[j]
  <2>1. j \in 0..m
    OBVIOUS
  <2> QED BY <1>1, <2>1 DEF UpTo
<1>2. 0 \in Good
  <2>1. 0 \in Z
    BY DEF Descends
  <2>2. 0 \in 0..n
    OBVIOUS
  <2>3. t[0] = u[0]
    BY <1>1, <2>1, <2>2
  <2> QED BY <2>3
<1>3. ASSUME NEW k \in Good
      PROVE  k + 1 \in Good
  <2> SUFFICES ASSUME k + 1 <= n PROVE t[k + 1] = u[k + 1]
    OBVIOUS
  <2>1. ASSUME k + 1 \notin Z PROVE p[k + 1] \in 0..k /\ p[k + 1] <= n
    <3>1. p[k + 1] \in Nat /\ p[k + 1] < k + 1
      BY <2>1 DEF Descends
    <3> QED BY <3>1
  <2>2. k + 1 \in 0..n
    OBVIOUS
  <2>3. k + 1 \notin Z => t[p[k + 1]] = u[p[k + 1]]
    BY <2>1
  <2> HIDE DEF Good
  <2> QED BY <1>1, <2>2, <2>3
<1>4. Nat \subseteq Good
  <2>1. Good \subseteq Nat
    OBVIOUS
  <2> HIDE DEF Good
  <2> QED BY <1>2, <1>3, <2>1, CountInduction
<1> QED BY <1>4

(* there is one up to any number,                                           *)
LEMMA UpToExists ==
  ASSUME NEW S, NEW Z, NEW b, NEW p, NEW g, Descends(S, Z, b, p, g)
  PROVE  \A n \in Nat : \E t : UpTo(t, n, S, Z, b, p, g)
<1> DEFINE Good == {n \in Nat : \E t : UpTo(t, n, S, Z, b, p, g)}
<1>1. 0 \in Good
  <2>1. 0 \in Z
    BY DEF Descends
  <2>2. b[0] \in S
    BY <2>1 DEF Descends
  <2> DEFINE t == [k \in 0..0 |-> b[0]]
  <2>3. UpTo(t, 0, S, Z, b, p, g)
    BY <2>1, <2>2 DEF UpTo
  <2> QED BY <2>3
<1>2. ASSUME NEW n \in Good
      PROVE  n + 1 \in Good
  <2>1. PICK t : UpTo(t, n, S, Z, b, p, g)
    OBVIOUS
  <2> DEFINE new == IF n + 1 \in Z THEN b[n + 1] ELSE g[<<n + 1, t[p[n + 1]]>>]
             u == [k \in 0..(n + 1) |-> IF k = n + 1 THEN new ELSE t[k]]
  <2>2. n + 1 \notin Z => p[n + 1] \in 0..n
    <3>1. n + 1 \notin Z => p[n + 1] \in Nat /\ p[n + 1] < n + 1
      BY DEF Descends
    <3> QED BY <3>1
  <2>3. new \in S
    <3>1. CASE n + 1 \in Z
      BY <3>1 DEF Descends
    <3>2. CASE n + 1 \notin Z
      <4>1. t[p[n + 1]] \in S
        BY <2>1, <2>2, <3>2 DEF UpTo
      <4>2. <<n + 1, t[p[n + 1]]>> \in Nat \X S
        BY <4>1
      <4>3. g[<<n + 1, t[p[n + 1]]>>] \in S
        BY <4>2 DEF Descends
      <4> QED BY <3>2, <4>3
    <3> QED BY <3>1, <3>2
  <2>4. u \in [0..(n + 1) -> S]
    BY <2>1, <2>3 DEF UpTo
  <2>5. ASSUME NEW k \in 0..(n + 1)
        PROVE  u[k] = IF k \in Z THEN b[k] ELSE g[<<k, u[p[k]]>>]
    <3>1. CASE k = n + 1
      <4>1. n + 1 \notin Z => u[p[n + 1]] = t[p[n + 1]]
        BY <2>2
      <4>2. u[k] = new
        BY <3>1
      <4> HIDE DEF u
      <4> QED BY <3>1, <4>1, <4>2
    <3>2. CASE k # n + 1
      <4>1. k \in 0..n
        BY <3>2
      <4>2. k \notin Z => p[k] \in 0..n
        <5>1. k \notin Z => p[k] \in Nat /\ p[k] < k
          BY <4>1 DEF Descends
        <5> QED BY <4>1, <5>1
      <4>3. u[k] = t[k] /\ (k \notin Z => u[p[k]] = t[p[k]])
        BY <3>2, <4>2
      <4> HIDE DEF u
      <4> QED BY <2>1, <4>1, <4>3 DEF UpTo
    <3> QED BY <3>1, <3>2
  <2>6. UpTo(u, n + 1, S, Z, b, p, g)
    <3> HIDE DEF u
    <3> QED BY <2>4, <2>5 DEF UpTo
  <2> QED BY <2>6
<1>3. Good \subseteq Nat
  OBVIOUS
<1> HIDE DEF Good
<1>4. Nat \subseteq Good
  BY <1>1, <1>2, <1>3, CountInduction
<1> QED BY <1>4 DEF Good

(* so the recursion defines a function.                                     *)
LEMMA RecursionExists ==
  ASSUME NEW S, NEW Z, NEW b, NEW p, NEW g, Descends(S, Z, b, p, g)
  PROVE  \E t \in [Nat -> S] :
           t = [k \in Nat |-> IF k \in Z THEN b[k] ELSE g[<<k, t[p[k]]>>]]
<1> DEFINE u(n) == CHOOSE t : UpTo(t, n, S, Z, b, p, g)
           it == [n \in Nat |-> u(n)[n]]
<1>1. \A n \in Nat : UpTo(u(n), n, S, Z, b, p, g)
  BY UpToExists
<1> HIDE DEF u
<1>2. it \in [Nat -> S]
  <2>1. ASSUME NEW n \in Nat PROVE u(n)[n] \in S
    <3>1. u(n) \in [0..n -> S] /\ n \in 0..n
      BY <1>1 DEF UpTo
    <3> QED BY <3>1
  <2> QED BY <2>1
<1>3. ASSUME NEW k \in Nat
      PROVE  it[k] = IF k \in Z THEN b[k] ELSE g[<<k, it[p[k]]>>]
  <2>1. u(k)[k] = IF k \in Z THEN b[k] ELSE g[<<k, u(k)[p[k]]>>]
    <3>1. k \in 0..k
      OBVIOUS
    <3> QED BY <1>1, <3>1 DEF UpTo
  <2>2. ASSUME k \notin Z
        PROVE  it[p[k]] = u(k)[p[k]]
    <3>1. p[k] \in Nat /\ p[k] <= k
      <4>1. p[k] \in Nat /\ p[k] < k
        BY <2>2 DEF Descends
      <4> QED BY <4>1
    <3> DEFINE j == p[k]
    <3> HIDE DEF j
    <3>2. j \in Nat /\ j <= k /\ j \in 0..j
      BY <3>1 DEF j
    <3>3. u(j)[j] = u(k)[j]
      BY <1>1, <3>2, UpToAgree
    <3> QED BY <3>2, <3>3 DEF j
  <2>3. it[k] = u(k)[k]
    OBVIOUS
  <2> HIDE DEF it
  <2> QED BY <2>1, <2>2, <2>3
<1> HIDE DEF it
<1>4. it = [k \in Nat |-> IF k \in Z THEN b[k] ELSE g[<<k, it[p[k]]>>]]
  BY <1>2, <1>3
<1> QED BY <1>2, <1>4

(* The powers of ten,                                                       *)
LEMMA TenIs ==
  /\ Ten \in [Nat -> Nat \ {0}]
  /\ Ten[0] = 1
  /\ \A n \in Nat : Ten[n + 1] = 10 * Ten[n]
<1> DEFINE S == Nat \ {0}
           Z == {0}
           b == [k \in Z |-> 1]
           p == [k \in Nat \ Z |-> k - 1]
           g == [x \in Nat \X S |-> 10 * x[2]]
           Is(t) == t = [n \in Nat |-> IF n = 0 THEN 1 ELSE 10 * t[n - 1]]
<1>1. Descends(S, Z, b, p, g)
  <2>1. p \in [Nat \ Z -> Nat] /\ \A k \in Nat \ Z : p[k] < k
    OBVIOUS
  <2>2. g \in [Nat \X S -> S]
    <3>1. \A x \in Nat \X S : 10 * x[2] \in S
      OBVIOUS
    <3> QED BY <3>1
  <2> QED BY <2>1, <2>2 DEF Descends
<1>2. PICK t \in [Nat -> S] : t = [k \in Nat |-> IF k \in Z THEN b[k] ELSE g[<<k, t[p[k]]>>]]
  <2> HIDE DEF S, Z, b, p, g
  <2> QED BY <1>1, RecursionExists
<1>3. Is(t)
  <2>1. ASSUME NEW k \in Nat
        PROVE  t[k] = IF k = 0 THEN 1 ELSE 10 * t[k - 1]
    <3>1. CASE k = 0
      BY <1>2, <3>1
    <3>2. CASE k # 0
      <4>1. k \in Nat \ Z /\ p[k] = k - 1 /\ k - 1 \in Nat /\ t[k - 1] \in S
        BY <3>2
      <4>2. t[k] = g[<<k, t[k - 1]>>]
        BY <1>2, <4>1
      <4>3. <<k, t[k - 1]>> \in Nat \X S /\ <<k, t[k - 1]>>[2] = t[k - 1]
        BY <4>1
      <4> QED BY <3>2, <4>2, <4>3
    <3> QED BY <3>1, <3>2
  <2> QED BY <2>1
<1>4. Ten = CHOOSE u : Is(u)
  BY DEF Ten
<1>5. Is(Ten)
  <2> HIDE DEF Is
  <2> QED BY <1>3, <1>4
<1> HIDE DEF S, Z, b, p, g
<1>6. Ten = [n \in Nat |-> IF n = 0 THEN 1 ELSE 10 * Ten[n - 1]]
  BY <1>5
<1>7. Ten[0] = 1 /\ \A n \in Nat : Ten[n + 1] = 10 * Ten[n]
  BY <1>6
<1> DEFINE Good == {n \in Nat : Ten[n] \in Nat \ {0}}
<1>8. Nat \subseteq Good
  <2>1. 0 \in Good
    BY <1>7
  <2>2. ASSUME NEW n \in Good PROVE n + 1 \in Good
    BY <1>7
  <2>3. Good \subseteq Nat
    OBVIOUS
  <2> HIDE DEF Good
  <2> QED BY <2>1, <2>2, <2>3, CountInduction
<1> QED BY <1>6, <1>7, <1>8

(* the digits of a number,                                                  *)
Characters == {s \in Seq(Nat) : s # <<>>}

(* as Decimal is, a text of at least one character for every number,        *)
LEMMA DecimalIs ==
  \A n \in Nat : /\ Decimal[n] \in Characters
                 /\ Decimal[n] = IF n < 10 THEN <<Zero + n>>
                                 ELSE Append(Decimal[n \div 10], Zero + (n % 10))
<1> DEFINE S == Characters
           Z == 0..9
           b == [k \in Z |-> <<Zero + k>>]
           p == [k \in Nat \ Z |-> k \div 10]
           g == [x \in Nat \X S |-> Append(x[2], Zero + (x[1] % 10))]
           Is(t) == t = [n \in Nat |-> IF n < 10 THEN <<Zero + n>>
                                       ELSE Append(t[n \div 10], Zero + (n % 10))]
<1>1. Descends(S, Z, b, p, g)
  <2>1. p \in [Nat \ Z -> Nat] /\ \A k \in Nat \ Z : p[k] < k
    OBVIOUS
  <2>2. g \in [Nat \X S -> S]
    <3>1. ASSUME NEW x \in Nat \X S PROVE Append(x[2], Zero + (x[1] % 10)) \in S
      <4>1. x[2] \in Seq(Nat) /\ x[1] \in Nat
        BY DEF Characters
      <4>2. Zero + (x[1] % 10) \in Nat
        BY <4>1 DEF Zero
      <4> QED BY <4>1, <4>2 DEF Characters
    <3> QED BY <3>1
  <2>3. b \in [Z -> S] /\ Z \in SUBSET Nat
    BY DEF Zero, Characters
  <2> QED BY <2>1, <2>2, <2>3 DEF Descends
<1>2. PICK t \in [Nat -> S] : t = [k \in Nat |-> IF k \in Z THEN b[k] ELSE g[<<k, t[p[k]]>>]]
  <2> HIDE DEF S, Z, b, p, g
  <2> QED BY <1>1, RecursionExists
<1>3. Is(t)
  <2>1. ASSUME NEW k \in Nat
        PROVE  t[k] = IF k < 10 THEN <<Zero + k>> ELSE Append(t[k \div 10], Zero + (k % 10))
    <3>1. CASE k < 10
      <4>1. k \in Z
        BY <3>1
      <4>2. t[k] = b[k]
        BY <1>2, <4>1
      <4> QED BY <3>1, <4>1, <4>2
    <3>2. CASE ~(k < 10)
      <4>1. k \in Nat \ Z /\ p[k] = k \div 10 /\ k \div 10 \in Nat
        BY <3>2
      <4>2. t[k \div 10] \in S
        BY <4>1
      <4>3. t[k] = g[<<k, t[k \div 10]>>]
        BY <1>2, <4>1
      <4>4. <<k, t[k \div 10]>> \in Nat \X S
        BY <4>2
      <4> QED BY <3>2, <4>3, <4>4
    <3> QED BY <3>1, <3>2
  <2> QED BY <2>1
<1>4. Decimal = CHOOSE u : Is(u)
  BY DEF Decimal
<1>5. Is(Decimal)
  <2> HIDE DEF Is
  <2> QED BY <1>3, <1>4
<1>6. \A n \in Nat : Decimal[n] = IF n < 10 THEN <<Zero + n>>
                                  ELSE Append(Decimal[n \div 10], Zero + (n % 10))
  BY <1>5
<1> HIDE DEF S, Z, b, p, g, Is
<1> DEFINE Good == {n \in Nat : \A m \in 0..n : Decimal[m] \in Characters}
<1>7. ASSUME NEW n \in Nat, n < 10 \/ Decimal[n \div 10] \in Characters
      PROVE  Decimal[n] \in Characters
  <2>1. Zero + n \in Nat /\ Zero + (n % 10) \in Nat
    BY DEF Zero
  <2>2. CASE n < 10
    <3>1. Decimal[n] = <<Zero + n>>
      BY <1>6, <2>2
    <3> QED BY <2>1, <3>1 DEF Characters
  <2>3. CASE ~(n < 10)
    <3>1. Decimal[n] = Append(Decimal[n \div 10], Zero + (n % 10))
      BY <1>6, <2>3
    <3>2. Decimal[n \div 10] \in Seq(Nat)
      BY <1>7, <2>3 DEF Characters
    <3> QED BY <2>1, <3>1, <3>2 DEF Characters
  <2> QED BY <2>2, <2>3
<1>8. Nat \subseteq Good
  <2>1. 0 \in Good
    BY <1>7
  <2>2. ASSUME NEW n \in Good PROVE n + 1 \in Good
    <3>1. n + 1 < 10 \/ (n + 1) \div 10 \in 0..n
      OBVIOUS
    <3>2. Decimal[n + 1] \in Characters
      BY <1>7, <3>1
    <3> QED BY <3>2
  <2>3. Good \subseteq Nat
    OBVIOUS
  <2> HIDE DEF Good
  <2> QED BY <2>1, <2>2, <2>3, CountInduction
<1> QED BY <1>6, <1>8

-----------------------------------------------------------------------------
(* Texts read character by character. *)

(* What has been read after each character of a text, from start and by f.  *)
ReadBy(x, text, start, f) ==
  x[0] = start /\ \A k \in 1..Len(text) : x[k] = f[<<x[k - 1], text[k]>>]

(* A text is read from its start, a character at a time,                    *)
LEMMA ReadingExists ==
  ASSUME NEW S, NEW start \in S, NEW f \in [S \X Int -> S], NEW text \in Seq(Int)
  PROVE  \E x \in [0..Len(text) -> S] : ReadBy(x, text, start, f)
<1> DEFINE Z == {0}
           n == Len(text)
           b == [k \in Z |-> start]
           p == [k \in Nat \ Z |-> k - 1]
           g == [y \in Nat \X S |-> IF y[1] \in 1..n THEN f[<<y[2], text[y[1]]>>] ELSE start]
<1>0. n \in Nat
  OBVIOUS
<1>1. Descends(S, Z, b, p, g)
  <2>1. p \in [Nat \ Z -> Nat] /\ \A k \in Nat \ Z : p[k] < k
    OBVIOUS
  <2>2. g \in [Nat \X S -> S]
    <3>1. ASSUME NEW y \in Nat \X S
          PROVE  (IF y[1] \in 1..n THEN f[<<y[2], text[y[1]]>>] ELSE start) \in S
      <4>1. y[1] \in Nat /\ y[2] \in S
        OBVIOUS
      <4>2. y[1] \in 1..n => text[y[1]] \in Int
        OBVIOUS
      <4>3. y[1] \in 1..n => <<y[2], text[y[1]]>> \in S \X Int
        BY <4>1, <4>2
      <4> QED BY <4>3
    <3> QED BY <3>1
  <2>3. b \in [Z -> S] /\ Z \in SUBSET Nat /\ 0 \in Z
    OBVIOUS
  <2> QED BY <2>1, <2>2, <2>3 DEF Descends
<1> HIDE DEF n
<1>2. PICK x : UpTo(x, n, S, Z, b, p, g)
  <2> HIDE DEF Z, b, p, g
  <2> QED BY <1>0, <1>1, UpToExists
<1>3. x \in [0..n -> S] /\ x[0] = start
  <2>1. 0 \in 0..n
    BY <1>0
  <2> QED BY <1>2, <2>1 DEF UpTo
<1>4. ASSUME NEW k \in 1..n PROVE x[k] = f[<<x[k - 1], text[k]>>]
  <2>1. k \in Nat /\ k \in 0..n /\ k \notin Z /\ k - 1 \in 0..n /\ p[k] = k - 1
    BY <1>0
  <2>2. x[k] = g[<<k, x[k - 1]>>]
    BY <1>2, <2>1 DEF UpTo
  <2>3. <<k, x[k - 1]>> \in Nat \X S
    BY <1>3, <2>1
  <2> QED BY <2>2, <2>3
<1> QED BY <1>3, <1>4 DEF ReadBy, n

(* Another character changes nothing of what has been read before.          *)
ReadsOn(x, y, text, c, f) ==
  y[Len(text)] = x[Len(text)] /\ y[Len(text) + 1] = f[<<x[Len(text)], c>>]

(* and a longer one as the shorter is, and then its last character.         *)
LEMMA ReadingGoesOn ==
  ASSUME NEW start, NEW f, NEW text \in Seq(Int), NEW c \in Int,
         NEW longer, longer = Append(text, c),
         NEW x, ReadBy(x, text, start, f), NEW y, ReadBy(y, longer, start, f)
  PROVE  ReadsOn(x, y, text, c, f)
<1> DEFINE n == Len(text)
           Good == {k \in Nat : k <= n => y[k] = x[k]}
<1>1. /\ n \in Nat /\ Len(Append(text, c)) = n + 1 /\ Append(text, c)[n + 1] = c
      /\ \A k \in 1..n : Append(text, c)[k] = text[k]
  OBVIOUS
<1> HIDE DEF n
<1>2. 0 \in Good
  BY DEF ReadBy
<1>3. ASSUME NEW k \in Good PROVE k + 1 \in Good
  <2> SUFFICES ASSUME k + 1 <= n PROVE y[k + 1] = x[k + 1]
    OBVIOUS
  <2>1. k + 1 \in 1..n /\ k + 1 \in 1..(n + 1) /\ (k + 1) - 1 = k /\ k <= n
    BY <1>1
  <2>2. y[k] = x[k]
    BY <2>1
  <2>3. x[k + 1] = f[<<x[k], text[k + 1]>>]
    BY <2>1 DEF ReadBy, n
  <2>4. y[k + 1] = f[<<y[k], Append(text, c)[k + 1]>>]
    BY <1>1, <2>1 DEF ReadBy
  <2> QED BY <1>1, <2>1, <2>2, <2>3, <2>4
<1>4. n \in Good
  <2>1. Good \subseteq Nat
    OBVIOUS
  <2> HIDE DEF Good
  <2> QED BY <1>1, <1>2, <1>3, <2>1, CountInduction
<1>5. y[n] = x[n]
  BY <1>1, <1>4
<1>6. y[n + 1] = f[<<y[n], c>>]
  <2>1. n + 1 \in 1..(n + 1) /\ (n + 1) - 1 = n
    BY <1>1
  <2> QED BY <1>1, <2>1 DEF ReadBy
<1> QED BY <1>5, <1>6 DEF n, ReadsOn

(* What atoull has read.                                                    *)
Valued(x, text) == x = [k \in 0..Len(text) |-> IF k = 0 THEN 0 ELSE 10 * x[k - 1] + (text[k] - Zero)]
NextValue == [y \in Int \X Int |-> 10 * y[1] + (y[2] - Zero)]

(* Both ways of reading a text are of this kind: atoull                     *)
LEMMA AtoullReads ==
  ASSUME NEW text \in Seq(Int)
  PROVE  \E x \in [0..Len(text) -> Int] :
           ReadBy(x, text, 0, NextValue) /\ atoull(text) = x[Len(text)]
<1>1. NextValue \in [Int \X Int -> Int]
  BY DEF NextValue, Zero
<1>2. PICK t \in [0..Len(text) -> Int] : ReadBy(t, text, 0, NextValue)
  <2>1. 0 \in Int
    OBVIOUS
  <2> QED BY <1>1, <2>1, ReadingExists
<1>3. Valued(t, text)
  <2> DEFINE n == Len(text)
  <2>1. n \in Nat /\ \A k \in 1..n : text[k] \in Int
    OBVIOUS
  <2>2. ASSUME NEW k \in 0..n
        PROVE  t[k] = IF k = 0 THEN 0 ELSE 10 * t[k - 1] + (text[k] - Zero)
    <3>1. CASE k = 0
      BY <1>2, <3>1 DEF ReadBy
    <3>2. CASE k # 0
      <4>1. k \in 1..n /\ k - 1 \in 0..n
        BY <2>1, <3>2
      <4>2. t[k] = NextValue[<<t[k - 1], text[k]>>] /\ t[k - 1] \in Int /\ text[k] \in Int
        BY <1>2, <2>1, <4>1 DEF ReadBy
      <4> QED BY <3>2, <4>2 DEF NextValue
    <3> QED BY <3>1, <3>2
  <2> QED BY <1>2, <2>2 DEF Valued
<1> DEFINE x == CHOOSE x : Valued(x, text)
<1>4. Valued(x, text)
  BY <1>3
<1>5. atoull(text) = x[Len(text)]
  BY DEF atoull, Valued
<1> HIDE DEF x
<1>6. \A k \in 0..Len(text) : x[k] = IF k = 0 THEN 0 ELSE 10 * x[k - 1] + (text[k] - Zero)
  BY <1>4 DEF Valued
<1> DEFINE n == Len(text)
           Good == {k \in Nat : k <= n => x[k] = t[k]}
<1>7. n \in Nat /\ \A k \in 1..n : text[k] \in Int
  OBVIOUS
<1>8. 0 \in Good
  BY <1>2, <1>6, <1>7 DEF ReadBy
<1>9. ASSUME NEW k \in Good PROVE k + 1 \in Good
  <2> SUFFICES ASSUME k + 1 <= n PROVE x[k + 1] = t[k + 1]
    OBVIOUS
  <2> HIDE DEF n
  <2>1. k + 1 \in 1..n /\ k + 1 \in 0..n /\ (k + 1) - 1 = k /\ k <= n /\ k \in 0..n
    BY <1>7
  <2>2. x[k] = t[k] /\ t[k] \in Int /\ text[k + 1] \in Int
    BY <1>2, <1>7, <2>1 DEF n
  <2>3. t[k + 1] = 10 * t[k] + (text[k + 1] - Zero)
    <3>1. t[k + 1] = NextValue[<<t[k], text[k + 1]>>]
      BY <1>2, <2>1 DEF ReadBy, n
    <3> QED BY <2>2, <3>1 DEF NextValue
  <2>4. x[k + 1] = 10 * x[k] + (text[k + 1] - Zero)
    BY <1>6, <2>1 DEF n
  <2> QED BY <2>2, <2>3, <2>4
<1>10. n \in Good
  <2>1. Good \subseteq Nat
    OBVIOUS
  <2> HIDE DEF Good, n
  <2> QED BY <1>7, <1>8, <1>9, <2>1, CountInduction
<1>11. x[n] = t[n]
  BY <1>7, <1>10
<1> QED BY <1>2, <1>5, <1>11

(* What atof has read.                                                      *)
Numbers == [rez : Int, places : Nat, point_seen : BOOLEAN]
Unread == [rez |-> 0, places |-> 0, point_seen |-> FALSE]
ReadOne(n, c) ==
  IF c = Point THEN [n EXCEPT !.point_seen = TRUE]
  ELSE IF ~IsDigit(c) THEN n
  ELSE [n EXCEPT !.rez = 10 * @ + (c - Zero),
                 !.places = IF n.point_seen THEN @ + 1 ELSE @]
NextNumber == [y \in Numbers \X Int |-> ReadOne(y[1], y[2])]
Scanned(x, text) == x = [k \in 0..Len(text) |-> IF k = 0 THEN Unread ELSE ReadOne(x[k - 1], text[k])]
Number(text) == (CHOOSE x : Scanned(x, text))[Len(text)]

(* and atof, which keeps what it has read in a record.                      *)
LEMMA ReadOneIs == \A n \in Numbers, c \in Int : ReadOne(n, c) \in Numbers
<1> SUFFICES ASSUME NEW n \in Numbers, NEW c \in Int PROVE ReadOne(n, c) \in Numbers
  OBVIOUS
<1>1. n.rez \in Int /\ n.places \in Nat /\ n.point_seen \in BOOLEAN
      /\ n = [rez |-> n.rez, places |-> n.places, point_seen |-> n.point_seen]
  BY DEF Numbers
<1>2. CASE c = Point
  BY <1>1, <1>2 DEF ReadOne, Numbers
<1>3. CASE c # Point /\ ~IsDigit(c)
  BY <1>3 DEF ReadOne
<1>4. CASE c # Point /\ IsDigit(c)
  <2>1. ReadOne(n, c) = [rez |-> 10 * n.rez + (c - Zero),
                         places |-> IF n.point_seen THEN n.places + 1 ELSE n.places,
                         point_seen |-> n.point_seen]
    BY <1>1, <1>4 DEF ReadOne
  <2>2. 10 * n.rez + (c - Zero) \in Int
    BY <1>1 DEF Zero
  <2> QED BY <1>1, <2>1, <2>2 DEF Numbers
<1> QED BY <1>2, <1>3, <1>4

(* So atof has read the whole text,                                         *)
LEMMA NumberReads ==
  ASSUME NEW text \in Seq(Int)
  PROVE  \E x \in [0..Len(text) -> Numbers] :
           ReadBy(x, text, Unread, NextNumber) /\ Number(text) = x[Len(text)]
<1>1. NextNumber \in [Numbers \X Int -> Numbers] /\ Unread \in Numbers
  <2>1. \A y \in Numbers \X Int : ReadOne(y[1], y[2]) \in Numbers
    BY ReadOneIs
  <2> QED BY <2>1 DEF NextNumber, Unread, Numbers
<1>2. PICK t \in [0..Len(text) -> Numbers] : ReadBy(t, text, Unread, NextNumber)
  BY <1>1, ReadingExists
<1> DEFINE n == Len(text)
<1>3. n \in Nat /\ \A k \in 1..n : text[k] \in Int
  OBVIOUS
<1>4. ASSUME NEW k \in 1..n PROVE t[k] = ReadOne(t[k - 1], text[k])
  <2>1. k - 1 \in 0..n
    BY <1>3
  <2>2. t[k] = NextNumber[<<t[k - 1], text[k]>>] /\ t[k - 1] \in Numbers /\ text[k] \in Int
    BY <1>2, <1>3, <2>1 DEF ReadBy
  <2> QED BY <2>2 DEF NextNumber
<1>5. Scanned(t, text)
  <2>1. ASSUME NEW k \in 0..n
        PROVE  t[k] = IF k = 0 THEN Unread ELSE ReadOne(t[k - 1], text[k])
    BY <1>2, <1>4, <2>1 DEF ReadBy
  <2> QED BY <1>2, <2>1 DEF Scanned
<1> DEFINE x == CHOOSE x : Scanned(x, text)
<1>6. Scanned(x, text)
  BY <1>5
<1>7. Number(text) = x[Len(text)]
  BY DEF Number
<1> HIDE DEF x
<1>8. \A k \in 0..n : x[k] = IF k = 0 THEN Unread ELSE ReadOne(x[k - 1], text[k])
  BY <1>6 DEF Scanned
<1> DEFINE Good == {k \in Nat : k <= n => x[k] = t[k]}
<1> HIDE DEF n
<1>9. 0 \in Good
  BY <1>2, <1>3, <1>8 DEF ReadBy
<1>10. ASSUME NEW k \in Good PROVE k + 1 \in Good
  <2> SUFFICES ASSUME k + 1 <= n PROVE x[k + 1] = t[k + 1]
    OBVIOUS
  <2>1. k + 1 \in 1..n /\ k + 1 \in 0..n /\ (k + 1) - 1 = k /\ k <= n
    BY <1>3
  <2>2. x[k] = t[k]
    BY <2>1
  <2>3. t[k + 1] = ReadOne(t[k], text[k + 1])
    BY <1>4, <2>1
  <2>4. x[k + 1] = ReadOne(x[k], text[k + 1])
    BY <1>8, <2>1
  <2> QED BY <2>2, <2>3, <2>4
<1>11. n \in Good
  <2>1. Good \subseteq Nat
    OBVIOUS
  <2> HIDE DEF Good
  <2> QED BY <1>3, <1>9, <1>10, <2>1, CountInduction
<1>12. x[n] = t[n]
  BY <1>3, <1>11
<1> QED BY <1>2, <1>7, <1>12 DEF n

(* and returns this of it.                                                  *)
LEMMA AtofIs ==
  ASSUME NEW text
  PROVE  atof(text) = (IF text # <<>> /\ Head(text) = Minus THEN -1 ELSE 1) * Units(Number(text))
BY DEF atof, Number, Scanned, ReadOne, Unread

(* One character more: to atoull,                                           *)
LEMMA AtoullMore ==
  /\ atoull(<<>>) = 0
  /\ \A text \in Seq(Int), c \in Int :
       atoull(text) \in Int /\ atoull(Append(text, c)) = 10 * atoull(text) + (c - Zero)
<1>1. atoull(<<>>) = 0
  <2>1. <<>> \in Seq(Int) /\ Len(<<>>) = 0
    OBVIOUS
  <2> QED BY <2>1, AtoullReads DEF ReadBy
<1>2. ASSUME NEW text \in Seq(Int), NEW c \in Int
      PROVE  atoull(text) \in Int /\ atoull(Append(text, c)) = 10 * atoull(text) + (c - Zero)
  <2>1. PICK x \in [0..Len(text) -> Int] :
          ReadBy(x, text, 0, NextValue) /\ atoull(text) = x[Len(text)]
    BY AtoullReads
  <2> DEFINE longer == Append(text, c)
  <2>2. longer \in Seq(Int) /\ Len(longer) = Len(text) + 1 /\ Len(text) \in Nat
    OBVIOUS
  <2>0. longer = Append(text, c)
    OBVIOUS
  <2> HIDE DEF longer
  <2>3. PICK y \in [0..Len(longer) -> Int] :
          ReadBy(y, longer, 0, NextValue) /\ atoull(longer) = y[Len(longer)]
    BY <2>2, AtoullReads
  <2>4. ReadsOn(x, y, text, c, NextValue)
    <3>1. ReadBy(x, text, 0, NextValue) /\ ReadBy(y, longer, 0, NextValue)
      BY <2>1, <2>3
    <3> QED BY <2>0, <3>1, ReadingGoesOn, Zenon
  <2>5. x[Len(text)] \in Int
    <3>1. Len(text) \in 0..Len(text)
      BY <2>2
    <3> QED BY <3>1, Zenon
  <2> QED BY <2>0, <2>1, <2>2, <2>3, <2>4, <2>5 DEF ReadsOn, NextValue
<1> QED BY <1>1, <1>2

(* and to atof.                                                             *)
LEMMA NumberMore ==
  /\ Number(<<>>) = Unread
  /\ \A text \in Seq(Int), c \in Int :
       Number(text) \in Numbers /\ Number(Append(text, c)) = ReadOne(Number(text), c)
<1>1. Number(<<>>) = Unread
  <2>1. <<>> \in Seq(Int) /\ Len(<<>>) = 0
    OBVIOUS
  <2> QED BY <2>1, NumberReads DEF ReadBy
<1>2. ASSUME NEW text \in Seq(Int), NEW c \in Int
      PROVE  Number(text) \in Numbers /\ Number(Append(text, c)) = ReadOne(Number(text), c)
  <2>1. PICK x \in [0..Len(text) -> Numbers] :
          ReadBy(x, text, Unread, NextNumber) /\ Number(text) = x[Len(text)]
    BY NumberReads
  <2> DEFINE longer == Append(text, c)
  <2>2. longer \in Seq(Int) /\ Len(longer) = Len(text) + 1 /\ Len(text) \in Nat
    OBVIOUS
  <2>0. longer = Append(text, c)
    OBVIOUS
  <2> HIDE DEF longer
  <2>3. PICK y \in [0..Len(longer) -> Numbers] :
          ReadBy(y, longer, Unread, NextNumber) /\ Number(longer) = y[Len(longer)]
    BY <2>2, NumberReads
  <2>4. ReadsOn(x, y, text, c, NextNumber)
    <3>1. ReadBy(x, text, Unread, NextNumber) /\ ReadBy(y, longer, Unread, NextNumber)
      BY <2>1, <2>3
    <3> QED BY <2>0, <3>1, ReadingGoesOn, Zenon
  <2>5. x[Len(text)] \in Numbers
    <3>1. Len(text) \in 0..Len(text)
      BY <2>2
    <3> QED BY <3>1, Zenon
  <2> QED BY <2>0, <2>1, <2>2, <2>3, <2>4, <2>5 DEF ReadsOn, NextNumber
<1> QED BY <1>1, <1>2

-----------------------------------------------------------------------------
(* Numerals. *)

Digits == Zero .. Zero + 9
Numeral(s) == s \in Seq(Digits) /\ s # <<>> /\ s[1] # Zero

(* Induction over the numbers as Decimal goes down.                         *)
LEMMA DecimalInduction ==
  ASSUME NEW S, 0..9 \subseteq S, \A n \in Nat : n >= 10 /\ n \div 10 \in S => n \in S
  PROVE  Nat \subseteq S
<1> DEFINE Good == {n \in Nat : 0..n \subseteq S}
<1>1. 0 \in Good
  <2>1. 0..0 \subseteq 0..9
    OBVIOUS
  <2> QED BY <2>1
<1>2. ASSUME NEW n \in Good PROVE n + 1 \in Good
  <2>1. n + 1 \in S
    <3>1. n + 1 \in 0..9 \/ (n + 1 >= 10 /\ (n + 1) \div 10 \in 0..n)
      OBVIOUS
    <3> QED BY <3>1
  <2>2. 0..(n + 1) = 0..n \union {n + 1}
    OBVIOUS
  <2> QED BY <2>1, <2>2
<1>3. Good \subseteq Nat
  OBVIOUS
<1>4. \A n \in Good : n \in S
  OBVIOUS
<1> HIDE DEF Good
<1> QED BY <1>1, <1>2, <1>3, <1>4, CountInduction

(* A number below ten is one digit,                                         *)
LEMMA DecimalShort == \A n \in 0..9 : n \in Nat /\ Decimal[n] = <<Zero + n>>
<1> SUFFICES ASSUME NEW n \in 0..9 PROVE n \in Nat /\ Decimal[n] = <<Zero + n>>
  OBVIOUS
<1>1. n \in Nat /\ n < 10
  OBVIOUS
<1> QED BY <1>1, DecimalIs

(* and any other is a shorter number and a digit.                           *)
LEMMA DecimalLong ==
  ASSUME NEW n \in Nat, n >= 10
  PROVE  Decimal[n] = Append(Decimal[n \div 10], Zero + (n % 10))
<1>1. ~(n < 10)
  OBVIOUS
<1> QED BY <1>1, DecimalIs

(* Sequences of digits are sequences of integers.                           *)
LEMMA WiderSeq == ASSUME NEW A, NEW B, A \subseteq B PROVE Seq(A) \subseteq Seq(B)
<1> SUFFICES ASSUME NEW s \in Seq(A) PROVE s \in Seq(B)
  OBVIOUS
<1>1. Len(s) \in Nat /\ DOMAIN s = 1..Len(s) /\ s = [k \in 1..Len(s) |-> s[k]]
  OBVIOUS
<1>2. \A k \in 1..Len(s) : s[k] \in B
  OBVIOUS
<1> QED BY <1>1, <1>2

(* They are what the readings above are about.                              *)
LEMMA DigitsAreNumbers == Digits \subseteq Int /\ Seq(Digits) \subseteq Seq(Int)
<1>1. Digits \subseteq Int
  BY DEF Digits, Zero
<1> QED BY <1>1, WiderSeq

(* A number is written in digits, without a zero in front,                  *)
LEMMA DecimalInDigits ==
  \A n \in Nat : /\ Decimal[n] \in Seq(Digits) /\ Decimal[n] # <<>>
                 /\ n # 0 => Decimal[n][1] # Zero
<1> DEFINE P(n) == /\ Decimal[n] \in Seq(Digits) /\ Decimal[n] # <<>>
                   /\ n # 0 => Decimal[n][1] # Zero
           Good == {n \in Nat : P(n)}
<1>1. 0..9 \subseteq Good
  <2> SUFFICES ASSUME NEW n \in 0..9 PROVE P(n)
    <3> HIDE DEF P
    <3> QED BY DecimalShort
  <2>1. n \in Nat /\ Decimal[n] = <<Zero + n>>
    BY DecimalShort
  <2>2. Zero + n \in Digits /\ (n # 0 => Zero + n # Zero)
    BY DEF Digits, Zero
  <2>3. <<Zero + n>> \in Seq(Digits) /\ <<Zero + n>> # <<>> /\ <<Zero + n>>[1] = Zero + n
    BY <2>2
  <2> QED BY <2>1, <2>2, <2>3
<1>2. ASSUME NEW n \in Nat, n >= 10, n \div 10 \in Good PROVE n \in Good
  <2> DEFINE m == n \div 10
             c == Zero + (n % 10)
  <2>1. m \in Nat /\ m # 0 /\ n % 10 \in 0..9
    BY <1>2
  <2>2. Decimal[n] = Append(Decimal[m], c)
    BY <1>2, DecimalLong
  <2>3. c \in Digits
    BY <2>1 DEF Digits, Zero
  <2>4. Decimal[m] \in Seq(Digits) /\ Decimal[m] # <<>> /\ Decimal[m][1] # Zero
    BY <1>2, <2>1
  <2> HIDE DEF m, c, Good
  <2>5. /\ Append(Decimal[m], c) \in Seq(Digits) /\ Append(Decimal[m], c) # <<>>
        /\ Append(Decimal[m], c)[1] = Decimal[m][1]
    BY <2>3, <2>4
  <2> QED BY <2>2, <2>4, <2>5 DEF Good
<1> HIDE DEF P
<1>3. Nat \subseteq Good
  <2> HIDE DEF Good
  <2> QED BY <1>1, <1>2, DecimalInduction
<1> QED BY <1>3 DEF P

(* which atoull reads back.                                                 *)
LEMMA AtoullReadsDecimal == \A n \in Nat : atoull(Decimal[n]) = n
<1> DEFINE Good == {n \in Nat : atoull(Decimal[n]) = n}
<1>1. 0..9 \subseteq Good
  <2> SUFFICES ASSUME NEW n \in 0..9 PROVE atoull(Decimal[n]) = n
    OBVIOUS
  <2>1. n \in Nat /\ Decimal[n] = <<Zero + n>>
    BY DecimalShort
  <2>2. <<>> \in Seq(Int) /\ Zero + n \in Int /\ <<Zero + n>> = Append(<<>>, Zero + n)
    BY DEF Zero
  <2>3. atoull(Append(<<>>, Zero + n)) = 10 * atoull(<<>>) + ((Zero + n) - Zero)
    BY <2>2, AtoullMore
  <2>4. atoull(<<>>) = 0
    BY AtoullMore
  <2> QED BY <2>1, <2>2, <2>3, <2>4 DEF Zero
<1>2. ASSUME NEW n \in Nat, n >= 10, n \div 10 \in Good PROVE n \in Good
  <2> DEFINE m == n \div 10
             c == Zero + (n % 10)
  <2>1. m \in Nat /\ 10 * m + (n % 10) = n /\ c - Zero = n % 10 /\ c \in Int /\ n % 10 \in Int
    BY <1>2 DEF Zero
  <2>2. Decimal[n] = Append(Decimal[m], c)
    BY <1>2, DecimalLong
  <2>3. atoull(Decimal[m]) = m
    BY <1>2
  <2> HIDE DEF m, c
  <2>4. Decimal[m] \in Seq(Int)
    BY <2>1, DecimalInDigits, DigitsAreNumbers
  <2>5. atoull(Append(Decimal[m], c)) = 10 * m + (c - Zero)
    BY <2>1, <2>3, <2>4, AtoullMore
  <2> QED BY <2>1, <2>2, <2>5
<1>3. Nat \subseteq Good
  <2> HIDE DEF Good
  <2> QED BY <1>1, <1>2, DecimalInduction
<1> QED BY <1>3

(* A text of digits without a zero in front is how its number is written.   *)
LEMMA NumeralIsDecimal ==
  \A s : Numeral(s) => atoull(s) \in Nat \ {0} /\ Decimal[atoull(s)] = s
<1> DEFINE P(s) == atoull(s) \in Nat \ {0} /\ Decimal[atoull(s)] = s
           Good == {n \in Nat : \A s : Numeral(s) /\ Len(s) = n + 1 => P(s)}
<1>1. 0 \in Good
  <2> SUFFICES ASSUME NEW s, Numeral(s), Len(s) = 1 PROVE P(s)
    OBVIOUS
  <2>1. s = <<s[1]>> /\ s[1] \in Digits /\ s[1] # Zero
    BY DEF Numeral
  <2> DEFINE n == s[1] - Zero
  <2>2. n \in Nat /\ n # 0 /\ n < 10 /\ s[1] = Zero + n
    BY <2>1 DEF Digits, Zero
  <2> HIDE DEF n
  <2>3. Decimal[n] = s
    BY <2>1, <2>2, DecimalIs
  <2> QED BY <2>2, <2>3, AtoullReadsDecimal
<1>2. ASSUME NEW n \in Good PROVE n + 1 \in Good
  <2> SUFFICES ASSUME NEW s, Numeral(s), Len(s) = n + 2 PROVE P(s)
    OBVIOUS
  <2> DEFINE t == SubSeq(s, 1, n + 1)
             c == s[n + 2]
  <2>1. t \in Seq(Digits) /\ c \in Digits /\ Len(t) = n + 1 /\ s = Append(t, c) /\ t[1] = s[1]
    BY DEF Numeral
  <2> HIDE DEF t, c
  <2>2. Numeral(t)
    BY <2>1 DEF Numeral
  <2>3. atoull(t) \in Nat \ {0} /\ Decimal[atoull(t)] = t
    BY <2>1, <2>2
  <2>4. t \in Seq(Int) /\ c \in Int
    BY <2>1, DigitsAreNumbers
  <2> DEFINE m == atoull(t)
             d == c - Zero
  <2>5. d \in 0..9 /\ c = Zero + d
    BY <2>1 DEF Digits, Zero
  <2> HIDE DEF m, d
  <2>6. atoull(s) = 10 * m + d
    BY <2>1, <2>4, AtoullMore DEF m, d
  <2>7. m \in Nat \ {0} /\ Decimal[m] = t
    BY <2>3 DEF m
  <2> DEFINE v == 10 * m + d
  <2>8. v \in Nat /\ v >= 10 /\ v \div 10 = m /\ v % 10 = d
    BY <2>5, <2>7
  <2> HIDE DEF v
  <2>9. Decimal[v] = Append(Decimal[m], Zero + d)
    BY <2>8, DecimalLong
  <2> QED BY <2>1, <2>5, <2>6, <2>7, <2>8, <2>9 DEF v
<1> HIDE DEF P
<1>3. Nat \subseteq Good
  <2>1. Good \subseteq Nat
    OBVIOUS
  <2> HIDE DEF Good
  <2> QED BY <1>1, <1>2, <2>1, CountInduction
<1>4. ASSUME NEW s, Numeral(s) PROVE P(s)
  <2>1. Len(s) \in Nat \ {0}
    BY <1>4 DEF Numeral
  <2>2. Len(s) - 1 \in Good /\ Len(s) = (Len(s) - 1) + 1
    BY <1>3, <2>1
  <2> QED BY <1>4, <2>2
<1> QED BY <1>4 DEF P

(* Of digits only, atoi stops at the end.                                   *)
LEMMA AtoiIs == \A s \in Seq(Digits) : atoi(s) = atoull(s)
<1> SUFFICES ASSUME NEW s \in Seq(Digits) PROVE atoi(s) = atoull(s)
  OBVIOUS
<1> DEFINE Stops == {k \in 1 .. Len(s) + 1 : k > Len(s) \/ ~IsDigit(s[k])}
           stop == CHOOSE k \in Stops : \A j \in Stops : k <= j
<1>1. atoi(s) = atoull(SubSeq(s, 1, stop - 1))
  BY DEF atoi
<1>2. \A k \in 1..Len(s) : IsDigit(s[k])
  <2>1. \A k \in 1..Len(s) : s[k] \in Digits
    OBVIOUS
  <2> QED BY <2>1 DEF IsDigit, Digits
<1>3. Stops = {Len(s) + 1}
  BY <1>2
<1>4. stop = Len(s) + 1
  <2> HIDE DEF Stops
  <2>1. Len(s) + 1 \in Stops /\ \A j \in Stops : Len(s) + 1 <= j /\ j = Len(s) + 1
    BY <1>3
  <2> QED BY <2>1
<1>5. SubSeq(s, 1, Len(s)) = s
  OBVIOUS
<1> HIDE DEF stop
<1>6. stop - 1 = Len(s)
  BY <1>4
<1> QED BY <1>1, <1>5, <1>6

-----------------------------------------------------------------------------
(* ftoa with two places, and atof. *)

Sign(x) == IF x < 0 THEN <<Minus>> ELSE <<>>
Hundredths(x) == (Magnitude(x) + 50) \div 100

(* The powers of ten in use.                                                *)
LEMMA Powers == Ten[0] = 1 /\ Ten[1] = 10 /\ Ten[2] = 100 /\ Ten[3] = 1000 /\ Ten[4] = 10000
<1>1. \A n \in Nat : Ten[n + 1] = 10 * Ten[n]
  BY TenIs
<1>2. Ten[0] = 1 /\ Ten[0 + 1] = 10 * Ten[0] /\ Ten[1 + 1] = 10 * Ten[1]
      /\ Ten[2 + 1] = 10 * Ten[2] /\ Ten[3 + 1] = 10 * Ten[3]
  BY <1>1, TenIs
<1> QED BY <1>2

(* Half a unit of the last place is added before the rest is cut off.       *)
LEMMA HundredthsAre ==
  ASSUME NEW x \in Int
  PROVE  /\ Magnitude(x) \in Nat /\ Hundredths(x) \in Nat
         /\ (Magnitude(x) + 50) \div 1000 = Hundredths(x) \div 10
         /\ (Magnitude(x) + 50) \div 10000 = Hundredths(x) \div 100
BY DEF Magnitude, Hundredths

(* What ftoa writes: a point before the last two of the hundredths.         *)
LEMMA FtoaIs ==
  ASSUME NEW x \in Int
  PROVE  ftoa(x, 2) = Append(Append(Append(Sign(x) \o Decimal[Hundredths(x) \div 100], Point),
                                    Zero + ((Hundredths(x) \div 10) % 10)),
                             Zero + (Hundredths(x) % 10))
<1> DEFINE r == Magnitude(x) + 50
           h == Hundredths(x)
           a == Zero + ((h \div 10) % 10)
           b == Zero + (h % 10)
           places == [i \in 1..2 |-> Zero + ((Rounded(x, 2) \div Ten[Scale - i]) % 10)]
           whole == Decimal[h \div 100]
<1>1. Rounded(x, 2) = r
  BY Powers DEF Rounded, Scale
<1>2. r \div Ten[4] = h \div 100 /\ r \div Ten[3] = h \div 10 /\ r \div Ten[2] = h /\ h \in Nat
  BY Powers, HundredthsAre DEF Hundredths
<1>3. ftoa(x, 2) = Sign(x) \o whole \o (<<Point>> \o places)
  <2>1. ftoa(x, 2) = Sign(x) \o Decimal[r \div Ten[Scale]] \o (<<Point>> \o places)
    <3>1. ftoa(x, 2) = Sign(x) \o Decimal[Rounded(x, 2) \div Ten[Scale]]
                         \o (IF 2 = 0 THEN <<>> ELSE <<Point>> \o places)
      BY Zenon DEF ftoa, Sign
    <3>2. (IF 2 = 0 THEN <<>> ELSE <<Point>> \o places) = <<Point>> \o places
      <4> HIDE DEF places
      <4> QED OBVIOUS
    <3> HIDE DEF r, places
    <3> QED BY <1>1, <3>1, <3>2
  <2> QED BY <1>2, <2>1 DEF Scale
<1>4. places = <<a, b>>
  <2>1. places[1] = a /\ places[2] = b
    BY <1>1, <1>2 DEF Scale
  <2> QED BY <2>1
<1>5. a \in Int /\ b \in Int /\ Point \in Int
  BY <1>2 DEF Zero, Point
<1>6. whole \in Seq(Int) /\ Sign(x) \in Seq(Int)
  <2>1. h \div 100 \in Nat
    BY <1>2
  <2> QED BY <2>1, DecimalInDigits, DigitsAreNumbers DEF Sign, Minus
<1> HIDE DEF r, h, a, b, places, whole
<1>7. \A s \in Seq(Int) : s \o (<<Point>> \o <<a, b>>) = Append(Append(Append(s, Point), a), b)
  BY <1>5
<1>8. Sign(x) \o whole \in Seq(Int)
  BY <1>6
<1> QED BY <1>3, <1>4, <1>7, <1>8 DEF a, b, h, whole

(* A point and digits are read.                                             *)
Have(r, p, s) == [rez |-> r, places |-> p, point_seen |-> s]

(* What atof makes of a point and of a digit.                               *)
LEMMA ReadOnePoint ==
  ASSUME NEW r \in Int PROVE ReadOne(Have(r, 0, FALSE), Point) = Have(r, 0, TRUE)
BY DEF ReadOne, Have

(* A digit behind the point counts as a place.                              *)
LEMMA ReadOneDigit ==
  ASSUME NEW r \in Int, NEW p \in Nat, NEW d \in 0..9
  PROVE  /\ ReadOne(Have(r, p, FALSE), Zero + d) = Have(10 * r + d, p, FALSE)
         /\ ReadOne(Have(r, p, TRUE), Zero + d) = Have(10 * r + d, p + 1, TRUE)
<1>1. Zero + d # Point /\ IsDigit(Zero + d) /\ (Zero + d) - Zero = d
  BY DEF Zero, Point, IsDigit
<1> QED BY <1>1 DEF ReadOne, Have

(* A character behind two texts is behind the second.                       *)
LEMMA AppendBehind ==
  ASSUME NEW s \in Seq(Int), NEW t \in Seq(Int), NEW c \in Int
  PROVE  s \o Append(t, c) = Append(s \o t, c) /\ s \o t \in Seq(Int)
OBVIOUS

(* What atof has read before the point,                                     *)
LEMMA ReadsWhole ==
  ASSUME NEW sign \in {<<>>, <<Minus>>}
  PROVE  \A n \in Nat : Number(sign \o Decimal[n]) = Have(n, 0, FALSE)
<1> DEFINE Read(n) == Have(n, 0, FALSE)
           Good == {n \in Nat : Number(sign \o Decimal[n]) = Read(n)}
<1>1. sign \in Seq(Int) /\ Number(sign) = Unread
  <2>1. CASE sign = <<>>
    BY <2>1, NumberMore
  <2>2. CASE sign = <<Minus>>
    <3>1. <<>> \in Seq(Int) /\ Minus \in Int /\ <<Minus>> = Append(<<>>, Minus) /\ <<Minus>> \in Seq(Int)
      BY DEF Minus
    <3>2. Number(Append(<<>>, Minus)) = ReadOne(Unread, Minus)
      BY <3>1, NumberMore
    <3>3. ReadOne(Unread, Minus) = Unread
      <4>1. Minus # Point /\ ~IsDigit(Minus)
        BY DEF Minus, Point, IsDigit, Zero
      <4> QED BY <4>1 DEF ReadOne
    <3> QED BY <2>2, <3>1, <3>2, <3>3
  <2> QED BY <2>1, <2>2
<1>2. ASSUME NEW n \in Nat, NEW d \in 0..9
      PROVE  ReadOne(Read(n), Zero + d) = Read(10 * n + d)
  <2>1. n \in Int /\ 0 \in Nat
    OBVIOUS
  <2> QED BY <2>1, ReadOneDigit
<1>3. 0..9 \subseteq Good
  <2> SUFFICES ASSUME NEW n \in 0..9 PROVE Number(sign \o Decimal[n]) = Read(n)
    <3> HIDE DEF Read
    <3> QED BY DecimalShort
  <2>1. Decimal[n] = <<Zero + n>> /\ Zero + n \in Int /\ n \in Nat
    <3>1. Decimal[n] = <<Zero + n>> /\ n \in Nat
      BY DecimalShort, Zenon
    <3>2. Zero + n \in Int
      BY DEF Zero
    <3> QED BY <3>1, <3>2
  <2>2. sign \o <<Zero + n>> = Append(sign, Zero + n)
    BY <1>1
  <2>3. Number(Append(sign, Zero + n)) = ReadOne(Unread, Zero + n)
    BY <1>1, <2>1, NumberMore
  <2>4. ReadOne(Read(0), Zero + n) = Read(n)
    <3>1. 0 \in Nat /\ 10 * 0 + n = n
      OBVIOUS
    <3> HIDE DEF Read
    <3>2. ReadOne(Read(0), Zero + n) = Read(10 * 0 + n)
      BY <1>2, <3>1
    <3> QED BY <3>1, <3>2
  <2>5. Unread = Read(0)
    BY DEF Unread, Have
  <2> QED BY <2>1, <2>2, <2>3, <2>4, <2>5
<1>4. ASSUME NEW n \in Nat, n >= 10, n \div 10 \in Good PROVE n \in Good
  <2> DEFINE m == n \div 10
             d == n % 10
  <2>1. m \in Nat /\ d \in 0..9 /\ 10 * m + d = n
    BY <1>4
  <2>2. Decimal[n] = Append(Decimal[m], Zero + d)
    BY <1>4, DecimalLong
  <2>3. Number(sign \o Decimal[m]) = Read(m)
    BY <1>4
  <2> HIDE DEF m, d
  <2>4. Decimal[m] \in Seq(Int) /\ Zero + d \in Int
    BY <2>1, DecimalInDigits, DigitsAreNumbers DEF Zero
  <2>5. /\ sign \o Append(Decimal[m], Zero + d) = Append(sign \o Decimal[m], Zero + d)
        /\ sign \o Decimal[m] \in Seq(Int)
    BY <1>1, <2>4, AppendBehind, Zenon
  <2>6. Number(Append(sign \o Decimal[m], Zero + d)) = ReadOne(Read(m), Zero + d)
    BY <2>3, <2>4, <2>5, NumberMore
  <2>7. ReadOne(Read(m), Zero + d) = Read(n)
    BY <1>2, <2>1
  <2>8. Number(sign \o Decimal[n]) = Read(n)
    BY <2>2, <2>5, <2>6, <2>7
  <2> QED BY <2>8
<1>5. Nat \subseteq Good
  <2> HIDE DEF Good
  <2> QED BY <1>3, <1>4, DecimalInduction
<1> QED BY <1>5

(* The parts of what ftoa writes.                                           *)
Ones(x) == Hundredths(x) \div 100
WholePart(x) == Sign(x) \o Decimal[Ones(x)]
Tenth(x) == (Hundredths(x) \div 10) % 10
LastPlace(x) == Hundredths(x) % 10
WithPoint(x) == Append(WholePart(x), Point)
Tenths(x) == Append(WithPoint(x), Zero + Tenth(x))

(* What atof has read after each of them: with the places, the hundredths.  *)
LEMMA PartsOf ==
  ASSUME NEW x \in Int
  PROVE  /\ Ones(x) \in Nat /\ Tenth(x) \in 0..9 /\ LastPlace(x) \in 0..9
         /\ 10 * (10 * Ones(x) + Tenth(x)) + LastPlace(x) = Hundredths(x)
         /\ ftoa(x, 2) = Append(Tenths(x), Zero + LastPlace(x))
         /\ WholePart(x) \in Seq(Int) /\ WithPoint(x) \in Seq(Int) /\ Tenths(x) \in Seq(Int)
         /\ WholePart(x) # <<>> /\ (WholePart(x)[1] = Minus <=> x < 0)
         /\ Number(WholePart(x)) = Have(Ones(x), 0, FALSE)
         /\ Number(Tenths(x)) = Have(10 * Ones(x) + Tenth(x), 1, TRUE)
         /\ Number(ftoa(x, 2)) = Have(Hundredths(x), 2, TRUE)
<1> DEFINE h == Hundredths(x)
           n == Ones(x)
           p == Tenth(x)
           q == LastPlace(x)
           d == Decimal[n]
<1>1. h \in Nat /\ n \in Nat /\ p \in 0..9 /\ q \in 0..9 /\ 10 * (10 * n + p) + q = h
  <2>1. h \in Nat /\ n = h \div 100 /\ p = (h \div 10) % 10 /\ q = h % 10
    BY HundredthsAre DEF Ones, Tenth, LastPlace
  <2> HIDE DEF h, n, p, q
  <2> QED BY <2>1
<1>2. ftoa(x, 2) = Append(Tenths(x), Zero + q)
  BY FtoaIs DEF Tenths, WithPoint, WholePart, Ones, Tenth, LastPlace
<1>3. WholePart(x) = Sign(x) \o d
  BY DEF WholePart
<1> HIDE DEF h, n, p, q
<1>4. d \in Seq(Int) /\ d # <<>> /\ d[1] # Minus
  <2>1. d \in Seq(Digits) /\ d # <<>>
    BY <1>1, DecimalInDigits
  <2>2. d[1] \in Digits
    BY <2>1
  <2> QED BY <2>1, <2>2, DigitsAreNumbers DEF Digits, Zero, Minus
<1>5. Number(WholePart(x)) = Have(n, 0, FALSE)
  BY <1>1, <1>3, ReadsWhole DEF Sign
<1> HIDE DEF d
<1>6. WholePart(x) \in Seq(Int) /\ WholePart(x) # <<>> /\ (WholePart(x)[1] = Minus <=> x < 0)
  <2>1. CASE x < 0
    <3>1. /\ Sign(x) = <<Minus>> /\ (<<Minus>> \o d)[1] = Minus /\ <<Minus>> \o d # <<>>
          /\ <<Minus>> \o d \in Seq(Int)
      BY <1>4, <2>1 DEF Sign, Minus
    <3> QED BY <1>3, <2>1, <3>1
  <2>2. CASE ~(x < 0)
    <3>1. Sign(x) = <<>> /\ <<>> \o d = d
      BY <1>4, <2>2 DEF Sign
    <3> QED BY <1>3, <1>4, <2>2, <3>1
  <2> QED BY <2>1, <2>2
<1>7. Point \in Int /\ Zero + p \in Int /\ Zero + q \in Int
  BY <1>1 DEF Point, Zero
<1>8. WithPoint(x) \in Seq(Int) /\ Tenths(x) \in Seq(Int)
  BY <1>6, <1>7 DEF WithPoint, Tenths, p
<1>9. Number(WithPoint(x)) = Have(n, 0, TRUE)
  <2>1. Number(WithPoint(x)) = ReadOne(Number(WholePart(x)), Point)
    BY <1>6, <1>7, NumberMore DEF WithPoint
  <2>2. n \in Int
    BY <1>1
  <2> QED BY <1>5, <2>1, <2>2, ReadOnePoint
<1>10. Number(Tenths(x)) = Have(10 * n + p, 1, TRUE)
  <2>1. Number(Tenths(x)) = ReadOne(Number(WithPoint(x)), Zero + p)
    BY <1>7, <1>8, NumberMore DEF Tenths, p
  <2>2. ReadOne(Have(n, 0, TRUE), Zero + p) = Have(10 * n + p, 0 + 1, TRUE)
    <3>1. n \in Int /\ 0 \in Nat /\ p \in 0..9
      BY <1>1
    <3> QED BY <3>1, ReadOneDigit
  <2>3. 0 + 1 = 1
    OBVIOUS
  <2> QED BY <1>9, <2>1, <2>2, <2>3, Zenon
<1>11. Number(ftoa(x, 2)) = Have(h, 2, TRUE)
  <2>1. Number(ftoa(x, 2)) = ReadOne(Number(Tenths(x)), Zero + q)
    BY <1>2, <1>7, <1>8, NumberMore
  <2>2. ReadOne(Have(10 * n + p, 1, TRUE), Zero + q) = Have(10 * (10 * n + p) + q, 1 + 1, TRUE)
    <3>1. 10 * n + p \in Int /\ 1 \in Nat /\ q \in 0..9
      BY <1>1
    <3> QED BY <3>1, ReadOneDigit
  <2>3. Number(ftoa(x, 2)) = Have(10 * (10 * n + p) + q, 1 + 1, TRUE)
    BY <1>10, <2>1, <2>2
  <2>4. 1 + 1 = 2
    OBVIOUS
  <2> QED BY <1>1, <2>3, <2>4, Zenon
<1> QED BY <1>1, <1>2, <1>5, <1>6, <1>8, <1>10, <1>11 DEF h, n, p, q

(* The sign of a text is that of its first part.                            *)
LEMMA SignedAs ==
  ASSUME NEW s \in Seq(Int), s # <<>>, NEW c \in Int
  PROVE  /\ Append(s, c) # <<>> /\ Append(s, c)[1] = s[1] /\ Append(s, c) \in Seq(Int)
         /\ Head(s) = s[1] /\ Head(Append(s, c)) = s[1]
OBVIOUS

(* What is read of a text that begins as the number does.                   *)
LEMMA ReadsOf ==
  ASSUME NEW x \in Int, NEW text, text # <<>>, Head(text) = Minus <=> x < 0,
         Number(text).rez \in Nat, Number(text).places \in 0..4
  PROVE  atof(text) =
           (IF x < 0 THEN -1 ELSE 1) * (Number(text).rez * Ten[Scale - Number(text).places])
<1>1. Units(Number(text)) = Number(text).rez * Ten[Scale - Number(text).places]
  BY DEF Units, Scale
<1> QED BY <1>1, AtofIs

(* Of the whole text,                                                       *)
LEMMA AtofReadsFtoa ==
  ASSUME NEW x \in Int
  PROVE  /\ ftoa(x, 2) \in Seq(Int)
         /\ atof(ftoa(x, 2)) = (IF x < 0 THEN -1 ELSE 1) * (100 * Hundredths(x))
<1> DEFINE h == Hundredths(x)
           text == ftoa(x, 2)
<1>1. /\ Number(text) = Have(h, 2, TRUE) /\ h \in Nat
      /\ text # <<>> /\ (Head(text) = Minus <=> x < 0) /\ text \in Seq(Int)
  <2>1. Point \in Int /\ \A k \in 0..9 : Zero + k \in Int
    BY DEF Point, Zero
  <2>2. WithPoint(x) # <<>> /\ WithPoint(x)[1] = WholePart(x)[1]
    BY <2>1, PartsOf, SignedAs DEF WithPoint
  <2>3. Tenths(x) # <<>> /\ Tenths(x)[1] = WholePart(x)[1]
    <3>1. Zero + Tenth(x) \in Int
      BY <2>1, PartsOf
    <3> QED BY <2>2, <3>1, PartsOf, SignedAs DEF Tenths
  <2>4. /\ text # <<>> /\ Head(text) = WholePart(x)[1] /\ text \in Seq(Int)
    <3>1. Zero + LastPlace(x) \in Int
      BY <2>1, PartsOf
    <3> QED BY <2>3, <3>1, PartsOf, SignedAs
  <2>5. (WholePart(x)[1] = Minus <=> x < 0) /\ Number(text) = Have(h, 2, TRUE)
    BY PartsOf
  <2>6. h \in Nat
    BY HundredthsAre
  <2> HIDE DEF h, text
  <2> QED BY <2>4, <2>5, <2>6
<1>2. Ten[Scale - 2] = 100 /\ 2 \in 0..4
  BY Powers DEF Scale
<1> HIDE DEF h, text
<1>3. atof(text) = (IF x < 0 THEN -1 ELSE 1) * (h * Ten[Scale - 2])
  <2>1. Number(text).rez = h /\ Number(text).places = 2
    BY <1>1 DEF Have
  <2>2. Number(text).rez \in Nat /\ Number(text).places \in 0..4
    <3>1. h \in Nat
      BY <1>1
    <3> QED BY <2>1, <3>1
  <2>3. atof(text) =
          (IF x < 0 THEN -1 ELSE 1) * (Number(text).rez * Ten[Scale - Number(text).places])
    BY <1>1, <2>2, ReadsOf
  <2> QED BY <2>1, <2>3
<1>4. h * 100 = 100 * h
  BY <1>1
<1> QED BY <1>1, <1>2, <1>3, <1>4 DEF h, text

(* So a number that is written and read is no further than half of the last *)
(* place from what it was,                                                  *)
LEMMA AtofIsNear ==
  ASSUME NEW x \in Int
  PROVE  atof(ftoa(x, 2)) \in Int /\ 2 * Magnitude(atof(ftoa(x, 2)) - x) <= 100
<1> DEFINE h == Hundredths(x)
<1>1. h \in Nat /\ 100 * h <= Magnitude(x) + 50 /\ Magnitude(x) + 50 < 100 * h + 100
  BY HundredthsAre DEF Hundredths
<1>2. atof(ftoa(x, 2)) = (IF x < 0 THEN -1 ELSE 1) * (100 * h)
  BY AtofReadsFtoa
<1> HIDE DEF h
<1>3. CASE x < 0
  <2>1. atof(ftoa(x, 2)) = -(100 * h)
    BY <1>1, <1>2, <1>3
  <2> QED BY <1>1, <1>3, <2>1 DEF Magnitude
<1>4. CASE ~(x < 0)
  <2>1. atof(ftoa(x, 2)) = 100 * h
    BY <1>1, <1>2, <1>4
  <2> QED BY <1>1, <1>4, <2>1 DEF Magnitude
<1> QED BY <1>3, <1>4

(* Whatever is read as a number is one.                                     *)
LEMMA AtofInt ==
  ASSUME NEW text \in Seq(Int)
  PROVE  atof(text) \in Int
<1> DEFINE n == Number(text)
<1>1. n.rez \in Int /\ n.places \in Nat
  BY NumberMore DEF Numbers
<1>2. \A k \in Nat : Ten[k] \in Nat \ {0}
  BY TenIs
<1> HIDE DEF n
<1>3. CASE n.places <= Scale
  <2>1. Scale - n.places \in Nat
    BY <1>1, <1>3 DEF Scale
  <2>2. n.rez * Ten[Scale - n.places] \in Int
    BY <1>1, <1>2, <2>1
  <2> QED BY <1>3, <2>2, AtofIs DEF Units, n
<1>4. CASE ~(n.places <= Scale)
  <2>1. n.places - Scale \in Nat
    BY <1>1, <1>4 DEF Scale
  <2>2. Ten[n.places - Scale] \in Nat \ {0}
    BY <1>2, <2>1
  <2>3. n.rez \div Ten[n.places - Scale] \in Int
    BY <1>1, <2>2
  <2> QED BY <1>4, <2>3, AtofIs DEF Units, n
<1> QED BY <1>3, <1>4
=============================================================================
