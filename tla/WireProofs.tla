----------------------------- MODULE WireProofs -----------------------------
(***************************************************************************)
(* Theorems about Wire: a segment arrives as it was sent, and damage to    *)
(* one byte is noticed, for every size of a byte and every payload.        *)
(***************************************************************************)
EXTENDS Wire, SequenceTheorems, FiniteSetTheorems, TLAPS

-----------------------------------------------------------------------------
(* Numbers and their bytes.                                                *)

LEMMA Quotients ==
    ASSUME NEW b \in Nat \ {0}, NEW v \in Nat
    PROVE  /\ v \div b \in Nat /\ v % b \in 0 .. b - 1
           /\ v = b * (v \div b) + (v % b)
<1>1. QED
  OBVIOUS

LEMMA QuotientIs ==
    ASSUME NEW b \in Nat \ {0}, NEW q \in Nat, NEW r \in 0 .. b - 1
    PROVE  (b * q + r) \div b = q /\ (b * q + r) % b = r
<1>1. QED
  OBVIOUS

LEMMA QuotientBelow ==
    ASSUME NEW b \in Nat \ {0}, NEW n \in Nat, NEW v \in 0 .. b * n - 1
    PROVE  v \div b \in 0 .. n - 1
<1>1. QED
  OBVIOUS

LEMMA Sizes ==
    /\ BYTES \in Nat /\ BYTES >= 4
    /\ WORDS = BYTES * BYTES /\ WORDS \in Nat /\ WORDS >= 16
<1>1. QED
  BY WireAssumption DEF WORDS

(* The bytes of a word and of a double word, and back (utils.rs 3-19).     *)
LEMMA WordBytes ==
    ASSUME NEW v \in Word
    PROVE  /\ u16_to_u8(v) = << v \div BYTES, v % BYTES >>
           /\ v \div BYTES \in Byte /\ v % BYTES \in Byte
           /\ buf_to_u16(u16_to_u8(v)) = v
<1>1. v \in Nat /\ v \in 0 .. BYTES * BYTES - 1 /\ BYTES \in Nat \ {0}
  BY Sizes DEF Word
<1>2. v \div BYTES \in 0 .. BYTES - 1 /\ v % BYTES \in 0 .. BYTES - 1
  BY <1>1, QuotientBelow, Quotients
<1>3. v = BYTES * (v \div BYTES) + (v % BYTES)
  BY <1>1, Quotients
<1>4. (v \div BYTES) * BYTES = BYTES * (v \div BYTES)
  BY <1>1, <1>2
<1>5. QED
  BY <1>2, <1>3, <1>4 DEF u16_to_u8, buf_to_u16, Byte

LEMMA BytesWord ==
    ASSUME NEW a \in Byte, NEW b \in Byte
    PROVE  /\ a * BYTES + b \in Word
           /\ (a * BYTES + b) \div BYTES = a /\ (a * BYTES + b) % BYTES = b
<1>1. BYTES \in Nat \ {0} /\ a \in Nat /\ b \in 0 .. BYTES - 1 /\ a <= BYTES - 1
  BY Sizes DEF Byte
<1>2. a * BYTES = BYTES * a
  BY <1>1
<1>3. (BYTES * a + b) \div BYTES = a /\ (BYTES * a + b) % BYTES = b
  BY <1>1, QuotientIs
<1>4. BYTES * a + b < BYTES * BYTES
  <2>1. BYTES * a <= BYTES * (BYTES - 1)
    BY <1>1
  <2>2. QED
    BY <1>1, <2>1
<1>5. QED
  BY <1>1, <1>2, <1>3, <1>4 DEF Word, WORDS

LEMMA DoubleBytes ==
    ASSUME NEW v \in Double
    PROVE  /\ v \div WORDS \in Word /\ v % WORDS \in Word
           /\ (v \div WORDS) * WORDS + (v % WORDS) = v
<1>1. v \in Nat /\ v \in 0 .. WORDS * WORDS - 1 /\ WORDS \in Nat \ {0}
  BY Sizes DEF Double
<1>2. v \div WORDS \in 0 .. WORDS - 1 /\ v % WORDS \in 0 .. WORDS - 1
  BY <1>1, QuotientBelow, Quotients
<1>3. v = WORDS * (v \div WORDS) + (v % WORDS)
  BY <1>1, Quotients
<1>4. (v \div WORDS) * WORDS = WORDS * (v \div WORDS)
  BY <1>1, <1>2
<1>5. QED
  BY <1>2, <1>3, <1>4 DEF Word

LEMMA WordsDouble ==
    ASSUME NEW a \in Word, NEW b \in Word
    PROVE  /\ a * WORDS + b \in Double
           /\ (a * WORDS + b) \div WORDS = a /\ (a * WORDS + b) % WORDS = b
<1>1. WORDS \in Nat \ {0} /\ a \in Nat /\ b \in 0 .. WORDS - 1 /\ a <= WORDS - 1
  BY Sizes DEF Word
<1>2. a * WORDS = WORDS * a
  BY <1>1
<1>3. (WORDS * a + b) \div WORDS = a /\ (WORDS * a + b) % WORDS = b
  BY <1>1, QuotientIs
<1>4. WORDS * a + b < WORDS * WORDS
  <2>1. WORDS * a <= WORDS * (WORDS - 1)
    BY <1>1
  <2>2. QED
    BY <1>1, <2>1
<1>5. QED
  BY <1>1, <1>2, <1>3, <1>4 DEF Double

-----------------------------------------------------------------------------
(* The sum.  With words and sums below WORDS, a sum that goes over is less *)
(* by WORDS - 1, which makes the order of the words immaterial.            *)

Plus(a, x) == IF a + x < WORDS THEN a + x ELSE a + x - (WORDS - 1)

LEMMA WrapPlus ==
    ASSUME NEW a \in Word, NEW x \in Word
    PROVE  wrap(wrap(x + a)) = Plus(a, x) /\ Plus(a, x) \in Word
<1>1. WORDS \in Nat \ {0} /\ WORDS >= 16 /\ a \in Nat /\ x \in Nat /\ a < WORDS /\ x < WORDS
  BY Sizes DEF Word
<1>2. ASSUME NEW v \in Nat, v < WORDS PROVE wrap(v) = v
  <2>1. (WORDS * 0 + v) \div WORDS = 0 /\ (WORDS * 0 + v) % WORDS = v
    BY <1>1, <1>2, QuotientIs
  <2>2. QED
    BY <1>1, <2>1 DEF wrap
<1>3. CASE x + a < WORDS
  BY <1>1, <1>2, <1>3 DEF Plus, Word
<1>4. CASE ~ (x + a < WORDS)
  <2>1. PICK r \in 0 .. WORDS - 1 : x + a = WORDS * 1 + r /\ r = x + a - WORDS
    BY <1>1, <1>4
  <2>2. (x + a) \div WORDS = 1 /\ (x + a) % WORDS = x + a - WORDS
    <3>1. (WORDS * 1 + r) \div WORDS = 1 /\ (WORDS * 1 + r) % WORDS = r
      BY <1>1, QuotientIs
    <3>2. QED
      BY <2>1, <3>1
  <2>3. wrap(x + a) = x + a - WORDS + 1
    BY <2>2 DEF wrap
  <2>4. x + a - WORDS + 1 \in Nat /\ x + a - WORDS + 1 < WORDS
    BY <1>1, <1>4
  <2>5. wrap(wrap(x + a)) = x + a - WORDS + 1
    BY <1>2, <2>3, <2>4
  <2>6. QED
    BY <1>1, <1>4, <2>4, <2>5 DEF Plus, Word
<1>5. QED
  BY <1>3, <1>4

LEMMA PlusProperties ==
    ASSUME NEW a \in Word, NEW b \in Word, NEW c \in Word
    PROVE  /\ Plus(Plus(a, b), c) = Plus(Plus(a, c), b)
           /\ Plus(a, 0) = a
           /\ a # 0 => Plus(a, WORDS - 1 - a) = WORDS - 1
<1>1. WORDS \in Nat \ {0} /\ WORDS >= 16 /\ a \in Nat /\ b \in Nat /\ c \in Nat
      /\ a < WORDS /\ b < WORDS /\ c < WORDS
  BY Sizes DEF Word
<1>2. QED
  BY <1>1 DEF Plus

LEMMA PlusZero ==
    ASSUME NEW a \in Word, NEW b \in Word, Plus(a, b) = 0
    PROVE  a = 0 /\ b = 0
<1>1. WORDS \in Nat /\ WORDS >= 16 /\ a \in Nat /\ b \in Nat
  BY Sizes DEF Word
<1>2. QED
  BY <1>1 DEF Plus

(***************************************************************************)
(* Induction over a segment's words goes by the least of the numbers at    *)
(* which a fact would fail.                                                *)
(***************************************************************************)
LEMMA LeastExists ==
    ASSUME NEW S \in SUBSET Nat, S # {}
    PROVE  \E n \in S : \A m \in S : n <= m
<1> DEFINE Below(n) == 0 .. (n - 1)
           T == {Below(n) : n \in S}
           R == StrictSubsetOrdering(Nat)
<1>1. T \subseteq FiniteSubsetsOf(Nat)
  <2>1. \A n \in S : Below(n) \in SUBSET Nat /\ IsFiniteSet(Below(n))
    BY FS_Interval
  <2>2. QED
    BY <2>1 DEF FiniteSubsetsOf
<1>2. PICK x \in T : \A y \in T : <<y, x>> \notin R
  <2>1. IsWellFoundedOn(R, FiniteSubsetsOf(Nat))
    BY FS_StrictSubsetOrderingWellFounded
  <2>2. T # {}
    OBVIOUS
  <2> HIDE DEF T, R
  <2>3. QED
    BY <1>1, <2>1, <2>2, WFMin
<1>3. PICK n \in S : x = Below(n)
  OBVIOUS
<1>4. ASSUME NEW m \in S PROVE n <= m
  <2>1. SUFFICES ASSUME m < n PROVE FALSE
    OBVIOUS
  <2>2. Below(m) \subseteq Below(n) /\ m \in Below(n) /\ m \notin Below(m)
    BY <2>1
  <2>3. <<Below(m), x>> \in R
    BY <1>3, <2>2 DEF StrictSubsetOrdering
  <2>4. QED
    BY <1>2, <2>3
<1>5. QED
  BY <1>4

\* a set that holds 0, and with a number the one after it
LEMMA Steps ==
    ASSUME NEW n \in Nat, NEW S, 0 \in S, \A k \in 0 .. n - 1 : k \in S => k + 1 \in S
    PROVE  0 .. n \subseteq S
<1>1. SUFFICES ASSUME ~ (0 .. n \subseteq S) PROVE FALSE
  OBVIOUS
<1> DEFINE F == {k \in 0 .. n : k \notin S}
<1>2. F \in SUBSET Nat /\ F # {}
  BY <1>1
<1>3. PICK k \in F : \A m \in F : k <= m
  BY <1>2, LeastExists
<1>4. k # 0 /\ k \in Nat /\ k \in 0 .. n
  OBVIOUS
<1>5. k - 1 \in 0 .. n - 1 /\ (k - 1) + 1 = k /\ k - 1 \in 0 .. n /\ ~ (k <= k - 1)
  BY <1>4
<1>6. k - 1 \in S
  BY <1>3, <1>5
<1>7. QED
  BY <1>5, <1>6

(* The accumulator: what the recursive definition of sums says.            *)
AddsUp(words, f, n) ==
    \A k \in 0 .. n : f[k] = IF k = 0 THEN 0 ELSE wrap(wrap(words[k] + f[k - 1]))

LEMMA SumsExist ==
    ASSUME NEW words \in Seq(Word)
    PROVE  \E f : f = [k \in 0 .. Len(words) |->
                         IF k = 0 THEN 0 ELSE wrap(wrap(words[k] + f[k - 1]))]
<1> DEFINE N == Len(words)
           G(f, n) == [k \in 0 .. n |-> IF k = n THEN wrap(wrap(words[n] + f[n - 1])) ELSE f[k]]
           S == {n \in 0 .. N : \E f : f = [k \in 0 .. n |-> f[k]] /\ AddsUp(words, f, n)}
<1>1. N \in Nat
  OBVIOUS
<1>2. 0 \in S
  <2> DEFINE f == [k \in 0 .. 0 |-> 0]
  <2>1. f = [k \in 0 .. 0 |-> f[k]] /\ AddsUp(words, f, 0)
    BY DEF AddsUp
  <2>2. QED
    BY <1>1, <2>1
<1>3. ASSUME NEW n \in 0 .. N - 1, n \in S PROVE n + 1 \in S
  <2>1. PICK f : f = [k \in 0 .. n |-> f[k]] /\ AddsUp(words, f, n)
    BY <1>3
  <2> DEFINE g == G(f, n + 1)
  <2>2. g = [k \in 0 .. n + 1 |-> g[k]]
    OBVIOUS
  <2>3. ASSUME NEW k \in 0 .. n + 1
        PROVE  g[k] = IF k = 0 THEN 0 ELSE wrap(wrap(words[k] + g[k - 1]))
    <3>1. CASE k = n + 1
      <4>1. g[k] = wrap(wrap(words[k] + f[n])) /\ k # 0 /\ k - 1 = n /\ g[n] = f[n]
        BY <1>1, <3>1
      <4>2. QED
        BY <4>1
    <3>2. CASE k # n + 1
      <4>1. k \in 0 .. n /\ g[k] = f[k] /\ (k # 0 => k - 1 \in 0 .. n /\ g[k - 1] = f[k - 1])
        BY <1>1, <3>2
      <4>2. f[k] = IF k = 0 THEN 0 ELSE wrap(wrap(words[k] + f[k - 1]))
        BY <2>1, <4>1 DEF AddsUp
      <4> HIDE DEF g
      <4>3. QED
        BY <4>1, <4>2
    <3>3. QED
      BY <3>1, <3>2
  <2>4. AddsUp(words, g, n + 1)
    BY <2>3 DEF AddsUp
  <2> HIDE DEF g
  <2>5. QED
    BY <1>1, <2>2, <2>4
<1>4. N \in S
  <2> HIDE DEF S, N
  <2>1. 0 .. N \subseteq S
    BY <1>1, <1>2, <1>3, Steps
  <2>2. QED
    BY <1>1, <2>1
<1>5. PICK f : f = [k \in 0 .. N |-> f[k]] /\ AddsUp(words, f, N)
  BY <1>4
<1>6. f = [k \in 0 .. N |-> IF k = 0 THEN 0 ELSE wrap(wrap(words[k] + f[k - 1]))]
  BY <1>5 DEF AddsUp
<1>7. QED
  BY <1>6

LEMMA SumsDef ==
    ASSUME NEW words \in Seq(Word)
    PROVE  \A k \in 0 .. Len(words) :
             sums(words)[k] = IF k = 0 THEN 0 ELSE wrap(wrap(words[k] + sums(words)[k - 1]))
<1>1. sums(words) = [k \in 0 .. Len(words) |->
                      IF k = 0 THEN 0 ELSE wrap(wrap(words[k] + sums(words)[k - 1]))]
  BY SumsExist DEF sums
<1>2. QED
  BY <1>1

(* The sums are words, and each adds one word to the one before.           *)
LEMMA SumsAdd ==
    ASSUME NEW words \in Seq(Word)
    PROVE  /\ sums(words)[0] = 0
           /\ \A k \in 0 .. Len(words) : sums(words)[k] \in Word
           /\ \A k \in 0 .. Len(words) - 1 :
                sums(words)[k + 1] = Plus(sums(words)[k], words[k + 1])
<1> DEFINE N == Len(words)
           S == {k \in 0 .. N : sums(words)[k] \in Word}
<1>1. N \in Nat /\ sums(words)[0] = 0 /\ 0 \in Word
  BY SumsDef, Sizes DEF Word
<1>2. ASSUME NEW k \in 0 .. N - 1, sums(words)[k] \in Word
      PROVE  /\ sums(words)[k + 1] \in Word
             /\ sums(words)[k + 1] = Plus(sums(words)[k], words[k + 1])
  <2>1. k + 1 \in 0 .. N /\ k + 1 # 0 /\ (k + 1) - 1 = k /\ k + 1 \in 1 .. N
    BY <1>1
  <2>2. sums(words)[k + 1] = wrap(wrap(words[k + 1] + sums(words)[k]))
    BY <2>1, SumsDef
  <2>3. words[k + 1] \in Word
    BY <2>1
  <2>4. QED
    BY <1>2, <2>2, <2>3, WrapPlus
<1>3. 0 .. N \subseteq S
  <2>1. 0 \in S
    BY <1>1
  <2>2. ASSUME NEW k \in 0 .. N - 1, k \in S PROVE k + 1 \in S
    BY <1>1, <1>2, <2>2
  <2> HIDE DEF S, N
  <2>3. QED
    BY <1>1, <2>1, <2>2, Steps
<1>4. \A k \in 0 .. Len(words) : sums(words)[k] \in Word
  BY <1>3
<1>5. ASSUME NEW k \in 0 .. Len(words) - 1
      PROVE  sums(words)[k + 1] = Plus(sums(words)[k], words[k + 1])
  <2>1. k \in 0 .. Len(words)
    BY <1>1
  <2>2. QED
    BY <1>2, <1>4, <2>1
<1>6. QED
  BY <1>1, <1>4, <1>5

LEMMA PlusNext ==
    ASSUME NEW words \in Seq(Word), NEW k \in 0 .. Len(words) - 1
    PROVE  /\ k \in 0 .. Len(words) /\ k + 1 \in 1 .. Len(words)
           /\ sums(words)[k] \in Word /\ words[k + 1] \in Word
           /\ sums(words)[k + 1] = Plus(sums(words)[k], words[k + 1])
<1>1. k \in 0 .. Len(words) /\ k + 1 \in 1 .. Len(words)
  OBVIOUS
<1>2. QED
  BY <1>1, SumsAdd

(* One word counts wherever it stands.                                     *)
LEMMA SumsOneWord ==
    ASSUME NEW words \in Seq(Word), NEW j \in 1 .. Len(words), NEW rest \in Seq(Word),
           rest = [words EXCEPT ![j] = 0]
    PROVE  \A k \in 0 .. Len(words) :
             sums(words)[k] = IF k < j THEN sums(rest)[k] ELSE Plus(sums(rest)[k], words[j])
<1> DEFINE N == Len(words)
           Same(k) == sums(words)[k] = IF k < j THEN sums(rest)[k]
                                       ELSE Plus(sums(rest)[k], words[j])
           S == {k \in 0 .. N : Same(k)}
<1>1. /\ N \in Nat /\ Len(rest) = N /\ rest[j] = 0 /\ j \in Nat /\ j > 0 /\ words[j] \in Word
      /\ \A k \in 1 .. N : k # j => rest[k] = words[k]
  OBVIOUS
<1>2. 0 \in S
  <2>1. sums(words)[0] = 0 /\ sums(rest)[0] = 0
    BY SumsAdd
  <2>2. 0 < j /\ 0 \in 0 .. N
    BY <1>1
  <2>3. QED
    BY <2>1, <2>2
<1>3. ASSUME NEW k \in 0 .. N - 1, k \in S PROVE k + 1 \in S
  <2>1. /\ k + 1 \in 0 .. N /\ k \in Nat /\ k + 1 \in 1 .. N
        /\ sums(words)[k] \in Word /\ sums(rest)[k] \in Word /\ words[k + 1] \in Word
        /\ sums(words)[k + 1] = Plus(sums(words)[k], words[k + 1])
        /\ sums(rest)[k + 1] = Plus(sums(rest)[k], rest[k + 1])
    <3>1. k \in 0 .. Len(words) - 1 /\ k \in 0 .. Len(rest) - 1 /\ k \in Nat
      BY <1>1
    <3>2. /\ k + 1 \in 1 .. Len(words) /\ k + 1 \in 0 .. Len(words)
          /\ sums(words)[k] \in Word /\ words[k + 1] \in Word
          /\ sums(words)[k + 1] = Plus(sums(words)[k], words[k + 1])
      BY <3>1, PlusNext
    <3>3. sums(rest)[k] \in Word /\ sums(rest)[k + 1] = Plus(sums(rest)[k], rest[k + 1])
      BY <3>1, PlusNext
    <3>4. QED
      BY <3>1, <3>2, <3>3
  <2>2. Same(k)
    BY <1>3
  <2>3. CASE k + 1 < j
    <3>1. k < j /\ k + 1 # j
      BY <1>1, <2>1, <2>3
    <3>2. sums(words)[k] = sums(rest)[k]
      BY <2>2, <3>1
    <3>3. Same(k + 1)
      BY <1>1, <2>1, <2>3, <3>1, <3>2
    <3>4. QED
      BY <2>1, <3>3
  <2>4. CASE k + 1 = j
    <3>1. k < j /\ ~ (k + 1 < j)
      BY <1>1, <2>1, <2>4
    <3>2. sums(words)[k] = sums(rest)[k]
      BY <2>2, <3>1
    <3>3. sums(rest)[k + 1] = sums(rest)[k]
      BY <1>1, <2>1, <2>4, PlusProperties
    <3>4. Same(k + 1)
      BY <2>1, <2>4, <3>1, <3>2, <3>3
    <3>5. QED
      BY <2>1, <3>4
  <2>5. CASE k + 1 > j
    <3>1. ~ (k < j) /\ ~ (k + 1 < j) /\ k + 1 # j
      BY <1>1, <2>1, <2>5
    <3>2. sums(words)[k] = Plus(sums(rest)[k], words[j])
      BY <2>2, <3>1
    <3>3. Plus(Plus(sums(rest)[k], words[j]), words[k + 1])
            = Plus(Plus(sums(rest)[k], words[k + 1]), words[j])
      BY <1>1, <2>1, PlusProperties
    <3>4. Same(k + 1)
      BY <1>1, <2>1, <3>1, <3>2, <3>3
    <3>5. QED
      BY <2>1, <3>4
  <2>6. QED
    BY <1>1, <2>1, <2>3, <2>4, <2>5
<1>4. 0 .. N \subseteq S
  <2> HIDE DEF S, N
  <2>1. QED
    BY <1>1, <1>2, <1>3, Steps
<1>5. QED
  BY <1>4

(* Only words of zeros add up to zero.                                     *)
LEMMA SumsZero ==
    ASSUME NEW words \in Seq(Word), NEW j \in 1 .. Len(words), words[j] # 0
    PROVE  sums(words)[Len(words)] # 0
<1> DEFINE N == Len(words)
           S == {k \in 0 .. N : k >= j => sums(words)[k] # 0}
<1>1. N \in Nat /\ j \in Nat /\ j > 0
  OBVIOUS
<1>2. 0 \in S
  BY <1>1
<1>3. ASSUME NEW k \in 0 .. N - 1, k \in S PROVE k + 1 \in S
  <2>1. /\ k + 1 \in 0 .. N /\ k \in Nat
        /\ sums(words)[k] \in Word /\ words[k + 1] \in Word
        /\ sums(words)[k + 1] = Plus(sums(words)[k], words[k + 1])
    BY <1>1, PlusNext
  <2>2. sums(words)[k + 1] = 0 => sums(words)[k] = 0 /\ words[k + 1] = 0
    BY <2>1, PlusZero
  <2>3. k + 1 >= j => k >= j \/ k + 1 = j
    BY <1>1, <2>1
  <2>4. k + 1 >= j => sums(words)[k + 1] # 0
    BY <1>3, <2>2, <2>3
  <2>5. QED
    BY <2>1, <2>4
<1>4. 0 .. N \subseteq S
  <2> HIDE DEF S, N
  <2>1. QED
    BY <1>1, <1>2, <1>3, Steps
<1>5. N \in S /\ N >= j
  BY <1>1, <1>4
<1>6. QED
  BY <1>5

-----------------------------------------------------------------------------
(* The words of a buffer, and the bytes of a segment.                      *)

HalfUp(n) == (n + 1) \div 2

LEMMA BufferWords ==
    ASSUME NEW buf \in Seq(Byte)
    PROVE  /\ u8_to_u16_vec(buf) \in Seq(Word)
           /\ Len(u8_to_u16_vec(buf)) = HalfUp(Len(buf))
           /\ \A k \in 1 .. HalfUp(Len(buf)) :
                /\ 2 * k - 1 \in 1 .. Len(buf)
                /\ u8_to_u16_vec(buf)[k] =
                     buf[2 * k - 1] * BYTES + (IF 2 * k <= Len(buf) THEN buf[2 * k] ELSE 0)
<1> DEFINE padded == IF Len(buf) % 2 = 1 THEN Append(buf, 0) ELSE buf
           N == HalfUp(Len(buf))
           Word_(k) == padded[2 * k - 1] * BYTES + padded[2 * k]
<1>1. 0 \in Byte
  BY Sizes DEF Byte
<1>2. /\ padded \in Seq(Byte) /\ Len(padded) = 2 * N /\ N \in Nat /\ Len(padded) \div 2 = N
      /\ \A i \in 1 .. Len(buf) : padded[i] = buf[i]
      /\ Len(buf) # 2 * N => Len(buf) = 2 * N - 1 /\ padded[2 * N] = 0
  <2>1. CASE Len(buf) % 2 = 1
    BY <1>1, <2>1 DEF HalfUp
  <2>2. CASE Len(buf) % 2 # 1
    BY <1>1, <2>2 DEF HalfUp
  <2>3. QED
    BY <2>1, <2>2
<1>3. ASSUME NEW k \in 1 .. N
      PROVE  /\ buf_to_u16(SubSeq(padded, 2 * k - 1, 2 * k)) = Word_(k) /\ Word_(k) \in Word
             /\ 2 * k - 1 \in 1 .. Len(buf)
             /\ Word_(k) = buf[2 * k - 1] * BYTES
                             + (IF 2 * k <= Len(buf) THEN buf[2 * k] ELSE 0)
  <2> HIDE DEF padded, N
  <2>1. 2 * k - 1 \in 1 .. Len(padded) /\ 2 * k \in 1 .. Len(padded) /\ k \in Nat
    BY <1>2
  <2>2. padded[2 * k - 1] \in Byte /\ padded[2 * k] \in Byte
    BY <1>2, <2>1
  <2>3. SubSeq(padded, 2 * k - 1, 2 * k)[1] = padded[2 * k - 1]
    BY <1>2, <2>1
  <2>4. SubSeq(padded, 2 * k - 1, 2 * k)[2] = padded[2 * k]
    BY <1>2, <2>1
  <2>5. 2 * k - 1 \in 1 .. Len(buf) /\ padded[2 * k - 1] = buf[2 * k - 1]
    BY <1>2, <2>1
  <2>6. padded[2 * k] = IF 2 * k <= Len(buf) THEN buf[2 * k] ELSE 0
    BY <1>2, <2>1
  <2>7. Word_(k) \in Word
    BY <2>2, BytesWord
  <2>8. QED
    BY <2>3, <2>4, <2>5, <2>6, <2>7 DEF buf_to_u16
<1>4. u8_to_u16_vec(buf) = [k \in 1 .. N |-> buf_to_u16(SubSeq(padded, 2 * k - 1, 2 * k))]
  BY <1>2 DEF u8_to_u16_vec
<1>5. u8_to_u16_vec(buf) = [k \in 1 .. N |-> Word_(k)]
  BY <1>3, <1>4
<1> HIDE DEF padded, N
<1>6. u8_to_u16_vec(buf) \in Seq(Word) /\ Len(u8_to_u16_vec(buf)) = N
  BY <1>2, <1>3, <1>5
<1>7. QED
  BY <1>3, <1>5, <1>6 DEF N

\* the high and the low byte of a word
Hi(v) == v \div BYTES
Lo(v) == v % BYTES

\* the 20 bytes in front of the payload
HeaderOf(b, s) ==
    /\ b[1] = Hi(s.src_port) /\ b[2] = Lo(s.src_port)
    /\ b[3] = Hi(s.dst_port) /\ b[4] = Lo(s.dst_port)
    /\ b[5] = Hi(s.seg_size \div WORDS) /\ b[6] = Lo(s.seg_size \div WORDS)
    /\ b[7] = Hi(s.seg_size % WORDS) /\ b[8] = Lo(s.seg_size % WORDS)
    /\ b[9] = Hi(s.seq_num \div WORDS) /\ b[10] = Lo(s.seq_num \div WORDS)
    /\ b[11] = Hi(s.seq_num % WORDS) /\ b[12] = Lo(s.seq_num % WORDS)
    /\ b[13] = Hi(s.ack_num \div WORDS) /\ b[14] = Lo(s.ack_num \div WORDS)
    /\ b[15] = Hi(s.ack_num % WORDS) /\ b[16] = Lo(s.ack_num % WORDS)
    /\ b[17] = Hi(s.flags) /\ b[18] = Lo(s.flags)
    /\ b[19] = Hi(s.checksum) /\ b[20] = Lo(s.checksum)

LEMMA Glue ==
    ASSUME NEW p \in Seq(Byte), NEW q \in Seq(Byte)
    PROVE  /\ p \o q \in Seq(Byte) /\ Len(p \o q) = Len(p) + Len(q)
           /\ \A i \in 1 .. Len(p) : (p \o q)[i] = p[i]
           /\ \A i \in 1 .. Len(q) : (p \o q)[Len(p) + i] = q[i]
<1>1. /\ p \o q \in Seq(Byte) /\ Len(p \o q) = Len(p) + Len(q)
      /\ \A i \in 1 .. Len(p) + Len(q) : (p \o q)[i] = IF i <= Len(p) THEN p[i] ELSE q[i - Len(p)]
  BY ConcatProperties
<1>2. Len(p) \in Nat /\ Len(q) \in Nat
  OBVIOUS
<1>3. ASSUME NEW i \in 1 .. Len(p) PROVE (p \o q)[i] = p[i]
  <2>1. i \in 1 .. Len(p) + Len(q) /\ i <= Len(p)
    BY <1>2
  <2>2. QED
    BY <1>1, <2>1
<1>4. ASSUME NEW i \in 1 .. Len(q) PROVE (p \o q)[Len(p) + i] = q[i]
  <2>1. Len(p) + i \in 1 .. Len(p) + Len(q) /\ ~ (Len(p) + i <= Len(p)) /\ (Len(p) + i) - Len(p) = i
    BY <1>2
  <2>2. QED
    BY <1>1, <2>1
<1>5. QED
  BY <1>1, <1>3, <1>4

LEMMA Pair ==
    ASSUME NEW v \in Word
    PROVE  /\ u16_to_u8(v) \in Seq(Byte) /\ Len(u16_to_u8(v)) = 2
           /\ u16_to_u8(v)[1] = Hi(v) /\ u16_to_u8(v)[2] = Lo(v)
<1>1. Hi(v) \in Byte /\ Lo(v) \in Byte /\ u16_to_u8(v) = << Hi(v), Lo(v) >>
  BY WordBytes DEF Hi, Lo
<1>2. QED
  BY <1>1

LEMMA Quad ==
    ASSUME NEW v \in Double
    PROVE  /\ u32_to_u8(v) \in Seq(Byte) /\ Len(u32_to_u8(v)) = 4
           /\ u32_to_u8(v)[1] = Hi(v \div WORDS) /\ u32_to_u8(v)[2] = Lo(v \div WORDS)
           /\ u32_to_u8(v)[3] = Hi(v % WORDS) /\ u32_to_u8(v)[4] = Lo(v % WORDS)
<1> DEFINE p == u16_to_u8(v \div WORDS)
           q == u16_to_u8(v % WORDS)
<1>1. /\ p \in Seq(Byte) /\ Len(p) = 2 /\ p[1] = Hi(v \div WORDS) /\ p[2] = Lo(v \div WORDS)
      /\ q \in Seq(Byte) /\ Len(q) = 2 /\ q[1] = Hi(v % WORDS) /\ q[2] = Lo(v % WORDS)
  BY DoubleBytes, Pair
<1>2. u32_to_u8(v) = p \o q
  BY DEF u32_to_u8
<1> HIDE DEF p, q
<1>3. p \o q \in Seq(Byte) /\ Len(p \o q) = 2 + 2
      /\ (p \o q)[1] = p[1] /\ (p \o q)[2] = p[2]
      /\ (p \o q)[2 + 1] = q[1] /\ (p \o q)[2 + 2] = q[2]
  <2>1. 1 \in 1 .. Len(p) /\ 2 \in 1 .. Len(p) /\ 1 \in 1 .. Len(q) /\ 2 \in 1 .. Len(q)
    BY <1>1
  <2>2. QED
    BY <1>1, <2>1, Glue
<1>4. QED
  BY <1>1, <1>2, <1>3

LEMMA GluePair ==
    ASSUME NEW p \in Seq(Byte), NEW v \in Word
    PROVE  /\ p \o u16_to_u8(v) \in Seq(Byte) /\ Len(p \o u16_to_u8(v)) = Len(p) + 2
           /\ (p \o u16_to_u8(v))[Len(p) + 1] = Hi(v)
           /\ (p \o u16_to_u8(v))[Len(p) + 2] = Lo(v)
           /\ \A i \in 1 .. Len(p) : (p \o u16_to_u8(v))[i] = p[i]
<1> DEFINE q == u16_to_u8(v)
<1>1. q \in Seq(Byte) /\ Len(q) = 2 /\ q[1] = Hi(v) /\ q[2] = Lo(v)
  BY Pair
<1> HIDE DEF q
<1>2. 1 \in 1 .. Len(q) /\ 2 \in 1 .. Len(q)
  BY <1>1
<1>3. /\ p \o q \in Seq(Byte) /\ Len(p \o q) = Len(p) + Len(q)
      /\ \A i \in 1 .. Len(p) : (p \o q)[i] = p[i]
      /\ \A i \in 1 .. Len(q) : (p \o q)[Len(p) + i] = q[i]
  BY ONLY <1>1, p \in Seq(Byte), Glue
<1>4. QED
  BY <1>1, <1>2, <1>3 DEF q

LEMMA GlueQuad ==
    ASSUME NEW p \in Seq(Byte), NEW v \in Double
    PROVE  /\ p \o u32_to_u8(v) \in Seq(Byte) /\ Len(p \o u32_to_u8(v)) = Len(p) + 4
           /\ (p \o u32_to_u8(v))[Len(p) + 1] = Hi(v \div WORDS)
           /\ (p \o u32_to_u8(v))[Len(p) + 2] = Lo(v \div WORDS)
           /\ (p \o u32_to_u8(v))[Len(p) + 3] = Hi(v % WORDS)
           /\ (p \o u32_to_u8(v))[Len(p) + 4] = Lo(v % WORDS)
           /\ \A i \in 1 .. Len(p) : (p \o u32_to_u8(v))[i] = p[i]
<1> DEFINE q == u32_to_u8(v)
<1>1. /\ q \in Seq(Byte) /\ Len(q) = 4
      /\ q[1] = Hi(v \div WORDS) /\ q[2] = Lo(v \div WORDS)
      /\ q[3] = Hi(v % WORDS) /\ q[4] = Lo(v % WORDS)
  BY Quad
<1> HIDE DEF q
<1>2. 1 \in 1 .. Len(q) /\ 2 \in 1 .. Len(q) /\ 3 \in 1 .. Len(q) /\ 4 \in 1 .. Len(q)
  BY <1>1
<1>3. /\ p \o q \in Seq(Byte) /\ Len(p \o q) = Len(p) + Len(q)
      /\ \A i \in 1 .. Len(p) : (p \o q)[i] = p[i]
      /\ \A i \in 1 .. Len(q) : (p \o q)[Len(p) + i] = q[i]
  BY ONLY <1>1, p \in Seq(Byte), Glue
<1>4. QED
  BY <1>1, <1>2, <1>3 DEF q

LEMMA SegmentBytes ==
    ASSUME NEW s \in Segment
    PROVE  /\ to_byte_vec(s) \in Seq(Byte) /\ Len(to_byte_vec(s)) = HEADER + Len(s.payload)
           /\ HeaderOf(to_byte_vec(s), s)
           /\ \A i \in 1 .. Len(s.payload) : to_byte_vec(s)[HEADER + i] = s.payload[i]
<1>1. /\ s.src_port \in Word /\ s.dst_port \in Word /\ s.flags \in Word /\ s.checksum \in Word
      /\ s.seg_size \in Double /\ s.seq_num \in Double /\ s.ack_num \in Double
      /\ s.payload \in Seq(Byte)
  BY DEF Segment
<1> DEFINE b1 == u16_to_u8(s.src_port)
           b2 == b1 \o u16_to_u8(s.dst_port)
           b3 == b2 \o u32_to_u8(s.seg_size)
           b4 == b3 \o u32_to_u8(s.seq_num)
           b5 == b4 \o u32_to_u8(s.ack_num)
           b6 == b5 \o u16_to_u8(s.flags)
           b7 == b6 \o u16_to_u8(s.checksum)
           b8 == b7 \o s.payload
<1>2. to_byte_vec(s) = b8
  BY DEF to_byte_vec
<1>3. b1 \in Seq(Byte) /\ Len(b1) = 2 /\ b1[1] = Hi(s.src_port) /\ b1[2] = Lo(s.src_port)
  BY <1>1, Pair
<1> HIDE DEF b1
<1>4. /\ b2 \in Seq(Byte) /\ Len(b2) = 2 + 2
      /\ b2[2 + 1] = Hi(s.dst_port) /\ b2[2 + 2] = Lo(s.dst_port)
      /\ \A i \in 1 .. 2 : b2[i] = b1[i]
  <2>1. s.dst_port \in Word /\ b1 \in Seq(Byte) /\ Len(b1) = 2
    BY <1>1, <1>3
  <2>2. /\ (b1 \o u16_to_u8(s.dst_port)) \in Seq(Byte) /\ Len(b1 \o u16_to_u8(s.dst_port)) = Len(b1) + 2
        /\ (b1 \o u16_to_u8(s.dst_port))[Len(b1) + 1] = Hi(s.dst_port)
        /\ (b1 \o u16_to_u8(s.dst_port))[Len(b1) + 2] = Lo(s.dst_port)
        /\ \A i \in 1 .. Len(b1) : (b1 \o u16_to_u8(s.dst_port))[i] = b1[i]
    BY ONLY <2>1, GluePair
  <2>3. QED
    BY ONLY <2>1, <2>2
<1> HIDE DEF b2
<1>5. /\ b3 \in Seq(Byte) /\ Len(b3) = 4 + 4
      /\ b3[4 + 1] = Hi(s.seg_size \div WORDS) /\ b3[4 + 2] = Lo(s.seg_size \div WORDS)
      /\ b3[4 + 3] = Hi(s.seg_size % WORDS) /\ b3[4 + 4] = Lo(s.seg_size % WORDS)
      /\ \A i \in 1 .. 4 : b3[i] = b2[i]
  <2>1. s.seg_size \in Double /\ b2 \in Seq(Byte) /\ Len(b2) = 4
    BY <1>1, <1>4
  <2>2. /\ (b2 \o u32_to_u8(s.seg_size)) \in Seq(Byte) /\ Len(b2 \o u32_to_u8(s.seg_size)) = Len(b2) + 4
        /\ (b2 \o u32_to_u8(s.seg_size))[Len(b2) + 1] = Hi(s.seg_size \div WORDS)
        /\ (b2 \o u32_to_u8(s.seg_size))[Len(b2) + 2] = Lo(s.seg_size \div WORDS)
        /\ (b2 \o u32_to_u8(s.seg_size))[Len(b2) + 3] = Hi(s.seg_size % WORDS)
        /\ (b2 \o u32_to_u8(s.seg_size))[Len(b2) + 4] = Lo(s.seg_size % WORDS)
        /\ \A i \in 1 .. Len(b2) : (b2 \o u32_to_u8(s.seg_size))[i] = b2[i]
    BY ONLY <2>1, GlueQuad
  <2>3. QED
    BY ONLY <2>1, <2>2
<1> HIDE DEF b3
<1>6. /\ b4 \in Seq(Byte) /\ Len(b4) = 8 + 4
      /\ b4[8 + 1] = Hi(s.seq_num \div WORDS) /\ b4[8 + 2] = Lo(s.seq_num \div WORDS)
      /\ b4[8 + 3] = Hi(s.seq_num % WORDS) /\ b4[8 + 4] = Lo(s.seq_num % WORDS)
      /\ \A i \in 1 .. 8 : b4[i] = b3[i]
  <2>1. s.seq_num \in Double /\ b3 \in Seq(Byte) /\ Len(b3) = 8
    BY <1>1, <1>5
  <2>2. /\ (b3 \o u32_to_u8(s.seq_num)) \in Seq(Byte) /\ Len(b3 \o u32_to_u8(s.seq_num)) = Len(b3) + 4
        /\ (b3 \o u32_to_u8(s.seq_num))[Len(b3) + 1] = Hi(s.seq_num \div WORDS)
        /\ (b3 \o u32_to_u8(s.seq_num))[Len(b3) + 2] = Lo(s.seq_num \div WORDS)
        /\ (b3 \o u32_to_u8(s.seq_num))[Len(b3) + 3] = Hi(s.seq_num % WORDS)
        /\ (b3 \o u32_to_u8(s.seq_num))[Len(b3) + 4] = Lo(s.seq_num % WORDS)
        /\ \A i \in 1 .. Len(b3) : (b3 \o u32_to_u8(s.seq_num))[i] = b3[i]
    BY ONLY <2>1, GlueQuad
  <2>3. QED
    BY ONLY <2>1, <2>2
<1> HIDE DEF b4
<1>7. /\ b5 \in Seq(Byte) /\ Len(b5) = 12 + 4
      /\ b5[12 + 1] = Hi(s.ack_num \div WORDS) /\ b5[12 + 2] = Lo(s.ack_num \div WORDS)
      /\ b5[12 + 3] = Hi(s.ack_num % WORDS) /\ b5[12 + 4] = Lo(s.ack_num % WORDS)
      /\ \A i \in 1 .. 12 : b5[i] = b4[i]
  <2>1. s.ack_num \in Double /\ b4 \in Seq(Byte) /\ Len(b4) = 12
    BY <1>1, <1>6
  <2>2. /\ (b4 \o u32_to_u8(s.ack_num)) \in Seq(Byte) /\ Len(b4 \o u32_to_u8(s.ack_num)) = Len(b4) + 4
        /\ (b4 \o u32_to_u8(s.ack_num))[Len(b4) + 1] = Hi(s.ack_num \div WORDS)
        /\ (b4 \o u32_to_u8(s.ack_num))[Len(b4) + 2] = Lo(s.ack_num \div WORDS)
        /\ (b4 \o u32_to_u8(s.ack_num))[Len(b4) + 3] = Hi(s.ack_num % WORDS)
        /\ (b4 \o u32_to_u8(s.ack_num))[Len(b4) + 4] = Lo(s.ack_num % WORDS)
        /\ \A i \in 1 .. Len(b4) : (b4 \o u32_to_u8(s.ack_num))[i] = b4[i]
    BY ONLY <2>1, GlueQuad
  <2>3. QED
    BY ONLY <2>1, <2>2
<1> HIDE DEF b5
<1>8. /\ b6 \in Seq(Byte) /\ Len(b6) = 16 + 2
      /\ b6[16 + 1] = Hi(s.flags) /\ b6[16 + 2] = Lo(s.flags)
      /\ \A i \in 1 .. 16 : b6[i] = b5[i]
  <2>1. s.flags \in Word /\ b5 \in Seq(Byte) /\ Len(b5) = 16
    BY <1>1, <1>7
  <2>2. /\ (b5 \o u16_to_u8(s.flags)) \in Seq(Byte) /\ Len(b5 \o u16_to_u8(s.flags)) = Len(b5) + 2
        /\ (b5 \o u16_to_u8(s.flags))[Len(b5) + 1] = Hi(s.flags)
        /\ (b5 \o u16_to_u8(s.flags))[Len(b5) + 2] = Lo(s.flags)
        /\ \A i \in 1 .. Len(b5) : (b5 \o u16_to_u8(s.flags))[i] = b5[i]
    BY ONLY <2>1, GluePair
  <2>3. QED
    BY ONLY <2>1, <2>2
<1> HIDE DEF b6
<1>9. /\ b7 \in Seq(Byte) /\ Len(b7) = 18 + 2
      /\ b7[18 + 1] = Hi(s.checksum) /\ b7[18 + 2] = Lo(s.checksum)
      /\ \A i \in 1 .. 18 : b7[i] = b6[i]
  <2>1. s.checksum \in Word /\ b6 \in Seq(Byte) /\ Len(b6) = 18
    BY <1>1, <1>8
  <2>2. /\ (b6 \o u16_to_u8(s.checksum)) \in Seq(Byte) /\ Len(b6 \o u16_to_u8(s.checksum)) = Len(b6) + 2
        /\ (b6 \o u16_to_u8(s.checksum))[Len(b6) + 1] = Hi(s.checksum)
        /\ (b6 \o u16_to_u8(s.checksum))[Len(b6) + 2] = Lo(s.checksum)
        /\ \A i \in 1 .. Len(b6) : (b6 \o u16_to_u8(s.checksum))[i] = b6[i]
    BY ONLY <2>1, GluePair
  <2>3. QED
    BY ONLY <2>1, <2>2
<1> HIDE DEF b7
<1>10. /\ b8 \in Seq(Byte) /\ Len(b8) = 20 + Len(s.payload)
       /\ \A i \in 1 .. 20 : b8[i] = b7[i]
       /\ \A i \in 1 .. Len(s.payload) : b8[20 + i] = s.payload[i]
  <2>1. b7 \in Seq(Byte) /\ Len(b7) = 20 /\ s.payload \in Seq(Byte)
    BY <1>1, <1>9
  <2>2. /\ b7 \o s.payload \in Seq(Byte) /\ Len(b7 \o s.payload) = Len(b7) + Len(s.payload)
        /\ \A i \in 1 .. Len(b7) : (b7 \o s.payload)[i] = b7[i]
        /\ \A i \in 1 .. Len(s.payload) : (b7 \o s.payload)[Len(b7) + i] = s.payload[i]
    BY ONLY <2>1, Glue
  <2>3. QED
    BY ONLY <2>1, <2>2
<1> HIDE DEF b8
<1>11. HeaderOf(b7, s)
  <2>1. \A i \in 1 .. 16 : b7[i] = b5[i]
    BY <1>8, <1>9
  <2>2. \A i \in 1 .. 12 : b7[i] = b4[i]
    <3>1. \A i \in 1 .. 12 : i \in 1 .. 16
      OBVIOUS
    <3>2. QED
      BY <2>1, <3>1, <1>7
  <2>3. \A i \in 1 .. 8 : b7[i] = b3[i]
    BY <2>2, <1>6
  <2>4. \A i \in 1 .. 4 : b7[i] = b2[i]
    BY <2>3, <1>5
  <2>5. \A i \in 1 .. 2 : b7[i] = b1[i]
    BY <2>4, <1>4
  <2>6. b7[1] = Hi(s.src_port) /\ b7[2] = Lo(s.src_port)
    BY <2>5, <1>3
  <2>7. b7[3] = Hi(s.dst_port) /\ b7[4] = Lo(s.dst_port)
    BY <2>4, <1>4
  <2>8. /\ b7[5] = Hi(s.seg_size \div WORDS) /\ b7[6] = Lo(s.seg_size \div WORDS)
        /\ b7[7] = Hi(s.seg_size % WORDS) /\ b7[8] = Lo(s.seg_size % WORDS)
    BY <2>3, <1>5
  <2>9. /\ b7[9] = Hi(s.seq_num \div WORDS) /\ b7[10] = Lo(s.seq_num \div WORDS)
        /\ b7[11] = Hi(s.seq_num % WORDS) /\ b7[12] = Lo(s.seq_num % WORDS)
    BY <2>2, <1>6
  <2>10. /\ b7[13] = Hi(s.ack_num \div WORDS) /\ b7[14] = Lo(s.ack_num \div WORDS)
         /\ b7[15] = Hi(s.ack_num % WORDS) /\ b7[16] = Lo(s.ack_num % WORDS)
    BY <2>1, <1>7
  <2>11. b7[17] = Hi(s.flags) /\ b7[18] = Lo(s.flags)
    BY <1>8, <1>9
  <2>12. b7[19] = Hi(s.checksum) /\ b7[20] = Lo(s.checksum)
    BY <1>9
  <2>13. QED
    BY <2>6, <2>7, <2>8, <2>9, <2>10, <2>11, <2>12 DEF HeaderOf
<1>12. HeaderOf(b8, s)
  BY <1>10, <1>11 DEF HeaderOf
<1>13. QED
  BY <1>2, <1>10, <1>12 DEF HEADER

-----------------------------------------------------------------------------
(* What from_buf reads.                                                    *)

LEMMA ReadsWord ==
    ASSUME NEW buf \in Seq(Byte), NEW i \in 1 .. Len(buf), NEW j \in 1 .. Len(buf), j = i + 1
    PROVE  /\ buf_to_u16(SubSeq(buf, i, j)) = buf[i] * BYTES + buf[j]
           /\ buf_to_u16(SubSeq(buf, i, j)) \in Word
           /\ Hi(buf_to_u16(SubSeq(buf, i, j))) = buf[i]
           /\ Lo(buf_to_u16(SubSeq(buf, i, j))) = buf[j]
<1>1. SubSeq(buf, i, j)[1] = buf[i] /\ SubSeq(buf, i, j)[2] = buf[j]
  <2>1. \A k \in 1 .. 2 : SubSeq(buf, i, j)[k] = buf[i + k - 1]
    OBVIOUS
  <2>2. SubSeq(buf, i, j)[1] = buf[i + 1 - 1] /\ SubSeq(buf, i, j)[2] = buf[i + 2 - 1]
    BY <2>1
  <2>3. i + 1 - 1 = i /\ i + 2 - 1 = j
    OBVIOUS
  <2>4. QED
    BY <2>2, <2>3
<1>2. buf[i] \in Byte /\ buf[j] \in Byte
  OBVIOUS
<1>3. buf_to_u16(SubSeq(buf, i, j)) = buf[i] * BYTES + buf[j]
  BY <1>1 DEF buf_to_u16
<1>4. QED
  BY <1>2, <1>3, BytesWord DEF Hi, Lo

LEMMA ReadsDouble ==
    ASSUME NEW buf \in Seq(Byte), NEW i \in 1 .. Len(buf), NEW j \in 1 .. Len(buf), j = i + 3
    PROVE  LET v == buf_to_u32(SubSeq(buf, i, j)) IN
           /\ v \in Double
           /\ v = (buf[i] * BYTES + buf[i + 1]) * WORDS + (buf[i + 2] * BYTES + buf[i + 3])
           /\ Hi(v \div WORDS) = buf[i] /\ Lo(v \div WORDS) = buf[i + 1]
           /\ Hi(v % WORDS) = buf[i + 2] /\ Lo(v % WORDS) = buf[i + 3]
<1> DEFINE q == SubSeq(buf, i, j)
           a == buf_to_u16(SubSeq(q, 1, 2))
           b == buf_to_u16(SubSeq(q, 3, 4))
<1>1. /\ q \in Seq(Byte) /\ Len(q) = 4
      /\ q[1] = buf[i] /\ q[2] = buf[i + 1] /\ q[3] = buf[i + 2] /\ q[4] = buf[i + 3]
  <2>1. q \in Seq(Byte) /\ Len(q) = 4 /\ \A k \in 1 .. 4 : q[k] = buf[i + k - 1]
    OBVIOUS
  <2>2. q[1] = buf[i + 1 - 1] /\ q[2] = buf[i + 2 - 1] /\ q[3] = buf[i + 3 - 1] /\ q[4] = buf[i + 4 - 1]
    BY <2>1
  <2>3. i + 1 - 1 = i /\ i + 2 - 1 = i + 1 /\ i + 3 - 1 = i + 2 /\ i + 4 - 1 = i + 3
    OBVIOUS
  <2>4. QED
    BY <2>1, <2>2, <2>3
<1>2. buf_to_u32(q) = a * WORDS + b
  BY DEF buf_to_u32
<1> HIDE DEF q
<1>3. a = q[1] * BYTES + q[2] /\ a \in Word /\ Hi(a) = q[1] /\ Lo(a) = q[2]
  <2>1. 1 \in 1 .. Len(q) /\ 2 \in 1 .. Len(q) /\ 2 = 1 + 1
    BY <1>1
  <2>2. QED
    BY ONLY <1>1, <2>1, ReadsWord
<1>4. b = q[3] * BYTES + q[4] /\ b \in Word /\ Hi(b) = q[3] /\ Lo(b) = q[4]
  <2>1. 3 \in 1 .. Len(q) /\ 4 \in 1 .. Len(q) /\ 4 = 3 + 1
    BY <1>1
  <2>2. QED
    BY ONLY <1>1, <2>1, ReadsWord
<1> HIDE DEF a, b
<1>5. a * WORDS + b \in Double /\ (a * WORDS + b) \div WORDS = a /\ (a * WORDS + b) % WORDS = b
  BY <1>3, <1>4, WordsDouble
<1>6. buf_to_u32(q) \in Double /\ buf_to_u32(q) \div WORDS = a /\ buf_to_u32(q) % WORDS = b
  BY <1>2, <1>5
<1>7. QED
  BY <1>1, <1>2, <1>3, <1>4, <1>6 DEF q

LEMMA BufferSegment ==
    ASSUME NEW buf \in Seq(Byte), Len(buf) >= HEADER
    PROVE  /\ from_buf(buf) \in Segment
           /\ HeaderOf(buf, from_buf(buf))
           /\ Len(from_buf(buf).payload) = Len(buf) - HEADER
           /\ \A i \in 1 .. Len(buf) - HEADER : from_buf(buf).payload[i] = buf[HEADER + i]
<1> DEFINE s == from_buf(buf)
<1>1. /\ Len(buf) \in Nat /\ \A i \in 1 .. 20 : i \in 1 .. Len(buf)
  BY DEF HEADER
<1>2. s.src_port \in Word /\ Hi(s.src_port) = buf[1] /\ Lo(s.src_port) = buf[2]
  <2>1. s.src_port = buf_to_u16(SubSeq(buf, 1, 2)) /\ 1 \in 1 .. Len(buf) /\ 2 \in 1 .. Len(buf)
    BY <1>1 DEF from_buf
  <2>2. QED
    BY <2>1, ReadsWord
<1>3. s.dst_port \in Word /\ Hi(s.dst_port) = buf[3] /\ Lo(s.dst_port) = buf[4]
  <2>1. s.dst_port = buf_to_u16(SubSeq(buf, 3, 4)) /\ 3 \in 1 .. Len(buf) /\ 4 \in 1 .. Len(buf)
    BY <1>1 DEF from_buf
  <2>2. QED
    BY <2>1, ReadsWord
<1>4. s.flags \in Word /\ Hi(s.flags) = buf[17] /\ Lo(s.flags) = buf[18]
  <2>1. s.flags = buf_to_u16(SubSeq(buf, 17, 18)) /\ 17 \in 1 .. Len(buf) /\ 18 \in 1 .. Len(buf)
    BY <1>1 DEF from_buf
  <2>2. QED
    BY <2>1, ReadsWord
<1>5. s.checksum \in Word /\ Hi(s.checksum) = buf[19] /\ Lo(s.checksum) = buf[20]
  <2>1. s.checksum = buf_to_u16(SubSeq(buf, 19, 20)) /\ 19 \in 1 .. Len(buf) /\ 20 \in 1 .. Len(buf)
    BY <1>1 DEF from_buf
  <2>2. QED
    BY <2>1, ReadsWord
<1>6. /\ s.seg_size \in Double
      /\ Hi(s.seg_size \div WORDS) = buf[5] /\ Lo(s.seg_size \div WORDS) = buf[6]
      /\ Hi(s.seg_size % WORDS) = buf[7] /\ Lo(s.seg_size % WORDS) = buf[8]
  <2>1. s.seg_size = buf_to_u32(SubSeq(buf, 5, 8)) /\ 5 \in 1 .. Len(buf) /\ 8 \in 1 .. Len(buf)
    BY <1>1 DEF from_buf
  <2>2. QED
    BY <2>1, ReadsDouble
<1>7. /\ s.seq_num \in Double
      /\ Hi(s.seq_num \div WORDS) = buf[9] /\ Lo(s.seq_num \div WORDS) = buf[10]
      /\ Hi(s.seq_num % WORDS) = buf[11] /\ Lo(s.seq_num % WORDS) = buf[12]
  <2>1. s.seq_num = buf_to_u32(SubSeq(buf, 9, 12)) /\ 9 \in 1 .. Len(buf) /\ 12 \in 1 .. Len(buf)
    BY <1>1 DEF from_buf
  <2>2. QED
    BY <2>1, ReadsDouble
<1>8. /\ s.ack_num \in Double
      /\ Hi(s.ack_num \div WORDS) = buf[13] /\ Lo(s.ack_num \div WORDS) = buf[14]
      /\ Hi(s.ack_num % WORDS) = buf[15] /\ Lo(s.ack_num % WORDS) = buf[16]
  <2>1. s.ack_num = buf_to_u32(SubSeq(buf, 13, 16)) /\ 13 \in 1 .. Len(buf) /\ 16 \in 1 .. Len(buf)
    BY <1>1 DEF from_buf
  <2>2. QED
    BY <2>1, ReadsDouble
<1>9. /\ s.payload \in Seq(Byte) /\ Len(s.payload) = Len(buf) - HEADER
      /\ \A i \in 1 .. Len(buf) - HEADER : s.payload[i] = buf[HEADER + i]
  <2>1. s.payload = SubSeq(buf, 21, Len(buf)) /\ HEADER = 20 /\ Len(buf) >= 20
    BY DEF from_buf, HEADER
  <2> HIDE DEF s
  <2>2. /\ SubSeq(buf, 21, Len(buf)) \in Seq(Byte) /\ Len(SubSeq(buf, 21, Len(buf))) = Len(buf) - 20
        /\ \A i \in 1 .. Len(buf) - 20 : SubSeq(buf, 21, Len(buf))[i] = buf[21 + i - 1]
    <3>1. 21 \in Int /\ Len(buf) \in Int /\ \A i \in 21 .. Len(buf) : buf[i] \in Byte
      BY <1>1, <2>1
    <3>2. /\ SubSeq(buf, 21, Len(buf)) \in Seq(Byte)
          /\ Len(SubSeq(buf, 21, Len(buf))) = IF 21 <= Len(buf) THEN Len(buf) - 21 + 1 ELSE 0
          /\ \A i \in 1 .. Len(buf) - 21 + 1 : SubSeq(buf, 21, Len(buf))[i] = buf[21 + i - 1]
      BY ONLY <3>1, SubSeqProperties
    <3>3. Len(buf) - 21 + 1 = Len(buf) - 20 /\ Len(buf) >= 20
      BY <1>1, <2>1
    <3>4. QED
      BY <1>1, <3>2, <3>3
  <2>3. \A i \in 1 .. Len(buf) - 20 : 21 + i - 1 = 20 + i
    BY <1>1
  <2>4. QED
    BY <2>1, <2>2, <2>3
<1>10. HeaderOf(buf, s)
  <2> HIDE DEF s
  <2>1. QED
    BY <1>2, <1>3, <1>4, <1>5, <1>6, <1>7, <1>8 DEF HeaderOf
<1>11. s \in Segment
  BY <1>2, <1>3, <1>4, <1>5, <1>6, <1>7, <1>8, <1>9 DEF from_buf, Segment
<1>12. QED
  BY <1>9, <1>10, <1>11

\* a segment is known by its bytes, and a buffer by the segment
LEMMA SameHeader ==
    ASSUME NEW s \in Segment, NEW t \in Segment, NEW b, HeaderOf(b, s), HeaderOf(b, t),
           s.payload = t.payload
    PROVE  s = t
<1>1. ASSUME NEW v \in Word, NEW w \in Word, Hi(v) = Hi(w), Lo(v) = Lo(w) PROVE v = w
  <2>1. v = Hi(v) * BYTES + Lo(v) /\ w = Hi(w) * BYTES + Lo(w)
    BY WordBytes DEF Hi, Lo, u16_to_u8, buf_to_u16
  <2>2. QED
    BY <1>1, <2>1
<1>2. ASSUME NEW v \in Double, NEW w \in Double,
             Hi(v \div WORDS) = Hi(w \div WORDS), Lo(v \div WORDS) = Lo(w \div WORDS),
             Hi(v % WORDS) = Hi(w % WORDS), Lo(v % WORDS) = Lo(w % WORDS)
      PROVE  v = w
  <2>1. v \div WORDS \in Word /\ v % WORDS \in Word /\ w \div WORDS \in Word /\ w % WORDS \in Word
        /\ (v \div WORDS) * WORDS + (v % WORDS) = v /\ (w \div WORDS) * WORDS + (w % WORDS) = w
    BY DoubleBytes
  <2>2. v \div WORDS = w \div WORDS /\ v % WORDS = w % WORDS
    BY <1>1, <1>2, <2>1
  <2>3. QED
    BY <2>1, <2>2
<1>3. /\ s.src_port \in Word /\ s.dst_port \in Word /\ s.flags \in Word /\ s.checksum \in Word
      /\ t.src_port \in Word /\ t.dst_port \in Word /\ t.flags \in Word /\ t.checksum \in Word
      /\ s.seg_size \in Double /\ s.seq_num \in Double /\ s.ack_num \in Double
      /\ t.seg_size \in Double /\ t.seq_num \in Double /\ t.ack_num \in Double
  BY DEF Segment
<1>4. s.src_port = t.src_port /\ s.dst_port = t.dst_port /\ s.flags = t.flags /\ s.checksum = t.checksum
  <2>1. /\ Hi(s.src_port) = Hi(t.src_port) /\ Lo(s.src_port) = Lo(t.src_port)
        /\ Hi(s.dst_port) = Hi(t.dst_port) /\ Lo(s.dst_port) = Lo(t.dst_port)
        /\ Hi(s.flags) = Hi(t.flags) /\ Lo(s.flags) = Lo(t.flags)
        /\ Hi(s.checksum) = Hi(t.checksum) /\ Lo(s.checksum) = Lo(t.checksum)
    BY DEF HeaderOf
  <2>2. s.src_port = t.src_port
    BY <1>1, <1>3, <2>1
  <2>3. s.dst_port = t.dst_port
    BY <1>1, <1>3, <2>1
  <2>4. s.flags = t.flags
    BY <1>1, <1>3, <2>1
  <2>5. s.checksum = t.checksum
    BY <1>1, <1>3, <2>1
  <2>6. QED
    BY <2>2, <2>3, <2>4, <2>5
<1>5. s.seg_size = t.seg_size /\ s.seq_num = t.seq_num /\ s.ack_num = t.ack_num
  BY <1>2, <1>3 DEF HeaderOf
<1>6. QED
  BY <1>4, <1>5 DEF Segment

LEMMA RoundTrip == ASSUME NEW s \in Segment PROVE from_buf(to_byte_vec(s)) = s
<1> DEFINE b == to_byte_vec(s)
           t == from_buf(b)
<1>1. /\ b \in Seq(Byte) /\ Len(b) = HEADER + Len(s.payload) /\ HeaderOf(b, s)
      /\ \A i \in 1 .. Len(s.payload) : b[HEADER + i] = s.payload[i]
  BY SegmentBytes
<1>2. s.payload \in Seq(Byte) /\ Len(s.payload) \in Nat /\ HEADER \in Nat
  BY DEF Segment, HEADER
<1> HIDE DEF b
<1>3. Len(b) >= HEADER /\ Len(b) - HEADER = Len(s.payload)
  BY <1>1, <1>2
<1>4. /\ t \in Segment /\ HeaderOf(b, t) /\ Len(t.payload) = Len(s.payload)
      /\ \A i \in 1 .. Len(s.payload) : t.payload[i] = b[HEADER + i]
  BY <1>1, <1>3, BufferSegment
<1> HIDE DEF t
<1>5. t.payload = s.payload
  <2>1. t.payload \in Seq(Byte)
    BY <1>4 DEF Segment
  <2>2. ASSUME NEW i \in 1 .. Len(s.payload) PROVE t.payload[i] = s.payload[i]
    BY <1>1, <1>4
  <2>3. QED
    BY ONLY <1>2, <1>4, <2>1, <2>2, SeqEqual
<1>6. QED
  BY <1>1, <1>4, <1>5, SameHeader DEF t, b

LEMMA BufferBytes ==
    ASSUME NEW buf \in Seq(Byte), Len(buf) >= HEADER
    PROVE  to_byte_vec(from_buf(buf)) = buf
<1> DEFINE s == from_buf(buf)
           b == to_byte_vec(s)
<1>1. /\ s \in Segment /\ HeaderOf(buf, s) /\ Len(s.payload) = Len(buf) - HEADER
      /\ \A i \in 1 .. Len(buf) - HEADER : s.payload[i] = buf[HEADER + i]
  BY BufferSegment
<1> HIDE DEF s
<1>2. /\ b \in Seq(Byte) /\ Len(b) = HEADER + Len(s.payload) /\ HeaderOf(b, s)
      /\ \A i \in 1 .. Len(s.payload) : b[HEADER + i] = s.payload[i]
  BY <1>1, SegmentBytes
<1> HIDE DEF b
<1>3. HEADER = 20 /\ Len(buf) \in Nat /\ Len(b) = Len(buf)
  BY <1>1, <1>2 DEF HEADER
<1>4. ASSUME NEW i \in 1 .. 20 PROVE b[i] = buf[i]
  <2>1. \/ i = 1 \/ i = 2 \/ i = 3 \/ i = 4 \/ i = 5 \/ i = 6 \/ i = 7 \/ i = 8 \/ i = 9 \/ i = 10
        \/ i = 11 \/ i = 12 \/ i = 13 \/ i = 14 \/ i = 15 \/ i = 16 \/ i = 17 \/ i = 18 \/ i = 19
        \/ i = 20
    OBVIOUS
  <2>2. b[1] = buf[1] /\ b[2] = buf[2] /\ b[3] = buf[3] /\ b[4] = buf[4] /\ b[5] = buf[5]
    BY <1>1, <1>2 DEF HeaderOf
  <2>3. b[6] = buf[6] /\ b[7] = buf[7] /\ b[8] = buf[8] /\ b[9] = buf[9] /\ b[10] = buf[10]
    BY <1>1, <1>2 DEF HeaderOf
  <2>4. b[11] = buf[11] /\ b[12] = buf[12] /\ b[13] = buf[13] /\ b[14] = buf[14] /\ b[15] = buf[15]
    BY <1>1, <1>2 DEF HeaderOf
  <2>5. b[16] = buf[16] /\ b[17] = buf[17] /\ b[18] = buf[18] /\ b[19] = buf[19] /\ b[20] = buf[20]
    BY <1>1, <1>2 DEF HeaderOf
  <2>6. QED
    BY <2>1, <2>2, <2>3, <2>4, <2>5
<1>5. ASSUME NEW i \in 1 .. Len(buf) PROVE b[i] = buf[i]
  <2>1. CASE i <= 20
    <3>1. i \in 1 .. 20
      BY <1>3, <2>1
    <3>2. QED
      BY <1>4, <3>1
  <2>2. CASE i > 20
    <3>1. i - 20 \in 1 .. Len(buf) - HEADER /\ HEADER + (i - 20) = i /\ i - 20 \in 1 .. Len(s.payload)
      BY <1>1, <1>3, <2>2
    <3>2. b[HEADER + (i - 20)] = s.payload[i - 20] /\ s.payload[i - 20] = buf[HEADER + (i - 20)]
      BY <1>1, <1>2, <3>1
    <3>3. QED
      BY <3>1, <3>2
  <2>3. QED
    BY <2>1, <2>2
<1>6. QED
  BY <1>2, <1>3, <1>5 DEF b, s

-----------------------------------------------------------------------------
(* The checksum.                                                           *)

Words(buf) == u8_to_u16_vec(buf)

\* buffers that differ in one word
LEMMA OtherWords ==
    ASSUME NEW b \in Seq(Byte), NEW c \in Seq(Byte), Len(b) = Len(c),
           NEW j \in 1 .. HalfUp(Len(b)),
           \A i \in 1 .. Len(b) : i # 2 * j - 1 /\ i # 2 * j => b[i] = c[i]
    PROVE  /\ Words(b) \in Seq(Word) /\ Words(c) \in Seq(Word)
           /\ Len(Words(b)) = HalfUp(Len(b)) /\ Len(Words(c)) = HalfUp(Len(b))
           /\ \A k \in 1 .. HalfUp(Len(b)) : k # j => Words(b)[k] = Words(c)[k]
<1>1. /\ Words(b) \in Seq(Word) /\ Words(c) \in Seq(Word)
      /\ Len(Words(b)) = HalfUp(Len(b)) /\ Len(Words(c)) = HalfUp(Len(b))
  BY BufferWords DEF Words
<1>2. ASSUME NEW k \in 1 .. HalfUp(Len(b)), k # j PROVE Words(b)[k] = Words(c)[k]
  <2>1. /\ 2 * k - 1 \in 1 .. Len(b)
        /\ Words(b)[k] = b[2 * k - 1] * BYTES + (IF 2 * k <= Len(b) THEN b[2 * k] ELSE 0)
    BY BufferWords DEF Words
  <2>2. Words(c)[k] = c[2 * k - 1] * BYTES + (IF 2 * k <= Len(c) THEN c[2 * k] ELSE 0)
    BY BufferWords DEF Words
  <2>3. k \in Nat /\ j \in Nat /\ k > 0 /\ Len(b) \in Nat /\ HalfUp(Len(b)) \in Nat
    BY DEF HalfUp
  <2>4. 2 * k - 1 # 2 * j - 1 /\ 2 * k - 1 # 2 * j /\ 2 * k # 2 * j - 1 /\ 2 * k # 2 * j
    BY <1>2, <2>3
  <2>5. b[2 * k - 1] = c[2 * k - 1]
    BY <2>1, <2>4
  <2>6. 2 * k <= Len(b) => b[2 * k] = c[2 * k]
    <3>1. 2 * k <= Len(b) => 2 * k \in 1 .. Len(b)
      BY <2>3
    <3>2. QED
      BY <2>4, <3>1
  <2>7. QED
    BY <2>1, <2>2, <2>5, <2>6
<1>3. QED
  BY <1>1, <1>2

(* The sum of a buffer is that of the other words, and one word.           *)
LEMMA SumOfOthers ==
    ASSUME NEW b \in Seq(Byte), NEW c \in Seq(Byte), Len(b) = Len(c),
           NEW j \in 1 .. HalfUp(Len(b)),
           \A i \in 1 .. Len(b) : i # 2 * j - 1 /\ i # 2 * j => b[i] = c[i]
    PROVE  \E r \in Word :
             /\ ones_complement_sum(b) = Plus(r, Words(b)[j])
             /\ ones_complement_sum(c) = Plus(r, Words(c)[j])
             /\ Words(c)[j] = 0 => ones_complement_sum(c) = r
<1> DEFINE N == HalfUp(Len(b))
           v == Words(b)
           w == Words(c)
           rest == [v EXCEPT ![j] = 0]
<1>1. /\ v \in Seq(Word) /\ w \in Seq(Word) /\ Len(v) = N /\ Len(w) = N
      /\ \A k \in 1 .. N : k # j => v[k] = w[k]
  BY OtherWords
<1>2. ones_complement_sum(b) = sums(v)[N] /\ ones_complement_sum(c) = sums(w)[N]
  BY <1>1 DEF ones_complement_sum, Words
<1>3. N \in Nat /\ j \in 1 .. N /\ ~ (N < j) /\ N \in 0 .. N /\ 0 \in Word
  BY Sizes DEF HalfUp, Word
<1> HIDE DEF v, w, N
<1>4. rest \in Seq(Word) /\ Len(rest) = N
  BY <1>1, <1>3
<1>5. rest = [w EXCEPT ![j] = 0]
  <2> DEFINE other == [w EXCEPT ![j] = 0]
  <2>1. other \in Seq(Word) /\ Len(other) = N
    BY <1>1, <1>3
  <2>2. \A k \in 1 .. N : other[k] = rest[k]
    BY <1>1, <1>3
  <2> HIDE DEF rest, other
  <2>3. rest = other
    BY ONLY <1>4, <2>1, <2>2, SeqEqual
  <2>4. QED
    BY <2>3 DEF other
<1>6. sums(rest)[N] \in Word
  <2> HIDE DEF rest
  <2>1. QED
    BY <1>3, <1>4, SumsAdd
<1>7. sums(v)[N] = Plus(sums(rest)[N], v[j])
  <2>1. \A k \in 0 .. N : sums(v)[k] = IF k < j THEN sums(rest)[k] ELSE Plus(sums(rest)[k], v[j])
    BY <1>1, <1>3, <1>4, SumsOneWord
  <2>2. QED
    BY <1>3, <2>1
<1>8. sums(w)[N] = Plus(sums(rest)[N], w[j])
  <2> DEFINE other == [w EXCEPT ![j] = 0]
  <2>1. other \in Seq(Word)
    BY <1>1, <1>3
  <2>2. \A k \in 0 .. N : sums(w)[k] = IF k < j THEN sums(other)[k] ELSE Plus(sums(other)[k], w[j])
    BY <1>1, <1>3, <2>1, SumsOneWord
  <2>3. rest = other
    BY <1>5
  <2> HIDE DEF rest, other
  <2>4. QED
    BY <1>3, <2>2, <2>3
<1> HIDE DEF rest
<1>9. Plus(sums(rest)[N], 0) = sums(rest)[N]
  BY <1>3, <1>6, PlusProperties
<1>10. QED
  BY <1>2, <1>6, <1>7, <1>8, <1>9 DEF v, w

(* A segment whose checksum is made by generate_checksum is valid.  The    *)
(* sum is never zero, because the size of the segment is among its words.  *)
LEMMA SummedIsValid ==
    ASSUME NEW s \in Segment, s.seg_size # 0
    PROVE  summed(s) \in Segment /\ validate(summed(s))
<1> DEFINE t == [s EXCEPT !.checksum = 0]
           c == generate_checksum(s)
           u == [s EXCEPT !.checksum = c]
           bt == to_byte_vec(t)
           bu == to_byte_vec(u)
           sum == ones_complement_sum(bt)
<1>1. 0 \in Word /\ 10 \in Nat /\ WORDS \in Nat /\ WORDS >= 16
  BY Sizes DEF Word
<1>2. t \in Segment /\ t.seg_size = s.seg_size /\ t.seg_size \in Double /\ t.checksum = 0
      /\ t.payload = s.payload /\ s.payload \in Seq(Byte) /\ Len(s.payload) \in Nat
  BY <1>1 DEF Segment
<1> HIDE DEF t
<1>3. /\ bt \in Seq(Byte) /\ Len(bt) = HEADER + Len(s.payload) /\ HeaderOf(bt, t)
      /\ \A i \in 1 .. Len(s.payload) : bt[HEADER + i] = s.payload[i]
  BY <1>2, SegmentBytes
<1> HIDE DEF bt
<1>4. Len(bt) >= 20 /\ Len(bt) \in Nat /\ HalfUp(Len(bt)) >= 10 /\ HalfUp(Len(bt)) \in Nat
  <2>1. Len(bt) >= 20 /\ Len(bt) \in Nat
    BY <1>2, <1>3 DEF HEADER
  <2>2. \A n \in Nat : n >= 20 => HalfUp(n) >= 10 /\ HalfUp(n) \in Nat
    BY ONLY SMT DEF HalfUp
  <2>3. QED
    BY <2>1, <2>2
<1>5. /\ Words(bt)[3] = t.seg_size \div WORDS /\ Words(bt)[4] = t.seg_size % WORDS
      /\ Words(bt) \in Seq(Word) /\ Len(Words(bt)) = HalfUp(Len(bt))
  <2>1. /\ Words(bt)[3] = bt[2 * 3 - 1] * BYTES + bt[2 * 3]
        /\ Words(bt)[4] = bt[2 * 4 - 1] * BYTES + bt[2 * 4]
        /\ Words(bt) \in Seq(Word) /\ Len(Words(bt)) = HalfUp(Len(bt))
    <3>1. 3 \in 1 .. HalfUp(Len(bt)) /\ 4 \in 1 .. HalfUp(Len(bt)) /\ 2 * 3 <= Len(bt) /\ 2 * 4 <= Len(bt)
      BY <1>4
    <3>2. QED
      BY <1>3, <3>1, BufferWords DEF Words
  <2>2. /\ bt[5] = Hi(t.seg_size \div WORDS) /\ bt[6] = Lo(t.seg_size \div WORDS)
        /\ bt[7] = Hi(t.seg_size % WORDS) /\ bt[8] = Lo(t.seg_size % WORDS)
    BY <1>3 DEF HeaderOf
  <2>3. \A v \in Word : Hi(v) * BYTES + Lo(v) = v
    BY WordBytes DEF u16_to_u8, buf_to_u16, Hi, Lo
  <2>4. t.seg_size \div WORDS \in Word /\ t.seg_size % WORDS \in Word
    BY <1>2, DoubleBytes
  <2>5. 2 * 3 - 1 = 5 /\ 2 * 3 = 6 /\ 2 * 4 - 1 = 7 /\ 2 * 4 = 8
    OBVIOUS
  <2>6. QED
    BY <2>1, <2>2, <2>3, <2>4, <2>5
<1>6. sum \in Word /\ sum # 0
  <2>1. sum = sums(Words(bt))[Len(Words(bt))] /\ Len(Words(bt)) \in 0 .. Len(Words(bt))
    BY <1>4, <1>5 DEF ones_complement_sum, Words
  <2>2. sum \in Word
    BY <1>5, <2>1, SumsAdd
  <2>3. Words(bt)[3] # 0 \/ Words(bt)[4] # 0
    <3>1. SUFFICES ASSUME t.seg_size \div WORDS = 0, t.seg_size % WORDS = 0 PROVE FALSE
      BY <1>5
    <3>2. t.seg_size = 0 * WORDS + 0
      BY <1>2, <3>1, DoubleBytes
    <3>3. QED
      BY <1>1, <1>2, <3>2
  <2>4. 3 \in 1 .. Len(Words(bt)) /\ 4 \in 1 .. Len(Words(bt))
    BY <1>4, <1>5
  <2>5. sums(Words(bt))[Len(Words(bt))] # 0
    BY <1>5, <2>3, <2>4, SumsZero
  <2>6. QED
    BY <2>1, <2>2, <2>5
<1>7. c = WORDS - 1 - sum /\ c \in Word
  <2>1. c = IF sum = 0 THEN 0 ELSE WORDS - 1 - sum
    BY DEF generate_checksum, t, bt
  <2>2. QED
    BY <1>1, <1>6, <2>1 DEF Word
<1> HIDE DEF sum, c
<1>8. /\ u \in Segment /\ u.checksum = c /\ u.payload = s.payload
      /\ u.src_port = t.src_port /\ u.dst_port = t.dst_port /\ u.seg_size = t.seg_size
      /\ u.seq_num = t.seq_num /\ u.ack_num = t.ack_num /\ u.flags = t.flags
  BY <1>7 DEF Segment, t
<1>9. summed(s) = u
  BY DEF summed, c
<1> HIDE DEF u
<1>10. /\ bu \in Seq(Byte) /\ Len(bu) = HEADER + Len(s.payload) /\ HeaderOf(bu, u)
       /\ \A i \in 1 .. Len(s.payload) : bu[HEADER + i] = s.payload[i]
  BY <1>8, SegmentBytes
<1> HIDE DEF bu
<1>11. ASSUME NEW i \in 1 .. Len(bu), i # 2 * 10 - 1, i # 2 * 10 PROVE bu[i] = bt[i]
  <2>1. CASE i > 20
    <3>1. i - 20 \in 1 .. Len(s.payload) /\ HEADER + (i - 20) = i
      BY <1>2, <1>10, <2>1 DEF HEADER
    <3>2. bu[HEADER + (i - 20)] = bt[HEADER + (i - 20)]
      BY <1>3, <1>10, <3>1
    <3>3. QED
      BY <3>1, <3>2
  <2>2. CASE i <= 20
    <3>1. \/ i = 1 \/ i = 2 \/ i = 3 \/ i = 4 \/ i = 5 \/ i = 6 \/ i = 7 \/ i = 8 \/ i = 9 \/ i = 10
          \/ i = 11 \/ i = 12 \/ i = 13 \/ i = 14 \/ i = 15 \/ i = 16 \/ i = 17 \/ i = 18
      BY <1>11, <2>2
    <3>2. /\ bu[1] = bt[1] /\ bu[2] = bt[2] /\ bu[3] = bt[3] /\ bu[4] = bt[4] /\ bu[5] = bt[5]
          /\ bu[6] = bt[6] /\ bu[7] = bt[7] /\ bu[8] = bt[8] /\ bu[9] = bt[9]
      BY <1>3, <1>8, <1>10 DEF HeaderOf
    <3>3. /\ bu[10] = bt[10] /\ bu[11] = bt[11] /\ bu[12] = bt[12] /\ bu[13] = bt[13]
          /\ bu[14] = bt[14] /\ bu[15] = bt[15] /\ bu[16] = bt[16] /\ bu[17] = bt[17]
          /\ bu[18] = bt[18]
      BY <1>3, <1>8, <1>10 DEF HeaderOf
    <3>4. QED
      BY <3>1, <3>2, <3>3
  <2>3. QED
    BY <1>2, <1>10, <2>1, <2>2 DEF HEADER
<1>12. Words(bu)[10] = c /\ Words(bt)[10] = 0
  <2>1. Len(bu) = Len(bt) /\ 10 \in 1 .. HalfUp(Len(bt)) /\ 2 * 10 <= Len(bt)
    BY <1>3, <1>4, <1>10
  <2>2. /\ Words(bt)[10] = bt[2 * 10 - 1] * BYTES + bt[2 * 10]
        /\ Words(bu)[10] = bu[2 * 10 - 1] * BYTES + bu[2 * 10]
    BY <1>3, <1>10, <2>1, BufferWords DEF Words
  <2>3. bt[19] = Hi(0) /\ bt[20] = Lo(0) /\ bu[19] = Hi(c) /\ bu[20] = Lo(c)
    BY <1>2, <1>3, <1>8, <1>10 DEF HeaderOf
  <2>4. \A v \in Word : Hi(v) * BYTES + Lo(v) = v
    BY WordBytes DEF u16_to_u8, buf_to_u16, Hi, Lo
  <2>5. 2 * 10 - 1 = 19 /\ 2 * 10 = 20
    OBVIOUS
  <2>6. QED
    BY <1>1, <1>7, <2>2, <2>3, <2>4, <2>5
<1>13. PICK r \in Word :
         /\ ones_complement_sum(bu) = Plus(r, Words(bu)[10])
         /\ Words(bt)[10] = 0 => ones_complement_sum(bt) = r
  <2>1. Len(bu) = Len(bt) /\ 10 \in 1 .. HalfUp(Len(bu))
    BY <1>3, <1>4, <1>10
  <2>2. QED
    BY <1>3, <1>10, <1>11, <2>1, SumOfOthers
<1>14. ones_complement_sum(bu) = WORDS - 1
  <2>1. r = sum
    BY <1>12, <1>13 DEF sum
  <2>2. Plus(sum, WORDS - 1 - sum) = WORDS - 1
    BY <1>6, PlusProperties
  <2>3. QED
    BY <1>7, <1>12, <1>13, <2>1, <2>2
<1>15. QED
  BY <1>8, <1>9, <1>14 DEF validate, bu

(* Two words that the same sum makes all ones are equal, or all zeros and  *)
(* all ones; and these differ in both bytes.                               *)
LEMMA SameSum ==
    ASSUME NEW r \in Word, NEW x \in Word, NEW y \in Word,
           Plus(r, x) = WORDS - 1, Plus(r, y) = WORDS - 1, x # y
    PROVE  \/ x = 0 /\ y = WORDS - 1
           \/ x = WORDS - 1 /\ y = 0
<1>1. WORDS \in Nat /\ WORDS >= 16 /\ r \in Nat /\ x \in Nat /\ y \in Nat
      /\ r < WORDS /\ x < WORDS /\ y < WORDS
  BY Sizes DEF Word
<1>2. QED
  BY <1>1 DEF Plus

LEMMA AllZeros ==
    ASSUME NEW a \in Byte, NEW b \in Byte, a * BYTES + b = 0
    PROVE  a = 0 /\ b = 0
<1>1. BYTES \in Nat /\ BYTES > 0 /\ a \in Nat /\ b \in Nat
  BY Sizes DEF Byte
<1>2. a * BYTES \in Nat /\ (a > 0 => a * BYTES > 0)
  BY <1>1
<1>3. QED
  BY <1>1, <1>2

LEMMA AllOnes ==
    ASSUME NEW a \in Byte, NEW b \in Byte, a * BYTES + b = WORDS - 1
    PROVE  a = BYTES - 1 /\ b = BYTES - 1
<1>1. BYTES \in Nat /\ BYTES >= 4 /\ BYTES - 1 \in Byte
  BY Sizes DEF Byte
<1>2. (BYTES - 1) * BYTES + (BYTES - 1) = WORDS - 1
  BY <1>1, Sizes
<1>3. /\ (a * BYTES + b) \div BYTES = a /\ (a * BYTES + b) % BYTES = b
      /\ ((BYTES - 1) * BYTES + (BYTES - 1)) \div BYTES = BYTES - 1
      /\ ((BYTES - 1) * BYTES + (BYTES - 1)) % BYTES = BYTES - 1
  BY <1>1, BytesWord
<1>4. QED
  BY <1>2, <1>3

LEMMA DamageSums ==
    ASSUME NEW sent \in Seq(Byte), NEW i \in 1 .. Len(sent), NEW b \in Byte, b # sent[i],
           ones_complement_sum(sent) = WORDS - 1
    PROVE  ones_complement_sum([sent EXCEPT ![i] = b]) # WORDS - 1
<1> DEFINE dam == [sent EXCEPT ![i] = b]
           j == HalfUp(i)
           p == sent[2 * j - 1]
           q == IF 2 * j <= Len(sent) THEN sent[2 * j] ELSE 0
           pd == dam[2 * j - 1]
           qd == IF 2 * j <= Len(dam) THEN dam[2 * j] ELSE 0
<1>1. dam \in Seq(Byte) /\ Len(dam) = Len(sent) /\ dam[i] = b
      /\ \A k \in 1 .. Len(sent) : k # i => dam[k] = sent[k]
  OBVIOUS
<1>2. i \in Nat /\ i > 0 /\ i <= Len(sent) /\ Len(sent) \in Nat
  OBVIOUS
<1>3. j \in 1 .. HalfUp(Len(sent)) /\ (i = 2 * j - 1 \/ i = 2 * j) /\ j \in Nat
  <2>1. \A m, n \in Nat : m > 0 /\ m <= n =>
          HalfUp(m) \in 1 .. HalfUp(n) /\ (m = 2 * HalfUp(m) - 1 \/ m = 2 * HalfUp(m))
    BY ONLY SMT DEF HalfUp
  <2>2. QED
    BY <1>2, <2>1
<1> HIDE DEF dam, j
<1>4. \A k \in 1 .. Len(sent) : k # 2 * j - 1 /\ k # 2 * j => sent[k] = dam[k]
  BY <1>1, <1>3
<1>5. PICK r \in Word : /\ ones_complement_sum(sent) = Plus(r, Words(sent)[j])
                        /\ ones_complement_sum(dam) = Plus(r, Words(dam)[j])
  BY <1>1, <1>3, <1>4, SumOfOthers
<1>6. /\ 2 * j - 1 \in 1 .. Len(sent)
      /\ Words(sent)[j] = p * BYTES + q /\ Words(dam)[j] = pd * BYTES + qd
  BY <1>1, <1>3, BufferWords DEF Words
<1>7. p \in Byte /\ q \in Byte /\ pd \in Byte /\ qd \in Byte
  <2>1. 2 * j <= Len(sent) => 2 * j \in 1 .. Len(sent)
    BY <1>2, <1>3
  <2>2. 0 \in Byte
    BY Sizes DEF Byte
  <2>3. QED
    BY <1>1, <1>6, <2>1, <2>2
<1>8. \/ p = pd /\ q # qd
      \/ p # pd /\ q = qd
  <2>1. CASE i = 2 * j - 1
    <3>1. p # pd
      BY <1>1, <2>1
    <3>2. 2 * j <= Len(sent) => 2 * j \in 1 .. Len(sent) /\ 2 * j # i
      BY <1>2, <1>3, <2>1
    <3>3. q = qd
      BY <1>1, <3>2
    <3>4. QED
      BY <3>1, <3>3
  <2>2. CASE i = 2 * j
    <3>1. q = sent[i] /\ qd = b
      BY <1>1, <1>2, <2>2
    <3>2. 2 * j - 1 # i
      BY <1>2, <1>3, <2>2
    <3>3. p = pd
      BY <1>1, <1>6, <3>2
    <3>4. QED
      BY <3>1, <3>3
  <2>3. QED
    BY <1>3, <2>1, <2>2
<1> HIDE DEF p, q, pd, qd
<1>9. p * BYTES + q \in Word /\ pd * BYTES + qd \in Word /\ p * BYTES + q # pd * BYTES + qd
  <2>1. /\ p * BYTES + q \in Word /\ (p * BYTES + q) \div BYTES = p /\ (p * BYTES + q) % BYTES = q
        /\ pd * BYTES + qd \in Word /\ (pd * BYTES + qd) \div BYTES = pd
        /\ (pd * BYTES + qd) % BYTES = qd
    BY <1>7, BytesWord
  <2>2. QED
    BY <1>8, <2>1
<1>10. SUFFICES ASSUME ones_complement_sum(dam) = WORDS - 1 PROVE FALSE
  BY DEF dam
<1>11. Plus(r, p * BYTES + q) = WORDS - 1 /\ Plus(r, pd * BYTES + qd) = WORDS - 1
  BY <1>5, <1>6, <1>10
<1>12. \/ p * BYTES + q = 0 /\ pd * BYTES + qd = WORDS - 1
       \/ p * BYTES + q = WORDS - 1 /\ pd * BYTES + qd = 0
  BY <1>9, <1>11, SameSum
<1>13. \/ p = 0 /\ q = 0 /\ pd = BYTES - 1 /\ qd = BYTES - 1
       \/ p = BYTES - 1 /\ q = BYTES - 1 /\ pd = 0 /\ qd = 0
  BY <1>7, <1>12, AllZeros, AllOnes
<1>14. BYTES - 1 # 0
  BY Sizes
<1>15. QED
  BY <1>8, <1>13, <1>14

LEMMA ValidDamaged ==
    ASSUME NEW s \in Segment, validate(s), NEW i \in DOMAIN to_byte_vec(s),
           NEW b \in Byte \ {to_byte_vec(s)[i]}
    PROVE  ~ validate(from_buf([to_byte_vec(s) EXCEPT ![i] = b]))
<1> DEFINE sent == to_byte_vec(s)
           dam == [sent EXCEPT ![i] = b]
<1>1. sent \in Seq(Byte) /\ Len(sent) = HEADER + Len(s.payload) /\ Len(s.payload) \in Nat
  BY SegmentBytes DEF Segment
<1>2. ones_complement_sum(sent) = WORDS - 1
  BY DEF validate
<1> HIDE DEF sent
<1>3. i \in 1 .. Len(sent) /\ b \in Byte /\ b # sent[i]
  BY <1>1 DEF sent
<1>4. dam \in Seq(Byte) /\ Len(dam) >= HEADER
  BY <1>1, <1>3 DEF HEADER
<1>5. ones_complement_sum(dam) # WORDS - 1
  BY <1>1, <1>2, <1>3, DamageSums
<1> HIDE DEF dam
<1>6. to_byte_vec(from_buf(dam)) = dam
  BY <1>4, BufferBytes
<1>7. ~ validate(from_buf(dam))
  BY <1>5, <1>6 DEF validate
<1>8. QED
  BY <1>7 DEF dam, sent

-----------------------------------------------------------------------------
(* The flags: the three highest bits of a word.                            *)

Bit == {0, 1}

\* the word with these three bits and the rest r, if m is the lowest of them
Flags(m, a, b, c, r) == (4 * m) * a + (2 * m) * b + m * c + r

LEMMA FlagBits ==
    \E m \in Nat \ {0} :
      WORDS = 8 * m /\ bit("SYN") = 4 * m /\ bit("ACK") = 2 * m /\ bit("FIN") = m
<1>1. PICK n \in Nat \ {0} : BYTES = 4 * n
  <2>1. BYTES = 4 * (BYTES \div 4) /\ BYTES \div 4 \in Nat /\ BYTES \div 4 # 0
    BY WireAssumption, Sizes
  <2>2. QED
    BY <2>1
<1>2. WORDS = 16 * (n * n) /\ n * n \in Nat \ {0}
  BY <1>1 DEF WORDS
<1>3. PICK m \in Nat \ {0} : WORDS = 8 * m
  <2>1. 2 * (n * n) \in Nat \ {0} /\ WORDS = 8 * (2 * (n * n))
    BY <1>2
  <2>2. QED
    BY <2>1
<1>4. bit("SYN") = WORDS \div 2 /\ bit("ACK") = WORDS \div 4 /\ bit("FIN") = WORDS \div 8
  BY DEF bit
<1>5. WORDS \div 2 = 4 * m /\ WORDS \div 4 = 2 * m /\ WORDS \div 8 = m
  BY ONLY <1>3
<1>6. QED
  BY <1>3, <1>4, <1>5

LEMMA FlagsWord ==
    ASSUME NEW m \in Nat \ {0}, NEW a \in Bit, NEW b \in Bit, NEW c \in Bit,
           NEW r \in 0 .. m - 1
    PROVE  /\ Flags(m, a, b, c, r) \in 0 .. 8 * m - 1
           /\ (Flags(m, a, b, c, r) \div (4 * m)) % 2 = a
           /\ (Flags(m, a, b, c, r) \div (2 * m)) % 2 = b
           /\ (Flags(m, a, b, c, r) \div m) % 2 = c
<1> DEFINE f == Flags(m, a, b, c, r)
           s == (2 * m) * b + m * c + r
           t == m * c + r
<1>1. m \in Nat /\ m > 0 /\ r \in Nat /\ r < m
  OBVIOUS
<1>2. f = (4 * m) * a + s /\ s \in 0 .. 4 * m - 1
  <2>1. CASE b = 0 /\ c = 0
    BY <1>1, <2>1 DEF Flags, Bit
  <2>2. CASE b = 1 /\ c = 0
    BY <1>1, <2>2 DEF Flags, Bit
  <2>3. CASE b = 0 /\ c = 1
    BY <1>1, <2>3 DEF Flags, Bit
  <2>4. CASE b = 1 /\ c = 1
    BY <1>1, <2>4 DEF Flags, Bit
  <2>5. QED
    BY <2>1, <2>2, <2>3, <2>4 DEF Bit
<1>3. f = (2 * m) * (2 * a + b) + t /\ t \in 0 .. 2 * m - 1
  <2>1. CASE a = 0 /\ c = 0
    BY <1>1, <2>1 DEF Flags, Bit
  <2>2. CASE a = 1 /\ c = 0
    BY <1>1, <2>2 DEF Flags, Bit
  <2>3. CASE a = 0 /\ c = 1
    BY <1>1, <2>3 DEF Flags, Bit
  <2>4. CASE a = 1 /\ c = 1
    BY <1>1, <2>4 DEF Flags, Bit
  <2>5. QED
    BY <2>1, <2>2, <2>3, <2>4 DEF Bit
<1>4. f = m * (4 * a + 2 * b + c) + r
  <2>1. CASE a = 0 /\ b = 0
    BY <1>1, <2>1 DEF Flags, Bit
  <2>2. CASE a = 1 /\ b = 0
    BY <1>1, <2>2 DEF Flags, Bit
  <2>3. CASE a = 0 /\ b = 1
    BY <1>1, <2>3 DEF Flags, Bit
  <2>4. CASE a = 1 /\ b = 1
    BY <1>1, <2>4 DEF Flags, Bit
  <2>5. QED
    BY <2>1, <2>2, <2>3, <2>4 DEF Bit
<1>5. f \in 0 .. 8 * m - 1
  <2>1. CASE a = 0
    BY <1>1, <1>2, <2>1
  <2>2. CASE a = 1
    BY <1>1, <1>2, <2>2
  <2>3. QED
    BY <2>1, <2>2 DEF Bit
<1> HIDE DEF f, s, t
<1>6. 4 * m \in Nat \ {0} /\ 2 * m \in Nat \ {0} /\ a \in Nat /\ 2 * a + b \in Nat
      /\ 4 * a + 2 * b + c \in Nat
  BY <1>1 DEF Bit
<1>7. f \div (4 * m) = a
  BY <1>2, <1>6, QuotientIs
<1>8. f \div (2 * m) = 2 * a + b
  BY <1>3, <1>6, QuotientIs
<1>9. f \div m = 4 * a + 2 * b + c
  BY <1>1, <1>4, <1>6, QuotientIs
<1>10. a % 2 = a /\ (2 * a + b) % 2 = b /\ (4 * a + 2 * b + c) % 2 = c
  BY DEF Bit
<1>11. QED
  BY <1>5, <1>7, <1>8, <1>9, <1>10 DEF f

LEMMA FlagsOf ==
    ASSUME NEW m \in Nat \ {0}, NEW f \in 0 .. 8 * m - 1
    PROVE  \E a, b, c \in Bit : \E r \in 0 .. m - 1 : f = Flags(m, a, b, c, r)
<1>1. m \in Nat /\ m > 0 /\ f \in Nat /\ f < 8 * m
  OBVIOUS
<1>2. PICK a \in Bit, s \in 0 .. 4 * m - 1 : f = (4 * m) * a + s
  <2>1. CASE f < 4 * m
    <3>1. f \in 0 .. 4 * m - 1 /\ f = (4 * m) * 0 + f
      BY <1>1, <2>1
    <3>2. QED
      BY <3>1 DEF Bit
  <2>2. CASE f >= 4 * m
    <3>1. f - 4 * m \in 0 .. 4 * m - 1 /\ f = (4 * m) * 1 + (f - 4 * m)
      BY <1>1, <2>2
    <3>2. QED
      BY <3>1 DEF Bit
  <2>3. QED
    BY <1>1, <2>1, <2>2
<1>3. PICK b \in Bit, t \in 0 .. 2 * m - 1 : s = (2 * m) * b + t
  <2>1. CASE s < 2 * m
    <3>1. s \in 0 .. 2 * m - 1 /\ s = (2 * m) * 0 + s
      BY <1>1, <2>1
    <3>2. QED
      BY <3>1 DEF Bit
  <2>2. CASE s >= 2 * m
    <3>1. s - 2 * m \in 0 .. 2 * m - 1 /\ s = (2 * m) * 1 + (s - 2 * m)
      BY <1>1, <2>2
    <3>2. QED
      BY <3>1 DEF Bit
  <2>3. QED
    BY <1>1, <2>1, <2>2
<1>4. PICK c \in Bit, r \in 0 .. m - 1 : t = m * c + r
  <2>1. CASE t < m
    <3>1. t \in 0 .. m - 1 /\ t = m * 0 + t
      BY <1>1, <2>1
    <3>2. QED
      BY <3>1 DEF Bit
  <2>2. CASE t >= m
    <3>1. t - m \in 0 .. m - 1 /\ t = m * 1 + (t - m)
      BY <1>1, <2>2
    <3>2. QED
      BY <3>1 DEF Bit
  <2>3. QED
    BY <1>1, <2>1, <2>2
<1>5. f = Flags(m, a, b, c, r)
  BY <1>1, <1>2, <1>3, <1>4 DEF Flags, Bit
<1>6. QED
  BY <1>5

LEMMA OrBits ==
    ASSUME NEW m \in Nat \ {0}, NEW a \in Bit, NEW b \in Bit, NEW c \in Bit,
           NEW r \in 0 .. m - 1
    PROVE  /\ or(Flags(m, a, b, c, r), 4 * m) = Flags(m, 1, b, c, r)
           /\ or(Flags(m, a, b, c, r), 2 * m) = Flags(m, a, 1, c, r)
           /\ or(Flags(m, a, b, c, r), m) = Flags(m, a, b, 1, r)
<1> DEFINE f == Flags(m, a, b, c, r)
<1>1. (f \div (4 * m)) % 2 = a /\ (f \div (2 * m)) % 2 = b /\ (f \div m) % 2 = c
  BY FlagsWord
<1>2. m \in Nat /\ r \in Nat
  OBVIOUS
<1>3. a = 0 => f + 4 * m = Flags(m, 1, b, c, r)
  BY <1>2 DEF Flags, Bit
<1>4. b = 0 => f + 2 * m = Flags(m, a, 1, c, r)
  BY <1>2 DEF Flags, Bit
<1>5. c = 0 => f + m = Flags(m, a, b, 1, r)
  BY <1>2 DEF Flags, Bit
<1>6. (a = 1 => f = Flags(m, 1, b, c, r)) /\ (b = 1 => f = Flags(m, a, 1, c, r))
      /\ (c = 1 => f = Flags(m, a, b, 1, r))
  OBVIOUS
<1> HIDE DEF f
<1>7. or(f, 4 * m) = Flags(m, 1, b, c, r)
  BY <1>1, <1>3, <1>6 DEF or, Bit
<1>8. or(f, 2 * m) = Flags(m, a, 1, c, r)
  BY <1>1, <1>4, <1>6 DEF or, Bit
<1>9. or(f, m) = Flags(m, a, b, 1, r)
  BY <1>1, <1>5, <1>6 DEF or, Bit
<1>10. QED
  BY <1>7, <1>8, <1>9 DEF f

LEMMA NotBits ==
    ASSUME NEW m \in Nat \ {0}, WORDS = 8 * m, NEW a \in Bit, NEW b \in Bit, NEW c \in Bit,
           NEW r \in 0 .. m - 1
    PROVE  /\ 1 - a \in Bit /\ 1 - b \in Bit /\ 1 - c \in Bit /\ m - 1 - r \in 0 .. m - 1
           /\ not(Flags(m, a, b, c, r)) = Flags(m, 1 - a, 1 - b, 1 - c, m - 1 - r)
<1>1. m \in Nat /\ m > 0 /\ r \in Nat /\ r < m
  OBVIOUS
<1>2. 1 - a \in Bit /\ 1 - b \in Bit /\ 1 - c \in Bit /\ m - 1 - r \in 0 .. m - 1
  BY <1>1 DEF Bit
<1>3. (4 * m) * (1 - a) = 4 * m - (4 * m) * a
  BY <1>1 DEF Bit
<1>4. (2 * m) * (1 - b) = 2 * m - (2 * m) * b
  BY <1>1 DEF Bit
<1>5. m * (1 - c) = m - m * c
  BY <1>1 DEF Bit
<1>6. (4 * m) * a \in Int /\ (2 * m) * b \in Int /\ m * c \in Int
  BY <1>1 DEF Bit
<1>7. 8 * m - 1 - ((4 * m) * a + (2 * m) * b + m * c + r)
        = (4 * m - (4 * m) * a) + (2 * m - (2 * m) * b) + (m - m * c) + (m - 1 - r)
  <2>1. \A x, y, z, k, l \in Int :
          8 * k - 1 - (x + y + z + l) = (4 * k - x) + (2 * k - y) + (k - z) + (k - 1 - l)
    BY ONLY SMT
  <2>2. m \in Int /\ r \in Int
    BY <1>1
  <2>3. QED
    BY ONLY <1>6, <2>1, <2>2
<1>8. QED
  BY <1>2, <1>3, <1>4, <1>5, <1>7 DEF not, Flags

\* the flags that a word holds
Held(f) == {flag \in Flag : (f \div bit(flag)) % 2 = 1}

Names(a, b, c) ==
    {flag \in Flag : (flag = "SYN" /\ a = 1) \/ (flag = "ACK" /\ b = 1) \/ (flag = "FIN" /\ c = 1)}

LEMMA SetAndUnset ==
    ASSUME NEW f \in Word, NEW flag \in Flag
    PROVE  /\ or(f, bit(flag)) \in Word
           /\ Held(or(f, bit(flag))) = Held(f) \cup {flag}
           /\ not(or(not(f), bit(flag))) \in Word
           /\ Held(not(or(not(f), bit(flag)))) = Held(f) \ {flag}
<1>1. PICK m \in Nat \ {0} :
        WORDS = 8 * m /\ bit("SYN") = 4 * m /\ bit("ACK") = 2 * m /\ bit("FIN") = m
  BY FlagBits
<1>2. PICK a, b, c \in Bit : \E r \in 0 .. m - 1 : f = Flags(m, a, b, c, r)
  BY <1>1, FlagsOf DEF Word
<1>3. PICK r \in 0 .. m - 1 : f = Flags(m, a, b, c, r)
  BY <1>2
<1>4. 1 \in Bit /\ 1 - 1 = 0 /\ 0 \in Bit /\ 1 # 0
  BY DEF Bit
<1>5. ASSUME NEW x \in Bit, NEW y \in Bit, NEW z \in Bit, NEW w \in 0 .. m - 1
      PROVE  /\ Flags(m, x, y, z, w) \in Word
             /\ Held(Flags(m, x, y, z, w)) = Names(x, y, z)
  <2> DEFINE v == Flags(m, x, y, z, w)
  <2>1. /\ v \in 0 .. 8 * m - 1
        /\ (v \div (4 * m)) % 2 = x /\ (v \div (2 * m)) % 2 = y /\ (v \div m) % 2 = z
    BY FlagsWord
  <2> HIDE DEF v
  <2>2. /\ (v \div bit("SYN")) % 2 = x /\ (v \div bit("ACK")) % 2 = y
        /\ (v \div bit("FIN")) % 2 = z
    BY <1>1, <2>1
  <2>3. v \in Word
    BY <1>1, <2>1 DEF Word
  <2>4. Held(v) = Names(x, y, z)
    BY <2>2 DEF Held, Names, Flag
  <2>5. QED
    BY <2>3, <2>4 DEF v
<1>6. ASSUME NEW x \in Bit, NEW y \in Bit, NEW z \in Bit, NEW w \in 0 .. m - 1
      PROVE  /\ or(Flags(m, x, y, z, w), bit("SYN")) = Flags(m, 1, y, z, w)
             /\ or(Flags(m, x, y, z, w), bit("ACK")) = Flags(m, x, 1, z, w)
             /\ or(Flags(m, x, y, z, w), bit("FIN")) = Flags(m, x, y, 1, w)
  BY <1>1, OrBits
<1>7. ASSUME NEW x \in Bit, NEW y \in Bit, NEW z \in Bit, NEW w \in 0 .. m - 1,
             NEW x2, NEW y2, NEW z2, NEW w2,
             x2 = 1 - x, y2 = 1 - y, z2 = 1 - z, w2 = m - 1 - w
      PROVE  /\ x2 \in Bit /\ y2 \in Bit /\ z2 \in Bit /\ w2 \in 0 .. m - 1
             /\ not(Flags(m, x, y, z, w)) = Flags(m, x2, y2, z2, w2)
  BY ONLY <1>1, <1>7, NotBits
<1> DEFINE oa == 1 - a
           ob == 1 - b
           oc == 1 - c
           u == m - 1 - r
           n == not(f)
<1>8. /\ oa \in Bit /\ ob \in Bit /\ oc \in Bit /\ u \in 0 .. m - 1
      /\ n = Flags(m, oa, ob, oc, u)
  BY <1>2, <1>3, <1>7
<1>9. /\ a = 1 - oa /\ b = 1 - ob /\ c = 1 - oc /\ r = m - 1 - u
      /\ 0 = 1 - 1
  BY <1>1, <1>2, <1>3 DEF Bit
<1> HIDE DEF oa, ob, oc, u, n
<1>10. CASE flag = "SYN"
  <2>1. or(f, bit(flag)) = Flags(m, 1, b, c, r)
    BY <1>2, <1>3, <1>6, <1>10
  <2>2. or(n, bit(flag)) = Flags(m, 1, ob, oc, u)
    BY <1>6, <1>8, <1>10
  <2>3. not(Flags(m, 1, ob, oc, u)) = Flags(m, 0, b, c, r)
    BY ONLY <1>4, <1>7, <1>8, <1>9
  <2>4. not(or(n, bit(flag))) = Flags(m, 0, b, c, r)
    BY <2>2, <2>3
  <2>5. Names(1, b, c) = Names(a, b, c) \cup {flag} /\ Names(0, b, c) = Names(a, b, c) \ {flag}
    BY <1>4, <1>10 DEF Names, Flag
  <2>6. /\ Flags(m, 1, b, c, r) \in Word /\ Held(Flags(m, 1, b, c, r)) = Names(1, b, c)
        /\ Flags(m, 0, b, c, r) \in Word /\ Held(Flags(m, 0, b, c, r)) = Names(0, b, c)
        /\ Held(f) = Names(a, b, c)
    BY <1>2, <1>3, <1>4, <1>5
  <2>7. QED
    BY <2>1, <2>4, <2>5, <2>6 DEF n
<1>11. CASE flag = "ACK"
  <2>1. or(f, bit(flag)) = Flags(m, a, 1, c, r)
    BY <1>2, <1>3, <1>6, <1>11
  <2>2. or(n, bit(flag)) = Flags(m, oa, 1, oc, u)
    BY <1>6, <1>8, <1>11
  <2>3. not(Flags(m, oa, 1, oc, u)) = Flags(m, a, 0, c, r)
    BY ONLY <1>4, <1>7, <1>8, <1>9
  <2>4. not(or(n, bit(flag))) = Flags(m, a, 0, c, r)
    BY <2>2, <2>3
  <2>5. Names(a, 1, c) = Names(a, b, c) \cup {flag} /\ Names(a, 0, c) = Names(a, b, c) \ {flag}
    BY <1>4, <1>11 DEF Names, Flag
  <2>6. /\ Flags(m, a, 1, c, r) \in Word /\ Held(Flags(m, a, 1, c, r)) = Names(a, 1, c)
        /\ Flags(m, a, 0, c, r) \in Word /\ Held(Flags(m, a, 0, c, r)) = Names(a, 0, c)
        /\ Held(f) = Names(a, b, c)
    BY <1>2, <1>3, <1>4, <1>5
  <2>7. QED
    BY <2>1, <2>4, <2>5, <2>6 DEF n
<1>12. CASE flag = "FIN"
  <2>1. or(f, bit(flag)) = Flags(m, a, b, 1, r)
    BY <1>2, <1>3, <1>6, <1>12
  <2>2. or(n, bit(flag)) = Flags(m, oa, ob, 1, u)
    BY <1>6, <1>8, <1>12
  <2>3. not(Flags(m, oa, ob, 1, u)) = Flags(m, a, b, 0, r)
    BY ONLY <1>4, <1>7, <1>8, <1>9
  <2>4. not(or(n, bit(flag))) = Flags(m, a, b, 0, r)
    BY <2>2, <2>3
  <2>5. Names(a, b, 1) = Names(a, b, c) \cup {flag} /\ Names(a, b, 0) = Names(a, b, c) \ {flag}
    BY <1>4, <1>12 DEF Names, Flag
  <2>6. /\ Flags(m, a, b, 1, r) \in Word /\ Held(Flags(m, a, b, 1, r)) = Names(a, b, 1)
        /\ Flags(m, a, b, 0, r) \in Word /\ Held(Flags(m, a, b, 0, r)) = Names(a, b, 0)
        /\ Held(f) = Names(a, b, c)
    BY <1>2, <1>3, <1>4, <1>5
  <2>7. QED
    BY <2>1, <2>4, <2>5, <2>6 DEF n
<1>13. QED
  BY <1>10, <1>11, <1>12 DEF Flag
-----------------------------------------------------------------------------
(***************************************************************************)
(* The steps                                                               *)
(***************************************************************************)

WireInvariant == TypeOK /\ validate(seg)

LEMMA Header == HEADER \in Double /\ HEADER # 0
<1>1. WORDS * WORDS >= 16 * 16 /\ WORDS * WORDS \in Nat
  BY Sizes
<1>2. QED
  BY <1>1 DEF HEADER, Double

\* a segment that states its own size is not summed to zero
LEMMA SummedKeeps ==
    ASSUME NEW s \in Segment, s.seg_size = HEADER + Len(s.payload)
    PROVE  /\ summed(s) \in Segment /\ validate(summed(s))
           /\ summed(s).seg_size = HEADER + Len(summed(s).payload)
           /\ View(summed(s)) = View(s)
<1>1. Len(s.payload) \in Nat
  BY DEF Segment
<1>2. s.seg_size # 0
  BY <1>1 DEF HEADER
<1>3. /\ summed(s).seg_size = s.seg_size /\ summed(s).payload = s.payload
      /\ summed(s).seq_num = s.seq_num /\ summed(s).ack_num = s.ack_num
      /\ summed(s).flags = s.flags
  BY DEF summed, Segment
<1>4. QED
  BY <1>2, <1>3, SummedIsValid DEF View, get_flag

LEMMA InitWire == Init => WireInvariant
<1> SUFFICES ASSUME Init PROVE WireInvariant
  OBVIOUS
<1>1. PICK src_port, dst_port \in Ports : seg = new(src_port, dst_port)
  BY DEF Init
<1> DEFINE s == [src_port |-> src_port, dst_port |-> dst_port, seg_size |-> HEADER,
                 seq_num |-> 0, ack_num |-> 0, flags |-> 0, checksum |-> 0, payload |-> << >>]
<1>2. src_port \in Word /\ dst_port \in Word /\ 0 \in Word /\ 0 \in Double
  BY WireAssumption, Sizes, Header DEF Word, Double
<1>3. << >> \in Seq(Byte) /\ Len(<< >>) = 0
  OBVIOUS
<1>4. s \in Segment
  BY <1>2, <1>3, Header DEF Segment
<1>5. s.seg_size = HEADER + Len(s.payload)
  BY <1>3 DEF HEADER
<1>6. seg = summed(s)
  BY <1>1 DEF new
<1> HIDE DEF s
<1>7. QED
  BY <1>4, <1>5, <1>6, SummedKeeps DEF WireInvariant, TypeOK

\* what a step does: the segment that is summed, and what its receiver sees of it
LEMMA StepOfWire ==
    ASSUME TypeOK, Next
    PROVE  \E s \in Segment :
             /\ seg' = summed(s) /\ s.seg_size = HEADER + Len(s.payload)
             /\ OneField(View(seg), View(s))
<1> DEFINE Made(s) == /\ s \in Segment /\ seg' = summed(s)
                      /\ s.seg_size = HEADER + Len(s.payload) /\ OneField(View(seg), View(s))
<1>1. seg \in Segment /\ seg.seg_size = HEADER + Len(seg.payload) /\ seg.flags \in Word
  BY DEF TypeOK, Segment
<1>2. \A s : View(s) = [seq_num |-> s.seq_num, ack_num |-> s.ack_num, payload |-> s.payload,
                       flags |-> Held(s.flags)]
  BY DEF View, Held, get_flag
<1>3. ASSUME NEW n \in Numbers, set_seq(n) PROVE \E s : Made(s)
  <2> DEFINE s == [seg EXCEPT !.seq_num = n]
  <2>1. n \in Double
    BY WireAssumption DEF Double
  <2>2. s \in Segment /\ s.seg_size = HEADER + Len(s.payload)
    BY <1>1, <2>1 DEF Segment
  <2>3. View(s) = [View(seg) EXCEPT !.seq_num = n]
    BY <1>1, <1>2 DEF Segment
  <2>4. QED
    BY <1>3, <2>2, <2>3 DEF set_seq, OneField
<1>4. ASSUME NEW n \in Numbers, set_ack_num(n) PROVE \E s : Made(s)
  <2> DEFINE s == [seg EXCEPT !.ack_num = n]
  <2>1. n \in Double
    BY WireAssumption DEF Double
  <2>2. s \in Segment /\ s.seg_size = HEADER + Len(s.payload)
    BY <1>1, <2>1 DEF Segment
  <2>3. View(s) = [View(seg) EXCEPT !.ack_num = n]
    BY <1>1, <1>2 DEF Segment
  <2>4. QED
    BY <1>4, <2>2, <2>3 DEF set_ack_num, OneField
<1>5. ASSUME NEW data \in Payloads, set_data(data) PROVE \E s : Made(s)
  <2> DEFINE size == HEADER + Len(data)
             s == [seg EXCEPT !.seg_size = size, !.payload = data]
  <2>1. data \in Seq(Byte) /\ size < WORDS * WORDS
    BY WireAssumption
  <2>2. size \in Double
    <3>1. size \in Nat /\ WORDS * WORDS \in Nat
      BY <2>1, Sizes DEF HEADER
    <3> HIDE DEF size
    <3>2. QED
      BY <2>1, <3>1 DEF Double
  <2>3. s \in Segment /\ s.seg_size = HEADER + Len(s.payload)
    BY <1>1, <2>1, <2>2 DEF Segment
  <2>4. View(s) = [View(seg) EXCEPT !.payload = data]
    <3>1. /\ s.seq_num = seg.seq_num /\ s.ack_num = seg.ack_num /\ s.flags = seg.flags
          /\ s.payload = data
      BY <1>1 DEF Segment
    <3> HIDE DEF s
    <3>2. QED
      BY ONLY <1>2, <3>1
  <2>5. QED
    BY <1>5, <2>3, <2>4 DEF set_data, OneField
<1>6. ASSUME NEW flag \in Flag, set_flag(flag) PROVE \E s : Made(s)
  <2> DEFINE f == or(seg.flags, bit(flag))
             s == [seg EXCEPT !.flags = f]
  <2>1. f \in Word /\ Held(f) = Held(seg.flags) \cup {flag}
    BY <1>1, SetAndUnset
  <2>2. seg' = summed(s)
    BY <1>6 DEF set_flag, with_flag
  <2> HIDE DEF f
  <2>3. s \in Segment /\ s.seg_size = HEADER + Len(s.payload)
    BY <1>1, <2>1 DEF Segment
  <2>4. View(s) = [View(seg) EXCEPT !.flags = @ \cup {flag}]
    <3>1. /\ s.seq_num = seg.seq_num /\ s.ack_num = seg.ack_num /\ s.payload = seg.payload
          /\ s.flags = f
      BY <1>1 DEF Segment
    <3> HIDE DEF s
    <3> DEFINE was == Held(seg.flags)
    <3>2. Held(s.flags) = was \cup {flag}
      BY <2>1, <3>1
    <3>3. View(s) = [seq_num |-> seg.seq_num, ack_num |-> seg.ack_num, payload |-> seg.payload,
                     flags |-> was \cup {flag}]
      BY ONLY <1>2, <3>1, <3>2
    <3>4. View(seg) = [seq_num |-> seg.seq_num, ack_num |-> seg.ack_num,
                       payload |-> seg.payload, flags |-> was]
      BY ONLY <1>2
    <3> HIDE DEF was
    <3>5. QED
      BY ONLY <3>3, <3>4
  <2>5. QED
    BY <2>2, <2>3, <2>4 DEF OneField
<1>7. ASSUME NEW flag \in Flag, unset_flag(flag) PROVE \E s : Made(s)
  <2> DEFINE f == not(or(not(seg.flags), bit(flag)))
             s == [seg EXCEPT !.flags = f]
  <2>1. f \in Word /\ Held(f) = Held(seg.flags) \ {flag}
    BY <1>1, SetAndUnset
  <2>2. seg' = summed(s)
    BY <1>7 DEF unset_flag, without_flag
  <2> HIDE DEF f
  <2>3. s \in Segment /\ s.seg_size = HEADER + Len(s.payload)
    BY <1>1, <2>1 DEF Segment
  <2>4. View(s) = [View(seg) EXCEPT !.flags = @ \ {flag}]
    <3>1. /\ s.seq_num = seg.seq_num /\ s.ack_num = seg.ack_num /\ s.payload = seg.payload
          /\ s.flags = f
      BY <1>1 DEF Segment
    <3> HIDE DEF s
    <3> DEFINE was == Held(seg.flags)
    <3>2. Held(s.flags) = was \ {flag}
      BY <2>1, <3>1
    <3>3. View(s) = [seq_num |-> seg.seq_num, ack_num |-> seg.ack_num, payload |-> seg.payload,
                     flags |-> was \ {flag}]
      BY ONLY <1>2, <3>1, <3>2
    <3>4. View(seg) = [seq_num |-> seg.seq_num, ack_num |-> seg.ack_num,
                       payload |-> seg.payload, flags |-> was]
      BY ONLY <1>2
    <3> HIDE DEF was
    <3>5. QED
      BY ONLY <3>3, <3>4
  <2>5. QED
    BY <2>2, <2>3, <2>4 DEF OneField
<1>8. \E s : Made(s)
  BY <1>3, <1>4, <1>5, <1>6, <1>7 DEF Next
<1>9. QED
  BY <1>8

LEMMA NextWire == ASSUME WireInvariant, [Next]_vars PROVE WireInvariant'
<1>1. CASE Next
  <2>1. PICK s \in Segment : seg' = summed(s) /\ s.seg_size = HEADER + Len(s.payload)
    BY <1>1, StepOfWire DEF WireInvariant
  <2>2. QED
    BY <2>1, SummedKeeps DEF WireInvariant, TypeOK
<1>2. CASE UNCHANGED vars
  BY <1>2 DEF vars, WireInvariant, TypeOK
<1>3. QED
  BY <1>1, <1>2

LEMMA WireAlways == Spec => []WireInvariant
<1>1. QED
  BY InitWire, NextWire, PTL DEF Spec

(* A segment that states its own size is all the program ever makes:       *)
(* set_data sets the size along with the payload (segment.rs 128-132).     *)
THEOREM TypeCorrect == Spec => []TypeOK
<1>1. WireInvariant => TypeOK
  BY DEF WireInvariant
<1>2. QED
  BY <1>1, WireAlways, PTL

(* Whatever setters made a segment, from_buf reads the same one out of its *)
(* bytes and validate accepts it (segment.rs 84-96, 134-162).              *)
THEOREM SegmentsArriveIntact == Spec => []ArrivesIntact
<1>1. WireInvariant => ArrivesIntact
  BY RoundTrip DEF WireInvariant, TypeOK, ArrivesIntact, received
<1>2. QED
  BY <1>1, WireAlways, PTL

(* One byte changed on the way, and validate rejects the segment: the sum  *)
(* of its words is another one, whichever byte it was (utils.rs 22-54).    *)
THEOREM DamageAlwaysNoticed == Spec => []DamageNoticed
<1>1. WireInvariant => DamageNoticed
  BY ValidDamaged DEF WireInvariant, TypeOK, DamageNoticed
<1>2. QED
  BY <1>1, WireAlways, PTL

(* A setter changes one thing of what the receiver will see, and a flag is *)
(* set or unset without touching the others (segment.rs 55-63, 98-132).    *)
THEOREM SettersSetOneField == Spec => OneFieldSet
<1>1. ASSUME WireInvariant, [Next]_vars PROVE [OneField(View(received), View(received'))]_vars
  <2>1. CASE Next
    <3>1. PICK s \in Segment : /\ seg' = summed(s) /\ s.seg_size = HEADER + Len(s.payload)
                              /\ OneField(View(seg), View(s))
      BY <1>1, <2>1, StepOfWire DEF WireInvariant
    <3>2. View(seg') = View(s)
      BY <3>1, SummedKeeps
    <3>3. received = seg /\ received' = seg'
      BY <1>1, <3>1, SummedKeeps, RoundTrip DEF WireInvariant, TypeOK, received
    <3>4. QED
      BY <3>1, <3>2, <3>3
  <2>2. CASE UNCHANGED vars
    BY <2>2
  <2>3. QED
    BY <1>1, <2>1, <2>2
<1>2. QED
  BY <1>1, WireAlways, PTL DEF Spec, OneFieldSet
=============================================================================
