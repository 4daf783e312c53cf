-------------------------- MODULE TokenCodecProofs --------------------------
(***************************************************************************)
(* Proofs about the block codecs: for every message, profile, key and      *)
(* noise realisation, decoding inverts encoding; the fixed token count     *)
(* leaves room for every real token; a cut stream yields the whole message *)
(* or an error.                                                            *)
(*                                                                         *)
(* Where the real tokens are is a function that the emitter builds and the *)
(* decoder follows; the invariant says that one exists.  Powers of two are *)
(* handled through the library's theorem on the size of a power set.       *)
(***************************************************************************)
EXTENDS TokenCodec, FiniteSetTheorems, TLAPS

(* Natural numbers *)

\* A set of naturals has a least element.
LEMMA NatLeast ==
    ASSUME NEW T \in SUBSET Nat, T # {}
    PROVE  \E x \in T : \A y \in T : x <= y
<1> DEFINE R == OpToRel(<, Nat)
<1>1. IsWellFoundedOn(R, Nat)
  BY NatLessThanWellFounded, Zenon
<1>2. \A y, x \in Nat : y < x => <<y, x>> \in R
  BY DEF OpToRel
<1> HIDE DEF R
<1>3. PICK x \in T : \A y \in T : ~ (<<y, x>> \in R)
  BY <1>1, WFMin
<1>4. ASSUME NEW y \in T PROVE x <= y
  <2>1. x \in Nat /\ y \in Nat
    OBVIOUS
  <2>2. ~ (y < x)
    BY <1>2, <1>3, <2>1
  <2> QED  BY <2>1, <2>2
<1> QED  BY <1>4

LEMMA TimesMonotone ==
    ASSUME NEW g \in Nat, NEW a \in Nat, NEW b \in Nat, a <= b
    PROVE  g * a <= g * b
<1> DEFINE d == b - a
<1>1. d \in Nat /\ b = a + d
  OBVIOUS
<1> HIDE DEF d
<1>2. g * (a + d) = g * a + g * d /\ g * d \in Nat /\ g * a \in Nat
  BY <1>1
<1> QED  BY <1>1, <1>2

LEMMA RemainderTyped == ASSUME NEW x \in Nat, NEW m \in Nat \ {0} PROVE x % m \in Nat
  OBVIOUS

LEMMA Concatenation ==
    ASSUME NEW S, NEW s \in Seq(S), NEW t \in Seq(S)
    PROVE  /\ s \o t \in Seq(S) /\ Len(s \o t) = Len(s) + Len(t)
           /\ \A i \in 1..Len(s) : (s \o t)[i] = s[i]
           /\ \A i \in 1..Len(t) : (s \o t)[Len(s) + i] = t[i]
  OBVIOUS

\* 2 ^ n is the number of subsets of 1..n.
LEMMA PowerIs ==
    ASSUME NEW n \in Nat
    PROVE  /\ IsFiniteSet(SUBSET (1..n)) /\ 2 ^ n = Cardinality(SUBSET (1..n))
           /\ 2 ^ n \in Nat
<1>1. IsFiniteSet(1..n) /\ Cardinality(1..n) = n
  <2>1. 1 \in Int /\ n \in Int /\ (IF 1 > n THEN 0 ELSE n - 1 + 1) = n
    OBVIOUS
  <2> QED  BY <2>1, FS_Interval
<1>2. IsFiniteSet(SUBSET (1..n)) /\ Cardinality(SUBSET (1..n)) = 2 ^ n
  BY <1>1, FS_SUBSET
<1> QED  BY <1>2, FS_CardinalityType

LEMMA PowerMonotone == ASSUME NEW a \in Nat, NEW b \in Nat, a <= b PROVE 2 ^ a <= 2 ^ b
<1>1. SUBSET (1..a) \in SUBSET (SUBSET (1..b))
  <2>1. 1..a \subseteq 1..b
    OBVIOUS
  <2> QED  BY <2>1
<1>2. Cardinality(SUBSET (1..a)) <= Cardinality(SUBSET (1..b))
  BY <1>1, PowerIs, FS_Subset
<1> QED  BY <1>2, PowerIs

LEMMA PowerExceeds == ASSUME NEW n \in Nat PROVE n <= 2 ^ n
<1> DEFINE f == [i \in 1..n |-> {i}]
<1>1. f \in Injection(1..n, SUBSET (1..n))
  BY DEF Injection, IsInjective
<1>2. IsFiniteSet(SUBSET (1..n))
  BY PowerIs
<1> HIDE DEF f
<1>3. Cardinality(1..n) <= Cardinality(SUBSET (1..n))
  BY <1>1, <1>2, FS_Injection
<1>4. Cardinality(1..n) = n
  <2>1. 1 \in Int /\ n \in Int /\ (IF 1 > n THEN 0 ELSE n - 1 + 1) = n
    OBVIOUS
  <2> QED  BY <2>1, FS_Interval
<1> QED  BY <1>3, <1>4, PowerIs

-----------------------------------------------------------------------------
(* Block sizes *)

LEMMA BitLengthIs ==
    ASSUME NEW n \in Nat
    PROVE  /\ BitLength(n) \in Nat /\ 2 ^ BitLength(n) > n
           /\ \A i \in Nat : i < BitLength(n) => 2 ^ i <= n
<1> DEFINE T == {e \in Nat : 2 ^ e > n}
           IsLength(e) == 2 ^ e > n /\ \A i \in 0..(e - 1) : 2 ^ i <= n
<1>1. n + 1 \in T
  <2>1. n + 1 \in Nat /\ 2 ^ (n + 1) \in Nat /\ n + 1 <= 2 ^ (n + 1)
    BY PowerExceeds, PowerIs
  <2> HIDE DEF IsLength
  <2> QED  BY <2>1
<1>2. PICK e \in T : \A x \in T : e <= x
  <2>1. T \in SUBSET Nat
    OBVIOUS
  <2> HIDE DEF T
  <2> QED  BY <1>1, <2>1, NatLeast
<1>3. e \in 0..(n + 1)
  BY <1>1, <1>2
<1>4. \A i \in Nat : i < e => 2 ^ i <= n
  <2> TAKE i \in Nat
  <2> HAVE i < e
  <2>1. 2 ^ i \in Nat
    BY PowerIs
  <2>2. i \notin T
    BY <1>2
  <2> QED  BY <2>1, <2>2
<1>5. IsLength(e)
  BY <1>2, <1>4
<1> HIDE DEF IsLength, T
<1>6. BitLength(n) = CHOOSE x \in 0..(n + 1) : IsLength(x)
  BY DEF BitLength, IsLength
<1>7. BitLength(n) \in 0..(n + 1) /\ IsLength(BitLength(n))
  BY <1>3, <1>5, <1>6
<1>8. BitLength(n) \in Nat
  BY <1>7
<1>9. \A i \in Nat : i < BitLength(n) => i \in 0..(BitLength(n) - 1)
  BY <1>8
<1> QED  BY <1>7, <1>8, <1>9 DEF IsLength

\* A block size is a power of two within the ladder, and the message fits.
LEMMA BlockSizeIs ==
    ASSUME NEW profile \in Profiles, NEW n \in Nat, BlockSize(profile, n) # 0
    PROVE  /\ n < 2 ^ PAD_MAX_EXP /\ n < BlockSize(profile, n)
           /\ \E e \in PAD_MIN_EXP..PAD_MAX_EXP : BlockSize(profile, n) = 2 ^ e
<1> DEFINE e == IF BitLength(n) > PAD_MIN_EXP THEN BitLength(n) ELSE PAD_MIN_EXP
           g == profile.arg
           span == PAD_MAX_EXP - PAD_MIN_EXP
           block == BlockSize(profile, n)
<1>1. /\ PAD_MIN_EXP \in Nat /\ PAD_MAX_EXP \in Nat /\ PAD_MIN_EXP <= PAD_MAX_EXP
      /\ g \in Nat /\ profile.kind \in {"bucket", "coarse", "frame"}
  BY TokenCodecAssumption
<1>2. n < 2 ^ PAD_MAX_EXP
  <2>1. 2 ^ PAD_MAX_EXP \in Nat
    BY <1>1, PowerIs
  <2>2. CASE n >= 2 ^ PAD_MAX_EXP
    BY <1>1, <2>2 DEF BlockSize
  <2> QED  BY <2>1, <2>2
<1>3. BitLength(n) \in Nat /\ BitLength(n) <= PAD_MAX_EXP
  <2>1. BitLength(n) \in Nat /\ (PAD_MAX_EXP < BitLength(n) => 2 ^ PAD_MAX_EXP <= n)
    BY <1>1, BitLengthIs
  <2>2. 2 ^ PAD_MAX_EXP \in Nat
    BY <1>1, PowerIs
  <2> QED  BY <1>1, <1>2, <2>1, <2>2
<1>4. e \in PAD_MIN_EXP..PAD_MAX_EXP /\ BitLength(n) <= e
  BY <1>1, <1>3
<1> HIDE DEF e
<1>5. ASSUME NEW x \in e..PAD_MAX_EXP PROVE n < 2 ^ x /\ x \in PAD_MIN_EXP..PAD_MAX_EXP
  <2>1. x \in Nat /\ BitLength(n) <= x
    BY <1>1, <1>3, <1>4
  <2>2. 2 ^ BitLength(n) <= 2 ^ x /\ 2 ^ BitLength(n) > n /\ 2 ^ x \in Nat /\ 2 ^ BitLength(n) \in Nat
    BY <1>3, <2>1, PowerMonotone, PowerIs, BitLengthIs
  <2> QED  BY <1>1, <1>4, <2>2
<1>6. CASE profile.kind = "bucket"
  <2>1. block = 2 ^ e
    BY <1>2, <1>6 DEF BlockSize, e
  <2> QED  BY <1>1, <1>2, <1>4, <1>5, <2>1
<1>7. CASE profile.kind = "coarse"
  <2> DEFINE d == e - PAD_MIN_EXP
             q == (d + g - 1) \div g
             x == PAD_MIN_EXP + g * q
  <2>1. g # 0 /\ span % g = 0 /\ block = 2 ^ x
    BY <1>2, <1>7 DEF BlockSize, e
  <2>2. d \in Nat /\ span \in Nat /\ d <= span /\ g \in Nat \ {0}
    BY <1>1, <1>4, <2>1
  <2> DEFINE s == span \div g
  <2>3. s \in Nat /\ span = g * s
    <3> HIDE DEF span
    <3> QED  BY <2>1, <2>2
  <2>4. q \in Nat /\ g * q <= d + g - 1 /\ d + g - 1 < g * q + g
    <3> HIDE DEF d
    <3> QED  BY <2>2
  <2> HIDE DEF d, q, s, span, g
  <2>5. q <= s
    <3> SUFFICES ASSUME s + 1 <= q PROVE FALSE
      BY <2>3, <2>4
    <3>1. g \in Nat /\ s + 1 \in Nat /\ q \in Nat
      BY <2>2, <2>3, <2>4
    <3>2. g * (s + 1) <= g * q
      BY <3>1, TimesMonotone, Zenon
    <3>3. g * s + g <= g * q
      <4>1. g * (s + 1) = g * s + g
        BY <2>3, <3>1
      <4> QED  BY <3>2, <4>1
    <3> QED  BY <2>2, <2>3, <2>4, <3>3
  <2>6. d <= g * q /\ g * q <= span /\ g * q \in Nat
    BY <2>2, <2>3, <2>4, <2>5
  <2>7. x \in e..PAD_MAX_EXP
    BY <1>1, <1>4, <2>6 DEF d, span
  <2> QED  BY <1>2, <1>5, <2>1, <2>7
<1>8. CASE profile.kind = "frame"
  <2>1. g \in {2 ^ i : i \in PAD_MIN_EXP..PAD_MAX_EXP} /\ ~(n >= g) /\ block = g
    BY <1>2, <1>8 DEF BlockSize
  <2> QED  BY <1>1, <1>2, <2>1
<1> QED  BY <1>1, <1>6, <1>7, <1>8

-----------------------------------------------------------------------------
(* Padding *)

\* p is a padded form of msg.
Holds(p, msg) ==
    /\ p \in Seq(Codepoints)
    /\ Len(msg) + 2 <= Len(p)
    /\ p[1] < ByteBase /\ p[2] < ByteBase
    /\ p[1] * ByteBase + p[2] = Len(msg)
    /\ \A i \in 1..Len(msg) : p[i + 2] = msg[i]

LEMMA PadHolds ==
    ASSUME NEW msg \in Seq(Codepoints), NEW block \in Nat, Len(msg) < block, Len(msg) < 2 ^ PAD_MAX_EXP
    PROVE  Holds(Pad(msg, block), msg) /\ Len(Pad(msg, block)) = block + 2
<1> DEFINE n == Len(msg)
           hi == n \div ByteBase
           lo == n % ByteBase
           fill == [i \in 1..(block - n) |-> 1]
           p == Pad(msg, block)
<1>1. /\ n \in Nat /\ ByteBase \in Nat \ {0} /\ MAX_CODEPOINT \in Nat /\ ByteBase <= MAX_CODEPOINT + 1
      /\ 1 <= MAX_CODEPOINT /\ \A s \in Surrogates : s > 1 /\ s >= ByteBase /\ s \in Nat
  BY TokenCodecAssumption
<1>2. n < ByteBase * ByteBase
  <2>1. 2 ^ PAD_MAX_EXP \in Nat /\ 2 ^ PAD_MAX_EXP <= ByteBase * ByteBase
    BY TokenCodecAssumption, PowerIs
  <2> QED  BY <1>1, <2>1
<1>3. hi \in Nat /\ lo \in Nat /\ lo < ByteBase /\ hi * ByteBase + lo = n
  <2> HIDE DEF n
  <2> QED  BY <1>1
<1>4. hi < ByteBase
  <2> HIDE DEF n, hi, lo
  <2> SUFFICES ASSUME ByteBase <= hi PROVE FALSE
    BY <1>1, <1>3
  <2>1. ByteBase * ByteBase <= ByteBase * hi
    BY <1>1, <1>3, TimesMonotone
  <2> QED  BY <1>1, <1>2, <1>3, <2>1
<1>5. fill \in Seq(Codepoints) /\ Len(fill) = block - n
  BY <1>1 DEF Codepoints
<1>6. hi \in Codepoints /\ lo \in Codepoints
  BY <1>1, <1>3, <1>4 DEF Codepoints
<1>7. p = (<<hi, lo>> \o msg) \o fill
  BY DEF Pad
<1> HIDE DEF hi, lo, fill, p
<1>8. LET front == <<hi, lo>> \o msg
      IN  /\ front \in Seq(Codepoints) /\ Len(front) = n + 2 /\ front[1] = hi /\ front[2] = lo
          /\ \A i \in 1..n : front[i + 2] = msg[i]
  BY <1>6
<1>9. /\ p \in Seq(Codepoints) /\ Len(p) = block + 2 /\ p[1] = hi /\ p[2] = lo
      /\ \A i \in 1..n : p[i + 2] = msg[i]
  <2> DEFINE front == <<hi, lo>> \o msg
  <2>1. /\ front \in Seq(Codepoints) /\ Len(front) = n + 2 /\ front[1] = hi /\ front[2] = lo
        /\ \A i \in 1..n : front[i + 2] = msg[i]
    BY <1>8
  <2>2. p = front \o fill
    BY <1>7
  <2> HIDE DEF front
  <2>3. p \in Seq(Codepoints) /\ Len(p) = n + 2 + (block - n) /\ \A i \in 1..(n + 2) : p[i] = front[i]
    <3>1. /\ front \o fill \in Seq(Codepoints) /\ Len(front \o fill) = Len(front) + Len(fill)
          /\ \A i \in 1..Len(front) : (front \o fill)[i] = front[i]
      BY <1>5, <2>1, Concatenation, Zenon
    <3> QED  BY <1>5, <2>1, <2>2, <3>1
  <2> QED  BY <1>1, <2>1, <2>3
<1>10. Holds(p, msg)
  BY <1>1, <1>3, <1>4, <1>9 DEF Holds
<1> QED  BY <1>9, <1>10 DEF p

\* Unpadding the first codepoints of a padded message yields the message, or an
\* error when some of it is missing.
LEMMA UnpadPrefix ==
    ASSUME NEW msg \in Seq(Codepoints), NEW p, Holds(p, msg), NEW cps \in Seq(Codepoints),
           Len(cps) <= Len(p), \A i \in 1..Len(cps) : cps[i] = p[i]
    PROVE  /\ unpad_message(cps) \in {Malformed, msg}
           /\ Len(cps) = Len(p) => unpad_message(cps) = msg
<1> DEFINE n == Len(msg)
           short == 2 + n > Len(cps)
<1>1. n \in Nat /\ Len(cps) \in Nat /\ Len(p) \in Nat /\ n + 2 <= Len(p)
  BY DEF Holds
<1>2. CASE Len(cps) < 2
  BY <1>1, <1>2 DEF unpad_message
<1>3. CASE ~(Len(cps) < 2)
  <2>1. cps[1] = p[1] /\ cps[2] = p[2]
    BY <1>1, <1>3
  <2>2. /\ p[1] \in Nat /\ p[2] \in Nat /\ ByteBase \in Nat
        /\ ~(cps[1] >= ByteBase) /\ ~(cps[2] >= ByteBase)
        /\ cps[1] * ByteBase + cps[2] = n /\ 2 + cps[1] * ByteBase + cps[2] = 2 + n
    <3>1. p[1] \in Nat /\ p[2] \in Nat /\ ByteBase \in Nat
      <4>1. 1 \in 1..Len(p) /\ 2 \in 1..Len(p) /\ p \in Seq(Codepoints)
        BY <1>1 DEF Holds
      <4>2. p[1] \in Codepoints /\ p[2] \in Codepoints
        BY <4>1
      <4> QED  BY <4>2, TokenCodecAssumption DEF Codepoints
    <3>2. p[1] < ByteBase /\ p[2] < ByteBase /\ p[1] * ByteBase + p[2] = n
      BY DEF Holds
    <3> QED  BY <1>1, <2>1, <3>1, <3>2
  <2>3. CASE short
    BY <1>1, <1>3, <2>2, <2>3 DEF unpad_message
  <2>4. CASE ~short
    <3>1. unpad_message(cps) = SubSeq(cps, 3, 2 + n)
      BY <1>3, <2>2, <2>4 DEF unpad_message
    <3>2. 2 + n <= Len(cps)
      BY <1>1, <2>4
    <3> DEFINE s == SubSeq(cps, 3, 2 + n)
    <3>3. s \in Seq(Codepoints) /\ Len(s) = n /\ \A i \in 1..n : s[i] = cps[i + 2]
      BY <1>1, <3>2
    <3> HIDE DEF s
    <3>4. \A i \in 1..n : s[i] = msg[i]
      <4> TAKE i \in 1..n
      <4>1. i + 2 \in 1..Len(cps)
        BY <1>1, <3>2
      <4> QED  BY <3>3, <4>1 DEF Holds
    <3>5. s = msg
      BY <3>3, <3>4
    <3> QED  BY <3>1, <3>5 DEF s
  <2> QED  BY <2>3, <2>4
<1> QED  BY <1>2, <1>3

LEMMA MessageIsNotAnError == ASSUME NEW msg \in Seq(Codepoints) PROVE msg # Malformed
<1> SUFFICES ASSUME msg = Malformed PROVE FALSE
  OBVIOUS
<1>1. Len(Malformed) = 1 /\ Malformed[1] = MAX_CODEPOINT + 1
  BY DEF Malformed
<1>2. msg[1] \in Codepoints
  BY <1>1
<1> QED  BY <1>1, <1>2, TokenCodecAssumption DEF Codepoints

-----------------------------------------------------------------------------
(* Tokens *)

PrimeAt(k) == Primes[(k % Len(Primes)) + 1]
AddendAt(k) == 1 + ((seed + k) % (PrimeAt(k) - 1))

\* The token of codepoint c, the one after k others.
RealToken(k, c) == c * PrimeAt(k) + AddendAt(k)

LEMMA PrimesAndAddends ==
    ASSUME seed \in Nat, NEW k \in Nat
    PROVE  PrimeAt(k) \in Nat \ {0, 1} /\ AddendAt(k) \in Nat
<1>1. Primes \in Seq(Nat \ {0, 1}) /\ Len(Primes) \in Nat \ {0}
  BY TokenCodecAssumption
<1>2. (k % Len(Primes)) + 1 \in 1..Len(Primes)
  BY <1>1
<1>3. PrimeAt(k) \in Nat \ {0, 1}
  BY <1>1, <1>2 DEF PrimeAt
<1>4. seed + k \in Nat /\ PrimeAt(k) - 1 \in Nat \ {0}
  BY <1>3
<1>5. AddendAt(k) \in Nat
  <2>1. (seed + k) % (PrimeAt(k) - 1) \in Nat
    BY <1>4, RemainderTyped
  <2> QED  BY <2>1 DEF AddendAt
<1> QED  BY <1>3, <1>5

LEMMA QuotientIs ==
    ASSUME NEW c \in Nat, NEW p \in Nat \ {0}
    PROVE  (c * p) % p = 0 /\ (c * p) \div p = c
  OBVIOUS

\* The decoder's arithmetic undoes the emitter's.
LEMMA TokenDecodes ==
    ASSUME seed \in Nat, realIdx \in Nat, NEW c \in Codepoints
    PROVE  LET token == RealToken(realIdx, c)
           IN  token \in Nat /\ WellFormed(token) /\ (token - Addend) \div Prime = c
<1> DEFINE token == RealToken(realIdx, c)
<1>1. Prime = PrimeAt(realIdx) /\ Addend = AddendAt(realIdx)
  BY DEF Prime, Addend, PrimeAt, AddendAt
<1>2. Prime \in Nat \ {0} /\ Addend \in Nat /\ c \in Nat /\ c <= MAX_CODEPOINT
  BY <1>1, PrimesAndAddends, TokenCodecAssumption DEF Codepoints
<1>3. token = c * Prime + Addend
  BY <1>1 DEF RealToken
<1>4. c * Prime \in Nat
  BY <1>2
<1> HIDE DEF token
<1>5. token \in Nat /\ token >= Addend /\ token - Addend = c * Prime
  BY <1>2, <1>3, <1>4
<1>6. (token - Addend) % Prime = 0 /\ (token - Addend) \div Prime = c
  BY <1>2, <1>5, QuotientIs
<1> QED  BY <1>2, <1>5, <1>6 DEF WellFormed, token

-----------------------------------------------------------------------------
(* Where the real tokens are *)

\* Noise from a on, and at b the k-th real token.  Only a full run of noise leaves
\* the answer at b open, and only where runs are capped.
Slot(word, capped, ns, tk, a, b, k) ==
    /\ a < b
    /\ capped => b <= a + MAX_NOISE_RUN + 1
    /\ \A j \in (a + 1)..(b - 1) : ns[j]
    /\ ns[b] => capped /\ b = a + MAX_NOISE_RUN + 1
    /\ b <= Len(tk) => tk[b] = word[k]

\* pos[k] is the position of the k-th real token.
Layout(word, capped, ns, tk, pos, n) ==
    /\ pos \in [0..n -> Nat] /\ pos[0] = 0
    /\ \A k \in 0..n : pos[k] <= pos[n]
    /\ pos[n] <= Len(ns)
    /\ \A k \in 1..n : Slot(word, capped, ns, tk, pos[k - 1], pos[k], k)

\* Answers and tokens stay where they are; more may come after them, or the last
\* tokens go.
Keeps(ns, tk, ns2, tk2) ==
    /\ Len(ns) <= Len(ns2)
    /\ \A i \in 1..Len(ns) : /\ ns2[i] = ns[i]
                             /\ i <= Len(tk2) => i <= Len(tk) /\ tk2[i] = tk[i]

LEMMA SlotKept ==
    ASSUME NEW word, NEW capped, NEW ns, NEW tk, NEW ns2, NEW tk2, Keeps(ns, tk, ns2, tk2),
           NEW a \in Nat, NEW b \in Nat, NEW k, Len(ns) \in Nat, b <= Len(ns),
           Slot(word, capped, ns, tk, a, b, k)
    PROVE  Slot(word, capped, ns2, tk2, a, b, k)
<1>1. a < b /\ (\A j \in (a + 1)..(b - 1) : ns[j])
  BY DEF Slot
<1>2. b \in 1..Len(ns) /\ \A j \in (a + 1)..(b - 1) : j \in 1..Len(ns)
  BY <1>1
<1>3. ns2[b] = ns[b] /\ (\A j \in (a + 1)..(b - 1) : ns2[j] = ns[j])
  BY <1>2 DEF Keeps
<1>4. b <= Len(tk2) => b <= Len(tk) /\ tk2[b] = tk[b]
  BY <1>2 DEF Keeps
<1> QED  BY <1>3, <1>4 DEF Slot

LEMMA LayoutTyped ==
    ASSUME NEW word, NEW capped, NEW ns, NEW tk, NEW pos, NEW n \in Nat, Layout(word, capped, ns, tk, pos, n)
    PROVE  /\ \A k \in 0..n : pos[k] \in Nat /\ pos[k] <= pos[n]
           /\ pos[n] \in Nat /\ pos[n] <= Len(ns)
           /\ \A k \in 1..n : /\ k - 1 \in 0..n /\ k \in 0..n
                              /\ Slot(word, capped, ns, tk, pos[k - 1], pos[k], k)
  BY DEF Layout

LEMMA LayoutKept ==
    ASSUME NEW word, NEW capped, NEW ns, NEW tk, NEW ns2, NEW tk2, Keeps(ns, tk, ns2, tk2),
           NEW pos, NEW n \in Nat, Len(ns) \in Nat, Len(ns2) \in Nat, Layout(word, capped, ns, tk, pos, n)
    PROVE  Layout(word, capped, ns2, tk2, pos, n)
<1>1. /\ \A k \in 0..n : pos[k] \in Nat /\ pos[k] <= pos[n]
      /\ pos[n] \in Nat /\ pos[n] <= Len(ns)
      /\ \A k \in 1..n : /\ k - 1 \in 0..n /\ k \in 0..n
                         /\ Slot(word, capped, ns, tk, pos[k - 1], pos[k], k)
  BY LayoutTyped
<1>2. pos[n] <= Len(ns2)
  BY <1>1 DEF Keeps
<1>3. ASSUME NEW k \in 1..n PROVE Slot(word, capped, ns2, tk2, pos[k - 1], pos[k], k)
  <2>1. pos[k - 1] \in Nat /\ pos[k] \in Nat /\ pos[k] <= Len(ns)
    BY <1>1
  <2> QED  BY <1>1, <2>1, SlotKept
<1> QED  BY <1>2, <1>3 DEF Layout

\* A sequence with a run of one value and a last one added to it.
Grow(s, run, x, y) == s \o [i \in 1..run |-> x] \o <<y>>

IsGrown(S, t, s, run, x, y) ==
    /\ t \in Seq(S) /\ Len(t) = Len(s) + run + 1
    /\ \A i \in 1..Len(s) : t[i] = s[i]
    /\ \A j \in (Len(s) + 1)..(Len(s) + run) : t[j] = x
    /\ t[Len(s) + run + 1] = y

LEMMA Grown ==
    ASSUME NEW S, NEW s \in Seq(S), NEW x \in S, NEW y \in S, NEW run \in Nat
    PROVE  IsGrown(S, Grow(s, run, x, y), s, run, x, y)
<1> DEFINE r == [i \in 1..run |-> x]
           u == s \o r
<1>1. r \in Seq(S) /\ Len(r) = run /\ (\A i \in 1..run : r[i] = x) /\ Len(s) \in Nat
  OBVIOUS
<1> HIDE DEF r
<1>2. /\ u \in Seq(S) /\ Len(u) = Len(s) + run
      /\ \A i \in 1..Len(s) : u[i] = s[i]
      /\ \A i \in 1..run : u[Len(s) + i] = x
  BY <1>1
<1> HIDE DEF u
<1>3. \A j \in (Len(s) + 1)..(Len(s) + run) : j \in 1..Len(u) /\ u[j] = x
  <2> TAKE j \in (Len(s) + 1)..(Len(s) + run)
  <2>1. j - Len(s) \in 1..run /\ Len(s) + (j - Len(s)) = j /\ j \in 1..Len(u)
    BY <1>1, <1>2
  <2> QED  BY <1>2, <2>1
<1> DEFINE t == u \o <<y>>
<1>4. t \in Seq(S) /\ Len(t) = Len(u) + 1 /\ t[Len(u) + 1] = y /\ \A i \in 1..Len(u) : t[i] = u[i]
  BY <1>2
<1> HIDE DEF t
<1>5. \A i \in 1..Len(s) : i \in 1..Len(u)
  BY <1>1, <1>2
<1>6. IsGrown(S, t, s, run, x, y)
  BY <1>2, <1>3, <1>4, <1>5, Zenon DEF IsGrown
<1>7. t = Grow(s, run, x, y)
  BY DEF t, u, r, Grow
<1> QED  BY <1>6, <1>7

Longer(word, capped, ns, tk, run, n, ns2, tk2) ==
    /\ ns2 \in Seq(BOOLEAN) /\ tk2 \in Seq(Nat)
    /\ Len(ns2) = Len(ns) + run + 1 /\ Len(tk2) = Len(tk) + run + 1
    /\ \E pos : Layout(word, capped, ns2, tk2, pos, n) /\ pos[n] = Len(tk2)

\* The emitter adds a slot: run noise tokens and the next real one.
LEMMA LayoutGrows ==
    ASSUME NEW word, NEW capped \in BOOLEAN, NEW ns \in Seq(BOOLEAN), NEW tk \in Seq(Nat), NEW pos, NEW n \in Nat,
           Layout(word, capped, ns, tk, pos, n), pos[n] = Len(tk), Len(tk) = Len(ns),
           NEW run \in Nat, NEW answer \in BOOLEAN, NEW filler \in Nat, word[n + 1] \in Nat,
           capped => run <= MAX_NOISE_RUN, answer => capped /\ run = MAX_NOISE_RUN
    PROVE  Longer(word, capped, ns, tk, run, n + 1, Grow(ns, run, TRUE, answer), Grow(tk, run, filler, word[n + 1]))
<1> DEFINE ns2 == Grow(ns, run, TRUE, answer)
           tk2 == Grow(tk, run, filler, word[n + 1])
           top == Len(tk) + run + 1
           pos2 == [k \in 0..(n + 1) |-> IF k <= n THEN pos[k] ELSE top]
<1>1. Len(ns) \in Nat /\ Len(tk) \in Nat /\ top \in Nat
  OBVIOUS
<1>2. /\ ns2 \in Seq(BOOLEAN) /\ Len(ns2) = Len(ns) + run + 1
      /\ \A i \in 1..Len(ns) : ns2[i] = ns[i]
      /\ \A j \in (Len(ns) + 1)..(Len(ns) + run) : ns2[j] = TRUE
      /\ ns2[Len(ns) + run + 1] = answer
  <2>1. IsGrown(BOOLEAN, ns2, ns, run, TRUE, answer)
    BY Grown, Zenon
  <2> QED  BY <2>1, Zenon DEF IsGrown
<1>3. /\ tk2 \in Seq(Nat) /\ Len(tk2) = Len(tk) + run + 1
      /\ \A i \in 1..Len(tk) : tk2[i] = tk[i]
      /\ tk2[Len(tk) + run + 1] = word[n + 1]
  <2>1. IsGrown(Nat, tk2, tk, run, filler, word[n + 1])
    BY Grown, Zenon
  <2> QED  BY <2>1, Zenon DEF IsGrown
<1> HIDE DEF ns2, tk2
<1>4. Len(ns2) = top /\ Len(tk2) = top /\ ns2[top] = answer /\ tk2[top] = word[n + 1]
  BY <1>2, <1>3, Zenon
<1>5. \A j \in (Len(tk) + 1)..(top - 1) : ns2[j]
  <2> TAKE j \in (Len(tk) + 1)..(top - 1)
  <2>1. j \in (Len(ns) + 1)..(Len(ns) + run)
    BY <1>1
  <2> QED  BY <1>2, <2>1, Zenon
<1>6. top = Len(tk) + run + 1 /\ Len(tk) < top /\ Len(tk) <= top
  BY <1>1
<1>7. Keeps(ns, tk, ns2, tk2)
  <2>1. ASSUME NEW i \in 1..Len(ns) PROVE i \in 1..Len(tk) /\ i <= Len(tk)
    BY <1>1
  <2>2. Len(ns) <= Len(ns2)
    BY <1>4, <1>6
  <2> QED  BY <1>2, <1>3, <2>1, <2>2, Zenon DEF Keeps
<1> HIDE DEF top
<1>8. Layout(word, capped, ns2, tk2, pos, n)
  <2>1. Len(ns2) \in Nat
    BY <1>1, <1>4
  <2> QED  BY <1>1, <1>7, <2>1, LayoutKept, Zenon
<1>9. /\ \A k \in 0..n : pos[k] \in Nat /\ pos[k] <= pos[n]
      /\ \A k \in 1..n : Slot(word, capped, ns2, tk2, pos[k - 1], pos[k], k)
      /\ pos[0] = 0
  BY <1>8, LayoutTyped DEF Layout
<1>10. /\ pos2 \in [0..(n + 1) -> Nat] /\ pos2[n + 1] = top
       /\ \A k \in 0..n : pos2[k] = pos[k]
  BY <1>1, <1>9
<1> HIDE DEF pos2
<1>11. Slot(word, capped, ns2, tk2, pos[n], top, n + 1)
  <2>1. capped => top <= pos[n] + MAX_NOISE_RUN + 1
    BY <1>1, <1>6, TokenCodecAssumption
  <2>2. run = MAX_NOISE_RUN => top = pos[n] + MAX_NOISE_RUN + 1
    BY <1>6
  <2>3. pos[n] < top
    BY <1>6
  <2> QED  BY <1>4, <1>5, <2>1, <2>2, <2>3, Zenon DEF Slot
<1>12. ASSUME NEW k \in 1..(n + 1) PROVE Slot(word, capped, ns2, tk2, pos2[k - 1], pos2[k], k)
  <2>1. CASE k = n + 1
    <3>1. pos2[k - 1] = pos[n] /\ pos2[k] = top
      BY <1>10, <2>1
    <3> QED  BY <1>11, <2>1, <3>1
  <2>2. CASE k # n + 1
    <3>1. k \in 1..n /\ pos2[k - 1] = pos[k - 1] /\ pos2[k] = pos[k]
      BY <1>10, <2>2
    <3> QED  BY <1>9, <3>1
  <2> QED  BY <2>1, <2>2
<1>13. ASSUME NEW k \in 0..(n + 1) PROVE pos2[k] <= pos2[n + 1]
  <2>1. CASE k = n + 1
    BY <1>1, <1>10, <2>1
  <2>2. CASE k # n + 1
    <3>1. k \in 0..n
      BY <2>2
    <3>2. pos2[k] = pos[k] /\ pos[k] \in Nat /\ pos[k] <= Len(tk)
      BY <1>9, <1>10, <3>1
    <3> QED  BY <1>1, <1>6, <1>10, <3>2
  <2> QED  BY <2>1, <2>2
<1>14. pos2[0] = 0 /\ pos2[n + 1] <= Len(ns2)
  BY <1>1, <1>4, <1>9, <1>10
<1>15. Layout(word, capped, ns2, tk2, pos2, n + 1)
  BY <1>10, <1>12, <1>13, <1>14 DEF Layout
<1> QED
  BY <1>2, <1>3, <1>4, <1>10, <1>15, Zenon DEF ns2, tk2, Longer

-----------------------------------------------------------------------------
(* What the decoder skips *)

Skips(ns, tk, at, r) ==
    /\ at + r <= Len(tk)
    /\ \A i \in 1..r : ns[at + i]
    /\ r = MAX_NOISE_RUN \/ at + r = Len(tk) \/ ~ns[at + r + 1]

LEMMA SkippedSkips ==
    ASSUME ctPos \in Nat, tokens \in Seq(Nat), ctPos <= Len(tokens)
    PROVE  Skipped \in 0..MAX_NOISE_RUN /\ Skips(noise, tokens, ctPos, Skipped)
<1> DEFINE Stops(r) == r = MAX_NOISE_RUN \/ ctPos + r = Len(tokens) \/ ~noise[ctPos + r + 1]
           T == {r \in Nat : Stops(r)}
<1>1. MAX_NOISE_RUN \in Nat /\ Len(tokens) \in Nat
  BY TokenCodecAssumption
<1>2. MAX_NOISE_RUN \in T /\ Len(tokens) - ctPos \in T
  BY <1>1
<1>3. PICK r \in T : \A x \in T : r <= x
  <2>1. T \in SUBSET Nat
    OBVIOUS
  <2> HIDE DEF T
  <2> QED  BY <1>2, <2>1, NatLeast
<1>4. r \in 0..MAX_NOISE_RUN /\ ctPos + r <= Len(tokens)
  <2>1. r \in Nat /\ r <= MAX_NOISE_RUN /\ r <= Len(tokens) - ctPos
    <3>1. r \in Nat
      BY <1>3
    <3> HIDE DEF T
    <3> QED  BY <1>2, <1>3, <3>1
  <2> QED  BY <1>1, <2>1
<1>5. ASSUME NEW i \in 1..r PROVE noise[ctPos + i]
  <2>1. i - 1 \in Nat /\ i - 1 < r /\ ctPos + (i - 1) + 1 = ctPos + i
    BY <1>1, <1>3
  <2>2. i - 1 \notin T
    <3> HIDE DEF T
    <3>1. i - 1 \in T => r <= i - 1
      BY <1>3
    <3> QED  BY <1>4, <2>1, <3>1
  <2> QED  BY <2>1, <2>2
<1>6. Skips(noise, tokens, ctPos, r)
  BY <1>3, <1>4, <1>5 DEF Skips
<1>7. Skipped = CHOOSE x \in 0..MAX_NOISE_RUN : Skips(noise, tokens, ctPos, x)
  BY DEF Skipped, Skips
<1> QED  BY <1>4, <1>6, <1>7

\* The real token k + 1 is the one after r noise tokens.
Follows(word, tk, pos, k, r) ==
    /\ pos[k + 1] = pos[k] + r + 1
    /\ tk[pos[k] + r + 1] = word[k + 1]

\* From one real token it skips to just before the next.
LEMMA SkipFollows ==
    ASSUME NEW word, NEW ns \in Seq(BOOLEAN), NEW tk, Len(tk) \in Nat, NEW pos, NEW n \in Nat,
           Layout(word, TRUE, ns, tk, pos, n),
           NEW k \in 0..(n - 1), NEW r \in 0..MAX_NOISE_RUN, Skips(ns, tk, pos[k], r), pos[k] + r < Len(tk)
    PROVE  Follows(word, tk, pos, k, r)
<1> DEFINE a == pos[k]
           b == pos[k + 1]
<1>1. a \in Nat /\ b \in Nat /\ Slot(word, TRUE, ns, tk, a, b, k + 1) /\ MAX_NOISE_RUN \in Nat
  <2>1. k + 1 \in 1..n /\ (k + 1) - 1 = k /\ k \in 0..n /\ k + 1 \in 0..n
    OBVIOUS
  <2> QED  BY <2>1, LayoutTyped, TokenCodecAssumption
<1> HIDE DEF a, b
<1>2. /\ a < b /\ b <= a + MAX_NOISE_RUN + 1
      /\ \A j \in (a + 1)..(b - 1) : ns[j]
      /\ ns[b] => b = a + MAX_NOISE_RUN + 1
      /\ b <= Len(tk) => tk[b] = word[k + 1]
  BY <1>1 DEF Slot
<1>3. /\ \A i \in 1..r : ns[a + i]
      /\ r = MAX_NOISE_RUN \/ ~ns[a + r + 1]
      /\ a + r < Len(tk)
  BY <1>1 DEF Skips, a
<1>4. ~(a + r + 1 < b)
  <2> SUFFICES ASSUME a + r + 1 < b PROVE FALSE
    OBVIOUS
  <2>1. r # MAX_NOISE_RUN /\ a + r + 1 \in (a + 1)..(b - 1)
    BY <1>1, <1>2
  <2> QED  BY <1>2, <1>3, <2>1, Zenon
<1>5. ~(b < a + r + 1)
  <2> SUFFICES ASSUME b < a + r + 1 PROVE FALSE
    OBVIOUS
  <2>1. b - a \in 1..r /\ a + (b - a) = b /\ b # a + MAX_NOISE_RUN + 1
    BY <1>1, <1>2
  <2>2. ns[b]
    BY <1>3, <2>1
  <2> QED  BY <1>2, <2>1, <2>2
<1>6. b = a + r + 1 /\ b <= Len(tk)
  BY <1>1, <1>3, <1>4, <1>5
<1> QED  BY <1>2, <1>6 DEF a, b, Follows

-----------------------------------------------------------------------------
(* The inductive invariant *)

\* The real tokens of the whole message, in order.
Word == [k \in 1..Len(padded) |-> RealToken(k - 1, padded[k])]

Base ==
    /\ format \in {"v7", "v8", "chunk"}
    /\ origin \in {"genuine", "cut", "other"}
    /\ phase \in {"emit", "decode", "done", "error"}
    /\ seed \in Nat /\ realIdx \in Nat /\ ctPos \in Nat
    /\ message \in Seq(Codepoints) /\ padded \in Seq(Codepoints)
    /\ tokens \in Seq(Nat) /\ noise \in Seq(BOOLEAN) /\ Len(tokens) <= Len(noise)

\* What the emitter is given.
Given ==
    /\ format = "chunk" => padded = message
    /\ format # "chunk" => /\ Holds(padded, message)
                           /\ \E e \in PAD_MIN_EXP..PAD_MAX_EXP : Len(padded) = 2 ^ e + 2

\* The emitter has placed the first real tokens, within the ceiling.
Emitting ==
    /\ origin = "genuine" /\ ctPos = 0 /\ decoded = <<>>
    /\ realIdx <= Len(padded) /\ Len(noise) = Len(tokens)
    /\ Capped => Len(tokens) <= Ceiling(realIdx)
    /\ \E pos : Layout(Word, Capped, noise, tokens, pos, realIdx) /\ pos[realIdx] = Len(tokens)

\* The decoder is within the tokens, and on schedule.
Decoding ==
    /\ ctPos <= Len(tokens)
    /\ Capped => ctPos <= Ceiling(realIdx)

\* Between the last real token and the next; in v8, at the last.
At(pos) ==
    /\ Capped => ctPos = pos[realIdx]
    /\ ~Capped =>
         /\ Len(tokens) <= pos[Len(padded)]
         /\ origin = "genuine" => Len(tokens) = pos[Len(padded)]
         /\ realIdx < Len(padded) => pos[realIdx] <= ctPos /\ ctPos < pos[realIdx + 1]
         /\ realIdx = Len(padded) => ctPos = pos[realIdx]

\* The decoder has recovered what was padded, as far as it got.
Following ==
    /\ realIdx <= Len(padded)
    /\ decoded \in Seq(Codepoints) /\ Len(decoded) = realIdx
    /\ \A i \in 1..realIdx : decoded[i] = padded[i]
    /\ Capped => Len(tokens) <= Ceiling(Len(padded))
    /\ \E pos : Layout(Word, Capped, noise, tokens, pos, Len(padded)) /\ At(pos)

Inv ==
    /\ Base
    /\ Given
    /\ phase = "emit" => Emitting
    /\ phase = "decode" => Decoding
    /\ phase = "decode" /\ origin # "other" => Following
    /\ phase = "done" /\ origin # "other" => decoded = message
    /\ phase = "error" /\ origin = "genuine" => tokens = <<>>
    /\ Capped /\ phase # "emit" /\ origin = "genuine" => Len(tokens) = Ceiling(Len(padded))

LEMMA InvInit == ASSUME Init PROVE Inv
<1>1. /\ seed \in Nat /\ message \in Seq(Codepoints)
      /\ noise = <<>> /\ tokens = <<>> /\ decoded = <<>> /\ realIdx = 0 /\ ctPos = 0
      /\ origin = "genuine" /\ phase = "emit"
  BY TokenCodecAssumption DEF Init, Codepoints
<1>2. format \in {"v7", "v8", "chunk"} /\ padded \in Seq(Codepoints) /\ Given
  <2>1. CASE format = "chunk" /\ padded = message
    BY <1>1, <2>1 DEF Given
  <2>2. CASE \E profile \in Profiles :
               LET block == BlockSize(profile, Len(message)) IN
               /\ format \in {"v7", "v8"}
               /\ block # 0
               /\ padded = Pad(message, block)
    <3>1. PICK profile \in Profiles :
            /\ format \in {"v7", "v8"}
            /\ BlockSize(profile, Len(message)) # 0
            /\ padded = Pad(message, BlockSize(profile, Len(message)))
      BY <2>2
    <3> DEFINE block == BlockSize(profile, Len(message))
    <3>2. Len(message) \in Nat
      BY <1>1
    <3>3. /\ Len(message) < 2 ^ PAD_MAX_EXP /\ Len(message) < block
          /\ \E e \in PAD_MIN_EXP..PAD_MAX_EXP : block = 2 ^ e
      BY <3>1, <3>2, BlockSizeIs
    <3> HIDE DEF block
    <3>4. block \in Nat
      <4>1. PICK e \in PAD_MIN_EXP..PAD_MAX_EXP : block = 2 ^ e
        BY <3>3
      <4>2. e \in Nat
        BY TokenCodecAssumption
      <4> QED  BY <4>1, <4>2, PowerIs
    <3>5. Holds(padded, message) /\ Len(padded) = block + 2
      BY <1>1, <3>1, <3>3, <3>4, PadHolds DEF block
    <3> QED  BY <3>1, <3>3, <3>5 DEF Given, Holds
  <2> QED  BY <2>1, <2>2 DEF Init
<1>3. Base
  <2>1. tokens \in Seq(Nat) /\ noise \in Seq(BOOLEAN) /\ Len(tokens) <= Len(noise)
    BY <1>1
  <2> QED  BY <1>1, <1>2, <2>1 DEF Base
<1>4. Emitting
  <2>1. Len(padded) \in Nat
    BY <1>2
  <2>2. /\ realIdx <= Len(padded) /\ Len(noise) = Len(tokens) /\ Len(tokens) = 0
        /\ Capped => Len(tokens) <= Ceiling(realIdx)
    BY <1>1, <2>1, TokenCodecAssumption DEF Ceiling
  <2> DEFINE pos == [i \in {0} |-> 0]
  <2>3. Layout(Word, Capped, noise, tokens, pos, 0)
    <3>1. Len(noise) = 0 /\ 0..0 = {0} /\ pos \in [{0} -> Nat] /\ pos[0] = 0 /\ 1..0 = {}
      BY <2>2
    <3> HIDE DEF pos
    <3> QED  BY <3>1 DEF Layout
  <2>4. pos[0] = 0
    OBVIOUS
  <2> HIDE DEF pos
  <2> QED  BY <1>1, <2>2, <2>3, <2>4 DEF Emitting
<1> QED  BY <1>1, <1>2, <1>3, <1>4 DEF Inv

\* What every action leaves alone.
LEMMA Fixed ==
    ASSUME Inv, UNCHANGED <<format, seed, message, padded>>
    PROVE  Given' /\ Word' = Word /\ Capped' = Capped /\ message' \in Seq(Codepoints)
           /\ padded' \in Seq(Codepoints) /\ seed' \in Nat /\ format' \in {"v7", "v8", "chunk"}
<1>1. Base /\ Given
  BY DEF Inv
<1> QED  BY <1>1 DEF Base, Given, Word, RealToken, AddendAt, PrimeAt, Capped

LEMMA WordTyped == ASSUME Base PROVE \A k \in 1..Len(padded) : Word[k] \in Nat /\ Word[k] = RealToken(k - 1, padded[k])
<1> TAKE k \in 1..Len(padded)
<1>1. padded[k] \in Codepoints /\ k - 1 \in Nat /\ seed \in Nat
  BY DEF Base
<1>2. padded[k] \in Nat /\ PrimeAt(k - 1) \in Nat /\ AddendAt(k - 1) \in Nat
  <2>1. padded[k] \in Nat
    BY <1>1, TokenCodecAssumption DEF Codepoints
  <2>2. PrimeAt(k - 1) \in Nat \ {0, 1} /\ AddendAt(k - 1) \in Nat
    BY <1>1, PrimesAndAddends, Zenon
  <2> QED  BY <2>1, <2>2
<1>3. RealToken(k - 1, padded[k]) \in Nat
  BY <1>2 DEF RealToken
<1> QED  BY <1>3 DEF Word

LEMMA NoiseTyped == ASSUME seed \in Nat, Prime \in Nat PROVE NoiseToken \in Nat
  BY DEF NoiseToken

\* One more codepoint, in either format.
LEMMA EmitStep ==
    ASSUME Inv, phase = "emit", realIdx < Len(padded), NEW run \in Nat, NEW answer \in BOOLEAN,
           Capped => run <= MAX_NOISE_RUN, answer => Capped /\ run = MAX_NOISE_RUN,
           noise' = noise \o [i \in 1..run |-> TRUE] \o <<answer>>,
           tokens' = tokens \o [i \in 1..run |-> NoiseToken] \o <<padded[realIdx + 1] * Prime + Addend>>,
           realIdx' = realIdx + 1,
           UNCHANGED <<format, seed, message, padded, decoded, ctPos, origin, phase>>
    PROVE  Inv'
<1> DEFINE n == realIdx
           ns2 == Grow(noise, run, TRUE, answer)
           tk2 == Grow(tokens, run, NoiseToken, Word[n + 1])
<1>1. Base /\ Given /\ Emitting
  BY DEF Inv
<1>2. /\ n \in Nat /\ n + 1 \in 1..Len(padded) /\ Len(padded) \in Nat /\ seed \in Nat
      /\ noise \in Seq(BOOLEAN) /\ tokens \in Seq(Nat) /\ Capped \in BOOLEAN
  BY <1>1 DEF Base, Capped
<1>3. Prime = PrimeAt(n) /\ Addend = AddendAt(n) /\ Prime \in Nat
  BY <1>2, PrimesAndAddends DEF Prime, Addend, PrimeAt, AddendAt
<1>4. Word[n + 1] = padded[n + 1] * Prime + Addend /\ Word[n + 1] \in Nat
  <2>1. Word[n + 1] = RealToken((n + 1) - 1, padded[n + 1]) /\ Word[n + 1] \in Nat /\ (n + 1) - 1 = n
    BY <1>1, <1>2, WordTyped
  <2> QED  BY <1>3, <2>1 DEF RealToken
<1>5. NoiseToken \in Nat
  <2>1. seed \in Nat /\ Prime \in Nat
    BY <1>2, <1>3
  <2> QED  BY <2>1, NoiseTyped
<1>6. noise' = ns2 /\ tokens' = tk2
  BY <1>4 DEF Grow
<1>7. PICK pos : Layout(Word, Capped, noise, tokens, pos, n) /\ pos[n] = Len(tokens)
  BY <1>1 DEF Emitting
<1>8. Len(tokens) = Len(noise)
  BY <1>1 DEF Emitting
<1> HIDE DEF n, ns2, tk2
<1>9. /\ ns2 \in Seq(BOOLEAN) /\ tk2 \in Seq(Nat)
      /\ Len(ns2) = Len(noise) + run + 1 /\ Len(tk2) = Len(tokens) + run + 1
      /\ \E pos2 : Layout(Word, Capped, ns2, tk2, pos2, n + 1) /\ pos2[n + 1] = Len(tk2)
  <2>1. Longer(Word, Capped, noise, tokens, run, n + 1, ns2, tk2)
    BY <1>2, <1>4, <1>5, <1>7, <1>8, LayoutGrows, Zenon DEF ns2, tk2
  <2> QED  BY <2>1, Zenon DEF Longer
<1>10. /\ Given' /\ Word' = Word /\ Capped' = Capped /\ message' \in Seq(Codepoints)
       /\ padded' \in Seq(Codepoints) /\ seed' \in Nat /\ format' \in {"v7", "v8", "chunk"}
  BY Fixed
<1>11. Len(tokens) \in Nat /\ Len(noise) \in Nat /\ realIdx' = n + 1
  BY <1>2 DEF n
<1>12. Len(ns2) = Len(tk2) /\ Len(tk2) <= Len(ns2) /\ Len(tk2) \in Nat /\ n + 1 <= Len(padded) /\ n + 1 \in Nat
  BY <1>2, <1>8, <1>9, <1>11
<1>13. Base'
  <2>1. Len(tokens') <= Len(noise') /\ tokens' \in Seq(Nat) /\ noise' \in Seq(BOOLEAN)
    BY <1>6, <1>9, <1>12, Zenon
  <2> QED  BY <1>1, <1>10, <1>11, <1>12, <2>1 DEF Base
<1>14. Capped => Len(tk2) <= Ceiling(n + 1)
  <2> HAVE Capped
  <2>1. Len(tokens) <= Ceiling(n) /\ run <= MAX_NOISE_RUN /\ MAX_NOISE_RUN \in Nat
    BY <1>1, TokenCodecAssumption DEF Emitting, n
  <2>2. n * (MAX_NOISE_RUN + 1) \in Nat /\ (n + 1) * (MAX_NOISE_RUN + 1) = n * (MAX_NOISE_RUN + 1) + MAX_NOISE_RUN + 1
    BY <1>2, <2>1
  <2> QED  BY <1>9, <1>11, <2>1, <2>2 DEF Ceiling
<1>15. Emitting'
  <2>1. /\ origin' = "genuine" /\ ctPos' = 0 /\ decoded' = <<>> /\ padded' = padded
    BY <1>1 DEF Emitting
  <2>2. Ceiling(realIdx)' = Ceiling(n + 1)
    BY <1>11 DEF Ceiling
  <2> QED  BY <1>6, <1>9, <1>10, <1>11, <1>12, <1>14, <2>1, <2>2 DEF Emitting
<1> QED  BY <1>10, <1>13, <1>15 DEF Inv

LEMMA EmitRealStep ==
    ASSUME Inv, NEW run \in 0..MAX_NOISE_RUN, NEW answer \in BOOLEAN, EmitReal(run, answer)
    PROVE  Inv'
<1>1. run \in Nat /\ run <= MAX_NOISE_RUN /\ (run < MAX_NOISE_RUN \/ run = MAX_NOISE_RUN)
  BY TokenCodecAssumption
<1>2. Capped /\ (answer => Capped /\ run = MAX_NOISE_RUN)
  BY <1>1, Zenon DEF EmitReal
<1> QED  BY <1>1, <1>2, EmitStep, Zenon DEF EmitReal

LEMMA EmitRealV7Step == ASSUME Inv, NEW run \in 0..V7_NOISE_RUN_GUARD, EmitRealV7(run) PROVE Inv'
<1>1. run \in Nat
  BY TokenCodecAssumption
<1>2. ~Capped
  BY DEF EmitRealV7, Capped
<1>3. FALSE \in BOOLEAN
  OBVIOUS
<1> QED  BY <1>1, <1>2, <1>3, EmitStep, Zenon DEF EmitRealV7

\* The emitter's layout becomes the decoder's.
LEMMA DecoderStarts ==
    ASSUME Inv, Base', Decoding', phase = "emit", phase' = "decode", realIdx = Len(padded), realIdx' = 0,
           UNCHANGED <<format, seed, message, padded, decoded, ctPos, origin>>,
           Keeps(noise, tokens, noise', tokens'),
           Capped => Len(tokens') = Ceiling(Len(padded)), ~Capped => tokens' = tokens
    PROVE  Inv'
<1> DEFINE n == Len(padded)
<1>1. Base /\ Given /\ Emitting
  BY DEF Inv
<1>2. n \in Nat /\ Len(noise) \in Nat /\ Len(noise') \in Nat /\ Len(tokens) \in Nat /\ Len(tokens') \in Nat
  BY <1>1 DEF Base
<1>3. PICK pos : Layout(Word, Capped, noise, tokens, pos, n) /\ pos[n] = Len(tokens)
  BY <1>1 DEF Emitting
<1>4. /\ Given' /\ Word' = Word /\ Capped' = Capped /\ message' \in Seq(Codepoints)
      /\ padded' = padded /\ seed' \in Nat /\ format' \in {"v7", "v8", "chunk"}
  BY Fixed
<1> HIDE DEF n
<1>5. Layout(Word, Capped, noise', tokens', pos, n)
  BY <1>2, <1>3, LayoutKept, Zenon
<1>6. ctPos' = 0 /\ decoded' = <<>> /\ origin' = "genuine" /\ pos[0] = 0
  BY <1>1, <1>3 DEF Emitting, Layout
<1>7. ~Capped => n # 0 /\ pos[1] > 0 /\ pos[1] \in Nat
  <2> HAVE ~Capped
  <2>1. Holds(padded, message) /\ message \in Seq(Codepoints)
    BY <1>1 DEF Given, Base, Capped
  <2>2. n \in Nat \ {0} /\ 1 \in 1..n /\ 1 - 1 = 0
    BY <1>2, <2>1 DEF Holds, n
  <2>3. Slot(Word, Capped, noise, tokens, pos[0], pos[1], 1) /\ pos[1] \in Nat
    BY <1>3, <2>2, LayoutTyped
  <2> QED  BY <1>6, <2>2, <2>3 DEF Slot
<1>8. At(pos)'
  <2>1. Capped' => ctPos' = pos[realIdx']
    BY <1>6
  <2>2. ASSUME ~Capped'
        PROVE  /\ Len(tokens') <= pos[Len(padded')]
               /\ Len(tokens') = pos[Len(padded')]
               /\ realIdx' < Len(padded') => pos[realIdx'] <= ctPos' /\ ctPos' < pos[realIdx' + 1]
               /\ realIdx' # Len(padded')
    <3>1. ~Capped /\ tokens' = tokens /\ Len(padded') = n
      BY <1>4, <2>2 DEF n
    <3>2. realIdx' + 1 = 1
      OBVIOUS
    <3> QED  BY <1>2, <1>3, <1>6, <1>7, <3>1, <3>2
  <2> QED  BY <2>1, <2>2 DEF At
<1>9. Following'
  <2>1. realIdx' <= Len(padded') /\ decoded' \in Seq(Codepoints) /\ Len(decoded') = realIdx' /\ 1..realIdx' = {}
    BY <1>2, <1>4, <1>6 DEF n
  <2>2. Capped' => Len(tokens') <= Ceiling(Len(padded))'
    BY <1>2, <1>4 DEF Ceiling
  <2>3. Layout(Word', Capped', noise', tokens', pos, Len(padded'))
    BY <1>4, <1>5 DEF n
  <2> QED  BY <1>8, <2>1, <2>2, <2>3 DEF Following
<1>10. Capped' => Len(tokens') = Ceiling(Len(padded))'
  BY <1>4 DEF Ceiling
<1> QED  BY <1>4, <1>9, <1>10 DEF Inv

LEMMA EmitTailStep == ASSUME Inv, NEW answer \in BOOLEAN, EmitTail(answer) PROVE Inv'
<1> DEFINE top == Ceiling(Len(padded))
           missing == top - Len(tokens)
           ns == [i \in 1..missing |-> answer]
           tk == [i \in 1..missing |-> NoiseToken]
<1>1. /\ Base /\ Emitting /\ Capped /\ phase = "emit" /\ realIdx = Len(padded)
      /\ tokens' = tokens \o tk /\ noise' = noise \o ns /\ realIdx' = 0 /\ phase' = "decode"
      /\ UNCHANGED <<format, seed, message, padded, decoded, ctPos, origin>>
  BY DEF EmitTail, Inv
<1>2. /\ tokens \in Seq(Nat) /\ noise \in Seq(BOOLEAN) /\ Len(tokens) \in Nat /\ Len(noise) = Len(tokens)
      /\ Len(padded) \in Nat /\ seed \in Nat /\ realIdx \in Nat
  BY <1>1 DEF Base, Emitting
<1>3. top \in Nat /\ Len(tokens) <= top
  BY <1>1, <1>2, TokenCodecAssumption DEF Emitting, Ceiling
<1> HIDE DEF top
<1>4. missing \in Nat /\ Len(tokens) + missing = top
  BY <1>2, <1>3
<1>5. NoiseToken \in Nat
  <2>1. Prime \in Nat
    BY <1>2, PrimesAndAddends DEF Prime, PrimeAt
  <2> QED  BY <1>2, <2>1, NoiseTyped
<1> HIDE DEF missing
<1>6. tk \in Seq(Nat) /\ Len(tk) = missing
  BY <1>4, <1>5
<1>7. ns \in Seq(BOOLEAN) /\ Len(ns) = missing
  BY <1>4
<1> HIDE DEF ns, tk
<1>8. /\ tokens' \in Seq(Nat) /\ Len(tokens') = Len(tokens) + Len(tk)
      /\ \A i \in 1..Len(tokens) : tokens'[i] = tokens[i]
  BY <1>1, <1>2, <1>6, Concatenation
<1>9. /\ noise' \in Seq(BOOLEAN) /\ Len(noise') = Len(noise) + Len(ns)
      /\ \A i \in 1..Len(noise) : noise'[i] = noise[i]
  BY <1>1, <1>2, <1>7, Concatenation
<1>10. Len(tokens') = top /\ Len(noise') = top /\ Len(noise) <= Len(noise') /\ Len(tokens') <= Len(noise')
  BY <1>2, <1>3, <1>4, <1>6, <1>7, <1>8, <1>9
<1>11. Keeps(noise, tokens, noise', tokens')
  <2>1. \A i \in 1..Len(noise) : i <= Len(tokens)
    BY <1>2
  <2> QED  BY <1>2, <1>8, <1>9, <1>10, <2>1 DEF Keeps
<1>12. Base'
  <2>1. 0 \in Nat
    OBVIOUS
  <2> QED  BY <1>1, <1>8, <1>9, <1>10, <2>1 DEF Base
<1>13. Decoding'
  <2>1. ctPos' = 0
    BY <1>1 DEF Emitting
  <2>2. 0 <= Len(tokens') /\ 0 <= Ceiling(realIdx)'
    BY <1>1, <1>3, <1>10, TokenCodecAssumption DEF Ceiling
  <2> QED  BY <2>1, <2>2 DEF Decoding
<1> QED  BY <1>1, <1>10, <1>11, <1>12, <1>13, DecoderStarts DEF top

LEMMA EmitEndV7Step == ASSUME Inv, EmitEndV7 PROVE Inv'
<1>1. /\ Base /\ Emitting /\ ~Capped /\ phase = "emit" /\ realIdx = Len(padded)
      /\ tokens' = tokens /\ noise' = noise /\ realIdx' = 0 /\ phase' = "decode"
      /\ UNCHANGED <<format, seed, message, padded, decoded, ctPos, origin>>
  BY DEF EmitEndV7, Inv, Capped
<1>2. Keeps(noise, tokens, noise', tokens')
  <2>1. Len(noise) = Len(tokens) /\ Len(noise) \in Nat
    BY <1>1 DEF Emitting, Base
  <2> QED  BY <1>1, <2>1 DEF Keeps
<1>3. Base'
  <2>1. 0 \in Nat
    OBVIOUS
  <2> QED  BY <1>1, <2>1 DEF Base
<1>4. Decoding'
  <2>1. ctPos' = 0 /\ Len(tokens') \in Nat /\ ~Capped'
    BY <1>1 DEF Emitting, Base, Capped
  <2> QED  BY <2>1 DEF Decoding
<1> QED  BY <1>1, <1>2, <1>3, <1>4, DecoderStarts

LEMMA EmitAbortsV7Step == ASSUME Inv, EmitAbortsV7 PROVE Inv'
<1>1. /\ Base /\ ~Capped /\ tokens' = <<>> /\ phase' = "error" /\ ~Capped'
      /\ UNCHANGED <<format, seed, message, padded, noise, realIdx, ctPos, origin>>
  BY DEF EmitAbortsV7, Inv, Capped
<1>2. Base'
  <2>1. <<>> \in Seq(Nat) /\ Len(<<>>) <= Len(noise)
    BY <1>1 DEF Base
  <2> QED  BY <1>1, <2>1 DEF Base
<1>3. Given'
  BY <1>1, Fixed
<1> QED  BY <1>1, <1>2, <1>3 DEF Inv

LEMMA OtherEncoderStep == ASSUME Inv, OtherEncoder PROVE Inv'
<1>1. /\ Base /\ Decoding /\ Following /\ phase = "decode" /\ phase' = "decode" /\ ctPos = 0 /\ origin = "genuine"
      /\ UNCHANGED <<format, seed, message, padded, noise, decoded, realIdx, ctPos>>
  BY DEF OtherEncoder, Inv
<1>2. /\ tokens \in Seq(Nat) /\ Len(tokens) \in Nat /\ Len(noise) \in Nat /\ Len(tokens) <= Len(noise)
      /\ Len(padded) \in Nat
  BY <1>1 DEF Base
<1>3. /\ Given' /\ Word' = Word /\ Capped' = Capped /\ padded' = padded
  BY <1>1, Fixed
<1>4. Ceiling(Len(padded))' = Ceiling(Len(padded)) /\ Ceiling(realIdx)' = Ceiling(realIdx)
  BY <1>1 DEF Ceiling
<1>5. CASE origin' = "cut" /\ \E n \in 0..(Len(tokens) - 1) : tokens' = SubSeq(tokens, 1, n)
  <2>1. PICK n \in 0..(Len(tokens) - 1) : tokens' = SubSeq(tokens, 1, n)
    BY <1>5
  <2>2. /\ tokens' \in Seq(Nat) /\ Len(tokens') = n /\ n \in Nat /\ n <= Len(tokens)
        /\ \A i \in 1..n : tokens'[i] = tokens[i]
    BY <1>2, <2>1
  <2>3. Len(tokens') <= Len(tokens) /\ Len(tokens') <= Len(noise') /\ 0 <= Len(tokens')
    BY <1>1, <1>2, <2>2
  <2>4. Base'
    BY <1>1, <1>5, <2>2, <2>3 DEF Base
  <2>5. Decoding'
    BY <1>1, <1>3, <1>4, <2>3 DEF Decoding
  <2>6. Keeps(noise, tokens, noise', tokens')
    <3>1. \A i \in 1..Len(noise) : i <= Len(tokens') => i \in 1..n /\ i <= Len(tokens)
      BY <1>2, <2>2
    <3> QED  BY <1>1, <1>2, <2>2, <3>1 DEF Keeps
  <2>7. PICK pos : Layout(Word, Capped, noise, tokens, pos, Len(padded)) /\ At(pos)
    BY <1>1 DEF Following
  <2>8. Layout(Word', Capped', noise', tokens', pos, Len(padded'))
    <3>1. Layout(Word, Capped, noise', tokens', pos, Len(padded))
      BY <1>1, <1>2, <2>6, <2>7, LayoutKept
    <3> QED  BY <1>3, <3>1
  <2>9. At(pos)'
    <3>1. pos[Len(padded)] \in Nat
      BY <1>2, <2>7, LayoutTyped
    <3>2. ~Capped => Len(tokens') <= pos[Len(padded)]
      BY <1>2, <2>2, <2>3, <2>7, <3>1 DEF At
    <3> QED  BY <1>1, <1>3, <1>5, <2>7, <3>2 DEF At
  <2>10. Capped' => Len(tokens') <= Ceiling(Len(padded))'
    <3>1. Ceiling(Len(padded)) \in Nat
      BY <1>2, TokenCodecAssumption DEF Ceiling
    <3>2. Capped => Len(tokens) <= Ceiling(Len(padded))
      BY <1>1 DEF Following
    <3> QED  BY <1>2, <1>3, <1>4, <2>2, <2>3, <3>1, <3>2
  <2>11. Following'
    BY <1>1, <2>8, <2>9, <2>10 DEF Following
  <2> QED  BY <1>1, <1>3, <1>5, <2>4, <2>5, <2>11 DEF Inv
<1>6. CASE /\ origin' = "other"
           /\ \E i \in 1..Len(tokens), d \in {1, ByteBase * Primes[1]} : tokens' = [tokens EXCEPT ![i] = @ + d]
  <2>1. PICK i \in 1..Len(tokens), d \in {1, ByteBase * Primes[1]} : tokens' = [tokens EXCEPT ![i] = @ + d]
    BY <1>6
  <2>2. d \in Nat
    <3>1. ByteBase \in Nat /\ Primes \in Seq(Nat \ {0, 1}) /\ 1 \in 1..Len(Primes)
      BY TokenCodecAssumption
    <3>2. Primes[1] \in Nat
      BY <3>1
    <3> QED  BY <3>1, <3>2
  <2>3. tokens[i] + d \in Nat
    BY <1>2, <2>2
  <2>4. tokens' \in Seq(Nat) /\ Len(tokens') = Len(tokens)
    BY <1>2, <2>1, <2>3
  <2>5. Base'
    BY <1>1, <1>6, <2>4 DEF Base
  <2>6. Decoding'
    BY <1>1, <1>3, <1>4, <2>4 DEF Decoding
  <2> QED  BY <1>1, <1>3, <1>6, <2>5, <2>6 DEF Inv
<1> QED  BY <1>5, <1>6 DEF OtherEncoder

-----------------------------------------------------------------------------
(* Decoding *)

\* A legal count is a whole number of slots.
LEMMA CountIs ==
    ASSUME tokens \in Seq(Nat), LegalCount
    PROVE  RealCount \in Nat /\ Len(tokens) = Ceiling(RealCount)
<1> DEFINE m == MAX_NOISE_RUN + 1
           len == Len(tokens)
<1>1. len \in Nat /\ m \in Nat \ {0} /\ len % m = 0
  BY TokenCodecAssumption DEF LegalCount
<1> HIDE DEF len, m
<1>2. len \div m \in Nat /\ len = (len \div m) * m
  BY <1>1
<1> QED  BY <1>2 DEF len, m, RealCount, Ceiling

LEMMA CeilingMonotone ==
    ASSUME NEW a \in Nat, NEW b \in Nat
    PROVE  /\ Ceiling(a) \in Nat /\ Ceiling(a + 1) = Ceiling(a) + MAX_NOISE_RUN + 1
           /\ a <= b <=> Ceiling(a) <= Ceiling(b)
<1> DEFINE m == MAX_NOISE_RUN + 1
<1>1. m \in Nat \ {0} /\ MAX_NOISE_RUN \in Nat
  BY TokenCodecAssumption
<1>2. a * m \in Nat /\ (a + 1) * m = a * m + m /\ b * m \in Nat /\ a * m = m * a /\ b * m = m * b
  <2> HIDE DEF m
  <2> QED  BY <1>1
<1>3. a <= b => a * m <= b * m
  BY <1>1, <1>2, TimesMonotone
<1>4. ~(a <= b) => ~(a * m <= b * m)
  <2> HAVE ~(a <= b)
  <2>1. b + 1 <= a /\ b + 1 \in Nat
    OBVIOUS
  <2> HIDE DEF m
  <2>2. m * (b + 1) <= m * a /\ m * (b + 1) = m * b + m
    BY <1>1, <2>1, TimesMonotone
  <2> QED  BY <1>1, <1>2, <2>2
<1> QED  BY <1>1, <1>2, <1>3, <1>4 DEF Ceiling

\* The next real token is within the stream.
LEMMA Budget ==
    ASSUME Base, Decoding, Capped, LegalCount, realIdx < RealCount
    PROVE  ctPos + Skipped < Len(tokens) /\ ctPos + Skipped + 1 <= Ceiling(realIdx + 1)
<1>1. /\ RealCount \in Nat /\ Len(tokens) = Ceiling(RealCount) /\ realIdx \in Nat /\ ctPos \in Nat
      /\ tokens \in Seq(Nat) /\ ctPos <= Len(tokens) /\ ctPos <= Ceiling(realIdx) /\ MAX_NOISE_RUN \in Nat
  BY CountIs, TokenCodecAssumption DEF Base, Decoding
<1>2. Skipped \in 0..MAX_NOISE_RUN
  BY <1>1, SkippedSkips
<1>3. realIdx + 1 <= RealCount /\ realIdx + 1 \in Nat
  BY <1>1
<1>4. /\ Ceiling(realIdx) \in Nat /\ Ceiling(realIdx + 1) = Ceiling(realIdx) + MAX_NOISE_RUN + 1
      /\ Ceiling(realIdx + 1) <= Ceiling(RealCount) /\ Ceiling(RealCount) \in Nat
  BY <1>1, <1>3, CeilingMonotone
<1> QED  BY <1>1, <1>2, <1>4

\* What the caller gets for genuine codepoints, of which the last may be missing.
LEMMA RecoveredIs ==
    ASSUME Base, Given, Following
    PROVE  /\ realIdx = Len(padded) => Recovered = message
           /\ format # "chunk" => Recovered \in {Malformed, message}
           /\ message # Malformed
<1>1. /\ message \in Seq(Codepoints) /\ padded \in Seq(Codepoints) /\ decoded \in Seq(Codepoints)
      /\ Len(decoded) = realIdx /\ Len(decoded) <= Len(padded)
      /\ \A i \in 1..Len(decoded) : decoded[i] = padded[i]
  BY DEF Base, Following
<1>2. message # Malformed
  BY <1>1, MessageIsNotAnError
<1>3. CASE format = "chunk"
  <2>1. Recovered = decoded /\ padded = message
    BY <1>3 DEF Recovered, Given
  <2>2. realIdx = Len(padded) => decoded = padded
    BY <1>1
  <2> QED  BY <1>2, <1>3, <2>1, <2>2
<1>4. CASE format # "chunk"
  <2>1. Recovered = unpad_message(decoded) /\ Holds(padded, message)
    BY <1>4 DEF Recovered, Given
  <2>2. /\ unpad_message(decoded) \in {Malformed, message}
        /\ Len(decoded) = Len(padded) => unpad_message(decoded) = message
    BY <1>1, <2>1, UnpadPrefix
  <2> QED  BY <1>1, <1>2, <2>1, <2>2
<1> QED  BY <1>3, <1>4

\* Where the tokens are as emitted, what follows the skipped noise is the next real
\* token, and it is well-formed.
LEMMA NextReal ==
    ASSUME Base, Decoding, Following, Capped, realIdx < Len(padded), ctPos + Skipped < Len(tokens),
           NEW pos, Layout(Word, Capped, noise, tokens, pos, Len(padded)), At(pos)
    PROVE  /\ pos[realIdx + 1] = ctPos + Skipped + 1
           /\ WellFormed(tokens[ctPos + Skipped + 1])
           /\ (tokens[ctPos + Skipped + 1] - Addend) \div Prime = padded[realIdx + 1]
<1> DEFINE n == Len(padded)
           k == realIdx
<1>1. /\ n \in Nat /\ k \in Nat /\ k \in 0..(n - 1) /\ k + 1 \in 1..n /\ seed \in Nat /\ tokens \in Seq(Nat)
      /\ Len(tokens) \in Nat /\ noise \in Seq(BOOLEAN) /\ ctPos \in Nat /\ ctPos <= Len(tokens) /\ ctPos = pos[k]
      /\ padded \in Seq(Codepoints)
  BY DEF Base, Decoding, At
<1>2. Skipped \in 0..MAX_NOISE_RUN /\ Skips(noise, tokens, pos[k], Skipped)
  BY <1>1, SkippedSkips
<1>3. Layout(Word, TRUE, noise, tokens, pos, n)
  <2>1. Capped = TRUE
    BY DEF Capped
  <2> QED  BY <2>1
<1> HIDE DEF n
<1>4. /\ pos[k + 1] = pos[k] + Skipped + 1
      /\ tokens[pos[k] + Skipped + 1] = Word[k + 1]
  <2>1. pos[k] + Skipped < Len(tokens)
    BY <1>1
  <2>2. Follows(Word, tokens, pos, k, Skipped)
    BY <1>1, <1>2, <1>3, <2>1, SkipFollows, Zenon
  <2> QED  BY <2>2 DEF Follows
<1>5. Word[k + 1] = RealToken(k, padded[k + 1])
  <2>1. (k + 1) - 1 = k
    BY <1>1
  <2> QED  BY <1>1, <2>1, WordTyped DEF n
<1>6. padded[k + 1] \in Codepoints
  BY <1>1 DEF n
<1> QED  BY <1>1, <1>4, <1>5, <1>6, TokenDecodes

\* The decoder never gets ahead of the padded message.
LEMMA CountFits ==
    ASSUME Base, Following, Capped, LegalCount
    PROVE  RealCount <= Len(padded) /\ (Len(tokens) = Ceiling(Len(padded)) => RealCount = Len(padded))
<1>1. /\ RealCount \in Nat /\ Len(padded) \in Nat /\ Len(tokens) = Ceiling(RealCount)
      /\ Len(tokens) <= Ceiling(Len(padded))
  BY CountIs DEF Base, Following
<1>2. RealCount <= Len(padded)
  BY <1>1, CeilingMonotone
<1>3. Len(tokens) = Ceiling(Len(padded)) => Len(padded) <= RealCount
  <2>1. Ceiling(RealCount) \in Nat
    BY <1>1, CeilingMonotone
  <2>2. Ceiling(Len(padded)) <= Ceiling(RealCount) => Len(padded) <= RealCount
    BY <1>1, CeilingMonotone
  <2> QED  BY <1>1, <2>1, <2>2
<1> QED  BY <1>1, <1>2, <1>3

LEMMA DecodeRealStep == ASSUME Inv, DecodeReal PROVE Inv'
<1> DEFINE pos == ctPos + Skipped
           value == (tokens[pos + 1] - Addend) \div Prime
<1>1. /\ Base /\ Given /\ Decoding /\ Capped /\ phase = "decode" /\ phase' = "decode" /\ LegalCount
      /\ realIdx < RealCount /\ pos < Len(tokens)
      /\ decoded' = Append(decoded, value) /\ ctPos' = pos + 1 /\ realIdx' = realIdx + 1
      /\ UNCHANGED <<format, seed, message, padded, noise, tokens, origin>>
  BY DEF DecodeReal, Inv
<1>2. /\ ctPos \in Nat /\ Len(tokens) \in Nat /\ tokens \in Seq(Nat) /\ realIdx \in Nat /\ Len(padded) \in Nat
      /\ ctPos <= Len(tokens)
  BY <1>1 DEF Base, Decoding
<1>3. Skipped \in 0..MAX_NOISE_RUN /\ MAX_NOISE_RUN \in Nat
  BY <1>2, SkippedSkips, TokenCodecAssumption
<1>4. pos + 1 \in Nat /\ pos + 1 <= Len(tokens) /\ realIdx + 1 \in Nat
  BY <1>1, <1>2, <1>3
<1>5. pos + 1 <= Ceiling(realIdx + 1)
  BY <1>1, Budget
<1>6. /\ Given' /\ Word' = Word /\ Capped' = Capped
  BY <1>1, Fixed
<1>7. Base'
  BY <1>1, <1>4 DEF Base
<1>8. Decoding'
  BY <1>1, <1>4, <1>5 DEF Decoding, Ceiling
<1>9. origin # "other" => Following'
  <2> HAVE origin # "other"
  <2>1. Following
    BY <1>1 DEF Inv
  <2>2. PICK q : Layout(Word, Capped, noise, tokens, q, Len(padded)) /\ At(q)
    BY <2>1 DEF Following
  <2>3. realIdx < Len(padded)
    <3>1. RealCount <= Len(padded) /\ RealCount \in Nat
      BY <1>1, <1>2, <2>1, CountFits, CountIs
    <3> QED  BY <1>1, <1>2, <3>1
  <2>4. q[realIdx + 1] = pos + 1 /\ value = padded[realIdx + 1]
    BY <1>1, <2>1, <2>2, <2>3, NextReal
  <2>5. /\ decoded \in Seq(Codepoints) /\ Len(decoded) = realIdx /\ \A i \in 1..realIdx : decoded[i] = padded[i]
        /\ padded \in Seq(Codepoints) /\ (Capped => Len(tokens) <= Ceiling(Len(padded)))
    BY <1>1, <2>1 DEF Following, Base
  <2> HIDE DEF value, pos
  <2>6. realIdx + 1 <= Len(padded) /\ realIdx + 1 \in 1..Len(padded)
    BY <1>2, <2>3
  <2>7. value \in Codepoints
    BY <2>4, <2>5, <2>6
  <2>8. /\ decoded' \in Seq(Codepoints) /\ Len(decoded') = realIdx + 1
        /\ \A i \in 1..(realIdx + 1) : decoded'[i] = padded[i]
    BY <1>1, <1>2, <2>4, <2>5, <2>7
  <2>9. At(q)'
    BY <1>1, <1>6, <2>4 DEF At
  <2>10. Layout(Word', Capped', noise', tokens', q, Len(padded'))
    BY <1>1, <1>6, <2>2
  <2> QED  BY <1>1, <1>6, <2>5, <2>6, <2>8, <2>9, <2>10 DEF Following, Ceiling
<1>10. origin = "genuine" => Len(tokens') = Ceiling(Len(padded))'
  BY <1>1 DEF Inv, Ceiling
<1> QED  BY <1>1, <1>6, <1>7, <1>8, <1>9, <1>10 DEF Inv

\* Genuine tokens never fail to decode.
LEMMA DecodeFailsStep == ASSUME Inv, DecodeFails PROVE Inv'
<1>1. /\ Base /\ Given /\ Decoding /\ Capped /\ phase = "decode" /\ phase' = "error"
      /\ UNCHANGED <<format, seed, message, padded, noise, tokens, decoded, realIdx, ctPos, origin>>
  BY DEF DecodeFails, Inv
<1>2. Given' /\ Capped' = Capped
  BY <1>1, Fixed
<1>3. Base'
  BY <1>1 DEF Base
<1>4. origin # "genuine"
  <2> SUFFICES ASSUME origin = "genuine" PROVE FALSE
    OBVIOUS
  <2>1. Following /\ Len(tokens) = Ceiling(Len(padded))
    BY <1>1 DEF Inv
  <2>2. /\ Len(padded) \in Nat /\ tokens \in Seq(Nat) /\ realIdx \in Nat /\ realIdx <= Len(padded)
    BY <1>1, <2>1 DEF Base, Following
  <2>3. LegalCount
    <3> DEFINE m == MAX_NOISE_RUN + 1
               n == Len(padded)
    <3>1. m \in Nat \ {0} /\ n \in Nat /\ Len(tokens) = n * m
      BY <2>1, <2>2, TokenCodecAssumption DEF Ceiling
    <3> HIDE DEF m, n
    <3>2. Len(tokens) % m = 0 /\ Len(tokens) \div m = n
      BY <3>1, QuotientIs
    <3>3. format = "chunk" \/ \E e \in PAD_MIN_EXP..PAD_MAX_EXP : n = 2 ^ e + 2
      BY <1>1 DEF Given, n
    <3> QED  BY <3>2, <3>3 DEF LegalCount, m, n
  <2>4. RealCount = Len(padded)
    BY <1>1, <2>1, <2>3, CountFits
  <2>5. CASE realIdx < RealCount
    <3>1. ctPos + Skipped < Len(tokens)
      BY <1>1, <2>3, <2>5, Budget
    <3>2. PICK q : Layout(Word, Capped, noise, tokens, q, Len(padded)) /\ At(q)
      BY <2>1 DEF Following
    <3>3. WellFormed(tokens[ctPos + Skipped + 1])
      BY <1>1, <2>1, <2>4, <2>5, <3>1, <3>2, NextReal
    <3>4. /\ ctPos + Skipped \in Nat /\ Len(tokens) \in Nat
      <4>1. ctPos \in Nat /\ ctPos <= Len(tokens)
        BY <1>1 DEF Base, Decoding
      <4>2. Skipped \in 0..MAX_NOISE_RUN
        BY <2>2, <4>1, SkippedSkips
      <4> QED  BY <2>2, <4>1, <4>2, TokenCodecAssumption
    <3>5. ~(ctPos + Skipped >= Len(tokens)) /\ realIdx # RealCount
      BY <2>2, <2>4, <2>5, <3>1, <3>4
    <3> QED  BY <2>3, <3>3, <3>5 DEF DecodeFails
  <2>6. CASE ~(realIdx < RealCount)
    <3>1. realIdx = Len(padded)
      BY <2>2, <2>4, <2>6
    <3>2. Recovered # Malformed
      BY <1>1, <2>1, <3>1, RecoveredIs
    <3> QED  BY <2>3, <2>6, <3>2 DEF DecodeFails
  <2> QED  BY <2>5, <2>6
<1> QED  BY <1>1, <1>2, <1>3, <1>4 DEF Inv

LEMMA DecodeDoneStep == ASSUME Inv, DecodeDone PROVE Inv'
<1>1. /\ Base /\ Given /\ Capped /\ phase = "decode" /\ phase' = "done" /\ LegalCount /\ realIdx = RealCount
      /\ Recovered # Malformed /\ decoded' = Recovered
      /\ UNCHANGED <<format, seed, message, padded, noise, tokens, realIdx, ctPos, origin>>
  BY DEF DecodeDone, Inv
<1>2. Given' /\ Capped' = Capped
  BY <1>1, Fixed
<1>3. Base'
  BY <1>1 DEF Base
<1>4. origin # "other" => decoded' = message
  <2> HAVE origin # "other"
  <2>1. Following
    BY <1>1 DEF Inv
  <2>2. format = "chunk" => realIdx = Len(padded)
    BY <1>1 DEF LegalCount, RealCount
  <2> QED  BY <1>1, <2>1, <2>2, RecoveredIs
<1>5. origin = "genuine" => Len(tokens') = Ceiling(Len(padded))'
  BY <1>1 DEF Inv, Ceiling
<1> QED  BY <1>1, <1>2, <1>3, <1>4, <1>5 DEF Inv

\* One position of a v7 stream: noise on the way to the next real token, or that
\* token.
LEMMA DecodePositionV7Step == ASSUME Inv, DecodePositionV7 PROVE Inv'
<1> DEFINE token == tokens[ctPos + 1]
           value == (token - Addend) \div Prime
           n == Len(padded)
<1>1. /\ Base /\ Given /\ Decoding /\ ~Capped /\ phase = "decode" /\ ctPos < Len(tokens) /\ ctPos' = ctPos + 1
      /\ UNCHANGED <<format, seed, message, padded, noise, tokens, origin>>
      /\ IF SkipsV7 THEN UNCHANGED <<decoded, realIdx, phase>>
         ELSE IF WellFormed(token)
         THEN decoded' = Append(decoded, value) /\ realIdx' = realIdx + 1 /\ UNCHANGED phase
         ELSE phase' = "error" /\ UNCHANGED <<decoded, realIdx>>
  BY DEF DecodePositionV7, Inv, Capped
<1>2. /\ ctPos \in Nat /\ Len(tokens) \in Nat /\ realIdx \in Nat /\ n \in Nat /\ seed \in Nat
      /\ tokens \in Seq(Nat) /\ noise \in Seq(BOOLEAN) /\ padded \in Seq(Codepoints)
      /\ Len(noise) \in Nat /\ Len(tokens) <= Len(noise)
  BY <1>1 DEF Base
<1>3. ctPos + 1 \in Nat /\ ctPos + 1 <= Len(tokens) /\ realIdx + 1 \in Nat
  BY <1>1, <1>2
<1>4. /\ Given' /\ Word' = Word /\ Capped' = Capped
  BY <1>1, Fixed
<1>5. realIdx' \in Nat /\ phase' \in {"decode", "error"}
  BY <1>1, <1>2, <1>3, Zenon
<1>6. Base'
  BY <1>1, <1>3, <1>5 DEF Base
<1>7. Decoding'
  BY <1>1, <1>3, <1>4 DEF Decoding
<1>8. origin # "other" => phase' = "decode" /\ Following'
  <2> HAVE origin # "other"
  <2>1. Following
    BY <1>1 DEF Inv
  <2>2. PICK pos : Layout(Word, Capped, noise, tokens, pos, n) /\ At(pos)
    BY <2>1 DEF Following
  <2>3. /\ realIdx <= n /\ decoded \in Seq(Codepoints) /\ Len(decoded) = realIdx
        /\ \A i \in 1..realIdx : decoded[i] = padded[i]
    BY <2>1 DEF Following
  <2>4. /\ Len(tokens) <= pos[n] /\ (origin = "genuine" => Len(tokens) = pos[n])
        /\ realIdx < n => pos[realIdx] <= ctPos /\ ctPos < pos[realIdx + 1]
        /\ realIdx = n => ctPos = pos[realIdx]
    BY <1>1, <2>2 DEF At
  <2>5. pos[n] \in Nat
    BY <1>2, <2>2, LayoutTyped
  <2>6. realIdx < n
    BY <1>1, <1>2, <2>3, <2>4, <2>5
  <2> HIDE DEF n
  <2> DEFINE a == pos[realIdx]
             b == pos[realIdx + 1]
  <2>7. a \in Nat /\ b \in Nat /\ Slot(Word, Capped, noise, tokens, a, b, realIdx + 1)
    <3>1. realIdx + 1 \in 1..n /\ (realIdx + 1) - 1 = realIdx /\ realIdx \in 0..n /\ realIdx + 1 \in 0..n
      BY <1>2, <2>6
    <3> QED  BY <1>2, <2>2, <3>1, LayoutTyped
  <2>8. a <= ctPos /\ ctPos < b
    BY <2>4, <2>6
  <2> HIDE DEF a, b
  <2>9. /\ \A j \in (a + 1)..(b - 1) : noise[j]
        /\ ~noise[b]
        /\ b <= Len(tokens) => tokens[b] = Word[realIdx + 1]
    BY <1>1, <2>7 DEF Slot
  <2>10. Layout(Word', Capped', noise', tokens', pos, Len(padded'))
    BY <1>1, <1>4, <2>2 DEF n
  <2>11. CASE ctPos + 1 < b
    <3>1. ctPos + 1 \in (a + 1)..(b - 1)
      BY <1>2, <2>7, <2>8, <2>11
    <3>2. SkipsV7
      BY <2>9, <3>1 DEF SkipsV7
    <3>3. UNCHANGED <<decoded, realIdx, phase>>
      BY <1>1, <3>2
    <3>4. pos[realIdx] <= ctPos + 1 /\ ctPos + 1 < pos[realIdx + 1] /\ realIdx # n
      BY <1>2, <2>6, <2>7, <2>8, <2>11 DEF a, b
    <3>5. At(pos)'
      BY <1>1, <1>4, <2>4, <3>3, <3>4 DEF At, n
    <3> QED  BY <1>1, <1>4, <2>3, <2>10, <3>3, <3>5 DEF Following, n
  <2>12. CASE ~(ctPos + 1 < b)
    <3>1. b = ctPos + 1
      BY <1>2, <2>7, <2>8, <2>12
    <3>2. ~SkipsV7 /\ tokens[ctPos + 1] = Word[realIdx + 1]
      BY <1>3, <2>9, <3>1 DEF SkipsV7
    <3>3. realIdx + 1 \in 1..n /\ realIdx + 1 <= n /\ (realIdx + 1) - 1 = realIdx
      BY <1>2, <2>6
    <3>4. padded[realIdx + 1] \in Codepoints /\ Word[realIdx + 1] = RealToken(realIdx, padded[realIdx + 1])
      BY <1>1, <1>2, <3>3, WordTyped DEF n
    <3>5. WellFormed(token) /\ value = padded[realIdx + 1]
      BY <1>2, <3>2, <3>4, TokenDecodes
    <3> HIDE DEF value, token
    <3>6. decoded' = Append(decoded, value) /\ realIdx' = realIdx + 1 /\ phase' = "decode"
      BY <1>1, <3>2, <3>5
    <3>7. /\ decoded' \in Seq(Codepoints) /\ Len(decoded') = realIdx + 1
          /\ \A i \in 1..(realIdx + 1) : decoded'[i] = padded[i]
      BY <1>2, <2>3, <3>4, <3>5, <3>6
    <3>8. realIdx + 1 < n => pos[realIdx + 1] < pos[(realIdx + 1) + 1]
      <4> HAVE realIdx + 1 < n
      <4>1. (realIdx + 1) + 1 \in 1..n /\ ((realIdx + 1) + 1) - 1 = realIdx + 1
        BY <1>2
      <4>2. Slot(Word, Capped, noise, tokens, pos[realIdx + 1], pos[(realIdx + 1) + 1], (realIdx + 1) + 1)
        BY <1>2, <2>2, <4>1, LayoutTyped
      <4> QED  BY <4>2 DEF Slot
    <3>9. At(pos)'
      <4>1. pos[realIdx + 1] = ctPos + 1 /\ ctPos + 1 <= ctPos + 1
        BY <1>2, <3>1 DEF b
      <4> QED  BY <1>1, <1>4, <2>4, <3>6, <3>8, <4>1 DEF At, n
    <3> QED  BY <1>1, <1>4, <2>10, <3>3, <3>6, <3>7, <3>9 DEF Following, n
  <2> QED  BY <2>11, <2>12
<1> QED  BY <1>1, <1>4, <1>5, <1>6, <1>7, <1>8 DEF Inv

LEMMA DecodeEndV7Step == ASSUME Inv, DecodeEndV7 PROVE Inv'
<1>1. /\ Base /\ Given /\ ~Capped /\ format = "v7" /\ phase = "decode" /\ ctPos = Len(tokens)
      /\ UNCHANGED <<format, seed, message, padded, noise, tokens, realIdx, ctPos, origin>>
      /\ IF Recovered = Malformed
         THEN phase' = "error" /\ UNCHANGED decoded
         ELSE phase' = "done" /\ decoded' = Recovered
  BY DEF DecodeEndV7, Inv, Capped
<1>2. /\ Given' /\ Capped' = Capped /\ phase' \in {"error", "done"}
  BY <1>1, Fixed
<1>3. Base'
  BY <1>1, <1>2 DEF Base
<1>4. origin = "genuine" => Recovered = message /\ message # Malformed
  <2> HAVE origin = "genuine"
  <2>1. Following
    BY <1>1 DEF Inv
  <2>2. PICK pos : Layout(Word, Capped, noise, tokens, pos, Len(padded)) /\ At(pos)
    BY <2>1 DEF Following
  <2>3. /\ realIdx \in Nat /\ Len(padded) \in Nat /\ realIdx <= Len(padded) /\ Len(tokens) = pos[Len(padded)]
        /\ realIdx < Len(padded) => ctPos < pos[realIdx + 1]
    BY <1>1, <2>1, <2>2 DEF Base, Following, At
  <2>4. realIdx = Len(padded)
    <3> SUFFICES ASSUME realIdx < Len(padded) PROVE FALSE
      BY <2>3
    <3>1. realIdx + 1 \in 0..Len(padded)
      BY <2>3
    <3>2. pos[realIdx + 1] \in Nat /\ pos[realIdx + 1] <= pos[Len(padded)] /\ pos[Len(padded)] \in Nat
      BY <2>2, <2>3, <3>1, LayoutTyped
    <3> QED  BY <1>1, <2>3, <3>2
  <2> QED  BY <1>1, <2>1, <2>4, RecoveredIs
<1>5. origin # "other" /\ phase' = "done" => decoded' = message
  <2>1. Following => Recovered \in {Malformed, message}
    BY <1>1, RecoveredIs
  <2> QED  BY <1>1, <2>1 DEF Inv
<1> QED  BY <1>1, <1>2, <1>3, <1>4, <1>5 DEF Inv

LEMMA InvStep == ASSUME Inv, [Next]_vars PROVE Inv'
<1>1. ASSUME NEW run \in 0..MAX_NOISE_RUN, NEW answer \in BOOLEAN, EmitReal(run, answer) PROVE Inv'
  BY <1>1, EmitRealStep
<1>2. ASSUME NEW answer \in BOOLEAN, EmitTail(answer) PROVE Inv'
  BY <1>2, EmitTailStep
<1>3. ASSUME NEW run \in 0..V7_NOISE_RUN_GUARD, EmitRealV7(run) PROVE Inv'
  BY <1>3, EmitRealV7Step
<1>4. CASE EmitAbortsV7
  BY <1>4, EmitAbortsV7Step
<1>5. CASE EmitEndV7
  BY <1>5, EmitEndV7Step
<1>6. CASE OtherEncoder
  BY <1>6, OtherEncoderStep
<1>7. CASE DecodePositionV7
  BY <1>7, DecodePositionV7Step
<1>8. CASE DecodeEndV7
  BY <1>8, DecodeEndV7Step
<1>9. CASE DecodeReal
  BY <1>9, DecodeRealStep
<1>10. CASE DecodeFails
  BY <1>10, DecodeFailsStep
<1>11. CASE DecodeDone
  BY <1>11, DecodeDoneStep
<1>12. CASE UNCHANGED vars
  <2>1. UNCHANGED <<format, seed, message, padded, noise, tokens, decoded, realIdx, ctPos, origin, phase>>
    BY <1>12 DEF vars
  <2>2. Given' /\ Word' = Word /\ Capped' = Capped
    BY <2>1, Fixed DEF Inv
  <2>3. Base' = Base /\ Emitting' = Emitting /\ Decoding' = Decoding /\ Following' = Following
    BY <2>1, <2>2 DEF Base, Emitting, Decoding, Following, At, Ceiling
  <2> QED  BY <2>1, <2>2, <2>3 DEF Inv, Ceiling
<1> QED
  BY <1>1, <1>2, <1>3, <1>4, <1>5, <1>6, <1>7, <1>8, <1>9, <1>10, <1>11, <1>12, Zenon DEF Next

-----------------------------------------------------------------------------
(* Theorems *)

\* At every step of emit_tokens_v8, emit_tokens_v7 and the decoders, the real tokens
\* sit at increasing positions with noise between them that the decoder's own
\* answers will skip, within the ceiling, and what the decoder has recovered is a
\* prefix of what was padded.
THEOREM CodecInvariant == Spec => []Inv
<1>1. Init => Inv
  BY InvInit
<1>2. Inv /\ [Next]_vars => Inv'
  BY InvStep
<1> QED  BY <1>1, <1>2, PTL DEF Spec

\* For every key, block geometry, message and noise realisation, decrypt_core_v8,
\* decrypt_v8_stream_chunk_core and decrypt_core never reject what the matching
\* emitter made and return the message, and a v8 ciphertext's token count depends on
\* the padded length alone.
THEOREM DecodingInverts == Spec => []RoundTrip
<1>1. Inv => RoundTrip
  <2> SUFFICES ASSUME Inv PROVE RoundTrip
    OBVIOUS
  <2> QED  BY DEF Inv, RoundTrip
<1> QED  BY <1>1, CodecInvariant, PTL

\* The token count check of decrypt_core_v8 is enough: the decoder never runs off the
\* end of a stream that passes it, whoever made the tokens.
THEOREM BudgetIsEnough == Spec => []BudgetSuffices
<1>1. Inv => BudgetSuffices
  <2> SUFFICES ASSUME Inv, Capped, phase = "decode", LegalCount, realIdx < RealCount
               PROVE  ctPos + Skipped < Len(tokens)
    BY DEF BudgetSuffices
  <2>1. Base /\ Decoding
    BY DEF Inv
  <2> QED  BY <2>1, Budget
<1> QED  BY <1>1, CodecInvariant, PTL

\* Tokens cut off the end never make unpad_message return a shorter text.
THEOREM CutIsSafe == Spec => []CutNeverShortens
<1>1. Inv => CutNeverShortens
  BY DEF Inv, CutNeverShortens
<1> QED  BY <1>1, CodecInvariant, PTL
=============================================================================
