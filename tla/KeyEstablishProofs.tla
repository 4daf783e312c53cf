------------------------- MODULE KeyEstablishProofs --------------------------
(***************************************************************************)
(* Proofs about how keys come to be: trial division decides primality for  *)
(* every number, every tuple handed out meets the key policy, and two      *)
(* parties with one seed saw one exchange and expand it to one tuple.      *)
(*                                                                         *)
(* Induction over the naturals is done by least counterexample, from the   *)
(* library's theorem that < is well-founded on Nat.                        *)
(***************************************************************************)
EXTENDS KeyEstablish, WellFoundedInduction, TLAPS

(* Natural numbers *)

\* A set of naturals has a least element.
LEMMA NatLeast ==
    ASSUME NEW T \in SUBSET Nat, T # {}
    PROVE  \E x \in T : \A y \in T : x <= y
<1> DEFINE R == OpToRel(<, Nat)
<1>1. IsWellFoundedOn(R, Nat)
  BY NatLessThanWellFounded, Zenon
<1>2. \A y, x \in Nat : y < x => <<y, x>> \in R
  BY DEF OpToRel
<1> HIDE DEF R
<1>3. PICK x \in T : \A y \in T : ~ (<<y, x>> \in R)
  BY <1>1, WFMin
<1>4. ASSUME NEW y \in T PROVE x <= y
  <2>1. x \in Nat /\ y \in Nat
    OBVIOUS
  <2>2. ~ (y < x)
    BY <1>2, <1>3, <2>1
  <2> QED  BY <2>1, <2>2
<1> QED  BY <1>4

\* A bounded one has a greatest element.
LEMMA NatGreatest ==
    ASSUME NEW T \in SUBSET Nat, T # {}, NEW n \in Nat, \A x \in T : x <= n
    PROVE  \E x \in T : \A y \in T : y <= x
<1> DEFINE U == {m \in Nat : \A x \in T : x <= m}
<1>1. PICK m \in U : \A y \in U : m <= y
  <2>1. U \in SUBSET Nat /\ n \in U
    OBVIOUS
  <2> HIDE DEF U
  <2> QED  BY <2>1, NatLeast
<1>2. CASE m \in T
  BY <1>1, <1>2
<1>3. CASE m \notin T
  <2>1. m # 0
    <3>1. PICK x \in T : TRUE
      OBVIOUS
    <3>2. x \in Nat /\ x <= m /\ x # m
      BY <1>1, <1>3
    <3> QED  BY <3>2
  <2>2. m - 1 \in U
    BY <1>1, <1>3, <2>1
  <2> QED  BY <1>1, <2>2
<1> QED  BY <1>2, <1>3

-----------------------------------------------------------------------------
(* isqrt_u64 *)

\* r is the integer square root of n.
IsRoot(r, n) == r \in 0 .. n /\ r * r <= n /\ (r + 1) * (r + 1) > n

LEMMA RootExists == ASSUME NEW n \in Nat PROVE \E r \in 0 .. n : IsRoot(r, n)
<1> DEFINE T == {r \in 0 .. n : r * r <= n}
<1>1. T \in SUBSET Nat /\ 0 \in T /\ \A x \in T : x <= n
  OBVIOUS
<1>2. PICK r \in T : \A y \in T : y <= r
  <2> HIDE DEF T
  <2> QED  BY <1>1, NatGreatest
<1>3. (r + 1) * (r + 1) > n
  <2>1. r + 1 \notin T
    BY <1>2
  <2>2. r + 1 \in Nat /\ (r + 1) * (r + 1) >= r + 1
    OBVIOUS
  <2> QED  BY <2>1, <2>2
<1> QED  BY <1>2, <1>3 DEF IsRoot

\* Squares are ordered like their roots.
LEMMA SquaresOrdered ==
    ASSUME NEW a \in Nat, NEW b \in Nat
    PROVE  /\ a <= b => a * a <= b * b
           /\ a * a < (b + 1) * (b + 1) => a <= b
<1>1. ASSUME NEW x \in Nat, NEW y \in Nat, x <= y PROVE x * x <= y * y
  BY <1>1
<1>2. ASSUME a * a < (b + 1) * (b + 1), ~ (a <= b) PROVE FALSE
  BY <1>1, <1>2
<1> QED  BY <1>1, <1>2

LEMMA RootIs == ASSUME NEW n \in Nat PROVE IsRoot(Root(n), n)
  BY RootExists DEF Root, IsRoot

\* The estimate is no negative number.
LEMMA Estimate ==
    ASSUME NEW n \in Nat
    PROVE  F64Sqrt(n) \in Nat
<1> DEFINE r == Root(n)
<1>1. r \in Nat /\ r * r <= n /\ (r + 1) * (r + 1) > n
  BY RootIs DEF IsRoot
<1>2. n % 3 \in 0 .. 2
  OBVIOUS
<1>3. F64Sqrt(n) \in {r, r - 1, r + 1} /\ (F64Sqrt(n) = r - 1 => n % 3 = 1)
  BY <1>1, <1>2 DEF F64Sqrt
<1>4. n % 3 = 1 => r # 0
  <2> HIDE DEF r
  <2>1. r = 0 => n = 0
    BY <1>1
  <2> QED  BY <2>1
<1> QED  BY <1>1, <1>3, <1>4

\* From whatever estimate, the two corrections arrive at the integer square root.
LEMMA RootCorrected ==
    ASSUME NEW n \in Nat, NEW guess \in Nat
    PROVE  IsRoot(CorrectedRoot(n, guess), n)
<1> DEFINE root == Root(n)
           lowered == Lowered(n, guess)
           raised == CorrectedRoot(n, guess)
<1>1. root \in 0 .. n /\ root * root <= n /\ (root + 1) * (root + 1) > n
  BY RootIs DEF IsRoot
<1>2. guess \in Nat
  OBVIOUS
<1>3. \E r \in 0 .. guess : r * r <= n /\ (r < guess => (r + 1) * (r + 1) > n)
  <2> HIDE DEF root
  <2>1. CASE guess <= root
    <3>1. guess * guess <= root * root
      BY <1>1, <1>2, <2>1, SquaresOrdered
    <3>2. guess * guess <= n
      BY <1>1, <1>2, <3>1
    <3> QED  BY <1>2, <3>2
  <2>2. CASE ~ (guess <= root)
    BY <1>1, <1>2, <2>2
  <2> QED  BY <2>1, <2>2
<1>4. lowered \in 0 .. guess /\ lowered * lowered <= n
  BY <1>3 DEF Lowered
<1>5. lowered <= root
  <2> HIDE DEF root, lowered
  <2>1. lowered \in Nat /\ lowered * lowered < (root + 1) * (root + 1)
    BY <1>1, <1>2, <1>4
  <2> QED  BY <1>1, <2>1, SquaresOrdered
<1>6. \E r \in lowered .. n : (r + 1) * (r + 1) > n /\ (r > lowered => r * r <= n)
  <2> HIDE DEF root, lowered
  <2>1. root \in lowered .. n
    BY <1>1, <1>2, <1>4, <1>5
  <2> QED  BY <1>1, <2>1
<1>7. /\ raised \in lowered .. n /\ (raised + 1) * (raised + 1) > n
      /\ raised > lowered => raised * raised <= n
  BY <1>6 DEF CorrectedRoot
<1>8. raised = lowered => raised * raised <= n
  BY <1>4
<1> HIDE DEF root, lowered, raised
<1>9. IsRoot(raised, n)
  BY <1>1, <1>2, <1>4, <1>7, <1>8 DEF IsRoot
<1> QED  BY <1>9 DEF raised

LEMMA IsqrtIs == ASSUME NEW n \in Nat PROVE IsRoot(isqrt_u64(n), n)
  BY Estimate, RootCorrected DEF isqrt_u64

-----------------------------------------------------------------------------
(* is_prime *)

LEMMA DividesMeans ==
    ASSUME NEW n \in Nat, NEW d \in Nat \ {0}
    PROVE  n % d = 0 <=> \E q \in Nat : n = d * q
<1>1. ASSUME n % d = 0 PROVE n = d * (n \div d) /\ n \div d \in Nat
  BY <1>1
<1>2. ASSUME NEW q \in Nat, n = d * q PROVE n % d = 0
  BY <1>2
<1> QED  BY <1>1, <1>2

LEMMA DividesTransitive ==
    ASSUME NEW n \in Nat, NEW d \in Nat \ {0}, NEW p \in Nat \ {0}, n % d = 0, d % p = 0
    PROVE  n % p = 0
<1>1. PICK q \in Nat : n = d * q
  BY DividesMeans
<1>2. PICK s \in Nat : d = p * s
  BY DividesMeans
<1>3. n = p * (s * q) /\ s * q \in Nat
  BY <1>1, <1>2
<1> QED  BY <1>3, DividesMeans

\* A composite number has a divisor up to its root.
LEMMA SmallDivisor ==
    ASSUME NEW n \in Nat, NEW d \in 2 .. (n - 1), n % d = 0, NEW r \in Nat, IsRoot(r, n)
    PROVE  \E f \in 2 .. r : n % f = 0 /\ f * f <= n
<1>1. d \in Nat \ {0} /\ 2 <= d /\ d < n
  OBVIOUS
<1>2. PICK e \in Nat : n = d * e
  BY <1>1, DividesMeans
<1>3. e >= 2 /\ n = e * d
  BY <1>1, <1>2
<1>4. n % e = 0
  BY <1>1, <1>3, DividesMeans
<1>5. ASSUME NEW f \in Nat, f >= 2, f * f <= n PROVE f \in 2 .. r
  BY <1>5, SquaresOrdered DEF IsRoot
<1>6. CASE d <= e
  <2>1. d * d <= n
    BY <1>1, <1>2, <1>6
  <2> QED  BY <1>1, <1>5, <2>1
<1>7. CASE e <= d
  <2>1. e * e <= n
    BY <1>1, <1>2, <1>7
  <2> QED  BY <1>3, <1>4, <1>5, <2>1
<1> QED  BY <1>1, <1>6, <1>7

\* An odd number below the first trial divisor of the loop is 1 or has a factor in
\* the wheel.
LEMMA Wheel ==
    ASSUME NEW f \in 2 .. 58, f % 2 = 1
    PROVE  \E p \in SMALL_ODD_PRIMES : f % p = 0
  BY DEF SMALL_ODD_PRIMES

\* is_prime is right about every number: the two, the fifteen small primes and the
\* odd trial divisors from 59 up to isqrt_u64 miss no divisor.
THEOREM IsPrimeExact == \A n \in Nat : is_prime(n) <=> Prime(n)
<1> SUFFICES ASSUME NEW n \in Nat PROVE is_prime(n) <=> Prime(n)
  OBVIOUS
<1> DEFINE r == isqrt_u64(n)
<1>1. r \in Nat /\ IsRoot(r, n)
  BY IsqrtIs DEF IsRoot
<1> HIDE DEF r
<1>2. ASSUME is_prime(n), NEW d \in 2 .. (n - 1), n % d = 0 PROVE FALSE
  <2>1. PICK f \in 2 .. r : n % f = 0 /\ f * f <= n
    BY <1>1, <1>2, SmallDivisor
  <2>2. f \in Nat \ {0} /\ f >= 2 /\ f < n
    BY <1>1, <2>1
  <2>3. CASE f % 2 = 0
    <3>1. 2 \in Nat \ {0}
      OBVIOUS
    <3>2. n % 2 = 0
      BY <2>1, <2>2, <2>3, <3>1, DividesTransitive
    <3>3. n = 2
      BY <1>2, <3>2 DEF is_prime
    <3> QED  BY <2>2, <3>3
  <2>4. CASE f % 2 = 1 /\ f < 59
    <3>1. PICK p \in SMALL_ODD_PRIMES : f % p = 0
      BY <2>2, <2>4, Wheel
    <3>2. n % p = 0
      <4>1. p \in Nat \ {0}
        BY DEF SMALL_ODD_PRIMES
      <4> QED  BY <2>1, <2>2, <3>1, <4>1, DividesTransitive
    <3>3. n \in SMALL_ODD_PRIMES
      BY <1>2, <3>1, <3>2 DEF is_prime
    <3>4. f \in {3, 5, 7}
      <4>1. n <= 53
        BY <3>3 DEF SMALL_ODD_PRIMES
      <4>2. f < 8
        BY <2>1, <2>2, <4>1
      <4> QED  BY <2>2, <2>4, <4>2
    <3> QED  BY <2>1, <2>2, <3>3, <3>4 DEF SMALL_ODD_PRIMES
  <2>5. CASE f % 2 = 1 /\ f >= 59
    BY <1>2, <2>1, <2>2, <2>5 DEF is_prime, r
  <2> QED  BY <2>2, <2>3, <2>4, <2>5
<1>3. ASSUME Prime(n) PROVE is_prime(n)
  <2>1. n >= 2 /\ \A d \in 2 .. (n - 1) : n % d # 0
    BY <1>3 DEF Prime
  <2>2. n % 2 = 0 => n = 2
    BY <2>1
  <2>3. ASSUME NEW p \in SMALL_ODD_PRIMES, n % p = 0 PROVE n = p
    <3>1. p \in Nat /\ p >= 2
      BY DEF SMALL_ODD_PRIMES
    <3>2. p <= n
      BY <2>1, <2>3, <3>1
    <3> QED  BY <2>1, <2>3, <3>1, <3>2
  <2>4. ASSUME NEW i \in 59 .. r PROVE n % i # 0
    <3>1. i * i <= n
      BY <1>1, SquaresOrdered DEF IsRoot
    <3>2. i \in 2 .. (n - 1)
      BY <1>1, <3>1
    <3> QED  BY <2>1, <3>2
  <2> QED  BY <2>1, <2>2, <2>3, <2>4 DEF is_prime, r
<1>4. is_prime(n) => n >= 2
  BY DEF is_prime
<1> QED  BY <1>2, <1>3, <1>4 DEF Prime

-----------------------------------------------------------------------------
(* Tuples *)

\* What a generator or a derivation has so far: distinct primes of the interval.
GoodSoFar(primes) ==
    /\ primes \in Seq(Nat)
    /\ Distinct(primes)
    /\ \A i \in DOMAIN primes : primes[i] \in IntervalPrimes

\* One candidate of a generator, or one digest of a derivation.
WithCandidate(primes, num) ==
    IF num \notin Taken(primes) /\ is_prime(num) THEN Append(primes, num) ELSE primes

LEMMA CandidateGood ==
    ASSUME NEW primes, GoodSoFar(primes), NEW num \in MIN_KEY_PRIME .. MAX_KEY_PRIME
    PROVE  /\ GoodSoFar(WithCandidate(primes, num))
           /\ Len(WithCandidate(primes, num)) \in {Len(primes), Len(primes) + 1}
<1>1. CASE num \notin Taken(primes) /\ is_prime(num)
  <2> DEFINE more == Append(primes, num)
  <2>1. num \in Nat /\ Prime(num) /\ primes \in Seq(Nat)
    <3>1. num \in Nat
      BY KeyBounds
    <3> QED  BY <1>1, <3>1, IsPrimeExact DEF GoodSoFar
  <2>2. /\ more \in Seq(Nat) /\ Len(more) = Len(primes) + 1 /\ Len(primes) \in Nat
        /\ DOMAIN more = 1 .. (Len(primes) + 1) /\ DOMAIN primes = 1 .. Len(primes)
        /\ more[Len(primes) + 1] = num
        /\ \A i \in 1 .. Len(primes) : more[i] = primes[i]
    BY <2>1
  <2> HIDE DEF more
  <2>3. \A i \in 1 .. Len(primes) : primes[i] # num
    BY <1>1, <2>2 DEF Taken
  <2>4. Distinct(more)
    BY <2>2, <2>3 DEF Distinct, GoodSoFar
  <2>5. num \in IntervalPrimes
    BY <2>1 DEF IntervalPrimes
  <2>6. GoodSoFar(more)
    BY <2>2, <2>4, <2>5 DEF GoodSoFar
  <2> QED  BY <1>1, <2>2, <2>6 DEF WithCandidate, more
<1>2. CASE ~(num \notin Taken(primes) /\ is_prime(num))
  BY <1>2 DEF WithCandidate
<1> QED  BY <1>1, <1>2

\* Such a tuple of the right length passes the policy of the encryptors.
LEMMA GoodIsValid ==
    ASSUME NEW primes, GoodSoFar(primes), Len(primes) \in 1 .. MAX_KEY_ELEMENTS
    PROVE  GoodKey(primes) /\ validate_key(primes)
<1>1. ASSUME NEW i \in DOMAIN primes
      PROVE  /\ primes[i] \in MIN_KEY_PRIME .. MAX_KEY_PRIME
             /\ primes[i] <= MAX_SERIALISABLE_KEY_PRIME
             /\ is_prime(primes[i])
  <2>1. primes[i] \in Nat /\ primes[i] \in MIN_KEY_PRIME .. MAX_KEY_PRIME /\ Prime(primes[i])
    BY KeyBounds DEF GoodSoFar, IntervalPrimes
  <2>2. is_prime(primes[i])
    BY <2>1, IsPrimeExact
  <2> QED  BY <2>1, <2>2, KeyBounds
<1> QED  BY <1>1 DEF GoodSoFar, GoodKey, validate_key

-----------------------------------------------------------------------------
(* generate *)

Generations ==
    [pc : {"idle", "draw", "ok", "err"}, count : Nat, min : Nat, max : Nat,
     primes : Seq(Nat), attempts : Nat]

\* A running or successful generation has accepted arguments and good primes, and
\* it runs exactly until it has enough of them.
GenInv ==
    /\ gen \in Generations
    /\ gen.pc = "idle" => gen.primes = <<>>
    /\ gen.pc \in {"draw", "ok"} =>
         /\ gen.count \in 1 .. MAX_KEY_ELEMENTS
         /\ MIN_KEY_PRIME <= gen.min /\ gen.max <= MAX_KEY_PRIME
         /\ GoodSoFar(gen.primes)
    /\ gen.pc = "draw" => Len(gen.primes) < gen.count
    /\ gen.pc = "ok" => Len(gen.primes) = gen.count

LEMMA GenInit == ASSUME Init PROVE GenInv
  BY DEF Init, GenInv, Generations

LEMMA GenerateStep ==
    ASSUME GenInv, NEW count \in Counts, NEW range \in Ranges, Generate(count, range[1], range[2])
    PROVE  GenInv'
<1>1. count \in Nat /\ range[1] \in Nat /\ range[2] \in Nat
  BY KeyEstablishAssumption
<1>2. GoodSoFar(<<>>)
  BY DEF GoodSoFar, Distinct
<1>3. /\ gen \in Generations /\ gen.primes = <<>>
      /\ \E pc \in {"draw", "err"} :
           gen' = [gen EXCEPT !.count = count, !.min = range[1], !.max = range[2], !.pc = pc]
      /\ gen'.pc = "draw" => /\ MIN_KEY_PRIME <= range[1] /\ range[2] <= MAX_KEY_PRIME
                             /\ count \in 1 .. MAX_KEY_ELEMENTS
  BY <1>1 DEF GenInv, Generations, Generate
<1>4. PICK pc \in {"draw", "err"} :
        gen' = [pc |-> pc, count |-> count, min |-> range[1], max |-> range[2],
                primes |-> <<>>, attempts |-> gen.attempts]
  BY <1>3 DEF Generations
<1>5. /\ gen' \in Generations /\ gen'.pc \in {"draw", "err"} /\ gen'.primes = <<>>
      /\ gen'.count = count /\ gen'.min = range[1] /\ gen'.max = range[2]
  BY <1>1, <1>3, <1>4 DEF Generations
<1>6. count \in 1 .. MAX_KEY_ELEMENTS => Len(<<>>) < count
  BY KeyBounds
<1> QED
  BY <1>2, <1>3, <1>5, <1>6 DEF GenInv

LEMMA DrawStep == ASSUME GenInv, NEW num \in gen.min .. gen.max, Draw(num) PROVE GenInv'
<1> DEFINE primes == WithCandidate(gen.primes, num)
           attempts == gen.attempts + 1
           wiped == [i \in DOMAIN primes |-> 0]
<1>1. /\ gen.pc = "draw" /\ gen.count \in 1 .. MAX_KEY_ELEMENTS /\ gen.attempts \in Nat
      /\ MIN_KEY_PRIME <= gen.min /\ gen.max <= MAX_KEY_PRIME /\ gen.min \in Nat /\ gen.max \in Nat
      /\ GoodSoFar(gen.primes) /\ Len(gen.primes) < gen.count
  BY DEF GenInv, Generations, Draw
<1>2. GoodSoFar(primes) /\ Len(primes) \in {Len(gen.primes), Len(gen.primes) + 1}
  <2>1. num \in MIN_KEY_PRIME .. MAX_KEY_PRIME
    BY <1>1, KeyBounds
  <2> QED  BY <1>1, <2>1, CandidateGood
<1>3. gen' = IF Len(primes) = gen.count
             THEN [gen EXCEPT !.primes = primes, !.attempts = attempts, !.pc = "ok"]
             ELSE IF attempts = gen.count * KEYGEN_DRAWS_PER_PRIME
             THEN [gen EXCEPT !.primes = wiped, !.attempts = attempts, !.pc = "err"]
             ELSE [gen EXCEPT !.primes = primes, !.attempts = attempts]
  BY DEF Draw, WithCandidate
<1>4. primes \in Seq(Nat) /\ wiped \in Seq(Nat) /\ gen.primes \in Seq(Nat)
  BY <1>1, <1>2 DEF GoodSoFar
<1> HIDE DEF primes, wiped
<1>5. Len(primes) <= gen.count /\ attempts \in Nat
  BY <1>1, <1>2, <1>4, SMTT(30)
<1> HIDE DEF attempts
<1>6. gen \in Generations
  BY DEF GenInv
<1>7. CASE Len(primes) = gen.count
  <2>1. gen' = [gen EXCEPT !.primes = primes, !.attempts = attempts, !.pc = "ok"]
    BY <1>3, <1>7
  <2> QED  BY <1>1, <1>2, <1>4, <1>5, <1>6, <1>7, <2>1 DEF GenInv, Generations
<1>8. CASE Len(primes) # gen.count /\ attempts = gen.count * KEYGEN_DRAWS_PER_PRIME
  <2>1. gen' = [gen EXCEPT !.primes = wiped, !.attempts = attempts, !.pc = "err"]
    BY <1>3, <1>8
  <2> QED  BY <1>4, <1>5, <1>6, <2>1 DEF GenInv, Generations
<1>9. CASE Len(primes) # gen.count /\ attempts # gen.count * KEYGEN_DRAWS_PER_PRIME
  <2>1. gen' = [gen EXCEPT !.primes = primes, !.attempts = attempts]
    BY <1>3, <1>9
  <2>2. /\ gen' \in Generations /\ gen'.pc = "draw" /\ gen'.primes = primes
        /\ gen'.count = gen.count /\ gen'.min = gen.min /\ gen'.max = gen.max
    BY <1>1, <1>4, <1>5, <1>6, <2>1 DEF Generations
  <2>3. Len(primes) < gen.count
    BY <1>1, <1>4, <1>5, <1>9
  <2> QED  BY <1>1, <1>2, <2>2, <2>3 DEF GenInv
<1> QED
  BY <1>7, <1>8, <1>9

-----------------------------------------------------------------------------
(* A party's expansion *)

Raw(digest) == MIN_PRIME + (digest % (MAX_PRIME - MIN_PRIME))

\* h tells the primes after each digest, short of a tuple until the last one.
Chain(h, p) ==
    /\ h[0] = <<>>
    /\ \A i \in 1 .. Len(p.draws) : h[i] = WithCandidate(h[i - 1], Raw(p.draws[i]))
    /\ \A i \in 0 .. (Len(p.draws) - 1) : Len(h[i]) < NAPQES_KEY_COUNT
    /\ h[Len(p.draws)] = p.primes

Shaped(p) ==
    p \in [pc : {"idle", "expand", "ok", "err"}, mode : Modes, seed : {p.seed}, sk : {p.sk},
           draws : Seq(Nat), primes : Seq(Nat)]

\* A party that expands its seed, or has done so, has the primes that its digests
\* lead to, and stops with the first whole tuple.  Any other has nothing.
PartyInv(p) ==
    /\ Shaped(p)
    /\ p.pc \in {"idle", "err"} => p.seed = NoSeed /\ p.sk = NoSeed /\ p.draws = <<>> /\ p.primes = <<>>
    /\ p.pc \in {"expand", "ok"} =>
         p.seed # NoSeed /\ GoodSoFar(p.primes) /\ \E h : Chain(h, p)
    /\ p.pc = "expand" => Len(p.primes) < NAPQES_KEY_COUNT
    /\ p.pc = "ok" => Len(p.primes) = NAPQES_KEY_COUNT

LEMMA PartyFields ==
    ASSUME NEW pc \in {"idle", "expand", "ok", "err"}, NEW mode \in Modes, NEW seed, NEW sk
    PROVE  LET p == Party(pc, mode, seed, sk)
           IN  /\ Shaped(p) /\ p.pc = pc /\ p.mode = mode /\ p.seed = seed /\ p.sk = sk
               /\ p.draws = <<>> /\ p.primes = <<>>
  BY DEF Party, Shaped

LEMMA PartyStarts ==
    ASSUME NEW mode \in Modes, NEW seed, NEW sk, seed # NoSeed
    PROVE  PartyInv(Party("expand", mode, seed, sk))
<1> DEFINE p == Party("expand", mode, seed, sk)
<1>1. /\ Shaped(p) /\ p.pc = "expand" /\ p.seed = seed /\ p.draws = <<>> /\ p.primes = <<>>
  BY PartyFields
<1> HIDE DEF p
<1>2. GoodSoFar(p.primes)
  BY <1>1 DEF GoodSoFar, Distinct
<1>3. Chain([i \in {0} |-> <<>>], p)
  <2>1. Len(p.draws) = 0
    BY <1>1
  <2> QED  BY <1>1, <2>1 DEF Chain
<1>4. Len(p.primes) < NAPQES_KEY_COUNT
  BY <1>1, KeyEstablishAssumption, KeyBounds
<1>5. PartyInv(p)
  BY <1>1, <1>2, <1>3, <1>4 DEF PartyInv
<1> QED  BY <1>5 DEF p

LEMMA PartyIdle ==
    ASSUME NEW mode \in Modes, NEW pc \in {"idle", "err"}
    PROVE  PartyInv(Party(pc, mode, NoSeed, NoSeed))
<1> DEFINE p == Party(pc, mode, NoSeed, NoSeed)
<1>1. /\ Shaped(p) /\ p.pc = pc /\ p.seed = NoSeed /\ p.sk = NoSeed /\ p.draws = <<>> /\ p.primes = <<>>
  BY PartyFields
<1> HIDE DEF p
<1>2. PartyInv(p)
  BY <1>1 DEF PartyInv
<1> QED  BY <1>2 DEF p

\* Two expansions that saw the same digests have the same primes all along.
LEMMA ChainsAgree ==
    ASSUME NEW p, NEW q, NEW g, NEW h, Chain(g, p), Chain(h, q), NEW n \in Nat,
           Len(p.draws) \in Nat, Len(q.draws) \in Nat, n <= Len(p.draws), n <= Len(q.draws),
           \A i \in 1 .. n : p.draws[i] = q.draws[i]
    PROVE  \A i \in 0 .. n : g[i] = h[i]
<1> DEFINE T == {i \in 0 .. n : g[i] # h[i]}
<1> SUFFICES ASSUME T # {} PROVE FALSE
  OBVIOUS
<1>1. PICK i \in T : \A j \in T : i <= j
  <2>1. T \in SUBSET Nat
    OBVIOUS
  <2> HIDE DEF T
  <2> QED  BY <2>1, NatLeast
<1>2. i # 0
  BY <1>1 DEF Chain
<1>3. i - 1 \in 0 .. n /\ g[i - 1] = h[i - 1]
  BY <1>1, <1>2
<1>4. /\ g[i] = WithCandidate(g[i - 1], Raw(p.draws[i]))
      /\ h[i] = WithCandidate(h[i - 1], Raw(q.draws[i]))
  BY <1>1, <1>2 DEF Chain
<1> QED
  BY <1>1, <1>2, <1>3, <1>4

LEMMA RawInInterval == ASSUME NEW digest \in Digests PROVE Raw(digest) \in MIN_KEY_PRIME .. MAX_KEY_PRIME
<1>1. digest \in Nat /\ MAX_PRIME - MIN_PRIME \in Nat \ {0} /\ MIN_PRIME \in Nat /\ MAX_PRIME \in Nat
  BY KeyEstablishAssumption, KemInterval
<1>2. digest % (MAX_PRIME - MIN_PRIME) \in 0 .. (MAX_PRIME - MIN_PRIME - 1)
  BY <1>1
<1> QED  BY <1>1, <1>2, KemInterval, KeyBounds DEF Raw

\* One turn of expand_seed_to_primes keeps all of that, and deriving a v8 key does
\* not fail at its end.
LEMMA TurnStep ==
    ASSUME NEW p, PartyInv(p), p.pc = "expand", NEW digest \in Digests
    PROVE  LET q == Turn(p, digest)
           IN  /\ PartyInv(q)
               /\ q.pc \in {"expand", "ok"} /\ q.mode = p.mode /\ q.seed = p.seed /\ q.sk = p.sk
               /\ q.draws = Append(p.draws, digest)
<1> DEFINE more == WithCandidate(p.primes, Raw(digest))
           x == Expanded(p, digest)
           q == Turn(p, digest)
           draws == Append(p.draws, digest)
<1>1. /\ Shaped(p) /\ p.seed # NoSeed /\ GoodSoFar(p.primes) /\ Len(p.primes) < NAPQES_KEY_COUNT
      /\ p.mode \in Modes /\ p.draws \in Seq(Nat) /\ p.primes \in Seq(Nat) /\ digest \in Nat
  BY KeyEstablishAssumption DEF PartyInv, Shaped
<1>2. GoodSoFar(more) /\ Len(more) \in {Len(p.primes), Len(p.primes) + 1}
  BY <1>1, RawInInterval, CandidateGood
<1>3. more \in Seq(Nat) /\ Len(more) <= NAPQES_KEY_COUNT
  BY <1>1, <1>2, KeyEstablishAssumption, KeyBounds DEF GoodSoFar
<1>4. x = [p EXCEPT !.draws = draws, !.primes = more]
  BY DEF Expanded, WithCandidate, Raw
<1>5. /\ draws \in Seq(Nat) /\ Len(draws) = Len(p.draws) + 1 /\ Len(p.draws) \in Nat
      /\ draws[Len(p.draws) + 1] = digest
      /\ \A i \in 1 .. Len(p.draws) : draws[i] = p.draws[i]
  BY <1>1
<1> HIDE DEF more, x, q, draws
<1>6. /\ Shaped(x) /\ x.pc = "expand" /\ x.mode = p.mode /\ x.seed = p.seed /\ x.sk = p.sk
      /\ x.draws = draws /\ x.primes = more
  BY <1>1, <1>3, <1>4, <1>5 DEF Shaped, PartyInv
<1>7. \/ Len(more) < NAPQES_KEY_COUNT /\ q = x
      \/ Len(more) = NAPQES_KEY_COUNT /\ q = [x EXCEPT !.pc = "ok"]
  <2>1. CASE Len(more) < NAPQES_KEY_COUNT
    BY <1>6, <2>1 DEF Turn, x, q
  <2>2. CASE ~ (Len(more) < NAPQES_KEY_COUNT)
    <3>1. Len(more) = NAPQES_KEY_COUNT
      BY <1>3, <2>2, KeyEstablishAssumption, KeyBounds
    <3>2. validate_key(x.primes)
      BY <1>2, <1>6, <3>1, GoodIsValid, KeyEstablishAssumption
    <3> QED  BY <1>6, <2>2, <3>1, <3>2 DEF Turn, x, q
  <2> QED  BY <2>1, <2>2
<1>8. /\ Shaped(q) /\ q.pc \in {"expand", "ok"} /\ q.mode = p.mode /\ q.seed = p.seed /\ q.sk = p.sk
      /\ q.draws = draws /\ q.primes = more
      /\ q.pc = "ok" => Len(more) = NAPQES_KEY_COUNT
      /\ q.pc = "expand" => Len(more) < NAPQES_KEY_COUNT
  BY <1>6, <1>7 DEF Shaped
<1>9. \E h : Chain(h, q)
  <2>1. PICK g : Chain(g, p)
    BY DEF PartyInv
  <2> DEFINE n == Len(p.draws)
             h == [i \in 0 .. (n + 1) |-> IF i <= n THEN g[i] ELSE more]
  <2>2. /\ g[0] = <<>> /\ g[n] = p.primes
        /\ \A i \in 1 .. n : g[i] = WithCandidate(g[i - 1], Raw(p.draws[i]))
        /\ \A i \in 0 .. (n - 1) : Len(g[i]) < NAPQES_KEY_COUNT
    BY <2>1 DEF Chain
  <2>3. n \in Nat
    BY <1>5
  <2> HIDE DEF n
  <2>4. h[n + 1] = more /\ \A i \in 0 .. n : h[i] = g[i]
    BY <2>3
  <2> HIDE DEF h
  <2>5. \A i \in 1 .. (n + 1) : h[i] = WithCandidate(h[i - 1], Raw(draws[i]))
    <3> TAKE i \in 1 .. (n + 1)
    <3>1. CASE i = n + 1
      <4>1. h[i - 1] = p.primes /\ draws[i] = digest
        BY <1>5, <2>2, <2>3, <2>4, <3>1 DEF n
      <4> QED  BY <2>4, <3>1, <4>1 DEF more
    <3>2. CASE i # n + 1
      <4>1. i \in 1 .. n /\ i \in 0 .. n /\ i - 1 \in 0 .. n
        BY <2>3, <3>2
      <4>2. draws[i] = p.draws[i]
        BY <1>5, <4>1 DEF n
      <4> QED  BY <2>2, <2>4, <4>1, <4>2
    <3> QED  BY <3>1, <3>2
  <2>6. \A i \in 0 .. n : Len(h[i]) < NAPQES_KEY_COUNT
    <3> TAKE i \in 0 .. n
    <3>1. i = n \/ i \in 0 .. (n - 1)
      BY <2>3
    <3> QED  BY <1>1, <2>2, <2>4, <3>1
  <2>7. Len(q.draws) = n + 1 /\ h[0] = <<>> /\ (n + 1) - 1 = n
    BY <1>5, <1>8, <2>2, <2>3, <2>4 DEF n
  <2> QED  BY <1>8, <2>4, <2>5, <2>6, <2>7 DEF Chain
<1>10. PartyInv(q)
  BY <1>1, <1>2, <1>8, <1>9 DEF PartyInv
<1> QED
  BY <1>8, <1>10 DEF q, draws

-----------------------------------------------------------------------------
(* What a party starts from *)

SenderStart(mode, pk) ==
    LET ct == FrodoEncapsulate(pk.pq)
        ss == FrodoSecret(ct, "encapsulation")
    IN  IF ~WellSized(pk, mode) THEN Failed(mode)
        ELSE IF mode # "hybrid" THEN FrodoParty(mode, ss)
        ELSE HybridParty(ss, diffie_hellman("ephemeral", pk.ec),
                         hybrid_transcript(pk.pq, ct, pk.ec, Point("ephemeral")))

RecipientStart(mode, ct) ==
    LET ss == FrodoDecapsulate(ct.pq, "recipient") IN
    IF ~WellSized(ct, mode) THEN Failed(mode)
    ELSE IF mode # "hybrid" THEN FrodoParty(mode, ss)
    ELSE HybridParty(ss, diffie_hellman("static", ct.ec),
                     hybrid_transcript("recipient", ct.pq, Point("static"), ct.ec))

Sealed(mode, pk) ==
    [pq |-> FrodoEncapsulate(pk.pq), ec |-> IF mode = "hybrid" THEN Point("ephemeral") ELSE Absent,
     size |-> "whole"]

EcParts == [point : {"none", "static", "ephemeral", "other", "small"}, enc : {"none", "canonical", "alias"}]
Sizes == {"none", "whole", "cut"}
PublicKeyBlobs == [pq : {"none", "recipient", "other"}, ec : EcParts, size : Sizes]
CiphertextBlobs == [pq : [to : {"none", "recipient", "other"}, altered : BOOLEAN], ec : EcParts, size : Sizes]

\* A derived seed is never the value that stands for none.
LEMMA SeedsAreSeeds ==
    ASSUME NEW ss, NEW dh, NEW transcript
    PROVE  FrodoSeed(ss) # NoSeed /\ HybridSeed(ss, dh, transcript) # NoSeed
  BY DEF FrodoSeed, HybridSeed, NoSeed, Hkdf

\* The derivations are told apart by their salts and bind what they are given.
LEMMA SeedsBind ==
    ASSUME NEW s1, NEW s2, NEW d1, NEW d2, NEW t1, NEW t2
    PROVE  /\ FrodoSeed(s1) # HybridSeed(s2, d2, t2)
           /\ FrodoSeed(s1) = FrodoSeed(s2) => s1 = s2
           /\ HybridSeed(s1, d1, t1) = HybridSeed(s2, d2, t2) => s1 = s2 /\ t1 = t2
<1>1. FrodoSeed(s1) # HybridSeed(s2, d2, t2)
  BY DEF FrodoSeed, HybridSeed, Hkdf
<1>2. ASSUME FrodoSeed(s1) = FrodoSeed(s2) PROVE s1 = s2
  <2>1. FrodoSeed(s1).ikm = <<s1>> /\ FrodoSeed(s2).ikm = <<s2>>
    BY DEF FrodoSeed, Hkdf
  <2> QED  BY <1>2, <2>1
<1>3. ASSUME HybridSeed(s1, d1, t1) = HybridSeed(s2, d2, t2) PROVE s1 = s2 /\ t1 = t2
  <2>1. /\ HybridSeed(s1, d1, t1).ikm = <<s1, d1>> /\ HybridSeed(s2, d2, t2).ikm = <<s2, d2>>
        /\ HybridSeed(s1, d1, t1).info = t1 /\ HybridSeed(s2, d2, t2).info = t2
    BY DEF HybridSeed, Hkdf
  <2> QED  BY <1>3, <2>1
<1> QED  BY <1>1, <1>2, <1>3

LEMMA TranscriptsBind ==
    ASSUME NEW a1, NEW b1, NEW c1, NEW d1, NEW a2, NEW b2, NEW c2, NEW d2,
           hybrid_transcript(a1, b1, c1, d1) = hybrid_transcript(a2, b2, c2, d2)
    PROVE  a1 = a2 /\ b1 = b2 /\ c1 = c2 /\ d1 = d2
  BY DEF hybrid_transcript

LEMMA SecretsBind ==
    ASSUME NEW c1, NEW c2, NEW sk, FrodoSecret(c1, "encapsulation") = FrodoDecapsulate(c2, sk)
    PROVE  c1 = c2 /\ c2.to = sk /\ ~ c2.altered
<1> DEFINE from == IF c2.to = sk /\ ~ c2.altered THEN "encapsulation" ELSE "rejection"
<1>1. FrodoSecret(c1, "encapsulation") = FrodoSecret(c2, from)
  BY DEF FrodoDecapsulate
<1>2. /\ FrodoSecret(c1, "encapsulation").ct = c1 /\ FrodoSecret(c2, from).ct = c2
      /\ FrodoSecret(c1, "encapsulation").from = "encapsulation" /\ FrodoSecret(c2, from).from = from
  BY DEF FrodoSecret
<1> QED  BY <1>1, <1>2

LEMMA StartsAreStarts ==
    ASSUME NEW mode \in Modes, NEW ss, NEW dh, NEW transcript
    PROVE  /\ PartyInv(Failed(mode)) /\ Failed(mode).pc = "err" /\ Failed(mode).mode = mode
           /\ Failed(mode).draws = <<>>
           /\ LET p == FrodoParty(mode, ss)
              IN  /\ PartyInv(p) /\ p.pc = "expand" /\ p.mode = mode /\ p.seed = FrodoSeed(ss)
                  /\ p.draws = <<>>
           /\ LET p == HybridParty(ss, dh, transcript)
              IN  /\ PartyInv(p) /\ p.mode = "hybrid" /\ p.draws = <<>>
                  /\ dh = {} => p.pc = "err"
                  /\ dh # {} => p.pc = "expand" /\ p.seed = HybridSeed(ss, dh, transcript)
<1>1. "hybrid" \in Modes
  BY DEF Modes
<1>2. \A m \in Modes : /\ PartyInv(Failed(m)) /\ Failed(m).pc = "err" /\ Failed(m).mode = m
                       /\ Failed(m).draws = <<>>
  BY PartyIdle, PartyFields DEF Failed
<1>3. LET p == FrodoParty(mode, ss)
      IN  /\ PartyInv(p) /\ p.pc = "expand" /\ p.mode = mode /\ p.seed = FrodoSeed(ss)
          /\ p.draws = <<>>
  BY SeedsAreSeeds, PartyStarts, PartyFields DEF FrodoParty
<1>4. CASE dh = {}
  BY <1>1, <1>2, <1>3, <1>4 DEF HybridParty
<1>5. CASE dh # {}
  <2>1. HybridParty(ss, dh, transcript) =
          Party("expand", "hybrid", HybridSeed(ss, dh, transcript), NoSeed)
    BY <1>5 DEF HybridParty
  <2> QED  BY <1>1, <1>2, <1>3, <1>5, <2>1, SeedsAreSeeds, PartyStarts, PartyFields
<1> QED  BY <1>4, <1>5

LEMMA SenderStarts ==
    ASSUME NEW mode \in Modes, NEW pk
    PROVE  LET s == SenderStart(mode, pk)
           IN  PartyInv(s) /\ s.pc \in {"expand", "err"} /\ s.mode = mode /\ s.draws = <<>>
<1>1. CASE SenderStart(mode, pk) = Failed(mode)
  BY <1>1, StartsAreStarts
<1>2. CASE \E ss : SenderStart(mode, pk) = FrodoParty(mode, ss)
  <2>1. PICK ss : SenderStart(mode, pk) = FrodoParty(mode, ss)
    BY <1>2
  <2> QED  BY <2>1, StartsAreStarts
<1>3. CASE mode = "hybrid" /\ \E ss, dh, transcript : SenderStart(mode, pk) = HybridParty(ss, dh, transcript)
  <2>1. PICK ss, dh, transcript : SenderStart(mode, pk) = HybridParty(ss, dh, transcript)
    BY <1>3
  <2>2. /\ PartyInv(HybridParty(ss, dh, transcript)) /\ HybridParty(ss, dh, transcript).mode = "hybrid"
        /\ HybridParty(ss, dh, transcript).draws = <<>>
        /\ HybridParty(ss, dh, transcript).pc \in {"expand", "err"}
    BY StartsAreStarts
  <2> QED  BY <1>3, <2>1, <2>2
<1> QED
  BY <1>1, <1>2, <1>3, Zenon DEF SenderStart

LEMMA RecipientStarts ==
    ASSUME NEW mode \in Modes, NEW ct
    PROVE  LET s == RecipientStart(mode, ct)
           IN  PartyInv(s) /\ s.pc \in {"expand", "err"} /\ s.mode = mode /\ s.draws = <<>>
<1>1. CASE RecipientStart(mode, ct) = Failed(mode)
  BY <1>1, StartsAreStarts
<1>2. CASE \E ss : RecipientStart(mode, ct) = FrodoParty(mode, ss)
  <2>1. PICK ss : RecipientStart(mode, ct) = FrodoParty(mode, ss)
    BY <1>2
  <2> QED  BY <2>1, StartsAreStarts
<1>3. CASE mode = "hybrid" /\ \E ss, dh, transcript : RecipientStart(mode, ct) = HybridParty(ss, dh, transcript)
  <2>1. PICK ss, dh, transcript : RecipientStart(mode, ct) = HybridParty(ss, dh, transcript)
    BY <1>3
  <2>2. /\ PartyInv(HybridParty(ss, dh, transcript)) /\ HybridParty(ss, dh, transcript).mode = "hybrid"
        /\ HybridParty(ss, dh, transcript).draws = <<>>
        /\ HybridParty(ss, dh, transcript).pc \in {"expand", "err"}
    BY StartsAreStarts
  <2> QED  BY <1>3, <2>1, <2>2
<1> QED
  BY <1>1, <1>2, <1>3, Zenon DEF RecipientStart

LEMMA BlobsTyped ==
    /\ \A mode \in Modes : PublicKeys(mode) \subseteq PublicKeyBlobs
    /\ \A ct \in CiphertextBlobs : Arrivals(ct) \subseteq CiphertextBlobs
    /\ \A mode \in Modes, pk \in PublicKeyBlobs : Sealed(mode, pk) \in CiphertextBlobs
    /\ NoBlob \in CiphertextBlobs /\ NoPublicKey \in PublicKeyBlobs
<1>1. /\ Absent \in EcParts /\ [point |-> "static", enc |-> "alias"] \in EcParts
      /\ [point |-> "ephemeral", enc |-> "alias"] \in EcParts
      /\ \A p \in {"static", "ephemeral", "other", "small"} : Point(p) \in EcParts
  BY DEF Absent, Point, EcParts
<1>2. ASSUME NEW mode \in Modes PROVE PublicKeys(mode) \subseteq PublicKeyBlobs
  <2>1. OwnPublicKey(mode) \in PublicKeyBlobs
    BY <1>1 DEF OwnPublicKey, PublicKeyBlobs, Sizes
  <2>2. \A own \in PublicKeyBlobs : /\ [own EXCEPT !.pq = "other"] \in PublicKeyBlobs
                                    /\ [own EXCEPT !.size = "cut"] \in PublicKeyBlobs
                                    /\ \A e \in EcParts : [own EXCEPT !.ec = e] \in PublicKeyBlobs
    BY DEF PublicKeyBlobs, Sizes
  <2> QED  BY <1>1, <2>1, <2>2 DEF PublicKeys, Otherwise
<1>3. ASSUME NEW ct \in CiphertextBlobs PROVE Arrivals(ct) \subseteq CiphertextBlobs
  <2>1. /\ [ct EXCEPT !.pq.altered = TRUE] \in CiphertextBlobs
        /\ [ct EXCEPT !.size = "cut"] \in CiphertextBlobs
        /\ \A e \in EcParts : [ct EXCEPT !.ec = e] \in CiphertextBlobs
    BY DEF CiphertextBlobs, Sizes
  <2>2. [ct EXCEPT !.ec = IF @ = Absent THEN Point("other") ELSE Absent] \in CiphertextBlobs
    BY <1>1, <2>1
  <2> QED  BY <1>1, <2>1, <2>2 DEF Arrivals, Otherwise
<1>4. ASSUME NEW mode \in Modes, NEW pk \in PublicKeyBlobs PROVE Sealed(mode, pk) \in CiphertextBlobs
  BY <1>1 DEF Sealed, FrodoEncapsulate, CiphertextBlobs, PublicKeyBlobs, Sizes
<1>5. NoBlob \in CiphertextBlobs /\ NoPublicKey \in PublicKeyBlobs
  BY <1>1 DEF NoBlob, NoCt, NoPublicKey, CiphertextBlobs, PublicKeyBlobs, Sizes
<1> QED  BY <1>2, <1>3, <1>4, <1>5

\* To its own public key, and with the ciphertext as sent, the recipient starts
\* where the sender did.
LEMMA UntouchedStarts ==
    ASSUME NEW mode \in Modes
    PROVE  /\ SenderStart(mode, OwnPublicKey(mode)).pc = "expand"
           /\ RecipientStart(mode, Sealed(mode, OwnPublicKey(mode))) = SenderStart(mode, OwnPublicKey(mode))
<1> DEFINE pk == OwnPublicKey(mode)
           ct == FrodoEncapsulate("recipient")
           ss == FrodoSecret(ct, "encapsulation")
           dh == {"ephemeral", "static"}
           transcript == hybrid_transcript("recipient", ct, Point("static"), Point("ephemeral"))
           start == IF mode # "hybrid" THEN FrodoParty(mode, ss) ELSE HybridParty(ss, dh, transcript)
<1>1. pk.pq = "recipient" /\ WellSized(pk, mode) /\ (mode = "hybrid" => pk.ec = Point("static"))
  BY DEF OwnPublicKey, WellSized, Absent, Point
<1>2. LET c == Sealed(mode, pk)
      IN  c.pq = ct /\ WellSized(c, mode) /\ (mode = "hybrid" => c.ec = Point("ephemeral"))
  BY <1>1 DEF Sealed, WellSized, Absent, Point
<1>3. /\ diffie_hellman("ephemeral", Point("static")) = dh
      /\ diffie_hellman("static", Point("ephemeral")) = dh
  BY DEF diffie_hellman, Point
<1>4. FrodoDecapsulate(ct, "recipient") = ss
  BY DEF FrodoDecapsulate, FrodoEncapsulate
<1> HIDE DEF pk, ct, ss, dh, transcript
<1>5. SenderStart(mode, pk) = start
  BY <1>1, <1>3 DEF SenderStart, ss, ct, transcript
<1>6. RecipientStart(mode, Sealed(mode, pk)) = start
  BY <1>2, <1>3, <1>4 DEF RecipientStart, transcript
<1>7. dh # {}
  BY DEF dh
<1>8. start.pc = "expand"
  BY <1>7, StartsAreStarts
<1> QED  BY <1>5, <1>6, <1>8 DEF pk

\* Equal seeds: the sender used the recipient's own public key and the recipient
\* got what was sent, in the same kind of exchange.
LEMMA EqualSeedsBind ==
    ASSUME NEW m1 \in Modes, NEW m2 \in Modes, NEW pk \in PublicKeyBlobs, NEW ct \in CiphertextBlobs,
           SenderStart(m1, pk).pc = "expand", RecipientStart(m2, ct).pc = "expand",
           SenderStart(m1, pk).seed = RecipientStart(m2, ct).seed
    PROVE  (m1 = "hybrid" <=> m2 = "hybrid") /\ pk = OwnPublicKey(m1) /\ ct = Sealed(m1, pk)
<1> DEFINE c1 == FrodoEncapsulate(pk.pq)
           ss1 == FrodoSecret(c1, "encapsulation")
           ss2 == FrodoDecapsulate(ct.pq, "recipient")
           dh1 == diffie_hellman("ephemeral", pk.ec)
           dh2 == diffie_hellman("static", ct.ec)
           t1 == hybrid_transcript(pk.pq, c1, pk.ec, Point("ephemeral"))
           t2 == hybrid_transcript("recipient", ct.pq, Point("static"), ct.ec)
<1> HIDE DEF c1, ss1, ss2, dh1, dh2, t1, t2
<1>1. \A m \in Modes : Failed(m).pc # "expand"
  BY StartsAreStarts
<1>2. WellSized(pk, m1) /\ WellSized(ct, m2)
  BY <1>1 DEF SenderStart, RecipientStart
<1>3. SenderStart(m1, pk) = IF m1 # "hybrid" THEN FrodoParty(m1, ss1) ELSE HybridParty(ss1, dh1, t1)
  BY <1>2 DEF SenderStart, c1, ss1, dh1, t1
<1>4. RecipientStart(m2, ct) = IF m2 # "hybrid" THEN FrodoParty(m2, ss2) ELSE HybridParty(ss2, dh2, t2)
  BY <1>2 DEF RecipientStart, ss2, dh2, t2
<1>5. /\ m1 # "hybrid" => SenderStart(m1, pk).seed = FrodoSeed(ss1)
      /\ m1 = "hybrid" => SenderStart(m1, pk).seed = HybridSeed(ss1, dh1, t1)
  <2>1. FrodoParty(m1, ss1).seed = FrodoSeed(ss1)
    BY PartyFields DEF FrodoParty
  <2>2. HybridParty(ss1, dh1, t1).pc = "expand" => HybridParty(ss1, dh1, t1).seed = HybridSeed(ss1, dh1, t1)
    BY StartsAreStarts
  <2> QED  BY <1>3, <2>1, <2>2
<1>6. /\ m2 # "hybrid" => RecipientStart(m2, ct).seed = FrodoSeed(ss2)
      /\ m2 = "hybrid" => RecipientStart(m2, ct).seed = HybridSeed(ss2, dh2, t2)
  <2>1. FrodoParty(m2, ss2).seed = FrodoSeed(ss2)
    BY PartyFields DEF FrodoParty
  <2>2. HybridParty(ss2, dh2, t2).pc = "expand" => HybridParty(ss2, dh2, t2).seed = HybridSeed(ss2, dh2, t2)
    BY StartsAreStarts
  <2> QED  BY <1>4, <2>1, <2>2
<1>7. m1 = "hybrid" <=> m2 = "hybrid"
  BY <1>5, <1>6, SeedsBind
<1>8. ss1 = ss2
  BY <1>5, <1>6, <1>7, SeedsBind
<1>9. c1 = ct.pq /\ ct.pq.to = "recipient"
  BY <1>8, SecretsBind DEF ss1, ss2
<1>10. pk.pq = "recipient"
  BY <1>9 DEF c1, FrodoEncapsulate
<1>11. ASSUME m1 = "hybrid" PROVE pk.ec = Point("static") /\ ct.ec = Point("ephemeral")
  <2>1. t1 = t2
    BY <1>5, <1>6, <1>7, <1>11, SeedsBind
  <2> QED  BY <2>1, TranscriptsBind DEF t1, t2
<1>12. ASSUME m1 # "hybrid" PROVE pk.ec = Absent /\ ct.ec = Absent
  BY <1>2, <1>7, <1>12 DEF WellSized
<1>13. pk.size = "whole" /\ ct.size = "whole"
  BY <1>2 DEF WellSized
<1>14. pk = OwnPublicKey(m1)
  BY <1>10, <1>11, <1>12, <1>13 DEF OwnPublicKey, PublicKeyBlobs
<1>15. ct = Sealed(m1, pk)
  BY <1>9, <1>11, <1>12, <1>13 DEF Sealed, CiphertextBlobs, c1
<1> QED  BY <1>7, <1>14, <1>15

-----------------------------------------------------------------------------
(* The inductive invariant *)

QueryInv == query.pc = "done" => query.n \in Nat /\ (query.prime <=> is_prime(query.n))

SenderBegun ==
    /\ publicKey \in PublicKeyBlobs /\ sent \in CiphertextBlobs
    /\ sender.pc = "idle" => publicKey = NoPublicKey
    /\ sender.pc # "idle" =>
         LET s == SenderStart(sender.mode, publicKey)
         IN  /\ sender.seed = s.seed /\ sender.sk = s.sk /\ (sender.pc = "err" <=> s.pc = "err")
             /\ s.pc # "err" => sent = Sealed(sender.mode, publicKey)

RecipientBegun ==
    /\ received \in CiphertextBlobs
    /\ recipient.pc # "idle" =>
         LET s == RecipientStart(recipient.mode, received)
         IN  recipient.seed = s.seed /\ recipient.sk = s.sk /\ (recipient.pc = "err" <=> s.pc = "err")

\* Parties with one seed see one sequence of digests, each as far as it got.
SameDigests ==
    sender.seed = recipient.seed =>
        \A i \in 1 .. Len(sender.draws) : i <= Len(recipient.draws) => sender.draws[i] = recipient.draws[i]

ExchangeInv ==
    /\ PartyInv(sender)
    /\ PartyInv(recipient)
    /\ SenderBegun
    /\ RecipientBegun
    /\ SameDigests

Inv ==
    /\ QueryInv
    /\ GenInv
    /\ ExchangeInv

LEMMA InvInit == ASSUME Init PROVE Inv
<1>1. QueryInv
  BY DEF Init, QueryInv
<1>2. "frodo" \in Modes
  BY DEF Modes
<1>3. LET p == Party("idle", "frodo", NoSeed, NoSeed) IN PartyInv(p) /\ p.pc = "idle" /\ p.draws = <<>>
  BY <1>2, PartyIdle, PartyFields
<1>4. PartyInv(sender) /\ PartyInv(recipient) /\ sender.pc = "idle" /\ recipient.pc = "idle" /\ sender.draws = <<>>
  BY <1>3 DEF Init
<1>5. publicKey = NoPublicKey /\ sent = NoBlob /\ received = NoBlob
  BY DEF Init
<1>6. SenderBegun /\ RecipientBegun
  BY <1>4, <1>5, BlobsTyped DEF SenderBegun, RecipientBegun
<1>7. SameDigests
  BY <1>4 DEF SameDigests
<1> QED  BY <1>1, <1>4, <1>6, <1>7, GenInit DEF Inv, ExchangeInv

LEMMA EncapsulateStep ==
    ASSUME ExchangeInv, NEW mode \in Modes, NEW view \in Modes, NEW pk \in PublicKeys(view), Encapsulate(mode, pk)
    PROVE  ExchangeInv'
<1> DEFINE s == SenderStart(mode, pk)
<1>1. sender' = s /\ publicKey' = pk /\ recipient' = recipient /\ received' = received
  BY DEF Encapsulate, SenderStart
<1>2. sent' = IF sender'.pc = "err" THEN NoBlob ELSE Sealed(mode, pk)
  BY DEF Encapsulate, Sealed
<1>3. PartyInv(s) /\ s.pc \in {"expand", "err"} /\ s.mode = mode /\ s.draws = <<>>
  BY SenderStarts
<1>4. pk \in PublicKeyBlobs /\ Sealed(mode, pk) \in CiphertextBlobs /\ NoBlob \in CiphertextBlobs
  BY BlobsTyped
<1> HIDE DEF s
<1>5. SenderBegun'
  <2>1. /\ publicKey' \in PublicKeyBlobs /\ sent' \in CiphertextBlobs /\ sender'.pc # "idle"
        /\ sender'.mode = mode /\ SenderStart(sender'.mode, publicKey') = sender'
        /\ sender'.pc # "err" => sent' = Sealed(sender'.mode, publicKey')
    BY <1>1, <1>2, <1>3, <1>4 DEF s
  <2> QED  BY <2>1 DEF SenderBegun
<1>6. SameDigests'
  <2>1. sender'.draws = <<>>
    BY <1>1, <1>3
  <2> QED  BY <2>1 DEF SameDigests
<1>7. PartyInv(sender)' /\ PartyInv(recipient)' /\ RecipientBegun'
  <2>1. PartyInv(sender') /\ PartyInv(recipient')
    BY <1>1, <1>3 DEF ExchangeInv
  <2>2. RecipientBegun'
    BY <1>1 DEF ExchangeInv, RecipientBegun
  <2> QED  BY <2>1, <2>2
<1> QED  BY <1>5, <1>6, <1>7 DEF ExchangeInv

LEMMA DecapsulateStep ==
    ASSUME ExchangeInv, NEW mode \in Modes, NEW ct \in Arrivals(sent), Decapsulate(mode, ct)
    PROVE  ExchangeInv'
<1> DEFINE s == RecipientStart(mode, ct)
<1>1. recipient' = s /\ received' = ct /\ sender' = sender /\ publicKey' = publicKey /\ sent' = sent
  BY DEF Decapsulate, RecipientStart
<1>2. PartyInv(s) /\ s.pc \in {"expand", "err"} /\ s.mode = mode /\ s.draws = <<>>
  BY RecipientStarts
<1>3. ct \in CiphertextBlobs
  BY BlobsTyped DEF ExchangeInv, SenderBegun
<1> HIDE DEF s
<1>4. RecipientBegun'
  <2>1. /\ received' \in CiphertextBlobs /\ RecipientStart(recipient'.mode, received') = recipient'
    BY <1>1, <1>2, <1>3 DEF s
  <2> QED  BY <2>1 DEF RecipientBegun
<1>5. SameDigests'
  <2>1. recipient'.draws = <<>>
    BY <1>1, <1>2
  <2>2. sender'.draws \in Seq(Nat)
    BY <1>1 DEF ExchangeInv, PartyInv, Shaped
  <2> QED  BY <2>1, <2>2 DEF SameDigests
<1>6. PartyInv(sender') /\ PartyInv(recipient')
  BY <1>1, <1>2 DEF ExchangeInv
<1>7. SenderBegun'
  BY <1>1 DEF ExchangeInv, SenderBegun
<1> QED  BY <1>4, <1>5, <1>6, <1>7 DEF ExchangeInv

LEMMA SenderExpandStep ==
    ASSUME ExchangeInv, NEW digest \in Digests, SenderExpand(digest)
    PROVE  ExchangeInv'
<1>1. /\ sender' = Turn(sender, digest) /\ sender.pc = "expand" /\ PartyInv(sender)
      /\ publicKey' = publicKey /\ sent' = sent /\ recipient' = recipient /\ received' = received
  BY DEF SenderExpand, ExchangeInv
<1>2. /\ PartyInv(sender') /\ sender'.pc \in {"expand", "ok"} /\ sender'.mode = sender.mode
      /\ sender'.seed = sender.seed /\ sender'.sk = sender.sk
      /\ sender'.draws = Append(sender.draws, digest)
  BY <1>1, TurnStep
<1>3. SenderBegun'
  BY <1>1, <1>2 DEF ExchangeInv, SenderBegun
<1>4. RecipientBegun' /\ PartyInv(recipient')
  BY <1>1 DEF ExchangeInv, RecipientBegun
<1>5. SameDigests'
  <2> SUFFICES ASSUME sender.seed = recipient.seed, NEW i \in 1 .. Len(sender'.draws), i <= Len(recipient.draws)
               PROVE  sender'.draws[i] = recipient.draws[i]
    BY <1>1, <1>2 DEF SameDigests
  <2>1. sender.draws \in Seq(Nat) /\ digest \in Nat
    BY KeyEstablishAssumption DEF ExchangeInv, PartyInv, Shaped
  <2>2. CASE i = Len(sender.draws) + 1
    <3>1. digest = recipient.draws[i]
      BY <2>2 DEF SenderExpand, Consistent
    <3> QED  BY <1>2, <2>1, <2>2, <3>1
  <2>3. CASE i # Len(sender.draws) + 1
    <3>1. i \in 1 .. Len(sender.draws) /\ sender'.draws[i] = sender.draws[i]
      BY <1>2, <2>1, <2>3
    <3> QED  BY <3>1 DEF ExchangeInv, SameDigests
  <2> QED  BY <2>2, <2>3
<1> QED  BY <1>2, <1>3, <1>4, <1>5 DEF ExchangeInv

LEMMA RecipientExpandStep ==
    ASSUME ExchangeInv, NEW digest \in Digests, RecipientExpand(digest)
    PROVE  ExchangeInv'
<1>1. /\ recipient' = Turn(recipient, digest) /\ recipient.pc = "expand" /\ PartyInv(recipient)
      /\ publicKey' = publicKey /\ sent' = sent /\ sender' = sender /\ received' = received
  BY DEF RecipientExpand, ExchangeInv
<1>2. /\ PartyInv(recipient') /\ recipient'.pc \in {"expand", "ok"} /\ recipient'.mode = recipient.mode
      /\ recipient'.seed = recipient.seed /\ recipient'.sk = recipient.sk
      /\ recipient'.draws = Append(recipient.draws, digest)
  BY <1>1, TurnStep
<1>3. RecipientBegun'
  BY <1>1, <1>2 DEF ExchangeInv, RecipientBegun
<1>4. SenderBegun' /\ PartyInv(sender')
  BY <1>1 DEF ExchangeInv, SenderBegun
<1>5. SameDigests'
  <2> SUFFICES ASSUME sender.seed = recipient.seed, NEW i \in 1 .. Len(sender.draws), i <= Len(recipient'.draws)
               PROVE  sender.draws[i] = recipient'.draws[i]
    BY <1>1, <1>2 DEF SameDigests
  <2>1. recipient.draws \in Seq(Nat) /\ sender.draws \in Seq(Nat) /\ digest \in Nat
    BY KeyEstablishAssumption DEF ExchangeInv, PartyInv, Shaped
  <2>2. CASE i = Len(recipient.draws) + 1
    <3>1. i <= Len(sender.draws)
      BY <2>1
    <3>2. digest = sender.draws[i]
      BY <2>2, <3>1 DEF RecipientExpand, Consistent
    <3> QED  BY <1>2, <2>1, <2>2, <3>2
  <2>3. CASE i # Len(recipient.draws) + 1
    <3>1. i \in 1 .. Len(recipient.draws) /\ recipient'.draws[i] = recipient.draws[i]
      BY <1>2, <2>1, <2>3
    <3> QED  BY <3>1 DEF ExchangeInv, SameDigests
  <2> QED  BY <2>2, <2>3
<1> QED  BY <1>2, <1>3, <1>4, <1>5 DEF ExchangeInv

LEMMA InvStep == ASSUME Inv, [Next]_vars PROVE Inv'
<1>1. ASSUME UNCHANGED exchange, ExchangeInv PROVE ExchangeInv'
  BY <1>1 DEF exchange, ExchangeInv, SenderBegun, RecipientBegun, SameDigests
<1>2. ASSUME UNCHANGED gen, GenInv PROVE GenInv'
  BY <1>2 DEF GenInv
<1>3. ASSUME UNCHANGED query, QueryInv PROVE QueryInv'
  BY <1>3 DEF QueryInv
<1>4. QueryInv /\ GenInv /\ ExchangeInv
  BY DEF Inv
<1>5. ASSUME NEW n \in Probes, Classify(n) PROVE Inv'
  <2>1. n \in Nat /\ query' = [pc |-> "done", n |-> n, prime |-> is_prime(n)]
    BY <1>5, KeyEstablishAssumption DEF Classify
  <2>2. QueryInv'
    BY <2>1 DEF QueryInv
  <2> QED  BY <1>1, <1>2, <1>4, <1>5, <2>2 DEF Inv, Classify
<1>6. ASSUME NEW count \in Counts, NEW range \in Ranges, Generate(count, range[1], range[2]) PROVE Inv'
  <2>1. UNCHANGED <<query, exchange>>
    BY <1>6 DEF Generate
  <2> QED  BY <1>1, <1>3, <1>4, <1>6, <2>1, GenerateStep DEF Inv
<1>7. ASSUME NEW num \in gen.min .. gen.max, Draw(num) PROVE Inv'
  <2>1. UNCHANGED <<query, exchange>>
    BY <1>7 DEF Draw
  <2> QED  BY <1>1, <1>3, <1>4, <1>7, <2>1, DrawStep DEF Inv
<1>8. ASSUME NEW mode \in Modes, NEW view \in Modes, NEW pk \in PublicKeys(view), Encapsulate(mode, pk) PROVE Inv'
  <2>1. UNCHANGED <<query, gen>>
    BY <1>8 DEF Encapsulate
  <2> QED  BY <1>2, <1>3, <1>4, <1>8, <2>1, EncapsulateStep DEF Inv
<1>9. ASSUME NEW mode \in Modes, NEW ct \in Arrivals(sent), Decapsulate(mode, ct) PROVE Inv'
  <2>1. UNCHANGED <<query, gen>>
    BY <1>9 DEF Decapsulate
  <2> QED  BY <1>2, <1>3, <1>4, <1>9, <2>1, DecapsulateStep DEF Inv
<1>10. ASSUME NEW digest \in Digests, SenderExpand(digest) PROVE Inv'
  <2>1. UNCHANGED <<query, gen>>
    BY <1>10 DEF SenderExpand
  <2> QED  BY <1>2, <1>3, <1>4, <1>10, <2>1, SenderExpandStep DEF Inv
<1>11. ASSUME NEW digest \in Digests, RecipientExpand(digest) PROVE Inv'
  <2>1. UNCHANGED <<query, gen>>
    BY <1>11 DEF RecipientExpand
  <2> QED  BY <1>2, <1>3, <1>4, <1>11, <2>1, RecipientExpandStep DEF Inv
<1>12. ASSUME UNCHANGED vars PROVE Inv'
  <2>1. UNCHANGED <<query, gen, exchange>>
    BY <1>12 DEF vars, exchange
  <2> QED  BY <1>1, <1>2, <1>3, <1>4, <2>1 DEF Inv
<1> QED
  BY <1>5, <1>6, <1>7, <1>8, <1>9, <1>10, <1>11, <1>12 DEF Next, Generation

\* The inductive invariant: a generation that runs or succeeded holds distinct
\* primes of the interval, a party's primes are the ones its digests lead to, its
\* seed is the one its view of the exchange leads to, and equal seeds see equal
\* digests (generate_prime_numbers, encapsulate*, decapsulate*,
\* expand_seed_to_primes).
THEOREM KeyInvariant == Spec => []Inv
<1>1. Init => Inv
  BY InvInit
<1>2. Inv /\ [Next]_vars => Inv'
  BY InvStep
<1> QED  BY <1>1, <1>2, PTL DEF Spec

\* Every answer of is_prime is exact, whatever it is asked.
THEOREM PrimalityIsExact == Spec => []PrimalityExact
<1>1. Inv => PrimalityExact
  BY IsPrimeExact DEF Inv, QueryInv, PrimalityExact
<1> QED  BY <1>1, KeyInvariant, PTL

\* Every tuple generate_prime_numbers or expand_seed_to_primes hands out passes
\* validate_key, for every interval, count and sequence of draws.
THEOREM KeysAreGood == Spec => []KeysGood
<1>1. ASSUME Inv PROVE KeysGood
  <2>1. gen.pc = "ok" => GoodKey(gen.primes) /\ validate_key(gen.primes)
    BY <1>1, GoodIsValid DEF Inv, GenInv
  <2>2. ASSUME NEW p, PartyInv(p)
        PROVE  p.pc = "ok" => GoodKey(p.primes)
    BY <2>2, GoodIsValid, KeyEstablishAssumption DEF PartyInv
  <2>3. PartyInv(sender) /\ PartyInv(recipient)
    BY <1>1 DEF Inv, ExchangeInv
  <2> QED  BY <2>1, <2>2, <2>3 DEF KeysGood
<1> QED  BY <1>1, KeyInvariant, PTL

\* Two parties that expanded the same digests to whole tuples stopped at the same
\* digest, so they have the same tuple.
LEMMA SameTuple ==
    ASSUME NEW p, NEW q, PartyInv(p), PartyInv(q), p.pc = "ok", q.pc = "ok", Len(p.draws) <= Len(q.draws),
           \A i \in 1 .. Len(p.draws) : p.draws[i] = q.draws[i]
    PROVE  p.primes = q.primes
<1> DEFINE n == Len(p.draws)
           m == Len(q.draws)
<1>1. n \in Nat /\ m \in Nat /\ Len(p.primes) = NAPQES_KEY_COUNT
  BY DEF PartyInv, Shaped
<1>2. PICK g, h : Chain(g, p) /\ Chain(h, q)
  BY DEF PartyInv
<1>3. \A i \in 0 .. n : g[i] = h[i]
  BY <1>1, <1>2, ChainsAgree
<1>4. g[n] = p.primes /\ h[m] = q.primes /\ (\A i \in 0 .. (m - 1) : Len(h[i]) < NAPQES_KEY_COUNT)
  BY <1>2 DEF Chain
<1>5. n <= m
  OBVIOUS
<1> HIDE DEF n, m
<1>6. n \in 0 .. n /\ (n = m \/ n \in 0 .. (m - 1)) /\ ~(NAPQES_KEY_COUNT < NAPQES_KEY_COUNT)
  BY <1>1, <1>5, KeyEstablishAssumption, KeyBounds
<1> QED  BY <1>1, <1>3, <1>4, <1>6

\* Both sides of an exchange nobody touched succeed, with the same tuple and the
\* same sk, whatever the digests (encapsulate*, decapsulate*, expand_seed_to_primes).
THEOREM UntouchedExchangeAgrees == Spec => []UntouchedAgree
<1>1. ASSUME Inv PROVE UntouchedAgree
  <2> DEFINE mode == sender.mode
  <2> SUFFICES ASSUME mode = recipient.mode, publicKey = OwnPublicKey(mode), received = sent
               PROVE  /\ "err" \notin {sender.pc, recipient.pc}
                      /\ sender.pc = "ok" /\ recipient.pc = "ok" =>
                           sender.primes = recipient.primes /\ sender.sk = recipient.sk
    BY DEF UntouchedAgree
  <2>1. PartyInv(sender) /\ PartyInv(recipient) /\ SenderBegun /\ RecipientBegun /\ SameDigests
    BY <1>1 DEF Inv, ExchangeInv
  <2>2. mode \in Modes
    BY <2>1 DEF PartyInv, Shaped
  <2>3. sender.pc # "idle"
    <3>1. OwnPublicKey(mode).size # NoPublicKey.size
      BY DEF OwnPublicKey, NoPublicKey
    <3> QED  BY <2>1, <3>1 DEF SenderBegun
  <2>4. /\ SenderStart(mode, publicKey).pc = "expand"
        /\ RecipientStart(mode, Sealed(mode, publicKey)) = SenderStart(mode, publicKey)
    BY <2>2, UntouchedStarts
  <2>5. /\ sender.pc # "err" /\ received = Sealed(mode, publicKey)
        /\ sender.seed = SenderStart(mode, publicKey).seed /\ sender.sk = SenderStart(mode, publicKey).sk
    BY <2>1, <2>3, <2>4 DEF SenderBegun
  <2>6. CASE recipient.pc = "idle"
    BY <2>5, <2>6
  <2>7. CASE recipient.pc # "idle"
    <3>1. recipient.pc # "err" /\ recipient.seed = sender.seed /\ recipient.sk = sender.sk
      BY <2>1, <2>4, <2>5, <2>7 DEF RecipientBegun
    <3>2. ASSUME sender.pc = "ok", recipient.pc = "ok" PROVE sender.primes = recipient.primes
      <4>1. Len(sender.draws) \in Nat /\ Len(recipient.draws) \in Nat
        BY <2>1 DEF PartyInv, Shaped
      <4>2. \A i \in 1 .. Len(sender.draws) : i <= Len(recipient.draws) => sender.draws[i] = recipient.draws[i]
        BY <2>1, <3>1 DEF SameDigests
      <4>3. CASE Len(sender.draws) <= Len(recipient.draws)
        <5>1. \A i \in 1 .. Len(sender.draws) : sender.draws[i] = recipient.draws[i]
          BY <4>1, <4>2, <4>3
        <5> QED  BY <2>1, <3>2, <4>3, <5>1, SameTuple
      <4>4. CASE ~(Len(sender.draws) <= Len(recipient.draws))
        <5>1. /\ Len(recipient.draws) <= Len(sender.draws)
              /\ \A i \in 1 .. Len(recipient.draws) : recipient.draws[i] = sender.draws[i]
          BY <4>1, <4>2, <4>4
        <5> QED  BY <2>1, <3>2, <5>1, SameTuple
      <4> QED  BY <4>3, <4>4
    <3> QED  BY <2>5, <3>1, <3>2
  <2> QED  BY <2>6, <2>7
<1> QED  BY <1>1, KeyInvariant, PTL

\* Equal seeds mean one exchange, seen by both: the same kind, the recipient's own
\* public key, the ciphertext as sent (hybrid_transcript, the HKDF salts).
THEOREM AgreementBinds == Spec => []AgreementBindsExchange
<1>1. ASSUME Inv PROVE AgreementBindsExchange
  <2> SUFFICES ASSUME sender.seed = recipient.seed, sender.seed # NoSeed
               PROVE  /\ sender.mode = "hybrid" <=> recipient.mode = "hybrid"
                      /\ publicKey = OwnPublicKey(sender.mode)
                      /\ received = sent
    BY DEF AgreementBindsExchange
  <2>1. PartyInv(sender) /\ PartyInv(recipient) /\ SenderBegun /\ RecipientBegun
    BY <1>1 DEF Inv, ExchangeInv
  <2>2. /\ sender.pc \notin {"idle", "err"} /\ recipient.pc \notin {"idle", "err"}
        /\ sender.mode \in Modes /\ recipient.mode \in Modes
    BY <2>1 DEF PartyInv, Shaped
  <2>3. /\ SenderStart(sender.mode, publicKey).pc = "expand"
        /\ RecipientStart(recipient.mode, received).pc = "expand"
        /\ SenderStart(sender.mode, publicKey).seed = RecipientStart(recipient.mode, received).seed
        /\ sent = Sealed(sender.mode, publicKey)
    BY <2>1, <2>2, SenderStarts, RecipientStarts DEF SenderBegun, RecipientBegun
  <2>4. publicKey \in PublicKeyBlobs /\ received \in CiphertextBlobs
    BY <2>1 DEF SenderBegun, RecipientBegun
  <2> QED  BY <2>2, <2>3, <2>4, EqualSeedsBind
<1> QED  BY <1>1, KeyInvariant, PTL
=============================================================================
