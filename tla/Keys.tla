-------------------------------- MODULE Keys --------------------------------
(***************************************************************************)
(* The NAPQES key tuple (rust/src/lib.rs): primality by trial division and *)
(* the two key policies, the normative one every encryptor and every v8    *)
(* call applies and the relaxed one of the v7 decryptors.                  *)
(***************************************************************************)
EXTENDS Integers, Sequences

CONSTANTS
    MIN_KEY_PRIME, MAX_KEY_PRIME,   \* the normative interval
    MAX_SERIALISABLE_KEY_PRIME,     \* what five bytes hold
    MAX_KEY_ELEMENTS

ASSUME KeyBounds ==
    /\ {MIN_KEY_PRIME, MAX_KEY_PRIME, MAX_SERIALISABLE_KEY_PRIME, MAX_KEY_ELEMENTS} \subseteq Nat
    /\ 2 <= MIN_KEY_PRIME
    /\ MAX_KEY_PRIME <= MAX_SERIALISABLE_KEY_PRIME

(* Primality *)

Root(n) == CHOOSE r \in 0 .. n : r * r <= n /\ (r + 1) * (r + 1) > n

\* (n as f64).sqrt() as u64.  Above 2^52 the float is off by one either way;
\* here it is low for a third of the numbers, the squares of primes among
\* them, and high for another third.  CorrectedRoot does not depend on it.
F64Sqrt(n) == Root(n) + (CASE n % 3 = 0 -> 0 [] n % 3 = 1 -> -1 [] n % 3 = 2 -> 1)

\* The largest root up to the estimate: it is lowered while its square exceeds n.
Lowered(n, guess) == CHOOSE r \in 0 .. guess : r * r <= n /\ (r < guess => (r + 1) * (r + 1) > n)

\* An estimate is lowered, then raised while the next square does not exceed n.
CorrectedRoot(n, guess) ==
    LET lowered == Lowered(n, guess)
    IN  CHOOSE r \in lowered .. n : (r + 1) * (r + 1) > n /\ (r > lowered => r * r <= n)

\* Fault: an estimate that is too low is not corrected.
isqrt_lowered(n) == Lowered(n, F64Sqrt(n))

isqrt_u64(n) == CorrectedRoot(n, F64Sqrt(n))

SMALL_ODD_PRIMES == {3, 5, 7, 11, 13, 17, 19, 23, 29, 31, 37, 41, 43, 47, 53}

is_prime(n) ==
    /\ n >= 2
    /\ n % 2 = 0 => n = 2
    /\ (\E p \in SMALL_ODD_PRIMES : n % p = 0) => n \in SMALL_ODD_PRIMES
    /\ \A i \in 59 .. isqrt_u64(n) : i % 2 = 1 => n % i # 0

\* The definition is_prime is to meet.
Prime(n) == n >= 2 /\ \A d \in 2 .. (n - 1) : n % d # 0

(* Key policies *)

Distinct(key) == \A i, j \in DOMAIN key : key[i] = key[j] => i = j

validate_key(key) ==
    /\ Len(key) \in 1 .. MAX_KEY_ELEMENTS
    /\ \A i \in DOMAIN key :
         /\ key[i] \in MIN_KEY_PRIME .. MAX_KEY_PRIME
         /\ key[i] <= MAX_SERIALISABLE_KEY_PRIME
         /\ is_prime(key[i])
    /\ Distinct(key)

validate_key_v7_decrypt(key) ==
    /\ Len(key) \in 1 .. MAX_KEY_ELEMENTS
    /\ \A i \in DOMAIN key : key[i] \in 2 .. MAX_SERIALISABLE_KEY_PRIME
    /\ Distinct(key)
=============================================================================
