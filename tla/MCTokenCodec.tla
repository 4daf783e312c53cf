---------------------------- MODULE MCTokenCodec ----------------------------
(* A model-checking instance of TokenCodec: two primes, every profile. *)
EXTENDS TokenCodec

MCPrimes == <<3, 5>>

\* Of pairwise different codepoints, up to one more than a block holds.
MCMessages == {[i \in 1..n |-> i + 1] : n \in 0..4}

MCProfiles ==
    [kind : {"bucket"}, arg : {0}]
      \cup [kind : {"coarse"}, arg : 0..3]
      \cup [kind : {"frame"}, arg : 0..5]
=============================================================================
