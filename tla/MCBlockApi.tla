----------------------------- MODULE MCBlockApi ------------------------------
(* Model-checking instance of BlockApi: primes 5 to 13, elements modulo 16. *)
EXTENDS BlockApi

\* Good tuples of one, three and four elements, of which the last two agree on
\* the first three; then one HMAC key with one of them (a zero more, 16 more),
\* and tuples that are empty, too long, reordered, repeated, composite or 1.
MCKeyTuples ==
    {<<5>>, <<5, 7, 11>>, <<5, 7, 11, 13>>,
     <<5, 0>>, <<21>>, <<5, 7, 11, 0>>, <<5, 23, 11>>,
     <<>>, <<5, 7, 11, 13, 0>>, <<7, 5, 11>>, <<5, 5>>, <<9>>, <<1>>}

MCAads == {<<>>, <<Byte(66)>>, <<Byte(66), Byte(67)>>, <<Byte(66), Byte(67), Byte(68)>>}

\* ASCII, U+00E9, U+03C0, a surrogate, and too long.
MCTexts == {<<>>, <<67>>, <<66, 67>>, <<233>>, <<960>>, <<55296>>, <<66, 66, 66, 66>>}
=============================================================================
