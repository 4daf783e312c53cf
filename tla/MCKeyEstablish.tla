--------------------------- MODULE MCKeyEstablish ----------------------------
(* Model-checking instance of KeyEstablish: an interval around 59 * 59. *)
EXTENDS KeyEstablish

\* Up to the first prime squares and products the trial division loop decides.
MCProbes == 0 .. 130 \cup 3460 .. 3500 \cup 3590 .. 3610 \cup 3715 .. 3730

\* Outside the interval on either side, of one number, and with two and one primes.
MCRanges == {<<3468, 3480>>, <<3478, 3492>>, <<3469, 3469>>, <<3469, 3491>>, <<3480, 3491>>}
=============================================================================
