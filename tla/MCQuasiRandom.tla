--------------------------- MODULE MCQuasiRandom ----------------------------
\* Words of four bits, the first rows of the table and the first primes.
EXTENDS QuasiRandom

FirstRows ==
  <<[degree |-> 1, coefficient |-> 0, initial |-> <<1>>],
    [degree |-> 2, coefficient |-> 1, initial |-> <<1, 3>>],
    [degree |-> 3, coefficient |-> 1, initial |-> <<1, 3, 1>>]>>

FirstPrimes == <<2, 3, 5>>
=============================================================================
