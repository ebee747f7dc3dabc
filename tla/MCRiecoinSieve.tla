--------------------------- MODULE MCRiecoinSieve ---------------------------
(* A small sieve: 3 passes of 16 bits; 5 is dense, 7 and 11 sparse, 53 and *)
(* 59 hit at most once.  primorial 6 and offset 7 as 97 is for larger ones. *)
EXTENDS RiecoinSieve

SmallPrimes == <<5, 7, 11, 53, 59>>
Tuple == <<0, 4, 2, 4, 2, 4>>
SmallTargets == 0..120
=============================================================================
