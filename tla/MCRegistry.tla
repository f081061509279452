----------------------------- MODULE MCRegistry -----------------------------
(***************************************************************************)
(* Instances of Registry for TLC: two threads, two controllers.            *)
(***************************************************************************)
EXTENDS Registry, TLC

CONSTANTS t1, t2, c1, c2

\* Register files smaller than their page of three bytes, as all of the
\* repository's are: the last byte of the page is nobody's.
Sizes == c1 :> 2 @@ c2 :> 2

\* With register files of one size the controllers are interchangeable.
Symmetry == Permutations(Threads) \cup Permutations(Controllers)
=============================================================================
