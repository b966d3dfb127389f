--------------------------- MODULE MCPostPublishing ---------------------------
(***************************************************************************)
(* Instances of PostPublishing for TLC: channels are interchangeable, and  *)
(* so are the goroutines of one kind.                                      *)
(***************************************************************************)
EXTENDS PostPublishing, TLC

Symmetry == Permutations(Channels) \cup Permutations(Workers)
               \cup Permutations(Schedulers) \cup Permutations(Cancellers)
===============================================================================
