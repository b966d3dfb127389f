--------------------------- MODULE MCWorkspaceBrands ---------------------------
(* Small instances of WorkspaceBrands; the owner is a member of its own. *)
EXTENDS WorkspaceBrands, TLC

Symmetry == Permutations(Brands) \cup Permutations(Members \ {Owner})
            \cup Permutations(Granters)
================================================================================
