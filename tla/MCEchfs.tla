------------------------------- MODULE MCEchfs -------------------------------
(* Instances of Echfs for TLC. *)
EXTENDS Echfs, TLC

CONSTANTS f1, f2, h1, h2, d1, d2

\* Objects and handles are interchangeable
Symmetry == Permutations({f1, f2}) \cup Permutations({h1, h2}) \cup Permutations({d1, d2})

\* The root is read, one name is a file's and one a directory's
MCFlags == [n \in Names \cup {Root} |->
    CASE n = Root -> {{}}
      [] n \in Dirs -> {{"TRUNC", "WRITE"}}
      [] OTHER -> {{"CREAT", "WRITE", "APPEND"}, {"TRUNC", "WRITE"}}]
=============================================================================
