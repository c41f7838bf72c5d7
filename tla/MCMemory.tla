------------------------------ MODULE MCMemory ------------------------------
(* Instances of Memory for TLC. *)
EXTENDS Memory, TLC

CONSTANTS s1, s2

\* A page, and two neighbours in different tables of the first level; the
\* guard page is the first of these
MCRanges == {<< <<0, 0, 0>> >>, << <<0, 0, 1>>, <<1, 0, 0>> >>}
MCGuards == { <<0, 0, 1>> }

\* Page maps are interchangeable
Symmetry == Permutations({s1, s2})
=============================================================================
