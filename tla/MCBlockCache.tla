---------------------------- MODULE MCBlockCache -----------------------------
(* Instances of BlockCache for TLC. *)
EXTENDS BlockCache

CONSTANTS i1, s1

\* One disk, of either driver
MCMachines == {{i1}, {s1}}

\* Reads and writes over the borders of more blocks than there are slots, and
\* over the end of the disk
MCRanges == {<<1, 4>>, <<5, 2>>}
MCBuffers(n) == {[i \in 1 .. n |-> 0], [i \in 1 .. n |-> i % 2]}
=============================================================================
