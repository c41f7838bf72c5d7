-------------------------------- MODULE MCPmm --------------------------------
(* Memory maps for Pmm, with pages of two bytes.                             *)
EXTENDS Pmm

\* One region; regions with unaligned borders and a reserved hole; a bitmap
\* that finds no room to grow; a hole that one page of bitmap does not cover
Movable == {<< [base |-> 0, length |-> 26, type |-> 1] >>,
            << [base |-> 0, length |-> 19, type |-> 1],
               [base |-> 19, length |-> 4, type |-> 2],
               [base |-> 23, length |-> 5, type |-> 1] >>,
            << [base |-> 0, length |-> 8, type |-> 1],
               [base |-> 18, length |-> 4, type |-> 2] >>,
            << [base |-> 0, length |-> 20, type |-> 1],
               [base |-> 42, length |-> 2, type |-> 1] >>}
=============================================================================
