-------------------------------- MODULE MCVmm --------------------------------
(***************************************************************************)
(* Directories and tables of two entries.  The kernel's two pages lie in   *)
(* two tables; page 5 is page 1 but for the bits that the macros drop, and *)
(* frame 3 is frame 1.                                                     *)
(***************************************************************************)
EXTENDS Vmm, TLC

MCFlags == {[rw |-> 0, user |-> 1]}

Blocks == Permutations(Directories) \cup Permutations(Tables)

=============================================================================
