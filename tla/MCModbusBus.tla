------------------------------ MODULE MCModbusBus ------------------------------
(* ModbusBus for TLC: threads and slaves are interchangeable.  Only invariants are *)
(* checked with this symmetry.                                                     *)
EXTENDS ModbusBus, TLC

Symmetry == Permutations(Masters) \cup Permutations(Slaves)
=============================================================================
