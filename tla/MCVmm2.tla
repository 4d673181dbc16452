------------------------------- MODULE MCVmm2 -------------------------------
(* Small instances of Vmm2 for TLC.                                        *)
EXTENDS Vmm2, TLC

\* Page numbers are only compared for equality.
Symmetry == Permutations(Pages)
=============================================================================
