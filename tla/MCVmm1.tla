------------------------------- MODULE MCVmm1 -------------------------------
\* Page numbers are only compared for equality.
EXTENDS Vmm1, TLC

Symmetry == Permutations(Pages)
=============================================================================
