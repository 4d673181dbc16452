---------------------------- MODULE MCScheduler ----------------------------
\* Workers are interchangeable: what each is asked to run is chosen by Init.
EXTENDS Scheduler, TLC

Symmetry == Permutations(Workers)
=============================================================================
