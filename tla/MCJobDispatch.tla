--------------------------- MODULE MCJobDispatch ---------------------------
(* Model values and symmetry for the runs of JobDispatch.  Nothing in        *)
(* JobDispatch tells jobs apart but what happens to them (createdAt is       *)
(* state), nor machines.                                                     *)
EXTENDS JobDispatch

CONSTANTS j1, j2, m1, m2

JobSymmetry     == Permutations(Jobs)
MachineSymmetry == Permutations(Machines)
=============================================================================
