------------------------------ MODULE MCKernel ------------------------------
(* Instances of the kernel for TLC.                                        *)
EXTENDS KernelRefinement, TLC

\* Every semaphore starts empty.
\* Created tasks are alike: only first_task is told apart, by Creators.
TaskSymmetry == Permutations(OtherTasks)

NoUnits == [s \in SemId |-> 0]
=============================================================================
