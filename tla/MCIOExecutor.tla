---------------------------- MODULE MCIOExecutor ----------------------------
(* Model-checking instances of IOExecutor.  The .cfg files choose how many *)
(* operations, jobs and timers user code may start.                        *)
EXTENDS IOExecutor, TLC

\* Operations, jobs and timers are interchangeable (safety runs only).
Symmetry == Permutations(Ops) \cup Permutations(Jobs) \cup Permutations(Timers)

\* A configuration file has no negative numbers.
MCDelays == -1..1
=============================================================================
