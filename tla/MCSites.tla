-------------------------------- MODULE MCSites --------------------------------
(* A small server: two hostnames, two accounts, two requests at a time.      *)
EXTENDS Sites, TLC

\* Nothing is claimed of a spoiled name, nor of what follows when all are.
SomeSound == spoiled # Names

\* A bound: a change of the row has two parts, the second while no name is spoiled.
TwoParts == \A p \in Procs : Further(p) => ~proc[p].had /\ spoiled = {}

Symmetry == Permutations(Names) \cup Permutations(Owners) \cup Permutations(Procs)
===============================================================================
