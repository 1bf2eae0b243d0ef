------------------------------ MODULE MCBootSync ------------------------------
(* BootSync on small instances: see the .cfg files for the sizes. *)
EXTENDS BootSync, TLC
MCGens == 1 .. MaxGen
\* Two scripts do the same things.
ScriptSymmetry == Permutations(Scripts)
=============================================================================
