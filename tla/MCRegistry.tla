----------------------------- MODULE MCRegistry -----------------------------
(* Registry on small instances: keys and invocations are interchangeable.  *)
EXTENDS Registry, TLC

Renamings == Permutations(Keys) \cup Permutations(Admins) \cup Permutations(Builds)
=============================================================================
