----------------------------- MODULE SessionCacheMC ------------------------------
(***************************************************************************)
(* SessionCache with threads that may be exchanged.                        *)
(***************************************************************************)
EXTENDS SessionCache, TLC

Symmetry == Permutations(Threads)
=================================================================================
