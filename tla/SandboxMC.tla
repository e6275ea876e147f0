------------------------------- MODULE SandboxMC --------------------------------
(***************************************************************************)
(* Values for the constants of SandboxEngine, and its properties.          *)
(***************************************************************************)
EXTENDS SandboxEngineProps, TLC

MCLeverage == [CNC |-> 1, MIS |-> 2, NRML |-> 1]

OrderSymmetry == Permutations(OrderIds)
=================================================================================
