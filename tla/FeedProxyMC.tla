------------------------------- MODULE FeedProxyMC -------------------------------
(* Symmetries of FeedProxy's constants, for TLC. *)
EXTENDS FeedProxy, TLC

FeedSymmetry == Permutations(Clients) \cup Permutations(Keys)
=================================================================================
