----------------------------- MODULE MCClientApp -----------------------------
(***************************************************************************)
(* Small instances of ClientApp for TLC.                                   *)
(***************************************************************************)
EXTENDS ClientApp, TLC

AllFaultsHappen == AllFaults
StopOnly == {"stop"}
RunSymmetry == Permutations(Clients) \cup Permutations(Tokens)
=============================================================================
