------------------------------- MODULE MCTeam -------------------------------
(***************************************************************************)
(* Team for TLC.                                                           *)
(***************************************************************************)
EXTENDS Team, TLC

NameSymmetry == Permutations(Name)
=============================================================================
