---------------------------- MODULE MCRunJournal ----------------------------
(***************************************************************************)
(* RunJournal for TLC: three steps in two stages, the last one "always",   *)
(* two definitions and two workspaces.                                     *)
(***************************************************************************)
EXTENDS RunJournal, TLC

TwoStages == <<1, 1, 2>>
Inputs == Permutations(Definitions) \cup Permutations(Trees)
=============================================================================
