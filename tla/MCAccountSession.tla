---------------------------- MODULE MCAccountSession ----------------------------
(* Two pages of one browser and two accounts.                                *)
EXTENDS AccountSession, TLC

\* The pages are alike.
Pages == Permutations(Page)
=============================================================================
