----------------------------- MODULE MCAccounts -----------------------------
(* Accounts with two overlapping calls.                                    *)
EXTENDS Accounts, TLC

Symmetry == Permutations(Tasks)
=============================================================================
