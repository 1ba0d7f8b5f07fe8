----------------------------- MODULE MCAccounts -----------------------------
(* Accounts on a small instance; requests of a kind are interchangeable.    *)
EXTENDS Accounts, TLC

CONSTANTS g1, g2, l1, l2, l3, o1, o2

RequestSymmetry ==
    Permutations(Registrations) \union Permutations(Logins) \union Permutations(Logouts)
=============================================================================
