----------------------------- MODULE MCAccounts -----------------------------
(* Accounts for TLC: the slots that serve requests, the user ids, the      *)
(* emails and the sessions are interchangeable.                            *)
EXTENDS Accounts, TLC

Symmetry == Permutations(Requests) \cup Permutations(Users)
              \cup Permutations(Emails) \cup Permutations(Sids)
=============================================================================
