------------------------------- MODULE MCAuth -------------------------------
(* Auth for TLC: the slots that serve requests, the passwords and the      *)
(* users are interchangeable.                                              *)
EXTENDS Auth, TLC

Symmetry ==
  Permutations(Requests) \cup Permutations(Passwords) \cup Permutations(Users)
=============================================================================
