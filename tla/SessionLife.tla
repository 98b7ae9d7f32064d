---------------------------- MODULE SessionLife ----------------------------
(***************************************************************************)
(* What SessionService promises of a session id, without Redis, requests   *)
(* or time: it is unborn, then live, then ended, and an ended session      *)
(* stays ended. A live session may become contested: a removal met a       *)
(* write-back of the same session, and nothing is promised of it any more. *)
(***************************************************************************)
CONSTANT Sids
VARIABLE life

Init == life = [s \in Sids |-> "unborn"]

Create(s) ==
  /\ life[s] = "unborn"
  /\ life' = [life EXCEPT ![s] = "live"]

\* A logout, an invalidation, or the expiry of several sessions at once.
End(S, C) ==
  /\ \A s \in S \cup C : life[s] = "live"
  /\ life' = [s \in Sids |-> IF s \in C THEN "contested"
                             ELSE IF s \in S THEN "ended" ELSE life[s]]

Next == \/ \E s \in Sids : Create(s)
        \/ \E S, C \in SUBSET Sids : End(S, C)

Spec == Init /\ [][Next]_life
=============================================================================
