----------------------------- MODULE DeviceLife -----------------------------
(***************************************************************************)
(* What the panel promises of a device: once it has answered a discovery   *)
(* it stays known, and once it has a function it keeps one. Discovering it *)
(* again takes nothing back.                                               *)
(***************************************************************************)
CONSTANT Devices

VARIABLE provisionState

Init == provisionState \in [Devices -> {"unknown", "discovered", "assigned"}]

Discover(d) ==
  /\ provisionState[d] = "unknown"
  /\ provisionState' = [provisionState EXCEPT ![d] = "discovered"]

Assign(d) ==
  /\ provisionState[d] = "discovered"
  /\ provisionState' = [provisionState EXCEPT ![d] = "assigned"]

Next == \E d \in Devices : Discover(d) \/ Assign(d)

Spec == Init /\ [][Next]_provisionState
=============================================================================
