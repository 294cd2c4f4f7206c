---------------------------- MODULE SlotLease ----------------------------
(***************************************************************************)
(* What the claim and heartbeat protocol promises: a slot is leased to one *)
(* pod at a time, and only a slot that nobody leases is granted.  A lease  *)
(* never passes from one running pod straight to another.                  *)
(***************************************************************************)
CONSTANTS Pods, Slots, NoPod

VARIABLE holder    \* the pod that leases a slot, or NoPod

Init == holder = [s \in Slots |-> NoPod]

\* Pod p is granted the free slots S.
Grant(p, S) ==
    /\ \A s \in S : holder[s] = NoPod
    /\ holder' = [s \in Slots |-> IF s \in S THEN p ELSE holder[s]]

\* The leases of the slots S end.
Surrender(S) == holder' = [s \in Slots |-> IF s \in S THEN NoPod ELSE holder[s]]

Next ==
    \/ \E p \in Pods, S \in SUBSET Slots : Grant(p, S)
    \/ \E S \in SUBSET Slots : Surrender(S)

Spec == Init /\ [][Next]_holder
=============================================================================
