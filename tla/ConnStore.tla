---------------------------- MODULE ConnStore ----------------------------
(***************************************************************************)
(* The table whatsapp_connections (migrations/001_init.sql) and the SQL    *)
(* statements of internal/db/store.go that read or write a slot's owner,   *)
(* status and last_seen.  A statement is an operator that returns the      *)
(* table it leaves; the modules that extend this one say who runs it and   *)
(* when.                                                                   *)
(*                                                                         *)
(* last_seen is kept as the time since it was written, in ticks, and is    *)
(* cut off one tick past the staleness window, where it no longer changes  *)
(* what a statement does; a NULL last_seen is an age at that limit, which  *)
(* the claim query treats alike.  The jid and session columns are not      *)
(* kept: no statement here tests them.                                     *)
(***************************************************************************)
EXTENDS Naturals, FiniteSets

CONSTANTS
    Pods,        \* gateway processes, by POD_ID
    Slots,       \* ids of connection slots
    NoPod,       \* a NULL pod_id
    Staleness,   \* STALENESS_WINDOW, in ticks
    BatchSize    \* CLAIM_BATCH_SIZE

ASSUME StoreAssumption ==
    /\ NoPod \notin Pods
    /\ Staleness \in Nat
    /\ BatchSize \in Nat \ {0}

VARIABLE rows    \* the table: one row per slot

Statuses == {"absent", "disconnected", "claimed", "connected"}

NeverSeen == Staleness + 1

Row == [status : Statuses, pod : Pods \cup {NoPod}, age : 0..NeverSeen]

\* A slot whose row has not been inserted.
Absent == [status |-> "absent", pod |-> NoPod, age |-> NeverSeen]

\* CreateConnection: the row as inserted.
NewRow == [status |-> "disconnected", pod |-> NoPod, age |-> NeverSeen]

-----------------------------------------------------------------------------
\* status IN ('claimed', 'connected').
Active(s) == rows[s].status \in {"claimed", "connected"}

\* Mutant of Stale: the window includes its end.
StaleMutant(s) == rows[s].age >= Staleness

\* last_seen IS NULL OR last_seen < now() - staleness.
Stale(s) == rows[s].age > Staleness

\* Mutant of Claimable: the staleness test is lost.
ClaimableMutant(p, s) ==
    \/ rows[s].status = "disconnected"
    \/ /\ rows[s].status # "absent"
       /\ rows[s].pod # p

\* The WHERE clause of the claim query run by pod p.
Claimable(p, s) ==
    \/ rows[s].status = "disconnected"
    \/ /\ rows[s].status # "absent"
       /\ rows[s].pod # p
       /\ Stale(s)

\* Mutant of ClaimChoices: ORDER BY is lost.
ClaimChoicesMutant(p, free) ==
    LET candidates == {s \in free : Claimable(p, s)}
    IN  {S \in SUBSET candidates :
            /\ S = candidates \/ Cardinality(S) = BatchSize
            /\ Cardinality(S) =< BatchSize}

\* What the claim query may return to p when the rows in "free" are not locked
\* by another transaction: ORDER BY last_seen NULLS FIRST LIMIT batch.
ClaimChoices(p, free) ==
    LET candidates == {s \in free : Claimable(p, s)}
    IN  {S \in SUBSET candidates :
            /\ S = candidates \/ Cardinality(S) = BatchSize
            /\ Cardinality(S) =< BatchSize
            /\ \A s \in S, t \in candidates \ S : rows[s].age >= rows[t].age}

-----------------------------------------------------------------------------
\* Mutant of ClaimedRows: last_seen is not refreshed.
ClaimedRowsMutant(p, S) ==
    [s \in Slots |->
        IF s \in S THEN [rows[s] EXCEPT !.status = "claimed", !.pod = p] ELSE rows[s]]

\* The UPDATE of ClaimConnections for the rows S.
ClaimedRows(p, S) ==
    [s \in Slots |->
        IF s \in S THEN [status |-> "claimed", pod |-> p, age |-> 0] ELSE rows[s]]

\* Mutant of Beating: a slot still pairing is not refreshed.
BeatingMutant(p) == {s \in Slots : rows[s].pod = p /\ rows[s].status = "connected"}

\* Mutant of HeartbeatRows: the pod_id filter is lost.
HeartbeatRowsMutant(p) ==
    [s \in Slots |-> IF Active(s) THEN [rows[s] EXCEPT !.age = 0] ELSE rows[s]]

\* The rows Heartbeat refreshes.
Beating(p) == {s \in Slots : rows[s].pod = p /\ Active(s)}

\* Heartbeat.
HeartbeatRows(p) ==
    [s \in Slots |-> IF s \in Beating(p) THEN [rows[s] EXCEPT !.age = 0] ELSE rows[s]]

\* SetStatus: by id, whoever owns the row, and the owner is left as it is.
StatusRows(s, status) ==
    [rows EXCEPT ![s] = [status |-> status, pod |-> rows[s].pod, age |-> 0]]

\* The rows ReleaseAll gives back.
OwnedBy(p) == {s \in Slots : rows[s].pod = p}

\* Mutant of ReleasedRows: the row is released under a status of its own.
ReleasedRowsMutant(p) ==
    [s \in Slots |->
        IF s \in OwnedBy(p)
        THEN [rows[s] EXCEPT !.status = "released", !.pod = NoPod]
        ELSE rows[s]]

\* ReleaseAll: last_seen is not written.
ReleasedRows(p) ==
    [s \in Slots |->
        IF s \in OwnedBy(p)
        THEN [rows[s] EXCEPT !.status = "disconnected", !.pod = NoPod]
        ELSE rows[s]]

\* CreateConnection.
InsertedRows(s) == [rows EXCEPT ![s] = NewRow]

\* One tick of now().
AgedRows ==
    [s \in Slots |->
        IF rows[s].age < NeverSeen THEN [rows[s] EXCEPT !.age = @ + 1] ELSE rows[s]]

StoreInit == rows = [s \in Slots |-> Absent]

StoreTypeOK == rows \in [Slots -> Row]
=============================================================================
