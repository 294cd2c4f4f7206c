---------------------------- MODULE ClaimLease ----------------------------
(***************************************************************************)
(* The distributed claim and heartbeat protocol of the gateway pods:       *)
(* internal/whatsapp/claimer.go over the statements of ConnStore, with the *)
(* calls of the manager that write a slot's row.                           *)
(*                                                                         *)
(* Time is a discrete clock.  A pod's two tickers are timers that wrap,    *)
(* each with a channel of one pending tick: a tick that finds it full is   *)
(* dropped, as in package time.  Claimer.Run is one goroutine, so while    *)
(* claimOnce brings slots up (up to MaxClaim ticks) a due heartbeat waits. *)
(* Assumed of the environment: transactions and scheduling take less than  *)
(* a tick, a claimOnce ends within MaxClaim ticks, and at most MaxMissed   *)
(* heartbeats in a row fail.                                               *)
(***************************************************************************)
EXTENDS ConnStore

CONSTANTS
    HeartbeatInterval,   \* HEARTBEAT_INTERVAL, in ticks
    ClaimInterval,       \* CLAIM_INTERVAL, in ticks
    MaxClaim,            \* longest claimOnce, in ticks
    MaxMissed            \* most heartbeats of a pod that fail in a row

ASSUME TimingAssumption ==
    /\ HeartbeatInterval \in Nat \ {0}
    /\ ClaimInterval \in Nat \ {0}
    /\ MaxClaim \in Nat
    /\ MaxMissed \in Nat

VARIABLES
    pc,          \* the claimer: "down", "idle" in select, "tx" in the claim
                 \* transaction, "bring" in the loop over the claimed slots
    held,        \* keys of Manager.conns
    batch,       \* claimed slots claimOnce has not brought up yet
    expired,     \* QR timeouts whose row is marked and whose entry is not evicted
    inserted,    \* CreateAndBring calls past CreateConnection
    marked,      \* CreateAndBring calls past SetStatus(claimed)
    hbTimer,     \* ticks since the heartbeat ticker last fired
    hbDue,       \* a tick is pending in hb.C
    missed,      \* heartbeats that failed in a row
    claimTimer,  \* ticks since the claim ticker last fired
    claimDue,    \* a tick is pending in claim.C, or the claim at startup is
    busy         \* ticks since the running claimOnce began

clocks == <<hbTimer, hbDue, missed, claimTimer, claimDue, busy>>
slots == <<held, batch, expired, inserted, marked>>
vars == <<rows, pc, held, batch, expired, inserted, marked, clocks>>

-----------------------------------------------------------------------------
Running(p) == pc[p] # "down"

\* The claim transaction that locked row s is still open.
Locked(s) == \E p \in Pods : pc[p] = "tx" /\ s \in batch[p]

\* Mutant of FreeRows: SKIP LOCKED is lost and a locked row is offered again.
FreeRowsMutant == Slots

\* Rows FOR UPDATE SKIP LOCKED does not skip.
FreeRows == {s \in Slots : ~Locked(s)}

\* Mutant of MayWrite: a statement ignores the row lock.
MayWriteMutant(s) == TRUE

\* A statement that writes row s waits for its lock.
MayWrite(s) == ~Locked(s)

\* Everything pod p does with slot s: an entry, a claim, or a creation under way.
Mine(p, s) == s \in held[p] \cup batch[p] \cup inserted[p] \cup marked[p]

\* The pod's memory is gone.
Forget(p) ==
    /\ pc' = [pc EXCEPT ![p] = "down"]
    /\ held' = [held EXCEPT ![p] = {}]
    /\ batch' = [batch EXCEPT ![p] = {}]
    /\ expired' = [expired EXCEPT ![p] = {}]
    /\ inserted' = [inserted EXCEPT ![p] = {}]
    /\ marked' = [marked EXCEPT ![p] = {}]
    /\ hbTimer' = [hbTimer EXCEPT ![p] = 0]
    /\ hbDue' = [hbDue EXCEPT ![p] = FALSE]
    /\ missed' = [missed EXCEPT ![p] = 0]
    /\ claimTimer' = [claimTimer EXCEPT ![p] = 0]
    /\ claimDue' = [claimDue EXCEPT ![p] = FALSE]
    /\ busy' = [busy EXCEPT ![p] = 0]

-----------------------------------------------------------------------------
Init ==
    /\ StoreInit
    /\ pc = [p \in Pods |-> "down"]
    /\ held = [p \in Pods |-> {}]
    /\ batch = [p \in Pods |-> {}]
    /\ expired = [p \in Pods |-> {}]
    /\ inserted = [p \in Pods |-> {}]
    /\ marked = [p \in Pods |-> {}]
    /\ hbTimer = [p \in Pods |-> 0]
    /\ hbDue = [p \in Pods |-> FALSE]
    /\ missed = [p \in Pods |-> 0]
    /\ claimTimer = [p \in Pods |-> 0]
    /\ claimDue = [p \in Pods |-> FALSE]
    /\ busy = [p \in Pods |-> 0]

\* The process starts with an empty manager; Run starts both tickers and claims
\* at once.
Start(p) ==
    /\ pc[p] = "down"
    /\ pc' = [pc EXCEPT ![p] = "idle"]
    /\ claimDue' = [claimDue EXCEPT ![p] = TRUE]
    /\ UNCHANGED <<rows, slots, hbTimer, hbDue, missed, claimTimer, busy>>

\* The process dies; an open transaction rolls back.
Crash(p) ==
    /\ Running(p)
    /\ Forget(p)
    /\ UNCHANGED rows

\* SIGTERM: the claimer's context is cancelled (an open transaction rolls back),
\* the clients are closed, ReleaseAll runs and the process exits.
Shutdown(p) ==
    /\ Running(p)
    /\ \A s \in OwnedBy(p) : \A q \in Pods \ {p} : pc[q] = "tx" => s \notin batch[q]
    /\ rows' = ReleasedRows(p)
    /\ Forget(p)

\* case <-hb.C: the statement waits for the rows it updates.
Heartbeat(p) ==
    /\ pc[p] = "idle" /\ hbDue[p]
    /\ \A s \in Beating(p) : MayWrite(s)
    /\ rows' = HeartbeatRows(p)
    /\ hbDue' = [hbDue EXCEPT ![p] = FALSE]
    /\ missed' = [missed EXCEPT ![p] = 0]
    /\ UNCHANGED <<pc, slots, hbTimer, claimTimer, claimDue, busy>>

\* The statement fails: it is logged and nothing retries before the next tick.
HeartbeatFails(p) ==
    /\ pc[p] = "idle" /\ hbDue[p]
    /\ missed[p] < MaxMissed
    /\ hbDue' = [hbDue EXCEPT ![p] = FALSE]
    /\ missed' = [missed EXCEPT ![p] = @ + 1]
    /\ UNCHANGED <<rows, pc, slots, hbTimer, claimTimer, claimDue, busy>>

\* claimOnce up to the SELECT ... FOR UPDATE SKIP LOCKED.
BeginClaim(p) ==
    /\ pc[p] = "idle" /\ claimDue[p]
    /\ \E S \in ClaimChoices(p, FreeRows) : batch' = [batch EXCEPT ![p] = S]
    /\ pc' = [pc EXCEPT ![p] = "tx"]
    /\ claimDue' = [claimDue EXCEPT ![p] = FALSE]
    /\ busy' = [busy EXCEPT ![p] = 0]
    /\ UNCHANGED <<rows, held, expired, inserted, marked, hbTimer, hbDue, missed, claimTimer>>

\* Begin or the SELECT fails: claimOnce returns.
ClaimFails(p) ==
    /\ pc[p] = "idle" /\ claimDue[p]
    /\ claimDue' = [claimDue EXCEPT ![p] = FALSE]
    /\ UNCHANGED <<rows, pc, slots, hbTimer, hbDue, missed, claimTimer, busy>>

\* The UPDATEs and the commit.
CommitClaim(p) ==
    /\ pc[p] = "tx"
    /\ rows' = ClaimedRows(p, batch[p])
    /\ pc' = [pc EXCEPT ![p] = IF batch[p] = {} THEN "idle" ELSE "bring"]
    /\ UNCHANGED <<slots, clocks>>

\* A scan, an UPDATE or the commit fails: the transaction rolls back.
AbortClaim(p) ==
    /\ pc[p] = "tx"
    /\ pc' = [pc EXCEPT ![p] = "idle"]
    /\ batch' = [batch EXCEPT ![p] = {}]
    /\ UNCHANGED <<rows, held, expired, inserted, marked, clocks>>

\* The loop of claimOnce on slot s: skipped when the pod holds it already;
\* otherwise Bring makes the entry and, when it restores a session, writes the row.
BringSlot(p, s) ==
    /\ pc[p] = "bring" /\ s \in batch[p]
    /\ batch' = [batch EXCEPT ![p] = @ \ {s}]
    /\ pc' = [pc EXCEPT ![p] = IF batch[p] = {s} THEN "idle" ELSE "bring"]
    /\ held' = [held EXCEPT ![p] = @ \cup {s}]
    /\ \/ UNCHANGED rows
       \/ s \notin held[p] /\ MayWrite(s) /\ rows' = StatusRows(s, "connected")
    /\ UNCHANGED <<expired, inserted, marked, clocks>>

\* Events Connected and PairSuccess: SetStatus(connected).
ReportConnected(p, s) ==
    /\ Running(p) /\ s \in held[p] /\ MayWrite(s)
    /\ rows' = StatusRows(s, "connected")
    /\ UNCHANGED <<pc, slots, clocks>>

\* Event LoggedOut and the operator's Disconnect: the entry stays.
ReportDisconnected(p, s) ==
    /\ Running(p) /\ s \in held[p] /\ MayWrite(s)
    /\ rows' = StatusRows(s, "disconnected")
    /\ UNCHANGED <<pc, slots, clocks>>

\* QR timeout: the row is marked first, which may fail; the error is dropped,
QrTimeout(p, s) ==
    /\ Running(p) /\ s \in held[p]
    /\ \/ MayWrite(s) /\ rows' = StatusRows(s, "disconnected")
       \/ UNCHANGED rows
    /\ expired' = [expired EXCEPT ![p] = @ \cup {s}]
    /\ UNCHANGED <<pc, held, batch, inserted, marked, clocks>>

\* and then evictConn deletes whatever entry the slot has.
Evict(p, s) ==
    /\ s \in expired[p]
    /\ expired' = [expired EXCEPT ![p] = @ \ {s}]
    /\ held' = [held EXCEPT ![p] = @ \ {s}]
    /\ UNCHANGED <<rows, pc, batch, inserted, marked, clocks>>

\* POST /connections: CreateConnection,
CreateInsert(p, s) ==
    /\ Running(p) /\ rows[s].status = "absent"
    /\ rows' = InsertedRows(s)
    /\ inserted' = [inserted EXCEPT ![p] = @ \cup {s}]
    /\ UNCHANGED <<pc, held, batch, expired, marked, clocks>>

\* SetStatus(claimed), which leaves pod_id as it is,
CreateMark(p, s) ==
    /\ s \in inserted[p] /\ MayWrite(s)
    /\ rows' = StatusRows(s, "claimed")
    /\ inserted' = [inserted EXCEPT ![p] = @ \ {s}]
    /\ marked' = [marked EXCEPT ![p] = @ \cup {s}]
    /\ UNCHANGED <<pc, held, batch, expired, clocks>>

\* (or fails, and the call returns an error,)
CreateMarkFails(p, s) ==
    /\ s \in inserted[p]
    /\ inserted' = [inserted EXCEPT ![p] = @ \ {s}]
    /\ UNCHANGED <<rows, pc, held, batch, expired, marked, clocks>>

\* and Bring, which has no session to restore and writes no row.
CreateBring(p, s) ==
    /\ s \in marked[p]
    /\ marked' = [marked EXCEPT ![p] = @ \ {s}]
    /\ held' = [held EXCEPT ![p] = @ \cup {s}]
    /\ UNCHANGED <<rows, pc, batch, expired, inserted, clocks>>

-----------------------------------------------------------------------------
\* The claimer of p has something to do before time passes.
MustRun(p) ==
    \/ pc[p] = "idle" /\ (hbDue[p] \/ claimDue[p])
    \/ pc[p] = "tx"
    \/ pc[p] = "bring" /\ busy[p] >= MaxClaim

Fires(timer, interval) == timer + 1 >= interval

\* One tick of every clock.
Tick ==
    /\ \A p \in Pods : ~MustRun(p)
    /\ rows' = AgedRows
    /\ hbTimer' = [p \in Pods |->
         IF ~Running(p) \/ Fires(hbTimer[p], HeartbeatInterval) THEN 0 ELSE hbTimer[p] + 1]
    /\ hbDue' = [p \in Pods |->
         hbDue[p] \/ (Running(p) /\ Fires(hbTimer[p], HeartbeatInterval))]
    /\ claimTimer' = [p \in Pods |->
         IF ~Running(p) \/ Fires(claimTimer[p], ClaimInterval) THEN 0 ELSE claimTimer[p] + 1]
    /\ claimDue' = [p \in Pods |->
         claimDue[p] \/ (Running(p) /\ Fires(claimTimer[p], ClaimInterval))]
    /\ busy' = [p \in Pods |-> IF pc[p] = "bring" THEN busy[p] + 1 ELSE 0]
    /\ UNCHANGED <<pc, slots, missed>>

ClaimerNext(p) ==
    \/ Start(p) \/ Crash(p) \/ Shutdown(p)
    \/ Heartbeat(p) \/ HeartbeatFails(p)
    \/ BeginClaim(p) \/ ClaimFails(p) \/ CommitClaim(p) \/ AbortClaim(p)

SlotNext(p, s) ==
    \/ BringSlot(p, s)
    \/ ReportConnected(p, s) \/ ReportDisconnected(p, s)
    \/ QrTimeout(p, s) \/ Evict(p, s)
    \/ CreateInsert(p, s) \/ CreateMark(p, s) \/ CreateMarkFails(p, s) \/ CreateBring(p, s)

Next ==
    \/ Tick
    \/ \E p \in Pods : ClaimerNext(p)
    \/ \E p \in Pods, s \in Slots : SlotNext(p, s)

Spec == Init /\ [][Next]_vars

\* The goroutines of a running pod are scheduled and time goes on, whatever comes
\* and goes in between; of the claims and heartbeats tried for ever, some succeed.
Fairness ==
    /\ SF_vars(Tick)
    /\ \A p \in Pods :
        /\ SF_vars(Heartbeat(p))
        /\ SF_vars(BeginClaim(p))
        /\ WF_vars(CommitClaim(p) \/ AbortClaim(p))
        /\ \A s \in Slots :
            /\ SF_vars(s \in batch[p] /\ CommitClaim(p))
            /\ WF_vars(BringSlot(p, s))
            /\ WF_vars(Evict(p, s))
            /\ WF_vars(CreateMark(p, s) \/ CreateMarkFails(p, s))
            /\ WF_vars(CreateBring(p, s))

FairSpec == Spec /\ Fairness

-----------------------------------------------------------------------------
\* The pod works on the slot and the row names it as an active owner.
Leased(p, s) == Running(p) /\ Mine(p, s) /\ rows[s].pod = p /\ Active(s)

\* The configuration under which heartbeats keep a lease.  With the defaults
\* (10 s, 30 s, 15 s) a claimOnce must end within 9 s, and then one heartbeat may
\* be lost.
ClaimFitsLease ==
    /\ (MaxMissed + 1) * HeartbeatInterval + MaxClaim =< Staleness
    /\ MaxClaim < HeartbeatInterval
    /\ MaxClaim < ClaimInterval

TypeOK ==
    /\ StoreTypeOK
    /\ pc \in [Pods -> {"down", "idle", "tx", "bring"}]
    /\ held \in [Pods -> SUBSET Slots]
    /\ batch \in [Pods -> SUBSET Slots]
    /\ expired \in [Pods -> SUBSET Slots]
    /\ inserted \in [Pods -> SUBSET Slots]
    /\ marked \in [Pods -> SUBSET Slots]
    /\ hbTimer \in [Pods -> 0..(HeartbeatInterval - 1)]
    /\ hbDue \in [Pods -> BOOLEAN]
    /\ missed \in [Pods -> 0..MaxMissed]
    /\ claimTimer \in [Pods -> 0..(ClaimInterval - 1)]
    /\ claimDue \in [Pods -> BOOLEAN]
    /\ busy \in [Pods -> 0..MaxClaim]

\* Open claim transactions of two pods never hold the same row ("Concurrent pods
\* will never grab the same row", store.go:90).
ClaimsDisjoint ==
    \A p, q \in Pods : p # q /\ pc[p] = "tx" /\ pc[q] = "tx" => batch[p] \cap batch[q] = {}

\* What a claim transaction read when it chose a row still holds when it commits:
\* the row lock keeps every handler, creation and heartbeat of any pod off it.
ClaimStillValid ==
    \A p \in Pods : pc[p] = "tx" => \A s \in batch[p] : Claimable(p, s)

\* A running pod's lease never looks stale to its peers, however its heartbeats
\* fall against its own claim rounds and whatever of them fail.
LeaseFresh == \A p \in Pods, s \in Slots : Leased(p, s) => ~Stale(s)

\* How long ago, at most, the claimer of p could have taken up a pending heartbeat.
Wait(p) ==
    IF pc[p] = "bring" THEN busy[p]
    ELSE IF pc[p] = "tx" \/ claimDue[p] THEN 0
    ELSE MaxClaim

\* A claim round begins when the claim ticker fires, and ends before it fires again.
ClaimClock ==
    \A p \in Pods :
        /\ pc[p] = "down" => ~hbDue[p] /\ ~claimDue[p] /\ claimTimer[p] = 0
        /\ pc[p] = "bring" => ~claimDue[p] /\ claimTimer[p] = busy[p]
        /\ pc[p] = "tx" => ~claimDue[p] /\ claimTimer[p] = 0 /\ busy[p] = 0
        /\ pc[p] = "idle" /\ claimDue[p] => claimTimer[p] = 0
        /\ batch[p] # {} => pc[p] \in {"tx", "bring"}

\* A pending heartbeat waits no longer than the claim round before it.
BeatDelay == \A p \in Pods : hbDue[p] => hbTimer[p] =< Wait(p)

\* The heartbeat ticks that pod p has let pass without a success, in time.
AgeBound(p) ==
    missed[p] * HeartbeatInterval + hbTimer[p] + IF hbDue[p] THEN HeartbeatInterval ELSE 0

\* The age of a leased row is counted by the heartbeats since it was refreshed.
LeaseAge == \A p \in Pods, s \in Slots : Leased(p, s) => rows[s].age =< AgeBound(p)

\* A pod that is down has no memory.
DownIsEmpty ==
    \A p \in Pods : ~Running(p) =>
        held[p] \cup batch[p] \cup expired[p] \cup inserted[p] \cup marked[p] = {}

\* The inductive invariant behind LeaseFresh, LeaseKept and ImplementsSlotLease.
LeaseInv ==
    /\ TypeOK /\ ClaimsDisjoint /\ ClaimStillValid
    /\ ClaimClock /\ BeatDelay /\ LeaseAge /\ DownIsEmpty

\* No step takes a row from a pod that leases it and goes on running ("keeps
\* ownership fresh so peers don't steal our slots", claimer.go:36).
LeaseKept ==
    [][\A p \in Pods, s \in Slots :
        Leased(p, s) => rows'[s].pod = p \/ pc'[p] = "down"]_vars

\* The lease as SlotLease sees it.
Holder == [s \in Slots |->
             IF \E p \in Pods : Leased(p, s) THEN rows[s].pod ELSE NoPod]

Lease == INSTANCE SlotLease WITH holder <- Holder

\* The protocol implements SlotLease: a lease ends before another pod has it.
ImplementsSlotLease == Lease!Spec

\* Once claims stop failing, a disconnected slot that no pod has an entry for is
\* brought up, however often the batch is spent on slots that come and go, unless
\* every pod goes down.
NoSlotStarves ==
    <>[][\A p \in Pods : ~ClaimFails(p) /\ (AbortClaim(p) => batch[p] = {})]_vars =>
        \A s \in Slots :
            (rows[s].status = "disconnected" /\ \A p \in Pods : s \notin held[p]) ~>
                \/ \E p \in Pods : s \in held[p]
                \/ \A p \in Pods : ~Running(p)

-----------------------------------------------------------------------------
\* What the repository says of the protocol and TLC refutes.

\* A pod that comes back under its POD_ID brings the slots that are still in its
\* name up again ("After a gateway restart the phone reconnects automatically",
\* README.md:123), unless it goes down again or a peer takes the slot.
ReconnectsAfterRestart ==
    \A p \in Pods, s \in Slots :
        (Running(p) /\ rows[s].pod = p /\ Active(s) /\ ~Mine(p, s)) ~>
            \/ ~Running(p)
            \/ rows[s].pod # p
            \/ \E q \in Pods : s \in held[q]

\* While one pod creates a slot, no other works on it ("so the claim loop doesn't
\* also grab it", manager.go:354).
CreatorAlone ==
    \A p, q \in Pods : p # q =>
        (inserted[p] \cup marked[p]) \cap (held[q] \cup IF pc[q] = "bring" THEN batch[q] ELSE {}) = {}

=============================================================================
