------------------------ MODULE ClaimLeaseProofs ------------------------
(***************************************************************************)
(* Proofs about ClaimLease for any number of pods and slots and any        *)
(* intervals.  The theorems about leases assume ClaimFitsLease.            *)
(***************************************************************************)
EXTENDS ClaimLease, TLAPS

\* The statements of ConnStore leave a table of rows.
LEMMA StatementTypes ==
    ASSUME StoreTypeOK
    PROVE  /\ \A p \in Pods, S \in SUBSET Slots : ClaimedRows(p, S) \in [Slots -> Row]
           /\ \A p \in Pods : HeartbeatRows(p) \in [Slots -> Row]
           /\ \A s \in Slots, st \in Statuses : StatusRows(s, st) \in [Slots -> Row]
           /\ \A p \in Pods : ReleasedRows(p) \in [Slots -> Row]
           /\ \A s \in Slots : InsertedRows(s) \in [Slots -> Row]
           /\ AgedRows \in [Slots -> Row]
<1> USE StoreAssumption DEF StoreTypeOK, Row, NeverSeen, Statuses
<1>1. \A p \in Pods, S \in SUBSET Slots : ClaimedRows(p, S) \in [Slots -> Row]
    BY DEF ClaimedRows
<1>2. \A p \in Pods : HeartbeatRows(p) \in [Slots -> Row]
    BY DEF HeartbeatRows
<1>3. \A s \in Slots, st \in Statuses : StatusRows(s, st) \in [Slots -> Row]
    BY DEF StatusRows
<1>4. \A p \in Pods : ReleasedRows(p) \in [Slots -> Row]
    BY DEF ReleasedRows
<1>5. \A s \in Slots : InsertedRows(s) \in [Slots -> Row]
    BY DEF InsertedRows, NewRow
<1>6. AgedRows \in [Slots -> Row]
    BY DEF AgedRows
<1> QED
    BY <1>1, <1>2, <1>3, <1>4, <1>5, <1>6

\* The claim query returns rows that are not locked and that it may claim.
LEMMA ChoicesAreClaimable ==
    \A p \in Pods : \A S \in ClaimChoices(p, FreeRows) :
        /\ S \subseteq Slots
        /\ \A s \in S : ~Locked(s) /\ Claimable(p, s)
BY DEF ClaimChoices, FreeRows

-----------------------------------------------------------------------------
\* Every variable keeps its type; in particular a claim round never runs past
\* MaxClaim and no more than MaxMissed heartbeats fail in a row.
LEMMA TypeStep == TypeOK /\ [Next]_vars => TypeOK'
<1> SUFFICES ASSUME TypeOK, [Next]_vars PROVE TypeOK'
    OBVIOUS
<1> USE StoreAssumption, TimingAssumption DEF TypeOK
<1>1. CASE Tick
  <2>1. busy' \in [Pods -> 0..MaxClaim]
      BY <1>1 DEF Tick, MustRun
  <2>2. rows' \in [Slots -> Row]
      BY <1>1, StatementTypes DEF Tick
  <2>3. hbTimer' \in [Pods -> 0..(HeartbeatInterval - 1)]
      BY <1>1 DEF Tick, Fires
  <2>4. claimTimer' \in [Pods -> 0..(ClaimInterval - 1)]
      BY <1>1 DEF Tick, Fires
  <2> QED
      BY <1>1, <2>1, <2>2, <2>3, <2>4 DEF Tick, slots, StoreTypeOK
<1>2. ASSUME NEW p \in Pods, ClaimerNext(p) PROVE TypeOK'
  <2>1. CASE Start(p)
      BY <2>1 DEF Start, slots, StoreTypeOK
  <2>2. CASE Crash(p)
      BY <2>2 DEF Crash, Forget, StoreTypeOK
  <2>3. CASE Shutdown(p)
      BY <2>3, StatementTypes DEF Shutdown, Forget, StoreTypeOK
  <2>4. CASE Heartbeat(p)
      BY <2>4, StatementTypes DEF Heartbeat, slots, StoreTypeOK
  <2>5. CASE HeartbeatFails(p)
      BY <2>5 DEF HeartbeatFails, slots, StoreTypeOK
  <2>6. CASE BeginClaim(p)
      BY <2>6, ChoicesAreClaimable DEF BeginClaim, StoreTypeOK
  <2>7. CASE ClaimFails(p)
      BY <2>7 DEF ClaimFails, slots, StoreTypeOK
  <2>8. CASE CommitClaim(p)
      BY <2>8, StatementTypes DEF CommitClaim, slots, clocks, StoreTypeOK
  <2>9. CASE AbortClaim(p)
      BY <2>9 DEF AbortClaim, clocks, StoreTypeOK
  <2> QED
      BY <1>2, <2>1, <2>2, <2>3, <2>4, <2>5, <2>6, <2>7, <2>8, <2>9 DEF ClaimerNext
<1>3. ASSUME NEW p \in Pods, NEW s \in Slots, SlotNext(p, s) PROVE TypeOK'
  <2> USE StatementTypes DEF StoreTypeOK, slots, clocks, Statuses
  <2>1. CASE BringSlot(p, s)
      BY <2>1 DEF BringSlot
  <2>2. CASE ReportConnected(p, s)
      BY <2>2 DEF ReportConnected
  <2>3. CASE ReportDisconnected(p, s)
      BY <2>3 DEF ReportDisconnected
  <2>4. CASE QrTimeout(p, s)
      BY <2>4 DEF QrTimeout
  <2>5. CASE Evict(p, s)
      BY <2>5 DEF Evict
  <2>6. CASE CreateInsert(p, s)
      BY <2>6 DEF CreateInsert
  <2>7. CASE CreateMark(p, s)
      BY <2>7 DEF CreateMark
  <2>8. CASE CreateMarkFails(p, s)
      BY <2>8 DEF CreateMarkFails
  <2>9. CASE CreateBring(p, s)
      BY <2>9 DEF CreateBring
  <2> QED
      BY <1>3, <2>1, <2>2, <2>3, <2>4, <2>5, <2>6, <2>7, <2>8, <2>9 DEF SlotNext
<1>4. CASE UNCHANGED vars
    BY <1>4 DEF vars, clocks, StoreTypeOK
<1> QED
    BY <1>1, <1>2, <1>3, <1>4 DEF Next

\* Type correctness of the protocol.
THEOREM TypeCorrect == Spec => []TypeOK
<1>1. Init => TypeOK
    BY StoreAssumption, TimingAssumption
    DEF Init, TypeOK, StoreInit, StoreTypeOK, Row, Absent, NeverSeen, Statuses
<1> QED
    BY <1>1, TypeStep, PTL DEF Spec

-----------------------------------------------------------------------------
\* The rows of an open claim transaction are fixed, and were free and claimable
\* when it began; no two transactions begin in one step.
LockedKept ==
    \A p \in Pods : pc'[p] = "tx" =>
        IF pc[p] = "tx" THEN batch'[p] = batch[p]
        ELSE /\ \A s \in batch'[p] : s \in Slots /\ ~Locked(s) /\ Claimable(p, s)
             /\ \A q \in Pods \ {p} : pc'[q] = "tx" => pc[q] = "tx"
             /\ UNCHANGED rows

LEMMA LockStep == TypeOK /\ [Next]_vars => LockedKept
<1> SUFFICES ASSUME TypeOK, [Next]_vars PROVE LockedKept
    OBVIOUS
<1> USE DEF TypeOK, LockedKept
<1>1. CASE Tick
    BY <1>1 DEF Tick, slots
<1>2. ASSUME NEW p \in Pods, ClaimerNext(p) PROVE LockedKept
  <2>1. CASE BeginClaim(p)
    <3>1. PICK S \in ClaimChoices(p, FreeRows) : batch' = [batch EXCEPT ![p] = S]
        BY <2>1 DEF BeginClaim
    <3>2. \A q \in Pods \ {p} : pc'[q] = pc[q] /\ batch'[q] = batch[q]
        BY <2>1, <3>1 DEF BeginClaim
    <3>3. \A s \in batch'[p] : s \in Slots /\ ~Locked(s) /\ Claimable(p, s)
        BY <3>1, ChoicesAreClaimable
    <3>4. pc[p] = "idle" /\ UNCHANGED rows
        BY <2>1 DEF BeginClaim
    <3> QED
        BY <3>2, <3>3, <3>4
  <2>2. CASE ~BeginClaim(p)
      BY <1>2, <2>2 DEF ClaimerNext, Start, Crash, Shutdown, Forget, Heartbeat,
         HeartbeatFails, ClaimFails, CommitClaim, AbortClaim, slots
  <2> QED
      BY <2>1, <2>2
<1>3. ASSUME NEW p \in Pods, NEW s \in Slots, SlotNext(p, s) PROVE LockedKept
    BY <1>3 DEF SlotNext, BringSlot, ReportConnected, ReportDisconnected, QrTimeout,
       Evict, CreateInsert, CreateMark, CreateMarkFails, CreateBring, slots
<1>4. CASE UNCHANGED vars
    BY <1>4 DEF vars
<1> QED
    BY <1>1, <1>2, <1>3, <1>4 DEF Next

LEMMA DisjointStep == TypeOK /\ ClaimsDisjoint /\ [Next]_vars => ClaimsDisjoint'
<1> SUFFICES ASSUME TypeOK, ClaimsDisjoint, [Next]_vars,
                    NEW p \in Pods, NEW q \in Pods, p # q, pc'[p] = "tx", pc'[q] = "tx",
                    NEW s \in batch'[p], s \in batch'[q]
             PROVE  FALSE
    BY DEF ClaimsDisjoint
<1>1. LockedKept
    BY LockStep
<1>2. CASE pc[p] = "tx" /\ pc[q] = "tx"
    BY <1>1, <1>2 DEF LockedKept, ClaimsDisjoint
<1>3. CASE pc[p] # "tx"
    BY <1>1, <1>3 DEF LockedKept, Locked
<1>4. CASE pc[q] # "tx"
    BY <1>1, <1>4 DEF LockedKept, Locked
<1> QED
    BY <1>2, <1>3, <1>4

\* No two pods grab the same row: their open claim transactions are disjoint.
THEOREM RowsGrabbedOnce == Spec => []ClaimsDisjoint
<1>1. Init => ClaimsDisjoint
    BY DEF Init, ClaimsDisjoint
<1>2. TypeOK /\ ClaimsDisjoint /\ [Next]_vars => ClaimsDisjoint'
    BY DisjointStep
<1> QED
    BY <1>1, <1>2, TypeCorrect, PTL DEF Spec

-----------------------------------------------------------------------------
\* A step leaves the status and owner of a locked row alone, and never makes it
\* younger, unless its transaction commits.
LEMMA LockedRowStep ==
    ASSUME TypeOK, ClaimsDisjoint, [Next]_vars,
           NEW p \in Pods, pc[p] = "tx", pc'[p] = "tx", NEW s \in batch[p], ClaimStillValid
    PROVE  /\ rows'[s].status = rows[s].status
           /\ rows'[s].pod = rows[s].pod
           /\ rows'[s].age >= rows[s].age
<1> USE StoreAssumption DEF TypeOK, StoreTypeOK, Row, NeverSeen
<1>0. s \in Slots /\ Locked(s) /\ Claimable(p, s)
    BY DEF Locked, ClaimStillValid
<1>1. CASE Tick
    BY <1>0, <1>1 DEF Tick, AgedRows
<1>2. ASSUME NEW q \in Pods, ClaimerNext(q)
      PROVE  rows'[s] = rows[s]
  <2>1. CASE Start(q) \/ Crash(q) \/ HeartbeatFails(q) \/ BeginClaim(q) \/ ClaimFails(q) \/ AbortClaim(q)
      BY <2>1 DEF Start, Crash, HeartbeatFails, BeginClaim, ClaimFails, AbortClaim
  <2>2. CASE Shutdown(q)
      BY <2>2, <1>0 DEF Shutdown, Forget, ReleasedRows, OwnedBy
  <2>3. CASE Heartbeat(q)
      BY <2>3, <1>0 DEF Heartbeat, HeartbeatRows, MayWrite
  <2>4. CASE CommitClaim(q)
    <3>1. q # p
        BY <2>4 DEF CommitClaim
    <3>2. s \notin batch[q]
        BY <2>4, <3>1 DEF CommitClaim, ClaimsDisjoint
    <3> QED
        BY <2>4, <3>2, <1>0 DEF CommitClaim, ClaimedRows
  <2> QED
      BY <1>2, <2>1, <2>2, <2>3, <2>4 DEF ClaimerNext
<1>3. ASSUME NEW q \in Pods, NEW t \in Slots, SlotNext(q, t)
      PROVE  rows'[s] = rows[s]
  <2>1. CASE t = s
      BY <1>3, <2>1, <1>0 DEF SlotNext, BringSlot, ReportConnected, ReportDisconnected,
         QrTimeout, Evict, CreateInsert, CreateMark, CreateMarkFails, CreateBring,
         MayWrite, Claimable
  <2>2. CASE t # s
      BY <1>3, <2>2, <1>0 DEF SlotNext, BringSlot, ReportConnected, ReportDisconnected,
         QrTimeout, Evict, CreateInsert, CreateMark, CreateMarkFails, CreateBring,
         StatusRows, InsertedRows
  <2> QED
      BY <2>1, <2>2
<1>4. CASE UNCHANGED vars
    BY <1>0, <1>4 DEF vars
<1> QED
    BY <1>0, <1>1, <1>2, <1>3, <1>4 DEF Next

LEMMA ValidStep ==
    TypeOK /\ ClaimsDisjoint /\ ClaimStillValid /\ [Next]_vars => ClaimStillValid'
<1> SUFFICES ASSUME TypeOK, ClaimsDisjoint, ClaimStillValid, [Next]_vars,
                    NEW p \in Pods, pc'[p] = "tx", NEW s \in batch'[p]
             PROVE  Claimable(p, s)'
    BY DEF ClaimStillValid
<1>1. LockedKept
    BY LockStep
<1>2. CASE pc[p] = "tx"
  <2>1. s \in batch[p] /\ s \in Slots /\ Claimable(p, s)
      BY <1>1, <1>2 DEF LockedKept, ClaimStillValid, TypeOK
  <2>2. /\ rows'[s].status = rows[s].status
        /\ rows'[s].pod = rows[s].pod
        /\ rows'[s].age >= rows[s].age
      BY <1>2, <2>1, LockedRowStep
  <2>3. rows[s].age \in Nat /\ rows'[s].age \in Nat
      BY <2>1, TypeStep, StoreAssumption DEF TypeOK, StoreTypeOK, Row, NeverSeen
  <2> QED
      BY <2>1, <2>2, <2>3, StoreAssumption DEF Claimable, Stale
<1>3. CASE pc[p] # "tx"
    BY <1>1, <1>3 DEF LockedKept, Claimable, Stale
<1> QED
    BY <1>2, <1>3

\* A row a claim transaction has read is still claimable when it commits.
THEOREM ClaimsStayValid == Spec => []ClaimStillValid
<1>1. Init => ClaimStillValid
    BY DEF Init, ClaimStillValid
<1>2. TypeOK /\ ClaimsDisjoint /\ ClaimStillValid /\ [Next]_vars => ClaimStillValid'
    BY ValidStep
<1> QED
    BY <1>1, <1>2, TypeCorrect, RowsGrabbedOnce, PTL DEF Spec

-----------------------------------------------------------------------------
\* The clocks of a pod's claimer.
LEMMA ClockStep ==
    ASSUME ClaimFitsLease
    PROVE  TypeOK /\ ClaimClock /\ [Next]_vars => ClaimClock'
<1> SUFFICES ASSUME TypeOK, ClaimClock, [Next]_vars PROVE ClaimClock'
    OBVIOUS
<1> USE TimingAssumption DEF TypeOK, ClaimClock, ClaimFitsLease
<1>1. CASE Tick
  <2> SUFFICES ASSUME NEW p \in Pods PROVE ClaimClock!(p)'
      OBVIOUS
  <2>1. /\ claimDue'[p] = (claimDue[p] \/ (Running(p) /\ Fires(claimTimer[p], ClaimInterval)))
        /\ claimTimer'[p] = IF ~Running(p) \/ Fires(claimTimer[p], ClaimInterval) THEN 0
                             ELSE claimTimer[p] + 1
        /\ hbDue'[p] = (hbDue[p] \/ (Running(p) /\ Fires(hbTimer[p], HeartbeatInterval)))
        /\ busy'[p] = IF pc[p] = "bring" THEN busy[p] + 1 ELSE 0
        /\ pc' = pc /\ batch' = batch
      BY <1>1 DEF Tick, slots
  <2>2. ~MustRun(p)
      BY <1>1 DEF Tick
  <2>3. CASE pc[p] = "bring"
    <3>1. busy[p] + 1 =< MaxClaim
        BY <2>2, <2>3 DEF MustRun
    <3>2. ~Fires(claimTimer[p], ClaimInterval) /\ Running(p)
        BY <3>1, <2>3 DEF Fires, Running
    <3> QED
        BY <2>1, <2>3, <3>2
  <2>4. CASE pc[p] = "idle"
      BY <2>1, <2>2, <2>4 DEF MustRun
  <2>5. CASE pc[p] = "down"
      BY <2>1, <2>5 DEF Running
  <2> QED
      BY <2>2, <2>3, <2>4, <2>5 DEF MustRun
<1>2. ASSUME NEW p \in Pods, ClaimerNext(p) PROVE ClaimClock'
  <2>1. CASE Start(p)
      BY <2>1 DEF Start, slots
  <2>2. CASE Crash(p) \/ Shutdown(p)
    <3>1. Forget(p)
        BY <2>2 DEF Crash, Shutdown
    <3> QED
        BY <3>1 DEF Forget
  <2>3. CASE Heartbeat(p) \/ HeartbeatFails(p)
      BY <2>3 DEF Heartbeat, HeartbeatFails, slots
  <2>4. CASE BeginClaim(p) \/ ClaimFails(p)
      BY <2>4 DEF BeginClaim, ClaimFails, slots
  <2>5. CASE CommitClaim(p) \/ AbortClaim(p)
      BY <2>5 DEF CommitClaim, AbortClaim, slots, clocks
  <2> QED
      BY <1>2, <2>1, <2>2, <2>3, <2>4, <2>5 DEF ClaimerNext
<1>3. ASSUME NEW p \in Pods, NEW s \in Slots, SlotNext(p, s) PROVE ClaimClock'
    BY <1>3 DEF SlotNext, BringSlot, ReportConnected, ReportDisconnected, QrTimeout,
       Evict, CreateInsert, CreateMark, CreateMarkFails, CreateBring, slots, clocks
<1>4. CASE UNCHANGED vars
    BY <1>4 DEF vars, clocks
<1> QED
    BY <1>1, <1>2, <1>3, <1>4 DEF Next

\* The delay of a pending heartbeat.
LEMMA DelayStep ==
    ASSUME ClaimFitsLease
    PROVE  TypeOK /\ ClaimClock /\ BeatDelay /\ [Next]_vars => BeatDelay'
<1> SUFFICES ASSUME TypeOK, ClaimClock, BeatDelay, [Next]_vars,
                    NEW p \in Pods, hbDue'[p]
             PROVE  hbTimer'[p] =< Wait(p)'
    BY DEF BeatDelay
<1> USE TimingAssumption DEF TypeOK, ClaimFitsLease
<1>1. CASE Tick
  <2>1. /\ hbTimer'[p] = IF ~Running(p) \/ Fires(hbTimer[p], HeartbeatInterval) THEN 0
                          ELSE hbTimer[p] + 1
        /\ hbDue'[p] = (hbDue[p] \/ (Running(p) /\ Fires(hbTimer[p], HeartbeatInterval)))
        /\ busy'[p] = IF pc[p] = "bring" THEN busy[p] + 1 ELSE 0
        /\ pc'[p] = pc[p]
      BY <1>1 DEF Tick
  <2>2. ~MustRun(p) /\ pc[p] # "tx"
      BY <1>1 DEF Tick, MustRun
  <2>3. Wait(p)' \in Nat
      BY <2>1, TypeStep DEF Wait
  <2>4. CASE hbTimer'[p] = 0
      BY <2>3, <2>4
  <2>5. CASE hbTimer'[p] # 0
    <3>1. hbDue[p] /\ pc[p] = "bring"
        BY <2>1, <2>2, <2>5 DEF MustRun, ClaimClock, Running
    <3>2. hbTimer[p] =< busy[p]
        BY <3>1 DEF BeatDelay, Wait
    <3> QED
        BY <2>1, <2>5, <3>1, <3>2 DEF Wait
  <2> QED
      BY <2>4, <2>5
<1>2. ASSUME NEW q \in Pods, ClaimerNext(q) PROVE hbTimer'[p] =< Wait(p)'
  <2>1. hbDue[p] /\ hbTimer'[p] = hbTimer[p] /\ hbTimer[p] =< Wait(p)
      BY <1>2 DEF ClaimerNext, Start, Crash, Shutdown, Forget, Heartbeat, HeartbeatFails,
         BeginClaim, ClaimFails, CommitClaim, AbortClaim, slots, clocks, BeatDelay
  <2>2. pc[p] # "down"
      BY <2>1 DEF ClaimClock
  <2> QED
      BY <1>2, <2>1, <2>2 DEF ClaimerNext, Start, Crash, Shutdown, Forget, Heartbeat,
         HeartbeatFails, BeginClaim, ClaimFails, CommitClaim, AbortClaim, slots, clocks,
         Wait, ClaimClock
<1>3. ASSUME NEW q \in Pods, NEW s \in Slots, SlotNext(q, s)
      PROVE  hbTimer'[p] =< Wait(p)'
    BY <1>3 DEF SlotNext, BringSlot, ReportConnected, ReportDisconnected, QrTimeout,
       Evict, CreateInsert, CreateMark, CreateMarkFails, CreateBring, slots, clocks,
       Wait, BeatDelay, ClaimClock
<1>4. CASE UNCHANGED vars
    BY <1>4 DEF vars, clocks, Wait, BeatDelay
<1> QED
    BY <1>1, <1>2, <1>3, <1>4 DEF Next

LEMMA DownStep == TypeOK /\ DownIsEmpty /\ [Next]_vars => DownIsEmpty'
<1> SUFFICES ASSUME TypeOK, DownIsEmpty, [Next]_vars PROVE DownIsEmpty'
    OBVIOUS
<1> USE DEF TypeOK, DownIsEmpty, Running
<1>1. CASE Tick
    BY <1>1 DEF Tick, slots
<1>2. ASSUME NEW p \in Pods, ClaimerNext(p) PROVE DownIsEmpty'
    BY <1>2 DEF ClaimerNext, Start, Crash, Shutdown, Forget, Heartbeat, HeartbeatFails,
       BeginClaim, ClaimFails, CommitClaim, AbortClaim, slots
<1>3. ASSUME NEW p \in Pods, NEW s \in Slots, SlotNext(p, s) PROVE DownIsEmpty'
    BY <1>3 DEF SlotNext, BringSlot, ReportConnected, ReportDisconnected, QrTimeout,
       Evict, CreateInsert, CreateMark, CreateMarkFails, CreateBring, slots
<1>4. CASE UNCHANGED vars
    BY <1>4 DEF vars
<1> QED
    BY <1>1, <1>2, <1>3, <1>4 DEF Next

-----------------------------------------------------------------------------
LEMMA BoundType ==
    TypeOK => \A p \in Pods : missed[p] * HeartbeatInterval \in Nat /\ AgeBound(p) \in Nat
<1> SUFFICES ASSUME TypeOK, NEW p \in Pods
             PROVE  missed[p] * HeartbeatInterval \in Nat /\ AgeBound(p) \in Nat
    OBVIOUS
<1>1. missed[p] \in Nat /\ HeartbeatInterval \in Nat /\ hbTimer[p] \in Nat
    BY TimingAssumption DEF TypeOK
<1>2. missed[p] * HeartbeatInterval \in Nat
    BY <1>1
<1> QED
    BY <1>1, <1>2 DEF AgeBound

\* Under ClaimFitsLease a tick of the clock lengthens the bound by a tick.
LEMMA BoundTick ==
    ASSUME ClaimFitsLease, TypeOK, ClaimClock, BeatDelay, Tick, NEW p \in Pods, Running(p)
    PROVE  AgeBound(p)' = AgeBound(p) + 1
<1> USE TimingAssumption DEF TypeOK, ClaimFitsLease
<1>1. /\ hbTimer'[p] = IF Fires(hbTimer[p], HeartbeatInterval) THEN 0 ELSE hbTimer[p] + 1
      /\ hbDue'[p] = (hbDue[p] \/ Fires(hbTimer[p], HeartbeatInterval))
      /\ missed'[p] = missed[p]
      /\ ~MustRun(p)
    BY DEF Tick
<1>2. CASE hbDue[p]
  <2>1. pc[p] = "bring" /\ busy[p] < MaxClaim
      BY <1>1, <1>2 DEF MustRun, Running
  <2>2. hbTimer[p] + 1 < HeartbeatInterval
      BY <1>2, <2>1 DEF BeatDelay, Wait
  <2>3. hbTimer'[p] = hbTimer[p] + 1 /\ hbDue'[p]
      BY <1>1, <1>2, <2>2 DEF Fires
  <2> QED
      BY <1>1, <1>2, <2>3, BoundType DEF AgeBound
<1>3. CASE ~hbDue[p] /\ Fires(hbTimer[p], HeartbeatInterval)
  <2>1. hbTimer[p] + 1 = HeartbeatInterval
      BY <1>3 DEF Fires
  <2>2. hbTimer'[p] = 0 /\ hbDue'[p]
      BY <1>1, <1>3
  <2> QED
      BY <1>1, <1>3, <2>1, <2>2, BoundType DEF AgeBound
<1>4. CASE ~hbDue[p] /\ ~Fires(hbTimer[p], HeartbeatInterval)
  <2>1. hbTimer'[p] = hbTimer[p] + 1 /\ ~hbDue'[p]
      BY <1>1, <1>4
  <2> QED
      BY <1>1, <1>4, <2>1, BoundType DEF AgeBound
<1> QED
    BY <1>2, <1>3, <1>4

\* A lease that a step leaves behind is fresh or was there before, and then its
\* row is as it was and the bound is no smaller, unless time passed.
LEMMA LeaseOrigin ==
    ASSUME TypeOK, ClaimStillValid, DownIsEmpty, Next, ~Tick,
           NEW p \in Pods, NEW s \in Slots, Leased(p, s)'
    PROVE  \/ rows'[s].age = 0
           \/ Leased(p, s) /\ rows'[s] = rows[s] /\ AgeBound(p)' = AgeBound(p)
<1> USE StoreAssumption, TimingAssumption DEF TypeOK, StoreTypeOK, Row, Leased, Mine, Active, Running
<1>1. ASSUME NEW q \in Pods, ClaimerNext(q)
      PROVE  \/ rows'[s].age = 0
             \/ Leased(p, s) /\ rows'[s] = rows[s] /\ AgeBound(p)' = AgeBound(p)
  <2>1. CASE Start(q)
      BY <2>1 DEF Start, slots, DownIsEmpty, AgeBound
  <2>2. CASE Crash(q)
      BY <2>2 DEF Crash, Forget, AgeBound
  <2>3. CASE Shutdown(q)
    <3>1. q # p /\ s \notin OwnedBy(q)
      <4>1. q # p
          BY <2>3 DEF Shutdown, Forget
      <4>2. s \in OwnedBy(q) => rows'[s] = [rows[s] EXCEPT !.status = "disconnected", !.pod = NoPod]
          BY <2>3 DEF Shutdown, ReleasedRows
      <4>3. s \in OwnedBy(q) => rows'[s].pod = NoPod
          BY <4>2
      <4> QED
          BY <4>1, <4>3
    <3>2. rows'[s] = rows[s]
        BY <2>3, <3>1 DEF Shutdown, ReleasedRows
    <3> QED
        BY <2>3, <3>1, <3>2 DEF Shutdown, Forget, AgeBound
  <2>4. CASE Heartbeat(q)
    <3>1. CASE s \in Beating(q)
        BY <2>4, <3>1 DEF Heartbeat, HeartbeatRows
    <3>2. CASE s \notin Beating(q)
      <4>1. rows'[s] = rows[s]
          BY <2>4, <3>2 DEF Heartbeat, HeartbeatRows
      <4>2. q # p
          BY <4>1, <3>2 DEF Beating
      <4> QED
          BY <2>4, <4>1, <4>2 DEF Heartbeat, slots, AgeBound
    <3> QED
        BY <3>1, <3>2
  <2>5. CASE HeartbeatFails(q)
    <3>1. Leased(p, s) /\ rows'[s] = rows[s]
        BY <2>5 DEF HeartbeatFails, slots
    <3>2. CASE q = p
      <4>1. /\ missed'[p] = missed[p] + 1 /\ hbTimer'[p] = hbTimer[p]
            /\ hbDue[p] /\ ~hbDue'[p]
          BY <2>5, <3>2 DEF HeartbeatFails
      <4>2. missed[p] \in Nat /\ HeartbeatInterval \in Nat
          BY TimingAssumption
      <4>3. (missed[p] + 1) * HeartbeatInterval
                = missed[p] * HeartbeatInterval + HeartbeatInterval
          BY <4>2
      <4>4. hbTimer[p] \in Nat
          BY <4>2
      <4>5. /\ AgeBound(p) = missed[p] * HeartbeatInterval + hbTimer[p] + HeartbeatInterval
            /\ AgeBound(p)' = (missed[p] + 1) * HeartbeatInterval + hbTimer[p] + 0
          BY <4>1 DEF AgeBound
      <4>6. missed[p] * HeartbeatInterval \in Nat
          BY BoundType
      <4>7. AgeBound(p)' = AgeBound(p)
          BY <4>2, <4>3, <4>4, <4>5, <4>6
      <4> QED
          BY <3>1, <4>7
    <3>3. CASE q # p
        BY <2>5, <3>1, <3>3 DEF HeartbeatFails, AgeBound
    <3> QED
        BY <3>2, <3>3
  <2>6. CASE BeginClaim(q)
    <3>1. PICK S \in ClaimChoices(q, FreeRows) : batch' = [batch EXCEPT ![q] = S]
        BY <2>6 DEF BeginClaim
    <3>2. rows'[s] = rows[s]
        BY <2>6 DEF BeginClaim
    <3>3. ~(q = p /\ s \in S)
        BY <3>2, ChoicesAreClaimable DEF Claimable
    <3> QED
        BY <2>6, <3>1, <3>2, <3>3 DEF BeginClaim, AgeBound
  <2>7. CASE ClaimFails(q)
      BY <2>7 DEF ClaimFails, slots, AgeBound
  <2>8. CASE CommitClaim(q)
      BY <2>8 DEF CommitClaim, ClaimedRows, slots, clocks, AgeBound
  <2>9. CASE AbortClaim(q)
      BY <2>9 DEF AbortClaim, clocks, AgeBound
  <2> QED
      BY <1>1, <2>1, <2>2, <2>3, <2>4, <2>5, <2>6, <2>7, <2>8, <2>9 DEF ClaimerNext
<1>2. ASSUME NEW q \in Pods, NEW t \in Slots, SlotNext(q, t)
      PROVE  \/ rows'[s].age = 0
             \/ Leased(p, s) /\ rows'[s] = rows[s] /\ AgeBound(p)' = AgeBound(p)
  <2>1. AgeBound(p)' = AgeBound(p)
      BY <1>2 DEF SlotNext, BringSlot, ReportConnected, ReportDisconnected, QrTimeout,
         Evict, CreateInsert, CreateMark, CreateMarkFails, CreateBring, clocks, AgeBound
  <2>2. CASE BringSlot(q, t)
      BY <2>1, <2>2 DEF BringSlot, StatusRows
  <2>3. CASE ReportConnected(q, t) \/ ReportDisconnected(q, t) \/ QrTimeout(q, t)
      BY <2>1, <2>3 DEF ReportConnected, ReportDisconnected, QrTimeout, StatusRows, slots
  <2>4. CASE Evict(q, t)
      BY <2>1, <2>4 DEF Evict
  <2>5. CASE CreateInsert(q, t)
      BY <2>1, <2>5 DEF CreateInsert, InsertedRows, NewRow
  <2>6. CASE CreateMark(q, t)
      BY <2>1, <2>6 DEF CreateMark, StatusRows
  <2>7. CASE CreateMarkFails(q, t) \/ CreateBring(q, t)
      BY <2>1, <2>7 DEF CreateMarkFails, CreateBring
  <2> QED
      BY <1>2, <2>2, <2>3, <2>4, <2>5, <2>6, <2>7 DEF SlotNext
<1> QED
    BY <1>1, <1>2 DEF Next

LEMMA AgeStep ==
    ASSUME ClaimFitsLease
    PROVE  LeaseInv /\ [Next]_vars => LeaseAge'
<1> SUFFICES ASSUME LeaseInv, [Next]_vars, NEW p \in Pods, NEW s \in Slots, Leased(p, s)'
             PROVE  rows'[s].age =< AgeBound(p)'
    BY DEF LeaseAge
<1>0. /\ TypeOK /\ TypeOK' /\ LeaseAge /\ rows[s].age \in Nat
      /\ AgeBound(p) \in Nat /\ AgeBound(p)' \in Nat
  <2>1. TypeOK /\ TypeOK' /\ LeaseAge
      BY TypeStep DEF LeaseInv
  <2>2. AgeBound(p) \in Nat
      BY <2>1, BoundType
  <2>3. AgeBound(p)' \in Nat
    <3>1. missed'[p] \in Nat /\ hbTimer'[p] \in Nat /\ HeartbeatInterval \in Nat
        BY <2>1, TimingAssumption DEF TypeOK
    <3>2. missed'[p] * HeartbeatInterval \in Nat
        BY <3>1
    <3> QED
        BY <3>1, <3>2 DEF AgeBound
  <2>4. rows[s].age \in Nat
      BY <2>1, StoreAssumption DEF TypeOK, StoreTypeOK, Row, NeverSeen
  <2> QED
      BY <2>1, <2>2, <2>3, <2>4
<1>1. CASE Tick
  <2>1. Leased(p, s) /\ rows'[s].age =< rows[s].age + 1
      BY <1>0, <1>1 DEF Tick, slots, AgedRows, Leased, Mine, Active, Running, TypeOK,
         StoreTypeOK, Row
  <2>2. AgeBound(p)' = AgeBound(p) + 1
      BY <1>1, <2>1, BoundTick DEF LeaseInv, Leased
  <2>3. rows[s].age =< AgeBound(p)
      BY <1>0, <2>1 DEF LeaseAge
  <2>4. rows'[s].age \in Nat
      BY <1>0, StoreAssumption DEF TypeOK, StoreTypeOK, Row, NeverSeen
  <2> QED
      BY <1>0, <2>1, <2>2, <2>3, <2>4
<1>2. CASE Next /\ ~Tick
  <2>1. \/ rows'[s].age = 0
        \/ Leased(p, s) /\ rows'[s] = rows[s] /\ AgeBound(p)' = AgeBound(p)
      BY <1>0, <1>2, LeaseOrigin DEF LeaseInv
  <2> QED
      BY <1>0, <2>1 DEF LeaseAge
<1>3. CASE UNCHANGED vars
    BY <1>0, <1>3 DEF vars, clocks, LeaseAge, AgeBound, Leased, Mine, Active, Running
<1> QED
    BY <1>1, <1>2, <1>3

\* Heartbeats that are counted by AgeBound cannot let a lease look stale.
LEMMA BoundFits ==
    ASSUME ClaimFitsLease, LeaseInv
    PROVE  LeaseFresh
<1> SUFFICES ASSUME NEW p \in Pods, NEW s \in Slots, Leased(p, s) PROVE ~Stale(s)
    BY DEF LeaseFresh
<1>1. /\ missed[p] \in 0..MaxMissed /\ hbTimer[p] \in 0..(HeartbeatInterval - 1)
      /\ rows[s].age \in Nat /\ busy[p] \in 0..MaxClaim
    BY StoreAssumption DEF LeaseInv, TypeOK, StoreTypeOK, Row, NeverSeen
<1>2. missed[p] * HeartbeatInterval =< MaxMissed * HeartbeatInterval
  <2> DEFINE d == MaxMissed - missed[p]
  <2>1. d \in Nat /\ MaxMissed = missed[p] + d
      BY <1>1, TimingAssumption
  <2> HIDE DEF d
  <2>2. MaxMissed * HeartbeatInterval = missed[p] * HeartbeatInterval + d * HeartbeatInterval
      BY <1>1, <2>1, TimingAssumption
  <2>3. d * HeartbeatInterval \in Nat
      BY <2>1, TimingAssumption
  <2>4. missed[p] * HeartbeatInterval \in Nat
      BY <1>1, TimingAssumption
  <2> QED
      BY <2>2, <2>3, <2>4
<1>3. (MaxMissed + 1) * HeartbeatInterval = MaxMissed * HeartbeatInterval + HeartbeatInterval
    BY TimingAssumption
<1>4. missed[p] * HeartbeatInterval \in Nat /\ MaxMissed * HeartbeatInterval \in Nat
    BY <1>1, TimingAssumption
<1>5. rows[s].age =< AgeBound(p)
    BY DEF LeaseInv, LeaseAge
<1>6. hbDue[p] => hbTimer[p] =< MaxClaim
    BY <1>1, TimingAssumption DEF LeaseInv, BeatDelay, Wait
<1>7. AgeBound(p) =< Staleness
  <2>1. CASE hbDue[p]
      BY <1>1, <1>2, <1>3, <1>4, <1>6, <2>1, TimingAssumption, StoreAssumption
      DEF AgeBound, ClaimFitsLease
  <2>2. CASE ~hbDue[p]
      BY <1>1, <1>2, <1>3, <1>4, <2>2, TimingAssumption, StoreAssumption
      DEF AgeBound, ClaimFitsLease
  <2> QED
      BY <2>1, <2>2
<1>8. AgeBound(p) \in Nat
    BY BoundType DEF LeaseInv
<1> QED
    BY <1>1, <1>5, <1>7, <1>8, StoreAssumption DEF Stale

LEMMA LeaseInvInit == Init => LeaseInv
<1> SUFFICES ASSUME Init PROVE LeaseInv
    OBVIOUS
<1>1. TypeOK
    BY StoreAssumption, TimingAssumption
    DEF Init, TypeOK, StoreInit, StoreTypeOK, Row, Absent, NeverSeen, Statuses
<1>2. ClaimsDisjoint /\ ClaimStillValid /\ ClaimClock /\ BeatDelay /\ DownIsEmpty
    BY DEF Init, ClaimsDisjoint, ClaimStillValid, ClaimClock, BeatDelay, DownIsEmpty
<1>3. LeaseAge
    BY DEF Init, LeaseAge, Leased, Running
<1> QED
    BY <1>1, <1>2, <1>3 DEF LeaseInv

LEMMA LeaseInvStep ==
    ASSUME ClaimFitsLease
    PROVE  LeaseInv /\ [Next]_vars => LeaseInv'
BY TypeStep, DisjointStep, ValidStep, ClockStep, DelayStep, AgeStep, DownStep DEF LeaseInv

LEMMA LeaseInvHolds ==
    ASSUME ClaimFitsLease
    PROVE  Spec => []LeaseInv
<1>1. LeaseInv /\ [Next]_vars => LeaseInv'
    BY LeaseInvStep
<1> QED
    BY <1>1, LeaseInvInit, PTL DEF Spec

\* When the claim rounds fit the lease, no peer ever sees a running pod's lease as
\* stale.
THEOREM LeasesStayFresh ==
    ASSUME ClaimFitsLease
    PROVE  Spec => []LeaseFresh
<1>1. LeaseInv => LeaseFresh
    BY BoundFits
<1> QED
    BY <1>1, LeaseInvHolds, PTL

-----------------------------------------------------------------------------
\* A step leaves a lease with its pod unless the pod goes down: only a commit
\* changes an owner to another pod, and it takes no leased row.
LEMMA KeptStep ==
    ASSUME LeaseInv, LeaseFresh, [Next]_vars,
           NEW p \in Pods, NEW s \in Slots, Leased(p, s)
    PROVE  rows'[s].pod = p \/ pc'[p] = "down"
<1> USE DEF LeaseInv, TypeOK, StoreTypeOK, Row
<1>0. rows[s].pod = p /\ Active(s) /\ ~Stale(s)
    BY DEF Leased, LeaseFresh
<1>1. CASE Tick
    BY <1>0, <1>1 DEF Tick, AgedRows
<1>2. ASSUME NEW q \in Pods, ClaimerNext(q) PROVE rows'[s].pod = p \/ pc'[p] = "down"
  <2>1. CASE Start(q) \/ Crash(q) \/ HeartbeatFails(q) \/ BeginClaim(q) \/ ClaimFails(q) \/ AbortClaim(q)
      BY <1>0, <2>1 DEF Start, Crash, HeartbeatFails, BeginClaim, ClaimFails, AbortClaim
  <2>2. CASE Shutdown(q)
      BY <1>0, <2>2 DEF Shutdown, Forget, ReleasedRows, OwnedBy
  <2>3. CASE Heartbeat(q)
      BY <1>0, <2>3 DEF Heartbeat, HeartbeatRows
  <2>4. CASE CommitClaim(q)
    <3>1. s \in batch[q] => Claimable(q, s)
        BY <2>4 DEF CommitClaim, ClaimStillValid
    <3>2. s \in batch[q] => q = p
        BY <3>1, <1>0 DEF Claimable, Active
    <3> QED
        BY <1>0, <2>4, <3>2 DEF CommitClaim, ClaimedRows
  <2> QED
      BY <1>2, <2>1, <2>2, <2>3, <2>4 DEF ClaimerNext
<1>3. ASSUME NEW q \in Pods, NEW t \in Slots, SlotNext(q, t) PROVE rows'[s].pod = p
  <2>1. CASE CreateInsert(q, t)
      BY <1>0, <2>1 DEF CreateInsert, InsertedRows, Active
  <2>2. CASE ~CreateInsert(q, t)
      BY <1>0, <1>3, <2>2 DEF SlotNext, BringSlot, ReportConnected, ReportDisconnected,
         QrTimeout, Evict, CreateMark, CreateMarkFails, CreateBring, StatusRows
  <2> QED
      BY <2>1, <2>2
<1>4. CASE UNCHANGED vars
    BY <1>0, <1>4 DEF vars
<1> QED
    BY <1>1, <1>2, <1>3, <1>4 DEF Next

\* Under ClaimFitsLease peers do not steal the slots of a running pod.
THEOREM LeasesAreKept ==
    ASSUME ClaimFitsLease
    PROVE  Spec => LeaseKept
<1>1. LeaseInv /\ [Next]_vars =>
        [\A p \in Pods, s \in Slots : Leased(p, s) => rows'[s].pod = p \/ pc'[p] = "down"]_vars
  <2> SUFFICES ASSUME LeaseInv, [Next]_vars, NEW p \in Pods, NEW s \in Slots, Leased(p, s)
               PROVE  rows'[s].pod = p \/ pc'[p] = "down"
      OBVIOUS
  <2> QED
      BY BoundFits, KeptStep
<1> QED
    BY <1>1, LeaseInvHolds, PTL DEF Spec, LeaseKept

-----------------------------------------------------------------------------
\* The holder of a leased slot is its pod, and a slot no pod leases is free, before
\* a step and after it.
LEMMA HolderIs ==
    /\ Holder \in [Slots -> Pods \cup {NoPod}]
    /\ \A s \in Slots :
        /\ \A p \in Pods : Leased(p, s) => Holder[s] = p
        /\ Holder[s] # NoPod => \E p \in Pods : Leased(p, s) /\ Holder[s] = p
BY StoreAssumption DEF Holder, Leased

LEMMA HolderWillBe ==
    /\ Holder' \in [Slots -> Pods \cup {NoPod}]
    /\ \A s \in Slots :
        /\ \A p \in Pods : Leased(p, s)' => Holder'[s] = p
        /\ Holder'[s] # NoPod => \E p \in Pods : Leased(p, s)' /\ Holder'[s] = p
BY StoreAssumption DEF Holder, Leased

\* What the holders of two states have to be for a step of SlotLease.
LEMMA EndStep ==
    ASSUME \A s \in Slots : Holder'[s] \in {Holder[s], NoPod}
    PROVE  Lease!Next
<1> DEFINE S == {s \in Slots : Holder'[s] # Holder[s]}
<1>1. Holder' = [s \in Slots |-> IF s \in S THEN NoPod ELSE Holder[s]]
    BY HolderIs, HolderWillBe
<1>2. Lease!Surrender(S)
    BY <1>1 DEF Lease!Surrender
<1> QED
    BY <1>2 DEF Lease!Next

LEMMA GrantStep ==
    ASSUME NEW p \in Pods,
           \A s \in Slots : Holder'[s] = Holder[s] \/ (Holder[s] = NoPod /\ Holder'[s] = p)
    PROVE  Lease!Next
<1> DEFINE S == {s \in Slots : Holder'[s] # Holder[s]}
<1>1. Holder' = [s \in Slots |-> IF s \in S THEN p ELSE Holder[s]]
    BY HolderIs, HolderWillBe
<1>2. \A s \in S : Holder[s] = NoPod
    OBVIOUS
<1>3. Lease!Grant(p, S)
    BY <1>1, <1>2 DEF Lease!Grant
<1> QED
    BY <1>3 DEF Lease!Next

\* A slot does not pass from one pod to another.
LEMMA NoHandover ==
    ASSUME LeaseInv, LeaseFresh, [Next]_vars, NEW s \in Slots,
           Holder[s] # NoPod, Holder'[s] # NoPod
    PROVE  Holder'[s] = Holder[s]
<1>1. PICK p \in Pods : Leased(p, s) /\ Holder[s] = p
    BY HolderIs
<1>2. PICK q \in Pods : Leased(q, s)' /\ Holder'[s] = q
    BY HolderWillBe
<1>3. rows'[s].pod = p \/ pc'[p] = "down"
    BY <1>1, KeptStep
<1>4. CASE rows'[s].pod = p
    BY <1>1, <1>2, <1>4 DEF Leased
<1>5. CASE pc'[p] = "down"
\* The pod that went down cannot have handed the slot over in the same step.
  <2>1. rows'[s].pod \in {p, NoPod}
    <3>1. PICK r \in Pods : ClaimerNext(r)
        BY <1>1, <1>5 DEF Next, Tick, SlotNext, BringSlot, ReportConnected,
           ReportDisconnected, QrTimeout, Evict, CreateInsert, CreateMark,
           CreateMarkFails, CreateBring, vars, Leased, Running, LeaseInv, TypeOK
    <3>2. Crash(r) \/ Shutdown(r)
        BY <1>1, <1>5, <3>1 DEF ClaimerNext, Start, Heartbeat, HeartbeatFails, BeginClaim,
           ClaimFails, CommitClaim, AbortClaim, Leased, Running, LeaseInv, TypeOK
    <3>3. rows[s].pod = p /\ rows[s] \in Row
        BY <1>1 DEF Leased, LeaseInv, TypeOK, StoreTypeOK
    <3>4. rows'[s] \in {rows[s], [rows[s] EXCEPT !.status = "disconnected", !.pod = NoPod]}
        BY <3>2, <3>3 DEF Crash, Shutdown, ReleasedRows
    <3> QED
        BY <3>3, <3>4 DEF Row
  <2> QED
      BY <1>1, <1>2, <1>5, <2>1, StoreAssumption DEF Leased, Running
<1> QED
    BY <1>3, <1>4, <1>5

\* The refinement: a step grants free slots to one pod, or ends leases, or leaves
\* the holders as they are.
LEMMA RefinementStep ==
    ASSUME ClaimFitsLease
    PROVE  LeaseInv /\ [Next]_vars => [Lease!Next]_Holder
<1> SUFFICES ASSUME LeaseInv, [Next]_vars PROVE Lease!Next \/ Holder' = Holder
    OBVIOUS
<1>0. TypeOK /\ LeaseFresh
    BY BoundFits DEF LeaseInv
<1> USE DEF TypeOK, StoreTypeOK, Row
<1>1. ASSUME \A p \in Pods, s \in Slots : Leased(p, s)' => Leased(p, s)
      PROVE  Lease!Next
    BY <1>1, EndStep, HolderIs, HolderWillBe
<1>2. CASE Tick
    BY <1>0, <1>1, <1>2 DEF Tick, AgedRows, Leased, Mine, Active, Running, slots
<1>3. ASSUME NEW q \in Pods, ClaimerNext(q), ~CommitClaim(q) PROVE Lease!Next
  <2> SUFFICES ASSUME NEW p \in Pods, NEW s \in Slots, Leased(p, s)' PROVE Leased(p, s)
      BY <1>1
  <2>1. CASE Start(q)
      BY <1>0, <2>1 DEF Start, slots, LeaseInv, DownIsEmpty, Leased, Mine, Active, Running
  <2>2. CASE Crash(q)
      BY <1>0, <2>2 DEF Crash, Forget, Leased, Mine, Active, Running
  <2>3. CASE Shutdown(q)
    <3>1. q # p /\ s \notin OwnedBy(q)
      <4>1. q # p
          BY <1>0, <2>3 DEF Shutdown, Forget, Leased, Running
      <4>2. s \in OwnedBy(q) => rows'[s] = [rows[s] EXCEPT !.status = "disconnected", !.pod = NoPod]
          BY <2>3 DEF Shutdown, ReleasedRows
      <4>3. s \in OwnedBy(q) => rows'[s].pod = NoPod
          BY <1>0, <4>2
      <4> QED
          BY <4>1, <4>3, StoreAssumption DEF Leased
    <3> QED
        BY <1>0, <2>3, <3>1 DEF Shutdown, ReleasedRows, Forget, Leased, Mine, Active, Running
  <2>4. CASE Heartbeat(q)
      BY <1>0, <2>4 DEF Heartbeat, HeartbeatRows, slots, Leased, Mine, Active, Running
  <2>5. CASE HeartbeatFails(q) \/ ClaimFails(q)
      BY <1>0, <2>5 DEF HeartbeatFails, ClaimFails, slots, Leased, Mine, Active, Running
  <2>6. CASE BeginClaim(q)
    <3>1. PICK S \in ClaimChoices(q, FreeRows) : batch' = [batch EXCEPT ![q] = S]
        BY <2>6 DEF BeginClaim
    <3>2. ~(q = p /\ s \in S)
        BY <2>6, ChoicesAreClaimable DEF BeginClaim, Claimable, Leased, Active
    <3> QED
        BY <1>0, <2>6, <3>1, <3>2 DEF BeginClaim, Leased, Mine, Active, Running
  <2>7. CASE AbortClaim(q)
      BY <1>0, <2>7 DEF AbortClaim, Leased, Mine, Active, Running
  <2> QED
      BY <1>3, <2>1, <2>2, <2>3, <2>4, <2>5, <2>6, <2>7 DEF ClaimerNext
<1>4. ASSUME NEW q \in Pods, CommitClaim(q) PROVE Lease!Next
  <2> SUFFICES ASSUME NEW s \in Slots
               PROVE  Holder'[s] = Holder[s] \/ (Holder[s] = NoPod /\ Holder'[s] = q)
      BY GrantStep
  <2>1. CASE s \in batch[q]
    <3>1. Claimable(q, s)
        BY <1>4, <2>1 DEF CommitClaim, LeaseInv, ClaimStillValid
    <3>2. \A p \in Pods : ~Leased(p, s)
        BY <1>0, <3>1 DEF Claimable, Leased, Active, LeaseFresh
    <3>3. Leased(q, s)'
        BY <1>0, <1>4, <2>1 DEF CommitClaim, ClaimedRows, slots, Leased, Mine, Active, Running
    <3> QED
        BY <3>2, <3>3, HolderIs, HolderWillBe
  <2>2. CASE s \notin batch[q]
    <3>1. \A p \in Pods : Leased(p, s)' <=> Leased(p, s)
        BY <1>0, <1>4, <2>2 DEF CommitClaim, ClaimedRows, slots, Leased, Mine, Active, Running
    <3>2. Holder'[s] = Holder[s]
        BY <3>1, HolderIs, HolderWillBe
    <3> QED
        BY <3>2
  <2> QED
      BY <2>1, <2>2
<1>5. ASSUME NEW q \in Pods, NEW t \in Slots, SlotNext(q, t) PROVE Lease!Next
  <2>1. ASSUME NEW s \in Slots, s # t PROVE Holder'[s] = Holder[s]
    <3>1. rows'[s] = rows[s]
        BY <1>0, <1>5, <2>1 DEF SlotNext, BringSlot, ReportConnected, ReportDisconnected,
           QrTimeout, Evict, CreateInsert, CreateMark, CreateMarkFails, CreateBring,
           StatusRows, InsertedRows
    <3>2. \A p \in Pods : Mine(p, s)' <=> Mine(p, s)
        BY <1>0, <1>5, <2>1 DEF SlotNext, BringSlot, ReportConnected, ReportDisconnected,
           QrTimeout, Evict, CreateInsert, CreateMark, CreateMarkFails, CreateBring,
           Mine, slots
    <3>3. \A p \in Pods : Running(p)' <=> Running(p)
        BY <1>0, <1>5 DEF SlotNext, BringSlot, ReportConnected, ReportDisconnected,
           QrTimeout, Evict, CreateInsert, CreateMark, CreateMarkFails, CreateBring,
           Running
    <3>4. \A p \in Pods : Leased(p, s)' <=> Leased(p, s)
        BY <3>1, <3>2, <3>3 DEF Leased, Active
    <3> QED
        BY <3>4, HolderIs, HolderWillBe
  <2>2. Holder[t] = NoPod \/ Holder'[t] = NoPod \/ Holder'[t] = Holder[t]
      BY <1>0, NoHandover
  <2>3. CASE Holder'[t] \in {Holder[t], NoPod}
      BY <2>1, <2>3, EndStep
  <2>4. CASE Holder[t] = NoPod /\ Holder'[t] # NoPod
    <3>1. PICK p \in Pods : Holder'[t] = p
        BY <2>4, HolderWillBe
    <3>2. \A s \in Slots : Holder'[s] = Holder[s] \/ (Holder[s] = NoPod /\ Holder'[s] = p)
        BY <2>1, <2>4, <3>1
    <3> QED
        BY <3>2, GrantStep
  <2> QED
      BY <2>2, <2>3, <2>4
<1>6. CASE UNCHANGED vars
    BY <1>6 DEF vars, Holder, Leased, Mine, Active, Running
<1> QED
    BY <1>2, <1>3, <1>4, <1>5, <1>6 DEF Next

\* The claim and heartbeat protocol implements SlotLease.
THEOREM ProtocolImplementsSlotLease ==
    ASSUME ClaimFitsLease
    PROVE  Spec => ImplementsSlotLease
<1>1. Init => Lease!Init
    BY DEF Init, Lease!Init, Holder, Leased, Running
<1>2. LeaseInv /\ [Next]_vars => [Lease!Next]_Holder
    BY RefinementStep
<1> QED
    BY <1>1, <1>2, LeaseInvHolds, PTL DEF Spec, ImplementsSlotLease, Lease!Spec
=============================================================================
