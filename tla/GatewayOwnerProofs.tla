------------------------- MODULE GatewayOwnerProofs -------------------------
(***************************************************************************)
(* Who serves a slot, in Gateway, for any number of pods and slots: unless *)
(* an operator, a creation or a shutdown writes the row of a slot that is  *)
(* at work, a pod has the lease of every slot it wants or works on, and so *)
(* a live session belongs to the pod its row names.                        *)
(***************************************************************************)
EXTENDS GatewayProofs

\* The tasks Held speaks of, and the steps of the claimer.
Watched == Clearing \cup {"qr-wait", "expire-evict"}
ClaimerSteps == {"check", "device", "resume", "pair", "mark-qr"}

LEMMA WatchedSteps ==
    /\ Watched \subseteq TaskSteps /\ Clearing \subseteq Watched
    /\ "qr-wait" \in Watched /\ "expire-evict" \in Watched
    /\ "qr-wait" \notin Clearing /\ "expire-evict" \notin Clearing
BY DEF Watched, Clearing, TaskSteps

\* Nothing new is wanted or done at the slot, and the lease stays.
LEMMA HeldStays ==
    ASSUME NEW p \in Pods, NEW s \in Slots, Held(p, s),
           todo'[p] \subseteq todo[p],
           \A step \in ClaimerSteps :
               Doing(p, "claimer", step, s)' => Doing(p, "claimer", step, s),
           \A a \in Watched : At(p, s, a)' => At(p, s, a),
           link'[p][s] = link[p][s],
           (Wanted(p, s) \/ Busy(p, s)) /\ Leases(p, s) /\ Running(p)
               => Leases(p, s)' /\ Running(p)'
    PROVE  Held(p, s)'
<1>1. Listed(p, s)' => Listed(p, s)
    BY DEF Listed
<1>2. Wanted(p, s)' => Wanted(p, s)
    BY <1>1 DEF Wanted, ClaimerSteps
<1>3. Making(p, s)' => Making(p, s)
    BY DEF Making, ClaimerSteps
<1>4. Clears(p, s)' => Clears(p, s)
    BY WatchedSteps DEF Clears
<1>5. Busy(p, s)' => Busy(p, s)
    BY <1>3, <1>4, WatchedSteps DEF Busy
<1>6. Wanted(p, s)' \/ Busy(p, s)' => Leases(p, s)' /\ Running(p)'
    BY <1>2, <1>5 DEF Held
<1>7. ~(Wanted(p, s)' /\ Busy(p, s)')
    BY <1>2, <1>5 DEF Held
<1>8. ~(Listed(p, s)' /\ Doing(p, "claimer", "check", s)')
    BY <1>1 DEF Held, ClaimerSteps
<1>9. \A r, t \in todo'[p] : r.slot = s /\ t.slot = s => r = t
    BY DEF Held
<1>10. Clears(p, s)' => /\ link'[p][s] = "closed" /\ ~Making(p, s)'
                        /\ ~At(p, s, "qr-wait")' /\ ~At(p, s, "expire-evict")'
    BY <1>3, <1>4, WatchedSteps DEF Held
<1>11. \A a, b \in Clearing : At(p, s, a)' /\ At(p, s, b)' => a = b
    BY WatchedSteps DEF Held
<1>12. Doing(p, "claimer", "resume", s)' \/ Doing(p, "claimer", "pair", s)' => link'[p][s] = "new"
    BY DEF Held, ClaimerSteps
<1>13. Doing(p, "claimer", "mark-qr", s)' \/ At(p, s, "qr-wait")' => link'[p][s] = "pairing"
    BY WatchedSteps DEF Held, ClaimerSteps
<1> QED
    BY <1>6, <1>7, <1>8, <1>9, <1>10, <1>11, <1>12, <1>13 DEF Held

\* A slot that is neither wanted nor worked on.
LEMMA NothingHeld ==
    ASSUME NEW p \in Pods, NEW s \in Slots,
           ~Listed(p, s)',
           \A step \in ClaimerSteps : ~Doing(p, "claimer", step, s)',
           \A a \in Watched \ {"expire-evict"} : ~At(p, s, a)',
           link'[p][s] \in {"closed", "none"}
    PROVE  Held(p, s)'
<1>1. ~Wanted(p, s)'
    BY DEF Wanted, ClaimerSteps
<1>2. ~Making(p, s)'
    BY DEF Making, ClaimerSteps
<1>3. \A a \in Clearing : ~At(p, s, a)'
    BY WatchedSteps
<1>4. ~Clears(p, s)' /\ ~At(p, s, "qr-wait")'
    BY <1>3, WatchedSteps DEF Clears
<1>5. ~Busy(p, s)'
    BY <1>2, <1>4 DEF Busy
<1>6. \A r, t \in todo'[p] : r.slot = s /\ t.slot = s => r = t
    BY DEF Listed
<1> QED
    BY <1>1, <1>3, <1>4, <1>5, <1>6 DEF Held, ClaimerSteps

-----------------------------------------------------------------------------
\* The rows.

\* What the other statements leave of a lease.
LEMMA LeaseOverStatements ==
    ASSUME TypeOK, NEW p \in Pods, NEW s \in Slots, Leases(p, s)
    PROVE  /\ UNCHANGED rows => Leases(p, s)'
           /\ \A q \in Pods : rows' = HeartbeatRows(q) => Leases(p, s)'
           /\ \A q \in Pods, S \in SUBSET Slots :
                rows' = ClaimedRows(q, S) /\ (\A t \in S : Claimable(q, t)) => Leases(p, s)'
           /\ \A t \in Slots, status \in {"connected", "claimed"} :
                rows' = StatusRows(t, status) => Leases(p, s)'
           /\ \A t \in Slots \ {s} : rows' = StatusRows(t, "disconnected") => Leases(p, s)'
<1>1. rows[s] \in Row /\ rows[s].pod = p /\ rows[s].status \in {"claimed", "connected"}
    BY DEF TypeOK, StoreTypeOK, Leases, Active
<1>2. rows[s].age \in Nat /\ Staleness = 0 /\ ~(rows[s].age > Staleness)
    BY <1>1, GatewayAssumption, StoreAssumption DEF Row, Leases, Stale, NeverSeen
<1>3. ASSUME UNCHANGED rows
      PROVE  Leases(p, s)'
    BY <1>3 DEF Leases, Active, Stale
<1>4. ASSUME NEW q \in Pods, rows' = HeartbeatRows(q)
      PROVE  Leases(p, s)'
  <2>1. rows'[s] = IF s \in Beating(q) THEN [rows[s] EXCEPT !.age = 0] ELSE rows[s]
    BY <1>4 DEF HeartbeatRows
  <2>2. /\ rows'[s].pod = rows[s].pod /\ rows'[s].status = rows[s].status
        /\ rows'[s].age \in {0, rows[s].age}
    BY <1>1, <2>1 DEF Row
  <2> QED
    BY <1>1, <1>2, <2>2 DEF Leases, Active, Stale
<1>5. ASSUME NEW q \in Pods, NEW S \in SUBSET Slots, rows' = ClaimedRows(q, S),
             \A t \in S : Claimable(q, t)
      PROVE  Leases(p, s)'
  <2>1. ~Claimable(q, s)
    BY <1>1, <1>2 DEF Claimable, Stale
  <2>2. rows'[s] = rows[s]
    BY <1>5, <2>1 DEF ClaimedRows
  <2> QED
    BY <1>1, <1>2, <2>2 DEF Leases, Active, Stale
<1>6. ASSUME NEW t \in Slots, NEW status \in Statuses, rows' = StatusRows(t, status),
             t # s \/ status \in {"connected", "claimed"}
      PROVE  Leases(p, s)'
  <2>1. rows'[s] = IF s = t THEN [status |-> status, pod |-> p, age |-> 0] ELSE rows[s]
    BY <1>1, <1>6 DEF StatusRows, TypeOK, StoreTypeOK
  <2> QED
    BY <1>1, <1>2, <1>6, <2>1 DEF Leases, Active, Stale
<1> QED
    BY <1>3, <1>4, <1>5, <1>6 DEF Statuses

\* Only a callback or a reader of the pod itself frees the row of its lease.
LEMMA LeaseStays ==
    ASSUME OwnerInv, NEW p \in Pods, NEW s \in Slots, Leases(p, s),
           NEW q \in Pods, NEW t \in Slots,
           \/ UNCHANGED rows
           \/ rows' = StatusRows(t, "claimed")
           \/ \E j \in JidOrNone : SetStatus(q, t, "connected", j)
           \/ (p # q \/ s # t) /\ Clears(q, t) /\ SetStatus(q, t, "disconnected", NoJid)
    PROVE  Leases(p, s)'
<1> USE DEF OwnerInv, ManagerInv
<1>1. ASSUME NEW j \in JidOrNone, SetStatus(q, t, "connected", j)
      PROVE  Leases(p, s)'
    BY <1>1, LeaseOverStatements DEF SetStatus
<1>2. ASSUME p # q \/ s # t, Clears(q, t), SetStatus(q, t, "disconnected", NoJid)
      PROVE  Leases(p, s)'
  <2>1. Leases(q, t)
    BY <1>2 DEF Held, Busy
  <2>2. s # t
    BY <1>2, <2>1 DEF Leases
  <2> QED
    BY <1>2, <2>2, LeaseOverStatements DEF SetStatus
<1> QED
    BY <1>1, <1>2, LeaseOverStatements

-----------------------------------------------------------------------------
\* What the steps have in common.

LEMMA LinkElsewhere ==
    ASSUME TypeOK, NEW p \in Pods, NEW s \in Slots, NEW q \in Pods, NEW t \in Slots,
           p # q \/ s # t, NEW state, link' = [link EXCEPT ![q][t] = state]
    PROVE  link'[p][s] = link[p][s]
BY DEF TypeOK

\* Where the workers are after one went on.
LEMMA MovesDoing ==
    ASSUME TypeOK, NEW p \in Pods, NEW w \in Workers, NEW s \in Slots, NEW next, Moves(p, w, s, next)
    PROVE  \A q \in Pods, v \in Workers, t \in Slots, a \in Steps :
             Doing(q, v, a, t)' <=> \/ Doing(q, v, a, t) /\ (q # p \/ v # w)
                                    \/ q = p /\ v = w /\ t = s /\ a = next
BY DEF Moves, Doing

LEMMA AdvanceDoing ==
    ASSUME TypeOK, NEW p \in Pods, NEW w \in Workers, NEW s \in Slots, NEW step \in Steps,
           Doing(p, w, step, s), NEW next \in Steps \cup {"none"}, Advance(p, w, next)
    PROVE  \A q \in Pods, v \in Workers, t \in Slots, a \in Steps :
             Doing(q, v, a, t)' <=> \/ Doing(q, v, a, t) /\ (q # p \/ v # w)
                                    \/ q = p /\ v = w /\ t = s /\ a = next
BY AdvanceTypes, MovesDoing

LEMMA BringMoves ==
    ASSUME TypeOK, NEW p \in Pods, NEW w \in Workers, NEW s \in Slots, BringUp(p, w, s),
           ~BringPanics(p, w, s)
    PROVE  \E step \in Steps, next \in (Steps \cup {"none"}) \ {"mark-claimed"} :
             /\ Doing(p, w, step, s) /\ Moves(p, w, s, next)
             /\ step = "mark-claimed" => MarkClaimed(p, w, s)
             /\ next = "check" => step = "mark-claimed"
<1>1. CASE BringRead(p, w, s)
  <2>1. Doing(p, w, "read", s) /\ Moves(p, w, s, "row")
    BY <1>1, ReadTypes DEF BringRead
  <2>2. "read" \in Steps /\ "row" \in (Steps \cup {"none"}) \ {"mark-claimed"}
    BY DEF Steps
  <2>3. "read" # "mark-claimed" /\ "row" # "check"
    OBVIOUS
  <2> QED
    BY <2>1, <2>2, <2>3
<1>2. CASE ~BringRead(p, w, s)
  <2>1. PICK step \in Steps, next \in (Steps \cup {"none"}) \ {"mark-claimed"} :
            /\ Doing(p, w, step, s) /\ Advance(p, w, next)
            /\ step = "mark-claimed" => MarkClaimed(p, w, s)
            /\ next = "check" => step = "mark-claimed"
    BY <1>2 DEF BringUp, MarkClaimed, BringCheck, BringDevice, OverDevice, OverNewDevice, BringResume,
                BringMark, BringRow, BringLog, BringPair, BringMarkQR, Steps
  <2> QED
    BY <2>1, AdvanceTypes
<1> QED
    BY <1>1, <1>2

\* The steps of Bring with a session after its Connect.
Finishes(p, w, s) ==
    BringMark(p, w, s) \/ BringRead(p, w, s) \/ BringRow(p, w, s) \/ BringLog(p, w, s)

LEMMA FinishesDoing ==
    ASSUME TypeOK, NEW p \in Pods, NEW w \in Workers, NEW s \in Slots, Finishes(p, w, s)
    PROVE  \A a \in ClaimerSteps : ~Doing(p, w, a, s)'
<1>1. \E next \in {"read", "row", "log", "none"} : Moves(p, w, s, next)
  <2>1. CASE BringRead(p, w, s)
    BY <2>1, ReadTypes
  <2>2. CASE ~BringRead(p, w, s)
    <3>1. PICK step \in {"mark", "row", "log"}, next \in {"read", "log", "none"} :
              Doing(p, w, step, s) /\ Advance(p, w, next)
        BY <2>2 DEF Finishes, BringMark, BringRow, BringLog
    <3>2. step \in Steps /\ next \in Steps \cup {"none"}
        BY DEF Steps
    <3> QED
        BY <3>1, <3>2, AdvanceTypes
  <2> QED
    BY <2>1, <2>2
<1> QED
    BY <1>1 DEF Moves, Doing, ClaimerSteps

\* Of the two workers only the claimer brings slots up.
LEMMA ClaimerBrings ==
    ASSUME OwnerInv, NEW p \in Pods, NEW w \in Workers, NEW s \in Slots, BringUp(p, w, s)
    PROVE  w = "claimer" /\ ~MarkClaimed(p, w, s)
<1>1. \E step \in Steps : Doing(p, w, step, s)
    BY DEF BringUp, MarkClaimed, BringCheck, BringDevice, BringResume, BringMark, BringRead,
           BringRow, BringLog, BringPanics, BringPair, BringMarkQR, Steps
<1>2. NoJob.step \notin Steps
    BY DEF NoJob, Steps
<1>3. w = "claimer"
    BY <1>1, <1>2 DEF OwnerInv, Doing, ClaimsOnly, Workers
<1> QED
    BY <1>3 DEF OwnerInv, MarkClaimed, Doing, ClaimsOnly

LEMMA BringFrame ==
    ASSUME NEW p \in Pods, NEW w \in Workers, NEW s \in Slots, BringUp(p, w, s),
           ~BringPanics(p, w, s)
    PROVE  /\ UNCHANGED <<up, todo, writes, device>>
           /\ UNCHANGED link \/ \E state \in Links : link' = [link EXCEPT ![p][s] = state]
           /\ UNCHANGED tasks \/ Begins(p, s, "qr-wait")
<1> USE DEF BringUp, MarkClaimed, BringCheck, BringDevice, OverDevice, OverNewDevice, BringResume,
            BringMark, BringRead, BringRow, BringLog, BringPair, BringMarkQR, callbacks
<1>1. UNCHANGED <<up, todo, writes, device>>
    BY DEF Begins
<1>2. UNCHANGED link \/ \E state \in Links : link' = [link EXCEPT ![p][s] = state]
    BY DEF client, SetLink, SetClient, Links
<1>3. UNCHANGED tasks \/ Begins(p, s, "qr-wait")
    OBVIOUS
<1> QED
    BY <1>1, <1>2, <1>3

LEMMA CallbackFrame ==
    ASSUME NEW p \in Pods, NEW s \in Slots, Callback(p, s)
    PROVE  /\ UNCHANGED <<up, todo, job, device>>
           /\ UNCHANGED client \/ (ExpireEvict(p, s) /\ SetClient(p, s, "none", NoJid))
BY DEF Callback, ConnectedMark, ConnectedRead, ConnectedRow, PersistRead, PersistSession, ReadsID,
       Writes, DroppedMark, LoggedOutMark, LoggedOutRow, ShowQR, EmitQR, HideQR, ExpireClear,
       ExpireRow, ExpireEvict, OperatorMark, OperatorRow

LEMMA ExternalFrame ==
    ASSUME NEW p \in Pods, NEW s \in Slots, External(p, s)
    PROVE  /\ UNCHANGED <<rows, jid, up, todo, job, writes>>
           /\ UNCHANGED link \/ \E state \in Links : link' = [link EXCEPT ![p][s] = state]
<1> USE DEF External, LogIn, Drop, Redial, LogOut, QRCode, Pair, QRTimeout, QRError, OperatorClose
<1>1. UNCHANGED <<rows, jid, up, todo, job, writes>>
    BY DEF callbacks, Begins, Goes
<1>2. UNCHANGED link \/ \E state \in Links : link' = [link EXCEPT ![p][s] = state]
    BY DEF client, SetLink, SetClient, Links
<1> QED
    BY <1>1, <1>2

\* The callbacks that neither free the row nor evict the entry.
Quiet(p, s) ==
    \/ ConnectedMark(p, s) \/ ConnectedRead(p, s) \/ ConnectedRow(p, s)
    \/ PersistRead(p, s) \/ PersistSession(p, s) \/ DroppedMark(p, s)
    \/ ShowQR(p, s) \/ EmitQR(p, s) \/ HideQR(p, s)

LEMMA QuietTasks ==
    ASSUME TypeOK, NEW q \in Pods, NEW t \in Slots, Quiet(q, t),
           NEW p \in Pods, NEW s \in Slots, NEW a \in Watched, At(p, s, a)'
    PROVE  At(p, s, a)
<1>1. a \in TaskSteps
    BY WatchedSteps
<1>2. CASE ConnectedRead(q, t) \/ PersistRead(q, t)
  <2>1. PICK step \in TaskSteps, next \in WriteSteps : ReadsID(q, t, step, next)
    BY <1>2 DEF ConnectedRead, PersistRead, TaskSteps, WriteSteps
  <2> QED
    BY <1>1, <2>1, ReadsTypes
<1>3. CASE ConnectedRow(q, t) \/ PersistSession(q, t)
  <2>1. PICK x \in writes[q], next \in SUBSET {"connected-save"} : Writes(q, t, x, next)
    BY <1>3 DEF ConnectedRow, PersistSession
  <2>2. x \in Write /\ next \in SUBSET (TaskSteps \ Watched)
    BY DEF TypeOK, TaskSteps, Watched, Clearing
  <2>3. next \in SUBSET TaskSteps /\ a \notin next
    BY <2>2
  <2> QED
    BY <1>1, <2>1, <2>2, <2>3, WritesTypes
<1>4. CASE \/ ConnectedMark(q, t) \/ DroppedMark(q, t) \/ ShowQR(q, t) \/ EmitQR(q, t)
           \/ HideQR(q, t)
  <2>1. PICK step \in TaskSteps, next \in SUBSET (TaskSteps \ Watched) : Goes(q, t, step, next)
    BY <1>4 DEF ConnectedMark, DroppedMark, ShowQR, EmitQR, HideQR, TaskSteps, Watched, Clearing
  <2> QED
    BY <1>1, <2>1, GoesTypes
<1> QED
    BY <1>2, <1>3, <1>4 DEF Quiet

LEMMA QuietRows ==
    ASSUME TypeOK, NEW q \in Pods, NEW t \in Slots, Quiet(q, t)
    PROVE  /\ UNCHANGED client
           /\ UNCHANGED rows \/ \E j \in JidOrNone : SetStatus(q, t, "connected", j)
<1>1. UNCHANGED client
    BY DEF Quiet, ConnectedMark, ConnectedRead, ConnectedRow, PersistRead, PersistSession, ReadsID,
           Writes, DroppedMark, ShowQR, EmitQR, HideQR
<1>2. CASE ConnectedRow(q, t) \/ PersistSession(q, t)
  <2>1. PICK x \in writes[q] : SetStatus(q, t, "connected", x.jid)
    BY <1>2 DEF ConnectedRow, PersistSession, Writes
  <2>2. x.jid \in JidOrNone
    BY DEF TypeOK, Write, JidOrNone
  <2> QED
    BY <1>1, <2>1, <2>2
<1>3. CASE ~ConnectedRow(q, t) /\ ~PersistSession(q, t)
    BY <1>1, <1>3 DEF Quiet, ConnectedMark, ConnectedRead, PersistRead, ReadsID, DroppedMark, ShowQR,
                      EmitQR, HideQR
<1> QED
    BY <1>2, <1>3

-----------------------------------------------------------------------------
\* What becomes of what a pod holds.

\* A lease in a row that is not written.
LEMMA LeaseUnwritten ==
    ASSUME NEW p \in Pods, NEW s \in Slots, UNCHANGED <<rows, up>>
    PROVE  Leases(p, s) /\ Running(p) => Leases(p, s)' /\ Running(p)'
BY DEF Leases, Active, Stale, Running

\* A process that is gone.
LEMMA GoneHeld ==
    ASSUME OwnerInv, NEW p \in Pods, NEW s \in Slots, NEW q \in Pods, NoMemory(q),
           up' = [up EXCEPT ![q] = "down"], UNCHANGED rows
    PROVE  Held(p, s)'
<1> USE DEF OwnerInv, ManagerInv
<1>1. CASE p = q
  <2>1. /\ tasks'[p] = {} /\ job'[p]["claimer"] = NoJob
    BY <1>1, NoMemoryTypes DEF Workers
  <2>2. todo'[p] = {} /\ link'[p][s] = "none"
    BY <1>1 DEF NoMemory, TypeOK
  <2>3. NoJob.step = "none"
    BY DEF NoJob
  <2> QED
    BY <2>1, <2>2, <2>3, NothingHeld DEF Listed, Doing, At, ClaimerSteps
<1>2. CASE p # q
  <2>1. link'[p] = link[p] /\ tasks'[p] = tasks[p] /\ job'[p] = job[p] /\ todo'[p] = todo[p]
    BY <1>2, NoMemoryTypes DEF NoMemory, TypeOK
  <2>2. Running(p) => Running(p)'
    BY <1>2 DEF Running, TypeOK
  <2>3. Leases(p, s) => Leases(p, s)'
    BY DEF Leases, Active, Stale
  <2> QED
    BY <2>1, <2>2, <2>3, HeldStays DEF Doing, At
<1> QED
    BY <1>1, <1>2

\* The steps of the process and the passing of time.
LEMMA ProcessHeld ==
    ASSUME OwnerInv, Undisturbed, NEW p \in Pods, NEW s \in Slots, NEW q \in Pods,
           Process(q)
    PROVE  Held(p, s)'
<1> USE DEF OwnerInv, ManagerInv
<1>1. ~Signal(q) /\ ~CloseClients(q) /\ ~Release(q) /\ ~Exit(q)
    BY DEF Signal, CloseClients, Release, Exit, Undisturbed, ClaimsOnly
<1>2. CASE Start(q)
  <2>1. Running(p) => Running(p)'
    BY <1>2 DEF Start, Running, TypeOK
  <2>2. Leases(p, s) => Leases(p, s)'
    BY <1>2 DEF Start, Leases, Active, Stale
  <2> QED
    BY <1>2, <2>1, <2>2, HeldStays DEF Start, memory, client, callbacks, Doing, At
<1>3. CASE Crash(q)
    BY <1>3, GoneHeld DEF Crash
<1> QED
    BY <1>1, <1>2, <1>3 DEF Process

LEMMA TimeHeld ==
    ASSUME OwnerInv, Undisturbed, NEW p \in Pods, NEW s \in Slots,
           \/ \E t \in Slots : Expire(t)
           \/ \E q \in Pods : Heartbeat(q)
    PROVE  Held(p, s)'
<1> USE DEF OwnerInv, ManagerInv
<1>1. UNCHANGED <<up, link, tasks, todo, job>>
    BY DEF Expire, Heartbeat, memory, client, callbacks
<1>2. Leases(p, s) /\ Running(p) => Leases(p, s)'
  <2>1. ASSUME NEW t \in Slots, Expire(t), Leases(p, s), Running(p)
        PROVE  Leases(p, s)'
    <3>1. s # t
        BY <2>1 DEF Expire, Leases
    <3>2. rows'[s] = rows[s]
        BY <2>1, <3>1 DEF Expire, TypeOK, StoreTypeOK
    <3> QED
        BY <2>1, <3>2 DEF Leases, Active, Stale
  <2> QED
    BY <2>1, LeaseOverStatements DEF Heartbeat
<1> QED
    BY <1>1, <1>2, HeldStays DEF Doing, At, Running

\* A claim gives the pod a lease of what nobody wants or works on.
LEMMA ClaimHeld ==
    ASSUME OwnerInv, Undisturbed, NEW p \in Pods, NEW s \in Slots, NEW q \in Pods,
           Claim(q)
    PROVE  Held(p, s)'
<1> USE DEF OwnerInv, ManagerInv
<1>1. PICK S \in ClaimChoices(q, Slots) :
        /\ rows' = ClaimedRows(q, S)
        /\ todo' = [todo EXCEPT ![q] = {[slot |-> t, jid |-> jid[t]] : t \in S}]
    BY DEF Claim
<1>2. S \in SUBSET Slots /\ \A t \in S : Claimable(q, t)
    BY DEF ClaimChoices
<1>3. /\ UNCHANGED <<up, link, tasks, job>>
      /\ up[q] = "up" /\ todo[q] = {} /\ job[q]["claimer"] = NoJob
    BY DEF Claim, client, callbacks
<1>4. Leases(p, s) => Leases(p, s)'
    BY <1>1, <1>2, LeaseOverStatements
<1>5. Running(p) => Running(p)'
    BY <1>3 DEF Running
<1>6. CASE p # q
  <2>1. todo'[p] = todo[p]
    BY <1>1, <1>6 DEF TypeOK
  <2> QED
    BY <1>3, <1>4, <1>5, <2>1, HeldStays DEF Doing, At
<1>7. CASE p = q /\ s \notin S
  <2>1. todo'[p] = {[slot |-> t, jid |-> jid[t]] : t \in S}
    BY <1>1, <1>7 DEF TypeOK
  <2>2. ~Listed(p, s)'
    BY <1>7, <2>1 DEF Listed
  <2>3. \A r, t \in todo'[p] : r.slot = s /\ t.slot = s => r = t
    BY <2>2 DEF Listed
  <2>4. /\ \A step : Doing(p, "claimer", step, s)' <=> Doing(p, "claimer", step, s)
        /\ \A a : At(p, s, a)' <=> At(p, s, a)
        /\ link'[p][s] = link[p][s]
    BY <1>3 DEF Doing, At
  <2>5. Making(p, s)' <=> Making(p, s)
    BY <2>4 DEF Making
  <2>6. Clears(p, s)' <=> Clears(p, s)
    BY <2>4 DEF Clears
  <2>7. Busy(p, s)' <=> Busy(p, s)
    BY <2>4, <2>5, <2>6 DEF Busy
  <2>8. ~Doing(p, "claimer", "check", s)
    BY <1>3, <1>7 DEF Doing, NoJob
  <2>9. ~Wanted(p, s)'
    BY <2>2, <2>4, <2>8 DEF Wanted
  <2> QED
    BY <1>4, <1>5, <2>2, <2>3, <2>4, <2>5, <2>6, <2>7, <2>9 DEF Held
<1>8. CASE p = q /\ s \in S
  <2>1. ~Leases(p, s)
    BY <1>2, <1>8 DEF Leases, Claimable, Active
  <2>2. ~Wanted(p, s) /\ ~Busy(p, s)
    BY <2>1 DEF Held
  <2>3. todo'[p] = {[slot |-> t, jid |-> jid[t]] : t \in S}
    BY <1>1, <1>8 DEF TypeOK
  <2>4. \A r, t \in todo'[p] : r.slot = s /\ t.slot = s => r = t
    BY <2>3
  <2>5. /\ \A step : Doing(p, "claimer", step, s)' <=> Doing(p, "claimer", step, s)
        /\ \A a : At(p, s, a)' <=> At(p, s, a)
        /\ link'[p][s] = link[p][s]
    BY <1>3 DEF Doing, At
  <2>6. ~Making(p, s)' /\ ~Clears(p, s)' /\ ~Busy(p, s)'
    BY <2>2, <2>5 DEF Busy, Making, Clears
  <2>7. ~Doing(p, "claimer", "check", s)'
    BY <2>2, <2>5 DEF Wanted
  <2>8. Leases(p, s)' /\ Running(p)'
    <3>1. rows'[s] = [status |-> "claimed", pod |-> p, age |-> 0]
        BY <1>1, <1>8 DEF ClaimedRows
    <3> QED
        BY <1>3, <1>8, <3>1, GatewayAssumption DEF Leases, Active, Stale, Running
  <2>9. \A a \in Clearing : ~At(p, s, a)'
    BY <2>6 DEF Clears
  <2>10. /\ ~Doing(p, "claimer", "resume", s)' /\ ~Doing(p, "claimer", "pair", s)'
         /\ ~Doing(p, "claimer", "mark-qr", s)' /\ ~At(p, s, "qr-wait")'
    BY <2>6 DEF Making, Busy
  <2> QED
    BY <2>4, <2>6, <2>7, <2>8, <2>9, <2>10 DEF Held
<1> QED
    BY <1>6, <1>7, <1>8

\* The claimer comes to the next row it has claimed.
LEMMA NextHeld ==
    ASSUME OwnerInv, Undisturbed, NEW p \in Pods, NEW s \in Slots, NEW q \in Pods,
           NextClaimed(q)
    PROVE  Held(p, s)'
<1> USE DEF OwnerInv, ManagerInv
<1>1. PICK r \in todo[q] :
        /\ todo' = [todo EXCEPT ![q] = @ \ {r}]
        /\ job' = [job EXCEPT ![q]["claimer"] =
                     IF Owns(q, r.slot) THEN NoJob
                     ELSE [step |-> "check", slot |-> r.slot, jid |-> r.jid]]
    BY DEF NextClaimed
<1>2. UNCHANGED <<rows, up, link, tasks>> /\ job[q]["claimer"] = NoJob
    BY DEF NextClaimed, client, callbacks
<1>3. Leases(p, s) /\ Running(p) => Leases(p, s)' /\ Running(p)'
    BY <1>2, LeaseUnwritten
<1>4. CASE p # q
  <2>1. todo'[p] = todo[p] /\ job'[p] = job[p]
    BY <1>1, <1>4 DEF TypeOK
  <2> QED
    BY <1>2, <1>3, <2>1, HeldStays DEF Doing, At
<1>5. CASE p = q
  <2>1. todo'[p] = todo[p] \ {r}
    BY <1>1, <1>5 DEF TypeOK
  <2>2. job'[p]["claimer"] = IF Owns(q, r.slot) THEN NoJob
                            ELSE [step |-> "check", slot |-> r.slot, jid |-> r.jid]
    BY <1>1, <1>5 DEF TypeOK, Workers
  <2>3. NoJob.step = "none"
    BY DEF NoJob
  <2>4. \A step \in ClaimerSteps :
            Doing(p, "claimer", step, s)' => step = "check" /\ r.slot = s
    BY <2>2, <2>3 DEF Doing, ClaimerSteps
  <2>5. CASE ~Doing(p, "claimer", "check", s)'
    BY <1>2, <1>3, <2>1, <2>4, <2>5, HeldStays DEF At
  <2>6. CASE Doing(p, "claimer", "check", s)'
    <3>1. r.slot = s
        BY <2>4, <2>6 DEF ClaimerSteps
    <3>2. Listed(p, s) /\ Wanted(p, s)
        BY <1>5, <3>1 DEF Listed, Wanted
    <3>3. ~Listed(p, s)'
        BY <1>5, <2>1, <3>1 DEF Held, Listed
    <3>4. ~Busy(p, s)
        BY <3>2 DEF Held
    <3>5. ~Making(p, s)'
        BY <2>4 DEF Making, ClaimerSteps
    <3>6. (\A a : At(p, s, a)' <=> At(p, s, a)) /\ link'[p][s] = link[p][s]
        BY <1>2 DEF At
    <3>7. ~Clears(p, s)' /\ ~Busy(p, s)'
        BY <3>4, <3>5, <3>6 DEF Busy, Clears
    <3>8. Leases(p, s)' /\ Running(p)'
        BY <1>3, <3>2 DEF Held
    <3>9. \A a \in Clearing : ~At(p, s, a)'
        BY <3>7 DEF Clears
    <3>10. /\ ~Doing(p, "claimer", "resume", s)' /\ ~Doing(p, "claimer", "pair", s)'
           /\ ~Doing(p, "claimer", "mark-qr", s)' /\ ~At(p, s, "qr-wait")'
        BY <3>5, <3>7 DEF Making, Busy
    <3>11. \A x, y \in todo'[p] : x.slot = s /\ y.slot = s => x = y
        BY <3>3 DEF Listed
    <3> QED
        BY <3>3, <3>7, <3>8, <3>9, <3>10, <3>11 DEF Held
  <2> QED
    BY <2>5, <2>6
<1> QED
    BY <1>4, <1>5

-----------------------------------------------------------------------------
\* A pod that goes on with its work and wants nothing else.
LEMMA WorkHeld ==
    ASSUME NEW p \in Pods, NEW s \in Slots,
           ~Wanted(p, s)', \A a \in Clearing : ~At(p, s, a)',
           Leases(p, s)', Running(p)',
           Doing(p, "claimer", "resume", s)' \/ Doing(p, "claimer", "pair", s)'
               => link'[p][s] = "new",
           Doing(p, "claimer", "mark-qr", s)' \/ At(p, s, "qr-wait")' => link'[p][s] = "pairing"
    PROVE  Held(p, s)'
<1>1. ~Listed(p, s)' /\ ~Doing(p, "claimer", "check", s)'
    BY DEF Wanted
<1>2. \A r, t \in todo'[p] : r.slot = s /\ t.slot = s => r = t
    BY <1>1 DEF Listed
<1>3. ~Clears(p, s)'
    BY DEF Clears
<1> QED
    BY <1>1, <1>2, <1>3 DEF Held

\* A callback or a reader that is about to free the row, alone with a closed client.
LEMMA ClearingHeld ==
    ASSUME NEW p \in Pods, NEW s \in Slots, NEW b \in Clearing,
           ~Wanted(p, s)', ~Making(p, s)', link'[p][s] = "closed",
           \A a \in Watched : At(p, s, a)' => a = b,
           Leases(p, s)', Running(p)'
    PROVE  Held(p, s)'
<1>1. ~Listed(p, s)' /\ ~Doing(p, "claimer", "check", s)'
    BY DEF Wanted
<1>2. \A r, t \in todo'[p] : r.slot = s /\ t.slot = s => r = t
    BY <1>1 DEF Listed
<1>3. /\ ~Doing(p, "claimer", "resume", s)' /\ ~Doing(p, "claimer", "pair", s)'
      /\ ~Doing(p, "claimer", "mark-qr", s)'
    BY DEF Making
<1>4. ~At(p, s, "qr-wait")' /\ ~At(p, s, "expire-evict")'
    BY WatchedSteps
<1> QED
    BY <1>1, <1>2, <1>3, <1>4, WatchedSteps DEF Held

\* What a worker or a reader that is past the check excludes.
LEMMA MakingIsPast ==
    ASSUME NEW p \in Pods, NEW s \in Slots, Making(p, s)
    PROVE  Past(p, "claimer", s)
BY DEF Making, Past, Doing, Steps

\* With the job and the list as they were, the claimer is where it was.
LEMMA SameWork ==
    ASSUME NEW p \in Pods, NEW s \in Slots, todo'[p] = todo[p], job'[p] = job[p]
    PROVE  /\ Listed(p, s)' <=> Listed(p, s)
           /\ \A step : Doing(p, "claimer", step, s)' <=> Doing(p, "claimer", step, s)
           /\ Wanted(p, s)' <=> Wanted(p, s)
           /\ Making(p, s)' <=> Making(p, s)
<1>1. Listed(p, s)' <=> Listed(p, s)
    BY DEF Listed
<1>2. \A step : Doing(p, "claimer", step, s)' <=> Doing(p, "claimer", step, s)
    BY DEF Doing
<1> QED
    BY <1>1, <1>2 DEF Wanted, Making

\* Callbacks, readers and commands, at any slot.
LEMMA CallbackHeld ==
    ASSUME OwnerInv, NEW p \in Pods, NEW s \in Slots, NEW q \in Pods, NEW t \in Slots,
           Callback(q, t)
    PROVE  Held(p, s)'
<1> USE DEF OwnerInv, ManagerInv
<1> USE WatchedSteps
<1>1. UNCHANGED <<up, todo, job>>
    BY CallbackFrame
<1>2. Running(p) => Running(p)'
    BY <1>1 DEF Running
<1>3. CASE Quiet(q, t)
  <2>1. \A a \in Watched : At(p, s, a)' => At(p, s, a)
    BY <1>3, QuietTasks
  <2>2. UNCHANGED link
    BY <1>3, QuietRows DEF client
  <2>3. Leases(p, s) => Leases(p, s)'
    BY <1>3, QuietRows, LeaseStays
  <2> QED
    BY <1>1, <1>2, <2>1, <2>2, <2>3, HeldStays DEF Doing
<1>4. CASE LoggedOutMark(q, t) \/ OperatorMark(q, t) \/ ExpireClear(q, t)
  <2>1. PICK a \in Clearing, b \in Clearing : At(q, t, a) /\ Goes(q, t, a, {b})
    BY <1>4 DEF LoggedOutMark, OperatorMark, ExpireClear, Clearing
  <2> a \in TaskSteps /\ {b} \in SUBSET TaskSteps
    OBVIOUS
  <2>2. UNCHANGED <<rows, link>>
    BY <1>4 DEF LoggedOutMark, OperatorMark, ExpireClear, client
  <2>3. Leases(p, s) => Leases(p, s)'
    BY <2>2, LeaseStays
  <2>4. CASE p = q /\ s = t
    <3>1. Clears(p, s) /\ Busy(p, s)
        BY <2>1, <2>4 DEF Clears, Busy
    <3>2. \A c \in Watched : At(p, s, c)' => c = b \/ (At(p, s, c) /\ c # a)
        BY <2>1, <2>4, GoesTypes
    <3>3. \A c \in Watched : At(p, s, c) => c = a
        BY <2>1, <2>4, <3>1 DEF Held, Watched
    <3>4. \A c \in Watched : At(p, s, c)' => c = b
        BY <3>2, <3>3
    <3>5. ~Wanted(p, s)' /\ ~Making(p, s)'
        BY <1>1, <3>1, SameWork DEF Held
    <3>6. link'[p][s] = "closed"
        BY <2>2, <3>1 DEF Held
    <3> QED
        BY <1>2, <2>3, <3>1, <3>4, <3>5, <3>6, ClearingHeld DEF Held
  <2>5. CASE p # q \/ s # t
    <3>1. \A c \in Watched : At(p, s, c)' => At(p, s, c)
        BY <2>1, <2>5, GoesTypes
    <3> QED
        BY <1>1, <1>2, <2>2, <2>3, <3>1, HeldStays DEF Doing
  <2> QED
    BY <2>4, <2>5
<1>5. CASE LoggedOutRow(q, t) \/ OperatorRow(q, t) \/ ExpireRow(q, t)
  <2>1. PICK a \in Clearing, next \in SUBSET {"expire-evict"} : At(q, t, a) /\ Goes(q, t, a, next)
    BY <1>5 DEF LoggedOutRow, OperatorRow, ExpireRow, Clearing
  <2> next \in SUBSET TaskSteps /\ a \in TaskSteps /\ \A c \in next : c = "expire-evict"
    OBVIOUS
  <2>2. UNCHANGED link /\ SetStatus(q, t, "disconnected", NoJid)
    BY <1>5 DEF LoggedOutRow, OperatorRow, ExpireRow, client
  <2>3. Clears(q, t)
    BY <2>1 DEF Clears
  <2>4. CASE p = q /\ s = t
    <3>1. Clears(p, s) /\ Busy(p, s)
        BY <2>3, <2>4 DEF Busy
    <3>2. \A c \in Watched : At(p, s, c)' => c = "expire-evict" \/ (At(p, s, c) /\ c # a)
        BY <2>1, <2>4, GoesTypes
    <3>3. \A c \in Watched : At(p, s, c) => c = a
        BY <2>1, <2>4, <3>1 DEF Held, Watched
    <3>4. \A c \in Watched \ {"expire-evict"} : ~At(p, s, c)'
        BY <3>2, <3>3
    <3>5. ~Wanted(p, s) /\ ~Making(p, s) /\ link[p][s] = "closed"
        BY <3>1 DEF Held
    <3>6. ~Listed(p, s)' /\ \A step \in ClaimerSteps : ~Doing(p, "claimer", step, s)'
        BY <1>1, <3>5, SameWork DEF Wanted, Making, ClaimerSteps
    <3> QED
        BY <2>2, <3>4, <3>5, <3>6, NothingHeld
  <2>5. CASE p # q \/ s # t
    <3>1. \A c \in Watched : At(p, s, c)' => At(p, s, c)
        BY <2>1, <2>5, GoesTypes
    <3>2. Leases(p, s) => Leases(p, s)'
        BY <2>2, <2>3, <2>5, LeaseStays
    <3> QED
        BY <1>1, <1>2, <2>2, <3>1, <3>2, HeldStays DEF Doing
  <2> QED
    BY <2>4, <2>5
<1>6. CASE ExpireEvict(q, t)
  <2>1. /\ At(q, t, "expire-evict") /\ Goes(q, t, "expire-evict", {})
        /\ SetClient(q, t, "none", NoJid) /\ UNCHANGED rows
        /\ link' = [link EXCEPT ![q][t] = "none"]
    BY <1>6 DEF ExpireEvict, SetClient
  <2>2. Leases(p, s) => Leases(p, s)'
    BY <2>1, LeaseStays
  <2>3. \A c \in Watched : At(p, s, c)' => At(p, s, c)
    BY <2>1, GoesTypes
  <2>4. CASE p = q /\ s = t
    <3>1. Kept(p, s) /\ At(p, s, "expire-evict") /\ "expire-evict" \in Reading /\ "qr-wait" \in Reading
        BY <2>1, <2>4 DEF Reading, Expiring
    <3>2. ~Making(p, s) /\ ~At(p, s, "qr-wait") /\ ~Clears(p, s)
        BY <3>1, MakingIsPast DEF Kept, Held, Workers
    <3>3. link'[p][s] = "none"
        BY <2>1, <2>4 DEF TypeOK
    <3>4. \A c \in Clearing : ~At(p, s, c)'
        BY <2>3, <3>2 DEF Clears
    <3>5. ~At(p, s, "qr-wait")' /\ ~Clears(p, s)'
        BY <2>3, <3>2, <3>4 DEF Clears
    <3>6. ~Making(p, s)' /\ (Wanted(p, s)' <=> Wanted(p, s))
        BY <1>1, <3>2, SameWork
    <3>7. ~Busy(p, s)'
        BY <3>3, <3>5, <3>6 DEF Busy
    <3>8. ~(Listed(p, s)' /\ Doing(p, "claimer", "check", s)')
        BY <1>1, SameWork DEF Held
    <3>9. /\ ~Doing(p, "claimer", "resume", s)' /\ ~Doing(p, "claimer", "pair", s)'
          /\ ~Doing(p, "claimer", "mark-qr", s)'
        BY <3>6 DEF Making
    <3>10. \A r, u \in todo'[p] : r.slot = s /\ u.slot = s => r = u
        BY <1>1 DEF Held
    <3>11. Wanted(p, s)' => Leases(p, s)' /\ Running(p)'
        BY <1>2, <2>2, <3>6 DEF Held
    <3> QED
        BY <3>4, <3>5, <3>7, <3>8, <3>9, <3>10, <3>11 DEF Held
  <2>5. CASE p # q \/ s # t
    <3>1. link'[p][s] = link[p][s]
        BY <2>1, <2>5, LinkElsewhere
    <3> QED
        BY <1>1, <1>2, <2>2, <2>3, <3>1, HeldStays DEF Doing
  <2> QED
    BY <2>4, <2>5
<1> QED
    BY <1>3, <1>4, <1>5, <1>6 DEF Callback, Quiet

-----------------------------------------------------------------------------
\* What the phone and the network do, at any slot.
LEMMA ExternalHeld ==
    ASSUME OwnerInv, Undisturbed, NEW p \in Pods, NEW s \in Slots, NEW q \in Pods,
           NEW t \in Slots, External(q, t)
    PROVE  Held(p, s)'
<1> USE DEF OwnerInv, ManagerInv
<1> USE WatchedSteps
<1>1. UNCHANGED <<rows, up, todo, job>>
    BY ExternalFrame
<1>2. Leases(p, s) /\ Running(p) => Leases(p, s)' /\ Running(p)'
    BY <1>1, LeaseUnwritten
<1>3. ~OperatorClose(q, t)
    BY DEF OperatorClose, Undisturbed
<1>4. /\ Listed(p, s)' <=> Listed(p, s)
      /\ \A step : Doing(p, "claimer", step, s)' <=> Doing(p, "claimer", step, s)
      /\ Wanted(p, s)' <=> Wanted(p, s)
      /\ Making(p, s)' <=> Making(p, s)
    BY <1>1, SameWork
<1>5. CASE p # q \/ s # t
  <2>1. \/ \E step \in TaskSteps : Begins(q, t, step)
        \/ \E step \in TaskSteps, next \in SUBSET TaskSteps : Goes(q, t, step, next)
        \/ UNCHANGED tasks
    BY DEF External, LogIn, Drop, Redial, LogOut, QRCode, Pair, QRTimeout, QRError,
           OperatorClose, TaskSteps, callbacks
  <2>2. \A a \in Watched : At(p, s, a)' => At(p, s, a)
    BY <1>5, <2>1, BeginsTypes, GoesTypes DEF At
  <2>4. link'[p][s] = link[p][s]
    BY <1>5, ExternalFrame, LinkElsewhere
  <2> QED
    BY <1>1, <1>2, <2>2, <2>4, HeldStays DEF Doing
<1>6. ASSUME p = q, s = t, link[p][s] \in {"pairing", "authing", "live", "dropped"}
      PROVE  /\ Leases(p, s)' /\ Running(p)' /\ ~Wanted(p, s)' /\ ~Clears(p, s)
             /\ \A a \in Clearing : ~At(p, s, a)
  <2>1. Busy(p, s)
    BY <1>6 DEF Busy
  <2> QED
    BY <1>2, <1>4, <1>6, <2>1 DEF Held, Clears
<1>7. ASSUME p = q, s = t,
             \/ link[p][s] \in {"authing", "live", "dropped"}
             \/ link[p][s] = "pairing" /\ At(p, s, "qr-wait")
      PROVE  ~Making(p, s)
  <2>1. Kept(p, s) /\ "claimer" \in Workers /\ "qr-wait" \in Reading
    BY DEF Workers, Reading
  <2>2. CASE link[p][s] \in {"authing", "live", "dropped"}
    <3>1. ~Doing(p, "claimer", "device", s)
        BY <2>1, <2>2 DEF Kept
    <3> QED
        BY <2>2, <3>1 DEF Making, Held
  <2>3. CASE At(p, s, "qr-wait")
    BY <2>1, <2>3, MakingIsPast DEF Kept
  <2> QED
    BY <1>7, <2>2, <2>3
<1>8. CASE p = q /\ s = t /\ (LogIn(p, s) \/ Drop(p, s) \/ Redial(p, s) \/ Pair(p, s))
  <2>2. \/ link[p][s] \in {"authing", "live", "dropped"}
        \/ link[p][s] = "pairing" /\ At(p, s, "qr-wait")
    BY <1>8 DEF LogIn, Drop, Redial, Pair
  <2>3. /\ Leases(p, s)' /\ Running(p)' /\ ~Wanted(p, s)' /\ ~Making(p, s)'
        /\ \A a \in Clearing : ~At(p, s, a)
    BY <1>4, <1>6, <1>7, <1>8, <2>2
  <2>4. /\ \A a \in Watched : At(p, s, a)' => At(p, s, a)
        /\ ~At(p, s, "qr-wait")'
    <3>1. CASE LogIn(p, s) \/ Drop(p, s) \/ Redial(p, s)
      <4>1. (\E step \in TaskSteps \ Watched : Begins(p, s, step)) \/ UNCHANGED tasks
        BY <3>1 DEF LogIn, Drop, Redial, TaskSteps, Watched, Clearing, callbacks
      <4>2. ~At(p, s, "qr-wait")
        BY <3>1 DEF LogIn, Drop, Redial, Held
      <4> QED
        BY <4>1, <4>2, BeginsTypes DEF At
    <3>2. CASE Pair(p, s)
      <4>1. /\ "qr-wait" \in TaskSteps /\ {"qr-success", "paired-save"} \in SUBSET (TaskSteps \ Watched)
            /\ Goes(p, s, "qr-wait", {"qr-success", "paired-save"})
        BY <3>2 DEF Pair, TaskSteps, Watched, Clearing
      <4> QED
        BY <4>1, GoesTypes
    <3> QED
        BY <1>8, <3>1, <3>2
  <2>5. \A a \in Clearing : ~At(p, s, a)'
    BY <2>3, <2>4
  <2>6. /\ ~Doing(p, "claimer", "resume", s)' /\ ~Doing(p, "claimer", "pair", s)'
        /\ ~Doing(p, "claimer", "mark-qr", s)'
    BY <2>3 DEF Making
  <2> QED
    BY <2>3, <2>4, <2>5, <2>6, WorkHeld
<1>9. CASE p = q /\ s = t /\ QRCode(p, s)
  <2>1. "qr-code" \in TaskSteps \ Watched /\ Begins(p, s, "qr-code") /\ UNCHANGED link
    BY <1>9 DEF QRCode, TaskSteps, Watched, Clearing, client
  <2>2. \A a \in Watched : At(p, s, a)' => At(p, s, a)
    BY <2>1, BeginsTypes
  <2> QED
    BY <1>1, <1>2, <2>1, <2>2, HeldStays DEF Doing
<1>10. CASE p = q /\ s = t /\ (LogOut(p, s) \/ QRTimeout(p, s))
  <2>1. /\ link' = [link EXCEPT ![p][s] = "closed"]
        /\ \/ link[p][s] \in {"authing", "live"}
           \/ link[p][s] = "pairing" /\ At(p, s, "qr-wait")
    BY <1>10 DEF LogOut, QRTimeout, SetLink, SetClient, Held
  <2>2. /\ Leases(p, s)' /\ Running(p)' /\ ~Wanted(p, s)' /\ ~Making(p, s)'
        /\ \A a \in Clearing : ~At(p, s, a)
    BY <1>4, <1>6, <1>7, <1>10, <2>1
  <2>3. link'[p][s] = "closed"
    BY <2>1 DEF TypeOK
  <2>4. Kept(p, s) /\ "expire-evict" \in Expiring /\ "expire-evict" \in Reading /\ "qr-wait" \in Reading
    BY DEF Reading, Expiring
  <2>5. ~At(p, s, "expire-evict")
    BY <2>1, <2>4 DEF Kept
  <2>6. CASE LogOut(p, s)
    <3>1. "loggedout-mark" \in Clearing /\ Begins(p, s, "loggedout-mark")
        BY <2>6 DEF LogOut, Clearing
    <3>2. ~At(p, s, "qr-wait")
        BY <2>6 DEF LogOut, Held
    <3>3. \A a \in Watched : At(p, s, a)' => a = "loggedout-mark"
        BY <2>2, <2>5, <3>1, <3>2, BeginsTypes DEF Watched
    <3> QED
        BY <2>2, <2>3, <3>1, <3>3, ClearingHeld
  <2>7. CASE QRTimeout(p, s)
    <3>1. "expire-clear" \in Clearing /\ Goes(p, s, "qr-wait", {"expire-clear"})
        BY <2>7 DEF QRTimeout, Clearing
    <3>2. "qr-wait" \in TaskSteps /\ {"expire-clear"} \in SUBSET TaskSteps
        BY <3>1
    <3>3. \A a \in Watched : At(p, s, a)' => a = "expire-clear"
        BY <2>2, <2>5, <3>1, <3>2, GoesTypes DEF Watched
    <3> QED
        BY <2>2, <2>3, <3>1, <3>3, ClearingHeld
  <2> QED
    BY <1>10, <2>6, <2>7
<1>11. CASE p = q /\ s = t /\ QRError(p, s)
  <2>1. /\ link' = [link EXCEPT ![p][s] = "closed"]
        /\ link[p][s] = "pairing" /\ At(p, s, "qr-wait")
        /\ Goes(p, s, "qr-wait", {}) /\ "qr-wait" \in TaskSteps
    BY <1>11 DEF QRError, SetLink
  <2>2. ~Wanted(p, s)' /\ ~Making(p, s)' /\ \A a \in Clearing : ~At(p, s, a)
    BY <1>4, <1>6, <1>7, <1>11, <2>1
  <2>3. \A a \in Watched \ {"expire-evict"} : ~At(p, s, a)'
    BY <2>1, <2>2, GoesTypes DEF Watched
  <2>4. link'[p][s] = "closed"
    BY <2>1 DEF TypeOK
  <2>5. ~Listed(p, s)' /\ \A step \in ClaimerSteps : ~Doing(p, "claimer", step, s)'
    BY <2>2 DEF Wanted, Making, ClaimerSteps
  <2> QED
    BY <2>3, <2>4, <2>5, NothingHeld
<1> QED
    BY <1>3, <1>5, <1>8, <1>9, <1>10, <1>11 DEF External

-----------------------------------------------------------------------------
\* Bring, at the slot of the claimer and at the others.
LEMMA BringUpHeld ==
    ASSUME OwnerInv, NEW p \in Pods, NEW s \in Slots, NEW q \in Pods, NEW w \in Workers,
           NEW t \in Slots, BringUp(q, w, t)
    PROVE  Held(p, s)'
<1> USE DEF OwnerInv, ManagerInv
<1> USE WatchedSteps
<1>1. CASE BringPanics(q, w, t)
    BY <1>1, GoneHeld DEF BringPanics
<1>2. CASE ~BringPanics(q, w, t)
  <2>1. w = "claimer" /\ ~MarkClaimed(q, w, t)
    BY ClaimerBrings
  <2>3. UNCHANGED <<up, todo>>
    BY <1>2, BringFrame
  <2>4. Leases(p, s) => Leases(p, s)'
    <3>1. CASE BringRow(q, w, t)
      <4>1. job[q][w].jid \in JidOrNone /\ SetStatus(q, t, "connected", job[q][w].jid)
        BY <3>1, DoingTypes DEF BringRow, Steps
      <4> QED
        BY <4>1, LeaseStays
    <3>2. CASE ~BringRow(q, w, t)
      <4>1. UNCHANGED rows
        BY <1>2, <2>1, <3>2 DEF BringUp, BringCheck, BringDevice, BringResume, BringMark, BringRead,
                          BringLog, BringPair, BringMarkQR
      <4> QED
        BY <4>1, LeaseStays
    <3> QED
        BY <3>1, <3>2
  <2>5. Running(p) => Running(p)'
    BY <2>3 DEF Running
  <2>6. PICK step \in Steps \ {"mark-claimed"}, next \in (Steps \cup {"none"}) \ {"check", "mark-claimed"} :
            Doing(q, w, step, t) /\ Moves(q, w, t, next)
    BY <1>2, <2>1, BringMoves
  <2>7. ClaimerSteps \subseteq Steps
    BY DEF ClaimerSteps, Steps
  <2>8. CASE p # q \/ s # t
    <3>1. \A a \in ClaimerSteps : Doing(p, "claimer", a, s)' => Doing(p, "claimer", a, s)
        BY <2>6, <2>7, <2>8, MovesDoing DEF Workers
    <3>3. link'[p][s] = link[p][s]
        BY <1>2, <2>8, BringFrame, LinkElsewhere
    <3>4. UNCHANGED tasks \/ Begins(q, t, "qr-wait")
        BY <1>2, BringFrame
    <3>5. \A a \in Watched : At(p, s, a)' => At(p, s, a)
        BY <2>8, <3>4, BeginsTypes DEF At
    <3> QED
        BY <2>3, <2>4, <2>5, <3>1, <3>3, <3>5, HeldStays
  <2>9. ASSUME p = q, s = t
        PROVE  \A a \in ClaimerSteps : Doing(p, "claimer", a, s)' => a = next
    BY <2>1, <2>6, <2>7, <2>9, MovesDoing
  <2>10. CASE p = q /\ s = t /\ BringCheck(p, w, s) /\ Owns(p, s)
    <3>1. Advance(p, w, "none") /\ UNCHANGED <<link, tasks>> /\ Doing(p, w, "check", s)
        BY <2>10 DEF BringCheck, Managed, client, callbacks
    <3>2. \A a \in ClaimerSteps : ~Doing(p, "claimer", a, s)'
        BY <2>1, <2>7, <3>1, AdvanceDoing DEF Steps, ClaimerSteps
    <3> QED
        BY <2>3, <2>4, <2>5, <3>1, <3>2, HeldStays DEF At
  <2>11. CASE p = q /\ s = t /\ BringCheck(p, w, s) /\ ~Owns(p, s)
    <3>1. /\ Advance(p, w, "device") /\ UNCHANGED tasks
          /\ Doing(p, "claimer", "check", s)
        BY <2>1, <2>11 DEF BringCheck, Managed, callbacks
    <3>2. \A a \in ClaimerSteps : Doing(p, "claimer", a, s)' => a = "device"
        BY <2>1, <2>7, <3>1, AdvanceDoing DEF Steps, ClaimerSteps
    <3>3. Wanted(p, s) /\ ~Busy(p, s) /\ ~Listed(p, s)
        BY <3>1 DEF Held, Wanted
    <3>4. ~Wanted(p, s)'
        BY <2>3, <3>2, <3>3 DEF Wanted, Listed, ClaimerSteps
    <3>5. (\A a \in Clearing : ~At(p, s, a)') /\ ~At(p, s, "qr-wait")'
        BY <3>1, <3>3 DEF Busy, Clears, At
    <3>6. Leases(p, s)' /\ Running(p)'
        BY <2>4, <2>5, <3>3 DEF Held
    <3>7. /\ ~Doing(p, "claimer", "resume", s)' /\ ~Doing(p, "claimer", "pair", s)'
          /\ ~Doing(p, "claimer", "mark-qr", s)'
        BY <3>2 DEF ClaimerSteps
    <3> QED
        BY <3>4, <3>5, <3>6, <3>7, WorkHeld
  <2>12. CASE p = q /\ s = t /\ Finishes(p, w, s)
    <3>2. UNCHANGED <<link, tasks>>
        BY <2>12 DEF Finishes, BringMark, BringRead, BringRow, BringLog, client, callbacks
    <3>4. \A a \in ClaimerSteps : ~Doing(p, "claimer", a, s)'
        BY <2>1, <2>12, FinishesDoing
    <3> QED
        BY <2>3, <2>4, <2>5, <3>2, <3>4, HeldStays DEF At
  <2>13. ASSUME p = q, s = t, NEW u \in {"device", "resume", "pair", "mark-qr"},
                Doing(p, "claimer", u, s)
         PROVE  /\ Leases(p, s)' /\ Running(p)' /\ ~Wanted(p, s)'
                /\ (\A a \in Clearing : ~At(p, s, a)) /\ ~At(p, s, "qr-wait")
    <3>1. Making(p, s) /\ Busy(p, s)
        BY <2>13 DEF Making, Busy
    <3>2. ~Wanted(p, s) /\ ~Clears(p, s) /\ Leases(p, s) /\ Running(p)
        BY <3>1 DEF Held
    <3>3. ~Doing(p, "claimer", "check", s)'
        BY <2>9, <2>13 DEF ClaimerSteps
    <3>4. ~Wanted(p, s)'
        BY <2>3, <3>2, <3>3 DEF Wanted, Listed
    <3>5. ~At(p, s, "qr-wait")
      <4>1. Kept(p, s) /\ "claimer" \in Workers /\ "qr-wait" \in Reading
        BY DEF Workers, Reading
      <4> QED
        BY <3>1, <4>1, MakingIsPast DEF Kept
    <3> QED
        BY <2>4, <2>5, <3>2, <3>4, <3>5 DEF Clears
  <2>14. CASE p = q /\ s = t /\ (BringDevice(p, w, s) \/ BringResume(p, w, s) \/ BringPair(p, w, s))
    <3>1. PICK u \in {"device", "resume", "pair"} : Doing(p, "claimer", u, s)
        BY <2>1, <2>14 DEF BringDevice, BringResume, BringPair
    <3>2. /\ Leases(p, s)' /\ Running(p)' /\ ~Wanted(p, s)'
          /\ (\A a \in Clearing : ~At(p, s, a)) /\ ~At(p, s, "qr-wait")
        BY <2>13, <2>14, <3>1
    <3>3. UNCHANGED tasks
        BY <2>14 DEF BringDevice, BringResume, BringPair, callbacks
    <3>4. (\A a \in Clearing : ~At(p, s, a)') /\ ~At(p, s, "qr-wait")'
        BY <3>2, <3>3 DEF At
    <3>5. PICK n \in Steps \cup {"none"} :
              /\ Advance(p, w, n)
              /\ \/ n \in {"resume", "pair"} /\ link' = [link EXCEPT ![p][s] = "new"]
                 \/ n = "mark-qr" /\ link' = [link EXCEPT ![p][s] = "pairing"]
                 \/ n \in {"mark", "none"}
        BY <2>14 DEF BringDevice, OverDevice, OverNewDevice, BringResume, BringPair, SetLink,
                     SetClient, Steps
    <3>6. \A a \in ClaimerSteps : Doing(p, "claimer", a, s)' => a = n
        BY <2>1, <2>6, <2>7, <2>14, <3>1, <3>5, AdvanceDoing DEF Steps
    <3>7. /\ Doing(p, "claimer", "resume", s)' \/ Doing(p, "claimer", "pair", s)' => link'[p][s] = "new"
          /\ Doing(p, "claimer", "mark-qr", s)' => link'[p][s] = "pairing"
        BY <3>5, <3>6 DEF ClaimerSteps, TypeOK
    <3> QED
        BY <3>2, <3>4, <3>7, WorkHeld
  <2>15. CASE p = q /\ s = t /\ BringMarkQR(p, w, s)
    <3>1. /\ Doing(p, "claimer", "mark-qr", s) /\ Advance(p, w, "none")
          /\ Begins(p, s, "qr-wait") /\ UNCHANGED link /\ link[p][s] = "pairing"
        BY <2>1, <2>15 DEF BringMarkQR, Held, client
    <3>2. /\ Leases(p, s)' /\ Running(p)' /\ ~Wanted(p, s)'
          /\ \A a \in Clearing : ~At(p, s, a)
        BY <2>13, <2>15, <3>1
    <3>3. \A a \in Clearing : ~At(p, s, a)'
        BY <3>1, <3>2, BeginsTypes
    <3>4. \A a \in ClaimerSteps : ~Doing(p, "claimer", a, s)'
        BY <2>1, <2>7, <3>1, AdvanceDoing DEF Steps, ClaimerSteps
    <3> QED
        BY <3>1, <3>2, <3>3, <3>4, WorkHeld DEF ClaimerSteps
  <2> QED
    BY <1>2, <2>1, <2>8, <2>10, <2>11, <2>12, <2>14, <2>15 DEF BringUp, Finishes
<1> QED
    BY <1>1, <1>2

-----------------------------------------------------------------------------
LEMMA ClaimsOnlyStep ==
    ASSUME TypeOK, Undisturbed, NEW p \in Pods, ClaimsOnly(p), [Next]_vars
    PROVE  ClaimsOnly(p)'
<1>1. NoJob.step = "none" /\ "claimer" \in Workers /\ "http" \in Workers
    BY DEF NoJob, Workers
<1>2. ASSUME UNCHANGED <<up, job>>
      PROVE  ClaimsOnly(p)'
    BY <1>2 DEF ClaimsOnly
<1>3. ASSUME NEW q \in Pods, NoMemory(q), up' = [up EXCEPT ![q] = "down"]
      PROVE  ClaimsOnly(p)'
    BY <1>1, <1>3, NoMemoryTypes DEF ClaimsOnly, TypeOK
<1>4. ASSUME NEW q \in Pods, Process(q)
      PROVE  ClaimsOnly(p)'
  <2>1. CASE Start(q)
    BY <2>1 DEF Start, memory, ClaimsOnly, TypeOK
  <2>2. CASE Crash(q) \/ Exit(q)
    BY <1>3, <2>2 DEF Crash, Exit
  <2>3. CASE Signal(q) \/ CloseClients(q) \/ Release(q)
    <3>1. p # q
      BY <2>3 DEF Signal, CloseClients, Release, Undisturbed, ClaimsOnly
    <3> QED
      BY <2>3, <3>1 DEF Signal, CloseClients, Release, memory, ClaimsOnly, TypeOK
  <2> QED
    BY <1>4, <2>1, <2>2, <2>3 DEF Process
<1>5. ASSUME NEW q \in Pods, NextClaimed(q)
      PROVE  ClaimsOnly(p)'
  <2>1. PICK r \in todo[q] :
            job' = [job EXCEPT ![q]["claimer"] =
                      IF Owns(q, r.slot) THEN NoJob
                      ELSE [step |-> "check", slot |-> r.slot, jid |-> r.jid]]
    BY <1>5 DEF NextClaimed
  <2>2. /\ job'[p]["http"] = job[p]["http"]
        /\ \/ job'[p]["claimer"] \in {job[p]["claimer"], NoJob}
           \/ job'[p]["claimer"] = [step |-> "check", slot |-> r.slot, jid |-> r.jid]
    BY <1>1, <2>1 DEF TypeOK
  <2>3. UNCHANGED up
    BY <1>5 DEF NextClaimed
  <2> QED
    BY <1>1, <2>2, <2>3 DEF ClaimsOnly
<1>6. ASSUME NEW q \in Pods, NEW w \in Workers, NEW t \in Slots, BringUp(q, w, t)
      PROVE  ClaimsOnly(p)'
  <2>1. CASE BringPanics(q, w, t)
    BY <1>3, <2>1 DEF BringPanics
  <2>2. CASE ~BringPanics(q, w, t)
    <3>1. PICK step \in Steps, next \in (Steps \cup {"none"}) \ {"mark-claimed"} :
              Doing(q, w, step, t) /\ Moves(q, w, t, next)
      BY <1>6, <2>2, BringMoves
    <3>2. ~(q = p /\ w = "http")
      BY <1>1, <3>1 DEF Doing, ClaimsOnly, Steps
    <3>3. /\ job'[p]["http"] = job[p]["http"]
          /\ job'[p]["claimer"] = job[p]["claimer"] \/ job'[p]["claimer"].step = next
      BY <1>1, <3>1, <3>2 DEF Moves
    <3>4. UNCHANGED up
      BY <1>6, <2>2, BringFrame
    <3> QED
      BY <3>3, <3>4 DEF ClaimsOnly
  <2> QED
    BY <2>1, <2>2
<1>7. ASSUME NEW q \in Pods, NEW t \in Slots, Callback(q, t) \/ External(q, t)
      PROVE  UNCHANGED <<up, job>>
    BY <1>7, CallbackFrame, ExternalFrame
<1>8. \A q \in Pods, t \in Slots : ~CreateConnection(q, t)
    BY DEF CreateConnection, Undisturbed
<1>9. ASSUME \/ UNCHANGED vars
             \/ \E t \in Slots : Expire(t)
             \/ \E q \in Pods : Heartbeat(q) \/ Claim(q)
      PROVE  UNCHANGED <<up, job>>
    BY <1>9 DEF vars, memory, Expire, Heartbeat, Claim
<1> QED
    BY <1>2, <1>4, <1>5, <1>6, <1>7, <1>8, <1>9 DEF Next

LEMMA HeldStep ==
    ASSUME OwnerInv, Undisturbed, NEW p \in Pods, NEW s \in Slots, [Next]_vars
    PROVE  Held(p, s)'
<1>1. CASE UNCHANGED vars
  <2>1. UNCHANGED <<rows, up, todo, job, tasks, link>>
    BY <1>1 DEF vars, memory, client, callbacks
  <2>2. Leases(p, s) /\ Running(p) => Leases(p, s)' /\ Running(p)'
    BY <2>1, LeaseUnwritten
  <2> QED
    BY <2>1, <2>2, HeldStays DEF OwnerInv, Doing, At
<1>2. \A q \in Pods, t \in Slots : ~CreateConnection(q, t)
    BY DEF CreateConnection, Undisturbed
<1> QED
    BY <1>1, <1>2, ProcessHeld, TimeHeld, ClaimHeld, NextHeld, CallbackHeld, ExternalHeld,
       BringUpHeld DEF Next

LEMMA OwnerInvHolds ==
    ASSUME Undisturbed
    PROVE  Spec => []OwnerInv
<1>1. Init => OwnerInv
  <2> SUFFICES ASSUME Init
               PROVE  OwnerInv
    OBVIOUS
  <2>1. ManagerInv
    BY ManagerInvInit
  <2>2. ASSUME NEW p \in Pods
        PROVE  ClaimsOnly(p)
    BY DEF Init, ClaimsOnly, Workers, NoJob
  <2>3. ASSUME NEW p \in Pods, NEW s \in Slots
        PROVE  Held(p, s)
    <3>1. todo[p] = {} /\ tasks[p] = {} /\ job[p]["claimer"].step = "none" /\ link[p][s] = "none"
        BY DEF Init, Workers, NoJob
    <3>2. ~Wanted(p, s) /\ ~Making(p, s) /\ ~Clears(p, s)
        BY <3>1 DEF Wanted, Listed, Making, Clears, Doing, At
    <3>3. ~Busy(p, s)
        BY <3>1, <3>2 DEF Busy, At
    <3> QED
        BY <3>1, <3>2, <3>3 DEF Held, Doing, At, Listed
  <2> QED
    BY <2>1, <2>2, <2>3 DEF OwnerInv
<1>2. OwnerInv /\ [Next]_vars => OwnerInv'
  <2> SUFFICES ASSUME OwnerInv, [Next]_vars
               PROVE  OwnerInv'
    OBVIOUS
  <2>1. ManagerInv'
    BY ManagerInvStep DEF OwnerInv
  <2>2. \A p \in Pods : ClaimsOnly(p)'
    BY ClaimsOnlyStep DEF OwnerInv, ManagerInv
  <2> QED
    BY <2>1, <2>2, HeldStep DEF OwnerInv
<1> QED
    BY <1>1, <1>2, PTL DEF Spec

-----------------------------------------------------------------------------
\* A client that is live belongs to the pod its row names, in every interleaving of
\* claims, bring-ups, callbacks and QR readers with crashes, logouts, timeouts and
\* statements that fail.
THEOREM LiveSessionsAreOwned ==
    ASSUME Undisturbed
    PROVE  Spec => []LiveIsOwned
<1>1. OwnerInv => LiveIsOwned
    BY DEF OwnerInv, Held, Busy, Leases, LiveIsOwned
<1> QED
    BY <1>1, OwnerInvHolds, PTL

\* So a session is live on one pod at most: the promise the repository makes, which only
\* an operator's command, a creation or a shutdown can break.
THEOREM SessionsAreLiveOnce ==
    ASSUME Undisturbed
    PROVE  Spec => []AtMostOneLive
<1>1. LiveIsOwned => AtMostOneLive
    BY DEF LiveIsOwned, AtMostOneLive
<1> QED
    BY <1>1, LiveSessionsAreOwned, PTL

-----------------------------------------------------------------------------
\* Who serves a slot, before a step and after it.

\* Nothing new is wanted or done at the slot, and the client is the same or gone.
LEMMA ServedStays ==
    ASSUME NEW p \in Pods, NEW s \in Slots,
           todo'[p] \subseteq todo[p],
           \A step \in ClaimerSteps :
               Doing(p, "claimer", step, s)' => Doing(p, "claimer", step, s),
           \A a \in Watched \ {"expire-evict"} : At(p, s, a)' => At(p, s, a),
           link'[p][s] = link[p][s] \/ link'[p][s] \in {"closed", "none"}
    PROVE  Serves(p, s)' => Serves(p, s)
<1>1. Wanted(p, s)' => Wanted(p, s)
    BY DEF Wanted, Listed, ClaimerSteps
<1>2. Making(p, s)' => Making(p, s)
    BY DEF Making, ClaimerSteps
<1>3. Clears(p, s)' => Clears(p, s)
    BY WatchedSteps DEF Clears
<1>4. Busy(p, s)' => Busy(p, s)
    BY <1>2, <1>3, WatchedSteps DEF Busy
<1> QED
    BY <1>1, <1>4 DEF Serves

LEMMA ProcessServes ==
    ASSUME OwnerInv, Undisturbed, NEW p \in Pods, NEW s \in Slots, NEW q \in Pods,
           \/ Process(q)
           \/ \E w \in Workers, t \in Slots : BringPanics(q, w, t)
    PROVE  Serves(p, s)' => Serves(p, s)
<1> USE DEF OwnerInv, ManagerInv
<1>1. ~Signal(q) /\ ~CloseClients(q) /\ ~Release(q) /\ ~Exit(q)
    BY DEF Signal, CloseClients, Release, Exit, Undisturbed, ClaimsOnly
<1>2. CASE Start(q)
    BY <1>2, ServedStays DEF Start, memory, client, callbacks, Doing, At
<1>3. CASE NoMemory(q)
  <2>1. CASE p = q
    <3>1. tasks'[p] = {} /\ job'[p]["claimer"] = NoJob
        BY <1>3, <2>1, NoMemoryTypes DEF Workers
    <3>2. todo'[p] = {} /\ link'[p][s] = "none"
        BY <1>3, <2>1 DEF NoMemory, TypeOK
    <3>3. NoJob.step = "none"
        BY DEF NoJob
    <3> QED
        BY <3>1, <3>2, <3>3, ServedStays DEF Doing, At, ClaimerSteps
  <2>2. CASE p # q
    <3>1. link'[p] = link[p] /\ tasks'[p] = tasks[p] /\ job'[p] = job[p] /\ todo'[p] = todo[p]
        BY <1>3, <2>2, NoMemoryTypes DEF NoMemory, TypeOK
    <3> QED
        BY <3>1, ServedStays DEF Doing, At
  <2> QED
    BY <2>1, <2>2
<1> QED
    BY <1>1, <1>2, <1>3 DEF Process, Crash, BringPanics

LEMMA NextServes ==
    ASSUME OwnerInv, NEW p \in Pods, NEW s \in Slots, NEW q \in Pods, NextClaimed(q)
    PROVE  Serves(p, s)' => Serves(p, s)
<1> USE DEF OwnerInv, ManagerInv
<1>1. PICK r \in todo[q] :
        /\ todo' = [todo EXCEPT ![q] = @ \ {r}]
        /\ job' = [job EXCEPT ![q]["claimer"] =
                     IF Owns(q, r.slot) THEN NoJob
                     ELSE [step |-> "check", slot |-> r.slot, jid |-> r.jid]]
    BY DEF NextClaimed
<1>2. UNCHANGED <<link, tasks>>
    BY DEF NextClaimed, client, callbacks
<1>3. todo'[p] \subseteq todo[p]
    BY <1>1 DEF TypeOK
<1>4. CASE p # q \/ s # r.slot
  <2>1. \A step \in ClaimerSteps :
            Doing(p, "claimer", step, s)' => Doing(p, "claimer", step, s)
    <3>1. NoJob.step = "none"
        BY DEF NoJob
    <3>2. \/ job'[p]["claimer"] = job[p]["claimer"]
          \/ job'[p]["claimer"] = NoJob
          \/ job'[p]["claimer"].slot # s
        BY <1>1, <1>4 DEF TypeOK, Workers
    <3> QED
        BY <3>1, <3>2 DEF Doing, ClaimerSteps
  <2> QED
    BY <1>2, <1>3, <2>1, ServedStays DEF At
<1>5. CASE p = q /\ s = r.slot
    BY <1>5 DEF Serves, Wanted, Listed
<1> QED
    BY <1>4, <1>5

LEMMA CallbackServes ==
    ASSUME OwnerInv, NEW p \in Pods, NEW s \in Slots, NEW q \in Pods, NEW t \in Slots,
           Callback(q, t)
    PROVE  Serves(p, s)' => Serves(p, s)
<1> USE DEF OwnerInv, ManagerInv
<1>1. UNCHANGED <<todo, job>>
    BY CallbackFrame
<1>2. UNCHANGED link \/ link' = [link EXCEPT ![q][t] = "none"]
    BY CallbackFrame DEF client, SetClient
<1>3. link'[p][s] = link[p][s] \/ link'[p][s] = "none"
  <2>1. link \in [Pods -> [Slots -> Links]]
    BY DEF TypeOK
  <2> QED
    BY <1>2, <2>1
<1>4. CASE Quiet(q, t) \/ ExpireEvict(q, t)
  <2>1. \A a \in Watched \ {"expire-evict"} : At(p, s, a)' => At(p, s, a)
    <3>1. CASE Quiet(q, t)
        BY <3>1, QuietTasks
    <3>2. CASE ExpireEvict(q, t)
      <4>1. Goes(q, t, "expire-evict", {}) /\ "expire-evict" \in TaskSteps
        BY <3>2 DEF ExpireEvict, TaskSteps
      <4> QED
        BY <4>1, GoesTypes, WatchedSteps
    <3> QED
        BY <1>4, <3>1, <3>2
  <2> QED
    BY <1>1, <1>3, <2>1, ServedStays DEF Doing
<1>5. CASE \/ LoggedOutMark(q, t) \/ OperatorMark(q, t) \/ ExpireClear(q, t)
           \/ LoggedOutRow(q, t) \/ OperatorRow(q, t) \/ ExpireRow(q, t)
  <2>1. PICK step \in Clearing, next \in SUBSET TaskSteps :
            At(q, t, step) /\ Goes(q, t, step, next)
    BY <1>5 DEF LoggedOutMark, OperatorMark, ExpireClear, LoggedOutRow, OperatorRow, ExpireRow,
                TaskSteps, Clearing
  <2>2. CASE p = q /\ s = t
    BY <2>1, <2>2 DEF Serves, Busy, Clears
  <2>3. CASE p # q \/ s # t
    <3>1. \A a \in Watched : At(p, s, a)' => At(p, s, a)
        BY <2>1, <2>3, GoesTypes, WatchedSteps
    <3> QED
        BY <1>1, <1>3, <3>1, ServedStays DEF Doing
  <2> QED
    BY <2>2, <2>3
<1> QED
    BY <1>4, <1>5 DEF Callback, Quiet

LEMMA ExternalServes ==
    ASSUME OwnerInv, Undisturbed, NEW p \in Pods, NEW s \in Slots, NEW q \in Pods,
           NEW t \in Slots, External(q, t)
    PROVE  Serves(p, s)' => Serves(p, s)
<1> USE DEF OwnerInv, ManagerInv
<1>1. CASE p = q /\ s = t
  <2>1. \/ link[p][s] \in {"pairing", "authing", "live", "dropped"}
        \/ At(p, s, "qr-wait")
    BY <1>1 DEF External, LogIn, Drop, Redial, LogOut, QRCode, Pair, QRTimeout, QRError,
           OperatorClose, Undisturbed
  <2> QED
    BY <2>1 DEF Serves, Busy
<1>2. CASE p # q \/ s # t
  <2>1. UNCHANGED <<todo, job>>
    BY ExternalFrame
  <2>2. \/ \E step \in TaskSteps : Begins(q, t, step)
        \/ \E step \in TaskSteps, next \in SUBSET TaskSteps : Goes(q, t, step, next)
        \/ UNCHANGED tasks
    BY DEF External, LogIn, Drop, Redial, LogOut, QRCode, Pair, QRTimeout, QRError,
           OperatorClose, TaskSteps, callbacks
  <2>3. \A a \in Watched : At(p, s, a)' => At(p, s, a)
    BY <1>2, <2>2, BeginsTypes, GoesTypes, WatchedSteps DEF At
  <2>5. link'[p][s] = link[p][s]
    BY <1>2, ExternalFrame, LinkElsewhere
  <2> QED
    BY <2>1, <2>3, <2>5, ServedStays DEF Doing
<1> QED
    BY <1>1, <1>2

LEMMA BringUpServes ==
    ASSUME OwnerInv, Undisturbed, NEW p \in Pods, NEW s \in Slots, NEW q \in Pods,
           NEW w \in Workers, NEW t \in Slots, BringUp(q, w, t)
    PROVE  Serves(p, s)' => Serves(p, s)
<1> USE DEF OwnerInv, ManagerInv
<1>1. CASE BringPanics(q, w, t)
    BY <1>1, ProcessServes
<1>2. CASE ~BringPanics(q, w, t)
  <2>1. PICK step \in Steps, next \in Steps \cup {"none"} :
            Doing(q, w, step, t) /\ Moves(q, w, t, next)
    BY <1>2, BringMoves
  <2>2. w = "claimer" /\ ~MarkClaimed(q, w, t)
    BY ClaimerBrings
  <2>3. UNCHANGED todo /\ ClaimerSteps \subseteq Steps
    BY <1>2, BringFrame DEF ClaimerSteps, Steps
  <2>4. CASE p # q \/ s # t
    <3>1. \A a \in ClaimerSteps : Doing(p, "claimer", a, s)' => Doing(p, "claimer", a, s)
        BY <2>1, <2>3, <2>4, MovesDoing DEF Workers
    <3>3. link'[p][s] = link[p][s]
        BY <1>2, <2>4, BringFrame, LinkElsewhere
    <3>4. UNCHANGED tasks \/ Begins(q, t, "qr-wait")
        BY <1>2, BringFrame
    <3>5. \A a \in Watched : At(p, s, a)' => At(p, s, a)
        BY <2>4, <3>4, BeginsTypes, WatchedSteps DEF At
    <3> QED
        BY <2>3, <3>1, <3>3, <3>5, ServedStays
  <2>5. CASE p = q /\ s = t /\ Finishes(p, w, s)
    <3>2. UNCHANGED <<link, tasks>>
        BY <2>5 DEF Finishes, BringMark, BringRead, BringRow, BringLog, client, callbacks
    <3>4. \A a \in ClaimerSteps : ~Doing(p, "claimer", a, s)'
        BY <2>2, <2>5, FinishesDoing
    <3> QED
        BY <2>3, <3>2, <3>4, ServedStays DEF At
  <2>6. CASE p = q /\ s = t /\ ~Finishes(p, w, s)
    <3>1. \E a \in ClaimerSteps : Doing(p, "claimer", a, s)
        BY <1>2, <2>2, <2>6 DEF BringUp, Finishes, BringCheck, BringDevice, BringResume,
                                BringPair, BringMarkQR, ClaimerSteps
    <3> QED
        BY <3>1 DEF ClaimerSteps, Wanted, Making, Serves, Busy
  <2> QED
    BY <2>4, <2>5, <2>6
<1> QED
    BY <1>1, <1>2

-----------------------------------------------------------------------------
\* The pod that serves a slot, if any does.
LEMMA ServerIs ==
    ASSUME OwnerInv, NEW s \in Slots
    PROVE  /\ \A p \in Pods : Serves(p, s) => Server[s] = p
           /\ Server[s] # NoPod => \E p \in Pods : Serves(p, s) /\ Server[s] = p
<1>1. \A p \in Pods : Serves(p, s) => rows[s].pod = p
    BY DEF OwnerInv, Held, Leases, Serves
<1> QED
    BY <1>1, StoreAssumption DEF Server

LEMMA ServerWillBe ==
    ASSUME OwnerInv', NEW s \in Slots
    PROVE  /\ \A p \in Pods : Serves(p, s)' => Server'[s] = p
           /\ Server'[s] # NoPod => \E p \in Pods : Serves(p, s)' /\ Server'[s] = p
<1>1. \A p \in Pods : Serves(p, s)' => rows'[s].pod = p
    BY DEF OwnerInv, Held, Leases, Serves
<1> QED
    BY <1>1, StoreAssumption DEF Server

\* A step of the manager that claims nothing ends the service of some slots,
LEMMA OnlyClaimServes ==
    ASSUME OwnerInv, OwnerInv', NEW s \in Slots,
           \A p \in Pods : Serves(p, s)' => Serves(p, s)
    PROVE  Server'[s] \in {Server[s], NoPod}
BY ServerIs, ServerWillBe

\* and a claim gives the pod slots that nobody served.
LEMMA ClaimServes ==
    ASSUME OwnerInv, OwnerInv', NEW q \in Pods, Claim(q), NEW s \in Slots
    PROVE  \/ Server'[s] = Server[s]
           \/ Server[s] = NoPod /\ Server'[s] = q
<1> USE DEF OwnerInv, ManagerInv
<1>1. PICK S \in ClaimChoices(q, Slots) :
        todo' = [todo EXCEPT ![q] = {[slot |-> t, jid |-> jid[t]] : t \in S}]
    BY DEF Claim
<1>2. S \in SUBSET Slots /\ \A t \in S : Claimable(q, t)
    BY DEF ClaimChoices
<1>3. UNCHANGED <<link, tasks, job>> /\ todo[q] = {}
    BY DEF Claim, client, callbacks
<1>4. CASE s \in S
  <2>1. \A p \in Pods : ~Serves(p, s)
    BY <1>2, <1>4 DEF Serves, Held, Leases, Claimable, Active
  <2>2. Server[s] = NoPod
    BY <2>1 DEF Server
  <2>3. todo'[q] = {[slot |-> t, jid |-> jid[t]] : t \in S}
    BY <1>1 DEF TypeOK
  <2>4. Serves(q, s)'
    <3>1. [slot |-> s, jid |-> jid[s]] \in todo'[q]
        BY <1>4, <2>3
    <3>2. Listed(q, s)'
        BY <3>1 DEF Listed
    <3> QED
        BY <3>2 DEF Serves, Wanted
  <2> QED
    BY <2>2, <2>4, ServerWillBe
<1>5. CASE s \notin S
  <2>1. ASSUME NEW p \in Pods
        PROVE  Serves(p, s)' <=> Serves(p, s)
    <3>1. Listed(p, s)' <=> Listed(p, s)
      <4>1. todo'[p] = IF p = q THEN {[slot |-> t, jid |-> jid[t]] : t \in S} ELSE todo[p]
        BY <1>1 DEF TypeOK
      <4> QED
        BY <1>3, <1>5, <4>1 DEF Listed
    <3>2. /\ \A step : Doing(p, "claimer", step, s)' <=> Doing(p, "claimer", step, s)
          /\ \A a : At(p, s, a)' <=> At(p, s, a)
          /\ link'[p][s] = link[p][s]
        BY <1>3 DEF Doing, At
    <3>3. (Wanted(p, s)' <=> Wanted(p, s)) /\ (Making(p, s)' <=> Making(p, s))
        BY <3>1, <3>2 DEF Wanted, Making
    <3>4. Clears(p, s)' <=> Clears(p, s)
        BY <3>2 DEF Clears
    <3> QED
        BY <3>2, <3>3, <3>4 DEF Serves, Busy
  <2>2. CASE Server'[s] = NoPod
    <3>1. \A p \in Pods : ~Serves(p, s)'
        BY <2>2, ServerWillBe, StoreAssumption
    <3> QED
        BY <2>1, <2>2, <3>1, ServerIs
  <2>3. CASE Server'[s] # NoPod
    BY <2>1, <2>3, ServerIs, ServerWillBe
  <2> QED
    BY <2>2, <2>3
<1> QED
    BY <1>4, <1>5

\* What the servers of two states have to be for a step of SlotLease.
LEMMA LeaseEnds ==
    ASSUME \A s \in Slots : Server'[s] \in {Server[s], NoPod}
    PROVE  Lease!Next
<1> DEFINE S == {s \in Slots : Server'[s] # Server[s]}
<1>1. Server' = [s \in Slots |-> IF s \in S THEN NoPod ELSE Server[s]]
  <2>1. \A s \in Slots : Server'[s] = IF s \in S THEN NoPod ELSE Server[s]
    OBVIOUS
  <2>2. Server' = [s \in Slots |-> Server'[s]]
    BY DEF Server
  <2> HIDE DEF S
  <2> QED
    BY <2>1, <2>2
<1>2. Lease!Surrender(S)
    BY <1>1 DEF Lease!Surrender
<1> QED
    BY <1>2 DEF Lease!Next

LEMMA LeaseGranted ==
    ASSUME NEW p \in Pods,
           \A s \in Slots : Server'[s] = Server[s] \/ (Server[s] = NoPod /\ Server'[s] = p)
    PROVE  Lease!Next
<1> DEFINE S == {s \in Slots : Server'[s] # Server[s]}
<1>1. Server' = [s \in Slots |-> IF s \in S THEN p ELSE Server[s]]
  <2>1. \A s \in Slots : Server'[s] = IF s \in S THEN p ELSE Server[s]
    OBVIOUS
  <2>2. Server' = [s \in Slots |-> Server'[s]]
    BY DEF Server
  <2> HIDE DEF S
  <2> QED
    BY <2>1, <2>2
<1>2. \A s \in S : Server[s] = NoPod
    OBVIOUS
<1>3. Lease!Grant(p, S)
    BY <1>1, <1>2 DEF Lease!Grant
<1> QED
    BY <1>3 DEF Lease!Next

LEMMA ManagerStep ==
    ASSUME OwnerInv, OwnerInv', Undisturbed, [Next]_vars
    PROVE  [Lease!Next]_Server
<1>1. ASSUME \A p \in Pods, s \in Slots : Serves(p, s)' => Serves(p, s)
      PROVE  Lease!Next
    BY <1>1, OnlyClaimServes, LeaseEnds
<1>2. CASE UNCHANGED <<todo, job, tasks, link>>
    BY <1>1, <1>2 DEF Serves, Wanted, Listed, Busy, Making, Clears, Doing, At
<1>3. CASE \/ UNCHANGED vars
           \/ \E s \in Slots : Expire(s)
           \/ \E p \in Pods : Heartbeat(p)
    BY <1>2, <1>3 DEF vars, memory, client, callbacks, Expire, Heartbeat
<1>4. CASE \E q \in Pods : Process(q)
    BY <1>1, <1>4, ProcessServes
<1>5. CASE \E q \in Pods : NextClaimed(q)
    BY <1>1, <1>5, NextServes
<1>6. CASE \E q \in Pods, t \in Slots : Callback(q, t) \/ External(q, t)
    BY <1>1, <1>6, CallbackServes, ExternalServes
<1>7. CASE \E q \in Pods, w \in Workers, t \in Slots : BringUp(q, w, t)
    BY <1>1, <1>7, BringUpServes
<1>8. CASE \E q \in Pods : Claim(q)
    BY <1>8, ClaimServes, LeaseGranted
<1>9. \A q \in Pods, t \in Slots : ~CreateConnection(q, t)
    BY DEF CreateConnection, Undisturbed
<1> QED
    BY <1>3, <1>4, <1>5, <1>6, <1>7, <1>8, <1>9 DEF Next

\* The manager implements SlotLease: a pod comes to want a slot, make its client, pair it,
\* be logged in with it or be about to free its row only by a claim made when no pod did any
\* of that, and no other pod does before it has stopped.  Callbacks that write a jid late,
\* an eviction and a code still to be published are no part of serving a slot, and may
\* come after it has passed on; they change nothing of this.
THEOREM ManagerImplementsSlotLease ==
    ASSUME Undisturbed
    PROVE  Spec => ImplementsSlotLease
<1>1. Init => Lease!Init
  <2> SUFFICES ASSUME Init, NEW p \in Pods, NEW s \in Slots
               PROVE  ~Serves(p, s)
    BY DEF Lease!Init, Server
  <2>1. todo[p] = {} /\ tasks[p] = {} /\ job[p]["claimer"].step = "none" /\ link[p][s] = "none"
    BY DEF Init, Workers, NoJob
  <2>2. ~Wanted(p, s) /\ ~Making(p, s) /\ ~Clears(p, s)
    BY <2>1 DEF Wanted, Listed, Making, Clears, Doing, At
  <2> QED
    BY <2>1, <2>2 DEF Serves, Busy, At
<1>2. OwnerInv /\ OwnerInv' /\ [Next]_vars => [Lease!Next]_Server
    BY ManagerStep
<1> QED
    BY <1>1, <1>2, OwnerInvHolds, PTL DEF Spec, ImplementsSlotLease, Lease!Spec

-----------------------------------------------------------------------------
\* Sessions that are stored.

LEMMA ReadableIsCalm ==
    ASSUME Readable
    PROVE  Undisturbed /\ "deviceError" \notin Inputs
BY DEF Readable

\* Nobody is about to make a client of the slot or pairs it.
Alone(p, s) ==
    /\ ~Wanted(p, s) /\ link[p][s] # "pairing"
    /\ \A step \in {"device", "pair", "mark-qr"} : ~Doing(p, "claimer", step, s)

\* While a pod has a session, no pod is, and no other pod has one.
LEMMA SessionAlone ==
    OwnerInv /\ (\A p \in Pods, s \in Slots : OverPaired(p, s)) =>
        \A p \in Pods, q \in Pods, s \in Slots :
            HasSession(q, s) => Alone(p, s) /\ (HasSession(p, s) => p = q)
<1> SUFFICES ASSUME OwnerInv, \A p \in Pods, s \in Slots : OverPaired(p, s),
                    NEW p \in Pods, NEW q \in Pods, NEW s \in Slots, HasSession(q, s)
             PROVE  Alone(p, s) /\ (HasSession(p, s) => p = q)
    OBVIOUS
<1>1. link[q][s] \in {"new"} \cup LoggedIn /\ ~Doing(q, "claimer", "pair", s)
    BY DEF OverPaired
<1>2. Busy(q, s)
    BY <1>1 DEF Busy, LoggedIn
<1>3. Leases(q, s) /\ ~Wanted(q, s)
    BY <1>2 DEF OwnerInv, Held
<1>4. CASE p # q
  <2>1. ~Leases(p, s)
    BY <1>3, <1>4 DEF Leases
  <2>2. ~Wanted(p, s) /\ ~Busy(p, s)
    BY <2>1 DEF OwnerInv, Held
  <2>3. link[p][s] \notin {"new"} \cup LoggedIn /\ link[p][s] # "pairing" /\ ~Making(p, s)
    BY <2>2 DEF Busy, LoggedIn
  <2>4. ~HasSession(p, s)
    BY <2>3 DEF OverPaired
  <2> QED
    BY <2>2, <2>3, <2>4 DEF Alone, Making
<1>5. CASE p = q
  <2>1. link[p][s] \notin {"pairing", "none"}
    BY <1>1, <1>5 DEF LoggedIn
  <2>2. ~Doing(p, "claimer", "device", s) /\ ~Doing(p, "claimer", "mark-qr", s)
    BY <2>1 DEF OwnerInv, ManagerInv, Kept, Held, Workers
  <2> QED
    BY <1>1, <1>3, <1>5, <2>1, <2>2 DEF Alone
<1> QED
    BY <1>4, <1>5

LEMMA SessionWillBeAlone ==
    (OwnerInv /\ (\A p \in Pods, s \in Slots : OverPaired(p, s)) =>
        \A p \in Pods, q \in Pods, s \in Slots :
            HasSession(q, s) => Alone(p, s) /\ (HasSession(p, s) => p = q))'
BY SessionAlone, PTL

\* Jid j is about to be written to the row of s by a callback or the claimer of p.
Pending(p, s, j) ==
    \/ \E x \in writes[p] : x.slot = s /\ x.jid = j
    \/ Doing(p, "claimer", "row", s) /\ job[p]["claimer"].jid = j

LEMMA PendingIsOwn ==
    ASSUME ResumeInv, NEW p \in Pods, NEW s \in Slots, NEW j \in device[s], Pending(p, s, j)
    PROVE  id[p][s] = j /\ HasSession(p, s)
<1>1. id[p][s] = j
    BY DEF ResumeInv, WritesOwn, Pending
<1>2. j \in Jids
    BY DEF ResumeInv, OwnerInv, ManagerInv, TypeOK
<1> QED
    BY <1>1, <1>2, GatewayAssumption DEF HasSession

\* A jid changes to one that was pending.
LEMMA JidStep ==
    ASSUME ResumeInv, NEW s \in Slots, [Next]_vars, jid'[s] # jid[s]
    PROVE  /\ UNCHANGED <<device, client>>
           /\ \E q \in Pods : Pending(q, s, jid'[s])
<1> USE DEF ResumeInv, OwnerInv, ManagerInv
<1>1. ASSUME NEW q \in Pods, NEW t \in Slots, NEW status, NEW j \in JidOrNone,
             SetStatus(q, t, status, j)
      PROVE  s = t /\ j # NoJid /\ jid'[s] = j
    BY <1>1 DEF SetStatus, TypeOK
<1>2. ASSUME NEW q \in Pods, NEW t \in Slots, ConnectedRow(q, t) \/ PersistSession(q, t)
      PROVE  UNCHANGED <<device, client>> /\ Pending(q, s, jid'[s])
  <2>1. PICK x \in writes[q] : /\ x.slot = t /\ SetStatus(q, t, "connected", x.jid)
                               /\ UNCHANGED <<device, client>>
    BY <1>2 DEF ConnectedRow, PersistSession, Writes
  <2>2. x.jid \in JidOrNone
    BY DEF TypeOK, Write, JidOrNone
  <2> QED
    BY <1>1, <2>1, <2>2 DEF Pending
<1>3. ASSUME NEW q \in Pods, NEW w \in Workers, NEW t \in Slots, BringRow(q, w, t)
      PROVE  UNCHANGED <<device, client>> /\ Pending(q, s, jid'[s])
  <2>1. w = "claimer"
    BY <1>3, ClaimerBrings DEF BringUp
  <2>2. job[q][w].jid \in JidOrNone
    BY <1>3, DoingTypes DEF BringRow, Steps
  <2> QED
    BY <1>1, <1>3, <2>1, <2>2 DEF BringRow, Pending
<1>4. ASSUME NEW q \in Pods, NEW t \in Slots, Callback(q, t)
      PROVE  ConnectedRow(q, t) \/ PersistSession(q, t)
  <2>1. ~(LoggedOutRow(q, t) \/ ExpireRow(q, t) \/ OperatorRow(q, t))
    BY <1>1 DEF LoggedOutRow, ExpireRow, OperatorRow, JidOrNone
  <2>2. UNCHANGED jid \/ ConnectedRow(q, t) \/ PersistSession(q, t)
    BY <1>4, <2>1 DEF Callback, ConnectedMark, ConnectedRead, PersistRead, ReadsID, DroppedMark,
                LoggedOutMark, ShowQR, EmitQR, HideQR, ExpireClear, ExpireEvict, OperatorMark
  <2> QED
    BY <2>2
<1>5. ASSUME NEW q \in Pods, NEW w \in Workers, NEW t \in Slots, BringUp(q, w, t)
      PROVE  BringRow(q, w, t)
  <2>1. UNCHANGED jid \/ BringRow(q, w, t)
    BY <1>5 DEF BringUp, MarkClaimed, BringCheck, BringDevice, BringResume, BringMark, BringRead,
                BringLog, BringPanics, BringPair, BringMarkQR
  <2> QED
    BY <2>1
<1>6. ASSUME \/ UNCHANGED vars \/ \E t \in Slots : Expire(t)
             \/ \E q \in Pods : Process(q) \/ Heartbeat(q) \/ Claim(q) \/ NextClaimed(q)
             \/ \E q \in Pods, t \in Slots : CreateConnection(q, t) \/ External(q, t)
      PROVE  FALSE
  <2>1. UNCHANGED jid
    BY <1>6, ExternalFrame DEF vars, Expire, Process, Start, Crash, Signal, CloseClients, Release,
                Exit, Heartbeat, Claim, NextClaimed, CreateConnection
  <2> QED
    BY <2>1
<1> QED
    BY <1>2, <1>3, <1>4, <1>5, <1>6 DEF Next

\* A device is paired, with a jid that nothing knows, or unlinked.
LEMMA DeviceStep ==
    ASSUME ResumeInv, NEW s \in Slots, [Next]_vars
    PROVE  \/ device'[s] = device[s]
           \/ \E q \in Pods : LogOut(q, s) /\ device'[s] = device[s] \ {id[q][s]}
           \/ \E q \in Pods : Pair(q, s) /\ device'[s] = device[s] \cup {id'[q][s]}
<1> USE DEF ResumeInv, OwnerInv, ManagerInv
<1>1. ASSUME NEW q \in Pods, NEW t \in Slots, LogOut(q, t)
      PROVE  device'[s] = device[s] \/ (s = t /\ device'[s] = device[s] \ {id[q][s]})
    BY <1>1 DEF LogOut, TypeOK
<1>2. ASSUME NEW q \in Pods, NEW t \in Slots, Pair(q, t)
      PROVE  device'[s] = device[s] \/ (s = t /\ device'[s] = device[s] \cup {id'[q][s]})
  <2>1. PICK j \in Jids : device' = [device EXCEPT ![t] = @ \cup {j}] /\ SetClient(q, t, "authing", j)
    BY <1>2 DEF Pair
  <2>2. id'[q][t] = j
    BY <2>1, SetClientTypes DEF Links, JidOrNone
  <2> QED
    BY <2>1, <2>2 DEF TypeOK
<1>3. ASSUME NEW q \in Pods, NEW t \in Slots, External(q, t), ~LogOut(q, t), ~Pair(q, t)
      PROVE  UNCHANGED device
    BY <1>3 DEF External, LogIn, Drop, Redial, QRCode, QRTimeout, QRError, OperatorClose
<1>4. ASSUME NEW q \in Pods, NEW w \in Workers, NEW t \in Slots, BringUp(q, w, t)
      PROVE  UNCHANGED device
    BY <1>4, BringFrame DEF BringPanics
<1>5. CASE \/ UNCHANGED vars \/ \E t \in Slots : Expire(t)
           \/ \E q \in Pods : Process(q) \/ Heartbeat(q) \/ Claim(q) \/ NextClaimed(q)
           \/ \E q \in Pods, t \in Slots : CreateConnection(q, t) \/ Callback(q, t)
  <2>1. UNCHANGED device
    BY <1>5, CallbackFrame DEF vars, Expire, Process, Start, Crash, Signal, CloseClients, Release,
                Exit, Heartbeat, Claim, NextClaimed, CreateConnection
  <2> QED
    BY <2>1
<1> QED
    BY <1>1, <1>2, <1>3, <1>4, <1>5 DEF Next

LEMMA PairFacts ==
    ASSUME ResumeInv, NEW p \in Pods, NEW s \in Slots, Pair(p, s)
    PROVE  /\ link[p][s] = "pairing" /\ ~Stored(s) /\ UNCHANGED jid
           /\ id'[p][s] \notin device[s] /\ id'[p][s] # jid[s] /\ id'[p][s] \in device'[s]
           /\ device'[s] = device[s] \cup {id'[p][s]}
           /\ link'[p][s] = "authing" /\ ~Doing(p, "claimer", "pair", s)'
           /\ \A q \in Pods : ~Pending(q, s, id'[p][s])
<1> USE DEF ResumeInv, OwnerInv, ManagerInv
<1>1. link[p][s] = "pairing" /\ ~Stored(s) /\ UNCHANGED jid
    BY DEF Pair, Remembers
<1>2. PICK j \in Jids : /\ Fresh(s, j) /\ device' = [device EXCEPT ![s] = @ \cup {j}]
                        /\ SetClient(p, s, "authing", j)
    BY DEF Pair
<1>3. id'[p][s] = j /\ link'[p][s] = "authing"
    BY <1>2, SetClientTypes DEF Links, JidOrNone
<1>4. j \notin device[s] /\ j # jid[s] /\ device'[s] = device[s] \cup {j}
    BY <1>2 DEF Fresh, TypeOK
<1>5. ASSUME NEW q \in Pods
      PROVE  ~Pending(q, s, j)
  <2>1. \A x \in writes[q] : x.slot = s => x.jid # j
    BY <1>2 DEF Fresh
  <2>2. Doing(q, "claimer", "row", s) => job[q]["claimer"].jid # j
    <3>1. "claimer" \in Workers /\ NoJob.step # "row"
        BY DEF Workers, NoJob
    <3> QED
        BY <1>2, <3>1 DEF Fresh, Doing
  <2> QED
    BY <2>1, <2>2 DEF Pending
<1>6. ~Doing(p, "claimer", "pair", s)'
  <2>1. Kept(p, s) /\ "claimer" \in Workers /\ "qr-wait" \in Reading /\ At(p, s, "qr-wait")
    BY DEF Pair, Workers, Reading
  <2>2. ~Past(p, "claimer", s)
    BY <2>1 DEF Kept
  <2>3. UNCHANGED job
    BY DEF Pair
  <2> QED
    BY <2>2, <2>3, MakingIsPast DEF Making, Doing
<1> QED
    BY <1>1, <1>3, <1>4, <1>5, <1>6

\* The claimer makes the client over the device of the jid it has.
OverKnown(p, s) ==
    /\ Doing(p, "claimer", "device", s)
    /\ id'[p][s] = job[p]["claimer"].jid /\ id'[p][s] \in device[s]
    /\ link'[p][s] = "new" /\ ~Doing(p, "claimer", "pair", s)'
    /\ UNCHANGED <<jid, device>>

\* The client of a slot comes to another device, or to none.
LEMMA IdStep ==
    ASSUME ResumeInv, Undisturbed, NEW p \in Pods, NEW s \in Slots, [Next]_vars
    PROVE  \/ /\ id'[p][s] = id[p][s]
              /\ HasSession(p, s) => link'[p][s] \in {"new"} \cup LoggedIn
           \/ /\ id'[p][s] = NoJid
              /\ ~HasSession(p, s) \/ LogOut(p, s) \/ NoMemory(p)
           \/ OverKnown(p, s)
           \/ Pair(p, s)
<1> USE DEF ResumeInv, OwnerInv, ManagerInv
<1> DEFINE Same == /\ id'[p][s] = id[p][s]
                   /\ HasSession(p, s) => link'[p][s] \in {"new"} \cup LoggedIn
           None == /\ id'[p][s] = NoJid
                   /\ ~HasSession(p, s) \/ LogOut(p, s) \/ NoMemory(p)
<1>1. id \in [Pods -> [Slots -> JidOrNone]] /\ link \in [Pods -> [Slots -> Links]]
    BY DEF TypeOK
<1>2. ASSUME link'[p][s] = link[p][s], id'[p][s] = id[p][s]
      PROVE  Same
    BY <1>2 DEF OverPaired
<1>3. ASSUME NEW q \in Pods, NEW t \in Slots, p # q \/ s # t, NEW state, NEW j,
             SetLink(q, t, state) \/ SetClient(q, t, state, j)
      PROVE  Same
  <2>1. link'[p][s] = link[p][s]
    BY <1>3, LinkElsewhere DEF SetLink, SetClient
  <2>2. id'[p][s] = id[p][s]
    BY <1>1, <1>3 DEF SetLink, SetClient
  <2> QED
    BY <1>2, <2>1, <2>2
<1>4. ASSUME NEW state, SetLink(p, s, state), state \in LoggedIn \/ ~HasSession(p, s)
      PROVE  Same
    BY <1>1, <1>4 DEF SetLink
<1>5. ASSUME NEW q \in Pods, NoMemory(q)
      PROVE  Same \/ None
  <2>1. CASE p = q
    <3>1. id'[p][s] = NoJid
        BY <1>1, <1>5, <2>1 DEF NoMemory
    <3> QED
        BY <1>5, <2>1, <3>1
  <2>2. CASE p # q
    <3>1. id'[p] = id[p] /\ link'[p] = link[p]
        BY <1>1, <1>5, <2>2 DEF NoMemory
    <3> QED
        BY <1>2, <3>1
  <2> QED
    BY <2>1, <2>2
<1>6. HasSession(p, s) => Alone(p, s) /\ link[p][s] \in {"new"} \cup LoggedIn
    BY SessionAlone DEF OverPaired
<1>7. ASSUME SetClient(p, s, "none", NoJid), ~HasSession(p, s)
      PROVE  None
    BY <1>1, <1>7 DEF SetClient
<1>8. ASSUME NEW w \in Workers, BringUp(p, w, s), ~BringPanics(p, w, s)
      PROVE  Same \/ None \/ OverKnown(p, s)
  <2>1. w = "claimer"
    BY <1>8, ClaimerBrings
  <2>2. CASE BringCheck(p, w, s)
    <3>1. ~HasSession(p, s)
        BY <1>6, <2>1, <2>2 DEF BringCheck, Alone, Wanted
    <3>2. UNCHANGED <<link, id>> \/ SetClient(p, s, "none", NoJid)
        BY <2>2 DEF BringCheck, client
    <3> QED
        BY <1>2, <1>7, <3>1, <3>2
  <2>3. CASE BringDevice(p, w, s)
    <3>1. Doing(p, "claimer", "device", s) /\ ~HasSession(p, s)
        BY <1>6, <2>1, <2>3 DEF BringDevice, Alone
    <3>2. CASE OverDevice(p, w, s)
      <4>1. id'[p][s] = job[p]["claimer"].jid /\ link'[p][s] = "new"
        BY <1>1, <2>1, <3>2 DEF OverDevice, SetClient
      <4>2. ~Doing(p, "claimer", "pair", s)'
        <5>1. {"device", "resume", "pair"} \subseteq Steps
            BY DEF Steps
        <5> QED
            BY <2>1, <3>1, <3>2, <5>1, AdvanceDoing DEF OverDevice
      <4> QED
        BY <2>1, <2>3, <3>1, <3>2, <4>1, <4>2 DEF BringDevice, OverDevice, OverKnown
    <3>3. CASE OverNewDevice(p, w, s)
      <4>1. id'[p][s] = NoJid
        BY <1>1, <3>3 DEF OverNewDevice, SetClient
      <4> QED
        BY <3>1, <4>1
    <3> QED
        BY <2>3, <3>2, <3>3 DEF BringDevice
  <2>4. CASE BringResume(p, w, s)
    <3>1. UNCHANGED <<link, id>> \/ SetLink(p, s, "authing")
        BY <2>4 DEF BringResume, client
    <3> QED
        BY <1>2, <1>4, <3>1 DEF LoggedIn
  <2>5. CASE BringPair(p, w, s)
    <3>1. ~HasSession(p, s)
        BY <1>6, <2>1, <2>5 DEF BringPair, Alone
    <3>2. UNCHANGED <<link, id>> \/ SetLink(p, s, "pairing")
        BY <2>5 DEF BringPair, client
    <3> QED
        BY <1>2, <1>4, <3>1, <3>2
  <2>6. CASE MarkClaimed(p, w, s) \/ Finishes(p, w, s) \/ BringMarkQR(p, w, s)
    <3>1. UNCHANGED <<link, id>>
        BY <2>6 DEF MarkClaimed, Finishes, BringMark, BringRead, BringRow, BringLog, BringMarkQR, client
    <3> QED
        BY <1>2, <3>1
  <2> QED
    BY <1>8, <2>2, <2>3, <2>4, <2>5, <2>6 DEF BringUp, Finishes
<1>9. ASSUME NEW q \in Pods, NEW w \in Workers, NEW t \in Slots, BringUp(q, w, t),
             ~BringPanics(q, w, t), p # q \/ s # t
      PROVE  Same
  <2>1. UNCHANGED <<link, id>> \/ \E state \in Links, j \in JidOrNone :
            SetLink(q, t, state) \/ SetClient(q, t, state, j)
    <3>1. job[q][w].jid \in JidOrNone \/ ~BringDevice(q, w, t)
        BY DoingTypes DEF BringDevice, Steps
    <3> QED
        BY <1>9, <3>1 DEF BringUp, MarkClaimed, BringCheck, BringDevice, OverDevice, OverNewDevice,
            BringResume, BringMark, BringRead, BringRow, BringLog, BringPair, BringMarkQR, client,
            Links, JidOrNone
  <2> QED
    BY <1>2, <1>3, <1>9, <2>1
<1>10. ASSUME NEW q \in Pods, NEW t \in Slots, Callback(q, t)
       PROVE  Same \/ None
  <2>1. CASE UNCHANGED client
    BY <1>2, <2>1 DEF client
  <2>2. CASE ExpireEvict(q, t) /\ SetClient(q, t, "none", NoJid)
    <3>1. CASE p = q /\ s = t
      <4>1. Kept(p, s) /\ "expire-evict" \in Expiring /\ At(p, s, "expire-evict")
        BY <2>2, <3>1 DEF ExpireEvict, Expiring
      <4>2. link[p][s] = "closed"
        BY <4>1 DEF Kept
      <4> QED
        BY <1>6, <1>7, <2>2, <3>1, <4>2 DEF LoggedIn
    <3> QED
        BY <1>3, <2>2, <3>1
  <2> QED
    BY <1>10, <2>1, <2>2, CallbackFrame
<1>11. ASSUME External(p, s)
       PROVE  Same \/ None \/ Pair(p, s)
  <2>1. CASE LogIn(p, s) \/ Drop(p, s) \/ Redial(p, s)
    BY <1>4, <2>1 DEF LogIn, Drop, Redial, LoggedIn
  <2>2. CASE LogOut(p, s)
    BY <1>1, <2>2 DEF LogOut, SetClient
  <2>3. CASE QRCode(p, s)
    BY <1>2, <2>3 DEF QRCode, client
  <2>4. CASE QRTimeout(p, s) \/ QRError(p, s)
    <3>1. ~HasSession(p, s)
        BY <1>6, <2>4 DEF QRTimeout, QRError, LoggedIn
    <3> QED
        BY <1>4, <2>4, <3>1 DEF QRTimeout, QRError
  <2>5. ~OperatorClose(p, s)
    BY DEF OperatorClose, Undisturbed
  <2> QED
    BY <1>11, <2>1, <2>2, <2>3, <2>4, <2>5 DEF External
<1>12. ASSUME NEW q \in Pods, NEW t \in Slots, External(q, t), p # q \/ s # t
       PROVE  Same
  <2>1. UNCHANGED <<link, id>> \/ \E state \in Links, j \in JidOrNone :
            SetLink(q, t, state) \/ SetClient(q, t, state, j)
    BY <1>12 DEF External, LogIn, Drop, Redial, LogOut, QRCode, Pair, QRTimeout, QRError,
                 OperatorClose, client, Links, JidOrNone
  <2> QED
    BY <1>2, <1>3, <1>12, <2>1
<1>13. ASSUME NEW q \in Pods, Process(q)
       PROVE  Same \/ None
  <2>1. ~Signal(q) /\ ~CloseClients(q) /\ ~Release(q) /\ ~Exit(q)
    BY DEF Signal, CloseClients, Release, Exit, Undisturbed, ClaimsOnly
  <2>2. CASE Start(q)
    BY <1>2, <2>2 DEF Start, memory, client
  <2> QED
    BY <1>5, <1>13, <2>1, <2>2 DEF Process, Crash
<1>14. CASE \/ UNCHANGED vars \/ \E t \in Slots : Expire(t)
            \/ \E q \in Pods : Heartbeat(q) \/ Claim(q) \/ NextClaimed(q)
            \/ \E q \in Pods, t \in Slots : CreateConnection(q, t)
  <2>1. UNCHANGED <<link, id>>
    BY <1>14 DEF vars, memory, client, Expire, Heartbeat, Claim, NextClaimed, CreateConnection
  <2> QED
    BY <1>2, <2>1
<1>15. ASSUME NEW q \in Pods, NEW w \in Workers, NEW t \in Slots, BringUp(q, w, t)
       PROVE  Same \/ None \/ OverKnown(p, s)
  <2>1. CASE BringPanics(q, w, t)
    BY <1>5, <2>1 DEF BringPanics
  <2>2. CASE ~BringPanics(q, w, t) /\ p = q /\ s = t
    BY <1>8, <1>15, <2>2
  <2>3. CASE ~BringPanics(q, w, t) /\ (p # q \/ s # t)
    BY <1>9, <1>15, <2>3
  <2> QED
    BY <2>1, <2>2, <2>3
<1>16. ASSUME NEW q \in Pods, NEW t \in Slots, External(q, t)
       PROVE  Same \/ None \/ Pair(p, s)
    BY <1>11, <1>12, <1>16
<1> QED
    BY <1>10, <1>13, <1>14, <1>15, <1>16 DEF Next

\* What is about to be written was so before, or has been read from the client.
LEMMA PendingStep ==
    ASSUME ResumeInv, NEW p \in Pods, NEW s \in Slots, NEW j \in JidOrNone, [Next]_vars,
           Pending(p, s, j)'
    PROVE  /\ Pending(p, s, j) \/ (j = id[p][s] /\ id'[p][s] = id[p][s])
           /\ ~NoMemory(p)
<1> USE DEF ResumeInv, OwnerInv, ManagerInv
<1>1. NoJob.step = "none" /\ "claimer" \in Workers
    BY DEF NoJob, Workers
<1>2. ~NoMemory(p)
  <2> SUFFICES ASSUME NoMemory(p)
               PROVE  FALSE
    OBVIOUS
  <2>1. writes'[p] = {}
    BY DEF NoMemory, TypeOK
  <2>2. job'[p]["claimer"] = NoJob
    BY <1>1, NoMemoryTypes
  <2> QED
    BY <1>1, <2>1, <2>2 DEF Pending, Doing
<1>3. ASSUME NEW x \in writes'[p], x.slot = s, x.jid = j, x \notin writes[p]
      PROVE  j = id[p][s] /\ id'[p][s] = id[p][s]
  <2>1. ASSUME NEW q \in Pods, NEW t \in Slots, Callback(q, t)
        PROVE  j = id[p][s] /\ id'[p][s] = id[p][s]
    <3>1. CASE ConnectedRead(q, t) \/ PersistRead(q, t)
      <4>1. PICK step \in TaskSteps, next \in WriteSteps : ReadsID(q, t, step, next)
        BY <3>1 DEF ConnectedRead, PersistRead, TaskSteps, WriteSteps
      <4>2. x \in Write
        BY <4>1, ReadsTypes
      <4>3. p = q /\ s = t /\ j = id[p][s]
        BY <1>3, <4>1, <4>2, ReadsTypes
      <4> QED
        BY <4>1, <4>3 DEF ReadsID, client
    <3>2. CASE ConnectedRow(q, t) \/ PersistSession(q, t)
      <4>1. PICK y \in writes[q], next \in SUBSET {"connected-save"} : Writes(q, t, y, next)
        BY <3>2 DEF ConnectedRow, PersistSession
      <4>2. y \in Write /\ next \in SUBSET TaskSteps
        BY DEF TypeOK, TaskSteps
      <4> QED
        BY <1>3, <4>1, <4>2, WritesTypes
    <3>3. UNCHANGED writes \/ ConnectedRead(q, t) \/ PersistRead(q, t) \/ ConnectedRow(q, t) \/ PersistSession(q, t)
        BY <2>1 DEF Callback, ConnectedMark, DroppedMark, LoggedOutMark, LoggedOutRow, ShowQR, EmitQR,
            HideQR, ExpireClear, ExpireRow, ExpireEvict, OperatorMark, OperatorRow, Goes
    <3> QED
        BY <1>3, <3>1, <3>2, <3>3
  <2>2. ASSUME NEW q \in Pods, NoMemory(q)
        PROVE  FALSE
    BY <1>2, <1>3, <2>2 DEF NoMemory, TypeOK
  <2>3. ASSUME NEW q \in Pods, Process(q)
        PROVE  UNCHANGED writes \/ NoMemory(q)
    BY <2>3 DEF Process, Start, Crash, Signal, CloseClients, Release, Exit, memory, callbacks
  <2>4. ASSUME NEW q \in Pods, NEW w \in Workers, NEW t \in Slots, BringUp(q, w, t)
        PROVE  UNCHANGED writes \/ NoMemory(q)
    BY <2>4, BringFrame DEF BringPanics
  <2>5. ASSUME \/ UNCHANGED vars \/ \E t \in Slots : Expire(t)
               \/ \E q \in Pods : Heartbeat(q) \/ Claim(q) \/ NextClaimed(q)
               \/ \E q \in Pods, t \in Slots : CreateConnection(q, t) \/ External(q, t)
        PROVE  UNCHANGED writes
    BY <2>5, ExternalFrame DEF vars, memory, callbacks, Expire, Heartbeat, Claim, NextClaimed, CreateConnection
  <2> QED
    BY <1>3, <2>1, <2>2, <2>3, <2>4, <2>5 DEF Next
<1>4. ASSUME Doing(p, "claimer", "row", s)', job'[p]["claimer"].jid = j,
             job'[p]["claimer"] # job[p]["claimer"]
      PROVE  j = id[p][s] /\ id'[p][s] = id[p][s]
  <2>1. ASSUME NEW q \in Pods, NEW w \in Workers, NEW t \in Slots, BringUp(q, w, t)
        PROVE  j = id[p][s] /\ id'[p][s] = id[p][s]
    <3>1. CASE BringRead(q, w, t)
      <4>1. Moves(q, w, t, "row") /\ job'[q][w].jid = id[q][t] /\ "row" \in Steps
        BY <3>1, ReadTypes DEF Steps
      <4>2. p = q /\ w = "claimer"
        BY <1>1, <1>4, <4>1 DEF Moves
      <4>3. s = t
        BY <1>4, <4>1, <4>2 DEF Moves, Doing
      <4> QED
        BY <1>4, <3>1, <4>1, <4>2, <4>3 DEF BringRead, client
    <3>2. CASE BringPanics(q, w, t)
      <4>1. NoMemory(q)
        BY <3>2 DEF BringPanics
      <4> QED
        BY <1>1, <1>2, <1>4, <4>1, NoMemoryTypes
    <3>3. CASE ~BringRead(q, w, t) /\ ~BringPanics(q, w, t)
      <4>1. PICK step \in Steps, next \in (Steps \cup {"none"}) \ {"row"} :
                Doing(q, w, step, t) /\ Advance(q, w, next)
        BY <2>1, <3>3 DEF BringUp, MarkClaimed, BringCheck, BringDevice, OverDevice, OverNewDevice,
                BringResume, BringMark, BringRow, BringLog, BringPair, BringMarkQR, Steps
      <4>2. Moves(q, w, t, next)
        BY <4>1, AdvanceTypes
      <4> QED
        BY <1>1, <1>4, <4>1, <4>2 DEF Moves, Doing
    <3> QED
        BY <3>1, <3>2, <3>3
  <2>2. ASSUME NEW q \in Pods, NextClaimed(q) \/ \E t \in Slots : CreateConnection(q, t)
        PROVE  FALSE
    <3>1. \E y : y.step # "row" /\ \E v \in Workers : job' = [job EXCEPT ![q][v] = y]
        BY <2>2 DEF NextClaimed, CreateConnection, NoJob, Workers
    <3>2. PICK y : y.step # "row" /\ \E v \in Workers : job' = [job EXCEPT ![q][v] = y]
        BY <3>1
    <3>3. job'[p]["claimer"] \in {job[p]["claimer"], y}
        BY <1>1, <3>2 DEF TypeOK
    <3> QED
        BY <1>4, <3>2, <3>3 DEF Doing
  <2>3. ASSUME NEW q \in Pods, Process(q)
        PROVE  FALSE
    <3>1. UNCHANGED job \/ NoMemory(q)
        BY <2>3 DEF Process, Start, Crash, Signal, CloseClients, Release, Exit, memory
    <3> QED
        BY <1>1, <1>2, <1>4, <3>1, NoMemoryTypes
  <2>4. ASSUME \/ UNCHANGED vars \/ \E t \in Slots : Expire(t)
               \/ \E q \in Pods : Heartbeat(q) \/ Claim(q)
               \/ \E q \in Pods, t \in Slots : Callback(q, t) \/ External(q, t)
        PROVE  FALSE
    <3>1. UNCHANGED job
        BY <2>4, CallbackFrame, ExternalFrame DEF vars, memory, Expire, Heartbeat, Claim
    <3> QED
        BY <1>4, <3>1
  <2> QED
    BY <2>1, <2>2, <2>3, <2>4 DEF Next
<1>5. Pending(p, s, j) \/ (j = id[p][s] /\ id'[p][s] = id[p][s])
    BY <1>3, <1>4 DEF Pending, Doing
<1> QED
    BY <1>2, <1>5

-----------------------------------------------------------------------------
\* A session is over a device that is paired, the stored one if there is one.
LEMMA PairJobStep ==
    ASSUME ResumeInv, NEW p \in Pods, NEW s \in Slots, [Next]_vars,
           Doing(p, "claimer", "pair", s)', ~Doing(p, "claimer", "pair", s)
    PROVE  id'[p][s] = NoJid
<1> USE DEF ResumeInv, OwnerInv, ManagerInv
<1>1. NoJob.step = "none" /\ "claimer" \in Workers /\ "pair" \in Steps
    BY DEF NoJob, Workers, Steps
<1>2. job'[p]["claimer"] # job[p]["claimer"]
    BY DEF Doing
<1>3. ASSUME NEW q \in Pods, NEW w \in Workers, NEW t \in Slots, BringUp(q, w, t)
      PROVE  id'[p][s] = NoJid
  <2>1. CASE BringPanics(q, w, t)
    <3>1. NoMemory(q)
        BY <2>1 DEF BringPanics
    <3>2. p # q
        BY <1>1, <3>1, NoMemoryTypes DEF Doing
    <3> QED
        BY <1>2, <3>1, <3>2, NoMemoryTypes
  <2>2. CASE BringDevice(q, w, t)
    <3>1. Doing(q, w, "device", t) /\ {"device", "resume", "pair"} \subseteq Steps
        BY <2>2 DEF BringDevice, Steps
    <3>2. ASSUME NEW next \in {"resume", "pair"}, Advance(q, w, next)
          PROVE  p = q /\ s = t /\ next = "pair"
        BY <1>1, <3>1, <3>2, AdvanceDoing
    <3>3. OverNewDevice(q, w, t) /\ p = q /\ s = t
        BY <2>2, <3>2 DEF BringDevice, OverDevice, OverNewDevice
    <3> QED
        BY <3>3, SetClientTypes DEF OverNewDevice, Links, JidOrNone
  <2>3. CASE ~BringPanics(q, w, t) /\ ~BringDevice(q, w, t)
    <3>1. CASE BringRead(q, w, t)
        BY <1>1, <3>1, ReadTypes, MovesDoing
    <3>2. CASE ~BringRead(q, w, t)
      <4>1. PICK step \in Steps, next \in (Steps \cup {"none"}) \ {"pair"} :
                Doing(q, w, step, t) /\ Advance(q, w, next)
        BY <1>3, <2>3, <3>2 DEF BringUp, MarkClaimed, BringCheck, BringResume, BringMark, BringRow,
                BringLog, BringPair, BringMarkQR, Steps
      <4> QED
        BY <1>1, <4>1, AdvanceDoing
    <3> QED
        BY <3>1, <3>2
  <2> QED
    BY <2>1, <2>2, <2>3
<1>4. ASSUME NEW q \in Pods, NextClaimed(q) \/ \E t \in Slots : CreateConnection(q, t)
      PROVE  FALSE
  <2>1. \E y : y.step # "pair" /\ \E v \in Workers : job' = [job EXCEPT ![q][v] = y]
    BY <1>4 DEF NextClaimed, CreateConnection, NoJob, Workers
  <2>2. PICK y : y.step # "pair" /\ \E v \in Workers : job' = [job EXCEPT ![q][v] = y]
    BY <2>1
  <2>3. job'[p]["claimer"] \in {job[p]["claimer"], y}
    BY <1>1, <2>2 DEF TypeOK
  <2> QED
    BY <1>2, <2>2, <2>3 DEF Doing
<1>5. ASSUME NEW q \in Pods, Process(q)
      PROVE  FALSE
  <2>1. UNCHANGED job \/ NoMemory(q)
    BY <1>5 DEF Process, Start, Crash, Signal, CloseClients, Release, Exit, memory
  <2>2. CASE NoMemory(q)
    BY <1>1, <1>2, <2>2, NoMemoryTypes DEF Doing
  <2> QED
    BY <1>2, <2>1, <2>2
<1>6. ASSUME \/ UNCHANGED vars \/ \E t \in Slots : Expire(t)
             \/ \E q \in Pods : Heartbeat(q) \/ Claim(q)
             \/ \E q \in Pods, t \in Slots : Callback(q, t) \/ External(q, t)
      PROVE  FALSE
  <2>1. UNCHANGED job
    BY <1>6, CallbackFrame, ExternalFrame DEF vars, memory, Expire, Heartbeat, Claim
  <2> QED
    BY <1>2, <2>1
<1> QED
    BY <1>3, <1>4, <1>5, <1>6 DEF Next

LEMMA OverPairedStep ==
    ASSUME ResumeInv, Readable, NEW p \in Pods, NEW s \in Slots, [Next]_vars
    PROVE  OverPaired(p, s)'
<1> USE DEF ResumeInv, OwnerInv, ManagerInv
<1> USE ReadableIsCalm
<1>1. CASE ~HasSession(p, s)'
    BY <1>1 DEF OverPaired
<1>2. CASE HasSession(p, s)'
  <2>1. id'[p][s] # NoJid
    BY <1>2 DEF HasSession
  <2>2. ASSUME Doing(p, "claimer", "pair", s)'
        PROVE  Doing(p, "claimer", "pair", s) /\ ~HasSession(p, s)
    BY <2>1, <2>2, PairJobStep DEF OverPaired
  <2>3. CASE /\ id'[p][s] = id[p][s]
             /\ HasSession(p, s) => link'[p][s] \in {"new"} \cup LoggedIn
    <3>1. HasSession(p, s) /\ link'[p][s] \in {"new"} \cup LoggedIn
        BY <2>1, <2>3 DEF HasSession
    <3>2. id[p][s] \in device[s] /\ rows[s].pod = p
        BY <3>1 DEF OverPaired, Busy, Held, Leases, LoggedIn
    <3>3. id[p][s] \in device'[s]
      <4>1. ASSUME NEW q \in Pods, LogOut(q, s)
            PROVE  FALSE
        <5>1. rows[s].pod = q
            BY <4>1 DEF LogOut, Held, Busy, Leases
        <5>2. id'[q][s] = NoJid
            BY <4>1, SetClientTypes DEF LogOut, Links, JidOrNone
        <5> QED
            BY <2>1, <3>2, <5>1, <5>2
      <4> QED
        BY <3>2, <4>1, DeviceStep
    <3>4. ASSUME Stored(s)'
          PROVE  id'[p][s] = jid'[s]
      <4>1. CASE jid'[s] = jid[s]
        <5>1. jid[s] \in device'[s]
            BY <3>4, <4>1 DEF Stored
        <5>2. ASSUME NEW q \in Pods, Pair(q, s), device'[s] = device[s] \cup {id'[q][s]}
              PROVE  jid[s] \in device[s]
            BY <5>1, <5>2, PairFacts
        <5>3. jid[s] \in device[s]
            BY <5>1, <5>2, DeviceStep
        <5> QED
            BY <2>3, <3>1, <4>1, <5>3 DEF OverPaired, Stored
      <4>2. CASE jid'[s] # jid[s]
        <5>1. PICK q \in Pods : Pending(q, s, jid'[s])
            BY <4>2, JidStep
        <5>2. jid'[s] \in device[s]
            BY <3>4, <4>2, JidStep DEF Stored
        <5>3. id[q][s] = jid'[s] /\ HasSession(q, s)
            BY <5>1, <5>2, PendingIsOwn
        <5>4. p = q
            BY <3>1, <5>3, SessionAlone
        <5> QED
            BY <2>3, <5>3, <5>4
      <4> QED
        BY <4>1, <4>2
    <3> QED
        BY <2>2, <2>3, <3>1, <3>3, <3>4 DEF OverPaired
  <2>4. CASE OverKnown(p, s)
    <3>1. Stored(s)' => Stored(s) /\ jid'[s] = jid[s] /\ job[p]["claimer"].jid = jid[s]
        BY <2>4 DEF OverKnown, Stored, Remembers
    <3> QED
        BY <2>4, <3>1 DEF OverKnown, OverPaired
  <2>5. CASE Pair(p, s)
    <3>1. ~Stored(s)'
        BY <2>5, PairFacts DEF Stored
    <3> QED
        BY <2>5, <3>1, PairFacts DEF OverPaired, LoggedIn
  <2> QED
    BY <2>1, <2>3, <2>4, <2>5, IdStep
<1> QED
    BY <1>1, <1>2

\* Whoever has the jid of a paired device to write has the session of that device.
LEMMA WritesOwnStep ==
    ASSUME ResumeInv, OwnerInv', Readable, NEW p \in Pods, NEW s \in Slots, [Next]_vars
    PROVE  WritesOwn(p, s)'
<1> USE DEF ResumeInv
<1> SUFFICES ASSUME NEW j \in device'[s], Pending(p, s, j)'
             PROVE  id'[p][s] = j
    BY DEF WritesOwn, Pending
<1>1. j \in JidOrNone /\ j # NoJid
    BY GatewayAssumption DEF OwnerInv, ManagerInv, TypeOK, JidOrNone
<1>2. CASE ~Pending(p, s, j)
    BY <1>1, <1>2, PendingStep
<1>3. CASE Pending(p, s, j) /\ j \notin device[s]
  <2>1. PICK q \in Pods : Pair(q, s) /\ j = id'[q][s]
    BY <1>3, DeviceStep
  <2> QED
    BY <1>3, <2>1, PairFacts
<1>4. CASE Pending(p, s, j) /\ j \in device[s]
  <2>1. id[p][s] = j /\ HasSession(p, s)
    BY <1>4, PendingIsOwn
  <2>2. Alone(p, s)
    BY <2>1, SessionAlone
  <2>3. ~OverKnown(p, s) /\ ~Pair(p, s)
    BY <2>2, PairFacts DEF Alone, OverKnown
  <2>4. ~NoMemory(p)
    BY <1>1, PendingStep
  <2>5. ~LogOut(p, s)
    BY <2>1 DEF LogOut, OwnerInv, ManagerInv, TypeOK
  <2> QED
    BY <2>1, <2>3, <2>4, <2>5, IdStep, ReadableIsCalm
<1> QED
    BY <1>2, <1>3, <1>4

-----------------------------------------------------------------------------
\* What is remembered of a stored session.

\* One that is stored, and that no pod has, was so before.
LEMMA StoredBefore ==
    ASSUME ResumeInv, Readable, NEW s \in Slots, [Next]_vars, Stored(s)',
           \A q \in Pods : ~HasSession(q, s)'
    PROVE  Stored(s) /\ jid'[s] = jid[s]
<1>1. ASSUME NEW q \in Pods
      PROVE  ~Pair(q, s)
  <2> SUFFICES ASSUME Pair(q, s)
               PROVE  FALSE
    OBVIOUS
  <2>1. PICK j \in Jids : SetClient(q, s, "authing", j)
    BY DEF Pair
  <2>2. id'[q][s] = j
    BY <2>1, SetClientTypes DEF ResumeInv, OwnerInv, ManagerInv, Links, JidOrNone
  <2> QED
    BY <2>2, GatewayAssumption DEF HasSession
<1>2. jid'[s] \in device[s]
    BY <1>1, DeviceStep DEF Stored
<1>3. jid'[s] = jid[s]
  <2> SUFFICES ASSUME jid'[s] # jid[s]
               PROVE  FALSE
    OBVIOUS
  <2>1. PICK q \in Pods : Pending(q, s, jid'[s])
    BY JidStep
  <2>2. HasSession(q, s) /\ UNCHANGED id
    BY <1>2, <2>1, PendingIsOwn, JidStep DEF client
  <2> QED
    BY <2>2 DEF HasSession
<1> QED
    BY <1>2, <1>3 DEF Stored

LEMMA RemembersStays ==
    ASSUME NEW p \in Pods, NEW s \in Slots, Remembers(p, s), Stored(s), jid'[s] = jid[s],
           todo'[p] \subseteq todo[p],
           job'[p]["claimer"] = job[p]["claimer"] \/ job'[p]["claimer"].step = "none",
           link'[p][s] = "pairing" => link[p][s] = "pairing"
    PROVE  Remembers(p, s)'
BY DEF Remembers, Doing

LEMMA AloneRemembers ==
    ASSUME NEW p \in Pods, NEW s \in Slots, Alone(p, s)'
    PROVE  Remembers(p, s)'
<1>1. /\ ~Listed(p, s)' /\ ~Doing(p, "claimer", "check", s)' /\ link'[p][s] # "pairing"
      /\ ~Doing(p, "claimer", "device", s)' /\ ~Doing(p, "claimer", "pair", s)'
      /\ ~Doing(p, "claimer", "mark-qr", s)'
    BY DEF Alone, Wanted
<1> QED
    BY <1>1 DEF Remembers, Listed

LEMMA ClaimRemembers ==
    ASSUME ResumeInv, NEW p \in Pods, NEW s \in Slots, NEW q \in Pods, Claim(q), Stored(s)
    PROVE  Remembers(p, s)'
<1> USE DEF ResumeInv, OwnerInv, ManagerInv
<1>1. PICK S \in ClaimChoices(q, Slots) :
        todo' = [todo EXCEPT ![q] = {[slot |-> t, jid |-> jid[t]] : t \in S}]
    BY DEF Claim
<1>2. UNCHANGED <<link, job, jid>>
    BY DEF Claim, client
<1>3. todo'[p] = IF p = q THEN {[slot |-> t, jid |-> jid[t]] : t \in S} ELSE todo[p]
    BY <1>1 DEF TypeOK
<1>4. ASSUME NEW r \in todo'[p], r.slot = s
      PROVE  r.jid = jid[s]
    BY <1>3, <1>4 DEF Remembers
<1> QED
    BY <1>2, <1>4 DEF Remembers, Doing

LEMMA NextRemembers ==
    ASSUME ResumeInv, NEW p \in Pods, NEW s \in Slots, NEW q \in Pods, NextClaimed(q), Stored(s)
    PROVE  Remembers(p, s)'
<1> USE DEF ResumeInv, OwnerInv, ManagerInv
<1>1. PICK r \in todo[q] :
        /\ todo' = [todo EXCEPT ![q] = @ \ {r}]
        /\ job' = [job EXCEPT ![q]["claimer"] =
                     IF Owns(q, r.slot) THEN NoJob
                     ELSE [step |-> "check", slot |-> r.slot, jid |-> r.jid]]
    BY DEF NextClaimed
<1>2. UNCHANGED <<link, jid>>
    BY DEF NextClaimed, client
<1>3. todo'[p] \subseteq todo[p]
    BY <1>1 DEF TypeOK
<1>4. \/ job'[p]["claimer"] = job[p]["claimer"]
      \/ job'[p]["claimer"].step = "none"
      \/ p = q /\ job'[p]["claimer"] = [step |-> "check", slot |-> r.slot, jid |-> r.jid]
    BY <1>1 DEF TypeOK, Workers, NoJob
<1>5. CASE p = q /\ job'[p]["claimer"] = [step |-> "check", slot |-> r.slot, jid |-> r.jid]
  <2>1. r.slot = s => r.jid = jid'[s]
    BY <1>2, <1>5 DEF Remembers
  <2>2. \A a : Doing(p, "claimer", a, s)' => a = "check" /\ r.slot = s /\ job'[p]["claimer"].jid = r.jid
    BY <1>5 DEF Doing
  <2>3. \A x \in todo'[p] : x.slot = s => x.jid = jid'[s]
    BY <1>2, <1>3 DEF Remembers
  <2>4. link'[p][s] # "pairing"
    BY <1>2 DEF Remembers
  <2> QED
    BY <2>1, <2>2, <2>3, <2>4 DEF Remembers
<1> QED
    BY <1>2, <1>3, <1>4, <1>5, RemembersStays

LEMMA GoneRemembers ==
    ASSUME ResumeInv, NEW p \in Pods, NEW s \in Slots, NEW q \in Pods, NoMemory(q), Stored(s),
           jid'[s] = jid[s]
    PROVE  Remembers(p, s)'
<1> USE DEF ResumeInv, OwnerInv, ManagerInv
<1>1. CASE p = q
  <2>1. job'[p]["claimer"].step = "none"
    BY <1>1, NoMemoryTypes DEF Workers, NoJob
  <2>2. link'[p][s] = "none" /\ todo'[p] = {}
    BY <1>1 DEF NoMemory, TypeOK
  <2> QED
    BY <2>1, <2>2, RemembersStays
<1>2. CASE p # q
  <2>1. link'[p] = link[p] /\ job'[p] = job[p] /\ todo'[p] = todo[p]
    BY <1>2, NoMemoryTypes DEF NoMemory, TypeOK
  <2> QED
    BY <2>1, RemembersStays
<1> QED
    BY <1>1, <1>2

LEMMA BringUpRemembers ==
    ASSUME ResumeInv, Readable, NEW p \in Pods, NEW s \in Slots, NEW q \in Pods,
           NEW w \in Workers, NEW t \in Slots, BringUp(q, w, t), Stored(s), jid'[s] = jid[s]
    PROVE  Remembers(p, s)'
<1> USE DEF ResumeInv, OwnerInv, ManagerInv
<1>1. CASE BringPanics(q, w, t)
    BY <1>1, GoneRemembers DEF BringPanics
<1>2. CASE ~BringPanics(q, w, t)
  <2>1. PICK step \in Steps, next \in (Steps \cup {"none"}) \ {"mark-claimed"} :
            /\ Doing(q, w, step, t) /\ Moves(q, w, t, next)
            /\ step = "mark-claimed" => MarkClaimed(q, w, t)
            /\ next = "check" => step = "mark-claimed"
    BY <1>2, BringMoves
  <2>2. w = "claimer" /\ ~MarkClaimed(q, w, t)
    BY ClaimerBrings
  <2>3. UNCHANGED todo /\ {"check", "device", "pair", "mark-qr"} \subseteq Steps
    BY <1>2, BringFrame DEF Steps
  <2>4. CASE p # q \/ s # t
    <3>1. \A a \in Steps : Doing(p, "claimer", a, s)' => Doing(p, "claimer", a, s)
        BY <2>1, <2>2, <2>4, MovesDoing
    <3>2. job'[p]["claimer"] = job[p]["claimer"] \/ p = q
        BY <2>1, <2>2 DEF Moves
    <3>3. p = q => ~Doing(p, "claimer", "check", s) /\ ~Doing(p, "claimer", "device", s)
        BY <2>1, <2>2, <2>4 DEF Doing
    <3>4. link'[p][s] = link[p][s]
        BY <1>2, <2>4, BringFrame, LinkElsewhere
    <3> QED
        BY <2>3, <3>1, <3>2, <3>3, <3>4 DEF Remembers
  <2>5. ASSUME p = q, s = t, \A a \in {"check", "device", "pair", "mark-qr"} : ~Doing(p, w, a, s)',
               link'[p][s] # "pairing"
        PROVE  Remembers(p, s)'
    BY <2>2, <2>3, <2>5 DEF Remembers
  <2>6. link[p][s] # "pairing"
    BY DEF Remembers
  <2>7. CASE p = q /\ s = t /\ BringCheck(p, w, s)
    <3>1. Doing(p, w, "check", s) /\ "check" \in Steps
        BY <2>7 DEF BringCheck, Steps
    <3>2. PICK n \in {"none", "device"} :
            Advance(p, w, n) /\ (UNCHANGED link \/ link' = [link EXCEPT ![p][s] = "none"])
        BY <2>7 DEF BringCheck, client, SetClient
    <3>3. link'[p][s] # "pairing"
        BY <2>6, <3>2 DEF TypeOK
    <3>4. n \in Steps \cup {"none"}
        BY DEF Steps
    <3>5. \A a \in Steps : Doing(p, "claimer", a, s)' => a = n
        BY <2>2, <3>1, <3>2, <3>4, AdvanceDoing
    <3>6. n \in Steps => job'[p]["claimer"].jid = job[p]["claimer"].jid
        BY <2>2, <3>1, <3>2, <3>4, AdvanceTypes
    <3>7. job[p]["claimer"].jid = jid[s]
        BY <2>2, <3>1 DEF Remembers
    <3> QED
        BY <2>2, <2>3, <3>2, <3>3, <3>5, <3>6, <3>7 DEF Remembers
  <2>8. CASE p = q /\ s = t /\ BringDevice(p, w, s)
    <3>1. Doing(p, w, "device", s) /\ {"device", "resume"} \subseteq Steps
        BY <2>8 DEF BringDevice, Steps
    <3>2. job[p][w].jid \in device[s]
        BY <2>2, <3>1 DEF Remembers, Stored
    <3>3. up[p] = "up"
        BY <2>2, <3>1 DEF Held, Busy, Making, ClaimsOnly, Running
    <3>4. OverDevice(p, w, s)
        BY <2>8, <3>2, <3>3, ReadableIsCalm DEF BringDevice, DeviceUnread
    <3>5. link'[p][s] # "pairing"
        BY <3>4 DEF OverDevice, SetClient, TypeOK
    <3>6. \A a \in Steps : Doing(p, w, a, s)' => a = "resume"
        BY <3>1, <3>4, AdvanceDoing DEF OverDevice
    <3> QED
        BY <2>3, <2>5, <2>8, <3>5, <3>6
  <2>9. CASE p = q /\ s = t /\ BringResume(p, w, s)
    <3>1. PICK n \in {"mark", "none"} :
            Advance(p, w, n) /\ (UNCHANGED link \/ link' = [link EXCEPT ![p][s] = "authing"])
        BY <2>9 DEF BringResume, SetLink, client
    <3>2. link'[p][s] # "pairing"
        BY <2>6, <3>1 DEF TypeOK
    <3>3. Doing(p, w, "resume", s) /\ "resume" \in Steps /\ n \in Steps \cup {"none"}
        BY <2>9 DEF BringResume, Steps
    <3>4. \A a \in Steps : Doing(p, w, a, s)' => a = n
        BY <3>1, <3>3, AdvanceDoing
    <3> QED
        BY <2>3, <2>5, <2>9, <3>2, <3>4
  <2>10. CASE p = q /\ s = t /\ Finishes(p, w, s)
    <3>1. link'[p][s] # "pairing"
        BY <2>6, <2>10 DEF Finishes, BringMark, BringRead, BringRow, BringLog, client
    <3>2. \A a \in ClaimerSteps : ~Doing(p, w, a, s)'
        BY <2>10, FinishesDoing
    <3> QED
        BY <2>5, <2>10, <3>1, <3>2 DEF ClaimerSteps
  <2>11. ~(p = q /\ s = t /\ (BringPair(p, w, s) \/ BringMarkQR(p, w, s)))
    BY <2>2 DEF BringPair, BringMarkQR, Remembers
  <2> QED
    BY <1>2, <2>2, <2>4, <2>7, <2>8, <2>9, <2>10, <2>11 DEF BringUp, Finishes
<1> QED
    BY <1>1, <1>2

LEMMA RemembersStep ==
    ASSUME ResumeInv, OwnerInv', Readable, NEW p \in Pods, NEW s \in Slots, [Next]_vars
    PROVE  Remembers(p, s)'
<1> USE DEF ResumeInv, OwnerInv, ManagerInv
<1>1. CASE \E q \in Pods : HasSession(q, s)'
  <2>1. \A q \in Pods, t \in Slots : OverPaired(q, t)'
    BY OverPairedStep
  <2> QED
    BY <1>1, <2>1, SessionWillBeAlone, AloneRemembers
<1>2. CASE ~Stored(s)'
    BY <1>2 DEF Remembers
<1>3. CASE Stored(s)' /\ \A q \in Pods : ~HasSession(q, s)'
  <2>1. Stored(s) /\ jid'[s] = jid[s]
    BY <1>3, StoredBefore
  <2>2. ASSUME NEW q \in Pods, Process(q)
        PROVE  Remembers(p, s)'
    <3>1. ~Signal(q) /\ ~CloseClients(q) /\ ~Release(q) /\ ~Exit(q)
        BY ReadableIsCalm DEF Signal, CloseClients, Release, Exit, Undisturbed, ClaimsOnly
    <3>2. CASE Start(q)
        BY <2>1, <3>2, RemembersStays DEF Start, memory, client
    <3> QED
        BY <2>1, <2>2, <3>1, <3>2, GoneRemembers DEF Process, Crash
  <2>3. ASSUME \/ UNCHANGED vars
               \/ \E t \in Slots : Expire(t)
               \/ \E q \in Pods : Heartbeat(q)
        PROVE  Remembers(p, s)'
    BY <2>1, <2>3, RemembersStays DEF vars, memory, client, Expire, Heartbeat
  <2>4. ASSUME NEW q \in Pods, NEW t \in Slots, Callback(q, t) \/ External(q, t)
        PROVE  Remembers(p, s)'
    <3>1. UNCHANGED <<todo, job>>
        BY <2>4, CallbackFrame, ExternalFrame
    <3>2. ~OperatorClose(q, t)
        BY ReadableIsCalm DEF OperatorClose, Undisturbed
    <3>3. UNCHANGED link \/ \E state \in Links \ {"pairing"} : link' = [link EXCEPT ![q][t] = state]
      <4>1. CASE Callback(q, t)
        BY <4>1, CallbackFrame DEF client, SetClient, Links
      <4>2. CASE External(q, t)
        BY <3>2, <4>2 DEF External, LogIn, Drop, Redial, LogOut, QRCode, Pair, QRTimeout, QRError,
           SetLink, SetClient, client, Links
      <4> QED
        BY <2>4, <4>1, <4>2
    <3>4. link'[p][s] = "pairing" => link[p][s] = "pairing"
      <4>1. link \in [Pods -> [Slots -> Links]]
        BY DEF TypeOK
      <4> QED
        BY <3>3, <4>1
    <3> QED
        BY <2>1, <3>1, <3>4, RemembersStays
  <2>5. \A q \in Pods, t \in Slots : ~CreateConnection(q, t)
    BY ReadableIsCalm DEF CreateConnection, Undisturbed
  <2> QED
    BY <2>1, <2>2, <2>3, <2>4, <2>5, ClaimRemembers, NextRemembers, BringUpRemembers DEF Next
<1> QED
    BY <1>1, <1>2, <1>3

LEMMA ResumeInvHolds ==
    ASSUME Readable
    PROVE  Spec => []ResumeInv
<1>1. Init => \A p \in Pods, s \in Slots : Remembers(p, s) /\ OverPaired(p, s) /\ WritesOwn(p, s)
  <2> SUFFICES ASSUME Init, NEW p \in Pods, NEW s \in Slots
               PROVE  Remembers(p, s) /\ OverPaired(p, s) /\ WritesOwn(p, s)
    OBVIOUS
  <2>1. /\ todo[p] = {} /\ writes[p] = {} /\ job[p]["claimer"].step = "none"
        /\ link[p][s] = "none" /\ id[p][s] = NoJid
    BY DEF Init, Workers, NoJob
  <2>2. Remembers(p, s) /\ WritesOwn(p, s)
    BY <2>1 DEF Remembers, WritesOwn, Doing
  <2>3. OverPaired(p, s)
    BY <2>1 DEF OverPaired, HasSession
  <2> QED
    BY <2>2, <2>3
<1>2. ResumeInv /\ OwnerInv' /\ [Next]_vars
        => (\A p \in Pods, s \in Slots : Remembers(p, s) /\ OverPaired(p, s) /\ WritesOwn(p, s))'
    BY RemembersStep, OverPairedStep, WritesOwnStep
<1>3. Undisturbed
    BY ReadableIsCalm
<1> QED
    BY <1>1, <1>2, <1>3, OwnerInvHolds, PTL DEF Spec, ResumeInv

\* A slot whose session is stored is not asked to pair again: neither a pod that dies at
\* any step, nor a statement or a Connect that fails, nor a callback that writes late, makes
\* a pod that brings it up pair while the row has the jid of a paired device.  That the row
\* keeps it is SavedSessionsStay, with its exception.
THEOREM StoredSessionsResume ==
    ASSUME Readable
    PROVE  Spec => []StoredIsResumed
<1>1. ResumeInv => StoredIsResumed
    BY DEF ResumeInv, Remembers, StoredIsResumed
<1> QED
    BY <1>1, ResumeInvHolds, PTL

\* No callback and no Bring, however late between reading a jid and writing it, replaces the
\* jid of a stored session by that of another device that is still paired: who has such a
\* jid to write has its session, and is alone with the slot.
THEOREM SavedSessionsStay ==
    ASSUME Readable
    PROVE  Spec => SavedStays
<1> DEFINE Safe ==
        \A s \in Slots : Stored(s) /\ jid'[s] # jid[s] =>
            jid[s] \notin device'[s] \/ jid'[s] \notin device'[s]
<1>1. ResumeInv /\ [Next]_vars => Safe
  <2> SUFFICES ASSUME ResumeInv, [Next]_vars, NEW s \in Slots, Stored(s), jid'[s] # jid[s],
                      jid'[s] \in device'[s]
               PROVE  FALSE
    OBVIOUS
  <2>1. PICK q \in Pods : Pending(q, s, jid'[s])
    BY JidStep
  <2>2. jid'[s] \in device[s]
    BY JidStep
  <2>3. id[q][s] = jid'[s] /\ HasSession(q, s)
    BY <2>1, <2>2, PendingIsOwn
  <2>4. id[q][s] = jid[s]
    BY <2>3 DEF ResumeInv, OverPaired
  <2> QED
    BY <2>3, <2>4
<1>2. ResumeInv /\ [Next]_vars => [Safe]_vars
    BY <1>1
<1> QED
    BY <1>2, ResumeInvHolds, PTL DEF Spec, SavedStays
=============================================================================
