--------------------------- MODULE GatewayProofs ---------------------------
(***************************************************************************)
(* Proofs about Gateway for any number of pods and slots and whatever the  *)
(* environment does.                                                       *)
(***************************************************************************)
EXTENDS Gateway, FiniteSetTheorems, TLAPS

\* The statements leave a table of rows.
LEMMA StatementTypes ==
    ASSUME StoreTypeOK
    PROVE  /\ \A p \in Pods, S \in SUBSET Slots : ClaimedRows(p, S) \in [Slots -> Row]
           /\ \A p \in Pods : HeartbeatRows(p) \in [Slots -> Row]
           /\ \A s \in Slots, st \in Statuses : StatusRows(s, st) \in [Slots -> Row]
           /\ \A p \in Pods : ReleasedRows(p) \in [Slots -> Row]
           /\ \A s \in Slots : InsertedRows(s) \in [Slots -> Row]
<1> USE StoreAssumption DEF StoreTypeOK, Row, NeverSeen, Statuses
<1>1. \A p \in Pods, S \in SUBSET Slots : ClaimedRows(p, S) \in [Slots -> Row]
    BY DEF ClaimedRows
<1>2. \A p \in Pods : HeartbeatRows(p) \in [Slots -> Row]
    BY DEF HeartbeatRows
<1>3. \A s \in Slots, st \in Statuses : StatusRows(s, st) \in [Slots -> Row]
    BY DEF StatusRows
<1>4. \A p \in Pods : ReleasedRows(p) \in [Slots -> Row]
    BY DEF ReleasedRows
<1>5. \A s \in Slots : InsertedRows(s) \in [Slots -> Row]
    BY DEF InsertedRows, NewRow
<1> QED
    BY <1>1, <1>2, <1>3, <1>4, <1>5

\* A status that is written to a row by whoever may write it.
LEMMA SetStatusTypes ==
    ASSUME TypeOK, NEW p \in Pods, NEW s \in Slots, NEW status \in Statuses,
           NEW j \in JidOrNone, SetStatus(p, s, status, j)
    PROVE  rows' \in [Slots -> Row] /\ jid' \in [Slots -> JidOrNone]
<1>1. rows' \in [Slots -> Row]
    BY StatementTypes DEF TypeOK, StoreTypeOK, SetStatus
<1>2. jid' \in [Slots -> JidOrNone]
    BY DEF TypeOK, SetStatus
<1> QED
    BY <1>1, <1>2

\* A worker is at its next step, with its slot, and the others are where they were.
Moves(p, w, s, next) ==
    /\ job' \in [Pods -> [Workers -> Job]]
    /\ \A q \in Pods, v \in Workers : q # p \/ v # w => job'[q][v] = job[q][v]
    /\ job'[p][w].step = next
    /\ next \in Steps => job'[p][w].slot = s

LEMMA DoingTypes ==
    ASSUME TypeOK, NEW p \in Pods, NEW w \in Workers, NEW s \in Slots, NEW step \in Steps,
           Doing(p, w, step, s)
    PROVE  job[p][w] \in [step : Steps, slot : Slots, jid : JidOrNone]
<1>1. job[p][w] \in Job
    BY DEF TypeOK
<1>2. NoJob.step \notin Steps
    BY DEF NoJob, Steps
<1> QED
    BY <1>1, <1>2 DEF Job, Doing

LEMMA AdvanceTypes ==
    ASSUME TypeOK, NEW p \in Pods, NEW w \in Workers, NEW s \in Slots, NEW step \in Steps,
           Doing(p, w, step, s), NEW next \in Steps \cup {"none"}, Advance(p, w, next)
    PROVE  Moves(p, w, s, next) /\ (next \in Steps => job'[p][w].jid = job[p][w].jid)
<1>1. job[p][w] \in [step : Steps, slot : Slots, jid : JidOrNone]
    BY DoingTypes
<1>2. (IF next = "none" THEN NoJob ELSE [job[p][w] EXCEPT !.step = next]) \in Job
    BY <1>1 DEF Job
<1>3. job' = [job EXCEPT ![p][w] = IF next = "none" THEN NoJob ELSE [job[p][w] EXCEPT !.step = next]]
    BY DEF Advance
<1>4. job'[p][w] = IF next = "none" THEN NoJob ELSE [job[p][w] EXCEPT !.step = next]
    BY <1>3 DEF TypeOK
<1>5. /\ job'[p][w].step = next
      /\ next \in Steps => job'[p][w].slot = s /\ job'[p][w].jid = job[p][w].jid
  <2>1. CASE next = "none"
    <3>1. job'[p][w] = [step |-> "none"]
        BY <1>4, <2>1 DEF NoJob
    <3>2. next \notin Steps
        BY <2>1 DEF Steps
    <3> QED
        BY <2>1, <3>1, <3>2
  <2>2. CASE next \in Steps
    <3>1. job'[p][w] = [job[p][w] EXCEPT !.step = next]
        BY <1>4, <2>2 DEF Steps
    <3> QED
        BY <1>1, <3>1 DEF Doing
  <2> QED
      BY <2>1, <2>2
<1>6. job' \in [Pods -> [Workers -> Job]]
    BY <1>2, <1>3 DEF TypeOK
<1>7. \A q \in Pods, v \in Workers : q # p \/ v # w => job'[q][v] = job[q][v]
    BY <1>3 DEF TypeOK
<1> QED
    BY <1>5, <1>6, <1>7 DEF Moves

\* The worker that reads a Store.ID goes on with it.
LEMMA ReadTypes ==
    ASSUME TypeOK, NEW p \in Pods, NEW w \in Workers, NEW s \in Slots, BringRead(p, w, s)
    PROVE  Moves(p, w, s, "row") /\ job'[p][w].jid = id[p][s]
<1>1. job[p][w] \in [step : Steps, slot : Slots, jid : JidOrNone] /\ job[p][w].slot = s
    BY DoingTypes DEF BringRead, Steps, Doing
<1>2. job' = [job EXCEPT ![p][w] = [job[p][w] EXCEPT !.step = "row", !.jid = id[p][s]]]
    BY DEF BringRead, TypeOK
<1>3. [job[p][w] EXCEPT !.step = "row", !.jid = id[p][s]] \in Job
  <2>1. id[p][s] \in JidOrNone /\ "row" \in Steps
    BY DEF TypeOK, Steps
  <2> QED
    BY <1>1, <2>1 DEF Job
<1>4. job'[p][w] = [job[p][w] EXCEPT !.step = "row", !.jid = id[p][s]]
    BY <1>2 DEF TypeOK
<1>5. job'[p][w].step = "row" /\ job'[p][w].jid = id[p][s] /\ job'[p][w].slot = s
    BY <1>1, <1>4
<1>6. job' \in [Pods -> [Workers -> Job]]
    BY <1>2, <1>3 DEF TypeOK
<1>7. \A q \in Pods, v \in Workers : q # p \/ v # w => job'[q][v] = job[q][v]
    BY <1>2 DEF TypeOK
<1> QED
    BY <1>5, <1>6, <1>7 DEF Moves

\* A task that goes on.
LEMMA GoesTypes ==
    ASSUME TypeOK, NEW p \in Pods, NEW s \in Slots, NEW step \in TaskSteps,
           NEW next \in SUBSET TaskSteps, Goes(p, s, step, next)
    PROVE  /\ tasks' \in [Pods -> SUBSET (Slots \X TaskSteps)]
           /\ \A q \in Pods, t \in Slots, a \in TaskSteps :
                At(q, t, a)' <=> \/ q = p /\ t = s /\ (a \in next \/ (a # step /\ At(q, t, a)))
                                 \/ (q # p \/ t # s) /\ At(q, t, a)
<1>1. tasks' = [tasks EXCEPT ![p] = (@ \ {<<s, step>>}) \cup {<<s, n>> : n \in next}]
    BY DEF Goes
<1>2. (tasks[p] \ {<<s, step>>}) \cup {<<s, n>> : n \in next} \in SUBSET (Slots \X TaskSteps)
    BY DEF TypeOK
<1>3. tasks' \in [Pods -> SUBSET (Slots \X TaskSteps)]
    BY <1>1, <1>2 DEF TypeOK
<1>4. \A q \in Pods : tasks'[q] = IF q = p THEN (tasks[p] \ {<<s, step>>}) \cup {<<s, n>> : n \in next}
                                 ELSE tasks[q]
    BY <1>1 DEF TypeOK
<1> QED
    BY <1>3, <1>4 DEF At

\* A task that begins.
LEMMA BeginsTypes ==
    ASSUME TypeOK, NEW p \in Pods, NEW s \in Slots, NEW step \in TaskSteps, Begins(p, s, step)
    PROVE  /\ tasks' \in [Pods -> SUBSET (Slots \X TaskSteps)]
           /\ \A q \in Pods, t \in Slots, a \in TaskSteps :
                At(q, t, a)' <=> (q = p /\ t = s /\ a = step) \/ At(q, t, a)
<1>1. tasks' = [tasks EXCEPT ![p] = @ \cup {<<s, step>>}]
    BY DEF Begins
<1>2. tasks[p] \cup {<<s, step>>} \in SUBSET (Slots \X TaskSteps)
    BY DEF TypeOK
<1>3. tasks' \in [Pods -> SUBSET (Slots \X TaskSteps)]
    BY <1>1, <1>2 DEF TypeOK
<1>4. \A q \in Pods : tasks'[q] = IF q = p THEN tasks[p] \cup {<<s, step>>} ELSE tasks[q]
    BY <1>1 DEF TypeOK
<1> QED
    BY <1>3, <1>4 DEF At

\* A status that is set in memory makes and removes no entry.
LEMMA SetMemTypes ==
    ASSUME TypeOK, NEW p \in Pods, NEW s \in Slots,
           NEW status \in Entries \ {"none"}, SetMem(p, s, status)
    PROVE  /\ entry' \in [Pods -> [Slots -> Entries]]
           /\ \A q \in Pods, t \in Slots : Owns(q, t)' <=> Owns(q, t)
BY DEF TypeOK, SetMem, Owns, Entries

LEMMA SetQRTypes ==
    ASSUME TypeOK, NEW p \in Pods, NEW s \in Slots, NEW on \in BOOLEAN, SetQR(p, s, on)
    PROVE  qr' \in [Pods -> [Slots -> BOOLEAN]]
BY DEF TypeOK, SetQR

LEMMA SetLinkTypes ==
    ASSUME TypeOK, NEW p \in Pods, NEW s \in Slots, NEW state \in Links, SetLink(p, s, state)
    PROVE  /\ link' \in [Pods -> [Slots -> Links]] /\ id' \in [Pods -> [Slots -> JidOrNone]]
           /\ \A q \in Pods, t \in Slots :
                link'[q][t] = IF q = p /\ t = s THEN state ELSE link[q][t]
BY DEF TypeOK, SetLink

LEMMA SetClientTypes ==
    ASSUME TypeOK, NEW p \in Pods, NEW s \in Slots, NEW state \in Links, NEW j \in JidOrNone,
           SetClient(p, s, state, j)
    PROVE  /\ link' \in [Pods -> [Slots -> Links]] /\ id' \in [Pods -> [Slots -> JidOrNone]]
           /\ \A q \in Pods, t \in Slots :
                /\ link'[q][t] = IF q = p /\ t = s THEN state ELSE link[q][t]
                /\ id'[q][t] = IF q = p /\ t = s THEN j ELSE id[q][t]
<1>1. link' \in [Pods -> [Slots -> Links]] /\ \A q \in Pods, t \in Slots :
            link'[q][t] = IF q = p /\ t = s THEN state ELSE link[q][t]
    BY DEF TypeOK, SetClient
<1>2. id' \in [Pods -> [Slots -> JidOrNone]] /\ \A q \in Pods, t \in Slots :
            id'[q][t] = IF q = p /\ t = s THEN j ELSE id[q][t]
    BY DEF TypeOK, SetClient
<1> QED
    BY <1>1, <1>2

\* A callback that reads a Store.ID has it to write, if there is one.
LEMMA ReadsTypes ==
    ASSUME TypeOK, NEW p \in Pods, NEW s \in Slots, NEW step \in TaskSteps,
           NEW next \in WriteSteps, ReadsID(p, s, step, next)
    PROVE  /\ tasks' \in [Pods -> SUBSET (Slots \X TaskSteps)]
           /\ writes' \in [Pods -> SUBSET Write]
           /\ \A q \in Pods, t \in Slots, a \in TaskSteps : At(q, t, a)' => At(q, t, a)
           /\ \A q \in Pods, x \in Write : x \in writes'[q] =>
                x \in writes[q] \/ (q = p /\ x.slot = s /\ x.jid = id[p][s])
<1> DEFINE read == {[slot |-> s, step |-> next, jid |-> j] : j \in {id[p][s]} \ {NoJid}}
<1>1. tasks' = [tasks EXCEPT ![p] = @ \ {<<s, step>>}] /\ writes' = [writes EXCEPT ![p] = @ \cup read]
    BY DEF ReadsID
<1>2. read \in SUBSET Write /\ \A x \in read : x.slot = s /\ x.jid = id[p][s]
  <2>1. \A j \in {id[p][s]} \ {NoJid} : j \in Jids
    BY DEF TypeOK, JidOrNone
  <2> QED
    BY <2>1 DEF Write
<1>3. tasks[p] \ {<<s, step>>} \in SUBSET (Slots \X TaskSteps) /\ writes[p] \cup read \in SUBSET Write
    BY <1>2 DEF TypeOK
<1> HIDE DEF read
<1>4. /\ tasks \in [Pods -> SUBSET (Slots \X TaskSteps)]
      /\ writes \in [Pods -> SUBSET Write]
    BY DEF TypeOK
<1>5. /\ tasks' \in [Pods -> SUBSET (Slots \X TaskSteps)]
      /\ \A q \in Pods : tasks'[q] = IF q = p THEN tasks[p] \ {<<s, step>>} ELSE tasks[q]
    BY <1>1, <1>3, <1>4
<1>8. /\ writes' \in [Pods -> SUBSET Write]
      /\ \A q \in Pods : writes'[q] = IF q = p THEN writes[p] \cup read ELSE writes[q]
    BY <1>1, <1>3, <1>4
<1>6. \A q \in Pods, t \in Slots, a \in TaskSteps : At(q, t, a)' => At(q, t, a)
    BY <1>5 DEF At
<1>7. \A q \in Pods, x \in Write : x \in writes'[q] =>
        x \in writes[q] \/ (q = p /\ x.slot = s /\ x.jid = id[p][s])
    BY <1>2, <1>8
<1> QED
    BY <1>5, <1>6, <1>7, <1>8

\* One that writes it is done, or goes on to the next step.
LEMMA WritesTypes ==
    ASSUME TypeOK, NEW p \in Pods, NEW s \in Slots, NEW x \in Write, NEW next \in SUBSET TaskSteps,
           Writes(p, s, x, next)
    PROVE  /\ tasks' \in [Pods -> SUBSET (Slots \X TaskSteps)]
           /\ writes' \in [Pods -> SUBSET Write] /\ \A q \in Pods : writes'[q] \subseteq writes[q]
           /\ \A q \in Pods, t \in Slots, a \in TaskSteps :
                At(q, t, a)' => At(q, t, a) \/ (q = p /\ t = s /\ a \in next)
<1>1. /\ tasks' = [tasks EXCEPT ![p] = @ \cup {<<s, n>> : n \in next}]
      /\ writes' = [writes EXCEPT ![p] = @ \ {x}]
    BY DEF Writes
<1>2. tasks[p] \cup {<<s, n>> : n \in next} \in SUBSET (Slots \X TaskSteps)
    BY DEF TypeOK
<1>3. /\ tasks \in [Pods -> SUBSET (Slots \X TaskSteps)]
      /\ writes \in [Pods -> SUBSET Write]
    BY DEF TypeOK
<1>4. /\ tasks' \in [Pods -> SUBSET (Slots \X TaskSteps)]
      /\ \A q \in Pods : tasks'[q] = IF q = p THEN tasks[p] \cup {<<s, n>> : n \in next} ELSE tasks[q]
    BY <1>1, <1>2, <1>3
<1>5. writes' \in [Pods -> SUBSET Write] /\ \A q \in Pods : writes'[q] \subseteq writes[q]
    BY <1>1, <1>3
<1> QED
    BY <1>4, <1>5 DEF At

\* A process that is gone has nothing left.
LEMMA NoMemoryTypes ==
    ASSUME TypeOK, NEW p \in Pods, NoMemory(p)
    PROVE  /\ entry' \in [Pods -> [Slots -> Entries]]
           /\ qr' \in [Pods -> [Slots -> BOOLEAN]]
           /\ link' \in [Pods -> [Slots -> Links]]
           /\ tasks' \in [Pods -> SUBSET (Slots \X TaskSteps)]
           /\ id' \in [Pods -> [Slots -> JidOrNone]] /\ writes' \in [Pods -> SUBSET Write]
           /\ todo' \in [Pods -> SUBSET [slot : Slots, jid : JidOrNone]]
           /\ job' \in [Pods -> [Workers -> Job]]
           /\ tasks'[p] = {} /\ \A w \in Workers : job'[p][w] = NoJob
           /\ \A q \in Pods \ {p} : /\ entry'[q] = entry[q] /\ link'[q] = link[q]
                                   /\ tasks'[q] = tasks[q] /\ job'[q] = job[q]
<1> USE DEF NoMemory, TypeOK
<1>1. entry' \in [Pods -> [Slots -> Entries]] /\ \A q \in Pods \ {p} : entry'[q] = entry[q]
    BY DEF Entries
<1>2. qr' \in [Pods -> [Slots -> BOOLEAN]]
    OBVIOUS
<1>3. link' \in [Pods -> [Slots -> Links]] /\ \A q \in Pods \ {p} : link'[q] = link[q]
    BY DEF Links
<1>4. /\ tasks' \in [Pods -> SUBSET (Slots \X TaskSteps)]
      /\ tasks'[p] = {} /\ \A q \in Pods \ {p} : tasks'[q] = tasks[q]
    OBVIOUS
<1>5. todo' \in [Pods -> SUBSET [slot : Slots, jid : JidOrNone]]
    OBVIOUS
<1>9. id' \in [Pods -> [Slots -> JidOrNone]] /\ writes' \in [Pods -> SUBSET Write]
    BY DEF JidOrNone
<1>6. [w \in Workers |-> NoJob] \in [Workers -> Job]
    BY DEF Job
<1>7. job' = [job EXCEPT ![p] = [w \in Workers |-> NoJob]] /\ job \in [Pods -> [Workers -> Job]]
    OBVIOUS
<1>8. /\ job' \in [Pods -> [Workers -> Job]]
      /\ job'[p] = [w \in Workers |-> NoJob] /\ \A q \in Pods \ {p} : job'[q] = job[q]
    BY ONLY <1>6, <1>7, p \in Pods
<1> QED
    BY ONLY <1>1, <1>2, <1>3, <1>4, <1>5, <1>8, <1>9

-----------------------------------------------------------------------------
\* Every variable keeps its type.
LEMMA ProcessTypes ==
    ASSUME TypeOK, NEW p \in Pods, Process(p)
    PROVE  TypeOK'
<1>1. CASE Start(p)
    BY <1>1 DEF Start, TypeOK, StoreTypeOK, memory, client, callbacks
<1>2. CASE Signal(p)
    BY <1>2 DEF Signal, TypeOK, StoreTypeOK, memory, client, callbacks
<1>3. CASE CloseClients(p)
  <2>1. link' \in [Pods -> [Slots -> Links]]
    BY <1>3 DEF CloseClients, TypeOK, Links
  <2> QED
    BY <1>3, <2>1 DEF CloseClients, TypeOK, StoreTypeOK, callbacks
<1>4. CASE Release(p)
  <2>1. rows' \in [Slots -> Row]
    BY <1>4, StatementTypes DEF Release, TypeOK, StoreTypeOK
  <2> QED
    BY <1>4, <2>1 DEF Release, TypeOK, StoreTypeOK, memory, client, callbacks
<1>5. CASE Crash(p) \/ Exit(p)
  <2>1. NoMemory(p) /\ up' = [up EXCEPT ![p] = "down"] /\ UNCHANGED <<rows, jid, device>>
    BY <1>5 DEF Crash, Exit
  <2> QED
    BY <2>1, NoMemoryTypes DEF TypeOK, StoreTypeOK
<1> QED
    BY <1>1, <1>2, <1>3, <1>4, <1>5 DEF Process

LEMMA BringUpTypes ==
    ASSUME TypeOK, NEW p \in Pods, NEW w \in Workers, NEW s \in Slots, BringUp(p, w, s)
    PROVE  TypeOK'
<1>1. CASE MarkClaimed(p, w, s)
  <2>1. rows' \in [Slots -> Row]
    BY <1>1, StatementTypes DEF MarkClaimed, TypeOK, StoreTypeOK, Statuses
  <2>2. job' \in [Pods -> [Workers -> Job]]
    BY <1>1, AdvanceTypes DEF MarkClaimed, Steps, Moves
  <2> QED
    BY <1>1, <2>1, <2>2 DEF MarkClaimed, TypeOK, StoreTypeOK, client, callbacks
<1>2. CASE BringCheck(p, w, s)
  <2>1. job' \in [Pods -> [Workers -> Job]]
    BY <1>2, AdvanceTypes DEF BringCheck, Steps, Moves
  <2>2. link' \in [Pods -> [Slots -> Links]] /\ id' \in [Pods -> [Slots -> JidOrNone]]
    BY <1>2, SetClientTypes DEF BringCheck, TypeOK, Links, JidOrNone, client
  <2>3. entry' \in [Pods -> [Slots -> Entries]] /\ qr' \in [Pods -> [Slots -> BOOLEAN]]
    <3>1. CASE Managed(p, s)
        BY <1>2, <3>1 DEF BringCheck, TypeOK
    <3>2. CASE ~Managed(p, s)
      <4>1. /\ entry' = [entry EXCEPT ![p][s] = "connecting"]
            /\ qr' = [qr EXCEPT ![p][s] = FALSE]
        BY <1>2, <3>2 DEF BringCheck
      <4> QED
        BY <4>1 DEF TypeOK, Entries
    <3> QED
      BY <3>1, <3>2
  <2> QED
    BY <1>2, <2>1, <2>2, <2>3 DEF BringCheck, TypeOK, StoreTypeOK, client, callbacks
<1>3. CASE BringDevice(p, w, s)
  <2>1. job' \in [Pods -> [Workers -> Job]]
    BY <1>3, AdvanceTypes DEF BringDevice, OverDevice, OverNewDevice, Steps, Moves
  <2>2. link' \in [Pods -> [Slots -> Links]] /\ id' \in [Pods -> [Slots -> JidOrNone]]
    <3>1. Doing(p, w, "device", s) /\ "device" \in Steps
        BY <1>3 DEF BringDevice, Steps
    <3>2. job[p][w].jid \in JidOrNone /\ NoJid \in JidOrNone /\ "new" \in Links
        BY <3>1, DoingTypes DEF JidOrNone, Links
    <3> QED
        BY <1>3, <3>2, SetClientTypes DEF BringDevice, OverDevice, OverNewDevice
  <2> QED
    BY <1>3, <2>1, <2>2 DEF BringDevice, TypeOK, StoreTypeOK, client, callbacks
<1>4. CASE BringResume(p, w, s)
  <2>1. job' \in [Pods -> [Workers -> Job]]
    BY <1>4, AdvanceTypes DEF BringResume, Steps, Moves
  <2>2. link' \in [Pods -> [Slots -> Links]] /\ id' \in [Pods -> [Slots -> JidOrNone]]
    BY <1>4, SetLinkTypes DEF BringResume, TypeOK, Links, client
  <2>3. entry' \in [Pods -> [Slots -> Entries]]
    BY <1>4, SetMemTypes DEF BringResume, TypeOK, Entries
  <2> QED
    BY <1>4, <2>1, <2>2, <2>3 DEF BringResume, TypeOK, StoreTypeOK, client, callbacks
<1>5. CASE BringMark(p, w, s)
  <2>1. job' \in [Pods -> [Workers -> Job]]
    BY <1>5, AdvanceTypes DEF BringMark, Steps, Moves
  <2>2. entry' \in [Pods -> [Slots -> Entries]]
    BY <1>5, SetMemTypes DEF BringMark, Entries
  <2> QED
    BY <1>5, <2>1, <2>2 DEF BringMark, TypeOK, StoreTypeOK, client, callbacks
<1>6. CASE BringRow(p, w, s)
  <2>1. Doing(p, w, "row", s) /\ "row" \in Steps /\ "log" \in Steps
    BY <1>6 DEF BringRow, Steps
  <2>2. job' \in [Pods -> [Workers -> Job]]
    BY <1>6, <2>1, AdvanceTypes DEF BringRow, Moves
  <2>3. rows' \in [Slots -> Row] /\ jid' \in [Slots -> JidOrNone]
    <3>1. job[p][w].jid \in JidOrNone /\ "connected" \in Statuses
        BY <2>1, DoingTypes DEF Statuses
    <3> QED
        BY <1>6, <3>1, SetStatusTypes DEF BringRow
  <2> QED
    BY <1>6, <2>2, <2>3 DEF BringRow, TypeOK, StoreTypeOK, client, callbacks
<1>10. CASE BringRead(p, w, s)
    BY <1>10, ReadTypes DEF Moves, BringRead, TypeOK, StoreTypeOK, client, callbacks
<1>11. CASE BringLog(p, w, s)
  <2>1. job' \in [Pods -> [Workers -> Job]]
    BY <1>11, AdvanceTypes DEF BringLog, Steps, Moves
  <2> QED
    BY <1>11, <2>1 DEF BringLog, TypeOK, StoreTypeOK, client, callbacks
<1>7. CASE BringPanics(p, w, s)
    BY <1>7, NoMemoryTypes DEF BringPanics, TypeOK, StoreTypeOK
<1>8. CASE BringPair(p, w, s)
  <2>1. job' \in [Pods -> [Workers -> Job]]
    BY <1>8, AdvanceTypes DEF BringPair, Steps, Moves
  <2>2. link' \in [Pods -> [Slots -> Links]] /\ id' \in [Pods -> [Slots -> JidOrNone]]
    BY <1>8, SetLinkTypes DEF BringPair, TypeOK, Links, client
  <2> QED
    BY <1>8, <2>1, <2>2 DEF BringPair, TypeOK, StoreTypeOK, client, callbacks
<1>9. CASE BringMarkQR(p, w, s)
  <2>1. job' \in [Pods -> [Workers -> Job]]
    BY <1>9, AdvanceTypes DEF BringMarkQR, Steps, Moves
  <2>2. tasks' \in [Pods -> SUBSET (Slots \X TaskSteps)] /\ UNCHANGED writes
    BY <1>9, BeginsTypes DEF BringMarkQR, TaskSteps, Begins
  <2>3. entry' \in [Pods -> [Slots -> Entries]]
    BY <1>9, SetMemTypes DEF BringMarkQR, Entries
  <2> QED
    BY <1>9, <2>1, <2>2, <2>3 DEF BringMarkQR, TypeOK, StoreTypeOK, client
<1> QED
    BY <1>1, <1>2, <1>3, <1>4, <1>5, <1>6, <1>7, <1>8, <1>9, <1>10, <1>11 DEF BringUp

LEMMA CallbackTypes ==
    ASSUME TypeOK, NEW p \in Pods, NEW s \in Slots, Callback(p, s)
    PROVE  TypeOK'
<1>1. ASSUME NEW step \in TaskSteps, NEW next \in SUBSET TaskSteps, Goes(p, s, step, next)
      PROVE  tasks' \in [Pods -> SUBSET (Slots \X TaskSteps)] /\ UNCHANGED writes
    BY <1>1, GoesTypes DEF Goes
<1>2. CASE \/ ConnectedMark(p, s) \/ DroppedMark(p, s) \/ LoggedOutMark(p, s)
           \/ OperatorMark(p, s)
  <2>1. PICK status \in Entries \ {"none"} : SetMem(p, s, status)
    BY <1>2 DEF ConnectedMark, DroppedMark, LoggedOutMark, OperatorMark, Entries
  <2>2. entry' \in [Pods -> [Slots -> Entries]]
    BY <2>1, SetMemTypes
  <2>3. PICK step \in TaskSteps, next \in SUBSET TaskSteps : Goes(p, s, step, next)
    BY <1>2 DEF ConnectedMark, DroppedMark, LoggedOutMark, OperatorMark, TaskSteps
  <2>4. UNCHANGED <<rows, jid, device, up, qr, client, todo, job>>
    BY <1>2 DEF ConnectedMark, DroppedMark, LoggedOutMark, OperatorMark
  <2> QED
    BY <1>1, <2>2, <2>3, <2>4 DEF TypeOK, StoreTypeOK, client
<1>3. CASE LoggedOutRow(p, s) \/ ExpireRow(p, s) \/ OperatorRow(p, s)
  <2>1. SetStatus(p, s, "disconnected", NoJid)
    BY <1>3 DEF LoggedOutRow, ExpireRow, OperatorRow
  <2>2. rows' \in [Slots -> Row] /\ jid' \in [Slots -> JidOrNone]
    BY <2>1, SetStatusTypes DEF Statuses, JidOrNone
  <2>3. PICK step \in TaskSteps, next \in SUBSET TaskSteps : Goes(p, s, step, next)
    BY <1>3 DEF LoggedOutRow, ExpireRow, OperatorRow, TaskSteps
  <2>4. UNCHANGED <<device, up, entry, qr, client, todo, job>>
    BY <1>3 DEF LoggedOutRow, ExpireRow, OperatorRow
  <2> QED
    BY <1>1, <2>2, <2>3, <2>4 DEF TypeOK, StoreTypeOK, client
<1>4. CASE ShowQR(p, s) \/ HideQR(p, s) \/ ExpireClear(p, s) \/ EmitQR(p, s)
  <2>1. (\E on \in BOOLEAN : SetQR(p, s, on)) \/ UNCHANGED qr
    BY <1>4 DEF ShowQR, HideQR, ExpireClear, EmitQR
  <2>2. qr' \in [Pods -> [Slots -> BOOLEAN]]
    BY <2>1, SetQRTypes DEF TypeOK
  <2>3. PICK step \in TaskSteps, next \in SUBSET TaskSteps : Goes(p, s, step, next)
    BY <1>4 DEF ShowQR, HideQR, ExpireClear, EmitQR, TaskSteps
  <2>4. UNCHANGED <<rows, jid, device, up, entry, client, todo, job>>
    BY <1>4 DEF ShowQR, HideQR, ExpireClear, EmitQR
  <2> QED
    BY <1>1, <2>2, <2>3, <2>4 DEF TypeOK, StoreTypeOK, client
<1>5. CASE ExpireEvict(p, s)
  <2>1. link' \in [Pods -> [Slots -> Links]] /\ id' \in [Pods -> [Slots -> JidOrNone]]
    BY <1>5, SetClientTypes DEF ExpireEvict, Links, JidOrNone
  <2>2. entry' \in [Pods -> [Slots -> Entries]] /\ qr' \in [Pods -> [Slots -> BOOLEAN]]
    BY <1>5 DEF ExpireEvict, TypeOK, Entries
  <2>3. PICK step \in TaskSteps, next \in SUBSET TaskSteps : Goes(p, s, step, next)
    BY <1>5 DEF ExpireEvict, TaskSteps
  <2> QED
    BY <1>1, <1>5, <2>1, <2>2, <2>3 DEF ExpireEvict, TypeOK, StoreTypeOK
<1>6. CASE ConnectedRead(p, s) \/ PersistRead(p, s)
  <2>1. PICK step \in TaskSteps, next \in WriteSteps : ReadsID(p, s, step, next)
    BY <1>6 DEF ConnectedRead, PersistRead, TaskSteps, WriteSteps
  <2>2. UNCHANGED <<rows, jid, device, up, entry, qr, client, todo, job>>
    BY <2>1 DEF ReadsID
  <2> QED
    BY <2>1, <2>2, ReadsTypes DEF TypeOK, StoreTypeOK, client
<1>7. CASE ConnectedRow(p, s) \/ PersistSession(p, s)
  <2>1. PICK x \in writes[p], next \in SUBSET TaskSteps : Writes(p, s, x, next)
    BY <1>7 DEF ConnectedRow, PersistSession, TaskSteps
  <2>2. x \in Write /\ x.jid \in JidOrNone /\ "connected" \in Statuses
    BY DEF TypeOK, Write, JidOrNone, Statuses
  <2>3. rows' \in [Slots -> Row] /\ jid' \in [Slots -> JidOrNone]
    BY <2>1, <2>2, SetStatusTypes DEF Writes
  <2>4. UNCHANGED <<device, up, entry, qr, client, todo, job>>
    BY <2>1 DEF Writes
  <2> QED
    BY <2>1, <2>2, <2>3, <2>4, WritesTypes DEF TypeOK, StoreTypeOK, client
<1> QED
    BY <1>2, <1>3, <1>4, <1>5, <1>6, <1>7 DEF Callback

LEMMA ExternalTypes ==
    ASSUME TypeOK, NEW p \in Pods, NEW s \in Slots, External(p, s)
    PROVE  TypeOK'
<1>1. tasks' \in [Pods -> SUBSET (Slots \X TaskSteps)] /\ UNCHANGED writes
  <2>1. \/ \E step \in TaskSteps : Begins(p, s, step)
        \/ \E step \in TaskSteps, next \in SUBSET TaskSteps : Goes(p, s, step, next)
        \/ UNCHANGED callbacks
    BY DEF External, LogIn, Drop, Redial, LogOut, QRCode, Pair, QRTimeout, QRError,
           OperatorClose, TaskSteps
  <2> QED
    <3>1. ASSUME NEW step \in TaskSteps, Begins(p, s, step)
          PROVE  tasks' \in [Pods -> SUBSET (Slots \X TaskSteps)] /\ UNCHANGED writes
        BY <3>1, BeginsTypes DEF Begins
    <3>2. ASSUME NEW step \in TaskSteps, NEW next \in SUBSET TaskSteps, Goes(p, s, step, next)
          PROVE  tasks' \in [Pods -> SUBSET (Slots \X TaskSteps)] /\ UNCHANGED writes
        BY <3>2, GoesTypes DEF Goes
    <3>3. CASE UNCHANGED callbacks
        BY <3>3 DEF callbacks, TypeOK
    <3> QED
        BY <2>1, <3>1, <3>2, <3>3
<1>2. link' \in [Pods -> [Slots -> Links]] /\ id' \in [Pods -> [Slots -> JidOrNone]]
  <2>1. \/ \E state \in Links : SetLink(p, s, state)
        \/ \E state \in Links, j \in JidOrNone : SetClient(p, s, state, j)
        \/ UNCHANGED client
    BY DEF External, LogIn, Drop, Redial, LogOut, QRCode, Pair, QRTimeout, QRError,
           OperatorClose, Links, JidOrNone
  <2> QED
    BY <2>1, SetLinkTypes, SetClientTypes DEF TypeOK, client
<1>3. device' \in [Slots -> SUBSET Jids]
    BY DEF External, LogIn, Drop, Redial, LogOut, QRCode, Pair, QRTimeout, QRError,
           OperatorClose, TypeOK
<1>4. UNCHANGED <<rows, jid, up, entry, qr, todo, job>>
    BY DEF External, LogIn, Drop, Redial, LogOut, QRCode, Pair, QRTimeout, QRError,
           OperatorClose
<1> QED
    BY <1>1, <1>2, <1>3, <1>4 DEF TypeOK, StoreTypeOK

\* The row of a dead pod grows stale.
LEMMA ExpireTypes ==
    ASSUME TypeOK, NEW s \in Slots, Expire(s)
    PROVE  TypeOK'
<1>1. rows[s] \in Row /\ NeverSeen \in 0..NeverSeen
    BY StoreAssumption DEF TypeOK, StoreTypeOK, NeverSeen
<1>2. [rows[s] EXCEPT !.age = NeverSeen] \in Row
    BY <1>1 DEF Row
<1>3. rows' = [rows EXCEPT ![s] = [rows[s] EXCEPT !.age = NeverSeen]]
    BY DEF Expire
<1>4. rows' \in [Slots -> Row]
    BY <1>2, <1>3 DEF TypeOK, StoreTypeOK
<1> QED
    BY <1>4 DEF Expire, TypeOK, StoreTypeOK, memory, client, callbacks

\* The heartbeat, the claimer and the first step of a creation.
LEMMA RoundTypes ==
    ASSUME TypeOK, NEW p \in Pods,
           \/ Heartbeat(p) \/ Claim(p) \/ NextClaimed(p)
           \/ \E s \in Slots : CreateConnection(p, s)
    PROVE  TypeOK'
<1>2. CASE Heartbeat(p)
    BY <1>2, StatementTypes DEF Heartbeat, TypeOK, StoreTypeOK, memory, client, callbacks
<1>3. CASE Claim(p)
  <2>1. PICK S \in SUBSET Slots :
            /\ rows' = ClaimedRows(p, S)
            /\ todo' = [todo EXCEPT ![p] = {[slot |-> t, jid |-> jid[t]] : t \in S}]
    BY <1>3 DEF Claim, ClaimChoices
  <2>2. {[slot |-> t, jid |-> jid[t]] : t \in S} \in SUBSET [slot : Slots, jid : JidOrNone]
    <3>1. \A t \in S : t \in Slots /\ jid[t] \in JidOrNone
      BY DEF TypeOK
    <3> QED
      BY <3>1
  <2>3. rows' \in [Slots -> Row]
    BY <2>1, StatementTypes DEF TypeOK
  <2>4. todo' \in [Pods -> SUBSET [slot : Slots, jid : JidOrNone]]
    BY <2>1, <2>2 DEF TypeOK
  <2> QED
    BY <1>3, <2>3, <2>4 DEF Claim, TypeOK, StoreTypeOK, client, callbacks
<1>4. CASE NextClaimed(p)
  <2>1. PICK r \in todo[p] :
            /\ todo' = [todo EXCEPT ![p] = @ \ {r}]
            /\ job' = [job EXCEPT ![p]["claimer"] =
                         IF Owns(p, r.slot) THEN NoJob
                         ELSE [step |-> "check", slot |-> r.slot, jid |-> r.jid]]
    BY <1>4 DEF NextClaimed
  <2>2. r \in [slot : Slots, jid : JidOrNone]
    BY DEF TypeOK
  <2>3. [step |-> "check", slot |-> r.slot, jid |-> r.jid] \in Job /\ NoJob \in Job
    BY <2>2 DEF Job, Steps
  <2>4. job' \in [Pods -> [Workers -> Job]]
    BY <2>1, <2>3 DEF TypeOK
  <2>5. todo' \in [Pods -> SUBSET [slot : Slots, jid : JidOrNone]]
    BY <2>1 DEF TypeOK
  <2> QED
    BY <1>4, <2>4, <2>5 DEF NextClaimed, TypeOK, StoreTypeOK, client, callbacks
<1>5. ASSUME NEW s \in Slots, CreateConnection(p, s)
      PROVE  TypeOK'
  <2>1. [step |-> "mark-claimed", slot |-> s, jid |-> NoJid] \in Job
    BY DEF Job, Steps, JidOrNone
  <2>2. job' \in [Pods -> [Workers -> Job]]
    BY <1>5, <2>1 DEF CreateConnection, TypeOK
  <2>3. rows' \in [Slots -> Row]
    BY <1>5, StatementTypes DEF CreateConnection, TypeOK
  <2> QED
    BY <1>5, <2>2, <2>3 DEF CreateConnection, TypeOK, StoreTypeOK, client, callbacks
<1> QED
    BY <1>2, <1>3, <1>4, <1>5

LEMMA TypeStep == TypeOK /\ [Next]_vars => TypeOK'
<1> SUFFICES ASSUME TypeOK, [Next]_vars
             PROVE  TypeOK'
    OBVIOUS
<1>1. CASE UNCHANGED vars
    BY <1>1 DEF vars, memory, client, callbacks, TypeOK, StoreTypeOK
<1>2. CASE Next
    BY <1>2, ProcessTypes, BringUpTypes, CallbackTypes, ExternalTypes, RoundTypes, ExpireTypes
    DEF Next
<1> QED
    BY <1>1, <1>2


-----------------------------------------------------------------------------
\* What a step writes to rows and jids: a slot that has a jid keeps one, and a status
\* "connected" comes with one.
LEMMA RowStep ==
    ASSUME ManagerInv, [Next]_vars, NEW s \in Slots
    PROVE  /\ jid[s] # NoJid => jid'[s] # NoJid
           /\ rows'[s].status = "connected" => rows[s].status = "connected" \/ jid'[s] # NoJid
<1> USE DEF ManagerInv
<1>1. ASSUME NEW p \in Pods, NEW t \in Slots, NEW status, NEW j \in JidOrNone,
             status = "connected" => j # NoJid, SetStatus(p, t, status, j)
      PROVE  /\ jid[s] # NoJid => jid'[s] # NoJid
             /\ rows'[s].status = "connected" => rows[s].status = "connected" \/ jid'[s] # NoJid
  <2>1. CASE UNCHANGED <<rows, jid>>
    BY <2>1
  <2>2. CASE /\ rows' = StatusRows(t, status)
             /\ jid' = [jid EXCEPT ![t] = IF j = NoJid THEN @ ELSE j]
    <3>1. CASE s = t
        BY <1>1, <2>2, <3>1 DEF StatusRows, TypeOK, StoreTypeOK
    <3>2. CASE s # t
        BY <2>2, <3>2 DEF StatusRows, TypeOK, StoreTypeOK
    <3> QED
        BY <3>1, <3>2
  <2> QED
    BY <1>1, <2>1, <2>2 DEF SetStatus
<1>2. ASSUME UNCHANGED jid,
             \/ UNCHANGED rows
             \/ \E p \in Pods : rows' = HeartbeatRows(p) \/ rows' = ReleasedRows(p)
             \/ \E p \in Pods, S \in SUBSET Slots : rows' = ClaimedRows(p, S)
             \/ \E t \in Slots :
                    \/ rows' = InsertedRows(t) \/ rows' = StatusRows(t, "claimed")
                    \/ rows' = [rows EXCEPT ![t] = [rows[t] EXCEPT !.age = NeverSeen]]
      PROVE  /\ jid[s] # NoJid => jid'[s] # NoJid
             /\ rows'[s].status = "connected" => rows[s].status = "connected" \/ jid'[s] # NoJid
  <2>1. rows[s] \in Row
    BY DEF TypeOK, StoreTypeOK
  <2>2. rows'[s].status = "connected" => rows[s].status = "connected"
    <3>1. CASE UNCHANGED rows
        BY <3>1
    <3>2. ASSUME NEW p \in Pods, rows' = HeartbeatRows(p)
          PROVE  rows'[s].status = rows[s].status
        BY <2>1, <3>2 DEF HeartbeatRows, Row
    <3>3. ASSUME NEW p \in Pods, rows' = ReleasedRows(p)
          PROVE  rows'[s].status \in {rows[s].status, "disconnected"}
        BY <2>1, <3>3 DEF ReleasedRows, Row
    <3>4. ASSUME NEW p \in Pods, NEW S \in SUBSET Slots, rows' = ClaimedRows(p, S)
          PROVE  rows'[s].status \in {rows[s].status, "claimed"}
        BY <3>4 DEF ClaimedRows
    <3>5. ASSUME NEW t \in Slots, rows' = InsertedRows(t) \/ rows' = StatusRows(t, "claimed")
          PROVE  rows'[s].status \in {rows[s].status, "disconnected", "claimed"}
      <4>1. DOMAIN rows = Slots
        BY DEF TypeOK, StoreTypeOK
      <4>2. CASE rows' = InsertedRows(t)
        BY <4>1, <4>2 DEF InsertedRows, NewRow
      <4>3. CASE rows' = StatusRows(t, "claimed")
        BY <4>1, <4>3 DEF StatusRows
      <4> QED
        BY <3>5, <4>2, <4>3
    <3>6. ASSUME NEW t \in Slots, rows' = [rows EXCEPT ![t] = [rows[t] EXCEPT !.age = NeverSeen]]
          PROVE  rows'[s].status = rows[s].status
      <4>1. [rows[s] EXCEPT !.age = NeverSeen].status = rows[s].status
        BY <2>1 DEF Row
      <4>2. rows'[s] = IF s = t THEN [rows[s] EXCEPT !.age = NeverSeen] ELSE rows[s]
        BY <3>6 DEF TypeOK, StoreTypeOK
      <4> QED
        BY <4>1, <4>2
    <3> QED
        BY <1>2, <3>1, <3>2, <3>3, <3>4, <3>5, <3>6
  <2> QED
    BY <1>2, <2>2
<1>3. CASE UNCHANGED vars
    BY <1>2, <1>3 DEF vars
<1>4. ASSUME NEW t \in Slots, Expire(t)
      PROVE  UNCHANGED jid /\ rows' = [rows EXCEPT ![t] = [rows[t] EXCEPT !.age = NeverSeen]]
    BY <1>4 DEF Expire
<1>5. ASSUME NEW p \in Pods, Process(p)
      PROVE  UNCHANGED jid /\ (rows' = ReleasedRows(p) \/ UNCHANGED rows)
    BY <1>5 DEF Process, Start, Crash, Signal, CloseClients, Release, Exit
<1>6. ASSUME NEW p \in Pods, Heartbeat(p) \/ NextClaimed(p)
      PROVE  UNCHANGED jid /\ (rows' = HeartbeatRows(p) \/ UNCHANGED rows)
    BY <1>6 DEF Heartbeat, NextClaimed
<1>7. ASSUME NEW p \in Pods, Claim(p)
      PROVE  UNCHANGED jid /\ \E S \in SUBSET Slots : rows' = ClaimedRows(p, S)
    BY <1>7 DEF Claim, ClaimChoices
<1>8. ASSUME NEW p \in Pods, NEW t \in Slots, CreateConnection(p, t)
      PROVE  UNCHANGED jid /\ rows' = InsertedRows(t)
    BY <1>8 DEF CreateConnection
<1>9. ASSUME NEW p \in Pods, NEW t \in Slots, Callback(p, t)
      PROVE  \/ \E status \in Statuses, j \in JidOrNone :
                    (status = "connected" => j # NoJid) /\ SetStatus(p, t, status, j)
             \/ UNCHANGED <<rows, jid>>
  <2>1. CASE ConnectedRow(p, t) \/ PersistSession(p, t)
    <3>1. PICK x \in writes[p] : SetStatus(p, t, "connected", x.jid)
        BY <2>1 DEF ConnectedRow, PersistSession, Writes
    <3>2. x \in Write
        BY DEF TypeOK
    <3>3. x.jid \in JidOrNone /\ x.jid # NoJid /\ "connected" \in Statuses
        BY <3>2, GatewayAssumption DEF Write, JidOrNone, Statuses
    <3> QED
        BY <3>1, <3>3
  <2>2. CASE LoggedOutRow(p, t) \/ ExpireRow(p, t) \/ OperatorRow(p, t)
    <3>1. SetStatus(p, t, "disconnected", NoJid)
        BY <2>2 DEF LoggedOutRow, ExpireRow, OperatorRow
    <3>2. NoJid \in JidOrNone /\ "disconnected" \in Statuses /\ "disconnected" # "connected"
        BY DEF JidOrNone, Statuses
    <3> QED
        BY <3>1, <3>2
  <2>3. CASE ~(\/ ConnectedRow(p, t) \/ PersistSession(p, t) \/ LoggedOutRow(p, t)
               \/ ExpireRow(p, t) \/ OperatorRow(p, t))
    BY <1>9, <2>3 DEF Callback, ConnectedMark, ConnectedRead, PersistRead, ReadsID, DroppedMark,
                LoggedOutMark, ShowQR, EmitQR, HideQR, ExpireClear, ExpireEvict, OperatorMark
  <2> QED
    BY <2>1, <2>2, <2>3
<1>10. ASSUME NEW p \in Pods, NEW t \in Slots, External(p, t)
       PROVE  UNCHANGED <<rows, jid>>
    BY <1>10 DEF External, LogIn, Drop, Redial, LogOut, QRCode, Pair, QRTimeout, QRError,
                 OperatorClose
<1>11. ASSUME NEW p \in Pods, NEW w \in Workers, NEW t \in Slots, BringUp(p, w, t)
       PROVE  \/ \E j \in JidOrNone : j # NoJid /\ SetStatus(p, t, "connected", j)
              \/ UNCHANGED jid /\ (rows' = StatusRows(t, "claimed") \/ UNCHANGED rows)
  <2>1. CASE BringRow(p, w, t)
    <3>1. Doing(p, w, "row", t) /\ "row" \in Steps /\ SetStatus(p, t, "connected", job[p][w].jid)
        BY <2>1 DEF BringRow, Steps
    <3>2. job[p][w].jid \in JidOrNone
        BY <3>1, DoingTypes
    <3>3. job[p][w].jid # NoJid
        BY <3>1 DEF Doing
    <3> QED
        BY <3>1, <3>2, <3>3
  <2>2. CASE ~BringRow(p, w, t)
    BY <1>11, <2>2 DEF BringUp, MarkClaimed, BringCheck, BringDevice, BringResume, BringMark,
                 BringRead, BringLog, BringPanics, BringPair, BringMarkQR
  <2> QED
    BY <2>1, <2>2
<1>12. CASE \/ \E t \in Slots : Expire(t)
            \/ \E p \in Pods : Process(p) \/ Heartbeat(p) \/ Claim(p) \/ NextClaimed(p)
            \/ \E p \in Pods, t \in Slots : CreateConnection(p, t)
    BY <1>2, <1>4, <1>5, <1>6, <1>7, <1>8, <1>12
<1>13. ASSUME NEW p \in Pods, NEW t \in Slots, Callback(p, t) \/ External(p, t)
       PROVE  /\ jid[s] # NoJid => jid'[s] # NoJid
              /\ rows'[s].status = "connected" => rows[s].status = "connected" \/ jid'[s] # NoJid
  <2>1. CASE Callback(p, t)
    BY <1>1, <1>2, <1>9, <2>1
  <2>2. CASE External(p, t)
    BY <1>2, <1>10, <2>2
  <2> QED
    BY <1>13, <2>1, <2>2
<1>14. ASSUME NEW p \in Pods, NEW w \in Workers, NEW t \in Slots, BringUp(p, w, t)
       PROVE  /\ jid[s] # NoJid => jid'[s] # NoJid
              /\ rows'[s].status = "connected" => rows[s].status = "connected" \/ jid'[s] # NoJid
    BY <1>1, <1>2, <1>11, <1>14
<1> QED
    BY <1>3, <1>12, <1>13, <1>14 DEF Next

-----------------------------------------------------------------------------
\* Where the workers are after one of them went on.
LEMMA MovesPast ==
    ASSUME TypeOK, NEW p \in Pods, NEW w \in Workers, NEW s \in Slots, NEW step \in Steps,
           Doing(p, w, step, s), NEW next \in Steps \cup {"none"}, Moves(p, w, s, next)
    PROVE  \A q \in Pods, v \in Workers, t \in Slots :
             /\ Past(q, v, t)' =>
                  \/ Past(q, v, t) /\ (q # p \/ v # w)
                  \/ q = p /\ v = w /\ t = s /\ next \notin {"none", "mark-claimed", "check"}
             /\ Doing(q, v, "device", t)' =>
                  \/ Doing(q, v, "device", t) /\ (q # p \/ v # w)
                  \/ q = p /\ v = w /\ t = s /\ next = "device"
<1>1. \A q \in Pods, v \in Workers : q # p \/ v # w => job'[q][v] = job[q][v]
    BY DEF Moves
<1>2. job'[p][w].step = next /\ (next \in Steps => job'[p][w].slot = s)
    BY DEF Moves
<1>3. "device" \in Steps /\ "none" \notin Steps
    BY DEF Steps
<1>4. \A q \in Pods, v \in Workers, t \in Slots : q # p \/ v # w =>
        /\ Past(q, v, t)' => Past(q, v, t)
        /\ Doing(q, v, "device", t)' => Doing(q, v, "device", t)
    BY <1>1 DEF Past, Doing
<1>5. \A t \in Slots :
        /\ Past(p, w, t)' => t = s /\ next \notin {"none", "mark-claimed", "check"}
        /\ Doing(p, w, "device", t)' => t = s /\ next = "device"
    BY <1>2, <1>3 DEF Past, Doing
<1> QED
    BY <1>4, <1>5

LEMMA AdvancePast ==
    ASSUME TypeOK, NEW p \in Pods, NEW w \in Workers, NEW s \in Slots, NEW step \in Steps,
           Doing(p, w, step, s), NEW next \in Steps \cup {"none"}, Advance(p, w, next)
    PROVE  \A q \in Pods, v \in Workers, t \in Slots :
             /\ Past(q, v, t)' =>
                  \/ Past(q, v, t) /\ (q # p \/ v # w)
                  \/ q = p /\ v = w /\ t = s /\ next \notin {"none", "mark-claimed", "check"}
             /\ Doing(q, v, "device", t)' =>
                  \/ Doing(q, v, "device", t) /\ (q # p \/ v # w)
                  \/ q = p /\ v = w /\ t = s /\ next = "device"
BY AdvanceTypes, MovesPast

\* A slot that no worker and no reader turns to stays as it was.
LEMMA KeptStays ==
    ASSUME NEW p \in Pods, NEW s \in Slots, Kept(p, s),
           \A w \in Workers : Past(p, w, s)' => Past(p, w, s),
           \A w \in Workers : Doing(p, w, "device", s)' => Doing(p, w, "device", s),
           \A a \in Reading : At(p, s, a)' => At(p, s, a),
           Owns(p, s) => Owns(p, s)',
           link[p][s] \in {"none", "closed"} => link'[p][s] = link[p][s]
    PROVE  Kept(p, s)'
BY DEF Kept, Reading, Expiring

\* Nor has one that no worker brings up and no reader waits for anything to keep.
LEMMA NothingKept ==
    ASSUME NEW p \in Pods, NEW s \in Slots,
           \A w \in Workers : ~Past(p, w, s)',
           \A w \in Workers : ~Doing(p, w, "device", s)',
           \A a \in Reading : ~At(p, s, a)'
    PROVE  Kept(p, s)'
BY DEF Kept, Reading

LEMMA ReadingSteps == Reading \subseteq TaskSteps /\ Expiring \subseteq Reading
BY DEF Reading, Expiring, TaskSteps

\* The slot of a step that leaves tasks, jobs, entries and links alone.
LEMMA KeptUnchanged ==
    ASSUME NEW p \in Pods, NEW s \in Slots, Kept(p, s),
           entry'[p] = entry[p], link'[p] = link[p], tasks'[p] = tasks[p], job'[p] = job[p]
    PROVE  Kept(p, s)'
BY DEF Kept, Past, Doing, At, Owns

\* The steps of the process.
LEMMA ProcessKept ==
    ASSUME TypeOK, NEW p \in Pods, NEW s \in Slots, Kept(p, s), NEW q \in Pods, Process(q)
    PROVE  Kept(p, s)'
<1>1. CASE Start(q) \/ Signal(q) \/ Release(q)
    BY <1>1, KeptUnchanged DEF Start, Signal, Release, memory, client, callbacks
<1>2. CASE CloseClients(q)
  <2>1. link'[p][s] = IF p = q /\ link[p][s] # "none" THEN "closed" ELSE link[p][s]
    BY <1>2 DEF CloseClients, TypeOK
  <2> QED
    BY <1>2, <2>1, KeptStays DEF CloseClients, callbacks, Past, Doing, At, Owns
<1>3. CASE Crash(q) \/ Exit(q)
  <2>1. NoMemory(q)
    BY <1>3 DEF Crash, Exit
  <2>2. CASE p = q
    <3>1. tasks'[p] = {} /\ \A w \in Workers : job'[p][w] = NoJob
      BY <2>1, <2>2, NoMemoryTypes
    <3>2. NoJob.step = "none"
      BY DEF NoJob
    <3>3. \A w \in Workers : ~Past(p, w, s)' /\ ~Doing(p, w, "device", s)'
      BY <3>1, <3>2 DEF Past, Doing, Steps
    <3>4. \A a \in Reading : ~At(p, s, a)'
      BY <3>1 DEF At
    <3> QED
      BY <3>3, <3>4, NothingKept
  <2>3. CASE p # q
      BY <2>1, <2>3, NoMemoryTypes, KeptUnchanged
  <2> QED
      BY <2>2, <2>3
<1> QED
    BY <1>1, <1>2, <1>3 DEF Process

\* The claimer, the heartbeat and the first step of a creation.
LEMMA RoundKept ==
    ASSUME TypeOK, NEW p \in Pods, NEW s \in Slots, Kept(p, s), NEW q \in Pods,
           \/ Heartbeat(q) \/ Claim(q) \/ NextClaimed(q)
           \/ \E t \in Slots : CreateConnection(q, t)
    PROVE  Kept(p, s)'
<1>1. CASE Heartbeat(q) \/ Claim(q)
    BY <1>1, KeptUnchanged DEF Heartbeat, Claim, memory, client, callbacks
<1>2. CASE NextClaimed(q) \/ \E t \in Slots : CreateConnection(q, t)
  <2>1. PICK w \in Workers, j \in Job :
            /\ job' = [job EXCEPT ![q][w] = j]
            /\ j.step \in {"none", "mark-claimed", "check"}
    <3>1. ASSUME NEW r \in todo[q]
          PROVE  [step |-> "check", slot |-> r.slot, jid |-> r.jid] \in Job
      <4>1. r \in [slot : Slots, jid : JidOrNone]
        BY <3>1 DEF TypeOK
      <4> QED
        BY <4>1 DEF Job, Steps
    <3>2. ASSUME NEW t \in Slots
          PROVE  [step |-> "mark-claimed", slot |-> t, jid |-> NoJid] \in Job
        BY DEF Job, Steps, JidOrNone
    <3>3. NoJob \in Job /\ NoJob.step = "none"
        BY DEF Job, NoJob
    <3> QED
        BY <1>2, <3>1, <3>2, <3>3 DEF NextClaimed, CreateConnection, Workers
  <2>2. \A v \in Workers : job'[p][v] = IF p = q /\ v = w THEN j ELSE job[p][v]
    BY <2>1 DEF TypeOK
  <2>3. \A v \in Workers : Past(p, v, s)' => Past(p, v, s)
    BY <2>1, <2>2 DEF Past, Steps
  <2>4. \A v \in Workers : Doing(p, v, "device", s)' => Doing(p, v, "device", s)
    BY <2>1, <2>2 DEF Doing
  <2> QED
    BY <1>2, <2>3, <2>4, KeptStays DEF NextClaimed, CreateConnection, client, callbacks, At, Owns
<1> QED
    BY <1>1, <1>2

\* The slot of a worker that has or makes the client.
LEMMA KeptByWorker ==
    ASSUME NEW p \in Pods, NEW s \in Slots, Kept(p, s), NEW w \in Workers, Past(p, w, s),
           \A v \in Workers : Past(p, v, s)' => Past(p, v, s),
           ~Doing(p, w, "device", s)',
           \A v \in Workers \ {w} : Doing(p, v, "device", s)' => Doing(p, v, "device", s),
           \A a \in Reading : At(p, s, a)' => At(p, s, a),
           Owns(p, s) => Owns(p, s)'
    PROVE  Kept(p, s)'
<1>1. \A v \in Workers : Doing(p, v, "device", s) => Past(p, v, s)
    BY DEF Doing, Past, Steps
<1>2. \A v \in Workers : Past(p, v, s) => v = w
    BY DEF Kept
<1>3. \A v \in Workers : ~Doing(p, v, "device", s)'
    BY <1>1, <1>2
<1>4. \A a \in Reading : ~At(p, s, a)
    BY DEF Kept
<1> QED
    BY <1>2, <1>3, <1>4, ReadingSteps DEF Kept

\* The steps of Bring and CreateAndBring at the slot they are for,
LEMMA BringUpKept ==
    ASSUME TypeOK, NEW p \in Pods, NEW s \in Slots, Kept(p, s), NEW w \in Workers,
           BringUp(p, w, s)
    PROVE  Kept(p, s)'
<1>1. CASE MarkClaimed(p, w, s)
  <2>1. PICK next \in {"check", "none"} : Advance(p, w, next)
    BY <1>1 DEF MarkClaimed
  <2>2. \A v \in Workers :
            /\ Past(p, v, s)' => Past(p, v, s)
            /\ Doing(p, v, "device", s)' => Doing(p, v, "device", s)
    <3>1. Doing(p, w, "mark-claimed", s) /\ "mark-claimed" \in Steps /\ next \in Steps \cup {"none"}
        BY <1>1 DEF MarkClaimed, Steps
    <3> QED
        BY <2>1, <3>1, AdvancePast
  <2> QED
    BY <1>1, <2>2, KeptStays DEF MarkClaimed, client, callbacks, At, Owns
<1>2. CASE BringCheck(p, w, s) /\ Owns(p, s)
  <2>1. Advance(p, w, "none") /\ UNCHANGED <<entry, link, tasks>>
    BY <1>2 DEF BringCheck, Managed, client, callbacks
  <2>2. \A v \in Workers :
            /\ Past(p, v, s)' => Past(p, v, s)
            /\ Doing(p, v, "device", s)' => Doing(p, v, "device", s)
    <3>1. "check" \in Steps /\ Doing(p, w, "check", s) /\ "none" \in Steps \cup {"none"}
        BY <1>2 DEF BringCheck, Steps
    <3> QED
        BY <2>1, <3>1, AdvancePast
  <2> QED
    BY <2>1, <2>2, KeptStays DEF At, Owns
<1>3. CASE BringCheck(p, w, s) /\ ~Owns(p, s)
  <2>1. /\ Advance(p, w, "device") /\ SetClient(p, s, "none", NoJid) /\ UNCHANGED tasks
        /\ entry' = [entry EXCEPT ![p][s] = "connecting"]
    BY <1>3 DEF BringCheck, Managed, callbacks
  <2>2. link'[p][s] = "none" /\ Owns(p, s)'
    BY <2>1, SetClientTypes DEF Links, JidOrNone, Owns, TypeOK
  <2>3. \A v \in Workers : ~Past(p, v, s)
    BY <1>3 DEF Kept
  <2>4. \A v \in Workers : Past(p, v, s)' => v = w
    BY <1>3, <2>1, <2>3, AdvancePast DEF BringCheck, Steps
  <2>5. \A a \in Reading : ~At(p, s, a)'
    BY <1>3, <2>1 DEF Kept, At
  <2> QED
    BY <2>2, <2>4, <2>5, ReadingSteps DEF Kept
<1>4. CASE BringDevice(p, w, s) \/ BringResume(p, w, s) \/ BringPair(p, w, s)
           \/ BringMark(p, w, s) \/ BringRow(p, w, s) \/ BringLog(p, w, s) \/ BringRead(p, w, s)
  <2>1. PICK step \in {"device", "resume", "pair", "mark", "read", "row", "log"} :
            Doing(p, w, step, s)
    BY <1>4 DEF BringDevice, BringResume, BringPair, BringMark, BringRow, BringLog, BringRead
  <2>2. PICK next \in {"none", "resume", "pair", "mark", "read", "row", "log", "mark-qr"} :
            Moves(p, w, s, next)
    <3>1. CASE BringRead(p, w, s)
        BY <3>1, ReadTypes
    <3>2. CASE ~BringRead(p, w, s)
      <4>1. PICK next \in {"none", "resume", "pair", "mark", "read", "log", "mark-qr"} :
                Advance(p, w, next)
        BY <1>4, <3>2 DEF BringDevice, OverDevice, OverNewDevice, BringResume, BringPair, BringMark,
                          BringRow, BringLog
      <4>2. step \in Steps /\ next \in Steps \cup {"none"}
        BY DEF Steps
      <4> QED
        BY <2>1, <4>1, <4>2, AdvanceTypes
    <3> QED
        BY <3>1, <3>2
  <2>3. Past(p, w, s)
    BY <2>1 DEF Past, Doing, Steps
  <2>4. \A v \in Workers :
            /\ Past(p, v, s)' => Past(p, v, s)
            /\ v # w => (Doing(p, v, "device", s)' => Doing(p, v, "device", s))
    <3>1. step \in Steps /\ next \in Steps \cup {"none"}
        BY DEF Steps
    <3> QED
        BY <2>1, <2>2, <2>3, <3>1, MovesPast
  <2>5. ~Doing(p, w, "device", s)'
    <3>1. step \in Steps /\ next \in Steps \cup {"none"} /\ next # "device"
        BY DEF Steps
    <3> QED
        BY <2>1, <2>2, <3>1, MovesPast
  <2>6. UNCHANGED tasks
    BY <1>4 DEF BringDevice, BringResume, BringPair, BringMark, BringRow, BringLog, BringRead, callbacks
  <2>7. Owns(p, s) => Owns(p, s)'
    <3>1. UNCHANGED entry \/ \E status \in Entries \ {"none"} : SetMem(p, s, status)
        BY <1>4 DEF BringDevice, BringResume, BringPair, BringMark, BringRow, BringLog, BringRead,
                    Entries
    <3> QED
        BY <3>1, SetMemTypes DEF Owns
  <2> QED
    BY <2>3, <2>4, <2>5, <2>6, <2>7, KeptByWorker DEF At
<1>5. CASE BringMarkQR(p, w, s)
  <2>1. /\ Doing(p, w, "mark-qr", s) /\ SetMem(p, s, "qr")
        /\ Begins(p, s, "qr-wait") /\ Advance(p, w, "none")
    BY <1>5 DEF BringMarkQR
  <2>2. Past(p, w, s)
    BY <2>1 DEF Past, Doing, Steps
  <2>3. \A v \in Workers : ~Past(p, v, s)' /\ ~Doing(p, v, "device", s)'
    <3>1. \A v \in Workers \ {w} : ~Past(p, v, s)
        BY <2>2 DEF Kept
    <3>2. \A v \in Workers \ {w} : ~Doing(p, v, "device", s)
        BY <3>1 DEF Past, Doing, Steps
    <3>3. "mark-qr" \in Steps
        BY DEF Steps
    <3> QED
        BY <2>1, <3>1, <3>2, <3>3, AdvancePast
  <2>4. \A a \in Reading : At(p, s, a)' => a = "qr-wait"
    <3>1. \A a \in Reading : ~At(p, s, a)
        BY <2>2 DEF Kept
    <3>2. "qr-wait" \in TaskSteps
        BY DEF TaskSteps
    <3> QED
        BY <2>1, <3>1, <3>2, BeginsTypes, ReadingSteps
  <2>5. Owns(p, s)'
    BY <2>1, <2>2, SetMemTypes DEF Kept, Entries
  <2> QED
    BY <2>3, <2>4, <2>5 DEF Kept, Reading, Expiring
<1>6. CASE BringPanics(p, w, s)
  <2>1. tasks'[p] = {} /\ \A v \in Workers : job'[p][v] = NoJob
    BY <1>6, NoMemoryTypes DEF BringPanics
  <2>2. NoJob.step = "none"
    BY DEF NoJob
  <2>3. \A v \in Workers : ~Past(p, v, s)' /\ ~Doing(p, v, "device", s)'
    BY <2>1, <2>2 DEF Past, Doing, Steps
  <2>4. \A a \in Reading : ~At(p, s, a)'
    BY <2>1 DEF At
  <2> QED
    BY <2>3, <2>4, NothingKept
<1> QED
    BY <1>1, <1>2, <1>3, <1>4, <1>5, <1>6 DEF BringUp

\* and at any other.
LEMMA BringUpElsewhere ==
    ASSUME TypeOK, NEW p \in Pods, NEW s \in Slots, Kept(p, s), NEW w \in Workers,
           NEW q \in Pods, NEW t \in Slots, p # q \/ s # t, BringUp(q, w, t)
    PROVE  Kept(p, s)'
<1>1. CASE BringPanics(q, w, t)
  <2>1. NoMemory(q)
    BY <1>1 DEF BringPanics
  <2>2. CASE p = q
    <3>1. tasks'[p] = {} /\ \A v \in Workers : job'[p][v] = NoJob
      BY <2>1, <2>2, NoMemoryTypes
    <3>2. NoJob.step = "none"
      BY DEF NoJob
    <3>3. \A v \in Workers : ~Past(p, v, s)' /\ ~Doing(p, v, "device", s)'
      BY <3>1, <3>2 DEF Past, Doing, Steps
    <3>4. \A a \in Reading : ~At(p, s, a)'
      BY <3>1 DEF At
    <3> QED
      BY <3>3, <3>4, NothingKept
  <2>3. CASE p # q
    BY <2>1, <2>3, NoMemoryTypes, KeptUnchanged
  <2> QED
    BY <2>2, <2>3
<1>2. CASE ~BringPanics(q, w, t)
  <2>1. PICK step \in Steps, next \in Steps \cup {"none"} :
            Doing(q, w, step, t) /\ Moves(q, w, t, next)
    <3>1. CASE BringRead(q, w, t)
        BY <3>1, ReadTypes DEF BringRead, Steps
    <3>2. CASE ~BringRead(q, w, t)
      <4>1. PICK step \in Steps, next \in Steps \cup {"none"} :
                Doing(q, w, step, t) /\ Advance(q, w, next)
        BY <1>2, <3>2 DEF BringUp, MarkClaimed, BringCheck, BringDevice, OverDevice, OverNewDevice,
                BringResume, BringMark, BringRow, BringLog, BringPair, BringMarkQR, Steps
      <4> QED
        BY <4>1, AdvanceTypes
    <3> QED
        BY <3>1, <3>2
  <2>2. \A v \in Workers :
            /\ Past(p, v, s)' => Past(p, v, s)
            /\ Doing(p, v, "device", s)' => Doing(p, v, "device", s)
    BY <2>1, MovesPast
  <2>3. link'[p][s] = link[p][s]
    <3>1. UNCHANGED link \/ \E state \in Links : link' = [link EXCEPT ![q][t] = state]
        BY <1>2 DEF BringUp, MarkClaimed, BringCheck, BringDevice, OverDevice, OverNewDevice,
                    BringResume, BringMark, BringRead, BringRow, BringLog, BringPair, BringMarkQR,
                    Links, SetLink, SetClient, client
    <3> QED
        BY <3>1 DEF TypeOK
  <2>4. Owns(p, s) => Owns(p, s)'
    <3>1. \/ UNCHANGED entry \/ entry' = [entry EXCEPT ![q][t] = "connecting"]
          \/ \E status \in Entries \ {"none"} : SetMem(q, t, status)
        BY <1>2 DEF BringUp, MarkClaimed, BringCheck, BringDevice, BringResume, BringMark,
                    BringRead, BringRow, BringLog, BringPair, BringMarkQR, Entries
    <3> QED
        BY <3>1, SetMemTypes DEF Owns, TypeOK
  <2>5. \A a \in Reading : At(p, s, a)' => At(p, s, a)
    <3>1. UNCHANGED tasks \/ Begins(q, t, "qr-wait")
        BY <1>2 DEF BringUp, MarkClaimed, BringCheck, BringDevice, BringResume, BringMark,
                    BringRead, BringRow, BringLog, BringPair, BringMarkQR, callbacks
    <3>2. "qr-wait" \in TaskSteps
        BY DEF TaskSteps
    <3> QED
        BY <3>1, <3>2, BeginsTypes, ReadingSteps DEF At
  <2> QED
    BY <2>2, <2>3, <2>4, <2>5, KeptStays
<1> QED
    BY <1>1, <1>2

\* The steps of callbacks, readers and commands, at any slot.
LEMMA CallbackKept ==
    ASSUME TypeOK, NEW p \in Pods, NEW s \in Slots, Kept(p, s), NEW q \in Pods, NEW t \in Slots,
           Callback(q, t)
    PROVE  Kept(p, s)'
<1> USE ReadingSteps
<1>1. CASE \/ ConnectedMark(q, t) \/ DroppedMark(q, t)
           \/ LoggedOutMark(q, t) \/ LoggedOutRow(q, t) \/ OperatorMark(q, t)
           \/ OperatorRow(q, t) \/ ShowQR(q, t) \/ EmitQR(q, t) \/ HideQR(q, t)
  <2>1. PICK step \in TaskSteps, next \in SUBSET (TaskSteps \ Reading) : Goes(q, t, step, next)
    BY <1>1 DEF ConnectedMark, DroppedMark, LoggedOutMark,
                LoggedOutRow, OperatorMark, OperatorRow, ShowQR, EmitQR, HideQR,
                TaskSteps, Reading, Expiring
  <2>2. \A a \in Reading : At(p, s, a)' => At(p, s, a)
    BY <2>1, GoesTypes
  <2>3. UNCHANGED entry \/ \E status \in Entries \ {"none"} : SetMem(q, t, status)
    BY <1>1 DEF ConnectedMark, DroppedMark, LoggedOutMark,
                LoggedOutRow, OperatorMark, OperatorRow, ShowQR, EmitQR, HideQR, Entries
  <2>4. Owns(p, s) => Owns(p, s)'
    BY <2>3, SetMemTypes DEF Owns
  <2>5. UNCHANGED <<link, job>>
    BY <1>1 DEF ConnectedMark, DroppedMark, LoggedOutMark,
                LoggedOutRow, OperatorMark, OperatorRow, ShowQR, EmitQR, HideQR, client
  <2> QED
    BY <2>2, <2>4, <2>5, KeptStays DEF Past, Doing
<1>4. CASE \/ ConnectedRead(q, t) \/ PersistRead(q, t) \/ ConnectedRow(q, t) \/ PersistSession(q, t)
  <2>1. CASE ConnectedRead(q, t) \/ PersistRead(q, t)
    <3>1. PICK step \in TaskSteps, next \in WriteSteps : ReadsID(q, t, step, next)
        BY <2>1 DEF ConnectedRead, PersistRead, TaskSteps, WriteSteps
    <3>2. UNCHANGED <<link, job, entry>>
        BY <3>1 DEF ReadsID, client
    <3> QED
        BY <3>1, <3>2, ReadsTypes, KeptStays DEF Past, Doing, Owns
  <2>2. CASE ConnectedRow(q, t) \/ PersistSession(q, t)
    <3>1. PICK x \in writes[q], next \in SUBSET {"connected-save"} : Writes(q, t, x, next)
        BY <2>2 DEF ConnectedRow, PersistSession
    <3>2. x \in Write /\ next \in SUBSET (TaskSteps \ Reading)
        BY DEF TypeOK, TaskSteps, Reading, Expiring
    <3>3. UNCHANGED <<link, job, entry>>
        BY <3>1 DEF Writes, client
    <3>4. \A a \in TaskSteps : At(p, s, a)' => At(p, s, a) \/ a \in next
        BY <3>1, <3>2, WritesTypes
    <3>5. \A a \in Reading : At(p, s, a)' => At(p, s, a)
        BY <3>2, <3>4
    <3> QED
        BY <3>3, <3>5, KeptStays DEF Past, Doing, Owns
  <2> QED
    BY <1>4, <2>1, <2>2
<1>2. CASE ExpireClear(q, t) \/ ExpireRow(q, t)
  <2>1. PICK step \in Expiring, next \in Expiring : At(q, t, step) /\ Goes(q, t, step, {next})
    BY <1>2 DEF ExpireClear, ExpireRow, Expiring
  <2>2. UNCHANGED <<link, job, entry>>
    BY <1>2 DEF ExpireClear, ExpireRow, client
  <2>3. CASE p = q /\ s = t
    <3>1. \A a \in Reading : At(p, s, a)' => a = next
        BY <2>1, <2>3, GoesTypes DEF Kept
    <3>2. Owns(p, s)' /\ link'[p][s] = "closed" /\ \A w \in Workers : ~Past(p, w, s)
        BY <2>1, <2>2, <2>3 DEF Kept, Owns
    <3>3. \A w \in Workers : ~Past(p, w, s)' /\ ~Doing(p, w, "device", s)'
        BY <2>2, <3>2 DEF Past, Doing, Steps
    <3> QED
        BY <3>1, <3>2, <3>3 DEF Kept
  <2>4. CASE p # q \/ s # t
    <3>1. \A a \in Reading : At(p, s, a)' => At(p, s, a)
        BY <2>1, <2>4, GoesTypes
    <3> QED
        BY <2>2, <3>1, KeptStays DEF Past, Doing, Owns
  <2> QED
    BY <2>3, <2>4
<1>3. CASE ExpireEvict(q, t)
  <2>1. "expire-evict" \in Reading /\ At(q, t, "expire-evict") /\ Goes(q, t, "expire-evict", {})
    BY <1>3 DEF ExpireEvict, Reading, Expiring
  <2>2. UNCHANGED job
    BY <1>3 DEF ExpireEvict
  <2>3. CASE p = q /\ s = t
    <3>1. \A w \in Workers : ~Past(p, w, s)
        BY <2>1, <2>3 DEF Kept
    <3>2. \A w \in Workers : ~Past(p, w, s)' /\ ~Doing(p, w, "device", s)'
        BY <2>2, <3>1 DEF Past, Doing, Steps
    <3>3. \A a \in Reading : ~At(p, s, a)'
        BY <2>1, <2>3, GoesTypes DEF Kept
    <3> QED
        BY <3>2, <3>3, NothingKept
  <2>4. CASE p # q \/ s # t
    <3>1. \A a \in Reading : At(p, s, a)' => At(p, s, a)
        BY <2>1, <2>4, GoesTypes
    <3>2. link'[p][s] = link[p][s]
        BY <1>3, <2>4, SetClientTypes DEF ExpireEvict, Links, JidOrNone
    <3>3. Owns(p, s) => Owns(p, s)'
        BY <1>3, <2>4 DEF ExpireEvict, Owns, TypeOK
    <3> QED
        BY <2>2, <3>1, <3>2, <3>3, KeptStays DEF Past, Doing
  <2> QED
    BY <2>3, <2>4
<1> QED
    BY <1>1, <1>2, <1>3, <1>4 DEF Callback

\* What the phone, the network and the operator do, at any slot.
LEMMA ExternalKept ==
    ASSUME TypeOK, NEW p \in Pods, NEW s \in Slots, Kept(p, s), NEW q \in Pods, NEW t \in Slots,
           External(q, t)
    PROVE  Kept(p, s)'
<1> USE ReadingSteps
<1>1. UNCHANGED <<entry, job>>
    BY DEF External, LogIn, Drop, Redial, LogOut, QRCode, Pair, QRTimeout, QRError, OperatorClose
<1>2. CASE \/ LogIn(q, t) \/ Drop(q, t) \/ Redial(q, t) \/ LogOut(q, t) \/ QRCode(q, t)
           \/ Pair(q, t) \/ QRError(q, t) \/ OperatorClose(q, t)
  <2>1. \/ \E step \in TaskSteps \ Reading : Begins(q, t, step)
        \/ \E next \in SUBSET (TaskSteps \ Reading) : Goes(q, t, "qr-wait", next)
        \/ UNCHANGED tasks
    BY <1>2 DEF LogIn, Drop, Redial, LogOut, QRCode, Pair, QRError, OperatorClose,
                callbacks, TaskSteps, Reading, Expiring
  <2>2. \A a \in Reading : At(p, s, a)' => At(p, s, a)
    <3>1. "qr-wait" \in TaskSteps
        BY DEF TaskSteps
    <3> QED
        BY <2>1, <3>1, BeginsTypes, GoesTypes DEF At
  <2>3. \/ UNCHANGED link
        \/ /\ link[q][t] \notin {"none", "closed"}
           /\ \E state \in Links : link' = [link EXCEPT ![q][t] = state]
        \/ link[q][t] # "none" /\ link' = [link EXCEPT ![q][t] = "closed"]
    BY <1>2 DEF LogIn, Drop, Redial, LogOut, QRCode, Pair, QRError, OperatorClose, Links,
                SetLink, SetClient, client
  <2>4. link[p][s] \in {"none", "closed"} => link'[p][s] = link[p][s]
    <3>1. link \in [Pods -> [Slots -> Links]]
        BY DEF TypeOK
    <3>2. ASSUME NEW state, link' = [link EXCEPT ![q][t] = state]
          PROVE  link'[p][s] = IF p = q /\ s = t THEN state ELSE link[p][s]
        BY <3>1, <3>2
    <3> QED
        BY <2>3, <3>2
  <2> QED
    BY <1>1, <2>2, <2>4, KeptStays DEF Past, Doing, Owns
<1>3. CASE QRTimeout(q, t)
  <2>1. /\ "qr-wait" \in Reading /\ "expire-clear" \in Expiring /\ "closed" \in Links
        /\ At(q, t, "qr-wait") /\ Goes(q, t, "qr-wait", {"expire-clear"})
        /\ SetLink(q, t, "closed") /\ link[q][t] \in {"pairing", "closed"}
    BY <1>3 DEF QRTimeout, Reading, Expiring, Links
  <2>2. CASE p = q /\ s = t
    <3>1. \A a \in Reading : At(p, s, a)' => a = "expire-clear"
        BY <2>1, <2>2, GoesTypes DEF Kept
    <3>2. Owns(p, s)' /\ \A w \in Workers : ~Past(p, w, s)
        BY <1>1, <2>1, <2>2 DEF Kept, Owns
    <3>3. \A w \in Workers : ~Past(p, w, s)' /\ ~Doing(p, w, "device", s)'
        BY <1>1, <3>2 DEF Past, Doing, Steps
    <3>4. link'[p][s] = "closed"
        BY <2>1, <2>2, SetLinkTypes
    <3> QED
        BY <3>1, <3>2, <3>3, <3>4 DEF Kept
  <2>3. CASE p # q \/ s # t
    <3>1. \A a \in Reading : At(p, s, a)' => At(p, s, a)
        BY <2>1, <2>3, GoesTypes
    <3>2. link'[p][s] = link[p][s]
        BY <2>1, <2>3, SetLinkTypes
    <3> QED
        BY <1>1, <3>1, <3>2, KeptStays DEF Past, Doing, Owns
  <2> QED
    BY <2>2, <2>3
<1> QED
    BY <1>2, <1>3 DEF External

LEMMA KeptStep ==
    ASSUME TypeOK, NEW p \in Pods, NEW s \in Slots, Kept(p, s), [Next]_vars
    PROVE  Kept(p, s)'
<1>1. CASE UNCHANGED vars \/ \E t \in Slots : Expire(t)
    BY <1>1, KeptUnchanged DEF vars, memory, client, callbacks, Expire
<1>2. ASSUME NEW q \in Pods, NEW w \in Workers, NEW t \in Slots, BringUp(q, w, t)
      PROVE  Kept(p, s)'
  <2>1. CASE p = q /\ s = t
    BY <1>2, <2>1, BringUpKept
  <2>2. CASE p # q \/ s # t
    BY <1>2, <2>2, BringUpElsewhere
  <2> QED
    BY <2>1, <2>2
<1> QED
    BY <1>1, <1>2, ProcessKept, RoundKept, CallbackKept, ExternalKept DEF Next

-----------------------------------------------------------------------------
\* A worker about to write a jid has one.
LEMMA RowJobStep ==
    ASSUME ManagerInv, [Next]_vars, NEW p \in Pods, NEW w \in Workers, job'[p][w].step = "row"
    PROVE  job'[p][w].jid # NoJid
<1> USE DEF ManagerInv
<1>1. CASE UNCHANGED job
    BY <1>1
<1>2. ASSUME NEW q \in Pods, NEW v \in Workers, NEW t \in Slots, BringUp(q, v, t)
      PROVE  job'[p][w].jid # NoJid
  <2>1. CASE BringRead(q, v, t)
    <3>1. job'[q][v].jid # NoJid
        BY <2>1, ReadTypes DEF BringRead, HasSession
    <3>2. p # q \/ w # v => job'[p][w] = job[p][w]
        BY <2>1, ReadTypes DEF Moves
    <3> QED
        BY <3>1, <3>2
  <2>2. CASE BringPanics(q, v, t)
    <3>1. job' = [job EXCEPT ![q] = [x \in Workers |-> NoJob]]
        BY <2>2 DEF BringPanics, NoMemory
    <3>2. NoJob.step # "row"
        BY DEF NoJob
    <3>3. job'[p][w] \in {job[p][w], NoJob}
        BY <3>1 DEF TypeOK
    <3> QED
        BY <3>2, <3>3
  <2>3. CASE ~BringRead(q, v, t) /\ ~BringPanics(q, v, t)
    <3>1. PICK step \in Steps, next \in (Steps \cup {"none"}) \ {"row"} :
              Doing(q, v, step, t) /\ Advance(q, v, next)
        BY <1>2, <2>3 DEF BringUp, MarkClaimed, BringCheck, BringDevice, OverDevice, OverNewDevice,
                BringResume, BringMark, BringRow, BringLog, BringPair, BringMarkQR, Steps
    <3>2. Moves(q, v, t, next)
        BY <3>1, AdvanceTypes
    <3> QED
        BY <3>2 DEF Moves
  <2> QED
    BY <2>1, <2>2, <2>3
<1>3. ASSUME NEW q \in Pods, Process(q)
      PROVE  job'[p][w].jid # NoJid
  <2>1. UNCHANGED job \/ job' = [job EXCEPT ![q] = [x \in Workers |-> NoJob]]
    BY <1>3 DEF Process, Start, Crash, Signal, CloseClients, Release, Exit, NoMemory, memory
  <2>2. NoJob.step # "row"
    BY DEF NoJob
  <2>3. job'[p][w] \in {job[p][w], NoJob}
    <3>1. DOMAIN job = Pods
        BY DEF TypeOK
    <3>2. CASE UNCHANGED job
        BY <3>2
    <3>3. CASE job' = [job EXCEPT ![q] = [x \in Workers |-> NoJob]]
      <4>1. job'[p] = IF p = q THEN [x \in Workers |-> NoJob] ELSE job[p]
        BY <3>1, <3>3
      <4> QED
        BY <4>1
    <3> QED
      BY <2>1, <3>2, <3>3
  <2> QED
    BY <2>2, <2>3
<1>4. ASSUME NEW q \in Pods, NextClaimed(q) \/ \E t \in Slots : CreateConnection(q, t)
      PROVE  job'[p][w].jid # NoJid
  <2>1. \E j : j.step # "row" /\ \E v \in Workers : job' = [job EXCEPT ![q][v] = j]
    BY <1>4 DEF NextClaimed, CreateConnection, NoJob, Workers
  <2>2. PICK j : j.step # "row" /\ \E v \in Workers : job' = [job EXCEPT ![q][v] = j]
    BY <2>1
  <2>3. job'[p][w] \in {job[p][w], j}
    BY <2>2 DEF TypeOK
  <2> QED
    BY <2>2, <2>3
<1>5. CASE \/ UNCHANGED vars \/ \E t \in Slots : Expire(t)
           \/ \E q \in Pods : Heartbeat(q) \/ Claim(q)
    BY <1>1, <1>5 DEF vars, memory, Expire, Heartbeat, Claim
<1>6. ASSUME NEW q \in Pods, NEW t \in Slots, Callback(q, t) \/ External(q, t)
      PROVE  UNCHANGED job
  <2>1. CASE Callback(q, t)
    BY <2>1 DEF Callback, ConnectedMark, ConnectedRead, ConnectedRow, PersistRead, PersistSession,
                ReadsID, Writes, DroppedMark, LoggedOutMark, LoggedOutRow, ShowQR, EmitQR, HideQR,
                ExpireClear, ExpireRow, ExpireEvict, OperatorMark, OperatorRow
  <2>2. CASE External(q, t)
    BY <2>2 DEF External, LogIn, Drop, Redial, LogOut, QRCode, Pair, QRTimeout, QRError, OperatorClose
  <2> QED
    BY <1>6, <2>1, <2>2
<1> QED
    BY <1>1, <1>2, <1>3, <1>4, <1>5, <1>6 DEF Next

LEMMA ManagerInvStep == ManagerInv /\ [Next]_vars => ManagerInv'
<1> SUFFICES ASSUME ManagerInv, [Next]_vars
             PROVE  ManagerInv'
    OBVIOUS
<1>1. TypeOK'
    BY TypeStep DEF ManagerInv
<1>2. \A p \in Pods, s \in Slots : Kept(p, s)'
    BY KeptStep DEF ManagerInv
<1>3. ConnectedHasJid'
    BY RowStep DEF ManagerInv, ConnectedHasJid
<1>4. \A p \in Pods, w \in Workers : job'[p][w].step = "row" => job'[p][w].jid # NoJid
    BY RowJobStep
<1> QED
    BY <1>1, <1>2, <1>3, <1>4 DEF ManagerInv

LEMMA ManagerInvInit == Init => ManagerInv
<1> SUFFICES ASSUME Init
             PROVE  ManagerInv
  OBVIOUS
<1>1. rows \in [Slots -> Row] /\ \A s \in Slots : rows[s].status \in {"absent", "disconnected"}
  BY StoreAssumption DEF Init, StoreInit, Absent, NewRow, Row, NeverSeen, Statuses
<1>2. jid \in [Slots -> JidOrNone] /\ device \in [Slots -> SUBSET Jids]
  BY DEF Init, JidOrNone
<1>3. NoJob \in Job /\ NoJob.step = "none"
  BY DEF Job, NoJob
<1>4. job \in [Pods -> [Workers -> Job]] /\ \A p \in Pods, w \in Workers : job[p][w] = NoJob
  BY <1>3 DEF Init
<1>5. tasks \in [Pods -> SUBSET (Slots \X TaskSteps)] /\ \A p \in Pods : tasks[p] = {}
  BY DEF Init
<1>6. TypeOK
  BY <1>1, <1>2, <1>4, <1>5 DEF Init, TypeOK, StoreTypeOK, Entries, Links, JidOrNone
<1>7. ASSUME NEW p \in Pods, NEW s \in Slots
      PROVE  Kept(p, s)
  BY <1>3, <1>4, <1>5 DEF Kept, Past, Doing, At, Steps
<1>8. ConnectedHasJid
  BY <1>1 DEF ConnectedHasJid
<1>9. \A p \in Pods, w \in Workers : job[p][w].step # "row"
  BY <1>3, <1>4
<1> QED
  BY <1>6, <1>7, <1>8, <1>9 DEF ManagerInv

LEMMA ManagerInvHolds == Spec => []ManagerInv
BY ManagerInvInit, ManagerInvStep, PTL DEF Spec

-----------------------------------------------------------------------------
\* The variables keep their types.
THEOREM GatewayTypeCorrect == Spec => []TypeOK
<1>1. ManagerInv => TypeOK
    BY DEF ManagerInv
<1> QED
    BY <1>1, ManagerInvHolds, PTL

\* Two goroutines that bring a slot up never both make its client, and none makes one
\* beside another, whatever callbacks, timeouts and commands do to the entry meanwhile.
THEOREM EntriesGetOneClient == Spec => []OneClient
<1>1. ManagerInv => OneClient
  <2> SUFFICES ASSUME ManagerInv, NEW p \in Pods, NEW s \in Slots
               PROVE  /\ Cardinality({w \in Workers : Past(p, w, s)}) =< 1
                      /\ (\E w \in Workers : Doing(p, w, "device", s)) => link[p][s] = "none"
    BY DEF OneClient
  <2>1. Kept(p, s)
    BY DEF ManagerInv
  <2>2. (\E w \in Workers : Doing(p, w, "device", s)) => link[p][s] = "none"
    BY <2>1 DEF Kept
  <2>3. \A w, v \in Workers : Past(p, w, s) /\ Past(p, v, s) => w = v
    BY <2>1 DEF Kept
  <2>4. Cardinality({w \in Workers : Past(p, w, s)}) =< 1
    <3>1. CASE \E w \in Workers : Past(p, w, s)
      <4>1. PICK w \in Workers : {v \in Workers : Past(p, v, s)} = {w}
        BY <2>3, <3>1
      <4>2. Cardinality({w}) = 1
        BY FS_Singleton
      <4> QED
        BY <4>1, <4>2
    <3>2. CASE ~\E w \in Workers : Past(p, w, s)
      <4>1. {w \in Workers : Past(p, w, s)} = {}
        BY <3>2
      <4> QED
        BY <4>1, FS_EmptySet
    <3> QED
        BY <3>1, <3>2
  <2> QED
    BY <2>2, <2>4
<1> QED
    BY <1>1, ManagerInvHolds, PTL

\* A row that says connected has a jid, whoever wrote it and however late.
THEOREM ConnectedRowsHaveJids == Spec => []ConnectedHasJid
<1>1. ManagerInv => ConnectedHasJid
    BY DEF ManagerInv
<1> QED
    BY <1>1, ManagerInvHolds, PTL

\* The timeout of a QR code evicts the entry it timed out for: none that was made anew.
THEOREM EvictionsAreOfExpired == Spec => EvictsExpired
<1> DEFINE Safe ==
        \A p \in Pods, s \in Slots : ExpireEvict(p, s) =>
            /\ link[p][s] \in {"closed", "none"}
            /\ \A w \in Workers : ~Past(p, w, s)
<1>1. ManagerInv => Safe
  <2> SUFFICES ASSUME ManagerInv, NEW p \in Pods, NEW s \in Slots, At(p, s, "expire-evict")
               PROVE  /\ link[p][s] \in {"closed", "none"}
                      /\ \A w \in Workers : ~Past(p, w, s)
    BY DEF ExpireEvict
  <2> QED
    BY DEF ManagerInv, Kept, Expiring, Reading
<1>2. ManagerInv /\ [Next]_vars => [Safe]_vars
    BY <1>1
<1> QED
    BY <1>2, ManagerInvHolds, PTL DEF Spec, EvictsExpired
=============================================================================
