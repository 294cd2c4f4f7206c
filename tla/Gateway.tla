----------------------------- MODULE Gateway -----------------------------
(***************************************************************************)
(* The connection manager of the gateway pods (internal/whatsapp/          *)
(* manager.go): the entries of Manager.conns, the whatsmeow clients behind *)
(* them and the rows of whatsapp_connections, under every interleaving of  *)
(* the goroutines that touch a slot: the claimer and the HTTP handler,     *)
(* which bring it up, the callbacks of its client, the goroutine that      *)
(* reads its QR channel and the consumer of operator commands.  A step is  *)
(* what one goroutine does between two releases of Manager.mu or two       *)
(* statements on the database.                                             *)
(*                                                                         *)
(* ClaimLease gives the claim transaction, which is one step here, and     *)
(* time: a row grows stale only when no running pod leases it.  Staleness  *)
(* is 0 here, so that an age is fresh (0) or stale (1).                    *)
(*                                                                         *)
(* whatsmeow is external: a client's link and its events are modelled from *)
(* how manager.go uses them.  Each event runs its callback in a goroutine  *)
(* of its own.                                                             *)
(***************************************************************************)
EXTENDS ConnStore

CONSTANTS
    Jids,     \* bound: the devices of a slot that are told apart, by their jids
    NoJid,    \* an empty jid column, a nil Store.ID
    Inputs    \* what the environment does in this instance, of AllInputs

AllInputs == {"create", "operator", "crash", "shutdown", "logout", "drop",
              "qrTimeout", "qrError", "dbError", "deviceError", "connectError"}

ASSUME GatewayAssumption ==
    /\ Staleness = 0 /\ Inputs \subseteq AllInputs
    /\ NoJid \notin Jids

VARIABLES
    jid,      \* the jid in the row of a slot
    device,   \* the devices of a slot in whatsmeow's tables, by their jids
    up,       \* the process: "down", "up", or the step its shutdown is at
    entry,    \* Status of the pod's ConnState of a slot, or "none"
    qr,       \* whether its QRCode is set
    link,     \* the entry's client: "none", "new", "pairing", "authing", "live",
              \* "dropped" or "closed"
    id,       \* its Store.ID, which whatsmeow sets when it pairs and clears on a logout
    tasks,    \* <<slot, step>> of the callbacks, QR readers and commands under way
    writes,   \* callbacks that have read a Store.ID and are about to write it
    todo,     \* claimed rows claimOnce has not looked at, as read by the claim
    job       \* the Bring or CreateAndBring of the claimer and of the HTTP handler

client == <<link, id>>
callbacks == <<tasks, writes>>
memory == <<entry, qr, client, callbacks, todo, job>>
vars == <<rows, jid, device, up, memory>>

Workers == {"claimer", "http"}
NoJob == [step |-> "none"]
Steps == {"mark-claimed", "check", "device", "resume", "pair", "mark-qr", "mark", "read",
          "row", "log"}
JidOrNone == Jids \cup {NoJid}
Job == {NoJob} \cup [step : Steps, slot : Slots, jid : JidOrNone]

TaskSteps == {"connected-mark", "connected-read", "connected-save", "dropped-mark",
              "loggedout-mark", "loggedout-row", "paired-save",
              "qr-wait", "qr-code", "qr-emit", "qr-success",
              "expire-clear", "expire-row", "expire-evict",
              "operator-mark", "operator-row"}

WriteSteps == {"connected-row", "connected-save", "paired-save"}
Write == [slot : Slots, step : WriteSteps, jid : Jids]

Entries == {"none", "connecting", "qr", "connected", "disconnected"}
Links == {"none", "new", "pairing", "authing", "live", "dropped", "closed"}

TypeOK ==
    /\ StoreTypeOK
    /\ jid \in [Slots -> JidOrNone] /\ device \in [Slots -> SUBSET Jids]
    /\ up \in [Pods -> {"down", "up", "stopping", "closed", "released"}]
    /\ entry \in [Pods -> [Slots -> Entries]]
    /\ qr \in [Pods -> [Slots -> BOOLEAN]]
    /\ link \in [Pods -> [Slots -> Links]] /\ id \in [Pods -> [Slots -> JidOrNone]]
    /\ tasks \in [Pods -> SUBSET (Slots \X TaskSteps)]
    /\ writes \in [Pods -> SUBSET Write]
    /\ todo \in [Pods -> SUBSET [slot : Slots, jid : JidOrNone]]
    /\ job \in [Pods -> [Workers -> Job]]

-----------------------------------------------------------------------------
Running(p) == up[p] # "down"

\* Owns: the pod has an entry for the slot.
Owns(p, s) == entry[p][s] # "none"

At(p, s, step) == <<s, step>> \in tasks[p]

\* A callback, a reader or a command begins in a goroutine of its own.
Begins(p, s, step) ==
    /\ tasks' = [tasks EXCEPT ![p] = @ \cup {<<s, step>>}]
    /\ UNCHANGED writes

\* A task goes from one step to the next ones, which are none when it is over.
Goes(p, s, step, next) ==
    /\ tasks' = [tasks EXCEPT ![p] = (@ \ {<<s, step>>}) \cup {<<s, n>> : n \in next}]
    /\ UNCHANGED writes

\* setStatus: nothing when the entry is gone.
SetMem(p, s, status) ==
    entry' = [entry EXCEPT ![p][s] = IF Owns(p, s) THEN status ELSE @]

\* setQRCode, likewise.
SetQR(p, s, on) == qr' = [qr EXCEPT ![p][s] = IF Owns(p, s) THEN on ELSE @]

SetLink(p, s, state) == link' = [link EXCEPT ![p][s] = state] /\ UNCHANGED id

\* The entry's client, over a device or none.
SetClient(p, s, state, j) ==
    /\ link' = [link EXCEPT ![p][s] = state]
    /\ id' = [id EXCEPT ![p][s] = j]

\* client(id) # nil and its Store.ID # nil.
HasSession(p, s) == id[p][s] # NoJid

\* A session is stored: the row has the jid of a device in whatsmeow's tables.
Stored(s) == jid[s] \in device[s]

\* Mutant of SetStatus: the jid is not written.
SetStatusNoJidMutant(p, s, status, j) ==
    \/ /\ up[p] = "up"
       /\ rows' = StatusRows(s, status)
       /\ UNCHANGED jid
    \/ /\ up[p] # "up" \/ "dbError" \in Inputs
       /\ UNCHANGED <<rows, jid>>

\* Store.SetStatus with m.ctx: it fails once the process is shutting down, and may
\* fail before; callers drop the error.  A jid replaces the one in the row, if there is
\* one to write.
SetStatus(p, s, status, j) ==
    \/ /\ up[p] = "up"
       /\ rows' = StatusRows(s, status)
       /\ jid' = [jid EXCEPT ![s] = IF j = NoJid THEN @ ELSE j]
    \/ /\ up[p] # "up" \/ "dbError" \in Inputs
       /\ UNCHANGED <<rows, jid>>

-----------------------------------------------------------------------------
NoMemory(p) ==
    /\ entry' = [entry EXCEPT ![p] = [s \in Slots |-> "none"]]
    /\ qr' = [qr EXCEPT ![p] = [s \in Slots |-> FALSE]]
    /\ link' = [link EXCEPT ![p] = [s \in Slots |-> "none"]]
    /\ id' = [id EXCEPT ![p] = [s \in Slots |-> NoJid]]
    /\ tasks' = [tasks EXCEPT ![p] = {}]
    /\ writes' = [writes EXCEPT ![p] = {}]
    /\ todo' = [todo EXCEPT ![p] = {}]
    /\ job' = [job EXCEPT ![p] = [w \in Workers |-> NoJob]]

\* With "create" among the inputs the table is empty at first; otherwise it has
\* slots that nobody has claimed, paired or not.
Init ==
    /\ \/ "create" \in Inputs /\ StoreInit /\ jid = [s \in Slots |-> NoJid]
       \/ "create" \notin Inputs /\ rows = [s \in Slots |-> NewRow] /\ jid \in [Slots -> JidOrNone]
    /\ device = [s \in Slots |-> {jid[s]} \ {NoJid}]
    /\ up = [p \in Pods |-> "down"]
    /\ entry = [p \in Pods |-> [s \in Slots |-> "none"]]
    /\ qr = [p \in Pods |-> [s \in Slots |-> FALSE]]
    /\ link = [p \in Pods |-> [s \in Slots |-> "none"]]
    /\ id = [p \in Pods |-> [s \in Slots |-> NoJid]]
    /\ tasks = [p \in Pods |-> {}]
    /\ writes = [p \in Pods |-> {}]
    /\ todo = [p \in Pods |-> {}]
    /\ job = [p \in Pods |-> [w \in Workers |-> NoJob]]

Start(p) ==
    /\ up[p] = "down"
    /\ up' = [up EXCEPT ![p] = "up"]
    /\ UNCHANGED <<rows, jid, device, memory>>

Crash(p) ==
    /\ "crash" \in Inputs /\ Running(p)
    /\ up' = [up EXCEPT ![p] = "down"]
    /\ NoMemory(p)
    /\ UNCHANGED <<rows, jid, device>>

\* SIGTERM cancels m.ctx.  The goroutines go on until the process exits.
Signal(p) ==
    /\ "shutdown" \in Inputs /\ up[p] = "up"
    /\ up' = [up EXCEPT ![p] = "stopping"]
    /\ UNCHANGED <<rows, jid, device, memory>>

\* Manager.Shutdown closes the clients of the entries under m.mu.
CloseClients(p) ==
    /\ up[p] = "stopping"
    /\ up' = [up EXCEPT ![p] = "closed"]
    /\ link' = [link EXCEPT ![p] = [s \in Slots |-> IF @[s] = "none" THEN "none" ELSE "closed"]]
    /\ UNCHANGED <<rows, jid, device, entry, qr, id, callbacks, todo, job>>

\* ReleaseAll, on a context of its own; an error is logged.
Release(p) ==
    /\ up[p] = "closed"
    /\ up' = [up EXCEPT ![p] = "released"]
    /\ \/ rows' = ReleasedRows(p)
       \/ "dbError" \in Inputs /\ UNCHANGED rows
    /\ UNCHANGED <<jid, device, memory>>

\* The HTTP server is shut down and the process exits.
Exit(p) ==
    /\ up[p] = "released"
    /\ up' = [up EXCEPT ![p] = "down"]
    /\ NoMemory(p)
    /\ UNCHANGED <<rows, jid, device>>

\* The row of a slot that no running pod owns grows stale.
Expire(s) ==
    /\ rows[s].status # "absent" /\ ~Stale(s)
    /\ \A p \in Pods : Running(p) => rows[s].pod # p
    /\ rows' = [rows EXCEPT ![s].age = NeverSeen]
    /\ UNCHANGED <<jid, device, up, memory>>

\* The heartbeat makes the rows a restarted pod had before it fresh again.
Heartbeat(p) ==
    /\ up[p] = "up" /\ rows # HeartbeatRows(p)
    /\ rows' = HeartbeatRows(p)
    /\ UNCHANGED <<jid, device, up, memory>>

-----------------------------------------------------------------------------
\* claimOnce: the claim, which reads the rows and marks them.
Claim(p) ==
    /\ up[p] = "up" /\ todo[p] = {} /\ job[p]["claimer"] = NoJob
    /\ \E S \in ClaimChoices(p, Slots) :
        /\ S # {}
        /\ rows' = ClaimedRows(p, S)
        /\ todo' = [todo EXCEPT ![p] = {[slot |-> s, jid |-> jid[s]] : s \in S}]
    /\ UNCHANGED <<jid, device, up, entry, qr, client, callbacks, job>>

\* claimOnce: the next row; a slot the pod has an entry for is skipped.
NextClaimed(p) ==
    /\ Running(p) /\ job[p]["claimer"] = NoJob
    /\ \E r \in todo[p] :
        /\ todo' = [todo EXCEPT ![p] = @ \ {r}]
        /\ job' = [job EXCEPT ![p]["claimer"] =
                     IF Owns(p, r.slot) THEN NoJob
                     ELSE [step |-> "check", slot |-> r.slot, jid |-> r.jid]]
    /\ UNCHANGED <<rows, jid, device, up, entry, qr, client, callbacks>>

\* POST /connections: CreateConnection, on the context of the request, which is served
\* up to the end of the shutdown,
CreateConnection(p, s) ==
    /\ "create" \in Inputs /\ Running(p)
    /\ job[p]["http"] = NoJob /\ rows[s].status = "absent"
    /\ rows' = InsertedRows(s)
    /\ job' = [job EXCEPT ![p]["http"] = [step |-> "mark-claimed", slot |-> s, jid |-> NoJid]]
    /\ UNCHANGED <<jid, device, up, entry, qr, client, callbacks, todo>>

\* A worker of the pod is at a step of Bring or CreateAndBring for slot s.
Doing(p, w, step, s) == job[p][w].step = step /\ job[p][w].slot = s

\* The worker goes on to the next step, or is done ("none").
Advance(p, w, step) ==
    job' = [job EXCEPT ![p][w] = IF step = "none" THEN NoJob ELSE [@ EXCEPT !.step = step]]

\* SetStatus(claimed), on the same context; on its error CreateAndBring returns,
MarkClaimed(p, w, s) ==
    /\ Doing(p, w, "mark-claimed", s)
    /\ \/ rows' = StatusRows(s, "claimed") /\ Advance(p, w, "check")
       \/ "dbError" \in Inputs /\ UNCHANGED rows /\ Advance(p, w, "none")
    /\ UNCHANGED <<jid, device, up, entry, qr, client, callbacks, todo>>

\* Mutant of Managed: Bring does not look for an entry.
ManagedMutant(p, s) == FALSE

\* Bring finds the slot managed already.
Managed(p, s) == Owns(p, s)

\* Bring: the entry is made under m.mu, unless there is one.
BringCheck(p, w, s) ==
    /\ Doing(p, w, "check", s)
    /\ IF Managed(p, s)
       THEN Advance(p, w, "none") /\ UNCHANGED <<entry, qr, client>>
       ELSE /\ Advance(p, w, "device")
            /\ entry' = [entry EXCEPT ![p][s] = "connecting"]
            /\ qr' = [qr EXCEPT ![p][s] = FALSE]
            /\ SetClient(p, s, "none", NoJid)
    /\ UNCHANGED <<rows, jid, device, up, callbacks, todo>>

\* The client is made over the device of the row's jid,
OverDevice(p, w, s) ==
    /\ job[p][w].jid \in device[s] /\ up[p] = "up"
    /\ SetClient(p, s, "new", job[p][w].jid) /\ Advance(p, w, "resume")

\* or over a new one that has to be paired.
OverNewDevice(p, w, s) == SetClient(p, s, "new", NoJid) /\ Advance(p, w, "pair")

\* GetDevice fails, since the context is cancelled, say.
DeviceUnread(p) == up[p] # "up" \/ "deviceError" \in Inputs

\* Mutant of BringDevice: an error reading the device ends it.
BringDeviceMutant(p, w, s) ==
    /\ Doing(p, w, "device", s)
    /\ \/ OverDevice(p, w, s)
       \/ job[p][w].jid \notin device[s] /\ OverNewDevice(p, w, s)
       \/ "dbError" \in Inputs /\ Advance(p, w, "none") /\ UNCHANGED client
    /\ UNCHANGED <<rows, jid, device, up, entry, qr, callbacks, todo>>

\* Bring: the client; an error reading the device is taken for there being none.
BringDevice(p, w, s) ==
    /\ Doing(p, w, "device", s)
    /\ \/ OverDevice(p, w, s)
       \/ /\ job[p][w].jid \notin device[s] \/ DeviceUnread(p)
          /\ OverNewDevice(p, w, s)
    /\ UNCHANGED <<rows, jid, device, up, entry, qr, callbacks, todo>>

\* Bring: Connect with the session; on an error the entry stays.
BringResume(p, w, s) ==
    /\ Doing(p, w, "resume", s)
    /\ \/ SetLink(p, s, "authing") /\ Advance(p, w, "mark") /\ UNCHANGED entry
       \/ /\ "connectError" \in Inputs
          /\ SetMem(p, s, "disconnected") /\ Advance(p, w, "none") /\ UNCHANGED client
    /\ UNCHANGED <<rows, jid, device, up, qr, callbacks, todo>>

BringMark(p, w, s) ==
    /\ Doing(p, w, "mark", s)
    /\ SetMem(p, s, "connected")
    /\ Advance(p, w, "read")
    /\ UNCHANGED <<rows, jid, device, up, qr, client, callbacks, todo>>

\* The client's Store.ID is read,
BringRead(p, w, s) ==
    /\ Doing(p, w, "read", s) /\ HasSession(p, s)
    /\ job' = [job EXCEPT ![p][w].step = "row", ![p][w].jid = id[p][s]]
    /\ UNCHANGED <<rows, jid, device, up, entry, qr, client, callbacks, todo>>

\* written to the row,
BringRow(p, w, s) ==
    /\ Doing(p, w, "row", s)
    /\ SetStatus(p, s, "connected", job[p][w].jid)
    /\ Advance(p, w, "log")
    /\ UNCHANGED <<device, up, entry, qr, client, callbacks, todo>>

\* and read again for the log.
BringLog(p, w, s) ==
    /\ Doing(p, w, "log", s) /\ HasSession(p, s)
    /\ Advance(p, w, "none")
    /\ UNCHANGED <<rows, jid, device, up, entry, qr, client, callbacks, todo>>

\* Either time it is nil when the phone unlinked the device since Connect: the goroutine
\* panics, and the process dies.
BringPanics(p, w, s) ==
    /\ Doing(p, w, "read", s) \/ Doing(p, w, "log", s)
    /\ ~HasSession(p, s)
    /\ up' = [up EXCEPT ![p] = "down"]
    /\ NoMemory(p)
    /\ UNCHANGED <<rows, jid, device>>

\* startQR: GetQRChannel and Connect; on an error the entry stays.
BringPair(p, w, s) ==
    /\ Doing(p, w, "pair", s)
    /\ \/ SetLink(p, s, "pairing") /\ Advance(p, w, "mark-qr")
       \/ "connectError" \in Inputs /\ Advance(p, w, "none") /\ UNCHANGED client
    /\ UNCHANGED <<rows, jid, device, up, entry, qr, callbacks, todo>>

\* startQR: the status, and the goroutine that reads the channel.
BringMarkQR(p, w, s) ==
    /\ Doing(p, w, "mark-qr", s)
    /\ SetMem(p, s, "qr")
    /\ Begins(p, s, "qr-wait")
    /\ Advance(p, w, "none")
    /\ UNCHANGED <<rows, jid, device, up, qr, client, todo>>

-----------------------------------------------------------------------------
\* The client logs in with its session: event Connected.
LogIn(p, s) ==
    /\ link[p][s] = "authing" /\ id[p][s] \in device[s]
    /\ SetLink(p, s, "live")
    /\ Begins(p, s, "connected-mark")
    /\ UNCHANGED <<rows, jid, device, up, entry, qr, todo, job>>

\* Its callback: setStatus,
ConnectedMark(p, s) ==
    /\ At(p, s, "connected-mark")
    /\ SetMem(p, s, "connected")
    /\ Goes(p, s, "connected-mark", {"connected-read"})
    /\ UNCHANGED <<rows, jid, device, up, qr, client, todo, job>>

\* A callback at a step reads the Store.ID of the entry's client, to write it next.  It
\* ends if there is none; likewise if the device is unlinked between the test and the
\* read, where whatsmeow recovers the panic.
ReadsID(p, s, step, next) ==
    /\ At(p, s, step)
    /\ tasks' = [tasks EXCEPT ![p] = @ \ {<<s, step>>}]
    /\ writes' = [writes EXCEPT ![p] =
         @ \cup {[slot |-> s, step |-> next, jid |-> j] : j \in {id[p][s]} \ {NoJid}}]
    /\ UNCHANGED <<rows, jid, device, up, entry, qr, client, todo, job>>

\* Write w is made, or fails, and the callback goes on to the next steps.  By then the
\* device may be unlinked, and the row another pod's.
Writes(p, s, w, next) ==
    /\ w \in writes[p] /\ w.slot = s
    /\ SetStatus(p, s, "connected", w.jid)
    /\ writes' = [writes EXCEPT ![p] = @ \ {w}]
    /\ tasks' = [tasks EXCEPT ![p] = @ \cup {<<s, n>> : n \in next}]
    /\ UNCHANGED <<device, up, entry, qr, client, todo, job>>

\* SetStatus with the jid, when the entry's client has a session,
ConnectedRead(p, s) == ReadsID(p, s, "connected-read", "connected-row")

ConnectedRow(p, s) ==
    \E w \in writes[p] : w.step = "connected-row" /\ Writes(p, s, w, {"connected-save"})

\* persistSession, here and after PairSuccess: SetStatus with the jid again.
PersistRead(p, s) ==
    \E step \in {"connected-save", "paired-save"} : ReadsID(p, s, step, step)

PersistSession(p, s) ==
    \E w \in writes[p] : w.step # "connected-row" /\ Writes(p, s, w, {})

\* The network drops the client: event Disconnected; whatsmeow connects again.
Drop(p, s) ==
    /\ "drop" \in Inputs /\ link[p][s] = "live"
    /\ SetLink(p, s, "dropped")
    /\ Begins(p, s, "dropped-mark")
    /\ UNCHANGED <<rows, jid, device, up, entry, qr, todo, job>>

Redial(p, s) ==
    /\ link[p][s] = "dropped"
    /\ SetLink(p, s, "authing")
    /\ UNCHANGED <<rows, jid, device, up, entry, qr, callbacks, todo, job>>

DroppedMark(p, s) ==
    /\ At(p, s, "dropped-mark")
    /\ SetMem(p, s, "disconnected")
    /\ Goes(p, s, "dropped-mark", {})
    /\ UNCHANGED <<rows, jid, device, up, qr, client, todo, job>>

\* The phone unlinks the device: event LoggedOut at a client that is logged in or
\* logs in; whatsmeow deletes the device.
LogOut(p, s) ==
    /\ \/ "logout" \in Inputs /\ link[p][s] = "live"
       \/ link[p][s] = "authing" /\ id[p][s] \notin device[s]
    /\ SetClient(p, s, "closed", NoJid)
    /\ device' = [device EXCEPT ![s] = @ \ {id[p][s]}]
    /\ Begins(p, s, "loggedout-mark")
    /\ UNCHANGED <<rows, jid, up, entry, qr, todo, job>>

LoggedOutMark(p, s) ==
    /\ At(p, s, "loggedout-mark")
    /\ SetMem(p, s, "disconnected")
    /\ Goes(p, s, "loggedout-mark", {"loggedout-row"})
    /\ UNCHANGED <<rows, jid, device, up, qr, client, todo, job>>

\* Mutant of LoggedOutRow: the name of the event is written as the status.
LoggedOutRowMutant(p, s) ==
    /\ At(p, s, "loggedout-row")
    /\ SetStatus(p, s, "logged_out", NoJid)
    /\ Goes(p, s, "loggedout-row", {})
    /\ UNCHANGED <<device, up, entry, qr, client, todo, job>>

\* The row is marked disconnected; the entry stays.
LoggedOutRow(p, s) ==
    /\ At(p, s, "loggedout-row")
    /\ SetStatus(p, s, "disconnected", NoJid)
    /\ Goes(p, s, "loggedout-row", {})
    /\ UNCHANGED <<device, up, entry, qr, client, todo, job>>

-----------------------------------------------------------------------------
\* The QR channel has a code for the reader.
QRCode(p, s) ==
    /\ At(p, s, "qr-wait") /\ link[p][s] = "pairing"
    /\ Begins(p, s, "qr-code")
    /\ UNCHANGED <<rows, jid, device, up, entry, qr, client, todo, job>>

\* The reader goes on to the next event of the channel when the code before it is
\* shown and published.
ReaderFree(p, s) == ~At(p, s, "qr-emit")

\* The reader shows it,
ShowQR(p, s) ==
    /\ At(p, s, "qr-code") /\ ReaderFree(p, s)
    /\ SetQR(p, s, TRUE)
    /\ Goes(p, s, "qr-code", {"qr-emit"})
    /\ UNCHANGED <<rows, jid, device, up, entry, client, todo, job>>

\* and publishes it (emitEvent), waiting for the brokers.
EmitQR(p, s) ==
    /\ At(p, s, "qr-emit")
    /\ Goes(p, s, "qr-emit", {})
    /\ UNCHANGED <<rows, jid, device, up, entry, qr, client, todo, job>>

\* Nothing knows jid j for slot s.
Fresh(s, j) ==
    /\ j # jid[s] /\ j \notin device[s]
    /\ \A p \in Pods :
        /\ id[p][s] # j
        /\ \A r \in todo[p] \cup writes[p] : r.slot = s => r.jid # j
        /\ \A w \in Workers : job[p][w] # NoJob /\ job[p][w].slot = s => job[p][w].jid # j

\* The phone scans a code: event PairSuccess, "success" on the channel, and the
\* client logs in with the new device, whose jid is fresh.
Pair(p, s) ==
    /\ At(p, s, "qr-wait") /\ link[p][s] = "pairing"
    /\ \E j \in Jids :
        /\ Fresh(s, j)
        /\ device' = [device EXCEPT ![s] = @ \cup {j}]
        /\ SetClient(p, s, "authing", j)
    /\ Goes(p, s, "qr-wait", {"qr-success", "paired-save"})
    /\ UNCHANGED <<rows, jid, up, entry, qr, todo, job>>

\* case "success", after the codes that were on the channel.
HideQR(p, s) ==
    /\ At(p, s, "qr-success") /\ ~At(p, s, "qr-code") /\ ReaderFree(p, s)
    /\ SetQR(p, s, FALSE)
    /\ Goes(p, s, "qr-success", {})
    /\ UNCHANGED <<rows, jid, device, up, entry, client, todo, job>>

\* The codes run out, whether the client still waits or was closed: "timeout".
QRTimeout(p, s) ==
    /\ "qrTimeout" \in Inputs
    /\ At(p, s, "qr-wait") /\ link[p][s] \in {"pairing", "closed"}
    /\ SetLink(p, s, "closed")
    /\ Goes(p, s, "qr-wait", {"expire-clear"})
    /\ UNCHANGED <<rows, jid, device, up, entry, qr, todo, job>>

\* case "timeout": setQRCode, SetStatus(disconnected), evictConn.
ExpireClear(p, s) ==
    /\ At(p, s, "expire-clear") /\ ~At(p, s, "qr-code") /\ ReaderFree(p, s)
    /\ SetQR(p, s, FALSE)
    /\ Goes(p, s, "expire-clear", {"expire-row"})
    /\ UNCHANGED <<rows, jid, device, up, entry, client, todo, job>>

ExpireRow(p, s) ==
    /\ At(p, s, "expire-row")
    /\ SetStatus(p, s, "disconnected", NoJid)
    /\ Goes(p, s, "expire-row", {"expire-evict"})
    /\ UNCHANGED <<device, up, entry, qr, client, todo, job>>

ExpireEvict(p, s) ==
    /\ At(p, s, "expire-evict")
    /\ entry' = [entry EXCEPT ![p][s] = "none"]
    /\ qr' = [qr EXCEPT ![p][s] = FALSE]
    /\ SetClient(p, s, "none", NoJid)
    /\ Goes(p, s, "expire-evict", {})
    /\ UNCHANGED <<rows, jid, device, up, todo, job>>

\* Any other event ends the channel ("err-..."): it is logged and nothing else.
QRError(p, s) ==
    /\ "qrError" \in Inputs
    /\ At(p, s, "qr-wait") /\ link[p][s] = "pairing"
    /\ SetLink(p, s, "closed")
    /\ Goes(p, s, "qr-wait", {})
    /\ UNCHANGED <<rows, jid, device, up, entry, qr, todo, job>>

-----------------------------------------------------------------------------
\* An operator's disconnect command reaches a pod that has a client for the slot.
\* The consumer handles one command at a time.  Disconnect: the client is closed,
OperatorClose(p, s) ==
    /\ "operator" \in Inputs /\ up[p] = "up" /\ link[p][s] # "none"
    /\ \A t \in Slots : ~At(p, t, "operator-mark") /\ ~At(p, t, "operator-row")
    /\ SetLink(p, s, "closed")
    /\ Begins(p, s, "operator-mark")
    /\ UNCHANGED <<rows, jid, device, up, entry, qr, todo, job>>

\* its status is set,
OperatorMark(p, s) ==
    /\ At(p, s, "operator-mark")
    /\ SetMem(p, s, "disconnected")
    /\ Goes(p, s, "operator-mark", {"operator-row"})
    /\ UNCHANGED <<rows, jid, device, up, qr, client, todo, job>>

\* and the row's; the entry stays.
OperatorRow(p, s) ==
    /\ At(p, s, "operator-row")
    /\ SetStatus(p, s, "disconnected", NoJid)
    /\ Goes(p, s, "operator-row", {})
    /\ UNCHANGED <<device, up, entry, qr, client, todo, job>>

-----------------------------------------------------------------------------
Process(p) ==
    \/ Start(p) \/ Crash(p) \/ Signal(p) \/ CloseClients(p) \/ Release(p) \/ Exit(p)

BringUp(p, w, s) ==
    \/ MarkClaimed(p, w, s) \/ BringCheck(p, w, s) \/ BringDevice(p, w, s)
    \/ BringResume(p, w, s) \/ BringMark(p, w, s) \/ BringRead(p, w, s)
    \/ BringRow(p, w, s) \/ BringLog(p, w, s) \/ BringPanics(p, w, s)
    \/ BringPair(p, w, s) \/ BringMarkQR(p, w, s)

\* The steps a goroutine that runs on the slot takes of itself.
Callback(p, s) ==
    \/ ConnectedMark(p, s) \/ ConnectedRead(p, s) \/ ConnectedRow(p, s)
    \/ PersistRead(p, s) \/ PersistSession(p, s)
    \/ DroppedMark(p, s) \/ LoggedOutMark(p, s) \/ LoggedOutRow(p, s)
    \/ ShowQR(p, s) \/ EmitQR(p, s) \/ HideQR(p, s)
    \/ ExpireClear(p, s) \/ ExpireRow(p, s) \/ ExpireEvict(p, s)
    \/ OperatorMark(p, s) \/ OperatorRow(p, s)

\* What the phone, the network and the operator do.
External(p, s) ==
    \/ LogIn(p, s) \/ Drop(p, s) \/ Redial(p, s) \/ LogOut(p, s)
    \/ QRCode(p, s) \/ Pair(p, s) \/ QRTimeout(p, s) \/ QRError(p, s)
    \/ OperatorClose(p, s)

Next ==
    \/ \E s \in Slots : Expire(s)
    \/ \E p \in Pods : Process(p) \/ Heartbeat(p) \/ Claim(p) \/ NextClaimed(p)
    \/ \E p \in Pods, s \in Slots :
        CreateConnection(p, s) \/ Callback(p, s) \/ External(p, s)
    \/ \E p \in Pods, w \in Workers, s \in Slots : BringUp(p, w, s)

Spec == Init /\ [][Next]_vars

\* Time passes, goroutines that can run do, and the claimer and the heartbeat keep
\* their rounds.  That a statement, a Connect and a publish return or fail is assumed:
\* the code gives them no deadline.
Fairness ==
    /\ \A s \in Slots : WF_vars(Expire(s))
    /\ \A p \in Pods :
        /\ WF_vars(Claim(p)) /\ WF_vars(NextClaimed(p)) /\ WF_vars(Heartbeat(p))
        /\ WF_vars(CloseClients(p)) /\ WF_vars(Release(p)) /\ WF_vars(Exit(p))
        /\ \A s \in Slots :
            /\ WF_vars(Callback(p, s))
            /\ WF_vars(LogIn(p, s)) /\ WF_vars(Redial(p, s))
            /\ \A w \in Workers : WF_vars(BringUp(p, w, s))

FairSpec == Spec /\ Fairness

-----------------------------------------------------------------------------
\* A client that is live belongs to the pod its row names, so that a slot's session
\* is never live on two pods, though callbacks write late to rows that others own.
LiveIsOwned ==
    \A p \in Pods, s \in Slots : link[p][s] = "live" => rows[s].pod = p

\* Worker w is past the check of Bring with slot s.
Past(p, w, s) ==
    /\ job[p][w].step \in Steps \ {"mark-claimed", "check"}
    /\ job[p][w].slot = s

\* Whoever brings a slot up on a pod, the entry gets one client: two workers are
\* never both past the check, and none finds a client it did not make.
OneClient ==
    \A p \in Pods, s \in Slots :
        /\ Cardinality({w \in Workers : Past(p, w, s)}) =< 1
        /\ (\E w \in Workers : Doing(p, w, "device", s)) => link[p][s] = "none"

\* A row that says connected has a jid, whoever writes it and however late.
ConnectedHasJid == \A s \in Slots : rows[s].status = "connected" => jid[s] # NoJid

\* The jid of a stored session gives way to no other device that is paired, whichever
\* callbacks come late.  That of a device which was unlinked after a callback read it
\* may replace it still.
SavedStays ==
    [][\A s \in Slots : Stored(s) /\ jid'[s] # jid[s] =>
        jid[s] \notin device'[s] \/ jid'[s] \notin device'[s]]_vars

\* The timeout of a QR code evicts what timed out: never an entry that is being brought
\* up anew, pairs, or is live, though the row was free before the entry was gone.
EvictsExpired ==
    [][\A p \in Pods, s \in Slots : ExpireEvict(p, s) =>
        /\ link[p][s] \in {"closed", "none"}
        /\ \A w \in Workers : ~Past(p, w, s)]_vars

\* The session of a pod that died comes back to life on another one, without a new
\* pairing, unless the pod itself is started again or no other pod runs.
Failover ==
    \A p \in Pods, s \in Slots :
        (rows[s].pod = p /\ ~Running(p) /\ Stored(s)) ~>
            \/ \E q \in Pods : link[q][s] = "live"
            \/ ~Stored(s)
            \/ Running(p)
            \/ \A q \in Pods \ {p} : ~Running(q)

\* A claim is followed through: a slot the claimer has claimed comes to a client that
\* pairs, logs in or is live, whatever statement fails and though the row may be
\* written or taken meanwhile, unless the pod dies.  An operator's command, a logout, a
\* QR channel that ends and a Connect that fails leave a slot without one.
ClaimedComesUp ==
    \A p \in Pods, s \in Slots :
        (\E r \in todo[p] : r.slot = s) ~>
            \/ ~Running(p)
            \/ link[p][s] \in {"pairing", "authing", "live"}

-----------------------------------------------------------------------------
\* The steps of the QR reader that may still evict the entry.
Expiring == {"expire-clear", "expire-row", "expire-evict"}
Reading == Expiring \cup {"qr-wait"}

\* The entry of a slot has one keeper, the worker that brings it up or the reader that
\* waits for its pairing, and stays as long as it has one.  A worker that is about to
\* make the client finds none; an entry about to be evicted has a closed one.
Kept(p, s) ==
    /\ \A w, v \in Workers : Past(p, w, s) /\ Past(p, v, s) => w = v
    /\ \A a, b \in Reading : At(p, s, a) /\ At(p, s, b) => a = b
    /\ \A w \in Workers, a \in Reading : ~(Past(p, w, s) /\ At(p, s, a))
    /\ \A w \in Workers : Past(p, w, s) => Owns(p, s)
    /\ \A a \in Reading : At(p, s, a) => Owns(p, s)
    /\ \A w \in Workers : Doing(p, w, "device", s) => link[p][s] = "none"
    /\ \A a \in Expiring : At(p, s, a) => link[p][s] = "closed"

\* The inductive invariant behind the properties of the manager.
ManagerInv ==
    /\ TypeOK
    /\ \A p \in Pods, s \in Slots : Kept(p, s)
    /\ \A p \in Pods, w \in Workers : job[p][w].step = "row" => job[p][w].jid # NoJid
    /\ ConnectedHasJid

-----------------------------------------------------------------------------
\* No operator's command, creation or shutdown writes the row of a slot that is at work.
Undisturbed == Inputs \cap {"create", "operator", "shutdown"} = {}

\* The row is p's, and no claim takes it.
Leases(p, s) == rows[s].pod = p /\ Active(s) /\ ~Stale(s)

\* The claimer of p has claimed the row and not brought it up,
Listed(p, s) == \E r \in todo[p] : r.slot = s
Wanted(p, s) == Listed(p, s) \/ Doing(p, "claimer", "check", s)

\* is making the client,
Making(p, s) == \E step \in {"device", "resume", "pair", "mark-qr"} : Doing(p, "claimer", step, s)

\* or a callback or a reader is about to free the row.
Clearing == {"loggedout-mark", "loggedout-row", "expire-clear", "expire-row",
             "operator-mark", "operator-row"}
Clears(p, s) == \E a \in Clearing : At(p, s, a)

\* The pod works on the session.
Busy(p, s) ==
    \/ Making(p, s) \/ Clears(p, s) \/ At(p, s, "qr-wait")
    \/ link[p][s] \in {"new", "pairing", "authing", "live", "dropped"}

\* The pod has the lease of what it wants or works on, and never both of a slot at once.
\* Whoever is about to free the row is alone with a closed client.
Held(p, s) ==
    /\ Wanted(p, s) \/ Busy(p, s) => Leases(p, s) /\ Running(p)
    /\ ~(Wanted(p, s) /\ Busy(p, s))
    /\ ~(Listed(p, s) /\ Doing(p, "claimer", "check", s))
    /\ \A r, t \in todo[p] : r.slot = s /\ t.slot = s => r = t
    /\ Clears(p, s) => /\ link[p][s] = "closed" /\ ~Making(p, s)
                       /\ ~At(p, s, "qr-wait") /\ ~At(p, s, "expire-evict")
    /\ \A a, b \in Clearing : At(p, s, a) /\ At(p, s, b) => a = b
    /\ Doing(p, "claimer", "resume", s) \/ Doing(p, "claimer", "pair", s) => link[p][s] = "new"
    /\ Doing(p, "claimer", "mark-qr", s) \/ At(p, s, "qr-wait") => link[p][s] = "pairing"

\* The pod brings up what it claims and nothing else.
ClaimsOnly(p) ==
    /\ up[p] \in {"down", "up"}
    /\ job[p]["http"] = NoJob /\ job[p]["claimer"].step # "mark-claimed"

\* The inductive invariant behind LiveIsOwned.
OwnerInv ==
    /\ ManagerInv
    /\ \A p \in Pods : ClaimsOnly(p)
    /\ \A p \in Pods, s \in Slots : Held(p, s)

-----------------------------------------------------------------------------
\* The pod that wants the slot, makes its client, pairs it or is logged in with it, or is
\* about to free its row.  What is left to do otherwise does not serve the slot and may
\* outlast that: Bring and callbacks that read or write the jid after a logout, the
\* eviction after a timeout, and the publishing of a code.
Serves(p, s) == Wanted(p, s) \/ Busy(p, s)

Server == [s \in Slots |-> IF \E p \in Pods : Serves(p, s)
                            THEN CHOOSE p \in Pods : Serves(p, s)
                            ELSE NoPod]

Lease == INSTANCE SlotLease WITH holder <- Server

\* While nothing disturbs the rows, the manager keeps the promise the claim transaction
\* makes, in what its goroutines do: from the claim through the client and its session up
\* to the write that frees the row, a slot is served by the pod that claimed it when
\* nobody served it, and never passes straight to another one.
ImplementsSlotLease == Lease!Spec

-----------------------------------------------------------------------------
\* A slot whose session is stored is not asked to pair again, whichever pod dies and
\* whichever brings it up: what README.md:123 promises as far as it is true.  The session
\* of a device that was paired is stored when its jid has been written; a jid written
\* late in its place, which SavedStays allows for, ends that.
StoredIsResumed == \A p \in Pods, s \in Slots : link[p][s] = "pairing" => ~Stored(s)

\* Besides, the device can be read.
Readable == Undisturbed /\ "deviceError" \notin Inputs

LoggedIn == {"authing", "live", "dropped"}

\* What the claimer read of a stored session is its jid, and it does not pair.
Remembers(p, s) == Stored(s) =>
    /\ \A r \in todo[p] : r.slot = s => r.jid = jid[s]
    /\ Doing(p, "claimer", "check", s) \/ Doing(p, "claimer", "device", s)
            => job[p]["claimer"].jid = jid[s]
    /\ ~Doing(p, "claimer", "pair", s) /\ ~Doing(p, "claimer", "mark-qr", s)
    /\ link[p][s] # "pairing"

\* A client with a session is at work over a device that is paired, the stored one if
\* there is one.
OverPaired(p, s) ==
    /\ HasSession(p, s) =>
        /\ link[p][s] \in {"new"} \cup LoggedIn
        /\ id[p][s] \in device[s]
        /\ Stored(s) => id[p][s] = jid[s]
    /\ Doing(p, "claimer", "pair", s) => ~HasSession(p, s)

\* Of a device that is still paired, only the pod whose client is over it has a jid to
\* write.
WritesOwn(p, s) ==
    /\ \A w \in writes[p] : w.slot = s /\ w.jid \in device[s] => id[p][s] = w.jid
    /\ Doing(p, "claimer", "row", s) /\ job[p]["claimer"].jid \in device[s]
            => id[p][s] = job[p]["claimer"].jid

\* The inductive invariant behind StoredIsResumed and SavedStays: whoever writes the jid
\* of a device that is paired is alone at work on the slot.
ResumeInv ==
    /\ OwnerInv
    /\ \A p \in Pods, s \in Slots : Remembers(p, s) /\ OverPaired(p, s) /\ WritesOwn(p, s)

-----------------------------------------------------------------------------
\* What the repository says of the manager and TLC refutes.

\* A slot's session is live on one pod at most ("ownership with zero race
\* conditions", README.md:9).
AtMostOneLive ==
    \A s \in Slots : \A p, q \in Pods : link[p][s] = "live" /\ link[q][s] = "live" => p = q

\* A QR code that timed out makes room for a fresh one ("The claimer will find the
\* disconnected row and call Bring again, starting a fresh QR cycle automatically",
\* manager.go:195).
QRRestarts ==
    \A p \in Pods, s \in Slots :
        (up[p] = "up" /\ At(p, s, "expire-evict") /\ rows[s].pod = p) ~>
            \/ up[p] # "up"
            \/ entry[p][s] = "connecting"
            \/ rows[s].pod # p

\* A paired device is not asked to pair again ("the phone reconnects automatically
\* - no re-scan needed", README.md:123).
NoRescan ==
    \A p \in Pods, s \in Slots : link[p][s] = "pairing" => device[s] = {}

\* A slot the pod has claimed is brought up ("Periodically claims connection slots
\* from the DB and brings them up", claimer.go:12): its entry does not stay without
\* a client that pairs, logs in or is live, unless the row goes elsewhere.
BroughtUp ==
    \A p \in Pods, s \in Slots :
        (up[p] = "up" /\ rows[s].pod = p /\ rows[s].status = "claimed") ~>
            \/ up[p] # "up"
            \/ rows[s].pod # p
            \/ link[p][s] \in {"pairing", "authing", "live"}

\* A QR code is shown only while the slot pairs ("current QR string, only while
\* status=qr", manager.go:46; "404 when not in QR state", README.md:232).
QROnlyWhileQR ==
    \A p \in Pods, s \in Slots : qr[p][s] => entry[p][s] = "qr"
=============================================================================
