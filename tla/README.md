# A verification of llm-rpg-bot

TLA+ specifications of the WhatsApp bot in this repository: a Go gateway that holds
phone sessions, a Python bot that answers messages, a management service, and
PostgreSQL, Redis, Kafka and Chroma between them.  TLC checks the specifications on small
instances; TLAPS proves their safety properties for all instances.

Paths are relative to the root of the repository.  `G` stands for
`services/whatsapp-gateway`, `B` for `services/llm-bot/app`, `M` for
`services/management`.

## 1. The system

| Component | State | Operations | Talks to |
|---|---|---|---|
| Connection store (`G/internal/db/store.go`, `G/migrations`) | the table `whatsapp_connections` (status, pod_id, jid, last_seen) and `message_logs` | ClaimConnections, Heartbeat, SetStatus, ReleaseAll, CreateConnection, LogMessage, SaveSession, GetConnection | every pod, through PostgreSQL |
| Claimer (`G/internal/whatsapp/claimer.go`) | two tickers and one goroutine | Run, claimOnce | store, manager (Owns, Bring) |
| Connection manager (`G/internal/whatsapp/manager.go`) | `conns`: entries with status, QR code and whatsmeow client | Bring, startQR, the event callbacks, onMessage, SendText, Disconnect, CreateAndBring, Shutdown, evictConn, Snapshot, QRCode | claimer, HTTP handler, whatsmeow callbacks, command consumer, QR readers, all in goroutines of their own |
| Process (`G/main.go`) | the context of the process | start, graceful shutdown, the handler of commands | all of the above |
| Command consumer (`G/internal/kafka/consumer.go`) | the offsets polled and not committed | Run: poll, handle, commit | Kafka, manager.Disconnect |
| Producer (`G/internal/kafka/producer.go`, `events.go`) | none | PublishInbound, PublishEvent | Kafka |
| gRPC client (`G/internal/grpc/client.go`) | none | Process | bot |
| HTTP server (`G/internal/server/http.go`) | none | create, list, QR code, health | manager |
| Bot servicer (`B/grpc/servicer.py`, `B/idempotency.py`) | a key per event in Redis | Process; claim, release | Redis, RAG, Ollama |
| Ollama client (`B/llm/ollama_client.py`), RAG (`B/rag/pipeline.py`) | the index | stream, generate, ensure_model; load, retrieve | Ollama |
| Bot Kafka bus and processor (`B/kafka/bus.py`, `B/processor.py`) | the position of the consumer | run, handle | Kafka, Redis; no longer started by `B/main.py` |
| Management API (`M/api/app`) | none | list, create, disconnect, analytics | gateway over HTTP, Kafka, PostgreSQL |
| Web interface (`M/frontend`) | the list of the page, the QR modal and its poll | load, link, show, poll | management API |

### What is hard about it

* **Ownership.** Pods agree on who serves a slot through rows that each of them reads,
  locks, refreshes and writes. A pod cannot tell a dead peer from a slow one; the only
  evidence is `last_seen`. Claims, heartbeats and bring-ups of a pod share one
  goroutine; everything else runs beside it.
* **Late writes.** Callbacks, QR readers and operator commands write a row by id,
  whoever owns it by then, and update memory and row in separate steps. The jid they
  write was read from the client before the statement, and may be out of date.
* **Failure in the middle.** A pod dies between any two steps; a statement, a device
  read or a Connect fails; a call is cut off after its claim.
* **Delivery.** WhatsApp and Kafka deliver again; a consumer group moves partitions
  between the poll and the commit.
* **Progress.** A dead pod's session must come back, slots must not starve behind a
  batch limit, a handler may not hang of itself.

What makes each component correct:

| Component | Properties |
|---|---|
| store and claimer | concurrent claims never take the same row, and what a claim read still holds when it commits; a lease in use never looks stale and is never taken; a disconnected slot is brought up in the end |
| manager | a live client belongs to the pod its row names; an entry gets one client; a connected row has a jid; a stored session is not asked to pair again, and its jid gives way to no other paired device's; a timeout evicts what timed out; the session of a dead pod comes back |
| hot path | a message is answered at most once; a claim is given up only when that is safe; the log tells the truth; a handler ends when everyone it waits for answers |
| commands | no command is passed over but for those that fall to a fetch error, offsets do not go back, every other command comes to a handler |
| bot bus | an event is answered at most once, a claim tells the truth, no event is passed over, nothing blocks a partition |
| dashboard | the list settles on the truth, a slot that was created comes to be seen, a code that stays comes to be shown |
| RAG | no passage falls between two chunks, the bot comes up |

`PROJECT.json` lists the hazards one by one, with the line where each bites and the
property that covers it.

## 2. The modules

| Module | What it is | Code |
|---|---|---|
| `ConnStore` | the table and its SQL statements, as operators that return the table they leave | `store.go`, `001_init.sql` |
| `SlotLease` | abstract: a slot is leased to one pod at a time and only a free slot is granted; `ClaimLease` implements it, and so does `Gateway` while nothing disturbs its rows | what the README of the repository promises of claims |
| `ClaimLease` | the claim and heartbeat protocol with time, over `ConnStore` | `claimer.go`, the row writes of `manager.go`, `main.go` |
| `ClaimLeaseProofs` | theorems about `ClaimLease` | |
| `Gateway` | the manager at the grain of locks and statements, over `ConnStore` | `manager.go`, `claimer.go`, `main.go`, `http.go` |
| `ReplyPath` | a message from its delivery to the reply, gateway and bot together | `onMessage`, `SendText`, `client.go`, `servicer.py`, `idempotency.py` |
| `SingleAnswer` | abstract: an answer to an event is undertaken by one at a time, given once, and never undertaken again after it was given or cut off; `ReplyPath` and `BotBus` implement it | what README.md:192 promises of the claims in Redis |
| `ReplyPathProofs` | theorems about `ReplyPath` | |
| `KafkaGroup` | a topic and a consumer group, as the clients rely on them (external) | |
| `CommandBus` | operator commands over `KafkaGroup` | `connections.py`, `M/api/app/kafka/producer.py`, `consumer.go`, the handler of `main.go` |
| `BotBus` | the bot as a consumer of the inbound topic, over `KafkaGroup` | `B/kafka/bus.py`, `processor.py`, `idempotency.py`, `ollama_client.py` |
| `Dashboard` | what an operator sees of the slots | `Dashboard.tsx`, `client.ts`, `connections.py`, `http.go`, Snapshot and QRCode |
| `Chunking` | the windows of a text, as operators | `_chunk_text` of `B/rag/pipeline.py` |
| `RagIndex` | documents, collection, start and seeding, over `Chunking` | `pipeline.py`, `seed_rag.py`, the seed in `B/main.py` |
| `GatewayProofs`, `GatewayOwnerProofs` | theorems about `Gateway` | |
| `CommandBusProofs`, `BotBusProofs`, `DashboardProofs` | theorems about these modules | |
| `RagIndexProofs` | theorems about `Chunking` and `RagIndex` | |
| `MCClaimLease`, `MCGateway`, `MCReplyPath`, `MCCommandBus`, `MCBotBus`, `MCDashboard`, `MCRagIndex` | instances for TLC | |

Operators named `...Mutant` stand next to the definition they vary.  They are the
plausible bugs each property was tried against, are used by no specification, and a
property is kept only if one of them breaks it.

### ConnStore

A row has a status, an owner and an age. `last_seen` is kept as its age in ticks, cut
off one tick past the staleness window, beyond which no statement tells ages apart. A
NULL `last_seen` is that age too: the claim query treats it alike (`IS NULL OR <`), and
ties in ORDER BY are left open, so the order NULLS FIRST within the cut-off age is one
of those the model allows. `Claimable`, `ClaimChoices` and `ClaimedRows` are the WHERE,
the ORDER BY with LIMIT and the UPDATE of ClaimConnections; `StatusRows` is SetStatus,
which tests and writes no owner.

### ClaimLease

`pc` is where Claimer.Run stands. Select, claim transaction, commit and the loop over
the claimed rows are separate steps. FOR UPDATE SKIP LOCKED is `FreeRows`; the wait of
any other statement for a row lock is `MayWrite`. `Tick` advances every clock at once.
A ticker has a channel of one: a tick that finds it full is lost, as in Go. `MustRun`
says what the claimer does before time passes; only `bring` (network calls) takes time,
at most `MaxClaim` ticks. All other writers of a row (callbacks, timeout, creation,
shutdown) interleave freely. A creation is three steps, and a QR timeout two.

Assumed: a transaction and the scheduling of a ready goroutine take less than a tick; a
claim round takes at most `MaxClaim` ticks; at most `MaxMissed` heartbeats in a row
fail. Distinct pods have distinct POD_IDs (`.env.example:21`).

### Gateway

A step is what one goroutine does between two releases of `m.mu` or two statements.
`entry` and `qr` are the fields of ConnState, `link` the state of its client and `id` its
`Store.ID`, `job` the Bring or CreateAndBring the claimer and the HTTP handler are in,
`tasks` the callbacks, QR readers and commands under way. `jid` is the column of the row
and `device` the devices of the slot in whatsmeow's tables. A jid is a value of `Jids`;
each pairing has one that nothing knows yet (`Fresh`), so a row may have the jid of a
device the phone unlinked, of one that is paired and not the newest, or none. What
callbacks and Bring write is read first and written later, in two steps (`ConnectedRead`
and `ConnectedRow`, `PersistRead` and `PersistSession`, `BringRead` and `BringRow`);
`writes` has the callbacks in between, each with the jid it read. By the time of the write
the device may be unlinked and the row be another pod's, and SetStatus puts the jid it is
given over the one in the row. A claim hands on the jid it read, and Bring makes a client
over that device if it is still there. The claim transaction, which `ClaimLease` takes
apart, is one step here, and staleness is two-valued: a row turns stale only when no
running pod leases it, which is what `LeaseFresh` of `ClaimLease` shows under
`ClaimFitsLease`. `Inputs` selects what the environment does, so that an instance can
have many kinds of failure and stay small. Slots do not interact in the manager, whose
map is keyed by id and whose statements write one row, so one slot is enough.

The QR reader publishes each code and waits for Kafka before it reads on (`EmitQR`).
Bring reads `client.Store.ID` after Connect, for the row and again for the log; a logout
in between makes it nil and the process dies of the panic (`BringPanics`). In a callback
whatsmeow recovers the panic. After SIGTERM the HTTP server goes on to serve creations,
whose statements run on the context of the request, until the shutdown is over. The command consumer handles one command at a
time.

whatsmeow is external: a client that was given a device logs in, is dropped, is logged
out by the phone, or pairs; each event runs its callback in a goroutine.

### ReplyPath

A delivery is a run of onMessage (`gateway`) with the call it makes (`bot`). Any step of
either may be the last: the pod dies (`Crash`), the call is cut off (`CutOff`), Redis
gives no answer and the command has run or not (`MayClaim`, `MayRelease`). What is
abstracted: the text of a reply is empty or not; DeterministicEventID gives all
deliveries of a message one event; a key in Redis outlives the deliveries of its event.

### CommandBus and KafkaGroup

`uncommitted` is what the franz-go client notes at a poll and CommitUncommittedOffsets
commits. It is dropped when a partition is revoked. A rebalance may happen at any
moment. The API answers `command_sent` whether or not the record reached the topic, so
a record that did not is no step. Of the manager only who has an entry is kept. A poll
with an error of one partition beside records of others drops those records
(`PollError`): the position moves past them; they are `skipped`. `Observed` says what an
instance keeps of the handlers for the properties section 4 refutes; nothing else depends
on it.

### BotBus

The second way into the bot: `app/main.py` starts the gRPC server in its place, but the
code and its tests are there and share the claims in Redis. `step` says where run or
handle of a member is. Poll, claim, retrieve, each attempt of generate, send, flush,
release and commit are steps of their own; a rebalance or a death may come at any of
them, since a handler may outlast what the group waits for. A record is an event,
`Poison` (no JSON) or `Blank` (no event_id or no body). `Faults` selects which of Redis,
retrieval, Ollama and Kafka may fail; `severed` notes the events whose answer was cut
off after their claim. The position moves on when a handler raises, as in the client.

### Dashboard

The page, its modal and its button are modelled in full. What is behind the API is the
row, the entry and the code of a slot, which change in any way at all, as often as
`MaxChanges` allows: more than `Gateway` permits, so that what holds here does not
depend on the manager. A request is kept with what was read for it, in the order of the
reads (pod first, table second), and answers come in any order. A request for the list
that fails (the API raises when the table cannot be read) leaves the list as it is and
shows a message; it is left out. `closure` is the code
the effect of QRModal saw when it ran.

### Chunking and RagIndex

`Windows(n, size, overlap)` are the parts a text of `n` characters is cut into.
`RagIndex` has texts as sequences of two letters and a blank, which is enough for texts
that repeat a chunk. Chroma is external: a chunk's id is the pair of file and text, which
the hash stands for, and an upsert in which an id comes twice is refused.

## 3. What is checked

| Run | Instance | Shows |
|---|---|---|
| `LeaseOneSlot` | 2 pods, 1 slot, heartbeat 2, claim 2, round 1, staleness 5, 1 missed beat | types; `ClaimsDisjoint`, `ClaimStillValid`; `LeaseFresh`, `LeaseKept`; the protocol implements `SlotLease` |
| `LeaseTwoSlots` | 1 pod, 2 slots, batch 1, heartbeat 2, claim 2, round 0, staleness 2, fair | `NoSlotStarves`: ORDER BY last_seen is what keeps a batch limit fair |
| `GatewaySessions` | 2 pods, 1 slot, 2 jids; crash, logout, QR timeout and error, connect error, failing statements | types; `LiveIsOwned`, with callbacks that write rows of other pods; `StoredIsResumed`: a session that is stored is not asked to pair again; `SavedStays`: its jid gives way to no other device that is paired |
| `GatewayOnePod` | 1 pod, 1 slot, 2 jids; creation, operator, shutdown, logout, QR timeout, failing statements, devices and connects | `OneClient`, `ConnectedHasJid`; `EvictsExpired`: the timeout of a QR code evicts nothing that was brought up anew |
| `GatewayFailover` | 2 pods, 1 slot, 1 jid; crash, drop, failing statements; fair | `Failover`: the session of a dead pod is live again without a new pairing; `ClaimedComesUp`: a claim is followed through |
| `Replies` | 2 events, 2 deliveries, fair | types; `RepliedOnce`, `ReleaseIsSafe`, `OutboundWasSent`; `ImplementsSingleAnswer`: the hot path implements `SingleAnswer`; `OrphanedByCut`: only a cut-off, a death or a refused reply leaves a message claimed and unanswered; `HandlerEnds`, when everyone answers |
| `Commands` | 2 pods, 2 partitions, 2 commands in one of them, fetch errors, fair | types; `DispatchedBeforeCommit`, `CommittedAdvances`, `EveryCommandDispatched` |
| `Inbound` | 2 members, 1 partition, 2 records, 1 event, all faults, fair | types; `AnsweredOnce`, `ClaimExplained`, `PassedIsSettled`; `EveryRecordHandled` |
| `Dashboard` | 1 slot, 1 code, 2 requests for the list, 1 poll, 1 link, 2 changes, fair | `PageInv`, with the types; `ListSettles`, `CreatedIsSeen`, `CodeShown` |
| `Rag` | 2 files of 9 texts, size 3, overlap 1, 1 new image, fair | `PassagesWhole`, `BotComesUp` |

Each of these finishes without an error. Bounds and why they are enough:

* Two pods are what every ownership conflict needs. A third can show more: a claim by a
  third pod between two late writes of the first and the second is out of reach of two.
  That is why the safety properties are proved for any number of pods (section 5);
  `ResumeInv` and `SavedStays` were also tried on three, with crashes and logouts, as far
  as 3 million states.
* The intervals fit the staleness window with nothing to spare (`ClaimFitsLease` with
  equality); the defaults (10 s, 15 s, 30 s) nearly do for a claim round of 9 s and one
  lost heartbeat. `LeaseOneSlot` has the lost heartbeat, the claim rounds that hold a
  heartbeat up and the peer that would take the slot. That a round on one slot ages the
  lease of another to the last tick needs a second slot: `LeaseTwoSlots` with
  `MaxClaim = 1`, `Staleness = 3` and the invariant `LeaseFresh` has it, and one tick less
  of staleness breaks it; for every size it is `LeasesStayFresh`.
* Ages, timers and missed beats are bounded by construction, so the state spaces are
  finite without a constraint. In `CommandBus` `MaxCommands` bounds a partition's log;
  two commands are one that is committed and one that is not.
* A poll that loses records needs two partitions, one with the error and one with records;
  that the topic has six (`infra/kafka-topics.md`) adds more of each. What was skipped is
  the exception of `DispatchedBeforeCommit` and `EveryCommandDispatched`; without it both
  fail (see `AtLeastOnce` below).
* Two jids are what a late write needs: the one that was read and the one it replaces.
  A third pairing has no fresh jid in these instances; the proofs of
  section 5 have any number. `GatewayFailover` never pairs a stored slot anew, so it has one.
* Two records of one event are what a duplicate needs; `Inbound` also holds with three
  records (1.05 million states) and with two events (605 thousand). Two members are what
  a rebalance in the middle of a handler needs.
* Two requests for the list are what overtaking needs. The list, the modal and the button
  meet only through the slot, so one slot is enough for them; that a late answer switches
  the modal to another slot needs a second one: `CodeShown` and `PageInv` also hold with
  two slots, one request for the list and one change (528 thousand states), and `PageInv`
  is proved for any number. Two changes are one before
  and one after a read.
* The nine texts are blank, shorter than a chunk, of several chunks with a last one full
  or cut off, and one, `<<A, B, A, B, A>>`, has the same chunk twice.
* Symmetry of the pods is used in runs of invariants, action properties and the
  refinement, all symmetric in the pods; runs of liveness use none. Every run checks
  deadlock.

### Fairness

Goroutines that can run do (weak fairness of callbacks, bring-ups, the steps of a
consumer or servicer). `ClaimLease` asks for strong fairness of time, heartbeats and
claims, because they are interrupted by handlers that hold a row for a moment: a ticker
fires again and again and PostgreSQL grants a waiting lock. Of the claims that are tried
for ever, one for each slot that is tried for ever commits. Nothing external is fair:
no message, pairing, operator or crash ever has to happen, and a pod that died need not
come back. `LogIn` and `Redial` are fair as whatsmeow retries them.

The code gives most of its calls no deadline: the gRPC client calls on the context of the
process (`client.go:35`), the Redis client is made without a socket timeout
(`idempotency.py:18`), and statements, commits and publishes wait as long as they must.
So no such call is taken to end, but for the last of these assumptions. That they end is a
premise of the properties that need it, and the fairness of those modules has only steps
that wait for nobody or have a timeout:

* `HandlerEnds` holds under `EveryoneAnswers`: nothing in `Waits` (the bot, Redis,
  retrieval, Ollama, WhatsApp, the table) stays silent for ever, by an answer or by an
  error, and the brokers come back again and again; `Publish` is strongly fair. What it
  shows is that onMessage has no other way to hang.
* `EveryRecordHandled` holds under `SettledGroup` of `BotBus`: members and partitions stay
  where they are from some time on, and neither Redis nor a commit keeps a member waiting
  for ever. Ollama and the flush of the producer have timeouts (`config.py:27`, `bus.py`),
  so those steps are fair.
* `EveryCommandDispatched` holds under `SettledGroup` of `CommandBus`: the group settles,
  and no handler and no commit keeps a pod for ever.
* `Failover` and `ClaimedComesUp` rest on the fairness of `Gateway`, which assumes that a
  statement, a Connect and a publish return or fail. This is an assumption about
  PostgreSQL, WhatsApp and Kafka; the code does not see to it.

In `Dashboard` the intervals fire and requests are answered or time out; no slot has to
change, no click to happen. In `RagIndex` the container is started again until the bot is
up (`restart: unless-stopped`).

## 4. What TLC refutes

Statements of the repository the code does not live up to. Two have a run that is
expected to fail:

* `GatewayOperator` refutes `AtMostOneLive` (README.md:8-9). Disconnect closes a client
  before Bring connects it; the row says disconnected, another pod claims it, and the
  session is live twice.
* `CommandsMisrouted` refutes `LeftToOwner` (`infra/kafka-topics.md:55-57`). All pods are
  in one group; the pod that gets the command and does not own the slot commits it, and
  the owner never sees it.

The others are in the modules, each refuted by an instance that differs from a run by a
few constants:

| Property | Statement | Instance that refutes it |
|---|---|---|
| `ReconnectsAfterRestart` | "After a gateway restart the phone reconnects automatically", README.md:123 | `LeaseTwoSlots` with one slot: a pod restarted under its POD_ID, the default of `docker-compose.yml`, finds its rows claimed in its own name; the claim query skips them (`store.go:105`) and its heartbeat keeps peers away |
| `LeaseKept` | "keeps ownership fresh so peers don't steal our slots", `claimer.go:36` | `LeaseOneSlot` with `MaxClaim = 4`, `MaxMissed = 0`, `Staleness = 3`: a claim round longer than the window silences the heartbeat |
| `CreatorAlone` | "so the claim loop doesn't also grab it", `manager.go:354` | `LeaseOneSlot`: SetStatus writes no pod_id |
| `AtMostOneLive` | the same as above | `GatewayOperator` with `Inputs = {"shutdown"}`: the release overtakes a Bring |
| `QRRestarts` | "The claimer will find the disconnected row and call Bring again", `manager.go:195` | `GatewayFailover` with one pod, `Inputs = {"qrTimeout"}`, no check of deadlock: a claim between the two steps of the timeout skips the slot as still owned; the entry is then evicted and the row stays claimed |
| `BroughtUp` | "brings them up", `claimer.go:12` | the same with `Inputs = {"connectError"}`: a failed Connect leaves the entry, which every later claim skips |
| `NoRescan` | "no re-scan needed", README.md:124 | `GatewayOnePod` with `Inputs = {"deviceError"}`. What is left of the promise is `StoredIsResumed`: when the device can be read, only a session whose jid was not written yet is asked to pair again |
| `QROnlyWhileQR` | "only while status=qr", `manager.go:46` | `GatewayOnePod` with `Inputs = {"operator"}` |
| `SkippedIsAnswered` | "skips already-answered events", README.md:192 | `Replies` with one event: a call that is cancelled keeps its claim, and all later deliveries are skipped as answered |
| `KafkaNotCritical` | "not in the response critical path", README.md:185 | `Replies` with one event and one delivery: ProduceSync waits for the brokers |
| `FailedNotCommitted` | "Returning an error causes the record to NOT be committed", `consumer.go:12-13` | `Commands` with one pod, one command, `Faults = {"handler"}`, `Observed = {"failed"}` |
| `AtLeastOnce` | "Manual commit after successful handling", `consumer.go:29` | `Commands` |
| `ClosesOnce`, an action property | "idempotency ... makes it safe", `consumer.go:29-30` | `Commands` with one command, `Faults = {}`, `Observed = {"closed"}` |
| `FailedIsRedelivered` | "Do not commit -> message will be redelivered", `B/kafka/bus.py:109` | `Inbound`: the position moves on, and the commit of the next record goes past the failed one |
| `ConnectedIsTrue` | "QR disappeared — phone connected successfully", `Dashboard.tsx:24` | `Dashboard` with two slots and one request for the list: the answer to "Link Phone" switches an open modal to the new slot, the effect sees the code of the old one, and the new slot has none yet |
| `IndexOfDocs` | "RPG docs are chunked, embedded with MiniLM, stored in ChromaDB", README.md:197 | `Rag`: a new image has other documents, and the seed skips a collection that is not empty |

What refutes `ConnectedIsTrue` also clears the interval of the modal, so that `CodeShown`
excepts a modal that was switched to another slot while it showed a code.

`Failover` does not hold with logouts among the inputs: after LoggedOut or an operator's
Disconnect the entry stays, the pod claims its own row again and skips it as managed.
`LiveIsOwned` does not hold with creations, commands or a shutdown among them.

`SavedStays` does not hold without its exception (TLC refutes `jid[s] \notin device'[s]`
alone in `GatewaySessions`, in 24 steps), and the exception costs a re-scan. The
callback of Connected reads the jid of its client (`manager.go:217-218`, or
`persistSession`, 382-385); the phone unlinks the device, and the callback of LoggedOut
frees the row; another pod claims it, pairs a new device and writes its jid; only now the
first callback writes the old one over it (219, 386). Nothing names the new device any
more, and when the second pod dies, the next one asks the phone to pair, though its
session is in whatsmeow's tables. SetStatus tests neither the owner nor what it replaces
(`store.go:157-168`).

## 5. What is proved

`tlapm` checks every leaf with Z3, Zenon and LS4. All theorems are about `Spec` and hold
for any pods, slots, events, deliveries and constants within the named assumptions.

| Theorem | Says | Assumes |
|---|---|---|
| `TypeCorrect` | `Spec => []TypeOK` of `ClaimLease` | `StoreAssumption`, `TimingAssumption` |
| `RowsGrabbedOnce` | `Spec => []ClaimsDisjoint` | the same |
| `ClaimsStayValid` | `Spec => []ClaimStillValid` | the same |
| `LeasesStayFresh` | `Spec => []LeaseFresh` | and `ClaimFitsLease` |
| `LeasesAreKept` | `Spec => LeaseKept` | and `ClaimFitsLease` |
| `ProtocolImplementsSlotLease` | `Spec => Lease!Spec` | and `ClaimFitsLease` |
| `ReplyTypeCorrect`, `AnsweredAtMostOnce`, `RepliesAreClaimed`, `OutboundRowsWereSent` | the invariants of `ReplyPath` | `EventAssumption` |
| `ReleasesAreSafe`, `OrphansComeFromCuts` | `Spec => ReleaseIsSafe`, `Spec => OrphanedByCut` | the same |
| `HotPathImplementsSingleAnswer` | `Spec => ImplementsSingleAnswer` of `ReplyPath` | the same |
| `GatewayTypeCorrect`, `EntriesGetOneClient`, `ConnectedRowsHaveJids` | the invariants `TypeOK`, `OneClient`, `ConnectedHasJid` of `Gateway` | `StoreAssumption`, `GatewayAssumption` |
| `EvictionsAreOfExpired` | `Spec => EvictsExpired` | the same |
| `LiveSessionsAreOwned`, `SessionsAreLiveOnce` | `Spec => []LiveIsOwned`, `Spec => []AtMostOneLive` | and `Undisturbed` |
| `ManagerImplementsSlotLease` | `Spec => ImplementsSlotLease` of `Gateway` | and `Undisturbed` |
| `StoredSessionsResume`, `SavedSessionsStay` | `Spec => []StoredIsResumed`, `Spec => SavedStays` | and `Readable`: `Undisturbed`, and no read of a device fails |
| `CommandsTypeCorrect`, `NoCommandPassedOver`, `OffsetsAdvance` | `TypeOK`, `DispatchedBeforeCommit`, `CommittedAdvances` of `CommandBus` | the assumptions of the module |
| `BotTypeCorrect`, `EventsAreAnsweredOnce`, `ClaimsAreExplained`, `NoEventPassedOver` | the invariants of `BotBus` | the assumptions of the module |
| `ConsumersImplementSingleAnswer` | `Spec => ImplementsSingleAnswer` of `BotBus` | the same |
| `PageInvHolds` | `Spec => []PageInv` of `Dashboard` | `DashboardAssumption` |
| `ListStaysTrue` | a list that is settled is true, and stays settled until a slot changes | the same |
| `ShownCodeStays` | a code that is shown stays while it is the code of the entry | the same |
| `PassageInOneWindow`, `WindowsInText` | a part of a text no longer than the overlap and one character lies in one window, if it fits one; windows are parts of the text and no longer than `size` | nothing |
| `RagTypeCorrect`, `PassagesAreWhole` | `Spec => []TypeOK`, `Spec => []PassagesWhole` of `RagIndex` | `RagAssumption` |
| `IndexIsOfDocs` | `Spec => []IndexOfDocs` | and `MaxDeploys = 0` |

`ClaimFitsLease` is a condition on the configuration, the proof's real finding: the
staleness window must cover the heartbeats that may be lost, one more, and a claim round,
and a round must be shorter than both intervals. With the defaults a claim round has to
end within 9 s, and then one heartbeat may be lost. The code enforces none of it.

**The lease.** `LeaseFresh` is not inductive: that a row is young says nothing of how
long its heartbeat may still be delayed. `LeaseInv` adds `ClaimClock` (a round begins when
the ticker fires and ends before the next, so no claim tick is pending while it runs),
`BeatDelay` (a pending heartbeat has waited no longer than the current round) and
`LeaseAge` (the age of a leased row is at most the missed beats, the timer and the
pending beat, in time). `LeaseOrigin` shows that a lease after a step was one before it
or starts at age 0; `AgeStep` and `BoundTick` carry the bound over every step;
`BoundFits` is the arithmetic that it stays within the window. `LeaseKept` and the
refinement follow: a claim of a row needs it stale or disconnected, and neither is leased
(`KeptStep`, `NoHandover`).

**The reply.** `ReplyInv` adds to the invariants `OneOwner` - at most one call or reply
owns an event, it holds the claim and nothing has been sent yet - `InStep` (where a
delivery, its call and its stream can be at once) and `AnsweredIsClaimed`. A claim needs
the key to be free, which excludes an owner and a reply; only an owner that carries
nothing releases it.

**The manager.** `OneClient` and `EvictsExpired` rest on the same fact, which neither
states: an entry has one keeper at a time, the worker that brings it up or the reader
that waits for its pairing, and stays as long as it has one. That is `Kept`; with the
types, `ConnectedHasJid` and the fact that Bring has a jid when it writes one it is the
inductive invariant `ManagerInv`.

**The owner.** `LiveIsOwned` needs `OwnerInv`: a pod has the lease of every slot it wants
(claimed, not looked at yet) or works on, and never both wants and works on one; whoever
is about to free a row (`Clearing`) is alone with a closed client (`Held`). Leases are
kept by the statements of others (`LeaseOverStatements`, `LeaseStays`), because a claim
takes only rows that nobody leases. `Undisturbed` excludes creations, operator commands
and shutdowns from the inputs. Each of the three breaks it: a creation works on a row
that has no owner, the other two free a row that a Bring is at work on. All other inputs
are allowed, crashes, failing statements, late callbacks and the panic of Bring among
them.

With the same invariant the manager implements `SlotLease`, the promise `ClaimLease`
implements at the level of transactions. The slot is held by the pod that wants it or
works on it (`Server`). Its rows say who that is, so that there is one at most
(`ServerIs`); only a claim makes a pod serve a slot it did not serve, and a claim takes no
leased row. The callbacks and readers that are about to free the row count as work
(`Clearing`) and are over before another pod begins. The others do not: a callback or a
Bring that writes a jid, the eviction after a timeout and the publishing of a code may
outlast the lease. What such a late write may still do to the row is the matter of the
next two theorems.

**The stored session.** `StoredIsResumed` and `SavedStays` need `ResumeInv`. While a
session is stored, what a claimer has read and not looked at, and the Bring it is in, have
its jid, and nobody pairs (`Remembers`). A client that has a session is at work over a
device that is paired, the stored one if there is one (`OverPaired`). Who is about to
write the jid of a device that is still paired has a client over that very device
(`WritesOwn`). Late writes are allowed to come at any time, over rows of other pods; the
last two divide them. A jid whose device was unlinked after it was read is harmless to
`StoredIsResumed`: it can end that a session is stored, never make one so, since a jid is
never given to a second device (`Fresh`); that it may end it is the exception of
`SavedStays`. A jid whose device is paired is written by a pod whose client is over it,
and by `OwnerInv` that pod is alone with the slot (`SessionAlone`): nobody else has read
the row before the write to act on it after, or pairs meanwhile, and what is stored is
the same jid or no session. An operator's command closes a client whose callback still
writes, and is excluded by `Undisturbed`.

**The commands.** `BusInv`: what a client notes for its next commit is how far it was
given the partition (`Tracked`), and what lies between the committed offset and that is
dispatched, skipped for an error of another partition, or in the assignee's poll, which
is empty at a commit. Without the second `AtLeastOnce` above is what is left, and fails.

**The bot bus.** `BotInv`: one member at most has an event between its claim and its
answer (`OneAnswer`), a claim has its reason (`Explained`), and everything behind a
committed offset, a record at hand or a position is settled, but for the record at hand
(`Behind`). A step changes the answer to one event at one member (`AnswerStep`); what is
settled stays settled, since a claim is given up only for a record that failed
(`SettledStays`). A commit by a member that lost its partition may turn the offset back;
`Behind` allows that, for it speaks of every record a member has at hand.

**One answer.** Both ways into the bot implement `SingleAnswer`. The answer to an event is
under way while a call (`ReplyPath`) or a member (`BotBus`) is between its claim and its
answer, open while the key is free, closed otherwise; answers are what was sent or
acknowledged. A crash or a cut-off closes the event it hits (`Close`). The step from an
answer under way to a second one, and from closed to anything, is what `OneOwner` and
`OneAnswer` exclude.

**The page.** `PageInv` says what the handlers of the page rely on without a check: the
list and the modal speak of slots that exist, two clicks never yield one slot, and an
open modal goes on to ask until it says that the phone connected, which it says only when
its effect saw a code, that is, after it was switched from a slot whose code it showed.
`Settled` is the safety behind `ListSettles`: the list is what a request would read now,
and no older answer is under way; no step but a change ends it (`SettledStays`).
`ShownStays` is the same for `CodeShown`.

**Chunks.** A multiple of the step lies less than a step before any character
(`StartBefore`), and the step and the overlap make up the size (`StepBound`), so that
every short passage lies in one window; strip cuts blanks off a window and nothing else.
`RagInv` says that the collection has all chunks of the documents that were seeded last;
with the two, `PassagesWhole` follows for any documents (`PassagesAreWhole`).

Only model-checked: all liveness (`NoSlotStarves`,
`Failover`, `ClaimedComesUp`, `HandlerEnds`, `EveryCommandDispatched`,
`EveryRecordHandled`, `ListSettles`, `CreatedIsSeen`, `CodeShown`, `BotComesUp`):
fairness and ENABLED are beyond the prover.

## 6. What is not modelled

* Startup and migrations: `001_init.sql` and the start of the servers run once, before
  any of the steps modelled here.
* `SaveSession` (a marker nothing reads), `GetConnection`, byte counters and LastSeen,
  the events that callbacks emit as their last step: no behaviour depends on them.
* Event ids: a hash of sender, second and body. All deliveries of a message have one id
  because the arguments are those of the message; that two messages may have one too is
  a fact of the arguments. `ReplyPath` and `BotBus` have events as values. The claim's
  expiry after a day is left out: a key outlives the deliveries of its event.
* The contents of messages, prompts and passages; `build_prompt`; which chunks a query
  finds; the text that `stream` yields when Ollama fails, which counts as text of a
  reply; `ensure_model`, whose result nobody reads.
* The queue of the producer of the management service: a command that is not delivered
  is no step of `CommandBus`, since the API answers alike.
* The read-only queries of the analytics API and its page, configuration, logging and
  telemetry, generated stubs, deployment.
* PostgreSQL, Redis, Kafka, Chroma, whatsmeow, grpc and React are modelled as far as the
  code uses them.

## 7. Plan

The order is that of the behaviour's weight.

1. `ConnStore`, `SlotLease`, `ClaimLease`, proofs - done.
2. `Gateway`, `GatewayProofs`, `GatewayOwnerProofs` - done.
3. `ReplyPath`, proofs, `KafkaGroup`, `CommandBus`, `CommandBusProofs` - done.
4. `BotBus`, `BotBusProofs` - done.
5. `Dashboard`, `DashboardProofs` - done; `Chunking`, `RagIndex`, `RagIndexProofs` - done.
6. `SingleAnswer`, and the refinements of it and of `SlotLease` by the manager - done.
7. Left: the producer queue of the management service, with what a caller may conclude
   from `command_sent`; the manager with an operator's commands, under what a command may
   still be promised; a refinement of the log of a partition by `KafkaGroup`'s two users.
