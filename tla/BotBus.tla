------------------------------- MODULE BotBus -------------------------------
(***************************************************************************)
(* The bot as a consumer of the inbound topic: InboundConsumer.run and     *)
(* OutboundProducer (app/kafka/bus.py), MessageProcessor.handle            *)
(* (app/processor.py), the claim in Redis (app/idempotency.py) and         *)
(* OllamaClient.generate with its attempts (app/llm/ollama_client.py).     *)
(* app/main.py starts the gRPC server in its place; the path is in the     *)
(* source, with its tests, and shares the claims with the hot path.        *)
(*                                                                         *)
(* A member handles one record at a time.  A handler may take longer than  *)
(* the group waits (three attempts of OLLAMA_TIMEOUT_SECONDS), so that a   *)
(* rebalance may come at any step of it; Kafka may take or refuse the      *)
(* commit of a member that lost the partition.  A record is an event, or   *)
(* Poison, which is no JSON, or Blank, which has no event_id or no body.   *)
(***************************************************************************)
EXTENDS KafkaGroup, FiniteSets

CONSTANTS
    Events,        \* messages, by event_id
    Poison, Blank,
    MaxRecords,    \* bound: records of a partition
    Faults         \* what may fail, of "redis", "rag", "ollama", "kafka"

ASSUME BotBusAssumption ==
    /\ Poison \notin Events /\ Blank \notin Events /\ Poison # Blank
    /\ MaxRecords \in Nat
    /\ Faults \subseteq {"redis", "rag", "ollama", "kafka"}

VARIABLES
    step,       \* where run or handle is: "down", "poll", "skip", "claim", "retrieve",
                \* "generate", "send", "flush", "release", "commit", or "ended" when an
                \* error left run
    msg,        \* the record at hand, <<partition, offset>>
    attempt,    \* of generate
    queue,      \* how many answers to an event the member's producer has not delivered
    claims,     \* events that have a key in Redis
    outbound,   \* how many answers to an event the outbound topic has
    handled,    \* records that were given to the handler, or skipped as poison
    failed,     \* records whose handler raised
    severed     \* events whose answer was cut off after their claim

redis == <<claims, outbound>>
history == <<handled, failed, severed>>
vars == <<topic, step, msg, attempt, queue, redis, history>>

Records == Partitions \X (0..(MaxRecords - 1))
NoRecord == <<>>
Attempts == 3

\* The steps between a claim that was taken and the answer's way to the producer.
Answering == {"retrieve", "generate", "send", "release"}

TypeOK ==
    /\ GroupTypeOK(Events \cup {Poison, Blank})
    /\ step \in [Members -> Answering \cup
                   {"down", "poll", "skip", "claim", "flush", "commit", "ended"}]
    /\ msg \in [Members -> Records \cup {NoRecord}]
    /\ attempt \in [Members -> 1..Attempts]
    /\ queue \in [Members -> [Events -> Nat]]
    /\ outbound \in [Events -> Nat]
    /\ claims \subseteq Events /\ severed \subseteq Events
    /\ handled \subseteq Records /\ failed \subseteq handled

Init ==
    /\ GroupInit
    /\ step = [m \in Members |-> "down"]
    /\ msg = [m \in Members |-> NoRecord]
    /\ attempt = [m \in Members |-> 1]
    /\ queue = [m \in Members |-> [e \in Events |-> 0]]
    /\ claims = {}
    /\ outbound = [e \in Events |-> 0]
    /\ handled = {} /\ failed = {} /\ severed = {}

-----------------------------------------------------------------------------
Value(r) == log[r[1]][r[2] + 1]

\* The event member m has at hand.
Event(m) == Value(msg[m])

At(m, s) == step[m] = s

GoesTo(m, s) == step' = [step EXCEPT ![m] = s]

\* The record at hand is done with: run polls again.
PollsAgain(m) ==
    /\ GoesTo(m, "poll")
    /\ msg' = [msg EXCEPT ![m] = NoRecord]
    /\ attempt' = [attempt EXCEPT ![m] = 1]

Queued(m) == {e \in Events : queue[m][e] > 0}

\* A record is published.
Produce(i, v) ==
    /\ Len(log[i]) < MaxRecords
    /\ log' = Produced(i, v)
    /\ UNCHANGED <<committed, assigned, position, step, msg, attempt, queue, redis, history>>

Start(m) ==
    /\ At(m, "down")
    /\ GoesTo(m, "poll")
    /\ UNCHANGED <<topic, msg, attempt, queue, redis, history>>

\* The process dies: what its handler has claimed and what its producer has queued
\* is cut off.
Stop(m) ==
    /\ ~At(m, "down")
    /\ Leave(m)
    /\ GoesTo(m, "down")
    /\ msg' = [msg EXCEPT ![m] = NoRecord]
    /\ attempt' = [attempt EXCEPT ![m] = 1]
    /\ queue' = [queue EXCEPT ![m] = [e \in Events |-> 0]]
    /\ severed' = severed \cup Queued(m) \cup {e \in Events : step[m] \in Answering /\ e = Event(m)}
    /\ UNCHANGED <<log, committed, position, redis, handled, failed>>

\* A rebalance, whatever the members are doing; partition i may come back to the
\* member that had it.
Rebalance(i, m) ==
    /\ step[m] \notin {"down", "ended"}
    /\ Reassign(i, m)
    /\ UNCHANGED <<log, committed, step, msg, attempt, queue, redis, history>>

\* Mutant of Poll: the client commits what it polls (enable.auto.commit).
PollMutant(m) ==
    /\ At(m, "poll")
    /\ \E i \in Partitions :
        /\ assigned[i] = m /\ Unread(i) # {}
        /\ msg' = [msg EXCEPT ![m] = <<i, position[i]>>]
        /\ position' = [position EXCEPT ![i] = @ + 1]
        /\ committed' = position'
        /\ handled' = handled \cup {<<i, position[i]>>}
        /\ GoesTo(m, IF Value(<<i, position[i]>>) \in Events THEN "claim" ELSE "commit")
    /\ UNCHANGED <<log, assigned, attempt, queue, redis, failed, severed>>

\* poll gives the next record, which is decoded.
Poll(m) ==
    /\ At(m, "poll")
    /\ \E i \in Partitions :
        /\ assigned[i] = m /\ Unread(i) # {}
        /\ msg' = [msg EXCEPT ![m] = <<i, position[i]>>]
        /\ position' = [position EXCEPT ![i] = @ + 1]
        /\ handled' = handled \cup {<<i, position[i]>>}
        /\ GoesTo(m, CASE Value(<<i, position[i]>>) = Poison -> "skip"
                       [] Value(<<i, position[i]>>) = Blank -> "commit"
                       [] OTHER -> "claim")
    /\ UNCHANGED <<log, committed, assigned, attempt, queue, redis, failed, severed>>

\* Mutant of CommitsRecord: one record too far.
CommitsRecordMutant(m) == committed' = [committed EXCEPT ![msg[m][1]] = msg[m][2] + 2]

\* commit(msg): the offset after this record, whatever was committed before.
CommitsRecord(m) == committed' = [committed EXCEPT ![msg[m][1]] = msg[m][2] + 1]

\* It may be refused.
MayRefuse(m) == "kafka" \in Faults \/ assigned[msg[m][1]] # m

Commit(m) ==
    /\ step[m] \in {"skip", "commit"}
    /\ CommitsRecord(m)
    /\ PollsAgain(m)
    /\ UNCHANGED <<log, assigned, position, queue, redis, history>>

\* It raises: after the handler that is caught; after a poison record it leaves run,
\* which closes the consumer.
CommitRaises(m) ==
    /\ step[m] \in {"skip", "commit"} /\ MayRefuse(m)
    /\ \/ At(m, "commit") /\ PollsAgain(m) /\ UNCHANGED assigned
       \/ /\ At(m, "skip") /\ Leave(m)
          /\ GoesTo(m, "ended")
          /\ msg' = [msg EXCEPT ![m] = NoRecord]
          /\ UNCHANGED attempt
    /\ UNCHANGED <<log, committed, position, queue, redis, history>>

-----------------------------------------------------------------------------
\* handle: IdempotencyStore.claim, SET NX.
Claim(m) ==
    /\ At(m, "claim") /\ Event(m) \notin claims
    /\ claims' = claims \cup {Event(m)}
    /\ GoesTo(m, "retrieve")
    /\ UNCHANGED <<topic, msg, attempt, queue, outbound, history>>

\* A duplicate is skipped, and committed.
Duplicate(m) ==
    /\ At(m, "claim") /\ Event(m) \in claims
    /\ GoesTo(m, "commit")
    /\ UNCHANGED <<topic, msg, attempt, queue, redis, history>>

\* The call of Redis raises, before or after it set the key.
ClaimRaises(m) ==
    /\ "redis" \in Faults /\ At(m, "claim")
    /\ \/ UNCHANGED <<claims, severed>>
       \/ /\ Event(m) \notin claims
          /\ claims' = claims \cup {Event(m)}
          /\ severed' = severed \cup {Event(m)}
    /\ failed' = failed \cup {msg[m]}
    /\ PollsAgain(m)
    /\ UNCHANGED <<topic, queue, outbound, handled>>

Retrieve(m) ==
    /\ At(m, "retrieve")
    /\ GoesTo(m, "generate") \/ ("rag" \in Faults /\ GoesTo(m, "release"))
    /\ UNCHANGED <<topic, msg, attempt, queue, redis, history>>

\* generate: an attempt is answered,
Generate(m) ==
    /\ At(m, "generate")
    /\ GoesTo(m, "send")
    /\ UNCHANGED <<topic, msg, attempt, queue, redis, history>>

\* Mutant of GenerateFails: after the last attempt it starts anew.
GenerateFailsMutant(m) ==
    /\ "ollama" \in Faults /\ At(m, "generate")
    /\ attempt' = [attempt EXCEPT ![m] = IF @ < Attempts THEN @ + 1 ELSE 1]
    /\ UNCHANGED <<topic, step, msg, queue, redis, history>>

\* or fails, and is made again; after the last one the answer is an apology.
GenerateFails(m) ==
    /\ "ollama" \in Faults /\ At(m, "generate")
    /\ IF attempt[m] < Attempts
       THEN attempt' = [attempt EXCEPT ![m] = @ + 1] /\ UNCHANGED step
       ELSE GoesTo(m, "send") /\ UNCHANGED attempt
    /\ UNCHANGED <<topic, msg, queue, redis, history>>

\* OutboundProducer.send: the answer is queued, or the queue is full.
Send(m) ==
    /\ At(m, "send")
    /\ \/ /\ queue' = [queue EXCEPT ![m][Event(m)] = @ + 1]
          /\ GoesTo(m, "flush")
       \/ "kafka" \in Faults /\ GoesTo(m, "release") /\ UNCHANGED queue
    /\ UNCHANGED <<topic, msg, attempt, redis, history>>

\* Mutant of Flushed: an answer that is still queued raises, and the claim is released.
FlushedMutant(m) ==
    /\ At(m, "flush")
    /\ IF Queued(m) = {} THEN GoesTo(m, "commit")
       ELSE "kafka" \in Faults /\ GoesTo(m, "release")
    /\ UNCHANGED <<topic, msg, attempt, queue, redis, history>>

\* flush returns when the queue is empty, or gives up after ten seconds without a word.
Flushed(m) ==
    /\ At(m, "flush") /\ (Queued(m) = {} \/ "kafka" \in Faults)
    /\ GoesTo(m, "commit")
    /\ UNCHANGED <<topic, msg, attempt, queue, redis, history>>

\* The producer delivers an answer,
Deliver(m, e) ==
    /\ queue[m][e] > 0
    /\ queue' = [queue EXCEPT ![m][e] = @ - 1]
    /\ outbound' = [outbound EXCEPT ![e] = @ + 1]
    /\ UNCHANGED <<topic, step, msg, attempt, claims, history>>

\* or drops it after message.timeout.ms.
Drop(m, e) ==
    /\ "kafka" \in Faults /\ queue[m][e] > 0
    /\ queue' = [queue EXCEPT ![m][e] = @ - 1]
    /\ severed' = severed \cup {e}
    /\ UNCHANGED <<topic, step, msg, attempt, redis, handled, failed>>

\* Mutant of Release: the claim is kept.
ReleaseMutant(m) ==
    /\ At(m, "release")
    /\ failed' = failed \cup {msg[m]}
    /\ PollsAgain(m)
    /\ UNCHANGED <<topic, queue, redis, handled, severed>>

\* handle raised: the claim is released, which may raise too; run logs it and commits
\* nothing.
Release(m) ==
    /\ At(m, "release")
    /\ \/ claims' = claims \ {Event(m)} /\ UNCHANGED severed
       \/ "redis" \in Faults /\ severed' = severed \cup {Event(m)} /\ UNCHANGED claims
    /\ failed' = failed \cup {msg[m]}
    /\ PollsAgain(m)
    /\ UNCHANGED <<topic, queue, outbound, handled>>

-----------------------------------------------------------------------------
\* What a member that runs goes on to do of itself.
Works(m) ==
    \/ Poll(m) \/ Commit(m) \/ CommitRaises(m)
    \/ Claim(m) \/ Duplicate(m) \/ ClaimRaises(m)
    \/ Retrieve(m) \/ Generate(m) \/ GenerateFails(m)
    \/ Send(m) \/ Flushed(m) \/ Release(m)

Next ==
    \/ \E i \in Partitions, v \in Events \cup {Poison, Blank} : Produce(i, v)
    \/ \E m \in Members : Start(m) \/ Stop(m) \/ Works(m)
    \/ \E m \in Members, e \in Events : Deliver(m, e) \/ Drop(m, e)
    \/ \E i \in Partitions, m \in Members : Rebalance(i, m)

Spec == Init /\ [][Next]_vars

\* Where a member waits with no bound on the time: for Redis, whose client has no socket
\* timeout, and for the coordinator of the group to take or refuse a commit.
Waits == {"claim", "release", "skip", "commit"}

\* A partition that nobody is assigned to is given to a member that runs; members take
\* the steps that wait for nobody, or for Ollama and the producer, which have timeouts.
Fairness ==
    /\ \A i \in Partitions :
        WF_vars(assigned[i] = NoMember /\ \E m \in Members : Rebalance(i, m))
    /\ \A m \in Members :
        /\ WF_vars(step[m] \notin Waits /\ Works(m))
        /\ \A e \in Events : WF_vars(Deliver(m, e) \/ Drop(m, e))

FairSpec == Spec /\ Fairness

-----------------------------------------------------------------------------
\* The members at work on an answer to e.
Workers(e) == {m \in Members : step[m] \in Answering /\ Event(m) = e}

\* The answers to e that were given to a producer.
Answers(e) == outbound[e] + Cardinality({m \in Members : queue[m][e] > 0})

\* Whatever is delivered again by rebalances, crashes and refused commits, and however
\* many records carry the event, one answer to it is made at most, and no claim is
\* taken for a second one while there is a first.
AnsweredOnce ==
    \A e \in Events :
        /\ \A m \in Members : queue[m][e] =< 1
        /\ Answers(e) + Cardinality(Workers(e)) =< 1

\* A claim tells the truth: it stands for an answer that is made or on its way, or its
\* answer was cut off by a death, by a call of Redis that failed or by the producer.
ClaimExplained ==
    \A e \in claims : Answers(e) > 0 \/ Workers(e) # {} \/ e \in severed

\* An event the group went past has its claim, unless a handler of it raised: no
\* rebalance, crash or refused commit passes over a record that was not handled.
PassedIsSettled ==
    \A i \in Partitions : \A n \in 0..(committed[i] - 1) :
        Value(<<i, n>>) \in Events =>
            \/ Value(<<i, n>>) \in claims
            \/ \E r \in failed : Value(r) = Value(<<i, n>>)

\* Members and partitions stay where they are from some time on, and neither Redis nor
\* a commit keeps a member waiting for ever.
SettledGroup ==
    /\ <>[][\A m \in Members : ~Stop(m) /\ \A i \in Partitions :
             Rebalance(i, m) => assigned[i] = NoMember]_vars
    /\ \A m \in Members : []<>(step[m] \notin Waits)

\* Neither a poison record nor an Ollama that never answers nor a handler that raises
\* blocks the partition: in a settled group every record comes to the handler, if a
\* member runs.
EveryRecordHandled ==
    SettledGroup =>
        \A r \in Records :
            r[2] < Len(log[r[1]]) ~>
                r \in handled \/ \A m \in Members : step[m] \in {"down", "ended"}

-----------------------------------------------------------------------------
\* The inductive invariant of the proofs.

\* What a member has at hand.
AtHand(m) ==
    /\ step[m] \in {"down", "poll", "ended"} => msg[m] = NoRecord
    /\ step[m] \notin {"down", "poll", "ended"} => msg[m] \in handled
    /\ step[m] \in Answering \cup {"claim", "flush"} => Event(m) \in Events

BotTypes ==
    /\ TypeOK
    /\ \A i \in Partitions : Len(log[i]) =< MaxRecords
    /\ \A r \in handled : r[2] < Len(log[r[1]])
    /\ \A m \in Members : AtHand(m)

WorksOn(m, e) == step[m] \in Answering /\ Event(m) = e

\* One member at most is at work on an answer to e or has it queued, nobody is once it
\* is out, and whoever is has the claim.
OneAnswer(e) ==
    /\ \A m \in Members : queue[m][e] =< 1 /\ (queue[m][e] > 0 => ~WorksOn(m, e))
    /\ \A m \in Members : queue[m][e] > 0 \/ WorksOn(m, e) =>
        /\ outbound[e] = 0 /\ e \in claims
        /\ \A n \in Members : queue[n][e] > 0 \/ WorksOn(n, e) => n = m
    /\ outbound[e] =< 1 /\ (outbound[e] > 0 => e \in claims)

Explained(e) ==
    e \in claims => \/ outbound[e] > 0 \/ e \in severed
                   \/ \E m \in Members : queue[m][e] > 0 \/ WorksOn(m, e)

\* Nothing is left to do for a record with value v.
Settled(v) == v \in Events => v \in claims \/ \E r \in failed : Value(r) = v

\* What is behind the group, behind a record at hand and behind the position of the
\* assignee, but for the record it has at hand, is settled.
Behind(i) ==
    /\ \A n \in 0..(committed[i] - 1) : Settled(Value(<<i, n>>))
    /\ \A m \in Members : msg[m] # NoRecord /\ msg[m][1] = i =>
        \A n \in 0..(msg[m][2] - 1) : Settled(Value(<<i, n>>))
    /\ \A m \in Members : assigned[i] = m =>
        \A n \in 0..(position[i] - 1) : Settled(Value(<<i, n>>)) \/ msg[m] = <<i, n>>

\* A member past its claim has settled its record.
PastClaim(m) == step[m] \notin {"down", "poll", "ended", "claim"} => Settled(Event(m))

BotInv ==
    /\ BotTypes
    /\ \A e \in Events : OneAnswer(e) /\ Explained(e)
    /\ \A i \in Partitions : Behind(i)
    /\ \A m \in Members : PastClaim(m)

-----------------------------------------------------------------------------
\* How far the answer to an event is, as the claims in Redis have it.
Stage(e) ==
    IF e \notin claims THEN "open"
    ELSE IF \E m \in Members : queue[m][e] > 0 \/ WorksOn(m, e) THEN "underway" ELSE "closed"

Stages == [e \in Events |-> Stage(e)]

Promise == INSTANCE SingleAnswer WITH stage <- Stages, answers <- outbound

\* The consumers keep what the claims promise: one answer to an event at a time, none
\* after it was delivered, dropped or cut off, and only a claim that is released makes
\* room for another one.
ImplementsSingleAnswer == Promise!Spec

-----------------------------------------------------------------------------
\* What the repository says of the consumer and TLC refutes.

\* A record whose handler raised is delivered again ("Do not commit -> message will be
\* redelivered", bus.py:109): the group does not go past it without a claim.
FailedIsRedelivered ==
    \A r \in failed : r[2] < committed[r[1]] => Value(r) \in claims
=============================================================================
