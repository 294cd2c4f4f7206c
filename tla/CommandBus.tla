---------------------------- MODULE CommandBus ----------------------------
(***************************************************************************)
(* The way of an operator's disconnect command: the management API         *)
(* publishes it to the outbound topic (app/routers/connections.py,         *)
(* app/kafka/producer.py), one of the gateway pods, which form one         *)
(* consumer group, polls it (internal/kafka/consumer.go) and the handler   *)
(* in main.go hands it to the manager if the pod has an entry for the      *)
(* slot.                                                                   *)
(*                                                                         *)
(* Of the manager only that is kept; Gateway has what Disconnect does.  A  *)
(* poll gives records of several partitions, or errors of some and records *)
(* of others; the client notes how far it polled and commits that.         *)
(***************************************************************************)
EXTENDS KafkaGroup

CONSTANTS
    Slots,          \* ids of connection slots
    PartitionOf,    \* the partition of a slot's commands, which are keyed by its id
    MaxCommands,    \* bound: commands of a partition
    Faults,         \* what may fail, of "fetch" and "handler"
    Observed        \* what an instance records of the handlers, of "failed",
                    \* "misrouted" and "closed"; nothing else depends on it

ASSUME CommandAssumption ==
    /\ PartitionOf \in [Slots -> Partitions]
    /\ MaxCommands \in Nat
    /\ Faults \subseteq {"fetch", "handler"}
    /\ Observed \subseteq {"failed", "misrouted", "closed"}

VARIABLES
    owner,         \* the pod that has an entry for a slot, or NoMember
    run,           \* Consumer.Run: "down", "poll", "handle"
    polled,        \* records of the poll that are to be handled, <<partition, offset>>
    uncommitted,   \* partition and next offset of what was polled and not committed
    dispatched,    \* records that were handed to a handler
    skipped,       \* those of a poll that had an error of another partition
    failed,        \* those whose last handler returned an error
    misrouted,     \* those whose handler ignored them though another pod had the entry
    closed         \* those that closed a client

history == <<dispatched, skipped, failed, misrouted, closed>>
vars == <<topic, owner, run, polled, uncommitted, history>>

Records == Partitions \X Nat

TypeOK ==
    /\ GroupTypeOK(Slots)
    /\ owner \in [Slots -> Members \cup {NoMember}]
    /\ run \in [Members -> {"down", "poll", "handle"}]
    /\ polled \in [Members -> SUBSET Records]
    /\ uncommitted \in [Members -> SUBSET Records]
    /\ dispatched \subseteq Records /\ skipped \subseteq Records /\ failed \subseteq Records
    /\ misrouted \subseteq Records /\ closed \subseteq Records

Init ==
    /\ GroupInit
    /\ owner = [s \in Slots |-> NoMember]
    /\ run = [p \in Members |-> "down"]
    /\ polled = [p \in Members |-> {}]
    /\ uncommitted = [p \in Members |-> {}]
    /\ dispatched = {} /\ skipped = {} /\ failed = {} /\ misrouted = {} /\ closed = {}

-----------------------------------------------------------------------------
\* POST /connections/{id}/disconnect: the command is published.  The API answers
\* "command_sent" whether or not flush could deliver it.
Send(s) ==
    LET i == PartitionOf[s]
    IN  /\ Len(log[i]) < MaxCommands
        /\ log' = Produced(i, s)
        /\ UNCHANGED <<committed, assigned, position, owner, run, polled, uncommitted, history>>

\* The slot is claimed by the pod.
Own(p, s) ==
    /\ run[p] # "down" /\ owner[s] = NoMember
    /\ owner' = [owner EXCEPT ![s] = p]
    /\ UNCHANGED <<topic, run, polled, uncommitted, history>>

Start(p) ==
    /\ run[p] = "down"
    /\ run' = [run EXCEPT ![p] = "poll"]
    /\ UNCHANGED <<topic, owner, polled, uncommitted, history>>

\* The pod dies or is shut down.
Stop(p) ==
    /\ run[p] # "down"
    /\ Leave(p)
    /\ owner' = [s \in Slots |-> IF owner[s] = p THEN NoMember ELSE owner[s]]
    /\ run' = [run EXCEPT ![p] = "down"]
    /\ polled' = [polled EXCEPT ![p] = {}]
    /\ uncommitted' = [uncommitted EXCEPT ![p] = {}]
    /\ UNCHANGED <<log, committed, position, history>>

\* What was polled of a partition that is given away is not committed any more.
Revoked(i) == [p \in Members |-> {u \in uncommitted[p] : u[1] # i}]

\* A rebalance, whatever the members are doing.
Rebalance(i, p) ==
    /\ run[p] # "down" /\ assigned[i] # p
    /\ Reassign(i, p)
    /\ uncommitted' = Revoked(i)
    /\ UNCHANGED <<log, committed, owner, run, polled, history>>

\* The partitions p may be given records of.
Readable(p) == {i \in Partitions : assigned[i] = p /\ Unread(i) # {}}

\* PollFetches: records of the partitions I, each up to some offset.
Polls(p, I, upto) ==
    /\ position' = [i \in Partitions |-> IF i \in I THEN upto[i] + 1 ELSE position[i]]
    /\ uncommitted' = [uncommitted EXCEPT ![p] =
         {u \in @ : u[1] \notin I} \cup {<<i, upto[i] + 1>> : i \in I}]

\* The records of such a poll.
Fetched(I, upto) == UNION {{i} \X (position[i]..upto[i]) : i \in I}

Offsets == 0..(MaxCommands - 1)

Poll(p) ==
    /\ run[p] = "poll"
    /\ \E I \in SUBSET Readable(p) \ {{}} : \E upto \in [I -> Offsets] :
        /\ \A i \in I : upto[i] \in Unread(i)
        /\ Polls(p, I, upto)
        /\ polled' = [polled EXCEPT ![p] = Fetched(I, upto)]
    /\ run' = [run EXCEPT ![p] = "handle"]
    /\ UNCHANGED <<log, committed, assigned, owner, history>>

\* Mutant of PollError: Run returns instead of polling again.
PollErrorMutant(p) ==
    /\ "fetch" \in Faults /\ run[p] = "poll"
    /\ \E i \in Partitions : assigned[i] = p
    /\ run' = [run EXCEPT ![p] = "down"]
    /\ UNCHANGED <<topic, owner, polled, uncommitted, history>>

\* With an error of one partition among the fetches, they are logged and the records
\* of the others are not looked at.
PollError(p) ==
    /\ "fetch" \in Faults /\ run[p] = "poll"
    /\ \E I \in SUBSET Readable(p) : \E upto \in [I -> Offsets] :
        /\ \E j \in Partitions \ I : assigned[j] = p
        /\ \A i \in I : upto[i] \in Unread(i)
        /\ Polls(p, I, upto)
        /\ skipped' = skipped \cup Fetched(I, upto)
    /\ UNCHANGED <<log, committed, assigned, owner, run, polled,
                   dispatched, failed, misrouted, closed>>

\* EachRecord: the records of a partition in their order.
NextRecords(p) == {r \in polled[p] : \A o \in polled[p] : o[1] = r[1] => r[2] =< o[2]}

\* The slot a record is about.
Target(r) == log[r[1]][r[2] + 1]

Handled(p, r) ==
    /\ run[p] = "handle" /\ r \in NextRecords(p)
    /\ polled' = [polled EXCEPT ![p] = @ \ {r}]
    /\ dispatched' = dispatched \cup {r}
    /\ UNCHANGED <<topic, owner, run, uncommitted, skipped>>

\* Record r is noted, if the instance records what it would be noted for.
Noted(kind, S, r) == IF kind \in Observed THEN S \cup {r} ELSE S

\* The handler ignores a command for a slot the pod has no entry for.
Ignore(p, r) ==
    /\ Handled(p, r) /\ owner[Target(r)] # p
    /\ failed' = failed \ {r}
    /\ misrouted' = IF owner[Target(r)] # NoMember THEN Noted("misrouted", misrouted, r) ELSE misrouted
    /\ UNCHANGED closed

\* Disconnect closes the client; writing the row may fail after that.
Disconnect(p, r) ==
    /\ Handled(p, r) /\ owner[Target(r)] = p
    /\ closed' = Noted("closed", closed, r)
    /\ failed' = failed \ {r} \/ ("handler" \in Faults /\ failed' = Noted("failed", failed, r))
    /\ UNCHANGED misrouted

\* Disconnect finds no client: Bring has not made it yet.
DisconnectFails(p, r) ==
    /\ "handler" \in Faults
    /\ Handled(p, r) /\ owner[Target(r)] = p
    /\ failed' = Noted("failed", failed, r)
    /\ UNCHANGED <<misrouted, closed>>

\* Mutant of Commit: what was polled is committed before it is handled.
CommitMutant(p) ==
    /\ run[p] = "handle"
    /\ committed' = [i \in Partitions |->
         IF \E u \in uncommitted[p] : u[1] = i
         THEN (CHOOSE u \in uncommitted[p] : u[1] = i)[2] ELSE committed[i]]
    /\ uncommitted' = [uncommitted EXCEPT ![p] = {}]
    /\ run' = [run EXCEPT ![p] = IF polled[p] = {} THEN "poll" ELSE "handle"]
    /\ UNCHANGED <<log, assigned, position, owner, polled, history>>

\* Mutant of Commit: the offset committed is one too far.
CommitTooFarMutant(p) ==
    /\ run[p] = "handle" /\ polled[p] = {}
    /\ committed' = [i \in Partitions |->
         IF \E u \in uncommitted[p] : u[1] = i
         THEN (CHOOSE u \in uncommitted[p] : u[1] = i)[2] + 1 ELSE committed[i]]
    /\ uncommitted' = [uncommitted EXCEPT ![p] = {}]
    /\ run' = [run EXCEPT ![p] = "poll"]
    /\ UNCHANGED <<log, assigned, position, owner, polled, history>>

\* Mutant of Commit: a partition with nothing to commit is committed at zero.
CommitZeroMutant(p) ==
    /\ run[p] = "handle" /\ polled[p] = {}
    /\ committed' = [i \in Partitions |->
         IF \E u \in uncommitted[p] : u[1] = i
         THEN (CHOOSE u \in uncommitted[p] : u[1] = i)[2] ELSE 0]
    /\ uncommitted' = [uncommitted EXCEPT ![p] = {}]
    /\ run' = [run EXCEPT ![p] = "poll"]
    /\ UNCHANGED <<log, assigned, position, owner, polled, history>>

\* CommitUncommittedOffsets.
Commit(p) ==
    /\ run[p] = "handle" /\ polled[p] = {}
    /\ committed' = [i \in Partitions |->
         IF \E u \in uncommitted[p] : u[1] = i
         THEN (CHOOSE u \in uncommitted[p] : u[1] = i)[2] ELSE committed[i]]
    /\ uncommitted' = [uncommitted EXCEPT ![p] = {}]
    /\ run' = [run EXCEPT ![p] = "poll"]
    /\ UNCHANGED <<log, assigned, position, owner, polled, history>>

\* It fails: that is logged, and the next commit includes these offsets.
CommitFails(p) ==
    /\ run[p] = "handle" /\ polled[p] = {}
    /\ run' = [run EXCEPT ![p] = "poll"]
    /\ UNCHANGED <<topic, owner, polled, uncommitted, history>>

Handle(p) ==
    \E r \in polled[p] : Ignore(p, r) \/ Disconnect(p, r) \/ DisconnectFails(p, r)

Next ==
    \/ \E s \in Slots : Send(s)
    \/ \E p \in Members :
        \/ Start(p) \/ Stop(p)
        \/ Poll(p) \/ PollError(p) \/ Handle(p) \/ Commit(p) \/ CommitFails(p)
    \/ \E p \in Members, s \in Slots : Own(p, s)
    \/ \E i \in Partitions, p \in Members : Rebalance(i, p)

Spec == Init /\ [][Next]_vars

\* A partition that nobody is assigned to is given to a running pod, and a partition
\* that can be read is read in the end, whatever errors there are before.
Fairness ==
    /\ \A i \in Partitions :
        WF_vars(assigned[i] = NoMember /\ \E p \in Members : Rebalance(i, p))
    /\ \A p \in Members : WF_vars(Poll(p))

FairSpec == Spec /\ Fairness

-----------------------------------------------------------------------------
\* Whatever dies, leaves or is given away between a poll and its commit, the group
\* does not go past a record that no handler was given, but for the records of a poll
\* that had an error of another partition (consumer.go:46-53).
DispatchedBeforeCommit ==
    \A i \in Partitions : \A n \in 0..(committed[i] - 1) : <<i, n>> \in dispatched \cup skipped

\* The committed offset of a partition does not go back: a pod that lost a partition
\* while it handled its records does not overwrite what the next one committed.
CommittedAdvances == [][\A i \in Partitions : committed'[i] >= committed[i]]_vars

\* What is noted for a commit is how far the assignee was given the partition, and what
\* it was given since the last commit is dispatched, skipped or waits in its poll.
Tracked(p, i) ==
    /\ \A u \in uncommitted[p] : u[1] = i => assigned[i] = p /\ u[2] = position[i]
    /\ assigned[i] = p =>
        \A n \in committed[i]..(position[i] - 1) : <<i, n>> \in dispatched \cup skipped \cup polled[p]

\* The inductive invariant of the proofs.
BusInv ==
    /\ TypeOK
    /\ \A p \in Members : run[p] # "handle" => polled[p] = {}
    /\ \A i \in Partitions : committed[i] =< position[i]
    /\ \A p \in Members, i \in Partitions : Tracked(p, i)
    /\ DispatchedBeforeCommit

\* Pods and partitions stay where they are from some time on, and no handler and no
\* commit keeps a pod for ever; neither has a deadline.
SettledGroup ==
    /\ <>[][\A p \in Members : ~Stop(p) /\ \A i \in Partitions :
             Rebalance(i, p) => assigned[i] = NoMember]_vars
    /\ \A p \in Members : []<>(run[p] # "handle")

\* In a settled group every command comes to a handler, if a pod runs, but for the
\* records of a poll that had an error of another partition: those wait for a member to
\* leave, or are committed with what comes after them.
EveryCommandDispatched ==
    SettledGroup =>
        \A i \in Partitions, n \in Offsets :
            n < Len(log[i]) ~> \/ <<i, n>> \in dispatched \cup skipped
                               \/ \A p \in Members : run[p] = "down"

-----------------------------------------------------------------------------
\* What the repository says of the commands and TLC refutes.

\* A command that a pod ignores is left to the pod that has the entry ("otherwise it
\* ignores the record, letting the owning pod handle it", kafka-topics.md:55).
LeftToOwner ==
    \A i \in Partitions : \A n \in 0..(committed[i] - 1) :
        <<i, n>> \in misrouted => <<i, n>> \in closed

\* A command whose handler failed is not committed ("Returning an error causes the
\* record to NOT be committed (so it will be retried)", consumer.go:12).
FailedNotCommitted ==
    \A i \in Partitions : \A n \in 0..(committed[i] - 1) : <<i, n>> \notin failed

\* A record is handled before it is committed, also when a poll has an error ("Manual
\* commit after successful handling -> at-least-once", consumer.go:29).
AtLeastOnce ==
    \A i \in Partitions : \A n \in 0..(committed[i] - 1) : <<i, n>> \in dispatched

\* A command that is delivered again does no harm ("app-level idempotency ... makes it
\* safe", consumer.go:29): it does not close another client.
ClosesOnce == [][\A p \in Members : \A r \in polled[p] : r \in closed => ~Disconnect(p, r)]_vars
=============================================================================
