------------------------- MODULE CommandBusProofs -------------------------
(***************************************************************************)
(* Proofs about CommandBus for any pods, partitions, slots and bounds.     *)
(*                                                                         *)
(* BusInv is inductive.  A record between the committed offset and the     *)
(* position of the assignee was handed to a handler, was given with an     *)
(* error of another partition, or waits in the poll of the assignee, and a *)
(* commit needs that poll to be empty.                                     *)
(***************************************************************************)
EXTENDS CommandBus, TLAPS

LEMMA InitInv == Init => BusInv
BY GroupAssumption, CommandAssumption
   DEF Init, GroupInit, BusInv, TypeOK, GroupTypeOK, Records, Tracked, DispatchedBeforeCommit

\* What is known of the offsets of a partition.
LEMMA OffsetsInOrder ==
    ASSUME BusInv
    PROVE  /\ committed \in [Partitions -> Nat] /\ position \in [Partitions -> Nat]
           /\ \A i \in Partitions : /\ Len(log[i]) \in Nat
                                   /\ committed[i] =< position[i]
                                   /\ position[i] =< Len(log[i])
<1>1. /\ committed \in [Partitions -> Nat] /\ position \in [Partitions -> Nat]
      /\ log \in [Partitions -> Seq(Slots)]
      /\ \A i \in Partitions : committed[i] =< position[i] /\ position[i] =< Len(log[i])
    BY DEF BusInv, TypeOK, GroupTypeOK
<1> QED
    BY <1>1

\* Steps that give the group nothing to read and commit nothing.
LEMMA QuietStep ==
    ASSUME BusInv,
           \/ \E s \in Slots : Send(s)
           \/ \E p \in Members : Start(p) \/ Stop(p) \/ CommitFails(p)
           \/ \E p \in Members, s \in Slots : Own(p, s)
           \/ UNCHANGED vars
    PROVE  BusInv'
<1> USE GroupAssumption DEF BusInv, TypeOK, GroupTypeOK, history, topic
<1>1. ASSUME NEW s \in Slots, Send(s)
      PROVE  BusInv'
    <2>1. TypeOK'
        BY <1>1, CommandAssumption DEF Send, Produced
    <2>2. \A q \in Members, i \in Partitions : Tracked(q, i)'
        BY <1>1 DEF Send, Produced, Tracked
    <2> QED
        BY <2>1, <2>2, <1>1 DEF Send, Produced, DispatchedBeforeCommit
<1>2. ASSUME NEW p \in Members, Start(p)
      PROVE  BusInv'
    <2>1. TypeOK'
        BY <1>2, CommandAssumption DEF Start
    <2>2. \A q \in Members, i \in Partitions : Tracked(q, i)'
        BY <1>2 DEF Start, Tracked
    <2> QED
        BY <2>1, <2>2, <1>2 DEF Start, DispatchedBeforeCommit
<1>3. ASSUME NEW p \in Members, Stop(p)
      PROVE  BusInv'
    <2>1. TypeOK'
        BY <1>3, CommandAssumption DEF Stop, Leave
    <2>2. \A q \in Members, i \in Partitions : Tracked(q, i)'
        BY <1>3 DEF Stop, Leave, Tracked
    <2> QED
        BY <2>1, <2>2, <1>3 DEF Stop, Leave, DispatchedBeforeCommit
<1>4. ASSUME NEW p \in Members, CommitFails(p)
      PROVE  BusInv'
    <2>1. TypeOK'
        BY <1>4, CommandAssumption DEF CommitFails
    <2>2. \A q \in Members, i \in Partitions : Tracked(q, i)'
        BY <1>4 DEF CommitFails, Tracked
    <2> QED
        BY <2>1, <2>2, <1>4 DEF CommitFails, DispatchedBeforeCommit
<1>5. ASSUME NEW p \in Members, NEW s \in Slots, Own(p, s)
      PROVE  BusInv'
    <2>1. TypeOK'
        BY <1>5, CommandAssumption DEF Own
    <2>2. \A q \in Members, i \in Partitions : Tracked(q, i)'
        BY <1>5 DEF Own, Tracked
    <2> QED
        BY <2>1, <2>2, <1>5 DEF Own, DispatchedBeforeCommit
<1>6. CASE UNCHANGED vars
    BY <1>6 DEF vars, Tracked, DispatchedBeforeCommit, Records
<1> QED
    BY <1>1, <1>2, <1>3, <1>4, <1>5, <1>6

\* A rebalance starts the new assignee at the committed offset and drops what its
\* predecessor noted.
LEMMA RebalanceStep ==
    ASSUME BusInv, NEW i \in Partitions, NEW p \in Members, Rebalance(i, p)
    PROVE  BusInv'
BY GroupAssumption, CommandAssumption
   DEF BusInv, TypeOK, GroupTypeOK, Records, Tracked, DispatchedBeforeCommit, history,
       Rebalance, Reassign, Revoked, StartsAt

\* A poll, with an error or without, moves the position over the records it gives, which
\* are to be handled then or are skipped.
LEMMA GivesStep ==
    ASSUME BusInv, NEW p \in Members,
           NEW I \in SUBSET Readable(p), NEW upto \in [I -> Offsets],
           \A i \in I : upto[i] \in Unread(i), Polls(p, I, upto), run[p] = "poll",
           UNCHANGED <<log, committed, assigned, owner, dispatched, failed, misrouted, closed>>,
           \/ /\ run' = [run EXCEPT ![p] = "handle"] /\ skipped' = skipped
              /\ polled' = [polled EXCEPT ![p] = Fetched(I, upto)]
           \/ /\ run' = run /\ polled' = polled
              /\ skipped' = skipped \cup Fetched(I, upto)
    PROVE  BusInv'
<1>2. /\ I \subseteq Partitions
      /\ \A i \in I : assigned[i] = p /\ upto[i] \in Nat
      /\ \A i \in I : position[i] =< upto[i] /\ upto[i] < Len(log[i])
    BY OffsetsInOrder, CommandAssumption DEF Readable, Unread, Offsets
<1>3. /\ position' \in [Partitions -> Nat]
      /\ \A i \in Partitions : position'[i] = IF i \in I THEN upto[i] + 1 ELSE position[i]
    BY <1>2, OffsetsInOrder DEF Polls
<1>4. /\ log' = log /\ committed' = committed /\ assigned' = assigned /\ owner' = owner
      /\ dispatched' = dispatched /\ skipped \subseteq skipped'
    OBVIOUS
<1>5. /\ uncommitted' \in [Members -> SUBSET Records]
      /\ \A q \in Members \ {p} : uncommitted'[q] = uncommitted[q]
      /\ \A u \in uncommitted'[p] : \/ u \in uncommitted[p] /\ u[1] \notin I
                                    \/ \E i \in I : u = <<i, upto[i] + 1>>
    BY <1>2 DEF Polls, BusInv, TypeOK, Records
<1>6. /\ polled' \in [Members -> SUBSET Records] /\ skipped' \subseteq Records
      /\ \A q \in Members \ {p} : polled'[q] = polled[q]
      /\ \A i \in I : \A n \in position[i]..upto[i] : <<i, n>> \in skipped' \cup polled'[p]
      /\ run' \in [Members -> {"down", "poll", "handle"}]
      /\ \A q \in Members : run'[q] # "handle" => polled'[q] = {}
    <2>1. Fetched(I, upto) \subseteq Records
        BY <1>2, OffsetsInOrder DEF Fetched, Records
    <2>2. \A i \in I : \A n \in position[i]..upto[i] : <<i, n>> \in Fetched(I, upto)
        BY DEF Fetched
    <2> QED
        BY <2>1, <2>2 DEF BusInv, TypeOK
<1>7. TypeOK'
    <2>1. GroupTypeOK(Slots)'
        <3>1. \A i \in Partitions : committed[i] =< Len(log[i]) /\ position'[i] =< Len(log[i])
            BY <1>2, <1>3, OffsetsInOrder
        <3> QED
            BY <3>1, <1>3, <1>4 DEF BusInv, TypeOK, GroupTypeOK
    <2> QED
        BY <2>1, <1>4, <1>5, <1>6 DEF BusInv, TypeOK, Records
<1>8. ASSUME NEW q \in Members, NEW i \in Partitions
      PROVE  Tracked(q, i)'
    <2>1. ASSUME NEW u \in uncommitted'[q], u[1] = i
          PROVE  assigned'[i] = q /\ u[2] = position'[i]
        <3>1. CASE u \in uncommitted[q] /\ (q = p => u[1] \notin I)
            <4>1. assigned[i] = q /\ u[2] = position[i]
                BY <2>1, <3>1 DEF BusInv, Tracked
            <4>2. i \notin I
                BY <4>1, <3>1, <2>1, <1>2
            <4> QED
                BY <4>1, <4>2, <1>3, <1>4
        <3>2. CASE q = p /\ \E j \in I : u = <<j, upto[j] + 1>>
            BY <2>1, <3>2, <1>2, <1>3, <1>4
        <3> QED
            BY <3>1, <3>2, <2>1, <1>5
    <2>2. ASSUME assigned'[i] = q, NEW n \in committed'[i]..(position'[i] - 1)
          PROVE  <<i, n>> \in dispatched' \cup skipped' \cup polled'[q]
        <3>1. assigned[i] = q /\ n \in Nat
            BY <2>2, <1>3, <1>4, OffsetsInOrder
        <3>2. CASE n < position[i]
            <4>1. n \in committed[i]..(position[i] - 1)
                BY <3>1, <3>2, <2>2, <1>3, <1>4, OffsetsInOrder
            <4>2. <<i, n>> \in dispatched \cup skipped \cup polled[q]
                BY <4>1, <3>1 DEF BusInv, Tracked
            <4>3. q # p \/ polled[q] = {}
                BY DEF BusInv
            <4> QED
                BY <4>2, <4>3, <1>4, <1>6
        <3>3. CASE ~(n < position[i])
            <4>1. i \in I /\ n \in position[i]..upto[i]
                BY <3>1, <3>3, <2>2, <1>2, <1>3, <1>4, OffsetsInOrder
            <4> QED
                BY <4>1, <3>1, <1>2, <1>6
        <3> QED
            BY <3>2, <3>3
    <2> QED
        BY <2>1, <2>2 DEF Tracked
<1>9. \A i \in Partitions : committed'[i] =< position'[i]
    BY <1>2, <1>3, <1>4, OffsetsInOrder
<1> QED
    BY <1>4, <1>6, <1>7, <1>8, <1>9 DEF BusInv, TypeOK, DispatchedBeforeCommit

LEMMA PollStep ==
    ASSUME BusInv, NEW p \in Members, Poll(p)
    PROVE  BusInv'
<1>1. PICK I \in SUBSET Readable(p) : \E upto \in [I -> Offsets] :
        /\ \A i \in I : upto[i] \in Unread(i)
        /\ Polls(p, I, upto)
        /\ polled' = [polled EXCEPT ![p] = Fetched(I, upto)]
    BY DEF Poll
<1> QED
    BY <1>1, GivesStep DEF Poll, history

LEMMA PollErrorStep ==
    ASSUME BusInv, NEW p \in Members, PollError(p)
    PROVE  BusInv'
<1>1. PICK I \in SUBSET Readable(p) : \E upto \in [I -> Offsets] :
        /\ \A i \in I : upto[i] \in Unread(i)
        /\ Polls(p, I, upto)
        /\ skipped' = skipped \cup Fetched(I, upto)
    BY DEF PollError
<1> QED
    BY <1>1, GivesStep DEF PollError

\* A handler takes a record out of the poll.
LEMMA HandleStep ==
    ASSUME BusInv, NEW p \in Members, Handle(p)
    PROVE  BusInv'
<1>1. PICK r \in polled[p] : Ignore(p, r) \/ Disconnect(p, r) \/ DisconnectFails(p, r)
    BY DEF Handle
<1>2. /\ r \in Records /\ run[p] = "handle"
      /\ polled' = [polled EXCEPT ![p] = @ \ {r}]
      /\ dispatched' = dispatched \cup {r}
      /\ UNCHANGED <<topic, owner, run, uncommitted, skipped>>
    BY <1>1 DEF Ignore, Disconnect, DisconnectFails, Handled, BusInv, TypeOK
<1>3. /\ failed' \subseteq Records /\ misrouted' \subseteq Records
      /\ closed' \subseteq Records
    BY <1>1, <1>2 DEF Ignore, Disconnect, DisconnectFails, Noted, BusInv, TypeOK
<1> QED
    BY <1>2, <1>3
       DEF BusInv, TypeOK, GroupTypeOK, Tracked, DispatchedBeforeCommit, topic

\* What a commit makes of the offset of a partition.
LEMMA CommitsPosition ==
    ASSUME BusInv, NEW p \in Members, Commit(p)
    PROVE  /\ committed' \in [Partitions -> Nat]
           /\ \A i \in Partitions :
                \/ committed'[i] = committed[i]
                \/ committed'[i] = position[i] /\ assigned[i] = p
<1>1. ASSUME NEW i \in Partitions
      PROVE  \/ committed'[i] = committed[i]
             \/ committed'[i] = position[i] /\ assigned[i] = p
    <2>1. CASE \E u \in uncommitted[p] : u[1] = i
        <3> DEFINE u == CHOOSE v \in uncommitted[p] : v[1] = i
        <3>1. u \in uncommitted[p] /\ u[1] = i
            BY <2>1
        <3>2. committed'[i] = u[2]
            BY <2>1 DEF Commit
        <3>3. assigned[i] = p /\ u[2] = position[i]
            BY <3>1 DEF BusInv, Tracked
        <3> QED
            BY <3>2, <3>3
    <2>2. CASE ~\E u \in uncommitted[p] : u[1] = i
        BY <2>2 DEF Commit
    <2> QED
        BY <2>1, <2>2
<1>2. committed' = [i \in Partitions |-> committed'[i]]
    BY DEF Commit
<1>3. \A i \in Partitions : committed'[i] \in Nat
    BY <1>1 DEF BusInv, TypeOK, GroupTypeOK
<1> QED
    BY <1>1, <1>2, <1>3

LEMMA CommitStep ==
    ASSUME BusInv, NEW p \in Members, Commit(p)
    PROVE  BusInv'
<1>1. /\ run[p] = "handle" /\ polled[p] = {}
      /\ uncommitted' = [uncommitted EXCEPT ![p] = {}]
      /\ run' = [run EXCEPT ![p] = "poll"]
      /\ log' = log /\ assigned' = assigned /\ position' = position
      /\ owner' = owner /\ polled' = polled /\ history' = history
    BY DEF Commit
<1>2. /\ committed' \in [Partitions -> Nat]
      /\ \A i \in Partitions :
            \/ committed'[i] = committed[i]
            \/ committed'[i] = position[i] /\ assigned[i] = p
    BY CommitsPosition
<1>3. \A i \in Partitions : committed[i] =< committed'[i] /\ committed'[i] =< position[i]
    <2> TAKE i \in Partitions
    <2>1. committed[i] \in Nat /\ position[i] \in Nat /\ committed[i] =< position[i]
        BY OffsetsInOrder
    <2>2. committed'[i] = committed[i] \/ committed'[i] = position[i]
        BY <1>2
    <2> QED
        BY <2>1, <2>2
<1>4. TypeOK'
    BY <1>1, <1>2 DEF BusInv, TypeOK, GroupTypeOK, history
<1>5. \A q \in Members, i \in Partitions : Tracked(q, i)'
    <2> SUFFICES ASSUME NEW q \in Members, NEW i \in Partitions
                 PROVE  Tracked(q, i)'
        OBVIOUS
    <2>1. \A u \in uncommitted'[q] : u[1] = i => assigned'[i] = q /\ u[2] = position'[i]
        BY <1>1 DEF BusInv, TypeOK, Tracked
    <2>2. ASSUME assigned'[i] = q, NEW n \in committed'[i]..(position'[i] - 1)
          PROVE  <<i, n>> \in dispatched' \cup skipped' \cup polled'[q]
        <3>1. assigned[i] = q /\ n \in committed[i]..(position[i] - 1)
            <4>1. committed'[i] \in Nat /\ committed[i] \in Nat /\ position[i] \in Nat
                BY <1>2, OffsetsInOrder
            <4>2. committed[i] =< committed'[i]
                BY <1>3
            <4>3. n \in committed'[i]..(position[i] - 1) /\ assigned[i] = q
                BY <2>2, <1>1
            <4> QED
                BY <4>1, <4>2, <4>3
        <3> QED
            BY <3>1, <1>1 DEF BusInv, Tracked, history
    <2> QED
        BY <2>1, <2>2 DEF Tracked
<1>6. ASSUME NEW i \in Partitions, NEW n \in 0..(committed'[i] - 1)
      PROVE  <<i, n>> \in dispatched \cup skipped
    <2>1. CASE n < committed[i]
        BY <2>1 DEF BusInv, TypeOK, GroupTypeOK, DispatchedBeforeCommit
    <2>2. CASE ~(n < committed[i])
        <3>1. committed'[i] = position[i] /\ assigned[i] = p
            BY <2>2, <1>2 DEF BusInv, TypeOK, GroupTypeOK
        <3>2. n \in committed[i]..(position[i] - 1)
            BY <2>2, <3>1 DEF BusInv, TypeOK, GroupTypeOK
        <3>3. <<i, n>> \in dispatched \cup skipped \cup polled[p]
            BY <3>1, <3>2 DEF BusInv, Tracked
        <3> QED
            BY <3>3, <1>1
    <2> QED
        BY <2>1, <2>2
<1>7. DispatchedBeforeCommit'
    BY <1>1, <1>6 DEF DispatchedBeforeCommit, history
<1>8. \A i \in Partitions : committed'[i] =< position'[i]
    BY <1>1, <1>3
<1>9. \A q \in Members : run'[q] # "handle" => polled'[q] = {}
    BY <1>1 DEF BusInv, TypeOK
<1> QED
    BY <1>4, <1>5, <1>7, <1>8, <1>9 DEF BusInv

LEMMA BusInvStep == BusInv /\ [Next]_vars => BusInv'
BY QuietStep, RebalanceStep, PollStep, PollErrorStep, HandleStep, CommitStep DEF Next

LEMMA BusInvHolds == Spec => []BusInv
<1>1. BusInv /\ [Next]_vars => BusInv'
    BY BusInvStep
<1> QED
    BY <1>1, InitInv, PTL DEF Spec

-----------------------------------------------------------------------------
\* The consumer group keeps its types (consumer.go, and Kafka as the client relies on it).
THEOREM CommandsTypeCorrect == Spec => []TypeOK
<1>1. BusInv => TypeOK
    BY DEF BusInv
<1> QED
    BY <1>1, BusInvHolds, PTL

\* Whatever dies, leaves, is given away or fails between a poll and its commit
\* (Consumer.Run), the group does not go past a command that no handler was given, unless a poll gave it
\* together with an error of another partition.
THEOREM NoCommandPassedOver == Spec => []DispatchedBeforeCommit
<1>1. BusInv => DispatchedBeforeCommit
    BY DEF BusInv
<1> QED
    BY <1>1, BusInvHolds, PTL

\* CommitUncommittedOffsets of a pod that lost a partition does not take back what the
\* next pod committed of it.
THEOREM OffsetsAdvance == Spec => CommittedAdvances
<1>1. BusInv /\ [Next]_vars => [\A i \in Partitions : committed'[i] >= committed[i]]_vars
    <2> SUFFICES ASSUME BusInv, Next
                 PROVE  \A i \in Partitions : committed'[i] >= committed[i]
        OBVIOUS
    <2>1. ASSUME NEW p \in Members, Commit(p)
          PROVE  \A i \in Partitions : committed'[i] >= committed[i]
        <3>1. \A i \in Partitions : committed'[i] = committed[i] \/ committed'[i] = position[i]
            BY <2>1, CommitsPosition
        <3> QED
            BY <3>1, OffsetsInOrder
    <2>2. CASE committed' = committed
        BY <2>2 DEF BusInv, TypeOK, GroupTypeOK
    <2>3. (\E p \in Members : Commit(p)) \/ committed' = committed
        BY DEF Next, Send, Own, Start, Stop, Rebalance, Reassign, Poll, PollError, Handle,
               Ignore, Disconnect, DisconnectFails, Handled, CommitFails, topic, vars
    <2> QED
        BY <2>1, <2>2, <2>3
<1> QED
    BY <1>1, BusInvHolds, PTL DEF Spec, CommittedAdvances
=============================================================================
