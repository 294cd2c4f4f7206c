---------------------------- MODULE KafkaGroup ----------------------------
(***************************************************************************)
(* A topic and one consumer group of Kafka, as far as the services' clients*)
(* rely on them: a partition is an append-only log, one member of the      *)
(* group at a time is assigned to it, and a member that is given a         *)
(* partition reads it from the committed offset on.                        *)
(***************************************************************************)
EXTENDS Naturals, Sequences

CONSTANTS
    Members,       \* consumers of the group
    NoMember,      \* of a partition that nobody is assigned to
    Partitions

ASSUME GroupAssumption == NoMember \notin Members

VARIABLES
    log,           \* the records of a partition
    committed,     \* its committed offset: the next one a new assignee reads
    assigned,      \* the member it is assigned to
    position       \* the next offset that member is given

topic == <<log, committed, assigned, position>>

GroupInit ==
    /\ log = [i \in Partitions |-> <<>>]
    /\ committed = [i \in Partitions |-> 0]
    /\ assigned = [i \in Partitions |-> NoMember]
    /\ position = [i \in Partitions |-> 0]

GroupTypeOK(Values) ==
    /\ log \in [Partitions -> Seq(Values)]
    /\ assigned \in [Partitions -> Members \cup {NoMember}]
    /\ committed \in [Partitions -> Nat] /\ position \in [Partitions -> Nat]
    /\ \A i \in Partitions : committed[i] =< Len(log[i]) /\ position[i] =< Len(log[i])

\* The offsets the assigned member has not been given.
Unread(i) == position[i]..(Len(log[i]) - 1)

Produced(i, value) == [log EXCEPT ![i] = Append(@, value)]

\* Where an assignee of partition i starts.
StartsAt(i) == committed[i]

\* A rebalance gives partition i to member m.
Reassign(i, m) ==
    /\ assigned' = [assigned EXCEPT ![i] = m]
    /\ position' = [position EXCEPT ![i] = StartsAt(i)]

\* Member m leaves the group: its partitions are nobody's until a rebalance.
Leave(m) ==
    assigned' = [i \in Partitions |-> IF assigned[i] = m THEN NoMember ELSE assigned[i]]
=============================================================================
