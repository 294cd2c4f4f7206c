---------------------------- MODULE BotBusProofs ----------------------------
(***************************************************************************)
(* Proofs about BotBus for any members, partitions, events and bounds.     *)
(*                                                                         *)
(* A step is seen through what it does to the answer to one event: it has  *)
(* an Effect at one member, or none.  OneAnswer and Explained are kept by  *)
(* each effect.  What the group went past is settled for good, since a     *)
(* claim is taken back only for a record whose handler failed; so is what  *)
(* an assignee was given, but for the record it has at hand (Behind).      *)
(***************************************************************************)
EXTENDS BotBus, FiniteSetTheorems, TLAPS

LEMMA InitInv == Init => BotInv
BY GroupAssumption, BotBusAssumption
   DEF Init, GroupInit, BotInv, BotTypes, TypeOK, GroupTypeOK, AtHand, OneAnswer, WorksOn,
       Explained, Behind, PastClaim, Answering, Attempts

-----------------------------------------------------------------------------
\* Types.

\* What is known of a record at hand.
LEMMA InHand ==
    ASSUME BotTypes, NEW m \in Members, step[m] \notin {"down", "poll", "ended"}
    PROVE  /\ msg[m] \in handled /\ msg[m] \in Records
           /\ msg[m][1] \in Partitions /\ msg[m][2] \in Nat
           /\ msg[m][2] + 1 \in 0..Len(log[msg[m][1]])
           /\ step[m] \in Answering \cup {"claim", "flush"} => Event(m) \in Events
<1>1. msg[m] \in handled /\ handled \subseteq Records
    BY DEF BotTypes, TypeOK, AtHand
<1>2. msg[m] \in Partitions \X (0..(MaxRecords - 1))
    BY <1>1 DEF Records
<1>3. msg[m][1] \in Partitions /\ msg[m][2] \in Nat
    BY <1>2, BotBusAssumption
<1>4. msg[m][2] < Len(log[msg[m][1]]) /\ Len(log[msg[m][1]]) \in Nat
    BY <1>1, <1>3 DEF BotTypes, TypeOK, GroupTypeOK
<1> QED
    BY <1>1, <1>3, <1>4 DEF BotTypes, AtHand

LEMMA TypesStep == BotTypes /\ Next => BotTypes'
<1> SUFFICES ASSUME BotTypes, Next
             PROVE  BotTypes'
    OBVIOUS
<1> USE GroupAssumption, BotBusAssumption
    DEF BotTypes, TypeOK, At, GoesTo, Event, Value, Records, Attempts, Answering, topic,
           redis, history
<1>1. ASSUME NEW i \in Partitions, NEW v \in Events \cup {Poison, Blank}, Produce(i, v)
      PROVE  BotTypes'
    <2>1. /\ GroupTypeOK(Events \cup {Poison, Blank})'
          /\ \A j \in Partitions : Len(log'[j]) =< MaxRecords
        BY <1>1 DEF Produce, Produced, GroupTypeOK
    <2>2. TypeOK'
        BY <2>1, <1>1 DEF Produce, Produced, AtHand
    <2>3. \A r \in handled' : r[2] < Len(log'[r[1]])
        BY <1>1 DEF Produce, Produced, GroupTypeOK
    <2>4. \A n \in Members : AtHand(n)'
        BY <1>1 DEF Produce, Produced, GroupTypeOK, AtHand
    <2> QED
        BY <2>1, <2>2, <2>3, <2>4
<1>2. ASSUME NEW m \in Members, Start(m)
      PROVE  BotTypes'
    <2>1. /\ GroupTypeOK(Events \cup {Poison, Blank})'
          /\ \A i \in Partitions : Len(log'[i]) =< MaxRecords
        BY <1>2 DEF Start, GroupTypeOK
    <2>2. TypeOK'
        BY <2>1, <1>2 DEF Start, AtHand
    <2>3. \A r \in handled' : r[2] < Len(log'[r[1]])
        BY <1>2 DEF Start, GroupTypeOK
    <2>4. \A n \in Members : AtHand(n)'
        BY <1>2 DEF Start, GroupTypeOK, AtHand
    <2> QED
        BY <2>1, <2>2, <2>3, <2>4
<1>3. ASSUME NEW m \in Members, Stop(m)
      PROVE  BotTypes'
    <2>1. /\ GroupTypeOK(Events \cup {Poison, Blank})'
          /\ \A i \in Partitions : Len(log'[i]) =< MaxRecords
        BY <1>3 DEF Stop, Leave, Queued, GroupTypeOK
    <2>2. TypeOK'
        BY <2>1, <1>3 DEF Stop, Leave, Queued, AtHand
    <2>3. \A r \in handled' : r[2] < Len(log'[r[1]])
        BY <1>3 DEF Stop, Leave, Queued, GroupTypeOK
    <2>4. \A n \in Members : AtHand(n)'
        BY <1>3 DEF Stop, Leave, Queued, GroupTypeOK, AtHand
    <2> QED
        BY <2>1, <2>2, <2>3, <2>4
<1>4. ASSUME NEW i \in Partitions, NEW m \in Members, Rebalance(i, m)
      PROVE  BotTypes'
    <2>1. /\ GroupTypeOK(Events \cup {Poison, Blank})'
          /\ \A j \in Partitions : Len(log'[j]) =< MaxRecords
        BY <1>4 DEF Rebalance, Reassign, StartsAt, GroupTypeOK
    <2>2. TypeOK'
        BY <2>1, <1>4 DEF Rebalance, Reassign, StartsAt, AtHand
    <2>3. \A r \in handled' : r[2] < Len(log'[r[1]])
        BY <1>4 DEF Rebalance, Reassign, StartsAt, GroupTypeOK
    <2>4. \A n \in Members : AtHand(n)'
        BY <1>4 DEF Rebalance, Reassign, StartsAt, GroupTypeOK, AtHand
    <2> QED
        BY <2>1, <2>2, <2>3, <2>4
<1>5. ASSUME NEW m \in Members, NEW e \in Events, Deliver(m, e)
      PROVE  BotTypes'
    <2>1. /\ GroupTypeOK(Events \cup {Poison, Blank})'
          /\ \A i \in Partitions : Len(log'[i]) =< MaxRecords
        BY <1>5 DEF Deliver, GroupTypeOK
    <2>2. TypeOK'
        BY <2>1, <1>5 DEF Deliver, AtHand
    <2>3. \A r \in handled' : r[2] < Len(log'[r[1]])
        BY <1>5 DEF Deliver, GroupTypeOK
    <2>4. \A n \in Members : AtHand(n)'
        BY <1>5 DEF Deliver, GroupTypeOK, AtHand
    <2> QED
        BY <2>1, <2>2, <2>3, <2>4
<1>6. ASSUME NEW m \in Members, NEW e \in Events, Drop(m, e)
      PROVE  BotTypes'
    <2>1. /\ GroupTypeOK(Events \cup {Poison, Blank})'
          /\ \A i \in Partitions : Len(log'[i]) =< MaxRecords
        BY <1>6 DEF Drop, GroupTypeOK
    <2>2. TypeOK'
        BY <2>1, <1>6 DEF Drop, AtHand
    <2>3. \A r \in handled' : r[2] < Len(log'[r[1]])
        BY <1>6 DEF Drop, GroupTypeOK
    <2>4. \A n \in Members : AtHand(n)'
        BY <1>6 DEF Drop, GroupTypeOK, AtHand
    <2> QED
        BY <2>1, <2>2, <2>3, <2>4
<1>7. ASSUME NEW m \in Members, Poll(m)
      PROVE  BotTypes'
    <2>1. /\ GroupTypeOK(Events \cup {Poison, Blank})'
          /\ \A i \in Partitions : Len(log'[i]) =< MaxRecords
        BY <1>7 DEF Poll, Unread, GroupTypeOK
    <2>2. TypeOK'
        <3>1. PICK i \in Partitions :
                /\ Unread(i) # {} /\ msg' = [msg EXCEPT ![m] = <<i, position[i]>>]
                /\ handled' = handled \cup {<<i, position[i]>>}
            BY <1>7 DEF Poll
        <3>2. <<i, position[i]>> \in Records
            BY <3>1 DEF Unread, GroupTypeOK
        <3> QED
            BY <2>1, <3>1, <3>2, <1>7 DEF Poll
    <2>3. \A r \in handled' : r[2] < Len(log'[r[1]])
        BY <1>7 DEF Poll, Unread, GroupTypeOK
    <2>4. \A n \in Members : AtHand(n)'
        BY <1>7 DEF Poll, Unread, GroupTypeOK, AtHand
    <2> QED
        BY <2>1, <2>2, <2>3, <2>4
<1>8. ASSUME NEW m \in Members, Commit(m)
      PROVE  BotTypes'
    <2>1. /\ GroupTypeOK(Events \cup {Poison, Blank})'
          /\ \A i \in Partitions : Len(log'[i]) =< MaxRecords
        <3>1. msg[m][1] \in Partitions /\ msg[m][2] + 1 \in 0..Len(log[msg[m][1]])
            BY <1>8, InHand DEF Commit
        <3>2. committed' = [committed EXCEPT ![msg[m][1]] = msg[m][2] + 1]
            BY <1>8 DEF Commit, CommitsRecord
        <3> HIDE DEF Records
        <3> QED
            BY <3>1, <3>2, <1>8 DEF Commit, GroupTypeOK
    <2>2. TypeOK'
        BY <2>1, <1>8 DEF Commit, CommitsRecord, PollsAgain, AtHand
    <2>3. \A r \in handled' : r[2] < Len(log'[r[1]])
        <3>1. msg[m][1] \in Partitions /\ msg[m][2] + 1 \in 0..Len(log[msg[m][1]])
            BY <1>8, InHand DEF Commit
        <3>2. committed' = [committed EXCEPT ![msg[m][1]] = msg[m][2] + 1]
            BY <1>8 DEF Commit, CommitsRecord
        <3> HIDE DEF Records
        <3> QED
            BY <3>1, <3>2, <1>8 DEF Commit, GroupTypeOK
    <2>4. \A n \in Members : AtHand(n)'
        BY <1>8 DEF Commit, CommitsRecord, PollsAgain, GroupTypeOK, AtHand
    <2> QED
        BY <2>1, <2>2, <2>3, <2>4
<1>9. ASSUME NEW m \in Members, CommitRaises(m)
      PROVE  BotTypes'
    <2>1. /\ GroupTypeOK(Events \cup {Poison, Blank})'
          /\ \A i \in Partitions : Len(log'[i]) =< MaxRecords
        BY <1>9 DEF CommitRaises, PollsAgain, Leave, GroupTypeOK
    <2>2. TypeOK'
        <3>1. /\ step' \in [Members -> Answering \cup
                   {"down", "poll", "skip", "claim", "flush", "commit", "ended"}]
              /\ msg' \in [Members -> Records \cup {NoRecord}]
              /\ attempt' \in [Members -> 1..Attempts]
            <4>1. CASE PollsAgain(m)
                BY <4>1 DEF PollsAgain
            <4>2. CASE /\ step' = [step EXCEPT ![m] = "ended"]
                       /\ msg' = [msg EXCEPT ![m] = NoRecord] /\ attempt' = attempt
                BY <4>2
            <4> QED
                BY <4>1, <4>2, <1>9 DEF CommitRaises
        <3> QED
            BY <2>1, <3>1, <1>9 DEF CommitRaises
    <2>3. \A r \in handled' : r[2] < Len(log'[r[1]])
        BY <1>9 DEF CommitRaises, PollsAgain, Leave, GroupTypeOK
    <2>4. \A n \in Members : AtHand(n)'
        <3>1. /\ msg' = [msg EXCEPT ![m] = NoRecord] /\ log' = log /\ handled' = handled
              /\ \/ step' = [step EXCEPT ![m] = "poll"]
                 \/ step' = [step EXCEPT ![m] = "ended"]
            BY <1>9 DEF CommitRaises, PollsAgain
        <3> QED
            BY <3>1 DEF AtHand
    <2> QED
        BY <2>1, <2>2, <2>3, <2>4
<1>10. ASSUME NEW m \in Members, Claim(m)
      PROVE  BotTypes'
    <2>1. /\ GroupTypeOK(Events \cup {Poison, Blank})'
          /\ \A i \in Partitions : Len(log'[i]) =< MaxRecords
        BY <1>10 DEF Claim, GroupTypeOK
    <2>2. TypeOK'
        BY <2>1, <1>10 DEF Claim, AtHand
    <2>3. \A r \in handled' : r[2] < Len(log'[r[1]])
        BY <1>10 DEF Claim, GroupTypeOK
    <2>4. \A n \in Members : AtHand(n)'
        BY <1>10 DEF Claim, GroupTypeOK, AtHand
    <2> QED
        BY <2>1, <2>2, <2>3, <2>4
<1>11. ASSUME NEW m \in Members, Duplicate(m)
      PROVE  BotTypes'
    <2>1. /\ GroupTypeOK(Events \cup {Poison, Blank})'
          /\ \A i \in Partitions : Len(log'[i]) =< MaxRecords
        BY <1>11 DEF Duplicate, GroupTypeOK
    <2>2. TypeOK'
        BY <2>1, <1>11 DEF Duplicate, AtHand
    <2>3. \A r \in handled' : r[2] < Len(log'[r[1]])
        BY <1>11 DEF Duplicate, GroupTypeOK
    <2>4. \A n \in Members : AtHand(n)'
        BY <1>11 DEF Duplicate, GroupTypeOK, AtHand
    <2> QED
        BY <2>1, <2>2, <2>3, <2>4
<1>12. ASSUME NEW m \in Members, ClaimRaises(m)
      PROVE  BotTypes'
    <2>1. /\ GroupTypeOK(Events \cup {Poison, Blank})'
          /\ \A i \in Partitions : Len(log'[i]) =< MaxRecords
        BY <1>12 DEF ClaimRaises, PollsAgain, GroupTypeOK
    <2>2. TypeOK'
        <3>1. Event(m) \in Events /\ msg[m] \in handled
            BY <1>12, InHand DEF ClaimRaises, Answering
        <3>2. /\ step' \in [Members -> Answering \cup
                   {"down", "poll", "skip", "claim", "flush", "commit", "ended"}]
              /\ msg' \in [Members -> Records \cup {NoRecord}]
              /\ attempt' \in [Members -> 1..Attempts]
            BY <1>12 DEF ClaimRaises, PollsAgain
        <3>3. claims' \subseteq Events /\ severed' \subseteq Events /\ failed' \subseteq handled
            BY <3>1, <1>12 DEF ClaimRaises
        <3> QED
            BY <2>1, <3>2, <3>3, <1>12 DEF ClaimRaises
    <2>3. \A r \in handled' : r[2] < Len(log'[r[1]])
        BY <1>12 DEF ClaimRaises, PollsAgain, GroupTypeOK
    <2>4. \A n \in Members : AtHand(n)'
        BY <1>12 DEF ClaimRaises, PollsAgain, GroupTypeOK, AtHand
    <2> QED
        BY <2>1, <2>2, <2>3, <2>4
<1>13. ASSUME NEW m \in Members, Retrieve(m)
      PROVE  BotTypes'
    <2>1. /\ GroupTypeOK(Events \cup {Poison, Blank})'
          /\ \A i \in Partitions : Len(log'[i]) =< MaxRecords
        BY <1>13 DEF Retrieve, GroupTypeOK
    <2>2. TypeOK'
        BY <2>1, <1>13 DEF Retrieve, AtHand
    <2>3. \A r \in handled' : r[2] < Len(log'[r[1]])
        BY <1>13 DEF Retrieve, GroupTypeOK
    <2>4. \A n \in Members : AtHand(n)'
        BY <1>13 DEF Retrieve, GroupTypeOK, AtHand
    <2> QED
        BY <2>1, <2>2, <2>3, <2>4
<1>14. ASSUME NEW m \in Members, Generate(m)
      PROVE  BotTypes'
    <2>1. /\ GroupTypeOK(Events \cup {Poison, Blank})'
          /\ \A i \in Partitions : Len(log'[i]) =< MaxRecords
        BY <1>14 DEF Generate, GroupTypeOK
    <2>2. TypeOK'
        BY <2>1, <1>14 DEF Generate, AtHand
    <2>3. \A r \in handled' : r[2] < Len(log'[r[1]])
        BY <1>14 DEF Generate, GroupTypeOK
    <2>4. \A n \in Members : AtHand(n)'
        BY <1>14 DEF Generate, GroupTypeOK, AtHand
    <2> QED
        BY <2>1, <2>2, <2>3, <2>4
<1>15. ASSUME NEW m \in Members, GenerateFails(m)
      PROVE  BotTypes'
    <2>1. /\ GroupTypeOK(Events \cup {Poison, Blank})'
          /\ \A i \in Partitions : Len(log'[i]) =< MaxRecords
        BY <1>15 DEF GenerateFails, GroupTypeOK
    <2>2. TypeOK'
        <3>1. step' \in [Members -> Answering \cup
                   {"down", "poll", "skip", "claim", "flush", "commit", "ended"}]
            BY <1>15 DEF GenerateFails
        <3>2. attempt' \in [Members -> 1..Attempts]
            <4>1. attempt[m] \in 1..3
                <5>1. attempt \in [Members -> 1..3]
                    OBVIOUS
                <5> QED
                    BY <5>1, Zenon
            <4>2. \/ attempt' = attempt
                  \/ attempt[m] < 3 /\ attempt' = [attempt EXCEPT ![m] = attempt[m] + 1]
                BY <1>15 DEF GenerateFails
            <4>3. CASE attempt[m] < 3 /\ attempt' = [attempt EXCEPT ![m] = attempt[m] + 1]
                <5>1. attempt[m] + 1 \in 1..3
                    BY <4>1, <4>3
                <5> QED
                    BY <4>3, <5>1
            <4> QED
                BY <4>2, <4>3
        <3> QED
            BY <2>1, <3>1, <3>2, <1>15 DEF GenerateFails
    <2>3. \A r \in handled' : r[2] < Len(log'[r[1]])
        BY <1>15 DEF GenerateFails, GroupTypeOK
    <2>4. \A n \in Members : AtHand(n)'
        BY <1>15 DEF GenerateFails, GroupTypeOK, AtHand
    <2> QED
        BY <2>1, <2>2, <2>3, <2>4
<1>16. ASSUME NEW m \in Members, Send(m)
      PROVE  BotTypes'
    <2>1. /\ GroupTypeOK(Events \cup {Poison, Blank})'
          /\ \A i \in Partitions : Len(log'[i]) =< MaxRecords
        BY <1>16 DEF Send, GroupTypeOK
    <2>2. TypeOK'
        <3>1. Event(m) \in Events
            BY <1>16, InHand DEF Send, Answering
        <3>2. step' \in [Members -> Answering \cup
                   {"down", "poll", "skip", "claim", "flush", "commit", "ended"}]
            BY <1>16 DEF Send
        <3>3. queue' \in [Members -> [Events -> Nat]]
            <4>1. queue[m][Event(m)] + 1 \in Nat
                BY <3>1
            <4>2. [queue[m] EXCEPT ![Event(m)] = queue[m][Event(m)] + 1] \in [Events -> Nat]
                BY <4>1, <3>1
            <4>3. \/ queue' = queue
                  \/ queue' = [queue EXCEPT ![m] =
                        [queue[m] EXCEPT ![Event(m)] = queue[m][Event(m)] + 1]]
                BY <1>16 DEF Send
            <4> QED
                BY <4>2, <4>3
        <3> QED
            BY <2>1, <3>2, <3>3, <1>16 DEF Send
    <2>3. \A r \in handled' : r[2] < Len(log'[r[1]])
        BY <1>16 DEF Send, GroupTypeOK
    <2>4. \A n \in Members : AtHand(n)'
        BY <1>16 DEF Send, GroupTypeOK, AtHand
    <2> QED
        BY <2>1, <2>2, <2>3, <2>4
<1>17. ASSUME NEW m \in Members, Flushed(m)
      PROVE  BotTypes'
    <2>1. /\ GroupTypeOK(Events \cup {Poison, Blank})'
          /\ \A i \in Partitions : Len(log'[i]) =< MaxRecords
        BY <1>17 DEF Flushed, GroupTypeOK
    <2>2. TypeOK'
        BY <2>1, <1>17 DEF Flushed, AtHand
    <2>3. \A r \in handled' : r[2] < Len(log'[r[1]])
        BY <1>17 DEF Flushed, GroupTypeOK
    <2>4. \A n \in Members : AtHand(n)'
        BY <1>17 DEF Flushed, GroupTypeOK, AtHand
    <2> QED
        BY <2>1, <2>2, <2>3, <2>4
<1>18. ASSUME NEW m \in Members, Release(m)
      PROVE  BotTypes'
    <2>1. /\ GroupTypeOK(Events \cup {Poison, Blank})'
          /\ \A i \in Partitions : Len(log'[i]) =< MaxRecords
        BY <1>18 DEF Release, PollsAgain, GroupTypeOK
    <2>2. TypeOK'
        <3>1. Event(m) \in Events /\ msg[m] \in handled
            BY <1>18, InHand DEF Release, Answering
        <3>2. /\ step' \in [Members -> Answering \cup
                   {"down", "poll", "skip", "claim", "flush", "commit", "ended"}]
              /\ msg' \in [Members -> Records \cup {NoRecord}]
              /\ attempt' \in [Members -> 1..Attempts]
            BY <1>18 DEF Release, PollsAgain
        <3>3. claims' \subseteq Events /\ severed' \subseteq Events /\ failed' \subseteq handled
            BY <3>1, <1>18 DEF Release
        <3> QED
            BY <2>1, <3>2, <3>3, <1>18 DEF Release
    <2>3. \A r \in handled' : r[2] < Len(log'[r[1]])
        BY <1>18 DEF Release, PollsAgain, GroupTypeOK
    <2>4. \A n \in Members : AtHand(n)'
        BY <1>18 DEF Release, PollsAgain, GroupTypeOK, AtHand
    <2> QED
        BY <2>1, <2>2, <2>3, <2>4
<1> QED
    BY <1>1, <1>2, <1>3, <1>4, <1>5, <1>6, <1>7, <1>8, <1>9, <1>10, <1>11, <1>12, <1>13,
       <1>14, <1>15, <1>16, <1>17, <1>18
       DEF Next, Works
-----------------------------------------------------------------------------
\* Answers.  What a step does to the answer to e: nothing, or it has one of these
\* effects at one member.

\* Nothing changes but what member m does.
OthersStay(m, e) ==
    \A n \in Members \ {m} : /\ WorksOn(n, e)' <=> WorksOn(n, e)
                            /\ queue'[n][e] = queue[n][e]

Quiet(m, e) ==
    /\ OthersStay(m, e) /\ (WorksOn(m, e)' <=> WorksOn(m, e)) /\ queue'[m][e] = queue[m][e]
    /\ outbound'[e] = outbound[e] /\ (e \in claims' <=> e \in claims)

Idle(e) ==
    /\ \A m \in Members : (WorksOn(m, e)' <=> WorksOn(m, e)) /\ queue'[m][e] = queue[m][e]
    /\ outbound'[e] = outbound[e] /\ (e \in claims' <=> e \in claims)

Takes(m, e) ==
    /\ e \notin claims /\ e \in claims' /\ outbound'[e] = outbound[e]
    /\ OthersStay(m, e) /\ queue'[m][e] = queue[m][e]
    /\ \/ WorksOn(m, e)'
       \/ e \in severed' /\ (WorksOn(m, e)' <=> WorksOn(m, e))

Hands(m, e) ==
    /\ WorksOn(m, e) /\ ~WorksOn(m, e)' /\ queue'[m][e] = queue[m][e] + 1
    /\ OthersStay(m, e) /\ outbound'[e] = outbound[e] /\ (e \in claims' <=> e \in claims)

Delivers(m, e) ==
    /\ queue[m][e] > 0 /\ queue'[m][e] = queue[m][e] - 1 /\ outbound'[e] = outbound[e] + 1
    /\ (WorksOn(m, e)' <=> WorksOn(m, e)) /\ OthersStay(m, e) /\ (e \in claims' <=> e \in claims)

Loses(m, e) ==
    /\ e \in severed' /\ queue'[m][e] =< queue[m][e] /\ (WorksOn(m, e)' => WorksOn(m, e))
    /\ OthersStay(m, e) /\ outbound'[e] = outbound[e] /\ (e \in claims' <=> e \in claims)

GivesUp(m, e) ==
    /\ WorksOn(m, e) /\ ~WorksOn(m, e)' /\ e \notin claims'
    /\ OthersStay(m, e) /\ queue'[m][e] = queue[m][e] /\ outbound'[e] = outbound[e]

Effect(m, e) ==
    \/ Quiet(m, e) \/ Takes(m, e) \/ Hands(m, e) \/ Delivers(m, e)
    \/ Loses(m, e) \/ GivesUp(m, e)

\* A value in the log stays.
LEMMA ValueStays ==
    ASSUME BotTypes, Next, NEW i \in Partitions, NEW k \in Nat, k < Len(log[i])
    PROVE  log'[i][k + 1] = log[i][k + 1]
<1>1. k + 1 \in 1..Len(log[i])
    BY DEF BotTypes, TypeOK, GroupTypeOK
<1>2. CASE log' = log
    BY <1>2
<1>3. ASSUME NEW j \in Partitions, NEW v \in Events \cup {Poison, Blank}, Produce(j, v)
      PROVE  log'[i][k + 1] = log[i][k + 1]
    <2>1. log \in [Partitions -> Seq(Events \cup {Poison, Blank})]
        BY DEF BotTypes, TypeOK, GroupTypeOK
    <2>2. log' = [log EXCEPT ![j] = Append(log[j], v)]
        BY <1>3 DEF Produce, Produced
    <2> QED
        BY <2>1, <2>2, <1>1
<1>4. log' = log \/ \E j \in Partitions, v \in Events \cup {Poison, Blank} : Produce(j, v)
    BY DEF Next, Start, Stop, Works, Poll, Commit, CommitRaises, Claim, Duplicate,
           ClaimRaises, Retrieve, Generate, GenerateFails, Send, Flushed, Release, Deliver,
           Drop, Rebalance, topic
<1> QED
    BY <1>2, <1>3, <1>4

LEMMA HandledValueStays ==
    ASSUME BotTypes, Next, NEW r \in handled
    PROVE  log'[r[1]][r[2] + 1] = Value(r)
<1>1. r[1] \in Partitions /\ r[2] \in Nat /\ r[2] < Len(log[r[1]])
    BY BotBusAssumption DEF BotTypes, TypeOK, Records
<1> QED
    BY <1>1, ValueStays DEF Value

\* A member that does nothing works on what it did.
LEMMA OneMoves ==
    ASSUME BotTypes, NEW m \in Members, log' = log, NEW e \in Events,
           \A n \in Members \ {m} :
               step'[n] = step[n] /\ msg'[n] = msg[n] /\ queue'[n] = queue[n]
    PROVE  OthersStay(m, e)
BY DEF OthersStay, WorksOn, Event, Value

\* What befalls the topic is nothing to the answers.
LEMMA TopicIsIdle ==
    ASSUME BotTypes, Next, NEW e \in Events, NEW i \in Partitions,
           \/ \E m \in Members : Rebalance(i, m)
           \/ \E v \in Events \cup {Poison, Blank} : Produce(i, v)
    PROVE  Idle(e)
<1>1. ASSUME NEW m \in Members, Rebalance(i, m)
      PROVE  Idle(e)
    BY <1>1 DEF Rebalance, redis, Idle, WorksOn, Event, Value
<1>2. ASSUME NEW v \in Events \cup {Poison, Blank}, Produce(i, v)
      PROVE  Idle(e)
    <2>1. step' = step /\ msg' = msg /\ queue' = queue /\ claims' = claims /\ outbound' = outbound
        BY <1>2 DEF Produce, redis
    <2>2. \A n \in Members : step[n] \in Answering => msg[n] \in handled
        BY InHand DEF Answering
    <2>3. \A n \in Members : step[n] \in Answering => Event(n)' = Event(n)
        BY <2>1, <2>2, HandledValueStays DEF Event, Value
    <2>4. \A n \in Members : WorksOn(n, e)' <=> WorksOn(n, e)
        BY <2>1, <2>3 DEF WorksOn
    <2> QED
        BY <2>1, <2>4 DEF Idle
<1> QED
    BY <1>1, <1>2

LEMMA AnswerStep ==
    ASSUME BotTypes, Next, NEW e \in Events
    PROVE  (\E m \in Members : Effect(m, e)) \/ Idle(e)
<1>1. ASSUME NEW m \in Members, Start(m)
      PROVE  Effect(m, e)
    <2>1. OthersStay(m, e)
        BY <1>1, OneMoves DEF Start, GoesTo, At, topic, redis, history, BotTypes, TypeOK
    <2>2. ~WorksOn(m, e) /\ ~WorksOn(m, e)'
        BY <1>1
           DEF Start, GoesTo, At, topic, redis, history, WorksOn, Answering, BotTypes,
               TypeOK
    <2> QED
        BY <2>1, <2>2, <1>1 DEF Start, GoesTo, At, topic, redis, history, Effect, Quiet
<1>2. ASSUME NEW m \in Members, Stop(m)
      PROVE  Effect(m, e)
    <2>1. OthersStay(m, e)
        BY <1>2, OneMoves DEF Stop, GoesTo, BotTypes, TypeOK
    <2>2. ~WorksOn(m, e)' /\ queue'[m][e] = 0 /\ queue[m][e] \in Nat
        BY <1>2 DEF Stop, GoesTo, WorksOn, Answering, BotTypes, TypeOK
    <2>3. CASE WorksOn(m, e) \/ queue[m][e] > 0
        <3>1. e \in severed'
            BY <1>2, <2>3 DEF Stop, Queued, WorksOn
        <3> QED
            BY <2>1, <2>2, <3>1, <1>2 DEF Effect, Loses, Stop, redis
    <2>4. CASE ~WorksOn(m, e) /\ ~(queue[m][e] > 0)
        BY <2>1, <2>2, <2>4, <1>2 DEF Effect, Quiet, Stop, redis
    <2> QED
        BY <2>3, <2>4
<1>3. ASSUME NEW m \in Members, Poll(m)
      PROVE  Effect(m, e)
    <2>1. OthersStay(m, e)
        BY <1>3, OneMoves DEF Poll, GoesTo, At, topic, redis, BotTypes, TypeOK
    <2>2. ~WorksOn(m, e) /\ ~WorksOn(m, e)'
        BY <1>3 DEF Poll, GoesTo, At, topic, redis, WorksOn, Answering, BotTypes, TypeOK
    <2> QED
        BY <2>1, <2>2, <1>3 DEF Poll, GoesTo, At, topic, redis, Effect, Quiet
<1>4. ASSUME NEW m \in Members, Commit(m)
      PROVE  Effect(m, e)
    <2>1. OthersStay(m, e)
        BY <1>4, OneMoves DEF Commit, PollsAgain, GoesTo, redis, BotTypes, TypeOK
    <2>2. ~WorksOn(m, e) /\ ~WorksOn(m, e)'
        BY <1>4 DEF Commit, PollsAgain, GoesTo, redis, WorksOn, Answering, BotTypes, TypeOK
    <2> QED
        BY <2>1, <2>2, <1>4 DEF Commit, PollsAgain, GoesTo, redis, Effect, Quiet
<1>5. ASSUME NEW m \in Members, CommitRaises(m)
      PROVE  Effect(m, e)
    <2>1. OthersStay(m, e)
        BY <1>5, OneMoves DEF CommitRaises, PollsAgain, GoesTo, At, redis, BotTypes, TypeOK
    <2>2. ~WorksOn(m, e) /\ ~WorksOn(m, e)'
        BY <1>5
           DEF CommitRaises, PollsAgain, GoesTo, At, redis, WorksOn, Answering, BotTypes,
               TypeOK
    <2> QED
        BY <2>1, <2>2, <1>5 DEF CommitRaises, PollsAgain, GoesTo, At, redis, Effect, Quiet
<1>6. ASSUME NEW m \in Members, Claim(m)
      PROVE  Effect(m, e)
    <2>1. OthersStay(m, e)
        BY <1>6, OneMoves DEF Claim, GoesTo, At, topic, redis, history, BotTypes, TypeOK
    <2>2. ~WorksOn(m, e) /\ (WorksOn(m, e)' <=> Event(m) = e) /\ queue' = queue
        BY <1>6
           DEF Claim, GoesTo, At, WorksOn, Answering, Event, Value, topic, BotTypes, TypeOK
    <2> QED
        BY <2>1, <2>2, <1>6 DEF Claim, Effect, Quiet, Takes
<1>7. ASSUME NEW m \in Members, Duplicate(m) \/ Flushed(m)
      PROVE  Effect(m, e)
    <2>1. OthersStay(m, e)
        BY <1>7, OneMoves
           DEF Duplicate, Flushed, GoesTo, At, topic, redis, history, BotTypes, TypeOK
    <2>2. ~WorksOn(m, e) /\ ~WorksOn(m, e)' /\ queue' = queue
        BY <1>7 DEF Duplicate, Flushed, GoesTo, At, WorksOn, Answering, BotTypes, TypeOK
    <2> QED
        BY <2>1, <2>2, <1>7 DEF Duplicate, Flushed, redis, Effect, Quiet
<1>8. ASSUME NEW m \in Members, ClaimRaises(m)
      PROVE  Effect(m, e)
    <2>1. OthersStay(m, e)
        BY <1>8, OneMoves DEF ClaimRaises, PollsAgain, GoesTo, At, topic, BotTypes, TypeOK
    <2>2. ~WorksOn(m, e) /\ ~WorksOn(m, e)' /\ queue' = queue /\ outbound' = outbound
        BY <1>8
           DEF ClaimRaises, PollsAgain, GoesTo, At, WorksOn, Answering, BotTypes, TypeOK
    <2>3. \/ claims' = claims
          \/ Event(m) \notin claims /\ claims' = claims \cup {Event(m)} /\ Event(m) \in severed'
        BY <1>8 DEF ClaimRaises
    <2> QED
        BY <2>1, <2>2, <2>3 DEF Effect, Quiet, Takes
<1>9. ASSUME NEW m \in Members, Retrieve(m) \/ Generate(m) \/ GenerateFails(m)
      PROVE  Effect(m, e)
    <2>1. OthersStay(m, e)
        BY <1>9, OneMoves
           DEF Retrieve, Generate, GenerateFails, GoesTo, At, topic, redis, history,
               BotTypes, TypeOK
    <2>2. (WorksOn(m, e)' <=> WorksOn(m, e)) /\ queue' = queue
        BY <1>9
           DEF Retrieve, Generate, GenerateFails, GoesTo, At, topic, redis, history,
               WorksOn, Event, Value, Answering, BotTypes, TypeOK
    <2> QED
        BY <2>1, <2>2, <1>9 DEF Retrieve, Generate, GenerateFails, redis, Effect, Quiet
<1>10. ASSUME NEW m \in Members, Send(m)
      PROVE  Effect(m, e)
    <2>1. OthersStay(m, e)
        BY <1>10, OneMoves DEF Send, GoesTo, At, topic, redis, history, BotTypes, TypeOK
    <2>2. outbound' = outbound /\ claims' = claims
        BY <1>10 DEF Send, redis
    <2>3. WorksOn(m, e) <=> Event(m) = e
        BY <1>10 DEF Send, At, WorksOn, Answering
    <2>4. CASE GoesTo(m, "release") /\ queue' = queue
        <3>1. WorksOn(m, e)' <=> Event(m) = e
            BY <2>4, <1>10
               DEF Send, GoesTo, WorksOn, Answering, Event, Value, topic, BotTypes, TypeOK
        <3> QED
            BY <2>1, <2>2, <2>3, <2>4, <3>1 DEF Effect, Quiet
    <2>5. CASE GoesTo(m, "flush") /\ queue' = [queue EXCEPT ![m][Event(m)] = @ + 1]
        <3>1. ~WorksOn(m, e)'
            BY <2>5 DEF GoesTo, WorksOn, Answering, BotTypes, TypeOK
        <3>2. queue'[m][e] = IF Event(m) = e THEN queue[m][e] + 1 ELSE queue[m][e]
            BY <2>5 DEF BotTypes, TypeOK
        <3> QED
            BY <2>1, <2>2, <2>3, <3>1, <3>2 DEF Effect, Quiet, Hands
    <2> QED
        BY <2>4, <2>5, <1>10 DEF Send
<1>11. ASSUME NEW m \in Members, Release(m)
      PROVE  Effect(m, e)
    <2>1. OthersStay(m, e)
        BY <1>11, OneMoves
           DEF Release, PollsAgain, GoesTo, At, topic, redis, history, BotTypes, TypeOK
    <2>2. outbound' = outbound /\ queue' = queue /\ (WorksOn(m, e) <=> Event(m) = e)
        BY <1>11 DEF Release, At, WorksOn, Answering
    <2>3. ~WorksOn(m, e)'
        BY <1>11 DEF Release, PollsAgain, GoesTo, WorksOn, Answering, BotTypes, TypeOK
    <2>4. queue[m][e] \in Nat
        BY DEF BotTypes, TypeOK
    <2>5. \/ claims' = claims \ {Event(m)}
          \/ claims' = claims /\ Event(m) \in severed'
        BY <1>11 DEF Release
    <2> QED
        BY <2>1, <2>2, <2>3, <2>4, <2>5 DEF Effect, Quiet, Loses, GivesUp
<1>12. ASSUME NEW m \in Members, NEW f \in Events, Deliver(m, f) \/ Drop(m, f)
      PROVE  Effect(m, e)
    <2>1. OthersStay(m, e) /\ (WorksOn(m, e)' <=> WorksOn(m, e)) /\ claims' = claims
        <3>1. /\ log' = log /\ step' = step /\ msg' = msg /\ claims' = claims
              /\ queue' = [queue EXCEPT ![m][f] = @ - 1]
            BY <1>12 DEF Deliver, Drop, topic, redis
        <3>2. OthersStay(m, e)
            BY <3>1, OneMoves DEF BotTypes, TypeOK
        <3> QED
            BY <3>1, <3>2 DEF WorksOn, Event, Value
    <2>2. queue[m][e] \in Nat /\ outbound[e] \in Nat
        BY DEF BotTypes, TypeOK
    <2>3. queue'[m][e] = IF f = e THEN queue[m][e] - 1 ELSE queue[m][e]
        BY <1>12 DEF Deliver, Drop, BotTypes, TypeOK
    <2>4. CASE Deliver(m, f)
        <3>1. outbound'[e] = IF f = e THEN outbound[e] + 1 ELSE outbound[e]
            BY <2>4 DEF Deliver, BotTypes, TypeOK
        <3> QED
            BY <2>1, <2>2, <2>3, <2>4, <3>1 DEF Deliver, Effect, Quiet, Delivers
    <2>5. CASE Drop(m, f)
        <3>1. outbound' = outbound /\ f \in severed'
            BY <2>5 DEF Drop, redis
        <3> QED
            BY <2>1, <2>2, <2>3, <3>1 DEF Effect, Quiet, Loses
    <2> QED
        BY <2>4, <2>5, <1>12
<1>13. ASSUME NEW i \in Partitions, \/ \E m \in Members : Rebalance(i, m)
                                   \/ \E v \in Events \cup {Poison, Blank} : Produce(i, v)
      PROVE  Idle(e)
    BY <1>13, TopicIsIdle
<1> QED
    BY <1>1, <1>2, <1>3, <1>4, <1>5, <1>6, <1>7, <1>8, <1>9, <1>10, <1>11, <1>12, <1>13
    DEF Next, Works

LEMMA AnswerInvStep ==
    ASSUME BotTypes, BotTypes', Next, NEW e \in Events, OneAnswer(e), Explained(e)
    PROVE  OneAnswer(e)' /\ Explained(e)'
<1>1. /\ \A n \in Members : queue[n][e] \in Nat /\ queue'[n][e] \in Nat
      /\ outbound[e] \in Nat /\ outbound'[e] \in Nat /\ (e \in severed => e \in severed')
    <2>1. severed \subseteq severed'
        BY DEF Next, Works, Produce, Start, Stop, Rebalance, Deliver, Drop, Poll, Commit,
               CommitRaises, Claim, Duplicate, ClaimRaises, Retrieve, Generate,
               GenerateFails, Send, Flushed, Release, history
    <2> QED
        BY <2>1 DEF BotTypes, TypeOK
<1>2. CASE Idle(e)
    BY <1>1, <1>2 DEF Idle, OneAnswer, Explained
<1>3. ASSUME NEW m \in Members, Quiet(m, e)
      PROVE  OneAnswer(e)' /\ Explained(e)'
    <2>1. OneAnswer(e)'
        BY <1>1, <1>3 DEF Quiet, OthersStay, OneAnswer
    <2>2. Explained(e)'
        BY <1>1, <1>3 DEF Quiet, OthersStay, OneAnswer, Explained
    <2> QED
        BY <2>1, <2>2
<1>4. ASSUME NEW m \in Members, Takes(m, e)
      PROVE  OneAnswer(e)' /\ Explained(e)'
    <2>1. OneAnswer(e)'
        BY <1>1, <1>4 DEF Takes, OthersStay, OneAnswer
    <2>2. Explained(e)'
        BY <1>1, <1>4 DEF Takes, OthersStay, OneAnswer, Explained
    <2> QED
        BY <2>1, <2>2
<1>5. ASSUME NEW m \in Members, Hands(m, e)
      PROVE  OneAnswer(e)' /\ Explained(e)'
    <2>1. OneAnswer(e)'
        BY <1>1, <1>5 DEF Hands, OthersStay, OneAnswer
    <2>2. Explained(e)'
        BY <1>1, <1>5 DEF Hands, OthersStay, OneAnswer, Explained
    <2> QED
        BY <2>1, <2>2
<1>6. ASSUME NEW m \in Members, Delivers(m, e)
      PROVE  OneAnswer(e)' /\ Explained(e)'
    <2>1. OneAnswer(e)'
        BY <1>1, <1>6 DEF Delivers, OthersStay, OneAnswer
    <2>2. Explained(e)'
        BY <1>1, <1>6 DEF Delivers, OthersStay, OneAnswer, Explained
    <2> QED
        BY <2>1, <2>2
<1>7. ASSUME NEW m \in Members, Loses(m, e)
      PROVE  OneAnswer(e)' /\ Explained(e)'
    <2>1. OneAnswer(e)'
        BY <1>1, <1>7 DEF Loses, OthersStay, OneAnswer
    <2>2. Explained(e)'
        BY <1>1, <1>7 DEF Loses, OthersStay, OneAnswer, Explained
    <2> QED
        BY <2>1, <2>2
<1>8. ASSUME NEW m \in Members, GivesUp(m, e)
      PROVE  OneAnswer(e)' /\ Explained(e)'
    <2>1. OneAnswer(e)'
        BY <1>1, <1>8 DEF GivesUp, OthersStay, OneAnswer
    <2>2. Explained(e)'
        BY <1>1, <1>8 DEF GivesUp, OthersStay, OneAnswer, Explained
    <2> QED
        BY <2>1, <2>2
<1> QED
    BY AnswerStep, <1>2, <1>3, <1>4, <1>5, <1>6, <1>7, <1>8 DEF Effect

-----------------------------------------------------------------------------
\* What the group goes past.

\* v is settled after the step.
SettledThen(v) ==
    v \in Events => v \in claims' \/ \E r \in failed' : log'[r[1]][r[2] + 1] = v

\* What is settled stays so: a claim goes only when its handler failed.
LEMMA SettledStays ==
    ASSUME BotTypes, Next, NEW v, Settled(v)
    PROVE  SettledThen(v)
<1>1. failed \subseteq failed' /\ failed \subseteq handled
    BY DEF BotTypes, TypeOK, Next, Works, Produce, Start, Stop, Rebalance, Deliver, Drop,
           Poll, Commit, CommitRaises, Claim, Duplicate, ClaimRaises, Retrieve, Generate,
           GenerateFails, Send, Flushed, Release, history
<1>2. CASE v \notin Events
    BY <1>2 DEF Settled, SettledThen
<1>3. ASSUME NEW r \in failed, Value(r) = v
      PROVE  SettledThen(v)
    BY <1>1, <1>3, HandledValueStays DEF Settled, SettledThen
<1>4. CASE v \in claims'
    BY <1>4 DEF Settled, SettledThen
<1>5. CASE v \in claims /\ v \notin claims'
    <2>1. PICK m \in Members : Release(m)
        BY <1>5
           DEF Next, Works, Produce, Start, Stop, Rebalance, Deliver, Drop, Poll, Commit,
               CommitRaises, Claim, Duplicate, ClaimRaises, Retrieve, Generate,
               GenerateFails, Send, Flushed, redis
    <2>2. v = Event(m) /\ msg[m] \in failed' /\ msg[m] \in handled
        BY <2>1, <1>5, InHand DEF Release, At
    <2>3. log' = log
        BY <2>1 DEF Release, topic
    <2>4. log'[msg[m][1]][msg[m][2] + 1] = v
        BY <2>2, <2>3 DEF Event, Value
    <2> QED
        BY <2>2, <2>4 DEF Settled, SettledThen
<1> QED
    BY <1>2, <1>3, <1>4, <1>5 DEF Settled, SettledThen

LEMMA RecordStaysSettled ==
    ASSUME BotTypes, Next, NEW i \in Partitions, NEW n \in Nat, n < Len(log[i]),
           Settled(Value(<<i, n>>))
    PROVE  Settled(Value(<<i, n>>))'
<1>1. log'[i][n + 1] = log[i][n + 1]
    BY ValueStays
<1>2. SettledThen(Value(<<i, n>>))
    BY SettledStays
<1> QED
    BY <1>1, <1>2 DEF Value, Settled, SettledThen

\* A record that was settled when its member let go of it.
LEMMA HandSettled ==
    ASSUME BotTypes, Next, NEW m \in Members, NEW i \in Partitions, NEW n \in Nat,
           msg[m] = <<i, n>>, n < Len(log[i]), SettledThen(Event(m))
    PROVE  Settled(Value(<<i, n>>))'
<1>1. Event(m) = log[i][n + 1]
    BY DEF Event, Value
<1>2. log'[i][n + 1] = log[i][n + 1]
    BY ValueStays
<1> QED
    BY <1>1, <1>2 DEF Value, Settled, SettledThen

\* What is known of the offsets of a partition.
LEMMA OffsetsInLog ==
    ASSUME BotTypes, NEW i \in Partitions
    PROVE  /\ committed[i] \in Nat /\ position[i] \in Nat /\ Len(log[i]) \in Nat
           /\ committed[i] =< Len(log[i]) /\ position[i] =< Len(log[i])
           /\ \A m \in Members : msg[m] # NoRecord /\ msg[m][1] = i =>
                /\ msg[m] = <<i, msg[m][2]>> /\ msg[m][2] \in Nat /\ msg[m][2] < Len(log[i])
<1>1. /\ committed[i] \in Nat /\ position[i] \in Nat /\ Len(log[i]) \in Nat
      /\ committed[i] =< Len(log[i]) /\ position[i] =< Len(log[i])
    BY DEF BotTypes, TypeOK, GroupTypeOK
<1>2. ASSUME NEW m \in Members, msg[m] # NoRecord, msg[m][1] = i
      PROVE  msg[m] = <<i, msg[m][2]>> /\ msg[m][2] \in Nat /\ msg[m][2] < Len(log[i])
    <2>1. msg[m] \in handled /\ msg[m] \in Partitions \X (0..(MaxRecords - 1))
        BY <1>2, InHand DEF BotTypes, AtHand, Records
    <2>2. msg[m] = <<i, msg[m][2]>> /\ msg[m][2] \in Nat
        BY <2>1, <1>2, BotBusAssumption
    <2> QED
        BY <2>1, <2>2, <1>2 DEF BotTypes
<1> QED
    BY <1>1, <1>2

\* What was behind stays so when members only lose partitions and let go of records
\* that are settled or that are not theirs any more.
LEMMA BehindKept ==
    ASSUME BotTypes, Next, \A j \in Partitions : Behind(j),
           committed' = committed, position' = position,
           \A j \in Partitions : assigned'[j] \in {assigned[j], NoMember},
           \A n \in Members : \/ msg'[n] = msg[n]
                              \/ /\ msg'[n] = NoRecord
                                 /\ \/ SettledThen(Event(n))
                                    \/ \A j \in Partitions : assigned'[j] # n,
           NEW i \in Partitions
    PROVE  Behind(i)'
<1>1. \A n \in 0..(committed'[i] - 1) : Settled(Value(<<i, n>>))'
    BY OffsetsInLog, RecordStaysSettled DEF Behind
<1>2. ASSUME NEW m \in Members, msg'[m] # NoRecord, msg'[m][1] = i, NEW n \in 0..(msg'[m][2] - 1)
      PROVE  Settled(Value(<<i, n>>))'
    <2>1. msg'[m] = msg[m] /\ msg[m] # NoRecord /\ msg[m][1] = i
        BY <1>2
    <2>2. msg[m][2] \in Nat /\ msg[m][2] < Len(log[i]) /\ Len(log[i]) \in Nat
        BY <2>1, OffsetsInLog
    <2>3. n \in 0..(msg[m][2] - 1) /\ n \in Nat /\ n < Len(log[i])
        BY <1>2, <2>1, <2>2
    <2>4. Settled(Value(<<i, n>>))
        BY <2>1, <2>3 DEF Behind
    <2> QED
        BY <2>3, <2>4, RecordStaysSettled
<1>3. ASSUME NEW m \in Members, assigned'[i] = m, NEW n \in 0..(position'[i] - 1)
      PROVE  Settled(Value(<<i, n>>))' \/ msg'[m] = <<i, n>>
    <2>1. assigned[i] = m /\ n \in 0..(position[i] - 1)
        BY <1>3, GroupAssumption
    <2>2. n \in Nat /\ n < Len(log[i])
        BY <2>1, OffsetsInLog
    <2>3. Settled(Value(<<i, n>>)) \/ msg[m] = <<i, n>>
        BY <2>1 DEF Behind
    <2>4. CASE Settled(Value(<<i, n>>))
        BY <2>2, <2>4, RecordStaysSettled
    <2>5. CASE msg[m] = <<i, n>> /\ SettledThen(Event(m))
        BY <2>2, <2>5, HandSettled
    <2> QED
        BY <2>3, <2>4, <2>5, <1>3
<1> QED
    BY <1>1, <1>2, <1>3 DEF Behind

LEMMA BehindStep ==
    ASSUME BotTypes, Next, NEW i \in Partitions,
           \A j \in Partitions : Behind(j), \A m \in Members : PastClaim(m)
    PROVE  Behind(i)'
<1>1. ASSUME NEW j \in Partitions, NEW m \in Members, Rebalance(j, m)
      PROVE  Behind(i)'
    <2>1. /\ position' = [position EXCEPT ![j] = committed[j]]
          /\ assigned' = [assigned EXCEPT ![j] = m]
          /\ committed' = committed /\ msg' = msg /\ log' = log
          /\ claims' = claims /\ failed' = failed
        BY <1>1 DEF Rebalance, Reassign, StartsAt, redis, history
    <2>2. \A n \in Nat : Settled(Value(<<i, n>>)) => Settled(Value(<<i, n>>))'
        BY <2>1 DEF Settled, Value
    <2>3. CASE i = j
        BY <2>1, <2>2, <2>3, OffsetsInLog DEF Behind, BotTypes, TypeOK, GroupTypeOK
    <2>4. CASE i # j
        BY <2>1, <2>2, <2>4, OffsetsInLog DEF Behind, BotTypes, TypeOK, GroupTypeOK
    <2> QED
        BY <2>3, <2>4
<1>2. ASSUME NEW m \in Members, Poll(m)
      PROVE  Behind(i)'
    <2>1. PICK j \in Partitions : /\ assigned[j] = m
                                 /\ msg' = [msg EXCEPT ![m] = <<j, position[j]>>]
                                 /\ position' = [position EXCEPT ![j] = position[j] + 1]
        BY <1>2 DEF Poll
    <2>2. committed' = committed /\ assigned' = assigned /\ log' = log
        BY <1>2 DEF Poll
    <2>3. msg[m] = NoRecord
        BY <1>2 DEF Poll, At, BotTypes, AtHand
    <2>4. \A n \in 0..(position[j] - 1) : Settled(Value(<<j, n>>))
        <3>1. \A n \in 0..(position[j] - 1) : Settled(Value(<<j, n>>)) \/ msg[m] = <<j, n>>
            BY <2>1 DEF Behind
        <3>2. \A n \in Nat : NoRecord # <<j, n>>
            BY DEF NoRecord
        <3> QED
            BY <2>3, <3>1, <3>2
    <2>5. /\ msg'[m] = <<j, position[j]>> /\ position'[j] = position[j] + 1
          /\ \A n \in Members \ {m} : msg'[n] = msg[n]
          /\ i # j => position'[i] = position[i]
        BY <2>1 DEF BotTypes, TypeOK, GroupTypeOK
    <2>6. \A n \in 0..(committed'[i] - 1) : Settled(Value(<<i, n>>))'
        BY <2>2, OffsetsInLog, RecordStaysSettled DEF Behind
    <2>7. ASSUME NEW n \in Members, msg'[n] # NoRecord, msg'[n][1] = i, NEW k \in 0..(msg'[n][2] - 1)
          PROVE  Settled(Value(<<i, k>>))'
        <3>1. CASE n = m
            <4>1. i = j /\ k \in 0..(position[j] - 1)
                BY <3>1, <2>7, <2>5
            <4>2. k \in Nat /\ k < Len(log[i])
                BY <4>1, OffsetsInLog
            <4> QED
                BY <4>1, <4>2, <2>4, RecordStaysSettled
        <3>2. CASE n # m
            <4>1. msg[n] # NoRecord /\ msg[n][1] = i /\ k \in 0..(msg[n][2] - 1)
                BY <3>2, <2>5, <2>7
            <4>2. k \in Nat /\ k < Len(log[i])
                BY <4>1, OffsetsInLog
            <4>3. Settled(Value(<<i, k>>))
                BY <4>1 DEF Behind
            <4> QED
                BY <4>2, <4>3, RecordStaysSettled
        <3> QED
            BY <3>1, <3>2
    <2>8. ASSUME NEW n \in Members, assigned'[i] = n, NEW k \in 0..(position'[i] - 1)
          PROVE  Settled(Value(<<i, k>>))' \/ msg'[n] = <<i, k>>
        <3>1. CASE i = j
            <4>1. n = m /\ k \in Nat /\ (k = position[j] \/ k \in 0..(position[j] - 1))
                BY <3>1, <2>1, <2>2, <2>5, <2>8, OffsetsInLog
            <4>2. CASE k = position[j]
                BY <4>1, <4>2, <3>1, <2>5
            <4>3. CASE k \in 0..(position[j] - 1)
                <5>1. k < Len(log[i])
                    BY <4>3, <3>1, OffsetsInLog
                <5> QED
                    BY <4>1, <4>3, <5>1, <3>1, <2>4, RecordStaysSettled
            <4> QED
                BY <4>1, <4>2, <4>3
        <3>2. CASE i # j
            <4>1. assigned[i] = n /\ k \in 0..(position[i] - 1)
                BY <3>2, <2>2, <2>5, <2>8
            <4>2. k \in Nat /\ k < Len(log[i])
                BY <4>1, OffsetsInLog
            <4>3. Settled(Value(<<i, k>>)) \/ msg[n] = <<i, k>>
                BY <4>1 DEF Behind
            <4>4. msg[n] = <<i, k>> => msg'[n] = <<i, k>>
                BY <2>3, <2>5 DEF NoRecord
            <4> QED
                BY <4>2, <4>3, <4>4, RecordStaysSettled
        <3> QED
            BY <3>1, <3>2
    <2> QED
        BY <2>6, <2>7, <2>8 DEF Behind
<1>3. ASSUME NEW m \in Members, Commit(m)
      PROVE  Behind(i)'
    <2>1. /\ committed' = [committed EXCEPT ![msg[m][1]] = msg[m][2] + 1]
          /\ msg' = [msg EXCEPT ![m] = NoRecord]
          /\ position' = position /\ assigned' = assigned /\ log' = log
          /\ claims' = claims /\ failed' = failed
        BY <1>3 DEF Commit, CommitsRecord, PollsAgain, redis, history
    <2>2. Settled(Event(m)) /\ msg[m] \in Partitions \X (0..(MaxRecords - 1))
        BY <1>3, InHand DEF Commit, PastClaim, Records
    <2>3. msg[m] = <<msg[m][1], msg[m][2]>> /\ msg[m][1] \in Partitions /\ msg[m][2] \in Nat
        BY <2>2, BotBusAssumption
    <2>4. \A n \in Nat : Settled(Value(<<i, n>>)) => Settled(Value(<<i, n>>))'
        BY <2>1 DEF Settled, Value
    <2>5. \A n \in Nat : msg[m] = <<i, n>> => Settled(Value(<<i, n>>))
        BY <2>2 DEF Event, Value
    <2>6. \A n \in 0..(committed'[i] - 1) : Settled(Value(<<i, n>>))
        <3>1. CASE msg[m][1] = i
            <4>1. committed'[i] = msg[m][2] + 1
                BY <3>1, <2>1 DEF BotTypes, TypeOK, GroupTypeOK
            <4>2. \A n \in 0..(msg[m][2] - 1) : Settled(Value(<<i, n>>))
                BY <3>1, <2>3 DEF Behind, NoRecord
            <4>3. Settled(Value(<<i, msg[m][2]>>))
                BY <3>1, <2>3, <2>5
            <4> QED
                BY <4>1, <4>2, <4>3, <2>3
        <3>2. CASE msg[m][1] # i
            BY <3>2, <2>1 DEF Behind, BotTypes, TypeOK, GroupTypeOK
        <3> QED
            BY <3>1, <3>2
    <2>7. ASSUME NEW n \in Members, msg'[n] # NoRecord, msg'[n][1] = i, NEW k \in 0..(msg'[n][2] - 1)
          PROVE  Settled(Value(<<i, k>>))
        <3>1. msg'[n] = msg[n]
            BY <2>1, <2>7 DEF BotTypes, TypeOK
        <3> QED
            BY <3>1, <2>7 DEF Behind
    <2>8. ASSUME NEW n \in Members, assigned'[i] = n, NEW k \in 0..(position'[i] - 1)
          PROVE  Settled(Value(<<i, k>>)) \/ msg'[n] = <<i, k>>
        <3>1. k \in Nat /\ (Settled(Value(<<i, k>>)) \/ msg[n] = <<i, k>>)
            BY <2>8, <2>1 DEF Behind
        <3>2. n # m => msg'[n] = msg[n]
            BY <2>1 DEF BotTypes, TypeOK
        <3> QED
            BY <3>1, <3>2, <2>5
    <2>9. /\ \A n \in 0..(committed'[i] - 1) : n \in Nat
          /\ \A n \in Members : \A k \in 0..(msg'[n][2] - 1) : k \in Nat
          /\ \A k \in 0..(position'[i] - 1) : k \in Nat
        OBVIOUS
    <2> QED
        BY <2>4, <2>6, <2>7, <2>8, <2>9 DEF Behind
<1>4. ASSUME NEW m \in Members, Stop(m)
      PROVE  Behind(i)'
    <2>1. committed' = committed /\ position' = position
        BY <1>4 DEF Stop
    <2>2. \A j \in Partitions : assigned'[j] \in {assigned[j], NoMember} /\ assigned'[j] # m
        BY <1>4, GroupAssumption DEF Stop, Leave
    <2>3. \A n \in Members : msg'[n] = IF n = m THEN NoRecord ELSE msg[n]
        BY <1>4 DEF Stop, BotTypes, TypeOK
    <2> QED
        BY <2>1, <2>2, <2>3, BehindKept
<1>5. ASSUME NEW m \in Members, CommitRaises(m)
      PROVE  Behind(i)'
    <2>1. /\ committed' = committed /\ position' = position
          /\ \/ assigned' = assigned
             \/ assigned' = [j \in Partitions |-> IF assigned[j] = m THEN NoMember ELSE assigned[j]]
          /\ msg' = [msg EXCEPT ![m] = NoRecord]
        BY <1>5 DEF CommitRaises, PollsAgain, Leave
    <2>2. \A j \in Partitions : assigned'[j] \in {assigned[j], NoMember}
        BY <2>1
    <2>3. \A n \in Members : msg'[n] = IF n = m THEN NoRecord ELSE msg[n]
        BY <2>1 DEF BotTypes, TypeOK
    <2>4. SettledThen(Event(m))
        BY <1>5, SettledStays DEF CommitRaises, PastClaim
    <2> QED
        BY <2>1, <2>2, <2>3, <2>4, BehindKept
<1>6. ASSUME NEW m \in Members, ClaimRaises(m) \/ Release(m)
      PROVE  Behind(i)'
    <2>1. /\ committed' = committed /\ position' = position /\ assigned' = assigned
          /\ log' = log /\ msg[m] \in failed' /\ msg' = [msg EXCEPT ![m] = NoRecord]
        BY <1>6 DEF ClaimRaises, Release, PollsAgain, topic
    <2>2. \A n \in Members : msg'[n] = IF n = m THEN NoRecord ELSE msg[n]
        BY <2>1 DEF BotTypes, TypeOK
    <2>3. SettledThen(Event(m))
        BY <2>1 DEF SettledThen, Event, Value
    <2> QED
        BY <2>1, <2>2, <2>3, BehindKept
<1>7. CASE committed' = committed /\ position' = position /\ assigned' = assigned /\ msg' = msg
    BY <1>7, BehindKept
<1>8. \/ \E j \in Partitions, m \in Members : Rebalance(j, m)
      \/ \E m \in Members : \/ Poll(m) \/ Commit(m) \/ Stop(m) \/ CommitRaises(m)
                            \/ ClaimRaises(m) \/ Release(m)
      \/ committed' = committed /\ position' = position /\ assigned' = assigned /\ msg' = msg
    BY DEF Next, Works, Produce, Start, Deliver, Drop, Claim, Duplicate, Retrieve,
           Generate, GenerateFails, Send, Flushed, topic
<1> QED
    BY <1>1, <1>2, <1>3, <1>4, <1>5, <1>6, <1>7, <1>8

LEMMA PastClaimStep ==
    ASSUME BotTypes, BotTypes', Next, NEW m \in Members, PastClaim(m)
    PROVE  PastClaim(m)'
<1>1. SUFFICES ASSUME step'[m] \notin {"down", "poll", "ended", "claim"}
               PROVE  SettledThen(log'[msg'[m][1]][msg'[m][2] + 1])
    BY DEF PastClaim, Settled, SettledThen, Event, Value
<1>2. CASE step[m] \notin {"down", "poll", "ended", "claim"} /\ msg'[m] = msg[m]
    <2>1. SettledThen(Event(m)) /\ msg[m] \in handled
        BY <1>2, SettledStays, InHand DEF PastClaim
    <2>2. log'[msg[m][1]][msg[m][2] + 1] = Event(m)
        BY <2>1, HandledValueStays DEF Event
    <2> QED
        BY <2>1, <2>2, <1>2
<1>3. CASE Poll(m)
    <2>1. PICK j \in Partitions :
            /\ msg' = [msg EXCEPT ![m] = <<j, position[j]>>]
            /\ GoesTo(m, CASE Value(<<j, position[j]>>) = Poison -> "skip"
                          [] Value(<<j, position[j]>>) = Blank -> "commit"
                          [] OTHER -> "claim")
        BY <1>3 DEF Poll
    <2>2. msg'[m] = <<j, position[j]>> /\ log' = log
        BY <2>1, <1>3 DEF BotTypes, TypeOK, Poll
    <2>3. Value(<<j, position[j]>>) \in {Poison, Blank}
        BY <1>1, <2>1 DEF GoesTo, BotTypes, TypeOK
    <2>4. log'[msg'[m][1]][msg'[m][2] + 1] \notin Events
        BY <2>2, <2>3, BotBusAssumption DEF Value
    <2> QED
        BY <2>4 DEF SettledThen
<1>4. CASE Claim(m) \/ Duplicate(m)
    <2>1. Event(m) \in claims' /\ msg' = msg /\ log' = log
        BY <1>4 DEF Claim, Duplicate, topic, redis
    <2> QED
        BY <2>1 DEF SettledThen, Event, Value
<1>5. \/ Poll(m) \/ Claim(m) \/ Duplicate(m)
      \/ step[m] \notin {"down", "poll", "ended", "claim"} /\ msg'[m] = msg[m]
    <2>1. ASSUME NEW n \in Members, n # m, Start(n) \/ Stop(n) \/ Works(n)
          PROVE  step'[m] = step[m] /\ msg'[m] = msg[m]
        BY <2>1
           DEF Start, Stop, Works, Poll, Commit, CommitRaises, Claim, Duplicate,
               ClaimRaises, Retrieve, Generate, GenerateFails, Send, Flushed, Release,
               PollsAgain, GoesTo, BotTypes, TypeOK
    <2>2. ASSUME Start(m) \/ Stop(m) \/ Commit(m) \/ CommitRaises(m) \/ ClaimRaises(m)
                 \/ Release(m)
          PROVE  FALSE
        BY <2>2, <1>1
           DEF Start, Stop, Commit, CommitRaises, ClaimRaises, Release, PollsAgain, GoesTo,
               BotTypes, TypeOK
    <2>3. ASSUME Retrieve(m) \/ Generate(m) \/ GenerateFails(m) \/ Send(m) \/ Flushed(m)
          PROVE  step[m] \notin {"down", "poll", "ended", "claim"} /\ msg'[m] = msg[m]
        BY <2>3 DEF Retrieve, Generate, GenerateFails, Send, Flushed, At
    <2>4. ASSUME \/ \E i \in Partitions, v \in Events \cup {Poison, Blank} : Produce(i, v)
                 \/ \E n \in Members, e \in Events : Deliver(n, e) \/ Drop(n, e)
                 \/ \E i \in Partitions, n \in Members : Rebalance(i, n)
          PROVE  step' = step /\ msg' = msg
        BY <2>4 DEF Produce, Deliver, Drop, Rebalance
    <2> QED
        BY <2>1, <2>2, <2>3, <2>4, <1>1 DEF Next, Works
<1> QED
    BY <1>2, <1>3, <1>4, <1>5

LEMMA BotInvHolds == Spec => []BotInv
<1>1. BotInv /\ [Next]_vars => BotInv'
    <2> SUFFICES ASSUME BotInv, [Next]_vars
                 PROVE  BotInv'
        OBVIOUS
    <2>1. CASE Next
        <3>1. BotTypes /\ BotTypes'
            BY <2>1, TypesStep DEF BotInv
        <3>2. \A e \in Events : OneAnswer(e)' /\ Explained(e)'
            BY <2>1, <3>1, AnswerInvStep DEF BotInv
        <3>3. \A i \in Partitions : Behind(i)'
            BY <2>1, <3>1, BehindStep DEF BotInv
        <3>4. \A m \in Members : PastClaim(m)'
            BY <2>1, <3>1, PastClaimStep DEF BotInv
        <3> QED
            BY <3>1, <3>2, <3>3, <3>4 DEF BotInv
    <2>2. CASE UNCHANGED vars
        BY <2>2
           DEF vars, topic, redis, history, BotInv, BotTypes, TypeOK, GroupTypeOK, AtHand,
               OneAnswer, WorksOn, Explained, Behind, PastClaim, Settled, Event, Value
    <2> QED
        BY <2>1, <2>2
<1> QED
    BY <1>1, InitInv, PTL DEF Spec

-----------------------------------------------------------------------------
\* The consumer, its producer and the keys in Redis keep their types (bus.py,
\* processor.py, idempotency.py).
THEOREM BotTypeCorrect == Spec => []TypeOK
<1>1. BotInv => TypeOK
    BY DEF BotInv, BotTypes
<1> QED
    BY <1>1, BotInvHolds, PTL

\* The sets that AnsweredOnce counts.
LEMMA AnswersCounted ==
    ASSUME BotInv, NEW e \in Events
    PROVE  /\ outbound[e] \in Nat
           /\ LET Q == {m \in Members : queue[m][e] > 0}
              IN  \/ Q = {} /\ Workers(e) = {} /\ outbound[e] =< 1
                  \/ \E m \in Members : Q = {m} /\ Workers(e) = {} /\ outbound[e] = 0
                  \/ \E m \in Members : Q = {} /\ Workers(e) = {m} /\ outbound[e] = 0
<1> DEFINE Q == {m \in Members : queue[m][e] > 0}
<1>1. OneAnswer(e) /\ outbound[e] \in Nat
    BY DEF BotInv, BotTypes, TypeOK
<1>2. Workers(e) = {m \in Members : WorksOn(m, e)}
    BY DEF Workers, WorksOn
<1>3. ASSUME NEW m \in Members, queue[m][e] > 0
      PROVE  Q = {m} /\ Workers(e) = {} /\ outbound[e] = 0
    BY <1>1, <1>2, <1>3 DEF OneAnswer
<1>4. ASSUME NEW m \in Members, WorksOn(m, e)
      PROVE  Q = {} /\ Workers(e) = {m} /\ outbound[e] = 0
    BY <1>1, <1>2, <1>4 DEF OneAnswer
<1>5. CASE ~\E m \in Members : queue[m][e] > 0 \/ WorksOn(m, e)
    BY <1>1, <1>2, <1>5 DEF OneAnswer
<1> QED
    BY <1>1, <1>3, <1>4, <1>5

\* IdempotencyStore.claim with SET NX, and release only when no answer was made: an
\* event is answered once at most, whatever is delivered again (processor.py).
THEOREM EventsAreAnsweredOnce == Spec => []AnsweredOnce
<1>1. ASSUME BotInv, NEW e \in Events
      PROVE  /\ \A m \in Members : queue[m][e] =< 1
             /\ Answers(e) + Cardinality(Workers(e)) =< 1
    <2>1. \A m \in Members : queue[m][e] =< 1
        BY <1>1 DEF BotInv, OneAnswer
    <2> DEFINE Q == {m \in Members : queue[m][e] > 0}
    <2>0. /\ Cardinality({}) = 0 /\ \A m \in Members : Cardinality({m}) = 1
          /\ Answers(e) = outbound[e] + Cardinality(Q) /\ outbound[e] \in Nat
        BY <1>1, FS_EmptySet, FS_Singleton, AnswersCounted DEF Answers
    <2> HIDE DEF Q
    <2>2. CASE Q = {} /\ Workers(e) = {} /\ outbound[e] =< 1
        <3>1. Cardinality(Workers(e)) = 0 /\ Cardinality(Q) = 0
            BY <2>2, <2>0
        <3>2. outbound[e] = 0 \/ outbound[e] = 1
            BY <2>2, <2>0
        <3>3. Answers(e) = 0 \/ Answers(e) = 1
            BY <3>1, <3>2, <2>0
        <3> QED
            BY <2>1, <3>1, <3>3
    <2>3. ASSUME NEW m \in Members, Q = {m}, Workers(e) = {}, outbound[e] = 0
          PROVE  Answers(e) + Cardinality(Workers(e)) =< 1
        BY <2>3, <2>0
    <2>4. ASSUME NEW m \in Members, Q = {}, Workers(e) = {m}, outbound[e] = 0
          PROVE  Answers(e) + Cardinality(Workers(e)) =< 1
        BY <2>4, <2>0
    <2> QED
        BY <2>1, <2>2, <2>3, <2>4, <1>1, AnswersCounted DEF Q
<1>2. BotInv => AnsweredOnce
    BY <1>1 DEF AnsweredOnce
<1> QED
    BY <1>2, BotInvHolds, PTL

\* A key in Redis stands for an answer, for one on its way or for one that was cut off
\* (processor.py, the OutboundProducer of bus.py).
THEOREM ClaimsAreExplained == Spec => []ClaimExplained
<1>1. ASSUME BotInv, NEW e \in claims
      PROVE  Answers(e) > 0 \/ Workers(e) # {} \/ e \in severed
    <2>1. e \in Events /\ Explained(e)
        BY <1>1 DEF BotInv, BotTypes, TypeOK
    <2> DEFINE Q == {m \in Members : queue[m][e] > 0}
    <2>2. CASE \E m \in Members : WorksOn(m, e)
        BY <2>2 DEF Workers, WorksOn
    <2>3. CASE outbound[e] > 0
        <3>1. Q = {}
            BY <2>1, <2>3, <1>1, AnswersCounted
        <3> QED
            BY <3>1, <2>1, <2>3, <1>1, FS_EmptySet, AnswersCounted DEF Answers
    <2>4. ASSUME NEW m \in Members, queue[m][e] > 0
          PROVE  Answers(e) > 0
        <3>1. m \in Q
            BY <2>4
        <3>2. PICK n \in Members : Q = {n} /\ outbound[e] = 0
            BY <3>1, <2>1, <1>1, AnswersCounted
        <3>3. Answers(e) = 0 + Cardinality(Q) /\ Cardinality(Q) = 1
            BY <3>2, FS_Singleton DEF Answers
        <3> QED
            BY <3>3
    <2> QED
        BY <2>1, <2>2, <2>3, <2>4, <1>1 DEF Explained
<1>2. BotInv => ClaimExplained
    BY <1>1 DEF ClaimExplained
<1> QED
    BY <1>2, BotInvHolds, PTL

\* InboundConsumer.run commits a record after its handler, and one record at a time: the
\* group goes past no event that has no claim, unless a handler of it raised (bus.py).
THEOREM NoEventPassedOver == Spec => []PassedIsSettled
<1>1. BotInv => PassedIsSettled
    BY DEF BotInv, Behind, Settled, PassedIsSettled
<1> QED
    BY <1>1, BotInvHolds, PTL

-----------------------------------------------------------------------------
\* The consumers implement SingleAnswer.

\* What a step does to the stage of e.
StageMay(e) ==
    \/ Stage(e)' \in {Stage(e), "closed"} /\ outbound'[e] = outbound[e]
    \/ Stage(e) = "open" /\ Stage(e)' = "underway" /\ outbound'[e] = outbound[e]
    \/ Stage(e) = "underway" /\ Stage(e)' = "open" /\ outbound'[e] = outbound[e]
    \/ Stage(e) = "underway" /\ Stage(e)' = "closed" /\ outbound'[e] = outbound[e] + 1

LEMMA IdleKeepsStage ==
    ASSUME NEW e \in Events, Idle(e)
    PROVE  Stage(e)' = Stage(e) /\ outbound'[e] = outbound[e]
BY DEF Idle, Stage

\* Each effect is a step of SingleAnswer for its event.
LEMMA EffectMovesStage ==
    ASSUME BotTypes, BotTypes', NEW e \in Events, OneAnswer(e), NEW m \in Members, Effect(m, e)
    PROVE  StageMay(e)
<1>1. \A n \in Members : queue[n][e] \in Nat /\ queue'[n][e] \in Nat
    BY DEF BotTypes, TypeOK
<1>2. \A n \in Members : queue[n][e] > 0 \/ WorksOn(n, e) => e \in claims
    BY DEF OneAnswer
<1>3. OthersStay(m, e)
    BY DEF Effect, Quiet, Takes, Hands, Delivers, Loses, GivesUp
<1>4. CASE Quiet(m, e)
    BY <1>4 DEF Quiet, OthersStay, Stage, StageMay
<1>5. CASE Takes(m, e)
    BY <1>1, <1>2, <1>5 DEF Takes, OthersStay, Stage, StageMay
<1>6. CASE Hands(m, e)
    BY <1>1, <1>2, <1>6 DEF Hands, OthersStay, Stage, StageMay
<1>7. CASE Delivers(m, e)
    <2>1. Stage(e) = "underway"
        BY <1>2, <1>7 DEF Delivers, Stage
    <2>2. \A n \in Members : ~(queue'[n][e] > 0 \/ WorksOn(n, e)')
        BY <1>1, <1>7 DEF Delivers, OthersStay, OneAnswer
    <2>3. Stage(e)' = "closed"
        BY <1>2, <1>7, <2>2 DEF Delivers, Stage
    <2> QED
        BY <2>1, <2>3, <1>7 DEF Delivers, StageMay
<1>8. CASE Loses(m, e)
    <2>1. \A n \in Members : queue'[n][e] > 0 \/ WorksOn(n, e)' => queue[n][e] > 0 \/ WorksOn(n, e)
        <3>1. queue'[m][e] =< queue[m][e] /\ (queue'[m][e] > 0 => queue[m][e] > 0)
            BY <1>1, <1>8 DEF Loses
        <3> QED
            BY <3>1, <1>8 DEF Loses, OthersStay
    <2> QED
        BY <2>1, <1>2, <1>8 DEF Loses, Stage, StageMay
<1>9. CASE GivesUp(m, e)
    BY <1>2, <1>9 DEF GivesUp, Stage, StageMay
<1> QED
    BY <1>4, <1>5, <1>6, <1>7, <1>8, <1>9 DEF Effect

\* A member that runs on touches the event it has at hand and no other.
LEMMA WorksTouchesOne ==
    ASSUME BotTypes, NEW m \in Members, Start(m) \/ Works(m), NEW e \in Events, e # Event(m)
    PROVE  Idle(e)
<1> USE DEF Works, Start, Poll, Commit, CommitRaises, Claim, Duplicate, ClaimRaises, Retrieve,
            Generate, GenerateFails, Send, Flushed, Release, PollsAgain, GoesTo, At, topic, redis,
            history
<1>1. log' = log /\ outbound' = outbound /\ (e \in claims' <=> e \in claims)
    OBVIOUS
<1>2. \A n \in Members : queue'[n][e] = queue[n][e]
    <2>1. \/ queue' = queue
          \/ queue' = [queue EXCEPT ![m] = [queue[m] EXCEPT ![Event(m)] = @ + 1]]
        OBVIOUS
    <2> HIDE DEF Works, Start
    <2>2. CASE queue' = queue
        BY <2>2
    <2>3. CASE queue' = [queue EXCEPT ![m] = [queue[m] EXCEPT ![Event(m)] = @ + 1]]
        <3> DEFINE Q == [queue[m] EXCEPT ![Event(m)] = @ + 1]
        <3>1. queue[m] \in [Events -> Nat] /\ queue \in [Members -> [Events -> Nat]]
            BY DEF BotTypes, TypeOK
        <3>2. Q[e] = queue[m][e]
            BY <3>1
        <3>3. queue' = [queue EXCEPT ![m] = Q]
            BY <2>3
        <3> HIDE DEF Q
        <3> QED
            BY <3>1, <3>2, <3>3
    <2> QED
        BY <2>1, <2>2, <2>3
<1>3. \A n \in Members \ {m} : step'[n] = step[n] /\ msg'[n] = msg[n]
    BY DEF BotTypes, TypeOK
<1>4. step'[m] \in Answering => msg'[m] = msg[m]
    BY DEF BotTypes, TypeOK, Answering
<1> HIDE DEF Works, Start
<1> QED
    BY <1>1, <1>2, <1>3, <1>4 DEF Idle, WorksOn, Event, Value

LEMMA DeliveryTouchesOne ==
    ASSUME BotTypes, NEW m \in Members, NEW f \in Events, Deliver(m, f) \/ Drop(m, f),
           NEW e \in Events, e # f
    PROVE  Idle(e)
<1>1. /\ log' = log /\ step' = step /\ msg' = msg /\ claims' = claims
      /\ queue' = [queue EXCEPT ![m] = [queue[m] EXCEPT ![f] = @ - 1]]
      /\ outbound' = outbound \/ outbound' = [outbound EXCEPT ![f] = @ + 1]
    BY DEF Deliver, Drop, topic, redis
<1> QED
    BY <1>1 DEF Idle, WorksOn, Event, Value, BotTypes, TypeOK

\* A step that moves at most one event, and that one as it may.
LEMMA OneStageMoves ==
    ASSUME BotTypes, NEW x, \A e \in Events : e # x => Idle(e),
           \A e \in Events : StageMay(e), outbound' \in [Events -> Nat]
    PROVE  Promise!Next \/ UNCHANGED <<Stages, outbound>>
<1> USE DEF Stages
<1>1. \A e \in Events \ {x} : Stage(e)' = Stage(e) /\ outbound'[e] = outbound[e]
    BY IdleKeepsStage
<1>2. outbound \in [Events -> Nat]
    BY DEF BotTypes, TypeOK
<1>3. CASE x \notin Events
    BY <1>1, <1>2, <1>3
<1>4. CASE x \in Events
    <2>1. Stages' = [Stages EXCEPT ![x] = Stage(x)'] /\ Stages[x] = Stage(x)
        BY <1>1, <1>4
    <2>2. outbound' = [outbound EXCEPT ![x] = outbound'[x]]
        BY <1>1, <1>2, <1>4
    <2>3. Stages = [e \in Events |-> Stages[e]] /\ \A e \in Events : Stages[e] = Stage(e)
        OBVIOUS
    <2>4. CASE Stage(x)' = Stage(x) /\ outbound'[x] = outbound[x]
        BY <2>1, <2>2, <2>3, <2>4, <1>2, <1>4
    <2>5. CASE Stage(x)' = "closed" /\ outbound'[x] = outbound[x]
        <3>1. outbound' = outbound
            BY <2>2, <2>5, <1>2, <1>4
        <3>2. Stages' = [e \in Events |-> IF e \in {x} THEN "closed" ELSE Stages[e]]
            BY <1>1, <2>5
        <3>3. Promise!Close({x})
            BY <3>1, <3>2 DEF Promise!Close
        <3> QED
            BY <3>3, <1>4 DEF Promise!Next
    <2>6. CASE Stage(x) = "open" /\ Stage(x)' = "underway" /\ outbound'[x] = outbound[x]
        <3>1. outbound' = outbound
            BY <2>2, <2>6, <1>2, <1>4
        <3>2. Promise!Undertake(x)
            BY <3>1, <2>1, <2>6 DEF Promise!Undertake
        <3> QED
            BY <3>2, <1>4 DEF Promise!Next
    <2>7. CASE Stage(x) = "underway" /\ Stage(x)' = "open" /\ outbound'[x] = outbound[x]
        <3>1. outbound' = outbound
            BY <2>2, <2>7, <1>2, <1>4
        <3>2. Promise!GiveUp(x)
            BY <3>1, <2>1, <2>7 DEF Promise!GiveUp
        <3> QED
            BY <3>2, <1>4 DEF Promise!Next
    <2>8. CASE Stage(x) = "underway" /\ Stage(x)' = "closed" /\ outbound'[x] = outbound[x] + 1
        <3>1. Promise!Give(x)
            BY <2>1, <2>2, <2>8 DEF Promise!Give
        <3> QED
            BY <3>1, <1>4 DEF Promise!Next
    <2> QED
        BY <1>4, <2>4, <2>5, <2>6, <2>7, <2>8 DEF StageMay
<1> QED
    BY <1>3, <1>4

LEMMA BotImplementsStep == BotInv /\ [Next]_vars => [Promise!Next]_<<Stages, outbound>>
<1> SUFFICES ASSUME BotInv, [Next]_vars
             PROVE  Promise!Next \/ UNCHANGED <<Stages, outbound>>
    OBVIOUS
<1>1. CASE UNCHANGED vars
    BY <1>1 DEF vars, topic, redis, history, Stages, Stage, WorksOn, Event, Value
<1>2. ASSUME Next
      PROVE  /\ \A e \in Events : StageMay(e)
             /\ outbound' \in [Events -> Nat]
    <2>1. outbound' \in [Events -> Nat]
        BY <1>2, TypesStep DEF BotInv, BotTypes, TypeOK
    <2>2. ASSUME NEW e \in Events PROVE StageMay(e)
        BY <1>2, TypesStep, AnswerStep, EffectMovesStage, IdleKeepsStage DEF BotInv, StageMay
    <2> QED
        BY <2>1, <2>2
<1>3. ASSUME NEW m \in Members, Start(m) \/ Works(m)
      PROVE  Promise!Next \/ UNCHANGED <<Stages, outbound>>
    BY <1>2, <1>3, WorksTouchesOne, OneStageMoves DEF BotInv, Next
<1>4. ASSUME NEW m \in Members, NEW f \in Events, Deliver(m, f) \/ Drop(m, f)
      PROVE  Promise!Next \/ UNCHANGED <<Stages, outbound>>
    BY <1>2, <1>4, DeliveryTouchesOne, OneStageMoves DEF BotInv, Next
<1>5. ASSUME NEW m \in Members, Stop(m)
      PROVE  Promise!Next
    <2>1. outbound' = outbound /\ claims' = claims
        BY <1>5 DEF Stop, redis
    <2>2. \A e \in Events : Stage(e)' \in {Stage(e), "closed"}
        <3>1. \A e \in Events : e \in claims' <=> e \in claims
            BY <2>1
        <3>2. \A e \in Events : outbound'[e] = outbound[e] /\ outbound[e] \in Nat
            BY <2>1 DEF BotInv, BotTypes, TypeOK
        <3>3. \A e \in Events : StageMay(e)
            BY <1>2, <1>5 DEF Next
        <3>4. \A e \in Events : Stage(e)' = "open" <=> Stage(e) = "open"
            BY <3>1 DEF Stage
        <3>5. ASSUME NEW e \in Events PROVE Stage(e)' \in {Stage(e), "closed"}
            <4>1. StageMay(e) /\ outbound'[e] = outbound[e] /\ outbound[e] \in Nat
                BY <3>2, <3>3
            <4> QED
                BY <4>1, <3>4 DEF StageMay
        <3> QED
            BY <3>5
    <2> DEFINE E == {e \in Events : Stage(e)' # Stage(e)}
    <2>3. Promise!Close(E)
        BY <2>1, <2>2 DEF Promise!Close, Stages
    <2> QED
        BY <2>3 DEF Promise!Next
<1>6. ASSUME NEW i \in Partitions, \/ \E m \in Members : Rebalance(i, m)
                                   \/ \E v \in Events \cup {Poison, Blank} : Produce(i, v)
      PROVE  Promise!Next \/ UNCHANGED <<Stages, outbound>>
    <2>1. Next
        BY <1>6 DEF Next
    <2>2. \A e \in Events : Idle(e)
        BY <1>6, <2>1, TopicIsIdle DEF BotInv
    <2> QED
        BY <1>2, <2>1, <2>2, OneStageMoves DEF BotInv
<1> QED
    BY <1>1, <1>3, <1>4, <1>5, <1>6 DEF Next

\* The consumers of the inbound topic answer an event as the claims promise, by one
\* member at a time, once, and never again after the answer was delivered or cut off.
THEOREM ConsumersImplementSingleAnswer == Spec => ImplementsSingleAnswer
<1>1. Init => Promise!Init
    BY DEF Init, Promise!Init, Stages, Stage
<1> QED
    BY <1>1, BotImplementsStep, BotInvHolds, PTL
    DEF Spec, ImplementsSingleAnswer, Promise!Spec, Promise!vars
=============================================================================
