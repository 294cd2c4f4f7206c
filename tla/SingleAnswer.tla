--------------------------- MODULE SingleAnswer ---------------------------
(***************************************************************************)
(* What the claims in Redis promise of the answers to messages, whichever  *)
(* way the bot is called: an answer to an event is undertaken by one at a  *)
(* time; it may be given up as long as it was not given, for another one   *)
(* to undertake it; once it was given, or cut off, nobody undertakes it    *)
(* again.                                                                  *)
(***************************************************************************)
EXTENDS Naturals

CONSTANT Events

VARIABLES
    stage,     \* of an event: "open", "underway" or "closed"
    answers    \* how many answers to it were given

vars == <<stage, answers>>

Init ==
    /\ stage = [e \in Events |-> "open"]
    /\ answers = [e \in Events |-> 0]

Undertake(e) ==
    /\ stage[e] = "open"
    /\ stage' = [stage EXCEPT ![e] = "underway"]
    /\ UNCHANGED answers

GiveUp(e) ==
    /\ stage[e] = "underway"
    /\ stage' = [stage EXCEPT ![e] = "open"]
    /\ UNCHANGED answers

Give(e) ==
    /\ stage[e] = "underway"
    /\ stage' = [stage EXCEPT ![e] = "closed"]
    /\ answers' = [answers EXCEPT ![e] = @ + 1]

\* The events E get no more answer than they have.
Close(E) ==
    /\ stage' = [e \in Events |-> IF e \in E THEN "closed" ELSE stage[e]]
    /\ UNCHANGED answers

Next ==
    \/ \E e \in Events : Undertake(e) \/ GiveUp(e) \/ Give(e)
    \/ \E E \in SUBSET Events : Close(E)

Spec == Init /\ [][Next]_vars
=============================================================================
