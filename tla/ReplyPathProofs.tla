-------------------------- MODULE ReplyPathProofs --------------------------
(***************************************************************************)
(* Proofs about ReplyPath for any number of messages and deliveries.       *)
(***************************************************************************)
EXTENDS ReplyPath, TLAPS

\* The invariant is preserved by the steps of onMessage.
LEMMA OnMessageStep ==
    ASSUME ReplyInv, NEW d \in Deliveries, OnMessage(d)
    PROVE  ReplyInv'
<1> USE EventAssumption
    DEF ReplyInv, TypeOK, InStep, OneOwner, AnsweredIsClaimed, RepliedOnce, ReplyIsClaimed,
        OutboundWasSent, Owns, Working, Carries, GoesTo, BotGoesTo, call
<1>1. CASE LogInbound(d)
    BY <1>1 DEF LogInbound, LogMessage, Directions
<1>2. CASE Publish(d)
    BY <1>2 DEF Publish
<1>3. CASE Call(d)
    BY <1>3 DEF Call
<1>4. CASE Recv(d)
    BY <1>4 DEF Recv
<1>5. CASE SendText(d)
    BY <1>5 DEF SendText
<1>6. CASE LogOutbound(d)
    BY <1>6 DEF LogOutbound, LogMessage, Directions
<1> QED
    BY <1>1, <1>2, <1>3, <1>4, <1>5, <1>6 DEF OnMessage

\* The invariant is preserved by the steps of Process.
LEMMA ProcessStep ==
    ASSUME ReplyInv, NEW d \in Deliveries, Process(d) \/ CutOff(d)
    PROVE  ReplyInv'
<1> USE EventAssumption
    DEF ReplyInv, TypeOK, InStep, OneOwner, AnsweredIsClaimed, RepliedOnce, ReplyIsClaimed,
        OutboundWasSent, Owns, Working, Carries, BotGoesTo, Ends
<1>1. CASE Claim(d)
    BY <1>1 DEF Claim
<1>2. CASE SkipDuplicate(d)
    BY <1>2 DEF SkipDuplicate
<1>3. CASE ClaimFails(d)
    BY <1>3 DEF ClaimFails, MayClaim
<1>4. CASE Retrieve(d)
    BY <1>4 DEF Retrieve
<1>5. CASE Token(d)
    BY <1>5 DEF Token
<1>6. CASE Done(d)
    BY <1>6 DEF Done
<1>7. CASE Raise(d)
    BY <1>7 DEF Raise
<1>8. CASE Release(d)
    BY <1>8 DEF Release, MayRelease
<1>9. CASE Abort(d)
    BY <1>9 DEF Abort
<1>10. CASE CutOff(d)
    BY <1>10 DEF CutOff, MayClaim, MayRelease
<1> QED
    BY <1>1, <1>2, <1>3, <1>4, <1>5, <1>6, <1>7, <1>8, <1>9, <1>10 DEF Process

\* The invariant is inductive.
LEMMA ReplyInvStep == ReplyInv /\ [Next]_vars => ReplyInv'
<1> SUFFICES ASSUME ReplyInv, [Next]_vars
             PROVE  ReplyInv'
    OBVIOUS
<1> USE EventAssumption
    DEF ReplyInv, TypeOK, InStep, OneOwner, AnsweredIsClaimed, RepliedOnce, ReplyIsClaimed,
        OutboundWasSent, Owns, Working, Carries, call
<1>1. CASE Outage \/ Recovery
    BY <1>1 DEF Outage, Recovery
<1>2. ASSUME NEW d \in Deliveries, NEW e \in Events, Deliver(d, e)
      PROVE  ReplyInv'
    BY <1>2 DEF Deliver, GoesTo
<1>3. ASSUME NEW d \in Deliveries, Crash(d)
      PROVE  ReplyInv'
    BY <1>3 DEF Crash, GoesTo
<1>4. CASE UNCHANGED vars
    BY <1>4 DEF vars
<1> QED
    BY <1>1, <1>2, <1>3, <1>4, OnMessageStep, ProcessStep DEF Next

LEMMA ReplyInvHolds == Spec => []ReplyInv
<1>1. Init => ReplyInv
    BY EventAssumption
    DEF Init, ReplyInv, TypeOK, InStep, OneOwner, AnsweredIsClaimed, RepliedOnce,
        ReplyIsClaimed, OutboundWasSent, Owns, Working, Carries, Directions
<1> QED
    BY <1>1, ReplyInvStep, PTL DEF Spec

-----------------------------------------------------------------------------
\* The variables keep their types.
THEOREM ReplyTypeCorrect == Spec => []TypeOK
<1>1. ReplyInv => TypeOK
    BY DEF ReplyInv
<1> QED
    BY <1>1, ReplyInvHolds, PTL

\* A message is answered at most once, however often it is delivered, whatever calls
\* are cut off and whatever of Redis, the bot, the pods and WhatsApp fails.
THEOREM AnsweredAtMostOnce == Spec => []RepliedOnce
<1>1. ReplyInv => RepliedOnce
    BY DEF ReplyInv
<1> QED
    BY <1>1, ReplyInvHolds, PTL

\* The reply that is sent is the one the claim of its event stands for.
THEOREM RepliesAreClaimed == Spec => []ReplyIsClaimed
<1>1. ReplyInv => ReplyIsClaimed
    BY DEF ReplyInv
<1> QED
    BY <1>1, ReplyInvHolds, PTL

\* An outbound row of message_logs stands for a reply that WhatsApp took.
THEOREM OutboundRowsWereSent == Spec => []OutboundWasSent
<1>1. ReplyInv => OutboundWasSent
    BY DEF ReplyInv
<1> QED
    BY <1>1, ReplyInvHolds, PTL

\* A claim that is released leaves the event as if it had never been claimed.
THEOREM ReleasesAreSafe == Spec => ReleaseIsSafe
<1> DEFINE Safe ==
        \A e \in Events : e \in claimed /\ e \notin claimed' =>
            /\ replies[e] = 0
            /\ \A d \in Deliveries : event[d] = e => ~Carries(d) /\ ~Working(d)'
<1>1. ReplyInv /\ [Next]_vars => [Safe]_vars
  <2> SUFFICES ASSUME ReplyInv, [Next]_vars, NEW e \in Events, e \in claimed, e \notin claimed'
               PROVE  /\ replies[e] = 0
                      /\ \A d \in Deliveries : event[d] = e => ~Carries(d) /\ ~Working(d)'
    OBVIOUS
  <2>1. PICK d \in Deliveries : Release(d) \/ CutOff(d)
    BY DEF Next, vars, call, Outage, Recovery, Deliver, OnMessage, LogInbound, Publish, Call,
           Recv, SendText, LogOutbound, Process, Claim, SkipDuplicate, ClaimFails, MayClaim,
           Retrieve, Token, Done, Raise, Abort, Crash
  <2>2. event[d] = e /\ bot[d] = "release" /\ bot'[d] # "release"
    BY <2>1 DEF Release, CutOff, MayClaim, MayRelease, BotGoesTo, ReplyInv, TypeOK
  <2>3. Working(d) /\ ~Carries(d) /\ ~Working(d)'
    BY <2>1, <2>2
    DEF Working, Carries, ReplyInv, TypeOK, InStep, ReplyIsClaimed, Release, CutOff, BotGoesTo
  <2>4. \A o \in Deliveries \ {d} : event[o] = e => ~Carries(o) /\ ~Working(o)
    BY <2>2, <2>3 DEF ReplyInv, OneOwner, Owns
  <2>5. \A o \in Deliveries \ {d} : Working(o)' => Working(o)
    BY <2>1 DEF Working, Release, CutOff, BotGoesTo, ReplyInv, TypeOK
  <2> QED
    BY <2>2, <2>3, <2>4, <2>5 DEF ReplyInv, OneOwner, Owns
<1> QED
    BY <1>1, ReplyInvHolds, PTL DEF Spec, ReleaseIsSafe

\* What delivery o, and its call, is at does not change.
Same(o) ==
    /\ gateway'[o] = gateway[o] /\ bot'[o] = bot[o]
    /\ text'[o] = text[o] /\ end'[o] = end[o]

\* What is of e does not change when another event's delivery moves.
LEMMA OthersKeepOwners ==
    ASSUME ReplyInv, NEW d \in Deliveries, NEW e \in Events,
           OnMessage(d) \/ Process(d) \/ CutOff(d) \/ Crash(d),
           event[d] # e
    PROVE  Orphaned(e)' => Orphaned(e)
<1> USE DEF ReplyInv, TypeOK, GoesTo, BotGoesTo, Ends, call
<1>1. event' = event /\ (e \in claimed' => e \in claimed) /\ replies'[e] = replies[e]
    BY DEF OnMessage, Process, LogInbound, Publish, Call, Recv, SendText, LogOutbound, Claim,
           SkipDuplicate, ClaimFails, MayClaim, Retrieve, Token, Done, Raise, Release,
           MayRelease, Abort, CutOff, Crash
<1>2. \A o \in Deliveries \ {d} :
        Same(o)
    BY DEF Same, OnMessage, Process, LogInbound, Publish, Call, Recv, SendText, LogOutbound, Claim,
           SkipDuplicate, ClaimFails, Retrieve, Token, Done, Raise, Release, Abort, CutOff,
           Crash
<1> QED
    BY <1>1, <1>2 DEF Same, Orphaned, Owns, Working, Carries

\* A step that keeps the owner of the claim orphans nothing.
LEMMA OwnerKept ==
    ASSUME NEW d \in Deliveries, NEW e \in Events, event' = event, claimed' = claimed,
           replies' = replies, Owns(d) => Owns(d)',
           \A o \in Deliveries \ {d} :
               Same(o)
    PROVE  Orphaned(e)' => Orphaned(e)
BY DEF Same, Orphaned, Owns, Working, Carries

\* Only a cut leaves a message claimed and unanswered; the bot's own exceptions do not.
THEOREM OrphansComeFromCuts == Spec => OrphanedByCut
<1> DEFINE Cut(e) ==
        \E d \in Deliveries : event[d] = e /\
            \/ CutOff(d) \/ ClaimFails(d) \/ Crash(d)
            \/ Release(d) /\ end'[d] = "error"
            \/ Done(d) /\ ~(text[d] /\ gateway[d] = "recv")
            \/ SendText(d)
<1>1. ASSUME ReplyInv, Next, NEW e \in Events, ~Orphaned(e), Orphaned(e)'
      PROVE  Cut(e)
    <2>1. ASSUME NEW d \in Deliveries, event[d] = e,
                 LogInbound(d) \/ Publish(d) \/ Call(d) \/ LogOutbound(d) \/ Recv(d)
          PROVE  FALSE
        <3>1. Owns(d) => Owns(d)'
            BY <2>1, <1>1 DEF LogInbound, Publish, Call, LogOutbound, Recv, Owns,
                Working, Carries, GoesTo, BotGoesTo, call, ReplyInv, TypeOK, InStep
        <3>2. /\ event' = event /\ claimed' = claimed /\ replies' = replies
              /\ \A o \in Deliveries \ {d} :
                   Same(o)
            BY <2>1, <1>1 DEF Same, LogInbound, Publish, Call, LogOutbound, Recv,
                GoesTo, BotGoesTo, call, ReplyInv, TypeOK
        <3> QED
            BY <3>1, <3>2, <1>1, OwnerKept
    <2>2. ASSUME NEW d \in Deliveries, event[d] = e,
                 SkipDuplicate(d) \/ Retrieve(d) \/ Token(d) \/ Raise(d) \/ Abort(d)
          PROVE  FALSE
        <3>1. Owns(d) => Owns(d)'
            BY <2>2, <1>1 DEF SkipDuplicate, Retrieve, Token, Raise, Abort, Owns,
                Working, Carries, BotGoesTo, Ends, ReplyInv, TypeOK, InStep, ReplyIsClaimed
        <3>2. /\ event' = event /\ claimed' = claimed /\ replies' = replies
              /\ \A o \in Deliveries \ {d} :
                   Same(o)
            BY <2>2, <1>1 DEF Same, SkipDuplicate, Retrieve, Token, Raise, Abort,
                BotGoesTo, Ends, ReplyInv, TypeOK
        <3> QED
            BY <3>1, <3>2, <1>1, OwnerKept
    <2>3. ASSUME NEW d \in Deliveries, event[d] = e, Claim(d)
          PROVE  FALSE
        BY <2>3, <1>1 DEF Claim, BotGoesTo, Orphaned, Owns, Working, ReplyInv, TypeOK
    <2>4. ASSUME NEW d \in Deliveries, event[d] = e, Done(d)
          PROVE  Cut(e)
        BY <2>4, <1>1 DEF Done, BotGoesTo, Ends, Orphaned, Owns, Carries, ReplyInv, TypeOK
    <2>5. ASSUME NEW d \in Deliveries, event[d] = e, Release(d)
          PROVE  Cut(e)
        BY <2>5, <1>1 DEF Release, Ends, Orphaned, ReplyInv, TypeOK
    <2>6. ASSUME NEW d \in Deliveries, NEW f \in Events, Deliver(d, f)
          PROVE  FALSE
        <3>1. ~Owns(d)
            BY <2>6, <1>1 DEF Deliver, Owns, Working, Carries, ReplyInv, InStep
        <3>2. \A o \in Deliveries \ {d} : event'[o] = event[o] /\ (Owns(o)' <=> Owns(o))
            BY <2>6, <1>1 DEF Deliver, GoesTo, Owns, Working, Carries, call, ReplyInv, TypeOK
        <3>3. claimed' = claimed /\ replies' = replies
            BY <2>6 DEF Deliver, call
        <3> QED
            BY <3>1, <3>2, <3>3, <1>1 DEF Orphaned
    <2>7. CASE Outage \/ Recovery
        BY <2>7, <1>1 DEF Outage, Recovery, Orphaned, Owns, Working, Carries, call
    <2>8. ASSUME NEW d \in Deliveries, OnMessage(d) \/ Process(d) \/ CutOff(d) \/ Crash(d)
          PROVE  Cut(e)
        <3>1. event[d] = e
            BY <2>8, <1>1, OthersKeepOwners
        <3> QED
            BY <2>8, <3>1, <2>1, <2>2, <2>3, <2>4, <2>5 DEF OnMessage, Process
    <2> QED
        BY <2>6, <2>7, <2>8, <1>1 DEF Next
<1>2. ReplyInv /\ [Next]_vars =>
        [\A e \in Events : ~Orphaned(e) /\ Orphaned(e)' => Cut(e)]_vars
    BY <1>1
<1> QED
    BY <1>2, ReplyInvHolds, PTL DEF Spec, OrphanedByCut

-----------------------------------------------------------------------------
\* The hot path implements SingleAnswer.

\* A step that answers nobody and opens nothing closes some events or none.
LEMMA ClosesSome ==
    ASSUME \A e \in Events : Stage(e)' \in {Stage(e), "closed"}, replies' = replies
    PROVE  Promise!Next
<1> DEFINE E == {e \in Events : Stage(e)' # Stage(e)}
<1>1. Promise!Close(E)
    BY DEF Promise!Close, Stages
<1> QED
    BY <1>1 DEF Promise!Next

\* The delivery that owns a claim owns it alone, and its event is under way.
LEMMA OwnerAlone ==
    ASSUME ReplyInv, NEW d \in Deliveries, Owns(d)
    PROVE  /\ event[d] \in Events /\ event[d] \in claimed /\ Stage(event[d]) = "underway"
           /\ \A o \in Deliveries \ {d} : event[o] = event[d] => ~Owns(o)
BY DEF ReplyInv, OneOwner, InStep, Owns, Working, Carries, Stage

\* What the others own they own after a step of d, and other events stay as they are.
LEMMA OthersKeepStages ==
    ASSUME NEW d \in Deliveries, event' = event, \A o \in Deliveries \ {d} : Same(o)
    PROVE  /\ \A o \in Deliveries \ {d} : Owns(o)' <=> Owns(o)
           /\ \A e \in Events \ {event[d]} :
                (e \in claimed' <=> e \in claimed) => Stage(e)' = Stage(e)
<1>1. \A o \in Deliveries \ {d} : Owns(o)' <=> Owns(o)
    BY DEF Same, Owns, Working, Carries
<1> QED
    BY <1>1 DEF Stage

\* A step that makes d no owner and takes back no claim closes its event or none.
LEMMA OwnerMayGo ==
    ASSUME ReplyInv, NEW d \in Deliveries, event' = event, replies' = replies,
           event[d] \in Events, claimed' \in {claimed, claimed \cup {event[d]}},
           \A o \in Deliveries \ {d} : Same(o), Owns(d)' => Owns(d)
    PROVE  Promise!Next
<1>1. \A e \in Events \ {event[d]} : Stage(e)' = Stage(e)
    BY OthersKeepStages
<1>2. Stage(event[d])' \in {Stage(event[d]), "closed"}
    <2>1. \A o \in Deliveries : event'[o] = event[d] /\ Owns(o)' => event[o] = event[d] /\ Owns(o)
        BY OthersKeepStages
    <2>2. CASE event[d] \in claimed
        BY <2>1, <2>2 DEF Stage
    <2>3. CASE event[d] \notin claimed
        <3>1. \A o \in Deliveries : event[o] = event[d] => ~Owns(o)
            BY <2>3 DEF ReplyInv, OneOwner
        <3> QED
            BY <2>1, <2>3, <3>1 DEF Stage
    <2> QED
        BY <2>2, <2>3
<1> QED
    BY <1>1, <1>2, ClosesSome

\* A step that moves one event of SingleAnswer.
LEMMA MovesOne ==
    ASSUME NEW e \in Events, \A f \in Events \ {e} : Stage(f)' = Stage(f),
           replies' = replies,
           \/ Stage(e) = "open" /\ Stage(e)' = "underway"
           \/ Stage(e) = "underway" /\ Stage(e)' = "open"
    PROVE  Promise!Next
<1>1. Stages' = [Stages EXCEPT ![e] = Stage(e)'] /\ Stages[e] = Stage(e)
    BY DEF Stages
<1>2. Promise!Undertake(e) \/ Promise!GiveUp(e)
    BY <1>1 DEF Promise!Undertake, Promise!GiveUp
<1> QED
    BY <1>2 DEF Promise!Next

LEMMA OnMessageImplements ==
    ASSUME ReplyInv, NEW d \in Deliveries, OnMessage(d) \/ Crash(d)
    PROVE  Promise!Next
<1> USE DEF ReplyInv, TypeOK, GoesTo, BotGoesTo, call
<1>1. event' = event /\ event[d] \in Events /\ claimed' = claimed
    BY DEF InStep, OnMessage, LogInbound, Publish, Call, Recv, SendText, LogOutbound, Crash
<1>2. \A o \in Deliveries \ {d} : Same(o)
    BY DEF Same, OnMessage, LogInbound, Publish, Call, Recv, SendText, LogOutbound, Crash
<1>3. Owns(d)' => Owns(d)
    BY DEF Owns, Working, Carries, InStep, OnMessage, LogInbound, Publish, Call, Recv,
           SendText, LogOutbound, Crash
<1>4. CASE replies' = replies
    BY <1>1, <1>2, <1>3, <1>4, OwnerMayGo
<1>5. CASE replies' # replies
    <2>1. /\ gateway[d] = "send" /\ gateway'[d] = "save" /\ bot' = bot
          /\ replies' = [replies EXCEPT ![event[d]] = @ + 1]
        BY <1>5 DEF OnMessage, LogInbound, Publish, Call, Recv, SendText, LogOutbound, Crash
    <2>2. Owns(d) /\ ~Owns(d)'
        BY <2>1 DEF Owns, Working, Carries, InStep, ReplyIsClaimed
    <2>3. \A f \in Events \ {event[d]} : Stage(f)' = Stage(f)
        BY <1>1, <1>2, OthersKeepStages
    <2>4. Stage(event[d]) = "underway" /\ Stage(event[d])' = "closed"
        <3>1. \A o \in Deliveries : event'[o] = event[d] => ~Owns(o)'
            BY <1>1, <1>2, <2>2, OwnerAlone, OthersKeepStages
        <3> QED
            BY <1>1, <2>2, <3>1, OwnerAlone DEF Stage
    <2>5. Stages' = [Stages EXCEPT ![event[d]] = "closed"] /\ Stages[event[d]] = "underway"
        BY <1>1, <2>3, <2>4 DEF Stages
    <2>6. Promise!Give(event[d])
        BY <2>1, <2>5 DEF Promise!Give
    <2> QED
        BY <1>1, <2>6 DEF Promise!Next
<1> QED
    BY <1>4, <1>5

LEMMA ProcessImplements ==
    ASSUME ReplyInv, NEW d \in Deliveries, Process(d) \/ CutOff(d)
    PROVE  Promise!Next
<1> USE DEF ReplyInv, TypeOK, BotGoesTo, Ends
<1>1. event' = event /\ event[d] \in Events /\ replies' = replies
    BY DEF InStep, Process, Claim, SkipDuplicate, ClaimFails, Retrieve, Token, Done, Raise,
           Release, Abort, CutOff
<1>2. \A o \in Deliveries \ {d} : Same(o)
    BY DEF Same, Process, Claim, SkipDuplicate, ClaimFails, Retrieve, Token, Done, Raise,
           Release, Abort, CutOff
<1>3. CASE Claim(d)
    <2>1. event[d] \notin claimed /\ claimed' = claimed \cup {event[d]} /\ Owns(d)'
        BY <1>3 DEF Claim, Owns, Working
    <2>2. Stage(event[d]) = "open" /\ Stage(event[d])' = "underway"
        BY <1>1, <2>1 DEF Stage
    <2> QED
        BY <1>1, <1>2, <2>1, <2>2, OthersKeepStages, MovesOne
<1>4. CASE claimed' = claimed \ {event[d]} /\ claimed' # claimed
    <2>1. Owns(d)
        BY <1>4
        DEF Owns, Working, Process, Claim, SkipDuplicate, ClaimFails, MayClaim, Retrieve, Token,
            Done, Raise, Release, MayRelease, Abort, CutOff
    <2>2. Stage(event[d]) = "underway" /\ Stage(event[d])' = "open"
        BY <1>1, <1>4, <2>1, OwnerAlone DEF Stage
    <2> QED
        BY <1>1, <1>2, <1>4, <2>2, OthersKeepStages, MovesOne
<1>5. CASE ~Claim(d) /\ claimed' \in {claimed, claimed \cup {event[d]}}
    <2>1. Owns(d)' => Owns(d)
        BY <1>5
        DEF Owns, Working, Carries, InStep, Process, SkipDuplicate, ClaimFails, Retrieve, Token,
            Done, Raise, Release, Abort, CutOff
    <2> QED
        BY <1>1, <1>2, <1>5, <2>1, OwnerMayGo
<1>6. claimed' \in {claimed, claimed \cup {event[d]}, claimed \ {event[d]}}
    BY DEF Process, Claim, SkipDuplicate, ClaimFails, MayClaim, Retrieve, Token, Done, Raise,
           Release, MayRelease, Abort, CutOff
<1> QED
    BY <1>3, <1>4, <1>5, <1>6

LEMMA ReplyImplementsStep == ReplyInv /\ [Next]_vars => [Promise!Next]_<<Stages, replies>>
<1> SUFFICES ASSUME ReplyInv, Next \/ UNCHANGED vars
             PROVE  Promise!Next
    BY DEF Promise!Next
<1>1. ASSUME NEW d \in Deliveries, NEW e \in Events, Deliver(d, e)
      PROVE  Promise!Next
    <2>1. ~Owns(d) /\ ~Owns(d)'
        BY <1>1 DEF Deliver, GoesTo, call, Owns, Working, Carries, ReplyInv, TypeOK, InStep
    <2>2. \A o \in Deliveries \ {d} : event'[o] = event[o] /\ (Owns(o)' <=> Owns(o))
        BY <1>1 DEF Deliver, GoesTo, call, Owns, Working, Carries, ReplyInv, TypeOK
    <2>3. claimed' = claimed /\ replies' = replies
        BY <1>1 DEF Deliver, call
    <2> QED
        BY <2>1, <2>2, <2>3, ClosesSome DEF Stage
<1>2. CASE Outage \/ Recovery \/ UNCHANGED vars
    <2>1. /\ event' = event /\ claimed' = claimed /\ replies' = replies /\ gateway' = gateway
          /\ bot' = bot /\ text' = text /\ end' = end
        BY <1>2 DEF Outage, Recovery, vars, call
    <2> QED
        BY <2>1, ClosesSome DEF Stage, Owns, Working, Carries
<1> QED
    BY <1>1, <1>2, OnMessageImplements, ProcessImplements DEF Next

\* The hot path answers a message as the claims promise: by one call at a time, once,
\* and never again after the answer was given or cut off.
THEOREM HotPathImplementsSingleAnswer == Spec => ImplementsSingleAnswer
<1>1. Init => Promise!Init
    BY DEF Init, Promise!Init, Stages, Stage
<1> QED
    BY <1>1, ReplyImplementsStep, ReplyInvHolds, PTL DEF Spec, ImplementsSingleAnswer, Promise!Spec, Promise!vars

=============================================================================
