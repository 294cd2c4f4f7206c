---------------------------- MODULE ReplyPath ----------------------------
(***************************************************************************)
(* The hot path of a message: Manager.onMessage of the gateway, which      *)
(* logs it, publishes it for analytics, calls the bot and sends the reply  *)
(* (internal/whatsapp/manager.go, internal/grpc/client.go), and            *)
(* BotServicer.Process of the bot, which claims the event in Redis and     *)
(* streams the answer (app/grpc/servicer.py, app/idempotency.py,           *)
(* OllamaClient.stream).                                                   *)
(*                                                                         *)
(* WhatsApp is external: it may deliver a message again, on the same pod   *)
(* or on another one, while the first delivery is at work or after its pod *)
(* died.  A delivery is one run of onMessage with the call it makes.       *)
(* DeterministicEventID gives all deliveries of a message one event.       *)
(*                                                                         *)
(* A reply is text or empty.  The key of a claim is taken to outlive the   *)
(* deliveries of its event (IDEMPOTENCY_TTL_SECONDS is a day).  What the   *)
(* topic of inbound messages holds is not kept: nothing here reads it.     *)
(***************************************************************************)
EXTENDS Naturals

CONSTANTS
    Events,        \* messages, by event_id
    Deliveries,    \* runs of onMessage
    NoEvent        \* of a delivery that has not happened

ASSUME EventAssumption == NoEvent \notin Events

VARIABLES
    event,      \* the event of a delivery
    gateway,    \* where onMessage is: "none", "log", "publish", "call", "recv", "send",
                \* "save", "done", or "dead" when its pod died
    bot,        \* where Process is: "none", "claim", "retrieve", "stream", "release",
                \* "abort", "ended"
    text,       \* whether a token was streamed
    end,        \* how the stream ended: "open", "done", "error"
    claimed,    \* events that have a key in Redis
    logged,     \* rows of message_logs: <<event, direction>>
    replies,    \* how many replies to an event WhatsApp took
    kafka       \* "up" or "down", as the producer finds it

call == <<bot, text, end, claimed>>
vars == <<event, gateway, call, logged, replies, kafka>>

Directions == {"inbound", "outbound"}

TypeOK ==
    /\ event \in [Deliveries -> Events \cup {NoEvent}]
    /\ gateway \in [Deliveries -> {"none", "log", "publish", "call", "recv", "send",
                                   "save", "done", "dead"}]
    /\ bot \in [Deliveries -> {"none", "claim", "retrieve", "stream", "release", "abort",
                               "ended"}]
    /\ text \in [Deliveries -> BOOLEAN]
    /\ end \in [Deliveries -> {"open", "done", "error"}]
    /\ claimed \in SUBSET Events
    /\ logged \in SUBSET (Events \X Directions)
    /\ replies \in [Events -> Nat]
    /\ kafka \in {"up", "down"}

Init ==
    /\ event = [d \in Deliveries |-> NoEvent]
    /\ gateway = [d \in Deliveries |-> "none"]
    /\ bot = [d \in Deliveries |-> "none"]
    /\ text = [d \in Deliveries |-> FALSE]
    /\ end = [d \in Deliveries |-> "open"]
    /\ claimed = {}
    /\ logged = {}
    /\ replies = [e \in Events |-> 0]
    /\ kafka = "up"

-----------------------------------------------------------------------------
GoesTo(d, step) == gateway' = [gateway EXCEPT ![d] = step]

BotGoesTo(d, step) == bot' = [bot EXCEPT ![d] = step]

\* The stream of the call ends for the client.
Ends(d, how) == end' = [end EXCEPT ![d] = how]

\* event Message: onMessage starts.
Deliver(d, e) ==
    /\ gateway[d] = "none"
    /\ event' = [event EXCEPT ![d] = e]
    /\ GoesTo(d, "log")
    /\ UNCHANGED <<call, logged, replies, kafka>>

\* LogMessage inserts a row, unless there is one or it fails, which is logged.
LogMessage(d, direction) ==
    \/ logged' = logged \cup {<<event[d], direction>>}
    \/ UNCHANGED logged

LogInbound(d) ==
    /\ gateway[d] = "log"
    /\ LogMessage(d, "inbound")
    /\ GoesTo(d, "publish")
    /\ UNCHANGED <<event, call, replies, kafka>>

\* PublishInbound is synchronous: it returns once the brokers took the record or
\* refused it; an error is logged.
Publish(d) ==
    /\ gateway[d] = "publish" /\ kafka = "up"
    /\ GoesTo(d, "call")
    /\ UNCHANGED <<event, call, logged, replies, kafka>>

\* BotClient.Process: the call reaches the bot, or fails, which is logged.
Call(d) ==
    /\ gateway[d] = "call"
    /\ \/ GoesTo(d, "recv") /\ BotGoesTo(d, "claim")
       \/ GoesTo(d, "done") /\ UNCHANGED bot
    /\ UNCHANGED <<event, text, end, claimed, logged, replies, kafka>>

\* Mutant of Claim: the key is set whether it exists or not.
ClaimMutant(d) ==
    /\ bot[d] = "claim"
    /\ claimed' = claimed \cup {event[d]}
    /\ BotGoesTo(d, "retrieve")
    /\ UNCHANGED <<event, gateway, text, end, logged, replies, kafka>>

\* IdempotencyStore.claim, SET NX: the first call of the event goes on.
Claim(d) ==
    /\ bot[d] = "claim" /\ event[d] \notin claimed
    /\ claimed' = claimed \cup {event[d]}
    /\ BotGoesTo(d, "retrieve")
    /\ UNCHANGED <<event, gateway, text, end, logged, replies, kafka>>

\* Mutant of SkipDuplicate: a duplicate releases the claim.
SkipDuplicateMutant(d) ==
    /\ bot[d] = "claim" /\ event[d] \in claimed
    /\ BotGoesTo(d, "release")
    /\ UNCHANGED <<event, gateway, text, end, claimed, logged, replies, kafka>>

\* A duplicate gets an empty reply.
SkipDuplicate(d) ==
    /\ bot[d] = "claim" /\ event[d] \in claimed
    /\ BotGoesTo(d, "ended") /\ Ends(d, "done")
    /\ UNCHANGED <<event, gateway, text, claimed, logged, replies, kafka>>

\* SET NX is under way: Redis has run it or not.
MayClaim(d) == claimed' \in {claimed, claimed \cup {event[d]}}

\* Likewise DELETE.
MayRelease(d) == claimed' \in {claimed, claimed \ {event[d]}}

\* No answer of Redis: the call fails.
ClaimFails(d) ==
    /\ bot[d] = "claim"
    /\ MayClaim(d)
    /\ BotGoesTo(d, "ended") /\ Ends(d, "error")
    /\ UNCHANGED <<event, gateway, text, logged, replies, kafka>>

\* retrieve and build_prompt.
Retrieve(d) ==
    /\ bot[d] = "retrieve"
    /\ BotGoesTo(d, "stream")
    /\ UNCHANGED <<event, gateway, text, end, claimed, logged, replies, kafka>>

\* A token of the model, or the text OllamaClient.stream yields when Ollama fails.
Token(d) ==
    /\ bot[d] = "stream" /\ ~text[d]
    /\ text' = [text EXCEPT ![d] = TRUE]
    /\ UNCHANGED <<event, gateway, bot, end, claimed, logged, replies, kafka>>

\* The last chunk, with done.
Done(d) ==
    /\ bot[d] = "stream"
    /\ BotGoesTo(d, "ended") /\ Ends(d, "done")
    /\ UNCHANGED <<event, gateway, text, claimed, logged, replies, kafka>>

\* An exception of retrieve or of the stream.
Raise(d) ==
    /\ bot[d] \in {"retrieve", "stream"}
    /\ BotGoesTo(d, "release")
    /\ UNCHANGED <<event, gateway, text, end, claimed, logged, replies, kafka>>

\* Mutant of Release: the claim is kept.
ReleaseMutant(d) ==
    /\ bot[d] = "release"
    /\ BotGoesTo(d, "abort")
    /\ UNCHANGED <<event, gateway, text, end, claimed, logged, replies, kafka>>

\* except Exception: the claim is released; with no answer of Redis the call fails.
Release(d) ==
    /\ bot[d] = "release"
    /\ \/ claimed' = claimed \ {event[d]} /\ BotGoesTo(d, "abort") /\ UNCHANGED end
       \/ MayRelease(d) /\ BotGoesTo(d, "ended") /\ Ends(d, "error")
    /\ UNCHANGED <<event, gateway, text, logged, replies, kafka>>

Abort(d) ==
    /\ bot[d] = "abort"
    /\ BotGoesTo(d, "ended") /\ Ends(d, "error")
    /\ UNCHANGED <<event, gateway, text, claimed, logged, replies, kafka>>

\* The call is cut off at whatever it does: the bot is killed, the connection breaks
\* or, since its client is gone, grpc cancels it.  No Exception is raised.
CutOff(d) ==
    /\ bot[d] \notin {"none", "ended"}
    /\ BotGoesTo(d, "ended") /\ Ends(d, "error")
    /\ \/ bot[d] = "claim" /\ MayClaim(d)
       \/ bot[d] = "release" /\ MayRelease(d)
       \/ bot[d] \notin {"claim", "release"} /\ UNCHANGED claimed
    /\ UNCHANGED <<event, gateway, text, logged, replies, kafka>>

-----------------------------------------------------------------------------
\* Mutant of Recv: an error of the stream is taken for its end.
RecvMutant(d) ==
    /\ gateway[d] = "recv" /\ end[d] # "open"
    /\ GoesTo(d, IF text[d] THEN "send" ELSE "done")
    /\ UNCHANGED <<event, call, logged, replies, kafka>>

\* Mutant of Recv: an error of the stream is not looked at.
RecvForeverMutant(d) ==
    /\ gateway[d] = "recv" /\ end[d] = "done"
    /\ GoesTo(d, IF text[d] THEN "send" ELSE "done")
    /\ UNCHANGED <<event, call, logged, replies, kafka>>

\* The stream is assembled up to its end; an error or an empty reply is logged.
Recv(d) ==
    /\ gateway[d] = "recv" /\ end[d] # "open"
    /\ GoesTo(d, IF end[d] = "done" /\ text[d] THEN "send" ELSE "done")
    /\ UNCHANGED <<event, call, logged, replies, kafka>>

\* Mutant of SendText: the message is logged when it could not be sent, too.
SendTextMutant(d) ==
    /\ gateway[d] = "send"
    /\ GoesTo(d, "save")
    /\ \/ replies' = [replies EXCEPT ![event[d]] = @ + 1]
       \/ UNCHANGED replies
    /\ UNCHANGED <<event, call, logged, kafka>>

\* SendText: the client sends it, or the pod has no client or it fails.
SendText(d) ==
    /\ gateway[d] = "send"
    /\ \/ replies' = [replies EXCEPT ![event[d]] = @ + 1] /\ GoesTo(d, "save")
       \/ UNCHANGED replies /\ GoesTo(d, "done")
    /\ UNCHANGED <<event, call, logged, kafka>>

\* Mutant of LogOutbound: another name for the direction.
LogOutboundMutant(d) ==
    /\ gateway[d] = "save"
    /\ LogMessage(d, "sent")
    /\ GoesTo(d, "done")
    /\ UNCHANGED <<event, call, replies, kafka>>

LogOutbound(d) ==
    /\ gateway[d] = "save"
    /\ LogMessage(d, "outbound")
    /\ GoesTo(d, "done")
    /\ UNCHANGED <<event, call, replies, kafka>>

\* The pod dies; grpc cancels the call later, with CutOff.
Crash(d) ==
    /\ gateway[d] \notin {"none", "done", "dead"}
    /\ GoesTo(d, "dead")
    /\ UNCHANGED <<event, call, logged, replies, kafka>>

\* The brokers become unreachable, and reachable again.
Outage ==
    /\ kafka = "up"
    /\ kafka' = "down"
    /\ UNCHANGED <<event, gateway, call, logged, replies>>

Recovery ==
    /\ kafka = "down"
    /\ kafka' = "up"
    /\ UNCHANGED <<event, gateway, call, logged, replies>>

OnMessage(d) ==
    LogInbound(d) \/ Publish(d) \/ Call(d) \/ Recv(d) \/ SendText(d) \/ LogOutbound(d)

Process(d) ==
    \/ Claim(d) \/ SkipDuplicate(d) \/ ClaimFails(d) \/ Retrieve(d) \/ Token(d)
    \/ Done(d) \/ Raise(d) \/ Release(d) \/ Abort(d)

Next ==
    \/ Outage \/ Recovery
    \/ \E d \in Deliveries, e \in Events : Deliver(d, e)
    \/ \E d \in Deliveries : OnMessage(d) \/ Process(d) \/ CutOff(d) \/ Crash(d)

Spec == Init /\ [][Next]_vars

\* What a delivery waits for with no bound on the time: a statement on the database and
\* WhatsApp, which have no deadline of ours, the whole of the call, which has none
\* either, and in it Redis, whose client has no socket timeout.
Waits(d) ==
    \/ gateway[d] \in {"log", "send", "save"}
    \/ bot[d] \in {"claim", "retrieve", "stream", "release"}

\* Of itself a delivery takes the steps that wait for nobody; a record gets through to
\* brokers that are reachable again and again.
Fairness ==
    \A d \in Deliveries :
        /\ WF_vars(Call(d)) /\ WF_vars(Recv(d)) /\ WF_vars(Abort(d))
        /\ SF_vars(Publish(d))

FairSpec == Spec /\ Fairness

-----------------------------------------------------------------------------
\* The call of delivery d holds the claim of its event.
Working(d) == bot[d] \in {"retrieve", "stream", "release"}

\* A reply to the event of d is on its way to WhatsApp.
Carries(d) ==
    \/ gateway[d] = "recv" /\ end[d] = "done" /\ text[d]
    \/ gateway[d] = "send"

\* However often a message is delivered and whatever fails, it is answered at most
\* once ("preventing duplicate LLM responses", idempotency.py:4).
RepliedOnce == \A e \in Events : replies[e] =< 1

\* A claim is released only when nobody else works on the event and no reply to it
\* was or will be sent, so that the retry it makes room for (idempotency.py:29) does
\* not answer twice.
ReleaseIsSafe ==
    [][\A e \in Events : e \in claimed /\ e \notin claimed' =>
        /\ replies[e] = 0
        /\ \A d \in Deliveries : event[d] = e => ~Carries(d) /\ ~Working(d)']_vars

\* The analytics never count a reply that was not sent, whatever is delivered again.
OutboundWasSent == \A e \in Events : <<e, "outbound">> \in logged => replies[e] > 0

\* A reply that reaches WhatsApp is a whole one: the bot streamed it to its end and
\* keeps the claim, so that no other call answers the event.
ReplyIsClaimed ==
    \A d \in Deliveries : gateway[d] \in {"send", "save"} =>
        end[d] = "done" /\ event[d] \in claimed

\* Nothing a delivery waits for stays silent for ever, and the brokers are reachable
\* again and again.
EveryoneAnswers ==
    /\ []<>(kafka = "up")
    /\ \A d \in Deliveries : []<>~Waits(d)

\* onMessage has no other way to hang: when everyone it waits for answers or fails, it
\* ends, however its call ended.
HandlerEnds ==
    EveryoneAnswers =>
        \A d \in Deliveries : gateway[d] = "log" ~> gateway[d] \in {"done", "dead"}

\* The call of d or the reply it carries owns the claim.
Owns(d) == Working(d) \/ Carries(d)

\* Nobody answers e and nobody can: it is claimed and has no owner.
Orphaned(e) ==
    e \in claimed /\ replies[e] = 0 /\ \A d \in Deliveries : event[d] = e => ~Owns(d)

\* How far the answer to an event is, as the claims in Redis have it.
Stage(e) ==
    IF e \notin claimed THEN "open"
    ELSE IF \E d \in Deliveries : event[d] = e /\ Owns(d) THEN "underway" ELSE "closed"

Stages == [e \in Events |-> Stage(e)]

Promise == INSTANCE SingleAnswer WITH stage <- Stages, answers <- replies

\* The hot path keeps what the claims promise: one answer to a message at a time, none
\* after it was given or cut off, and only a claim that is released makes room for
\* another one.
ImplementsSingleAnswer == Promise!Spec

\* What leaves a message claimed and unanswered for ever: a call that is cut off, a
\* Redis that does not answer, a pod that died, a reply that is empty or that WhatsApp
\* does not take.  An exception in the bot is not among them.
OrphanedByCut ==
    [][\A e \in Events : ~Orphaned(e) /\ Orphaned(e)' =>
        \E d \in Deliveries : event[d] = e /\
            \/ CutOff(d) \/ ClaimFails(d) \/ Crash(d)
            \/ Release(d) /\ end'[d] = "error"
            \/ Done(d) /\ ~(text[d] /\ gateway[d] = "recv")
            \/ SendText(d)]_vars

\* The parts of a delivery move in step.
InStep ==
    \A d \in Deliveries :
        /\ gateway[d] # "none" => event[d] \in Events
        /\ gateway[d] \in {"none", "log", "publish", "call"} => bot[d] = "none"
        /\ bot[d] # "ended" => end[d] = "open"
        /\ bot[d] \in {"none", "claim", "retrieve"} => ~text[d]
        /\ gateway[d] = "send" => text[d]
        /\ gateway[d] = "save" => replies[event[d]] > 0

\* An event has one owner at most, which holds its claim before any reply is sent.
OneOwner ==
    \A d \in Deliveries : Owns(d) =>
        /\ event[d] \in claimed
        /\ replies[event[d]] = 0
        /\ \A o \in Deliveries : Owns(o) /\ event[o] = event[d] => o = d

\* A claim is never given up after a reply.
AnsweredIsClaimed == \A e \in Events : replies[e] > 0 => e \in claimed

\* The inductive invariant behind the safety properties.
ReplyInv ==
    /\ TypeOK /\ InStep /\ OneOwner /\ AnsweredIsClaimed
    /\ RepliedOnce /\ ReplyIsClaimed /\ OutboundWasSent

-----------------------------------------------------------------------------
\* What the repository says of the hot path and TLC refutes.

\* A duplicate is skipped only when the event has been answered ("Redis SET NX in the
\* LLM bot - skips already-answered events", README.md:192), or is being answered.
SkippedIsAnswered ==
    [][\A d \in Deliveries : SkipDuplicate(d) =>
        \/ replies[event[d]] > 0
        \/ \E o \in Deliveries \ {d} :
            event[o] = event[d] /\ gateway[o] \in {"recv", "send", "save"}]_vars

\* A reply does not wait for Kafka ("not in the response critical path",
\* README.md:185).
KafkaNotCritical ==
    \A d \in Deliveries : gateway[d] = "publish" ~> gateway[d] # "publish"
=============================================================================
