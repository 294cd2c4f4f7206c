----------------------------- MODULE Dashboard -----------------------------
(***************************************************************************)
(* What an operator sees: the Dashboard page with its QRModal              *)
(* (frontend/src/pages/Dashboard.tsx, api/client.ts), the connections API  *)
(* behind it (app/routers/connections.py) and the two reads and one write  *)
(* of the gateway's HTTP server (internal/server/http.go, Snapshot,        *)
(* QRCode and CreateAndBring of internal/whatsapp/manager.go).             *)
(*                                                                         *)
(* Gateway has what a slot goes through; here its row, its entry and its   *)
(* code change in any way whatever, as often as MaxChanges allows.  What   *)
(* is asked and not answered yet is kept with what was read for it, so     *)
(* that answers come late and overtake each other: the page sets its       *)
(* intervals without waiting for the answer to the last request.           *)
(***************************************************************************)
EXTENDS Naturals

CONSTANTS
    Slots, NoSlot,
    Codes, NoCode,   \* QR codes, and an empty one
    Loads,           \* requests for the list that are under way at once
    Polls,           \* requests for a code that are under way at once
    Links,           \* clicks on "Link Phone" that are under way at once
    MaxChanges       \* bound: changes of the gateway's state

ASSUME DashboardAssumption ==
    NoSlot \notin Slots /\ NoCode \notin Codes /\ MaxChanges \in Nat

VARIABLES
    row,         \* the status of a slot's row, or "absent"
    live,        \* the status of its entry on the pod the API asks, or "none"
    code,        \* the entry's QRCode
    reachable,   \* whether the API reaches that pod
    changes,     \* how often the four changed
    list,        \* the page's list: a slot's status, or "absent"
    banner,      \* whether the page says that the gateway is unreachable
    loads,       \* requests for the list
    links,       \* requests to create a slot
    modal,       \* the slot whose QRModal is open, or NoSlot
    shown,       \* the code it shows, with the slot it is of
    connected,   \* whether it says "Phone connected!"
    closure,     \* whether there was a code when its effect ran
    polling,     \* whether its interval is set
    polls        \* requests for a code

gateway == <<row, live, code, reachable, changes>>
page == <<list, banner, loads>>
qrModal == <<modal, shown, connected, closure, polling, polls>>
vars == <<gateway, page, links, qrModal>>

RowStatuses == {"disconnected", "claimed", "connected"}
LiveStatuses == {"connecting", "qr", "connected", "disconnected"}

Nothing == [slot |-> NoSlot, code |-> NoCode]
Idle == [at |-> "idle"]
ReadLive == [Slots -> LiveStatuses \cup {"none"}]
Listed == [Slots -> RowStatuses \cup LiveStatuses \cup {"absent"}]

Load == {Idle} \cup [at : {"asked"}]
               \cup [at : {"live"}, up : BOOLEAN, live : ReadLive]
               \cup [at : {"merged"}, up : BOOLEAN, list : Listed]
Link == {Idle} \cup [at : {"asked"}] \cup [at : {"made"}, slot : Slots]
Poll == {Idle} \cup [at : {"asked"}, slot : Slots, had : BOOLEAN]
               \cup [at : {"answered"}, slot : Slots, had : BOOLEAN, code : Codes \cup {NoCode}]

TypeOK ==
    /\ row \in [Slots -> RowStatuses \cup {"absent"}]
    /\ live \in ReadLive
    /\ code \in [Slots -> Codes \cup {NoCode}]
    /\ reachable \in BOOLEAN /\ changes \in 0..MaxChanges
    /\ list \in Listed /\ banner \in BOOLEAN
    /\ loads \in [Loads -> Load] /\ links \in [Links -> Link] /\ polls \in [Polls -> Poll]
    /\ modal \in Slots \cup {NoSlot}
    /\ shown \in [slot : Slots \cup {NoSlot}, code : Codes \cup {NoCode}]
    /\ connected \in BOOLEAN /\ closure \in BOOLEAN /\ polling \in BOOLEAN

\* The page is opened while slots are as they may be.
Init ==
    /\ row \in [Slots -> RowStatuses \cup {"absent"}]
    /\ live \in {f \in ReadLive : \A s \in Slots : row[s] = "absent" => f[s] = "none"}
    /\ code \in {f \in [Slots -> Codes \cup {NoCode}] : \A s \in Slots : live[s] = "none" => f[s] = NoCode}
    /\ reachable = TRUE /\ changes = 0
    /\ list = [s \in Slots |-> "absent"] /\ banner = FALSE
    /\ loads = [l \in Loads |-> Idle]
    /\ links = [k \in Links |-> Idle]
    /\ modal = NoSlot /\ shown = Nothing
    /\ connected = FALSE /\ closure = FALSE /\ polling = FALSE
    /\ polls = [q \in Polls |-> Idle]

-----------------------------------------------------------------------------
\* The slots move: the row is written, the entry is made, changed or evicted, its code
\* is set or cleared, in any order; or the pod goes out of reach or comes back.
Changes ==
    /\ changes < MaxChanges /\ changes' = changes + 1
    /\ \/ /\ \E s \in Slots :
             /\ row[s] # "absent"
             /\ \/ \E status \in RowStatuses : row' = [row EXCEPT ![s] = status]
                   /\ UNCHANGED <<live, code>>
                \/ \E status \in LiveStatuses : live' = [live EXCEPT ![s] = status]
                   /\ UNCHANGED <<row, code>>
                \/ live' = [live EXCEPT ![s] = "none"] /\ code' = [code EXCEPT ![s] = NoCode]
                   /\ UNCHANGED row
                \/ live[s] # "none"
                   /\ \E c \in Codes \cup {NoCode} : code' = [code EXCEPT ![s] = c]
                   /\ UNCHANGED <<row, live>>
          /\ UNCHANGED reachable
       \/ reachable' = ~reachable /\ UNCHANGED <<row, live, code>>
    /\ UNCHANGED <<page, links, qrModal>>

-----------------------------------------------------------------------------
\* load: the page asks for the list when it opens, every five seconds, after a
\* disconnect and when the modal closes.
AskList(l) ==
    /\ loads[l] = Idle
    /\ loads' = [loads EXCEPT ![l] = [at |-> "asked"]]
    /\ UNCHANGED <<gateway, list, banner, links, qrModal>>

\* list_connections: the pod's Snapshot, or nothing when it does not answer,
ReadSnapshot(l) ==
    /\ loads[l].at = "asked"
    /\ loads' = [loads EXCEPT ![l] =
         [at |-> "live", up |-> reachable,
          live |-> IF reachable THEN live ELSE [s \in Slots |-> "none"]]]
    /\ UNCHANGED <<gateway, list, banner, links, qrModal>>

\* Mutant of Merged: only what the pod has is listed.
MergedMutant(snapshot) ==
    [s \in Slots |-> IF snapshot[s] # "none" THEN snapshot[s] ELSE "absent"]

\* The status listed for a row: the entry's, or the row's when the pod has none.
Merged(snapshot) ==
    [s \in Slots |-> IF row[s] = "absent" THEN "absent"
                     ELSE IF snapshot[s] # "none" THEN snapshot[s] ELSE row[s]]

\* and then the rows, which are merged with it.
ReadRows(l) ==
    /\ loads[l].at = "live"
    /\ loads' = [loads EXCEPT ![l] =
         [at |-> "merged", up |-> loads[l].up, list |-> Merged(loads[l].live)]]
    /\ UNCHANGED <<gateway, list, banner, links, qrModal>>

\* Mutant of ShowList: the banner stays, once it is shown.
ShowListMutant(l) ==
    /\ loads[l].at = "merged"
    /\ list' = loads[l].list /\ banner' = (banner \/ ~loads[l].up)
    /\ loads' = [loads EXCEPT ![l] = Idle]
    /\ UNCHANGED <<gateway, links, qrModal>>

\* The page shows what an answer says, whichever was asked last.
ShowList(l) ==
    /\ loads[l].at = "merged"
    /\ list' = loads[l].list /\ banner' = ~loads[l].up
    /\ loads' = [loads EXCEPT ![l] = Idle]
    /\ UNCHANGED <<gateway, links, qrModal>>

-----------------------------------------------------------------------------
\* QRModal is rendered for s: a new one, or, when one is open, the same component with
\* another connId, which keeps its state; its effect runs and sees the code it shows.
OpenModal(s) ==
    /\ modal' = s
    /\ IF modal = NoSlot
       THEN shown' = Nothing /\ connected' = FALSE /\ closure' = FALSE
       ELSE closure' = (shown # Nothing) /\ UNCHANGED <<shown, connected>>
    /\ polling' = TRUE

\* "Show QR" of a slot the list says is pairing; an open modal covers the page.
ShowQR(s) ==
    /\ modal = NoSlot /\ list[s] = "qr"
    /\ OpenModal(s)
    /\ UNCHANGED <<gateway, page, links, polls>>

\* Mutant of CloseModal: answers that come later are taken.
CloseModalMutant ==
    /\ modal # NoSlot
    /\ modal' = NoSlot /\ shown' = Nothing
    /\ connected' = FALSE /\ closure' = FALSE /\ polling' = FALSE
    /\ UNCHANGED <<gateway, page, links, polls>>

\* The modal is unmounted; answers that come later set nothing.
CloseModal ==
    /\ modal # NoSlot
    /\ modal' = NoSlot /\ shown' = Nothing
    /\ connected' = FALSE /\ closure' = FALSE /\ polling' = FALSE
    /\ polls' = [q \in Polls |-> Idle]
    /\ UNCHANGED <<gateway, page, links>>

\* poll, when the effect runs and every three seconds.
AskQR(q) ==
    /\ polling /\ polls[q] = Idle
    /\ polls' = [polls EXCEPT ![q] = [at |-> "asked", slot |-> modal, had |-> closure]]
    /\ UNCHANGED <<gateway, page, links, modal, shown, connected, closure, polling>>

\* GET /connections/{id}/qr: the code, or 404 when there is none.
ReadQR(q) ==
    /\ polls[q].at = "asked" /\ reachable
    /\ polls' = [polls EXCEPT ![q] =
         [at |-> "answered", slot |-> polls[q].slot, had |-> polls[q].had,
          code |-> code[polls[q].slot]]]
    /\ UNCHANGED <<gateway, page, links, modal, shown, connected, closure, polling>>

\* The pod does not answer: poll goes on.
QRFails(q) ==
    /\ polls[q].at = "asked" /\ ~reachable
    /\ polls' = [polls EXCEPT ![q] = Idle]
    /\ UNCHANGED <<gateway, page, links, modal, shown, connected, closure, polling>>

\* Mutant of TakeQR: no code while one is shown means that the phone connected.
TakeQRMutant(q) ==
    /\ polls[q].at = "answered"
    /\ LET none == polls[q].code = NoCode
       IN  /\ shown' = IF none THEN shown ELSE [slot |-> polls[q].slot, code |-> polls[q].code]
           /\ connected' = (connected \/ (none /\ shown # Nothing))
           /\ polling' = (polling /\ ~(none /\ shown # Nothing))
    /\ polls' = [polls EXCEPT ![q] = Idle]
    /\ UNCHANGED <<gateway, page, links, modal, closure>>

\* The answer is taken: a code is shown; none, when the effect saw a code, means that
\* the phone connected, and the interval is cleared.
TakeQR(q) ==
    /\ polls[q].at = "answered"
    /\ LET none == polls[q].code = NoCode
       IN  /\ shown' = IF none THEN shown ELSE [slot |-> polls[q].slot, code |-> polls[q].code]
           /\ connected' = (connected \/ (none /\ polls[q].had))
           /\ polling' = (polling /\ ~(none /\ polls[q].had))
    /\ polls' = [polls EXCEPT ![q] = Idle]
    /\ UNCHANGED <<gateway, page, links, modal, closure>>

-----------------------------------------------------------------------------
\* onLinkPhone: the button waits for the answer; the Enter key does not.
LinkPhone(k) ==
    /\ links[k] = Idle
    /\ links' = [links EXCEPT ![k] = [at |-> "asked"]]
    /\ UNCHANGED <<gateway, page, qrModal>>

\* POST /connections: CreateAndBring has inserted the row; what Bring does next is
\* among the changes.
MakeSlot(k, s) ==
    /\ links[k].at = "asked" /\ reachable /\ row[s] = "absent"
    /\ row' = [row EXCEPT ![s] = "disconnected"]
    /\ links' = [links EXCEPT ![k] = [at |-> "made", slot |-> s]]
    /\ UNCHANGED <<live, code, reachable, changes, page, qrModal>>

\* The answer opens the modal of the new slot.
Linked(k) ==
    /\ links[k].at = "made"
    /\ IF modal = links[k].slot THEN UNCHANGED <<modal, shown, connected, closure, polling>>
       ELSE OpenModal(links[k].slot)
    /\ links' = [links EXCEPT ![k] = Idle]
    /\ UNCHANGED <<gateway, page, polls>>

\* The call fails, or the API gives up after ten seconds, whatever the gateway has
\* done: the page shows an error and the operator may try again.
LinkFails(k) ==
    /\ links[k] # Idle
    /\ links' = [links EXCEPT ![k] = Idle]
    /\ UNCHANGED <<gateway, page, qrModal>>

-----------------------------------------------------------------------------
Listing(l) == AskList(l) \/ ReadSnapshot(l) \/ ReadRows(l) \/ ShowList(l)
Polling(q) == AskQR(q) \/ ReadQR(q) \/ QRFails(q) \/ TakeQR(q)

Next ==
    \/ Changes
    \/ \E l \in Loads : Listing(l)
    \/ \E q \in Polls : Polling(q)
    \/ \E s \in Slots : ShowQR(s)
    \/ CloseModal
    \/ \E k \in Links : LinkPhone(k) \/ Linked(k) \/ LinkFails(k)
    \/ \E k \in Links, s \in Slots : MakeSlot(k, s)

Spec == Init /\ [][Next]_vars

\* Intervals fire and requests are answered, or time out.
Fairness ==
    /\ \A l \in Loads : WF_vars(Listing(l))
    /\ \A q \in Polls : WF_vars(Polling(q))

FairSpec == Spec /\ Fairness

-----------------------------------------------------------------------------
\* The list says of a slot what its entry says, or its row when the pod has no entry or
\* does not answer; the banner says whether it answers.
TrueList ==
    /\ banner = ~reachable
    /\ \A s \in Slots :
        \/ row[s] = "absent" /\ list[s] = "absent"
        \/ row[s] # "absent" /\ reachable /\ live[s] # "none" /\ list[s] = live[s]
        \/ row[s] # "absent" /\ (~reachable \/ live[s] = "none") /\ list[s] = row[s]

\* The list settles: however requests overtake each other, and though an answer is a
\* merge of two reads, once the slots stay as they are the list says what is.
ListSettles == <>[]TrueList

\* A slot that was created is seen, even if the click that made it was told that it
\* failed, and is not lost from the list for ever by an older answer.
CreatedIsSeen == \A s \in Slots : row[s] # "absent" ~> list[s] # "absent"

\* A code that stays is shown: with the modal open, a pod in reach and a code that is
\* not replaced any more, the modal comes to show it, of the right slot, and does not
\* say that the phone connected, unless it was switched from a slot whose code it showed.
CodeShown ==
    \A s \in Slots, c \in Codes :
        <>[](modal = s /\ code[s] = c /\ reachable /\ ~closure) =>
            <>[](shown = [slot |-> s, code |-> c] /\ ~connected)

-----------------------------------------------------------------------------
\* What the list, and a request for it, has of a slot is of a slot that exists.
Exist(listed) == \A s \in Slots : row[s] = "absent" => listed[s] = "absent"

\* A row is not taken back, and only a slot with a row has an entry; so a list, a
\* snapshot and the modal are of slots that exist, however old the answer is.
ListedExist ==
    /\ Exist(list)
    /\ \A s \in Slots : row[s] = "absent" => live[s] = "none" /\ modal # s
    /\ \A l \in Loads : loads[l].at = "merged" => Exist(loads[l].list)

\* Two clicks, the second before the first is answered, make two slots: each answer
\* names a slot that exists and no other answer names.
MadeApart ==
    \A k \in Links : links[k].at = "made" =>
        /\ row[links[k].slot] # "absent"
        /\ \A j \in Links : links[j].at = "made" /\ links[j].slot = links[k].slot => j = k

\* The poll of the modal compares the code its effect saw.  So it says that the phone
\* connected, and stops to ask, only after it was switched from a slot whose code it
\* showed, as a second click on "Link Phone" may do; a modal that stays with its slot
\* asks for ever.  A closed one shows nothing and has nothing under way.
ModalAsks ==
    /\ IF modal = NoSlot
       THEN shown = Nothing /\ ~connected /\ ~closure /\ ~polling
       ELSE polling \/ connected
    /\ connected => closure
    /\ closure => shown # Nothing
    /\ \A q \in Polls : polls[q] # Idle => modal # NoSlot /\ (polls[q].had => closure)

\* The inductive invariant of the page.
PageInv == TypeOK /\ ListedExist /\ MadeApart /\ ModalAsks

-----------------------------------------------------------------------------
\* The list is true, and no answer that was read before the last change is under way.
Snapshot == IF reachable THEN live ELSE [s \in Slots |-> "none"]

Settled ==
    /\ list = Merged(Snapshot) /\ banner = ~reachable
    /\ \A l \in Loads :
        /\ loads[l].at = "live" => loads[l].up = reachable /\ loads[l].live = Snapshot
        /\ loads[l].at = "merged" => loads[l].up = reachable /\ loads[l].list = list

\* The safety of ListSettles: while the slots stay as they are, a list that settled
\* stays true, whichever requests are asked, read and answered in whatever order.
SettledStays == [][Settled /\ UNCHANGED gateway => Settled']_vars

\* The modal shows the code c of its slot s, and no answer under way says otherwise.
Shows(s, c) ==
    /\ modal = s /\ shown = [slot |-> s, code |-> c] /\ polling /\ ~closure
    /\ \A q \in Polls : polls[q] # Idle =>
        polls[q].slot = s /\ (polls[q].at = "answered" => polls[q].code = c)

\* The safety of CodeShown: a code that is shown stays, and the modal goes on to ask,
\* until the entry's code changes or the modal is closed or switched.
ShownStays ==
    [][\A s \in Slots, c \in Codes :
        Shows(s, c) /\ code[s] = c /\ UNCHANGED modal => Shows(s, c)']_vars

-----------------------------------------------------------------------------
\* What the repository says of the modal and TLC refutes.

\* The modal says that the phone connected when it did ("QR disappeared - phone
\* connected successfully", Dashboard.tsx:24).
ConnectedIsTrue ==
    connected => live[modal] = "connected" \/ row[modal] = "connected"
=============================================================================
