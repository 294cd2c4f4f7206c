-------------------------- MODULE DashboardProofs --------------------------
(***************************************************************************)
(* Theorems about Dashboard, for any number of slots, codes, requests and  *)
(* clicks: the invariant of the page, and the safety behind the promises   *)
(* that its list settles and that a code that stays is shown.              *)
(***************************************************************************)
EXTENDS Dashboard, TLAPS

\* The parts of a request, by the step it is at.
LEMMA LoadParts ==
    ASSUME NEW x \in Load
    PROVE  /\ x.at \in {"idle", "asked", "live", "merged"}
           /\ x.at = "live" => x.up \in BOOLEAN /\ x.live \in ReadLive
           /\ x.at = "merged" => x.up \in BOOLEAN /\ x.list \in Listed
BY DEF Load, Idle

LEMMA LinkParts ==
    ASSUME NEW x \in Link
    PROVE  /\ x.at \in {"idle", "asked", "made"} /\ (x = Idle <=> x.at = "idle")
           /\ x.at = "made" => x.slot \in Slots
BY DEF Link, Idle

LEMMA PollParts ==
    ASSUME NEW x \in Poll
    PROVE  /\ x.at \in {"idle", "asked", "answered"} /\ (x = Idle <=> x.at = "idle")
           /\ x # Idle => x.slot \in Slots /\ x.had \in BOOLEAN
           /\ x.at = "answered" => x.code \in Codes \cup {NoCode}
BY DEF Poll, Idle

\* What is kept for a request.
LEMMA RequestTypes ==
    /\ Idle \in Load /\ Idle \in Link /\ Idle \in Poll
    /\ [at |-> "asked"] \in Load /\ [at |-> "asked"] \in Link
    /\ \A up \in BOOLEAN, f \in ReadLive : [at |-> "live", up |-> up, live |-> f] \in Load
    /\ \A up \in BOOLEAN, f \in Listed : [at |-> "merged", up |-> up, list |-> f] \in Load
    /\ \A s \in Slots : [at |-> "made", slot |-> s] \in Link
    /\ \A s \in Slots, had \in BOOLEAN : [at |-> "asked", slot |-> s, had |-> had] \in Poll
    /\ \A s \in Slots, had \in BOOLEAN, c \in Codes \cup {NoCode} :
            [at |-> "answered", slot |-> s, had |-> had, code |-> c] \in Poll
BY DEF Load, Link, Poll, Idle

LEMMA SnapshotTypes ==
    ASSUME TypeOK
    PROVE  /\ Snapshot \in ReadLive
           /\ \A f \in ReadLive : Merged(f) \in Listed
<1>1. Snapshot \in ReadLive
    BY DEF TypeOK, Snapshot, ReadLive
<1>2. ASSUME NEW f \in ReadLive
      PROVE  Merged(f) \in Listed
    BY <1>2 DEF TypeOK, Merged, ReadLive, Listed
<1> QED
    BY <1>1, <1>2

-----------------------------------------------------------------------------
\* Types.
LEMMA TypeStep ==
    ASSUME TypeOK, ModalAsks, [Next]_vars
    PROVE  TypeOK'
<1> USE RequestTypes
<1>1. CASE UNCHANGED vars
    BY <1>1 DEF TypeOK, vars, gateway, page, qrModal
<1>2. CASE Changes
  <2>1. UNCHANGED <<page, links, qrModal>> /\ changes' \in 0..MaxChanges
    BY <1>2, DashboardAssumption DEF Changes, TypeOK
  <2>2. reachable' \in BOOLEAN
    BY <1>2 DEF Changes, TypeOK
  <2>3. row' \in [Slots -> RowStatuses \cup {"absent"}]
    BY <1>2 DEF Changes, TypeOK
  <2>4. live' \in ReadLive
    BY <1>2 DEF Changes, TypeOK, ReadLive
  <2>5. code' \in [Slots -> Codes \cup {NoCode}]
    BY <1>2 DEF Changes, TypeOK
  <2> QED
    BY <2>1, <2>2, <2>3, <2>4, <2>5 DEF TypeOK, page, qrModal
<1>3. ASSUME NEW l \in Loads, Listing(l)
      PROVE  TypeOK'
  <2>1. UNCHANGED <<gateway, links, qrModal>>
    BY <1>3 DEF Listing, AskList, ReadSnapshot, ReadRows, ShowList
  <2>2. loads' \in [Loads -> Load]
    <3>1. CASE AskList(l) \/ ShowList(l)
        BY <3>1 DEF AskList, ShowList, TypeOK
    <3>2. CASE ReadSnapshot(l)
        BY <3>2, SnapshotTypes DEF ReadSnapshot, Snapshot, TypeOK
    <3>3. CASE ReadRows(l)
        BY <3>3, SnapshotTypes, LoadParts DEF ReadRows, TypeOK
    <3> QED
        BY <1>3, <3>1, <3>2, <3>3 DEF Listing
  <2>3. list' \in Listed /\ banner' \in BOOLEAN
    BY <1>3, LoadParts DEF Listing, AskList, ReadSnapshot, ReadRows, ShowList, TypeOK
  <2> QED
    BY <2>1, <2>2, <2>3 DEF TypeOK, gateway, qrModal
<1>4. ASSUME NEW q \in Polls, Polling(q)
      PROVE  TypeOK'
  <2>1. UNCHANGED <<gateway, page, links, modal, closure>>
    BY <1>4 DEF Polling, AskQR, ReadQR, QRFails, TakeQR
  <2>2. polls' \in [Polls -> Poll]
    <3>1. CASE AskQR(q)
      <4>1. modal \in Slots
        BY <3>1 DEF AskQR, ModalAsks, TypeOK
      <4> QED
        BY <3>1, <4>1 DEF AskQR, TypeOK
    <3>2. CASE ReadQR(q)
      <4>1. polls[q].slot \in Slots /\ polls[q].had \in BOOLEAN
        BY <3>2, PollParts DEF ReadQR, TypeOK, Idle
      <4>2. code[polls[q].slot] \in Codes \cup {NoCode}
        BY <4>1 DEF TypeOK
      <4> QED
        BY <3>2, <4>1, <4>2 DEF ReadQR, TypeOK
    <3>3. CASE QRFails(q) \/ TakeQR(q)
        BY <3>3 DEF QRFails, TakeQR, TypeOK
    <3> QED
        BY <1>4, <3>1, <3>2, <3>3 DEF Polling
  <2>3. connected' \in BOOLEAN /\ polling' \in BOOLEAN
    BY <1>4 DEF Polling, AskQR, ReadQR, QRFails, TakeQR, TypeOK
  <2>4. shown' \in [slot : Slots \cup {NoSlot}, code : Codes \cup {NoCode}]
    <3>1. CASE TakeQR(q)
      <4>1. polls[q].slot \in Slots /\ polls[q].code \in Codes \cup {NoCode}
        BY <3>1, PollParts DEF TakeQR, TypeOK, Idle
      <4> QED
        BY <3>1, <4>1 DEF TakeQR, TypeOK
    <3> QED
        BY <1>4, <3>1 DEF Polling, AskQR, ReadQR, QRFails, TypeOK
  <2> QED
    BY <2>1, <2>2, <2>3, <2>4 DEF TypeOK, gateway, page
<1>5. ASSUME NEW s \in Slots, OpenModal(s)
      PROVE  /\ modal' \in Slots \cup {NoSlot} /\ connected' \in BOOLEAN
             /\ closure' \in BOOLEAN /\ polling' \in BOOLEAN
             /\ shown' \in [slot : Slots \cup {NoSlot}, code : Codes \cup {NoCode}]
  <2>1. CASE modal = NoSlot
    <3>1. Nothing \in [slot : Slots \cup {NoSlot}, code : Codes \cup {NoCode}]
        BY DEF Nothing
    <3> QED
        BY <1>5, <2>1, <3>1 DEF OpenModal
  <2>2. CASE modal # NoSlot
    BY <1>5, <2>2 DEF OpenModal, TypeOK
  <2> QED
    BY <2>1, <2>2
<1>6. ASSUME NEW s \in Slots, ShowQR(s)
      PROVE  TypeOK'
    BY <1>5, <1>6 DEF ShowQR, TypeOK, gateway, page
<1>7. CASE CloseModal
    BY <1>7 DEF CloseModal, TypeOK, gateway, page, Nothing
<1>8. ASSUME NEW k \in Links, LinkPhone(k) \/ LinkFails(k)
      PROVE  TypeOK'
    BY <1>8 DEF LinkPhone, LinkFails, TypeOK, gateway, page, qrModal
<1>9. ASSUME NEW k \in Links, Linked(k)
      PROVE  TypeOK'
  <2>1. links[k].slot \in Slots
    BY <1>9, LinkParts DEF Linked, TypeOK
  <2>2. links' \in [Links -> Link] /\ UNCHANGED <<gateway, page, polls>>
    BY <1>9 DEF Linked, TypeOK
  <2>3. /\ modal' \in Slots \cup {NoSlot} /\ connected' \in BOOLEAN
        /\ closure' \in BOOLEAN /\ polling' \in BOOLEAN
        /\ shown' \in [slot : Slots \cup {NoSlot}, code : Codes \cup {NoCode}]
    BY <1>5, <1>9, <2>1 DEF Linked, TypeOK
  <2> QED
    BY <2>2, <2>3 DEF TypeOK, gateway, page
<1>10. ASSUME NEW k \in Links, NEW s \in Slots, MakeSlot(k, s)
       PROVE  TypeOK'
    BY <1>10 DEF MakeSlot, TypeOK, page, qrModal, RowStatuses
<1> QED
    BY <1>1, <1>2, <1>3, <1>4, <1>6, <1>7, <1>8, <1>9, <1>10 DEF Next

-----------------------------------------------------------------------------
\* What is listed exists.
LEMMA ExistStep ==
    ASSUME PageInv, TypeOK', [Next]_vars
    PROVE  ListedExist'
<1> USE DEF PageInv
<1>1. \A s \in Slots : row'[s] = "absent" => row[s] = "absent"
  <2>1. CASE Changes
    BY <2>1 DEF Changes, TypeOK, RowStatuses
  <2>2. ASSUME NEW k \in Links, NEW s \in Slots, MakeSlot(k, s)
        PROVE  \A t \in Slots : row'[t] = "absent" => row[t] = "absent"
    BY <2>2 DEF MakeSlot, TypeOK
  <2>3. CASE UNCHANGED row
    BY <2>3
  <2> QED
    BY <2>1, <2>2, <2>3 DEF Next, vars, gateway, Listing, AskList, ReadSnapshot, ReadRows, ShowList,
       Polling, AskQR, ReadQR, QRFails, TakeQR, ShowQR, CloseModal, LinkPhone, Linked, LinkFails
<1>2. Exist(list)'
  <2>1. CASE UNCHANGED list
    BY <1>1, <2>1 DEF ListedExist, Exist
  <2>2. ASSUME NEW l \in Loads, ShowList(l)
        PROVE  Exist(list)'
    BY <1>1, <2>2 DEF ShowList, ListedExist, Exist
  <2> QED
    BY <2>1, <2>2 DEF Next, vars, page, Changes, Listing, AskList, ReadSnapshot, ReadRows,
       Polling, AskQR, ReadQR, QRFails, TakeQR, ShowQR, CloseModal, LinkPhone, Linked, LinkFails,
       MakeSlot
<1>3. ASSUME NEW s \in Slots, row'[s] = "absent"
      PROVE  live'[s] = "none"
  <2>1. CASE Changes
    BY <1>1, <1>3, <2>1 DEF Changes, ListedExist, TypeOK, ReadLive
  <2>2. CASE UNCHANGED live
    BY <1>1, <1>3, <2>2 DEF ListedExist
  <2> QED
    BY <2>1, <2>2 DEF Next, vars, gateway, Listing, AskList, ReadSnapshot, ReadRows, ShowList,
       Polling, AskQR, ReadQR, QRFails, TakeQR, ShowQR, CloseModal, LinkPhone, Linked, LinkFails,
       MakeSlot
<1>4. ASSUME NEW s \in Slots, row'[s] = "absent"
      PROVE  modal' # s
  <2>1. CASE UNCHANGED modal
    BY <1>1, <1>4, <2>1 DEF ListedExist
  <2>2. ASSUME NEW t \in Slots, ShowQR(t)
        PROVE  modal' # s
    BY <1>1, <1>4, <2>2 DEF ShowQR, OpenModal, ListedExist, Exist
  <2>3. CASE CloseModal
    BY <2>3, DashboardAssumption DEF CloseModal
  <2>4. ASSUME NEW k \in Links, Linked(k)
        PROVE  modal' # s
    BY <1>1, <1>4, <2>4 DEF Linked, OpenModal, MadeApart, ListedExist
  <2> QED
    BY <2>1, <2>2, <2>3, <2>4 DEF Next, vars, qrModal, Changes, Listing, AskList, ReadSnapshot,
       ReadRows, ShowList, Polling, AskQR, ReadQR, QRFails, TakeQR, LinkPhone, LinkFails, MakeSlot
<1>5. ASSUME NEW l \in Loads, loads'[l].at = "merged"
      PROVE  Exist(loads[l].list)'
  <2>1. CASE loads'[l] = loads[l]
    BY <1>1, <1>5, <2>1 DEF ListedExist, Exist
  <2>2. CASE loads'[l] # loads[l]
    <3>1. PICK m \in Loads : Listing(m)
        BY <2>2 DEF Next, vars, page, Changes, Polling, AskQR, ReadQR, QRFails, TakeQR, ShowQR,
           CloseModal, LinkPhone, Linked, LinkFails, MakeSlot
    <3>2. ReadRows(l)
        BY <1>5, <2>2, <3>1 DEF Listing, AskList, ReadSnapshot, ReadRows, ShowList, TypeOK, Idle
    <3> QED
        BY <3>2 DEF ReadRows, gateway, Merged, Exist, TypeOK
  <2> QED
    BY <2>1, <2>2
<1> QED
    BY <1>2, <1>3, <1>4, <1>5 DEF ListedExist

\* Clicks make slots of their own.
LEMMA MadeStep ==
    ASSUME PageInv, TypeOK', [Next]_vars
    PROVE  MadeApart'
<1> USE DEF PageInv
<1>1. ASSUME \A k \in Links : links'[k].at = "made" =>
                 links'[k] = links[k] /\ row'[links[k].slot] # "absent"
      PROVE  MadeApart'
    BY <1>1 DEF MadeApart
<1>2. CASE Changes
  <2>1. UNCHANGED links
    BY <1>2 DEF Changes
  <2>2. \A s \in Slots : row'[s] = "absent" => row[s] = "absent"
    BY <1>2 DEF Changes, TypeOK, RowStatuses
  <2> QED
    BY <1>1, <2>1, <2>2, LinkParts DEF MadeApart, TypeOK
<1>3. ASSUME NEW k \in Links, LinkPhone(k) \/ Linked(k) \/ LinkFails(k)
      PROVE  MadeApart'
  <2>1. UNCHANGED row
    BY <1>3 DEF LinkPhone, Linked, LinkFails, gateway
  <2>2. \A j \in Links : links'[j].at = "made" => links'[j] = links[j]
    BY <1>3 DEF LinkPhone, Linked, LinkFails, TypeOK, Idle
  <2> QED
    BY <1>1, <2>1, <2>2 DEF MadeApart
<1>4. ASSUME NEW k \in Links, NEW s \in Slots, MakeSlot(k, s)
      PROVE  MadeApart'
  <2>1. /\ row[s] = "absent" /\ links'[k] = [at |-> "made", slot |-> s]
        /\ \A j \in Links \ {k} : links'[j] = links[j]
        /\ \A t \in Slots : row'[t] = IF t = s THEN "disconnected" ELSE row[t]
    BY <1>4 DEF MakeSlot, TypeOK
  <2>2. \A j \in Links : links[j].at = "made" => links[j].slot \in Slots /\ links[j].slot # s
    BY <2>1, LinkParts DEF MadeApart, TypeOK
  <2> QED
    BY <2>1, <2>2 DEF MadeApart
<1>5. CASE UNCHANGED <<row, links>>
    BY <1>5 DEF MadeApart
<1> QED
    BY <1>2, <1>3, <1>4, <1>5 DEF Next, vars, gateway, Listing, AskList, ReadSnapshot, ReadRows,
       ShowList, Polling, AskQR, ReadQR, QRFails, TakeQR, ShowQR, CloseModal

\* The modal asks.
LEMMA OpenAsks ==
    ASSUME PageInv, NEW s \in Slots, OpenModal(s), UNCHANGED polls
    PROVE  ModalAsks'
<1>1. modal' # NoSlot /\ polling'
    BY DashboardAssumption DEF OpenModal
<1>2. CASE modal = NoSlot
    BY <1>1, <1>2 DEF OpenModal, PageInv, ModalAsks
<1>3. CASE modal # NoSlot
    BY <1>1, <1>3 DEF OpenModal, PageInv, ModalAsks
<1> QED
    BY <1>2, <1>3

LEMMA AsksStep ==
    ASSUME PageInv, TypeOK', [Next]_vars
    PROVE  ModalAsks'
<1> USE DEF PageInv
<1>1. CASE UNCHANGED qrModal
    BY <1>1 DEF ModalAsks, qrModal
<1>2. ASSUME NEW s \in Slots, ShowQR(s)
      PROVE  ModalAsks'
    BY <1>2, OpenAsks DEF ShowQR
<1>3. ASSUME NEW k \in Links, Linked(k)
      PROVE  ModalAsks'
  <2>1. links[k].slot \in Slots
    BY <1>3, LinkParts DEF Linked, TypeOK
  <2>2. CASE modal = links[k].slot
    BY <1>1, <1>3, <2>2 DEF Linked, qrModal
  <2>3. CASE modal # links[k].slot
    BY <1>3, <2>1, <2>3, OpenAsks DEF Linked
  <2> QED
    BY <2>2, <2>3
<1>4. CASE CloseModal
    BY <1>4 DEF CloseModal, ModalAsks
<1>5. ASSUME NEW q \in Polls, AskQR(q)
      PROVE  ModalAsks'
  <2>1. modal # NoSlot
    BY <1>5 DEF AskQR, ModalAsks
  <2>2. polls' = [polls EXCEPT ![q] = [at |-> "asked", slot |-> modal, had |-> closure]]
    BY <1>5 DEF AskQR
  <2> QED
    BY <1>5, <2>1, <2>2 DEF AskQR, ModalAsks, TypeOK
<1>6. ASSUME NEW q \in Polls, ReadQR(q) \/ QRFails(q)
      PROVE  ModalAsks'
  <2>1. polls[q] # Idle /\ modal # NoSlot
    BY <1>6 DEF ReadQR, QRFails, Idle, ModalAsks
  <2>2. \A r \in Polls : polls'[r] # Idle => polls[r] # Idle /\ polls'[r].had = polls[r].had
    BY <1>6, <2>1 DEF ReadQR, QRFails, TypeOK
  <2> QED
    BY <1>6, <2>1, <2>2 DEF ReadQR, QRFails, ModalAsks
<1>7. ASSUME NEW q \in Polls, TakeQR(q)
      PROVE  ModalAsks'
  <2>1. polls[q] # Idle /\ modal # NoSlot /\ (polls[q].had => closure)
    BY <1>7 DEF TakeQR, Idle, ModalAsks
  <2>2. \A r \in Polls : polls'[r] # Idle => polls'[r] = polls[r]
    BY <1>7 DEF TakeQR, TypeOK
  <2>3. shown # Nothing => shown' # Nothing
    BY <1>7, DashboardAssumption DEF TakeQR, Nothing
  <2>4. /\ connected' => connected \/ polls[q].had
        /\ polling' \/ connected'
    BY <1>7, <2>1 DEF TakeQR, ModalAsks
  <2>5. UNCHANGED <<modal, closure>>
    BY <1>7 DEF TakeQR
  <2> QED
    BY <2>1, <2>2, <2>3, <2>4, <2>5 DEF ModalAsks
<1> QED
    BY <1>1, <1>2, <1>3, <1>4, <1>5, <1>6, <1>7 DEF Next, vars, Changes, Listing, AskList,
       ReadSnapshot, ReadRows, ShowList, Polling, LinkPhone, LinkFails, MakeSlot, qrModal

\* The page lists and opens what exists, each click makes a slot of its own, and the
\* modal goes on to ask and does not say that the phone connected as long as it stays
\* with its slot, whatever the gateway, the operator and late answers do.
THEOREM PageInvHolds == Spec => []PageInv
<1>1. Init => PageInv
  <2> SUFFICES ASSUME Init
               PROVE  PageInv
    OBVIOUS
  <2>1. TypeOK
    <3>1. /\ row \in [Slots -> RowStatuses \cup {"absent"}] /\ live \in ReadLive
          /\ code \in [Slots -> Codes \cup {NoCode}]
        BY DEF Init
    <3>2. list \in Listed
        BY DEF Init, Listed
    <3>3. loads \in [Loads -> Load] /\ links \in [Links -> Link] /\ polls \in [Polls -> Poll]
        BY RequestTypes DEF Init
    <3>4. shown \in [slot : Slots \cup {NoSlot}, code : Codes \cup {NoCode}]
        BY DEF Init, Nothing
    <3>5. reachable \in BOOLEAN /\ changes \in 0..MaxChanges /\ banner \in BOOLEAN
      <4>1. reachable \in BOOLEAN /\ banner \in BOOLEAN /\ changes = 0
        BY DEF Init
      <4>2. changes \in 0..MaxChanges
        BY <4>1, DashboardAssumption
      <4> QED
        BY <4>1, <4>2
    <3>6. /\ modal \in Slots \cup {NoSlot}
          /\ connected \in BOOLEAN /\ closure \in BOOLEAN /\ polling \in BOOLEAN
        BY DEF Init
    <3> QED
        BY <3>1, <3>2, <3>3, <3>4, <3>5, <3>6 DEF TypeOK
  <2>2. ListedExist
    BY DashboardAssumption DEF Init, ListedExist, Exist, Idle
  <2>3. MadeApart
    BY DEF Init, MadeApart, Idle
  <2>4. ModalAsks
    BY DEF Init, ModalAsks
  <2> QED
    BY <2>1, <2>2, <2>3, <2>4 DEF PageInv
<1>2. PageInv /\ [Next]_vars => PageInv'
    BY TypeStep, ExistStep, MadeStep, AsksStep DEF PageInv
<1> QED
    BY <1>1, <1>2, PTL DEF Spec

-----------------------------------------------------------------------------
\* While the slots stay as they are, so does the list that says what they are.
LEMMA SettledStep ==
    ASSUME PageInv, PageInv', [Next]_vars, Settled, UNCHANGED gateway
    PROVE  Settled'
<1> USE DEF PageInv
<1>1. Snapshot' = Snapshot /\ Merged(Snapshot)' = Merged(Snapshot) /\ UNCHANGED reachable
    BY DEF Snapshot, Merged, gateway
<1>2. Snapshot \in ReadLive
    BY SnapshotTypes
<1>3. CASE UNCHANGED page
    BY <1>1, <1>3 DEF Settled, page
<1>4. ASSUME NEW l \in Loads, AskList(l)
      PROVE  Settled'
  <2>1. UNCHANGED <<list, banner>>
    BY <1>4 DEF AskList
  <2>2. \A m \in Loads : loads'[m].at \in {"live", "merged"} => loads'[m] = loads[m]
    BY <1>4 DEF AskList, TypeOK
  <2> QED
    BY <1>1, <2>1, <2>2 DEF Settled
<1>5. ASSUME NEW l \in Loads, ReadSnapshot(l)
      PROVE  Settled'
  <2>1. UNCHANGED <<list, banner>>
    BY <1>5 DEF ReadSnapshot
  <2>2. /\ loads'[l] = [at |-> "live", up |-> reachable, live |-> Snapshot]
        /\ \A m \in Loads \ {l} : loads'[m] = loads[m]
    BY <1>5 DEF ReadSnapshot, Snapshot, TypeOK
  <2> QED
    BY <1>1, <2>1, <2>2 DEF Settled
<1>6. ASSUME NEW l \in Loads, ReadRows(l)
      PROVE  Settled'
  <2>1. UNCHANGED <<list, banner>>
    BY <1>6 DEF ReadRows
  <2>2. /\ loads'[l] = [at |-> "merged", up |-> loads[l].up, list |-> Merged(loads[l].live)]
        /\ \A m \in Loads \ {l} : loads'[m] = loads[m]
    BY <1>6 DEF ReadRows, TypeOK
  <2>3. loads[l].up = reachable /\ Merged(loads[l].live) = list
    BY <1>6 DEF ReadRows, Settled
  <2> QED
    BY <1>1, <2>1, <2>2, <2>3 DEF Settled
<1>7. ASSUME NEW l \in Loads, ShowList(l)
      PROVE  Settled'
  <2>1. list' = list /\ banner' = ~reachable
    BY <1>7 DEF ShowList, Settled
  <2>2. \A m \in Loads : loads'[m].at \in {"live", "merged"} => loads'[m] = loads[m]
    BY <1>7 DEF ShowList, TypeOK, Idle
  <2> QED
    BY <1>1, <2>1, <2>2 DEF Settled
<1> QED
    BY <1>3, <1>4, <1>5, <1>6, <1>7 DEF Next, vars, Changes, Listing, Polling, AskQR, ReadQR,
       QRFails, TakeQR, ShowQR, CloseModal, LinkPhone, Linked, LinkFails, MakeSlot

\* A settled list is a true one.
LEMMA SettledIsTrue ==
    ASSUME TypeOK, Settled
    PROVE  TrueList
BY DEF TypeOK, Settled, TrueList, Merged, Snapshot, ReadLive

\* However requests for the list overtake each other, none takes back the truth: once
\* the list is true and no older answer is under way, it is true until a slot changes.
THEOREM ListStaysTrue == Spec => SettledStays /\ [](Settled => TrueList)
<1>1. PageInv /\ PageInv' /\ [Next]_vars => [Settled /\ UNCHANGED gateway => Settled']_vars
    BY SettledStep
<1>2. PageInv => (Settled => TrueList)
    BY SettledIsTrue DEF PageInv
<1> QED
    BY <1>1, <1>2, PageInvHolds, PTL DEF Spec, SettledStays

-----------------------------------------------------------------------------
\* While the entry's code stays and the modal stays with its slot, so does what it shows.
LEMMA ShownStep ==
    ASSUME PageInv, PageInv', [Next]_vars, NEW s \in Slots, NEW c \in Codes,
           Shows(s, c), code[s] = c, UNCHANGED modal
    PROVE  Shows(s, c)'
<1> USE DEF PageInv
<1>1. c # NoCode /\ s # NoSlot /\ modal = s
    BY DashboardAssumption DEF Shows
<1>2. CASE UNCHANGED qrModal
    BY <1>2 DEF Shows, qrModal
<1>3. ASSUME NEW q \in Polls, AskQR(q)
      PROVE  Shows(s, c)'
  <2>1. UNCHANGED <<modal, shown, closure, polling>>
    BY <1>3 DEF AskQR
  <2>2. /\ polls'[q] = [at |-> "asked", slot |-> s, had |-> closure]
        /\ \A r \in Polls \ {q} : polls'[r] = polls[r]
    BY <1>1, <1>3 DEF AskQR, TypeOK
  <2> QED
    BY <2>1, <2>2 DEF Shows
<1>4. ASSUME NEW q \in Polls, ReadQR(q)
      PROVE  Shows(s, c)'
  <2>1. UNCHANGED <<modal, shown, closure, polling>>
    BY <1>4 DEF ReadQR
  <2>2. polls[q].slot = s
    BY <1>4 DEF ReadQR, Shows, Idle
  <2>3. /\ polls'[q] = [at |-> "answered", slot |-> s, had |-> polls[q].had, code |-> c]
        /\ \A r \in Polls \ {q} : polls'[r] = polls[r]
    BY <1>4, <2>2 DEF ReadQR, TypeOK
  <2> QED
    BY <2>1, <2>3 DEF Shows
<1>5. ASSUME NEW q \in Polls, QRFails(q)
      PROVE  Shows(s, c)'
  <2>1. UNCHANGED <<modal, shown, closure, polling>>
    BY <1>5 DEF QRFails
  <2>2. \A r \in Polls : polls'[r] # Idle => polls'[r] = polls[r]
    BY <1>5 DEF QRFails, TypeOK
  <2> QED
    BY <2>1, <2>2 DEF Shows
<1>6. ASSUME NEW q \in Polls, TakeQR(q)
      PROVE  Shows(s, c)'
  <2>1. polls[q].slot = s /\ polls[q].code = c
    BY <1>6 DEF TakeQR, Shows, Idle
  <2>2. UNCHANGED <<modal, closure>> /\ shown' = [slot |-> s, code |-> c] /\ polling'
    BY <1>1, <1>6, <2>1 DEF TakeQR, Shows
  <2>3. \A r \in Polls : polls'[r] # Idle => polls'[r] = polls[r]
    BY <1>6 DEF TakeQR, TypeOK
  <2> QED
    BY <2>2, <2>3 DEF Shows
<1>7. \A t \in Slots : ~ShowQR(t)
    BY <1>1 DEF ShowQR
<1>8. ~CloseModal
    BY <1>1 DEF CloseModal
<1>9. ASSUME NEW k \in Links, Linked(k)
      PROVE  UNCHANGED qrModal
    BY <1>9 DEF Linked, OpenModal, qrModal
<1> QED
    BY <1>2, <1>3, <1>4, <1>5, <1>6, <1>7, <1>8, <1>9 DEF Next, vars, Changes, Listing, AskList,
       ReadSnapshot, ReadRows, ShowList, Polling, LinkPhone, LinkFails, MakeSlot

\* A code the modal shows is not replaced by a late answer, nor by the message that the
\* phone connected, while it is the code of the entry.
THEOREM ShownCodeStays == Spec => ShownStays
<1>1. PageInv /\ PageInv' /\ [Next]_vars =>
        [\A s \in Slots, c \in Codes :
            Shows(s, c) /\ code[s] = c /\ UNCHANGED modal => Shows(s, c)']_vars
    BY ShownStep
<1> QED
    BY <1>1, PageInvHolds, PTL DEF Spec, ShownStays
=============================================================================
