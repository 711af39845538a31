--------------------------- MODULE HearingsProofs ---------------------------
(***************************************************************************)
(* Proofs about Hearings, for any set of workers, hearings and days.        *)
(***************************************************************************)
EXTENDS Hearings, FiniteSetTheorems, TLAPS

(* A request works on a hearing that exists and that it loaded open; the    *)
(* predecessor is the one column no request ever changes.                   *)
SnapshotsSound ==
    \A w \in Workers : req[w] # Idle =>
        /\ req[w].hearing \in Hearings
        /\ req[w].snap.status = "scheduled"
        /\ row[req[w].hearing].status # "absent"
        /\ req[w].snap.prev = row[req[w].hearing].prev
        /\ req[w].snap.prev < req[w].hearing

(* Rows are inserted in the order of their keys.                            *)
InsertedInOrder ==
    \A g, h \in Hearings : g < h /\ row[h].status # "absent" => row[g].status # "absent"

(* A row not inserted yet is empty, and nothing follows it.                 *)
AbsentIsEmpty ==
    \A h \in Hearings : row[h].status = "absent" => row[h] = Absent /\ ~overlapped[h]

OnlyPresentFollowed ==
    \A f \in Hearings : row[f].prev # NoHearing =>
        row[f].prev \in Hearings /\ row[row[f].prev].status # "absent"

(* ChainSound, with the successors spelled out: an open hearing has no next *)
(* date, a hearing with one has one follow-up, and one without has none.    *)
Chain ==
    \A h \in Hearings : ~overlapped[h] =>
        /\ row[h].next = NoDate => FollowUps(h) = {}
        /\ row[h].next # NoDate => \E f \in Hearings : FollowUps(h) = {f}
        /\ row[h].next # NoDate => row[h].status \in {"held", "postponed"}
        /\ row[h].status = "postponed" => row[h].next # NoDate

HearingsInv ==
    /\ TypeOK
    /\ SnapshotsSound
    /\ InsertedInOrder
    /\ AbsentIsEmpty
    /\ OnlyPresentFollowed
    /\ Chain
    /\ TimelineTellsDate

-----------------------------------------------------------------------------
(* The types the proofs below use.                                          *)
LEMMA Types ==
    ASSUME HearingsInv
    PROVE  /\ row \in [Hearings -> HearingRow]
           /\ told \in [Hearings -> Days \cup {NoDate}]
           /\ overlapped \in [Hearings -> BOOLEAN]
           /\ req \in [Workers -> [hearing : Hearings \cup {NoHearing}, snap : HearingRow]]
           /\ Hearings \subseteq Nat \ {0} /\ Days \subseteq Nat \ {0}
  BY HearingsAssumption DEF HearingsInv, TypeOK

(* The rows the services write are rows.                                    *)
LEMMA RowTypes ==
    ASSUME NEW r \in HearingRow, NEW d \in Days, NEW s \in ClosedStatuses,
           NEW p \in Hearings \cup {NoHearing}
    PROVE  /\ [r EXCEPT !.day = d] \in HearingRow
           /\ [r EXCEPT !.status = s] \in HearingRow
           /\ [r EXCEPT !.status = s, !.next = d] \in HearingRow
           /\ Scheduled(d, p) \in HearingRow
           /\ Absent \in HearingRow
           /\ Idle \in [hearing : Hearings \cup {NoHearing}, snap : HearingRow]
  BY DEF HearingRow, Scheduled, ClosedStatuses, Absent, Idle

(* At first there is no hearing.                                            *)
LEMMA InitHearingsInv == Init => HearingsInv
  <1> SUFFICES ASSUME Init PROVE HearingsInv
    OBVIOUS
  <1>1. Absent \in HearingRow /\ Idle \in [hearing : Hearings \cup {NoHearing}, snap : HearingRow]
    BY DEF HearingRow, Absent, Idle
  <1>2. Hearings \subseteq Nat \ {0}
    BY HearingsAssumption
  <1>3. TypeOK
    BY <1>1, <1>2 DEF Init, TypeOK, Absent, NoHearing
  <1>4. SnapshotsSound /\ InsertedInOrder /\ AbsentIsEmpty /\ OnlyPresentFollowed
    BY DEF Init, Idle, Absent, SnapshotsSound, InsertedInOrder, AbsentIsEmpty,
           OnlyPresentFollowed
  <1>5. Chain /\ TimelineTellsDate
    BY <1>2 DEF Init, Absent, Chain, TimelineTellsDate, FollowUps, NoHearing
  <1>6. QED
    BY <1>3, <1>4, <1>5 DEF HearingsInv

-----------------------------------------------------------------------------
(* A worker's request, and what a write through it preserves.               *)
LEMMA RequestFacts ==
    ASSUME HearingsInv, NEW w \in Workers, req[w] # Idle
    PROVE  /\ req[w].hearing \in Hearings
           /\ req[w].snap \in HearingRow
           /\ req[w].snap.status = "scheduled"
           /\ row[req[w].hearing].status # "absent"
           /\ req[w].snap.prev = row[req[w].hearing].prev
           /\ req[w].snap.prev < req[w].hearing
  BY Types DEF HearingsInv, SnapshotsSound

(* The other requests stay sound when a request ends that wrote its own     *)
(* hearing, and perhaps a new one.                                          *)
LEMMA FinishKeepsSnapshots ==
    ASSUME HearingsInv, NEW w \in Workers, Finish(w),
           \A h \in Hearings : row[h].status # "absent" =>
               row'[h].status # "absent" /\ row'[h].prev = row[h].prev
    PROVE  SnapshotsSound'
  <1>1. \A v \in Workers : req'[v] = IF v = w THEN Idle ELSE req[v]
    BY Types DEF Finish
  <1>2. \A v \in Workers : req'[v] # Idle => req'[v] = req[v] /\ req[v] # Idle
    BY <1>1
  <1>3. QED
    BY <1>2, RequestFacts DEF SnapshotsSound

(* The history says whether the write overlapped another.                   *)
LEMMA OverlapFacts ==
    ASSUME HearingsInv, NEW w \in Workers, req[w] # Idle, Overlaps(w)
    PROVE  /\ overlapped' \in [Hearings -> BOOLEAN]
           /\ \A h \in Hearings : h # req[w].hearing => overlapped'[h] = overlapped[h]
           /\ ~overlapped'[req[w].hearing] =>
                 ~overlapped[req[w].hearing] /\ req[w].snap = row[req[w].hearing]
  BY Types, RequestFacts DEF Overlaps

(* A write that keeps the predecessor column, by a request that ends:       *)
(* update_hearing, and a closing without a next date.                       *)
LEMMA RewriteKeepsInv ==
    ASSUME HearingsInv, NEW w \in Workers, req[w] # Idle, Finish(w), Overlaps(w),
           NEW new \in HearingRow, new.status # "absent", new.prev = req[w].snap.prev,
           row' = [row EXCEPT ![req[w].hearing] = new],
           told' \in [Hearings -> Days \cup {NoDate}],
           \A h \in Hearings : h # req[w].hearing => told'[h] = told[h],
           req[w].snap = row[req[w].hearing] /\ ~overlapped[req[w].hearing] =>
               /\ told'[req[w].hearing] = new.day
               /\ new.next = req[w].snap.next
               /\ new.status \in {"scheduled", "held", "cancelled"}
    PROVE  HearingsInv'
  <1>1. /\ req[w].hearing \in Hearings /\ row[req[w].hearing].status # "absent"
        /\ req[w].snap.status = "scheduled"
        /\ req[w].snap.prev = row[req[w].hearing].prev
        /\ req[w].snap.prev < req[w].hearing
    BY RequestFacts
  <1>2. \A h \in Hearings : row'[h] = IF h = req[w].hearing THEN new ELSE row[h]
    BY Types
  <1>3. \A h \in Hearings : row'[h].prev = row[h].prev
    BY <1>1, <1>2
  <1>4. \A h \in Hearings : row'[h].status = "absent" <=> row[h].status = "absent"
    BY <1>1, <1>2
  <1>5. \A h \in Hearings : FollowUps(h)' = FollowUps(h)
    BY <1>3 DEF FollowUps
  <1>6. TypeOK'
    <2>1. row' \in [Hearings -> HearingRow]
      BY Types
    <2>2. Idle \in [hearing : Hearings \cup {NoHearing}, snap : HearingRow]
      BY DEF HearingRow, Absent, Idle
    <2>3. req' \in [Workers -> [hearing : Hearings \cup {NoHearing}, snap : HearingRow]]
      BY <2>2, Types DEF Finish
    <2>4. \A h \in Hearings : row'[h].prev < h
      BY <1>3 DEF HearingsInv, TypeOK
    <2>5. QED
      BY <2>1, <2>3, <2>4, OverlapFacts DEF TypeOK
  <1>7. SnapshotsSound'
    BY <1>3, <1>4, FinishKeepsSnapshots
  <1>8. InsertedInOrder'
    BY <1>4 DEF HearingsInv, InsertedInOrder
  <1>9. AbsentIsEmpty'
    BY <1>1, <1>2, <1>4, OverlapFacts DEF HearingsInv, AbsentIsEmpty
  <1>10. OnlyPresentFollowed'
    BY <1>3, <1>4 DEF HearingsInv, OnlyPresentFollowed
  <1>11. ASSUME NEW h \in Hearings, ~overlapped'[h]
         PROVE  /\ row'[h].next = NoDate => FollowUps(h)' = {}
                /\ row'[h].next # NoDate => \E f \in Hearings : FollowUps(h)' = {f}
                /\ row'[h].next # NoDate => row'[h].status \in {"held", "postponed"}
                /\ row'[h].status = "postponed" => row'[h].next # NoDate
                /\ told'[h] = row'[h].day
    <2>1. CASE h # req[w].hearing
      BY <1>2, <1>5, <1>11, <2>1, OverlapFacts DEF HearingsInv, Chain, TimelineTellsDate
    <2>2. CASE h = req[w].hearing
      <3>1. /\ ~overlapped[h] /\ req[w].snap = row[h] /\ row'[h] = new
            /\ row[h].status = "scheduled"
        BY <1>1, <1>2, <1>11, <2>2, OverlapFacts
      <3>2. row[h].next = NoDate /\ FollowUps(h) = {}
        BY <3>1 DEF HearingsInv, Chain
      <3>3. QED
        BY <1>5, <2>2, <3>1, <3>2
    <2>3. QED
      BY <2>1, <2>2
  <1>12. Chain' /\ TimelineTellsDate'
    BY <1>11 DEF Chain, TimelineTellsDate
  <1>13. QED
    BY <1>6, <1>7, <1>8, <1>9, <1>10, <1>12 DEF HearingsInv

(* schedule_hearing adds an open hearing that nothing follows.              *)
LEMMA ScheduleKeepsInv ==
    ASSUME HearingsInv, NEW h \in Hearings, NEW d \in Days, ScheduleHearing(h, d)
    PROVE  HearingsInv'
  <1> DEFINE new == Scheduled(d, NoHearing)
  <1>1. /\ new \in HearingRow /\ new.status = "scheduled" /\ new.prev = NoHearing
        /\ new.next = NoDate /\ new.day = d
    BY DEF Scheduled, HearingRow
  <1>2. /\ row' = [row EXCEPT ![h] = new] /\ told' = [told EXCEPT ![h] = d]
        /\ overlapped' = overlapped /\ req' = req
        /\ row[h].status = "absent"
        /\ \A g \in Hearings : g < h => row[g].status # "absent"
    BY DEF ScheduleHearing, NextId
  <1> HIDE DEF new
  <1>3. \A g \in Hearings : row'[g] = IF g = h THEN new ELSE row[g]
    BY <1>2, Types
  <1>4. row[h].prev = NoHearing /\ row[h].next = NoDate /\ ~overlapped[h]
    BY <1>2 DEF HearingsInv, AbsentIsEmpty, Absent
  <1>5. \A g \in Hearings : row'[g].prev = row[g].prev
    BY <1>1, <1>3, <1>4
  <1>6. \A g \in Hearings : FollowUps(g)' = FollowUps(g)
    BY <1>5 DEF FollowUps
  <1>7. TypeOK'
    <2>1. row' \in [Hearings -> HearingRow] /\ told' \in [Hearings -> Days \cup {NoDate}]
      BY <1>1, <1>2, Types
    <2>2. \A g \in Hearings : row'[g].prev < g
      BY <1>5 DEF HearingsInv, TypeOK
    <2>3. QED
      BY <1>2, <2>1, <2>2, Types DEF TypeOK
  <1>8. SnapshotsSound'
    BY <1>1, <1>2, <1>3, <1>5, RequestFacts DEF SnapshotsSound
  <1>9. InsertedInOrder'
    BY <1>1, <1>2, <1>3, Types DEF HearingsInv, InsertedInOrder
  <1>10. AbsentIsEmpty'
    BY <1>1, <1>2, <1>3 DEF HearingsInv, AbsentIsEmpty
  <1>11. OnlyPresentFollowed'
    BY <1>1, <1>3, <1>5 DEF HearingsInv, OnlyPresentFollowed
  <1>12. Chain'
    BY <1>1, <1>2, <1>3, <1>4, <1>6 DEF HearingsInv, Chain
  <1>13. TimelineTellsDate'
    BY <1>1, <1>2, <1>3, Types DEF HearingsInv, TimelineTellsDate
  <1>14. QED
    BY <1>7, <1>8, <1>9, <1>10, <1>11, <1>12, <1>13 DEF HearingsInv

(* Closing with a next date adds the one follow-up.                         *)
LEMMA FollowUpKeepsInv ==
    ASSUME HearingsInv, NEW w \in Workers, NEW d \in Days, NEW f \in Hearings,
           NEW s \in WithNextDate, CloseWithFollowUp(w, s, d, f),
           NEW h \in Hearings, h = req[w].hearing
    PROVE  HearingsInv'
  <1> DEFINE old == [req[w].snap EXCEPT !.status = s, !.next = d]
             new == Scheduled(d, h)
  <1>1. /\ row[h].status # "absent" /\ req[w].snap \in HearingRow
        /\ req[w].snap.status = "scheduled"
        /\ req[w].snap.prev = row[h].prev /\ req[w].snap.prev < h
        /\ req[w] # Idle
    BY RequestFacts DEF CloseWithFollowUp
  <1>2. /\ row[f].status = "absent"
        /\ \A g \in Hearings : g < f => row[g].status # "absent"
        /\ row' = [row EXCEPT ![h] = old, ![f] = new]
        /\ told' = [told EXCEPT ![f] = d]
        /\ Overlaps(w) /\ Finish(w)
    BY DEF CloseWithFollowUp, NextId
  <1>3. h < f
    BY <1>1, <1>2, Types DEF HearingsInv, InsertedInOrder
  <1>4. /\ old \in HearingRow /\ old.status = s /\ old.next = d
        /\ old.prev = req[w].snap.prev /\ old.day = req[w].snap.day
        /\ s \in {"held", "postponed"}
    BY <1>1 DEF HearingRow, WithNextDate, ClosedStatuses
  <1>5. /\ new \in HearingRow /\ new.status = "scheduled" /\ new.next = NoDate
        /\ new.prev = h /\ new.day = d
    BY <1>1 DEF HearingRow, Scheduled
  <1>6. d # NoDate /\ h # NoHearing
    BY <1>1, HearingsAssumption DEF NoDate, NoHearing
  <1> HIDE DEF old, new
  <1>7. \A g \in Hearings :
           row'[g] = IF g = h THEN old ELSE IF g = f THEN new ELSE row[g]
    BY <1>1, <1>2, <1>3, Types
  <1>8. row[f].prev = NoHearing /\ row[f].next = NoDate /\ ~overlapped[f]
    BY <1>2 DEF HearingsInv, AbsentIsEmpty, Absent
  <1>9. \A g \in Hearings : g # f => row'[g].prev = row[g].prev
    BY <1>1, <1>4, <1>7
  <1>10. \A g \in Hearings : row'[g].status = "absent" <=> row[g].status = "absent" /\ g # f
    BY <1>1, <1>2, <1>4, <1>5, <1>7
  <1>11. /\ FollowUps(h)' = FollowUps(h) \cup {f}
         /\ \A g \in Hearings : g # h => FollowUps(g)' = FollowUps(g)
    <2>1. row'[f].prev = h
      BY <1>3, <1>5, <1>7, Types, <1>1
    <2>2. \A g \in Hearings : row[f].prev # g
      BY <1>8, Types DEF NoHearing
    <2>3. FollowUps(h)' = FollowUps(h) \cup {f}
      BY <1>9, <2>1 DEF FollowUps
    <2>4. ASSUME NEW g \in Hearings, g # h PROVE FollowUps(g)' = FollowUps(g)
      BY <1>9, <2>1, <2>2, <2>4 DEF FollowUps
    <2>5. QED
      BY <2>3, <2>4
  <1>12. FollowUps(f) = {}
    BY <1>2, HearingsAssumption DEF HearingsInv, OnlyPresentFollowed, FollowUps, NoHearing
  <1>13. TypeOK'
    <2>1. row' \in [Hearings -> HearingRow] /\ told' \in [Hearings -> Days \cup {NoDate}]
      BY <1>2, <1>4, <1>5, Types
    <2>2. \A g \in Hearings : row'[g].prev < g
      <3>1. row'[f].prev = h
        BY <1>3, <1>5, <1>7, Types
      <3>2. ASSUME NEW g \in Hearings, g # f PROVE row'[g].prev < g
        <4>1. row'[g].prev = row[g].prev
          BY <1>9, <3>2
        <4>2. row[g].prev < g
          BY DEF HearingsInv, TypeOK
        <4>3. QED
          BY <4>1, <4>2
      <3>3. QED
        BY <1>3, <3>1, <3>2
    <2>3. Idle \in [hearing : Hearings \cup {NoHearing}, snap : HearingRow]
      BY DEF HearingRow, Absent, Idle
    <2>4. req' \in [Workers -> [hearing : Hearings \cup {NoHearing}, snap : HearingRow]]
      BY <1>2, <2>3, Types DEF Finish
    <2>5. QED
      BY <1>1, <1>2, <2>1, <2>2, <2>4, OverlapFacts DEF TypeOK
  <1>14. SnapshotsSound'
    BY <1>2, <1>9, <1>10, FinishKeepsSnapshots
  <1>15. InsertedInOrder'
    BY <1>2, <1>10, Types DEF HearingsInv, InsertedInOrder
  <1>16. AbsentIsEmpty'
    <2>1. ASSUME NEW g \in Hearings, row'[g].status = "absent"
          PROVE  row'[g] = Absent /\ ~overlapped'[g]
      <3>1. g # h /\ g # f /\ row[g].status = "absent"
        BY <1>1, <1>10, <2>1
      <3>2. row'[g] = row[g] /\ overlapped'[g] = overlapped[g]
        BY <1>1, <1>2, <1>7, <3>1, OverlapFacts
      <3>3. QED
        BY <3>1, <3>2 DEF HearingsInv, AbsentIsEmpty
    <2>2. QED
      BY <2>1 DEF AbsentIsEmpty
  <1>17. OnlyPresentFollowed'
    <2>1. ASSUME NEW g \in Hearings, row'[g].prev # NoHearing
          PROVE  row'[g].prev \in Hearings /\ row'[row'[g].prev].status # "absent"
      <3>1. CASE g = f
        <4>1. row'[f].prev = h
          BY <1>3, <1>5, <1>7, Types
        <4>2. QED
          BY <1>1, <1>10, <3>1, <4>1
      <3>2. CASE g # f
        <4>1. row'[g].prev = row[g].prev
          BY <1>9, <3>2
        <4>2. row[g].prev \in Hearings /\ row[row[g].prev].status # "absent"
          BY <2>1, <4>1 DEF HearingsInv, OnlyPresentFollowed
        <4>3. QED
          BY <1>2, <1>10, <4>1, <4>2
      <3>3. QED
        BY <3>1, <3>2
    <2>2. QED
      BY <2>1 DEF OnlyPresentFollowed
  <1>18. ASSUME NEW g \in Hearings, ~overlapped'[g]
         PROVE  /\ row'[g].next = NoDate => FollowUps(g)' = {}
                /\ row'[g].next # NoDate => \E e \in Hearings : FollowUps(g)' = {e}
                /\ row'[g].next # NoDate => row'[g].status \in {"held", "postponed"}
                /\ row'[g].status = "postponed" => row'[g].next # NoDate
                /\ told'[g] = row'[g].day
    <2>1. CASE g = h
      <3>1. /\ ~overlapped[g] /\ req[w].snap = row[g] /\ row[g].status = "scheduled"
        BY <1>1, <1>2, <1>18, <2>1, OverlapFacts
      <3>2. row[g].next = NoDate /\ FollowUps(g) = {} /\ told[g] = row[g].day
        BY <3>1 DEF HearingsInv, Chain, TimelineTellsDate
      <3>3. row'[g] = old /\ FollowUps(g)' = {f} /\ told'[g] = told[g]
        BY <1>2, <1>3, <1>7, <1>11, <2>1, <3>2, Types, <1>1
      <3>4. QED
        BY <1>4, <1>6, <3>1, <3>2, <3>3
    <2>2. CASE g = f
      <3>1. row'[g] = new /\ FollowUps(g)' = {} /\ told'[g] = d
        BY <1>2, <1>3, <1>7, <1>11, <1>12, <2>2, Types, <1>1
      <3>2. QED
        BY <1>5, <3>1
    <2>3. CASE g # h /\ g # f
      <3>1. /\ row'[g] = row[g] /\ FollowUps(g)' = FollowUps(g) /\ told'[g] = told[g]
            /\ ~overlapped[g]
        BY <1>1, <1>2, <1>7, <1>11, <1>18, <2>3, Types, OverlapFacts
      <3>2. QED
        BY <3>1 DEF HearingsInv, Chain, TimelineTellsDate
    <2>4. QED
      BY <2>1, <2>2, <2>3
  <1>19. Chain' /\ TimelineTellsDate'
    BY <1>18 DEF Chain, TimelineTellsDate
  <1>20. QED
    BY <1>13, <1>14, <1>15, <1>16, <1>17, <1>19 DEF HearingsInv

-----------------------------------------------------------------------------
(* Every step keeps the invariant: one proof step per action.               *)
LEMMA NextHearingsInv == HearingsInv /\ [Next]_vars => HearingsInv'
  <1> SUFFICES ASSUME HearingsInv, [Next]_vars PROVE HearingsInv'
    OBVIOUS
  <1>1. ASSUME NEW h \in Hearings, NEW d \in Days, ScheduleHearing(h, d)
        PROVE  HearingsInv'
    BY <1>1, ScheduleKeepsInv
  <1>2. ASSUME NEW w \in Workers, NEW h \in Hearings, Load(w, h)
        PROVE  HearingsInv'
    <2> DEFINE new == [hearing |-> h, snap |-> row[h]]
    <2>1. /\ req' = [req EXCEPT ![w] = new] /\ row[h].status = "scheduled"
          /\ UNCHANGED <<row, told, overlapped>>
      BY <1>2 DEF Load, IsOpen
    <2>2. new \in [hearing : Hearings \cup {NoHearing}, snap : HearingRow]
      BY Types
    <2>3. TypeOK'
      BY <2>1, <2>2 DEF HearingsInv, TypeOK
    <2>4. \A v \in Workers : req'[v] = IF v = w THEN new ELSE req[v]
      BY <2>1, Types
    <2>5. row[h].prev < h
      BY DEF HearingsInv, TypeOK
    <2>6. SnapshotsSound'
      BY <2>1, <2>4, <2>5, RequestFacts DEF SnapshotsSound
    <2>7. QED
      BY <2>1, <2>3, <2>6
      DEF HearingsInv, InsertedInOrder, AbsentIsEmpty, OnlyPresentFollowed, Chain,
          TimelineTellsDate, FollowUps
  <1>3. ASSUME NEW w \in Workers, NEW d \in Days, UpdateHearing(w, d)
        PROVE  HearingsInv'
    <2> DEFINE new == [req[w].snap EXCEPT !.day = d]
    <2>1. /\ req[w] # Idle /\ Finish(w) /\ Overlaps(w)
          /\ row' = [row EXCEPT ![req[w].hearing] = new]
          /\ told' = IF d # row[req[w].hearing].day
                     THEN [told EXCEPT ![req[w].hearing] = d] ELSE told
      BY <1>3 DEF UpdateHearing
    <2>2. req[w].hearing \in Hearings /\ req[w].snap \in HearingRow
          /\ req[w].snap.status = "scheduled"
      BY <2>1, RequestFacts
    <2>3. /\ new \in HearingRow /\ new.status = "scheduled" /\ new.day = d
          /\ new.prev = req[w].snap.prev /\ new.next = req[w].snap.next
      BY <2>2 DEF HearingRow
    <2> HIDE DEF new
    <2>4. /\ told' \in [Hearings -> Days \cup {NoDate}]
          /\ \A h \in Hearings : h # req[w].hearing => told'[h] = told[h]
      BY <2>1, Types
    <2>5. ~overlapped[req[w].hearing] => told'[req[w].hearing] = d
      BY <2>1, <2>2, Types DEF HearingsInv, TimelineTellsDate
    <2>6. QED
      BY <2>1, <2>3, <2>4, <2>5, RewriteKeepsInv
  <1>4. ASSUME NEW w \in Workers, NEW d \in Days, NEW f \in Hearings,
               NEW s \in WithNextDate, CloseWithFollowUp(w, s, d, f)
        PROVE  HearingsInv'
    <2>1. PICK h \in Hearings : h = req[w].hearing
      BY <1>4, RequestFacts DEF CloseWithFollowUp
    <2>2. QED
      BY <1>4, <2>1, FollowUpKeepsInv
  <1>5. ASSUME NEW w \in Workers, NEW s \in WithoutNextDate, Close(w, s)
        PROVE  HearingsInv'
    <2> DEFINE new == [req[w].snap EXCEPT !.status = s]
    <2>1. /\ req[w] # Idle /\ Finish(w) /\ Overlaps(w) /\ told' = told
          /\ row' = [row EXCEPT ![req[w].hearing] = new]
      BY <1>5 DEF Close
    <2>2. req[w].hearing \in Hearings /\ req[w].snap \in HearingRow
      BY <2>1, RequestFacts
    <2>3. s \in {"held", "cancelled"}
      BY DEF WithoutNextDate
    <2>4. /\ new \in HearingRow /\ new.status = s /\ new.day = req[w].snap.day
          /\ new.prev = req[w].snap.prev /\ new.next = req[w].snap.next
      BY <2>2, <2>3 DEF HearingRow, ClosedStatuses
    <2> HIDE DEF new
    <2>5. req[w].snap = row[req[w].hearing] /\ ~overlapped[req[w].hearing] =>
              told'[req[w].hearing] = new.day
      BY <2>1, <2>2, <2>4 DEF HearingsInv, TimelineTellsDate
    <2>6. QED
      BY <2>1, <2>3, <2>4, <2>5, Types, RewriteKeepsInv
  <1>6. ASSUME NEW w \in Workers, Abandon(w)
        PROVE  HearingsInv'
    <2>1. /\ req[w] # Idle /\ Finish(w) /\ UNCHANGED <<row, told, overlapped>>
      BY <1>6 DEF Abandon
    <2>2. SnapshotsSound'
      BY <2>1, FinishKeepsSnapshots
    <2>3. Idle \in [hearing : Hearings \cup {NoHearing}, snap : HearingRow]
      BY DEF HearingRow, Absent, Idle
    <2>4. TypeOK'
      BY <2>1, <2>3 DEF HearingsInv, TypeOK, Finish
    <2>5. QED
      BY <2>1, <2>2, <2>4
      DEF HearingsInv, InsertedInOrder, AbsentIsEmpty, OnlyPresentFollowed, Chain,
          TimelineTellsDate, FollowUps
  <1>7. CASE UNCHANGED vars
    BY <1>7 DEF vars, HearingsInv, TypeOK, SnapshotsSound, InsertedInOrder, AbsentIsEmpty,
                OnlyPresentFollowed, Chain, TimelineTellsDate, FollowUps
  <1>8. QED
    BY <1>1, <1>2, <1>3, <1>4, <1>5, <1>6, <1>7 DEF Next

(* So it holds in every reachable state.                                    *)
LEMMA HearingsInvAlways == Spec => []HearingsInv
  BY InitHearingsInv, NextHearingsInv, PTL DEF Spec

(* Every table keeps its shape, and a follow-up comes after its hearing.    *)
THEOREM HearingsTypeCorrect == Spec => []TypeOK
  <1>1. HearingsInv => TypeOK
    BY DEF HearingsInv
  <1>2. QED
    BY <1>1, HearingsInvAlways, PTL

(* A hearing no two requests fought over has exactly the follow-up that its *)
(* outcome calls for, for any number of hearings and workers.               *)
THEOREM ChainIsSound == Spec => []ChainSound
  <1>1. ASSUME HearingsInv, NEW h \in Hearings, ~overlapped[h]
        PROVE  Cardinality(FollowUps(h)) = IF row[h].next = NoDate THEN 0 ELSE 1
    <2>1. CASE row[h].next = NoDate
      BY <1>1, <2>1, FS_EmptySet DEF HearingsInv, Chain
    <2>2. CASE row[h].next # NoDate
      <3>1. PICK f \in Hearings : FollowUps(h) = {f}
        BY <1>1, <2>2 DEF HearingsInv, Chain
      <3>2. QED
        BY <2>2, <3>1, FS_Singleton
    <2>3. QED
      BY <2>1, <2>2
  <1>2. HearingsInv => ChainSound
    BY <1>1 DEF ChainSound, HearingsInv, Chain
  <1>3. QED
    BY <1>2, HearingsInvAlways, PTL

(* The timeline and the calendar agree on the date of such a hearing.       *)
THEOREM TimelineIsRight == Spec => []TimelineTellsDate
  <1>1. HearingsInv => TimelineTellsDate
    BY DEF HearingsInv
  <1>2. QED
    BY <1>1, HearingsInvAlways, PTL

(* A closed hearing changes only under a request that loaded it open and    *)
(* lost the race: the guards are exact as long as requests do not overlap.  *)
THEOREM ClosedOnlyLosesRaces == Spec => ClosedChangesOnlyByRace
  <1> DEFINE ByRace == \A h \in Hearings :
                         row[h].status \in ClosedStatuses /\ row'[h] # row[h]
                            => overlapped'[h]
  <1>1. ASSUME HearingsInv, [Next]_vars, NEW h \in Hearings,
               row[h].status \in ClosedStatuses, row'[h] # row[h]
        PROVE  overlapped'[h]
    <2>0. row[h].status \notin {"absent", "scheduled"}
      BY <1>1 DEF ClosedStatuses
    <2>1. ASSUME NEW w \in Workers, req[w] # Idle, Overlaps(w), h = req[w].hearing
          PROVE  overlapped'[h]
      <3>1. req[w].snap # row[h]
        BY <1>1, <2>0, <2>1, RequestFacts
      <3>2. QED
        BY <1>1, <2>1, <3>1, OverlapFacts, Types
    <2>2. ASSUME NEW g \in Hearings, NEW d \in Days, ScheduleHearing(g, d)
          PROVE  FALSE
      BY <1>1, <2>0, <2>2, Types DEF ScheduleHearing, NextId
    <2>3. ASSUME NEW w \in Workers, NEW d \in Days, UpdateHearing(w, d)
          PROVE  overlapped'[h]
      BY <1>1, <2>1, <2>3, Types DEF UpdateHearing
    <2>4. ASSUME NEW w \in Workers, NEW d \in Days, NEW f \in Hearings,
                 NEW s \in WithNextDate, CloseWithFollowUp(w, s, d, f)
          PROVE  overlapped'[h]
      <3>1. h # f
        BY <2>0, <2>4 DEF CloseWithFollowUp, NextId
      <3>2. h = req[w].hearing
        BY <1>1, <2>4, <3>1, Types DEF CloseWithFollowUp
      <3>3. QED
        BY <2>1, <2>4, <3>2 DEF CloseWithFollowUp
    <2>5. ASSUME NEW w \in Workers, NEW s \in WithoutNextDate, Close(w, s)
          PROVE  overlapped'[h]
      BY <1>1, <2>1, <2>5, Types DEF Close
    <2>6. QED
      BY <1>1, <2>2, <2>3, <2>4, <2>5 DEF Next, Load, Abandon, vars
  <1>2. HearingsInv /\ [Next]_vars => [ByRace]_vars
    BY <1>1
  <1> HIDE DEF ByRace
  <1>3. Spec => [][ByRace]_vars
    BY <1>2, HearingsInvAlways, PTL DEF Spec
  <1>4. QED
    BY <1>3 DEF ClosedChangesOnlyByRace, ByRace
=============================================================================
