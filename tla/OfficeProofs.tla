---------------------------- MODULE OfficeProofs ----------------------------
(***************************************************************************)
(* Proofs about the records and the team of Office, for any number of       *)
(* workers, records and clerks and whatever pages are read beside them.     *)
(* The records are only written by the steps of OfficeRecords, the team by  *)
(* those of CaseTeam, so each is proved about alone.                        *)
(*                                                                         *)
(* RecordsInv strengthens the three properties of the records: what each    *)
(* request holds fits the kind of record its view is for, the stamp of a    *)
(* copy fits its status, and the copy of an edit that will save every       *)
(* column has the life of the row unless the record is in `raced`.          *)
(***************************************************************************)
EXTENDS Office, TLAPS

KindOfView ==
    [TaskUpdateView |-> "task", task_status |-> "task", task_delete |-> "task",
     DeadlineUpdateView |-> "deadline", deadline_status |-> "deadline",
     CaseUpdateView |-> "case", case_status |-> "case",
     ClientUpdateView |-> "client", client_archive |-> "client",
     client_restore |-> "client",
     CourtUpdateView |-> "court", court_set_active |-> "court",
     DocumentUpdateView |-> "document", document_retire |-> "document",
     DocumentUploadView |-> "document",
     ExpenseUpdateView |-> "expense", expense_retire |-> "expense"]

Lives == [status : AllStatuses \cup {"absent"}, gone : BOOLEAN]

Consistent(r, x) == x.stamp <=> x.status \in Finished(KindOf[r])

(* What is asked of a request, given the rows, races and files.             *)
Fits(q) ==
    /\ q # Idle => KindOf[q.rec] = KindOfView[q.view]
    /\ q.view \in EditViews => Consistent(q.rec, q.copy)
    /\ q.view \in WholeRowViews /\ q.rec \notin raced => Life(q.copy) = Life(row[q.rec])
    /\ q.view = "DocumentUploadView" =>
          q.rec \in files /\ q.input \in FirstRows[q.rec]
    /\ q.view = "CourtUpdateView" => q.input.status \in Lifecycle["court"]

RecordsInv ==
    /\ RecordsTypeOK
    /\ StampMatchesStatus
    /\ LogTellsRow
    /\ RowsHaveFiles
    /\ \A w \in Workers : Fits(req[w])

-----------------------------------------------------------------------------
(* The statuses a kind of record starts with are among its own, and only a  *)
(* kind without a moment of completion starts finished: none does.          *)
LEMMA KindsAreListed ==
    DOMAIN Lifecycle = {"task", "deadline", "case", "client", "court", "document",
                        "expense", "hearing", "contract"}
BY DEF Lifecycle

LEMMA StatusesOfKind ==
    ASSUME NEW k \in DOMAIN Lifecycle
    PROVE  /\ Lifecycle[k] \subseteq AllStatuses
           /\ FirstStatuses[k] \subseteq AllStatuses
           /\ FirstStatuses[k] \cap Finished(k) = {}
           /\ "absent" \notin Finished(k)
<1>1. Lifecycle[k] \subseteq AllStatuses
  BY DEF AllStatuses
<1>2. FirstStatuses[k] \subseteq Lifecycle[k]
  BY KindsAreListed
  DEF Lifecycle, FirstStatuses, TaskStatus, DeadlineStatus, CaseStatus, ClientStatus
<1>3. FirstStatuses[k] \cap Finished(k) = {}
  BY KindsAreListed DEF FirstStatuses, Finished
<1>4. "absent" \notin Finished(k)
  BY DEF Finished
<1>q. QED  BY <1>1, <1>2, <1>3, <1>4

LEMMA AbsentIsNoStatus == "absent" \notin AllStatuses
BY KindsAreListed
  DEF AllStatuses, Lifecycle, TaskStatus, DeadlineStatus, CaseStatus, ClientStatus

(* A new row is a row with no stamp, and a status that calls for none.      *)
LEMMA FirstRowsFit ==
    ASSUME NEW r \in Records, NEW x \in FirstRows[r]
    PROVE  /\ x \in Row
           /\ Consistent(r, x)
           /\ x.status # "absent"
<1>1. KindOf[r] \in DOMAIN Lifecycle
  BY KindsAssumption
<1>2. PICK s \in FirstStatuses[KindOf[r]], v \in Values : x = Fresh(s, v)
  BY DEF FirstRows
<1>3. /\ s \in AllStatuses /\ s \notin Finished(KindOf[r])
  BY <1>1, StatusesOfKind
<1>q. QED
  BY <1>2, <1>3, AbsentIsNoStatus DEF Fresh, Row, Consistent

LEMMA NoRowFits ==
    ASSUME NEW r \in Records
    PROVE  NoRow \in Row /\ Consistent(r, NoRow)
BY KindsAssumption, StatusesOfKind DEF NoRow, Row, Consistent

LEMMA LifeIsLife == ASSUME NEW x \in Row PROVE Life(x) \in Lives
BY DEF Life, Lives, Row

(* The shapes of a request, by its view.                                    *)
LEMMA RequestShapes ==
    ASSUME NEW q \in Request
    PROVE  /\ q # Idle <=> q.view # "none"
           /\ q.view \in EditViews =>
                 /\ q \in [view : EditViews, step : {"loaded", "diffed"},
                           rec : Records, copy : Row, input : Row]
           /\ q.view \in ActionViews =>
                 q \in [view : ActionViews, rec : Records, copy : Row,
                        input : AllStatuses]
           /\ q.view = "DocumentUploadView" =>
                 q \in [view : {"DocumentUploadView"}, rec : Records, input : Row]
BY DEF Request, Idle, EditViews, ActionViews

-----------------------------------------------------------------------------
(* How each of the shared steps keeps the invariant.                        *)
LEMMA InitHolds == RecordsInit => RecordsInv
<1> SUFFICES ASSUME RecordsInit PROVE RecordsInv
  OBVIOUS
<1> USE DEF RecordsInit
<1>1. \A r \in Records : row[r] \in Row /\ Consistent(r, row[r])
  BY FirstRowsFit, NoRowFits
<1>2. RecordsTypeOK
  <2>1. told \in [Records -> Lives]
    BY <1>1, LifeIsLife
  <2>2. req \in [Workers -> Request]
    BY DEF Request
  <2>q. QED
    BY <2>1, <2>2, <1>1 DEF RecordsTypeOK, Lives
<1>3. StampMatchesStatus
  BY <1>1 DEF StampMatchesStatus, Consistent
<1>4. LogTellsRow
  BY DEF LogTellsRow
<1>5. RowsHaveFiles
  BY DEF RowsHaveFiles
<1>6. \A w \in Workers : Fits(req[w])
  BY DEF Fits, Idle, EditViews, WholeRowViews
<1>q. QED
  BY <1>2, <1>3, <1>4, <1>5, <1>6 DEF RecordsInv

LEMMA RequestStepHolds ==
    ASSUME RecordsInv, NEW w \in Workers, NEW new \in Request, Fits(new),
           req' = [req EXCEPT ![w] = new],
           UNCHANGED <<row, told, raced, files>>
    PROVE  RecordsInv'
<1>1. RecordsTypeOK'
  BY DEF RecordsInv, RecordsTypeOK
<1>2. StampMatchesStatus' /\ LogTellsRow' /\ RowsHaveFiles'
  BY DEF RecordsInv, StampMatchesStatus, LogTellsRow, RowsHaveFiles, Exists
<1>3. ASSUME NEW o \in Workers PROVE Fits(req[o])'
  <2>1. Fits(req'[o])
    BY DEF RecordsInv, RecordsTypeOK
  <2>q. QED
    BY <2>1 DEF Fits
<1>q. QED
  BY <1>1, <1>2, <1>3 DEF RecordsInv

LEMMA LeaveHolds ==
    ASSUME RecordsInv, NEW w \in Workers, Leave(w)
    PROVE  RecordsInv'
<1>1. Idle \in Request /\ Fits(Idle)
  BY DEF Request, Fits, Idle, EditViews, WholeRowViews
<1>q. QED
  BY <1>1, RequestStepHolds DEF Leave

LEMMA CompareHolds ==
    ASSUME RecordsInv, NEW w \in Workers, NEW view \in EditViews, NEW same,
           Compare(w, view, same)
    PROVE  RecordsInv'
<1>1. CASE Leave(w)
  BY <1>1, LeaveHolds
<1>2. CASE /\ req' = [req EXCEPT ![w].step = "diffed"]
           /\ UNCHANGED <<row, told, raced, files>>
  <2> DEFINE q == req[w]
             new == [q EXCEPT !.step = "diffed"]
  <2>1. /\ q \in Request /\ Fits(q) /\ q.view \in EditViews
    BY DEF RecordsInv, RecordsTypeOK, Compare, Serving
  <2>2. q \in [view : EditViews, step : {"loaded", "diffed"}, rec : Records,
               copy : Row, input : Row]
    BY <2>1, RequestShapes
  <2>3. new \in Request
    BY <2>2 DEF Request
  <2>4. new.view = q.view /\ new.rec = q.rec /\ new.copy = q.copy /\ new.input = q.input
    BY <2>2
  <2>5. Fits(new)
    BY <2>1, <2>4 DEF Fits, EditViews, Idle
  <2>6. req' = [req EXCEPT ![w] = new]
    BY <1>2
  <2>q. QED
    BY <2>3, <2>5, <2>6, <1>2, RequestStepHolds
<1>q. QED
  BY <1>1, <1>2 DEF Compare

LEMMA WriteHolds ==
    ASSUME RecordsInv, NEW w \in Workers, NEW r \in Records, NEW x \in Row,
           NEW said \in Lives, Write(w, r, x, said),
           Consistent(r, x),
           r \notin raced' \cup Table["court"] => said = Life(x),
           r \in Table["document"] /\ x.status # "absent" => r \in files
    PROVE  RecordsInv'
<1> USE DEF Write
<1>1. /\ row' = [row EXCEPT ![r] = x] /\ told' = [told EXCEPT ![r] = said]
      /\ req' = [req EXCEPT ![w] = Idle] /\ files' = files
      /\ raced \subseteq raced' /\ raced' \subseteq raced \cup {r}
      /\ row \in [Records -> Row] /\ told \in [Records -> Lives]
      /\ req \in [Workers -> Request]
  BY DEF RecordsInv, RecordsTypeOK, Lives
<1>2. RecordsTypeOK'
  <2>1. Idle \in Request
    BY DEF Request
  <2>q. QED
    BY <1>1, <2>1 DEF RecordsInv, RecordsTypeOK, Lives
<1>3. StampMatchesStatus'
  BY <1>1 DEF RecordsInv, StampMatchesStatus, Consistent
<1>4. LogTellsRow'
  BY <1>1 DEF RecordsInv, LogTellsRow
<1>5. RowsHaveFiles'
  BY <1>1 DEF RecordsInv, RowsHaveFiles, Exists
<1>6. ASSUME NEW o \in Workers PROVE Fits(req[o])'
  <2>1. CASE o = w
    <3>1. req'[o] = Idle
      BY <2>1, <1>1
    <3>q. QED
      BY <3>1 DEF Fits, Idle, EditViews, WholeRowViews
  <2>2. CASE o # w
    <3>1. req'[o] = req[o] /\ Fits(req[o]) /\ req[o] \in Request
      BY <2>2, <1>1 DEF RecordsInv
    <3>2. ASSUME req[o].view \in WholeRowViews, req[o].rec \notin raced'
          PROVE  Life(req[o].copy) = Life(row'[req[o].rec])
      <4>1. Life(req[o].copy) = Life(row[req[o].rec])
        BY <3>1, <3>2, <1>1 DEF Fits
      <4>2. CASE req[o].rec = r
        <5>1. Life(x) = Life(row[r])
          BY <4>2, <3>2, <2>2
        <5>q. QED
          BY <4>1, <4>2, <5>1, <1>1
      <4>3. CASE req[o].rec # r
        <5>1. req[o].rec \in Records
          BY <3>1, <3>2, RequestShapes DEF WholeRowViews
        <5>q. QED
          BY <4>1, <4>3, <5>1, <1>1
      <4>q. QED  BY <4>2, <4>3
    <3>q. QED
      BY <3>1, <3>2, <1>1 DEF Fits
  <2>q. QED  BY <2>1, <2>2
<1>q. QED
  BY <1>2, <1>3, <1>4, <1>5, <1>6 DEF RecordsInv

(* What is known of a request when its service runs.                        *)
LEMMA EditHolds ==
    ASSUME RecordsInv, NEW w \in Workers, NEW view \in EditViews, Serving(w, view)
    PROVE  /\ req[w].rec \in Records /\ KindOf[req[w].rec] = KindOfView[view]
           /\ req[w].copy \in Row /\ req[w].input \in Row
           /\ row[req[w].rec] \in Row /\ told[req[w].rec] \in Lives
           /\ Consistent(req[w].rec, req[w].copy)
           /\ Consistent(req[w].rec, row[req[w].rec])
           /\ Fits(req[w])
<1>1. req[w] \in Request /\ Fits(req[w]) /\ req[w].view = view
  BY DEF RecordsInv, RecordsTypeOK, Serving
<1>2. req[w] \in [view : EditViews, step : {"loaded", "diffed"}, rec : Records,
                  copy : Row, input : Row]
  BY <1>1, RequestShapes
<1>q. QED
  BY <1>1, <1>2 DEF RecordsInv, RecordsTypeOK, Lives, Fits, StampMatchesStatus,
     Consistent, Idle, EditViews

LEMMA ActionHolds ==
    ASSUME RecordsInv, NEW w \in Workers, NEW view \in ActionViews, Serving(w, view)
    PROVE  /\ req[w].rec \in Records /\ KindOf[req[w].rec] = KindOfView[view]
           /\ req[w].input \in AllStatuses
           /\ row[req[w].rec] \in Row /\ told[req[w].rec] \in Lives
           /\ Consistent(req[w].rec, row[req[w].rec])
<1>1. req[w] \in Request /\ Fits(req[w]) /\ req[w].view = view
  BY DEF RecordsInv, RecordsTypeOK, Serving
<1>2. req[w] \in [view : ActionViews, rec : Records, copy : Row, input : AllStatuses]
  BY <1>1, RequestShapes
<1>q. QED
  BY <1>1, <1>2 DEF RecordsInv, RecordsTypeOK, Lives, Fits, StampMatchesStatus,
     Consistent, Idle, ActionViews

(* A record's kind decides what it may become.                              *)
LEMMA TypesOfKinds ==
    ASSUME NEW r \in Records
    PROVE  /\ KindOf[r] = "task" => Finished(KindOf[r]) = {"done"}
           /\ KindOf[r] = "deadline" => Finished(KindOf[r]) = {"met", "missed"}
           /\ KindOf[r] \notin {"task", "deadline"} => Finished(KindOf[r]) = {}
           /\ KindOf[r] # "document" => r \notin Table["document"]
           /\ KindOf[r] # "court" => r \notin Table["court"]
           /\ KindOf[r] = "court" => r \in Table["court"]
BY KindsAreListed DEF Finished, Table

LEMMA StatusesOf ==
    /\ {"archived", "active", "done", "kept"} \subseteq AllStatuses
    /\ Lifecycle["court"] \subseteq AllStatuses
BY KindsAreListed
  DEF AllStatuses, Lifecycle, TaskStatus, DeadlineStatus, CaseStatus, ClientStatus

LEMMA CreatesHolds ==
    ASSUME RecordsInv, NEW w \in Workers, NEW k \in DOMAIN Lifecycle, k # "document",
           Creates(w, k)
    PROVE  RecordsInv'
<1>0. PICK r \in Table[k] : \E x \in FirstRows[r] : Create(w, r, x)
  BY DEF Creates
<1>1. PICK x \in FirstRows[r] : Create(w, r, x)
  BY <1>0
<1>2. r \in Records /\ KindOf[r] = k
  BY <1>1 DEF Table
<1>3. x \in Row /\ Consistent(r, x) /\ Life(x) \in Lives
  BY <1>1, <1>2, FirstRowsFit, LifeIsLife
<1>4. r \notin Table["document"]
  BY <1>2, TypesOfKinds
<1>q. QED
  BY <1>1, <1>2, <1>3, <1>4, WriteHolds DEF Create

(* The view of an edit holds a current copy, that of a document and a court *)
(* included.                                                                *)
LEMMA LoadForEditHolds ==
    ASSUME RecordsInv, NEW w \in Workers, NEW view \in EditViews,
           NEW r \in Records, KindOf[r] = KindOfView[view], NEW x \in Row,
           view = "CourtUpdateView" => x.status \in Lifecycle["court"],
           LoadForEdit(w, view, r, x)
    PROVE  RecordsInv'
<1> DEFINE new == [view |-> view, step |-> "loaded", rec |-> r, copy |-> row[r],
                   input |-> x]
<1>1. row[r] \in Row /\ Consistent(r, row[r])
  BY DEF RecordsInv, RecordsTypeOK, StampMatchesStatus, Consistent
<1>2. new \in Request
  BY <1>1 DEF Request
<1>3. Fits(new)
  BY <1>1 DEF Fits, EditViews
<1>q. QED
  BY <1>2, <1>3, RequestStepHolds DEF LoadForEdit, Begin

LEMMA EditLoadHolds ==
    ASSUME RecordsInv, NEW w \in Workers,
           NEW view \in EditViews \ {"CourtUpdateView"},
           NEW k, k = KindOfView[view], EditLoad(w, view, k)
    PROVE  RecordsInv'
<1>1. PICK r \in Table[k], v \in Values :
          LoadForEdit(w, view, r, [row[r] EXCEPT !.value = v])
  BY DEF EditLoad
<1>2. k \in DOMAIN Lifecycle
  BY KindsAreListed DEF EditViews, KindOfView
<1>3. r \in Records /\ KindOf[r] = k
  BY <1>1, <1>2 DEF Table
<1>4. [row[r] EXCEPT !.value = v] \in Row
  BY <1>3 DEF RecordsInv, RecordsTypeOK, Row
<1>q. QED
  BY <1>1, <1>3, <1>4, LoadForEditHolds

LEMMA ActionLoadHolds ==
    ASSUME RecordsInv, NEW w \in Workers, NEW view \in ActionViews,
           NEW k, k = KindOfView[view], NEW choices, choices \subseteq AllStatuses,
           ActionLoad(w, view, k, choices)
    PROVE  RecordsInv'
<1>1. PICK r \in Table[k], s \in choices : LoadForAction(w, view, r, s)
  BY DEF ActionLoad
<1>2. k \in DOMAIN Lifecycle
  BY KindsAreListed DEF ActionViews, KindOfView
<1>3. r \in Records /\ KindOf[r] = k
  BY <1>1, <1>2 DEF Table
<1> DEFINE new == [view |-> view, rec |-> r, copy |-> row[r], input |-> s]
<1>4. new \in Request
  BY <1>3 DEF RecordsInv, RecordsTypeOK, Request
<1>5. Fits(new)
  BY <1>3 DEF Fits, EditViews, WholeRowViews, ActionViews
<1>q. QED
  BY <1>1, <1>4, <1>5, RequestStepHolds DEF LoadForAction, Begin

(* Saving every column of a copy is either harmless or recorded in `raced`. *)
LEMMA SaveWholeHolds ==
    ASSUME RecordsInv, NEW w \in Workers,
           NEW view \in WholeRowViews \ {"CourtUpdateView"},
           SaveWhole(w, view, Edited(w))
    PROVE  RecordsInv'
<1> DEFINE r == req[w].rec
           x == Edited(w)
<1>1. view \in EditViews /\ Serving(w, view) /\ Write(w, r, x, told[r])
  BY DEF SaveWhole, WholeRowViews
<1>2. /\ r \in Records /\ KindOf[r] = KindOfView[view] /\ req[w].copy \in Row
      /\ req[w].input \in Row /\ told[r] \in Lives
      /\ Consistent(r, req[w].copy) /\ Fits(req[w])
  BY <1>1, EditHolds
<1>3. /\ x \in Row /\ Consistent(r, x) /\ Life(x) = Life(req[w].copy)
  BY <1>2 DEF Edited, Row, Consistent, Life
<1>4. r \notin Table["document"]
  BY <1>2, TypesOfKinds DEF WholeRowViews, EditViews, KindOfView
<1>5. ASSUME r \notin raced' \cup Table["court"] PROVE told[r] = Life(x)
  <2>1. r \notin raced
    BY <1>1, <1>5 DEF Write
  <2>2. Life(req[w].copy) = Life(row[r])
    BY <2>1, <1>1, <1>2 DEF Fits, Serving
  <2>q. QED
    BY <2>1, <2>2, <1>2, <1>3, <1>5 DEF RecordsInv, LogTellsRow
<1> HIDE DEF r, x
<1>q. QED
  BY <1>1, <1>2, <1>3, <1>4, <1>5, WriteHolds

LEMMA SetStatusHolds ==
    ASSUME RecordsInv, NEW w \in Workers, NEW view \in ActionViews, Serving(w, view),
           KindOfView[view] # "document",
           NEW s \in AllStatuses, NEW stamped \in BOOLEAN,
           stamped <=> s \in Finished(KindOfView[view]),
           SetStatus(w, req[w].rec, s, stamped)
    PROVE  RecordsInv'
<1> DEFINE r == req[w].rec
           x == [row[r] EXCEPT !.status = s, !.stamp = stamped]
           said == [told[r] EXCEPT !.status = s]
<1>1. /\ r \in Records /\ KindOf[r] = KindOfView[view]
      /\ row[r] \in Row /\ told[r] \in Lives
  BY ActionHolds
<1>2. x \in Row /\ said \in Lives /\ Consistent(r, x)
  BY <1>1 DEF Row, Lives, Consistent
<1>3. r \notin Table["document"]
  BY <1>1, TypesOfKinds
<1>4. Write(w, r, x, said)
  BY DEF SetStatus
<1>5. ASSUME r \notin raced' \cup Table["court"] PROVE said = Life(x)
  <2>1. told[r] = Life(row[r])
    BY <1>1, <1>4, <1>5 DEF RecordsInv, LogTellsRow, Write
  <2>q. QED
    BY <2>1, <1>1 DEF Life, Row
<1> HIDE DEF r, x, said
<1>q. QED
  BY <1>1, <1>2, <1>3, <1>4, <1>5, WriteHolds

LEMMA RetiredLife ==
    ASSUME NEW x \in Row, NEW g \in BOOLEAN
    PROVE  [Life(x) EXCEPT !.gone = g] = Life([x EXCEPT !.gone = g])
BY DEF Life, Row

LEMMA RetireHolds ==
    ASSUME RecordsInv, NEW w \in Workers, NEW view \in ActionViews, Retire(w, view)
    PROVE  RecordsInv'
<1> DEFINE r == req[w].rec
           x == [row[r] EXCEPT !.gone = TRUE]
           said == [told[r] EXCEPT !.gone = TRUE]
<1>1. CASE Leave(w)
  BY <1>1, LeaveHolds
<1>2. CASE Write(w, r, x, said)
  <2>1. /\ r \in Records /\ row[r] \in Row /\ told[r] \in Lives
        /\ Consistent(r, row[r])
    BY ActionHolds DEF Retire
  <2>2. x \in Row /\ said \in Lives /\ Consistent(r, x)
    BY <2>1 DEF Row, Lives, Consistent
  <2>3. r \in Table["document"] /\ x.status # "absent" => r \in files
    BY <2>1 DEF RecordsInv, RowsHaveFiles, Exists, Row
  <2>4. ASSUME r \notin raced' \cup Table["court"] PROVE said = Life(x)
    <3>1. told[r] = Life(row[r])
      BY <2>1, <1>2, <2>4 DEF RecordsInv, LogTellsRow, Write
    <3>q. QED
      BY <3>1, <2>1, RetiredLife
  <2> HIDE DEF r, x, said
  <2>q. QED
    BY <2>1, <2>2, <2>3, <2>4, <1>2, WriteHolds
<1>q. QED
  BY <1>1, <1>2 DEF Retire

-----------------------------------------------------------------------------
(* The operations whose write is not one of those above.                    *)
LEMMA CourtHolds ==
    ASSUME RecordsInv, NEW w \in Workers, CourtUpdateView(w) \/ update_court(w)
    PROVE  RecordsInv'
<1>0. "CourtUpdateView" \in EditViews /\ KindOfView["CourtUpdateView"] = "court"
  BY DEF EditViews, KindOfView
<1>1. CASE CourtUpdateView(w)
  <2>1. PICK r \in Table["court"], s \in Lifecycle["court"], v \in Values :
           LoadForEdit(w, "CourtUpdateView", r, Fresh(s, v))
    BY <1>1 DEF CourtUpdateView
  <2>2. r \in Records /\ KindOf[r] = "court"
    BY <2>1, KindsAreListed DEF Table
  <2>3. Fresh(s, v) \in Row /\ Fresh(s, v).status = s
    BY StatusesOf DEF Fresh, Row
  <2>q. QED
    BY <1>0, <2>1, <2>2, <2>3, LoadForEditHolds
<1>2. ASSUME SaveWhole(w, "CourtUpdateView",
                       [Edited(w) EXCEPT !.status = req[w].input.status])
      PROVE  RecordsInv'
  <2> DEFINE r == req[w].rec
             x == [Edited(w) EXCEPT !.status = req[w].input.status]
  <2>1. Serving(w, "CourtUpdateView") /\ Write(w, r, x, told[r])
    BY <1>2 DEF SaveWhole
  <2>2. /\ r \in Records /\ KindOf[r] = "court" /\ req[w].copy \in Row
        /\ req[w].input \in Row /\ told[r] \in Lives
        /\ Consistent(r, req[w].copy) /\ Fits(req[w])
    BY <1>0, <2>1, EditHolds
  <2>3. r \in Table["court"] /\ r \notin Table["document"] /\ Finished(KindOf[r]) = {}
    BY <2>2, TypesOfKinds
  <2>4. x \in Row /\ Consistent(r, x)
    BY <2>2, <2>3 DEF Edited, Row, Consistent
  <2> HIDE DEF r, x
  <2>q. QED
    BY <2>1, <2>2, <2>3, <2>4, WriteHolds
<1>q. QED
  BY <1>0, <1>1, <1>2, CompareHolds DEF update_court

LEMMA DocumentHolds ==
    ASSUME RecordsInv, NEW w \in Workers,
           StoreBlob(w) \/ create_document(w) \/ update_document(w)
    PROVE  RecordsInv'
<1>0. Table["document"] = {r \in Records : KindOf[r] = "document"}
  BY KindsAreListed DEF Table
<1>1. CASE StoreBlob(w)
  <2>0. PICK r \in Table["document"] \ files : \E x \in FirstRows[r] :
           /\ files' = files \cup {r}
           /\ req' = [req EXCEPT ![w] = [view |-> "DocumentUploadView",
                                         rec |-> r, input |-> x]]
           /\ UNCHANGED <<row, told, raced>>
    BY <1>1 DEF StoreBlob
  <2>1. PICK x \in FirstRows[r] :
           /\ files' = files \cup {r}
           /\ req' = [req EXCEPT ![w] = [view |-> "DocumentUploadView",
                                         rec |-> r, input |-> x]]
           /\ UNCHANGED <<row, told, raced>>
    BY <2>0
  <2> DEFINE new == [view |-> "DocumentUploadView", rec |-> r, input |-> x]
  <2>2. r \in Records /\ KindOf[r] = "document" /\ x \in Row
    BY <1>0, FirstRowsFit
  <2>3. new \in Request
    BY <2>2 DEF Request
  <2>4. RecordsTypeOK'
    BY <2>1, <2>3 DEF RecordsInv, RecordsTypeOK
  <2>5. StampMatchesStatus' /\ LogTellsRow' /\ RowsHaveFiles'
    BY <2>1 DEF RecordsInv, StampMatchesStatus, LogTellsRow, RowsHaveFiles, Exists
  <2>6. ASSUME NEW o \in Workers PROVE Fits(req[o])'
    <3>1. CASE o = w
      <4>1. req'[o] = new
        BY <3>1, <2>1 DEF RecordsInv, RecordsTypeOK
      <4>q. QED
        BY <4>1, <2>1, <2>2 DEF Fits, EditViews, WholeRowViews, KindOfView
    <3>2. CASE o # w
      <4>1. req'[o] = req[o] /\ Fits(req[o])
        BY <3>2, <2>1 DEF RecordsInv, RecordsTypeOK
      <4>q. QED
        BY <4>1, <2>1 DEF Fits
    <3>q. QED  BY <3>1, <3>2
  <2>q. QED
    BY <2>4, <2>5, <2>6 DEF RecordsInv
<1>2. CASE create_document(w)
  <2> DEFINE r == req[w].rec
             x == req[w].input
  <2>1. req[w] \in Request /\ Fits(req[w]) /\ req[w].view = "DocumentUploadView"
    BY <1>2 DEF create_document, Serving, RecordsInv, RecordsTypeOK
  <2>2. r \in Records /\ x \in FirstRows[r] /\ r \in files
    BY <2>1, RequestShapes DEF Fits
  <2>3. x \in Row /\ Consistent(r, x) /\ Life(x) \in Lives
    BY <2>2, FirstRowsFit, LifeIsLife
  <2>4. Write(w, r, x, Life(x))
    BY <1>2 DEF create_document
  <2> HIDE DEF r, x
  <2>q. QED
    BY <2>2, <2>3, <2>4, WriteHolds
<1>3. CASE update_document(w)
  <2>0. "DocumentUpdateView" \in EditViews
    BY DEF EditViews
  <2>1. ASSUME SaveWhole(w, "DocumentUpdateView",
                         [row[req[w].rec] EXCEPT !.value = req[w].input.value])
        PROVE  RecordsInv'
    <3> DEFINE r == req[w].rec
               x == [row[r] EXCEPT !.value = req[w].input.value]
    <3>1. Serving(w, "DocumentUpdateView") /\ Write(w, r, x, told[r])
      BY <2>1 DEF SaveWhole
    <3>2. /\ r \in Records /\ row[r] \in Row /\ req[w].input \in Row
          /\ told[r] \in Lives /\ Consistent(r, row[r])
      BY <2>0, <3>1, EditHolds
    <3>3. x \in Row /\ Consistent(r, x) /\ Life(x) = Life(row[r])
          /\ x.status = row[r].status
      BY <3>2 DEF Row, Consistent, Life
    <3>4. r \in Table["document"] /\ x.status # "absent" => r \in files
      BY <3>2, <3>3 DEF RecordsInv, RowsHaveFiles, Exists
    <3>5. r \notin raced' \cup Table["court"] => told[r] = Life(x)
      BY <3>1, <3>2, <3>3 DEF RecordsInv, LogTellsRow, Write
    <3> HIDE DEF r, x
    <3>q. QED
      BY <3>1, <3>2, <3>3, <3>4, <3>5, WriteHolds
  <2>q. QED
    BY <1>3, <2>0, <2>1, CompareHolds DEF update_document
<1>q. QED
  BY <1>1, <1>2, <1>3

LEMMA MovesStayListed ==
    ASSUME NEW s \in DOMAIN Moves
    PROVE  Moves[s] \subseteq AllStatuses
<1>1. DOMAIN Moves = {"scheduled", "draft", "active", "expired"}
  BY DEF Moves
<1>2. Moves[s] \subseteq Lifecycle["hearing"] \cup Lifecycle["contract"]
  BY <1>1 DEF Moves, Lifecycle
<1>q. QED
  BY <1>2, KindsAreListed DEF AllStatuses

(* Hearings and contracts change without a request of OfficeRecords.        *)
LEMMA HeldOrExpiredHolds ==
    ASSUME RecordsInv, HeldOrExpired
    PROVE  RecordsInv'
<1>1. PICK r \in Table["hearing"] \cup Table["contract"] :
        /\ \/ row[r] = NoRow /\ \E x \in FirstRows[r] : row' = [row EXCEPT ![r] = x]
           \/ /\ row[r].status \in DOMAIN Moves
              /\ \E s \in Moves[row[r].status] : row' = [row EXCEPT ![r].status = s]
        /\ told' = [told EXCEPT ![r] = Life(row'[r])]
        /\ UNCHANGED <<raced, files, req>>
  BY DEF HeldOrExpired
<1>2. r \in Records /\ KindOf[r] \in {"hearing", "contract"}
  BY KindsAreListed DEF Table
<1>3. row \in [Records -> Row] /\ told \in [Records -> Lives] /\ Consistent(r, row[r])
  BY <1>2 DEF RecordsInv, RecordsTypeOK, Lives, StampMatchesStatus, Consistent
<1>4. PICK x \in Row : row' = [row EXCEPT ![r] = x] /\ Consistent(r, x)
  <2>1. ASSUME NEW x \in FirstRows[r], row' = [row EXCEPT ![r] = x]
        PROVE  x \in Row /\ Consistent(r, x)
    BY <1>2, FirstRowsFit
  <2>2. ASSUME NEW s \in AllStatuses, row' = [row EXCEPT ![r].status = s]
        PROVE  /\ row' = [row EXCEPT ![r] = [row[r] EXCEPT !.status = s]]
               /\ [row[r] EXCEPT !.status = s] \in Row
               /\ Consistent(r, [row[r] EXCEPT !.status = s])
    <3>1. Finished(KindOf[r]) = {} /\ row[r] \in Row
      BY <1>2, <1>3, KindsAreListed, StatusesOfKind, TypesOfKinds
    <3>q. QED
      BY <1>2, <1>3, <2>2, <3>1 DEF Row, Consistent
  <2>q. QED
    BY <1>1, <2>1, <2>2, MovesStayListed
<1>5. row'[r] = x /\ Life(x) \in Lives /\ told' = [told EXCEPT ![r] = Life(x)]
  BY <1>1, <1>2, <1>3, <1>4, LifeIsLife
<1>6. RecordsTypeOK'
  BY <1>1, <1>2, <1>3, <1>4, <1>5 DEF RecordsInv, RecordsTypeOK, Lives
<1>7. StampMatchesStatus' /\ LogTellsRow'
  BY <1>1, <1>2, <1>3, <1>4, <1>5
     DEF RecordsInv, StampMatchesStatus, LogTellsRow, Consistent
<1>8. RowsHaveFiles'
  <2>1. r \notin Table["document"]
    BY <1>2, TypesOfKinds
  <2>2. \A d \in Table["document"] : d \in Records
    BY KindsAreListed DEF Table
  <2>q. QED
    BY <1>1, <1>3, <1>4, <2>1, <2>2 DEF RecordsInv, RowsHaveFiles, Exists
<1>9. ASSUME NEW w \in Workers PROVE Fits(req[w])'
  <2>1. req'[w] = req[w] /\ Fits(req[w]) /\ req[w] \in Request
    BY <1>1 DEF RecordsInv, RecordsTypeOK
  <2>2. ASSUME req[w].view \in WholeRowViews
        PROVE  row'[req[w].rec] = row[req[w].rec]
    <3>1. req[w] # Idle /\ req[w].rec \in Records
      BY <2>1, <2>2, RequestShapes DEF WholeRowViews, EditViews, Idle
    <3>2. KindOf[req[w].rec] \notin {"hearing", "contract"}
      BY <2>1, <2>2, <3>1 DEF Fits, WholeRowViews, EditViews, KindOfView
    <3>q. QED
      BY <1>2, <1>3, <1>4, <3>1, <3>2
  <2>q. QED
    BY <1>1, <2>1, <2>2 DEF Fits
<1>q. QED
  BY <1>6, <1>7, <1>8, <1>9 DEF RecordsInv

(* Their edits: one that changes the status makes the record a raced one.   *)
LEMMA EditedThereHolds ==
    ASSUME RecordsInv, EditedThere
    PROVE  RecordsInv'
<1>1. PICK r \in Table["hearing"] \cup Table["contract"] :
        /\ Exists(r)
        /\ \E s \in Lifecycle[KindOf[r]], v \in Values :
              /\ row' = [row EXCEPT ![r].status = s, ![r].value = v]
              /\ raced' = IF s = row[r].status THEN raced ELSE raced \cup {r}
        /\ UNCHANGED <<told, files, req>>
  BY DEF EditedThere
<1>2. PICK s \in Lifecycle[KindOf[r]], v \in Values :
        /\ row' = [row EXCEPT ![r].status = s, ![r].value = v]
        /\ raced' = IF s = row[r].status THEN raced ELSE raced \cup {r}
  BY <1>1
<1>3. /\ r \in Records /\ KindOf[r] \in {"hearing", "contract"}
      /\ row \in [Records -> Row] /\ row[r] \in Row
  BY KindsAreListed DEF Table, RecordsInv, RecordsTypeOK
<1> DEFINE x == [row[r] EXCEPT !.status = s, !.value = v]
<1>4. row' = [row EXCEPT ![r] = x] /\ x \in Row /\ x.status = s
      /\ x.stamp = row[r].stamp /\ x.gone = row[r].gone
  <2>1. s \in AllStatuses
    BY <1>3, KindsAreListed, StatusesOfKind
  <2>q. QED
    BY <1>2, <1>3, <2>1 DEF Row
<1>5. Consistent(r, x)
  <2>1. Finished(KindOf[r]) = {}
    BY <1>3 DEF Finished
  <2>2. ~row[r].stamp
    BY <1>3, <2>1 DEF RecordsInv, StampMatchesStatus
  <2>q. QED
    BY <1>4, <2>1, <2>2 DEF Consistent
<1> HIDE DEF x
<1>6. RecordsTypeOK'
  <2>1. row' \in [Records -> Row]
    BY <1>3, <1>4
  <2>2. raced' \subseteq Records
    BY <1>2, <1>3 DEF RecordsInv, RecordsTypeOK
  <2>q. QED
    BY <1>1, <2>1, <2>2 DEF RecordsInv, RecordsTypeOK
<1>7. StampMatchesStatus'
  BY <1>3, <1>4, <1>5 DEF RecordsInv, StampMatchesStatus, Consistent
<1>8. LogTellsRow'
  <2>1. ASSUME NEW o \in Records \ (raced' \cup Table["court"])
        PROVE  told'[o] = Life(row'[o])
    <3>1. told'[o] = told[o] /\ told[o] = Life(row[o])
      BY <1>1, <1>2, <2>1 DEF RecordsInv, LogTellsRow
    <3>2. CASE o # r
      BY <1>3, <1>4, <3>1, <3>2
    <3>3. CASE o = r
      <4>1. s = row[r].status
        BY <1>2, <2>1, <3>3
      <4>2. Life(x) = Life(row[r])
        BY <1>4, <4>1 DEF Life
      <4>q. QED
        BY <1>3, <1>4, <3>1, <3>3, <4>2
    <3>q. QED
      BY <3>2, <3>3
  <2>q. QED
    BY <2>1 DEF LogTellsRow
<1>9. RowsHaveFiles'
  <2>1. r \notin Table["document"]
    BY <1>3, TypesOfKinds
  <2>2. \A d \in Table["document"] : d \in Records
    BY KindsAreListed DEF Table
  <2>q. QED
    BY <1>1, <1>3, <1>4, <2>1, <2>2 DEF RecordsInv, RowsHaveFiles, Exists
<1>10. ASSUME NEW w \in Workers PROVE Fits(req[w])'
  <2>1. /\ req'[w] = req[w] /\ Fits(req[w]) /\ req[w] \in Request
        /\ raced \subseteq raced' /\ files' = files
    BY <1>1, <1>2 DEF RecordsInv, RecordsTypeOK
  <2>2. ASSUME req[w].view \in WholeRowViews
        PROVE  row'[req[w].rec] = row[req[w].rec]
    <3>1. req[w] # Idle /\ req[w].rec \in Records
      BY <2>1, <2>2, RequestShapes DEF WholeRowViews, EditViews, Idle
    <3>2. KindOf[req[w].rec] \notin {"hearing", "contract"}
      BY <2>1, <2>2, <3>1 DEF Fits, WholeRowViews, EditViews, KindOfView
    <3>q. QED
      BY <1>3, <1>4, <3>1, <3>2
  <2>q. QED
    BY <2>1, <2>2 DEF Fits
<1>q. QED
  BY <1>6, <1>7, <1>8, <1>9, <1>10 DEF RecordsInv

-----------------------------------------------------------------------------
(* The steps of the services and of the views.                              *)
LEMMA EditServiceHolds ==
    ASSUME RecordsInv, NEW w \in Workers,
           \/ update_task(w) \/ update_deadline(w) \/ update_case(w)
           \/ update_client(w) \/ update_expense(w)
    PROVE  RecordsInv'
<1>1. CASE update_task(w)
  <2>1. "TaskUpdateView" \in WholeRowViews \ {"CourtUpdateView"}
    BY DEF WholeRowViews, EditViews
  <2>q. QED
    BY <1>1, <2>1, CompareHolds, SaveWholeHolds DEF update_task, WholeRowViews
<1>2. CASE update_deadline(w)
  <2>1. "DeadlineUpdateView" \in WholeRowViews \ {"CourtUpdateView"}
    BY DEF WholeRowViews, EditViews
  <2>q. QED
    BY <1>2, <2>1, CompareHolds, SaveWholeHolds DEF update_deadline, WholeRowViews
<1>3. CASE update_case(w)
  <2>1. "CaseUpdateView" \in WholeRowViews \ {"CourtUpdateView"}
    BY DEF WholeRowViews, EditViews
  <2>q. QED
    BY <1>3, <2>1, CompareHolds, SaveWholeHolds DEF update_case, WholeRowViews
<1>4. CASE update_client(w)
  <2>1. "ClientUpdateView" \in WholeRowViews \ {"CourtUpdateView"}
    BY DEF WholeRowViews, EditViews
  <2>q. QED
    BY <1>4, <2>1, CompareHolds, SaveWholeHolds DEF update_client, WholeRowViews
<1>5. CASE update_expense(w)
  <2>1. "ExpenseUpdateView" \in WholeRowViews \ {"CourtUpdateView"}
    BY DEF WholeRowViews, EditViews
  <2>q. QED
    BY <1>5, <2>1, CompareHolds, SaveWholeHolds DEF update_expense, WholeRowViews
<1>q. QED
  BY <1>1, <1>2, <1>3, <1>4, <1>5

LEMMA StatusServiceHolds ==
    ASSUME RecordsInv, NEW w \in Workers,
           \/ change_task_status(w) \/ change_deadline_status(w) \/ change_status(w)
           \/ archive_client(w) \/ restore_client(w) \/ set_active(w)
    PROVE  RecordsInv'
<1>1. CASE change_task_status(w)
  <2>1. Serving(w, "task_status") /\ "task_status" \in ActionViews
    BY <1>1 DEF change_task_status, ActionViews
  <2>2. req[w].input \in AllStatuses
    BY <2>1, ActionHolds, StatusesOf
  <2>3. /\ KindOfView["task_status"] # "document"
        /\ (req[w].input = "done") \in BOOLEAN
        /\ (req[w].input = "done") <=> req[w].input \in Finished(KindOfView["task_status"])
    BY DEF KindOfView, Finished
  <2>4. Leave(w) \/ SetStatus(w, req[w].rec, req[w].input, req[w].input = "done")
    BY <1>1 DEF change_task_status
  <2>q. QED
    BY <2>1, <2>2, <2>3, <2>4, LeaveHolds, SetStatusHolds
<1>2. CASE change_deadline_status(w)
  <2>1. Serving(w, "deadline_status") /\ "deadline_status" \in ActionViews
    BY <1>2 DEF change_deadline_status, ActionViews
  <2>2. req[w].input \in AllStatuses
    BY <2>1, ActionHolds, StatusesOf
  <2>3. /\ KindOfView["deadline_status"] # "document"
        /\ (req[w].input \in {"met", "missed"}) \in BOOLEAN
        /\ (req[w].input \in {"met", "missed"})
              <=> req[w].input \in Finished(KindOfView["deadline_status"])
    BY DEF KindOfView, Finished
  <2>4. Leave(w) \/ SetStatus(w, req[w].rec, req[w].input, req[w].input \in {"met", "missed"})
    BY <1>2 DEF change_deadline_status
  <2>q. QED
    BY <2>1, <2>2, <2>3, <2>4, LeaveHolds, SetStatusHolds
<1>3. CASE change_status(w)
  <2>1. Serving(w, "case_status") /\ "case_status" \in ActionViews
    BY <1>3 DEF change_status, ActionViews
  <2>2. req[w].input \in AllStatuses
    BY <2>1, ActionHolds, StatusesOf
  <2>3. /\ KindOfView["case_status"] # "document"
        /\ (FALSE) \in BOOLEAN
        /\ (FALSE) <=> req[w].input \in Finished(KindOfView["case_status"])
    BY DEF KindOfView, Finished
  <2>4. Leave(w) \/ SetStatus(w, req[w].rec, req[w].input, FALSE)
    BY <1>3 DEF change_status
  <2>q. QED
    BY <2>1, <2>2, <2>3, <2>4, LeaveHolds, SetStatusHolds
<1>4. CASE archive_client(w)
  <2>1. Serving(w, "client_archive") /\ "client_archive" \in ActionViews
    BY <1>4 DEF archive_client, ActionViews
  <2>2. "archived" \in AllStatuses
    BY <2>1, ActionHolds, StatusesOf
  <2>3. /\ KindOfView["client_archive"] # "document"
        /\ (FALSE) \in BOOLEAN
        /\ (FALSE) <=> "archived" \in Finished(KindOfView["client_archive"])
    BY DEF KindOfView, Finished
  <2>4. Leave(w) \/ SetStatus(w, req[w].rec, "archived", FALSE)
    BY <1>4 DEF archive_client
  <2>q. QED
    BY <2>1, <2>2, <2>3, <2>4, LeaveHolds, SetStatusHolds
<1>5. CASE restore_client(w)
  <2>1. Serving(w, "client_restore") /\ "client_restore" \in ActionViews
    BY <1>5 DEF restore_client, ActionViews
  <2>2. "active" \in AllStatuses
    BY <2>1, ActionHolds, StatusesOf
  <2>3. /\ KindOfView["client_restore"] # "document"
        /\ (FALSE) \in BOOLEAN
        /\ (FALSE) <=> "active" \in Finished(KindOfView["client_restore"])
    BY DEF KindOfView, Finished
  <2>4. Leave(w) \/ SetStatus(w, req[w].rec, "active", FALSE)
    BY <1>5 DEF restore_client
  <2>q. QED
    BY <2>1, <2>2, <2>3, <2>4, LeaveHolds, SetStatusHolds
<1>6. CASE set_active(w)
  <2>1. Serving(w, "court_set_active") /\ "court_set_active" \in ActionViews
    BY <1>6 DEF set_active, ActionViews
  <2>2. req[w].input \in AllStatuses
    BY <2>1, ActionHolds, StatusesOf
  <2>3. /\ KindOfView["court_set_active"] # "document"
        /\ (FALSE) \in BOOLEAN
        /\ (FALSE) <=> req[w].input \in Finished(KindOfView["court_set_active"])
    BY DEF KindOfView, Finished
  <2>4. Leave(w) \/ SetStatus(w, req[w].rec, req[w].input, FALSE)
    BY <1>6 DEF set_active
  <2>q. QED
    BY <2>1, <2>2, <2>3, <2>4, LeaveHolds, SetStatusHolds
<1>q. QED
  BY <1>1, <1>2, <1>3, <1>4, <1>5, <1>6

LEMMA ServiceHolds ==
    ASSUME RecordsInv, NEW w \in Workers, Service(w)
    PROVE  RecordsInv'
<1>1. CASE \/ create_task(w) \/ create_deadline(w) \/ create_case(w)
           \/ create_client(w) \/ create_court(w) \/ create_expense(w)
  BY <1>1, KindsAreListed, CreatesHolds
     DEF create_task, create_deadline, create_case, create_client, create_court,
         create_expense
<1>2. CASE \/ update_task(w) \/ update_deadline(w) \/ update_case(w)
           \/ update_client(w) \/ update_expense(w)
  BY <1>2, EditServiceHolds
<1>3. CASE \/ change_task_status(w) \/ change_deadline_status(w) \/ change_status(w)
           \/ archive_client(w) \/ restore_client(w) \/ set_active(w)
  BY <1>3, StatusServiceHolds
<1>4. CASE delete_task(w) \/ retire_document(w) \/ retire_expense(w)
  BY <1>4, RetireHolds DEF delete_task, retire_document, retire_expense, ActionViews
<1>5. CASE update_court(w)
  BY <1>5, CourtHolds
<1>6. CASE StoreBlob(w) \/ create_document(w) \/ update_document(w)
  BY <1>6, DocumentHolds
<1>q. QED
  BY <1>1, <1>2, <1>3, <1>4, <1>5, <1>6 DEF Service

LEMMA ViewHolds ==
    ASSUME RecordsInv, NEW w \in Workers, View(w)
    PROVE  RecordsInv'
<1>1. CASE TaskUpdateView(w)
  <2>1. /\ "TaskUpdateView" \in EditViews \ {"CourtUpdateView"}
        /\ KindOfView["TaskUpdateView"] = "task"
    BY DEF EditViews, KindOfView
  <2>q. QED
    BY <1>1, <2>1, EditLoadHolds DEF TaskUpdateView
<1>2. CASE DeadlineUpdateView(w)
  <2>1. /\ "DeadlineUpdateView" \in EditViews \ {"CourtUpdateView"}
        /\ KindOfView["DeadlineUpdateView"] = "deadline"
    BY DEF EditViews, KindOfView
  <2>q. QED
    BY <1>2, <2>1, EditLoadHolds DEF DeadlineUpdateView
<1>3. CASE CaseUpdateView(w)
  <2>1. /\ "CaseUpdateView" \in EditViews \ {"CourtUpdateView"}
        /\ KindOfView["CaseUpdateView"] = "case"
    BY DEF EditViews, KindOfView
  <2>q. QED
    BY <1>3, <2>1, EditLoadHolds DEF CaseUpdateView
<1>4. CASE ClientUpdateView(w)
  <2>1. /\ "ClientUpdateView" \in EditViews \ {"CourtUpdateView"}
        /\ KindOfView["ClientUpdateView"] = "client"
    BY DEF EditViews, KindOfView
  <2>q. QED
    BY <1>4, <2>1, EditLoadHolds DEF ClientUpdateView
<1>5. CASE DocumentUpdateView(w)
  <2>1. /\ "DocumentUpdateView" \in EditViews \ {"CourtUpdateView"}
        /\ KindOfView["DocumentUpdateView"] = "document"
    BY DEF EditViews, KindOfView
  <2>q. QED
    BY <1>5, <2>1, EditLoadHolds DEF DocumentUpdateView
<1>6. CASE ExpenseUpdateView(w)
  <2>1. /\ "ExpenseUpdateView" \in EditViews \ {"CourtUpdateView"}
        /\ KindOfView["ExpenseUpdateView"] = "expense"
    BY DEF EditViews, KindOfView
  <2>q. QED
    BY <1>6, <2>1, EditLoadHolds DEF ExpenseUpdateView
<1>7. CASE CourtUpdateView(w)
  BY <1>7, CourtHolds
<1>8. CASE task_status(w)
  <2>1. "task_status" \in ActionViews /\ KindOfView["task_status"] = "task"
    BY DEF ActionViews, KindOfView
  <2>2. Lifecycle["task"] \subseteq AllStatuses
    BY KindsAreListed, StatusesOfKind, StatusesOf
  <2>q. QED
    BY <1>8, <2>1, <2>2, ActionLoadHolds DEF task_status
<1>9. CASE task_delete(w)
  <2>1. "task_delete" \in ActionViews /\ KindOfView["task_delete"] = "task"
    BY DEF ActionViews, KindOfView
  <2>2. {"done"} \subseteq AllStatuses
    BY KindsAreListed, StatusesOfKind, StatusesOf
  <2>q. QED
    BY <1>9, <2>1, <2>2, ActionLoadHolds DEF task_delete
<1>10. CASE deadline_status(w)
  <2>1. "deadline_status" \in ActionViews /\ KindOfView["deadline_status"] = "deadline"
    BY DEF ActionViews, KindOfView
  <2>2. Lifecycle["deadline"] \subseteq AllStatuses
    BY KindsAreListed, StatusesOfKind, StatusesOf
  <2>q. QED
    BY <1>10, <2>1, <2>2, ActionLoadHolds DEF deadline_status
<1>11. CASE case_status(w)
  <2>1. "case_status" \in ActionViews /\ KindOfView["case_status"] = "case"
    BY DEF ActionViews, KindOfView
  <2>2. Lifecycle["case"] \subseteq AllStatuses
    BY KindsAreListed, StatusesOfKind, StatusesOf
  <2>q. QED
    BY <1>11, <2>1, <2>2, ActionLoadHolds DEF case_status
<1>12. CASE client_archive(w)
  <2>1. "client_archive" \in ActionViews /\ KindOfView["client_archive"] = "client"
    BY DEF ActionViews, KindOfView
  <2>2. {"archived"} \subseteq AllStatuses
    BY KindsAreListed, StatusesOfKind, StatusesOf
  <2>q. QED
    BY <1>12, <2>1, <2>2, ActionLoadHolds DEF client_archive
<1>13. CASE client_restore(w)
  <2>1. "client_restore" \in ActionViews /\ KindOfView["client_restore"] = "client"
    BY DEF ActionViews, KindOfView
  <2>2. {"active"} \subseteq AllStatuses
    BY KindsAreListed, StatusesOfKind, StatusesOf
  <2>q. QED
    BY <1>13, <2>1, <2>2, ActionLoadHolds DEF client_restore
<1>14. CASE court_set_active(w)
  <2>1. "court_set_active" \in ActionViews /\ KindOfView["court_set_active"] = "court"
    BY DEF ActionViews, KindOfView
  <2>2. Lifecycle["court"] \subseteq AllStatuses
    BY KindsAreListed, StatusesOfKind, StatusesOf
  <2>q. QED
    BY <1>14, <2>1, <2>2, ActionLoadHolds DEF court_set_active
<1>15. CASE document_retire(w)
  <2>1. "document_retire" \in ActionViews /\ KindOfView["document_retire"] = "document"
    BY DEF ActionViews, KindOfView
  <2>2. {"kept"} \subseteq AllStatuses
    BY KindsAreListed, StatusesOfKind, StatusesOf
  <2>q. QED
    BY <1>15, <2>1, <2>2, ActionLoadHolds DEF document_retire
<1>16. CASE expense_retire(w)
  <2>1. "expense_retire" \in ActionViews /\ KindOfView["expense_retire"] = "expense"
    BY DEF ActionViews, KindOfView
  <2>2. {"kept"} \subseteq AllStatuses
    BY KindsAreListed, StatusesOfKind, StatusesOf
  <2>q. QED
    BY <1>16, <2>1, <2>2, ActionLoadHolds DEF expense_retire
<1>q. QED
  BY <1>1, <1>2, <1>3, <1>4, <1>5, <1>6, <1>7, <1>8,
     <1>9, <1>10, <1>11, <1>12, <1>13, <1>14, <1>15, <1>16 DEF View

-----------------------------------------------------------------------------
(* The invariant is inductive: whatever the workers' requests do to each    *)
(* other (OfficeRecords), it holds.                                         *)
THEOREM RecordsInvariant == RecordsSpec => []RecordsInv
<1>1. RecordsInv /\ [RecordsNext]_recordVars => RecordsInv'
  <2> SUFFICES ASSUME RecordsInv, [RecordsNext]_recordVars PROVE RecordsInv'
    OBVIOUS
  <2>1. ASSUME NEW w \in Workers, Service(w) \/ View(w) \/ Abandon(w)
        PROVE  RecordsInv'
    BY <2>1, ServiceHolds, ViewHolds, LeaveHolds DEF Abandon
  <2>2. CASE HeldOrExpired \/ EditedThere
    BY <2>2, HeldOrExpiredHolds, EditedThereHolds
  <2>3. CASE UNCHANGED recordVars
    BY <2>3 DEF RecordsInv, RecordsTypeOK, StampMatchesStatus, LogTellsRow,
       RowsHaveFiles, Exists, Fits, recordVars
  <2>q. QED
    BY <2>1, <2>2, <2>3 DEF RecordsNext
<1>q. QED
  BY InitHolds, <1>1, PTL DEF RecordsSpec

-----------------------------------------------------------------------------
(* What the columns of a table hold.                                        *)
LEMMA ColumnsAre ==
    ASSUME NEW k \in DOMAIN Lifecycle
    PROVE  \E A, B \in {BOOLEAN, {FALSE}} :
              /\ Columns[k] = [status : Lifecycle[k], stamp : A, gone : B, value : Values]
              /\ k \in {"task", "deadline"} => A = BOOLEAN
              /\ k \in {"task", "document", "expense"} => B = BOOLEAN
<1>1. CASE k = "task"
  BY <1>1 DEF Columns, Lifecycle, Task
<1>2. CASE k = "deadline"
  BY <1>2 DEF Columns, Lifecycle, Deadline
<1>3. CASE k = "case"
  BY <1>3 DEF Columns, Lifecycle, Case
<1>4. CASE k = "client"
  BY <1>4 DEF Columns, Lifecycle, Client
<1>5. CASE k = "court"
  BY <1>5 DEF Columns, Lifecycle, Court
<1>6. CASE k = "document"
  BY <1>6 DEF Columns, Lifecycle, Document
<1>7. CASE k = "expense"
  BY <1>7 DEF Columns, Lifecycle, Expense
<1>8. CASE k = "hearing"
  BY <1>8 DEF Columns, Lifecycle, Listed
<1>9. CASE k = "contract"
  BY <1>9 DEF Columns, Lifecycle, Listed
<1>q. QED
  BY <1>1, <1>2, <1>3, <1>4, <1>5, <1>6, <1>7, <1>8, <1>9, KindsAreListed

(* A row of a table stays one when a value, a status of the table or, where *)
(* the table has them, a stamp or a deletion is set.                        *)
LEMMA ColumnsSet ==
    ASSUME NEW k \in DOMAIN Lifecycle, NEW x \in Columns[k]
    PROVE  /\ x.status \in Lifecycle[k] /\ x.value \in Values
           /\ \A v \in Values : [x EXCEPT !.value = v] \in Columns[k]
           /\ \A s \in Lifecycle[k] : [x EXCEPT !.status = s] \in Columns[k]
           /\ \A s \in Lifecycle[k], b \in BOOLEAN : (b => k \in {"task", "deadline"}) =>
                 [x EXCEPT !.status = s, !.stamp = b] \in Columns[k]
           /\ k \in {"task", "document", "expense"} =>
                 [x EXCEPT !.gone = TRUE] \in Columns[k]
<1>1. PICK A \in {BOOLEAN, {FALSE}}, B \in {BOOLEAN, {FALSE}} :
         /\ Columns[k] = [status : Lifecycle[k], stamp : A, gone : B, value : Values]
         /\ k \in {"task", "deadline"} => A = BOOLEAN
         /\ k \in {"task", "document", "expense"} => B = BOOLEAN
  BY ColumnsAre
<1>2. /\ x \in [status : Lifecycle[k], stamp : A, gone : B, value : Values]
      /\ FALSE \in A
  BY <1>1
<1>3. \A v \in Values : [x EXCEPT !.value = v] \in Columns[k]
  BY <1>1, <1>2
<1>4. \A s \in Lifecycle[k] : [x EXCEPT !.status = s] \in Columns[k]
  BY <1>1, <1>2
<1>5. ASSUME NEW s \in Lifecycle[k], NEW b \in BOOLEAN, b => k \in {"task", "deadline"}
      PROVE  [x EXCEPT !.status = s, !.stamp = b] \in Columns[k]
  <2>1. b \in A
    BY <1>1, <1>2, <1>5
  <2>q. QED
    BY <1>1, <1>2, <2>1
<1>6. ASSUME k \in {"task", "document", "expense"} PROVE [x EXCEPT !.gone = TRUE] \in Columns[k]
  BY <1>1, <1>2, <1>6
<1>q. QED
  BY <1>2, <1>3, <1>4, <1>5, <1>6

(* A request holds a row of its table, of a record that exists, and what it *)
(* will write into it are values and statuses of that table.                *)
Shaped(q) ==
    /\ q.view \in EditViews \cup ActionViews => Exists(q.rec)
    /\ q.view \in EditViews => q.copy \in Columns[KindOf[q.rec]] /\ q.input.value \in Values
    /\ q.view \in ActionViews => q.input \in Lifecycle[KindOf[q.rec]]

(* The log tells of no record that never was.                              *)
LoggedExist == \A r \in Records : told[r].status # "absent" => Exists(r)

ColumnsInv == ColumnsKept /\ LoggedExist /\ \A w \in Workers : Shaped(req[w])

LEMMA FirstRowsShaped ==
    ASSUME NEW r \in Records, NEW x \in FirstRows[r]
    PROVE  x \in Columns[KindOf[r]]
<1>1. KindOf[r] \in DOMAIN Lifecycle
  BY KindsAssumption
<1>2. PICK s \in FirstStatuses[KindOf[r]], v \in Values : x = Fresh(s, v)
  BY DEF FirstRows
<1>3. s \in Lifecycle[KindOf[r]]
  BY <1>1, <1>2, KindsAreListed
  DEF Lifecycle, FirstStatuses, TaskStatus, DeadlineStatus, CaseStatus, ClientStatus
<1>q. QED
  BY <1>1, <1>2, <1>3, ColumnsAre DEF Fresh

LEMMA ShapedWrite ==
    ASSUME RecordsInv, ColumnsInv, NEW w \in Workers, NEW r \in Records,
           NEW x \in Columns[KindOf[r]], NEW said, Write(w, r, x, said)
    PROVE  ColumnsInv'
<1>1. /\ row' = [row EXCEPT ![r] = x] /\ req' = [req EXCEPT ![w] = Idle]
      /\ told' = [told EXCEPT ![r] = said]
      /\ row \in [Records -> Row] /\ req \in [Workers -> Request]
      /\ told \in [Records -> Lives]
  BY DEF Write, RecordsInv, RecordsTypeOK, Lives
<1>2. x.status # "absent"
  <2>1. KindOf[r] \in DOMAIN Lifecycle
    BY KindsAssumption
  <2>q. QED
    BY <2>1, ColumnsSet, StatusesOfKind, AbsentIsNoStatus
<1>3. ColumnsKept' /\ LoggedExist'
  BY <1>1, <1>2 DEF ColumnsInv, ColumnsKept, LoggedExist, Exists
<1>4. ASSUME NEW o \in Workers PROVE Shaped(req[o])'
  <2>1. CASE o = w
    <3>1. req'[o] = Idle
      BY <1>1, <2>1
    <3>q. QED
      BY <3>1 DEF Shaped, Idle, EditViews, ActionViews
  <2>2. CASE o # w
    <3>1. req'[o] = req[o] /\ Shaped(req[o]) /\ req[o] \in Request
      BY <1>1, <2>2 DEF ColumnsInv
    <3>2. req[o].view \in EditViews \cup ActionViews => req[o].rec \in Records
      BY <3>1, RequestShapes
    <3>3. \A s \in Records : Exists(s) => Exists(s)'
      BY <1>1, <1>2 DEF Exists
    <3>q. QED
      BY <3>1, <3>2, <3>3 DEF Shaped
  <2>q. QED  BY <2>1, <2>2
<1>q. QED
  BY <1>3, <1>4 DEF ColumnsInv

LEMMA ShapedRequest ==
    ASSUME RecordsInv, ColumnsInv, NEW w \in Workers, NEW new, Shaped(new),
           req' = [req EXCEPT ![w] = new], UNCHANGED <<row, told>>
    PROVE  ColumnsInv'
<1>1. req \in [Workers -> Request]
  BY DEF RecordsInv, RecordsTypeOK
<1>2. ColumnsKept' /\ LoggedExist'
  BY DEF ColumnsInv, ColumnsKept, LoggedExist, Exists
<1>3. ASSUME NEW o \in Workers PROVE Shaped(req[o])'
  <2>1. req'[o] = new \/ req'[o] = req[o]
    BY <1>1
  <2>q. QED
    BY <2>1 DEF ColumnsInv, Shaped, Exists
<1>q. QED
  BY <1>2, <1>3 DEF ColumnsInv

LEMMA ShapedIdle == Shaped(Idle)
  BY DEF Shaped, Idle, EditViews, ActionViews

LEMMA ShapedLeave ==
    ASSUME RecordsInv, ColumnsInv, NEW w \in Workers, Leave(w)
    PROVE  ColumnsInv'
  BY ShapedRequest, ShapedIdle DEF Leave

(* What is known of a request when its service runs.                        *)
LEMMA ShapedServing ==
    ASSUME RecordsInv, ColumnsInv, NEW w \in Workers,
           NEW view \in EditViews \cup ActionViews, Serving(w, view)
    PROVE  /\ req[w].rec \in Records /\ KindOf[req[w].rec] = KindOfView[view]
           /\ KindOfView[view] \in DOMAIN Lifecycle
           /\ row[req[w].rec] \in Columns[KindOf[req[w].rec]]
           /\ Shaped(req[w])
<1>1. req[w].rec \in Records /\ KindOf[req[w].rec] = KindOfView[view]
  BY EditHolds, ActionHolds
<1>2. Shaped(req[w]) /\ req[w].view = view
  BY DEF ColumnsInv, Serving
<1>q. QED
  BY <1>1, <1>2, KindsAssumption DEF Shaped, ColumnsInv, ColumnsKept

LEMMA ShapedCompare ==
    ASSUME RecordsInv, ColumnsInv, NEW w \in Workers, NEW view \in EditViews, NEW same,
           Compare(w, view, same)
    PROVE  ColumnsInv'
<1>1. CASE Leave(w)
  BY <1>1, ShapedLeave
<1>2. CASE req' = [req EXCEPT ![w].step = "diffed"] /\ UNCHANGED <<row, told>>
  <2> DEFINE new == [req[w] EXCEPT !.step = "diffed"]
  <2>1. req[w] \in [view : EditViews, step : {"loaded", "diffed"}, rec : Records,
                    copy : Row, input : Row]
    BY RequestShapes DEF RecordsInv, RecordsTypeOK, Compare, Serving
  <2>2. Shaped(req[w])
    BY DEF ColumnsInv
  <2>3. Shaped(new)
    BY <2>1, <2>2 DEF Shaped
  <2>q. QED
    BY <1>2, <2>3, ShapedRequest
<1>q. QED
  BY <1>1, <1>2 DEF Compare

LEMMA ShapedSaveWhole ==
    ASSUME RecordsInv, ColumnsInv, NEW w \in Workers, NEW view \in EditViews,
           SaveWhole(w, view, Edited(w))
    PROVE  ColumnsInv'
<1> DEFINE r == req[w].rec
           x == Edited(w)
<1>1. Serving(w, view) /\ Write(w, r, x, told[r])
  BY DEF SaveWhole
<1>2. /\ r \in Records /\ KindOf[r] \in DOMAIN Lifecycle
      /\ req[w].copy \in Columns[KindOf[r]] /\ req[w].input.value \in Values
  BY <1>1, ShapedServing DEF Shaped, Serving
<1>3. x \in Columns[KindOf[r]]
  BY <1>2, ColumnsSet DEF Edited
<1> HIDE DEF r, x
<1>q. QED
  BY <1>1, <1>2, <1>3, ShapedWrite

LEMMA ShapedStatus ==
    ASSUME RecordsInv, ColumnsInv, NEW w \in Workers, NEW view \in ActionViews,
           Serving(w, view), NEW s \in Lifecycle[KindOfView[view]], NEW stamped \in BOOLEAN,
           stamped => KindOfView[view] \in {"task", "deadline"},
           SetStatus(w, req[w].rec, s, stamped)
    PROVE  ColumnsInv'
<1> DEFINE r == req[w].rec
           x == [row[r] EXCEPT !.status = s, !.stamp = stamped]
<1>1. /\ r \in Records /\ KindOf[r] = KindOfView[view] /\ KindOf[r] \in DOMAIN Lifecycle
      /\ row[r] \in Columns[KindOf[r]]
  BY ShapedServing
<1>2. x \in Columns[KindOf[r]]
  BY <1>1, ColumnsSet
<1>3. Write(w, r, x, [told[r] EXCEPT !.status = s])
  BY DEF SetStatus
<1> HIDE DEF r, x
<1>q. QED
  BY <1>1, <1>2, <1>3, ShapedWrite

LEMMA ShapedRetire ==
    ASSUME RecordsInv, ColumnsInv, NEW w \in Workers,
           NEW view \in {"task_delete", "document_retire", "expense_retire"},
           Retire(w, view)
    PROVE  ColumnsInv'
<1> DEFINE r == req[w].rec
           x == [row[r] EXCEPT !.gone = TRUE]
<1>1. view \in ActionViews /\ KindOfView[view] \in {"task", "document", "expense"}
  BY DEF ActionViews, KindOfView
<1>2. /\ r \in Records /\ KindOf[r] = KindOfView[view] /\ KindOf[r] \in DOMAIN Lifecycle
      /\ row[r] \in Columns[KindOf[r]]
  BY <1>1, ShapedServing DEF Retire
<1>3. x \in Columns[KindOf[r]]
  BY <1>1, <1>2, ColumnsSet
<1>4. Leave(w) \/ Write(w, r, x, [told[r] EXCEPT !.gone = TRUE])
  BY DEF Retire
<1> HIDE DEF r, x
<1>q. QED
  BY <1>2, <1>3, <1>4, ShapedWrite, ShapedLeave

LEMMA ShapedCreates ==
    ASSUME RecordsInv, ColumnsInv, NEW w \in Workers, NEW k \in DOMAIN Lifecycle,
           Creates(w, k)
    PROVE  ColumnsInv'
<1>1. PICK r \in Table[k] : \E x \in FirstRows[r] : Create(w, r, x)
  BY DEF Creates
<1>2. PICK x \in FirstRows[r] : Create(w, r, x)
  BY <1>1
<1>3. r \in Records
  BY DEF Table
<1>q. QED
  BY <1>2, <1>3, FirstRowsShaped, ShapedWrite DEF Create

LEMMA ShapedEditLoad ==
    ASSUME RecordsInv, ColumnsInv, NEW w \in Workers, NEW view \in EditViews,
           NEW r \in Records, Found(r), NEW x, x.value \in Values,
           LoadForEdit(w, view, r, x)
    PROVE  ColumnsInv'
<1> DEFINE new == [view |-> view, step |-> "loaded", rec |-> r, copy |-> row[r],
                   input |-> x]
<1>1. row[r] \in Columns[KindOf[r]] /\ Exists(r)
  BY DEF Found, ColumnsInv, ColumnsKept
<1>2. Shaped(new)
  BY <1>1 DEF Shaped, EditViews, ActionViews
<1>3. req' = [req EXCEPT ![w] = new] /\ UNCHANGED <<row, told>>
  BY DEF LoadForEdit, Begin
<1> HIDE DEF new
<1>q. QED
  BY <1>2, <1>3, ShapedRequest

LEMMA ShapedEditView ==
    ASSUME RecordsInv, ColumnsInv, NEW w \in Workers, NEW view \in EditViews,
           NEW k \in DOMAIN Lifecycle, EditLoad(w, view, k)
    PROVE  ColumnsInv'
<1>1. PICK r \in Table[k], v \in Values :
         Found(r) /\ LoadForEdit(w, view, r, [row[r] EXCEPT !.value = v])
  BY DEF EditLoad
<1>2. r \in Records /\ row[r] \in Row
  BY DEF Table, RecordsInv, RecordsTypeOK
<1>3. [row[r] EXCEPT !.value = v].value = v
  BY <1>2 DEF Row
<1>q. QED
  BY <1>1, <1>2, <1>3, ShapedEditLoad

LEMMA ShapedActionView ==
    ASSUME RecordsInv, ColumnsInv, NEW w \in Workers, NEW view \in ActionViews,
           NEW k \in DOMAIN Lifecycle, NEW choices \in SUBSET Lifecycle[k],
           ActionLoad(w, view, k, choices)
    PROVE  ColumnsInv'
<1>1. PICK r \in Table[k], s \in choices : Found(r) /\ LoadForAction(w, view, r, s)
  BY DEF ActionLoad
<1> DEFINE new == [view |-> view, rec |-> r, copy |-> row[r], input |-> s]
<1>2. r \in Records /\ KindOf[r] = k /\ Exists(r)
  BY <1>1 DEF Table, Found
<1>3. Shaped(new)
  BY <1>2 DEF Shaped, EditViews, ActionViews
<1>4. req' = [req EXCEPT ![w] = new] /\ UNCHANGED <<row, told>>
  BY <1>1 DEF LoadForAction, Begin
<1> HIDE DEF new
<1>q. QED
  BY <1>3, <1>4, ShapedRequest
LEMMA ShapedCourt ==
    ASSUME RecordsInv, ColumnsInv, NEW w \in Workers, CourtUpdateView(w) \/ update_court(w)
    PROVE  ColumnsInv'
<1>0. "CourtUpdateView" \in EditViews /\ KindOfView["CourtUpdateView"] = "court"
  BY DEF EditViews, KindOfView
<1>1. CASE CourtUpdateView(w)
  <2>1. PICK r \in Table["court"], s \in Lifecycle["court"], v \in Values :
           Found(r) /\ LoadForEdit(w, "CourtUpdateView", r, Fresh(s, v))
    BY <1>1 DEF CourtUpdateView
  <2>2. r \in Records /\ Fresh(s, v).value = v
    BY KindsAreListed DEF Table, Fresh
  <2>q. QED
    BY <1>0, <2>1, <2>2, ShapedEditLoad
<1>2. ASSUME SaveWhole(w, "CourtUpdateView",
                       [Edited(w) EXCEPT !.status = req[w].input.status])
      PROVE  ColumnsInv'
  <2> DEFINE r == req[w].rec
             x == [Edited(w) EXCEPT !.status = req[w].input.status]
  <2>1. Serving(w, "CourtUpdateView") /\ Write(w, r, x, told[r])
    BY <1>2 DEF SaveWhole
  <2>2. /\ r \in Records /\ KindOf[r] = "court" /\ KindOf[r] \in DOMAIN Lifecycle
        /\ req[w].copy \in Columns[KindOf[r]] /\ req[w].input.value \in Values
    BY <1>0, <2>1, ShapedServing DEF Shaped, Serving
  <2>3. req[w].input.status \in Lifecycle["court"]
    BY <2>1 DEF RecordsInv, Fits, Serving
  <2>4. Edited(w) \in Columns[KindOf[r]]
    BY <2>2, ColumnsSet DEF Edited
  <2>5. x \in Columns[KindOf[r]]
    BY <2>2, <2>3, <2>4, ColumnsSet
  <2> HIDE DEF r, x
  <2>q. QED
    BY <2>1, <2>2, <2>5, ShapedWrite
<1>q. QED
  BY <1>0, <1>1, <1>2, ShapedCompare DEF update_court

LEMMA ShapedDocument ==
    ASSUME RecordsInv, ColumnsInv, NEW w \in Workers,
           StoreBlob(w) \/ create_document(w) \/ update_document(w)
    PROVE  ColumnsInv'
<1>1. CASE StoreBlob(w)
  <2>1. PICK new : /\ new.view = "DocumentUploadView"
                   /\ req' = [req EXCEPT ![w] = new] /\ UNCHANGED <<row, told>>
    BY <1>1 DEF StoreBlob
  <2>2. Shaped(new)
    BY <2>1 DEF Shaped, EditViews, ActionViews
  <2>q. QED
    BY <2>1, <2>2, ShapedRequest
<1>2. CASE create_document(w)
  <2>1. req[w] \in Request /\ Fits(req[w]) /\ req[w].view = "DocumentUploadView"
    BY <1>2 DEF create_document, Serving, RecordsInv, RecordsTypeOK
  <2>2. req[w].rec \in Records /\ req[w].input \in FirstRows[req[w].rec]
    BY <2>1, RequestShapes DEF Fits
  <2>q. QED
    BY <1>2, <2>2, FirstRowsShaped, ShapedWrite DEF create_document
<1>3. ASSUME SaveWhole(w, "DocumentUpdateView",
                       [row[req[w].rec] EXCEPT !.value = req[w].input.value])
      PROVE  ColumnsInv'
  <2> DEFINE r == req[w].rec
             x == [row[r] EXCEPT !.value = req[w].input.value]
  <2>1. Serving(w, "DocumentUpdateView") /\ Write(w, r, x, told[r])
    BY <1>3 DEF SaveWhole
  <2>2. /\ r \in Records /\ KindOf[r] \in DOMAIN Lifecycle
        /\ row[r] \in Columns[KindOf[r]] /\ req[w].input.value \in Values
    BY <2>1, ShapedServing DEF Shaped, Serving, EditViews
  <2>3. x \in Columns[KindOf[r]]
    BY <2>2, ColumnsSet
  <2> HIDE DEF r, x
  <2>q. QED
    BY <2>1, <2>2, <2>3, ShapedWrite
<1>q. QED
  BY <1>1, <1>2, <1>3, ShapedCompare DEF update_document, EditViews

LEMMA ShapedHeldOrExpired ==
    ASSUME RecordsInv, ColumnsInv, HeldOrExpired
    PROVE  ColumnsInv'
<1>1. PICK r \in Table["hearing"] \cup Table["contract"] :
        /\ \/ row[r] = NoRow /\ \E x \in FirstRows[r] : row' = [row EXCEPT ![r] = x]
           \/ /\ row[r].status \in DOMAIN Moves
              /\ \E s \in Moves[row[r].status] : row' = [row EXCEPT ![r].status = s]
        /\ told' = [told EXCEPT ![r] = Life(row'[r])] /\ UNCHANGED req
  BY DEF HeldOrExpired
<1>2. /\ r \in Records /\ KindOf[r] \in {"hearing", "contract"}
      /\ KindOf[r] \in DOMAIN Lifecycle /\ row \in [Records -> Row]
  BY KindsAreListed DEF Table, RecordsInv, RecordsTypeOK
<1>3. PICK x \in Columns[KindOf[r]] : row' = [row EXCEPT ![r] = x]
  <2>1. CASE \E x \in FirstRows[r] : row' = [row EXCEPT ![r] = x]
    BY <1>2, <2>1, FirstRowsShaped
  <2>2. ASSUME row[r].status \in DOMAIN Moves, NEW s \in Moves[row[r].status],
               row' = [row EXCEPT ![r].status = s]
        PROVE  \E x \in Columns[KindOf[r]] : row' = [row EXCEPT ![r] = x]
    <3>1. row[r].status \in {"scheduled", "draft", "active", "expired"}
      BY <2>2 DEF Moves
    <3>2. row[r] \in Columns[KindOf[r]]
      BY <1>2, <3>1 DEF ColumnsInv, ColumnsKept, Exists
    <3>3. row[r].status \in Lifecycle[KindOf[r]]
      BY <1>2, <3>2, ColumnsSet
    <3>4. s \in Lifecycle[KindOf[r]]
      BY <1>2, <2>2, <3>1, <3>3 DEF Moves, Lifecycle
    <3>5. [row[r] EXCEPT !.status = s] \in Columns[KindOf[r]]
      BY <1>2, <3>2, <3>4, ColumnsSet
    <3>q. QED
      BY <1>2, <2>2, <3>5
  <2>q. QED
    BY <1>1, <2>1, <2>2
<1>4. x.status # "absent"
  BY <1>2, ColumnsSet, StatusesOfKind, AbsentIsNoStatus
<1>5. ColumnsKept' /\ LoggedExist'
  <2>1. told \in [Records -> Lives]
    BY DEF RecordsInv, RecordsTypeOK, Lives
  <2>q. QED
    BY <1>1, <1>2, <1>3, <1>4, <2>1 DEF ColumnsInv, ColumnsKept, LoggedExist, Exists
<1>6. ASSUME NEW w \in Workers PROVE Shaped(req[w])'
  <2>1. req'[w] = req[w] /\ Shaped(req[w]) /\ req[w] \in Request
    BY <1>1 DEF ColumnsInv, RecordsInv, RecordsTypeOK
  <2>2. req[w].view \in EditViews \cup ActionViews => req[w].rec \in Records
    BY <2>1, RequestShapes
  <2>3. \A s \in Records : Exists(s) => Exists(s)'
    BY <1>2, <1>3, <1>4 DEF Exists
  <2>q. QED
    BY <2>1, <2>2, <2>3 DEF Shaped
<1>q. QED
  BY <1>5, <1>6 DEF ColumnsInv

LEMMA ShapedEditedThere ==
    ASSUME RecordsInv, ColumnsInv, EditedThere
    PROVE  ColumnsInv'
<1>1. PICK r \in Table["hearing"] \cup Table["contract"] :
        /\ Exists(r)
        /\ \E s \in Lifecycle[KindOf[r]], v \in Values :
              row' = [row EXCEPT ![r].status = s, ![r].value = v]
        /\ UNCHANGED <<told, req>>
  BY DEF EditedThere
<1>2. PICK s \in Lifecycle[KindOf[r]], v \in Values :
        row' = [row EXCEPT ![r].status = s, ![r].value = v]
  BY <1>1
<1>3. /\ r \in Records /\ KindOf[r] \in DOMAIN Lifecycle
      /\ row \in [Records -> Row] /\ row[r] \in Columns[KindOf[r]]
  BY <1>1, KindsAreListed DEF Table, RecordsInv, RecordsTypeOK, ColumnsInv, ColumnsKept
<1> DEFINE x == [[row[r] EXCEPT !.status = s] EXCEPT !.value = v]
<1>4. x \in Columns[KindOf[r]]
  <2>1. [row[r] EXCEPT !.status = s] \in Columns[KindOf[r]]
    BY <1>3, ColumnsSet
  <2>q. QED
    BY <1>3, <2>1, ColumnsSet
<1>5. row' = [row EXCEPT ![r] = x]
  BY <1>2, <1>3
<1> HIDE DEF x
<1>6. x.status # "absent"
  BY <1>3, <1>4, ColumnsSet, StatusesOfKind, AbsentIsNoStatus
<1>7. ColumnsKept' /\ LoggedExist'
  BY <1>1, <1>3, <1>4, <1>5, <1>6 DEF ColumnsInv, ColumnsKept, LoggedExist, Exists
<1>8. ASSUME NEW w \in Workers PROVE Shaped(req[w])'
  <2>1. req'[w] = req[w] /\ Shaped(req[w]) /\ req[w] \in Request
    BY <1>1 DEF ColumnsInv, RecordsInv, RecordsTypeOK
  <2>2. req[w].view \in EditViews \cup ActionViews => req[w].rec \in Records
    BY <2>1, RequestShapes
  <2>3. \A o \in Records : Exists(o) => Exists(o)'
    BY <1>3, <1>5, <1>6 DEF Exists
  <2>q. QED
    BY <2>1, <2>2, <2>3 DEF Shaped
<1>q. QED
  BY <1>7, <1>8 DEF ColumnsInv

LEMMA ShapedEditServices ==
    ASSUME RecordsInv, ColumnsInv, NEW w \in Workers,
           \/ update_task(w) \/ update_deadline(w) \/ update_case(w)
           \/ update_client(w) \/ update_expense(w)
    PROVE  ColumnsInv'
<1>1. {"TaskUpdateView", "DeadlineUpdateView", "CaseUpdateView", "ClientUpdateView",
       "ExpenseUpdateView"} \subseteq EditViews
  BY DEF EditViews
<1>2. CASE update_task(w)
  BY <1>1, <1>2, ShapedCompare, ShapedSaveWhole DEF update_task
<1>3. CASE update_deadline(w)
  BY <1>1, <1>3, ShapedCompare, ShapedSaveWhole DEF update_deadline
<1>4. CASE update_case(w)
  BY <1>1, <1>4, ShapedCompare, ShapedSaveWhole DEF update_case
<1>5. CASE update_client(w)
  BY <1>1, <1>5, ShapedCompare, ShapedSaveWhole DEF update_client
<1>6. CASE update_expense(w)
  BY <1>1, <1>6, ShapedCompare, ShapedSaveWhole DEF update_expense
<1>q. QED
  BY <1>2, <1>3, <1>4, <1>5, <1>6

LEMMA ShapedStatusServices ==
    ASSUME RecordsInv, ColumnsInv, NEW w \in Workers,
           \/ change_task_status(w) \/ change_deadline_status(w) \/ change_status(w)
           \/ archive_client(w) \/ restore_client(w) \/ set_active(w)
    PROVE  ColumnsInv'
<1>1. ASSUME NEW view \in ActionViews, Serving(w, view)
      PROVE  req[w].input \in Lifecycle[KindOfView[view]]
  BY <1>1, ShapedServing DEF Shaped, Serving
<1>2. CASE change_task_status(w)
  <2>1. "task_status" \in ActionViews /\ KindOfView["task_status"] = "task"
    BY DEF ActionViews, KindOfView
  <2>2. /\ Serving(w, "task_status")
        /\ (Leave(w) \/ SetStatus(w, req[w].rec, req[w].input, req[w].input = "done"))
    BY <1>2 DEF change_task_status
  <2>3. req[w].input \in Lifecycle["task"]
    BY <1>1, <2>1, <2>2
  <2>q. QED
    BY <2>1, <2>2, <2>3, (req[w].input = "done") \in BOOLEAN, ShapedStatus, ShapedLeave
<1>3. CASE change_deadline_status(w)
  <2>1. "deadline_status" \in ActionViews /\ KindOfView["deadline_status"] = "deadline"
    BY DEF ActionViews, KindOfView
  <2>2. /\ Serving(w, "deadline_status")
        /\ \/ Leave(w)
           \/ SetStatus(w, req[w].rec, req[w].input, req[w].input \in {"met", "missed"})
    BY <1>3 DEF change_deadline_status
  <2>3. req[w].input \in Lifecycle["deadline"]
    BY <1>1, <2>1, <2>2
  <2>q. QED
    BY <2>1, <2>2, <2>3, (req[w].input \in {"met", "missed"}) \in BOOLEAN,
       ShapedStatus, ShapedLeave
<1>4. CASE change_status(w)
  <2>1. "case_status" \in ActionViews /\ KindOfView["case_status"] = "case"
    BY DEF ActionViews, KindOfView
  <2>2. /\ Serving(w, "case_status")
        /\ (Leave(w) \/ SetStatus(w, req[w].rec, req[w].input, FALSE))
    BY <1>4 DEF change_status
  <2>3. req[w].input \in Lifecycle["case"]
    BY <1>1, <2>1, <2>2
  <2>q. QED
    BY <2>1, <2>2, <2>3, (FALSE) \in BOOLEAN, ShapedStatus, ShapedLeave
<1>5. CASE archive_client(w)
  <2>1. "client_archive" \in ActionViews /\ KindOfView["client_archive"] = "client"
    BY DEF ActionViews, KindOfView
  <2>2. /\ Serving(w, "client_archive")
        /\ (Leave(w) \/ SetStatus(w, req[w].rec, "archived", FALSE))
    BY <1>5 DEF archive_client
  <2>3. "archived" \in Lifecycle["client"]
    BY <1>1, <2>1, <2>2 DEF Lifecycle, ClientStatus
  <2>q. QED
    BY <2>1, <2>2, <2>3, (FALSE) \in BOOLEAN, ShapedStatus, ShapedLeave
<1>6. CASE restore_client(w)
  <2>1. "client_restore" \in ActionViews /\ KindOfView["client_restore"] = "client"
    BY DEF ActionViews, KindOfView
  <2>2. /\ Serving(w, "client_restore")
        /\ (Leave(w) \/ SetStatus(w, req[w].rec, "active", FALSE))
    BY <1>6 DEF restore_client
  <2>3. "active" \in Lifecycle["client"]
    BY <1>1, <2>1, <2>2 DEF Lifecycle, ClientStatus
  <2>q. QED
    BY <2>1, <2>2, <2>3, (FALSE) \in BOOLEAN, ShapedStatus, ShapedLeave
<1>7. CASE set_active(w)
  <2>1. "court_set_active" \in ActionViews /\ KindOfView["court_set_active"] = "court"
    BY DEF ActionViews, KindOfView
  <2>2. /\ Serving(w, "court_set_active")
        /\ (Leave(w) \/ SetStatus(w, req[w].rec, req[w].input, FALSE))
    BY <1>7 DEF set_active
  <2>3. req[w].input \in Lifecycle["court"]
    BY <1>1, <2>1, <2>2
  <2>q. QED
    BY <2>1, <2>2, <2>3, (FALSE) \in BOOLEAN, ShapedStatus, ShapedLeave
<1>q. QED
  BY <1>2, <1>3, <1>4, <1>5, <1>6, <1>7

LEMMA ShapedServices ==
    ASSUME RecordsInv, ColumnsInv, NEW w \in Workers, Service(w)
    PROVE  ColumnsInv'
<1>1. CASE \/ create_task(w) \/ create_deadline(w) \/ create_case(w)
           \/ create_client(w) \/ create_court(w) \/ create_expense(w)
  BY <1>1, KindsAreListed, ShapedCreates
     DEF create_task, create_deadline, create_case, create_client, create_court,
         create_expense
<1>2. CASE delete_task(w) \/ retire_document(w) \/ retire_expense(w)
  BY <1>2, ShapedRetire DEF delete_task, retire_document, retire_expense
<1>q. QED
  BY <1>1, <1>2, ShapedEditServices, ShapedStatusServices, ShapedCourt, ShapedDocument
  DEF Service

LEMMA ShapedViews ==
    ASSUME RecordsInv, ColumnsInv, NEW w \in Workers, View(w)
    PROVE  ColumnsInv'
<1>1. ASSUME \/ TaskUpdateView(w) \/ DeadlineUpdateView(w) \/ CaseUpdateView(w)
             \/ ClientUpdateView(w) \/ DocumentUpdateView(w) \/ ExpenseUpdateView(w)
      PROVE  ColumnsInv'
  <2>1. /\ {"TaskUpdateView", "DeadlineUpdateView", "CaseUpdateView", "ClientUpdateView",
            "DocumentUpdateView", "ExpenseUpdateView"} \subseteq EditViews
        /\ {"task", "deadline", "case", "client", "document", "expense"}
              \subseteq DOMAIN Lifecycle
    BY KindsAreListed DEF EditViews
  <2>q. QED
    BY <1>1, <2>1, ShapedEditView
    DEF TaskUpdateView, DeadlineUpdateView, CaseUpdateView, ClientUpdateView,
        DocumentUpdateView, ExpenseUpdateView
<1>2. ASSUME \/ task_status(w) \/ task_delete(w) \/ deadline_status(w) \/ case_status(w)
             \/ client_archive(w) \/ client_restore(w) \/ court_set_active(w)
             \/ document_retire(w) \/ expense_retire(w)
      PROVE  ColumnsInv'
  <2>1. /\ {"task_status", "task_delete", "deadline_status", "case_status",
            "client_archive", "client_restore", "court_set_active", "document_retire",
            "expense_retire"} \subseteq ActionViews
        /\ {"task", "deadline", "case", "client", "court", "document", "expense"}
              \subseteq DOMAIN Lifecycle
    BY KindsAreListed DEF ActionViews
  <2>2. /\ {"done"} \subseteq Lifecycle["task"]
        /\ {"archived"} \subseteq Lifecycle["client"]
        /\ {"active"} \subseteq Lifecycle["client"]
        /\ {"kept"} \subseteq Lifecycle["document"]
        /\ {"kept"} \subseteq Lifecycle["expense"]
    BY DEF Lifecycle, TaskStatus, ClientStatus
  <2>q. QED
    BY <1>2, <2>1, <2>2, ShapedActionView
    DEF task_status, task_delete, deadline_status, case_status, client_archive,
        client_restore, court_set_active, document_retire, expense_retire
<1>q. QED
  BY <1>1, <1>2, ShapedCourt DEF View

LEMMA ColumnsInit == RecordsInit => ColumnsInv
<1> SUFFICES ASSUME RecordsInit PROVE ColumnsInv
  OBVIOUS
<1>1. ASSUME NEW r \in Records, Exists(r) PROVE row[r] \in Columns[KindOf[r]]
  BY <1>1, FirstRowsShaped DEF RecordsInit, Exists, NoRow
<1>2. LoggedExist
  BY DEF RecordsInit, LoggedExist, Exists, Life
<1>q. QED
  BY <1>1, <1>2, ShapedIdle DEF RecordsInit, ColumnsInv, ColumnsKept

(* Every step keeps the columns of the rows, and logs what is there only.   *)
LEMMA ColumnsInvHolds == RecordsSpec => []ColumnsInv
<1>1. RecordsInv /\ ColumnsInv /\ [RecordsNext]_recordVars => ColumnsInv'
  <2> SUFFICES ASSUME RecordsInv, ColumnsInv, [RecordsNext]_recordVars
               PROVE  ColumnsInv'
    OBVIOUS
  <2>1. ASSUME NEW w \in Workers, Service(w) \/ View(w) \/ Abandon(w)
        PROVE  ColumnsInv'
    BY <2>1, ShapedServices, ShapedViews, ShapedLeave DEF Abandon
  <2>2. CASE UNCHANGED recordVars
    BY <2>2 DEF ColumnsInv, ColumnsKept, LoggedExist, Exists, Shaped, recordVars
  <2>q. QED
    BY <2>1, <2>2, ShapedHeldOrExpired, ShapedEditedThere DEF RecordsNext
<1>q. QED
  BY ColumnsInit, <1>1, RecordsInvariant, PTL DEF RecordsSpec

(* Rows keep the columns of their table whatever copies are saved whole     *)
(* (update_task and its like), and with them a status of their own table.   *)
THEOREM ColumnsInvariant == RecordsSpec => []ColumnsKept
<1>1. ColumnsInv => ColumnsKept
  BY DEF ColumnsInv
<1>q. QED
  BY <1>1, ColumnsInvHolds, PTL

(* What the log tells of was created, and no row is ever taken out of its   *)
(* table: a deletion only marks it (delete_task, retire_document).          *)
LEMMA LoggedIsThere == RecordsSpec => []LoggedExist
<1>1. ColumnsInv => LoggedExist
  BY DEF ColumnsInv
<1>q. QED
  BY <1>1, ColumnsInvHolds, PTL

(* Reading pages, keeping the books and staffing a case leave the records   *)
(* to the steps of OfficeRecords (Office composes them).                    *)
THEOREM OfficeImplementsRecords == OfficeSpec => RecordsSpec
<1>1. OfficeInit => RecordsInit
  BY DEF OfficeInit
<1>2. [OfficeNext]_officeVars => [RecordsNext]_recordVars
  BY DEF OfficeNext, EditRecords, EditBooks, EditTeam, Read, officeVars
<1>q. QED
  BY <1>1, <1>2, PTL DEF OfficeSpec, RecordsSpec

(* The tables of the records and the requests keep their shape.             *)
THEOREM RecordsTypeCorrect == OfficeSpec => []RecordsTypeOK
BY RecordsInvariant, OfficeImplementsRecords, PTL DEF RecordsInv

(* The moment of completion is stamped exactly on the rows whose status has *)
(* one (change_task_status, update_task and their like for deadlines).      *)
THEOREM StampsAreRight == OfficeSpec => []StampMatchesStatus
BY RecordsInvariant, OfficeImplementsRecords, PTL DEF RecordsInv

(* The audit log tells the status and the deletion of every record that was *)
(* not changed while an edit held a copy of it (update_task, update_case,   *)
(* update_client, update_expense).                                          *)
THEOREM LogIsComplete == OfficeSpec => []LogTellsRow
BY RecordsInvariant, OfficeImplementsRecords, PTL DEF RecordsInv

(* Every document row has its blob (create_document, retire_document).      *)
THEOREM FilesAreThere == OfficeSpec => []RowsHaveFiles
BY RecordsInvariant, OfficeImplementsRecords, PTL DEF RecordsInv

-----------------------------------------------------------------------------
(* A step of a clerk keeps what the timeline of the case tells.             *)
LEMMA TeamStepHolds ==
    TeamTypeOK /\ TimelineTellsTeam /\ [TeamNext]_teamVars
        => (TeamTypeOK /\ TimelineTellsTeam)'
<1> SUFFICES ASSUME TeamTypeOK, TimelineTellsTeam, [TeamNext]_teamVars
             PROVE  TeamTypeOK' /\ TimelineTellsTeam'
  OBVIOUS
<1> USE DEF TeamTypeOK, TimelineTellsTeam
<1>1. ASSUME NEW c \in Clerks, NEW l \in Lawyers, SelectLink(c, l)
      PROVE  TeamTypeOK' /\ TimelineTellsTeam'
  BY <1>1 DEF SelectLink, Seats
<1>2. ASSUME NEW c \in Clerks, NEW l \in Lawyers, remove_supporting_lawyer(c, l)
      PROVE  TeamTypeOK' /\ TimelineTellsTeam'
  BY <1>2 DEF remove_supporting_lawyer
<1>3. ASSUME NEW c \in Clerks, NEW p \in Parties, add_party(c, p)
      PROVE  TeamTypeOK' /\ TimelineTellsTeam'
  BY <1>3 DEF add_party
<1>4. ASSUME NEW c \in Clerks, NEW p \in Parties, case_party_remove(c, p)
      PROVE  TeamTypeOK' /\ TimelineTellsTeam'
  BY <1>4 DEF case_party_remove, Seats
<1>5. ASSUME NEW c \in Clerks, InsertLink(c)
      PROVE  TeamTypeOK' /\ TimelineTellsTeam'
  <2>1. seat[c].lawyer \in Lawyers
    BY <1>5 DEF InsertLink, Seats, Away
  <2>q. QED
    BY <1>5, <2>1 DEF InsertLink, Seats
<1>6. ASSUME NEW c \in Clerks, remove_party(c)
      PROVE  TeamTypeOK' /\ TimelineTellsTeam'
  <2>1. seat[c].party \in Parties
    BY <1>6 DEF remove_party, Seats, Away
  <2>q. QED
    BY <1>6, <2>1 DEF remove_party, Seats
<1>7. ASSUME NEW c \in Clerks, StandUp(c)
      PROVE  TeamTypeOK' /\ TimelineTellsTeam'
  BY <1>7 DEF StandUp, Seats
<1>8. CASE UNCHANGED teamVars
  BY <1>8 DEF teamVars
<1>q. QED
  BY <1>1, <1>2, <1>3, <1>4, <1>5, <1>6, <1>7, <1>8 DEF TeamNext

(* The team and its timeline in every state of the office.                  *)
LEMMA TeamInvariant == OfficeSpec => [](TeamTypeOK /\ TimelineTellsTeam)
<1>1. OfficeInit => TeamTypeOK /\ TimelineTellsTeam
  BY DEF OfficeInit, TeamInit, TeamTypeOK, TimelineTellsTeam, Seats
<1>2. [OfficeNext]_officeVars => [TeamNext]_teamVars
  BY DEF OfficeNext, EditRecords, EditBooks, EditTeam, Read, officeVars
<1>q. QED
  BY <1>1, <1>2, TeamStepHolds, PTL DEF OfficeSpec

(* The timeline tells who supports a case and which parties are gone, for   *)
(* any number of clerks (add_supporting_lawyer, remove_party).              *)
THEOREM TimelineIsComplete == OfficeSpec => []TimelineTellsTeam
BY TeamInvariant, PTL

-----------------------------------------------------------------------------
(* What the reports add up does what Receivable allows: the transactions of *)
(* finance/services.py that write the rows a report reads refine it.        *)
THEOREM BooksImplementReceivable == OfficeSpec => RSpec
<1>1. OfficeInit => RInit
  BY DEF OfficeInit, BooksInit
<1>2. [OfficeNext]_officeVars => [RNext]_rvars
  <2>1. BooksNext => [RNext]_rvars
    BY DEF BooksNext, RNext, rvars, issue_invoice, cancel_invoice, record_payment,
       reverse_payment, issue_credit_note
  <2>q. QED
    BY <2>1 DEF OfficeNext, EditRecords, EditBooks, EditTeam, Read, officeVars,
       bookVars, rvars
<1>q. QED
  BY <1>1, <1>2, PTL DEF OfficeSpec, RSpec

(* The amount an invoice carries is the payment rows less the reversal rows *)
(* the payment report adds up (record_payment, reverse_payment).            *)
BooksInv ==
    /\ collected \in [Invoices -> Int]
    /\ gross \in [Invoices -> Int]
    /\ reversed \in [Invoices -> Int]
    /\ \A i \in Invoices : collected[i] = gross[i] - reversed[i]

THEOREM PaidIsRowsLessReversals == OfficeSpec => []BooksInv
<1>1. OfficeInit => BooksInv
  BY DEF OfficeInit, BooksInit, RInit, BooksInv
<1>2. BooksInv /\ [OfficeNext]_officeVars => BooksInv'
  <2> SUFFICES ASSUME BooksInv, [OfficeNext]_officeVars PROVE BooksInv'
    OBVIOUS
  <2>1. ASSUME NEW i \in Invoices, record_payment(i) PROVE BooksInv'
    BY <2>1, AmountsAssumption DEF BooksInv, record_payment
  <2>2. ASSUME NEW i \in Invoices, reverse_payment(i) PROVE BooksInv'
    BY <2>2, AmountsAssumption DEF BooksInv, reverse_payment
  <2>3. ASSUME NEW i \in Invoices,
               issue_invoice(i) \/ cancel_invoice(i) \/ issue_credit_note(i)
        PROVE  BooksInv'
    BY <2>3 DEF BooksInv, issue_invoice, cancel_invoice, issue_credit_note, Bill, Waive
  <2>4. CASE UNCHANGED bookVars
    BY <2>4 DEF BooksInv, bookVars
  <2>q. QED
    BY <2>1, <2>2, <2>3, <2>4 DEF OfficeNext, EditRecords, EditBooks, EditTeam, Read,
       officeVars, BooksNext
<1>q. QED
  BY <1>1, <1>2, PTL DEF OfficeSpec
=============================================================================
