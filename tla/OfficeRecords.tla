--------------------------- MODULE OfficeRecords ---------------------------
(***************************************************************************)
(* The records the office edits through plain forms: tasks, deadlines,      *)
(* cases, clients, courts, documents and expenses.  A web request loads a   *)
(* row in its view, outside any transaction, and hands the instance to a    *)
(* service (services.py of each app), which writes it in one.  No row is    *)
(* locked.  An edit compares the posted value with the row as it is then,   *)
(* but saves every column of the instance the view loaded; a status change  *)
(* saves its own columns only.                                             *)
(*                                                                         *)
(* A row is its status, whether the moment of completion is stamped,        *)
(* whether it is retired (deleted_at) and one value standing for the other  *)
(* fields.  Hearings and contracts have modules of their own; here they     *)
(* are rows whose status and date move, for the pages that list them.      *)
(***************************************************************************)
EXTENDS Naturals, FiniteSets

CONSTANTS
    Workers,    \* web processes, each serving one request at a time
    Records,    \* primary keys, of every table
    KindOf,     \* the table a record belongs to
    Values      \* what the other fields of a row can hold

VARIABLES
    row,    \* the tables, as committed
    told,   \* what the last audited change of a record says it became
    raced,  \* history: records changed while an edit of them held a copy
    files,  \* the documents whose blob is in the storage
    req     \* what each worker is serving

recordVars == <<row, told, raced, files, req>>

-----------------------------------------------------------------------------
TaskStatus == {"new", "in_progress", "done", "cancelled"}
DeadlineStatus == {"pending", "met", "missed", "cancelled"}
CaseStatus == {"new", "in_progress", "in_trial", "on_hold", "concluded", "closed"}
ClientStatus == {"active", "inactive", "prospect", "archived"}

Lifecycle ==
    [task     |-> TaskStatus,
     deadline |-> DeadlineStatus,
     case     |-> CaseStatus,
     client   |-> ClientStatus,
     court    |-> {"active", "inactive"},
     document |-> {"kept"},
     expense  |-> {"kept"},
     hearing  |-> {"scheduled", "held", "postponed", "cancelled"},
     contract |-> {"draft", "active", "expired", "cancelled"}]

(* The statuses a create service or form gives a new row.                   *)
FirstStatuses ==
    [task     |-> {"new"},
     deadline |-> {"pending"},
     case     |-> {"new"},
     client   |-> ClientStatus,
     court    |-> {"active", "inactive"},
     document |-> {"kept"},
     expense  |-> {"kept"},
     hearing  |-> {"scheduled"},
     contract |-> {"draft", "active"}]

ASSUME KindsAssumption ==
    /\ KindOf \in [Records -> DOMAIN Lifecycle]
    /\ Values \subseteq Nat

(* A key is a 64-bit integer, an amount a decimal of twelve digits.         *)
ASSUME TablesAreFinite == IsFiniteSet(Records) /\ IsFiniteSet(Values)

Table == [k \in DOMAIN Lifecycle |-> {r \in Records : KindOf[r] = k}]

AllStatuses == UNION {Lifecycle[k] : k \in DOMAIN Lifecycle}

(* The moment a task is completed, or a deadline met or missed, is stamped; *)
(* every other status has no such moment.                                   *)
Finished(k) ==
    IF k = "task" THEN {"done"} ELSE IF k = "deadline" THEN {"met", "missed"} ELSE {}

(* The columns each table has: only tasks and deadlines are stamped, only   *)
(* tasks, documents and expenses are retired.                               *)
Task == [status : TaskStatus, stamp : BOOLEAN, gone : BOOLEAN, value : Values]
Deadline == [status : DeadlineStatus, stamp : BOOLEAN, gone : {FALSE}, value : Values]
Case == [status : CaseStatus, stamp : {FALSE}, gone : {FALSE}, value : Values]
Client == [status : ClientStatus, stamp : {FALSE}, gone : {FALSE}, value : Values]
Court == [status : Lifecycle["court"], stamp : {FALSE}, gone : {FALSE}, value : Values]
Document == [status : {"kept"}, stamp : {FALSE}, gone : BOOLEAN, value : Values]
Expense == [status : {"kept"}, stamp : {FALSE}, gone : BOOLEAN, value : Values]
Listed(k) == [status : Lifecycle[k], stamp : {FALSE}, gone : {FALSE}, value : Values]

Columns ==
    [task |-> Task, deadline |-> Deadline, case |-> Case, client |-> Client,
     court |-> Court, document |-> Document, expense |-> Expense,
     hearing |-> Listed("hearing"), contract |-> Listed("contract")]

Row == [status : AllStatuses \cup {"absent"}, stamp : BOOLEAN,
        gone : BOOLEAN, value : Values \cup {0}]

NoRow == [status |-> "absent", stamp |-> FALSE, gone |-> FALSE, value |-> 0]

Fresh(s, v) == [status |-> s, stamp |-> FALSE, gone |-> FALSE, value |-> v]

FirstRows ==
    [r \in Records |-> {Fresh(s, v) : s \in FirstStatuses[KindOf[r]], v \in Values}]

Life(x) == [status |-> x.status, gone |-> x.gone]

Exists(r) == row[r].status # "absent"

Idle == [view |-> "none"]

EditViews == {"TaskUpdateView", "DeadlineUpdateView", "CaseUpdateView",
              "ClientUpdateView", "CourtUpdateView", "DocumentUpdateView",
              "ExpenseUpdateView"}

ActionViews == {"task_status", "task_delete", "deadline_status", "case_status",
                "client_archive", "client_restore", "court_set_active",
                "document_retire", "expense_retire"}

(* The edits that save every column: all but that of a document.            *)
WholeRowViews == EditViews \ {"DocumentUpdateView"}

Request ==
    {Idle}
    \cup [view : EditViews, step : {"loaded", "diffed"}, rec : Records,
          copy : Row, input : Row]
    \cup [view : ActionViews, rec : Records, copy : Row, input : AllStatuses]
    \cup [view : {"DocumentUploadView"}, rec : Records, input : Row]

RecordsInit ==
    /\ row \in [Records -> Row]
    /\ \A r \in Records : row[r] \in {NoRow} \cup FirstRows[r]
    /\ told = [r \in Records |-> Life(row[r])]
    /\ raced = {}
    /\ files = {r \in Table["document"] : Exists(r)}
    /\ req = [w \in Workers |-> Idle]

-----------------------------------------------------------------------------
(* The steps every app shares.                                              *)

Serving(w, view) == req[w].view = view

Begin(w, new) ==
    /\ req[w] = Idle
    /\ req' = [req EXCEPT ![w] = new]
    /\ UNCHANGED <<row, told, raced, files>>

(* The view fetches the row of an edit form posted with the value v.        *)
LoadForEdit(w, view, r, x) ==
    Begin(w, [view |-> view, step |-> "loaded", rec |-> r, copy |-> row[r],
              input |-> x])

LoadForAction(w, view, r, s) ==
    Begin(w, [view |-> view, rec |-> r, copy |-> row[r], input |-> s])

Leave(w) ==
    /\ req' = [req EXCEPT ![w] = Idle]
    /\ UNCHANGED <<row, told, raced, files>>

(* The request of w ends with a committed write of its record; the audit    *)
(* event written with it says the record became `said`.                     *)
Write(w, r, x, said) ==
    /\ row' = [row EXCEPT ![r] = x]
    /\ told' = [told EXCEPT ![r] = said]
    /\ raced' = IF /\ Life(x) # Life(row[r])
                   /\ \E o \in Workers \ {w} :
                         req[o].view \in WholeRowViews /\ req[o].rec = r
                THEN raced \cup {r} ELSE raced
    /\ req' = [req EXCEPT ![w] = Idle]
    /\ UNCHANGED files

(* update_*: the posted fields are compared with the stored row.            *)
Compare(w, view, same) ==
    /\ Serving(w, view)
    /\ req[w].step = "loaded"
    /\ IF same THEN Leave(w)
       ELSE /\ req' = [req EXCEPT ![w].step = "diffed"]
            /\ UNCHANGED <<row, told, raced, files>>

SameValue(w) == row[req[w].rec].value = req[w].input.value

(* update_*: the posted fields are set on the loaded instance, and it is    *)
(* saved whole.  The audit event names fields, never a status.              *)
SaveWhole(w, view, x) ==
    /\ Serving(w, view)
    /\ req[w].step = "diffed"
    /\ Write(w, req[w].rec, x, told[req[w].rec])

Edited(w) == [req[w].copy EXCEPT !.value = req[w].input.value]

(* A status change writes its columns of the row, whatever the others hold. *)
SetStatus(w, r, s, stamped) ==
    LET x == [row[r] EXCEPT !.status = s, !.stamp = stamped]
    IN  Write(w, r, x, [told[r] EXCEPT !.status = s])

Retire(w, view) ==
    LET r == req[w].rec
    IN  /\ Serving(w, view)
        /\ IF req[w].copy.gone THEN Leave(w)
           ELSE Write(w, r, [row[r] EXCEPT !.gone = TRUE],
                      [told[r] EXCEPT !.gone = TRUE])

Create(w, r, x) ==
    /\ req[w] = Idle
    /\ ~Exists(r)
    /\ Write(w, r, x, Life(x))

Creates(w, k) == \E r \in Table[k] : \E x \in FirstRows[r] : Create(w, r, x)

(* A deleted task or a withdrawn document is not found; an expense is.      *)
Found(r) == Exists(r) /\ (KindOf[r] \in {"task", "document"} => ~row[r].gone)

EditLoad(w, view, k) ==
    \E r \in Table[k], v \in Values :
        Found(r) /\ LoadForEdit(w, view, r, [row[r] EXCEPT !.value = v])

ActionLoad(w, view, k, choices) ==
    \E r \in Table[k], s \in choices : Found(r) /\ LoadForAction(w, view, r, s)

-----------------------------------------------------------------------------
(* tasks: tasks/views.py and tasks/services.py                              *)

create_task(w) == Creates(w, "task")

TaskUpdateView(w) == EditLoad(w, "TaskUpdateView", "task")

update_task(w) ==
    \/ Compare(w, "TaskUpdateView", SameValue(w))
    \/ SaveWhole(w, "TaskUpdateView", Edited(w))

task_status(w) == ActionLoad(w, "task_status", "task", Lifecycle["task"])

(* Mutant: completed_at is left out of update_fields.                      *)
change_task_statusUnstamped(w) ==
    /\ Serving(w, "task_status")
    /\ SetStatus(w, req[w].rec, req[w].input, row[req[w].rec].stamp)

change_task_status(w) ==
    /\ Serving(w, "task_status")
    /\ LET s == req[w].input
       IN  IF req[w].copy.status = s THEN Leave(w)
           ELSE SetStatus(w, req[w].rec, s, s = "done")

task_delete(w) == ActionLoad(w, "task_delete", "task", {"done"})

delete_task(w) == Retire(w, "task_delete")

create_deadline(w) == Creates(w, "deadline")

DeadlineUpdateView(w) == EditLoad(w, "DeadlineUpdateView", "deadline")

update_deadline(w) ==
    \/ Compare(w, "DeadlineUpdateView", SameValue(w))
    \/ SaveWhole(w, "DeadlineUpdateView", Edited(w))

deadline_status(w) ==
    ActionLoad(w, "deadline_status", "deadline", Lifecycle["deadline"])

change_deadline_status(w) ==
    /\ Serving(w, "deadline_status")
    /\ LET s == req[w].input
       IN  IF req[w].copy.status = s THEN Leave(w)
           ELSE SetStatus(w, req[w].rec, s, s \in {"met", "missed"})

-----------------------------------------------------------------------------
(* cases: cases/views.py and cases/services.py                              *)

create_case(w) == Creates(w, "case")

CaseUpdateView(w) == EditLoad(w, "CaseUpdateView", "case")

update_case(w) ==
    \/ Compare(w, "CaseUpdateView", SameValue(w))
    \/ SaveWhole(w, "CaseUpdateView", Edited(w))

case_status(w) == ActionLoad(w, "case_status", "case", Lifecycle["case"])

change_status(w) ==
    /\ Serving(w, "case_status")
    /\ IF req[w].copy.status = req[w].input THEN Leave(w)
       ELSE SetStatus(w, req[w].rec, req[w].input, FALSE)

-----------------------------------------------------------------------------
(* clients and courts: an edit of a client drops the posted status, an edit *)
(* of a court may change it.                                                *)

create_client(w) == Creates(w, "client")

ClientUpdateView(w) == EditLoad(w, "ClientUpdateView", "client")

update_client(w) ==
    \/ Compare(w, "ClientUpdateView", SameValue(w))
    \/ SaveWhole(w, "ClientUpdateView", Edited(w))

client_archive(w) == ActionLoad(w, "client_archive", "client", {"archived"})

archive_client(w) ==
    /\ Serving(w, "client_archive")
    /\ IF req[w].copy.status = "archived" THEN Leave(w)
       ELSE SetStatus(w, req[w].rec, "archived", FALSE)

client_restore(w) == ActionLoad(w, "client_restore", "client", {"active"})

restore_client(w) ==
    /\ Serving(w, "client_restore")
    /\ IF req[w].copy.status # "archived" THEN Leave(w)
       ELSE SetStatus(w, req[w].rec, "active", FALSE)

create_court(w) == Creates(w, "court")

CourtUpdateView(w) ==
    \E r \in Table["court"], s \in Lifecycle["court"], v \in Values :
        Found(r) /\ LoadForEdit(w, "CourtUpdateView", r, Fresh(s, v))

update_court(w) ==
    \/ Compare(w, "CourtUpdateView",
               SameValue(w) /\ row[req[w].rec].status = req[w].input.status)
    \/ SaveWhole(w, "CourtUpdateView",
                 [Edited(w) EXCEPT !.status = req[w].input.status])

court_set_active(w) ==
    ActionLoad(w, "court_set_active", "court", Lifecycle["court"])

set_active(w) ==
    /\ Serving(w, "court_set_active")
    /\ IF req[w].copy.status = req[w].input THEN Leave(w)
       ELSE SetStatus(w, req[w].rec, req[w].input, FALSE)

-----------------------------------------------------------------------------
(* documents: the blob is written to the storage before the row commits,    *)
(* and stays when the document is withdrawn; only metadata can be edited.   *)

(* Mutant: the row is inserted first and the blob left for later.          *)
StoreBlobLater(w) ==
    \E r \in Table["document"] \ files : \E x \in FirstRows[r] :
        /\ req[w] = Idle
        /\ ~Exists(r)
        /\ req' = [req EXCEPT ![w] = [view |-> "DocumentUploadView",
                                      rec |-> r, input |-> x]]
        /\ UNCHANGED <<row, told, raced, files>>

StoreBlob(w) ==
    \E r \in Table["document"] \ files : \E x \in FirstRows[r] :
        /\ req[w] = Idle
        /\ files' = files \cup {r}
        /\ req' = [req EXCEPT ![w] = [view |-> "DocumentUploadView",
                                      rec |-> r, input |-> x]]
        /\ UNCHANGED <<row, told, raced>>

create_document(w) ==
    /\ Serving(w, "DocumentUploadView")
    /\ Write(w, req[w].rec, req[w].input, Life(req[w].input))

DocumentUpdateView(w) == EditLoad(w, "DocumentUpdateView", "document")

(* Mutant: save() without update_fields.                                   *)
update_documentWhole(w) ==
    \/ Compare(w, "DocumentUpdateView", SameValue(w))
    \/ SaveWhole(w, "DocumentUpdateView", Edited(w))

update_document(w) ==
    \/ Compare(w, "DocumentUpdateView", SameValue(w))
    \/ SaveWhole(w, "DocumentUpdateView",
                 [row[req[w].rec] EXCEPT !.value = req[w].input.value])

document_retire(w) == ActionLoad(w, "document_retire", "document", {"kept"})

retire_document(w) == Retire(w, "document_retire")

-----------------------------------------------------------------------------
(* expenses: finance/views.py and finance/services.py                       *)

create_expense(w) == Creates(w, "expense")

ExpenseUpdateView(w) == EditLoad(w, "ExpenseUpdateView", "expense")

update_expense(w) ==
    \/ Compare(w, "ExpenseUpdateView", req[w].copy.gone \/ SameValue(w))
    \/ SaveWhole(w, "ExpenseUpdateView", Edited(w))

expense_retire(w) == ActionLoad(w, "expense_retire", "expense", {"kept"})

retire_expense(w) == Retire(w, "expense_retire")

-----------------------------------------------------------------------------
(* An invalid form, a rolled back transaction, or a worker that dies.       *)
Abandon(w) == req[w] # Idle /\ Leave(w)

(* What the modules Hearings and Agreements describe, seen from here.       *)
Moves ==
    [scheduled |-> {"held", "postponed", "cancelled"},
     draft     |-> {"active", "cancelled"},
     active    |-> {"draft", "expired", "cancelled"},
     expired   |-> {"active", "cancelled"}]

HeldOrExpired ==
    \E r \in Table["hearing"] \cup Table["contract"] :
        /\ \/ row[r] = NoRow /\ \E x \in FirstRows[r] : row' = [row EXCEPT ![r] = x]
           \/ /\ row[r].status \in DOMAIN Moves
              /\ \E s \in Moves[row[r].status] : row' = [row EXCEPT ![r].status = s]
        /\ told' = [told EXCEPT ![r] = Life(row'[r])]
        /\ UNCHANGED <<raced, files, req>>

(* update_hearing and update_contract move the date and save every column   *)
(* of the loaded copy, whose status may be any earlier one.                 *)
EditedThere ==
    \E r \in Table["hearing"] \cup Table["contract"] :
        /\ Exists(r)
        /\ \E s \in Lifecycle[KindOf[r]], v \in Values :
              /\ row' = [row EXCEPT ![r].status = s, ![r].value = v]
              /\ raced' = IF s = row[r].status THEN raced ELSE raced \cup {r}
        /\ UNCHANGED <<told, files, req>>

Service(w) ==
    \/ create_task(w) \/ update_task(w) \/ change_task_status(w) \/ delete_task(w)
    \/ create_deadline(w) \/ update_deadline(w) \/ change_deadline_status(w)
    \/ create_case(w) \/ update_case(w) \/ change_status(w)
    \/ create_client(w) \/ update_client(w) \/ archive_client(w) \/ restore_client(w)
    \/ create_court(w) \/ update_court(w) \/ set_active(w)
    \/ StoreBlob(w) \/ create_document(w) \/ update_document(w) \/ retire_document(w)
    \/ create_expense(w) \/ update_expense(w) \/ retire_expense(w)

View(w) ==
    \/ TaskUpdateView(w) \/ task_status(w) \/ task_delete(w)
    \/ DeadlineUpdateView(w) \/ deadline_status(w)
    \/ CaseUpdateView(w) \/ case_status(w)
    \/ ClientUpdateView(w) \/ client_archive(w) \/ client_restore(w)
    \/ CourtUpdateView(w) \/ court_set_active(w)
    \/ DocumentUpdateView(w) \/ document_retire(w)
    \/ ExpenseUpdateView(w) \/ expense_retire(w)

RecordsNext ==
    \/ \E w \in Workers : Service(w) \/ View(w) \/ Abandon(w)
    \/ HeldOrExpired
    \/ EditedThere

RecordsSpec == RecordsInit /\ [][RecordsNext]_recordVars

-----------------------------------------------------------------------------
RecordsTypeOK ==
    /\ row \in [Records -> Row]
    /\ told \in [Records -> [status : AllStatuses \cup {"absent"}, gone : BOOLEAN]]
    /\ raced \subseteq Records
    /\ files \subseteq Table["document"]
    /\ req \in [Workers -> Request]

(* Rows keep the columns of their table, whatever copies are saved whole.   *)
ColumnsKept == \A r \in Records : Exists(r) => row[r] \in Columns[KindOf[r]]

(* The moment of completion is stamped exactly on the rows whose status has *)
(* one, although an edit saves status and stamp of a copy that may be old   *)
(* and a status change writes both into a row it does not lock              *)
(* (change_task_status, change_deadline_status, update_task).               *)
StampMatchesStatus ==
    \A r \in Records : row[r].stamp <=> row[r].status \in Finished(KindOf[r])

(* The last audited change of a record says what its row is: no service     *)
(* leaves a status or a deletion the log does not tell.  Excepted are the   *)
(* records changed while an edit of them held a copy, which its save of     *)
(* every column may put back without a word (update_task, update_client,    *)
(* update_case, update_expense), and courts, whose edit changes the status  *)
(* and logs the names of the fields only (update_court).                    *)
LogTellsRow ==
    \A r \in Records \ (raced \cup Table["court"]) : told[r] = Life(row[r])

(* Whatever upload fails and in whatever order documents are edited and     *)
(* withdrawn, a document row has its blob in the storage: document_download *)
(* finds the file of every document _get_document returns.                  *)
RowsHaveFiles == \A r \in Table["document"] : Exists(r) => r \in files

=============================================================================
