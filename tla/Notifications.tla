---------------------------- MODULE Notifications ----------------------------
(***************************************************************************)
(* The in-app inbox (notifications/services.py) and the reminder scans that *)
(* fill it (notifications/generation.py).  Runs of generate_notifications   *)
(* overlap with each other, with changes to the records they remind of and  *)
(* with users reading their inbox.  A run is in no transaction: each of its *)
(* scans reads the users, then the records, then the keys already in the    *)
(* inbox, and inserts the missing rows.                                     *)
(***************************************************************************)
EXTENDS Naturals, FiniteSets

CONSTANTS
    Runs,        \* concurrent runs of generate_notifications
    Items,       \* the hearings, tasks, deadlines, invoices and contracts
    Users,       \* staff
    Group,       \* the group each user is in
    Days,        \* the dates an item can have
    Within,      \* NOTIFY_..._WITHIN_DAYS
    LastDay,     \* bound: the last day
    MaxChanges,  \* bound: how often an item or a user is changed
    MaxKills     \* bound: how often a run is killed

Groups == {"office_manager", "lawyer", "paralegal", "admin_clerk", "finance_clerk"}

ASSUME NotificationsAssumption ==
    /\ Group \in [Users -> Groups]
    /\ IsFiniteSet(Items) /\ IsFiniteSet(Users)
    /\ Days \subseteq Nat
    /\ Days # {} /\ IsFiniteSet(Days)
    /\ Within \in Nat
    /\ LastDay \in Nat \ {0}
    /\ MaxChanges \in Nat
    /\ MaxKills \in Nat

VARIABLES
    kind,     \* the scan each item belongs to; never changes
    item,     \* whether each item is open, its date and its people
    active,   \* the users with is_active
    today,    \* the date
    inbox,    \* how many rows each (recipient, dedupe_key) has
    read,     \* the reminders whose read_at is set
    run,      \* each run of the command
    owed,     \* history: what was owed ever since a run's scan began
    reported, \* the sum of what bulk_notify returned
    changes,  \* how often an item or a user was changed
    kills     \* how often a run was killed

vars == <<kind, item, active, today, inbox, read, run, owed, reported, changes, kills>>

(* SCANS, in the order of generate_all.                                     *)
Scans == <<"hearing_upcoming", "task_overdue", "deadline_approaching",
           "invoice_overdue", "contract_expiring">>
Kinds == {Scans[n] : n \in 1..5}

(* A recipient and a dedupe_key, which names the item and its date.         *)
Reminders == Users \X Items \X Days

(* The people an item can name: a task has one assignee, an invoice nobody, *)
(* the others a case team.                                                  *)
Teams(k) ==
    {T \in SUBSET Users : /\ k = "task_overdue" => Cardinality(T) <= 1
                          /\ k = "invoice_overdue" => T = {}}

Item == [open : BOOLEAN, day : Days, team : SUBSET Users]
Unborn == [open |-> FALSE, day |-> CHOOSE d \in Days : TRUE, team |-> {}]

(* The scan a run is at, or the last one it finished; 0 when it is over.    *)
Run == [scan : 0..5, phase : {"idle", "users", "items", "rows"},
        allowed : SUBSET Users, specs : SUBSET Reminders]
Idle == [scan |-> 0, phase |-> "idle", allowed |-> {}, specs |-> {}]

Init ==
    /\ kind \in [Items -> Kinds]
    /\ item = [i \in Items |-> Unborn]
    /\ active = Users
    /\ today = 1
    /\ inbox = [r \in Reminders |-> 0]
    /\ read = {}
    /\ run = [s \in Runs |-> Idle]
    /\ owed = [s \in Runs |-> {}]
    /\ reported = 0
    /\ changes = 0
    /\ kills = 0

-----------------------------------------------------------------------------
(* users_with_capability: active users whose group grants the view.  Only   *)
(* finance.view is not all staff's.                                         *)
CanView(u, k) == k = "invoice_overdue" => Group[u] # "paralegal"
Allowed(k) == {u \in active : CanView(u, k)}

Managers == {u \in Users : Group[u] = "office_manager"}
FinanceStaff == {u \in Users : Group[u] \in {"office_manager", "finance_clerk"}}

(* Whether a scan picks item i up.                                          *)
Due(i) ==
    LET d == item[i].day IN
    /\ item[i].open
    /\ kind[i] = "hearing_upcoming" => today <= d /\ d < today + Within
    /\ kind[i] = "contract_expiring" => today <= d /\ d <= today + Within
    /\ kind[i] = "deadline_approaching" => d <= today + Within
    /\ kind[i] \in {"task_overdue", "invoice_overdue"} => d < today

(* The people concerned with item i, and whom a scan tells of it, given the *)
(* users it found allowed: the office managers if nobody else.  The         *)
(* "Mutant" definitions are plausible bugs of the definition below them.    *)
Named(i) == IF kind[i] = "invoice_overdue" THEN FinanceStaff ELSE item[i].team
RecipientsMutant(i, allowed) ==
    IF kind[i] = "invoice_overdue" \/ Named(i) # {}
    THEN Named(i) \cap allowed
    ELSE Managers \cap allowed
Recipients(i, allowed) ==
    IF kind[i] = "invoice_overdue" \/ Named(i) \cap allowed # {}
    THEN Named(i) \cap allowed
    ELSE Managers \cap allowed

(* The specs of one scan.                                                   *)
DueItems(k) == {i \in Items : kind[i] = k /\ Due(i)}
Specs(k, allowed) ==
    UNION {Recipients(i, allowed) \X {i} \X {item[i].day} : i \in DueItems(k)}

-----------------------------------------------------------------------------
(* generate_all runs the scans in order.  One without items of its kind     *)
(* reads and writes nothing and is left out.                                *)
Used == {n \in 1..5 : \E i \in Items : kind[i] = Scans[n]}
Follows(n, m) == m < n /\ \A x \in Used : m < x => n <= x

NextScanMutant(s) == run' = [run EXCEPT ![s] = Idle]
NextScan(s) ==
    LET done == run[s].scan IN
    run' = [run EXCEPT ![s] = [Idle EXCEPT !.scan = IF \E n \in Used : done < n
                                                    THEN done ELSE 0]]

(* A scan starts with the users it may tell.                                *)
ReadUsers(s) ==
    /\ run[s].phase = "idle"
    /\ \E n \in Used :
         /\ Follows(n, run[s].scan)
         /\ run' = [run EXCEPT ![s] = [scan |-> n, phase |-> "users",
                                       allowed |-> Allowed(Scans[n]), specs |-> {}]]
    /\ UNCHANGED <<item, active, today, inbox, read, reported, changes, kills>>

(* It reads the records and the teams; without specs bulk_notify returns.   *)
ReadItems(s) ==
    LET specs == Specs(Scans[run[s].scan], run[s].allowed) IN
    /\ run[s].phase = "users"
    /\ IF specs = {} THEN NextScan(s)
       ELSE run' = [run EXCEPT ![s].phase = "items", ![s].specs = specs]
    /\ UNCHANGED <<item, active, today, inbox, read, reported, changes, kills>>

(* bulk_notify looks up the (recipient, key) pairs that exist.              *)
MissingMutant(specs) ==
    {r \in specs : \A u \in Users : inbox[<<u, r[2], r[3]>>] = 0}
Missing(specs) == {r \in specs : inbox[r] = 0}

LookUp(s) ==
    LET rows == Missing(run[s].specs) IN
    /\ run[s].phase = "items"
    /\ IF rows = {} THEN NextScan(s)
       ELSE run' = [run EXCEPT ![s].phase = "rows", ![s].specs = rows]
    /\ UNCHANGED <<item, active, today, inbox, read, reported, changes, kills>>

(* bulk_create(ignore_conflicts=True) under the unique constraint: a row    *)
(* another run inserted since the lookup stays as it is, but is counted.    *)
InsertTwiceMutant(s) ==
    /\ run[s].phase = "rows"
    /\ inbox' = [r \in Reminders |-> IF r \in run[s].specs THEN inbox[r] + 1 ELSE inbox[r]]
    /\ reported' = reported + Cardinality(run[s].specs)
    /\ NextScan(s)
    /\ UNCHANGED <<item, active, today, read, changes, kills>>
InsertUnreadMutant(s) ==
    /\ run[s].phase = "rows"
    /\ inbox' = [r \in Reminders |-> IF r \in run[s].specs THEN 1 ELSE inbox[r]]
    /\ read' = read \ run[s].specs
    /\ reported' = reported + Cardinality(run[s].specs)
    /\ NextScan(s)
    /\ UNCHANGED <<item, active, today, changes, kills>>
Insert(s) ==
    /\ run[s].phase = "rows"
    /\ inbox' = [r \in Reminders |-> IF r \in run[s].specs /\ inbox[r] = 0
                                     THEN 1 ELSE inbox[r]]
    /\ reported' = reported + Cardinality(run[s].specs)
    /\ NextScan(s)
    /\ UNCHANGED <<item, active, today, read, changes, kills>>

(* The command is killed; what its earlier scans inserted stays.            *)
Kill(s) ==
    /\ run[s] # Idle
    /\ kills < MaxKills
    /\ kills' = kills + 1
    /\ run' = [run EXCEPT ![s] = Idle]
    /\ UNCHANGED <<item, active, today, inbox, read, reported, changes>>

-----------------------------------------------------------------------------
(* A user marks a reminder read, or opens it.                               *)
MarkRead(r) ==
    /\ inbox[r] > 0
    /\ r \notin read
    /\ read' = read \cup {r}
    /\ UNCHANGED <<item, active, today, inbox, run, reported, changes, kills>>

MarkAllReadMutant(u) ==
    /\ read' = read \cup {r \in Reminders : r[1] = u}
    /\ UNCHANGED <<item, active, today, inbox, run, reported, changes, kills>>
MarkAllRead(u) ==
    LET unread == {r \in Reminders \ read : r[1] = u /\ inbox[r] > 0} IN
    /\ unread # {}
    /\ read' = read \cup unread
    /\ UNCHANGED <<item, active, today, inbox, run, reported, changes, kills>>

(* What the other services do to an item: open, close, reschedule or        *)
(* reassign it.  Their forms offer active users beside those already named. *)
ChangeItem(i, new) ==
    /\ changes < MaxChanges
    /\ new # item[i]
    /\ new.team \in Teams(kind[i])
    /\ new.team \subseteq item[i].team \cup active
    /\ item' = [item EXCEPT ![i] = new]
    /\ changes' = changes + 1
    /\ UNCHANGED <<active, today, inbox, read, run, reported, kills>>

(* The administrator activates or deactivates a user.                       *)
ChangeUser(u) ==
    /\ changes < MaxChanges
    /\ active' = IF u \in active THEN active \ {u} ELSE active \cup {u}
    /\ changes' = changes + 1
    /\ UNCHANGED <<item, today, inbox, read, run, reported, kills>>

DayPasses ==
    /\ today < LastDay
    /\ today' = today + 1
    /\ UNCHANGED <<item, active, inbox, read, run, reported, changes, kills>>

-----------------------------------------------------------------------------
(* A reminder called for right now to somebody its item names; owed keeps   *)
(* those of a scan's kind called for throughout the scan.                   *)
CalledFor(r) ==
    LET i == r[2] IN
    Due(i) /\ item[i].day = r[3] /\ r[1] \in Named(i) \cap Allowed(kind[i])

TrackOwed ==
    owed' = [s \in Runs |->
               IF run'[s].phase = "idle" THEN {}
               ELSE {r \in IF run[s].phase = "idle" THEN Reminders ELSE owed[s] :
                       kind[r[2]] = Scans[run'[s].scan] /\ CalledFor(r)'}]

Scan(s) == ReadUsers(s) \/ ReadItems(s) \/ LookUp(s) \/ Insert(s)

History == UNCHANGED kind /\ TrackOwed

Next ==
    /\ \/ \E s \in Runs : Scan(s) \/ Kill(s)
       \/ \E r \in Reminders : MarkRead(r)
       \/ \E u \in Users : MarkAllRead(u) \/ ChangeUser(u)
       \/ \E i \in Items, new \in Item : ChangeItem(i, new)
       \/ DayPasses
    /\ History

Spec == Init /\ [][Next]_vars

(* Cron runs the command again and again, and a run that is not killed      *)
(* finishes.                                                                *)
LiveSpec == Spec /\ \A s \in Runs : WF_vars(Scan(s) /\ History)

-----------------------------------------------------------------------------
(* Type invariant; a run is at a scan while it is in one, and only a row    *)
(* that is there is read.                                                   *)
TypeOK ==
    /\ kind \in [Items -> Kinds]
    /\ item \in [Items -> Item]
    /\ active \subseteq Users
    /\ today \in 1..LastDay
    /\ inbox \in [Reminders -> Nat]
    /\ read \subseteq {r \in Reminders : inbox[r] > 0}
    /\ run \in [Runs -> Run]
    /\ \A s \in Runs : run[s].phase # "idle" => run[s].scan # 0
    /\ owed \in [Runs -> SUBSET Reminders]
    /\ reported \in Nat
    /\ changes \in 0..MaxChanges
    /\ kills \in 0..MaxKills

(* Overlapping runs never put the same reminder in an inbox twice.          *)
NeverToldTwice == \A r \in Reminders : inbox[r] <= 1

(* A reminder once read is never unread again, even when a run that missed  *)
(* it at its lookup inserts it after the user has read it.                  *)
ReadIsForever == [][read \subseteq read']_vars

(* When a scan ends, whoever an item named, and could be told, ever since   *)
(* it began has the reminder for the item's date: however its reads         *)
(* interleave with edits and with another run, it leaves nobody out.        *)
ScanLeavesNobodyOut ==
    [][\A s \in Runs :
          run[s].phase # "idle" /\ run'[s].phase = "idle" /\ kills' = kills
             => \A r \in owed[s] : inbox'[r] > 0]_vars

(* Every due item reaches somebody: those it names, and the office managers *)
(* when nobody it names can be told, are told in the end, however often a   *)
(* run missed them because a user changed under it or it was killed.        *)
MustBeTold(i, u) ==
    /\ Due(i)
    /\ u \in Allowed(kind[i])
    /\ \/ u \in Named(i)
       \/ /\ kind[i] # "invoice_overdue"
          /\ Named(i) \cap Allowed(kind[i]) = {}
          /\ u \in Managers

EverybodyTold ==
    \A i \in Items, u \in Users :
        []<>(MustBeTold(i, u) => inbox[<<u, i, item[i].day>>] > 0)

(* The documented result of bulk_notify: "the number of rows actually       *)
(* inserted".                                                               *)
CountIsRowsInserted == reported = Cardinality({r \in Reminders : inbox[r] > 0})
=============================================================================
