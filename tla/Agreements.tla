----------------------------- MODULE Agreements -----------------------------
(***************************************************************************)
(* Contracts (contracts/services.py) and fee agreements (finance/          *)
(* services.py): records whose status follows a transition table, changed   *)
(* by concurrent web requests and, for contracts, by the cron command       *)
(* expire_contracts.                                                         *)
(*                                                                          *)
(* No service locks or re-reads its record: it decides on the instance the  *)
(* view loaded.  An edit saves EVERY column of that instance, a status      *)
(* change only the status column.                                           *)
(***************************************************************************)
EXTENDS Integers, FiniteSets

CONSTANTS
    Workers,        \* concurrent web requests
    Scanners,       \* concurrent runs of expire_contracts
    Contracts,      \* primary keys of contracts, numbered as they are created
    FeeAgreements,  \* primary keys of fee agreements
    EndDates,       \* the end dates a contract form can submit
    LastDay,        \* bound: the last day of the run
    MaxKills,       \* bound: how often a command is killed
    NoRecord        \* no record

ASSUME AgreementsAssumption ==
    /\ Contracts \subseteq Nat
    /\ Contracts \cap FeeAgreements = {}
    /\ NoRecord \notin Contracts \cup FeeAgreements
    /\ EndDates \subseteq Nat \ {0}
    /\ LastDay \in Nat \ {0}
    /\ MaxKills \in Nat

VARIABLES
    row,     \* the stored status and end date of each record
    logged,  \* the status the audit trail last gave each record
    today,   \* the date
    req,     \* the request each worker is serving
    scan,    \* each running expire_due_contracts
    kills    \* how often a command was killed

vars == <<row, logged, today, req, scan, kills>>

Records == Contracts \cup FeeAgreements

(* end = 0 is the NULL end_date of an open-ended contract.                  *)
NoEnd == 0

Statuses == {"absent", "draft", "active", "expired", "completed", "cancelled"}

(* _ALLOWED_TRANSITIONS and _FEE_STATUS_TRANSITIONS.                        *)
ContractMoves ==
    {<<"draft", "active">>, <<"draft", "cancelled">>,
     <<"active", "draft">>, <<"active", "expired">>, <<"active", "cancelled">>,
     <<"expired", "active">>, <<"expired", "cancelled">>}
FeeMoves ==
    {<<"draft", "active">>, <<"draft", "cancelled">>,
     <<"active", "completed">>, <<"active", "cancelled">>,
     <<"completed", "active">>}

(* "Mutant" definitions are plausible bugs of the definition below them.    *)
CanMoveMutant(r, from, to) == r \in Records /\ <<from, to>> \in ContractMoves \cup FeeMoves
CanMove(r, from, to) ==
    <<from, to>> \in IF r \in Contracts THEN ContractMoves ELSE FeeMoves

Absent == [status |-> "absent", end |-> NoEnd]
Idle == [rec |-> NoRecord, snap |-> Absent]
IdleScan == [running |-> FALSE, due |-> {}, done |-> {}]

Init ==
    /\ row = [r \in Records |-> Absent]
    /\ logged = [r \in Records |-> "absent"]
    /\ today = 1
    /\ req = [w \in Workers |-> Idle]
    /\ scan = [s \in Scanners |-> IdleScan]
    /\ kills = 0

-----------------------------------------------------------------------------
Busy(w) == req[w].rec # NoRecord

(* A scan holds the lock of every row it has updated until it commits.      *)
RowFree(r) == \A s \in Scanners : r \notin scan[s].done

Finish(w) == req' = [req EXCEPT ![w] = Idle]

(* create_contract: the form offers draft and active.                       *)
CreateContract(c, s, e) ==
    /\ row[c].status = "absent"
    /\ \A d \in Contracts : d < c => row[d].status # "absent"
    /\ row' = [row EXCEPT ![c] = [status |-> s, end |-> e]]
    /\ logged' = [logged EXCEPT ![c] = s]
    /\ UNCHANGED <<today, req, scan, kills>>

CreateFeeAgreement(f) ==
    /\ row[f].status = "absent"
    /\ row' = [row EXCEPT ![f].status = "draft"]
    /\ logged' = [logged EXCEPT ![f] = "draft"]
    /\ UNCHANGED <<today, req, scan, kills>>

(* A view loads the instance its service will decide on.                    *)
Load(w, r) ==
    /\ ~Busy(w)
    /\ row[r].status # "absent"
    /\ req' = [req EXCEPT ![w] = [rec |-> r, snap |-> row[r]]]
    /\ UNCHANGED <<row, logged, today, scan, kills>>

(* update_contract, whatever the status: save() of every column.  e equal   *)
(* to the loaded end date is a change of another field.                     *)
EditContract(w, e) ==
    LET c == req[w].rec IN
    /\ c \in Contracts
    /\ RowFree(c)
    /\ row' = [row EXCEPT ![c] = [req[w].snap EXCEPT !.end = e]]
    /\ Finish(w)
    /\ UNCHANGED <<logged, today, scan, kills>>

(* update_fee_agreement: refused on a completed or cancelled instance,      *)
(* else save() of every column.                                             *)
EditFeeAgreement(w) ==
    LET f == req[w].rec IN
    /\ f \in FeeAgreements
    /\ req[w].snap.status \notin {"completed", "cancelled"}
    /\ row' = [row EXCEPT ![f] = req[w].snap]
    /\ Finish(w)
    /\ UNCHANGED <<logged, today, scan, kills>>

(* change_contract_status and change_fee_agreement_status.                  *)
ChangeStatus(w, new) ==
    LET r == req[w].rec IN
    /\ Busy(w)
    /\ CanMove(r, req[w].snap.status, new)
    /\ RowFree(r)
    /\ row' = [row EXCEPT ![r].status = new]
    /\ logged' = [logged EXCEPT ![r] = new]
    /\ Finish(w)
    /\ UNCHANGED <<today, scan, kills>>

(* A refused or unchanged form, or a worker that dies.                      *)
Abandon(w) ==
    /\ Busy(w)
    /\ Finish(w)
    /\ UNCHANGED <<row, logged, today, scan, kills>>

-----------------------------------------------------------------------------
(* expire_due_contracts reads the due contracts in one query.               *)
Due == {c \in Contracts : /\ row[c].status = "active"
                          /\ row[c].end # NoEnd
                          /\ row[c].end < today}

ScanStart(s) ==
    /\ ~scan[s].running
    /\ Due # {}
    /\ scan' = [scan EXCEPT ![s] = [running |-> TRUE, due |-> Due, done |-> {}]]
    /\ UNCHANGED <<row, logged, today, req, kills>>

(* It saves the status column of each, newest first (Contract.Meta.         *)
(* ordering), which keeps two overlapping scans from locking each other's   *)
(* rows crosswise.  An UPDATE waits for the lock of another scan and is not *)
(* conditional on the status.                                               *)
NextDueMutant(s, c) == c \in scan[s].due
NextDue(s, c) == c \in scan[s].due /\ \A d \in scan[s].due : d <= c

ScanRow(s, c) ==
    /\ NextDue(s, c)
    /\ RowFree(c)
    /\ scan' = [scan EXCEPT ![s].due = @ \ {c}, ![s].done = @ \cup {c}]
    /\ UNCHANGED <<row, logged, today, req, kills>>

ScanCommitMutant(s) ==
    /\ scan[s].running
    /\ scan[s].due = {}
    /\ row' = [r \in Records |-> IF r \in scan[s].done
                                 THEN [row[r] EXCEPT !.status = "expired"]
                                 ELSE row[r]]
    /\ scan' = [scan EXCEPT ![s] = IdleScan]
    /\ UNCHANGED <<logged, today, req, kills>>
ScanCommit(s) ==
    /\ scan[s].running
    /\ scan[s].due = {}
    /\ row' = [r \in Records |-> IF r \in scan[s].done
                                 THEN [row[r] EXCEPT !.status = "expired"]
                                 ELSE row[r]]
    /\ logged' = [r \in Records |-> IF r \in scan[s].done
                                    THEN "expired" ELSE logged[r]]
    /\ scan' = [scan EXCEPT ![s] = IdleScan]
    /\ UNCHANGED <<today, req, kills>>

(* The command is killed: its transaction leaves no trace.                  *)
ScanKill(s) ==
    /\ scan[s].running
    /\ kills < MaxKills
    /\ kills' = kills + 1
    /\ scan' = [scan EXCEPT ![s] = IdleScan]
    /\ UNCHANGED <<row, logged, today, req>>

DayPasses ==
    /\ today < LastDay
    /\ today' = today + 1
    /\ UNCHANGED <<row, logged, req, scan, kills>>

-----------------------------------------------------------------------------
Scan(s) == ScanStart(s) \/ (\E c \in Contracts : ScanRow(s, c)) \/ ScanCommit(s)

Serve(w) ==
    \/ \E e \in EndDates \cup {NoEnd} : EditContract(w, e)
    \/ EditFeeAgreement(w)
    \/ \E new \in Statuses : ChangeStatus(w, new)
    \/ Abandon(w)

Next ==
    \/ \E c \in Contracts, s \in {"draft", "active"}, e \in EndDates \cup {NoEnd} :
           CreateContract(c, s, e)
    \/ \E f \in FeeAgreements : CreateFeeAgreement(f)
    \/ \E w \in Workers : (\E r \in Records : Load(w, r)) \/ Serve(w)
    \/ \E s \in Scanners : Scan(s) \/ ScanKill(s)
    \/ DayPasses

Spec == Init /\ [][Next]_vars

(* Cron runs the command again and again, and a run that is not killed      *)
(* finishes.                                                                *)
LiveSpec == Spec /\ \A s \in Scanners : WF_vars(Scan(s))

-----------------------------------------------------------------------------
(* Type invariant; a contract is never "completed" and a fee agreement      *)
(* never "expired", and only contracts are scanned.                         *)
TypeOK ==
    /\ row \in [Records -> [status : Statuses, end : EndDates \cup {NoEnd}]]
    /\ logged \in [Records -> Statuses]
    /\ \A c \in Contracts : row[c].status # "completed"
    /\ \A f \in FeeAgreements : row[f].status # "expired"
    /\ today \in 1..LastDay
    /\ req \in [Workers -> [rec : Records \cup {NoRecord},
                            snap : [status : Statuses, end : EndDates \cup {NoEnd}]]]
    /\ scan \in [Scanners -> [running : BOOLEAN, due : SUBSET Contracts,
                              done : SUBSET Contracts]]
    /\ kills \in 0..MaxKills

(* A request or a scan commits to r on a copy that is no longer the row.    *)
StaleWrite(r) ==
    \/ \E w \in Workers : /\ req[w].rec = r /\ req[w].snap # row[r]
                          /\ req'[w] = Idle
    \/ \E s \in Scanners : /\ r \in scan[s].done /\ r \notin Due
                           /\ scan'[s] = IdleScan

(* Whoever writes a status from a copy that is still current follows the    *)
(* transition table and leaves the audit trail at the stored status:        *)
(* overlapping requests and scans are the only way around the guards.       *)
FreshWritesFollowTable ==
    [][\A r \in Records :
          /\ row[r].status \notin {"absent", row'[r].status}
          /\ ~StaleWrite(r)
          => /\ CanMove(r, row[r].status, row'[r].status)
             /\ logged'[r] = row'[r].status]_vars

(* A contract does not stay active past its end date: whatever the office   *)
(* edits or reactivates meanwhile, the scans catch up with it again and     *)
(* again, killed runs and missed days included.                             *)
OverdueIsCaught ==
    \A c \in Contracts :
        []<>~(row[c].status = "active" /\ row[c].end # NoEnd /\ row[c].end < today)

(* The documented rule: a cancelled record is never moved again.            *)
CancelledIsTerminal ==
    [][\A r \in Records : row[r].status = "cancelled"
                             => row'[r].status = "cancelled"]_vars
=============================================================================
