--------------------------- MODULE AgreementsProofs ---------------------------
(***************************************************************************)
(* Proofs about Agreements, for any set of workers, scans and records.      *)
(***************************************************************************)
EXTENDS Agreements, TLAPS

StoredRow == [status : Statuses, end : EndDates \cup {NoEnd}]
Request == [rec : Records \cup {NoRecord}, snap : StoredRow]
ScanState == [running : BOOLEAN, due : SUBSET Contracts, done : SUBSET Contracts]

(* What makes TypeOK inductive: a request decides on a copy of a record of  *)
(* its own kind, so what it writes back is a status of that kind too.       *)
CopiesOfTheirKind ==
    \A w \in Workers :
        /\ req[w].rec \in Contracts => req[w].snap.status # "completed"
        /\ req[w].rec \in FeeAgreements => req[w].snap.status # "expired"

AgreementsInv == TypeOK /\ CopiesOfTheirKind

-----------------------------------------------------------------------------
(* The types, in the form the step proofs use.                              *)
LEMMA AgreementTypes ==
    ASSUME AgreementsInv
    PROVE  /\ row \in [Records -> StoredRow]
           /\ logged \in [Records -> Statuses]
           /\ req \in [Workers -> Request]
           /\ scan \in [Scanners -> ScanState]
           /\ today \in 1..LastDay /\ kills \in 0..MaxKills
           /\ Contracts \cap FeeAgreements = {}
           /\ NoRecord \notin Records
  BY AgreementsAssumption
  DEF AgreementsInv, TypeOK, StoredRow, Request, ScanState, Records

(* The idle request and scan, and the rows the services build, are of those *)
(* types.                                                                   *)
LEMMA AgreementRows ==
    /\ Absent \in StoredRow /\ Idle \in Request /\ IdleScan \in ScanState
    /\ \A s \in Statuses, e \in EndDates \cup {NoEnd} : [status |-> s, end |-> e] \in StoredRow
    /\ \A r \in StoredRow, e \in EndDates \cup {NoEnd} :
          [r EXCEPT !.end = e] \in StoredRow /\ [r EXCEPT !.end = e].status = r.status
    /\ \A r \in StoredRow, s \in Statuses :
          [r EXCEPT !.status = s] \in StoredRow /\ [r EXCEPT !.status = s].status = s
  BY DEF StoredRow, Request, ScanState, Absent, Idle, IdleScan, Statuses, NoEnd

(* A request that ends leaves the copies of the others alone.               *)
LEMMA FinishKeepsCopies ==
    ASSUME AgreementsInv, NEW w \in Workers, Finish(w)
    PROVE  /\ req' \in [Workers -> Request]
           /\ CopiesOfTheirKind'
           /\ req'[w] = Idle
  <1>1. \A v \in Workers : req'[v] = IF v = w THEN Idle ELSE req[v]
    BY AgreementTypes DEF Finish
  <1>2. req' \in [Workers -> Request]
    BY AgreementTypes, AgreementRows DEF Finish
  <1>3. CopiesOfTheirKind'
    BY <1>1, AgreementTypes DEF AgreementsInv, CopiesOfTheirKind, Idle, Absent, Records
  <1>4. QED
    BY <1>1, <1>2, <1>3

(* One record changes, to a row of its kind.                                *)
LEMMA RowOfItsKind ==
    ASSUME AgreementsInv, NEW r \in Records, NEW new \in StoredRow,
           r \in Contracts => new.status # "completed",
           r \in FeeAgreements => new.status # "expired",
           row' = [row EXCEPT ![r] = new]
    PROVE  /\ row' \in [Records -> StoredRow]
           /\ \A c \in Contracts : row'[c].status # "completed"
           /\ \A f \in FeeAgreements : row'[f].status # "expired"
  <1>1. \A q \in Records : row'[q] = IF q = r THEN new ELSE row[q]
    BY AgreementTypes
  <1>2. row' \in [Records -> StoredRow]
    BY AgreementTypes
  <1>3. QED
    BY <1>1, <1>2 DEF AgreementsInv, TypeOK, Records

(* At first there is no record.                                             *)
LEMMA InitAgreementsInv == Init => AgreementsInv
  <1> SUFFICES ASSUME Init PROVE AgreementsInv
    OBVIOUS
  <1>1. /\ row \in [Records -> StoredRow] /\ req \in [Workers -> Request]
        /\ scan \in [Scanners -> ScanState]
    BY AgreementRows DEF Init
  <1>2. logged \in [Records -> Statuses] /\ today \in 1..LastDay /\ kills \in 0..MaxKills
    BY AgreementsAssumption DEF Init, Statuses
  <1>3. /\ \A c \in Contracts : row[c].status # "completed"
        /\ \A f \in FeeAgreements : row[f].status # "expired"
    BY DEF Init, Absent, Records
  <1>4. CopiesOfTheirKind
    BY DEF Init, Idle, Absent, CopiesOfTheirKind
  <1>5. QED
    BY <1>1, <1>2, <1>3, <1>4 DEF AgreementsInv, TypeOK, StoredRow, Request, ScanState

-----------------------------------------------------------------------------
(* Every step keeps the invariant: one proof step per action.               *)
LEMMA NextAgreementsInv == AgreementsInv /\ [Next]_vars => AgreementsInv'
  <1> SUFFICES ASSUME AgreementsInv, [Next]_vars PROVE AgreementsInv'
    OBVIOUS
  <1> USE AgreementTypes
  <1> DEFINE
        RowsOK == /\ row' \in [Records -> StoredRow]
                  /\ \A c \in Contracts : row'[c].status # "completed"
                  /\ \A f \in FeeAgreements : row'[f].status # "expired"
        Others == /\ logged' \in [Records -> Statuses]
                  /\ today' \in 1..LastDay
                  /\ kills' \in 0..MaxKills
                  /\ scan' \in [Scanners -> ScanState]
        Requests == req' \in [Workers -> Request] /\ CopiesOfTheirKind'
  <1>0. ASSUME RowsOK, Others, Requests PROVE AgreementsInv'
    BY <1>0 DEF AgreementsInv, TypeOK, StoredRow, Request, ScanState
  <1>a. req' = req => Requests
    BY DEF AgreementsInv, CopiesOfTheirKind
  <1>b. row' = row => RowsOK
    BY DEF AgreementsInv, TypeOK
  <1>c. UNCHANGED <<logged, today, scan, kills>> => Others
    OBVIOUS
  <1> HIDE DEF RowsOK, Others, Requests
  <1>1. ASSUME NEW c \in Contracts, NEW s \in {"draft", "active"},
               NEW e \in EndDates \cup {NoEnd}, CreateContract(c, s, e)
        PROVE  AgreementsInv'
    <2> DEFINE new == [status |-> s, end |-> e]
    <2>1. new \in StoredRow /\ new.status = s /\ s \in Statuses /\ c \in Records
      BY AgreementRows DEF Statuses, Records
    <2>2. row' = [row EXCEPT ![c] = new] /\ logged' = [logged EXCEPT ![c] = s]
          /\ UNCHANGED <<today, req, scan, kills>>
      BY <1>1 DEF CreateContract
    <2> HIDE DEF new
    <2>3. RowsOK
      BY <2>1, <2>2, RowOfItsKind DEF RowsOK
    <2>4. Others
      BY <2>1, <2>2 DEF Others
    <2>5. QED
      BY <1>0, <1>a, <2>2, <2>3, <2>4
  <1>2. ASSUME NEW f \in FeeAgreements, CreateFeeAgreement(f)
        PROVE  AgreementsInv'
    <2> DEFINE new == [row[f] EXCEPT !.status = "draft"]
    <2>1. f \in Records /\ "draft" \in Statuses
      BY DEF Records, Statuses
    <2>2. new \in StoredRow /\ new.status = "draft"
      BY <2>1, AgreementRows
    <2>3. row' = [row EXCEPT ![f] = new] /\ logged' = [logged EXCEPT ![f] = "draft"]
          /\ UNCHANGED <<today, req, scan, kills>>
      BY <1>2 DEF CreateFeeAgreement
    <2> HIDE DEF new
    <2>4. RowsOK
      BY <2>1, <2>2, <2>3, RowOfItsKind DEF RowsOK
    <2>5. Others
      BY <2>1, <2>3 DEF Others
    <2>6. QED
      BY <1>0, <1>a, <2>3, <2>4, <2>5
  <1>3. ASSUME NEW w \in Workers, NEW r \in Records, Load(w, r)
        PROVE  AgreementsInv'
    <2> DEFINE new == [rec |-> r, snap |-> row[r]]
    <2>1. req' = [req EXCEPT ![w] = new] /\ UNCHANGED <<row, logged, today, scan, kills>>
      BY <1>3 DEF Load
    <2>2. new \in Request /\ new.rec = r /\ new.snap = row[r]
      BY DEF Request
    <2> HIDE DEF new
    <2>3. \A v \in Workers : req'[v] = IF v = w THEN new ELSE req[v]
      BY <2>1
    <2>4. req' \in [Workers -> Request]
      BY <2>1, <2>2
    <2>5. CopiesOfTheirKind'
      BY <2>2, <2>3 DEF AgreementsInv, TypeOK, CopiesOfTheirKind
    <2>6. QED
      BY <1>0, <1>b, <1>c, <2>1, <2>4, <2>5 DEF Requests
  <1>4. ASSUME NEW w \in Workers, NEW e \in EndDates \cup {NoEnd}, EditContract(w, e)
        PROVE  AgreementsInv'
    <2> DEFINE new == [req[w].snap EXCEPT !.end = e]
    <2>1. /\ req[w].rec \in Contracts /\ Finish(w)
          /\ row' = [row EXCEPT ![req[w].rec] = new]
          /\ UNCHANGED <<logged, today, scan, kills>>
      BY <1>4 DEF EditContract
    <2>2. req[w].snap \in StoredRow /\ req[w].rec \in Records /\ req[w].rec \notin FeeAgreements
      BY <2>1 DEF Request, Records
    <2>3. new \in StoredRow /\ new.status = req[w].snap.status
      BY <2>2, AgreementRows
    <2> HIDE DEF new
    <2>4. RowsOK
      BY <2>1, <2>2, <2>3, RowOfItsKind DEF RowsOK, AgreementsInv, CopiesOfTheirKind
    <2>5. QED
      BY <1>0, <1>c, <2>1, <2>4, FinishKeepsCopies DEF Requests
  <1>5. ASSUME NEW w \in Workers, EditFeeAgreement(w)
        PROVE  AgreementsInv'
    <2>1. /\ req[w].rec \in FeeAgreements /\ Finish(w)
          /\ row' = [row EXCEPT ![req[w].rec] = req[w].snap]
          /\ UNCHANGED <<logged, today, scan, kills>>
      BY <1>5 DEF EditFeeAgreement
    <2>2. req[w].snap \in StoredRow /\ req[w].rec \in Records /\ req[w].rec \notin Contracts
      BY <2>1 DEF Request, Records
    <2>3. RowsOK
      BY <2>1, <2>2, RowOfItsKind DEF RowsOK, AgreementsInv, CopiesOfTheirKind
    <2>4. QED
      BY <1>0, <1>c, <2>1, <2>3, FinishKeepsCopies DEF Requests
  <1>6. ASSUME NEW w \in Workers, NEW to \in Statuses, ChangeStatus(w, to)
        PROVE  AgreementsInv'
    <2> DEFINE new == [row[req[w].rec] EXCEPT !.status = to]
    <2>1. /\ req[w].rec # NoRecord /\ Finish(w)
          /\ CanMove(req[w].rec, req[w].snap.status, to)
          /\ row' = [row EXCEPT ![req[w].rec] = new]
          /\ logged' = [logged EXCEPT ![req[w].rec] = to]
          /\ UNCHANGED <<today, scan, kills>>
      BY <1>6 DEF ChangeStatus, Busy
    <2>2. req[w].rec \in Records
      BY <2>1 DEF Request
    <2>3. new \in StoredRow /\ new.status = to
      BY <2>2, AgreementRows
    <2>4. /\ req[w].rec \in Contracts => to # "completed"
          /\ req[w].rec \in FeeAgreements => to # "expired"
      BY <2>1 DEF CanMove, ContractMoves, FeeMoves
    <2> HIDE DEF new
    <2>5. RowsOK
      BY <2>1, <2>2, <2>3, <2>4, RowOfItsKind DEF RowsOK
    <2>6. Others
      BY <2>1 DEF Others
    <2>7. QED
      BY <1>0, <2>1, <2>5, <2>6, FinishKeepsCopies DEF Requests
  <1>7. ASSUME NEW w \in Workers, Abandon(w)
        PROVE  AgreementsInv'
    BY <1>0, <1>b, <1>c, <1>7, FinishKeepsCopies DEF Abandon, Requests
  <1>8. ASSUME NEW s \in Scanners, Scan(s) \/ ScanKill(s)
        PROVE  AgreementsInv'
    <2>1. CASE ScanStart(s)
      <3> DEFINE new == [running |-> TRUE, due |-> Due, done |-> {}]
      <3>1. new \in ScanState
        BY DEF ScanState, Due
      <3>2. scan' \in [Scanners -> ScanState]
        BY <2>1, <3>1 DEF ScanStart
      <3>3. QED
        BY <1>0, <1>a, <1>b, <2>1, <3>2 DEF ScanStart, Others
    <2>2. ASSUME NEW c \in Contracts, ScanRow(s, c)
          PROVE  AgreementsInv'
      <3> DEFINE new == [scan[s] EXCEPT !.due = @ \ {c}, !.done = @ \cup {c}]
      <3>1. new \in ScanState
        BY DEF ScanState
      <3>2. scan' = [scan EXCEPT ![s] = new] /\ UNCHANGED <<row, logged, today, req, kills>>
        BY <2>2 DEF ScanRow
      <3> HIDE DEF new
      <3>3. scan' \in [Scanners -> ScanState]
        BY <3>1, <3>2
      <3>4. QED
        BY <1>0, <1>a, <1>b, <3>2, <3>3 DEF Others
    <2>3. CASE ScanCommit(s)
      <3>1. /\ \A r \in Records : row'[r] = IF r \in scan[s].done
                                            THEN [row[r] EXCEPT !.status = "expired"]
                                            ELSE row[r]
            /\ logged' = [r \in Records |-> IF r \in scan[s].done
                                            THEN "expired" ELSE logged[r]]
            /\ scan' = [scan EXCEPT ![s] = IdleScan] /\ UNCHANGED <<today, req, kills>>
        BY <2>3 DEF ScanCommit
      <3>2. "expired" \in Statuses /\ scan[s].done \subseteq Contracts
        BY DEF Statuses, ScanState
      <3>3. ASSUME NEW r \in Records
            PROVE  /\ row'[r] \in StoredRow
                   /\ row'[r].status = IF r \in scan[s].done
                                       THEN "expired" ELSE row[r].status
        <4>1. row[r] \in StoredRow
          OBVIOUS
        <4>2. /\ [row[r] EXCEPT !.status = "expired"] \in StoredRow
              /\ [row[r] EXCEPT !.status = "expired"].status = "expired"
          BY <3>2, <4>1, AgreementRows
        <4>3. QED
          BY <3>1, <4>1, <4>2
      <3>4. row' \in [Records -> StoredRow]
        BY <2>3, <3>3 DEF ScanCommit
      <3>5. RowsOK
        BY <3>2, <3>3, <3>4 DEF RowsOK, AgreementsInv, TypeOK, Records
      <3>6. Others
        BY <3>1, <3>2, AgreementRows DEF Others
      <3>7. QED
        BY <1>0, <1>a, <3>1, <3>5, <3>6
    <2>4. CASE ScanKill(s)
      <3>1. scan' = [scan EXCEPT ![s] = IdleScan] /\ kills < MaxKills /\ kills' = kills + 1
            /\ UNCHANGED <<row, logged, today, req>>
        BY <2>4 DEF ScanKill
      <3>2. Others
        BY <3>1, AgreementRows, AgreementsAssumption DEF Others
      <3>3. QED
        BY <1>0, <1>a, <1>b, <3>1, <3>2
    <2>5. QED
      BY <1>8, <2>1, <2>2, <2>3, <2>4 DEF Scan
  <1>9. CASE DayPasses
    <2>1. Others
      BY <1>9, AgreementsAssumption DEF DayPasses, Others
    <2>2. QED
      BY <1>0, <1>a, <1>b, <1>9, <2>1 DEF DayPasses
  <1>10. CASE UNCHANGED vars
    BY <1>0, <1>a, <1>b, <1>c, <1>10 DEF vars
  <1>11. QED
    BY <1>1, <1>2, <1>3, <1>4, <1>5, <1>6, <1>7, <1>8, <1>9, <1>10 DEF Next, Serve

(* So it holds in every reachable state.                                    *)
LEMMA AgreementsInvAlways == Spec => []AgreementsInv
  BY InitAgreementsInv, NextAgreementsInv, PTL DEF Spec

(* Contracts and fee agreements keep to their own statuses.                 *)
THEOREM AgreementsTypeCorrect == Spec => []TypeOK
  <1>1. AgreementsInv => TypeOK
    BY DEF AgreementsInv
  <1>2. QED
    BY <1>1, AgreementsInvAlways, PTL

-----------------------------------------------------------------------------
(* Whoever writes a status from a copy that is still current follows the    *)
(* transition table and logs what it wrote; only overlapping requests and   *)
(* scans can get around the guards, for any number of either.               *)
THEOREM FreshWritesAreSound == Spec => FreshWritesFollowTable
  <1> DEFINE
        Moved(r) == row[r].status \notin {"absent", row'[r].status} /\ ~StaleWrite(r)
        Follows(r) == /\ CanMove(r, row[r].status, row'[r].status)
                      /\ logged'[r] = row'[r].status
        FollowTable ==
          \A r \in Records :
              /\ row[r].status \notin {"absent", row'[r].status}
              /\ ~StaleWrite(r)
              => /\ CanMove(r, row[r].status, row'[r].status)
                 /\ logged'[r] = row'[r].status
  <1>1. ASSUME AgreementsInv, [Next]_vars, NEW r \in Records, Moved(r)
        PROVE  Follows(r)
    <2> USE AgreementTypes, <1>1
    <2>1. ASSUME row' = row PROVE Follows(r)
      BY <2>1
    <2>2. ASSUME NEW w \in Workers, req[w].rec = r, Finish(w)
          PROVE  req[w].snap = row[r]
      BY <2>2, FinishKeepsCopies DEF StaleWrite
    <2>3. ASSUME NEW c \in Contracts, NEW s \in {"draft", "active"},
                 NEW e \in EndDates \cup {NoEnd}, CreateContract(c, s, e)
          PROVE  Follows(r)
      BY <2>3 DEF CreateContract
    <2>4. ASSUME NEW f \in FeeAgreements, CreateFeeAgreement(f)
          PROVE  Follows(r)
      BY <2>4 DEF CreateFeeAgreement
    <2>5. ASSUME NEW w \in Workers, NEW e \in EndDates \cup {NoEnd}, EditContract(w, e)
          PROVE  Follows(r)
      <3>1. req[w].rec = r
        BY <2>5 DEF EditContract
      <3>2. req[w].snap = row[r]
        BY <2>2, <2>5, <3>1 DEF EditContract
      <3>3. row'[r].status = row[r].status
        BY <2>5, <3>1, <3>2, AgreementRows DEF EditContract
      <3>4. QED
        BY <3>3
    <2>6. ASSUME NEW w \in Workers, EditFeeAgreement(w)
          PROVE  Follows(r)
      <3>1. req[w].rec = r
        BY <2>6 DEF EditFeeAgreement
      <3>2. QED
        BY <2>2, <2>6, <3>1 DEF EditFeeAgreement
    <2>7. ASSUME NEW w \in Workers, NEW to \in Statuses, ChangeStatus(w, to)
          PROVE  Follows(r)
      <3>1. req[w].rec = r
        BY <2>7 DEF ChangeStatus
      <3>2. req[w].snap = row[r]
        BY <2>2, <2>7, <3>1 DEF ChangeStatus
      <3>3. row'[r].status = to
        BY <2>7, <3>1, AgreementRows DEF ChangeStatus
      <3>4. QED
        BY <2>7, <3>1, <3>2, <3>3 DEF ChangeStatus
    <2>8. ASSUME NEW s \in Scanners, ScanCommit(s)
          PROVE  Follows(r)
      <3>1. /\ row'[r] = IF r \in scan[s].done
                         THEN [row[r] EXCEPT !.status = "expired"] ELSE row[r]
            /\ logged'[r] = IF r \in scan[s].done THEN "expired" ELSE logged[r]
            /\ scan'[s] = IdleScan
        BY <2>8 DEF ScanCommit
      <3>2. r \in scan[s].done
        BY <3>1
      <3>3. r \in Due
        BY <3>1, <3>2 DEF StaleWrite
      <3>4. row'[r].status = "expired" /\ row[r].status = "active" /\ r \in Contracts
        BY <3>1, <3>2, <3>3, AgreementRows DEF Due, Statuses
      <3>5. QED
        BY <3>1, <3>2, <3>4 DEF CanMove, ContractMoves
    <2>9. QED
      BY <2>1, <2>3, <2>4, <2>5, <2>6, <2>7, <2>8
      DEF Next, Serve, Scan, Load, Abandon, ScanStart, ScanRow, ScanKill, DayPasses, vars
  <1>2. AgreementsInv /\ [Next]_vars => [FollowTable]_vars
    BY <1>1
  <1> HIDE DEF FollowTable
  <1>3. Spec => [][FollowTable]_vars
    BY <1>2, AgreementsInvAlways, PTL DEF Spec
  <1>4. QED
    BY <1>3 DEF FreshWritesFollowTable, FollowTable
=============================================================================
