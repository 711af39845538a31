------------------------ MODULE NotificationsProofs ------------------------
(***************************************************************************)
(* Proofs about Notifications, for any number of runs, items and users.     *)
(***************************************************************************)
EXTENDS Notifications, FiniteSetTheorems, TLAPS

(* What a scan holds of the reminders owed: first the users it may tell,    *)
(* then the specs, then the rows it found missing.                          *)
OwedInHand ==
    \A s \in Runs : \A r \in owed[s] :
        /\ CalledFor(r)
        /\ kind[r[2]] = Scans[run[s].scan]
        /\ run[s].phase # "idle"
        /\ run[s].phase = "users" => r[1] \in run[s].allowed
        /\ run[s].phase = "items" => r \in run[s].specs
        /\ run[s].phase = "rows" => r \in run[s].specs \/ inbox[r] > 0

InboxInv ==
    /\ TypeOK
    /\ NeverToldTwice
    /\ OwedInHand

(* The five scans.                                                          *)
LEMMA ScansAre ==
    ASSUME NEW n \in 1..5
    PROVE  Scans[n] \in Kinds
  BY DEF Kinds

LEMMA Types ==
    ASSUME InboxInv
    PROVE  /\ kind \in [Items -> Kinds]
           /\ item \in [Items -> Item]
           /\ active \subseteq Users
           /\ today \in 1..LastDay
           /\ inbox \in [Reminders -> Nat]
           /\ read \subseteq Reminders
           /\ run \in [Runs -> Run]
           /\ owed \in [Runs -> SUBSET Reminders]
           /\ reported \in Nat /\ changes \in Nat /\ kills \in Nat
  BY NotificationsAssumption DEF InboxInv, TypeOK

(* At first every inbox is empty.                                           *)
LEMMA InitInbox == Init => InboxInv
  <1> SUFFICES ASSUME Init PROVE InboxInv
    OBVIOUS
  <1>1. Unborn \in Item
    <2>1. (CHOOSE d \in Days : TRUE) \in Days
      BY NotificationsAssumption
    <2>2. QED
      BY <2>1 DEF Unborn, Item
  <1>2. Idle \in Run /\ Idle.phase = "idle"
    BY DEF Idle, Run
  <1>3. TypeOK
    BY <1>1, <1>2, NotificationsAssumption DEF Init, TypeOK
  <1>4. NeverToldTwice /\ OwedInHand
    BY DEF Init, NeverToldTwice, OwedInHand
  <1>5. QED
    BY <1>3, <1>4 DEF InboxInv

-----------------------------------------------------------------------------
(* Whom an item names and a scan may tell is told of it.                    *)
LEMMA NamedAreTold ==
    ASSUME InboxInv, NEW r \in Reminders, CalledFor(r),
           NEW allowed, r[1] \in allowed
    PROVE  r \in Specs(kind[r[2]], allowed)
  <1> DEFINE i == r[2]
  <1>1. r = <<r[1], r[2], r[3]>> /\ i \in Items
    BY DEF Reminders
  <1>2. Due(i) /\ item[i].day = r[3] /\ r[1] \in Named(i)
    BY DEF CalledFor
  <1>3. r[1] \in Recipients(i, allowed)
    BY <1>2 DEF Recipients
  <1>4. i \in DueItems(kind[i])
    BY <1>1, <1>2 DEF DueItems
  <1>5. r \in Recipients(i, allowed) \X {i} \X {item[i].day}
    BY <1>1, <1>2, <1>3
  <1>6. QED
    BY <1>4, <1>5 DEF Specs

(* A scan's specs are reminders.                                            *)
LEMMA SpecsAreReminders ==
    ASSUME InboxInv, NEW k, NEW allowed \in SUBSET Users
    PROVE  Specs(k, allowed) \subseteq Reminders
  <1>1. ASSUME NEW i \in DueItems(k)
        PROVE  Recipients(i, allowed) \X {i} \X {item[i].day} \subseteq Reminders
    <2>1. i \in Items /\ item[i].day \in Days
      BY Types DEF DueItems, Item
    <2>2. Recipients(i, allowed) \subseteq Users
      BY DEF Recipients
    <2>3. QED
      BY <2>1, <2>2 DEF Reminders
  <1>2. QED
    BY <1>1 DEF Specs

(* The scan that finishes stays at most at the last one.                    *)
LEMMA NextScanType ==
    ASSUME InboxInv, NEW s \in Runs, NextScan(s)
    PROVE  /\ run' \in [Runs -> Run]
           /\ run'[s].phase = "idle"
           /\ \A t \in Runs : t # s => run'[t] = run[t]
  <1>1. run[s].scan \in 0..5 /\ run \in [Runs -> Run]
    BY Types DEF Run
  <1> DEFINE next == [Idle EXCEPT !.scan = IF \E n \in Used : run[s].scan < n
                                           THEN run[s].scan ELSE 0]
  <1>2. next \in Run /\ next.phase = "idle"
    BY <1>1 DEF Idle, Run
  <1>3. run' = [run EXCEPT ![s] = next]
    BY DEF NextScan
  <1> HIDE DEF next
  <1>4. QED
    BY <1>1, <1>2, <1>3

(* owed only keeps what was called for when the scan began.                 *)
LEMMA OwedStep ==
    ASSUME InboxInv, TrackOwed, run' \in [Runs -> Run]
    PROVE  /\ owed' \in [Runs -> SUBSET Reminders]
           /\ \A s \in Runs : \A r \in owed'[s] :
                /\ run'[s].phase # "idle"
                /\ kind[r[2]] = Scans[run'[s].scan]
                /\ CalledFor(r)'
                /\ run[s].phase # "idle" => r \in owed[s]
  BY Types DEF TrackOwed

(* A step that leaves a run where it is leaves it what it holds.            *)
LEMMA OthersKeep ==
    ASSUME InboxInv, TrackOwed, kind' = kind, run' \in [Runs -> Run],
           NEW s \in Runs, run'[s] = run[s],
           \A r \in Reminders : inbox'[r] >= inbox[r],
           inbox' \in [Reminders -> Nat],
           NEW r \in owed'[s]
    PROVE  /\ CalledFor(r)'
           /\ (kind[r[2]] = Scans[run[s].scan])'
           /\ run'[s].phase # "idle"
           /\ run'[s].phase = "users" => r[1] \in run'[s].allowed
           /\ run'[s].phase = "items" => r \in run'[s].specs
           /\ run'[s].phase = "rows" => r \in run'[s].specs \/ inbox'[r] > 0
  <1>1. CalledFor(r)' /\ kind[r[2]] = Scans[run'[s].scan] /\ run'[s].phase # "idle"
        /\ r \in owed[s] /\ r \in Reminders
    BY OwedStep
  <1>2. /\ run[s].phase = "users" => r[1] \in run[s].allowed
        /\ run[s].phase = "items" => r \in run[s].specs
        /\ run[s].phase = "rows" => r \in run[s].specs \/ inbox[r] > 0
    BY <1>1 DEF InboxInv, OwedInHand
  <1>3. inbox[r] \in Nat /\ inbox'[r] \in Nat /\ inbox'[r] >= inbox[r]
    BY <1>1, Types
  <1>4. QED
    BY <1>1, <1>2, <1>3
(* What it takes for a step to keep the invariant, besides its types.       *)
LEMMA KeepsInbox ==
    ASSUME InboxInv, TypeOK', NeverToldTwice', TrackOwed, kind' = kind,
           \A r \in Reminders : inbox'[r] >= inbox[r],
           NEW s \in Runs, \A t \in Runs : t # s => run'[t] = run[t],
           \A r \in owed'[s] :
                /\ run'[s].phase = "users" => r[1] \in run'[s].allowed
                /\ run'[s].phase = "items" => r \in run'[s].specs
                /\ run'[s].phase = "rows" => r \in run'[s].specs \/ inbox'[r] > 0
    PROVE  InboxInv'
  <1>1. run' \in [Runs -> Run] /\ inbox' \in [Reminders -> Nat]
    BY DEF TypeOK
  <1>2. ASSUME NEW t \in Runs, NEW r \in owed'[t]
        PROVE  /\ CalledFor(r)'
               /\ (kind[r[2]] = Scans[run[t].scan])'
               /\ run'[t].phase # "idle"
               /\ run'[t].phase = "users" => r[1] \in run'[t].allowed
               /\ run'[t].phase = "items" => r \in run'[t].specs
               /\ run'[t].phase = "rows" => r \in run'[t].specs \/ inbox'[r] > 0
    <2>1. CASE t # s
      BY <2>1, <1>1, <1>2, OthersKeep
    <2>2. CASE t = s
      <3>1. CalledFor(r)' /\ (kind[r[2]] = Scans[run[t].scan])' /\ run'[t].phase # "idle"
        BY <1>1, <1>2, OwedStep
      <3>2. QED
        BY <3>1, <1>2, <2>2
    <2>3. QED
      BY <2>1, <2>2
  <1>3. OwedInHand'
    BY <1>2 DEF OwedInHand
  <1>4. QED
    BY <1>3 DEF InboxInv

-----------------------------------------------------------------------------
(* The steps of a scan.                                                     *)
LEMMA ReadUsersKeeps ==
    ASSUME InboxInv, NEW s \in Runs, ReadUsers(s), History
    PROVE  InboxInv'
  <1>1. PICK n \in Used : run' = [run EXCEPT ![s] = [scan |-> n, phase |-> "users",
                                  allowed |-> Allowed(Scans[n]), specs |-> {}]]
    BY DEF ReadUsers
  <1>2. n \in 1..5
    BY DEF Used
  <1>3. Allowed(Scans[n]) \in SUBSET Users
    BY Types DEF Allowed
  <1> DEFINE new == [scan |-> n, phase |-> "users",
                     allowed |-> Allowed(Scans[n]), specs |-> {}]
  <1>4. new \in Run /\ new.phase = "users" /\ new.scan = n
        /\ new.allowed = Allowed(Scans[n])
    BY <1>2, <1>3 DEF Run
  <1>5. run' = [run EXCEPT ![s] = new]
    BY <1>1
  <1> HIDE DEF new
  <1>6. run' \in [Runs -> Run] /\ run'[s] = new /\ \A t \in Runs : t # s => run'[t] = run[t]
    BY <1>4, <1>5, Types
  <1>7. UNCHANGED <<kind, item, active, today, inbox, read, reported, changes, kills>>
        /\ TrackOwed
    BY DEF ReadUsers, History
  <1>8. TypeOK'
    <2>1. \A t \in Runs : run'[t].phase # "idle" => run'[t].scan # 0
      BY <1>2, <1>4, <1>6 DEF InboxInv, TypeOK
    <2>2. owed' \in [Runs -> SUBSET Reminders]
      BY <1>6, <1>7, OwedStep
    <2>3. QED
      BY <2>1, <2>2, <1>6, <1>7 DEF InboxInv, TypeOK
  <1>9. ASSUME NEW r \in owed'[s]
        PROVE  r[1] \in run'[s].allowed
    <2>1. CalledFor(r)' /\ kind[r[2]] = Scans[n]
      BY <1>4, <1>6, <1>7, <1>9, OwedStep
    <2>2. CalledFor(r)
      BY <2>1, <1>7 DEF CalledFor, Due, Named, Allowed
    <2>3. r[1] \in Allowed(Scans[n])
      BY <2>1, <2>2 DEF CalledFor
    <2>4. QED
      BY <2>3, <1>4, <1>6
  <1>10. NeverToldTwice'
    BY <1>7 DEF InboxInv, NeverToldTwice
  <1>11. \A r \in Reminders : inbox'[r] >= inbox[r]
    BY <1>7, Types
  <1>12. QED
    BY <1>4, <1>6, <1>7, <1>8, <1>9, <1>10, <1>11, KeepsInbox

(* A scan that finishes without inserting owes nothing.                     *)
LEMMA FinishKeeps ==
    ASSUME InboxInv, NEW s \in Runs, NextScan(s), History,
           UNCHANGED <<item, active, today, changes, kills>>,
           inbox' \in [Reminders -> Nat], read' \in SUBSET Reminders,
           \A r \in Reminders : inbox'[r] >= inbox[r] /\ inbox'[r] <= 1,
           read' = read, reported' \in Nat
    PROVE  InboxInv'
  <1>1. /\ run' \in [Runs -> Run] /\ run'[s].phase = "idle"
        /\ \A t \in Runs : t # s => run'[t] = run[t]
    BY NextScanType
  <1>2. kind' = kind /\ TrackOwed
    BY DEF History
  <1>3. owed' \in [Runs -> SUBSET Reminders]
    BY <1>1, <1>2, OwedStep
  <1>4. TypeOK'
    <2>1. \A t \in Runs : run'[t].phase # "idle" => run'[t].scan # 0
      BY <1>1 DEF InboxInv, TypeOK
    <2>2. read' \subseteq {r \in Reminders : inbox'[r] > 0}
      BY Types DEF InboxInv, TypeOK
    <2>3. QED
      BY <1>1, <1>2, <1>3, <2>1, <2>2 DEF InboxInv, TypeOK
  <1>5. NeverToldTwice'
    BY DEF NeverToldTwice
  <1>6. QED
    BY <1>1, <1>2, <1>4, <1>5, KeepsInbox

(* What a scan step promises about the run it belongs to.                   *)
TellsAll(s) ==
    run'[s].phase = "idle" => \A r \in owed[s] : inbox'[r] > 0

(* Moving on to the next step of the scan with its specs.                   *)
LEMMA MoveKeeps ==
    ASSUME InboxInv, NEW s \in Runs, History,
           UNCHANGED <<item, active, today, inbox, read, reported, changes, kills>>,
           run[s].phase # "idle",
           NEW p \in {"items", "rows"}, NEW specs \in SUBSET Reminders,
           run' = [run EXCEPT ![s].phase = p, ![s].specs = specs],
           \A r \in owed[s] : r \in specs \/ (p = "rows" /\ inbox[r] > 0)
    PROVE  InboxInv' /\ run'[s].phase = p
  <1>1. run[s] \in Run
    BY Types
  <1> DEFINE new == [run[s] EXCEPT !.phase = p, !.specs = specs]
  <1>2. new \in Run /\ new.phase = p /\ new.specs = specs /\ new.scan = run[s].scan
    BY <1>1 DEF Run
  <1>3. run' = [run EXCEPT ![s] = new]
    BY Types
  <1> HIDE DEF new
  <1>4. run' \in [Runs -> Run] /\ run'[s] = new /\ \A t \in Runs : t # s => run'[t] = run[t]
    BY <1>2, <1>3, Types
  <1>5. kind' = kind /\ TrackOwed
    BY DEF History
  <1>6. TypeOK'
    <2>1. \A t \in Runs : run'[t].phase # "idle" => run'[t].scan # 0
      BY <1>2, <1>4 DEF InboxInv, TypeOK
    <2>2. owed' \in [Runs -> SUBSET Reminders]
      BY <1>4, <1>5, OwedStep
    <2>3. QED
      BY <2>1, <2>2, <1>4, <1>5 DEF InboxInv, TypeOK
  <1>7. ASSUME NEW r \in owed'[s]
        PROVE  /\ run'[s].phase = "users" => r[1] \in run'[s].allowed
               /\ run'[s].phase = "items" => r \in run'[s].specs
               /\ run'[s].phase = "rows" => r \in run'[s].specs \/ inbox'[r] > 0
    <2>1. r \in owed[s]
      BY <1>4, <1>5, <1>7, OwedStep
    <2>2. QED
      BY <2>1, <1>2, <1>4
  <1>8. NeverToldTwice'
    BY DEF InboxInv, NeverToldTwice
  <1>9. \A r \in Reminders : inbox'[r] >= inbox[r]
    BY Types
  <1>10. QED
    BY <1>2, <1>4, <1>5, <1>6, <1>7, <1>8, <1>9, KeepsInbox

(* The scan reads the records: what is owed is among the specs, so a scan   *)
(* without specs owes nothing.                                              *)
LEMMA ReadItemsKeeps ==
    ASSUME InboxInv, NEW s \in Runs, ReadItems(s), History
    PROVE  InboxInv' /\ TellsAll(s) /\ read' = read
  <1> DEFINE specs == Specs(Scans[run[s].scan], run[s].allowed)
  <1>1. run[s].allowed \in SUBSET Users
    BY Types DEF Run
  <1>2. specs \in SUBSET Reminders
    BY <1>1, SpecsAreReminders
  <1>3. \A r \in owed[s] : r \in specs
    <2> TAKE r \in owed[s]
    <2>1. CalledFor(r) /\ kind[r[2]] = Scans[run[s].scan] /\ r[1] \in run[s].allowed
      BY DEF InboxInv, OwedInHand, ReadItems
    <2>2. r \in Reminders
      BY Types
    <2>3. QED
      BY <2>1, <2>2, NamedAreTold
  <1>4. UNCHANGED <<item, active, today, inbox, read, reported, changes, kills>>
        /\ run[s].phase = "users"
    BY DEF ReadItems
  <1> HIDE DEF specs
  <1>5. CASE specs = {}
    <2>1. NextScan(s)
      BY <1>5 DEF ReadItems, specs
    <2>2. \A r \in Reminders : inbox'[r] >= inbox[r] /\ inbox'[r] <= 1
      BY <1>4, Types DEF InboxInv, NeverToldTwice
    <2>3. InboxInv'
      BY <1>4, <2>1, <2>2, Types, FinishKeeps
    <2>4. QED
      BY <2>3, <1>3, <1>4, <1>5 DEF TellsAll
  <1>6. CASE specs # {}
    <2>1. run' = [run EXCEPT ![s].phase = "items", ![s].specs = specs]
      BY <1>6 DEF ReadItems, specs
    <2>2. InboxInv' /\ run'[s].phase = "items"
      BY <1>2, <1>3, <1>4, <2>1, MoveKeeps
    <2>3. QED
      BY <2>2, <1>4 DEF TellsAll
  <1>7. QED
    BY <1>5, <1>6

(* bulk_notify's lookup drops only what is in the inbox already.            *)
LEMMA LookUpKeeps ==
    ASSUME InboxInv, NEW s \in Runs, LookUp(s), History
    PROVE  InboxInv' /\ TellsAll(s) /\ read' = read
  <1> DEFINE rows == Missing(run[s].specs)
  <1>1. rows \in SUBSET Reminders
    BY Types DEF Run, Missing
  <1>2. \A r \in owed[s] : r \in rows \/ inbox[r] > 0
    <2> TAKE r \in owed[s]
    <2>1. r \in run[s].specs
      BY DEF InboxInv, OwedInHand, LookUp
    <2>2. r \in Reminders /\ inbox[r] \in Nat
      BY Types
    <2>3. QED
      BY <2>1, <2>2 DEF Missing
  <1>3. UNCHANGED <<item, active, today, inbox, read, reported, changes, kills>>
        /\ run[s].phase = "items"
    BY DEF LookUp
  <1> HIDE DEF rows
  <1>4. CASE rows = {}
    <2>1. NextScan(s)
      BY <1>4 DEF LookUp, rows
    <2>2. \A r \in Reminders : inbox'[r] >= inbox[r] /\ inbox'[r] <= 1
      BY <1>3, Types DEF InboxInv, NeverToldTwice
    <2>3. InboxInv'
      BY <1>3, <2>1, <2>2, Types, FinishKeeps
    <2>4. QED
      BY <2>3, <1>2, <1>3, <1>4 DEF TellsAll
  <1>5. CASE rows # {}
    <2>1. run' = [run EXCEPT ![s].phase = "rows", ![s].specs = rows]
      BY <1>5 DEF LookUp, rows
    <2>2. InboxInv' /\ run'[s].phase = "rows"
      BY <1>1, <1>2, <1>3, <2>1, MoveKeeps
    <2>3. QED
      BY <2>2, <1>3 DEF TellsAll
  <1>6. QED
    BY <1>4, <1>5

(* The insert puts every row that is still missing in its inbox, once.      *)
LEMMA InsertKeeps ==
    ASSUME InboxInv, NEW s \in Runs, Insert(s), History,
           reported + Cardinality(run[s].specs) \in Nat
    PROVE  InboxInv' /\ TellsAll(s) /\ read' = read
  <1>1. /\ inbox' = [r \in Reminders |-> IF r \in run[s].specs /\ inbox[r] = 0
                                         THEN 1 ELSE inbox[r]]
        /\ UNCHANGED <<item, active, today, read, changes, kills>>
        /\ NextScan(s) /\ run[s].phase = "rows" /\ reported' \in Nat
    BY DEF Insert
  <1>2. inbox' \in [Reminders -> Nat]
        /\ \A r \in Reminders : inbox'[r] >= inbox[r] /\ inbox'[r] <= 1
    BY <1>1, Types DEF InboxInv, NeverToldTwice
  <1>3. InboxInv'
    BY <1>1, <1>2, Types, FinishKeeps
  <1>4. ASSUME NEW r \in owed[s]
        PROVE  inbox'[r] > 0
    <2>1. r \in run[s].specs \/ inbox[r] > 0
      BY <1>1 DEF InboxInv, OwedInHand
    <2>2. r \in Reminders /\ inbox[r] \in Nat
      BY Types
    <2>3. QED
      BY <1>1, <2>1, <2>2
  <1>5. QED
    BY <1>1, <1>3, <1>4 DEF TellsAll
-----------------------------------------------------------------------------
(* Steps that are none of a scan's: readers, changes to items and users.    *)
LEMMA QuietKeeps ==
    ASSUME InboxInv, History, run' = run, inbox' = inbox,
           item' \in [Items -> Item], active' \in SUBSET Users, today' \in 1..LastDay,
           read' \in SUBSET {r \in Reminders : inbox[r] > 0},
           reported' = reported, changes' \in 0..MaxChanges, kills' = kills
    PROVE  InboxInv'
  <1>1. kind' = kind /\ TrackOwed /\ run' \in [Runs -> Run]
    BY Types DEF History
  <1>2. owed' \in [Runs -> SUBSET Reminders]
    BY <1>1, OwedStep
  <1>3. TypeOK'
    BY <1>1, <1>2 DEF InboxInv, TypeOK
  <1>4. NeverToldTwice'
    BY DEF InboxInv, NeverToldTwice
  <1>5. inbox' \in [Reminders -> Nat] /\ \A r \in Reminders : inbox'[r] >= inbox[r]
    BY Types
  <1>6. ASSUME NEW s \in Runs, NEW r \in owed'[s]
        PROVE  /\ CalledFor(r)'
               /\ (kind[r[2]] = Scans[run[s].scan])'
               /\ run'[s].phase # "idle"
               /\ run'[s].phase = "users" => r[1] \in run'[s].allowed
               /\ run'[s].phase = "items" => r \in run'[s].specs
               /\ run'[s].phase = "rows" => r \in run'[s].specs \/ inbox'[r] > 0
    BY <1>1, <1>5, <1>6, OthersKeep
  <1>7. OwedInHand'
    BY <1>6 DEF OwedInHand
  <1>8. QED
    BY <1>3, <1>4, <1>7 DEF InboxInv

LEMMA KillKeeps ==
    ASSUME InboxInv, NEW s \in Runs, Kill(s), History
    PROVE  InboxInv'
  <1>1. Idle \in Run /\ Idle.phase = "idle"
    BY DEF Idle, Run
  <1>2. /\ run' = [run EXCEPT ![s] = Idle]
        /\ UNCHANGED <<kind, item, active, today, inbox, read, reported, changes>>
        /\ kills' \in 0..MaxKills /\ TrackOwed
    BY Types, NotificationsAssumption DEF InboxInv, TypeOK, Kill, History
  <1>3. run' \in [Runs -> Run] /\ run'[s] = Idle /\ \A t \in Runs : t # s => run'[t] = run[t]
    BY <1>1, <1>2, Types
  <1>4. TypeOK'
    <2>1. \A t \in Runs : run'[t].phase # "idle" => run'[t].scan # 0
      BY <1>1, <1>3 DEF InboxInv, TypeOK
    <2>2. owed' \in [Runs -> SUBSET Reminders]
      BY <1>2, <1>3, OwedStep
    <2>3. QED
      BY <2>1, <2>2, <1>2, <1>3 DEF InboxInv, TypeOK
  <1>5. NeverToldTwice' /\ \A r \in Reminders : inbox'[r] >= inbox[r]
    BY <1>2, Types DEF InboxInv, NeverToldTwice
  <1>6. QED
    BY <1>1, <1>2, <1>3, <1>4, <1>5, KeepsInbox

(* There are finitely many reminders, so a count of them is a number.       *)
LEMMA CountsAreNat ==
    ASSUME InboxInv, NEW s \in Runs
    PROVE  reported + Cardinality(run[s].specs) \in Nat
  <1> DEFINE Pairs == (Users \X Items) \X Days
             f == [p \in Pairs |-> <<p[1][1], p[1][2], p[2]>>]
  <1>1. IsFiniteSet(Users \X Items)
    BY NotificationsAssumption, FS_Product
  <1>2. IsFiniteSet(Pairs)
    BY <1>1, NotificationsAssumption, FS_Product
  <1>3. f \in Surjection(Pairs, Reminders)
    <2>1. f \in [Pairs -> Reminders]
      BY DEF Reminders
    <2>2. ASSUME NEW r \in Reminders
          PROVE  \E p \in Pairs : f[p] = r
      <3>1. r = <<r[1], r[2], r[3]>> /\ <<<<r[1], r[2]>>, r[3]>> \in Pairs
        BY DEF Reminders
      <3>2. f[<<<<r[1], r[2]>>, r[3]>>] = r
        BY <3>1
      <3>3. QED
        BY <3>1, <3>2
    <2>3. QED
      BY <2>1, <2>2 DEF Surjection
  <1>4. IsFiniteSet(Reminders)
    BY <1>2, <1>3, FS_Surjection
  <1>5. run[s].specs \subseteq Reminders
    BY Types DEF Run
  <1>6. Cardinality(run[s].specs) \in Nat
    BY <1>4, <1>5, FS_Subset, FS_CardinalityType
  <1>7. QED
    BY <1>6, Types

(* What a step may do: keep the invariant and every read mark, and leave    *)
(* nobody out unless it kills the run.                                      *)
StepIsFair ==
    \A s \in Runs : run[s].phase # "idle" /\ kills' = kills => TellsAll(s)

(* A run another run's step leaves alone is still where it was.             *)
LEMMA ScanStep ==
    ASSUME InboxInv, NEW s \in Runs, Scan(s), History
    PROVE  InboxInv' /\ StepIsFair /\ read \subseteq read'
  <1>1. \A t \in Runs : t # s => run'[t] = run[t]
    <2>1. CASE ReadUsers(s)
      BY <2>1, Types DEF ReadUsers
    <2>2. CASE ReadItems(s)
      BY <2>2, Types, NextScanType DEF ReadItems
    <2>3. CASE LookUp(s)
      BY <2>3, Types, NextScanType DEF LookUp
    <2>4. CASE Insert(s)
      BY <2>4, NextScanType DEF Insert
    <2>5. QED
      BY <2>1, <2>2, <2>3, <2>4 DEF Scan
  <1>2. InboxInv' /\ read' = read /\ (run[s].phase # "idle" => TellsAll(s))
    <2>1. CASE ReadUsers(s)
      BY <2>1, ReadUsersKeeps DEF ReadUsers
    <2>2. CASE ReadItems(s)
      BY <2>2, ReadItemsKeeps
    <2>3. CASE LookUp(s)
      BY <2>3, LookUpKeeps
    <2>4. CASE Insert(s)
      BY <2>4, CountsAreNat, InsertKeeps
    <2>5. QED
      BY <2>1, <2>2, <2>3, <2>4 DEF Scan
  <1>3. \A t \in Runs : t # s /\ run[t].phase # "idle" => TellsAll(t)
    BY <1>1 DEF TellsAll
  <1>4. QED
    BY <1>2, <1>3 DEF StepIsFair

LEMMA NextIsFair ==
    ASSUME InboxInv, [Next]_vars
    PROVE  InboxInv' /\ StepIsFair /\ read \subseteq read'
  <1>1. ASSUME NEW s \in Runs, Scan(s), History
        PROVE  InboxInv' /\ StepIsFair /\ read \subseteq read'
    BY <1>1, ScanStep
  <1>2. ASSUME NEW s \in Runs, Kill(s), History
        PROVE  InboxInv' /\ StepIsFair /\ read \subseteq read'
    <2>1. kills' # kills /\ read' = read
      BY <1>2, Types DEF Kill
    <2>2. QED
      BY <1>2, <2>1, KillKeeps DEF StepIsFair
  <1>3. ASSUME NEW r \in Reminders, MarkRead(r), History
        PROVE  InboxInv' /\ StepIsFair /\ read \subseteq read'
    <2>1. read' = read \cup {r} /\ inbox[r] > 0
          /\ UNCHANGED <<item, active, today, inbox, run, reported, changes, kills>>
      BY <1>3 DEF MarkRead
    <2>2. read' \in SUBSET {q \in Reminders : inbox[q] > 0}
      BY <2>1 DEF InboxInv, TypeOK
    <2>3. InboxInv'
      BY <1>3, <2>1, <2>2, QuietKeeps DEF InboxInv, TypeOK
    <2>4. QED
      BY <2>1, <2>3 DEF StepIsFair, TellsAll
  <1>4. ASSUME NEW u \in Users, MarkAllRead(u), History
        PROVE  InboxInv' /\ StepIsFair /\ read \subseteq read'
    <2>1. read' = read \cup {r \in Reminders \ read : r[1] = u /\ inbox[r] > 0}
          /\ UNCHANGED <<item, active, today, inbox, run, reported, changes, kills>>
      BY <1>4 DEF MarkAllRead
    <2>2. read' \in SUBSET {q \in Reminders : inbox[q] > 0}
      BY <2>1 DEF InboxInv, TypeOK
    <2>3. InboxInv'
      BY <1>4, <2>1, <2>2, QuietKeeps DEF InboxInv, TypeOK
    <2>4. QED
      BY <2>1, <2>3 DEF StepIsFair, TellsAll
  <1>5. ASSUME NEW i \in Items, NEW new \in Item, ChangeItem(i, new), History
        PROVE  InboxInv' /\ StepIsFair /\ read \subseteq read'
    <2>1. /\ item' = [item EXCEPT ![i] = new] /\ changes' \in 0..MaxChanges
          /\ UNCHANGED <<active, today, inbox, read, run, reported, kills>>
      BY <1>5, Types, NotificationsAssumption DEF ChangeItem, InboxInv, TypeOK
    <2>2. item' \in [Items -> Item]
      BY <2>1, Types
    <2>3. InboxInv'
      BY <1>5, <2>1, <2>2, QuietKeeps DEF InboxInv, TypeOK
    <2>4. QED
      BY <2>1, <2>3 DEF StepIsFair, TellsAll
  <1>6. ASSUME NEW u \in Users, ChangeUser(u), History
        PROVE  InboxInv' /\ StepIsFair /\ read \subseteq read'
    <2>1. /\ active' \in SUBSET Users /\ changes' \in 0..MaxChanges
          /\ UNCHANGED <<item, today, inbox, read, run, reported, kills>>
      BY <1>6, Types, NotificationsAssumption DEF ChangeUser, InboxInv, TypeOK
    <2>2. InboxInv'
      BY <1>6, <2>1, QuietKeeps DEF InboxInv, TypeOK
    <2>3. QED
      BY <2>1, <2>2 DEF StepIsFair, TellsAll
  <1>7. ASSUME DayPasses, History
        PROVE  InboxInv' /\ StepIsFair /\ read \subseteq read'
    <2>1. /\ today' \in 1..LastDay
          /\ UNCHANGED <<item, active, inbox, read, run, reported, changes, kills>>
      BY <1>7, NotificationsAssumption DEF DayPasses, InboxInv, TypeOK
    <2>2. InboxInv'
      BY <1>7, <2>1, QuietKeeps DEF InboxInv, TypeOK
    <2>3. QED
      BY <2>1, <2>2 DEF StepIsFair, TellsAll
  <1>8. ASSUME UNCHANGED vars
        PROVE  InboxInv' /\ StepIsFair /\ read \subseteq read'
    <2>1. InboxInv'
      BY <1>8 DEF vars, InboxInv, TypeOK, NeverToldTwice, OwedInHand, CalledFor, Due,
                  Named, Allowed
    <2>2. QED
      BY <1>8, <2>1 DEF vars, StepIsFair, TellsAll
  <1>9. QED
    BY <1>1, <1>2, <1>3, <1>4, <1>5, <1>6, <1>7, <1>8 DEF Next

LEMMA InboxStaysSound == Spec => []InboxInv
  <1>1. InboxInv /\ [Next]_vars => InboxInv'
    BY NextIsFair
  <1>2. QED
    BY InitInbox, <1>1, PTL DEF Spec

-----------------------------------------------------------------------------
(* The inbox, the runs and the read marks keep their shape, for any number  *)
(* of runs, items and users.                                                *)
THEOREM InboxTypeCorrect == Spec => []TypeOK
  <1>1. InboxInv => TypeOK
    BY DEF InboxInv
  <1>2. QED
    BY <1>1, InboxStaysSound, PTL

(* bulk_notify never puts a reminder in an inbox twice, however many runs   *)
(* of the command overlap.                                                  *)
THEOREM NobodyToldTwice == Spec => []NeverToldTwice
  <1>1. InboxInv => NeverToldTwice
    BY DEF InboxInv
  <1>2. QED
    BY <1>1, InboxStaysSound, PTL

(* No scan, and nothing else, makes a read reminder unread.                 *)
THEOREM ReadStaysRead == Spec => ReadIsForever
  <1>1. InboxInv /\ [Next]_vars => [read \subseteq read']_vars
    BY NextIsFair
  <1>2. QED
    BY <1>1, InboxStaysSound, PTL DEF Spec, ReadIsForever

(* A scan that ends has told everybody its items named throughout.          *)
THEOREM NobodyLeftOut == Spec => ScanLeavesNobodyOut
  <1> DEFINE Told == \A s \in Runs :
          run[s].phase # "idle" /\ run'[s].phase = "idle" /\ kills' = kills
             => \A r \in owed[s] : inbox'[r] > 0
  <1>1. InboxInv /\ [Next]_vars => Told
    BY NextIsFair DEF StepIsFair, TellsAll
  <1> HIDE DEF Told
  <1>2. Spec => [][Told]_vars
    BY <1>1, InboxStaysSound, PTL DEF Spec
  <1>3. QED
    BY <1>2 DEF ScanLeavesNobodyOut, Told
=============================================================================
