----------------------------- MODULE Numbering ------------------------------
(***************************************************************************)
(* core/numbering.py: next_number inside the transaction that writes the   *)
(* numbered row, for any number of concurrent transactions on PostgreSQL   *)
(* (READ COMMITTED), the first of a new scope or year included.             *)
(*                                                                          *)
(* get_or_create is a SELECT ... FOR UPDATE that may find nothing, an       *)
(* INSERT under a savepoint that may collide with another transaction's     *)
(* row, and then a second SELECT ... FOR UPDATE.  The row stays locked      *)
(* until the transaction ends.                                              *)
(***************************************************************************)
EXTENDS Integers, Sequences

CONSTANTS
    Workers,     \* concurrent transactions
    Keys,        \* (scope, period) pairs
    NoKey,       \* no key
    MaxNumber    \* bound: no transaction begins on a key with this many numbers

ASSUME NumberingAssumption == NoKey \notin Keys /\ MaxNumber \in Nat

VARIABLES
    last,        \* core_numbersequence.last_value, NoRow before the first INSERT
    issued,      \* the numbers of the committed rows of each key, oldest first
    tx           \* the transaction of each worker

vars == <<last, issued, tx>>

NoRow == -1

Phases  == {"idle", "reading", "inserting", "rereading", "owner", "numbered"}
Holding == {"owner", "numbered"}

Idle == [phase |-> "idle", key |-> NoKey, value |-> 0]

Init ==
    /\ last = [k \in Keys |-> NoRow]
    /\ issued = [k \in Keys |-> <<>>]
    /\ tx = [w \in Workers |-> Idle]

-----------------------------------------------------------------------------
(* Nobody else holds the sequence row of k, inserted or locked.  The        *)
(* "Mutant" definitions are plausible bugs of the definition below them.    *)
LockFreeMutant(k) == k \in Keys
LockFree(k) == \A v \in Workers : ~(tx[v].phase \in Holding /\ tx[v].key = k)

Finish(w) == tx' = [tx EXCEPT ![w] = Idle]
Move(w, phase) == tx' = [tx EXCEPT ![w].phase = phase]

Begin(w, k) ==
    /\ tx[w].phase = "idle"
    /\ Len(issued[k]) < MaxNumber
    /\ tx' = [tx EXCEPT ![w] = [phase |-> "reading", key |-> k, value |-> 0]]
    /\ UNCHANGED <<last, issued>>

(* The get of get_or_create, or its second get after a collision: waits for *)
(* the row lock.                                                            *)
Read(w) ==
    /\ tx[w].phase \in {"reading", "rereading"}
    /\ last[tx[w].key] # NoRow
    /\ LockFree(tx[w].key)
    /\ Move(w, "owner")
    /\ UNCHANGED <<last, issued>>

(* DoesNotExist: another transaction's uncommitted INSERT is not seen.      *)
Miss(w) ==
    /\ tx[w].phase = "reading"
    /\ last[tx[w].key] = NoRow
    /\ Move(w, "inserting")
    /\ UNCHANGED <<last, issued>>

(* The INSERT: waits for an uncommitted row with the same (scope, period),  *)
(* and succeeds if that one was rolled back.                                *)
Insert(w) ==
    /\ tx[w].phase = "inserting"
    /\ last[tx[w].key] = NoRow
    /\ LockFree(tx[w].key)
    /\ Move(w, "owner")
    /\ UNCHANGED <<last, issued>>

(* IntegrityError on numbersequence_scope_period_uniq: back to the get.     *)
CollideMutant(w) ==
    /\ tx[w].phase = "inserting"
    /\ last[tx[w].key] # NoRow
    /\ Move(w, "inserting")
    /\ UNCHANGED <<last, issued>>
Collide(w) ==
    /\ tx[w].phase = "inserting"
    /\ last[tx[w].key] # NoRow
    /\ Move(w, "rereading")
    /\ UNCHANGED <<last, issued>>

(* last_value = F("last_value") + 1, evaluated on the locked row.           *)
IncrementedMutant(k) == last[k]
Incremented(k) == IF last[k] = NoRow THEN 1 ELSE last[k] + 1

Increment(w) ==
    /\ tx[w].phase = "owner"
    /\ tx' = [tx EXCEPT ![w] = [@ EXCEPT !.phase = "numbered",
                                         !.value = Incremented(tx[w].key)]]
    /\ UNCHANGED <<last, issued>>

(* The outer transaction wrote the numbered row and commits both.           *)
CommitMutant(w) ==
    /\ tx[w].phase = "numbered"
    /\ issued' = [issued EXCEPT ![tx[w].key] = Append(@, tx[w].value)]
    /\ Finish(w)
    /\ UNCHANGED last
Commit(w) ==
    /\ tx[w].phase = "numbered"
    /\ last' = [last EXCEPT ![tx[w].key] = tx[w].value]
    /\ issued' = [issued EXCEPT ![tx[w].key] = Append(@, tx[w].value)]
    /\ Finish(w)

(* A later failure, or a worker that dies: the increment, or the new        *)
(* sequence row, goes with the transaction.                                 *)
RollbackMutant(w) ==
    /\ tx[w].phase # "idle"
    /\ last' = IF tx[w].phase = "numbered"
               THEN [last EXCEPT ![tx[w].key] = tx[w].value] ELSE last
    /\ Finish(w)
    /\ UNCHANGED issued
Rollback(w) ==
    /\ tx[w].phase # "idle"
    /\ Finish(w)
    /\ UNCHANGED <<last, issued>>

-----------------------------------------------------------------------------
Step(w) ==
    \/ Read(w)
    \/ Miss(w)
    \/ Insert(w)
    \/ Collide(w)
    \/ Increment(w)
    \/ Commit(w)

Next == \E w \in Workers : (\E k \in Keys : Begin(w, k)) \/ Step(w) \/ Rollback(w)

Spec == Init /\ [][Next]_vars

(* A request runs until it ends, and PostgreSQL serves the waiters of a row *)
(* lock in turn, so none is passed over for ever.                           *)
Fairness == \A w \in Workers : SF_vars(Step(w))

LiveSpec == Spec /\ Fairness

-----------------------------------------------------------------------------
(* Type invariant: a sequence row holds a value it handed out.              *)
TypeOK ==
    /\ last \in [Keys -> Nat \cup {NoRow}]
    /\ issued \in [Keys -> Seq(Nat)]
    /\ tx \in [Workers -> [phase : Phases, key : Keys \cup {NoKey}, value : Nat]]

(* The committed rows of a key carry 1, 2, 3, ... in commit order: no two   *)
(* share a number, a rolled-back transaction leaves no hole, and a later    *)
(* row never has the smaller number, the first rows of a new year included. *)
NumberedInOrder ==
    \A k \in Keys : \A n \in 1..Len(issued[k]) : issued[k][n] = n

(* The stored counter is the number of rows it numbered, so it can neither  *)
(* fall behind them nor run ahead.                                          *)
CounterMatchesRows ==
    \A k \in Keys : last[k] = IF issued[k] = <<>> THEN NoRow ELSE Len(issued[k])

(* Every transaction ends: waiting for the row lock, and losing the race to *)
(* insert the first row, always resolve.                                    *)
EveryRequestEnds ==
    \A w \in Workers : tx[w].phase # "idle" ~> tx[w].phase = "idle"

(* The callers see the abstract source of numbers.                          *)
Source == INSTANCE NumberSource
ImplementsSource == Source!NSpec

-----------------------------------------------------------------------------
(* The strengthening: the owner of a key is alone, and the value it is      *)
(* about to commit is the next one.                                         *)

BusyHasKey == \A w \in Workers : tx[w].phase # "idle" => tx[w].key \in Keys

OwnerAlone ==
    \A v, w \in Workers :
        /\ tx[v].phase \in Holding
        /\ tx[w].phase \in Holding
        /\ tx[v].key = tx[w].key
        => v = w

ValueIsNext ==
    \A w \in Workers :
        tx[w].phase = "numbered" => tx[w].value = Len(issued[tx[w].key]) + 1

NumberingInv ==
    /\ TypeOK
    /\ BusyHasKey
    /\ NumberedInOrder
    /\ CounterMatchesRows
    /\ OwnerAlone
    /\ ValueIsNext
=============================================================================
