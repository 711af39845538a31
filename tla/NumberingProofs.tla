-------------------------- MODULE NumberingProofs ---------------------------
(***************************************************************************)
(* Proofs about Numbering, for any number of transactions, scopes and      *)
(* periods.                                                                *)
(***************************************************************************)
EXTENDS Numbering, TLAPS

(* The counter a transaction reads under its lock is the number of          *)
(* committed rows.                                                          *)
LEMMA IncrementedIsNext ==
    ASSUME NumberingInv, NEW k \in Keys
    PROVE  Incremented(k) = Len(issued[k]) + 1
  <1>1. issued[k] \in Seq(Nat) /\ last[k] = IF issued[k] = <<>> THEN NoRow ELSE Len(issued[k])
    BY DEF NumberingInv, TypeOK, CounterMatchesRows
  <1>2. CASE issued[k] = <<>>
    BY <1>1, <1>2 DEF Incremented, NoRow
  <1>3. CASE issued[k] # <<>>
    BY <1>1, <1>3 DEF Incremented, NoRow
  <1>4. QED
    BY <1>2, <1>3

(* At first no key has a row.                                               *)
LEMMA InitNumberingInv == Init => NumberingInv
  BY NumberingAssumption
  DEF Init, NumberingInv, TypeOK, BusyHasKey, NumberedInOrder, CounterMatchesRows,
      OwnerAlone, ValueIsNext, Idle, NoRow, Phases, Holding

(* A step that only moves one transaction, to a phase that does not hold    *)
(* the row.                                                                 *)
LEMMA MoveKeepsInv ==
    ASSUME NumberingInv, NEW w \in Workers, UNCHANGED <<last, issued>>,
           NEW t \in [phase : Phases \ Holding, key : Keys \cup {NoKey}, value : Nat],
           tx' = [tx EXCEPT ![w] = t],
           t.phase # "idle" => t.key \in Keys
    PROVE  NumberingInv'
  <1> USE DEF NumberingInv
  <1>1. \A v \in Workers : tx'[v] = IF v = w THEN t ELSE tx[v]
    BY DEF TypeOK
  <1>2. TypeOK'
    BY DEF TypeOK, Phases
  <1>3. NumberedInOrder' /\ CounterMatchesRows'
    BY DEF NumberedInOrder, CounterMatchesRows
  <1>4. BusyHasKey'
    BY <1>1 DEF BusyHasKey
  <1>5. OwnerAlone' /\ ValueIsNext'
    BY <1>1 DEF OwnerAlone, ValueIsNext, Holding
  <1>6. QED
    BY <1>2, <1>3, <1>4, <1>5

(* A transaction that takes a free row.                                     *)
LEMMA TakeKeepsInv ==
    ASSUME NumberingInv, NEW w \in Workers, UNCHANGED <<last, issued>>,
           tx[w].phase # "idle", LockFree(tx[w].key), Move(w, "owner")
    PROVE  NumberingInv'
  <1> USE DEF NumberingInv
  <1> DEFINE t == [tx[w] EXCEPT !.phase = "owner"]
  <1>1. /\ tx[w] \in [phase : Phases, key : Keys \cup {NoKey}, value : Nat]
        /\ tx[w].key \in Keys
    BY DEF TypeOK, BusyHasKey
  <1>2. /\ tx' = [tx EXCEPT ![w] = t]
        /\ t \in [phase : Phases, key : Keys \cup {NoKey}, value : Nat]
        /\ t.phase = "owner" /\ t.key = tx[w].key
    BY <1>1 DEF Move, TypeOK, Phases
  <1> HIDE DEF t
  <1>3. \A v \in Workers : tx'[v] = IF v = w THEN t ELSE tx[v]
    BY <1>2 DEF TypeOK
  <1>4. TypeOK'
    BY <1>2 DEF TypeOK
  <1>5. NumberedInOrder' /\ CounterMatchesRows'
    BY DEF NumberedInOrder, CounterMatchesRows
  <1>6. BusyHasKey'
    BY <1>1, <1>2, <1>3 DEF BusyHasKey
  <1>7. OwnerAlone'
    BY <1>2, <1>3 DEF OwnerAlone, LockFree
  <1>8. ValueIsNext'
    BY <1>2, <1>3 DEF ValueIsNext
  <1>9. QED
    BY <1>4, <1>5, <1>6, <1>7, <1>8

(* A transaction that was handed a number is a transaction.                 *)
LEMMA NumberedTx ==
    ASSUME NEW x \in [phase : Phases, key : Keys \cup {NoKey}, value : Nat],
           NEW m \in Nat
    PROVE  LET t == [x EXCEPT !.phase = "numbered", !.value = m]
           IN  /\ t \in [phase : Phases, key : Keys \cup {NoKey}, value : Nat]
               /\ t.phase = "numbered" /\ t.key = x.key
               /\ t.value = m
  BY DEF Phases

(* The increment hands a transaction the number after the committed rows.   *)
LEMMA IncrementKeepsInv ==
    ASSUME NumberingInv, NEW w \in Workers, Increment(w)
    PROVE  NumberingInv'
  <1> USE DEF NumberingInv
  <1> DEFINE t == [tx[w] EXCEPT !.phase = "numbered", !.value = Incremented(tx[w].key)]
  <1>1. /\ tx[w] \in [phase : Phases, key : Keys \cup {NoKey}, value : Nat]
        /\ tx[w].key \in Keys /\ tx[w].phase = "owner"
    BY DEF TypeOK, BusyHasKey, Increment
  <1>2. Incremented(tx[w].key) = Len(issued[tx[w].key]) + 1
    BY <1>1, IncrementedIsNext
  <1>3. Len(issued[tx[w].key]) \in Nat
    BY <1>1 DEF TypeOK
  <1>4. /\ tx' = [tx EXCEPT ![w] = t]
        /\ t \in [phase : Phases, key : Keys \cup {NoKey}, value : Nat]
        /\ t.phase = "numbered" /\ t.key = tx[w].key
        /\ t.value = Len(issued[tx[w].key]) + 1
    <2>1. /\ t \in [phase : Phases, key : Keys \cup {NoKey}, value : Nat]
          /\ t.phase = "numbered" /\ t.key = tx[w].key
          /\ t.value = Incremented(tx[w].key)
      <3>1. Incremented(tx[w].key) \in Nat
        BY <1>2, <1>3
      <3>2. QED
        BY <1>1, <3>1, NumberedTx
    <2>2. tx' = [tx EXCEPT ![w] = t]
      BY DEF Increment
    <2>3. QED
      BY <1>2, <2>1, <2>2
  <1> HIDE DEF t
  <1>5. \A v \in Workers : tx'[v] = IF v = w THEN t ELSE tx[v]
    BY <1>4 DEF TypeOK
  <1>6. UNCHANGED <<last, issued>>
    BY DEF Increment
  <1>7. TypeOK'
    BY <1>4, <1>6 DEF TypeOK
  <1>8. NumberedInOrder' /\ CounterMatchesRows'
    BY <1>6 DEF NumberedInOrder, CounterMatchesRows
  <1>9. BusyHasKey'
    BY <1>1, <1>4, <1>5 DEF BusyHasKey
  <1>10. OwnerAlone'
    BY <1>1, <1>4, <1>5 DEF OwnerAlone, Holding
  <1>11. ValueIsNext'
    BY <1>4, <1>5, <1>6 DEF ValueIsNext
  <1>12. QED
    BY <1>7, <1>8, <1>9, <1>10, <1>11

(* The commit of a numbered transaction gives its key the next number.      *)
LEMMA CommitGives ==
    ASSUME NumberingInv, NEW w \in Workers, Commit(w)
    PROVE  /\ tx[w].key \in Keys
           /\ tx[w].value = Len(issued[tx[w].key]) + 1
           /\ Source!Give(tx[w].key)
  <1>1. tx[w].key \in Keys /\ tx[w].value = Len(issued[tx[w].key]) + 1
    BY DEF NumberingInv, BusyHasKey, ValueIsNext, Commit
  <1>2. QED
    BY <1>1 DEF Commit, Source!Give

(* So the numbers of that key stay in order, and its counter stays exact.   *)
LEMMA CommitKeepsInv ==
    ASSUME NumberingInv, NEW w \in Workers, Commit(w)
    PROVE  NumberingInv'
  <1> USE DEF NumberingInv
  <1> DEFINE k == tx[w].key
             n == tx[w].value
  <1>1. k \in Keys /\ n = Len(issued[k]) + 1 /\ tx[w].phase = "numbered"
    BY CommitGives DEF Commit
  <1>2. /\ last' = [last EXCEPT ![k] = n]
        /\ issued' = [issued EXCEPT ![k] = Append(issued[k], n)]
        /\ tx' = [tx EXCEPT ![w] = Idle]
    BY DEF Commit, Finish
  <1>3. issued[k] \in Seq(Nat) /\ n \in Nat
    BY <1>1 DEF TypeOK
  <1>4. Idle \in [phase : Phases, key : Keys \cup {NoKey}, value : Nat]
    BY DEF Idle, Phases
  <1> HIDE DEF k, n
  <1>5. /\ \A v \in Workers : tx'[v] = IF v = w THEN Idle ELSE tx[v]
        /\ \A j \in Keys : /\ issued'[j] = IF j = k THEN Append(issued[k], n) ELSE issued[j]
                           /\ last'[j] = IF j = k THEN n ELSE last[j]
    BY <1>1, <1>2 DEF TypeOK
  <1>6. /\ Append(issued[k], n) \in Seq(Nat)
        /\ Len(Append(issued[k], n)) = n
        /\ \A m \in 1 .. n : Append(issued[k], n)[m] = IF m = n THEN n ELSE issued[k][m]
        /\ Append(issued[k], n) # <<>>
    BY <1>1, <1>3
  <1>7. TypeOK'
    BY <1>2, <1>3, <1>4, <1>6 DEF TypeOK
  <1>8. NumberedInOrder'
    <2> SUFFICES ASSUME NEW j \in Keys, NEW m \in 1 .. Len(issued'[j])
                 PROVE  issued'[j][m] = m
      BY DEF NumberedInOrder
    <2>1. CASE j # k
      BY <2>1, <1>5 DEF NumberedInOrder
    <2>2. CASE j = k
      <3>1. m \in 1 .. n /\ issued'[j][m] = IF m = n THEN n ELSE issued[k][m]
        BY <2>2, <1>5, <1>6
      <3>2. m # n => m \in 1 .. Len(issued[k])
        BY <3>1, <1>1, <1>3
      <3>3. QED
        BY <2>2, <3>1, <3>2 DEF NumberedInOrder
    <2>3. QED
      BY <2>1, <2>2
  <1>9. CounterMatchesRows'
    BY <1>5, <1>6 DEF CounterMatchesRows
  <1>10. BusyHasKey'
    BY <1>5 DEF BusyHasKey, Idle
  <1>11. OwnerAlone'
    BY <1>5 DEF OwnerAlone, Idle, Holding
  <1>12. ValueIsNext'
    <2> SUFFICES ASSUME NEW v \in Workers, tx'[v].phase = "numbered"
                 PROVE  tx'[v].value = Len(issued'[tx'[v].key]) + 1
      BY DEF ValueIsNext
    <2>1. v # w /\ tx'[v] = tx[v]
      BY <1>5 DEF Idle
    <2>2. tx[v].key # k /\ tx[v].key \in Keys
      BY <1>1, <2>1 DEF OwnerAlone, Holding, BusyHasKey, k
    <2>3. QED
      BY <1>5, <2>1, <2>2 DEF ValueIsNext
  <1>13. QED
    BY <1>7, <1>8, <1>9, <1>10, <1>11, <1>12

(* One step per action.                                                     *)
LEMMA NextNumberingInv == NumberingInv /\ [Next]_vars => NumberingInv'
  <1> SUFFICES ASSUME NumberingInv, [Next]_vars PROVE NumberingInv'
    OBVIOUS
  <1>0. \A w \in Workers :
           /\ tx[w] \in [phase : Phases, key : Keys \cup {NoKey}, value : Nat]
           /\ tx[w].phase # "idle" => tx[w].key \in Keys
    BY DEF NumberingInv, TypeOK, BusyHasKey
  <1>1. ASSUME NEW w \in Workers, NEW k \in Keys, Begin(w, k)
        PROVE  NumberingInv'
    <2> DEFINE t == [phase |-> "reading", key |-> k, value |-> 0]
    <2>1. t \in [phase : Phases \ Holding, key : Keys \cup {NoKey}, value : Nat]
      BY DEF Phases, Holding
    <2>2. tx' = [tx EXCEPT ![w] = t] /\ UNCHANGED <<last, issued>> /\ t.key \in Keys
      BY <1>1 DEF Begin
    <2> HIDE DEF t
    <2>3. QED
      BY <2>1, <2>2, MoveKeepsInv
  <1>2. ASSUME NEW w \in Workers, Read(w) \/ Insert(w)
        PROVE  NumberingInv'
    BY <1>2, TakeKeepsInv DEF Read, Insert
  <1>3. ASSUME NEW w \in Workers, NEW p \in {"inserting", "rereading"},
               tx[w].phase # "idle", Move(w, p), UNCHANGED <<last, issued>>
        PROVE  NumberingInv'
    <2> DEFINE t == [tx[w] EXCEPT !.phase = p]
    <2>1. /\ t \in [phase : Phases \ Holding, key : Keys \cup {NoKey}, value : Nat]
          /\ t.key \in Keys
      BY <1>0, <1>3 DEF Phases, Holding
    <2>2. tx' = [tx EXCEPT ![w] = t]
      BY <1>3 DEF Move, NumberingInv, TypeOK
    <2> HIDE DEF t
    <2>3. QED
      BY <1>3, <2>1, <2>2, MoveKeepsInv
  <1>4. ASSUME NEW w \in Workers, Miss(w) \/ Collide(w)
        PROVE  NumberingInv'
    BY <1>3, <1>4 DEF Miss, Collide
  <1>5. ASSUME NEW w \in Workers, Increment(w)
        PROVE  NumberingInv'
    BY <1>5, IncrementKeepsInv
  <1>6. ASSUME NEW w \in Workers, Commit(w)
        PROVE  NumberingInv'
    BY <1>6, CommitKeepsInv
  <1>7. ASSUME NEW w \in Workers, Rollback(w)
        PROVE  NumberingInv'
    <2>1. /\ Idle \in [phase : Phases \ Holding, key : Keys \cup {NoKey}, value : Nat]
          /\ Idle.phase = "idle"
      BY DEF Idle, Phases, Holding
    <2>2. tx' = [tx EXCEPT ![w] = Idle] /\ UNCHANGED <<last, issued>>
      BY <1>7 DEF Rollback, Finish
    <2>3. QED
      BY <2>1, <2>2, MoveKeepsInv
  <1>8. ASSUME UNCHANGED vars
        PROVE  NumberingInv'
    BY <1>8 DEF vars, NumberingInv, TypeOK, BusyHasKey, NumberedInOrder,
               CounterMatchesRows, OwnerAlone, ValueIsNext
  <1>9. QED
    BY <1>1, <1>2, <1>4, <1>5, <1>6, <1>7, <1>8 DEF Next, Step

(* Whatever the transactions do, and whichever of them race to create the   *)
(* sequence row of a new year, the committed rows of a (scope, period)      *)
(* carry 1, 2, 3, ... in the order they committed.                          *)
THEOREM NumbersAreInOrder == Spec => []NumberedInOrder
  <1>1. NumberingInv => NumberedInOrder
    BY DEF NumberingInv
  <1>2. QED
    BY <1>1, InitNumberingInv, NextNumberingInv, PTL DEF Spec

(* Every transaction is in a phase of the code and holds a key and a value  *)
(* of it, whatever it raced with and wherever it was rolled back.           *)
THEOREM NumberingTypeCorrect == Spec => []TypeOK
  <1>1. NumberingInv => TypeOK
    BY DEF NumberingInv
  <1>2. QED
    BY <1>1, InitNumberingInv, NextNumberingInv, PTL DEF Spec

(* The stored counter is always the number of rows committed with it.       *)
THEOREM CounterIsExact == Spec => []CounterMatchesRows
  <1>1. NumberingInv => CounterMatchesRows
    BY DEF NumberingInv
  <1>2. QED
    BY <1>1, InitNumberingInv, NextNumberingInv, PTL DEF Spec

(* The transactions implement the abstract source of numbers: only a commit *)
(* shows, and it gives its key the next number.                             *)
THEOREM NumberingRefinesSource == Spec => ImplementsSource
  <1>1. Init => Source!NInit
    BY DEF Init, Source!NInit
  <1>2. NumberingInv /\ [Next]_vars => [Source!NNext]_issued
    <2> SUFFICES ASSUME NumberingInv, [Next]_vars, issued' # issued
                 PROVE  Source!NNext
      OBVIOUS
    <2>1. PICK w \in Workers : Commit(w)
      BY DEF Next, Step, Begin, Read, Miss, Insert, Collide, Increment, Rollback, vars
    <2>2. QED
      BY <2>1, CommitGives DEF Source!NNext
  <1>3. QED
    BY <1>1, <1>2, InitNumberingInv, NextNumberingInv, PTL
    DEF Spec, ImplementsSource, Source!NSpec
=============================================================================
