------------------------------ MODULE Hearings ------------------------------
(***************************************************************************)
(* The hearings of one case (hearings/services.py), changed by concurrent  *)
(* web requests.  A view loads the hearing, refuses it unless it is still   *)
(* scheduled, and hands that instance to a service, which checks the        *)
(* instance again (_require_open), saves EVERY column of it and, when a     *)
(* closing carries a next date, schedules the follow-up hearing.  Nothing   *)
(* re-reads or locks the row.                                               *)
(***************************************************************************)
EXTENDS Naturals, FiniteSets

CONSTANTS
    Workers,    \* concurrent web requests
    Hearings,   \* primary keys, in the order the rows are inserted
    Days        \* the dates a form can submit

ASSUME HearingsAssumption ==
    /\ Hearings \subseteq Nat \ {0}
    /\ Days \subseteq Nat \ {0}

VARIABLES
    row,        \* the stored row of each hearing
    told,       \* the date the case timeline last gave the hearing
    overlapped, \* history: a request wrote the row from a copy no longer current
    req         \* the request each worker is serving

vars == <<row, told, overlapped, req>>

NoDate == 0
NoHearing == 0

ClosedStatuses == {"held", "postponed", "cancelled"}

HearingRow == [status : {"absent", "scheduled"} \cup ClosedStatuses,
               day : Days \cup {NoDate},           \* scheduled_at
               next : Days \cup {NoDate},          \* next_hearing_date
               prev : Hearings \cup {NoHearing}]   \* previous_hearing

Absent == [status |-> "absent", day |-> NoDate, next |-> NoDate, prev |-> NoHearing]
Idle == [hearing |-> NoHearing, snap |-> Absent]

Init ==
    /\ row = [h \in Hearings |-> Absent]
    /\ told = [h \in Hearings |-> NoDate]
    /\ overlapped = [h \in Hearings |-> FALSE]
    /\ req = [w \in Workers |-> Idle]

-----------------------------------------------------------------------------
(* h is the next row to be inserted.                                        *)
NextId(h) ==
    /\ row[h].status = "absent"
    /\ \A g \in Hearings : g < h => row[g].status # "absent"

Scheduled(d, prev) ==
    [status |-> "scheduled", day |-> d, next |-> NoDate, prev |-> prev]

Finish(w) == req' = [req EXCEPT ![w] = Idle]

(* The full save of worker w's instance, as new, over the stored row.       *)
Overlaps(w) == overlapped' = [overlapped EXCEPT ![req[w].hearing] =
                                @ \/ req[w].snap # row[req[w].hearing]]

(* schedule_hearing from the create form.                                   *)
ScheduleHearing(h, d) ==
    /\ NextId(h)
    /\ row' = [row EXCEPT ![h] = Scheduled(d, NoHearing)]
    /\ told' = [told EXCEPT ![h] = d]
    /\ UNCHANGED <<overlapped, req>>

(* _guard_open and _require_open, on the instance.  The "Mutant"            *)
(* definitions are plausible bugs of the definition below them.             *)
IsOpenMutant(r) == r.status \notin {"absent", "cancelled"}
IsOpen(r) == r.status = "scheduled"

Load(w, h) ==
    /\ req[w] = Idle
    /\ IsOpen(row[h])
    /\ req' = [req EXCEPT ![w] = [hearing |-> h, snap |-> row[h]]]
    /\ UNCHANGED <<row, told, overlapped>>

(* update_hearing: the timeline compares the new date with the stored row,  *)
(* the save writes the loaded instance.                                     *)
UpdateHearingMutant(w, d) ==
    LET h == req[w].hearing IN
    /\ req[w] # Idle
    /\ row' = [row EXCEPT ![h] = [req[w].snap EXCEPT !.day = d]]
    /\ Overlaps(w)
    /\ Finish(w)
    /\ UNCHANGED told
UpdateHearing(w, d) ==
    LET h == req[w].hearing IN
    /\ req[w] # Idle
    /\ row' = [row EXCEPT ![h] = [req[w].snap EXCEPT !.day = d]]
    /\ told' = IF d # row[h].day THEN [told EXCEPT ![h] = d] ELSE told
    /\ Overlaps(w)
    /\ Finish(w)

(* complete_hearing and postpone_hearing with a next date: the closing and  *)
(* the follow-up, which points back at it, are one transaction.             *)
CloseWithFollowUpMutant(w, status, d, f) ==
    LET h == req[w].hearing IN
    /\ req[w] # Idle
    /\ NextId(f)
    /\ row' = [row EXCEPT ![h] = [req[w].snap EXCEPT !.status = status, !.next = d,
                                                    !.prev = f],
                          ![f] = Scheduled(d, NoHearing)]
    /\ told' = [told EXCEPT ![f] = d]
    /\ Overlaps(w)
    /\ Finish(w)
CloseWithFollowUp(w, status, d, f) ==
    LET h == req[w].hearing IN
    /\ req[w] # Idle
    /\ NextId(f)
    /\ row' = [row EXCEPT ![h] = [req[w].snap EXCEPT !.status = status, !.next = d],
                          ![f] = Scheduled(d, h)]
    /\ told' = [told EXCEPT ![f] = d]
    /\ Overlaps(w)
    /\ Finish(w)

(* complete_hearing without a next date, or cancel_hearing.                 *)
Close(w, status) ==
    LET h == req[w].hearing IN
    /\ req[w] # Idle
    /\ row' = [row EXCEPT ![h] = [req[w].snap EXCEPT !.status = status]]
    /\ Overlaps(w)
    /\ Finish(w)
    /\ UNCHANGED told

(* The statuses that come with a next date, and those that come without.    *)
WithNextDate == {"held", "postponed"}
WithoutNextDateMutant == {"held", "cancelled", "postponed"}
WithoutNextDate == {"held", "cancelled"}

(* A form that is invalid or changes nothing, or a worker that dies.        *)
Abandon(w) ==
    /\ req[w] # Idle
    /\ Finish(w)
    /\ UNCHANGED <<row, told, overlapped>>

Next ==
    \/ \E h \in Hearings, d \in Days : ScheduleHearing(h, d)
    \/ \E w \in Workers :
        \/ \E h \in Hearings : Load(w, h)
        \/ \E d \in Days : UpdateHearing(w, d)
        \/ \E d \in Days, f \in Hearings, s \in WithNextDate :
               CloseWithFollowUp(w, s, d, f)
        \/ \E s \in WithoutNextDate : Close(w, s)
        \/ Abandon(w)

Spec == Init /\ [][Next]_vars

-----------------------------------------------------------------------------
(* Type invariant; a hearing follows one inserted before it, so the chain   *)
(* of follow-ups never turns back on itself.                                *)
TypeOK ==
    /\ row \in [Hearings -> HearingRow]
    /\ told \in [Hearings -> Days \cup {NoDate}]
    /\ overlapped \in [Hearings -> BOOLEAN]
    /\ req \in [Workers -> [hearing : Hearings \cup {NoHearing}, snap : HearingRow]]
    /\ \A h \in Hearings : row[h].prev < h

FollowUps(h) == {f \in Hearings : row[f].prev = h}

(* A hearing no two requests fought over has the follow-up its outcome      *)
(* calls for, and no other: none while it is open, none when it was         *)
(* cancelled, exactly one when it was held or postponed to a next date,     *)
(* and a postponed one always has that date.                                *)
ChainSound ==
    \A h \in Hearings : row[h].status # "absent" /\ ~overlapped[h] =>
        /\ Cardinality(FollowUps(h)) = IF row[h].next = NoDate THEN 0 ELSE 1
        /\ row[h].next # NoDate => row[h].status \in {"held", "postponed"}
        /\ row[h].status = "postponed" => row[h].next # NoDate

(* The timeline and the calendar agree on when such a hearing is.           *)
TimelineTellsDate ==
    \A h \in Hearings : ~overlapped[h] => told[h] = row[h].day

(* A closed hearing changes only under a request that loaded it open and    *)
(* lost the race: what a request sees closed, it leaves alone.              *)
ClosedChangesOnlyByRace ==
    [][\A h \in Hearings :
          row[h].status \in ClosedStatuses /\ row'[h] # row[h]
             => overlapped'[h]]_vars

(* The documented rule: no action applies to a hearing that is not          *)
(* scheduled any more.                                                      *)
ClosedIsFinal ==
    [][\A h \in Hearings :
          row[h].status \in ClosedStatuses => row'[h] = row[h]]_vars
=============================================================================
