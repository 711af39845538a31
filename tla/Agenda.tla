-------------------------------- MODULE Agenda --------------------------------
(***************************************************************************)
(* The calendar arithmetic of the agenda (agenda/views.py).  A day is an    *)
(* integer, day 0 a Monday; the office's week starts on Saturday.  A view   *)
(* asks for the events of a window [start, end), puts each into the bucket  *)
(* of its day, and draws one cell for each day it shows.                    *)
(***************************************************************************)
EXTENDS Integers, FiniteSetsExt

CONSTANT MonthStarts    \* the first days of the months

(* A month has at least 28 days.                                           *)
ASSUME MonthsAssumption ==
    /\ MonthStarts \subseteq Int
    /\ \A m, n \in MonthStarts : m < n => m + 28 <= n

SATURDAY == 5

weekday(d) == d % 7

(* The Saturday on or before d.                                            *)
week_start(d) == d - ((weekday(d) - SATURDAY) % 7)

(* The first day of the month of d, and of the next one.                    *)
month_start(d) == CHOOSE m \in MonthStarts : m <= d /\ \A n \in MonthStarts : n <= d => n <= m
next_month(d) == CHOOSE m \in MonthStarts : d < m /\ \A n \in MonthStarts : d < n => m <= n

(* What a view draws and asks for, and where its two links lead.            *)
Screen(days, start, end, prev, next) ==
    [days |-> days, start |-> start, end |-> end, prev |-> prev, next |-> next]

AgendaDayView(anchor) == Screen({anchor}, anchor, anchor + 1, anchor - 1, anchor + 1)

(* Mutant: the end is taken for the last day of the window.                *)
AgendaWeekViewShort(anchor) ==
    LET start == week_start(anchor)
    IN  Screen(start .. start + 6, start, start + 6, start - 7, start + 7)

AgendaWeekView(anchor) ==
    LET start == week_start(anchor)
    IN  Screen(start .. start + 6, start, start + 7, start - 7, start + 7)

(* monthdatescalendar: whole weeks, from the one the month begins in to the *)
(* one it ends in.  The links lead to the months of the day before the      *)
(* first of the month and of the day after the grid.                        *)
AgendaMonthView(anchor) ==
    LET start == week_start(month_start(anchor))
        last == week_start(next_month(anchor) - 1) + 6
    IN  Screen(start .. last, start, last + 1, month_start(anchor) - 1, last + 1)

(* The events of the window, in the buckets of their days.                  *)
bucket(events, day(_)) == [d \in {day(x) : x \in events} |-> {x \in events : day(x) = d}]

Cell(buckets, d) == IF d \in DOMAIN buckets THEN buckets[d] ELSE {}

=============================================================================
