--------------------------- MODULE MCNotifications ---------------------------
(***************************************************************************)
(* Small instances of Notifications for TLC, both checked by one run:       *)
(* "overlap" has two runs of the command, two users and a single item whose *)
(* date moves; "command" has one run, killed twice, two items of all pairs  *)
(* of kinds, so that it goes from scan to scan, and a single user.          *)
(***************************************************************************)
EXTENDS Notifications

CONSTANTS om, la, s1, s2, i1, i2

MCGroup == [u \in Users |-> CASE u = om -> "office_manager"
                              [] u = la -> "lawyer"
                              [] OTHER -> "paralegal"]

VARIABLE instance

mcVars == <<vars, instance>>

(* What stands still in each instance, and the bounds it lowers.            *)
Overlap ==
    /\ item[i2] = Unborn
    /\ kind[i2] = kind[i1]
    /\ changes <= 2
    /\ kills <= 1
    /\ changes + kills <= 2

Command ==
    /\ run[s2] = Idle
    /\ \E n, m \in 1..5 : n <= m /\ kind[i1] = Scans[n] /\ kind[i2] = Scans[m]
    /\ changes + kills <= 3
    /\ la \in active
    /\ \A i \in Items : item[i].day = 1 /\ la \notin item[i].team

Small == IF instance = "overlap" THEN Overlap ELSE Command

MCInit == Init /\ instance \in {"overlap", "command"} /\ Small

MCNext == Next /\ UNCHANGED instance /\ Small'

MCSpec == MCInit /\ [][MCNext]_mcVars

MCLiveSpec ==
    /\ MCSpec
    /\ \A s \in Runs :
           WF_mcVars(Scan(s) /\ History /\ UNCHANGED instance /\ Small')
=============================================================================
