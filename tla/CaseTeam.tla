------------------------------ MODULE CaseTeam ------------------------------
(***************************************************************************)
(* The people of one case: its supporting lawyers (CaseLawyer rows under a  *)
(* unique constraint on case and lawyer) and its parties, and what the      *)
(* timeline of the case says of them (cases/services.py).  Every view loads *)
(* what it needs outside the transaction of the service; nothing is locked. *)
(***************************************************************************)
EXTENDS Naturals

CONSTANTS
    Clerks,   \* web processes
    Lawyers,
    Parties,  \* primary keys of the party rows
    MaxTeamEvents  \* bound: events of the timeline

VARIABLES
    links,    \* the supporting lawyers, as committed
    joined,   \* LAWYER_ADDED events of each lawyer
    left,     \* LAWYER_REMOVED events of each lawyer
    party,    \* each party row: "none", "there" or "removed"
    removals, \* PARTY_REMOVED events of each party
    seat      \* what each clerk's request is doing

teamVars == <<links, joined, left, party, removals, seat>>

Away == [doing |-> "nothing"]

Seats ==
    {Away} \cup [doing : {"adding"}, lawyer : Lawyers]
           \cup [doing : {"removing"}, party : Parties]

TeamInit ==
    /\ links = {}
    /\ joined = [l \in Lawyers |-> 0]
    /\ left = [l \in Lawyers |-> 0]
    /\ party = [p \in Parties |-> "none"]
    /\ removals = [p \in Parties |-> 0]
    /\ seat = [c \in Clerks |-> Away]

-----------------------------------------------------------------------------
(* add_supporting_lawyer: get_or_create first selects the link.  Found, the *)
(* service returns False and writes nothing.                                *)
SelectLink(c, l) ==
    /\ seat[c] = Away
    /\ joined[l] < MaxTeamEvents
    /\ l \notin links
    /\ seat' = [seat EXCEPT ![c] = [doing |-> "adding", lawyer |-> l]]
    /\ UNCHANGED <<links, joined, left, party, removals>>

(* Not found, it is inserted; when another clerk was first, the unique      *)
(* constraint refuses the row, get_or_create fetches the other's and        *)
(* created is False.                                                        *)
(* Mutant: the event does not depend on `created`.                         *)
InsertLinkAlwaysTold(c) ==
    /\ seat[c].doing = "adding"
    /\ links' = links \cup {seat[c].lawyer}
    /\ joined' = [joined EXCEPT ![seat[c].lawyer] = @ + 1]
    /\ seat' = [seat EXCEPT ![c] = Away]
    /\ UNCHANGED <<left, party, removals>>

InsertLink(c) ==
    /\ seat[c].doing = "adding"
    /\ LET l == seat[c].lawyer
       IN  IF l \in links THEN UNCHANGED <<links, joined>>
           ELSE /\ links' = links \cup {l}
                /\ joined' = [joined EXCEPT ![l] = @ + 1]
    /\ seat' = [seat EXCEPT ![c] = Away]
    /\ UNCHANGED <<left, party, removals>>

(* One DELETE; the event is written only when it found the row.             *)
remove_supporting_lawyer(c, l) ==
    /\ seat[c] = Away
    /\ l \in links
    /\ links' = links \ {l}
    /\ left' = [left EXCEPT ![l] = @ + 1]
    /\ UNCHANGED <<joined, party, removals, seat>>

add_party(c, p) ==
    /\ seat[c] = Away
    /\ party[p] = "none"
    /\ party' = [party EXCEPT ![p] = "there"]
    /\ UNCHANGED <<links, joined, left, removals, seat>>

case_party_remove(c, p) ==
    /\ seat[c] = Away
    /\ party[p] = "there"
    /\ seat' = [seat EXCEPT ![c] = [doing |-> "removing", party |-> p]]
    /\ UNCHANGED <<links, joined, left, party, removals>>

(* The delete does not say whether it found the row: the event is written   *)
(* in any case.                                                             *)
remove_party(c) ==
    /\ seat[c].doing = "removing"
    /\ party' = [party EXCEPT ![seat[c].party] = "removed"]
    /\ removals' = [removals EXCEPT ![seat[c].party] = @ + 1]
    /\ seat' = [seat EXCEPT ![c] = Away]
    /\ UNCHANGED <<links, joined, left>>

(* A rolled back transaction, or a worker that dies.                        *)
StandUp(c) ==
    /\ seat[c] # Away
    /\ seat' = [seat EXCEPT ![c] = Away]
    /\ UNCHANGED <<links, joined, left, party, removals>>

TeamNext ==
    \E c \in Clerks :
        \/ \E l \in Lawyers : SelectLink(c, l) \/ remove_supporting_lawyer(c, l)
        \/ \E p \in Parties : add_party(c, p) \/ case_party_remove(c, p)
        \/ InsertLink(c) \/ remove_party(c) \/ StandUp(c)

TeamSpec == TeamInit /\ [][TeamNext]_teamVars

-----------------------------------------------------------------------------
TeamTypeOK ==
    /\ links \subseteq Lawyers
    /\ joined \in [Lawyers -> Nat]
    /\ left \in [Lawyers -> Nat]
    /\ party \in [Parties -> {"none", "there", "removed"}]
    /\ removals \in [Parties -> Nat]
    /\ seat \in [Clerks -> Seats]

(* The timeline tells who supports the case: a lawyer was added as often as *)
(* removed, and once more while the link is there, however the clerks' adds *)
(* and removals meet (add_supporting_lawyer, remove_supporting_lawyer); and *)
(* a party is gone exactly when a removal of it is on the timeline          *)
(* (remove_party, which two clerks may each write for the same party).      *)
TimelineTellsTeam ==
    /\ \A l \in Lawyers : joined[l] = left[l] + (IF l \in links THEN 1 ELSE 0)
    /\ \A p \in Parties : party[p] = "removed" <=> removals[p] > 0

=============================================================================
