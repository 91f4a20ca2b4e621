------------------------------ MODULE RollBook ------------------------------
(***************************************************************************)
(* What attendance promises, without handlers, workers or clocks: a book   *)
(* with a page per session.  A page is opened, closed and then settled, in *)
(* that order; an entry is written once and never changed or removed; and  *)
(* nobody is entered absent on a page that is still open.                  *)
(*                                                                         *)
(* External to the code: this is the reading of the comment at the head of *)
(* backend/src/services/attendance-lifecycle.service.ts that Attendance is *)
(* shown to implement.                                                     *)
(***************************************************************************)
CONSTANTS Students, SessionIds

VARIABLES page, entry

bookVars == <<page, entry>>

Pages == {"blank", "open", "closed", "settled"}
Entries == {"none", "attended", "absent"}

BookTypeOK ==
  /\ page \in [SessionIds -> Pages]
  /\ entry \in [Students -> [SessionIds -> Entries]]

BookInit ==
  /\ page = [x \in SessionIds |-> "blank"]
  /\ entry = [s \in Students |-> [x \in SessionIds |-> "none"]]

TurnPage(x, from, to) ==
  /\ page[x] = from
  /\ page' = [page EXCEPT ![x] = to]
  /\ UNCHANGED entry

\* A scan admitted while the page was open may be entered after it closed.
Attend(s, x) ==
  /\ page[x] # "blank"
  /\ entry[s][x] = "none"
  /\ entry' = [entry EXCEPT ![s][x] = "attended"]
  /\ UNCHANGED page

\* A set of students with no entry on a closed page are absent.  A second
\* caller may still be writing after the first has settled the page.
CallAbsent(x, absentees) ==
  /\ page[x] \in {"closed", "settled"}
  /\ \A s \in absentees : entry[s][x] = "none"
  /\ entry' = [s \in Students |->
                 IF s \in absentees THEN [entry[s] EXCEPT ![x] = "absent"]
                 ELSE entry[s]]
  /\ UNCHANGED page

BookNext ==
  \E x \in SessionIds :
    \/ TurnPage(x, "blank", "open")
    \/ TurnPage(x, "open", "closed")
    \/ TurnPage(x, "closed", "settled")
    \/ \E s \in Students : Attend(s, x)
    \/ \E absentees \in SUBSET Students : CallAbsent(x, absentees)

BookSpec == BookInit /\ [][BookNext]_bookVars
=============================================================================
