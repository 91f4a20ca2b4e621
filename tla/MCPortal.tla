------------------------------- MODULE MCPortal -------------------------------
(***************************************************************************)
(* What the portal shows of a lecture: its sessions, each of which settles *)
(* in the end, and every list beside the check of its single row.  Each    *)
(* behaviour explores one of the two, chosen at the start, while the other *)
(* rests.                                                                  *)
(***************************************************************************)
EXTENDS MCAttendance, Reach

CONSTANTS sa, sb

VARIABLE desk

\* Everybody who reaches for a row, one of each role.
TheirPosts ==
  ("owner" :> "SYSTEM_OWNER") @@ ("admin" :> "UNIVERSITY_ADMIN") @@
  ("dean" :> "DEPARTMENT_ADMIN") @@ ("ins" :> "INSTRUCTOR") @@ ("stu" :> "STUDENT")

-----------------------------------------------------------------------------
PortalInit ==
  /\ desk \in {"sessions", "reach"}
  /\ Init
  /\ ReachInit
  /\ desk = "reach" \/ (member["stu"].waiting /\ member["stu"].section = NoSection
                         /\ member["ins"].department = Ours /\ campus.targets = {sa})

SessionsDesk == desk = "sessions" /\ Next /\ UNCHANGED <<reachVars, desk>>
ReachDesk == desk = "reach" /\ ReachNext /\ UNCHANGED <<vars, desk>>

\* The fairness of FairSpec: it speaks of the behaviours of the first desk.
PortalSpec ==
  /\ PortalInit /\ [][SessionsDesk \/ ReachDesk]_<<vars, reachVars, desk>>
  /\ WF_vars(Tick) /\ \A w \in Workers : WF_vars(WorkerStep(w))
=============================================================================
