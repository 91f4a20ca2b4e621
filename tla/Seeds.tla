-------------------------------- MODULE Seeds --------------------------------
(***************************************************************************)
(* The demo campus: a seed writes, one upsert after another, the rows of   *)
(* two universities, and for every account an identity at the provider.    *)
(* It is run by hand, may die or fail anywhere, is run again, perhaps by   *)
(* two people at once, over a campus that has been used meanwhile.         *)
(***************************************************************************)
EXTENDS Naturals, Sequences

CONSTANTS
  Runs,                    \* people who seed
  DemoAccounts,            \* a sequence: ACCOUNTS
  SeedIdentities, NoSeedIdentity,
  MaxStarts, MaxMishaps    \* bounds: runs begun; edits, deaths and failures

Demos == {DemoAccounts[i] : i \in DOMAIN DemoAccounts}

ASSUME SeedsAssumption ==
  /\ NoSeedIdentity \notin SeedIdentities /\ SeedIdentities # {}
  /\ DemoAccounts \in Seq(Demos) /\ Len(DemoAccounts) > 0
  /\ {"", "unused"} \intersect Demos = {}
  /\ MaxStarts \in Nat /\ MaxMishaps \in Nat

VARIABLES
  registered,   \* identity -> the account whose address it has, "" if deleted
  earlier,      \* the identities that were there before anybody seeded
  link,         \* User.authUserId of the demo accounts
  rows,         \* kind of row -> "absent", "demo", "edited"
  rival,        \* another term is the current one
  run,
  met,        \* two runs have been under way at once
  starts, mishaps

seedVars == <<registered, earlier, link, rows, rival, run, met, starts, mishaps>>

\* The order of the sections; "accounts" stands for the loop over them.
SeedSections ==
  <<"organizations", "departments", "accounts", "profiles", "terms", "cohorts",
    "offerings", "teaching", "students", "timetable", "materials", "assignments",
    "session", "attendance", "notifications">>
SeedRows == {SeedSections[i] : i \in DOMAIN SeedSections} \ {"accounts"}

SeedRun ==
  [pc : {"idle", "look", "create", "reread", "write", "cleanup", "rows", "done"},
   section : 1..(Len(SeedSections) + 1), account : 1..Len(DemoAccounts),
   auth : SeedIdentities \union {NoSeedIdentity}, created : BOOLEAN,
   alone : BOOLEAN]                \* nobody else has written since it began
NotRunning ==
  [pc |-> "idle", section |-> 1, account |-> 1, auth |-> NoSeedIdentity,
   created |-> FALSE, alone |-> TRUE]

SeedsTypeOK ==
  /\ registered \in [SeedIdentities -> Demos \union {"", "unused"}]
  /\ earlier \subseteq SeedIdentities
  /\ link \in [Demos -> SeedIdentities \union {NoSeedIdentity}]
  /\ rows \in [SeedRows -> {"absent", "demo", "edited"}]
  /\ rival \in BOOLEAN /\ met \in BOOLEAN
  /\ run \in [Runs -> SeedRun]
  /\ starts \in 0..MaxStarts /\ mishaps \in 0..MaxMishaps

\* Somebody may have signed up with a demo address before.
SeedsInit ==
  /\ earlier \in {{}, {CHOOSE i \in SeedIdentities : TRUE}}
  /\ registered = [i \in SeedIdentities |->
                     IF i \in earlier THEN DemoAccounts[1] ELSE "unused"]
  /\ link = [p \in Demos |-> NoSeedIdentity]
  /\ rows = [k \in SeedRows |-> "absent"]
  /\ rival = FALSE /\ met = FALSE
  /\ run = [r \in Runs |-> NotRunning]
  /\ starts = 0 /\ mishaps = 0

Running(r) == run[r].pc \notin {"idle", "done"}
Goes(r, g) == run' = [run EXCEPT ![r] = g]
GoesTo(r, pc) == Goes(r, [run[r] EXCEPT !.pc = pc])
\* A write by one is seen by the others that are under way or have ended.
Writes(r, g) ==
  run' = [q \in Runs |-> IF q = r THEN g ELSE [run[q] EXCEPT !.alone = FALSE]]
TheAccount(r) == DemoAccounts[run[r].account]
IdentitiesOf(p) == {i \in SeedIdentities : registered[i] = p}
Mishap == mishaps < MaxMishaps /\ mishaps' = mishaps + 1
database == <<link, rows, rival>>
counters == <<earlier, met, starts, mishaps>>

-----------------------------------------------------------------------------
(* A run.                                                                  *)

BeginSeed(r) ==
  /\ ~Running(r) /\ starts < MaxStarts
  /\ starts' = starts + 1
  /\ met' = (met \/ \E q \in Runs : Running(q))
  /\ Goes(r, [NotRunning EXCEPT !.pc = "rows"])
  /\ UNCHANGED <<registered, earlier, database, mishaps>>

\* ensureIdentity looks before it creates, and again if it could not.
FindIdentity(r) ==
  LET found == IdentitiesOf(TheAccount(r))
  IN /\ run[r].pc \in {"look", "reread"}
     /\ IF found # {}
        THEN Goes(r, [run[r] EXCEPT !.pc = "write", !.created = FALSE,
                                    !.auth = CHOOSE i \in found : TRUE])
        ELSE IF run[r].pc = "look" THEN GoesTo(r, "create") ELSE Goes(r, NotRunning)
     /\ UNCHANGED <<registered, database, counters>>

\* The provider keeps one identity per address.
CreateIdentity(r) ==
  /\ run[r].pc = "create"
  /\ \/ /\ IdentitiesOf(TheAccount(r)) = {}
        /\ \E i \in SeedIdentities :
             /\ registered[i] = "unused"
             /\ registered' = [registered EXCEPT ![i] = TheAccount(r)]
             /\ Writes(r, [run[r] EXCEPT !.pc = "write", !.auth = i, !.created = TRUE])
        /\ UNCHANGED mishaps
     \/ /\ IF IdentitiesOf(TheAccount(r)) = {} THEN Mishap ELSE UNCHANGED mishaps
        /\ GoesTo(r, "reread") /\ UNCHANGED registered
  /\ UNCHANGED <<database, earlier, met, starts>>

\* authUserId is unique.  An account written leads to the next, or to the rows
\* that refer to it.
CleansUpAlways(g) == TRUE  \* mutant: an adopted identity is deleted as well
CleansUp(g) == g.created
WriteAccount(r) ==
  LET g == run[r]
      last == g.account = Len(DemoAccounts)
  IN /\ g.pc = "write"
     /\ \/ /\ \A p \in Demos : link[p] = g.auth => p = TheAccount(r)
           /\ link' = [link EXCEPT ![TheAccount(r)] = g.auth]
           /\ Writes(r, [g EXCEPT !.pc = IF last THEN "rows" ELSE "look",
                                  !.account = IF last THEN g.account ELSE g.account + 1,
                                  !.section = IF last THEN g.section + 1 ELSE g.section,
                                  !.auth = NoSeedIdentity, !.created = FALSE])
           /\ UNCHANGED mishaps
        \/ /\ Mishap
           /\ IF CleansUp(g) THEN GoesTo(r, "cleanup") ELSE Goes(r, NotRunning)
           /\ UNCHANGED link
     /\ UNCHANGED <<registered, rows, rival, earlier, met, starts>>

\* The run fails either way, and says which identity it could not delete.
CleanUp(r) ==
  /\ run[r].pc = "cleanup"
  /\ \/ /\ registered' = [registered EXCEPT ![run[r].auth] = ""]
        /\ Writes(r, NotRunning) /\ UNCHANGED mishaps
     \/ Mishap /\ Goes(r, NotRunning) /\ UNCHANGED registered
  /\ UNCHANGED <<database, earlier, met, starts>>

\* An upsert restores the columns its update names, which may be fewer than it
\* creates: a term's dates, a staff profile's office and an attendance's time stay
\* as they are.  An edit of those is not an edit here.  Profiles of students and
\* the cohorts of an offering are left alone altogether.
Restored(k) == rows' = [rows EXCEPT ![k] = "demo"]
KeptOrMade(k) == IF rows[k] = "absent" THEN Restored(k) ELSE UNCHANGED rows

AtSection(r, k) ==
  /\ run[r].pc = "rows" /\ run[r].section <= Len(SeedSections)
  /\ SeedSections[run[r].section] = k
Upserted(r) ==
  /\ Writes(r, [run[r] EXCEPT !.section = run[r].section + 1])
  /\ UNCHANGED <<registered, link, rival, counters>>

SeedOrganizations(r) == AtSection(r, "organizations") /\ Restored("organizations") /\ Upserted(r)
SeedDepartments(r) == AtSection(r, "departments") /\ Restored("departments") /\ Upserted(r)
SeedProfiles(r) == AtSection(r, "profiles") /\ Restored("profiles") /\ Upserted(r)
\* One current term per university: the index refuses a second.
SeedTerms(r) == AtSection(r, "terms") /\ ~rival /\ Restored("terms") /\ Upserted(r)
SeedCohorts(r) == AtSection(r, "cohorts") /\ Restored("cohorts") /\ Upserted(r)
SeedOfferings(r) == AtSection(r, "offerings") /\ Restored("offerings") /\ Upserted(r)
SeedTeaching(r) == AtSection(r, "teaching") /\ Restored("teaching") /\ Upserted(r)
SeedStudents(r) == AtSection(r, "students") /\ KeptOrMade("students") /\ Upserted(r)
SeedTimetable(r) == AtSection(r, "timetable") /\ Restored("timetable") /\ Upserted(r)
SeedMaterials(r) == AtSection(r, "materials") /\ Restored("materials") /\ Upserted(r)
SeedAssignments(r) == AtSection(r, "assignments") /\ Restored("assignments") /\ Upserted(r)
SeedSession(r) == AtSection(r, "session") /\ Restored("session") /\ Upserted(r)
SeedAttendance(r) == AtSection(r, "attendance") /\ Restored("attendance") /\ Upserted(r)
SeedNotifications(r) == AtSection(r, "notifications") /\ Restored("notifications") /\ Upserted(r)

BeginAccounts(r) ==
  AtSection(r, "accounts") /\ GoesTo(r, "look") /\ UNCHANGED <<registered, database, counters>>

EndSeed(r) ==
  /\ run[r].pc = "rows" /\ run[r].section = Len(SeedSections) + 1
  /\ GoesTo(r, "done") /\ UNCHANGED <<registered, database, counters>>

\* The process dies, or a write of rows fails: an error ends the run.
SeedStops(r) ==
  /\ Running(r)
  /\ IF AtSection(r, "terms") /\ rival THEN UNCHANGED mishaps ELSE Mishap
  /\ Goes(r, NotRunning)
  /\ UNCHANGED <<registered, database, earlier, met, starts>>

-----------------------------------------------------------------------------
(* The campus is used.                                                     *)

Disturbed == run' = [q \in Runs |-> [run[q] EXCEPT !.alone = FALSE]]
EditRow(k) ==
  /\ rows[k] = "demo" /\ Mishap /\ Disturbed
  /\ rows' = [rows EXCEPT ![k] = "edited"]
  /\ rival' = (rival \/ k = "terms")
  /\ UNCHANGED <<registered, link, earlier, met, starts>>
DropRival ==
  /\ rival /\ rival' = FALSE /\ Disturbed
  /\ UNCHANGED <<registered, link, rows, counters>>

SeedStep(r) ==
  \/ BeginSeed(r) \/ BeginAccounts(r) \/ FindIdentity(r) \/ CreateIdentity(r)
  \/ WriteAccount(r) \/ CleanUp(r) \/ EndSeed(r) \/ SeedStops(r)
  \/ SeedOrganizations(r) \/ SeedDepartments(r) \/ SeedProfiles(r) \/ SeedTerms(r)
  \/ SeedCohorts(r) \/ SeedOfferings(r) \/ SeedTeaching(r) \/ SeedStudents(r)
  \/ SeedTimetable(r) \/ SeedMaterials(r) \/ SeedAssignments(r) \/ SeedSession(r)
  \/ SeedAttendance(r) \/ SeedNotifications(r)

SeedsNext ==
  (\E r \in Runs : SeedStep(r)) \/ (\E k \in {"terms", "students"} : EditRow(k)) \/ DropRival

SeedsSpec == SeedsInit /\ [][SeedsNext]_seedVars

-----------------------------------------------------------------------------
\* A seed "twice produces the same database as running it once" (seed-campus.ts
\* 26-28), from whatever a failed run or an edit has left: a run that reaches its
\* end undisturbed leaves the demo campus.  On the way an identity that was there
\* before is never deleted, and an account is linked to one that is gone only
\* if two runs have met.
DemoCampus ==
  /\ \A p \in Demos : link[p] \in IdentitiesOf(p)
  /\ \A k \in SeedRows : rows[k] = "demo" \/ (k = "students" /\ rows[k] = "edited")
SeedsMakeTheDemo ==
  /\ \A i \in earlier : registered[i] # ""
  /\ \A p \in Demos : link[p] # NoSeedIdentity /\ registered[link[p]] # p => met
  /\ \A r \in Runs : run[r].pc = "done" /\ run[r].alone => DemoCampus
=============================================================================
