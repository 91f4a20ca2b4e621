------------------------------ MODULE Coursework ------------------------------
(***************************************************************************)
(* One course offering: the cohorts it is for, who teaches it, who is      *)
(* enrolled, one assignment set in it and the grades given.  The rules     *)
(* between these are checked by reads before each write, and no constraint *)
(* of the database keeps them afterwards.  A set of cohorts that is empty  *)
(* means everybody.                                                        *)
(*                                                                         *)
(* Both sets of cohorts are replaced by a deletion and an insertion in a   *)
(* transaction, which other transactions interleave with.                  *)
(***************************************************************************)
EXTENDS Naturals

CONSTANTS
  Groups,                \* cohorts of the offering's department
  Learners, GroupOf,     \* approved students, and the cohort of each
  Lecturers,             \* instructors; the rest of the staff is STAFF
  Scores,                \* bound: the scores and maxima that occur
  Tasks,                 \* requests that may be in flight at once
  Sets                   \* bound: the sets of cohorts requests ask for

STAFF == "STAFF"

ASSUME CourseworkAssumption ==
  /\ GroupOf \in [Learners -> Groups]
  /\ STAFF \notin Lecturers
  /\ Scores \subseteq Nat \ {0}
  /\ Sets \subseteq SUBSET Groups

VARIABLES
  offering,   \* the offering, with its cohorts
  teaches,    \* each lecturer's teaching assignment
  enrolled,   \* enrollments
  work,       \* the assignment and the cohorts it targets
  item,       \* its line in the gradebook
  grade,      \* 0 for none
  shown,      \* grades published to their student
  task,       \* what each request has in flight
  ever        \* history: what has once been offered, possible and enrolled

courseworkVars == <<offering, teaches, enrolled, work, item, grade, shown, task, ever>>

NoWork == [exists |-> FALSE, published |-> FALSE, max |-> 0, targets |-> {}]
NoItem == [published |-> FALSE, max |-> 0]
NoTask == [pc |-> "idle", by |-> STAFF, of |-> STAFF, set |-> {}, resets |-> FALSE,
           seen |-> {}, flag |-> "keep", score |-> 0, locks |-> "none"]
Task ==
  [pc : {"idle", "offer", "offerDelete", "offerCommit", "set", "insertWork",
         "replace", "delete", "row", "commit", "enrollment", "upsert", "enroll",
         "setEnrollment", "appoint"},
   by : Lecturers \union {STAFF}, of : Learners \union Lecturers \union {STAFF},
   set : SUBSET Groups, resets : BOOLEAN, seen : SUBSET Groups,
   flag : {"keep", "on", "off"}, score : Scores \union {0},
   locks : {"none", "offering", "work"}]

CourseworkTypeOK ==
  /\ offering \in [active : BOOLEAN, cohorts : SUBSET Groups]
  /\ teaches \in [Lecturers -> {"none", "on", "off"}]
  /\ enrolled \in [Learners -> {"none", "on", "off"}]
  /\ work \in {NoWork} \union
       [exists : {TRUE}, published : BOOLEAN, max : Scores, targets : SUBSET Groups]
  /\ item \in {NoItem} \union [published : BOOLEAN, max : Scores]
  /\ grade \in [Learners -> Scores \union {0}]
  /\ shown \subseteq Learners
  /\ task \in [Tasks -> Task]
  /\ ever \in [offered : SUBSET Groups, max : Scores \union {0},
               enrolled : SUBSET Learners, eligible : SUBSET Learners]

Eligible(o) == {s \in Learners : o.active /\ (o.cohorts = {} \/ GroupOf[s] \in o.cohorts)}
Greater(a, b) == IF a > b THEN a ELSE b

\* createOffering: the offering and its cohorts in one transaction.
CourseworkInit ==
  /\ \E g \in Sets : offering = [active |-> TRUE, cohorts |-> g]
  /\ teaches = [t \in Lecturers |-> "none"]
  /\ enrolled = [s \in Learners |-> "none"]
  /\ work = NoWork /\ item = NoItem
  /\ grade = [s \in Learners |-> 0] /\ shown = {}
  /\ task = [r \in Tasks |-> NoTask]
  /\ ever = [offered |-> offering.cohorts, max |-> 0, enrolled |-> {},
             eligible |-> Eligible(offering)]

Turns(r, t) == task' = [task EXCEPT ![r] = t]
TurnsTo(r, pc) == Turns(r, [task[r] EXCEPT !.pc = pc])
Ends(r) == Turns(r, NoTask)

\* Rows one transaction has deleted are gone for those that waited for it.
EndsDeletion(r, pcs) ==
  task' = [q \in Tasks |->
             IF q = r THEN NoTask
             ELSE IF task[q].pc \in pcs
                  THEN [task[q] EXCEPT !.seen = task[q].seen \ task[r].seen]
                  ELSE task[q]]
people == <<teaches, enrolled>>
marks == <<work, item, grade, shown>>
Locked(l) == \E r \in Tasks : task[r].locks = l

\* getManageableOffering, asked again by every request.
InCharge(who) == who \in {STAFF} \union {t \in Lecturers : teaches[t] = "on"}

-----------------------------------------------------------------------------
(* The offering and its people.                                            *)

BeginOffering(r, set, resets, flag) ==
  /\ resets \/ (set = {} /\ flag # "keep")
  /\ Turns(r, [NoTask EXCEPT !.pc = "offer", !.set = set, !.resets = resets,
                             !.flag = flag])
  /\ UNCHANGED <<offering, people, marks, ever>>

\* An update that names no column of the row may leave it unwritten, and then
\* it does not lock it.
UpdateOffering(r) ==
  LET t == task[r]
  IN /\ t.pc = "offer"
     /\ \E l \in (IF t.flag = "keep" THEN {"none"} ELSE {}) \union {"offering"} :
          /\ l = "none" \/ ~Locked("offering")
          /\ Turns(r, [t EXCEPT !.pc = IF t.resets THEN "offerDelete" ELSE "offerCommit",
                                !.locks = l])
     /\ UNCHANGED <<offering, people, marks, ever>>

\* A deletion removes the rows it can see, and nobody sees it before the commit.
SeenAtOnce(rows) == {}  \* mutant: the deletion is not in the transaction
SeenByOthers(rows) == rows

DeleteOffered(r) ==
  /\ task[r].pc = "offerDelete"
  /\ Turns(r, [task[r] EXCEPT !.pc = "offerCommit", !.seen = offering.cohorts])
  /\ offering' = [offering EXCEPT !.cohorts = SeenByOthers(offering.cohorts)]
  /\ UNCHANGED <<people, marks, ever>>

\* The insertion, and the commit; a row another request has inserted meanwhile
\* makes it fail.
Replaced(rows, t) == IF t.resets THEN (rows \ t.seen) \union t.set ELSE rows
Collides(rows, t) == t.resets /\ (rows \ t.seen) \intersect t.set # {}

CommitOffering(r) ==
  LET t == task[r]
      new == [active |-> IF t.flag = "keep" THEN offering.active ELSE t.flag = "on",
              cohorts |-> Replaced(offering.cohorts, t)]
  IN /\ t.pc = "offerCommit"
     /\ IF Collides(offering.cohorts, t) THEN Ends(r) /\ UNCHANGED <<offering, ever>>
        ELSE /\ offering' = new
             /\ EndsDeletion(r, {"offerCommit"})
             /\ ever' = [ever EXCEPT !.offered = ever.offered \union new.cohorts,
                                     !.eligible = ever.eligible \union Eligible(new)]
     /\ UNCHANGED <<people, marks>>

\* createTeachingAssignment, updateTeachingAssignment.
BeginAppoint(r, t, flag) ==
  /\ flag = "on" \/ teaches[t] # "none"
  /\ Turns(r, [NoTask EXCEPT !.pc = "appoint", !.of = t, !.flag = flag])
  /\ UNCHANGED <<offering, people, marks, ever>>

Appoint(r) ==
  /\ task[r].pc = "appoint"
  /\ teaches' = [teaches EXCEPT ![task[r].of] = task[r].flag]
  /\ Ends(r)
  /\ UNCHANGED <<offering, enrolled, marks, ever>>

\* createEnrollment: the cohorts of the offering as they are read now.  The student,
\* read next, is approved and stays in one cohort here.
MayEnroll(s) == s \in Eligible(offering)
BeginEnroll(r, s) ==
  /\ MayEnroll(s)
  /\ Turns(r, [NoTask EXCEPT !.pc = "enroll", !.of = s])
  /\ UNCHANGED <<offering, people, marks, ever>>

\* One enrollment per student and offering.
Enroll(r) ==
  LET s == task[r].of
  IN /\ task[r].pc = "enroll"
     /\ IF enrolled[s] = "none"
        THEN /\ enrolled' = [enrolled EXCEPT ![s] = "on"]
             /\ ever' = [ever EXCEPT !.enrolled = ever.enrolled \union {s}]
        ELSE UNCHANGED <<enrolled, ever>>
     /\ Ends(r)
     /\ UNCHANGED <<offering, teaches, marks>>

BeginUpdateEnrollment(r, s, flag) ==
  /\ enrolled[s] # "none" /\ flag # "keep"
  /\ Turns(r, [NoTask EXCEPT !.pc = "setEnrollment", !.of = s, !.flag = flag])
  /\ UNCHANGED <<offering, people, marks, ever>>

UpdateEnrollment(r) ==
  /\ task[r].pc = "setEnrollment"
  /\ enrolled' = [enrolled EXCEPT ![task[r].of] = task[r].flag]
  /\ Ends(r)
  /\ UNCHANGED <<offering, teaches, marks, ever>>

-----------------------------------------------------------------------------
(* The assignment.                                                         *)

\* assertCohortsBelongToOffering, after the right to manage was checked.
BelongsUnasked(set) == TRUE  \* mutant: not asserted
BelongsToOffering(set) == set \subseteq offering.cohorts

BeginCreateWork(r, who, set, max, flag) ==
  /\ InCharge(who) /\ flag # "keep"
  /\ Turns(r, [NoTask EXCEPT !.pc = "set", !.by = who, !.set = set,
                             !.score = max, !.flag = flag])
  /\ UNCHANGED <<offering, people, marks, ever>>

CheckSet(r) ==
  LET t == task[r]
      next == CASE t.pc = "set" -> "insertWork"
                [] t.pc = "replace" -> "delete"
  IN /\ t.pc \in {"set", "replace"}
     /\ IF BelongsToOffering(t.set) THEN TurnsTo(r, next) ELSE Ends(r)
     /\ UNCHANGED <<offering, people, marks, ever>>

\* One assignment is enough here: it is created once.
InsertWork(r) ==
  LET t == task[r]
  IN /\ t.pc = "insertWork"
     /\ IF work.exists THEN UNCHANGED <<work, item, ever>>
        ELSE /\ work' = [exists |-> TRUE, published |-> t.flag = "on",
                         max |-> t.score, targets |-> t.set]
             /\ item' = [published |-> t.flag = "on", max |-> t.score]
             /\ ever' = [ever EXCEPT !.max = t.score]
     /\ Ends(r)
     /\ UNCHANGED <<offering, people, grade, shown>>

\* update; `flag` "on" is publish, which changes nothing else.
BeginUpdateWork(r, who, set, resets, max, flag) ==
  /\ work.exists /\ InCharge(who)
  /\ IF flag = "on" THEN ~resets /\ max = 0 ELSE flag = "keep" /\ (resets \/ max # 0)
  /\ resets \/ set = {}
  /\ Turns(r, [NoTask EXCEPT
       !.pc = IF resets /\ set # {} THEN "replace" ELSE IF resets THEN "delete" ELSE "row",
       !.by = who, !.set = set, !.resets = resets, !.score = max, !.flag = flag])
  /\ UNCHANGED <<offering, people, marks, ever>>

DeleteTargets(r) ==
  /\ task[r].pc = "delete"
  /\ Turns(r, [task[r] EXCEPT !.pc = "row", !.seen = work.targets])
  /\ work' = [work EXCEPT !.targets = SeenByOthers(work.targets)]
  /\ UNCHANGED <<offering, people, item, grade, shown, ever>>

WriteRow(r) ==
  LET t == task[r]
      written == t.score # 0 \/ t.flag # "keep"
  IN /\ t.pc = "row"
     /\ \E l \in (IF written THEN {} ELSE {"none"}) \union {"work"} :
          /\ l = "none" \/ ~Locked("work")
          /\ Turns(r, [t EXCEPT !.pc = "commit", !.locks = l])
     /\ UNCHANGED <<offering, people, marks, ever>>

\* The line of the gradebook, and the commit.
MaxAfter(t, old) == IF t.score = 0 THEN old ELSE t.score

CommitWork(r) ==
  LET t == task[r]
      max == MaxAfter(t, work.max)
      published == work.published \/ t.flag = "on"
  IN /\ t.pc = "commit"
     /\ IF Collides(work.targets, t) THEN Ends(r) /\ UNCHANGED <<work, item, ever>>
        ELSE /\ EndsDeletion(r, {"row", "commit"})
             /\ work' = [work EXCEPT !.targets = Replaced(work.targets, t),
                                     !.max = max, !.published = published]
             /\ item' = [published |-> item.published \/ t.flag = "on",
                         max |-> MaxAfter(t, item.max)]
             /\ ever' = [ever EXCEPT !.max = Greater(ever.max, max)]
     /\ UNCHANGED <<offering, people, grade, shown>>

\* grade: the maximum is the one read with the assignment.
BeginGrade(r, who, s, score, flag) ==
  /\ work.exists /\ InCharge(who)
  /\ score <= work.max /\ flag # "keep"
  /\ Turns(r, [NoTask EXCEPT !.pc = "enrollment", !.by = who, !.of = s,
                             !.score = score, !.flag = flag])
  /\ UNCHANGED <<offering, people, marks, ever>>

CheckEnrollment(r) ==
  /\ task[r].pc = "enrollment"
  /\ IF enrolled[task[r].of] = "on" THEN TurnsTo(r, "upsert") ELSE Ends(r)
  /\ UNCHANGED <<offering, people, marks, ever>>

\* A grade saved again without its publication is taken back.
UpsertGrade(r) ==
  LET t == task[r]
  IN /\ t.pc = "upsert"
     /\ grade' = [grade EXCEPT ![t.of] = t.score]
     /\ shown' = IF t.flag = "on" THEN shown \union {t.of} ELSE shown \ {t.of}
     /\ Ends(r)
     /\ UNCHANGED <<offering, people, work, item, ever>>

TaskLost(r) ==
  /\ task[r].pc # "idle"
  /\ Ends(r)
  /\ UNCHANGED <<offering, people, marks, ever>>

Unengaged(r) == task[r].pc = "idle"

BeginOfferingStep(r) ==
  \/ \E g \in Sets, b \in BOOLEAN, f \in {"keep", "on", "off"} : BeginOffering(r, g, b, f)
  \/ \E t \in Lecturers, f \in {"on", "off"} : BeginAppoint(r, t, f)
  \/ \E s \in Learners, f \in {"on", "off"} : BeginEnroll(r, s) \/ BeginUpdateEnrollment(r, s, f)
OfferingStep(r) ==
  \/ Unengaged(r) /\ BeginOfferingStep(r)
  \/ UpdateOffering(r) \/ DeleteOffered(r) \/ CommitOffering(r)
  \/ Appoint(r) \/ Enroll(r) \/ UpdateEnrollment(r)

BeginWorkStep(r) ==
  \E who \in Lecturers \union {STAFF}, x \in Scores \union {0}, f \in {"keep", "on", "off"} :
    \/ \E g \in Sets :
         \/ x # 0 /\ BeginCreateWork(r, who, g, x, f)
         \/ \E b \in BOOLEAN : BeginUpdateWork(r, who, g, b, x, f)
    \/ x # 0 /\ \E s \in Learners : BeginGrade(r, who, s, x, f)
WorkStep(r) ==
  \/ Unengaged(r) /\ BeginWorkStep(r)
  \/ CheckSet(r) \/ InsertWork(r) \/ DeleteTargets(r) \/ WriteRow(r) \/ CommitWork(r)
  \/ CheckEnrollment(r) \/ UpsertGrade(r)

CourseworkNext == \E r \in Tasks : OfferingStep(r) \/ WorkStep(r) \/ TaskLost(r)

CourseworkSpec == CourseworkInit /\ [][CourseworkNext]_courseworkVars

-----------------------------------------------------------------------------
(* What is seen.                                                           *)

\* AssignmentService.list for a student.
SeesWork(s) ==
  /\ work.exists /\ work.published /\ enrolled[s] = "on"
  /\ work.targets = {} \/ GroupOf[s] \in work.targets
SeesGrade(s) == SeesWork(s) /\ s \in shown

-----------------------------------------------------------------------------
(* Properties.                                                             *)

\* Because no cohort means everybody, a set of cohorts that has been given is
\* emptied by a request that asked for it and by nothing else: not by two
\* replacements that meet, nor by one that is lost half-way.
NeverForEverybodyByAccident ==
  [][/\ work.exists /\ work.targets # {} /\ work'.targets = {} =>
          \E r \in Tasks : task[r].pc = "commit" /\ task[r].resets /\ task[r].set = {}
     /\ offering.cohorts # {} /\ offering'.cohorts = {} =>
          \E r \in Tasks : /\ task[r].pc = "offerCommit"
                           /\ task[r].resets /\ task[r].set = {}]_courseworkVars

\* Whatever stands was lawful once, although the rules may have moved since:
\* a target was a cohort of the offering, an enrolled student was one it was
\* open to, a grade is of a student who was enrolled and within a maximum the
\* assignment has had, and the gradebook's line shows what the assignment is.
OnceLawful ==
  /\ work.targets \subseteq ever.offered
  /\ \A s \in Learners :
       /\ enrolled[s] # "none" => s \in ever.eligible
       /\ grade[s] # 0 => s \in ever.enrolled /\ grade[s] <= ever.max
  /\ work.exists => item = [published |-> work.published, max |-> work.max]
=============================================================================
