------------------------------ MODULE TermProofs ------------------------------
(***************************************************************************)
(* What is kept through a term, for any number of requests at once: the    *)
(* current term is handed over, the rules of coursework held once, and     *)
(* codes by email are throttled, guessed a few times at most and spent     *)
(* once.                                                                   *)
(***************************************************************************)
EXTENDS Terms, Coursework, EmailCodes, FiniteSetTheorems, TLAPS

-----------------------------------------------------------------------------
(* The current term.                                                       *)

\* Only a request that makes a term current clears others, and there is never
\* more than one to clear; whatever is written has both its dates.
OneCurrent == \A t, u \in CurrentTerms : t = u
ClearsForAnother ==
  \A r \in Registrars :
    switch[r].pc = "clear" \/ switch[r].mine # {} => switch[r].says.current = "on"
DatesAreKnown ==
  \A r \in Registrars :
    /\ switch[r].pc # "idle" =>
         \/ term[switch[r].term].exists
         \/ switch[r].says.from # 0 /\ switch[r].says.to # 0
    /\ \A t \in switch[r].mine : term[t].exists

TermsInv == TermsTypeOK /\ OneCurrent /\ ClearsForAnother /\ DatesAreKnown

LEMMA SettledIsSwitch ==
  ASSUME NEW t \in TermIds PROVE Settled(t) \in Switch
BY DEF Settled, Switch, Statement

LEMMA SomeTermExists == SomeTerm \in TermIds
BY TermsAssumption DEF SomeTerm

LEMMA TermFields ==
  ASSUME NEW t \in Term
  PROVE  /\ t.current \in BOOLEAN /\ t.exists \in BOOLEAN
         /\ t.exists => t.from \in Dates /\ t.to \in Dates
         /\ ~t.exists => ~t.current
<1>1. CASE t = NoTerm
  BY <1>1 DEF NoTerm
<1>2. CASE t \in [exists : {TRUE}, current : BOOLEAN, from : Dates, to : Dates]
  BY <1>2
<1> QED
  BY <1>1, <1>2 DEF Term

LEMMA DatedIsTerm ==
  ASSUME NEW t \in Term, NEW s \in Statement,
         t.exists \/ (s.from # 0 /\ s.to # 0)
  PROVE  Dated(t, s) \in Term /\ Dated(t, s).exists
<1>1. /\ (IF s.current = "keep" THEN t.current ELSE s.current = "on") \in BOOLEAN
      /\ (IF s.from = 0 THEN t.from ELSE s.from) \in Dates
      /\ (IF s.to = 0 THEN t.to ELSE s.to) \in Dates
  BY TermFields DEF Statement
<1> QED
  BY <1>1 DEF Dated, Term

LEMMA ClearedIsTerm ==
  ASSUME NEW t \in Term, t.exists
  PROVE  LET u == [t EXCEPT !.current = FALSE]
         IN  u \in Term /\ ~u.current /\ u.exists
<1>1. t \in [exists : {TRUE}, current : BOOLEAN, from : Dates, to : Dates]
  <2>1. ~NoTerm.exists
    BY DEF NoTerm
  <2> QED
    BY <2>1 DEF Term
<1> QED
  BY <1>1 DEF Term

LEMMA TermsStart == TermsInit => TermsInv
<1> SUFFICES ASSUME TermsInit PROVE TermsInv
  OBVIOUS
<1>1. TermsTypeOK
  BY SettledIsSwitch, SomeTermExists DEF TermsInit, TermsTypeOK, Term
<1>2. CurrentTerms = {}
  BY DEF TermsInit, CurrentTerms, NoTerm
<1>3. \A r \in Registrars : switch[r].pc = "idle" /\ switch[r].mine = {}
  BY DEF TermsInit, Settled
<1> QED
  BY <1>1, <1>2, <1>3 DEF TermsInv, OneCurrent, ClearsForAnother, DatesAreKnown

\* A statement that writes no term moves one request along.
LEMMA SwitchMoves ==
  ASSUME TermsInv, UNCHANGED term, NEW r \in Registrars,
         NEW s \in Switch, SwitchesTo(r, s),
         s.pc = "clear" \/ s.mine # {} => s.says.current = "on",
         s.pc # "idle" =>
           term[s.term].exists \/ (s.says.from # 0 /\ s.says.to # 0),
         \A t \in s.mine : term[t].exists
  PROVE  TermsInv'
<1> USE DEF TermsInv, SwitchesTo
<1>1. TermsTypeOK'
  BY DEF TermsTypeOK
<1>2. OneCurrent'
  BY DEF OneCurrent, CurrentTerms
<1>3. ClearsForAnother'
  BY DEF ClearsForAnother, TermsTypeOK
<1>4. \A q \in Registrars : switch'[q] = IF q = r THEN s ELSE switch[q]
  BY DEF TermsTypeOK
<1>5. DatesAreKnown'
  BY <1>4 DEF DatesAreKnown
<1> QED
  BY <1>1, <1>2, <1>3, <1>5

LEMMA GivesKeeps ==
  ASSUME TermsInv, UNCHANGED term, NEW r \in Registrars, Gives(r)
  PROVE  TermsInv'
<1>1. Settled(SomeTerm) \in Switch
  BY SettledIsSwitch, SomeTermExists
<1>2. Settled(SomeTerm).pc = "idle" /\ Settled(SomeTerm).mine = {}
  BY DEF Settled
<1> QED
  BY <1>1, <1>2, SwitchMoves DEF Gives

LEMMA BeginKeeps ==
  ASSUME TermsInv, NEW r \in Registrars, NEW t \in TermIds, NEW s \in Statement,
         BeginCreateTerm(r, t, s) \/ BeginUpdateTerm(r, t, s)
  PROVE  TermsInv'
<1> DEFINE b == [Settled(t) EXCEPT !.pc = "begin", !.says = s]
<1>1. /\ b \in Switch
      /\ b.pc = "begin" /\ b.mine = {} /\ b.term = t /\ b.says = s
  BY DEF Settled, Switch
<1>2. SwitchesTo(r, b) /\ UNCHANGED term
  BY DEF BeginCreateTerm, BeginUpdateTerm
<1>3. term[t].exists \/ (s.from # 0 /\ s.to # 0)
  BY DEF BeginCreateTerm, BeginUpdateTerm
<1> HIDE DEF b
<1> QED
  BY <1>1, <1>2, <1>3, SwitchMoves

LEMMA BeginClearKeeps ==
  ASSUME TermsInv, NEW r \in Registrars, BeginClear(r)
  PROVE  TermsInv'
<1> DEFINE s == switch[r]
           c == [s EXCEPT !.pc = "clear", !.seen = CurrentTerms \ {s.term}]
           w == [s EXCEPT !.pc = "set"]
<1>1. s \in Switch /\ s.pc = "begin"
  BY DEF TermsInv, TermsTypeOK, BeginClear
<1>2. CASE s.says.current = "on"
  <2>1. /\ c \in Switch /\ c.says = s.says /\ c.term = s.term /\ c.mine = s.mine
    BY <1>1 DEF Switch, CurrentTerms
  <2>2. SwitchesTo(r, c) /\ UNCHANGED term
    BY <1>2 DEF BeginClear
  <2> QED
    BY <1>1, <1>2, <2>1, <2>2, SwitchMoves DEF TermsInv, DatesAreKnown
<1>3. CASE s.says.current # "on"
  <2>1. w \in Switch /\ w.says = s.says /\ w.term = s.term /\ w.mine = s.mine /\ w.pc = "set"
    BY <1>1 DEF Switch
  <2>2. SwitchesTo(r, w) /\ UNCHANGED term
    BY <1>3 DEF BeginClear
  <2> QED
    BY <1>1, <2>1, <2>2, SwitchMoves DEF TermsInv, DatesAreKnown, ClearsForAnother
<1> QED
  BY <1>2, <1>3

LEMMA ClearOthersKeeps ==
  ASSUME TermsInv, NEW r \in Registrars, ClearOthers(r)
  PROVE  TermsInv'
<1> DEFINE s == switch[r]
           c == [s EXCEPT !.pc = "set", !.seen = {}, !.mine = s.seen \intersect CurrentTerms]
<1>1. s \in Switch /\ s.pc = "clear" /\ s.says.current = "on"
  BY DEF TermsInv, TermsTypeOK, ClearsForAnother, ClearOthers
<1>2. /\ c \in Switch /\ c.says = s.says /\ c.term = s.term
      /\ c.mine \subseteq CurrentTerms
  BY <1>1 DEF Switch
<1>3. SwitchesTo(r, c) /\ UNCHANGED term
  BY DEF ClearOthers
<1>4. \A t \in CurrentTerms : term[t].exists
  BY TermFields DEF CurrentTerms, TermsInv, TermsTypeOK
<1>5. term[s.term].exists \/ (s.says.from # 0 /\ s.says.to # 0)
  BY <1>1 DEF TermsInv, DatesAreKnown
<1> HIDE DEF s, c
<1> QED
  BY <1>1, <1>2, <1>3, <1>4, <1>5, SwitchMoves

\* The write: one row is set, those the request cleared are not current, and
\* the index refuses what would leave two.
LEMMA SetTermKeeps ==
  ASSUME TermsInv, NEW r \in Registrars, SetTerm(r)
  PROVE  /\ TermsInv'
         /\ CurrentTerms # {} /\ CurrentTerms' = {} =>
              switch[r].says.current = "off" /\ switch[r].term \in CurrentTerms
<1> DEFINE s == switch[r]
           new == Dated(term[s.term], s.says)
<1>1. s \in Switch /\ s.pc = "set" /\ s.term \in TermIds /\ s.says \in Statement
  BY DEF TermsInv, TermsTypeOK, SetTerm, Switch
<1>2. term[s.term] \in Term
  BY <1>1 DEF TermsInv, TermsTypeOK
<1>3. new \in Term /\ new.exists
  BY <1>1, <1>2, DatedIsTerm DEF TermsInv, DatesAreKnown
<1>4. CASE IndexRefuses(r, new)
  <2>1. Gives(r) /\ UNCHANGED term
    BY <1>4 DEF SetTerm
  <2>2. CurrentTerms' = CurrentTerms
    BY <2>1 DEF CurrentTerms
  <2> QED
    BY <2>1, <2>2, GivesKeeps
<1>5. CASE ~IndexRefuses(r, new)
  <2>1. /\ term' = [t \in TermIds |->
                     IF t = s.term THEN new
                     ELSE IF t \in s.mine THEN [term[t] EXCEPT !.current = FALSE]
                     ELSE term[t]]
        /\ Gives(r)
    BY <1>5 DEF SetTerm
  <2> HIDE DEF new
  <2>2. \A t \in TermIds :
          /\ term'[t] \in Term
          /\ term[t].exists => term'[t].exists
          /\ t # s.term /\ t \in s.mine => ~term'[t].current
    <3> SUFFICES ASSUME NEW t \in TermIds
                 PROVE  /\ term'[t] \in Term /\ (term[t].exists => term'[t].exists)
                        /\ (t # s.term /\ t \in s.mine => ~term'[t].current)
      OBVIOUS
    <3> DEFINE u == [term[t] EXCEPT !.current = FALSE]
    <3>1. term[t] \in Term /\ (t \in s.mine => term[t].exists)
      BY DEF TermsInv, TermsTypeOK, DatesAreKnown
    <3>2. t \in s.mine => u \in Term /\ ~u.current /\ u.exists
      BY <3>1, ClearedIsTerm
    <3>3. term'[t] = IF t = s.term THEN new ELSE IF t \in s.mine THEN u ELSE term[t]
      BY <2>1
    <3> HIDE DEF u
    <3> QED
      BY <1>3, <3>1, <3>2, <3>3
  <2>3. CurrentTerms' = IF new.current THEN {s.term} \union (CurrentTerms \ s.mine)
                        ELSE CurrentTerms \ (s.mine \union {s.term})
    BY <2>1, <2>2, <1>1, <1>3 DEF CurrentTerms, TermsInv, TermsTypeOK
  <2>4. new.current => CurrentTerms' = {s.term}
    BY <1>5, <2>3 DEF IndexRefuses
  <2>5. TermsTypeOK'
    <3>1. term' \in [TermIds -> Term]
      BY <2>1, <2>2
    <3>2. switch' \in [Registrars -> Switch]
      BY <2>1, SettledIsSwitch, SomeTermExists DEF Gives, SwitchesTo, TermsInv, TermsTypeOK
    <3> QED
      BY <3>1, <3>2 DEF TermsTypeOK
  <2>6. OneCurrent'
    BY <2>3, <2>4 DEF OneCurrent, TermsInv
  <2>7. \A q \in Registrars : switch'[q] = IF q = r THEN Settled(SomeTerm) ELSE switch[q]
    BY <2>1 DEF Gives, SwitchesTo, TermsInv, TermsTypeOK
  <2>8. Settled(SomeTerm).pc = "idle" /\ Settled(SomeTerm).mine = {}
    BY DEF Settled
  <2>9. ClearsForAnother'
    BY <2>7, <2>8 DEF ClearsForAnother, TermsInv
  <2>10. DatesAreKnown'
    <3>1. \A q \in Registrars : switch[q].term \in TermIds /\ switch[q].mine \subseteq TermIds
      BY DEF TermsInv, TermsTypeOK, Switch
    <3> QED
      BY <3>1, <2>2, <2>7, <2>8 DEF TermsInv, DatesAreKnown
  <2>11. ASSUME CurrentTerms # {}, CurrentTerms' = {}
         PROVE  s.says.current = "off" /\ s.term \in CurrentTerms
    <3>1. ~new.current
      BY <2>4, <2>11
    <3>2. s.says.current # "on"
      BY <3>1 DEF new, Dated
    <3>3. s.mine = {}
      BY <3>2 DEF TermsInv, ClearsForAnother
    <3>4. CurrentTerms = {s.term}
      BY <2>3, <2>11, <3>1, <3>3
    <3>5. s.says.current # "keep"
      BY <3>1, <3>4 DEF new, Dated, CurrentTerms
    <3> QED
      BY <3>2, <3>4, <3>5, <1>1 DEF Statement
  <2> QED
    BY <2>5, <2>6, <2>9, <2>10, <2>11 DEF TermsInv
<1> QED
  BY <1>4, <1>5

LEMMA TermsStep ==
  ASSUME TermsInv, [TermsNext]_termVars
  PROVE  /\ TermsInv'
         /\ CurrentTerms # {} /\ CurrentTerms' = {} =>
              \E r \in Registrars : /\ switch[r].pc = "set"
                                    /\ switch[r].says.current = "off"
                                    /\ switch[r].term \in CurrentTerms
<1>1. ASSUME UNCHANGED term PROVE CurrentTerms' = CurrentTerms
  BY <1>1 DEF CurrentTerms
<1>2. CASE UNCHANGED termVars
  BY <1>1, <1>2 DEF termVars, TermsInv, TermsTypeOK, OneCurrent, ClearsForAnother,
                    DatesAreKnown
<1>3. ASSUME NEW r \in Registrars, NEW t \in TermIds, NEW s \in Statement,
             BeginCreateTerm(r, t, s) \/ BeginUpdateTerm(r, t, s)
      PROVE  TermsInv' /\ UNCHANGED term
  BY <1>3, BeginKeeps DEF BeginCreateTerm, BeginUpdateTerm
<1>4. ASSUME NEW r \in Registrars, BeginClear(r) PROVE TermsInv' /\ UNCHANGED term
  BY <1>4, BeginClearKeeps DEF BeginClear
<1>5. ASSUME NEW r \in Registrars, ClearOthers(r) PROVE TermsInv' /\ UNCHANGED term
  BY <1>5, ClearOthersKeeps DEF ClearOthers
<1>6. ASSUME NEW r \in Registrars, SwitchLost(r) PROVE TermsInv' /\ UNCHANGED term
  BY <1>6, GivesKeeps DEF SwitchLost
<1>7. ASSUME NEW r \in Registrars, SetTerm(r)
      PROVE  /\ TermsInv'
             /\ CurrentTerms # {} /\ CurrentTerms' = {} =>
                  \E q \in Registrars : /\ switch[q].pc = "set"
                                        /\ switch[q].says.current = "off"
                                        /\ switch[q].term \in CurrentTerms
  BY <1>7, SetTermKeeps DEF SetTerm
<1> QED
  BY <1>1, <1>2, <1>3, <1>4, <1>5, <1>6, <1>7 DEF TermsNext

LEMMA AtMostOne ==
  ASSUME NEW S, \A t, u \in S : t = u PROVE Cardinality(S) <= 1
<1>1. CASE S = {}
  BY <1>1, FS_EmptySet
<1>2. CASE S # {}
  <2>1. PICK t \in S : TRUE
    BY <1>2
  <2>2. S = {t}
    BY <2>1
  <2>3. Cardinality({t}) = 1
    BY FS_Singleton
  <2> QED
    BY <2>2, <2>3
<1> QED
  BY <1>1, <1>2

\* However many requests make however many terms current at once, at most one
\* is, and the last is given up only by a request that says so.
THEOREM TheTermIsHandedOver == TermsSpec => CurrentTermHandsOver
<1>1. TermsInit => TermsInv
  BY TermsStart
<1>2. TermsInv /\ [TermsNext]_termVars => TermsInv'
  BY TermsStep
<1>3. TermsInv /\ TermsInv' /\ [TermsNext]_termVars =>
        [/\ Cardinality(CurrentTerms') <= 1
         /\ CurrentTerms # {} /\ CurrentTerms' = {} =>
              \E r \in Registrars : /\ switch[r].pc = "set"
                                    /\ switch[r].says.current = "off"
                                    /\ switch[r].term \in CurrentTerms]_termVars
  <2>1. TermsInv' => Cardinality(CurrentTerms') <= 1
    BY AtMostOne DEF TermsInv, OneCurrent
  <2> QED
    BY <2>1, TermsStep
<1> QED
  BY <1>1, <1>2, <1>3, PTL DEF TermsSpec, CurrentTermHandsOver

-----------------------------------------------------------------------------
(* Coursework.                                                             *)

\* What a request has checked, as it may rely on it when it writes.
Lawful(t) ==
  /\ t.pc \in {"insertWork", "delete", "row", "commit"} => t.set \subseteq ever.offered
  /\ t.pc \in {"replace", "delete", "row", "commit"} => work.exists
  /\ t.pc \in {"set", "insertWork"} => t.score # 0
  /\ t.pc = "enroll" => t.of \in Learners /\ t.of \in ever.eligible
  /\ t.pc = "setEnrollment" => /\ t.of \in Learners /\ t.flag # "keep"
                               /\ enrolled[t.of] # "none"
  /\ t.pc = "appoint" => t.flag # "keep"
  /\ t.pc \in {"enrollment", "upsert"} => t.of \in Learners /\ t.score <= ever.max
  /\ t.pc = "upsert" => t.of \in ever.enrolled

TasksLawful == \A r \in Tasks : Lawful(task[r])

RowsLawful ==
  /\ offering.cohorts \subseteq ever.offered /\ work.targets \subseteq ever.offered
  /\ Eligible(offering) \subseteq ever.eligible
  /\ \A s \in Learners :
       /\ enrolled[s] # "none" => s \in ever.eligible /\ s \in ever.enrolled
       /\ grade[s] # 0 => s \in ever.enrolled /\ grade[s] <= ever.max
  /\ IF work.exists
     THEN /\ item = [published |-> work.published, max |-> work.max]
          /\ work.max \in Scores /\ work.max <= ever.max
     ELSE ever.max = 0

CourseworkInv == CourseworkTypeOK /\ TasksLawful /\ RowsLawful

\* The history only grows, and nothing is undone that a request relies on.
NothingTakenBack ==
  /\ ever.offered \subseteq ever'.offered /\ ever.eligible \subseteq ever'.eligible
  /\ ever.enrolled \subseteq ever'.enrolled /\ ever.max <= ever'.max
  /\ work.exists => work'.exists
  /\ \A s \in Learners : enrolled[s] # "none" => enrolled'[s] # "none"

LEMMA ScoresAreNat ==
  ASSUME CourseworkAssumption, NEW x \in Scores \union {0} PROVE x \in Nat
BY DEF CourseworkAssumption

LEMMA StillLawful ==
  ASSUME NothingTakenBack, NEW t \in Task, Lawful(t),
         CourseworkAssumption, ever.max \in Nat, ever'.max \in Nat
  PROVE  Lawful(t)'
<1>1. t.score \in Nat
  <2>1. t.score \in Scores \union {0}
    BY DEF Task
  <2> QED
    BY <2>1, ScoresAreNat
<1>2. t.score <= ever.max => t.score <= ever'.max
  BY <1>1 DEF NothingTakenBack
<1> QED
  BY <1>2 DEF Lawful, NothingTakenBack

\* One request moves to a lawful task, the others stay as they are but for the
\* rows they have seen.
LEMMA TasksStayLawful ==
  ASSUME CourseworkAssumption, CourseworkInv, NothingTakenBack, ever'.max \in Nat,
         NEW r \in Tasks, NEW t \in Task, Lawful(t)', task' \in [Tasks -> Task],
         task'[r] = t,
         \A q \in Tasks \ {r} :
           /\ task'[q].pc = task[q].pc /\ task'[q].set = task[q].set
           /\ task'[q].score = task[q].score /\ task'[q].of = task[q].of
           /\ task'[q].flag = task[q].flag
  PROVE  TasksLawful'
<1> SUFFICES ASSUME NEW q \in Tasks PROVE Lawful(task[q])'
  BY DEF TasksLawful
<1>1. CASE q = r
  BY <1>1 DEF Lawful
<1>2. CASE q # r
  <2>1. task[q] \in Task /\ Lawful(task[q]) /\ ever.max \in Nat
    <3>1. task \in [Tasks -> Task] /\ ever.max \in Scores \union {0}
      BY DEF CourseworkInv, CourseworkTypeOK
    <3> QED
      BY <3>1, ScoresAreNat DEF CourseworkInv, TasksLawful
  <2>2. PICK u \in Task : u = task[q]
    BY <2>1
  <2>3. Lawful(u)'
    BY <2>1, <2>2, StillLawful
  <2>4. /\ task'[q].pc = u.pc /\ task'[q].set = u.set /\ task'[q].score = u.score
        /\ task'[q].of = u.of /\ task'[q].flag = u.flag
    BY <1>2, <2>2
  <2> QED
    BY <2>3, <2>4 DEF Lawful
<1> QED
  BY <1>1, <1>2

LEMMA TurnsAre ==
  ASSUME CourseworkTypeOK, NEW r \in Tasks, NEW t \in Task, Turns(r, t)
  PROVE  /\ task' \in [Tasks -> Task] /\ task'[r] = t
         /\ \A q \in Tasks \ {r} : task'[q] = task[q]
BY DEF CourseworkTypeOK, Turns

LEMMA IdleIsATask ==
  NoTask \in Task /\ NoTask.pc = "idle"
BY DEF NoTask, Task

\* Rows a committed deletion took are no longer seen by those that waited.
LEMMA DeletionEnds ==
  ASSUME CourseworkTypeOK, NEW r \in Tasks, NEW pcs, EndsDeletion(r, pcs)
  PROVE  /\ task' \in [Tasks -> Task] /\ task'[r] = NoTask
         /\ \A q \in Tasks \ {r} :
              /\ task'[q].pc = task[q].pc /\ task'[q].set = task[q].set
              /\ task'[q].score = task[q].score /\ task'[q].of = task[q].of
              /\ task'[q].flag = task[q].flag
<1>1. task'[r] = NoTask /\ DOMAIN task' = Tasks
  BY DEF EndsDeletion
<1>2. ASSUME NEW q \in Tasks, q # r
      PROVE  /\ task'[q] \in Task
             /\ task'[q].pc = task[q].pc /\ task'[q].set = task[q].set
             /\ task'[q].score = task[q].score /\ task'[q].of = task[q].of
             /\ task'[q].flag = task[q].flag
  <2>1. task[q] \in Task /\ task[r] \in Task
    BY DEF CourseworkTypeOK
  <2>2. CASE task'[q] = task[q]
    BY <2>1, <2>2
  <2>3. CASE task'[q] = [task[q] EXCEPT !.seen = task[q].seen \ task[r].seen]
    BY <2>1, <2>3 DEF Task
  <2> QED
    BY <1>2, <2>2, <2>3 DEF EndsDeletion
<1>3. task' = [q \in Tasks |-> task'[q]]
  BY DEF EndsDeletion
<1> QED
  BY <1>1, <1>2, <1>3, IdleIsATask

LEMMA OnlyTheTaskMoves ==
  ASSUME CourseworkAssumption, CourseworkInv, NEW r \in Tasks, NEW t \in Task, Turns(r, t),
         Lawful(t), UNCHANGED <<offering, teaches, enrolled, work, item, grade, shown, ever>>
  PROVE  CourseworkInv'
<1>1. ever.max \in Nat /\ ever.max <= ever.max
  <2>1. ever.max \in Scores \union {0}
    BY DEF CourseworkInv, CourseworkTypeOK
  <2>2. ever.max \in Nat
    BY <2>1, ScoresAreNat
  <2> QED
    BY <2>2
<1>2. NothingTakenBack
  BY <1>1 DEF NothingTakenBack
<1>3. Lawful(t)'
  BY DEF Lawful
<1>4. task' \in [Tasks -> Task] /\ task'[r] = t /\ \A q \in Tasks \ {r} : task'[q] = task[q]
  BY TurnsAre DEF CourseworkInv
<1>5. TasksLawful'
  BY <1>1, <1>2, <1>3, <1>4, TasksStayLawful
<1>6. CourseworkTypeOK'
  BY <1>4 DEF CourseworkInv, CourseworkTypeOK
<1>7. RowsLawful'
  BY DEF CourseworkInv, RowsLawful, Eligible
<1> QED
  BY <1>5, <1>6, <1>7 DEF CourseworkInv

LEMMA LockIsTaken ==
  ASSUME NEW k \in Task, NEW l \in {"none", "offering", "work"},
         NEW pc \in {"offerDelete", "offerCommit", "commit"}
  PROVE  [k EXCEPT !.pc = pc, !.locks = l] \in Task
BY DEF Task

\* A request about the offering or its people starts, or goes on reading.
LEMMA OfferingAsked ==
  ASSUME CourseworkAssumption, CourseworkInv, NEW r \in Tasks,
         (Unengaged(r) /\ BeginOfferingStep(r)) \/ UpdateOffering(r) \/ TaskLost(r)
  PROVE  CourseworkInv'
<1> USE IdleIsATask
<1>0. UNCHANGED <<offering, teaches, enrolled, work, item, grade, shown, ever>>
  BY DEF BeginOfferingStep, BeginOffering, BeginAppoint, BeginEnroll, BeginUpdateEnrollment,
         UpdateOffering, TaskLost, people, marks
<1>1. ASSUME NEW t \in Task, Turns(r, t),
             t.pc \in {"idle", "offer", "offerDelete", "offerCommit"}
      PROVE  CourseworkInv'
  <2>1. Lawful(t)
    BY <1>1 DEF Lawful
  <2> QED
    BY <1>0, <1>1, <2>1, OnlyTheTaskMoves
<1>2. ASSUME NEW g \in Sets, NEW b \in BOOLEAN, NEW f \in {"keep", "on", "off"},
             BeginOffering(r, g, b, f)
      PROVE  CourseworkInv'
  <2> DEFINE t == [NoTask EXCEPT !.pc = "offer", !.set = g, !.resets = b, !.flag = f]
  <2>1. g \subseteq Groups
    BY DEF CourseworkAssumption
  <2>2. t \in Task /\ t.pc = "offer"
    BY <2>1 DEF Task, NoTask
  <2>3. Turns(r, t)
    BY <1>2 DEF BeginOffering
  <2> HIDE DEF t
  <2> QED
    BY <1>1, <2>2, <2>3
<1>3. ASSUME NEW l \in Lecturers, NEW f \in {"on", "off"}, BeginAppoint(r, l, f)
      PROVE  CourseworkInv'
  <2> DEFINE t == [NoTask EXCEPT !.pc = "appoint", !.of = l, !.flag = f]
  <2>1. t \in Task /\ t.pc = "appoint" /\ t.of = l /\ t.flag = f
    BY DEF Task, NoTask
  <2>2. Turns(r, t)
    BY <1>3 DEF BeginAppoint
  <2> HIDE DEF t
  <2>3. Lawful(t)
    BY <2>1 DEF Lawful
  <2> QED
    BY <1>0, <2>1, <2>2, <2>3, OnlyTheTaskMoves
<1>4. ASSUME NEW s \in Learners, BeginEnroll(r, s)
      PROVE  CourseworkInv'
  <2> DEFINE t == [NoTask EXCEPT !.pc = "enroll", !.of = s]
  <2>1. t \in Task /\ t.pc = "enroll" /\ t.of = s
    BY DEF Task, NoTask
  <2>2. Turns(r, t) /\ s \in ever.eligible
    BY <1>4 DEF BeginEnroll, MayEnroll, CourseworkInv, RowsLawful
  <2> HIDE DEF t
  <2>3. Lawful(t)
    BY <2>1, <2>2 DEF Lawful
  <2> QED
    BY <1>0, <2>1, <2>2, <2>3, OnlyTheTaskMoves
<1>5. ASSUME NEW s \in Learners, NEW f \in {"on", "off"}, BeginUpdateEnrollment(r, s, f)
      PROVE  CourseworkInv'
  <2> DEFINE t == [NoTask EXCEPT !.pc = "setEnrollment", !.of = s, !.flag = f]
  <2>1. t \in Task /\ t.pc = "setEnrollment" /\ t.of = s /\ t.flag = f
    BY DEF Task, NoTask
  <2>2. Turns(r, t) /\ enrolled[s] # "none"
    BY <1>5 DEF BeginUpdateEnrollment
  <2> HIDE DEF t
  <2>3. Lawful(t)
    BY <2>1, <2>2 DEF Lawful
  <2> QED
    BY <1>0, <2>1, <2>2, <2>3, OnlyTheTaskMoves
<1>6. CASE UpdateOffering(r)
  <2>1. PICK l \in {"none", "offering"} :
          \/ Turns(r, [task[r] EXCEPT !.pc = "offerDelete", !.locks = l])
          \/ Turns(r, [task[r] EXCEPT !.pc = "offerCommit", !.locks = l])
    BY <1>6 DEF UpdateOffering
  <2>2. task[r] \in Task
    BY DEF CourseworkInv, CourseworkTypeOK
  <2>3. CASE Turns(r, [task[r] EXCEPT !.pc = "offerDelete", !.locks = l])
    <3> DEFINE t == [task[r] EXCEPT !.pc = "offerDelete", !.locks = l]
    <3>1. t \in Task /\ t.pc = "offerDelete"
      <4>1. l \in {"none", "offering", "work"}
        OBVIOUS
      <4>2. t \in Task
        BY <2>2, <4>1, LockIsTaken
      <4> QED
        BY <2>2, <4>2 DEF Task
    <3>2. Turns(r, t)
      BY <2>3
    <3> HIDE DEF t
    <3> QED
      BY <1>1, <3>1, <3>2
  <2>4. CASE Turns(r, [task[r] EXCEPT !.pc = "offerCommit", !.locks = l])
    <3> DEFINE t == [task[r] EXCEPT !.pc = "offerCommit", !.locks = l]
    <3>1. t \in Task /\ t.pc = "offerCommit"
      <4>1. l \in {"none", "offering", "work"}
        OBVIOUS
      <4>2. t \in Task
        BY <2>2, <4>1, LockIsTaken
      <4> QED
        BY <2>2, <4>2 DEF Task
    <3>2. Turns(r, t)
      BY <2>4
    <3> HIDE DEF t
    <3> QED
      BY <1>1, <3>1, <3>2
  <2> QED
    BY <2>1, <2>3, <2>4
<1>7. CASE TaskLost(r)
  BY <1>1, <1>7 DEF TaskLost, Ends
<1> QED
  BY <1>2, <1>3, <1>4, <1>5, <1>6, <1>7 DEF BeginOfferingStep

\* The same about the assignment.
LEMMA WorkAsked ==
  ASSUME CourseworkAssumption, CourseworkInv, NEW r \in Tasks,
         (Unengaged(r) /\ BeginWorkStep(r)) \/ CheckSet(r) \/ WriteRow(r) \/ CheckEnrollment(r)
  PROVE  CourseworkInv'
<1> USE IdleIsATask
<1>0. UNCHANGED <<offering, teaches, enrolled, work, item, grade, shown, ever>>
      /\ task[r] \in Task /\ Lawful(task[r])
  <2>1. UNCHANGED <<offering, teaches, enrolled, work, item, grade, shown, ever>>
    <3>1. CASE BeginWorkStep(r)
      <4>1. ASSUME NEW who, NEW s, NEW b, NEW x, NEW f,
                   \/ BeginCreateWork(r, who, s, x, f) \/ BeginUpdateWork(r, who, s, b, x, f)
                   \/ BeginGrade(r, who, s, x, f)
            PROVE  UNCHANGED <<offering, teaches, enrolled, work, item, grade, shown, ever>>
        BY <4>1 DEF BeginCreateWork, BeginUpdateWork, BeginGrade, people, marks
      <4> QED
        BY <3>1, <4>1 DEF BeginWorkStep
    <3>2. CASE CheckSet(r) \/ WriteRow(r) \/ CheckEnrollment(r)
      BY <3>2 DEF CheckSet, WriteRow, CheckEnrollment, people, marks
    <3> QED
      BY <3>1, <3>2
  <2>2. task[r] \in Task /\ Lawful(task[r])
    BY DEF CourseworkInv, CourseworkTypeOK, TasksLawful
  <2> QED
    BY <2>1, <2>2
<1>1. CASE Ends(r)
  <2>1. Lawful(NoTask)
    BY DEF Lawful
  <2> QED
    BY <1>0, <1>1, <2>1, OnlyTheTaskMoves DEF Ends
<1>2. ASSUME NEW who \in Lecturers \union {STAFF}, NEW g \in Sets, NEW x \in Scores \union {0},
             x # 0, NEW f \in {"keep", "on", "off"}, BeginCreateWork(r, who, g, x, f)
      PROVE  CourseworkInv'
  <2> DEFINE t == [NoTask EXCEPT !.pc = "set", !.by = who, !.set = g, !.score = x, !.flag = f]
  <2>1. g \subseteq Groups
    BY DEF CourseworkAssumption
  <2>2. t \in Task /\ t.pc = "set" /\ t.score = x
    BY <2>1 DEF Task, NoTask
  <2>3. Turns(r, t)
    BY <1>2 DEF BeginCreateWork
  <2> HIDE DEF t
  <2>4. Lawful(t)
    BY <1>2, <2>2 DEF Lawful
  <2> QED
    BY <1>0, <2>2, <2>3, <2>4, OnlyTheTaskMoves
<1>3. ASSUME NEW who \in Lecturers \union {STAFF}, NEW g \in Sets, NEW b \in BOOLEAN,
             NEW x \in Scores \union {0}, NEW f \in {"keep", "on", "off"},
             BeginUpdateWork(r, who, g, b, x, f)
      PROVE  CourseworkInv'
  <2>1. PICK pc \in {"replace", "delete", "row"} :
          /\ Turns(r, [NoTask EXCEPT !.pc = pc, !.by = who, !.set = g, !.resets = b,
                                     !.score = x, !.flag = f])
          /\ pc # "replace" => g = {}
    BY <1>3 DEF BeginUpdateWork
  <2> DEFINE t == [NoTask EXCEPT !.pc = pc, !.by = who, !.set = g, !.resets = b,
                                 !.score = x, !.flag = f]
  <2>2. g \subseteq Groups /\ work.exists
    BY <1>3 DEF CourseworkAssumption, BeginUpdateWork
  <2>3. t \in Task /\ t.pc = pc /\ t.set = g
    BY <2>2 DEF Task, NoTask
  <2>4. Turns(r, t)
    BY <2>1
  <2> HIDE DEF t
  <2>5. Lawful(t)
    BY <2>1, <2>2, <2>3 DEF Lawful
  <2> QED
    BY <1>0, <2>3, <2>4, <2>5, OnlyTheTaskMoves
<1>4. ASSUME NEW who \in Lecturers \union {STAFF}, NEW s \in Learners,
             NEW x \in Scores \union {0}, x # 0, NEW f \in {"keep", "on", "off"},
             BeginGrade(r, who, s, x, f)
      PROVE  CourseworkInv'
  <2> DEFINE t == [NoTask EXCEPT !.pc = "enrollment", !.by = who, !.of = s, !.score = x,
                                 !.flag = f]
  <2>1. t \in Task /\ t.pc = "enrollment" /\ t.of = s /\ t.score = x
    BY DEF Task, NoTask
  <2>2. Turns(r, t) /\ x <= work.max /\ work.exists
    BY <1>4 DEF BeginGrade
  <2>3. work.max \in Scores \union {0} /\ ever.max \in Scores \union {0}
        /\ work.max <= ever.max
    BY <2>2 DEF CourseworkInv, RowsLawful, CourseworkTypeOK
  <2>4. x <= ever.max
    BY <2>2, <2>3, ScoresAreNat
  <2> HIDE DEF t
  <2>5. Lawful(t)
    BY <2>1, <2>4 DEF Lawful
  <2> QED
    BY <1>0, <2>1, <2>2, <2>5, OnlyTheTaskMoves
<1>5. ASSUME CheckSet(r), ~Ends(r) PROVE CourseworkInv'
  <2>1. PICK pc \in {"insertWork", "delete"} :
          /\ TurnsTo(r, pc)
          /\ pc = "insertWork" => task[r].pc = "set"
          /\ pc = "delete" => task[r].pc = "replace"
    BY <1>5 DEF CheckSet
  <2> DEFINE t == [task[r] EXCEPT !.pc = pc]
  <2>2. t \in Task /\ t.pc = pc /\ t.set = task[r].set /\ t.score = task[r].score
    BY <1>0 DEF Task
  <2>3. Turns(r, t) /\ task[r].set \subseteq ever.offered
    <3>1. task[r].set \subseteq offering.cohorts
      BY <1>5 DEF CheckSet, BelongsToOffering
    <3> QED
      BY <2>1, <3>1 DEF TurnsTo, CourseworkInv, RowsLawful
  <2> HIDE DEF t
  <2>4. Lawful(t)
    BY <1>0, <2>1, <2>2, <2>3 DEF Lawful
  <2> QED
    BY <1>0, <2>2, <2>3, <2>4, OnlyTheTaskMoves
<1>6. CASE WriteRow(r)
  <2>1. PICK l \in {"none", "work"} : Turns(r, [task[r] EXCEPT !.pc = "commit", !.locks = l])
    BY <1>6 DEF WriteRow
  <2> DEFINE t == [task[r] EXCEPT !.pc = "commit", !.locks = l]
  <2>2. t \in Task
    <3>1. l \in {"none", "offering", "work"}
      OBVIOUS
    <3> QED
      BY <1>0, <3>1, LockIsTaken
  <2>5. t.pc = "commit" /\ t.set = task[r].set
    BY <1>0 DEF Task
  <2>3. Turns(r, t) /\ task[r].pc = "row"
    BY <1>6, <2>1 DEF WriteRow
  <2> HIDE DEF t
  <2>4. Lawful(t)
    BY <1>0, <2>3, <2>5 DEF Lawful
  <2> QED
    BY <1>0, <2>2, <2>3, <2>4, OnlyTheTaskMoves
<1>7. ASSUME CheckEnrollment(r), ~Ends(r) PROVE CourseworkInv'
  <2> DEFINE t == [task[r] EXCEPT !.pc = "upsert"]
  <2>1. t \in Task /\ t.pc = "upsert" /\ t.of = task[r].of /\ t.score = task[r].score
    BY <1>0 DEF Task
  <2>2. Turns(r, t) /\ task[r].pc = "enrollment" /\ enrolled[task[r].of] = "on"
    BY <1>7 DEF CheckEnrollment, TurnsTo
  <2>3. t.of \in ever.enrolled
    BY <1>0, <2>1, <2>2 DEF Lawful, CourseworkInv, RowsLawful
  <2> HIDE DEF t
  <2>4. Lawful(t)
    BY <1>0, <2>1, <2>2, <2>3 DEF Lawful
  <2> QED
    BY <1>0, <2>1, <2>2, <2>4, OnlyTheTaskMoves
<1> QED
  BY <1>1, <1>2, <1>3, <1>4, <1>5, <1>6, <1>7 DEF BeginWorkStep

\* What every write keeps, given that it takes nothing back and ends its task.
LEMMA WriteIsLawful ==
  ASSUME CourseworkAssumption, CourseworkInv, NothingTakenBack, NEW r \in Tasks,
         \/ Ends(r) \/ \E pcs : EndsDeletion(r, pcs)
         \/ \E t \in Task : Turns(r, t) /\ Lawful(t)',
         offering' \in [active : BOOLEAN, cohorts : SUBSET Groups],
         teaches' \in [Lecturers -> {"none", "on", "off"}],
         enrolled' \in [Learners -> {"none", "on", "off"}],
         work' \in {NoWork} \union
           [exists : {TRUE}, published : BOOLEAN, max : Scores, targets : SUBSET Groups],
         item' \in {NoItem} \union [published : BOOLEAN, max : Scores],
         grade' \in [Learners -> Scores \union {0}], shown' \subseteq Learners,
         ever' \in [offered : SUBSET Groups, max : Scores \union {0},
                    enrolled : SUBSET Learners, eligible : SUBSET Learners],
         RowsLawful'
  PROVE  CourseworkInv'
<1>1. ever'.max \in Nat
  BY ScoresAreNat
<1>2. CourseworkTypeOK
  BY DEF CourseworkInv
<1>3. Lawful(NoTask)'
  BY IdleIsATask DEF Lawful
<1>4. task' \in [Tasks -> Task] /\ TasksLawful'
  <2>1. CASE Ends(r)
    <3>1. /\ task' \in [Tasks -> Task] /\ task'[r] = NoTask
          /\ \A q \in Tasks \ {r} : task'[q] = task[q]
      BY <1>2, <2>1, TurnsAre, IdleIsATask DEF Ends
    <3> QED
      BY <1>1, <1>3, <3>1, IdleIsATask, TasksStayLawful
  <2>2. ASSUME NEW pcs, EndsDeletion(r, pcs) PROVE task' \in [Tasks -> Task] /\ TasksLawful'
    BY <1>1, <1>2, <1>3, <2>2, DeletionEnds, IdleIsATask, TasksStayLawful
  <2>3. ASSUME NEW t \in Task, Turns(r, t), Lawful(t)'
        PROVE  task' \in [Tasks -> Task] /\ TasksLawful'
    <3>1. /\ task' \in [Tasks -> Task] /\ task'[r] = t
          /\ \A q \in Tasks \ {r} : task'[q] = task[q]
      BY <1>2, <2>3, TurnsAre
    <3> QED
      BY <1>1, <2>3, <3>1, TasksStayLawful
  <2> QED
    BY <2>1, <2>2, <2>3
<1>5. CourseworkTypeOK'
  BY <1>4 DEF CourseworkTypeOK
<1> QED
  BY <1>4, <1>5 DEF CourseworkInv

LEMMA CourseworkTyped ==
  ASSUME CourseworkAssumption, CourseworkInv, NEW r \in Tasks
  PROVE  /\ offering \in [active : BOOLEAN, cohorts : SUBSET Groups]
         /\ teaches \in [Lecturers -> {"none", "on", "off"}]
         /\ enrolled \in [Learners -> {"none", "on", "off"}]
         /\ work \in {NoWork} \union
              [exists : {TRUE}, published : BOOLEAN, max : Scores, targets : SUBSET Groups]
         /\ item \in {NoItem} \union [published : BOOLEAN, max : Scores]
         /\ grade \in [Learners -> Scores \union {0}] /\ shown \subseteq Learners
         /\ ever \in [offered : SUBSET Groups, max : Scores \union {0},
                      enrolled : SUBSET Learners, eligible : SUBSET Learners]
         /\ ever.max \in Nat /\ ever.max <= ever.max
         /\ task[r] \in Task /\ Lawful(task[r]) /\ RowsLawful
<1>1. ever.max \in Scores \union {0}
  BY DEF CourseworkInv, CourseworkTypeOK
<1>2. ever.max \in Nat
  BY <1>1, ScoresAreNat
<1>3. task[r] \in Task /\ Lawful(task[r]) /\ RowsLawful
  BY DEF CourseworkInv, CourseworkTypeOK, TasksLawful
<1>4. CourseworkTypeOK
  BY DEF CourseworkInv
<1>5. ever.max <= ever.max
  BY <1>2
<1> HIDE DEF CourseworkInv
<1> QED
  BY <1>2, <1>3, <1>4, <1>5 DEF CourseworkTypeOK

LEMMA PeopleWritten ==
  ASSUME CourseworkAssumption, CourseworkInv, NEW r \in Tasks,
         Appoint(r) \/ Enroll(r) \/ UpdateEnrollment(r) \/ UpsertGrade(r)
  PROVE  CourseworkInv'
<1> USE CourseworkTyped
<1> DEFINE t == task[r]
<1>1. CASE Appoint(r)
  <2>1. /\ teaches' \in [Lecturers -> {"none", "on", "off"}]
        /\ UNCHANGED <<offering, enrolled, work, item, grade, shown, ever>> /\ Ends(r)
    <3>1. t.flag \in {"on", "off"}
      BY <1>1 DEF Appoint, Lawful, Task
    <3> QED
      BY <1>1, <3>1 DEF Appoint, marks
  <2>2. NothingTakenBack /\ RowsLawful'
    BY <2>1 DEF NothingTakenBack, RowsLawful, Eligible
  <2> QED
    BY <2>1, <2>2, WriteIsLawful
<1>2. CASE Enroll(r) \/ UpdateEnrollment(r)
  <2>1. UNCHANGED <<offering, teaches, work, item, grade, shown>> /\ Ends(r)
    BY <1>2 DEF Enroll, UpdateEnrollment, marks
  <2>2. PICK s \in Learners, f \in {"on", "off"} :
          \/ enrolled' = enrolled /\ ever' = ever
          \/ /\ enrolled' = [enrolled EXCEPT ![s] = f] /\ s \in ever.eligible
             /\ \/ ever' = ever /\ s \in ever.enrolled
                \/ ever' = [ever EXCEPT !.enrolled = ever.enrolled \union {s}]
    <3>1. CASE Enroll(r)
      BY <1>2, <3>1 DEF Enroll, Lawful
    <3>2. CASE UpdateEnrollment(r)
      <4>1. /\ t.of \in Learners /\ t.flag \in {"on", "off"} /\ enrolled[t.of] # "none"
            /\ enrolled' = [enrolled EXCEPT ![t.of] = t.flag] /\ ever' = ever
        BY <3>2 DEF UpdateEnrollment, Lawful, Task
      <4> QED
        BY <4>1 DEF RowsLawful
    <3> QED
      BY <1>2, <3>1, <3>2
  <2>3. /\ enrolled' \in [Learners -> {"none", "on", "off"}]
        /\ \A q \in Learners : \/ enrolled'[q] = enrolled[q]
                               \/ /\ enrolled'[q] # "none" /\ q \in ever'.enrolled
                                  /\ q \in ever.eligible
        /\ ever' \in [offered : SUBSET Groups, max : Scores \union {0},
                      enrolled : SUBSET Learners, eligible : SUBSET Learners]
        /\ ever'.offered = ever.offered /\ ever'.max = ever.max
        /\ ever'.eligible = ever.eligible /\ ever.enrolled \subseteq ever'.enrolled
    <3>1. enrolled' \in [Learners -> {"none", "on", "off"}]
      BY <2>2
    <3>2. CASE ever' = ever
      <4>1. ever \in [offered : SUBSET Groups, max : Scores \union {0},
                      enrolled : SUBSET Learners, eligible : SUBSET Learners]
        OBVIOUS
      <4>2. enrolled \in [Learners -> {"none", "on", "off"}] /\ RowsLawful
        OBVIOUS
      <4>3. \A q \in Learners : \/ enrolled'[q] = enrolled[q]
                                \/ /\ enrolled'[q] # "none" /\ q \in ever.enrolled
                                   /\ q \in ever.eligible
        BY <2>2, <3>2, <4>1, <4>2
      <4> QED
        BY <3>1, <3>2, <4>1, <4>3
    <3>3. CASE ever' = [ever EXCEPT !.enrolled = ever.enrolled \union {s}]
      BY <2>2, <3>1, <3>3
    <3> QED
      BY <2>2, <3>2, <3>3
  <2>4. NothingTakenBack
    BY <2>1, <2>3 DEF NothingTakenBack
  <2>5. RowsLawful'
    BY <2>1, <2>3 DEF RowsLawful, Eligible
  <2> QED
    BY <2>1, <2>3, <2>4, <2>5, WriteIsLawful
<1>3. CASE UpsertGrade(r)
  <2>1. /\ UNCHANGED <<offering, teaches, enrolled, work, item, ever>> /\ Ends(r)
        /\ t.of \in Learners /\ t.score <= ever.max /\ t.of \in ever.enrolled
        /\ grade' = [grade EXCEPT ![t.of] = t.score]
        /\ shown' \subseteq Learners
    <3>1. t.pc = "upsert" /\ Lawful(t)
      BY <1>3 DEF UpsertGrade
    <3>2. t.of \in Learners /\ t.score <= ever.max /\ t.of \in ever.enrolled
      BY <3>1 DEF Lawful
    <3> QED
      BY <1>3, <3>2 DEF UpsertGrade, people
  <2>2. /\ grade' \in [Learners -> Scores \union {0}]
        /\ \A q \in Learners : \/ grade'[q] = grade[q]
                               \/ q \in ever.enrolled /\ grade'[q] <= ever.max
    <3>1. t.score \in Scores \union {0}
      BY DEF Task
    <3> QED
      BY <2>1, <3>1
  <2>3. NothingTakenBack
    BY <2>1 DEF NothingTakenBack
  <2>4. RowsLawful'
    BY <2>1, <2>2 DEF RowsLawful, Eligible
  <2> QED
    BY <2>1, <2>2, <2>3, <2>4, WriteIsLawful
<1> QED
  BY <1>1, <1>2, <1>3

LEMMA OfferingWritten ==
  ASSUME CourseworkAssumption, CourseworkInv, NEW r \in Tasks,
         DeleteOffered(r) \/ CommitOffering(r)
  PROVE  CourseworkInv'
<1> DEFINE t == task[r]
<1>0. /\ offering \in [active : BOOLEAN, cohorts : SUBSET Groups]
      /\ ever \in [offered : SUBSET Groups, max : Scores \union {0},
                   enrolled : SUBSET Learners, eligible : SUBSET Learners]
      /\ ever.max \in Nat /\ ever.max <= ever.max
      /\ t \in Task /\ Lawful(t) /\ RowsLawful
  BY CourseworkTyped
<1>1. UNCHANGED <<teaches, enrolled, work, item, grade, shown>>
  BY DEF DeleteOffered, CommitOffering, people, marks
<1>2. CASE DeleteOffered(r)
  <2>1. /\ offering' \in [active : BOOLEAN, cohorts : SUBSET Groups]
        /\ offering'.active = offering.active /\ offering'.cohorts = offering.cohorts
        /\ ever' = ever
    BY <1>0, <1>2 DEF DeleteOffered, SeenByOthers
  <2>2. NothingTakenBack /\ RowsLawful'
    BY <1>0, <1>1, <2>1 DEF NothingTakenBack, RowsLawful, Eligible
  <2> DEFINE u == [t EXCEPT !.pc = "offerCommit", !.seen = offering.cohorts]
  <2>3. u \in Task /\ u.pc = "offerCommit"
    BY <1>0 DEF Task
  <2>4. Turns(r, u)
    BY <1>2 DEF DeleteOffered
  <2> HIDE DEF u
  <2>5. PICK v \in Task : Turns(r, v) /\ v.pc = "offerCommit"
    BY <2>3, <2>4
  <2>6. Lawful(v)'
    BY <2>5 DEF Lawful
  <2> QED
    BY <1>1, <2>1, <2>2, <2>5, <2>6, CourseworkTyped, WriteIsLawful
<1>3. CASE CommitOffering(r) /\ Ends(r) /\ UNCHANGED <<offering, ever>>
  <2>1. NothingTakenBack /\ RowsLawful'
    BY <1>0, <1>1, <1>3 DEF NothingTakenBack, RowsLawful, Eligible
  <2> QED
    BY <1>1, <1>3, <2>1, CourseworkTyped, WriteIsLawful
<1>4. ASSUME CommitOffering(r), ~(Ends(r) /\ UNCHANGED <<offering, ever>>)
      PROVE  CourseworkInv'
  <2> DEFINE new == [active |-> IF t.flag = "keep" THEN offering.active ELSE t.flag = "on",
                     cohorts |-> Replaced(offering.cohorts, t)]
  <2>1. /\ offering' = new /\ EndsDeletion(r, {"offerCommit"})
        /\ ever' = [ever EXCEPT !.offered = ever.offered \union new.cohorts,
                                !.eligible = ever.eligible \union Eligible(new)]
    BY <1>4 DEF CommitOffering
  <2>2. Replaced(offering.cohorts, t) \subseteq Groups
    BY <1>0 DEF Replaced, Task
  <2>3. new \in [active : BOOLEAN, cohorts : SUBSET Groups] /\ Eligible(new) \subseteq Learners
    BY <1>0, <2>2 DEF Eligible
  <2>4. new.cohorts \subseteq Groups
    BY <2>3
  <2> HIDE DEF new
  <2>5. /\ ever' \in [offered : SUBSET Groups, max : Scores \union {0},
                      enrolled : SUBSET Learners, eligible : SUBSET Learners]
        /\ ever'.offered = ever.offered \union offering'.cohorts
        /\ ever'.eligible = ever.eligible \union Eligible(offering)'
        /\ ever'.max = ever.max /\ ever'.enrolled = ever.enrolled
    <3>1. Eligible(offering)' = Eligible(new)
      BY <2>1 DEF Eligible
    <3> QED
      BY <1>0, <2>1, <2>3, <2>4, <3>1
  <2>6. NothingTakenBack
    BY <1>0, <1>1, <2>5 DEF NothingTakenBack
  <2>7. RowsLawful'
    BY <1>0, <1>1, <2>5 DEF RowsLawful
  <2> QED
    BY <1>1, <2>1, <2>3, <2>5, <2>6, <2>7, CourseworkTyped, WriteIsLawful
<1> QED
  BY <1>2, <1>3, <1>4

LEMMA WorkWritten ==
  ASSUME CourseworkAssumption, CourseworkInv, NEW r \in Tasks,
         InsertWork(r) \/ DeleteTargets(r) \/ CommitWork(r)
  PROVE  CourseworkInv'
<1> DEFINE t == task[r]
           Work == [exists : {TRUE}, published : BOOLEAN, max : Scores, targets : SUBSET Groups]
<1>0. /\ work \in {NoWork} \union Work
      /\ item \in {NoItem} \union [published : BOOLEAN, max : Scores]
      /\ ever \in [offered : SUBSET Groups, max : Scores \union {0},
                   enrolled : SUBSET Learners, eligible : SUBSET Learners]
      /\ ever.max \in Nat /\ ever.max <= ever.max
      /\ t \in Task /\ Lawful(t) /\ RowsLawful
  BY CourseworkTyped
<1>1. UNCHANGED <<offering, teaches, enrolled, grade, shown>>
  BY DEF InsertWork, DeleteTargets, CommitWork, people
<1>2. \A x \in Scores \union {0} : x \in Nat
  BY ScoresAreNat
<1>3. CASE Ends(r) /\ UNCHANGED <<work, item, ever>>
  <2>1. NothingTakenBack /\ RowsLawful'
    BY <1>0, <1>1, <1>3 DEF NothingTakenBack, RowsLawful, Eligible
  <2> QED
    BY <1>1, <1>3, <2>1, CourseworkTyped, WriteIsLawful
<1>4. ASSUME InsertWork(r), ~work.exists PROVE CourseworkInv'
  <2> DEFINE new == [exists |-> TRUE, published |-> t.flag = "on", max |-> t.score,
                     targets |-> t.set]
  <2>1. /\ work' = new /\ item' = [published |-> t.flag = "on", max |-> t.score]
        /\ ever' = [ever EXCEPT !.max = t.score] /\ Ends(r)
    BY <1>4 DEF InsertWork
  <2>2. t.score \in Scores /\ t.set \subseteq Groups /\ t.set \subseteq ever.offered
    BY <1>0, <1>4 DEF InsertWork, Lawful, Task
  <2>3. new \in Work /\ new.exists /\ new.targets = t.set /\ new.max = t.score
        /\ new.published = (t.flag = "on")
    BY <2>2
  <2>4. item' \in [published : BOOLEAN, max : Scores]
    BY <2>1, <2>2
  <2> HIDE DEF new
  <2>5. /\ ever' \in [offered : SUBSET Groups, max : Scores \union {0},
                      enrolled : SUBSET Learners, eligible : SUBSET Learners]
        /\ ever'.offered = ever.offered /\ ever'.eligible = ever.eligible
        /\ ever'.max = t.score /\ ever'.enrolled = ever.enrolled
    BY <1>0, <2>1, <2>2
  <2>6. ever.max = 0 /\ t.score \in Nat
    BY <1>0, <1>2, <1>4, <2>2 DEF RowsLawful
  <2>7. NothingTakenBack
    BY <1>0, <1>1, <1>4, <2>5, <2>6 DEF NothingTakenBack
  <2>8. \A s \in Learners : grade[s] # 0 => grade[s] <= t.score
    <3>1. \A s \in Learners : grade[s] \in Nat
      BY <1>2, CourseworkTyped
    <3> QED
      BY <1>0, <2>6, <3>1 DEF RowsLawful
  <2>9. RowsLawful'
    BY <1>0, <1>1, <2>1, <2>2, <2>3, <2>5, <2>6, <2>8 DEF RowsLawful, Eligible
  <2> QED
    BY <1>1, <2>1, <2>3, <2>4, <2>5, <2>7, <2>9, CourseworkTyped, WriteIsLawful
<1>5. CASE DeleteTargets(r)
  <2>1. work \in Work /\ UNCHANGED <<item, ever>>
    <3>1. work.exists /\ UNCHANGED <<item, ever>>
      BY <1>0, <1>5 DEF DeleteTargets, Lawful
    <3>2. ~NoWork.exists
      BY DEF NoWork
    <3> QED
      BY <1>0, <3>1, <3>2
  <2>2. /\ work' \in Work /\ work'.exists /\ work'.max = work.max
        /\ work'.published = work.published /\ work'.targets = work.targets
    BY <1>5, <2>1 DEF DeleteTargets, SeenByOthers
  <2>3. work.exists
    BY <2>1
  <2>4. NothingTakenBack /\ RowsLawful'
    BY <1>0, <1>1, <2>1, <2>2, <2>3 DEF NothingTakenBack, RowsLawful, Eligible
  <2> DEFINE u == [t EXCEPT !.pc = "row", !.seen = work.targets]
  <2>5. u \in Task /\ u.pc = "row" /\ u.set = t.set
    BY <1>0, <2>1 DEF Task
  <2>6. Turns(r, u)
    BY <1>5 DEF DeleteTargets
  <2> HIDE DEF u
  <2>7. PICK v \in Task : Turns(r, v) /\ v.pc = "row" /\ v.set = t.set
    BY <2>5, <2>6
  <2>8. t.set \subseteq ever.offered
    BY <1>0, <1>5 DEF DeleteTargets, Lawful
  <2>9. Lawful(v)'
    BY <2>1, <2>2, <2>7, <2>8 DEF Lawful
  <2> QED
    BY <1>1, <2>1, <2>2, <2>4, <2>7, <2>9, CourseworkTyped, WriteIsLawful
<1>6. ASSUME CommitWork(r), ~(Ends(r) /\ UNCHANGED <<work, item, ever>>)
      PROVE  CourseworkInv'
  <2> DEFINE max == MaxAfter(t, work.max)
             published == work.published \/ t.flag = "on"
             rows == Replaced(work.targets, t)
  <2>1. work \in Work /\ work.exists /\ t.set \subseteq ever.offered
    <3>1. t.pc = "commit"
      BY <1>6 DEF CommitWork
    <3>2. work.exists /\ t.set \subseteq ever.offered
      BY <1>0, <3>1 DEF Lawful
    <3>3. ~NoWork.exists
      BY DEF NoWork
    <3> QED
      BY <1>0, <3>2, <3>3
  <2>2. /\ EndsDeletion(r, {"row", "commit"})
        /\ work' = [work EXCEPT !.targets = rows, !.max = max, !.published = published]
        /\ item' = [published |-> item.published \/ t.flag = "on",
                    max |-> MaxAfter(t, item.max)]
        /\ ever' = [ever EXCEPT !.max = Greater(ever.max, max)]
    BY <1>6 DEF CommitWork
  <2>3. max \in Scores /\ max \in Nat
    <3>1. t.score \in Scores \union {0} /\ work.max \in Scores
      BY <1>0, <2>1 DEF Task
    <3> QED
      BY <1>2, <3>1 DEF MaxAfter
  <2>4. rows \subseteq Groups /\ rows \subseteq ever.offered
    BY <1>0, <2>1 DEF Replaced, Task, RowsLawful
  <2>5. published \in BOOLEAN
    OBVIOUS
  <2>6. item.published = work.published /\ item.max = work.max
    BY <1>0, <2>1 DEF RowsLawful
  <2>7. item' = [published |-> published, max |-> max]
    BY <2>2, <2>6
  <2> HIDE DEF max, published, rows
  <2>8. /\ work' \in Work /\ work'.exists /\ work'.max = max
        /\ work'.published = published /\ work'.targets = rows
    BY <2>1, <2>2, <2>3, <2>4, <2>5
  <2>9. item' \in [published : BOOLEAN, max : Scores]
    BY <2>3, <2>5, <2>7
  <2>10. /\ Greater(ever.max, max) \in Scores \union {0} /\ ever.max <= Greater(ever.max, max)
         /\ max <= Greater(ever.max, max) /\ Greater(ever.max, max) \in Nat
    BY <1>0, <2>3 DEF Greater
  <2>11. /\ ever' \in [offered : SUBSET Groups, max : Scores \union {0},
                       enrolled : SUBSET Learners, eligible : SUBSET Learners]
         /\ ever'.offered = ever.offered /\ ever'.eligible = ever.eligible
         /\ ever'.max = Greater(ever.max, max) /\ ever'.enrolled = ever.enrolled
    BY <1>0, <2>2, <2>10
  <2>12. NothingTakenBack
    BY <1>0, <1>1, <2>8, <2>10, <2>11 DEF NothingTakenBack
  <2>13. \A s \in Learners : grade[s] # 0 => grade[s] <= ever'.max
    <3>1. \A s \in Learners : grade[s] \in Nat
      BY <1>2, CourseworkTyped
    <3> QED
      BY <1>0, <2>10, <2>11, <3>1 DEF RowsLawful
  <2>14. RowsLawful'
    BY <1>0, <1>1, <2>3, <2>4, <2>7, <2>8, <2>10, <2>11, <2>13 DEF RowsLawful, Eligible
  <2> QED
    BY <1>1, <2>2, <2>8, <2>9, <2>11, <2>12, <2>14, CourseworkTyped, WriteIsLawful
<1> QED
  BY <1>3, <1>4, <1>5, <1>6 DEF InsertWork

LEMMA CourseworkStep ==
  ASSUME CourseworkAssumption, CourseworkInv, [CourseworkNext]_courseworkVars
  PROVE  CourseworkInv'
<1>1. CASE UNCHANGED courseworkVars
  BY <1>1 DEF courseworkVars, CourseworkInv, CourseworkTypeOK, TasksLawful, Lawful, RowsLawful,
              Eligible
<1>2. ASSUME NEW r \in Tasks, OfferingStep(r) \/ WorkStep(r) \/ TaskLost(r)
      PROVE  CourseworkInv'
  BY <1>2, OfferingAsked, WorkAsked, PeopleWritten, OfferingWritten, WorkWritten
     DEF OfferingStep, WorkStep
<1> QED
  BY <1>1, <1>2 DEF CourseworkNext

LEMMA CourseworkStart ==
  ASSUME CourseworkAssumption, CourseworkInit
  PROVE  CourseworkInv
<1> USE DEF CourseworkInit
<1>1. PICK g \in Sets : offering = [active |-> TRUE, cohorts |-> g] /\ g \subseteq Groups
  BY DEF CourseworkAssumption
<1>2. Eligible(offering) \subseteq Learners
  BY DEF Eligible
<1>3. /\ ever \in [offered : SUBSET Groups, max : Scores \union {0},
                   enrolled : SUBSET Learners, eligible : SUBSET Learners]
      /\ ever.offered = g /\ ever.eligible = Eligible(offering) /\ ever.max = 0
  BY <1>1, <1>2
<1>4. CourseworkTypeOK
  BY <1>1, <1>3, IdleIsATask DEF CourseworkTypeOK
<1>5. TasksLawful
  BY IdleIsATask DEF TasksLawful, Lawful
<1>6. RowsLawful
  BY <1>1, <1>3 DEF RowsLawful, NoWork
<1> QED
  BY <1>4, <1>5, <1>6 DEF CourseworkInv

\* Coursework: whatever order the requests are served in, every target,
\* enrollment and grade that stands was lawful when it was made, and the
\* gradebook shows the assignment as it is.
THEOREM StandingWasOnceLawful == CourseworkSpec => []OnceLawful
<1>1. CourseworkInit => CourseworkInv
  BY CourseworkStart, CourseworkAssumption
<1>2. CourseworkInv /\ [CourseworkNext]_courseworkVars => CourseworkInv'
  BY CourseworkStep, CourseworkAssumption
<1>3. CourseworkInv => OnceLawful
  BY DEF CourseworkInv, RowsLawful, OnceLawful
<1> QED
  BY <1>1, <1>2, <1>3, PTL DEF CourseworkSpec

\* Coursework: a set of cohorts is emptied, and so opened to everybody, only
\* by the commit of a request that asked for no cohort.
THEOREM OpenedToAllOnPurpose == CourseworkSpec => NeverForEverybodyByAccident
<1>1. CourseworkInit => CourseworkInv
  BY CourseworkStart, CourseworkAssumption
<1>2. CourseworkInv /\ [CourseworkNext]_courseworkVars => CourseworkInv'
  BY CourseworkStep, CourseworkAssumption
<1> DEFINE A == /\ work.exists /\ work.targets # {} /\ work'.targets = {} =>
                     \E r \in Tasks : task[r].pc = "commit" /\ task[r].resets /\ task[r].set = {}
                /\ offering.cohorts # {} /\ offering'.cohorts = {} =>
                     \E r \in Tasks : /\ task[r].pc = "offerCommit"
                                      /\ task[r].resets /\ task[r].set = {}
<1>3. CourseworkInv /\ CourseworkNext => A
  <2> SUFFICES ASSUME CourseworkInv, NEW r \in Tasks,
                      OfferingStep(r) \/ WorkStep(r) \/ TaskLost(r)
               PROVE  A
    BY DEF CourseworkNext
  <2>1. task[r] \in Task /\ RowsLawful
        /\ offering \in [active : BOOLEAN, cohorts : SUBSET Groups]
    BY CourseworkTyped, CourseworkAssumption
  <2>2. CASE UNCHANGED <<work, offering>>
    BY <2>2
  <2>3. CASE DeleteOffered(r)
    BY <2>1, <2>3 DEF DeleteOffered, SeenByOthers, marks
  <2>4. CASE CommitOffering(r) /\ offering' # offering
    <3>1. offering'.cohorts = Replaced(offering.cohorts, task[r]) /\ work' = work
      BY <2>4 DEF CommitOffering, marks
    <3> QED
      BY <2>1, <2>4, <3>1 DEF Replaced, CommitOffering
  <2>5. CASE InsertWork(r)
    BY <2>5 DEF InsertWork
  <2>6. work \in {NoWork} \union [exists : {TRUE}, published : BOOLEAN, max : Scores,
                                   targets : SUBSET Groups]
    BY CourseworkTyped, CourseworkAssumption
  <2>7. CASE DeleteTargets(r)
    <3>1. work'.targets = work.targets /\ offering' = offering
      BY <2>7, <2>6 DEF DeleteTargets, SeenByOthers, NoWork
    <3> QED
      BY <3>1
  <2>8. CASE CommitWork(r) /\ work' # work
    <3>1. work'.targets = Replaced(work.targets, task[r]) /\ offering' = offering
      BY <2>8, <2>6 DEF CommitWork, NoWork
    <3> QED
      BY <2>1, <2>8, <3>1 DEF Replaced, CommitWork
  <2> QED
    <3>1. CASE OfferingStep(r)
      BY <2>2, <2>3, <2>4, <3>1
         DEF OfferingStep, BeginOfferingStep, BeginOffering, BeginAppoint, BeginEnroll,
             BeginUpdateEnrollment, UpdateOffering, CommitOffering, Appoint, Enroll,
             UpdateEnrollment, marks
    <3>2. CASE WorkStep(r)
      <4>1. ASSUME NEW who, NEW s, NEW b, NEW x, NEW f,
                   \/ BeginCreateWork(r, who, s, x, f) \/ BeginUpdateWork(r, who, s, b, x, f)
                   \/ BeginGrade(r, who, s, x, f)
            PROVE  UNCHANGED <<work, offering>>
        BY <4>1 DEF BeginCreateWork, BeginUpdateWork, BeginGrade, marks
      <4>2. BeginWorkStep(r) => UNCHANGED <<work, offering>>
        BY <4>1 DEF BeginWorkStep
      <4> QED
        BY <2>2, <2>5, <2>7, <2>8, <3>2, <4>2
           DEF WorkStep, CheckSet, WriteRow, CommitWork, CheckEnrollment, UpsertGrade, marks
    <3>3. CASE TaskLost(r)
      BY <2>2, <3>3 DEF TaskLost, marks
    <3> QED
      BY <3>1, <3>2, <3>3
<1>4. CourseworkInv /\ [CourseworkNext]_courseworkVars => [A]_courseworkVars
  BY <1>3
<1> QED
  BY <1>1, <1>2, <1>4, PTL DEF CourseworkSpec, NeverForEverybodyByAccident

-----------------------------------------------------------------------------
(* Codes by email: what the rows and the requests in flight are.           *)

Issuing == {"latest", "count", "retire", "create"}

\* A request knows the address it was made for and the row it has read.
Sound(r) ==
  /\ r.pc \in Issuing \union {"spend", "account", "password", "register"}
       => r.email \in Addresses
  /\ r.pc \in {"latest", "count"} => r.at <= minute
  /\ r.pc \in {"send", "burn", "miss", "spend"} => r.code \in DOMAIN codes
  /\ r.pc = "spend" =>
       codes[r.code].email = r.email /\ codes[r.code].purpose = r.purpose
AskersKnow == \A a \in Askers : Sound(asking[a])

CodesInv == CodesTypeOK /\ AskersKnow

\* What a statement leaves of the rows: a row stays, with its address, purpose
\* and time; once retired it stays retired and unspent; it loses no spending.
RowsOnlyAge ==
  \A i \in DOMAIN codes :
    /\ i \in DOMAIN codes' /\ codes'[i].email = codes[i].email
    /\ codes'[i].purpose = codes[i].purpose
    /\ codes'[i].createdAt = codes[i].createdAt
    /\ codes[i].consumed => codes'[i].consumed /\ codes'[i].uses = codes[i].uses
    /\ codes'[i].uses >= codes[i].uses

LEMMA CodeIsRow ==
  ASSUME CodesTypeOK, NEW i \in DOMAIN codes
  PROVE  codes[i] \in Code /\ i \in Nat
BY DEF CodesTypeOK

LEMMA RowWritten ==
  ASSUME CodesTypeOK, NEW i \in DOMAIN codes, NEW c \in Code,
         codes' = [codes EXCEPT ![i] = c]
  PROVE  /\ codes' \in Seq(Code) /\ DOMAIN codes' = DOMAIN codes /\ Len(codes') = Len(codes)
         /\ \A j \in DOMAIN codes : codes'[j] = IF j = i THEN c ELSE codes[j]
BY DEF CodesTypeOK

LEMMA RetiredRow ==
  ASSUME CodesTypeOK, NEW seen, NEW i \in DOMAIN codes
  PROVE  LET c == [codes[i] EXCEPT !.consumed = codes[i].consumed \/ i \in seen]
         IN  /\ c \in Code /\ c.email = codes[i].email
             /\ c.purpose = codes[i].purpose /\ c.createdAt = codes[i].createdAt
             /\ c.uses = codes[i].uses /\ c.attempts = codes[i].attempts
             /\ codes[i].consumed => c.consumed
BY CodeIsRow DEF Code

LEMMA RowAdded ==
  ASSUME CodesTypeOK, NEW seen, NEW c \in Code, codes' = Append(WithRetired(seen), c)
  PROVE  /\ codes' \in Seq(Code) /\ Len(codes') = Len(codes) + 1
         /\ DOMAIN codes' = DOMAIN codes \union {Len(codes) + 1}
         /\ Len(codes) + 1 \notin DOMAIN codes
         /\ codes'[Len(codes) + 1] = c
         /\ \A i \in DOMAIN codes :
              codes'[i] = [codes[i] EXCEPT !.consumed = codes[i].consumed \/ i \in seen]
<1> DEFINE row(i) == [codes[i] EXCEPT !.consumed = codes[i].consumed \/ i \in seen]
           W == WithRetired(seen)
<1>1. DOMAIN codes = 1..Len(codes) /\ Len(codes) \in Nat
  BY DEF CodesTypeOK
<1>2. \A i \in DOMAIN codes : row(i) \in Code
  BY RetiredRow
<1>3. W = [i \in DOMAIN codes |-> row(i)]
  BY DEF WithRetired
<1> HIDE DEF row, W
<1>4. W \in [1..Len(codes) -> Code]
  BY <1>1, <1>2, <1>3
<1>5. W \in Seq(Code) /\ Len(W) = Len(codes)
  BY <1>1, <1>4
<1>6. codes' = Append(W, c)
  BY DEF W
<1>7. \A i \in DOMAIN codes : codes'[i] = row(i)
  BY <1>1, <1>3, <1>5, <1>6
<1> QED
  BY <1>1, <1>5, <1>6, <1>7 DEF row

\* A request that moves while the rows only age leaves every request sound.
LEMMA RequestMoves ==
  ASSUME CodesInv, RowsOnlyAge, codes' \in Seq(Code), minute' \in Nat, minute' >= minute,
         NEW a \in Askers, NEW r \in Asking, Becomes(a, r), Sound(r)'
  PROVE  /\ asking' \in [Askers -> Asking] /\ AskersKnow'
         /\ asking'[a] = r /\ \A b \in Askers \ {a} : asking'[b] = asking[b]
<1>1. asking \in [Askers -> Asking] /\ AskersKnow
  BY DEF CodesInv, CodesTypeOK
<1>2. /\ asking' \in [Askers -> Asking]
      /\ asking'[a] = r /\ \A b \in Askers \ {a} : asking'[b] = asking[b]
  BY <1>1 DEF Becomes
<1>3. ASSUME NEW b \in Askers PROVE Sound(asking[b])'
  <2>1. CASE b = a
    BY <1>2, <2>1 DEF Sound
  <2>2. CASE b # a
    <3>1. asking'[b] = asking[b] /\ Sound(asking[b]) /\ asking[b] \in Asking
      BY <1>1, <1>2, <2>2 DEF AskersKnow
    <3>2. \A i \in DOMAIN codes : i \in DOMAIN codes'
                 /\ codes'[i].email = codes[i].email /\ codes'[i].purpose = codes[i].purpose
      BY DEF RowsOnlyAge
    <3>3. (asking[b].pc \in {"latest", "count"} => asking[b].at <= minute')
      <4>1. asking[b].at \in Nat /\ minute \in Nat
        BY <3>1 DEF Asking, CodesInv, CodesTypeOK
      <4>2. asking[b].pc \in {"latest", "count"} => asking[b].at <= minute
        BY <3>1 DEF Sound
      <4> QED
        BY <4>1, <4>2
    <3> QED
      BY <3>1, <3>2, <3>3 DEF Sound
  <2> QED
    BY <2>1, <2>2
<1> QED
  BY <1>2, <1>3 DEF AskersKnow

LEMMA RowsStand ==
  ASSUME CodesTypeOK, codes' = codes
  PROVE  RowsOnlyAge /\ codes' \in Seq(Code)
<1>1. \A i \in DOMAIN codes : codes[i].uses >= codes[i].uses
  BY CodeIsRow DEF Code
<1> QED
  BY <1>1 DEF RowsOnlyAge, CodesTypeOK

LEMMA RequestIsTyped ==
  ASSUME CodesInv, NEW a \in Askers
  PROVE  asking[a] \in Asking /\ Sound(asking[a]) /\ NotAsking \in Asking
BY DEF CodesInv, CodesTypeOK, AskersKnow, Asking, NotAsking, Purposes

\* What a request starts with, before it writes anything.
LEMMA RequestStarts ==
  ASSUME CodesInv, NEW a \in Askers, NEW e \in Addresses, NEW p \in Purposes,
         \/ StartVerification(a, e) \/ RequestReset(a, e) \/ BeginRegister(a, e)
         \/ Verify(a, e, p)
  PROVE  CodesInv' /\ RowsOnlyAge
<1> USE DEF NotAsking
<1>0. UNCHANGED <<minute, codes, holder, tickets, joined, resets>> /\ minute \in Nat
  BY DEF StartVerification, RequestReset, BeginRegister, Verify, accounts, CodesInv, CodesTypeOK
<1>1. RowsOnlyAge /\ codes' \in Seq(Code) /\ minute' \in Nat /\ minute' >= minute
  BY <1>0, RowsStand DEF CodesInv
<1>2. PICK r \in Asking : Becomes(a, r) /\ Sound(r)
  <2>1. CASE StartVerification(a, e)
    <3> DEFINE r == [NotAsking EXCEPT !.pc = "latest", !.email = e, !.at = minute,
                               !.coded = holder[e] = "none"]
    <3>1. r \in Asking /\ r.pc = "latest" /\ r.email = e /\ r.at = minute
      BY <1>0 DEF Asking, Purposes
    <3>2. Becomes(a, r)
      BY <2>1 DEF StartVerification
    <3> HIDE DEF r
    <3> QED
      BY <1>0, <3>1, <3>2 DEF Sound
  <2>2. CASE RequestReset(a, e)
    <3> DEFINE r == [NotAsking EXCEPT !.pc = "latest", !.email = e, !.at = minute,
                               !.purpose = "PASSWORD_RESET",
                               !.coded = holder[e] = "student"]
    <3>1. r \in Asking /\ r.pc = "latest" /\ r.email = e /\ r.at = minute
      BY <1>0 DEF Asking, Purposes
    <3>2. Becomes(a, r)
      BY <2>2 DEF RequestReset
    <3> HIDE DEF r
    <3> QED
      BY <1>0, <3>1, <3>2 DEF Sound
  <2>3. CASE BeginRegister(a, e)
    <3> DEFINE r == [NotAsking EXCEPT !.pc = "register", !.email = e]
    <3>1. r \in Asking /\ r.pc = "register" /\ r.email = e
      BY DEF Asking, Purposes
    <3>2. Becomes(a, r)
      BY <2>3 DEF BeginRegister
    <3> HIDE DEF r
    <3> QED
      BY <3>1, <3>2 DEF Sound
  <2>4. CASE Verify(a, e, p)
    <3>1. PICK i \in LiveCodes(e, p), pc \in {"miss", "spend"} :
            Becomes(a, [NotAsking EXCEPT !.pc = pc, !.email = e, !.purpose = p, !.code = i])
      BY <2>4 DEF Verify
    <3> DEFINE r == [NotAsking EXCEPT !.pc = pc, !.email = e, !.purpose = p, !.code = i]
    <3>2. i \in DOMAIN codes /\ i \in Nat /\ codes[i].email = e /\ codes[i].purpose = p
      BY CodeIsRow DEF LiveCodes, CodesOf, CodesInv
    <3>3. r \in Asking /\ r.pc = pc /\ r.email = e /\ r.code = i /\ r.purpose = p
      BY <3>2 DEF Asking
    <3>4. Becomes(a, r)
      BY <3>1
    <3> HIDE DEF r
    <3> QED
      BY <3>2, <3>3, <3>4 DEF Sound
  <2> QED
    BY <2>1, <2>2, <2>3, <2>4
<1>3. Sound(r)'
  BY <1>0, <1>2 DEF Sound
<1>4. asking' \in [Askers -> Asking] /\ AskersKnow'
  BY <1>1, <1>2, <1>3, RequestMoves
<1>5. CodesTypeOK'
  BY <1>0, <1>1, <1>4 DEF CodesInv, CodesTypeOK, AskersKnow, Sound
<1> QED
  BY <1>1, <1>4, <1>5 DEF CodesInv

\* What reads on, or writes only to the account.
LEMMA RequestGoesOn ==
  ASSUME CodesInv, NEW a \in Askers,
         \/ FindLatest(a) \/ CountSince(a) \/ Retire(a) \/ FindAccount(a)
         \/ UpdatePassword(a) \/ CreateUser(a) \/ RequestDies(a)
  PROVE  CodesInv' /\ RowsOnlyAge
<1> DEFINE r == asking[a]
<1>0. UNCHANGED <<minute, codes>> /\ minute \in Nat /\ codes \in Seq(Code)
  BY DEF FindLatest, CountSince, Retire, FindAccount, UpdatePassword, CreateUser,
         RequestDies, accounts, CodesInv, CodesTypeOK
<1>1. RowsOnlyAge /\ codes' \in Seq(Code) /\ minute' \in Nat /\ minute' >= minute
  BY <1>0, RowsStand DEF CodesInv
<1>2. r \in Asking /\ Sound(r) /\ NotAsking \in Asking /\ Sound(NotAsking)
  BY RequestIsTyped DEF Sound, NotAsking, Issuing
<1>3. PICK q \in Asking : Becomes(a, q) /\ Sound(q)
  <2>1. CASE Answers(a)
    BY <1>2, <2>1 DEF Answers
  <2>2. ASSUME r.pc = "latest", GoTo(a, "count")
        PROVE  \E q \in Asking : Becomes(a, q) /\ Sound(q)
    <3> DEFINE q == [r EXCEPT !.pc = "count"]
    <3>1. q \in Asking /\ q.pc = "count" /\ q.email = r.email /\ q.at = r.at
      BY <1>2 DEF Asking
    <3>2. Becomes(a, q)
      BY <2>2 DEF GoTo
    <3> HIDE DEF q, r
    <3>3. Sound(q)
      BY <1>2, <2>2, <3>1 DEF Sound, Issuing
    <3> QED
      BY <3>1, <3>2, <3>3
  <2>3. ASSUME r.pc = "count", Becomes(a, [r EXCEPT !.pc = "retire", !.at = 0])
        PROVE  \E q \in Asking : Becomes(a, q) /\ Sound(q)
    <3> DEFINE q == [r EXCEPT !.pc = "retire", !.at = 0]
    <3>1. q \in Asking /\ q.pc = "retire" /\ q.email = r.email
      BY <1>2 DEF Asking
    <3>2. Becomes(a, q)
      BY <2>3
    <3> HIDE DEF q, r
    <3>3. Sound(q)
      BY <1>2, <2>3, <3>1 DEF Sound, Issuing
    <3> QED
      BY <3>1, <3>2, <3>3
  <2>4. ASSUME r.pc = "retire", Becomes(a, [r EXCEPT !.pc = "create",
                                                   !.seen = Unspent(r.email, r.purpose)])
        PROVE  \E q \in Asking : Becomes(a, q) /\ Sound(q)
    <3> DEFINE S == Unspent(r.email, r.purpose)
               q == [r EXCEPT !.pc = "create", !.seen = S]
    <3>1. S \in SUBSET Nat
      BY CodeIsRow DEF Unspent, CodesOf, CodesInv
    <3>2. Becomes(a, q)
      BY <2>4
    <3> HIDE DEF S
    <3>3. q \in Asking /\ q.pc = "create" /\ q.email = r.email
      BY <1>2, <3>1 DEF Asking
    <3> HIDE DEF q, r
    <3>4. Sound(q)
      BY <1>2, <2>4, <3>3 DEF Sound, Issuing
    <3> QED
      BY <3>2, <3>3, <3>4
  <2>5. ASSUME r.pc = "account", GoTo(a, "password")
        PROVE  \E q \in Asking : Becomes(a, q) /\ Sound(q)
    <3> DEFINE q == [r EXCEPT !.pc = "password"]
    <3>1. q \in Asking /\ q.pc = "password" /\ q.email = r.email
      BY <1>2 DEF Asking
    <3>2. Becomes(a, q)
      BY <2>5 DEF GoTo
    <3> HIDE DEF q, r
    <3>3. Sound(q)
      BY <1>2, <2>5, <3>1 DEF Sound, Issuing
    <3> QED
      BY <3>1, <3>2, <3>3
  <2> QED
    BY <2>1, <2>2, <2>3, <2>4, <2>5
       DEF FindLatest, CountSince, Retire, FindAccount, UpdatePassword, CreateUser, RequestDies
<1>4. Sound(q)'
  BY <1>0, <1>3 DEF Sound
<1>5. asking' \in [Askers -> Asking] /\ AskersKnow'
  BY <1>1, <1>3, <1>4, RequestMoves
<1>6. /\ holder' \in [Addresses -> Holders] /\ tickets' \subseteq Addresses
      /\ joined' \subseteq Addresses /\ resets' \in [Addresses -> Nat]
  <2>1. /\ holder \in [Addresses -> Holders] /\ tickets \subseteq Addresses
        /\ joined \subseteq Addresses /\ resets \in [Addresses -> Nat]
    BY DEF CodesInv, CodesTypeOK
  <2>2. CASE UpdatePassword(a)
    BY <1>2, <2>1, <2>2 DEF UpdatePassword, Sound
  <2>3. CASE CreateUser(a)
    BY <1>2, <2>1, <2>3 DEF CreateUser, Sound, Holders
  <2>4. CASE UNCHANGED <<holder, tickets, joined, resets>>
    BY <2>1, <2>4
  <2> QED
    BY <2>2, <2>3, <2>4 DEF FindLatest, CountSince, Retire, FindAccount, RequestDies, accounts
<1>7. CodesTypeOK'
  BY <1>1, <1>5, <1>6 DEF CodesTypeOK, AskersKnow, Sound
<1> QED
  BY <1>1, <1>5, <1>7 DEF CodesInv

\* What writes a row.
LEMMA CodeIsCreated ==
  ASSUME CodesInv, NEW a \in Askers, CreateCode(a)
  PROVE  CodesInv' /\ RowsOnlyAge
<1> DEFINE r == asking[a]
           n == Len(codes) + 1
           c == [email |-> r.email, purpose |-> r.purpose, createdAt |-> minute,
                 attempts |-> 0, consumed |-> FALSE, mailed |-> FALSE, uses |-> 0]
<1>1. r \in Asking /\ Sound(r) /\ r.pc = "create" /\ r.email \in Addresses /\ n \in Nat
  BY RequestIsTyped DEF CreateCode, Sound, Issuing, CodesInv, CodesTypeOK
<1>2. c \in Code
  BY <1>1 DEF Code, Asking, CodesInv, CodesTypeOK
<1>3. codes' = Append(WithRetired(r.seen), c)
      /\ Becomes(a, [NotAsking EXCEPT !.pc = "send", !.coded = r.coded, !.code = n])
      /\ UNCHANGED <<minute, holder, tickets, joined, resets>>
  BY DEF CreateCode, accounts
<1>4. PICK q \in Asking : Becomes(a, q) /\ q.pc = "send" /\ q.code = n
  <2> DEFINE q == [NotAsking EXCEPT !.pc = "send", !.coded = r.coded, !.code = n]
  <2>1. q \in Asking /\ q.pc = "send" /\ q.code = n
    BY <1>1 DEF Asking, NotAsking, Purposes
  <2> HIDE DEF r
  <2>2. Becomes(a, q)
    BY <1>3
  <2> QED
    BY <2>1, <2>2
<1> HIDE DEF c, r
<1>5. /\ codes' \in Seq(Code)
      /\ DOMAIN codes' = DOMAIN codes \union {n} /\ n \notin DOMAIN codes
      /\ \A i \in DOMAIN codes :
           codes'[i] = [codes[i] EXCEPT !.consumed = codes[i].consumed \/ i \in r.seen]
  BY <1>2, <1>3, RowAdded DEF CodesInv
<1>6. RowsOnlyAge
  <2> SUFFICES ASSUME NEW i \in DOMAIN codes
               PROVE  /\ i \in DOMAIN codes' /\ codes'[i].email = codes[i].email
                      /\ codes'[i].purpose = codes[i].purpose
                      /\ codes'[i].createdAt = codes[i].createdAt
                      /\ codes[i].consumed => codes'[i].consumed /\ codes'[i].uses = codes[i].uses
                      /\ codes'[i].uses >= codes[i].uses
    BY DEF RowsOnlyAge
  <2> QED
    BY <1>5, RetiredRow, CodeIsRow DEF CodesInv, Code
<1>7. Sound(q)'
  <2>1. q.code \in DOMAIN codes'
    BY <1>4, <1>5
  <2> QED
    BY <1>4, <2>1 DEF Sound, Issuing
<1>8. asking' \in [Askers -> Asking] /\ AskersKnow'
  BY <1>3, <1>4, <1>5, <1>6, <1>7, RequestMoves DEF CodesInv, CodesTypeOK
<1>9. CodesTypeOK'
  BY <1>3, <1>5, <1>8 DEF CodesInv, CodesTypeOK, AskersKnow, Sound
<1> QED
  BY <1>6, <1>8, <1>9 DEF CodesInv

\* What one row may become in place.
Ages(c, d) ==
  /\ d \in Code /\ d.email = c.email /\ d.purpose = c.purpose /\ d.createdAt = c.createdAt
  /\ c.consumed => d.consumed /\ d.uses = c.uses
  /\ d.uses >= c.uses

LEMMA RowAges ==
  ASSUME CodesTypeOK, NEW i \in DOMAIN codes, NEW d, Ages(codes[i], d),
         codes' = [codes EXCEPT ![i] = d]
  PROVE  /\ RowsOnlyAge /\ codes' \in Seq(Code) /\ DOMAIN codes' = DOMAIN codes
         /\ codes'[i] = d /\ \A j \in DOMAIN codes : j # i => codes'[j] = codes[j]
<1>1. /\ codes' \in Seq(Code) /\ DOMAIN codes' = DOMAIN codes
      /\ \A j \in DOMAIN codes : codes'[j] = IF j = i THEN d ELSE codes[j]
  BY RowWritten DEF Ages
<1>2. \A j \in DOMAIN codes : codes[j] \in Code /\ codes[j].uses >= codes[j].uses
  BY CodeIsRow DEF Code
<1> QED
  BY <1>1, <1>2 DEF RowsOnlyAge, Ages

\* The four writes in place, each as what becomes of its row and its request.
LEMMA MailIsSent ==
  ASSUME CodesInv, NEW a \in Askers, SendMail(a)
  PROVE  \/ /\ UNCHANGED codes
            /\ \E q \in Asking : /\ Becomes(a, q) /\ q.pc \in {"idle", "burn"}
                                 /\ q.pc = "burn" => q.code = asking[a].code
         \/ /\ Becomes(a, NotAsking)
            /\ \E d : /\ Ages(codes[asking[a].code], d)
                      /\ d.attempts = codes[asking[a].code].attempts
                      /\ d.uses = codes[asking[a].code].uses
                      /\ codes' = [codes EXCEPT ![asking[a].code] = d]
<1> DEFINE r == asking[a]
           i == r.code
<1>1. r \in Asking /\ Sound(r) /\ r.pc = "send" /\ i \in DOMAIN codes /\ i \in Nat
      /\ codes[i] \in Code /\ NotAsking \in Asking
  BY RequestIsTyped, CodeIsRow DEF SendMail, Sound, Issuing, CodesInv
<1>2. CASE UNCHANGED codes /\ Answers(a)
  BY <1>1, <1>2 DEF Answers, NotAsking
<1>3. CASE UNCHANGED codes /\ GoBurn(a, i)
  <2> DEFINE q == [NotAsking EXCEPT !.pc = "burn", !.code = i]
  <2>1. q \in Asking /\ q.pc = "burn" /\ q.code = i
    BY <1>1 DEF Asking, NotAsking, Purposes
  <2>2. Becomes(a, q)
    BY <1>3 DEF GoBurn
  <2> HIDE DEF q
  <2> QED
    BY <1>3, <2>1, <2>2
<1>4. CASE Mailed(i) /\ Answers(a)
  <2> DEFINE d == [codes[i] EXCEPT !.mailed = TRUE]
  <2>1. Ages(codes[i], d) /\ d.attempts = codes[i].attempts /\ d.uses = codes[i].uses
    <3>1. d \in Code /\ codes[i].uses \in Nat
      BY <1>1 DEF Code
    <3>2. d.consumed = codes[i].consumed /\ d.uses = codes[i].uses
      BY <1>1 DEF Code
    <3>3. /\ d.email = codes[i].email /\ d.purpose = codes[i].purpose
          /\ d.createdAt = codes[i].createdAt /\ d.attempts = codes[i].attempts
      BY <1>1 DEF Code
    <3> HIDE DEF d
    <3> QED
      BY <3>1, <3>2, <3>3 DEF Ages
  <2>2. codes' = [codes EXCEPT ![i] = d]
    BY <1>4 DEF Mailed
  <2> HIDE DEF d, i
  <2> QED
    BY <1>4, <2>1, <2>2 DEF Answers, i
<1> QED
  BY <1>2, <1>3, <1>4 DEF SendMail

LEMMA CodeIsBurned ==
  ASSUME CodesInv, NEW a \in Askers, BurnCode(a)
  PROVE  /\ Becomes(a, NotAsking)
         /\ \E d : /\ Ages(codes[asking[a].code], d)
                   /\ d.attempts = codes[asking[a].code].attempts
                   /\ d.uses = codes[asking[a].code].uses
                   /\ codes' = [codes EXCEPT ![asking[a].code] = d]
<1> DEFINE i == asking[a].code
           d == [codes[i] EXCEPT !.consumed = TRUE]
<1>1. i \in DOMAIN codes /\ codes[i] \in Code
  BY RequestIsTyped, CodeIsRow DEF BurnCode, Sound, Issuing, CodesInv
<1>2. Ages(codes[i], d) /\ d.attempts = codes[i].attempts /\ d.uses = codes[i].uses
  <2>1. d \in Code /\ codes[i].uses \in Nat
    BY <1>1 DEF Code
  <2>2. d.consumed /\ d.uses = codes[i].uses
    BY <1>1 DEF Code
  <2>3. /\ d.email = codes[i].email /\ d.purpose = codes[i].purpose
        /\ d.createdAt = codes[i].createdAt /\ d.attempts = codes[i].attempts
    BY <1>1 DEF Code
  <2> HIDE DEF d
  <2> QED
    BY <2>1, <2>2, <2>3 DEF Ages
<1>3. codes' = [codes EXCEPT ![i] = d]
  BY DEF BurnCode
<1> HIDE DEF d, i
<1> QED
  BY <1>2, <1>3 DEF BurnCode, Answers, i

LEMMA MissIsRecorded ==
  ASSUME CodesInv, NEW a \in Askers, RecordMiss(a)
  PROVE  /\ \E q \in Asking : /\ Becomes(a, q) /\ q.pc \in {"idle", "burn"}
                              /\ q.pc = "burn" => q.code = asking[a].code
         /\ \E d : /\ Ages(codes[asking[a].code], d)
                   /\ d.attempts = codes[asking[a].code].attempts + 1
                   /\ d.uses = codes[asking[a].code].uses
                   /\ codes' = [codes EXCEPT ![asking[a].code] = d]
<1> DEFINE i == asking[a].code
           d == [codes[i] EXCEPT !.attempts = codes[i].attempts + 1]
           q == [NotAsking EXCEPT !.pc = "burn", !.code = i]
<1>1. i \in DOMAIN codes /\ i \in Nat /\ codes[i] \in Code /\ NotAsking \in Asking
  BY RequestIsTyped, CodeIsRow DEF RecordMiss, Sound, Issuing, CodesInv
<1>2. Ages(codes[i], d) /\ d.attempts = codes[i].attempts + 1 /\ d.uses = codes[i].uses
  BY <1>1 DEF Ages, Code
<1>3. codes' = [codes EXCEPT ![i] = d]
  BY DEF RecordMiss
<1>4. Becomes(a, NotAsking) \/ Becomes(a, q)
  BY DEF RecordMiss, Answers, GoBurn
<1>5. q \in Asking /\ q.pc = "burn" /\ q.code = i /\ NotAsking.pc = "idle"
  BY <1>1 DEF Asking, NotAsking, Purposes
<1> HIDE DEF d, i, q
<1> QED
  BY <1>1, <1>2, <1>3, <1>4, <1>5 DEF i

LEMMA CodeIsSpent ==
  ASSUME CodesInv, NEW a \in Askers, Spend(a),
         codes' # codes \/ tickets' # tickets \/ Consumable(asking[a].code)
  PROVE  LET r == asking[a] IN
         /\ r.code \in DOMAIN codes /\ r.email \in Addresses
         /\ codes[r.code].email = r.email /\ codes[r.code].purpose = r.purpose
         /\ ~codes[r.code].consumed
         /\ \E d : /\ Ages(codes[r.code], d) /\ d.attempts = codes[r.code].attempts
                   /\ d.uses = codes[r.code].uses + 1 /\ d.consumed
                   /\ codes' = [codes EXCEPT ![r.code] = d]
         /\ IF r.purpose = "PASSWORD_RESET"
            THEN /\ UNCHANGED tickets
                 /\ \E q \in Asking : /\ Becomes(a, q) /\ q.pc = "account"
                                      /\ q.email = r.email
            ELSE tickets' = tickets \union {r.email} /\ Becomes(a, NotAsking)
<1> DEFINE r == asking[a]
           i == r.code
           d == [codes[i] EXCEPT !.consumed = TRUE, !.uses = codes[i].uses + 1]
           q == [r EXCEPT !.pc = "account"]
<1>1. /\ i \in DOMAIN codes /\ codes[i] \in Code /\ r \in Asking /\ r.email \in Addresses
      /\ codes[i].email = r.email /\ codes[i].purpose = r.purpose
  BY RequestIsTyped, CodeIsRow DEF Spend, Sound, Issuing, CodesInv
<1>2. Consumable(i)
  BY DEF Spend
<1>3. ~codes[i].consumed
  BY <1>2 DEF Consumable
<1>4. /\ Ages(codes[i], d) /\ d.attempts = codes[i].attempts
      /\ d.uses = codes[i].uses + 1 /\ d.consumed
  <2>1. codes[i].uses \in Nat /\ codes[i].uses + 1 \in Nat
    BY <1>1 DEF Code
  <2>2. d.uses = codes[i].uses + 1 /\ d.consumed /\ d \in Code
    BY <1>1, <2>1 DEF Code
  <2>3. /\ d.email = codes[i].email /\ d.purpose = codes[i].purpose
        /\ d.createdAt = codes[i].createdAt /\ d.attempts = codes[i].attempts
    BY <1>1 DEF Code
  <2> HIDE DEF d
  <2> QED
    BY <1>3, <2>1, <2>2, <2>3 DEF Ages
<1>5. codes' = [codes EXCEPT ![i] = d]
  BY <1>1, <1>2 DEF Spend, CodesInv, CodesTypeOK
<1>6. q \in Asking /\ q.pc = "account" /\ q.email = r.email
  BY <1>1 DEF Asking
<1>7. IF r.purpose = "PASSWORD_RESET"
      THEN UNCHANGED tickets /\ Becomes(a, q)
      ELSE tickets' = tickets \union {r.email} /\ Becomes(a, NotAsking)
  BY <1>2 DEF Spend, GoTo, Answers
<1> HIDE DEF d, q
<1>8. \E c : /\ Ages(codes[i], c) /\ c.attempts = codes[i].attempts
             /\ c.uses = codes[i].uses + 1 /\ c.consumed /\ codes' = [codes EXCEPT ![i] = c]
  BY <1>4, <1>5
<1> QED
  BY <1>1, <1>3, <1>6, <1>7, <1>8

\* A request that is over, or on its way to burn its row or to the account,
\* knows what it needs to.
LEMMA RestIsSound ==
  ASSUME CodesInv, RowsOnlyAge, codes' \in Seq(Code), UNCHANGED minute,
         NEW a \in Askers, NEW q \in Asking, Becomes(a, q),
         q.pc \in {"idle", "burn", "account"},
         q.pc = "burn" => q.code \in DOMAIN codes,
         q.pc = "account" => q.email \in Addresses,
         holder' \in [Addresses -> Holders], tickets' \subseteq Addresses,
         joined' \subseteq Addresses, resets' \in [Addresses -> Nat]
  PROVE  CodesInv'
<1>1. minute' \in Nat /\ minute' >= minute
  BY DEF CodesInv, CodesTypeOK
<1>2. Sound(q)'
  BY DEF Sound, Issuing, RowsOnlyAge
<1>3. asking' \in [Askers -> Asking] /\ AskersKnow'
  BY <1>1, <1>2, RequestMoves
<1> QED
  BY <1>1, <1>3 DEF CodesInv, CodesTypeOK, AskersKnow, Sound

LEMMA RequestWrites ==
  ASSUME CodesInv, NEW a \in Askers,
         SendMail(a) \/ BurnCode(a) \/ RecordMiss(a) \/ Spend(a)
  PROVE  CodesInv' /\ RowsOnlyAge
<1> DEFINE r == asking[a]
           i == r.code
<1>0. /\ UNCHANGED <<minute, holder, joined, resets>>
      /\ tickets' = tickets \/ Spend(a)
      /\ holder \in [Addresses -> Holders] /\ tickets \subseteq Addresses
      /\ joined \subseteq Addresses /\ resets \in [Addresses -> Nat]
  BY DEF SendMail, BurnCode, RecordMiss, Spend, accounts, CodesInv, CodesTypeOK
<1>1. /\ i \in DOMAIN codes /\ CodesTypeOK /\ NotAsking \in Asking /\ NotAsking.pc = "idle"
  BY RequestIsTyped DEF SendMail, BurnCode, RecordMiss, Spend, Sound, Issuing, CodesInv,
     NotAsking
<1>2. CASE SendMail(a)
  <2>1. CASE \E q \in Asking : /\ UNCHANGED codes
                               /\ Becomes(a, q) /\ q.pc \in {"idle", "burn"}
                               /\ q.pc = "burn" => q.code = i
    <3>1. RowsOnlyAge /\ codes' \in Seq(Code)
      BY <1>1, <2>1, RowsStand
    <3> QED
      BY <1>0, <1>1, <1>2, <2>1, <3>1, RestIsSound DEF SendMail, accounts
  <2>2. CASE Becomes(a, NotAsking) /\ \E d : Ages(codes[i], d) /\ codes' = [codes EXCEPT ![i] = d]
    <3>1. RowsOnlyAge /\ codes' \in Seq(Code)
      BY <1>1, <2>2, RowAges
    <3> QED
      BY <1>0, <1>1, <1>2, <2>2, <3>1, RestIsSound DEF SendMail, accounts
  <2> QED
    BY <1>2, <2>1, <2>2, MailIsSent
<1>3. CASE BurnCode(a)
  <2>1. Becomes(a, NotAsking) /\ \E d : Ages(codes[i], d) /\ codes' = [codes EXCEPT ![i] = d]
    BY <1>3, CodeIsBurned
  <2>2. RowsOnlyAge /\ codes' \in Seq(Code)
    BY <1>1, <2>1, RowAges
  <2> QED
    BY <1>0, <1>1, <1>3, <2>1, <2>2, RestIsSound DEF BurnCode, accounts
<1>4. CASE RecordMiss(a)
  <2>1. /\ \E q \in Asking : /\ Becomes(a, q) /\ q.pc \in {"idle", "burn"}
                             /\ q.pc = "burn" => q.code = i
        /\ \E d : Ages(codes[i], d) /\ codes' = [codes EXCEPT ![i] = d]
    BY <1>4, MissIsRecorded
  <2>2. RowsOnlyAge /\ codes' \in Seq(Code)
    BY <1>1, <2>1, RowAges
  <2> QED
    BY <1>0, <1>1, <1>4, <2>1, <2>2, RestIsSound DEF RecordMiss, accounts
<1>5. CASE Spend(a)
  <2>1. CASE codes' # codes \/ tickets' # tickets
    <3>1. \E d : Ages(codes[i], d) /\ codes' = [codes EXCEPT ![i] = d]
      BY <1>5, <2>1, CodeIsSpent
    <3>2. RowsOnlyAge /\ codes' \in Seq(Code)
      BY <1>1, <3>1, RowAges
    <3>3. PICK q \in Asking : /\ Becomes(a, q) /\ q.pc \in {"idle", "account"}
                              /\ q.email = r.email \/ q = NotAsking
      BY <1>1, <1>5, <2>1, CodeIsSpent
    <3>4. tickets' \subseteq Addresses /\ r.email \in Addresses
      BY <1>0, <1>5, <2>1, CodeIsSpent
    <3>5. q.pc = "account" => q.email \in Addresses
      BY <1>1, <3>3, <3>4
    <3> QED
      BY <1>0, <3>2, <3>3, <3>4, <3>5, RestIsSound
  <2>2. CASE codes' = codes /\ tickets' = tickets
    <3>1. RowsOnlyAge /\ codes' \in Seq(Code)
      BY <1>1, <2>2, RowsStand
    <3>2. r \in Asking /\ r.email \in Addresses /\ r.pc = "spend"
      BY <1>5, RequestIsTyped DEF Spend, Sound
    <3>3. Becomes(a, NotAsking) \/ Becomes(a, [r EXCEPT !.pc = "account"])
      BY <1>5 DEF Spend, Answers, GoTo
    <3>4. CASE Becomes(a, NotAsking)
      BY <1>0, <1>1, <2>2, <3>1, <3>4, RestIsSound
    <3>5. CASE Becomes(a, [r EXCEPT !.pc = "account"])
      <4> DEFINE q == [r EXCEPT !.pc = "account"]
      <4>1. q \in Asking /\ q.pc = "account" /\ q.email = r.email
        BY <3>2 DEF Asking
      <4>2. Becomes(a, q)
        BY <3>5
      <4> HIDE DEF q
      <4> QED
        BY <1>0, <2>2, <3>1, <3>2, <4>1, <4>2, RestIsSound
    <3> QED
      BY <3>3, <3>4, <3>5
  <2> QED
    BY <2>1, <2>2
<1> QED
  BY <1>2, <1>3, <1>4, <1>5

LEMMA CodesStep ==
  ASSUME CodesInv, [CodesNext]_codeVars
  PROVE  CodesInv' /\ RowsOnlyAge
<1> USE RowsStand DEF CodesInv
<1>1. CASE MinutePasses
  <2>1. codes' = codes /\ asking' = asking /\ minute' = minute + 1 /\ minute \in Nat
        /\ UNCHANGED <<holder, tickets, joined, resets>>
    BY <1>1 DEF MinutePasses, accounts, CodesTypeOK
  <2>2. AskersKnow'
    <3> SUFFICES ASSUME NEW a \in Askers PROVE Sound(asking[a])'
      BY DEF AskersKnow
    <3>1. Sound(asking[a]) /\ asking[a].at \in Nat
      BY RequestIsTyped DEF Asking
    <3> QED
      BY <2>1, <3>1 DEF Sound
  <2>3. CodesTypeOK'
    BY <2>1 DEF CodesTypeOK
  <2> QED
    BY <2>1, <2>2, <2>3
<1>2. ASSUME NEW e \in Addresses, ToggleAccount(e) PROVE CodesInv' /\ RowsOnlyAge
  <2>1. UNCHANGED <<minute, codes, asking, tickets, joined, resets>>
        /\ holder' \in [Addresses -> Holders]
    BY <1>2 DEF ToggleAccount, CodesTypeOK, Holders
  <2>2. AskersKnow'
    BY <2>1 DEF AskersKnow, Sound
  <2> QED
    BY <2>1, <2>2 DEF CodesTypeOK
<1>3. CASE UNCHANGED codeVars
  BY <1>3 DEF codeVars, CodesTypeOK, AskersKnow, Sound
<1>4. ASSUME NEW a \in Askers, AskerStep(a) PROVE CodesInv' /\ RowsOnlyAge
  <2>1. ASSUME NEW e \in Addresses,
               StartVerification(a, e) \/ RequestReset(a, e) \/ BeginRegister(a, e)
        PROVE  CodesInv' /\ RowsOnlyAge
    <3>1. "EMAIL_VERIFICATION" \in Purposes
      BY DEF Purposes
    <3> QED
      BY <2>1, <3>1, RequestStarts
  <2> QED
    BY <1>4, <2>1, RequestStarts, RequestGoesOn, CodeIsCreated, RequestWrites DEF AskerStep
<1> QED
  BY <1>1, <1>2, <1>3, <1>4 DEF CodesNext

LEMMA CodesStart ==
  ASSUME CodesInit, CodesAssumption
  PROVE  CodesInv
<1>1. NotAsking \in Asking
  BY DEF NotAsking, Asking, Purposes
<1>2. \A a \in Askers : asking[a] = NotAsking /\ NotAsking.pc = "idle"
  BY DEF CodesInit, NotAsking
<1>3. AskersKnow
  BY <1>2 DEF AskersKnow, Sound, Issuing
<1>4. codes \in Seq(Code) /\ asking \in [Askers -> Asking] /\ holder \in [Addresses -> Holders]
  BY <1>1 DEF CodesInit, Holders
<1>5. minute \in Nat /\ tickets \subseteq Addresses /\ joined \subseteq Addresses
      /\ resets \in [Addresses -> Nat]
  BY DEF CodesInit
<1> QED
  BY <1>2, <1>3, <1>4, <1>5 DEF CodesInv, CodesTypeOK

\* Codes: the rows and the requests are always what the code takes them for,
\* and no row retired by any path (spent, burned at the ceiling, superseded,
\* burned with its mail) is spent afterwards by a request that had read it live.
THEOREM RetiredCodesStayRetired == CodesSpec => RetiredStaysRetired
<1>1. CodesInit => CodesInv
  BY CodesStart, CodesAssumption
<1>2. CodesInv /\ [CodesNext]_codeVars => CodesInv'
  BY CodesStep
<1>3. CodesInv /\ [CodesNext]_codeVars =>
        [\A i \in DOMAIN codes :
           codes[i].consumed => /\ codes'[i].consumed
                                /\ codes'[i].uses = codes[i].uses]_codeVars
  BY CodesStep DEF RowsOnlyAge
<1> QED
  BY <1>1, <1>2, <1>3, PTL DEF CodesSpec, RetiredStaysRetired

\* Where a request comes from when it is found at a statement: the checks it
\* has passed and the row or address it carries over.
CameFrom(r, q) ==
  /\ q.pc = "miss" => codes[q.code].attempts < MaxAttempts /\ UNCHANGED codes
  /\ q.pc = "count" => /\ r.pc = "latest" /\ q.email = r.email /\ q.purpose = r.purpose
                       /\ CooledDown(r.email, r.purpose, r.at) /\ UNCHANGED codes
  /\ q.pc = "retire" => /\ r.pc = "count" /\ q.email = r.email /\ q.purpose = r.purpose
                        /\ Cardinality(IssuedSince(r.email, r.at - Hour)) < PerHour
                        /\ UNCHANGED codes
  /\ q.pc = "create" => /\ r.pc = "retire" /\ q.email = r.email /\ q.purpose = r.purpose
                        /\ UNCHANGED codes
  /\ q.pc = "account" => r.pc = "spend" /\ q.email = r.email /\ q.purpose = r.purpose
  /\ q.pc = "password" => r.pc = "account" /\ q.email = r.email
  /\ q.pc = "register" => Proven(q.email)

LEMMA NextRequest ==
  ASSUME CodesInv, NEW a \in Askers, AskerStep(a)
  PROVE  \E q \in Asking : Becomes(a, q) /\ CameFrom(asking[a], q)
<1> DEFINE r == asking[a]
<1>1. /\ r \in Asking /\ Sound(r) /\ NotAsking \in Asking /\ NotAsking.pc = "idle"
      /\ minute \in Nat
  BY RequestIsTyped DEF NotAsking, CodesInv, CodesTypeOK
<1>2. ASSUME NEW q \in Asking, Becomes(a, q), q.pc \in {"idle", "latest", "send", "burn"}
      PROVE  \E s \in Asking : Becomes(a, s) /\ CameFrom(r, s)
  BY <1>2 DEF CameFrom
<1>16. Len(codes) + 1 \in Nat
  BY DEF CodesInv, CodesTypeOK
<1>3. CASE Answers(a)
  BY <1>1, <1>2, <1>3 DEF Answers
<1>4. ASSUME NEW e \in Addresses, StartVerification(a, e)
      PROVE  \E s \in Asking : Becomes(a, s) /\ CameFrom(r, s)
  <2> DEFINE q == [NotAsking EXCEPT !.pc = "latest", !.email = e, !.at = minute,
                                    !.coded = holder[e] = "none"]
  <2>1. q \in Asking /\ q.pc = "latest"
    BY <1>1 DEF Asking, NotAsking, Purposes
  <2>2. Becomes(a, q)
    BY <1>4 DEF StartVerification
  <2> HIDE DEF q
  <2> QED
    BY <1>2, <2>1, <2>2
<1>5. ASSUME NEW e \in Addresses, RequestReset(a, e)
      PROVE  \E s \in Asking : Becomes(a, s) /\ CameFrom(r, s)
  <2> DEFINE q == [NotAsking EXCEPT !.pc = "latest", !.email = e, !.at = minute,
                                    !.purpose = "PASSWORD_RESET",
                                    !.coded = holder[e] = "student"]
  <2>1. q \in Asking /\ q.pc = "latest"
    BY <1>1 DEF Asking, NotAsking, Purposes
  <2>2. Becomes(a, q)
    BY <1>5 DEF RequestReset
  <2> HIDE DEF q
  <2> QED
    BY <1>2, <2>1, <2>2
<1>6. ASSUME NEW e \in Addresses, BeginRegister(a, e)
      PROVE  \E s \in Asking : Becomes(a, s) /\ CameFrom(r, s)
  <2> DEFINE q == [NotAsking EXCEPT !.pc = "register", !.email = e]
  <2>1. q \in Asking /\ q.pc = "register" /\ q.email = e
    BY <1>1 DEF Asking, NotAsking, Purposes
  <2>2. Becomes(a, q) /\ Proven(e)
    BY <1>6 DEF BeginRegister
  <2> HIDE DEF q
  <2> QED
    BY <2>1, <2>2 DEF CameFrom
<1>7. ASSUME NEW e \in Addresses, NEW p \in Purposes, Verify(a, e, p)
      PROVE  \E s \in Asking : Becomes(a, s) /\ CameFrom(r, s)
  <2>1. PICK i \in LiveCodes(e, p), pc \in {"miss", "spend"} :
          Becomes(a, [NotAsking EXCEPT !.pc = pc, !.email = e, !.purpose = p, !.code = i])
    BY <1>7 DEF Verify
  <2> DEFINE q == [NotAsking EXCEPT !.pc = pc, !.email = e, !.purpose = p, !.code = i]
  <2>2. i \in Nat /\ codes[i].attempts < MaxAttempts
    BY CodeIsRow DEF LiveCodes, CodesOf, CodesInv
  <2>3. q \in Asking /\ q.pc = pc /\ q.code = i
    BY <1>1, <2>2 DEF Asking, NotAsking
  <2>4. Becomes(a, q) /\ UNCHANGED codes
    BY <1>7, <2>1 DEF Verify
  <2> HIDE DEF q
  <2> QED
    BY <2>2, <2>3, <2>4 DEF CameFrom
<1>8. ASSUME FindLatest(a), ~Answers(a)
      PROVE  \E s \in Asking : Becomes(a, s) /\ CameFrom(r, s)
  <2> DEFINE q == [r EXCEPT !.pc = "count"]
  <2>1. q \in Asking /\ q.pc = "count" /\ q.email = r.email /\ q.purpose = r.purpose
    BY <1>1 DEF Asking
  <2>2. Becomes(a, q) /\ r.pc = "latest" /\ CooledDown(r.email, r.purpose, r.at)
        /\ UNCHANGED codes
    BY <1>8 DEF FindLatest, GoTo
  <2> HIDE DEF q
  <2> QED
    BY <2>1, <2>2 DEF CameFrom
<1>9. ASSUME CountSince(a), ~Answers(a)
      PROVE  \E s \in Asking : Becomes(a, s) /\ CameFrom(r, s)
  <2> DEFINE q == [r EXCEPT !.pc = "retire", !.at = 0]
  <2>1. q \in Asking /\ q.pc = "retire" /\ q.email = r.email /\ q.purpose = r.purpose
    BY <1>1 DEF Asking
  <2>2. Becomes(a, q) /\ r.pc = "count" /\ UNCHANGED codes
        /\ Cardinality(IssuedSince(r.email, r.at - Hour)) < PerHour
    BY <1>9 DEF CountSince
  <2> HIDE DEF q
  <2> QED
    BY <2>1, <2>2 DEF CameFrom
<1>10. ASSUME Retire(a) PROVE  \E s \in Asking : Becomes(a, s) /\ CameFrom(r, s)
  <2> DEFINE S == Unspent(r.email, r.purpose)
             q == [r EXCEPT !.pc = "create", !.seen = S]
  <2>1. S \in SUBSET Nat
    BY CodeIsRow DEF Unspent, CodesOf, CodesInv
  <2>2. Becomes(a, q) /\ r.pc = "retire" /\ UNCHANGED codes
    BY <1>10 DEF Retire
  <2> HIDE DEF S
  <2>3. q \in Asking /\ q.pc = "create" /\ q.email = r.email /\ q.purpose = r.purpose
    BY <1>1, <2>1 DEF Asking
  <2> HIDE DEF q, r
  <2> QED
    BY <2>2, <2>3 DEF CameFrom
<1>11. ASSUME CreateCode(a) PROVE  \E s \in Asking : Becomes(a, s) /\ CameFrom(r, s)
  <2> DEFINE q == [NotAsking EXCEPT !.pc = "send", !.coded = r.coded, !.code = Len(codes) + 1]
  <2>1. q \in Asking /\ q.pc = "send"
    BY <1>1, <1>16 DEF Asking, NotAsking, Purposes
  <2>2. Becomes(a, q)
    BY <1>11 DEF CreateCode
  <2> HIDE DEF q
  <2> QED
    BY <1>2, <2>1, <2>2
<1>12. CASE SendMail(a)
  BY <1>1, <1>2, <1>12, MailIsSent
<1>13. CASE RecordMiss(a)
  BY <1>2, <1>13, MissIsRecorded
<1>14. ASSUME Spend(a), ~Answers(a)
       PROVE  \E s \in Asking : Becomes(a, s) /\ CameFrom(r, s)
  <2> DEFINE q == [r EXCEPT !.pc = "account"]
  <2>1. q \in Asking /\ q.pc = "account" /\ q.email = r.email /\ q.purpose = r.purpose
    BY <1>1 DEF Asking
  <2>2. Becomes(a, q) /\ r.pc = "spend"
    BY <1>14 DEF Spend, GoTo
  <2> HIDE DEF q
  <2> QED
    BY <2>1, <2>2 DEF CameFrom
<1>15. ASSUME FindAccount(a), ~Answers(a)
       PROVE  \E s \in Asking : Becomes(a, s) /\ CameFrom(r, s)
  <2> DEFINE q == [r EXCEPT !.pc = "password"]
  <2>1. q \in Asking /\ q.pc = "password" /\ q.email = r.email
    BY <1>1 DEF Asking
  <2>2. Becomes(a, q) /\ r.pc = "account"
    BY <1>15 DEF FindAccount, GoTo
  <2> HIDE DEF q
  <2> QED
    BY <2>1, <2>2 DEF CameFrom
<1> QED
  BY <1>3, <1>4, <1>5, <1>6, <1>7, <1>8, <1>9, <1>10, <1>11, <1>12, <1>13, <1>14, <1>15
     DEF AskerStep, BurnCode, UpdatePassword, CreateUser, RequestDies

-----------------------------------------------------------------------------
(* Wrong guesses.                                                          *)

\* Each request still to record its wrong guess of a row has its place kept.
Guessing(i) == {a \in Askers : asking[a].pc = "miss" /\ asking[a].code = i}
GuessesReserved ==
  \A i \in DOMAIN codes :
    codes[i].attempts + Cardinality(Guessing(i)) <= MaxAttempts - 1 + Cardinality(Askers)

LEMMA GuessingIsFinite ==
  ASSUME CodesAssumption, NEW S \in SUBSET Askers
  PROVE  /\ IsFiniteSet(S) /\ Cardinality(S) \in Nat /\ Cardinality(Askers) \in Nat
         /\ Cardinality(S) <= Cardinality(Askers) /\ MaxAttempts \in Nat \ {0}
BY FS_Subset, FS_CardinalityType DEF CodesAssumption

\* Only the commit of an issue adds a row.
LEMMA RowIsCreated ==
  ASSUME CodesInv, NEW a \in Askers, AskerStep(a), DOMAIN codes' # DOMAIN codes
  PROVE  /\ CreateCode(a)
         /\ \E c \in Code :
              /\ c.attempts = 0 /\ c.uses = 0 /\ ~c.consumed
              /\ c.email = asking[a].email /\ c.purpose = asking[a].purpose
              /\ c.createdAt = minute /\ codes' = Append(WithRetired(asking[a].seen), c)
<1> DEFINE r == asking[a]
           c == [email |-> r.email, purpose |-> r.purpose, createdAt |-> minute,
                 attempts |-> 0, consumed |-> FALSE, mailed |-> FALSE, uses |-> 0]
<1>0. CodesTypeOK
  BY DEF CodesInv
<1>1. CreateCode(a)
  <2>1. CASE UNCHANGED codes
    BY <2>1
  <2>2. CASE SendMail(a) /\ codes' # codes
    <3>1. asking[a].code \in DOMAIN codes
      BY <2>2, RequestIsTyped DEF SendMail, Sound
    <3> QED
      BY <1>0, <2>2, <3>1, MailIsSent, RowAges
  <2>3. CASE BurnCode(a)
    <3>1. asking[a].code \in DOMAIN codes
      BY <2>3, RequestIsTyped DEF BurnCode, Sound
    <3> QED
      BY <1>0, <2>3, <3>1, CodeIsBurned, RowAges
  <2>4. CASE RecordMiss(a)
    <3>1. asking[a].code \in DOMAIN codes
      BY <2>4, RequestIsTyped DEF RecordMiss, Sound
    <3> QED
      BY <1>0, <2>4, <3>1, MissIsRecorded, RowAges
  <2>5. CASE Spend(a) /\ codes' # codes
    BY <1>0, <2>5, CodeIsSpent, RowAges
  <2> QED
    BY <2>1, <2>2, <2>3, <2>4, <2>5
       DEF AskerStep, StartVerification, RequestReset, BeginRegister, Verify, FindLatest,
           CountSince, Retire, FindAccount, UpdatePassword, CreateUser, RequestDies, accounts
<1>2. /\ c \in Code /\ c.attempts = 0 /\ c.uses = 0 /\ ~c.consumed
      /\ c.email = r.email /\ c.purpose = r.purpose /\ c.createdAt = minute
  BY <1>0, <1>1, RequestIsTyped DEF CreateCode, Sound, Issuing, Code, Asking, CodesTypeOK
<1>3. codes' = Append(WithRetired(r.seen), c)
  BY <1>1 DEF CreateCode
<1> HIDE DEF c
<1> QED
  BY <1>1, <1>2, <1>3

\* What a step does to a row's count of attempts.
LEMMA AttemptsCount ==
  ASSUME CodesInv, NEW a \in Askers, AskerStep(a), NEW i \in DOMAIN codes
  PROVE  \/ codes'[i].attempts = codes[i].attempts
         \/ /\ asking[a].pc = "miss" /\ asking[a].code = i
            /\ codes'[i].attempts = codes[i].attempts + 1
<1> DEFINE r == asking[a]
           j == r.code
<1>0. CodesTypeOK
  BY DEF CodesInv
<1>1. ASSUME NEW d, Ages(codes[j], d), j \in DOMAIN codes, codes' = [codes EXCEPT ![j] = d]
      PROVE  codes'[i] = IF i = j THEN d ELSE codes[i]
  BY <1>0, <1>1, RowAges
<1>2. CASE codes' = codes
  BY <1>2
<1>3. CASE CreateCode(a)
  <2> DEFINE c == [email |-> r.email, purpose |-> r.purpose, createdAt |-> minute,
                   attempts |-> 0, consumed |-> FALSE, mailed |-> FALSE, uses |-> 0]
  <2>1. c \in Code /\ codes' = Append(WithRetired(r.seen), c)
    BY <1>0, <1>3, RequestIsTyped DEF CreateCode, Sound, Issuing, Code, Asking, CodesTypeOK
  <2> HIDE DEF c
  <2>2. codes'[i] = [codes[i] EXCEPT !.consumed = codes[i].consumed \/ i \in r.seen]
    BY <1>0, <2>1, RowAdded
  <2> QED
    BY <1>0, <2>2, RetiredRow
<1>4. CASE SendMail(a) /\ codes' # codes
  <2>1. j \in DOMAIN codes
    BY <1>4, RequestIsTyped DEF SendMail, Sound
  <2> QED
    BY <1>1, <1>4, <2>1, MailIsSent
<1>5. CASE BurnCode(a)
  <2>1. j \in DOMAIN codes
    BY <1>5, RequestIsTyped DEF BurnCode, Sound
  <2> QED
    BY <1>1, <1>5, <2>1, CodeIsBurned
<1>6. CASE RecordMiss(a)
  <2>1. j \in DOMAIN codes /\ r.pc = "miss"
    BY <1>6, RequestIsTyped DEF RecordMiss, Sound
  <2> QED
    BY <1>1, <1>6, <2>1, MissIsRecorded
<1>7. CASE Spend(a) /\ codes' # codes
  BY <1>1, <1>7, CodeIsSpent
<1> QED
  BY <1>2, <1>3, <1>4, <1>5, <1>6, <1>7
     DEF AskerStep, StartVerification, RequestReset, BeginRegister, Verify, FindLatest,
         CountSince, Retire, FindAccount, UpdatePassword, CreateUser, RequestDies, accounts

LEMMA GuessesStep ==
  ASSUME CodesAssumption, CodesInv, GuessesReserved, [CodesNext]_codeVars
  PROVE  GuessesReserved'
<1>0. CodesInv' /\ RowsOnlyAge /\ CodesTypeOK /\ CodesTypeOK'
  BY CodesStep DEF CodesInv
<1> SUFFICES ASSUME NEW i \in DOMAIN codes'
             PROVE  codes'[i].attempts + Cardinality(Guessing(i)')
                      <= MaxAttempts - 1 + Cardinality(Askers)
  BY DEF GuessesReserved
<1> DEFINE G == Guessing(i)
           H == Guessing(i)'
<1>1. G \in SUBSET Askers /\ H \in SUBSET Askers
  BY DEF Guessing
<1>2. /\ IsFiniteSet(G) /\ Cardinality(G) \in Nat /\ Cardinality(H) \in Nat
      /\ Cardinality(Askers) \in Nat /\ Cardinality(H) <= Cardinality(Askers)
      /\ MaxAttempts \in Nat \ {0}
  BY <1>1, GuessingIsFinite
<1>3. codes'[i].attempts \in Nat /\ (i \in DOMAIN codes => codes[i].attempts \in Nat)
  <2>1. codes' \in Seq(Code) /\ codes \in Seq(Code)
    BY <1>0 DEF CodesTypeOK
  <2>2. codes'[i] \in Code /\ (i \in DOMAIN codes => codes[i] \in Code)
    BY <2>1
  <2> QED
    BY <2>2 DEF Code
<1>4. ASSUME codes'[i].attempts < MaxAttempts
      PROVE  codes'[i].attempts + Cardinality(H) <= MaxAttempts - 1 + Cardinality(Askers)
  BY <1>2, <1>3, <1>4
<1>5. i \in DOMAIN codes =>
        codes[i].attempts + Cardinality(G) <= MaxAttempts - 1 + Cardinality(Askers)
  BY DEF GuessesReserved
<1>6. ASSUME i \in DOMAIN codes, codes'[i].attempts = codes[i].attempts, H \subseteq G
      PROVE  codes'[i].attempts + Cardinality(H) <= MaxAttempts - 1 + Cardinality(Askers)
  <2>1. Cardinality(H) <= Cardinality(G)
    BY <1>2, <1>6, FS_Subset
  <2> HIDE DEF G, H
  <2> QED
    BY <1>2, <1>3, <1>5, <1>6, <2>1
<1>7. CASE UNCHANGED <<codes, asking>>
  BY <1>6, <1>7 DEF Guessing
<1>8. ASSUME NEW a \in Askers, AskerStep(a)
      PROVE  codes'[i].attempts + Cardinality(H) <= MaxAttempts - 1 + Cardinality(Askers)
  <2> DEFINE r == asking[a]
  <2>1. PICK q \in Asking : Becomes(a, q) /\ CameFrom(r, q)
    BY <1>8, NextRequest
  <2>2. asking'[a] = q /\ \A b \in Askers \ {a} : asking'[b] = asking[b]
    BY <1>0, <2>1 DEF Becomes, CodesTypeOK
  <2>3. CASE i \notin DOMAIN codes
    <3>1. PICK c \in Code : c.attempts = 0 /\ codes' = Append(WithRetired(r.seen), c)
      BY <1>8, <2>3, RowIsCreated
    <3>2. c \in Code /\ c.attempts = 0
      BY <3>1
    <3>3. codes'[i] = c
      BY <1>0, <2>3, <3>1, RowAdded
    <3> QED
      BY <1>2, <1>4, <3>2, <3>3
  <2>4. CASE i \in DOMAIN codes /\ q.pc = "miss" /\ q.code = i
    BY <1>4, <2>1, <2>4 DEF CameFrom
  <2>5. CASE i \in DOMAIN codes /\ ~(q.pc = "miss" /\ q.code = i)
    <3>1. H \subseteq G \ {a}
      BY <2>2, <2>5 DEF Guessing
    <3>2. CASE codes'[i].attempts = codes[i].attempts
      BY <1>6, <2>5, <3>1, <3>2
    <3>3. CASE a \in G /\ codes'[i].attempts = codes[i].attempts + 1
      <4>1. /\ IsFiniteSet(G \ {a}) /\ Cardinality(G \ {a}) = Cardinality(G) - 1
        BY <1>2, <3>3, FS_RemoveElement
      <4>2. Cardinality(H) <= Cardinality(G \ {a})
        BY <3>1, <4>1, FS_Subset
      <4> HIDE DEF G, H
      <4> QED
        BY <1>2, <1>3, <1>5, <2>5, <3>3, <4>1, <4>2
    <3> QED
      BY <1>8, <2>5, <3>2, <3>3, AttemptsCount DEF Guessing
  <2> QED
    BY <2>3, <2>4, <2>5
<1> QED
  BY <1>7, <1>8 DEF CodesNext, MinutePasses, ToggleAccount, accounts, codeVars

\* Codes: however the requests that guess at a code overlap, it gets no more
\* wrong guesses than its ceiling and one for each request that had read it.
THEOREM GuessesStayBounded == CodesSpec => []GuessesAreBounded
<1>1. CodesInit => CodesInv /\ GuessesReserved
  BY CodesStart, CodesAssumption DEF CodesInit, GuessesReserved
<1>2. CodesInv /\ GuessesReserved /\ [CodesNext]_codeVars => CodesInv' /\ GuessesReserved'
  BY CodesStep, GuessesStep, CodesAssumption
<1>3. CodesInv /\ GuessesReserved => GuessesAreBounded
  <2> SUFFICES ASSUME CodesInv, GuessesReserved, NEW i \in DOMAIN codes
               PROVE  codes[i].attempts <= MaxAttempts - 1 + Cardinality(Askers)
    BY DEF GuessesAreBounded
  <2>1. Guessing(i) \in SUBSET Askers
    BY DEF Guessing
  <2>2. Cardinality(Guessing(i)) \in Nat /\ Cardinality(Askers) \in Nat
        /\ MaxAttempts \in Nat /\ codes[i].attempts \in Nat
    BY <2>1, GuessingIsFinite, CodesAssumption, CodeIsRow DEF CodesInv, Code
  <2> QED
    BY <2>2 DEF GuessesReserved
<1> QED
  BY <1>1, <1>2, <1>3, PTL DEF CodesSpec

-----------------------------------------------------------------------------
(* What an address proves.                                                 *)

Resetting(e) == {a \in Askers : asking[a].pc \in {"account", "password"}
                                /\ asking[a].email = e}

SpendingRetires == \A i \in DOMAIN codes : codes[i].uses > 0 => codes[i].consumed
TicketsAreEarned == \A e \in tickets : SpentFor(e, "EMAIL_VERIFICATION") # {}
RegisteringIsProven ==
  /\ \A a \in Askers : asking[a].pc = "register" => Proven(asking[a].email)
  /\ \A e \in joined : Proven(e)
\* A request on its way to the password holds a spent code nobody has used yet.
ResetsArePaid ==
  \A e \in Addresses :
    resets[e] + Cardinality(Resetting(e)) <= Cardinality(SpentFor(e, "PASSWORD_RESET"))

Earned == SpendingRetires /\ TicketsAreEarned /\ RegisteringIsProven /\ ResetsArePaid

\* What a step does to a row's count of spendings.
LEMMA SpendingsCount ==
  ASSUME CodesInv, NEW a \in Askers, AskerStep(a), NEW i \in DOMAIN codes
  PROVE  \/ codes'[i].uses = codes[i].uses
         \/ codes'[i].uses = codes[i].uses + 1 /\ codes'[i].consumed
<1> DEFINE r == asking[a]
           j == r.code
<1>0. CodesTypeOK
  BY DEF CodesInv
<1>1. ASSUME NEW d, Ages(codes[j], d), j \in DOMAIN codes, codes' = [codes EXCEPT ![j] = d]
      PROVE  codes'[i] = IF i = j THEN d ELSE codes[i]
  BY <1>0, <1>1, RowAges
<1>2. CASE codes' = codes
  BY <1>2
<1>3. CASE CreateCode(a)
  <2>1. DOMAIN codes' # DOMAIN codes /\ codes \in Seq(Code)
    <3>1. Len(codes') = Len(codes) + 1
      BY <1>0, <1>3 DEF CreateCode, WithRetired, CodesTypeOK
    <3> QED
      BY <1>0, <3>1 DEF CodesTypeOK
  <2>2. PICK c \in Code : codes' = Append(WithRetired(r.seen), c)
    BY <2>1, RowIsCreated
  <2>3. codes'[i] = [codes[i] EXCEPT !.consumed = codes[i].consumed \/ i \in r.seen]
    BY <1>0, <2>2, RowAdded
  <2> QED
    BY <1>0, <2>3, RetiredRow
<1>4. CASE SendMail(a) /\ codes' # codes
  <2>1. j \in DOMAIN codes
    BY <1>4, RequestIsTyped DEF SendMail, Sound
  <2> QED
    BY <1>1, <1>4, <2>1, MailIsSent
<1>5. CASE BurnCode(a)
  <2>1. j \in DOMAIN codes
    BY <1>5, RequestIsTyped DEF BurnCode, Sound
  <2> QED
    BY <1>1, <1>5, <2>1, CodeIsBurned
<1>6. CASE RecordMiss(a)
  <2>1. j \in DOMAIN codes /\ r.pc = "miss"
    BY <1>6, RequestIsTyped DEF RecordMiss, Sound
  <2> QED
    BY <1>1, <1>6, <2>1, MissIsRecorded
<1>7. CASE Spend(a) /\ codes' # codes
  BY <1>1, <1>7, CodeIsSpent
<1> QED
  BY <1>2, <1>3, <1>4, <1>5, <1>6, <1>7
     DEF AskerStep, StartVerification, RequestReset, BeginRegister, Verify, FindLatest,
         CountSince, Retire, FindAccount, UpdatePassword, CreateUser, RequestDies, accounts

\* Spendings are never forgotten.
LEMMA SpentOnlyGrows ==
  ASSUME CodesInv, CodesInv', RowsOnlyAge, NEW e, NEW p
  PROVE  /\ SpentFor(e, p) \subseteq SpentFor(e, p)'
         /\ IsFiniteSet(SpentFor(e, p)) /\ IsFiniteSet(SpentFor(e, p)')
         /\ Cardinality(SpentFor(e, p)) \in Nat /\ Cardinality(SpentFor(e, p)') \in Nat
         /\ Cardinality(SpentFor(e, p)) <= Cardinality(SpentFor(e, p)')
<1>1. /\ \A i \in DOMAIN codes : codes[i].uses \in Nat
      /\ \A i \in DOMAIN codes' : codes'[i].uses \in Nat
      /\ DOMAIN codes = 1..Len(codes) /\ Len(codes) \in Nat
      /\ DOMAIN codes' = 1..Len(codes') /\ Len(codes') \in Nat
  <2>1. codes \in Seq(Code) /\ codes' \in Seq(Code)
    BY DEF CodesInv, CodesTypeOK
  <2>2. /\ \A i \in DOMAIN codes : codes[i] \in Code
        /\ \A i \in DOMAIN codes' : codes'[i] \in Code
    BY <2>1
  <2> QED
    BY <2>1, <2>2 DEF Code
<1>2. SpentFor(e, p) \subseteq SpentFor(e, p)'
  BY <1>1 DEF SpentFor, CodesOf, RowsOnlyAge
<1>3. SpentFor(e, p) \subseteq 1..Len(codes) /\ SpentFor(e, p)' \subseteq 1..Len(codes')
  <2>1. SpentFor(e, p) \subseteq DOMAIN codes
    BY DEF SpentFor, CodesOf
  <2>2. SpentFor(e, p)' \subseteq DOMAIN codes'
    BY DEF SpentFor, CodesOf
  <2> QED
    BY <1>1, <2>1, <2>2
<1>4. IsFiniteSet(1..Len(codes)) /\ IsFiniteSet(1..Len(codes'))
  <2>1. \A n \in Nat : IsFiniteSet(1..n)
    BY FS_Interval
  <2> QED
    BY <1>1, <2>1
<1>5. IsFiniteSet(SpentFor(e, p)) /\ IsFiniteSet(SpentFor(e, p)')
  BY <1>3, <1>4, FS_Subset
<1> QED
  BY <1>2, <1>5, FS_Subset, FS_CardinalityType

LEMMA SpendingPays ==
  ASSUME CodesInv, CodesInv', RowsOnlyAge, SpendingRetires, NEW a \in Askers, Spend(a),
         codes' # codes \/ tickets' # tickets \/ Consumable(asking[a].code),
         NEW e, NEW p, e = asking[a].email, p = asking[a].purpose
  PROVE  /\ SpentFor(e, p)' # {}
         /\ Cardinality(SpentFor(e, p)') >= Cardinality(SpentFor(e, p)) + 1
<1> DEFINE i == asking[a].code
           n == Cardinality(SpentFor(e, p))
           m == Cardinality(SpentFor(e, p)')
<1>1. /\ i \in DOMAIN codes /\ codes[i].email = e /\ codes[i].purpose = p
      /\ ~codes[i].consumed /\ codes[i].uses \in Nat
      /\ \E d : d.uses = codes[i].uses + 1 /\ Ages(codes[i], d) /\ codes' = [codes EXCEPT ![i] = d]
  BY CodeIsSpent, CodeIsRow DEF CodesInv, Code
<1>2. codes'[i].uses > 0 /\ codes[i].uses = 0
  BY <1>1, RowAges DEF CodesInv, SpendingRetires
<1>3. i \in DOMAIN codes' /\ codes'[i].email = e /\ codes'[i].purpose = p
  BY <1>1 DEF RowsOnlyAge
<1>4. /\ SpentFor(e, p) \subseteq SpentFor(e, p)'
      /\ IsFiniteSet(SpentFor(e, p)) /\ IsFiniteSet(SpentFor(e, p)')
      /\ n \in Nat /\ m \in Nat
  BY SpentOnlyGrows
<1>5. i \in SpentFor(e, p)' /\ i \notin SpentFor(e, p)
  BY <1>1, <1>2, <1>3 DEF SpentFor, CodesOf
<1>6. Cardinality(SpentFor(e, p) \union {i}) = n + 1
  BY <1>4, <1>5, FS_AddElement
<1>7. Cardinality(SpentFor(e, p) \union {i}) <= m
  BY <1>4, <1>5, FS_Subset
<1> QED
  BY <1>4, <1>5, <1>6, <1>7

LEMMA SpendingRetiresStep ==
  ASSUME CodesInv, SpendingRetires, NEW a \in Askers, AskerStep(a)
  PROVE  SpendingRetires'
<1> SUFFICES ASSUME NEW i \in DOMAIN codes', codes'[i].uses > 0
             PROVE  codes'[i].consumed
  BY DEF SpendingRetires
<1>1. RowsOnlyAge /\ CodesTypeOK
  BY CodesStep DEF CodesNext, CodesInv
<1>2. CASE i \in DOMAIN codes
  BY <1>1, <1>2, SpendingsCount DEF SpendingRetires, RowsOnlyAge
<1>3. CASE i \notin DOMAIN codes
  <2>1. PICK c \in Code : c.uses = 0 /\ codes' = Append(WithRetired(asking[a].seen), c)
    BY <1>3, RowIsCreated
  <2>2. codes'[i] = c
    BY <1>1, <1>3, <2>1, RowAdded
  <2> QED
    BY <2>1, <2>2
<1> QED
  BY <1>2, <1>3

\* Only a spending earns a ticket, only a registration an account.
LEMMA TicketsChange ==
  ASSUME CodesInv, NEW a \in Askers, AskerStep(a)
  PROVE  /\ \/ tickets' = tickets
            \/ /\ Spend(a) /\ tickets' # tickets /\ tickets' = tickets \union {asking[a].email}
               /\ asking[a].purpose = "EMAIL_VERIFICATION"
         /\ \/ joined' = joined
            \/ asking[a].pc = "register" /\ joined' = joined \union {asking[a].email}
         /\ tickets \subseteq tickets'
<1>1. CASE Spend(a) /\ tickets' # tickets
  <2>1. /\ joined' = joined /\ tickets' = tickets \union {asking[a].email}
        /\ asking[a].purpose # "PASSWORD_RESET"
    BY <1>1, CodeIsSpent DEF Spend
  <2>2. asking[a].purpose \in Purposes
    BY RequestIsTyped DEF Asking
  <2> QED
    BY <1>1, <2>1, <2>2 DEF Purposes
<1>2. CASE Spend(a) /\ tickets' = tickets
  BY <1>2 DEF Spend
<1>3. CASE CreateUser(a)
  BY <1>3 DEF CreateUser
<1> QED
  BY <1>1, <1>2, <1>3
     DEF AskerStep, StartVerification, RequestReset, BeginRegister, Verify, FindLatest,
         CountSince, Retire, CreateCode, SendMail, BurnCode, RecordMiss, FindAccount,
         UpdatePassword, RequestDies, accounts

LEMMA ProofIsKept ==
  ASSUME CodesInv, SpendingRetires, TicketsAreEarned, RegisteringIsProven,
         NEW a \in Askers, AskerStep(a)
  PROVE  TicketsAreEarned' /\ RegisteringIsProven'
<1>0. CodesInv' /\ RowsOnlyAge
  BY CodesStep DEF CodesNext
<1>1. PICK q \in Asking : Becomes(a, q) /\ CameFrom(asking[a], q)
  BY NextRequest
<1>2. asking'[a] = q /\ \A b \in Askers \ {a} : asking'[b] = asking[b]
  BY <1>1 DEF Becomes, CodesInv, CodesTypeOK
<1>3. \A e : Proven(e) => Proven(e)'
  BY TicketsChange DEF Proven
<1>4. ASSUME NEW e \in tickets' PROVE SpentFor(e, "EMAIL_VERIFICATION")' # {}
  <2>1. CASE e \in tickets
    <3>1. SpentFor(e, "EMAIL_VERIFICATION") # {}
      BY <2>1 DEF TicketsAreEarned
    <3>2. SpentFor(e, "EMAIL_VERIFICATION") \subseteq SpentFor(e, "EMAIL_VERIFICATION")'
      BY <1>0, SpentOnlyGrows
    <3> QED
      BY <3>1, <3>2
  <2>2. CASE e \notin tickets
    <3>1. /\ Spend(a) /\ tickets' # tickets /\ e = asking[a].email
          /\ asking[a].purpose = "EMAIL_VERIFICATION"
      BY <2>2, TicketsChange
    <3> QED
      BY <1>0, <3>1, SpendingPays
  <2> QED
    BY <2>1, <2>2
<1>5. ASSUME NEW b \in Askers, asking'[b].pc = "register" 
      PROVE  RequireTicket => asking'[b].email \in tickets'
  BY <1>1, <1>2, <1>3, <1>5 DEF CameFrom, RegisteringIsProven, Proven
<1>6. ASSUME NEW e \in joined' PROVE RequireTicket => e \in tickets'
  BY <1>3, <1>6, TicketsChange DEF RegisteringIsProven, Proven
<1> QED
  BY <1>4, <1>5, <1>6 DEF TicketsAreEarned, RegisteringIsProven, Proven

LEMMA PaymentIsKept ==
  ASSUME CodesAssumption, CodesInv, SpendingRetires, ResetsArePaid,
         NEW a \in Askers, AskerStep(a)
  PROVE  ResetsArePaid'
<1>0. CodesInv' /\ RowsOnlyAge
  BY CodesStep DEF CodesNext
<1>1. PICK q \in Asking : Becomes(a, q) /\ CameFrom(asking[a], q)
  BY NextRequest
<1>2. asking'[a] = q /\ \A b \in Askers \ {a} : asking'[b] = asking[b]
  BY <1>1 DEF Becomes, CodesInv, CodesTypeOK
<1> SUFFICES ASSUME NEW e \in Addresses
             PROVE  resets'[e] + Cardinality(Resetting(e)')
                      <= Cardinality(SpentFor(e, "PASSWORD_RESET")')
  BY DEF ResetsArePaid
<1> DEFINE G == Resetting(e)
           H == Resetting(e)'
           n == Cardinality(SpentFor(e, "PASSWORD_RESET"))
           m == Cardinality(SpentFor(e, "PASSWORD_RESET")')
<1>3. n \in Nat /\ m \in Nat /\ n <= m
  BY <1>0, SpentOnlyGrows
<1>4. G \in SUBSET Askers /\ H \in SUBSET Askers
  BY DEF Resetting
<1>5. IsFiniteSet(G) /\ IsFiniteSet(H) /\ Cardinality(G) \in Nat /\ Cardinality(H) \in Nat
  BY <1>4, GuessingIsFinite
<1>6. resets[e] \in Nat /\ resets'[e] \in Nat /\ resets[e] + Cardinality(G) <= n
  BY <1>0 DEF CodesInv, CodesTypeOK, ResetsArePaid
<1>7. CASE UpdatePassword(a) /\ asking[a].email = e
  <2>1. a \in G /\ resets'[e] = resets[e] + 1 /\ H \subseteq G \ {a}
    <3>1. asking[a].pc = "password" /\ q.pc = "idle"
      BY <1>2, <1>7 DEF UpdatePassword, Answers, Becomes, NotAsking, CodesInv, CodesTypeOK
    <3> QED
      BY <1>2, <1>7, <3>1 DEF Resetting, UpdatePassword, CodesInv, CodesTypeOK
  <2>2. IsFiniteSet(G \ {a}) /\ Cardinality(G \ {a}) = Cardinality(G) - 1
    BY <1>5, <2>1, FS_RemoveElement
  <2>3. Cardinality(H) <= Cardinality(G \ {a})
    BY <2>1, <2>2, FS_Subset
  <2>4. resets'[e] + Cardinality(H) <= m
    <3> HIDE DEF G, H, n, m
    <3> QED
      BY <1>3, <1>5, <1>6, <2>1, <2>2, <2>3
  <2> QED
    BY <2>4
<1>8. CASE ~(UpdatePassword(a) /\ asking[a].email = e)
  <2>1. resets'[e] = resets[e]
    <3>1. CASE UpdatePassword(a)
      BY <1>8, <3>1 DEF UpdatePassword, CodesInv, CodesTypeOK
    <3> QED
      BY <1>8, <3>1
         DEF AskerStep, StartVerification, RequestReset, BeginRegister, Verify, FindLatest,
             CountSince, Retire, CreateCode, SendMail, BurnCode, RecordMiss, Spend,
             FindAccount, CreateUser, RequestDies, accounts
  <2>2. CASE H \subseteq G
    <3>1. Cardinality(H) <= Cardinality(G)
      BY <1>5, <2>2, FS_Subset
    <3>2. resets'[e] + Cardinality(H) <= m
      <4> HIDE DEF G, H, n, m
      <4> QED
        BY <1>3, <1>5, <1>6, <2>1, <3>1
    <3> QED
      BY <3>2
  <2>3. CASE q.pc = "account" /\ q.email = e
    <3>1. asking[a].pc = "spend" /\ asking[a].email = e
      BY <1>1, <2>3 DEF CameFrom
    <3>2. Spend(a) /\ ~Answers(a)
      <4>1. ~Answers(a)
        <5>1. asking \in [Askers -> Asking] /\ NotAsking.pc = "idle"
          BY DEF CodesInv, CodesTypeOK, NotAsking
        <5> QED
          BY <1>2, <2>3, <5>1 DEF Answers, Becomes
      <4> QED
        BY <1>1, <3>1, <4>1
           DEF AskerStep, StartVerification, RequestReset, BeginRegister, Verify, FindLatest,
               CountSince, Retire, CreateCode, SendMail, BurnCode, RecordMiss, FindAccount,
               UpdatePassword, CreateUser, RequestDies
    <3>3. Consumable(asking[a].code) /\ asking[a].purpose = "PASSWORD_RESET"
      BY <3>2 DEF Spend
    <3>4. m >= n + 1
      BY <1>0, <3>1, <3>2, <3>3, SpendingPays
    <3>5. H \subseteq G \union {a} /\ a \notin G
      BY <1>2, <3>1 DEF Resetting
    <3>6. IsFiniteSet(G \union {a}) /\ Cardinality(G \union {a}) = Cardinality(G) + 1
      BY <1>5, <3>5, FS_AddElement
    <3>7. Cardinality(H) <= Cardinality(G \union {a})
      BY <3>5, <3>6, FS_Subset
    <3>8. resets'[e] + Cardinality(H) <= m
      <4> HIDE DEF G, H, n, m
      <4> QED
        BY <1>3, <1>5, <1>6, <2>1, <3>4, <3>6, <3>7
    <3> QED
      BY <3>8
  <2>4. CASE ~(q.pc = "account" /\ q.email = e)
    <3>1. H \subseteq G
      BY <1>1, <1>2, <2>4 DEF Resetting, CameFrom
    <3> QED
      BY <2>2, <3>1
  <2> QED
    BY <2>3, <2>4
<1> QED
  BY <1>7, <1>8

LEMMA EarnedStep ==
  ASSUME CodesAssumption, CodesInv, Earned, [CodesNext]_codeVars
  PROVE  Earned'
<1>1. CASE UNCHANGED <<codes, asking, tickets, joined, resets>>
  BY <1>1 DEF Earned, SpendingRetires, TicketsAreEarned, RegisteringIsProven, ResetsArePaid,
              SpentFor, CodesOf, Resetting, Proven
<1>2. ASSUME NEW a \in Askers, AskerStep(a) PROVE Earned'
  BY <1>2, SpendingRetiresStep, ProofIsKept, PaymentIsKept DEF Earned
<1> QED
  BY <1>1, <1>2 DEF CodesNext, MinutePasses, ToggleAccount, accounts, codeVars

LEMMA EarnedStart ==
  ASSUME CodesInit, CodesAssumption
  PROVE  Earned
<1>1. \A a \in Askers : asking[a].pc = "idle"
  BY DEF CodesInit, NotAsking
<1>2. SpendingRetires /\ TicketsAreEarned /\ RegisteringIsProven
  BY <1>1 DEF CodesInit, SpendingRetires, TicketsAreEarned, RegisteringIsProven
<1>3. ASSUME NEW e \in Addresses
      PROVE  resets[e] + Cardinality(Resetting(e)) <= Cardinality(SpentFor(e, "PASSWORD_RESET"))
  <2>1. Resetting(e) = {} /\ SpentFor(e, "PASSWORD_RESET") = {} /\ resets[e] = 0
    BY <1>1 DEF Resetting, SpentFor, CodesOf, CodesInit
  <2>2. Cardinality({}) = 0
    BY FS_EmptySet
  <2> QED
    BY <2>1, <2>2
<1> QED
  BY <1>2, <1>3 DEF Earned, ResetsArePaid

\* Codes: an address is registered only after a code for it was spent, when
\* the flag asks for it, and each new password has used up a code of its own,
\* however many requests verify, register and reset at once or die half-way.
THEOREM NothingGoesUnproven == CodesSpec => []NothingUnproven
<1>1. CodesInit => CodesInv /\ Earned
  BY CodesStart, EarnedStart, CodesAssumption
<1>2. CodesInv /\ Earned /\ [CodesNext]_codeVars => CodesInv' /\ Earned'
  BY CodesStep, EarnedStep, CodesAssumption
<1>3. CodesInv /\ Earned => NothingUnproven
  <2> SUFFICES ASSUME CodesInv, Earned PROVE NothingUnproven
    OBVIOUS
  <2>1. RequireTicket => \A e \in joined : SpentFor(e, "EMAIL_VERIFICATION") # {}
    BY DEF Earned, RegisteringIsProven, Proven, TicketsAreEarned
  <2>2. ASSUME NEW e \in Addresses
        PROVE  resets[e] <= Cardinality(SpentFor(e, "PASSWORD_RESET"))
    <3>1. resets[e] + Cardinality(Resetting(e)) <= Cardinality(SpentFor(e, "PASSWORD_RESET"))
      BY DEF Earned, ResetsArePaid
    <3>2. Resetting(e) \in SUBSET Askers
      BY DEF Resetting
    <3>3. Cardinality(Resetting(e)) \in Nat /\ resets[e] \in Nat
      BY <3>2, GuessingIsFinite, CodesAssumption DEF CodesInv, CodesTypeOK
    <3>4. SpentFor(e, "PASSWORD_RESET") \subseteq 1..Len(codes) /\ Len(codes) \in Nat
      BY DEF SpentFor, CodesOf, CodesInv, CodesTypeOK
    <3>5. Cardinality(SpentFor(e, "PASSWORD_RESET")) \in Nat
      <4>1. IsFiniteSet(1..Len(codes))
        BY <3>4, FS_Interval
      <4>2. IsFiniteSet(SpentFor(e, "PASSWORD_RESET"))
        BY <3>4, <4>1, FS_Subset
      <4> QED
        BY <4>2, FS_CardinalityType
    <3> QED
      BY <3>1, <3>3, <3>5
  <2> QED
    BY <2>1, <2>2 DEF NothingUnproven
<1> QED
  BY <1>1, <1>2, <1>3, PTL DEF CodesSpec

-----------------------------------------------------------------------------
(* The throttles.                                                          *)

\* The rows of a window of time, and the requests a throttle has let through.
Issued(e, P, c, span) ==
  {j \in DOMAIN codes : /\ codes[j].email = e /\ codes[j].purpose \in P
                        /\ c <= codes[j].createdAt /\ codes[j].createdAt < c + span}
Admitted(e, P, pcs) ==
  {a \in Askers : asking[a].pc \in pcs /\ asking[a].email = e /\ asking[a].purpose \in P}

\* While the window is open, each request let through has a place kept in it.
Room(e, P, pcs, c, span, limit) ==
  Cardinality(Issued(e, P, c, span))
    + (IF minute < c + span THEN Cardinality(Admitted(e, P, pcs)) ELSE 0)
  <= limit + Cardinality(Askers)

HourHasRoom ==
  \A e \in Addresses, c \in Nat :
    Room(e, Purposes, {"retire", "create"}, c, Hour, PerHour - 1)
CooldownHasRoom ==
  \A e \in Addresses, p \in Purposes, c \in Nat :
    Room(e, {p}, {"count", "retire", "create"}, c, Cooldown, 0)

LEMMA IssuedIsFinite ==
  ASSUME CodesTypeOK, NEW e, NEW P, NEW c, NEW span
  PROVE  IsFiniteSet(Issued(e, P, c, span)) /\ Cardinality(Issued(e, P, c, span)) \in Nat
<1>1. DOMAIN codes = 1..Len(codes) /\ Len(codes) \in Nat
  BY DEF CodesTypeOK
<1>2. Issued(e, P, c, span) \subseteq 1..Len(codes)
  BY <1>1 DEF Issued
<1>3. IsFiniteSet(1..Len(codes))
  BY <1>1, FS_Interval
<1>4. IsFiniteSet(Issued(e, P, c, span))
  BY <1>2, <1>3, FS_Subset
<1> QED
  BY <1>4, FS_CardinalityType

LEMMA ClockStands ==
  ASSUME NEW a \in Askers, AskerStep(a) PROVE minute' = minute
BY DEF AskerStep, StartVerification, RequestReset, BeginRegister, Verify, FindLatest,
       CountSince, Retire, CreateCode, SendMail, BurnCode, RecordMiss, Spend,
       FindAccount, UpdatePassword, CreateUser, RequestDies

\* What keeps the room, whichever throttle it is: it lets a request in only
\* while the window is within the limit.
LEMMA RoomIsKept ==
  ASSUME CodesAssumption, CodesInv, NEW a \in Askers, AskerStep(a),
         NEW e, NEW P, NEW pcs, "create" \in pcs, "send" \notin pcs,
         NEW c \in Nat, NEW span \in Nat, NEW limit \in Nat,
         Room(e, P, pcs, c, span, limit),
         \A q \in Asking :
           /\ Becomes(a, q) /\ CameFrom(asking[a], q) /\ a \notin Admitted(e, P, pcs)
           /\ q.pc \in pcs /\ q.email = e /\ q.purpose \in P /\ minute < c + span
           => Cardinality(Issued(e, P, c, span)) <= limit /\ UNCHANGED codes
  PROVE  Room(e, P, pcs, c, span, limit)'
<1>0. CodesInv' /\ RowsOnlyAge /\ CodesTypeOK /\ CodesTypeOK' /\ minute' = minute
      /\ minute \in Nat
  BY CodesStep, ClockStands DEF CodesNext, CodesInv, CodesTypeOK
<1>1. PICK q \in Asking : Becomes(a, q) /\ CameFrom(asking[a], q)
  BY NextRequest
<1>2. asking'[a] = q /\ \A b \in Askers \ {a} : asking'[b] = asking[b]
  BY <1>0, <1>1 DEF Becomes, CodesTypeOK
<1> DEFINE R == Issued(e, P, c, span)
           S == Issued(e, P, c, span)'
           G == Admitted(e, P, pcs)
           H == Admitted(e, P, pcs)'
<1>3. IsFiniteSet(R) /\ Cardinality(R) \in Nat
  BY <1>0, IssuedIsFinite
<1>4. G \in SUBSET Askers /\ H \in SUBSET Askers
  BY DEF Admitted
<1>5. /\ IsFiniteSet(G) /\ Cardinality(G) \in Nat /\ Cardinality(H) \in Nat
      /\ Cardinality(Askers) \in Nat /\ Cardinality(H) <= Cardinality(Askers)
  BY <1>4, GuessingIsFinite
<1>6. Cardinality(R) + (IF minute < c + span THEN Cardinality(G) ELSE 0)
        <= limit + Cardinality(Askers)
  BY DEF Room
<1> SUFFICES Cardinality(S) + (IF minute < c + span THEN Cardinality(H) ELSE 0)
               <= limit + Cardinality(Askers)
  BY <1>0 DEF Room
<1>7. ASSUME DOMAIN codes' = DOMAIN codes PROVE S = R
  BY <1>0, <1>7 DEF Issued, RowsOnlyAge
<1>8. CASE DOMAIN codes' # DOMAIN codes
  <2>1. PICK d \in Code :
          /\ d.email = asking[a].email /\ d.purpose = asking[a].purpose
          /\ d.createdAt = minute /\ codes' = Append(WithRetired(asking[a].seen), d)
    BY <1>8, RowIsCreated
  <2> DEFINE n == Len(codes) + 1
  <2>2. /\ DOMAIN codes' = DOMAIN codes \union {n} /\ n \notin DOMAIN codes /\ codes'[n] = d
    BY <1>0, <2>1, RowAdded
  <2>3. asking[a].pc = "create" /\ q.pc = "send"
    <3>1. CreateCode(a)
      BY <1>8, RowIsCreated
    <3> QED
      BY <1>0, <1>2, <3>1 DEF CreateCode, Becomes, NotAsking, CodesTypeOK
  <2>4. S \subseteq R \union {n} /\ n \notin R
    BY <1>0, <2>2 DEF Issued, RowsOnlyAge
  <2>5. IsFiniteSet(R \union {n}) /\ Cardinality(R \union {n}) = Cardinality(R) + 1
    BY <1>3, <2>4, FS_AddElement
  <2>6. CASE n \in S
    <3>1. a \in G /\ minute < c + span
      BY <2>1, <2>2, <2>3, <2>6 DEF Issued, Admitted
    <3>2. H \subseteq G \ {a}
      BY <1>2, <2>3 DEF Admitted
    <3>3. IsFiniteSet(G \ {a}) /\ Cardinality(G \ {a}) = Cardinality(G) - 1
      BY <1>5, <3>1, FS_RemoveElement
    <3>4. Cardinality(H) <= Cardinality(G \ {a})
      BY <3>2, <3>3, FS_Subset
    <3>5. Cardinality(S) <= Cardinality(R) + 1 /\ Cardinality(S) \in Nat
      BY <2>4, <2>5, FS_Subset, FS_CardinalityType
    <3> HIDE DEF R, S, G, H
    <3> QED
      BY <1>3, <1>5, <1>6, <3>1, <3>3, <3>4, <3>5
  <2>7. CASE n \notin S
    <3>1. Cardinality(S) <= Cardinality(R) /\ Cardinality(S) \in Nat
      BY <1>3, <2>4, <2>7, FS_Subset, FS_CardinalityType
    <3>2. H \subseteq G
      BY <1>2, <2>3 DEF Admitted
    <3>3. Cardinality(H) <= Cardinality(G)
      BY <1>5, <3>2, FS_Subset
    <3> HIDE DEF R, S, G, H
    <3> QED
      BY <1>3, <1>5, <1>6, <3>1, <3>3
  <2> QED
    BY <2>6, <2>7
<1>9. CASE DOMAIN codes' = DOMAIN codes
  <2>1. S = R
    BY <1>7, <1>9
  <2>2. CASE H \subseteq G
    <3>1. Cardinality(H) <= Cardinality(G)
      BY <1>5, <2>2, FS_Subset
    <3> HIDE DEF R, S, G, H
    <3> QED
      BY <1>3, <1>5, <1>6, <2>1, <3>1
  <2>3. CASE ~(H \subseteq G)
    <3>1. a \notin G /\ q.pc \in pcs /\ q.email = e /\ q.purpose \in P
      BY <1>2, <2>3 DEF Admitted
    <3>2. minute < c + span => Cardinality(R) <= limit
      BY <1>1, <3>1
    <3> HIDE DEF R, S, G, H
    <3> QED
      BY <1>3, <1>5, <1>6, <2>1, <3>2
  <2> QED
    BY <2>2, <2>3
<1> QED
  BY <1>8, <1>9

LEMMA RoomAsTimePasses ==
  ASSUME CodesAssumption, CodesInv, UNCHANGED <<codes, asking>>,
         minute' = minute \/ minute' = minute + 1, NEW e, NEW P, NEW pcs, NEW c \in Nat,
         NEW span \in Nat, NEW limit \in Nat, Room(e, P, pcs, c, span, limit)
  PROVE  Room(e, P, pcs, c, span, limit)'
<1>1. Admitted(e, P, pcs) \in SUBSET Askers
  BY DEF Admitted
<1>2. Cardinality(Admitted(e, P, pcs)) \in Nat /\ Cardinality(Askers) \in Nat
  BY <1>1, GuessingIsFinite
<1>3. Cardinality(Issued(e, P, c, span)) \in Nat /\ minute \in Nat
  BY IssuedIsFinite DEF CodesInv, CodesTypeOK
<1>4. Issued(e, P, c, span)' = Issued(e, P, c, span)
      /\ Admitted(e, P, pcs)' = Admitted(e, P, pcs)
  BY DEF Issued, Admitted
<1> QED
  BY <1>2, <1>3, <1>4 DEF Room

LEMMA HourKeepsRoom ==
  ASSUME CodesAssumption, CodesInv, HourHasRoom, NEW a \in Askers, AskerStep(a)
  PROVE  HourHasRoom'
<1> SUFFICES ASSUME NEW e \in Addresses, NEW c \in Nat
             PROVE  Room(e, Purposes, {"retire", "create"}, c, Hour, PerHour - 1)'
  BY DEF HourHasRoom
<1> DEFINE pcs == {"retire", "create"}
           r == asking[a]
<1>1. Hour \in Nat /\ PerHour - 1 \in Nat /\ PerHour \in Nat /\ minute \in Nat /\ CodesTypeOK
  BY DEF CodesAssumption, CodesInv, CodesTypeOK
<1>2. ASSUME NEW q \in Asking, CameFrom(r, q), a \notin Admitted(e, Purposes, pcs),
             q.pc \in pcs, q.email = e, q.purpose \in Purposes, minute < c + Hour
      PROVE  Cardinality(Issued(e, Purposes, c, Hour)) <= PerHour - 1 /\ UNCHANGED codes
  <2>1. r \in Asking /\ Sound(r)
    BY RequestIsTyped
  <2>2. q.pc = "retire"
    BY <1>2, <2>1 DEF CameFrom, Admitted
  <2>3. /\ r.pc = "count" /\ r.email = e /\ UNCHANGED codes
        /\ Cardinality(IssuedSince(r.email, r.at - Hour)) < PerHour
    BY <1>2, <2>2 DEF CameFrom
  <2>4. r.at \in Nat /\ r.at <= minute
    BY <2>1, <2>3 DEF Sound, Asking
  <2>5. Issued(e, Purposes, c, Hour) \subseteq IssuedSince(e, r.at - Hour)
    <3> SUFFICES ASSUME NEW j \in Issued(e, Purposes, c, Hour)
                 PROVE  j \in IssuedSince(e, r.at - Hour)
      OBVIOUS
    <3>1. j \in DOMAIN codes /\ codes[j].email = e /\ c <= codes[j].createdAt
      BY DEF Issued
    <3>2. codes[j].createdAt \in Nat
      BY <1>1, <3>1, CodeIsRow DEF Code
    <3>3. codes[j].createdAt >= r.at - Hour
      BY <1>1, <1>2, <2>4, <3>1, <3>2
    <3> QED
      BY <3>1, <3>3 DEF IssuedSince
  <2>6. IsFiniteSet(IssuedSince(e, r.at - Hour))
    <3>1. IssuedSince(e, r.at - Hour) \subseteq 1..Len(codes) /\ Len(codes) \in Nat
      BY <1>1 DEF IssuedSince, CodesTypeOK
    <3>2. IsFiniteSet(1..Len(codes))
      BY <3>1, FS_Interval
    <3> QED
      BY <3>1, <3>2, FS_Subset
  <2>7. Cardinality(Issued(e, Purposes, c, Hour)) <= Cardinality(IssuedSince(e, r.at - Hour))
        /\ Cardinality(Issued(e, Purposes, c, Hour)) \in Nat
        /\ Cardinality(IssuedSince(e, r.at - Hour)) \in Nat
    BY <2>5, <2>6, FS_Subset, FS_CardinalityType
  <2> QED
    BY <1>1, <2>3, <2>7
<1>3. Room(e, Purposes, pcs, c, Hour, PerHour - 1)
  BY DEF HourHasRoom
<1>4. "create" \in pcs /\ "send" \notin pcs
  OBVIOUS
<1> HIDE DEF pcs, r
<1>5. Room(e, Purposes, pcs, c, Hour, PerHour - 1)'
  BY <1>1, <1>2, <1>3, <1>4, RoomIsKept DEF r
<1> QED
  BY <1>5 DEF pcs

LEMMA CooldownKeepsRoom ==
  ASSUME CodesAssumption, CodesInv, CooldownHasRoom, NEW a \in Askers, AskerStep(a)
  PROVE  CooldownHasRoom'
<1> SUFFICES ASSUME NEW e \in Addresses, NEW p \in Purposes, NEW c \in Nat
             PROVE  Room(e, {p}, {"count", "retire", "create"}, c, Cooldown, 0)'
  BY DEF CooldownHasRoom
<1> DEFINE pcs == {"count", "retire", "create"}
           r == asking[a]
<1>1. Cooldown \in Nat /\ minute \in Nat /\ CodesTypeOK
  BY DEF CodesAssumption, CodesInv, CodesTypeOK
<1>2. ASSUME NEW q \in Asking, CameFrom(r, q), a \notin Admitted(e, {p}, pcs),
             q.pc \in pcs, q.email = e, q.purpose \in {p}, minute < c + Cooldown
      PROVE  Cardinality(Issued(e, {p}, c, Cooldown)) <= 0 /\ UNCHANGED codes
  <2>1. r \in Asking /\ Sound(r)
    BY RequestIsTyped
  <2>2. q.pc = "count"
    BY <1>2, <2>1 DEF CameFrom, Admitted
  <2>3. /\ r.pc = "latest" /\ r.email = e /\ r.purpose = p /\ UNCHANGED codes
        /\ CooledDown(e, p, r.at)
    BY <1>2, <2>2 DEF CameFrom
  <2>4. r.at \in Nat /\ r.at <= minute
    BY <2>1, <2>3 DEF Sound, Asking
  <2>5. ASSUME NEW j \in Issued(e, {p}, c, Cooldown) PROVE FALSE
    <3>1. j \in DOMAIN codes /\ codes[j].email = e /\ codes[j].purpose = p
          /\ c <= codes[j].createdAt
      BY DEF Issued
    <3>2. codes[j].createdAt \in Nat /\ codes[j].createdAt + Cooldown <= r.at
      BY <1>1, <2>3, <3>1, CodeIsRow DEF Code, CooledDown, CodesOf
    <3> QED
      BY <1>1, <1>2, <2>4, <3>1, <3>2
  <2>6. Issued(e, {p}, c, Cooldown) = {}
    BY <2>5
  <2>7. Cardinality({}) = 0
    BY FS_EmptySet
  <2> QED
    BY <2>3, <2>6, <2>7
<1>3. Room(e, {p}, pcs, c, Cooldown, 0)
  BY DEF CooldownHasRoom
<1>4. "create" \in pcs /\ "send" \notin pcs
  OBVIOUS
<1> HIDE DEF pcs, r
<1>5. Room(e, {p}, pcs, c, Cooldown, 0)'
  BY <1>1, <1>2, <1>3, <1>4, RoomIsKept DEF r
<1> QED
  BY <1>5 DEF pcs

LEMMA RoomStep ==
  ASSUME CodesAssumption, CodesInv, HourHasRoom, CooldownHasRoom, [CodesNext]_codeVars
  PROVE  HourHasRoom' /\ CooldownHasRoom'
<1>1. CASE UNCHANGED <<codes, asking>> /\ (minute' = minute \/ minute' = minute + 1)
  <2>1. Hour \in Nat /\ Cooldown \in Nat /\ PerHour - 1 \in Nat /\ 0 \in Nat
    BY DEF CodesAssumption
  <2>2. ASSUME NEW e \in Addresses, NEW c \in Nat
        PROVE  Room(e, Purposes, {"retire", "create"}, c, Hour, PerHour - 1)'
    BY <1>1, <2>1, RoomAsTimePasses DEF HourHasRoom
  <2>3. ASSUME NEW e \in Addresses, NEW p \in Purposes, NEW c \in Nat
        PROVE  Room(e, {p}, {"count", "retire", "create"}, c, Cooldown, 0)'
    BY <1>1, <2>1, RoomAsTimePasses DEF CooldownHasRoom
  <2> QED
    BY <2>2, <2>3 DEF HourHasRoom, CooldownHasRoom
<1> QED
  BY <1>1, HourKeepsRoom, CooldownKeepsRoom
     DEF CodesNext, MinutePasses, ToggleAccount, accounts, codeVars

LEMMA RoomStart ==
  ASSUME CodesInit, CodesAssumption
  PROVE  HourHasRoom /\ CooldownHasRoom
<1>1. Cardinality(Askers) \in Nat /\ PerHour - 1 \in Nat
  BY FS_CardinalityType DEF CodesAssumption
<1>2. \A a \in Askers : asking[a].pc = "idle"
  BY DEF CodesInit, NotAsking
<1>3. DOMAIN codes = {}
  BY DEF CodesInit
<1>4. ASSUME NEW e, NEW P, NEW pcs, "idle" \notin pcs, NEW c \in Nat, NEW span \in Nat,
             NEW limit \in Nat
      PROVE  Room(e, P, pcs, c, span, limit)
  <2>1. Issued(e, P, c, span) = {} /\ Admitted(e, P, pcs) = {}
    <3>1. DOMAIN codes = {} /\ \A a \in Askers : asking[a].pc = "idle"
      BY <1>2, <1>3
    <3> QED
      BY <1>4, <3>1 DEF Issued, Admitted
  <2>2. Cardinality({}) = 0
    BY FS_EmptySet
  <2> QED
    BY <1>1, <2>1, <2>2 DEF Room
<1>5. Hour \in Nat /\ Cooldown \in Nat /\ 0 \in Nat
  BY DEF CodesAssumption
<1> QED
  BY <1>1, <1>4, <1>5 DEF HourHasRoom, CooldownHasRoom

\* Codes: in no hour, and in no cool-down, is an address issued more codes than
\* the throttle allows and the requests that may race past it.
THEOREM ThrottlesHold == CodesSpec => []ThrottleHolds
<1>1. CodesInit => CodesInv /\ HourHasRoom /\ CooldownHasRoom
  BY CodesStart, RoomStart, CodesAssumption
<1>2. CodesInv /\ HourHasRoom /\ CooldownHasRoom /\ [CodesNext]_codeVars =>
        CodesInv' /\ HourHasRoom' /\ CooldownHasRoom'
  BY CodesStep, RoomStep, CodesAssumption
<1>3. CodesInv /\ HourHasRoom /\ CooldownHasRoom => ThrottleHolds
  <2> SUFFICES ASSUME CodesInv, HourHasRoom, CooldownHasRoom, NEW i \in DOMAIN codes
               PROVE  LET e == codes[i].email
                          Within(span) == {j \in DOMAIN codes :
                            /\ codes[j].email = e
                            /\ codes[j].createdAt \in codes[i].createdAt..(codes[i].createdAt + span - 1)}
                      IN /\ Cardinality(Within(Hour)) < PerHour + Cardinality(Askers)
                         /\ Cardinality({j \in Within(Cooldown) : codes[j].purpose = codes[i].purpose})
                              <= Cardinality(Askers)
    BY DEF ThrottleHolds
  <2> DEFINE e == codes[i].email
             p == codes[i].purpose
             c == codes[i].createdAt
             Within(span) == {j \in DOMAIN codes :
                                /\ codes[j].email = e
                                /\ codes[j].createdAt \in c..(c + span - 1)}
  <2>1. /\ e \in Addresses /\ p \in Purposes /\ c \in Nat
        /\ \A j \in DOMAIN codes : codes[j].createdAt \in Nat /\ codes[j].purpose \in Purposes
    BY CodeIsRow DEF CodesInv, Code
  <2>2. Hour \in Nat /\ Cooldown \in Nat /\ PerHour \in Nat /\ minute \in Nat
        /\ Cardinality(Askers) \in Nat
    BY CodesAssumption, FS_CardinalityType DEF CodesAssumption, CodesInv, CodesTypeOK
  <2>3. Within(Hour) = Issued(e, Purposes, c, Hour)
    BY <2>1, <2>2 DEF Issued
  <2>4. {j \in Within(Cooldown) : codes[j].purpose = p} = Issued(e, {p}, c, Cooldown)
    BY <2>1, <2>2 DEF Issued
  <2>5. ASSUME NEW P, NEW pcs, NEW span \in Nat, NEW limit \in Int,
               Room(e, P, pcs, c, span, limit)
        PROVE  Cardinality(Issued(e, P, c, span)) <= limit + Cardinality(Askers)
    <3>1. Admitted(e, P, pcs) \in SUBSET Askers
      BY DEF Admitted
    <3>2. Cardinality(Admitted(e, P, pcs)) \in Nat
      BY <3>1, GuessingIsFinite, CodesAssumption
    <3>3. Cardinality(Issued(e, P, c, span)) \in Nat
      BY IssuedIsFinite DEF CodesInv
    <3> QED
      BY <2>2, <2>5, <3>2, <3>3 DEF Room
  <2>6. Cardinality(Issued(e, Purposes, c, Hour)) <= PerHour - 1 + Cardinality(Askers)
    BY <2>1, <2>2, <2>5 DEF HourHasRoom
  <2>7. Cardinality(Issued(e, {p}, c, Cooldown)) <= Cardinality(Askers)
    <3>2. Room(e, {p}, {"count", "retire", "create"}, c, Cooldown, 0)
      BY <2>1 DEF CooldownHasRoom
    <3> HIDE DEF e, p, c
    <3>1. Cardinality(Issued(e, {p}, c, Cooldown)) <= 0 + Cardinality(Askers)
      BY <2>2, <2>5, <3>2
    <3> QED
      BY <2>2, <3>1
  <2>8. Cardinality(Issued(e, Purposes, c, Hour)) \in Nat
    BY IssuedIsFinite DEF CodesInv
  <2> HIDE DEF e, p, c
  <2>9. Cardinality(Issued(e, Purposes, c, Hour)) < PerHour + Cardinality(Askers)
    BY <2>2, <2>6, <2>8
  <2> QED
    BY <2>3, <2>4, <2>7, <2>9 DEF e, p, c
<1> QED
  BY <1>1, <1>2, <1>3, PTL DEF CodesSpec
=============================================================================
