--------------------------------- MODULE Terms ---------------------------------
(***************************************************************************)
(* Academic terms of one university, of which at most one is current.      *)
(* Making a term current clears the others and sets it, in a transaction   *)
(* that other transactions interleave with: at PostgreSQL's default level  *)
(* a statement sees what was committed when it began, waits for the rows   *)
(* it updates and looks at them again.  A partial unique index is the last *)
(* word.                                                                   *)
(***************************************************************************)
EXTENDS Naturals, FiniteSets

CONSTANTS
  TermIds, Registrars,   \* rows; requests that may be in flight at once
  Dates                  \* bound: the days terms start and end on

ASSUME TermsAssumption == TermIds # {} /\ Dates \subseteq Nat \ {0}

VARIABLES
  term,       \* AcademicTerm rows
  switch      \* what each request has in flight

termVars == <<term, switch>>

NoTerm == [exists |-> FALSE, current |-> FALSE, from |-> 0, to |-> 0]
Term == {NoTerm} \union
  [exists : {TRUE}, current : BOOLEAN, from : Dates, to : Dates]

\* A request states the flag or not, and either date or not (0).
Statement == [current : {"keep", "on", "off"},
              from : Dates \union {0}, to : Dates \union {0}]
Settled(t) == [pc |-> "idle", term |-> t,
               says |-> [current |-> "keep", from |-> 0, to |-> 0],
               seen |-> {}, mine |-> {}]
Switch == [pc : {"idle", "begin", "clear", "set"}, term : TermIds,
           says : Statement, seen : SUBSET TermIds, mine : SUBSET TermIds]

TermsTypeOK ==
  /\ term \in [TermIds -> Term]
  /\ switch \in [Registrars -> Switch]

SomeTerm == CHOOSE t \in TermIds : TRUE
TermsInit ==
  /\ term = [t \in TermIds |-> NoTerm]
  /\ switch = [r \in Registrars |-> Settled(SomeTerm)]

CurrentTerms == {t \in TermIds : term[t].current}
SwitchesTo(r, s) == switch' = [switch EXCEPT ![r] = s]
Gives(r) == SwitchesTo(r, Settled(SomeTerm))

\* Rows an open transaction has written.
LockedBy(r) == switch[r].mine
LockedByOthers(r) == UNION {LockedBy(q) : q \in Registrars \ {r}}

Dated(t, s) ==
  [exists |-> TRUE,
   current |-> IF s.current = "keep" THEN t.current ELSE s.current = "on",
   from |-> IF s.from = 0 THEN t.from ELSE s.from,
   to |-> IF s.to = 0 THEN t.to ELSE s.to]

\* createTerm states both dates; updateTerm compares them as they will stand
\* with the row it has read.
BeginCreateTerm(r, t, s) ==
  /\ switch[r].pc = "idle"
  /\ ~term[t].exists /\ \A q \in Registrars : switch[q].term # t \/ switch[q].pc = "idle"
  /\ s.from # 0 /\ s.to # 0 /\ s.from < s.to
  /\ SwitchesTo(r, [Settled(t) EXCEPT !.pc = "begin", !.says = s])
  /\ UNCHANGED term

DatesInOrder(t, s) == Dated(t, s).from < Dated(t, s).to
BeginUpdateTerm(r, t, s) ==
  /\ switch[r].pc = "idle"
  /\ term[t].exists
  /\ s # Settled(t).says /\ DatesInOrder(term[t], s)
  /\ SwitchesTo(r, [Settled(t) EXCEPT !.pc = "begin", !.says = s])
  /\ UNCHANGED term

\* The updateMany begins: the current rows committed by now, but for its own.
BeginClear(r) ==
  LET s == switch[r]
  IN /\ s.pc = "begin"
     /\ SwitchesTo(r, IF s.says.current = "on"
          THEN [s EXCEPT !.pc = "clear", !.seen = CurrentTerms \ {s.term}]
          ELSE [s EXCEPT !.pc = "set"])
     /\ UNCHANGED term

\* It waits for whoever has written them, and clears those still current.
ClearOthers(r) ==
  LET s == switch[r]
  IN /\ s.pc = "clear"
     /\ s.seen \intersect LockedByOthers(r) = {}
     /\ SwitchesTo(r, [s EXCEPT !.pc = "set", !.seen = {},
                                !.mine = s.seen \intersect CurrentTerms])
     /\ UNCHANGED term

\* AcademicTerm_one_current_per_organization_key.
NoIndex(r, new) == FALSE  \* mutant: the transaction alone is relied on
IndexRefuses(r, new) ==
  new.current /\ CurrentTerms \ (switch[r].mine \union {switch[r].term}) # {}

\* The row itself is written, and the transaction commits or is rolled back.
SetTerm(r) ==
  LET s == switch[r]
      new == Dated(term[s.term], s.says)
  IN /\ s.pc = "set"
     /\ s.term \notin LockedByOthers(r)
     /\ IF IndexRefuses(r, new)
        THEN Gives(r) /\ UNCHANGED term
        ELSE /\ term' = [t \in TermIds |->
                  IF t = s.term THEN new
                  ELSE IF t \in s.mine THEN [term[t] EXCEPT !.current = FALSE]
                  ELSE term[t]]
             /\ Gives(r)

\* The connection is lost: the transaction is rolled back.
SwitchLost(r) ==
  /\ switch[r].pc # "idle"
  /\ Gives(r)
  /\ UNCHANGED term

TermsNext ==
  \E r \in Registrars :
    \/ \E t \in TermIds, s \in Statement :
         BeginCreateTerm(r, t, s) \/ BeginUpdateTerm(r, t, s)
    \/ BeginClear(r) \/ ClearOthers(r) \/ SetTerm(r) \/ SwitchLost(r)

TermsSpec == TermsInit /\ [][TermsNext]_termVars

-----------------------------------------------------------------------------
(* Properties.                                                             *)

\* "Exactly one TRUE row per university" at most, however requests that make
\* different terms current interleave; and once there is a current term there
\* is one until a request says that it no longer is.
CurrentTermHandsOver ==
  [][/\ Cardinality(CurrentTerms') <= 1
     /\ CurrentTerms # {} /\ CurrentTerms' = {} =>
          \E r \in Registrars : /\ switch[r].pc = "set"
                                /\ switch[r].says.current = "off"
                                /\ switch[r].term \in CurrentTerms]_termVars
=============================================================================
