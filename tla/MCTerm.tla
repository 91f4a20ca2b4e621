-------------------------------- MODULE MCTerm --------------------------------
(***************************************************************************)
(* A term: a lecture whose hours are edited while a session of it is open, *)
(* one that two workers sweep, and around them the terms themselves, one   *)
(* offering's coursework and the codes sent to one address.  Each behaviour *)
(* explores one of them, chosen at the start, while the others rest: they  *)
(* share no state that their properties are about, so states add up        *)
(* instead of multiplying.                                                 *)
(***************************************************************************)
EXTENDS MCAttendance, Terms, Coursework, EmailCodes

CONSTANTS r1, r2

VARIABLE desk

-----------------------------------------------------------------------------
(* The lecture: either its hours are edited and one worker at a time sweeps *)
(* its session, or two workers do and nothing is edited.                    *)

OverHours == Cardinality({w \in Workers : sweep'[w].pc # "idle"}) <= 1
OverWorkers == edits' = 0

(* The terms, and what a request says of one.                              *)

Says(c, f, t) == [current |-> c, from |-> f, to |-> t]
SomeDates == {Says("on", 1, 2), Says("keep", 1, 2), Says("on", 0, 0), Says("off", 0, 0),
              Says("keep", 2, 0)}
OverTerms == \A r \in Registrars : switch'[r].pc # "idle" => switch'[r].says \in SomeDates

(* The coursework: the offering and its people; the sets of cohorts, with  *)
(* at most one change of the offering's; the grades.                       *)

FirstCohort == [s \in Learners |-> "A"]
SomeSets == {{}, {"A"}, {"B"}}
Offers == {"offer", "offerDelete", "offerCommit"}
AboutToBe(pcs) == {r \in Tasks : task'[r].pc \in pcs}

OverOffering ==
  /\ AboutToBe({"appoint", "setEnrollment"}) # {} =>
       \A r \in Tasks : task'[r].pc \in {"idle", "appoint", "setEnrollment", "enroll"}
  /\ \A r \in AboutToBe(Offers) : task'[r].resets => task'[r].flag # "on"
OverTargets ==
  /\ <<teaches, enrolled, grade>>' = <<teaches, enrolled, grade>>
  /\ AboutToBe({"appoint", "enroll", "setEnrollment", "enrollment", "upsert"}) = {}
  /\ \A r \in Tasks : task'[r].score <= 1
  /\ \A r, q \in AboutToBe(Offers) : r = q /\ task'[r].flag = "keep"

OverGrades ==
  /\ AboutToBe(Offers \union {"delete", "replace"}) = {}
  /\ work'.targets = {}
  /\ \A r \in AboutToBe({"set"}) : task'[r].set = {}
  /\ AboutToBe({"appoint"}) = {}

-----------------------------------------------------------------------------
Desks == {"lecture", "workers", "terms", "offering", "targets", "grades", "codes"}

TermTimeInit ==
  /\ desk \in Desks
  /\ Init /\ TermsInit
  /\ desk # "lecture" => \A l \in Lectures : lecture[l].slot = OneHour
  /\ desk = "lecture" \/ profile = [s \in Students |->
                                      IF desk = "workers" THEN Lectures ELSE {}]
  /\ CourseworkInit
  /\ desk \in {"offering", "targets", "grades"} \/ offering.cohorts = {}
  /\ CodesInit /\ (desk = "codes" \/ holder = [e \in Addresses |-> "none"])

LectureDesk ==
  /\ desk = "lecture" /\ Next /\ OverHours
  /\ UNCHANGED <<termVars, courseworkVars, codeVars, desk>>
WorkersDesk ==
  /\ desk = "workers" /\ Next /\ OverWorkers
  /\ UNCHANGED <<termVars, courseworkVars, codeVars, desk>>
TermsDesk ==
  /\ desk = "terms" /\ TermsNext /\ OverTerms
  /\ UNCHANGED <<vars, courseworkVars, codeVars, desk>>
OfferingDesk ==
  /\ desk = "offering" /\ (\E r \in Tasks : OfferingStep(r) \/ TaskLost(r)) /\ OverOffering
  /\ UNCHANGED <<vars, termVars, codeVars, desk>>
TargetsDesk ==
  /\ desk = "targets" /\ CourseworkNext /\ OverTargets
  /\ UNCHANGED <<vars, termVars, codeVars, desk>>
GradesDesk ==
  /\ desk = "grades" /\ CourseworkNext /\ OverGrades
  /\ UNCHANGED <<vars, termVars, codeVars, desk>>
CodesDesk ==
  /\ desk = "codes" /\ CodesNext
  /\ UNCHANGED <<vars, termVars, courseworkVars, desk>>

TermTimeNext ==
  \/ LectureDesk \/ WorkersDesk \/ TermsDesk \/ OfferingDesk \/ TargetsDesk
  \/ GradesDesk \/ CodesDesk

termTimeVars == <<vars, termVars, courseworkVars, codeVars, desk>>

TermTimeSpec == TermTimeInit /\ [][TermTimeNext]_termTimeVars

Interchangeable ==
  {a @@ b : a \in Permutations({r1, r2}), b \in Permutations(Workers)}
=============================================================================
