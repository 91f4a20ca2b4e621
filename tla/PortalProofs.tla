----------------------------- MODULE PortalProofs -----------------------------
(***************************************************************************)
(* What the portal shows, for every number of members, sessions and ticks: *)
(* the code on the projector, the figures made of attendance, and that     *)
(* what is listed opens.                                                   *)
(***************************************************************************)
EXTENDS Projector, Figures, Reach, FiniteSetTheorems, TLAPS

-----------------------------------------------------------------------------
(* The projector.  A code on the screen is of a page that is rotating, and *)
(* of its requests the one answered last; and a page that is rotating has  *)
(* asked again after every Interval.                                       *)

AsksInTime ==
  /\ \A t \in Ticks : IsAsked(t) => t <= clock
  /\ \A t \in Ticks : IsAsked(t) => Rotating
  /\ \A t \in Ticks :
       IsAsked(t) /\ t + Interval <= clock => IsAsked(t + Interval)

AnswersInTime ==
  \A t \in Ticks :
    /\ ask[t].answered # NoCode => ask[t].state = "shown"
    /\ ask[t].state = "shown" =>
         /\ ask[t].answered # NoCode
         /\ t <= ask[t].answered /\ ask[t].answered <= clock
    /\ ask[t].state \in {"signed", "shown"} => ask[t].iat # NoCode /\ t <= ask[t].iat

LastAnswered ==
  /\ shown = NoCode => \A t \in Ticks : ask[t].state # "shown"
  /\ shown # NoCode =>
       /\ ask[shown].state = "shown"
       /\ \A t \in Ticks : ask[t].state = "shown" => ask[t].answered <= ask[shown].answered

ProjectorInv == ProjectorTypeOK /\ AsksInTime /\ AnswersInTime /\ LastAnswered

LEMMA ProjectorNumbers ==
  /\ Interval \in Nat /\ Interval > 0 /\ CodeLife \in Nat /\ LastTick \in Nat
  /\ Interval < CodeLife /\ CodeLife < Interval + Interval
BY ProjectorAssumption DEF Margin

LEMMA RequestMembership ==
  /\ Unsent \in CodeRequest /\ Sent \in CodeRequest
  /\ Unsent.state = "unsent" /\ Unsent.answered = NoCode /\ Unsent.iat = NoCode
  /\ Sent.state = "sent" /\ Sent.answered = NoCode /\ Sent.iat = NoCode
BY DEF Unsent, Sent, CodeRequest

LEMMA RequestMoves ==
  ASSUME NEW q \in CodeRequest, NEW now \in Ticks
  PROVE  /\ [q EXCEPT !.state = "failed"] \in CodeRequest
         /\ [q EXCEPT !.state = "signed", !.iat = now] \in CodeRequest
         /\ [q EXCEPT !.state = "shown", !.answered = now] \in CodeRequest
BY DEF CodeRequest

LEMMA NothingAskedIs ==
  /\ NothingAsked \in [Ticks -> CodeRequest]
  /\ \A t \in Ticks : NothingAsked[t].state = "unsent" /\ NothingAsked[t].answered = NoCode
BY RequestMembership DEF NothingAsked

LEMMA ProjectorStarts == ProjectorInit => ProjectorInv
<1> SUFFICES ASSUME ProjectorInit PROVE ProjectorInv
  OBVIOUS
<1>1. ProjectorTypeOK
  BY ProjectorNumbers, NothingAskedIs DEF ProjectorInit, ProjectorTypeOK, Ticks
<1>2. \A t \in Ticks : ask[t].state = "unsent" /\ ask[t].answered = NoCode
  BY NothingAskedIs DEF ProjectorInit
<1> QED
  BY <1>1, <1>2 DEF ProjectorInit, ProjectorInv, AsksInTime, AnswersInTime, LastAnswered, IsAsked

\* What becomes of one request, when nothing else changes.
LEMMA OneRequestChanges ==
  ASSUME NEW t \in Ticks, NEW q \in CodeRequest, ProjectorTypeOK,
         ask' = [ask EXCEPT ![t] = q], clock' = clock
  PROVE  /\ ask' \in [Ticks -> CodeRequest]
         /\ ask'[t] = q
         /\ \A o \in Ticks \ {t} : ask'[o] = ask[o]
BY DEF ProjectorTypeOK

LEMMA PageIsShown ==
  ASSUME ProjectorInv, ShowPage PROVE ProjectorInv'
<1> USE ProjectorNumbers
<1>1. \A t \in Ticks : ~IsAsked(t)
  BY DEF ProjectorInv, AsksInTime, Rotating, ShowPage
<1>2. shown = NoCode /\ shown' = NoCode /\ clock' = clock /\ meeting' = meeting /\ clock \in Ticks
  BY <1>1 DEF ProjectorInv, LastAnswered, IsAsked, ShowPage, ProjectorTypeOK, Ticks
<1>3. PICK knows \in {"ACTIVE"} \union ({meeting} \ {"PENDING"}) :
        /\ live' = UpKnowing(knows)
        /\ ask' = IF knows = "CLOSED" THEN NothingAsked
                  ELSE [NothingAsked EXCEPT ![clock] = Sent]
  BY DEF ShowPage
<1>4. knows \in {"ACTIVE", "CLOSED"}
  BY DEF ProjectorInv, ProjectorTypeOK
<1>5. /\ ask' \in [Ticks -> CodeRequest]
      /\ \A t \in Ticks : ask'[t].answered = NoCode /\ ask'[t].state \in {"unsent", "sent"}
      /\ \A t \in Ticks : ask'[t].state # "unsent" => t = clock /\ knows # "CLOSED"
  BY <1>2, <1>3, NothingAskedIs, RequestMembership
<1>6. ProjectorTypeOK'
  BY <1>2, <1>3, <1>4, <1>5 DEF ProjectorInv, ProjectorTypeOK, UpKnowing
<1>7. AsksInTime'
  BY <1>2, <1>3, <1>5 DEF AsksInTime, IsAsked, Rotating, UpKnowing, Ticks
<1> QED
  BY <1>2, <1>5, <1>6, <1>7 DEF ProjectorInv, AnswersInTime, LastAnswered

LEMMA PageStopsRotating ==
  ASSUME ProjectorInv, LeavePage \/ LearnsItIsClosed PROVE ProjectorInv'
<1>1. /\ shown' = NoCode /\ ask' = NothingAsked /\ clock' = clock /\ meeting' = meeting
  BY DEF LeavePage, LearnsItIsClosed, StopsRotating
<1>2. live' \in [up : BOOLEAN, knows : {"ACTIVE", "CLOSED"}]
  <2>1. \A l \in [up : BOOLEAN, knows : {"ACTIVE", "CLOSED"}] :
          [l EXCEPT !.up = FALSE] \in [up : BOOLEAN, knows : {"ACTIVE", "CLOSED"}]
    OBVIOUS
  <2>2. UpKnowing("CLOSED") \in [up : BOOLEAN, knows : {"ACTIVE", "CLOSED"}]
    BY DEF UpKnowing
  <2> QED
    BY <2>1, <2>2 DEF LeavePage, LearnsItIsClosed, ProjectorInv, ProjectorTypeOK
<1>3. ProjectorTypeOK'
  BY <1>1, <1>2, NothingAskedIs DEF ProjectorInv, ProjectorTypeOK
<1> QED
  BY <1>1, <1>3, NothingAskedIs DEF ProjectorInv, AsksInTime, AnswersInTime, LastAnswered, IsAsked

LEMMA SessionIsMoved ==
  ASSUME ProjectorInv, SessionMoves PROVE ProjectorInv'
BY DEF SessionMoves, ProjectorInv, ProjectorTypeOK, AsksInTime, AnswersInTime, LastAnswered,
       IsAsked, Rotating

LEMMA TimePassesAtTheProjector ==
  ASSUME ProjectorInv, ClockTick PROVE ProjectorInv'
<1> USE ProjectorNumbers
<1>0. /\ clock \in Nat /\ clock + 1 \in Ticks /\ clock' = clock + 1
      /\ UNCHANGED <<meeting, live, shown>>
  BY DEF ClockTick, ProjectorInv, ProjectorTypeOK, Ticks
<1>1. ask' = IF FallsDue(clock') THEN [ask EXCEPT ![clock'] = Sent] ELSE ask
  BY DEF ClockTick
<1>2. ~IsAsked(clock + 1) /\ ask \in [Ticks -> CodeRequest]
  BY <1>0 DEF ProjectorInv, AsksInTime, ProjectorTypeOK
<1>3. FallsDue(clock') <=>
        /\ Rotating /\ clock + 1 - Interval \in Ticks /\ IsAsked(clock + 1 - Interval)
  BY <1>0 DEF FallsDue, Due
<1>4. /\ ask' \in [Ticks -> CodeRequest]
      /\ \A t \in Ticks \ {clock + 1} : ask'[t] = ask[t]
      /\ ask'[clock + 1] = IF FallsDue(clock') THEN Sent ELSE ask[clock + 1]
  BY <1>0, <1>1, <1>2, RequestMembership
<1>5. ProjectorTypeOK'
  BY <1>0, <1>4 DEF ProjectorInv, ProjectorTypeOK
<1>6. ask[clock + 1].state = "unsent" /\ ask'[clock + 1].state \in {"unsent", "sent"}
  BY <1>0, <1>2, <1>4, RequestMembership DEF IsAsked
<1>7. AsksInTime'
  <2>1. ASSUME NEW t \in Ticks, ask'[t].state # "unsent"
        PROVE  t <= clock' /\ Rotating'
    <3>1. CASE t = clock + 1
      BY <3>1, <2>1, <1>0, <1>3, <1>4, <1>6 DEF Rotating
    <3>2. CASE t # clock + 1
      BY <3>2, <2>1, <1>0, <1>4 DEF ProjectorInv, AsksInTime, IsAsked, Rotating, Ticks
    <3> QED
      BY <3>1, <3>2
  <2>2. ASSUME NEW t \in Ticks, ask'[t].state # "unsent", t + Interval <= clock'
        PROVE  ask'[t + Interval].state # "unsent"
    <3>1. t # clock + 1 /\ t \in Nat
      BY <2>2, <1>0 DEF Ticks
    <3>2. IsAsked(t) /\ Rotating
      BY <3>1, <2>2, <1>4 DEF IsAsked, ProjectorInv, AsksInTime
    <3>3. CASE t + Interval = clock + 1
      <4>1. clock + 1 - Interval = t
        BY <3>1, <3>3, <1>0
      <4> QED
        BY <4>1, <3>2, <3>3, <1>3, <1>4, RequestMembership
    <3>4. CASE t + Interval # clock + 1
      <4>1. t + Interval <= clock /\ t + Interval \in Ticks
        BY <3>1, <3>4, <2>2, <1>0 DEF Ticks
      <4> QED
        BY <4>1, <3>2, <3>4, <1>4 DEF IsAsked, ProjectorInv, AsksInTime
    <3> QED
      BY <3>3, <3>4
  <2> QED
    BY <2>1, <2>2 DEF AsksInTime, IsAsked
<1>8. AnswersInTime'
  <2>1. Sent.answered = NoCode /\ Sent.state = "sent"
    BY RequestMembership
  <2>2. \A t \in Ticks : ask'[t] = ask[t] \/ (ask'[t].state = "sent" /\ ask'[t].answered = NoCode)
    BY <2>1, <1>4
  <2>3. \A t \in Ticks : ask[t].answered \in Int /\ clock \in Int
    BY <1>0, <1>2 DEF CodeRequest, Ticks, NoCode
  <2> QED
    BY <2>2, <2>3, <1>0 DEF ProjectorInv, AnswersInTime, Ticks
<1>9. LastAnswered'
  <2>1. \A t \in Ticks : ask'[t].state = "shown" <=> ask[t].state = "shown"
    BY <1>4, <1>6
  <2>2. \A t \in Ticks : ask[t].state = "shown" => ask'[t] = ask[t]
    BY <1>4, <1>6
  <2>3. shown # NoCode => shown \in Ticks
    BY DEF ProjectorInv, ProjectorTypeOK
  <2> QED
    BY <2>1, <2>2, <2>3, <1>0 DEF ProjectorInv, LastAnswered
<1> QED
  BY <1>5, <1>7, <1>8, <1>9 DEF ProjectorInv

LEMMA CodeIsSigned ==
  ASSUME ProjectorInv, NEW t \in Ticks, SignCode(t) PROVE ProjectorInv'
<1> USE ProjectorNumbers
<1> DEFINE q == IF meeting = "ACTIVE" THEN [ask[t] EXCEPT !.state = "signed", !.iat = clock]
                ELSE [ask[t] EXCEPT !.state = "failed"]
<1>1. /\ ask[t].state = "sent" /\ UNCHANGED <<clock, meeting, live, shown>>
      /\ ask' = [ask EXCEPT ![t] = q]
      /\ ask[t] \in CodeRequest /\ clock \in Ticks
  BY DEF SignCode, ProjectorInv, ProjectorTypeOK
<1>2. q \in CodeRequest
  BY <1>1, RequestMoves
<1>3. /\ q.state \in {"signed", "failed"} /\ q.answered = ask[t].answered
      /\ q.state = "signed" => q.iat = clock
  BY <1>1 DEF CodeRequest
<1> HIDE DEF q
<1>4. /\ ask' \in [Ticks -> CodeRequest] /\ ask'[t] = q
      /\ \A o \in Ticks \ {t} : ask'[o] = ask[o]
  BY <1>1, <1>2, OneRequestChanges DEF ProjectorInv
<1>5. /\ t <= clock /\ clock # NoCode
      /\ ask[t].answered = NoCode
  BY <1>1 DEF ProjectorInv, AsksInTime, IsAsked, AnswersInTime, Ticks, NoCode
<1>6. \A o \in Ticks : /\ ask'[o].state # "unsent" <=> ask[o].state # "unsent"
                       /\ ask'[o].state = "shown" => o # t /\ ask'[o] = ask[o]
                       /\ ask[o].state = "shown" => o # t /\ ask'[o] = ask[o]
  BY <1>1, <1>3, <1>4
<1>7. ProjectorTypeOK'
  BY <1>1, <1>4 DEF ProjectorInv, ProjectorTypeOK
<1>8. AsksInTime'
  <2>1. \A o \in Ticks : o + Interval <= clock => o + Interval \in Ticks
    BY <1>1 DEF Ticks
  <2> QED
    BY <2>1, <1>1, <1>6 DEF ProjectorInv, AsksInTime, IsAsked, Rotating
<1>9. AnswersInTime'
  BY <1>1, <1>3, <1>4, <1>5 DEF ProjectorInv, AnswersInTime
<1>10. LastAnswered'
  BY <1>1, <1>6 DEF ProjectorInv, LastAnswered, ProjectorTypeOK
<1> QED
  BY <1>7, <1>8, <1>9, <1>10 DEF ProjectorInv

LEMMA TokenIsShown ==
  ASSUME ProjectorInv, NEW t \in Ticks, TokenArrives(t) PROVE ProjectorInv'
<1> USE ProjectorNumbers
<1> DEFINE q == [ask[t] EXCEPT !.state = "shown", !.answered = clock]
<1>1. /\ ask[t].state = "signed" /\ UNCHANGED <<clock, meeting, live>> /\ shown' = t
      /\ ask' = [ask EXCEPT ![t] = q]
      /\ ask[t] \in CodeRequest /\ clock \in Ticks
  BY DEF TokenArrives, ProjectorInv, ProjectorTypeOK
<1>2. q \in CodeRequest
  BY <1>1, RequestMoves
<1>3. q.state = "shown" /\ q.answered = clock /\ q.iat = ask[t].iat
  BY <1>1 DEF CodeRequest
<1> HIDE DEF q
<1>4. /\ ask' \in [Ticks -> CodeRequest] /\ ask'[t] = q
      /\ \A o \in Ticks \ {t} : ask'[o] = ask[o]
  BY <1>1, <1>2, OneRequestChanges DEF ProjectorInv
<1>5. t <= clock /\ clock # NoCode /\ t # NoCode
  BY <1>1 DEF ProjectorInv, AsksInTime, IsAsked, Ticks, NoCode
<1>6. \A o \in Ticks : ask'[o].state # "unsent" <=> ask[o].state # "unsent"
  BY <1>1, <1>3, <1>4
<1>7. ProjectorTypeOK'
  BY <1>1, <1>4 DEF ProjectorInv, ProjectorTypeOK
<1>8. AsksInTime'
  <2>1. \A o \in Ticks : o + Interval <= clock => o + Interval \in Ticks
    BY <1>1 DEF Ticks
  <2> QED
    BY <2>1, <1>1, <1>6 DEF ProjectorInv, AsksInTime, IsAsked, Rotating
<1>9. AnswersInTime'
  BY <1>1, <1>3, <1>4, <1>5 DEF ProjectorInv, AnswersInTime, Ticks
<1>10. LastAnswered'
  BY <1>1, <1>3, <1>4, <1>5 DEF ProjectorInv, LastAnswered, AnswersInTime, Ticks
<1> QED
  BY <1>7, <1>8, <1>9, <1>10 DEF ProjectorInv

LEMMA RequestIsLost ==
  ASSUME ProjectorInv, NEW t \in Ticks, RequestLost(t) PROVE ProjectorInv'
<1> USE ProjectorNumbers
<1> DEFINE q == [ask[t] EXCEPT !.state = "failed"]
<1>1. /\ ask[t].state \in {"sent", "signed"} /\ UNCHANGED <<clock, meeting, live, shown>>
      /\ ask' = [ask EXCEPT ![t] = q]
      /\ ask[t] \in CodeRequest /\ clock \in Ticks
  BY DEF RequestLost, ProjectorInv, ProjectorTypeOK
<1>2. q \in CodeRequest
  BY <1>1, RequestMoves
<1>3. q.state = "failed" /\ q.answered = ask[t].answered
  BY <1>1 DEF CodeRequest
<1> HIDE DEF q
<1>4. /\ ask' \in [Ticks -> CodeRequest] /\ ask'[t] = q
      /\ \A o \in Ticks \ {t} : ask'[o] = ask[o]
  BY <1>1, <1>2, OneRequestChanges DEF ProjectorInv
<1>5. ask[t].answered = NoCode
  BY <1>1 DEF ProjectorInv, AnswersInTime
<1>6. \A o \in Ticks : /\ ask'[o].state # "unsent" <=> ask[o].state # "unsent"
                       /\ ask'[o].state = "shown" => o # t /\ ask'[o] = ask[o]
                       /\ ask[o].state = "shown" => o # t /\ ask'[o] = ask[o]
  BY <1>1, <1>3, <1>4
<1>7. ProjectorTypeOK'
  BY <1>1, <1>4 DEF ProjectorInv, ProjectorTypeOK
<1>8. AsksInTime'
  <2>1. \A o \in Ticks : o + Interval <= clock => o + Interval \in Ticks
    BY <1>1 DEF Ticks
  <2> QED
    BY <2>1, <1>1, <1>6 DEF ProjectorInv, AsksInTime, IsAsked, Rotating
<1>9. AnswersInTime'
  BY <1>1, <1>3, <1>4, <1>5 DEF ProjectorInv, AnswersInTime
<1>10. LastAnswered'
  BY <1>1, <1>6 DEF ProjectorInv, LastAnswered, ProjectorTypeOK
<1> QED
  BY <1>7, <1>8, <1>9, <1>10 DEF ProjectorInv

LEMMA ProjectorInvHolds == ProjectorSpec => []ProjectorInv
<1>1. ProjectorInv /\ [ProjectorNext]_projectorVars => ProjectorInv'
  <2> SUFFICES ASSUME ProjectorInv, [ProjectorNext]_projectorVars PROVE ProjectorInv'
    OBVIOUS
  <2>1. CASE ProjectorNext
    BY <2>1, PageIsShown, PageStopsRotating, TimePassesAtTheProjector, SessionIsMoved,
       CodeIsSigned, TokenIsShown, RequestIsLost DEF ProjectorNext
  <2>2. CASE UNCHANGED projectorVars
    BY <2>2 DEF projectorVars, ProjectorInv, ProjectorTypeOK, AsksInTime, AnswersInTime,
                LastAnswered, IsAsked, Rotating
  <2> QED
    BY <2>1, <2>2
<1> QED
  BY <1>1, ProjectorStarts, PTL DEF ProjectorSpec

\* A code that has run out is on the screen only if its own request, or one sent
\* since, failed or took longer than the margin (QrDisplay, LiveQr).
THEOREM NoDeadCodeWithoutTrouble == ProjectorSpec => []NoDeadCodeOnScreen
<1> USE ProjectorNumbers
<1>1. ProjectorInv => NoDeadCodeOnScreen
  <2> SUFFICES ASSUME ProjectorInv, shown # NoCode, CodeExpired(shown)
               PROVE  \E t \in shown..clock : Overdue(t)
    BY DEF NoDeadCodeOnScreen
  <2> DEFINE next == shown + Interval
  <2>1. /\ shown \in Ticks /\ shown \in Nat /\ clock \in Nat /\ clock <= LastTick
        /\ ask[shown] \in CodeRequest /\ ask[shown].state = "shown"
    BY DEF ProjectorInv, ProjectorTypeOK, LastAnswered, Ticks
  <2>2. /\ ask[shown].iat \in Int /\ shown <= ask[shown].iat
        /\ ask[shown].answered \in Int
    BY <2>1 DEF ProjectorInv, AnswersInTime, CodeRequest, Ticks, NoCode
  <2>3. shown + CodeLife <= clock
    BY <2>1, <2>2 DEF CodeExpired
  <2>4. /\ next \in shown..clock /\ next \in Ticks /\ next + Margin <= clock
        /\ IsAsked(shown) /\ shown + Margin <= clock /\ next + Margin = shown + CodeLife
    BY <2>1, <2>3 DEF Ticks, Margin, IsAsked
  <2>5. IsAsked(next)
    BY <2>1, <2>4 DEF ProjectorInv, AsksInTime
  <2>6. CASE Overdue(next)
    BY <2>4, <2>6
  <2>7. CASE ~Overdue(next)
    <3>1. ask[next].answered # NoCode /\ ask[next] \in CodeRequest
      BY <2>4, <2>5, <2>7 DEF Overdue, ProjectorInv, ProjectorTypeOK
    <3>2. /\ next <= ask[next].answered /\ ask[next].answered <= ask[shown].answered
          /\ ask[next].answered \in Int
      BY <3>1, <2>4 DEF ProjectorInv, AnswersInTime, LastAnswered, CodeRequest, Ticks, NoCode
    <3>3. ask[shown].answered > shown + Margin
      BY <3>2, <2>1, <2>2 DEF Margin
    <3> QED
      BY <3>3, <2>1, <2>4 DEF Overdue
  <2> QED
    BY <2>6, <2>7
<1> QED
  BY <1>1, ProjectorInvHolds, PTL

-----------------------------------------------------------------------------
(* The figures.  What was counted of a closed session counts for good, so  *)
(* whatever has been read is still true, and covers what stood when the    *)
(* sheet was asked for.                                                    *)

AttendedIsRead == sheet.pc = "done" \/ (sheet.pc = "one count" /\ sheet.first = "attended")
HeldIsRead == sheet.pc = "done" \/ (sheet.pc = "one count" /\ sheet.first = "held")

SheetIsTrue ==
  \A s \in Students :
    /\ sheet.standing[s] \subseteq Counted(s)
    /\ sheet.pc \in {"counts", "one count", "done"} /\ sheet.standing[s] # {} =>
         s \in sheet.roster
    /\ AttendedIsRead => /\ sheet.standing[s] \subseteq sheet.present[s]
                         /\ sheet.present[s] \subseteq Counted(s)
    /\ HeldIsRead => sheet.standing[s] \subseteq sheet.held
    /\ sheet.pc = "done" /\ sheet.first = "attended" => sheet.present[s] \subseteq sheet.held

FiguresInv ==
  FiguresTypeOK /\ SheetIsTrue /\ (sheet.pc = "one count" => sheet.first # "none")

\* What a sheet reads keeps it a sheet.
LEMMA SheetMembership ==
  ASSUME NEW h \in Sheet, NEW p \in {"idle", "cohorts", "attendees", "counts", "one count", "done"},
         NEW r \in SUBSET Students, NEW each \in [Students -> SUBSET SessionIds],
         NEW xs \in SUBSET SessionIds, NEW count \in {"attended", "held"}
  PROVE  /\ NoSheet \in Sheet
         /\ [NoSheet EXCEPT !.pc = p, !.standing = each] \in Sheet
         /\ [h EXCEPT !.pc = p, !.roster = r] \in Sheet
         /\ [h EXCEPT !.pc = p, !.first = count] \in Sheet
         /\ [h EXCEPT !.pc = p] \in Sheet
         /\ [h EXCEPT !.present = each] \in Sheet
         /\ [h EXCEPT !.held = xs] \in Sheet
BY DEF Sheet, NoSheet, Nobody

LEMMA CountsAreOfTheCourse ==
  /\ \A s \in Students : Counted(s) \in SUBSET SessionIds /\ Counted(s) \subseteq Held
  /\ \A s \in Students : Counted(s) \subseteq Attended(s) /\ Counted(s) \subseteq Recorded(s)
  /\ [s \in Students |-> Counted(s)] \in [Students -> SUBSET SessionIds]
  /\ Held \in SUBSET SessionIds
BY DEF Counted, Attended, Recorded, Held

\* No page reopens and no entry changes.
LEMMA CountedForGood ==
  ASSUME BookTypeOK, BookNext
  PROVE  BookTypeOK' /\ \A s \in Students : Counted(s) \subseteq Counted(s)'
<1>1. PICK x \in SessionIds :
        \/ TurnPage(x, "blank", "open")
        \/ TurnPage(x, "open", "closed")
        \/ TurnPage(x, "closed", "settled")
        \/ \E s \in Students : Attend(s, x)
        \/ \E absentees \in SUBSET Students : CallAbsent(x, absentees)
  BY DEF BookNext
<1> USE DEF BookTypeOK, Counted, Attended, Held, IsClosed
<1>2. ASSUME NEW from \in Pages, NEW to \in Pages, TurnPage(x, from, to),
             <<from, to>> \in {<<"blank", "open">>, <<"open", "closed">>, <<"closed", "settled">>}
      PROVE  BookTypeOK' /\ \A s \in Students : Counted(s) \subseteq Counted(s)'
  BY <1>2 DEF TurnPage, Pages
<1>3. ASSUME NEW s \in Students, Attend(s, x)
      PROVE  BookTypeOK' /\ \A o \in Students : Counted(o) \subseteq Counted(o)'
  BY <1>3 DEF Attend, Entries
<1>4. ASSUME NEW absentees \in SUBSET Students, CallAbsent(x, absentees)
      PROVE  BookTypeOK' /\ \A s \in Students : Counted(s) \subseteq Counted(s)'
  BY <1>4 DEF CallAbsent, Entries
<1> QED
  BY <1>1, <1>2, <1>3, <1>4 DEF Pages

LEMMA FiguresStart == FiguresInit => FiguresInv
<1> SUFFICES ASSUME FiguresInit PROVE FiguresInv
  OBVIOUS
<1>1. NoSheet \in Sheet /\ NoSheet.pc = "idle" /\ \A s \in Students : NoSheet.standing[s] = {}
  BY DEF NoSheet, Nobody, Sheet
<1>2. FiguresTypeOK
  BY <1>1 DEF FiguresInit, FiguresTypeOK, BookTypeOK, BookInit, Pages, Entries
<1> QED
  BY <1>1, <1>2 DEF FiguresInit, FiguresInv, SheetIsTrue, AttendedIsRead, HeldIsRead

LEMMA ExportBegins ==
  ASSUME FiguresInv, BeginExport PROVE FiguresInv'
<1> DEFINE h == [NoSheet EXCEPT !.pc = "cohorts", !.standing = [s \in Students |-> Counted(s)]]
<1>1. sheet' = h /\ UNCHANGED <<bookVars, cohort>>
  BY DEF BeginExport, SheetBecomes
<1>2. h \in Sheet
  <2>1. \A e \in [Students -> SUBSET SessionIds] :
          [NoSheet EXCEPT !.pc = "cohorts", !.standing = e] \in Sheet
    BY DEF NoSheet, Nobody, Sheet
  <2> QED
    BY <2>1, CountsAreOfTheCourse
<1>3. h.pc = "cohorts" /\ \A s \in Students : h.standing[s] = Counted(s)
  BY DEF NoSheet
<1> HIDE DEF h
<1>4. \A s \in Students : Counted(s)' = Counted(s)
  BY <1>1 DEF Counted, Attended, Held, IsClosed, bookVars
<1>5. FiguresTypeOK'
  BY <1>1, <1>2 DEF FiguresInv, FiguresTypeOK, BookTypeOK, bookVars
<1> QED
  BY <1>1, <1>3, <1>4, <1>5 DEF FiguresInv, SheetIsTrue, AttendedIsRead, HeldIsRead

LEMMA CohortsAreRead ==
  ASSUME FiguresInv, ReadCohorts PROVE FiguresInv'
<1> DEFINE h == [sheet EXCEPT !.pc = "attendees", !.roster = cohort]
<1>1. sheet' = h /\ UNCHANGED <<bookVars, cohort>>
  BY DEF ReadCohorts, SheetBecomes
<1>2. sheet \in Sheet /\ cohort \in SUBSET Students
  BY DEF FiguresInv, FiguresTypeOK
<1>3. h \in Sheet /\ h.pc = "attendees" /\ h.standing = sheet.standing
  BY <1>2 DEF Sheet
<1> HIDE DEF h
<1>4. \A s \in Students : Counted(s)' = Counted(s)
  BY <1>1 DEF Counted, Attended, Held, IsClosed, bookVars
<1>5. FiguresTypeOK'
  BY <1>1, <1>3 DEF FiguresInv, FiguresTypeOK, BookTypeOK, bookVars
<1> QED
  BY <1>1, <1>3, <1>4, <1>5 DEF FiguresInv, SheetIsTrue, AttendedIsRead, HeldIsRead

LEMMA AttendeesAreRead ==
  ASSUME FiguresInv, ReadAttendees PROVE FiguresInv'
<1> DEFINE r == sheet.roster \union {s \in Students : Recorded(s) # {}}
           h == [sheet EXCEPT !.pc = "counts", !.roster = r]
<1>1. sheet' = h /\ UNCHANGED <<bookVars, cohort>>
  BY DEF ReadAttendees, SheetBecomes
<1>2. sheet \in Sheet /\ r \in SUBSET Students
  BY DEF FiguresInv, FiguresTypeOK, Sheet
<1>3. \A s \in Students : Counted(s) # {} => s \in r
  BY CountsAreOfTheCourse
<1> HIDE DEF r
<1>4. h \in Sheet /\ h.pc = "counts" /\ h.standing = sheet.standing /\ h.roster = r
  BY <1>2 DEF Sheet
<1> HIDE DEF h
<1>5. \A s \in Students : Counted(s)' = Counted(s)
  BY <1>1 DEF Counted, Attended, Held, IsClosed, bookVars
<1>6. FiguresTypeOK'
  BY <1>1, <1>4 DEF FiguresInv, FiguresTypeOK, BookTypeOK, bookVars
<1>7. \A s \in Students : sheet.standing[s] # {} => s \in r
  BY <1>3 DEF FiguresInv, SheetIsTrue
<1> QED
  BY <1>1, <1>4, <1>5, <1>6, <1>7 DEF FiguresInv, SheetIsTrue, AttendedIsRead, HeldIsRead

\* The first of the two counts, or the second.
LEMMA CountMoves ==
  ASSUME sheet \in Sheet, NEW count \in {"attended", "held"}, Reading(count)
  PROVE  /\ Read(count) \in Sheet
         /\ Read(count).standing = sheet.standing /\ Read(count).roster = sheet.roster
         /\ Read(count).present = sheet.present /\ Read(count).held = sheet.held
         /\ \/ sheet.pc = "counts" /\ Read(count).pc = "one count" /\ Read(count).first = count
            \/ /\ sheet.pc = "one count" /\ Read(count).pc = "done"
               /\ Read(count).first = sheet.first /\ sheet.first # count
BY DEF Reading, Read, Sheet

LEMMA AttendedAreCounted ==
  ASSUME FiguresInv, CountAttended PROVE FiguresInv'
<1> DEFINE e == [s \in Students |-> Counted(s)]
           q == Read("attended")
           h == [q EXCEPT !.present = e]
<1>1. Reading("attended") /\ sheet' = h /\ UNCHANGED <<bookVars, cohort>>
  BY DEF CountAttended, SheetBecomes
<1>2. sheet \in Sheet
  BY DEF FiguresInv, FiguresTypeOK
<1>3. /\ q \in Sheet
      /\ q.standing = sheet.standing /\ q.roster = sheet.roster /\ q.held = sheet.held
      /\ \/ sheet.pc = "counts" /\ q.pc = "one count" /\ q.first = "attended"
         \/ /\ sheet.pc = "one count" /\ q.pc = "done"
            /\ q.first = sheet.first /\ sheet.first # "attended"
  BY <1>1, <1>2, CountMoves
<1>4. e \in [Students -> SUBSET SessionIds] /\ \A s \in Students : e[s] = Counted(s)
  BY CountsAreOfTheCourse
<1> HIDE DEF q, e
<1>5. /\ h \in Sheet /\ h.present = e
      /\ h.pc = q.pc /\ h.first = q.first /\ h.standing = q.standing
      /\ h.roster = q.roster /\ h.held = q.held
  BY <1>3, <1>4 DEF Sheet
<1> HIDE DEF h
<1>6. \A s \in Students : Counted(s)' = Counted(s)
  BY <1>1 DEF Counted, Attended, Held, IsClosed, bookVars
<1>7. FiguresTypeOK'
  BY <1>1, <1>5 DEF FiguresInv, FiguresTypeOK, BookTypeOK, bookVars
<1>8. sheet.pc = "one count" /\ sheet.first # "attended" => HeldIsRead
  BY <1>2 DEF FiguresInv, HeldIsRead, Sheet
<1> QED
  BY <1>1, <1>3, <1>4, <1>5, <1>6, <1>7, <1>8 DEF FiguresInv, SheetIsTrue, AttendedIsRead, HeldIsRead

LEMMA HeldAreCounted ==
  ASSUME FiguresInv, CountHeld PROVE FiguresInv'
<1> DEFINE q == Read("held")
           h == [q EXCEPT !.held = Held]
<1>1. Reading("held") /\ sheet' = h /\ UNCHANGED <<bookVars, cohort>>
  BY DEF CountHeld, SheetBecomes
<1>2. sheet \in Sheet
  BY DEF FiguresInv, FiguresTypeOK
<1>3. /\ q \in Sheet
      /\ q.standing = sheet.standing /\ q.roster = sheet.roster /\ q.present = sheet.present
      /\ \/ sheet.pc = "counts" /\ q.pc = "one count" /\ q.first = "held"
         \/ /\ sheet.pc = "one count" /\ q.pc = "done"
            /\ q.first = sheet.first /\ sheet.first # "held"
  BY <1>1, <1>2, CountMoves
<1> HIDE DEF q
<1>5. /\ h \in Sheet /\ h.held = Held
      /\ h.pc = q.pc /\ h.first = q.first /\ h.standing = q.standing
      /\ h.roster = q.roster /\ h.present = q.present
  BY <1>3, CountsAreOfTheCourse DEF Sheet
<1> HIDE DEF h
<1>6. \A s \in Students : Counted(s)' = Counted(s) /\ Counted(s) \subseteq Held
  BY <1>1, CountsAreOfTheCourse DEF Counted, Attended, Held, IsClosed, bookVars
<1>7. FiguresTypeOK'
  BY <1>1, <1>5 DEF FiguresInv, FiguresTypeOK, BookTypeOK, bookVars
<1>8. sheet.pc = "one count" /\ sheet.first # "held" => AttendedIsRead
  BY <1>2 DEF FiguresInv, AttendedIsRead, Sheet
<1> QED
  BY <1>1, <1>3, <1>5, <1>6, <1>7, <1>8 DEF FiguresInv, SheetIsTrue, AttendedIsRead, HeldIsRead

LEMMA OthersMove ==
  ASSUME FiguresInv, BookMoves \/ (\E s \in Students : CohortMoves(s)) \/ UNCHANGED figuresVars
  PROVE  FiguresInv'
<1>1. sheet' = sheet /\ cohort' \subseteq Students
  BY DEF BookMoves, CohortMoves, figuresVars, FiguresInv, FiguresTypeOK
<1>2. BookTypeOK' /\ \A s \in Students : Counted(s) \subseteq Counted(s)'
  <2>1. CASE BookMoves
    BY <2>1, CountedForGood DEF BookMoves, FiguresInv, FiguresTypeOK
  <2>2. CASE UNCHANGED bookVars
    BY <2>2 DEF Counted, Attended, Held, IsClosed, bookVars, FiguresInv, FiguresTypeOK, BookTypeOK
  <2> QED
    BY <2>1, <2>2 DEF CohortMoves, figuresVars
<1> QED
  BY <1>1, <1>2 DEF FiguresInv, FiguresTypeOK, SheetIsTrue, AttendedIsRead, HeldIsRead

LEMMA FiguresInvHolds == FiguresSpec => []FiguresInv
<1>1. FiguresInv /\ [FiguresNext]_figuresVars => FiguresInv'
  BY ExportBegins, CohortsAreRead, AttendeesAreRead, AttendedAreCounted, HeldAreCounted,
     OthersMove DEF FiguresNext
<1> QED
  BY <1>1, FiguresStart, PTL DEF FiguresSpec

\* A finished roster leaves out nobody who counted when it was asked for, says
\* nothing was attended that was not, and counts more attended than held only if
\* the sessions were counted first (student-export, attendance.repository).
THEOREM FiguresAlwaysAddUp == FiguresSpec => []FiguresAddUp
<1>1. FiguresInv => FiguresAddUp
  <2> SUFFICES ASSUME FiguresInv, sheet.pc = "done", NEW s \in Students
               PROVE  /\ sheet.standing[s] # {} => s \in sheet.roster
                      /\ sheet.standing[s] \subseteq sheet.present[s] \intersect sheet.held
                      /\ sheet.present[s] \subseteq Summary(s).attended
                      /\ \A x \in sheet.present[s] : s \in Stats(x).total
                      /\ sheet.first = "attended" => sheet.present[s] \subseteq sheet.held
    BY DEF FiguresAddUp
  <2>1. /\ sheet.standing[s] # {} => s \in sheet.roster
        /\ sheet.standing[s] \subseteq sheet.present[s] \intersect sheet.held
        /\ sheet.present[s] \subseteq Counted(s)
        /\ sheet.first = "attended" => sheet.present[s] \subseteq sheet.held
    BY DEF FiguresInv, SheetIsTrue, AttendedIsRead, HeldIsRead
  <2>2. sheet.present[s] \subseteq Attended(s)
    BY <2>1, CountsAreOfTheCourse
  <2> QED
    BY <2>1, <2>2 DEF Summary, Stats
<1> QED
  BY <1>1, FiguresInvHolds, PTL

-----------------------------------------------------------------------------
(* Who reaches what.  Nothing beyond the types is needed, but they are: a  *)
(* lecturer of the timetable is an instructor, as exporting a course       *)
(* takes for granted.                                                      *)

LEMMA MemberMembership ==
  ASSUME NEW m \in Member, NEW d \in Departments \union {NoDepartment},
         NEW u \in Universities, NEW s \in AnySection
  PROVE  /\ [m EXCEPT !.department = d] \in Member
         /\ [m EXCEPT !.university = u] \in Member
         /\ [m EXCEPT !.waiting = FALSE] \in Member
         /\ [m EXCEPT !.section = s] \in Member
BY DEF Member

LEMMA AppointedMembership ==
  ASSUME NEW c \in Campus, NEW t \in Instructors, NEW s \in AnySection, NEW link \in Link
  PROVE  [c EXCEPT !.appointed[t] = link, !.over[t] = s] \in Campus
BY DEF Campus

LEMMA EnrolledMembership ==
  ASSUME NEW c \in Campus, NEW p \in Undergrads, NEW link \in Link
  PROVE  [c EXCEPT !.enrolled[p] = link] \in Campus
BY DEF Campus

\* One at most opened the session, and one published the link.
OneOfEach(c) == Cardinality(c.operator) <= 1 /\ Cardinality(c.publisher) <= 1

LEMMA OneOfEachAppoints ==
  ASSUME NEW c \in Campus, OneOfEach(c), NEW t \in Instructors, NEW s \in AnySection,
         NEW link \in Link
  PROVE  OneOfEach([c EXCEPT !.appointed[t] = link, !.over[t] = s])
BY DEF OneOfEach, Campus

LEMMA OneOfEachEnrols ==
  ASSUME NEW c \in Campus, OneOfEach(c), NEW p \in Undergrads, NEW link \in Link
  PROVE  OneOfEach([c EXCEPT !.enrolled[p] = link])
BY DEF OneOfEach, Campus

LEMMA ReachTypes == ReachTypeOK <=>
  /\ member \in [Members -> Member] /\ campus \in Campus /\ changes \in 0..MaxChanges
  /\ OneOfEach(campus)
BY DEF ReachTypeOK, OneOfEach

LEMMA ReachStarts == ReachInit => ReachTypeOK
<1> SUFFICES ASSUME ReachInit PROVE ReachTypeOK
  OBVIOUS
<1>1. PICK d \in [Instructors -> {Ours, NoDepartment}], w \in BOOLEAN, s \in AnySection :
       member = [p \in Members |->
         [university |-> Here,
          department |-> CASE p \in Instructors -> d[p]
                           [] Post[p] = "DEPARTMENT_ADMIN" -> Ours
                           [] OTHER -> NoDepartment,
          section |-> IF p \in Undergrads THEN s ELSE NoSection,
          waiting |-> p \in Undergrads /\ w]]
  BY DEF ReachInit
<1>2. PICK t \in Instructors, s0 \in OurCohorts :
       campus = [open |-> TRUE, targets |-> {s0}, operator |-> {},
                 appointed |-> [p \in Instructors |-> "none"],
                 over |-> [p \in Instructors |-> NoSection],
                 enrolled |-> [p \in Undergrads |-> "none"],
                 lecturer |-> t, given |-> TRUE, addressed |-> s0,
                 published |-> FALSE, audience |-> {},
                 publisher |-> {}]
  BY DEF ReachInit
<1>3. member \in [Members -> Member]
  <2>1. ASSUME NEW p \in Members
        PROVE  [university |-> Here,
                department |-> CASE p \in Instructors -> d[p]
                                 [] Post[p] = "DEPARTMENT_ADMIN" -> Ours
                                 [] OTHER -> NoDepartment,
                section |-> IF p \in Undergrads THEN s ELSE NoSection,
                waiting |-> p \in Undergrads /\ w] \in Member
    <3>1. (CASE p \in Instructors -> d[p]
             [] Post[p] = "DEPARTMENT_ADMIN" -> Ours
             [] OTHER -> NoDepartment) \in Departments \union {NoDepartment}
      BY ReachAssumption DEF Instructors
    <3>2. (IF p \in Undergrads THEN s ELSE NoSection) \in AnySection
      BY DEF AnySection
    <3>3. (p \in Undergrads /\ w) \in BOOLEAN
      OBVIOUS
    <3> QED
      BY <3>1, <3>2, <3>3, ReachAssumption DEF Member
  <2> QED
    BY <1>1, <2>1
<1>4. campus \in Campus
  BY <1>2 DEF Campus, Link, AnySection
<1>5. Cardinality({}) <= 1
  <2>1. Cardinality({}) = 0
    BY FS_EmptySet
  <2> QED
    BY <2>1
<1> QED
  BY <1>2, <1>3, <1>4, <1>5, ReachAssumption DEF ReachTypeOK, ReachInit

LEMMA ReachStep ==
  ASSUME ReachTypeOK, [ReachNext]_reachVars PROVE ReachTypeOK'
<1>0. /\ member \in [Members -> Member] /\ campus \in Campus /\ changes \in 0..MaxChanges
      /\ OneOfEach(campus)
  BY ReachTypes
<1>1. SUFFICES ASSUME ReachNext PROVE ReachTypeOK'
  BY <1>0 DEF reachVars, ReachTypeOK
<1>2. changes' \in 0..MaxChanges
  BY <1>0, <1>1, ReachAssumption DEF ReachNext
<1>3. ASSUME UNCHANGED member, campus' \in Campus, OneOfEach(campus')
      PROVE  ReachTypeOK'
  BY <1>0, <1>2, <1>3 DEF ReachTypeOK, OneOfEach
<1>4. ASSUME UNCHANGED campus, NEW p \in Members, NEW row \in Member, MemberBecomes(p, row)
      PROVE  ReachTypeOK'
  BY <1>0, <1>2, <1>4 DEF MemberBecomes, ReachTypeOK, OneOfEach
<1>5. Instructors \subseteq Members /\ Undergrads \subseteq Members /\ NoSection \in AnySection
      /\ OurCohorts \subseteq AnySection /\ "on" \in Link
  BY DEF Instructors, Undergrads, AnySection, Link
<1>6. ASSUME NEW a \in Members, AdminStep(a) PROVE ReachTypeOK'
  <2>1. ASSUME NEW p \in Members, NEW d \in Departments \union {NoDepartment}, SetDepartment(a, p, d)
        PROVE  ReachTypeOK'
    <3>1. [member[p] EXCEPT !.department = d] \in Member
      BY <1>0, <1>5, MemberMembership, ReachAssumption
    <3> QED
      BY <2>1, <3>1, <1>4 DEF SetDepartment, MemberBecomes
  <2>2. ASSUME NEW p \in Members, NEW u \in Universities, SetUniversity(a, p, u)
        PROVE  ReachTypeOK'
    <3>1. [member[p] EXCEPT !.university = u] \in Member
      BY <1>0, <1>5, MemberMembership
    <3> QED
      BY <2>2, <3>1, <1>4 DEF SetUniversity, MemberBecomes
  <2>3. ASSUME NEW targets \in SUBSET OurCohorts, NEW open \in BOOLEAN, Offer(a, targets, open)
        PROVE  ReachTypeOK'
    <3>1. [campus EXCEPT !.targets = targets, !.open = open] \in Campus
      BY <1>0 DEF Campus
    <3>2. OneOfEach([campus EXCEPT !.targets = targets, !.open = open])
      BY <1>0 DEF Campus, OneOfEach
    <3> QED
      BY <2>3, <3>1, <3>2, <1>3 DEF Offer, CampusBecomes
  <2>4. ASSUME NEW t \in Instructors, NEW s \in AnySection, AppointTo(a, t, s)
        PROVE  ReachTypeOK'
    <3>1. /\ [campus EXCEPT !.appointed[t] = "on", !.over[t] = s] \in Campus
          /\ OneOfEach([campus EXCEPT !.appointed[t] = "on", !.over[t] = s])
      BY <1>0, <1>5, AppointedMembership, OneOfEachAppoints
    <3> QED
      BY <2>4, <3>1, <1>3 DEF AppointTo, CampusBecomes
  <2>5. ASSUME NEW t \in Instructors, NEW s \in AnySection, NEW link \in Link, Reappoint(a, t, s, link)
        PROVE  ReachTypeOK'
    <3>1. /\ [campus EXCEPT !.appointed[t] = link, !.over[t] = s] \in Campus
          /\ OneOfEach([campus EXCEPT !.appointed[t] = link, !.over[t] = s])
      BY <1>0, <1>5, AppointedMembership, OneOfEachAppoints
    <3> QED
      BY <2>5, <3>1, <1>3 DEF Reappoint, CampusBecomes
  <2>6. ASSUME NEW t \in Instructors, NEW given \in BOOLEAN, Timetabled(a, t, given)
        PROVE  ReachTypeOK'
    <3>1. /\ [campus EXCEPT !.lecturer = t, !.given = given] \in Campus
          /\ OneOfEach([campus EXCEPT !.lecturer = t, !.given = given])
      BY <1>0 DEF Campus, OneOfEach
    <3> QED
      BY <2>6, <3>1, <1>3 DEF Timetabled, CampusBecomes
  <2>7. ASSUME NEW s \in Undergrads, EnrollIn(a, s) PROVE ReachTypeOK'
    BY <2>7, <1>0, <1>3, <1>5, EnrolledMembership, OneOfEachEnrols DEF EnrollIn, CampusBecomes
  <2>8. ASSUME NEW s \in Undergrads, ApproveMember(a, s) PROVE ReachTypeOK'
    <3>1. [member[s] EXCEPT !.waiting = FALSE] \in Member
      BY <1>0, <1>5 DEF Member
    <3> QED
      BY <2>8, <3>1, <1>4, <1>5 DEF ApproveMember, MemberBecomes
  <2>9. ASSUME NEW s \in Undergrads, NEW link \in Link, SetEnrollment(a, s, link) PROVE ReachTypeOK'
    BY <2>9, <1>0, <1>3, <1>5, EnrolledMembership, OneOfEachEnrols DEF SetEnrollment, CampusBecomes
  <2>10. Cardinality({a}) <= 1
    <3>1. Cardinality({a}) = 1
      BY FS_Singleton
    <3> QED
      BY <3>1
  <2>11. ASSUME OperatesOne(a) PROVE ReachTypeOK'
    <3>1. /\ [campus EXCEPT !.operator = {a}] \in Campus
          /\ OneOfEach([campus EXCEPT !.operator = {a}])
      BY <1>0, <2>10 DEF Campus, OneOfEach
    <3> QED
      BY <2>11, <3>1, <1>3 DEF OperatesOne, CampusBecomes
  <2>12. ASSUME NEW audience \in SUBSET OurCohorts, NEW published \in BOOLEAN,
                Assign(a, published, audience)
         PROVE  ReachTypeOK'
    <3>1. /\ [campus EXCEPT !.published = published, !.audience = audience] \in Campus
          /\ OneOfEach([campus EXCEPT !.published = published, !.audience = audience])
      BY <1>0 DEF Campus, OneOfEach
    <3> QED
      BY <2>12, <3>1, <1>3 DEF Assign, CampusBecomes
  <2>13. ASSUME NEW s \in AnySection, Publish(a, s) PROVE ReachTypeOK'
    <3>1. /\ [campus EXCEPT !.publisher = {a}] \in Campus
          /\ OneOfEach([campus EXCEPT !.publisher = {a}])
      BY <1>0, <2>10 DEF Campus, OneOfEach
    <3> QED
      BY <2>13, <3>1, <1>3 DEF Publish, CampusBecomes
  <2> QED
    BY <1>6, <2>1, <2>2, <2>3, <2>4, <2>5, <2>6, <2>7, <2>8, <2>9, <2>11, <2>12, <2>13
       DEF AdminStep
<1>7. ASSUME NEW s \in Undergrads, UndergradStep(s) PROVE ReachTypeOK'
  <2>1. PICK to \in OurCohorts : Profiled(s, to)
    BY <1>7 DEF UndergradStep
  <2>2. [member[s] EXCEPT !.section = to] \in Member
    BY <1>0, <1>5 DEF Member
  <2> QED
    BY <2>1, <2>2, <1>4, <1>5 DEF Profiled, MemberBecomes
<1> QED
  BY <1>1, <1>6, <1>7 DEF ReachNext

\* Everybody has one post, and a lecturer of the timetable teaches.
LEMMA PostsApart ==
  ASSUME ReachTypeOK, NEW a \in Members
  PROVE  /\ a \in Undergrads <=> Post[a] = "STUDENT"
         /\ a \in Instructors <=> Post[a] = "INSTRUCTOR"
         /\ Post[a] \in Posts
         /\ campus.lecturer \in Instructors
BY ReachAssumption DEF ReachTypeOK, Campus, Undergrads, Instructors

\* What a list shows opens, nothing else does, and who may write to a row may see
\* it, whoever has been moved or appointed meanwhile (session-access, the scopes
\* of the services and repositories).
THEOREM WhatIsListedOpens == ReachSpec => []ListedOpens
<1>1. ReachTypeOK => ListedOpens
  <2> SUFFICES ASSUME ReachTypeOK, NEW a \in Members
               PROVE
    /\ ListsSession(a) <=> CanSeeSession(a) /\ ReadsRoster(a)
    /\ ListsLecture(a) <=> OpensLecture(a)
    /\ ReportsLecture(a) => OpensLecture(a)
    /\ \A s \in OurCohorts : ListsCohort(a, s) /\ ~Astray(a) <=> OpensCohort(a, s)
    /\ ListsOffering(a) <=> OpensOffering(a)
    /\ \A t \in Instructors : ListsAppointment(a, t) <=> OpensAppointment(a, t)
    /\ \A s \in Undergrads : ListsEnrollment(a, s) <=> OpensEnrollment(a, s)
    /\ ListsWork(a) /\ ~Astray(a) /\ a \notin Undergrads <=> ManagesOffering(a)
    /\ OffersChoice(a) /\ ~Astray(a) => ManagesOffering(a)
    /\ ListsLink(a) <=> EditsLink(a)
    /\ \A s \in AnySection :
         /\ OffersAudience(a, s) <=> a \in Instructors /\ MayPublish(a, s)
         /\ OffersAudience(a, s) => OpensLecture(a) /\ OpensCourse(a) /\ OpensOffering(a)
    /\ ListsCourse(a) <=> OpensCourse(a)
    /\ OpensHistory(a) \/ ListsMyCourse(a) \/ CanExportCourse(a) \/ CanManageCourse(a)
         => OpensCourse(a)
    /\ \A s \in Undergrads : ListsPending(a, s) => Reviews(a, s)
    BY DEF ListedOpens
  <2>0. /\ a \in Undergrads <=> Post[a] = "STUDENT"
        /\ a \in Instructors <=> Post[a] = "INSTRUCTOR"
        /\ Post[a] \in Posts
        /\ campus.lecturer \in Instructors
    BY PostsApart
  <2> USE <2>0 DEF Posts, Chief, Dean, OwnDean, Appointed, Enrolled, Admissible, Astray
  <2>1. ListsSession(a) <=> CanSeeSession(a) /\ ReadsRoster(a)
    BY DEF ListsSession, CanSeeSession, ReadsRoster, IsSessionOperator, SeesOnlyOwn
  <2>2. /\ ListsLecture(a) <=> OpensLecture(a)
        /\ ReportsLecture(a) => OpensLecture(a)
    BY DEF ListsLecture, OpensLecture, ReportsLecture, IsSessionOperator
  <2>3. \A s \in OurCohorts : ListsCohort(a, s) /\ ~Astray(a) <=> OpensCohort(a, s)
    BY DEF ListsCohort, OpensCohort, ReadsPeople, SameDepartment
  <2>4. ListsOffering(a) <=> OpensOffering(a)
    BY DEF ListsOffering, OpensOffering, ReadsPeople, SameDepartment
  <2>5. \A t \in Instructors : ListsAppointment(a, t) <=> OpensAppointment(a, t)
    BY DEF ListsAppointment, OpensAppointment, ReadsPeople, SameDepartment
  <2>6. \A s \in Undergrads : ListsEnrollment(a, s) <=> OpensEnrollment(a, s)
    BY DEF ListsEnrollment, OpensEnrollment, ReadsPeople, SameDepartment
  <2>7. /\ ListsWork(a) /\ ~Astray(a) /\ a \notin Undergrads <=> ManagesOffering(a)
        /\ OffersChoice(a) /\ ~Astray(a) => ManagesOffering(a)
    BY DEF ListsWork, ManagesOffering, OffersChoice, SameDepartment
  <2>8. ListsLink(a) <=> EditsLink(a)
    BY DEF ListsLink, EditsLink
  <2>9. ListsCourse(a) <=> OpensCourse(a)
    BY DEF ListsCourse, OpensCourse
  <2>10. OpensHistory(a) \/ ListsMyCourse(a) \/ CanExportCourse(a) \/ CanManageCourse(a)
           => OpensCourse(a)
    BY DEF OpensHistory, ListsMyCourse, CanExportCourse, CanManageCourse, OpensCourse,
           CourseScope, LecturesIt, IsSessionOperator
  <2>11. ASSUME NEW s \in AnySection
         PROVE  /\ OffersAudience(a, s) <=> a \in Instructors /\ MayPublish(a, s)
                /\ OffersAudience(a, s) => OpensLecture(a) /\ OpensCourse(a) /\ OpensOffering(a)
    BY DEF OffersAudience, MayPublish, PublishableScope, LecturesIt, IsSessionOperator,
           OpensLecture, OpensCourse, OpensOffering, CourseScope
  <2>12. \A s \in Undergrads : ListsPending(a, s) => Reviews(a, s)
    BY DEF ListsPending
  <2> QED
    BY <2>1, <2>2, <2>3, <2>4, <2>5, <2>6, <2>7, <2>8, <2>9, <2>10, <2>11, <2>12
<1> QED
  BY <1>1, ReachStarts, ReachStep, PTL DEF ReachSpec
=============================================================================
