------------------------ MODULE AttendanceRefinement ------------------------
(***************************************************************************)
(* Attendance implements the abstract roll book: each of its steps, seen   *)
(* through Page and Entry, turns one page, enters one scan, enters a set   *)
(* of absences on one page, or is invisible.                               *)
(***************************************************************************)
EXTENDS AttendanceInvariant

\* A session's page is only ever turned forward, one leaf at a time.
LEMMA PageTurns ==
  ASSUME IInv, [Next]_vars, NEW x \in SessionIds
  PROVE  \/ Page(x)' = Page(x)
         \/ Page(x) = "blank" /\ Page(x)' = "open"
         \/ Page(x) = "open" /\ Page(x)' = "closed"
         \/ Page(x) = "closed" /\ Page(x)' = "settled"
<1>1. session[x] \in SessionRow
  BY DEF IInv, TypeOK
<1>2. \/ session[x].status = "NONE"
      \/ session[x].status = "ACTIVE" /\ session[x].sweptAt = Never
      \/ session[x].status = "CLOSED"
  BY <1>1 DEF SessionRow, Unopened, OpenRow, ClosedRow
<1>3. CASE session'[x] = session[x]
  BY <1>3 DEF Page, Rolled
<1>4. CASE IsOpened(x)
  BY <1>4 DEF IsOpened, Page, Rolled
<1>5. CASE IsClosedByHand(x)
  BY <1>2, <1>5 DEF IsClosedByHand, Page, Rolled
<1>6. CASE IsClosedBySweep(x)
  BY <1>2, <1>6 DEF IsClosedBySweep, Page, Rolled
<1>7. CASE IsRolled(x)
  <2>1. session'[x].sweptAt # Never
    BY <1>7, AttendanceAssumption DEF IsRolled, Time, Never
  <2> QED
    BY <1>7, <2>1 DEF IsRolled, Page, Rolled
<1> QED
  BY <1>3, <1>4, <1>5, <1>6, <1>7, SessionUpdate

\* A step that writes a Session row writes one, and no attendance.
LEMMA OneSessionAtATime ==
  ASSUME IInv, [Next]_vars, session' # session
  PROVE  /\ UNCHANGED row
         /\ \E x \in SessionIds :
              \A y \in SessionIds \ {x} : session'[y] = session[y]
<1>1. session \in [SessionIds -> SessionRow]
  BY DEF IInv, TypeOK
<1>2. ASSUME NEW u \in Staff, CreateSession(u)
      PROVE  /\ UNCHANGED row
             /\ \E x \in SessionIds :
                  \A y \in SessionIds \ {x} : session'[y] = session[y]
  BY <1>1, <1>2 DEF CreateSession
<1>3. ASSUME NEW u \in Staff, CloseSession(u)
      PROVE  /\ UNCHANGED row
             /\ \E x \in SessionIds :
                  \A y \in SessionIds \ {x} : session'[y] = session[y]
  <2>1. request[u].session \in SessionIds
    BY <1>3 DEF CloseSession, IInv, RequestsInFlight
  <2> QED
    BY <1>1, <1>3, <2>1 DEF CloseSession
<1>4. ASSUME NEW w \in Workers, CloseStale(w)
      PROVE  /\ UNCHANGED row
             /\ \E x \in SessionIds :
                  \A y \in SessionIds \ {x} : session'[y] = session[y]
  <2>1. PICK e \in sweep[w].stale : session' = CloseIfOpen(e.id, e.endsAt)
    BY <1>4 DEF CloseStale
  <2>2. e.id \in SessionIds
    BY DEF IInv, TypeOK, Sweep
  <2> QED
    BY <1>1, <1>4, <2>1, <2>2 DEF CloseStale, CloseIfOpen
<1>5. ASSUME NEW w \in Workers, MarkRoll(w)
      PROVE  /\ UNCHANGED row
             /\ \E x \in SessionIds :
                  \A y \in SessionIds \ {x} : session'[y] = session[y]
  <2>1. sweep[w].current \in SessionIds
    BY <1>5 DEF MarkRoll, IInv, PassesInFlight, Carries
  <2> QED
    BY <1>1, <1>5, <2>1 DEF MarkRoll, MarkSwept
<1> QED
  BY <1>2, <1>3, <1>4, <1>5, SessionWriters

\* A step that writes attendance enters one scan, or some absences for one
\* closed session.
LEMMA OneSessionsRows ==
  ASSUME IInv, [Next]_vars, row' # row
  PROVE  /\ UNCHANGED session
         /\ \E x \in SessionIds :
              \/ \E s \in Students :
                   /\ session[x].status # "NONE"
                   /\ row[s][x] = NoRow
                   /\ row'[s][x].status \in Attended
                   /\ row' = [row EXCEPT ![s][x] = row'[s][x]]
              \/ /\ session[x].status = "CLOSED"
                 /\ \E missing, at :
                      row' = InsertAbsences(x, missing, at)
<1>1. row \in [Students -> [SessionIds -> AttendanceRow]]
  BY DEF IInv, TypeOK
<1>2. ASSUME NEW s \in Students, InsertAttendance(s)
      PROVE  /\ UNCHANGED session
             /\ \E x \in SessionIds :
                  /\ session[x].status # "NONE"
                  /\ row[s][x] = NoRow
                  /\ row'[s][x].status \in Attended
                  /\ row' = [row EXCEPT ![s][x] = row'[s][x]]
  <2>1. scan[s].session \in SessionIds /\ session[scan[s].session].status # "NONE"
    BY <1>2 DEF InsertAttendance, IInv, ScansInFlight
  <2> QED
    BY <1>1, <1>2, <2>1
    DEF InsertAttendance, ScanStep, Punctuality, Attended
<1>3. ASSUME NEW w \in Workers, WriteAbsences(w)
      PROVE  /\ UNCHANGED session
             /\ \E x \in SessionIds :
                  /\ session[x].status = "CLOSED"
                  /\ \E missing, at : row' = InsertAbsences(x, missing, at)
  BY <1>3 DEF WriteAbsences, IInv, PassesInFlight, Carries
<1> QED
  BY <1>2, <1>3, RowWriters

\* However their statements interleave, staff, students and workers together
\* keep the roll book.
THEOREM KeepsRollBook == Spec => ImplementsRollBook
<1>1. Init => Book!BookInit
  BY DEF Init, Book!BookInit, Page, Entry, Unopened, NoRow
<1>2. IInv /\ [Next]_vars => [Book!BookNext]_(Book!bookVars)
  <2> SUFFICES ASSUME IInv, [Next]_vars
               PROVE  [Book!BookNext]_(Book!bookVars)
    OBVIOUS
  <2> DEFINE page == [x \in SessionIds |-> Page(x)]
             entry == [s \in Students |-> [x \in SessionIds |-> Entry(s, x)]]
  <2>1. CASE session' = session /\ row' = row
    <3>1. page' = page
      BY <2>1 DEF Page, Rolled
    <3>2. entry' = entry
      BY <2>1 DEF Entry
    <3> QED
      BY <3>1, <3>2 DEF Book!bookVars
  <2>2. CASE session' # session
    <3>1. entry' = entry
      BY <2>2, OneSessionAtATime DEF Entry
    <3>2. PICK x \in SessionIds :
            \A y \in SessionIds \ {x} : session'[y] = session[y]
      BY <2>2, OneSessionAtATime
    <3>3. \A y \in SessionIds \ {x} : Page(y)' = Page(y)
      BY <3>2 DEF Page, Rolled
    <3>4. \A to : Page(x)' = to => page' = [page EXCEPT ![x] = to]
      BY <3>3
    <3>5. CASE Page(x)' = Page(x)
      BY <3>1, <3>4, <3>5 DEF Book!bookVars
    <3>6. CASE Page(x) = "blank" /\ Page(x)' = "open"
      BY <3>1, <3>4, <3>6 DEF Book!BookNext, Book!TurnPage
    <3>7. CASE Page(x) = "open" /\ Page(x)' = "closed"
      BY <3>1, <3>4, <3>7 DEF Book!BookNext, Book!TurnPage
    <3>8. CASE Page(x) = "closed" /\ Page(x)' = "settled"
      BY <3>1, <3>4, <3>8 DEF Book!BookNext, Book!TurnPage
    <3> QED
      BY <3>5, <3>6, <3>7, <3>8, PageTurns
  <2>3. CASE row' # row
    <3>1. page' = page
      BY <2>3, OneSessionsRows DEF Page, Rolled
    <3>2. row \in [Students -> [SessionIds -> AttendanceRow]]
      BY DEF IInv, TypeOK
    <3>3. ASSUME NEW x \in SessionIds, NEW s \in Students,
                 session[x].status # "NONE",
                 row[s][x] = NoRow,
                 row'[s][x].status \in Attended,
                 row' = [row EXCEPT ![s][x] = row'[s][x]]
          PROVE  Book!Attend(s, x)
      <4>1. Page(x) # "blank" /\ Entry(s, x) = "none"
        BY <3>3 DEF Page, Entry, NoRow
      <4>2. Entry(s, x)' = "attended"
        BY <3>3 DEF Entry, Attended
      <4>3. \A t \in Students, y \in SessionIds :
              t # s \/ y # x => Entry(t, y)' = Entry(t, y)
        BY <3>2, <3>3 DEF Entry
      <4>4. entry' = [entry EXCEPT ![s][x] = "attended"]
        BY <4>2, <4>3
      <4> QED
        BY <3>1, <4>1, <4>4 DEF Book!Attend
    <3>4. ASSUME NEW x \in SessionIds, NEW missing, NEW at,
                 session[x].status = "CLOSED",
                 row' = InsertAbsences(x, missing, at)
          PROVE  \E absentees \in SUBSET Students :
                   Book!CallAbsent(x, absentees)
      <4> DEFINE absentees == {s \in Students : s \in missing /\ row[s][x] = NoRow}
      <4>1. Page(x) \in {"closed", "settled"}
        BY <3>4 DEF Page
      <4>2. \A s \in absentees : Entry(s, x) = "none"
        BY DEF Entry, NoRow
      <4>3. \A s \in absentees : Entry(s, x)' = "absent"
        BY <3>2, <3>4 DEF InsertAbsences, Entry
      <4>4. \A s \in Students, y \in SessionIds :
              s \notin absentees \/ y # x => Entry(s, y)' = Entry(s, y)
        BY <3>2, <3>4 DEF InsertAbsences, Entry
      <4>5. entry' = [s \in Students |->
                        IF s \in absentees
                          THEN [entry[s] EXCEPT ![x] = "absent"]
                          ELSE entry[s]]
        BY <4>3, <4>4
      <4>6. Book!CallAbsent(x, absentees)
        BY <3>1, <4>1, <4>2, <4>5 DEF Book!CallAbsent
      <4> QED
        BY <4>6
    <3> QED
      BY <2>3, <3>3, <3>4, OneSessionsRows DEF Book!BookNext
  <2> QED
    BY <2>1, <2>2, <2>3
<1> QED
  BY <1>1, <1>2, Inductive, PTL DEF Spec, ImplementsRollBook, Book!BookSpec
=============================================================================
