------------------------------ MODULE Reminders ------------------------------
(***************************************************************************)
(* Lecture reminders: a generator turns the timetable into PENDING rows, a *)
(* dispatcher claims the ones that are due and delivers them, and staff    *)
(* move, cancel and restore lectures meanwhile.  Every API process runs a  *)
(* generator and a dispatcher; the rows are all they share.                *)
(*                                                                         *)
(* One week, so a lecture has one occurrence.  Each statement that awaits  *)
(* is one action, as in Attendance.  A row's identity is its key and the   *)
(* number of resets before it was written, since only a reset removes      *)
(* rows.  The token of a pass is its worker, and a pass that dies leaves   *)
(* it to nobody (Forgotten).                                               *)
(***************************************************************************)
EXTENDS Integers, FiniteSets

CONSTANTS
  Workers,       \* API processes
  Staff,
  Lectures,
  Rules,         \* REMINDER_RULES, each with its one recipient
  Lead,          \* minutesBefore, of each rule
  Starts,        \* when a lecture may start
  Horizon,       \* horizonMinutes
  LockTimeout, StaleAfter, MaxAttempts,
  BatchSize,
  Generators,    \* the workers whose generation timer is modelled
  PassLimit,     \* environment: the most time that passes during a pass
  MaxTime,       \* bound: the clock stops here
  MaxEdits,      \* bound: changes of the timetable
  MaxFailures    \* bound: what dies half-way, processes, requests, writes

CONSTANTS NoWorker, Forgotten, Nothing

ASSUME RemindersAssumption ==
  /\ Lead \in [Rules -> Nat]
  /\ Starts \subseteq Nat /\ Generators \subseteq Workers
  /\ Workers \intersect {NoWorker, Forgotten} = {} /\ NoWorker # Forgotten
  /\ Horizon \in Nat /\ LockTimeout \in Nat /\ StaleAfter \in Nat
  /\ MaxAttempts \in Nat \ {0} /\ BatchSize \in Nat \ {0}
  /\ PassLimit \in Nat
  /\ MaxTime \in Nat /\ MaxEdits \in Nat /\ MaxFailures \in Nat

\* Environment: a batch is delivered before its lock expires.  The code takes
\* five minutes and a hundred reminders to be enough and enforces neither.
ASSUME PassFitsLock == PassLimit <= LockTimeout

VARIABLES
  now,
  lecture,     \* LectureSchedule rows: [start, active]
  reminder,    \* Notification rows, by their unique key
  drafting,    \* each worker's generation pass
  pass,        \* each worker's dispatcher pass
  request,     \* what each member of staff has in flight
  resets,      \* for each lecture, how often its unsent rows were deleted
  edits, failures

vars == <<now, lecture, reminder, drafting, pass, request, resets, edits,
          failures>>

Never == -1
Slot == [start : Starts, active : BOOLEAN]

Key == [rule : Rules, lecture : Lectures, start : Starts]
Due(k) == k.start - Lead[k.rule]   \* scheduledFor

NoReminder == [status |-> "NONE", made |-> 0, attempts |-> 0,
               lockedAt |-> Never, lockedBy |-> NoWorker]
\* Only a PENDING row is ever locked, and a locked row has been attempted.
Reminder ==
  [status : {"PENDING", "SENT", "FAILED", "CANCELLED"}, made : Nat,
   attempts : Nat, lockedAt : {Never}, lockedBy : {NoWorker}]
  \union
  [status : {"PENDING"}, made : Nat, attempts : Nat \ {0},
   lockedAt : 0..MaxTime, lockedBy : Workers \union {Forgotten}]

\* A claimed row as the pass read it: enough to name it and to retry it.
Claim == [key : Key, made : Nat, attempts : Nat]

Drafting == [time : 0..MaxTime \union {Never},
             todo : SUBSET [lecture : Lectures, start : Starts]]
Pass == [at : {"idle", "find", "claim", "fetch", "deliver", "record"},
         time : 0..MaxTime \union {Never}, ids : SUBSET (Key \X Nat),
         todo : SUBSET Claim, current : Claim \union {Nothing},
         outcome : {"none", "delivered", "rejected", "outage"}]

IdleDrafting == [time |-> Never, todo |-> {}]
IdlePass == [at |-> "idle", time |-> Never, ids |-> {}, todo |-> {},
             current |-> Nothing, outcome |-> "none"]
NoRequest == [at |-> "none", lecture |-> Nothing]

Init ==
  /\ now = 0
  /\ lecture \in [Lectures -> Slot]
  /\ reminder = [k \in Key |-> NoReminder]
  /\ drafting = [w \in Workers |-> IdleDrafting]
  /\ pass = [w \in Workers |-> IdlePass]
  /\ request = [a \in Staff |-> NoRequest]
  /\ resets = [l \in Lectures |-> 0]
  /\ edits = 0 /\ failures = 0

Tick ==
  /\ now < MaxTime
  /\ \A w \in Workers : pass[w].at # "idle" => now < pass[w].time + PassLimit
  /\ now' = now + 1
  /\ UNCHANGED <<lecture, reminder, drafting, pass, request, resets, edits,
                 failures>>

-----------------------------------------------------------------------------
(* LectureNotificationService.generateUpcoming.                            *)

\* `now`, then findActiveForReminders: both are kept for the whole pass.
ReadLectures(w) ==
  /\ w \in Generators /\ drafting[w].todo = {}
  /\ drafting' = [drafting EXCEPT ![w] =
       [time |-> now,
        todo |-> {[lecture |-> l, start |-> lecture[l].start] :
                    l \in {m \in Lectures : lecture[m].active}}]]
  /\ UNCHANGED <<now, lecture, reminder, pass, request, resets, edits, failures>>

\* occurrencesBetween and draftsFor, of one lecture as it was read.
Drafts(lec, time) ==
  {k \in Key : /\ k.lecture = lec.lecture /\ k.start = lec.start
               /\ time < k.start /\ k.start <= time + Horizon
               /\ Due(k) >= time}

Drafted(d, lec) == IF d.todo = {lec} THEN IdleDrafting
                   ELSE [d EXCEPT !.todo = @ \ {lec}]

\* createManyIgnoringDuplicates
WriteReminders(w) ==
  \E lec \in drafting[w].todo :
    /\ reminder' = [k \in Key |->
         IF k \in Drafts(lec, drafting[w].time) /\ reminder[k] = NoReminder
         THEN [NoReminder EXCEPT !.status = "PENDING", !.made = resets[k.lecture]]
         ELSE reminder[k]]
    /\ drafting' = [drafting EXCEPT ![w] = Drafted(@, lec)]
    /\ UNCHANGED <<now, lecture, pass, request, resets, edits, failures>>

-----------------------------------------------------------------------------
(* NotificationDispatcher.tick.                                            *)

Unlocked(r) == [r EXCEPT !.lockedAt = Never, !.lockedBy = NoWorker]
CancelledInPlace(r) == [r EXCEPT !.status = "CANCELLED"]  \* mutant: keeps the lock
Cancelled(r) == Unlocked([r EXCEPT !.status = "CANCELLED"])

Claimable(k, time) ==
  /\ reminder[k].status = "PENDING"
  /\ Due(k) <= time
  /\ \/ reminder[k].lockedAt = Never
     \/ reminder[k].lockedAt < time - LockTimeout

OverdueUnlocked(k, time) ==  \* mutant: leaves a locked row alone
  /\ reminder[k].status = "PENDING" /\ Due(k) < time - StaleAfter
  /\ reminder[k].lockedAt = Never
Overdue(k, time) ==
  reminder[k].status = "PENDING" /\ Due(k) < time - StaleAfter

\* cancelOverdue
StartPass(w) ==
  /\ pass[w].at = "idle"
  /\ reminder' = [k \in Key |->
       IF Overdue(k, now) THEN Cancelled(reminder[k]) ELSE reminder[k]]
  /\ pass' = [pass EXCEPT ![w] = [IdlePass EXCEPT !.at = "find", !.time = now]]
  /\ UNCHANGED <<now, lecture, drafting, request, resets, edits, failures>>

\* The candidates: `limit` rows at most, the longest due first.
IsBatch(keys, time) ==
  LET due == {k \in Key : Claimable(k, time)}
  IN /\ keys \subseteq due /\ Cardinality(keys) <= BatchSize
     /\ \/ keys = due
        \/ /\ Cardinality(keys) = BatchSize
           /\ \A k \in keys, other \in due \ keys : Due(k) <= Due(other)

FindDue(w) ==
  /\ pass[w].at = "find"
  /\ \E keys \in SUBSET Key :
       /\ IsBatch(keys, pass[w].time)
       /\ pass' = [pass EXCEPT ![w] =
            IF keys = {} THEN IdlePass
            ELSE [@ EXCEPT !.at = "claim",
                           !.ids = {<<k, reminder[k].made>> : k \in keys}]]
  /\ UNCHANGED <<now, lecture, reminder, drafting, request, resets, edits,
                 failures>>

\* The UPDATE tests the lock again, on the candidate ids.
TakesUntested(w, k) ==  \* mutant: it does not
  <<k, reminder[k].made>> \in pass[w].ids /\ reminder[k].status = "PENDING"
Takes(w, k) ==
  /\ <<k, reminder[k].made>> \in pass[w].ids
  /\ Claimable(k, pass[w].time)

Taken(r, w, time) ==
  [r EXCEPT !.lockedAt = time, !.lockedBy = w, !.attempts = @ + 1]

ClaimDue(w) ==
  /\ pass[w].at = "claim"
  /\ reminder' = [k \in Key |->
       IF Takes(w, k)
       THEN Taken(reminder[k], w, pass[w].time) ELSE reminder[k]]
  /\ pass' = [pass EXCEPT ![w] = [@ EXCEPT !.at = "fetch", !.ids = {}]]
  /\ UNCHANGED <<now, lecture, drafting, request, resets, edits, failures>>

\* The rows that carry this pass's token.
FetchClaimed(w) ==
  LET won == {k \in Key : /\ reminder[k].lockedBy = w
                          /\ reminder[k].status = "PENDING"}
  IN /\ pass[w].at = "fetch"
     /\ pass' = [pass EXCEPT ![w] =
          IF won = {} THEN IdlePass
          ELSE [@ EXCEPT !.at = "deliver",
                         !.todo = {[key |-> k, made |-> reminder[k].made,
                                    attempts |-> reminder[k].attempts] :
                                     k \in won}]]
     /\ UNCHANGED <<now, lecture, reminder, drafting, request, resets, edits,
                    failures>>

Attempted(p, c, o) ==
  [p EXCEPT !.at = "record", !.current = c, !.outcome = o, !.todo = @ \ {c}]

\* findActiveForUser and push.send: delivered, rejected, or one of them throws.
Send(w) ==
  /\ pass[w].at = "deliver"
  /\ \E c \in pass[w].todo, o \in {"delivered", "rejected", "outage"} :
       pass' = [pass EXCEPT ![w] = Attempted(@, c, o)]
  /\ UNCHANGED <<now, lecture, reminder, drafting, request, resets, edits,
                 failures>>

\* The row a claim names is still there.
Exists(c) == reminder[c.key] # NoReminder /\ reminder[c.key].made = c.made

OnToTheNext(p) ==
  IF p.todo = {} THEN IdlePass
  ELSE [p EXCEPT !.at = "deliver", !.current = Nothing, !.outcome = "none"]

MarkSent(w) ==
  LET c == pass[w].current
  IN /\ pass[w].at = "record" /\ pass[w].outcome = "delivered"
     /\ Exists(c)
     /\ reminder' = [reminder EXCEPT ![c.key] =
          Unlocked([@ EXCEPT !.status = "SENT"])]
     /\ pass' = [pass EXCEPT ![w] = OnToTheNext(@)]
     /\ UNCHANGED <<now, lecture, drafting, request, resets, edits, failures>>

\* markSent throws, inside the try block, because the row is gone or because
\* the database fails: a reminder that was delivered is treated as an outage.
MarkSentThrows(w) ==
  LET c == pass[w].current
  IN /\ pass[w].at = "record" /\ pass[w].outcome = "delivered"
     /\ IF Exists(c) THEN failures < MaxFailures /\ failures' = failures + 1
                     ELSE failures' = failures
     /\ pass' = [pass EXCEPT ![w].outcome = "outage"]
     /\ UNCHANGED <<now, lecture, reminder, drafting, request, resets, edits>>

\* markFailed: by id, whatever the row has become meanwhile.
MarkFailed(w) ==
  LET c == pass[w].current
      giveUp == pass[w].outcome = "rejected" \/ c.attempts >= MaxAttempts
  IN /\ pass[w].at = "record" /\ pass[w].outcome # "delivered"
     /\ Exists(c)
     /\ reminder' = [reminder EXCEPT ![c.key] = Unlocked(
          [@ EXCEPT !.status = IF giveUp THEN "FAILED" ELSE "PENDING"])]
     /\ pass' = [pass EXCEPT ![w] = OnToTheNext(@)]
     /\ UNCHANGED <<now, lecture, drafting, request, resets, edits, failures>>

\* Rows locked with the token of a pass that is over.
TokenForgotten(w) ==
  [k \in Key |-> IF reminder[k].lockedBy = w
                 THEN [reminder[k] EXCEPT !.lockedBy = Forgotten]
                 ELSE reminder[k]]

\* The row is gone, so markFailed throws too: the pass is abandoned, with the
\* rest of its batch locked.
AbandonPass(w) ==
  /\ pass[w].at = "record" /\ pass[w].outcome # "delivered"
  /\ ~Exists(pass[w].current)
  /\ reminder' = TokenForgotten(w)
  /\ pass' = [pass EXCEPT ![w] = IdlePass]
  /\ UNCHANGED <<now, lecture, drafting, request, resets, edits, failures>>

\* The process dies, with both its passes, and starts again.
Crash(w) ==
  /\ failures < MaxFailures
  /\ pass[w] # IdlePass \/ drafting[w] # IdleDrafting
  /\ failures' = failures + 1
  /\ reminder' = TokenForgotten(w)
  /\ pass' = [pass EXCEPT ![w] = IdlePass]
  /\ drafting' = [drafting EXCEPT ![w] = IdleDrafting]
  /\ UNCHANGED <<now, lecture, request, resets, edits>>

-----------------------------------------------------------------------------
(* ScheduleService: the lecture is written, then its reminders follow.     *)

\* Any change, of details other than the hour and `isActive` too.
UpdateSchedule(a) ==
  /\ request[a] = NoRequest /\ edits < MaxEdits
  /\ \E l \in Lectures, slot \in Slot :
       /\ lecture' = [lecture EXCEPT ![l] = slot]
       /\ request' = [request EXCEPT ![a] = [at |-> "reset", lecture |-> l]]
  /\ edits' = edits + 1
  /\ UNCHANGED <<now, reminder, drafting, pass, resets, failures>>

UnsentOrFailed(r) ==  \* mutant: what was given up is rebuilt too
  r.status \in {"PENDING", "CANCELLED", "FAILED"}
Unsent(r) == r.status \in {"PENDING", "CANCELLED"}

\* deleteUnsentForSchedule
ResetForSchedule(a) ==
  LET l == request[a].lecture
  IN /\ request[a].at = "reset"
     /\ reminder' = [k \in Key |->
          IF k.lecture = l /\ Unsent(reminder[k]) THEN NoReminder ELSE reminder[k]]
     /\ resets' = [resets EXCEPT ![l] = @ + 1]
     /\ request' = [request EXCEPT ![a] = NoRequest]
     /\ UNCHANGED <<now, lecture, drafting, pass, edits, failures>>

DeactivateSchedule(a) ==
  /\ request[a] = NoRequest /\ edits < MaxEdits
  /\ \E l \in Lectures :
       /\ lecture[l].active
       /\ lecture' = [lecture EXCEPT ![l].active = FALSE]
       /\ request' = [request EXCEPT ![a] = [at |-> "cancel", lecture |-> l]]
  /\ edits' = edits + 1
  /\ UNCHANGED <<now, reminder, drafting, pass, resets, failures>>

\* cancelPendingForSchedule
CancelForSchedule(a) ==
  LET l == request[a].lecture
  IN /\ request[a].at = "cancel"
     /\ reminder' = [k \in Key |->
          IF k.lecture = l /\ reminder[k].status = "PENDING"
          THEN Cancelled(reminder[k]) ELSE reminder[k]]
     /\ request' = [request EXCEPT ![a] = NoRequest]
     /\ UNCHANGED <<now, lecture, drafting, pass, resets, edits, failures>>

\* The request dies between its two writes.
RequestFails(a) ==
  /\ request[a] # NoRequest /\ failures < MaxFailures
  /\ request' = [request EXCEPT ![a] = NoRequest]
  /\ failures' = failures + 1
  /\ UNCHANGED <<now, lecture, reminder, drafting, pass, resets, edits>>

-----------------------------------------------------------------------------
Deliver(w) ==
  \/ StartPass(w) \/ FindDue(w) \/ ClaimDue(w) \/ FetchClaimed(w) \/ Send(w)
  \/ MarkSent(w) \/ MarkSentThrows(w) \/ MarkFailed(w) \/ AbandonPass(w)

Next ==
  \/ Tick
  \/ \E w \in Workers :
       ReadLectures(w) \/ WriteReminders(w) \/ Deliver(w) \/ Crash(w)
  \/ \E a \in Staff :
       \/ UpdateSchedule(a) \/ ResetForSchedule(a)
       \/ DeactivateSchedule(a) \/ CancelForSchedule(a) \/ RequestFails(a)

Spec == Init /\ [][Next]_vars

\* Time passes and each process's delivery timer keeps firing.
FairSpec == Spec /\ WF_vars(Tick) /\ \A w \in Workers : WF_vars(Deliver(w))

-----------------------------------------------------------------------------
(* Properties.                                                             *)

TypeOK ==
  /\ now \in 0..MaxTime
  /\ lecture \in [Lectures -> Slot]
  /\ reminder \in [Key -> Reminder \union {NoReminder}]
  /\ drafting \in [Workers -> Drafting]
  /\ pass \in [Workers -> Pass]
  /\ request \in [Staff -> [at : {"none", "reset", "cancel"},
                            lecture : Lectures \union {Nothing}]]
  /\ resets \in [Lectures -> Nat]
  /\ edits \in 0..MaxEdits /\ failures \in 0..MaxFailures

\* What a pass has claimed and not yet recorded.
Held(w) ==
  pass[w].todo \union IF pass[w].at = "record" THEN {pass[w].current} ELSE {}

\* "A row is locked to one worker run before anything is sent": what a pass is
\* about to deliver is locked with its token, or was cancelled under it; it was
\* never sent or given up, and no other pass holds it.
ClaimsAreExclusive ==
  \A w \in Workers : \A c \in Held(w) : Exists(c) =>
    /\ \/ reminder[c.key].status = "PENDING" /\ reminder[c.key].lockedBy = w
       \/ reminder[c.key].status = "CANCELLED"
    /\ \A v \in Workers \ {w} : \A d \in Held(v) :
         ~(d.key = c.key /\ d.made = c.made)

\* A reminder that was sent, or given up for good, is history: no worker, edit
\* or cancellation ever sends, revives or removes it.
SettledIsFinal ==
  [][\A k \in Key : reminder[k].status \in {"SENT", "FAILED"}
                      => reminder'[k] = reminder[k]]_vars

\* Once a lecture has been cancelled, none of its reminders waits to be sent
\* (schedule.service.ts 127: "Nobody should be told a cancelled lecture is
\* starting in ten minutes").
NoCallToCancelledLecture ==
  (\A a \in Staff : request[a] = NoRequest) =>
    \A k \in Key : ~lecture[k.lecture].active => reminder[k].status # "PENDING"

\* No reminder waits for ever: whatever dies, and however often delivery fails,
\* each ends up sent, given up or dropped once its window is past.
RemindersSettle ==
  <>[](\A k \in Key : Due(k) + StaleAfter < MaxTime
                        => reminder[k].status # "PENDING")
=============================================================================
