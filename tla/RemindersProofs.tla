--------------------------- MODULE RemindersProofs ---------------------------
(***************************************************************************)
(* However many processes deliver reminders, while staff move and cancel   *)
(* lectures and processes die, as long as a pass fits its lock: a claim is *)
(* exclusive, and what was sent or given up stays so.                      *)
(***************************************************************************)
EXTENDS Reminders, TLAPS

\* A pass is never older than PassLimit.
Timely ==
  \A w \in Workers : pass[w].at # "idle" =>
    /\ pass[w].time \in Nat
    /\ pass[w].time <= now /\ now <= pass[w].time + PassLimit

\* Claims are held while delivering only, one for a row, each is taken off the
\* list before it is recorded, and it names a row that is there or that a reset
\* deleted.
ClaimsAreKnown ==
  \A w \in Workers :
    /\ pass[w].at \notin {"deliver", "record"} => pass[w].todo = {}
    /\ pass[w].at = "record" => pass[w].current \in Claim \ pass[w].todo
    /\ \A c, d \in Held(w) : c.key = d.key => c = d
    /\ \A c \in Held(w) : Exists(c) \/ c.made < resets[c.key.lecture]

\* No row was written after the last reset of its lecture.
RowsAreCounted == \A k \in Key : reminder[k].made <= resets[k.lecture]

\* A row locked with the token of a live pass was locked by that pass, which
\* has it on its list or is about to read it.
LocksAreHeld ==
  \A w \in Workers, k \in Key : reminder[k].lockedBy = w =>
    /\ pass[w].at \in {"fetch", "deliver", "record"}
    /\ reminder[k].lockedAt = pass[w].time
    /\ pass[w].at = "fetch"
         \/ \E c \in Held(w) : c.key = k /\ c.made = reminder[k].made

Inv ==
  /\ TypeOK /\ Timely /\ RowsAreCounted
  /\ ClaimsAreKnown /\ LocksAreHeld /\ ClaimsAreExclusive

Row == Reminder \union {NoReminder}
Status == {"PENDING", "SENT", "FAILED", "CANCELLED"}

-----------------------------------------------------------------------------
(* What the writes make of a row.                                          *)

LEMMA RowFields ==
  ASSUME NEW r \in Row
  PROVE  /\ r.status \in Status \union {"NONE"}
         /\ r.made \in Nat /\ r.attempts \in Nat
         /\ r.lockedAt = Never \/ r.lockedAt \in 0..MaxTime
         /\ r.lockedBy \in Workers \union {NoWorker, Forgotten}
         /\ r.lockedBy # NoWorker <=> r.lockedAt # Never
         /\ r.lockedBy # NoWorker => r.status = "PENDING"
         /\ r = NoReminder <=> r.status = "NONE"
BY RemindersAssumption DEF Row, Status, Reminder, NoReminder, Never

LEMMA UnlockedRow ==
  ASSUME NEW r \in Reminder, NEW st \in Status
  PROVE  LET u == Unlocked([r EXCEPT !.status = st])
         IN /\ u \in Reminder
            /\ u.status = st /\ u.made = r.made
            /\ u.lockedBy = NoWorker /\ u.lockedAt = Never
BY DEF Unlocked, Reminder, Status, Never

LEMMA CancelledRow ==
  ASSUME NEW r \in Reminder
  PROVE  /\ Cancelled(r) \in Reminder
         /\ Cancelled(r).status = "CANCELLED" /\ Cancelled(r).made = r.made
         /\ Cancelled(r).lockedBy = NoWorker
BY UnlockedRow DEF Cancelled, Status

LEMMA DraftedRow ==
  ASSUME NEW n \in Nat
  PROVE  LET d == [NoReminder EXCEPT !.status = "PENDING", !.made = n]
         IN /\ d \in Reminder
            /\ d.status = "PENDING" /\ d.made = n /\ d.lockedBy = NoWorker
BY DEF NoReminder, Reminder, Never

LEMMA TakenRow ==
  ASSUME NEW r \in Reminder, r.status = "PENDING", NEW w \in Workers,
         NEW t \in 0..MaxTime
  PROVE  LET u == Taken(r, w, t)
         IN /\ u \in Reminder
            /\ u.status = "PENDING" /\ u.made = r.made
            /\ u.lockedBy = w /\ u.lockedAt = t
<1> DEFINE u == Taken(r, w, t)
           Wide == [status : Status, made : Nat, attempts : Nat,
                    lockedAt : 0..MaxTime \union {Never},
                    lockedBy : Workers \union {NoWorker, Forgotten}]
<1>1. r \in Wide
  BY DEF Reminder, Status
<1>2. r.attempts + 1 \in Nat \ {0}
  BY <1>1
<1>3. u \in [status : {"PENDING"}, made : Nat, attempts : Nat \ {0},
             lockedAt : 0..MaxTime, lockedBy : Workers \union {Forgotten}]
  BY <1>1, <1>2, Zenon DEF Taken
<1>4. /\ u.status = "PENDING" /\ u.made = r.made
      /\ u.lockedBy = w /\ u.lockedAt = t
  BY <1>1, <1>2, Zenon DEF Taken
<1> QED
  BY <1>3, <1>4 DEF Reminder

LEMMA ForgottenRow ==
  ASSUME NEW r \in Reminder, r.lockedBy \in Workers
  PROVE  LET u == [r EXCEPT !.lockedBy = Forgotten]
         IN /\ u \in Reminder
            /\ u.status = r.status /\ u.made = r.made
            /\ u.lockedBy = Forgotten
BY RemindersAssumption DEF Reminder, Never
-----------------------------------------------------------------------------
(* Each step keeps the invariant.                                          *)

LEMMA HeldSame ==
  ASSUME NEW w, pass'[w] = pass[w]
  PROVE  Held(w)' = Held(w)
BY DEF Held

LEMMA HeldClaims ==
  ASSUME TypeOK, ClaimsAreKnown, NEW w \in Workers, NEW c \in Held(w)
  PROVE  c \in Claim /\ c.key \in Key /\ c.made \in Nat
BY DEF TypeOK, ClaimsAreKnown, Held, Pass, Claim

LEMMA InitInv == Init => Inv
<1> SUFFICES ASSUME Init PROVE Inv
  OBVIOUS
<1>1. IdlePass \in Pass
  BY Zenon DEF IdlePass, Pass, Claim
<1>2. IdleDrafting \in Drafting
  BY DEF IdleDrafting, Drafting
<1>3. NoRequest \in [at : {"none", "reset", "cancel"},
                    lecture : Lectures \union {Nothing}]
  BY DEF NoRequest
<1>4. TypeOK
  BY <1>1, <1>2, <1>3, RemindersAssumption DEF Init, TypeOK
<1>5. \A w \in Workers : /\ pass[w].at = "idle" /\ pass[w].todo = {}
                         /\ Held(w) = {}
  BY DEF Init, IdlePass, Held
<1>6. \A k \in Key : reminder[k].lockedBy = NoWorker
  BY DEF Init, NoReminder
<1>7. Timely /\ ClaimsAreKnown /\ ClaimsAreExclusive
  BY <1>5 DEF Timely, ClaimsAreKnown, ClaimsAreExclusive
<1>8. LocksAreHeld
  BY <1>6, RemindersAssumption DEF LocksAreHeld
<1>9. RowsAreCounted
  BY DEF Init, RowsAreCounted, NoReminder, Key
<1> QED
  BY <1>9, <1>4, <1>7, <1>8 DEF Inv

\* Generation reads, timetable writes and requests that die leave the rows and
\* the passes alone.
LEMMA OthersKeep ==
  ASSUME Inv, TypeOK', now' = now, reminder' = reminder, pass' = pass,
         resets' = resets
  PROVE  Inv'
<1>1. \A w \in Workers : Held(w)' = Held(w)
  BY HeldSame
<1>2. \A c : Exists(c)' = Exists(c)
  BY DEF Exists
<1>3. Timely'
  BY DEF Inv, Timely
<1>4. ClaimsAreKnown'
  BY <1>1, <1>2 DEF Inv, ClaimsAreKnown
<1>5. LocksAreHeld'
  BY <1>1 DEF Inv, LocksAreHeld
<1>6. ClaimsAreExclusive'
  BY <1>1, <1>2 DEF Inv, ClaimsAreExclusive
<1>7. RowsAreCounted'
  BY DEF Inv, RowsAreCounted
<1> QED
  BY <1>7, <1>3, <1>4, <1>5, <1>6 DEF Inv

LEMMA TickKeeps == Inv /\ Tick => Inv'
<1> SUFFICES ASSUME Inv, Tick PROVE Inv'
  OBVIOUS
<1>1. \A w \in Workers : Held(w)' = Held(w)
  BY HeldSame DEF Tick
<1>2. \A c : Exists(c)' = Exists(c)
  BY DEF Exists, Tick
<1>3. TypeOK'
  BY RemindersAssumption DEF Inv, TypeOK, Tick
<1>4. Timely'
  BY RemindersAssumption DEF Inv, Timely, Tick, TypeOK
<1>5. ClaimsAreKnown'
  BY <1>1, <1>2 DEF Inv, ClaimsAreKnown, Tick
<1>6. LocksAreHeld'
  BY <1>1 DEF Inv, LocksAreHeld, Tick
<1>7. ClaimsAreExclusive'
  BY <1>1, <1>2 DEF Inv, ClaimsAreExclusive, Tick
<1>8. RowsAreCounted'
  BY DEF Inv, RowsAreCounted, Tick
<1> QED
  BY <1>8, <1>3, <1>4, <1>5, <1>6, <1>7 DEF Inv

\* A row drafted in a free cell is younger than any claim on that key.
LEMMA WriteKeeps ==
  ASSUME Inv, NEW w \in Workers, WriteReminders(w)
  PROVE  Inv'
<1>1. PICK lec \in drafting[w].todo :
        /\ reminder' = [k \in Key |->
             IF k \in Drafts(lec, drafting[w].time) /\ reminder[k] = NoReminder
             THEN [NoReminder EXCEPT !.status = "PENDING", !.made = resets[k.lecture]]
             ELSE reminder[k]]
        /\ drafting' = [drafting EXCEPT ![w] = Drafted(@, lec)]
        /\ UNCHANGED <<now, lecture, pass, request, resets, edits, failures>>
  BY DEF WriteReminders
<1>2. \A k \in Key : resets[k.lecture] \in Nat
  BY DEF Inv, TypeOK, Key
<1>3. \A k \in Key :
        \/ reminder'[k] = reminder[k]
        \/ /\ reminder[k] = NoReminder
           /\ reminder'[k] \in Reminder /\ reminder'[k].status = "PENDING"
           /\ reminder'[k].made = resets[k.lecture]
           /\ reminder'[k].lockedBy = NoWorker
  BY <1>1, <1>2, DraftedRow
<1>4. TypeOK'
  <2>1. reminder' \in [Key -> Reminder \union {NoReminder}]
    BY <1>1, <1>3 DEF Inv, TypeOK
  <2>2. drafting' \in [Workers -> Drafting]
    <3>1. IdleDrafting \in Drafting
      BY DEF IdleDrafting, Drafting
    <3>2. [drafting[w] EXCEPT !.todo = @ \ {lec}] \in Drafting
      BY Zenon DEF Inv, TypeOK, Drafting
    <3>3. Drafted(drafting[w], lec) \in Drafting
      BY <3>1, <3>2 DEF Drafted
    <3> QED
      BY <1>1, <3>3 DEF Inv, TypeOK
  <2> QED
    BY <1>1, <2>1, <2>2 DEF Inv, TypeOK
<1>5. \A v \in Workers : Held(v)' = Held(v)
  BY <1>1, HeldSame
<1>6. \A v \in Workers : \A c \in Held(v) :
        /\ Exists(c) => Exists(c)' /\ reminder'[c.key] = reminder[c.key]
        /\ ~Exists(c) => ~Exists(c)'
  <2> SUFFICES ASSUME NEW v \in Workers, NEW c \in Held(v)
               PROVE  /\ Exists(c) => Exists(c)' /\ reminder'[c.key] = reminder[c.key]
                      /\ ~Exists(c) => ~Exists(c)'
    OBVIOUS
  <2>1. c.key \in Key /\ c.made \in Nat
    BY HeldClaims DEF Inv
  <2>2. CASE reminder'[c.key] = reminder[c.key]
    BY <2>2 DEF Exists
  <2>3. CASE reminder'[c.key] # reminder[c.key]
    <3>1. reminder[c.key] = NoReminder /\ reminder'[c.key].made = resets[c.key.lecture]
      BY <1>3, <2>1, <2>3
    <3>2. ~Exists(c)
      BY <3>1 DEF Exists
    <3>3. c.made < resets[c.key.lecture]
      BY <3>2 DEF Inv, ClaimsAreKnown
    <3>4. ~Exists(c)'
      BY <1>2, <2>1, <3>1, <3>3 DEF Exists
    <3> QED
      BY <3>2, <3>4
  <2> QED
    BY <2>2, <2>3
<1>7. Timely'
  BY <1>1 DEF Inv, Timely
<1>8. ClaimsAreKnown'
  <2>1. pass' = pass /\ resets' = resets
    BY <1>1
  <2>2. \A v \in Workers : \A c \in Held(v) : Exists(c)' <=> Exists(c)
    BY <1>6
  <2> QED
    BY <1>5, <2>1, <2>2 DEF Inv, ClaimsAreKnown
<1>9. LocksAreHeld'
  <2>1. \A v \in Workers, k \in Key :
          reminder'[k].lockedBy = v => reminder'[k] = reminder[k]
    BY <1>3, RemindersAssumption
  <2>2. pass' = pass
    BY <1>1
  <2> QED
    BY <1>5, <2>1, <2>2 DEF Inv, LocksAreHeld
<1>10. ClaimsAreExclusive'
  BY <1>5, <1>6 DEF Inv, ClaimsAreExclusive
<1>11. RowsAreCounted'
  <2>1. resets' = resets
    BY <1>1
  <2> QED
    BY <1>2, <1>3, <2>1 DEF Inv, RowsAreCounted
<1> QED
  BY <1>11, <1>4, <1>7, <1>8, <1>9, <1>10 DEF Inv

\* Cancelling rows, and passes that have claimed nothing yet, disturb no claim.
LEMMA CancellingKeeps ==
  ASSUME Inv, TypeOK', Timely', resets' = resets,
         \A w \in Workers :
           \/ pass'[w] = pass[w]
           \/ /\ pass[w].at \in {"idle", "find"}
              /\ pass'[w].at \in {"idle", "find", "claim"} /\ pass'[w].todo = {},
         \A k \in Key :
           \/ reminder'[k] = reminder[k]
           \/ /\ reminder[k].status = "PENDING"
              /\ reminder'[k].status = "CANCELLED"
              /\ reminder'[k].made = reminder[k].made
              /\ reminder'[k].lockedBy = NoWorker
  PROVE  Inv'
<1>1. \A w \in Workers : Held(w)' = Held(w)
  <2> SUFFICES ASSUME NEW w \in Workers PROVE Held(w)' = Held(w)
    OBVIOUS
  <2>1. CASE pass'[w] = pass[w]
    BY <2>1, HeldSame
  <2>2. CASE /\ pass[w].at \in {"idle", "find"}
             /\ pass'[w].at \in {"idle", "find", "claim"} /\ pass'[w].todo = {}
    BY <2>2 DEF Inv, ClaimsAreKnown, Held
  <2> QED
    BY <2>1, <2>2
<1>2. \A c : c.key \in Key => (Exists(c)' <=> Exists(c))
  BY DEF Exists, NoReminder
<1>3. \A w \in Workers : \A c \in Held(w) : c.key \in Key
  BY HeldClaims DEF Inv
<1>4. ClaimsAreKnown'
  <2> SUFFICES ASSUME NEW w \in Workers
               PROVE  /\ pass'[w].at \notin {"deliver", "record"} => pass'[w].todo = {}
                      /\ pass'[w].at = "record" => pass'[w].current \in Claim \ pass'[w].todo
                      /\ \A c, d \in Held(w) : c.key = d.key => c = d
                      /\ \A c \in Held(w) :
                           Exists(c)' \/ c.made < resets[c.key.lecture]
    BY <1>1 DEF ClaimsAreKnown
  <2>1. /\ pass'[w].at \notin {"deliver", "record"} => pass'[w].todo = {}
        /\ pass'[w].at = "record" => pass'[w].current \in Claim \ pass'[w].todo
    BY DEF Inv, ClaimsAreKnown
  <2> QED
    BY <1>2, <1>3, <2>1 DEF Inv, ClaimsAreKnown
<1>5. LocksAreHeld'
  <2> SUFFICES ASSUME NEW w \in Workers, NEW k \in Key, reminder'[k].lockedBy = w
               PROVE  /\ pass'[w].at \in {"fetch", "deliver", "record"}
                      /\ reminder'[k].lockedAt = pass'[w].time
                      /\ pass'[w].at = "fetch"
                           \/ \E c \in Held(w) : c.key = k /\ c.made = reminder'[k].made
    BY <1>1 DEF LocksAreHeld
  <2>1. reminder'[k] = reminder[k]
    BY RemindersAssumption
  <2>2. pass[w].at \in {"fetch", "deliver", "record"}
    BY <2>1 DEF Inv, LocksAreHeld
  <2>3. pass'[w] = pass[w]
    BY <2>2
  <2> QED
    BY <2>1, <2>3 DEF Inv, LocksAreHeld
<1>6. ClaimsAreExclusive'
  <2> SUFFICES ASSUME NEW w \in Workers, NEW c \in Held(w), Exists(c)'
               PROVE  /\ \/ reminder'[c.key].status = "PENDING" /\ reminder'[c.key].lockedBy = w
                         \/ reminder'[c.key].status = "CANCELLED"
                      /\ \A v \in Workers \ {w} : \A d \in Held(v) :
                           ~(d.key = c.key /\ d.made = c.made)
    BY <1>1 DEF ClaimsAreExclusive
  <2>1. Exists(c) /\ c.key \in Key
    BY <1>2, <1>3
  <2> QED
    BY <2>1 DEF Inv, ClaimsAreExclusive
<1>7. RowsAreCounted'
  BY DEF Inv, RowsAreCounted
<1> QED
  BY <1>7, <1>4, <1>5, <1>6 DEF Inv

LEMMA CancelledRows ==
  ASSUME TypeOK, NEW K \in SUBSET Key, \A k \in K : reminder[k].status = "PENDING",
         reminder' = [k \in Key |-> IF k \in K THEN Cancelled(reminder[k])
                                    ELSE reminder[k]]
  PROVE  /\ reminder' \in [Key -> Reminder \union {NoReminder}]
         /\ \A k \in Key :
              \/ reminder'[k] = reminder[k]
              \/ /\ reminder[k].status = "PENDING"
                 /\ reminder'[k].status = "CANCELLED"
                 /\ reminder'[k].made = reminder[k].made
                 /\ reminder'[k].lockedBy = NoWorker
<1>1. \A k \in K : reminder[k] \in Reminder
  BY DEF TypeOK, NoReminder
<1>2. \A k \in K : /\ Cancelled(reminder[k]) \in Reminder
                   /\ Cancelled(reminder[k]).status = "CANCELLED"
                   /\ Cancelled(reminder[k]).made = reminder[k].made
                   /\ Cancelled(reminder[k]).lockedBy = NoWorker
  BY <1>1, CancelledRow
<1>3. \A k \in Key : reminder'[k] = IF k \in K THEN Cancelled(reminder[k])
                                     ELSE reminder[k]
  OBVIOUS
<1>4. \A k \in Key : reminder'[k] \in Reminder \union {NoReminder}
  BY <1>2, <1>3 DEF TypeOK
<1> QED
  BY <1>2, <1>3, <1>4

LEMMA StartKeeps ==
  ASSUME Inv, NEW w \in Workers, StartPass(w)
  PROVE  Inv'
<1> DEFINE p == [IdlePass EXCEPT !.at = "find", !.time = now]
           K == {k \in Key : Overdue(k, now)}
<1>1. p \in Pass /\ p.at = "find" /\ p.todo = {} /\ p.time = now
  <2>1. now \in 0..MaxTime \union {Never}
    BY DEF Inv, TypeOK
  <2> QED
    BY <2>1, Zenon DEF IdlePass, Pass
<1>2. pass' = [pass EXCEPT ![w] = p] /\ pass[w].at = "idle"
  BY DEF StartPass
<1> HIDE DEF p
<1>3. reminder' = [k \in Key |-> IF k \in K THEN Cancelled(reminder[k]) ELSE reminder[k]]
  BY DEF StartPass
<1>4. \A k \in K : reminder[k].status = "PENDING"
  BY DEF Overdue
<1>5. /\ reminder' \in [Key -> Reminder \union {NoReminder}]
      /\ \A k \in Key :
           \/ reminder'[k] = reminder[k]
           \/ /\ reminder[k].status = "PENDING"
              /\ reminder'[k].status = "CANCELLED"
              /\ reminder'[k].made = reminder[k].made
              /\ reminder'[k].lockedBy = NoWorker
  BY <1>3, <1>4, CancelledRows DEF Inv
<1>6. \A v \in Workers : pass'[v] = IF v = w THEN p ELSE pass[v]
  BY <1>2 DEF Inv, TypeOK
<1>7. TypeOK'
  BY <1>1, <1>2, <1>5 DEF Inv, TypeOK, StartPass
<1>8. now' = now /\ resets' = resets
  BY DEF StartPass
<1>9. Timely'
  BY <1>1, <1>6, <1>8, RemindersAssumption DEF Inv, Timely, TypeOK
<1>10. \A v \in Workers :
         \/ pass'[v] = pass[v]
         \/ /\ pass[v].at \in {"idle", "find"}
            /\ pass'[v].at \in {"idle", "find", "claim"} /\ pass'[v].todo = {}
  BY <1>1, <1>2, <1>6
<1> QED
  BY <1>5, <1>7, <1>8, <1>9, <1>10, CancellingKeeps

LEMMA CancelKeeps ==
  ASSUME Inv, NEW a \in Staff, CancelForSchedule(a)
  PROVE  Inv'
<1> DEFINE K == {k \in Key : /\ k.lecture = request[a].lecture
                             /\ reminder[k].status = "PENDING"}
<1>1. reminder' = [k \in Key |-> IF k \in K THEN Cancelled(reminder[k]) ELSE reminder[k]]
  BY DEF CancelForSchedule
<1>2. /\ reminder' \in [Key -> Reminder \union {NoReminder}]
      /\ \A k \in Key :
           \/ reminder'[k] = reminder[k]
           \/ /\ reminder[k].status = "PENDING"
              /\ reminder'[k].status = "CANCELLED"
              /\ reminder'[k].made = reminder[k].made
              /\ reminder'[k].lockedBy = NoWorker
  BY <1>1, CancelledRows DEF Inv
<1>3. NoRequest \in [at : {"none", "reset", "cancel"},
                    lecture : Lectures \union {Nothing}]
  BY DEF NoRequest
<1>4. TypeOK'
  BY <1>2, <1>3 DEF Inv, TypeOK, CancelForSchedule
<1>5. Timely'
  BY DEF Inv, Timely, CancelForSchedule
<1>6. resets' = resets /\ \A w \in Workers : pass'[w] = pass[w]
  BY DEF CancelForSchedule
<1> QED
  BY <1>2, <1>4, <1>5, <1>6, CancellingKeeps

LEMMA FindKeeps ==
  ASSUME Inv, NEW w \in Workers, FindDue(w)
  PROVE  Inv'
<1>1. PICK keys \in SUBSET Key :
        pass' = [pass EXCEPT ![w] =
          IF keys = {} THEN IdlePass
          ELSE [pass[w] EXCEPT !.at = "claim",
                               !.ids = {<<k, reminder[k].made>> : k \in keys}]]
  BY DEF FindDue
<1> DEFINE p == IF keys = {} THEN IdlePass
                ELSE [pass[w] EXCEPT !.at = "claim",
                                     !.ids = {<<k, reminder[k].made>> : k \in keys}]
<1>2. /\ pass[w].at = "find" /\ reminder' = reminder /\ resets' = resets
      /\ UNCHANGED <<now, lecture, drafting, request, edits, failures>>
  BY DEF FindDue
<1>3. /\ p \in Pass /\ p.at \in {"idle", "claim"} /\ p.todo = {}
      /\ p.at # "idle" => p.time = pass[w].time
  <2>1. CASE keys = {}
    <3>1. IdlePass \in Pass /\ IdlePass.at = "idle" /\ IdlePass.todo = {}
      BY Zenon DEF IdlePass, Pass
    <3> QED
      BY <2>1, <3>1
  <2>2. CASE keys # {}
    <3>1. {<<k, reminder[k].made>> : k \in keys} \in SUBSET (Key \X Nat)
      BY RowFields DEF Inv, TypeOK, Row
    <3>2. pass[w] \in Pass /\ pass[w].todo = {}
      BY <1>2 DEF Inv, TypeOK, ClaimsAreKnown
    <3> DEFINE q == [pass[w] EXCEPT !.at = "claim",
                       !.ids = {<<k, reminder[k].made>> : k \in keys}]
    <3>3. q \in Pass /\ q.at = "claim" /\ q.todo = pass[w].todo /\ q.time = pass[w].time
      BY <3>1, <3>2, Zenon DEF Pass
    <3> QED
      BY <2>2, <3>2, <3>3
  <2> QED
    BY <2>1, <2>2
<1>4. pass' = [pass EXCEPT ![w] = p]
  BY <1>1
<1> HIDE DEF p
<1>5. \A v \in Workers : pass'[v] = IF v = w THEN p ELSE pass[v]
  BY <1>4 DEF Inv, TypeOK
<1>6. TypeOK'
  BY <1>2, <1>3, <1>4 DEF Inv, TypeOK
<1>7. Timely'
  BY <1>2, <1>3, <1>5 DEF Inv, Timely
<1>8. \A v \in Workers :
         \/ pass'[v] = pass[v]
         \/ /\ pass[v].at \in {"idle", "find"}
            /\ pass'[v].at \in {"idle", "find", "claim"} /\ pass'[v].todo = {}
  BY <1>2, <1>3, <1>5
<1>9. \A k \in Key : reminder'[k] = reminder[k]
  BY <1>2
<1> QED
  BY <1>2, <1>6, <1>7, <1>8, <1>9, CancellingKeeps

\* Sending, and an outage after a delivery, change neither rows nor claims.
LEMMA SameClaimsKeep ==
  ASSUME Inv, NEW w \in Workers, NEW p \in Pass,
         pass' = [pass EXCEPT ![w] = p],
         UNCHANGED <<now, lecture, reminder, drafting, request, resets, edits>>,
         failures' \in 0..MaxFailures,
         pass[w].at \in {"deliver", "record"}, p.at = "record",
         p.time = pass[w].time,
         p.current \in Claim \ p.todo,
         p.todo \union {p.current} = Held(w)
  PROVE  Inv'
<1>1. \A v \in Workers : pass'[v] = IF v = w THEN p ELSE pass[v]
  BY DEF Inv, TypeOK
<1>2. \A v \in Workers : Held(v)' = Held(v)
  BY <1>1 DEF Held
<1>3. \A c : Exists(c)' = Exists(c)
  BY DEF Exists
<1>4. TypeOK'
  BY DEF Inv, TypeOK
<1>5. Timely'
  BY <1>1 DEF Inv, Timely
<1>6. ClaimsAreKnown'
  BY <1>1, <1>2, <1>3 DEF Inv, ClaimsAreKnown
<1>7. LocksAreHeld'
  <2> SUFFICES ASSUME NEW v \in Workers, NEW k \in Key, reminder[k].lockedBy = v
               PROVE  /\ pass'[v].at \in {"fetch", "deliver", "record"}
                      /\ reminder[k].lockedAt = pass'[v].time
                      /\ pass'[v].at = "fetch"
                           \/ \E c \in Held(v) : c.key = k /\ c.made = reminder[k].made
    BY <1>2 DEF LocksAreHeld
  <2>1. CASE v = w
    BY <1>1, <2>1 DEF Inv, LocksAreHeld
  <2>2. CASE v # w
    BY <1>1, <2>2 DEF Inv, LocksAreHeld
  <2> QED
    BY <2>1, <2>2
<1>8. ClaimsAreExclusive'
  BY <1>2, <1>3 DEF Inv, ClaimsAreExclusive
<1>9. RowsAreCounted'
  BY DEF Inv, RowsAreCounted
<1> QED
  BY <1>9, <1>4, <1>5, <1>6, <1>7, <1>8 DEF Inv

LEMMA SendKeeps ==
  ASSUME Inv, NEW w \in Workers, Send(w)
  PROVE  Inv'
<1>1. PICK c \in pass[w].todo, o \in {"delivered", "rejected", "outage"} :
        pass' = [pass EXCEPT ![w] = Attempted(@, c, o)]
  BY DEF Send
<1> DEFINE p == Attempted(pass[w], c, o)
<1>2. pass[w] \in Pass /\ pass[w].at = "deliver" /\ pass[w].todo \in SUBSET Claim
  BY DEF Inv, TypeOK, Send, Pass
<1>3. /\ p \in Pass /\ p.at = "record" /\ p.current = c
      /\ p.todo = pass[w].todo \ {c} /\ p.time = pass[w].time
  <2>1. pass[w].todo \ {c} \in SUBSET Claim /\ c \in Claim
    BY <1>2
  <2> QED
    BY <1>2, <2>1, Zenon DEF Pass, Attempted
<1>4. pass' = [pass EXCEPT ![w] = p]
  BY <1>1
<1> HIDE DEF p
<1>5. p.todo \union {p.current} = Held(w)
  BY <1>2, <1>3 DEF Held
<1>6. p.current \in Claim \ p.todo
  BY <1>2, <1>3
<1>7. /\ UNCHANGED <<now, lecture, reminder, drafting, request, resets, edits>>
      /\ failures' \in 0..MaxFailures
  BY DEF Send, Inv, TypeOK
<1> QED
  BY <1>2, <1>3, <1>4, <1>5, <1>6, <1>7, SameClaimsKeep

LEMMA ThrowsKeeps ==
  ASSUME Inv, NEW w \in Workers, MarkSentThrows(w)
  PROVE  Inv'
<1> DEFINE p == [pass[w] EXCEPT !.outcome = "outage"]
<1>1. pass[w] \in Pass /\ pass[w].at = "record"
  BY DEF Inv, TypeOK, MarkSentThrows
<1>2. /\ p \in Pass /\ p.at = "record" /\ p.current = pass[w].current
      /\ p.todo = pass[w].todo /\ p.time = pass[w].time
  BY <1>1, Zenon DEF Pass
<1>3. pass' = [pass EXCEPT ![w] = p]
  BY DEF MarkSentThrows
<1> HIDE DEF p
<1>4. p.todo \union {p.current} = Held(w)
  BY <1>1, <1>2 DEF Held
<1>5. p.current \in Claim \ p.todo
  BY <1>1, <1>2 DEF Inv, ClaimsAreKnown
<1>6. UNCHANGED <<now, lecture, reminder, drafting, request, resets, edits>>
  BY DEF MarkSentThrows
<1>7. failures' \in 0..MaxFailures
  <2>1. failures' = failures \/ (failures < MaxFailures /\ failures' = failures + 1)
    BY DEF MarkSentThrows
  <2> QED
    BY <2>1, RemindersAssumption DEF Inv, TypeOK
<1> QED
  BY <1>1, <1>2, <1>3, <1>4, <1>5, <1>6, <1>7, SameClaimsKeep

\* Recording an outcome unlocks the row of a claim that leaves the list; the
\* rest of the list names other rows.
LEMMA RecordKeeps ==
  ASSUME Inv, NEW w \in Workers, NEW st \in Status,
         pass[w].at = "record", Exists(pass[w].current),
         reminder' = [reminder EXCEPT ![pass[w].current.key] =
           Unlocked([@ EXCEPT !.status = st])],
         pass' = [pass EXCEPT ![w] = OnToTheNext(@)],
         UNCHANGED <<now, lecture, drafting, request, resets, edits, failures>>
  PROVE  Inv'
<1> DEFINE c == pass[w].current
           k0 == c.key
           u == Unlocked([reminder[k0] EXCEPT !.status = st])
           p == OnToTheNext(pass[w])
<1>1. /\ c \in Claim /\ c \in Held(w) /\ k0 \in Key /\ c.made \in Nat
      /\ pass[w] \in Pass /\ c \notin pass[w].todo
      /\ Held(w) = pass[w].todo \union {c}
  BY DEF Inv, TypeOK, ClaimsAreKnown, Held, Claim
<1>2. reminder[k0] \in Reminder /\ reminder[k0].made = c.made
  BY <1>1 DEF Inv, TypeOK, Exists
<1>3. /\ u \in Reminder /\ u.status = st /\ u.made = c.made
      /\ u.lockedBy = NoWorker
  BY <1>2, UnlockedRow
<1>4. /\ p \in Pass /\ p.todo = pass[w].todo
      /\ p.at = IF pass[w].todo = {} THEN "idle" ELSE "deliver"
      /\ p.at # "idle" => p.time = pass[w].time
  <2>1. CASE pass[w].todo = {}
    <3>1. IdlePass \in Pass /\ IdlePass.at = "idle" /\ IdlePass.todo = {}
      BY Zenon DEF IdlePass, Pass
    <3> QED
      BY <2>1, <3>1 DEF OnToTheNext
  <2>2. CASE pass[w].todo # {}
    <3> DEFINE q == [pass[w] EXCEPT !.at = "deliver", !.current = Nothing,
                                    !.outcome = "none"]
    <3>1. /\ q \in Pass /\ q.todo = pass[w].todo /\ q.at = "deliver"
          /\ q.time = pass[w].time
      BY <1>1, Zenon DEF Pass
    <3> QED
      BY <2>2, <3>1 DEF OnToTheNext
  <2> QED
    BY <2>1, <2>2
<1>5. reminder' = [reminder EXCEPT ![k0] = u] /\ pass' = [pass EXCEPT ![w] = p]
  OBVIOUS
<1> HIDE DEF u, p, k0, c
<1>6. \A v \in Workers : pass'[v] = IF v = w THEN p ELSE pass[v]
  BY <1>5 DEF Inv, TypeOK
<1>7. \A k \in Key : reminder'[k] = IF k = k0 THEN u ELSE reminder[k]
  BY <1>5 DEF Inv, TypeOK
<1>8. /\ Held(w)' = pass[w].todo
      /\ \A v \in Workers \ {w} : Held(v)' = Held(v)
  BY <1>4, <1>6 DEF Held
<1>9. \A v \in Workers : \A d \in Held(v)' : d \in Held(v) /\ d.key \in Key
  BY <1>1, <1>8, HeldClaims DEF Inv
<1>10. \A d : d.key \in Key => (Exists(d)' <=> Exists(d))
  BY <1>1, <1>2, <1>3, <1>7 DEF Exists, Reminder, NoReminder
<1>11. \A v \in Workers : \A d \in Held(v)' : Exists(d) => d.key # k0
  <2> SUFFICES ASSUME NEW v \in Workers, NEW d \in Held(v)', Exists(d), d.key = k0
               PROVE  FALSE
    OBVIOUS
  <2>1. d.made = c.made /\ d.key = c.key
    BY <1>2 DEF Exists, k0
  <2>2. CASE v = w
    BY <1>1, <1>8, <2>1, <2>2 DEF Inv, ClaimsAreKnown
  <2>3. CASE v # w
    BY <1>1, <1>9, <2>1, <2>3 DEF Inv, ClaimsAreExclusive
  <2> QED
    BY <2>2, <2>3
<1>12. TypeOK'
  <2>1. reminder' \in [Key -> Reminder \union {NoReminder}]
    BY <1>3, <1>5 DEF Inv, TypeOK
  <2>2. pass' \in [Workers -> Pass]
    BY <1>4, <1>5 DEF Inv, TypeOK
  <2> QED
    BY <2>1, <2>2 DEF Inv, TypeOK
<1>13. Timely'
  BY <1>4, <1>6 DEF Inv, Timely
<1>14. ClaimsAreKnown'
  <2> SUFFICES ASSUME NEW v \in Workers
               PROVE  /\ pass'[v].at \notin {"deliver", "record"} => pass'[v].todo = {}
                      /\ pass'[v].at = "record" => pass'[v].current \in Claim \ pass'[v].todo
                      /\ \A d, e \in Held(v)' : d.key = e.key => d = e
                      /\ \A d \in Held(v)' :
                           Exists(d)' \/ d.made < resets[d.key.lecture]
    BY DEF ClaimsAreKnown
  <2>1. /\ pass'[v].at \notin {"deliver", "record"} => pass'[v].todo = {}
        /\ pass'[v].at = "record" => pass'[v].current \in Claim \ pass'[v].todo
    BY <1>4, <1>6 DEF Inv, ClaimsAreKnown
  <2> QED
    BY <1>9, <1>10, <2>1 DEF Inv, ClaimsAreKnown
<1>15. LocksAreHeld'
  <2> SUFFICES ASSUME NEW v \in Workers, NEW k \in Key, reminder'[k].lockedBy = v
               PROVE  /\ pass'[v].at \in {"fetch", "deliver", "record"}
                      /\ reminder'[k].lockedAt = pass'[v].time
                      /\ pass'[v].at = "fetch"
                           \/ \E d \in Held(v)' : d.key = k /\ d.made = reminder'[k].made
    BY DEF LocksAreHeld
  <2>1. k # k0 /\ reminder'[k] = reminder[k]
    BY <1>3, <1>7, RemindersAssumption
  <2>2. CASE v = w
    <3>1. PICK d \in Held(w) : d.key = k /\ d.made = reminder[k].made
      BY <2>1, <2>2 DEF Inv, LocksAreHeld
    <3>2. d \in pass[w].todo
      BY <1>1, <2>1, <3>1 DEF k0
    <3>3. reminder[k].lockedAt = pass[w].time
      BY <2>1, <2>2 DEF Inv, LocksAreHeld
    <3> QED
      BY <1>4, <1>6, <1>8, <2>1, <2>2, <3>1, <3>2, <3>3
  <2>3. CASE v # w
    BY <1>6, <1>8, <2>1, <2>3 DEF Inv, LocksAreHeld
  <2> QED
    BY <2>2, <2>3
<1>16. ClaimsAreExclusive'
  <2> SUFFICES ASSUME NEW v \in Workers, NEW d \in Held(v)', Exists(d)'
               PROVE  /\ \/ reminder'[d.key].status = "PENDING" /\ reminder'[d.key].lockedBy = v
                         \/ reminder'[d.key].status = "CANCELLED"
                      /\ \A x \in Workers \ {v} : \A e \in Held(x)' :
                           ~(e.key = d.key /\ e.made = d.made)
    BY DEF ClaimsAreExclusive
  <2>1. Exists(d) /\ d \in Held(v) /\ d.key \in Key
    BY <1>9, <1>10
  <2>2. reminder'[d.key] = reminder[d.key]
    BY <1>7, <1>11, <2>1
  <2> QED
    BY <1>9, <2>1, <2>2 DEF Inv, ClaimsAreExclusive
<1>17. RowsAreCounted'
  BY <1>2, <1>3, <1>7 DEF Inv, RowsAreCounted
<1> QED
  BY <1>17, <1>12, <1>13, <1>14, <1>15, <1>16 DEF Inv

LEMMA SentKeeps ==
  ASSUME Inv, NEW w \in Workers, MarkSent(w)
  PROVE  Inv'
BY RecordKeeps DEF MarkSent, Status

LEMMA FailedKeeps ==
  ASSUME Inv, NEW w \in Workers, MarkFailed(w)
  PROVE  Inv'
<1> DEFINE giveUp == \/ pass[w].outcome = "rejected"
                     \/ pass[w].current.attempts >= MaxAttempts
           st == IF giveUp THEN "FAILED" ELSE "PENDING"
<1>1. st \in Status
  BY DEF Status
<1>2. /\ pass[w].at = "record" /\ Exists(pass[w].current)
      /\ reminder' = [reminder EXCEPT ![pass[w].current.key] =
           Unlocked([@ EXCEPT !.status = st])]
      /\ pass' = [pass EXCEPT ![w] = OnToTheNext(@)]
      /\ UNCHANGED <<now, lecture, drafting, request, resets, edits, failures>>
  BY DEF MarkFailed
<1> HIDE DEF st
<1> QED
  BY <1>1, <1>2, RecordKeeps

\* A pass that ends takes its claims and its token with it.
LEMMA ForgetKeeps ==
  ASSUME Inv, TypeOK', NEW w \in Workers,
         reminder' = TokenForgotten(w),
         pass' = [pass EXCEPT ![w] = IdlePass],
         now' = now, resets' = resets
  PROVE  Inv'
<1>1. \A v \in Workers : pass'[v] = IF v = w THEN IdlePass ELSE pass[v]
  BY DEF Inv, TypeOK
<1>2. IdlePass.at = "idle" /\ IdlePass.todo = {}
  BY DEF IdlePass
<1>3. /\ Held(w)' = {}
      /\ \A v \in Workers \ {w} : Held(v)' = Held(v)
  BY <1>1, <1>2 DEF Held
<1>4. \A k \in Key :
        \/ reminder'[k] = reminder[k] /\ reminder[k].lockedBy # w
        \/ /\ reminder[k].lockedBy = w
           /\ reminder'[k] \in Reminder
           /\ reminder'[k].status = reminder[k].status
           /\ reminder'[k].made = reminder[k].made
           /\ reminder'[k].lockedBy = Forgotten
           /\ reminder[k] # NoReminder
  <2> SUFFICES ASSUME NEW k \in Key, reminder[k].lockedBy = w
               PROVE  /\ reminder'[k] \in Reminder
                      /\ reminder'[k].status = reminder[k].status
                      /\ reminder'[k].made = reminder[k].made
                      /\ reminder'[k].lockedBy = Forgotten
                      /\ reminder[k] # NoReminder
    BY DEF TokenForgotten
  <2>1. reminder[k] \in Reminder
    BY RemindersAssumption DEF Inv, TypeOK, NoReminder
  <2>2. reminder'[k] = [reminder[k] EXCEPT !.lockedBy = Forgotten]
    BY DEF TokenForgotten
  <2> QED
    BY <2>1, <2>2, ForgottenRow, RemindersAssumption DEF NoReminder
<1>5. \A c : c.key \in Key => (Exists(c)' <=> Exists(c))
  BY <1>4 DEF Exists, Reminder, NoReminder
<1>6. \A v \in Workers : \A d \in Held(v)' :
        v # w /\ d \in Held(v) /\ d.key \in Key
  BY <1>3, HeldClaims DEF Inv
<1>7. Timely'
  BY <1>1, <1>2 DEF Inv, Timely
<1>8. ClaimsAreKnown'
  <2> SUFFICES ASSUME NEW v \in Workers
               PROVE  /\ pass'[v].at \notin {"deliver", "record"} => pass'[v].todo = {}
                      /\ pass'[v].at = "record" => pass'[v].current \in Claim \ pass'[v].todo
                      /\ \A d, e \in Held(v)' : d.key = e.key => d = e
                      /\ \A d \in Held(v)' :
                           Exists(d)' \/ d.made < resets[d.key.lecture]
    BY DEF ClaimsAreKnown
  <2>1. /\ pass'[v].at \notin {"deliver", "record"} => pass'[v].todo = {}
        /\ pass'[v].at = "record" => pass'[v].current \in Claim \ pass'[v].todo
    BY <1>1, <1>2 DEF Inv, ClaimsAreKnown
  <2> QED
    BY <1>5, <1>6, <2>1 DEF Inv, ClaimsAreKnown
<1>9. LocksAreHeld'
  <2> SUFFICES ASSUME NEW v \in Workers, NEW k \in Key, reminder'[k].lockedBy = v
               PROVE  /\ pass'[v].at \in {"fetch", "deliver", "record"}
                      /\ reminder'[k].lockedAt = pass'[v].time
                      /\ pass'[v].at = "fetch"
                           \/ \E d \in Held(v)' : d.key = k /\ d.made = reminder'[k].made
    BY DEF LocksAreHeld
  <2>1. reminder'[k] = reminder[k] /\ v # w
    BY <1>4, RemindersAssumption
  <2> QED
    BY <1>1, <1>3, <2>1 DEF Inv, LocksAreHeld
<1>10. ClaimsAreExclusive'
  <2> SUFFICES ASSUME NEW v \in Workers, NEW d \in Held(v)', Exists(d)'
               PROVE  /\ \/ reminder'[d.key].status = "PENDING" /\ reminder'[d.key].lockedBy = v
                         \/ reminder'[d.key].status = "CANCELLED"
                      /\ \A x \in Workers \ {v} : \A e \in Held(x)' :
                           ~(e.key = d.key /\ e.made = d.made)
    BY DEF ClaimsAreExclusive
  <2>1. Exists(d) /\ d \in Held(v) /\ d.key \in Key /\ v # w
    BY <1>5, <1>6
  <2>2. \/ reminder[d.key].status = "PENDING" /\ reminder[d.key].lockedBy = v
        \/ reminder[d.key].status = "CANCELLED"
    BY <2>1 DEF Inv, ClaimsAreExclusive
  <2>3. \/ reminder'[d.key].status = "PENDING" /\ reminder'[d.key].lockedBy = v
        \/ reminder'[d.key].status = "CANCELLED"
    BY <1>4, <2>1, <2>2
  <2> QED
    BY <1>6, <2>1, <2>3 DEF Inv, ClaimsAreExclusive
<1>11. RowsAreCounted'
  BY <1>4 DEF Inv, RowsAreCounted
<1> QED
  BY <1>11, <1>7, <1>8, <1>9, <1>10 DEF Inv

LEMMA TokenForgottenType ==
  ASSUME TypeOK, NEW w \in Workers
  PROVE  TokenForgotten(w) \in [Key -> Reminder \union {NoReminder}]
<1> SUFFICES ASSUME NEW k \in Key, reminder[k].lockedBy = w
             PROVE  [reminder[k] EXCEPT !.lockedBy = Forgotten] \in Reminder
  BY DEF TokenForgotten, TypeOK
<1>1. reminder[k] \in Reminder
  BY RemindersAssumption DEF TypeOK, NoReminder
<1> QED
  BY <1>1, ForgottenRow

LEMMA IdleTypes == IdlePass \in Pass /\ IdleDrafting \in Drafting
<1>1. IdlePass \in Pass
  BY Zenon DEF IdlePass, Pass
<1>2. IdleDrafting \in Drafting
  BY DEF IdleDrafting, Drafting
<1> QED
  BY <1>1, <1>2

LEMMA AbandonKeeps ==
  ASSUME Inv, NEW w \in Workers, AbandonPass(w)
  PROVE  Inv'
<1>1. TypeOK'
  BY TokenForgottenType, IdleTypes DEF Inv, TypeOK, AbandonPass
<1> QED
  BY <1>1, ForgetKeeps DEF AbandonPass

LEMMA CrashKeeps ==
  ASSUME Inv, NEW w \in Workers, Crash(w)
  PROVE  Inv'
<1>1. reminder' \in [Key -> Reminder \union {NoReminder}]
  BY TokenForgottenType DEF Inv, Crash
<1>2. failures' \in 0..MaxFailures
  BY RemindersAssumption DEF Inv, TypeOK, Crash
<1>3. TypeOK'
  BY <1>1, <1>2, IdleTypes DEF Inv, TypeOK, Crash
<1> QED
  BY <1>3, ForgetKeeps DEF Crash

\* What a pass takes no live pass has locked: the lock would be no older than
\* the pass that took it, and that is within LockTimeout.
LEMMA TakesFreeRows ==
  ASSUME Inv, NEW w \in Workers, pass[w].at = "claim", NEW k \in Key, Takes(w, k)
  PROVE  reminder[k].status = "PENDING" /\ reminder[k].lockedBy \notin Workers
<1> SUFFICES ASSUME NEW v \in Workers, reminder[k].lockedBy = v PROVE FALSE
  BY DEF Takes, Claimable
<1>1. reminder[k].lockedAt = pass[v].time /\ pass[v].at # "idle"
  BY DEF Inv, LocksAreHeld
<1>2. pass[v].time \in Nat /\ now <= pass[v].time + PassLimit
  BY <1>1 DEF Inv, Timely
<1>3. pass[w].time \in Nat /\ pass[w].time <= now
  BY DEF Inv, Timely
<1>4. pass[v].time < pass[w].time - LockTimeout
  BY <1>1, <1>2 DEF Takes, Claimable, Never
<1> QED
  BY <1>2, <1>3, <1>4, RemindersAssumption, PassFitsLock DEF Inv, TypeOK

LEMMA ClaimKeeps ==
  ASSUME Inv, NEW w \in Workers, ClaimDue(w)
  PROVE  Inv'
<1> DEFINE t == pass[w].time
           u(k) == Taken(reminder[k], w, t)
           p == [pass[w] EXCEPT !.at = "fetch", !.ids = {}]
<1>1. /\ pass[w].at = "claim" /\ pass[w].todo = {} /\ pass[w] \in Pass
      /\ t \in 0..MaxTime
  <2>1. pass[w].at = "claim" /\ pass[w] \in Pass
    BY DEF ClaimDue, Inv, TypeOK
  <2>2. pass[w].todo = {} /\ t \in Nat
    BY <2>1 DEF Inv, ClaimsAreKnown, Timely
  <2>3. t \in 0..MaxTime \union {Never}
    BY <2>1 DEF Pass
  <2> QED
    BY <2>1, <2>2, <2>3 DEF Never
<1>2. p \in Pass /\ p.at = "fetch" /\ p.todo = {} /\ p.time = t
  BY <1>1, Zenon DEF Pass
<1>3. /\ pass' = [pass EXCEPT ![w] = p]
      /\ UNCHANGED <<now, lecture, drafting, request, resets, edits, failures>>
  BY DEF ClaimDue
<1>4. \A k \in Key : reminder'[k] = IF Takes(w, k) THEN u(k) ELSE reminder[k]
  BY DEF ClaimDue
<1>5. \A k \in Key : Takes(w, k) =>
        /\ reminder[k].status = "PENDING" /\ reminder[k] # NoReminder
        /\ reminder[k].lockedBy \notin Workers
        /\ u(k) \in Reminder /\ u(k).status = "PENDING"
        /\ u(k).made = reminder[k].made
        /\ u(k).lockedBy = w /\ u(k).lockedAt = t
  <2> SUFFICES ASSUME NEW k \in Key, Takes(w, k)
               PROVE  /\ reminder[k].status = "PENDING" /\ reminder[k] # NoReminder
                      /\ reminder[k].lockedBy \notin Workers
                      /\ u(k) \in Reminder /\ u(k).status = "PENDING"
                      /\ u(k).made = reminder[k].made
                      /\ u(k).lockedBy = w /\ u(k).lockedAt = t
    OBVIOUS
  <2>1. reminder[k].status = "PENDING" /\ reminder[k].lockedBy \notin Workers
    BY <1>1, TakesFreeRows
  <2>2. reminder[k] # NoReminder /\ reminder[k] \in Reminder
    BY <2>1 DEF Inv, TypeOK, NoReminder
  <2>3. /\ u(k) \in Reminder /\ u(k).status = "PENDING"
        /\ u(k).made = reminder[k].made
        /\ u(k).lockedBy = w /\ u(k).lockedAt = t
    BY <1>1, <2>1, <2>2, TakenRow
  <2> QED
    BY <2>1, <2>2, <2>3
<1>6. DOMAIN reminder' = Key /\ reminder' = [k \in Key |-> reminder'[k]]
  BY DEF ClaimDue
<1> HIDE DEF p, u, t
<1>7. \A k \in Key :
        \/ reminder'[k] = reminder[k]
        \/ /\ reminder[k].status = "PENDING" /\ reminder[k] # NoReminder
           /\ reminder[k].lockedBy \notin Workers
           /\ reminder'[k] \in Reminder /\ reminder'[k].status = "PENDING"
           /\ reminder'[k].made = reminder[k].made
           /\ reminder'[k].lockedBy = w /\ reminder'[k].lockedAt = t
  BY <1>4, <1>5
<1>8. \A v \in Workers : pass'[v] = IF v = w THEN p ELSE pass[v]
  BY <1>3 DEF Inv, TypeOK
<1>9. \A v \in Workers : Held(v)' = Held(v)
  BY <1>1, <1>2, <1>8 DEF Held
<1>10. \A c : c.key \in Key => (Exists(c)' <=> Exists(c))
  BY <1>7 DEF Exists, Reminder, NoReminder
<1>11. \A v \in Workers : \A c \in Held(v) :
         v # w /\ c.key \in Key
  BY <1>1, HeldClaims DEF Held, Inv
<1>12. TypeOK'
  <2>1. reminder' \in [Key -> Reminder \union {NoReminder}]
    BY <1>6, <1>7 DEF Inv, TypeOK
  <2>2. pass' \in [Workers -> Pass]
    BY <1>2, <1>3 DEF Inv, TypeOK
  <2> QED
    BY <1>3, <2>1, <2>2 DEF Inv, TypeOK
<1>13. Timely'
  BY <1>1, <1>2, <1>3, <1>8 DEF Inv, Timely, t
<1>14. RowsAreCounted'
  BY <1>3, <1>7 DEF Inv, RowsAreCounted
<1>15. ClaimsAreKnown'
  <2> SUFFICES ASSUME NEW v \in Workers
               PROVE  /\ pass'[v].at \notin {"deliver", "record"} => pass'[v].todo = {}
                      /\ pass'[v].at = "record" => pass'[v].current \in Claim \ pass'[v].todo
                      /\ \A c, d \in Held(v) : c.key = d.key => c = d
                      /\ \A c \in Held(v) :
                           Exists(c)' \/ c.made < resets'[c.key.lecture]
    BY <1>9 DEF ClaimsAreKnown
  <2>1. /\ pass'[v].at \notin {"deliver", "record"} => pass'[v].todo = {}
        /\ pass'[v].at = "record" => pass'[v].current \in Claim \ pass'[v].todo
    BY <1>2, <1>8 DEF Inv, ClaimsAreKnown
  <2> QED
    BY <1>3, <1>10, <1>11, <2>1 DEF Inv, ClaimsAreKnown
<1>16. LocksAreHeld'
  <2> SUFFICES ASSUME NEW v \in Workers, NEW k \in Key, reminder'[k].lockedBy = v
               PROVE  /\ pass'[v].at \in {"fetch", "deliver", "record"}
                      /\ reminder'[k].lockedAt = pass'[v].time
                      /\ pass'[v].at = "fetch"
                           \/ \E c \in Held(v) : c.key = k /\ c.made = reminder'[k].made
    BY <1>9 DEF LocksAreHeld
  <2>1. CASE reminder'[k] = reminder[k]
    <3>1. v # w
      BY <1>1, <2>1 DEF Inv, LocksAreHeld
    <3> QED
      BY <1>8, <2>1, <3>1 DEF Inv, LocksAreHeld
  <2>2. CASE reminder'[k] # reminder[k]
    BY <1>2, <1>7, <1>8, <2>2
  <2> QED
    BY <2>1, <2>2
<1>17. ClaimsAreExclusive'
  <2> SUFFICES ASSUME NEW v \in Workers, NEW c \in Held(v), Exists(c)'
               PROVE  /\ \/ reminder'[c.key].status = "PENDING" /\ reminder'[c.key].lockedBy = v
                         \/ reminder'[c.key].status = "CANCELLED"
                      /\ \A x \in Workers \ {v} : \A d \in Held(x) :
                           ~(d.key = c.key /\ d.made = c.made)
    BY <1>9 DEF ClaimsAreExclusive
  <2>1. Exists(c) /\ c.key \in Key
    BY <1>10, <1>11
  <2>2. reminder'[c.key] = reminder[c.key]
    BY <1>7, <2>1 DEF Inv, ClaimsAreExclusive
  <2> QED
    BY <2>1, <2>2 DEF Inv, ClaimsAreExclusive
<1> QED
  BY <1>12, <1>13, <1>14, <1>15, <1>16, <1>17 DEF Inv

\* The rows a pass reads back are locked with its token, so no other pass that
\* is still alive can have a claim on them.
LEMMA FetchKeeps ==
  ASSUME Inv, NEW w \in Workers, FetchClaimed(w)
  PROVE  Inv'
<1> DEFINE won == {k \in Key : /\ reminder[k].lockedBy = w
                               /\ reminder[k].status = "PENDING"}
           claim(k) == [key |-> k, made |-> reminder[k].made,
                        attempts |-> reminder[k].attempts]
           q == [pass[w] EXCEPT !.at = "deliver", !.todo = {claim(k) : k \in won}]
           p == IF won = {} THEN IdlePass ELSE q
<1>1. /\ pass[w].at = "fetch" /\ pass[w].todo = {} /\ pass[w] \in Pass
      /\ Held(w) = {}
  BY DEF FetchClaimed, Inv, TypeOK, ClaimsAreKnown, Held
<1>2. /\ pass' = [pass EXCEPT ![w] = p]
      /\ UNCHANGED <<now, lecture, reminder, drafting, request, resets, edits,
                     failures>>
  BY DEF FetchClaimed
<1>3. \A k \in Key :
        /\ claim(k) \in Claim /\ claim(k).key = k
        /\ claim(k).made = reminder[k].made
  BY RowFields DEF Inv, TypeOK, Row, Claim
<1>4. \A k \in Key : reminder[k].lockedBy = w => k \in won
  BY RowFields, RemindersAssumption DEF Inv, TypeOK, Row
<1>5. /\ p \in Pass /\ p.todo = {claim(k) : k \in won}
      /\ p.at = IF won = {} THEN "idle" ELSE "deliver"
      /\ p.at # "idle" => p.time = pass[w].time
  <2>1. CASE won = {}
    <3>1. IdlePass.at = "idle" /\ IdlePass.todo = {}
      BY DEF IdlePass
    <3> QED
      BY <2>1, <3>1, IdleTypes
  <2>2. CASE won # {}
    <3>1. {claim(k) : k \in won} \in SUBSET Claim
      BY <1>3
    <3>2. /\ q \in Pass /\ q.at = "deliver" /\ q.todo = {claim(k) : k \in won}
          /\ q.time = pass[w].time
      BY <1>1, <3>1, Zenon DEF Pass
    <3> QED
      BY <2>2, <3>2
  <2> QED
    BY <2>1, <2>2
<1> HIDE DEF p, q, claim
<1>6. \A v \in Workers : pass'[v] = IF v = w THEN p ELSE pass[v]
  BY <1>2 DEF Inv, TypeOK
<1>7. /\ Held(w)' = {claim(k) : k \in won}
      /\ \A v \in Workers \ {w} : Held(v)' = Held(v)
  BY <1>5, <1>6 DEF Held
<1>8. \A c : Exists(c)' = Exists(c)
  BY <1>2 DEF Exists
<1>9. \A c \in Held(w)' :
        /\ c.key \in won /\ c = claim(c.key) /\ c.made = reminder[c.key].made
        /\ Exists(c)
  <2>1. \A k \in won : reminder[k] # NoReminder
    BY DEF NoReminder
  <2> QED
    BY <1>3, <1>7, <2>1 DEF Exists
<1>10. TypeOK'
  BY <1>2, <1>5 DEF Inv, TypeOK
<1>11. Timely'
  BY <1>1, <1>2, <1>5, <1>6 DEF Inv, Timely
<1>12. RowsAreCounted'
  BY <1>2 DEF Inv, RowsAreCounted
<1>13. ClaimsAreKnown'
  <2> SUFFICES ASSUME NEW v \in Workers
               PROVE  /\ pass'[v].at \notin {"deliver", "record"} => pass'[v].todo = {}
                      /\ pass'[v].at = "record" => pass'[v].current \in Claim \ pass'[v].todo
                      /\ \A c, d \in Held(v)' : c.key = d.key => c = d
                      /\ \A c \in Held(v)' :
                           Exists(c)' \/ c.made < resets[c.key.lecture]
    BY <1>2 DEF ClaimsAreKnown
  <2>1. CASE v = w
    <3>1. p.at \notin {"deliver", "record"} => p.todo = {}
      BY <1>5
    <3> QED
      BY <1>5, <1>6, <1>8, <1>9, <2>1, <3>1
  <2>2. CASE v # w
    BY <1>6, <1>7, <1>8, <2>2 DEF Inv, ClaimsAreKnown
  <2> QED
    BY <2>1, <2>2
<1>14. LocksAreHeld'
  <2> SUFFICES ASSUME NEW v \in Workers, NEW k \in Key, reminder[k].lockedBy = v
               PROVE  /\ pass'[v].at \in {"fetch", "deliver", "record"}
                      /\ reminder[k].lockedAt = pass'[v].time
                      /\ pass'[v].at = "fetch"
                           \/ \E c \in Held(v)' : c.key = k /\ c.made = reminder[k].made
    BY <1>2 DEF LocksAreHeld
  <2>1. CASE v = w
    <3>1. k \in won /\ reminder[k].lockedAt = pass[w].time
      BY <1>4, <2>1 DEF Inv, LocksAreHeld
    <3>2. claim(k) \in Held(w)'
      BY <1>7, <3>1
    <3> QED
      BY <1>3, <1>5, <1>6, <2>1, <3>1, <3>2
  <2>2. CASE v # w
    BY <1>6, <1>7, <2>2 DEF Inv, LocksAreHeld
  <2> QED
    BY <2>1, <2>2
<1>15. ClaimsAreExclusive'
  <2>1. \A v \in Workers \ {w} : \A d \in Held(v) : \A c \in Held(w)' :
          ~(d.key = c.key /\ d.made = c.made)
    <3> SUFFICES ASSUME NEW v \in Workers \ {w}, NEW d \in Held(v),
                        NEW c \in Held(w)', d.key = c.key, d.made = c.made
                 PROVE  FALSE
      OBVIOUS
    <3>1. Exists(d) /\ reminder[d.key].status = "PENDING" /\ reminder[d.key].lockedBy = w
      BY <1>9 DEF Exists
    <3> QED
      BY <3>1 DEF Inv, ClaimsAreExclusive
  <2> SUFFICES ASSUME NEW v \in Workers, NEW c \in Held(v)', Exists(c)
               PROVE  /\ \/ reminder[c.key].status = "PENDING" /\ reminder[c.key].lockedBy = v
                         \/ reminder[c.key].status = "CANCELLED"
                      /\ \A x \in Workers \ {v} : \A d \in Held(x)' :
                           ~(d.key = c.key /\ d.made = c.made)
    BY <1>2, <1>8 DEF ClaimsAreExclusive
  <2>2. CASE v = w
    BY <1>7, <1>9, <2>1, <2>2
  <2>3. CASE v # w
    <3>1. c \in Held(v)
      BY <1>7, <2>3
    <3> QED
      BY <1>7, <2>1, <2>3, <3>1 DEF Inv, ClaimsAreExclusive
  <2> QED
    BY <2>2, <2>3
<1> QED
  BY <1>10, <1>11, <1>12, <1>13, <1>14, <1>15 DEF Inv

\* A claim on a row that a reset deletes is older than that reset.
LEMMA ResetKeeps ==
  ASSUME Inv, NEW a \in Staff, ResetForSchedule(a)
  PROVE  Inv'
<1> DEFINE l == request[a].lecture
<1>1. /\ resets' = [resets EXCEPT ![l] = @ + 1]
      /\ reminder' = [k \in Key |->
           IF k.lecture = l /\ Unsent(reminder[k]) THEN NoReminder ELSE reminder[k]]
      /\ UNCHANGED <<now, lecture, drafting, pass, edits, failures>>
      /\ request' = [request EXCEPT ![a] = NoRequest]
  BY DEF ResetForSchedule
<1>2. \A m \in Lectures : /\ resets[m] \in Nat
                          /\ resets'[m] = IF m = l THEN resets[m] + 1 ELSE resets[m]
  BY <1>1 DEF Inv, TypeOK
<1>3. \A k \in Key : /\ k.lecture \in Lectures
                     /\ \/ reminder'[k] = reminder[k]
                        \/ k.lecture = l /\ reminder'[k] = NoReminder
  BY <1>1 DEF Key
<1>4. \A v \in Workers : Held(v)' = Held(v)
  BY <1>1, HeldSame
<1>5. \A v \in Workers : \A c \in Held(v) : c.key \in Key /\ c.made \in Nat
  BY HeldClaims DEF Inv
<1>6. \A c : c.key \in Key /\ Exists(c)' => Exists(c) /\ reminder'[c.key] = reminder[c.key]
  BY <1>3 DEF Exists
<1>7. TypeOK'
  <2>1. reminder' \in [Key -> Reminder \union {NoReminder}]
    BY <1>1 DEF Inv, TypeOK
  <2>2. resets' \in [Lectures -> Nat]
    <3>1. DOMAIN resets' = Lectures /\ resets' = [m \in Lectures |-> resets'[m]]
      BY <1>1 DEF Inv, TypeOK
    <3>2. \A m \in Lectures : resets'[m] \in Nat
      BY <1>2
    <3> QED
      BY <3>1, <3>2
  <2>3. NoRequest \in [at : {"none", "reset", "cancel"},
                      lecture : Lectures \union {Nothing}]
    BY DEF NoRequest
  <2> QED
    BY <1>1, <2>1, <2>2, <2>3 DEF Inv, TypeOK
<1>8. Timely'
  BY <1>1 DEF Inv, Timely
<1>9. RowsAreCounted'
  <2> SUFFICES ASSUME NEW k \in Key
               PROVE  reminder'[k].made <= resets'[k.lecture]
    BY DEF RowsAreCounted
  <2>1. reminder[k].made \in Nat /\ reminder[k].made <= resets[k.lecture]
    BY RowFields DEF Inv, TypeOK, Row, RowsAreCounted
  <2> QED
    BY <1>2, <1>3, <2>1 DEF NoReminder
<1>10. ClaimsAreKnown'
  <2>1. \A v \in Workers : \A c \in Held(v) :
          Exists(c)' \/ c.made < resets'[c.key.lecture]
    <3> SUFFICES ASSUME NEW v \in Workers, NEW c \in Held(v), ~Exists(c)'
                 PROVE  c.made < resets'[c.key.lecture]
      OBVIOUS
    <3>1. c.key \in Key /\ c.made \in Nat /\ c.key.lecture \in Lectures
      BY <1>3, <1>5
    <3>2. CASE Exists(c)
      <4>1. c.key.lecture = l
        BY <1>3, <3>1, <3>2 DEF Exists
      <4>2. reminder[c.key].made <= resets[c.key.lecture]
        BY <3>1 DEF Inv, RowsAreCounted
      <4>3. c.made <= resets[c.key.lecture]
        BY <3>2, <4>2 DEF Exists
      <4> QED
        BY <1>2, <3>1, <4>1, <4>3
    <3>3. CASE ~Exists(c)
      <4>1. c.made < resets[c.key.lecture]
        BY <3>3 DEF Inv, ClaimsAreKnown
      <4> QED
        BY <1>2, <3>1, <4>1
    <3> QED
      BY <3>2, <3>3
  <2>2. pass' = pass
    BY <1>1
  <2> QED
    BY <1>4, <2>1, <2>2 DEF Inv, ClaimsAreKnown
<1>11. LocksAreHeld'
  <2>1. \A v \in Workers, k \in Key :
          reminder'[k].lockedBy = v => reminder'[k] = reminder[k]
    BY <1>3, RemindersAssumption DEF NoReminder
  <2>2. pass' = pass
    BY <1>1
  <2> QED
    BY <1>4, <2>1, <2>2 DEF Inv, LocksAreHeld
<1>12. ClaimsAreExclusive'
  <2> SUFFICES ASSUME NEW v \in Workers, NEW c \in Held(v), Exists(c)'
               PROVE  /\ \/ reminder'[c.key].status = "PENDING" /\ reminder'[c.key].lockedBy = v
                         \/ reminder'[c.key].status = "CANCELLED"
                      /\ \A x \in Workers \ {v} : \A d \in Held(x) :
                           ~(d.key = c.key /\ d.made = c.made)
    BY <1>4 DEF ClaimsAreExclusive
  <2>1. Exists(c) /\ reminder'[c.key] = reminder[c.key]
    BY <1>5, <1>6
  <2> QED
    BY <2>1 DEF Inv, ClaimsAreExclusive
<1> QED
  BY <1>7, <1>8, <1>9, <1>10, <1>11, <1>12 DEF Inv

LEMMA ReadKeeps ==
  ASSUME Inv, NEW w \in Workers, ReadLectures(w)
  PROVE  Inv'
<1> DEFINE d == [time |-> now,
                 todo |-> {[lecture |-> l, start |-> lecture[l].start] :
                             l \in {m \in Lectures : lecture[m].active}}]
<1>1. d \in Drafting
  BY DEF Inv, TypeOK, Drafting, Slot
<1>2. /\ drafting' = [drafting EXCEPT ![w] = d]
      /\ UNCHANGED <<now, lecture, reminder, pass, request, resets, edits, failures>>
  BY DEF ReadLectures
<1> HIDE DEF d
<1>3. TypeOK'
  BY <1>1, <1>2 DEF Inv, TypeOK
<1> QED
  BY <1>2, <1>3, OthersKeep

LEMMA EditKeeps ==
  ASSUME Inv, NEW a \in Staff,
         UpdateSchedule(a) \/ DeactivateSchedule(a) \/ RequestFails(a)
  PROVE  Inv'
<1>1. UNCHANGED <<now, reminder, drafting, pass, resets>>
  BY DEF UpdateSchedule, DeactivateSchedule, RequestFails
<1>2. \A at \in {"reset", "cancel"}, l \in Lectures :
        [at |-> at, lecture |-> l] \in [at : {"none", "reset", "cancel"},
                                        lecture : Lectures \union {Nothing}]
  OBVIOUS
<1>3. NoRequest \in [at : {"none", "reset", "cancel"},
                    lecture : Lectures \union {Nothing}]
  BY DEF NoRequest
<1>4. /\ lecture' \in [Lectures -> Slot]
      /\ request' \in [Staff -> [at : {"none", "reset", "cancel"},
                                 lecture : Lectures \union {Nothing}]]
      /\ edits' \in 0..MaxEdits /\ failures' \in 0..MaxFailures
  <2>1. CASE UpdateSchedule(a)
    <3>1. PICK l \in Lectures, slot \in Slot :
            /\ lecture' = [lecture EXCEPT ![l] = slot]
            /\ request' = [request EXCEPT ![a] = [at |-> "reset", lecture |-> l]]
      BY <2>1 DEF UpdateSchedule
    <3>2. edits' \in 0..MaxEdits /\ failures' = failures
      BY <2>1, RemindersAssumption DEF UpdateSchedule, Inv, TypeOK
    <3> QED
      BY <1>2, <3>1, <3>2 DEF Inv, TypeOK
  <2>2. CASE DeactivateSchedule(a)
    <3>1. PICK l \in Lectures :
            /\ lecture' = [lecture EXCEPT ![l].active = FALSE]
            /\ request' = [request EXCEPT ![a] = [at |-> "cancel", lecture |-> l]]
      BY <2>2 DEF DeactivateSchedule
    <3>2. [lecture[l] EXCEPT !.active = FALSE] \in Slot
      BY Zenon DEF Inv, TypeOK, Slot
    <3>3. edits' \in 0..MaxEdits /\ failures' = failures
      BY <2>2, RemindersAssumption DEF DeactivateSchedule, Inv, TypeOK
    <3> QED
      BY <1>2, <3>1, <3>2, <3>3 DEF Inv, TypeOK
  <2>3. CASE RequestFails(a)
    BY <1>3, <2>3, RemindersAssumption DEF RequestFails, Inv, TypeOK
  <2> QED
    BY <2>1, <2>2, <2>3
<1>5. TypeOK'
  BY <1>1, <1>4 DEF Inv, TypeOK
<1> QED
  BY <1>1, <1>5, OthersKeep

LEMMA NextKeeps == Inv /\ [Next]_vars => Inv'
<1> SUFFICES ASSUME Inv, [Next]_vars PROVE Inv'
  OBVIOUS
<1>1. CASE Tick
  BY <1>1, TickKeeps
<1>2. CASE \E w \in Workers : ReadLectures(w) \/ WriteReminders(w) \/ Crash(w)
  BY <1>2, ReadKeeps, WriteKeeps, CrashKeeps
<1>3. ASSUME NEW w \in Workers, Deliver(w) PROVE Inv'
  BY <1>3, StartKeeps, FindKeeps, ClaimKeeps, FetchKeeps, SendKeeps, SentKeeps,
     ThrowsKeeps, FailedKeeps, AbandonKeeps DEF Deliver
<1>4. CASE \E a \in Staff : ResetForSchedule(a) \/ CancelForSchedule(a)
  BY <1>4, ResetKeeps, CancelKeeps
<1>5. CASE \E a \in Staff :
             UpdateSchedule(a) \/ DeactivateSchedule(a) \/ RequestFails(a)
  BY <1>5, EditKeeps
<1>6. CASE UNCHANGED vars
  <2>1. TypeOK'
    BY <1>6 DEF Inv, TypeOK, vars
  <2> QED
    BY <1>6, <2>1, OthersKeep DEF vars
<1> QED
  BY <1>1, <1>2, <1>3, <1>4, <1>5, <1>6 DEF Next

LEMMA Invariance == Spec => []Inv
BY InitInv, NextKeeps, PTL DEF Spec

-----------------------------------------------------------------------------
(* What follows from it.                                                   *)

\* Every variable keeps its type; a row is only ever locked while it is PENDING,
\* and only after an attempt was counted.
THEOREM RemindersTypeCorrect == Spec => []TypeOK
BY Invariance, PTL DEF Inv

\* "Two workers polling the same second therefore split the batch": what a pass
\* is about to deliver is locked with its own token, or was cancelled under it,
\* and no other live pass holds it, as long as a pass fits its lock.
THEOREM ClaimsStayExclusive == Spec => []ClaimsAreExclusive
BY Invariance, PTL DEF Inv

\* Recording touches only the row of a claim, and that row is not settled.
LEMMA NextLeavesSettled ==
  ASSUME Inv, [Next]_vars, NEW k \in Key, reminder[k].status \in {"SENT", "FAILED"}
  PROVE  reminder'[k] = reminder[k]
<1> USE DEF Inv
<1>1. CASE UNCHANGED reminder
  BY <1>1
<1>2. ASSUME NEW w \in Workers, WriteReminders(w) PROVE reminder'[k] = reminder[k]
  <2>1. reminder[k] # NoReminder
    BY DEF NoReminder
  <2> QED
    BY <1>2, <2>1 DEF WriteReminders
<1>3. ASSUME NEW w \in Workers, StartPass(w) PROVE reminder'[k] = reminder[k]
  BY <1>3 DEF StartPass, Overdue
<1>4. ASSUME NEW w \in Workers, ClaimDue(w) PROVE reminder'[k] = reminder[k]
  BY <1>4 DEF ClaimDue, Takes, Claimable
<1>5. ASSUME NEW w \in Workers, MarkSent(w) \/ MarkFailed(w)
      PROVE  reminder'[k] = reminder[k]
  <2>1. /\ pass[w].current \in Held(w) /\ Exists(pass[w].current)
        /\ pass[w].at = "record"
    BY <1>5 DEF MarkSent, MarkFailed, Held
  <2>2. reminder[pass[w].current.key].status \in {"PENDING", "CANCELLED"}
    BY <2>1 DEF ClaimsAreExclusive
  <2>3. k # pass[w].current.key
    BY <2>2
  <2> QED
    BY <1>5, <2>3 DEF MarkSent, MarkFailed, TypeOK
<1>6. ASSUME NEW w \in Workers, AbandonPass(w) \/ Crash(w)
      PROVE  reminder'[k] = reminder[k]
  <2>1. reminder[k].lockedBy # w
    BY RowFields, RemindersAssumption DEF TypeOK, Row
  <2> QED
    BY <1>6, <2>1 DEF AbandonPass, Crash, TokenForgotten
<1>7. ASSUME NEW a \in Staff, ResetForSchedule(a) \/ CancelForSchedule(a)
      PROVE  reminder'[k] = reminder[k]
  BY <1>7 DEF ResetForSchedule, CancelForSchedule, Unsent
<1>8. ASSUME NEW w \in Workers,
             ReadLectures(w) \/ FindDue(w) \/ FetchClaimed(w) \/ Send(w)
               \/ MarkSentThrows(w)
      PROVE  UNCHANGED reminder
  BY <1>8 DEF ReadLectures, FindDue, FetchClaimed, Send, MarkSentThrows
<1>9. ASSUME NEW a \in Staff,
             UpdateSchedule(a) \/ DeactivateSchedule(a) \/ RequestFails(a)
      PROVE  UNCHANGED reminder
  BY <1>9 DEF UpdateSchedule, DeactivateSchedule, RequestFails
<1>10. Tick \/ UNCHANGED vars => UNCHANGED reminder
  BY DEF Tick, vars
<1> QED
  BY <1>1, <1>2, <1>3, <1>4, <1>5, <1>6, <1>7, <1>8, <1>9, <1>10 DEF Next, Deliver

\* A reminder that was delivered, or given up for good, is never sent again,
\* revived or removed, by whichever process, edit or cancellation.
THEOREM SettledStaysFinal == Spec => SettledIsFinal
<1>1. Inv /\ [Next]_vars =>
        [\A k \in Key : reminder[k].status \in {"SENT", "FAILED"}
                          => reminder'[k] = reminder[k]]_vars
  BY NextLeavesSettled
<1> QED
  BY <1>1, Invariance, PTL DEF Spec, SettledIsFinal
=============================================================================
