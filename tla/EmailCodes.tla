----------------------------- MODULE EmailCodes -----------------------------
(***************************************************************************)
(* One-time codes by email and the two flows that spend them: proving an   *)
(* address before registering with it, and setting a new password.         *)
(*                                                                         *)
(* A request is a sequence of awaited statements; each is one action.  The *)
(* transaction that issues a code is two: its first statement sees the     *)
(* rows committed by then, and the rest shows at its commit.               *)
(***************************************************************************)
EXTENDS Integers, FiniteSets, Sequences

CONSTANTS
  Addresses, Askers,         \* addresses; requests that may be in flight at once
  RequireTicket,          \* STUDENT_EMAIL_VERIFICATION_REQUIRED
  MaxAttempts, PerHour,   \* OTP_MAX_ATTEMPTS, OTP_MAX_PER_EMAIL_PER_HOUR
  Cooldown, Ttl, Hour,    \* in minutes
  LastMinute,             \* bound: the clock stops here
  MaxCodes                \* bound: rows ever written

ASSUME CodesAssumption ==
  /\ IsFiniteSet(Askers) /\ Askers # {}
  /\ RequireTicket \in BOOLEAN
  /\ MaxAttempts \in Nat \ {0} /\ PerHour \in Nat \ {0}
  /\ Cooldown \in Nat /\ Ttl \in Nat /\ Hour \in Nat
  /\ LastMinute \in Nat /\ MaxCodes \in Nat

VARIABLES
  minute,    \* the clock
  codes,     \* EmailChallenge rows, in the order they were committed
  asking,    \* what each request has in flight
  holder,    \* the account behind each address, if any
  tickets,   \* addresses a registration ticket has been signed for
  joined,    \* history: addresses an account was registered with
  resets     \* history: new passwords set, per address

codeVars == <<minute, codes, asking, holder, tickets, joined, resets>>

Purposes == {"EMAIL_VERIFICATION", "PASSWORD_RESET"}
Holders == {"none", "student", "staff", "closed"}

\* `mailed` says that somebody was told the code; `uses` counts its spendings.
Code == [email : Addresses, purpose : Purposes, createdAt : Nat, attempts : Nat,
         consumed : BOOLEAN, mailed : BOOLEAN, uses : Nat]

NotAsking == [pc |-> "idle", email |-> "", purpose |-> "EMAIL_VERIFICATION",
              at |-> 0, coded |-> FALSE, code |-> 0, seen |-> {}]
Asking ==
  [pc : {"idle", "latest", "count", "retire", "create", "send", "burn",
         "miss", "spend", "account", "password", "register"},
   email : Addresses \union {""}, purpose : Purposes, at : Nat,
   coded : BOOLEAN, code : Nat, seen : SUBSET Nat]

CodesTypeOK ==
  /\ minute \in Nat
  /\ codes \in Seq(Code)
  /\ asking \in [Askers -> Asking]
  /\ \A a \in Askers :
       asking[a].pc \in {"send", "burn", "miss", "spend"}
         => asking[a].code \in DOMAIN codes
  /\ holder \in [Addresses -> Holders]
  /\ tickets \subseteq Addresses /\ joined \subseteq Addresses
  /\ resets \in [Addresses -> Nat]

CodesInit ==
  /\ minute = 0
  /\ codes = <<>>
  /\ asking = [a \in Askers |-> NotAsking]
  /\ holder \in [Addresses -> {"none", "student", "staff"}]
  /\ tickets = {} /\ joined = {}
  /\ resets = [e \in Addresses |-> 0]

Becomes(a, r) == asking' = [asking EXCEPT ![a] = r]
GoTo(a, pc) == Becomes(a, [asking[a] EXCEPT !.pc = pc])
GoBurn(a, i) == Becomes(a, [NotAsking EXCEPT !.pc = "burn", !.code = i])
Answers(a) == Becomes(a, NotAsking)
accounts == <<holder, tickets, joined, resets>>

MinutePasses ==
  /\ minute < LastMinute
  /\ minute' = minute + 1
  /\ UNCHANGED <<codes, asking, accounts>>

-----------------------------------------------------------------------------
(* Issuing.                                                                *)

CodesOf(e, p) == {i \in DOMAIN codes : codes[i].email = e /\ codes[i].purpose = p}

\* startEmailVerification: an address with an account is written to all the
\* same, but nobody is told a code.
StartVerification(a, e) ==
  /\ asking[a].pc = "idle"
  /\ Becomes(a, [NotAsking EXCEPT !.pc = "latest", !.email = e, !.at = minute,
                               !.coded = holder[e] = "none"])
  /\ UNCHANGED <<minute, codes, accounts>>

\* requestPasswordReset: no account, or a deactivated one, gets nothing.
RequestReset(a, e) ==
  /\ asking[a].pc = "idle"
  /\ holder[e] \in {"student", "staff"}
  /\ Becomes(a, [NotAsking EXCEPT !.pc = "latest", !.email = e, !.at = minute,
                               !.purpose = "PASSWORD_RESET",
                               !.coded = holder[e] = "student"])
  /\ UNCHANGED <<minute, codes, accounts>>

\* The newest row of the address and purpose, spendable or not.
CooledDown(e, p, t) ==
  \A i \in CodesOf(e, p) : codes[i].createdAt + Cooldown <= t

FindLatest(a) ==
  LET r == asking[a]
  IN /\ r.pc = "latest"
     /\ IF CooledDown(r.email, r.purpose, r.at) THEN GoTo(a, "count")
                                                ELSE Answers(a)
     /\ UNCHANGED <<minute, codes, accounts>>

\* Both purposes count, spent or not.
UnspentSince(e, t) ==  \* mutant: only live codes count against the ceiling
  {i \in DOMAIN codes : /\ codes[i].email = e /\ codes[i].createdAt >= t
                        /\ ~codes[i].consumed}
IssuedSince(e, t) == {i \in DOMAIN codes : codes[i].email = e /\ codes[i].createdAt >= t}

CountSince(a) ==
  LET r == asking[a]
  IN /\ r.pc = "count"
     /\ IF Cardinality(IssuedSince(r.email, r.at - Hour)) < PerHour
        THEN Becomes(a, [r EXCEPT !.pc = "retire", !.at = 0])
        ELSE Answers(a)
     /\ UNCHANGED <<minute, codes, accounts>>

Unspent(e, p) == {i \in CodesOf(e, p) : ~codes[i].consumed}

\* The updateMany of EmailChallengeRepository.issue.  A spending of one of
\* these rows before the commit is in effect one before this statement.
Retire(a) ==
  /\ asking[a].pc = "retire"
  /\ Becomes(a, [asking[a] EXCEPT !.pc = "create",
                !.seen = Unspent(asking[a].email, asking[a].purpose)])
  /\ UNCHANGED <<minute, codes, accounts>>

WithRetired(seen) ==
  [i \in DOMAIN codes |->
     [codes[i] EXCEPT !.consumed = codes[i].consumed \/ i \in seen]]

CreateCode(a) ==
  LET r == asking[a]
  IN /\ r.pc = "create"
     /\ Len(codes) < MaxCodes
     /\ codes' = Append(WithRetired(r.seen),
          [email |-> r.email, purpose |-> r.purpose, createdAt |-> minute,
           attempts |-> 0, consumed |-> FALSE, mailed |-> FALSE, uses |-> 0])
     /\ Becomes(a, [NotAsking EXCEPT !.pc = "send", !.coded = r.coded,
                                  !.code = Len(codes) + 1])
     /\ UNCHANGED <<minute, accounts>>

Mailed(i) == codes' = [codes EXCEPT ![i].mailed = TRUE]

\* A code whose mail fails is burned; the notice without a code is not.
SendMail(a) ==
  LET r == asking[a]
  IN /\ r.pc = "send"
     /\ \/ /\ r.coded
           /\ Mailed(r.code)
           /\ Answers(a)
        \/ /\ IF r.coded THEN GoBurn(a, r.code) ELSE Answers(a)
           /\ UNCHANGED codes
     /\ UNCHANGED <<minute, accounts>>

BurnCode(a) ==
  /\ asking[a].pc = "burn"
  /\ codes' = [codes EXCEPT ![asking[a].code].consumed = TRUE]
  /\ Answers(a)
  /\ UNCHANGED <<minute, accounts>>

-----------------------------------------------------------------------------
(* Spending.                                                               *)

LiveCodesUncounted(e, p) ==  \* mutant: attempts are left to the burn at the ceiling
  {i \in CodesOf(e, p) : ~codes[i].consumed /\ codes[i].createdAt + Ttl > minute}
LiveCodes(e, p) ==
  {i \in CodesOf(e, p) : /\ ~codes[i].consumed
                    /\ codes[i].createdAt + Ttl > minute
                    /\ codes[i].attempts < MaxAttempts}

IsNewest(i, S) == i \in S /\ \A j \in S : codes[j].createdAt <= codes[i].createdAt

\* confirmEmailVerification and resetPassword call verify first: the newest
\* spendable row is read and the code typed in compared with it.  Only a code
\* somebody was told can match.
Verify(a, e, p) ==
  /\ asking[a].pc = "idle"
  /\ \E i \in LiveCodes(e, p) :
       /\ IsNewest(i, LiveCodes(e, p))
       /\ \E pc \in {"miss"} \union (IF codes[i].mailed THEN {"spend"} ELSE {}) :
            Becomes(a, [NotAsking EXCEPT !.pc = pc, !.email = e, !.purpose = p,
                                      !.code = i])
  /\ UNCHANGED <<minute, codes, accounts>>

RecordMiss(a) ==
  LET i == asking[a].code
  IN /\ asking[a].pc = "miss"
     /\ codes' = [codes EXCEPT ![i].attempts = codes[i].attempts + 1]
     /\ IF codes[i].attempts + 1 >= MaxAttempts THEN GoBurn(a, i)
                                                 ELSE Answers(a)
     /\ UNCHANGED <<minute, accounts>>

\* UPDATE ... WHERE consumedAt IS NULL: the database lets one of them win.
ConsumableAlways(i) == TRUE  \* mutant: the UPDATE matches on the id alone
Consumable(i) == ~codes[i].consumed
Spend(a) ==
  LET r == asking[a]
  IN /\ r.pc = "spend"
     /\ IF Consumable(r.code)
        THEN /\ codes' = [codes EXCEPT ![r.code].consumed = TRUE,
                                       ![r.code].uses = codes[r.code].uses + 1]
             /\ IF r.purpose = "PASSWORD_RESET"
                THEN GoTo(a, "account") /\ UNCHANGED tickets
                ELSE Answers(a) /\ tickets' = tickets \union {r.email}
        ELSE Answers(a) /\ UNCHANGED <<codes, tickets>>
     /\ UNCHANGED <<minute, holder, joined, resets>>

\* resetPassword looks at the account only once the code is spent.
FindAccount(a) ==
  /\ asking[a].pc = "account"
  /\ IF holder[asking[a].email] = "student" THEN GoTo(a, "password")
                                            ELSE Answers(a)
  /\ UNCHANGED <<minute, codes, accounts>>

UpdatePassword(a) ==
  LET e == asking[a].email
  IN /\ asking[a].pc = "password"
     /\ resets' = [resets EXCEPT ![e] = resets[e] + 1]
     /\ Answers(a)
     /\ UNCHANGED <<minute, codes, holder, tickets, joined>>

-----------------------------------------------------------------------------
(* Registering, and what administrators do meanwhile.                      *)

\* assertEmailProven: the ticket must be for the address being registered.  The
\* half hour a ticket lasts is left out: here one can be used for ever.
ProvenUnasked(e) == TRUE  \* mutant: the ticket is not asked for
Proven(e) == RequireTicket => e \in tickets

BeginRegister(a, e) ==
  /\ asking[a].pc = "idle"
  /\ Proven(e)
  /\ holder[e] = "none"
  /\ Becomes(a, [NotAsking EXCEPT !.pc = "register", !.email = e])
  /\ UNCHANGED <<minute, codes, accounts>>

\* User.email is unique: the later of two registrations fails.
CreateUser(a) ==
  LET e == asking[a].email
  IN /\ asking[a].pc = "register"
     /\ IF holder[e] = "none"
        THEN /\ holder' = [holder EXCEPT ![e] = "student"]
             /\ joined' = joined \union {e}
        ELSE UNCHANGED <<holder, joined>>
     /\ Answers(a)
     /\ UNCHANGED <<minute, codes, tickets, resets>>

\* An administrator deactivates or reactivates a student.
ToggleAccount(e) ==
  /\ \/ holder[e] = "student" /\ holder' = [holder EXCEPT ![e] = "closed"]
     \/ holder[e] = "closed" /\ holder' = [holder EXCEPT ![e] = "student"]
  /\ UNCHANGED <<minute, codes, asking, tickets, joined, resets>>

\* The process that runs a request dies between two statements.
RequestDies(a) ==
  /\ asking[a].pc # "idle"
  /\ Answers(a)
  /\ UNCHANGED <<minute, codes, accounts>>

AskerStep(a) ==
  \/ \E e \in Addresses : StartVerification(a, e) \/ RequestReset(a, e)
                         \/ BeginRegister(a, e)
  \/ \E e \in Addresses, p \in Purposes : Verify(a, e, p)
  \/ FindLatest(a) \/ CountSince(a) \/ Retire(a) \/ CreateCode(a)
  \/ SendMail(a) \/ BurnCode(a) \/ RecordMiss(a) \/ Spend(a)
  \/ FindAccount(a) \/ UpdatePassword(a) \/ CreateUser(a) \/ RequestDies(a)

CodesNext ==
  \/ MinutePasses
  \/ \E a \in Askers : AskerStep(a)
  \/ \E e \in Addresses : ToggleAccount(e)

CodesSpec == CodesInit /\ [][CodesNext]_codeVars

-----------------------------------------------------------------------------
(* Properties.                                                             *)

\* How far the attempt ceiling can be overrun: findLive filters on attempts
\* before any of the racing guesses is counted, so a code gets at most
\* MaxAttempts wrong guesses and one more for every other request that had read
\* it by then.  That is more than the documents say (see ALimitHolds), and
\* exactly what they say when one request is in flight.
GuessesAreBounded ==
  \A i \in DOMAIN codes :
    codes[i].attempts <= MaxAttempts - 1 + Cardinality(Askers)

\* How far the issue throttles can be overrun: neither is in a transaction with
\* the row it admits, so requests that race may each add one; never more,
\* whichever way they are delayed.  The gap is kept per purpose only.  Both are
\* less than the documents say (see ALimitHolds).
ThrottleHolds ==
  \A i \in DOMAIN codes :
    LET e == codes[i].email
        Within(span) == {j \in DOMAIN codes :
          /\ codes[j].email = e
          /\ codes[j].createdAt \in codes[i].createdAt..(codes[i].createdAt + span - 1)}
    IN /\ Cardinality(Within(Hour)) < PerHour + Cardinality(Askers)
       /\ Cardinality({j \in Within(Cooldown) : codes[j].purpose = codes[i].purpose})
            <= Cardinality(Askers)

\* The limits as they are written down, each of one address.  "Codes one address
\* may be sent per hour" and "Minimum gap between two sends to the same address"
\* (env.ts 225 and 233), "five wrong guesses burn the code, so an attacker gets
\* 5 tries per code" and "only the newest email works"
\* (email-challenge.service.ts 22-30).
MailedWithin(e, span, t) ==
  {j \in DOMAIN codes : /\ codes[j].email = e /\ codes[j].mailed
                        /\ codes[j].createdAt \in t..(t + span - 1)}
HourKept(e) ==
  \A i \in DOMAIN codes : Cardinality(MailedWithin(e, Hour, codes[i].createdAt)) <= PerHour
GapKept(e) ==
  \A i \in DOMAIN codes : Cardinality(MailedWithin(e, Cooldown, codes[i].createdAt)) <= 1
TriesKept(e) ==
  \A i \in DOMAIN codes : codes[i].email = e => codes[i].attempts <= MaxAttempts
OnlyNewestWorks(e) ==
  \A p \in Purposes : \A i \in LiveCodes(e, p), j \in CodesOf(e, p) :
    codes[i].mailed /\ codes[j].mailed => j <= i

\* "They are a set" (email-challenge.service.ts 32): the five limits stand
\* together.  Two requests that race overrun all but the expiry, and this, the
\* weakest thing the documents imply, says that one of them at least holds.
ALimitHolds ==
  \A e \in Addresses : HourKept(e) \/ GapKept(e) \/ TriesKept(e) \/ OnlyNewestWorks(e)

\* A code once spent, burned or superseded is never spent again, whatever a
\* request that had read it before still does.
RetiredStaysRetired ==
  [][\A i \in DOMAIN codes :
       codes[i].consumed => /\ codes'[i].consumed
                            /\ codes'[i].uses = codes[i].uses]_codeVars

SpentFor(e, p) == {i \in CodesOf(e, p) : codes[i].uses > 0}

\* With the flag on, nobody is registered under an address for which no code
\* was spent; and every new password was paid for with a code of its own.
NothingUnproven ==
  /\ RequireTicket => \A e \in joined : SpentFor(e, "EMAIL_VERIFICATION") # {}
  /\ \A e \in Addresses :
       resets[e] <= Cardinality(SpentFor(e, "PASSWORD_RESET"))
=============================================================================
