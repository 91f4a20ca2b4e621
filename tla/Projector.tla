------------------------------ MODULE Projector ------------------------------
(***************************************************************************)
(* The code on the projector.  The page asks for a code when it is shown   *)
(* and every Interval from then on, whatever becomes of the answers; a     *)
(* code lives for CodeLife from when the server signs it, and stays on the *)
(* screen until another arrives.  A request may be answered late, out of   *)
(* order or not at all.                                                    *)
(***************************************************************************)
EXTENDS Integers

CONSTANTS
  Interval,   \* intervalMs
  CodeLife,   \* the expiresIn of a code
  LastTick    \* bound: the ticks that are explored

\* What the difference is for: "it covers the round trip".
Margin == CodeLife - Interval

ASSUME ProjectorAssumption ==
  /\ Interval \in Nat \ {0} /\ CodeLife \in Nat /\ LastTick \in Nat
  /\ 0 < Margin /\ Margin < Interval     \* 25 s and 30 s

VARIABLES
  clock,
  meeting,   \* ACTIVE, PENDING past its lecture's end, or CLOSED
  live,      \* is the page up, and what it knows of the session
  ask,       \* the page's requests by the time they were sent
  shown      \* the request whose code is on the screen

projectorVars == <<clock, meeting, live, ask, shown>>

NoCode == -1
Ticks == 0..LastTick
CodeRequest == [state : {"unsent", "sent", "signed", "shown", "failed"},
                iat : Ticks \union {NoCode}, answered : Ticks \union {NoCode}]
Unsent == [state |-> "unsent", iat |-> NoCode, answered |-> NoCode]
Sent == [Unsent EXCEPT !.state = "sent"]

ProjectorTypeOK ==
  /\ clock \in Ticks
  /\ meeting \in {"ACTIVE", "PENDING", "CLOSED"}
  /\ live \in [up : BOOLEAN, knows : {"ACTIVE", "CLOSED"}]
  /\ ask \in [Ticks -> CodeRequest]
  /\ shown \in Ticks \union {NoCode}

NothingAsked == [t \in Ticks |-> Unsent]
UpKnowing(knows) == [up |-> TRUE, knows |-> knows]

ProjectorInit ==
  /\ clock = 0 /\ meeting = "ACTIVE" /\ shown = NoCode
  /\ live = [up |-> FALSE, knows |-> "ACTIVE"] /\ ask = NothingAsked

-----------------------------------------------------------------------------
(* The page.                                                               *)

Rotating == live.up /\ live.knows # "CLOSED"
IsAsked(t) == ask[t].state # "unsent"

\* The effect runs: the first request goes at once, unless the session is in the
\* cache and closed; one that has not been read yet counts as open.
ShowPage ==
  /\ ~live.up
  /\ \E knows \in {"ACTIVE"} \union ({meeting} \ {"PENDING"}) :
       /\ live' = UpKnowing(knows)
       /\ ask' = IF knows = "CLOSED" THEN NothingAsked
                 ELSE [NothingAsked EXCEPT ![clock] = Sent]
  /\ UNCHANGED <<clock, meeting, shown>>

\* The clean-up: the timers are cleared and answers on their way are dropped.
\* The code goes with the page, or is taken down when the session
\* is read again, which nothing makes the page do.
StopsRotating == shown' = NoCode /\ ask' = NothingAsked /\ UNCHANGED <<clock, meeting>>
LeavePage ==
  /\ live.up /\ live' = [live EXCEPT !.up = FALSE]
  /\ StopsRotating
LearnsItIsClosed ==
  /\ Rotating /\ meeting = "CLOSED" /\ live' = UpKnowing("CLOSED")
  /\ StopsRotating

\* setInterval, from the moment of the first request.
DueAtExpiry(t) == t - CodeLife        \* mutant: refreshed when the code has run out
Due(t) == t - Interval
FallsDue(t) == Rotating /\ Due(t) \in Ticks /\ IsAsked(Due(t))

ClockTick ==
  /\ clock < LastTick /\ clock' = clock + 1
  /\ ask' = IF FallsDue(clock') THEN [ask EXCEPT ![clock'] = Sent] ELSE ask
  /\ UNCHANGED <<meeting, live, shown>>

\* The API: only a session in progress has a code.
SignCode(t) ==
  /\ ask[t].state = "sent"
  /\ ask' = [ask EXCEPT ![t] = IF meeting = "ACTIVE"
                               THEN [ask[t] EXCEPT !.state = "signed", !.iat = clock]
                               ELSE [ask[t] EXCEPT !.state = "failed"]]
  /\ UNCHANGED <<clock, meeting, live, shown>>

\* Whichever answer arrives last is the one that is shown.
TokenArrives(t) ==
  /\ ask[t].state = "signed"
  /\ ask' = [ask EXCEPT ![t] = [ask[t] EXCEPT !.state = "shown", !.answered = clock]]
  /\ shown' = t
  /\ UNCHANGED <<clock, meeting, live>>

\* An error is reported beside the code, which stays.
RequestLost(t) ==
  /\ ask[t].state \in {"sent", "signed"}
  /\ ask' = [ask EXCEPT ![t] = [ask[t] EXCEPT !.state = "failed"]]
  /\ UNCHANGED <<clock, meeting, live, shown>>

\* The lecture's hours end; the session is closed.
SessionMoves ==
  /\ \/ meeting = "ACTIVE" /\ meeting' \in {"PENDING", "CLOSED"}
     \/ meeting = "PENDING" /\ meeting' = "CLOSED"
  /\ UNCHANGED <<clock, live, ask, shown>>

ProjectorNext ==
  \/ ShowPage \/ LeavePage \/ LearnsItIsClosed \/ ClockTick \/ SessionMoves
  \/ \E t \in Ticks : SignCode(t) \/ TokenArrives(t) \/ RequestLost(t)

ProjectorSpec == ProjectorInit /\ [][ProjectorNext]_projectorVars

-----------------------------------------------------------------------------
(* Properties.                                                             *)

CodeExpired(t) == clock >= ask[t].iat + CodeLife

\* Not answered with a code within the margin.
Overdue(t) ==
  /\ IsAsked(t) /\ t + Margin <= clock
  /\ ask[t].answered = NoCode \/ ask[t].answered > t + Margin

\* "Refreshing at 30 would mean every cycle ends with a code that is already dead
\* on screen" (QrDisplay.tsx 8-13): a dead code is on the screen only when its own
\* request or one sent since has failed or outlasted the margin, however many
\* were answered in whatever order.
NoDeadCodeOnScreen ==
  shown # NoCode /\ CodeExpired(shown) => \E t \in shown..clock : Overdue(t)
=============================================================================
