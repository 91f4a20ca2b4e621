------------------------------ MODULE MCAccounts ------------------------------
(* Two owners, of whom o1 cannot be removed, a student who waits for a     *)
(* decision and one who has not registered.                                *)
EXTENDS Accounts, TLC

CONSTANTS o1, o2, s1, s2

TheirRoles ==
  (o1 :> "SYSTEM_OWNER") @@ (o2 :> "SYSTEM_OWNER") @@ (s1 :> "STUDENT") @@ (s2 :> "STUDENT")
TheirAddresses == (o1 :> "a1") @@ (o2 :> "a2") @@ (s1 :> "a3")

Untouched == [email |-> NoEmail, active |-> "keep", verified |-> "keep", title |-> FALSE]
SomeEdits ==
  {[Untouched EXCEPT !.active = "off"], [Untouched EXCEPT !.active = "on"],
   [Untouched EXCEPT !.verified = "on"], [Untouched EXCEPT !.email = "a4"],
   [Untouched EXCEPT !.email = "a4", !.title = TRUE]}

\* What the database alone decides, and what the provider is asked to do, are
\* explored apart.
OverDecisions ==
  /\ identity' = identity
  /\ \A c \in Clerks : clerk'[c].edit.email = NoEmail
OverIdentities ==
  /\ \A i \in Identities : had'[i] \subseteq {"a3", "a4"}
  /\ \A c \in Clerks :
       /\ clerk'[c].pc \notin {"approve", "reject", "count", "removing", "delete"}
       /\ clerk'[c].target \in {s1, s2, NoOne}
       /\ clerk'[c].edit.active = "keep"
       /\ clerk'[c].edit.email = NoEmail => clerk'[c].edit.verified = "keep"
=============================================================================
