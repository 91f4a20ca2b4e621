------------------------------ MODULE Accounts ------------------------------
(***************************************************************************)
(* Accounts and their sign-in identities, two systems that share no        *)
(* transaction: User rows in the database, identities and their addresses  *)
(* at the provider (AUTH_PROVIDER = supabase).  Staff decide about         *)
(* registrations, edit, create and remove accounts; people complete their  *)
(* registration and are authenticated by whatever token they still hold.   *)
(*                                                                         *)
(* A request is a sequence of awaited calls; each call that can be raced   *)
(* is one action, with the checks the code makes before the next await.    *)
(***************************************************************************)
EXTENDS Naturals, FiniteSets

CONSTANTS
  People, Role,        \* rows by university ID, and the role of each
  Identities, Emails,  \* at the provider
  Clerks,              \* requests that may be in flight at once
  Registered,          \* people who have a row from the start,
  FirstAddress,        \* and the address of each
  Historied,           \* people with attendance or authored content
  Edits,               \* bound: what the staff's edits may say
  NoOne, NoEmail, NoIdentity

Roles == {"SYSTEM_OWNER", "UNIVERSITY_ADMIN", "DEPARTMENT_ADMIN", "INSTRUCTOR",
          "STUDENT"}
Edit == [email : Emails \union {NoEmail}, active : {"keep", "on", "off"},
         verified : {"keep", "on", "off"}, title : BOOLEAN]

ASSUME AccountsAssumption ==
  /\ Role \in [People -> Roles]
  /\ Registered \subseteq People /\ Historied \subseteq People
  /\ FirstAddress \in [Registered -> Emails]
  /\ \A p, q \in Registered : FirstAddress[p] = FirstAddress[q] => p = q
  /\ Edits \subseteq Edit
  /\ NoOne \notin People /\ NoEmail \notin Emails /\ NoIdentity \notin Identities

VARIABLES
  user,       \* User rows
  identity,   \* the address of each identity at the provider
  had,        \* the addresses an identity has had: a token may still claim any
  notice,     \* the last decision each person was notified of
  clerk,      \* what each request has in flight
  excused     \* history: identities left behind by a death, a failure or a removal

accountVars == <<user, identity, had, notice, clerk, excused>>

\* A row that was removed keeps its place: a later row has another id.
NoUser == [status |-> "NONE", active |-> FALSE, verified |-> FALSE, by |-> NoOne,
           email |-> NoEmail, auth |-> NoIdentity]
Removed == [NoUser EXCEPT !.status = "REMOVED"]
User == {NoUser, Removed} \union
  [status : {"PENDING", "ACTIVE", "REJECTED"}, active : BOOLEAN,
   verified : BOOLEAN, by : People \union {NoOne}, email : Emails,
   auth : Identities \union {NoIdentity}]

Unchanging == [email |-> NoEmail, active |-> "keep", verified |-> "keep",
               title |-> FALSE]
Idle == [pc |-> "idle", actor |-> NoOne, target |-> NoOne, edit |-> Unchanging,
         auth |-> NoIdentity, previous |-> NoEmail, beaten |-> FALSE]
Request ==
  [pc : {"idle", "approve", "reject", "count", "provider", "write", "restore",
         "removing", "delete", "provision", "insert", "undo", "complete", "sync"},
   actor : People \union {NoOne}, target : People \union {NoOne},
   edit : Edit, auth : Identities \union {NoIdentity},
   previous : Emails \union {NoEmail}, beaten : BOOLEAN]

AccountsTypeOK ==
  /\ user \in [People -> User]
  /\ identity \in [Identities -> Emails \union {NoEmail}]
  /\ had \in [Identities -> SUBSET Emails]
  /\ notice \in [People -> {"NONE", "ACCOUNT_APPROVED", "ACCOUNT_REJECTED"}]
  /\ clerk \in [Clerks -> Request]
  /\ excused \subseteq Identities

Exists(p) == user[p].status \notin {"NONE", "REMOVED"}
TakenBy(e) == {p \in People : Exists(p) /\ user[p].email = e}
Linked(i) == {p \in People : Exists(p) /\ user[p].auth = i}
Owners == {p \in People : Role[p] = "SYSTEM_OWNER" /\ Exists(p)}
ActiveOwners == {p \in Owners : user[p].active}

\* The gate of `authenticate`.
Admitted(p) == Exists(p) /\ user[p].status # "REJECTED" /\ user[p].active

\* Students wait for a decision; staff were made by somebody who had decided.
FirstRow(p, e) ==
  [NoUser EXCEPT !.status = IF Role[p] = "STUDENT" THEN "PENDING" ELSE "ACTIVE",
                 !.active = TRUE, !.verified = Role[p] # "STUDENT", !.email = e]

AccountsInit ==
  /\ user = [p \in People |-> IF p \in Registered
                              THEN FirstRow(p, FirstAddress[p]) ELSE NoUser]
  /\ identity = [i \in Identities |-> NoEmail]
  /\ had = [i \in Identities |-> {}]
  /\ notice = [p \in People |-> "NONE"]
  /\ clerk = [c \in Clerks |-> Idle]
  /\ excused = {}

Holds(c, r) == clerk' = [clerk EXCEPT ![c] = r]
Proceed(c, pc) == Holds(c, [clerk[c] EXCEPT !.pc = pc])
Answered(c) == Holds(c, Idle)
providerVars == <<identity, had, excused>>

-----------------------------------------------------------------------------
(* Decisions about a registration.                                         *)

MayApprove(p) == Admitted(p) /\ Role[p] # "STUDENT"
MayAdminister(p) == Admitted(p) /\ Role[p] \in {"UNIVERSITY_ADMIN", "SYSTEM_OWNER"}
MayOwn(p) == Admitted(p) /\ Role[p] = "SYSTEM_OWNER"

\* loadPendingCandidate asks for a student and nothing more; one already
\* verified is not decided about again.
BeginDecision(c, actor, p, verdict) ==
  /\ MayApprove(actor)
  /\ Exists(p) /\ Role[p] = "STUDENT" /\ ~user[p].verified
  /\ Holds(c, [Idle EXCEPT !.pc = verdict, !.actor = actor, !.target = p])
  /\ UNCHANGED <<user, providerVars, notice>>

Approved(u, actor) ==
  [u EXCEPT !.verified = TRUE, !.status = "ACTIVE", !.by = actor]
Rejected(u) == [u EXCEPT !.active = FALSE, !.status = "REJECTED"]

\* updateWithNotification: the row and the notice, in one transaction.
Approve(c) ==
  LET r == clerk[c]
  IN /\ r.pc = "approve"
     /\ Exists(r.target) /\ Exists(r.actor)
     /\ user' = [user EXCEPT ![r.target] = Approved(user[r.target], r.actor)]
     /\ notice' = [notice EXCEPT ![r.target] = "ACCOUNT_APPROVED"]
     /\ Answered(c)
     /\ UNCHANGED providerVars

Reject(c) ==
  LET r == clerk[c]
  IN /\ r.pc = "reject"
     /\ Exists(r.target)
     /\ user' = [user EXCEPT ![r.target] = Rejected(user[r.target])]
     /\ notice' = [notice EXCEPT ![r.target] = "ACCOUNT_REJECTED"]
     /\ Answered(c)
     /\ UNCHANGED providerVars

-----------------------------------------------------------------------------
(* Edits.                                                                  *)

NewAddress(p, edit) == edit.email \notin {NoEmail, user[p].email}
\* What an update waits for next: the provider, if the address of a linked
\* account changes, or the database.
Onward(p, edit) ==
  IF NewAddress(p, edit) /\ user[p].auth # NoIdentity THEN "provider" ELSE "write"
RefusesTitle(p, edit) == edit.title /\ Role[p] # "INSTRUCTOR"

\* AdminService.updateUser: staff and students only.
BeginAdminUpdate(c, actor, p, edit) ==
  /\ MayAdminister(actor)
  /\ Exists(p) /\ Role[p] \in {"INSTRUCTOR", "STUDENT"}
  /\ edit.verified = "keep"
  /\ NewAddress(p, edit) => TakenBy(edit.email) \subseteq {p}
  /\ Onward(p, edit) = "write" => ~RefusesTitle(p, edit)
  /\ Holds(c, [Idle EXCEPT !.pc = Onward(p, edit), !.target = p,
                           !.edit = edit, !.auth = user[p].auth,
                           !.previous = user[p].email])
  /\ UNCHANGED <<user, providerVars, notice>>

\* UserService.update: anybody's row, but not to deactivate oneself, and the
\* last active owner is not to be deactivated.
BeginOwnerUpdate(c, actor, p, edit) ==
  /\ MayOwn(actor)
  /\ Exists(p) /\ ~edit.title
  /\ NewAddress(p, edit) => TakenBy(edit.email) = {}
  /\ ~(p = actor /\ edit.active = "off")
  /\ Holds(c, [Idle EXCEPT
       !.pc = IF Role[p] = "SYSTEM_OWNER" /\ edit.active = "off" THEN "count"
              ELSE Onward(p, edit),
       !.target = p, !.edit = edit, !.auth = user[p].auth,
       !.previous = user[p].email])
  /\ UNCHANGED <<user, providerVars, notice>>

\* AuthService.updateProfile: the address belongs to the provider.
MayTakeAddress(p, e) == TakenBy(e) \subseteq {p}  \* mutant: as without a provider
MayKeepAddress(p, e) == e = user[p].email
BeginProfile(c, p, e) ==
  /\ Admitted(p)
  /\ MayKeepAddress(p, e)
  /\ Holds(c, [Idle EXCEPT !.pc = "write", !.target = p,
                           !.edit.email = e])
  /\ UNCHANGED <<user, providerVars, notice>>

\* assertNotLastOwner counts the others that are active.
OtherOwnersOfAnyKind(p) == Owners \ {p}  \* mutant: deactivated owners count too
OtherOwners(p) == ActiveOwners \ {p}
CountOwners(c) ==
  LET r == clerk[c]
  IN /\ r.pc \in {"count", "removing"}
     /\ IF OtherOwners(r.target) = {} THEN Answered(c)
        ELSE Proceed(c, IF r.pc = "removing" THEN "delete"
                        ELSE Onward(r.target, r.edit))
     /\ UNCHANGED <<user, providerVars, notice>>

\* updateUserById.  AdminService refuses a title for anybody but an instructor
\* only now, with the identity already moved.
MoveIdentity(c) ==
  LET r == clerk[c]
  IN /\ r.pc = "provider"
     /\ \/ /\ \A i \in Identities \ {r.auth} : identity[i] # r.edit.email
           /\ identity' = [identity EXCEPT ![r.auth] = r.edit.email]
           /\ had' = [had EXCEPT ![r.auth] = had[r.auth] \union {r.edit.email}]
           /\ IF RefusesTitle(r.target, r.edit) THEN Answered(c)
                                                ELSE Proceed(c, "write")
        \/ Answered(c) /\ UNCHANGED <<identity, had>>
     /\ UNCHANGED <<user, notice, excused>>

Flag(old, f) == IF f = "keep" THEN old ELSE f = "on"
Edited(u, edit) ==
  [u EXCEPT !.email = IF edit.email = NoEmail THEN u.email ELSE edit.email,
            !.active = Flag(u.active, edit.active),
            !.verified = Flag(u.verified, edit.verified)]

\* Requests that have counted the owners and see the count go stale.
Beaten(c, p) ==
  [d \in Clerks |->
     IF d = c THEN Idle
     ELSE [clerk[d] EXCEPT !.beaten = clerk[d].beaten \/
             (p \in ActiveOwners /\ clerk[d].pc \in {"provider", "write", "delete"})]]

Write(c) ==
  LET r == clerk[c]
  IN /\ r.pc = "write"
     /\ \/ /\ Exists(r.target)
           /\ r.edit.email # NoEmail => TakenBy(r.edit.email) \subseteq {r.target}
           /\ user' = [user EXCEPT ![r.target] = Edited(user[r.target], r.edit)]
           /\ IF r.edit.active = "off" THEN clerk' = Beaten(c, r.target)
                                       ELSE Answered(c)
        \/ /\ IF r.auth # NoIdentity /\ r.edit.email \notin {NoEmail, r.previous}
              THEN Proceed(c, "restore") ELSE Answered(c)
           /\ UNCHANGED user
     /\ UNCHANGED <<providerVars, notice>>

\* The compensation may fail too.
Restore(c) ==
  LET r == clerk[c]
  IN /\ r.pc = "restore"
     /\ \/ /\ \A i \in Identities \ {r.auth} : identity[i] # r.previous
           /\ identity' = [identity EXCEPT ![r.auth] = r.previous]
        \/ UNCHANGED identity
     /\ Answered(c)
     /\ UNCHANGED <<user, had, notice, excused>>

\* UserService.remove: not oneself, not the last owner, not somebody with a
\* history.  The identity stays at the provider.
BeginRemove(c, actor, p) ==
  /\ MayOwn(actor) /\ p # actor
  /\ Exists(p) /\ p \notin Historied
  /\ Holds(c, [Idle EXCEPT
       !.pc = IF Role[p] = "SYSTEM_OWNER" THEN "removing" ELSE "delete",
       !.target = p])
  /\ UNCHANGED <<user, providerVars, notice>>

Forgotten(u, p) == IF u.by = p THEN [u EXCEPT !.by = NoOne] ELSE u

Delete(c) ==
  LET p == clerk[c].target
  IN /\ clerk[c].pc = "delete"
     /\ Exists(p)
     /\ user' = [[q \in People |-> Forgotten(user[q], p)] EXCEPT ![p] = Removed]
     /\ notice' = [notice EXCEPT ![p] = "NONE"]
     /\ excused' = excused \union ({user[p].auth} \ {NoIdentity})
     /\ clerk' = Beaten(c, p)
     /\ UNCHANGED <<identity, had>>

-----------------------------------------------------------------------------
(* Creating an account from the console: the identity, then the row.       *)

BeginCreate(c, actor, p, e, verified) ==
  /\ \/ MayAdminister(actor) /\ verified = "on"
        /\ Role[p] \notin {"SYSTEM_OWNER", "UNIVERSITY_ADMIN"}
     \/ MayOwn(actor) /\ verified \in {"on", "off"}
  /\ TakenBy(e) = {}
  /\ Holds(c, [Idle EXCEPT !.pc = "provision", !.target = p,
                           !.edit = [Unchanging EXCEPT !.email = e,
                                                       !.verified = verified]])
  /\ UNCHANGED <<user, providerVars, notice>>

Unused(i) == had[i] = {}
AddressFree(e) == \A i \in Identities : identity[i] # e

Provision(c) ==
  LET r == clerk[c]
  IN /\ r.pc = "provision"
     /\ \/ \E i \in Identities :
             /\ Unused(i) /\ AddressFree(r.edit.email)
             /\ identity' = [identity EXCEPT ![i] = r.edit.email]
             /\ had' = [had EXCEPT ![i] = {r.edit.email}]
             /\ Holds(c, [r EXCEPT !.pc = "insert", !.auth = i])
        \/ Answered(c) /\ UNCHANGED <<identity, had>>
     /\ UNCHANGED <<user, notice, excused>>

Created(r) ==
  [NoUser EXCEPT !.status = IF r.edit.verified = "on" THEN "ACTIVE" ELSE "PENDING",
                 !.verified = r.edit.verified = "on", !.active = TRUE,
                 !.email = r.edit.email, !.auth = r.auth]
Insertable(r) == /\ user[r.target] = NoUser
                 /\ TakenBy(r.edit.email) = {} /\ Linked(r.auth) = {}

\* A failed insert is compensated at the provider.
NoUndo(c) == Answered(c)  \* mutant: the identity is left behind
AfterFailedInsert(c) == Proceed(c, "undo")
Insert(c) ==
  LET r == clerk[c]
  IN /\ r.pc = "insert"
     /\ \/ /\ Insertable(r)
           /\ user' = [user EXCEPT ![r.target] = Created(r)]
           /\ Answered(c)
        \/ AfterFailedInsert(c) /\ UNCHANGED user
     /\ UNCHANGED <<providerVars, notice>>

Undo(c) ==
  LET r == clerk[c]
  IN /\ r.pc = "undo"
     /\ \/ identity' = [identity EXCEPT ![r.auth] = NoEmail] /\ UNCHANGED excused
        \/ excused' = excused \union {r.auth} /\ UNCHANGED identity
     /\ Answered(c)
     /\ UNCHANGED <<user, had, notice>>

-----------------------------------------------------------------------------
(* What people do with their identities.                                   *)

\* The provider's own sign-up, and its confirmed change of address.
SignUp(i, e) ==
  /\ Unused(i) /\ AddressFree(e)
  /\ identity' = [identity EXCEPT ![i] = e]
  /\ had' = [had EXCEPT ![i] = {e}]
  /\ excused' = excused \union {i}
  /\ UNCHANGED <<user, notice, clerk>>

ChangeAddress(i, e) ==
  /\ identity[i] # NoEmail /\ AddressFree(e)
  /\ identity' = [identity EXCEPT ![i] = e]
  /\ had' = [had EXCEPT ![i] = had[i] \union {e}]
  /\ UNCHANGED <<user, notice, clerk, excused>>

\* completeSupabaseRegistration: the address is the one the token claims.
BeginComplete(c, i, e, p) ==
  /\ Linked(i) = {}
  /\ Role[p] = "STUDENT" /\ user[p] = NoUser /\ TakenBy(e) = {}
  /\ Holds(c, [Idle EXCEPT !.pc = "complete", !.target = p, !.auth = i,
                           !.edit = [Unchanging EXCEPT !.email = e]])
  /\ UNCHANGED <<user, providerVars, notice>>

\* Of two callbacks that race, the unique authUserId lets one insert; the other
\* finds the winner's row and answers with it.
Complete(c) ==
  LET r == clerk[c]
  IN /\ r.pc = "complete"
     /\ IF Insertable(r)
        THEN user' = [user EXCEPT ![r.target] =
                        [Created(r) EXCEPT !.verified = FALSE, !.status = "PENDING"]]
        ELSE UNCHANGED user
     /\ Answered(c)
     /\ UNCHANGED <<providerVars, notice>>

\* authenticate copies the address of the token into the row.
BeginSync(c, i, e, p) ==
  /\ p \in Linked(i)
  /\ user[p].email # e /\ TakenBy(e) = {}
  /\ Holds(c, [Idle EXCEPT !.pc = "sync", !.target = p,
                           !.edit = [Unchanging EXCEPT !.email = e]])
  /\ UNCHANGED <<user, providerVars, notice>>

Sync(c) ==
  LET r == clerk[c]
  IN /\ r.pc = "sync"
     /\ IF Exists(r.target) /\ TakenBy(r.edit.email) \subseteq {r.target}
        THEN user' = [user EXCEPT ![r.target].email = r.edit.email]
        ELSE UNCHANGED user
     /\ Answered(c)
     /\ UNCHANGED <<providerVars, notice>>

\* The process dies between two calls; an identity it held is left behind.
RequestLost(c) ==
  /\ clerk[c].pc # "idle"
  /\ excused' = excused \union ({clerk[c].auth} \ {NoIdentity})
  /\ Answered(c)
  /\ UNCHANGED <<user, identity, had, notice>>

\* A clerk takes up one request at a time.
IsFree(c) == clerk[c].pc = "idle"

DecisionStep(c) ==
  \/ IsFree(c) /\ \E a, p \in People, v \in {"approve", "reject"} : BeginDecision(c, a, p, v)
  \/ Approve(c) \/ Reject(c)

Administrators == {a \in People : MayAdminister(a)}
BeginAccountEdit(c) ==
  \/ \E a \in Administrators, p \in People :
       \/ \E edit \in Edits :
            BeginAdminUpdate(c, a, p, edit) \/ BeginOwnerUpdate(c, a, p, edit)
       \/ BeginRemove(c, a, p)
  \/ \E p \in People, e \in Emails : BeginProfile(c, p, e)
EditStep(c) ==
  \/ IsFree(c) /\ BeginAccountEdit(c)
  \/ CountOwners(c) \/ MoveIdentity(c) \/ Write(c) \/ Restore(c) \/ Delete(c)

BeginCreation(c) ==
  \/ \E p \in People, e \in Emails :
       /\ user[p] = NoUser
       /\ \E a \in Administrators, v \in {"on", "off"} : BeginCreate(c, a, p, e, v)
  \/ \E i \in Identities, p \in People : \E e \in had[i] :
       BeginComplete(c, i, e, p) \/ BeginSync(c, i, e, p)
CreationStep(c) ==
  \/ IsFree(c) /\ BeginCreation(c)
  \/ Provision(c) \/ Insert(c) \/ Undo(c) \/ Complete(c) \/ Sync(c)

AccountsNext ==
  \/ \E c \in Clerks :
       DecisionStep(c) \/ EditStep(c) \/ CreationStep(c) \/ RequestLost(c)
  \/ \E i \in Identities, e \in Emails : SignUp(i, e) \/ ChangeAddress(i, e)

AccountsSpec == AccountsInit /\ [][AccountsNext]_accountVars
-----------------------------------------------------------------------------
(* Properties.                                                             *)

\* "The platform must always retain at least one active SYSTEM_OWNER."
OwnerRemains == ActiveOwners # {}

\* The last owner falls only to a race: to a request whose count of the others
\* went stale because another owner was deactivated or removed after it.
OwnersFallOnlyToARace ==
  [][ActiveOwners # {} /\ ActiveOwners' = {}
       => \E c \in Clerks : clerk[c].beaten]_accountVars

\* "Your registration has been approved -- your timetable, course material and
\* attendance scanning are now available" (notification.content.ts 141): whoever
\* is told so is let in by `authenticate` at that moment.
ApprovedIsLetIn ==
  [][\A p \in People :
       notice[p] # "ACCOUNT_APPROVED" /\ notice'[p] = "ACCOUNT_APPROVED"
         => Admitted(p)']_accountVars

\* The address of a linked account is one its identity has had: no edit, no
\* compensation and no stale token gives a row an address of somebody else's.
AddressFromTheProvider ==
  \A p \in People :
    user[p].auth # NoIdentity => user[p].email \in had[user[p].auth]

\* An identity made for an account has its account, or a request that will
\* make or unmake it, unless something died, failed or was removed.
NoIdentityAbandoned ==
  \A i \in Identities \ excused :
    identity[i] # NoEmail =>
      \/ Linked(i) # {}
      \/ \E c \in Clerks : clerk[c].auth = i /\ clerk[c].pc \in {"insert", "undo"}
=============================================================================
