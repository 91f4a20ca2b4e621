------------------------------ MODULE WebSession ------------------------------
(***************************************************************************)
(* One tab of the web console: the token in local storage, the user the    *)
(* page shows, and the calls in flight, each with the token its header     *)
(* carries.  Any other tab shares the token and not the user.              *)
(***************************************************************************)
EXTENDS Naturals

CONSTANTS
  Visitors,      \* who has an account
  Calls,       \* calls that may be in flight at once
  Builds,      \* the builds looked at: TRUE signs in with the identity provider
  MaxTokens    \* bound: tokens ever issued

ASSUME WebAssumption ==
  Builds \subseteq BOOLEAN /\ MaxTokens \in Nat \ {0} /\ "nobody" \notin Visitors

VARIABLES
  provider, \* the build: it never changes
  token,    \* in local storage, 0 for none
  signedIn, \* the provider's session: the token it would hand out, 0 for none
  leaving,  \* signOut has been asked for and has not ended
  shown,    \* the user of AuthContext
  loading,  \* the session is being restored
  call,     \* the calls in flight
  ownerOf,  \* whose each token is, in order of issue
  dead,     \* tokens the server rejects
  crossed   \* history: since the page was loaded somebody signed in over a call in
            \* flight, left while a save was in flight, or another tab acted

webVars == <<provider, token, signedIn, leaving, shown, loading, call, ownerOf, dead, crossed>>

NoCall == [kind |-> "none", carries |-> 0]
Kinds == {"restore", "login", "profile", "page", "save"}
Tokens == 1..MaxTokens
NextToken == CHOOSE t \in 1..MaxTokens + 1 : DOMAIN ownerOf = 1..t - 1
Accepted(t) == t \in DOMAIN ownerOf \ dead
Free(c) == call[c] = NoCall
Done(c) == call' = [call EXCEPT ![c] = NoCall]
InFlight(kinds) == {c \in Calls : call[c].kind \in kinds}

WebTypeOK ==
  /\ DOMAIN ownerOf \subseteq Tokens
  /\ \A t \in DOMAIN ownerOf : ownerOf[t] \in Visitors
  /\ {token, signedIn} \subseteq {0} \union DOMAIN ownerOf
  /\ dead \subseteq DOMAIN ownerOf
  /\ shown \in Visitors \union {"nobody"}
  /\ call \in [Calls -> [kind : Kinds \union {"none"}, carries : 0..MaxTokens]]
  /\ {leaving, loading, crossed} \subseteq BOOLEAN
  /\ provider \in Builds /\ (signedIn # 0 => provider)

\* The page is opened with a token of an earlier visit, or with none.
WebInit ==
  /\ provider \in Builds
  /\ \E o \in Visitors : ownerOf = [t \in {1} |-> o]
  /\ token \in {0, 1} /\ signedIn = (IF provider THEN token ELSE 0)
  /\ shown = "nobody" /\ loading = TRUE /\ leaving = FALSE
  /\ call = [c \in Calls |-> NoCall] /\ dead = {} /\ crossed = FALSE

Send(c, kind, t) == call' = [call EXCEPT ![c] = [kind |-> kind, carries |-> t]]

\* A new token is issued to o.
Issue(o) ==
  /\ NextToken \in Tokens
  /\ ownerOf' = [t \in 1..NextToken |-> IF t = NextToken THEN o ELSE ownerOf[t]]

-----------------------------------------------------------------------------
(* The session is restored: a provider's session lends its token first.    *)

RestoreSession(c) ==
  /\ loading /\ Free(c) /\ InFlight({"restore"}) = {}
  /\ token' = IF signedIn # 0 THEN signedIn ELSE token
  /\ IF token' = 0 THEN loading' = FALSE /\ call' = call
     ELSE loading' = loading /\ Send(c, "restore", token')
  /\ UNCHANGED <<signedIn, leaving, shown, ownerOf, dead, crossed>>

\* The interceptor: whichever call it answers, a 401 forgets the token that is
\* stored now and the user.
UnauthorizedUnheard == token' = 0 /\ shown' = shown
Unauthorized == token' = 0 /\ shown' = "nobody"

\* signOut is asked for and not waited for.
LeaveProvider == leaving' = (leaving \/ signedIn # 0)

ShowOwner(c) ==
  /\ Accepted(call[c].carries)
  /\ shown' = ownerOf[call[c].carries]
  /\ UNCHANGED <<token, leaving, crossed>>

\* The request fails, for a 401, a 403 or the network: the token is forgotten,
\* and only a 401 takes the user with it.
ForgetToken(c) ==
  /\ token' = 0 /\ LeaveProvider
  /\ shown' \in IF Accepted(call[c].carries) THEN {shown} ELSE {"nobody", shown}
  /\ crossed' = crossed

RestoreEnds(c) ==
  /\ call[c].kind = "restore" /\ Done(c) /\ loading' = FALSE
  /\ ShowOwner(c) \/ ForgetToken(c)
  /\ UNCHANGED <<signedIn, ownerOf, dead>>

-----------------------------------------------------------------------------
(* Signing in.  The form is there while nobody is shown, and also while    *)
(* the session is still being restored, which without a provider has sent  *)
(* its call by then.                                                       *)

SubmitLogin(c) ==
  /\ shown = "nobody" \/ loading
  /\ loading /\ ~provider => InFlight({"restore"}) # {}
  /\ Free(c) /\ InFlight({"login", "profile"}) = {}
  /\ Send(c, "login", token)
  /\ crossed' = (crossed \/ loading \/ InFlight(Kinds) # {})
  /\ UNCHANGED <<token, signedIn, leaving, shown, loading, ownerOf, dead>>

LoginAccepted(c) ==
  /\ call[c].kind = "login"
  /\ \E o \in Visitors : Issue(o)
  /\ token' = NextToken /\ Send(c, "profile", NextToken)
  /\ signedIn' = IF provider THEN NextToken ELSE 0
  /\ UNCHANGED <<leaving, shown, loading, dead, crossed>>

\* The API answers a wrong password with a 401, a student with a 403, and the
\* provider with an error.
LoginRefused(c) ==
  /\ call[c].kind = "login" /\ Done(c)
  /\ \/ ~provider /\ Unauthorized
     \/ UNCHANGED <<token, shown>>
  /\ UNCHANGED <<signedIn, leaving, loading, ownerOf, dead, crossed>>

ProfileEnds(c) ==
  /\ call[c].kind = "profile" /\ Done(c)
  /\ ShowOwner(c) \/ ForgetToken(c)
  /\ UNCHANGED <<signedIn, loading, ownerOf, dead>>

Logout ==
  /\ shown # "nobody"
  /\ token' = 0 /\ shown' = "nobody" /\ LeaveProvider
  /\ crossed' = (crossed \/ InFlight({"save"}) # {})
  /\ UNCHANGED <<signedIn, loading, call, ownerOf, dead>>

SignedOut ==
  /\ leaving /\ leaving' = FALSE /\ signedIn' = 0
  /\ UNCHANGED <<token, shown, loading, call, ownerOf, dead, crossed>>

\* The provider refreshes its session, and the listener stores the new token
\* whatever the console has done meanwhile.
Refreshed ==
  /\ signedIn # 0 /\ Issue(ownerOf[signedIn])
  /\ signedIn' = NextToken /\ token' = NextToken
  /\ UNCHANGED <<leaving, shown, loading, call, dead, crossed>>

-----------------------------------------------------------------------------
(* What the pages do with it.                                              *)

Ask(c) ==
  /\ shown # "nobody" /\ ~loading /\ Free(c)
  /\ \E kind \in {"page", "save"} : Send(c, kind, token)
  /\ UNCHANGED <<token, signedIn, leaving, shown, loading, ownerOf, dead, crossed>>

Unaccepted(c) ==
  /\ call[c].kind \in {"page", "save"} /\ ~Accepted(call[c].carries)
  /\ Done(c) /\ Unauthorized
  /\ crossed' = (crossed \/ InFlight({"save"}) \ {c} # {})
  /\ UNCHANGED <<signedIn, leaving, loading, ownerOf, dead>>

\* A page takes what it asked for; a saved profile is shown at once, even when
\* its page is gone.
Answer(c) ==
  /\ call[c].kind \in {"page", "save"} /\ Accepted(call[c].carries) /\ Done(c)
  /\ IF call[c].kind = "page" THEN UNCHANGED <<token, leaving, shown, crossed>>
     ELSE ShowOwner(c)
  /\ UNCHANGED <<signedIn, loading, ownerOf, dead>>

\* The server stops accepting a token; another tab signs in or out; the page is
\* loaded again.
Expire(t) ==
  /\ dead' = dead \union {t}
  /\ UNCHANGED <<token, signedIn, leaving, shown, loading, call, ownerOf, crossed>>

OtherTab ==
  /\ token' \in ({0} \union DOMAIN ownerOf) \ {token}
  /\ crossed' = TRUE
  /\ UNCHANGED <<signedIn, leaving, shown, loading, call, ownerOf, dead>>

Reload ==
  /\ loading' = TRUE /\ shown' = "nobody" /\ call' = [c \in Calls |-> NoCall]
  /\ crossed' = FALSE /\ leaving' = FALSE
  /\ UNCHANGED <<token, signedIn, ownerOf, dead>>

CallStep(c) ==
  \/ RestoreSession(c) \/ RestoreEnds(c) \/ SubmitLogin(c) \/ LoginAccepted(c)
  \/ LoginRefused(c) \/ ProfileEnds(c) \/ Ask(c) \/ Unaccepted(c) \/ Answer(c)

TabStep == Logout \/ SignedOut \/ Refreshed \/ OtherTab \/ Reload

WebNext ==
  /\ provider' = provider
  /\ (\E c \in Calls : CallStep(c)) \/ TabStep \/ \E t \in DOMAIN ownerOf \ dead : Expire(t)

WebSpec == WebInit /\ [][WebNext]_webVars

-----------------------------------------------------------------------------
\* Whoever the page shows is whose token its calls carry; and, in the build
\* without a provider, no token stays behind once nobody is shown and nothing is
\* being restored or signed in (AuthContext.tsx 31-126, api.ts 33-43).  So much
\* holds however answers, expiries, refreshes, sign-outs and reloads of one tab
\* are ordered.  It fails, and is not promised, once somebody has signed in over
\* a call in flight, has left while a save was in flight, or another tab acted.
ShownIsTheirs ==
  crossed \/
    /\ shown # "nobody" => token # 0 /\ ownerOf[token] = shown
    /\ ~provider /\ shown = "nobody" /\ ~loading /\ InFlight({"login", "profile"}) = {}
         => token = 0
=============================================================================
