------------------------------- MODULE Console -------------------------------
(***************************************************************************)
(* A list page of the web console and the dialogs over it: the query       *)
(* cache, one entry per filter; the edit form, filled in from the row it   *)
(* is opened on; the calls that write, and what their answers do to both.  *)
(* The pages differ in how the form is filled in, in what it sends and in  *)
(* what the list is filtered by.                                           *)
(*                                                                         *)
(* A row is what its text fields say and its one flag (active, published,  *)
(* visible).  Rows that are created or deleted are left out.               *)
(***************************************************************************)
EXTENDS Naturals, FiniteSets

CONSTANTS
  Items,       \* the rows of the page
  Texts,       \* what the text fields may say
  Filters,     \* what lists may be filtered by, of what the pages offer
  MaxWrites    \* bound: writes ever made, here or elsewhere

ASSUME ConsoleAssumption ==
  /\ MaxWrites \in Nat /\ IsFiniteSet(Items) /\ Texts # {}
  /\ Filters \subseteq {"all", "search", "on", "off"}

VARIABLES
  screen,    \* which page this is: it never changes
  served,    \* the rows as the server has them
  cache,   \* per filter: what was read, whether it is valid, the read in flight
  view,    \* the filter that is looked through
  form,    \* the dialog
  writing,  \* calls that write, in flight
  writes   \* counted up to the bound

consoleVars == <<screen, served, cache, view, form, writing, writes>>

Fields == {"text", "flag"}
Item == [text : Texts, flag : BOOLEAN]
AtMostOne(S) == {{}} \union {{x} : x \in S}

-----------------------------------------------------------------------------
(* The pages.  A form is filled in by an effect each time it is opened, as *)
(* it is rendered (once per row: it remembers the row it was filled in     *)
(* for), or when its row is mounted.  Some pages only have a button.       *)

UserDialog == [fills |-> "effect", sends |-> Fields]
OrganizationDialog == [fills |-> "effect", sends |-> {"text"}]
CourseDialog == [fills |-> "render", sends |-> {"text"}]
DepartmentDialog == [fills |-> "render", sends |-> {"text"}]
LectureDialog == [fills |-> "render", sends |-> {"text"}]
MaterialDialog == [fills |-> "render", sends |-> Fields]
AssignmentDialog == [fills |-> "render", sends |-> {"text"}]
GradeDialog == [fills |-> "mount", sends |-> Fields]
NoDialog == [fills |-> "never", sends |-> {}]

UsersPage == [dialog |-> UserDialog, turns |-> BOOLEAN, filters |-> {"all", "search"}]
OrganizationsPage == [dialog |-> OrganizationDialog, turns |-> {}, filters |-> {"all", "search"}]
CoursesPage == [dialog |-> CourseDialog, turns |-> {}, filters |-> {"all", "search"}]
DepartmentsPage == [dialog |-> DepartmentDialog, turns |-> BOOLEAN, filters |-> {"all", "search"}]
TimetablePage == [dialog |-> LectureDialog, turns |-> {TRUE}, filters |-> {"all", "search"}]
MaterialsPage == [dialog |-> MaterialDialog, turns |-> BOOLEAN, filters |-> {"on", "off", "all"}]
AssignmentsPage == [dialog |-> AssignmentDialog, turns |-> {FALSE}, filters |-> {"all"}]
GradebookPage == [dialog |-> GradeDialog, turns |-> {}, filters |-> {"all"}]
DirectoryPage == [dialog |-> NoDialog, turns |-> BOOLEAN, filters |-> {"all", "off"}]
PendingPage == [dialog |-> NoDialog, turns |-> {FALSE}, filters |-> {"off"}]
SessionsPage == [dialog |-> NoDialog, turns |-> {TRUE}, filters |-> {"all", "search"}]
InboxPage == [dialog |-> NoDialog, turns |-> {FALSE}, filters |-> {"all"}]

Screens ==
  {UsersPage, OrganizationsPage, CoursesPage, DepartmentsPage, TimetablePage,
   MaterialsPage, AssignmentsPage, GradebookPage, DirectoryPage, PendingPage,
   SessionsPage, InboxPage}

Shows(v, row) ==
  CASE v = "on" -> row.flag [] v = "off" -> ~row.flag [] OTHER -> TRUE

-----------------------------------------------------------------------------
(* The query cache.  What was read stays until it is read again, and is    *)
(* shown at once, stale or not.  Ghost: behind, the answer to a call may   *)
(* not be in it and nothing in the page can know.                          *)

NotRead == [seen |-> {}, valid |-> TRUE, asked |-> FALSE, took |-> {}, behind |-> FALSE]

UpToDate(v) ==
  /\ cache[v].seen # {} /\ cache[v].valid /\ ~cache[v].asked
  /\ ~cache[v].behind /\ writing = {}

AskFor(q) == [q EXCEPT !.asked = TRUE, !.took = {}]

\* A mounted list is read again, the read in flight given up; a first one is
\* left to arrive.  The others are only marked, their reads left alone.
Invalidated ==
  [v \in Filters |->
     IF v = view THEN IF cache[v].seen # {} THEN AskFor([cache[v] EXCEPT !.valid = FALSE])
                      ELSE [cache[v] EXCEPT !.valid = FALSE]
     ELSE [cache[v] EXCEPT !.valid = FALSE]]

AllBehind == [v \in Filters |-> [cache[v] EXCEPT !.behind = TRUE]]

AnyText == CHOOSE t \in Texts : TRUE
Shut == [on |-> {}, filledFor |-> {}, draft |-> [text |-> AnyText, flag |-> TRUE], typed |-> {}, sound |-> FALSE, left |-> {}]

ConsoleInit ==
  /\ screen \in Screens
  /\ served \in [Items -> {row \in Item : row.text = AnyText}]
  /\ cache = [v \in Filters |-> NotRead] /\ view \in screen.filters \intersect Filters
  /\ form = Shut /\ writing = {} /\ writes = 0

\* The filter is changed, the page comes back, or a poll is due: what is not
\* there or not valid is read, what is old may be.
Look(v) ==
  /\ v \in screen.filters /\ form.on = {}
  /\ view' = v
  /\ \E old \in BOOLEAN :
       cache' = IF ~cache[v].asked /\ (cache[v].seen = {} \/ ~cache[v].valid \/ old)
                THEN [cache EXCEPT ![v] = AskFor(@)] ELSE cache
  /\ UNCHANGED <<screen, served, form, writing, writes>>

\* The server reads the rows for a list, and the answer arrives.
ServeList(v) ==
  /\ cache[v].asked /\ cache[v].took = {}
  /\ cache' = [cache EXCEPT ![v].took = {served}]
  /\ UNCHANGED <<screen, served, view, form, writing, writes>>
ReceiveList(v) ==
  /\ cache[v].asked /\ cache[v].took # {}
  /\ cache' = [cache EXCEPT ![v] =
       [seen |-> @.took, valid |-> TRUE, asked |-> FALSE, took |-> {},
        behind |-> @.took # {served}]]
  /\ UNCHANGED <<screen, served, view, form, writing, writes>>

-----------------------------------------------------------------------------
(* The form.  Ghosts: typed, the fields touched since it was filled in;    *)
(* sound, it was opened on a settled list; left, the row whose edit was    *)
(* last given up with Cancel, which the form still thinks it shows.        *)

Row(r) == (CHOOSE rows \in cache[view].seen : TRUE)[r]
Offered(r) == cache[view].seen # {} /\ form.on = {} /\ Shows(view, Row(r))

FilledFor(r) ==
  IF screen.dialog.fills = "render" /\ form.filledFor = {r} THEN form.draft ELSE Row(r)

OpenForm(r) ==
  /\ screen.dialog.sends # {} /\ Offered(r)
  /\ form' = [on |-> {r}, filledFor |-> {r}, draft |-> FilledFor(r), typed |-> {},
              sound |-> UpToDate(view) /\ r \notin form.left, left |-> {}]
  /\ UNCHANGED <<screen, served, cache, view, writing, writes>>

Type(f) ==
  /\ form.on # {} /\ f \in screen.dialog.sends
  /\ \E typed \in Item :
       /\ \A g \in Fields : (typed[g] # form.draft[g]) = (g = f)
       /\ form' = [form EXCEPT !.draft = typed, !.typed = @ \union {f}]
  /\ UNCHANGED <<screen, served, cache, view, writing, writes>>

\* The cross, Escape and the page behind forget the row; Cancel does not.
CloseForm(how) ==
  /\ form.on # {}
  /\ form' = IF how = "cancel" /\ screen.dialog.fills = "render"
             THEN [form EXCEPT !.on = {}, !.left = form.on, !.sound = FALSE, !.typed = {}]
             ELSE Shut
  /\ UNCHANGED <<screen, served, cache, view, writing, writes>>

-----------------------------------------------------------------------------
(* Calls that write.  Ghost: sound, nothing else was under way meanwhile.  *)

InTheAir(kind) == {c \in writing : c.kind = kind}

SendWrite(kind, r, row, fields, sound) ==
  /\ InTheAir(kind) = {} /\ writes < MaxWrites /\ writes' = writes + 1
  /\ writing' = {[c EXCEPT !.sound = FALSE] : c \in writing} \union
       {[kind |-> kind, row |-> r, says |-> row, fields |-> fields, typed |->
         IF kind = "form" THEN form.typed ELSE fields,
         sound |-> sound /\ writing = {}, landed |-> FALSE]}
  /\ UNCHANGED <<screen, served, cache, view, form>>

SubmitForm(r) ==
  form.on = {r} /\ SendWrite("form", r, form.draft, screen.dialog.sends, form.sound)

PressButton(r) ==
  /\ Offered(r) /\ Row(r).flag \in screen.turns
  /\ SendWrite("button", r, [Row(r) EXCEPT !.flag = ~@], {"flag"}, UpToDate(view))

\* The server writes what it is sent, or refuses the call.
WriteLands(c) ==
  /\ ~c.landed
  /\ served' = [served EXCEPT ![c.row] =
       [f \in Fields |-> IF f \in c.fields THEN c.says[f] ELSE @[f]]]
  /\ writing' = (writing \ {c}) \union {[c EXCEPT !.landed = TRUE]}
  /\ UNCHANGED <<screen, cache, view, form, writes>>
WriteRefused(c) ==
  /\ ~c.landed /\ writing' = writing \ {c}
  /\ UNCHANGED <<screen, served, cache, view, form, writes>>

KeepFilled == [form EXCEPT !.on = {}, !.typed = {}, !.sound = FALSE]
\* A save that succeeds closes whichever form is open by then and forgets its
\* row; a grade's row stays as it is.
AfterSave == IF screen.dialog.fills = "mount" THEN form ELSE Shut

WriteAnswered(c) ==
  /\ c.landed /\ writing' = writing \ {c}
  /\ cache' = Invalidated
  /\ form' = IF c.kind = "form" THEN AfterSave ELSE form
  /\ UNCHANGED <<screen, served, view, writes>>

\* The answer is lost: to the page the call failed.
AnswerLost(c) ==
  /\ c.landed /\ writing' = writing \ {c}
  /\ cache' = AllBehind
  /\ UNCHANGED <<screen, served, view, form, writes>>

\* Somebody else's console, or another tab.
WrittenElsewhere(r) ==
  /\ writes < MaxWrites /\ writes' = writes + 1
  /\ \E row \in Item : served' = [served EXCEPT ![r] = row]
  /\ cache' = AllBehind
  /\ form' = [form EXCEPT !.sound = FALSE]
  /\ writing' = {[c EXCEPT !.sound = FALSE] : c \in writing}
  /\ UNCHANGED <<screen, view>>

ConsoleNext ==
  \/ \E v \in Filters : Look(v) \/ ServeList(v) \/ ReceiveList(v)
  \/ \E r \in Items : OpenForm(r) \/ SubmitForm(r) \/ PressButton(r) \/ WrittenElsewhere(r)
  \/ \E f \in Fields : Type(f)
  \/ \E how \in {"cancel", "cross"} : CloseForm(how)
  \/ \E c \in writing :
       WriteLands(c) \/ WriteRefused(c) \/ WriteAnswered(c) \/ AnswerLost(c)

ConsoleSpec == ConsoleInit /\ [][ConsoleNext]_consoleVars

-----------------------------------------------------------------------------
SomeRows == AtMostOne([Items -> Item])
ConsoleTypeOK ==
  /\ screen \in Screens /\ view \in screen.filters /\ writes \in 0..MaxWrites
  /\ served \in [Items -> Item]
  /\ \A v \in Filters :
       /\ {cache[v].seen, cache[v].took} \subseteq SomeRows
       /\ (cache[v].took # {} => cache[v].asked)
  /\ {form.on, form.filledFor, form.left} \subseteq AtMostOne(Items)
  /\ form.draft \in Item /\ form.typed \subseteq Fields
  /\ \A kind \in {"form", "button"} : Cardinality(InTheAir(kind)) <= 1

\* What a console sends from a form that was opened on a settled list (nothing
\* in flight, no answer lost, nobody else writing, no edit of the row given up
\* with Cancel) leaves every field nobody typed into as the server has it: it
\* never takes back what this console itself wrote before.  A button pressed on
\* a settled list always turns the flag over.
UntouchedFieldsStand ==
  [][\A c \in writing :
       (c.sound /\ ~c.landed /\ [c EXCEPT !.landed = TRUE] \in writing') =>
          /\ \A f \in Fields \ c.typed : served'[c.row][f] = served[c.row][f]
          /\ c.kind = "button" => served'[c.row].flag # served[c.row].flag]_consoleVars

=============================================================================
