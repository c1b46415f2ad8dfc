----------------------------- MODULE ListPages -----------------------------
(***************************************************************************)
(* The pages that list the projects and the spaces ("reviews") of a        *)
(* workspace (web/src/components/projects/, spaces/): a page lists when it *)
(* is mounted, and lists again after it has created, deleted or, for       *)
(* spaces, added a user (hooks/useProjectsList.ts, useSpaces.ts).  A row   *)
(* is known by its place in the table (shared/DataTable.tsx): the menu or  *)
(* dialog that is open in it is about whatever a later listing puts there. *)
(* The workspace does not change while a list is shown (WebShell).         *)
(***************************************************************************)
EXTENDS Naturals, Sequences, SequencesExt, FiniteSets

CONSTANTS
  Projects, Spaces,  \* their ids
  Theirs,            \* the projects of others, which are there to begin with
  Candidates,        \* the users there are to add
  Tasks,             \* asynchronous functions under way at once
  NoItem,
  MaxActs,           \* submissions
  MaxFails

ASSUME IdsAssumption ==
  /\ Projects \cap Spaces = {} /\ Theirs \subseteq Projects
  /\ NoItem \notin Projects \cup Spaces
ASSUME ActsAssumption == MaxActs \in Nat /\ MaxFails \in Nat

Items == Projects \cup Spaces
Routes == {"projects", "spaces", "elsewhere"}

VARIABLES
  order,     \* the server's items, the oldest first
  guests,    \* of the spaces, but for who made them
  route,     \* the page
  rows,      \* projects, spaces: what the table shows
  form,      \* the form of a creation: open, creating
  menu,      \* the row whose menu or delete dialog is open
  adding,    \* addingMemberId
  deleting,  \* deletingProjectId
  job,       \* the asynchronous functions under way
  acts, fails,
  excused    \* history: why the list may lack a change of this page, see Excused

database == <<order, guests>>
ui == <<rows, form, menu, adding, deleting>>
counts == <<acts, fails>>
listVars == <<database, route, ui, job, counts, excused>>

Closed == [open |-> FALSE, creating |-> FALSE]
NoMenu == [kind |-> "none", row |-> 0]
NoJob == [kind |-> "none", page |-> "elsewhere", item |-> NoItem, user |-> NoItem,
          phase |-> "asked", got |-> <<>>, fresh |-> FALSE, gone |-> FALSE]
Spare(s) == job[s].kind = "none"
Live(s) == ~Spare(s) /\ ~job[s].gone

ListedOn(r) == IF r = "projects" THEN Projects ELSE Spaces
Row(i) == [item |-> i, users |-> IF i \in Spaces THEN guests[i] ELSE {}]
Among(items, seq) == SelectSeq(seq, LAMBDA i : i \in items)
(* ListProjects: by creation; ListSpaces: the other way round.             *)
Listing(r) ==
  LET own == Among(ListedOn(r), order)
      ordered == IF r = "projects" THEN own ELSE Reverse(own)
  IN [n \in DOMAIN ordered |-> Row(ordered[n])]
ShownItems == {rows[n].item : n \in DOMAIN rows}

ListsInit ==
  /\ order \in SetToSeqs(Theirs)
  /\ guests = [i \in Spaces |-> {}]
  /\ route = "elsewhere"
  /\ rows = <<>> /\ form = Closed /\ menu = NoMenu
  /\ adding = FALSE /\ deleting = NoItem
  /\ job = [s \in Tasks |-> NoJob]
  /\ acts = 0 /\ fails = 0 /\ excused = FALSE

-----------------------------------------------------------------------------
(* The user.  A form, a menu or a dialog covers the page.                  *)

Job(kind, page, item, user) ==
  [NoJob EXCEPT !.kind = kind, !.page = page, !.item = item, !.user = user,
                !.phase = IF kind = "list" THEN "listing" ELSE "asked"]
Start(j, after) == \E s \in Tasks : Spare(s) /\ job' = [after EXCEPT ![s] = j]

(* Another page is mounted; what the last one has begun goes on.           *)
Left == [s \in Tasks |-> IF Spare(s) THEN NoJob ELSE [job[s] EXCEPT !.gone = TRUE]]
Mounted ==
  /\ rows' = <<>> /\ form' = Closed /\ menu' = NoMenu
  /\ adding' = FALSE /\ deleting' = NoItem /\ excused' = FALSE

Uncovered == ~form.open /\ menu = NoMenu

OpenPage(r) ==
  /\ Uncovered /\ r # route
  /\ route' = r
  /\ Mounted
  /\ IF r = "elsewhere" THEN job' = Left ELSE Start(Job("list", r, NoItem, NoItem), Left)
  /\ UNCHANGED <<database, counts>>

OpenForm ==
  /\ Uncovered /\ route # "elsewhere"
  /\ form' = [form EXCEPT !.open = TRUE]
  /\ UNCHANGED <<database, route, rows, menu, adding, deleting, job, counts, excused>>

(* Cancel, which waits for a creation, or Escape, which does not.          *)
CloseForm ==
  /\ form.open /\ form' = Closed
  /\ UNCHANGED <<database, route, rows, menu, adding, deleting, job, counts, excused>>

SubmitForm(i) ==
  /\ form.open /\ ~form.creating /\ acts < MaxActs
  /\ i \in ListedOn(route) \ Range(order) /\ \A s \in Tasks : job[s].item # i
  /\ form' = [form EXCEPT !.creating = TRUE]
  /\ acts' = acts + 1
  /\ Start(Job("create", route, i, NoItem), job)
  /\ UNCHANGED <<database, route, rows, menu, adding, deleting, fails, excused>>

(* Only the creator of a project may; all rows wait for an addition or a   *)
(* deletion under way.                                                     *)
OpenMenu(kind, n) ==
  /\ Uncovered /\ route # "elsewhere" /\ n \in DOMAIN rows /\ acts < MaxActs
  /\ ~adding /\ deleting = NoItem
  /\ rows[n].item \notin Theirs
  /\ kind = "delete" => route = "projects"
  /\ menu' = [kind |-> kind, row |-> n]
  /\ UNCHANGED <<database, route, rows, form, adding, deleting, job, counts, excused>>

CloseMenu ==
  /\ menu # NoMenu /\ menu' = NoMenu
  /\ UNCHANGED <<database, route, rows, form, adding, deleting, job, counts, excused>>

(* handleAddProjectUser, handleAddUser: the menu offers whom the row does  *)
(* not show.                                                               *)
AddUser(u) ==
  /\ menu.kind = "add" /\ acts < MaxActs
  /\ u \in Candidates \ rows[menu.row].users
  /\ menu' = NoMenu /\ adding' = TRUE
  /\ acts' = acts + 1
  /\ Start(Job("add", route, rows[menu.row].item, u), job)
  /\ UNCHANGED <<database, route, rows, form, deleting, fails, excused>>

(* handleConfirm: the dialog stays open.                                   *)
ConfirmDelete ==
  /\ menu.kind = "delete" /\ acts < MaxActs
  /\ deleting # rows[menu.row].item
  /\ deleting' = rows[menu.row].item
  /\ acts' = acts + 1
  /\ Start(Job("delete", route, rows[menu.row].item, NoItem), job)
  /\ UNCHANGED <<database, route, rows, form, menu, adding, fails, excused>>

-----------------------------------------------------------------------------
(* The server.  A listing is excused when it was overtaken by a later one, *)
(* when a call failed after it was made, and when a page that had been     *)
(* left changed what it lists.                                             *)

Stale(js, s) == [t \in Tasks |-> IF t = s THEN js[t] ELSE [js[t] EXCEPT !.fresh = FALSE]]
Served(s) ==
  LET answered == [job EXCEPT ![s].phase = "answered"] IN
  /\ job' = IF job[s].gone THEN Stale(answered, s) ELSE answered
  /\ excused' = (excused \/ job[s].gone)
Arrived(s, kind) == job[s].kind = kind /\ job[s].phase = "asked"

(* CreateSpace, and CreateProject unless its commit fails: it says the     *)
(* project was created all the same.                                       *)
ServeCreate(s) ==
  /\ Arrived(s, "create")
  /\ \/ order' = Append(order, job[s].item) /\ UNCHANGED fails
     \/ /\ job[s].item \in Projects /\ fails < MaxFails
        /\ fails' = fails + 1 /\ UNCHANGED order
  /\ Served(s)
  /\ UNCHANGED <<guests, route, ui, acts>>

ServeAdd(s) ==
  /\ Arrived(s, "add") /\ job[s].item \in Range(order)
  /\ guests' = IF job[s].item \in Spaces
                  THEN [guests EXCEPT ![job[s].item] = @ \cup {job[s].user}] ELSE guests
  /\ Served(s)
  /\ UNCHANGED <<order, route, ui, counts>>

ServeDelete(s) ==
  /\ Arrived(s, "delete") /\ job[s].item \in Range(order) \ Theirs
  /\ order' = SelectSeq(order, LAMBDA i : i # job[s].item)
  /\ Served(s)
  /\ UNCHANGED <<guests, route, ui, counts>>

ServeList(s) ==
  /\ job[s].phase = "listing"
  /\ job' = Stale([job EXCEPT ![s].phase = "listed", ![s].fresh = TRUE,
                              ![s].got = Listing(job[s].page)], s)
  /\ UNCHANGED <<database, route, ui, counts, excused>>

-----------------------------------------------------------------------------
(* The page gets an answer.  One that has been left only goes to what it   *)
(* has created.                                                            *)

(* A mutated form: a user's addition is not followed by a listing.         *)
AnsweredListsNot(s) ==
  /\ job[s].phase = "answered"
  /\ job' = [job EXCEPT ![s] = IF @.kind = "add" THEN NoJob ELSE [@ EXCEPT !.phase = "listing"]]
  /\ form' = IF job[s].kind = "create" /\ Live(s) THEN Closed ELSE form
  /\ adding' = (adding /\ ~(job[s].kind = "add" /\ Live(s)))
  /\ UNCHANGED <<database, route, rows, menu, deleting, counts, excused>>

(* The write has been done: the form is closed and reset, and all is       *)
(* listed again, but for a project's new user.                             *)
Answered(s) ==
  LET ends == job[s].kind = "add" /\ job[s].item \in Projects IN
  /\ job[s].phase = "answered"
  /\ job' = [job EXCEPT ![s] = IF ends THEN NoJob ELSE [@ EXCEPT !.phase = "listing"]]
  /\ form' = IF job[s].kind = "create" /\ Live(s) THEN Closed ELSE form
  /\ adding' = (adding /\ ~(ends /\ Live(s)))
  /\ UNCHANGED <<database, route, rows, menu, deleting, counts, excused>>

(* The rest of each handler after its listing, if the page is still there. *)
Finish(s) ==
  /\ adding' = (adding /\ job[s].kind # "add")
  /\ deleting' = IF job[s].kind = "delete" THEN NoItem ELSE deleting

(* handleProjectCreated goes to the project if it is listed, whatever page *)
(* is open by then.                                                        *)
Landed(s) ==
  LET call == job[s]
      listed == {call.got[n].item : n \in DOMAIN call.got}
      goes == call.kind = "create" /\ call.item \in Projects /\ call.item \in listed
  IN
  /\ call.phase = "listed"
  /\ IF goes
       THEN /\ route' = "elsewhere"
            /\ Mounted
            /\ job' = [Left EXCEPT ![s] = NoJob]
       ELSE /\ job' = [job EXCEPT ![s] = NoJob]
            /\ UNCHANGED <<route, form>>
            /\ IF call.gone THEN UNCHANGED <<rows, menu, adding, deleting, excused>>
               ELSE /\ rows' = call.got
                    /\ menu' = IF menu.row > Len(call.got) \/ call.kind = "delete"
                                 THEN NoMenu ELSE menu
                    /\ Finish(s)
                    /\ excused' = ~call.fresh
  /\ UNCHANGED <<database, counts>>

(* A mutated form: the form is not reset when its creation fails.          *)
FormAfterFailStuck(s) == form

(* What a creation's catch block does to the form, whichever it is now.    *)
FormAfterFail(s) ==
  IF job[s].kind = "create" THEN [form EXCEPT !.creating = FALSE] ELSE form

(* A call fails, served or not; a failed deletion leaves its dialog open.  *)
Fails(s) ==
  /\ ~Spare(s)
  /\ job' = Stale([job EXCEPT ![s] = NoJob], s)
  /\ IF job[s].gone THEN UNCHANGED <<form, adding, deleting, excused>>
     ELSE /\ form' = FormAfterFail(s)
          /\ Finish(s)
          /\ excused' = TRUE
  /\ UNCHANGED <<database, route, rows, menu, acts>>

(* The item is deleted already, or it is not this user's to delete.        *)
Refused(s) ==
  /\ \/ Arrived(s, "add") /\ job[s].item \notin Range(order)
     \/ Arrived(s, "delete") /\ job[s].item \notin Range(order) \ Theirs
  /\ Fails(s) /\ UNCHANGED fails

Lost(s) == fails < MaxFails /\ fails' = fails + 1 /\ Fails(s)

-----------------------------------------------------------------------------
ServeTask(s) == ServeCreate(s) \/ ServeAdd(s) \/ ServeDelete(s) \/ ServeList(s)
Proceed(s) == Answered(s) \/ Landed(s) \/ Refused(s)

ListsNext ==
  \/ \E r \in Routes : OpenPage(r)
  \/ OpenForm \/ CloseForm \/ CloseMenu \/ ConfirmDelete
  \/ \E i \in Items : SubmitForm(i)
  \/ \E kind \in {"add", "delete"}, n \in 1 .. Cardinality(Items) : OpenMenu(kind, n)
  \/ \E u \in Candidates : AddUser(u)
  \/ \E s \in Tasks : ServeTask(s) \/ Proceed(s) \/ Lost(s)

(* The server serves what it can, the page takes what it is answered.      *)
ListsFairness == \A s \in Tasks : WF_listVars(ServeTask(s) \/ Proceed(s))

ListsSpec == ListsInit /\ [][ListsNext]_listVars /\ ListsFairness

-----------------------------------------------------------------------------
(* A page at rest lists what the server would list, with all its own       *)
(* changes, but for what is excused (above).                               *)
OwnChangesListed ==
  route # "elsewhere" /\ (\A s \in Tasks : Spare(s)) /\ ~excused => rows = Listing(route)

(* No form, row or button stays disabled: what was begun is over once      *)
(* every call is answered or fails.                                        *)
Waiting == form.creating \/ adding \/ deleting # NoItem
WaitsEnd == Waiting ~> ~Waiting
=============================================================================
