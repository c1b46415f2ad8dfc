-------------------------- MODULE ListPagesProofs --------------------------
(***************************************************************************)
(* A theorem of ListPages for any projects, spaces, users, submissions,     *)
(* failures and asynchronous functions under way.                           *)
(***************************************************************************)
EXTENDS ListPages, TLAPS

USE IdsAssumption, ActsAssumption

Fields == {"kind", "page", "item", "user", "phase", "got", "fresh", "gone"}
Shaped(js) ==
  /\ DOMAIN js = Tasks
  /\ \A s \in Tasks : DOMAIN js[s] = Fields /\ (js[s].kind = "none" => js[s].phase = "asked")

(* The page waits for a listing that the function will make, or has made.   *)
Due(s) ==
  /\ Live(s)
  /\ \/ job[s].phase = "listing"
     \/ job[s].phase = "answered" /\ ~(job[s].kind = "add" /\ job[s].item \in Projects)
Coming(s) == Due(s) \/ (Live(s) /\ job[s].phase = "listed")

(* What is under way for the page is of its own route.                      *)
OwnRoute == \A s \in Tasks : Live(s) => job[s].page = route

(* A listing no later call of an earlier page has touched is the server's,   *)
(* unless the page has another one to make.                                 *)
FreshIsTrue ==
  \A s \in Tasks : Live(s) /\ job[s].phase = "listed" /\ job[s].fresh =>
    job[s].got = Listing(job[s].page) \/ \E t \in Tasks : Due(t)

(* The rows are what the server lists, or there is a listing to come.       *)
RowsOrComing ==
  route # "elsewhere" /\ ~excused => rows = Listing(route) \/ \E s \in Tasks : Coming(s)

IInv == Shaped(job) /\ OwnRoute /\ FreshIsTrue /\ RowsOrComing

(* At first nothing is under way.                                           *)
LEMMA IInvInit == ListsInit => IInv
<1> SUFFICES ASSUME ListsInit PROVE IInv
  OBVIOUS
<1>1. Shaped(job) /\ \A s \in Tasks : Spare(s) /\ ~Live(s)
  BY DEF ListsInit, Shaped, Fields, NoJob, Spare, Live
<1> QED
  BY <1>1 DEF ListsInit, IInv, OwnRoute, FreshIsTrue, RowsOrComing

(* A listing is of the server alone.                                        *)
LEMMA SameListing == UNCHANGED database => \A r : Listing(r)' = Listing(r)
<1> SUFFICES ASSUME UNCHANGED database, NEW r PROVE Listing(r)' = Listing(r)
  OBVIOUS
<1>1. order' = order /\ guests' = guests
  BY DEF database
<1> QED
  BY <1>1 DEF Listing, Row

(* A slot that has no function.                                             *)
LEMMA Idle ==
  /\ DOMAIN NoJob = Fields /\ NoJob.kind = "none" /\ NoJob.phase = "asked"
BY DEF NoJob, Fields

(* A function as it begins.                                                 *)
LEMMA Beginning ==
  ASSUME NEW kind \in {"list", "create", "add", "delete"}, NEW page, NEW item, NEW user
  PROVE  LET j == Job(kind, page, item, user) IN
         /\ DOMAIN j = Fields /\ j.kind = kind /\ j.page = page /\ ~j.gone
         /\ j.phase = IF kind = "list" THEN "listing" ELSE "asked"
BY DEF Job, NoJob, Fields

(* What the page does without a call leaves the invariant alone.            *)
LEMMA QuietStep ==
  ASSUME IInv, UNCHANGED <<database, route, rows, job, excused>>
  PROVE  IInv'
BY SameListing
   DEF IInv, OwnRoute, FreshIsTrue, RowsOrComing, Due, Coming, Live, Spare

(* A call is made.                                                          *)
LEMMA StartStep ==
  ASSUME IInv, NEW kind \in {"create", "add", "delete"}, NEW item, NEW user,
         Start(Job(kind, route, item, user), job),
         UNCHANGED <<database, route, rows, excused>>
  PROVE  IInv'
<1> DEFINE j == Job(kind, route, item, user)
<1>1. DOMAIN j = Fields /\ j.kind = kind /\ j.page = route /\ j.phase = "asked"
  BY Beginning
<1> HIDE DEF j
<1>2. PICK s \in Tasks : Spare(s) /\ job' = [job EXCEPT ![s] = j]
  BY DEF Start, j
<1>3. /\ Shaped(job)' /\ job'[s] = j
      /\ \A t \in Tasks : t # s => job'[t] = job[t]
  BY <1>1, <1>2 DEF IInv, Shaped
<1>4. \A t \in Tasks : t # s => (Live(t)' <=> Live(t)) /\ (Due(t)' <=> Due(t)) /\ (Coming(t)' <=> Coming(t))
  BY <1>3 DEF Live, Spare, Due, Coming
<1>5. ~Due(s) /\ ~Coming(s)
  BY <1>2 DEF Live, Due, Coming
<1>6. OwnRoute'
  BY <1>1, <1>3, <1>4 DEF IInv, OwnRoute
<1>7. FreshIsTrue'
  BY <1>1, <1>3, <1>4, <1>5, SameListing DEF IInv, FreshIsTrue
<1>8. RowsOrComing'
  BY <1>4, <1>5, SameListing DEF IInv, RowsOrComing
<1> QED
  BY <1>3, <1>6, <1>7, <1>8 DEF IInv

(* A page is mounted: all that the last one has begun is gone.              *)
LEMMA LeftIsGone ==
  ASSUME Shaped(job)
  PROVE  /\ Shaped(Left)
         /\ \A s \in Tasks : Left[s].kind = "none" \/ Left[s].gone
<1>1. DOMAIN Left = Tasks
  BY DEF Left
<1>2. ASSUME NEW s \in Tasks
      PROVE  /\ DOMAIN Left[s] = Fields /\ (Left[s].kind = "none" \/ Left[s].gone)
             /\ Left[s].kind = "none" => Left[s].phase = "asked"
  <2>1. CASE Spare(s)
    BY <2>1, Idle DEF Left
  <2>2. CASE ~Spare(s)
    <3>1. Left[s] = [job[s] EXCEPT !.gone = TRUE]
      BY <2>2 DEF Left
    <3> QED
      BY <2>2, <3>1 DEF Shaped, Fields, Spare
  <2> QED
    BY <2>1, <2>2
<1> QED
  BY <1>1, <1>2 DEF Shaped

(* Another page is opened: what the last one began is gone, and the list is asked for. *)
LEMMA OpenPageStep ==
  ASSUME IInv, NEW r \in Routes, OpenPage(r)
  PROVE  IInv'
<1>1. route' = r /\ Shaped(Left) /\ \A s \in Tasks : Left[s].kind = "none" \/ Left[s].gone
  BY LeftIsGone DEF IInv, OpenPage
<1>2. CASE r = "elsewhere"
  <2>1. job' = Left
    BY <1>2 DEF OpenPage
  <2> QED
    BY <1>1, <1>2, <2>1 DEF IInv, OwnRoute, FreshIsTrue, RowsOrComing, Live, Spare
<1>3. CASE r # "elsewhere"
  <2> DEFINE j == Job("list", r, NoItem, NoItem)
  <2>1. DOMAIN j = Fields /\ j.kind = "list" /\ j.page = r /\ ~j.gone /\ j.phase = "listing"
    BY Beginning
  <2> HIDE DEF j
  <2>2. PICK s \in Tasks : job' = [Left EXCEPT ![s] = j]
    BY <1>3 DEF OpenPage, Start, j
  <2>3. Shaped(job)' /\ job'[s] = j /\ \A t \in Tasks : t # s => job'[t] = Left[t]
    BY <1>1, <2>1, <2>2 DEF Shaped
  <2>4. \A t \in Tasks : Live(t)' => t = s
    BY <1>1, <2>3 DEF Live, Spare
  <2>5. OwnRoute' /\ FreshIsTrue'
    BY <1>1, <2>1, <2>3, <2>4 DEF OwnRoute, FreshIsTrue
  <2>6. Coming(s)'
    BY <2>1, <2>3 DEF Coming, Due, Live, Spare
  <2> QED
    BY <2>3, <2>5, <2>6 DEF IInv, RowsOrComing
<1> QED
  BY <1>2, <1>3

-----------------------------------------------------------------------------
(* Answers of the server *)

(* After Stale nothing but what the function itself has listed is fresh.    *)
LEMMA Staling ==
  ASSUME NEW js, Shaped(js), NEW s \in Tasks
  PROVE  /\ Shaped(Stale(js, s)) /\ Stale(js, s)[s] = js[s]
         /\ \A t \in Tasks : t # s =>
              LET j == Stale(js, s)[t] IN
              /\ ~j.fresh
              /\ j.kind = js[t].kind /\ j.page = js[t].page /\ j.item = js[t].item
              /\ j.phase = js[t].phase /\ j.gone = js[t].gone
<1>1. DOMAIN Stale(js, s) = Tasks /\ Stale(js, s)[s] = js[s]
  BY DEF Stale
<1>2. ASSUME NEW t \in Tasks, t # s
      PROVE  LET j == Stale(js, s)[t] IN
             /\ DOMAIN j = Fields /\ ~j.fresh
             /\ j.kind = js[t].kind /\ j.page = js[t].page /\ j.item = js[t].item
             /\ j.phase = js[t].phase /\ j.gone = js[t].gone
  <2> DEFINE old == js[t]
             new == [old EXCEPT !.fresh = FALSE]
  <2>1. Stale(js, s)[t] = new
    BY <1>2 DEF Stale
  <2>2. DOMAIN old = {"kind", "page", "item", "user", "phase", "got", "fresh", "gone"}
    BY DEF Shaped, Fields
  <2> HIDE DEF old
  <2>3. DOMAIN new = DOMAIN old
    OBVIOUS
  <2>4. ~new.fresh /\ new.kind = old.kind /\ new.page = old.page
    BY <2>2
  <2>5. new.item = old.item /\ new.phase = old.phase /\ new.gone = old.gone
    BY <2>2
  <2> QED
    BY <2>1, <2>2, <2>3, <2>4, <2>5 DEF old, Fields
<1> QED
  BY <1>1, <1>2 DEF Shaped

(* A write that is served.                                                  *)
LEMMA ServedStep ==
  ASSUME IInv, NEW s \in Tasks, ~Spare(s), job[s].phase = "asked", Served(s),
         job[s].kind = "add" /\ job[s].item \in Projects => UNCHANGED database,
         UNCHANGED <<route, rows>>
  PROVE  IInv'
<1> DEFINE answered == [job EXCEPT ![s].phase = "answered"]
<1>1. /\ Shaped(answered) /\ answered[s].phase = "answered"
      /\ \A f \in Fields \ {"phase"} : answered[s][f] = job[s][f]
      /\ \A t \in Tasks : t # s => answered[t] = job[t]
  BY DEF IInv, Shaped, Fields, Spare
<1> HIDE DEF answered
<1>2. answered[s].kind = job[s].kind /\ answered[s].item = job[s].item
      /\ answered[s].gone = job[s].gone /\ answered[s].page = job[s].page
  BY <1>1 DEF Fields
<1>3. CASE job[s].gone
  <2>1. job' = Stale(answered, s) /\ excused'
    BY <1>3 DEF Served, answered
  <2>2. /\ Shaped(job)' /\ job'[s] = answered[s]
        /\ \A t \in Tasks : t # s => ~job'[t].fresh /\ job'[t].kind = job[t].kind
                                     /\ job'[t].page = job[t].page /\ job'[t].gone = job[t].gone
    BY <1>1, <2>1, Staling DEF Fields
  <2>3. ~Live(s)' /\ \A t \in Tasks : t # s => (Live(t)' <=> Live(t))
    BY <1>2, <1>3, <2>2 DEF Live, Spare
  <2> QED
    BY <2>1, <2>2, <2>3 DEF IInv, OwnRoute, FreshIsTrue, RowsOrComing
<1>4. CASE ~job[s].gone
  <2>1. job' = answered /\ (excused => excused')
    BY <1>4 DEF Served, answered
  <2>2. /\ Live(s) /\ Live(s)' /\ ~Due(s) /\ ~Coming(s)
        /\ \A t \in Tasks : t # s => /\ job'[t] = job[t] /\ (Live(t)' <=> Live(t))
                                     /\ (Due(t)' <=> Due(t)) /\ (Coming(t)' <=> Coming(t))
    BY <1>1, <1>2, <1>4, <2>1 DEF Live, Spare, Due, Coming
  <2>3. OwnRoute'
    BY <1>2, <2>1, <2>2 DEF IInv, OwnRoute
  <2>4. CASE Due(s)'
    BY <1>1, <2>1, <2>3, <2>4 DEF IInv, FreshIsTrue, RowsOrComing, Coming
  <2>5. CASE ~Due(s)'
    <3>1. UNCHANGED database
      BY <1>1, <1>2, <2>1, <2>2, <2>5 DEF Due
    <3>2. FreshIsTrue'
      BY <1>1, <2>1, <2>2, <3>1, SameListing DEF IInv, FreshIsTrue
    <3>3. RowsOrComing'
      BY <2>1, <2>2, <3>1, SameListing DEF IInv, RowsOrComing
    <3> QED
      BY <1>1, <2>1, <2>3, <3>2, <3>3 DEF IInv
  <2> QED
    BY <2>4, <2>5
<1> QED
  BY <1>3, <1>4

(* A listing is answered: it is the only fresh one.                         *)
LEMMA ServeListStep ==
  ASSUME IInv, NEW s \in Tasks, ServeList(s)
  PROVE  IInv'
<1> DEFINE listed == [job EXCEPT ![s].phase = "listed", ![s].fresh = TRUE,
                                 ![s].got = Listing(job[s].page)]
<1>1. /\ Shaped(listed) /\ listed[s].phase = "listed" /\ listed[s].got = Listing(job[s].page)
      /\ listed[s].kind = job[s].kind /\ listed[s].page = job[s].page /\ listed[s].gone = job[s].gone
      /\ \A t \in Tasks : t # s => listed[t] = job[t]
  BY DEF IInv, Shaped, Fields, ServeList
<1> HIDE DEF listed
<1>2. job' = Stale(listed, s) /\ UNCHANGED <<database, route, rows, excused>>
  BY DEF ServeList, listed, ui
<1>3. /\ Shaped(job)' /\ job'[s] = listed[s]
      /\ \A t \in Tasks : t # s => /\ ~job'[t].fresh /\ job'[t].kind = job[t].kind
                                   /\ job'[t].page = job[t].page /\ job'[t].gone = job[t].gone
                                   /\ job'[t].phase = job[t].phase /\ job'[t].item = job[t].item
  BY <1>1, <1>2, Staling DEF Fields
<1>4. \A t \in Tasks : Live(t)' <=> Live(t)
  BY <1>1, <1>3 DEF Live, Spare
<1>5. \A t \in Tasks : Coming(t) => Coming(t)'
  BY <1>1, <1>3, <1>4 DEF Coming, Due
<1>6. OwnRoute'
  BY <1>1, <1>2, <1>3, <1>4 DEF IInv, OwnRoute
<1>7. FreshIsTrue'
  BY <1>1, <1>2, <1>3, SameListing DEF FreshIsTrue
<1>8. RowsOrComing'
  BY <1>2, <1>5, SameListing DEF IInv, RowsOrComing
<1> QED
  BY <1>3, <1>6, <1>7, <1>8 DEF IInv

(* A creation changes the server or fails; an addition to a project does    *)
(* not show; a deletion is of what is listed.                               *)
LEMMA ServeWriteStep ==
  ASSUME IInv, NEW s \in Tasks, ServeCreate(s) \/ ServeAdd(s) \/ ServeDelete(s)
  PROVE  IInv'
<1>1. ~Spare(s) /\ job[s].phase = "asked" /\ Served(s) /\ UNCHANGED <<route, rows>>
  BY DEF ServeCreate, ServeAdd, ServeDelete, Arrived, Spare, ui
<1>2. job[s].kind = "add" /\ job[s].item \in Projects => UNCHANGED database
  <2> SUFFICES ASSUME job[s].kind = "add", job[s].item \in Projects PROVE UNCHANGED database
    OBVIOUS
  <2>1. ServeAdd(s) /\ job[s].item \notin Spaces
    BY DEF ServeCreate, ServeDelete, Arrived
  <2> QED
    BY <2>1 DEF ServeAdd, database
<1> QED
  BY <1>1, <1>2, ServedStep

-----------------------------------------------------------------------------
(* What the page does with an answer *)

(* A write is answered: a listing is to be made, as before.                 *)
LEMMA AnsweredStep ==
  ASSUME IInv, NEW s \in Tasks, Answered(s)
  PROVE  IInv'
<1> DEFINE ends == job[s].kind = "add" /\ job[s].item \in Projects
           after == IF ends THEN NoJob ELSE [job[s] EXCEPT !.phase = "listing"]
<1>1. job' = [job EXCEPT ![s] = after] /\ UNCHANGED <<database, route, rows, excused>>
  BY DEF Answered, ends, after
<1>2. /\ DOMAIN after = Fields /\ after.phase # "listed"
      /\ after.kind = "none" => after.phase = "asked"
      /\ ends => after.kind = "none"
      /\ ~ends => /\ after.kind = job[s].kind /\ after.page = job[s].page
                  /\ after.gone = job[s].gone /\ after.phase = "listing"
  <2>1. CASE ends
    BY <2>1, Idle
  <2>2. CASE ~ends
    BY <2>2 DEF IInv, Shaped, Fields, Answered
  <2> QED
    BY <2>1, <2>2
<1> HIDE DEF after
<1>3. Shaped(job)' /\ job'[s] = after /\ \A t \in Tasks : t # s => job'[t] = job[t]
  BY <1>1, <1>2 DEF IInv, Shaped
<1>4. job[s].phase = "answered"
  BY DEF Answered
<1>5. \A t \in Tasks : /\ Live(t)' => Live(t) /\ job'[t].page = job[t].page
                       /\ Due(t)' <=> Due(t)
                       /\ Coming(t)' <=> Coming(t)
  BY <1>2, <1>3, <1>4 DEF Live, Spare, Due, Coming
<1>6. OwnRoute'
  BY <1>1, <1>5 DEF IInv, OwnRoute
<1>7. FreshIsTrue'
  BY <1>1, <1>2, <1>3, <1>5, SameListing DEF IInv, FreshIsTrue
<1>8. RowsOrComing'
  BY <1>1, <1>5, SameListing DEF IInv, RowsOrComing
<1> QED
  BY <1>3, <1>6, <1>7, <1>8 DEF IInv

(* A function that has ended, and the others as they were.                  *)
LEMMA Ending ==
  ASSUME Shaped(job), NEW s \in Tasks
  PROVE  LET js == [job EXCEPT ![s] = NoJob] IN
         /\ Shaped(js) /\ js[s] = NoJob
         /\ \A t \in Tasks : t # s => js[t] = job[t]
BY Idle DEF Shaped

(* A listing lands: it is shown, or dropped, or its page is left for the project. *)
LEMMA LandedStep ==
  ASSUME IInv, NEW s \in Tasks, Landed(s)
  PROVE  IInv'
<1>1. job[s].phase = "listed" /\ UNCHANGED database /\ ~Due(s)
  BY DEF Landed, Due
<1>2. CASE route' = "elsewhere" /\ job' = [Left EXCEPT ![s] = NoJob]
  <2>1. Shaped(Left) /\ \A t \in Tasks : Left[t].kind = "none" \/ Left[t].gone
    BY LeftIsGone DEF IInv
  <2>2. Shaped(job)'
    BY <1>2, <2>1, Idle DEF Shaped
  <2>3. \A t \in Tasks : ~Live(t)'
    BY <1>2, <2>1, Idle DEF Live, Spare, Shaped
  <2> QED
    BY <1>2, <2>2, <2>3 DEF IInv, OwnRoute, FreshIsTrue, RowsOrComing
<1>3. CASE job' = [job EXCEPT ![s] = NoJob] /\ UNCHANGED route
  <2>1. /\ Shaped(job)' /\ job'[s] = NoJob
        /\ \A t \in Tasks : t # s => job'[t] = job[t]
    BY <1>3, Ending DEF IInv
  <2>2. /\ ~Live(s)'
        /\ \A t \in Tasks : t # s => /\ Live(t)' <=> Live(t)
                                     /\ Due(t)' <=> Due(t)
                                     /\ Coming(t)' <=> Coming(t)
    BY <2>1, Idle DEF Live, Spare, Due, Coming
  <2>3. OwnRoute'
    BY <1>3, <2>1, <2>2 DEF IInv, OwnRoute
  <2>4. FreshIsTrue'
    BY <1>1, <2>1, <2>2, SameListing DEF IInv, FreshIsTrue
  <2>5. CASE job[s].gone /\ UNCHANGED <<rows, excused>>
    <3>1. ~Coming(s)
      BY <2>5 DEF Coming, Due, Live
    <3>2. RowsOrComing'
      BY <1>1, <1>3, <2>2, <2>5, <3>1, SameListing DEF IInv, RowsOrComing
    <3> QED
      BY <2>1, <2>3, <2>4, <3>2 DEF IInv
  <2>6. CASE rows' = job[s].got /\ Live(s) /\ (~excused' => job[s].fresh)
    <3>1. job[s].page = route
      BY <2>6 DEF IInv, OwnRoute
    <3>2. RowsOrComing'
      <4> SUFFICES ASSUME ~excused'
                   PROVE  (rows = Listing(route))' \/ \E t \in Tasks : Coming(t)'
        BY DEF RowsOrComing
      <4>1. job[s].got = Listing(route) \/ \E t \in Tasks : Due(t)
        BY <1>1, <2>6, <3>1 DEF IInv, FreshIsTrue
      <4>2. (\E t \in Tasks : Due(t)) => \E t \in Tasks : Coming(t)'
        BY <1>1, <2>2 DEF Coming
      <4>3. Listing(route)' = Listing(route)
        BY <1>1, <1>3, SameListing DEF Listing, Row, database
      <4> QED
        BY <2>6, <4>1, <4>2, <4>3
    <3> QED
      BY <2>1, <2>3, <2>4, <3>2 DEF IInv
  <2>7. (job[s].gone /\ UNCHANGED <<rows, excused>>)
        \/ (rows' = job[s].got /\ Live(s) /\ (~excused' => job[s].fresh)) \/ route' = "elsewhere"
    <3>1. ~Spare(s)
      BY <1>1 DEF IInv, Shaped, Spare
    <3> QED
      BY <3>1 DEF Landed, Live
  <2>8. CASE route' = "elsewhere"
    BY <2>1, <2>3, <2>4, <2>8 DEF IInv, RowsOrComing
  <2> QED
    BY <2>5, <2>6, <2>7, <2>8
<1> QED
  BY <1>2, <1>3 DEF Landed, Mounted

(* A call fails: its page has an excuse.                                    *)
LEMMA FailsStep ==
  ASSUME IInv, NEW s \in Tasks, Fails(s)
  PROVE  IInv'
<1> DEFINE js == [job EXCEPT ![s] = NoJob]
<1>1. Shaped(js) /\ js[s] = NoJob /\ \A t \in Tasks : t # s => js[t] = job[t]
  BY Ending DEF IInv
<1>2. job' = Stale(js, s) /\ UNCHANGED <<database, route, rows>>
  BY DEF Fails
<1> HIDE DEF js
<1>3. /\ Shaped(job)' /\ job'[s] = NoJob
      /\ \A t \in Tasks : t # s => /\ ~job'[t].fresh /\ job'[t].kind = job[t].kind
                                   /\ job'[t].page = job[t].page /\ job'[t].gone = job[t].gone
                                   /\ job'[t].phase = job[t].phase /\ job'[t].item = job[t].item
  BY <1>1, <1>2, Staling
<1>4. /\ ~Live(s)'
      /\ \A t \in Tasks : t # s => (Live(t)' <=> Live(t)) /\ (Coming(t) => Coming(t)')
  BY <1>3, Idle DEF Live, Spare, Due, Coming
<1>5. OwnRoute'
  BY <1>2, <1>3, <1>4 DEF IInv, OwnRoute
<1>6. FreshIsTrue'
  BY <1>3, <1>4 DEF FreshIsTrue
<1>7. RowsOrComing'
  <2>1. CASE job[s].gone
    <3>1. ~Coming(s) /\ UNCHANGED excused
      BY <2>1 DEF Fails, Coming, Due, Live
    <3> QED
      BY <1>2, <1>4, <3>1, SameListing DEF IInv, RowsOrComing
  <2>2. CASE ~job[s].gone
    <3>1. excused'
      BY <2>2 DEF Fails
    <3> QED
      BY <3>1 DEF RowsOrComing
  <2> QED
    BY <2>1, <2>2
<1> QED
  BY <1>3, <1>5, <1>6, <1>7 DEF IInv

-----------------------------------------------------------------------------
(* One step per action.                                                     *)
LEMMA IInvNext == IInv /\ [ListsNext]_listVars => IInv'
<1> SUFFICES ASSUME IInv, [ListsNext]_listVars PROVE IInv'
  OBVIOUS
<1>1. ASSUME NEW r \in Routes, OpenPage(r) PROVE IInv'
  BY <1>1, OpenPageStep
<1>2. CASE OpenForm \/ CloseForm \/ CloseMenu
  BY <1>2, QuietStep DEF OpenForm, CloseForm, CloseMenu
<1>3. ASSUME NEW kind \in {"add", "delete"}, NEW n, OpenMenu(kind, n) PROVE IInv'
  BY <1>3, QuietStep DEF OpenMenu
<1>4. CASE ConfirmDelete
  BY <1>4, StartStep DEF ConfirmDelete
<1>5. ASSUME NEW i \in Items, SubmitForm(i) PROVE IInv'
  BY <1>5, StartStep DEF SubmitForm
<1>6. ASSUME NEW u \in Candidates, AddUser(u) PROVE IInv'
  BY <1>6, StartStep DEF AddUser
<1>7. ASSUME NEW s \in Tasks, ServeTask(s) PROVE IInv'
  BY <1>7, ServeWriteStep, ServeListStep DEF ServeTask
<1>8. ASSUME NEW s \in Tasks, Proceed(s) PROVE IInv'
  BY <1>8, AnsweredStep, LandedStep, FailsStep DEF Proceed, Refused
<1>9. ASSUME NEW s \in Tasks, Lost(s) PROVE IInv'
  BY <1>9, FailsStep DEF Lost
<1>10. CASE UNCHANGED listVars
  BY <1>10, QuietStep DEF listVars, ui
<1> QED
  BY <1>1, <1>2, <1>3, <1>4, <1>5, <1>6, <1>7, <1>8, <1>9, <1>10 DEF ListsNext

(* The invariant holds throughout.                                          *)
LEMMA Inductive == ListsSpec => []IInv
BY IInvInit, IInvNext, PTL DEF ListsSpec

(* A page of projects or spaces that waits for nothing lists what the       *)
(* server would, the user's own creations, additions and deletions          *)
(* included, but for a listing overtaken by another (excused).              *)
THEOREM OwnChangesListedHolds == ListsSpec => []OwnChangesListed
<1>1. IInv => OwnChangesListed
  BY DEF IInv, RowsOrComing, OwnChangesListed, Coming, Due, Live
<1> QED
  BY <1>1, Inductive, PTL
=============================================================================
