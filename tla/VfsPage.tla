------------------------------ MODULE VfsPage ------------------------------
(***************************************************************************)
(* The files page (web/src/components/vfs/): the listings it keeps of the  *)
(* directories it has been in, the loads its effect starts, the dialogs,   *)
(* and the actions that write and then fetch one directory again           *)
(* (hooks/useVfs.ts), with the walk that adds a folder to a project.  A    *)
(* write is one step of the server here: VfsTree has the statements it is  *)
(* made of.  The workspace is chosen before the page is mounted.           *)
(***************************************************************************)
EXTENDS Naturals, Sequences, SequencesExt

CONSTANTS
  Dirs, Files,   \* ids of directories and of assets
  Root,          \* the undefined directory id: the root of the workspace
  Unborn, Gone,  \* the parents of what is not there yet, and no longer
  Calls,         \* asynchronous functions of the page that can run at once
  NoCall,
  Starts,        \* trees to begin with
  MaxDepth,      \* segments of the path
  MaxEvents      \* actions that write, moves by other clients, calls that fail

Entries == Dirs \cup Files
Places == Dirs \cup {Root}

ASSUME IdsAssumption ==
  /\ Dirs \cap Files = {} /\ NoCall \notin Calls
  /\ {Root, Unborn, Gone} \cap Entries = {}
  /\ Root \notin {Unborn, Gone} /\ Unborn # Gone
ASSUME StartsAssumption == Starts \subseteq [Entries -> Places \cup {Unborn}]
ASSUME BoundsAssumption == {MaxDepth, MaxEvents} \subseteq Nat

VARIABLES
  parent,    \* the server's tree
  name,      \* whether an entry has been renamed
  used,      \* the assets of the project
  path,      \* currentPath
  snapshots, \* the listings of some places
  due,       \* the load effect is to run: what it depends on has changed
  loader,    \* the load it runs now, whose answer it would not ignore
  loading, failed,   \* loading; operationError is not empty
  dialog,    \* the dialog that is open, and what it is about
  busy,      \* busyAction
  job,       \* the asynchronous functions under way
  fetches,   \* the requests for listings under way
  events,    \* for the bound
  excused    \* history: places whose listing may be out of date, see Excuse

server == <<parent, name, used>>
view == <<path, dialog>>
load == <<due, loader, loading>>
pageVars == <<server, view, snapshots, load, failed, busy, job, fetches, events, excused>>

Exists(e) == parent[e] \notin {Unborn, Gone}
CanHold(d) == d = Root \/ (d \in Dirs /\ Exists(d))

(* An entry and all that is in it, to any depth.                           *)
Closed(S) == \A x \in Entries : parent[x] \in S => x \in S
Below(d) == {x \in Entries : \A S \in SUBSET Entries : d \in S /\ Closed(S) => x \in S}
Listing(d) == {<<e, name[e]>> : e \in {x \in Entries : parent[x] = d}}
Ids(listing) == {x[1] : x \in listing}

Here == IF path = <<>> THEN Root ELSE Last(path)
Shown == IF Here \in DOMAIN snapshots THEN Ids(snapshots[Here]) ELSE {}
About(kind, e) == [kind |-> kind, e |-> e]
None == About("none", Root)

NoJob == [kind |-> "none", e |-> Root, to |-> Root, dir |-> Root,
          phase |-> "asked", todo |-> {}, kept |-> {}]
Job(kind, e, to, dir, phase) ==
  [NoJob EXCEPT !.kind = kind, !.e = e, !.to = to, !.dir = dir, !.phase = phase]
Free(s) == job[s].kind = "none"
Running(kind) == \E s \in Calls : job[s].kind = kind /\ job[s].phase # "spent"

Request(s, d) == [by |-> s, dir |-> d, got |-> {}, served |-> FALSE, fresh |-> FALSE]

-----------------------------------------------------------------------------
(* A listing is excused when others changed the directory since it was     *)
(* made, when this page moved an entry into it or acted on an entry that   *)
(* was elsewhere than it refetches, when a refetch failed, and when the    *)
(* answers of two fetches were taken in the wrong order.  What is on its   *)
(* way is then no longer fresh.                                            *)
Excuse(places, fs) ==
  /\ excused' = excused \cup places
  /\ fetches' = {IF f.dir \in places THEN [f EXCEPT !.fresh = FALSE] ELSE f : f \in fs}

PageInit ==
  /\ parent \in Starts
  /\ name = [e \in Entries |-> "old"] /\ used = {}
  /\ path = <<>> /\ snapshots = <<>> /\ due = TRUE
  /\ loader = NoCall /\ loading = FALSE /\ failed = FALSE
  /\ dialog = None /\ busy = None
  /\ job = [s \in Calls |-> NoJob] /\ fetches = {}
  /\ events = 0 /\ excused = {}

-----------------------------------------------------------------------------
(* The effect that loads the open directory.  It runs before the page      *)
(* takes the next event, once the path or the listings have changed; the   *)
(* load it started before is from then on ignored.                         *)
LoadEffect ==
  /\ due /\ due' = FALSE
  /\ IF Here \in DOMAIN snapshots
       THEN /\ loader' = NoCall
            /\ UNCHANGED <<loading, job, fetches>>
       ELSE \E s \in Calls :
            /\ Free(s)
            /\ loader' = s /\ loading' = TRUE
            /\ job' = [job EXCEPT ![s] = Job("load", Root, Root, Here, "fetching")]
            /\ fetches' = fetches \cup {Request(s, Here)}
  /\ UNCHANGED <<server, view, snapshots, failed, busy, events, excused>>

Ready == ~due
More == events < MaxEvents
Event == More /\ events' = events + 1
Still == UNCHANGED <<server, snapshots, loader, loading>>

-----------------------------------------------------------------------------
(* The user.  A dialog, or the message of an error, covers the page.       *)

Uncovered == Ready /\ dialog = None /\ ~failed

GoTo(p) ==
  /\ path' = p
  /\ due' = (Here # IF p = <<>> THEN Root ELSE Last(p))

(* openDirectory, navigateTo, navigateRoot.                                *)
OpenDirectory(e) ==
  /\ Uncovered /\ e \in Shown \cap Dirs /\ busy.e # e
  /\ Len(path) < MaxDepth
  /\ GoTo(Append(path, e))
  /\ UNCHANGED <<dialog, failed, busy, job, fetches, events, excused>> /\ Still

NavigateTo(n) ==
  /\ Uncovered /\ n < Len(path)
  /\ GoTo(SubSeq(path, 1, n))
  /\ UNCHANGED <<dialog, failed, busy, job, fetches, events, excused>> /\ Still

(* An item of a menu of a card opens a dialog.  Those of the dropdown menu *)
(* are inside the card, whose onClick gets the click too and opens it.     *)
ThroughCard(e, dropdown) ==
  IF dropdown /\ e \in Dirs
    THEN Len(path) < MaxDepth /\ GoTo(Append(path, e))
    ELSE UNCHANGED <<path, due>>

OpenDialog(kind, e, dropdown) ==
  /\ Uncovered /\ More /\ e \in Shown /\ busy.e # e
  /\ kind \in {"create", "upload"} => e \in Dirs
  /\ dialog' = About(kind, e)
  /\ ThroughCard(e, dropdown)
  /\ UNCHANGED <<failed, busy, job, fetches, events, excused>> /\ Still

(* The buttons of the toolbar.                                             *)
OpenHere(kind) ==
  /\ Uncovered /\ More
  /\ dialog' = About(kind, Here)
  /\ UNCHANGED <<path, due, failed, busy, job, fetches, events, excused>> /\ Still

CloseDialog ==
  /\ Ready /\ ~failed /\ dialog # None
  /\ dialog' = None
  /\ UNCHANGED <<path, due, failed, busy, job, fetches, events, excused>> /\ Still

CloseError ==
  /\ Ready /\ failed /\ failed' = FALSE
  /\ UNCHANGED <<view, due, busy, job, fetches, events, excused>> /\ Still

(* An asynchronous function begins, and sends its first call.              *)
Begin(j) ==
  /\ Event
  /\ \E s \in Calls :
       /\ Free(s)
       /\ job' = [job EXCEPT ![s] = [j EXCEPT !.kept =
                    IF j.kind = "add" THEN Below(j.e) \cap Files ELSE {}]]
       /\ fetches' = IF j.phase = "walking" THEN fetches \cup {Request(s, j.e)} ELSE fetches
  /\ UNCHANGED excused /\ Still

(* runAction: what it starts is busy, the last error is gone.              *)
RunAction(j) == Begin(j) /\ failed' = FALSE

(* handleCreateFolder: a name is entered, by the button or by the Enter    *)
(* key, which takes no heed of a submission under way.                     *)
SubmitCreate(e) ==
  /\ Ready /\ ~failed /\ dialog.kind = "create"
  /\ e \in Dirs /\ parent[e] = Unborn /\ \A s \in Calls : job[s].e # e
  /\ RunAction(Job("create", e, dialog.e, dialog.e, "asked"))
  /\ busy' = About("create", Root)
  /\ UNCHANGED <<view, due>>

(* handleRename, handleDelete.  They will fetch the directory that is open *)
(* now.  The delete button is disabled while busyAction is a deletion.     *)
Submit ==
  /\ Ready /\ ~failed /\ dialog.kind \in {"rename", "delete"}
  /\ dialog.kind = "delete" => busy.kind # "delete"
  /\ RunAction(Job(dialog.kind, dialog.e, Root, Here, "asked"))
  /\ busy' = dialog
  /\ UNCHANGED <<view, due>>

(* handleMove: the destination has been found in the dialog, which may     *)
(* list what was there a while ago.  Its button waits for the last move.   *)
SubmitMove(to) ==
  /\ Ready /\ ~failed /\ dialog.kind = "move" /\ ~Running("move")
  /\ to \in Dirs => parent[to] # Unborn
  /\ RunAction(Job("move", dialog.e, to, Here, "asked"))
  /\ busy' = dialog
  /\ UNCHANGED <<view, due>>

(* addEntryToProject, from the menus.                                      *)
AddToProject(e, dropdown) ==
  /\ Uncovered /\ e \in Shown /\ busy.e # e
  /\ RunAction(IF e \in Dirs THEN Job("add", e, Root, Root, "walking")
               ELSE [Job("add", e, Root, Root, "adding") EXCEPT !.todo = {e}])
  /\ busy' = About("add", e)
  /\ ThroughCard(e, dropdown)
  /\ UNCHANGED dialog

(* The form of a wizard in the upload dialog.  Its function has the        *)
(* directory of that dialog for good, and goes on when it is closed.       *)
SubmitUpload(a) ==
  /\ Ready /\ ~failed /\ dialog.kind = "upload"
  /\ a \in Files /\ parent[a] = Unborn /\ \A s \in Calls : job[s].e # a
  /\ Begin(Job("upload", a, dialog.e, dialog.e, "asked"))
  /\ UNCHANGED <<view, due, failed, busy>>

-----------------------------------------------------------------------------
(* The server.                                                             *)

(* What a folder's walk is sure to find: the files no move has touched.    *)
Disturb(s, moved) == [job[s] EXCEPT !.kept = @ \ moved]

Answered(s, moved) ==
  job' = [t \in Calls |-> IF t = s THEN [job[s] EXCEPT !.phase = "answered"]
                          ELSE Disturb(t, moved)]

(* A directory, or the row of an uploaded asset, is made.  The answer to   *)
(* an upload comes when all of the asset is there (MediaIngest).           *)
ServeCreate(s) ==
  /\ job[s].kind \in {"create", "upload"} /\ job[s].phase = "asked" /\ CanHold(job[s].to)
  /\ parent' = [parent EXCEPT ![job[s].e] = job[s].to]
  /\ Answered(s, {})
  /\ UNCHANGED <<name, used, view, snapshots, load, failed, busy, fetches, events, excused>>

(* The entry may be elsewhere than in the directory that will be fetched.  *)
Elsewhere(s) == {parent[job[s].e]} \ {job[s].dir}

ServeRename(s) ==
  /\ job[s].kind = "rename" /\ job[s].phase = "asked" /\ Exists(job[s].e)
  /\ name' = [name EXCEPT ![job[s].e] = "new"]
  /\ Answered(s, {})
  /\ Excuse(Elsewhere(s), fetches)
  /\ UNCHANGED <<parent, used, view, snapshots, load, failed, busy, events>>

CanMove(e, to) == Exists(e) /\ CanHold(to) /\ to \notin Below(e)

ServeMove(s) ==
  LET e == job[s].e  to == job[s].to IN
  /\ job[s].kind = "move" /\ job[s].phase = "asked" /\ CanMove(e, to)
  /\ parent' = [parent EXCEPT ![e] = to]
  /\ Answered(s, Below(e))
  /\ Excuse(Elsewhere(s) \cup ({to} \ {job[s].dir}), fetches)
  /\ UNCHANGED <<name, used, view, snapshots, load, failed, busy, events>>

ServeDelete(s) ==
  LET e == job[s].e IN
  /\ job[s].kind = "delete" /\ job[s].phase = "asked" /\ Exists(e)
  /\ Below(e) \cap used = {}
  /\ parent' = [x \in Entries |-> IF x \in Below(e) THEN Gone ELSE parent[x]]
  /\ Answered(s, Below(e))
  /\ Excuse(Elsewhere(s), fetches)
  /\ UNCHANGED <<name, used, view, snapshots, load, failed, busy, events>>

(* One of a walk's fetches, or of its adds, has failed: the action is      *)
(* over, what else it has sent is not.                                     *)
Spend(s, fs, todo) ==
  IF (\A g \in fs : g.by # s) /\ todo = {} THEN [job EXCEPT ![s] = NoJob]
  ELSE [job EXCEPT ![s].phase = "spent", ![s].todo = todo, ![s].kept = {}]

ServeAdd(s, a) ==
  /\ job[s].kind = "add" /\ job[s].phase \in {"adding", "spent"}
  /\ a \in job[s].todo /\ Exists(a)
  /\ used' = used \cup {a}
  /\ job' = IF job[s].phase = "spent" THEN Spend(s, {}, job[s].todo \ {a})
            ELSE [job EXCEPT ![s].todo = @ \ {a}]
  /\ UNCHANGED <<parent, name, view, snapshots, load, failed, busy, fetches, events, excused>>

(* An older answer for the same directory, if any, is no longer fresh.     *)
ServeFetch(f) ==
  /\ ~f.served /\ CanHold(f.dir)
  /\ fetches' = {IF g.dir = f.dir THEN [g EXCEPT !.fresh = FALSE] ELSE g : g \in fetches \ {f}}
                  \cup {[f EXCEPT !.served = TRUE, !.fresh = TRUE, !.got = Listing(f.dir)]}
  /\ UNCHANGED <<server, view, snapshots, load, failed, busy, job, events, excused>>

OtherMoves(e, to) ==
  /\ Event
  /\ CanMove(e, to) /\ parent[e] # to
  /\ parent' = [parent EXCEPT ![e] = to]
  /\ job' = [t \in Calls |-> Disturb(t, Below(e))]
  /\ Excuse({parent[e], to}, fetches)
  /\ UNCHANGED <<name, used, view, snapshots, load, failed, busy>>

-----------------------------------------------------------------------------
(* The page gets an answer.                                                *)

(* The end of runAction, and of the dialog that awaits it.                 *)
Over(kind) ==
  /\ busy' = IF kind \in {"load", "upload"} THEN busy ELSE None
  /\ dialog' = IF dialog.kind = kind /\ kind \in {"create", "rename", "move"}
                 THEN None ELSE dialog

(* A deletion closes the dialog of deletions that is open by now, and an   *)
(* upload that of uploads, whatever it is about.                           *)
CloseOwn(kind) ==
  dialog' = IF dialog.kind = kind /\ kind \in {"delete", "upload"} THEN None ELSE dialog

(* A mutated form: the directory is fetched that is open by now.           *)
RefetchOpen(s) ==
  /\ Ready /\ job[s].phase = "answered"
  /\ job' = [job EXCEPT ![s].phase = "fetching"]
  /\ fetches' = fetches \cup {Request(s, Here)}
  /\ CloseOwn(job[s].kind)
  /\ UNCHANGED <<server, path, snapshots, load, failed, busy, events, excused>>

(* The write has succeeded: the directory is fetched that was its own when *)
(* it began.                                                               *)
Refetch(s) ==
  /\ Ready /\ job[s].phase = "answered"
  /\ job' = [job EXCEPT ![s].phase = "fetching"]
  /\ fetches' = fetches \cup {Request(s, job[s].dir)}
  /\ CloseOwn(job[s].kind)
  /\ UNCHANGED <<server, path, snapshots, load, failed, busy, events, excused>>

(* A mutated form: a load that is over is over for the page.               *)
LoadOverAlways(s) ==
  /\ loading' = FALSE
  /\ loader' = IF s = loader THEN NoCall ELSE loader

LoadOver(s) ==
  /\ loading' = IF s = loader THEN FALSE ELSE loading
  /\ loader' = IF s = loader THEN NoCall ELSE loader

(* fetchDirectory keeps the listing.                                       *)
Keep(f) ==
  /\ f \in fetches /\ f.served /\ Ready
  /\ snapshots' = [d \in DOMAIN snapshots \cup {f.dir} |->
                     IF d = f.dir THEN f.got ELSE snapshots[d]]
  /\ due' = TRUE
  /\ excused' = IF f.fresh THEN excused \ {f.dir} ELSE excused \cup {f.dir}

Land(f) ==
  LET s == f.by IN
  /\ Keep(f) /\ job[s].kind # "add"
  /\ fetches' = fetches \ {f}
  /\ job' = [job EXCEPT ![s] = NoJob]
  /\ LoadOver(s)
  /\ Over(job[s].kind)
  /\ UNCHANGED <<server, path, failed, events>>

(* A mutated form: the directories in a directory are not walked.          *)
WalkOne(f) ==
  LET s == f.by IN
  /\ Keep(f) /\ job[s].kind = "add"
  /\ fetches' = fetches \ {f}
  /\ job' = [job EXCEPT ![s].todo = @ \cup (Ids(f.got) \cap Files), ![s].phase = "adding"]
  /\ UNCHANGED <<server, view, loader, loading, failed, busy, events>>

(* collectDirectoryAssetIds: the directories in it are fetched all at      *)
(* once; when none is awaited any more the assets are added all at once.   *)
Walk(f) ==
  LET s == f.by
      found == job[s].todo \cup (Ids(f.got) \cap Files)
      next == (fetches \ {f}) \cup {Request(s, d) : d \in Ids(f.got) \cap Dirs}
      ends == \A g \in next : g.by # s
  IN
  /\ Keep(f) /\ job[s].kind = "add"
  /\ fetches' = next
  /\ job' = IF ends /\ job[s].phase = "spent" THEN [job EXCEPT ![s] = NoJob]
            ELSE [job EXCEPT ![s].todo = IF job[s].phase = "spent" THEN {} ELSE found,
                             ![s].phase = IF ends THEN "adding" ELSE @]
  /\ UNCHANGED <<server, view, loader, loading, failed, busy, events>>

(* Every add of the folder, or the one of the file, has been answered.     *)
Added(s) ==
  /\ Ready /\ job[s].kind = "add" /\ job[s].phase = "adding" /\ job[s].todo = {}
  /\ job' = [job EXCEPT ![s] = NoJob]
  /\ Over("add")
  /\ UNCHANGED <<server, path, snapshots, load, failed, fetches, events, excused>>

(* A call fails: the write is refused or lost, or it is done and its       *)
(* answer is lost, or the listing is.  What a failed load would show is    *)
(* shown only if it is not ignored, a failed upload by its own dialog.     *)
(* Its row may be taken away again (MediaIngest): its place is excused.    *)
Fails(s, fs) ==
  /\ Ready /\ Event
  /\ LET k == job[s].kind
         wrote == job[s].phase # "asked" /\ k \notin {"load", "add"} IN
     /\ Excuse(IF wrote THEN {job[s].dir} ELSE {}, fs)
     /\ failed' = (failed \/ CASE k = "load" -> s = loader
                              [] k = "upload" -> job[s].phase = "fetching"
                              [] OTHER -> TRUE)
     /\ LoadOver(s)
     /\ Over(k)
  /\ UNCHANGED <<server, path, snapshots, due>>

FailWrite(s) ==
  /\ ~Free(s) /\ job[s].phase \in {"asked", "answered"}
  /\ Fails(s, fetches)
  /\ job' = [job EXCEPT ![s] = NoJob]

FailFetch(f) ==
  /\ f \in fetches /\ job[f.by].kind # "add"
  /\ Fails(f.by, fetches \ {f})
  /\ job' = [job EXCEPT ![f.by] = NoJob]

FailWalk(f) ==
  LET s == f.by IN
  /\ f \in fetches /\ job[s].kind = "add"
  /\ job' = Spend(s, fetches \ {f}, {})
  /\ IF job[s].phase = "spent"
       THEN /\ Ready /\ fetches' = fetches \ {f}
            /\ UNCHANGED <<server, view, snapshots, load, failed, busy, events, excused>>
       ELSE Fails(s, fetches \ {f})

FailAdd(s, a) ==
  /\ job[s].kind = "add" /\ job[s].phase \in {"adding", "spent"} /\ a \in job[s].todo
  /\ job' = Spend(s, {}, job[s].todo \ {a})
  /\ IF job[s].phase = "spent"
       THEN /\ Ready
            /\ UNCHANGED <<server, view, snapshots, load, failed, busy, fetches, events, excused>>
       ELSE Fails(s, fetches)

-----------------------------------------------------------------------------
User ==
  \/ \E e \in Entries : OpenDirectory(e) \/ SubmitCreate(e) \/ SubmitUpload(e)
  \/ \E n \in 0 .. MaxDepth : NavigateTo(n)
  \/ \E e \in Entries, dropdown \in BOOLEAN :
       \/ \E kind \in {"create", "upload", "rename", "move", "delete"} :
            OpenDialog(kind, e, dropdown)
       \/ AddToProject(e, dropdown)
  \/ \E kind \in {"create", "upload"} : OpenHere(kind)
  \/ CloseDialog \/ CloseError \/ Submit
  \/ \E to \in Places : SubmitMove(to)

Server ==
  \/ \E s \in Calls : ServeCreate(s) \/ ServeRename(s) \/ ServeMove(s) \/ ServeDelete(s)
  \/ \E s \in Calls, a \in Files : ServeAdd(s, a)
  \/ \E f \in fetches : ServeFetch(f)
  \/ \E e \in Entries, to \in Places : OtherMoves(e, to)

Answers ==
  \/ \E s \in Calls : Refetch(s) \/ Added(s) \/ FailWrite(s)
  \/ \E f \in fetches : Land(f) \/ Walk(f) \/ FailFetch(f) \/ FailWalk(f)
  \/ \E s \in Calls, a \in Files : FailAdd(s, a)

PageNext == LoadEffect \/ User \/ Server \/ Answers

PageSpec == PageInit /\ [][PageNext]_pageVars

-----------------------------------------------------------------------------
(* The listings the page keeps of directories that exist show all its own  *)
(* changes once it is at rest, but for those that are excused (above).     *)
OwnChangesShown ==
  (\A s \in Calls : Free(s)) =>
    \A d \in DOMAIN snapshots \ excused : CanHold(d) => snapshots[d] = Listing(d)

(* While the load of the open directory is under way the page says so,     *)
(* however the loads of directories left before end.                       *)
LoadingIsTold == loader # NoCall => loading

(* When all adds of a folder have been made, every asset that was below it *)
(* at the start, and that nothing moved or deleted since, is in the        *)
(* project.                                                                *)
FolderIsAdded ==
  \A s \in Calls :
    job[s].kind = "add" /\ job[s].phase = "adding" /\ job[s].todo = {} => job[s].kept \subseteq used
=============================================================================
