--------------------------- MODULE EditorSession ---------------------------
(***************************************************************************)
(* The project page (web/src/components/projects/ProjectView.tsx) around    *)
(* the one editor store of the browser tab: projects opened one after       *)
(* another, the calls a page makes and that outlive it, the debounced       *)
(* autosave, commits, restores, and what the player fetched last.  What the *)
(* server does with one call is one step here; BranchCommits has the steps  *)
(* it is made of.  A state of the editor is abstracted to the project it    *)
(* was loaded from and the last edit made to it.                            *)
(***************************************************************************)
EXTENDS Naturals, Sequences

CONSTANTS
    Projects,       \* each has the one branch its creation makes
    NoProject,
    MaxCalls,       \* calls under way at once
    MaxOpens,       \* pages opened
    MaxEdits,
    MaxCommits,
    MaxRestores

ASSUME ProjectsAssumption == NoProject \notin Projects
ASSUME BoundsAssumption ==
    /\ MaxCalls \in Nat \ {0} /\ MaxOpens \in Nat /\ MaxEdits \in Nat
    /\ MaxCommits \in Nat /\ MaxRestores \in Nat

Slots == 1 .. MaxCalls
NoCommit == 0                                   \* an absent tip_commit_id
State == [of : Projects \cup {NoProject}, edit : 0 .. MaxEdits]
Empty(p) == [of |-> p, edit |-> 0]              \* loadState(undefined)
Nothing == [of |-> NoProject, edit |-> 0]

(* What the src of the player is made of: the reason for its v parameter.  *)
NoSrc == <<"none", 0>>

Idle == [kind |-> "idle", project |-> NoProject, state |-> Nothing, num |-> 0,
         served |-> FALSE, refused |-> FALSE, gone |-> FALSE]

VARIABLES
    open,       \* the project whose page is mounted
    listed,     \* branches and selectedBranch are set
    known,      \* the selected branch's tipCommitId, as the page has it
    store,      \* what editorStore holds: one store for all pages
    revision,   \* editorStore.editRevision
    timer,      \* the 500 ms timer of the autosave runs
    restoring,  \* restoringCommitId
    src,        \* currVideoPlayingSrc
    shown,      \* what the player fetched for it
    fetching,   \* ... and whether it is still to be fetched
    calls,      \* the calls under way
    commits,    \* the commits of all projects, in order
    tip,        \* per project: branches.tip_commit_id
    cache,      \* per project: the user's entry in the manifest cache
    opens, edits, restores,                     \* for the bounds
    loaded, failed, overlapped, strays          \* history, see below

page == <<open, listed, known, restoring>>
editor == <<store, revision, timer>>
player == <<src, shown, fetching>>
server == <<commits, tip, cache>>
counts == <<opens, edits, restores>>
(* loaded: this page's own load has been answered; failed: a call failed    *)
(* since it was opened; overlapped: while an autosave was under way another *)
(* was sent, or a load or a commit was answered, or a commit was restored   *)
(* again of whose restoring the player's src tells; strays: what calls of   *)
(* earlier pages changed since then.                                        *)
history == <<loaded, failed, overlapped, strays>>
vars == <<page, editor, player, calls, server, counts, history>>

Init ==
    /\ open = NoProject /\ listed = FALSE /\ known = NoCommit /\ restoring = NoCommit
    /\ store = Nothing /\ revision = 0 /\ timer = FALSE
    /\ src = NoSrc /\ shown = Nothing /\ fetching = FALSE
    /\ calls = [c \in Slots |-> Idle]
    /\ commits = <<>> /\ tip = [p \in Projects |-> NoCommit]
    /\ cache = [p \in Projects |-> Nothing]
    /\ opens = 0 /\ edits = 0 /\ restores = 0
    /\ loaded = FALSE /\ failed = FALSE /\ overlapped = {} /\ strays = {}

-----------------------------------------------------------------------------
(* Calls.                                                                   *)

Busy(c) == calls[c].kind # "idle"
Live(c) == Busy(c) /\ ~calls[c].gone

Call(kind, p, state, num) ==
    [Idle EXCEPT !.kind = kind, !.project = p, !.state = state, !.num = num]

Send(call) ==
    \E c \in Slots :
        /\ ~Busy(c)
        /\ \A d \in Slots : d < c => Busy(d)
        /\ calls' = [calls EXCEPT ![c] = call]

Continue(c, call) == calls' = [calls EXCEPT ![c] = [call EXCEPT !.gone = calls[c].gone]]
Done(c) == calls' = [calls EXCEPT ![c] = Idle]

Saves == {"save", "resave"}
SaveUnderWay == \E c \in Slots : Live(c) /\ calls[c].kind \in Saves
Overlap(cond, what) == overlapped' = IF cond THEN overlapped \cup {what} ELSE overlapped

(* A mutated form of Play: the src has no v parameter.                      *)
PlayBranch(s) ==
    LET bare == IF s = NoSrc THEN NoSrc ELSE <<"branch", 0>> IN
    /\ src' = bare
    /\ shown' = IF bare = src THEN shown ELSE Nothing
    /\ fetching' = IF bare = src THEN fetching ELSE bare # NoSrc

(* A src that is the same as before does not make the player fetch again.   *)
Play(s) ==
    /\ src' = s
    /\ shown' = IF s = src THEN shown ELSE Nothing
    /\ fetching' = IF s = src THEN fetching ELSE s # NoSrc

-----------------------------------------------------------------------------
(* The user.                                                                *)

(* A page is mounted: it lists the branches. The store is as it was left.   *)
Open(p) ==
    /\ open = NoProject /\ opens < MaxOpens
    /\ Send(Call("list", p, Nothing, 0))
    /\ open' = p /\ listed' = FALSE /\ known' = NoCommit /\ restoring' = NoCommit
    /\ src' = NoSrc /\ shown' = Nothing /\ fetching' = FALSE
    /\ opens' = opens + 1
    /\ loaded' = FALSE /\ failed' = FALSE /\ overlapped' = {} /\ strays' = {}
    /\ UNCHANGED <<editor, server, edits, restores>>

(* It is unmounted: its timer is cleared, its calls are not cancelled.      *)
Leave ==
    /\ open # NoProject
    /\ open' = NoProject /\ listed' = FALSE /\ known' = NoCommit /\ restoring' = NoCommit
    /\ timer' = FALSE
    /\ src' = NoSrc /\ shown' = Nothing /\ fetching' = FALSE
    /\ calls' = [c \in Slots |-> IF Busy(c) THEN [calls[c] EXCEPT !.gone = TRUE] ELSE Idle]
    /\ UNCHANGED <<store, revision, server, counts, history>>

(* The effect on branches, editRevision and selectedBranch: clears the timer *)
(* and sets it anew unless there is nothing to save or no branch.           *)
Debounced(l, r) == l /\ r # 0

Edit ==
    /\ open # NoProject /\ edits < MaxEdits
    /\ edits' = edits + 1
    /\ store' = [store EXCEPT !.edit = edits']
    /\ revision' = revision + 1
    /\ timer' = Debounced(listed, revision')
    /\ UNCHANGED <<page, player, calls, server, opens, restores, history>>

AutoSave ==
    /\ timer
    /\ timer' = FALSE
    /\ Send(Call("save", open, store, revision))
    /\ Overlap(SaveUnderWay, "save")
    /\ UNCHANGED <<page, store, revision, player, server, counts, loaded, failed, strays>>

(* A mutated form of ClickCommit: the button is not disabled meanwhile.      *)
ClickCommitAgain ==
    /\ listed /\ store.edit # 0 /\ Len(commits) < MaxCommits
    /\ Send(Call("commit", open, store, known))
    /\ UNCHANGED <<page, editor, player, server, counts, history>>

(* One commit at a time, of a timeline that is not empty.                   *)
ClickCommit ==
    /\ listed /\ store.edit # 0 /\ Len(commits) < MaxCommits
    /\ \A c \in Slots : Live(c) => calls[c].kind # "commit"
    /\ Send(Call("commit", open, store, known))
    /\ UNCHANGED <<page, editor, player, server, counts, history>>

RestoreUnderWay(id) ==
    \E c \in Slots : Live(c) /\ calls[c].kind \in {"restore", "resave"} /\ calls[c].num = id

(* Any commit of the project but the current one, or the one being restored. *)
ClickRestore(id) ==
    /\ listed /\ restores < MaxRestores
    /\ commits[id].project = open /\ id # known /\ id # restoring
    /\ Send(Call("restore", open, Nothing, id))
    /\ restoring' = id
    /\ restores' = restores + 1
    /\ Overlap(src = <<"restore", id>> \/ RestoreUnderWay(id), "again")
    /\ UNCHANGED <<open, listed, known, editor, player, server, opens, edits, loaded, failed,
                   strays>>

-----------------------------------------------------------------------------
(* The server.                                                              *)

Answered(c, kinds) == calls[c].kind \in kinds /\ calls[c].served
Asked(c, kinds) == calls[c].kind \in kinds /\ ~calls[c].served

Stray(c, what) ==
    strays' = IF calls[c].gone /\ open # NoProject THEN strays \cup {what} ELSE strays

ServeList(c) ==
    /\ Asked(c, {"list"})
    /\ calls' = [calls EXCEPT ![c].served = TRUE, ![c].num = tip[calls[c].project]]
    /\ UNCHANGED <<page, editor, player, server, counts, history>>

(* GetCommit drops the caller's cached manifests.                           *)
ServeGetCommit(c) ==
    /\ Asked(c, {"load", "restore"})
    /\ calls' = [calls EXCEPT ![c].served = TRUE, ![c].state = commits[calls[c].num].state]
    /\ cache' = [cache EXCEPT ![calls[c].project] = Nothing]
    /\ Stray(c, "server")
    /\ UNCHANGED <<page, editor, player, commits, tip, counts, loaded, failed, overlapped>>

ServeSave(c) ==
    /\ Asked(c, Saves)
    /\ calls' = [calls EXCEPT ![c].served = TRUE]
    /\ cache' = [cache EXCEPT ![calls[c].project] = calls[c].state]
    /\ Stray(c, "server")
    /\ UNCHANGED <<page, editor, player, commits, tip, counts, loaded, failed, overlapped>>

(* Refused only if it names a commit that is not the tip.                   *)
ServeCommit(c) ==
    /\ Asked(c, {"commit"})
    /\ LET p == calls[c].project
           stale == calls[c].num # NoCommit /\ calls[c].num # tip[p]
       IN  IF stale
           THEN /\ calls' = [calls EXCEPT ![c].served = TRUE, ![c].refused = TRUE]
                /\ UNCHANGED <<server, strays>>
           ELSE /\ commits' = Append(commits, [project |-> p, state |-> calls[c].state])
                /\ tip' = [tip EXCEPT ![p] = Len(commits')]
                /\ cache' = [cache EXCEPT ![p] = Nothing]
                /\ calls' = [calls EXCEPT ![c].served = TRUE, ![c].num = Len(commits')]
                /\ Stray(c, "server")
    /\ UNCHANGED <<page, editor, player, counts, loaded, failed, overlapped>>

(* GetManifest answers what is cached or else what was committed.           *)
Manifest(p) ==
    IF cache[p] # Nothing THEN cache[p]
    ELSE IF tip[p] # NoCommit THEN commits[tip[p]].state ELSE Nothing

Fetch ==
    /\ fetching
    /\ fetching' = FALSE
    /\ shown' = Manifest(open)
    /\ UNCHANGED <<page, editor, src, calls, server, counts, history>>

-----------------------------------------------------------------------------
(* The page's continuations. Those of an unmounted page set no state of a    *)
(* page, but they write the store.                                          *)

(* A mutated form of LoadState: editRevision is not set back.               *)
LoadStateAsEdit(state) == store' = state /\ UNCHANGED <<revision, timer>>

(* editorStore.loadState: editRevision is 0 again, so a timer is cleared.   *)
LoadState(state) ==
    /\ store' = state
    /\ revision' = 0
    /\ timer' = FALSE

(* A mutated form of LoadNothing: only a branch with commits is loaded.      *)
LoadNoState(p) == UNCHANGED editor

(* A branch without commits empties the store.                              *)
LoadNothing(p) == LoadState(Empty(p))

(* The branches are known: an edit left in the store is due for saving, and *)
(* the tip is asked for.                                                    *)
AnswerList(c) ==
    /\ Answered(c, {"list"})
    /\ LET call == calls[c] IN
       /\ IF call.gone THEN UNCHANGED <<listed, known>>
          ELSE listed' = TRUE /\ known' = call.num
       /\ IF call.num = NoCommit
          THEN /\ LoadNothing(call.project)
               /\ Done(c)
               /\ Stray(c, "store")
               /\ loaded' = (loaded \/ ~call.gone)
               /\ IF call.gone THEN UNCHANGED player ELSE Play(NoSrc)
          ELSE /\ Continue(c, Call("load", call.project, Nothing, call.num))
               /\ timer' = IF call.gone THEN timer ELSE Debounced(TRUE, revision)
               /\ UNCHANGED <<store, revision, player, loaded, strays>>
    /\ UNCHANGED <<open, restoring, server, counts, failed, overlapped>>

AnswerLoad(c) ==
    /\ Answered(c, {"load"})
    /\ LoadState([calls[c].state EXCEPT !.of = calls[c].project])
    /\ Done(c)
    /\ Stray(c, "store")
    /\ loaded' = (loaded \/ ~calls[c].gone)
    /\ IF calls[c].gone THEN UNCHANGED player ELSE Play(<<"branch", 0>>)
    /\ Overlap(SaveUnderWay, "answer")
    /\ UNCHANGED <<page, server, counts, failed>>

AnswerSave(c) ==
    /\ Answered(c, {"save"})
    /\ IF calls[c].gone THEN UNCHANGED player ELSE Play(<<"autosave", calls[c].num>>)
    /\ Done(c)
    /\ UNCHANGED <<page, editor, server, counts, history>>

(* The page takes the new tip over, which runs the autosave's effect again. *)
AnswerCommit(c) ==
    /\ Answered(c, {"commit"})
    /\ IF calls[c].gone \/ calls[c].refused
       THEN UNCHANGED <<known, timer, player>>
       ELSE /\ known' = calls[c].num
            /\ timer' = Debounced(listed, revision)
            /\ Play(<<"commit", calls[c].num>>)
    /\ Overlap(SaveUnderWay, "answer")
    /\ Done(c)
    /\ UNCHANGED <<open, listed, restoring, store, revision, server, counts, loaded, failed,
                   strays>>

(* The commit is loaded, and what the store then holds is autosaved.        *)
AnswerRestore(c) ==
    /\ Answered(c, {"restore"})
    /\ LoadState([calls[c].state EXCEPT !.of = calls[c].project])
    /\ Continue(c, Call("resave", calls[c].project, store', calls[c].num))
    /\ Stray(c, "store")
    /\ Overlap(SaveUnderWay /\ ~calls[c].gone, "save")
    /\ UNCHANGED <<page, player, server, counts, loaded, failed>>

AnswerResave(c) ==
    /\ Answered(c, {"resave"})
    /\ IF calls[c].gone THEN UNCHANGED <<player, restoring>>
       ELSE Play(<<"restore", calls[c].num>>) /\ restoring' = NoCommit
    /\ Done(c)
    /\ UNCHANGED <<open, listed, known, editor, server, counts, history>>

(* A call fails, before or after the server served it: nothing tries again. *)
Fail(c) ==
    /\ Busy(c)
    /\ restoring' = IF calls[c].kind \in {"restore", "resave"} /\ ~calls[c].gone
                    THEN NoCommit ELSE restoring
    /\ failed' = (failed \/ ~calls[c].gone)
    /\ Done(c)
    /\ UNCHANGED <<open, listed, known, editor, player, server, counts, loaded, overlapped,
                   strays>>

-----------------------------------------------------------------------------
Serve(c) == ServeList(c) \/ ServeGetCommit(c) \/ ServeSave(c) \/ ServeCommit(c)
Answer(c) ==
    \/ AnswerList(c) \/ AnswerLoad(c) \/ AnswerSave(c) \/ AnswerCommit(c)
    \/ AnswerRestore(c) \/ AnswerResave(c)

Next ==
    \/ \E p \in Projects : Open(p)
    \/ Leave \/ Edit \/ AutoSave \/ ClickCommit \/ Fetch
    \/ \E id \in 1 .. Len(commits) : ClickRestore(id)
    \/ \E c \in Slots : Serve(c) \/ Answer(c) \/ Fail(c)

Spec == Init /\ [][Next]_vars

-----------------------------------------------------------------------------
(* Properties.                                                              *)

Sources == {"none", "branch", "autosave", "commit", "restore"} \X Nat
Kinds == {"idle", "list", "load", "save", "commit", "restore", "resave"}
CallSet == [kind : Kinds, project : Projects \cup {NoProject}, state : State,
            num : Nat, served : BOOLEAN, refused : BOOLEAN, gone : BOOLEAN]

Entries == [project : Projects, state : State]

PageType ==
    /\ open \in Projects \cup {NoProject} /\ listed \in BOOLEAN
    /\ known \in 0 .. Len(commits) /\ restoring \in 0 .. Len(commits)
    /\ (listed => open # NoProject)
EditorType ==
    /\ store \in State /\ revision \in 0 .. edits /\ edits \in 0 .. MaxEdits
    /\ timer \in BOOLEAN /\ (timer => listed /\ revision # 0)
PlayerType == src \in Sources /\ shown \in State /\ fetching \in BOOLEAN
ServerType ==
    /\ commits \in Seq(Entries)
    /\ tip \in [Projects -> 0 .. Len(commits)] /\ cache \in [Projects -> State]
HistoryType ==
    /\ loaded \in BOOLEAN /\ failed \in BOOLEAN /\ overlapped \subseteq {"save", "answer", "again"}
    /\ strays \subseteq {"store", "server"}

TypeOK ==
    /\ PageType /\ EditorType /\ PlayerType /\ ServerType /\ HistoryType
    /\ calls \in [Slots -> CallSet]

(* Once its own load is answered, a page edits a state of its own project,   *)
(* whatever came before, unless a call of an earlier page wrote the store    *)
(* meanwhile (loadState is called by continuations nothing cancels).         *)
StoreFollowsPage == loaded /\ open # NoProject /\ "store" \notin strays => store.of = open

Quiet == open # NoProject /\ ~timer /\ (\A c \in Slots : ~Live(c)) /\ ~fetching
Undisturbed == ~failed /\ strays = {}

(* When a page comes to rest, the server has its last edit cached, although   *)
(* a commit drops the cached manifests and may do so after an autosave of a  *)
(* later edit: the answer of the commit makes the page save again.            *)
LastEditIsSaved ==
    Quiet /\ loaded /\ revision # 0 /\ Undisturbed /\ "save" \notin overlapped => cache[open] = store

(* When a page comes to rest, the player has fetched what the server has now:*)
(* each call that changes it is followed by a src the player does not have.   *)
PlayerIsFresh ==
    Quiet /\ loaded /\ src # NoSrc /\ Undisturbed /\ overlapped = {} => shown = Manifest(open)

(* A user who works alone is told "someone else committed" only after a      *)
(* commit whose answer the open page did not get.                            *)
RefusalsAreTrue ==
    \A c \in Slots : calls[c].refused /\ ~calls[c].gone => ~Undisturbed
=============================================================================
