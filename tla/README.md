# vynfo: specifications, model checking and proofs

vynfo is a collaborative video editor: a Go backend (Connect RPC, Postgres,
cloud storage, ffmpeg), a React page, and a Python agent service. This
directory holds TLA+ modules for the parts of it whose correctness depends on
the order in which things happen, TLC configurations that check them on small
instances, and TLAPS proofs of the properties that matter most for every value
of the constants. `PROJECT.json` names, for each definition, the lines it
models; the paths below are relative to `src/`.

Run a check with `tlc -config X.cfg M` and a proof with `tlapm M.tla`, here.

## 1. The system: inventory

| Component | State it keeps | Operations | Talks to |
|---|---|---|---|
| **Branch commits** (`backend/services/project/{commit-edit,auto-save,get-commit,view-hls}.go`, `backend/video/manifest-cache.go`) | rows of `commits`, `commit_parents`, `branches.tip_commit_id`; two manifest objects per branch in cloud storage; the in-memory manifest cache, per user | CommitEdit, AutoSave, GetCommit, GetManifest, the expiry timers | database, cloud storage, the project page |
| **Project page** (`web/src/components/projects/ProjectView.tsx`, `project-editor/{CommitDialog,VersionsSheet,VideoPlayer}.tsx`) | the open project's branch and its tip as last told, calls under way, the autosave timer, the player's src | open a project, load, autosave, commit, restore, play | editor store, branch commits |
| **Editor timeline** (`web/src/components/stores/editor.ts` and the gestures in `project-editor/`) | lists of video and audio sections, overlays, effects, three selections, an edit revision; the index a drag, a menu or a dialog was begun on | add, insert, paste, remove, cut, trim, reorder, move, overlay, apply effects, load | project page |
| **Upload pipeline** (`backend/video/{upload-worker,segment-video,segment-audio,manifest-builder}.go`, `backend/services/vfs/{ingest-video,ingest-audio,upload-utils}.go`) | two channels, three contexts, the manifest builder, the keys to clean up | dispatch, put, index, consume, finish, clean up | ffmpeg, cloud storage, database, the wizard's stream |
| **Media ingest** (`backend/services/vfs/{get-upload-target,ingest-*}.go`, `web/src/components/vfs/VfsUploadDialog.tsx`, `upload/{UploadWizard.tsx,useSignedAssetUpload.ts}`) | `pending_assets`, `assets` and their details; the dialog's target, the PUT, the streams followed | get a target, PUT, ingest, retry, clean up, delete | upload pipeline, file system |
| **Space notifications** (`backend/messages/`, `backend/services/spaces/{send,open,list}-space*.go`, `web/src/components/spaces/{SpaceView.tsx,spaceWorker.ts}`) | messages; the pq listener's queue; one buffered channel per subscription; the list a page shows | SendSpaceMessage, dispatch, subscribe, alert, load | Postgres LISTEN/NOTIFY, pages |
| **Virtual file system** (`backend/services/vfs/*-directory.go`, `move-*.go`, `*-asset.go`, `delete-utils.go`; `backend/services/project/*-project-asset.go`) | rows of `directories` (a tree), `assets`, `project_assets` | create, rename, move, delete, add to and remove from a project, list | files page, media ingest |
| **Files page** (`web/src/components/vfs/`) | the path, the listings kept, the load under way, the open dialog, the busy action | open, navigate, create, rename, move, delete, add to a project, upload | file system, media ingest |
| **Agent conversations** (`backend/services/conversation/`, `agent/src/`) | messages with their parents, runs | send and relay an answer, keep the run, delete | agent service, agent thread |
| **Agent thread** (`web/src/agent-runtime/`, `assistant-ui/thread.tsx`) | a tree of messages per tab and the branch shown | post, edit, refresh, stop, switch branch, reload | agent conversations |
| **Accounts and workspaces** (`web/src/components/{App.tsx,providers/,auth/,settings/}`, `backend/services/{users,workspaces}/`) | who is signed in, the account, the workspaces known and the selected one, its id in local storage; `users.onboarded_at`, `workspace_members` | sign in and out, load the account, complete a sign-up, list, select, add a user | every page |
| **Lists of projects and spaces** (`web/src/components/{projects,spaces}/`, `shared/DataTable.tsx`, `backend/services/{project,spaces}/`) | rows shown, form, menu, the row being deleted | list, create, delete, add a user, leave | accounts, project page |
| **Playback serialisation** (`backend/video/{serialize,offsets-*}.go`) | none (pure) | sections to an HLS manifest | branch commits |
| **Export** (`backend/exporter/`, `export-project.go`) | none | playback state to ffmpeg arguments | ffmpeg |
| **Player, effect levels, widgets** | view-local | rendering | editor store |
| **Start-up, schema, deployment** (`backend/main.go`, `database/schema/`, compose and k8s files) | constraints | start, replace a pod | all |

### What is hard, and what makes each part correct

**Branch commits.** No request holds a lock: each handler reads the branch,
writes two objects, runs a transaction and drops two cache entries, and any
other handler may run between any two of these. *Correct when* a commit replaces
only the tip its author saw; when what plays from cloud storage is the tip; when a
user's cache holds only that user's own unsaved edits; whatever fails half-way, and
when the pod is replaced. (That the history is grounded is the schema's doing: its
foreign keys refuse a tip or a parent that is no row, and are part of `CommitTx`.)

**Project page.** One editor store serves all pages of a tab, a page's calls are
not cancelled with it, and each answer sets the store, a tip, a src or a timer.
*Correct when* a page edits its own project's state, the last edit comes to be
saved, the player comes to have what the server has, and a refusal is true.

**Editor timeline.** A long series of legal edits, each of which moves indices,
windows and the audio under the video, and gestures that keep an index while the
Delete key or a load moves what has it. *Correct when* an edit changes the section
it was begun on and no other; when sections tile the timeline
with footage that exists, audio stays inside the video and clear of other audio,
an edit keeps the footage it does not touch, a selection stays on its section,
and a saved state loads as it was.

**Upload pipeline.** A dispatcher, several workers and a consumer meet on
unbuffered channels, and share three contexts that cancel one another. *Correct
when* the handler always returns, leaves no goroutine, answers "finished" only
for a media file that is whole, and leaves nothing of one that failed.

**Media ingest.** A connection is lost and the same asset id is ingested again
beside the first attempt; the dialog is closed over a PUT, a target, a stream; the
asset is visible, usable and deletable while it is made; the server crashes.
*Correct when* what was announced is whole, a clean-up takes only what its own
attempt made, and the wizard comes back.

**Space notifications.** One signal per subscription, many changes, a connection
that may be lost with the notifications in it. *Correct when* an open page that
is behind is always alerted.

**Virtual file system.** Each request checks with some statements and writes with
another, in no transaction: the walk from the new parent to the root, the list of
siblings, the projects that use an asset may all be out of date when the write
comes, and the walk itself reads one row at a time. *Correct when* no row refers
to one that is gone, when the directories stay a tree and the names of siblings of
one kind differ unless two requests overlapped, and when the walk ends.

**Files page.** Listings are kept per directory, replaced by whichever fetch is
answered last, and an action fetches a directory chosen when it began, though the
user has gone elsewhere since. *Correct when* at rest the listings show the page's
own changes, waiting is shown while there is something to wait for, and a folder
is added to a project whole.

**Agent conversation.** Tabs show branches of one tree that others change, runs are
stopped or lost half-way, ids are made by the tab. *Correct when* the agent is told
what the tab showed above the message, what is shown as complete is still there
after a reload, and the rows are a tree in the order in which they are imported.

**Accounts and workspaces.** Users change in any tab at any time while the answers
for the last one are under way, and local storage outlives them. *Correct when* the
workspace is one of the user's own and does not change under an open page, and
when no loading screen stays.

**Lists.** Forms and menus overlap with listings and deletions. *Correct when* a
list at rest shows the page's own changes and nothing stays disabled.

Every hazard is listed at its line in `PROJECT.json`, with the property that
covers it or the reason why none does.

## 2. The modules

```
 web                                        backend

 WebShell        who is signed in, which workspace     (with its handlers)
   |-- ListPages        the lists of a workspace         (with their handlers)
   |-- VfsPage          the files page  .............. VfsTree        tree and assets
   |     '-- MediaIngest  dialog, wizard, attempts ... UploadPipeline one attempt inside
   |-- EditorSession    a project's page ............. BranchCommits  commits and caches
   |     '-- EditorGestures  drags, menu, dialog, keys
   |           '-- EditorTimeline  the editor store
   |-- AgentThread      tabs                           (with SendAgentMessage)
   '-- SpaceNotify      pages, observer, listener;  implements SpaceAlerts
                        (INSTANCE SpaceAlerts WITH open <- Subscribed)

 proofs:  EditorSessionProofs  VfsTreeProofs  WebShellProofs  MediaIngestProofs
          ListPagesProofs
          ProjectProofs (of BranchCommits and of EditorTimeline, EditorGestures)
          FilesProofs   (of UploadPipeline and of VfsPage)
          StreamProofs  (of AgentThread and of SpaceNotify)
```

A dotted line joins a module that takes a call of the server as one step to the
one that has the statements of that call. The modules are checked through `MC`
modules, which add the model values a configuration needs (and, for two of them, a
constraint described below, and for one a VIEW). Two `MC` modules hold two components
that share no state, as section 3 says: MCMediaIngest also UploadPipeline, and
MCWebShell also ListPages. A `Proofs` module EXTENDS its
component, or components that share no name, and holds nothing but theorems and the
strengthenings they need. An operator introduced as
"a mutated form" or "Mutant" is a plausible bug, used by no specification:
`PROJECT.json` names the definition it can stand in for and the property that then
fails.

### BranchCommits

One branch, any number of users and of requests in flight (`Slots`, each served
for its `Owner`). A handler is a program counter `pc[r]`, its local values `edit`,
`id`, `seen`, `kind`, and one action per database, storage or cache call:

| Handler | Actions, in order |
|---|---|
| CommitEdit | `SendCommit`, `ReadTip` (the branch is read, a stale commit refused), `PutVideo`, `PutAudio` (only for a state with audio), `CommitTx` or `CommitTxLost`, `DropVideo`, `DropAudio`; `CommitFails` at any call, `PutFailsLate` when an object was written all the same |
| AutoSave | `SendAutoSave`, `CacheVideo`, `CacheAudio`; `AutoSaveFails` |
| GetCommit | `SendGetCommit`, `DropVideo`, `DropAudio` |
| GetManifest | `SendGetManifest`, `Find`, `Fetch`, `Fill` |
| others | `ListBranches` (a page learns the tip), `Expire` (a timer of the cache), `PodRolls` (memory and handlers are gone) |

`CommitTxLost` is the path of commit-edit.go:153-155: when the transaction's
commit fails the error is only logged and the id of a row that does not exist is
answered (`Phantom`). `CommitTx` wants a parent that is a row, as the schema does. A manifest is abstracted to the edit it was built from;
a cache entry's 15 minutes to an entry that may go at any moment. `published` and
`torn` are history variables the properties speak of; no action reads them.

### EditorSession

The tab's one `store` and `revision`, the mounted page (`open`, `listed`, `known`,
`restoring`), its 500 ms `timer`, the player (`src`, what it has `shown`), and the
`calls` under way, each with the continuation of ProjectView.tsx or CommitDialog.tsx
that waits for it. `Open` and `Leave` mount and unmount: the timer is cleared, the
calls are only marked `gone`, and go on to write the store. `AnswerList` continues
with a `load`, `AnswerRestore` with a `resave`, as the code awaits one after the
other. `Debounced` is what the effect on branches, revision and branch does to the
timer. The server's side of each call is one step (`ServeList`, `ServeGetCommit`,
`ServeSave`, `ServeCommit`, `Fetch` for the player), with the tip, the commits and
the user's cache entry; BranchCommits has the steps these are made of. A state of
the editor is the project it was loaded for and its last edit. `loaded`, `failed`,
`overlapped` and `strays` are history variables: they name the cases in which the
code promises less, and the properties say which of them matter.

### UploadPipeline

One ingest of a video or an audio file (`media`) from the moment its asset row
exists. The dispatcher (`disp`), each
worker (`wpc`) and the handler with its consumer loop (`handler`) are programs of
their own. A send on an unbuffered channel is one action of both ends: `Hand` on
`jobs`, `ResultGood`, `ResultError` and `ResultIterator` on `results`. `live` is
the set of contexts not cancelled themselves; the dispatcher's is cancelled when
any of the three is. `Put` and `Index` are UploadSegment's two halves, either of
which may fail, the first with or without leaving its object. `Cleanup` deletes
what was reported, and any deletion may fail. `Disconnect` is the client going
away at any moment. The audio iterator (segment-audio.go:62-84) never asks its scanner
why it stopped, as the one for video does (segment-video.go:113): `Pull` may end it
after any segment. That an encoder whose output is not read any more then comes to an
end, so that the wait for it returns, is assumed like the return of any call.

### MediaIngest

From the upload dialog to an asset: `asks` are the requests for an upload target,
the effect's (ignored once the dialog is closed) and the button's (never ignored);
`put` is the PUT to the signed url, which a new target or file aborts; `phase` and
`stream` are handleUpload and the streams it follows, which outlive the wizard. An
attempt `t` of the server is `Check`, `Create` (the row, refused while the id has
one), `Describe`, `UploadSegment`, `FinishUpload`, `Announce`, and `CleanObject`
and `CleanRow` when it fails; `CreateUnanswered` is an insertion that is done but
answered with an error, after which the code cleans nothing up
(ingest-video.go:137-140); InitiateVideoIngest and InitiateAudioIngest are the
same handler. `Errored` is the end of a stream for the client, which may come while
the attempt runs on; `Crash` stops all attempts without any clean-up; users delete
the asset or use it in a project at any time.

### EditorTimeline and EditorGestures

`EditorTimeline` is the store: sections, audio sections, selections, the "was
edited" flag, and one action per operation, with the arguments the code gives it. An
operation is modelled whole: every change of the video ends in `Settle`
(rippleRecompute, the clamping of the audio and of its selection, markEdited), as in
the code. `Snap` is 500 ms; times are in units of half of it, so that unsnapped
pointer positions occur. The index -1 that `indexOf` answers on a proxied list is
kept (`Lost`), for the Delete key then removes the last audio section. Overlays are
objects (`overlays`), and a section lists some: a cut lists the same ones in both
halves, as `[...section.overlays]` does, a paste has copies, and a load, whose
sections come from a message, has one of each for each section (`Apart`). What an
overlay shows and which effects a section has is one of two values.

`EditorGestures` is the views over it. A drag of an edge, of a section, of a sound or
of an overlay, the context menu and the effects dialog keep the index of what they
were begun on (`held`), and an edge also the window it read (`Grip`). While one is
held its moves go on (`DragOn`, `DragSection`), the Delete key, Escape and loads may
come between, and it ends on whatever has its index by then. A gesture between whose
steps nothing comes is one step (`AtOnce`): the store sees the same calls. There is
one pointer, so one gesture at a time; a paste is of a section that is there, and the
point of a menu is chosen with its item. The playhead, seeking and zoom change no
section and are left out.

### SpaceAlerts and SpaceNotify

`SpaceAlerts` is what `proto/v1/spaces.proto` promises of OpenSpace: a page that
has the space open and is behind comes to be alerted; one alert may stand for
many changes. `SpaceNotify` is how it is done: `Post` (the transaction and its
NOTIFY), the listener's queue with lost connections (`Drop`) and the nil of a
reconnection (`Reconnect`), the dispatcher (`Dispatch`, Publish or ResyncAll), a
channel of one signal per subscription (`full`), the stream's loop (`Take`,
`Send`, `Wait`), and the page's loads, which may overlap and be answered out of
order (`Ask`, `Serve`, `Show`). The refinement maps `open` to the subscriptions.
Postgres and the pq listener are not under `src/`: `Drop` and `Reconnect` are
modelled from how the listener's consumer treats them, and marked external.

### VfsTree

The rows of one workspace (`parent`, `name`; `Unborn` and `Gone` for what is not
inserted yet and what is deleted) and the assets `used` by one project. A request
is a program counter `pc[r]` and what it asks, `req[r]`; each action is one
statement. The first one, which reads the row of the entry, is part of the
request's arrival, for what it answers cannot change before. Directories and
assets take the same path where the code has the same handler twice:

| Handler | Actions, in order |
|---|---|
| CreateDirectory, UploadImage, the ingests | `SendCreate` (the parent exists), `CheckNames`, `Create` |
| RenameDirectory, RenameAsset | `SendRename` (reads its parent), `CheckNames`, `Rename` |
| MoveDirectory, MoveAsset | `SendMove` (reads its name), `Target`, for a directory `Walk` once for each turn of assertDirectoryMoveTarget's loop, `CheckNames`, `Move` |
| DeleteDirectory, DeleteAsset | `SendDelete`, `ListAssets` and `ListChildren` for each directory, `CheckUse` for each asset, `Delete` |
| AddProjectAsset | `SendUse`, `Use` |
| RemoveProjectAsset, DeleteProject | one action each |

A check that refuses is a guard that is false, and the request then can only
`Fail`, which it also may at any call. The foreign keys are part of the
statements: `Create`, `Move` and `Use` want the row they refer to, `Delete`
takes all that is `Under` the directory, and fails as a whole if a project uses
an asset of it (ON DELETE CASCADE and RESTRICT). An UPDATE that finds no row
answers success and changes nothing, which is `Fail` here. The clean-up of a
failed upload deletes an asset's row without the check; with the RESTRICT of the
schema its effect is that of a deletion. `passed` and `since` are history
variables: what a walk left behind, and whether others wrote since a request
began to read.

### VfsPage

`snapshots` holds the listings by directory; `due` says that the effect that loads the
open directory is to run, as it does after each change of path or listings, before
the page takes another event; `loader` is the load whose answer is not ignored.
`job[s]` is an asynchronous function under way: an action's write and then its
`Refetch` of the directory that was open when it began, a load, an upload, or the walk that adds a folder to a project (`Walk`, all directories of a
directory at once, then `ServeAdd` for each asset, in any order). An upload
(`SubmitUpload`) is the function of a wizard: it goes on when its dialog is closed,
refreshes the directory that the dialog was opened in, and closes the upload dialog
that is open by then, whichever it is (`CloseOwn`, UploadWizard.tsx:130,
VfsUploadDialog.tsx:59-62). A card's dropdown
menu lies inside the card, whose onClick opens the folder as well (`ThroughCard`). A
listing is `excused` when nothing could make it right: somebody else changed the
directory, the page itself moved an entry into it, a refetch failed or two answers
came in the wrong order. What is in a directory to any depth is `Below`, said without
recursion: the least set that holds the directory and all that is in one of its members.

### WebShell

`firebase` (who is signed in), `account` (AuthProvider), `provider`
(WorkspaceProvider), `stored` (local storage) and `page`. `Account` is the change of
screen: AppShell unmounts what is not shown any more, whose calls are marked `gone`,
and mounting the application lists the workspaces. Each handler of the user and
workspace services the client calls is one step, and each answer runs the code after
its `await`; a call carries the user who was signed in when it was made. `Chosen` is
the choice refreshWorkspaces makes among the workspace it had, the stored one and the
first. `crossed` and `resubmitted` record the two things nothing in the code guards
against: an answer taken over for an earlier user, a sign-up submitted again. The
reading of the photo before a sign-up is sent (CompleteOnboarding.tsx:23-26) is one
step with it; if the user changes in between, the sign-up completed is that of the
next one, which the model does not have.

### ListPages

Projects and spaces share their page's design and so a module: `rows`, `form`,
`menu` (of a row known by its place), `adding`, `deleting`, and per slot a `job`:
the write, then the listing that follows it (for all but a project's new user), then
`Landed`. Only a project's creation navigates, even from a page that has been left.
A creation whose transaction fails to commit is answered as a success
(create-project.go:65). `Fails` is each catch and finally block.

### AgentThread

Per tab the `tree` it knows, the `head` of the branch shown and the answers shown as
`complete`; on the server `rows` (messages with their parents and runs) and one
`handler` per SendAgentMessage under way: `FindParent`, `ListRuns`, `AgentFinishes`,
`KeepRun` (the transaction), `SendFinished`, and `Fail` at any point. A tab starts a
run with `PostMessage` (a new message or an edited one, next to the one it replaces) or
`Refresh`; it may stop, reload (`OpenThread`), switch branches or delete the
conversation while runs go on. A refreshed answer is never kept: its user's message
is sent again under an id the table has already (`KeepRun`'s guard), so that it is
shown as incomplete. The assistant-ui library is not under `src/`; what it does is
modelled from the adapters that it calls.

## 3. What the runs check

| Run | Configuration | Bounds | Checks |
|---|---|---|---|
| branch_commits | MCBranchCommits.cfg | 2 users, 1 request each at once, 2 edits (one with audio), 2 commits | `OwnEditsOnly`, `CloudMatchesTip`, `TipMovesForward` |
| stale_commits_refused | MCStaleCommitsRefused.cfg | the same | *violated* (`StaleCommitsRefused`): two commits naming one tip are both recorded |
| only_first_omits | MCOnlyFirstOmits.cfg | the same | *violated* (`OnlyFirstOmits`): a commit without a previous one restarts a history |
| editor_session | MCEditorSession.cfg | 2 projects, 2 pages opened, 2 calls at once, 2 edits, 2 commits, 2 restores | `StoreFollowsPage`, `LastEditIsSaved`, `PlayerIsFresh`, `RefusalsAreTrue` |
| timeline | MCEditorTimeline.cfg | 4 video sections of 2 videos, or 2 with 2 sounds, 2 overlays, effects, or a gesture held; 5 units | `SectionsFit`, `ReloadIsIdentity`, `SelectionStays`, `GrowthKeepsFootage`, `EditsHitTheirAim` |
| media_ingest | MCMediaIngest.cfg | 2 upload targets, 2 attempts, 1 segment and the manifest, crashes; in one attempt 2 workers, 3 segments | of MediaIngest `AnnouncedIsWhole`, `FailedLeavesNothing`, `CleansOnlyItsOwn`, `WizardReturns`; of UploadPipeline `FinishedIsWhole`, `FailedUploadLeavesNothing`, `NoGoroutineLeft`, `HandlerReturns` |
| space_notify | MCSpaceNotify.cfg | 2 pages, 2 messages, 1 lost connection or pod, 1 load at once | `NoChangeLost`, `KeepsPromise` (refinement with fairness) |
| vfs | MCVfsTree.cfg | 3 directories, or 2 assets, or one of each; 2 names, 2 requests at once | `NothingDangles`, `WalkEnds`, `LoopsNeedOvertaking`, `TwinsNeedOvertaking` |
| namesakes_refused | MCNamesakesRefused.cfg | the same | *violated* (`NamesakesRefused`): a file takes the name of a directory beside it |
| vfs_page | MCVfsPage.cfg | 2 directories, 1 asset, 2 functions at once, 2 events | `OwnChangesShown`, `LoadingIsTold`, `FolderIsAdded` |
| agent_thread | MCAgentThread.cfg | 2 tabs, 2 sends at once, 6 message ids | `ToldIsShown`, `CompleteIsKept`, `RowsAreATree` |
| web_shell | MCWebShell.cfg | 2 users, 2 calls at once, 2 changes of user, 2 workspaces; 3 projects (one of another user), 2 spaces, 1 other user, 2 functions at once, 3 submissions, 1 failure | of WebShell `WorkspaceIsOwn`, `ShowsSignedInUser`, `OneWorkspaceEach`, `PageKeepsWorkspace`, `LoadingEnds`; of ListPages `OwnChangesListed`, `WaitsEnd` |

**Two components in one run.** In media_ingest and in web_shell either component moves
while the other rests: the goroutines of an attempt while MediaIngest, which has the
attempt's segments as single steps, is at its start; the lists while the frame shows
one user his workspace (`Resting`). They share no variable, so that each behaviour of
either is one of the run, and the properties of one speak of its variables only. In
media_ingest the fairness of the pipeline is asked only while MediaIngest is at its
start (`EitherFairness`), and `HandlerReturns` only of a pipeline that has begun.

Each module's `TypeOK` was checked the same way when the module was written; that
of the components with proofs (but for ListPages, whose proof needs only the shape of
a function under way) is a theorem.

**Why the bounds are enough.** *branch_commits*: the races are between two
handlers of two users or between one handler and a pod; two commits are enough
for a second one to name, to miss or to overlap the first, and for a third
handler's stale read to meet it. *editor_session*: a call that outlives its page
needs a second page, an overlap needs two calls, and an autosave that overtakes a
commit needs two edits; with two restores a commit can be restored, left and restored
again. *timeline*: four sections hold a cut, an insertion into it
and a paste at once; one video is shorter than `Snap`. Two audio sections suffice
for every overlap, sort and clamp, as these compare two at a time; a held gesture
needs the section it was begun on and one that takes its index, a shared overlay two
sections and a copy of it. All of it together is beyond TLC, and `Scope` in
MCEditorTimeline takes the four one at a time (a held gesture also with one sound,
with effects, or with one overlay); its VIEW leaves out `edited`, which no step and
no property reads. *media_ingest*:
with two workers and three segments one worker can fail while the other writes and a
third segment is being offered to nobody; a retry is a second
attempt, a target that arrives under a wizard that has one a second target; what
several segments do to one another is UploadPipeline's question. *space_notify*: a
second message meets a channel that is full and a stream in each state; a second
page shows that one page's signal or departure is not another's. *vfs*: three
directories are enough for a loop of two beside a third whose walk meets it, and
two requests for each kind of overtaking; ids are used once, so that every
behaviour is a series of at most three creations (`Scope` in MCVfsTree separates
directories from assets, which hold nothing). *vfs_page*: two directories are a
folder in a folder, so that a walk has two levels and two listings go out of date;
two functions overlap in every pair of kinds, and an event is an action, somebody
else's move or a failure. *agent_thread*: six ids are three messages with their
answers, or two with a refreshed one and a call of tools; an edit, its original and a
message above both fit. *web_shell*: two users suffice to cross, two workspaces to
share one and own another; in the lists two own projects around one of another
user's make places in a table move. In all of them a bound is a guard on how much is
created or begun, never on the order of what happens. `MaxCommits`, `MaxCalls`,
`MaxOpens`, `MaxEdits`, `MaxRestores`, `MaxSections`, `MaxAudios`, `MaxOverlays`, `MaxTime`,
`MaxAssets`, `MaxAttempts`, `MaxPosts`, `MaxDrops`, `MaxLoads`, `MaxDepth`,
`MaxEvents`, `MaxMessages`, `MaxChanges`, `MaxWorkspaces`, `MaxActs` and `MaxFails`
are all the bounds there are, besides the numbers of ids.

**Symmetry** is used by vfs (directories, assets, names, requests), agent_thread
(tabs, sends), editor_session (projects) and vfs_page (calls), which check safety only and whose definitions
tell none of these apart.

**Deadlock** is checked wherever the system does not stop: branch_commits, timeline
and vfs. The other runs stop when their bounds are used up, and say so; that no channel
of UploadPipeline has everyone waiting on it is `HandlerReturns` and `NoGoroutineLeft`.

**Fairness.** *UploadPipeline*: weak fairness of the dispatcher, of each worker
and of the handler: a goroutine that can run is run by Go's scheduler, and each
call it makes (ffmpeg, cloud storage, database, stream) returns. Nothing is
assumed of `Disconnect`, nor which outcome a call has. *MediaIngest*: the server
goes on with what it began, a PUT ends one way or the other (its url expires), a
stream that ended is noticed, a submission goes on once its PUT is done. *SpaceNotify*:
weak fairness of `Reconnect` (pq retries until it is connected), of `Dispatch` and of
each stream's and each load's steps. *WebShell*: Firebase starts up, every call is
answered or fails. *ListPages*: the server serves what it can and the page takes the
answer. Nothing is assumed of users, messages, failures, crashes or pods, nor of
which outcome a call has. The other modules state no fairness: their properties are
safety.

### Where the code and what is said of it differ

**A stale commit can be accepted.** commit-edit.go:45 compares
`previous_commit_id` with a tip read at line 35; the transaction of lines
109-155 moves the tip without looking again. Two commits naming one tip are
both accepted, and the first drops out of the history, although
CommitDialog.tsx:54 tells the user of such a case "Branch is stale".
`TipMovesForward`, which holds, shows that this overtaking is the *only* way a commit
that names a previous one drops another.

**A commit may leave out the previous one on any branch.** projects.proto:106-107
allows it only for the first commit of a branch. commit-edit.go:45 compares an id that
is not empty and accepts a commit without one on a branch that has a tip: it has no
parent, and what was committed before leaves the history. The page does so when it was
loaded before the branch's first commit.

**A file may share a name with a directory beside it.** vfs.proto:127-128 has the error
for a directory or file that shares a name with any sibling directory. The checks list
entries of one kind: assets for an asset (upload-utils.go:147, rename-asset.go,
move-asset.go), directories for a directory. `TwinsNeedOvertaking` is of entries of one
kind for that reason; `NamesakesRefused` says what vfs.proto says, and one request after
another violates it.

### What the properties leave open, and the code does

* A transaction that fails to commit is answered as a success with an id that is no
  row (commit-edit.go:153). The page's next commit names it and is refused as stale.
* A cached manifest may be older than what was committed since (view-hls.go:117, and
  manifest-cache.go:44 between its two critical sections). `OwnEditsOnly` says whose it
  can be, not how old.
* `FinishedIsWhole` speaks, for an audio file, of the segments its iterator yielded:
  one that ended early is finished without the rest.
* `FailedLeavesNothing` excludes an asset whose row was inserted while the answer was an
  error (ingest-video.go:137): the row stays, and every retry at its id is refused.
* `SelectionStays` excludes the index -1, which the audio selection has after every
  addition or move of a sound: Delete then removes the last audio section
  (TimelineTrack.tsx:139-142). It also excludes a cut, which keeps the index.
* The end of an upload closes whatever upload dialog is open, and the end of a creation
  resets whatever form is (UploadWizard.tsx:130, useSpaces.ts:58): nothing ties the one
  to the other.
* A project whose transaction failed to commit is answered as created and is not in the
  list (create-project.go:65); `OwnChangesListed` says that the list is the server's.
* `StoreFollowsPage` excludes the calls of an earlier page: their answers do write
  the store under the page that is open (ProjectView.tsx:164).
* `PlayerIsFresh` excludes overlapping autosaves and answers. The src of an autosave
  is made of the edit revision, which a load sets back to 0: after a load that comes
  in between, a second autosave can have the src of the first, and the player does
  not fetch again. It also excludes a commit restored while the player has the src of
  its last restore or a restore of it is under way: both make the src
  `restore-${commitId}` (ProjectView.tsx:294), so that the player keeps what it fetched
  for the first.
* `ShowsSignedInUser` excludes an answer of getMe for a user who has left
  (AuthProvider.tsx:40), `OneWorkspaceEach` a sign-up that is submitted again.
* `EditsHitTheirAim` excludes the parts of a cut, whose overlays are the same objects
  until the next load (editor.ts:245): moving one moves its twin. It also excludes a
  gesture whose index another section has taken (TimelineSection.tsx:86): the drag
  then trims that one. `SectionsFit` shows that the timeline stays whole even so.
* A section may be removed while it is dragged to another slot. The drop then moves
  whatever has its index, or nothing (`CanReorder`), but the marker of the slot reads
  the section at that index while it is drawn (TimelineTrack.tsx:402), and if it was
  the last there is none to read.
* `OwnChangesShown` excludes the destination of a move whose listing is kept
  (useVfs.ts:271), and listings answered in the wrong order.
* An open space may show an older list if two loads overlap (SpaceView.tsx:27); a
  section may start between key frames (TimelineTrack.tsx:175).

## 4. What is proved

The theorems hold for every value of the constants that satisfies the modules'
named assumptions: any number of users, requests, edits, workers, segments, pages.

**BranchCommits** (assumes `OwnerAssumption`, `EditsAssumption`).
`TypeCorrect`: `Spec => []TypeOK`. `TipOnlyMovesForward` is an action property of
`CommitTx`, the one action that moves the tip. It needs that a handler past its check
names either no commit or the tip it read, a part of `GroundedInv`: a commit's parent
is a value its handler has carried since that check, and rows are never deleted, so that
a step of another handler keeps it. `CacheHoldsOwnEdits` uses `OwnInv`: what an autosave
carries is its owner's, what a fill and the audio half of a commit carry was
published, and so was all that cloud storage holds. `CloudFollowsTip` uses
`CloudInv`: unless torn, either nobody publishes and the objects are the tip's,
or exactly one handler does and what is already written is its own.

**UploadPipeline** (assumes `NSegsAssumption`). `NoGoroutineIsLeft` from
`EndedInv` (`results` closes after all workers left; the handler passes its loop
after that). `FailedIngestLeavesNothing` from `ReportedInv`: each object stored is
either known to the consumer or in the hands of a worker that is still to report
it; as no worker is left when the cleanup runs, all are known.
`FinishedIngestIsWhole` from `WholeInv`: while neither an error was seen nor the
client is gone, each segment yielded is stored and listed or in somebody's hands,
and the dispatcher of a video stops only at the end; every cancellation leaves a trace in
`errs` or in the request's context, and the second is what FinishUpload meets.

**SpaceNotify** (assumes `BoundsAssumption`, `MayFailAssumption`).
`NoChangeIsLost`: with `TypeOK` the property is inductive. `AlertsAreKept`:
`Spec => Alerts!Spec`, each step of SpaceNotify is a step of SpaceAlerts under
`open <- Subscribed` or leaves its variables alone.

**AgentThread** (assumes `NobodyAssumption`, `BoundAssumption`). All three properties
are proved, from one invariant (`ThreadInvariant`). A tree is stated without recursion
(`Grounded`: no set of messages holds the parents of all its members); that the
function which `Path` chooses exists on such a tree is a lemma (`PathsExist`), and all
that is said of paths rests on it. `LinksInv` is the core: whatever any tab shows above
a message, or any call carries, agrees with what is kept of it (`Follows`, where a call
of tools may lie between an answer and its prompt, which no tab but a reloaded one
shows) and with what the calls under way are going to keep. `IdsInv` keeps those ids
apart, so that `KeepRun` adds a run whose rows lie next to each other (`BlocksInv`),
after the row of its parent (`RowsAreATreeHolds`). A path then stays within what is kept
from a complete answer up (`CompleteIsKeptHolds`), and in a list of blocks the runs of
a path come first in the order in which the path meets them, which is what `ListRuns`
tells the agent (`ToldTheShown`, `ToldIsShownHolds`).

**VfsPage** (assumes `IdsAssumption`, `StartsAssumption`). All three properties are
proved, from one invariant (`PageInvariant`). None of them is inductive: a listing may
be out of date while the function that is to fetch it again is under way. `CacheOwed`
says so: a kept listing is right, excused, or `Owed`, that is some function is past its
write, or refreshes, and is still to list just that directory. `AnswersOwed` says the
same of an answer on its way to the page, but there only a listing that is not made yet
counts (`OwedAnew`), as an older one does not help. A write makes its own directory
owed and excuses the rest it changes (`WriteStep`); a function that fails to list
again excuses it (`EndStep`); `FetchesAwaited` keeps a request from being
lost or served for nobody. At rest nothing is owed (`OwnChangesShownHolds`). `IdsKnown`
is why nothing is kept of an id before the server has given it out, and
`CreationsApart` why no two creations take one. For the walk, `WalkCovers`: what it is
sure to find has been found, or is below something that one of its requests has listed
or is to list. `BelowChild` moves this one level down at an answer, `BelowStays` says
that a step which moves other entries leaves it alone; once nothing is awaited all has
been found, and is added or still to be (`FolderIsAddedHolds`).

**VfsTree** (assumes `IdsAssumption`). All five properties are proved. `FormInv`
says which operation can stand where, and that the id of a creation is nobody
else's. With it `NothingIsLeftDangling` is inductive: a deletion takes a set that
is closed under "is in" (`UnderFacts`), so what is left refers to nothing in it.
A tree is stated without recursion, as no set of directories holding the parents
of all its members (`Rooted`). `WalkInv`: unless a directory was moved meanwhile,
what a walk has passed leads, directory by directory, from the move's target up
to where the walk stands, without the moved directory, or ends at a deleted one.
If the walk came back to a directory it passed, what it passed would be such a
set (`WalksEnd`); and if the move closed a loop, the part of the loop that the
walk passed would be one already (`LoopsTakeTwoMoves`). `NamesInv` says what a
request's reading of names and places still tells at its write
(`TwinsTakeTwoWrites`).

**WebShell** (assumes `NobodyAssumption`, `BoundsAssumption`). All four safety
properties are proved. The proofs rest on one lemma, `Moving`: whatever changes the
account is a *move*, after which a call is as before, marked as gone with its screen,
ended, or made on the way, and the workspaces known survive only if the application
was shown and still is. `ShowsSignedInUserHolds` then follows from `ShowsInv`: unless
crossed or loading, the account is nobody's or that of whoever is signed in.
`WorkspaceIsOwnHolds` uses `OwnInv`: a listing that its screen still waits for was
asked for by whoever is signed in, what it lists the user who asked belongs to, and
what is known fits the members, from whom nobody is ever taken. That a good answer is
never an empty list, a part of `OwnInv`, gives `PageKeepsWorkspaceHolds`.
`OneWorkspaceEachHolds` uses `OneInv`: unless submitted again, a user's sign-up has
one call at most, and while it is not served he is not marked and has no workspace of
his own; it needs two users, as the workspace shared at the start would otherwise be
a user's own.

**EditorSession** (assumes `ProjectsAssumption`, `BoundsAssumption`). The inductive
invariant has a part per question. `PageInv`: a call that the open page waits for is
for its project, a listing comes before everything else, and there is one listing and
one commit at a time; so that `StoreFollowsPage` is kept by every answer of the page
itself, and an answer of an earlier page is a stray. `TipInv`: undisturbed, the page
knows the tip or a commit that moved it is still to be answered, and a listing that is
served has told the tip that still is (`RefusalsAreTrueHolds`). `SaveInv`:
undisturbed, what the store holds is cached, or the timer runs, or an autosave of just
that state is not served yet, or a load, restore or commit is still to be answered,
after which the page loads or saves; at rest only the first is left
(`LastEditIsSavedHolds`). That every autosave not yet served carries the present
state unless the timer runs is what keeps an older one from overwriting a newer.
`PlayerIsFreshHolds` uses `SourceInv`, that a src is made once since the page was
opened, by the revision, the tip or the commit in it, and none that a call is to make
is the player's already; so each change of what the server has is followed by a fetch
(`PlayerInv`).

**MediaIngest** (assumes `BoundsAssumption`, `CrashAssumption`). `OwnRow`: the row of
an asset that no user deleted is that of the attempt past `Create`, so two attempts
past it at one id are the same one (`CleansOnlyItsOwnHolds`). With it `Whole` follows an
attempt: what it has uploaded is stored and indexed (`AnnouncedIsWholeHolds`), and
`Kept` an asset: what is stored of it is among the keys of the attempt that holds its
row, whose clean-up therefore finds it (`FailedLeavesNothingHolds`).

**EditorTimeline, EditorGestures** (assume `SourceAssumption`, `SnapAssumption`).
`SectionsFitHolds` and `ReloadIsIdentityHolds` follow from one invariant
(`TimelineInvariant`), for any number of sections of any durations, and with any
index and any window in the grip of a gesture: that these may be stale is what it
says of them. It says that the video is a chain (`Chained`) whose sections play
windows their sources have (`Playable`), and that the audio lies under it in its
order, each at least `Snap` long (`Audible`); that overlays are listed which exist is
a part, as a load copies them. The operators come first. `VideoTime` is a recursive
function of the list; that it exists and adds up is `TimesExist`, and all else is said
of the list of its sums (`Timed`), so that `RippleChains` says what rippleRecompute
makes of any list and `ChainedStays` that it leaves a chain alone. What a sort
makes is said of ranks: an element's rank is the number of those before it, each rank
up to the number of elements is some element's, and so the list has all elements in
order (`OrderedList`). Sections that do not overlap have an order, which a sort
restores and a clamp keeps (`ClampedAudible`, `SortedAudible`), and an element that
is clear of the others may be added, set or cut without loss of that
(`AddSeparate`, `SetSeparate`, `CutSeparate`). A cut alone does not clamp the audio:
`CutKeepsTime` is why it need not. Then one lemma per operation (`SettleFits` for the
calls they share), one per kind of step of a gesture.

The three action properties are proved of every step that invariant allows.
`SelectionStaysHolds` adds that the audio selected is there (`AudioChosen`): a place
among the sections a clamp leaves in the list is the place among those it leaves in
time (`ClampFollows`), as they are in order; a removal moves index and section by one
(`RemovedFollows`). `EditsHitTheirAimHolds` adds `Unshared`: but for a cut, no two
sections show an overlay. A load numbers each section's overlays after those of the
sections before it (`Numbered`, `NumberedIsDisjoint`), a paste and a new overlay take
numbers not used so far (`NewOverlayUnshared`, `GrownUnshared`), and all other steps
take sections as they are, each once (`TakenStaysDisjoint`). So an edit in place
changes what its own section shows only (`EditsOne`). `GrowthKeepsFootageHolds`
rests on `Screened`: what a chain plays at a time is the frame of the one section whose
sums lie around it (`TimeHasPlace`, `FootageIsScreened`). A step that adds sections is
a cut or none, and then a section put in or none (`GrowForm`): a cut leaves each unit of
footage (`HalvedFootage`), for the right half's window begins where the left one's
ends, and a section put in shifts what follows by its length (`PutFootage`).

**ListPages** (assumes `IdsAssumption`, `ActsAssumption`). `OwnChangesListedHolds`
from `RowsOrComing`, that the rows are what the server lists or a function of this page
has a listing to make or to show, and `FreshIsTrue`, that a listing which no later call
has overtaken is what the server lists or another is still to be made; a served write
makes its own listing due.

### Only model-checked

* Liveness: `HandlerReturns`, `WizardReturns`, `LoadingEnds`, `WaitsEnd` and the
  fairness part of `KeepsPromise`. The prover does not reason about fairness and
  ENABLED.

Every safety invariant and every action property that a passing run checks is proved.

## 5. Not modelled, and why

* *Export and playback serialisation*: sequential translations without state.
* *The player, the levels of effects, widgets, the component library
  (`web/src/components/ui/`, most of `assistant-ui/`) and the generated code of the
  protocol (`web/src/gen/`)*: presentation and tables, nothing of which is read back
  by another part. They are about half of the lines of the page.
* *Images* in MediaIngest: one call, whose checks and clean-up are those of an
  attempt with no segments; *a change of the kind of file* in the wizard.
* *A choice of branches* in the project page: create-project.go:51 makes `main`, and
  nothing makes another.
* *Other clients* of lists and workspaces: a page is not told of them, and shows
  them when it lists again. In VfsPage they move entries (`OtherMoves`).
* *Browsing inside the move dialog* and *refusals for names* in VfsPage: the first
  keeps listings of its own, the second is a `FailWrite`.
* *Titles, archiving, the list of threads, and the place of a message among its
  siblings* in AgentThread; *the agent service's own reasoning*; the vendored
  runtime beyond what the adapters see.
* *Durations of real time*: a timer is an action that may happen.
* *ffmpeg's child process*, that is whether it is reaped when the dispatcher stops
  early: outside the pipeline's own state.
* *SpacesList.tsx*, which no page uses.
* *The restore of an earlier saved state while a gesture is held*: `Load` in
  EditorGestures loads the state saved last, or none. Restores are EditorSession's.

## 6. Plan

1. **Refinement**: UploadPipeline shown to implement the attempt of MediaIngest, and
   the handlers of BranchCommits the single steps of EditorSession for one user.
2. **Pure algorithms**: key frame offsets and serialisation against what a section
   asks to play.
