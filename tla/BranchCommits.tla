--------------------------- MODULE BranchCommits ---------------------------
(***************************************************************************)
(* One branch of a project: its commits and its tip in the database, the   *)
(* branch's playback manifests in cloud storage, and the per-user cache of *)
(* manifests in the backend's memory.  The requests that touch them run as *)
(* concurrent handlers, each an interleaving of the steps between its      *)
(* database, storage and cache calls:                                      *)
(*                                                                         *)
(*   CommitEdit   backend/services/project/commit-edit.go                  *)
(*   AutoSave     backend/services/project/auto-save.go                    *)
(*   GetCommit    backend/services/project/get-commit.go                   *)
(*   GetManifest  backend/services/project/view-hls.go                     *)
(*                                                                         *)
(* What a manifest says is abstracted to the edit (playback state) it was  *)
(* built from.  The 15 minutes of a cache entry are abstracted to an entry *)
(* that may go at any moment (Expire).                                     *)
(***************************************************************************)
EXTENDS Integers, Sequences

CONSTANTS
  Users,       \* users with the project open, one page each
  Slots,       \* requests that can be in flight at once
  Owner,       \* the user whose page sends the requests of a slot
  Edits,       \* playback states an editor can hold
  EditsOf,     \* the edits a user's own page makes
  HasAudio,    \* the edits with at least one audio section
  NoEdit,      \* no manifest
  MaxCommits   \* bound: no CommitEdit is sent once this many commits exist

ASSUME OwnerAssumption == Owner \in [Slots -> Users]
ASSUME EditsAssumption ==
  /\ NoEdit \notin Edits
  /\ HasAudio \subseteq Edits
  /\ EditsOf \in [Users -> SUBSET Edits]

Kinds == {"video", "audio"}
MaybeEdit == Edits \cup {NoEdit}

(* Commit ids are positions in `commits`.  NoCommit is a NULL tip and an   *)
(* absent previous_commit_id; Phantom is the id of a row whose transaction *)
(* was lost after the id had been generated.                               *)
NoCommit == 0
Phantom == -1

VARIABLES
  commits,    \* rows of commits, each with its first parent
  tip,        \* branches.tip_commit_id
  cloud,      \* the objects manifests/<branch>.m3u8 and <branch>-audio.m3u8
  cache,      \* ManifestCache.core, for this branch
  pc,         \* where each handler stands
  edit,       \* the playback state, or the manifest, a handler works on
  id,         \* previous_commit_id of a CommitEdit; once recorded, its new id
  seen,       \* currBranch.TipCommitID, as a CommitEdit read it
  kind,       \* which of the two manifests a GetManifest asks for
  known,      \* the tip each user's page believes in
  published,  \* history: the edits ever written to cloud storage
  torn        \* history: the last commits to publish overlapped or failed

db == <<commits, tip>>
args == <<edit, id, seen, kind>>
history == <<published, torn>>
vars == <<db, cloud, cache, pc, args, known, history>>

PCs == {"idle",
        "readTip", "putVideo", "putAudio", "commitTx",     \* CommitEdit
        "dropVideo", "dropAudio",                          \* DropBranch
        "cacheVideo", "cacheAudio",                        \* AutoSave
        "find", "fetch", "fill"}                           \* GetManifest

At(r, p) == pc[r] = p
Goto(r, p) == pc' = [pc EXCEPT ![r] = p]

(* The handler returns: nothing of it is left.                             *)
Return(r) ==
  /\ Goto(r, "idle")
  /\ edit' = [edit EXCEPT ![r] = NoEdit]
  /\ id' = [id EXCEPT ![r] = NoCommit]
  /\ seen' = [seen EXCEPT ![r] = NoCommit]
  /\ kind' = [kind EXCEPT ![r] = "video"]

(* The handlers that have written a manifest to cloud storage and have not *)
(* yet run their transaction.                                              *)
Publishing == {r \in Slots : pc[r] \in {"putAudio", "commitTx"}}

CommitIds == 1..Len(commits)
EditAt(c) == IF c \in CommitIds THEN commits[c].edit ELSE NoEdit

-----------------------------------------------------------------------------
Init ==
  /\ commits = <<>>
  /\ tip = NoCommit
  /\ cloud = [k \in Kinds |-> NoEdit]
  /\ cache = [u \in Users |-> [k \in Kinds |-> NoEdit]]
  /\ pc = [r \in Slots |-> "idle"]
  /\ edit = [r \in Slots |-> NoEdit]
  /\ id = [r \in Slots |-> NoCommit]
  /\ seen = [r \in Slots |-> NoCommit]
  /\ kind = [r \in Slots |-> "video"]
  /\ known = [u \in Users |-> NoCommit]
  /\ published = {}
  /\ torn = FALSE

-----------------------------------------------------------------------------
(* CommitEdit *)

(* The page sends its editor state with the tip it believes in.            *)
SendCommit(r) ==
  /\ At(r, "idle")
  /\ Len(commits) < MaxCommits
  /\ Goto(r, "readTip")
  /\ \E e \in EditsOf[Owner[r]] : edit' = [edit EXCEPT ![r] = e]
  /\ id' = [id EXCEPT ![r] = known[Owner[r]]]
  /\ UNCHANGED <<db, cloud, cache, seen, kind, known, history>>

Accepted(r) == id[r] \in {NoCommit, tip}

(* A commit that skips the comparison with the tip: a mutated form.        *)
ReadTipUnchecked(r) ==
  /\ At(r, "readTip")
  /\ Goto(r, "putVideo")
  /\ seen' = [seen EXCEPT ![r] = tip]
  /\ UNCHANGED <<db, cloud, cache, edit, id, kind, known, history>>

(* GetBranchByName and the comparison with previous_commit_id: a request   *)
(* that names another commit than the tip is answered StaleBranch.         *)
ReadTip(r) ==
  /\ At(r, "readTip")
  /\ \/ /\ Accepted(r)
        /\ Goto(r, "putVideo")
        /\ seen' = [seen EXCEPT ![r] = tip]
        /\ UNCHANGED <<edit, id, kind>>
     \/ /\ ~Accepted(r)
        /\ Return(r)
  /\ UNCHANGED <<db, cloud, cache, known, history>>

(* UploadBranchManifestToCloud.                                            *)
PutVideo(r) ==
  /\ At(r, "putVideo")
  /\ cloud' = [cloud EXCEPT !["video"] = edit[r]]
  /\ published' = published \cup {edit[r]}
  /\ torn' = (Publishing # {})
  /\ Goto(r, IF edit[r] \in HasAudio THEN "putAudio" ELSE "commitTx")
  /\ UNCHANGED <<db, cache, args, known>>

(* UploadBranchAudioManifestToCloud, only for a state with audio.          *)
PutAudio(r) ==
  /\ At(r, "putAudio")
  /\ cloud' = [cloud EXCEPT !["audio"] = edit[r]]
  /\ Goto(r, "commitTx")
  /\ UNCHANGED <<db, cache, args, known, history>>

NextId == Len(commits) + 1

(* The handler goes on to DropBranch with the id it will answer.           *)
Answer(r, new) ==
  /\ Goto(r, "dropVideo")
  /\ edit' = [edit EXCEPT ![r] = NoEdit]
  /\ id' = [id EXCEPT ![r] = new]
  /\ seen' = [seen EXCEPT ![r] = NoCommit]
  /\ UNCHANGED kind

(* A transaction that forgets SetBranchCommitID: a mutated form.           *)
CommitTxKeepsTip(r) ==
  /\ At(r, "commitTx")
  /\ commits' = Append(commits, [parent |-> id[r], edit |-> edit[r]])
  /\ Answer(r, NextId)
  /\ UNCHANGED <<tip, cloud, cache, known, history>>

(* The transaction: CreateCommit, CreateCommitParent when a previous       *)
(* commit was named, SetBranchCommitID.  The foreign keys of a parent and  *)
(* of a tip want the commit they name to exist.                            *)
CommitTx(r) ==
  /\ At(r, "commitTx")
  /\ id[r] \in {NoCommit} \cup CommitIds
  /\ commits' = Append(commits, [parent |-> id[r], edit |-> edit[r]])
  /\ tip' = NextId
  /\ Answer(r, NextId)
  /\ UNCHANGED <<cloud, cache, known, history>>

(* tx.Commit fails: the error is logged and the handler goes on to answer  *)
(* with the id of a row that does not exist.                               *)
CommitTxLost(r) ==
  /\ At(r, "commitTx")
  /\ Answer(r, Phantom)
  /\ torn' = TRUE
  /\ UNCHANGED <<db, cloud, cache, known, published>>

(* Any other call of the handler fails: an error is returned, and what was *)
(* already written to cloud storage stays there.                           *)
CommitFails(r) ==
  /\ pc[r] \in {"readTip", "putVideo", "putAudio", "commitTx"}
  /\ torn' = (torn \/ r \in Publishing)
  /\ Return(r)
  /\ UNCHANGED <<db, cloud, cache, known, published>>

(* An upload is answered with an error though its object was written.      *)
PutFailsLate(r) ==
  /\ \/ /\ At(r, "putVideo")
        /\ cloud' = [cloud EXCEPT !["video"] = edit[r]]
        /\ published' = published \cup {edit[r]}
     \/ /\ At(r, "putAudio")
        /\ cloud' = [cloud EXCEPT !["audio"] = edit[r]]
        /\ UNCHANGED published
  /\ torn' = TRUE
  /\ Return(r)
  /\ UNCHANGED <<db, cache, known>>

-----------------------------------------------------------------------------
(* DropBranch, the tail of CommitEdit and of GetCommit: two critical       *)
(* sections of ManifestCache.Drop, on the caller's entries only.           *)

DropVideo(r) ==
  /\ At(r, "dropVideo")
  /\ cache' = [cache EXCEPT ![Owner[r]]["video"] = NoEdit]
  /\ Goto(r, "dropAudio")
  /\ UNCHANGED <<db, cloud, args, known, history>>

(* ... and the response, which may not reach the page.                     *)
DropAudio(r) ==
  /\ At(r, "dropAudio")
  /\ cache' = [cache EXCEPT ![Owner[r]]["audio"] = NoEdit]
  /\ Return(r)
  /\ IF id[r] = NoCommit
       THEN UNCHANGED known
       ELSE \/ known' = [known EXCEPT ![Owner[r]] = id[r]]
            \/ UNCHANGED known
  /\ UNCHANGED <<db, cloud, history>>

(* GetCommit of a listed commit (a branch load or a restore).              *)
SendGetCommit(r) ==
  /\ At(r, "idle")
  /\ commits # <<>>
  /\ Goto(r, "dropVideo")
  /\ UNCHANGED <<db, cloud, cache, args, known, history>>

(* ListProjectBranches: the page learns the tip.                           *)
ListBranches(u) ==
  /\ known' = [known EXCEPT ![u] = tip]
  /\ UNCHANGED <<db, cloud, cache, pc, args, history>>

-----------------------------------------------------------------------------
(* AutoSave *)

SendAutoSave(r) ==
  /\ At(r, "idle")
  /\ Goto(r, "cacheVideo")
  /\ \E e \in EditsOf[Owner[r]] : edit' = [edit EXCEPT ![r] = e]
  /\ UNCHANGED <<db, cloud, cache, id, seen, kind, known, history>>

(* A cache keyed by branch alone: a mutated form.                          *)
CacheVideoForAll(r) ==
  /\ At(r, "cacheVideo")
  /\ cache' = [u \in Users |-> [cache[u] EXCEPT !["video"] = edit[r]]]
  /\ Goto(r, "cacheAudio")
  /\ UNCHANGED <<db, cloud, args, known, history>>

CacheVideo(r) ==
  /\ At(r, "cacheVideo")
  /\ cache' = [cache EXCEPT ![Owner[r]]["video"] = edit[r]]
  /\ Goto(r, "cacheAudio")
  /\ UNCHANGED <<db, cloud, args, known, history>>

(* The audio entry is replaced, or dropped when the edit has no audio.     *)
CacheAudio(r) ==
  /\ At(r, "cacheAudio")
  /\ cache' = [cache EXCEPT ![Owner[r]]["audio"] =
                 IF edit[r] \in HasAudio THEN edit[r] ELSE NoEdit]
  /\ Return(r)
  /\ UNCHANGED <<db, cloud, known, history>>

(* The manifest of the video, or of the audio, cannot be built or signed.  *)
AutoSaveFails(r) ==
  /\ \/ At(r, "cacheVideo")
     \/ At(r, "cacheAudio") /\ edit[r] \in HasAudio
  /\ Return(r)
  /\ UNCHANGED <<db, cloud, cache, known, history>>

-----------------------------------------------------------------------------
(* GetManifest *)

SendGetManifest(r) ==
  /\ At(r, "idle")
  /\ Goto(r, "find")
  /\ \E k \in Kinds : kind' = [kind EXCEPT ![r] = k]
  /\ UNCHANGED <<db, cloud, cache, edit, id, seen, known, history>>

(* ManifestCache.Find: a hit is served at once.                            *)
Find(r) ==
  /\ At(r, "find")
  /\ \/ /\ cache[Owner[r]][kind[r]] # NoEdit
        /\ Return(r)
     \/ /\ cache[Owner[r]][kind[r]] = NoEdit
        /\ Goto(r, "fetch")
        /\ UNCHANGED args
  /\ UNCHANGED <<db, cloud, cache, known, history>>

(* The object is read from cloud storage; an absent one is an error.       *)
Fetch(r) ==
  /\ At(r, "fetch")
  /\ \/ /\ cloud[kind[r]] = NoEdit
        /\ Return(r)
     \/ /\ cloud[kind[r]] # NoEdit
        /\ Goto(r, "fill")
        /\ edit' = [edit EXCEPT ![r] = cloud[kind[r]]]
        /\ UNCHANGED <<id, seen, kind>>
  /\ UNCHANGED <<db, cloud, cache, known, history>>

(* The signed manifest is cached under the caller and served.              *)
Fill(r) ==
  /\ At(r, "fill")
  /\ cache' = [cache EXCEPT ![Owner[r]][kind[r]] = edit[r]]
  /\ Return(r)
  /\ UNCHANGED <<db, cloud, known, history>>

-----------------------------------------------------------------------------
(* A timer of ManifestCache.Add goes off.                                  *)
Expire(u, k) ==
  /\ cache[u][k] # NoEdit
  /\ cache' = [cache EXCEPT ![u][k] = NoEdit]
  /\ UNCHANGED <<db, cloud, pc, args, known, history>>

(* The backend pod is replaced: its memory and its handlers are gone.      *)
PodRolls ==
  /\ cache' = [u \in Users |-> [k \in Kinds |-> NoEdit]]
  /\ pc' = [r \in Slots |-> "idle"]
  /\ edit' = [r \in Slots |-> NoEdit]
  /\ id' = [r \in Slots |-> NoCommit]
  /\ seen' = [r \in Slots |-> NoCommit]
  /\ kind' = [r \in Slots |-> "video"]
  /\ torn' = (torn \/ Publishing # {})
  /\ UNCHANGED <<db, cloud, known, published>>

CommitStep(r) == \/ SendCommit(r) \/ ReadTip(r) \/ PutVideo(r) \/ PutAudio(r)
                 \/ CommitTx(r) \/ CommitTxLost(r) \/ CommitFails(r)
                 \/ PutFailsLate(r)
DropStep(r) == SendGetCommit(r) \/ DropVideo(r) \/ DropAudio(r)
AutoSaveStep(r) == \/ SendAutoSave(r) \/ CacheVideo(r) \/ CacheAudio(r)
                   \/ AutoSaveFails(r)
ManifestStep(r) == SendGetManifest(r) \/ Find(r) \/ Fetch(r) \/ Fill(r)

Next ==
  \/ \E r \in Slots : CommitStep(r) \/ DropStep(r) \/ AutoSaveStep(r) \/ ManifestStep(r)
  \/ \E u \in Users : ListBranches(u) \/ \E k \in Kinds : Expire(u, k)
  \/ PodRolls

Spec == Init /\ [][Next]_vars

-----------------------------------------------------------------------------
(* Type invariant of the branch, the cloud objects, the cache and the      *)
(* handlers of commit-edit.go, auto-save.go, get-commit.go, view-hls.go.   *)
TypeOK ==
  /\ commits \in Seq([parent : Int, edit : MaybeEdit])
  /\ tip \in Nat
  /\ cloud \in [Kinds -> MaybeEdit]
  /\ cache \in [Users -> [Kinds -> MaybeEdit]]
  /\ pc \in [Slots -> PCs]
  /\ edit \in [Slots -> MaybeEdit]
  /\ id \in [Slots -> Int]
  /\ seen \in [Slots -> Int]
  /\ kind \in [Slots -> Kinds]
  /\ known \in [Users -> Int]
  /\ published \subseteq MaybeEdit
  /\ torn \in BOOLEAN

(* The cache is "for local edits" (manifest-cache.go): what a user's       *)
(* entries hold is an edit of this user or one that a CommitEdit published, *)
(* never another user's unsaved edit.                                      *)
OwnEditsOnly ==
  \A u \in Users, k \in Kinds :
    cache[u][k] \in {NoEdit} \cup EditsOf[u] \cup published

(* When no commit is between its upload and its transaction, and the last  *)
(* to upload neither overlapped another nor failed, the manifests in cloud *)
(* storage are those of the tip's state (CommitEdit writes the two in      *)
(* separate, unordered systems).  An audio manifest of an older commit may *)
(* outlive a tip without audio, which no page asks for.                    *)
CloudMatchesTip ==
  Publishing = {} /\ ~torn =>
    /\ cloud["video"] = EditAt(tip)
    /\ EditAt(tip) \in HasAudio => cloud["audio"] = EditAt(tip)

(* A commit that names a previous commit is recorded on top of the tip, so *)
(* that the old tip stays in the history that ListCommits walks, unless    *)
(* the tip was moved when the commit's request was already past its stale  *)
(* check: that gap of CommitEdit is the only way such a commit can drop    *)
(* another from the history.                                               *)
TipMovesForward ==
  [][tip' # tip /\ commits'[tip'].parent # NoCommit =>
       \/ commits'[tip'].parent = tip
       \/ \E r \in Slots : seen[r] # tip /\ id'[r] = tip']_vars

(* "NOTE: you can only not include the previous commit id when you are     *)
(* making the first commit for a branch." (projects.proto): a commit       *)
(* without a previous one is recorded only on a branch that had none when  *)
(* its request read the branch.                                            *)
OnlyFirstOmits ==
  [][tip' # tip /\ commits'[tip'].parent = NoCommit =>
       \E r \in Slots : seen[r] = NoCommit /\ id'[r] = tip']_vars

(* "Branch is stale - someone else committed. Refresh and try again."      *)
(* (CommitDialog.tsx, on the StaleBranch answer): a commit that names a    *)
(* previous commit is recorded only on top of that commit.                 *)
StaleCommitsRefused ==
  [][tip' # tip => commits'[tip'].parent \in {tip, NoCommit}]_vars
=============================================================================
