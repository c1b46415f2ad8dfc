---------------------------- MODULE MediaIngest ----------------------------
(***************************************************************************)
(* A media file from the upload dialog to an asset: the upload targets the  *)
(* dialog asks for, the PUT of the file to a signed url, the wizard that     *)
(* waits for it and follows the ingest's stream, the attempts of the server *)
(* at one asset id with their clean-up, and users who use or delete the      *)
(* asset meanwhile (its row is there from an ingest's start).                *)
(* (web/.../vfs/VfsUploadDialog.tsx, upload/UploadWizard.tsx,               *)
(* useSignedAssetUpload.ts, backend/services/vfs/ingest-video.go and         *)
(* ingest-audio.go, which are the same handler.) UploadPipeline has what      *)
(* happens inside uploadSegments; here a segment is one step.                *)
(***************************************************************************)
EXTENDS Naturals

CONSTANTS
    MaxAssets,      \* ids GetAssetUploadTarget makes
    MaxAttempts,    \* calls of InitiateVideoIngest or InitiateAudioIngest
    Segments,
    MayCrash        \* the server may crash

ASSUME BoundsAssumption == MaxAssets \in Nat /\ MaxAttempts \in Nat \ {0}
ASSUME CrashAssumption == MayCrash \in BOOLEAN

Assets == 1 .. MaxAssets
NoAsset == 0
Attempts == 1 .. MaxAttempts
NoAttempt == 0
Manifest == "manifest"
Objects == Segments \cup {Manifest}

VARIABLES
    (* the dialog and the wizard in it *)
    open,       \* the dialog is open
    target,     \* uploadTarget
    asks,       \* requests for a target under way: the asset, and whether
                \* it is the effect's and the effect's still (~ignoreResponse)
    askFailed,  \* uploadTargetError
    file,       \* a file is selected
    put,        \* its PUT: "none", "going", "done", "failed" (as every
                \* PUT does two minutes after its target was signed)
    phase,      \* handleUpload: "idle", "waiting" (for the PUT), "streaming"
    stream,     \* per attempt, its stream at the client: "none", "mounted",
                \* "orphan" (of a wizard that is gone), "closed"
    (* cloud storage and the database *)
    pending,    \* pending_assets
    originals,  \* the files PUT
    stored,     \* per asset: its segments and manifest
    row,        \* per asset: the attempt that made its row
    meta,       \* the assets with a row in videos or audios
    indexed,    \* per asset: the segments with key frames
    used,       \* the assets some project uses
    (* the server *)
    pc, of,     \* per attempt: where it is, and its asset
    keys,       \* per attempt: uploadedObjects, and what clean-up still deletes
    (* history *)
    told,       \* the assets announced to the client as finished
    removed,    \* the assets a user deleted
    leaky       \* the assets with a crash, a deletion that failed or a row whose
                \* insertion was answered with an error

dialog == <<open, target, asks, askFailed>>
wizard == <<file, put, phase>>
rows == <<row, meta, indexed>>
server == <<pc, of, keys>>
history == <<told, removed, leaky>>
vars == <<dialog, wizard, stream, pending, originals, stored, rows, used, server, history>>

Init ==
    /\ open = FALSE /\ target = NoAsset /\ asks = {} /\ askFailed = FALSE
    /\ file = FALSE /\ put = "none" /\ phase = "idle"
    /\ stream = [t \in Attempts |-> "none"]
    /\ pending = {} /\ originals = {}
    /\ stored = [a \in Assets |-> {}]
    /\ row = [a \in Assets |-> NoAttempt] /\ meta = {} /\ indexed = [a \in Assets |-> {}]
    /\ used = {}
    /\ pc = [t \in Attempts |-> "none"] /\ of = [t \in Attempts |-> NoAsset]
    /\ keys = [t \in Attempts |-> {}]
    /\ told = {} /\ removed = {} /\ leaky = {}

-----------------------------------------------------------------------------
(* The dialog.                                                              *)

Mounted == open /\ target # NoAsset /\ ~askFailed       \* the wizard is

(* The wizard is unmounted: its PUT is aborted, its streams go on.          *)
Unmount ==
    /\ file' = FALSE /\ put' = "none" /\ phase' = "idle"
    /\ stream' = [t \in Attempts |-> IF stream[t] = "mounted" THEN "orphan" ELSE stream[t]]

(* GetAssetUploadTarget: the id is new, and pending from then on.           *)
Ask(a, kind) ==
    /\ pending = 1 .. a - 1
    /\ pending' = pending \cup {a}
    /\ target' = NoAsset /\ askFailed' = FALSE
    /\ asks' = asks \cup {[asset |-> a, kind |-> kind]}

(* The effect on open asks for a target.                                    *)
OpenDialog(a) ==
    /\ ~open /\ open' = TRUE
    /\ Ask(a, "effect")
    /\ UNCHANGED <<wizard, stream, originals, stored, rows, used, server, history>>

(* getUploadTarget, whose answers nothing makes ignored.                    *)
ClickTryAgain(a) ==
    /\ open /\ askFailed
    /\ Ask(a, "button")
    /\ UNCHANGED <<open, wizard, stream, originals, stored, rows, used, server, history>>

Closed ==
    /\ open' = FALSE /\ target' = NoAsset /\ askFailed' = FALSE
    /\ asks' = {IF q.kind = "effect" THEN [q EXCEPT !.kind = "ignored"] ELSE q : q \in asks}

CloseDialog ==
    /\ open
    /\ Closed /\ Unmount
    /\ UNCHANGED <<pending, originals, stored, rows, used, server, history>>

(* The effect of useSignedAssetUpload runs anew for a target or a file: a    *)
(* PUT under way is aborted, and a submission waiting for it goes back.      *)
StartPut ==
    /\ put' = "going"
    /\ phase' = IF phase = "waiting" THEN "idle" ELSE phase

(* A target arrives, perhaps late and under a wizard that has one already.  *)
AnswerTarget(q) ==
    /\ asks' = asks \ {q}
    /\ IF q.kind = "ignored" THEN UNCHANGED <<target, wizard>>
       ELSE /\ target' = q.asset
            /\ IF file THEN StartPut ELSE UNCHANGED <<put, phase>>
            /\ UNCHANGED file
    /\ UNCHANGED <<open, askFailed, stream, pending, originals, stored, rows, used,
                   server, history>>

FailTarget(q) ==
    /\ asks' = asks \ {q}
    /\ IF q.kind = "ignored" THEN UNCHANGED <<askFailed, wizard, stream>>
       ELSE askFailed' = TRUE /\ Unmount
    /\ UNCHANGED <<open, target, pending, originals, stored, rows, used, server, history>>

-----------------------------------------------------------------------------
(* The wizard.                                                              *)

SelectFile ==
    /\ Mounted /\ phase = "idle"
    /\ file' = TRUE
    /\ StartPut
    /\ UNCHANGED <<dialog, stream, pending, originals, stored, rows, used, server, history>>

PutDone ==
    /\ put = "going"
    /\ put' = "done"
    /\ originals' = originals \cup {target}
    /\ UNCHANGED <<dialog, file, phase, stream, pending, stored, rows, used, server, history>>

(* A mutated form of PutFails: a submission goes on waiting.                *)
PutFailsUnseen ==
    /\ put = "going"
    /\ put' = "failed"
    /\ UNCHANGED <<dialog, file, phase, stream, pending, originals, stored, rows, used, server, history>>

(* A submission that waits for it goes back to the form.                    *)
PutFails ==
    /\ put = "going"
    /\ put' = "failed"
    /\ phase' = IF phase = "waiting" THEN "idle" ELSE phase
    /\ UNCHANGED <<dialog, file, stream, pending, originals, stored, rows, used, server, history>>

(* handleUpload before its file is there. After a PUT that failed it does    *)
(* nothing: waitForUpload's promise is false.                               *)
SubmitEarly ==
    /\ Mounted /\ phase = "idle" /\ put = "going"
    /\ pc[MaxAttempts] = "none"
    /\ phase' = "waiting"
    /\ UNCHANGED <<dialog, file, put, stream, pending, originals, stored, rows, used, server, history>>

(* ... and when it is: initiateVideoIngest or initiateAudioIngest is called.*)
Initiate(t) ==
    /\ Mounted /\ phase \in {"idle", "waiting"} /\ put = "done"
    /\ pc[t] = "none" /\ (\A u \in 1 .. t - 1 : pc[u] # "none")
    /\ phase' = "streaming"
    /\ stream' = [stream EXCEPT ![t] = "mounted"]
    /\ pc' = [pc EXCEPT ![t] = "check"] /\ of' = [of EXCEPT ![t] = target]
    /\ UNCHANGED <<dialog, file, put, pending, originals, stored, rows, used, keys, history>>

Following(t) == stream[t] \in {"mounted", "orphan"}
CloseStream(t) == stream' = [stream EXCEPT ![t] = "closed"]

(* The "finished" of any stream closes the dialog that is open now.         *)
Finished(t) ==
    /\ Following(t) /\ pc[t] = "done"
    /\ told' = told \cup {of[t]}
    /\ Closed
    /\ file' = FALSE /\ put' = "none" /\ phase' = "idle"
    /\ stream' = [u \in Attempts |-> IF u = t THEN "closed"
                                     ELSE IF stream[u] = "mounted" THEN "orphan" ELSE stream[u]]
    /\ UNCHANGED <<pending, originals, stored, rows, used, server, removed, leaky>>

(* The stream ends with an error, the server's or the connection's.         *)
Errored(t) ==
    /\ Following(t)
    /\ phase' = IF stream[t] = "mounted" THEN "idle" ELSE phase
    /\ CloseStream(t)
    /\ UNCHANGED <<dialog, file, put, pending, originals, stored, rows, used, server, history>>

-----------------------------------------------------------------------------
(* An attempt of the server.                                                *)

client == <<dialog, wizard, stream, pending, originals>>
At(t, where) == pc[t] = where
Goto(t, where) == pc' = [pc EXCEPT ![t] = where]

(* Everything before the row is made: the id is pending, the name is free in *)
(* the directory, the original is there. A refusal cleans nothing up.       *)
Check(t) ==
    /\ At(t, "check")
    /\ \/ of[t] \in originals /\ Goto(t, "create")
       \/ Goto(t, "refused")
    /\ UNCHANGED <<client, stored, rows, used, of, keys, history>>

(* A mutated form of Create: the row that is there is taken over.           *)
CreateOrTake(t) ==
    /\ At(t, "create")
    /\ row' = [row EXCEPT ![of[t]] = t] /\ meta' = meta \ {of[t]} /\ Goto(t, "describe")
    /\ UNCHANGED <<client, stored, indexed, used, of, keys, history>>

(* A mutated form of Create: its refusal cleans up, as later ones do.       *)
CreateOrClean(t) ==
    /\ At(t, "create")
    /\ IF row[of[t]] = NoAttempt
       THEN row' = [row EXCEPT ![of[t]] = t] /\ Goto(t, "describe")
       ELSE Goto(t, "clean") /\ UNCHANGED row
    /\ UNCHANGED <<client, stored, meta, indexed, used, of, keys, history>>

(* CreateAssetWithId: refused while the id has a row.                       *)
Create(t) ==
    /\ At(t, "create")
    /\ IF row[of[t]] = NoAttempt
       THEN row' = [row EXCEPT ![of[t]] = t] /\ Goto(t, "describe")
       ELSE Goto(t, "refused") /\ UNCHANGED row
    /\ UNCHANGED <<client, stored, meta, indexed, used, of, keys, history>>

(* The row is made, but the insertion is answered with an error (the client  *)
(* is gone, and the request's context with it): the handler returns without  *)
(* a clean-up, and the row stays.                                           *)
CreateUnanswered(t) ==
    /\ At(t, "create")
    /\ row[of[t]] = NoAttempt
    /\ row' = [row EXCEPT ![of[t]] = t] /\ Goto(t, "refused")
    /\ leaky' = leaky \cup {of[t]}
    /\ UNCHANGED <<client, stored, meta, indexed, used, of, keys, told, removed>>

(* CreateVideo or CreateAudio, one row per asset that has one.              *)
Describe(t) ==
    /\ At(t, "describe")
    /\ IF row[of[t]] # NoAttempt /\ of[t] \notin meta
       THEN meta' = meta \cup {of[t]} /\ Goto(t, "upload")
       ELSE Goto(t, "clean") /\ UNCHANGED meta
    /\ UNCHANGED <<client, stored, row, indexed, used, of, keys, history>>

(* A mutated form of UploadSegment: a segment that failed has no key.       *)
UploadSegmentForgets(t, s) ==
    /\ At(t, "upload") /\ s \notin keys[t]
    /\ \E put_, index \in BOOLEAN :
          /\ index => put_ /\ of[t] \in meta
          /\ stored' = IF put_ THEN [stored EXCEPT ![of[t]] = @ \cup {s}] ELSE stored
          /\ indexed' = IF index THEN [indexed EXCEPT ![of[t]] = @ \cup {s}] ELSE indexed
          /\ keys' = IF index THEN [keys EXCEPT ![t] = @ \cup {s}] ELSE keys
          /\ IF index THEN UNCHANGED pc ELSE Goto(t, "clean")
    /\ UNCHANGED <<client, row, meta, used, of, history>>

(* A key is kept for the clean-up whether or not its object got there.      *)
UploadSegment(t, s) ==
    /\ At(t, "upload") /\ s \notin keys[t]
    /\ keys' = [keys EXCEPT ![t] = @ \cup {s}]
    /\ \E put_, index \in BOOLEAN :
          /\ index => put_ /\ of[t] \in meta
          /\ stored' = IF put_ THEN [stored EXCEPT ![of[t]] = @ \cup {s}] ELSE stored
          /\ indexed' = IF index THEN [indexed EXCEPT ![of[t]] = @ \cup {s}] ELSE indexed
          /\ IF index THEN UNCHANGED pc ELSE Goto(t, "clean")
    /\ UNCHANGED <<client, row, meta, used, of, history>>

(* FinishUpload and the message that tells of it.                           *)
FinishUpload(t) ==
    /\ At(t, "upload") /\ keys[t] = Segments
    /\ keys' = [keys EXCEPT ![t] = Objects]
    /\ \/ stored' = [stored EXCEPT ![of[t]] = @ \cup {Manifest}] /\ Goto(t, "announce")
       \/ stored' \in {stored, [stored EXCEPT ![of[t]] = @ \cup {Manifest}]} /\ Goto(t, "clean")
    /\ UNCHANGED <<client, rows, used, of, history>>

Announce(t) ==
    /\ At(t, "announce")
    /\ Goto(t, "done") \/ Goto(t, "clean")
    /\ UNCHANGED <<client, stored, rows, used, of, keys, history>>

(* cleanupFailedMediaUpload goes on after a deletion that fails.            *)
CleanObject(t, k) ==
    /\ At(t, "clean") /\ k \in keys[t]
    /\ keys' = [keys EXCEPT ![t] = @ \ {k}]
    /\ \/ stored' = [stored EXCEPT ![of[t]] = @ \ {k}] /\ UNCHANGED leaky
       \/ leaky' = leaky \cup {of[t]} /\ UNCHANGED stored
    /\ UNCHANGED <<client, rows, used, pc, of, told, removed>>

DropRow(a) ==
    /\ row' = [row EXCEPT ![a] = NoAttempt]
    /\ meta' = meta \ {a} /\ indexed' = [indexed EXCEPT ![a] = {}]

(* ... and deletes the row of the id, whoever made it, unless it is in use. *)
CleanRow(t) ==
    /\ At(t, "clean") /\ keys[t] = {}
    /\ Goto(t, "refused")
    /\ \/ of[t] \notin used /\ DropRow(of[t]) /\ UNCHANGED leaky
       \/ leaky' = leaky \cup {of[t]} /\ UNCHANGED rows
    /\ UNCHANGED <<client, stored, used, of, keys, told, removed>>

Working == {"check", "create", "describe", "upload", "announce", "clean"}

Crash ==
    /\ MayCrash
    /\ LET lost == {t \in Attempts : pc[t] \in Working} IN
       /\ lost # {}
       /\ pc' = [t \in Attempts |-> IF t \in lost THEN "crashed" ELSE pc[t]]
       /\ leaky' = leaky \cup {of[t] : t \in lost}
    /\ UNCHANGED <<client, stored, rows, used, of, keys, told, removed>>

-----------------------------------------------------------------------------
(* Users of the workspace, who see the asset from the start of its ingest.  *)

DeleteAsset(a) ==
    /\ row[a] # NoAttempt /\ a \notin used
    /\ DropRow(a)
    /\ removed' = removed \cup {a}
    /\ UNCHANGED <<client, stored, used, server, told, leaky>>

AddProjectAsset(a) ==
    /\ row[a] # NoAttempt
    /\ used' = used \cup {a}
    /\ UNCHANGED <<client, stored, rows, server, history>>

RemoveProjectAsset(a) ==
    /\ a \in used
    /\ used' = used \ {a}
    /\ UNCHANGED <<client, stored, rows, server, history>>

-----------------------------------------------------------------------------
Attempt(t) ==
    \/ Check(t) \/ Create(t) \/ CreateUnanswered(t) \/ Describe(t)
    \/ FinishUpload(t) \/ Announce(t) \/ CleanRow(t)
    \/ \E s \in Segments : UploadSegment(t, s)
    \/ \E k \in Objects : CleanObject(t, k)

Next ==
    \/ CloseDialog \/ SelectFile \/ PutDone \/ PutFails \/ SubmitEarly \/ Crash
    \/ \E a \in Assets :
          \/ OpenDialog(a) \/ ClickTryAgain(a)
          \/ DeleteAsset(a) \/ AddProjectAsset(a) \/ RemoveProjectAsset(a)
    \/ \E q \in asks : AnswerTarget(q) \/ FailTarget(q)
    \/ \E t \in Attempts : Initiate(t) \/ Attempt(t) \/ Finished(t) \/ Errored(t)

(* The server goes on with what it began, a stream that ended is noticed,    *)
(* a PUT ends, and a submission goes on when its PUT is done.               *)
Fairness ==
    /\ WF_vars(PutDone \/ PutFails)
    /\ \A t \in Attempts :
          /\ WF_vars(Attempt(t))
          /\ WF_vars(phase = "waiting" /\ Initiate(t))
          /\ WF_vars(pc[t] = "done" /\ Finished(t))
          /\ WF_vars(pc[t] \in {"refused", "crashed"} /\ Errored(t))

Spec == Init /\ [][Next]_vars /\ Fairness

-----------------------------------------------------------------------------
(* Properties.                                                              *)

Kinds == {"effect", "button", "ignored"}

TypeOK ==
    /\ open \in BOOLEAN /\ target \in Assets \cup {NoAsset} /\ askFailed \in BOOLEAN
    /\ asks \subseteq [asset : pending, kind : Kinds]
    /\ file \in BOOLEAN /\ put \in {"none", "going", "done", "failed"}
    /\ phase \in {"idle", "waiting", "streaming"}
    /\ stream \in [Attempts -> {"none", "mounted", "orphan", "closed"}]
    /\ pending \subseteq Assets /\ originals \subseteq pending
    /\ stored \in [Assets -> SUBSET Objects] /\ row \in [Assets -> Attempts \cup {NoAttempt}]
    /\ meta \subseteq {a \in Assets : row[a] # NoAttempt}
    /\ indexed \in [Assets -> SUBSET Segments]
    /\ used \subseteq {a \in Assets : row[a] # NoAttempt}
    /\ pc \in [Attempts -> Working \cup {"none", "refused", "done", "crashed"}]
    /\ of \in [Attempts -> pending \cup {NoAsset}]
    /\ keys \in [Attempts -> SUBSET Objects]
    /\ told \subseteq Assets /\ removed \subseteq Assets /\ leaky \subseteq Assets
    /\ (phase = "streaming") = (\E t \in Attempts : stream[t] = "mounted")

(* An asset the client was told is finished is whole, however many attempts  *)
(* were made at its id, unless a user deleted it.                           *)
AnnouncedIsWhole ==
    \A a \in told \ removed :
        row[a] # NoAttempt /\ a \in meta /\ indexed[a] = Segments /\ stored[a] = Objects

(* An asset whose attempts all failed has left nothing behind, unless a      *)
(* deletion failed, the server crashed, the insertion of its row was done    *)
(* but answered with an error, or users were at its row meanwhile.          *)
FailedLeavesNothing ==
    \A a \in pending \ (leaky \cup removed) :
        (\A t \in Attempts : of[t] = a => pc[t] = "refused")
            => row[a] = NoAttempt /\ stored[a] = {}

(* Of two attempts at one id, as a retry after a lost connection makes them, *)
(* the second is refused until the first is cleaned up, so that a clean-up   *)
(* takes only what its own attempt made, unless a user deleted the row.     *)
CleansOnlyItsOwn ==
    \A t \in Attempts :
        pc[t] \in Working \ {"check", "create"} /\ of[t] \notin removed => row[of[t]] = t

(* A submitted upload does not stay on the wizard's spinner for ever.       *)
WizardReturns == phase # "idle" ~> phase = "idle"
=============================================================================
