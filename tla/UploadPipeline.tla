--------------------------- MODULE UploadPipeline ---------------------------
(***************************************************************************)
(* The upload half of one InitiateVideoIngest or InitiateAudioIngest call, *)
(* from the moment its asset row exists until the handler has returned:    *)
(*                                                                         *)
(*   the handler        backend/services/vfs/ingest-video.go, -audio.go    *)
(*   its consumer loop  backend/services/vfs/upload-utils.go               *)
(*   the dispatcher and the workers it starts                              *)
(*                      backend/video/upload-worker.go                     *)
(*   the segment iterators  backend/video/segment-video.go, -audio.go      *)
(*   UploadSegment, FinishUpload   backend/video/manifest-builder.go       *)
(*                                                                         *)
(* They are goroutines that meet on two unbuffered channels, jobs and      *)
(* results, and share three contexts, each cancelled with its parent: the  *)
(* request's, the consumer's (cancelUpload) and the dispatcher's (cancel). *)
(* A segment is its index; its object, its line in the manifest and its    *)
(* rows in the index are all named by it.                                  *)
(***************************************************************************)
EXTENDS Naturals

CONSTANTS
  Workers,    \* goroutines that upload (uploadWorkerCount)
  NSegs       \* segments the encoder makes of the media

ASSUME NSegsAssumption == NSegs \in Nat

Segs == 1..NSegs

(* What an ingest creates outside the process, each under a number of its  *)
(* own: the objects of the segments and of the manifest, and the asset row.*)
ManifestObject == 0
Asset == NSegs + 1
Keys == 0..NSegs
Created == 0..(NSegs + 1)

VARIABLES
  disp,        \* where the dispatcher stands
  next,        \* the last segment the iterator has yielded
  media,       \* what is ingested, which says whose iterator it is
  wpc,         \* where each worker stands
  wseg,        \* the segment each worker holds
  handler,     \* where the handler stands
  live,        \* the contexts not cancelled themselves
  errs,        \* which of uploadErr and streamErr are set
  objects,     \* uploadedObjects
  lines,       \* ManifestBuilder.segmentLines
  inPlace,     \* what exists of Created, in cloud storage and the database
  outcome,     \* how the handler ended
  spilled      \* history: what the cleanup failed to delete

results == <<inPlace, outcome, spilled>>
dispatcher == <<disp, next, media>>
workers == <<wpc, wseg>>
pipelineVars == <<dispatcher, workers, handler, live, errs, objects, lines, results>>

(* ctx.Err() of the dispatcher's context, which the workers share: its own *)
(* is cancelled, or one it descends from.                                  *)
Contexts == {"request", "upload", "inner"}
Cancelled == live # Contexts

Receiving == handler = "receive"
WorkerAt(w, p) == wpc[w] = p
WorkerGoto(w, p) == wpc' = [wpc EXCEPT ![w] = p]

-----------------------------------------------------------------------------
PipelineInit ==
  /\ disp = "pull" /\ next = 0
  /\ media \in {"video", "audio"}
  /\ wpc = [w \in Workers |-> "idle"]
  /\ wseg = [w \in Workers |-> 0]
  /\ handler = "receive"
  /\ live = Contexts
  /\ errs = {}
  /\ objects = {} /\ lines = {}
  /\ inPlace = {Asset}
  /\ outcome = "running"
  /\ spilled = {}

-----------------------------------------------------------------------------
(* The dispatcher *)

(* The iterator yields a segment, fails, or has come to its end.  That of  *)
(* audio does not ask its scanner why it stopped reading what the encoder  *)
(* says (segment-audio.go:62-84, unlike segment-video.go:113): it may take *)
(* the last segment it has heard of for the last of all.                   *)
Pull ==
  /\ disp = "pull"
  /\ \/ /\ next < NSegs
        /\ next' = next + 1
        /\ disp' = "offer"
     \/ /\ next' = next
        /\ disp' = "report"
     \/ /\ next = NSegs \/ media = "audio"
        /\ next' = next
        /\ disp' = "close"
  /\ UNCHANGED <<media, workers, handler, live, errs, objects, lines, results>>

(* An idle worker takes the segment offered on jobs.                       *)
Hand(w) ==
  /\ disp = "offer"
  /\ WorkerAt(w, "idle")
  /\ WorkerGoto(w, "put")
  /\ wseg' = [wseg EXCEPT ![w] = next]
  /\ disp' = "pull"
  /\ UNCHANGED <<next, media, handler, live, errs, objects, lines, results>>

(* A dispatcher that sends on jobs without a select: a mutated form.       *)
OfferForEver == FALSE

(* The other branch of the select: the segment offered is dropped.         *)
StopOffering ==
  /\ disp = "offer"
  /\ Cancelled
  /\ disp' = "close"
  /\ UNCHANGED <<next, media, workers, handler, live, errs, objects, lines, results>>

CloseJobs ==
  /\ disp = "close"
  /\ disp' = "wait"
  /\ UNCHANGED <<next, media, workers, handler, live, errs, objects, lines, results>>

(* wg.Wait returns, and results is closed.                                 *)
CloseResults ==
  /\ disp = "wait"
  /\ \A w \in Workers : WorkerAt(w, "gone")
  /\ disp' = "gone"
  /\ live' = live \ {"inner"}
  /\ UNCHANGED <<next, media, workers, handler, errs, objects, lines, results>>

-----------------------------------------------------------------------------
(* A worker *)

(* The object is written, and the segment's line is added.  A write that   *)
(* fails may have left the object in place.                                *)
Put(w) ==
  /\ WorkerAt(w, "put")
  /\ \/ /\ inPlace' = inPlace \cup {wseg[w]}
        /\ lines' = lines \cup {wseg[w]}
        /\ WorkerGoto(w, "index")
     \/ /\ inPlace' \in {inPlace, inPlace \cup {wseg[w]}}
        /\ WorkerGoto(w, "bad")
        /\ UNCHANGED lines
  /\ UNCHANGED <<dispatcher, wseg, handler, live, errs, objects, outcome, spilled>>

(* The rows of the segment's key frames are inserted, or one of them fails *)
(* (a cancelled context, an asset deleted meanwhile).                      *)
Index(w) ==
  /\ WorkerAt(w, "index")
  /\ \/ WorkerGoto(w, "good")
     \/ WorkerGoto(w, "bad")
  /\ UNCHANGED <<dispatcher, wseg, handler, live, errs, objects, lines, results>>

(* A worker that has sent an error cancels the others and returns.         *)
Quit(w) ==
  /\ WorkerAt(w, "quit")
  /\ live' = live \ {"inner"}
  /\ WorkerGoto(w, "gone")
  /\ UNCHANGED <<dispatcher, wseg, handler, errs, objects, lines, results>>

(* The range over jobs ends once the dispatcher has closed it.             *)
Leave(w) ==
  /\ WorkerAt(w, "idle")
  /\ disp \in {"wait", "gone"}
  /\ WorkerGoto(w, "gone")
  /\ UNCHANGED <<dispatcher, wseg, handler, live, errs, objects, lines, results>>

-----------------------------------------------------------------------------
(* The consumer: the loop of uploadSegments over results *)

(* An error: the first one cancels the upload, and the loop goes on.       *)
NoteError ==
  /\ errs' = errs \cup {"upload"}
  /\ live' = live \ {"upload"}

(* A completed segment: its progress is sent, unless an error was seen.    *)
NoteProgress ==
  \/ UNCHANGED <<errs, live>>
  \/ /\ errs = {}
     /\ errs' = {"stream"}
     /\ live' = live \ {"upload"}

(* A result that carries no key when its upload failed: a mutated form.    *)
ResultErrorNoKey(w) ==
  /\ Receiving
  /\ WorkerAt(w, "bad")
  /\ WorkerGoto(w, "quit")
  /\ NoteError
  /\ UNCHANGED <<dispatcher, wseg, handler, objects, lines, results>>

(* A worker's failure reaches the consumer, with the key of its object.    *)
ResultError(w) ==
  /\ Receiving
  /\ WorkerAt(w, "bad")
  /\ WorkerGoto(w, "quit")
  /\ objects' = objects \cup {wseg[w]}
  /\ NoteError
  /\ UNCHANGED <<dispatcher, wseg, handler, lines, results>>

(* A worker's success does, and the worker takes another job.              *)
ResultGood(w) ==
  /\ Receiving
  /\ WorkerAt(w, "good")
  /\ WorkerGoto(w, "idle")
  /\ objects' = objects \cup {wseg[w]}
  /\ NoteProgress
  /\ UNCHANGED <<dispatcher, wseg, handler, lines, results>>

(* The iterator's error does; the dispatcher then cancels and stops.       *)
ResultIterator ==
  /\ Receiving
  /\ disp = "report"
  /\ disp' = "abort"
  /\ NoteError
  /\ UNCHANGED <<next, media, workers, handler, objects, lines, results>>

Abort ==
  /\ disp = "abort"
  /\ live' = live \ {"inner"}
  /\ disp' = "close"
  /\ UNCHANGED <<next, media, workers, handler, errs, objects, lines, results>>

(* A consumer that stops at its first error: a mutated form.               *)
DrainedEarly ==
  /\ Receiving
  /\ disp = "gone" \/ errs # {}
  /\ handler' = IF errs = {} THEN "finish" ELSE "cleanup"
  /\ live' = live \ {"upload"}
  /\ UNCHANGED <<dispatcher, workers, errs, objects, lines, results>>

(* results is closed: uploadSegments returns, cancelUpload deferred.       *)
Drained ==
  /\ Receiving
  /\ disp = "gone"
  /\ handler' = IF errs = {} THEN "finish" ELSE "cleanup"
  /\ live' = live \ {"upload"}
  /\ UNCHANGED <<dispatcher, workers, errs, objects, lines, results>>

-----------------------------------------------------------------------------
(* The rest of the handler *)

(* FinishUpload on a context of its own: a mutated form.                   *)
FinishDetached ==
  /\ handler = "finish"
  /\ inPlace' = inPlace \cup {ManifestObject}
  /\ objects' = objects \cup {ManifestObject}
  /\ handler' = "announce"
  /\ UNCHANGED <<dispatcher, workers, live, errs, lines, outcome, spilled>>

(* FinishUpload writes the manifest on the request's context; a write on a *)
(* cancelled context stores nothing (the storage client's contract).  From *)
(* here on a cleanup covers the manifest as well.                          *)
Finish ==
  /\ handler = "finish"
  /\ objects' = objects \cup {ManifestObject}
  /\ \/ /\ "request" \in live
        /\ inPlace' = inPlace \cup {ManifestObject}
        /\ handler' = "announce"
     \/ /\ \/ UNCHANGED inPlace
           \/ "request" \in live /\ inPlace' = inPlace \cup {ManifestObject}
        /\ handler' = "cleanup"
  /\ UNCHANGED <<dispatcher, workers, live, errs, lines, outcome, spilled>>

(* The finished message is sent, or cannot be.                             *)
SendFinal ==
  /\ handler = "announce"
  /\ \/ handler' = "done" /\ outcome' = "finished"
     \/ handler' = "cleanup" /\ UNCHANGED outcome
  /\ UNCHANGED <<dispatcher, workers, live, errs, objects, lines, inPlace, spilled>>

(* cleanupFailedMediaUpload, on a context that is never cancelled: every   *)
(* key that was reported, then the asset row.  Deletions that fail are     *)
(* logged and passed over.                                                 *)
Cleanup ==
  /\ handler = "cleanup"
  /\ spilled' \in SUBSET (inPlace \cap (objects \cup {Asset}))
  /\ inPlace' = (inPlace \ (objects \cup {Asset})) \cup spilled'
  /\ handler' = "done"
  /\ outcome' = "failed"
  /\ UNCHANGED <<dispatcher, workers, live, errs, objects, lines>>

(* The client goes away while its request is being served.                 *)
Disconnect ==
  /\ "request" \in live
  /\ handler # "done"
  /\ live' = live \ {"request"}
  /\ UNCHANGED <<dispatcher, workers, handler, errs, objects, lines, results>>

(* All goroutines have ended.                                              *)
AllEnded == disp = "gone" /\ \A w \in Workers : WorkerAt(w, "gone")
Ended == handler = "done" /\ AllEnded /\ UNCHANGED pipelineVars

DispatcherStep == Pull \/ StopOffering \/ CloseJobs \/ CloseResults \/ Abort
WorkerStep(w) == \/ Hand(w) \/ Put(w) \/ Index(w) \/ Quit(w) \/ Leave(w)
                 \/ ResultError(w) \/ ResultGood(w)
HandlerStep == ResultIterator \/ Drained \/ Finish \/ SendFinal \/ Cleanup

PipelineNext ==
  \/ DispatcherStep
  \/ \E w \in Workers : WorkerStep(w)
  \/ HandlerStep
  \/ Disconnect
  \/ Ended

(* Every goroutine that can run does, and every call of it returns.        *)
PipelineFairness ==
  /\ WF_pipelineVars(DispatcherStep)
  /\ \A w \in Workers : WF_pipelineVars(WorkerStep(w))
  /\ WF_pipelineVars(HandlerStep)

PipelineSpec == PipelineInit /\ [][PipelineNext]_pipelineVars
FairSpec == PipelineSpec /\ PipelineFairness

-----------------------------------------------------------------------------
(* Type invariant of the goroutines of one ingest (upload-worker.go).      *)
PipelineTypeOK ==
  /\ disp \in {"pull", "offer", "report", "abort", "close", "wait", "gone"}
  /\ next \in 0..NSegs /\ media \in {"video", "audio"}
  /\ wpc \in [Workers -> {"idle", "put", "index", "good", "bad", "quit", "gone"}]
  /\ wseg \in [Workers -> 0..NSegs]
  /\ handler \in {"receive", "finish", "announce", "cleanup", "done"}
  /\ live \subseteq Contexts
  /\ errs \subseteq {"upload", "stream"}
  /\ objects \subseteq Keys /\ lines \subseteq Keys /\ inPlace \subseteq Created
  /\ outcome \in {"running", "finished", "failed"}
  /\ spilled \subseteq Created

(* A media file that the ingest lets stand is whole: an ingest answered    *)
(* "finished" has its row, its manifest, and in the manifest and in cloud  *)
(* storage every segment that its iterator yielded, which for a video are  *)
(* all there are.  A client that goes away makes the dispatcher drop       *)
(* segments without an error anywhere: only FinishUpload's use of the same *)
(* cancelled context keeps a short manifest from standing.                 *)
FinishedIsWhole ==
  outcome = "finished" =>
    /\ {Asset, ManifestObject} \subseteq inPlace
    /\ 1..next \subseteq lines \cap inPlace
    /\ media = "video" => next = NSegs

(* A failed ingest leaves nothing behind, neither its asset row nor any    *)
(* object, however many workers were still writing when it failed, but for *)
(* what a deletion of the cleanup itself failed on.                        *)
FailedUploadLeavesNothing == outcome = "failed" => inPlace \subseteq spilled

(* When the handler returns, no goroutine it started is left: neither a    *)
(* worker that waits for a job or to send a result, nor the dispatcher.    *)
NoGoroutineLeft == handler = "done" => AllEnded

(* The handler returns once the upload has begun: no channel operation of  *)
(* it, of the dispatcher or of a worker waits for ever, whatever fails and *)
(* whenever the client goes.                                               *)
HandlerReturns == ~PipelineInit ~> handler = "done"
=============================================================================
