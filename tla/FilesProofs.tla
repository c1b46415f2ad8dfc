---------------------------- MODULE FilesProofs -----------------------------
(***************************************************************************)
(* Proofs about what becomes of files: the ingest of an upload             *)
(* (UploadPipeline), for any set of workers and any number of segments,    *)
(* and the page that lists directories and changes them (VfsPage), for any *)
(* tree, any number of functions under way and any bound on events.        *)
(***************************************************************************)
EXTENDS UploadPipeline, VfsPage, SequenceTheorems, TLAPS

-----------------------------------------------------------------------------
(* The ingest of an upload *)

(* Type correctness at the start.                                          *)
LEMMA TypeInit == PipelineInit => PipelineTypeOK
BY NSegsAssumption DEF PipelineInit, PipelineTypeOK, Created, Asset

(* Every step of every goroutine keeps every variable in its type.         *)
LEMMA TypeStep == PipelineTypeOK /\ [PipelineNext]_pipelineVars => PipelineTypeOK'
<1> SUFFICES ASSUME PipelineTypeOK, [PipelineNext]_pipelineVars PROVE PipelineTypeOK'
  OBVIOUS
<1>k. Keys \subseteq Created /\ Segs \subseteq Keys /\ 0..NSegs = Keys /\ ManifestObject \in Keys
      /\ Asset \in Created
  BY NSegsAssumption DEF Keys, Created, Segs, ManifestObject, Asset
<1> USE <1>k, NSegsAssumption DEF PipelineTypeOK, results, dispatcher, workers, WorkerAt, WorkerGoto
<1>1. CASE DispatcherStep
  <2>1. CASE Pull
    BY <2>1 DEF Pull
  <2>2. CASE StopOffering \/ CloseJobs
    BY <2>2 DEF StopOffering, CloseJobs
  <2>3. CASE CloseResults \/ Abort
    BY <2>3 DEF CloseResults, Abort
  <2> QED
    BY <1>1, <2>1, <2>2, <2>3 DEF DispatcherStep
<1>2. ASSUME NEW w \in Workers, WorkerStep(w) PROVE PipelineTypeOK'
  <2>1. CASE Hand(w)
    BY <2>1 DEF Hand
  <2>2. CASE Put(w)
    <3>1. inPlace' \subseteq Created /\ lines' \subseteq Keys
      BY <2>2 DEF Put
    <3> QED
      BY <2>2, <3>1 DEF Put
  <2>3. CASE Index(w) \/ Quit(w) \/ Leave(w)
    BY <2>3 DEF Index, Quit, Leave
  <2>4. CASE ResultError(w)
    <3>1. objects' \subseteq Keys /\ errs' \subseteq {"upload", "stream"} /\ live' \subseteq Contexts
      BY <2>4 DEF ResultError, NoteError
    <3> QED
      BY <2>4, <3>1 DEF ResultError
  <2>5. CASE ResultGood(w)
    <3>1. objects' \subseteq Keys
      BY <2>5 DEF ResultGood
    <3>2. errs' \subseteq {"upload", "stream"} /\ live' \subseteq Contexts
      BY <2>5 DEF ResultGood, NoteProgress
    <3> QED
      BY <2>5, <3>1, <3>2 DEF ResultGood
  <2> QED
    BY <1>2, <2>1, <2>2, <2>3, <2>4, <2>5 DEF WorkerStep
<1>3. CASE HandlerStep
  <2>1. CASE ResultIterator \/ Drained \/ SendFinal
    BY <2>1 DEF ResultIterator, NoteError, Drained, SendFinal
  <2>2. CASE Finish
    BY <2>2 DEF Finish
  <2>3. CASE Cleanup
    BY <2>3 DEF Cleanup
  <2> QED
    BY <1>3, <2>1, <2>2, <2>3 DEF HandlerStep
<1>4. CASE Disconnect
  BY <1>4 DEF Disconnect
<1>5. CASE UNCHANGED pipelineVars
  BY <1>5 DEF pipelineVars
<1> QED
  BY <1>1, <1>2, <1>3, <1>4, <1>5 DEF PipelineNext, Ended

(* Type correctness of the dispatcher, the workers and the handler.        *)
THEOREM TypeCorrect == PipelineSpec => []PipelineTypeOK
BY TypeInit, TypeStep, PTL DEF PipelineSpec

-----------------------------------------------------------------------------
(* results is closed after every worker has returned, and the handler goes *)
(* on only after results is closed.                                        *)
EndedInv ==
  /\ PipelineTypeOK
  /\ disp = "gone" => \A w \in Workers : wpc[w] = "gone"
  /\ handler # "receive" => disp = "gone"

(* Every step keeps it.                                                    *)
LEMMA EndedStep == EndedInv /\ [PipelineNext]_pipelineVars => EndedInv'
<1> SUFFICES ASSUME EndedInv, [PipelineNext]_pipelineVars PROVE EndedInv'
  OBVIOUS
<1>t. PipelineTypeOK /\ PipelineTypeOK'
  BY TypeStep DEF EndedInv
<1> USE DEF EndedInv, results, dispatcher, workers, WorkerAt, WorkerGoto
<1>1. CASE DispatcherStep
  BY <1>1, <1>t DEF DispatcherStep, Pull, StopOffering, CloseJobs, CloseResults, Abort
<1>2. ASSUME NEW w \in Workers, WorkerStep(w) PROVE EndedInv'
  <2>1. wpc \in [Workers -> {"idle", "put", "index", "good", "bad", "quit", "gone"}]
    BY <1>t DEF PipelineTypeOK
  <2>2. CASE Hand(w)
    BY <2>2, <1>t DEF Hand
  <2>3. CASE Leave(w)
    BY <2>3, <2>1, <1>t DEF Leave
  <2>4. CASE Put(w) \/ Index(w) \/ Quit(w)
    BY <2>4, <2>1, <1>t DEF Put, Index, Quit
  <2>5. CASE ResultError(w) \/ ResultGood(w)
    BY <2>5, <2>1, <1>t DEF ResultError, ResultGood
  <2> QED
    BY <1>2, <2>2, <2>3, <2>4, <2>5 DEF WorkerStep
<1>3. CASE HandlerStep
  BY <1>3, <1>t DEF HandlerStep, ResultIterator, Drained, Finish, SendFinal, Cleanup, Receiving
<1>4. CASE Disconnect \/ UNCHANGED pipelineVars
  BY <1>4, <1>t DEF Disconnect, pipelineVars
<1> QED
  BY <1>1, <1>2, <1>3, <1>4 DEF PipelineNext, Ended

(* All of them run at the start.                                           *)
LEMMA EndedInit == PipelineInit => EndedInv
BY TypeInit DEF PipelineInit, EndedInv

(* However uploads fail and whenever the client goes away, no worker and   *)
(* no dispatcher outlives the handler that started them.                   *)
THEOREM NoGoroutineIsLeft == PipelineSpec => []NoGoroutineLeft
<1>1. EndedInv => NoGoroutineLeft
  BY DEF EndedInv, NoGoroutineLeft, AllEnded, WorkerAt
<1> QED
  BY <1>1, EndedInit, EndedStep, PTL DEF PipelineSpec

-----------------------------------------------------------------------------
(* An object is known to the consumer, or its worker is still to report it.*)
Reporting(k) == \E w \in Workers : wseg[w] = k /\ wpc[w] \in {"index", "good", "bad"}

ReportedInv ==
  /\ EndedInv
  /\ \A k \in inPlace \ {Asset} : k \in objects \/ Reporting(k)
  /\ outcome = "failed" => inPlace \subseteq spilled /\ handler = "done"

(* A step of one worker, which writes or reports only its own segment.     *)
LEMMA ReportedWorker ==
  ASSUME ReportedInv, EndedInv', NEW w \in Workers, WorkerStep(w)
  PROVE  ReportedInv'
<1>t. PipelineTypeOK /\ PipelineTypeOK' /\ UNCHANGED <<handler, outcome, spilled>>
  BY DEF ReportedInv, EndedInv, WorkerStep, Hand, Put, Index, Quit, Leave, ResultError,
         ResultGood, results, dispatcher, workers
<1>w. wpc \in [Workers -> {"idle", "put", "index", "good", "bad", "quit", "gone"}]
      /\ wseg \in [Workers -> 0..NSegs]
  BY <1>t DEF PipelineTypeOK
<1>d. handler = "done" => wpc[w] = "gone"
  BY DEF ReportedInv, EndedInv
<1>o. outcome # "failed" \/ inPlace' = inPlace
  BY <1>d DEF ReportedInv, WorkerStep, Hand, Put, Index, Quit, Leave, ResultError, ResultGood,
              results, WorkerAt
<1>1. ASSUME NEW k \in inPlace' \ {Asset} PROVE k \in objects' \/ Reporting(k)'
  <2>1. CASE Put(w)
    <3>1. wseg' = wseg /\ objects' = objects /\ inPlace' \subseteq inPlace \cup {wseg[w]}
          /\ wpc'[w] \in {"index", "bad"} /\ \A v \in Workers \ {w} : wpc'[v] = wpc[v]
          /\ wpc[w] = "put"
      BY <2>1, <1>w DEF Put, workers, WorkerGoto, WorkerAt
    <3>2. CASE k = wseg[w]
      BY <3>1, <3>2 DEF Reporting
    <3>3. CASE k \in inPlace /\ k # wseg[w]
      BY <3>1, <3>3 DEF ReportedInv, Reporting
    <3> QED
      BY <3>1, <3>2, <3>3, <1>1
  <2>2. CASE ~Put(w)
    <3>1. inPlace' = inPlace
      BY <2>2 DEF WorkerStep, Hand, Index, Quit, Leave, ResultError, ResultGood, results
    <3>2. objects \subseteq objects'
          /\ \A v \in Workers : wpc[v] \in {"index", "good", "bad"} => wseg'[v] = wseg[v]
          /\ \A o \in Workers : wpc[o] \in {"index", "good", "bad"}
                              => wpc'[o] \in {"index", "good", "bad"} \/ wseg[o] \in objects'
      <4>1. CASE Hand(w)
        BY <4>1, <1>w DEF Hand, WorkerAt, WorkerGoto
      <4>2. CASE Index(w) \/ Quit(w) \/ Leave(w)
        BY <4>2, <1>w DEF Index, Quit, Leave, WorkerAt, WorkerGoto
      <4>3. CASE ResultError(w) \/ ResultGood(w)
        BY <4>3, <1>w DEF ResultError, ResultGood, WorkerAt, WorkerGoto
      <4> QED
        BY <2>2, <4>1, <4>2, <4>3 DEF WorkerStep
    <3> QED
      BY <3>1, <3>2, <1>1 DEF ReportedInv, Reporting
  <2> QED
    BY <2>1, <2>2
<1> QED
  BY <1>t, <1>o, <1>1 DEF ReportedInv

(* Every step keeps it.                                                    *)
LEMMA ReportedStep == ReportedInv /\ [PipelineNext]_pipelineVars => ReportedInv'
<1> SUFFICES ASSUME ReportedInv, [PipelineNext]_pipelineVars PROVE ReportedInv'
  OBVIOUS
<1>t. EndedInv /\ EndedInv' /\ PipelineTypeOK
  BY EndedStep DEF ReportedInv, EndedInv
<1> DEFINE Same == UNCHANGED <<workers, objects, inPlace>>
<1>f. Same => \A k \in inPlace' \ {Asset} : k \in objects' \/ Reporting(k)'
  BY DEF ReportedInv, Reporting, workers
<1>1. CASE DispatcherStep
  <2>1. Same /\ UNCHANGED <<handler, results>>
    BY <1>1 DEF DispatcherStep, Pull, StopOffering, CloseJobs, CloseResults, Abort, results
  <2> QED
    BY <2>1, <1>t, <1>f DEF ReportedInv, results
<1>2. ASSUME NEW w \in Workers, WorkerStep(w) PROVE ReportedInv'
  BY <1>2, <1>t, ReportedWorker
<1>3. CASE ResultIterator \/ Drained \/ Disconnect
  <2>1. Same /\ UNCHANGED results /\ handler # "done"
    BY <1>3 DEF ResultIterator, Drained, Disconnect, results, Receiving
  <2> QED
    BY <2>1, <1>t, <1>f DEF ReportedInv, results
<1>4. CASE SendFinal
  BY <1>4, <1>t, <1>f DEF SendFinal, ReportedInv
<1>5. CASE Finish
  <2>1. inPlace' \subseteq inPlace \cup {ManifestObject} /\ objects' = objects \cup {ManifestObject}
        /\ UNCHANGED <<workers, outcome, spilled>> /\ handler # "done"
    BY <1>5 DEF Finish
  <2> QED
    BY <2>1, <1>t DEF ReportedInv, Reporting, workers
<1>6. CASE Cleanup
  <2>1. \A w \in Workers : wpc[w] = "gone"
    BY <1>6, <1>t DEF Cleanup, EndedInv
  <2>2. inPlace \subseteq objects \cup {Asset}
    BY <2>1 DEF ReportedInv, Reporting
  <2>3. inPlace' = spilled' /\ objects' = objects /\ handler' = "done"
        /\ spilled' \subseteq objects \cup {Asset}
    BY <1>6, <2>2 DEF Cleanup
  <2> QED
    BY <2>3, <1>t DEF ReportedInv
<1>7. CASE UNCHANGED pipelineVars
  BY <1>7, <1>t, <1>f DEF pipelineVars, ReportedInv, results
<1> QED
  BY <1>1, <1>2, <1>3, <1>4, <1>5, <1>6, <1>7 DEF PipelineNext, HandlerStep, Ended

(* Only the asset row exists at the start.                                 *)
LEMMA ReportedInit == PipelineInit => ReportedInv
BY EndedInit DEF PipelineInit, ReportedInv

(* For any number of workers: whatever was written when an ingest failed,  *)
(* its cleanup has tried to delete.                                        *)
THEOREM FailedIngestLeavesNothing == PipelineSpec => []FailedUploadLeavesNothing
<1>1. ReportedInv => FailedUploadLeavesNothing
  BY DEF ReportedInv, FailedUploadLeavesNothing
<1> QED
  BY <1>1, ReportedInit, ReportedStep, PTL DEF PipelineSpec

-----------------------------------------------------------------------------
(* While neither an error was seen nor the client is gone, every segment   *)
(* yielded is stored and listed or in somebody's hands, and the dispatcher *)
(* stops only at the end: each cancellation leaves a trace in errs or live.*)
Clean == errs = {} /\ "request" \in live

InHand(s) == \/ disp = "offer" /\ s = next
             \/ \E w \in Workers : wseg[w] = s /\ wpc[w] \in {"put", "bad"}

CleanUpload ==
  /\ disp \in {"close", "wait", "gone"} /\ media = "video" => next = NSegs
  /\ \A s \in 1..next : s \in lines \cap inPlace \/ InHand(s)
  /\ handler = "receive" => "upload" \in live
  /\ disp # "gone" => "inner" \in live
  /\ disp # "abort" /\ \A w \in Workers : wpc[w] # "quit"

SegmentsNumbered ==
  /\ disp = "offer" => next \in Segs
  /\ \A w \in Workers : wpc[w] = "put" => wseg[w] \in Segs
  /\ lines \subseteq Segs

Whole ==
  /\ {Asset, ManifestObject} \subseteq inPlace
  /\ 1..next \subseteq lines \cap inPlace
  /\ media = "video" => next = NSegs

WholeInv ==
  /\ EndedInv
  /\ SegmentsNumbered
  /\ handler \in {"receive", "finish", "announce"} => Asset \in inPlace
  /\ Clean /\ handler \in {"receive", "finish"} => CleanUpload
  /\ handler = "finish" => errs = {}
  /\ handler = "announce" \/ outcome = "finished" => Whole
  /\ outcome = "finished" => handler = "done"

(* The dispatcher's steps.                                                 *)
LEMMA WholeDispatcher ==
  ASSUME WholeInv, EndedInv', DispatcherStep
  PROVE  WholeInv'
<1>t. PipelineTypeOK /\ NSegs \in Nat
  BY NSegsAssumption DEF WholeInv, EndedInv
<1>u. UNCHANGED <<workers, handler, errs, objects, lines, results>>
  BY DEF DispatcherStep, Pull, StopOffering, CloseJobs, CloseResults, Abort
<1>r. disp # "gone" /\ (handler \notin {"receive"} => disp = "gone")
  BY DEF DispatcherStep, Pull, StopOffering, CloseJobs, CloseResults, Abort, WholeInv, EndedInv
<1>1. SegmentsNumbered'
  <2>1. CASE Pull
    BY <2>1, <1>t, <1>u DEF Pull, SegmentsNumbered, WholeInv, Segs, workers, PipelineTypeOK
  <2>2. CASE StopOffering \/ CloseJobs \/ CloseResults \/ Abort
    BY <2>2, <1>u DEF StopOffering, CloseJobs, CloseResults, Abort, SegmentsNumbered, WholeInv,
                      workers
  <2> QED
    BY <2>1, <2>2 DEF DispatcherStep
<1>2. Clean' /\ handler' \in {"receive", "finish"} => CleanUpload'
  <2> SUFFICES ASSUME Clean', handler' = "receive" PROVE CleanUpload'
    BY <1>r, <1>u
  <2>1. Clean /\ CleanUpload
    BY <1>u DEF Clean, WholeInv, DispatcherStep, Pull, StopOffering, CloseJobs, CloseResults, Abort
  <2>2. CASE Pull
    <3>1. next' \in {next, next + 1} /\ (next' = next + 1 <=> disp' = "offer")
          /\ (disp' = "close" /\ media = "video" => next' = NSegs) /\ media' = media
          /\ disp' \in {"offer", "report", "close"}
          /\ live' = live /\ disp = "pull"
      BY <2>2, <1>t DEF Pull, PipelineTypeOK
    <3>2. ASSUME NEW s \in 1..(next') PROVE s \in lines' \cap inPlace' \/ InHand(s)'
      <4>1. CASE s \in 1..next
        BY <4>1, <3>1, <2>1, <1>u DEF CleanUpload, InHand, workers, results
      <4>2. CASE s = next'
        <5>1. CASE next' = next + 1
          BY <5>1, <4>2, <3>1 DEF InHand
        <5>2. CASE next' = next
          BY <5>2, <4>1, <3>2, <4>2
        <5> QED
          BY <5>1, <5>2, <3>1
      <4> QED
        BY <3>1, <4>1, <4>2, <1>t DEF PipelineTypeOK
    <3> QED
      BY <3>1, <3>2, <2>1, <1>u DEF CleanUpload, workers
  <2>3. CASE StopOffering
    BY <2>3, <2>1, <1>u, <1>r, <1>t DEF StopOffering, CleanUpload, Clean, Cancelled,
                                         Contexts, PipelineTypeOK
  <2>4. CASE CloseJobs
    BY <2>4, <2>1, <1>u DEF CloseJobs, CleanUpload, InHand, workers, results
  <2>5. CASE CloseResults
    BY <2>5, <2>1, <1>u DEF CloseResults, CleanUpload, InHand, workers, results
  <2>6. CASE Abort
    BY <2>6, <2>1 DEF Abort, CleanUpload
  <2> QED
    BY <2>2, <2>3, <2>4, <2>5, <2>6 DEF DispatcherStep
<1>3. handler' = "receive" /\ outcome' # "finished"
  BY <1>r, <1>u DEF WholeInv, results
<1> QED
  BY <1>1, <1>2, <1>3, <1>u DEF WholeInv, results

(* The workers' steps.                                                     *)
LEMMA WholeWorker ==
  ASSUME WholeInv, EndedInv', NEW w \in Workers, WorkerStep(w)
  PROVE  WholeInv'
<1>t. PipelineTypeOK /\ NSegs \in Nat
      /\ wpc \in [Workers -> {"idle", "put", "index", "good", "bad", "quit", "gone"}]
      /\ wseg \in [Workers -> 0..NSegs]
  BY NSegsAssumption DEF WholeInv, EndedInv, PipelineTypeOK
<1>u. handler' = handler /\ outcome' = outcome /\ next' = next /\ media' = media
      /\ inPlace \subseteq inPlace'
      /\ lines \subseteq lines' /\ wpc[w] # "gone"
  BY <1>t DEF WorkerStep, Hand, Put, Index, Quit, Leave, ResultError, ResultGood, results,
              dispatcher, WorkerAt
<1>r. handler = "receive" /\ disp # "gone" /\ outcome # "finished"
  BY <1>u DEF WholeInv, EndedInv
<1>1. SegmentsNumbered'
  <2> USE DEF WholeInv, SegmentsNumbered, WorkerAt, WorkerGoto
  <2>1. CASE Hand(w)
    BY <2>1, <1>t DEF Hand
  <2>2. CASE Put(w)
    BY <2>2, <1>t DEF Put, dispatcher
  <2>3. CASE Index(w) \/ Quit(w) \/ Leave(w)
    BY <2>3, <1>t DEF Index, Quit, Leave, dispatcher
  <2>4. CASE ResultError(w) \/ ResultGood(w)
    BY <2>4, <1>t DEF ResultError, ResultGood, dispatcher
  <2> QED
    BY <2>1, <2>2, <2>3, <2>4 DEF WorkerStep
<1>2. ASSUME Clean' PROVE CleanUpload'
  <2>1. Clean
    BY <1>2 DEF Clean, WorkerStep, Hand, Put, Index, Quit, Leave, ResultError, ResultGood,
                NoteError, NoteProgress
  <2>2. CleanUpload
    BY <2>1, <1>r DEF WholeInv
  <2> USE DEF CleanUpload, WorkerAt, WorkerGoto
  <2>3. CASE Hand(w)
    <3>1. ASSUME NEW s \in 1..next PROVE s \in lines' \cap inPlace' \/ InHand(s)'
      BY <2>3, <2>2, <1>t DEF Hand, InHand, results
    <3> QED
      BY <2>3, <2>2, <3>1, <1>t DEF Hand
  <2>4. CASE Put(w)
    <3>1. ASSUME NEW s \in 1..next PROVE s \in lines' \cap inPlace' \/ InHand(s)'
      BY <2>4, <2>2, <1>t, <1>u DEF Put, InHand, dispatcher
    <3> QED
      BY <2>4, <2>2, <3>1, <1>t DEF Put, dispatcher
  <2>5. CASE Index(w) \/ Leave(w)
    <3>1. ASSUME NEW s \in 1..next PROVE s \in lines' \cap inPlace' \/ InHand(s)'
      BY <2>5, <2>2, <1>t DEF Index, Leave, InHand, dispatcher, results
    <3> QED
      BY <2>5, <2>2, <3>1, <1>t DEF Index, Leave, dispatcher
  <2>6. CASE ResultGood(w)
    <3>1. ASSUME NEW s \in 1..next PROVE s \in lines' \cap inPlace' \/ InHand(s)'
      BY <2>6, <2>2, <1>t DEF ResultGood, InHand, dispatcher, results
    <3>2. live' = live
      BY <2>6, <1>2 DEF ResultGood, NoteProgress, Clean
    <3> QED
      BY <2>6, <2>2, <3>1, <3>2, <1>t DEF ResultGood, dispatcher
  <2>7. CASE ResultError(w)
    BY <2>7, <1>2 DEF ResultError, NoteError, Clean
  <2>8. CASE Quit(w)
    BY <2>8, <2>2 DEF Quit
  <2> QED
    BY <2>3, <2>4, <2>5, <2>6, <2>7, <2>8 DEF WorkerStep
<1> QED
  BY <1>1, <1>2, <1>r, <1>u DEF WholeInv

(* The handler's own steps and the client's.                               *)
LEMMA WholeHandler ==
  ASSUME WholeInv, EndedInv', HandlerStep \/ Disconnect
  PROVE  WholeInv'
<1>t. PipelineTypeOK /\ PipelineTypeOK'
  BY DEF WholeInv, EndedInv
<1>1. CASE ResultIterator
  <2>1. ~Clean'
    BY <1>1 DEF ResultIterator, NoteError, Clean
  <2> QED
    BY <1>1, <2>1 DEF ResultIterator, WholeInv, SegmentsNumbered, results, workers, Receiving,
                      Whole
<1>2. CASE Drained
  <2>1. UNCHANGED <<dispatcher, workers, errs, objects, lines, results>> /\ disp = "gone"
        /\ handler = "receive" /\ handler' \in {"finish", "cleanup"}
        /\ (handler' = "finish" => errs = {}) /\ live' = live \ {"upload"}
    BY <1>2 DEF Drained, Receiving
  <2>2. Clean' /\ handler' = "finish" => CleanUpload'
    BY <2>1 DEF WholeInv, Clean, CleanUpload, InHand, dispatcher, workers, results
  <2> QED
    BY <2>1, <2>2 DEF WholeInv, SegmentsNumbered, dispatcher, workers, results, Whole
<1>3. CASE Finish
  <2>1. CASE handler' = "cleanup"
    BY <1>3, <2>1 DEF Finish, WholeInv, SegmentsNumbered, dispatcher, workers
  <2>2. CASE handler' = "announce"
    <3>1. "request" \in live /\ handler = "finish" /\ inPlace' = inPlace \cup {ManifestObject}
          /\ UNCHANGED <<dispatcher, workers, lines, outcome>>
      BY <1>3, <2>2 DEF Finish
    <3>2. CleanUpload /\ Asset \in inPlace /\ SegmentsNumbered /\ outcome # "finished"
      BY <3>1 DEF WholeInv, Clean
    <3>3. disp = "gone" /\ \A w \in Workers : wpc[w] = "gone"
      BY <3>1 DEF WholeInv, EndedInv
    <3>4. 1..next \subseteq lines \cap inPlace /\ (media = "video" => next = NSegs)
      BY <3>2, <3>3 DEF CleanUpload, InHand
    <3>5. Whole'
      BY <3>1, <3>2, <3>4 DEF Whole, dispatcher
    <3> QED
      BY <3>1, <3>2, <3>5, <2>2 DEF WholeInv, SegmentsNumbered, dispatcher, workers
  <2> QED
    BY <1>3, <2>1, <2>2 DEF Finish
<1>4. CASE SendFinal
  BY <1>4 DEF SendFinal, WholeInv, SegmentsNumbered, dispatcher, workers, Whole
<1>5. CASE Cleanup
  BY <1>5 DEF Cleanup, WholeInv, SegmentsNumbered, dispatcher, workers
<1>6. CASE Disconnect
  BY <1>6 DEF Disconnect, WholeInv, SegmentsNumbered, dispatcher, workers, Clean, Whole, results
<1> QED
  BY <1>1, <1>2, <1>3, <1>4, <1>5, <1>6 DEF HandlerStep

(* Every step keeps it.                                                    *)
LEMMA WholeStep == WholeInv /\ [PipelineNext]_pipelineVars => WholeInv'
<1> SUFFICES ASSUME WholeInv, [PipelineNext]_pipelineVars PROVE WholeInv'
  OBVIOUS
<1>t. EndedInv'
  BY EndedStep DEF WholeInv
<1>1. CASE UNCHANGED pipelineVars
  BY <1>1, <1>t DEF pipelineVars, WholeInv, SegmentsNumbered, Clean, CleanUpload, InHand, Whole,
                    dispatcher, workers, results
<1> QED
  BY <1>1, <1>t, WholeDispatcher, WholeWorker, WholeHandler DEF PipelineNext, Ended

(* Nothing has been yielded at the start.                                  *)
LEMMA WholeInit == PipelineInit => WholeInv
BY EndedInit DEF PipelineInit, WholeInv, SegmentsNumbered, Clean, CleanUpload, Contexts, Segs

(* For any number of workers and segments: an ingest that was answered     *)
(* "finished" has every segment that was yielded stored and listed, and of *)
(* a video all there are, though a client that goes away may stop the      *)
(* dispatcher early without any error.                                     *)
THEOREM FinishedIngestIsWhole == PipelineSpec => []FinishedIsWhole
<1>1. WholeInv => FinishedIsWhole
  BY DEF WholeInv, FinishedIsWhole, Whole
<1> QED
  BY <1>1, WholeInit, WholeStep, PTL DEF PipelineSpec

-----------------------------------------------------------------------------
(* The jobs and the requests of the page *)

(* The functions that write, and all of them; what a listing of a          *)
(* directory can be.                                                       *)
Writes == {"create", "upload", "rename", "move", "delete"}
JobKinds == Writes \cup {"load", "add", "none"}
Listings == SUBSET (Entries \X {"old", "new"})

(* A function under way, and a request for a listing.                      *)
Jobs == [kind : JobKinds, e : Entries \cup {Root}, to : Places, dir : Places,
         phase : {"asked", "answered", "fetching", "walking", "adding", "spent"},
         todo : SUBSET Files, kept : SUBSET Files]
Requests == [by : Calls, dir : Places, got : Listings, served : BOOLEAN, fresh : BOOLEAN]

(* A function of the page goes through the phases of its kind.             *)
Shaped(j) ==
  /\ j.kind = "none" => j.phase = "asked"
  /\ j.kind \in Writes => j.phase \in {"asked", "answered", "fetching"}
  /\ j.kind = "load" => j.phase = "fetching"
  /\ j.kind = "add" => j.phase \in {"walking", "adding", "spent"}
  /\ j.kind \in {"create", "upload"} => j.to = j.dir
  /\ j.kind \in {"rename", "move", "delete"} => j.e \in Entries

(* The server's tree, and every function of the page, are of their shape.  *)
JobsShaped ==
  /\ parent \in [Entries -> Places \cup {Unborn, Gone}]
  /\ name \in [Entries -> {"old", "new"}]
  /\ job \in [Calls -> Jobs]
  /\ \A s \in Calls : Shaped(job[s])

(* What is requested is awaited by a function, and but for a walk one      *)
(* listing at a time.                                                      *)
Awaited(f, j) ==
  /\ j.kind # "none"
  /\ j.kind # "add" => j.phase = "fetching" /\ j.dir = f.dir
  /\ j.kind = "add" => f.dir \in Dirs /\ (j.phase = "walking" \/ (j.phase = "spent" /\ j.todo = {}))

(* No request is under way that nothing awaits, and no second one of a     *)
(* function that is not a walk.                                            *)
FetchesAwaited ==
  /\ fetches \subseteq Requests
  /\ \A f \in fetches : Awaited(f, job[f.by])
  /\ \A f, g \in fetches : f.by = g.by /\ job[f.by].kind # "add" => f = g

(* The page knows no id that the server has not given out.                 *)
Unseen == {e \in Entries : parent[e] = Unborn}
(* What a dialog is about has been seen in a listing, or is the open       *)
(* directory.                                                              *)
DialogKnown(about) ==
  /\ about.e \in (Entries \cup {Root}) \ Unseen
  /\ about.kind \in {"create", "upload"} => about.e \in Places
  /\ about.kind \in {"rename", "move", "delete"} => about.e \in Entries
ViewKnown == path \in Seq(Dirs \ Unseen) /\ DialogKnown(dialog)

(* ... nor has any function, request, answer or listing that is kept.      *)
IdsKnown ==
  /\ \A s \in Calls : job[s].dir \notin Unseen
  /\ \A f \in fetches : f.dir \notin Unseen /\ Ids(f.got) \cap Unseen = {}
  /\ \A d \in DOMAIN snapshots : d \in Places /\ snapshots[d] \in Listings
  /\ \A d \in DOMAIN snapshots : d \notin Unseen /\ Ids(snapshots[d]) \cap Unseen = {}

(* The ids of two entries that are being created differ: no function has   *)
(* taken the id of another.                                                *)
Makes(j) == j.kind \in {"create", "upload"} /\ j.phase = "asked"
Creating(s) == Makes(job[s])
CreationsApart ==
  /\ \A s \in Calls : Creating(s) => job[s].e \in Entries /\ parent[job[s].e] = Unborn
  /\ \A s, t \in Calls : Creating(s) /\ Creating(t) /\ job[s].e = job[t].e => s = t

(* An asset a walk is to find is found, or in what one of its fetches is   *)
(* to list or has listed.                                                  *)
InReach(a, f) == IF f.served THEN \E c \in Ids(f.got) : a \in Below(c) ELSE a \in Below(f.dir)
WalkCovers(s) ==
  job[s].kind = "add" =>
    /\ job[s].phase = "walking" =>
         \A a \in job[s].kept \ job[s].todo : \E f \in fetches : f.by = s /\ InReach(a, f)
    /\ job[s].phase = "adding" => job[s].kept \subseteq job[s].todo \cup used
WalksCover == \A s \in Calls : WalkCovers(s)

(* A function that is going to list a directory after its write, and one   *)
(* whose listing has not been made yet.                                    *)
Lists(j, d) == j.kind \in Writes /\ j.dir = d
Owed(d) == \E s \in Calls : Lists(job[s], d) /\ job[s].phase \in {"answered", "fetching"}
OwedAnew(d) ==
  \E s \in Calls :
    /\ Lists(job[s], d)
    /\ \/ job[s].phase = "answered"
       \/ job[s].phase = "fetching" /\ \E g \in fetches : g.by = s /\ ~g.served

(* A listing that is out of date without an excuse is going to be made     *)
(* again.                                                                  *)
CacheOwed ==
  \A d \in DOMAIN snapshots \ excused : CanHold(d) => snapshots[d] = Listing(d) \/ Owed(d)
AnswersOwed ==
  \A f \in fetches :
    f.served /\ f.fresh /\ CanHold(f.dir) => f.got = Listing(f.dir) \/ OwedAnew(f.dir)

(* The inductive invariant of the files page.                              *)
PageInv ==
  /\ JobsShaped /\ FetchesAwaited /\ ViewKnown /\ IdsKnown /\ CreationsApart
  /\ WalksCover /\ CacheOwed /\ AnswersOwed /\ LoadingIsTold

-----------------------------------------------------------------------------
(* What is below a directory *)

USE IdsAssumption

(* An entry is below itself, and what is in something below it too.        *)
LEMMA BelowClosed ==
  ASSUME NEW d \in Entries
  PROVE  Below(d) \subseteq Entries /\ d \in Below(d) /\ Closed(Below(d))
<1>1. d \in Below(d) /\ Below(d) \subseteq Entries
  BY DEF Below
<1>2. ASSUME NEW x \in Entries, parent[x] \in Below(d) PROVE x \in Below(d)
  <2>1. ASSUME NEW S \in SUBSET Entries, d \in S, Closed(S) PROVE x \in S
    BY <1>2, <2>1 DEF Below, Closed
  <2> QED
    BY <2>1 DEF Below
<1> QED
  BY <1>1, <1>2 DEF Closed

(* What is below an entry and is not the entry is in something below it.   *)
LEMMA BelowParent ==
  ASSUME NEW d \in Entries, NEW x \in Below(d), x # d
  PROVE  parent[x] \in Below(d)
<1> DEFINE T == {y \in Below(d) : y = d \/ parent[y] \in Below(d)}
<1>1. T \in SUBSET Entries /\ d \in T
  BY BelowClosed
<1>2. Closed(T)
  BY BelowClosed DEF Closed
<1> QED
  BY <1>1, <1>2 DEF Below

(* ... and is below something that is in the entry.                        *)
LEMMA BelowChild ==
  ASSUME NEW d \in Entries, NEW a \in Below(d), a # d
  PROVE  \E c \in Entries : parent[c] = d /\ a \in Below(c)
<1> DEFINE T == {d} \cup {y \in Entries : \E c \in Entries : parent[c] = d /\ y \in Below(c)}
<1>1. T \in SUBSET Entries /\ d \in T
  OBVIOUS
<1>2. Closed(T)
  <2>1. ASSUME NEW y \in Entries, parent[y] = d PROVE y \in T
    BY <2>1, BelowClosed
  <2>2. ASSUME NEW y \in Entries, NEW c \in Entries, parent[c] = d, parent[y] \in Below(c)
        PROVE  y \in T
    BY <2>2, BelowClosed DEF Closed
  <2> QED
    BY <2>1, <2>2 DEF Closed
<1>3. a \in T
  BY <1>1, <1>2 DEF Below
<1> QED
  BY <1>3

(* Nothing is in an asset.                                                 *)
LEMMA BelowFile ==
  ASSUME JobsShaped, NEW c \in Files
  PROVE  Below(c) = {c}
<1>1. \A x \in Entries : parent[x] # c
  BY DEF JobsShaped, Entries, Places
<1>2. Closed({c}) /\ {c} \in SUBSET Entries
  BY <1>1 DEF Closed, Entries
<1> QED
  BY <1>2, BelowClosed DEF Below, Entries

(* A step of the server that changes the parents of some entries, and of   *)
(* what is in them, and of entries that were in nothing.                   *)
Moves(moved) ==
  /\ moved \subseteq Entries /\ Closed(moved)
  /\ \A x \in Entries \ moved : parent'[x] = parent[x] \/ parent[x] \notin Entries

(* What it does not move stays below what it was below.                    *)
LEMMA BelowStays ==
  ASSUME NEW moved, Moves(moved), NEW d \in Entries, NEW a \in Below(d), a \notin moved
  PROVE  a \in Below(d)'
<1>1. ASSUME NEW S \in SUBSET Entries, d \in S, \A x \in Entries : parent'[x] \in S => x \in S
      PROVE  a \in S
  <2>1. Closed(S \cup moved) /\ S \cup moved \in SUBSET Entries
    BY <1>1 DEF Closed, Moves
  <2> QED
    BY <1>1, <2>1 DEF Below
<1>2. a \in Entries
  BY DEF Below
<1> QED
  BY <1>1, <1>2 DEF Below, Closed

-----------------------------------------------------------------------------
(* Walks *)

(* A step that goes on with no walk of s, but may end it or move entries.  *)
WalkKept(s, moved) ==
  /\ used \subseteq used'
  /\ job'[s].kind = "add" /\ job'[s].phase \in {"walking", "adding"} =>
         /\ job[s].kind = "add" /\ job[s].phase = job'[s].phase
         /\ job'[s].kept \subseteq job[s].kept \ moved
         /\ job[s].todo \subseteq job'[s].todo \cup IF job[s].phase = "adding" THEN used' ELSE {}
  /\ job'[s].kind = "add" /\ job'[s].phase = "walking" =>
       \A f \in fetches : f.by = s =>
         \E g \in fetches' : g.by = s /\ g.dir = f.dir /\ g.got = f.got /\ g.served = f.served

(* Such a step leaves all the walk is to find within its reach.            *)
LEMMA WalkStep ==
  ASSUME FetchesAwaited, NEW s \in Calls, WalkCovers(s), NEW moved, Moves(moved), WalkKept(s, moved)
  PROVE  WalkCovers(s)'
<1> SUFFICES ASSUME job'[s].kind = "add"
             PROVE  /\ job'[s].phase = "walking" =>
                         \A a \in job'[s].kept \ job'[s].todo :
                           \E g \in fetches' : g.by = s /\ InReach(a, g)'
                    /\ job'[s].phase = "adding" => job'[s].kept \subseteq job'[s].todo \cup used'
  BY DEF WalkCovers
<1>1. ASSUME job'[s].phase = "walking", NEW a \in job'[s].kept, a \notin job'[s].todo
      PROVE  \E g \in fetches' : g.by = s /\ InReach(a, g)'
  <2>1. job[s].kind = "add" /\ job[s].phase = "walking" /\ a \in job[s].kept /\ a \notin moved
        /\ a \notin job[s].todo
    BY <1>1 DEF WalkKept
  <2>2. PICK f \in fetches : f.by = s /\ InReach(a, f)
    BY <2>1 DEF WalkCovers
  <2>3. PICK g \in fetches' : g.by = s /\ g.dir = f.dir /\ g.got = f.got /\ g.served = f.served
    BY <1>1, <2>2 DEF WalkKept
  <2>4. f.dir \in Dirs /\ f.got \in Listings
    BY <2>1, <2>2 DEF FetchesAwaited, Awaited, Requests
  <2>5. CASE f.served
    <3>1. PICK c \in Ids(f.got) : a \in Below(c)
      BY <2>2, <2>5 DEF InReach
    <3>2. c \in Entries
      BY <2>4 DEF Ids, Listings
    <3>3. a \in Below(c)'
      BY <2>1, <3>1, <3>2, BelowStays
    <3> QED
      BY <2>3, <2>5, <3>1, <3>3 DEF InReach
  <2>6. CASE ~f.served
    <3>1. a \in Below(f.dir)'
      BY <2>1, <2>2, <2>4, <2>6, BelowStays DEF InReach, Entries
    <3> QED
      BY <2>3, <2>6, <3>1 DEF InReach
  <2> QED
    BY <2>5, <2>6
<1>2. ASSUME job'[s].phase = "adding" PROVE job'[s].kept \subseteq job'[s].todo \cup used'
  <2>1. job[s].kind = "add" /\ job[s].phase = "adding" /\ job'[s].kept \subseteq job[s].kept
        /\ job[s].todo \subseteq job'[s].todo \cup used'
    BY <1>2 DEF WalkKept
  <2>2. job[s].kept \subseteq job[s].todo \cup used
    BY <2>1 DEF WalkCovers
  <2> QED
    BY <2>1, <2>2 DEF WalkKept
<1> QED
  BY <1>1, <1>2

(* Entries that were in nothing are moved out of nothing.                  *)
LEMMA NothingMoves ==
  ASSUME \A x \in Entries : parent'[x] = parent[x] \/ parent[x] \notin Entries
  PROVE  Moves({})
BY DEF Moves, Closed

-----------------------------------------------------------------------------
(* Listings *)

(* What is going to be listed from now on is going to be listed.           *)
LEMMA AnewIsOwed == \A d : OwedAnew(d) => Owed(d)
BY DEF Owed, OwedAnew

(* A step that keeps no listing, and excuses P.                            *)
ListingsKept(P) ==
  /\ snapshots' = snapshots /\ excused' = excused \cup P
  /\ \A d \in Places \ Unseen : CanHold(d)' /\ d \notin P =>
       CanHold(d) /\ (Listing(d)' = Listing(d) \/ OwedAnew(d)')
  /\ \A d \in Places \ P : (Owed(d) => Owed(d)') /\ (OwedAnew(d) => OwedAnew(d)')
  /\ \A g \in fetches' : g.served /\ g.fresh =>
       /\ g.dir \notin P
       /\ \E f \in fetches : f.served /\ f.fresh /\ f.dir = g.dir /\ f.got = g.got

(* ... so that what is out of date stays excused, or owed.                 *)
LEMMA ListingsStep ==
  ASSUME FetchesAwaited, IdsKnown, CacheOwed, AnswersOwed, NEW P, ListingsKept(P)
  PROVE  CacheOwed' /\ AnswersOwed'
<1>1. ASSUME NEW d \in DOMAIN snapshots', d \notin excused', CanHold(d)'
      PROVE  snapshots'[d] = Listing(d)' \/ Owed(d)'
  <2>1. d \in DOMAIN snapshots /\ d \notin excused /\ d \notin P /\ d \in Places \ Unseen
        /\ snapshots'[d] = snapshots[d]
    BY <1>1 DEF ListingsKept, IdsKnown
  <2>2. CanHold(d) /\ (Listing(d)' = Listing(d) \/ OwedAnew(d)') /\ (Owed(d) => Owed(d)')
    BY <1>1, <2>1 DEF ListingsKept
  <2>3. OwedAnew(d)' => Owed(d)'
    BY DEF Owed, OwedAnew
  <2>4. snapshots[d] = Listing(d) \/ Owed(d)
    BY <2>1, <2>2 DEF CacheOwed
  <2> QED
    BY <2>1, <2>2, <2>3, <2>4
<1>2. ASSUME NEW g \in fetches', g.served, g.fresh, CanHold(g.dir)'
      PROVE  g.got = Listing(g.dir)' \/ OwedAnew(g.dir)'
  <2>1. g.dir \notin P
    BY <1>2 DEF ListingsKept
  <2>2. PICK f \in fetches : f.served /\ f.fresh /\ f.dir = g.dir /\ f.got = g.got
    BY <1>2 DEF ListingsKept
  <2>3. f.dir \in Places \ Unseen
    BY <2>2 DEF FetchesAwaited, Requests, IdsKnown
  <2>4. CanHold(f.dir) /\ (Listing(f.dir)' = Listing(f.dir) \/ OwedAnew(f.dir)')
        /\ (OwedAnew(f.dir) => OwedAnew(f.dir)')
    BY <1>2, <2>1, <2>2, <2>3 DEF ListingsKept
  <2>5. f.got = Listing(f.dir) \/ OwedAnew(f.dir)
    BY <2>2, <2>4 DEF AnswersOwed
  <2> QED
    BY <2>2, <2>4, <2>5
<1> QED
  BY <1>1, <1>2 DEF CacheOwed, AnswersOwed

(* A listing shows what is in the directory, and its name.                 *)
LEMMA ListingStays ==
  ASSUME NEW d, \A x \in Entries : parent'[x] = d <=> parent[x] = d,
         \A x \in Entries : parent[x] = d => name'[x] = name[x]
  PROVE  Listing(d)' = Listing(d)
<1>1. {x \in Entries : parent'[x] = d} = {x \in Entries : parent[x] = d}
  OBVIOUS
<1>2. \A z : z \in Listing(d)' <=> z \in Listing(d)
  BY <1>1 DEF Listing
<1> QED
  BY <1>2 DEF Listing

(* The requests and the jobs that the debts are made of stay.              *)
DebtsKept(P) ==
  /\ \A s \in Calls :
       (/\ Lists(job[s], job[s].dir) /\ job[s].dir \notin P
        /\ job[s].phase \in {"answered", "fetching"}) =>
         /\ job'[s].kind = job[s].kind /\ job'[s].dir = job[s].dir
         /\ \/ job'[s].phase = job[s].phase
            \/ job'[s].phase = "fetching" /\ \E g \in fetches' : g.by = s /\ ~g.served
  /\ \A g \in fetches : ~g.served /\ g.dir \notin P /\ Lists(job[g.by], g.dir) =>
       \E h \in fetches' : h.by = g.by /\ ~h.served

(* ... so that no debt is lost outside P.                                  *)
LEMMA DebtsStay ==
  ASSUME FetchesAwaited, NEW P, DebtsKept(P), NEW d, d \notin P
  PROVE  (Owed(d) => Owed(d)') /\ (OwedAnew(d) => OwedAnew(d)')
<1>1. ASSUME Owed(d) PROVE Owed(d)'
  <2>1. PICK s \in Calls : Lists(job[s], d) /\ job[s].phase \in {"answered", "fetching"}
    BY <1>1 DEF Owed
  <2>2. job'[s].kind = job[s].kind /\ job'[s].dir = job[s].dir
        /\ job'[s].phase \in {"answered", "fetching"}
    BY <2>1 DEF DebtsKept, Lists
  <2> QED
    BY <2>1, <2>2 DEF Owed, Lists
<1>2. ASSUME OwedAnew(d) PROVE OwedAnew(d)'
  <2>1. PICK s \in Calls :
          /\ Lists(job[s], d)
          /\ \/ job[s].phase = "answered"
             \/ job[s].phase = "fetching" /\ \E g \in fetches : g.by = s /\ ~g.served
    BY <1>2 DEF OwedAnew
  <2>2. job'[s].kind = job[s].kind /\ job'[s].dir = job[s].dir
        /\ \/ job'[s].phase = job[s].phase
           \/ job'[s].phase = "fetching" /\ \E g \in fetches' : g.by = s /\ ~g.served
    BY <2>1 DEF DebtsKept, Lists
  <2>3. Lists(job'[s], d)
    BY <2>1, <2>2 DEF Lists
  <2>4. CASE job[s].phase = "answered"
    BY <2>2, <2>3, <2>4 DEF OwedAnew
  <2>5. CASE job[s].phase = "fetching"
    <3>1. PICK g \in fetches : g.by = s /\ ~g.served
      BY <2>1, <2>5
    <3>2. g.dir = d /\ Lists(job[g.by], g.dir)
      BY <2>1, <3>1 DEF FetchesAwaited, Awaited, Lists, Writes
    <3>3. PICK h \in fetches' : h.by = s /\ ~h.served
      BY <3>1, <3>2 DEF DebtsKept
    <3> QED
      BY <2>2, <2>3, <2>5, <3>3 DEF OwedAnew
  <2> QED
    BY <2>1, <2>4, <2>5
<1> QED
  BY <1>1, <1>2

-----------------------------------------------------------------------------
(* What the user does *)

(* A path of some directories is a path of more of them.                   *)
LEMMA LongerSet ==
  ASSUME NEW A, NEW B, A \subseteq B, NEW q \in Seq(A)
  PROVE  q \in Seq(B)
<1>1. q \in [1 .. Len(q) -> A]
  OBVIOUS
<1> QED
  BY <1>1

(* The open directory is the root, or has been seen.                       *)
LEMMA HereKnown ==
  ASSUME ViewKnown
  PROVE  Here \in Places /\ Here \notin Unseen
<1>1. CASE path = <<>>
  BY <1>1 DEF Here, Places, Unseen
<1>2. CASE path # <<>>
  <2>1. path[Len(path)] \in Dirs \ Unseen
    BY <1>2 DEF ViewKnown
  <2> QED
    BY <1>2, <2>1 DEF Here, Places, Last
<1> QED
  BY <1>1, <1>2

(* What the page shows has been seen.                                      *)
LEMMA ShownKnown ==
  ASSUME IdsKnown
  PROVE  Shown \subseteq Entries \ Unseen
BY DEF Shown, IdsKnown, Listings, Ids

(* The user chooses among what is shown.                                   *)
LEMMA CardKnown ==
  ASSUME ViewKnown, IdsKnown, NEW e \in Shown, NEW dropdown, ThroughCard(e, dropdown)
  PROVE  path' \in Seq(Dirs \ Unseen)
<1>1. e \in Entries \ Unseen
  BY ShownKnown
<1>2. CASE dropdown /\ e \in Dirs
  <2>1. path' = Append(path, e)
    BY <1>2 DEF ThroughCard, GoTo
  <2> QED
    BY <1>1, <1>2, <2>1 DEF ViewKnown
<1>3. CASE ~(dropdown /\ e \in Dirs)
  BY <1>3 DEF ThroughCard, ViewKnown
<1> QED
  BY <1>2, <1>3

(* What the page knows stays known when the server gives out more.         *)
LEMMA ViewStays ==
  ASSUME ViewKnown, Unseen' \subseteq Unseen, path' \in Seq(Dirs \ Unseen),
         dialog' \in {dialog, None} \/ DialogKnown(dialog')
  PROVE  ViewKnown'
<1>1. path' \in Seq(Dirs \ Unseen')
  BY LongerSet
<1>2. Root \notin Unseen
  BY DEF Unseen
<1>3. DialogKnown(None)
  BY <1>2 DEF DialogKnown, None, About
<1>4. DialogKnown(dialog')
  BY <1>3 DEF ViewKnown
<1>5. DialogKnown(dialog)'
  BY <1>4 DEF DialogKnown
<1> QED
  BY <1>1, <1>5 DEF ViewKnown

(* A step of the user that changes only what is looked at.                 *)
Quiet == UNCHANGED <<server, snapshots, job, fetches, excused>>

(* ... keeps all that PageInv says of the rest.                            *)
LEMMA QuietStep ==
  ASSUME PageInv, Quiet
  PROVE  /\ JobsShaped' /\ FetchesAwaited' /\ IdsKnown' /\ CreationsApart'
         /\ WalksCover' /\ CacheOwed' /\ AnswersOwed' /\ Unseen' = Unseen
<1> USE DEF Quiet, server
<1>1. JobsShaped' /\ FetchesAwaited' /\ CreationsApart'
  BY DEF PageInv, JobsShaped, FetchesAwaited, CreationsApart, Creating
<1>2. Unseen' = Unseen
  BY DEF Unseen
<1>3. IdsKnown'
  BY <1>2 DEF PageInv, IdsKnown
<1>4. \A d : Below(d)' = Below(d) /\ CanHold(d)' = CanHold(d) /\ Listing(d)' = Listing(d)
             /\ Owed(d)' = Owed(d) /\ OwedAnew(d)' = OwedAnew(d)
  BY DEF Below, Closed, CanHold, Exists, Listing, Owed, OwedAnew
<1>5. WalksCover'
  BY <1>4 DEF PageInv, WalksCover, WalkCovers, InReach
<1>6. CacheOwed' /\ AnswersOwed'
  BY <1>4 DEF PageInv, CacheOwed, AnswersOwed
<1> QED
  BY <1>1, <1>2, <1>3, <1>5, <1>6

(* Going to another directory, and opening a dialog of a card.             *)
LEMMA Browsing ==
  ASSUME PageInv,
         \/ \E e \in Entries : OpenDirectory(e)
         \/ \E n \in 0 .. MaxDepth : NavigateTo(n)
         \/ \E e \in Entries, dropdown \in BOOLEAN,
               kind \in {"create", "upload", "rename", "move", "delete"} :
              OpenDialog(kind, e, dropdown)
         \/ \E kind \in {"create", "upload"} : OpenHere(kind)
         \/ CloseDialog \/ CloseError
  PROVE  PageInv'
<1> USE DEF Still, About
<1>q. Quiet /\ loader' = loader /\ loading' = loading
  BY DEF Quiet, OpenDirectory, NavigateTo, OpenDialog, OpenHere, CloseDialog, CloseError
<1>v. ViewKnown'
  <2>1. ASSUME NEW e \in Entries, OpenDirectory(e) PROVE ViewKnown'
    <3>1. e \in Dirs \ Unseen /\ path' = Append(path, e) /\ dialog' = dialog
      BY <2>1, ShownKnown DEF OpenDirectory, GoTo, PageInv
    <3>2. path' \in Seq(Dirs \ Unseen)
      BY <3>1 DEF PageInv, ViewKnown
    <3> QED
      BY <1>q, <3>1, <3>2, QuietStep, ViewStays DEF PageInv
  <2>2. ASSUME NEW n \in 0 .. MaxDepth, NavigateTo(n) PROVE ViewKnown'
    <3>1. n < Len(path) /\ path' = SubSeq(path, 1, n) /\ dialog' = dialog
      BY <2>2 DEF NavigateTo, GoTo
    <3>2. path' \in Seq(Dirs \ Unseen)
      BY <3>1, SubSeqProperties DEF PageInv, ViewKnown
    <3> QED
      BY <1>q, <3>1, <3>2, QuietStep, ViewStays DEF PageInv
  <2>3. ASSUME NEW e \in Entries, NEW dropdown \in BOOLEAN,
               NEW kind \in {"create", "upload", "rename", "move", "delete"},
               OpenDialog(kind, e, dropdown)
        PROVE  ViewKnown'
    <3>1. e \in Shown /\ e \in Entries \ Unseen /\ dialog' = [kind |-> kind, e |-> e]
          /\ (kind \in {"create", "upload"} => e \in Dirs) /\ ThroughCard(e, dropdown)
      BY <2>3, ShownKnown DEF OpenDialog, PageInv
    <3>2. path' \in Seq(Dirs \ Unseen)
      BY <3>1, CardKnown DEF PageInv
    <3> QED
      BY <1>q, <3>1, <3>2, QuietStep, ViewStays DEF PageInv, Places, DialogKnown
  <2>4. ASSUME NEW kind \in {"create", "upload"}, OpenHere(kind) PROVE ViewKnown'
    <3>1. dialog' = [kind |-> kind, e |-> Here] /\ path' = path
      BY <2>4 DEF OpenHere
    <3>2. Here \in Places /\ Here \notin Unseen /\ path' \in Seq(Dirs \ Unseen)
      BY <3>1, HereKnown DEF PageInv, ViewKnown
    <3> QED
      BY <1>q, <3>1, <3>2, QuietStep, ViewStays DEF PageInv, Places, Entries, DialogKnown
  <2>5. CASE CloseDialog \/ CloseError
    <3>1. path' = path /\ dialog' \in {dialog, None}
      BY <2>5 DEF CloseDialog, CloseError, view
    <3> QED
      BY <1>q, <3>1, QuietStep, ViewStays DEF PageInv, ViewKnown
  <2> QED
    BY <2>1, <2>2, <2>3, <2>4, <2>5
<1>l. LoadingIsTold'
  BY <1>q DEF PageInv, LoadingIsTold
<1> QED
  BY <1>q, <1>v, <1>l, QuietStep DEF PageInv

-----------------------------------------------------------------------------
(* A function starts, or goes on to its fetch. *)

(* A function that is idle, or awaits something else, awaits no listing.   *)
LEMMA NoFetch ==
  ASSUME FetchesAwaited, JobsShaped, NEW s \in Calls,
         Free(s) \/ job[s].phase \in {"asked", "answered", "adding"},
         NEW f \in fetches
  PROVE  f.by # s
BY DEF FetchesAwaited, Awaited, JobsShaped, Shaped, Free

(* The slot s gets the function j, which may request the listing of d,     *)
(* whether it is new or has written.                                       *)
Launched(s, j, d) ==
  /\ job' = [job EXCEPT ![s] = j] /\ j \in Jobs /\ Shaped(j) /\ j.dir \notin Unseen
  /\ \/ Free(s)
     \/ /\ job[s].phase = "answered" /\ j.phase = "fetching" /\ Request(s, d) \in fetches'
        /\ j.kind = job[s].kind /\ j.dir = job[s].dir
  /\ d \in Places \ Unseen
  /\ \/ fetches' = fetches
     \/ fetches' = fetches \cup {Request(s, d)} /\ Awaited(Request(s, d), j)
  /\ parent' \in [Entries -> Places \cup {Unborn, Gone}] /\ Unseen' \subseteq Unseen
  /\ name' = name /\ snapshots' = snapshots /\ excused' = excused /\ used' = used

(* ... after which the others are as they were, and so are the debts.      *)
LEMMA LaunchKeeps ==
  ASSUME PageInv, NEW s \in Calls, NEW j, NEW d, Launched(s, j, d)
  PROVE  /\ JobsShaped' /\ FetchesAwaited' /\ IdsKnown' /\ DebtsKept({})
         /\ \A t \in Calls \ {s} : job'[t] = job[t]
         /\ job'[s] = j
         /\ fetches \subseteq fetches' /\ \A g \in fetches' : g.served => g \in fetches
         /\ \A f \in fetches : f.by # s
<1>1. job \in [Calls -> Jobs]
  BY DEF PageInv, JobsShaped
<1>2. job'[s] = j /\ \A t \in Calls \ {s} : job'[t] = job[t]
  BY <1>1 DEF Launched
<1>3. JobsShaped'
  BY <1>1, <1>2 DEF Launched, JobsShaped, PageInv
<1>4. Request(s, d) \in Requests /\ ~Request(s, d).served /\ Request(s, d).by = s
      /\ Request(s, d).dir = d /\ Request(s, d).got = {}
  BY DEF Launched, Request, Requests, Listings
<1>5. \A f \in fetches : f.by # s
  BY NoFetch DEF Launched, PageInv
<1>6. fetches \subseteq fetches' /\ (\A g \in fetches' : g \in fetches \/ g = Request(s, d))
      /\ \A g \in fetches' : g.served => g \in fetches
  BY <1>4 DEF Launched
<1>7. fetches \subseteq Requests
  BY DEF PageInv, FetchesAwaited
<1>8. \A f \in fetches : f.by \in Calls \ {s}
  BY <1>5, <1>7 DEF Requests
<1>9. FetchesAwaited'
  <2>1. fetches' \subseteq Requests
    BY <1>4, <1>6, <1>7
  <2>2. ASSUME NEW f \in fetches' PROVE Awaited(f, job'[f.by])
    <3>1. CASE f \in fetches
      <4>1. job'[f.by] = job[f.by] /\ Awaited(f, job[f.by])
        BY <1>2, <1>8, <3>1 DEF PageInv, FetchesAwaited
      <4> QED
        BY <4>1
    <3>2. CASE f \notin fetches
      BY <1>2, <1>4, <1>6, <3>2 DEF Launched
    <3> QED
      BY <3>1, <3>2
  <2>3. ASSUME NEW f \in fetches', NEW g \in fetches', f.by = g.by, job'[f.by].kind # "add"
        PROVE  f = g
    <3>1. CASE f.by = s
      BY <1>5, <1>6, <2>3, <3>1
    <3>2. CASE f.by # s
      <4>1. f \in fetches /\ g \in fetches
        BY <1>4, <1>6, <2>3, <3>2
      <4> QED
        BY <1>2, <1>8, <2>3, <4>1 DEF PageInv, FetchesAwaited
    <3> QED
      BY <3>1, <3>2
  <2>4. \A f \in fetches' : Awaited(f, job[f.by])'
    BY <2>2 DEF Awaited
  <2> QED
    BY <2>1, <2>3, <2>4 DEF FetchesAwaited
<1>10. IdsKnown'
  <2>1. \A t \in Calls : job'[t].dir \notin Unseen'
    BY <1>2 DEF Launched, PageInv, IdsKnown
  <2>2. \A f \in fetches' : f.dir \notin Unseen' /\ Ids(f.got) \cap Unseen' = {}
    <3>1. Ids({}) = {}
      BY DEF Ids
    <3> QED
      BY <1>4, <1>6, <3>1 DEF Launched, PageInv, IdsKnown
  <2>3. \A x \in DOMAIN snapshots' : x \in Places /\ snapshots'[x] \in Listings
    BY DEF Launched, PageInv, IdsKnown
  <2>4. \A x \in DOMAIN snapshots' : x \notin Unseen' /\ Ids(snapshots'[x]) \cap Unseen' = {}
    BY DEF Launched, PageInv, IdsKnown
  <2>5. \A x : Ids(x)' = Ids(x)
    BY DEF Ids
  <2> QED
    BY <2>1, <2>2, <2>3, <2>4, <2>5 DEF IdsKnown
<1>11. DebtsKept({})
  <2>1. ASSUME NEW t \in Calls, Lists(job[t], job[t].dir), job[t].phase \in {"answered", "fetching"}
        PROVE  /\ job'[t].kind = job[t].kind /\ job'[t].dir = job[t].dir
               /\ \/ job'[t].phase = job[t].phase
                  \/ job'[t].phase = "fetching" /\ \E g \in fetches' : g.by = t /\ ~g.served
    <3>1. CASE t # s
      BY <1>2, <3>1
    <3>2. CASE t = s
      <4>1. ~Free(s)
        BY <2>1, <3>2 DEF Lists, Free, Writes
      <4> QED
        BY <1>2, <1>4, <3>2, <4>1 DEF Launched
    <3> QED
      BY <3>1, <3>2
  <2> QED
    BY <1>6, <2>1 DEF DebtsKept
<1> QED
  BY <1>2, <1>3, <1>5, <1>6, <1>9, <1>10, <1>11

(* No id is taken by a second creation while none starts.                  *)
LEMMA CreationsStep ==
  ASSUME CreationsApart,
         \A t \in Calls : Makes(job'[t]) =>
           Creating(t) /\ job'[t].e = job[t].e /\ parent'[job[t].e] = Unborn
  PROVE  CreationsApart'
BY DEF CreationsApart, Creating, Makes

(* The tree is the same, and with it all that is read off it.              *)
LEMMA TreeKept ==
  ASSUME UNCHANGED <<parent, name>>
  PROVE  /\ Moves({}) /\ Unseen' = Unseen
         /\ \A d : CanHold(d)' = CanHold(d) /\ Listing(d)' = Listing(d)
BY NothingMoves DEF Unseen, CanHold, Exists, Listing

(* ... and none of the entries is moved by it.                             *)
LEMMA LaunchStep ==
  ASSUME PageInv, NEW s \in Calls, NEW j, NEW d, Launched(s, j, d), UNCHANGED parent
  PROVE  /\ CacheOwed' /\ AnswersOwed'
         /\ ~Makes(j) => CreationsApart'
         /\ \A t \in Calls \ {s} : WalkCovers(t)'
         /\ j.kind # "add" => WalksCover'
<1>1. /\ FetchesAwaited' /\ DebtsKept({})
      /\ \A t \in Calls \ {s} : job'[t] = job[t]
      /\ job'[s] = j
      /\ fetches \subseteq fetches' /\ \A g \in fetches' : g.served => g \in fetches
  BY LaunchKeeps
<1>2. UNCHANGED <<parent, name>> /\ snapshots' = snapshots /\ excused' = excused /\ used' = used
  BY DEF Launched
<1>3. ASSUME ~Makes(j) PROVE CreationsApart'
  <2>1. \A t \in Calls : Makes(job'[t]) => job'[t] = job[t]
    BY <1>1, <1>3
  <2> QED
    BY <1>2, <2>1, CreationsStep DEF PageInv, CreationsApart, Creating, Makes
<1>4. ListingsKept({})
  BY <1>1, <1>2, DebtsStay, TreeKept DEF ListingsKept, PageInv
<1>5. ASSUME NEW t \in Calls, t # s \/ j.kind # "add" PROVE WalkCovers(t)'
  <2>1. WalkKept(t, {})
    BY <1>1, <1>2, <1>5 DEF WalkKept
  <2> QED
    BY <1>2, <2>1, TreeKept, WalkStep DEF PageInv, WalksCover
<1>6. j.kind # "add" => WalksCover'
  BY <1>5 DEF WalksCover
<1> QED
  BY <1>3, <1>4, <1>5, <1>6, ListingsStep DEF PageInv

(* The effect of the open directory starts its load, or finds its listing. *)
LEMMA Loads ==
  ASSUME PageInv, LoadEffect
  PROVE  PageInv'
<1>k. Here \in Places \ Unseen /\ dialog' = dialog /\ path' = path /\ UNCHANGED server
  BY HereKnown DEF PageInv, LoadEffect, view
<1>1. CASE Here \in DOMAIN snapshots
  <2>1. Quiet /\ loader' = NoCall
    BY <1>1 DEF LoadEffect, Quiet
  <2>2. ViewKnown'
    BY <1>k, <2>1, QuietStep, ViewStays DEF PageInv, ViewKnown
  <2> QED
    BY <2>1, <2>2, QuietStep DEF PageInv, LoadingIsTold
<1>2. CASE Here \notin DOMAIN snapshots
  <2> DEFINE j == Job("load", Root, Root, Here, "fetching")
  <2>1. PICK s \in Calls :
          /\ Free(s) /\ loader' = s /\ loading' = TRUE
          /\ job' = [job EXCEPT ![s] = j] /\ fetches' = fetches \cup {Request(s, Here)}
    BY <1>2 DEF LoadEffect
  <2>2. j \in Jobs /\ Shaped(j) /\ j.dir = Here /\ j.kind = "load" /\ Awaited(Request(s, Here), j)
    BY <1>k DEF Job, NoJob, Jobs, JobKinds, Writes, Shaped, Awaited, Request, Places
  <2> HIDE DEF j
  <2>3. Unseen' = Unseen /\ UNCHANGED <<parent, name, used, snapshots, excused>>
    BY <1>k DEF Unseen, server, LoadEffect
  <2>4. Launched(s, j, Here)
    BY <1>k, <2>1, <2>2, <2>3 DEF Launched, PageInv, JobsShaped
  <2>5. ViewKnown'
    BY <1>k, <2>3, ViewStays DEF PageInv, ViewKnown
  <2>6. LoadingIsTold'
    BY <2>1 DEF LoadingIsTold
  <2> QED
    BY <2>2, <2>3, <2>4, <2>5, <2>6, LaunchKeeps, LaunchStep DEF PageInv, Makes
<1> QED
  BY <1>1, <1>2

(* A function begins that only writes.                                     *)
LEMMA Started ==
  ASSUME PageInv, NEW j \in Jobs, Shaped(j), j.kind \in Writes,
         j.phase = "asked", j.dir \notin Unseen,
         Begin(j), ViewKnown',
         Makes(j) => /\ j.e \in Entries /\ parent[j.e] = Unborn
                     /\ \A s \in Calls : job[s].e # j.e
  PROVE  PageInv'
<1> DEFINE k == [j EXCEPT !.kept = {}]
<1>1. PICK s \in Calls : Free(s) /\ job' = [job EXCEPT ![s] = k] /\ fetches' = fetches
  BY DEF Begin, Writes
<1>2. k \in Jobs /\ Shaped(k) /\ k.dir = j.dir /\ k.kind = j.kind /\ k.phase = "asked" /\ k.e = j.e
      /\ k.kind # "add"
  BY DEF Jobs, Shaped, Writes
<1> HIDE DEF k
<1>3. UNCHANGED <<parent, name, used, snapshots, excused, loader, loading>> /\ Unseen' = Unseen
  BY DEF Begin, Still, server, Unseen
<1>4. Launched(s, k, Root)
  BY <1>1, <1>2, <1>3 DEF Launched, PageInv, JobsShaped, Places, Unseen
<1>5. CreationsApart'
  <2>1. CASE ~Makes(k)
    BY <1>3, <1>4, <2>1, LaunchStep
  <2>2. CASE Makes(k)
    <3>1. (\A t \in Calls \ {s} : job'[t] = job[t]) /\ job'[s] = k
      BY <1>4, LaunchKeeps
    <3>2. \A t \in Calls \ {s} : job'[t].e # k.e
      BY <1>2, <2>2, <3>1 DEF Makes
    <3> QED
      BY <1>2, <1>3, <2>2, <3>1, <3>2 DEF PageInv, CreationsApart, Creating, Makes
  <2> QED
    BY <2>1, <2>2
<1>6. LoadingIsTold'
  BY <1>3 DEF PageInv, LoadingIsTold
<1> QED
  BY <1>2, <1>3, <1>4, <1>5, <1>6, LaunchKeeps, LaunchStep DEF PageInv

(* The dialogs that create, upload, rename, delete and move.               *)
LEMMA Submitting ==
  ASSUME PageInv,
         \/ Submit \/ \E to \in Places : SubmitMove(to)
         \/ \E e \in Entries : SubmitCreate(e) \/ SubmitUpload(e)
  PROVE  PageInv'
<1>1. Here \in Places \ Unseen /\ dialog.e \in (Entries \cup {Root}) \ Unseen
  BY HereKnown DEF PageInv, ViewKnown, DialogKnown
<1>2. /\ Unseen' = Unseen /\ path' = path /\ dialog' = dialog
  BY DEF Submit, SubmitCreate, SubmitUpload, SubmitMove, RunAction, Begin, Still, server,
         Unseen, view
<1>3. ViewKnown'
  BY <1>2, ViewStays DEF PageInv, ViewKnown
<1>4. CASE Submit
  <2> DEFINE j == Job(dialog.kind, dialog.e, Root, Here, "asked")
  <2>1. dialog.kind \in {"rename", "delete"} /\ Begin(j)
    BY <1>4 DEF Submit, RunAction
  <2>2. j \in Jobs /\ Shaped(j) /\ j.kind = dialog.kind /\ j.phase = "asked" /\ j.dir = Here
    BY <1>1, <2>1 DEF Job, NoJob, Jobs, JobKinds, Writes, Places, Shaped, PageInv,
                        ViewKnown, DialogKnown
  <2> QED
    BY <1>1, <1>3, <2>1, <2>2, Started DEF Writes, Makes
<1>5. ASSUME NEW e \in Entries, NEW kind \in {"create", "upload"},
             (SubmitCreate(e) /\ kind = "create") \/ (SubmitUpload(e) /\ kind = "upload")
      PROVE  PageInv'
  <2> DEFINE j == Job(kind, e, dialog.e, dialog.e, "asked")
  <2>1. dialog.e \in Places \ Unseen /\ Begin(j)
        /\ parent[e] = Unborn /\ \A s \in Calls : job[s].e # e
    BY <1>1, <1>5 DEF SubmitCreate, SubmitUpload, RunAction, PageInv, ViewKnown, DialogKnown
  <2>2. j \in Jobs /\ Shaped(j) /\ j.kind = kind /\ j.phase = "asked" /\ j.dir = dialog.e
        /\ j.e = e
    BY <2>1 DEF Job, NoJob, Jobs, JobKinds, Writes, Places, Shaped
  <2> QED
    BY <1>3, <2>1, <2>2, Started DEF Writes
<1>6. ASSUME NEW to \in Places, SubmitMove(to) PROVE PageInv'
  <2> DEFINE j == Job("move", dialog.e, to, Here, "asked")
  <2>1. Begin(j) /\ dialog.e \in Entries
    BY <1>6 DEF SubmitMove, RunAction, PageInv, ViewKnown, DialogKnown
  <2>2. j \in Jobs /\ Shaped(j) /\ j.kind = "move" /\ j.phase = "asked" /\ j.dir = Here
    BY <1>1, <2>1 DEF Job, NoJob, Jobs, JobKinds, Writes, Places, Shaped
  <2> QED
    BY <1>1, <1>3, <2>1, <2>2, Started DEF Writes, Makes
<1> QED
  BY <1>4, <1>5, <1>6

(* addEntryToProject: the walk begins with the folder itself.              *)
LEMMA Adding ==
  ASSUME PageInv, NEW e \in Entries, NEW dropdown \in BOOLEAN, AddToProject(e, dropdown)
  PROVE  PageInv'
<1> DEFINE j0 == IF e \in Dirs THEN Job("add", e, Root, Root, "walking")
                 ELSE [Job("add", e, Root, Root, "adding") EXCEPT !.todo = {e}]
           j == [j0 EXCEPT !.kept = Below(e) \cap Files]
<1>1. e \in Shown /\ e \notin Unseen /\ RunAction(j0) /\ ThroughCard(e, dropdown)
      /\ dialog' = dialog
  BY ShownKnown DEF AddToProject, PageInv
<1>2. UNCHANGED <<parent, name, used, snapshots, excused, loader, loading>> /\ Unseen' = Unseen
  BY <1>1 DEF RunAction, Begin, Still, server, Unseen
<1>3. ViewKnown'
  <2>1. path' \in Seq(Dirs \ Unseen)
    BY <1>1, CardKnown DEF PageInv
  <2> QED
    BY <1>1, <1>2, <2>1, ViewStays DEF PageInv, ViewKnown
<1>4. /\ j0.kind = "add" /\ j0.e = e /\ (j0.phase = "walking" <=> e \in Dirs)
      /\ j \in Jobs /\ Shaped(j) /\ j.kind = "add" /\ j.dir = Root /\ j.e = e
      /\ j.kept = Below(e) \cap Files
      /\ j.phase = (IF e \in Dirs THEN "walking" ELSE "adding")
      /\ e \notin Dirs => j.todo = {e}
  BY DEF Job, NoJob, Jobs, JobKinds, Writes, Shaped, Places, Entries
<1>5. PICK s \in Calls :
        /\ Free(s) /\ job' = [job EXCEPT ![s] = j]
        /\ fetches' = IF e \in Dirs THEN fetches \cup {Request(s, e)} ELSE fetches
  <2>1. PICK s \in Calls :
          /\ Free(s)
          /\ job' = [job EXCEPT ![s] = [j0 EXCEPT !.kept =
                       IF j0.kind = "add" THEN Below(j0.e) \cap Files ELSE {}]]
          /\ fetches' = IF j0.phase = "walking" THEN fetches \cup {Request(s, j0.e)} ELSE fetches
    BY <1>1 DEF RunAction, Begin
  <2> QED
    BY <1>4, <2>1
<1> HIDE DEF j, j0
<1>6. Launched(s, j, IF e \in Dirs THEN e ELSE Root)
  <2>1. e \in Dirs => Awaited(Request(s, e), j)
    BY <1>4 DEF Awaited, Request
  <2> QED
    BY <1>1, <1>2, <1>4, <1>5, <2>1 DEF Launched, PageInv, JobsShaped, Places, Unseen
<1>7. job'[s] = j
  BY <1>6, LaunchKeeps
<1>8. WalkCovers(s)'
  <2>1. CASE e \in Dirs
    <3>1. Request(s, e) \in fetches' /\ Request(s, e).by = s /\ ~Request(s, e).served
          /\ Request(s, e).dir = e
      BY <1>5, <2>1 DEF Request
    <3>2. \A a \in Below(e) : InReach(a, Request(s, e))
      BY <3>1 DEF InReach
    <3>3. \A a : InReach(a, Request(s, e))' = InReach(a, Request(s, e))
      BY <1>2 DEF InReach, Below, Closed, Request
    <3> QED
      BY <1>4, <1>7, <2>1, <3>1, <3>2, <3>3 DEF WalkCovers
  <2>2. CASE e \notin Dirs
    <3>1. Below(e) = {e}
      BY <2>2, BelowFile DEF PageInv, Entries
    <3> QED
      BY <1>4, <1>7, <2>2, <3>1 DEF WalkCovers
  <2> QED
    BY <2>1, <2>2
<1>9. WalksCover'
  BY <1>2, <1>6, <1>8, LaunchStep DEF WalksCover
<1>10. LoadingIsTold'
  BY <1>2 DEF PageInv, LoadingIsTold
<1> QED
  BY <1>2, <1>3, <1>4, <1>6, <1>9, <1>10, LaunchKeeps, LaunchStep DEF PageInv, Makes

(* The write has been answered: its directory is requested.                *)
LEMMA Refetching ==
  ASSUME PageInv, NEW s \in Calls, Refetch(s)
  PROVE  PageInv'
<1> DEFINE j == [job[s] EXCEPT !.phase = "fetching"]
           d == job[s].dir
<1>1. /\ job[s].phase = "answered" /\ job' = [job EXCEPT ![s] = j]
      /\ fetches' = fetches \cup {Request(s, d)}
      /\ dialog' \in {dialog, None} /\ path' = path
      /\ UNCHANGED <<parent, name, used, snapshots, loader, loading, excused>>
  <2>1. job \in [Calls -> Jobs] /\ [job EXCEPT ![s].phase = "fetching"] = [job EXCEPT ![s] = j]
    BY DEF PageInv, JobsShaped
  <2> QED
    BY <2>1 DEF Refetch, CloseOwn, load, server
<1>2. job[s] \in Jobs /\ Shaped(job[s])
  BY DEF PageInv, JobsShaped
<1>3. CASE job[s].kind \in Writes
  <2>1. j \in Jobs /\ Shaped(j) /\ j.dir = d /\ j.kind = job[s].kind /\ j.phase = "fetching"
        /\ d \in Places \ Unseen /\ j.kind # "add" /\ j.kind # "none"
    BY <1>2, <1>3 DEF Jobs, Shaped, Writes, PageInv, IdsKnown
  <2>2. Awaited(Request(s, d), j)
    BY <2>1 DEF Awaited, Request
  <2>3. Request(s, d) \in fetches'
    BY <1>1
  <2> HIDE DEF j, d
  <2>4. Unseen' = Unseen
    BY <1>1 DEF Unseen
  <2>5. Launched(s, j, d)
    BY <1>1, <2>1, <2>2, <2>3, <2>4 DEF Launched, PageInv, JobsShaped, d
  <2>6. ViewKnown'
    BY <1>1, <2>4, ViewStays DEF PageInv, ViewKnown
  <2>7. LoadingIsTold'
    BY <1>1 DEF PageInv, LoadingIsTold
  <2> QED
    BY <1>1, <2>1, <2>5, <2>6, <2>7, LaunchKeeps, LaunchStep DEF PageInv, Makes
<1>4. job[s].kind \in Writes
  BY <1>1, <1>2 DEF Shaped, Jobs, JobKinds
<1> QED
  BY <1>3, <1>4

-----------------------------------------------------------------------------
(* Requests whose answers are no longer fresh, or that are over *)

(* A request for a place in P loses its freshness; nothing else tells the  *)
(* two apart.                                                              *)
Fade(f, P) == IF f.dir \in P THEN [f EXCEPT !.fresh = FALSE] ELSE f
Like(g, f) == g.by = f.by /\ g.dir = f.dir /\ g.got = f.got /\ g.served = f.served

(* The request is the same one.                                            *)
LEMMA FadeLike ==
  ASSUME NEW f \in Requests, NEW P
  PROVE  /\ Fade(f, P) \in Requests /\ Like(Fade(f, P), f)
         /\ Fade(f, P).fresh => f.fresh /\ f.dir \notin P
BY DEF Fade, Requests, Like

(* The step leaves the requests fs, and excuses P.                         *)
Faded(P, fs) == excused' = excused \cup P /\ fetches' = {Fade(f, P) : f \in fs}

(* That is what Excuse does,                                               *)
LEMMA ExcuseFades ==
  ASSUME NEW P, NEW fs, Excuse(P, fs)
  PROVE  Faded(P, fs)
BY DEF Excuse, Faded, Fade

(* and what a step does that excuses nothing.                              *)
LEMMA NothingFades ==
  ASSUME UNCHANGED <<fetches, excused>>
  PROVE  Faded({}, fetches)
BY DEF Faded, Fade

(* The requests that are left are still awaited.                           *)
LEMMA FetchesFade ==
  ASSUME FetchesAwaited, NEW P, NEW fs \in SUBSET fetches, Faded(P, fs),
         \A f \in fs : job'[f.by].kind = job[f.by].kind /\ Awaited(f, job'[f.by])
  PROVE  /\ FetchesAwaited'
         /\ \A f \in fs : \E g \in fetches' : Like(g, f)
         /\ \A g \in fetches' : \E f \in fs : Like(g, f) /\ (g.fresh => f.fresh /\ f.dir \notin P)
<1>1. fs \subseteq Requests
  BY DEF FetchesAwaited
<1>2. ASSUME NEW g \in fetches'
      PROVE  \E f \in fs : /\ g = Fade(f, P) /\ g \in Requests /\ Like(g, f)
                           /\ g.fresh => f.fresh /\ f.dir \notin P
  BY <1>1, FadeLike DEF Faded
<1>3. \A f \in fs : \E g \in fetches' : Like(g, f)
  BY <1>1, FadeLike DEF Faded
<1>4. \A f \in fetches' : Awaited(f, job'[f.by])
  BY <1>2 DEF Awaited, Like
<1>5. ASSUME NEW g \in fetches', NEW h \in fetches', g.by = h.by, job'[g.by].kind # "add"
      PROVE  g = h
  <2>1. PICK f \in fs : g = Fade(f, P) /\ Like(g, f)
    BY <1>2
  <2>2. PICK e \in fs : h = Fade(e, P) /\ Like(h, e)
    BY <1>2
  <2>3. f = e
    BY <1>5, <2>1, <2>2 DEF FetchesAwaited, Like
  <2> QED
    BY <2>1, <2>2, <2>3
<1>6. \A f \in fetches' : Awaited(f, job[f.by])'
  BY <1>4 DEF Awaited
<1>7. FetchesAwaited'
  BY <1>2, <1>5, <1>6 DEF FetchesAwaited
<1> QED
  BY <1>2, <1>3, <1>7

-----------------------------------------------------------------------------
(* The server writes: for the function s, or for another client. *)

(* The tree is changed for s, if s is a function: the entries moved are    *)
(* elsewhere, the places P excused, and what s is going to list again is   *)
(* its own.                                                                *)
Written(s, moved, P) ==
  /\ job' \in [Calls -> Jobs]
  /\ \A t \in Calls :
       /\ job'[t].kind = job[t].kind /\ job'[t].e = job[t].e
       /\ job'[t].to = job[t].to
       /\ job'[t].dir = job[t].dir /\ job'[t].todo = job[t].todo
       /\ job'[t].phase = IF t = s THEN "answered" ELSE job[t].phase
       /\ t # s => job'[t].kept \subseteq job[t].kept \ moved
  /\ s \in Calls => job[s].kind \in Writes /\ job[s].phase = "asked"
  /\ Moves(moved)
  /\ Faded(P, fetches)
  /\ parent' \in [Entries -> Places \cup {Unborn, Gone}] /\ name' \in [Entries -> {"old", "new"}]
  /\ \A x \in Entries : parent'[x] = Unborn => parent[x] = Unborn
  /\ \A x \in Entries : parent[x] = Unborn /\ parent'[x] # Unborn =>
       s \in Calls /\ Makes(job[s]) /\ x = job[s].e
  /\ \A d \in Places \ Unseen : CanHold(d)' =>
       CanHold(d) /\ (Listing(d)' = Listing(d) \/ d \in P \/ (s \in Calls /\ d = job[s].dir))
  /\ UNCHANGED <<used, snapshots, loader, loading, path, dialog>>

(* Whatever the write is, it leaves its directory owed or excused.         *)
LEMMA WriteStep ==
  ASSUME PageInv, NEW s, NEW moved, NEW P, Written(s, moved, P)
  PROVE  PageInv'
<1>1. JobsShaped'
  BY DEF Written, PageInv, JobsShaped, Shaped, Writes
<1>2. /\ \A t \in Calls : t # s => job'[t].kind = job[t].kind /\ job'[t].phase = job[t].phase
                            /\ job'[t].dir = job[t].dir /\ job'[t].todo = job[t].todo
      /\ s \in Calls => /\ job'[s].kind = job[s].kind /\ job'[s].dir = job[s].dir
                        /\ job[s].kind \in Writes /\ job'[s].phase = "answered"
      /\ s \in Calls => job[s].phase = "asked"
  BY DEF Written
<1>3. ASSUME NEW f \in fetches
      PROVE  /\ f.by \in Calls /\ f.by # s
             /\ job'[f.by].kind = job[f.by].kind /\ Awaited(f, job'[f.by])
  <2>1. f.by \in Calls
    BY DEF PageInv, FetchesAwaited, Requests
  <2>2. f.by # s
    BY <1>2, <2>1, NoFetch DEF PageInv
  <2>3. Awaited(f, job[f.by])
    BY DEF PageInv, FetchesAwaited
  <2> QED
    BY <1>2, <2>1, <2>2, <2>3 DEF Awaited
<1>4. /\ FetchesAwaited'
      /\ \A f \in fetches : \E g \in fetches' : Like(g, f)
      /\ \A g \in fetches' : \E f \in fetches : Like(g, f) /\ (g.fresh => f.fresh /\ f.dir \notin P)
  BY <1>3, FetchesFade DEF PageInv, Written
<1>5. Unseen' \subseteq Unseen
  BY DEF Written, Unseen
<1>6. ViewKnown'
  BY <1>5, ViewStays DEF Written, PageInv, ViewKnown
<1>7. IdsKnown'
  <2>1. \A t \in Calls : job'[t].dir \notin Unseen'
    BY <1>2, <1>5 DEF PageInv, IdsKnown
  <2>2. \A f \in fetches' : f.dir \notin Unseen' /\ Ids(f.got) \cap Unseen' = {}
    BY <1>4, <1>5 DEF PageInv, IdsKnown, Like
  <2>3. snapshots' = snapshots /\ \A x : Ids(x)' = Ids(x)
    BY DEF Written, Ids
  <2> QED
    BY <1>5, <2>1, <2>2, <2>3 DEF PageInv, IdsKnown
<1>8. CreationsApart'
  <2>1. ASSUME NEW t \in Calls, Makes(job'[t])
        PROVE  Creating(t) /\ job'[t].e = job[t].e /\ parent'[job[t].e] = Unborn
    <3>1. t # s /\ Creating(t) /\ job'[t].e = job[t].e
      BY <1>2, <2>1 DEF Creating, Makes, Written
    <3>2. job[t].e \in Entries /\ parent[job[t].e] = Unborn
      BY <3>1 DEF PageInv, CreationsApart, Entries
    <3>3. ~(s \in Calls /\ Makes(job[s]) /\ job[t].e = job[s].e)
      BY <1>2, <3>1 DEF PageInv, CreationsApart, Creating, Makes
    <3> QED
      BY <3>1, <3>2, <3>3 DEF Written
  <2> QED
    BY <2>1, CreationsStep DEF PageInv
<1>9. WalksCover'
  <2>1. ASSUME NEW t \in Calls PROVE WalkCovers(t)'
    <3>1. WalkKept(t, moved)
      <4>1. CASE t = s
        BY <1>2, <4>1 DEF WalkKept, Written, Writes
      <4>2. CASE t # s
        <5>1. used' = used /\ job'[t].kept \subseteq job[t].kept \ moved
          BY <4>2 DEF Written
        <5> QED
          BY <1>2, <1>4, <4>2, <5>1 DEF WalkKept, Like
      <4> QED
        BY <4>1, <4>2
    <3> QED
      BY <3>1, WalkStep DEF PageInv, WalksCover, Written
  <2> QED
    BY <2>1 DEF WalksCover
<1>10. ListingsKept(P)
  <2>1. DebtsKept(P)
    <3>1. ASSUME NEW t \in Calls, job[t].phase \in {"answered", "fetching"}
          PROVE  /\ job'[t].kind = job[t].kind /\ job'[t].dir = job[t].dir
                 /\ job'[t].phase = job[t].phase
      BY <1>2, <3>1
    <3>2. \A g \in fetches : \E h \in fetches' : h.by = g.by /\ h.served = g.served
      BY <1>4 DEF Like
    <3> QED
      BY <3>1, <3>2 DEF DebtsKept
  <2>3. ASSUME NEW d \in Places \ Unseen, CanHold(d)', d \notin P
        PROVE  CanHold(d) /\ (Listing(d)' = Listing(d) \/ OwedAnew(d)')
    <3>1. s \in Calls /\ d = job[s].dir => OwedAnew(d)'
      BY <1>2 DEF OwedAnew, Lists
    <3> QED
      BY <2>3, <3>1 DEF Written
  <2>4. \A d \in Places \ P : (Owed(d) => Owed(d)') /\ (OwedAnew(d) => OwedAnew(d)')
    BY <2>1, DebtsStay DEF PageInv
  <2>5. \A g \in fetches' : g.served /\ g.fresh =>
          /\ g.dir \notin P
          /\ \E f \in fetches : f.served /\ f.fresh /\ f.dir = g.dir /\ f.got = g.got
    BY <1>4 DEF Like
  <2> QED
    BY <2>3, <2>4, <2>5 DEF ListingsKept, Written, Faded
<1>11. CacheOwed' /\ AnswersOwed'
  BY <1>10, ListingsStep DEF PageInv
<1>12. LoadingIsTold'
  BY DEF Written, PageInv, LoadingIsTold
<1> QED
  BY <1>1, <1>4, <1>6, <1>7, <1>8, <1>9, <1>11, <1>12 DEF PageInv

(* The answer of a write changes its function's phase, and what walks are  *)
(* sure to find.                                                           *)
LEMMA AnsweredJobs ==
  ASSUME JobsShaped, NEW s \in Calls, NEW moved, Answered(s, moved)
  PROVE  /\ job' \in [Calls -> Jobs]
         /\ \A t \in Calls :
              /\ job'[t].kind = job[t].kind /\ job'[t].e = job[t].e
              /\ job'[t].to = job[t].to
              /\ job'[t].dir = job[t].dir /\ job'[t].todo = job[t].todo
              /\ job'[t].phase = IF t = s THEN "answered" ELSE job[t].phase
              /\ t # s => job'[t].kept \subseteq job[t].kept \ moved
<1> USE DEF JobsShaped
<1>1. \A t \in Calls : job[t] \in Jobs
  OBVIOUS
<1>2. ASSUME NEW t \in Calls
      PROVE  /\ job'[t] \in Jobs
             /\ job'[t].kind = job[t].kind /\ job'[t].e = job[t].e
             /\ job'[t].to = job[t].to
             /\ job'[t].dir = job[t].dir /\ job'[t].todo = job[t].todo
             /\ job'[t].phase = IF t = s THEN "answered" ELSE job[t].phase
             /\ t # s => job'[t].kept \subseteq job[t].kept \ moved
  BY <1>1 DEF Answered, Disturb, Jobs
<1> QED
  BY <1>2 DEF Answered

(* A directory or an uploaded asset is made,                               *)
LEMMA ServeCreates ==
  ASSUME PageInv, NEW s \in Calls, ServeCreate(s)
  PROVE  PageInv'
<1>1. PICK e : e = job[s].e
  OBVIOUS
<1>2. PICK to : to = job[s].to
  OBVIOUS
<1>3. /\ job[s].kind \in {"create", "upload"} /\ job[s].phase = "asked" /\ CanHold(to)
      /\ parent' = [parent EXCEPT ![e] = to] /\ Answered(s, {})
      /\ UNCHANGED <<name, used, snapshots, loader, loading, path, dialog, fetches, excused>>
  BY <1>1, <1>2 DEF ServeCreate, view, load
<1>4. e \in Entries /\ Makes(job[s]) /\ parent[e] = Unborn /\ to = job[s].dir /\ to \in Places
      /\ parent \in [Entries -> Places \cup {Unborn, Gone}]
  BY <1>1, <1>2, <1>3 DEF PageInv, CreationsApart, Creating, Makes, JobsShaped, Shaped, Jobs
<1>5. parent' \in [Entries -> Places \cup {Unborn, Gone}]
      /\ parent'[e] = to /\ \A x \in Entries \ {e} : parent'[x] = parent[x]
  BY <1>3, <1>4 DEF Entries
<1>6. Moves({})
  BY <1>4, <1>5, NothingMoves
<1>7. ASSUME NEW d \in Places \ Unseen, CanHold(d)'
      PROVE  CanHold(d) /\ (Listing(d)' = Listing(d) \/ d = job[s].dir)
  <2>1. CanHold(d)
    BY <1>3, <1>4, <1>5, <1>7 DEF CanHold, Exists, Entries, Unseen
  <2>2. CASE d # to
    <3>1. \A y \in Entries : parent'[y] = d <=> parent[y] = d
      BY <1>4, <1>5, <1>7, <2>2 DEF Places, Entries
    <3> QED
      BY <1>3, <2>1, <3>1, ListingStays
  <2> QED
    BY <1>4, <2>1, <2>2
<1>8. \A x \in Entries : parent'[x] = Unborn => parent[x] = Unborn
  BY <1>4, <1>5
<1>9. Written(s, {}, {})
  BY <1>1, <1>3, <1>4, <1>5, <1>6, <1>7, <1>8, AnsweredJobs, NothingFades
     DEF Written, Writes, PageInv, JobsShaped, Places
<1> QED
  BY <1>9, WriteStep

(* an entry renamed,                                                       *)
LEMMA ServeRenames ==
  ASSUME PageInv, NEW s \in Calls, ServeRename(s)
  PROVE  PageInv'
<1>1. PICK e : e = job[s].e
  OBVIOUS
<1>2. PICK P : P = Elsewhere(s)
  OBVIOUS
<1>3. /\ job[s].kind = "rename" /\ job[s].phase = "asked" /\ Exists(e)
      /\ name' = [name EXCEPT ![e] = "new"] /\ Answered(s, {}) /\ Faded(P, fetches)
      /\ UNCHANGED <<parent, used, snapshots, loader, loading, path, dialog>>
  BY <1>1, <1>2, ExcuseFades DEF ServeRename, view, load
<1>4. e \in Entries /\ name \in [Entries -> {"old", "new"}]
  BY <1>1, <1>3 DEF PageInv, JobsShaped, Shaped
<1>5. name' \in [Entries -> {"old", "new"}] /\ \A x \in Entries \ {e} : name'[x] = name[x]
  BY <1>3, <1>4
<1>6. ASSUME NEW d \in Places \ Unseen
      PROVE  Listing(d)' = Listing(d) \/ d \in P \/ d = job[s].dir
  <2>1. CASE d # parent[e]
    BY <1>3, <1>5, <2>1, ListingStays
  <2>2. CASE d = parent[e]
    BY <1>1, <1>2, <2>2 DEF Elsewhere
  <2> QED
    BY <2>1, <2>2
<1>7. \A d : CanHold(d)' = CanHold(d)
  BY <1>3 DEF CanHold, Exists
<1>8. Moves({})
  BY <1>3, NothingMoves
<1>9. Written(s, {}, P)
  BY <1>3, <1>5, <1>6, <1>7, <1>8, AnsweredJobs DEF Written, Writes, PageInv, JobsShaped
<1> QED
  BY <1>9, WriteStep

(* A move, of this page or of another client.                              *)
Moved(e, to) == e \in Entries /\ CanMove(e, to) /\ parent' = [parent EXCEPT ![e] = to]

(* It takes along all that is below the entry, and changes two listings.   *)
LEMMA MoveMoves ==
  ASSUME PageInv, NEW e, NEW to, Moved(e, to), name' = name
  PROVE  /\ Moves(Below(e)) /\ parent' \in [Entries -> Places \cup {Unborn, Gone}]
         /\ \A x \in Entries : parent'[x] = Unborn <=> parent[x] = Unborn
         /\ \A d \in Places \ Unseen : CanHold(d)' => CanHold(d)
         /\ \A d \in Places : Listing(d)' = Listing(d) \/ d \in {parent[e], to}
<1>1. e \in Entries /\ Exists(e) /\ CanHold(to) /\ to \in Places
      /\ parent \in [Entries -> Places \cup {Unborn, Gone}]
  BY DEF Moved, CanMove, CanHold, Places, PageInv, JobsShaped
<1>2. parent' \in [Entries -> Places \cup {Unborn, Gone}] /\ parent'[e] = to
      /\ \A x \in Entries \ {e} : parent'[x] = parent[x]
  BY <1>1 DEF Moved
<1>3. \A x \in Entries : parent'[x] = Unborn <=> parent[x] = Unborn
  BY <1>1, <1>2 DEF Exists, Places, Entries
<1>4. \A d \in Places \ Unseen : CanHold(d)' => CanHold(d)
  BY <1>1, <1>2 DEF CanHold, Exists, Entries, Places
<1>5. ASSUME NEW d \in Places, d \notin {parent[e], to} PROVE Listing(d)' = Listing(d)
  <2>1. \A y \in Entries : parent'[y] = d <=> parent[y] = d
    BY <1>2, <1>5
  <2> QED
    BY <2>1, ListingStays
<1>6. Moves(Below(e))
  BY <1>1, <1>2, BelowClosed DEF Moves
<1> QED
  BY <1>2, <1>3, <1>4, <1>5, <1>6

(* An entry is moved by this page,                                         *)
LEMMA ServeMoves ==
  ASSUME PageInv, NEW s \in Calls, ServeMove(s)
  PROVE  PageInv'
<1>1. PICK e : e = job[s].e
  OBVIOUS
<1>2. PICK to : to = job[s].to
  OBVIOUS
<1>3. PICK P : P = Elsewhere(s) \cup ({to} \ {job[s].dir})
  OBVIOUS
<1>4. PICK moved : moved = Below(e)
  OBVIOUS
<1>5. /\ job[s].kind = "move" /\ job[s].phase = "asked" /\ CanMove(e, to)
      /\ parent' = [parent EXCEPT ![e] = to] /\ Answered(s, moved) /\ Faded(P, fetches)
      /\ UNCHANGED <<name, used, snapshots, loader, loading, path, dialog>>
  BY <1>1, <1>2, <1>3, <1>4, ExcuseFades DEF ServeMove, view, load
<1>6. Moved(e, to)
  BY <1>1, <1>5 DEF Moved, PageInv, JobsShaped, Shaped
<1>7. \A d \in Places : Listing(d)' = Listing(d) \/ d \in P \/ d = job[s].dir
  BY <1>1, <1>3, <1>5, <1>6, MoveMoves DEF Elsewhere
<1>8. Written(s, moved, P)
  BY <1>4, <1>5, <1>6, <1>7, MoveMoves, AnsweredJobs DEF Written, Writes, PageInv, JobsShaped
<1> QED
  BY <1>8, WriteStep

(* and by another client.                                                  *)
LEMMA OthersMove ==
  ASSUME PageInv, NEW e \in Entries, NEW to, OtherMoves(e, to)
  PROVE  PageInv'
<1>1. PICK P : P = {parent[e], to}
  OBVIOUS
<1>2. PICK moved : moved = Below(e)
  OBVIOUS
<1>3. /\ CanMove(e, to) /\ parent' = [parent EXCEPT ![e] = to] /\ Faded(P, fetches)
      /\ job' = [t \in Calls |-> Disturb(t, moved)]
      /\ UNCHANGED <<name, used, snapshots, loader, loading, path, dialog>>
  BY <1>1, <1>2, ExcuseFades DEF OtherMoves, view, load
<1>4. Moved(e, to)
  BY <1>3 DEF Moved
<1>5. ASSUME NEW t \in Calls
      PROVE  /\ job'[t] \in Jobs
             /\ job'[t].kind = job[t].kind /\ job'[t].e = job[t].e
             /\ job'[t].to = job[t].to
             /\ job'[t].dir = job[t].dir /\ job'[t].todo = job[t].todo
             /\ job'[t].phase = job[t].phase
             /\ job'[t].kept \subseteq job[t].kept \ moved
  <2>1. job[t] \in Jobs
    BY DEF PageInv, JobsShaped
  <2> QED
    BY <1>3, <2>1 DEF Disturb, Jobs
<1>6. job' \in [Calls -> Jobs]
  BY <1>3, <1>5
<1>7. Written(NoCall, moved, P)
  BY <1>1, <1>2, <1>3, <1>4, <1>5, <1>6, MoveMoves DEF Written, PageInv, JobsShaped
<1> QED
  BY <1>7, WriteStep

(* An entry is deleted with all that is below it.                          *)
LEMMA ServeDeletes ==
  ASSUME PageInv, NEW s \in Calls, ServeDelete(s)
  PROVE  PageInv'
<1>1. PICK e : e = job[s].e
  OBVIOUS
<1>2. PICK P : P = Elsewhere(s)
  OBVIOUS
<1>3. PICK moved : moved = Below(e)
  OBVIOUS
<1>4. /\ job[s].kind = "delete" /\ job[s].phase = "asked" /\ Exists(e)
      /\ parent' = [x \in Entries |-> IF x \in moved THEN Gone ELSE parent[x]]
      /\ Answered(s, moved) /\ Faded(P, fetches)
      /\ UNCHANGED <<name, used, snapshots, loader, loading, path, dialog>>
  BY <1>1, <1>2, <1>3, ExcuseFades DEF ServeDelete, view, load
<1>5. e \in Entries /\ parent \in [Entries -> Places \cup {Unborn, Gone}]
  BY <1>1, <1>4 DEF PageInv, JobsShaped, Shaped
<1>6. moved \subseteq Entries /\ e \in moved /\ Closed(moved)
      /\ \A x \in moved \ {e} : parent[x] \in moved
  BY <1>3, <1>5, BelowClosed, BelowParent
<1>7. parent' \in [Entries -> Places \cup {Unborn, Gone}] /\ Moves(moved)
  BY <1>4, <1>5, <1>6 DEF Moves
<1>8. \A x \in Entries : parent'[x] = Unborn <=> parent[x] = Unborn
  BY <1>4, <1>6 DEF Exists, Entries
<1>9. ASSUME NEW d \in Places \ Unseen, CanHold(d)'
      PROVE  CanHold(d) /\ (Listing(d)' = Listing(d) \/ d \in P \/ d = job[s].dir)
  <2>1. CanHold(d) /\ d \notin moved
    BY <1>4, <1>6, <1>9 DEF CanHold, Exists, Entries
  <2>2. CASE d # parent[e]
    <3>1. \A y \in Entries : parent'[y] = d <=> parent[y] = d
      BY <1>4, <1>6, <1>9, <2>1, <2>2 DEF Places, Entries
    <3> QED
      BY <1>4, <2>1, <3>1, ListingStays
  <2>3. CASE d = parent[e]
    BY <1>1, <1>2, <2>1, <2>3 DEF Elsewhere
  <2> QED
    BY <2>2, <2>3
<1>10. Written(s, moved, P)
  BY <1>4, <1>7, <1>8, <1>9, AnsweredJobs DEF Written, Writes, PageInv, JobsShaped
<1> QED
  BY <1>10, WriteStep

-----------------------------------------------------------------------------
(* A function ends, or a walk loses a part. *)

(* A request that is dropped takes no other's freshness.                   *)
LEMMA NothingFadesIn ==
  ASSUME NEW fs, fetches' = fs, excused' = excused
  PROVE  Faded({}, fs)
BY DEF Faded, Fade

(* The function of s ends, or only what a walk has sent is left of it; a   *)
(* directory it was still to list is in P.                                 *)
JobEnded(s, j, P, fs) ==
  /\ job' = [job EXCEPT ![s] = j] /\ j \in Jobs /\ Shaped(j) /\ j.dir \notin Unseen
  /\ \/ j.kind = "none"
     \/ /\ j.kind = "add" /\ job[s].kind = "add"
        /\ \/ j.phase = "spent"
           \/ /\ j.phase = "adding" /\ job[s].phase = "adding"
              /\ j.kept = job[s].kept /\ job[s].todo \subseteq j.todo \cup used'
  /\ fs \subseteq fetches /\ (\A f \in fetches \ fs : f.by = s) /\ Faded(P, fs)
  /\ \A f \in fs : f.by = s => j.kind = "add" /\ Awaited(f, j)
  /\ Lists(job[s], job[s].dir) /\ job[s].phase \in {"answered", "fetching"} => job[s].dir \in P
  /\ UNCHANGED <<parent, name, snapshots, path>> /\ used \subseteq used'
  /\ dialog' \in {dialog, None}
  /\ UNCHANGED <<loader, loading>> \/ LoadOver(s)

(* Such a step keeps the invariant.                                        *)
LEMMA EndStep ==
  ASSUME PageInv, NEW s \in Calls, NEW j, NEW P, NEW fs, JobEnded(s, j, P, fs)
  PROVE  PageInv'
<1>1. job \in [Calls -> Jobs] /\ job'[s] = j /\ \A t \in Calls \ {s} : job'[t] = job[t]
  BY DEF PageInv, JobsShaped, JobEnded
<1>2. JobsShaped'
  BY <1>1 DEF PageInv, JobsShaped, JobEnded
<1>3. ASSUME NEW f \in fs PROVE job'[f.by].kind = job[f.by].kind /\ Awaited(f, job'[f.by])
  <2>1. f.by \in Calls /\ f \in fetches
    BY DEF JobEnded, PageInv, FetchesAwaited, Requests
  <2>2. CASE f.by = s
    BY <1>1, <2>2 DEF JobEnded
  <2>3. CASE f.by # s
    BY <1>1, <2>1, <2>3 DEF PageInv, FetchesAwaited
  <2> QED
    BY <2>2, <2>3
<1>4. /\ FetchesAwaited'
      /\ \A f \in fs : \E g \in fetches' : Like(g, f)
      /\ \A g \in fetches' : \E f \in fs : Like(g, f) /\ (g.fresh => f.fresh /\ f.dir \notin P)
  BY <1>3, FetchesFade DEF PageInv, JobEnded
<1>5. Unseen' = Unseen /\ Moves({})
      /\ \A d : CanHold(d)' = CanHold(d) /\ Listing(d)' = Listing(d)
  BY TreeKept DEF JobEnded
<1>6. ViewKnown'
  BY <1>5, ViewStays DEF JobEnded, PageInv, ViewKnown
<1>7. IdsKnown'
  <2>1. \A t \in Calls : job'[t].dir \notin Unseen
    BY <1>1 DEF PageInv, IdsKnown, JobEnded
  <2>2. \A f \in fetches' : f.dir \notin Unseen /\ Ids(f.got) \cap Unseen = {}
    BY <1>4 DEF PageInv, IdsKnown, Like, JobEnded
  <2>3. snapshots' = snapshots /\ \A x : Ids(x)' = Ids(x)
    BY DEF JobEnded, Ids
  <2> QED
    BY <1>5, <2>1, <2>2, <2>3 DEF PageInv, IdsKnown
<1>8. CreationsApart'
  <2>1. \A t \in Calls : Makes(job'[t]) => job'[t] = job[t]
    BY <1>1 DEF JobEnded, Makes
  <2> QED
    BY <2>1, CreationsStep DEF PageInv, CreationsApart, Creating, Makes, JobEnded
<1>9. WalksCover'
  <2>1. ASSUME NEW t \in Calls PROVE WalkCovers(t)'
    <3>1. CASE t = s
      <4>1. WalkKept(t, {})
        BY <1>1, <3>1 DEF WalkKept, JobEnded
      <4> QED
        BY <1>5, <4>1, WalkStep DEF PageInv, WalksCover
    <3>2. CASE t # s
      <4>1. \A f \in fetches : f.by = t => \E g \in fetches' : Like(g, f)
        BY <1>4, <3>2 DEF JobEnded
      <4>2. WalkKept(t, {})
        BY <1>1, <3>2, <4>1 DEF WalkKept, JobEnded, Like
      <4> QED
        BY <1>5, <4>2, WalkStep DEF PageInv, WalksCover
    <3> QED
      BY <3>1, <3>2
  <2> QED
    BY <2>1 DEF WalksCover
<1>10. ListingsKept(P)
  <2>1. DebtsKept(P)
    <3>1. ASSUME NEW t \in Calls, Lists(job[t], job[t].dir),
                 job[t].phase \in {"answered", "fetching"},
                 job[t].dir \notin P
          PROVE  job'[t] = job[t]
      BY <1>1, <3>1 DEF JobEnded
    <3>2. ASSUME NEW g \in fetches, ~g.served, g.dir \notin P, Lists(job[g.by], g.dir)
          PROVE  \E h \in fetches' : h.by = g.by /\ ~h.served
      <4>1. job[g.by].phase = "fetching" /\ job[g.by].dir = g.dir
        BY <3>2 DEF PageInv, FetchesAwaited, Awaited, Lists, Writes
      <4>2. g.by # s
        BY <3>2, <4>1 DEF JobEnded, Lists
      <4>3. g \in fs
        BY <4>2 DEF JobEnded
      <4> QED
        BY <1>4, <3>2, <4>3 DEF Like
    <3> QED
      BY <3>1, <3>2 DEF DebtsKept
  <2>2. \A d \in Places \ P : (Owed(d) => Owed(d)') /\ (OwedAnew(d) => OwedAnew(d)')
    BY <2>1, DebtsStay DEF PageInv
  <2>3. \A g \in fetches' : g.served /\ g.fresh =>
          /\ g.dir \notin P
          /\ \E f \in fetches : f.served /\ f.fresh /\ f.dir = g.dir /\ f.got = g.got
    BY <1>4 DEF Like, JobEnded
  <2> QED
    BY <1>5, <2>2, <2>3 DEF ListingsKept, JobEnded, Faded
<1>11. CacheOwed' /\ AnswersOwed'
  BY <1>10, ListingsStep DEF PageInv
<1>12. LoadingIsTold'
  BY DEF JobEnded, LoadOver, PageInv, LoadingIsTold
<1> QED
  BY <1>2, <1>4, <1>6, <1>7, <1>8, <1>9, <1>11, <1>12 DEF PageInv

(* No function is a function as good as any.                               *)
LEMMA IdleJob == NoJob \in Jobs /\ Shaped(NoJob) /\ NoJob.dir \notin Unseen /\ NoJob.kind = "none"
BY DEF NoJob, Jobs, JobKinds, Writes, Shaped, Places, Unseen

(* What is left of a walk of which a part has failed.                      *)
SpentAs(j, s, fs, todo) ==
  /\ Spend(s, fs, todo) = [job EXCEPT ![s] = j]
  /\ j \in Jobs /\ Shaped(j) /\ j.dir \notin Unseen
  /\ \/ j = NoJob /\ (\A g \in fs : g.by # s) /\ todo = {}
     \/ j.kind = "add" /\ j.phase = "spent" /\ j.todo = todo

(* A walk's function is spent, or idle when nothing of it is left.         *)
LEMMA SpentJob ==
  ASSUME PageInv, NEW s \in Calls, job[s].kind = "add", NEW fs, NEW todo \in SUBSET Files
  PROVE  \E j : SpentAs(j, s, fs, todo)
<1>1. job \in [Calls -> Jobs] /\ job[s] \in Jobs /\ Shaped(job[s]) /\ job[s].dir \notin Unseen
  BY DEF PageInv, JobsShaped, IdsKnown
<1>2. CASE (\A g \in fs : g.by # s) /\ todo = {}
  BY <1>2, IdleJob DEF Spend, SpentAs
<1>3. CASE ~((\A g \in fs : g.by # s) /\ todo = {})
  <2> DEFINE j == [job[s] EXCEPT !.phase = "spent", !.todo = todo, !.kept = {}]
  <2>1. Spend(s, fs, todo) = [job EXCEPT ![s] = j]
    BY <1>1, <1>3 DEF Spend
  <2>2. j \in Jobs /\ Shaped(j) /\ j.dir = job[s].dir /\ j.kind = "add" /\ j.phase = "spent"
        /\ j.todo = todo
    BY <1>1 DEF Jobs, Shaped, Writes
  <2> QED
    BY <1>1, <2>1, <2>2 DEF SpentAs
<1> QED
  BY <1>2, <1>3

(* The end of an action leaves the dialog, or closes it.                   *)
LEMMA DialogOver ==
  ASSUME NEW k, Over(k)
  PROVE  dialog' \in {dialog, None}
BY DEF Over

(* An asset is added to the project,                                       *)
LEMMA ServeAdds ==
  ASSUME PageInv, NEW s \in Calls, NEW a \in Files, ServeAdd(s, a)
  PROVE  PageInv'
<1> DEFINE todo == job[s].todo \ {a}
<1>1. /\ job[s].kind = "add" /\ job[s].phase \in {"adding", "spent"} /\ a \in job[s].todo
      /\ used' = used \cup {a} /\ dialog' = dialog
      /\ job' = IF job[s].phase = "spent" THEN Spend(s, {}, todo) ELSE [job EXCEPT ![s].todo = todo]
      /\ UNCHANGED <<parent, name, snapshots, path, fetches, excused, loader, loading>>
  BY DEF ServeAdd, view, load, PageInv, JobsShaped
<1>2. job \in [Calls -> Jobs] /\ job[s] \in Jobs /\ Shaped(job[s]) /\ job[s].dir \notin Unseen
      /\ todo \in SUBSET Files
  BY DEF PageInv, JobsShaped, IdsKnown, Jobs
<1>3. \A f \in fetches : f.by # s
  BY <1>1 DEF PageInv, FetchesAwaited, Awaited
<1>4. Faded({}, fetches) /\ ~Lists(job[s], job[s].dir)
  BY <1>1, NothingFades DEF Lists, Writes
<1>5. CASE job[s].phase = "spent"
  <2>1. PICK j : SpentAs(j, s, {}, todo)
    BY <1>1, <1>2, SpentJob
  <2>2. JobEnded(s, j, {}, fetches)
    BY <1>1, <1>3, <1>4, <1>5, <2>1, IdleJob DEF JobEnded, SpentAs
  <2> QED
    BY <2>2, EndStep
<1>6. CASE job[s].phase = "adding"
  <2> DEFINE j == [job[s] EXCEPT !.todo = todo]
  <2>1. job' = [job EXCEPT ![s] = j]
    BY <1>1, <1>2, <1>6
  <2>2. j \in Jobs /\ Shaped(j) /\ j.dir = job[s].dir /\ j.kind = "add" /\ j.phase = "adding"
        /\ j.todo = todo /\ j.kept = job[s].kept
    BY <1>1, <1>2, <1>6 DEF Jobs, Shaped, Writes
  <2> HIDE DEF j
  <2>3. JobEnded(s, j, {}, fetches)
    BY <1>1, <1>2, <1>3, <1>4, <1>6, <2>1, <2>2 DEF JobEnded
  <2> QED
    BY <2>3, EndStep
<1> QED
  BY <1>1, <1>5, <1>6

(* the last one has been,                                                  *)
LEMMA AllAdded ==
  ASSUME PageInv, NEW s \in Calls, Added(s)
  PROVE  PageInv'
<1>1. /\ job[s].kind = "add" /\ job[s].phase = "adding" /\ job' = [job EXCEPT ![s] = NoJob]
      /\ dialog' \in {dialog, None}
      /\ UNCHANGED <<parent, name, used, snapshots, path, fetches, excused, loader, loading>>
  BY DialogOver DEF Added, load, server
<1>2. \A f \in fetches : f.by # s
  BY <1>1, NoFetch DEF PageInv
<1>3. Faded({}, fetches) /\ ~Lists(job[s], job[s].dir)
  BY <1>1, NothingFades DEF Lists, Writes
<1>4. JobEnded(s, NoJob, {}, fetches)
  BY <1>1, <1>2, <1>3, IdleJob DEF JobEnded
<1> QED
  BY <1>4, EndStep

(* The directory a function may have written to is excused when it fails.  *)
LEMMA FailEffect ==
  ASSUME PageInv, NEW s \in Calls, NEW fs, Fails(s, fs)
  PROVE  \E P : /\ Faded(P, fs)
                /\ job[s].phase # "asked" /\ Lists(job[s], job[s].dir) => job[s].dir \in P
                /\ dialog' \in {dialog, None} /\ LoadOver(s)
                /\ UNCHANGED <<parent, name, used, snapshots, path>>
<1> DEFINE P == IF job[s].phase # "asked" /\ job[s].kind \notin {"load", "add"}
                THEN {job[s].dir} ELSE {}
<1>1. Excuse(P, fs) /\ LoadOver(s) /\ UNCHANGED <<parent, name, used, snapshots, path>>
      /\ dialog' \in {dialog, None}
  BY DialogOver DEF Fails, server
<1>2. job[s].phase # "asked" /\ Lists(job[s], job[s].dir) => job[s].dir \in P
  BY DEF Lists, Writes
<1> QED
  BY <1>1, <1>2, ExcuseFades

(* A write fails, or its answer is lost,                                   *)
LEMMA FailedWrite ==
  ASSUME PageInv, NEW s \in Calls, FailWrite(s)
  PROVE  PageInv'
<1>1. job[s].phase \in {"asked", "answered"} /\ Fails(s, fetches)
      /\ job' = [job EXCEPT ![s] = NoJob]
  BY DEF FailWrite
<1>2. \A f \in fetches : f.by # s
  BY <1>1, NoFetch DEF PageInv
<1>3. PICK P : /\ Faded(P, fetches)
               /\ job[s].phase # "asked" /\ Lists(job[s], job[s].dir) => job[s].dir \in P
               /\ dialog' \in {dialog, None} /\ LoadOver(s)
               /\ UNCHANGED <<parent, name, used, snapshots, path>>
  BY <1>1, FailEffect
<1>4. JobEnded(s, NoJob, P, fetches)
  BY <1>1, <1>2, <1>3, IdleJob DEF JobEnded
<1> QED
  BY <1>4, EndStep

(* a listing is not had,                                                   *)
LEMMA FailedFetch ==
  ASSUME PageInv, NEW f \in fetches, FailFetch(f)
  PROVE  PageInv'
<1> DEFINE s == f.by
           fs == fetches \ {f}
<1>1. s \in Calls /\ job[s].kind # "add" /\ Fails(s, fs) /\ job' = [job EXCEPT ![s] = NoJob]
  BY DEF FailFetch, PageInv, FetchesAwaited, Requests
<1>2. \A g \in fs : g.by # s
  BY <1>1 DEF PageInv, FetchesAwaited
<1>3. PICK P : /\ Faded(P, fs)
               /\ job[s].phase # "asked" /\ Lists(job[s], job[s].dir) => job[s].dir \in P
               /\ dialog' \in {dialog, None} /\ LoadOver(s)
               /\ UNCHANGED <<parent, name, used, snapshots, path>>
  BY <1>1, FailEffect
<1>4. JobEnded(s, NoJob, P, fs)
  BY <1>1, <1>2, <1>3, IdleJob DEF JobEnded
<1> QED
  BY <1>1, <1>4, EndStep

(* a directory of a walk is not,                                           *)
LEMMA FailedWalk ==
  ASSUME PageInv, NEW f \in fetches, FailWalk(f)
  PROVE  PageInv'
<1> DEFINE s == f.by
           fs == fetches \ {f}
<1>1. /\ s \in Calls /\ job[s].kind = "add" /\ job' = Spend(s, fs, {})
      /\ IF job[s].phase = "spent"
           THEN fetches' = fs /\ UNCHANGED <<parent, name, used, snapshots, path, dialog, excused,
                                            loader, loading>>
           ELSE Fails(s, fs)
  BY DEF FailWalk, PageInv, FetchesAwaited, Requests, server, view, load
<1>2. PICK j : SpentAs(j, s, fs, {})
  BY <1>1, SpentJob
<1>3. \A g \in fs : g.by = s => j.kind = "add" /\ Awaited(g, j)
  BY <1>1, <1>2 DEF PageInv, FetchesAwaited, Awaited, SpentAs
<1>4. ~Lists(job[s], job[s].dir)
  BY <1>1 DEF Lists, Writes
<1>5. CASE job[s].phase = "spent"
  <2>1. Faded({}, fs)
    BY <1>1, <1>5, NothingFadesIn
  <2>2. JobEnded(s, j, {}, fs)
    BY <1>1, <1>2, <1>3, <1>4, <1>5, <2>1, IdleJob DEF JobEnded, SpentAs
  <2> QED
    BY <1>1, <2>2, EndStep
<1>6. CASE job[s].phase # "spent"
  <2>1. PICK P : /\ Faded(P, fs)
                 /\ dialog' \in {dialog, None} /\ LoadOver(s)
                 /\ UNCHANGED <<parent, name, used, snapshots, path>>
    BY <1>1, <1>6, FailEffect
  <2>2. JobEnded(s, j, P, fs)
    BY <1>1, <1>2, <1>3, <1>4, <2>1, IdleJob DEF JobEnded, SpentAs
  <2> QED
    BY <1>1, <2>2, EndStep
<1> QED
  BY <1>5, <1>6

(* an asset is not added.                                                  *)
LEMMA FailedAdd ==
  ASSUME PageInv, NEW s \in Calls, NEW a \in Files, FailAdd(s, a)
  PROVE  PageInv'
<1> DEFINE todo == job[s].todo \ {a}
<1>1. /\ job[s].kind = "add" /\ job[s].phase \in {"adding", "spent"} /\ a \in job[s].todo
      /\ job' = Spend(s, {}, todo)
      /\ IF job[s].phase = "spent"
           THEN UNCHANGED <<parent, name, used, snapshots, path, dialog, fetches, excused,
                            loader, loading>>
           ELSE Fails(s, fetches)
  BY DEF FailAdd, server, view, load
<1>2. todo \in SUBSET Files
  BY DEF PageInv, JobsShaped, Jobs
<1>3. PICK j : SpentAs(j, s, {}, todo)
  BY <1>1, <1>2, SpentJob
<1>4. \A f \in fetches : f.by # s
  BY <1>1 DEF PageInv, FetchesAwaited, Awaited
<1>5. ~Lists(job[s], job[s].dir)
  BY <1>1 DEF Lists, Writes
<1>6. CASE job[s].phase = "spent"
  <2>1. JobEnded(s, j, {}, fetches)
    BY <1>1, <1>3, <1>4, <1>5, <1>6, IdleJob, NothingFades DEF JobEnded, SpentAs
  <2> QED
    BY <2>1, EndStep
<1>7. CASE job[s].phase # "spent"
  <2>1. PICK P : /\ Faded(P, fetches)
                 /\ dialog' \in {dialog, None} /\ LoadOver(s)
                 /\ UNCHANGED <<parent, name, used, snapshots, path>>
    BY <1>1, <1>7, FailEffect
  <2>2. JobEnded(s, j, P, fetches)
    BY <1>1, <1>3, <1>4, <1>5, <2>1, IdleJob DEF JobEnded, SpentAs
  <2> QED
    BY <2>2, EndStep
<1> QED
  BY <1>6, <1>7

-----------------------------------------------------------------------------
(* The server lists a directory. *)

(* What a request becomes when f is served.                                *)
Served(g, f) ==
  IF g = f THEN [f EXCEPT !.served = TRUE, !.fresh = TRUE, !.got = Listing(f.dir)]
  ELSE IF g.dir = f.dir THEN [g EXCEPT !.fresh = FALSE] ELSE g

(* Its request is served, and an older answer is no longer fresh.          *)
LEMMA ServedAs ==
  ASSUME JobsShaped, NEW f \in Requests, NEW g \in Requests
  PROVE  /\ Served(g, f) \in Requests /\ Served(g, f).by = g.by /\ Served(g, f).dir = g.dir
         /\ g # f => Like(Served(g, f), g) /\ (Served(g, f).fresh => g.fresh /\ g.dir # f.dir)
         /\ g = f => Served(g, f).served /\ Served(g, f).got = Listing(f.dir)
<1>1. Listing(f.dir) \in Listings
  BY DEF Listing, Listings, JobsShaped
<1> QED
  BY <1>1 DEF Served, Requests, Like

(* The listing is that of the directory as it is now.                      *)
LEMMA ServeFetches ==
  ASSUME PageInv, NEW f \in fetches, ServeFetch(f)
  PROVE  PageInv'
<1>1. /\ ~f.served /\ CanHold(f.dir)
      /\ fetches' = {Served(g, f) : g \in fetches}
      /\ UNCHANGED <<parent, name, used, snapshots, path, dialog, job, excused, loader, loading>>
  <2>1. {Served(g, f) : g \in fetches} =
          {IF g.dir = f.dir THEN [g EXCEPT !.fresh = FALSE] ELSE g : g \in fetches \ {f}}
            \cup {[f EXCEPT !.served = TRUE, !.fresh = TRUE, !.got = Listing(f.dir)]}
    BY DEF Served
  <2> QED
    BY <2>1 DEF ServeFetch, server, view, load
<1>2. fetches \subseteq Requests
  BY DEF PageInv, FetchesAwaited
<1>3. \A g \in fetches :
         /\ Served(g, f) \in Requests /\ Served(g, f).by = g.by /\ Served(g, f).dir = g.dir
         /\ g # f => Like(Served(g, f), g) /\ (Served(g, f).fresh => g.fresh /\ g.dir # f.dir)
         /\ g = f => Served(g, f).served /\ Served(g, f).got = Listing(f.dir)
  BY <1>2, ServedAs DEF PageInv
<1>4. Unseen' = Unseen /\ Moves({}) /\ \A d : CanHold(d)' = CanHold(d) /\ Listing(d)' = Listing(d)
  BY <1>1, TreeKept
<1>5. JobsShaped' /\ CreationsApart' /\ LoadingIsTold'
  BY <1>1 DEF PageInv, JobsShaped, CreationsApart, Creating, Makes, LoadingIsTold
<1>6. FetchesAwaited'
  <2>1. fetches' \subseteq Requests
    BY <1>1, <1>3
  <2>2. \A g \in fetches' : Awaited(g, job[g.by])'
    <3>1. \A g \in fetches' : Awaited(g, job[g.by])
      BY <1>1, <1>3 DEF PageInv, FetchesAwaited, Awaited
    <3> QED
      BY <1>1, <3>1 DEF Awaited
  <2>3. ASSUME NEW g \in fetches', NEW h \in fetches', g.by = h.by, job'[g.by].kind # "add"
        PROVE  g = h
    <3>1. PICK g0 \in fetches : g = Served(g0, f)
      BY <1>1
    <3>2. PICK h0 \in fetches : h = Served(h0, f)
      BY <1>1
    <3>3. g0 = h0
      BY <1>1, <1>3, <2>3, <3>1, <3>2 DEF PageInv, FetchesAwaited
    <3> QED
      BY <3>1, <3>2, <3>3
  <2> QED
    BY <2>1, <2>2, <2>3 DEF FetchesAwaited
<1>7. ViewKnown'
  BY <1>1, <1>4, ViewStays DEF PageInv, ViewKnown
<1>8. IdsKnown'
  <2>1. Ids(Listing(f.dir)) \cap Unseen = {}
    <3>1. f.dir # Unborn
      BY <1>2 DEF Requests, Places, Entries
    <3>2. \A e \in Ids(Listing(f.dir)) : e \in Entries /\ parent[e] = f.dir
      BY DEF Ids, Listing
    <3> QED
      BY <3>1, <3>2 DEF Unseen
  <2>2. \A g \in fetches' : g.dir \notin Unseen /\ Ids(g.got) \cap Unseen = {}
    BY <1>1, <1>3, <2>1 DEF PageInv, IdsKnown, Like
  <2>3. \A x : Ids(x)' = Ids(x)
    BY DEF Ids
  <2> QED
    BY <1>1, <1>4, <2>2, <2>3 DEF PageInv, IdsKnown
<1>9. WalksCover'
  <2>1. ASSUME NEW s \in Calls PROVE WalkCovers(s)'
    <3>1. \A d : Below(d)' = Below(d)
      BY <1>1 DEF Below, Closed
    <3>2. ASSUME NEW a \in Files, NEW g \in fetches, g.by = s, job[s].kind = "add", InReach(a, g)
          PROVE  \E h \in fetches' : h.by = s /\ InReach(a, h)'
      <4>1. Served(g, f) \in fetches' /\ Served(g, f).by = s
        BY <1>1, <1>3, <3>2
      <4>2. CASE g # f
        <5>1. InReach(a, Served(g, f))
          BY <1>3, <3>2, <4>2 DEF InReach, Like
        <5>2. PICK h : h = Served(g, f)
          OBVIOUS
        <5>3. InReach(a, h)'
          BY <3>1, <5>1, <5>2 DEF InReach, Ids
        <5> QED
          BY <4>1, <5>2, <5>3
      <4>3. CASE g = f
        <5>1. a \in Below(f.dir) /\ f.dir \in Dirs /\ a # f.dir
          BY <1>1, <3>2, <4>3 DEF InReach, PageInv, FetchesAwaited, Awaited
        <5>2. PICK c \in Entries : parent[c] = f.dir /\ a \in Below(c)
          BY <5>1, BelowChild DEF Entries
        <5>3. c \in Ids(Listing(f.dir))
          <6>1. <<c, name[c]>> \in Listing(f.dir) /\ <<c, name[c]>>[1] = c
            BY <5>2 DEF Listing
          <6> QED
            BY <6>1 DEF Ids
        <5>4. PICK h : h = Served(g, f)
          OBVIOUS
        <5>5. h.served /\ c \in Ids(h.got)
          BY <1>3, <4>3, <5>3, <5>4
        <5>6. InReach(a, h)'
          BY <3>1, <5>2, <5>5 DEF InReach, Ids
        <5> QED
          BY <4>1, <5>4, <5>6
      <4> QED
        BY <4>2, <4>3
    <3>3. job[s].kept \subseteq Files
      BY DEF PageInv, JobsShaped, Jobs
    <3> QED
      BY <1>1, <3>2, <3>3 DEF PageInv, WalksCover, WalkCovers
  <2> QED
    BY <2>1 DEF WalksCover
<1>10. CacheOwed'
  <2>1. \A d : Owed(d)' = Owed(d)
    BY <1>1 DEF Owed
  <2> QED
    BY <1>1, <1>4, <2>1 DEF PageInv, CacheOwed
<1>11. AnswersOwed'
  <2>1. ASSUME NEW h \in fetches', h.served, h.fresh, CanHold(h.dir)'
        PROVE  h.got = Listing(h.dir)' \/ OwedAnew(h.dir)'
    <3>1. PICK g \in fetches : h = Served(g, f)
      BY <1>1
    <3>2. CASE g = f
      BY <1>3, <1>4, <3>1, <3>2
    <3>3. CASE g # f
      <4>1. g.served /\ g.fresh /\ g.dir # f.dir /\ g.dir = h.dir /\ g.got = h.got
        BY <1>3, <2>1, <3>1, <3>3 DEF Like
      <4>2. g.got = Listing(g.dir) \/ OwedAnew(g.dir)
        BY <1>4, <2>1, <4>1 DEF PageInv, AnswersOwed
      <4>3. ASSUME OwedAnew(g.dir) PROVE OwedAnew(h.dir)'
        <5>1. PICK s \in Calls :
                /\ Lists(job[s], g.dir)
                /\ \/ job[s].phase = "answered"
                   \/ job[s].phase = "fetching" /\ \E x \in fetches : x.by = s /\ ~x.served
          BY <4>3 DEF OwedAnew
        <5>2. CASE job[s].phase = "answered"
          BY <1>1, <4>1, <5>1, <5>2 DEF OwedAnew
        <5>3. ASSUME NEW x \in fetches, x.by = s, ~x.served, job[s].phase = "fetching"
              PROVE  OwedAnew(h.dir)'
          <6>1. x.dir = g.dir
            BY <5>1, <5>3 DEF PageInv, FetchesAwaited, Awaited, Lists, Writes
          <6>2. Served(x, f) \in fetches' /\ Served(x, f).by = s /\ ~Served(x, f).served
            BY <1>1, <1>3, <4>1, <5>3, <6>1 DEF Like
          <6> QED
            BY <1>1, <4>1, <5>1, <5>3, <6>2 DEF OwedAnew
        <5> QED
          BY <5>1, <5>2, <5>3
      <4> QED
        BY <1>4, <4>1, <4>2, <4>3
    <3> QED
      BY <3>2, <3>3
  <2> QED
    BY <2>1 DEF AnswersOwed
<1> QED
  BY <1>5, <1>6, <1>7, <1>8, <1>9, <1>10, <1>11 DEF PageInv

-----------------------------------------------------------------------------
(* The page keeps a listing. *)

(* What s and f were for is over, or goes on in requests of a walk.        *)
Taken(f) ==
  LET s == f.by IN
  /\ f.served
  /\ snapshots' = [d \in DOMAIN snapshots \cup {f.dir} |->
                     IF d = f.dir THEN f.got ELSE snapshots[d]]
  /\ excused' = IF f.fresh THEN excused \ {f.dir} ELSE excused \cup {f.dir}
  /\ UNCHANGED <<parent, name>>
  /\ \A t \in Calls \ {s} : job'[t] = job[t]
  /\ fetches \ {f} \subseteq fetches' /\ \A g \in fetches' : g.served => g \in fetches \ {f}

(* The listing that is kept is right, excused or owed again.               *)
LEMMA TakenListings ==
  ASSUME PageInv, NEW f \in fetches, Taken(f)
  PROVE  CacheOwed' /\ AnswersOwed'
<1> DEFINE s == f.by
<1>1. Awaited(f, job[s]) /\ s \in Calls
  BY DEF PageInv, FetchesAwaited, Requests
<1>2. \A d : CanHold(d)' = CanHold(d) /\ Listing(d)' = Listing(d)
  BY DEF Taken, CanHold, Exists, Listing
<1>3. ASSUME NEW d, OwedAnew(d) PROVE OwedAnew(d)'
  <2>1. PICK t \in Calls :
          /\ Lists(job[t], d)
          /\ \/ job[t].phase = "answered"
             \/ job[t].phase = "fetching" /\ \E g \in fetches : g.by = t /\ ~g.served
    BY <1>3 DEF OwedAnew
  <2>2. CASE job[t].phase = "answered"
    <3>1. t # s
      BY <1>1, <2>1, <2>2 DEF Awaited, Lists, Writes
    <3> QED
      BY <2>1, <2>2, <3>1 DEF Taken, OwedAnew
  <2>3. ASSUME NEW g \in fetches, g.by = t, ~g.served, job[t].phase = "fetching" PROVE OwedAnew(d)'
    <3>1. t # s
      BY <2>1, <2>3 DEF Taken, PageInv, FetchesAwaited, Lists, Writes
    <3>2. g \in fetches'
      BY <2>3 DEF Taken
    <3> QED
      BY <2>1, <2>3, <3>1, <3>2 DEF Taken, OwedAnew
  <2> QED
    BY <2>1, <2>2, <2>3
<1>4. ASSUME NEW d, OwedAnew(d)' PROVE Owed(d)'
  BY <1>4 DEF OwedAnew, Owed
<1>5. ASSUME NEW d \in DOMAIN snapshots', d \notin excused', CanHold(d)'
      PROVE  snapshots'[d] = Listing(d)' \/ Owed(d)'
  <2>1. CASE d = f.dir
    <3>1. f.served /\ f.fresh /\ CanHold(f.dir) /\ snapshots'[d] = f.got
      BY <1>2, <1>5, <2>1 DEF Taken
    <3>2. f.got = Listing(f.dir) \/ OwedAnew(f.dir)
      BY <3>1 DEF PageInv, AnswersOwed
    <3>3. OwedAnew(f.dir) => OwedAnew(d)'
      BY <1>3, <2>1
    <3> QED
      BY <1>2, <1>4, <2>1, <3>1, <3>2, <3>3
  <2>2. CASE d # f.dir
    <3>1. d \in DOMAIN snapshots /\ d \notin excused /\ CanHold(d) /\ snapshots'[d] = snapshots[d]
      BY <1>2, <1>5, <2>2 DEF Taken
    <3>2. snapshots[d] = Listing(d) \/ Owed(d)
      BY <3>1 DEF PageInv, CacheOwed
    <3>3. ASSUME Owed(d) PROVE Owed(d)'
      <4>1. PICK t \in Calls : Lists(job[t], d) /\ job[t].phase \in {"answered", "fetching"}
        BY <3>3 DEF Owed
      <4>2. t # s
        BY <1>1, <2>2, <4>1 DEF Awaited, Lists, Writes
      <4> QED
        BY <4>1, <4>2 DEF Taken, Owed
    <3> QED
      BY <1>2, <3>1, <3>2, <3>3
  <2> QED
    BY <2>1, <2>2
<1>6. ASSUME NEW g \in fetches', g.served, g.fresh, CanHold(g.dir)'
      PROVE  g.got = Listing(g.dir)' \/ OwedAnew(g.dir)'
  <2>1. g \in fetches
    BY <1>6 DEF Taken
  <2>2. PICK d : d = g.dir
    OBVIOUS
  <2>3. g.got = Listing(d) \/ OwedAnew(d)
    BY <1>2, <1>6, <2>1, <2>2 DEF PageInv, AnswersOwed
  <2> QED
    BY <1>2, <1>3, <2>2, <2>3
<1> QED
  BY <1>5, <1>6 DEF CacheOwed, AnswersOwed

(* It shows only ids the server has given out.                             *)
LEMMA TakenCache ==
  ASSUME PageInv, NEW f \in fetches, Taken(f)
  PROVE  /\ Unseen' = Unseen /\ Moves({})
         /\ \A d \in DOMAIN snapshots' : d \in Places /\ snapshots'[d] \in Listings
         /\ \A d \in DOMAIN snapshots' : d \notin Unseen /\ Ids(snapshots'[d]) \cap Unseen = {}
<1>1. f \in Requests
  BY DEF PageInv, FetchesAwaited
<1>2. UNCHANGED <<parent, name>>
  BY DEF Taken
<1> QED
  BY <1>1, <1>2, TreeKept DEF Taken, PageInv, IdsKnown, Requests

(* A function that awaited it is over,                                     *)
LEMMA Lands ==
  ASSUME PageInv, NEW f \in fetches, Land(f)
  PROVE  PageInv'
<1> DEFINE s == f.by
<1>1. /\ f.served /\ job[s].kind # "add" /\ fetches' = fetches \ {f}
      /\ job' = [job EXCEPT ![s] = NoJob] /\ LoadOver(s) /\ dialog' \in {dialog, None}
      /\ UNCHANGED <<parent, name, used, path>>
  BY DialogOver DEF Land, Keep, server
<1>2. s \in Calls /\ job \in [Calls -> Jobs] /\ \A g \in fetches \ {f} : g.by \in Calls \ {s}
  BY <1>1 DEF PageInv, FetchesAwaited, Requests, JobsShaped
<1>3. job'[s] = NoJob /\ \A t \in Calls \ {s} : job'[t] = job[t]
  BY <1>1, <1>2
<1>4. Taken(f)
  BY <1>1, <1>3 DEF Land, Keep, Taken
<1>5. JobsShaped'
  BY <1>1, <1>2, <1>3, IdleJob DEF PageInv, JobsShaped
<1>6. FetchesAwaited'
  <2>1. \A g \in fetches' : g \in fetches /\ job'[g.by] = job[g.by]
    BY <1>1, <1>2, <1>3
  <2>2. \A g \in fetches' : Awaited(g, job[g.by])'
    BY <2>1 DEF PageInv, FetchesAwaited, Awaited
  <2> QED
    BY <1>1, <2>1, <2>2 DEF PageInv, FetchesAwaited
<1>7. Unseen' = Unseen /\ Moves({})
  BY <1>4, TakenCache
<1>8. ViewKnown'
  BY <1>1, <1>7, ViewStays DEF PageInv, ViewKnown
<1>9. IdsKnown'
  <2>1. \A t \in Calls : job'[t].dir \notin Unseen
    BY <1>3, IdleJob DEF PageInv, IdsKnown
  <2>2. \A x : Ids(x)' = Ids(x)
    BY DEF Ids
  <2> QED
    BY <1>1, <1>4, <1>7, <2>1, <2>2, TakenCache DEF PageInv, IdsKnown
<1>10. CreationsApart'
  <2>1. \A t \in Calls : Makes(job'[t]) => job'[t] = job[t]
    BY <1>3, IdleJob DEF Makes
  <2> QED
    BY <1>1, <2>1, CreationsStep DEF PageInv, CreationsApart, Creating, Makes
<1>11. WalksCover'
  <2>1. ASSUME NEW t \in Calls PROVE WalkCovers(t)'
    <3>1. WalkKept(t, {})
      BY <1>1, <1>3, IdleJob DEF WalkKept
    <3> QED
      BY <1>7, <3>1, WalkStep DEF PageInv, WalksCover
  <2> QED
    BY <2>1 DEF WalksCover
<1>12. LoadingIsTold'
  BY <1>1 DEF LoadOver, PageInv, LoadingIsTold
<1> QED
  BY <1>4, <1>5, <1>6, <1>8, <1>9, <1>10, <1>11, <1>12, TakenListings DEF PageInv

(* a walk goes on in the directories it shows, or begins to add.           *)
LEMMA Walks ==
  ASSUME PageInv, NEW f \in fetches, Walk(f)
  PROVE  PageInv'
<1> DEFINE s == f.by
           found == job[s].todo \cup (Ids(f.got) \cap Files)
           asks == {Request(s, d) : d \in Ids(f.got) \cap Dirs}
           rest == (fetches \ {f}) \cup asks
           ends == \A g \in rest : g.by # s
           todo == IF job[s].phase = "spent" THEN {} ELSE found
           phase == IF ends THEN "adding" ELSE job[s].phase
           j == IF ends /\ job[s].phase = "spent" THEN NoJob
                ELSE [job[s] EXCEPT !.todo = todo, !.phase = phase]
<1>1. s \in Calls /\ f \in Requests /\ job \in [Calls -> Jobs] /\ job[s] \in Jobs
      /\ Shaped(job[s]) /\ Awaited(f, job[s]) /\ job[s].dir \notin Unseen
  BY DEF PageInv, FetchesAwaited, Requests, JobsShaped, IdsKnown
<1>2. /\ f.served /\ job[s].kind = "add" /\ fetches' = rest
      /\ UNCHANGED <<parent, name, used, path, dialog, loader, loading>>
  BY DEF Walk, Keep, server, view
<1>3. job' = [job EXCEPT ![s] = j]
  BY <1>1 DEF Walk
<1>4. \A g \in asks : /\ g \in Requests /\ g.by = s /\ ~g.served /\ g.got = {}
                      /\ g.dir \in Dirs \ Unseen
  <2>1. ASSUME NEW d \in Ids(f.got) \cap Dirs
        PROVE  /\ Request(s, d) \in Requests /\ Request(s, d).by = s /\ ~Request(s, d).served
               /\ Request(s, d).got = {} /\ Request(s, d).dir = d /\ d \in Dirs \ Unseen
    <3>1. d \in Dirs \ Unseen /\ d \in Places
      BY DEF PageInv, IdsKnown, Places
    <3> QED
      BY <1>1, <3>1 DEF Request, Requests, Listings
  <2> QED
    BY <2>1
<1>5. \A d \in Ids(f.got) \cap Dirs : Request(s, d) \in rest /\ Request(s, d).dir = d
                                      /\ Request(s, d).by = s /\ ~Request(s, d).served
  BY DEF Request
<1>6. found \in SUBSET Files /\ todo \in SUBSET Files
  BY <1>1 DEF Jobs
<1>7. job[s].phase = "walking" \/ (job[s].phase = "spent" /\ job[s].todo = {})
  BY <1>1, <1>2 DEF Awaited
<1>8. \/ j = NoJob /\ ends /\ job[s].phase = "spent"
      \/ /\ j.kind = "add" /\ j.dir = job[s].dir /\ j.kept = job[s].kept
         /\ \/ job[s].phase = "spent" /\ j.phase = "spent" /\ j.todo = {} /\ ~ends
            \/ job[s].phase = "walking" /\ j.phase = "walking" /\ j.todo = found /\ ~ends
            \/ job[s].phase = "walking" /\ j.phase = "adding" /\ j.todo = found /\ ends
  BY <1>1, <1>2, <1>7 DEF Jobs
<1>9. j \in Jobs /\ Shaped(j) /\ j.dir \notin Unseen
  BY <1>1, <1>2, <1>6, <1>7, IdleJob DEF Jobs, Shaped, Writes
<1>10. \A g \in fetches \ {f} : g \in fetches' /\ g \in Requests
  BY <1>2 DEF PageInv, FetchesAwaited
<1>11. \A g \in fetches' : g \in fetches \ {f} \/ g \in asks
  BY <1>2
<1> HIDE DEF j, todo, phase, found, rest, asks
<1>12. job'[s] = j /\ \A t \in Calls \ {s} : job'[t] = job[t]
  BY <1>1, <1>3
<1>13. Taken(f)
  BY <1>2, <1>4, <1>10, <1>11, <1>12 DEF Walk, Keep, Taken
<1>14. JobsShaped'
  BY <1>1, <1>2, <1>3, <1>9, <1>12 DEF PageInv, JobsShaped
<1>15. FetchesAwaited'
  <2>1. fetches' \subseteq Requests
    BY <1>4, <1>10, <1>11
  <2>2. ASSUME NEW g \in fetches' PROVE Awaited(g, job'[g.by])
    <3>1. CASE g.by # s
      <4>1. g \in fetches /\ g.by \in Calls
        BY <1>4, <1>11, <2>1, <3>1 DEF Requests
      <4> QED
        BY <1>12, <3>1, <4>1 DEF PageInv, FetchesAwaited
    <3>2. CASE g.by = s
      <4>1. ~ends
        BY <1>2, <3>2
      <4>2. g.dir \in Dirs
        BY <1>2, <1>4, <1>11, <3>2 DEF PageInv, FetchesAwaited, Awaited
      <4>3. j.kind = "add" /\ (j.phase = "walking" \/ (j.phase = "spent" /\ j.todo = {}))
        BY <1>8, <4>1
      <4> QED
        BY <1>12, <3>2, <4>2, <4>3 DEF Awaited
    <3> QED
      BY <3>1, <3>2
  <2>3. \A g \in fetches' : Awaited(g, job[g.by])'
    BY <2>2 DEF Awaited
  <2>4. ASSUME NEW g \in fetches', NEW h \in fetches', g.by = h.by, job'[g.by].kind # "add"
        PROVE  g = h
    <3>1. g.by # s
      <4>1. CASE g.by = s
        BY <1>2, <1>8, <1>12, <2>4, <4>1
      <4> QED
        BY <4>1
    <3>2. g \in fetches /\ h \in fetches /\ g.by \in Calls
      BY <1>4, <1>11, <2>1, <2>4, <3>1 DEF Requests
    <3> QED
      BY <1>12, <2>4, <3>1, <3>2 DEF PageInv, FetchesAwaited
  <2> QED
    BY <2>1, <2>3, <2>4 DEF FetchesAwaited
<1>16. Unseen' = Unseen /\ Moves({})
  BY <1>13, TakenCache
<1>17. ViewKnown'
  BY <1>2, <1>16, ViewStays DEF PageInv, ViewKnown
<1>18. IdsKnown'
  <2>1. \A t \in Calls : job'[t].dir \notin Unseen
    BY <1>9, <1>12 DEF PageInv, IdsKnown
  <2>2. Ids({}) = {} /\ \A x : Ids(x)' = Ids(x)
    BY DEF Ids
  <2>3. \A g \in fetches' : g.dir \notin Unseen /\ Ids(g.got) \cap Unseen = {}
    BY <1>4, <1>11, <2>2 DEF PageInv, IdsKnown
  <2> QED
    BY <1>13, <1>16, <2>1, <2>2, <2>3, TakenCache DEF IdsKnown
<1>19. CreationsApart'
  <2>1. \A t \in Calls : Makes(job'[t]) => job'[t] = job[t]
    BY <1>8, <1>12, IdleJob DEF Makes
  <2> QED
    BY <1>2, <2>1, CreationsStep DEF PageInv, CreationsApart, Creating, Makes
<1>20. WalksCover'
  <2>1. ASSUME NEW t \in Calls, t # s PROVE WalkCovers(t)'
    <3>1. WalkKept(t, {})
      BY <1>2, <1>10, <1>12, <2>1 DEF WalkKept
    <3> QED
      BY <1>16, <3>1, WalkStep DEF PageInv, WalksCover
  <2>2. \A d : Below(d)' = Below(d)
    BY <1>2 DEF Below, Closed
  <2>3. ASSUME job[s].phase = "walking", NEW a \in job[s].kept, a \notin found
        PROVE  \E g \in fetches' : g.by = s /\ InReach(a, g)
    <3>1. a \notin job[s].todo
      BY <2>3 DEF found
    <3>2. PICK g \in fetches : g.by = s /\ InReach(a, g)
      BY <1>1, <1>2, <2>3, <3>1 DEF PageInv, WalksCover, WalkCovers
    <3>3. CASE g # f
      BY <1>10, <3>2, <3>3
    <3>4. CASE g = f
      <4>1. PICK c \in Ids(f.got) : a \in Below(c)
        BY <1>2, <3>2, <3>4 DEF InReach
      <4>2. c \in Entries
        BY <1>1 DEF Requests, Listings, Ids
      <4>3. c \notin Files
        <5>1. c \in Files => a = c
          BY <4>1, BelowFile DEF PageInv
        <5> QED
          BY <2>3, <5>1 DEF found
      <4>4. Request(s, c) \in fetches' /\ Request(s, c).dir = c
            /\ Request(s, c).by = s /\ ~Request(s, c).served
        BY <1>2, <1>5, <4>2, <4>3 DEF Entries
      <4>5. InReach(a, Request(s, c))
        BY <4>1, <4>4 DEF InReach
      <4> QED
        BY <4>4, <4>5
    <3> QED
      BY <3>3, <3>4
  <2>4. ASSUME NEW a, NEW g, InReach(a, g) PROVE InReach(a, g)'
    BY <2>2, <2>4 DEF InReach, Ids
  <2>5. \A t \in Calls : t = s => WalkCovers(t)'
    <3>1. SUFFICES ASSUME NEW t \in Calls, t = s PROVE WalkCovers(t)'
      OBVIOUS
    <3> QED
      BY <1>2, <1>8, <1>12, <2>3, <2>4, <3>1, IdleJob DEF WalkCovers
  <2> QED
    BY <2>1, <2>5 DEF WalksCover
<1>21. LoadingIsTold'
  BY <1>2 DEF PageInv, LoadingIsTold
<1> QED
  BY <1>13, <1>14, <1>15, <1>17, <1>18, <1>19, <1>20, <1>21, TakenListings DEF PageInv

-----------------------------------------------------------------------------
(* The page as a whole *)

(* The page as it is mounted.                                              *)
LEMMA PageInvInit == PageInit => PageInv
<1> SUFFICES ASSUME PageInit PROVE PageInv
  OBVIOUS
<1>1. JobsShaped
  BY StartsAssumption, IdleJob DEF PageInit, JobsShaped
<1>2. path \in Seq(Dirs \ Unseen) /\ DOMAIN snapshots = {}
  BY DEF PageInit
<1>3. DialogKnown(dialog)
  BY DEF PageInit, DialogKnown, None, About, Unseen
<1>4. FetchesAwaited /\ AnswersOwed /\ LoadingIsTold /\ CacheOwed
  BY <1>2 DEF PageInit, FetchesAwaited, AnswersOwed, LoadingIsTold, CacheOwed
<1>5. IdsKnown
  BY <1>2, IdleJob DEF PageInit, IdsKnown
<1>6. CreationsApart /\ WalksCover
  BY IdleJob DEF PageInit, CreationsApart, Creating, Makes, WalksCover, WalkCovers
<1> QED
  BY <1>1, <1>2, <1>3, <1>4, <1>5, <1>6 DEF PageInv, ViewKnown

(* Every step of the user, the server, and the page.                       *)
LEMMA PageInvStep == PageInv /\ [PageNext]_pageVars => PageInv'
<1> SUFFICES ASSUME PageInv, [PageNext]_pageVars PROVE PageInv'
  OBVIOUS
<1>1. CASE LoadEffect
  BY <1>1, Loads
<1>2. CASE User
  <2>1. CASE \/ \E e \in Entries : OpenDirectory(e)
             \/ \E n \in 0 .. MaxDepth : NavigateTo(n)
             \/ \E e \in Entries, dropdown \in BOOLEAN,
                   kind \in {"create", "upload", "rename", "move", "delete"} :
                  OpenDialog(kind, e, dropdown)
             \/ \E kind \in {"create", "upload"} : OpenHere(kind)
             \/ CloseDialog \/ CloseError
    BY <2>1, Browsing
  <2>2. CASE \/ Submit \/ \E to \in Places : SubmitMove(to)
             \/ \E e \in Entries : SubmitCreate(e) \/ SubmitUpload(e)
    BY <2>2, Submitting
  <2>3. ASSUME NEW e \in Entries, NEW dropdown \in BOOLEAN, AddToProject(e, dropdown) PROVE PageInv'
    BY <2>3, Adding
  <2> QED
    BY <1>2, <2>1, <2>2, <2>3 DEF User
<1>3. CASE Server
  <2>1. ASSUME NEW s \in Calls,
               ServeCreate(s) \/ ServeRename(s) \/ ServeMove(s) \/ ServeDelete(s)
        PROVE  PageInv'
    BY <2>1, ServeCreates, ServeRenames, ServeMoves, ServeDeletes
  <2>2. ASSUME NEW s \in Calls, NEW a \in Files, ServeAdd(s, a) PROVE PageInv'
    BY <2>2, ServeAdds
  <2>3. ASSUME NEW f \in fetches, ServeFetch(f) PROVE PageInv'
    BY <2>3, ServeFetches
  <2>4. ASSUME NEW e \in Entries, NEW to \in Places, OtherMoves(e, to) PROVE PageInv'
    BY <2>4, OthersMove
  <2> QED
    BY <1>3, <2>1, <2>2, <2>3, <2>4 DEF Server
<1>4. CASE Answers
  <2>1. ASSUME NEW s \in Calls, Refetch(s) \/ Added(s) \/ FailWrite(s) PROVE PageInv'
    BY <2>1, Refetching, AllAdded, FailedWrite
  <2>2. ASSUME NEW f \in fetches, Land(f) \/ Walk(f) \/ FailFetch(f) \/ FailWalk(f) PROVE PageInv'
    BY <2>2, Lands, Walks, FailedFetch, FailedWalk
  <2>3. ASSUME NEW s \in Calls, NEW a \in Files, FailAdd(s, a) PROVE PageInv'
    BY <2>3, FailedAdd
  <2> QED
    BY <1>4, <2>1, <2>2, <2>3 DEF Answers
<1>5. CASE UNCHANGED pageVars
  <2>1. Quiet /\ path' = path /\ dialog' = dialog /\ loader' = loader /\ loading' = loading
    BY <1>5 DEF pageVars, Quiet, view, load
  <2>2. ViewKnown'
    BY <2>1, QuietStep, ViewStays DEF PageInv, ViewKnown
  <2> QED
    BY <2>1, <2>2, QuietStep DEF PageInv, LoadingIsTold
<1> QED
  BY <1>1, <1>2, <1>3, <1>4, <1>5 DEF PageNext

(* The files page, whatever runs at once: PageInv always holds.            *)
THEOREM PageInvariant == PageSpec => []PageInv
BY PageInvInit, PageInvStep, PTL DEF PageSpec

(* At rest the page shows its own changes in every listing it keeps, but   *)
(* for the excused ones (useVfs.ts, refreshDirectory and fetchDirectory).  *)
THEOREM OwnChangesShownHolds == PageSpec => []OwnChangesShown
<1>1. PageInv => OwnChangesShown
  <2> SUFFICES ASSUME PageInv, \A s \in Calls : Free(s),
                      NEW d \in DOMAIN snapshots \ excused, CanHold(d)
               PROVE  snapshots[d] = Listing(d)
    BY DEF OwnChangesShown
  <2>1. ~Owed(d)
    BY DEF Owed, Lists, Free, Writes
  <2> QED
    BY <2>1 DEF PageInv, CacheOwed
<1> QED
  BY <1>1, PageInvariant, PTL

(* The load of the open directory is told (useVfs.ts, the load effect).    *)
THEOREM LoadingIsToldHolds == PageSpec => []LoadingIsTold
<1>1. PageInv => LoadingIsTold
  BY DEF PageInv
<1> QED
  BY <1>1, PageInvariant, PTL

(* When all of a folder's adds are made, all that stayed in it is in the   *)
(* project (useVfs.ts, collectDirectoryAssetIds, addDirectoryToProject).   *)
THEOREM FolderIsAddedHolds == PageSpec => []FolderIsAdded
<1>1. PageInv => FolderIsAdded
  BY DEF PageInv, WalksCover, WalkCovers, FolderIsAdded
<1> QED
  BY <1>1, PageInvariant, PTL

=============================================================================
