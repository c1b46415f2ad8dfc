--------------------------- MODULE MCMediaIngest ---------------------------
(* Ingests for TLC: the calls around the asset's row with the wizard       *)
(* (MediaIngest), and the goroutines of one call (UploadPipeline): two     *)
(* workers and three segments, so that one worker can fail while the other *)
(* writes and a third segment is offered.  MediaIngest has the pipeline as *)
(* one action per segment: the two share nothing, and either moves while   *)
(* the other is at its start.                                              *)
EXTENDS MediaIngest, UploadPipeline

CONSTANTS s1, w1, w2

MCSegments == {s1}

EitherInit == Init /\ PipelineInit
EitherNext ==
    \/ PipelineInit /\ media = "video" /\ Next /\ UNCHANGED pipelineVars
    \/ Init /\ PipelineNext /\ UNCHANGED vars

(* The fairness of each.  MediaIngest asks nothing at its start; of the    *)
(* pipeline nothing is asked once MediaIngest has moved.                   *)
EitherFairness ==
    /\ Fairness
    /\ WF_pipelineVars(Init /\ DispatcherStep /\ UNCHANGED vars)
    /\ \A w \in Workers : WF_pipelineVars(Init /\ WorkerStep(w) /\ UNCHANGED vars)
    /\ WF_pipelineVars(Init /\ HandlerStep /\ UNCHANGED vars)

EitherSpec == EitherInit /\ [][EitherNext]_<<vars, pipelineVars>> /\ EitherFairness
=============================================================================
