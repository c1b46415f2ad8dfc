------------------------- MODULE MediaIngestProofs -------------------------
(***************************************************************************)
(* Theorems of MediaIngest for any numbers of assets, attempts, segments.  *)
(***************************************************************************)
EXTENDS MediaIngest, TLAPS

USE BoundsAssumption, CrashAssumption

(* What the dialog and the wizard are: a file is selected only where a       *)
(* target is shown, and one stream at most is followed by the wizard.       *)
ClientType ==
  /\ open \in BOOLEAN /\ target \in pending \cup {NoAsset} /\ askFailed \in BOOLEAN
  /\ asks \subseteq [asset : pending, kind : Kinds]
  /\ file \in BOOLEAN /\ put \in {"none", "going", "done", "failed"}
  /\ phase \in {"idle", "waiting", "streaming"}
  /\ stream \in [Attempts -> {"none", "mounted", "orphan", "closed"}]
  /\ pending \subseteq Assets /\ originals \subseteq pending
  /\ (phase = "streaming") = (\E t \in Attempts : stream[t] = "mounted")
  /\ put # "none" => file
  /\ file => open /\ ~askFailed /\ target # NoAsset
  /\ \A t, u \in Attempts : stream[t] = "mounted" /\ stream[u] = "mounted" => t = u

ServerType ==
  /\ stored \in [Assets -> SUBSET Objects] /\ row \in [Assets -> Attempts \cup {NoAttempt}]
  /\ meta \subseteq {a \in Assets : row[a] # NoAttempt}
  /\ indexed \in [Assets -> SUBSET Segments]
  /\ used \subseteq {a \in Assets : row[a] # NoAttempt}
  /\ pc \in [Attempts -> Working \cup {"none", "refused", "done", "crashed"}]
  /\ of \in [Attempts -> pending \cup {NoAsset}]
  /\ \A t \in Attempts : pc[t] # "none" => of[t] \in pending
  /\ keys \in [Attempts -> SUBSET Objects]
  /\ told \subseteq Assets /\ removed \subseteq Assets /\ leaky \subseteq Assets

(* The parts have all of TypeOK.                                            *)
LEMMA TypeParts == ClientType /\ ServerType => TypeOK
BY DEF ClientType, ServerType, TypeOK

(* They hold when the dialog was never opened and the database is empty.    *)
LEMMA TypeInit == Init => ClientType /\ ServerType
<1> SUFFICES ASSUME Init PROVE ClientType /\ ServerType
  OBVIOUS
<1>1. ClientType
  BY DEF Init, ClientType
<1>2. \A t \in Attempts : pc[t] = "none" /\ of[t] = NoAsset
  BY DEF Init
<1>3. /\ stored \in [Assets -> SUBSET Objects] /\ row \in [Assets -> Attempts \cup {NoAttempt}]
      /\ indexed \in [Assets -> SUBSET Segments] /\ keys \in [Attempts -> SUBSET Objects]
      /\ pc \in [Attempts -> Working \cup {"none", "refused", "done", "crashed"}]
      /\ of \in [Attempts -> pending \cup {NoAsset}]
  BY DEF Init
<1>4. ServerType
  BY <1>2, <1>3 DEF Init, ServerType
<1> QED
  BY <1>1, <1>4

-----------------------------------------------------------------------------
(* The dialog and the wizard *)

DialogSteps ==
  \/ CloseDialog \/ SelectFile \/ PutDone \/ PutFails \/ SubmitEarly
  \/ \E a \in Assets : OpenDialog(a) \/ ClickTryAgain(a)
  \/ \E q \in asks : AnswerTarget(q) \/ FailTarget(q)

(* A request for a target makes an id and keeps the requests typed.         *)
LEMMA Asked ==
  ASSUME ClientType, NEW a \in Assets, NEW kind \in Kinds, Ask(a, kind)
  PROVE  /\ pending' \subseteq Assets /\ pending \subseteq pending'
         /\ asks' \subseteq [asset : pending', kind : Kinds]
BY DEF ClientType, Ask

(* A wizard that is gone follows no stream.                                 *)
LEMMA Unmounted ==
  ASSUME ClientType, Unmount
  PROVE  /\ stream' \in [Attempts -> {"none", "mounted", "orphan", "closed"}]
         /\ \A t \in Attempts : stream'[t] # "mounted"
         /\ file' = FALSE /\ put' = "none" /\ phase' = "idle"
BY DEF ClientType, Unmount

(* A dialog that closes has its requests ignored, and no target.            *)
LEMMA Closes ==
  ASSUME ClientType, Closed
  PROVE  /\ asks' \subseteq [asset : pending, kind : Kinds]
         /\ open' = FALSE /\ target' = NoAsset /\ askFailed' = FALSE
<1>1. ASSUME NEW q \in asks
      PROVE  (IF q.kind = "effect" THEN [q EXCEPT !.kind = "ignored"] ELSE q)
               \in [asset : pending, kind : Kinds]
  BY DEF ClientType, Kinds
<1> QED
  BY <1>1 DEF Closed

(* The dialog and its wizard keep their types, and make ids only.           *)
LEMMA DialogType ==
  ASSUME ClientType, DialogSteps
  PROVE  ClientType' /\ pending \subseteq pending'
<1>1. CASE CloseDialog
  BY <1>1, Unmounted, Closes DEF CloseDialog, ClientType
<1>2. CASE SelectFile
  BY <1>2 DEF SelectFile, StartPut, Mounted, dialog, ClientType
<1>3. CASE PutDone
  BY <1>3 DEF PutDone, dialog, ClientType
<1>4. CASE PutFails
  BY <1>4 DEF PutFails, dialog, ClientType
<1>5. CASE SubmitEarly
  BY <1>5 DEF SubmitEarly, dialog, ClientType
<1>6. ASSUME NEW a \in Assets, OpenDialog(a)
      PROVE  ClientType' /\ pending \subseteq pending'
  <2>1. Ask(a, "effect") /\ "effect" \in Kinds
    BY <1>6 DEF OpenDialog, Kinds
  <2> QED
    BY <1>6, <2>1, Asked DEF OpenDialog, Ask, wizard, ClientType
<1>7. ASSUME NEW a \in Assets, ClickTryAgain(a)
      PROVE  ClientType' /\ pending \subseteq pending'
  <2>1. Ask(a, "button") /\ "button" \in Kinds
    BY <1>7 DEF ClickTryAgain, Kinds
  <2> QED
    BY <1>7, <2>1, Asked DEF ClickTryAgain, Ask, wizard, ClientType
<1>8. ASSUME NEW q \in asks, AnswerTarget(q)
      PROVE  ClientType' /\ pending \subseteq pending'
  <2>1. q.asset \in pending /\ q.asset # NoAsset
    BY DEF ClientType, Assets, NoAsset
  <2>2. CASE q.kind = "ignored"
    BY <1>8, <2>2 DEF AnswerTarget, wizard, ClientType
  <2>3. CASE q.kind # "ignored" /\ file
    BY <1>8, <2>1, <2>3 DEF AnswerTarget, StartPut, ClientType
  <2>4. CASE q.kind # "ignored" /\ ~file
    BY <1>8, <2>1, <2>4 DEF AnswerTarget, ClientType
  <2> QED
    BY <2>2, <2>3, <2>4 DEF ClientType
<1>9. ASSUME NEW q \in asks, FailTarget(q)
      PROVE  ClientType' /\ pending \subseteq pending'
  <2>1. CASE q.kind = "ignored"
    BY <1>9, <2>1 DEF FailTarget, wizard, ClientType
  <2>2. CASE q.kind # "ignored"
    BY <1>9, <2>2, Unmounted DEF FailTarget, ClientType
  <2> QED
    BY <2>1, <2>2
<1> QED
  BY <1>1, <1>2, <1>3, <1>4, <1>5, <1>6, <1>7, <1>8, <1>9 DEF DialogSteps

-----------------------------------------------------------------------------
(* Streams: begun, finished or broken off *)

(* So do the streams of the attempts.                                       *)
LEMMA StreamType ==
  ASSUME ClientType, ServerType, NEW t \in Attempts, Initiate(t) \/ Finished(t) \/ Errored(t)
  PROVE  ClientType' /\ ServerType'
<1>1. CASE Initiate(t)
  <2>1. \A u \in Attempts : stream[u] # "mounted"
    BY <1>1 DEF Initiate, ClientType
  <2>2. /\ phase' = "streaming" /\ stream' = [stream EXCEPT ![t] = "mounted"]
        /\ UNCHANGED <<open, target, asks, askFailed, file, put, pending, originals>>
    BY <1>1 DEF Initiate, dialog
  <2>3. ClientType'
    BY <2>1, <2>2 DEF ClientType
  <2>4. target \in pending
    BY <1>1 DEF Initiate, Mounted, ClientType
  <2>5. /\ pc' = [pc EXCEPT ![t] = "check"] /\ of' = [of EXCEPT ![t] = target]
        /\ UNCHANGED <<pending, stored, row, meta, indexed, used, keys, told, removed, leaky>>
    BY <1>1 DEF Initiate, rows, history
  <2>6. ServerType'
    BY <2>4, <2>5 DEF ServerType, Working
  <2> QED
    BY <2>3, <2>6
<1>2. CASE Finished(t)
  <2>1. /\ Closed /\ file' = FALSE /\ put' = "none" /\ phase' = "idle"
        /\ stream' = [u \in Attempts |-> IF u = t THEN "closed"
                         ELSE IF stream[u] = "mounted" THEN "orphan" ELSE stream[u]]
        /\ UNCHANGED <<pending, originals>>
    BY <1>2 DEF Finished
  <2>2. /\ stream' \in [Attempts -> {"none", "mounted", "orphan", "closed"}]
        /\ \A u \in Attempts : stream'[u] # "mounted"
    BY <2>1 DEF ClientType
  <2>3. ClientType'
    BY <2>1, <2>2, Closes DEF ClientType
  <2>4. of[t] \in pending
    BY <1>2 DEF Finished, ServerType
  <2>5. /\ told' = told \cup {of[t]}
        /\ UNCHANGED <<pending, stored, row, meta, indexed, used, pc, of, keys, removed, leaky>>
    BY <1>2 DEF Finished, rows, server
  <2>6. ServerType'
    BY <2>4, <2>5 DEF ServerType, ClientType
  <2> QED
    BY <2>3, <2>6
<1>3. CASE Errored(t)
  <2>1. /\ phase' = IF stream[t] = "mounted" THEN "idle" ELSE phase
        /\ stream' = [stream EXCEPT ![t] = "closed"]
        /\ UNCHANGED <<open, target, asks, askFailed, file, put, pending, originals>>
    BY <1>3 DEF Errored, CloseStream, dialog
  <2>2. /\ stream' \in [Attempts -> {"none", "mounted", "orphan", "closed"}]
        /\ phase' \in {"idle", "waiting", "streaming"}
        /\ \A u, v \in Attempts : stream'[u] = "mounted" /\ stream'[v] = "mounted" => u = v
    BY <2>1 DEF ClientType
  <2>3. (phase' = "streaming") = (\E u \in Attempts : stream'[u] = "mounted")
    <3>1. CASE stream[t] = "mounted"
      BY <2>1, <3>1 DEF ClientType
    <3>2. CASE stream[t] # "mounted"
      BY <2>1, <3>2 DEF ClientType
    <3> QED
      BY <3>1, <3>2
  <2>4. ClientType'
    BY <2>1, <2>2, <2>3 DEF ClientType
  <2>5. ServerType'
    BY <1>3 DEF Errored, rows, server, history, ServerType
  <2> QED
    BY <2>4, <2>5
<1> QED
  BY <1>1, <1>2, <1>3

-----------------------------------------------------------------------------
(* The server and the users of the workspace *)

(* So do the server's attempts, a crash and the users of the workspace.     *)
LEMMA ServerTypeStep ==
  ASSUME ServerType, pending \subseteq Assets, UNCHANGED pending,
         \/ \E t \in Attempts : Attempt(t)
         \/ Crash
         \/ \E a \in Assets : DeleteAsset(a) \/ AddProjectAsset(a) \/ RemoveProjectAsset(a)
  PROVE  ServerType'
<1> USE DEF ServerType
<1>1. ASSUME NEW t \in Attempts, Check(t)
      PROVE  ServerType'
  BY <1>1 DEF Check, At, Goto, rows, history, Working
<1>2. ASSUME NEW t \in Attempts, Create(t)
      PROVE  ServerType'
  <2>1. of[t] \in Assets
    BY <1>2 DEF Create, At
  <2> QED
    BY <1>2, <2>1 DEF Create, At, Goto, history, Working
<1>13. ASSUME NEW t \in Attempts, CreateUnanswered(t)
       PROVE  ServerType'
  <2>1. of[t] \in Assets
    BY <1>13 DEF CreateUnanswered, At
  <2> QED
    BY <1>13, <2>1 DEF CreateUnanswered, At, Goto, Working
<1>3. ASSUME NEW t \in Attempts, Describe(t)
      PROVE  ServerType'
  <2>1. of[t] \in Assets
    BY <1>3 DEF Describe, At
  <2> QED
    BY <1>3, <2>1 DEF Describe, At, Goto, history, Working
<1>4. ASSUME NEW t \in Attempts, NEW s \in Segments, UploadSegment(t, s)
      PROVE  ServerType'
  <2>1. of[t] \in Assets /\ s \in Objects
    BY <1>4 DEF UploadSegment, At, Objects
  <2>2. /\ keys' = [keys EXCEPT ![t] = @ \cup {s}]
        /\ stored' = stored \/ stored' = [stored EXCEPT ![of[t]] = @ \cup {s}]
        /\ indexed' = indexed \/ indexed' = [indexed EXCEPT ![of[t]] = @ \cup {s}]
        /\ pc' = pc \/ pc' = [pc EXCEPT ![t] = "clean"]
        /\ UNCHANGED <<row, meta, used, of, told, removed, leaky>>
    BY <1>4 DEF UploadSegment, Goto, history
  <2>3. /\ stored' \in [Assets -> SUBSET Objects] /\ indexed' \in [Assets -> SUBSET Segments]
        /\ keys' \in [Attempts -> SUBSET Objects]
    BY <2>1, <2>2
  <2>4. /\ pc' \in [Attempts -> Working \cup {"none", "refused", "done", "crashed"}]
        /\ \A u \in Attempts : pc'[u] # "none" => of[u] \in pending
    BY <1>4, <2>2 DEF UploadSegment, At, Working
  <2> QED
    BY <2>2, <2>3, <2>4
<1>5. ASSUME NEW t \in Attempts, FinishUpload(t)
      PROVE  ServerType'
  <2>1. of[t] \in Assets /\ Manifest \in Objects
    BY <1>5 DEF FinishUpload, At, Objects
  <2>2. /\ keys' = [keys EXCEPT ![t] = Objects]
        /\ stored' = stored \/ stored' = [stored EXCEPT ![of[t]] = @ \cup {Manifest}]
        /\ pc' = [pc EXCEPT ![t] = "announce"] \/ pc' = [pc EXCEPT ![t] = "clean"]
        /\ UNCHANGED <<row, meta, indexed, used, of, told, removed, leaky>>
    BY <1>5 DEF FinishUpload, Goto, rows, history
  <2>3. /\ stored' \in [Assets -> SUBSET Objects] /\ keys' \in [Attempts -> SUBSET Objects]
    BY <2>1, <2>2
  <2>4. /\ pc' \in [Attempts -> Working \cup {"none", "refused", "done", "crashed"}]
        /\ \A u \in Attempts : pc'[u] # "none" => of[u] \in pending
    BY <1>5, <2>2 DEF FinishUpload, At, Working
  <2> QED
    BY <2>2, <2>3, <2>4
<1>6. ASSUME NEW t \in Attempts, Announce(t)
      PROVE  ServerType'
  BY <1>6 DEF Announce, At, Goto, rows, history, Working
<1>7. ASSUME NEW t \in Attempts, NEW k \in Objects, CleanObject(t, k)
      PROVE  ServerType'
  <2>1. of[t] \in Assets
    BY <1>7 DEF CleanObject, At
  <2>2. /\ keys' = [keys EXCEPT ![t] = @ \ {k}]
        /\ stored' = stored \/ stored' = [stored EXCEPT ![of[t]] = @ \ {k}]
        /\ leaky' = leaky \/ leaky' = leaky \cup {of[t]}
        /\ UNCHANGED <<row, meta, indexed, used, pc, of, told, removed>>
    BY <1>7 DEF CleanObject, rows
  <2> QED
    BY <2>1, <2>2
<1>8. ASSUME NEW a \in Assets, a \notin used, DropRow(a)
      PROVE  /\ row' \in [Assets -> Attempts \cup {NoAttempt}]
             /\ indexed' \in [Assets -> SUBSET Segments]
             /\ meta' \subseteq {b \in Assets : row'[b] # NoAttempt}
             /\ used \subseteq {b \in Assets : row'[b] # NoAttempt}
  BY <1>8 DEF DropRow
<1>9. ASSUME NEW t \in Attempts, CleanRow(t)
      PROVE  ServerType'
  <2>1. of[t] \in Assets
    BY <1>9 DEF CleanRow, At
  <2>2. /\ pc' = [pc EXCEPT ![t] = "refused"]
        /\ \/ of[t] \notin used /\ DropRow(of[t]) /\ leaky' = leaky
           \/ leaky' = leaky \cup {of[t]} /\ UNCHANGED <<row, meta, indexed>>
        /\ UNCHANGED <<stored, used, of, keys, told, removed>>
    BY <1>9 DEF CleanRow, Goto, rows
  <2>3. /\ pc' \in [Attempts -> Working \cup {"none", "refused", "done", "crashed"}]
        /\ \A u \in Attempts : pc'[u] # "none" => of[u] \in pending
    BY <1>9, <2>2 DEF CleanRow, At
  <2> QED
    BY <1>8, <2>1, <2>2, <2>3
<1>10. CASE Crash
  <2>1. /\ pc' = [t \in Attempts |-> IF pc[t] \in Working THEN "crashed" ELSE pc[t]]
        /\ leaky' = leaky \cup {of[t] : t \in {u \in Attempts : pc[u] \in Working}}
        /\ UNCHANGED <<stored, row, meta, indexed, used, of, keys, told, removed>>
    BY <1>10 DEF Crash, rows
  <2>2. \A t \in Attempts : pc[t] \in Working => of[t] \in Assets
    BY DEF Working
  <2>3. leaky' \subseteq Assets
    BY <2>1, <2>2
  <2> QED
    BY <2>1, <2>3 DEF Working
<1>11. ASSUME NEW a \in Assets, DeleteAsset(a)
       PROVE  ServerType'
  <2>1. a \notin used /\ DropRow(a) /\ removed' = removed \cup {a}
        /\ UNCHANGED <<stored, used, pc, of, keys, told, leaky>>
    BY <1>11 DEF DeleteAsset, server
  <2> QED
    BY <1>8, <2>1
<1>12. ASSUME NEW a \in Assets, AddProjectAsset(a) \/ RemoveProjectAsset(a)
       PROVE  ServerType'
  BY <1>12 DEF AddProjectAsset, RemoveProjectAsset, rows, server, history
<1> QED
  BY <1>1, <1>2, <1>3, <1>4, <1>5, <1>6, <1>7, <1>9, <1>10, <1>11, <1>12, <1>13 DEF Attempt

(* Every step of the specification keeps the types.                         *)
LEMMA TypeNext ==
  ASSUME ClientType, ServerType, [Next]_vars
  PROVE  ClientType' /\ ServerType'
<1>1. CASE DialogSteps
  <2>1. ClientType' /\ pending \subseteq pending'
    BY <1>1, DialogType
  <2>2. UNCHANGED <<stored, rows, used, server, history>>
    BY <1>1 DEF DialogSteps, CloseDialog, SelectFile, PutDone, PutFails, SubmitEarly, OpenDialog,
                ClickTryAgain, AnswerTarget, FailTarget
  <2>3. ServerType'
    BY <2>1, <2>2 DEF rows, server, history, ServerType
  <2> QED
    BY <2>1, <2>3
<1>2. ASSUME NEW t \in Attempts, Initiate(t) \/ Finished(t) \/ Errored(t)
      PROVE  ClientType' /\ ServerType'
  BY <1>2, StreamType
<1>3. CASE \/ \E t \in Attempts : Attempt(t)
           \/ Crash
           \/ \E a \in Assets : DeleteAsset(a) \/ AddProjectAsset(a) \/ RemoveProjectAsset(a)
  <2>1. UNCHANGED client
    BY <1>3 DEF Attempt, Check, Create, CreateUnanswered, Describe, UploadSegment,
                FinishUpload, Announce,
                CleanObject, CleanRow, Crash, DeleteAsset, AddProjectAsset, RemoveProjectAsset
  <2>2. ClientType' /\ UNCHANGED pending /\ pending \subseteq Assets
    BY <2>1 DEF client, dialog, wizard, ClientType
  <2> QED
    BY <1>3, <2>2, ServerTypeStep
<1>4. CASE UNCHANGED vars
  BY <1>4 DEF vars, dialog, wizard, rows, server, history, ClientType, ServerType
<1> QED
  BY <1>1, <1>2, <1>3, <1>4 DEF Next, DialogSteps

(* The variables of MediaIngest keep their types, and the wizard says that   *)
(* it streams just as long as it follows a stream.                          *)
THEOREM TypeCorrect == Spec => []TypeOK
<1>1. Init => ClientType /\ ServerType
  BY TypeInit
<1>2. ClientType /\ ServerType /\ [Next]_vars => (ClientType /\ ServerType)'
  BY TypeNext
<1>3. ClientType /\ ServerType => TypeOK
  BY TypeParts
<1> QED
  BY <1>1, <1>2, <1>3, PTL DEF Spec

-----------------------------------------------------------------------------
(* One attempt at an asset at a time *)

Held == {"describe", "upload", "announce", "clean", "done"}

(* The row of an asset no user deleted is the one of the attempt that is     *)
(* past its creation, however many attempts there are at the id.            *)
OwnRow == \A t \in Attempts : pc[t] \in Held /\ of[t] \notin removed => row[of[t]] = t

(* No key is kept before there is anything to upload.                       *)
Fresh == \A t \in Attempts : pc[t] \in {"none", "check", "create", "describe"} => keys[t] = {}

(* What an attempt has uploaded is there and indexed, all of it once it is   *)
(* about to announce the asset or has.                                      *)
Whole ==
  \A t \in Attempts :
    of[t] \notin removed =>
      /\ pc[t] = "upload" => of[t] \in meta /\ keys[t] \subseteq stored[of[t]] \cap indexed[of[t]]
      /\ pc[t] \in {"announce", "done"} =>
           of[t] \in meta /\ indexed[of[t]] = Segments /\ stored[of[t]] = Objects /\ keys[t] = Objects

(* What is there of an asset is in the keys of the attempt that holds its    *)
(* row, so that its clean-up will find it.                                  *)
Kept ==
  \A a \in Assets \ (leaky \cup removed) :
    /\ row[a] # NoAttempt => of[row[a]] = a /\ pc[row[a]] \in Held
    /\ \A k \in stored[a] : row[a] # NoAttempt /\ k \in keys[row[a]]

Told == \A a \in told : \E t \in Attempts : pc[t] = "done" /\ of[t] = a

IInv == ClientType /\ ServerType /\ OwnRow /\ Fresh /\ Whole /\ Kept /\ Told

(* The invariant holds of a server that has seen no attempt.                *)
LEMMA IInvInit == Init => IInv
BY TypeInit DEF Init, IInv, OwnRow, Fresh, Whole, Kept, Told, Held

(* Two attempts past the creation of the row of one asset are one.          *)
LEMMA Alone ==
  ASSUME OwnRow, NEW t \in Attempts, NEW u \in Attempts, pc[t] \in Held, pc[u] \in Held,
         of[t] = of[u], of[t] \notin removed
  PROVE  t = u
BY DEF OwnRow

(* A step that touches neither the rows nor an attempt keeps it.            *)
LEMMA QuietStep ==
  ASSUME IInv, UNCHANGED <<stored, row, meta, indexed, pc, of, keys, told, removed, leaky>>
  PROVE  OwnRow' /\ Fresh' /\ Whole' /\ Kept' /\ Told'
BY DEF IInv, OwnRow, Fresh, Whole, Kept, Told

(* An attempt not yet past the creation of its row moves on.                *)
LEMMA EarlyStep ==
  ASSUME IInv, NEW t \in Attempts, Initiate(t) \/ Check(t)
  PROVE  OwnRow' /\ Fresh' /\ Whole' /\ Kept' /\ Told'
<1>1. /\ pc[t] \in {"none", "check"}
      /\ \E where \in {"check", "create", "refused"} : pc' = [pc EXCEPT ![t] = where]
      /\ \A u \in Attempts : u # t => of'[u] = of[u]
      /\ UNCHANGED <<stored, row, meta, indexed, keys, told, removed, leaky>>
  BY DEF Initiate, Check, At, Goto, rows, history, IInv, ServerType
<1>2. /\ pc'[t] \notin Held /\ pc[t] \notin Held
      /\ \A u \in Attempts : u # t => pc'[u] = pc[u] /\ of'[u] = of[u]
  BY <1>1 DEF IInv, ServerType, Held
<1>3. OwnRow'
  BY <1>1, <1>2 DEF IInv, OwnRow
<1>4. Fresh'
  BY <1>1, <1>2 DEF IInv, Fresh
<1>5. Whole'
  BY <1>1, <1>2 DEF IInv, Whole, Held
<1>6. Kept'
  BY <1>1, <1>2 DEF IInv, Kept, ServerType
<1>7. Told'
  BY <1>1, <1>2 DEF IInv, Told, Held
<1> QED
  BY <1>3, <1>4, <1>5, <1>6, <1>7

(* CreateAssetWithId makes a row for one attempt, which finds nothing there.*)
LEMMA CreateStep ==
  ASSUME IInv, NEW t \in Attempts, Create(t)
  PROVE  OwnRow' /\ Fresh' /\ Whole' /\ Kept' /\ Told'
<1>1. /\ pc[t] = "create" /\ of[t] \in Assets /\ t # NoAttempt
      /\ \A u \in Attempts : u # t => pc'[u] = pc[u]
      /\ UNCHANGED <<stored, meta, indexed, of, keys, told, removed, leaky>>
  BY DEF Create, At, Goto, history, IInv, ClientType, ServerType, Attempts, NoAttempt
<1>2. CASE row[of[t]] # NoAttempt
  <2>1. pc'[t] = "refused" /\ row' = row
    BY <1>2 DEF Create, Goto, IInv, ServerType
  <2> QED
    BY <1>1, <2>1 DEF IInv, OwnRow, Fresh, Whole, Kept, Told, Held, ServerType
<1>3. CASE row[of[t]] = NoAttempt
  <2>1. pc'[t] = "describe" /\ row' = [row EXCEPT ![of[t]] = t]
    BY <1>3 DEF Create, Goto, IInv, ServerType
  <2>2. \A u \in Attempts : pc[u] \in Held /\ of[u] = of[t] => of[t] \in removed
    BY <1>3 DEF IInv, OwnRow, Attempts, NoAttempt
  <2>3. OwnRow'
    BY <1>1, <2>1, <2>2 DEF IInv, OwnRow, ServerType
  <2>4. Fresh'
    BY <1>1, <2>1 DEF IInv, Fresh
  <2>5. Whole'
    BY <1>1, <2>1 DEF IInv, Whole
  <2>6. Kept'
    <3>1. ASSUME NEW a \in Assets \ (leaky \cup removed)
          PROVE  /\ row'[a] # NoAttempt => of[row'[a]] = a /\ pc'[row'[a]] \in Held
                 /\ \A k \in stored[a] : row'[a] # NoAttempt /\ k \in keys[row'[a]]
      <4>1. CASE a = of[t]
        BY <1>1, <1>3, <2>1, <4>1 DEF IInv, Kept, Held, ServerType
      <4>2. CASE a # of[t]
        BY <1>1, <2>1, <4>2 DEF IInv, Kept, Held, ServerType
      <4> QED
        BY <4>1, <4>2
    <3> QED
      BY <1>1, <3>1 DEF Kept
  <2>7. Told'
    BY <1>1, <2>1 DEF IInv, Told
  <2> QED
    BY <2>3, <2>4, <2>5, <2>6, <2>7
<1> QED
  BY <1>2, <1>3

(* A row made for an attempt that was told otherwise is on the list of what  *)
(* may stay.                                                                *)
LEMMA CreateUnansweredStep ==
  ASSUME IInv, NEW t \in Attempts, CreateUnanswered(t)
  PROVE  OwnRow' /\ Fresh' /\ Whole' /\ Kept' /\ Told'
<1>1. /\ pc[t] = "create" /\ of[t] \in Assets /\ row[of[t]] = NoAttempt
      /\ pc'[t] = "refused" /\ row' = [row EXCEPT ![of[t]] = t]
      /\ \A u \in Attempts : u # t => pc'[u] = pc[u]
      /\ leaky' = leaky \cup {of[t]}
      /\ UNCHANGED <<stored, meta, indexed, of, keys, told, removed>>
  BY DEF CreateUnanswered, At, Goto, IInv, ClientType, ServerType
<1>2. \A u \in Attempts : pc[u] \in Held /\ of[u] = of[t] => of[t] \in removed
  BY <1>1 DEF IInv, OwnRow, Attempts, NoAttempt
<1>3. OwnRow'
  BY <1>1, <1>2 DEF IInv, OwnRow, Held, ServerType
<1>4. Fresh'
  BY <1>1 DEF IInv, Fresh
<1>5. Whole'
  BY <1>1 DEF IInv, Whole
<1>6. Kept'
  <2>1. ASSUME NEW a \in Assets \ (leaky' \cup removed)
        PROVE  /\ row'[a] # NoAttempt => of[row'[a]] = a /\ pc'[row'[a]] \in Held
               /\ \A k \in stored[a] : row'[a] # NoAttempt /\ k \in keys[row'[a]]
    <3>1. a # of[t] /\ a \in Assets \ (leaky \cup removed)
      BY <1>1
    <3> QED
      BY <1>1, <3>1 DEF IInv, Kept, Held, ServerType
  <2> QED
    BY <1>1, <2>1 DEF Kept
<1>7. Told'
  BY <1>1 DEF IInv, Told
<1> QED
  BY <1>3, <1>4, <1>5, <1>6, <1>7

(* CreateVideo or CreateAudio finds the attempt's own row.                  *)
LEMMA DescribeStep ==
  ASSUME IInv, NEW t \in Attempts, Describe(t)
  PROVE  OwnRow' /\ Fresh' /\ Whole' /\ Kept' /\ Told'
<1>1. /\ pc[t] = "describe" /\ keys[t] = {}
      /\ \A u \in Attempts : u # t => pc'[u] = pc[u]
      /\ pc'[t] = "clean" \/ (pc'[t] = "upload" /\ of[t] \in meta')
      /\ meta \subseteq meta'
      /\ UNCHANGED <<stored, row, indexed, of, keys, told, removed, leaky>>
  BY DEF Describe, At, Goto, history, IInv, Fresh, ServerType
<1>2. OwnRow'
  BY <1>1 DEF IInv, OwnRow, Held
<1>3. Fresh'
  BY <1>1 DEF IInv, Fresh
<1>4. Whole'
  BY <1>1 DEF IInv, Whole
<1>5. Kept'
  BY <1>1 DEF IInv, Kept, Held, ServerType
<1>6. Told'
  BY <1>1 DEF IInv, Told
<1> QED
  BY <1>2, <1>3, <1>4, <1>5, <1>6

(* A segment is in the keys whether or not it got there.                    *)
LEMMA UploadSegmentStep ==
  ASSUME IInv, NEW t \in Attempts, NEW s \in Segments, UploadSegment(t, s)
  PROVE  OwnRow' /\ Fresh' /\ Whole' /\ Kept' /\ Told'
<1>1. /\ pc[t] = "upload" /\ of[t] \in Assets
      /\ \A u \in Attempts : u # t => pc'[u] = pc[u] /\ keys'[u] = keys[u]
      /\ keys'[t] = keys[t] \cup {s}
      /\ \A a \in Assets : a # of[t] => stored'[a] = stored[a] /\ indexed'[a] = indexed[a]
      /\ stored[of[t]] \subseteq stored'[of[t]] /\ stored'[of[t]] \subseteq stored[of[t]] \cup {s}
      /\ indexed[of[t]] \subseteq indexed'[of[t]]
      /\ UNCHANGED <<row, meta, of, told, removed, leaky>>
  BY DEF UploadSegment, At, Goto, history, IInv, ClientType, ServerType
<1>2. \/ pc'[t] = "clean"
      \/ pc'[t] = "upload" /\ of[t] \in meta /\ s \in stored'[of[t]] /\ s \in indexed'[of[t]]
  <2>1. ASSUME NEW put_ \in BOOLEAN, NEW index \in BOOLEAN,
               index => put_ /\ of[t] \in meta,
               stored' = IF put_ THEN [stored EXCEPT ![of[t]] = @ \cup {s}] ELSE stored,
               indexed' = IF index THEN [indexed EXCEPT ![of[t]] = @ \cup {s}] ELSE indexed,
               IF index THEN UNCHANGED pc ELSE Goto(t, "clean")
        PROVE  \/ pc'[t] = "clean"
               \/ pc'[t] = "upload" /\ of[t] \in meta /\ s \in stored'[of[t]] /\ s \in indexed'[of[t]]
    BY <1>1, <2>1 DEF Goto, IInv, ServerType
  <2> QED
    BY <2>1 DEF UploadSegment
<1>3. OwnRow'
  BY <1>1, <1>2 DEF IInv, OwnRow, Held
<1>4. Fresh'
  BY <1>1, <1>2 DEF IInv, Fresh
<1>5. Whole'
  <2>1. \A u \in Attempts : u # t /\ pc[u] \in Held /\ of[u] = of[t] => of[t] \in removed
    BY <1>1, Alone DEF IInv, Held
  <2>2. ASSUME NEW u \in Attempts, of[u] \notin removed, u # t, pc[u] \in {"upload", "announce", "done"}
        PROVE  of[u] \in Assets /\ of[u] # of[t]
    BY <2>1, <2>2 DEF Held, IInv, ClientType, ServerType
  <2>3. ASSUME NEW u \in Attempts, of[u] \notin removed, u # t
        PROVE  /\ pc[u] = "upload" =>
                    of[u] \in meta /\ keys[u] \subseteq stored'[of[u]] \cap indexed'[of[u]]
               /\ pc[u] \in {"announce", "done"} =>
                    /\ of[u] \in meta /\ indexed'[of[u]] = Segments
                    /\ stored'[of[u]] = Objects /\ keys[u] = Objects
    BY <1>1, <2>2, <2>3 DEF IInv, Whole
  <2>4. of[t] \notin removed /\ pc'[t] = "upload"
          => of[t] \in meta /\ keys'[t] \subseteq stored'[of[t]] \cap indexed'[of[t]]
    BY <1>1, <1>2 DEF IInv, Whole
  <2> QED
    BY <1>1, <1>2, <2>3, <2>4 DEF Whole
<1>6. Kept'
  <2>1. ASSUME NEW a \in Assets \ (leaky \cup removed)
        PROVE  /\ row[a] # NoAttempt => of[row[a]] = a /\ pc'[row[a]] \in Held
               /\ \A k \in stored'[a] : row[a] # NoAttempt /\ k \in keys'[row[a]]
    <3>1. CASE a = of[t]
      <4>1. row[a] = t /\ t # NoAttempt
        BY <1>1, <3>1 DEF IInv, OwnRow, Held, Attempts, NoAttempt
      <4> QED
        BY <1>1, <1>2, <3>1, <4>1 DEF IInv, Kept, Held
    <3>2. CASE a # of[t]
      <4>1. row[a] # NoAttempt => row[a] \in Attempts /\ row[a] # t
        BY <3>2 DEF IInv, Kept, ServerType
      <4> QED
        BY <1>1, <3>2, <4>1 DEF IInv, Kept
    <3> QED
      BY <3>1, <3>2
  <2> QED
    BY <1>1, <2>1 DEF Kept
<1>7. Told'
  BY <1>1 DEF IInv, Told
<1> QED
  BY <1>3, <1>4, <1>5, <1>6, <1>7

(* With the manifest everything is there.                                   *)
LEMMA FinishUploadStep ==
  ASSUME IInv, NEW t \in Attempts, FinishUpload(t)
  PROVE  OwnRow' /\ Fresh' /\ Whole' /\ Kept' /\ Told'
<1>1. /\ pc[t] = "upload" /\ keys[t] = Segments /\ of[t] \in Assets
      /\ \A u \in Attempts : u # t => pc'[u] = pc[u] /\ keys'[u] = keys[u]
      /\ keys'[t] = Objects
      /\ \A a \in Assets : a # of[t] => stored'[a] = stored[a]
      /\ stored'[of[t]] \subseteq Objects
      /\ pc'[t] = "clean" \/ (pc'[t] = "announce" /\ stored'[of[t]] = stored[of[t]] \cup {Manifest})
      /\ UNCHANGED <<row, meta, indexed, of, told, removed, leaky>>
  BY DEF FinishUpload, At, Goto, rows, history, IInv, ClientType, ServerType, Objects
<1>2. OwnRow'
  BY <1>1 DEF IInv, OwnRow, Held
<1>3. Fresh'
  BY <1>1 DEF IInv, Fresh
<1>4. Whole'
  <2>1. \A u \in Attempts : u # t /\ pc[u] \in Held /\ of[u] = of[t] => of[t] \in removed
    BY <1>1, Alone DEF IInv, Held
  <2>2. ASSUME NEW u \in Attempts, of[u] \notin removed, u # t, pc[u] \in {"upload", "announce", "done"}
        PROVE  of[u] \in Assets /\ of[u] # of[t]
    BY <2>1, <2>2 DEF Held, IInv, ClientType, ServerType
  <2>3. ASSUME NEW u \in Attempts, of[u] \notin removed, u # t
        PROVE  /\ pc[u] = "upload" =>
                    of[u] \in meta /\ keys[u] \subseteq stored'[of[u]] \cap indexed[of[u]]
               /\ pc[u] \in {"announce", "done"} =>
                    /\ of[u] \in meta /\ indexed[of[u]] = Segments
                    /\ stored'[of[u]] = Objects /\ keys[u] = Objects
    BY <1>1, <2>2, <2>3 DEF IInv, Whole
  <2>4. of[t] \notin removed /\ pc'[t] = "announce"
          => of[t] \in meta /\ indexed[of[t]] = Segments /\ stored'[of[t]] = Objects
    <3> SUFFICES ASSUME of[t] \notin removed, pc'[t] = "announce"
                 PROVE  of[t] \in meta /\ indexed[of[t]] = Segments /\ stored'[of[t]] = Objects
      OBVIOUS
    <3>1. /\ of[t] \in meta /\ Segments \subseteq stored[of[t]]
          /\ Segments \subseteq indexed[of[t]]
      BY <1>1 DEF IInv, Whole
    <3>2. indexed[of[t]] \subseteq Segments
      BY <1>1 DEF IInv, ServerType
    <3>3. stored'[of[t]] = stored[of[t]] \cup {Manifest}
      BY <1>1
    <3>4. stored'[of[t]] = Objects
      BY <1>1, <3>1, <3>3 DEF Objects
    <3> QED
      BY <3>1, <3>2, <3>4
  <2> QED
    BY <1>1, <2>3, <2>4 DEF Whole
<1>5. Kept'
  <2>1. ASSUME NEW a \in Assets \ (leaky \cup removed)
        PROVE  /\ row[a] # NoAttempt => of[row[a]] = a /\ pc'[row[a]] \in Held
               /\ \A k \in stored'[a] : row[a] # NoAttempt /\ k \in keys'[row[a]]
    <3>1. CASE a = of[t]
      <4>1. row[a] = t /\ t # NoAttempt
        BY <1>1, <3>1 DEF IInv, OwnRow, Held, Attempts, NoAttempt
      <4> QED
        BY <1>1, <3>1, <4>1 DEF IInv, Kept, Held
    <3>2. CASE a # of[t]
      <4>1. row[a] # NoAttempt => row[a] \in Attempts /\ row[a] # t
        BY <3>2 DEF IInv, Kept, ServerType
      <4> QED
        BY <1>1, <3>2, <4>1 DEF IInv, Kept
    <3> QED
      BY <3>1, <3>2
  <2> QED
    BY <1>1, <2>1 DEF Kept
<1>6. Told'
  BY <1>1 DEF IInv, Told
<1> QED
  BY <1>2, <1>3, <1>4, <1>5, <1>6

(* The last message is sent, or the clean-up begins.                        *)
LEMMA AnnounceStep ==
  ASSUME IInv, NEW t \in Attempts, Announce(t)
  PROVE  OwnRow' /\ Fresh' /\ Whole' /\ Kept' /\ Told'
<1>1. /\ pc[t] = "announce" /\ pc'[t] \in {"done", "clean"}
      /\ \A u \in Attempts : u # t => pc'[u] = pc[u]
      /\ UNCHANGED <<stored, row, meta, indexed, of, keys, told, removed, leaky>>
  BY DEF Announce, At, Goto, rows, history, IInv, ServerType
<1>2. OwnRow'
  BY <1>1 DEF IInv, OwnRow, Held
<1>3. Fresh'
  BY <1>1 DEF IInv, Fresh
<1>4. Whole'
  BY <1>1 DEF IInv, Whole
<1>5. Kept'
  BY <1>1 DEF IInv, Kept, Held, ServerType
<1>6. Told'
  BY <1>1 DEF IInv, Told
<1> QED
  BY <1>2, <1>3, <1>4, <1>5, <1>6

-----------------------------------------------------------------------------
(* Clean-up, deletion, crash, and the announcement at the client *)

(* The clean-up takes an object of its own attempt, or leaves it and is leaky.*)
LEMMA CleanObjectStep ==
  ASSUME IInv, NEW t \in Attempts, NEW k \in Objects, CleanObject(t, k)
  PROVE  OwnRow' /\ Fresh' /\ Whole' /\ Kept' /\ Told'
<1>1. /\ pc[t] = "clean" /\ of[t] \in Assets
      /\ \A u \in Attempts : u # t => keys'[u] = keys[u]
      /\ keys'[t] = keys[t] \ {k}
      /\ \A a \in Assets : a # of[t] => stored'[a] = stored[a]
      /\ leaky \subseteq leaky'
      /\ of[t] \in leaky' \/ stored'[of[t]] = stored[of[t]] \ {k}
      /\ UNCHANGED <<row, meta, indexed, pc, of, told, removed>>
  BY DEF CleanObject, At, rows, IInv, ClientType, ServerType
<1>2. OwnRow'
  BY <1>1 DEF IInv, OwnRow
<1>3. Fresh'
  BY <1>1 DEF IInv, Fresh
<1>4. Whole'
  <2>1. \A u \in Attempts : u # t /\ pc[u] \in Held /\ of[u] = of[t] => of[t] \in removed
    BY <1>1, Alone DEF IInv, Held
  <2>2. ASSUME NEW u \in Attempts, of[u] \notin removed, pc[u] \in {"upload", "announce", "done"}
        PROVE  of[u] \in Assets /\ of[u] # of[t] /\ u # t
    BY <1>1, <2>1, <2>2 DEF Held, IInv, ClientType, ServerType
  <2>3. ASSUME NEW u \in Attempts, of[u] \notin removed
        PROVE  /\ pc[u] = "upload" =>
                    of[u] \in meta /\ keys'[u] \subseteq stored'[of[u]] \cap indexed[of[u]]
               /\ pc[u] \in {"announce", "done"} =>
                    /\ of[u] \in meta /\ indexed[of[u]] = Segments
                    /\ stored'[of[u]] = Objects /\ keys'[u] = Objects
    BY <1>1, <2>2, <2>3 DEF IInv, Whole
  <2> QED
    BY <1>1, <2>3 DEF Whole
<1>5. Kept'
  <2>1. ASSUME NEW a \in Assets \ (leaky' \cup removed)
        PROVE  /\ row[a] # NoAttempt => of[row[a]] = a /\ pc[row[a]] \in Held
               /\ \A j \in stored'[a] : row[a] # NoAttempt /\ j \in keys'[row[a]]
    <3>1. CASE a = of[t]
      <4>1. row[a] = t /\ a \notin leaky
        BY <1>1, <3>1 DEF IInv, OwnRow, Held
      <4> QED
        BY <1>1, <3>1, <4>1 DEF IInv, Kept
    <3>2. CASE a # of[t]
      <4>1. a \notin leaky
        BY <1>1
      <4>2. row[a] # NoAttempt => row[a] \in Attempts /\ row[a] # t
        BY <3>2, <4>1 DEF IInv, Kept, ServerType
      <4> QED
        BY <1>1, <3>2, <4>1, <4>2 DEF IInv, Kept
    <3> QED
      BY <3>1, <3>2
  <2> QED
    BY <1>1, <2>1 DEF Kept
<1>6. Told'
  BY <1>1 DEF IInv, Told
<1> QED
  BY <1>2, <1>3, <1>4, <1>5, <1>6

(* ... and then a row under which nothing is left.                          *)
LEMMA CleanRowStep ==
  ASSUME IInv, NEW t \in Attempts, CleanRow(t)
  PROVE  OwnRow' /\ Fresh' /\ Whole' /\ Kept' /\ Told'
<1>1. /\ pc[t] = "clean" /\ keys[t] = {} /\ of[t] \in Assets
      /\ \A u \in Attempts : u # t => pc'[u] = pc[u]
      /\ pc'[t] = "refused"
      /\ \A a \in Assets : a # of[t] =>
           row'[a] = row[a] /\ indexed'[a] = indexed[a] /\ (a \in meta' <=> a \in meta)
      /\ leaky \subseteq leaky'
      /\ of[t] \in leaky' \/ row'[of[t]] = NoAttempt
      /\ UNCHANGED <<stored, of, keys, told, removed>>
  BY DEF CleanRow, DropRow, At, Goto, rows, IInv, ClientType, ServerType
<1>2. \A u \in Attempts : u # t /\ pc[u] \in Held /\ of[u] = of[t] => of[t] \in removed
  BY <1>1, Alone DEF IInv, Held
<1>3. ASSUME NEW u \in Attempts, of[u] \notin removed, pc'[u] \in Held
      PROVE  of[u] \in Assets /\ of[u] # of[t] /\ u # t /\ pc'[u] = pc[u]
  BY <1>1, <1>2, <1>3 DEF Held, IInv, ClientType, ServerType
<1>4. OwnRow'
  BY <1>1, <1>3 DEF IInv, OwnRow
<1>5. Fresh'
  BY <1>1 DEF IInv, Fresh
<1>6. Whole'
  <2>1. ASSUME NEW u \in Attempts, of[u] \notin removed
        PROVE  /\ pc'[u] = "upload" =>
                    of[u] \in meta' /\ keys[u] \subseteq stored[of[u]] \cap indexed'[of[u]]
               /\ pc'[u] \in {"announce", "done"} =>
                    /\ of[u] \in meta' /\ indexed'[of[u]] = Segments
                    /\ stored[of[u]] = Objects /\ keys[u] = Objects
    BY <1>1, <1>3, <2>1 DEF IInv, Whole, Held
  <2> QED
    BY <1>1, <2>1 DEF Whole
<1>7. Kept'
  <2>1. ASSUME NEW a \in Assets \ (leaky' \cup removed)
        PROVE  /\ row'[a] # NoAttempt => of[row'[a]] = a /\ pc'[row'[a]] \in Held
               /\ \A j \in stored[a] : row'[a] # NoAttempt /\ j \in keys[row'[a]]
    <3>1. CASE a = of[t]
      <4>1. row[a] = t /\ a \notin leaky /\ row'[a] = NoAttempt
        BY <1>1, <3>1 DEF IInv, OwnRow, Held
      <4> QED
        BY <1>1, <3>1, <4>1 DEF IInv, Kept
    <3>2. CASE a # of[t]
      <4>1. a \notin leaky
        BY <1>1
      <4>2. row[a] # NoAttempt => row[a] \in Attempts /\ row[a] # t
        BY <3>2, <4>1 DEF IInv, Kept, ServerType
      <4> QED
        BY <1>1, <3>2, <4>1, <4>2 DEF IInv, Kept
    <3> QED
      BY <3>1, <3>2
  <2> QED
    BY <1>1, <2>1 DEF Kept
<1>8. Told'
  BY <1>1 DEF IInv, Told
<1> QED
  BY <1>4, <1>5, <1>6, <1>7, <1>8

(* What a crash leaves is leaky.                                            *)
LEMMA CrashStep ==
  ASSUME IInv, Crash
  PROVE  OwnRow' /\ Fresh' /\ Whole' /\ Kept' /\ Told'
<1>1. /\ pc' = [t \in Attempts |-> IF pc[t] \in Working THEN "crashed" ELSE pc[t]]
      /\ leaky' = leaky \cup {of[t] : t \in {u \in Attempts : pc[u] \in Working}}
      /\ UNCHANGED <<stored, row, meta, indexed, of, keys, told, removed>>
  BY DEF Crash, rows
<1>2. \A t \in Attempts : pc'[t] # "crashed" => pc'[t] = pc[t]
  BY <1>1
<1>3. OwnRow'
  BY <1>1, <1>2 DEF IInv, OwnRow, Held
<1>4. Fresh'
  BY <1>1, <1>2 DEF IInv, Fresh
<1>5. Whole'
  BY <1>1, <1>2 DEF IInv, Whole
<1>6. Kept'
  <2>1. ASSUME NEW a \in Assets \ (leaky' \cup removed), row[a] # NoAttempt
        PROVE  pc'[row[a]] \in Held
    <3>1. row[a] \in Attempts /\ of[row[a]] = a /\ pc[row[a]] \in Held
      BY <1>1, <2>1 DEF IInv, Kept, ServerType
    <3>2. pc[row[a]] \notin Working
      BY <1>1, <3>1
    <3> QED
      BY <1>1, <3>1, <3>2
  <2> QED
    BY <1>1, <2>1 DEF IInv, Kept
<1>7. Told'
  BY <1>1 DEF IInv, Told, Working
<1> QED
  BY <1>3, <1>4, <1>5, <1>6, <1>7

(* An asset a user deletes is out of every promise.                         *)
LEMMA DeleteAssetStep ==
  ASSUME IInv, NEW a \in Assets, DeleteAsset(a)
  PROVE  OwnRow' /\ Fresh' /\ Whole' /\ Kept' /\ Told'
<1>1. /\ removed' = removed \cup {a}
      /\ \A b \in Assets : b # a =>
           row'[b] = row[b] /\ indexed'[b] = indexed[b] /\ (b \in meta' <=> b \in meta)
      /\ UNCHANGED <<stored, pc, of, keys, told, leaky>>
  BY DEF DeleteAsset, DropRow, server, IInv, ServerType
<1>2. \A t \in Attempts : pc[t] \in Held /\ of[t] \notin removed' => of[t] \in Assets /\ of[t] # a
  BY <1>1 DEF IInv, ClientType, ServerType, Held
<1>3. OwnRow'
  BY <1>1, <1>2 DEF IInv, OwnRow
<1>4. Fresh'
  BY <1>1 DEF IInv, Fresh
<1>5. Whole'
  <2>1. ASSUME NEW t \in Attempts, of[t] \notin removed'
        PROVE  /\ pc[t] = "upload" =>
                    of[t] \in meta' /\ keys[t] \subseteq stored[of[t]] \cap indexed'[of[t]]
               /\ pc[t] \in {"announce", "done"} =>
                    /\ of[t] \in meta' /\ indexed'[of[t]] = Segments
                    /\ stored[of[t]] = Objects /\ keys[t] = Objects
    BY <1>1, <1>2, <2>1 DEF IInv, Whole, Held
  <2> QED
    BY <1>1, <2>1 DEF Whole
<1>6. Kept'
  BY <1>1 DEF IInv, Kept
<1>7. Told'
  BY <1>1 DEF IInv, Told
<1> QED
  BY <1>3, <1>4, <1>5, <1>6, <1>7

(* What the client is told of is done.                                      *)
LEMMA FinishedStep ==
  ASSUME IInv, NEW t \in Attempts, Finished(t)
  PROVE  OwnRow' /\ Fresh' /\ Whole' /\ Kept' /\ Told'
<1>1. /\ pc[t] = "done" /\ told' = told \cup {of[t]}
      /\ UNCHANGED <<stored, row, meta, indexed, pc, of, keys, removed, leaky>>
  BY DEF Finished, rows, server
<1> QED
  BY <1>1 DEF IInv, OwnRow, Fresh, Whole, Kept, Told

(* Every step keeps the invariant.                                          *)
LEMMA IInvNext ==
  ASSUME IInv, [Next]_vars
  PROVE  IInv'
<1>1. ClientType' /\ ServerType'
  BY TypeNext DEF IInv
<1>2. CASE \/ DialogSteps \/ UNCHANGED vars
           \/ \E t \in Attempts : Errored(t)
           \/ \E a \in Assets : AddProjectAsset(a) \/ RemoveProjectAsset(a)
  <2>1. UNCHANGED <<stored, row, meta, indexed, pc, of, keys, told, removed, leaky>>
    BY <1>2 DEF DialogSteps, CloseDialog, SelectFile, PutDone, PutFails, SubmitEarly, OpenDialog,
                ClickTryAgain, AnswerTarget, FailTarget, Errored, AddProjectAsset,
                RemoveProjectAsset, vars, rows, server, history
  <2> QED
    BY <1>1, <2>1, QuietStep DEF IInv
<1>3. ASSUME NEW t \in Attempts, Initiate(t) \/ Finished(t)
      PROVE  IInv'
  BY <1>1, <1>3, EarlyStep, FinishedStep DEF IInv
<1>4. ASSUME NEW t \in Attempts, Attempt(t)
      PROVE  OwnRow' /\ Fresh' /\ Whole' /\ Kept' /\ Told'
  BY <1>4, EarlyStep, CreateStep, CreateUnansweredStep, DescribeStep, UploadSegmentStep, FinishUploadStep,
     AnnounceStep, CleanObjectStep, CleanRowStep DEF Attempt
<1>5. CASE Crash
  BY <1>1, <1>5, CrashStep DEF IInv
<1>6. ASSUME NEW a \in Assets, DeleteAsset(a)
      PROVE  IInv'
  BY <1>1, <1>6, DeleteAssetStep DEF IInv
<1> QED
  BY <1>1, <1>2, <1>3, <1>4, <1>5, <1>6 DEF Next, DialogSteps, IInv

(* Hence it is one.                                                         *)
LEMMA Inductive == Spec => []IInv
<1>1. Init => IInv
  BY IInvInit
<1>2. IInv /\ [Next]_vars => IInv'
  BY IInvNext
<1> QED
  BY <1>1, <1>2, PTL DEF Spec

-----------------------------------------------------------------------------

(* Of any number of attempts at one id only the one that made the row is     *)
(* past its creation, so that no clean-up of ingest-video.go takes another's *)
(* objects, unless a user deleted the row in between.                       *)
THEOREM CleansOnlyItsOwnHolds == Spec => []CleansOnlyItsOwn
<1>1. IInv => CleansOnlyItsOwn
  BY DEF IInv, OwnRow, CleansOnlyItsOwn, Working, Held
<1> QED
  BY <1>1, Inductive, PTL

(* An asset whose stream said "finished" has its rows, all of its key        *)
(* frames, segments and manifest for ever, unless a user deletes it.        *)
THEOREM AnnouncedIsWholeHolds == Spec => []AnnouncedIsWhole
<1>1. IInv => AnnouncedIsWhole
  <2> SUFFICES ASSUME IInv, NEW a \in told \ removed
               PROVE  row[a] # NoAttempt /\ a \in meta /\ indexed[a] = Segments /\ stored[a] = Objects
    BY DEF AnnouncedIsWhole
  <2>1. PICK t \in Attempts : pc[t] = "done" /\ of[t] = a
    BY DEF IInv, Told
  <2>2. row[a] = t /\ t # NoAttempt
    BY <2>1 DEF IInv, OwnRow, Held, Attempts, NoAttempt
  <2> QED
    BY <2>1, <2>2 DEF IInv, Whole
<1> QED
  BY <1>1, Inductive, PTL

(* When the attempts at an asset all failed and cleaned up, its row and its  *)
(* objects are gone, unless a deletion failed, the server crashed meanwhile  *)
(* or a user deleted the row.                                               *)
THEOREM FailedLeavesNothingHolds == Spec => []FailedLeavesNothing
<1>1. IInv => FailedLeavesNothing
  <2> SUFFICES ASSUME IInv, NEW a \in pending \ (leaky \cup removed),
                      \A t \in Attempts : of[t] = a => pc[t] = "refused"
               PROVE  row[a] = NoAttempt /\ stored[a] = {}
    BY DEF FailedLeavesNothing
  <2>1. a \in Assets \ (leaky \cup removed)
    BY DEF IInv, ClientType
  <2>2. row[a] = NoAttempt
    BY <2>1 DEF IInv, Kept, Held, ServerType
  <2> QED
    BY <2>1, <2>2 DEF IInv, Kept
<1> QED
  BY <1>1, Inductive, PTL
=============================================================================
