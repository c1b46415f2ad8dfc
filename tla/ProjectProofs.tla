--------------------------- MODULE ProjectProofs ----------------------------
(***************************************************************************)
(* Proofs about a project: about BranchCommits, for any users, requests in *)
(* flight, edits and bound on the number of commits; and about the editor  *)
(* (EditorTimeline, EditorGestures), for any videos and sounds of any      *)
(* duration, any Snap and any bounds.                                      *)
(*                                                                         *)
(* The editor's lists change by splices, sorts and filters of any length,  *)
(* so that its proofs begin with what those operators do.                  *)
(***************************************************************************)
EXTENDS BranchCommits, EditorGestures, SequenceTheorems, FiniteSetTheorems,
        WellFoundedInduction, TLAPS

-----------------------------------------------------------------------------
(* Part I.  The branch *)


(* A handler's slot stays well-typed when it moves on or returns.          *)
HandlersTyped ==
  /\ pc \in [Slots -> PCs]
  /\ edit \in [Slots -> MaybeEdit]
  /\ id \in [Slots -> Int]
  /\ seen \in [Slots -> Int]
  /\ kind \in [Slots -> Kinds]

(* Returning from any handler leaves every slot well-typed.                *)
LEMMA ReturnTyped ==
  ASSUME HandlersTyped, NEW r \in Slots, Return(r)
  PROVE  HandlersTyped'
<1>1. "idle" \in PCs /\ "video" \in Kinds /\ NoEdit \in MaybeEdit /\ NoCommit \in Int
  BY DEF PCs, Kinds, MaybeEdit, NoCommit
<1> QED
  BY <1>1 DEF HandlersTyped, Return, Goto

(* Every handler is idle, and every manifest absent, at the start.         *)
LEMMA TypeInit == Init => TypeOK
<1> SUFFICES ASSUME Init PROVE TypeOK
  OBVIOUS
<1>1. NoEdit \in MaybeEdit /\ "idle" \in PCs /\ "video" \in Kinds
  BY DEF MaybeEdit, PCs, Kinds
<1>2. cache \in [Users -> [Kinds -> MaybeEdit]]
  BY <1>1 DEF Init
<1>3. commits \in Seq([parent : Int, edit : MaybeEdit])
  BY DEF Init
<1>4. /\ pc \in [Slots -> PCs] /\ edit \in [Slots -> MaybeEdit]
      /\ id \in [Slots -> Int] /\ seen \in [Slots -> Int] /\ kind \in [Slots -> Kinds]
  BY <1>1 DEF Init, NoCommit
<1>5. cloud \in [Kinds -> MaybeEdit]
  BY <1>1 DEF Init
<1>6. tip \in Nat /\ known \in [Users -> Int]
  BY DEF Init, NoCommit
<1>7. published \subseteq MaybeEdit
  BY DEF Init
<1>8. torn \in BOOLEAN
  BY DEF Init
<1> QED
  BY <1>2, <1>3, <1>4, <1>5, <1>6, <1>7, <1>8 DEF TypeOK

(* Every action keeps every variable in its type.                          *)
LEMMA TypeStep == TypeOK /\ [Next]_vars => TypeOK'
<1> SUFFICES ASSUME TypeOK, [Next]_vars PROVE TypeOK'
  OBVIOUS
<1>e. \A r \in Slots : Owner[r] \in Users /\ EditsOf[Owner[r]] \subseteq MaybeEdit
  BY EditsAssumption, OwnerAssumption DEF MaybeEdit
<1>n. NoEdit \in MaybeEdit /\ NoCommit \in Int /\ Phantom \in Int
  BY DEF MaybeEdit, NoCommit, Phantom
<1> USE <1>e, <1>n DEF TypeOK, db, args, history, PCs, Kinds, Goto
<1>1. ASSUME NEW r \in Slots, CommitStep(r) PROVE TypeOK'
  <2>1. CASE SendCommit(r)
    BY <2>1 DEF SendCommit
  <2>2. CASE ReadTip(r)
    <3>1. CASE Accepted(r)
      <4>1. /\ Goto(r, "putVideo") /\ seen' = [seen EXCEPT ![r] = tip]
            /\ UNCHANGED <<edit, id, kind, db, cloud, cache, known, history>>
        BY <2>2, <3>1 DEF ReadTip
      <4> QED
        BY <4>1
    <3>2. CASE ~Accepted(r)
      <4>1. Return(r) /\ UNCHANGED <<db, cloud, cache, known, history>>
        BY <2>2, <3>2 DEF ReadTip
      <4> QED
        BY <4>1, ReturnTyped DEF HandlersTyped
    <3> QED
      BY <3>1, <3>2
  <2>3. CASE PutVideo(r)
    BY <2>3 DEF PutVideo
  <2>4. CASE PutAudio(r)
    BY <2>4 DEF PutAudio
  <2>5. CASE CommitTx(r)
    BY <2>5 DEF CommitTx, Answer, NextId
  <2>6. CASE CommitTxLost(r)
    BY <2>6 DEF CommitTxLost, Answer
  <2>7. CASE CommitFails(r)
    BY <2>7 DEF CommitFails, Return
  <2>8. CASE PutFailsLate(r)
    <3>1. Return(r) /\ UNCHANGED <<db, cache, known>>
      BY <2>8 DEF PutFailsLate
    <3>2. HandlersTyped'
      BY <3>1, ReturnTyped DEF HandlersTyped
    <3>3. edit[r] \in MaybeEdit
      OBVIOUS
    <3>4. cloud' \in [Kinds -> MaybeEdit]
      BY <2>8, <3>3 DEF PutFailsLate
    <3>5. published' \subseteq MaybeEdit
      BY <2>8, <3>3 DEF PutFailsLate
    <3>6. torn' \in BOOLEAN
      BY <2>8 DEF PutFailsLate
    <3> QED
      BY <3>1, <3>2, <3>4, <3>5, <3>6 DEF HandlersTyped
  <2> QED
    BY <1>1, <2>1, <2>2, <2>3, <2>4, <2>5, <2>6, <2>7, <2>8 DEF CommitStep
<1>2. ASSUME NEW r \in Slots, DropStep(r) PROVE TypeOK'
  <2>1. CASE SendGetCommit(r)
    BY <2>1 DEF SendGetCommit
  <2>2. CASE DropVideo(r)
    BY <2>2 DEF DropVideo
  <2>3. CASE DropAudio(r)
    BY <2>3 DEF DropAudio, Return
  <2> QED
    BY <1>2, <2>1, <2>2, <2>3 DEF DropStep
<1>3. ASSUME NEW r \in Slots, AutoSaveStep(r) PROVE TypeOK'
  <2>1. CASE SendAutoSave(r)
    BY <2>1 DEF SendAutoSave
  <2>2. CASE CacheVideo(r)
    BY <2>2 DEF CacheVideo
  <2>3. CASE CacheAudio(r)
    BY <2>3 DEF CacheAudio, Return
  <2>4. CASE AutoSaveFails(r)
    BY <2>4 DEF AutoSaveFails, Return
  <2> QED
    BY <1>3, <2>1, <2>2, <2>3, <2>4 DEF AutoSaveStep
<1>4. ASSUME NEW r \in Slots, ManifestStep(r) PROVE TypeOK'
  <2>1. CASE SendGetManifest(r)
    BY <2>1 DEF SendGetManifest
  <2>2. CASE Find(r)
    <3>1. CASE cache[Owner[r]][kind[r]] = NoEdit
      BY <2>2, <3>1 DEF Find
    <3>2. CASE cache[Owner[r]][kind[r]] # NoEdit
      <4>1. Return(r) /\ UNCHANGED <<db, cloud, cache, known, history>>
        BY <2>2, <3>2 DEF Find
      <4> QED
        BY <4>1, ReturnTyped DEF HandlersTyped
    <3> QED
      BY <3>1, <3>2
  <2>3. CASE Fetch(r)
    <3>1. CASE cloud[kind[r]] = NoEdit
      <4>1. Return(r) /\ UNCHANGED <<db, cloud, cache, known, history>>
        BY <2>3, <3>1 DEF Fetch
      <4> QED
        BY <4>1, ReturnTyped DEF HandlersTyped
    <3>2. CASE cloud[kind[r]] # NoEdit
      BY <2>3, <3>2 DEF Fetch
    <3> QED
      BY <3>1, <3>2
  <2>4. CASE Fill(r)
    BY <2>4 DEF Fill, Return
  <2> QED
    BY <1>4, <2>1, <2>2, <2>3, <2>4 DEF ManifestStep
<1>5. ASSUME NEW u \in Users, ListBranches(u) PROVE TypeOK'
  BY <1>5 DEF ListBranches
<1>6. ASSUME NEW u \in Users, NEW k \in Kinds, Expire(u, k) PROVE TypeOK'
  BY <1>6 DEF Expire
<1>7. CASE PodRolls
  BY <1>7 DEF PodRolls
<1>8. CASE UNCHANGED vars
  BY <1>8 DEF vars
<1> QED
  BY <1>1, <1>2, <1>3, <1>4, <1>5, <1>6, <1>7, <1>8 DEF Next

(* Type correctness of the branch, its manifests, the cache and handlers.  *)
THEOREM TypeCorrect == Spec => []TypeOK
BY TypeInit, TypeStep, PTL DEF Spec

-----------------------------------------------------------------------------
(* What a CommitEdit between its stale check and its transaction carries:  *)
(* the previous commit it names, if any, is the tip it read.               *)
Committing == {r \in Slots : pc[r] \in {"putVideo", "putAudio", "commitTx"}}

NamesWhatItRead == \A r \in Committing : id[r] \in {NoCommit, seen[r]}

TipInv == TypeOK /\ NamesWhatItRead

(* A step that starts no commit's second half keeps it so.                 *)
LEMMA TipFrame ==
  ASSUME TipInv, TypeOK',
         \A r \in Committing' : r \in Committing /\ id'[r] = id[r] /\ seen'[r] = seen[r]
  PROVE  TipInv'
BY DEF TipInv, NamesWhatItRead

(* The stale check lets through a request that names no commit or the tip. *)
LEMMA TipReadTip ==
  ASSUME TipInv, TypeOK', NEW r \in Slots, ReadTip(r)
  PROVE  TipInv'
<1>t. TypeOK /\ NamesWhatItRead
  BY DEF TipInv
<1>1. CASE ~Accepted(r)
  <2>1. Return(r)
    BY <1>1 DEF ReadTip
  <2>2. \A s \in Committing' : s \in Committing /\ id'[s] = id[s] /\ seen'[s] = seen[s]
    BY <1>t, <2>1 DEF Return, Goto, Committing, TypeOK
  <2> QED
    BY <2>2, TipFrame
<1>2. CASE Accepted(r)
  <2>1. Goto(r, "putVideo") /\ seen' = [seen EXCEPT ![r] = tip] /\ id' = id
    BY <1>2 DEF ReadTip
  <2>2. \A s \in Committing' : s # r => s \in Committing /\ seen'[s] = seen[s]
    BY <1>t, <2>1 DEF Goto, Committing, TypeOK
  <2>3. seen'[r] = tip /\ id'[r] \in {NoCommit, tip}
    BY <1>t, <1>2, <2>1 DEF Accepted, TypeOK
  <2> QED
    BY <1>t, <2>1, <2>2, <2>3 DEF TipInv, NamesWhatItRead
<1> QED
  BY <1>1, <1>2

(* Every other action of a handler leaves the slots of the commits under   *)
(* way unchanged, or ends them.                                            *)
LEMMA TipStep == TipInv /\ [Next]_vars => TipInv'
<1> SUFFICES ASSUME TipInv, [Next]_vars PROVE TipInv'
  OBVIOUS
<1>t. TypeOK /\ TypeOK'
  BY TypeStep DEF TipInv
<1> DEFINE Kept == \A s \in Committing' :
                     s \in Committing /\ id'[s] = id[s] /\ seen'[s] = seen[s]
<1>f. Kept => TipInv'
  BY <1>t, TipFrame
<1>1. ASSUME NEW r \in Slots, CommitStep(r) PROVE TipInv'
  <2> USE DEF Goto, Committing, TypeOK
  <2>1. CASE SendCommit(r)
    BY <2>1, <1>t, <1>f DEF SendCommit
  <2>2. CASE ReadTip(r)
    BY <2>2, <1>t, TipReadTip
  <2>3. CASE PutVideo(r)
    BY <2>3, <1>t, <1>f DEF PutVideo, At, args
  <2>4. CASE PutAudio(r)
    BY <2>4, <1>t, <1>f DEF PutAudio, At, args
  <2>5. CASE CommitTx(r)
    BY <2>5, <1>t, <1>f DEF CommitTx, Answer
  <2>6. CASE CommitTxLost(r)
    BY <2>6, <1>t, <1>f DEF CommitTxLost, Answer
  <2>7. CASE CommitFails(r)
    BY <2>7, <1>t, <1>f DEF CommitFails, Return
  <2>8. CASE PutFailsLate(r)
    BY <2>8, <1>t, <1>f DEF PutFailsLate, Return
  <2> QED
    BY <1>1, <2>1, <2>2, <2>3, <2>4, <2>5, <2>6, <2>7, <2>8 DEF CommitStep
<1>2. ASSUME NEW r \in Slots, DropStep(r) PROVE TipInv'
  BY <1>2, <1>t, <1>f
     DEF DropStep, SendGetCommit, DropVideo, DropAudio, Return, Goto, Committing, TypeOK, args, At
<1>3. ASSUME NEW r \in Slots, AutoSaveStep(r) PROVE TipInv'
  BY <1>3, <1>t, <1>f
     DEF AutoSaveStep, SendAutoSave, CacheVideo, CacheAudio, AutoSaveFails, Return, Goto,
         Committing, TypeOK, args, At
<1>4. ASSUME NEW r \in Slots, ManifestStep(r) PROVE TipInv'
  BY <1>4, <1>t, <1>f
     DEF ManifestStep, SendGetManifest, Find, Fetch, Fill, Return, Goto,
         Committing, TypeOK, args, At
<1>5. ASSUME NEW u \in Users, ListBranches(u) \/ \E k \in Kinds : Expire(u, k)
      PROVE TipInv'
  BY <1>5, <1>f DEF ListBranches, Expire, Committing, args
<1>6. CASE PodRolls
  BY <1>6, <1>t, <1>f DEF PodRolls, Committing
<1>7. CASE UNCHANGED vars
  BY <1>7, <1>f DEF vars, Committing, args
<1> QED
  BY <1>1, <1>2, <1>3, <1>4, <1>5, <1>6, <1>7 DEF Next

(* No commit is under way at the start.                                    *)
LEMMA TipInit == Init => TipInv
<1>1. Init => Committing = {}
  BY DEF Init, Committing
<1> QED
  BY <1>1, TypeInit DEF TipInv, NamesWhatItRead

(* Only a transaction moves the tip, and when it names a previous commit   *)
(* that is the tip it replaces, unless another commit overtook its stale   *)
(* check.                                                                  *)
THEOREM TipOnlyMovesForward == Spec => TipMovesForward
<1> DEFINE Forward ==
      tip' # tip /\ commits'[tip'].parent # NoCommit =>
        \/ commits'[tip'].parent = tip
        \/ \E r \in Slots : seen[r] # tip /\ id'[r] = tip'
<1>1. TipInv /\ [Next]_vars => [Forward]_vars
  <2> SUFFICES ASSUME TipInv, [Next]_vars, tip' # tip PROVE Forward
    OBVIOUS
  <2>1. PICK r \in Slots : CommitTx(r)
    BY DEF Next, CommitStep, DropStep, AutoSaveStep, ManifestStep, vars, db,
           SendCommit, ReadTip, PutVideo, PutAudio, CommitTxLost, CommitFails, PutFailsLate,
           SendGetCommit, DropVideo, DropAudio, SendAutoSave, CacheVideo, CacheAudio,
           AutoSaveFails, SendGetManifest, Find, Fetch, Fill, ListBranches, Expire, PodRolls
  <2>2. id[r] \in {NoCommit, seen[r]}
    BY <2>1 DEF CommitTx, At, Committing, TipInv, NamesWhatItRead
  <2>3. commits \in Seq([parent : Int, edit : MaybeEdit]) /\ id \in [Slots -> Int]
    BY DEF TipInv, TypeOK
  <2>4. commits'[tip'].parent = id[r]
    BY <2>1, <2>3 DEF CommitTx, NextId
  <2>5. id'[r] = tip'
    BY <2>1, <2>3 DEF CommitTx, Answer
  <2> QED
    BY <2>2, <2>4, <2>5
<1> QED
  BY <1>1, TipInit, TipStep, PTL DEF Spec, TipMovesForward

-----------------------------------------------------------------------------
(* Where a manifest on its way into the cache or the cloud comes from: an  *)
(* auto-save carries an edit of the slot's owner; a fill, and the audio    *)
(* half of a commit, carry one that was published.                         *)
CarriedSound ==
  \A r \in Slots :
    /\ pc[r] \in {"cacheVideo", "cacheAudio"} => edit[r] \in EditsOf[Owner[r]]
    /\ pc[r] \in {"putAudio", "fill"} => edit[r] \in published

CloudPublished == \A k \in Kinds : cloud[k] \in {NoEdit} \cup published

OwnInv == TypeOK /\ OwnEditsOnly /\ CarriedSound /\ CloudPublished

(* One cache entry is replaced; nothing ever leaves `published`.           *)
LEMMA OwnFrame ==
  ASSUME OwnInv, TypeOK', published \subseteq published',
         CarriedSound', CloudPublished',
         \A u \in Users, k \in Kinds :
           cache'[u][k] \in {cache[u][k], NoEdit} \cup EditsOf[u] \cup published'
  PROVE  OwnInv'
<1>1. OwnEditsOnly'
  BY DEF OwnInv, OwnEditsOnly
<1> QED
  BY <1>1 DEF OwnInv

(* Writing one entry of the cache leaves every other as it was.            *)
LEMMA OneEntry ==
  ASSUME TypeOK, NEW u \in Users, NEW k \in Kinds, NEW e,
         cache' = [cache EXCEPT ![u][k] = e]
  PROVE  \A v \in Users, l \in Kinds : cache'[v][l] \in {cache[v][l], e}
                                     /\ (v # u => cache'[v][l] = cache[v][l])
<1>1. cache \in [Users -> [Kinds -> MaybeEdit]]
  BY DEF TypeOK
<1>2. cache' = [v \in Users |-> IF v = u THEN [l \in Kinds |-> IF l = k THEN e ELSE cache[u][l]]
                                       ELSE cache[v]]
  BY <1>1
<1> QED
  BY <1>2

(* Every step keeps it.                                                    *)
LEMMA OwnStep == OwnInv /\ [Next]_vars => OwnInv'
<1> SUFFICES ASSUME OwnInv, [Next]_vars PROVE OwnInv'
  OBVIOUS
<1>t. TypeOK /\ TypeOK' /\ CarriedSound /\ CloudPublished
  BY TypeStep DEF OwnInv
<1> DEFINE CacheOK == \A u \in Users, k \in Kinds :
             cache'[u][k] \in {cache[u][k], NoEdit} \cup EditsOf[u] \cup published'
<1>f. published \subseteq published' /\ CarriedSound' /\ CloudPublished' /\ CacheOK => OwnInv'
  BY <1>t, OwnFrame
<1>k. /\ \A v \in Users, k \in Kinds : cache[v][k] \in {cache[v][k]}
      /\ "video" \in Kinds /\ "audio" \in Kinds
      /\ \A r \in Slots : Owner[r] \in Users
  BY OwnerAssumption DEF Kinds
<1>1. ASSUME NEW r \in Slots, CommitStep(r) PROVE OwnInv'
  <2>1. CacheOK /\ published \subseteq published'
    BY <1>1, <1>t DEF CommitStep, SendCommit, ReadTip, PutVideo, PutAudio, CommitTx,
                CommitTxLost, CommitFails, PutFailsLate, history, TypeOK
  <2>2. CarriedSound'
    BY <1>1, <1>t, <2>1
       DEF CommitStep, SendCommit, ReadTip, PutVideo, PutAudio, CommitTx, CommitTxLost,
           CommitFails, PutFailsLate, Answer, Return, Goto, At, args, history, CarriedSound,
           TypeOK
  <2>3. CloudPublished'
    <3>1. CASE PutVideo(r)
      BY <3>1, <1>t DEF PutVideo, CloudPublished, TypeOK
    <3>2. CASE PutAudio(r)
      BY <3>2, <1>t DEF PutAudio, At, CarriedSound, CloudPublished, history, TypeOK
    <3>4. CASE PutFailsLate(r)
      <4>1. CASE /\ cloud' = [cloud EXCEPT !["video"] = edit[r]]
                 /\ published' = published \cup {edit[r]}
        BY <4>1, <1>t DEF CloudPublished, TypeOK
      <4>2. CASE /\ At(r, "putAudio") /\ cloud' = [cloud EXCEPT !["audio"] = edit[r]]
                 /\ UNCHANGED published
        BY <4>2, <1>t DEF At, CarriedSound, CloudPublished, TypeOK
      <4> QED
        BY <3>4, <4>1, <4>2 DEF PutFailsLate
    <3>3. CASE ~PutVideo(r) /\ ~PutAudio(r) /\ ~PutFailsLate(r)
      <4>1. UNCHANGED cloud
        BY <1>1, <3>3 DEF CommitStep, SendCommit, ReadTip, CommitTx, CommitTxLost, CommitFails
      <4> QED
        BY <4>1, <1>t, <2>1 DEF CloudPublished
    <3> QED
      BY <3>1, <3>2, <3>3, <3>4
  <2> QED
    BY <2>1, <2>2, <2>3, <1>f
<1>2. ASSUME NEW r \in Slots, DropStep(r) PROVE OwnInv'
  <2>1. CacheOK
    <3>1. CASE \E k \in Kinds : cache' = [cache EXCEPT ![Owner[r]][k] = NoEdit]
      BY <3>1, <1>t, <1>k, OneEntry
    <3>2. CASE UNCHANGED cache
      BY <3>2
    <3> QED
      BY <1>2, <1>k, <3>1, <3>2 DEF DropStep, SendGetCommit, DropVideo, DropAudio
  <2>2. CarriedSound'
    BY <1>2, <1>t
       DEF DropStep, SendGetCommit, DropVideo, DropAudio, Return, Goto, At, args, history,
           CarriedSound, TypeOK
  <2>3. CloudPublished' /\ published' = published
    BY <1>2, <1>t DEF DropStep, SendGetCommit, DropVideo, DropAudio, CloudPublished, history
  <2> QED
    BY <2>1, <2>2, <2>3, <1>f
<1>3. ASSUME NEW r \in Slots, AutoSaveStep(r) PROVE OwnInv'
  <2>1. CacheOK
    <3>1. ASSUME NEW e \in {NoEdit} \cup EditsOf[Owner[r]], NEW k \in Kinds,
                 cache' = [cache EXCEPT ![Owner[r]][k] = e]
          PROVE  CacheOK
      BY <3>1, <1>t, <1>k, OneEntry
    <3>2. CASE CacheVideo(r)
      BY <3>2, <3>1, <1>t, <1>k DEF CacheVideo, At, CarriedSound
    <3>3. CASE CacheAudio(r)
      BY <3>3, <3>1, <1>t, <1>k DEF CacheAudio, At, CarriedSound
    <3> QED
      BY <1>3, <3>2, <3>3 DEF AutoSaveStep, SendAutoSave, AutoSaveFails
  <2>2. CarriedSound'
    BY <1>3, <1>t, <1>k
       DEF AutoSaveStep, SendAutoSave, CacheVideo, CacheAudio, AutoSaveFails, Return, Goto, At,
           args, history, CarriedSound, TypeOK
  <2>3. CloudPublished' /\ published' = published
    BY <1>3, <1>t
       DEF AutoSaveStep, SendAutoSave, CacheVideo, CacheAudio, AutoSaveFails, CloudPublished,
           history
  <2> QED
    BY <2>1, <2>2, <2>3, <1>f
<1>4. ASSUME NEW r \in Slots, ManifestStep(r) PROVE OwnInv'
  <2>p. CloudPublished' /\ published' = published
    BY <1>4, <1>t
       DEF ManifestStep, SendGetManifest, Find, Fetch, Fill, CloudPublished, history
  <2>1. CacheOK
    <3>1. CASE Fill(r)
      <4>1. /\ cache' = [cache EXCEPT ![Owner[r]][kind[r]] = edit[r]]
            /\ kind[r] \in Kinds /\ edit[r] \in published
        BY <3>1, <1>t DEF Fill, At, CarriedSound, TypeOK
      <4> QED
        BY <4>1, <1>t, <1>k, <2>p, OneEntry
    <3> QED
      BY <1>4, <3>1 DEF ManifestStep, SendGetManifest, Find, Fetch
  <2>2. CarriedSound'
    BY <1>4, <1>t, <2>p
       DEF ManifestStep, SendGetManifest, Find, Fetch, Fill, Return, Goto, At, args,
           CarriedSound, CloudPublished, TypeOK
  <2> QED
    BY <2>p, <2>1, <2>2, <1>f
<1>5. ASSUME NEW u \in Users, ListBranches(u) \/ \E k \in Kinds : Expire(u, k)
      PROVE OwnInv'
  <2>1. CacheOK
    BY <1>5, <1>t, OneEntry DEF ListBranches, Expire
  <2>2. UNCHANGED <<cloud, pc, args, history>>
    BY <1>5 DEF ListBranches, Expire
  <2> QED
    BY <2>1, <2>2, <1>t, <1>f DEF CarriedSound, CloudPublished, args, history
<1>6. CASE PodRolls
  BY <1>6, <1>t, <1>f DEF PodRolls, CarriedSound, CloudPublished
<1>7. CASE UNCHANGED vars
  BY <1>7, <1>t, <1>f DEF vars, CarriedSound, CloudPublished, args, history
<1> QED
  BY <1>1, <1>2, <1>3, <1>4, <1>5, <1>6, <1>7 DEF Next

(* An empty cache, no object and no handler.                               *)
LEMMA OwnInit == Init => OwnInv
BY TypeInit DEF Init, OwnInv, OwnEditsOnly, CarriedSound, CloudPublished

(* For any number of users and of requests in flight, no user is ever      *)
(* served, from the cache of local edits, what another has not published.  *)
THEOREM CacheHoldsOwnEdits == Spec => []OwnEditsOnly
<1>1. OwnInv => OwnEditsOnly
  BY DEF OwnInv
<1> QED
  BY <1>1, OwnInit, OwnStep, PTL DEF Spec

-----------------------------------------------------------------------------
(* While a single commit publishes, the cloud objects already written are  *)
(* its own; otherwise they are those of the tip.                           *)
HalfWritten(r) ==
  /\ Publishing = {r}
  /\ cloud["video"] = edit[r]
  /\ pc[r] = "commitTx" /\ edit[r] \in HasAudio => cloud["audio"] = edit[r]

CloudInv ==
  /\ TypeOK
  /\ ~torn => CloudMatchesTip /\ (Publishing = {} \/ \E r \in Slots : HalfWritten(r))

(* A step of a handler that publishes nothing.                             *)
LEMMA CloudFrame ==
  ASSUME CloudInv, TypeOK', UNCHANGED <<db, cloud>>, torn' = torn,
         Publishing' = Publishing,
         \A r \in Publishing : pc'[r] = pc[r] /\ edit'[r] = edit[r]
  PROVE  CloudInv'
<1>1. EditAt(tip)' = EditAt(tip)
  BY DEF EditAt, CommitIds, db
<1>2. CASE torn
  BY <1>2 DEF CloudInv
<1>3. CASE ~torn /\ Publishing = {}
  BY <1>1, <1>3 DEF CloudInv, CloudMatchesTip
<1>4. CASE ~torn /\ Publishing # {}
  <2>1. PICK r \in Slots : HalfWritten(r)
    BY <1>4 DEF CloudInv
  <2>2. HalfWritten(r)'
    BY <2>1 DEF HalfWritten
  <2>3. CloudMatchesTip'
    BY <1>4 DEF CloudMatchesTip
  <2> QED
    BY <2>2, <2>3 DEF CloudInv
<1> QED
  BY <1>2, <1>3, <1>4

(* The steps of CommitEdit that write to cloud storage and to the branch.  *)
LEMMA CloudCommitStep ==
  ASSUME CloudInv, TypeOK', NEW r \in Slots, CommitStep(r)
  PROVE  CloudInv'
<1>t. TypeOK
  BY DEF CloudInv
<1>f. /\ UNCHANGED <<db, cloud>> /\ torn' = torn
      /\ r \notin Publishing /\ pc'[r] \notin {"putAudio", "commitTx"}
      /\ \A s \in Slots \ {r} : pc'[s] = pc[s] /\ edit'[s] = edit[s]
      => CloudInv'
  <2> SUFFICES ASSUME UNCHANGED <<db, cloud>>, torn' = torn, r \notin Publishing,
                      pc'[r] \notin {"putAudio", "commitTx"},
                      \A s \in Slots \ {r} : pc'[s] = pc[s] /\ edit'[s] = edit[s]
               PROVE  CloudInv'
    OBVIOUS
  <2>1. Publishing' = Publishing
    BY DEF Publishing
  <2>2. \A s \in Publishing : s \in Slots \ {r}
    BY DEF Publishing
  <2> QED
    BY <2>1, <2>2, CloudFrame
<1>1. CASE SendCommit(r)
  BY <1>1, <1>t, <1>f DEF SendCommit, At, Goto, Publishing, history, TypeOK
<1>2. CASE ReadTip(r)
  BY <1>2, <1>t, <1>f DEF ReadTip, Return, At, Goto, Publishing, history, TypeOK
<1>3. CASE PutVideo(r)
  <2>1. CASE Publishing # {}
    BY <1>3, <2>1 DEF PutVideo, CloudInv
  <2>2. CASE Publishing = {}
    <3>1. Publishing' = {r}
      BY <1>3, <1>t, <2>2 DEF PutVideo, Goto, At, Publishing, TypeOK
    <3>2. /\ cloud'["video"] = edit'[r]
          /\ pc'[r] = "commitTx" => edit'[r] \notin HasAudio
      BY <1>3, <1>t DEF PutVideo, Goto, args, Kinds, TypeOK
    <3>3. HalfWritten(r)'
      BY <3>1, <3>2 DEF HalfWritten
    <3>4. CloudMatchesTip'
      BY <3>1 DEF CloudMatchesTip
    <3> QED
      BY <3>3, <3>4 DEF CloudInv
  <2> QED
    BY <2>1, <2>2
<1>4. CASE PutAudio(r)
  <2>1. Publishing' = Publishing /\ r \in Publishing
    BY <1>4, <1>t DEF PutAudio, Goto, At, Publishing, TypeOK
  <2>2. torn' = torn /\ edit' = edit /\ cloud'["audio"] = edit[r] /\ cloud'["video"] = cloud["video"]
    BY <1>4, <1>t DEF PutAudio, args, history, Kinds, TypeOK
  <2>3. CASE torn
    BY <2>2, <2>3 DEF CloudInv
  <2>4. CASE ~torn
    <3>1. HalfWritten(r)
      BY <2>1, <2>4 DEF CloudInv, HalfWritten
    <3>2. HalfWritten(r)'
      BY <2>1, <2>2, <3>1 DEF HalfWritten
    <3>3. CloudMatchesTip'
      BY <2>1 DEF CloudMatchesTip
    <3> QED
      BY <3>2, <3>3 DEF CloudInv
  <2> QED
    BY <2>3, <2>4
<1>5. CASE CommitTx(r)
  <2>1. r \in Publishing /\ Publishing' = Publishing \ {r} /\ pc[r] = "commitTx"
    BY <1>5, <1>t DEF CommitTx, Answer, Goto, At, Publishing, TypeOK
  <2>2. torn' = torn /\ cloud' = cloud
    BY <1>5 DEF CommitTx, history
  <2>3. CASE torn
    BY <2>2, <2>3 DEF CloudInv
  <2>4. CASE ~torn
    <3>1. HalfWritten(r)
      BY <2>1, <2>4 DEF CloudInv, HalfWritten
    <3>2. commits' = Append(commits, [parent |-> id[r], edit |-> edit[r]]) /\ tip' = Len(commits) + 1
      BY <1>5 DEF CommitTx, NextId
    <3>3. [parent |-> id[r], edit |-> edit[r]] \in [parent : Int, edit : MaybeEdit]
      BY <1>t DEF TypeOK
    <3>4. /\ commits \in Seq([parent : Int, edit : MaybeEdit])
          /\ Len(commits) \in Nat
      BY <1>t DEF TypeOK
    <3>5. tip' \in CommitIds' /\ commits'[tip'].edit = edit[r]
      BY <3>2, <3>3, <3>4 DEF CommitIds
    <3>6. EditAt(tip)' = edit[r]
      BY <3>5 DEF EditAt
    <3>7. CloudMatchesTip' /\ Publishing' = {}
      BY <2>1, <2>2, <3>1, <3>6 DEF CloudMatchesTip, HalfWritten
    <3> QED
      BY <3>7 DEF CloudInv
  <2> QED
    BY <2>3, <2>4
<1>6. CASE CommitTxLost(r)
  BY <1>6 DEF CommitTxLost, CloudInv
<1>7. CASE CommitFails(r)
  <2>1. CASE torn \/ r \in Publishing
    BY <1>7, <2>1 DEF CommitFails, CloudInv
  <2>2. CASE ~torn /\ r \notin Publishing
    BY <1>7, <1>t, <1>f, <2>2 DEF CommitFails, Return, Goto, TypeOK
  <2> QED
    BY <2>1, <2>2
<1>8. CASE PutFailsLate(r)
  BY <1>8 DEF PutFailsLate, CloudInv
<1> QED
  BY <1>1, <1>2, <1>3, <1>4, <1>5, <1>6, <1>7, <1>8 DEF CommitStep

(* Every step keeps it.                                                    *)
LEMMA CloudStep == CloudInv /\ [Next]_vars => CloudInv'
<1> SUFFICES ASSUME CloudInv, [Next]_vars PROVE CloudInv'
  OBVIOUS
<1>t. TypeOK /\ TypeOK'
  BY TypeStep DEF CloudInv
<1> DEFINE Aside == /\ UNCHANGED <<db, cloud>> /\ torn' = torn /\ Publishing' = Publishing
                    /\ \A r \in Publishing : pc'[r] = pc[r] /\ edit'[r] = edit[r]
<1>f. Aside => CloudInv'
  BY <1>t, CloudFrame
<1>1. ASSUME NEW r \in Slots, CommitStep(r) PROVE CloudInv'
  BY <1>1, <1>t, CloudCommitStep
<1>2. ASSUME NEW r \in Slots, DropStep(r) PROVE Aside
  BY <1>2, <1>t
     DEF DropStep, SendGetCommit, DropVideo, DropAudio, Return, Goto, At, Publishing, args,
         history, TypeOK
<1>3. ASSUME NEW r \in Slots, AutoSaveStep(r) PROVE Aside
  BY <1>3, <1>t
     DEF AutoSaveStep, SendAutoSave, CacheVideo, CacheAudio, AutoSaveFails, Return, Goto, At,
         Publishing, args, history, TypeOK
<1>4. ASSUME NEW r \in Slots, ManifestStep(r) PROVE Aside
  BY <1>4, <1>t
     DEF ManifestStep, SendGetManifest, Find, Fetch, Fill, Return, Goto, At, Publishing, args,
         history, TypeOK
<1>5. ASSUME NEW u \in Users, ListBranches(u) \/ \E k \in Kinds : Expire(u, k) PROVE Aside
  BY <1>5 DEF ListBranches, Expire, Publishing, args, history
<1>6. CASE PodRolls
  <2>1. CASE Publishing # {} \/ torn
    BY <1>6, <2>1, <1>t DEF PodRolls, CloudInv
  <2>2. CASE Publishing = {} /\ ~torn
    <3>1. torn \in BOOLEAN
      BY <1>t DEF TypeOK
    <3>2. torn' = torn
      BY <1>6, <2>2, <3>1 DEF PodRolls
    <3>3. Publishing' = {} /\ UNCHANGED <<db, cloud>>
      BY <1>6 DEF PodRolls, Publishing
    <3> QED
      BY <3>2, <3>3, <2>2, <1>f
  <2> QED
    BY <2>1, <2>2
<1>7. CASE UNCHANGED vars
  BY <1>7, <1>f DEF vars, args, history, Publishing
<1> QED
  BY <1>1, <1>2, <1>3, <1>4, <1>5, <1>6, <1>7, <1>f DEF Next

(* Nothing is published and there is no tip.                               *)
LEMMA CloudInit == Init => CloudInv
<1> SUFFICES ASSUME Init PROVE CloudInv
  OBVIOUS
<1>1. Publishing = {} /\ EditAt(tip) = NoEdit /\ NoEdit \notin HasAudio
  BY EditsAssumption DEF Init, Publishing, EditAt, CommitIds, NoCommit
<1>2. cloud["video"] = NoEdit
  BY DEF Init, Kinds
<1> QED
  BY <1>1, <1>2, TypeInit DEF CloudInv, CloudMatchesTip

(* For any number of requests: the playback manifests of the branch are    *)
(* those of its tip whenever no commit is half done and none overlapped    *)
(* the last one or was cut off after its upload.                           *)
THEOREM CloudFollowsTip == Spec => []CloudMatchesTip
<1>1. CloudInv => CloudMatchesTip
  BY DEF CloudInv, CloudMatchesTip
<1> QED
  BY <1>1, CloudInit, CloudStep, PTL DEF Spec

-----------------------------------------------------------------------------
(* Part II.  The editor *)


-----------------------------------------------------------------------------
(* Numbers and lists *)

(* A set of numbers has a least one.                                       *)
LEMMA LeastOf ==
  ASSUME NEW S \in SUBSET Nat, S # {}
  PROVE  \E m \in S : \A k \in S : m <= k
<1>1. PICK m \in S : \A k \in S : <<k, m>> \notin OpToRel(<, Nat)
  BY NatLessThanWellFounded, WFMin
<1>2. \A k \in S : ~(k < m)
  BY <1>1 DEF OpToRel
<1> QED
  BY <1>2

(* What splice leaves: all before the i-th, the new ones, the rest.        *)
SplicedTo(s, i, n, new, r) ==
  /\ Len(r) = Len(s) - n + Len(new)
  /\ \A k \in 1..(i - 1) : r[k] = s[k]
  /\ \A k \in 1..Len(new) : r[i - 1 + k] = new[k]
  /\ \A k \in (i + n)..Len(s) : r[k - n + Len(new)] = s[k]

LEMMA Spliced ==
  ASSUME NEW S, NEW s \in Seq(S), NEW new \in Seq(S), NEW i \in Nat, NEW n \in Nat,
         1 <= i, i + n <= Len(s) + 1
  PROVE  Splice(s, i, n, new) \in Seq(S) /\ SplicedTo(s, i, n, new, Splice(s, i, n, new))
<1> DEFINE A == SubSeq(s, 1, i - 1)
           C == SubSeq(s, i + n, Len(s))
           AB == A \o new
<1>1. Len(s) \in Nat /\ Len(new) \in Nat
  OBVIOUS
<1>2. A \in Seq(S) /\ Len(A) = i - 1 /\ \A k \in 1..(i - 1) : A[k] = s[k]
  BY <1>1, SubSeqProperties
<1>3. C \in Seq(S) /\ Len(C) = Len(s) - i - n + 1
      /\ \A k \in 1..(Len(s) - i - n + 1) : C[k] = s[i + n + k - 1]
  BY <1>1, SubSeqProperties
<1> HIDE DEF A, C
<1>a. A \o new \in Seq(S) /\ Len(A \o new) = Len(A) + Len(new)
      /\ (\A k \in 1..Len(A) : (A \o new)[k] = A[k])
      /\ \A k \in 1..Len(new) : (A \o new)[Len(A) + k] = new[k]
  <2>1. A \in Seq(S)
    BY <1>2
  <2> QED
    BY <2>1
<1>4. /\ AB \in Seq(S) /\ Len(AB) = i - 1 + Len(new)
      /\ \A k \in 1..(i - 1) : AB[k] = A[k]
      /\ \A k \in 1..Len(new) : AB[i - 1 + k] = new[k]
  BY <1>2, <1>a
<1> HIDE DEF AB
<1>b. AB \o C \in Seq(S) /\ Len(AB \o C) = Len(AB) + Len(C)
      /\ (\A k \in 1..Len(AB) : (AB \o C)[k] = AB[k])
      /\ \A k \in 1..Len(C) : (AB \o C)[Len(AB) + k] = C[k]
  <2>1. AB \in Seq(S) /\ C \in Seq(S)
    BY <1>3, <1>4
  <2> QED
    BY <2>1
<1>5. /\ AB \o C \in Seq(S) /\ Len(AB \o C) = Len(s) - n + Len(new)
      /\ \A k \in 1..Len(AB) : (AB \o C)[k] = AB[k]
      /\ \A k \in 1..Len(C) : (AB \o C)[Len(AB) + k] = C[k]
  BY <1>1, <1>3, <1>4, <1>b
<1>6. Splice(s, i, n, new) = AB \o C
  BY DEF Splice, AB, A, C
<1>7. ASSUME NEW k \in (i + n)..Len(s)
      PROVE  (AB \o C)[k - n + Len(new)] = s[k]
  <2> DEFINE m == k - i - n + 1
  <2>1. m \in 1..Len(C)
    <3>1. Len(C) = Len(s) - i - n + 1
      BY <1>3
    <3> QED
      BY <1>1, <3>1
  <2>2. Len(AB) + m = k - n + Len(new) /\ i + n + m - 1 = k
    <3>1. Len(AB) = i - 1 + Len(new)
      BY <1>4
    <3> QED
      BY <1>1, <3>1
  <2> HIDE DEF m
  <2>3. (AB \o C)[Len(AB) + m] = C[m] /\ C[m] = s[i + n + m - 1]
    BY <1>3, <1>5, <2>1
  <2> QED
    BY <2>2, <2>3
<1>8. ASSUME NEW k \in 1..(i - 1) PROVE (AB \o C)[k] = s[k]
  <2>1. k \in 1..Len(AB)
    <3>1. Len(AB) = i - 1 + Len(new)
      BY <1>4
    <3> QED
      BY <1>1, <3>1
  <2>2. (AB \o C)[k] = AB[k]
    BY <1>5, <2>1
  <2> QED
    BY <1>2, <1>4, <2>2
<1>9. ASSUME NEW k \in 1..Len(new) PROVE (AB \o C)[i - 1 + k] = new[k]
  <2>1. i - 1 + k \in 1..Len(AB)
    <3>1. Len(AB) = i - 1 + Len(new)
      BY <1>4
    <3> QED
      BY <1>1, <3>1
  <2>2. (AB \o C)[i - 1 + k] = AB[i - 1 + k]
    BY <1>5, <2>1
  <2> QED
    BY <1>4, <2>2
<1> QED
  BY <1>5, <1>6, <1>7, <1>8, <1>9 DEF SplicedTo

-----------------------------------------------------------------------------
(* The length of a video *)

(* The times at which the sections of a list end, one after another.       *)
Sums(secs, f) ==
  f = [i \in 0..Len(secs) |-> IF i = 0 THEN 0 ELSE f[i - 1] + Duration(secs[i])]

Runs(secs) ==
  /\ Len(secs) \in Nat
  /\ \A i \in 1..Len(secs) : Duration(secs[i]) \in Int

(* A function that is told step by step: each value from the one before.   *)
Stepped(n, first, step, f) ==
  f[0] = first /\ \A i \in 1..n : f[i] = step[<<i, f[i - 1]>>]

(* There is one.                                                           *)
LEMMA StepsExist ==
  ASSUME NEW N \in Nat, NEW S, NEW first \in S, NEW step \in [(1..N) \X S -> S]
  PROVE  \E f \in [0..N -> S] : Stepped(N, first, step, f)
<1> DEFINE Upto(n, f) == f[0] = first /\ \A i \in 1..n : f[i] = step[<<i, f[i - 1]>>]
           X == {n \in 0..N : ~\E f \in [0..n -> S] : Upto(n, f)}
<1>1. X = {}
  <2> SUFFICES ASSUME X # {} PROVE FALSE
    OBVIOUS
  <2>0. X \in SUBSET Nat
    OBVIOUS
  <2>1. PICK n \in X : \A m \in X : n <= m
    <3> HIDE DEF X
    <3> QED
      BY <2>0, LeastOf
  <2>2. n # 0
    <3> DEFINE f == [i \in 0..0 |-> first]
    <3>1. f \in [0..0 -> S] /\ Upto(0, f)
      OBVIOUS
    <3> QED
      BY <2>1, <3>1
  <2>3. n \in Nat /\ n - 1 \in 0..N /\ n \in 1..N
    BY <2>1, <2>2
  <2>4. PICK f \in [0..(n - 1) -> S] : Upto(n - 1, f)
    <3>1. n - 1 \notin X
      <4> HIDE DEF X
      <4> QED
        BY <2>1, <2>3
    <3> QED
      BY <2>3, <3>1
  <2> DEFINE last == step[<<n, f[n - 1]>>]
             g == [i \in 0..n |-> IF i = n THEN last ELSE f[i]]
  <2>5. last \in S
    BY <2>3, <2>4
  <2> HIDE DEF last
  <2>6. g \in [0..n -> S]
    BY <2>3, <2>4, <2>5
  <2>7. g[0] = first
    BY <2>2, <2>3, <2>4
  <2>8. ASSUME NEW i \in 1..n PROVE g[i] = step[<<i, g[i - 1]>>]
    <3>1. i - 1 \in 0..n /\ i - 1 # n /\ g[i - 1] = f[i - 1]
      BY <2>3
    <3>2. CASE i = n
      BY <2>3, <3>1, <3>2 DEF last
    <3>3. CASE i # n
      <4>1. i \in 1..(n - 1) /\ g[i] = f[i]
        BY <2>3, <3>3
      <4>2. f[i] = step[<<i, f[i - 1]>>]
        BY <2>4, <4>1
      <4> HIDE DEF g
      <4> QED
        BY <3>1, <4>1, <4>2
    <3> QED
      BY <3>2, <3>3
  <2>9. Upto(n, g)
    BY <2>7, <2>8
  <2> QED
    BY <2>1, <2>6, <2>9
<1>2. \E f \in [0..N -> S] : Upto(N, f)
  <2>1. N \in 0..N
    OBVIOUS
  <2> HIDE DEF Upto
  <2> QED
    BY <1>1, <2>1
<1> QED
  BY <1>2 DEF Stepped

(* There are such times,                                                   *)
LEMMA SumsExist ==
  ASSUME NEW secs, Runs(secs)
  PROVE  \E f \in [0..Len(secs) -> Int] : Sums(secs, f)
<1> DEFINE N == Len(secs)
           step == [q \in (1..N) \X Int |-> q[2] + Duration(secs[q[1]])]
<1>1. N \in Nat /\ \A i \in 1..N : Duration(secs[i]) \in Int
  BY DEF Runs
<1> HIDE DEF N
<1>2. step \in [(1..N) \X Int -> Int]
  BY <1>1
<1>3. \A i \in 1..N, s \in Int : step[<<i, s>>] = s + Duration(secs[i])
  OBVIOUS
<1> HIDE DEF step
<1>4. PICK f \in [0..N -> Int] : Stepped(N, 0, step, f)
  <2>1. 0 \in Int
    OBVIOUS
  <2> QED
    BY <1>1, <1>2, <2>1, StepsExist
<1>5. ASSUME NEW i \in 0..N
      PROVE  f[i] = IF i = 0 THEN 0 ELSE f[i - 1] + Duration(secs[i])
  <2>1. CASE i = 0
    BY <1>4, <2>1 DEF Stepped
  <2>2. CASE i # 0
    <3>1. i \in 1..N /\ i - 1 \in 0..N
      BY <1>1, <2>2
    <3>2. f[i - 1] \in Int /\ f[i] = step[<<i, f[i - 1]>>]
      BY <1>4, <3>1 DEF Stepped
    <3> QED
      BY <1>3, <2>2, <3>1, <3>2
  <2> QED
    BY <2>1, <2>2
<1>6. f = [i \in 0..N |-> IF i = 0 THEN 0 ELSE f[i - 1] + Duration(secs[i])]
  <2>1. f = [i \in 0..N |-> f[i]]
    OBVIOUS
  <2> QED
    BY <1>5, <2>1
<1> QED
  BY <1>6 DEF Sums, N

(* and two lists have the same as far as their durations agree.            *)
LEMMA SumsAgree ==
  ASSUME NEW s, NEW t, NEW f, NEW g, Sums(s, f), Sums(t, g), NEW n \in Nat,
         Len(s) \in Nat, Len(t) \in Nat, n <= Len(s), n <= Len(t),
         \A i \in 1..n : Duration(s[i]) = Duration(t[i])
  PROVE  f[n] = g[n]
<1> DEFINE X == {i \in 0..n : f[i] # g[i]}
<1> SUFFICES ASSUME X # {} PROVE FALSE
  OBVIOUS
<1>0. X \in SUBSET Nat
  OBVIOUS
<1>1. PICK m \in X : \A i \in X : m <= i
  <2> HIDE DEF X
  <2> QED
    BY <1>0, LeastOf
<1>2. m # 0
  BY <1>1 DEF Sums
<1>3. m - 1 \in 0..n /\ m \in 1..n /\ f[m - 1] = g[m - 1]
  BY <1>1, <1>2
<1>4. f[m] = f[m - 1] + Duration(s[m]) /\ g[m] = g[m - 1] + Duration(t[m])
  BY <1>2, <1>3 DEF Sums
<1> QED
  BY <1>1, <1>3, <1>4

(* videoDurationMillis is the last of them.                                *)
LEMMA TimeIsLastSum ==
  ASSUME NEW secs, NEW f, Sums(secs, f), Runs(secs)
  PROVE  VideoTime(secs) = f[Len(secs)]
<1> DEFINE g == CHOOSE g : Sums(secs, g)
<1>1. VideoTime(secs) = g[Len(secs)]
  BY DEF VideoTime, Sums
<1>2. Sums(secs, g)
  OBVIOUS
<1> HIDE DEF g
<1>3. \A i \in 1..Len(secs) : Duration(secs[i]) = Duration(secs[i])
  OBVIOUS
<1> QED
  BY <1>1, <1>2, <1>3, SumsAgree DEF Runs

(* All that is used of the length of videos.                               *)
Timed(secs, f) ==
  /\ f \in [0..Len(secs) -> Int] /\ f[0] = 0 /\ VideoTime(secs) = f[Len(secs)]
  /\ \A i \in 1..Len(secs) : f[i] = f[i - 1] + Duration(secs[i])
  /\ \A i \in 0..Len(secs) : VideoTime(SubSeq(secs, 1, i)) = f[i]

LEMMA TimesExist ==
  ASSUME NEW S, NEW secs \in Seq(S), Runs(secs)
  PROVE  \E f : Timed(secs, f)
<1>1. PICK f \in [0..Len(secs) -> Int] : Sums(secs, f)
  BY SumsExist
<1>2. f[0] = 0 /\ \A i \in 1..Len(secs) : f[i] = f[i - 1] + Duration(secs[i])
  BY <1>1 DEF Sums, Runs
<1>3. ASSUME NEW i \in 0..Len(secs)
      PROVE  VideoTime(SubSeq(secs, 1, i)) = f[i]
  <2> DEFINE p == SubSeq(secs, 1, i)
  <2>1. p \in Seq(S) /\ Len(p) = i /\ \A k \in 1..i : p[k] = secs[k]
    BY SubSeqProperties
  <2> HIDE DEF p
  <2>2. Runs(p)
    BY <2>1 DEF Runs
  <2>3. PICK g \in [0..Len(p) -> Int] : Sums(p, g)
    BY <2>2, SumsExist
  <2>4. VideoTime(p) = g[i]
    BY <2>1, <2>2, <2>3, TimeIsLastSum
  <2>5. g[i] = f[i]
    <3>1. i \in Nat /\ i <= Len(secs) /\ Len(secs) \in Nat /\ Len(p) \in Nat /\ i <= Len(p)
      BY <2>1 DEF Runs
    <3>2. \A k \in 1..i : Duration(p[k]) = Duration(secs[k])
      BY <2>1
    <3> QED
      BY <1>1, <2>3, <3>1, <3>2, SumsAgree
  <2> QED
    BY <2>4, <2>5 DEF p
<1>4. VideoTime(secs) = f[Len(secs)]
  BY <1>1, TimeIsLastSum
<1> QED
  BY <1>1, <1>2, <1>3, <1>4 DEF Timed

(* Lists whose durations agree have the same times.                        *)
LEMMA TimesAgree ==
  ASSUME NEW S, NEW s \in Seq(S), Runs(s), NEW T, NEW t \in Seq(T), Len(s) = Len(t),
         \A i \in 1..Len(s) : Duration(s[i]) = Duration(t[i]), NEW f, Timed(s, f)
  PROVE  Timed(t, f)
<1>1. Runs(t)
  BY DEF Runs
<1>2. PICK g : Timed(t, g)
  BY <1>1, TimesExist
<1> DEFINE X == {i \in 0..Len(s) : f[i] # g[i]}
<1>3. X = {}
  <2> SUFFICES ASSUME X # {} PROVE FALSE
    OBVIOUS
  <2>0. X \in SUBSET Nat
    BY DEF Runs
  <2>1. PICK m \in X : \A i \in X : m <= i
    <3> HIDE DEF X
    <3> QED
      BY <2>0, LeastOf
  <2>2. m # 0
    BY <1>2, <2>1 DEF Timed
  <2>3. m - 1 \in 0..Len(s) /\ m \in 1..Len(s) /\ f[m - 1] = g[m - 1]
    BY <2>1, <2>2
  <2> QED
    BY <1>2, <2>1, <2>3 DEF Timed
<1>4. f = g
  <2>1. f \in [0..Len(s) -> Int] /\ g \in [0..Len(s) -> Int]
    BY <1>2 DEF Timed
  <2> QED
    BY <1>3, <2>1
<1> QED
  BY <1>2, <1>4

-----------------------------------------------------------------------------
(* rippleRecompute *)

(* A function on 1..n is a list.                                           *)
LEMMA ListOf ==
  ASSUME NEW n \in Nat, NEW S, NEW f \in [1..n -> S]
  PROVE  f \in Seq(S) /\ Len(f) = n /\ DOMAIN f = 1..n
<1>1. f \in Seq(S)
  BY SeqDef
<1>2. Len(f) \in Nat /\ DOMAIN f = 1..Len(f) /\ DOMAIN f = 1..n
  BY <1>1, LenProperties
<1>3. Len(f) = n
  BY <1>2
<1> QED
  BY <1>1, <1>2, <1>3

(* Video sections that show overlays among the first n.                    *)
SectionsOn(n) ==
  [start : Int, end : Int, vstart : Int, src : Videos, over : Seq(1..n), effects : {0, 1}]

(* Each plays a window that its source has.                                *)
Plays(x) == 0 <= Duration(x) /\ x.vstart + Duration(x) <= SourceTime[x.src]
Playable(secs, n) ==
  secs \in Seq(SectionsOn(n)) /\ \A i \in 1..Len(secs) : Plays(secs[i])

(* One plays after another.                                                *)
Chained(secs) ==
  \A i \in 1..Len(secs) : secs[i].start = IF i = 1 THEN 0 ELSE secs[i - 1].end

(* What a section shows, and how long.                                     *)
SameShow(x, y) ==
  /\ Duration(x) = Duration(y) /\ x.vstart = y.vstart /\ x.src = y.src
  /\ x.over = y.over /\ x.effects = y.effects

LEMMA PlayableRuns ==
  ASSUME NEW n, NEW secs, Playable(secs, n)
  PROVE  Runs(secs) /\ secs \in Seq(SectionsOn(n)) /\ Len(secs) \in Nat /\ DOMAIN secs = 1..Len(secs)
<1>1. Len(secs) \in Nat /\ DOMAIN secs = 1..Len(secs)
  BY LenProperties DEF Playable
<1>2. ASSUME NEW i \in 1..Len(secs) PROVE Duration(secs[i]) \in Int
  <2>1. secs[i] \in SectionsOn(n)
    BY ElementOfSeq DEF Playable
  <2> QED
    BY <2>1 DEF SectionsOn, Duration
<1> QED
  BY <1>1, <1>2 DEF Runs, Playable

(* What rippleRecompute makes of a list: it moves the sections only.       *)
LEMMA RippleChains ==
  ASSUME NEW n, NEW secs, Playable(secs, n)
  PROVE  /\ Playable(Ripple(secs), n) /\ Chained(Ripple(secs))
         /\ Len(Ripple(secs)) = Len(secs)
         /\ VideoTime(Ripple(secs)) = VideoTime(secs) /\ VideoTime(secs) \in Nat
         /\ \A i \in 1..Len(secs) : SameShow(Ripple(secs)[i], secs[i])
<1>1. Runs(secs) /\ secs \in Seq(SectionsOn(n)) /\ Len(secs) \in Nat /\ DOMAIN secs = 1..Len(secs)
  BY PlayableRuns
<1>2. PICK f : Timed(secs, f)
  BY <1>1, TimesExist
<1> DEFINE r == [i \in 1..Len(secs) |->
                   [secs[i] EXCEPT !.start = f[i - 1], !.end = f[i - 1] + Duration(secs[i])]]
<1>3. ASSUME NEW i \in 1..Len(secs)
      PROVE  VideoTime(SubSeq(secs, 1, i - 1)) = f[i - 1] /\ f[i - 1] \in Int
             /\ f[i] = f[i - 1] + Duration(secs[i])
  <2>1. i - 1 \in 0..Len(secs)
    BY <1>1
  <2> QED
    BY <1>2, <2>1 DEF Timed
<1>4. Ripple(secs) = r
  BY <1>1, <1>3 DEF Ripple
<1>5. ASSUME NEW i \in 1..Len(secs)
      PROVE  /\ r[i] \in SectionsOn(n) /\ r[i].start = f[i - 1] /\ r[i].end = f[i]
             /\ SameShow(r[i], secs[i]) /\ Plays(r[i])
  <2>1. secs[i] \in SectionsOn(n) /\ Plays(secs[i])
    BY <1>1, ElementOfSeq DEF Playable
  <2>2. r[i] = [secs[i] EXCEPT !.start = f[i - 1], !.end = f[i - 1] + Duration(secs[i])]
    OBVIOUS
  <2>3. Duration(secs[i]) \in Int
    BY <1>1 DEF Runs
  <2>4. r[i] \in SectionsOn(n) /\ r[i].start = f[i - 1] /\ r[i].end = f[i - 1] + Duration(secs[i])
        /\ r[i].vstart = secs[i].vstart /\ r[i].src = secs[i].src /\ r[i].over = secs[i].over
        /\ r[i].effects = secs[i].effects
    <3>1. f[i - 1] + Duration(secs[i]) \in Int
      BY <1>3, <2>3
    <3>2. secs[i] \in SectionsOn(n)
      BY <2>1
    <3> DEFINE a == f[i - 1]
               b == f[i - 1] + Duration(secs[i])
               x == secs[i]
    <3>3. a \in Int /\ b \in Int /\ x \in SectionsOn(n)
      BY <1>3, <3>1, <3>2
    <3>4. r[i] = [x EXCEPT !.start = a, !.end = b]
      BY <2>2
    <3> HIDE DEF a, b, x, r
    <3>5. r[i] \in SectionsOn(n) /\ r[i].start = a /\ r[i].end = b
          /\ r[i].vstart = x.vstart /\ r[i].src = x.src /\ r[i].over = x.over
          /\ r[i].effects = x.effects
      BY <3>3, <3>4 DEF SectionsOn
    <3> QED
      BY <3>5 DEF a, b, x
  <2> HIDE DEF r
  <2>5. Duration(r[i]) = Duration(secs[i])
    <3>1. r[i].end - r[i].start = Duration(secs[i])
      BY <1>3, <2>3, <2>4
    <3> QED
      BY <3>1 DEF Duration
  <2> QED
    BY <1>3, <2>1, <2>4, <2>5 DEF SameShow, Plays
<1>6. r \in Seq(SectionsOn(n)) /\ Len(r) = Len(secs)
  <2>1. r \in [1..Len(secs) -> SectionsOn(n)]
    BY <1>5
  <2> HIDE DEF r
  <2> QED
    BY <1>1, <2>1, ListOf
<1>7. Playable(r, n)
  BY <1>5, <1>6 DEF Playable
<1>8. Chained(r)
  <2>1. ASSUME NEW i \in 1..Len(secs) PROVE r[i].start = IF i = 1 THEN 0 ELSE r[i - 1].end
    <3>1. i # 1 => i - 1 \in 1..Len(secs)
      BY <1>1
    <3>2. r[i].start = f[i - 1] /\ f[0] = 0
      BY <1>2, <1>5 DEF Timed
    <3>3. i # 1 => r[i - 1].end = f[i - 1]
      BY <1>5, <3>1
    <3> HIDE DEF r
    <3> QED
      BY <3>2, <3>3
  <2> QED
    BY <1>6, <2>1 DEF Chained
<1> HIDE DEF r
<1>9. \A i \in 1..Len(secs) : Duration(secs[i]) = Duration(r[i])
  BY <1>5 DEF SameShow
<1>10. Timed(r, f)
  BY <1>1, <1>2, <1>6, <1>9, TimesAgree
<1>11. VideoTime(r) = VideoTime(secs)
  BY <1>2, <1>6, <1>10 DEF Timed
<1>12. VideoTime(secs) \in Nat
  <2> DEFINE X == {i \in 0..Len(secs) : ~(0 <= f[i])}
  <2>0. X \in SUBSET Nat
    BY <1>1
  <2>1. X = {}
    <3> SUFFICES ASSUME X # {} PROVE FALSE
      OBVIOUS
    <3>1. PICK m \in X : \A i \in X : m <= i
      <4> HIDE DEF X
      <4> QED
        BY <2>0, LeastOf
    <3>2. m # 0
      BY <1>2, <3>1 DEF Timed
    <3>3. m \in 1..Len(secs) /\ m - 1 \in 0..Len(secs) /\ ~(m <= m - 1)
      BY <1>1, <3>1, <3>2
    <3>4. m - 1 \notin X
      <4> HIDE DEF X
      <4> QED
        BY <3>1, <3>3
    <3>5. 0 <= f[m - 1] /\ f[m - 1] \in Int
      BY <1>3, <3>3, <3>4
    <3>6. 0 <= Duration(secs[m]) /\ Duration(secs[m]) \in Int
      BY <1>1, <3>3 DEF Playable, Plays, Runs
    <3> QED
      BY <1>3, <3>1, <3>3, <3>5, <3>6
  <2>2. Len(secs) \in 0..Len(secs) /\ f[Len(secs)] \in Int
    BY <1>1, <1>2 DEF Timed
  <2> QED
    BY <1>2, <2>1, <2>2 DEF Timed
<1> QED
  BY <1>4, <1>5, <1>6, <1>7, <1>8, <1>11, <1>12

(* A list that is chained is where it belongs: it is its own ripple.       *)
LEMMA ChainedStays ==
  ASSUME NEW n, NEW secs, Playable(secs, n), Chained(secs), NEW f, Timed(secs, f)
  PROVE  /\ \A i \in 1..Len(secs) : secs[i].start = f[i - 1] /\ secs[i].end = f[i]
         /\ Ripple(secs) = secs
<1>1. Runs(secs) /\ secs \in Seq(SectionsOn(n)) /\ Len(secs) \in Nat /\ DOMAIN secs = 1..Len(secs)
  BY PlayableRuns
<1>2. ASSUME NEW i \in 1..Len(secs)
      PROVE  /\ secs[i] \in SectionsOn(n) /\ i - 1 \in 0..Len(secs) /\ f[i - 1] \in Int
             /\ f[i] = f[i - 1] + Duration(secs[i]) /\ Duration(secs[i]) = secs[i].end - secs[i].start
             /\ VideoTime(SubSeq(secs, 1, i - 1)) = f[i - 1]
  <2>1. secs[i] \in SectionsOn(n) /\ i - 1 \in 0..Len(secs)
    BY <1>1, ElementOfSeq
  <2> QED
    BY <2>1 DEF Timed, Duration
<1> DEFINE X == {i \in 1..Len(secs) : secs[i].start # f[i - 1]}
<1>3. X \in SUBSET Nat
  BY <1>1
<1>4. X = {}
  <2> SUFFICES ASSUME X # {} PROVE FALSE
    OBVIOUS
  <2>1. PICK m \in X : \A i \in X : m <= i
    <3> HIDE DEF X
    <3> QED
      BY <1>3, LeastOf
  <2>2. m # 1
    BY <2>1 DEF Timed, Chained
  <2>3. m - 1 \in 1..Len(secs) /\ m \in 1..Len(secs) /\ ~(m <= m - 1)
    BY <1>1, <2>1, <2>2
  <2>4. m - 1 \notin X
    <3> HIDE DEF X
    <3> QED
      BY <2>1, <2>3
  <2>5. secs[m - 1].start = f[m - 1 - 1]
    BY <2>3, <2>4
  <2>6. secs[m].start = secs[m - 1].end
    BY <2>2, <2>3 DEF Chained
  <2>7. secs[m - 1].start \in Int /\ secs[m - 1].end \in Int
    BY <1>2, <2>3 DEF SectionsOn
  <2>8. f[m - 1] = secs[m - 1].end
    BY <1>2, <2>3, <2>5, <2>7
  <2> QED
    BY <2>1, <2>6, <2>8
<1>5. ASSUME NEW i \in 1..Len(secs) PROVE secs[i].start = f[i - 1] /\ secs[i].end = f[i]
  <2>1. secs[i].start = f[i - 1]
    BY <1>4
  <2>2. secs[i].start \in Int /\ secs[i].end \in Int
    BY <1>2 DEF SectionsOn
  <2> QED
    BY <1>2, <2>1, <2>2
<1>6. ASSUME NEW i \in 1..Len(secs) PROVE Ripple(secs)[i] = secs[i]
  <2>1. Ripple(secs)[i] = [secs[i] EXCEPT !.start = f[i - 1],
                                         !.end = f[i - 1] + Duration(secs[i])]
    BY <1>1, <1>2 DEF Ripple
  <2>2. f[i - 1] + Duration(secs[i]) = secs[i].end
    BY <1>2, <1>5
  <2> QED
    BY <1>2, <1>5, <2>1, <2>2 DEF SectionsOn
<1>7. Ripple(secs) = secs
  <2>1. Ripple(secs) = [i \in 1..Len(secs) |-> Ripple(secs)[i]]
    BY <1>1 DEF Ripple
  <2>2. secs = [i \in 1..Len(secs) |-> secs[i]]
    BY <1>1
  <2> QED
    BY <1>6, <2>1, <2>2
<1> QED
  BY <1>5, <1>7

-----------------------------------------------------------------------------
(* The order of the audio sections *)

(* Sections that start later have a higher rank.                           *)
LEMMA RankGrows ==
  ASSUME NEW auds, NEW S \in SUBSET Int, IsFiniteSet(S), \A i \in S : auds[i].start \in Int
  PROVE  /\ Cardinality(S) \in Nat
         /\ \A i \in S : Rank(auds, S, i) \in Nat
         /\ \A i \in S : Rank(auds, S, i) \in 0..(Cardinality(S) - 1)
         /\ \A i, j \in S : Before(auds, i, j) => Rank(auds, S, i) < Rank(auds, S, j)
         /\ \A i, j \in S : i = j \/ Before(auds, i, j) \/ Before(auds, j, i)
<1> DEFINE Below(i) == {j \in S : Before(auds, j, i)}
<1>1. Cardinality(S) \in Nat
  BY FS_CardinalityType
<1>2. ASSUME NEW i \in S
      PROVE  /\ Rank(auds, S, i) = Cardinality(Below(i)) /\ i \notin Below(i)
             /\ IsFiniteSet(Below(i)) /\ Rank(auds, S, i) \in Nat
             /\ IsFiniteSet(Below(i) \cup {i})
             /\ Cardinality(Below(i) \cup {i}) = Rank(auds, S, i) + 1
             /\ Below(i) \cup {i} \subseteq S
  <2>1. Below(i) \subseteq S /\ Rank(auds, S, i) = Cardinality(Below(i))
    BY DEF Rank
  <2>2. i \notin Below(i)
    <3>1. auds[i].start \in Int /\ i \in Int
      OBVIOUS
    <3>2. ~Before(auds, i, i)
      BY <3>1 DEF Before
    <3> QED
      BY <3>2
  <2>3. IsFiniteSet(Below(i))
    BY <2>1, FS_Subset
  <2>4. Cardinality(Below(i)) \in Nat
    BY <2>3, FS_CardinalityType
  <2> HIDE DEF Below
  <2>5. IsFiniteSet(Below(i) \cup {i}) /\ Cardinality(Below(i) \cup {i}) = Cardinality(Below(i)) + 1
    BY <2>2, <2>3, FS_AddElement
  <2> QED
    BY <2>1, <2>2, <2>3, <2>4, <2>5
<1>3. ASSUME NEW i \in S PROVE Rank(auds, S, i) \in 0..(Cardinality(S) - 1)
  <2>1. Cardinality(Below(i) \cup {i}) <= Cardinality(S)
    <3>1. Below(i) \cup {i} \in SUBSET S
      BY <1>2
    <3> HIDE DEF Below
    <3> QED
      BY <3>1, FS_Subset
  <2>2. Cardinality(Below(i) \cup {i}) = Rank(auds, S, i) + 1 /\ Rank(auds, S, i) \in Nat
    BY <1>2
  <2> HIDE DEF Below
  <2>3. Rank(auds, S, i) + 1 <= Cardinality(S)
    BY <2>1, <2>2
  <2> QED
    BY <1>1, <2>2, <2>3
<1>4. ASSUME NEW i \in S, NEW j \in S, Before(auds, i, j)
      PROVE  Rank(auds, S, i) < Rank(auds, S, j)
  <2>1. Below(i) \cup {i} \subseteq Below(j)
    <3>1. ASSUME NEW k \in Below(i) PROVE k \in Below(j)
      <4>1. k \in S /\ Before(auds, k, i) /\ auds[k].start \in Int /\ auds[i].start \in Int
            /\ auds[j].start \in Int
        OBVIOUS
      <4>2. Before(auds, k, j)
        BY <1>4, <4>1 DEF Before
      <4> QED
        BY <4>1, <4>2
    <3> QED
      BY <1>4, <3>1
  <2>2. Cardinality(Below(i) \cup {i}) <= Cardinality(Below(j))
    <3>1. Below(i) \cup {i} \in SUBSET Below(j) /\ IsFiniteSet(Below(j))
      BY <1>2, <2>1
    <3> HIDE DEF Below
    <3> QED
      BY <3>1, FS_Subset
  <2>3. Cardinality(Below(i) \cup {i}) = Rank(auds, S, i) + 1 /\ Rank(auds, S, i) \in Nat
    BY <1>2
  <2>4. Cardinality(Below(j)) = Rank(auds, S, j) /\ Rank(auds, S, j) \in Nat
    BY <1>2
  <2>5. Rank(auds, S, i) + 1 <= Rank(auds, S, j)
    BY <2>2, <2>3, <2>4
  <2> QED
    BY <2>3, <2>4, <2>5
<1>5. ASSUME NEW i \in S, NEW j \in S PROVE i = j \/ Before(auds, i, j) \/ Before(auds, j, i)
  <2>1. auds[i].start \in Int /\ auds[j].start \in Int /\ i \in Int /\ j \in Int
    OBVIOUS
  <2> QED
    BY <2>1 DEF Before
<1> QED
  BY <1>1, <1>2, <1>3, <1>4, <1>5

(* InOrder lists each of S once, each after those that start before it.    *)
LEMMA OrderedList ==
  ASSUME NEW auds, NEW S \in SUBSET Int, IsFiniteSet(S), \A i \in S : auds[i].start \in Int
  PROVE  LET p == InOrder(auds, S)
             n == Cardinality(S)
         IN /\ n \in Nat /\ p \in [1..n -> S]
            /\ \A k, m \in 1..n : k < m => Before(auds, p[k], p[m]) /\ p[k] # p[m]
            /\ \A k \in 1..n : Rank(auds, S, p[k]) = k - 1
            /\ \A i \in S : p[Rank(auds, S, i) + 1] = i
<1> DEFINE n == Cardinality(S)
           f == [i \in S |-> Rank(auds, S, i) + 1]
<1>1. /\ n \in Nat
      /\ \A i \in S : Rank(auds, S, i) \in Nat
      /\ \A i \in S : Rank(auds, S, i) \in 0..(n - 1)
      /\ \A i, j \in S : Before(auds, i, j) => Rank(auds, S, i) < Rank(auds, S, j)
      /\ \A i, j \in S : i = j \/ Before(auds, i, j) \/ Before(auds, j, i)
  BY RankGrows
<1>2. ASSUME NEW i \in S, NEW j \in S, Rank(auds, S, i) = Rank(auds, S, j) PROVE i = j
  <2>1. Rank(auds, S, i) \in Nat /\ Rank(auds, S, j) \in Nat
    BY <1>1
  <2>2. ~(Rank(auds, S, i) < Rank(auds, S, j)) /\ ~(Rank(auds, S, j) < Rank(auds, S, i))
    BY <1>2, <2>1
  <2> QED
    BY <1>1, <2>2
<1>3. f \in Injection(S, 1..n)
  <2>1. f \in [S -> 1..n]
    <3>1. ASSUME NEW i \in S PROVE Rank(auds, S, i) + 1 \in 1..n
      <4>1. Rank(auds, S, i) \in 0..(n - 1)
        BY <1>1
      <4> HIDE DEF n
      <4> QED
        BY <1>1, <4>1
    <3> QED
      BY <3>1
  <2>2. ASSUME NEW i \in S, NEW j \in S, f[i] = f[j] PROVE i = j
    <3>1. Rank(auds, S, i) \in Nat /\ Rank(auds, S, j) \in Nat
      BY <1>1
    <3>2. Rank(auds, S, i) + 1 = Rank(auds, S, j) + 1
      BY <2>2
    <3> QED
      BY <1>2, <3>1, <3>2
  <2> QED
    BY <2>1, <2>2 DEF Injection, IsInjective
<1>4. f \in Surjection(S, 1..n)
  <2>1. IsFiniteSet(1..n) /\ Cardinality(1..n) = n
    <3>1. n \in Int /\ 1 \in Int
      BY <1>1
    <3> HIDE DEF n
    <3>2. IsFiniteSet(1..n) /\ Cardinality(1..n) = IF 1 > n THEN 0 ELSE n - 1 + 1
      BY <3>1, FS_Interval
    <3> QED
      BY <1>1, <3>2
  <2> HIDE DEF f
  <2> QED
    BY <1>3, <2>1, FS_Injection
<1>5. ASSUME NEW k \in 1..n
      PROVE  /\ InOrder(auds, S)[k] \in S /\ Rank(auds, S, InOrder(auds, S)[k]) = k - 1
  <2>1. \E i \in S : f[i] = k
    BY <1>4 DEF Surjection
  <2>2. PICK i \in S : Rank(auds, S, i) + 1 = k
    BY <2>1
  <2>3. Rank(auds, S, i) = k - 1
    BY <1>1, <2>2
  <2>4. InOrder(auds, S)[k] = CHOOSE j \in S : Rank(auds, S, j) = k - 1
    BY DEF InOrder
  <2> QED
    BY <2>3, <2>4
<1>6. InOrder(auds, S) \in [1..n -> S]
  <2>1. InOrder(auds, S) = [k \in 1..n |-> InOrder(auds, S)[k]]
    BY DEF InOrder
  <2> QED
    BY <1>5, <2>1
<1> DEFINE p == InOrder(auds, S)
<1>7. ASSUME NEW k \in 1..n, NEW m \in 1..n, k < m PROVE Before(auds, p[k], p[m]) /\ p[k] # p[m]
  <2>1. p[k] \in S /\ p[m] \in S /\ Rank(auds, S, p[k]) = k - 1 /\ Rank(auds, S, p[m]) = m - 1
    BY <1>5
  <2> HIDE DEF p, n
  <2>2. Rank(auds, S, p[k]) < Rank(auds, S, p[m]) /\ ~(Rank(auds, S, p[m]) < Rank(auds, S, p[k]))
    BY <1>7, <2>1
  <2>3. p[k] # p[m] /\ ~Before(auds, p[m], p[k])
    BY <1>1, <2>1, <2>2
  <2> QED
    BY <1>1, <2>1, <2>3
<1>8. ASSUME NEW i \in S PROVE p[Rank(auds, S, i) + 1] = i
  <2>1. Rank(auds, S, i) + 1 \in 1..n /\ Rank(auds, S, i) \in 0..(n - 1)
    <3>1. Rank(auds, S, i) \in 0..(n - 1)
      BY <1>1
    <3> HIDE DEF n
    <3> QED
      BY <1>1, <3>1
  <2>2. p[Rank(auds, S, i) + 1] \in S
        /\ Rank(auds, S, p[Rank(auds, S, i) + 1]) = Rank(auds, S, i) + 1 - 1
    BY <1>5, <2>1
  <2>3. Rank(auds, S, i) + 1 - 1 = Rank(auds, S, i)
    BY <2>1
  <2> HIDE DEF p
  <2> QED
    BY <1>2, <2>2, <2>3
<1> QED
  BY <1>1, <1>5, <1>6, <1>7, <1>8

-----------------------------------------------------------------------------
(* clampAudioSectionsToVideoDuration and sortAudioSections *)

AudioSections == [start : Int, end : Int, astart : Int, src : Sounds]

(* An audio section a video of length v has room for.                      *)
Sounding(a, v) ==
  /\ Snap <= Duration(a)
  /\ a.end <= v
  /\ a.astart + Duration(a) <= SourceTime[a.src]

(* No two sound at once.                                                   *)
Separate(auds) ==
  /\ auds \in Seq(AudioSections)
  /\ \A i \in 1..Len(auds) : auds[i].start < auds[i].end
  /\ \A i, j \in 1..Len(auds) :
       i # j => auds[i].end <= auds[j].start \/ auds[j].end <= auds[i].start

(* One sounds after another, under a video of length v.                    *)
Audible(auds, v) ==
  /\ auds \in Seq(AudioSections)
  /\ \A i \in 1..Len(auds) : Sounding(auds[i], v)
  /\ \A i, j \in 1..Len(auds) : i < j => auds[i].end <= auds[j].start

LEMMA AudioSection ==
  ASSUME NEW auds \in Seq(AudioSections)
  PROVE  /\ Len(auds) \in Nat /\ DOMAIN auds = 1..Len(auds)
         /\ \A i \in 1..Len(auds) :
              /\ auds[i] \in AudioSections
              /\ auds[i].start \in Int /\ auds[i].end \in Int /\ auds[i].astart \in Int
              /\ auds[i].src \in Sounds /\ SourceTime[auds[i].src] \in Nat
              /\ Duration(auds[i]) = auds[i].end - auds[i].start
<1>1. Len(auds) \in Nat /\ DOMAIN auds = 1..Len(auds)
  OBVIOUS
<1>2. ASSUME NEW i \in 1..Len(auds)
      PROVE  /\ auds[i] \in AudioSections
             /\ auds[i].start \in Int /\ auds[i].end \in Int /\ auds[i].astart \in Int
             /\ auds[i].src \in Sounds /\ SourceTime[auds[i].src] \in Nat
             /\ Duration(auds[i]) = auds[i].end - auds[i].start
  <2>1. auds[i] \in AudioSections
    BY ElementOfSeq
  <2>2. auds[i].src \in Sounds
    BY <2>1 DEF AudioSections
  <2>3. SourceTime[auds[i].src] \in Nat
    BY <2>2, SourceAssumption
  <2> QED
    BY <2>1, <2>2, <2>3 DEF AudioSections, Duration
<1> QED
  BY <1>1, <1>2

(* Some of them, in the order in which they start, sound in turn.          *)
LEMMA InOrderInTurn ==
  ASSUME NEW auds, Separate(auds), NEW S \in SUBSET (1..Len(auds))
  PROVE  LET p == InOrder(auds, S)
             n == Cardinality(S)
         IN /\ n \in Nat /\ p \in [1..n -> S] /\ DOMAIN p = 1..n
            /\ \A k, m \in 1..n : k < m => auds[p[k]].end <= auds[p[m]].start
            /\ \A k \in 1..n : p[k] \in 1..Len(auds)
<1>1. auds \in Seq(AudioSections)
  BY DEF Separate
<1>2. Len(auds) \in Nat
      /\ \A i \in 1..Len(auds) : auds[i].start \in Int /\ auds[i].end \in Int
  BY <1>1, AudioSection
<1>3. IsFiniteSet(1..Len(auds))
  <2>1. 1 \in Int /\ Len(auds) \in Int
    BY <1>2
  <2> QED
    BY <2>1, FS_Interval
<1>4. S \in SUBSET Int /\ IsFiniteSet(S) /\ \A i \in S : auds[i].start \in Int
  <2>1. IsFiniteSet(S)
    BY <1>3, FS_Subset
  <2>2. S \in SUBSET Int
    OBVIOUS
  <2> QED
    BY <1>2, <2>1, <2>2
<1> DEFINE p == InOrder(auds, S)
           n == Cardinality(S)
<1>5. /\ n \in Nat /\ p \in [1..n -> S]
      /\ \A k, m \in 1..n : k < m => Before(auds, p[k], p[m]) /\ p[k] # p[m]
  BY <1>4, OrderedList
<1> HIDE DEF p, n
<1>6. ASSUME NEW k \in 1..n, NEW m \in 1..n, k < m
      PROVE  auds[p[k]].end <= auds[p[m]].start
  <2>1. Before(auds, p[k], p[m]) /\ p[k] # p[m] /\ p[k] \in 1..Len(auds) /\ p[m] \in 1..Len(auds)
    BY <1>5, <1>6
  <2>2. /\ auds[p[k]].start \in Int /\ auds[p[k]].end \in Int
        /\ auds[p[m]].start \in Int /\ auds[p[m]].end \in Int
    BY <1>2, <2>1
  <2>3. auds[p[k]].start <= auds[p[m]].start
    BY <2>1, <2>2 DEF Before
  <2>4. auds[p[m]].start < auds[p[m]].end
    BY <2>1 DEF Separate
  <2>5. auds[p[k]].end <= auds[p[m]].start \/ auds[p[m]].end <= auds[p[k]].start
    BY <2>1 DEF Separate
  <2> QED
    BY <2>2, <2>3, <2>4, <2>5
<1>7. DOMAIN p = 1..n /\ \A k \in 1..n : p[k] \in 1..Len(auds)
  BY <1>5
<1> QED
  BY <1>5, <1>6, <1>7 DEF p, n

(* The clamp: a section it leaves ends in the video and in its source.     *)
LEMMA ClampedEnds ==
  ASSUME NEW a \in AudioSections, NEW v \in Int
  PROVE  /\ SourceTime[a.src] \in Int
         /\ ClampedEnd(a, v) \in Int /\ ClampedEnd(a, v) <= a.end /\ ClampedEnd(a, v) <= v
         /\ ClampedEnd(a, v) <= a.start + SourceTime[a.src] - a.astart
         /\ Sounding(a, v) => ClampedEnd(a, v) = a.end
<1> DEFINE w == a.start + SourceTime[a.src] - a.astart
           e == a.end
           T == {t \in {e, v, w} : t <= e /\ t <= v /\ t <= w}
<1>1. SourceTime[a.src] \in Int /\ e \in Int /\ a.start \in Int /\ a.astart \in Int /\ w \in Int
  <2>1. a.src \in Sounds
    BY DEF AudioSections
  <2>2. SourceTime[a.src] \in Nat
    BY <2>1, SourceAssumption
  <2> QED
    BY <2>2 DEF AudioSections
<1>2. ClampedEnd(a, v) = CHOOSE t \in {e, v, w} : t <= e /\ t <= v /\ t <= w
  BY DEF ClampedEnd
<1>3. Sounding(a, v) => e <= w /\ e <= v
  BY <1>1 DEF Sounding, Duration
<1> HIDE DEF w, e
<1>4. \E t \in {e, v, w} : t <= e /\ t <= v /\ t <= w
  <2>1. CASE e <= v /\ e <= w
    BY <1>1, <2>1
  <2>2. CASE v <= e /\ v <= w
    BY <1>1, <2>2
  <2>3. CASE w <= e /\ w <= v
    BY <1>1, <2>3
  <2> QED
    BY <1>1, <2>1, <2>2, <2>3
<1>5. /\ ClampedEnd(a, v) \in {e, v, w} /\ ClampedEnd(a, v) <= e
      /\ ClampedEnd(a, v) <= v /\ ClampedEnd(a, v) <= w
  BY <1>2, <1>4
<1>6. ClampedEnd(a, v) \in Int
  BY <1>1, <1>5
<1>7. e <= w /\ e <= v => ClampedEnd(a, v) = e
  BY <1>1, <1>5, <1>6
<1> QED
  BY <1>1, <1>3, <1>5, <1>6, <1>7 DEF w, e

LEMMA ClampedAudible ==
  ASSUME NEW auds, Separate(auds), NEW v \in Int
  PROVE  Audible(Clamped(auds, v), v) /\ Len(Clamped(auds, v)) = Cardinality(Survivors(auds, v))
<1>1. auds \in Seq(AudioSections)
  BY DEF Separate
<1>2. Len(auds) \in Nat /\ DOMAIN auds = 1..Len(auds)
      /\ \A i \in 1..Len(auds) : auds[i] \in AudioSections
  BY <1>1, AudioSection
<1> DEFINE S == Survivors(auds, v)
           p == InOrder(auds, S)
           n == Cardinality(S)
           c == Clamped(auds, v)
<1>3. S \in SUBSET (1..Len(auds))
  BY <1>2 DEF Survivors
<1>4. /\ n \in Nat /\ p \in [1..n -> S] /\ DOMAIN p = 1..n
      /\ \A k, m \in 1..n : k < m => auds[p[k]].end <= auds[p[m]].start
      /\ \A k \in 1..n : p[k] \in 1..Len(auds)
  <2> HIDE DEF S
  <2> QED
    BY <1>3, InOrderInTurn
<1>5. c = [k \in 1..n |-> [auds[p[k]] EXCEPT !.end = ClampedEnd(auds[p[k]], v)]]
  BY <1>4 DEF Clamped
<1>6. \A i \in S : Survives(auds[i], v)
  BY DEF Survivors
<1> HIDE DEF S, p, n, c
<1>7. ASSUME NEW k \in 1..n
      PROVE  /\ c[k] \in AudioSections /\ c[k].start = auds[p[k]].start
             /\ c[k].end = ClampedEnd(auds[p[k]], v) /\ c[k].start \in Int /\ c[k].end \in Int
             /\ c[k].end <= auds[p[k]].end /\ auds[p[k]].end \in Int /\ Sounding(c[k], v)
  <2> DEFINE a == auds[p[k]]
             t == ClampedEnd(a, v)
             b == c[k]
  <2>1. p[k] \in S /\ p[k] \in 1..Len(auds)
    BY <1>4
  <2>2. a \in AudioSections /\ Survives(a, v)
    BY <1>2, <1>6, <2>1
  <2>3. b = [a EXCEPT !.end = t]
    BY <1>5
  <2> HIDE DEF a, b
  <2>4. /\ SourceTime[a.src] \in Int /\ t \in Int /\ t <= a.end /\ t <= v
        /\ t <= a.start + SourceTime[a.src] - a.astart
    BY <2>2, ClampedEnds
  <2>5. Snap <= t - a.start
    <3>1. t - a.start >= Snap
      BY <2>2 DEF Survives
    <3>2. a.start \in Int
      BY <2>2 DEF AudioSections
    <3> HIDE DEF t
    <3> QED
      BY <2>4, <3>1, <3>2, SnapAssumption
  <2> HIDE DEF t
  <2>6. /\ b \in AudioSections /\ b.start = a.start /\ b.end = t /\ b.astart = a.astart
        /\ b.src = a.src /\ a.start \in Int /\ a.end \in Int /\ a.astart \in Int
    BY <2>2, <2>3, <2>4 DEF AudioSections
  <2>7. Sounding(b, v)
    <3>1. Duration(b) = t - a.start
      BY <2>6 DEF Duration
    <3>2. b.astart + (t - a.start) <= SourceTime[a.src]
      BY <2>4, <2>6
    <3> QED
      BY <2>4, <2>5, <2>6, <3>1, <3>2 DEF Sounding
  <2> QED
    BY <2>4, <2>6, <2>7 DEF a, b, t
<1>8. c \in Seq(AudioSections) /\ Len(c) = n
  <2>1. c \in [1..n -> AudioSections]
    <3>1. c = [k \in 1..n |-> c[k]]
      BY <1>5
    <3> QED
      BY <1>7, <3>1
  <2> QED
    BY <1>4, <2>1, ListOf
<1>9. ASSUME NEW k \in 1..n, NEW m \in 1..n, k < m PROVE c[k].end <= c[m].start
  <2>1. auds[p[k]].end <= auds[p[m]].start
    BY <1>4, <1>9
  <2>2. c[k].end <= auds[p[k]].end /\ c[k].end \in Int /\ auds[p[k]].end \in Int
    BY <1>7
  <2>3. c[m].start = auds[p[m]].start /\ c[m].start \in Int
    BY <1>7
  <2> QED
    BY <2>1, <2>2, <2>3
<1> QED
  BY <1>7, <1>8, <1>9 DEF Audible, c, n, S

LEMMA SortedAudible ==
  ASSUME NEW auds, Separate(auds), NEW v, \A i \in 1..Len(auds) : Sounding(auds[i], v)
  PROVE  Audible(Sorted(auds), v) /\ Len(Sorted(auds)) = Len(auds)
<1>1. auds \in Seq(AudioSections)
  BY DEF Separate
<1>2. Len(auds) \in Nat /\ DOMAIN auds = 1..Len(auds)
      /\ \A i \in 1..Len(auds) : auds[i] \in AudioSections
  BY <1>1, AudioSection
<1> DEFINE S == 1..Len(auds)
           p == InOrder(auds, S)
           s == Sorted(auds)
<1>3. Cardinality(S) = Len(auds)
  <2>1. 1 \in Int /\ Len(auds) \in Int
    BY <1>2
  <2>2. Cardinality(1..Len(auds)) = IF 1 > Len(auds) THEN 0 ELSE Len(auds) - 1 + 1
    BY <2>1, FS_Interval
  <2> QED
    BY <1>2, <2>2
<1>4. /\ p \in [1..Len(auds) -> S]
      /\ \A k, m \in 1..Len(auds) : k < m => auds[p[k]].end <= auds[p[m]].start
  <2>1. S \in SUBSET (1..Len(auds))
    OBVIOUS
  <2> HIDE DEF S
  <2> QED
    BY <1>3, <2>1, InOrderInTurn
<1>5. s = [k \in 1..Len(auds) |-> auds[p[k]]]
  BY <1>2 DEF Sorted
<1> HIDE DEF p, s
<1>6. \A k \in 1..Len(auds) : s[k] = auds[p[k]] /\ s[k] \in AudioSections /\ Sounding(s[k], v)
  BY <1>2, <1>4, <1>5
<1>7. s \in Seq(AudioSections) /\ Len(s) = Len(auds)
  <2>1. s \in [1..Len(auds) -> AudioSections]
    <3>1. s = [k \in 1..Len(auds) |-> s[k]]
      BY <1>5
    <3> QED
      BY <1>6, <3>1
  <2> QED
    BY <1>2, <2>1, ListOf
<1>8. \A k, m \in 1..Len(auds) : k < m => s[k].end <= s[m].start
  BY <1>4, <1>6
<1> QED
  BY <1>6, <1>7, <1>8 DEF Audible, s

LEMMA AudibleSeparate ==
  ASSUME NEW auds, NEW v, Audible(auds, v)
  PROVE  Separate(auds)
<1>1. Len(auds) \in Nat
      /\ \A i \in 1..Len(auds) :
           /\ auds[i].start \in Int /\ auds[i].end \in Int
           /\ Duration(auds[i]) = auds[i].end - auds[i].start
  BY AudioSection DEF Audible
<1>2. ASSUME NEW i \in 1..Len(auds) PROVE auds[i].start < auds[i].end
  <2>1. Snap <= Duration(auds[i])
    BY DEF Audible, Sounding
  <2> QED
    BY <1>1, <2>1, SnapAssumption
<1>3. ASSUME NEW i \in 1..Len(auds), NEW j \in 1..Len(auds), i # j
      PROVE  auds[i].end <= auds[j].start \/ auds[j].end <= auds[i].start
  <2>1. i < j \/ j < i
    BY <1>1, <1>3
  <2> QED
    BY <2>1 DEF Audible
<1> QED
  BY <1>2, <1>3 DEF Separate, Audible

(* A list that is audible is in order, and the clamp leaves it alone.      *)
LEMMA AudibleStays ==
  ASSUME NEW auds, NEW v \in Int, Audible(auds, v)
  PROVE  Sorted(auds) = auds /\ Clamped(auds, v) = auds /\ Survivors(auds, v) = 1..Len(auds)
<1>1. Len(auds) \in Nat /\ DOMAIN auds = 1..Len(auds)
      /\ \A i \in 1..Len(auds) :
           /\ auds[i] \in AudioSections
           /\ auds[i].start \in Int /\ auds[i].end \in Int /\ auds[i].astart \in Int
           /\ SourceTime[auds[i].src] \in Nat
           /\ Duration(auds[i]) = auds[i].end - auds[i].start
  BY AudioSection DEF Audible
<1>2. Separate(auds)
  BY AudibleSeparate
<1> DEFINE S == 1..Len(auds)
           p == InOrder(auds, S)
<1>3. IsFiniteSet(S) /\ Cardinality(S) = Len(auds)
  <2>1. 1 \in Int /\ Len(auds) \in Int
    BY <1>1
  <2>2. IsFiniteSet(1..Len(auds))
        /\ Cardinality(1..Len(auds)) = IF 1 > Len(auds) THEN 0 ELSE Len(auds) - 1 + 1
    BY <2>1, FS_Interval
  <2> QED
    BY <1>1, <2>2
<1>4. ASSUME NEW i \in S PROVE Rank(auds, S, i) = i - 1
  <2>1. {j \in S : Before(auds, j, i)} = 1..(i - 1)
    <3>1. ASSUME NEW j \in S PROVE Before(auds, j, i) <=> j < i
      <4>1. j < i => auds[j].end <= auds[i].start
        BY DEF Audible
      <4>2. i < j => auds[i].end <= auds[j].start
        BY DEF Audible
      <4>3. auds[i].start < auds[i].end /\ auds[j].start < auds[j].end
        BY <1>2 DEF Separate
      <4>4. auds[i].start \in Int /\ auds[j].start \in Int /\ auds[i].end \in Int
            /\ auds[j].end \in Int
        BY <1>1
      <4>5. i \in Int /\ j \in Int
        OBVIOUS
      <4> QED
        BY <4>1, <4>2, <4>3, <4>4, <4>5 DEF Before
    <3> QED
      BY <1>1, <3>1
  <2>2. 1 \in Int /\ i - 1 \in Int /\ i \in Nat /\ 1 <= i
    BY <1>1
  <2>3. Cardinality(1..(i - 1)) = IF 1 > i - 1 THEN 0 ELSE i - 1 - 1 + 1
    BY <2>2, FS_Interval
  <2>4. Rank(auds, S, i) = Cardinality(1..(i - 1))
    BY <2>1 DEF Rank
  <2> QED
    BY <2>2, <2>3, <2>4
<1>5. ASSUME NEW k \in S PROVE p[k] = k
  <2>1. p[k] = CHOOSE i \in S : Rank(auds, S, i) = k - 1
    BY <1>3 DEF InOrder
  <2>2. Rank(auds, S, k) = k - 1
    BY <1>4
  <2>3. p[k] \in S /\ Rank(auds, S, p[k]) = k - 1
    BY <2>1, <2>2
  <2>4. p[k] - 1 = k - 1
    BY <1>4, <2>3
  <2> QED
    BY <1>1, <2>3, <2>4
<1>6. DOMAIN p = S
  BY <1>3 DEF InOrder
<1>7. Sorted(auds) = auds
  <2>1. Sorted(auds) = [k \in S |-> auds[p[k]]]
    BY <1>1 DEF Sorted
  <2>2. auds = [k \in S |-> auds[k]]
    BY <1>1 DEF Audible
  <2> HIDE DEF p
  <2> QED
    BY <1>5, <2>1, <2>2
<1>8. ASSUME NEW i \in S
      PROVE  Survives(auds[i], v) /\ ClampedEnd(auds[i], v) = auds[i].end
  <2>1. Sounding(auds[i], v) /\ auds[i] \in AudioSections
    BY <1>1 DEF Audible
  <2>2. ClampedEnd(auds[i], v) = auds[i].end
    BY <2>1, ClampedEnds
  <2>3. /\ auds[i].start \in Int /\ auds[i].end \in Int /\ auds[i].astart \in Int
        /\ SourceTime[auds[i].src] \in Nat /\ Snap \in Nat \ {0}
        /\ Snap <= auds[i].end - auds[i].start /\ auds[i].end <= v
        /\ auds[i].astart + (auds[i].end - auds[i].start) <= SourceTime[auds[i].src]
    BY <1>1, <2>1, SnapAssumption DEF Sounding
  <2>4. auds[i].start < v /\ auds[i].astart < SourceTime[auds[i].src]
        /\ auds[i].end - auds[i].start >= Snap
    BY <2>3
  <2> QED
    BY <2>2, <2>4 DEF Survives
<1>9. Survivors(auds, v) = S
  BY <1>1, <1>8 DEF Survivors
<1>10. Clamped(auds, v) = auds
  <2>1. Clamped(auds, v) = [k \in S |-> [auds[p[k]] EXCEPT !.end = ClampedEnd(auds[p[k]], v)]]
    BY <1>6, <1>9 DEF Clamped
  <2>2. ASSUME NEW k \in S
        PROVE  [auds[p[k]] EXCEPT !.end = ClampedEnd(auds[p[k]], v)] = auds[k]
    <3>1. ClampedEnd(auds[p[k]], v) = auds[k].end /\ auds[p[k]] = auds[k]
      BY <1>5, <1>8
    <3>2. auds[k] \in AudioSections
      BY <1>1
    <3> QED
      BY <3>1, <3>2 DEF AudioSections
  <2>3. auds = [k \in S |-> auds[k]]
    BY <1>1 DEF Audible
  <2> HIDE DEF p
  <2> QED
    BY <2>1, <2>2, <2>3
<1> QED
  BY <1>7, <1>9, <1>10

-----------------------------------------------------------------------------
(* A state as a message has it *)

Pictured == overlays \in Seq({0, 1})

LEMMA SectionFields ==
  ASSUME NEW n, NEW x \in SectionsOn(n)
  PROVE  /\ x.start \in Int /\ x.end \in Int /\ x.vstart \in Int /\ x.src \in Videos
         /\ x.over \in Seq(1..n) /\ x.effects \in {0, 1} /\ Duration(x) = x.end - x.start
         /\ Duration(x) \in Int /\ Len(x.over) \in Nat /\ DOMAIN x.over = 1..Len(x.over)
         /\ \A k \in 1..Len(x.over) : x.over[k] \in 1..n
         /\ SourceTime[x.src] \in Nat
<1>1. x.start \in Int /\ x.end \in Int /\ x.vstart \in Int /\ x.src \in Videos
      /\ x.over \in Seq(1..n) /\ x.effects \in {0, 1}
  BY DEF SectionsOn
<1>2. Len(x.over) \in Nat /\ DOMAIN x.over = 1..Len(x.over)
      /\ \A k \in 1..Len(x.over) : x.over[k] \in 1..n
  <2> DEFINE o == x.over
  <2>1. o \in Seq(1..n)
    BY <1>1
  <2> HIDE DEF o
  <2>2. Len(o) \in Nat /\ DOMAIN o = 1..Len(o)
    BY <2>1, LenProperties
  <2>3. \A k \in 1..Len(o) : o[k] \in 1..n
    BY <2>1, ElementOfSeq
  <2> QED
    BY <2>2, <2>3 DEF o
<1>3. SourceTime[x.src] \in Nat
  BY <1>1, SourceAssumption
<1>4. Duration(x) = x.end - x.start /\ Duration(x) \in Int
  BY <1>1 DEF Duration
<1> QED
  BY <1>1, <1>2, <1>3, <1>4

(* What a section's overlays show is a list as long as theirs.             *)
LEMMA PicturesOf ==
  ASSUME Pictured, NEW x \in SectionsOn(Len(overlays))
  PROVE  Pictures(x) \in Seq({0, 1}) /\ Len(Pictures(x)) = Len(x.over)
<1>1. Len(x.over) \in Nat /\ DOMAIN x.over = 1..Len(x.over)
      /\ \A k \in 1..Len(x.over) : x.over[k] \in 1..Len(overlays)
  BY SectionFields
<1>2. \A m \in 1..Len(overlays) : overlays[m] \in {0, 1}
  <2>1. overlays \in Seq({0, 1})
    BY DEF Pictured
  <2> QED
    BY <2>1, ElementOfSeq
<1> DEFINE q == Pictures(x)
<1>3. q = [k \in 1..Len(x.over) |-> overlays[x.over[k]]]
  BY <1>1 DEF Pictures
<1> HIDE DEF q
<1>4. q \in [1..Len(x.over) -> {0, 1}]
  BY <1>1, <1>2, <1>3
<1>5. q \in Seq({0, 1}) /\ Len(q) = Len(x.over)
  BY <1>1, <1>4, ListOf
<1> QED
  BY <1>5 DEF q

(* What never falls is nowhere more than at the end.                       *)
LEMMA GrowsToLast ==
  ASSUME NEW N \in Nat, NEW h \in [0..N -> Int], \A i \in 1..N : h[i - 1] <= h[i]
  PROVE  \A i \in 0..N : h[i] <= h[N]
<1> DEFINE X == {j \in 0..N : ~(h[N - j] <= h[N])}
<1>1. X \in SUBSET Nat
  OBVIOUS
<1>2. X = {}
  <2> SUFFICES ASSUME X # {} PROVE FALSE
    OBVIOUS
  <2>1. PICK m \in X : \A i \in X : m <= i
    <3> HIDE DEF X
    <3> QED
      BY <1>1, LeastOf
  <2>2. m \in 0..N /\ ~(h[N - m] <= h[N])
    BY <2>1
  <2>3. m # 0
    <3>1. N - 0 = N /\ h[N] \in Int
      OBVIOUS
    <3> QED
      BY <2>2, <3>1
  <2>4. m - 1 \in 0..N /\ ~(m <= m - 1)
    BY <2>2, <2>3
  <2>5. h[N - (m - 1)] <= h[N]
    BY <2>1, <2>4
  <2>6. N - (m - 1) \in 1..N /\ N - (m - 1) - 1 = N - m /\ N - m \in 0..N
    BY <2>2, <2>3
  <2>7. h[N - m] <= h[N - (m - 1)]
    BY <2>6
  <2>8. h[N - m] \in Int /\ h[N - (m - 1)] \in Int /\ h[N] \in Int
    BY <2>6
  <2> QED
    BY <2>2, <2>5, <2>7, <2>8
<1>3. ASSUME NEW i \in 0..N PROVE h[i] <= h[N]
  <2>1. N - i \in 0..N /\ N - (N - i) = i
    OBVIOUS
  <2> QED
    BY <1>2, <2>1
<1> QED
  BY <1>3

(* Each section's overlays come after those of the sections before it.     *)
Numbered(secs, f) ==
  /\ f \in [0..Len(secs) -> Int]
  /\ \A i \in 1..Len(secs) :
       /\ f[i - 1] <= f[i]
       /\ \A k \in DOMAIN secs[i].over : f[i - 1] < secs[i].over[k] /\ secs[i].over[k] <= f[i]

(* Sections that are loaded show what they did, on overlays of their own.  *)
LEMMA ApartPlays ==
  ASSUME Pictured, NEW secs, Playable(secs, Len(overlays))
  PROVE  LET a == Apart(secs) IN
         /\ a.pictures \in Seq({0, 1})
         /\ Playable(a.secs, Len(a.pictures)) /\ VideoTime(a.secs) = VideoTime(secs)
         /\ Len(a.secs) = Len(secs)
         /\ \A i \in 1..Len(secs) : /\ a.secs[i].start = secs[i].start
                                    /\ a.secs[i].end = secs[i].end
         /\ \E f : Numbered(a.secs, f)
<1> DEFINE N == Len(secs)
           P == Seq({0, 1})
           step == [q \in (1..N) \X P |-> q[2] \o Pictures(secs[q[1]])]
           Told(f) == f = [i \in 0..N |-> IF i = 0 THEN <<>> ELSE f[i - 1] \o Pictures(secs[i])]
<1>1. N \in Nat /\ DOMAIN secs = 1..N /\ Runs(secs) /\ secs \in Seq(SectionsOn(Len(overlays)))
  BY PlayableRuns
<1>2. ASSUME NEW i \in 1..N
      PROVE  /\ secs[i] \in SectionsOn(Len(overlays)) /\ Plays(secs[i])
             /\ Pictures(secs[i]) \in P /\ Len(Pictures(secs[i])) = Len(secs[i].over)
             /\ Len(secs[i].over) \in Nat
  <2>1. secs[i] \in SectionsOn(Len(overlays)) /\ Plays(secs[i])
    BY <1>1, ElementOfSeq DEF Playable
  <2> QED
    BY <2>1, PicturesOf, SectionFields
<1> HIDE DEF N
<1>3. step \in [(1..N) \X P -> P]
  <2>1. ASSUME NEW i \in 1..N, NEW s \in P PROVE s \o Pictures(secs[i]) \in P
    BY <1>2
  <2> QED
    BY <2>1
<1>4. \A i \in 1..N, s \in P : step[<<i, s>>] = s \o Pictures(secs[i])
  OBVIOUS
<1>5. <<>> \in P
  OBVIOUS
<1> HIDE DEF P, step
<1>6. PICK f \in [0..N -> P] : Stepped(N, <<>>, step, f)
  BY <1>1, <1>3, <1>5, StepsExist
<1>7. Told(f)
  <2>1. ASSUME NEW i \in 0..N
        PROVE  f[i] = IF i = 0 THEN <<>> ELSE f[i - 1] \o Pictures(secs[i])
    <3>1. CASE i = 0
      BY <1>6, <3>1 DEF Stepped
    <3>2. CASE i # 0
      <4>1. i \in 1..N /\ i - 1 \in 0..N
        BY <1>1, <3>2
      <4>2. f[i - 1] \in P /\ f[i] = step[<<i, f[i - 1]>>]
        BY <1>6, <4>1 DEF Stepped
      <4> QED
        BY <1>4, <3>2, <4>1, <4>2
    <3> QED
      BY <3>1, <3>2
  <2>2. f = [i \in 0..N |-> f[i]]
    OBVIOUS
  <2> QED
    BY <2>1, <2>2
<1> DEFINE g == CHOOSE g : Told(g)
           a == Apart(secs)
           w == [i \in 1..N |-> [secs[i] EXCEPT !.over = [k \in DOMAIN @ |-> Len(g[i - 1]) + k]]]
<1>8. Told(g)
  <2> HIDE DEF Told
  <2> QED
    BY <1>7
<1>9. a.pictures = g[N] /\ a.secs = w
  <2>1. Apart(secs) = [pictures |-> g[N], secs |-> w]
    BY <1>1 DEF Apart, N
  <2> HIDE DEF g, w
  <2> QED
    BY <2>1
<1>10. g \in [0..N -> P]
  <2> DEFINE X == {i \in 0..N : g[i] \notin P}
  <2>0. X \in SUBSET Nat
    BY <1>1
  <2>a. g[0] = <<>> /\ \A i \in 1..N : g[i] = g[i - 1] \o Pictures(secs[i])
    <3> HIDE DEF g
    <3>1. ASSUME NEW i \in 0..N
          PROVE  g[i] = IF i = 0 THEN <<>> ELSE g[i - 1] \o Pictures(secs[i])
      BY <1>8
    <3>2. 0 \in 0..N /\ \A i \in 1..N : i \in 0..N /\ i # 0
      BY <1>1
    <3> QED
      BY <3>1, <3>2
  <2> HIDE DEF g
  <2>1. X = {}
    <3> SUFFICES ASSUME X # {} PROVE FALSE
      OBVIOUS
    <3>1. PICK m \in X : \A i \in X : m <= i
      <4> HIDE DEF X
      <4> QED
        BY <2>0, LeastOf
    <3>2. m # 0
      BY <1>5, <2>a, <3>1
    <3>3. m - 1 \in 0..N /\ m \in 1..N /\ ~(m <= m - 1)
      BY <1>1, <3>1, <3>2
    <3>4. g[m - 1] \in P
      BY <3>1, <3>3
    <3> DEFINE u == g[m - 1]
               v == Pictures(secs[m])
    <3>5. g[m] = u \o v /\ u \in P /\ v \in P
      BY <1>2, <2>a, <3>3, <3>4
    <3> HIDE DEF u, v
    <3>6. u \o v \in P
      BY <3>5 DEF P
    <3> QED
      BY <3>1, <3>5, <3>6
  <2>2. g = [i \in 0..N |-> g[i]]
    BY <1>8
  <2> QED
    BY <2>1, <2>2
<1>11. ASSUME NEW i \in 1..N
       PROVE  Len(g[i]) = Len(g[i - 1]) + Len(secs[i].over) /\ Len(g[i]) \in Nat
              /\ Len(g[i - 1]) \in Nat
  <2> HIDE DEF g
  <2>1. i - 1 \in 0..N /\ i \in 0..N /\ i # 0
    BY <1>1
  <2>2. g[i - 1] \in P /\ g[i] \in P
    BY <1>10, <2>1
  <2>3. g[i] = g[i - 1] \o Pictures(secs[i])
    BY <1>8, <2>1
  <2> DEFINE u == g[i - 1]
             v == Pictures(secs[i])
  <2>4. u \in P /\ v \in P /\ Len(v) = Len(secs[i].over) /\ g[i] = u \o v
    BY <1>2, <2>2, <2>3
  <2> HIDE DEF u, v
  <2>5. Len(u \o v) = Len(u) + Len(v) /\ Len(u) \in Nat /\ Len(v) \in Nat
    <3>1. u \in Seq({0, 1}) /\ v \in Seq({0, 1})
      BY <2>4 DEF P
    <3> QED
      BY <3>1
  <2>6. Len(g[i]) = Len(u) + Len(secs[i].over) /\ Len(u) \in Nat /\ Len(secs[i].over) \in Nat
    BY <2>4, <2>5
  <2>7. Len(g[i]) \in Nat
    BY <2>6
  <2> QED
    BY <2>6, <2>7 DEF u
<1> HIDE DEF g
<1>12. \A i \in 0..N : Len(g[i]) \in Nat /\ Len(g[i]) <= Len(g[N])
  <2> DEFINE h == [i \in 0..N |-> Len(g[i])]
  <2>1. ASSUME NEW i \in 0..N PROVE Len(g[i]) \in Nat
    <3>1. g[i] \in P
      BY <1>10
    <3> QED
      BY <3>1 DEF P
  <2>2. h \in [0..N -> Int]
    BY <2>1
  <2>3. ASSUME NEW i \in 1..N PROVE h[i - 1] <= h[i]
    <3>1. i - 1 \in 0..N /\ i \in 0..N
      BY <1>1
    <3>2. h[i - 1] = Len(g[i - 1]) /\ h[i] = Len(g[i])
      BY <3>1
    <3> DEFINE before == Len(g[i - 1])
               after == Len(g[i])
               more == Len(secs[i].over)
    <3>3. more \in Nat /\ before \in Nat /\ after = before + more
      BY <1>2, <1>11
    <3>4. h[i - 1] = before /\ h[i] = after
      BY <3>2
    <3> HIDE DEF before, after, more, h
    <3> QED
      BY <3>3, <3>4
  <2>4. \A i \in 0..N : h[i] = Len(g[i])
    OBVIOUS
  <2> HIDE DEF h
  <2>5. \A i \in 0..N : h[i] <= h[N]
    BY <1>1, <2>2, <2>3, GrowsToLast
  <2>6. N \in 0..N
    BY <1>1
  <2> QED
    BY <2>1, <2>4, <2>5, <2>6
<1> DEFINE M == Len(g[N])
<1>13. ASSUME NEW i \in 1..N
       PROVE  w[i] \in SectionsOn(M) /\ w[i].start = secs[i].start /\ w[i].end = secs[i].end
              /\ w[i].vstart = secs[i].vstart /\ w[i].src = secs[i].src
  <2> DEFINE x == secs[i]
             k0 == Len(g[i - 1])
             own == [k \in 1..Len(x.over) |-> k0 + k]
             y == w[i]
  <2>1. x \in SectionsOn(Len(overlays)) /\ Len(x.over) \in Nat /\ DOMAIN x.over = 1..Len(x.over)
    BY <1>2, SectionFields
  <2>2. k0 \in Nat /\ k0 + Len(x.over) <= M /\ M \in Nat
    <3>1. i \in 0..N /\ N \in 0..N
      BY <1>1
    <3>2. Len(g[i]) <= M /\ Len(g[i]) \in Nat /\ M \in Nat
      BY <1>12, <3>1
    <3> HIDE DEF M
    <3> QED
      BY <1>11, <3>2
  <2>3. y = [x EXCEPT !.over = own]
    BY <2>1
  <2> HIDE DEF k0, M, x
  <2>4. own \in [1..Len(x.over) -> 1..M]
    BY <2>1, <2>2
  <2> HIDE DEF own, y
  <2>5. own \in Seq(1..M)
    BY <2>1, <2>4, ListOf
  <2>6. y \in SectionsOn(M) /\ y.start = x.start /\ y.end = x.end /\ y.vstart = x.vstart
        /\ y.src = x.src
    BY <2>1, <2>3, <2>5 DEF SectionsOn
  <2> QED
    BY <2>6 DEF x, y
<1>14. w \in Seq(SectionsOn(M)) /\ Len(w) = N
  <2>1. w \in [1..N -> SectionsOn(M)]
    BY <1>13
  <2> HIDE DEF w
  <2> QED
    BY <1>1, <2>1, ListOf
<1>19. \E u : Numbered(w, u)
  <2> DEFINE f0 == [i \in 0..N |-> Len(g[i])]
  <2>1. f0 \in [0..N -> Int] /\ \A i \in 0..N : f0[i] = Len(g[i])
    BY <1>12
  <2>2. ASSUME NEW i \in 1..N
        PROVE  /\ f0[i - 1] <= f0[i]
               /\ \A k \in DOMAIN w[i].over : f0[i - 1] < w[i].over[k] /\ w[i].over[k] <= f0[i]
    <3> DEFINE before == Len(g[i - 1])
               after == Len(g[i])
               more == Len(secs[i].over)
               x == secs[i]
               own == [k \in 1..more |-> before + k]
    <3>1. i - 1 \in 0..N /\ i \in 0..N
      BY <1>1
    <3>2. f0[i - 1] = before /\ f0[i] = after
      BY <2>1, <3>1
    <3>3. x \in SectionsOn(Len(overlays)) /\ DOMAIN x.over = 1..more
      BY <1>2, SectionFields
    <3>4. w[i] = [x EXCEPT !.over = own]
      BY <3>3
    <3>5. more \in Nat /\ before \in Nat /\ after = before + more
      BY <1>2, <1>11
    <3>6. w[i].over = own
      <4> HIDE DEF x, own, w
      <4> QED
        BY <3>3, <3>4 DEF SectionsOn
    <3> HIDE DEF before, after, more, f0, w
    <3>7. \A k \in DOMAIN own : before < own[k] /\ own[k] <= after
      BY <3>5
    <3>8. before <= after
      BY <3>5
    <3> QED
      BY <3>2, <3>6, <3>7, <3>8
  <2> HIDE DEF f0, w
  <2>3. Numbered(w, f0)
    BY <1>14, <2>1, <2>2 DEF Numbered
  <2> QED
    BY <2>3
<1> HIDE DEF w, M
<1>15. ASSUME NEW i \in 1..N PROVE Duration(w[i]) = Duration(secs[i])
  BY <1>13 DEF Duration
<1>16. Playable(w, M)
  <2>1. ASSUME NEW i \in 1..N PROVE Plays(w[i])
    BY <1>2, <1>13, <1>15 DEF Plays
  <2> QED
    BY <1>14, <2>1 DEF Playable
<1>17. VideoTime(w) = VideoTime(secs)
  <2>1. PICK t : Timed(secs, t)
    BY <1>1, TimesExist
  <2>2. Len(secs) = Len(w) /\ \A i \in 1..Len(secs) : Duration(secs[i]) = Duration(w[i])
    BY <1>14, <1>15 DEF N
  <2>3. Timed(w, t)
    BY <1>1, <1>14, <2>1, <2>2, TimesAgree
  <2> QED
    BY <2>1, <2>2, <2>3 DEF Timed
<1>18. g[N] \in Seq({0, 1})
  <2>1. N \in 0..N
    BY <1>1
  <2> QED
    BY <1>10, <2>1 DEF P
<1> QED
  BY <1>9, <1>13, <1>14, <1>16, <1>17, <1>18, <1>19 DEF M, N

-----------------------------------------------------------------------------
(* What the operations make of the video sections *)

LEMMA SnapBelow ==
  /\ \A t \in Int : Snapped(t) \in Int
  /\ \A t \in Nat : Snapped(t) \in Nat /\ Snapped(t) <= t
<1>1. Snap \in Nat \ {0}
  BY SnapAssumption
<1>2. ASSUME NEW t \in Int
      PROVE  Snapped(t) \in Int /\ (t >= 0 => Snapped(t) >= 0 /\ Snapped(t) <= t)
  <2> DEFINE q == t \div Snap
             r == t % Snap
  <2>1. q \in Int /\ r \in 0..(Snap - 1) /\ t = Snap * q + r
    BY <1>1
  <2>2. Snapped(t) = q * Snap
    BY DEF Snapped
  <2> HIDE DEF q, r
  <2>3. q * Snap \in Int /\ q * Snap = Snap * q
    BY <1>1, <2>1
  <2>4. ASSUME t >= 0 PROVE q >= 0
    <3>1. CASE q >= 0
      BY <3>1
    <3>2. CASE q <= -1
      <4>1. Snap * q <= -Snap
        BY <1>1, <2>1, <3>2
      <4> QED
        BY <1>1, <2>1, <2>4, <2>3, <4>1
    <3> QED
      BY <2>1, <3>1, <3>2
  <2>5. ASSUME t >= 0 PROVE Snap * q >= 0
    BY <1>1, <2>1, <2>4, <2>5
  <2> QED
    BY <1>1, <2>1, <2>2, <2>3, <2>5
<1> QED
  BY <1>2

(* A list of playable sections, of those there are and new ones.           *)
LEMMA PlayableSplice ==
  ASSUME NEW n, NEW secs, Playable(secs, n), NEW new, Playable(new, n),
         NEW i \in Nat, NEW m \in Nat, 1 <= i, i + m <= Len(secs) + 1
  PROVE  Playable(Splice(secs, i, m, new), n)
         /\ Len(Splice(secs, i, m, new)) = Len(secs) - m + Len(new)
<1> DEFINE T == SectionsOn(n)
           r == Splice(secs, i, m, new)
<1>1. secs \in Seq(T) /\ new \in Seq(T) /\ Len(secs) \in Nat /\ Len(new) \in Nat
      /\ (\A k \in 1..Len(secs) : Plays(secs[k])) /\ (\A k \in 1..Len(new) : Plays(new[k]))
  BY PlayableRuns DEF Playable
<1> HIDE DEF T
<1>2. /\ r \in Seq(T)
      /\ Len(r) = Len(secs) - m + Len(new)
      /\ \A k \in 1..(i - 1) : r[k] = secs[k]
      /\ \A k \in 1..Len(new) : r[i - 1 + k] = new[k]
      /\ \A k \in (i + m)..Len(secs) : r[k - m + Len(new)] = secs[k]
  <2>1. r \in Seq(T) /\ SplicedTo(secs, i, m, new, r)
    BY <1>1, Spliced
  <2> HIDE DEF r
  <2> QED
    BY <2>1 DEF SplicedTo
<1> HIDE DEF r
<1>3. ASSUME NEW k \in 1..Len(r) PROVE Plays(r[k])
  <2>1. CASE k <= i - 1
    <3>1. k \in 1..(i - 1) /\ k \in 1..Len(secs)
      BY <1>1, <2>1
    <3> QED
      BY <1>1, <1>2, <3>1
  <2>2. CASE i <= k /\ k <= i - 1 + Len(new)
    <3> DEFINE j == k - i + 1
    <3>1. j \in 1..Len(new) /\ i - 1 + j = k
      BY <1>1, <2>2
    <3> HIDE DEF j
    <3>2. r[i - 1 + j] = new[j] /\ Plays(new[j])
      BY <1>1, <1>2, <3>1
    <3> QED
      BY <3>1, <3>2
  <2>3. CASE i + Len(new) <= k
    <3> DEFINE j == k + m - Len(new)
    <3>1. j \in (i + m)..Len(secs) /\ j - m + Len(new) = k /\ j \in 1..Len(secs)
      BY <1>1, <1>2, <2>3
    <3> HIDE DEF j
    <3>2. r[j - m + Len(new)] = secs[j] /\ Plays(secs[j])
      BY <1>1, <1>2, <3>1
    <3> QED
      BY <3>1, <3>2
  <2> QED
    BY <1>1, <1>2, <2>1, <2>2, <2>3
<1> QED
  BY <1>2, <1>3 DEF Playable, r, T

LEMMA PlayableGrows ==
  ASSUME NEW n \in Nat, NEW m \in Nat, n <= m, NEW secs, Playable(secs, n)
  PROVE  Playable(secs, m)
<1>1. secs \in Seq(SectionsOn(n)) /\ Len(secs) \in Nat /\ DOMAIN secs = 1..Len(secs)
  BY PlayableRuns
<1>2. ASSUME NEW i \in 1..Len(secs) PROVE secs[i] \in SectionsOn(m)
  <2> DEFINE x == secs[i]
             o == x.over
  <2>1. x \in SectionsOn(n)
    BY <1>1, ElementOfSeq
  <2> HIDE DEF x
  <2>2. Len(o) \in Nat /\ DOMAIN o = 1..Len(o) /\ (\A k \in 1..Len(o) : o[k] \in 1..n)
        /\ o \in Seq(1..n)
    BY <2>1, SectionFields
  <2> HIDE DEF o
  <2>3. \A k \in 1..Len(o) : o[k] \in 1..m
    BY <2>2
  <2>4. o \in [1..Len(o) -> 1..m]
    BY <2>2, <2>3
  <2>5. o \in Seq(1..m)
    BY <2>2, <2>4, ListOf
  <2>6. x.over \in Seq(1..m)
    BY <2>5 DEF o
  <2> QED
    BY <2>1, <2>6 DEF SectionsOn, x
<1>3. secs \in [1..Len(secs) -> SectionsOn(m)]
  BY <1>1, <1>2
<1>4. secs \in Seq(SectionsOn(m))
  BY <1>1, <1>3, ListOf
<1> QED
  BY <1>4 DEF Playable

LEMMA NoneAndOnePlay ==
  ASSUME NEW n
  PROVE  /\ Playable(<<>>, n)
         /\ \A x \in SectionsOn(n) : Plays(x) => Playable(<<x>>, n)
<1>1. Playable(<<>>, n)
  BY DEF Playable
<1>2. ASSUME NEW x \in SectionsOn(n), Plays(x) PROVE Playable(<<x>>, n)
  <2> DEFINE s == <<x>>
  <2>1. s \in Seq(SectionsOn(n)) /\ Len(s) = 1 /\ s[1] = x
    OBVIOUS
  <2> HIDE DEF s
  <2>2. Playable(s, n)
    BY <1>2, <2>1 DEF Playable
  <2> QED
    BY <2>2 DEF s
<1> QED
  BY <1>1, <1>2

(* The parts of a cut play what the section did, one after the other.      *)
LEMMA HalvesPlay ==
  ASSUME NEW n, NEW x \in SectionsOn(n), Plays(x), NEW t \in Int, x.start < t, t < x.end
  PROVE  LET l == LeftPart(x, t)
             r == RightPart(x, t)
         IN /\ l \in SectionsOn(n) /\ Plays(l) /\ r \in SectionsOn(n) /\ Plays(r)
            /\ l.start = x.start /\ l.end = t /\ r.start = t /\ r.end = x.end
            /\ Duration(l) + Duration(r) = Duration(x)
<1> DEFINE l == LeftPart(x, t)
           r == RightPart(x, t)
<1>1. x.start \in Int /\ x.end \in Int /\ x.vstart \in Int /\ SourceTime[x.src] \in Nat
      /\ Duration(x) = x.end - x.start
  BY SectionFields
<1>2. 0 <= x.end - x.start /\ x.vstart + (x.end - x.start) <= SourceTime[x.src]
  BY <1>1 DEF Plays
<1>3. l \in SectionsOn(n) /\ l.start = x.start /\ l.end = t /\ l.vstart = x.vstart /\ l.src = x.src
  BY <1>1 DEF LeftPart, SectionsOn
<1>4. r \in SectionsOn(n) /\ r.start = t /\ r.end = x.end /\ r.vstart = x.vstart + (t - x.start)
      /\ r.src = x.src
  <2> DEFINE v == x.vstart + (t - x.start)
  <2>1. r = [x EXCEPT !.start = t, !.vstart = v]
    BY DEF RightPart
  <2>2. v \in Int
    BY <1>1
  <2> HIDE DEF v, r
  <2>3. r \in SectionsOn(n) /\ r.start = t /\ r.end = x.end /\ r.vstart = v /\ r.src = x.src
    BY <1>1, <2>1, <2>2 DEF SectionsOn
  <2> QED
    BY <2>3 DEF v
<1> HIDE DEF l, r
<1>5. Duration(l) = t - x.start /\ Duration(r) = x.end - t
  BY <1>3, <1>4 DEF Duration
<1>6. Plays(l)
  BY <1>1, <1>2, <1>3, <1>5 DEF Plays
<1>7. Plays(r)
  BY <1>1, <1>2, <1>4, <1>5 DEF Plays
<1> QED
  BY <1>1, <1>3, <1>4, <1>5, <1>6, <1>7 DEF l, r

(* What is told as the length of a video is its length.                    *)
LEMMA TimeIsTold ==
  ASSUME NEW secs, Runs(secs), NEW g \in [0..Len(secs) -> Int], g[0] = 0,
         \A i \in 1..Len(secs) : g[i] = g[i - 1] + Duration(secs[i])
  PROVE  VideoTime(secs) = g[Len(secs)]
<1>1. Len(secs) \in Nat
  BY DEF Runs
<1>2. ASSUME NEW i \in 0..Len(secs)
      PROVE  g[i] = IF i = 0 THEN 0 ELSE g[i - 1] + Duration(secs[i])
  <2>1. i # 0 => i \in 1..Len(secs)
    BY <1>1
  <2> QED
    BY <2>1
<1>3. g = [i \in 0..Len(secs) |-> g[i]]
  OBVIOUS
<1>4. Sums(secs, g)
  BY <1>2, <1>3 DEF Sums
<1> QED
  BY <1>4, TimeIsLastSum

(* Sections that stay where they are make the same video.                  *)
LEMMA SamePlaces ==
  ASSUME NEW n, NEW s, Playable(s, n), NEW m, NEW t, Playable(t, m), Len(s) = Len(t),
         \A i \in 1..Len(s) : s[i].start = t[i].start /\ s[i].end = t[i].end
  PROVE  VideoTime(t) = VideoTime(s) /\ (Chained(s) => Chained(t))
<1>1. Runs(s) /\ s \in Seq(SectionsOn(n)) /\ t \in Seq(SectionsOn(m)) /\ Len(s) \in Nat
  BY PlayableRuns
<1>2. \A i \in 1..Len(s) : Duration(s[i]) = Duration(t[i])
  BY DEF Duration
<1>3. PICK f : Timed(s, f)
  BY <1>1, TimesExist
<1>4. Timed(t, f)
  BY <1>1, <1>2, <1>3, TimesAgree
<1>5. VideoTime(t) = VideoTime(s)
  BY <1>3, <1>4 DEF Timed
<1>6. ASSUME Chained(s) PROVE Chained(t)
  <2>1. ASSUME NEW i \in 1..Len(t) PROVE t[i].start = IF i = 1 THEN 0 ELSE t[i - 1].end
    <3>1. i \in 1..Len(s) /\ (i # 1 => i - 1 \in 1..Len(s))
      BY <1>1
    <3> QED
      BY <1>6, <3>1 DEF Chained
  <2> QED
    BY <2>1 DEF Chained
<1> QED
  BY <1>5, <1>6

(* A cut does not change the length of the video.                          *)
LEMMA CutKeepsTime ==
  ASSUME NEW n, NEW secs, Playable(secs, n), NEW i \in 1..Len(secs),
         NEW l \in SectionsOn(n), Plays(l), NEW r \in SectionsOn(n), Plays(r),
         Duration(l) + Duration(r) = Duration(secs[i])
  PROVE  /\ Playable(Splice(secs, i, 1, <<l, r>>), n)
         /\ VideoTime(Splice(secs, i, 1, <<l, r>>)) = VideoTime(secs)
<1> DEFINE two == <<l, r>>
           c == Splice(secs, i, 1, two)
           N == Len(secs)
<1>1. N \in Nat /\ secs \in Seq(SectionsOn(n)) /\ Runs(secs)
  BY PlayableRuns
<1>2. two \in Seq(SectionsOn(n)) /\ Len(two) = 2 /\ two[1] = l /\ two[2] = r
  OBVIOUS
<1> HIDE DEF two
<1>3. Playable(two, n)
  <2>1. ASSUME NEW k \in 1..2 PROVE Plays(two[k])
    <3>1. k = 1 \/ k = 2
      OBVIOUS
    <3> QED
      BY <1>2, <3>1
  <2> QED
    BY <1>2, <2>1 DEF Playable
<1>4. i \in Nat /\ 1 \in Nat /\ 1 <= i /\ i + 1 <= Len(secs) + 1
  BY <1>1
<1>5. Playable(c, n) /\ Len(c) = N + 1
  <2>1. Playable(c, n) /\ Len(c) = Len(secs) - 1 + Len(two)
    BY <1>3, <1>4, PlayableSplice
  <2> QED
    BY <1>1, <1>2, <2>1
<1>6. /\ \A k \in 1..(i - 1) : c[k] = secs[k]
      /\ \A k \in 1..2 : c[i - 1 + k] = two[k]
      /\ \A k \in (i + 1)..N : c[k - 1 + 2] = secs[k]
  <2> DEFINE T == SectionsOn(n)
  <2>1. secs \in Seq(T) /\ two \in Seq(T)
    BY <1>1, <1>2
  <2> HIDE DEF T
  <2>2. SplicedTo(secs, i, 1, two, c)
    BY <1>4, <2>1, Spliced
  <2> HIDE DEF c
  <2> QED
    BY <1>2, <2>2 DEF SplicedTo
<1>7. PICK f : Timed(secs, f)
  BY <1>1, TimesExist
<1> HIDE DEF c
<1>8. c[i] = l /\ c[i + 1] = r
  <2>1. 1 \in 1..2 /\ 2 \in 1..2 /\ i - 1 + 1 = i /\ i - 1 + 2 = i + 1
    BY <1>4
  <2>2. c[i - 1 + 1] = l /\ c[i - 1 + 2] = r
    BY <1>2, <1>6, <2>1
  <2> QED
    BY <2>1, <2>2
<1> DEFINE g == [k \in 0..(N + 1) |-> IF k < i THEN f[k]
                                      ELSE IF k = i THEN f[i - 1] + Duration(l) ELSE f[k - 1]]
<1>9. f \in [0..N -> Int] /\ f[0] = 0 /\ \A k \in 1..N : f[k] = f[k - 1] + Duration(secs[k])
  BY <1>7 DEF Timed
<1>10. Duration(l) \in Int /\ Duration(r) \in Int
  BY SectionFields
<1>11. Runs(c)
  BY <1>5, PlayableRuns
<1> HIDE DEF N
<1>12. g \in [0..(N + 1) -> Int]
  <2>1. ASSUME NEW k \in 0..(N + 1) PROVE g[k] \in Int
    <3>1. CASE k < i
      <4>1. k \in 0..N
        BY <1>1, <1>4, <3>1 DEF N
      <4> QED
        BY <1>9, <3>1, <4>1
    <3>2. CASE k = i
      <4>1. i - 1 \in 0..N /\ ~(k < i)
        BY <1>1, <1>4, <3>2 DEF N
      <4>2. f[i - 1] \in Int
        BY <1>9, <4>1
      <4> QED
        BY <1>10, <3>2, <4>1, <4>2
    <3>3. CASE k > i
      <4>1. k - 1 \in 0..N /\ ~(k < i) /\ k # i
        BY <1>1, <1>4, <3>3 DEF N
      <4>2. f[k - 1] \in Int
        BY <1>9, <4>1
      <4> QED
        BY <4>1, <4>2
    <3> QED
      BY <1>4, <3>1, <3>2, <3>3
  <2> QED
    BY <2>1
<1>13. g[0] = 0
  BY <1>1, <1>4, <1>9
<1>14. ASSUME NEW k \in 1..(N + 1) PROVE g[k] = g[k - 1] + Duration(c[k])
  <2>1. CASE k < i
    <3>1. k \in 1..(i - 1) /\ k \in 1..N /\ k - 1 < i /\ k - 1 \in 0..(N + 1) /\ k \in 0..(N + 1)
      BY <1>1, <1>4, <2>1 DEF N
    <3>2. c[k] = secs[k] /\ f[k] = f[k - 1] + Duration(secs[k])
      BY <1>6, <1>9, <3>1
    <3> QED
      BY <2>1, <3>1, <3>2
  <2>2. CASE k = i
    <3>1. k - 1 < i /\ k - 1 \in 0..(N + 1) /\ k \in 0..(N + 1) /\ ~(k < i)
      BY <1>1, <1>4, <2>2 DEF N
    <3>2. g[k - 1] = f[i - 1] /\ g[k] = f[i - 1] + Duration(l)
      BY <2>2, <3>1
    <3> QED
      BY <1>8, <2>2, <3>2
  <2>3. CASE k = i + 1
    <3>1. k - 1 = i /\ i \in 0..(N + 1) /\ k \in 0..(N + 1) /\ ~(i < i) /\ ~(k < i) /\ k # i
          /\ i \in 1..N
      BY <1>1, <1>4, <2>3 DEF N
    <3>2. g[k - 1] = f[i - 1] + Duration(l) /\ g[k] = f[i]
      BY <3>1
    <3>3. f[i] = f[i - 1] + Duration(secs[i]) /\ f[i - 1] \in Int
      <4>1. i - 1 \in 0..N
        BY <1>1, <3>1
      <4> QED
        BY <1>9, <3>1, <4>1
    <3>4. Duration(l) + Duration(r) = Duration(secs[i])
      OBVIOUS
    <3> QED
      BY <1>8, <1>10, <2>3, <3>2, <3>3, <3>4
  <2>4. CASE k > i + 1
    <3> DEFINE j == k - 1
    <3>1. j \in (i + 1)..N /\ j \in 1..N /\ j - 1 + 2 = k /\ k \in 0..(N + 1) /\ k - 1 \in 0..(N + 1)
          /\ ~(k < i) /\ k # i /\ ~(k - 1 < i) /\ k - 1 # i
      BY <1>1, <1>4, <2>4 DEF N
    <3>2. g[k] = f[j] /\ g[k - 1] = f[j - 1]
      BY <3>1
    <3> HIDE DEF j, g
    <3>3. c[j - 1 + 2] = secs[j] /\ f[j] = f[j - 1] + Duration(secs[j])
      BY <1>6, <1>9, <3>1
    <3> QED
      BY <3>1, <3>2, <3>3
  <2>5. k \in Int /\ i \in Int
    BY <1>4
  <2> QED
    BY <2>1, <2>2, <2>3, <2>4, <2>5
<1>15. VideoTime(c) = g[N + 1]
  <2> HIDE DEF g
  <2> QED
    BY <1>5, <1>11, <1>12, <1>13, <1>14, TimeIsTold
<1>16. g[N + 1] = f[N]
  <2> DEFINE M == N + 1
  <2>1. M \in 0..(N + 1) /\ ~(M < i) /\ M # i /\ M - 1 = N
    BY <1>1, <1>4 DEF N
  <2> HIDE DEF M
  <2>2. g[M] = f[M - 1]
    BY <2>1
  <2> QED
    BY <2>1, <2>2 DEF M
<1>17. VideoTime(secs) = f[N]
  BY <1>7 DEF Timed, N
<1> QED
  BY <1>5, <1>15, <1>16, <1>17 DEF c, two

-----------------------------------------------------------------------------
(* What the operations make of the audio sections *)

(* splice at one index takes out that section.                             *)
LEMMA OneIsOut ==
  ASSUME NEW S, NEW s \in Seq(S), NEW i \in 1..Len(s)
  PROVE  LET r == Splice(s, i, 1, <<>>) IN
         /\ r \in Seq(S) /\ Len(r) = Len(s) - 1 /\ Len(s) \in Nat
         /\ \A k \in 1..(i - 1) : r[k] = s[k]
         /\ \A k \in i..(Len(s) - 1) : r[k] = s[k + 1]
<1> DEFINE r == Splice(s, i, 1, <<>>)
           none == <<>>
<1>1. Len(s) \in Nat
  OBVIOUS
<1>2. i \in Nat /\ 1 \in Nat /\ 1 <= i /\ i + 1 <= Len(s) + 1
  BY <1>1
<1>3. none \in Seq(S) /\ Len(none) = 0
  OBVIOUS
<1>4. r = Splice(s, i, 1, none)
  OBVIOUS
<1> HIDE DEF none, r
<1>5. r \in Seq(S) /\ SplicedTo(s, i, 1, none, r)
  BY <1>2, <1>3, <1>4, Spliced
<1>6. Len(r) = Len(s) - 1
  BY <1>1, <1>3, <1>5 DEF SplicedTo
<1>7. \A k \in 1..(i - 1) : r[k] = s[k]
  BY <1>5 DEF SplicedTo
<1>8. ASSUME NEW k \in i..(Len(s) - 1) PROVE r[k] = s[k + 1]
  <2> DEFINE j == k + 1
  <2>1. j \in (i + 1)..Len(s) /\ j - 1 + 0 = k
    BY <1>1, <1>2
  <2> HIDE DEF j
  <2>2. r[j - 1 + 0] = s[j]
    BY <1>3, <1>5, <2>1 DEF SplicedTo
  <2> QED
    BY <2>1, <2>2 DEF j
<1> QED
  BY <1>1, <1>5, <1>6, <1>7, <1>8 DEF r

LEMMA WithoutAudible ==
  ASSUME NEW auds, NEW v, Audible(auds, v), NEW i
  PROVE  Audible(Without(auds, i), v)
<1>1. auds \in Seq(AudioSections) /\ Len(auds) \in Nat /\ DOMAIN auds = 1..Len(auds)
  BY AudioSection DEF Audible
<1>2. CASE i \notin 1..Len(auds)
  BY <1>1, <1>2 DEF Without
<1>3. CASE i \in 1..Len(auds)
  <2> DEFINE r == Splice(auds, i, 1, <<>>)
             N == Len(auds)
             T == AudioSections
  <2>1. Without(auds, i) = r
    BY <1>1, <1>3 DEF Without
  <2>a. auds \in Seq(T) /\ i \in 1..Len(auds)
    BY <1>1, <1>3
  <2> HIDE DEF T
  <2>2. /\ r \in Seq(T) /\ Len(r) = N - 1
        /\ \A k \in 1..(i - 1) : r[k] = auds[k]
        /\ \A k \in i..(N - 1) : r[k] = auds[k + 1]
    BY <2>a, OneIsOut
  <2> HIDE DEF r, N
  <2> DEFINE old(k) == IF k < i THEN k ELSE k + 1
  <2>3. ASSUME NEW k \in 1..(N - 1) PROVE r[k] = auds[old(k)] /\ old(k) \in 1..N
    <3>1. CASE k < i
      <4>1. k \in 1..(i - 1)
        BY <1>1, <2>a, <3>1
      <4> QED
        BY <1>1, <2>2, <3>1, <4>1 DEF N
    <3>2. CASE ~(k < i)
      <4>1. k \in i..(N - 1) /\ k + 1 \in 1..N
        BY <1>1, <2>a, <3>2 DEF N
      <4> QED
        BY <2>2, <3>2, <4>1
    <3> QED
      BY <3>1, <3>2
  <2>4. ASSUME NEW k \in 1..(N - 1), NEW m \in 1..(N - 1), k < m PROVE old(k) < old(m)
    BY <2>a, <2>4
  <2> HIDE DEF old
  <2>5. ASSUME NEW k \in 1..(N - 1) PROVE Sounding(r[k], v)
    BY <2>3 DEF Audible, N
  <2>6. ASSUME NEW k \in 1..(N - 1), NEW m \in 1..(N - 1), k < m PROVE r[k].end <= r[m].start
    <3>1. old(k) \in 1..N /\ old(m) \in 1..N /\ old(k) < old(m)
      BY <2>3, <2>4, <2>6
    <3>2. auds[old(k)].end <= auds[old(m)].start
      BY <3>1 DEF Audible, N
    <3> QED
      BY <2>3, <3>2
  <2>7. Audible(r, v)
    BY <2>2, <2>5, <2>6 DEF Audible, T
  <2> QED
    BY <2>1, <2>7
<1> QED
  BY <1>2, <1>3

(* audioOverlaps of the others asks each of them.                          *)
LEMMA ClearOfOthers ==
  ASSUME audios \in Seq(AudioSections), NEW i \in 1..Len(audios), NEW a,
         ~Overlaps(a, Others(i)), NEW j \in 1..Len(audios), j # i
  PROVE  ~(a.start < audios[j].end /\ audios[j].start < a.end)
<1> DEFINE r == Others(i)
           T == AudioSections
<1>a. audios \in Seq(T) /\ r = Splice(audios, i, 1, <<>>)
  BY DEF Others
<1> HIDE DEF T, r
<1>1. /\ r \in Seq(T) /\ Len(r) = Len(audios) - 1 /\ Len(audios) \in Nat
      /\ \A k \in 1..(i - 1) : r[k] = audios[k]
      /\ \A k \in i..(Len(audios) - 1) : r[k] = audios[k + 1]
  BY <1>a, OneIsOut
<1>2. DOMAIN r = 1..(Len(audios) - 1)
  BY <1>1
<1>3. \E k \in DOMAIN r : r[k] = audios[j]
  <2>1. CASE j < i
    <3>1. j \in 1..(i - 1) /\ j \in 1..(Len(audios) - 1)
      BY <1>1, <2>1
    <3> QED
      BY <1>1, <1>2, <3>1
  <2>2. CASE j > i
    <3> DEFINE k == j - 1
    <3>1. k \in i..(Len(audios) - 1) /\ k \in 1..(Len(audios) - 1) /\ k + 1 = j
      BY <1>1, <2>2
    <3> HIDE DEF k
    <3>2. r[k] = audios[j]
      BY <1>1, <3>1
    <3> QED
      BY <1>2, <3>1, <3>2
  <2> QED
    BY <1>1, <2>1, <2>2
<1>4. ~Overlaps(a, r)
  BY DEF r
<1> QED
  BY <1>3, <1>4 DEF Overlaps

(* A section that is set where it is clear of the others.                  *)
LEMMA SetSeparate ==
  ASSUME NEW auds, NEW v, Audible(auds, v), NEW i \in 1..Len(auds),
         NEW a \in AudioSections, Sounding(a, v),
         \A j \in 1..Len(auds) : j # i => ~(a.start < auds[j].end /\ auds[j].start < a.end)
  PROVE  LET r == [auds EXCEPT ![i] = a] IN
         /\ Separate(r) /\ Len(r) = Len(auds) /\ \A j \in 1..Len(r) : Sounding(r[j], v)
         /\ a.start = auds[i].start => Audible(r, v)
<1> DEFINE r == [auds EXCEPT ![i] = a]
           N == Len(auds)
<1>1. auds \in Seq(AudioSections) /\ N \in Nat /\ DOMAIN auds = 1..N
      /\ \A j \in 1..N : auds[j] \in AudioSections
  BY AudioSection DEF Audible
<1>2. Separate(auds)
  BY AudibleSeparate
<1>3. \A j \in 1..N : r[j] = IF j = i THEN a ELSE auds[j]
  BY <1>1
<1>4. r \in Seq(AudioSections) /\ Len(r) = N
  <2>1. r \in [1..N -> AudioSections]
    <3> HIDE DEF N
    <3> QED
      BY <1>1
  <2> HIDE DEF r
  <2> QED
    BY <1>1, <2>1, ListOf
<1> HIDE DEF r
<1>5. a.start \in Int /\ a.end \in Int /\ a.start < a.end
  <2>1. a.start \in Int /\ a.end \in Int
    BY DEF AudioSections
  <2>2. Snap <= a.end - a.start
    BY DEF Sounding, Duration
  <2> QED
    BY <2>1, <2>2, SnapAssumption
<1>6. \A j \in 1..N : /\ auds[j].start \in Int /\ auds[j].end \in Int
                      /\ auds[j].start < auds[j].end
  BY <1>1, <1>2, AudioSection DEF Separate
<1>7. ASSUME NEW j \in 1..N PROVE Sounding(r[j], v) /\ r[j].start < r[j].end
  BY <1>3, <1>5, <1>6 DEF Audible
<1>8. ASSUME NEW j \in 1..N, j # i PROVE a.end <= auds[j].start \/ auds[j].end <= a.start
  <2>1. ~(a.start < auds[j].end /\ auds[j].start < a.end)
    BY <1>8
  <2> QED
    BY <1>5, <1>6, <2>1
<1>9. ASSUME NEW j \in 1..N, NEW k \in 1..N, j # k
      PROVE  r[j].end <= r[k].start \/ r[k].end <= r[j].start
  <2>1. CASE j = i
    BY <1>3, <1>8, <1>9, <2>1
  <2>2. CASE k = i
    BY <1>3, <1>8, <1>9, <2>2
  <2>3. CASE j # i /\ k # i
    BY <1>2, <1>3, <1>9, <2>3 DEF Separate
  <2> QED
    BY <2>1, <2>2, <2>3
<1>10. Separate(r)
  BY <1>4, <1>7, <1>9 DEF Separate
<1>11. ASSUME a.start = auds[i].start PROVE Audible(r, v)
  <2>1. ASSUME NEW j \in 1..N, NEW k \in 1..N, j < k PROVE r[j].end <= r[k].start
    <3>0. auds[j].end <= auds[k].start
      BY <2>1 DEF Audible
    <3>1. CASE j = i
      <4>1. k # i /\ auds[i].start < auds[i].end /\ auds[i].end <= auds[k].start
        BY <1>6, <2>1, <3>0, <3>1
      <4>2. a.end <= auds[k].start \/ auds[k].end <= a.start
        BY <1>8, <4>1
      <4>3. auds[k].start < auds[k].end
        BY <1>6
      <4>4. a.end <= auds[k].start
        BY <1>5, <1>6, <1>11, <4>1, <4>2, <4>3
      <4> QED
        BY <1>3, <3>1, <4>1, <4>4
    <3>2. CASE k = i
      <4>1. j # i
        BY <2>1, <3>2
      <4> QED
        BY <1>3, <1>11, <3>0, <3>2, <4>1
    <3>3. CASE j # i /\ k # i
      BY <1>3, <3>0, <3>3
    <3> QED
      BY <3>1, <3>2, <3>3
  <2> QED
    BY <1>4, <1>7, <2>1 DEF Audible
<1> QED
  BY <1>4, <1>7, <1>10, <1>11 DEF r

(* A section that is added where it is clear of the others.                *)
LEMMA AddSeparate ==
  ASSUME NEW auds, NEW v, Audible(auds, v), NEW a \in AudioSections, Sounding(a, v),
         ~Overlaps(a, auds)
  PROVE  Separate(Append(auds, a))
         /\ \A j \in 1..Len(Append(auds, a)) : Sounding(Append(auds, a)[j], v)
<1> DEFINE r == Append(auds, a)
           N == Len(auds)
<1>1. auds \in Seq(AudioSections) /\ N \in Nat /\ DOMAIN auds = 1..N
  BY AudioSection DEF Audible
<1>2. r \in Seq(AudioSections) /\ Len(r) = N + 1 /\ r[N + 1] = a
      /\ \A j \in 1..N : r[j] = auds[j]
  <2> DEFINE T == AudioSections
  <2>1. auds \in Seq(T) /\ a \in T
    BY <1>1
  <2> HIDE DEF T
  <2>2. r \in Seq(T) /\ Len(r) = N + 1 /\ r[N + 1] = a /\ \A j \in 1..N : r[j] = auds[j]
    BY <2>1
  <2> QED
    BY <2>2 DEF T
<1> HIDE DEF r
<1>3. Separate(auds)
  BY AudibleSeparate
<1>4. a.start \in Int /\ a.end \in Int /\ a.start < a.end
  <2>1. a.start \in Int /\ a.end \in Int
    BY DEF AudioSections
  <2>2. Snap <= a.end - a.start
    BY DEF Sounding, Duration
  <2> QED
    BY <2>1, <2>2, SnapAssumption
<1>5. \A j \in 1..N : auds[j].start \in Int /\ auds[j].end \in Int
  BY <1>1, AudioSection
<1>6. ASSUME NEW j \in 1..N PROVE a.end <= auds[j].start \/ auds[j].end <= a.start
  <2>1. ~(a.start < auds[j].end /\ auds[j].start < a.end)
    BY <1>1 DEF Overlaps
  <2> QED
    BY <1>4, <1>5, <2>1
<1> HIDE DEF N
<1>7. ASSUME NEW j \in 1..(N + 1)
      PROVE  Sounding(r[j], v) /\ r[j].start < r[j].end /\ (j \in 1..N \/ j = N + 1)
  <2>1. j \in 1..N \/ j = N + 1
    BY <1>1 DEF N
  <2>2. \A k \in 1..N : Sounding(auds[k], v) /\ auds[k].start < auds[k].end
    BY <1>3 DEF Audible, Separate, N
  <2> QED
    BY <1>2, <1>4, <2>1, <2>2
<1>8. ASSUME NEW j \in 1..(N + 1), NEW k \in 1..(N + 1), j # k
      PROVE  r[j].end <= r[k].start \/ r[k].end <= r[j].start
  <2>1. CASE j \in 1..N /\ k \in 1..N
    BY <1>2, <1>3, <1>8, <2>1 DEF Separate, N
  <2>2. CASE j = N + 1 /\ k \in 1..N
    BY <1>2, <1>6, <2>2
  <2>3. CASE k = N + 1 /\ j \in 1..N
    BY <1>2, <1>6, <2>3
  <2> QED
    BY <1>7, <1>8, <2>1, <2>2, <2>3
<1>9. Separate(r)
  BY <1>2, <1>7, <1>8 DEF Separate
<1> QED
  BY <1>2, <1>7, <1>9 DEF r

(* The halves of a cut sound one after the other.                          *)
LEMMA CutSeparate ==
  ASSUME NEW auds, NEW v, Audible(auds, v), NEW i \in 1..Len(auds), NEW t \in Int,
         auds[i].start < t, t < auds[i].end
  PROVE  Separate(Splice(auds, i, 1,
           <<LeftPart(auds[i], t),
             [auds[i] EXCEPT !.start = t, !.astart = @ + (t - auds[i].start)]>>))
<1> DEFINE a == auds[i]
           l == LeftPart(a, t)
           as == a.astart + (t - a.start)
           r == [a EXCEPT !.start = t, !.astart = as]
           two == <<l, r>>
           c == Splice(auds, i, 1, two)
           N == Len(auds)
           T == AudioSections
<1>1. auds \in Seq(T) /\ N \in Nat
      /\ \A j \in 1..N : auds[j] \in T /\ auds[j].start \in Int /\ auds[j].end \in Int
  BY AudioSection DEF Audible
<1>2. Separate(auds)
  BY AudibleSeparate
<1>3. a \in T /\ a.start \in Int /\ a.end \in Int /\ a.astart \in Int /\ a.start < t /\ t < a.end
      /\ as \in Int
  BY <1>1 DEF AudioSections
<1> HIDE DEF a, as
<1>4. l \in T /\ l.start = a.start /\ l.end = t
  BY <1>3 DEF LeftPart, AudioSections
<1>5. r \in T /\ r.start = t /\ r.end = a.end
  BY <1>3 DEF AudioSections
<1> HIDE DEF T, l, r
<1>6. two \in Seq(T) /\ Len(two) = 2 /\ two[1] = l /\ two[2] = r
  BY <1>4, <1>5
<1> HIDE DEF two
<1>7. i \in Nat /\ 1 \in Nat /\ 1 <= i /\ i + 1 <= Len(auds) + 1
  BY <1>1
<1>8. c \in Seq(T) /\ SplicedTo(auds, i, 1, two, c)
  BY <1>1, <1>6, <1>7, Spliced
<1> HIDE DEF c, N
<1>9. /\ Len(c) = N + 1
      /\ \A k \in 1..(i - 1) : c[k] = auds[k]
      /\ \A k \in 1..2 : c[i - 1 + k] = two[k]
      /\ \A k \in (i + 1)..N : c[k - 1 + 2] = auds[k]
  BY <1>1, <1>6, <1>8 DEF SplicedTo, N
<1>10. c[i] = l /\ c[i + 1] = r
  <2>1. 1 \in 1..2 /\ 2 \in 1..2 /\ i - 1 + 1 = i /\ i - 1 + 2 = i + 1
    BY <1>7
  <2>2. c[i - 1 + 1] = l /\ c[i - 1 + 2] = r
    BY <1>6, <1>9, <2>1
  <2> QED
    BY <2>1, <2>2
<1> DEFINE old(k) == IF k <= i THEN k ELSE k - 1
<1>11. ASSUME NEW k \in 1..(N + 1)
       PROVE  /\ old(k) \in 1..N /\ c[k].start \in Int /\ c[k].end \in Int /\ c[k].start < c[k].end
              /\ auds[old(k)].start <= c[k].start /\ c[k].end <= auds[old(k)].end
  <2>0. i \in 1..N /\ i \in Int /\ N \in Int
    BY <1>1, <1>7 DEF N
  <2>1. CASE k = i
    <3>1. old(k) = i /\ auds[old(k)] = a
      BY <2>0, <2>1 DEF a
    <3> HIDE DEF old
    <3> QED
      BY <1>3, <1>4, <1>10, <2>0, <2>1, <3>1
  <2>2. CASE k = i + 1
    <3>1. old(k) = i /\ auds[old(k)] = a
      BY <2>0, <2>2 DEF a
    <3> HIDE DEF old
    <3> QED
      BY <1>3, <1>5, <1>10, <2>0, <2>2, <3>1
  <2>3. CASE k < i
    <3>1. old(k) = k /\ k \in 1..(i - 1) /\ k \in 1..N
      BY <2>0, <2>3
    <3> HIDE DEF old
    <3>2. c[k] = auds[k] /\ auds[k].start < auds[k].end
          /\ auds[k].start \in Int /\ auds[k].end \in Int
      BY <1>1, <1>2, <1>9, <3>1 DEF Separate, N
    <3> QED
      BY <3>1, <3>2
  <2>4. CASE k > i + 1
    <3>1. old(k) = k - 1 /\ k - 1 \in (i + 1)..N /\ k - 1 \in 1..N /\ k - 1 - 1 + 2 = k
      BY <2>0, <2>4
    <3> DEFINE j == k - 1
    <3> HIDE DEF old, j
    <3>2. c[j - 1 + 2] = auds[j] /\ auds[j].start < auds[j].end
          /\ auds[j].start \in Int /\ auds[j].end \in Int
      BY <1>1, <1>2, <1>9, <3>1 DEF Separate, N, j
    <3>3. old(k) = j /\ j \in 1..N /\ j - 1 + 2 = k
      BY <3>1 DEF j
    <3> QED
      BY <3>2, <3>3
  <2> QED
    BY <2>0, <2>1, <2>2, <2>3, <2>4
<1>12. ASSUME NEW k \in 1..(N + 1), NEW m \in 1..(N + 1), k < m PROVE c[k].end <= c[m].start
  <2>0. i \in Int
    BY <1>7
  <2>1. old(k) < old(m) \/ (k = i /\ m = i + 1)
    BY <1>12, <2>0
  <2>2. CASE k = i /\ m = i + 1
    <3>1. c[k].end = t /\ c[m].start = t
      BY <1>4, <1>5, <1>10, <2>2
    <3> QED
      BY <3>1
  <2> HIDE DEF old
  <2>3. CASE old(k) < old(m)
    <3>1. auds[old(k)].end <= auds[old(m)].start
      BY <1>11, <2>3 DEF Audible, N
    <3>2. /\ auds[old(k)].end \in Int /\ auds[old(m)].start \in Int
          /\ c[k].end \in Int /\ c[m].start \in Int
          /\ c[k].end <= auds[old(k)].end /\ auds[old(m)].start <= c[m].start
      BY <1>1, <1>11
    <3> QED
      BY <3>1, <3>2
  <2> QED
    BY <2>1, <2>2, <2>3
<1>13. ASSUME NEW k \in 1..(N + 1), NEW m \in 1..(N + 1), k # m
       PROVE  c[k].end <= c[m].start \/ c[m].end <= c[k].start
  <2>1. k < m \/ m < k
    BY <1>13
  <2> QED
    BY <1>12, <2>1
<1>14. Separate(c)
  BY <1>8, <1>9, <1>11, <1>13 DEF Separate, T
<1>15. c = Splice(auds, i, 1, <<LeftPart(auds[i], t),
             [auds[i] EXCEPT !.start = t, !.astart = @ + (t - auds[i].start)]>>)
  BY DEF c, two, l, r, as, a
<1> QED
  BY <1>14, <1>15

-----------------------------------------------------------------------------
(* The invariant of the store *)

(* The video sections are a chain that shows n overlays at most, and the   *)
(* audio sections sound under it.                                          *)
Fitting(secs, auds, n) ==
  Playable(secs, n) /\ Chained(secs) /\ Audible(auds, VideoTime(secs))

Selections == sel \in Int /\ asel \in Int /\ osel \in Int \X Int

StoreInvariant ==
  Pictured /\ Fitting(sections, audios, Len(overlays)) /\ Selections

LEMMA StoreFacts ==
  ASSUME StoreInvariant
  PROVE  /\ Pictured /\ Len(overlays) \in Nat
         /\ Playable(sections, Len(overlays)) /\ Chained(sections)
         /\ Audible(audios, VideoTime(sections)) /\ Separate(audios)
         /\ VideoTime(sections) \in Nat /\ Points \subseteq Nat
         /\ sections \in Seq(SectionsOn(Len(overlays)))
         /\ Len(sections) \in Nat /\ DOMAIN sections = 1..Len(sections)
         /\ \A i \in 1..Len(sections) :
              sections[i] \in SectionsOn(Len(overlays)) /\ Plays(sections[i])
         /\ audios \in Seq(AudioSections) /\ Len(audios) \in Nat
         /\ DOMAIN audios = 1..Len(audios)
         /\ \A i \in 1..Len(audios) : audios[i] \in AudioSections
         /\ sel \in Int /\ asel \in Int /\ osel \in Int \X Int
<1>1. /\ Pictured /\ Playable(sections, Len(overlays)) /\ Chained(sections)
      /\ Audible(audios, VideoTime(sections))
      /\ sel \in Int /\ asel \in Int /\ osel \in Int \X Int
  BY DEF StoreInvariant, Fitting, Selections
<1>2. Len(overlays) \in Nat
  <2>1. overlays \in Seq({0, 1})
    BY <1>1 DEF Pictured
  <2> QED
    BY <2>1, LenProperties
<1>3. VideoTime(sections) \in Nat
  BY <1>1, RippleChains
<1>4. Points \subseteq Nat
  BY <1>3 DEF Points
<1>5. sections \in Seq(SectionsOn(Len(overlays))) /\ Len(sections) \in Nat
      /\ DOMAIN sections = 1..Len(sections)
  BY <1>1, PlayableRuns
<1>6. \A i \in 1..Len(sections) :
        sections[i] \in SectionsOn(Len(overlays)) /\ Plays(sections[i])
  <2>1. \A i \in 1..Len(sections) : sections[i] \in SectionsOn(Len(overlays))
    BY <1>5, ElementOfSeq
  <2> QED
    BY <1>1, <2>1 DEF Playable
<1>7. audios \in Seq(AudioSections)
  BY <1>1 DEF Audible
<1>8. Len(audios) \in Nat /\ DOMAIN audios = 1..Len(audios)
      /\ \A i \in 1..Len(audios) : audios[i] \in AudioSections
  BY <1>7, AudioSection
<1>9. Separate(audios)
  BY <1>1, AudibleSeparate
<1> QED
  BY <1>1, <1>2, <1>3, <1>4, <1>5, <1>6, <1>7, <1>8, <1>9

(* What a selection becomes is null or an index.                           *)
LEMMA ReselectedIsIndex ==
  ASSUME NEW auds \in Seq(AudioSections), NEW v, NEW i
  PROVE  Reselected(auds, v, i) \in Nat
<1>1. Len(auds) \in Nat /\ DOMAIN auds = 1..Len(auds)
  BY AudioSection
<1> DEFINE T == {j \in Survivors(auds, v) : j <= i}
<1>2. T \subseteq 1..Len(auds)
  BY <1>1 DEF Survivors
<1>3. IsFiniteSet(1..Len(auds))
  <2>1. 1 \in Int /\ Len(auds) \in Int
    BY <1>1
  <2> QED
    BY <2>1, FS_Interval
<1> HIDE DEF T
<1>4. IsFiniteSet(T)
  BY <1>2, <1>3, FS_Subset
<1>5. Cardinality(T) \in Nat
  BY <1>4, FS_CardinalityType
<1> QED
  BY <1>5 DEF Reselected, T, Null

(* The calls that every change of the video ends with.                     *)
LEMMA SettleFits ==
  ASSUME StoreInvariant, NEW secs, NEW n, Playable(secs, n), Settle(secs)
  PROVE  Fitting(sections', audios', n) /\ asel' \in Int
<1> DEFINE v == VideoTime(secs)
<1>1. Playable(Ripple(secs), n) /\ Chained(Ripple(secs)) /\ VideoTime(Ripple(secs)) = v /\ v \in Nat
  BY RippleChains
<1>2. Separate(audios) /\ DOMAIN audios = 1..Len(audios) /\ Len(audios) \in Nat
  BY StoreFacts
<1>3. sections' = Ripple(secs) /\ audios' = Clamped(audios, v) /\ asel' = Reselected(audios, v, asel)
  BY DEF Settle
<1> HIDE DEF v
<1>4. v \in Int
  BY <1>1
<1>5. Audible(Clamped(audios, v), v)
  BY <1>2, <1>4, ClampedAudible
<1>6. Fitting(sections', audios', n)
  BY <1>1, <1>3, <1>5 DEF Fitting
<1>7. Reselected(audios, v, asel) \in Int
  <2>1. audios \in Seq(AudioSections)
    BY StoreFacts
  <2> QED
    BY <2>1, ReselectedIsIndex
<1> QED
  BY <1>3, <1>6, <1>7

LEMMA PlayableAppend ==
  ASSUME NEW n, NEW secs, Playable(secs, n), NEW x \in SectionsOn(n), Plays(x)
  PROVE  Playable(Append(secs, x), n)
<1> DEFINE T == SectionsOn(n)
           r == Append(secs, x)
<1>1. secs \in Seq(T) /\ x \in T /\ Len(secs) \in Nat
  BY PlayableRuns
<1> HIDE DEF T
<1>2. r \in Seq(T) /\ Len(r) = Len(secs) + 1 /\ r[Len(secs) + 1] = x
      /\ \A j \in 1..Len(secs) : r[j] = secs[j]
  BY <1>1
<1> HIDE DEF r
<1>3. ASSUME NEW j \in 1..Len(r) PROVE Plays(r[j])
  <2>1. j \in 1..Len(secs) \/ j = Len(secs) + 1
    BY <1>1, <1>2
  <2> QED
    BY <1>2, <2>1 DEF Playable
<1> QED
  BY <1>2, <1>3 DEF Playable, r, T

LEMMA PlayableSet ==
  ASSUME NEW n, NEW secs, Playable(secs, n), NEW i \in 1..Len(secs),
         NEW x \in SectionsOn(n), Plays(x), NEW r, r = [secs EXCEPT ![i] = x]
  PROVE  Playable(r, n) /\ Len(r) = Len(secs)
<1> DEFINE T == SectionsOn(n)
           N == Len(secs)
<1>1. secs \in Seq(T) /\ x \in T /\ N \in Nat /\ DOMAIN secs = 1..N
      /\ \A j \in 1..N : secs[j] \in T /\ Plays(secs[j])
  <2>1. secs \in Seq(T) /\ x \in T /\ N \in Nat /\ DOMAIN secs = 1..N
    BY PlayableRuns
  <2> QED
    BY <2>1, ElementOfSeq DEF Playable
<1> HIDE DEF T
<1>2. \A j \in 1..N : r[j] = IF j = i THEN x ELSE secs[j]
  BY <1>1
<1>3. r \in [1..N -> T]
  <2> HIDE DEF N
  <2> QED
    BY <1>1
<1>4. r \in Seq(T) /\ Len(r) = N
  BY <1>1, <1>3, ListOf
<1>5. \A j \in 1..N : Plays(r[j])
  BY <1>1, <1>2
<1> QED
  BY <1>4, <1>5 DEF Playable, T

LEMMA PlayableWithout ==
  ASSUME NEW n, NEW secs, Playable(secs, n), NEW i
  PROVE  /\ Playable(Without(secs, i), n)
         /\ i \in 1..Len(secs) => Len(Without(secs, i)) = Len(secs) - 1
<1>1. Len(secs) \in Nat /\ DOMAIN secs = 1..Len(secs)
  BY PlayableRuns
<1>2. CASE i \notin 1..Len(secs)
  BY <1>1, <1>2 DEF Without
<1>3. CASE i \in 1..Len(secs)
  <2> DEFINE none == <<>>
  <2>1. Playable(none, n) /\ Len(none) = 0
    BY NoneAndOnePlay
  <2>2. Without(secs, i) = Splice(secs, i, 1, none)
    BY <1>1, <1>3 DEF Without
  <2> HIDE DEF none
  <2>3. i \in Nat /\ 1 \in Nat /\ 1 <= i /\ i + 1 <= Len(secs) + 1
    BY <1>1, <1>3
  <2> DEFINE r == Splice(secs, i, 1, none)
  <2>4. Playable(r, n) /\ Len(r) = Len(secs) - 1 + Len(none)
    BY <2>1, <2>3, PlayableSplice
  <2> HIDE DEF r
  <2>5. Len(r) = Len(secs) - 1
    BY <1>1, <2>1, <2>4
  <2> QED
    BY <2>2, <2>4, <2>5 DEF r
<1> QED
  BY <1>2, <1>3

LEMMA WholePlays ==
  ASSUME NEW v \in Videos, NEW n
  PROVE  Whole(v) \in SectionsOn(n) /\ Plays(Whole(v))
<1> DEFINE e == Snapped(SourceTime[v])
           none == <<>>
           x == Whole(v)
<1>1. SourceTime[v] \in Nat
  BY SourceAssumption
<1>2. e \in Nat /\ e <= SourceTime[v]
  BY <1>1, SnapBelow
<1>3. none \in Seq(1..n)
  OBVIOUS
<1>4. x = [start |-> 0, end |-> e, vstart |-> 0, src |-> v, over |-> none, effects |-> 0]
  BY DEF Whole
<1> HIDE DEF e, none, x
<1>5. x \in SectionsOn(n) /\ x.start = 0 /\ x.end = e /\ x.vstart = 0 /\ x.src = v
  BY <1>2, <1>3, <1>4 DEF SectionsOn
<1>6. Duration(x) = e
  BY <1>2, <1>5 DEF Duration
<1>7. Plays(x)
  BY <1>1, <1>2, <1>5, <1>6 DEF Plays
<1> QED
  BY <1>5, <1>7 DEF x

LEMMA AddVideoFits ==
  ASSUME StoreInvariant, NEW v \in Videos, AddVideoSection(v)
  PROVE  StoreInvariant'
<1>1. Playable(Append(sections, Whole(v)), Len(overlays))
  BY StoreFacts, WholePlays, PlayableAppend
<1>2. Settle(Append(sections, Whole(v))) /\ sel' = Len(sections) + 1 /\ osel' = osel
      /\ overlays' = overlays
  BY DEF AddVideoSection, looks
<1>3. Fitting(sections', audios', Len(overlays)) /\ asel' \in Int
  BY <1>1, <1>2, SettleFits
<1>4. Pictured' /\ Len(overlays)' = Len(overlays)
  BY <1>2, StoreFacts DEF Pictured
<1>5. Selections'
  BY <1>2, <1>3, StoreFacts DEF Selections
<1> QED
  BY <1>3, <1>4, <1>5 DEF StoreInvariant

(* A section y is put before the i-th.                                     *)
Put(secs, i, y, r) ==
  /\ i \in 1..(Len(secs) + 1) /\ Len(r) = Len(secs) + 1
  /\ \A k \in 1..(i - 1) : r[k] = secs[k]
  /\ r[i] = y
  /\ \A k \in i..Len(secs) : r[k + 1] = secs[k]

(* The i-th section is cut at t.                                           *)
Halved(secs, i, t, r) ==
  /\ i \in 1..Len(secs) /\ t \in Int /\ secs[i].start < t /\ t < secs[i].end
  /\ Len(r) = Len(secs) + 1
  /\ \A k \in 1..(i - 1) : r[k] = secs[k]
  /\ r[i] = LeftPart(secs[i], t) /\ r[i + 1] = RightPart(secs[i], t)
  /\ \A k \in (i + 1)..Len(secs) : r[k + 1] = secs[k]

(* A cut makes two sections of one.                                        *)
LEMMA HalvedPlays ==
  ASSUME NEW n, NEW secs, Playable(secs, n), NEW i \in 1..Len(secs), NEW t \in Int,
         secs[i].start < t, t < secs[i].end
  PROVE  LET h == Splice(secs, i, 1, <<LeftPart(secs[i], t), RightPart(secs[i], t)>>)
         IN Playable(h, n) /\ Halved(secs, i, t, h)
<1> DEFINE x == secs[i]
           l == LeftPart(x, t)
           r == RightPart(x, t)
           two == <<l, r>>
           h == Splice(secs, i, 1, two)
           T == SectionsOn(n)
<1>1. secs \in Seq(T) /\ Len(secs) \in Nat /\ x \in T /\ Plays(x)
  <2>1. secs \in Seq(T) /\ Len(secs) \in Nat
    BY PlayableRuns
  <2> QED
    BY <2>1, ElementOfSeq DEF Playable
<1> HIDE DEF x
<1>2. l \in T /\ Plays(l) /\ r \in T /\ Plays(r)
  BY <1>1, HalvesPlay DEF x
<1> HIDE DEF T, l, r
<1>3. two \in Seq(T) /\ Len(two) = 2 /\ two[1] = l /\ two[2] = r
  BY <1>2
<1> HIDE DEF two
<1>4. Playable(two, n)
  <2>1. ASSUME NEW k \in 1..2 PROVE Plays(two[k])
    <3>1. k = 1 \/ k = 2
      OBVIOUS
    <3> QED
      BY <1>2, <1>3, <3>1
  <2> QED
    BY <1>3, <2>1 DEF Playable, T
<1>5. i \in Nat /\ 1 \in Nat /\ 1 <= i /\ i + 1 <= Len(secs) + 1
  BY <1>1
<1>6. Playable(h, n)
  BY <1>4, <1>5, PlayableSplice
<1>7. SplicedTo(secs, i, 1, two, h)
  BY <1>1, <1>3, <1>5, Spliced
<1> HIDE DEF h
<1>8. /\ Len(h) = Len(secs) - 1 + 2 /\ \A k \in 1..(i - 1) : h[k] = secs[k]
      /\ \A k \in 1..2 : h[i - 1 + k] = two[k]
      /\ \A k \in (i + 1)..Len(secs) : h[k - 1 + 2] = secs[k]
  BY <1>3, <1>7 DEF SplicedTo
<1>9. h[i] = l /\ h[i + 1] = r /\ Len(h) = Len(secs) + 1
  <2>1. h[i - 1 + 1] = two[1] /\ h[i - 1 + 2] = two[2]
    BY <1>8
  <2> QED
    BY <1>1, <1>3, <1>5, <1>8, <2>1
<1>10. \A k \in (i + 1)..Len(secs) : h[k + 1] = secs[k]
  BY <1>1, <1>8
<1>11. Halved(secs, i, t, h)
  BY <1>8, <1>9, <1>10 DEF Halved, l, r, x
<1> QED
  BY <1>6, <1>11 DEF h, two, l, r, x

LEMMA AppendIsPut ==
  ASSUME NEW n, NEW secs, Playable(secs, n), NEW y \in SectionsOn(n), Plays(y)
  PROVE  Playable(Append(secs, y), n) /\ Put(secs, Len(secs) + 1, y, Append(secs, y))
<1> DEFINE T == SectionsOn(n)
<1>1. secs \in Seq(T) /\ y \in T /\ Len(secs) \in Nat
  BY PlayableRuns
<1> HIDE DEF T
<1>2. Put(secs, Len(secs) + 1, y, Append(secs, y))
  BY <1>1 DEF Put
<1> QED
  BY <1>2, PlayableAppend

(* What insertSectionAtMillis inserts is put before a section, or between  *)
(* the halves of one.                                                      *)
LEMMA InsertForm ==
  ASSUME StoreInvariant, NEW t0 \in Int, NEW n \in Nat, Len(overlays) <= n,
         NEW new \in SectionsOn(n), Plays(new), InsertSectionAt(t0, new)
  PROVE  \E h, r, j :
           /\ Playable(h, n) /\ Playable(r, n) /\ Put(h, j, new, r) /\ Settle(r)
           /\ \/ h = sections /\ cut' = cut
              \/ \E i, t : Halved(sections, i, t, h) /\ cut' = (cut \/ sections[i].over # <<>>)
<1> DEFINE t == Snapped(t0)
           later == {i \in DOMAIN sections : t < sections[i].end \/ t <= sections[i].start}
           i == CHOOSE j \in later : \A k \in later : j <= k
           x == sections[i]
           inside == later # {} /\ t > x.start
           inserted ==
             IF later = {} THEN Append(sections, new)
             ELSE IF inside THEN Splice(sections, i, 1, <<LeftPart(x, t), new, RightPart(x, t)>>)
             ELSE Splice(sections, i, 0, <<new>>)
<1>1. Settle(inserted) /\ IF inside THEN CutIn(x) ELSE UNCHANGED cut
  BY DEF InsertSectionAt
<1>2. t \in Int
  BY SnapBelow
<1>3. Playable(sections, n) /\ Len(sections) \in Nat /\ DOMAIN sections = 1..Len(sections)
  BY StoreFacts, PlayableGrows
<1>4. ASSUME later # {}
      PROVE  i \in later /\ i \in 1..Len(sections) /\ i \in Nat /\ 1 <= i
             /\ x \in SectionsOn(n) /\ Plays(x) /\ (t < x.end \/ t <= x.start)
  <2>1. later \subseteq Nat
    BY <1>3
  <2>2. i \in later
    <3> HIDE DEF later
    <3>1. \E j \in later : \A k \in later : j <= k
      BY <1>4, <2>1, LeastOf
    <3> QED
      BY <3>1
  <2>3. i \in 1..Len(sections) /\ (t < x.end \/ t <= x.start)
    BY <1>3, <2>2
  <2> HIDE DEF i, t
  <2>4. sections \in Seq(SectionsOn(n))
    BY <1>3, PlayableRuns
  <2>5. x \in SectionsOn(n) /\ Plays(x)
    BY <1>3, <2>3, <2>4, ElementOfSeq DEF Playable
  <2> QED
    BY <1>3, <2>2, <2>3, <2>5
<1> HIDE DEF t, later, i
<1>5. CASE later = {}
  <2> DEFINE r == Append(sections, new)
  <2>1. Playable(r, n) /\ Put(sections, Len(sections) + 1, new, r)
    BY <1>3, AppendIsPut
  <2>3. Settle(r) /\ cut' = cut
    BY <1>1, <1>5
  <2> HIDE DEF r
  <2> QED
    BY <1>3, <2>1, <2>3
<1>6. CASE later # {} /\ ~inside
  <2> DEFINE one == <<new>>
             r == Splice(sections, i, 0, one)
  <2>1. Playable(one, n)
    BY NoneAndOnePlay
  <2>2. i \in Nat /\ 0 \in Nat /\ 1 <= i /\ i + 0 <= Len(sections) + 1
    BY <1>3, <1>4, <1>6
  <2>3. Len(one) = 1 /\ one[1] = new
    OBVIOUS
  <2>4. Settle(r) /\ cut' = cut
    BY <1>1, <1>6
  <2> HIDE DEF one, x
  <2>5. Playable(r, n)
    BY <1>3, <2>1, <2>2, PlayableSplice
  <2>6. SplicedTo(sections, i, 0, one, r)
    <3>1. sections \in Seq(SectionsOn(n)) /\ one \in Seq(SectionsOn(n))
      BY <1>3, <2>1, PlayableRuns
    <3> QED
      BY <2>2, <3>1, Spliced
  <2> HIDE DEF r
  <2>7. /\ Len(r) = Len(sections) - 0 + 1 /\ \A k \in 1..(i - 1) : r[k] = sections[k]
        /\ \A k \in 1..1 : r[i - 1 + k] = one[k]
        /\ \A k \in (i + 0)..Len(sections) : r[k - 0 + 1] = sections[k]
    BY <2>3, <2>6 DEF SplicedTo
  <2>8. r[i] = new
    <3>1. r[i - 1 + 1] = one[1]
      BY <2>7
    <3> QED
      BY <2>2, <2>3, <3>1
  <2>9. Put(sections, i, new, r)
    BY <1>3, <2>2, <2>7, <2>8 DEF Put
  <2> QED
    BY <1>3, <2>4, <2>5, <2>9
<1>7. CASE inside
  <2> DEFINE l == LeftPart(x, t)
             rr == RightPart(x, t)
             three == <<l, new, rr>>
             r == Splice(sections, i, 1, three)
             h == Splice(sections, i, 1, <<l, rr>>)
             N == Len(sections)
  <2>1. x \in SectionsOn(n) /\ Plays(x) /\ x.start < t /\ t < x.end
    <3>1. x \in SectionsOn(n) /\ Plays(x) /\ (t < x.end \/ t <= x.start) /\ t > x.start
      BY <1>4, <1>7
    <3>2. x.start \in Int
      BY <3>1, SectionFields
    <3> QED
      BY <1>2, <3>1, <3>2
  <2>2. Playable(h, n) /\ Halved(sections, i, t, h)
    BY <1>2, <1>3, <1>4, <1>7, <2>1, HalvedPlays
  <2>3. Settle(r) /\ cut' = (cut \/ sections[i].over # <<>>)
    BY <1>1, <1>7 DEF CutIn
  <2>4. i \in Nat /\ 1 \in Nat /\ 1 <= i /\ i + 1 <= N + 1 /\ N \in Nat
    BY <1>3, <1>4, <1>7
  <2>5. h[i] = l /\ h[i + 1] = rr
    BY <2>2 DEF Halved
  <2> HIDE DEF h
  <2>6. l \in SectionsOn(n) /\ Plays(l) /\ rr \in SectionsOn(n) /\ Plays(rr)
    BY <1>2, <2>1, HalvesPlay
  <2> HIDE DEF l, rr, x
  <2>7. three \in Seq(SectionsOn(n)) /\ Len(three) = 3 /\ three[1] = l /\ three[2] = new
        /\ three[3] = rr
    BY <2>6
  <2> HIDE DEF three
  <2>8. Playable(three, n)
    <3>1. ASSUME NEW k \in 1..3 PROVE Plays(three[k])
      <4>1. k = 1 \/ k = 2 \/ k = 3
        OBVIOUS
      <4> QED
        BY <2>6, <2>7, <4>1
    <3> QED
      BY <2>7, <3>1 DEF Playable
  <2>9. Playable(r, n) /\ SplicedTo(sections, i, 1, three, r)
    <3>1. sections \in Seq(SectionsOn(n))
      BY <1>3, PlayableRuns
    <3> QED
      BY <1>3, <2>4, <2>7, <2>8, <3>1, PlayableSplice, Spliced
  <2> HIDE DEF r
  <2>10. /\ Len(r) = N - 1 + 3 /\ \A k \in 1..(i - 1) : r[k] = sections[k]
         /\ \A k \in 1..3 : r[i - 1 + k] = three[k]
         /\ \A k \in (i + 1)..N : r[k - 1 + 3] = sections[k]
    BY <2>7, <2>9 DEF SplicedTo
  <2>11. r[i] = l /\ r[i + 1] = new /\ r[i + 2] = rr
    <3>1. r[i - 1 + 1] = three[1] /\ r[i - 1 + 2] = three[2] /\ r[i - 1 + 3] = three[3]
      BY <2>10
    <3> QED
      BY <2>4, <2>7, <3>1
  <2>12. /\ Len(h) = N + 1 /\ \A k \in 1..(i - 1) : h[k] = sections[k]
         /\ \A k \in (i + 1)..N : h[k + 1] = sections[k]
    BY <2>2 DEF Halved
  <2> HIDE DEF N
  <2>13. ASSUME NEW k \in 1..(i + 1 - 1) PROVE r[k] = h[k]
    <3>1. k \in 1..(i - 1) \/ k = i
      BY <2>4
    <3> QED
      BY <2>5, <2>10, <2>11, <2>12, <3>1
  <2>14. ASSUME NEW k \in (i + 1)..Len(h) PROVE r[k + 1] = h[k]
    <3>1. CASE k = i + 1
      BY <2>4, <2>5, <2>11, <3>1
    <3>2. CASE k # i + 1
      <4>1. k - 1 \in (i + 1)..N /\ k \in Int
        BY <2>4, <2>12, <3>2
      <4>2. r[k - 1 - 1 + 3] = sections[k - 1] /\ h[k - 1 + 1] = sections[k - 1]
        BY <2>10, <2>12, <4>1
      <4>3. k - 1 - 1 + 3 = k + 1 /\ k - 1 + 1 = k
        BY <4>1
      <4> QED
        BY <4>2, <4>3
    <3> QED
      BY <3>1, <3>2
  <2>15. Put(h, i + 1, new, r)
    <3>1. i + 1 \in 1..(Len(h) + 1) /\ Len(r) = Len(h) + 1
      BY <2>4, <2>10, <2>12
    <3> HIDE DEF inserted, inside
    <3>2. \A k \in 1..(i + 1 - 1) : r[k] = h[k]
      BY <2>13
    <3>3. \A k \in (i + 1)..Len(h) : r[k + 1] = h[k]
      BY <2>14
    <3> DEFINE j == i + 1
    <3>4. r[j] = new
      BY <2>11
    <3> HIDE DEF j
    <3>a. j = i + 1
      BY DEF j
    <3>b. j \in 1..(Len(h) + 1) /\ Len(r) = Len(h) + 1
      BY <3>1, <3>a
    <3>c. \A k \in 1..(j - 1) : r[k] = h[k]
      BY <2>4, <3>2, <3>a
    <3>d. \A k \in j..Len(h) : r[k + 1] = h[k]
      BY <2>4, <3>3, <3>a
    <3>6. Put(h, j, new, r)
      BY <3>4, <3>b, <3>c, <3>d DEF Put
    <3> QED
      BY <3>6 DEF j
  <2> QED
    BY <2>2, <2>3, <2>9, <2>15
<1> QED
  <2> HIDE DEF x
  <2> QED
    BY <1>5, <1>6, <1>7

(* An insertion, of a section whose overlays are among n.                  *)
LEMMA InsertFits ==
  ASSUME StoreInvariant, NEW t0 \in Int, NEW n \in Nat, Len(overlays) <= n,
         NEW new \in SectionsOn(n), Plays(new), InsertSectionAt(t0, new)
  PROVE  Fitting(sections', audios', n) /\ Selections'
<1>1. PICK r : Playable(r, n) /\ Settle(r)
  BY InsertForm
<1>2. Fitting(sections', audios', n) /\ asel' \in Int
  BY <1>1, SettleFits
<1> DEFINE t == Snapped(t0)
           later == {i \in DOMAIN sections : t < sections[i].end \/ t <= sections[i].start}
           i == CHOOSE j \in later : \A k \in later : j <= k
           inside == later # {} /\ t > sections[i].start
<1>3. /\ sel' = (IF later = {} THEN Len(sections) + 1 ELSE IF inside THEN i + 1 ELSE i)
      /\ osel' = NoOverlay
  BY DEF InsertSectionAt
<1>4. DOMAIN sections = 1..Len(sections) /\ Len(sections) \in Nat
  BY StoreFacts
<1>5. later # {} => i \in Nat
  <2>1. later \subseteq Nat
    BY <1>4
  <2> HIDE DEF later
  <2>2. later # {} => \E j \in later : \A k \in later : j <= k
    BY <2>1, LeastOf
  <2> QED
    BY <2>1, <2>2
<1> HIDE DEF later, i, inside
<1>6. sel' \in Int /\ osel' \in Int \X Int
  BY <1>3, <1>4, <1>5 DEF NoOverlay, Null
<1> QED
  BY <1>2, <1>6 DEF Selections

LEMMA InsertVideoFits ==
  ASSUME StoreInvariant, NEW v \in Videos, NEW t \in Points, InsertVideo(t, v)
  PROVE  StoreInvariant'
<1>1. overlays' = overlays /\ InsertSectionAt(t, Whole(v)) /\ t \in Int
  BY StoreFacts DEF InsertVideo
<1>2. Len(overlays) \in Nat /\ Len(overlays) <= Len(overlays)
  BY StoreFacts
<1>3. Fitting(sections', audios', Len(overlays)) /\ Selections'
  BY <1>1, <1>2, InsertFits, WholePlays
<1>4. Pictured' /\ Len(overlays)' = Len(overlays)
  BY <1>1, StoreFacts DEF Pictured
<1> QED
  BY <1>3, <1>4 DEF StoreInvariant

(* A paste inserts a section with as many new overlays as the copied one   *)
(* has.                                                                    *)
LEMMA PasteForm ==
  ASSUME StoreInvariant, NEW i \in DOMAIN sections, NEW t \in Points, PasteSection(t, sections[i])
  PROVE  \E m, y :
           /\ m \in Nat /\ y \in SectionsOn(Len(overlays) + m) /\ Plays(y) /\ InsertSectionAt(t, y)
           /\ y.over = [k \in 1..m |-> Len(overlays) + k]
           /\ overlays' = overlays \o Pictures(sections[i])
           /\ Pictured' /\ Len(overlays)' = Len(overlays) + m
<1> DEFINE x == sections[i]
           n == Len(overlays)
           m == Len(x.over)
           own == [k \in 1..m |-> n + k]
           d == Duration(x)
           y == [x EXCEPT !.start = 0, !.end = d, !.over = own]
<1>1. x \in SectionsOn(n) /\ Plays(x) /\ n \in Nat /\ t \in Int
  BY StoreFacts
<1>2. m \in Nat /\ DOMAIN x.over = 1..m /\ x.vstart \in Int /\ d \in Int
      /\ SourceTime[x.src] \in Nat
  BY <1>1, SectionFields
<1>3. overlays' = overlays \o Pictures(x) /\ InsertSectionAt(t, y)
  BY <1>2 DEF PasteSection
<1> HIDE DEF x, n, m, d
<1>4. own \in [1..m -> 1..(n + m)]
  BY <1>1, <1>2
<1> HIDE DEF own, y
<1>5. own \in Seq(1..(n + m))
  BY <1>2, <1>4, ListOf
<1>6. y \in SectionsOn(n + m) /\ y.start = 0 /\ y.end = d /\ y.vstart = x.vstart /\ y.src = x.src
      /\ y.over = own
  <2> DEFINE nm == n + m
             zero == 0
             z == [x EXCEPT !.start = zero, !.end = d]
  <2>1. own \in Seq(1..nm)
    BY <1>5
  <2>a. /\ x \in SectionsOn(n) /\ d \in Int /\ zero \in Int
        /\ z = [x EXCEPT !.start = zero, !.end = d]
    BY <1>1, <1>2
  <2>2. z \in SectionsOn(n) /\ z.start = zero /\ z.end = d /\ z.vstart = x.vstart /\ z.src = x.src
    <3> HIDE DEF z, zero
    <3> QED
      BY <2>a DEF SectionsOn
  <2>3. y = [z EXCEPT !.over = own]
    BY <1>1 DEF SectionsOn, y
  <2> HIDE DEF nm, z
  <2>4. y \in SectionsOn(nm) /\ y.start = z.start /\ y.end = z.end /\ y.vstart = z.vstart
        /\ y.src = z.src /\ y.over = own
    BY <2>1, <2>2, <2>3 DEF SectionsOn
  <2> QED
    BY <2>2, <2>4 DEF nm
<1>7. Plays(y)
  <2>1. Duration(y) = d
    BY <1>2, <1>6 DEF Duration
  <2>2. 0 <= d /\ x.vstart + d <= SourceTime[x.src]
    BY <1>1 DEF Plays, d
  <2> QED
    BY <1>6, <2>1, <2>2 DEF Plays
<1>8. Pictured' /\ Len(overlays)' = n + m
  <2> DEFINE q == Pictures(x)
  <2>1. q \in Seq({0, 1}) /\ Len(q) = m
    <3>1. x \in SectionsOn(Len(overlays)) /\ Pictured
      BY <1>1, StoreFacts DEF n
    <3> QED
      BY <3>1, PicturesOf DEF m
  <2>2. overlays \in Seq({0, 1}) /\ Len(overlays) = n
    BY StoreFacts DEF Pictured, n
  <2> HIDE DEF q
  <2>3. overlays \o q \in Seq({0, 1}) /\ Len(overlays \o q) = n + m
    BY <2>1, <2>2
  <2> QED
    BY <1>3, <2>3 DEF Pictured, q
<1> QED
  BY <1>2, <1>3, <1>6, <1>7, <1>8 DEF own, n, x

LEMMA PasteFits ==
  ASSUME StoreInvariant, NEW i \in DOMAIN sections, NEW t \in Points, PasteSection(t, sections[i])
  PROVE  StoreInvariant'
<1> DEFINE n == Len(overlays)
<1>1. PICK m, y :
        /\ m \in Nat /\ y \in SectionsOn(n + m) /\ Plays(y) /\ InsertSectionAt(t, y)
        /\ Pictured' /\ Len(overlays)' = n + m
  BY PasteForm
<1>2. n \in Nat /\ t \in Int
  BY StoreFacts
<1> HIDE DEF n
<1>3. n + m \in Nat /\ n <= n + m
  BY <1>1, <1>2
<1>4. Fitting(sections', audios', n + m) /\ Selections'
  BY <1>1, <1>2, <1>3, InsertFits DEF n
<1> QED
  BY <1>1, <1>4 DEF StoreInvariant

LEMMA RemoveFits ==
  ASSUME StoreInvariant, NEW i \in Int, RemoveSection(i)
  PROVE  StoreInvariant'
<1>1. /\ sel' = Shifted(sel, i) /\ overlays' = overlays /\ Settle(Without(sections, i))
      /\ osel' = IF i \in {sel, osel[1]} THEN NoOverlay ELSE <<Shifted(osel[1], i), osel[2]>>
  BY DEF RemoveSection, looks
<1>2. Playable(Without(sections, i), Len(overlays))
  BY StoreFacts, PlayableWithout
<1>3. Fitting(sections', audios', Len(overlays)) /\ asel' \in Int
  BY <1>1, <1>2, SettleFits
<1>4. Pictured' /\ Len(overlays)' = Len(overlays)
  BY <1>1, StoreFacts DEF Pictured
<1>5. \A j \in Int : Shifted(j, i) \in Int
  BY DEF Shifted, Null
<1>6. osel[1] \in Int /\ osel[2] \in Int /\ sel \in Int
  BY StoreFacts
<1>7. Selections'
  <2>1. osel' \in Int \X Int
    <3>1. CASE i \in {sel, osel[1]}
      BY <1>1, <3>1 DEF NoOverlay, Null
    <3>2. CASE i \notin {sel, osel[1]}
      <4>1. osel' = <<Shifted(osel[1], i), osel[2]>>
        BY <1>1, <3>2
      <4> QED
        BY <1>5, <1>6, <4>1
    <3> QED
      BY <3>1, <3>2
  <2>2. sel' \in Int
    BY <1>1, <1>5, <1>6
  <2> QED
    BY <1>3, <2>1, <2>2 DEF Selections
<1> QED
  BY <1>3, <1>4, <1>7 DEF StoreInvariant

LEMMA SplitFits ==
  ASSUME StoreInvariant, NEW i \in Int, NEW t \in Points, SplitSection(i, t)
  PROVE  StoreInvariant'
<1> DEFINE x == sections[i]
           l == LeftPart(x, t)
           r == RightPart(x, t)
           n == Len(overlays)
           c == Splice(sections, i, 1, <<l, r>>)
<1>1. /\ i \in DOMAIN sections /\ x.start < t /\ t < x.end /\ sections' = Ripple(c)
      /\ audios' = audios /\ overlays' = overlays /\ selection' = selection
  BY DEF SplitSection
<1>2. x \in SectionsOn(n) /\ Plays(x) /\ t \in Int /\ i \in 1..Len(sections)
      /\ Playable(sections, n)
  BY <1>1, StoreFacts
<1>3. /\ l \in SectionsOn(n) /\ Plays(l) /\ r \in SectionsOn(n) /\ Plays(r)
      /\ Duration(l) + Duration(r) = Duration(x)
  <2> HIDE DEF x
  <2> QED
    BY <1>1, <1>2, HalvesPlay
<1>4. Playable(c, n) /\ VideoTime(c) = VideoTime(sections)
  <2> HIDE DEF l, r
  <2> QED
    BY <1>2, <1>3, CutKeepsTime
<1> HIDE DEF c
<1>5. Playable(sections', n) /\ Chained(sections') /\ VideoTime(sections') = VideoTime(sections)
  BY <1>1, <1>4, RippleChains
<1>6. Fitting(sections', audios', n)
  BY <1>1, <1>5, StoreFacts DEF Fitting
<1>7. Pictured' /\ Len(overlays)' = n /\ Selections'
  BY <1>1, StoreFacts DEF Pictured, Selections, selection
<1> QED
  BY <1>6, <1>7 DEF StoreInvariant

(* A trim gives one section another window of its source.                  *)
TrimsTo(i, s) ==
  /\ i \in 1..Len(sections) /\ Len(s) = Len(sections)
  /\ \A j \in 1..Len(sections) : j # i => s[j] = sections[j]
  /\ s[i].over = sections[i].over
  /\ Playable(s, Len(overlays)) /\ Settle(s)
  /\ sel' = sel /\ osel' = osel /\ overlays' = overlays /\ cut' = cut

LEMMA TrimForm ==
  ASSUME StoreInvariant, NEW i \in DOMAIN sections, NEW vstart \in Int, NEW dur \in Int,
         Trim(i, vstart, dur)
  PROVE  \E s : TrimsTo(i, s)
<1> DEFINE x == sections[i]
           n == Len(overlays)
           b == x.start + dur
           y == [x EXCEPT !.vstart = vstart, !.end = b]
           s == [sections EXCEPT ![i].vstart = vstart, ![i].end = b]
<1>1. /\ dur >= Snap /\ vstart + dur <= SourceTime[x.src] /\ Settle(s)
      /\ sel' = sel /\ osel' = osel /\ overlays' = overlays /\ cut' = cut
  BY DEF Trim, looks
<1>2. x \in SectionsOn(n) /\ i \in 1..Len(sections) /\ Playable(sections, n)
  BY StoreFacts
<1>3. x.start \in Int /\ b \in Int /\ SourceTime[x.src] \in Nat
  BY <1>2, SectionFields
<1>4. s = [sections EXCEPT ![i] = y]
  BY StoreFacts
<1> HIDE DEF x, b, y, s
<1>5. y \in SectionsOn(n) /\ y.start = x.start /\ y.end = b /\ y.vstart = vstart /\ y.src = x.src
      /\ y.over = x.over
  BY <1>2, <1>3 DEF y, SectionsOn
<1>6. Plays(y)
  <2>1. Duration(y) = dur
    BY <1>3, <1>5 DEF Duration, b
  <2> QED
    BY <1>1, <1>3, <1>5, <2>1, SnapAssumption DEF Plays
<1>7. Playable(s, n) /\ Len(s) = Len(sections)
  <2> HIDE DEF n
  <2>1. Playable(s, n)
    BY <1>2, <1>4, <1>5, <1>6, PlayableSet
  <2>2. Len(s) = Len(sections)
    BY <1>2, <1>4, <1>5, <1>6, PlayableSet
  <2> QED
    BY <2>1, <2>2
<1>8. s[i] = y /\ \A j \in 1..Len(sections) : j # i => s[j] = sections[j]
  BY <1>2, <1>4, StoreFacts
<1>9. TrimsTo(i, s)
  BY <1>1, <1>2, <1>5, <1>7, <1>8 DEF TrimsTo, x
<1> QED
  BY <1>9

LEMMA VideoTrimForm ==
  ASSUME StoreInvariant, NEW i, NEW dur \in Int, NEW vstart \in Int,
         TrimStart(i, dur, vstart) \/ TrimEnd(i, dur)
  PROVE  \E s : TrimsTo(i, s)
<1>1. CASE TrimStart(i, dur, vstart)
  <2> DEFINE from == IF vstart < 0 THEN 0 ELSE Snapped(vstart)
  <2>1. i \in DOMAIN sections /\ Trim(i, from, Snapped(dur))
    BY <1>1 DEF TrimStart
  <2>2. from \in Int /\ Snapped(dur) \in Int
    BY SnapBelow
  <2> HIDE DEF from
  <2> QED
    BY <2>1, <2>2, TrimForm
<1>2. CASE TrimEnd(i, dur)
  <2>1. i \in DOMAIN sections /\ Trim(i, sections[i].vstart, Snapped(dur))
    BY <1>2 DEF TrimEnd
  <2>2. sections[i].vstart \in Int
    BY <2>1, StoreFacts, SectionFields
  <2>3. Snapped(dur) \in Int
    BY SnapBelow
  <2> QED
    BY <2>1, <2>2, <2>3, TrimForm
<1> QED
  BY <1>1, <1>2

LEMMA VideoTrimFits ==
  ASSUME StoreInvariant, NEW i, NEW s, TrimsTo(i, s)
  PROVE  StoreInvariant'
<1>1. /\ Playable(s, Len(overlays)) /\ Settle(s)
      /\ sel' = sel /\ osel' = osel /\ overlays' = overlays
  BY DEF TrimsTo
<1>2. Fitting(sections', audios', Len(overlays)) /\ asel' \in Int
  BY <1>1, SettleFits
<1>3. Pictured' /\ Len(overlays)' = Len(overlays) /\ Selections'
  BY <1>1, <1>2, StoreFacts DEF Pictured, Selections
<1> QED
  BY <1>2, <1>3 DEF StoreInvariant

(* A reorder takes one section out and puts it elsewhere.                  *)
Out(secs, i, w) ==
  /\ i \in 1..Len(secs) /\ Len(w) = Len(secs) - 1
  /\ \A k \in 1..(i - 1) : w[k] = secs[k]
  /\ \A k \in i..(Len(secs) - 1) : w[k] = secs[k + 1]

LEMMA WithoutForm ==
  ASSUME NEW n, NEW secs, Playable(secs, n), NEW i \in 1..Len(secs)
  PROVE  Playable(Without(secs, i), n) /\ Out(secs, i, Without(secs, i))
<1> DEFINE T == SectionsOn(n)
           w == Without(secs, i)
<1>1. secs \in Seq(T) /\ DOMAIN secs = 1..Len(secs)
  BY PlayableRuns
<1>2. w = Splice(secs, i, 1, <<>>)
  BY <1>1 DEF Without
<1> HIDE DEF T, w
<1>3. Out(secs, i, w)
  BY <1>1, <1>2, OneIsOut DEF Out
<1> QED
  BY <1>3, PlayableWithout DEF w

Reordered(from, at, w, s) ==
  /\ Out(sections, from, w) /\ Put(w, at, sections[from], s)
  /\ Playable(s, Len(overlays)) /\ Settle(s)
  /\ sel' = (IF sel = from THEN at ELSE sel)
  /\ osel' = osel /\ overlays' = overlays /\ cut' = cut

LEMMA ReorderForm ==
  ASSUME StoreInvariant, NEW from, NEW to, Reorder(from, to)
  PROVE  \E at, w, s : Reordered(from, at, w, s)
<1> DEFINE n == Len(overlays)
           at == IF to > from THEN to - 1 ELSE to
           w == Without(sections, from)
           one == <<sections[from]>>
           s == Splice(w, at, 0, one)
<1>1. /\ from # to /\ from \in DOMAIN sections /\ to \in 1..(Len(sections) + 1)
      /\ sel' = (IF sel = from THEN at ELSE sel) /\ osel' = osel /\ overlays' = overlays /\ cut' = cut
      /\ Settle(s)
  BY DEF Reorder, CanReorder, looks
<1>2. from \in 1..Len(sections) /\ Len(sections) \in Nat /\ Playable(sections, n)
      /\ sections[from] \in SectionsOn(n) /\ Plays(sections[from])
  BY <1>1, StoreFacts
<1>3. Playable(w, n) /\ Out(sections, from, w) /\ Len(w) = Len(sections) - 1
  <2>1. Playable(w, n) /\ Out(sections, from, w)
    BY <1>2, WithoutForm
  <2> QED
    BY <2>1 DEF Out
<1>4. Playable(one, n) /\ Len(one) = 1 /\ one[1] = sections[from]
  BY <1>2, NoneAndOnePlay
<1>5. at \in Nat /\ 0 \in Nat /\ 1 <= at /\ at + 0 <= Len(sections) - 1 + 1
  BY <1>1, <1>2
<1> HIDE DEF w, one, at
<1>6. Playable(s, n) /\ SplicedTo(w, at, 0, one, s)
  <2>1. w \in Seq(SectionsOn(n)) /\ one \in Seq(SectionsOn(n))
    BY <1>3, <1>4, PlayableRuns
  <2>2. at + 0 <= Len(w) + 1
    BY <1>3, <1>5
  <2> QED
    BY <1>3, <1>4, <1>5, <2>1, <2>2, PlayableSplice, Spliced
<1> HIDE DEF s
<1>7. Put(w, at, sections[from], s)
  <2>1. /\ Len(s) = Len(w) - 0 + 1 /\ \A k \in 1..(at - 1) : s[k] = w[k]
        /\ \A k \in 1..1 : s[at - 1 + k] = one[k]
        /\ \A k \in (at + 0)..Len(w) : s[k - 0 + 1] = w[k]
    BY <1>4, <1>6 DEF SplicedTo
  <2>2. s[at] = sections[from]
    <3>1. s[at - 1 + 1] = one[1]
      BY <2>1
    <3> QED
      BY <1>4, <1>5, <3>1
  <2>3. Len(w) \in Nat
    BY <1>2, <1>3
  <2> QED
    BY <1>3, <1>5, <2>1, <2>2, <2>3 DEF Put
<1>8. Reordered(from, at, w, s)
  BY <1>1, <1>3, <1>6, <1>7 DEF Reordered
<1> QED
  BY <1>8

LEMMA ReorderFits ==
  ASSUME StoreInvariant, NEW from, NEW at, NEW w, NEW s, Reordered(from, at, w, s)
  PROVE  StoreInvariant'
<1>1. /\ Playable(s, Len(overlays)) /\ Settle(s) /\ at \in 1..(Len(w) + 1)
      /\ sel' = (IF sel = from THEN at ELSE sel) /\ osel' = osel /\ overlays' = overlays
  BY DEF Reordered, Put
<1>2. Fitting(sections', audios', Len(overlays)) /\ asel' \in Int
  BY <1>1, SettleFits
<1>3. Pictured' /\ Len(overlays)' = Len(overlays)
  BY <1>1, StoreFacts DEF Pictured
<1>4. Selections'
  <2>1. at \in Int /\ sel \in Int
    BY <1>1, StoreFacts
  <2> QED
    BY <1>1, <1>2, <2>1, StoreFacts DEF Selections
<1> QED
  BY <1>2, <1>3, <1>4 DEF StoreInvariant

(* A section that looks different is where it was.                         *)
LEMMA LooksFit ==
  ASSUME StoreInvariant, NEW i \in 1..Len(sections), NEW n \in Nat, Len(overlays) <= n,
         NEW x \in SectionsOn(n), x.start = sections[i].start, x.end = sections[i].end,
         x.vstart = sections[i].vstart, x.src = sections[i].src
  PROVE  Fitting([sections EXCEPT ![i] = x], audios, n)
<1> DEFINE s == [sections EXCEPT ![i] = x]
<1>1. /\ Playable(sections, n) /\ Playable(sections, Len(overlays)) /\ Chained(sections)
      /\ Audible(audios, VideoTime(sections)) /\ Plays(sections[i])
      /\ DOMAIN sections = 1..Len(sections)
  BY StoreFacts, PlayableGrows
<1>2. Plays(x)
  BY <1>1 DEF Plays, Duration
<1>3. Playable(s, n) /\ Len(s) = Len(sections)
  <2>1. s = [sections EXCEPT ![i] = x]
    OBVIOUS
  <2>2. Playable(sections, n) /\ i \in 1..Len(sections) /\ x \in SectionsOn(n) /\ Plays(x)
    BY <1>1, <1>2
  <2> HIDE DEF s
  <2>3. Playable(s, n)
    BY <2>1, <2>2, PlayableSet
  <2>4. Len(s) = Len(sections)
    BY <2>1, <2>2, PlayableSet
  <2> QED
    BY <2>3, <2>4
<1>4. \A j \in 1..Len(sections) : sections[j].start = s[j].start /\ sections[j].end = s[j].end
  BY <1>1
<1> HIDE DEF s
<1>5. VideoTime(s) = VideoTime(sections) /\ Chained(s)
  BY <1>1, <1>3, <1>4, SamePlaces
<1> QED
  BY <1>1, <1>3, <1>5 DEF Fitting, s

LEMMA EffectsFit ==
  ASSUME StoreInvariant, NEW i, NEW v \in {0, 1}, SetEffects(i, v)
  PROVE  StoreInvariant'
<1> DEFINE x == sections[i]
           n == Len(overlays)
           y == [x EXCEPT !.effects = v]
<1>1. /\ i \in DOMAIN sections /\ sections' = [sections EXCEPT ![i].effects = v]
      /\ audios' = audios /\ selection' = selection /\ overlays' = overlays
  BY DEF SetEffects, looks
<1>2. x \in SectionsOn(n) /\ i \in 1..Len(sections) /\ n \in Nat /\ n <= n
  BY <1>1, StoreFacts
<1>3. sections' = [sections EXCEPT ![i] = y]
  BY <1>1, StoreFacts
<1>4. y \in SectionsOn(n) /\ y.start = x.start /\ y.end = x.end /\ y.vstart = x.vstart
      /\ y.src = x.src
  <2> HIDE DEF x
  <2> QED
    BY <1>2 DEF SectionsOn
<1> HIDE DEF y
<1>5. Fitting([sections EXCEPT ![i] = y], audios, n)
  BY <1>2, <1>4, LooksFit
<1>6. Fitting(sections', audios', n)
  BY <1>1, <1>3, <1>5
<1>7. Pictured' /\ Len(overlays)' = n /\ Selections'
  BY <1>1, StoreFacts DEF Pictured, Selections, selection
<1> QED
  BY <1>6, <1>7 DEF StoreInvariant

LEMMA AddOverlayFits ==
  ASSUME StoreInvariant, NEW i, AddOverlay(i)
  PROVE  StoreInvariant'
<1> DEFINE x == sections[i]
           n == Len(overlays)
           m == n + 1
           o == x.over
           p == Append(o, m)
           y == [x EXCEPT !.over = p]
<1>1. /\ i \in DOMAIN sections /\ sections' = [sections EXCEPT ![i].over = Append(@, m)]
      /\ overlays' = Append(overlays, 0) /\ audios' = audios /\ asel' = asel
      /\ sel' = i /\ osel' = <<i, Len(o) + 1>>
  BY DEF AddOverlay
<1>2. x \in SectionsOn(n) /\ i \in 1..Len(sections) /\ n \in Nat
  BY <1>1, StoreFacts
<1>3. Len(o) \in Nat /\ o \in Seq(1..n) /\ DOMAIN o = 1..Len(o)
      /\ \A k \in 1..Len(o) : o[k] \in 1..n
  BY <1>2, SectionFields
<1>4. sections' = [sections EXCEPT ![i] = y]
  BY <1>1, StoreFacts
<1>5. overlays \in Seq({0, 1})
  BY StoreFacts DEF Pictured
<1>6. m \in Nat /\ n <= m /\ m \in 1..m
  BY <1>2
<1>7. p \in Seq(1..m)
  <2> HIDE DEF o, n, m, x
  <2>1. o \in [1..Len(o) -> 1..m]
    <3>1. \A k \in 1..Len(o) : o[k] \in 1..m
      BY <1>2, <1>3, <1>6
    <3> QED
      BY <1>3, <3>1
  <2>2. o \in Seq(1..m)
    BY <1>3, <2>1, ListOf
  <2> QED
    BY <1>6, <2>2
<1> HIDE DEF p, m
<1>8. y \in SectionsOn(m) /\ y.start = x.start /\ y.end = x.end /\ y.vstart = x.vstart
      /\ y.src = x.src
  <2> HIDE DEF x
  <2> QED
    BY <1>2, <1>7 DEF SectionsOn
<1> HIDE DEF y
<1>9. Fitting([sections EXCEPT ![i] = y], audios, m)
  BY <1>2, <1>6, <1>8, LooksFit
<1>10. Pictured' /\ Len(overlays)' = m
  <2> DEFINE q == overlays
  <2>1. q \in Seq({0, 1})
    BY <1>5
  <2> HIDE DEF q
  <2>2. Append(q, 0) \in Seq({0, 1}) /\ Len(Append(q, 0)) = Len(q) + 1
    BY <2>1
  <2>3. overlays' = Append(q, 0)
    BY <1>1 DEF q
  <2> QED
    BY <2>2, <2>3 DEF Pictured, m, q
<1>11. Selections'
  <2>1. Len(o) + 1 \in Int /\ i \in Int
    BY <1>2, <1>3
  <2> HIDE DEF o
  <2> QED
    BY <1>1, <2>1, StoreFacts DEF Selections
<1> QED
  BY <1>1, <1>4, <1>9, <1>10, <1>11 DEF StoreInvariant

LEMMA EditOverlayFits ==
  ASSUME StoreInvariant, NEW i, NEW k, NEW v \in {0, 1}, EditOverlay(i, k, v)
  PROVE  StoreInvariant'
<1>1. /\ overlays' = [overlays EXCEPT ![sections[i].over[k]] = v]
      /\ sections' = sections /\ audios' = audios /\ selection' = selection
  BY DEF EditOverlay
<1>2. overlays \in Seq({0, 1})
  BY StoreFacts DEF Pictured
<1>3. Pictured' /\ Len(overlays)' = Len(overlays)
  <2> DEFINE q == overlays
             j == sections[i].over[k]
             r == [q EXCEPT ![j] = v]
             N == Len(q)
  <2>1. q \in Seq({0, 1}) /\ overlays' = r
    BY <1>1, <1>2
  <2>2. N \in Nat /\ DOMAIN q = 1..N /\ \A h \in 1..N : q[h] \in {0, 1}
    BY <2>1, ElementOfSeq, LenProperties
  <2> HIDE DEF q, j, N
  <2>3. r \in [1..N -> {0, 1}]
    BY <2>1, <2>2
  <2> HIDE DEF r
  <2>4. r \in Seq({0, 1}) /\ Len(r) = N
    BY <2>2, <2>3, ListOf
  <2> QED
    BY <2>1, <2>4 DEF Pictured, N, q
<1>4. Fitting(sections', audios', Len(overlays)) /\ Selections'
  BY <1>1 DEF StoreInvariant, Selections, selection
<1> QED
  BY <1>3, <1>4 DEF StoreInvariant

(* What selects only.                                                      *)
LEMMA SelectsFit ==
  ASSUME StoreInvariant, UNCHANGED <<sections, audios, looks>>, Selections'
  PROVE  StoreInvariant'
<1>1. sections' = sections /\ audios' = audios /\ overlays' = overlays
  BY DEF looks
<1> QED
  BY <1>1 DEF StoreInvariant, Pictured

LEMMA SelectSectionFits ==
  ASSUME StoreInvariant, NEW i \in Int, SelectSection(i)
  PROVE  StoreInvariant'
<1>1. UNCHANGED <<sections, audios, looks>> /\ Selections'
  BY DEF SelectSection, Selections, Null, NoOverlay
<1> QED
  BY <1>1, SelectsFit

LEMMA SelectAudioFits ==
  ASSUME StoreInvariant, NEW i \in Int, SelectAudio(i)
  PROVE  StoreInvariant'
<1>1. UNCHANGED <<sections, audios, looks>> /\ Selections'
  BY DEF SelectAudio, Selections, Null, NoOverlay
<1> QED
  BY <1>1, SelectsFit

LEMMA SelectOverlayFits ==
  ASSUME StoreInvariant, NEW i \in Int, NEW k \in Int, SelectOverlay(i, k)
  PROVE  StoreInvariant'
<1>1. UNCHANGED <<sections, audios, looks>> /\ Selections'
  BY StoreFacts DEF SelectOverlay, Selections
<1> QED
  BY <1>1, SelectsFit

(* loadState of a state that fits.                                         *)
LEMMA LoadFits ==
  ASSUME Pictured, NEW secs, NEW auds, Playable(secs, Len(overlays)),
         Audible(auds, VideoTime(secs)), LoadState(secs, auds)
  PROVE  StoreInvariant'
<1> DEFINE a == Apart(secs)
           v == VideoTime(secs)
           n == Len(a.pictures)
<1>1. /\ sections' = Ripple(a.secs) /\ overlays' = a.pictures
      /\ audios' = Clamped(Sorted(auds), v) /\ sel' = Null /\ asel' = Null /\ osel' = NoOverlay
  BY DEF LoadState
<1>2. a.pictures \in Seq({0, 1}) /\ Playable(a.secs, n) /\ VideoTime(a.secs) = v
  BY ApartPlays
<1>3. v \in Int
  <2>1. Playable(Ripple(secs), Len(overlays)) /\ VideoTime(secs) \in Nat
    BY RippleChains
  <2> QED
    BY <2>1
<1> HIDE DEF a, v
<1>4. /\ Playable(Ripple(a.secs), n) /\ Chained(Ripple(a.secs)) /\ VideoTime(Ripple(a.secs)) = v
  BY <1>2, RippleChains
<1>5. Audible(auds, v)
  BY DEF v
<1>6. audios' = auds
  BY <1>1, <1>3, <1>5, AudibleStays
<1>7. Fitting(sections', audios', n)
  BY <1>1, <1>4, <1>5, <1>6 DEF Fitting
<1>8. Selections'
  BY <1>1 DEF Selections, Null, NoOverlay
<1>9. Pictured' /\ Len(overlays)' = n
  BY <1>1, <1>2 DEF Pictured
<1> QED
  BY <1>7, <1>8, <1>9 DEF StoreInvariant

LEMMA NothingFits ==
  ASSUME NEW n
  PROVE  Playable(<<>>, n) /\ Chained(<<>>) /\ \A v : Audible(<<>>, v)
<1>1. Playable(<<>>, n)
  BY NoneAndOnePlay
<1>2. Chained(<<>>) /\ \A v : Audible(<<>>, v)
  BY DEF Chained, Audible
<1> QED
  BY <1>1, <1>2

LEMMA ChangeAudioFits ==
  ASSUME StoreInvariant, NEW auds, Audible(auds, VideoTime(sections)), ChangeAudio(auds),
         sel' \in Int, asel' \in Int, osel' \in Int \X Int
  PROVE  StoreInvariant'
<1>1. audios' = auds /\ sections' = sections /\ overlays' = overlays
  BY DEF ChangeAudio, looks
<1>2. Fitting(sections', audios', Len(overlays)')
  BY <1>1 DEF StoreInvariant, Fitting
<1>3. Pictured' /\ Selections'
  BY <1>1 DEF StoreInvariant, Pictured, Selections
<1> QED
  BY <1>2, <1>3 DEF StoreInvariant

LEMMA AddAudioFits ==
  ASSUME StoreInvariant, NEW t \in Int, NEW s \in Sounds, AddAudioAt(t, s)
  PROVE  StoreInvariant'
<1> DEFINE v == VideoTime(sections)
           room == v - t
           dur == IF SourceTime[s] < room THEN SourceTime[s] ELSE room
           end == t + dur
           zero == 0
           new == [start |-> t, end |-> end, astart |-> zero, src |-> s]
<1>1. /\ dur >= Snap /\ ~Overlaps(new, audios) /\ ChangeAudio(Sorted(Append(audios, new)))
      /\ sel' = Null /\ asel' = Lost /\ osel' = NoOverlay
  BY DEF AddAudioAt
<1>2. v \in Int /\ Audible(audios, v)
  BY StoreFacts
<1>3. SourceTime[s] \in Nat
  BY SourceAssumption
<1> HIDE DEF v
<1>4. dur \in Int /\ dur <= SourceTime[s] /\ t + dur <= v
  BY <1>2, <1>3
<1>5. end \in Int /\ zero \in Int /\ end - t = dur
  BY <1>4
<1> HIDE DEF dur, zero
<1>6. end <= v /\ zero + dur <= SourceTime[s] /\ Snap <= dur
  BY <1>1, <1>3, <1>4, SnapAssumption DEF zero
<1> HIDE DEF end
<1>7. new \in AudioSections /\ new.start = t /\ new.end = end /\ new.astart = zero /\ new.src = s
  BY <1>5 DEF AudioSections
<1> HIDE DEF new
<1>8. Sounding(new, v)
  <2>1. Duration(new) = dur
    BY <1>5, <1>7 DEF Duration
  <2> QED
    BY <1>6, <1>7, <2>1 DEF Sounding
<1>9. Separate(Append(audios, new))
      /\ \A j \in 1..Len(Append(audios, new)) : Sounding(Append(audios, new)[j], v)
  BY <1>1, <1>2, <1>7, <1>8, AddSeparate
<1>10. Audible(Sorted(Append(audios, new)), v)
  <2> DEFINE auds == Append(audios, new)
  <2>1. Separate(auds) /\ \A j \in 1..Len(auds) : Sounding(auds[j], v)
    BY <1>9
  <2> HIDE DEF auds
  <2>2. Audible(Sorted(auds), v)
    BY <2>1, SortedAudible
  <2> QED
    BY <2>2 DEF auds
<1>11. sel' \in Int /\ asel' \in Int /\ osel' \in Int \X Int
  BY <1>1 DEF Null, Lost, NoOverlay
<1> QED
  BY <1>1, <1>10, <1>11, ChangeAudioFits DEF v

LEMMA AddAudioNextFits ==
  ASSUME StoreInvariant, NEW s \in Sounds, AddAudioNext(s)
  PROVE  StoreInvariant'
<1> DEFINE gaps == {i \in DOMAIN audios :
                      audios[i].start - (IF i = 1 THEN 0 ELSE audios[i - 1].end) >= Snap}
           first == CHOOSE i \in gaps : \A j \in gaps : i <= j
           at == IF gaps # {} THEN IF first = 1 THEN 0 ELSE audios[first - 1].end
                 ELSE IF audios = <<>> THEN 0 ELSE audios[Len(audios)].end
<1>1. AddAudioAt(at, s)
  BY DEF AddAudioNext
<1>2. audios \in Seq(AudioSections) /\ Len(audios) \in Nat /\ DOMAIN audios = 1..Len(audios)
      /\ \A i \in 1..Len(audios) : audios[i].end \in Int
  BY StoreFacts, AudioSection
<1>3. gaps \subseteq 1..Len(audios) /\ gaps \in SUBSET Nat
  BY <1>2
<1>4. at \in Int
  <2> HIDE DEF gaps
  <2>1. CASE gaps # {}
    <3>1. \E i \in gaps : \A j \in gaps : i <= j
      BY <1>3, <2>1, LeastOf
    <3>2. first \in 1..Len(audios)
      BY <1>3, <3>1
    <3> HIDE DEF first
    <3>3. first # 1 => first - 1 \in 1..Len(audios)
      BY <1>2, <3>2
    <3> QED
      BY <1>2, <2>1, <3>3
  <2>2. CASE gaps = {} /\ audios = <<>>
    BY <2>2
  <2>3. CASE gaps = {} /\ audios # <<>>
    <3>1. Len(audios) \in 1..Len(audios)
      <4>1. Len(audios) # 0
        BY <1>2, <2>3, EmptySeq
      <4> QED
        BY <1>2, <4>1
    <3> QED
      BY <1>2, <2>3, <3>1
  <2> QED
    BY <2>1, <2>2, <2>3
<1> HIDE DEF at
<1> QED
  BY <1>1, <1>4, AddAudioFits

LEMMA RemoveAudioFits ==
  ASSUME StoreInvariant, NEW i \in Int, RemoveAudio(i)
  PROVE  StoreInvariant'
<1> DEFINE j == IF i = Lost THEN Len(audios) ELSE i
<1>1. ChangeAudio(Without(audios, j)) /\ asel' = Shifted(asel, i) /\ sel' = sel /\ osel' = osel
  BY DEF RemoveAudio
<1> HIDE DEF j
<1>2. Audible(Without(audios, j), VideoTime(sections))
  BY StoreFacts, WithoutAudible
<1>3. sel' \in Int /\ asel' \in Int /\ osel' \in Int \X Int
  BY <1>1, StoreFacts DEF Shifted, Null
<1> QED
  BY <1>1, <1>2, <1>3, ChangeAudioFits

LEMMA SplitAudioFits ==
  ASSUME StoreInvariant, NEW i \in Int, NEW t \in Points, SplitAudio(i, t)
  PROVE  StoreInvariant'
<1> DEFINE a == audios[i]
           halves == Splice(audios, i, 1,
             <<LeftPart(a, t), [a EXCEPT !.start = t, !.astart = @ + (t - a.start)]>>)
           v == VideoTime(sections)
<1>1. /\ i \in DOMAIN audios /\ a.start < t /\ t < a.end
      /\ ChangeAudio(Clamped(halves, v)) /\ asel' = Reselected(halves, v, i + 1)
      /\ sel' = sel /\ osel' = osel
  BY DEF SplitAudio
<1>2. v \in Int /\ Audible(audios, v) /\ t \in Int /\ i \in 1..Len(audios)
  BY <1>1, StoreFacts
<1> HIDE DEF v
<1>3. Separate(halves)
  BY <1>1, <1>2, CutSeparate
<1> HIDE DEF halves
<1>4. Audible(Clamped(halves, v), v)
  BY <1>2, <1>3, ClampedAudible
<1>5. Reselected(halves, v, i + 1) \in Int
  BY <1>2, <1>3, ReselectedIsIndex DEF Separate
<1>6. sel' \in Int /\ asel' \in Int /\ osel' \in Int \X Int
  BY <1>1, <1>5, StoreFacts
<1> QED
  BY <1>1, <1>4, <1>6, ChangeAudioFits DEF v

LEMMA TrimAudioFits ==
  ASSUME StoreInvariant, NEW i \in DOMAIN audios, NEW as \in Int, NEW dur \in Int,
         TrimAudio(i, as, dur)
  PROVE  StoreInvariant'
<1> DEFINE a == audios[i]
           v == VideoTime(sections)
           end == a.start + dur
           new == [a EXCEPT !.astart = as, !.end = end]
<1>1. /\ dur >= Snap /\ as + dur <= SourceTime[new.src] /\ new.end <= v
      /\ ~Overlaps(new, Others(i)) /\ ChangeAudio([audios EXCEPT ![i] = new])
      /\ selection' = selection
  BY DEF TrimAudio
<1>2. v \in Int /\ Audible(audios, v) /\ i \in 1..Len(audios) /\ a \in AudioSections
      /\ audios \in Seq(AudioSections)
  BY StoreFacts
<1> HIDE DEF v, a
<1>3. a.start \in Int /\ end \in Int /\ end - a.start = dur
  BY <1>2 DEF AudioSections
<1> HIDE DEF end
<1>4. new \in AudioSections /\ new.start = a.start /\ new.end = end /\ new.astart = as
      /\ new.src = a.src
  BY <1>2, <1>3 DEF AudioSections
<1> HIDE DEF new
<1>5. Sounding(new, v)
  <2>1. Duration(new) = dur
    BY <1>3, <1>4 DEF Duration
  <2>2. Snap <= dur
    BY <1>1, SnapAssumption
  <2> QED
    BY <1>1, <1>4, <2>1, <2>2 DEF Sounding
<1>6. \A j \in 1..Len(audios) : j # i => ~(new.start < audios[j].end /\ audios[j].start < new.end)
  BY <1>1, <1>2, ClearOfOthers
<1>7. Audible([audios EXCEPT ![i] = new], v)
  BY <1>2, <1>4, <1>5, <1>6, SetSeparate DEF a
<1>8. sel' \in Int /\ asel' \in Int /\ osel' \in Int \X Int
  BY <1>1, StoreFacts DEF selection
<1> QED
  BY <1>1, <1>7, <1>8, ChangeAudioFits DEF v

LEMMA TrimAudioEdgesFit ==
  ASSUME StoreInvariant, NEW i, NEW dur \in Int, NEW as \in Int,
         TrimAudioStart(i, dur, as) \/ TrimAudioEnd(i, dur)
  PROVE  StoreInvariant'
<1>1. CASE TrimAudioStart(i, dur, as)
  BY <1>1, TrimAudioFits DEF TrimAudioStart
<1>2. CASE TrimAudioEnd(i, dur)
  <2>1. i \in DOMAIN audios /\ TrimAudio(i, audios[i].astart, dur)
    BY <1>2 DEF TrimAudioEnd
  <2>2. audios[i].astart \in Int
    BY <2>1, StoreFacts DEF AudioSections
  <2> QED
    BY <2>1, <2>2, TrimAudioFits
<1> QED
  BY <1>1, <1>2

LEMMA MoveAudioFits ==
  ASSUME StoreInvariant, NEW i, NEW t \in Points, MoveAudio(i, t)
  PROVE  StoreInvariant'
<1> DEFINE a == audios[i]
           v == VideoTime(sections)
           dur == Duration(a)
           max == v - dur
           at == IF t > max THEN max ELSE t
           end == at + dur
           new == [a EXCEPT !.start = at, !.end = end]
           moved == [audios EXCEPT ![i] = new]
<1>1. /\ i \in DOMAIN audios /\ dur >= Snap /\ ~Overlaps(new, Others(i))
      /\ ChangeAudio(Sorted(moved)) /\ asel' = Lost /\ sel' = sel /\ osel' = osel
  BY DEF MoveAudio
<1>2. v \in Int /\ Audible(audios, v) /\ i \in 1..Len(audios) /\ a \in AudioSections
      /\ audios \in Seq(AudioSections) /\ t \in Int
  BY <1>1, StoreFacts
<1>3. dur \in Int /\ a.astart \in Int
  BY <1>2 DEF AudioSections, Duration
<1>4. a.astart + dur <= SourceTime[a.src] /\ Snap <= dur
  BY <1>2 DEF Audible, Sounding
<1> HIDE DEF v, a, dur
<1>5. at \in Int /\ end \in Int /\ end - at = dur /\ end <= v
  BY <1>2, <1>3
<1> HIDE DEF at, end
<1>6. new \in AudioSections /\ new.start = at /\ new.end = end /\ new.astart = a.astart
      /\ new.src = a.src
  BY <1>2, <1>5 DEF AudioSections
<1> HIDE DEF new
<1>7. Sounding(new, v)
  <2>1. Duration(new) = dur
    BY <1>5, <1>6 DEF Duration
  <2> QED
    BY <1>4, <1>5, <1>6, <2>1 DEF Sounding
<1>8. \A j \in 1..Len(audios) : j # i => ~(new.start < audios[j].end /\ audios[j].start < new.end)
  BY <1>1, <1>2, ClearOfOthers
<1>9. Separate(moved) /\ \A j \in 1..Len(moved) : Sounding(moved[j], v)
  BY <1>2, <1>6, <1>7, <1>8, SetSeparate
<1> HIDE DEF moved
<1>10. Audible(Sorted(moved), v)
  BY <1>9, SortedAudible
<1>11. sel' \in Int /\ asel' \in Int /\ osel' \in Int \X Int
  BY <1>1, StoreFacts DEF Lost
<1> QED
  BY <1>1, <1>10, <1>11, ChangeAudioFits DEF v

-----------------------------------------------------------------------------
(* The invariant of the editor *)

(* A gesture holds indices and times, which may be stale.                  *)
GripKinds == {"none", "left", "right", "audioLeft", "audioRight", "section", "audio", "overlay",
          "menu", "effects"}
Grips ==
  [kind : GripKinds, at : Int, item : Int, from : Int, len : Int, lim : Int, aim : Int]

TimelineInvariant == StoreInvariant /\ held \in Grips

(* What begins a gesture is one.                                           *)
LEMMA GripsAreGrips ==
  /\ NoGrip \in Grips
  /\ \A k \in GripKinds, i, item \in Int : Grip(k, i, item) \in Grips
<1>1. "none" \in GripKinds
  BY DEF GripKinds
<1>2. NoGrip \in Grips
  BY <1>1 DEF NoGrip, Grips, Null
<1>3. ASSUME NEW k \in GripKinds, NEW i \in Int, NEW item \in Int
      PROVE  Grip(k, i, item) \in Grips
  <2> DEFINE g == NoGrip
  <2>1. g \in Grips /\ Grip(k, i, item) = [g EXCEPT !.kind = k, !.at = i, !.item = item, !.aim = i]
    BY <1>2 DEF Grip
  <2> HIDE DEF g
  <2> QED
    BY <2>1 DEF Grips
<1> QED
  BY <1>2, <1>3

LEMMA EdgesAreGrips ==
  ASSUME StoreInvariant
  PROVE  /\ \A i \in DOMAIN sections, k \in {"left", "right"} : EdgeGrip(k, i) \in Grips
         /\ \A i \in DOMAIN audios, k \in {"audioLeft", "audioRight"} :
              AudioEdgeGrip(k, i) \in Grips
<1>1. ASSUME NEW i \in DOMAIN sections, NEW k \in {"left", "right"}
      PROVE  EdgeGrip(k, i) \in Grips
  <2>1. i \in Int /\ sections[i] \in SectionsOn(Len(overlays))
    BY <1>1, StoreFacts
  <2>2. /\ sections[i].vstart \in Int /\ Duration(sections[i]) \in Int
        /\ SourceTime[sections[i].src] \in Nat
    BY <2>1, SectionFields
  <2>3. Grip(k, i, Null) \in Grips
    BY <2>1, <1>1, GripsAreGrips DEF GripKinds, Null
  <2> DEFINE lim == IF k = "left" THEN SourceTime[sections[i].src]
                    ELSE SourceTime[sections[i].src] - sections[i].vstart
             g == Grip(k, i, Null)
             d == Duration(sections[i])
  <2>4. EdgeGrip(k, i) = [g EXCEPT !.from = sections[i].vstart, !.len = d, !.lim = lim]
    BY DEF EdgeGrip
  <2>5. lim \in Int /\ d \in Int
    BY <2>2
  <2> HIDE DEF lim, g, d
  <2> QED
    BY <2>2, <2>3, <2>4, <2>5 DEF Grips, g
<1>2. ASSUME NEW i \in DOMAIN audios, NEW k \in {"audioLeft", "audioRight"}
      PROVE  AudioEdgeGrip(k, i) \in Grips
  <2>1. i \in Int /\ audios \in Seq(AudioSections) /\ i \in 1..Len(audios)
    BY <1>2, StoreFacts
  <2>2. /\ audios[i].astart \in Int /\ audios[i].start \in Int /\ audios[i].end \in Int
        /\ SourceTime[audios[i].src] \in Nat
        /\ Duration(audios[i]) = audios[i].end - audios[i].start
    BY <2>1, AudioSection
  <2>3. Grip(k, i, Null) \in Grips
    BY <2>1, <1>2, GripsAreGrips DEF GripKinds, Null
  <2> DEFINE lim == SourceTime[audios[i].src] - audios[i].astart
             g == Grip(k, i, Null)
             d == Duration(audios[i])
  <2>4. AudioEdgeGrip(k, i) = [g EXCEPT !.from = audios[i].astart, !.len = d, !.lim = lim]
    BY DEF AudioEdgeGrip
  <2>5. lim \in Int /\ d \in Int
    BY <2>2
  <2> HIDE DEF lim, g, d
  <2> QED
    BY <2>2, <2>3, <2>4, <2>5 DEF Grips, g
<1> QED
  BY <1>1, <1>2

LEMMA UnchangedFits ==
  ASSUME StoreInvariant, UNCHANGED store
  PROVE  StoreInvariant'
<1>1. UNCHANGED <<sections, audios, selection, looks>>
  BY DEF store
<1>2. Selections'
  BY <1>1 DEF StoreInvariant, Selections, selection
<1> QED
  BY <1>1, <1>2, SelectsFit

-----------------------------------------------------------------------------
(* The steps of the store *)

(* What changes a section where it is.                                     *)
VideoTrim(i) == \E dur, vstart \in Int : TrimStart(i, dur, vstart) \/ TrimEnd(i, dur)
InPlace(i) ==
  \/ VideoTrim(i) \/ AddOverlay(i)
  \/ \E v \in {0, 1} : SetEffects(i, v) \/ \E k \in Int : EditOverlay(i, k, v)

(* What makes more of them, and what else changes their list.              *)
GrowStep ==
  \/ \E v \in Videos : AddVideoSection(v) \/ \E t \in Points : InsertVideo(t, v)
  \/ \E i \in DOMAIN sections, t \in Points : PasteSection(t, sections[i])
  \/ \E i \in Int, t \in Points : SplitSection(i, t)
RemoveStep == \E i \in Int : RemoveSection(i)
ReorderStep == \E from, to \in Int : Reorder(from, to)

AudioTrim ==
  \E i, dur, as \in Int : TrimAudioStart(i, dur, as) \/ TrimAudioEnd(i, dur)
SoundStep ==
  \/ \E s \in Sounds : AddAudioNext(s) \/ \E t \in Int : AddAudioAt(t, s)
  \/ \E i \in DOMAIN audios \cup {asel} : RemoveAudio(i)
  \/ \E i \in Int, t \in Points : SplitAudio(i, t) \/ MoveAudio(i, t)
  \/ AudioTrim

ChooseStep ==
  \/ \E i \in Int : SelectSection(i) \/ \E k \in Int : SelectOverlay(i, k)
  \/ \E i \in DOMAIN audios : SelectAudio(i)

(* A gesture changes in place the section at the index it was begun on.    *)
EditStep == \E i \in Int : InPlace(i) /\ (Free \/ i = held.at)

StoreStep ==
  \/ EditStep \/ GrowStep \/ RemoveStep \/ ReorderStep
  \/ SoundStep \/ ChooseStep \/ Load \/ UNCHANGED store

(* A pull of an edge trims whatever section has the index it was grabbed   *)
(* at.                                                                     *)
LEMMA PullTrims ==
  ASSUME NEW h \in Grips
  PROVE  /\ PullEdge(h) => VideoTrim(h.at)
         /\ PullAudioEdge(h) => AudioTrim
<1>1. /\ h.at \in Int /\ h.from \in Int /\ h.len \in Int /\ h.lim \in Int
  BY DEF Grips
<1>2. Snap \in Nat
  BY SnapAssumption
<1> SUFFICES ASSUME NEW d \in Moves
             PROVE  /\ PullLeft(h, d) \/ PullRight(h, d) => VideoTrim(h.at)
                    /\ PullAudioLeft(h, d) \/ PullAudioRight(h, d) => AudioTrim
  BY DEF PullEdge, PullAudioEdge
<1> DEFINE start == Between(h.from + d, 0, h.from + h.len - Snap)
           dur == h.len - (start - h.from)
           len == Between(h.len + d, Snap, h.lim)
<1>4. d \in Int
  BY DEF Moves
<1>5. start \in Int /\ len \in Int
  BY <1>1, <1>2, <1>4 DEF Between
<1>6. /\ PullLeft(h, d) \/ PullRight(h, d) => TrimStart(h.at, dur, start) \/ TrimEnd(h.at, len)
      /\ PullAudioLeft(h, d) \/ PullAudioRight(h, d) =>
           TrimAudioStart(h.at, dur, start) \/ TrimAudioEnd(h.at, len)
  BY DEF PullLeft, PullRight, PullAudioLeft, PullAudioRight
<1> HIDE DEF start, len
<1>7. dur \in Int
  BY <1>1, <1>5
<1> HIDE DEF dur
<1> QED
  BY <1>1, <1>5, <1>6, <1>7 DEF VideoTrim, AudioTrim

(* The indices there are.                                                  *)
LEMMA IndicesAreInts ==
  ASSUME StoreInvariant
  PROVE  /\ DOMAIN sections \subseteq Int /\ DOMAIN audios \subseteq Int /\ Points \subseteq Int
         /\ \A i \in DOMAIN sections : DOMAIN sections[i].over \subseteq Int
<1>1. /\ DOMAIN sections = 1..Len(sections) /\ DOMAIN audios = 1..Len(audios)
      /\ \A i \in 1..Len(sections) : sections[i] \in SectionsOn(Len(overlays))
  BY StoreFacts
<1>2. \A i \in 1..Len(sections) : DOMAIN sections[i].over = 1..Len(sections[i].over)
  BY <1>1, SectionFields
<1>3. Len(sections) \in Nat /\ Len(audios) \in Nat /\ Points \subseteq Nat
  BY StoreFacts
<1> QED
  BY <1>1, <1>2, <1>3

(* What is done at once is a step of the store.                            *)
LEMMA AtOnceSteps ==
  ASSUME TimelineInvariant, AtOnce
  PROVE  StoreStep
<1>1. /\ StoreInvariant /\ Null \in Int
      /\ DOMAIN sections \subseteq Int /\ DOMAIN audios \subseteq Int /\ Points \subseteq Int
      /\ \A i \in DOMAIN sections : DOMAIN sections[i].over \subseteq Int
  BY IndicesAreInts DEF TimelineInvariant, Null
<1>2. Free
  BY DEF AtOnce
<1>3. ASSUME VideoStep PROVE StoreStep
  <2>1. \A i \in DOMAIN sections, k \in {"left", "right"} :
          EdgeGrip(k, i) \in Grips /\ EdgeGrip(k, i).at = i
    BY <1>1, EdgesAreGrips DEF EdgeGrip, Grip, NoGrip
  <2>2. ASSUME NEW v \in Videos, AddVideoSection(v) \/ \E t \in Points : InsertVideo(t, v)
        PROVE  StoreStep
    BY <2>2 DEF StoreStep, GrowStep
  <2>3. ASSUME NEW i \in DOMAIN sections,
               RemoveSection(i) \/ \E t \in Points : PasteSection(t, sections[i]) \/ SplitSection(i, t)
        PROVE  StoreStep
    BY <1>1, <2>3 DEF StoreStep, GrowStep, RemoveStep
  <2>4. ASSUME NEW i \in DOMAIN sections, NEW k \in {"left", "right"}, PullEdge(EdgeGrip(k, i))
        PROVE  StoreStep
    BY <1>1, <1>2, <2>1, <2>4, PullTrims DEF StoreStep, EditStep, InPlace
  <2>5. ASSUME NEW i \in DOMAIN sections, NEW to \in 1..(Len(sections) + 1), DragAndDrop(i, to)
        PROVE  StoreStep
    BY <1>1, <2>5 DEF StoreStep, ReorderStep, DragAndDrop
  <2> QED
    BY <1>3, <2>2, <2>3, <2>4, <2>5 DEF VideoStep
<1>4. ASSUME AudioStep PROVE StoreStep
  <2>1. \A i \in DOMAIN audios, k \in {"audioLeft", "audioRight"} : AudioEdgeGrip(k, i) \in Grips
    BY <1>1, EdgesAreGrips
  <2>2. ASSUME NEW s \in Sounds, AddAudioNext(s) \/ \E t \in Points : AddAudioAt(t, s)
        PROVE  SoundStep
    BY <1>1, <2>2 DEF SoundStep
  <2>3. ASSUME NEW i \in DOMAIN audios,
               RemoveAudio(i) \/ \E t \in Points : SplitAudio(i, t) \/ MoveSelectedAudio(i, t)
        PROVE  SoundStep
    BY <1>1, <2>3 DEF SoundStep, MoveSelectedAudio
  <2>4. ASSUME NEW i \in DOMAIN audios, NEW k \in {"audioLeft", "audioRight"},
               PullAudioEdge(AudioEdgeGrip(k, i))
        PROVE  SoundStep
    BY <2>1, <2>4, PullTrims DEF SoundStep
  <2> QED
    BY <1>4, <2>2, <2>3, <2>4 DEF AudioStep, StoreStep
<1>5. ASSUME LooksStep PROVE StoreStep
  <2>1. PICK i \in DOMAIN sections :
          \/ AddOverlay(i)
          \/ \E v \in {0, 1} : SetEffects(i, v)
          \/ \E k \in DOMAIN sections[i].over :
               SelectOverlay(i, k) \/ \E v \in {0, 1} : EditOverlay(i, k, v)
    BY <1>5 DEF LooksStep
  <2>2. InPlace(i) \/ ChooseStep
    BY <1>1, <2>1 DEF InPlace, ChooseStep
  <2> QED
    BY <1>1, <1>2, <2>1, <2>2 DEF StoreStep, EditStep
<1>6. ASSUME SelectStep PROVE StoreStep
  BY <1>1, <1>6 DEF SelectStep, StoreStep, ChooseStep
<1> QED
  BY <1>3, <1>4, <1>5, <1>6 DEF AtOnce

(* So is each step of a gesture, and what may come between.                *)
LEMMA GestureSteps ==
  ASSUME TimelineInvariant, Begin \/ Continue \/ DeleteKey \/ Escape \/ Load
  PROVE  StoreStep
<1>1. /\ StoreInvariant /\ held \in Grips /\ Null \in Int
      /\ held.at \in Int /\ held.item \in Int /\ sel \in Int /\ asel \in Int
      /\ DOMAIN sections \subseteq Int
      /\ \A i \in DOMAIN sections : DOMAIN sections[i].over \subseteq Int
  BY StoreFacts, IndicesAreInts DEF TimelineInvariant, Grips, Null
<1>2. CASE Begin
  BY <1>1, <1>2
  DEF Begin, GrabEdge, OpenMenu, GrabSection, GrabOverlay, GrabAudio, StoreStep, ChooseStep
<1>3. CASE Continue
  <2>1. CASE DragOn
    BY <1>1, <2>1, PullTrims DEF DragOn, StoreStep, SoundStep, EditStep, InPlace
  <2>2. CASE MenuItem
    BY <1>1, <2>2
    DEF MenuItem, StoreStep, SoundStep, EditStep, InPlace, RemoveStep, GrowStep, ChooseStep
  <2>3. CASE DropSection \/ DropAudioSection
    BY <1>1, <2>3 DEF DropSection, DropAudioSection, StoreStep, ReorderStep, SoundStep
  <2>4. CASE ApplyEffects \/ LetGo \/ \E to \in 1..(MaxSections + 1) : DragSection(to)
    BY <1>1, <2>4 DEF ApplyEffects, LetGo, DragSection, StoreStep, EditStep, InPlace
  <2> QED
    BY <1>3, <2>1, <2>2, <2>3, <2>4 DEF Continue
<1>4. CASE DeleteKey
  BY <1>1, <1>4 DEF DeleteKey, StoreStep, RemoveStep, SoundStep
<1>5. CASE Escape \/ Load
  BY <1>1, <1>5 DEF Escape, StoreStep, ChooseStep
<1> QED
  BY <1>2, <1>3, <1>4, <1>5

LEMMA EveryStep ==
  ASSUME TimelineInvariant, [EditorNext]_editorVars
  PROVE  StoreStep
BY AtOnceSteps, GestureSteps DEF EditorNext, editorVars, StoreStep

(* Every step of the store keeps its invariant.                            *)
LEMMA StoreStepFits ==
  ASSUME StoreInvariant, StoreStep
  PROVE  StoreInvariant'
<1>1. CASE EditStep
  <2>1. ASSUME NEW i \in Int, VideoTrim(i) PROVE StoreInvariant'
    BY <2>1, VideoTrimForm, VideoTrimFits DEF VideoTrim
  <2> QED
    BY <1>1, <2>1, AddOverlayFits, EffectsFit, EditOverlayFits DEF EditStep, InPlace
<1>2. CASE GrowStep
  BY <1>2, AddVideoFits, InsertVideoFits, PasteFits, SplitFits DEF GrowStep
<1>3. CASE RemoveStep \/ ReorderStep
  BY <1>3, RemoveFits, ReorderForm, ReorderFits DEF RemoveStep, ReorderStep
<1>4. CASE SoundStep
  <2>1. DOMAIN audios \cup {asel} \subseteq Int
    BY StoreFacts, IndicesAreInts
  <2> QED
    BY <1>4, <2>1, AddAudioNextFits, AddAudioFits, RemoveAudioFits, SplitAudioFits, MoveAudioFits,
       TrimAudioEdgesFit
    DEF SoundStep, AudioTrim
<1>5. CASE ChooseStep
  <2>1. DOMAIN audios \subseteq Int
    BY IndicesAreInts
  <2> QED
    BY <1>5, <2>1, SelectSectionFits, SelectOverlayFits, SelectAudioFits DEF ChooseStep
<1>6. CASE Load
  <2>1. Pictured /\ Playable(sections, Len(overlays)) /\ Audible(audios, VideoTime(sections))
    BY StoreFacts
  <2>2. Playable(<<>>, Len(overlays)) /\ Audible(<<>>, VideoTime(<<>>))
    BY NothingFits
  <2> QED
    BY <1>6, <2>1, <2>2, LoadFits DEF Load
<1>7. CASE UNCHANGED store
  BY <1>7, UnchangedFits
<1> QED
  BY <1>1, <1>2, <1>3, <1>4, <1>5, <1>6, <1>7 DEF StoreStep

(* What a gesture keeps stays of its kind.                                 *)
LEMMA GripsStay ==
  ASSUME TimelineInvariant, [EditorNext]_editorVars
  PROVE  held' \in Grips
<1>1. /\ StoreInvariant /\ held \in Grips /\ NoGrip \in Grips /\ Null \in Int
      /\ held.aim \in Int /\ sel \in Int
  BY GripsAreGrips, StoreFacts DEF TimelineInvariant, Grips, Null
<1>2. CASE Begin
  <2>1. /\ DOMAIN sections \subseteq Int /\ DOMAIN audios \subseteq Int
        /\ \A i \in DOMAIN sections : DOMAIN sections[i].over \subseteq Int
    BY <1>1, IndicesAreInts
  <2>2. PICK g \in Grips : held' = g \/ held' = [g EXCEPT !.aim = Null]
    BY <1>1, <1>2, <2>1, GripsAreGrips, EdgesAreGrips
    DEF Begin, GrabEdge, OpenMenu, GrabSection, GrabOverlay, GrabAudio, GripKinds
  <2> QED
    BY <1>1, <2>2 DEF Grips
<1>3. CASE Continue
  <2>1. CASE \E to \in 1..(MaxSections + 1) : DragSection(to)
    <3>1. PICK to \in 1..(MaxSections + 1) : to \in 1..(Len(sections) + 1) /\ held' = [held EXCEPT !.item = to]
      BY <2>1 DEF DragSection
    <3>2. to \in Int
      OBVIOUS
    <3> QED
      BY <1>1, <3>1, <3>2 DEF Grips
  <2>2. CASE held' = [held EXCEPT !.kind = "effects"]
    BY <1>1, <2>2 DEF Grips, GripKinds
  <2>3. \/ held' = held \/ held' = NoGrip \/ held' = [held EXCEPT !.kind = "effects"]
        \/ \E to \in 1..(MaxSections + 1) : DragSection(to)
    BY <1>3 DEF Continue, DropSection, DropAudioSection, DragOn, MenuItem, ApplyEffects, LetGo, Release
  <2> QED
    BY <1>1, <2>1, <2>2, <2>3
<1>4. CASE DeleteKey
  <2>1. Shifted(held.aim, sel) \in Int
    BY <1>1 DEF Shifted, Null
  <2>2. held' = held \/ held' = [held EXCEPT !.aim = Shifted(@, sel)]
    BY <1>4 DEF DeleteKey
  <2> QED
    BY <1>1, <2>1, <2>2 DEF Grips
<1>5. CASE Load
  BY <1>1, <1>5 DEF Load, Grips
<1>6. CASE AtOnce \/ Escape \/ UNCHANGED editorVars
  BY <1>1, <1>6 DEF AtOnce, Escape, Release, editorVars
<1> QED
  BY <1>2, <1>3, <1>4, <1>5, <1>6 DEF EditorNext

(* Sections, audio sections, overlays and selections stay of their kinds,  *)
(* the chain of the video has no gap, and the audio lies under it in its   *)
(* order, after every step of every gesture, the stale ones included.      *)
THEOREM TimelineInvariantHolds == EditorSpec => []TimelineInvariant
<1>1. EditorInit => TimelineInvariant
  <2> SUFFICES ASSUME EditorInit PROVE TimelineInvariant
    OBVIOUS
  <2>1. sections = <<>> /\ audios = <<>> /\ overlays = <<>>
    BY DEF EditorInit, StoreInit
  <2>2. Fitting(sections, audios, Len(overlays)) /\ Pictured
    BY <2>1, NothingFits DEF Fitting, Pictured
  <2>3. Selections
    BY DEF EditorInit, StoreInit, Selections, Null, NoOverlay
  <2>4. held \in Grips
    BY GripsAreGrips DEF EditorInit
  <2> QED
    BY <2>2, <2>3, <2>4 DEF TimelineInvariant, StoreInvariant
<1>2. TimelineInvariant /\ [EditorNext]_editorVars => TimelineInvariant'
  <2> SUFFICES ASSUME TimelineInvariant, [EditorNext]_editorVars
               PROVE  TimelineInvariant'
    OBVIOUS
  <2>1. StoreStep /\ held' \in Grips /\ StoreInvariant
    BY EveryStep, GripsStay DEF TimelineInvariant
  <2> QED
    BY <2>1, StoreStepFits DEF TimelineInvariant
<1> QED
  BY <1>1, <1>2, PTL DEF EditorSpec

(* The sections fit: the video has no gap, the audio sounds one at a time  *)
(* inside it, and each section plays a window that its source has, though  *)
(* a drag goes on over a section that took the place of its own.           *)
THEOREM SectionsFitHolds == EditorSpec => []SectionsFit
<1>1. TimelineInvariant => SectionsFit
  <2> SUFFICES ASSUME TimelineInvariant PROVE SectionsFit
    OBVIOUS
  <2>1. StoreInvariant
    BY DEF TimelineInvariant
  <2>2. /\ Chained(sections) /\ Audible(audios, VideoTime(sections))
        /\ DOMAIN sections = 1..Len(sections) /\ DOMAIN audios = 1..Len(audios)
        /\ Len(audios) \in Nat
    BY <2>1, StoreFacts
  <2>3. ASSUME NEW i \in DOMAIN sections
        PROVE  LET x == sections[i] IN
               /\ x.start = (IF i = 1 THEN 0 ELSE sections[i - 1].end)
               /\ x.start <= x.end
               /\ x.vstart + Duration(x) <= SourceTime[x.src]
    <3>1. sections[i] \in SectionsOn(Len(overlays)) /\ Plays(sections[i])
      BY <2>1, <2>2, <2>3, StoreFacts
    <3>2. /\ sections[i].start \in Int /\ sections[i].end \in Int
          /\ Duration(sections[i]) = sections[i].end - sections[i].start
      BY <3>1, SectionFields
    <3>3. sections[i].start = (IF i = 1 THEN 0 ELSE sections[i - 1].end)
      BY <2>2, <2>3 DEF Chained
    <3> QED
      BY <3>1, <3>2, <3>3 DEF Plays
  <2>4. ASSUME NEW i \in DOMAIN audios
        PROVE  LET a == audios[i] IN
               /\ i > 1 => audios[i - 1].end <= a.start
               /\ a.end <= VideoTime(sections)
               /\ a.astart + Duration(a) <= SourceTime[a.src]
    <3>1. Sounding(audios[i], VideoTime(sections))
      BY <2>2, <2>4 DEF Audible
    <3>2. i > 1 => i - 1 \in 1..Len(audios) /\ i \in 1..Len(audios) /\ i - 1 < i
      BY <2>2, <2>4
    <3>3. i > 1 => audios[i - 1].end <= audios[i].start
      BY <2>2, <3>2 DEF Audible
    <3> QED
      BY <3>1, <3>3 DEF Sounding
  <2> QED
    BY <2>3, <2>4 DEF SectionsFit
<1> QED
  BY <1>1, TimelineInvariantHolds, PTL

(* What is saved loads as it was: rippleRecompute, the sort and the clamp  *)
(* change nothing of a state the editor can be in.                         *)
THEOREM ReloadIsIdentityHolds == EditorSpec => []ReloadIsIdentity
<1>1. TimelineInvariant => ReloadIsIdentity
  <2> SUFFICES ASSUME TimelineInvariant PROVE ReloadIsIdentity
    OBVIOUS
  <2>1. /\ Playable(sections, Len(overlays)) /\ Chained(sections)
        /\ Audible(audios, VideoTime(sections)) /\ VideoTime(sections) \in Nat
    BY StoreFacts DEF TimelineInvariant
  <2>2. PICK f : Timed(sections, f)
    BY <2>1, PlayableRuns, TimesExist
  <2>3. Ripple(sections) = sections
    BY <2>1, <2>2, ChainedStays
  <2>4. Sorted(audios) = audios /\ Clamped(audios, VideoTime(sections)) = audios
    BY <2>1, AudibleStays
  <2> QED
    BY <2>3, <2>4 DEF ReloadIsIdentity
<1> QED
  BY <1>1, TimelineInvariantHolds, PTL

-----------------------------------------------------------------------------
(* How the list of video sections grows *)

(* The list h after a cut, if there is one.                                *)
CutOrNot(h) ==
  \/ h = sections /\ cut' = cut
  \/ \E i, t : Halved(sections, i, t, h) /\ cut' = (cut \/ sections[i].over # <<>>)

(* What is added has no overlays, or new ones.                             *)
AddedWith(y) ==
  \/ y.over = <<>> /\ overlays' = overlays
  \/ \E m \in Nat : /\ y.over = [k \in 1..m |-> Len(overlays) + k]
                    /\ \E new : overlays' = overlays \o new

Grown(n, h, r) ==
  /\ n \in Nat /\ Len(overlays) <= n /\ Playable(h, n) /\ Playable(r, n)
  /\ CutOrNot(h) /\ sections' = Ripple(r) /\ (Settle(r) \/ UNCHANGED <<audios, asel>>)
  /\ \/ r = h /\ h # sections /\ overlays' = overlays
     \/ \E j, y : Put(h, j, y, r) /\ AddedWith(y)

LEMMA GrowForm ==
  ASSUME StoreInvariant, GrowStep
  PROVE  \E n, h, r : Grown(n, h, r)
<1> DEFINE N == Len(overlays)
<1>1. N \in Nat /\ N <= N /\ Playable(sections, N) /\ Points \subseteq Int
  BY StoreFacts
<1> HIDE DEF N
<1>2. ASSUME NEW t \in Int, NEW n \in Nat, N <= n, NEW y \in SectionsOn(n), Plays(y),
             InsertSectionAt(t, y), AddedWith(y)
      PROVE  \E m, h, r : Grown(m, h, r)
  <2>1. PICK h, r, j :
          /\ Playable(h, n) /\ Playable(r, n) /\ Put(h, j, y, r) /\ Settle(r)
          /\ \/ h = sections /\ cut' = cut
             \/ \E i, s : Halved(sections, i, s, h) /\ cut' = (cut \/ sections[i].over # <<>>)
    BY <1>2, InsertForm DEF N
  <2>2. CutOrNot(h) /\ sections' = Ripple(r)
    BY <2>1 DEF CutOrNot, Settle
  <2>3. Grown(n, h, r)
    BY <1>2, <2>1, <2>2 DEF Grown, N
  <2> QED
    BY <2>3
<1>3. ASSUME NEW v \in Videos, AddVideoSection(v)
      PROVE  \E m, h, r : Grown(m, h, r)
  <2> DEFINE y == Whole(v)
             r == Append(sections, y)
  <2>1. y \in SectionsOn(N) /\ Plays(y) /\ y.over = <<>>
    BY WholePlays DEF Whole
  <2>2. sections' = Ripple(r) /\ overlays' = overlays /\ cut' = cut /\ Settle(r)
    BY <1>3 DEF AddVideoSection, looks, Settle
  <2> HIDE DEF y
  <2>3. Playable(r, N) /\ Put(sections, Len(sections) + 1, y, r)
    BY <1>1, <2>1, AppendIsPut
  <2> HIDE DEF r
  <2>4. AddedWith(y) /\ CutOrNot(sections)
    BY <2>1, <2>2 DEF AddedWith, CutOrNot
  <2>5. Grown(N, sections, r)
    BY <1>1, <2>2, <2>3, <2>4 DEF Grown, N
  <2> QED
    BY <2>5
<1>4. ASSUME NEW v \in Videos, NEW t \in Points, InsertVideo(t, v)
      PROVE  \E m, h, r : Grown(m, h, r)
  <2>1. Whole(v) \in SectionsOn(N) /\ Plays(Whole(v)) /\ Whole(v).over = <<>>
    BY WholePlays DEF Whole
  <2>2. InsertSectionAt(t, Whole(v)) /\ overlays' = overlays
    BY <1>4 DEF InsertVideo
  <2>3. AddedWith(Whole(v))
    BY <2>1, <2>2 DEF AddedWith
  <2>4. t \in Int
    BY <1>1
  <2> QED
    BY <1>1, <1>2, <2>1, <2>2, <2>3, <2>4
<1>5. ASSUME NEW i \in DOMAIN sections, NEW t \in Points, PasteSection(t, sections[i])
      PROVE  \E m, h, r : Grown(m, h, r)
  <2>1. PICK m, y :
           /\ m \in Nat /\ y \in SectionsOn(N + m) /\ Plays(y) /\ InsertSectionAt(t, y)
           /\ y.over = [k \in 1..m |-> N + k]
           /\ overlays' = overlays \o Pictures(sections[i])
    BY <1>5, PasteForm DEF N
  <2>2. AddedWith(y)
    BY <2>1 DEF AddedWith, N
  <2>3. t \in Int /\ N + m \in Nat /\ N <= N + m
    BY <1>1, <2>1
  <2> QED
    BY <1>2, <2>1, <2>2, <2>3
<1>6. ASSUME NEW i \in Int, NEW t \in Points, SplitSection(i, t)
      PROVE  \E m, h, r : Grown(m, h, r)
  <2> DEFINE h == Splice(sections, i, 1, <<LeftPart(sections[i], t), RightPart(sections[i], t)>>)
  <2>1. /\ i \in DOMAIN sections /\ sections[i].start < t /\ t < sections[i].end
        /\ sections' = Ripple(h) /\ overlays' = overlays
        /\ cut' = (cut \/ sections[i].over # <<>>) /\ UNCHANGED <<audios, asel>>
    BY <1>6 DEF SplitSection, CutIn, selection
  <2>2. t \in Int /\ i \in 1..Len(sections) /\ Len(sections) \in Nat
    BY <1>1, <2>1, StoreFacts
  <2>3. Playable(h, N) /\ Halved(sections, i, t, h)
    BY <1>1, <2>1, <2>2, HalvedPlays
  <2> HIDE DEF h
  <2>4. CutOrNot(h)
    BY <2>1, <2>3 DEF CutOrNot
  <2>5. h # sections
    BY <2>2, <2>3 DEF Halved
  <2>6. Grown(N, h, h)
    BY <1>1, <2>1, <2>3, <2>4, <2>5 DEF Grown, N
  <2> QED
    BY <2>6
<1> QED
  BY <1>3, <1>4, <1>5, <1>6 DEF GrowStep

(* Either way it is longer than it was.                                    *)
LEMMA GrownIsLonger ==
  ASSUME StoreInvariant, NEW n, NEW h, NEW r, Grown(n, h, r)
  PROVE  /\ Len(sections') > Len(sections) /\ Len(sections') = Len(r)
         /\ Len(sections) \in Nat /\ Len(sections') \in Nat
<1>1. Len(sections) \in Nat /\ Playable(r, n) /\ sections' = Ripple(r)
  BY StoreFacts DEF Grown
<1>2. Len(sections') = Len(r)
  BY <1>1, RippleChains
<1>3. h = sections \/ Len(h) = Len(sections) + 1
  BY DEF Grown, CutOrNot, Halved
<1>4. (r = h /\ h # sections) \/ Len(r) = Len(h) + 1
  BY DEF Grown, Put
<1> QED
  BY <1>1, <1>2, <1>3, <1>4

-----------------------------------------------------------------------------
(* Selections *)

(* A selection of an audio section that is there.                          *)
AudioChosen == asel \in {Null, Lost} \cup DOMAIN audios

(* What SelectionStays says of the audio, of the list auds after a step,   *)
(* with i selected.                                                        *)
Follows(auds, i) ==
  i \notin {Null, Lost} =>
    i \in DOMAIN auds /\ auds[i].start = audios[asel].start /\ auds[i].src = audios[asel].src

(* A selection that is left is among what is left.                         *)
LEMMA ReselectedIsLeft ==
  ASSUME NEW auds \in Seq(AudioSections), NEW v, NEW i
  PROVE  LET n == Cardinality(Survivors(auds, v))
         IN n \in Nat /\ Reselected(auds, v, i) \in {Null} \cup 1..n
<1> DEFINE S == Survivors(auds, v)
           n == Cardinality(S)
           T == {j \in S : j <= i}
<1>1. Len(auds) \in Nat /\ DOMAIN auds = 1..Len(auds)
  BY AudioSection
<1>2. S \subseteq 1..Len(auds)
  BY <1>1 DEF Survivors
<1>3. IsFiniteSet(1..Len(auds))
  <2>1. 1 \in Int /\ Len(auds) \in Int
    BY <1>1
  <2> QED
    BY <2>1, FS_Interval
<1>4. CASE i \in S
  <2>1. T \in SUBSET S /\ i \in T
    BY <1>1, <1>2, <1>4
  <2>2. Reselected(auds, v, i) = Cardinality(T)
    BY <1>4 DEF Reselected
  <2> HIDE DEF S, T
  <2>3. IsFiniteSet(S) /\ IsFiniteSet(T) /\ Cardinality(T) <= Cardinality(S)
    BY <1>2, <1>3, <2>1, FS_Subset
  <2>4. Cardinality(S) \in Nat /\ Cardinality(T) \in Nat
    BY <2>3, FS_CardinalityType
  <2>5. Cardinality(T) # 0
    BY <2>1, <2>3, FS_EmptySet
  <2>6. n \in Nat /\ Reselected(auds, v, i) \in 1..n
    BY <2>2, <2>3, <2>4, <2>5
  <2> QED
    BY <2>6 DEF S
<1>5. CASE i \notin S
  <2>1. Reselected(auds, v, i) = Null
    BY <1>5 DEF Reselected
  <2> HIDE DEF S
  <2>2. IsFiniteSet(S)
    BY <1>2, <1>3, FS_Subset
  <2>3. n \in Nat
    BY <2>2, FS_CardinalityType
  <2> QED
    BY <2>1, <2>3 DEF S
<1> QED
  BY <1>4, <1>5

(* A clamp keeps the selection on its section: its place among those left  *)
(* in the list is its place among those left in time.                      *)
LEMMA ClampFollows ==
  ASSUME NEW auds, NEW w, Audible(auds, w), NEW v \in Int, NEW i, Reselected(auds, v, i) # Null
  PROVE  LET c == Clamped(auds, v)
             k == Reselected(auds, v, i)
         IN k \in 1..Len(c) /\ c[k].start = auds[i].start /\ c[k].src = auds[i].src
<1> DEFINE S == Survivors(auds, v)
           n == Cardinality(S)
           p == InOrder(auds, S)
           c == Clamped(auds, v)
           k == Reselected(auds, v, i)
           T == {j \in S : j <= i}
           B == {j \in S : Before(auds, j, i)}
<1>1. /\ auds \in Seq(AudioSections) /\ Separate(auds) /\ Len(auds) \in Nat
      /\ DOMAIN auds = 1..Len(auds)
      /\ \A j \in 1..Len(auds) : auds[j] \in AudioSections /\ auds[j].start \in Int
      /\ \A j \in 1..Len(auds) : auds[j].end \in Int /\ auds[j].start < auds[j].end
      /\ \A j, m \in 1..Len(auds) : j < m => auds[j].end <= auds[m].start
  BY AudibleSeparate, AudioSection DEF Audible, Separate
<1>2. i \in S /\ k = Cardinality(T)
  BY DEF Reselected
<1>3. S \subseteq 1..Len(auds) /\ S \in SUBSET Int /\ i \in 1..Len(auds)
  BY <1>1, <1>2 DEF Survivors
<1>4. IsFiniteSet(S)
  <2>1. 1 \in Int /\ Len(auds) \in Int
    BY <1>1
  <2>2. IsFiniteSet(1..Len(auds))
    BY <2>1, FS_Interval
  <2> HIDE DEF S
  <2> QED
    BY <1>3, <2>2, FS_Subset
<1>5. B = {j \in S : j < i}
  <2>1. ASSUME NEW j \in S PROVE Before(auds, j, i) <=> j < i
    <3>1. j \in 1..Len(auds) /\ j \in Int /\ i \in Int
      BY <1>3
    <3>2. CASE j < i
      BY <1>1, <1>3, <3>1, <3>2 DEF Before
    <3>3. CASE i < j
      BY <1>1, <1>3, <3>1, <3>3 DEF Before
    <3>4. CASE i = j
      BY <1>1, <1>3, <3>1, <3>4 DEF Before
    <3> QED
      BY <3>1, <3>2, <3>3, <3>4
  <2> HIDE DEF S
  <2> QED
    BY <2>1
<1>6. T = B \cup {i} /\ i \notin B
  <2>1. S \subseteq Int /\ i \in Int /\ i \in S
    BY <1>2, <1>3
  <2> HIDE DEF S
  <2>2. ASSUME NEW j \in S PROVE j <= i <=> (j < i \/ j = i)
    BY <2>1
  <2>3. ~(i < i)
    BY <2>1
  <2> QED
    BY <1>5, <2>1, <2>2, <2>3
<1>7. Rank(auds, S, i) = Cardinality(B)
  BY DEF Rank
<1>8. k = Rank(auds, S, i) + 1
  <2> HIDE DEF S
  <2>1. IsFiniteSet(B)
    <3>1. B \in SUBSET S
      OBVIOUS
    <3> HIDE DEF B
    <3> QED
      BY <1>4, <3>1, FS_Subset
  <2> HIDE DEF B, T, k
  <2>2. Cardinality(B \cup {i}) = Cardinality(B) + 1
    BY <1>6, <2>1, FS_AddElement
  <2> QED
    BY <1>2, <1>6, <1>7, <2>2
<1>9. \A j \in S : auds[j].start \in Int
  BY <1>1, <1>3
<1>10. Rank(auds, S, i) \in 0..(n - 1) /\ n \in Nat
  <2> HIDE DEF S
  <2> QED
    BY <1>2, <1>3, <1>4, <1>9, RankGrows
<1>11. p[k] = i /\ p \in [1..n -> S] /\ DOMAIN p = 1..n
  <2> HIDE DEF S, k
  <2> QED
    BY <1>2, <1>3, <1>4, <1>8, <1>9, OrderedList
<1>12. Len(c) = n /\ c = [m \in DOMAIN p |-> [auds[p[m]] EXCEPT !.end = ClampedEnd(auds[p[m]], v)]]
  BY <1>1, ClampedAudible DEF Clamped
<1> HIDE DEF n, p, k, c, S, T, B
<1>13. k \in 1..n
  BY <1>8, <1>10
<1>14. c[k] = [auds[i] EXCEPT !.end = ClampedEnd(auds[i], v)]
  BY <1>11, <1>12, <1>13
<1>15. auds[i] \in AudioSections
  BY <1>1, <1>3
<1>16. c[k].start = auds[i].start /\ c[k].src = auds[i].src
  BY <1>14, <1>15 DEF AudioSections
<1> QED
  BY <1>12, <1>13, <1>16 DEF c, k

(* So do the calls that every change of the video ends with.               *)
LEMMA SettleFollows ==
  ASSUME StoreInvariant, NEW secs, NEW n, Playable(secs, n), Settle(secs)
  PROVE  Follows(audios', asel') /\ AudioChosen' /\ Len(sections') = Len(secs)
<1> DEFINE v == VideoTime(secs)
<1>1. v \in Nat /\ Len(Ripple(secs)) = Len(secs)
  BY RippleChains
<1>2. Audible(audios, VideoTime(sections)) /\ audios \in Seq(AudioSections) /\ Separate(audios)
  BY StoreFacts
<1>3. sections' = Ripple(secs) /\ audios' = Clamped(audios, v) /\ asel' = Reselected(audios, v, asel)
  BY DEF Settle
<1> HIDE DEF v
<1>4. v \in Int
  BY <1>1
<1>5. /\ Len(audios') = Cardinality(Survivors(audios, v)) /\ audios' \in Seq(AudioSections)
  BY <1>2, <1>3, <1>4, ClampedAudible DEF Audible
<1>6. DOMAIN audios' = 1..Len(audios')
  BY <1>5
<1>7. AudioChosen'
  BY <1>2, <1>3, <1>5, <1>6, ReselectedIsLeft DEF AudioChosen
<1>8. Follows(audios', asel')
  <2>1. asel' # Null =>
          asel' \in 1..Len(audios') /\ audios'[asel'].start = audios[asel].start
          /\ audios'[asel'].src = audios[asel].src
    BY <1>2, <1>3, <1>4, ClampFollows
  <2> QED
    BY <1>6, <2>1 DEF Follows
<1> QED
  BY <1>1, <1>3, <1>7, <1>8

(* What is left when one is out, a selection of it that is left selects.   *)
LEMMA RemovedFollows ==
  ASSUME NEW T, NEW s \in Seq(T), NEW i \in 1..Len(s), NEW j \in 1..Len(s), Shifted(j, i) # Null
  PROVE  LET w == Without(s, i) IN
         Shifted(j, i) \in 1..Len(w) /\ w[Shifted(j, i)] = s[j] /\ Len(w) = Len(s) - 1
<1> DEFINE w == Without(s, i)
           k == Shifted(j, i)
<1>1. Len(s) \in Nat /\ DOMAIN s = 1..Len(s) /\ j # i
  BY DEF Shifted
<1>2. w = Splice(s, i, 1, <<>>)
  BY <1>1 DEF Without
<1>3. /\ Len(w) = Len(s) - 1
      /\ \A h \in 1..(i - 1) : w[h] = s[h]
      /\ \A h \in i..(Len(s) - 1) : w[h] = s[h + 1]
  BY <1>2, OneIsOut
<1> HIDE DEF w
<1>4. CASE j < i
  <2>1. k = j
    BY <1>1, <1>4 DEF Shifted
  <2> HIDE DEF k
  <2>2. k \in 1..(i - 1) /\ k \in 1..(Len(s) - 1)
    BY <1>1, <1>4, <2>1
  <2> QED
    BY <1>3, <2>1, <2>2 DEF w, k
<1>5. CASE j > i
  <2>1. k = j - 1
    BY <1>1, <1>5 DEF Shifted
  <2> HIDE DEF k
  <2>2. k \in i..(Len(s) - 1) /\ k \in 1..(Len(s) - 1) /\ k + 1 = j
    BY <1>1, <1>5, <2>1
  <2> QED
    BY <1>3, <2>2 DEF w, k
<1>6. j < i \/ j > i
  BY <1>1
<1> QED
  BY <1>4, <1>5, <1>6

(* What SelectionStays says of the video and of the audio.                 *)
VideoStays ==
  Len(sections') < Len(sections) /\ sel \in DOMAIN sections /\ sel' # Null =>
    /\ sel' \in DOMAIN sections'
    /\ sections'[sel'].src = sections[sel].src
    /\ sections'[sel'].vstart = sections[sel].vstart
AudioStays == Len(audios') < Len(audios) => Follows(audios', asel')

(* A removal of a section.                                                 *)
LEMMA RemoveStays ==
  ASSUME StoreInvariant, NEW i \in Int, RemoveSection(i)
  PROVE  VideoStays /\ AudioStays /\ AudioChosen'
<1> DEFINE w == Without(sections, i)
           n == Len(overlays)
<1>1. Settle(w) /\ sel' = Shifted(sel, i) /\ sections' = Ripple(w)
  BY DEF RemoveSection, Settle
<1>2. Playable(sections, n) /\ Len(sections) \in Nat /\ DOMAIN sections = 1..Len(sections)
      /\ sections \in Seq(SectionsOn(n))
  BY StoreFacts
<1>3. Playable(w, n)
  <2> HIDE DEF n
  <2> QED
    BY <1>2, PlayableWithout
<1>4. Follows(audios', asel') /\ AudioChosen' /\ Len(sections') = Len(w)
  <2> HIDE DEF w, n
  <2> QED
    BY <1>1, <1>3, SettleFollows
<1>5. VideoStays
  <2> SUFFICES ASSUME Len(sections') < Len(sections), sel \in DOMAIN sections, sel' # Null
               PROVE  /\ sel' \in DOMAIN sections'
                      /\ sections'[sel'].src = sections[sel].src
                      /\ sections'[sel'].vstart = sections[sel].vstart
    BY DEF VideoStays
  <2>1. i \in 1..Len(sections)
    <3>1. CASE i \notin DOMAIN sections
      <4>1. w = sections
        BY <3>1 DEF Without
      <4> QED
        BY <1>2, <1>4, <4>1
    <3> QED
      BY <1>2, <3>1
  <2>2. sel' \in 1..Len(w) /\ w[sel'] = sections[sel]
    BY <1>1, <1>2, <2>1, RemovedFollows
  <2> HIDE DEF w, n
  <2>3. /\ DOMAIN sections' = 1..Len(w)
        /\ \A k \in 1..Len(w) : SameShow(sections'[k], w[k])
    <3>1. Playable(Ripple(w), n) /\ Len(Ripple(w)) = Len(w)
          /\ \A k \in 1..Len(w) : SameShow(Ripple(w)[k], w[k])
      BY <1>3, RippleChains
    <3>2. DOMAIN Ripple(w) = 1..Len(Ripple(w))
      BY <3>1, PlayableRuns
    <3> QED
      BY <1>1, <3>1, <3>2
  <2> QED
    BY <2>2, <2>3 DEF SameShow
<1> QED
  BY <1>4, <1>5 DEF AudioStays

(* A cut of an audio section, its right half selected and long enough to   *)
(* stay, leaves no fewer of them: none of the others is dropped.           *)
LEMMA SplitAudioStays ==
  ASSUME StoreInvariant, NEW i \in Int, NEW t \in Points, SplitAudio(i, t)
  PROVE  AudioChosen' /\ (asel' # Null => Len(audios') >= Len(audios))
<1> DEFINE a == audios[i]
           right == [a EXCEPT !.start = t, !.astart = @ + (t - a.start)]
           two == <<LeftPart(a, t), right>>
           c == Splice(audios, i, 1, two)
           v == VideoTime(sections)
           N == Len(audios)
           S == Survivors(c, v)
<1>1. /\ i \in DOMAIN audios /\ a.start < t /\ t < a.end
      /\ audios' = Clamped(c, v) /\ asel' = Reselected(c, v, i + 1)
  BY DEF SplitAudio, ChangeAudio
<1>2. /\ v \in Int /\ Audible(audios, v) /\ t \in Int /\ i \in 1..N /\ N \in Nat
      /\ audios \in Seq(AudioSections) /\ DOMAIN audios = 1..N
  BY <1>1, StoreFacts
<1>3. Separate(c) /\ c \in Seq(AudioSections)
  <2>1. Separate(c)
    <3> HIDE DEF v
    <3> QED
      BY <1>1, <1>2, CutSeparate
  <2> QED
    BY <2>1 DEF Separate
<1>4. /\ Len(c) = N + 1 /\ (\A k \in 1..(i - 1) : c[k] = audios[k])
      /\ \A k \in (i + 1)..N : c[k - 1 + 2] = audios[k]
  <2>1. two \in Seq(AudioSections) /\ Len(two) = 2
    <3>1. a \in AudioSections /\ a.start \in Int /\ a.astart \in Int
      BY <1>2, AudioSection
    <3> HIDE DEF a
    <3>2. LeftPart(a, t) \in AudioSections
      BY <1>2, <3>1 DEF LeftPart, AudioSections
    <3>3. right \in AudioSections
      <4> DEFINE as == a.astart + (t - a.start)
      <4>1. as \in Int /\ right = [a EXCEPT !.start = t, !.astart = as]
        BY <1>2, <3>1
      <4> HIDE DEF as, right
      <4> QED
        BY <1>2, <3>1, <4>1 DEF AudioSections
    <3> DEFINE l == LeftPart(a, t)
    <3> HIDE DEF right
    <3>4. two = <<l, right>> /\ l \in AudioSections /\ right \in AudioSections
      BY <3>2, <3>3
    <3> HIDE DEF l, two
    <3> QED
      BY <3>4
  <2> HIDE DEF two
  <2>2. i \in Nat /\ 1 \in Nat /\ 1 <= i /\ i + 1 <= Len(audios) + 1
    BY <1>2
  <2>3. SplicedTo(audios, i, 1, two, c)
    BY <1>2, <2>1, <2>2, Spliced
  <2> QED
    BY <1>2, <2>1, <2>3 DEF SplicedTo
<1> HIDE DEF c, v
<1>5. Len(audios') = Cardinality(S)
  BY <1>1, <1>2, <1>3, ClampedAudible
<1>6. Cardinality(S) \in Nat /\ asel' \in {Null} \cup 1..Cardinality(S)
  BY <1>1, <1>3, ReselectedIsLeft
<1>7. AudioChosen'
  <2>1. Audible(audios', v)
    BY <1>1, <1>2, <1>3, ClampedAudible
  <2>2. DOMAIN audios' = 1..Len(audios')
    BY <2>1 DEF Audible
  <2> QED
    BY <1>5, <1>6, <2>2 DEF AudioChosen
<1>8. ASSUME asel' # Null PROVE Len(audios') >= N
  <2>1. i + 1 \in S
    BY <1>1, <1>8 DEF Reselected
  <2>2. Survivors(audios, v) = 1..N
    BY <1>2, AudibleStays
  <2>3. DOMAIN c = 1..(N + 1)
    BY <1>3, <1>4
  <2>4. ASSUME NEW k \in (1..(N + 1)) \ {i} PROVE k \in S
    <3>1. CASE k < i
      <4>1. c[k] = audios[k] /\ k \in 1..N
        BY <1>2, <1>4, <2>4, <3>1
      <4> QED
        BY <1>2, <2>2, <2>3, <4>1 DEF Survivors
    <3>2. CASE k > i + 1
      <4> DEFINE h == k - 1
      <4>1. h \in (i + 1)..N /\ h \in 1..N /\ h - 1 + 2 = k
        BY <1>2, <2>4, <3>2
      <4> HIDE DEF h
      <4>2. c[k] = audios[h]
        BY <1>4, <4>1
      <4> QED
        BY <1>2, <2>2, <2>3, <4>1, <4>2 DEF Survivors
    <3> QED
      BY <1>2, <2>1, <2>4, <3>1, <3>2
  <2>5. S \subseteq 1..(N + 1)
    BY <2>3 DEF Survivors
  <2> HIDE DEF S, N
  <2> DEFINE All == 1..(N + 1)
  <2>6. IsFiniteSet(All) /\ Cardinality(All) = N + 1
    <3> DEFINE M == N + 1
    <3>1. 1 \in Int /\ M \in Int /\ 1 <= M /\ M - 1 + 1 = M
      BY <1>2 DEF N
    <3> HIDE DEF M
    <3>2. IsFiniteSet(1..M) /\ Cardinality(1..M) = M
      BY <3>1, FS_Interval
    <3> QED
      BY <3>2 DEF M
  <2>7. IsFiniteSet(All \ {i}) /\ Cardinality(All \ {i}) = N
    <3>1. i \in All
      BY <1>2 DEF N
    <3> HIDE DEF All
    <3>2. IsFiniteSet(All \ {i}) /\ Cardinality(All \ {i}) = Cardinality(All) - 1
      BY <2>6, <3>1, FS_RemoveElement
    <3> QED
      BY <1>2, <2>6, <3>2
  <2>8. IsFiniteSet(S) /\ All \ {i} \subseteq S
    BY <2>4, <2>5, <2>6, FS_Subset
  <2> HIDE DEF All
  <2>9. Cardinality(All \ {i}) <= Cardinality(S)
    BY <2>8, FS_Subset
  <2> QED
    BY <1>5, <1>6, <2>7, <2>9
<1> QED
  BY <1>7, <1>8

(* A change of the audio alone.                                            *)
LEMMA SoundStays ==
  ASSUME StoreInvariant, AudioChosen, SoundStep
  PROVE  VideoStays /\ AudioStays /\ AudioChosen'
<1>1. Len(sections) \in Nat /\ Len(audios) \in Nat /\ DOMAIN audios = 1..Len(audios)
      /\ audios \in Seq(AudioSections)
  BY StoreFacts
<1>2. VideoStays
  <2>1. sections' = sections
    BY DEF SoundStep, AudioTrim, AddAudioNext, AddAudioAt, RemoveAudio, SplitAudio, MoveAudio,
           TrimAudioStart, TrimAudioEnd, TrimAudio, ChangeAudio
  <2> QED
    BY <1>1, <2>1 DEF VideoStays
<1>3. CASE asel' = Lost
  BY <1>2, <1>3 DEF AudioStays, Follows, AudioChosen
<1>4. CASE AudioTrim
  <2>1. PICK i, a : audios' = [audios EXCEPT ![i] = a] /\ selection' = selection
    BY <1>4 DEF AudioTrim, TrimAudioStart, TrimAudioEnd, TrimAudio, ChangeAudio
  <2>2. asel' = asel /\ DOMAIN audios' = DOMAIN audios
    BY <2>1 DEF selection
  <2>3. Len(audios') = Len(audios)
    BY <1>1, <2>1
  <2> QED
    BY <1>1, <1>2, <2>2, <2>3 DEF AudioStays, AudioChosen
<1>5. ASSUME NEW i \in DOMAIN audios \cup {asel}, RemoveAudio(i)
      PROVE  AudioStays /\ AudioChosen'
  <2>1. audios' = Without(audios, IF i = Lost THEN Len(audios) ELSE i) /\ asel' = Shifted(asel, i)
    BY <1>5 DEF RemoveAudio, ChangeAudio
  <2>2. CASE asel \in {Null, Lost} \/ i = asel
    <3>1. asel' \in {Null, Lost}
      BY <1>1, <2>1, <2>2 DEF Shifted, Null, Lost
    <3> QED
      BY <3>1 DEF AudioStays, Follows, AudioChosen
  <2>3. CASE asel \notin {Null, Lost} /\ i # asel
    <3>1. i \in 1..Len(audios) /\ asel \in 1..Len(audios) /\ i # Lost
      BY <1>1, <2>3 DEF AudioChosen, Lost
    <3>2. Shifted(asel, i) # Null
      BY <1>1, <2>3, <3>1 DEF Shifted, Null
    <3>3. audios' = Without(audios, i)
      BY <2>1, <3>1
    <3>4. asel' \in 1..Len(audios') /\ audios'[asel'] = audios[asel]
      BY <1>1, <2>1, <3>1, <3>2, <3>3, RemovedFollows
    <3>5. StoreInvariant'
      <4>1. i \in Int
        BY <1>1, <3>1
      <4> QED
        BY <1>5, <4>1, RemoveAudioFits
    <3>6. DOMAIN audios' = 1..Len(audios')
      BY <3>5 DEF StoreInvariant, Fitting, Audible
    <3> QED
      BY <3>4, <3>6 DEF AudioStays, Follows, AudioChosen
  <2> QED
    BY <2>2, <2>3
<1>6. ASSUME NEW i \in Int, NEW t \in Points, SplitAudio(i, t)
      PROVE  AudioStays /\ AudioChosen'
  BY <1>6, SplitAudioStays DEF AudioStays, Follows
<1>7. \/ asel' = Lost \/ AudioTrim
      \/ \E i \in DOMAIN audios \cup {asel} : RemoveAudio(i)
      \/ \E i \in Int, t \in Points : SplitAudio(i, t)
  BY DEF SoundStep, AddAudioNext, AddAudioAt, MoveAudio
<1> QED
  BY <1>2, <1>3, <1>4, <1>5, <1>6, <1>7

(* Every step of the store lets the selections stay.                       *)
LEMMA StoreStepStays ==
  ASSUME StoreInvariant, AudioChosen, StoreStep
  PROVE  VideoStays /\ AudioStays /\ AudioChosen'
<1>1. Len(sections) \in Nat /\ Len(audios) \in Nat
  BY StoreFacts
<1>2. ASSUME Len(sections') = Len(sections) PROVE VideoStays
  BY <1>1, <1>2 DEF VideoStays
<1>3. ASSUME audios' = audios, asel' \in {Null, Lost, asel} \cup DOMAIN audios
      PROVE  AudioStays /\ AudioChosen'
  BY <1>1, <1>3 DEF AudioStays, AudioChosen
<1>4. ASSUME NEW n, NEW secs, Playable(secs, n), Settle(secs)
      PROVE  AudioStays /\ AudioChosen' /\ Len(sections') = Len(secs)
  BY <1>4, SettleFollows DEF AudioStays
<1>5. CASE EditStep
  <2>1. PICK i \in Int : InPlace(i)
    BY <1>5 DEF EditStep
  <2>2. CASE VideoTrim(i)
    <3>1. PICK s : TrimsTo(i, s)
      BY <2>2, VideoTrimForm DEF VideoTrim
    <3>2. Playable(s, Len(overlays)) /\ Settle(s) /\ Len(s) = Len(sections)
      BY <3>1 DEF TrimsTo
    <3> QED
      BY <1>2, <1>4, <3>2
  <2>3. CASE AddOverlay(i) \/ \E v \in {0, 1} : SetEffects(i, v) \/ \E k \in Int : EditOverlay(i, k, v)
    <3>1. PICK x : sections' = sections \/ sections' = [sections EXCEPT ![i] = x]
      <4>1. \A y : [sections EXCEPT ![i].over = y]
                   = [sections EXCEPT ![i] = [sections[i] EXCEPT !.over = y]]
        BY StoreFacts
      <4>2. \A y : [sections EXCEPT ![i].effects = y]
                   = [sections EXCEPT ![i] = [sections[i] EXCEPT !.effects = y]]
        BY StoreFacts
      <4>3. \/ sections' = sections
            \/ sections' = [sections EXCEPT ![i].over = Append(sections[i].over, Len(overlays) + 1)]
            \/ \E v \in {0, 1} : sections' = [sections EXCEPT ![i].effects = v]
        BY <2>3 DEF AddOverlay, SetEffects, EditOverlay
      <4> QED
        BY <4>1, <4>2, <4>3
    <3>2. Len(sections') = Len(sections)
      <4>1. sections \in Seq(SectionsOn(Len(overlays)))
        BY StoreFacts
      <4>2. Len([sections EXCEPT ![i] = x]) = Len(sections)
        BY <4>1
      <4> QED
        BY <3>1, <4>2
    <3>3. audios' = audios /\ asel' = asel
      BY <2>3 DEF AddOverlay, SetEffects, EditOverlay, selection
    <3> QED
      BY <1>2, <1>3, <3>2, <3>3
  <2> QED
    BY <2>1, <2>2, <2>3 DEF InPlace
<1>6. CASE GrowStep
  <2>1. PICK n, h, r : Grown(n, h, r)
    BY <1>6, GrowForm
  <2>2. Len(sections') > Len(sections) /\ Len(sections') \in Nat
    BY <2>1, GrownIsLonger
  <2>3. VideoStays
    BY <1>1, <2>2 DEF VideoStays
  <2>4. Playable(r, n) /\ (Settle(r) \/ UNCHANGED <<audios, asel>>)
    BY <2>1 DEF Grown
  <2> QED
    BY <1>3, <1>4, <2>3, <2>4
<1>7. CASE RemoveStep
  BY <1>7, RemoveStays DEF RemoveStep
<1>8. CASE ReorderStep
  <2>1. PICK from, at, w, s : Reordered(from, at, w, s)
    BY <1>8, ReorderForm DEF ReorderStep
  <2>2. Playable(s, Len(overlays)) /\ Settle(s) /\ Len(s) = Len(w) + 1 /\ Len(w) = Len(sections) - 1
    BY <2>1 DEF Reordered, Put, Out
  <2>3. Len(s) = Len(sections)
    BY <1>1, <2>2
  <2> QED
    BY <1>2, <1>4, <2>2, <2>3
<1>9. CASE SoundStep
  BY <1>9, SoundStays
<1>10. CASE ChooseStep
  <2>1. /\ sections' = sections /\ audios' = audios
        /\ asel' \in {Null, asel} \cup DOMAIN audios
    BY <1>10 DEF ChooseStep, SelectSection, SelectAudio, SelectOverlay
  <2> QED
    BY <1>2, <1>3, <2>1
<1>11. CASE Load
  <2>1. sel' = Null /\ asel' = Null
    BY <1>11 DEF Load, LoadState
  <2> QED
    BY <2>1 DEF VideoStays, AudioStays, Follows, AudioChosen
<1>12. CASE UNCHANGED store
  BY <1>2, <1>3, <1>12 DEF store, selection
<1> QED
  BY <1>5, <1>6, <1>7, <1>8, <1>9, <1>10, <1>11, <1>12 DEF StoreStep

(* A selection that points at a section, and is not Lost, stays on it      *)
(* while others are removed around it, a video is cut short over the       *)
(* audio, or a gesture goes on.                                            *)
THEOREM SelectionStaysHolds == EditorSpec => SelectionStays
<1>1. EditorInit => AudioChosen
  BY DEF EditorInit, StoreInit, AudioChosen
<1>2. TimelineInvariant /\ AudioChosen /\ [EditorNext]_editorVars
        => VideoStays /\ AudioStays /\ AudioChosen'
  <2> SUFFICES ASSUME TimelineInvariant, AudioChosen, [EditorNext]_editorVars
               PROVE  VideoStays /\ AudioStays /\ AudioChosen'
    OBVIOUS
  <2> QED
    BY EveryStep, StoreStepStays DEF TimelineInvariant
<1> DEFINE Stays ==
      /\ Len(sections') < Len(sections) /\ sel \in DOMAIN sections /\ sel' # Null =>
           /\ sel' \in DOMAIN sections'
           /\ sections'[sel'].src = sections[sel].src
           /\ sections'[sel'].vstart = sections[sel].vstart
      /\ Len(audios') < Len(audios) /\ asel' \notin {Null, Lost} =>
           /\ asel' \in DOMAIN audios'
           /\ audios'[asel'].start = audios[asel].start
           /\ audios'[asel'].src = audios[asel].src
<1>3. VideoStays /\ AudioStays => Stays
  BY DEF VideoStays, AudioStays, Follows
<1>4. TimelineInvariant /\ AudioChosen /\ [EditorNext]_editorVars => AudioChosen' /\ [Stays]_store
  BY <1>2, <1>3
<1>5. SelectionStays <=> [][Stays]_store
  BY DEF SelectionStays
<1> HIDE DEF Stays
<1> QED
  BY <1>1, <1>4, <1>5, TimelineInvariantHolds, PTL DEF EditorSpec

-----------------------------------------------------------------------------
(* Edits *)

(* No two sections show an overlay.                                        *)
Disjoint(secs) ==
  \A i, j \in 1..Len(secs) :
    i # j => \A k \in DOMAIN secs[i].over, l \in DOMAIN secs[j].over :
               secs[i].over[k] # secs[j].over[l]

(* Nor do they after a load.                                               *)
LEMMA GrowsThroughout ==
  ASSUME NEW N \in Nat, NEW h \in [0..N -> Int], \A i \in 1..N : h[i - 1] <= h[i]
  PROVE  \A i, j \in 0..N : i <= j => h[i] <= h[j]
<1> SUFFICES ASSUME NEW i \in 0..N, NEW j \in 0..N, i <= j PROVE h[i] <= h[j]
  OBVIOUS
<1> DEFINE g == [m \in 0..j |-> h[m]]
<1>1. j \in Nat /\ g \in [0..j -> Int] /\ i \in 0..j /\ j \in 0..j
  OBVIOUS
<1>2. \A m \in 1..j : g[m - 1] <= g[m]
  <2>1. ASSUME NEW m \in 1..j PROVE g[m - 1] <= g[m]
    <3>1. m \in 1..N /\ m - 1 \in 0..j /\ m \in 0..j
      OBVIOUS
    <3> QED
      BY <3>1
  <2> QED
    BY <2>1
<1>3. g[i] = h[i] /\ g[j] = h[j]
  BY <1>1
<1> HIDE DEF g
<1>4. g[i] <= g[j]
  BY <1>1, <1>2, GrowsToLast
<1> QED
  BY <1>3, <1>4

LEMMA NumberedIsDisjoint ==
  ASSUME NEW n, NEW secs, Playable(secs, n), NEW f, Numbered(secs, f)
  PROVE  Disjoint(secs)
<1> DEFINE N == Len(secs)
<1>1. /\ N \in Nat /\ f \in [0..N -> Int] /\ \A i \in 1..N : f[i - 1] <= f[i]
      /\ \A i \in 1..N : \A k \in DOMAIN secs[i].over :
           f[i - 1] < secs[i].over[k] /\ secs[i].over[k] <= f[i]
  BY PlayableRuns DEF Numbered
<1>2. \A i, j \in 0..N : i <= j => f[i] <= f[j]
  <2> HIDE DEF N
  <2> QED
    BY <1>1, GrowsThroughout
<1>3. \A i \in 1..N : \A k \in DOMAIN secs[i].over : secs[i].over[k] \in Int
  <2>1. ASSUME NEW i \in 1..N PROVE \A k \in DOMAIN secs[i].over : secs[i].over[k] \in Int
    <3>1. secs[i] \in SectionsOn(n)
      <4>1. secs \in Seq(SectionsOn(n))
        BY PlayableRuns
      <4> QED
        BY <4>1, ElementOfSeq
    <3> QED
      BY <3>1, SectionFields
  <2> QED
    BY <2>1
<1>4. ASSUME NEW i \in 1..N, NEW j \in 1..N, i < j,
             NEW k \in DOMAIN secs[i].over, NEW l \in DOMAIN secs[j].over
      PROVE  secs[i].over[k] # secs[j].over[l]
  <2>1. i \in 0..N /\ j - 1 \in 0..N /\ i <= j - 1
    BY <1>1, <1>4
  <2>2. f[i] <= f[j - 1] /\ f[i] \in Int /\ f[j - 1] \in Int
    BY <1>1, <1>2, <2>1
  <2>3. secs[i].over[k] <= f[i] /\ f[j - 1] < secs[j].over[l]
    BY <1>1
  <2> QED
    BY <1>3, <2>2, <2>3
<1>5. \A i, j \in 1..N : i < j \/ j < i \/ i = j
  BY <1>1
<1> QED
  BY <1>4, <1>5 DEF Disjoint

(* What is made of the sections of a list, each taken once but for those   *)
(* with no overlays.                                                       *)
Taken(secs, f, r) ==
  /\ \A k \in 1..Len(r) : f[k] \in 1..Len(secs) /\ r[k].over = secs[f[k]].over
  /\ \A k, l \in 1..Len(r) : k # l => f[k] # f[l] \/ r[k].over = <<>>

LEMMA TakenStaysDisjoint ==
  ASSUME NEW secs, Disjoint(secs), NEW r, NEW f, Taken(secs, f, r)
  PROVE  Disjoint(r)
<1> SUFFICES ASSUME NEW i \in 1..Len(r), NEW j \in 1..Len(r), i # j,
                    NEW k \in DOMAIN r[i].over, NEW l \in DOMAIN r[j].over
             PROVE  r[i].over[k] # r[j].over[l]
  BY DEF Disjoint
<1>1. r[i].over # <<>>
  <2>1. DOMAIN <<>> = {}
    OBVIOUS
  <2> QED
    BY <2>1
<1>2. f[i] # f[j] /\ f[i] \in 1..Len(secs) /\ f[j] \in 1..Len(secs)
  BY <1>1 DEF Taken
<1> DEFINE x == secs[f[i]]
           y == secs[f[j]]
<1>3. r[i].over = x.over /\ r[j].over = y.over
  BY DEF Taken
<1>4. \A a \in DOMAIN x.over, b \in DOMAIN y.over : x.over[a] # y.over[b]
  BY <1>2 DEF Disjoint
<1> HIDE DEF x, y
<1> QED
  BY <1>3, <1>4

(* And of one more, with overlays none of them shows.                      *)
LEMMA PutStaysDisjoint ==
  ASSUME NEW secs, Len(secs) \in Nat, Disjoint(secs), NEW j, NEW y, NEW r, Put(secs, j, y, r),
         \A i \in 1..Len(secs) : \A k \in DOMAIN secs[i].over, l \in DOMAIN y.over :
           secs[i].over[k] # y.over[l]
  PROVE  Disjoint(r)
<1> DEFINE old(k) == IF k < j THEN k ELSE k - 1
<1>1. /\ j \in 1..(Len(secs) + 1) /\ Len(r) = Len(secs) + 1 /\ r[j] = y
      /\ \A k \in 1..(j - 1) : r[k] = secs[k]
      /\ \A k \in j..Len(secs) : r[k + 1] = secs[k]
  BY DEF Put
<1>2. ASSUME NEW k \in 1..Len(r), k # j
      PROVE  old(k) \in 1..Len(secs) /\ r[k] = secs[old(k)]
  <2>1. CASE k < j
    <3>1. k \in 1..(j - 1) /\ k \in 1..Len(secs) /\ old(k) = k
      BY <1>1, <2>1
    <3> QED
      BY <1>1, <3>1
  <2>2. CASE k > j
    <3> DEFINE h == k - 1
    <3>1. h \in j..Len(secs) /\ h \in 1..Len(secs) /\ h + 1 = k /\ old(k) = h
      BY <1>1, <2>2
    <3> HIDE DEF h, old
    <3> QED
      BY <1>1, <3>1
  <2>3. k < j \/ k > j
    BY <1>1, <1>2
  <2> QED
    BY <2>1, <2>2, <2>3
<1>3. ASSUME NEW k \in 1..Len(r), NEW l \in 1..Len(r), k # l, k # j, l # j
      PROVE  old(k) # old(l)
  BY <1>1, <1>3
<1> HIDE DEF old
<1> SUFFICES ASSUME NEW i \in 1..Len(r), NEW m \in 1..Len(r), i # m,
                    NEW k \in DOMAIN r[i].over, NEW l \in DOMAIN r[m].over
             PROVE  r[i].over[k] # r[m].over[l]
  BY DEF Disjoint
<1>4. CASE i = j
  BY <1>1, <1>2, <1>4
<1>5. CASE m = j
  BY <1>1, <1>2, <1>5
<1>6. CASE i # j /\ m # j
  BY <1>2, <1>3, <1>6 DEF Disjoint
<1> QED
  BY <1>4, <1>5, <1>6

(* Until a section with overlays is cut, no two sections share any.        *)
Unshared == ~cut => Disjoint(sections)

LEMMA RippleDisjoint ==
  ASSUME NEW n, NEW secs, Playable(secs, n), Disjoint(secs)
  PROVE  Disjoint(Ripple(secs))
<1> DEFINE f == [k \in 1..Len(secs) |-> k]
           r == Ripple(secs)
<1>1. Len(r) = Len(secs) /\ \A k \in 1..Len(secs) : SameShow(r[k], secs[k])
  BY RippleChains
<1> HIDE DEF r
<1>2. \A k \in 1..Len(r) : f[k] \in 1..Len(secs) /\ r[k].over = secs[f[k]].over
  BY <1>1 DEF SameShow
<1>3. \A k, l \in 1..Len(r) : k # l => f[k] # f[l] \/ r[k].over = <<>>
  BY <1>1
<1> HIDE DEF f
<1>4. Taken(secs, f, r)
  BY <1>2, <1>3 DEF Taken
<1> QED
  BY <1>4, TakenStaysDisjoint DEF r

(* A removal.                                                              *)
LEMMA OutDisjoint ==
  ASSUME NEW secs, Len(secs) \in Nat, Disjoint(secs), NEW i, NEW w, Out(secs, i, w)
  PROVE  /\ Disjoint(w)
         /\ \A k \in 1..Len(w) :
              \E j \in 1..Len(secs) : j # i /\ w[k].over = secs[j].over
<1> DEFINE f == [k \in 1..Len(w) |-> IF k < i THEN k ELSE k + 1]
<1>1. /\ i \in 1..Len(secs) /\ Len(w) = Len(secs) - 1
      /\ \A k \in 1..(i - 1) : w[k] = secs[k]
      /\ \A k \in i..(Len(secs) - 1) : w[k] = secs[k + 1]
  BY DEF Out
<1>2. ASSUME NEW k \in 1..Len(w)
      PROVE  f[k] \in 1..Len(secs) /\ f[k] # i /\ w[k].over = secs[f[k]].over
  <2>1. CASE k < i
    <3>1. k \in 1..(i - 1) /\ k \in 1..Len(secs) /\ f[k] = k
      BY <1>1, <2>1
    <3> HIDE DEF f
    <3> QED
      BY <1>1, <2>1, <3>1
  <2>2. CASE k >= i
    <3>1. k \in i..(Len(secs) - 1) /\ k + 1 \in 1..Len(secs) /\ f[k] = k + 1 /\ k + 1 # i
      BY <1>1, <2>2
    <3> HIDE DEF f
    <3> QED
      BY <1>1, <3>1
  <2>3. k < i \/ k >= i
    BY <1>1
  <2> QED
    BY <2>1, <2>2, <2>3
<1>3. \A k, l \in 1..Len(w) : k # l => f[k] # f[l] \/ w[k].over = <<>>
  BY <1>1
<1> HIDE DEF f
<1>4. Taken(secs, f, w)
  BY <1>2, <1>3 DEF Taken
<1> QED
  BY <1>2, <1>4, TakenStaysDisjoint

(* A cut.                                                                  *)
LEMMA CutTakes ==
  ASSUME StoreInvariant, NEW h, CutOrNot(h)
  PROVE  \E f : /\ \A k \in 1..Len(h) : f[k] \in 1..Len(sections) /\ h[k].over = sections[f[k]].over
                /\ ~cut' => ~cut /\ Taken(sections, f, h)
<1>1. /\ Len(sections) \in Nat
      /\ \A k \in 1..Len(sections) : sections[k] \in SectionsOn(Len(overlays))
  BY StoreFacts
<1>2. CASE h = sections /\ cut' = cut
  <2> DEFINE f == [k \in 1..Len(h) |-> k]
  <2>1. \A k \in 1..Len(h) : f[k] = k
    OBVIOUS
  <2> HIDE DEF f
  <2>2. /\ \A k \in 1..Len(h) : f[k] \in 1..Len(sections) /\ h[k].over = sections[f[k]].over
        /\ \A k, l \in 1..Len(h) : k # l => f[k] # f[l]
    BY <1>2, <2>1
  <2>3. ~cut' => ~cut
    BY <1>2
  <2> QED
    BY <2>2, <2>3 DEF Taken
<1>3. CASE \E i, t : Halved(sections, i, t, h) /\ cut' = (cut \/ sections[i].over # <<>>)
  <2>1. PICK i, t : Halved(sections, i, t, h) /\ cut' = (cut \/ sections[i].over # <<>>)
    BY <1>3
  <2> DEFINE f == [k \in 1..Len(h) |-> IF k <= i THEN k ELSE k - 1]
  <2>2. /\ i \in 1..Len(sections) /\ Len(h) = Len(sections) + 1
        /\ \A k \in 1..(i - 1) : h[k] = sections[k]
        /\ h[i] = LeftPart(sections[i], t) /\ h[i + 1] = RightPart(sections[i], t)
        /\ \A k \in (i + 1)..Len(sections) : h[k + 1] = sections[k]
    BY <2>1 DEF Halved
  <2>3. h[i].over = sections[i].over /\ h[i + 1].over = sections[i].over
    <3> DEFINE x == sections[i]
    <3>1. x \in SectionsOn(Len(overlays)) /\ h[i] = LeftPart(x, t) /\ h[i + 1] = RightPart(x, t)
      BY <1>1, <2>2
    <3> HIDE DEF x
    <3>2. LeftPart(x, t).over = x.over /\ RightPart(x, t).over = x.over
      BY <3>1 DEF LeftPart, RightPart, SectionsOn
    <3> QED
      BY <3>1, <3>2 DEF x
  <2>4. ASSUME NEW k \in 1..Len(h)
        PROVE  f[k] \in 1..Len(sections) /\ h[k].over = sections[f[k]].over
    <3>1. CASE k < i
      <4>1. k \in 1..(i - 1) /\ k \in 1..Len(sections) /\ f[k] = k
        BY <1>1, <2>2, <3>1
      <4> HIDE DEF f
      <4> QED
        BY <2>2, <4>1
    <3>2. CASE k = i
      <4>1. f[k] = i
        BY <1>1, <2>2, <3>2
      <4> HIDE DEF f
      <4> QED
        BY <2>2, <2>3, <3>2, <4>1
    <3>3. CASE k = i + 1
      <4>1. f[k] = i
        BY <1>1, <2>2, <3>3
      <4> HIDE DEF f
      <4> QED
        BY <2>2, <2>3, <3>3, <4>1
    <3>4. CASE k > i + 1
      <4> DEFINE m == k - 1
      <4>1. m \in (i + 1)..Len(sections) /\ m \in 1..Len(sections) /\ f[k] = m /\ m + 1 = k
        BY <1>1, <2>2, <3>4
      <4> HIDE DEF f, m
      <4> QED
        BY <2>2, <4>1
    <3>5. k < i \/ k = i \/ k = i + 1 \/ k > i + 1
      BY <1>1, <2>2
    <3> QED
      BY <3>1, <3>2, <3>3, <3>4, <3>5
  <2>5. ASSUME NEW k \in 1..Len(h), NEW l \in 1..Len(h), k # l, f[k] = f[l]
        PROVE  f[k] = i
    BY <1>1, <2>2, <2>5
  <2> HIDE DEF f
  <2>6. ~cut' => ~cut /\ sections[i].over = <<>>
    BY <2>1
  <2>7. ASSUME ~cut' PROVE \A k, l \in 1..Len(h) : k # l => f[k] # f[l] \/ h[k].over = <<>>
    <3>1. sections[i].over = <<>>
      BY <2>6, <2>7
    <3> QED
      BY <2>4, <2>5, <3>1
  <2> QED
    BY <2>4, <2>6, <2>7 DEF Taken
<1> QED
  BY <1>2, <1>3 DEF CutOrNot

LEMMA GrownUnshared ==
  ASSUME StoreInvariant, Unshared, NEW n, NEW h, NEW r, Grown(n, h, r)
  PROVE  Unshared'
<1> SUFFICES ASSUME ~cut' PROVE Disjoint(sections')
  BY DEF Unshared
<1> DEFINE N == Len(overlays)
<1>1. /\ N \in Nat /\ Len(sections) \in Nat /\ Playable(h, n) /\ Playable(r, n) /\ CutOrNot(h)
      /\ sections' = Ripple(r)
      /\ \A k \in 1..Len(sections) : sections[k] \in SectionsOn(N)
  BY StoreFacts DEF Grown
<1>2. PICK f :
        /\ \A k \in 1..Len(h) : f[k] \in 1..Len(sections) /\ h[k].over = sections[f[k]].over
        /\ ~cut /\ Taken(sections, f, h)
  BY <1>1, CutTakes
<1>3. Disjoint(sections)
  BY <1>2 DEF Unshared
<1>4. Disjoint(h)
  BY <1>2, <1>3, TakenStaysDisjoint
<1>5. ASSUME NEW j, NEW y, Put(h, j, y, r), AddedWith(y) PROVE Disjoint(r)
  <2>1. Len(h) \in Nat
    BY <1>1, PlayableRuns
  <2>2. ASSUME NEW i \in 1..Len(h), NEW k \in DOMAIN h[i].over, NEW l \in DOMAIN y.over
        PROVE  h[i].over[k] # y.over[l]
    <3> DEFINE x == sections[f[i]]
    <3>1. x \in SectionsOn(N) /\ h[i].over = x.over
      BY <1>1, <1>2
    <3> HIDE DEF x, N
    <3>2. h[i].over[k] \in 1..N
      BY <3>1, SectionFields
    <3>3. CASE y.over = <<>>
      <4>1. DOMAIN <<>> = {}
        OBVIOUS
      <4> QED
        BY <3>3, <4>1
    <3>4. CASE \E m \in Nat : y.over = [a \in 1..m |-> N + a]
      <4>1. y.over[l] = N + l /\ l \in Nat /\ l >= 1
        BY <3>4
      <4> QED
        BY <1>1, <3>2, <4>1
    <3> QED
      BY <1>5, <3>3, <3>4 DEF AddedWith, N
  <2> QED
    BY <1>4, <1>5, <2>1, <2>2, PutStaysDisjoint
<1>6. Disjoint(r)
  BY <1>4, <1>5 DEF Grown
<1> QED
  BY <1>1, <1>6, RippleDisjoint

(* A new overlay, of one section.                                          *)
LEMMA NewOverlayUnshared ==
  ASSUME StoreInvariant, Unshared, NEW i, AddOverlay(i)
  PROVE  Unshared'
<1> SUFFICES ASSUME ~cut' PROVE Disjoint(sections')
  BY DEF Unshared
<1> DEFINE N == Len(overlays)
           m == N + 1
           o == sections[i].over
           p == Append(o, m)
<1>1. /\ i \in DOMAIN sections /\ sections' = [sections EXCEPT ![i].over = p] /\ cut' = cut
  BY DEF AddOverlay
<1>2. /\ N \in Nat /\ sections \in Seq(SectionsOn(N)) /\ i \in 1..Len(sections)
      /\ Len(sections) \in Nat
      /\ \A k \in 1..Len(sections) : sections[k] \in SectionsOn(N)
  BY <1>1, StoreFacts
<1>3. Disjoint(sections)
  BY <1>1 DEF Unshared
<1> HIDE DEF N
<1>4. \A k \in 1..Len(sections) :
        /\ Len(sections[k].over) \in Nat /\ DOMAIN sections[k].over = 1..Len(sections[k].over)
        /\ \A l \in 1..Len(sections[k].over) : sections[k].over[l] \in 1..N
  BY <1>2, SectionFields
<1>5. Len(sections') = Len(sections) /\ (\A k \in 1..Len(sections) : k # i => sections'[k] = sections[k])
  BY <1>1, <1>2
<1>6. sections'[i].over = p
  <2> DEFINE x == sections[i]
  <2>1. sections' = [sections EXCEPT ![i] = [x EXCEPT !.over = p]] /\ x \in SectionsOn(N)
    BY <1>1, <1>2
  <2> HIDE DEF x, p
  <2>2. [x EXCEPT !.over = p].over = p
    BY <2>1 DEF SectionsOn
  <2> QED
    BY <1>2, <2>1, <2>2
<1>7. ASSUME NEW l \in DOMAIN p PROVE (l \in DOMAIN o /\ p[l] = o[l]) \/ p[l] = m
  <2>1. o \in Seq(1..N)
    BY <1>2, SectionFields
  <2> HIDE DEF o, m
  <2> QED
    BY <2>1
<1>8. ASSUME NEW k \in 1..Len(sections), k # i, NEW a \in DOMAIN sections[k].over,
             NEW l \in DOMAIN p
      PROVE  sections[k].over[a] # p[l]
  <2>1. sections[k].over[a] \in 1..N /\ sections[k].over[a] # m
    BY <1>2, <1>4
  <2>2. CASE l \in DOMAIN o /\ p[l] = o[l]
    <3>1. sections[k].over[a] # o[l]
      BY <1>2, <1>3, <1>8, <2>2 DEF Disjoint
    <3> QED
      BY <2>2, <3>1
  <2>3. CASE p[l] = m
    BY <2>1, <2>3
  <2> QED
    BY <1>7, <2>2, <2>3
<1> HIDE DEF p
<1> SUFFICES ASSUME NEW j \in 1..Len(sections), NEW k \in 1..Len(sections), j # k,
                    NEW a \in DOMAIN sections'[j].over, NEW b \in DOMAIN sections'[k].over
             PROVE  sections'[j].over[a] # sections'[k].over[b]
  BY <1>5 DEF Disjoint
<1>9. CASE j = i
  BY <1>5, <1>6, <1>8, <1>9
<1>10. CASE k = i
  BY <1>5, <1>6, <1>8, <1>10
<1>11. CASE j # i /\ k # i
  <2>1. sections'[j] = sections[j] /\ sections'[k] = sections[k]
    BY <1>5, <1>11
  <2> QED
    BY <1>3, <2>1 DEF Disjoint
<1> QED
  BY <1>9, <1>10, <1>11

(* What the sections show stays theirs.                                    *)
LEMMA SameOverlays ==
  ASSUME Unshared, cut' = cut, NEW s, Len(s) = Len(sections), sections' = s,
         \A k \in 1..Len(sections) : s[k].over = sections[k].over
  PROVE  Unshared'
<1> SUFFICES ASSUME ~cut' PROVE Disjoint(s)
  BY DEF Unshared
<1>1. Disjoint(sections)
  BY DEF Unshared
<1> DEFINE f == [k \in 1..Len(s) |-> k]
<1>2. Taken(sections, f, s)
  BY DEF Taken
<1> QED
  BY <1>1, <1>2, TakenStaysDisjoint

LEMMA SettledUnshared ==
  ASSUME StoreInvariant, NEW n, NEW secs, Playable(secs, n), Settle(secs),
         ~cut' => Disjoint(secs)
  PROVE  Unshared'
<1>1. sections' = Ripple(secs)
  BY DEF Settle
<1> QED
  BY <1>1, RippleDisjoint DEF Unshared

LEMMA StaysUnshared ==
  ASSUME StoreInvariant, Unshared, StoreStep
  PROVE  Unshared'
<1> DEFINE N == Len(overlays)
<1>1. /\ Len(sections) \in Nat /\ Playable(sections, N) /\ sections \in Seq(SectionsOn(N))
      /\ DOMAIN sections = 1..Len(sections)
      /\ \A k \in 1..Len(sections) : sections[k] \in SectionsOn(N)
  BY StoreFacts
<1> HIDE DEF N
<1>2. ASSUME sections' = sections, cut' = cut PROVE Unshared'
  BY <1>2 DEF Unshared
<1>3. CASE EditStep
  <2>1. PICK i \in Int : InPlace(i)
    BY <1>3 DEF EditStep
  <2>2. CASE VideoTrim(i)
    <3>1. PICK s : TrimsTo(i, s)
      BY <2>2, VideoTrimForm DEF VideoTrim
    <3>2. /\ Playable(s, N) /\ Settle(s) /\ Len(s) = Len(sections) /\ cut' = cut
          /\ \A k \in 1..Len(sections) : s[k].over = sections[k].over
      BY <3>1 DEF TrimsTo, N
    <3>3. ~cut' => Disjoint(s)
      <4> SUFFICES ASSUME ~cut' PROVE Disjoint(s)
        OBVIOUS
      <4> DEFINE f == [k \in 1..Len(s) |-> k]
      <4>1. Disjoint(sections)
        BY <3>2 DEF Unshared
      <4>2. Taken(sections, f, s)
        BY <3>2 DEF Taken
      <4> QED
        BY <4>1, <4>2, TakenStaysDisjoint
    <3> QED
      BY <3>2, <3>3, SettledUnshared
  <2>3. CASE AddOverlay(i)
    BY <2>3, NewOverlayUnshared
  <2>4. ASSUME NEW v \in {0, 1}, SetEffects(i, v) PROVE Unshared'
    <3> DEFINE x == sections[i]
               y == [x EXCEPT !.effects = v]
               s == [sections EXCEPT ![i] = y]
    <3>1. i \in 1..Len(sections) /\ sections' = s /\ cut' = cut
      BY <1>1, <2>4 DEF SetEffects, looks
    <3>2. x \in SectionsOn(N)
      BY <1>1, <3>1
    <3>3. y.over = x.over
      <4> HIDE DEF x
      <4> QED
        BY <3>2 DEF SectionsOn
    <3> HIDE DEF y
    <3>4. Len(s) = Len(sections) /\ \A k \in 1..Len(sections) : s[k].over = sections[k].over
      BY <1>1, <3>1, <3>3
    <3> HIDE DEF s
    <3> QED
      BY <3>1, <3>4, SameOverlays
  <2>5. ASSUME NEW v \in {0, 1}, NEW k \in Int, EditOverlay(i, k, v) PROVE Unshared'
    BY <1>2, <2>5 DEF EditOverlay
  <2> QED
    BY <2>1, <2>2, <2>3, <2>4, <2>5 DEF InPlace
<1>4. CASE GrowStep
  BY <1>4, GrowForm, GrownUnshared
<1>5. CASE RemoveStep
  <2>1. PICK i \in Int : RemoveSection(i)
    BY <1>5 DEF RemoveStep
  <2> DEFINE w == Without(sections, i)
  <2>2. Settle(w) /\ cut' = cut
    BY <2>1 DEF RemoveSection, looks
  <2>3. Playable(w, N)
    BY <1>1, PlayableWithout
  <2>4. CASE i \in DOMAIN sections
    <3>1. Out(sections, i, w)
      BY <1>1, <2>4, WithoutForm
    <3> HIDE DEF w
    <3>2. ~cut' => Disjoint(w)
      BY <1>1, <2>2, <3>1, OutDisjoint DEF Unshared
    <3> QED
      BY <2>2, <2>3, <3>2, SettledUnshared
  <2>5. CASE i \notin DOMAIN sections
    <3>1. w = sections
      BY <2>5 DEF Without
    <3> HIDE DEF w
    <3>2. ~cut' => Disjoint(w)
      BY <2>2, <3>1 DEF Unshared
    <3> QED
      BY <2>2, <2>3, <3>2, SettledUnshared
  <2> QED
    BY <2>4, <2>5
<1>6. CASE ReorderStep
  <2>1. PICK from, at, w, s : Reordered(from, at, w, s)
    BY <1>6, ReorderForm DEF ReorderStep
  <2>2. /\ Out(sections, from, w) /\ Put(w, at, sections[from], s) /\ from \in 1..Len(sections)
        /\ Playable(s, N) /\ Settle(s) /\ cut' = cut /\ Len(w) = Len(sections) - 1
    BY <2>1 DEF Reordered, Out, N
  <2>3. ASSUME ~cut' PROVE Disjoint(s)
    <3>1. Disjoint(sections)
      BY <2>2, <2>3 DEF Unshared
    <3>2. /\ Disjoint(w)
          /\ \A k \in 1..Len(w) :
               \E j \in 1..Len(sections) : j # from /\ w[k].over = sections[j].over
      BY <1>1, <2>2, <3>1, OutDisjoint
    <3> DEFINE y == sections[from]
    <3>3. ASSUME NEW k \in 1..Len(w), NEW a \in DOMAIN w[k].over, NEW b \in DOMAIN y.over
          PROVE  w[k].over[a] # y.over[b]
      <4>1. PICK j \in 1..Len(sections) : j # from /\ w[k].over = sections[j].over
        BY <3>2
      <4> QED
        BY <2>2, <3>1, <4>1 DEF Disjoint
    <3> HIDE DEF y
    <3>4. Len(w) \in Nat
      BY <1>1, <2>2
    <3>5. Put(w, at, y, s)
      BY <2>2 DEF y
    <3> QED
      BY <3>2, <3>3, <3>4, <3>5, PutStaysDisjoint
  <2> QED
    BY <2>2, <2>3, SettledUnshared
<1>7. CASE SoundStep \/ ChooseStep \/ UNCHANGED store
  <2>1. CASE SoundStep
    <3>1. sections' = sections /\ looks' = looks
      BY <2>1 DEF SoundStep, AudioTrim, AddAudioNext, AddAudioAt, RemoveAudio, SplitAudio, MoveAudio,
           TrimAudioStart, TrimAudioEnd, TrimAudio, ChangeAudio
    <3> QED
      BY <1>2, <3>1 DEF looks
  <2>2. CASE ChooseStep
    BY <1>2, <2>2 DEF ChooseStep, SelectSection, SelectAudio, SelectOverlay, looks
  <2>3. CASE UNCHANGED store
    BY <1>2, <2>3 DEF store, looks
  <2> QED
    BY <1>7, <2>1, <2>2, <2>3
<1>8. CASE Load
  <2>1. PICK secs, auds : LoadState(secs, auds) /\ Playable(secs, N)
    <3>1. Playable(<<>>, N)
      BY NothingFits
    <3> QED
      BY <1>1, <1>8, <3>1 DEF Load
  <2> DEFINE a == Apart(secs)
  <2>2. sections' = Ripple(a.secs)
    BY <2>1 DEF LoadState
  <2>3. Pictured
    BY StoreFacts
  <2>4. Playable(a.secs, Len(a.pictures)) /\ \E f : Numbered(a.secs, f)
    BY <2>1, <2>3, ApartPlays DEF N
  <2> HIDE DEF a
  <2>5. Disjoint(a.secs)
    BY <2>4, NumberedIsDisjoint
  <2>6. Disjoint(Ripple(a.secs))
    BY <2>4, <2>5, RippleDisjoint
  <2> QED
    BY <2>2, <2>6 DEF Unshared
<1> QED
  BY <1>3, <1>4, <1>5, <1>6, <1>7, <1>8 DEF StoreStep

(* What a section looks like stays, if what it is made of does.            *)
LEMMA LookStays ==
  ASSUME NEW i, SameShow(sections'[i], sections[i]),
         \A k \in DOMAIN sections[i].over :
           overlays'[sections[i].over[k]] = overlays[sections[i].over[k]]
  PROVE  Look(sections[i])' = Look(sections[i])
<1>1. Pictures(sections[i])' = Pictures(sections[i])
  BY DEF Pictures, SameShow
<1> QED
  BY <1>1 DEF Look, SameShow

Changed == {i \in DOMAIN sections : Look(sections[i])' # Look(sections[i])}

(* A step that changes a section where it is changes no other.             *)
LEMMA EditsOne ==
  ASSUME StoreInvariant, Unshared, ~cut, NEW i \in Int, InPlace(i)
  PROVE  Changed \subseteq {i}
<1> DEFINE N == Len(overlays)
<1>1. /\ N \in Nat /\ Len(sections) \in Nat /\ sections \in Seq(SectionsOn(N))
      /\ DOMAIN sections = 1..Len(sections) /\ overlays \in Seq({0, 1})
      /\ \A k \in 1..Len(sections) : sections[k] \in SectionsOn(N)
  BY StoreFacts DEF Pictured
<1>2. \A j \in 1..Len(sections) : \A k \in DOMAIN sections[j].over : sections[j].over[k] \in 1..N
  BY <1>1, SectionFields
<1>3. \A j \in 1..Len(sections) : SameShow(sections[j], sections[j])
  BY DEF SameShow
<1> HIDE DEF N
<1> SUFFICES ASSUME NEW j \in 1..Len(sections), j # i
             PROVE  Look(sections[j])' = Look(sections[j])
  BY <1>1 DEF Changed
<1>4. ASSUME VideoTrim(i) PROVE SameShow(sections'[j], sections[j]) /\ overlays' = overlays
  <2>1. PICK s : TrimsTo(i, s)
    BY <1>4, VideoTrimForm DEF VideoTrim
  <2>2. /\ Playable(s, N) /\ sections' = Ripple(s) /\ s[j] = sections[j] /\ overlays' = overlays
        /\ Len(s) = Len(sections)
    BY <2>1 DEF TrimsTo, Settle, N
  <2>3. SameShow(Ripple(s)[j], s[j])
    BY <2>2, RippleChains
  <2> QED
    BY <2>2, <2>3
<1>5. ASSUME AddOverlay(i)
      PROVE  /\ sections'[j] = sections[j]
             /\ \A m \in 1..N : overlays'[m] = overlays[m]
  <2>1. sections'[j] = sections[j] /\ overlays' = Append(overlays, 0)
    BY <1>1, <1>5 DEF AddOverlay
  <2> DEFINE q == overlays
  <2>2. q \in Seq({0, 1})
    BY <1>1
  <2> HIDE DEF q
  <2>3. \A m \in 1..Len(q) : Append(q, 0)[m] = q[m]
    BY <2>2
  <2> QED
    BY <2>1, <2>3 DEF q, N
<1>6. ASSUME NEW v \in {0, 1}, SetEffects(i, v)
      PROVE  sections'[j] = sections[j] /\ overlays' = overlays
  BY <1>1, <1>6 DEF SetEffects, looks
<1>7. ASSUME NEW k \in Int, NEW v \in {0, 1}, EditOverlay(i, k, v)
      PROVE  /\ sections'[j] = sections[j]
             /\ \A l \in DOMAIN sections[j].over :
                  overlays'[sections[j].over[l]] = overlays[sections[j].over[l]]
  <2>1. /\ i \in 1..Len(sections) /\ k \in DOMAIN sections[i].over /\ sections' = sections
        /\ overlays' = [overlays EXCEPT ![sections[i].over[k]] = v]
    BY <1>1, <1>7 DEF EditOverlay
  <2>2. ASSUME NEW l \in DOMAIN sections[j].over
        PROVE  overlays'[sections[j].over[l]] = overlays[sections[j].over[l]]
    <3> DEFINE q == overlays
               m == sections[i].over[k]
               o == sections[j].over[l]
    <3>1. o # m
      BY <2>1 DEF Unshared, Disjoint
    <3>2. o \in DOMAIN q
      <4>1. DOMAIN q = 1..N
        <5> HIDE DEF q
        <5>1. q \in Seq({0, 1})
          BY <1>1 DEF q
        <5>2. DOMAIN q = 1..Len(q)
          BY <5>1
        <5> QED
          BY <5>2 DEF q, N
      <4> QED
        BY <1>2, <4>1
    <3>3. overlays' = [q EXCEPT ![m] = v]
      BY <2>1
    <3> HIDE DEF q, m, o
    <3>4. overlays'[o] = q[o]
      BY <3>1, <3>2, <3>3
    <3> QED
      BY <3>4 DEF q, o
  <2> QED
    BY <2>1, <2>2
<1>8. CASE VideoTrim(i)
  BY <1>4, <1>8, LookStays
<1>9. CASE AddOverlay(i)
  BY <1>2, <1>3, <1>5, <1>9, LookStays
<1>10. CASE \E v \in {0, 1} : SetEffects(i, v)
  BY <1>3, <1>6, <1>10, LookStays
<1>11. CASE \E v \in {0, 1} : \E k \in Int : EditOverlay(i, k, v)
  BY <1>3, <1>7, <1>11, LookStays
<1> QED
  BY <1>8, <1>9, <1>10, <1>11 DEF InPlace

(* What EditsHitTheirAim says.                                             *)
AimIsHit ==
  Len(sections') = Len(sections) /\ ~cut =>
    \/ /\ Cardinality(Changed) <= 1
       /\ ~Free /\ held.aim = held.at => Changed \subseteq {held.aim}
    \/ \E i \in DOMAIN sections, to \in 1..(Len(sections) + 1) : Reorder(i, to)
    \/ Load

LEMMA StepsHitTheirAim ==
  ASSUME StoreInvariant, Unshared, StoreStep
  PROVE  AimIsHit
<1>1. /\ Len(sections) \in Nat /\ DOMAIN sections = 1..Len(sections)
      /\ Playable(sections, Len(overlays))
      /\ \A k \in 1..Len(sections) : SameShow(sections[k], sections[k])
  BY StoreFacts DEF SameShow
<1>2. ASSUME Changed = {} PROVE AimIsHit
  BY <1>2, FS_EmptySet DEF AimIsHit
<1>3. ASSUME overlays' = overlays, \A k \in 1..Len(sections) : SameShow(sections'[k], sections[k])
      PROVE  Changed = {}
  BY <1>1, <1>3, LookStays DEF Changed
<1>4. CASE EditStep
  <2> SUFFICES ASSUME ~cut
               PROVE  /\ Cardinality(Changed) <= 1
                      /\ ~Free /\ held.aim = held.at => Changed \subseteq {held.aim}
    BY DEF AimIsHit
  <2>1. PICK i \in Int : InPlace(i) /\ (Free \/ i = held.at)
    BY <1>4 DEF EditStep
  <2>2. Changed \subseteq {i}
    BY <2>1, EditsOne
  <2>3. Cardinality(Changed) <= 1
    <3>1. Changed = {} \/ Changed = {i}
      BY <2>2
    <3>2. Cardinality({}) = 0 /\ Cardinality({i}) = 1
      BY FS_EmptySet, FS_Singleton
    <3> QED
      BY <3>1, <3>2
  <2> QED
    BY <2>1, <2>2, <2>3
<1>5. CASE GrowStep
  <2>1. Len(sections') > Len(sections) /\ Len(sections') \in Nat
    BY <1>5, GrowForm, GrownIsLonger
  <2> QED
    BY <1>1, <2>1 DEF AimIsHit
<1>6. CASE RemoveStep
  <2>1. PICK i \in Int : RemoveSection(i)
    BY <1>6 DEF RemoveStep
  <2> DEFINE w == Without(sections, i)
  <2>2. sections' = Ripple(w) /\ overlays' = overlays
    BY <2>1 DEF RemoveSection, looks, Settle
  <2>3. /\ Playable(w, Len(overlays)) /\ Len(Ripple(w)) = Len(w)
        /\ \A k \in 1..Len(w) : SameShow(Ripple(w)[k], w[k])
    <3>1. Playable(w, Len(overlays))
      BY <1>1, PlayableWithout
    <3> HIDE DEF w
    <3> QED
      BY <3>1, RippleChains
  <2>4. CASE i \in DOMAIN sections
    <3>1. Len(w) = Len(sections) - 1
      BY <1>1, <2>4, PlayableWithout
    <3> QED
      BY <1>1, <2>2, <2>3, <3>1 DEF AimIsHit
  <2>5. CASE i \notin DOMAIN sections
    <3>1. w = sections
      BY <2>5 DEF Without
    <3> QED
      BY <1>2, <1>3, <2>2, <2>3, <3>1
  <2> QED
    BY <2>4, <2>5
<1>7. CASE ReorderStep
  <2>1. PICK from, to : Reorder(from, to)
    BY <1>7 DEF ReorderStep
  <2>2. from \in DOMAIN sections /\ to \in 1..(Len(sections) + 1)
    BY <2>1 DEF Reorder, CanReorder
  <2> QED
    BY <2>1, <2>2 DEF AimIsHit
<1>8. CASE SoundStep \/ ChooseStep \/ UNCHANGED store
  <2>1. CASE SoundStep
    <3>1. sections' = sections /\ looks' = looks
      BY <2>1 DEF SoundStep, AudioTrim, AddAudioNext, AddAudioAt, RemoveAudio, SplitAudio, MoveAudio,
           TrimAudioStart, TrimAudioEnd, TrimAudio, ChangeAudio
    <3> QED
      BY <1>1, <1>2, <1>3, <3>1 DEF looks
  <2>2. CASE ChooseStep
    <3>1. sections' = sections /\ overlays' = overlays
      BY <2>2 DEF ChooseStep, SelectSection, SelectAudio, SelectOverlay, looks
    <3> QED
      BY <1>1, <1>2, <1>3, <3>1
  <2>3. CASE UNCHANGED store
    <3>1. sections' = sections /\ overlays' = overlays
      BY <2>3 DEF store, looks
    <3> QED
      BY <1>1, <1>2, <1>3, <3>1
  <2> QED
    BY <1>8, <2>1, <2>2, <2>3
<1>9. CASE Load
  BY <1>9 DEF AimIsHit
<1> QED
  BY <1>4, <1>5, <1>6, <1>7, <1>8, <1>9 DEF StoreStep

(* What changes a section in place changes that one only, and a gesture    *)
(* the one it was begun on, unless Delete or a load moved that away: for   *)
(* no two sections share an overlay before a cut.                          *)
THEOREM EditsHitTheirAimHolds == EditorSpec => EditsHitTheirAim
<1>1. EditorInit => Unshared
  <2> SUFFICES ASSUME EditorInit PROVE Disjoint(sections)
    BY DEF Unshared
  <2>1. sections = <<>>
    BY DEF EditorInit, StoreInit
  <2> QED
    BY <2>1 DEF Disjoint
<1>2. TimelineInvariant /\ Unshared /\ [EditorNext]_editorVars => Unshared' /\ AimIsHit
  <2> SUFFICES ASSUME TimelineInvariant, Unshared, [EditorNext]_editorVars
               PROVE  Unshared' /\ AimIsHit
    OBVIOUS
  <2> QED
    BY EveryStep, StaysUnshared, StepsHitTheirAim DEF TimelineInvariant
<1> DEFINE Hit ==
      Len(sections') = Len(sections) /\ ~cut =>
        LET changed == {i \in DOMAIN sections : Look(sections[i])' # Look(sections[i])} IN
        \/ /\ Cardinality(changed) <= 1
           /\ ~Free /\ held.aim = held.at => changed \subseteq {held.aim}
        \/ \E i \in DOMAIN sections, to \in 1..(Len(sections) + 1) : Reorder(i, to)
        \/ Load
<1>3. AimIsHit => Hit
  BY DEF AimIsHit, Changed
<1>4. TimelineInvariant /\ Unshared /\ [EditorNext]_editorVars => Unshared' /\ [Hit]_editorVars
  BY <1>2, <1>3
<1>5. EditsHitTheirAim <=> [][Hit]_editorVars
  BY DEF EditsHitTheirAim
<1> HIDE DEF Hit
<1> QED
  BY <1>1, <1>4, <1>5, TimelineInvariantHolds, PTL DEF EditorSpec

-----------------------------------------------------------------------------
(* Footage *)

(* Times grow, there is but one way to tell them, and each unit of time is *)
(* a section's.                                                            *)
LEMMA TimesGrow ==
  ASSUME NEW n, NEW secs, Playable(secs, n), NEW f, Timed(secs, f)
  PROVE  /\ \A i, j \in 0..Len(secs) : i <= j => f[i] <= f[j]
         /\ \A i \in 0..Len(secs) : f[i] \in Nat
<1>1. Len(secs) \in Nat /\ \A i \in 1..Len(secs) : secs[i] \in SectionsOn(n) /\ Plays(secs[i])
  BY PlayableRuns, ElementOfSeq DEF Playable
<1>2. f \in [0..Len(secs) -> Int] /\ f[0] = 0
      /\ \A i \in 1..Len(secs) : f[i] = f[i - 1] + Duration(secs[i])
  BY DEF Timed
<1>3. ASSUME NEW i \in 1..Len(secs) PROVE f[i - 1] <= f[i]
  <2>1. i - 1 \in 0..Len(secs) /\ Duration(secs[i]) \in Int /\ 0 <= Duration(secs[i])
    BY <1>1, SectionFields DEF Plays
  <2>2. f[i - 1] \in Int
    BY <1>2, <2>1
  <2> QED
    BY <1>2, <2>1, <2>2
<1>4. \A i, j \in 0..Len(secs) : i <= j => f[i] <= f[j]
  BY <1>1, <1>2, <1>3, GrowsThroughout
<1>5. ASSUME NEW i \in 0..Len(secs) PROVE f[i] \in Nat
  <2>1. 0 \in 0..Len(secs) /\ 0 <= i
    BY <1>1
  <2>2. f[0] <= f[i] /\ f[i] \in Int
    BY <1>2, <1>4, <2>1
  <2> QED
    BY <1>2, <2>2
<1> QED
  BY <1>4, <1>5

LEMMA TimesAreThese ==
  ASSUME NEW secs, Len(secs) \in Nat, NEW f, Timed(secs, f),
         NEW g, g[0] = 0, \A i \in 1..Len(secs) : g[i] = g[i - 1] + Duration(secs[i])
  PROVE  \A i \in 0..Len(secs) : f[i] = g[i]
<1> DEFINE X == {i \in 0..Len(secs) : f[i] # g[i]}
<1>1. X \in SUBSET Nat
  OBVIOUS
<1>2. f[0] = 0 /\ \A i \in 1..Len(secs) : f[i] = f[i - 1] + Duration(secs[i])
  BY DEF Timed
<1>3. X = {}
  <2> SUFFICES ASSUME X # {} PROVE FALSE
    OBVIOUS
  <2>1. PICK m \in X : \A i \in X : m <= i
    <3> HIDE DEF X
    <3> QED
      BY <1>1, LeastOf
  <2>2. m # 0
    BY <1>2, <2>1
  <2>3. m \in 1..Len(secs) /\ m - 1 \in 0..Len(secs) /\ ~(m <= m - 1)
    BY <2>1, <2>2
  <2>4. f[m - 1] = g[m - 1]
    BY <2>1, <2>3
  <2>5. f[m] = g[m]
    BY <1>2, <2>3, <2>4
  <2> QED
    BY <2>1, <2>5
<1> QED
  BY <1>3

LEMMA TimeHasPlace ==
  ASSUME NEW n, NEW secs, Playable(secs, n), NEW f, Timed(secs, f),
         NEW u \in 1..f[Len(secs)]
  PROVE  \E i \in 1..Len(secs) : f[i - 1] < u /\ u <= f[i]
<1> DEFINE N == Len(secs)
           X == {i \in 0..N : u <= f[i]}
<1>1. N \in Nat /\ f[0] = 0 /\ \A i \in 0..N : f[i] \in Nat
  BY PlayableRuns, TimesGrow DEF Timed
<1>2. u \in Nat /\ 1 <= u /\ u <= f[N]
  BY <1>1
<1>3. X # {} /\ X \in SUBSET Nat
  <2>1. N \in 0..N
    BY <1>1
  <2> QED
    BY <1>1, <1>2, <2>1
<1> HIDE DEF N
<1>4. PICK m \in X : \A i \in X : m <= i
  <2> HIDE DEF X
  <2> QED
    BY <1>3, LeastOf
<1>5. m # 0
  BY <1>1, <1>2, <1>4
<1>6. m \in 1..N /\ m - 1 \in 0..N /\ ~(m <= m - 1) /\ u <= f[m]
  BY <1>1, <1>4, <1>5
<1>7. ~(u <= f[m - 1])
  BY <1>4, <1>6
<1>8. f[m - 1] \in Nat
  BY <1>1, <1>6
<1> QED
  BY <1>2, <1>6, <1>7, <1>8 DEF N

(* What a section shows at a time after its start.                         *)
Frame(x, from, u) == <<x.src, x.vstart + u - from>>

(* What the sections of a list play, one after another.                    *)
Screened(secs, f, F) ==
  /\ F \in Seq(Videos \X Int) /\ Len(F) = f[Len(secs)]
  /\ \A i \in 1..Len(secs), u \in Nat :
       f[i - 1] < u /\ u <= f[i] => F[u] = Frame(secs[i], f[i - 1], u)

LEMMA FootageIsScreened ==
  ASSUME NEW n, NEW secs, Playable(secs, n), NEW f, Timed(secs, f)
  PROVE  Screened(secs, f, Footage(Ripple(secs)))
<1> DEFINE r == Ripple(secs)
           N == Len(secs)
           F == Footage(r)
<1>1. /\ Playable(r, n) /\ Chained(r) /\ Len(r) = N /\ N \in Nat /\ DOMAIN r = 1..N
      /\ VideoTime(r) = f[N]
      /\ \A i \in 1..N : SameShow(r[i], secs[i])
  <2>1. /\ Playable(r, n) /\ Chained(r) /\ Len(r) = N /\ VideoTime(r) = VideoTime(secs)
        /\ \A i \in 1..N : SameShow(r[i], secs[i])
    BY RippleChains
  <2>2. N \in Nat
    BY PlayableRuns
  <2> HIDE DEF r
  <2>3. DOMAIN r = 1..N
    BY <2>1, PlayableRuns
  <2> QED
    BY <2>1, <2>2, <2>3 DEF Timed
<1> HIDE DEF r
<1>2. Timed(r, f)
  <2>1. Runs(secs) /\ secs \in Seq(SectionsOn(n)) /\ r \in Seq(SectionsOn(n))
    BY <1>1, PlayableRuns
  <2> QED
    BY <1>1, <2>1, TimesAgree DEF SameShow
<1>3. \A i \in 1..N : /\ r[i].start = f[i - 1] /\ r[i].end = f[i]
                      /\ r[i].src = secs[i].src /\ r[i].vstart = secs[i].vstart
                      /\ r[i].src \in Videos /\ r[i].vstart \in Int
  <2>1. \A i \in 1..N : r[i].start = f[i - 1] /\ r[i].end = f[i]
    BY <1>1, <1>2, ChainedStays
  <2>2. \A i \in 1..N : r[i] \in SectionsOn(n)
    BY <1>1, ElementOfSeq DEF Playable
  <2>3. \A i \in 1..N : r[i].src \in Videos /\ r[i].vstart \in Int
    BY <2>2, SectionFields
  <2> QED
    BY <1>1, <2>1, <2>3 DEF SameShow
<1>4. /\ \A i, j \in 0..N : i <= j => f[i] <= f[j]
      /\ \A i \in 0..N : f[i] \in Nat
  BY TimesGrow
<1> DEFINE Here(u) == CHOOSE x \in {r[i] : i \in DOMAIN r} : x.start < u /\ u <= x.end
<1>5. ASSUME NEW i \in 1..N, NEW u \in Nat, f[i - 1] < u, u <= f[i]
      PROVE  Here(u) = r[i]
  <2>1. ASSUME NEW j \in 1..N, f[j - 1] < u, u <= f[j] PROVE j = i
    <3>1. i - 1 \in 0..N /\ j - 1 \in 0..N /\ i \in 0..N /\ j \in 0..N
      BY <1>1
    <3>2. CASE j < i
      <4>1. f[j] <= f[i - 1] /\ f[j] \in Nat /\ f[i - 1] \in Nat
        BY <1>1, <1>4, <3>1, <3>2
      <4> QED
        BY <1>5, <2>1, <4>1
    <3>3. CASE i < j
      <4>1. f[i] <= f[j - 1] /\ f[i] \in Nat /\ f[j - 1] \in Nat
        BY <1>1, <1>4, <3>1, <3>3
      <4> QED
        BY <1>5, <2>1, <4>1
    <3> QED
      BY <1>1, <3>2, <3>3
  <2> DEFINE S == {r[j] : j \in DOMAIN r}
  <2>2. r[i] \in S /\ r[i].start < u /\ u <= r[i].end
    BY <1>1, <1>3, <1>5
  <2>3. ASSUME NEW x \in S, x.start < u, u <= x.end PROVE x = r[i]
    <3>1. PICK j \in 1..N : x = r[j]
      BY <1>1
    <3>2. j = i
      BY <1>3, <2>1, <2>3, <3>1
    <3> QED
      BY <3>1, <3>2
  <2> HIDE DEF S
  <2>4. (CHOOSE x \in S : x.start < u /\ u <= x.end) = r[i]
    BY <2>2, <2>3
  <2> QED
    BY <2>4 DEF S
<1>6. F = [u \in 1..f[N] |-> <<Here(u).src, Here(u).vstart + u - Here(u).start>>]
  BY <1>1 DEF Footage
<1> HIDE DEF F, Here
<1>7. f[N] \in Nat
  <2>1. N \in 0..N
    BY <1>1
  <2> QED
    BY <1>4, <2>1
<1>8. ASSUME NEW i \in 1..N, NEW u \in Nat, f[i - 1] < u, u <= f[i]
      PROVE  F[u] = Frame(secs[i], f[i - 1], u) /\ u \in 1..f[N] /\ F[u] \in Videos \X Int
  <2>1. i - 1 \in 0..N /\ i \in 0..N /\ N \in 0..N /\ i <= N
    BY <1>1
  <2>2. f[i] <= f[N] /\ f[i - 1] \in Nat /\ f[i] \in Nat
    BY <1>4, <2>1
  <2>3. u \in 1..f[N]
    BY <1>7, <1>8, <2>2
  <2>4. F[u] = <<r[i].src, r[i].vstart + u - r[i].start>>
    BY <1>5, <1>6, <1>8, <2>3
  <2>5. r[i].start = f[i - 1] /\ r[i].src = secs[i].src /\ r[i].vstart = secs[i].vstart
        /\ r[i].src \in Videos /\ r[i].vstart \in Int
    BY <1>3
  <2> QED
    BY <2>2, <2>3, <2>4, <2>5 DEF Frame
<1>9. F \in Seq(Videos \X Int) /\ Len(F) = f[N]
  <2>1. ASSUME NEW u \in 1..f[N] PROVE F[u] \in Videos \X Int
    <3>1. PICK i \in 1..N : f[i - 1] < u /\ u <= f[i]
      BY TimeHasPlace
    <3>2. u \in Nat
      BY <1>7
    <3> QED
      BY <1>8, <3>1, <3>2
  <2>2. F \in [1..f[N] -> Videos \X Int]
    BY <1>6, <2>1
  <2> QED
    BY <1>7, <2>2, ListOf
<1> QED
  BY <1>8, <1>9 DEF Screened, F, r

(* A cut changes nothing of the footage: the right half's window begins    *)
(* where the left half's ends.                                             *)
HalvedTimes(f, i, t, k) == IF k < i THEN f[k] ELSE IF k = i THEN t ELSE f[k - 1]

LEMMA TimesOfHalves ==
  ASSUME NEW n, NEW secs, Playable(secs, n), Chained(secs), NEW f, Timed(secs, f),
         NEW i, NEW t, NEW h, Halved(secs, i, t, h), NEW g, Timed(h, g)
  PROVE  \A k \in 0..Len(h) : g[k] = HalvedTimes(f, i, t, k)
<1> DEFINE N == Len(secs)
           e == [k \in 0..(N + 1) |-> HalvedTimes(f, i, t, k)]
<1>1. /\ N \in Nat /\ i \in 1..N /\ t \in Int /\ Len(h) = N + 1
      /\ secs[i].start = f[i - 1] /\ secs[i].end = f[i]
      /\ \A k \in 1..(i - 1) : h[k] = secs[k]
      /\ h[i] = LeftPart(secs[i], t) /\ h[i + 1] = RightPart(secs[i], t)
      /\ \A k \in (i + 1)..N : h[k + 1] = secs[k]
      /\ secs[i] \in SectionsOn(n)
  <2>1. secs \in Seq(SectionsOn(n)) /\ N \in Nat /\ i \in 1..N
    BY PlayableRuns DEF Halved
  <2>2. secs[i] \in SectionsOn(n)
    BY <2>1, ElementOfSeq
  <2>3. secs[i].start = f[i - 1] /\ secs[i].end = f[i]
    BY <2>1, ChainedStays
  <2> QED
    BY <2>1, <2>2, <2>3 DEF Halved
<1>2. f[0] = 0 /\ \A k \in 1..N : f[k] = f[k - 1] + Duration(secs[k])
  BY DEF Timed
<1>3. \A k \in 0..N : f[k] \in Nat
  BY TimesGrow
<1>4. Duration(h[i]) = t - f[i - 1] /\ Duration(h[i + 1]) = f[i] - t
  <2> DEFINE x == secs[i]
             l == LeftPart(x, t)
             r == RightPart(x, t)
  <2>1. x \in SectionsOn(n)
    BY <1>1
  <2> HIDE DEF x
  <2>2. l.start = x.start /\ l.end = t /\ r.start = t /\ r.end = x.end
    BY <2>1 DEF LeftPart, RightPart, SectionsOn
  <2> HIDE DEF l, r
  <2>3. Duration(l) = t - x.start /\ Duration(r) = x.end - t
    BY <2>2 DEF Duration
  <2> QED
    BY <1>1, <2>3 DEF x, l, r
<1>5. \A k \in 0..(N + 1) : e[k] = HalvedTimes(f, i, t, k)
  OBVIOUS
<1> HIDE DEF e, N
<1>6. e[0] = 0
  <2>1. 0 \in 0..(N + 1) /\ 0 < i
    BY <1>1
  <2> QED
    BY <1>2, <1>5, <2>1 DEF HalvedTimes
<1>7. ASSUME NEW k \in 1..(N + 1) PROVE e[k] = e[k - 1] + Duration(h[k])
  <2>1. CASE k < i
    <3>1. k \in 1..(i - 1) /\ k \in 1..N /\ k - 1 < i /\ k - 1 \in 0..(N + 1) /\ k \in 0..(N + 1)
      BY <1>1, <2>1
    <3>2. e[k] = f[k] /\ e[k - 1] = f[k - 1]
      BY <1>5, <2>1, <3>1 DEF HalvedTimes
    <3> QED
      BY <1>1, <1>2, <3>1, <3>2
  <2>2. CASE k = i
    <3>1. k - 1 < i /\ k - 1 \in 0..(N + 1) /\ k \in 0..(N + 1) /\ ~(k < i) /\ i - 1 \in 0..N
      BY <1>1, <2>2
    <3>2. e[k - 1] = f[i - 1] /\ e[k] = t /\ f[i - 1] \in Nat
      BY <1>3, <1>5, <2>2, <3>1 DEF HalvedTimes
    <3> QED
      BY <1>1, <1>4, <2>2, <3>2
  <2>3. CASE k = i + 1
    <3>1. k - 1 = i /\ i \in 0..(N + 1) /\ k \in 0..(N + 1) /\ ~(i < i) /\ ~(k < i) /\ k # i
          /\ i \in 0..N
      BY <1>1, <2>3
    <3>2. e[k - 1] = t /\ e[k] = f[i] /\ f[i] \in Nat
      BY <1>3, <1>5, <3>1 DEF HalvedTimes
    <3> QED
      BY <1>1, <1>4, <2>3, <3>2
  <2>4. CASE k > i + 1
    <3> DEFINE j == k - 1
    <3>1. j \in (i + 1)..N /\ j \in 1..N /\ j + 1 = k /\ k \in 0..(N + 1) /\ k - 1 \in 0..(N + 1)
          /\ ~(k < i) /\ k # i /\ ~(k - 1 < i) /\ k - 1 # i
      BY <1>1, <2>4
    <3>2. e[k] = f[j] /\ e[k - 1] = f[j - 1]
      BY <1>5, <3>1 DEF HalvedTimes
    <3> HIDE DEF j
    <3>3. h[j + 1] = secs[j] /\ f[j] = f[j - 1] + Duration(secs[j])
      BY <1>1, <1>2, <3>1
    <3> QED
      BY <3>1, <3>2, <3>3
  <2>5. k \in Int /\ i \in Int
    BY <1>1
  <2> QED
    BY <2>1, <2>2, <2>3, <2>4, <2>5
<1>8. \A k \in 0..Len(h) : g[k] = e[k]
  <2>1. Len(h) \in Nat /\ \A k \in 1..Len(h) : e[k] = e[k - 1] + Duration(h[k])
    BY <1>1, <1>7
  <2> QED
    BY <1>6, <2>1, TimesAreThese
<1> QED
  BY <1>1, <1>5, <1>8

LEMMA HalvedFootage ==
  ASSUME NEW n, NEW secs, Playable(secs, n), Chained(secs),
         NEW m, NEW h, Playable(h, m), NEW i, NEW t, Halved(secs, i, t, h)
  PROVE  Footage(Ripple(h)) = Footage(Ripple(secs))
<1> DEFINE N == Len(secs)
           F == Footage(Ripple(secs))
           G == Footage(Ripple(h))
<1>1. PICK f : Timed(secs, f)
  BY PlayableRuns, TimesExist
<1>2. PICK g : Timed(h, g)
  BY PlayableRuns, TimesExist
<1>3. Screened(secs, f, F) /\ Screened(h, g, G)
  BY <1>1, <1>2, FootageIsScreened
<1> HIDE DEF F, G
<1>4. /\ N \in Nat /\ i \in 1..N /\ t \in Int /\ Len(h) = N + 1
      /\ secs[i].start < t /\ t < secs[i].end
      /\ secs[i].start = f[i - 1] /\ secs[i].end = f[i]
      /\ \A k \in 1..(i - 1) : h[k] = secs[k]
      /\ h[i] = LeftPart(secs[i], t) /\ h[i + 1] = RightPart(secs[i], t)
      /\ \A k \in (i + 1)..N : h[k + 1] = secs[k]
      /\ secs[i] \in SectionsOn(n)
  <2>1. secs \in Seq(SectionsOn(n)) /\ N \in Nat /\ i \in 1..N
    BY PlayableRuns DEF Halved
  <2>2. secs[i] \in SectionsOn(n)
    BY <2>1, ElementOfSeq
  <2>3. secs[i].start = f[i - 1] /\ secs[i].end = f[i]
    BY <1>1, <2>1, ChainedStays
  <2> QED
    BY <2>1, <2>2, <2>3 DEF Halved
<1>5. \A k \in 0..(N + 1) : g[k] = HalvedTimes(f, i, t, k)
  BY <1>1, <1>2, <1>4, TimesOfHalves
<1>6. \A k \in 0..N : f[k] \in Nat
  BY <1>1, TimesGrow
<1>7. h[i].src = secs[i].src /\ h[i].vstart = secs[i].vstart
      /\ h[i + 1].src = secs[i].src /\ h[i + 1].vstart = secs[i].vstart + (t - f[i - 1])
      /\ secs[i].vstart \in Int
  <2> DEFINE x == secs[i]
             l == LeftPart(x, t)
             r == RightPart(x, t)
  <2>1. x \in SectionsOn(n)
    BY <1>4
  <2> HIDE DEF x
  <2>2. l.src = x.src /\ l.vstart = x.vstart /\ r.src = x.src
        /\ r.vstart = x.vstart + (t - x.start) /\ x.vstart \in Int
    BY <2>1 DEF LeftPart, RightPart, SectionsOn
  <2> HIDE DEF l, r
  <2> QED
    BY <1>4, <2>2 DEF x, l, r
<1> HIDE DEF N
<1>8. /\ F \in Seq(Videos \X Int) /\ G \in Seq(Videos \X Int) /\ Len(F) = f[N]
      /\ Len(G) = g[N + 1]
      /\ \A k \in 1..N, u \in Nat :
           f[k - 1] < u /\ u <= f[k] => F[u] = Frame(secs[k], f[k - 1], u)
      /\ \A k \in 1..(N + 1), u \in Nat :
           g[k - 1] < u /\ u <= g[k] => G[u] = Frame(h[k], g[k - 1], u)
  BY <1>3, <1>4 DEF Screened, N
<1>9. Len(G) = Len(F) /\ Len(F) \in Nat
  <2> DEFINE M == N + 1
  <2>1. M \in 0..(N + 1) /\ ~(M < i) /\ M # i /\ M - 1 = N /\ N \in 0..N
    BY <1>4
  <2> HIDE DEF M
  <2>2. g[M] = f[N]
    BY <1>5, <2>1 DEF HalvedTimes
  <2> QED
    BY <1>6, <1>8, <2>1, <2>2 DEF M
<1>10. ASSUME NEW u \in 1..Len(G) PROVE G[u] = F[u]
  <2>0. u \in Nat
    BY <1>9
  <2>1. PICK k \in 1..(N + 1) : g[k - 1] < u /\ u <= g[k]
    <3>1. u \in 1..g[Len(h)]
      BY <1>4, <1>8
    <3>2. \E k \in 1..Len(h) : g[k - 1] < u /\ u <= g[k]
      BY <1>2, <3>1, TimeHasPlace
    <3> QED
      BY <1>4, <3>2
  <2>2. G[u] = Frame(h[k], g[k - 1], u)
    BY <1>8, <2>0, <2>1
  <2>3. CASE k < i
    <3>1. k \in 1..(i - 1) /\ k \in 1..N /\ k - 1 < i /\ k - 1 \in 0..(N + 1) /\ k \in 0..(N + 1)
      BY <1>4, <2>3
    <3>2. g[k] = f[k] /\ g[k - 1] = f[k - 1]
      BY <1>5, <2>3, <3>1 DEF HalvedTimes
    <3> QED
      BY <1>4, <1>8, <2>0, <2>1, <2>2, <3>1, <3>2
  <2>4. CASE k = i
    <3>1. k - 1 < i /\ k - 1 \in 0..(N + 1) /\ k \in 0..(N + 1) /\ ~(k < i) /\ i \in 1..N
      BY <1>4, <2>4
    <3>2. g[k - 1] = f[i - 1] /\ g[k] = t
      BY <1>5, <2>4, <3>1 DEF HalvedTimes
    <3>3. i \in 0..N /\ f[i] \in Nat
      BY <1>6, <3>1
    <3>4. f[i - 1] < u /\ u <= f[i]
      BY <1>4, <2>0, <2>1, <2>4, <3>2, <3>3
    <3>5. F[u] = Frame(secs[i], f[i - 1], u)
      BY <1>8, <2>0, <3>1, <3>4
    <3> QED
      BY <1>7, <2>2, <2>4, <3>2, <3>5 DEF Frame
  <2>5. CASE k = i + 1
    <3>1. k - 1 = i /\ i \in 0..(N + 1) /\ k \in 0..(N + 1) /\ ~(i < i) /\ ~(k < i) /\ k # i
          /\ i \in 1..N /\ i - 1 \in 0..N
      BY <1>4, <2>5
    <3>2. g[k - 1] = t /\ g[k] = f[i] /\ f[i - 1] \in Nat
      BY <1>5, <1>6, <3>1 DEF HalvedTimes
    <3>3. f[i - 1] < u /\ u <= f[i]
      BY <1>4, <2>0, <2>1, <3>2
    <3>4. F[u] = Frame(secs[i], f[i - 1], u)
      BY <1>8, <2>0, <3>1, <3>3
    <3>5. h[k].vstart + u - t = secs[i].vstart + u - f[i - 1]
      BY <1>4, <1>7, <2>0, <2>5, <3>2
    <3> QED
      BY <1>7, <2>2, <2>5, <3>2, <3>4, <3>5 DEF Frame
  <2>6. CASE k > i + 1
    <3> DEFINE j == k - 1
    <3>1. j \in (i + 1)..N /\ j \in 1..N /\ j + 1 = k /\ k \in 0..(N + 1) /\ k - 1 \in 0..(N + 1)
          /\ ~(k < i) /\ k # i /\ ~(k - 1 < i) /\ k - 1 # i
      BY <1>4, <2>6
    <3>2. g[k] = f[j] /\ g[k - 1] = f[j - 1]
      BY <1>5, <3>1 DEF HalvedTimes
    <3> HIDE DEF j
    <3>3. h[k] = secs[j]
      BY <1>4, <3>1
    <3> QED
      BY <1>8, <2>0, <2>1, <2>2, <3>1, <3>2, <3>3
  <2>7. k \in Int /\ i \in Int
    BY <1>4
  <2> QED
    BY <2>3, <2>4, <2>5, <2>6, <2>7
<1>11. G = F
  <2> DEFINE T == Videos \X Int
  <2>1. F \in Seq(T) /\ G \in Seq(T)
    BY <1>8
  <2> HIDE DEF T
  <2> QED
    BY <1>9, <1>10, <2>1, SeqEqual
<1> QED
  BY <1>11 DEF F, G

(* A section more only makes room.                                         *)
Room(was, is, T) ==
  /\ was \in Seq(T) /\ is \in Seq(T) /\ Len(was) <= Len(is)
  /\ \E t \in 0..Len(was) :
       /\ \A u \in 1..t : is[u] = was[u]
       /\ \A u \in (t + 1)..Len(was) : is[u + (Len(is) - Len(was))] = was[u]

PutTimes(f, j, d, k) == IF k < j THEN f[k] ELSE f[k - 1] + d

LEMMA PutFootage ==
  ASSUME NEW n, NEW h, Playable(h, n), NEW r, Playable(r, n), NEW j, NEW y, Put(h, j, y, r)
  PROVE  Room(Footage(Ripple(h)), Footage(Ripple(r)), Videos \X Int)
<1> DEFINE N == Len(h)
           F == Footage(Ripple(h))
           G == Footage(Ripple(r))
           d == Duration(y)
           S == Videos \X Int
<1>1. PICK f : Timed(h, f)
  BY PlayableRuns, TimesExist
<1>2. PICK g : Timed(r, g)
  BY PlayableRuns, TimesExist
<1>3. Screened(h, f, F) /\ Screened(r, g, G)
  BY <1>1, <1>2, FootageIsScreened
<1> HIDE DEF F, G
<1>4. /\ N \in Nat /\ j \in 1..(N + 1) /\ Len(r) = N + 1 /\ r[j] = y
      /\ \A k \in 1..(j - 1) : r[k] = h[k]
      /\ \A k \in j..N : r[k + 1] = h[k]
  BY PlayableRuns DEF Put
<1>5. /\ \A k \in 1..N : h[k] \in SectionsOn(n)
      /\ d \in Int /\ 0 <= d
  <2>1. \A k \in 1..N : h[k] \in SectionsOn(n)
    BY ElementOfSeq DEF Playable
  <2>2. r[j] \in SectionsOn(n) /\ Plays(r[j])
    BY <1>4, ElementOfSeq DEF Playable
  <2> QED
    BY <1>4, <2>1, <2>2, SectionFields DEF Plays
<1> HIDE DEF N
<1>6. f[0] = 0 /\ (\A k \in 1..N : f[k] = f[k - 1] + Duration(h[k]))
      /\ (\A k \in 0..N : f[k] \in Nat) /\ \A k, m \in 0..N : k <= m => f[k] <= f[m]
  <2>1. f[0] = 0 /\ \A k \in 1..N : f[k] = f[k - 1] + Duration(h[k])
    BY <1>1 DEF Timed, N
  <2>2. (\A k \in 0..N : f[k] \in Nat) /\ \A k, m \in 0..N : k <= m => f[k] <= f[m]
    BY <1>1, TimesGrow DEF N
  <2> QED
    BY <2>1, <2>2
<1>7. \A k \in 0..(N + 1) : g[k] = PutTimes(f, j, d, k)
  <2> DEFINE e == [k \in 0..(N + 1) |-> PutTimes(f, j, d, k)]
  <2>1. \A k \in 0..(N + 1) : e[k] = PutTimes(f, j, d, k)
    OBVIOUS
  <2> HIDE DEF e
  <2>2. e[0] = 0
    <3>1. 0 \in 0..(N + 1) /\ 0 < j
      BY <1>4
    <3> QED
      BY <1>6, <2>1, <3>1 DEF PutTimes
  <2>3. ASSUME NEW k \in 1..(N + 1) PROVE e[k] = e[k - 1] + Duration(r[k])
    <3>0. k \in 0..(N + 1) /\ k - 1 \in 0..(N + 1) /\ k - 1 \in 0..N
      BY <1>4
    <3>1. CASE k < j
      <4>1. k \in 1..(j - 1) /\ k \in 1..N /\ k - 1 < j
        BY <1>4, <3>1
      <4>2. e[k] = f[k] /\ e[k - 1] = f[k - 1]
        BY <2>1, <3>0, <3>1, <4>1 DEF PutTimes
      <4> QED
        BY <1>4, <1>6, <4>1, <4>2
    <3>2. CASE k = j
      <4>1. k - 1 < j /\ ~(k < j)
        BY <1>4, <3>2
      <4>2. e[k - 1] = f[k - 1] /\ e[k] = f[k - 1] + d
        BY <2>1, <3>0, <4>1 DEF PutTimes
      <4> QED
        BY <1>4, <3>2, <4>2
    <3>3. CASE k > j
      <4> DEFINE m == k - 1
      <4>1. m \in j..N /\ m \in 1..N /\ m + 1 = k /\ ~(k < j) /\ ~(k - 1 < j) /\ m - 1 \in 0..N
        BY <1>4, <3>3
      <4>2. e[k] = f[m] + d /\ e[k - 1] = f[m - 1] + d
        BY <2>1, <3>0, <4>1 DEF PutTimes
      <4> HIDE DEF m
      <4>3. r[k] = h[m] /\ f[m] = f[m - 1] + Duration(h[m])
        BY <1>4, <1>6, <4>1
      <4>4. f[m - 1] \in Nat /\ Duration(h[m]) \in Int
        BY <1>5, <1>6, <4>1, SectionFields
      <4> QED
        BY <1>5, <4>2, <4>3, <4>4
    <3> QED
      BY <1>4, <3>1, <3>2, <3>3
  <2>4. \A k \in 0..Len(r) : g[k] = e[k]
    <3>1. Len(r) \in Nat /\ \A k \in 1..Len(r) : e[k] = e[k - 1] + Duration(r[k])
      BY <1>4, <2>3
    <3> QED
      BY <1>2, <2>2, <3>1, TimesAreThese
  <2> QED
    BY <1>4, <2>1, <2>4
<1> HIDE DEF d
<1>8. /\ F \in Seq(S) /\ G \in Seq(S) /\ Len(F) = f[N] /\ Len(G) = g[N + 1]
      /\ \A k \in 1..N, u \in Nat :
           f[k - 1] < u /\ u <= f[k] => F[u] = Frame(h[k], f[k - 1], u)
      /\ \A k \in 1..(N + 1), u \in Nat :
           g[k - 1] < u /\ u <= g[k] => G[u] = Frame(r[k], g[k - 1], u)
  BY <1>3, <1>4 DEF Screened, N
<1>9. Len(F) \in Nat /\ Len(G) = Len(F) + d
  <2> DEFINE M == N + 1
  <2>1. M \in 0..(N + 1) /\ ~(M < j) /\ M - 1 = N /\ N \in 0..N
    BY <1>4
  <2> HIDE DEF M
  <2>2. g[M] = f[N] + d
    BY <1>7, <2>1 DEF PutTimes
  <2> QED
    BY <1>6, <1>8, <2>1, <2>2 DEF M
<1> DEFINE t == f[j - 1]
<1>10. j - 1 \in 0..N /\ N \in 0..N /\ t \in Nat /\ t <= Len(F)
  <2>1. j - 1 \in 0..N /\ N \in 0..N /\ j - 1 <= N
    BY <1>4
  <2> QED
    BY <1>6, <1>8, <2>1
<1>11. ASSUME NEW u \in 1..Len(F)
       PROVE  \E i \in 1..N : f[i - 1] < u /\ u <= f[i]
  <2>1. u \in 1..f[Len(h)]
    BY <1>8 DEF N
  <2> QED
    BY <1>1, <2>1, TimeHasPlace DEF N
<1>12. ASSUME NEW u \in 1..t PROVE G[u] = F[u]
  <2>0. u \in Nat /\ u \in 1..Len(F)
    BY <1>9, <1>10
  <2>1. PICK i \in 1..N : f[i - 1] < u /\ u <= f[i]
    BY <1>11, <2>0
  <2>2. i - 1 \in 0..N /\ i \in 0..N /\ f[i - 1] \in Nat
    BY <1>4, <1>6
  <2>3. i < j
    <3>1. CASE i >= j
      <4>1. j - 1 <= i - 1
        BY <1>4, <3>1
      <4>2. t <= f[i - 1]
        BY <1>6, <1>10, <2>2, <4>1
      <4> QED
        BY <1>10, <2>0, <2>1, <2>2, <4>2
    <3> QED
      BY <1>4, <3>1
  <2>4. i \in 1..(j - 1) /\ i - 1 < j /\ i \in 0..(N + 1) /\ i - 1 \in 0..(N + 1) /\ i \in 1..(N + 1)
    BY <1>4, <2>3
  <2>5. g[i] = f[i] /\ g[i - 1] = f[i - 1] /\ r[i] = h[i]
    BY <1>4, <1>7, <2>3, <2>4 DEF PutTimes
  <2>6. G[u] = Frame(r[i], g[i - 1], u)
    BY <1>8, <2>0, <2>1, <2>4, <2>5
  <2>7. F[u] = Frame(h[i], f[i - 1], u)
    BY <1>8, <2>0, <2>1
  <2> QED
    BY <2>5, <2>6, <2>7
<1>13. ASSUME NEW u \in (t + 1)..Len(F) PROVE G[u + d] = F[u]
  <2>0. u \in Nat /\ u \in 1..Len(F) /\ t < u /\ u + d \in Nat
    BY <1>5, <1>9, <1>10
  <2>1. PICK i \in 1..N : f[i - 1] < u /\ u <= f[i]
    BY <1>11, <2>0
  <2>2. i - 1 \in 0..N /\ i \in 0..N /\ f[i - 1] \in Nat /\ f[i] \in Nat
    BY <1>4, <1>6
  <2>3. j <= i
    <3>1. CASE i < j
      <4>1. i <= j - 1
        BY <1>4, <3>1
      <4>2. f[i] <= t
        BY <1>6, <1>10, <2>2, <4>1
      <4> QED
        BY <1>10, <2>0, <2>1, <2>2, <4>2
    <3> QED
      BY <1>4, <3>1
  <2> DEFINE k == i + 1
  <2>4. i \in j..N /\ k \in 1..(N + 1) /\ k \in 0..(N + 1) /\ i \in 0..(N + 1)
        /\ ~(k < j) /\ ~(i < j) /\ k - 1 = i /\ i + 1 = k
    BY <1>4, <2>3
  <2> HIDE DEF k
  <2>5. g[k] = f[i] + d /\ g[k - 1] = f[i - 1] + d /\ r[k] = h[i]
    BY <1>4, <1>7, <2>4 DEF PutTimes
  <2>6. g[k - 1] < u + d /\ u + d <= g[k]
    BY <1>5, <2>0, <2>1, <2>2, <2>5
  <2>7. G[u + d] = Frame(r[k], g[k - 1], u + d)
    BY <1>8, <2>0, <2>4, <2>6
  <2>8. F[u] = Frame(h[i], f[i - 1], u)
    BY <1>8, <2>0, <2>1
  <2>9. h[i].vstart \in Int
    BY <1>5, SectionFields
  <2>10. h[i].vstart + (u + d) - (f[i - 1] + d) = h[i].vstart + u - f[i - 1]
    BY <1>5, <2>0, <2>2, <2>9
  <2> QED
    BY <2>5, <2>7, <2>8, <2>10 DEF Frame
<1> HIDE DEF t, S
<1>14. /\ F \in Seq(S) /\ G \in Seq(S) /\ Len(F) <= Len(G) /\ t \in 0..Len(F)
       /\ Len(G) - Len(F) = d
  BY <1>5, <1>8, <1>9, <1>10
<1>15. Room(F, G, S)
  BY <1>12, <1>13, <1>14 DEF Room
<1> QED
  BY <1>15 DEF F, G, S

(* What GrowthKeepsFootage says.                                           *)
Kept(was, is) ==
  LET k == Len(is) - Len(was)
  IN \E t \in 0..Len(was) : /\ SubSeq(is, 1, t) = SubSeq(was, 1, t)
                            /\ SubSeq(is, t + k + 1, Len(is)) = SubSeq(was, t + 1, Len(was))

LEMMA RoomIsKept ==
  ASSUME NEW T, NEW was, NEW is, Room(was, is, T)
  PROVE  Kept(was, is)
<1> DEFINE k == Len(is) - Len(was)
           W == Len(was)
           I == Len(is)
<1>1. /\ was \in Seq(T) /\ is \in Seq(T) /\ W \in Nat /\ I \in Nat /\ W <= I
      /\ (\A u \in 1..W : was[u] \in T) /\ \A u \in 1..I : is[u] \in T
  BY ElementOfSeq DEF Room
<1>2. PICK t \in 0..W :
        /\ \A u \in 1..t : is[u] = was[u]
        /\ \A u \in (t + 1)..W : is[u + k] = was[u]
  BY DEF Room
<1>3. k \in Nat /\ W + k = I /\ t \in Nat /\ t <= W
  BY <1>1
<1> HIDE DEF k, W, I
<1>4. SubSeq(is, 1, t) = SubSeq(was, 1, t)
  <2> DEFINE a == SubSeq(is, 1, t)
             b == SubSeq(was, 1, t)
  <2>1. 1 \in Int /\ t \in Int /\ (\A u \in 1..t : is[u] \in T) /\ \A u \in 1..t : was[u] \in T
    BY <1>1, <1>3
  <2>2. a \in Seq(T) /\ Len(a) = (IF 1 <= t THEN t - 1 + 1 ELSE 0)
        /\ \A u \in 1..(t - 1 + 1) : a[u] = is[1 + u - 1]
    BY <2>1, SubSeqProperties
  <2>3. b \in Seq(T) /\ Len(b) = (IF 1 <= t THEN t - 1 + 1 ELSE 0)
        /\ \A u \in 1..(t - 1 + 1) : b[u] = was[1 + u - 1]
    BY <2>1, SubSeqProperties
  <2> HIDE DEF a, b
  <2>4. Len(a) = t /\ Len(b) = t
    BY <1>3, <2>2, <2>3
  <2>5. ASSUME NEW u \in 1..t PROVE a[u] = b[u]
    <3>1. u \in 1..(t - 1 + 1) /\ 1 + u - 1 = u
      BY <1>3
    <3> QED
      BY <1>2, <2>2, <2>3, <3>1
  <2>6. a = b
    BY <2>2, <2>3, <2>4, <2>5, SeqEqual
  <2> QED
    BY <2>6 DEF a, b
<1>5. SubSeq(is, t + k + 1, I) = SubSeq(was, t + 1, W)
  <2> DEFINE p == t + k + 1
             q == t + 1
             a == SubSeq(is, p, I)
             b == SubSeq(was, q, W)
  <2>1. p \in Int /\ q \in Int /\ I \in Int /\ W \in Int
        /\ (\A u \in p..I : is[u] \in T) /\ \A u \in q..W : was[u] \in T
    BY <1>1, <1>3
  <2>a. I - p + 1 = W - t /\ W - q + 1 = W - t /\ W - t \in Nat
        /\ (p <= I <=> 1 <= W - t) /\ (q <= W <=> 1 <= W - t)
    BY <1>1, <1>3
  <2>b. \A u \in 1..(W - t) : p + u - 1 = (q + u - 1) + k /\ q + u - 1 \in (t + 1)..W
    BY <1>1, <1>3
  <2> HIDE DEF p, q
  <2>2. a \in Seq(T) /\ Len(a) = (IF p <= I THEN I - p + 1 ELSE 0)
        /\ \A u \in 1..(I - p + 1) : a[u] = is[p + u - 1]
    BY <2>1, SubSeqProperties
  <2>3. b \in Seq(T) /\ Len(b) = (IF q <= W THEN W - q + 1 ELSE 0)
        /\ \A u \in 1..(W - q + 1) : b[u] = was[q + u - 1]
    BY <2>1, SubSeqProperties
  <2> HIDE DEF a, b
  <2>4. Len(a) = W - t /\ Len(b) = W - t
    BY <2>a, <2>2, <2>3
  <2>5. ASSUME NEW u \in 1..(W - t) PROVE a[u] = b[u]
    <3>1. a[u] = is[p + u - 1] /\ b[u] = was[q + u - 1]
      BY <2>a, <2>2, <2>3
    <3> DEFINE m == q + u - 1
    <3>2. p + u - 1 = m + k /\ m \in (t + 1)..W
      BY <2>b
    <3> HIDE DEF m
    <3>3. is[m + k] = was[m]
      BY <1>2, <3>2
    <3> QED
      BY <3>1, <3>2, <3>3 DEF m
  <2>6. a = b
    BY <2>2, <2>3, <2>4, <2>5, SeqEqual
  <2> QED
    BY <2>6 DEF a, b, p, q
<1> QED
  BY <1>2, <1>4, <1>5 DEF Kept, k, W, I

(* What is added makes room for itself, and a cut for nothing.             *)
LEMMA GrownKeeps ==
  ASSUME StoreInvariant, NEW n, NEW h, NEW r, Grown(n, h, r)
  PROVE  Kept(Footage(sections), Footage(sections'))
<1> DEFINE T == Videos \X Int
           F == Footage(sections)
           H == Footage(Ripple(h))
           R == Footage(Ripple(r))
<1>1. /\ Playable(sections, Len(overlays)) /\ Chained(sections)
      /\ Playable(h, n) /\ Playable(r, n) /\ CutOrNot(h) /\ sections' = Ripple(r)
      /\ r = h \/ \E j, y : Put(h, j, y, r)
  BY StoreFacts DEF Grown
<1>2. Ripple(sections) = sections
  <2>1. PICK f : Timed(sections, f)
    BY <1>1, PlayableRuns, TimesExist
  <2> QED
    BY <1>1, <2>1, ChainedStays
<1>3. H = F
  <2>1. CASE h = sections
    BY <1>2, <2>1
  <2>2. CASE \E i, t : Halved(sections, i, t, h)
    BY <1>1, <1>2, <2>2, HalvedFootage
  <2> QED
    BY <1>1, <2>1, <2>2 DEF CutOrNot
<1>4. R \in Seq(T)
  <2>1. PICK f : Timed(r, f)
    BY <1>1, PlayableRuns, TimesExist
  <2> QED
    BY <1>1, <2>1, FootageIsScreened DEF Screened
<1>5. Room(H, R, T)
  <2>1. CASE r = h
    <3> HIDE DEF T, R
    <3>1. H = R
      BY <2>1 DEF R
    <3>2. Len(R) \in Nat /\ 0 \in 0..Len(R)
      BY <1>4
    <3>3. Room(R, R, T)
      <4>1. \A u \in 1..0 : R[u] = R[u]
        OBVIOUS
      <4>2. \A u \in (0 + 1)..Len(R) : R[u + (Len(R) - Len(R))] = R[u]
        BY <3>2
      <4> QED
        BY <1>4, <3>2, <4>1, <4>2 DEF Room
    <3> HIDE DEF H
    <3> QED
      BY <3>1, <3>3
  <2>2. CASE \E j, y : Put(h, j, y, r)
    BY <1>1, <2>2, PutFootage
  <2> QED
    BY <1>1, <2>1, <2>2
<1>6. R = Footage(sections')
  BY <1>1
<1> HIDE DEF F, H, R, T
<1>7. Kept(H, R)
  BY <1>5, RoomIsKept
<1> QED
  BY <1>3, <1>6, <1>7 DEF F

(* Nothing else makes the list longer.                                     *)
LEMMA OnlyGrowthGrows ==
  ASSUME StoreInvariant, StoreStep, Len(sections') > Len(sections)
  PROVE  GrowStep
<1> DEFINE N == Len(overlays)
<1>1. /\ Len(sections) \in Nat /\ Playable(sections, N) /\ sections \in Seq(SectionsOn(N))
      /\ DOMAIN sections = 1..Len(sections)
  BY StoreFacts
<1> HIDE DEF N
<1>2. sections' # sections
  BY <1>1
<1>3. ASSUME NEW m, NEW s, Playable(s, m), sections' = Ripple(s) PROVE Len(s) > Len(sections)
  BY <1>3, RippleChains
<1>4. ASSUME EditStep PROVE FALSE
  <2>1. PICK i \in Int : InPlace(i)
    BY <1>4 DEF EditStep
  <2>2. CASE VideoTrim(i)
    <3>1. PICK s : TrimsTo(i, s)
      BY <2>2, VideoTrimForm DEF VideoTrim
    <3>2. Playable(s, N) /\ sections' = Ripple(s) /\ Len(s) = Len(sections)
      BY <3>1 DEF TrimsTo, Settle, N
    <3> QED
      BY <1>1, <1>3, <3>2
  <2>3. CASE AddOverlay(i) \/ \E v \in {0, 1} : SetEffects(i, v) \/ \E k \in Int : EditOverlay(i, k, v)
    <3>1. PICK x : sections' = sections \/ sections' = [sections EXCEPT ![i] = x]
      <4>1. \A y : [sections EXCEPT ![i].over = y]
                   = [sections EXCEPT ![i] = [sections[i] EXCEPT !.over = y]]
        BY <1>1
      <4>2. \A y : [sections EXCEPT ![i].effects = y]
                   = [sections EXCEPT ![i] = [sections[i] EXCEPT !.effects = y]]
        BY <1>1
      <4>3. \/ sections' = sections
            \/ sections' = [sections EXCEPT ![i].over = Append(sections[i].over, Len(overlays) + 1)]
            \/ \E v \in {0, 1} : sections' = [sections EXCEPT ![i].effects = v]
        BY <2>3 DEF AddOverlay, SetEffects, EditOverlay
      <4> QED
        BY <4>1, <4>2, <4>3
    <3>2. Len([sections EXCEPT ![i] = x]) = Len(sections)
      BY <1>1
    <3> QED
      BY <1>1, <3>1, <3>2
  <2> QED
    BY <2>1, <2>2, <2>3 DEF InPlace
<1>5. ASSUME RemoveStep PROVE FALSE
  <2>1. PICK i \in Int : RemoveSection(i)
    BY <1>5 DEF RemoveStep
  <2> DEFINE w == Without(sections, i)
  <2>2. sections' = Ripple(w)
    BY <2>1 DEF RemoveSection, Settle
  <2>3. Playable(w, N)
    BY <1>1, PlayableWithout
  <2>4. i \in 1..Len(sections) => Len(w) = Len(sections) - 1
    BY <1>1, WithoutForm DEF Out
  <2>5. i \notin 1..Len(sections) => w = sections
    BY <1>1 DEF Without
  <2> HIDE DEF w
  <2>6. Len(w) > Len(sections)
    BY <1>3, <2>2, <2>3
  <2>7. Len(sections) \in Nat
    BY <1>1
  <2>8. Len(w) = Len(sections) - 1 \/ Len(w) = Len(sections)
    BY <2>4, <2>5
  <2> QED
    BY <2>6, <2>7, <2>8
<1>6. ASSUME ReorderStep PROVE FALSE
  <2>1. PICK from, at, w, s : Reordered(from, at, w, s)
    BY <1>6, ReorderForm DEF ReorderStep
  <2>2. Playable(s, N) /\ sections' = Ripple(s) /\ Len(s) = Len(w) + 1 /\ Len(w) = Len(sections) - 1
    BY <2>1 DEF Reordered, Put, Out, Settle, N
  <2> QED
    BY <1>1, <1>3, <2>2
<1>7. ASSUME SoundStep \/ ChooseStep \/ UNCHANGED store PROVE FALSE
  <2>1. SoundStep => sections' = sections
    BY DEF SoundStep, AudioTrim, AddAudioNext, AddAudioAt, RemoveAudio, SplitAudio, MoveAudio,
           TrimAudioStart, TrimAudioEnd, TrimAudio, ChangeAudio
  <2>2. ChooseStep => sections' = sections
    BY DEF ChooseStep, SelectSection, SelectAudio, SelectOverlay
  <2> QED
    BY <1>2, <1>7, <2>1, <2>2 DEF store
<1>8. ASSUME Load PROVE FALSE
  <2>1. PICK secs, auds : /\ LoadState(secs, auds) /\ Playable(secs, N)
                          /\ secs = sections \/ secs = <<>>
    <3>1. Playable(<<>>, N)
      BY NothingFits
    <3> QED
      BY <1>1, <1>8, <3>1 DEF Load
  <2> DEFINE a == Apart(secs)
  <2>2. sections' = Ripple(a.secs)
    BY <2>1 DEF LoadState
  <2>3. Pictured
    BY StoreFacts
  <2>4. Playable(a.secs, Len(a.pictures)) /\ Len(a.secs) = Len(secs)
    BY <2>1, <2>3, ApartPlays DEF N
  <2> HIDE DEF a
  <2>5. Len(<<>>) = 0
    OBVIOUS
  <2> QED
    BY <1>1, <1>3, <2>1, <2>2, <2>4, <2>5
<1> QED
  BY <1>4, <1>5, <1>6, <1>7, <1>8 DEF StoreStep

(* A step that adds sections only makes room: what played before them and  *)
(* what played after them still plays, in its order.                       *)
THEOREM GrowthKeepsFootageHolds == EditorSpec => GrowthKeepsFootage
<1> DEFINE Grows == Len(sections') > Len(sections) => Kept(Footage(sections), Footage(sections'))
<1>1. TimelineInvariant /\ [EditorNext]_editorVars => Grows
  <2> SUFFICES ASSUME TimelineInvariant, [EditorNext]_editorVars, Len(sections') > Len(sections)
               PROVE  Kept(Footage(sections), Footage(sections'))
    OBVIOUS
  <2>1. StoreInvariant /\ GrowStep
    BY EveryStep, OnlyGrowthGrows DEF TimelineInvariant
  <2> QED
    BY <2>1, GrowForm, GrownKeeps
<1>2. GrowthKeepsFootage <=> [][Grows]_store
  BY DEF GrowthKeepsFootage, Kept
<1> HIDE DEF Grows
<1>3. TimelineInvariant /\ [EditorNext]_editorVars => [Grows]_store
  BY <1>1
<1> QED
  BY <1>2, <1>3, TimelineInvariantHolds, PTL DEF EditorSpec
=============================================================================
