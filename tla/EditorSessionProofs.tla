------------------------ MODULE EditorSessionProofs ------------------------
(***************************************************************************)
(* Theorems of EditorSession for any projects, and any numbers of calls,   *)
(* pages, edits, commits and restores.                                      *)
(***************************************************************************)
EXTENDS EditorSession, SequenceTheorems, TLAPS

USE ProjectsAssumption, BoundsAssumption

Of(kind) == {c \in Slots : Live(c) /\ calls[c].kind = kind}

(* A call is for a project, and names commits that there are.               *)
CallsSound ==
  \A c \in Slots :
    /\ Busy(c) => calls[c].project \in Projects
    /\ calls[c].kind \in {"list", "commit"} => calls[c].num \in 0 .. Len(commits)
    /\ calls[c].kind \in {"load", "restore"} => calls[c].num \in 1 .. Len(commits)
    /\ calls[c].refused => calls[c].kind = "commit"

(* The calls that the open page waits for are for its project; the first     *)
(* of them lists the branches, and the others come after its answer.        *)
PageInv ==
  /\ \A c \in Slots : Live(c) => calls[c].project = open
  /\ \A c \in Of("list") : ~listed /\ ~loaded
  /\ \A c \in Slots : Live(c) /\ calls[c].kind # "list" => listed
  /\ \A c, d \in Of("list") : c = d
  /\ \A c, d \in Of("commit") : c = d
  /\ open # NoProject /\ loaded => listed
  /\ fetching => open # NoProject

(* Undisturbed, the page knows the tip, or is to be told of it.             *)
TipInv ==
  open # NoProject /\ Undisturbed =>
    /\ listed => known = tip[open] \/ \E c \in Of("commit") : calls[c].served
    /\ \A c \in Of("list") : calls[c].served => calls[c].num = tip[open]
    /\ \A c \in Of("commit") : calls[c].num = tip[open] /\ ~calls[c].refused

Unserved(c) == Live(c) /\ calls[c].kind \in Saves /\ ~calls[c].served

(* Undisturbed, and with one autosave at a time, what the store holds is     *)
(* cached, to be saved, or about to be replaced or saved after an answer.   *)
SaveInv ==
  open # NoProject /\ loaded /\ Undisturbed /\ "save" \notin overlapped /\ revision # 0 =>
    /\ \/ timer \/ cache[open] = store
       \/ \E c \in Slots : Live(c) /\ calls[c].kind \in {"load", "restore", "commit"}
       \/ \E c \in Slots : Unserved(c) /\ calls[c].state = store
    /\ \A c \in Slots : Unserved(c) => timer \/ calls[c].state = store

(* The src that the answer of a call makes, now or after the call that       *)
(* follows, and whether it is known yet.                                    *)
Source(call) ==
  CASE call.kind \in {"list", "load"} -> <<"branch", 0>>
    [] call.kind = "save" -> <<"autosave", call.num>>
    [] call.kind = "commit" -> <<"commit", call.num>>
    [] OTHER -> <<"restore", call.num>>
Due(c) == Live(c) /\ (calls[c].kind = "commit" => calls[c].served)

Unmixed == open # NoProject /\ Undisturbed /\ overlapped = {}

(* A src is made once: the player's is not about to be made again, by a call *)
(* under way, by the next autosave or by the next commit.                   *)
SourceInv ==
  Unmixed =>
    /\ ~listed => src = NoSrc
    /\ \A c \in Slots : Due(c) => src # Source(calls[c])
    /\ \A c, d \in Slots : Due(c) /\ Due(d) /\ Source(calls[c]) = Source(calls[d]) => c = d
    /\ \A k \in Nat : src = <<"autosave", k>> /\ Of("resave") = {} =>
                       k <= revision /\ (timer => k # revision)
    /\ \A c \in Of("save") : calls[c].num <= revision /\ (timer => calls[c].num # revision)
    /\ \A k \in Nat : src = <<"commit", k>> => k <= Len(commits)

(* The player has what the server has, or is to fetch it, or is to be told.  *)
PlayerInv ==
  Unmixed /\ src # NoSrc =>
    fetching \/ shown = Manifest(open) \/ \E c \in Slots : Live(c)

Typed == TypeOK /\ CallsSound
IInv == Typed /\ PageInv /\ StoreFollowsPage /\ TipInv /\ SaveInv

(* The sources of the player.                                               *)
LEMMA NoSource == NoSrc \in Sources
BY DEF NoSrc, Sources

(* What the player may be told to play.                                     *)
LEMMA Sourcing ==
  ASSUME NEW kind \in {"branch", "autosave", "commit", "restore"}, NEW n \in Nat
  PROVE  <<kind, n>> \in Sources
BY DEF Sources

(* At first no project is open and nothing is under way.                    *)
LEMMA IInvInit == Init => IInv
<1> SUFFICES ASSUME Init PROVE IInv
  OBVIOUS
<1>1. Nothing \in State /\ Len(commits) = 0 /\ commits \in Seq(Entries)
  BY DEF Init, Nothing, State, Entries
<1>2. \A c \in Slots : calls[c] = Idle /\ ~Busy(c) /\ ~Live(c)
  BY DEF Init, Live, Busy, Idle
<1>3. calls \in [Slots -> CallSet]
  BY <1>1 DEF Init, CallSet, Idle, Kinds
<1>4. TypeOK
  <2>1. PageType /\ EditorType /\ PlayerType /\ HistoryType
    <3>0. /\ open = NoProject /\ ~listed /\ listed \in BOOLEAN /\ known = 0 /\ restoring = 0
          /\ store = Nothing /\ revision = 0 /\ ~timer /\ timer \in BOOLEAN /\ edits = 0
      BY DEF Init, NoCommit
    <3>1. PageType
      BY <1>1, <3>0 DEF PageType
    <3>2. EditorType
      BY <1>1, <3>0 DEF EditorType
    <3>3. PlayerType
      BY <1>1, NoSource DEF Init, PlayerType
    <3>4. HistoryType
      BY DEF Init, HistoryType
    <3> QED
      BY <3>1, <3>2, <3>3, <3>4
  <2>2. ServerType
    BY <1>1 DEF Init, ServerType, NoCommit
  <2> QED
    BY <1>3, <2>1, <2>2 DEF TypeOK
<1>5. CallsSound
  BY <1>2 DEF CallsSound, Idle
<1> QED
  BY <1>2, <1>4, <1>5 DEF Init, IInv, Typed, PageInv, StoreFollowsPage, TipInv, SaveInv, Of

-----------------------------------------------------------------------------
(* Calls *)

(* What a call is when it is made.                                          *)
LEMMA Calling ==
  ASSUME NEW kind \in Kinds, NEW p \in Projects, NEW state \in State, NEW num \in Nat
  PROVE  LET call == Call(kind, p, state, num) IN
         /\ call \in CallSet
         /\ call.kind = kind /\ call.project = p /\ call.state = state /\ call.num = num
         /\ ~call.served /\ ~call.refused /\ ~call.gone
BY DEF Call, Idle, CallSet

(* A slot that has no call.                                                 *)
LEMMA Idling == Nothing \in State /\ Idle \in CallSet /\ Idle.kind = "idle" /\ ~Idle.refused
BY DEF Idle, CallSet, Kinds, Nothing, State

(* Sending one adds it to those under way.                                  *)
LEMMA Sending ==
  ASSUME TypeOK, NEW call \in CallSet, Send(call)
  PROVE  /\ calls' \in [Slots -> CallSet]
         /\ \E c \in Slots : /\ ~Busy(c) /\ calls'[c] = call
                             /\ \A d \in Slots : d # c => calls'[d] = calls[d]
<1>1. PICK c \in Slots : ~Busy(c) /\ calls' = [calls EXCEPT ![c] = call]
  BY DEF Send
<1>2. calls \in [Slots -> CallSet]
  BY DEF TypeOK
<1>3. calls' \in [Slots -> CallSet] /\ calls'[c] = call /\ \A d \in Slots : d # c => calls'[d] = calls[d]
  BY <1>1, <1>2
<1> QED
  BY <1>1, <1>3

(* Ending one leaves the others.                                            *)
LEMMA Ending ==
  ASSUME TypeOK, NEW c \in Slots, Done(c)
  PROVE  /\ calls' \in [Slots -> CallSet]
         /\ calls'[c] = Idle
         /\ \A d \in Slots : d # c => calls'[d] = calls[d]
BY Idling DEF TypeOK, Done

(* One that is followed by another is gone or not as before.                *)
LEMMA Following ==
  ASSUME TypeOK, NEW c \in Slots, NEW call \in CallSet, Continue(c, call)
  PROVE  /\ calls' \in [Slots -> CallSet]
         /\ calls'[c].kind = call.kind /\ calls'[c].project = call.project
         /\ calls'[c].state = call.state /\ calls'[c].num = call.num
         /\ calls'[c].served = call.served /\ calls'[c].refused = call.refused
         /\ calls'[c].gone = calls[c].gone
         /\ \A d \in Slots : d # c => calls'[d] = calls[d]
<1>1. [call EXCEPT !.gone = calls[c].gone] \in CallSet
  BY DEF TypeOK, CallSet
<1> QED
  BY <1>1 DEF TypeOK, Continue, CallSet

(* The seven steps of the user.                                             *)
UserStep ==
  \/ \E p \in Projects : Open(p)
  \/ Leave \/ Edit \/ AutoSave \/ ClickCommit \/ Fetch
  \/ \E id \in 1 .. Len(commits) : ClickRestore(id)

(* Commits are numbered.                                                    *)
LEMMA LengthIsNat == TypeOK => Len(commits) \in Nat
BY DEF TypeOK, ServerType

(* Each commit of a project, its tip included, has a state of the editor.   *)
LEMMA CommitsHaveStates ==
  ASSUME TypeOK, NEW id \in 1 .. Len(commits)
  PROVE  commits[id].state \in State /\ commits[id].project \in Projects
<1>1. commits[id] \in Entries
  BY ElementOfSeq DEF TypeOK, ServerType
<1> QED
  BY <1>1 DEF Entries

(* What the server plays of a project is a state.                           *)
LEMMA StatesShown == TypeOK => \A p \in Projects : Manifest(p) \in State
<1> SUFFICES ASSUME TypeOK, NEW p \in Projects PROVE Manifest(p) \in State
  OBVIOUS
<1>1. cache[p] \in State /\ tip[p] \in 0 .. Len(commits) /\ Len(commits) \in Nat
  BY DEF TypeOK, ServerType
<1>2. tip[p] # NoCommit => commits[tip[p]].state \in State
  BY <1>1, CommitsHaveStates DEF NoCommit
<1> QED
  BY <1>1, <1>2, Idling DEF Manifest

(* The steps of the user and of the page keep the types.                    *)
LEMMA UserTypes ==
  ASSUME Typed, PageInv, UserStep
  PROVE  Typed'
<1> USE DEF Typed
<1>0. Len(commits) \in Nat
  BY LengthIsNat
<1>1. ASSUME NEW p \in Projects, Open(p)
      PROVE  Typed'
  <2> DEFINE call == Call("list", p, Nothing, 0)
  <2>1. /\ call \in CallSet /\ call.kind = "list" /\ call.project = p
        /\ call.num = 0 /\ ~call.refused
    BY Calling, Idling DEF Kinds
  <2> HIDE DEF call
  <2>2. Send(call)
    BY <1>1 DEF Open, call
  <2>3. PICK c \in Slots : calls'[c] = call /\ \A d \in Slots : d # c => calls'[d] = calls[d]
    BY <2>1, <2>2, Sending
  <2>4. calls' \in [Slots -> CallSet]
    BY <2>1, <2>2, Sending
  <2>0. /\ ~listed' /\ listed' \in BOOLEAN /\ ~timer' /\ timer' \in BOOLEAN
        /\ known' = 0 /\ restoring' = 0 /\ src' = NoSrc /\ shown' = Nothing
        /\ fetching' \in BOOLEAN
        /\ open' = p /\ UNCHANGED <<store, revision, edits, commits, tip, cache>>
        /\ HistoryType'
    BY <1>1 DEF Open, editor, server, NoCommit, TypeOK, PageType, EditorType, HistoryType
  <2>5. TypeOK'
    BY <2>4, <2>0, <1>0, Idling, NoSource
       DEF TypeOK, PageType, EditorType, PlayerType, ServerType
  <2>6. CallsSound'
    BY <1>1, <2>1, <2>3, <1>0 DEF Open, CallsSound, Busy, server
  <2> QED
    BY <2>5, <2>6
<1>2. CASE Leave
  <2>1. calls' \in [Slots -> CallSet]
    BY <1>2, Idling DEF Leave, TypeOK, CallSet
  <2>0. /\ ~listed' /\ listed' \in BOOLEAN /\ ~timer' /\ timer' \in BOOLEAN
        /\ known' = 0 /\ restoring' = 0 /\ src' = NoSrc /\ shown' = Nothing
        /\ fetching' \in BOOLEAN
        /\ open' = NoProject /\ UNCHANGED <<store, revision, edits, commits, tip, cache>>
        /\ UNCHANGED history
    BY <1>2 DEF Leave, server, counts, NoCommit
  <2>2. TypeOK'
    BY <2>1, <2>0, <1>0, Idling, NoSource
       DEF TypeOK, PageType, EditorType, PlayerType, ServerType, HistoryType, history
  <2>3. \A c \in Slots :
          \/ calls'[c] = Idle
          \/ /\ Busy(c) /\ calls'[c].kind = calls[c].kind /\ calls'[c].num = calls[c].num
             /\ calls'[c].project = calls[c].project /\ calls'[c].refused = calls[c].refused
    BY <1>2 DEF Leave, TypeOK, CallSet
  <2>4. CallsSound'
    BY <1>2, <2>3, Idling DEF Leave, CallsSound, Busy, server
  <2> QED
    BY <2>2, <2>4
<1>3. CASE Edit
  <2>1. edits' \in 0 .. MaxEdits /\ revision' \in 0 .. edits' /\ revision' # 0
    BY <1>3 DEF Edit, TypeOK, EditorType
  <2>2. store' \in State
    BY <1>3, <2>1 DEF Edit, TypeOK, EditorType, State
  <2> QED
    BY <1>3, <2>1, <2>2
       DEF Edit, TypeOK, PageType, EditorType, PlayerType, ServerType, HistoryType,
           CallsSound, Busy, Debounced, page, player, server, history
<1>4. CASE AutoSave
  <2> DEFINE call == Call("save", open, store, revision)
  <2>0. open \in Projects /\ store \in State /\ revision \in Nat
    BY <1>4 DEF AutoSave, TypeOK, PageType, EditorType
  <2>1. call \in CallSet /\ call.kind = "save" /\ call.project = open /\ ~call.refused
    BY <2>0, Calling DEF Kinds
  <2> HIDE DEF call
  <2>2. Send(call)
    BY <1>4 DEF AutoSave, call
  <2>3. PICK c \in Slots : calls'[c] = call /\ \A d \in Slots : d # c => calls'[d] = calls[d]
    BY <2>1, <2>2, Sending
  <2>4. calls' \in [Slots -> CallSet]
    BY <2>1, <2>2, Sending
  <2>5. TypeOK'
    BY <1>4, <2>4, <1>0
       DEF AutoSave, Overlap, TypeOK, PageType, EditorType, PlayerType, ServerType, HistoryType,
           page, player, server, counts
  <2>6. CallsSound'
    BY <1>4, <2>0, <2>1, <2>3, <1>0 DEF AutoSave, CallsSound, Busy, server
  <2> QED
    BY <2>5, <2>6
<1>5. CASE ClickCommit
  <2> DEFINE call == Call("commit", open, store, known)
  <2>0. open \in Projects /\ store \in State /\ known \in Nat /\ known \in 0 .. Len(commits)
    BY <1>5, <1>0 DEF ClickCommit, TypeOK, PageType, EditorType
  <2>1. call \in CallSet /\ call.kind = "commit" /\ call.project = open /\ call.num = known
    BY <2>0, Calling DEF Kinds
  <2> HIDE DEF call
  <2>2. Send(call)
    BY <1>5 DEF ClickCommit, call
  <2>3. PICK c \in Slots : calls'[c] = call /\ \A d \in Slots : d # c => calls'[d] = calls[d]
    BY <2>1, <2>2, Sending
  <2>4. calls' \in [Slots -> CallSet]
    BY <2>1, <2>2, Sending
  <2>5. TypeOK'
    BY <1>5, <2>4, <1>0
       DEF ClickCommit, TypeOK, PageType, EditorType, PlayerType, ServerType, HistoryType,
           page, editor, player, server, counts, history
  <2>6. CallsSound'
    BY <1>5, <2>0, <2>1, <2>3 DEF ClickCommit, CallsSound, Busy, server
  <2> QED
    BY <2>5, <2>6
<1>6. CASE Fetch
  <2>1. open \in Projects
    BY <1>6 DEF Fetch, PageInv, TypeOK, PageType
  <2> QED
    BY <1>6, <2>1, StatesShown
       DEF Fetch, TypeOK, PageType, EditorType, PlayerType, ServerType, HistoryType,
           CallsSound, Busy, page, editor, server, counts, history
<1>7. ASSUME NEW id \in 1 .. Len(commits), ClickRestore(id)
      PROVE  Typed'
  <2> DEFINE call == Call("restore", open, Nothing, id)
  <2>0. open \in Projects /\ id \in Nat
    BY <1>7, <1>0 DEF ClickRestore, TypeOK, PageType
  <2>1. /\ call \in CallSet /\ call.kind = "restore" /\ call.project = open
        /\ call.num = id /\ ~call.refused
    BY <2>0, Calling, Idling DEF Kinds
  <2> HIDE DEF call
  <2>2. Send(call)
    BY <1>7 DEF ClickRestore, call
  <2>3. PICK c \in Slots : calls'[c] = call /\ \A d \in Slots : d # c => calls'[d] = calls[d]
    BY <2>1, <2>2, Sending
  <2>4. calls' \in [Slots -> CallSet]
    BY <2>1, <2>2, Sending
  <2>5. TypeOK'
    BY <1>7, <2>4, <1>0
       DEF ClickRestore, Overlap, TypeOK, PageType, EditorType, PlayerType, ServerType, HistoryType,
           editor, player, server
  <2>6. CallsSound'
    BY <1>7, <2>0, <2>1, <2>3, <1>0 DEF ClickRestore, CallsSound, Busy, server
  <2> QED
    BY <2>5, <2>6
<1> QED
  BY <1>1, <1>2, <1>3, <1>4, <1>5, <1>6, <1>7 DEF UserStep

(* The server serves a call: the page is left alone.                        *)
LEMMA Serving ==
  ASSUME Typed, NEW c \in Slots, Serve(c)
  PROVE  /\ calls' \in [Slots -> CallSet] /\ Busy(c)
         /\ calls'[c].kind = calls[c].kind /\ calls'[c].project = calls[c].project
         /\ calls'[c].gone = calls[c].gone /\ calls'[c].served
         /\ \A d \in Slots : d # c => calls'[d] = calls[d]
         /\ UNCHANGED <<page, editor, player, counts, loaded, failed, overlapped>>
<1>1. calls[c] \in CallSet /\ calls \in [Slots -> CallSet]
  BY DEF Typed, TypeOK
<1>2. \A n \in Nat : [calls[c] EXCEPT !.served = TRUE, !.num = n] \in CallSet
  BY <1>1 DEF CallSet
<1>3. CASE ServeList(c)
  <2>1. tip[calls[c].project] \in Nat
    BY <1>3, LengthIsNat DEF ServeList, Asked, Typed, TypeOK, ServerType, CallsSound, Busy
  <2> QED
    BY <1>1, <1>3, <2>1 DEF ServeList, Asked, Busy, CallSet, counts, history
<1>4. CASE ServeGetCommit(c)
  <2>1. commits[calls[c].num].state \in State
    BY <1>4, CommitsHaveStates DEF ServeGetCommit, Asked, Typed, CallsSound
  <2> QED
    BY <1>1, <1>4, <2>1 DEF ServeGetCommit, Asked, Busy, CallSet
<1>5. CASE ServeSave(c)
  BY <1>1, <1>5 DEF ServeSave, Asked, Saves, Busy, CallSet
<1>6. CASE ServeCommit(c)
  <2>1. UNCHANGED <<page, editor, player, counts, loaded, failed, overlapped>> /\ Busy(c)
    BY <1>6 DEF ServeCommit, Asked, Busy
  <2>2. CASE calls' = [calls EXCEPT ![c].served = TRUE, ![c].refused = TRUE]
    BY <1>1, <2>1, <2>2 DEF CallSet
  <2>3. CASE /\ calls' = [calls EXCEPT ![c].served = TRUE, ![c].num = Len(commits')]
             /\ \E e \in Entries : commits' = Append(commits, e)
    <3>1. Len(commits') \in Nat
      BY <2>3 DEF Typed, TypeOK, ServerType
    <3> QED
      BY <1>1, <2>1, <2>3, <3>1 DEF CallSet
  <2>4. [project |-> calls[c].project, state |-> calls[c].state] \in Entries
    BY <1>1, <2>1 DEF Typed, CallsSound, CallSet, Entries
  <2> QED
    BY <1>6, <2>2, <2>3, <2>4 DEF ServeCommit
<1> QED
  BY <1>3, <1>4, <1>5, <1>6 DEF Serve

(* What it does to the commits, the tips and the cache.                     *)
LEMMA ServingTypes ==
  ASSUME Typed, NEW c \in Slots, Serve(c)
  PROVE  Typed'
<1> USE DEF Typed
<1>0. /\ Len(commits) \in Nat /\ Nothing \in State /\ calls[c] \in CallSet
      /\ calls[c].project \in Projects
  BY LengthIsNat, Idling, Serving DEF TypeOK, CallsSound
<1>1. /\ ServerType' /\ Len(commits') \in Nat /\ Len(commits) <= Len(commits')
      /\ strays' \subseteq {"store", "server"}
      /\ calls[c].kind \in {"list", "commit"} => calls'[c].num \in 0 .. Len(commits')
      /\ calls[c].kind \in {"load", "restore"} => calls'[c].num = calls[c].num
      /\ calls'[c].refused => calls[c].kind = "commit"
  <2>1. CASE ServeList(c)
    BY <1>0, <2>1
       DEF ServeList, Asked, server, history, TypeOK, ServerType, HistoryType, CallsSound, CallSet
  <2>2. CASE ServeGetCommit(c)
    BY <1>0, <2>2
       DEF ServeGetCommit, Asked, Stray, TypeOK, ServerType, HistoryType, CallsSound, CallSet
  <2>3. CASE ServeSave(c)
    <3>1. /\ calls[c].kind \in {"save", "resave"} /\ calls'[c].refused = calls[c].refused
          /\ cache' = [cache EXCEPT ![calls[c].project] = calls[c].state]
          /\ UNCHANGED <<commits, tip>>
          /\ strays' \subseteq strays \cup {"server"}
      BY <2>3, <1>0 DEF ServeSave, Asked, Saves, Stray, TypeOK
    <3>2. cache' \in [Projects -> State] /\ ~calls[c].refused
      BY <1>0, <3>1 DEF TypeOK, ServerType, CallSet, CallsSound
    <3> QED
      BY <1>0, <3>1, <3>2 DEF TypeOK, ServerType, HistoryType
  <2>4. CASE ServeCommit(c) /\ UNCHANGED server
    BY <1>0, <2>4
       DEF ServeCommit, Asked, Stray, server, TypeOK, ServerType, HistoryType, CallsSound, CallSet
  <2>5. CASE ServeCommit(c) /\ ~UNCHANGED server
    <3>1. /\ calls[c].kind = "commit"
          /\ commits' = Append(commits, [project |-> calls[c].project, state |-> calls[c].state])
          /\ tip' = [tip EXCEPT ![calls[c].project] = Len(commits')]
          /\ cache' = [cache EXCEPT ![calls[c].project] = Nothing]
          /\ calls' = [calls EXCEPT ![c].served = TRUE, ![c].num = Len(commits')]
          /\ strays' \subseteq strays \cup {"server"}
      BY <2>5 DEF ServeCommit, Asked, Stray
    <3>2. [project |-> calls[c].project, state |-> calls[c].state] \in Entries
      BY <1>0 DEF CallSet, Entries
    <3>3. commits' \in Seq(Entries) /\ Len(commits') = Len(commits) + 1
      BY <3>1, <3>2 DEF TypeOK, ServerType
    <3>4. tip' \in [Projects -> 0 .. Len(commits')] /\ cache' \in [Projects -> State]
      BY <1>0, <3>1, <3>3 DEF TypeOK, ServerType
    <3>5. calls'[c].num = Len(commits')
      BY <1>0, <3>1 DEF TypeOK, CallSet
    <3> QED
      BY <1>0, <3>1, <3>3, <3>4, <3>5 DEF ServerType, TypeOK, HistoryType
  <2> QED
    BY <2>1, <2>2, <2>3, <2>4, <2>5 DEF Serve
<1>2. /\ calls' \in [Slots -> CallSet] /\ Busy(c)
      /\ calls'[c].kind = calls[c].kind /\ calls'[c].project = calls[c].project
      /\ \A d \in Slots : d # c => calls'[d] = calls[d]
      /\ UNCHANGED <<page, editor, player, counts, loaded, failed, overlapped>>
  BY Serving
<1>3. TypeOK'
  BY <1>0, <1>1, <1>2
     DEF TypeOK, PageType, EditorType, PlayerType, HistoryType, page, editor, player, counts
<1>4. CallsSound'
  BY <1>0, <1>1, <1>2 DEF CallsSound, Busy
<1> QED
  BY <1>3, <1>4

-----------------------------------------------------------------------------
(* Answers *)

(* Playing a source keeps the types.                                        *)
LEMMA Playing ==
  ASSUME TypeOK, NEW s \in Sources, Play(s)
  PROVE  PlayerType'
BY Idling DEF TypeOK, PlayerType, Play

(* A state that is loaded is the project's of the call.                     *)
LEMMA Loading ==
  ASSUME TypeOK, NEW c \in Slots, calls[c].project \in Projects,
         LoadState([calls[c].state EXCEPT !.of = calls[c].project])
  PROVE  store' \in State /\ store'.of = calls[c].project /\ revision' = 0 /\ ~timer' /\ timer' \in BOOLEAN
BY DEF TypeOK, LoadState, State, CallSet

(* A slot emptied by an answer keeps the types.                             *)
LEMMA Emptying ==
  ASSUME NEW p \in Projects, LoadNothing(p)
  PROVE  store' \in State /\ store'.of = p /\ revision' = 0 /\ ~timer' /\ timer' \in BOOLEAN
<1>1. store' = [of |-> p, edit |-> 0] /\ revision' = 0 /\ ~timer' /\ timer' \in BOOLEAN
  BY DEF LoadNothing, LoadState, Empty
<1>2. [of |-> p, edit |-> 0] \in State
  BY DEF State
<1> QED
  BY <1>1, <1>2

(* What an answer does to the calls.                                        *)
LEMMA Answering ==
  ASSUME Typed, NEW c \in Slots, Answer(c) \/ Fail(c)
  PROVE  /\ calls' \in [Slots -> CallSet] /\ Busy(c)
         /\ \A d \in Slots : d # c => calls'[d] = calls[d]
         /\ calls'[c].gone => calls[c].gone
         /\ \/ calls'[c] = Idle
            \/ /\ calls[c].kind = "list" /\ calls'[c].kind = "load" /\ calls[c].num # NoCommit
               /\ calls'[c].num = calls[c].num
               /\ calls'[c].project = calls[c].project /\ calls'[c].gone = calls[c].gone
               /\ ~calls'[c].refused
            \/ /\ calls[c].kind = "restore" /\ calls'[c].kind = "resave"
               /\ calls'[c].num = calls[c].num /\ calls'[c].state = store'
               /\ calls'[c].project = calls[c].project /\ calls'[c].gone = calls[c].gone
               /\ ~calls'[c].refused /\ ~calls'[c].served
<1>1. calls[c] \in CallSet
  BY DEF Typed, TypeOK
<1>2. CASE Done(c) /\ Busy(c)
  <2>1. calls' \in [Slots -> CallSet] /\ calls'[c] = Idle
        /\ \A d \in Slots : d # c => calls'[d] = calls[d]
    BY <1>2, Ending DEF Typed
  <2> QED
    BY <1>2, <2>1 DEF Idle
<1>3. CASE AnswerList(c)
  <2>1. calls[c].kind = "list" /\ Busy(c)
    BY <1>3 DEF AnswerList, Answered, Busy
  <2>2. CASE calls[c].num # NoCommit
    <3> DEFINE call == Call("load", calls[c].project, Nothing, calls[c].num)
    <3>1. calls[c].project \in Projects /\ calls[c].num \in Nat
      BY <1>1, <2>1 DEF Typed, CallsSound, CallSet
    <3>2. /\ call \in CallSet /\ call.kind = "load" /\ call.project = calls[c].project
          /\ call.num = calls[c].num /\ ~call.refused
      BY <3>1, Calling, Idling DEF Kinds
    <3> HIDE DEF call
    <3>3. Continue(c, call)
      BY <1>3, <2>2 DEF AnswerList, call
    <3> QED
      BY <2>1, <2>2, <3>2, <3>3, Following DEF Typed
  <2> QED
    BY <1>2, <1>3, <2>1, <2>2 DEF AnswerList
<1>4. CASE AnswerRestore(c)
  <2> DEFINE call == Call("resave", calls[c].project, store', calls[c].num)
  <2>1. calls[c].kind = "restore" /\ Busy(c)
    BY <1>4 DEF AnswerRestore, Answered, Busy
  <2>2. calls[c].project \in Projects /\ calls[c].num \in Nat
    BY <1>1, <2>1 DEF Typed, CallsSound, CallSet
  <2>3. store' \in State
    BY <1>4, <2>2, Loading DEF AnswerRestore, Typed
  <2>4. /\ call \in CallSet /\ call.kind = "resave" /\ call.project = calls[c].project
        /\ call.num = calls[c].num /\ call.state = store' /\ ~call.refused /\ ~call.served
    BY <2>2, <2>3, Calling DEF Kinds
  <2> HIDE DEF call
  <2>5. Continue(c, call)
    BY <1>4 DEF AnswerRestore, call
  <2> QED
    BY <2>1, <2>4, <2>5, Following DEF Typed
<1>5. CASE AnswerLoad(c) \/ AnswerSave(c) \/ AnswerCommit(c) \/ AnswerResave(c) \/ Fail(c)
  <2>1. Done(c) /\ Busy(c)
    BY <1>5 DEF AnswerLoad, AnswerSave, AnswerCommit, AnswerResave, Fail, Answered, Busy
  <2> QED
    BY <1>2, <2>1
<1> QED
  BY <1>3, <1>4, <1>5 DEF Answer

(* An answer leaves the server alone and keeps the types of the page.        *)
LEMMA AnsweringTypes ==
  ASSUME Typed, PageInv, NEW c \in Slots, Answer(c) \/ Fail(c)
  PROVE  Typed' /\ UNCHANGED <<open, server, edits>>
<1> USE DEF Typed
<1>0. /\ Len(commits) \in Nat /\ calls[c] \in CallSet /\ Busy(c)
      /\ calls[c].project \in Projects /\ calls[c].num \in Nat
  BY LengthIsNat, Answering DEF TypeOK, CallsSound, CallSet
<1>1. ASSUME NEW kind \in {"branch", "autosave", "commit", "restore"}, NEW n \in Nat,
             Play(<<kind, n>>)
      PROVE  PlayerType'
  BY <1>1, Sourcing, Playing
<1>2. UNCHANGED <<open, server, edits>>
  BY DEF Answer, AnswerList, AnswerLoad, AnswerSave, AnswerCommit, AnswerRestore, AnswerResave,
         Fail, page, counts
<1>3. PlayerType'
  <2>1. CASE UNCHANGED player
    BY <2>1 DEF player, TypeOK, PlayerType
  <2>2. CASE Play(NoSrc)
    BY <2>2, NoSource, Playing
  <2> QED
    BY <1>0, <1>1, <2>1, <2>2
       DEF Answer, AnswerList, AnswerLoad, AnswerSave, AnswerCommit, AnswerRestore, AnswerResave, Fail
<1>4. PageType'
  <2>1. /\ listed' = listed \/ (~calls[c].gone /\ listed' = TRUE)
        /\ known' \in {known, calls[c].num} /\ (known' = known \/ calls[c].kind \in {"list", "commit"})
        /\ restoring' \in {restoring, NoCommit}
    BY DEF Answer, AnswerList, AnswerLoad, AnswerSave, AnswerCommit, AnswerRestore, AnswerResave,
           Fail, Answered, page
  <2>2. ~calls[c].gone => open # NoProject
    BY <1>0 DEF PageInv, Live
  <2>3. known' \in 0 .. Len(commits) /\ restoring' \in 0 .. Len(commits)
    BY <1>0, <2>1 DEF TypeOK, PageType, CallsSound, NoCommit
  <2>4. CASE listed' = listed
    BY <1>2, <2>3, <2>4 DEF TypeOK, PageType, server
  <2>5. CASE ~calls[c].gone /\ listed' = TRUE
    BY <1>2, <2>2, <2>3, <2>5 DEF TypeOK, PageType, server
  <2> QED
    BY <2>1, <2>4, <2>5
<1>5. EditorType'
  <2>1. CASE LoadState([calls[c].state EXCEPT !.of = calls[c].project])
    BY <1>0, <1>2, <2>1, Loading DEF TypeOK, EditorType
  <2>2. CASE LoadNothing(calls[c].project)
    BY <1>0, <1>2, <2>2, Emptying DEF TypeOK, EditorType
  <2>3. CASE UNCHANGED <<store, revision>> /\ timer' = timer /\ (listed => listed')
    BY <1>2, <2>3 DEF TypeOK, EditorType
  <2>4. CASE UNCHANGED <<store, revision>> /\ timer' = Debounced(listed', revision) /\ listed' \in BOOLEAN
    BY <1>2, <2>4 DEF TypeOK, EditorType, Debounced
  <2>5. listed' \in BOOLEAN
    BY <1>4 DEF PageType
  <2>6. CASE AnswerList(c)
    BY <2>2, <2>3, <2>4, <2>5, <2>6 DEF AnswerList
  <2>7. CASE AnswerCommit(c)
    BY <2>3, <2>4, <2>5, <2>7 DEF AnswerCommit
  <2>8. CASE AnswerLoad(c) \/ AnswerRestore(c)
    BY <2>1, <2>8 DEF AnswerLoad, AnswerRestore
  <2>9. CASE AnswerSave(c) \/ AnswerResave(c) \/ Fail(c)
    BY <2>3, <2>9 DEF AnswerSave, AnswerResave, Fail, page, editor
  <2> QED
    BY <2>6, <2>7, <2>8, <2>9 DEF Answer
<1>6. HistoryType'
  BY DEF Answer, AnswerList, AnswerLoad, AnswerSave, AnswerCommit, AnswerRestore, AnswerResave,
         Fail, Stray, Overlap, history, TypeOK, HistoryType
<1>7. ServerType'
  BY <1>2 DEF server, TypeOK, ServerType
<1>8. TypeOK'
  BY <1>3, <1>4, <1>5, <1>6, <1>7, Answering DEF TypeOK
<1>9. CallsSound'
  <2>1. \A d \in Slots : d # c => calls'[d] = calls[d]
    BY Answering
  <2>2. \/ calls'[c] = Idle
        \/ /\ calls'[c].kind = "load" /\ calls'[c].num \in 1 .. Len(commits)
           /\ calls'[c].project \in Projects /\ ~calls'[c].refused
        \/ calls'[c].kind = "resave" /\ calls'[c].project \in Projects /\ ~calls'[c].refused
    BY <1>0, Answering DEF CallsSound, NoCommit
  <2> QED
    BY <1>2, <2>1, <2>2, Idling DEF CallsSound, Busy, server
<1> QED
  BY <1>2, <1>8, <1>9

(* Every step keeps the types.                                              *)
LEMMA TypesNext ==
  ASSUME Typed, PageInv, [Next]_vars
  PROVE  Typed'
<1>1. CASE UNCHANGED vars
  BY <1>1 DEF vars, page, editor, player, server, counts, history, Typed, TypeOK, PageType,
              EditorType, PlayerType, ServerType, HistoryType, CallsSound, Busy
<1> QED
  BY <1>1, UserTypes, ServingTypes, AnsweringTypes DEF Next, UserStep

-----------------------------------------------------------------------------
(* The user *)

Rest == PageInv /\ StoreFollowsPage /\ TipInv /\ SaveInv

(* Without an open project there is no call that a page waits for.          *)
LEMMA NoneLive == Typed /\ PageInv /\ open = NoProject => \A c \in Slots : ~Live(c)
BY DEF Typed, CallsSound, PageInv, Live

(* A page is mounted: all the calls under way are those of earlier pages.   *)
LEMMA OpenStep ==
  ASSUME IInv, NEW p \in Projects, Open(p)
  PROVE  Rest'
<1> DEFINE call == Call("list", p, Nothing, 0)
<1>1. /\ call \in CallSet /\ call.kind = "list" /\ call.project = p
      /\ ~call.served /\ ~call.refused /\ ~call.gone
  BY Calling, Idling DEF Kinds
<1> HIDE DEF call
<1>2. /\ open = NoProject /\ open' = p /\ ~listed' /\ ~loaded' /\ ~fetching' /\ Send(call)
  BY DEF Open, call
<1>3. PICK c \in Slots : calls'[c] = call /\ \A d \in Slots : d # c => calls'[d] = calls[d]
  BY <1>1, <1>2, Sending DEF IInv, Typed
<1>4. \A d \in Slots : d # c => ~Live(d)'
  BY <1>2, <1>3, NoneLive DEF IInv, Live, Busy
<1>5. PageInv'
  BY <1>1, <1>2, <1>3, <1>4 DEF PageInv, Of, Live
<1>6. TipInv'
  BY <1>1, <1>2, <1>3, <1>4 DEF TipInv, Of
<1>7. StoreFollowsPage' /\ SaveInv'
  BY <1>2 DEF StoreFollowsPage, SaveInv
<1> QED
  BY <1>5, <1>6, <1>7 DEF Rest

(* A page is left.                                                          *)
LEMMA LeaveStep ==
  ASSUME IInv, Leave
  PROVE  Rest'
<1>1. /\ open' = NoProject /\ ~listed' /\ ~fetching'
      /\ calls' = [c \in Slots |-> IF Busy(c) THEN [calls[c] EXCEPT !.gone = TRUE] ELSE Idle]
  BY DEF Leave
<1>2. \A c \in Slots : ~Live(c)'
  BY <1>1 DEF IInv, Typed, TypeOK, CallSet, Live, Busy, Idle
<1>3. PageInv'
  BY <1>1, <1>2 DEF PageInv, Of
<1> QED
  BY <1>1, <1>3 DEF Rest, StoreFollowsPage, TipInv, SaveInv

(* The user edits: the edit is to be saved, and nothing is answered.        *)
LEMMA EditStep ==
  ASSUME IInv, Edit
  PROVE  Rest'
<1>1. /\ store'.of = store.of /\ revision' # 0
      /\ timer' = (listed /\ revision' # 0)
      /\ UNCHANGED <<open, listed, known, fetching, calls, tip, cache, loaded, failed, overlapped, strays>>
  BY DEF Edit, Debounced, page, player, server, history, IInv, Typed, TypeOK, EditorType, State
<1>2. PageInv' /\ TipInv'
  BY <1>1 DEF IInv, PageInv, TipInv, Of, Live, Busy, Undisturbed
<1>3. StoreFollowsPage'
  BY <1>1 DEF IInv, StoreFollowsPage
<1>4. open # NoProject /\ loaded => timer'
  BY <1>1 DEF IInv, PageInv
<1>5. SaveInv'
  BY <1>1, <1>4 DEF SaveInv
<1> QED
  BY <1>2, <1>3, <1>5 DEF Rest

(* The player fetches what it is to play.                                   *)
LEMMA FetchStep ==
  ASSUME IInv, Fetch
  PROVE  Rest'
BY DEF Fetch, page, editor, server, history, IInv, Rest, PageInv, StoreFollowsPage, TipInv,
       SaveInv, Of, Live, Busy, Undisturbed, Unserved

(* A call that the open page sends.                                         *)
LEMMA SendStep ==
  ASSUME IInv, NEW call \in CallSet, Send(call), listed, call.project = open,
         call.kind \in Kinds \ {"idle", "list"}, ~call.served, ~call.refused, ~call.gone,
         call.kind = "commit" => call.num = known /\ (\A c \in Slots : Live(c) => calls[c].kind # "commit"),
         call.kind \in Saves => call.state = store /\ (SaveUnderWay => "save" \in overlapped'),
         timer' = timer \/ call.kind \in Saves,
         overlapped \subseteq overlapped',
         UNCHANGED <<open, listed, known, store, revision, fetching, tip, cache, loaded, failed, strays>>
  PROVE  Rest'
<1>1. PICK c \in Slots : /\ ~Busy(c) /\ calls'[c] = call
                         /\ \A d \in Slots : d # c => calls'[d] = calls[d]
  BY Sending DEF IInv, Typed
<1>2. /\ \A d \in Slots : d # c => (Live(d)' <=> Live(d)) /\ (Unserved(d)' <=> Unserved(d))
      /\ ~Live(c) /\ Live(c)' /\ (Unserved(c)' <=> call.kind \in Saves)
  BY <1>1 DEF Live, Busy, Unserved
<1>3. PageInv'
  BY <1>1, <1>2 DEF IInv, PageInv, Of
<1>4. StoreFollowsPage'
  BY DEF IInv, StoreFollowsPage
<1>5. TipInv'
  <2> SUFFICES ASSUME open # NoProject, Undisturbed
               PROVE  /\ known = tip[open] \/ \E d \in Of("commit")' : calls'[d].served
                      /\ \A d \in Of("list")' : calls'[d].served => calls'[d].num = tip[open]
                      /\ \A d \in Of("commit")' : calls'[d].num = tip[open] /\ ~calls'[d].refused
    BY DEF TipInv, Undisturbed
  <2>1. CASE call.kind = "commit"
    BY <1>1, <1>2, <2>1 DEF IInv, TipInv, Of
  <2>2. CASE call.kind # "commit"
    BY <1>1, <1>2, <2>2 DEF IInv, TipInv, Of
  <2> QED
    BY <2>1, <2>2
<1>6. SaveInv'
  <2> SUFFICES ASSUME open # NoProject, loaded, Undisturbed, "save" \notin overlapped', revision # 0
               PROVE  /\ \/ timer' \/ cache[open] = store
                         \/ \E d \in Slots : Live(d)' /\ calls'[d].kind \in {"load", "restore", "commit"}
                         \/ \E d \in Slots : Unserved(d)' /\ calls'[d].state = store
                      /\ \A d \in Slots : Unserved(d)' => timer' \/ calls'[d].state = store
    BY DEF SaveInv, Undisturbed
  <2>1. CASE call.kind \in Saves
    <3>1. \A d \in Slots : ~Unserved(d)
      BY <2>1 DEF SaveUnderWay, Unserved
    <3> QED
      BY <1>1, <1>2, <2>1, <3>1
  <2>2. CASE call.kind \notin Saves
    <3>1. /\ \/ timer \/ cache[open] = store
             \/ \E d \in Slots : Live(d) /\ calls[d].kind \in {"load", "restore", "commit"}
             \/ \E d \in Slots : Unserved(d) /\ calls[d].state = store
          /\ \A d \in Slots : Unserved(d) => timer \/ calls[d].state = store
      BY DEF IInv, SaveInv
    <3>2. (timer' <=> timer) /\ ~Unserved(c)'
      BY <1>2, <2>2
    <3>3. CASE timer
      BY <3>2, <3>3
    <3>4. CASE \E d \in Slots : Live(d) /\ calls[d].kind \in {"load", "restore", "commit"}
      BY <1>1, <1>2, <3>1, <3>2, <3>4
    <3>5. CASE \E d \in Slots : Unserved(d) /\ calls[d].state = store
      <4>1. ~Unserved(c)
        BY <1>2 DEF Unserved
      <4>2. PICK d \in Slots : Unserved(d) /\ calls[d].state = store
        BY <3>5
      <4>3. Unserved(d)' /\ calls'[d].state = store
        BY <1>1, <1>2, <4>1, <4>2
      <4>4. \A e \in Slots : Unserved(e)' => timer' \/ calls'[e].state = store
        BY <1>1, <1>2, <3>1, <3>2
      <4> QED
        BY <4>3, <4>4
    <3> QED
      BY <1>1, <1>2, <3>1, <3>2, <3>3, <3>4, <3>5
  <2> QED
    BY <2>1, <2>2
<1> QED
  BY <1>3, <1>4, <1>5, <1>6 DEF Rest

(* The other steps of the page: it sends, commits, restores, or its timer runs out. *)
LEMMA UserStepRest ==
  ASSUME IInv, UserStep
  PROVE  Rest'
<1>0. Typed /\ Len(commits) \in Nat
  BY LengthIsNat DEF IInv, Typed
<1>1. CASE AutoSave
  <2> DEFINE call == Call("save", open, store, revision)
  <2>1. open \in Projects /\ store \in State /\ revision \in Nat /\ listed
    BY <1>0, <1>1 DEF AutoSave, Typed, TypeOK, PageType, EditorType
  <2>2. /\ call \in CallSet /\ call.kind = "save" /\ call.project = open /\ call.state = store
        /\ ~call.served /\ ~call.refused /\ ~call.gone
    BY <2>1, Calling DEF Kinds
  <2> HIDE DEF call
  <2>3. /\ Send(call) /\ overlapped \subseteq overlapped' /\ (SaveUnderWay => "save" \in overlapped')
        /\ UNCHANGED <<open, listed, known, store, revision, fetching, tip, cache, loaded, failed, strays>>
    BY <1>1 DEF AutoSave, Overlap, call, page, player, server
  <2> QED
    BY <2>1, <2>2, <2>3, SendStep DEF Kinds, Saves
<1>2. CASE ClickCommit
  <2> DEFINE call == Call("commit", open, store, known)
  <2>1. open \in Projects /\ store \in State /\ known \in Nat /\ listed
    BY <1>0, <1>2 DEF ClickCommit, Typed, TypeOK, PageType, EditorType
  <2>2. /\ call \in CallSet /\ call.kind = "commit" /\ call.project = open /\ call.num = known
        /\ ~call.served /\ ~call.refused /\ ~call.gone
    BY <2>1, Calling DEF Kinds
  <2> HIDE DEF call
  <2>3. /\ Send(call) /\ (\A c \in Slots : Live(c) => calls[c].kind # "commit")
        /\ UNCHANGED <<open, listed, known, store, revision, timer, fetching, tip, cache, loaded,
                       failed, overlapped, strays>>
    BY <1>2 DEF ClickCommit, call, page, editor, player, server, history
  <2> QED
    BY <2>1, <2>2, <2>3, SendStep DEF Kinds, Saves
<1>3. ASSUME NEW id \in 1 .. Len(commits), ClickRestore(id)
      PROVE  Rest'
  <2> DEFINE call == Call("restore", open, Nothing, id)
  <2>1. open \in Projects /\ id \in Nat /\ listed
    BY <1>0, <1>3 DEF ClickRestore, Typed, TypeOK, PageType
  <2>2. /\ call \in CallSet /\ call.kind = "restore" /\ call.project = open
        /\ ~call.served /\ ~call.refused /\ ~call.gone
    BY <2>1, Calling, Idling DEF Kinds
  <2> HIDE DEF call
  <2>3. /\ Send(call) /\ overlapped \subseteq overlapped'
        /\ UNCHANGED <<open, listed, known, store, revision, timer, fetching, tip, cache, loaded,
                       failed, strays>>
    BY <1>3 DEF ClickRestore, Overlap, call, editor, player, server
  <2> QED
    BY <2>1, <2>2, <2>3, SendStep DEF Kinds, Saves
<1> QED
  BY <1>1, <1>2, <1>3, OpenStep, LeaveStep, EditStep, FetchStep DEF UserStep

-----------------------------------------------------------------------------
(* The server, as the open page will see it *)

(* The server serves a call: what the page knows is as before.              *)
LEMMA ServingPage ==
  ASSUME IInv, NEW c \in Slots, Serve(c)
  PROVE  /\ PageInv' /\ StoreFollowsPage' /\ strays \subseteq strays'
         /\ \A d \in Slots : (Live(d)' <=> Live(d)) /\ calls'[d].kind = calls[d].kind
         /\ UNCHANGED <<open, listed, known, store, revision, timer, loaded, failed, overlapped>>
<1>1. /\ calls'[c].kind = calls[c].kind /\ calls'[c].project = calls[c].project
      /\ calls'[c].gone = calls[c].gone
      /\ \A d \in Slots : d # c => calls'[d] = calls[d]
      /\ UNCHANGED <<open, listed, known, store, revision, timer, fetching, loaded, failed, overlapped>>
  BY Serving DEF IInv, page, editor, player
<1>2. \A d \in Slots : (Live(d)' <=> Live(d)) /\ calls'[d].kind = calls[d].kind
                       /\ calls'[d].project = calls[d].project
  BY <1>1 DEF Live, Busy
<1>3. strays \subseteq strays'
  BY DEF Serve, ServeList, ServeGetCommit, ServeSave, ServeCommit, Stray, history
<1>4. PageInv'
  BY <1>1, <1>2 DEF IInv, PageInv, Of
<1>5. StoreFollowsPage'
  BY <1>1, <1>3 DEF IInv, StoreFollowsPage
<1> QED
  BY <1>1, <1>2, <1>3, <1>4, <1>5

(* What is done for an earlier page is a stray; a commit of the open page is *)
(* of the tip.                                                              *)
LEMMA ServingStrays ==
  ASSUME IInv, NEW c \in Slots, Serve(c), open # NoProject, Undisturbed'
  PROVE  /\ Undisturbed
         /\ calls[c].gone => UNCHANGED <<commits, tip, cache>>
         /\ Live(c) => calls[c].project = open
         /\ Live(c) /\ calls[c].kind = "commit" => calls[c].num = tip[open]
<1>1. Undisturbed
  BY ServingPage DEF Undisturbed
<1>2. calls[c].gone => UNCHANGED <<commits, tip, cache>>
  BY DEF Serve, ServeList, ServeGetCommit, ServeSave, ServeCommit, Stray, server, Undisturbed
<1> QED
  BY <1>1, <1>2 DEF IInv, PageInv, TipInv, Of

(* The server serves a call: a tip told to a page is one the branch has had. *)
LEMMA ServingTip ==
  ASSUME IInv, NEW c \in Slots, Serve(c)
  PROVE  TipInv'
<1> SUFFICES ASSUME open # NoProject, Undisturbed'
             PROVE  /\ listed => known = tip'[open] \/ \E d \in Of("commit")' : calls'[d].served
                    /\ \A d \in Of("list")' : calls'[d].served => calls'[d].num = tip'[open]
                    /\ \A d \in Of("commit")' : calls'[d].num = tip'[open] /\ ~calls'[d].refused
  BY ServingPage DEF TipInv
<1>1. /\ listed => known = tip[open] \/ \E d \in Of("commit") : calls[d].served
      /\ \A d \in Of("list") : calls[d].served => calls[d].num = tip[open]
      /\ \A d \in Of("commit") : calls[d].num = tip[open] /\ ~calls[d].refused
  BY ServingStrays DEF IInv, TipInv
<1>2. /\ \A d \in Slots : (Live(d)' <=> Live(d)) /\ calls'[d].kind = calls[d].kind
      /\ \A d \in Slots : d # c => calls'[d] = calls[d]
      /\ calls'[c].served /\ (Live(c) => ~calls[c].gone)
  BY ServingPage, Serving DEF IInv, Live
<1>3. Of("list")' = Of("list") /\ Of("commit")' = Of("commit")
  BY <1>2 DEF Of
<1>4. CASE ServeList(c)
  <2>1. /\ tip' = tip /\ calls[c].kind = "list"
        /\ Live(c) => calls'[c].num = tip[open]
    BY <1>4, ServingStrays DEF ServeList, Asked, server, IInv, Typed, TypeOK, CallSet
  <2> QED
    BY <1>1, <1>2, <1>3, <2>1 DEF Of
<1>5. CASE ServeGetCommit(c) \/ ServeSave(c)
  <2>1. tip' = tip /\ calls[c].kind \notin {"list", "commit"}
    BY <1>5 DEF ServeGetCommit, ServeSave, Asked, Saves
  <2> QED
    BY <1>1, <1>2, <1>3, <2>1 DEF Of
<1>6. CASE ServeCommit(c) /\ calls[c].gone
  <2>1. tip' = tip /\ c \notin Of("commit") /\ c \notin Of("list")
    BY <1>6, ServingStrays DEF Of, Live
  <2> QED
    BY <1>1, <1>2, <1>3, <2>1 DEF Of
<1>7. CASE ServeCommit(c) /\ ~calls[c].gone
  <2>1. calls[c].kind = "commit" /\ Live(c) /\ calls[c].project = open /\ calls[c].num = tip[open]
    BY <1>7, ServingStrays, Serving DEF ServeCommit, Asked, Live, IInv
  <2>2. Of("commit") = {c} /\ Of("list") = {}
    BY <2>1 DEF IInv, PageInv, Of
  <2>3. /\ tip' = [tip EXCEPT ![open] = Len(commits')]
        /\ calls' = [calls EXCEPT ![c].served = TRUE, ![c].num = Len(commits')]
    BY <1>7, <2>1 DEF ServeCommit
  <2>4. tip'[open] = Len(commits') /\ calls'[c].num = Len(commits') /\ calls'[c].refused = calls[c].refused
    BY <2>1, <2>3 DEF IInv, Typed, TypeOK, ServerType, PageType, CallSet
  <2> QED
    BY <1>1, <1>2, <1>3, <2>2, <2>4
<1> QED
  BY <1>4, <1>5, <1>6, <1>7 DEF Serve

(* The server serves a call: what is saved is what was sent.                *)
LEMMA ServingSave ==
  ASSUME IInv, NEW c \in Slots, Serve(c)
  PROVE  SaveInv'
<1> SUFFICES ASSUME (open # NoProject)', loaded', Undisturbed', ("save" \notin overlapped)',
                    (revision # 0)'
             PROVE  /\ \/ timer' \/ (cache[open] = store)'
                       \/ \E d \in Slots : Live(d)' /\ calls'[d].kind \in {"load", "restore", "commit"}
                       \/ \E d \in Slots : Unserved(d)' /\ calls'[d].state = store'
                    /\ \A d \in Slots : Unserved(d)' => timer' \/ calls'[d].state = store'
  BY DEF SaveInv
<1>0. /\ open # NoProject /\ loaded /\ "save" \notin overlapped /\ revision # 0
      /\ UNCHANGED <<open, store>> /\ (timer' <=> timer)
  BY ServingPage
<1>1. /\ \/ timer \/ cache[open] = store
         \/ \E d \in Slots : Live(d) /\ calls[d].kind \in {"load", "restore", "commit"}
         \/ \E d \in Slots : Unserved(d) /\ calls[d].state = store
      /\ \A d \in Slots : Unserved(d) => timer \/ calls[d].state = store
  BY <1>0, ServingStrays DEF IInv, SaveInv
<1>2. /\ \A d \in Slots : (Live(d)' <=> Live(d)) /\ calls'[d].kind = calls[d].kind
      /\ \A d \in Slots : d # c => calls'[d] = calls[d]
      /\ calls'[c].served /\ Busy(c)
  BY ServingPage, Serving DEF IInv
<1>3. \A d \in Slots : Unserved(d)' <=> Unserved(d) /\ d # c
  BY <1>2 DEF Unserved
<1>4. \A d \in Slots : Unserved(d)' => timer' \/ calls'[d].state = store'
  BY <1>0, <1>1, <1>2, <1>3
<1>5. CASE Live(c) /\ calls[c].kind \in {"load", "restore", "commit"}
  BY <1>0, <1>2, <1>4, <1>5
<1>6. CASE ServeSave(c) /\ Live(c)
  <2>1. Unserved(c) /\ calls[c].project = open /\ open \in Projects
    BY <1>0, <1>6, ServingStrays DEF ServeSave, Asked, Unserved, IInv, Typed, CallsSound, Live
  <2>2. cache'[open] = calls[c].state
    BY <1>6, <2>1 DEF ServeSave, IInv, Typed, TypeOK, ServerType
  <2> QED
    BY <1>0, <1>1, <1>4, <2>1, <2>2
<1>7. CASE ~Live(c) \/ ServeList(c)
  <2>1. cache' = cache
    BY <1>0, <1>2, <1>7, ServingStrays DEF ServeList, server, Live
  <2>2. ~Unserved(c)
    BY <1>7 DEF Unserved, ServeList, Asked, Saves
  <2>3. \A d \in Slots : Unserved(d) /\ calls[d].state = store => Unserved(d)' /\ calls'[d].state = store
    BY <1>2, <1>3, <2>2
  <2> QED
    BY <1>0, <1>1, <1>2, <1>4, <2>1, <2>3
<1> QED
  BY <1>5, <1>6, <1>7 DEF Serve, ServeGetCommit, ServeCommit, Asked

-----------------------------------------------------------------------------
(* The answers, to the open page or an earlier one *)

(* The answer to a call of an earlier page changes nothing of the open one   *)
(* but the store, and then it is a stray.                                   *)
LEMMA AnsweringGone ==
  ASSUME IInv, NEW c \in Slots, Answer(c) \/ Fail(c), calls[c].gone
  PROVE  /\ UNCHANGED <<listed, known, src, shown, fetching>> /\ (loaded' <=> loaded)
         /\ \/ revision' = 0 /\ (open # NoProject => "store" \in strays')
            \/ UNCHANGED <<store, revision, timer>>
<1>1. UNCHANGED <<listed, known, src, shown, fetching>>
  BY DEF Answer, AnswerList, AnswerLoad, AnswerSave, AnswerCommit, AnswerRestore, AnswerResave,
         Fail, page, player
<1>2. loaded' <=> loaded
  <2>1. loaded' = loaded \/ loaded' = (loaded \/ ~calls[c].gone)
    BY DEF Answer, AnswerList, AnswerLoad, AnswerSave, AnswerCommit, AnswerRestore, AnswerResave,
           Fail, history
  <2>2. CASE loaded' = loaded
    BY <2>2
  <2>3. CASE loaded' = (loaded \/ ~calls[c].gone)
    BY <2>3, Zenon
  <2> QED
    BY <2>1, <2>2, <2>3
<1>3. \/ revision' = 0 /\ (open # NoProject => "store" \in strays')
      \/ UNCHANGED <<store, revision, timer>>
  <2>1. CASE AnswerList(c)
    BY <2>1 DEF AnswerList, Stray, LoadNothing, LoadState
  <2>2. CASE AnswerLoad(c) \/ AnswerRestore(c)
    BY <2>2 DEF AnswerLoad, AnswerRestore, Stray, LoadState
  <2>3. CASE AnswerSave(c) \/ AnswerCommit(c) \/ AnswerResave(c) \/ Fail(c)
    BY <2>3 DEF AnswerSave, AnswerCommit, AnswerResave, Fail, editor
  <2> QED
    BY <2>1, <2>2, <2>3 DEF Answer
<1> QED
  BY <1>1, <1>2, <1>3

(* An answer takes no commit away.                                          *)
LEMMA AnsweringGrows ==
  ASSUME IInv, NEW c \in Slots, Answer(c) \/ Fail(c)
  PROVE  /\ strays \subseteq strays' /\ overlapped \subseteq overlapped'
         /\ failed => failed'
         /\ Undisturbed' => Undisturbed
<1>1. strays \subseteq strays' /\ overlapped \subseteq overlapped'
  BY DEF Answer, AnswerList, AnswerLoad, AnswerSave, AnswerCommit, AnswerRestore, AnswerResave, Fail,
         Stray, Overlap, history
<1>2. failed => failed'
  BY DEF Answer, AnswerList, AnswerLoad, AnswerSave, AnswerCommit, AnswerRestore, AnswerResave, Fail,
         history
<1> QED
  BY <1>1, <1>2 DEF Undisturbed

(* The calls the page waits for: the answered one is over, or is followed by *)
(* one of another kind.                                                     *)
LEMMA AnsweringCalls ==
  ASSUME IInv, NEW c \in Slots, Answer(c) \/ Fail(c)
  PROVE  /\ \A d \in Slots : d # c => /\ calls'[d] = calls[d] /\ (Live(d)' <=> Live(d))
                                      /\ (Unserved(d)' <=> Unserved(d))
         /\ Live(c)' => Live(c) /\ calls'[c].project = calls[c].project
         /\ Live(c)' => \/ calls[c].kind = "list" /\ calls'[c].kind = "load"
                        \/ calls[c].kind = "restore" /\ calls'[c].kind = "resave"
         /\ Live(c) <=> ~calls[c].gone
         /\ Live(c) => calls[c].project = open /\ open # NoProject
<1>1. /\ \A d \in Slots : d # c => calls'[d] = calls[d]
      /\ Busy(c)
      /\ \/ calls'[c] = Idle
         \/ /\ calls[c].kind = "list" /\ calls'[c].kind = "load"
            /\ calls'[c].project = calls[c].project /\ calls'[c].gone = calls[c].gone
         \/ /\ calls[c].kind = "restore" /\ calls'[c].kind = "resave"
            /\ calls'[c].project = calls[c].project /\ calls'[c].gone = calls[c].gone
  BY Answering DEF IInv
<1>2. Live(c) => calls[c].project = open /\ open # NoProject
  BY <1>1 DEF IInv, Typed, CallsSound, PageInv
<1> QED
  BY <1>1, <1>2 DEF Live, Busy, Unserved, Idle

(* An answer is taken: the calls left are those of the open page or gone.   *)
LEMMA AnsweringPage ==
  ASSUME IInv, NEW c \in Slots, Answer(c) \/ Fail(c)
  PROVE  PageInv'
<1>0. open' = open
  BY AnsweringTypes DEF IInv
<1>1. CASE calls[c].gone
  <2>1. /\ (listed' <=> listed) /\ (loaded' <=> loaded) /\ (fetching' <=> fetching)
        /\ ~Live(c) /\ ~Live(c)'
    BY <1>1, AnsweringGone, AnsweringCalls
  <2>2. \A kind : Of(kind)' = Of(kind)
    BY <2>1, AnsweringCalls DEF Of
  <2> QED
    BY <1>0, <2>1, <2>2, AnsweringCalls DEF IInv, PageInv
<1>2. CASE Live(c) /\ calls[c].kind = "list"
  <2>1. listed' \/ (Fail(c) /\ ~Live(c)' /\ (listed' <=> listed) /\ (loaded' <=> loaded))
    <3>1. CASE Fail(c)
      <4>1. (listed' <=> listed) /\ (loaded' <=> loaded) /\ Done(c)
        BY <3>1 DEF Fail
      <4> QED
        BY <3>1, <4>1, Ending DEF IInv, Typed, Live, Busy, Idle
    <3>2. CASE Answer(c)
      BY <1>2, <3>2 DEF Answer, AnswerList, AnswerLoad, AnswerSave, AnswerCommit, AnswerRestore,
                        AnswerResave, Answered, Live
    <3> QED
      BY <3>1, <3>2
  <2>2. \A d \in Slots : Live(d) => d = c
    BY <1>2 DEF IInv, PageInv, Of
  <2>3. \A d \in Slots : Live(d)' => d = c /\ calls'[d].kind = "load" /\ calls'[d].project = open
    BY <1>2, <2>2, AnsweringCalls
  <2>4. ~loaded /\ open # NoProject
    BY <1>2, AnsweringCalls DEF IInv, PageInv, Of
  <2> QED
    BY <1>0, <2>1, <2>3, <2>4 DEF PageInv, Of
<1>3. CASE Live(c) /\ calls[c].kind # "list"
  <2>1. listed /\ listed' = listed
    BY <1>3 DEF IInv, PageInv, Answer, AnswerList, AnswerLoad, AnswerSave, AnswerCommit,
                AnswerRestore, AnswerResave, Fail, Answered, page
  <2>2. Of("list") = {}
    BY <2>1 DEF IInv, PageInv
  <2>3. Of("list")' = {} /\ Of("commit")' \subseteq Of("commit")
    BY <1>3, <2>2, AnsweringCalls DEF Of
  <2>4. open # NoProject /\ \A d \in Slots : Live(d)' => calls'[d].project = open
    BY <1>3, AnsweringCalls DEF IInv, PageInv
  <2> QED
    BY <1>0, <2>1, <2>3, <2>4 DEF IInv, PageInv
<1> QED
  BY <1>1, <1>2, <1>3, AnsweringCalls

(* An answer is taken: the store is the project's own, or a stray wrote it. *)
LEMMA AnsweringStore ==
  ASSUME IInv, NEW c \in Slots, Answer(c) \/ Fail(c)
  PROVE  StoreFollowsPage'
<1>0. open' = open /\ strays \subseteq strays' /\ calls[c].project \in Projects
  BY AnsweringTypes, AnsweringGrows, Answering DEF IInv, Typed, CallsSound
<1>1. CASE calls[c].gone
  BY <1>0, <1>1, AnsweringGone DEF IInv, StoreFollowsPage
<1>2. CASE LoadState([calls[c].state EXCEPT !.of = calls[c].project]) /\ ~calls[c].gone
  BY <1>0, <1>2, Loading, AnsweringCalls DEF IInv, Typed, StoreFollowsPage
<1>3. CASE LoadNothing(calls[c].project) /\ ~calls[c].gone
  BY <1>0, <1>3, Emptying, AnsweringCalls DEF StoreFollowsPage
<1>4. CASE store' = store /\ loaded' = loaded
  BY <1>0, <1>4 DEF IInv, StoreFollowsPage
<1> QED
  BY <1>1, <1>2, <1>3, <1>4
     DEF Answer, AnswerList, AnswerLoad, AnswerSave, AnswerCommit, AnswerRestore, AnswerResave, Fail,
         editor, history

(* An answer is taken: the tip that the page knows is one the branch has had. *)
LEMMA AnsweringTip ==
  ASSUME IInv, NEW c \in Slots, Answer(c) \/ Fail(c)
  PROVE  TipInv'
<1> SUFFICES ASSUME open # NoProject, Undisturbed'
             PROVE  /\ listed' => known' = tip[open] \/ \E d \in Of("commit")' : calls'[d].served
                    /\ \A d \in Of("list")' : calls'[d].served => calls'[d].num = tip[open]
                    /\ \A d \in Of("commit")' : calls'[d].num = tip[open] /\ ~calls'[d].refused
  BY AnsweringTypes DEF IInv, TipInv, server
<1>1. /\ listed => known = tip[open] \/ \E d \in Of("commit") : calls[d].served
      /\ \A d \in Of("list") : calls[d].served => calls[d].num = tip[open]
      /\ \A d \in Of("commit") : calls[d].num = tip[open] /\ ~calls[d].refused
  BY AnsweringGrows DEF IInv, TipInv
<1>2. \A kind \in {"list", "commit"} : \A d \in Slots : d \in Of(kind)' <=> d \in Of(kind) /\ d # c
  BY AnsweringCalls DEF Of
<1>3. \A d \in Slots : d # c => calls'[d] = calls[d]
  BY AnsweringCalls
<1>4. /\ \A d \in Of("list")' : calls'[d].served => calls'[d].num = tip[open]
      /\ \A d \in Of("commit")' : calls'[d].num = tip[open] /\ ~calls'[d].refused
  BY <1>1, <1>2, <1>3 DEF Of
<1>5. CASE AnswerList(c) /\ ~calls[c].gone
  <2>1. known' = calls[c].num /\ c \in Of("list") /\ calls[c].served
    BY <1>5, AnsweringCalls DEF AnswerList, Answered, Of
  <2> QED
    BY <1>1, <1>4, <2>1
<1>6. CASE AnswerCommit(c) /\ ~calls[c].gone
  <2>1. c \in Of("commit")
    BY <1>6, AnsweringCalls DEF AnswerCommit, Answered, Of
  <2>2. known' = calls[c].num
    BY <1>1, <1>6, <2>1 DEF AnswerCommit
  <2> QED
    BY <1>1, <1>4, <2>1, <2>2
<1>7. CASE (listed' <=> listed) /\ known' = known /\ c \notin Of("commit")
  BY <1>1, <1>2, <1>3, <1>4, <1>7 DEF Of
<1>8. CASE calls[c].gone
  BY <1>7, <1>8, AnsweringGone, AnsweringCalls DEF Of
<1>9. CASE Fail(c) /\ ~calls[c].gone
  BY <1>9 DEF Fail, Undisturbed
<1>10. CASE (AnswerLoad(c) \/ AnswerSave(c) \/ AnswerRestore(c) \/ AnswerResave(c)) /\ ~calls[c].gone
  BY <1>7, <1>10 DEF AnswerLoad, AnswerSave, AnswerRestore, AnswerResave, Answered, page, Of
<1> QED
  BY <1>5, <1>6, <1>8, <1>9, <1>10 DEF Answer

(* An answer is taken: an edit not yet saved is still on its way.           *)
LEMMA AnsweringSave ==
  ASSUME IInv, NEW c \in Slots, Answer(c) \/ Fail(c)
  PROVE  SaveInv'
<1> SUFFICES ASSUME (open # NoProject)', loaded', Undisturbed', ("save" \notin overlapped)',
                    (revision # 0)'
             PROVE  /\ \/ timer' \/ (cache[open] = store)'
                       \/ \E d \in Slots : Live(d)' /\ calls'[d].kind \in {"load", "restore", "commit"}
                       \/ \E d \in Slots : Unserved(d)' /\ calls'[d].state = store'
                    /\ \A d \in Slots : Unserved(d)' => timer' \/ calls'[d].state = store'
  BY DEF SaveInv
<1>0. /\ UNCHANGED <<open, cache>> /\ Undisturbed /\ "save" \notin overlapped /\ open # NoProject
  BY AnsweringTypes, AnsweringGrows DEF IInv, server
<1>1. ASSUME loaded, UNCHANGED <<store, revision>>, timer' <=> timer,
             ~Unserved(c), ~Unserved(c)', Live(c) => calls[c].kind \notin {"load", "restore", "commit"}
      PROVE  /\ \/ timer' \/ (cache[open] = store)'
                \/ \E d \in Slots : Live(d)' /\ calls'[d].kind \in {"load", "restore", "commit"}
                \/ \E d \in Slots : Unserved(d)' /\ calls'[d].state = store'
             /\ \A d \in Slots : Unserved(d)' => timer' \/ calls'[d].state = store'
  <2>1. /\ \/ timer \/ cache[open] = store
           \/ \E d \in Slots : Live(d) /\ calls[d].kind \in {"load", "restore", "commit"}
           \/ \E d \in Slots : Unserved(d) /\ calls[d].state = store
        /\ \A d \in Slots : Unserved(d) => timer \/ calls[d].state = store
    BY <1>0, <1>1 DEF IInv, SaveInv
  <2>2. \A d \in Slots : d # c => /\ calls'[d] = calls[d] /\ (Live(d)' <=> Live(d))
                                  /\ (Unserved(d)' <=> Unserved(d))
    BY AnsweringCalls
  <2>3. CASE \E d \in Slots : Live(d) /\ calls[d].kind \in {"load", "restore", "commit"}
    BY <1>1, <2>1, <2>2, <2>3
  <2>4. CASE \E d \in Slots : Unserved(d) /\ calls[d].state = store
    BY <1>1, <2>1, <2>2, <2>4
  <2> QED
    BY <1>0, <1>1, <2>1, <2>2, <2>3, <2>4
<1>2. CASE calls[c].gone
  <2>1. (loaded' <=> loaded) /\ UNCHANGED <<store, revision>> /\ (timer' <=> timer)
    BY <1>2, AnsweringGone
  <2>2. ~Live(c) /\ ~Live(c)'
    BY <1>2, AnsweringCalls
  <2> QED
    BY <1>1, <2>1, <2>2 DEF Unserved
<1>3. CASE Fail(c) /\ ~calls[c].gone
  BY <1>3 DEF Fail, Undisturbed
<1>4. CASE AnswerList(c) /\ ~calls[c].gone
  <2>1. ~loaded
    BY <1>4, AnsweringCalls DEF IInv, PageInv, AnswerList, Answered, Of
  <2> QED
    BY <1>4, <2>1 DEF AnswerList, LoadNothing, LoadState
<1>5. CASE AnswerLoad(c) \/ AnswerRestore(c)
  BY <1>5 DEF AnswerLoad, AnswerRestore, LoadState
<1>6. CASE (AnswerSave(c) \/ AnswerResave(c)) /\ ~calls[c].gone
  <2>0. calls[c].served /\ calls[c].kind \in {"save", "resave"}
    BY <1>6 DEF AnswerSave, AnswerResave, Answered
  <2>1. UNCHANGED <<store, revision, timer, loaded>>
    BY <1>6 DEF AnswerSave, AnswerResave, editor, history
  <2>3. loaded /\ (timer' <=> timer)
    BY <2>1
  <2>2. ~Unserved(c) /\ ~Unserved(c)'
    BY <2>0, AnsweringCalls DEF Unserved
  <2> QED
    BY <1>1, <2>0, <2>1, <2>2, <2>3
<1>7. CASE AnswerCommit(c) /\ ~calls[c].gone
  <2>1. c \in Of("commit") /\ listed
    BY <1>7, AnsweringCalls DEF AnswerCommit, Answered, Of, IInv, PageInv
  <2>2. ~calls[c].refused
    BY <1>0, <2>1 DEF IInv, TipInv
  <2>3. timer'
    BY <1>7, <2>1, <2>2 DEF AnswerCommit, Debounced
  <2> QED
    BY <2>3
<1> QED
  BY <1>2, <1>3, <1>4, <1>5, <1>6, <1>7 DEF Answer

-----------------------------------------------------------------------------

(* One step per action and conjunct.                                        *)
LEMMA IInvNext ==
  ASSUME IInv, [Next]_vars
  PROVE  IInv'
<1>1. Typed'
  BY TypesNext DEF IInv
<1>2. CASE UserStep
  BY <1>1, <1>2, UserStepRest DEF IInv, Rest
<1>3. ASSUME NEW c \in Slots, Serve(c)
      PROVE  IInv'
  BY <1>1, <1>3, ServingPage, ServingTip, ServingSave DEF IInv
<1>4. ASSUME NEW c \in Slots, Answer(c) \/ Fail(c)
      PROVE  IInv'
  BY <1>1, <1>4, AnsweringPage, AnsweringStore, AnsweringTip, AnsweringSave DEF IInv
<1>5. CASE UNCHANGED vars
  <2>1. UNCHANGED <<open, listed, known, store, revision, timer, fetching, calls, tip, cache,
                    loaded, failed, overlapped, strays>>
    BY <1>5 DEF vars, page, editor, player, server, history
  <2>2. PageInv' /\ StoreFollowsPage' /\ TipInv' /\ SaveInv'
    BY <2>1 DEF IInv, PageInv, StoreFollowsPage, TipInv, SaveInv, Of, Live, Busy, Unserved, Undisturbed
  <2> QED
    BY <1>1, <2>2 DEF IInv
<1> QED
  BY <1>2, <1>3, <1>4, <1>5 DEF Next, UserStep

(* The invariant holds throughout.                                          *)
LEMMA Inductive == Spec => []IInv
<1>1. Init => IInv
  BY IInvInit
<1>2. IInv /\ [Next]_vars => IInv'
  BY IInvNext
<1> QED
  BY <1>1, <1>2, PTL DEF Spec

-----------------------------------------------------------------------------
(* The player *)

FreshInv == SourceInv /\ PlayerInv

(* Which src tells of which call.                                           *)
LEMMA Sourced ==
  ASSUME NEW call \in CallSet, call.kind # "idle"
  PROVE  /\ call.kind \in {"list", "load"} => Source(call) = <<"branch", 0>>
         /\ call.kind = "save" => Source(call) = <<"autosave", call.num>>
         /\ call.kind = "commit" => Source(call) = <<"commit", call.num>>
         /\ call.kind \in {"restore", "resave"} => Source(call) = <<"restore", call.num>>
         /\ Source(call) # NoSrc
BY DEF Source, CallSet, Kinds, NoSrc

(* Nothing is under way at first, and there is nothing to play.             *)
LEMMA FreshInit == Init => FreshInv
BY DEF Init, FreshInv, SourceInv, PlayerInv, Unmixed

(* A page is mounted: the player has no src, and only the listing is asked for. *)
LEMMA OpenFresh ==
  ASSUME IInv, NEW p \in Projects, Open(p)
  PROVE  FreshInv'
<1> DEFINE call == Call("list", p, Nothing, 0)
<1>1. call \in CallSet /\ call.kind = "list" /\ ~call.gone
  BY Calling, Idling DEF Kinds
<1> HIDE DEF call
<1>2. open = NoProject /\ ~listed' /\ src' = NoSrc /\ Send(call)
  BY DEF Open, call
<1>3. PICK c \in Slots : calls'[c] = call /\ \A d \in Slots : d # c => calls'[d] = calls[d]
  BY <1>1, <1>2, Sending DEF IInv, Typed
<1>4. \A d \in Slots : Live(d)' => d = c
  BY <1>2, <1>3, NoneLive DEF IInv, Live, Busy
<1>5. src' # Source(calls'[c]) /\ calls'[c].kind # "save"
  BY <1>1, <1>2, <1>3, Sourced
<1>6. \A k \in Nat : src' # <<"autosave", k>> /\ src' # <<"commit", k>>
  BY <1>2 DEF NoSrc
<1>7. SourceInv'
  BY <1>2, <1>4, <1>5, <1>6 DEF SourceInv, Due, Of
<1> QED
  BY <1>2, <1>7 DEF FreshInv, PlayerInv

(* An edit makes a revision of which no src tells yet.                      *)
LEMMA EditFresh ==
  ASSUME IInv, FreshInv, Edit
  PROVE  FreshInv'
<1>1. /\ revision' = revision + 1 /\ revision \in Nat /\ (listed' <=> listed)
      /\ UNCHANGED <<open, src, shown, calls, commits, tip, cache, failed, overlapped, strays>>
      /\ (fetching' <=> fetching)
  BY DEF Edit, page, player, server, history, IInv, Typed, TypeOK, EditorType
<1>2. /\ \A c \in Slots : (Live(c)' <=> Live(c)) /\ (Due(c)' <=> Due(c))
      /\ \A kind : Of(kind)' = Of(kind)
      /\ Unmixed' <=> Unmixed
      /\ Manifest(open)' = Manifest(open)
  BY <1>1 DEF Live, Busy, Due, Of, Unmixed, Undisturbed, Manifest
<1>3. \A c \in Slots : calls[c].num \in Nat
  BY DEF IInv, Typed, TypeOK, CallSet
<1>4. SourceInv'
  BY <1>1, <1>2, <1>3 DEF FreshInv, SourceInv, Of
<1>5. PlayerInv'
  BY <1>1, <1>2 DEF FreshInv, PlayerInv
<1> QED
  BY <1>4, <1>5 DEF FreshInv

(* The player fetches what the server has.                                  *)
LEMMA FetchFresh ==
  ASSUME IInv, FreshInv, Fetch
  PROVE  FreshInv'
<1>1. /\ shown' = Manifest(open) /\ (listed' <=> listed) /\ (timer' <=> timer)
      /\ UNCHANGED <<open, revision, src, calls, commits, tip, cache, failed, overlapped, strays>>
  BY DEF Fetch, page, editor, server, history
<1>2. /\ \A c \in Slots : (Live(c)' <=> Live(c)) /\ (Due(c)' <=> Due(c))
      /\ \A kind : Of(kind)' = Of(kind)
      /\ Unmixed' <=> Unmixed
      /\ Manifest(open)' = Manifest(open)
  BY <1>1 DEF Live, Busy, Due, Of, Unmixed, Undisturbed, Manifest
<1>3. SourceInv'
  BY <1>1, <1>2 DEF FreshInv, SourceInv
<1>4. PlayerInv'
  BY <1>1, <1>2 DEF PlayerInv
<1> QED
  BY <1>3, <1>4 DEF FreshInv

(* The page sends a call of whose answer no src tells, nor will another.     *)
LEMMA SendFresh ==
  ASSUME IInv, FreshInv, NEW call \in CallSet, Send(call), listed,
         call.kind \in {"save", "commit", "restore"}, ~call.served, ~call.gone,
         Unmixed' => /\ Unmixed
                     /\ call.kind # "commit" =>
                           /\ src # Source(call)
                           /\ \A d \in Slots : Due(d) => Source(calls[d]) # Source(call),
         call.kind = "save" => call.num = revision /\ ~timer',
         timer' => timer,
         UNCHANGED <<open, listed, revision, src, commits>>
  PROVE  FreshInv'
<1>1. PICK c \in Slots : /\ ~Busy(c) /\ calls'[c] = call
                         /\ \A d \in Slots : d # c => calls'[d] = calls[d]
  BY Sending DEF IInv, Typed
<1>2. /\ \A d \in Slots : d # c => (Due(d)' <=> Due(d)) /\ (Live(d)' <=> Live(d))
      /\ Live(c)' /\ ~Live(c) /\ (Due(c)' <=> call.kind # "commit")
  BY <1>1 DEF Live, Busy, Due
<1>3. PlayerInv'
  BY <1>2 DEF PlayerInv
<1>4. SourceInv'
  <2> SUFFICES ASSUME Unmixed'
               PROVE  /\ \A d \in Slots : Due(d)' => src' # Source(calls'[d])
                      /\ \A d, e \in Slots : Due(d)' /\ Due(e)' /\ Source(calls'[d]) = Source(calls'[e]) => d = e
                      /\ \A k \in Nat : src' = <<"autosave", k>> /\ Of("resave")' = {} =>
                                         k <= revision' /\ (timer' => k # revision')
                      /\ \A d \in Of("save")' :
                            calls'[d].num <= revision' /\ (timer' => calls'[d].num # revision')
                      /\ \A k \in Nat : src' = <<"commit", k>> => k <= Len(commits')
    BY DEF SourceInv
  <2>0. /\ \A d \in Slots : Due(d) => src # Source(calls[d])
        /\ \A d, e \in Slots : Due(d) /\ Due(e) /\ Source(calls[d]) = Source(calls[e]) => d = e
        /\ \A k \in Nat : src = <<"autosave", k>> /\ Of("resave") = {} =>
                           k <= revision /\ (timer => k # revision)
        /\ \A d \in Of("save") : calls[d].num <= revision /\ (timer => calls[d].num # revision)
        /\ \A k \in Nat : src = <<"commit", k>> => k <= Len(commits)
    BY DEF FreshInv, SourceInv
  <2>1. Of("resave")' = Of("resave") /\ \A d \in Slots : d # c => (d \in Of("save")' <=> d \in Of("save"))
    BY <1>1, <1>2 DEF Of
  <2>2. \A d \in Slots : Due(d)' => src' # Source(calls'[d])
    BY <1>1, <1>2, <2>0
  <2>3. \A d, e \in Slots : Due(d)' /\ Due(e)' /\ Source(calls'[d]) = Source(calls'[e]) => d = e
    BY <1>1, <1>2, <2>0
  <2>4. \A d \in Of("save")' : calls'[d].num <= revision' /\ (timer' => calls'[d].num # revision')
    <3> SUFFICES ASSUME NEW d \in Of("save")'
                 PROVE  calls'[d].num <= revision' /\ (timer' => calls'[d].num # revision')
      OBVIOUS
    <3>1. revision \in Nat /\ d \in Slots
      BY DEF IInv, Typed, TypeOK, EditorType, Of
    <3>2. CASE d = c
      BY <1>1, <3>1, <3>2 DEF Of
    <3>3. CASE d # c
      BY <1>1, <2>0, <2>1, <3>1, <3>3
    <3> QED
      BY <3>2, <3>3
  <2> QED
    BY <2>0, <2>1, <2>2, <2>3, <2>4
<1> QED
  BY <1>3, <1>4 DEF FreshInv

(* The steps of the user.                                                   *)
LEMMA UserFresh ==
  ASSUME IInv, FreshInv, UserStep
  PROVE  FreshInv'
<1>0. Typed /\ Len(commits) \in Nat /\ \A d \in Slots : calls[d] \in CallSet
  BY LengthIsNat DEF IInv, Typed, TypeOK
<1>1. CASE Leave
  BY <1>1 DEF Leave, FreshInv, SourceInv, PlayerInv, Unmixed
<1>2. CASE AutoSave
  <2> DEFINE call == Call("save", open, store, revision)
  <2>1. open \in Projects /\ store \in State /\ revision \in Nat /\ listed
    BY <1>0, <1>2 DEF AutoSave, Typed, TypeOK, PageType, EditorType
  <2>2. call \in CallSet /\ call.kind = "save" /\ call.num = revision /\ ~call.served /\ ~call.gone
    BY <2>1, Calling DEF Kinds
  <2> HIDE DEF call
  <2>3. /\ Send(call) /\ (SaveUnderWay => "save" \in overlapped') /\ overlapped \subseteq overlapped'
        /\ timer /\ ~timer' /\ UNCHANGED <<open, listed, revision, src, commits, failed, strays>>
    BY <1>2 DEF AutoSave, Overlap, call, page, player, server
  <2>4. Source(call) = <<"autosave", revision>>
    BY <2>2, Sourced
  <2>5. ASSUME Unmixed'
        PROVE  /\ Unmixed /\ src # Source(call)
               /\ \A d \in Slots : Due(d) => Source(calls[d]) # Source(call)
    <3>1. Unmixed /\ ~SaveUnderWay
      BY <2>3, <2>5 DEF Unmixed, Undisturbed
    <3>2. Of("resave") = {} /\ \A d \in Slots : Live(d) => calls[d].kind # "save"
      BY <3>1 DEF Of, SaveUnderWay, Saves
    <3>3. src # Source(call)
      BY <2>1, <2>3, <2>4, <3>1, <3>2 DEF FreshInv, SourceInv
    <3>4. ASSUME NEW d \in Slots, Due(d)
          PROVE  Source(calls[d]) # Source(call)
      <4>1. calls[d].kind \in Kinds \ {"idle", "save"} /\ calls[d] \in CallSet
        BY <1>0, <3>2, <3>4 DEF Due, Live, Busy, CallSet
      <4>2. \E kind \in {"branch", "commit", "restore"}, n \in Nat : Source(calls[d]) = <<kind, n>>
        BY <4>1, Sourced DEF Kinds, CallSet
      <4> QED
        BY <2>4, <4>2
    <3> QED
      BY <3>1, <3>3, <3>4
  <2> QED
    BY <2>1, <2>2, <2>3, <2>5, SendFresh
<1>3. CASE ClickCommit
  <2> DEFINE call == Call("commit", open, store, known)
  <2>1. open \in Projects /\ store \in State /\ known \in Nat /\ listed
    BY <1>0, <1>3 DEF ClickCommit, Typed, TypeOK, PageType, EditorType
  <2>2. call \in CallSet /\ call.kind = "commit" /\ ~call.served /\ ~call.gone
    BY <2>1, Calling DEF Kinds
  <2> HIDE DEF call
  <2>3. /\ Send(call) /\ (timer' => timer)
        /\ UNCHANGED <<open, listed, revision, src, commits, failed, overlapped, strays>>
    BY <1>3 DEF ClickCommit, call, page, editor, player, server, history
  <2>4. Unmixed' => Unmixed
    BY <2>3 DEF Unmixed, Undisturbed
  <2> QED
    BY <2>1, <2>2, <2>3, <2>4, SendFresh
<1>4. ASSUME NEW id \in 1 .. Len(commits), ClickRestore(id)
      PROVE  FreshInv'
  <2> DEFINE call == Call("restore", open, Nothing, id)
  <2>1. open \in Projects /\ id \in Nat /\ listed
    BY <1>0, <1>4 DEF ClickRestore, Typed, TypeOK, PageType
  <2>2. call \in CallSet /\ call.kind = "restore" /\ call.num = id /\ ~call.served /\ ~call.gone
    BY <2>1, Calling, Idling DEF Kinds
  <2> HIDE DEF call
  <2>3. /\ Send(call) /\ (src = <<"restore", id>> \/ RestoreUnderWay(id) => "again" \in overlapped')
        /\ overlapped \subseteq overlapped'
        /\ (timer' => timer) /\ UNCHANGED <<open, listed, revision, src, commits, failed, strays>>
    BY <1>4 DEF ClickRestore, Overlap, call, editor, player, server
  <2>4. Source(call) = <<"restore", id>>
    BY <2>2, Sourced
  <2>5. ASSUME Unmixed'
        PROVE  /\ Unmixed /\ src # Source(call)
               /\ \A d \in Slots : Due(d) => Source(calls[d]) # Source(call)
    <3>1. Unmixed /\ src # Source(call) /\ ~RestoreUnderWay(id)
      BY <2>3, <2>4, <2>5 DEF Unmixed, Undisturbed
    <3>2. ASSUME NEW d \in Slots, Due(d)
          PROVE  Source(calls[d]) # Source(call)
      <4>1. /\ calls[d].kind \in Kinds \ {"idle"} /\ calls[d] \in CallSet
            /\ calls[d].kind \in {"restore", "resave"} => calls[d].num # id
        BY <1>0, <3>1, <3>2 DEF Due, Live, Busy, CallSet, RestoreUnderWay
      <4>2. \/ \E kind \in {"branch", "commit", "autosave"}, n \in Nat : Source(calls[d]) = <<kind, n>>
            \/ Source(calls[d]) = <<"restore", calls[d].num>> /\ calls[d].num # id
        BY <4>1, Sourced DEF Kinds, CallSet
      <4> QED
        BY <2>4, <4>2
    <3> QED
      BY <3>1, <3>2
  <2> QED
    BY <2>1, <2>2, <2>3, <2>5, SendFresh
<1> QED
  BY <1>1, <1>2, <1>3, <1>4, OpenFresh, EditFresh, FetchFresh DEF UserStep

(* The server serves a call: only a commit then has a new src, of a number   *)
(* that no commit had.                                                      *)
LEMMA ServingFresh ==
  ASSUME IInv, FreshInv, NEW c \in Slots, Serve(c)
  PROVE  FreshInv'
<1> SUFFICES ASSUME Unmixed'
             PROVE  SourceInv' /\ PlayerInv'
  BY DEF FreshInv, SourceInv, PlayerInv
<1>1. /\ UNCHANGED <<open, src, shown, revision, overlapped>> /\ (listed' <=> listed)
      /\ (timer' <=> timer) /\ (fetching' <=> fetching)
      /\ \A d \in Slots : (Live(d)' <=> Live(d)) /\ calls'[d].kind = calls[d].kind
      /\ calls' \in [Slots -> CallSet] /\ Busy(c)
      /\ \A d \in Slots : d # c => calls'[d] = calls[d]
  BY ServingPage, Serving DEF IInv, player
<1>2. open # NoProject /\ Undisturbed' /\ Unmixed
  BY <1>1, ServingStrays DEF Unmixed
<1>3. /\ \A d \in Slots : Due(d) => src # Source(calls[d])
      /\ \A d, e \in Slots : Due(d) /\ Due(e) /\ Source(calls[d]) = Source(calls[e]) => d = e
      /\ \A k \in Nat : src = <<"autosave", k>> /\ Of("resave") = {} =>
                         k <= revision /\ (timer => k # revision)
      /\ \A d \in Of("save") : calls[d].num <= revision /\ (timer => calls[d].num # revision)
      /\ \A k \in Nat : src = <<"commit", k>> => k <= Len(commits)
      /\ ~listed => src = NoSrc
  BY <1>2 DEF FreshInv, SourceInv
<1>4. \A kind : Of(kind)' = Of(kind)
  BY <1>1 DEF Of
<1>5. calls[c].kind \notin {"list", "commit"} => calls'[c].num = calls[c].num
  BY DEF Serve, ServeList, ServeGetCommit, ServeSave, ServeCommit, Asked, IInv, Typed, TypeOK, CallSet
<1>6. /\ Len(commits) \in Nat /\ Len(commits) <= Len(commits') /\ Len(commits') \in Nat
      /\ Live(c) /\ calls[c].kind = "commit" => calls'[c].num > Len(commits)
  <2>1. Len(commits) \in Nat /\ calls \in [Slots -> CallSet]
    BY LengthIsNat DEF IInv, Typed, TypeOK
  <2>2. CASE commits' = commits /\ ~(Live(c) /\ calls[c].kind = "commit")
    BY <2>1, <2>2
  <2>3. CASE /\ calls' = [calls EXCEPT ![c].served = TRUE, ![c].refused = TRUE]
             /\ Live(c) /\ calls[c].kind = "commit"
    <3>1. c \in Of("commit")' /\ calls'[c].refused
      BY <1>1, <2>1, <2>3 DEF Of, CallSet
    <3> QED
      BY <1>1, <1>2, <3>1, ServingTip DEF TipInv
  <2>4. CASE /\ commits' = Append(commits, [project |-> calls[c].project, state |-> calls[c].state])
             /\ calls' = [calls EXCEPT ![c].served = TRUE, ![c].num = Len(commits')]
    <3>1. [project |-> calls[c].project, state |-> calls[c].state] \in Entries
      BY <1>1 DEF IInv, Typed, TypeOK, CallsSound, CallSet, Entries
    <3>2. Len(commits') = Len(commits) + 1
      BY <2>4, <3>1 DEF IInv, Typed, TypeOK, ServerType
    <3>3. calls'[c].num = Len(commits')
      BY <2>1, <2>4 DEF CallSet
    <3> QED
      BY <2>1, <3>2, <3>3
  <2> QED
    BY <2>2, <2>3, <2>4
       DEF Serve, ServeList, ServeGetCommit, ServeSave, ServeCommit, Asked, server, Saves
<1>7. \A d \in Slots : calls'[d] \in CallSet /\ calls[d] \in CallSet
  BY <1>1 DEF IInv, Typed, TypeOK
<1>8. ASSUME NEW d \in Slots, Live(d), calls[d].kind # "commit"
      PROVE  Source(calls'[d]) = Source(calls[d]) /\ Due(d) /\ Source(calls[d])[1] # "commit"
  <2>1. calls[d].kind \in Kinds \ {"idle", "commit"} /\ calls'[d].kind = calls[d].kind
    BY <1>1, <1>7, <1>8 DEF Live, Busy, CallSet
  <2>2. calls[d].kind \in {"list", "load"} \/ calls'[d].num = calls[d].num
    BY <1>1, <1>5, <2>1 DEF Kinds
  <2> QED
    BY <1>7, <1>8, <2>1, <2>2, Sourced DEF Kinds, Due
<1>9. ASSUME NEW d \in Slots, Live(d), calls[d].kind = "commit"
      PROVE  Source(calls'[d]) = <<"commit", calls'[d].num>>
  BY <1>1, <1>7, <1>9, Sourced
<1>10. ASSUME NEW d \in Slots, Due(d)'
       PROVE  src' # Source(calls'[d])
  <2>0. Live(d)
    BY <1>1, <1>10 DEF Due
  <2>1. CASE calls[d].kind # "commit"
    BY <1>1, <1>3, <1>8, <2>0, <2>1
  <2>2. CASE calls[d].kind = "commit" /\ d = c
    BY <1>1, <1>3, <1>6, <1>7, <1>9, <2>0, <2>2 DEF CallSet
  <2>3. CASE calls[d].kind = "commit" /\ d # c
    <3>1. Due(d) /\ calls'[d] = calls[d]
      BY <1>1, <1>10, <2>0, <2>3 DEF Due
    <3> QED
      BY <1>1, <1>3, <3>1
  <2> QED
    BY <2>1, <2>2, <2>3
<1>11. ASSUME NEW d \in Slots, NEW e \in Slots, Due(d)', Due(e)', Source(calls'[d]) = Source(calls'[e])
       PROVE  d = e
  <2>0. Live(d) /\ Live(e)
    BY <1>1, <1>11 DEF Due
  <2>1. CASE calls[d].kind # "commit" /\ calls[e].kind # "commit"
    BY <1>3, <1>8, <1>11, <2>0, <2>1
  <2>2. CASE calls[d].kind = "commit" /\ calls[e].kind = "commit"
    BY <2>0, <2>2 DEF IInv, PageInv, Of
  <2>3. CASE calls[d].kind = "commit" /\ calls[e].kind # "commit"
    BY <1>8, <1>9, <1>11, <2>0, <2>3
  <2>4. CASE calls[d].kind # "commit" /\ calls[e].kind = "commit"
    BY <1>8, <1>9, <1>11, <2>0, <2>4
  <2> QED
    BY <2>1, <2>2, <2>3, <2>4
<1>12. \A d \in Of("save")' : calls'[d].num <= revision' /\ (timer' => calls'[d].num # revision')
  <2>1. \A d \in Of("save") : calls'[d].num = calls[d].num
    BY <1>1, <1>5 DEF Of
  <2> QED
    BY <1>1, <1>3, <1>4, <2>1
<1>13. SourceInv'
  BY <1>1, <1>3, <1>4, <1>6, <1>10, <1>11, <1>12 DEF SourceInv
<1>14. PlayerInv'
  <2>1. CASE Live(c)
    BY <1>1, <2>1 DEF PlayerInv
  <2>2. CASE ~Live(c)
    <3>1. UNCHANGED <<commits, tip, cache>>
      BY <1>1, <1>2, <2>2, ServingStrays DEF Live
    <3>2. Manifest(open)' = Manifest(open)
      BY <1>1, <3>1 DEF Manifest
    <3> QED
      BY <1>1, <1>2, <3>2 DEF FreshInv, PlayerInv
  <2> QED
    BY <2>1, <2>2
<1> QED
  BY <1>13, <1>14

(* What an answer leaves to the others.                                     *)
LEMMA AnsweringOthers ==
  ASSUME IInv, NEW c \in Slots, Answer(c) \/ Fail(c), Unmixed'
  PROVE  /\ Unmixed /\ Unmixed' /\ UNCHANGED <<open, commits, tip, cache>>
         /\ Manifest(open)' = Manifest(open)
         /\ \A d \in Slots : d # c => calls'[d] = calls[d] /\ (Due(d)' <=> Due(d)) /\ (Live(d)' <=> Live(d))
         /\ \A d \in Slots : d # c => (d \in Of("save")' <=> d \in Of("save"))
         /\ c \notin Of("save")' /\ (c \in Of("resave")' => calls[c].kind = "restore")
         /\ Live(c)' => Live(c)
<1>1. UNCHANGED <<open, commits, tip, cache>> /\ Unmixed
  BY AnsweringTypes, AnsweringGrows DEF IInv, server, Unmixed
<1>2. \A d \in Slots : d # c => calls'[d] = calls[d] /\ (Due(d)' <=> Due(d)) /\ (Live(d)' <=> Live(d))
  BY AnsweringCalls DEF Due
<1>3. /\ \A d \in Slots : d # c => (d \in Of("save")' <=> d \in Of("save"))
      /\ c \notin Of("save")' /\ (c \in Of("resave")' => calls[c].kind = "restore")
      /\ Live(c)' => Live(c)
  BY AnsweringCalls DEF Of
<1> QED
  BY <1>1, <1>2, <1>3 DEF Manifest

(* The answer to a call of an earlier page leaves the player alone.         *)
LEMMA GoneFresh ==
  ASSUME IInv, FreshInv, NEW c \in Slots, Answer(c) \/ Fail(c), calls[c].gone
  PROVE  FreshInv'
<1> SUFFICES ASSUME Unmixed'
             PROVE  SourceInv' /\ PlayerInv'
  BY DEF FreshInv, SourceInv, PlayerInv
<1>1. ~Live(c) /\ ~Live(c)' /\ ~Due(c) /\ ~Due(c)'
  BY AnsweringCalls DEF Due
<1>2. /\ UNCHANGED <<src, shown>> /\ (listed' <=> listed) /\ (fetching' <=> fetching)
      /\ revision' = revision /\ (timer' <=> timer)
  <2>1. UNCHANGED <<listed, src, shown, fetching>>
    BY AnsweringGone
  <2>2. UNCHANGED <<revision, timer>>
    BY AnsweringGone, AnsweringOthers DEF Unmixed, Undisturbed
  <2> QED
    BY <2>1, <2>2
<1>3. \A kind : Of(kind)' = Of(kind)
  BY <1>1, AnsweringCalls DEF Of
<1>4. c \notin Of("save")
  BY <1>1 DEF Of
<1>5. SourceInv'
  <2>1. \A d \in Slots : Due(d)' => Due(d) /\ calls'[d] = calls[d]
    BY <1>1, AnsweringOthers
  <2>2. \A d \in Of("save") : calls'[d] = calls[d]
    BY <1>4, AnsweringOthers DEF Of
  <2> QED
    BY <1>2, <1>3, <2>1, <2>2, AnsweringOthers DEF FreshInv, SourceInv
<1>6. PlayerInv'
  BY <1>1, <1>2, AnsweringOthers DEF FreshInv, PlayerInv
<1> QED
  BY <1>5, <1>6

(* An answer that makes a src has the player fetch.                         *)
LEMMA PlaysFresh ==
  ASSUME IInv, FreshInv, NEW c \in Slots, Answer(c) \/ Fail(c), Unmixed',
         Due(c), calls[c].kind # "list", Done(c), Play(Source(calls[c]))
  PROVE  /\ fetching' /\ src' = Source(calls[c])
         /\ \A d \in Slots : Due(d)' => src' # Source(calls'[d])
         /\ \A d, e \in Slots : Due(d)' /\ Due(e)' /\ Source(calls'[d]) = Source(calls'[e]) => d = e
<1>1. /\ \A d \in Slots : Due(d) => src # Source(calls[d])
      /\ \A d, e \in Slots : Due(d) /\ Due(e) /\ Source(calls[d]) = Source(calls[e]) => d = e
  BY AnsweringOthers DEF FreshInv, SourceInv
<1>2. calls[c] \in CallSet /\ calls[c].kind # "idle"
  BY DEF IInv, Typed, TypeOK, Due, Live, Busy
<1>3. src' = Source(calls[c]) /\ fetching'
  BY <1>1, <1>2, Sourced DEF Play
<1>4. ~Due(c)' /\ \A d \in Slots : d # c => calls'[d] = calls[d] /\ (Due(d)' <=> Due(d))
  BY Ending, AnsweringOthers, Idling DEF IInv, Typed, Due, Live, Busy
<1> QED
  BY <1>1, <1>3, <1>4

(* An answer to the open page is taken.                                     *)
LEMMA LiveFresh ==
  ASSUME IInv, FreshInv, NEW c \in Slots, Answer(c) \/ Fail(c), ~calls[c].gone
  PROVE  FreshInv'
<1> SUFFICES ASSUME Unmixed'
             PROVE  SourceInv' /\ PlayerInv'
  BY DEF FreshInv, SourceInv, PlayerInv
<1>0. /\ Unmixed /\ Live(c) /\ open # NoProject /\ revision \in Nat /\ Len(commits) \in Nat
      /\ calls[c] \in CallSet /\ calls[c].kind \in Kinds \ {"idle"} /\ calls[c].num \in Nat
  <2>1. Live(c) /\ open # NoProject /\ Unmixed
    BY AnsweringCalls, AnsweringOthers
  <2> QED
    BY <2>1, LengthIsNat DEF IInv, Typed, TypeOK, EditorType, Live, Busy, CallSet
<1>1. /\ ~listed => src = NoSrc
      /\ \A d \in Slots : Due(d) => src # Source(calls[d])
      /\ \A d, e \in Slots : Due(d) /\ Due(e) /\ Source(calls[d]) = Source(calls[e]) => d = e
      /\ \A k \in Nat : src = <<"autosave", k>> /\ Of("resave") = {} =>
                         k <= revision /\ (timer => k # revision)
      /\ \A d \in Of("save") : calls[d].num <= revision /\ (timer => calls[d].num # revision)
      /\ \A k \in Nat : src = <<"commit", k>> => k <= Len(commits)
  BY <1>0 DEF FreshInv, SourceInv
<1>2. UNCHANGED commits /\ \A d \in Slots : d # c => calls'[d] = calls[d] /\ (Due(d)' <=> Due(d))
  BY AnsweringOthers
<1>3. CASE Fail(c)
  BY <1>0, <1>3 DEF Fail, Unmixed, Undisturbed
<1>4. CASE AnswerList(c)
  <2>1. calls[c].kind = "list" /\ src = NoSrc /\ src' = NoSrc /\ listed'
    <3>1. calls[c].kind = "list"
      BY <1>4 DEF AnswerList, Answered
    <3>2. ~listed
      BY <1>0, <3>1 DEF IInv, PageInv, Of
    <3> QED
      BY <1>0, <1>1, <1>4, <3>1, <3>2 DEF AnswerList, Play, player
  <2>2. \A d \in Slots : Live(d) => d = c
    BY <1>0, <2>1 DEF IInv, PageInv, Of
  <2>3. \A d \in Slots : Live(d)' => d = c /\ calls'[d].kind = "load"
    BY <2>1, <2>2, AnsweringCalls
  <2>4. calls'[c] \in CallSet
    BY Answering DEF IInv
  <2>5. \A d \in Slots : Due(d)' => d = c /\ src' # Source(calls'[d])
    BY <2>1, <2>3, <2>4, Sourced DEF Due
  <2>6. Of("save")' = {} /\ \A k \in Nat : src' # <<"autosave", k>> /\ src' # <<"commit", k>>
    BY <2>1, <2>3 DEF Of, NoSrc
  <2> QED
    BY <2>1, <2>5, <2>6 DEF SourceInv, PlayerInv
<1>5. CASE AnswerRestore(c)
  <2>1. ~SaveUnderWay /\ calls[c].kind = "restore"
    BY <1>5 DEF AnswerRestore, Answered, Overlap, Unmixed
  <2>2. /\ UNCHANGED src /\ (listed' <=> listed)
        /\ calls'[c].kind = "resave" /\ calls'[c].num = calls[c].num
        /\ calls'[c] \in CallSet /\ ~calls'[c].gone
    <3>1. UNCHANGED <<src, listed>> /\ Continue(c, Call("resave", calls[c].project, store', calls[c].num))
      BY <1>5 DEF AnswerRestore, player, page
    <3>2. calls'[c].kind = "resave" /\ calls'[c] \in CallSet
      <4>1. calls'[c].kind = "resave"
        BY <3>1 DEF Continue, Call, Idle, IInv, Typed, TypeOK
      <4> QED
        BY <4>1, Answering DEF IInv
    <3> QED
      BY <1>0, <2>1, <3>1, <3>2, Answering, AnsweringCalls, Idling DEF IInv
  <2>3. Live(c)' /\ c \in Of("resave")'
    BY <2>2 DEF Live, Busy, Of
  <2>4. Due(c) /\ Source(calls'[c]) = Source(calls[c])
    BY <1>0, <2>1, <2>2, Sourced DEF Due
  <2>5. Of("save")' = {}
    BY <2>1, AnsweringOthers DEF Of, SaveUnderWay, Saves
  <2>6. \A d \in Slots : Due(d)' => src' # Source(calls'[d])
    BY <1>1, <1>2, <2>2, <2>4
  <2>7. \A d, e \in Slots : Due(d)' /\ Due(e)' /\ Source(calls'[d]) = Source(calls'[e]) => d = e
    BY <1>1, <1>2, <2>4
  <2>8. SourceInv'
    BY <1>1, <1>2, <2>2, <2>3, <2>5, <2>6, <2>7 DEF SourceInv
  <2> QED
    BY <2>3, <2>8 DEF PlayerInv
<1>6. CASE AnswerLoad(c)
  <2>1. ~SaveUnderWay /\ calls[c].kind = "load" /\ (listed' <=> listed) /\ Done(c) /\ listed
    BY <1>0, <1>6 DEF AnswerLoad, Answered, Overlap, Unmixed, page, IInv, PageInv
  <2>2. Source(calls[c]) = <<"branch", 0>> /\ Due(c) /\ Play(Source(calls[c]))
    BY <1>0, <1>6, <2>1, Sourced DEF AnswerLoad, Due
  <2>3. Of("save")' = {}
    BY <2>1, AnsweringOthers DEF Of, SaveUnderWay, Saves
  <2> QED
    BY <2>1, <2>2, <2>3, PlaysFresh DEF SourceInv, PlayerInv
<1>7. CASE AnswerCommit(c)
  <2>0. calls[c].kind = "commit" /\ calls[c].served /\ listed
    BY <1>0, <1>7 DEF AnswerCommit, Answered, IInv, PageInv
  <2>1. ~calls[c].refused /\ calls[c].num <= Len(commits)
    BY <1>0, <2>0 DEF IInv, TipInv, Typed, CallsSound, Of, Unmixed
  <2>2. ~SaveUnderWay /\ (listed' <=> listed) /\ Done(c) /\ Play(<<"commit", calls[c].num>>)
    BY <1>0, <1>7, <2>1 DEF AnswerCommit, Overlap, Unmixed, Live
  <2>3. Source(calls[c]) = <<"commit", calls[c].num>> /\ Due(c)
    BY <1>0, <2>0, Sourced DEF Due
  <2>4. Of("save")' = {}
    BY <2>2, AnsweringOthers DEF Of, SaveUnderWay, Saves
  <2>5. fetching' /\ src' = <<"commit", calls[c].num>>
    BY <2>0, <2>2, <2>3, PlaysFresh
  <2>6. \A k \in Nat : /\ src' = <<"commit", k>> => k <= Len(commits')
                       /\ src' # <<"autosave", k>>
    BY <1>2, <2>1, <2>5
  <2>7. SourceInv'
    BY <2>0, <2>2, <2>3, <2>4, <2>6, PlaysFresh DEF SourceInv
  <2> QED
    BY <2>5, <2>7 DEF PlayerInv
<1>8. CASE AnswerSave(c) \/ AnswerResave(c)
  <2>0. /\ calls[c].kind \in {"save", "resave"} /\ (listed' <=> listed) /\ revision' = revision
        /\ (timer' <=> timer) /\ Done(c) /\ Play(Source(calls[c])) /\ listed /\ Due(c)
    <3>1. CASE AnswerSave(c)
      <4>1. calls[c].kind = "save" /\ Due(c) /\ Source(calls[c]) = <<"autosave", calls[c].num>>
        BY <1>0, <3>1, Sourced DEF AnswerSave, Answered, Due
      <4> QED
        BY <1>0, <3>1, <4>1 DEF AnswerSave, page, editor, IInv, PageInv
    <3>2. CASE AnswerResave(c)
      <4>1. calls[c].kind = "resave" /\ Due(c) /\ Source(calls[c]) = <<"restore", calls[c].num>>
        BY <1>0, <3>2, Sourced DEF AnswerResave, Answered, Due
      <4> QED
        BY <1>0, <3>2, <4>1 DEF AnswerResave, page, editor, IInv, PageInv
    <3> QED
      BY <1>8, <3>1, <3>2
  <2>1. fetching' /\ src' = Source(calls[c])
    BY <2>0, PlaysFresh
  <2>2. \A d \in Of("save")' : d \in Of("save") /\ calls'[d] = calls[d]
    BY AnsweringOthers DEF Of
  <2>3. \A k \in Nat : /\ src' = <<"autosave", k>> => k <= revision' /\ (timer' => k # revision')
                       /\ src' # <<"commit", k>>
    <3>1. CASE calls[c].kind = "save"
      <4>1. c \in Of("save") /\ src' = <<"autosave", calls[c].num>>
        BY <1>0, <2>1, <3>1, Sourced DEF Of
      <4> QED
        BY <1>1, <2>0, <4>1
    <3>2. CASE calls[c].kind = "resave"
      <4>1. src' = <<"restore", calls[c].num>>
        BY <1>0, <2>1, <3>2, Sourced
      <4> QED
        BY <4>1
    <3> QED
      BY <2>0, <3>1, <3>2
  <2>4. SourceInv'
    BY <1>1, <2>0, <2>2, <2>3, PlaysFresh DEF SourceInv
  <2> QED
    BY <2>1, <2>4 DEF PlayerInv
<1> QED
  BY <1>3, <1>4, <1>5, <1>6, <1>7, <1>8 DEF Answer

(* Every step keeps what is known of the player.                            *)
LEMMA FreshNext ==
  ASSUME IInv, FreshInv, [Next]_vars
  PROVE  FreshInv'
<1>1. CASE UNCHANGED vars
  <2>1. UNCHANGED <<open, listed, revision, timer, src, shown, fetching, calls, commits, tip, cache,
                    failed, overlapped, strays>>
    BY <1>1 DEF vars, page, editor, player, server, history
  <2> QED
    BY <2>1 DEF FreshInv, SourceInv, PlayerInv, Unmixed, Undisturbed, Due, Live, Busy, Of, Manifest
<1> QED
  BY <1>1, UserFresh, ServingFresh, GoneFresh, LiveFresh DEF Next, UserStep

(* The page, the store, the player, the calls and the server keep their      *)
(* types.                                                                   *)
THEOREM TypeCorrect == Spec => []TypeOK
<1>1. IInv => TypeOK
  BY DEF IInv, Typed
<1> QED
  BY <1>1, Inductive, PTL

(* Whatever projects were opened before, once its own load is answered a     *)
(* page edits a state of its own project, but for the loads of earlier       *)
(* pages, which ProjectView.tsx does not cancel.                            *)
THEOREM StoreFollowsPageHolds == Spec => []StoreFollowsPage
<1>1. IInv => StoreFollowsPage
  BY DEF IInv
<1> QED
  BY <1>1, Inductive, PTL

(* A user who works alone is refused no commit by commit-edit.go's stale     *)
(* check until a call of his fails or a page left behind has changed things.*)
THEOREM RefusalsAreTrueHolds == Spec => []RefusalsAreTrue
<1>1. IInv => RefusalsAreTrue
  <2> SUFFICES ASSUME IInv, NEW c \in Slots, calls[c].refused, ~calls[c].gone, Undisturbed
               PROVE  FALSE
    BY DEF RefusalsAreTrue
  <2>1. calls[c].kind = "commit"
    BY DEF IInv, Typed, CallsSound
  <2>2. Live(c)
    BY <2>1 DEF Live, Busy
  <2>3. open # NoProject
    BY <2>2, NoneLive DEF IInv
  <2> QED
    BY <2>1, <2>2, <2>3 DEF IInv, TipInv, Of
<1> QED
  BY <1>1, Inductive, PTL

(* At rest the player of VideoPlayer.tsx, which fetches when its src changes, *)
(* has fetched the manifest that the server has, of whatever load, autosave, *)
(* commit or restore the page was told last.                                *)
THEOREM PlayerIsFreshHolds == Spec => []PlayerIsFresh
<1>1. Init => FreshInv
  BY FreshInit
<1>2. IInv /\ FreshInv /\ [Next]_vars => FreshInv'
  BY FreshNext
<1>3. FreshInv => PlayerIsFresh
  BY DEF FreshInv, PlayerInv, PlayerIsFresh, Quiet, Unmixed
<1> QED
  BY <1>1, <1>2, <1>3, Inductive, PTL DEF Spec

(* At rest, the manifests cached for the user are those of the last edit:    *)
(* the autosave of ProjectView.tsx is sent again after each answer that      *)
(* could have dropped them.                                                 *)
THEOREM LastEditIsSavedHolds == Spec => []LastEditIsSaved
<1>1. IInv => LastEditIsSaved
  BY DEF IInv, SaveInv, LastEditIsSaved, Quiet, Unserved
<1> QED
  BY <1>1, Inductive, PTL
=============================================================================
