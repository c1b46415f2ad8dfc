--------------------------- MODULE EditorGestures ---------------------------
(***************************************************************************)
(* The views of the project editor over its store (EditorTimeline):        *)
(* TimelineTrack.tsx, TimelineSection.tsx, AudioTimelineSection.tsx,       *)
(* TimelineContextMenu.tsx, hooks/useTimelineReorder.ts,                   *)
(* EffectsComposer.tsx and MediaOverlayCanvas.tsx.                         *)
(*                                                                         *)
(* A drag, the context menu and the effects dialog keep the index of the   *)
(* section they were begun on, and a drag also what it has read of that    *)
(* section.  While one is held the pointer does nothing else, but the      *)
(* Delete key still removes the selected section and the answer of a load  *)
(* still replaces all of them.  A gesture that neither comes between is    *)
(* one step.                                                               *)
(***************************************************************************)
EXTENDS EditorTimeline

VARIABLE
  held  \* the gesture under way

editorVars == <<store, held>>

(* at: the index it was begun on; item: an overlay's index, an audio       *)
(* section's, or the slot a section is over; from, len: the window it      *)
(* read, and lim: how far that may reach.  History: aim, where the section *)
(* is by now.                                                              *)
NoGrip == [kind |-> "none", at |-> Null, item |-> Null, from |-> 0, len |-> 0, lim |-> 0,
           aim |-> Null]
Grip(kind, i, item) == [NoGrip EXCEPT !.kind = kind, !.at = i, !.item = item, !.aim = i]

Free == held = NoGrip
Held(kind) == held.kind = kind
Release == held' = NoGrip

(* handleLeftPointerDown, handleRightPointerDown.                          *)
EdgeGrip(kind, i) ==
  LET x == sections[i] IN
  [Grip(kind, i, Null) EXCEPT
     !.from = x.vstart, !.len = Duration(x),
     !.lim = IF kind = "left" THEN SourceTime[x.src] ELSE SourceTime[x.src] - x.vstart]

AudioEdgeGrip(kind, i) ==
  LET a == audios[i] IN
  [Grip(kind, i, Null) EXCEPT
     !.from = a.astart, !.len = Duration(a), !.lim = SourceTime[a.src] - a.astart]

-----------------------------------------------------------------------------
(* A move of the pointer by d from where it went down: onMove.             *)

Between(t, low, high) ==
  LET raised == IF t < low THEN low ELSE t
  IN IF raised > high THEN high ELSE raised

(* The left edge: the window's end stays, and Snap is left of it.          *)
PullLeft(h, d) ==
  LET vstart == Between(h.from + d, 0, h.from + h.len - Snap)
      dur == h.len - (vstart - h.from)
  IN vstart + dur <= h.lim /\ TrimStart(h.at, dur, vstart)

PullRight(h, d) == TrimEnd(h.at, Between(h.len + d, Snap, h.lim))

PullAudioLeft(h, d) ==
  LET astart == Between(h.from + d, 0, h.from + h.len - Snap)
  IN TrimAudioStart(h.at, h.len - (astart - h.from), astart)

PullAudioRight(h, d) == TrimAudioEnd(h.at, Between(h.len + d, Snap, h.lim))

(* Video edges move by multiples of Snap.                                  *)
Moves == -MaxTime..MaxTime
PullEdge(h) ==
  \E d \in Moves :
    /\ Snapped(d) = d
    /\ \/ h.kind = "left" /\ PullLeft(h, d)
       \/ h.kind = "right" /\ PullRight(h, d)

PullAudioEdge(h) ==
  \E d \in Moves :
    \/ h.kind = "audioLeft" /\ PullAudioLeft(h, d)
    \/ h.kind = "audioRight" /\ PullAudioRight(h, d)

-----------------------------------------------------------------------------
(* What begins a gesture                                                   *)

(* An edge does not select its section.                                    *)
GrabEdge ==
  /\ \/ \E i \in DOMAIN sections, kind \in {"left", "right"} : held' = EdgeGrip(kind, i)
     \/ \E i \in DOMAIN audios, kind \in {"audioLeft", "audioRight"} :
          held' = AudioEdgeGrip(kind, i)
  /\ UNCHANGED store

(* handleBodyPointerDown and handleBeginReorder; an audio section's and an *)
(* overlay's onPointerDown.                                                *)
GrabSection(i) == SelectSection(i) /\ held' = Grip("section", i, i)
GrabAudio(i) == SelectAudio(i) /\ held' = Grip("audio", i, Null)
GrabOverlay(i, k) == SelectOverlay(i, k) /\ held' = Grip("overlay", i, k)

(* handleTrackContextMenu: over a section, an audio section or neither.    *)
OpenMenu ==
  /\ \/ \E i \in {Null} \cup DOMAIN sections : held' = Grip("menu", i, Null)
     \/ \E i \in DOMAIN audios : held' = [Grip("menu", Null, i) EXCEPT !.aim = Null]
  /\ UNCHANGED store

Begin ==
  /\ Free
  /\ \/ GrabEdge \/ OpenMenu
     \/ \E i \in DOMAIN sections :
          GrabSection(i) \/ \E k \in DOMAIN sections[i].over : GrabOverlay(i, k)
     \/ \E i \in DOMAIN audios : GrabAudio(i)

-----------------------------------------------------------------------------
(* What goes on with it                                                    *)

(* computeReorderTarget: never the slot the section is in.                 *)
DragSection(to) ==
  /\ Held("section") /\ to # held.at /\ to \in 1..(Len(sections) + 1)
  /\ held' = [held EXCEPT !.item = to]
  /\ UNCHANGED store

(* onUp: the target is the one of the last move.                           *)
DropSection ==
  /\ Held("section")
  /\ IF CanReorder(held.at, held.item) THEN Reorder(held.at, held.item) ELSE UNCHANGED store
  /\ Release

DropAudioSection == Held("audio") /\ (\E t \in Points : MoveAudio(held.at, t)) /\ Release

DragOn ==
  /\ \/ PullEdge(held)
     \/ PullAudioEdge(held)
     \/ Held("overlay") /\ \E v \in {0, 1} : EditOverlay(held.at, held.item, v)
  /\ UNCHANGED held

(* An item of the menu, on whatever now has the index it was opened over.  *)
(* The dialog of the effects takes the index from it.                      *)
MenuItem ==
  /\ Held("menu")
  /\ \/ Release /\ (AddOverlay(held.at) \/ (held.at # Null /\ RemoveSection(held.at)))
     \/ Release /\ \E t \in Points : SplitSection(held.at, t) \/ SplitAudio(held.item, t)
     \/ /\ held.at # Null /\ SelectSection(held.at)
        /\ held' = [held EXCEPT !.kind = "effects"]

ApplyEffects == Held("effects") /\ (\E v \in {0, 1} : SetEffects(held.at, v)) /\ Release

(* The pointer goes up, or the menu or the dialog is closed.               *)
LetGo == ~Free /\ ~Held("section") /\ Release /\ UNCHANGED store

Continue ==
  \/ \E to \in 1..(MaxSections + 1) : DragSection(to)
  \/ DropSection \/ DropAudioSection \/ DragOn \/ MenuItem \/ ApplyEffects \/ LetGo

-----------------------------------------------------------------------------
(* What may come between                                                   *)

(* The Delete key: the selected section, else the selected audio section.  *)
DeleteKey ==
  /\ \/ sel # Null /\ RemoveSection(sel)
     \/ sel = Null /\ asel # Null /\ RemoveAudio(asel)
  /\ held' = IF sel = Null THEN held ELSE [held EXCEPT !.aim = Shifted(@, sel)]

(* Escape: nothing is selected any more; it closes a menu or a dialog.     *)
Escape ==
  /\ SelectSection(Null)
  /\ IF held.kind \in {"menu", "effects"} THEN Release ELSE UNCHANGED held

(* loadState of what currentState saved last (a branch load, a restore of  *)
(* it), or of nothing; the restore of an earlier saved state under a held  *)
(* gesture is left out.                                                    *)
Load ==
  /\ LoadState(sections, audios) \/ LoadState(<<>>, <<>>)
  /\ held' = [held EXCEPT !.aim = Null]

-----------------------------------------------------------------------------
(* A click, a key, a menu item or a drag at once.                          *)

(* A drop after the pointer went down on the section, which selects it.    *)
DragAndDrop(i, to) == sel = i /\ Reorder(i, to)
MoveSelectedAudio(i, t) == asel = i /\ MoveAudio(i, t)

VideoStep ==
  \/ \E v \in Videos : AddVideoSection(v) \/ \E t \in Points : InsertVideo(t, v)
  \/ \E i \in DOMAIN sections :
       \/ RemoveSection(i)
       \/ \E t \in Points : PasteSection(t, sections[i]) \/ SplitSection(i, t)
       \/ \E kind \in {"left", "right"} : PullEdge(EdgeGrip(kind, i))
       \/ \E to \in 1..(Len(sections) + 1) : DragAndDrop(i, to)

AudioStep ==
  \/ \E s \in Sounds : AddAudioNext(s) \/ \E t \in Points : AddAudioAt(t, s)
  \/ \E i \in DOMAIN audios :
       \/ RemoveAudio(i)
       \/ \E t \in Points : SplitAudio(i, t) \/ MoveSelectedAudio(i, t)
       \/ \E kind \in {"audioLeft", "audioRight"} : PullAudioEdge(AudioEdgeGrip(kind, i))

(* The text of an overlay is typed; effects are composed.                  *)
LooksStep ==
  \E i \in DOMAIN sections :
    \/ AddOverlay(i)
    \/ \E v \in {0, 1} : SetEffects(i, v)
    \/ \E k \in DOMAIN sections[i].over :
         SelectOverlay(i, k) \/ \E v \in {0, 1} : EditOverlay(i, k, v)

SelectStep ==
  \/ \E i \in {Null} \cup DOMAIN sections : SelectSection(i)
  \/ \E i \in DOMAIN audios : SelectAudio(i)

AtOnce == Free /\ (VideoStep \/ AudioStep \/ LooksStep \/ SelectStep) /\ UNCHANGED held

-----------------------------------------------------------------------------
EditorInit == StoreInit /\ held = NoGrip

EditorNext == AtOnce \/ Begin \/ Continue \/ DeleteKey \/ Escape \/ Load

EditorSpec == EditorInit /\ [][EditorNext]_editorVars

-----------------------------------------------------------------------------
(* What a section plays and shows.                                         *)
Look(x) == <<x.src, x.vstart, Duration(x), x.effects, Pictures(x)>>

(* What changes a section and does not move it changes that one only, and  *)
(* a gesture the one it was begun on: but for the parts of a cut, which    *)
(* share their overlays until the next load, and when the Delete key or a  *)
(* load has put another section where the gesture began.                   *)
EditsHitTheirAim ==
  [][Len(sections') = Len(sections) /\ ~cut =>
       LET changed == {i \in DOMAIN sections : Look(sections[i])' # Look(sections[i])} IN
       \/ /\ Cardinality(changed) <= 1
          /\ ~Free /\ held.aim = held.at => changed \subseteq {held.aim}
       \/ \E i \in DOMAIN sections, to \in 1..(Len(sections) + 1) : Reorder(i, to)
       \/ Load]_editorVars
=============================================================================
