-------------------------- MODULE MCEditorTimeline --------------------------
(* EditorGestures with a video and a sound of four units of 250 ms, and a  *)
(* video of one unit, shorter than Snap.                                   *)
EXTENDS EditorGestures

CONSTANTS clip, blink, song

MCSourceTime == [x \in Videos \cup Sounds |-> IF x = blink THEN 1 ELSE 4]

Plain == \A i \in DOMAIN sections : sections[i].effects = 0
Short ==
  /\ Len(sections) <= 2 /\ VideoTime(sections) <= 4
  /\ \A i \in DOMAIN sections : sections[i].src = clip

(* All of it together is beyond the checker.  A row has four sections of   *)
(* both videos; the next two sections with sounds under them, one if a     *)
(* gesture is kept; then two with effects; then two with overlays, two of  *)
(* these if no gesture is kept and none is shared.                         *)
Scope ==
  \/ Free /\ Plain /\ overlays = <<>> /\ audios = <<>>
  \/ Short /\ Plain /\ overlays = <<>> /\ (Free \/ Len(audios) <= 1)
  \/ Short /\ overlays = <<>> /\ audios = <<>>
  \/ Short /\ Plain /\ audios = <<>> /\ (Len(overlays) = 1 \/ (Free /\ ~cut))

(* No step and no property reads edited.                                   *)
ButEdited == <<sections, audios, selection, looks, held>>
=============================================================================
