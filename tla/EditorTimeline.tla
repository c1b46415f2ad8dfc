--------------------------- MODULE EditorTimeline ---------------------------
(***************************************************************************)
(* The editor store (web/src/components/stores/editor.ts): the timeline of *)
(* a project and one action per operation the views call.  EditorGestures  *)
(* has the views and the behaviours.                                       *)
(*                                                                         *)
(* Video sections play one after another from time 0; audio sections lie   *)
(* anywhere under them.  Each plays a window of its source.  A video       *)
(* section also shows overlays and has effects.  Indices count from 1.  An *)
(* operation on an index that is not there changes nothing, or throws      *)
(* before it changes anything; its guard is false.                         *)
(***************************************************************************)
EXTENDS Integers, Sequences, FiniteSets

CONSTANTS
  Videos,       \* the project's videos
  Sounds,       \* the project's audio files
  SourceTime,   \* the duration of each
  Snap,         \* SNAP_MS, and MIN_DURATION_MS which equals it, in units of time
  MaxSections,  \* bound: video sections
  MaxAudios,    \* bound: audio sections
  MaxOverlays,  \* bound: overlays made since the last load
  MaxTime       \* bound: length of the video

ASSUME SourceAssumption == SourceTime \in [Videos \cup Sounds -> Nat]
ASSUME SnapAssumption == Snap \in Nat \ {0}

VARIABLES
  sections,   \* sections
  audios,     \* audioSections
  overlays,   \* the overlays there are, each in one of two places
  sel,        \* selectedSectionIndex
  asel,       \* selectedAudioSectionIndex
  osel,       \* selectedOverlay: a section and one of its overlays
  edited,     \* editRevision # 0
  cut         \* history: a section with overlays was cut since the last load

selection == <<sel, asel, osel>>
looks == <<overlays, cut>>
store == <<sections, audios, selection, edited, looks>>

(* No selection is null.  An index of -1 is not null: indexOf answers it,  *)
(* for the store is a proxy whose elements are never the object looked for *)
(* (addAudioAtMillis, moveAudioSection).                                   *)
Null == 0
Lost == -1
NoOverlay == <<Null, Null>>

Times == 0..MaxTime
Snapped(t) == (t \div Snap) * Snap
Duration(x) == x.end - x.start

(* videoDurationMillis, of a list of sections.                             *)
VideoTime(secs) ==
  LET sum[i \in 0..Len(secs)] == IF i = 0 THEN 0 ELSE sum[i - 1] + Duration(secs[i])
  IN sum[Len(secs)]

(* JavaScript's splice: n elements from the i-th are replaced by new.      *)
Splice(s, i, n, new) == SubSeq(s, 1, i - 1) \o new \o SubSeq(s, i + n, Len(s))

(* rippleRecompute.                                                        *)
Ripple(secs) ==
  [i \in DOMAIN secs |->
     LET from == VideoTime(SubSeq(secs, 1, i - 1))
     IN [secs[i] EXCEPT !.start = from, !.end = from + Duration(secs[i])]]

(* The audio sections in S, in the order in which they start: the sort is *)
(* stable.                                                                 *)
Before(auds, i, j) ==
  auds[i].start < auds[j].start \/ (auds[i].start = auds[j].start /\ i < j)
Rank(auds, S, i) == Cardinality({j \in S : Before(auds, j, i)})
InOrder(auds, S) ==
  [k \in 1..Cardinality(S) |-> CHOOSE i \in S : Rank(auds, S, i) = k - 1]

(* sortAudioSections.                                                      *)
Sorted(auds) ==
  LET order == InOrder(auds, DOMAIN auds)
  IN [k \in DOMAIN auds |-> auds[order[k]]]

(* The points of the track (clampTrackPx).                                 *)
Points == 0..VideoTime(sections)

(* audioOverlaps.                                                          *)
Overlaps(a, others) ==
  \E i \in DOMAIN others : a.start < others[i].end /\ others[i].start < a.end
Others(i) == Splice(audios, i, 1, <<>>)

-----------------------------------------------------------------------------
(* clampAudioSectionsToVideoDuration *)

(* The end an audio section is left with under a video of length v.        *)
ClampedEnd(a, v) ==
  CHOOSE t \in {a.end, v, a.start + SourceTime[a.src] - a.astart} :
    t <= a.end /\ t <= v /\ t <= a.start + SourceTime[a.src] - a.astart

Survives(a, v) ==
  /\ a.start < v
  /\ a.astart < SourceTime[a.src]
  /\ ClampedEnd(a, v) - a.start >= Snap

Survivors(auds, v) == {i \in DOMAIN auds : Survives(auds[i], v)}

Clamped(auds, v) ==
  LET order == InOrder(auds, Survivors(auds, v))
  IN [k \in DOMAIN order |-> [auds[order[k]] EXCEPT !.end = ClampedEnd(auds[order[k]], v)]]

(* What a selection of i becomes: it follows its section, if that is left. *)
Reselected(auds, v, i) ==
  LET left == Survivors(auds, v)
  IN IF i \in left THEN Cardinality({j \in left : j <= i}) ELSE Null

-----------------------------------------------------------------------------
StoreInit ==
  /\ sections = <<>> /\ audios = <<>>
  /\ overlays = <<>> /\ cut = FALSE
  /\ sel = Null /\ asel = Null /\ osel = NoOverlay
  /\ edited = FALSE

(* An operation that forgets the audio: a mutated form.                    *)
SettleVideoOnly(secs) ==
  /\ sections' = Ripple(secs)
  /\ edited' = TRUE
  /\ UNCHANGED <<audios, asel>>

(* The three calls every change of the video ends with: rippleRecompute,   *)
(* clampAudioSectionsToVideoDuration, markEdited.                          *)
Settle(secs) ==
  LET v == VideoTime(secs)
  IN /\ sections' = Ripple(secs)
     /\ audios' = Clamped(audios, v)
     /\ asel' = Reselected(audios, v, asel)
     /\ edited' = TRUE

Fits(secs) == Len(secs) <= MaxSections /\ VideoTime(secs) <= MaxTime

-----------------------------------------------------------------------------
(* Video sections *)

(* A section that plays a whole video, cut to a multiple of Snap.          *)
Whole(v) == [start |-> 0, end |-> Snapped(SourceTime[v]), vstart |-> 0, src |-> v,
             over |-> <<>>, effects |-> 0]

AddVideoSection(v) ==
  /\ Fits(Append(sections, Whole(v)))
  /\ sel' = Len(sections) + 1 /\ UNCHANGED <<osel, looks>>
  /\ Settle(Append(sections, Whole(v)))

LeftPart(x, t) == [x EXCEPT !.end = t]

(* The part of a section from t on: its window moves along.  Both parts    *)
(* list the same overlays, not copies of them.                             *)
RightPart(x, t) == [x EXCEPT !.start = t, !.vstart = @ + (t - x.start)]

CutIn(x) == cut' = (cut \/ x.over # <<>>)

(* insertSectionAtMillis of a section new: before the first section that   *)
(* starts at t or later, or inside the one that is playing at t, or last.  *)
InsertSectionAt(t0, new) ==
  LET t == Snapped(t0)
      later == {i \in DOMAIN sections : t < sections[i].end \/ t <= sections[i].start}
      i == CHOOSE j \in later : \A k \in later : j <= k
      x == sections[i]
      inside == later # {} /\ t > x.start
      inserted ==
        IF later = {} THEN Append(sections, new)
        ELSE IF inside THEN Splice(sections, i, 1, <<LeftPart(x, t), new, RightPart(x, t)>>)
        ELSE Splice(sections, i, 0, <<new>>)
  IN /\ Duration(new) >= Snap
     /\ Fits(inserted)
     /\ sel' = IF later = {} THEN Len(sections) + 1 ELSE IF inside THEN i + 1 ELSE i
     /\ osel' = NoOverlay
     /\ IF inside THEN CutIn(x) ELSE UNCHANGED cut
     /\ Settle(inserted)

(* insertVideoAtMillis.                                                    *)
InsertVideo(t, v) == InsertSectionAt(t, Whole(v)) /\ UNCHANGED overlays

(* What a section's overlays show.                                         *)
Pictures(x) == [k \in DOMAIN x.over |-> overlays[x.over[k]]]

(* A paste of the section itself, not of its JSON: a mutated form.         *)
PasteItself(t, x) ==
  /\ InsertSectionAt(t, [x EXCEPT !.start = 0, !.end = Duration(x)])
  /\ UNCHANGED overlays

(* copySection and pasteSectionAtTrackPx: a section that was copied, as    *)
(* JSON, is pasted with overlays of its own.                               *)
PasteSection(t, x) ==
  LET own == [k \in DOMAIN x.over |-> Len(overlays) + k] IN
  /\ Len(overlays) + Len(x.over) <= MaxOverlays
  /\ overlays' = overlays \o Pictures(x)
  /\ InsertSectionAt(t, [x EXCEPT !.start = 0, !.end = Duration(x), !.over = own])

Without(s, i) == IF i \in DOMAIN s THEN Splice(s, i, 1, <<>>) ELSE s
Shifted(j, i) == IF j = i THEN Null ELSE IF j > i THEN j - 1 ELSE j

(* A removal that leaves the index of the selection: a mutated form.       *)
RemoveKeepsIndex(i) ==
  /\ sel' = IF sel = i THEN Null ELSE sel
  /\ osel' = IF i \in {sel, osel[1]} THEN NoOverlay ELSE osel
  /\ UNCHANGED looks
  /\ Settle(Without(sections, i))

(* removeSection: splice removes nothing at an index that is not there,    *)
(* but the rest is done.                                                   *)
RemoveSection(i) ==
  /\ sel' = Shifted(sel, i)
  /\ osel' = IF i \in {sel, osel[1]} THEN NoOverlay ELSE <<Shifted(osel[1], i), osel[2]>>
  /\ UNCHANGED looks
  /\ Settle(Without(sections, i))

(* A cut that leaves the right half's window where it was: a mutated form. *)
CutSameWindow(i, t) ==
  LET x == sections[i] IN
  /\ i \in DOMAIN sections /\ x.start < t /\ t < x.end
  /\ sections' = Ripple(Splice(sections, i, 1, <<LeftPart(x, t), [x EXCEPT !.start = t]>>))
  /\ Fits(sections')
  /\ CutIn(x) /\ edited' = TRUE
  /\ UNCHANGED <<audios, overlays, selection>>

(* splitSection: the video's length stays, no audio is clamped, and the    *)
(* selections keep their indices.                                          *)
SplitSection(i, t) ==
  LET x == sections[i] IN
  /\ i \in DOMAIN sections /\ x.start < t /\ t < x.end
  /\ sections' = Ripple(Splice(sections, i, 1, <<LeftPart(x, t), RightPart(x, t)>>))
  /\ Fits(sections')
  /\ CutIn(x) /\ edited' = TRUE
  /\ UNCHANGED <<audios, overlays, selection>>

(* trimStart and trimEnd snap what they are given (towards 0).  The start  *)
(* of the section stays, or is set by rippleRecompute.                     *)
Trim(i, vstart, dur) ==
  LET x == sections[i] IN
  /\ dur >= Snap
  /\ vstart + dur <= SourceTime[x.src]
  /\ UNCHANGED <<sel, osel, looks>>
  /\ Settle([sections EXCEPT ![i].vstart = vstart, ![i].end = x.start + dur])
  /\ Fits(sections')

TrimStart(i, dur, vstart) ==
  /\ i \in DOMAIN sections /\ vstart > -Snap
  /\ Trim(i, IF vstart < 0 THEN 0 ELSE Snapped(vstart), Snapped(dur))

TrimEnd(i, dur) == i \in DOMAIN sections /\ Trim(i, sections[i].vstart, Snapped(dur))

(* to is the slot before which the section lands, Len + 1 for the end.     *)
CanReorder(from, to) ==
  from # to /\ from \in DOMAIN sections /\ to \in 1..(Len(sections) + 1)

Reorder(from, to) ==
  LET at == IF to > from THEN to - 1 ELSE to IN
  /\ CanReorder(from, to)
  /\ sel' = IF sel = from THEN at ELSE sel
  /\ UNCHANGED <<osel, looks>>
  /\ Settle(Splice(Without(sections, from), at, 0, <<sections[from]>>))

(* setSectionVideoEffects.                                                 *)
SetEffects(i, v) ==
  /\ i \in DOMAIN sections
  /\ sections' = [sections EXCEPT ![i].effects = v]
  /\ edited' = TRUE
  /\ UNCHANGED <<audios, selection, looks>>

-----------------------------------------------------------------------------
(* Overlays *)

(* addImageOverlay and addTextOverlay, which select it.                    *)
AddOverlay(i) ==
  /\ i \in DOMAIN sections /\ Len(overlays) < MaxOverlays
  /\ overlays' = Append(overlays, 0)
  /\ sections' = [sections EXCEPT ![i].over = Append(@, Len(overlays) + 1)]
  /\ sel' = i /\ osel' = <<i, Len(sections[i].over) + 1>>
  /\ edited' = TRUE
  /\ UNCHANGED <<audios, asel, cut>>

(* updateOverlayPosition, setTextOverlayContent: of the overlay itself.    *)
EditOverlay(i, k, v) ==
  /\ i \in DOMAIN sections /\ k \in DOMAIN sections[i].over
  /\ overlays' = [overlays EXCEPT ![sections[i].over[k]] = v]
  /\ edited' = TRUE
  /\ UNCHANGED <<sections, audios, selection, cut>>

-----------------------------------------------------------------------------
(* Audio sections *)

ChangeAudio(auds) ==
  /\ audios' = auds
  /\ edited' = TRUE
  /\ UNCHANGED <<sections, looks>>

(* addAudioAtMillis: as much of the file as the video has room for.        *)
AddAudioAt(t, s) ==
  LET room == VideoTime(sections) - t
      dur == IF SourceTime[s] < room THEN SourceTime[s] ELSE room
      new == [start |-> t, end |-> t + dur, astart |-> 0, src |-> s]
  IN /\ dur >= Snap
     /\ ~Overlaps(new, audios)
     /\ Len(audios) < MaxAudios
     /\ ChangeAudio(Sorted(Append(audios, new)))
     /\ sel' = Null /\ asel' = Lost /\ osel' = NoOverlay

(* addAudioAtNextAvailable: at the first gap of at least Snap, or after    *)
(* the last audio section.                                                 *)
AddAudioNext(s) ==
  LET v == VideoTime(sections)
      gaps == {i \in DOMAIN audios :
                 audios[i].start - (IF i = 1 THEN 0 ELSE audios[i - 1].end) >= Snap}
      first == CHOOSE i \in gaps : \A j \in gaps : i <= j
      at == IF gaps # {} THEN IF first = 1 THEN 0 ELSE audios[first - 1].end
            ELSE IF audios = <<>> THEN 0 ELSE audios[Len(audios)].end
  IN /\ v >= Snap /\ SourceTime[s] >= Snap
     /\ v - at >= Snap
     /\ AddAudioAt(at, s)

(* removeAudioSection: splice(-1, 1) removes the last one.                 *)
RemoveAudio(i) ==
  /\ ChangeAudio(Without(audios, IF i = Lost THEN Len(audios) ELSE i))
  /\ asel' = Shifted(asel, i)
  /\ UNCHANGED <<sel, osel>>

(* A cut of the audio that does not clamp: a mutated form.                 *)
CutAudioUnclamped(i, t) ==
  LET a == audios[i]
      right == [a EXCEPT !.start = t, !.astart = @ + (t - a.start)]
  IN /\ i \in DOMAIN audios /\ a.start < t /\ t < a.end
     /\ Len(audios) < MaxAudios
     /\ ChangeAudio(Splice(audios, i, 1, <<LeftPart(a, t), right>>))
     /\ asel' = i + 1
     /\ UNCHANGED <<sel, osel>>

(* splitAudioSection: a half shorter than Snap is dropped by the clamp.    *)
SplitAudio(i, t) ==
  LET a == audios[i]
      right == [a EXCEPT !.start = t, !.astart = @ + (t - a.start)]
      halves == Splice(audios, i, 1, <<LeftPart(a, t), right>>)
      v == VideoTime(sections)
  IN /\ i \in DOMAIN audios /\ a.start < t /\ t < a.end
     /\ Len(Clamped(halves, v)) <= MaxAudios
     /\ ChangeAudio(Clamped(halves, v))
     /\ asel' = Reselected(halves, v, i + 1)
     /\ UNCHANGED <<sel, osel>>

(* A trim sets an audio section's window: it must lie in the source, and   *)
(* the section in the video and clear of the others.                       *)
TrimAudio(i, as, dur) ==
  LET new == [audios[i] EXCEPT !.astart = as, !.end = audios[i].start + dur]
  IN /\ as >= 0 /\ dur >= Snap
     /\ as + dur <= SourceTime[new.src]
     /\ new.end <= VideoTime(sections)
     /\ ~Overlaps(new, Others(i))
     /\ ChangeAudio([audios EXCEPT ![i] = new])
     /\ UNCHANGED selection

TrimAudioStart(i, dur, as) == i \in DOMAIN audios /\ TrimAudio(i, as, dur)
TrimAudioEnd(i, dur) == i \in DOMAIN audios /\ TrimAudio(i, audios[i].astart, dur)

(* moveAudioSection.                                                       *)
MoveAudio(i, t) ==
  LET dur == Duration(audios[i])
      max == VideoTime(sections) - dur
      at == IF t > max THEN max ELSE t
      new == [audios[i] EXCEPT !.start = at, !.end = at + dur]
  IN /\ i \in DOMAIN audios
     /\ dur >= Snap /\ max >= 0
     /\ at # audios[i].start
     /\ ~Overlaps(new, Others(i))
     /\ ChangeAudio(Sorted([audios EXCEPT ![i] = new]))
     /\ asel' = Lost
     /\ UNCHANGED <<sel, osel>>

-----------------------------------------------------------------------------
(* selectSection, selectAudioSection and selectOverlay.                    *)
SelectSection(i) ==
  /\ sel' = i /\ asel' = Null /\ osel' = NoOverlay
  /\ UNCHANGED <<sections, audios, edited, looks>>

SelectAudio(i) ==
  /\ asel' = i /\ sel' = Null /\ osel' = NoOverlay
  /\ UNCHANGED <<sections, audios, edited, looks>>

SelectOverlay(i, k) ==
  /\ sel' = i /\ osel' = <<i, k>>
  /\ UNCHANGED <<sections, audios, asel, edited, looks>>

(* A state as a message has it: each section has overlays of its own.      *)
Apart(secs) ==
  LET shown[i \in 0..Len(secs)] == IF i = 0 THEN <<>> ELSE shown[i - 1] \o Pictures(secs[i])
  IN [pictures |-> shown[Len(secs)],
      secs |-> [i \in DOMAIN secs |->
                  [secs[i] EXCEPT !.over = [k \in DOMAIN @ |-> Len(shown[i - 1]) + k]]]]

(* loadState.                                                              *)
LoadState(secs, auds) ==
  /\ sections' = Ripple(Apart(secs).secs)
  /\ overlays' = Apart(secs).pictures
  /\ audios' = Clamped(Sorted(auds), VideoTime(secs))
  /\ sel' = Null /\ asel' = Null /\ osel' = NoOverlay
  /\ edited' = FALSE /\ cut' = FALSE

-----------------------------------------------------------------------------
(* The video sections play one after another from time 0 without a gap,    *)
(* the audio sections one at a time inside the video, and each plays a     *)
(* window its source has, whatever was cut, trimmed, pasted or moved, and  *)
(* though a drag goes on over a section that took the place of its own.    *)
SectionsFit ==
  /\ \A i \in DOMAIN sections :
       LET x == sections[i] IN
       /\ x.start = (IF i = 1 THEN 0 ELSE sections[i - 1].end)
       /\ x.start <= x.end
       /\ x.vstart + Duration(x) <= SourceTime[x.src]
  /\ \A i \in DOMAIN audios :
       LET a == audios[i] IN
       /\ i > 1 => audios[i - 1].end <= a.start
       /\ a.end <= VideoTime(sections)
       /\ a.astart + Duration(a) <= SourceTime[a.src]

(* What a commit saves is what loading it shows: loadState drops, clamps   *)
(* or moves nothing of a state that currentState has returned.             *)
ReloadIsIdentity ==
  /\ Ripple(sections) = sections
  /\ Clamped(Sorted(audios), VideoTime(sections)) = audios

(* What the sections play at each unit of time.                            *)
Footage(secs) ==
  [t \in 1..VideoTime(secs) |->
     LET x == CHOOSE x \in {secs[i] : i \in DOMAIN secs} : x.start < t /\ t <= x.end
     IN <<x.src, x.vstart + t - x.start>>]

(* A step that adds sections (an insertion, a paste, a cut) only makes     *)
(* room: the footage before and after it still plays, in its order.        *)
GrowthKeepsFootage ==
  [][Len(sections') > Len(sections) =>
       LET was == Footage(sections)
           is == Footage(sections')
           k == Len(is) - Len(was)
       IN \E t \in 0..Len(was) : /\ SubSeq(is, 1, t) = SubSeq(was, 1, t)
                                 /\ SubSeq(is, t + k + 1, Len(is)) = SubSeq(was, t + 1, Len(was))
    ]_store

(* A selection that points at a section stays on it while others are       *)
(* removed around it or clamped away: a second Delete does not remove a    *)
(* neighbour in its place.  Left out are two selections that the store     *)
(* itself has misplaced.  A cut keeps the index, so that a cut before the  *)
(* selected section selects its neighbour.  And once an audio section was  *)
(* added or moved its index is Lost (-1), with which Delete removes the    *)
(* last audio section, splice(-1, 1), whichever the user selected.         *)
SelectionStays ==
  [][/\ Len(sections') < Len(sections) /\ sel \in DOMAIN sections /\ sel' # Null =>
          /\ sel' \in DOMAIN sections'
          /\ sections'[sel'].src = sections[sel].src
          /\ sections'[sel'].vstart = sections[sel].vstart
     /\ Len(audios') < Len(audios) /\ asel' \notin {Null, Lost} =>
          /\ asel' \in DOMAIN audios'
          /\ audios'[asel'].start = audios[asel].start
          /\ audios'[asel'].src = audios[asel].src]_store
=============================================================================
