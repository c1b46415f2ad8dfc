CONSTANTS
  clip = clip
  blink = blink
  song = song
  Videos = {clip, blink}
  Sounds = {song}
  SourceTime <- MCSourceTime
  Snap = 2
  MaxSections = 4
  MaxAudios = 2
  MaxOverlays = 2
  MaxTime = 5
SPECIFICATION EditorSpec
CONSTRAINT Scope
VIEW ButEdited
INVARIANTS SectionsFit ReloadIsIdentity
PROPERTIES SelectionStays GrowthKeepsFootage EditsHitTheirAim
