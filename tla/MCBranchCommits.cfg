CONSTANTS
  u1 = u1
  u2 = u2
  r1 = r1
  r2 = r2
  cut1 = cut1
  dub2 = dub2
  NoEdit = NoEdit
  Users = {u1, u2}
  Slots = {r1, r2}
  Owner <- MCOwner
  Edits = {cut1, dub2}
  EditsOf <- MCEditsOf
  HasAudio = {dub2}
  MaxCommits = 2
SPECIFICATION Spec
INVARIANTS OwnEditsOnly CloudMatchesTip
PROPERTY TipMovesForward
