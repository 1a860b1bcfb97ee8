CONSTANTS
  p = p  a = a  s1 = s1  s2 = s2  d1 = d1  d2 = d2
  Profile = p
  Audio = {a}
  Samples = {s1, s2}
  Dirs = {d1, d2}
  Absent = Absent  Public = Public
  MaxIntents = 2
  MaxFaults = 2
  Gens = {g, h}
  Clips = {c, d}
  MaxFiles = 3
  None = None
SPECIFICATION MCSpec
SYMMETRY Alike
INVARIANTS RowsAndFilesAgree LibraryIsWhole
PROPERTIES StartupSettles ImplementsLibrary PinnedClipKeepsItsAudio
