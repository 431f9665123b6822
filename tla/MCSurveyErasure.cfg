\* Two surveys, two processes at a time.
CONSTANTS
  Surveys = {s1, s2}
  Processes = {p1, p2}
  NoSurvey = NoSurvey
  MaxStarts = 3
  MaxExports = 1
SPECIFICATION Spec
INVARIANTS
  ConfirmedErasureStands
  ErasedStaysErased
  FilesMatchRows
SYMMETRY ErasureSymmetry
