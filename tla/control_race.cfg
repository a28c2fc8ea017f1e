SPECIFICATION Spec
CONSTANTS
  Session = {s1}
  Agent = {a1, a2}
  Handler = {h1, h2}
  Kinds <- RacingKinds
SYMMETRY Symmetry
INVARIANTS StartNeedsAllReady UploadNeedsSave
