SPECIFICATION Spec
CONSTANTS
  Session = {s1}
  Agent = {a1, a2}
  Handler = {h1}
  Kinds <- EveryKind
INVARIANTS OneStart OneDecision
PROPERTIES StoredWasVerified ImplementsLifecycle
