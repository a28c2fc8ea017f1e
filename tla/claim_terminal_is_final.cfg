SPECIFICATION Spec
CONSTANTS
  Session = {s1}
  Agent = {a1}
  Handler = {h1, h2}
  Kinds <- PreparingKinds
PROPERTIES TerminalIsFinal
