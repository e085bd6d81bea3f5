SPECIFICATION Spec
CONSTANTS
  Commands = {c1, c2}
  Unset = ""
  Env <- MCEnv
  Durations <- MCDurations
  Answers <- MCAnswers
  NoRequest = none
  Flags = {"", "test"}
  HandFile <- MCHandFile
SYMMETRY MCSymmetry
INVARIANTS
  SetupIsAtomic
  LoadsAsEntered
