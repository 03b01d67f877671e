SPECIFICATION Spec
CONSTANTS
  Byte = {"a", "b"}
  Nul = "0"
  Star = "*"
  AnyByte = "?"
  KeyLen = 2
  CPU_WORD_BITS = 2
  CPU_WORDS = 4
  CPU_FILES = 8
  MaxName = 5
  MaxPattern = 4
  MaxPolicies = 3
  MaxFreq = 3
  MaxCpus = 2
  MaxUnknown = 2
INVARIANTS
  RecognisedIsReported
  OwnCommRecognised
  OneStarMatches
  ListRoundTrip
  ListCanonical
  ClustersSound
  TopologiesAgree
CHECK_DEADLOCK FALSE
