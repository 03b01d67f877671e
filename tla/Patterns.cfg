SPECIFICATION Spec
CONSTANTS
  Byte = {"a", "b"}
  Nul = "0"
  Star = "*"
  AnyByte = "?"
  KeyLen = 2
  CPU_WORD_BITS = 2
  CPU_WORDS = 4
  CPU_FILES = 8
  MaxName = 1
  MaxPattern = 2
  MaxPolicies = 1
  MaxFreq = 3
  MaxCpus = 2
  MaxUnknown = 2
INVARIANT
  QuestionMarkMatches
CHECK_DEADLOCK FALSE
