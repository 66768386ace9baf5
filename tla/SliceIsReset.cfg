SPECIFICATION TextSpec
CONSTANTS
  Width = 8
  Byte = 2
  Stride = 2
  MaxDepth = 100
  DomainInputs <- MCDomainInputs
  RuleInputs <- MCRuleInputs
  Queries <- MCQueries
  MaxNestingDepth = 2
  MaxWords = 6
  Alphabets <- MCAlphabets
  Texts <- MCTexts
  StartDetectingCyclesAfter = 2
  Structs <- MCStructs
  Starts <- MCStarts
  Docs <- MCDocs
  MaxDecodes = 2
  Fields <- MCFields
  Cells = {1, 2, 3}
  MaxLinks = 2
  MaxRunes = 3
  Tasks = {t1, t2, t3}
  Limit = 2
  Setters = {s1, s2}
  Waiters = {v1, v2}
  MaxMade = 5
  NoSetter = NoSetter
  NilRef = NilRef
INVARIANTS SliceIsReset
CHECK_DEADLOCK FALSE
