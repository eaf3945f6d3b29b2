SPECIFICATION MCFairSpec
CONSTANTS
  Module = {"m1", "m2"}
  BuiltIn = {"length"}
  MaxMade = 4
  MaxNesting = 3
  Address = {"0x1", "0x2"}
  Class = {"NSArray", "NSString"}
  MaxLives = 3
  MaxRetained = 2
  Last = 4
  Sizes = {1, 7}
  Data = {1}
  Fence = 9
  Limit = 27
  wanted = wanted
  longer = longer
  other = other
  short = short
  Line = {wanted, longer, other, short}
  Matching = {wanted, longer}
  NoLine = NoLine
  Capacity = 2
  MaxLines = 3
INVARIANTS ProgramsTyped ObjectsOutliveTheirUses OneSizeIsSafe AnswerIsComplete
PROPERTIES RegisteredModulesStay GrowsOnlyWhenFull AnswersIfItFits
CHECK_DEADLOCK FALSE
