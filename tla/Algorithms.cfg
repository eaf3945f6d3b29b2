SPECIFICATION AlgSpec
CONSTANTS
  Name = {"foo", "compareTheNumbersThatWereGivenTogether"}
  NameLength <- Lengths
  Returns = {"int", "float", "other"}
  Lists <- AllLists
  Chunk = 2
  EntrySize = 312
  Value = {0, 1, 2}
  MaxLength = 6
  Data <- DataStrings
  Search <- SearchStrings
  W = 256
  Largest = 8
  Product <- Factorials
  Wide = 64
  Rows = 25
  Limit <- Limits
  Junk = {0, 7}
  ExpBits = 3
  MantBits = 2
  WordBits = 5
  Symbols <- Codes
  Words <- AnyWords
  MaxBits = 24
  Cells = 4
  MaxLines = 8
INVARIANTS AlgorithmsTyped AlgorithmsAnswerRight
PROPERTY FunctionsAreCalledRight
CHECK_DEADLOCK FALSE
