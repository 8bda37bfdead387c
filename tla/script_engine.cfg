SPECIFICATION Spec
CONSTANTS
  Numerals <- MCNumerals
  Features = {"gen", "dup", "pair", "add"}
  Names = {"v", "x"}
  Programs <- MCPrograms
  Texts <- MCTexts
INVARIANT RowsAsWritten
CHECK_DEADLOCK FALSE
