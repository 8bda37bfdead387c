SPECIFICATION Spec
CONSTANTS
  Numerals <- MCNumerals
  Features = {"gen", "dup", "pair", "add"}
  Names = {"v", "x"}
  Programs <- MCRelations
  Texts <- MCRelationTexts
INVARIANT RelationAsWritten
CHECK_DEADLOCK FALSE
