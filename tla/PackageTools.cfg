SPECIFICATION Spec
CONSTANTS
    Packages = {"prog", "conf"}
    Names <- MCNames
    Tree <- MCTree
    DefaultDir <- MCDefaultDir
    OppmRecipes <- MCOppmRecipes
    PmRecipes <- MCPmRecipes
    MaxEdits = 3
    MaxInterrupts = 1
INVARIANTS IndexNotAhead FinishedRunIsConsistent ConversionKeepsPlaces
CHECK_DEADLOCK FALSE
