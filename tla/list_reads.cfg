SPECIFICATION ReadSpec
CONSTANTS
  Recipe <- MCRecipe
  Ingredient <- MCIngredient
  IngredientsOf <- MCIngredientsOf
  Unspecified = {}
  GroupOf <- MCGroupOf
  None = None
  LastWeek = 1
  MaxTx = 2
  InFlight = 2
  Mixes <- MCMixes
  Pools <- MCPools
  Pages = {page}
INVARIANTS WholeTraces HistoryIsOneState EditShown LabelMatches
PROPERTIES HistoryFinal ManualLinesKept
CHECK_DEADLOCK FALSE
