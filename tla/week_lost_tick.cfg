SPECIFICATION Spec
CONSTANTS
  Recipe <- MCRecipe
  Ingredient <- MCIngredient
  IngredientsOf <- MCIngredientsOf
  Unspecified <- MCUnspecified
  GroupOf <- MCGroupOf
  None = None
  LastWeek = 0
  MaxTx = 2
  InFlight = 2
  Mixes <- SwapAndEdit
  Pools <- OneBread
PROPERTIES RecomputePreservesState
CHECK_DEADLOCK FALSE
