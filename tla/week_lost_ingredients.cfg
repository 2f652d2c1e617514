SPECIFICATION Spec
CONSTANTS
  Recipe <- MCRecipe
  Ingredient <- MCIngredient
  IngredientsOf <- MCIngredientsOf
  Unspecified <- MCUnspecified
  GroupOf <- MCGroupOf
  None = None
  LastWeek = 0
  MaxTx = 2
  InFlight = 2
  Mixes <- AddAndSwap
  Pools <- OneBread
INVARIANTS ListMatchesPool
CHECK_DEADLOCK FALSE
