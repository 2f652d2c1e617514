SPECIFICATION FairSpec
CONSTANTS
  Recipe <- MCRecipe
  Ingredient <- MCIngredient
  IngredientsOf <- MCIngredientsOf
  Unspecified <- MCUnspecified
  GroupOf <- MCGroupOf
  None = None
  LastWeek = 1
  MaxTx = 3
  InFlight = 2
  Mixes <- RemoveAndSwap
  Pools <- BreadAndPizza
PROPERTIES RequestsEnd
CHECK_DEADLOCK FALSE
