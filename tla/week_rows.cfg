SPECIFICATION Spec
CONSTANTS
  Recipe <- MCRecipe
  Ingredient <- MCIngredient
  IngredientsOf <- MCIngredientsOf
  Unspecified <- MCUnspecified
  GroupOf <- MCGroupOf
  None = None
  LastWeek = 0
  MaxTx = 3
  InFlight = 3
  Mixes <- PoolOps
  Pools <- NoWeekOrBread
INVARIANTS TypeOK UniqueRows LinesExplained WholeRecipes RowsInvariant
CHECK_DEADLOCK FALSE
