SPECIFICATION Spec
CONSTANTS
  Recipe <- MCRecipe
  Ingredient <- MCIngredient
  IngredientsOf <- MCIngredientsOf
  Unspecified <- MCUnspecified
  GroupOf <- MCGroupOf
  None = None
  LastWeek = 0
  MaxTx = 3
  InFlight = 3
  Mixes <- SafeMixes
  Pools <- NoWeekOrTwo
INVARIANTS PlanInvariant StatesInvariant
PROPERTIES RefinesPlan PlansKeepState
CHECK_DEADLOCK FALSE
