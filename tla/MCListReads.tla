---------------------------- MODULE MCListReads -----------------------------
(* Two recipes that share the line for flour, and one occurrence at first. *)
EXTENDS ListReads

MCRecipe == {"bread", "pizza"}
MCIngredient == {"breadFlour", "pizzaFlour"}
MCIngredientsOf ==
  [r \in MCRecipe |-> IF r = "bread" THEN {"breadFlour"} ELSE {"pizzaFlour"}]
MCGroupOf == [i \in MCIngredient |-> "flour"]
MCPools == {[p \in {0} |-> "bread"]}
MCMixes == { {"add", "setLine"}, {"generate", "addManual"} }
=============================================================================
