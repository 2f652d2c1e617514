------------------------------ MODULE MCWeekTx ------------------------------
(* A corpus of two recipes: flour is measured and shared by both, and      *)
(* bread's salt has no quantity, so that it never shares a line.           *)
EXTENDS WeekTxInvariant

MCRecipe == {"bread", "pizza"}
MCIngredient == {"breadFlour", "breadSalt", "pizzaFlour"}
MCIngredientsOf ==
  [r \in MCRecipe |-> IF r = "bread" THEN {"breadFlour", "breadSalt"} ELSE {"pizzaFlour"}]
MCUnspecified == {"breadSalt"}
MCGroupOf == [i \in MCIngredient \ MCUnspecified |-> "flour"]

Row(r) == [p \in {0} |-> r]

(* Starting points: no week, one occurrence, two of them.                  *)
NoWeek == {<<>>}
OneBread == {Row("bread")}
NoWeekOrBread == NoWeek \cup OneBread
BreadAndPizza == {[p \in {0, 1} |-> IF p = 0 THEN "bread" ELSE "pizza"]}
NoWeekOrTwo == NoWeek \cup BreadAndPizza

(* Operations that are serializable among themselves.                      *)
SafeMixes ==
  { {"generate"}, {"add", "addManual"}, {"remove", "swap", "randomSwap"}, {"setLine"} }

(* One mix: all of its operations may overlap.                             *)
PoolOps == { {"generate", "add", "remove", "swap"} }
RemoveAndSwap == { {"remove", "swap"} }
AddAndSwap == { {"add", "swap"} }
SwapAndEdit == { {"swap", "setLine"} }
=============================================================================
