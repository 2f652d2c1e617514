------------------------------- MODULE Corpus -------------------------------
(***************************************************************************)
(* The part of the verified recipe corpus the week service reads: which    *)
(* ingredients of a recipe go on the grocery list and which of them share  *)
(* a line.  An occurrence is a row of week_recipes: one recipe at one      *)
(* position of one week.  Quantities are the subject of module Aggregate;  *)
(* here a requirement is only the pair (occurrence, ingredient).           *)
(***************************************************************************)

CONSTANTS
  Recipe,         (* the verified recipes of the household                 *)
  Ingredient,     (* recipe_ingredients rows mapped to a grocery item and  *)
                  (* included on the grocery list                          *)
  IngredientsOf,  (* recipe -> the ingredients of its own rows             *)
  Unspecified,    (* the ingredients that carry no quantity                *)
  GroupOf         (* ingredient -> what it aggregates under: item, and     *)
                  (* presence, package, dimension or unit                  *)

(* An ingredient row has exactly one section and so one recipe.            *)
ASSUME CorpusAssumption ==
  /\ IngredientsOf \in [Recipe -> SUBSET Ingredient]
  /\ \A r, s \in Recipe : r # s => IngredientsOf[r] \cap IngredientsOf[s] = {}
  /\ Unspecified \subseteq Ingredient

(* One requirement per occurrence and shoppable ingredient of its recipe.  *)
Requirements(pool) ==
  UNION {{[occ |-> o.id, ing |-> i] : i \in IngredientsOf[o.recipe]} : o \in pool}

(* Ingredients without a quantity never merge: their key names the         *)
(* occurrence and the ingredient row.                                      *)
KeyOf(q) ==
  IF q.ing \in Unspecified THEN <<"unspecified", q.occ, q.ing>>
                           ELSE <<"group", GroupOf[q.ing]>>

InWeek(rows, w) == {r \in rows : r.week = w}
=============================================================================
