------------------------------ MODULE WeekPlan ------------------------------
(***************************************************************************)
(* What the week service promises its owners: a week has a pool of recipe  *)
(* occurrences and a grocery list, every request changes the pool in one   *)
(* indivisible step, and that step leaves the list equal to the shoppable  *)
(* ingredients of the whole pool.  WeekTx says how the transactions of     *)
(* concurrent requests try to keep the promise.                            *)
(***************************************************************************)
EXTENDS Corpus, Naturals

CONSTANT Week

VARIABLES
  weeks,   (* the weeks that have been generated                           *)
  pool,    (* week_recipes: [id, week, recipe, position]                   *)
  list     (* what the lines of every week stand for: [occ, ing]           *)

vars == <<weeks, pool, list>>

Init ==
  /\ weeks = {w \in {0} : pool # {}}
  /\ \A o \in pool : o.week = 0
  /\ list = Requirements(pool)

(* Every change recomputes the list of the week it changes.                *)
Replan(newPool) ==
  /\ pool' = newPool
  /\ list' = Requirements(newPool)

(* A generated week holds distinct recipes at positions 0, 1, 2, ... and   *)
(* no occurrence it held before.                                           *)
Generate(w) ==
  LET new  == InWeek(pool', w)
      kept == pool \ InWeek(pool, w)
  IN  /\ Replan(kept \cup new)
      /\ new # {} /\ {o.id : o \in new} \cap {o.id : o \in pool} = {}
      /\ \A o, p \in new : o # p => o.recipe # p.recipe /\ o.position # p.position
      /\ \A o \in new : o.position = 0 \/ \E p \in new : p.position = o.position - 1
      /\ weeks' = weeks \cup {w}

(* One occurrence more, at a position nobody has.                          *)
Add(w) ==
  /\ w \in weeks
  /\ \E o \in InWeek(pool', w) :
       /\ \A p \in pool : p.id # o.id /\ (p.week = w => p.position # o.position)
       /\ Replan(pool \cup {o})
  /\ UNCHANGED weeks

Remove(w) ==
  /\ w \in weeks
  /\ \E o \in InWeek(pool, w) : Replan(pool \ {o})
  /\ UNCHANGED weeks

(* Swap and RandomSwap: another recipe for one occurrence.                 *)
Swap(w) ==
  /\ w \in weeks
  /\ \E o \in InWeek(pool, w), r \in Recipe :
       Replan((pool \ {o}) \cup {[o EXCEPT !.recipe = r]})
  /\ UNCHANGED weeks

Next == \E w \in Week : Generate(w) \/ Add(w) \/ Remove(w) \/ Swap(w)

Spec == Init /\ [][Next]_vars
=============================================================================
