-------------------------- MODULE WeekTxInvariant --------------------------
(***************************************************************************)
(* Why the rows of WeekTx stay consistent with one another whatever the    *)
(* interleaving: RowsInvariant, the inductive invariant behind UniqueRows  *)
(* and LinesExplained, in the parts its proof uses; WeekInvariant, which   *)
(* adds what history and manual lines need; RecipeInvariant, which follows *)
(* the ingredients of a recipe through a transaction.  And why requests    *)
(* that are safe together keep the promise of WeekPlan: PlanInvariant, for *)
(* the pool and the list, and StatesInvariant, for the ticks.              *)
(***************************************************************************)
EXTENDS WeekTx

(* The transaction that inserted the row has committed.                    *)
Durable(id) == id[1] = 0 \/ pc[id[1]] = "committed"

(* Row ids tell which transaction wrote the row, and which line.           *)
RowIdentity ==
  /\ \A o \in occs : Durable(o.id)
  /\ \A o, p \in occs : o.id = p.id => o = p
  /\ \A l \in lines : /\ Durable(l.id) /\ l.id[2] = l.key
                      /\ l.key[1] = "manual" => l.key[2] = l.id[1]
                      /\ l.origin = "manual" <=> l.key[1] = "manual"
  /\ \A c \in contribs : c.line[2] = KeyOf(c)

(* A contribution joins a line and an occurrence of one week.              *)
SameWeek ==
  \A c \in contribs : \A o \in occs, l \in lines :
    o.id = c.occ /\ l.id = c.line => o.week = l.week /\ l.origin = "generated"

(* What t can have written by the time it is at a statement.               *)
Written == {"insert"} \cup Recompute   (* after the cascade from occDel    *)
OwnWork(t) ==
  /\ t \notin Active => seen[t] = NothingSeen /\ work[t] = NoWork
  /\ work[t].occIns # {} => pc[t] \in Recompute /\ req[t].op \in {"generate", "add"}
  /\ work[t].occUpd # {} => pc[t] \in Recompute /\ req[t].op \in {"swap", "randomSwap"}
  /\ work[t].occDel # {} => pc[t] \in {"cascade"} \cup Written /\ req[t].op \in {"generate", "remove"}
  /\ work[t].lineDel # {} => pc[t] \in {"uncontribute", "rebuild"}
  /\ work[t].contribDel # {} => pc[t] \in Written
  /\ \A n \in work[t].occIns : n.id = <<t, n.position>> /\ n.week = req[t].week

(* Snapshots and deletions name rows that are or were committed, of the    *)
(* week of the request.                                                    *)
Snapshots(t) ==
  /\ \A id \in seen[t].occTargets : Durable(id)
  /\ \A id \in seen[t].lineTargets : Durable(id)
  /\ \A id \in work[t].occDel : Durable(id)
  /\ \A id \in work[t].lineDel : Durable(id)
  /\ \A c \in work[t].contribDel : Durable(c.line)
  /\ \A o \in occs :
       o.id \in seen[t].occTargets \/ o.id \in work[t].occDel => o.week = req[t].week

(* An updated row stays where it is, and a position t has inserted at is   *)
(* nobody else's.                                                          *)
Places(t) ==
  /\ \A x \in work[t].occUpd : \E o \in occs : o.id = x.id /\ SamePlace(o, x)
  /\ \A x, y \in work[t].occUpd : x = y
  /\ \A n \in work[t].occIns, o \in occs : SamePlace(o, n) => o.id \in work[t].occDel
  /\ \A m, n \in work[t].occIns : SamePlace(m, n) => m = n

(* The cascades leave no contribution of a deleted row, and take none from *)
(* a line t does not delete too.                                           *)
Cascades(t) ==
  /\ pc[t] \in Written =>
       \A c \in contribs : c.occ \in work[t].occDel => c \in work[t].contribDel
  /\ pc[t] = "rebuild" =>
       \A c \in contribs : c.line \in work[t].lineDel => c \in work[t].contribDel
  /\ \A c \in work[t].contribDel \cap contribs :
       /\ pc[t] = "purging" => c.line \in seen[t].lineTargets
       /\ pc[t] \in {"uncontribute", "rebuild"} => c.line \in work[t].lineDel
       /\ pc[t] \notin {"purging", "uncontribute", "rebuild"} => c.occ \in work[t].occDel

Consistent(t) == OwnWork(t) /\ Snapshots(t) /\ Places(t) /\ Cascades(t)

(* Locks: two transactions hold different rows and different positions.    *)
Held(t) == work[t].occDel \cup Ids(work[t].occUpd)
Apart(t, u) ==
  /\ Held(t) \cap Held(u) = {}
  /\ \A m \in work[t].occIns, n \in work[u].occIns : ~SamePlace(m, n)

(* Committed rows, and what every open transaction has written and will    *)
(* delete, stay consistent with one another at every statement, whatever   *)
(* the interleaving, aborts included.                                      *)
RowsInvariant ==
  /\ TypeOK /\ RowIdentity /\ SameWeek /\ UniqueRows /\ LinesExplained
  /\ \A t \in Tx : Consistent(t)
  /\ \A t, u \in Tx : t # u => Apart(t, u)

-----------------------------------------------------------------------------
(* What t replaces is of its own week, and the lines it takes away are     *)
(* generated ones.                                                         *)
OwnWeek(t) ==
  /\ \A x \in work[t].occUpd : x.week = req[t].week
  /\ \A l \in lines : l.id \in seen[t].lineTargets \cup work[t].lineDel =>
       l.week = req[t].week /\ l.origin = "generated"

(* A transaction reaches no other week than its request's.                 *)
WeekInvariant ==
  /\ \A l, m \in lines : l.id = m.id => l = m
  /\ \A t \in Tx : OwnWeek(t)

-----------------------------------------------------------------------------
(* The lines one request wrote come and go together, and with them the     *)
(* contributions of a recipe.                                              *)
OneRequest(l, m) == l.id[1] = m.id[1] /\ l.origin = "generated" /\ m.origin = "generated"
WholeTargets(t) ==
  \A l, m \in lines : OneRequest(l, m) =>
    /\ l.id \in seen[t].lineTargets => m.id \in seen[t].lineTargets
    /\ l.id \in work[t].lineDel => m.id \in work[t].lineDel

RecipesTogether ==
  \A c \in contribs, r \in Recipe : c.ing \in IngredientsOf[r] =>
    \A i \in IngredientsOf[r] :
      \E d \in contribs : d.occ = c.occ /\ d.ing = i /\ d.line[1] = c.line[1]

(* A request's lines are of one week and nobody takes some of them only.   *)
RecipeInvariant ==
  /\ \A l, m \in lines : OneRequest(l, m) => l.week = m.week
  /\ \A t \in Tx : WholeTargets(t)
  /\ RecipesTogether

-----------------------------------------------------------------------------
(* Why requests that are safe together leave the list equal to the pool.   *)

(* Remove, Swap and RandomSwap lock the one occurrence they change.        *)
Reshape == {"remove", "swap", "randomSwap"}
PoolOp == {"generate", "add"} \cup Reshape
Shoppable == \A r \in Recipe : IngredientsOf[r] # {}

(* Edits of the checklist are safe beside anything; Generates, and Adds,   *)
(* insert at a position of which there is one; requests that reshape the   *)
(* pool meet in the contributions they insert, if every recipe has some.   *)
SafePair(a, b) ==
  \/ {a, b} \ PoolOp # {}
  \/ a = b /\ a \in {"generate", "add"}
  \/ {a, b} \subseteq Reshape /\ Shoppable

SafeTogether == InFlight <= 1 \/ \A m \in Mixes : \A a, b \in m : SafePair(a, b)

PairsSafe == \A t, u \in Active : t # u => SafePair(req[t].op, req[u].op)

(* The generated lines of a week are those of its latest recompute.        *)
OneWriter ==
  \A l, m \in lines :
    l.origin = "generated" /\ m.origin = "generated" /\ l.week = m.week => l.id[1] = m.id[1]

ListsMatch == \A w \in Week : Listed(w) = Requirements(InWeek(occs, w))

(* The week of a pool request exists, or its Generate will create it.      *)
HasWeek(t) ==
  /\ req[t].op \in PoolOp =>
       \/ req[t].week \in weeks
       \/ req[t].op = "generate" /\ (pc[t] \in {"getWeek", "createWeek"} \/ work[t].newWeek)
  /\ work[t].newWeek => req[t].op = "generate"

(* The pool of t's week as committed, and as t sees and will commit it.    *)
WeekPool(t) == InWeek(occs, req[t].week)
OwnPool(t) == InWeek(VisibleOccs(t), req[t].week)

Inserts(t) ==
  pc[t] \in Recompute /\ req[t].op \in {"generate", "add"} => work[t].occIns = NewOccs(t)

(* Generate takes the whole pool, or has to fail on a newer one's first.   *)
Replaces(t) ==
  LET taken == IF pc[t] = "clearing" THEN seen[t].occTargets ELSE work[t].occDel
  IN  req[t].op = "generate" /\ pc[t] \in {"clearing", "cascade", "insert"} \cup Recompute =>
        \/ \A o \in WeekPool(t) : o.id \in taken
        \/ pc[t] \notin Recompute /\ \E o \in WeekPool(t) : o.position = 0 /\ o.id \notin taken

(* Add's position is the next one, or has been taken.                      *)
Appends(t) ==
  LET used == {o.position : o \in WeekPool(t)}
      p    == seen[t].position
  IN  req[t].op = "add" /\ pc[t] \in {"insert"} \cup Recompute =>
        \/ p \in {0} \cup {q + 1 : q \in used} /\ \A q \in used : q < p
        \/ pc[t] = "insert" /\ p \in used

(* A request that reshapes the pool holds one occurrence of it.            *)
Holds(t) ==
  req[t].op \in Reshape /\ pc[t] \in {"cascade"} \cup Recompute =>
    \E o \in WeekPool(t) : Held(t) = {o.id}

(* What recompute has read of the pool is still true, or has too much.     *)
PoolRead(t) ==
  pc[t] \in {"purge", "purging", "uncontribute", "rebuild"} =>
    \/ seen[t].pool = OwnPool(t)
    \/ req[t].op \in Reshape /\ Shoppable /\ Ids(OwnPool(t)) \subseteq Ids(seen[t].pool)

(* It deletes all generated lines, or another request has rebuilt the list *)
(* after t read an occurrence which that request then changed.             *)
LinesRead(t) ==
  LET taken == IF pc[t] = "purging" THEN seen[t].lineTargets ELSE work[t].lineDel
  IN  pc[t] \in {"purging", "uncontribute", "rebuild"} =>
        \/ \A l \in Generated(lines, req[t].week) : l.id \in taken
        \/ req[t].op \in Reshape /\ Shoppable /\ \E s \in seen[t].pool : s.id \notin Held(t)

Planned(t) ==
  /\ HasWeek(t) /\ Inserts(t) /\ Replaces(t) /\ Appends(t) /\ Holds(t)
  /\ PoolRead(t) /\ LinesRead(t)

(* What the committed rows and the snapshots of open requests have in      *)
(* common at every statement, when only safe requests overlap.             *)
PlanInvariant ==
  /\ PairsSafe /\ OneWriter /\ ListsMatch
  /\ \A o \in occs : o.week \in weeks
  /\ \A t \in Tx : Planned(t)

-----------------------------------------------------------------------------
(* Why Generate and Add carry the state of the lines over.                 *)

(* No line is ticked while a Generate or an Add copies the states.         *)
TicksApart == InFlight <= 1 \/ \A m \in Mixes : "setLine" \in m => m \cap {"generate", "add"} = {}

(* The states t has read are those of the lines there still are; for a     *)
(* request that reshapes the pool only if no other request is open.        *)
MarksRead(t) ==
  pc[t] \in Recompute \ {"states"} /\ (req[t].op \in {"generate", "add"} \/ InFlight <= 1) =>
    seen[t].marks = {[key |-> l.key, marks |-> l.marks] : l \in Generated(lines, req[t].week)}

StatesInvariant ==
  /\ \A t, u \in Active : t # u =>
       /\ InFlight > 1
       /\ req[t].op = "setLine" => req[u].op \notin {"generate", "add"}
  /\ \A t \in Tx : MarksRead(t)
=============================================================================
