--------------------------- MODULE WeekPlanProofs ---------------------------
(***************************************************************************)
(* The week service keeps the promise of WeekPlan, for every corpus,       *)
(* number of weeks and transactions, when only requests overlap that are   *)
(* safe together: PlanInvariant is inductive next to the invariants of the *)
(* rows, and with it each COMMIT is one step of the plan.  StatesInvariant *)
(* then says why a Generate or an Add keeps the ticks of the list.         *)
(***************************************************************************)
EXTENDS WeekHistoryProofs, FiniteSetTheorems

(* The invariants of the rows, which hold whatever requests overlap.       *)
Rows == RowsInvariant /\ WeekInvariant /\ RecipeInvariant

LEMMA RowsHold == Spec => []Rows
<1>1. Init => Rows
  BY InitRows, InitWeek, InitRecipes DEF Rows
<1>2. Rows /\ [Next]_vars => Rows'
  BY NextRows, NextWeek, NextRecipes DEF Rows
<1> QED BY <1>1, <1>2, PTL DEF Spec

-----------------------------------------------------------------------------
(* Which requests are open together.                                       *)

LEMMA SafePairSymmetric ==
  ASSUME NEW a, NEW b, SafePair(a, b)
  PROVE  SafePair(b, a)
<1>1. {a, b} = {b, a}
  OBVIOUS
<1> QED BY <1>1 DEF SafePair

LEMMA ActiveFinite == IsFiniteSet(Active)
<1>1. IsFiniteSet(Tx)
  BY FS_Interval, BoundsAssumption DEF Tx
<1>2. Active \in SUBSET Tx
  BY DEF Active
<1> QED BY <1>1, <1>2, FS_Subset

LEMMA BeginPairs ==
  ASSUME SafeTogether, TypeOK, PairsSafe, NEW t \in Tx, NEW r, NEW label, Begin(t, r, label)
  PROVE  PairsSafe'
<1>0. /\ \A u \in Tx \ {t} : pc'[u] = pc[u] /\ req'[u] = req[u]
      /\ req'[t] = r
  BY DEF Begin, Goto, TypeOK
<1>1. \A u \in Active' : u = t \/ u \in Active
  BY <1>0 DEF Active
<1>2. ASSUME NEW u \in Active, u # t
      PROVE  SafePair(r.op, req[u].op)
  <2>1. CASE InFlight <= 1
    <3>1. Cardinality(Active) < 1 /\ Cardinality(Active) \in Nat
      BY <2>1, ActiveFinite, FS_CardinalityType, BoundsAssumption DEF Begin
    <3>2. Active = {}
      BY <3>1, ActiveFinite, FS_EmptySet
    <3> QED BY <3>2
  <2>2. CASE \A m \in Mixes : \A a, b \in m : SafePair(a, b)
    BY <2>2 DEF Begin, Together
  <2> QED BY <2>1, <2>2 DEF SafeTogether
<1>3. ASSUME NEW u \in Active', NEW v \in Active', u # v
      PROVE  SafePair(req'[u].op, req'[v].op)
  <2>1. CASE u = t
    BY <1>0, <1>1, <1>2, <1>3, <2>1 DEF Active
  <2>2. CASE v = t
    BY <1>0, <1>1, <1>2, <1>3, <2>2, SafePairSymmetric DEF Active
  <2>3. CASE u # t /\ v # t
    BY <1>0, <1>1, <1>3, <2>3 DEF PairsSafe, Active
  <2> QED BY <2>1, <2>2, <2>3
<1> QED BY <1>3 DEF PairsSafe

(* Nobody becomes active but at Begin.                                     *)
LEMMA PairsStay ==
  ASSUME TypeOK, PairsSafe, NEW t \in Tx, NEW label, Goto(t, label),
         \A u \in Tx \ {t} : req'[u] = req[u],
         t \in Active' => t \in Active /\ req'[t] = req[t]
  PROVE  PairsSafe'
<1>1. \A u \in Active' : u \in Active /\ req'[u] = req[u]
  BY DEF Active, Goto, TypeOK
<1> QED BY <1>1 DEF PairsSafe

-----------------------------------------------------------------------------
(* Transactions t's step does not touch.                                   *)

LEMMA OtherPlanned ==
  ASSUME NEW u \in Tx, Planned(u), weeks \subseteq weeks', 
         pc'[u] = pc[u], req'[u] = req[u], seen'[u] = seen[u], work'[u] = work[u],
         WeekPool(u)' = WeekPool(u), OwnPool(u)' = OwnPool(u),
         {l.id : l \in Generated(lines, req[u].week)'} = {l.id : l \in Generated(lines, req[u].week)}
  PROVE  Planned(u)'
<1>1. HasWeek(u)' /\ Inserts(u)'
  BY DEF Planned, HasWeek, Inserts, NewOccs
<1>2. Replaces(u)'
  BY DEF Planned, Replaces
<1>3. Appends(u)'
  BY DEF Planned, Appends
<1>4. Held(u)' = Held(u)
  BY DEF Held
<1>5. Holds(u)' /\ PoolRead(u)'
  BY <1>4 DEF Planned, Holds, PoolRead
<1>6. LinesRead(u)'
  <2> DEFINE ids == {l.id : l \in Generated(lines, req[u].week)}
  <2>1. ids' = ids
    OBVIOUS
  <2>2. /\ \A taken : (\A l \in Generated(lines, req[u].week) : l.id \in taken) <=> ids \subseteq taken
        /\ \A taken : (\A l \in Generated(lines, req[u].week)' : l.id \in taken) <=> ids' \subseteq taken
    OBVIOUS
  <2> HIDE DEF ids
  <2> QED BY <1>4, <2>1, <2>2 DEF Planned, LinesRead
<1> QED BY <1>1, <1>2, <1>3, <1>5, <1>6 DEF Planned

-----------------------------------------------------------------------------
(* Steps before the COMMIT.                                                *)

(* Only what the step says about t is left to show.                        *)
LEMMA StepPlan ==
  ASSUME TypeOK, PlanInvariant, NEW t \in Tx, NEW label, Goto(t, label), Others(t),
         UNCHANGED <<weeks, occs, lines, contribs>>, PairsSafe', Planned(t)'
  PROVE  PlanInvariant'
<1>1. OneWriter' /\ ListsMatch' /\ \A o \in occs' : o.week \in weeks'
  BY DEF PlanInvariant, OneWriter, ListsMatch, Listed
<1>2. ASSUME NEW u \in Tx, u # t
      PROVE  Planned(u)'
  <2>1. /\ pc'[u] = pc[u] /\ req'[u] = req[u] /\ seen'[u] = seen[u] /\ work'[u] = work[u]
        /\ Planned(u)
    BY <1>2 DEF Goto, TypeOK, Others, PlanInvariant
  <2>2. WeekPool(u)' = WeekPool(u) /\ OwnPool(u)' = OwnPool(u)
    BY <2>1 DEF WeekPool, OwnPool, VisibleOccs
  <2> QED BY <2>1, <2>2, OtherPlanned
<1> QED BY <1>1, <1>2 DEF PlanInvariant

(* Nothing to show before t has read or written anything.                  *)
LEMMA EarlyPlanned ==
  ASSUME NEW t \in Tx, HasWeek(t)',
         pc'[t] \notin {"clearing", "cascade", "insert"} \cup Recompute
  PROVE  Planned(t)'
<1>1. Inserts(t)' /\ Replaces(t)' /\ Appends(t)' /\ Holds(t)'
  BY DEF Inserts, Replaces, Appends, Holds
<1>2. PoolRead(t)' /\ LinesRead(t)'
  BY DEF PoolRead, LinesRead, Recompute
<1> QED BY <1>1, <1>2 DEF Planned

LEMMA FailedPlan ==
  ASSUME Rows, PlanInvariant, NEW t \in Tx, Fail(t)
  PROVE  PlanInvariant'
<1>0. TypeOK /\ Others(t)
  BY FailPrivate DEF Rows, RowsInvariant
<1>1. /\ Goto(t, "failed") /\ pc'[t] = "failed" /\ UNCHANGED <<weeks, occs, lines, contribs>>
      /\ req'[t] = NoRequest /\ work'[t] = NoWork
  BY <1>0 DEF Fail, End, Goto, db, TypeOK
<1>2. PairsSafe'
  <2>1. t \notin Active'
    BY <1>1 DEF Active
  <2>2. \A u \in Tx \ {t} : req'[u] = req[u]
    BY <1>0 DEF Others
  <2> QED BY <1>0, <1>1, <2>1, <2>2, PairsStay DEF PlanInvariant
<1>3. Planned(t)'
  <2>1. HasWeek(t)'
    BY <1>1 DEF HasWeek, NoRequest, NoWork, PoolOp, Reshape
  <2> QED BY <1>1, <2>1, EarlyPlanned DEF Recompute
<1> QED BY <1>0, <1>1, <1>2, <1>3, StepPlan

LEMMA RequestedPlan ==
  ASSUME SafeTogether, Rows, PlanInvariant, NEW t \in Tx, Request(t)
  PROVE  PlanInvariant'
<1>0. TypeOK /\ OwnWork(t) /\ Others(t)
  BY RequestPrivate DEF Rows, RowsInvariant, Consistent
<1>1. ASSUME NEW r, NEW label, Begin(t, r, label),
             label \in {"getWeek", "position", "delete", "update", "pick", "setLine", "addManual"},
             r.op \in PoolOp => r.week \in weeks \/ (r.op = "generate" /\ label = "getWeek")
      PROVE  PlanInvariant'
  <2>1. /\ pc[t] = "idle" /\ UNCHANGED <<weeks, occs, lines, contribs, seen, work>>
        /\ Goto(t, label) /\ pc'[t] = label /\ req'[t] = r
    BY <1>0, <1>1 DEF Begin, Goto, db, TypeOK
  <2>2. work'[t].newWeek = FALSE
    BY <1>0, <2>1 DEF OwnWork, Active, NoWork
  <2>3. HasWeek(t)'
    BY <1>1, <2>1, <2>2 DEF HasWeek
  <2>4. Planned(t)'
    BY <1>1, <2>1, <2>3, EarlyPlanned DEF Recompute
  <2>5. PairsSafe'
    BY <1>0, <1>1, BeginPairs DEF PlanInvariant
  <2> QED BY <1>0, <2>1, <2>4, <2>5, StepPlan
<1>2. CASE Generate(t)
  <2> DEFINE r(p) == [op |-> "generate", week |-> today, picks |-> p]
  <2>1. PICK p \in Shuffles : Begin(t, r(p), "getWeek")
    BY <1>2 DEF Generate
  <2>2. r(p).op = "generate"
    OBVIOUS
  <2> HIDE DEF r
  <2> QED BY <1>1, <2>1, <2>2
<1>3. CASE Add(t)
  <2> DEFINE r(q) == [op |-> "add", week |-> today, recipe |-> q]
  <2>1. PICK q \in Recipe : today \in weeks /\ Begin(t, r(q), "position")
    BY <1>3 DEF Add
  <2>2. r(q).week \in weeks
    BY <2>1
  <2> HIDE DEF r
  <2> QED BY <1>1, <2>1, <2>2
<1>4. CASE Remove(t)
  <2> DEFINE r(o) == [op |-> "remove", week |-> today, occ |-> o.id]
  <2>1. PICK o \in occs : today \in weeks /\ Begin(t, r(o), "delete")
    BY <1>4 DEF Remove
  <2>2. r(o).week \in weeks
    BY <2>1
  <2> HIDE DEF r
  <2> QED BY <1>1, <2>1, <2>2
<1>5. CASE Swap(t)
  <2> DEFINE r(o, q) == [op |-> "swap", week |-> today, occ |-> o.id, recipe |-> q]
  <2>1. PICK o \in occs, q \in Recipe : today \in weeks /\ Begin(t, r(o, q), "update")
    BY <1>5 DEF Swap
  <2>2. r(o, q).week \in weeks
    BY <2>1
  <2> HIDE DEF r
  <2> QED BY <1>1, <2>1, <2>2
<1>6. CASE RandomSwap(t)
  <2> DEFINE r(o) == [op |-> "randomSwap", week |-> today, occ |-> o.id]
  <2>1. PICK o \in occs : today \in weeks /\ Begin(t, r(o), "pick")
    BY <1>6 DEF RandomSwap
  <2>2. r(o).week \in weeks
    BY <2>1
  <2> HIDE DEF r
  <2> QED BY <1>1, <2>1, <2>2
<1>7. CASE SetLine(t)
  <2> DEFINE r(l, f, on) ==
               [op |-> "setLine", week |-> today, line |-> l.id, flag |-> f, on |-> on]
  <2>1. PICK l \in lines, f \in Flag, on \in BOOLEAN : Begin(t, r(l, f, on), "setLine")
    BY <1>7 DEF SetLine
  <2>2. r(l, f, on).op \notin PoolOp
    BY DEF PoolOp, Reshape
  <2> HIDE DEF r
  <2> QED BY <1>1, <2>1, <2>2
<1>8. CASE AddManualLine(t)
  <2> DEFINE r == [op |-> "addManual", week |-> today]
  <2>1. Begin(t, r, "addManual")
    BY <1>8 DEF AddManualLine
  <2>2. r.op \notin PoolOp
    BY DEF PoolOp, Reshape
  <2> HIDE DEF r
  <2> QED BY <1>1, <2>1, <2>2
<1> QED BY <1>2, <1>3, <1>4, <1>5, <1>6, <1>7, <1>8 DEF Request

(* A statement of t that goes on.                                          *)
LEMMA StatementPlan ==
  ASSUME Rows, PlanInvariant, NEW t \in Tx, t \in Active, NEW label, Goto(t, label), Others(t),
         UNCHANGED <<weeks, occs, lines, contribs, req>>, Planned(t)'
  PROVE  PlanInvariant'
<1>1. TypeOK
  BY DEF Rows, RowsInvariant
<1>2. PairsSafe'
  BY <1>1, PairsStay DEF PlanInvariant
<1> QED BY <1>1, <1>2, StepPlan

(* Before recompute t has written nothing to the pool but what it deletes. *)
LEMMA NothingWritten ==
  ASSUME Rows, NEW t \in Tx, pc[t] \notin Recompute
  PROVE  /\ work[t].occIns = {} /\ work[t].occUpd = {}
         /\ pc[t] \notin {"cascade", "insert"} => work[t].occDel = {} /\ VisibleOccs(t) = occs
<1>1. OwnWork(t)
  BY DEF Rows, RowsInvariant, Consistent
<1>2. work[t].occIns = {} /\ work[t].occUpd = {}
  BY <1>1 DEF OwnWork
<1>3. pc[t] \notin {"cascade", "insert"} => work[t].occDel = {}
  BY <1>1 DEF OwnWork, Written
<1>4. work[t].occDel = {} => VisibleOccs(t) = occs
  BY <1>2 DEF VisibleOccs, Ids
<1> QED BY <1>2, <1>3, <1>4

(* A week that exists or is about to is not forgotten.                     *)
LEMMA WeekStays ==
  ASSUME NEW t \in Tx, HasWeek(t), UNCHANGED <<weeks, req>>, work'[t].newWeek = work[t].newWeek,
         pc[t] \notin {"getWeek", "createWeek"}
  PROVE  HasWeek(t)'
BY DEF HasWeek

(* Until the COMMIT recompute changes nothing of the pool.                 *)
LEMMA Carried ==
  ASSUME NEW t \in Tx, Planned(t), UNCHANGED <<weeks, occs, req>>,
         pc[t] \in Recompute, pc'[t] \in Recompute, seen'[t].position = seen[t].position,
         work'[t].newWeek = work[t].newWeek, work'[t].occIns = work[t].occIns,
         work'[t].occUpd = work[t].occUpd, work'[t].occDel = work[t].occDel
  PROVE  /\ HasWeek(t)' /\ Inserts(t)' /\ Replaces(t)' /\ Appends(t)' /\ Holds(t)'
         /\ WeekPool(t)' = WeekPool(t) /\ OwnPool(t)' = OwnPool(t) /\ Held(t)' = Held(t)
<1>1. pc[t] \notin {"getWeek", "createWeek", "clearing", "cascade", "insert"} /\ pc'[t] # "clearing"
  BY DEF Recompute
<1>2. HasWeek(t)'
  BY <1>1, WeekStays DEF Planned
<1>3. NewOccs(t)' = NewOccs(t)
  BY DEF NewOccs
<1>4. Inserts(t)'
  BY <1>3 DEF Planned, Inserts
<1>5. WeekPool(t)' = WeekPool(t) /\ Held(t)' = Held(t) /\ VisibleOccs(t)' = VisibleOccs(t)
  BY DEF WeekPool, Held, VisibleOccs
<1>6. OwnPool(t)' = OwnPool(t)
  BY <1>5 DEF OwnPool
<1>7. Replaces(t)'
  BY <1>1, <1>5 DEF Planned, Replaces
<1>8. Appends(t)'
  BY <1>1, <1>5 DEF Planned, Appends
<1>9. Holds(t)'
  BY <1>5 DEF Planned, Holds
<1> QED BY <1>2, <1>4, <1>5, <1>6, <1>7, <1>8, <1>9

(* getOrCreateWeek.                                                        *)
LEMMA WeekPlanned ==
  ASSUME Rows, PlanInvariant, NEW t \in Tx, ~Fail(t), GetWeek(t) \/ CreateWeek(t)
  PROVE  PlanInvariant'
<1>0. TypeOK /\ HasWeek(t) /\ work[t] \in WorkRow /\ t \in Active
  BY SeenWorkType DEF Rows, RowsInvariant, PlanInvariant, Planned, GetWeek, CreateWeek, At, Active
<1>1. Private(t) /\ Others(t)
  BY <1>0, StatementPrivate DEF Statement, GetWeek, CreateWeek, RebuildAndCommit, UpdateLine,
     CreateManualLine, At
<1>2. req[t].op = "generate"
  BY <1>0, StepOps DEF GetWeek, CreateWeek, At
<1>3. CASE GetWeek(t)
  <2>1. PICK label \in {"clear", "createWeek"} :
          /\ Goto(t, label) /\ (label = "clear" => req[t].week \in weeks)
          /\ UNCHANGED <<weeks, occs, lines, contribs, req, work>>
    BY <1>3 DEF GetWeek, db
  <2>2. pc'[t] = label
    BY <1>0, <2>1 DEF Goto, TypeOK
  <2>3. HasWeek(t)'
    BY <1>0, <1>2, <2>1, <2>2 DEF HasWeek
  <2>4. Planned(t)'
    BY <2>2, <2>3, EarlyPlanned DEF Recompute
  <2> QED BY <1>0, <1>1, <2>1, <2>4, StatementPlan
<1>4. CASE CreateWeek(t)
  <2>1. /\ Goto(t, "clear") /\ UNCHANGED <<weeks, occs, lines, contribs, req>>
        /\ work' = [work EXCEPT ![t].newWeek = TRUE]
    BY <1>4 DEF CreateWeek, db
  <2>2. pc'[t] = "clear" /\ work'[t].newWeek
    BY <1>0, <2>1 DEF Goto, TypeOK, WorkRow
  <2>3. HasWeek(t)'
    BY <1>2, <2>1, <2>2 DEF HasWeek
  <2>4. Planned(t)'
    BY <2>2, <2>3, EarlyPlanned DEF Recompute
  <2> QED BY <1>0, <1>1, <2>1, <2>4, StatementPlan
<1> QED BY <1>3, <1>4

(* Generate's DELETE takes all it saw of the pool; what a Generate that    *)
(* committed meanwhile put at position 0 stays.                            *)
LEMMA ClearedPlan ==
  ASSUME Rows, PlanInvariant, NEW t \in Tx, DeleteWeekRecipes(t) \/ DeletedWeekRecipes(t)
  PROVE  PlanInvariant'
<1>0. /\ TypeOK /\ HasWeek(t) /\ seen[t] \in SeenRow /\ work[t] \in WorkRow /\ t \in Active
      /\ req[t].op = "generate" /\ ~Fail(t)
  BY SeenWorkType, StepOps DEF Rows, RowsInvariant, PlanInvariant, Planned, DeleteWeekRecipes,
     DeletedWeekRecipes, At, Active, Fail, End, Goto, TypeOK
<1>1. Private(t) /\ Others(t)
  BY <1>0, StatementPrivate DEF Statement, DeleteWeekRecipes, DeletedWeekRecipes,
     RebuildAndCommit, UpdateLine, CreateManualLine, At
<1>2. CASE DeleteWeekRecipes(t)
  <2>1. /\ pc[t] = "clear" /\ Goto(t, "clearing")
        /\ UNCHANGED <<weeks, occs, lines, contribs, req, work>>
        /\ seen' = [seen EXCEPT ![t].occTargets = Ids(InWeek(VisibleOccs(t), req[t].week))]
    BY <1>2 DEF DeleteWeekRecipes, db, At
  <2>2. pc'[t] = "clearing" /\ seen'[t].occTargets = Ids(InWeek(VisibleOccs(t), req[t].week))
    BY <1>0, <2>1 DEF Goto, TypeOK, SeenRow
  <2>3. VisibleOccs(t) = occs
    BY <2>1, NothingWritten DEF Recompute
  <2>4. \A o \in WeekPool(t)' : o.id \in seen'[t].occTargets
    BY <2>1, <2>2, <2>3 DEF WeekPool, Ids
  <2>5. HasWeek(t)'
    BY <1>0, <2>1, WeekStays
  <2>6. Planned(t)'
    BY <1>0, <2>1, <2>2, <2>4, <2>5 DEF Planned, Inserts, Replaces, Appends, Holds, PoolRead,
       LinesRead, Recompute, Reshape
  <2> QED BY <1>0, <1>1, <2>1, <2>6, StatementPlan
<1>3. CASE DeletedWeekRecipes(t)
  <2>1. /\ pc[t] = "clearing" /\ Goto(t, "cascade")
        /\ UNCHANGED <<weeks, occs, lines, contribs, req, seen>>
        /\ work' = [work EXCEPT ![t].occDel = seen[t].occTargets \cap Ids(occs)]
    BY <1>3 DEF DeletedWeekRecipes, db, At
  <2>2. /\ pc'[t] = "cascade" /\ work'[t].occDel = seen[t].occTargets \cap Ids(occs)
        /\ work'[t].newWeek = work[t].newWeek
    BY <1>0, <2>1 DEF Goto, TypeOK, WorkRow
  <2>3. \/ \A o \in WeekPool(t) : o.id \in seen[t].occTargets
        \/ \E o \in WeekPool(t) : o.position = 0 /\ o.id \notin seen[t].occTargets
    BY <1>0, <2>1 DEF PlanInvariant, Planned, Replaces
  <2>4. WeekPool(t)' = WeekPool(t) /\ \A o \in WeekPool(t) : o.id \in Ids(occs)
    BY <2>1 DEF WeekPool, InWeek, Ids
  <2>5. \/ \A o \in WeekPool(t)' : o.id \in work'[t].occDel
        \/ \E o \in WeekPool(t)' : o.position = 0 /\ o.id \notin work'[t].occDel
    BY <2>2, <2>3, <2>4
  <2>6. HasWeek(t)'
    BY <1>0, <2>1, <2>2, WeekStays
  <2>7. Replaces(t)'
    BY <2>2, <2>5 DEF Replaces, Recompute
  <2>8. Planned(t)'
    BY <1>0, <2>1, <2>2, <2>6, <2>7 DEF Planned, Inserts, Appends, Holds, PoolRead,
       LinesRead, Recompute, Reshape
  <2> QED BY <1>0, <1>1, <2>1, <2>8, StatementPlan
<1> QED BY <1>2, <1>3

LEMMA CascadedPlan ==
  ASSUME Rows, PlanInvariant, NEW t \in Tx, CascadeOccurrence(t)
  PROVE  PlanInvariant'
<1>0. /\ TypeOK /\ Planned(t) /\ work[t] \in WorkRow /\ t \in Active /\ pc[t] = "cascade"
      /\ req[t].op \in {"generate", "remove"}
  BY SeenWorkType, StepOps DEF Rows, RowsInvariant, PlanInvariant, CascadeOccurrence, At, Active
<1>1. PICK label \in {"insert", "states"} :
        /\ Goto(t, label) /\ label = (IF req[t].op = "generate" THEN "insert" ELSE "states")
        /\ UNCHANGED <<weeks, occs, lines, contribs, req, seen>>
        /\ work' = [work EXCEPT ![t].contribDel = @ \cup Orphans(t)]
  BY DEF CascadeOccurrence, db
<1>2. /\ pc'[t] = label /\ work'[t].newWeek = work[t].newWeek
      /\ work'[t].occDel = work[t].occDel /\ work'[t].occUpd = work[t].occUpd
      /\ \A u \in Tx \ {t} : work'[u] = work[u]
  BY <1>0, <1>1 DEF Goto, TypeOK, WorkRow
<1>3. Others(t)
  BY <1>1, <1>2 DEF Others
<1>4. WeekPool(t)' = WeekPool(t) /\ Held(t)' = Held(t)
  BY <1>1, <1>2 DEF WeekPool, Held
<1>5. HasWeek(t)'
  BY <1>0, <1>1, <1>2, WeekStays DEF Planned
<1>6. Replaces(t)'
  BY <1>0, <1>1, <1>2, <1>4 DEF Planned, Replaces, Recompute
<1>7. Holds(t)'
  BY <1>0, <1>1, <1>2, <1>4 DEF Planned, Holds, Recompute, Reshape
<1>8. Planned(t)'
  BY <1>0, <1>1, <1>2, <1>5, <1>6, <1>7 DEF Planned, Inserts, Appends, PoolRead, LinesRead, Recompute
<1> QED BY <1>0, <1>1, <1>3, <1>8, StatementPlan

(* Add's position is one behind the last, unless an Add that commits       *)
(* before the insert takes it.                                             *)
LEMMA PositionPlan ==
  ASSUME Rows, PlanInvariant, NEW t \in Tx, NextWeekRecipePosition(t)
  PROVE  PlanInvariant'
<1> DEFINE used == {o.position : o \in WeekPool(t)}
<1>0. /\ TypeOK /\ Planned(t) /\ seen[t] \in SeenRow /\ t \in Active /\ pc[t] = "position"
      /\ req[t].op = "add" /\ VisibleOccs(t) = occs
  BY SeenWorkType, StepOps, NothingWritten DEF Rows, RowsInvariant, PlanInvariant,
     NextWeekRecipePosition, At, Active, Recompute
<1>1. PICK p \in {0} \cup {q + 1 : q \in used} :
        /\ Goto(t, "insert") /\ \A q \in used : q < p
        /\ UNCHANGED <<weeks, occs, lines, contribs, req, work>>
        /\ seen' = [seen EXCEPT ![t].position = p]
  BY <1>0 DEF NextWeekRecipePosition, db, WeekPool
<1>2. /\ pc'[t] = "insert" /\ seen'[t].position = p
      /\ \A u \in Tx \ {t} : seen'[u] = seen[u]
  BY <1>0, <1>1 DEF Goto, TypeOK, SeenRow
<1>3. Others(t)
  BY <1>1, <1>2 DEF Others
<1>4. WeekPool(t)' = WeekPool(t)
  BY <1>1 DEF WeekPool
<1>5. HasWeek(t)'
  BY <1>0, <1>1, <1>2, WeekStays DEF Planned
<1>6. Appends(t)'
  BY <1>1, <1>2, <1>4 DEF Appends
<1>7. Planned(t)'
  BY <1>0, <1>1, <1>2, <1>5, <1>6 DEF Planned, Inserts, Replaces, Holds, PoolRead, LinesRead,
     Recompute, Reshape
<1> QED BY <1>0, <1>1, <1>3, <1>7, StatementPlan

(* One row per position of picks.                                          *)
LEMMA RowAt ==
  ASSUME NEW t, NEW w, NEW picks, NEW p \in DOMAIN picks
  PROVE  \E n \in OccRows(t, w, picks) : n.position = p
<1> DEFINE row(q) == [id |-> <<t, q>>, week |-> w, recipe |-> picks[q], position |-> q]
<1>1. row(p) \in OccRows(t, w, picks)
  BY DEF OccRows
<1>2. row(p).position = p
  OBVIOUS
<1> HIDE DEF row
<1> QED BY <1>1, <1>2

LEMMA GeneratePicks ==
  ASSUME TypeOK, NEW t \in Tx, req[t].op = "generate"
  PROVE  req[t].picks \in Shuffles /\ req[t].week \in Week
BY DEF TypeOK, RequestRow, NoRequest

(* A Generate puts a recipe at position 0.                                 *)
LEMMA FirstPosition ==
  ASSUME TypeOK, NEW t \in Tx, req[t].op = "generate"
  PROVE  \E n \in NewOccs(t) : n.position = 0
<1>1. req[t].picks \in Shuffles
  BY GeneratePicks
<1>2. PICK n \in 1..Cardinality(Recipe) : req[t].picks \in [0..(n - 1) -> Recipe]
  BY <1>1 DEF Shuffles
<1>3. Cardinality(Recipe) \in Nat
  BY BoundsAssumption, FS_CardinalityType
<1>4. 0 \in DOMAIN req[t].picks
  BY <1>2, <1>3
<1> QED BY <1>4, RowAt DEF NewOccs

(* An Add puts its recipe at the position it read.                         *)
LEMMA AddedPosition ==
  ASSUME NEW t \in Tx, req[t].op = "add"
  PROVE  \E n \in NewOccs(t) : n.position = seen[t].position
<1> DEFINE picks == [p \in {seen[t].position} |-> req[t].recipe]
<1>1. seen[t].position \in DOMAIN picks /\ NewOccs(t) = OccRows(t, req[t].week, picks)
  BY DEF NewOccs
<1> QED BY <1>1, RowAt

(* The position behind the last is one: two Adds that did not see a newer  *)
(* row read the same.                                                      *)
LEMMA SamePosition ==
  ASSUME TypeOK, NEW t \in Tx, NEW u \in Tx, req[t].week = req[u].week,
         req[t].op = "add", req[u].op = "add", Appends(t), Appends(u),
         pc[t] \in Recompute, pc[u] \in {"insert"} \cup Recompute,
         pc[u] = "insert" => seen[u].position \notin {o.position : o \in WeekPool(u)}
  PROVE  seen[t].position = seen[u].position
<1> DEFINE used == {o.position : o \in WeekPool(t)}
<1>1. WeekPool(u) = WeekPool(t) /\ \A q \in used : q \in Nat
  BY DEF WeekPool, InWeek, TypeOK, OccRow
<1>2. /\ seen[t].position \in {0} \cup {q + 1 : q \in used} /\ \A q \in used : q < seen[t].position
      /\ seen[u].position \in {0} \cup {q + 1 : q \in used} /\ \A q \in used : q < seen[u].position
  BY <1>1 DEF Appends, Recompute
<1> HIDE DEF used
<1> QED BY <1>1, <1>2

(* The insert succeeds when no row that t left in the pool is in the way.  *)
LEMMA InsertedPlan ==
  ASSUME Rows, PlanInvariant, NEW t \in Tx, CreateWeekRecipes(t), ~Fail(t)
  PROVE  PlanInvariant'
<1>0. /\ TypeOK /\ Planned(t) /\ work[t] \in WorkRow /\ t \in Active /\ pc[t] = "insert"
      /\ req[t].op \in {"generate", "add"} /\ OwnWork(t)
  BY SeenWorkType, StepOps DEF Rows, RowsInvariant, PlanInvariant, Consistent,
     CreateWeekRecipes, At, Active
<1>1. /\ Goto(t, "states") /\ UNCHANGED <<weeks, occs, lines, contribs, req, seen>>
      /\ work' = [work EXCEPT ![t].occIns = NewOccs(t)]
      /\ \A n \in NewOccs(t), o \in VisibleOccs(t) : ~SamePlace(o, n)
  BY DEF CreateWeekRecipes, db
<1>2. /\ pc'[t] = "states" /\ work'[t].occIns = NewOccs(t)
      /\ work'[t].newWeek = work[t].newWeek /\ work'[t].occDel = work[t].occDel
      /\ \A u \in Tx \ {t} : work'[u] = work[u]
  BY <1>0, <1>1 DEF Goto, TypeOK, WorkRow
<1>3. Others(t)
  BY <1>1, <1>2 DEF Others
<1>4. WeekPool(t)' = WeekPool(t) /\ NewOccs(t)' = NewOccs(t)
  BY <1>1 DEF WeekPool, NewOccs
<1>5. HasWeek(t)'
  BY <1>0, <1>1, <1>2, WeekStays DEF Planned
<1>6. ASSUME NEW o \in WeekPool(t), o.id \notin work[t].occDel, NEW n \in NewOccs(t)
      PROVE  o.position # n.position
  <2>1. o \in VisibleOccs(t)
    BY <1>0, <1>6, NothingWritten DEF WeekPool, InWeek, VisibleOccs, Ids, Recompute
  <2>2. n.week = req[t].week /\ o.week = req[t].week
    BY NewOccsRows DEF WeekPool, InWeek
  <2> QED BY <1>1, <2>1, <2>2 DEF SamePlace
<1>7. Replaces(t)'
  <2> SUFFICES ASSUME req[t].op = "generate"
               PROVE  \A o \in WeekPool(t) : o.id \in work[t].occDel
    BY <1>1, <1>2, <1>4 DEF Replaces
  <2>1. PICK n \in NewOccs(t) : n.position = 0
    BY <1>0, FirstPosition
  <2>2. \/ \A o \in WeekPool(t) : o.id \in work[t].occDel
        \/ \E o \in WeekPool(t) : o.position = 0 /\ o.id \notin work[t].occDel
    BY <1>0 DEF Planned, Replaces
  <2> QED BY <1>6, <2>1, <2>2
<1>8. Appends(t)'
  <2> SUFFICES ASSUME req[t].op = "add"
               PROVE  seen[t].position \notin {o.position : o \in WeekPool(t)}
    BY <1>0, <1>1, <1>2, <1>4 DEF Planned, Appends
  <2>1. \E n \in NewOccs(t) : n.position = seen[t].position
    BY AddedPosition
  <2>2. work[t].occDel = {}
    BY <1>0 DEF OwnWork
  <2> QED BY <1>6, <2>1, <2>2
<1>9. Planned(t)'
  BY <1>0, <1>1, <1>2, <1>4, <1>5, <1>7, <1>8 DEF Planned, Inserts, Holds, PoolRead, LinesRead, Reshape
<1> QED BY <1>0, <1>1, <1>3, <1>9, StatementPlan

(* Remove, Swap and RandomSwap lock the occurrence the request names.      *)
LEMMA ReshapedPlan ==
  ASSUME Rows, PlanInvariant, NEW t \in Tx, ~Fail(t), DeleteWeekRecipe(t) \/ UpdateWeekRecipe(t)
  PROVE  PlanInvariant'
<1>0. /\ TypeOK /\ Planned(t) /\ work[t] \in WorkRow /\ t \in Active
      /\ req[t].op \in Reshape /\ OwnWork(t) /\ pc[t] \in {"delete", "update"}
  BY SeenWorkType, StepOps DEF Rows, RowsInvariant, PlanInvariant, Consistent,
     DeleteWeekRecipe, UpdateWeekRecipe, At, Active, Reshape
<1>1. VisibleOccs(t) = occs /\ work[t].occDel = {} /\ work[t].occUpd = {}
  BY <1>0, NothingWritten DEF Recompute
<1>2. Private(t) /\ Others(t)
  BY <1>0, StatementPrivate DEF Statement, DeleteWeekRecipe, UpdateWeekRecipe,
     RebuildAndCommit, UpdateLine, CreateManualLine, At
<1>3. /\ \A o \in Target(t) : o \in WeekPool(t) /\ o.id = req[t].occ
      /\ Target(t) # {}
  BY <1>1 DEF Target, WeekPool, InWeek, DeleteWeekRecipe, UpdateWeekRecipe
<1>4. Ids(Target(t)) = {req[t].occ}
  BY <1>3 DEF Ids
<1>5. PICK label \in {"cascade", "states"} :
        /\ Goto(t, label) /\ UNCHANGED <<weeks, occs, lines, contribs, req, seen>>
        /\ work'[t].newWeek = work[t].newWeek /\ Held(t)' = {req[t].occ}
  <2>1. CASE DeleteWeekRecipe(t)
    <3>1. /\ Goto(t, "cascade") /\ UNCHANGED <<weeks, occs, lines, contribs, req, seen>>
          /\ work' = [work EXCEPT ![t].occDel = Ids(Target(t))]
      BY <2>1 DEF DeleteWeekRecipe, db
    <3>2. /\ work'[t].occDel = Ids(Target(t)) /\ work'[t].occUpd = {}
          /\ work'[t].newWeek = work[t].newWeek
      BY <1>0, <1>1, <3>1 DEF TypeOK, WorkRow
    <3>3. Held(t)' = {req[t].occ}
      BY <1>4, <3>2 DEF Held, Ids
    <3> QED BY <3>1, <3>2, <3>3
  <2>2. CASE UpdateWeekRecipe(t)
    <3> DEFINE r == IF req[t].op = "swap" THEN req[t].recipe ELSE seen[t].recipe
               rows == {[o EXCEPT !.recipe = r] : o \in Target(t)}
    <3>1. /\ Goto(t, "states") /\ UNCHANGED <<weeks, occs, lines, contribs, req, seen>>
          /\ work' = [work EXCEPT ![t].occUpd = rows]
      BY <2>2 DEF UpdateWeekRecipe, db
    <3>2. \A o \in Target(t) : [o EXCEPT !.recipe = r].id = o.id
      BY <1>0, VisibleType DEF OccRow
    <3>3. Ids(rows) = Ids(Target(t))
      <4> DEFINE f(o) == [o EXCEPT !.recipe = r]
      <4>1. rows = {f(o) : o \in Target(t)} /\ \A o \in Target(t) : f(o).id = o.id
        BY <3>2
      <4> HIDE DEF f, rows
      <4> QED BY <4>1 DEF Ids
    <3> HIDE DEF rows
    <3>4. work'[t].occUpd = rows /\ work'[t].occDel = {} /\ work'[t].newWeek = work[t].newWeek
      BY <1>0, <1>1, <3>1 DEF TypeOK, WorkRow
    <3>5. Held(t)' = {req[t].occ}
      BY <1>4, <3>3, <3>4 DEF Held, Ids
    <3> QED BY <3>1, <3>4, <3>5
  <2> QED BY <2>1, <2>2
<1>6. pc'[t] = label
  BY <1>0, <1>5 DEF Goto, TypeOK
<1>7. HasWeek(t)'
  BY <1>0, <1>5, WeekStays DEF Planned
<1>8. Holds(t)'
  BY <1>3, <1>5 DEF Holds, WeekPool
<1>9. Planned(t)'
  BY <1>0, <1>5, <1>6, <1>7, <1>8 DEF Planned, Inserts, Replaces, Appends, PoolRead, LinesRead,
     Reshape
<1> QED BY <1>0, <1>2, <1>5, <1>9, StatementPlan

LEMMA PickedPlan ==
  ASSUME Rows, PlanInvariant, NEW t \in Tx, ~Fail(t), Pick(t)
  PROVE  PlanInvariant'
<1>0. TypeOK /\ Planned(t) /\ t \in Active /\ pc[t] = "pick"
  BY DEF Rows, RowsInvariant, PlanInvariant, Pick, At, Active
<1>1. Private(t) /\ Others(t)
  BY <1>0, StatementPrivate DEF Statement, Pick, RebuildAndCommit, UpdateLine, CreateManualLine, At
<1>2. /\ Goto(t, "update") /\ pc'[t] = "update"
      /\ UNCHANGED <<weeks, occs, lines, contribs, req, work>>
  BY <1>0 DEF Pick, Goto, db, TypeOK
<1>3. HasWeek(t)'
  BY <1>0, <1>2, WeekStays DEF Planned
<1>4. Planned(t)'
  BY <1>2, <1>3, EarlyPlanned DEF Recompute
<1> QED BY <1>0, <1>1, <1>2, <1>4, StatementPlan

(* Recompute's reads and its DELETE.                                       *)
LEMMA RecomputedPlan ==
  ASSUME Rows, PlanInvariant, NEW t \in Tx,
         \/ ReadStates(t) \/ ReadRequirements(t) \/ DeleteGeneratedLines(t)
         \/ DeletedGeneratedLines(t) \/ CascadeLines(t)
  PROVE  PlanInvariant'
<1>0. /\ TypeOK /\ Planned(t) /\ seen[t] \in SeenRow /\ work[t] \in WorkRow /\ t \in Active
      /\ pc[t] \in Recompute \ {"rebuild"}
  BY SeenWorkType DEF Rows, RowsInvariant, PlanInvariant, Recompute,
     ReadStates, ReadRequirements, DeleteGeneratedLines, DeletedGeneratedLines, CascadeLines,
     At, Active
<1>1. PICK label \in Recompute \ {"states"} :
        /\ Goto(t, label) /\ UNCHANGED <<weeks, occs, lines, contribs, req>>
        /\ <<pc[t], label>> \in {<<"states", "requirements">>, <<"requirements", "purge">>,
             <<"purge", "purging">>, <<"purging", "uncontribute">>, <<"uncontribute", "rebuild">>}
  BY DEF ReadStates, ReadRequirements, DeleteGeneratedLines, DeletedGeneratedLines, CascadeLines,
     At, db, Recompute
<1>2. pc'[t] = label
  BY <1>0, <1>1 DEF Goto, TypeOK
<1>3. ~Fail(t)
  BY <1>0, <1>1, <1>2 DEF Fail, End, Goto, TypeOK, Recompute
<1>4. Private(t) /\ Others(t)
  BY <1>0, <1>3, StatementPrivate DEF Statement, Recompute, RebuildAndCommit, UpdateLine,
     CreateManualLine, At
<1>5. /\ seen'[t].position = seen[t].position
      /\ work'[t].newWeek = work[t].newWeek /\ work'[t].occIns = work[t].occIns
      /\ work'[t].occUpd = work[t].occUpd /\ work'[t].occDel = work[t].occDel
      /\ pc[t] = "requirements" => seen'[t].pool = OwnPool(t)
      /\ pc[t] # "requirements" => seen'[t].pool = seen[t].pool
      /\ pc[t] = "purge" => seen'[t].lineTargets = Ids(Generated(lines, req[t].week))
      /\ pc[t] = "purging" => work'[t].lineDel = seen[t].lineTargets \cap Ids(lines)
      /\ pc[t] = "uncontribute" => work'[t].lineDel = work[t].lineDel
  <2>1. CASE ReadStates(t)
    BY <1>0, <2>1 DEF ReadStates, At, TypeOK, SeenRow
  <2>2. CASE ReadRequirements(t)
    BY <1>0, <2>2 DEF ReadRequirements, At, TypeOK, SeenRow, OwnPool
  <2>3. CASE DeleteGeneratedLines(t)
    BY <1>0, <2>3 DEF DeleteGeneratedLines, At, TypeOK, SeenRow
  <2>4. CASE DeletedGeneratedLines(t)
    BY <1>0, <2>4 DEF DeletedGeneratedLines, At, TypeOK, WorkRow
  <2>5. CASE CascadeLines(t)
    BY <1>0, <2>5 DEF CascadeLines, At, TypeOK, WorkRow
  <2> QED BY <2>1, <2>2, <2>3, <2>4, <2>5
<1>6. /\ HasWeek(t)' /\ Inserts(t)' /\ Replaces(t)' /\ Appends(t)' /\ Holds(t)'
      /\ OwnPool(t)' = OwnPool(t) /\ Held(t)' = Held(t)
  BY <1>0, <1>1, <1>2, <1>5, Carried
<1>7. PoolRead(t)'
  <2>1. CASE pc[t] = "requirements"
    BY <1>5, <1>6, <2>1 DEF PoolRead
  <2>2. CASE pc[t] # "requirements"
    BY <1>0, <1>1, <1>2, <1>5, <1>6, <2>2 DEF Planned, PoolRead
  <2> QED BY <2>1, <2>2
<1>8. LinesRead(t)'
  <2> DEFINE gen == Generated(lines, req[t].week)
  <2>1. gen' = gen /\ \A l \in gen : l.id \in Ids(gen) /\ l.id \in Ids(lines)
    BY <1>1 DEF Generated, InWeek, Ids
  <2> HIDE DEF gen
  <2>2. CASE pc[t] = "purge"
    BY <1>1, <1>2, <1>5, <2>1, <2>2 DEF LinesRead, gen
  <2>3. CASE pc[t] = "purging"
    BY <1>0, <1>1, <1>2, <1>5, <1>6, <2>1, <2>3 DEF Planned, LinesRead, gen
  <2>4. CASE pc[t] = "uncontribute"
    BY <1>0, <1>1, <1>2, <1>5, <1>6, <2>1, <2>4 DEF Planned, LinesRead, gen
  <2> QED BY <1>1, <1>2, <2>2, <2>3, <2>4 DEF LinesRead
<1> QED
  BY <1>0, <1>1, <1>4, <1>6, <1>7, <1>8, StatementPlan DEF Planned

-----------------------------------------------------------------------------
(* COMMITs of checklist edits.                                             *)

LEMMA EndedPlan ==
  ASSUME TypeOK, PlanInvariant, NEW t \in Tx, End(t, "committed")
  PROVE  /\ PairsSafe'
         /\ Planned(t)'
         /\ pc'[t] = "committed"
         /\ \A u \in Tx \ {t} : /\ pc'[u] = pc[u] /\ req'[u] = req[u]
                                /\ seen'[u] = seen[u] /\ work'[u] = work[u]
<1>1. /\ Goto(t, "committed") /\ pc'[t] = "committed"
      /\ req'[t] = NoRequest /\ work'[t] = NoWork
  BY DEF End, Goto, TypeOK
<1>2. \A u \in Tx \ {t} : /\ pc'[u] = pc[u] /\ req'[u] = req[u]
                          /\ seen'[u] = seen[u] /\ work'[u] = work[u]
  BY Ended
<1>3. PairsSafe'
  <2>1. t \notin Active'
    BY <1>1 DEF Active
  <2> QED BY <1>1, <1>2, <2>1, PairsStay DEF PlanInvariant
<1>4. HasWeek(t)'
  BY <1>1 DEF HasWeek, NoRequest, NoWork, PoolOp, Reshape
<1>5. Planned(t)'
  BY <1>1, <1>4, EarlyPlanned DEF Recompute
<1> QED BY <1>1, <1>2, <1>3, <1>5

(* An edit keeps id, week and origin of every line and adds manual lines   *)
(* only.                                                                   *)
LEMMA EditPlan ==
  ASSUME Rows, PlanInvariant, NEW t \in Tx, pc[t] # "committed", End(t, "committed"),
         UNCHANGED <<weeks, occs, contribs>>,
         \A l \in lines : \E k \in lines' : k.id = l.id /\ k.week = l.week /\ k.origin = l.origin,
         \A k \in lines' :
           \/ \E l \in lines : k.id = l.id /\ k.week = l.week /\ k.origin = l.origin
           \/ k.origin = "manual" /\ k.id[1] = t
  PROVE  PlanInvariant'
<1>0. TypeOK /\ Goto(t, "committed")
  BY DEF Rows, RowsInvariant, End
<1>1. /\ PairsSafe' /\ Planned(t)'
      /\ \A u \in Tx \ {t} : /\ pc'[u] = pc[u] /\ req'[u] = req[u]
                             /\ seen'[u] = seen[u] /\ work'[u] = work[u]
  BY <1>0, EndedPlan
<1>2. OneWriter'
  BY DEF PlanInvariant, OneWriter
<1>3. ListsMatch'
  <2>1. \A c \in contribs : c.line[1] # t
    BY <1>0, RowsDurable DEF Rows
  <2>2. \A w : \A c \in contribs : c.line \in Ids(InWeek(lines, w))' <=> c.line \in Ids(InWeek(lines, w))
    BY <2>1 DEF Ids, InWeek
  <2>3. \A w \in Week : Listed(w)' = Listed(w)
    BY <2>2 DEF Listed
  <2> QED BY <2>3 DEF PlanInvariant, ListsMatch
<1>4. ASSUME NEW u \in Tx, u # t
      PROVE  Planned(u)'
  <2>1. req'[u] = req[u] /\ work'[u] = work[u] /\ Planned(u)
    BY <1>1, <1>4 DEF PlanInvariant
  <2>2. WeekPool(u)' = WeekPool(u) /\ OwnPool(u)' = OwnPool(u)
    BY <2>1 DEF WeekPool, OwnPool, VisibleOccs
  <2>3. {l.id : l \in Generated(lines, req[u].week)'} = {l.id : l \in Generated(lines, req[u].week)}
    BY <2>1 DEF Generated, InWeek
  <2> QED BY <1>1, <1>4, <2>1, <2>2, <2>3, OtherPlanned
<1>5. \A o \in occs' : o.week \in weeks'
  BY DEF PlanInvariant
<1> QED BY <1>1, <1>2, <1>3, <1>4, <1>5 DEF PlanInvariant

LEMMA EditedPlan ==
  ASSUME Rows, PlanInvariant, NEW t \in Tx, UpdateLine(t), ~Fail(t)
  PROVE  PlanInvariant'
<1> DEFINE edited(l) == [l EXCEPT !.marks = IF req[t].on THEN @ \cup {req[t].flag}
                                                       ELSE @ \ {req[t].flag}]
<1>0. /\ pc[t] # "committed" /\ End(t, "committed") /\ UNCHANGED <<weeks, occs, contribs>>
      /\ lines' = (lines \ Editable(t)) \cup {edited(l) : l \in Editable(t)}
      /\ Editable(t) \subseteq lines
  BY DEF UpdateLine, At, Editable
<1>1. \A l \in Editable(t) : /\ edited(l).id = l.id /\ edited(l).week = l.week
                             /\ edited(l).origin = l.origin
  BY <1>0 DEF Rows, RowsInvariant, TypeOK, LineRow
<1> HIDE DEF edited
<1>2. \A k \in lines' : \E l \in lines : k.id = l.id /\ k.week = l.week /\ k.origin = l.origin
  BY <1>0, <1>1
<1>3. \A l \in lines : \E k \in lines' : k.id = l.id /\ k.week = l.week /\ k.origin = l.origin
  BY <1>0, <1>1
<1> QED BY <1>0, <1>2, <1>3, EditPlan

LEMMA AddedPlan ==
  ASSUME Rows, PlanInvariant, NEW t \in Tx, CreateManualLine(t)
  PROVE  PlanInvariant'
<1> DEFINE line == [id |-> <<t, <<"manual", t>>>>, week |-> req[t].week,
                    key |-> <<"manual", t>>, origin |-> "manual", marks |-> {}]
<1>0. /\ pc[t] # "committed" /\ End(t, "committed") /\ UNCHANGED <<weeks, occs, contribs>>
      /\ lines' = lines \cup {line} /\ line.id[1] = t /\ line.origin = "manual"
  BY DEF CreateManualLine, At
<1> HIDE DEF line
<1>1. \A k \in lines' :
        \/ \E l \in lines : k.id = l.id /\ k.week = l.week /\ k.origin = l.origin
        \/ k.origin = "manual" /\ k.id[1] = t
  BY <1>0
<1>2. \A l \in lines : \E k \in lines' : k.id = l.id /\ k.week = l.week /\ k.origin = l.origin
  BY <1>0
<1> QED BY <1>0, <1>1, <1>2, EditPlan

-----------------------------------------------------------------------------
(* The COMMIT of recompute.                                                *)

(* Contributions are requirements with a line.                             *)
LEMMA ContribPairs ==
  ASSUME NEW t, NEW pool
  PROVE  {[occ |-> c.occ, ing |-> c.ing] : c \in ContribRows(t, pool)} = Requirements(pool)
<1> DEFINE contrib(q) == [line |-> <<t, KeyOf(q)>>, occ |-> q.occ, ing |-> q.ing]
           pair(c) == [occ |-> c.occ, ing |-> c.ing]
<1>1. ContribRows(t, pool) = {contrib(q) : q \in Requirements(pool)}
  BY DEF ContribRows
<1>2. \A q \in Requirements(pool) : pair(contrib(q)) = q
  <2>1. \A q \in Requirements(pool) : \E o, i : q = [occ |-> o, ing |-> i]
    BY DEF Requirements
  <2> QED BY <2>1
<1>3. {pair(c) : c \in ContribRows(t, pool)} = Requirements(pool)
  <2> HIDE DEF contrib, pair
  <2> QED BY <1>1, <1>2
<1> QED BY <1>3

(* What recompute inserts is a row per requirement of the pool it read.    *)
LEMMA NewRows ==
  ASSUME NEW t \in Tx
  PROVE  /\ \A q \in Requirements(seen[t].pool) :
              /\ \E c \in NewContribs(t) : c.occ = q.occ /\ c.ing = q.ing
              /\ \E n \in NewLines(t) : n.key = KeyOf(q) /\ n.week = req[t].week
         /\ {[occ |-> c.occ, ing |-> c.ing] : c \in NewContribs(t)} = Requirements(seen[t].pool)
<1> DEFINE contrib(q) == [line |-> <<t, KeyOf(q)>>, occ |-> q.occ, ing |-> q.ing]
           reqs == Requirements(seen[t].pool)
<1>1. NewContribs(t) = {contrib(q) : q \in reqs}
  BY DEF NewContribs, ContribRows
<1>2. \A q : contrib(q).occ = q.occ /\ contrib(q).ing = q.ing
  OBVIOUS
<1>3. ASSUME NEW q \in reqs
      PROVE  \E n \in NewLines(t) : n.key = KeyOf(q) /\ n.week = req[t].week
  <2>1. \E c \in NewContribs(t) : c = contrib(q)
    BY <1>1
  <2>2. PICK n \in NewLines(t) : n.id = contrib(q).line
    BY <2>1, NewLineRows
  <2>3. n.id = <<t, n.key>> /\ n.week = req[t].week
    BY NewLineRows
  <2> QED BY <2>2, <2>3
<1> HIDE DEF contrib, reqs
<1>4. {[occ |-> c.occ, ing |-> c.ing] : c \in NewContribs(t)} = reqs
  BY ContribPairs DEF NewContribs, reqs
<1> QED BY <1>1, <1>2, <1>3, <1>4 DEF reqs

(* What holds of t when its inserts pass the UNIQUE key and the trigger.   *)
LEMMA CommitFacts ==
  ASSUME Rows, PlanInvariant, NEW t \in Tx, RebuildAndCommit(t), ~Fail(t)
  PROVE  /\ pc[t] = "rebuild" /\ t \in Active /\ req[t].op \in PoolOp /\ req[t].week \in Week
         /\ End(t, "committed") /\ Goto(t, "committed")
         /\ weeks' = weeks \cup (IF work[t].newWeek THEN {req[t].week} ELSE {})
         /\ occs' = VisibleOccs(t) /\ lines' = VisibleLines(t) \cup NewLines(t)
         /\ contribs' = VisibleContribs(t) \cup NewContribs(t)
         /\ \A n \in NewLines(t), l \in VisibleLines(t) : ~(l.week = n.week /\ l.key = n.key)
         /\ \A c \in NewContribs(t) : \E o \in OwnPool(t) : o.id = c.occ /\ c.ing \in IngredientsOf[o.recipe]
         /\ \A o, p \in OwnPool(t) : o.id = p.id => o = p
         /\ Planned(t) /\ Consistent(t) /\ TypeOK
         /\ \A c \in contribs : c.line[1] # t
         /\ \A l \in lines : l.id[1] # t
<1>1. /\ pc[t] = "rebuild" /\ t \in Active /\ TypeOK /\ Consistent(t) /\ Planned(t)
      /\ End(t, "committed") /\ Goto(t, "committed")
      /\ weeks' = weeks \cup (IF work[t].newWeek THEN {req[t].week} ELSE {})
      /\ occs' = VisibleOccs(t) /\ lines' = VisibleLines(t) \cup NewLines(t)
      /\ contribs' = VisibleContribs(t) \cup NewContribs(t)
      /\ ~DuplicateKey(t) /\ ~MismatchedContribution(t)
  BY DEF RebuildAndCommit, At, Active, Rows, RowsInvariant, PlanInvariant, End
<1>2. req[t].op \in PoolOp
  BY <1>1 DEF TypeOK, Steps, Recompute, PoolOp, Reshape
<1>3. req[t].week \in Week
  BY <1>1, <1>2, WeekType DEF PoolOp, Reshape
<1>4. \A n \in NewLines(t), l \in VisibleLines(t) : ~(l.week = n.week /\ l.key = n.key)
  BY <1>1 DEF DuplicateKey
<1>5. \A c \in NewContribs(t) : \E o \in OwnPool(t) : o.id = c.occ /\ c.ing \in IngredientsOf[o.recipe]
  BY <1>1 DEF MismatchedContribution, OwnPool, InWeek
<1>6. \A o, p \in OwnPool(t) : o.id = p.id => o = p
  <2>1. \A o, p \in occs' : o.id = p.id => o = p
    BY CommitUniqueRows DEF Rows
  <2> QED BY <1>1, <2>1 DEF OwnPool, InWeek
<1>7. /\ \A c \in contribs : c.line[1] # t
      /\ \A l \in lines : l.id[1] # t
  BY <1>1, RowsDurable DEF Rows
<1> QED BY <1>1, <1>2, <1>3, <1>4, <1>5, <1>6, <1>7

LEMMA OneRequirement ==
  ASSUME NEW pool, NEW o \in pool, NEW i \in IngredientsOf[o.recipe]
  PROVE  [occ |-> o.id, ing |-> i] \in Requirements(pool)
BY DEF Requirements

(* If no contribution was refused, every occurrence recompute read is      *)
(* still there and still that recipe: each has some contribution.          *)
LEMMA PoolUnchanged ==
  ASSUME Rows, PlanInvariant, NEW t \in Tx, RebuildAndCommit(t), ~Fail(t), Shoppable,
         NEW s \in seen[t].pool
  PROVE  \E o \in OwnPool(t) : o.id = s.id /\ o.recipe = s.recipe
<1>0. TypeOK
  BY DEF Rows, RowsInvariant
<1>1. s.recipe \in Recipe
  BY <1>0, SeenWorkType DEF SeenRow, OccRow
<1>2. PICK i : i \in IngredientsOf[s.recipe]
  BY <1>1 DEF Shoppable
<1> DEFINE q == [occ |-> s.id, ing |-> i]
<1>3. q \in Requirements(seen[t].pool)
  BY <1>2, OneRequirement
<1>4. q.occ = s.id /\ q.ing = i
  OBVIOUS
<1> HIDE DEF q
<1>5. PICK o \in OwnPool(t) : o.id = s.id /\ i \in IngredientsOf[o.recipe]
  BY <1>3, <1>4, NewRows, CommitFacts
<1>6. o.recipe \in Recipe
  BY <1>0, VisibleType DEF OwnPool, InWeek, OccRow
<1>7. o.recipe = s.recipe
  BY <1>1, <1>2, <1>5, <1>6, CorpusAssumption
<1> QED BY <1>5, <1>7

LEMMA CommitPool ==
  ASSUME Rows, PlanInvariant, NEW t \in Tx, RebuildAndCommit(t), ~Fail(t)
  PROVE  Requirements(seen[t].pool) = Requirements(OwnPool(t))
<1>0. /\ PoolRead(t) /\ pc[t] = "rebuild"
      /\ \A o, p \in OwnPool(t) : o.id = p.id => o = p
  BY CommitFacts DEF Planned
<1>1. CASE seen[t].pool = OwnPool(t)
  BY <1>1
<1>2. CASE Shoppable /\ Ids(OwnPool(t)) \subseteq Ids(seen[t].pool)
  <2>1. \A s \in seen[t].pool : \E o \in OwnPool(t) : o.id = s.id /\ o.recipe = s.recipe
    BY <1>2, PoolUnchanged
  <2>2. \A o \in OwnPool(t) : \E s \in seen[t].pool : o.id = s.id
    BY <1>2 DEF Ids
  <2>3. \A o \in OwnPool(t) : \E s \in seen[t].pool : o.id = s.id /\ o.recipe = s.recipe
    BY <1>0, <2>1, <2>2
  <2> QED BY <2>1, <2>3 DEF Requirements
<1> QED BY <1>0, <1>1, <1>2 DEF PoolRead

(* And if no key was taken, no newer line was there to keep it: the        *)
(* occurrence t did not change has a line in the newer list too.           *)
LEMMA CommitPurge ==
  ASSUME Rows, PlanInvariant, NEW t \in Tx, RebuildAndCommit(t), ~Fail(t),
         NEW l \in Generated(lines, req[t].week)
  PROVE  l.id \in work[t].lineDel
<1> SUFFICES ASSUME l.id \notin work[t].lineDel
             PROVE  FALSE
  OBVIOUS
<1>0. /\ LinesRead(t) /\ pc[t] = "rebuild" /\ TypeOK /\ Consistent(t) /\ req[t].week \in Week
      /\ \A n \in NewLines(t), m \in VisibleLines(t) : ~(m.week = n.week /\ m.key = n.key)
      /\ ListsMatch /\ OneWriter /\ RecipeInvariant /\ SameWeek /\ RowIdentity
  BY CommitFacts DEF Planned, PlanInvariant, Rows, RowsInvariant
<1>1. PICK s \in seen[t].pool : req[t].op \in Reshape /\ Shoppable /\ s.id \notin Held(t)
  BY <1>0 DEF LinesRead
<1>2. PICK o \in OwnPool(t) : o.id = s.id /\ o.recipe = s.recipe
  BY <1>1, PoolUnchanged
<1>3. o \in occs /\ o.week = req[t].week
  <2>1. o \in VisibleOccs(t) /\ o.week = req[t].week
    BY DEF OwnPool, InWeek
  <2>2. work[t].occIns = {}
    BY <1>0, <1>1 DEF Consistent, OwnWork, Reshape
  <2> QED BY <1>0, <1>1, <1>2, <2>1, <2>2, CommittedOccs DEF Rows
<1>4. s.recipe \in Recipe
  BY <1>0, SeenWorkType DEF SeenRow, OccRow
<1>5. PICK i : i \in IngredientsOf[s.recipe]
  BY <1>1, <1>4 DEF Shoppable
<1> DEFINE q == [occ |-> s.id, ing |-> i]
<1>6. q.occ = s.id /\ q.ing = i
  OBVIOUS
<1>7. q \in Requirements(seen[t].pool)
  BY <1>1, <1>5, OneRequirement
<1>8. q \in Requirements(InWeek(occs, req[t].week))
  <2>1. o \in InWeek(occs, req[t].week)
    BY <1>3 DEF InWeek
  <2>2. [occ |-> o.id, ing |-> i] \in Requirements(InWeek(occs, req[t].week))
    BY <1>2, <1>5, <2>1, OneRequirement
  <2> QED BY <1>2, <2>2
<1>9. q \in Listed(req[t].week)
  BY <1>0, <1>8 DEF ListsMatch
<1>10. PICK c \in contribs : c.line \in Ids(InWeek(lines, req[t].week)) /\ c.occ = q.occ /\ c.ing = q.ing
  BY <1>9 DEF Listed
<1> HIDE DEF q
<1>11. PICK m \in lines : m.id = c.line /\ m.week = req[t].week
  BY <1>10 DEF Ids, InWeek
<1>12. m.origin = "generated"
  BY <1>0, <1>2, <1>3, <1>6, <1>10, <1>11 DEF SameWeek
<1>13. OneRequest(m, l) /\ l \in lines
  BY <1>0, <1>11, <1>12 DEF OneWriter, OneRequest, Generated, InWeek
<1>14. m \in VisibleLines(t)
  BY <1>0, <1>11, <1>13 DEF RecipeInvariant, WholeTargets, VisibleLines
<1>15. m.key = KeyOf(q)
  <2>1. m.key = KeyOf(c)
    BY <1>0, <1>11 DEF RowIdentity
  <2> QED BY <1>10, <2>1 DEF KeyOf
<1> QED BY <1>0, <1>7, <1>11, <1>14, <1>15, NewRows

(* The week's list is the one t has computed, the others' stay.            *)
LEMMA CommitLists ==
  ASSUME Rows, PlanInvariant, NEW t \in Tx, RebuildAndCommit(t), ~Fail(t)
  PROVE  /\ OneWriter' /\ ListsMatch' /\ \A o \in occs' : o.week \in weeks'
         /\ weeks \subseteq weeks' /\ req[t].week \in weeks'
         /\ weeks' \subseteq weeks \cup {req[t].week}
<1>wk. PICK wk \in Week : wk = req[t].week
  BY CommitFacts
<1>0. /\ pc[t] = "rebuild" /\ Planned(t) /\ Consistent(t) /\ TypeOK /\ req[t].op \in PoolOp
      /\ weeks' = weeks \cup (IF work[t].newWeek THEN {req[t].week} ELSE {})
      /\ occs' = VisibleOccs(t) /\ lines' = VisibleLines(t) \cup NewLines(t)
      /\ contribs' = VisibleContribs(t) \cup NewContribs(t)
      /\ \A c \in contribs : c.line[1] # t
      /\ \A l \in lines : l.id[1] # t
  BY CommitFacts
<1>1. /\ SameWeek /\ RowIdentity /\ LinesExplained /\ WeekInvariant /\ OwnWeek(t)
      /\ OneWriter /\ ListsMatch /\ \A o \in occs : o.week \in weeks
  BY DEF Rows, RowsInvariant, WeekInvariant, PlanInvariant
<1>2. weeks \subseteq weeks' /\ wk \in weeks' /\ weeks' \subseteq weeks \cup {wk}
  BY <1>0, <1>wk DEF Planned, HasWeek
<1>3. \A o \in occs' : o.week \in weeks'
  BY <1>0, <1>1, <1>2, <1>wk DEF VisibleOccs, OwnWeek, Consistent, OwnWork
<1>4. \A w : w # wk => InWeek(occs', w) = InWeek(occs, w) /\ InWeek(lines', w) = InWeek(lines, w)
  BY <1>wk, RebuildElsewhere DEF Rows
<1>5. \A l \in VisibleLines(t) : l.origin = "generated" => l.week # wk
  <2>1. \A l \in Generated(lines, wk) : l.id \in work[t].lineDel
    BY <1>wk, CommitPurge
  <2> QED BY <2>1 DEF VisibleLines, Generated, InWeek
<1>6. \A n \in NewLines(t) : n.week = wk /\ n.id[1] = t
  BY <1>wk, NewLineRows
<1>7. OneWriter'
  BY <1>0, <1>1, <1>5, <1>6 DEF OneWriter, VisibleLines
<1>8. Listed(wk)' = Requirements(InWeek(occs', wk))
  <2>1. \A c \in NewContribs(t) : c.line \in Ids(InWeek(lines', wk))
    BY <1>0, <1>6, NewLineRows DEF Ids, InWeek
  <2>2. ASSUME NEW c \in VisibleContribs(t), c.line \in Ids(InWeek(lines', wk))
        PROVE  FALSE
    <3>1. PICK l \in lines' : l.id = c.line /\ l.week = wk
      BY <2>2 DEF Ids, InWeek
    <3>2. c \in contribs /\ c.line[1] # t
      BY <1>0 DEF VisibleContribs
    <3>3. l \in VisibleLines(t) /\ l \in lines
      BY <1>0, <1>6, <3>1, <3>2 DEF VisibleLines
    <3>4. l.origin = "generated"
      BY <1>1, <3>1, <3>2, <3>3 DEF SameWeek, LinesExplained, Ids
    <3> QED BY <1>5, <3>1, <3>3, <3>4
  <2>3. {d \in contribs' : d.line \in Ids(InWeek(lines', wk))} = NewContribs(t)
    BY <1>0, <2>1, <2>2
  <2>4. Listed(wk)' = {[occ |-> c.occ, ing |-> c.ing] : c \in NewContribs(t)}
    BY <2>3 DEF Listed
  <2>5. Requirements(seen[t].pool) = Requirements(OwnPool(t)) /\ OwnPool(t) = InWeek(occs', wk)
    BY <1>0, <1>wk, CommitPool DEF OwnPool
  <2> QED BY <2>4, <2>5, NewRows
<1>9. ASSUME NEW w \in Week, w # wk
      PROVE  Listed(w)' = Requirements(InWeek(occs', w))
  <2> DEFINE ids == Ids(InWeek(lines, w))
  <2>1. \A c \in NewContribs(t) : c.line \notin ids
    BY <1>0, NewLineRows DEF Ids, InWeek
  <2>2. ASSUME NEW c \in contribs, c.line \in ids
        PROVE  c \in VisibleContribs(t)
    <3>1. PICK l \in lines : l.id = c.line /\ l.week = w
      BY <2>2 DEF Ids, InWeek
    <3>2. c.line \notin work[t].lineDel
      BY <1>1, <1>9, <1>wk, <3>1 DEF OwnWeek
    <3> QED BY <1>0, <3>2 DEF Consistent, Cascades, VisibleContribs
  <2>3. VisibleContribs(t) \subseteq contribs
    BY DEF VisibleContribs
  <2>4. {d \in contribs' : d.line \in ids} = {d \in contribs : d.line \in ids}
    BY <1>0, <2>1, <2>2, <2>3
  <2>5. Ids(InWeek(lines', w)) = ids
    BY <1>4, <1>9
  <2>6. Listed(w)' = Listed(w)
    BY <2>4, <2>5 DEF Listed
  <2> QED BY <1>1, <1>4, <1>9, <2>6 DEF ListsMatch
<1>10. ListsMatch'
  BY <1>8, <1>9 DEF ListsMatch
<1> QED BY <1>2, <1>3, <1>7, <1>10, <1>wk

(* Two Generates, or two Adds, of a week are not both past their inserts.  *)
LEMMA Exclusive ==
  ASSUME Rows, PlanInvariant, NEW t \in Tx, NEW u \in Tx, t # u, req[t].week = req[u].week,
         \/ req[t].op = "generate" /\ req[u].op = "generate"
         \/ req[t].op = "add" /\ req[u].op = "add",
         pc[t] \in Recompute, pc[u] \in Recompute
  PROVE  FALSE
<1>0. TypeOK /\ Apart(t, u) /\ Planned(t) /\ Planned(u)
  BY DEF Rows, RowsInvariant, PlanInvariant
<1>1. work[t].occIns = NewOccs(t) /\ work[u].occIns = NewOccs(u)
  BY <1>0 DEF Planned, Inserts
<1>2. ASSUME NEW m \in NewOccs(t), NEW n \in NewOccs(u), m.position = n.position
      PROVE  FALSE
  BY <1>0, <1>1, <1>2, NewOccsRows DEF Apart, SamePlace
<1>3. CASE req[t].op = "generate" /\ req[u].op = "generate"
  BY <1>0, <1>2, <1>3, FirstPosition
<1>4. CASE req[t].op = "add" /\ req[u].op = "add"
  <2>1. seen[t].position = seen[u].position
    <3>1. pc[u] # "insert" /\ Appends(t) /\ Appends(u)
      BY <1>0 DEF Recompute, Planned
    <3> QED BY <1>0, <1>4, <3>1, SamePosition
  <2> QED BY <1>2, <1>4, <2>1, AddedPosition
<1> QED BY <1>3, <1>4

(* What an open transaction u has read stays true of the pool at the       *)
(* COMMIT of t, or says that u will fail.                                  *)
LEMMA CommitGenerate ==
  ASSUME Rows, PlanInvariant, NEW t \in Tx, RebuildAndCommit(t), ~Fail(t), NEW u \in Tx, u # t,
         req[t].week = req[u].week, req[t].op = "generate", req[u].op = "generate"
  PROVE  Planned(u)'
<1>0. /\ pc[t] = "rebuild" /\ Planned(t) /\ Planned(u) /\ TypeOK /\ Goto(t, "committed")
      /\ occs' = VisibleOccs(t) /\ Snapshots(u) /\ End(t, "committed")
  BY CommitFacts DEF PlanInvariant, Rows, RowsInvariant, Consistent
<1>1. pc'[u] = pc[u] /\ req'[u] = req[u] /\ seen'[u] = seen[u] /\ work'[u] = work[u]
  BY <1>0, Ended
<1>2. pc[u] \notin Recompute
  BY <1>0, Exclusive DEF Recompute
<1>3. HasWeek(u)'
  BY <1>0, <1>1, CommitLists DEF Planned, HasWeek
<1>4. PICK n \in occs' : n.position = 0 /\ n.week = req[t].week /\ n.id[1] = t
  <2>1. PICK n \in NewOccs(t) : n.position = 0
    BY <1>0, FirstPosition
  <2>2. n.week = req[t].week /\ n.id = <<t, n.position>>
    BY NewOccsRows
  <2>3. n \in occs'
    BY <1>0 DEF Planned, Inserts, Recompute, VisibleOccs
  <2> QED BY <2>1, <2>2, <2>3
<1>5. \A id \in seen[u].occTargets \cup work[u].occDel : id[1] # t
  BY <1>0, RowTypes, DurableStable DEF Snapshots
<1>6. n \in WeekPool(u)' /\ n.id \notin seen'[u].occTargets \cup work'[u].occDel
  BY <1>1, <1>4, <1>5 DEF WeekPool, InWeek
<1>7. Replaces(u)'
  BY <1>1, <1>2, <1>4, <1>6 DEF Replaces
<1> QED
  BY <1>1, <1>2, <1>3, <1>7 DEF Planned, Inserts, Appends, Holds, PoolRead, LinesRead, Recompute, Reshape

LEMMA CommitAdd ==
  ASSUME Rows, PlanInvariant, NEW t \in Tx, RebuildAndCommit(t), ~Fail(t), NEW u \in Tx, u # t,
         req[t].week = req[u].week, req[t].op = "add", req[u].op = "add"
  PROVE  Planned(u)'
<1>0. /\ pc[t] = "rebuild" /\ Planned(t) /\ Planned(u) /\ TypeOK /\ Consistent(t)
      /\ occs' = VisibleOccs(t) /\ End(t, "committed")
  BY CommitFacts DEF PlanInvariant
<1>1. pc'[u] = pc[u] /\ req'[u] = req[u] /\ seen'[u] = seen[u] /\ work'[u] = work[u]
  BY <1>0, Ended
<1>2. pc[u] \notin Recompute
  BY <1>0, Exclusive DEF Recompute
<1>3. HasWeek(u)'
  BY <1>0, <1>1, CommitLists DEF Planned, HasWeek
<1>4. occs \subseteq occs' /\ NewOccs(t) \subseteq occs'
  BY <1>0 DEF Planned, Inserts, Recompute, Consistent, OwnWork, VisibleOccs, Ids
<1>5. ASSUME pc[u] = "insert"
      PROVE  \E o \in WeekPool(u)' : o.position = seen[u].position
  <2>1. CASE seen[u].position \in {o.position : o \in WeekPool(u)}
    BY <1>1, <1>4, <2>1 DEF WeekPool, InWeek
  <2>2. CASE seen[u].position \notin {o.position : o \in WeekPool(u)}
    <3>1. pc[t] \in Recompute /\ Appends(t) /\ Appends(u)
      BY <1>0 DEF Planned, Recompute
    <3>2. seen[t].position = seen[u].position
      BY <1>0, <1>5, <2>2, <3>1, SamePosition
    <3>3. PICK n \in NewOccs(t) : n.position = seen[t].position
      BY AddedPosition
    <3>4. n.week = req[t].week
      BY NewOccsRows
    <3> QED BY <1>1, <1>4, <3>2, <3>3, <3>4 DEF WeekPool, InWeek
  <2> QED BY <2>1, <2>2
<1>6. Appends(u)'
  BY <1>1, <1>2, <1>5 DEF Appends
<1> QED
  BY <1>1, <1>2, <1>3, <1>6 DEF Planned, Inserts, Replaces, Holds, PoolRead, LinesRead, Recompute, Reshape

LEMMA CommitReshape ==
  ASSUME Rows, PlanInvariant, NEW t \in Tx, RebuildAndCommit(t), ~Fail(t), NEW u \in Tx, u # t,
         req[t].week = req[u].week, req[t].op \in Reshape, req[u].op \in Reshape, Shoppable
  PROVE  Planned(u)'
<1>0. /\ pc[t] = "rebuild" /\ Planned(t) /\ Planned(u) /\ TypeOK /\ Consistent(t) /\ Consistent(u)
      /\ occs' = VisibleOccs(t) /\ End(t, "committed") /\ Apart(t, u)
  BY CommitFacts DEF PlanInvariant, Rows, RowsInvariant
<1>1. pc'[u] = pc[u] /\ req'[u] = req[u] /\ seen'[u] = seen[u] /\ work'[u] = work[u]
  BY <1>0, Ended
<1>2. HasWeek(u)'
  BY <1>0, <1>1, CommitLists DEF Planned, HasWeek
<1>3. Held(u)' = Held(u) /\ Held(t) \cap Held(u) = {}
  BY <1>0, <1>1 DEF Held, Apart
<1>4. work[t].occIns = {} /\ work[u].occIns = {}
  BY <1>0 DEF Consistent, OwnWork, Reshape
<1>5. Holds(u)'
  <2> SUFFICES ASSUME pc[u] \in {"cascade"} \cup Recompute
               PROVE  \E o \in WeekPool(u)' : Held(u) = {o.id}
    BY <1>1, <1>3 DEF Holds
  <2>1. PICK o \in WeekPool(u) : Held(u) = {o.id}
    BY <1>0 DEF Planned, Holds
  <2>2. o \in VisibleOccs(t)
    BY <1>3, <2>1 DEF WeekPool, InWeek, VisibleOccs, Held
  <2> QED BY <1>0, <1>1, <2>1, <2>2 DEF WeekPool, InWeek
<1>6. ASSUME NEW x \in OwnPool(u)'
      PROVE  \E y \in OwnPool(u) : y.id = x.id
  <2>1. /\ x.week = req[u].week
        /\ \/ x \in work[u].occUpd
           \/ x \in VisibleOccs(t) /\ x.id \notin Held(u)
    BY <1>0, <1>1, <1>4 DEF OwnPool, InWeek, VisibleOccs, Held
  <2>2. CASE x \in work[u].occUpd
    BY <2>1, <2>2 DEF OwnPool, InWeek, VisibleOccs
  <2>3. CASE x \in VisibleOccs(t) /\ x.id \notin Held(u)
    <3>1. PICK y \in occs : y.id = x.id /\ y.week = x.week
      BY <1>0, <1>4, <2>3, CommittedOccs DEF Rows, SamePlace
    <3>2. y \in OwnPool(u)
      BY <2>1, <2>3, <3>1 DEF OwnPool, InWeek, VisibleOccs, Held
    <3> QED BY <3>1, <3>2
  <2> QED BY <2>1, <2>2, <2>3
<1>7. PoolRead(u)'
  BY <1>0, <1>1, <1>6 DEF Planned, PoolRead, Ids
<1>8. LinesRead(u)'
  <2> SUFFICES ASSUME pc[u] \in {"purging", "uncontribute", "rebuild"}
               PROVE  \E s \in seen[u].pool : s.id \notin Held(u)
    BY <1>1, <1>3 DEF LinesRead
  <2>1. PICK o \in WeekPool(t) : Held(t) = {o.id}
    BY <1>0 DEF Planned, Holds, Recompute
  <2>2. o \in OwnPool(u)
    BY <1>3, <2>1 DEF WeekPool, OwnPool, InWeek, VisibleOccs, Held
  <2>3. \E s \in seen[u].pool : s.id = o.id
    BY <1>0, <2>2 DEF Planned, PoolRead, Ids
  <2> QED BY <1>3, <2>1, <2>3
<1> QED
  BY <1>1, <1>2, <1>5, <1>7, <1>8 DEF Planned, Inserts, Replaces, Appends, Reshape

LEMMA CommitElsewhere ==
  ASSUME Rows, PlanInvariant, NEW t \in Tx, RebuildAndCommit(t), ~Fail(t), NEW u \in Tx, u # t,
         req[t].week # req[u].week \/ req[u].op \notin PoolOp
  PROVE  Planned(u)'
<1>0. TypeOK /\ End(t, "committed") /\ Planned(u)
  BY CommitFacts DEF PlanInvariant
<1>1. pc'[u] = pc[u] /\ req'[u] = req[u] /\ seen'[u] = seen[u] /\ work'[u] = work[u]
  BY <1>0, Ended
<1>2. CASE req[u].op \notin PoolOp
  <2>1. pc[u] \notin Recompute \cup {"cascade", "insert"}
    BY <1>0, <1>2 DEF TypeOK, Steps, Recompute, PoolOp, Reshape
  <2>2. HasWeek(u)'
    BY <1>0, <1>1, <1>2 DEF Planned, HasWeek
  <2> QED
    BY <1>1, <1>2, <2>1, <2>2 DEF Planned, Inserts, Replaces, Appends, Holds, PoolRead, LinesRead,
       Recompute, PoolOp
<1>3. CASE req[t].week # req[u].week
  <2>1. /\ InWeek(occs', req[u].week) = InWeek(occs, req[u].week)
        /\ InWeek(lines', req[u].week) = InWeek(lines, req[u].week)
    BY <1>3, RebuildElsewhere DEF Rows
  <2>2. WeekPool(u)' = WeekPool(u)
    BY <1>1, <2>1 DEF WeekPool
  <2>3. OwnPool(u)' = OwnPool(u)
    <3>1. OwnPool(u) = {o \in InWeek(occs, req[u].week) : o.id \notin work[u].occDel \cup Ids(work[u].occUpd)}
                         \cup InWeek(work[u].occUpd \cup work[u].occIns, req[u].week)
      BY DEF OwnPool, VisibleOccs, InWeek
    <3>2. OwnPool(u)' = {o \in InWeek(occs', req[u].week) : o.id \notin work[u].occDel \cup Ids(work[u].occUpd)}
                         \cup InWeek(work[u].occUpd \cup work[u].occIns, req[u].week)
      BY <1>1 DEF OwnPool, VisibleOccs, InWeek
    <3> QED BY <2>1, <3>1, <3>2
  <2>4. {l.id : l \in Generated(lines, req[u].week)'} = {l.id : l \in Generated(lines, req[u].week)}
    BY <1>1, <2>1 DEF Generated
  <2>5. weeks \subseteq weeks'
    BY CommitLists
  <2> QED BY <1>0, <1>1, <2>2, <2>3, <2>4, <2>5, OtherPlanned
<1> QED BY <1>2, <1>3

LEMMA CommittedPlan ==
  ASSUME Rows, PlanInvariant, NEW t \in Tx, RebuildAndCommit(t), ~Fail(t)
  PROVE  PlanInvariant'
<1>0. TypeOK /\ t \in Active /\ req[t].op \in PoolOp /\ End(t, "committed")
  BY CommitFacts
<1>1. OneWriter' /\ ListsMatch' /\ \A o \in occs' : o.week \in weeks'
  BY CommitLists
<1>2. PairsSafe' /\ Planned(t)'
  BY <1>0, EndedPlan
<1>3. ASSUME NEW u \in Tx, u # t, req[t].week = req[u].week, req[u].op \in PoolOp
      PROVE  Planned(u)'
  <2>1. u \in Active
    BY <1>0, <1>3 DEF TypeOK, Steps, Recompute, PoolOp, Reshape, Active
  <2>2. SafePair(req[t].op, req[u].op)
    BY <1>0, <1>3, <2>1 DEF PlanInvariant, PairsSafe
  <2>3. \/ req[t].op = "generate" /\ req[u].op = "generate"
        \/ req[t].op = "add" /\ req[u].op = "add"
        \/ req[t].op \in Reshape /\ req[u].op \in Reshape /\ Shoppable
    BY <1>0, <1>3, <2>2 DEF SafePair
  <2> QED BY <1>3, <2>3, CommitGenerate, CommitAdd, CommitReshape
<1>4. \A u \in Tx : Planned(u)'
  BY <1>2, <1>3, CommitElsewhere
<1> QED BY <1>1, <1>2, <1>4 DEF PlanInvariant

-----------------------------------------------------------------------------
LEMMA InitPlan == Init => PlanInvariant
<1> SUFFICES ASSUME Init
             PROVE  PlanInvariant
  OBVIOUS
<1>0. TypeOK /\ RowsInvariant
  BY InitType, InitRows
<1>1. /\ \A t \in Tx : pc[t] = "idle" /\ req[t] = NoRequest /\ seen[t] = NothingSeen /\ work[t] = NoWork
      /\ lines = LineRows(0, 0, occs, {}) /\ contribs = ContribRows(0, occs)
  BY DEF Init
<1>2. PairsSafe
  BY <1>1 DEF PairsSafe, Active
<1>3. \A t \in Tx : Planned(t)
  BY <1>1 DEF Planned, HasWeek, Inserts, Replaces, Appends, Holds, PoolRead, LinesRead, NoRequest,
     NoWork, Recompute, PoolOp, Reshape
<1>4. PICK p \in Pools : weeks = (IF DOMAIN p = {} THEN {} ELSE {0}) /\ occs = OccRows(0, 0, p)
  BY DEF Init
<1>5. \A o \in occs : o.week = 0 /\ o.week \in weeks
  BY <1>4 DEF OccRows
<1>6. \A l \in lines : l.week = 0 /\ l.id[1] = 0
  BY <1>1 DEF LineRows
<1>7. OneWriter
  BY <1>6 DEF OneWriter
<1>8. ListsMatch
  <2>1. Listed(0) = Requirements(InWeek(occs, 0))
    <3>1. InWeek(occs, 0) = occs /\ InWeek(lines, 0) = lines
      BY <1>5, <1>6 DEF InWeek
    <3>2. {d \in contribs : d.line \in Ids(InWeek(lines, 0))} = contribs
      BY <1>0, <3>1 DEF RowsInvariant, LinesExplained
    <3>3. Listed(0) = {[occ |-> c.occ, ing |-> c.ing] : c \in contribs}
      BY <3>2 DEF Listed
    <3> QED BY <1>1, <3>1, <3>3, ContribPairs
  <2>2. ASSUME NEW w \in Week, w # 0
        PROVE  Listed(w) = Requirements(InWeek(occs, w))
    <3>1. InWeek(occs, w) = {} /\ InWeek(lines, w) = {}
      BY <1>5, <1>6, <2>2 DEF InWeek
    <3> QED BY <3>1 DEF Listed, Requirements, Ids
  <2> QED BY <2>1, <2>2 DEF ListsMatch
<1> QED BY <1>2, <1>3, <1>5, <1>7, <1>8 DEF PlanInvariant

LEMMA StatementsPlan ==
  ASSUME Rows, PlanInvariant, NEW t \in Tx, Statement(t), ~Fail(t)
  PROVE  PlanInvariant'
<1>1. CASE GetWeek(t) \/ CreateWeek(t)
  BY <1>1, WeekPlanned
<1>2. CASE DeleteWeekRecipes(t) \/ DeletedWeekRecipes(t)
  BY <1>2, ClearedPlan
<1>3. CASE CascadeOccurrence(t)
  BY <1>3, CascadedPlan
<1>4. CASE NextWeekRecipePosition(t)
  BY <1>4, PositionPlan
<1>5. CASE CreateWeekRecipes(t)
  BY <1>5, InsertedPlan
<1>6. CASE DeleteWeekRecipe(t) \/ UpdateWeekRecipe(t)
  BY <1>6, ReshapedPlan
<1>7. CASE Pick(t)
  BY <1>7, PickedPlan
<1>8. CASE \/ ReadStates(t) \/ ReadRequirements(t) \/ DeleteGeneratedLines(t)
           \/ DeletedGeneratedLines(t) \/ CascadeLines(t)
  BY <1>8, RecomputedPlan
<1>9. CASE RebuildAndCommit(t)
  BY <1>9, CommittedPlan
<1>10. CASE UpdateLine(t)
  BY <1>10, EditedPlan
<1>11. CASE CreateManualLine(t)
  BY <1>11, AddedPlan
<1> QED
  BY <1>1, <1>2, <1>3, <1>4, <1>5, <1>6, <1>7, <1>8, <1>9, <1>10, <1>11 DEF Statement

LEMMA NextPlan ==
  ASSUME SafeTogether, Rows, PlanInvariant, [Next]_vars
  PROVE  PlanInvariant'
<1>1. CASE Midnight \/ UNCHANGED vars
  <2>1. UNCHANGED <<weeks, occs, lines, contribs, pc, req, seen, work>>
    BY <1>1 DEF Midnight, vars, db
  <2>2. PairsSafe' /\ OneWriter' /\ ListsMatch' /\ \A o \in occs' : o.week \in weeks'
    BY <2>1 DEF PlanInvariant, PairsSafe, Active, OneWriter, ListsMatch, Listed
  <2>3. ASSUME NEW u \in Tx
        PROVE  Planned(u)'
    <3>1. WeekPool(u)' = WeekPool(u) /\ OwnPool(u)' = OwnPool(u)
      BY <2>1 DEF WeekPool, OwnPool, VisibleOccs
    <3>2. {l.id : l \in Generated(lines, req[u].week)'} = {l.id : l \in Generated(lines, req[u].week)}
      BY <2>1
    <3> QED BY <2>1, <3>1, <3>2, OtherPlanned DEF PlanInvariant
  <2> QED BY <2>2, <2>3 DEF PlanInvariant
<1>2. ASSUME NEW t \in Tx, Statement(t) \/ Request(t) \/ DeadlockVictim(t) \/ Cancel(t)
      PROVE  PlanInvariant'
  BY <1>2, FailedPlan, RequestedPlan, StatementsPlan DEF DeadlockVictim, Cancel
<1> QED BY <1>1, <1>2 DEF Next

(* When the requests that overlap are safe together, every snapshot an     *)
(* open request acts on is still true of the committed rows, or is bound   *)
(* to make it fail: PlanInvariant holds in every state.                    *)
THEOREM PlanInvariantHolds == SafeTogether => (Spec => []PlanInvariant)
<1> SUFFICES ASSUME SafeTogether
             PROVE  Spec => []PlanInvariant
  OBVIOUS
<1>1. Init => Rows /\ PlanInvariant
  BY InitRows, InitWeek, InitRecipes, InitPlan DEF Rows
<1>2. Rows /\ PlanInvariant /\ [Next]_vars => PlanInvariant'
  BY NextPlan
<1> QED BY <1>1, <1>2, RowsHold, PTL DEF Spec

(* And so no request can leave the grocery list different from the pool.   *)
THEOREM ListIsThePool == SafeTogether => (Spec => []ListMatchesPool)
<1>1. Rows /\ PlanInvariant => ListMatchesPool
  BY DEF Rows, RowsInvariant, TypeOK, PlanInvariant, ListsMatch, ListMatchesPool
<1> QED BY <1>1, RowsHold, PlanInvariantHolds, PTL

-----------------------------------------------------------------------------
(* The refinement: each COMMIT of recompute is one step of the plan.       *)

LEMMA WeeksUnion ==
  ASSUME NEW wks, NEW rows, \A o \in rows : o.week \in wks
  PROVE  UNION {Requirements(InWeek(rows, w)) : w \in wks} = Requirements(rows)
<1>1. \A q : (\E w \in wks : q \in Requirements(InWeek(rows, w))) <=> q \in Requirements(rows)
  BY DEF Requirements, InWeek
<1> QED BY <1>1

LEMMA CommittedPool ==
  ASSUME TypeOK, PlanInvariant
  PROVE  Committed = Requirements(occs)
<1>1. Committed = UNION {Requirements(InWeek(occs, w)) : w \in weeks}
  BY DEF Committed, TypeOK, PlanInvariant, ListsMatch
<1> QED BY <1>1, WeeksUnion DEF PlanInvariant

LEMMA CommittedPoolNext ==
  ASSUME TypeOK', PlanInvariant'
  PROVE  Committed' = Requirements(occs')
<1>1. Committed' = UNION {Requirements(InWeek(occs', w)) : w \in weeks'}
  BY DEF Committed, TypeOK, PlanInvariant, ListsMatch
<1>2. \A o \in occs' : o.week \in weeks'
  BY DEF PlanInvariant
<1> QED BY <1>1, <1>2, WeeksUnion

(* The pool of another week stays, and t's becomes what t sees.            *)
LEMMA GenerateRefines ==
  ASSUME Rows, PlanInvariant, NEW t \in Tx, RebuildAndCommit(t), ~Fail(t),
         req[t].op = "generate", Committed' = Requirements(occs')
  PROVE  Plan!Generate(req[t].week)
<1> DEFINE new == NewOccs(t)
<1>wk. PICK wk \in Week : wk = req[t].week
  BY CommitFacts
<1>0. /\ TypeOK /\ Planned(t) /\ Consistent(t) /\ pc[t] \in Recompute /\ occs' = VisibleOccs(t)
      /\ weeks' = weeks \cup (IF work[t].newWeek THEN {req[t].week} ELSE {})
      /\ Goto(t, "committed") /\ pc[t] # "committed"
  BY CommitFacts DEF Recompute
<1>1. work[t].occIns = new /\ work[t].occUpd = {}
  BY <1>0 DEF Planned, Inserts, Consistent, OwnWork
<1>2. \A o \in occs : o.week = wk <=> o.id \in work[t].occDel
  BY <1>0, <1>wk DEF Planned, Replaces, Recompute, WeekPool, InWeek, Consistent, Snapshots
<1>3. \A n \in new : n.week = wk /\ n.id = <<t, n.position>>
  BY <1>wk, NewOccsRows
<1>4. InWeek(occs', wk) = new /\ occs' = (occs \ InWeek(occs, wk)) \cup new
  BY <1>0, <1>1, <1>2, <1>3 DEF VisibleOccs, InWeek, Ids
<1>5. weeks' = weeks \cup {wk}
  BY <1>0, <1>wk DEF Planned, HasWeek, Recompute, PoolOp
<1>6. \A o \in occs : o.id[1] # t
  BY <1>0, RowsDurable DEF Rows
<1>7. {o.id : o \in new} \cap {o.id : o \in occs} = {}
  BY <1>3, <1>6
<1>8. new # {}
  BY <1>0, FirstPosition
<1>9. PICK n \in 1..Cardinality(Recipe) :
        /\ req[t].picks \in [0..(n - 1) -> Recipe]
        /\ \A i, j \in 0..(n - 1) : req[t].picks[i] = req[t].picks[j] => i = j
  <2>1. req[t].picks \in Shuffles
    BY <1>0, GeneratePicks
  <2> QED BY <2>1 DEF Shuffles
<1>10. new = OccRows(t, wk, req[t].picks)
  BY <1>wk DEF NewOccs
<1>11. \A o \in new : o.position \in 0..(n - 1) /\ o.recipe = req[t].picks[o.position]
  BY <1>9, <1>10 DEF OccRows
<1>12. \A o, p \in new : o # p => o.position # p.position
  BY <1>3, NewOccsRows DEF SamePlace
<1>13. \A o, p \in new : o # p => o.recipe # p.recipe
  BY <1>9, <1>11, <1>12
<1>14. \A o \in new : o.position = 0 \/ \E p \in new : p.position = o.position - 1
  <2> SUFFICES ASSUME NEW o \in new, o.position # 0
               PROVE  \E p \in new : p.position = o.position - 1
    OBVIOUS
  <2>1. Cardinality(Recipe) \in Nat
    BY BoundsAssumption, FS_CardinalityType
  <2>2. o.position - 1 \in DOMAIN req[t].picks
    BY <1>9, <1>11, <2>1
  <2> QED BY <1>10, <2>2, RowAt
<1> HIDE DEF new
<1>15. Committed' = Requirements((occs \ InWeek(occs, wk)) \cup InWeek(occs', wk))
  BY <1>4
<1> QED
  BY <1>wk, <1>4, <1>5, <1>7, <1>8, <1>12, <1>13, <1>14, <1>15
     DEF Plan!Generate, Plan!Replan, Plan!InWeek, Plan!Requirements, InWeek, Requirements

LEMMA AddRefines ==
  ASSUME Rows, PlanInvariant, NEW t \in Tx, RebuildAndCommit(t), ~Fail(t),
         req[t].op = "add", Committed' = Requirements(occs')
  PROVE  Plan!Add(req[t].week)
<1> DEFINE picks == [p \in {seen[t].position} |-> req[t].recipe]
<1>wk. PICK wk \in Week : wk = req[t].week
  BY CommitFacts
<1>0. /\ TypeOK /\ Planned(t) /\ Consistent(t) /\ pc[t] \in Recompute /\ pc[t] # "insert"
      /\ occs' = VisibleOccs(t) /\ Goto(t, "committed") /\ pc[t] # "committed"
      /\ weeks' = weeks \cup (IF work[t].newWeek THEN {req[t].week} ELSE {})
  BY CommitFacts DEF Recompute
<1>1. work[t].occIns = NewOccs(t) /\ work[t].occUpd = {} /\ work[t].occDel = {}
  BY <1>0 DEF Planned, Inserts, Consistent, OwnWork
<1>2. wk \in weeks /\ weeks' = weeks
  BY <1>0, <1>wk DEF Planned, HasWeek, PoolOp
<1>3. occs' = occs \cup NewOccs(t)
  BY <1>0, <1>1 DEF VisibleOccs, Ids
<1>4. PICK o \in NewOccs(t) : o.position = seen[t].position
  BY AddedPosition
<1>5. NewOccs(t) = {o}
  <2>1. NewOccs(t) = OccRows(t, req[t].week, picks) /\ DOMAIN picks = {seen[t].position}
    BY DEF NewOccs
  <2> HIDE DEF picks
  <2> QED BY <1>4, <2>1 DEF OccRows
<1>6. o.id = <<t, o.position>> /\ o.week = wk
  BY <1>wk, NewOccsRows
<1>7. \A p \in occs : p.id # o.id
  BY <1>0, <1>6, RowsDurable DEF Rows
<1>8. \A p \in occs : p.week = wk => p.position # o.position
  <2> DEFINE used == {p.position : p \in WeekPool(t)}
  <2>1. \A q \in used : q < seen[t].position
    BY <1>0 DEF Planned, Appends
  <2>2. \A p \in occs : p.week = wk => p.position \in used /\ p.position \in Nat
    BY <1>0, <1>wk DEF WeekPool, InWeek, TypeOK, OccRow
  <2>3. seen[t].position \in Nat
    BY <1>0, SeenWorkType DEF SeenRow
  <2> HIDE DEF used
  <2> QED BY <1>4, <2>1, <2>2, <2>3
<1>9. o \in InWeek(occs', wk)
  BY <1>3, <1>6 DEF InWeek
<1>10. occs' = occs \cup {o} /\ Committed' = Requirements(occs \cup {o})
  BY <1>3, <1>5
<1> QED
  BY <1>wk, <1>2, <1>7, <1>8, <1>9, <1>10
     DEF Plan!Add, Plan!Replan, Plan!InWeek, Plan!Requirements, InWeek, Requirements

LEMMA RemoveRefines ==
  ASSUME Rows, PlanInvariant, NEW t \in Tx, RebuildAndCommit(t), ~Fail(t),
         req[t].op = "remove", Committed' = Requirements(occs')
  PROVE  Plan!Remove(req[t].week)
<1>wk. PICK wk \in Week : wk = req[t].week
  BY CommitFacts
<1>0. /\ TypeOK /\ Planned(t) /\ Consistent(t) /\ RowIdentity /\ pc[t] \in Recompute
      /\ occs' = VisibleOccs(t)
      /\ weeks' = weeks \cup (IF work[t].newWeek THEN {req[t].week} ELSE {})
  BY CommitFacts DEF Recompute, Rows, RowsInvariant
<1>1. work[t].occIns = {} /\ work[t].occUpd = {}
  BY <1>0 DEF Consistent, OwnWork
<1>2. wk \in weeks /\ weeks' = weeks
  BY <1>0, <1>wk DEF Planned, HasWeek, PoolOp, Reshape
<1>3. PICK o \in WeekPool(t) : Held(t) = {o.id}
  BY <1>0 DEF Planned, Holds, Reshape
<1>4. o \in InWeek(occs, wk) /\ o \in occs /\ work[t].occDel = {o.id}
  BY <1>1, <1>3, <1>wk DEF WeekPool, InWeek, Held, Ids
<1>5. occs' = occs \ {o}
  BY <1>0, <1>1, <1>4 DEF VisibleOccs, RowIdentity, Ids
<1> QED
  BY <1>wk, <1>2, <1>4, <1>5
     DEF Plan!Remove, Plan!Replan, Plan!InWeek, Plan!Requirements, InWeek, Requirements

LEMMA SwapRefines ==
  ASSUME Rows, PlanInvariant, NEW t \in Tx, RebuildAndCommit(t), ~Fail(t),
         req[t].op \in {"swap", "randomSwap"}, Committed' = Requirements(occs')
  PROVE  Plan!Swap(req[t].week)
<1>wk. PICK wk \in Week : wk = req[t].week
  BY CommitFacts
<1>0. /\ TypeOK /\ Planned(t) /\ Consistent(t) /\ RowIdentity /\ pc[t] \in Recompute
      /\ occs' = VisibleOccs(t) /\ work[t] \in WorkRow
      /\ weeks' = weeks \cup (IF work[t].newWeek THEN {req[t].week} ELSE {})
  BY CommitFacts, SeenWorkType DEF Recompute, Rows, RowsInvariant
<1>1. work[t].occIns = {} /\ work[t].occDel = {}
  BY <1>0 DEF Consistent, OwnWork
<1>2. wk \in weeks /\ weeks' = weeks
  BY <1>0, <1>wk DEF Planned, HasWeek, PoolOp, Reshape
<1>3. PICK o \in WeekPool(t) : Held(t) = {o.id}
  BY <1>0 DEF Planned, Holds, Reshape
<1>4. o \in InWeek(occs, wk) /\ o \in occs /\ Ids(work[t].occUpd) = {o.id}
  BY <1>1, <1>3, <1>wk DEF WeekPool, InWeek, Held
<1>5. PICK x \in work[t].occUpd : x.id = o.id
  BY <1>4 DEF Ids
<1>6. work[t].occUpd = {x}
  BY <1>0 DEF Consistent, Places
<1>7. SamePlace(o, x)
  BY <1>0, <1>4, <1>5 DEF Consistent, Places, RowIdentity
<1>8. x \in OccRow /\ o \in OccRow
  BY <1>0, <1>4 DEF WorkRow, TypeOK
<1>9. x = [o EXCEPT !.recipe = x.recipe] /\ x.recipe \in Recipe
  BY <1>5, <1>7, <1>8 DEF OccRow, SamePlace
<1>10. occs' = (occs \ {o}) \cup {x}
  BY <1>0, <1>1, <1>4, <1>6 DEF VisibleOccs, RowIdentity
<1>11. occs' = (occs \ {o}) \cup {[o EXCEPT !.recipe = x.recipe]}
  BY <1>9, <1>10
<1> QED
  BY <1>wk, <1>2, <1>4, <1>9, <1>11
     DEF Plan!Swap, Plan!Replan, Plan!InWeek, Plan!Requirements, InWeek, Requirements

LEMMA InitRefines == Init => Plan!Init
<1> SUFFICES ASSUME Init
             PROVE  Plan!Init
  OBVIOUS
<1>1. Committed = Requirements(occs)
  BY InitType, InitPlan, CommittedPool
<1>2. PICK p \in Pools : weeks = (IF DOMAIN p = {} THEN {} ELSE {0}) /\ occs = OccRows(0, 0, p)
  BY DEF Init
<1>3. occs = {} <=> DOMAIN p = {}
  BY <1>2 DEF OccRows
<1>4. \A o \in occs : o.week = 0
  BY <1>2 DEF OccRows
<1> QED BY <1>1, <1>2, <1>3, <1>4 DEF Plan!Init, Plan!Requirements, Requirements

LEMMA StepRefines ==
  ASSUME Rows, PlanInvariant, [Next]_vars, TypeOK', PlanInvariant'
  PROVE  [Plan!Next]_Plan!vars
<1>0. Committed = Requirements(occs) /\ Committed' = Requirements(occs')
  BY CommittedPool, CommittedPoolNext DEF Rows, RowsInvariant
<1>1. CASE UNCHANGED <<weeks, occs>>
  BY <1>0, <1>1 DEF Plan!vars
<1>2. ASSUME NEW t \in Tx, RebuildAndCommit(t), ~Fail(t)
      PROVE  Plan!Next
  <2>1. req[t].op \in PoolOp /\ req[t].week \in Week
    BY <1>2, CommitFacts
  <2>2. \/ Plan!Generate(req[t].week) \/ Plan!Add(req[t].week)
        \/ Plan!Remove(req[t].week) \/ Plan!Swap(req[t].week)
    BY <1>0, <1>2, <2>1, GenerateRefines, AddRefines, RemoveRefines, SwapRefines DEF PoolOp, Reshape
  <2> QED BY <2>1, <2>2 DEF Plan!Next
<1>3. \/ UNCHANGED <<weeks, occs>>
      \/ \E t \in Tx : RebuildAndCommit(t) /\ ~Fail(t)
  BY DEF Next, vars, db, Midnight, Request, Begin, Generate, Add, Remove, Swap, RandomSwap,
     SetLine, AddManualLine, DeadlockVictim, Cancel, Fail, Statement, GetWeek, CreateWeek,
     DeleteWeekRecipes, DeletedWeekRecipes, CascadeOccurrence, NextWeekRecipePosition,
     CreateWeekRecipes, DeleteWeekRecipe, Pick, UpdateWeekRecipe, ReadStates, ReadRequirements,
     DeleteGeneratedLines, DeletedGeneratedLines, CascadeLines, UpdateLine, CreateManualLine
<1> QED BY <1>1, <1>2, <1>3

(* The week service keeps its promise: when only requests overlap that are *)
(* safe together, every transaction behaves as one indivisible step of     *)
(* WeekPlan on what was committed before it.                               *)
THEOREM PlanIsKept == SafeTogether => (Spec => RefinesPlan)
<1> SUFFICES ASSUME SafeTogether
             PROVE  Spec => RefinesPlan
  OBVIOUS
<1>1. Init => Plan!Init
  BY InitRefines
<1>2. Rows /\ PlanInvariant /\ [Next]_vars /\ Rows' /\ PlanInvariant' => [Plan!Next]_Plan!vars
  BY StepRefines DEF Rows, RowsInvariant
<1>3. Spec => []PlanInvariant
  BY PlanInvariantHolds
<1> QED BY <1>1, <1>2, <1>3, RowsHold, PTL DEF Spec, RefinesPlan, Plan!Spec

-----------------------------------------------------------------------------
(* Shopping state.                                                         *)

LEMMA BeginStates ==
  ASSUME TicksApart, TypeOK, StatesInvariant, NEW t \in Tx, NEW r, NEW label, Begin(t, r, label),
         label \notin Recompute
  PROVE  StatesInvariant'
<1>0. /\ \A u \in Tx \ {t} : pc'[u] = pc[u] /\ req'[u] = req[u]
      /\ req'[t] = r /\ pc'[t] = label /\ UNCHANGED <<lines, seen>>
  BY DEF Begin, Goto, TypeOK, db
<1>1. \A u \in Active' : u = t \/ u \in Active
  BY <1>0 DEF Active
<1>2. ASSUME NEW u \in Active
      PROVE  /\ InFlight > 1
             /\ ~(r.op = "setLine" /\ req[u].op \in {"generate", "add"})
             /\ ~(req[u].op = "setLine" /\ r.op \in {"generate", "add"})
  <2>1. InFlight > 1
    <3>1. Cardinality(Active) < InFlight /\ Cardinality(Active) \in Nat /\ InFlight \in Nat
      BY ActiveFinite, FS_CardinalityType, BoundsAssumption DEF Begin
    <3>2. Cardinality(Active) # 0
      BY <1>2, ActiveFinite, FS_EmptySet
    <3> QED BY <3>1, <3>2
  <2>2. PICK m \in Mixes : r.op \in m /\ req[u].op \in m
    BY DEF Begin, Together
  <2>3. "setLine" \in m => m \cap {"generate", "add"} = {}
    BY <2>1, BoundsAssumption DEF TicksApart
  <2> QED BY <2>1, <2>2, <2>3
<1>3. ASSUME NEW u \in Active', NEW v \in Active', u # v
      PROVE  InFlight > 1 /\ (req'[u].op = "setLine" => req'[v].op \notin {"generate", "add"})
  <2>1. CASE u = t
    BY <1>0, <1>1, <1>2, <1>3, <2>1 DEF Active
  <2>2. CASE v = t
    BY <1>0, <1>1, <1>2, <1>3, <2>2 DEF Active
  <2>3. CASE u # t /\ v # t
    BY <1>0, <1>1, <1>3, <2>3 DEF StatesInvariant, Active
  <2> QED BY <2>1, <2>2, <2>3
<1>4. \A u \in Tx : MarksRead(u)'
  BY <1>0 DEF StatesInvariant, MarksRead
<1> QED BY <1>3, <1>4 DEF StatesInvariant

(* Nobody becomes active but at Begin, and no line is changed but at a     *)
(* COMMIT.                                                                 *)
LEMMA QuietStates ==
  ASSUME TypeOK, StatesInvariant, NEW t \in Tx, NEW label, Goto(t, label), Others(t),
         lines' = lines, t \in Active' => t \in Active /\ req'[t] = req[t],
         label \in Recompute \ {"states"} =>
           \/ pc[t] = "states" /\ seen'[t].marks =
                {[key |-> l.key, marks |-> l.marks] : l \in Generated(lines, req[t].week)}
           \/ pc[t] \in Recompute \ {"states"} /\ seen'[t].marks = seen[t].marks
  PROVE  StatesInvariant'
<1>0. pc'[t] = label /\ \A u \in Tx \ {t} : pc'[u] = pc[u] /\ req'[u] = req[u] /\ seen'[u] = seen[u]
  BY DEF Goto, TypeOK, Others
<1>1. \A u \in Active' : u \in Active /\ req'[u] = req[u]
  BY <1>0 DEF Active
<1>2. \A u, v \in Active' : u # v =>
        InFlight > 1 /\ (req'[u].op = "setLine" => req'[v].op \notin {"generate", "add"})
  BY <1>1 DEF StatesInvariant
<1>3. ASSUME NEW u \in Tx, u # t
      PROVE  MarksRead(u)'
  BY <1>0, <1>3 DEF StatesInvariant, MarksRead
<1>4. MarksRead(t)'
  <2> SUFFICES ASSUME pc'[t] \in Recompute \ {"states"}, req[t].op \in {"generate", "add"} \/ InFlight <= 1
               PROVE  seen'[t].marks =
                        {[key |-> l.key, marks |-> l.marks] : l \in Generated(lines, req[t].week)}
    BY <1>0, <1>1 DEF MarksRead, Active, Recompute
  <2> QED BY <1>0 DEF StatesInvariant, MarksRead
<1> QED BY <1>2, <1>3, <1>4 DEF StatesInvariant

LEMMA StatementStates ==
  ASSUME Rows, StatesInvariant, NEW t \in Tx, Statement(t), ~Fail(t),
         ~RebuildAndCommit(t), ~UpdateLine(t), ~CreateManualLine(t)
  PROVE  StatesInvariant'
<1>0. TypeOK /\ t \in Active /\ seen[t] \in SeenRow
  BY SeenWorkType DEF Rows, RowsInvariant, Statement, Active, At, GetWeek, CreateWeek,
     DeleteWeekRecipes, DeletedWeekRecipes, CascadeOccurrence, NextWeekRecipePosition,
     CreateWeekRecipes, DeleteWeekRecipe, Pick, UpdateWeekRecipe, ReadStates, ReadRequirements,
     DeleteGeneratedLines, DeletedGeneratedLines, CascadeLines
<1>1. Private(t) /\ Others(t)
  BY <1>0, StatementPrivate
<1>2. req' = req /\ lines' = lines
  BY <1>1 DEF Private, Statement, GetWeek, CreateWeek,
     DeleteWeekRecipes, DeletedWeekRecipes, CascadeOccurrence, NextWeekRecipePosition,
     CreateWeekRecipes, DeleteWeekRecipe, Pick, UpdateWeekRecipe, ReadStates, ReadRequirements,
     DeleteGeneratedLines, DeletedGeneratedLines, CascadeLines
<1>3. CASE ReadStates(t)
  <2>1. Goto(t, "requirements") /\ pc[t] = "states"
    BY <1>3 DEF ReadStates, At
  <2>2. seen'[t].marks = {[key |-> l.key, marks |-> l.marks] : l \in Generated(lines, req[t].week)}
    BY <1>0, <1>3 DEF ReadStates, TypeOK, SeenRow
  <2> QED BY <1>0, <1>1, <1>2, <2>1, <2>2, QuietStates
<1>4. CASE \/ ReadRequirements(t) \/ DeleteGeneratedLines(t) \/ DeletedGeneratedLines(t)
           \/ CascadeLines(t)
  <2>1. PICK label : Goto(t, label) /\ pc[t] \in Recompute \ {"states"}
    BY <1>4 DEF ReadRequirements, DeleteGeneratedLines, DeletedGeneratedLines, CascadeLines, At,
       Recompute
  <2>2. seen'[t].marks = seen[t].marks
    BY <1>0, <1>4 DEF ReadRequirements, DeleteGeneratedLines, DeletedGeneratedLines, CascadeLines,
       TypeOK, SeenRow
  <2> QED BY <1>0, <1>1, <1>2, <2>1, <2>2, QuietStates
<1>5. CASE \/ GetWeek(t) \/ CreateWeek(t) \/ DeleteWeekRecipes(t) \/ DeletedWeekRecipes(t)
           \/ CascadeOccurrence(t) \/ NextWeekRecipePosition(t) \/ CreateWeekRecipes(t)
           \/ DeleteWeekRecipe(t) \/ Pick(t) \/ UpdateWeekRecipe(t)
  <2>1. PICK label : Goto(t, label) /\ label \notin Recompute \ {"states"}
    BY <1>5 DEF GetWeek, CreateWeek, DeleteWeekRecipes, DeletedWeekRecipes, CascadeOccurrence,
       NextWeekRecipePosition, CreateWeekRecipes, DeleteWeekRecipe, Pick, UpdateWeekRecipe, Recompute
  <2> QED BY <1>0, <1>1, <1>2, <2>1, QuietStates
<1> QED BY <1>3, <1>4, <1>5 DEF Statement

(* A COMMIT of t leaves the lines that another transaction's copy is of.   *)
LEMMA CommitStates ==
  ASSUME TypeOK, StatesInvariant, NEW t \in Tx, End(t, "committed"),
         \A u \in Tx \ {t} :
           pc[u] \in Recompute \ {"states"} /\ (req[u].op \in {"generate", "add"} \/ InFlight <= 1) =>
             {[key |-> l.key, marks |-> l.marks] : l \in Generated(lines', req[u].week)} =
               {[key |-> l.key, marks |-> l.marks] : l \in Generated(lines, req[u].week)}
  PROVE  StatesInvariant'
<1>0. /\ pc'[t] = "committed"
      /\ \A u \in Tx \ {t} : pc'[u] = pc[u] /\ req'[u] = req[u] /\ seen'[u] = seen[u]
  BY Ended DEF End, Goto, TypeOK
<1>1. \A u \in Active' : u \in Active /\ req'[u] = req[u]
  BY <1>0 DEF Active
<1>2. \A u, v \in Active' : u # v =>
        InFlight > 1 /\ (req'[u].op = "setLine" => req'[v].op \notin {"generate", "add"})
  BY <1>1 DEF StatesInvariant
<1>3. ASSUME NEW u \in Tx
      PROVE  MarksRead(u)'
  <2>1. CASE u = t
    BY <1>0, <2>1 DEF MarksRead, Recompute
  <2>2. CASE u # t
    <3> SUFFICES ASSUME pc[u] \in Recompute \ {"states"},
                        req[u].op \in {"generate", "add"} \/ InFlight <= 1
                 PROVE  seen[u].marks =
                          {[key |-> l.key, marks |-> l.marks] : l \in Generated(lines', req[u].week)}
      BY <1>0, <2>2 DEF MarksRead
    <3> QED BY <2>2 DEF StatesInvariant, MarksRead
  <2> QED BY <2>1, <2>2
<1> QED BY <1>2, <1>3 DEF StatesInvariant

LEMMA RebuiltStates ==
  ASSUME Rows, PlanInvariant, StatesInvariant, NEW t \in Tx, RebuildAndCommit(t), ~Fail(t)
  PROVE  StatesInvariant'
<1>0. TypeOK /\ t \in Active /\ End(t, "committed") /\ pc[t] = "rebuild" /\ req[t].op \in PoolOp
  BY CommitFacts
<1>1. ASSUME NEW u \in Tx \ {t}, pc[u] \in Recompute \ {"states"},
             req[u].op \in {"generate", "add"} \/ InFlight <= 1
      PROVE  InWeek(lines', req[u].week) = InWeek(lines, req[u].week)
  <2>1. u \in Active /\ InFlight > 1
    BY <1>0, <1>1 DEF StatesInvariant, Active, Recompute
  <2>2. req[u].op \in {"generate", "add"}
    BY <1>1, <2>1, BoundsAssumption
  <2>3. req[t].week # req[u].week
    <3> SUFFICES ASSUME req[t].week = req[u].week
                 PROVE  FALSE
      OBVIOUS
    <3>1. SafePair(req[t].op, req[u].op)
      BY <1>0, <1>1, <2>1 DEF PlanInvariant, PairsSafe
    <3>2. req[t].op = req[u].op
      BY <1>0, <2>2, <3>1 DEF SafePair, PoolOp, Reshape
    <3> QED BY <1>0, <1>1, <2>2, <3>2, Exclusive DEF Recompute
  <2> QED BY <2>3, RebuildElsewhere DEF Rows
<1>2. \A u \in Tx \ {t} :
        pc[u] \in Recompute \ {"states"} /\ (req[u].op \in {"generate", "add"} \/ InFlight <= 1) =>
          Generated(lines', req[u].week) = Generated(lines, req[u].week)
  BY <1>1 DEF Generated
<1> QED BY <1>0, <1>2, CommitStates

LEMMA EditedStates ==
  ASSUME Rows, StatesInvariant, NEW t \in Tx, UpdateLine(t) \/ CreateManualLine(t), ~Fail(t)
  PROVE  StatesInvariant'
<1>0. TypeOK /\ t \in Active /\ End(t, "committed")
  BY DEF Rows, RowsInvariant, UpdateLine, CreateManualLine, At, Active
<1>1. CASE UpdateLine(t)
  <2>1. req[t].op = "setLine"
    BY <1>0, <1>1 DEF UpdateLine, At, TypeOK, Steps, Recompute
  <2>2. \A u \in Tx \ {t} :
          pc[u] \in Recompute => InFlight > 1 /\ req[u].op \notin {"generate", "add"}
    BY <1>0, <2>1 DEF StatesInvariant, Active, Recompute
  <2> QED BY <1>0, <2>2, CommitStates, BoundsAssumption
<1>2. CASE CreateManualLine(t)
  <2> DEFINE line == [id |-> <<t, <<"manual", t>>>>, week |-> req[t].week,
                      key |-> <<"manual", t>>, origin |-> "manual", marks |-> {}]
  <2>1. lines' = lines \cup {line} /\ line.origin = "manual"
    BY <1>2 DEF CreateManualLine
  <2> HIDE DEF line
  <2>2. \A w : Generated(lines', w) = Generated(lines, w)
    BY <2>1 DEF Generated, InWeek
  <2> QED BY <1>0, <2>2, CommitStates
<1> QED BY <1>1, <1>2

LEMMA InitStates == Init => StatesInvariant
BY DEF Init, StatesInvariant, MarksRead, Active, Recompute

LEMMA NextStates ==
  ASSUME TicksApart, Rows, PlanInvariant, StatesInvariant, [Next]_vars
  PROVE  StatesInvariant'
<1>0. TypeOK
  BY DEF Rows, RowsInvariant
<1>1. CASE Midnight \/ UNCHANGED vars
  BY <1>1 DEF Midnight, vars, db, StatesInvariant, MarksRead, Active
<1>2. ASSUME NEW t \in Tx, Fail(t)
      PROVE  StatesInvariant'
  <2>1. Goto(t, "failed") /\ Others(t) /\ lines' = lines /\ t \notin Active'
    BY <1>0, <1>2, FailPrivate DEF Fail, End, Goto, db, Active, TypeOK
  <2> QED BY <1>0, <2>1, QuietStates DEF Recompute
<1>3. ASSUME NEW t \in Tx, Request(t)
      PROVE  StatesInvariant'
  <2>1. ASSUME NEW r, NEW label, Begin(t, r, label),
               label \in {"getWeek", "position", "delete", "update", "pick", "setLine", "addManual"}
        PROVE  StatesInvariant'
    BY <1>0, <2>1, BeginStates DEF Recompute
  <2>2. CASE Generate(t)
    BY <2>1, <2>2 DEF Generate
  <2>3. CASE Add(t)
    BY <2>1, <2>3 DEF Add
  <2>4. CASE Remove(t)
    BY <2>1, <2>4 DEF Remove
  <2>5. CASE Swap(t)
    BY <2>1, <2>5 DEF Swap
  <2>6. CASE RandomSwap(t)
    BY <2>1, <2>6 DEF RandomSwap
  <2>7. CASE SetLine(t)
    BY <2>1, <2>7 DEF SetLine
  <2>8. CASE AddManualLine(t)
    BY <2>1, <2>8 DEF AddManualLine
  <2> QED
    BY <1>3, <2>2, <2>3, <2>4, <2>5, <2>6, <2>7, <2>8 DEF Request
<1>4. ASSUME NEW t \in Tx, Statement(t), ~Fail(t)
      PROVE  StatesInvariant'
  BY <1>4, StatementStates, RebuiltStates, EditedStates
<1> QED BY <1>1, <1>2, <1>3, <1>4 DEF Next, DeadlockVictim, Cancel

(* The state of a line survives: the copy t puts back at its COMMIT is of  *)
(* the line its new line replaces.                                         *)
LEMMA CopiedStates ==
  ASSUME Rows, PlanInvariant, StatesInvariant, NEW t \in Tx, RebuildAndCommit(t), ~Fail(t),
         req[t].op \in {"generate", "add"} \/ InFlight <= 1,
         NEW l \in lines, NEW m \in NewLines(t), l.week = m.week, l.key = m.key
  PROVE  l.marks = m.marks
<1> DEFINE copy(k) == [key |-> k.key, marks |-> k.marks]
           gen == Generated(lines, req[t].week)
           same == {n \in seen[t].marks : n.key = l.key}
<1>0. TypeOK /\ UniqueRows /\ RowIdentity /\ pc[t] = "rebuild"
  BY CommitFacts DEF Rows, RowsInvariant
<1>1. m.week = req[t].week /\ m.key[1] # "manual"
  BY NewLineRows
<1>2. l \in gen
  BY <1>0, <1>1 DEF Generated, InWeek, RowIdentity, TypeOK, LineRow
<1>3. seen[t].marks = {copy(k) : k \in gen}
  BY <1>0 DEF StatesInvariant, MarksRead, Recompute
<1>4. \A k \in gen : k.key = l.key => k = l
  BY <1>0, <1>2 DEF UniqueRows, Generated, InWeek
<1>5. \A k : copy(k).key = k.key /\ copy(k).marks = k.marks
  OBVIOUS
<1>6. same = {copy(l)}
  <2> HIDE DEF copy, gen
  <2> QED BY <1>2, <1>3, <1>4, <1>5
<1>7. UNION {n.marks : n \in same} = l.marks
  <2> HIDE DEF copy, same
  <2> QED BY <1>5, <1>6
<1>8. m.marks = UNION {n.marks : n \in {k \in seen[t].marks : k.key = m.key}}
  BY DEF NewLines, LineRows
<1> QED BY <1>7, <1>8

LEMMA StatesHold ==
  SafeTogether /\ TicksApart => (Spec => [](Rows /\ PlanInvariant /\ StatesInvariant))
<1> SUFFICES ASSUME SafeTogether, TicksApart
             PROVE  Spec => [](Rows /\ PlanInvariant /\ StatesInvariant)
  OBVIOUS
<1>1. Init => StatesInvariant
  BY InitStates
<1>2. Rows /\ PlanInvariant /\ StatesInvariant /\ [Next]_vars => StatesInvariant'
  BY NextStates
<1> QED BY <1>1, <1>2, RowsHold, PlanInvariantHolds, PTL DEF Spec

(* What a Generate or an Add has read of the shopping state is true of the *)
(* lines until it commits, whatever committed after it began.              *)
THEOREM StatesInvariantHolds == SafeTogether /\ TicksApart => (Spec => []StatesInvariant)
<1> QED BY StatesHold, PTL

(* A line takes another one's place only when recompute commits.           *)
LEMMA ReplacedLine ==
  ASSUME Rows, [Next]_vars, NEW l \in lines, NEW m \in lines', l.week = m.week, l.key = m.key,
         l.id # m.id
  PROVE  \E t \in Tx : RebuildAndCommit(t) /\ ~Fail(t) /\ m \in NewLines(t)
<1>0. RowsInvariant /\ TypeOK /\ UniqueRows /\ RowIdentity
  BY DEF Rows, RowsInvariant
<1>1. m \notin lines
  BY <1>0 DEF UniqueRows
<1>2. ASSUME NEW t \in Tx, ~Fail(t) /\ RebuildAndCommit(t)
      PROVE  \E u \in Tx : RebuildAndCommit(u) /\ ~Fail(u) /\ m \in NewLines(u)
  <2>1. lines' = VisibleLines(t) \cup NewLines(t) /\ VisibleLines(t) \subseteq lines
    BY <1>2 DEF RebuildAndCommit, VisibleLines
  <2> QED BY <1>1, <1>2, <2>1
<1>3. ASSUME NEW t \in Tx, ~Fail(t) /\ UpdateLine(t)
      PROVE  FALSE
  <2> DEFINE edited(k) == [k EXCEPT !.marks = IF req[t].on THEN @ \cup {req[t].flag}
                                                         ELSE @ \ {req[t].flag}]
  <2>1. lines' = (lines \ Editable(t)) \cup {edited(k) : k \in Editable(t)}
    BY <1>3 DEF UpdateLine
  <2>2. \A k \in Editable(t) : /\ k \in lines /\ edited(k).id = k.id
                               /\ edited(k).week = k.week /\ edited(k).key = k.key
    BY <1>0 DEF Editable, TypeOK, LineRow
  <2> HIDE DEF edited
  <2>3. \E k \in lines : k.id = m.id /\ k.week = m.week /\ k.key = m.key
    BY <1>1, <2>1, <2>2
  <2> QED BY <1>0, <2>3 DEF UniqueRows
<1>4. ASSUME NEW t \in Tx, CreateManualLine(t)
      PROVE  FALSE
  <2>1. /\ m.key = <<"manual", t>> /\ pc[t] # "committed" /\ Goto(t, "committed")
    BY <1>1, <1>4 DEF CreateManualLine, At, End
  <2>2. l.id[1] = t
    BY <1>0, <2>1 DEF RowIdentity
  <2> QED BY <1>0, <2>1, <2>2, RowsDurable
<1> QED BY <1>0, <1>1, <1>2, <1>3, <1>4, StepKinds DEF Private

(* Whatever the requests that overlap change in the pool, Generate and Add *)
(* lose no tick and revive none, unless lines are ticked while they run.   *)
THEOREM PlansKeepTicks == SafeTogether /\ TicksApart => (Spec => PlansKeepState)
<1> SUFFICES ASSUME SafeTogether, TicksApart
             PROVE  Spec => PlansKeepState
  OBVIOUS
<1>1. Rows /\ PlanInvariant /\ StatesInvariant /\ [Next]_vars =>
        [\A t \in Tx : req[t].op \in {"generate", "add"} =>
           \A l \in lines, m \in lines' :
             m.id[1] = t /\ l.week = m.week /\ l.key = m.key => l.marks = m.marks]_vars
  <2> SUFFICES ASSUME Rows, PlanInvariant, StatesInvariant, [Next]_vars,
                      NEW t \in Tx, req[t].op \in {"generate", "add"},
                      NEW l \in lines, NEW m \in lines',
                      m.id[1] = t, l.week = m.week, l.key = m.key
               PROVE  l.marks = m.marks
    OBVIOUS
  <2>1. l.id[1] # t
    <3>1. pc[t] # "committed"
      <4>1. <<req[t].op, "committed">> \notin Steps
        BY DEF Steps, Recompute
      <4> QED BY <4>1 DEF Rows, RowsInvariant, TypeOK
    <3>2. t # 0
      BY BoundsAssumption DEF Tx
    <3> QED BY <3>1, <3>2 DEF Rows, RowsInvariant, RowIdentity, Durable
  <2>2. PICK u \in Tx : RebuildAndCommit(u) /\ ~Fail(u) /\ m \in NewLines(u)
    BY <2>1, ReplacedLine
  <2>3. u = t
    BY <2>2, NewLineRows
  <2> QED BY <2>2, <2>3, CopiedStates
<1> QED BY <1>1, StatesHold, PTL DEF Spec, PlansKeepState

(* One request at a time keeps the state of every line that stays on the   *)
(* list, whichever operation it is.                                        *)
THEOREM SerialKeepsTicks == InFlight <= 1 => (Spec => RecomputePreservesState)
<1> SUFFICES ASSUME InFlight <= 1
             PROVE  Spec => RecomputePreservesState
  OBVIOUS
<1>1. Rows /\ PlanInvariant /\ StatesInvariant /\ [Next]_vars =>
        [\A l \in lines, m \in lines' :
           l.week = m.week /\ l.key = m.key /\ l.id # m.id => l.marks = m.marks]_vars
  BY ReplacedLine, CopiedStates
<1>2. SafeTogether /\ TicksApart
  BY DEF SafeTogether, TicksApart
<1> QED BY <1>1, <1>2, StatesHold, PTL DEF Spec, RecomputePreservesState

=============================================================================
