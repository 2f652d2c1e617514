-------------------------- MODULE WeekHistoryProofs --------------------------
(***************************************************************************)
(* A request changes the week it was made in and no other, and recompute   *)
(* takes generated lines only: WeekInvariant is inductive next to          *)
(* RowsInvariant, for every corpus, number of weeks and interleaving.      *)
(* Next to both, RecipeInvariant: the list takes the ingredients of a      *)
(* recipe together or not at all.  No lock says so: it holds because the   *)
(* lines of one request are of one week and a purge takes every generated  *)
(* line of a week that it saw, so that what one request wrote always goes  *)
(* as a whole.                                                             *)
(***************************************************************************)
EXTENDS WeekRowsProofs

(* What a step of t that is no COMMIT does to the rows t will replace.     *)
Private(t) ==
  /\ UNCHANGED <<occs, lines, contribs>>
  /\ req'[t] = req[t] \/ (seen'[t] = NothingSeen /\ work'[t] = NoWork)
  /\ \A x \in work'[t].occUpd : x \in work[t].occUpd \/ x.week = req[t].week
  /\ seen'[t].lineTargets \in {{}, seen[t].lineTargets, Ids(Generated(lines, req[t].week))}
  /\ work'[t].lineDel \in {{}, work[t].lineDel, seen[t].lineTargets \cap Ids(lines)}

Others(t) ==
  \A u \in Tx \ {t} : req'[u] = req[u] /\ seen'[u] = seen[u] /\ work'[u] = work[u]

LEMMA FailPrivate ==
  ASSUME TypeOK, NEW t \in Tx, Fail(t)
  PROVE  Private(t) /\ Others(t)
BY DEF Fail, End, db, TypeOK, Private, Others, NoWork, NothingSeen

LEMMA RequestPrivate ==
  ASSUME RowsInvariant, NEW t \in Tx, Request(t)
  PROVE  Private(t) /\ Others(t)
<1>0. TypeOK /\ OwnWork(t)
  BY DEF RowsInvariant, Consistent
<1>1. ASSUME NEW r, NEW label, Begin(t, r, label)
      PROVE  Private(t) /\ Others(t)
  <2>1. /\ pc[t] = "idle" /\ UNCHANGED <<occs, lines, contribs, seen, work>>
        /\ \A u \in Tx \ {t} : req'[u] = req[u]
    BY <1>0, <1>1 DEF Begin, db, TypeOK
  <2>2. seen[t] = NothingSeen /\ work[t] = NoWork
    BY <1>0, <2>1 DEF OwnWork, Active
  <2> QED
    BY <2>1, <2>2 DEF Private, Others, NoWork, NothingSeen
<1>2. CASE Generate(t)
  BY <1>1, <1>2 DEF Generate
<1>3. CASE Add(t)
  BY <1>1, <1>3 DEF Add
<1>4. CASE Remove(t)
  BY <1>1, <1>4 DEF Remove
<1>5. CASE Swap(t)
  BY <1>1, <1>5 DEF Swap
<1>6. CASE RandomSwap(t)
  BY <1>1, <1>6 DEF RandomSwap
<1>7. CASE SetLine(t)
  BY <1>1, <1>7 DEF SetLine
<1>8. CASE AddManualLine(t)
  BY <1>1, <1>8 DEF AddManualLine
<1> QED
  BY <1>2, <1>3, <1>4, <1>5, <1>6, <1>7, <1>8 DEF Request

(* Every statement before the COMMIT.                                      *)
LEMMA StatementPrivate ==
  ASSUME TypeOK, NEW t \in Tx, ~Fail(t), Statement(t),
         ~RebuildAndCommit(t), ~UpdateLine(t), ~CreateManualLine(t)
  PROVE  Private(t) /\ Others(t)
<1>0. seen[t] \in SeenRow /\ work[t] \in WorkRow
  BY SeenWorkType
<1> USE DEF At, db, Private, Others
<1>1. CASE GetWeek(t)
  BY <1>1 DEF GetWeek
<1>2. CASE CreateWeek(t)
  <2>1. /\ UNCHANGED <<occs, lines, contribs, req, seen>>
        /\ work' = [work EXCEPT ![t].newWeek = TRUE]
    BY <1>2 DEF CreateWeek
  <2> QED
    BY <1>0, <2>1 DEF TypeOK, WorkRow
<1>3. CASE DeleteWeekRecipes(t)
  BY <1>0, <1>3 DEF DeleteWeekRecipes, TypeOK, SeenRow
<1>4. CASE DeletedWeekRecipes(t)
  BY <1>0, <1>4 DEF DeletedWeekRecipes, TypeOK, WorkRow
<1>5. CASE CascadeOccurrence(t)
  BY <1>0, <1>5 DEF CascadeOccurrence, TypeOK, WorkRow
<1>6. CASE NextWeekRecipePosition(t)
  BY <1>0, <1>6 DEF NextWeekRecipePosition, TypeOK, SeenRow
<1>7. CASE CreateWeekRecipes(t)
  <2>1. /\ UNCHANGED <<occs, lines, contribs, req, seen>>
        /\ work' = [work EXCEPT ![t].occIns = NewOccs(t)]
    BY <1>7 DEF CreateWeekRecipes
  <2> QED
    BY <1>0, <2>1 DEF TypeOK, WorkRow
<1>8. CASE DeleteWeekRecipe(t)
  <2>1. /\ UNCHANGED <<occs, lines, contribs, req, seen>>
        /\ work' = [work EXCEPT ![t].occDel = Ids(Target(t))]
    BY <1>8 DEF DeleteWeekRecipe
  <2> QED
    BY <1>0, <2>1 DEF TypeOK, WorkRow
<1>9. CASE Pick(t)
  BY <1>0, <1>9 DEF Pick, TypeOK, SeenRow
<1>10. CASE UpdateWeekRecipe(t)
  <2> DEFINE r == IF req[t].op = "swap" THEN req[t].recipe ELSE seen[t].recipe
             rows == {[o EXCEPT !.recipe = r] : o \in Target(t)}
  <2>1. /\ UNCHANGED <<occs, lines, contribs, req, seen>>
        /\ work' = [work EXCEPT ![t].occUpd = rows]
    BY <1>10 DEF UpdateWeekRecipe
  <2>2. \A x \in rows : x.week = req[t].week
    BY VisibleType DEF Target, OccRow
  <2> HIDE DEF rows
  <2> QED
    BY <1>0, <2>1, <2>2 DEF TypeOK, WorkRow
<1>11. CASE ReadStates(t)
  BY <1>0, <1>11 DEF ReadStates, TypeOK, SeenRow
<1>12. CASE ReadRequirements(t)
  BY <1>0, <1>12 DEF ReadRequirements, TypeOK, SeenRow
<1>13. CASE DeleteGeneratedLines(t)
  BY <1>0, <1>13 DEF DeleteGeneratedLines, TypeOK, SeenRow
<1>14. CASE DeletedGeneratedLines(t)
  BY <1>0, <1>14 DEF DeletedGeneratedLines, TypeOK, WorkRow
<1>15. CASE CascadeLines(t)
  BY <1>0, <1>15 DEF CascadeLines, TypeOK, WorkRow
<1> QED
  BY <1>1, <1>2, <1>3, <1>4, <1>5, <1>6, <1>7, <1>8, <1>9, <1>10, <1>11, <1>12, <1>13,
     <1>14, <1>15 DEF Statement

(* Only t's own targets grow, by what t sees of its week.                  *)
LEMMA PrivateWeek ==
  ASSUME RowsInvariant, WeekInvariant, NEW t \in Tx, Private(t), Others(t)
  PROVE  WeekInvariant'
<1>1. \A l, m \in lines' : l.id = m.id => l = m
  BY DEF WeekInvariant, Private
<1>2. ASSUME NEW u \in Tx, u # t
      PROVE  OwnWeek(u)'
  BY <1>2 DEF WeekInvariant, OwnWeek, Private, Others
<1>3. OwnWeek(t)'
  <2>1. CASE seen'[t] = NothingSeen /\ work'[t] = NoWork
    BY <2>1 DEF OwnWeek, NothingSeen, NoWork
  <2>2. CASE req'[t] = req[t]
    <3>1. \A l \in lines : l.id \in Ids(Generated(lines, req[t].week)) =>
            l.week = req[t].week /\ l.origin = "generated"
      BY DEF Ids, Generated, InWeek, WeekInvariant
    <3> QED
      BY <2>2, <3>1 DEF OwnWeek, Private, WeekInvariant
  <2> QED
    BY <2>1, <2>2 DEF Private
<1> QED
  BY <1>1, <1>2, <1>3 DEF WeekInvariant

(* At a COMMIT t's lines are new or keep id, week and origin, and what the *)
(* other transactions have read of them stays right.                       *)
LEMMA CommitWeek ==
  ASSUME RowsInvariant, WeekInvariant, NEW t \in Tx, pc[t] # "committed", End(t, "committed"),
         \A l \in lines' :
           \/ l.id[1] = t
           \/ \E k \in lines : k.id = l.id /\ k.week = l.week /\ k.origin = l.origin,
         \A l, m \in lines' : l.id = m.id => l = m
  PROVE  WeekInvariant'
<1>0. TypeOK /\ Goto(t, "committed")
  BY DEF RowsInvariant, End
<1>1. ASSUME NEW u \in Tx, u # t
      PROVE  OwnWeek(u)'
  <2>0. req'[u] = req[u] /\ seen'[u] = seen[u] /\ work'[u] = work[u] /\ Snapshots(u)
    BY <1>0, <1>1, Ended DEF RowsInvariant, Consistent
  <2>1. \A id \in seen[u].lineTargets \cup work[u].lineDel : id[1] # t
    BY <1>0, <2>0, RowTypes, DurableStable DEF Snapshots
  <2> QED
    BY <2>0, <2>1 DEF WeekInvariant, OwnWeek
<1>2. OwnWeek(t)'
  BY <1>0 DEF End, TypeOK, OwnWeek, NothingSeen, NoWork
<1> QED
  BY <1>1, <1>2 DEF WeekInvariant

LEMMA RebuiltWeek ==
  ASSUME RowsInvariant, WeekInvariant, NEW t \in Tx, RebuildAndCommit(t), ~Fail(t)
  PROVE  WeekInvariant'
<1>0. /\ TypeOK /\ pc[t] # "committed" /\ End(t, "committed") /\ Goto(t, "committed")
      /\ lines' = VisibleLines(t) \cup NewLines(t) /\ VisibleLines(t) \subseteq lines
  BY DEF RowsInvariant, RebuildAndCommit, At, End, VisibleLines
<1>1. \A l \in lines : l.id[1] # t
  BY <1>0, RowsDurable
<1>2. \A n \in NewLines(t) : n.id = <<t, n.key>>
  BY NewLineRows
<1>3. \A m, n \in NewLines(t) : m.id = n.id => m = n
  BY <1>2, NewLineRows
<1>4. \A l, m \in lines' : l.id = m.id => l = m
  BY <1>0, <1>1, <1>2, <1>3 DEF WeekInvariant
<1>5. \A l \in lines' :
        \/ l.id[1] = t
        \/ \E k \in lines : k.id = l.id /\ k.week = l.week /\ k.origin = l.origin
  BY <1>0, <1>2
<1> QED
  BY <1>0, <1>4, <1>5, CommitWeek

LEMMA EditedWeek ==
  ASSUME RowsInvariant, WeekInvariant, NEW t \in Tx, UpdateLine(t), ~Fail(t)
  PROVE  /\ WeekInvariant'
         /\ \A l \in lines : l.id \in Ids(lines')
         /\ \A w : w # req[t].week => InWeek(lines', w) = InWeek(lines, w)
<1> DEFINE edited(l) == [l EXCEPT !.marks = IF req[t].on THEN @ \cup {req[t].flag}
                                                       ELSE @ \ {req[t].flag}]
           after(l) == IF l \in Editable(t) THEN edited(l) ELSE l
<1>0. /\ TypeOK /\ pc[t] # "committed" /\ End(t, "committed")
  BY DEF RowsInvariant, UpdateLine, At
<1>1. lines' = {after(l) : l \in lines}
  <2>1. lines' = (lines \ Editable(t)) \cup {edited(l) : l \in Editable(t)}
    BY DEF UpdateLine
  <2>2. Editable(t) \subseteq lines
    BY DEF Editable
  <2> HIDE DEF edited
  <2> QED
    BY <2>1, <2>2
<1>2. \A l \in lines : /\ after(l).id = l.id /\ after(l).week = l.week
                       /\ after(l).origin = l.origin
                       /\ l.week # req[t].week => after(l) = l
  BY <1>0 DEF TypeOK, LineRow, Editable
<1> HIDE DEF after
<1>3. \A l, m \in lines' : l.id = m.id => l = m
  BY <1>1, <1>2 DEF WeekInvariant
<1>4. WeekInvariant'
  BY <1>0, <1>1, <1>2, <1>3, CommitWeek
<1>5. \A l \in lines : l.id \in Ids(lines')
  BY <1>1, <1>2 DEF Ids
<1>6. ASSUME NEW w, w # req[t].week
      PROVE  InWeek(lines', w) = InWeek(lines, w)
  BY <1>1, <1>2, <1>6 DEF InWeek
<1> QED
  BY <1>4, <1>5, <1>6

LEMMA AddedWeek ==
  ASSUME RowsInvariant, WeekInvariant, NEW t \in Tx, CreateManualLine(t)
  PROVE  WeekInvariant'
<1> DEFINE line == [id |-> <<t, <<"manual", t>>>>, week |-> req[t].week,
                    key |-> <<"manual", t>>, origin |-> "manual", marks |-> {}]
<1>0. /\ TypeOK /\ pc[t] # "committed" /\ End(t, "committed") /\ Goto(t, "committed")
      /\ lines' = lines \cup {line} /\ line.id[1] = t
  BY DEF RowsInvariant, CreateManualLine, At, End
<1> HIDE DEF line
<1>1. \A l \in lines : l.id[1] # t
  BY <1>0, RowsDurable
<1>2. \A l, m \in lines' : l.id = m.id => l = m
  BY <1>0, <1>1 DEF WeekInvariant
<1>3. \A l \in lines' :
        \/ l.id[1] = t
        \/ \E k \in lines : k.id = l.id /\ k.week = l.week /\ k.origin = l.origin
  BY <1>0
<1> QED
  BY <1>0, <1>2, <1>3, CommitWeek

(* Every step is private, or one of the three COMMITs.                     *)
LEMMA StepKinds ==
  ASSUME RowsInvariant, [Next]_vars
  PROVE  \/ UNCHANGED <<occs, lines, contribs, pc, req, seen, work>>
         \/ \E t \in Tx :
              \/ Private(t) /\ Others(t)
              \/ ~Fail(t) /\ RebuildAndCommit(t)
              \/ ~Fail(t) /\ UpdateLine(t)
              \/ CreateManualLine(t)
<1>0. TypeOK
  BY DEF RowsInvariant
<1>1. CASE Midnight \/ UNCHANGED vars
  BY <1>1 DEF Midnight, vars, db
<1>2. ASSUME NEW t \in Tx, Statement(t) \/ Request(t) \/ DeadlockVictim(t) \/ Cancel(t)
      PROVE  \/ Private(t) /\ Others(t)
             \/ ~Fail(t) /\ RebuildAndCommit(t)
             \/ ~Fail(t) /\ UpdateLine(t)
             \/ CreateManualLine(t)
  <2>1. CASE Fail(t)
    BY <1>0, <2>1, FailPrivate
  <2>2. CASE Request(t)
    BY <2>2, RequestPrivate
  <2>3. CASE ~Fail(t) /\ Statement(t)
    BY <1>0, <2>3, StatementPrivate
  <2> QED
    BY <1>2, <2>1, <2>2, <2>3 DEF DeadlockVictim, Cancel
<1> QED
  BY <1>1, <1>2 DEF Next

LEMMA InitWeek == Init => WeekInvariant
<1> SUFFICES ASSUME Init
             PROVE  WeekInvariant
  OBVIOUS
<1>1. RowsInvariant
  BY InitRows
<1>2. \A l \in lines : l.week = 0
  BY DEF Init, LineRows
<1>3. \A l, m \in lines : l.id = m.id => l = m
  BY <1>1, <1>2 DEF RowsInvariant, UniqueRows, RowIdentity
<1>4. \A t \in Tx : OwnWeek(t)
  BY DEF Init, OwnWeek, NothingSeen, NoWork
<1> QED
  BY <1>3, <1>4 DEF WeekInvariant

LEMMA NextWeek == RowsInvariant /\ WeekInvariant /\ [Next]_vars => WeekInvariant'
<1> SUFFICES ASSUME RowsInvariant, WeekInvariant, [Next]_vars
             PROVE  WeekInvariant'
  OBVIOUS
<1>1. CASE UNCHANGED <<occs, lines, contribs, pc, req, seen, work>>
  BY <1>1 DEF WeekInvariant, OwnWeek
<1>2. ASSUME NEW t \in Tx, Private(t) /\ Others(t)
      PROVE  WeekInvariant'
  BY <1>2, PrivateWeek
<1>3. ASSUME NEW t \in Tx,
             \/ ~Fail(t) /\ RebuildAndCommit(t)
             \/ ~Fail(t) /\ UpdateLine(t)
             \/ CreateManualLine(t)
      PROVE  WeekInvariant'
  BY <1>3, RebuiltWeek, EditedWeek, AddedWeek
<1> QED
  BY <1>1, <1>2, <1>3, StepKinds

LEMMA InvariantsHold == Spec => [](RowsInvariant /\ WeekInvariant)
<1>1. Init => RowsInvariant /\ WeekInvariant
  BY InitRows, InitWeek
<1>2. RowsInvariant /\ WeekInvariant /\ [Next]_vars => (RowsInvariant /\ WeekInvariant)'
  BY NextRows, NextWeek
<1> QED
  BY <1>1, <1>2, PTL DEF Spec

-----------------------------------------------------------------------------
(* What a COMMIT of recompute does to another week, and to manual lines.   *)
LEMMA RebuildElsewhere ==
  ASSUME RowsInvariant, WeekInvariant, NEW t \in Tx, RebuildAndCommit(t), ~Fail(t)
  PROVE  /\ \A l \in lines : l.origin = "manual" => l \in lines'
         /\ \A w : w # req[t].week =>
              InWeek(occs', w) = InWeek(occs, w) /\ InWeek(lines', w) = InWeek(lines, w)
<1>0. /\ Consistent(t) /\ OwnWeek(t) /\ RowIdentity
      /\ occs' = VisibleOccs(t) /\ lines' = VisibleLines(t) \cup NewLines(t)
  BY DEF RowsInvariant, WeekInvariant, RebuildAndCommit
<1>1. \A l \in lines : l.week # req[t].week \/ l.origin = "manual" => l \in VisibleLines(t)
  BY <1>0 DEF VisibleLines, OwnWeek
<1>2. \A n \in NewLines(t) : n.week = req[t].week
  BY NewLineRows
<1>3. VisibleLines(t) \subseteq lines
  BY DEF VisibleLines
<1>4. ASSUME NEW w, w # req[t].week
      PROVE  InWeek(lines', w) = InWeek(lines, w)
  BY <1>0, <1>1, <1>2, <1>3, <1>4 DEF InWeek
<1>5. ASSUME NEW o \in occs, o.week # req[t].week
      PROVE  o \in occs'
  <2>1. o.id \notin work[t].occDel
    BY <1>0, <1>5 DEF Consistent, Snapshots
  <2>2. o.id \notin Ids(work[t].occUpd)
    BY <1>0, <1>5 DEF Consistent, Places, RowIdentity, SamePlace, OwnWeek, Ids
  <2> QED
    BY <1>0, <2>1, <2>2 DEF VisibleOccs
<1>6. ASSUME NEW o \in occs', o.week # req[t].week
      PROVE  o \in occs
  BY <1>0, <1>6 DEF VisibleOccs, OwnWeek, Consistent, OwnWork
<1>7. ASSUME NEW w, w # req[t].week
      PROVE  InWeek(occs', w) = InWeek(occs, w)
  BY <1>5, <1>6, <1>7 DEF InWeek
<1> QED
  BY <1>0, <1>1, <1>4, <1>7

(* No request ever takes a manual line away: recompute, whatever it read   *)
(* before other requests committed, deletes generated lines only.          *)
THEOREM ManualLinesStay == Spec => ManualLinesKept
<1>1. RowsInvariant /\ WeekInvariant /\ [Next]_vars =>
        [\A l \in lines : l.origin = "manual" => l.id \in Ids(lines')]_vars
  <2> SUFFICES ASSUME RowsInvariant, WeekInvariant, [Next]_vars,
                      NEW l \in lines, l.origin = "manual"
               PROVE  l.id \in Ids(lines')
    OBVIOUS
  <2>1. CASE UNCHANGED lines
    BY <2>1 DEF Ids
  <2>2. ASSUME NEW t \in Tx, ~Fail(t) /\ RebuildAndCommit(t)
        PROVE  l.id \in Ids(lines')
    BY <2>2, RebuildElsewhere DEF Ids
  <2>3. ASSUME NEW t \in Tx, ~Fail(t) /\ UpdateLine(t)
        PROVE  l.id \in Ids(lines')
    BY <2>3, EditedWeek
  <2>4. ASSUME NEW t \in Tx, CreateManualLine(t)
        PROVE  l.id \in Ids(lines')
    BY <2>4 DEF CreateManualLine, Ids
  <2> QED
    BY <2>1, <2>2, <2>3, <2>4, StepKinds DEF Private
<1> QED
  BY <1>1, InvariantsHold, PTL DEF Spec, ManualLinesKept

LEMMA PastStays ==
  ASSUME RowsInvariant, WeekInvariant, [Next]_vars,
         NEW w \in 0..(today - 1), \A t \in Active : req[t].week # w
  PROVE  InWeek(occs', w) = InWeek(occs, w) /\ InWeek(lines', w) = InWeek(lines, w)
<1>1. CASE UNCHANGED <<occs, lines>>
  BY <1>1
<1>2. ASSUME NEW t \in Tx, ~Fail(t) /\ RebuildAndCommit(t)
      PROVE  InWeek(occs', w) = InWeek(occs, w) /\ InWeek(lines', w) = InWeek(lines, w)
  <2>1. req[t].week # w
    BY <1>2 DEF RebuildAndCommit, At, Active
  <2> QED
    BY <1>2, <2>1, RebuildElsewhere
<1>3. ASSUME NEW t \in Tx, ~Fail(t) /\ UpdateLine(t)
      PROVE  InWeek(occs', w) = InWeek(occs, w) /\ InWeek(lines', w) = InWeek(lines, w)
  <2>1. req[t].week # w /\ occs' = occs
    BY <1>3 DEF UpdateLine, At, Active
  <2> QED
    BY <1>3, <2>1, EditedWeek
<1>4. ASSUME NEW t \in Tx, CreateManualLine(t)
      PROVE  InWeek(occs', w) = InWeek(occs, w) /\ InWeek(lines', w) = InWeek(lines, w)
  <2>1. req[t].week # w /\ occs' = occs
    BY <1>4 DEF CreateManualLine, At, Active
  <2> QED
    BY <1>4, <2>1 DEF CreateManualLine, InWeek
<1> QED
  BY <1>1, <1>2, <1>3, <1>4, StepKinds DEF Private

(* A past week that no request is working on is never changed again,       *)
(* neither its pool nor its list.                                          *)
THEOREM HistoryStays == Spec => HistoryFinal
<1>1. RowsInvariant /\ WeekInvariant /\ [Next]_vars =>
        [\A w \in 0..(today - 1) :
           (\A t \in Active : req[t].week # w) =>
             /\ InWeek(occs', w) = InWeek(occs, w)
             /\ InWeek(lines', w) = InWeek(lines, w)]_vars
  BY PastStays
<1> QED
  BY <1>1, InvariantsHold, PTL DEF Spec, HistoryFinal

-----------------------------------------------------------------------------
(* Whole recipes.                                                          *)

(* The contributions of a pool hold all ingredients of a recipe for an     *)
(* occurrence, and are all of the writing request's lines.                 *)
LEMMA PoolRecipes ==
  ASSUME NEW t, NEW pool, \A o \in pool : o.recipe \in Recipe,
         NEW c \in ContribRows(t, pool), NEW r \in Recipe, c.ing \in IngredientsOf[r],
         NEW i \in IngredientsOf[r]
  PROVE  c.line[1] = t /\
         \E d \in ContribRows(t, pool) : d.occ = c.occ /\ d.ing = i /\ d.line[1] = t
<1> DEFINE contrib(q) == [line |-> <<t, KeyOf(q)>>, occ |-> q.occ, ing |-> q.ing]
<1>1. PICK o \in pool : \E j \in IngredientsOf[o.recipe] : c = contrib([occ |-> o.id, ing |-> j])
  BY DEF ContribRows, Requirements
<1>2. /\ \A q : contrib(q).line[1] = t
      /\ \A x, y : contrib([occ |-> x, ing |-> y]).occ = x /\ contrib([occ |-> x, ing |-> y]).ing = y
  OBVIOUS
<1>3. o.recipe = r
  BY <1>1, <1>2, CorpusAssumption
<1>4. [occ |-> o.id, ing |-> i] \in Requirements(pool)
  BY <1>3 DEF Requirements
<1>5. contrib([occ |-> o.id, ing |-> i]) \in ContribRows(t, pool)
  BY <1>4 DEF ContribRows
<1> HIDE DEF contrib
<1> QED BY <1>1, <1>2, <1>5

LEMMA InitRecipes == Init => RecipeInvariant
<1> SUFFICES ASSUME Init PROVE RecipeInvariant
  OBVIOUS
<1>1. \A l \in lines : l.week = 0
  BY DEF Init, LineRows
<1>2. \A t \in Tx : WholeTargets(t)
  BY DEF Init, WholeTargets, NothingSeen, NoWork
<1>3. \A o \in occs : o.recipe \in Recipe
  BY InitType DEF TypeOK, OccRow
<1>4. contribs = ContribRows(0, occs)
  BY DEF Init
<1>5. RecipesTogether
  BY <1>3, <1>4, PoolRecipes DEF RecipesTogether
<1> QED BY <1>1, <1>2, <1>5 DEF RecipeInvariant

(* A statement before the COMMIT takes all it sees of the week, or no more *)
(* than it took before.                                                    *)
LEMMA PrivateRecipes ==
  ASSUME RowsInvariant, WeekInvariant, RecipeInvariant,
         NEW t \in Tx, Private(t), Others(t)
  PROVE  RecipeInvariant'
<1>0. lines' = lines /\ contribs' = contribs
  BY DEF Private
<1>1. ASSUME NEW u \in Tx, u # t
      PROVE  WholeTargets(u)'
  BY <1>0, <1>1 DEF RecipeInvariant, WholeTargets, Others
<1>2. WholeTargets(t)'
  <2> SUFFICES ASSUME NEW l \in lines, NEW m \in lines, OneRequest(l, m)
               PROVE  /\ l.id \in seen'[t].lineTargets => m.id \in seen'[t].lineTargets
                      /\ l.id \in work'[t].lineDel => m.id \in work'[t].lineDel
    BY <1>0 DEF WholeTargets, OneRequest
  <2>1. l.id \in Ids(Generated(lines, req[t].week)) => m.id \in Ids(Generated(lines, req[t].week))
    <3>1. l.id \in Ids(Generated(lines, req[t].week)) => l \in Generated(lines, req[t].week)
      BY DEF WeekInvariant, Ids, Generated, InWeek
    <3>2. l.week = m.week /\ m.origin = "generated"
      BY DEF RecipeInvariant, OneRequest
    <3> QED BY <3>1, <3>2 DEF Ids, Generated, InWeek
  <2>2. m.id \in Ids(lines)
    BY DEF Ids
  <2>3. /\ l.id \in seen[t].lineTargets => m.id \in seen[t].lineTargets
        /\ l.id \in work[t].lineDel => m.id \in work[t].lineDel
    BY DEF RecipeInvariant, WholeTargets
  <2> QED BY <2>1, <2>2, <2>3 DEF Private
<1>3. RecipesTogether' /\ \A l, m \in lines' : OneRequest(l, m) => l.week = m.week
  BY <1>0 DEF RecipeInvariant, RecipesTogether
<1> QED BY <1>1, <1>2, <1>3 DEF RecipeInvariant

(* At a COMMIT t's own lines are new, of one week, and in nobody's         *)
(* snapshot.                                                               *)
LEMMA CommitRecipes ==
  ASSUME RowsInvariant, RecipeInvariant, NEW t \in Tx, pc[t] # "committed", End(t, "committed"),
         NEW w,
         \A l \in lines' :
           \/ l.id[1] = t /\ (l.origin = "generated" => l.week = w)
           \/ \E k \in lines : k.id = l.id /\ k.week = l.week /\ k.origin = l.origin,
         RecipesTogether'
  PROVE  RecipeInvariant'
<1>0. TypeOK /\ Goto(t, "committed")
  BY DEF RowsInvariant, End
<1>1. \A l \in lines : l.id[1] # t
  BY <1>0, RowsDurable
<1>2. ASSUME NEW l \in lines', NEW m \in lines', OneRequest(l, m)
      PROVE  \/ /\ l.id[1] = t /\ m.id[1] = t /\ l.week = w /\ m.week = w
             \/ \E j, k \in lines : /\ j.id = l.id /\ j.week = l.week
                                    /\ k.id = m.id /\ k.week = m.week /\ OneRequest(j, k)
  BY <1>1, <1>2 DEF OneRequest
<1>3. \A l, m \in lines' : OneRequest(l, m) => l.week = m.week
  BY <1>2 DEF RecipeInvariant
<1>4. ASSUME NEW u \in Tx, u # t
      PROVE  WholeTargets(u)'
  <2>0. seen'[u] = seen[u] /\ work'[u] = work[u] /\ Snapshots(u)
    BY <1>0, <1>4, Ended DEF RowsInvariant, Consistent
  <2>1. \A id \in seen[u].lineTargets \cup work[u].lineDel : id[1] # t
    BY <1>0, <2>0, RowTypes, DurableStable DEF Snapshots
  <2>2. \A j, k \in lines : OneRequest(j, k) =>
          /\ j.id \in seen[u].lineTargets => k.id \in seen[u].lineTargets
          /\ j.id \in work[u].lineDel => k.id \in work[u].lineDel
    BY DEF RecipeInvariant, WholeTargets
  <2>3. ASSUME NEW l \in lines', NEW m \in lines', OneRequest(l, m)
        PROVE  /\ l.id \in seen[u].lineTargets => m.id \in seen[u].lineTargets
               /\ l.id \in work[u].lineDel => m.id \in work[u].lineDel
    BY <1>2, <2>1, <2>2, <2>3
  <2> QED BY <2>0, <2>3 DEF WholeTargets, OneRequest
<1>5. WholeTargets(t)'
  BY <1>0 DEF End, TypeOK, WholeTargets, NothingSeen, NoWork
<1> QED BY <1>3, <1>4, <1>5 DEF RecipeInvariant

(* What recompute leaves of the old contributions are whole recipes: those *)
(* it takes are of lines it takes, and their siblings' lines go too.       *)
LEMMA RebuiltRecipes ==
  ASSUME RowsInvariant, RecipeInvariant, NEW t \in Tx, RebuildAndCommit(t), ~Fail(t)
  PROVE  RecipeInvariant'
<1>0. /\ TypeOK /\ pc[t] = "rebuild" /\ End(t, "committed")
      /\ lines' = VisibleLines(t) \cup NewLines(t) /\ VisibleLines(t) \subseteq lines
      /\ contribs' = VisibleContribs(t) \cup NewContribs(t)
  BY DEF RowsInvariant, RebuildAndCommit, At, End, VisibleLines
<1>1. \A n \in NewLines(t) : n.id[1] = t /\ n.week = req[t].week
  BY NewLineRows
<1>2. ASSUME NEW c \in VisibleContribs(t), NEW r \in Recipe, c.ing \in IngredientsOf[r],
             NEW i \in IngredientsOf[r]
      PROVE  \E d \in contribs' : d.occ = c.occ /\ d.ing = i /\ d.line[1] = c.line[1]
  <2>1. PICK d \in contribs : d.occ = c.occ /\ d.ing = i /\ d.line[1] = c.line[1]
    BY <1>2 DEF VisibleContribs, RecipeInvariant, RecipesTogether
  <2>2. CASE d \in work[t].contribDel
    <3>1. PICK l \in lines, m \in lines, o \in occs, p \in occs :
            l.id = c.line /\ m.id = d.line /\ o.id = c.occ /\ p.id = d.occ
      BY <2>1 DEF VisibleContribs, RowsInvariant, LinesExplained, Ids
    <3>2. OneRequest(m, l)
      BY <2>1, <3>1 DEF VisibleContribs, RowsInvariant, SameWeek, OneRequest
    <3>3. d.line \in work[t].lineDel
      BY <1>0, <2>1, <2>2 DEF RowsInvariant, Consistent, Cascades
    <3>4. c.line \in work[t].lineDel
      BY <3>1, <3>2, <3>3 DEF RecipeInvariant, WholeTargets
    <3>5. c \in work[t].contribDel
      BY <1>0, <3>4 DEF VisibleContribs, RowsInvariant, Consistent, Cascades
    <3> QED BY <3>5 DEF VisibleContribs
  <2>3. CASE d \notin work[t].contribDel
    BY <1>0, <2>1, <2>3 DEF VisibleContribs
  <2> QED BY <2>2, <2>3
<1>3. ASSUME NEW c \in NewContribs(t), NEW r \in Recipe, c.ing \in IngredientsOf[r],
             NEW i \in IngredientsOf[r]
      PROVE  \E d \in contribs' : d.occ = c.occ /\ d.ing = i /\ d.line[1] = c.line[1]
  <2>1. \A o \in seen[t].pool : o.recipe \in Recipe
    BY <1>0, SeenWorkType DEF SeenRow, OccRow
  <2> QED BY <1>0, <1>3, <2>1, PoolRecipes DEF NewContribs
<1>4. RecipesTogether'
  BY <1>0, <1>2, <1>3 DEF RecipesTogether
<1> QED BY <1>0, <1>1, <1>4, CommitRecipes

LEMMA EditedRecipes ==
  ASSUME RowsInvariant, RecipeInvariant, NEW t \in Tx, UpdateLine(t), ~Fail(t)
  PROVE  RecipeInvariant'
<1> DEFINE edited(l) == [l EXCEPT !.marks = IF req[t].on THEN @ \cup {req[t].flag}
                                                       ELSE @ \ {req[t].flag}]
<1>0. /\ pc[t] # "committed" /\ End(t, "committed") /\ contribs' = contribs
      /\ lines' = (lines \ Editable(t)) \cup {edited(l) : l \in Editable(t)}
      /\ Editable(t) \subseteq lines
  BY DEF UpdateLine, At, Editable
<1>1. \A l \in Editable(t) : /\ edited(l).id = l.id /\ edited(l).week = l.week
                             /\ edited(l).origin = l.origin
  BY <1>0 DEF RowsInvariant, TypeOK, LineRow
<1> HIDE DEF edited
<1>2. \A l \in lines' : \E k \in lines : k.id = l.id /\ k.week = l.week /\ k.origin = l.origin
  BY <1>0, <1>1
<1>3. RecipesTogether'
  BY <1>0 DEF RecipeInvariant, RecipesTogether
<1> QED BY <1>0, <1>2, <1>3, CommitRecipes

LEMMA AddedRecipes ==
  ASSUME RowsInvariant, RecipeInvariant, NEW t \in Tx, CreateManualLine(t)
  PROVE  RecipeInvariant'
<1> DEFINE line == [id |-> <<t, <<"manual", t>>>>, week |-> req[t].week,
                    key |-> <<"manual", t>>, origin |-> "manual", marks |-> {}]
<1>0. /\ pc[t] # "committed" /\ End(t, "committed") /\ contribs' = contribs
      /\ lines' = lines \cup {line} /\ line.id[1] = t /\ line.origin # "generated"
  BY DEF CreateManualLine, At
<1> HIDE DEF line
<1>1. \A l \in lines' :
        \/ l.id[1] = t /\ (l.origin = "generated" => l.week = 0)
        \/ \E k \in lines : k.id = l.id /\ k.week = l.week /\ k.origin = l.origin
  BY <1>0
<1>2. RecipesTogether'
  BY <1>0 DEF RecipeInvariant, RecipesTogether
<1> QED BY <1>0, <1>1, <1>2, CommitRecipes

LEMMA NextRecipes ==
  RowsInvariant /\ WeekInvariant /\ RecipeInvariant /\ [Next]_vars => RecipeInvariant'
<1> SUFFICES ASSUME RowsInvariant, WeekInvariant, RecipeInvariant, [Next]_vars
             PROVE  RecipeInvariant'
  OBVIOUS
<1>1. CASE UNCHANGED <<occs, lines, contribs, pc, req, seen, work>>
  BY <1>1 DEF RecipeInvariant, WholeTargets, RecipesTogether
<1>2. ASSUME NEW t \in Tx, Private(t) /\ Others(t)
      PROVE  RecipeInvariant'
  BY <1>2, PrivateRecipes
<1>3. ASSUME NEW t \in Tx,
             \/ ~Fail(t) /\ RebuildAndCommit(t)
             \/ ~Fail(t) /\ UpdateLine(t)
             \/ CreateManualLine(t)
      PROVE  RecipeInvariant'
  BY <1>3, RebuiltRecipes, EditedRecipes, AddedRecipes
<1> QED BY <1>1, <1>2, <1>3, StepKinds

(* For an occurrence the grocery list holds every ingredient of a recipe   *)
(* or none, also when requests overlap and the list is no longer the       *)
(* pool's: recompute of one request never leaves half of another's.        *)
THEOREM WholeRecipesAlways == Spec => []WholeRecipes
<1>1. RecipeInvariant => WholeRecipes
  <2> SUFFICES ASSUME RecipeInvariant, NEW o \in occs, NEW r \in Recipe,
                      NEW c \in contribs, c.occ = o.id, c.ing \in IngredientsOf[r],
                      NEW i \in IngredientsOf[r]
               PROVE  i \in {d.ing : d \in {e \in contribs : e.occ = o.id}}
    BY DEF WholeRecipes
  <2> QED BY DEF RecipeInvariant, RecipesTogether
<1>2. Init => RecipeInvariant
  BY InitRecipes
<1>3. RowsInvariant /\ WeekInvariant /\ RecipeInvariant /\ [Next]_vars => RecipeInvariant'
  BY NextRecipes
<1> QED BY <1>1, <1>2, <1>3, InvariantsHold, PTL DEF Spec
=============================================================================
