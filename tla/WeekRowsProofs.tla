--------------------------- MODULE WeekRowsProofs ---------------------------
(***************************************************************************)
(* The rows of WeekTx keep their types and stay consistent for every       *)
(* corpus, any number of weeks, transactions and open requests and any set *)
(* of operations: TypeOK and RowsInvariant are inductive.                  *)
(***************************************************************************)
EXTENDS WeekTxInvariant, TLAPS

-----------------------------------------------------------------------------
(* Rows have their types.                                                  *)

LEMMA RequirementsType ==
  ASSUME NEW pool \in SUBSET OccRow
  PROVE  Requirements(pool) \subseteq [occ : OccId, ing : Ingredient]
<1> SUFFICES ASSUME NEW o \in pool, NEW i \in IngredientsOf[o.recipe]
             PROVE  [occ |-> o.id, ing |-> i] \in [occ : OccId, ing : Ingredient]
  BY DEF Requirements
<1> QED
  BY CorpusAssumption DEF OccRow

LEMMA KeyOfType ==
  ASSUME NEW q \in [occ : OccId, ing : Ingredient]
  PROVE  KeyOf(q) \in Key
<1>1. CASE q.ing \in Unspecified
  BY <1>1 DEF KeyOf, Key
<1>2. CASE q.ing \notin Unspecified
  <2>1. KeyOf(q) = <<"group", GroupOf[q.ing]>>
    BY <1>2 DEF KeyOf
  <2>2. GroupOf[q.ing] \in {GroupOf[i] : i \in Ingredient \ Unspecified}
    BY <1>2
  <2> QED
    BY <2>1, <2>2 DEF Key
<1> QED
  BY <1>1, <1>2

LEMMA LineRowsType ==
  ASSUME NEW t \in 0..MaxTx, NEW w \in Week, NEW pool \in SUBSET OccRow,
         NEW old \in SUBSET [key : Key, marks : SUBSET Flag]
  PROVE  LineRows(t, w, pool, old) \subseteq LineRow
<1> SUFFICES ASSUME NEW q \in Requirements(pool), NEW m, m \subseteq Flag
             PROVE  [id |-> <<t, KeyOf(q)>>, week |-> w, key |-> KeyOf(q),
                     origin |-> "generated", marks |-> m] \in LineRow
  BY DEF LineRows
<1>1. KeyOf(q) \in Key
  BY RequirementsType, KeyOfType
<1> QED
  BY <1>1 DEF LineRow, LineId

LEMMA ContribRowsType ==
  ASSUME NEW t \in 0..MaxTx, NEW pool \in SUBSET OccRow
  PROVE  ContribRows(t, pool) \subseteq ContribRow
<1> SUFFICES ASSUME NEW q \in Requirements(pool)
             PROVE  [line |-> <<t, KeyOf(q)>>, occ |-> q.occ, ing |-> q.ing] \in ContribRow
  BY DEF ContribRows
<1>1. q \in [occ : OccId, ing : Ingredient] /\ KeyOf(q) \in Key
  BY RequirementsType, KeyOfType
<1> QED
  BY <1>1 DEF ContribRow, LineId

LEMMA OccRowsType ==
  ASSUME NEW t \in 0..MaxTx, NEW w \in Week, NEW picks,
         DOMAIN picks \subseteq Nat, \A p \in DOMAIN picks : picks[p] \in Recipe
  PROVE  OccRows(t, w, picks) \subseteq OccRow
BY DEF OccRows, OccRow, OccId

LEMMA ShufflesType ==
  ASSUME NEW p \in Shuffles
  PROVE  DOMAIN p \subseteq Nat /\ \A i \in DOMAIN p : p[i] \in Recipe
<1> PICK n \in 1..Cardinality(Recipe) : p \in [0..(n - 1) -> Recipe]
  BY DEF Shuffles
<1> QED
  OBVIOUS

-----------------------------------------------------------------------------
(* Every step keeps the types.                                             *)

LEMMA EndType ==
  ASSUME TypeOK, NEW t \in Tx, NEW label \in {"committed", "failed"}, End(t, label)
  PROVE  /\ pc' \in [Tx -> {s[2] : s \in Steps}]
         /\ req' \in [Tx -> RequestRow]
         /\ seen' \in [Tx -> SeenRow]
         /\ work' \in [Tx -> WorkRow]
         /\ \A u \in Tx : <<req'[u].op, pc'[u]>> \in Steps
         /\ \A u \in Tx : req'[u].op = "randomSwap" /\ pc'[u] = "update"
                            => seen'[u].recipe \in Recipe
<1>1. <<"none", label>> \in Steps
  BY DEF Steps
<1>2. label \in {s[2] : s \in Steps}
  BY <1>1
<1>3. NoRequest \in RequestRow /\ NoRequest.op = "none"
  BY DEF NoRequest, RequestRow
<1>4. NothingSeen \in SeenRow
  BY DEF NothingSeen, SeenRow
<1>5. NoWork \in WorkRow
  BY DEF NoWork, WorkRow
<1> QED
  BY <1>1, <1>2, <1>3, <1>4, <1>5 DEF End, Goto, TypeOK

LEMMA FailType ==
  ASSUME TypeOK, NEW t \in Tx, Fail(t)
  PROVE  TypeOK'
BY EndType DEF Fail, TypeOK, db

LEMMA BeginType ==
  ASSUME TypeOK, NEW t \in Tx, NEW r \in RequestRow, NEW label, Begin(t, r, label),
         <<r.op, label>> \in Steps, r.op = "randomSwap" => label = "pick"
  PROVE  TypeOK'
<1>1. label \in {s[2] : s \in Steps}
  OBVIOUS
<1> QED
  BY <1>1 DEF Begin, Goto, TypeOK, db

LEMMA RequestType ==
  ASSUME TypeOK, NEW t \in Tx, Request(t)
  PROVE  TypeOK'
<1> USE DEF TypeOK
<1>1. CASE Generate(t)
  <2> PICK p \in Shuffles :
        Begin(t, [op |-> "generate", week |-> today, picks |-> p], "getWeek")
    BY <1>1 DEF Generate
  <2>1. [op |-> "generate", week |-> today, picks |-> p] \in RequestRow
    BY DEF RequestRow
  <2>2. <<"generate", "getWeek">> \in Steps
    BY DEF Steps
  <2> QED
    BY <2>1, <2>2, BeginType
<1>2. CASE Add(t)
  <2> PICK r \in Recipe : Begin(t, [op |-> "add", week |-> today, recipe |-> r], "position")
    BY <1>2 DEF Add
  <2>1. [op |-> "add", week |-> today, recipe |-> r] \in RequestRow
    BY DEF RequestRow
  <2>2. <<"add", "position">> \in Steps
    BY DEF Steps
  <2> QED
    BY <2>1, <2>2, BeginType
<1>3. CASE Remove(t)
  <2> PICK o \in occs : Begin(t, [op |-> "remove", week |-> today, occ |-> o.id], "delete")
    BY <1>3 DEF Remove
  <2>1. [op |-> "remove", week |-> today, occ |-> o.id] \in RequestRow
    BY DEF RequestRow, OccRow
  <2>2. <<"remove", "delete">> \in Steps
    BY DEF Steps
  <2> QED
    BY <2>1, <2>2, BeginType
<1>4. CASE Swap(t)
  <2> PICK o \in occs, r \in Recipe :
        Begin(t, [op |-> "swap", week |-> today, occ |-> o.id, recipe |-> r], "update")
    BY <1>4 DEF Swap
  <2>1. [op |-> "swap", week |-> today, occ |-> o.id, recipe |-> r] \in RequestRow
    BY DEF RequestRow, OccRow
  <2>2. <<"swap", "update">> \in Steps
    BY DEF Steps
  <2> QED
    BY <2>1, <2>2, BeginType
<1>5. CASE RandomSwap(t)
  <2> PICK o \in occs : Begin(t, [op |-> "randomSwap", week |-> today, occ |-> o.id], "pick")
    BY <1>5 DEF RandomSwap
  <2>1. [op |-> "randomSwap", week |-> today, occ |-> o.id] \in RequestRow
    BY DEF RequestRow, OccRow
  <2>2. <<"randomSwap", "pick">> \in Steps
    BY DEF Steps
  <2> QED
    BY <2>1, <2>2, BeginType
<1>6. CASE SetLine(t)
  <2> PICK l \in lines, f \in Flag, on \in BOOLEAN :
        Begin(t, [op |-> "setLine", week |-> today, line |-> l.id, flag |-> f, on |-> on],
              "setLine")
    BY <1>6 DEF SetLine
  <2>1. [op |-> "setLine", week |-> today, line |-> l.id, flag |-> f, on |-> on] \in RequestRow
    BY DEF RequestRow, LineRow
  <2>2. <<"setLine", "setLine">> \in Steps
    BY DEF Steps
  <2> QED
    BY <2>1, <2>2, BeginType
<1>7. CASE AddManualLine(t)
  <2>1. [op |-> "addManual", week |-> today] \in RequestRow
    BY DEF RequestRow
  <2>2. <<"addManual", "addManual">> \in Steps
    BY DEF Steps
  <2> QED
    BY <1>7, <2>1, <2>2, BeginType DEF AddManualLine
<1> QED
  BY <1>1, <1>2, <1>3, <1>4, <1>5, <1>6, <1>7 DEF Request

LEMMA VisibleType ==
  ASSUME TypeOK, NEW t \in Tx
  PROVE  /\ VisibleOccs(t) \subseteq OccRow
         /\ VisibleLines(t) \subseteq LineRow
         /\ VisibleContribs(t) \subseteq ContribRow
         /\ Target(t) \subseteq OccRow
         /\ Orphans(t) \subseteq ContribRow
BY DEF TypeOK, WorkRow, VisibleOccs, VisibleLines, VisibleContribs, Target, Orphans

(* The kinds of request that are at each statement.                        *)
LEMMA StepOps ==
  ASSUME TypeOK, NEW t \in Tx
  PROVE  /\ pc[t] \in {"getWeek", "createWeek", "clear", "clearing"}
              => req[t].op = "generate"
         /\ pc[t] = "cascade" => req[t].op \in {"generate", "remove"}
         /\ pc[t] = "insert" => req[t].op \in {"generate", "add"}
         /\ pc[t] = "position" => req[t].op = "add"
         /\ pc[t] = "delete" => req[t].op = "remove"
         /\ pc[t] = "pick" => req[t].op = "randomSwap"
         /\ pc[t] = "update" => req[t].op \in {"swap", "randomSwap"}
         /\ pc[t] \in Recompute
              => req[t].op \in {"generate", "add", "remove", "swap", "randomSwap"}
         /\ pc[t] = "setLine" => req[t].op = "setLine"
         /\ pc[t] = "addManual" => req[t].op = "addManual"
         /\ t \in Active => req[t].op # "none"
<1>1. <<req[t].op, pc[t]>> \in Steps
  BY DEF TypeOK
<1> QED
  BY <1>1 DEF Steps, Recompute, Active

LEMMA StepNext ==
  /\ \A l \in Recompute : \A op \in {"generate", "add", "remove", "swap", "randomSwap"} :
       <<op, l>> \in Steps
  /\ \A l \in {"getWeek", "createWeek", "clear", "clearing", "cascade", "insert"} :
       <<"generate", l>> \in Steps
  /\ \A l \in {"position", "insert"} : <<"add", l>> \in Steps
  /\ <<"remove", "cascade">> \in Steps
  /\ <<"randomSwap", "update">> \in Steps
BY DEF Steps

LEMMA NewOccsType ==
  ASSUME TypeOK, NEW t \in Tx, pc[t] = "insert"
  PROVE  NewOccs(t) \subseteq OccRow
<1>1. t \in 0..MaxTx
  BY BoundsAssumption DEF Tx
<1>2. CASE req[t].op = "generate"
  <2>1. req[t].picks \in Shuffles /\ req[t].week \in Week
    BY <1>2 DEF TypeOK, RequestRow, NoRequest
  <2> QED
    BY <1>1, <1>2, <2>1, ShufflesType, OccRowsType DEF NewOccs
<1>3. CASE req[t].op = "add"
  <2>1. req[t].recipe \in Recipe /\ req[t].week \in Week
    BY <1>3 DEF TypeOK, RequestRow, NoRequest
  <2>2. seen[t].position \in Nat
    BY DEF TypeOK, SeenRow
  <2> DEFINE picks == [p \in {seen[t].position} |-> req[t].recipe]
  <2>3. DOMAIN picks \subseteq Nat /\ \A p \in DOMAIN picks : picks[p] \in Recipe
    BY <2>1, <2>2
  <2>4. NewOccs(t) = OccRows(t, req[t].week, picks)
    BY <1>3 DEF NewOccs
  <2> HIDE DEF picks
  <2> QED
    BY <1>1, <2>1, <2>3, <2>4, OccRowsType
<1> QED
  BY <1>2, <1>3, StepOps

LEMMA WeekType ==
  ASSUME TypeOK, NEW t \in Tx, req[t].op # "none"
  PROVE  req[t].week \in Week
BY DEF TypeOK, RequestRow, NoRequest

(* A statement that only reads, and one that only writes.                  *)
LEMMA ReadType ==
  ASSUME TypeOK, NEW t \in Tx, NEW label, Goto(t, label), <<req[t].op, label>> \in Steps,
         label # "update",
         NEW s \in SeenRow, seen' = [seen EXCEPT ![t] = s],
         UNCHANGED <<db, today, req, work>>
  PROVE  TypeOK'
<1>1. label \in {x[2] : x \in Steps}
  OBVIOUS
<1> QED
  BY <1>1 DEF Goto, TypeOK, db

LEMMA WriteType ==
  ASSUME TypeOK, NEW t \in Tx, NEW label, Goto(t, label), <<req[t].op, label>> \in Steps,
         label # "update",
         NEW w \in WorkRow, work' = [work EXCEPT ![t] = w],
         UNCHANGED <<db, today, req, seen>>
  PROVE  TypeOK'
<1>1. label \in {x[2] : x \in Steps}
  OBVIOUS
<1> QED
  BY <1>1 DEF Goto, TypeOK, db

LEMMA SeenWorkType ==
  ASSUME TypeOK, NEW t \in Tx
  PROVE  seen[t] \in SeenRow /\ work[t] \in WorkRow
BY DEF TypeOK

(* Generate: getOrCreateWeek and the pool's replacement.                   *)
LEMMA GenerateStatementType ==
  ASSUME TypeOK, NEW t \in Tx,
         GetWeek(t) \/ CreateWeek(t) \/ DeleteWeekRecipes(t) \/ DeletedWeekRecipes(t)
  PROVE  TypeOK'
<1>0. req[t].op = "generate"
  BY StepOps DEF GetWeek, CreateWeek, DeleteWeekRecipes, DeletedWeekRecipes, At
<1>1. CASE GetWeek(t)
  <2> DEFINE label == IF req[t].week \in weeks THEN "clear" ELSE "createWeek"
  <2>1. Goto(t, label) /\ UNCHANGED <<db, today, req, seen, work>>
    BY <1>1 DEF GetWeek
  <2>2. <<req[t].op, label>> \in Steps
    BY <1>0, StepNext
  <2>3. seen' = [seen EXCEPT ![t] = seen[t]]
    BY <2>1 DEF TypeOK
  <2>4. seen[t] \in SeenRow
    BY SeenWorkType
  <2>5. label # "update"
    OBVIOUS
  <2> HIDE DEF label
  <2> QED
    BY <2>1, <2>2, <2>3, <2>4, <2>5, ReadType
<1>2. CASE CreateWeek(t)
  <2>1. CASE Fail(t)
    BY <2>1, FailType
  <2>2. CASE ~Fail(t)
    <3> DEFINE w == [work[t] EXCEPT !.newWeek = TRUE]
    <3>1. w \in WorkRow
      BY SeenWorkType DEF WorkRow
    <3>2. /\ Goto(t, "clear") /\ work' = [work EXCEPT ![t] = w]
          /\ UNCHANGED <<db, today, req, seen>>
      BY <1>2, <2>2 DEF CreateWeek, TypeOK
    <3>3. <<req[t].op, "clear">> \in Steps
      BY <1>0, StepNext
    <3> HIDE DEF w
    <3> QED
      BY <3>1, <3>2, <3>3, WriteType
  <2> QED
    BY <2>1, <2>2
<1>3. CASE DeleteWeekRecipes(t)
  <2> DEFINE s == [seen[t] EXCEPT !.occTargets = Ids(InWeek(VisibleOccs(t), req[t].week))]
  <2>1. s \in SeenRow
    BY SeenWorkType, VisibleType DEF SeenRow, Ids, InWeek, OccRow
  <2>2. /\ Goto(t, "clearing") /\ seen' = [seen EXCEPT ![t] = s]
        /\ UNCHANGED <<db, today, req, work>>
    BY <1>3 DEF DeleteWeekRecipes, TypeOK
  <2>3. <<req[t].op, "clearing">> \in Steps
    BY <1>0, StepNext
  <2> HIDE DEF s
  <2> QED
    BY <1>0, <2>1, <2>2, <2>3, ReadType
<1>4. CASE DeletedWeekRecipes(t)
  <2> DEFINE w == [work[t] EXCEPT !.occDel = seen[t].occTargets \cap Ids(occs)]
  <2>1. w \in WorkRow
    BY SeenWorkType DEF SeenRow, WorkRow
  <2>2. /\ Goto(t, "cascade") /\ work' = [work EXCEPT ![t] = w]
        /\ UNCHANGED <<db, today, req, seen>>
    BY <1>4 DEF DeletedWeekRecipes, TypeOK
  <2>3. <<req[t].op, "cascade">> \in Steps
    BY <1>0, StepNext
  <2> HIDE DEF w
  <2> QED
    BY <2>1, <2>2, <2>3, WriteType
<1> QED
  BY <1>1, <1>2, <1>3, <1>4

(* Deleted occurrences take their contributions with them.                 *)
LEMMA CascadeType ==
  ASSUME TypeOK, NEW t \in Tx, CascadeOccurrence(t) \/ CascadeLines(t)
  PROVE  TypeOK'
<1> DEFINE w == [work[t] EXCEPT !.contribDel = @ \cup Orphans(t)]
<1>1. w \in WorkRow
  BY SeenWorkType, VisibleType DEF WorkRow
<1>2. CASE CascadeOccurrence(t)
  <2> DEFINE label == IF req[t].op = "generate" THEN "insert" ELSE "states"
  <2>1. req[t].op \in {"generate", "remove"}
    BY <1>2, StepOps DEF CascadeOccurrence, At
  <2>2. <<req[t].op, label>> \in Steps
    BY <2>1 DEF Steps, Recompute
  <2>3. /\ Goto(t, label) /\ work' = [work EXCEPT ![t] = w]
        /\ UNCHANGED <<db, today, req, seen>>
    BY <1>2 DEF CascadeOccurrence, TypeOK
  <2>4. label # "update"
    OBVIOUS
  <2> HIDE DEF w, label
  <2> QED
    BY <1>1, <2>2, <2>3, <2>4, WriteType
<1>3. CASE CascadeLines(t)
  <2>1. <<req[t].op, "rebuild">> \in Steps
    BY <1>3, StepOps, StepNext DEF CascadeLines, At, Recompute
  <2>2. /\ Goto(t, "rebuild") /\ work' = [work EXCEPT ![t] = w]
        /\ UNCHANGED <<db, today, req, seen>>
    BY <1>3 DEF CascadeLines, TypeOK
  <2> HIDE DEF w
  <2> QED
    BY <1>1, <2>1, <2>2, WriteType
<1> QED
  BY <1>2, <1>3

(* Add, Remove, Swap and RandomSwap up to recompute.                       *)
LEMMA PositionType ==
  ASSUME TypeOK, NEW t \in Tx, NextWeekRecipePosition(t)
  PROVE  TypeOK'
<1> DEFINE used == {o.position : o \in InWeek(VisibleOccs(t), req[t].week)}
<1>1. used \subseteq Nat
  BY VisibleType DEF InWeek, OccRow
<1>2. PICK p \in {0} \cup {q + 1 : q \in used} : seen' = [seen EXCEPT ![t].position = p]
  BY DEF NextWeekRecipePosition
<1>3. p \in Nat
  BY <1>1, <1>2
<1> DEFINE s == [seen[t] EXCEPT !.position = p]
<1>4. s \in SeenRow
  BY <1>3, SeenWorkType DEF SeenRow
<1>5. /\ Goto(t, "insert") /\ seen' = [seen EXCEPT ![t] = s]
      /\ UNCHANGED <<db, today, req, work>>
  BY <1>2 DEF NextWeekRecipePosition, TypeOK
<1>6. <<req[t].op, "insert">> \in Steps
  BY StepOps, StepNext DEF NextWeekRecipePosition, At
<1> HIDE DEF s
<1> QED
  BY <1>4, <1>5, <1>6, ReadType

LEMMA InsertType ==
  ASSUME TypeOK, NEW t \in Tx, CreateWeekRecipes(t)
  PROVE  TypeOK'
<1>1. CASE Fail(t)
  BY <1>1, FailType
<1>2. CASE ~Fail(t)
  <2> DEFINE w == [work[t] EXCEPT !.occIns = NewOccs(t)]
  <2>1. NewOccs(t) \subseteq OccRow
    BY NewOccsType DEF CreateWeekRecipes, At
  <2>2. w \in WorkRow
    BY <2>1, SeenWorkType DEF WorkRow
  <2>3. /\ Goto(t, "states") /\ work' = [work EXCEPT ![t] = w]
        /\ UNCHANGED <<db, today, req, seen>>
    BY <1>2 DEF CreateWeekRecipes, TypeOK
  <2>4. <<req[t].op, "states">> \in Steps
    BY StepOps, StepNext DEF CreateWeekRecipes, At, Recompute
  <2> HIDE DEF w
  <2> QED
    BY <2>2, <2>3, <2>4, WriteType
<1> QED
  BY <1>1, <1>2

LEMMA DeleteType ==
  ASSUME TypeOK, NEW t \in Tx, DeleteWeekRecipe(t)
  PROVE  TypeOK'
<1>1. CASE Fail(t)
  BY <1>1, FailType
<1>2. CASE ~Fail(t)
  <2> DEFINE w == [work[t] EXCEPT !.occDel = Ids(Target(t))]
  <2>1. w \in WorkRow
    BY SeenWorkType, VisibleType DEF WorkRow, Ids, OccRow
  <2>2. /\ Goto(t, "cascade") /\ work' = [work EXCEPT ![t] = w]
        /\ UNCHANGED <<db, today, req, seen>>
    BY <1>2 DEF DeleteWeekRecipe, TypeOK
  <2>3. <<req[t].op, "cascade">> \in Steps
    BY StepOps, StepNext DEF DeleteWeekRecipe, At
  <2> HIDE DEF w
  <2> QED
    BY <2>1, <2>2, <2>3, WriteType
<1> QED
  BY <1>1, <1>2

LEMMA PickType ==
  ASSUME TypeOK, NEW t \in Tx, Pick(t)
  PROVE  TypeOK'
<1>1. CASE Fail(t)
  BY <1>1, FailType
<1>2. CASE ~Fail(t)
  <2>1. PICK r \in Recipe : seen' = [seen EXCEPT ![t].recipe = r]
    BY <1>2 DEF Pick
  <2> DEFINE s == [seen[t] EXCEPT !.recipe = r]
  <2>2. s \in SeenRow /\ s.recipe \in Recipe
    BY SeenWorkType DEF SeenRow
  <2>3. /\ Goto(t, "update") /\ seen' = [seen EXCEPT ![t] = s]
        /\ UNCHANGED <<db, today, req, work>>
    BY <1>2, <2>1 DEF Pick, TypeOK
  <2>4. <<req[t].op, "update">> \in Steps
    BY StepOps, StepNext DEF Pick, At
  <2>5. "update" \in {x[2] : x \in Steps}
    BY <2>4
  <2> HIDE DEF s
  <2> QED
    BY <2>2, <2>3, <2>4, <2>5 DEF Goto, TypeOK, db
<1> QED
  BY <1>1, <1>2

LEMMA UpdateType ==
  ASSUME TypeOK, NEW t \in Tx, UpdateWeekRecipe(t)
  PROVE  TypeOK'
<1>1. CASE Fail(t)
  BY <1>1, FailType
<1>2. CASE ~Fail(t)
  <2> DEFINE r == IF req[t].op = "swap" THEN req[t].recipe ELSE seen[t].recipe
             w == [work[t] EXCEPT !.occUpd = {[o EXCEPT !.recipe = r] : o \in Target(t)}]
  <2>1. pc[t] = "update" /\ req[t].op \in {"swap", "randomSwap"}
    BY StepOps DEF UpdateWeekRecipe, At
  <2>2. req[t].op = "swap" => req[t].recipe \in Recipe
    BY DEF TypeOK, RequestRow, NoRequest
  <2>3. req[t].op = "randomSwap" => seen[t].recipe \in Recipe
    BY <2>1 DEF TypeOK
  <2>4. r \in Recipe
    BY <2>1, <2>2, <2>3
  <2>5. {[o EXCEPT !.recipe = r] : o \in Target(t)} \subseteq OccRow
    BY <2>4, VisibleType DEF OccRow
  <2>6. w \in WorkRow
    BY <2>5, SeenWorkType DEF WorkRow
  <2>7. /\ Goto(t, "states") /\ work' = [work EXCEPT ![t] = w]
        /\ UNCHANGED <<db, today, req, seen>>
    BY <1>2 DEF UpdateWeekRecipe, TypeOK
  <2>8. <<req[t].op, "states">> \in Steps
    BY <2>1, StepNext DEF Recompute
  <2> HIDE DEF w
  <2> QED
    BY <2>6, <2>7, <2>8, WriteType
<1> QED
  BY <1>1, <1>2

(* recompute up to its inserts.                                            *)
LEMMA RecomputeType ==
  ASSUME TypeOK, NEW t \in Tx,
         ReadStates(t) \/ ReadRequirements(t) \/ DeleteGeneratedLines(t)
           \/ DeletedGeneratedLines(t)
  PROVE  TypeOK'
<1>0. /\ <<req[t].op, "requirements">> \in Steps /\ <<req[t].op, "purge">> \in Steps
      /\ <<req[t].op, "purging">> \in Steps /\ <<req[t].op, "uncontribute">> \in Steps
  BY StepOps, StepNext
     DEF ReadStates, ReadRequirements, DeleteGeneratedLines, DeletedGeneratedLines, At, Recompute
<1>1. CASE ReadStates(t)
  <2> DEFINE s == [seen[t] EXCEPT !.marks =
                {[key |-> l.key, marks |-> l.marks] : l \in Generated(lines, req[t].week)}]
  <2>1. Generated(lines, req[t].week) \subseteq LineRow
    BY DEF Generated, InWeek, TypeOK
  <2>2. s \in SeenRow
    BY <2>1, SeenWorkType DEF SeenRow, LineRow
  <2>3. /\ Goto(t, "requirements") /\ seen' = [seen EXCEPT ![t] = s]
        /\ UNCHANGED <<db, today, req, work>>
    BY <1>1 DEF ReadStates, TypeOK
  <2> HIDE DEF s
  <2> QED
    BY <1>0, <2>2, <2>3, ReadType
<1>2. CASE ReadRequirements(t)
  <2> DEFINE s == [seen[t] EXCEPT !.pool = InWeek(VisibleOccs(t), req[t].week)]
  <2>1. s \in SeenRow
    BY SeenWorkType, VisibleType DEF SeenRow, InWeek
  <2>2. /\ Goto(t, "purge") /\ seen' = [seen EXCEPT ![t] = s]
        /\ UNCHANGED <<db, today, req, work>>
    BY <1>2 DEF ReadRequirements, TypeOK
  <2> HIDE DEF s
  <2> QED
    BY <1>0, <2>1, <2>2, ReadType
<1>3. CASE DeleteGeneratedLines(t)
  <2> DEFINE s == [seen[t] EXCEPT !.lineTargets = Ids(Generated(lines, req[t].week))]
  <2>1. Generated(lines, req[t].week) \subseteq LineRow
    BY DEF Generated, InWeek, TypeOK
  <2>2. s \in SeenRow
    BY <2>1, SeenWorkType DEF SeenRow, Ids, LineRow
  <2>3. /\ Goto(t, "purging") /\ seen' = [seen EXCEPT ![t] = s]
        /\ UNCHANGED <<db, today, req, work>>
    BY <1>3 DEF DeleteGeneratedLines, TypeOK
  <2> HIDE DEF s
  <2> QED
    BY <1>0, <2>2, <2>3, ReadType
<1>4. CASE DeletedGeneratedLines(t)
  <2> DEFINE w == [work[t] EXCEPT !.lineDel = seen[t].lineTargets \cap Ids(lines)]
  <2>1. w \in WorkRow
    BY SeenWorkType DEF SeenRow, WorkRow
  <2>2. /\ Goto(t, "uncontribute") /\ work' = [work EXCEPT ![t] = w]
        /\ UNCHANGED <<db, today, req, seen>>
    BY <1>4 DEF DeletedGeneratedLines, TypeOK
  <2> HIDE DEF w
  <2> QED
    BY <1>0, <2>1, <2>2, WriteType
<1> QED
  BY <1>1, <1>2, <1>3, <1>4

LEMMA RebuildType ==
  ASSUME TypeOK, NEW t \in Tx, RebuildAndCommit(t)
  PROVE  TypeOK'
<1>1. CASE Fail(t)
  BY <1>1, FailType
<1>2. CASE ~Fail(t)
  <2>0. t \in 0..MaxTx
    BY BoundsAssumption DEF Tx
  <2>1. req[t].week \in Week
    BY StepOps, WeekType DEF RebuildAndCommit, At, Recompute
  <2>2. seen[t].pool \subseteq OccRow /\ seen[t].marks \subseteq [key : Key, marks : SUBSET Flag]
    BY SeenWorkType DEF SeenRow
  <2>3. NewLines(t) \subseteq LineRow
    BY <2>0, <2>1, <2>2, LineRowsType DEF NewLines
  <2>4. NewContribs(t) \subseteq ContribRow
    BY <2>0, <2>2, ContribRowsType DEF NewContribs
  <2>5. /\ weeks' \subseteq Week /\ occs' \subseteq OccRow
        /\ lines' \subseteq LineRow /\ contribs' \subseteq ContribRow
        /\ today' \in Week /\ End(t, "committed")
    BY <1>2, <2>1, <2>3, <2>4, VisibleType DEF RebuildAndCommit, TypeOK
  <2> QED
    BY <2>5, EndType DEF TypeOK
<1> QED
  BY <1>1, <1>2

(* Checklist edits.                                                        *)
LEMMA ChecklistEditType ==
  ASSUME TypeOK, NEW t \in Tx, UpdateLine(t) \/ CreateManualLine(t)
  PROVE  TypeOK'
<1>0. t \in 0..MaxTx
  BY BoundsAssumption DEF Tx
<1>1. CASE UpdateLine(t)
  <2>1. CASE Fail(t)
    BY <2>1, FailType
  <2>2. CASE ~Fail(t)
    <3>1. req[t].flag \in Flag
      BY <1>1, StepOps DEF UpdateLine, At, TypeOK, RequestRow, NoRequest
    <3> DEFINE edited(l) == [l EXCEPT !.marks = IF req[t].on THEN @ \cup {req[t].flag}
                                                           ELSE @ \ {req[t].flag}]
    <3>2. \A l \in LineRow : edited(l) \in LineRow
      BY <3>1 DEF LineRow
    <3>3. lines' = (lines \ Editable(t)) \cup {edited(l) : l \in Editable(t)}
      BY <1>1, <2>2 DEF UpdateLine
    <3>4. Editable(t) \subseteq LineRow /\ lines \subseteq LineRow
      BY DEF Editable, TypeOK
    <3>5. lines' \subseteq LineRow
      BY <3>2, <3>3, <3>4
    <3>6. End(t, "committed") /\ UNCHANGED <<today, weeks, occs, contribs>>
      BY <1>1, <2>2 DEF UpdateLine
    <3> QED
      BY <3>5, <3>6, EndType DEF TypeOK
  <2> QED
    BY <2>1, <2>2
<1>2. CASE CreateManualLine(t)
  <2>1. req[t].week \in Week
    BY <1>2, StepOps, WeekType DEF CreateManualLine, At
  <2>2. <<"manual", t>> \in Key
    BY DEF Key
  <2>3. lines' \subseteq LineRow
    BY <1>0, <1>2, <2>1, <2>2 DEF CreateManualLine, LineRow, LineId, TypeOK
  <2>4. End(t, "committed") /\ UNCHANGED <<today, weeks, occs, contribs>>
    BY <1>2 DEF CreateManualLine
  <2> QED
    BY <2>3, <2>4, EndType DEF TypeOK
<1> QED
  BY <1>1, <1>2

LEMMA InitType == Init => TypeOK
<1> SUFFICES ASSUME Init
             PROVE  TypeOK
  OBVIOUS
<1>0. 0 \in Week /\ 0 \in 0..MaxTx
  BY BoundsAssumption DEF Week
<1>1. PICK p \in Pools : weeks = (IF DOMAIN p = {} THEN {} ELSE {0}) /\ occs = OccRows(0, 0, p)
  BY DEF Init
<1>2. DOMAIN p \subseteq Nat /\ \A i \in DOMAIN p : p[i] \in Recipe
  BY BoundsAssumption
<1>3. occs \subseteq OccRow
  BY <1>0, <1>1, <1>2, OccRowsType
<1>4. lines \subseteq LineRow
  BY <1>0, <1>3, LineRowsType DEF Init
<1>5. contribs \subseteq ContribRow
  BY <1>0, <1>3, ContribRowsType DEF Init
<1>6. <<"none", "idle">> \in Steps /\ "idle" \in {s[2] : s \in Steps}
  <2>1. <<"none", "idle">> \in Steps
    BY DEF Steps
  <2> QED
    BY <2>1
<1>7. NoRequest \in RequestRow /\ NoRequest.op = "none"
  BY DEF NoRequest, RequestRow
<1>8. NothingSeen \in SeenRow
  BY DEF NothingSeen, SeenRow
<1>9. NoWork \in WorkRow
  BY DEF NoWork, WorkRow
<1> QED
  BY <1>0, <1>1, <1>3, <1>4, <1>5, <1>6, <1>7, <1>8, <1>9 DEF Init, TypeOK

LEMMA NextType == TypeOK /\ [Next]_vars => TypeOK'
<1> SUFFICES ASSUME TypeOK, [Next]_vars
             PROVE  TypeOK'
  OBVIOUS
<1>1. CASE Midnight
  <2>1. today' \in Week
    BY <1>1, BoundsAssumption DEF Midnight, TypeOK, Week
  <2> QED
    BY <1>1, <2>1 DEF Midnight, TypeOK, db
<1>2. CASE \E t \in Tx : Request(t)
  BY <1>2, RequestType
<1>3. CASE \E t \in Tx : Statement(t)
  BY <1>3, GenerateStatementType, CascadeType, PositionType, InsertType, DeleteType, PickType,
     UpdateType, RecomputeType, RebuildType, ChecklistEditType DEF Statement
<1>4. CASE \E t \in Tx : DeadlockVictim(t) \/ Cancel(t)
  BY <1>4, FailType DEF DeadlockVictim, Cancel
<1>5. CASE UNCHANGED vars
  BY <1>5 DEF vars, TypeOK
<1> QED
  BY <1>1, <1>2, <1>3, <1>4, <1>5 DEF Next

(* Every value in every state has its type: in particular a transaction is *)
(* only ever at a statement its request issues, and RandomSwap writes a    *)
(* recipe it has chosen.                                                   *)
THEOREM TypeCorrect == Spec => []TypeOK
<1>1. Init => TypeOK
  BY InitType
<1>2. TypeOK /\ [Next]_vars => TypeOK'
  BY NextType
<1> QED
  BY <1>1, <1>2, PTL DEF Spec

-----------------------------------------------------------------------------
(* Rows stay consistent with one another.                                  *)

(* A row stays durable while no transaction leaves "committed".            *)
LEMMA DurableStable ==
  ASSUME TypeOK, NEW t \in Tx, pc[t] # "committed", NEW label, Goto(t, label),
         NEW id, id[1] \in 0..MaxTx, Durable(id)
  PROVE  Durable(id)' /\ id[1] # t
<1>1. CASE id[1] = 0
  BY <1>1 DEF Durable, Tx
<1>2. CASE id[1] # 0
  <2>1. id[1] \in Tx
    BY <1>2, BoundsAssumption DEF Tx
  <2>2. pc[id[1]] = "committed" /\ id[1] # t
    BY <1>2 DEF Durable
  <2>3. pc'[id[1]] = "committed"
    BY <2>1, <2>2 DEF Goto, TypeOK
  <2> QED
    BY <2>2, <2>3 DEF Durable
<1> QED
  BY <1>1, <1>2

LEMMA RowTypes ==
  ASSUME TypeOK, NEW t \in Tx
  PROVE  /\ \A o \in occs : o.id[1] \in 0..MaxTx
         /\ \A l \in lines : l.id[1] \in 0..MaxTx
         /\ \A c \in contribs : c.line[1] \in 0..MaxTx
         /\ \A id \in seen[t].occTargets : id[1] \in 0..MaxTx
         /\ \A id \in seen[t].lineTargets : id[1] \in 0..MaxTx
         /\ \A id \in work[t].occDel : id[1] \in 0..MaxTx
         /\ \A id \in work[t].lineDel : id[1] \in 0..MaxTx
         /\ \A c \in work[t].contribDel : c.line[1] \in 0..MaxTx
<1>1. occs \subseteq OccRow /\ lines \subseteq LineRow /\ contribs \subseteq ContribRow
  BY DEF TypeOK
<1>2. seen[t] \in SeenRow /\ work[t] \in WorkRow
  BY SeenWorkType
<1>3. /\ \A id \in OccId : id[1] \in 0..MaxTx
      /\ \A id \in LineId : id[1] \in 0..MaxTx
  BY DEF OccId, LineId
<1> QED
  BY <1>1, <1>2, <1>3 DEF OccRow, LineRow, ContribRow, SeenRow, WorkRow

(* A step of t that leaves the committed rows alone: only what it says     *)
(* about t is left to show.                                                *)
LEMMA OthersConsistent ==
  ASSUME RowsInvariant, NEW t \in Tx, pc[t] # "committed", NEW label, Goto(t, label),
         NEW u \in Tx, u # t,
         req'[u] = req[u], seen'[u] = seen[u], work'[u] = work[u],
         UNCHANGED <<occs, lines, contribs>>
  PROVE  Consistent(u)'
<1>0. TypeOK /\ Consistent(u)
  BY DEF RowsInvariant
<1>1. pc'[u] = pc[u]
  BY <1>0 DEF Goto, TypeOK
<1>2. OwnWork(u)'
  BY <1>0, <1>1 DEF Consistent, OwnWork, Active
<1>3. Snapshots(u)'
  <2>1. Snapshots(u)
    BY <1>0 DEF Consistent
  <2>2. \A id : id[1] \in 0..MaxTx /\ Durable(id) => Durable(id)'
    BY <1>0, DurableStable
  <2> HIDE DEF Durable
  <2> QED
    BY <1>0, <2>1, <2>2, RowTypes DEF Snapshots
<1>4. Places(u)' /\ Cascades(u)'
  BY <1>0, <1>1 DEF Consistent, Places, Cascades
<1> QED
  BY <1>2, <1>3, <1>4 DEF Consistent

LEMMA Frame ==
  ASSUME RowsInvariant, TypeOK', NEW t \in Tx, pc[t] # "committed", NEW label, Goto(t, label),
         \A u \in Tx \ {t} : req'[u] = req[u] /\ seen'[u] = seen[u] /\ work'[u] = work[u],
         UNCHANGED <<occs, lines, contribs>>,
         Consistent(t)', \A u \in Tx \ {t} : Apart(t, u)'
  PROVE  RowsInvariant'
<1>0. TypeOK
  BY DEF RowsInvariant
<1>1. RowIdentity'
  <2>1. \A id : id[1] \in 0..MaxTx /\ Durable(id) => Durable(id)'
    BY <1>0, DurableStable
  <2> HIDE DEF Durable
  <2> QED
    BY <1>0, <2>1, RowTypes DEF RowsInvariant, RowIdentity
<1>2. SameWeek' /\ UniqueRows' /\ LinesExplained'
  BY DEF RowsInvariant, SameWeek, UniqueRows, LinesExplained
<1>3. \A u \in Tx : Consistent(u)'
  BY OthersConsistent
<1>4. ASSUME NEW v \in Tx, NEW u \in Tx, v # u
      PROVE  Apart(v, u)'
  <2>1. CASE v = t
    BY <2>1, <1>4
  <2>2. CASE u = t
    <3>1. Apart(t, v)'
      BY <2>2, <1>4
    <3> QED
      BY <2>2, <3>1 DEF Apart, SamePlace
  <2>3. CASE v # t /\ u # t
    BY <2>3, <1>4 DEF RowsInvariant, Apart, Held
  <2> QED
    BY <2>1, <2>2, <2>3
<1> QED
  BY <1>1, <1>2, <1>3, <1>4 DEF RowsInvariant

-----------------------------------------------------------------------------
(* Steps that leave the committed rows alone.                              *)

(* Durable ids of t's own snapshots and deletions stay durable.            *)
LEMMA StillDurable ==
  ASSUME TypeOK, NEW t \in Tx, pc[t] # "committed", NEW label, Goto(t, label), Snapshots(t)
  PROVE  /\ \A id \in seen[t].occTargets : Durable(id)'
         /\ \A id \in seen[t].lineTargets : Durable(id)'
         /\ \A id \in work[t].occDel : Durable(id)'
         /\ \A id \in work[t].lineDel : Durable(id)'
         /\ \A c \in work[t].contribDel : Durable(c.line)'
<1>1. \A id : id[1] \in 0..MaxTx /\ Durable(id) => Durable(id)'
  BY DurableStable
<1> HIDE DEF Durable
<1> QED
  BY <1>1, RowTypes DEF Snapshots

LEMMA RowsDurable ==
  ASSUME RowsInvariant, NEW t \in Tx, pc[t] # "committed", NEW label, Goto(t, label)
  PROVE  /\ \A o \in occs : Durable(o.id)'
         /\ \A l \in lines : Durable(l.id)'
         /\ \A o \in occs : o.id[1] # t
         /\ \A l \in lines : l.id[1] # t
         /\ \A c \in contribs : Durable(c.line)' /\ c.line[1] # t
<1>0. TypeOK /\ RowIdentity /\ LinesExplained
  BY DEF RowsInvariant
<1>1. \A id : id[1] \in 0..MaxTx /\ Durable(id) => Durable(id)' /\ id[1] # t
  BY <1>0, DurableStable
<1>2. \A c \in contribs : \E l \in lines : c.line = l.id
  BY <1>0 DEF LinesExplained, Ids
<1> HIDE DEF Durable
<1> QED
  BY <1>0, <1>1, <1>2, RowTypes DEF RowIdentity

(* Reads, and the flag of a new week.                                      *)
LEMMA Quiet ==
  ASSUME RowsInvariant, TypeOK', NEW t \in Tx, NEW label, Goto(t, label),
         <<pc[t], label>> \in {<<"getWeek", "clear">>, <<"getWeek", "createWeek">>,
                               <<"createWeek", "clear">>, <<"position", "insert">>,
                               <<"pick", "update">>, <<"states", "requirements">>,
                               <<"requirements", "purge">>},
         \A u \in Tx \ {t} : seen'[u] = seen[u] /\ work'[u] = work[u],
         UNCHANGED <<occs, lines, contribs, req>>,
         seen'[t].occTargets = seen[t].occTargets,
         seen'[t].lineTargets = seen[t].lineTargets,
         work'[t].occIns = work[t].occIns, work'[t].occUpd = work[t].occUpd,
         work'[t].occDel = work[t].occDel, work'[t].lineDel = work[t].lineDel,
         work'[t].contribDel = work[t].contribDel
  PROVE  RowsInvariant'
<1>0. TypeOK /\ Consistent(t) /\ pc[t] # "committed"
  BY DEF RowsInvariant
<1>1. pc'[t] = label
  BY <1>0 DEF Goto, TypeOK
<1>2. OwnWork(t)'
  BY <1>0, <1>1 DEF Consistent, OwnWork, Written, Recompute, Active
<1>3. Snapshots(t)'
  BY <1>0, StillDurable DEF Consistent, Snapshots
<1>4. Places(t)'
  BY <1>0 DEF Consistent, Places
<1>5. Cascades(t)'
  BY <1>0, <1>1 DEF Consistent, OwnWork, Cascades, Written, Recompute
<1>6. \A u \in Tx \ {t} : Apart(t, u)'
  BY DEF RowsInvariant, Apart, Held
<1> QED
  BY <1>0, <1>2, <1>3, <1>4, <1>5, <1>6, Frame DEF Consistent

(* Requests start and rollbacks end with nothing written.                  *)
LEMMA Blank ==
  ASSUME RowsInvariant, TypeOK', NEW t \in Tx, pc[t] # "committed", NEW label, Goto(t, label),
         label \notin {"committed", "rebuild", "purging", "uncontribute"} \cup Written,
         \A u \in Tx \ {t} : req'[u] = req[u] /\ seen'[u] = seen[u] /\ work'[u] = work[u],
         UNCHANGED <<occs, lines, contribs>>,
         seen'[t] = NothingSeen, work'[t] = NoWork
  PROVE  RowsInvariant'
<1>0. pc'[t] = label
  BY DEF Goto, RowsInvariant, TypeOK
<1>1. OwnWork(t)'
  BY DEF OwnWork, NoWork
<1>2. Snapshots(t)' /\ Places(t)'
  BY DEF Snapshots, Places, NoWork, NothingSeen
<1>3. Cascades(t)'
  BY <1>0 DEF Cascades, NoWork
<1>4. \A u \in Tx \ {t} : Apart(t, u)'
  BY DEF Apart, Held, NoWork, Ids
<1> QED
  BY <1>1, <1>2, <1>3, <1>4, Frame DEF Consistent

(* DELETE FROM week_recipes: the rows to delete, then their locks.         *)
LEMMA ClearRows ==
  ASSUME RowsInvariant, TypeOK', NEW t \in Tx, DeleteWeekRecipes(t)
  PROVE  RowsInvariant'
<1>0. TypeOK /\ Consistent(t) /\ pc[t] = "clear"
  BY DEF RowsInvariant, DeleteWeekRecipes, At
<1>1. /\ Goto(t, "clearing") /\ pc'[t] = "clearing"
      /\ UNCHANGED <<occs, lines, contribs, req, work>>
      /\ \A u \in Tx \ {t} : seen'[u] = seen[u]
      /\ seen'[t].occTargets = Ids(InWeek(VisibleOccs(t), req[t].week))
      /\ seen'[t].lineTargets = seen[t].lineTargets
  <2>1. seen[t] \in SeenRow
    BY <1>0, SeenWorkType
  <2> QED
    BY <1>0, <2>1 DEF DeleteWeekRecipes, db, Goto, TypeOK, SeenRow
<1>2. work[t].occUpd = {} /\ work[t].occIns = {} /\ work[t].occDel = {} /\ work[t].contribDel = {}
  BY <1>0 DEF Consistent, OwnWork, Recompute, Written
<1>3. VisibleOccs(t) = occs
  BY <1>2 DEF VisibleOccs, Ids
<1>4. OwnWork(t)'
  BY <1>0, <1>1, <1>2 DEF Consistent, OwnWork, Active
<1>5. Snapshots(t)'
  <2>1. \A o \in occs : Durable(o.id)' /\ o.id[1] # t
    BY <1>0, <1>1, RowsDurable
  <2>2. \A o, p \in occs : o.id = p.id => o = p
    BY DEF RowsInvariant, RowIdentity
  <2> HIDE DEF Durable
  <2> QED
    BY <1>0, <1>1, <1>2, <1>3, <2>1, <2>2, StillDurable DEF Consistent, Snapshots, Ids, InWeek
<1>6. Places(t)'
  BY <1>0, <1>1 DEF Consistent, Places
<1>7. Cascades(t)'
  BY <1>1, <1>2 DEF Cascades, Written, Recompute
<1>8. \A u \in Tx \ {t} : Apart(t, u)'
  BY <1>1 DEF RowsInvariant, Apart, Held
<1> QED
  BY <1>0, <1>1, <1>4, <1>5, <1>6, <1>7, <1>8, Frame DEF Consistent

(* t takes rows of its week out of week_recipes that nobody else holds.    *)
LEMMA TakeRows ==
  ASSUME RowsInvariant, TypeOK', NEW t \in Tx,
         pc[t] \in {"clearing", "delete"}, Goto(t, "cascade"),
         req[t].op \in {"generate", "remove"},
         work' = [work EXCEPT ![t].occDel = work'[t].occDel], UNCHANGED <<db, today, req, seen>>,
         \A id \in work'[t].occDel : \E o \in occs : o.id = id /\ o.week = req[t].week,
         \A u \in Tx \ {t} : work'[t].occDel \cap Held(u) = {}
  PROVE  RowsInvariant'
<1>0. TypeOK /\ Consistent(t) /\ pc[t] # "committed" /\ work[t] \in WorkRow
  BY SeenWorkType DEF RowsInvariant
<1>1. /\ pc'[t] = "cascade" /\ UNCHANGED <<occs, lines, contribs, req, seen>>
      /\ \A u \in Tx \ {t} : work'[u] = work[u]
      /\ work'[t].lineDel = work[t].lineDel
      /\ work'[t].occIns = work[t].occIns /\ work'[t].occUpd = work[t].occUpd
      /\ work'[t].contribDel = work[t].contribDel
  BY <1>0 DEF db, Goto, TypeOK, WorkRow
<1>2. work[t].occUpd = {} /\ work[t].occIns = {} /\ work[t].contribDel = {} /\ work[t].lineDel = {}
  BY <1>0 DEF Consistent, OwnWork, Recompute, Written
<1>3. OwnWork(t)'
  BY <1>0, <1>1, <1>2 DEF OwnWork, Active
<1>4. Snapshots(t)'
  <2>1. \A o \in occs : Durable(o.id)'
    BY <1>0, RowsDurable
  <2>2. \A o, p \in occs : o.id = p.id => o = p
    BY DEF RowsInvariant, RowIdentity
  <2> HIDE DEF Durable
  <2> QED
    BY <1>0, <1>1, <1>2, <2>1, <2>2, StillDurable DEF Consistent, Snapshots
<1>5. Places(t)'
  BY <1>1, <1>2 DEF Places
<1>6. Cascades(t)'
  BY <1>1, <1>2 DEF Cascades, Written, Recompute
<1>7. \A u \in Tx \ {t} : Apart(t, u)'
  BY <1>1, <1>2 DEF Apart, Held, Ids
<1> QED
  BY <1>0, <1>1, <1>3, <1>4, <1>5, <1>6, <1>7, Frame DEF Consistent

(* Nobody else holds a row t is not made to wait for.                      *)
LEMMA NotBlocked ==
  ASSUME RowsInvariant, NEW t \in Tx, WaitsFor(t) = {}, NEW u \in Tx, u # t
  PROVE  ~Blocks(u, t) \/ work[u] = NoWork
BY DEF WaitsFor, RowsInvariant, Consistent, OwnWork

LEMMA ClearedRows ==
  ASSUME RowsInvariant, TypeOK', NEW t \in Tx, DeletedWeekRecipes(t)
  PROVE  RowsInvariant'
<1> DEFINE rows == seen[t].occTargets \cap Ids(occs)
<1>0. TypeOK /\ Snapshots(t) /\ pc[t] = "clearing" /\ req[t].op = "generate"
  BY StepOps DEF RowsInvariant, Consistent, DeletedWeekRecipes, At
<1>1. \A id \in rows : \E o \in occs : o.id = id /\ o.week = req[t].week
  BY <1>0 DEF Snapshots, Ids
<1>2. ASSUME NEW u \in Tx \ {t}
      PROVE  rows \cap Held(u) = {}
  <2>1. CASE ~Blocks(u, t)
    BY <1>0, <2>1 DEF Blocks, Held
  <2>2. CASE work[u] = NoWork
    BY <2>2 DEF Held, NoWork, Ids
  <2> QED
    BY <2>1, <2>2, NotBlocked DEF DeletedWeekRecipes, At
<1>3. /\ Goto(t, "cascade") /\ work' = [work EXCEPT ![t].occDel = rows]
      /\ UNCHANGED <<db, today, req, seen>> /\ work'[t].occDel = rows
  BY <1>0, SeenWorkType DEF DeletedWeekRecipes, TypeOK, WorkRow
<1>4. \A u \in Tx \ {t} : rows \cap Held(u) = {}
  BY <1>2
<1>5. pc[t] \in {"clearing", "delete"} /\ req[t].op \in {"generate", "remove"}
  BY <1>0
<1> HIDE DEF rows
<1> QED
  BY <1>1, <1>3, <1>4, <1>5, TakeRows

LEMMA DeletedRow ==
  ASSUME RowsInvariant, TypeOK', NEW t \in Tx, DeleteWeekRecipe(t), ~Fail(t)
  PROVE  RowsInvariant'
<1> DEFINE rows == Ids(Target(t))
<1>0. TypeOK /\ OwnWork(t) /\ pc[t] = "delete" /\ req[t].op = "remove"
  BY StepOps DEF RowsInvariant, Consistent, DeleteWeekRecipe, At
<1>1. \A id \in rows : \E o \in occs : o.id = id /\ o.week = req[t].week
  <2>1. work[t].occUpd = {} /\ work[t].occIns = {} 
    BY <1>0 DEF OwnWork, Recompute
  <2> QED
    BY <2>1 DEF Target, VisibleOccs, Ids
<1>2. ASSUME NEW u \in Tx \ {t}
      PROVE  rows \cap Held(u) = {}
  <2>0. rows \subseteq {req[t].occ}
    BY DEF Target, Ids
  <2>1. CASE ~Blocks(u, t)
    BY <1>0, <2>0, <2>1 DEF Blocks, Held
  <2>2. CASE work[u] = NoWork
    BY <2>2 DEF Held, NoWork, Ids
  <2> QED
    BY <2>1, <2>2, NotBlocked DEF DeleteWeekRecipe, At
<1>3. /\ Goto(t, "cascade") /\ work' = [work EXCEPT ![t].occDel = rows]
      /\ UNCHANGED <<db, today, req, seen>> /\ work'[t].occDel = rows
  BY <1>0, SeenWorkType DEF DeleteWeekRecipe, TypeOK, WorkRow
<1>4. \A u \in Tx \ {t} : rows \cap Held(u) = {}
  BY <1>2
<1>5. pc[t] \in {"clearing", "delete"} /\ req[t].op \in {"generate", "remove"}
  BY <1>0
<1> HIDE DEF rows
<1> QED
  BY <1>1, <1>3, <1>4, <1>5, TakeRows

(* The cascade from the deleted occurrences.                               *)
LEMMA CascadedOccurrences ==
  ASSUME RowsInvariant, TypeOK', NEW t \in Tx, CascadeOccurrence(t)
  PROVE  RowsInvariant'
<1> DEFINE label == IF req[t].op = "generate" THEN "insert" ELSE "states"
<1>0. TypeOK /\ Consistent(t) /\ pc[t] = "cascade" /\ work[t] \in WorkRow
  BY SeenWorkType DEF RowsInvariant, CascadeOccurrence, At
<1>1. /\ Goto(t, label) /\ pc'[t] = label
      /\ UNCHANGED <<occs, lines, contribs, req, seen>>
      /\ \A u \in Tx \ {t} : work'[u] = work[u]
      /\ work'[t].occDel = work[t].occDel /\ work'[t].lineDel = work[t].lineDel
      /\ work'[t].occIns = work[t].occIns /\ work'[t].occUpd = work[t].occUpd
      /\ work'[t].contribDel = work[t].contribDel \cup Orphans(t)
  BY <1>0 DEF CascadeOccurrence, db, Goto, TypeOK, WorkRow
<1>2. work[t].occUpd = {} /\ work[t].occIns = {} /\ work[t].contribDel = {} /\ work[t].lineDel = {}
  BY <1>0 DEF Consistent, OwnWork, Recompute, Written
<1>3. work'[t].contribDel = {c \in contribs : c.occ \in work[t].occDel}
  BY <1>1, <1>2 DEF Orphans, VisibleContribs
<1>4. label \in Written /\ label \notin {"purging", "uncontribute", "rebuild"}
  BY DEF Written, Recompute
<1> HIDE DEF label
<1>5. OwnWork(t)'
  BY <1>0, <1>1, <1>2, <1>4 DEF Consistent, OwnWork, Active, Written, Recompute
<1>6. Snapshots(t)'
  <2>1. \A c \in contribs : Durable(c.line)'
    BY <1>0, <1>1, RowsDurable
  <2> HIDE DEF Durable
  <2> QED
    BY <1>0, <1>1, <1>3, <2>1, StillDurable DEF Consistent, Snapshots
<1>7. Places(t)'
  BY <1>1, <1>2 DEF Places
<1>8. Cascades(t)'
  BY <1>1, <1>2, <1>3, <1>4 DEF Cascades
<1>9. \A u \in Tx \ {t} : Apart(t, u)'
  BY <1>1 DEF RowsInvariant, Apart, Held
<1> QED
  BY <1>0, <1>1, <1>5, <1>6, <1>7, <1>8, <1>9, Frame DEF Consistent

(* What Generate and Add insert: one row per position of one week.         *)
LEMMA NewOccsRows ==
  ASSUME NEW t \in Tx
  PROVE  /\ \A n \in NewOccs(t) : n.id = <<t, n.position>> /\ n.week = req[t].week
         /\ \A m, n \in NewOccs(t) : SamePlace(m, n) => m = n
BY DEF NewOccs, OccRows, SamePlace

LEMMA InsertedOccurrences ==
  ASSUME RowsInvariant, TypeOK', NEW t \in Tx, CreateWeekRecipes(t), ~Fail(t)
  PROVE  RowsInvariant'
<1>0. /\ TypeOK /\ Consistent(t) /\ pc[t] = "insert" /\ work[t] \in WorkRow
      /\ req[t].op \in {"generate", "add"}
  BY SeenWorkType, StepOps DEF RowsInvariant, CreateWeekRecipes, At
<1>1. /\ Goto(t, "states") /\ pc'[t] = "states"
      /\ UNCHANGED <<occs, lines, contribs, req, seen>>
      /\ \A u \in Tx \ {t} : work'[u] = work[u]
      /\ work'[t].occDel = work[t].occDel /\ work'[t].lineDel = work[t].lineDel
      /\ work'[t].occIns = NewOccs(t) /\ work'[t].occUpd = work[t].occUpd
      /\ work'[t].contribDel = work[t].contribDel
  BY <1>0 DEF CreateWeekRecipes, db, Goto, TypeOK, WorkRow
<1>2. work[t].occUpd = {} /\ work[t].lineDel = {}
  BY <1>0 DEF Consistent, OwnWork, Recompute, Written
<1>3. OwnWork(t)'
  BY <1>0, <1>1, <1>2, NewOccsRows DEF Consistent, OwnWork, Active, Written, Recompute
<1>4. Snapshots(t)'
  BY <1>0, <1>1, StillDurable DEF Consistent, Snapshots
<1>5. Places(t)'
  <2>1. \A n \in NewOccs(t), o \in VisibleOccs(t) : ~SamePlace(o, n)
    BY DEF CreateWeekRecipes
  <2>2. \A n \in NewOccs(t), o \in occs : SamePlace(o, n) => o.id \in work[t].occDel
    BY <1>2, <2>1 DEF VisibleOccs, Ids
  <2> QED
    BY <1>1, <1>2, <2>2, NewOccsRows DEF Places, SamePlace
<1>6. Cascades(t)'
  BY <1>0, <1>1 DEF Consistent, Cascades, Written, Recompute
<1>7. ASSUME NEW u \in Tx \ {t}
      PROVE  Apart(t, u)'
  <2>1. \A m \in NewOccs(t), n \in work[u].occIns : ~SamePlace(m, n)
    <3>1. CASE ~Blocks(u, t)
      BY <1>0, <3>1 DEF Blocks, SamePlace
    <3>2. CASE work[u] = NoWork
      BY <3>2 DEF NoWork
    <3> QED
      BY <3>1, <3>2, NotBlocked DEF CreateWeekRecipes, At
  <2>2. Held(t) \cap Held(u) = {}
    BY DEF RowsInvariant, Apart
  <2> QED
    BY <1>1, <2>1, <2>2 DEF Apart, Held, SamePlace
<1> QED
  BY <1>0, <1>1, <1>3, <1>4, <1>5, <1>6, <1>7, Frame DEF Consistent

(* Swap and RandomSwap rewrite one row in place.                           *)
LEMMA UpdatedOccurrence ==
  ASSUME RowsInvariant, TypeOK', NEW t \in Tx, UpdateWeekRecipe(t), ~Fail(t)
  PROVE  RowsInvariant'
<1> DEFINE r == IF req[t].op = "swap" THEN req[t].recipe ELSE seen[t].recipe
<1>0. /\ TypeOK /\ Consistent(t) /\ pc[t] = "update" /\ work[t] \in WorkRow
      /\ req[t].op \in {"swap", "randomSwap"} /\ RowIdentity
  BY SeenWorkType, StepOps DEF RowsInvariant, UpdateWeekRecipe, At
<1>1. /\ Goto(t, "states") /\ pc'[t] = "states"
      /\ UNCHANGED <<occs, lines, contribs, req, seen>>
      /\ \A u \in Tx \ {t} : work'[u] = work[u]
      /\ work'[t].occDel = work[t].occDel /\ work'[t].lineDel = work[t].lineDel
      /\ work'[t].occIns = work[t].occIns
      /\ work'[t].occUpd = {[o EXCEPT !.recipe = r] : o \in Target(t)}
      /\ work'[t].contribDel = work[t].contribDel
  BY <1>0 DEF UpdateWeekRecipe, db, Goto, TypeOK, WorkRow
<1>2. /\ work[t].occUpd = {} /\ work[t].occIns = {} /\ work[t].occDel = {}
      /\ work[t].contribDel = {} /\ work[t].lineDel = {}
  BY <1>0 DEF Consistent, OwnWork, Recompute, Written
<1>3. Target(t) \subseteq occs /\ Target(t) \subseteq OccRow /\ \A o \in Target(t) : o.id = req[t].occ
  BY <1>0, <1>2, VisibleType DEF Target, VisibleOccs
<1> HIDE DEF r
<1>4. \A x \in work'[t].occUpd : \E o \in Target(t) :
        x = [o EXCEPT !.recipe = r] /\ o.id = x.id /\ SamePlace(o, x)
  BY <1>1, <1>3 DEF OccRow, SamePlace
<1>5. OwnWork(t)'
  BY <1>0, <1>1, <1>2 DEF Consistent, OwnWork, Active, Recompute
<1>6. Snapshots(t)'
  BY <1>0, <1>1, StillDurable DEF Consistent, Snapshots
<1>7. Places(t)'
  <2>1. \A o, p \in Target(t) : o = p
    BY <1>0, <1>3 DEF RowIdentity
  <2>2. \A x, y \in work'[t].occUpd : x = y
    BY <1>4, <2>1
  <2> QED
    BY <1>1, <1>2, <1>3, <1>4, <2>2 DEF Places, SamePlace
<1>8. Cascades(t)'
  BY <1>1, <1>2 DEF Cascades
<1>9. ASSUME NEW u \in Tx \ {t}
      PROVE  Apart(t, u)'
  <2>1. Held(t)' \subseteq {req[t].occ}
    BY <1>1, <1>2, <1>3, <1>4 DEF Held, Ids
  <2>2. req[t].occ \notin Held(u)
    <3>1. CASE ~Blocks(u, t)
      BY <1>0, <3>1 DEF Blocks, Held
    <3>2. CASE work[u] = NoWork
      BY <3>2 DEF Held, NoWork, Ids
    <3> QED
      BY <3>1, <3>2, NotBlocked DEF UpdateWeekRecipe, At
  <2>3. Held(u)' = Held(u) /\ work'[t].occIns = {}
    BY <1>1, <1>2 DEF Held
  <2> QED
    BY <2>1, <2>2, <2>3 DEF Apart
<1> QED
  BY <1>0, <1>1, <1>5, <1>6, <1>7, <1>8, <1>9, Frame DEF Consistent

(* DELETE FROM shopping_lines and its cascade.                             *)
LEMMA PurgeTargets ==
  ASSUME RowsInvariant, TypeOK', NEW t \in Tx, DeleteGeneratedLines(t)
  PROVE  RowsInvariant'
<1>0. /\ TypeOK /\ Consistent(t) /\ pc[t] = "purge" /\ seen[t] \in SeenRow
      /\ SameWeek /\ LinesExplained
  BY SeenWorkType DEF RowsInvariant, DeleteGeneratedLines, At
<1>1. /\ Goto(t, "purging") /\ pc'[t] = "purging"
      /\ UNCHANGED <<occs, lines, contribs, req, work>>
      /\ \A u \in Tx \ {t} : seen'[u] = seen[u]
      /\ seen'[t].occTargets = seen[t].occTargets
      /\ seen'[t].lineTargets = Ids(Generated(lines, req[t].week))
  BY <1>0 DEF DeleteGeneratedLines, db, Goto, TypeOK, SeenRow
<1>2. OwnWork(t)'
  BY <1>0, <1>1 DEF Consistent, OwnWork, Active, Recompute, Written
<1>3. Snapshots(t)'
  <2>1. \A l \in lines : Durable(l.id)'
    BY <1>0, <1>1, RowsDurable
  <2> HIDE DEF Durable
  <2> QED
    BY <1>0, <1>1, <2>1, StillDurable DEF Consistent, Snapshots, Ids, Generated, InWeek
<1>4. Places(t)'
  BY <1>0, <1>1 DEF Consistent, Places
<1>5. ASSUME NEW c \in work[t].contribDel \cap contribs
      PROVE  c.line \in seen'[t].lineTargets
  <2>1. c.occ \in work[t].occDel
    BY <1>0 DEF Consistent, Cascades
  <2>2. PICK o \in occs : o.id = c.occ
    BY <1>0 DEF LinesExplained, Ids
  <2>3. PICK l \in lines : l.id = c.line
    BY <1>0 DEF LinesExplained, Ids
  <2>4. o.week = req[t].week
    BY <1>0, <2>1, <2>2 DEF Consistent, Snapshots
  <2>5. l.week = req[t].week /\ l.origin = "generated"
    BY <1>0, <2>2, <2>3, <2>4 DEF SameWeek
  <2> QED
    BY <1>1, <2>3, <2>5 DEF Ids, Generated, InWeek
<1>6. Cascades(t)'
  BY <1>0, <1>1, <1>5 DEF Consistent, Cascades, Written, Recompute
<1>7. \A u \in Tx \ {t} : Apart(t, u)'
  BY <1>1 DEF RowsInvariant, Apart, Held
<1> QED
  BY <1>0, <1>1, <1>2, <1>3, <1>4, <1>6, <1>7, Frame DEF Consistent

LEMMA PurgedLines ==
  ASSUME RowsInvariant, TypeOK', NEW t \in Tx, DeletedGeneratedLines(t)
  PROVE  RowsInvariant'
<1>0. /\ TypeOK /\ Consistent(t) /\ pc[t] = "purging" /\ work[t] \in WorkRow
      /\ LinesExplained
  BY SeenWorkType DEF RowsInvariant, DeletedGeneratedLines, At
<1>1. /\ Goto(t, "uncontribute") /\ pc'[t] = "uncontribute"
      /\ UNCHANGED <<occs, lines, contribs, req, seen>>
      /\ \A u \in Tx \ {t} : work'[u] = work[u]
      /\ work'[t].occDel = work[t].occDel
      /\ work'[t].lineDel = seen[t].lineTargets \cap Ids(lines)
      /\ work'[t].occIns = work[t].occIns /\ work'[t].occUpd = work[t].occUpd
      /\ work'[t].contribDel = work[t].contribDel
  BY <1>0 DEF DeletedGeneratedLines, db, Goto, TypeOK, WorkRow
<1>2. OwnWork(t)'
  BY <1>0, <1>1 DEF Consistent, OwnWork, Active, Recompute, Written
<1>3. Snapshots(t)'
  BY <1>0, <1>1, StillDurable DEF Consistent, Snapshots
<1>4. Places(t)'
  BY <1>0, <1>1 DEF Consistent, Places
<1>5. \A c \in work[t].contribDel \cap contribs : c.line \in work'[t].lineDel
  BY <1>0, <1>1 DEF Consistent, Cascades, LinesExplained
<1>6. Cascades(t)'
  BY <1>0, <1>1, <1>5 DEF Consistent, Cascades, Written, Recompute
<1>7. \A u \in Tx \ {t} : Apart(t, u)'
  BY <1>1 DEF RowsInvariant, Apart, Held
<1> QED
  BY <1>0, <1>1, <1>2, <1>3, <1>4, <1>6, <1>7, Frame DEF Consistent

LEMMA CascadedLines ==
  ASSUME RowsInvariant, TypeOK', NEW t \in Tx, CascadeLines(t)
  PROVE  RowsInvariant'
<1>0. /\ TypeOK /\ Consistent(t) /\ pc[t] = "uncontribute" /\ work[t] \in WorkRow
  BY SeenWorkType DEF RowsInvariant, CascadeLines, At
<1>1. /\ Goto(t, "rebuild") /\ pc'[t] = "rebuild"
      /\ UNCHANGED <<occs, lines, contribs, req, seen>>
      /\ \A u \in Tx \ {t} : work'[u] = work[u]
      /\ work'[t].occDel = work[t].occDel /\ work'[t].lineDel = work[t].lineDel
      /\ work'[t].occIns = work[t].occIns /\ work'[t].occUpd = work[t].occUpd
      /\ work'[t].contribDel = work[t].contribDel \cup Orphans(t)
  BY <1>0 DEF CascadeLines, db, Goto, TypeOK, WorkRow
<1>2. OwnWork(t)'
  BY <1>0, <1>1 DEF Consistent, OwnWork, Active, Recompute, Written
<1>3. Snapshots(t)'
  <2>1. \A c \in contribs : Durable(c.line)'
    BY <1>0, <1>1, RowsDurable
  <2>2. Orphans(t) \subseteq contribs
    BY DEF Orphans, VisibleContribs
  <2> HIDE DEF Durable
  <2> QED
    BY <1>0, <1>1, <2>1, <2>2, StillDurable DEF Consistent, Snapshots
<1>4. Places(t)'
  BY <1>0, <1>1 DEF Consistent, Places
<1>5. Cascades(t)'
  <2>1. \A c \in contribs : c.occ \in work[t].occDel => c \in work[t].contribDel
    BY <1>0 DEF Consistent, Cascades, Written, Recompute
  <2>2. \A c \in work[t].contribDel \cap contribs : c.line \in work[t].lineDel
    BY <1>0 DEF Consistent, Cascades
  <2>3. \A c \in contribs : c.line \in work[t].lineDel => c \in work'[t].contribDel
    BY <1>1 DEF Orphans, VisibleContribs
  <2>4. \A c \in Orphans(t) : c.line \in work[t].lineDel
    BY <2>1 DEF Orphans, VisibleContribs
  <2> QED
    BY <1>1, <2>1, <2>2, <2>3, <2>4 DEF Cascades
<1>6. \A u \in Tx \ {t} : Apart(t, u)'
  BY <1>1 DEF RowsInvariant, Apart, Held
<1> QED
  BY <1>0, <1>1, <1>2, <1>3, <1>4, <1>5, <1>6, Frame DEF Consistent

-----------------------------------------------------------------------------
(* COMMIT.                                                                 *)

(* The lines and contributions recompute inserts belong together.          *)
LEMMA NewLineRows ==
  ASSUME NEW t \in Tx
  PROVE  /\ \A n \in NewLines(t) : /\ n.id = <<t, n.key>> /\ n.week = req[t].week
                                   /\ n.origin = "generated" /\ n.key[1] # "manual"
                                   /\ \E c \in NewContribs(t) : c.line = n.id /\ KeyOf(c) = n.key
         /\ \A m, n \in NewLines(t) : m.key = n.key => m = n
         /\ \A c \in NewContribs(t) : /\ c.line = <<t, KeyOf(c)>>
                                      /\ \E n \in NewLines(t) : n.id = c.line
<1> DEFINE pool == seen[t].pool
           marksOf(k) == UNION {m.marks : m \in {n \in seen[t].marks : n.key = k}}
           line(k) == [id |-> <<t, k>>, week |-> req[t].week, key |-> k,
                       origin |-> "generated", marks |-> marksOf(k)]
           contrib(q) == [line |-> <<t, KeyOf(q)>>, occ |-> q.occ, ing |-> q.ing]
<1>1. NewLines(t) = {line(k) : k \in {KeyOf(q) : q \in Requirements(pool)}}
  BY DEF NewLines, LineRows
<1>2. NewContribs(t) = {contrib(q) : q \in Requirements(pool)}
  BY DEF NewContribs, ContribRows
<1>3. \A q : KeyOf(contrib(q)) = KeyOf(q) /\ KeyOf(q)[1] # "manual"
  BY DEF KeyOf
<1>4. \A k : line(k).id = <<t, k>> /\ line(k).key = k /\ line(k).week = req[t].week
              /\ line(k).origin = "generated"
  OBVIOUS
<1>5. \A q : contrib(q).line = <<t, KeyOf(q)>>
  OBVIOUS
<1> HIDE DEF line, contrib, marksOf, pool
<1>6. ASSUME NEW n \in NewLines(t)
      PROVE  /\ n.id = <<t, n.key>> /\ n.week = req[t].week
             /\ n.origin = "generated" /\ n.key[1] # "manual" /\ n = line(n.key)
             /\ \E c \in NewContribs(t) : c.line = n.id /\ KeyOf(c) = n.key
  <2>1. PICK q \in Requirements(pool) : n = line(KeyOf(q))
    BY <1>1
  <2>2. contrib(q) \in NewContribs(t)
    BY <1>2
  <2> QED
    BY <1>3, <1>4, <1>5, <2>1, <2>2
<1>7. ASSUME NEW c \in NewContribs(t)
      PROVE  c.line = <<t, KeyOf(c)>> /\ \E n \in NewLines(t) : n.id = c.line
  <2>1. PICK q \in Requirements(pool) : c = contrib(q)
    BY <1>2
  <2>2. line(KeyOf(q)) \in NewLines(t)
    BY <1>1
  <2> QED
    BY <1>3, <1>4, <1>5, <2>1, <2>2
<1>8. \A m, n \in NewLines(t) : m.key = n.key => m = n
  BY <1>6
<1> QED
  BY <1>6, <1>7, <1>8

(* After End, t is consistent and in nobody's way.                         *)
LEMMA Ended ==
  ASSUME TypeOK, NEW t \in Tx, End(t, "committed")
  PROVE  /\ Consistent(t)'
         /\ \A u \in Tx : u # t => /\ pc'[u] = pc[u] /\ req'[u] = req[u]
                                   /\ seen'[u] = seen[u] /\ work'[u] = work[u]
                                   /\ Apart(t, u)' /\ Apart(u, t)'
<1>0. /\ pc'[t] = "committed" /\ seen'[t] = NothingSeen /\ work'[t] = NoWork
      /\ \A u \in Tx : u # t => /\ pc'[u] = pc[u] /\ req'[u] = req[u]
                                /\ seen'[u] = seen[u] /\ work'[u] = work[u]
  BY DEF End, Goto, TypeOK
<1>1. OwnWork(t)'
  BY <1>0 DEF OwnWork, NoWork
<1>2. Snapshots(t)' /\ Places(t)'
  BY <1>0 DEF Snapshots, Places, NoWork, NothingSeen
<1>3. Cascades(t)'
  BY <1>0 DEF Cascades, NoWork, Written, Recompute
<1>4. \A u \in Tx : Apart(t, u)' /\ Apart(u, t)'
  BY <1>0 DEF Apart, Held, NoWork, Ids
<1> QED
  BY <1>0, <1>1, <1>2, <1>3, <1>4 DEF Consistent

(* Where the rows of week_recipes after t's COMMIT come from.              *)
LEMMA CommittedOccs ==
  ASSUME RowsInvariant, NEW t \in Tx, pc[t] # "committed", NEW o \in VisibleOccs(t)
  PROVE  \/ o \in occs /\ o.id \notin Held(t)
         \/ /\ o \in work[t].occUpd
            /\ \E p \in occs : p.id = o.id /\ SamePlace(p, o) /\ p.id \in Held(t)
         \/ /\ o \in work[t].occIns /\ o.id = <<t, o.position>> /\ o.week = req[t].week
BY DEF VisibleOccs, Held, RowsInvariant, Consistent, OwnWork, Places, Ids

LEMMA CommitUniqueRows ==
  ASSUME RowsInvariant, NEW t \in Tx, RebuildAndCommit(t), ~Fail(t)
  PROVE  UniqueRows' /\ \A o, p \in occs' : o.id = p.id => o = p
<1>0. /\ Consistent(t) /\ UniqueRows /\ RowIdentity /\ TypeOK /\ pc[t] = "rebuild"
      /\ occs' = VisibleOccs(t) /\ lines' = VisibleLines(t) \cup NewLines(t)
      /\ ~DuplicateKey(t)
  BY DEF RowsInvariant, RebuildAndCommit, At
<1>1. work[t].occIns = {} \/ work[t].occUpd = {}
  BY <1>0 DEF Consistent, OwnWork
<1>2. ASSUME NEW o \in occs', NEW p \in occs', SamePlace(o, p)
      PROVE  o = p
  <2>1. CASE o \in work[t].occIns
    <3>1. p \notin occs \/ p.id \in Held(t)
      BY <1>0, <1>2, <2>1 DEF Consistent, Places, SamePlace, Held
    <3>2. p \in work[t].occIns
      BY <1>0, <1>1, <2>1, <3>1, CommittedOccs
    <3> QED
      BY <1>0, <1>2, <2>1, <3>2 DEF Consistent, Places
  <2>2. CASE p \in work[t].occIns
    <3>1. o \notin occs \/ o.id \in Held(t)
      BY <1>0, <1>2, <2>2 DEF Consistent, Places, SamePlace, Held
    <3>2. o \in work[t].occIns
      BY <1>0, <1>1, <2>2, <3>1, CommittedOccs
    <3> QED
      BY <1>0, <1>2, <2>2, <3>2 DEF Consistent, Places
  <2>3. CASE o \notin work[t].occIns /\ p \notin work[t].occIns
    <3>1. CASE o \in work[t].occUpd /\ p \in work[t].occUpd
      BY <1>0, <3>1 DEF Consistent, Places
    <3>2. CASE o \notin work[t].occUpd /\ p \notin work[t].occUpd
      BY <1>0, <1>2, <2>3, <3>2, CommittedOccs DEF UniqueRows
    <3>3. CASE o \in work[t].occUpd /\ p \notin work[t].occUpd
      <4>1. PICK q \in occs : SamePlace(q, o) /\ q.id \in Held(t)
        BY <1>0, <2>3, <3>3 DEF Consistent, Places, Held, Ids
      <4>2. p \in occs /\ p.id \notin Held(t)
        BY <1>0, <2>3, <3>3, CommittedOccs
      <4>3. q = p
        BY <1>0, <1>2, <4>1, <4>2 DEF UniqueRows, SamePlace
      <4> QED
        BY <4>1, <4>2, <4>3
    <3>4. CASE o \notin work[t].occUpd /\ p \in work[t].occUpd
      <4>1. PICK q \in occs : SamePlace(q, p) /\ q.id \in Held(t)
        BY <1>0, <2>3, <3>4 DEF Consistent, Places, Held, Ids
      <4>2. o \in occs /\ o.id \notin Held(t)
        BY <1>0, <2>3, <3>4, CommittedOccs
      <4>3. q = o
        BY <1>0, <1>2, <4>1, <4>2 DEF UniqueRows, SamePlace
      <4> QED
        BY <4>1, <4>2, <4>3
    <3> QED
      BY <3>1, <3>2, <3>3, <3>4
  <2> QED
    BY <2>1, <2>2, <2>3
<1>3. ASSUME NEW l \in lines', NEW m \in lines', l.week = m.week, l.key = m.key
      PROVE  l = m
  <2>1. CASE l \in VisibleLines(t) /\ m \in VisibleLines(t)
    BY <1>0, <1>3, <2>1 DEF VisibleLines, UniqueRows
  <2>2. CASE l \in NewLines(t) /\ m \in NewLines(t)
    BY <1>3, <2>2, NewLineRows
  <2>3. CASE l \in NewLines(t) /\ m \in VisibleLines(t)
    BY <1>0, <1>3, <2>3 DEF DuplicateKey
  <2>4. CASE l \in VisibleLines(t) /\ m \in NewLines(t)
    BY <1>0, <1>3, <2>4 DEF DuplicateKey
  <2> QED
    BY <1>0, <2>1, <2>2, <2>3, <2>4
<1>4. ASSUME NEW o \in occs', NEW p \in occs', o.id = p.id
      PROVE  o = p
  <2>1. \A q \in occs : q.id[1] # t
    BY <1>0, RowsDurable, DurableStable DEF RowIdentity, RebuildAndCommit, End
  <2>2. \A q \in work[t].occIns : q.id = <<t, q.position>> /\ q.week = req[t].week
    BY <1>0 DEF Consistent, OwnWork
  <2>3. CASE o \in work[t].occIns
    <3>1. p \in work[t].occIns
      BY <1>0, <1>4, <2>1, <2>2, <2>3, CommittedOccs
    <3>2. SamePlace(o, p)
      BY <1>4, <2>2, <2>3, <3>1 DEF SamePlace
    <3> QED
      BY <1>2, <3>2
  <2>4. CASE p \in work[t].occIns
    <3>1. o \in work[t].occIns
      BY <1>0, <1>4, <2>1, <2>2, <2>4, CommittedOccs
    <3>2. SamePlace(o, p)
      BY <1>4, <2>2, <2>4, <3>1 DEF SamePlace
    <3> QED
      BY <1>2, <3>2
  <2>5. CASE o \notin work[t].occIns /\ p \notin work[t].occIns
    BY <1>0, <1>4, <2>5, CommittedOccs DEF Consistent, Places, RowIdentity
  <2> QED
    BY <2>3, <2>4, <2>5
<1> QED
  BY <1>2, <1>3, <1>4 DEF UniqueRows

LEMMA CommitRowIdentity ==
  ASSUME RowsInvariant, NEW t \in Tx, RebuildAndCommit(t), ~Fail(t)
  PROVE  RowIdentity' /\ SameWeek'
<1>0. /\ Consistent(t) /\ RowIdentity /\ SameWeek /\ LinesExplained /\ TypeOK
      /\ pc[t] = "rebuild" /\ Goto(t, "committed")
      /\ occs' = VisibleOccs(t) /\ lines' = VisibleLines(t) \cup NewLines(t)
      /\ contribs' = VisibleContribs(t) \cup NewContribs(t)
      /\ ~MismatchedContribution(t)
  BY DEF RowsInvariant, RebuildAndCommit, At, End
<1>1. /\ \A o \in occs : Durable(o.id)' /\ o.id[1] # t
      /\ \A l \in lines : Durable(l.id)' /\ l.id[1] # t
      /\ \A c \in contribs : c.line[1] # t
  BY <1>0, RowsDurable
<1>2. \A id : id[1] = t => Durable(id)'
  BY <1>0 DEF Durable, Goto, TypeOK
<1>3. VisibleLines(t) \subseteq lines /\ VisibleContribs(t) \subseteq contribs
  BY DEF VisibleLines, VisibleContribs
<1> HIDE DEF Durable
<1>4. \A o \in occs' : Durable(o.id)'
  BY <1>0, <1>1, <1>2, CommittedOccs
<1>5. \A o, p \in occs' : o.id = p.id => o = p
  BY CommitUniqueRows
<1>6. \A l \in lines' : /\ Durable(l.id)' /\ l.id[2] = l.key
                        /\ l.key[1] = "manual" => l.key[2] = l.id[1]
                        /\ l.origin = "manual" <=> l.key[1] = "manual"
  BY <1>0, <1>1, <1>2, <1>3, NewLineRows DEF RowIdentity
<1>7. \A c \in contribs' : c.line[2] = KeyOf(c)
  BY <1>0, <1>3, NewLineRows DEF RowIdentity
<1>8. ASSUME NEW c \in contribs', NEW o \in occs', NEW l \in lines', o.id = c.occ, l.id = c.line
      PROVE  o.week = l.week /\ l.origin = "generated"
  <2>1. CASE c \in NewContribs(t)
    <3>1. PICK p \in occs' : p.id = c.occ /\ p.week = req[t].week
      BY <1>0, <2>1 DEF MismatchedContribution
    <3>2. o.week = req[t].week
      BY <1>5, <1>8, <3>1
    <3>3. c.line[1] = t
      BY <2>1, NewLineRows
    <3>4. l \in NewLines(t)
      BY <1>0, <1>1, <1>3, <1>8, <3>3
    <3> QED
      BY <3>2, <3>4, NewLineRows
  <2>2. CASE c \in contribs
    <3>1. c.line[1] # t
      BY <1>1, <2>2
    <3>2. l \in lines
      BY <1>0, <1>3, <1>8, <3>1, NewLineRows
    <3>3. PICK p \in occs : p.id = c.occ
      BY <1>0, <2>2 DEF LinesExplained, Ids
    <3>4. p.id = o.id /\ o.id[1] # t
      BY <1>1, <1>8, <3>3
    <3>5. p.week = o.week
      BY <1>0, <3>3, <3>4, CommittedOccs DEF RowIdentity, SamePlace
    <3>6. p.week = l.week /\ l.origin = "generated"
      BY <1>0, <1>8, <2>2, <3>2, <3>3 DEF SameWeek
    <3> QED
      BY <3>5, <3>6
  <2> QED
    BY <1>0, <1>3, <2>1, <2>2
<1> QED
  BY <1>4, <1>5, <1>6, <1>7, <1>8 DEF RowIdentity, SameWeek

LEMMA CommitLinesExplained ==
  ASSUME RowsInvariant, NEW t \in Tx, RebuildAndCommit(t), ~Fail(t)
  PROVE  LinesExplained'
<1>0. /\ Consistent(t) /\ LinesExplained /\ pc[t] = "rebuild" /\ pc[t] \in Written
      /\ occs' = VisibleOccs(t) /\ lines' = VisibleLines(t) \cup NewLines(t)
      /\ contribs' = VisibleContribs(t) \cup NewContribs(t)
      /\ ~MismatchedContribution(t)
  BY DEF RowsInvariant, RebuildAndCommit, At, Written, Recompute
<1>1. ASSUME NEW l \in lines', l.origin = "generated"
      PROVE  \E c \in contribs' : c.line = l.id /\ KeyOf(c) = l.key
  <2>1. CASE l \in NewLines(t)
    BY <1>0, <2>1, NewLineRows
  <2>2. CASE l \in VisibleLines(t)
    <3>1. l \in lines /\ l.id \notin work[t].lineDel
      BY <2>2 DEF VisibleLines
    <3>2. PICK c \in contribs : c.line = l.id /\ KeyOf(c) = l.key
      BY <1>0, <1>1, <3>1 DEF LinesExplained
    <3>3. c \notin work[t].contribDel
      BY <1>0, <3>1, <3>2 DEF Consistent, Cascades
    <3> QED
      BY <1>0, <3>2, <3>3 DEF VisibleContribs
  <2> QED
    BY <1>0, <2>1, <2>2
<1>2. ASSUME NEW c \in contribs'
      PROVE  c.occ \in Ids(occs') /\ c.line \in Ids(lines')
  <2>1. CASE c \in NewContribs(t)
    BY <1>0, <2>1, NewLineRows DEF MismatchedContribution, Ids
  <2>2. CASE c \in contribs \ work[t].contribDel
    <3>1. PICK o \in occs, l \in lines : o.id = c.occ /\ l.id = c.line
      BY <1>0, <2>2 DEF LinesExplained, Ids
    <3>2. c.occ \notin work[t].occDel /\ c.line \notin work[t].lineDel
      BY <1>0, <2>2 DEF Consistent, Cascades
    <3>3. l \in lines'
      BY <1>0, <3>1, <3>2 DEF VisibleLines
    <3>4. \E p \in occs' : p.id = c.occ
      BY <1>0, <3>1, <3>2 DEF VisibleOccs, Ids
    <3> QED
      BY <3>1, <3>3, <3>4 DEF Ids
  <2> QED
    BY <1>0, <2>1, <2>2 DEF VisibleContribs
<1> QED
  BY <1>1, <1>2 DEF LinesExplained, Ids

LEMMA CommitOthers ==
  ASSUME RowsInvariant, NEW t \in Tx, RebuildAndCommit(t), ~Fail(t), NEW u \in Tx, u # t
  PROVE  Consistent(u)'
<1>0. /\ Consistent(t) /\ Consistent(u) /\ RowIdentity /\ TypeOK /\ Apart(t, u) /\ Apart(u, t)
      /\ pc[t] = "rebuild" /\ Goto(t, "committed") /\ End(t, "committed")
      /\ occs' = VisibleOccs(t) /\ lines' = VisibleLines(t) \cup NewLines(t)
      /\ contribs' = VisibleContribs(t) \cup NewContribs(t)
  BY DEF RowsInvariant, RebuildAndCommit, At, End
<1>1. pc'[u] = pc[u] /\ req'[u] = req[u] /\ seen'[u] = seen[u] /\ work'[u] = work[u]
  BY <1>0, Ended
<1>2. OwnWork(u)'
  BY <1>0, <1>1 DEF Consistent, OwnWork, Active
<1>3. \A id : id[1] \in 0..MaxTx /\ Durable(id) => Durable(id)' /\ id[1] # t
  BY <1>0, DurableStable
<1> HIDE DEF Durable
<1>4. Snapshots(u)'
  <2>1. ASSUME NEW o \in occs', o.id \in seen[u].occTargets \/ o.id \in work[u].occDel
        PROVE  o.week = req[u].week
    <3>1. o.id[1] # t
      BY <1>0, <1>3, <2>1, RowTypes DEF Consistent, Snapshots
    <3>2. PICK p \in occs : p.id = o.id /\ p.week = o.week
      BY <1>0, <3>1, CommittedOccs DEF SamePlace
    <3> QED
      BY <1>0, <2>1, <3>2 DEF Consistent, Snapshots
  <2> QED
    BY <1>0, <1>1, <1>3, <2>1, RowTypes DEF Consistent, Snapshots
<1>5. Places(u)'
  <2>1. ASSUME NEW x \in work[u].occUpd
        PROVE  \E o \in occs' : o.id = x.id /\ SamePlace(o, x)
    <3>1. PICK o \in occs : o.id = x.id /\ SamePlace(o, x)
      BY <1>0 DEF Consistent, Places
    <3>2. o.id \notin Held(t)
      BY <1>0, <3>1 DEF Apart, Held, Ids
    <3> QED
      BY <1>0, <3>1, <3>2 DEF VisibleOccs, Held
  <2>2. ASSUME NEW n \in work[u].occIns, NEW o \in occs', SamePlace(o, n)
        PROVE  o.id \in work[u].occDel
    <3>1. o \notin work[t].occIns
      BY <1>0, <2>2 DEF Apart, SamePlace
    <3>2. CASE o \in occs
      BY <1>0, <2>2, <3>2 DEF Consistent, Places
    <3>3. CASE o \in work[t].occUpd
      <4>1. PICK p \in occs : p.id = o.id /\ SamePlace(p, o)
        BY <1>0, <3>3 DEF Consistent, Places
      <4>2. p.id \in work[u].occDel
        BY <1>0, <2>2, <4>1 DEF Consistent, Places, SamePlace
      <4> QED
        BY <4>1, <4>2
    <3> QED
      BY <1>0, <3>1, <3>2, <3>3, CommittedOccs
  <2> QED
    BY <1>0, <1>1, <2>1, <2>2 DEF Consistent, Places, SamePlace
<1>6. Cascades(u)'
  <2>1. ASSUME NEW c \in NewContribs(t)
        PROVE  c.occ \notin work[u].occDel /\ c.line[1] = t
    <3>1. CASE ~Blocks(u, t)
      BY <1>0, <3>1, NewLineRows DEF Blocks
    <3>2. CASE work[u] = NoWork
      BY <3>2, NewLineRows DEF NoWork
    <3> QED
      BY <3>1, <3>2, NotBlocked DEF RebuildAndCommit, At
  <2>2. \A id \in work[u].lineDel : id[1] # t
    BY <1>0, <1>3, RowTypes DEF Consistent, Snapshots
  <2>3. \A c \in work[u].contribDel : c.line[1] # t
    BY <1>0, <1>3, RowTypes DEF Consistent, Snapshots
  <2>4. \A c \in contribs' : c \in contribs \/ c \in NewContribs(t)
    BY <1>0 DEF VisibleContribs
  <2> QED
    BY <1>0, <1>1, <2>1, <2>2, <2>3, <2>4 DEF Consistent, Cascades
<1> QED
  BY <1>2, <1>4, <1>5, <1>6 DEF Consistent

LEMMA Committing ==
  ASSUME RowsInvariant, TypeOK', NEW t \in Tx, RebuildAndCommit(t), ~Fail(t)
  PROVE  RowsInvariant'
<1>0. TypeOK /\ End(t, "committed")
  BY DEF RowsInvariant, RebuildAndCommit
<1>1. \A u \in Tx : Consistent(u)'
  BY <1>0, Ended, CommitOthers
<1>2. ASSUME NEW v \in Tx, NEW u \in Tx, v # u
      PROVE  Apart(v, u)'
  <2>1. CASE v = t \/ u = t
    BY <1>0, <1>2, <2>1, Ended
  <2>2. CASE v # t /\ u # t
    <3>1. work'[v] = work[v] /\ work'[u] = work[u]
      BY <1>0, <2>2, Ended
    <3> QED
      BY <1>2, <3>1 DEF RowsInvariant, Apart, Held
  <2> QED
    BY <2>1, <2>2
<1> QED
  BY <1>1, <1>2, CommitUniqueRows, CommitRowIdentity, CommitLinesExplained DEF RowsInvariant

(* Checklist edits commit one line and no occurrence or contribution.      *)
LEMMA EditOthers ==
  ASSUME RowsInvariant, NEW t \in Tx, pc[t] # "committed", End(t, "committed"),
         UNCHANGED <<occs, contribs>>
  PROVE  /\ \A u \in Tx : Consistent(u)'
         /\ \A v, u \in Tx : v # u => Apart(v, u)'
<1>0. TypeOK /\ Goto(t, "committed")
  BY DEF RowsInvariant, End
<1>1. ASSUME NEW u \in Tx, u # t
      PROVE  Consistent(u)'
  <2>0. pc'[u] = pc[u] /\ req'[u] = req[u] /\ seen'[u] = seen[u] /\ work'[u] = work[u]
    BY <1>0, <1>1, Ended
  <2>1. Consistent(u)
    BY DEF RowsInvariant
  <2>2. OwnWork(u)'
    BY <2>0, <2>1 DEF Consistent, OwnWork, Active
  <2>3. \A id : id[1] \in 0..MaxTx /\ Durable(id) => Durable(id)'
    BY <1>0, DurableStable
  <2> HIDE DEF Durable
  <2>4. Snapshots(u)'
    BY <1>0, <2>0, <2>1, <2>3, RowTypes DEF Consistent, Snapshots
  <2>5. Places(u)' /\ Cascades(u)'
    BY <2>0, <2>1 DEF Consistent, Places, Cascades
  <2> QED
    BY <2>2, <2>4, <2>5 DEF Consistent
<1>2. ASSUME NEW v \in Tx, NEW u \in Tx, v # u
      PROVE  Apart(v, u)'
  <2>1. CASE v = t \/ u = t
    BY <1>0, <1>2, <2>1, Ended
  <2>2. CASE v # t /\ u # t
    <3>1. work'[v] = work[v] /\ work'[u] = work[u]
      BY <1>0, <2>2, Ended
    <3> QED
      BY <1>2, <3>1 DEF RowsInvariant, Apart, Held
  <2> QED
    BY <2>1, <2>2
<1> QED
  BY <1>0, <1>1, <1>2, Ended

LEMMA EditedLine ==
  ASSUME RowsInvariant, TypeOK', NEW t \in Tx, UpdateLine(t), ~Fail(t)
  PROVE  RowsInvariant'
<1> DEFINE edited(l) == [l EXCEPT !.marks = IF req[t].on THEN @ \cup {req[t].flag}
                                                       ELSE @ \ {req[t].flag}]
           after(l) == IF l \in Editable(t) THEN edited(l) ELSE l
<1>0. /\ RowIdentity /\ SameWeek /\ UniqueRows /\ LinesExplained /\ TypeOK
      /\ pc[t] # "committed" /\ End(t, "committed") /\ Goto(t, "committed")
      /\ UNCHANGED <<occs, contribs>>
  BY DEF RowsInvariant, UpdateLine, At, End
<1>1. lines' = {after(l) : l \in lines}
  <2>1. lines' = (lines \ Editable(t)) \cup {edited(l) : l \in Editable(t)}
    BY DEF UpdateLine
  <2>2. Editable(t) \subseteq lines
    BY DEF Editable
  <2> HIDE DEF edited
  <2> QED
    BY <2>1, <2>2
<1>2. \A l \in lines : LET m == after(l)
                       IN  m.id = l.id /\ m.week = l.week /\ m.key = l.key /\ m.origin = l.origin
  BY <1>0 DEF TypeOK, LineRow
<1> HIDE DEF after
<1>3. UniqueRows'
  BY <1>0, <1>1, <1>2 DEF UniqueRows
<1>4. RowIdentity'
  <2>1. /\ \A l \in lines : Durable(l.id)'
        /\ \A o \in occs : Durable(o.id)'
    BY <1>0, RowsDurable
  <2> HIDE DEF Durable
  <2> QED
    BY <1>0, <1>1, <1>2, <2>1 DEF RowIdentity
<1>5. SameWeek'
  BY <1>0, <1>1, <1>2 DEF SameWeek
<1>6. LinesExplained'
  BY <1>0, <1>1, <1>2 DEF LinesExplained, Ids
<1> QED
  BY <1>0, <1>3, <1>4, <1>5, <1>6, EditOthers DEF RowsInvariant

LEMMA AddedManualLine ==
  ASSUME RowsInvariant, TypeOK', NEW t \in Tx, CreateManualLine(t)
  PROVE  RowsInvariant'
<1> DEFINE key == <<"manual", t>>
           line == [id |-> <<t, key>>, week |-> req[t].week, key |-> key,
                    origin |-> "manual", marks |-> {}]
<1>0. /\ RowIdentity /\ SameWeek /\ UniqueRows /\ LinesExplained /\ TypeOK
      /\ pc[t] # "committed" /\ End(t, "committed") /\ Goto(t, "committed")
      /\ UNCHANGED <<occs, contribs>> /\ lines' = lines \cup {line}
  BY DEF RowsInvariant, CreateManualLine, At, End
<1>1. /\ \A l \in lines : Durable(l.id)' /\ l.id[1] # t
      /\ \A o \in occs : Durable(o.id)'
      /\ \A c \in contribs : c.line[1] # t
  BY <1>0, RowsDurable
<1>2. Durable(line.id)'
  BY <1>0 DEF Durable, Goto, TypeOK
<1> HIDE DEF Durable
<1>3. \A l \in lines : l.key # line.key
  <2>1. \A l \in lines : l.key[1] = "manual" => l.key[2] # t
    BY <1>0, <1>1 DEF RowIdentity
  <2> QED
    BY <2>1
<1>4. UniqueRows'
  BY <1>0, <1>3 DEF UniqueRows
<1>5. RowIdentity'
  BY <1>0, <1>1, <1>2 DEF RowIdentity
<1>6. SameWeek'
  BY <1>0, <1>1 DEF SameWeek
<1>7. LinesExplained'
  BY <1>0 DEF LinesExplained, Ids
<1> QED
  BY <1>0, <1>4, <1>5, <1>6, <1>7, EditOthers DEF RowsInvariant

-----------------------------------------------------------------------------
(* The invariant.                                                          *)

LEMMA InitRows == Init => RowsInvariant
<1> SUFFICES ASSUME Init
             PROVE  RowsInvariant
  OBVIOUS
<1>0. TypeOK
  BY InitType
<1>1. PICK p \in Pools : occs = OccRows(0, 0, p)
  BY DEF Init
<1>2. /\ \A o \in occs : o.id = <<0, o.position>> /\ o.week = 0
      /\ \A o, q \in occs : o.position = q.position => o = q
  BY <1>1 DEF OccRows
<1> DEFINE line(k) == [id |-> <<0, k>>, week |-> 0, key |-> k, origin |-> "generated",
                       marks |-> UNION {m.marks : m \in {n \in {} : n.key = k}}]
           contrib(q) == [line |-> <<0, KeyOf(q)>>, occ |-> q.occ, ing |-> q.ing]
<1>3. lines = {line(k) : k \in {KeyOf(q) : q \in Requirements(occs)}}
  BY DEF Init, LineRows
<1>4. contribs = {contrib(q) : q \in Requirements(occs)}
  BY DEF Init, ContribRows
<1>5. \A k : line(k).id = <<0, k>> /\ line(k).week = 0 /\ line(k).key = k
              /\ line(k).origin = "generated"
  OBVIOUS
<1>6. \A q : /\ KeyOf(contrib(q)) = KeyOf(q) /\ KeyOf(q)[1] # "manual"
             /\ contrib(q).line = <<0, KeyOf(q)>> /\ contrib(q).occ = q.occ
  BY DEF KeyOf
<1>7. \A q \in Requirements(occs) : q.occ \in Ids(occs)
  BY DEF Requirements, Ids
<1> HIDE DEF line, contrib
<1>8. RowIdentity
  <2>1. \A l \in lines : /\ Durable(l.id) /\ l.id[2] = l.key
                         /\ l.key[1] # "manual" /\ l.origin = "generated"
    BY <1>3, <1>5, <1>6 DEF Durable
  <2>2. \A c \in contribs : c.line[2] = KeyOf(c)
    BY <1>4, <1>6
  <2>3. \A o \in occs : Durable(o.id)
    BY <1>2 DEF Durable
  <2> QED
    BY <1>2, <2>1, <2>2, <2>3 DEF RowIdentity
<1>9. SameWeek
  BY <1>2, <1>3, <1>5 DEF SameWeek
<1>10. UniqueRows
  <2>1. \A l \in lines : l = line(l.key)
    BY <1>3, <1>5
  <2> QED
    BY <1>2, <2>1 DEF UniqueRows, SamePlace
<1>11. LinesExplained
  <2>1. \A l \in lines : \E c \in contribs : c.line = l.id /\ KeyOf(c) = l.key
    BY <1>3, <1>4, <1>5, <1>6
  <2>2. ASSUME NEW c \in contribs
        PROVE  c.occ \in Ids(occs) /\ c.line \in Ids(lines)
    <3>1. PICK q \in Requirements(occs) : c = contrib(q)
      BY <1>4
    <3>2. line(KeyOf(q)) \in lines
      BY <1>3
    <3> QED
      BY <1>5, <1>6, <1>7, <3>1, <3>2 DEF Ids
  <2> QED
    BY <2>1, <2>2 DEF LinesExplained
<1>12. ASSUME NEW t \in Tx
       PROVE  Consistent(t)
  <2>0. pc[t] = "idle" /\ seen[t] = NothingSeen /\ work[t] = NoWork
    BY DEF Init
  <2>1. OwnWork(t) /\ Snapshots(t) /\ Places(t)
    BY <2>0 DEF OwnWork, Snapshots, Places, NoWork, NothingSeen
  <2>2. Cascades(t)
    BY <2>0 DEF Cascades, NoWork, Written, Recompute
  <2> QED
    BY <2>1, <2>2 DEF Consistent
<1>13. \A t, u \in Tx : Apart(t, u)
  BY DEF Init, Apart, Held, NoWork, Ids
<1> QED
  BY <1>0, <1>8, <1>9, <1>10, <1>11, <1>12, <1>13 DEF RowsInvariant

LEMMA FailedRows ==
  ASSUME RowsInvariant, TypeOK', NEW t \in Tx, pc[t] # "committed", Fail(t)
  PROVE  RowsInvariant'
<1>1. TypeOK
  BY DEF RowsInvariant
<1>2. /\ Goto(t, "failed") /\ UNCHANGED <<occs, lines, contribs>>
      /\ seen'[t] = NothingSeen /\ work'[t] = NoWork
      /\ \A u \in Tx \ {t} : req'[u] = req[u] /\ seen'[u] = seen[u] /\ work'[u] = work[u]
  BY <1>1 DEF Fail, End, db, TypeOK
<1> QED
  BY <1>2, Blank DEF Written, Recompute

LEMMA RequestedRows ==
  ASSUME RowsInvariant, TypeOK', NEW t \in Tx, Request(t)
  PROVE  RowsInvariant'
<1>0. TypeOK /\ OwnWork(t)
  BY DEF RowsInvariant, Consistent
<1>1. ASSUME NEW r, NEW label, Begin(t, r, label),
             label \in {"getWeek", "position", "delete", "update", "pick", "setLine", "addManual"}
      PROVE  RowsInvariant'
  <2>1. /\ pc[t] = "idle" /\ UNCHANGED <<occs, lines, contribs, seen, work>>
        /\ \A u \in Tx \ {t} : req'[u] = req[u]
        /\ Goto(t, label)
    BY <1>0, <1>1 DEF Begin, db, TypeOK
  <2>2. seen'[t] = NothingSeen /\ work'[t] = NoWork
    BY <1>0, <2>1 DEF OwnWork, Active
  <2> QED
    BY <1>1, <2>1, <2>2, Blank DEF Written, Recompute
<1>2. CASE Generate(t)
  BY <1>1, <1>2 DEF Generate
<1>3. CASE Add(t)
  BY <1>1, <1>3 DEF Add
<1>4. CASE Remove(t)
  BY <1>1, <1>4 DEF Remove
<1>5. CASE Swap(t)
  BY <1>1, <1>5 DEF Swap
<1>6. CASE RandomSwap(t)
  BY <1>1, <1>6 DEF RandomSwap
<1>7. CASE SetLine(t)
  BY <1>1, <1>7 DEF SetLine
<1>8. CASE AddManualLine(t)
  BY <1>1, <1>8 DEF AddManualLine
<1> QED
  BY <1>2, <1>3, <1>4, <1>5, <1>6, <1>7, <1>8 DEF Request

LEMMA QuietRows ==
  ASSUME RowsInvariant, TypeOK', NEW t \in Tx, ~Fail(t),
         \/ GetWeek(t) \/ CreateWeek(t) \/ NextWeekRecipePosition(t) \/ Pick(t)
         \/ ReadStates(t) \/ ReadRequirements(t)
  PROVE  RowsInvariant'
<1>0. TypeOK /\ seen[t] \in SeenRow /\ work[t] \in WorkRow
  BY SeenWorkType DEF RowsInvariant
<1> DEFINE Unwritten ==
      /\ \A u \in Tx \ {t} : seen'[u] = seen[u] /\ work'[u] = work[u]
      /\ UNCHANGED <<occs, lines, contribs, req>>
      /\ seen'[t].occTargets = seen[t].occTargets /\ seen'[t].lineTargets = seen[t].lineTargets
      /\ work'[t].occIns = work[t].occIns /\ work'[t].occUpd = work[t].occUpd
      /\ work'[t].occDel = work[t].occDel /\ work'[t].lineDel = work[t].lineDel
      /\ work'[t].contribDel = work[t].contribDel
<1>1. CASE GetWeek(t)
  <2>1. pc[t] = "getWeek" /\ Unwritten /\ (Goto(t, "clear") \/ Goto(t, "createWeek"))
    BY <1>1 DEF GetWeek, At, db
  <2> QED
    BY <2>1, Quiet
<1>2. CASE CreateWeek(t)
  <2>1. pc[t] = "createWeek" /\ Unwritten /\ Goto(t, "clear")
    BY <1>0, <1>2 DEF CreateWeek, At, db, TypeOK, WorkRow
  <2> QED
    BY <2>1, Quiet
<1>3. CASE NextWeekRecipePosition(t)
  <2>1. pc[t] = "position" /\ Unwritten /\ Goto(t, "insert")
    BY <1>0, <1>3 DEF NextWeekRecipePosition, At, db, TypeOK, SeenRow
  <2> QED
    BY <2>1, Quiet
<1>4. CASE Pick(t)
  <2>1. pc[t] = "pick" /\ Unwritten /\ Goto(t, "update")
    BY <1>0, <1>4 DEF Pick, At, db, TypeOK, SeenRow
  <2> QED
    BY <2>1, Quiet
<1>5. CASE ReadStates(t)
  <2>1. pc[t] = "states" /\ Unwritten /\ Goto(t, "requirements")
    BY <1>0, <1>5 DEF ReadStates, At, db, TypeOK, SeenRow
  <2> QED
    BY <2>1, Quiet
<1>6. CASE ReadRequirements(t)
  <2>1. pc[t] = "requirements" /\ Unwritten /\ Goto(t, "purge")
    BY <1>0, <1>6 DEF ReadRequirements, At, db, TypeOK, SeenRow
  <2> QED
    BY <2>1, Quiet
<1> QED
  BY <1>1, <1>2, <1>3, <1>4, <1>5, <1>6

LEMMA NextRows == RowsInvariant /\ [Next]_vars => RowsInvariant'
<1> SUFFICES ASSUME RowsInvariant, [Next]_vars
             PROVE  RowsInvariant'
  OBVIOUS
<1>0. TypeOK'
  BY NextType DEF RowsInvariant
<1>1. CASE Midnight \/ UNCHANGED vars
  <2>1. UNCHANGED <<occs, lines, contribs, pc, req, seen, work>>
    BY <1>1 DEF Midnight, db, vars
  <2>2. RowIdentity' /\ SameWeek' /\ UniqueRows' /\ LinesExplained'
    BY <2>1 DEF RowsInvariant, RowIdentity, SameWeek, UniqueRows, LinesExplained, Durable
  <2>3. \A t \in Tx : Consistent(t)'
    BY <2>1 DEF RowsInvariant, Consistent, OwnWork, Snapshots, Places, Cascades, Durable, Active
  <2>4. \A t, u \in Tx : t # u => Apart(t, u)'
    BY <2>1 DEF RowsInvariant, Apart, Held
  <2> QED
    BY <1>0, <2>2, <2>3, <2>4 DEF RowsInvariant
<1>2. ASSUME NEW t \in Tx, Statement(t)
      PROVE  RowsInvariant'
  <2>0. pc[t] # "committed"
    BY <1>2 DEF Statement, At, GetWeek, CreateWeek, DeleteWeekRecipes, DeletedWeekRecipes,
       CascadeOccurrence, NextWeekRecipePosition, CreateWeekRecipes, DeleteWeekRecipe, Pick,
       UpdateWeekRecipe, ReadStates, ReadRequirements, DeleteGeneratedLines,
       DeletedGeneratedLines, CascadeLines, RebuildAndCommit, UpdateLine, CreateManualLine
  <2>1. CASE Fail(t)
    BY <1>0, <2>0, <2>1, FailedRows
  <2>2. CASE ~Fail(t)
    BY <1>0, <1>2, <2>2, QuietRows, ClearRows, ClearedRows, CascadedOccurrences,
       InsertedOccurrences, DeletedRow, UpdatedOccurrence, PurgeTargets, PurgedLines,
       CascadedLines, Committing, EditedLine, AddedManualLine DEF Statement
  <2> QED
    BY <2>1, <2>2
<1>3. ASSUME NEW t \in Tx, Request(t)
      PROVE  RowsInvariant'
  BY <1>0, <1>3, RequestedRows
<1>4. ASSUME NEW t \in Tx, DeadlockVictim(t) \/ Cancel(t)
      PROVE  RowsInvariant'
  BY <1>0, <1>4, FailedRows DEF DeadlockVictim, Cancel, Active
<1> QED
  BY <1>1, <1>2, <1>3, <1>4 DEF Next

(* At every statement of every interleaving the rows, the locks and what   *)
(* the open transactions have written are consistent with one another.     *)
THEOREM RowsInvariantHolds == Spec => []RowsInvariant
<1>1. Init => RowsInvariant
  BY InitRows
<1>2. RowsInvariant /\ [Next]_vars => RowsInvariant'
  BY NextRows
<1> QED
  BY <1>1, <1>2, PTL DEF Spec

(* No interleaving of requests gives two occurrences of a week the same    *)
(* position or two of its lines the same aggregation key: the UNIQUE       *)
(* checks made against other transactions' uncommitted rows suffice.       *)
THEOREM RowsAreUnique == Spec => []UniqueRows
<1>1. RowsInvariant => UniqueRows
  BY DEF RowsInvariant
<1> QED
  BY <1>1, RowsInvariantHolds, PTL

(* The grocery list never invents anything: whatever recompute, its        *)
(* cascades and the other owner's transactions do between its statements,  *)
(* a generated line has a contribution and a contribution its occurrence.  *)
THEOREM LinesAreExplained == Spec => []LinesExplained
<1>1. RowsInvariant => LinesExplained
  BY DEF RowsInvariant
<1> QED
  BY <1>1, RowsInvariantHolds, PTL
=============================================================================
