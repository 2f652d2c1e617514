------------------------------- MODULE WeekTx -------------------------------
(***************************************************************************)
(* The week service statement by statement.  Every request of the two      *)
(* owners runs in one PostgreSQL transaction at READ COMMITTED: each       *)
(* statement reads what is committed when it starts plus the transaction's *)
(* own writes, a row that is being changed by another transaction makes    *)
(* the statement wait, and a broken constraint or trigger rolls the whole  *)
(* transaction back.                                                       *)
(*                                                                         *)
(* occs, lines and contribs are the committed rows of week_recipes,        *)
(* shopping_lines and shopping_line_contributions; weeks holds the start   *)
(* dates that have a week and its shopping list.  work[t] is what          *)
(* transaction t has written and not yet committed; its deleted and        *)
(* updated rows are the row locks it holds.  A row id is written           *)
(* <<transaction, position or key>>: identity columns never give one id    *)
(* twice, not even after a rollback.                                       *)
(***************************************************************************)
EXTENDS Corpus, Naturals, FiniteSets

CONSTANTS
  Mixes,      (* sets of operations; those open at one time are in one     *)
  Pools,      (* the pools a behaviour may start with, <<>> for no week    *)
  LastWeek,   (* bound: weeks 0..LastWeek                                  *)
  MaxTx,      (* bound: number of transactions in a behaviour              *)
  InFlight,   (* bound: transactions open at one time                      *)
  None        (* no value                                                  *)

Tx == 1..MaxTx
Week == 0..LastWeek
Flag == {"removed", "completed", "override"}

ASSUME BoundsAssumption ==
  /\ LastWeek \in Nat
  /\ MaxTx \in Nat
  /\ InFlight \in Nat
  /\ IsFiniteSet(Recipe)
  /\ None \notin Recipe
  /\ \A p \in Pools : DOMAIN p \subseteq Nat /\ p \in [DOMAIN p -> Recipe]

VARIABLES
  today,     (* the Sunday of the clock the service reads                  *)
  weeks, occs, lines, contribs,
  pc,        (* the statement each transaction is at                       *)
  req,       (* the request it serves                                      *)
  seen,      (* what its earlier statements read                           *)
  work       (* its uncommitted writes                                     *)

db == <<weeks, occs, lines, contribs>>
vars == <<today, weeks, occs, lines, contribs, pc, req, seen, work>>

NoRequest == [op |-> "none"]
NothingSeen == [position |-> 0, recipe |-> None, marks |-> {}, pool |-> {},
                occTargets |-> {}, lineTargets |-> {}]
NoWork == [newWeek |-> FALSE, occIns |-> {}, occUpd |-> {}, occDel |-> {},
           lineDel |-> {}, contribDel |-> {}]

-----------------------------------------------------------------------------
(* Rows.                                                                   *)

(* CreateWeekRecipe for each position of picks.                            *)
OccRows(t, w, picks) ==
  {[id |-> <<t, p>>, week |-> w, recipe |-> picks[p], position |-> p] : p \in DOMAIN picks}

(* Aggregate's lines for the requirements of pool, one per key, with the   *)
(* state an old line of that key had.                                      *)
LineRows(t, w, pool, old) ==
  LET marksOf(k) == UNION {m.marks : m \in {n \in old : n.key = k}}
  IN  {[id |-> <<t, k>>, week |-> w, key |-> k, origin |-> "generated", marks |-> marksOf(k)] :
          k \in {KeyOf(q) : q \in Requirements(pool)}}

(* Fault: ingredients without a quantity get no contribution.              *)
MeasuredContribRows(t, pool) ==
  {[line |-> <<t, KeyOf(q)>>, occ |-> q.occ, ing |-> q.ing] :
      q \in {p \in Requirements(pool) : p.ing \notin Unspecified}}

ContribRows(t, pool) ==
  {[line |-> <<t, KeyOf(q)>>, occ |-> q.occ, ing |-> q.ing] : q \in Requirements(pool)}

(* An empty database after bootstrap, or one where an earlier Generate has *)
(* already committed; its rows carry transaction number 0.                 *)
Init ==
  /\ today = 0
  /\ \E p \in Pools :
       /\ weeks = IF DOMAIN p = {} THEN {} ELSE {0}
       /\ occs = OccRows(0, 0, p)
  /\ lines = LineRows(0, 0, occs, {})
  /\ contribs = ContribRows(0, occs)
  /\ pc = [t \in Tx |-> "idle"]
  /\ req = [t \in Tx |-> NoRequest]
  /\ seen = [t \in Tx |-> NothingSeen]
  /\ work = [t \in Tx |-> NoWork]

-----------------------------------------------------------------------------
(* What a statement of t sees.                                             *)

Ids(rows) == {r.id : r \in rows}

VisibleOccs(t) ==
  {o \in occs : o.id \notin work[t].occDel \cup Ids(work[t].occUpd)}
    \cup work[t].occUpd \cup work[t].occIns

VisibleLines(t) == {l \in lines : l.id \notin work[t].lineDel}

VisibleContribs(t) == contribs \ work[t].contribDel

(* The occurrence a request names, if it is a row of the request's week.   *)
Target(t) == {o \in VisibleOccs(t) : o.id = req[t].occ /\ o.week = req[t].week}

(* Fault: the states read before the purge are not carried over.           *)
UnmarkedLines(t) == LineRows(t, req[t].week, seen[t].pool, {})

NewLines(t) == LineRows(t, req[t].week, seen[t].pool, seen[t].marks)
NewContribs(t) == ContribRows(t, seen[t].pool)

(* The rows Generate inserts at 0..count-1, or Add at the position it read *)
NewOccs(t) ==
  OccRows(t, req[t].week,
          IF req[t].op = "generate" THEN req[t].picks
                                    ELSE [p \in {seen[t].position} |-> req[t].recipe])

(* Fault: deleting a line keeps its contributions.                         *)
OrphansOfOccurrences(t) == {c \in VisibleContribs(t) : c.occ \in work[t].occDel}

(* ON DELETE CASCADE: contributions of the rows t has deleted.             *)
Orphans(t) ==
  {c \in VisibleContribs(t) : c.occ \in work[t].occDel \/ c.line \in work[t].lineDel}

-----------------------------------------------------------------------------
(* Locks.                                                                  *)

Active == {t \in Tx : pc[t] \notin {"idle", "committed", "failed"}}

(* Fault: no UNIQUE (week_id, position).                                   *)
NoUniquePosition(a, b) == FALSE

SamePlace(a, b) == a.week = b.week /\ a.position = b.position

(* u holds a lock, or has inserted a unique value, that the statement t is *)
(* at has to wait for.                                                     *)
Blocks(u, t) ==
  \/ /\ pc[t] = "createWeek"
     /\ work[u].newWeek /\ req[u].week = req[t].week
  \/ /\ pc[t] = "insert"
     /\ \E n \in NewOccs(t) :
          \/ \E o \in work[u].occIns : SamePlace(o, n)
          \/ \E o \in occs : SamePlace(o, n) /\ o.id \in work[u].occDel
  \/ /\ pc[t] \in {"delete", "update", "clearing"}
     /\ LET rows == IF pc[t] = "clearing" THEN seen[t].occTargets ELSE {req[t].occ}
        IN  rows \cap (work[u].occDel \cup Ids(work[u].occUpd)) # {}
  \/ /\ pc[t] \in {"cascade", "uncontribute"}
     /\ Orphans(t) \cap work[u].contribDel # {}
  \/ /\ pc[t] = "purging"
     /\ seen[t].lineTargets \cap work[u].lineDel # {}
  \/ /\ pc[t] = "setLine"
     /\ req[t].line \in work[u].lineDel
  \/ /\ pc[t] = "rebuild"
     /\ \/ \E n \in NewLines(t), l \in VisibleLines(t) :
             l.week = n.week /\ l.key = n.key /\ l.id \in work[u].lineDel
        \/ \E c \in NewContribs(t) : c.occ \in work[u].occDel

WaitsFor(t) == {u \in Active \ {t} : Blocks(u, t)}

At(t, label) == pc[t] = label /\ WaitsFor(t) = {}
Goto(t, label) == pc' = [pc EXCEPT ![t] = label]

(* tx.Rollback: nothing t wrote is kept.                                   *)
End(t, label) ==
  /\ Goto(t, label)
  /\ req' = [req EXCEPT ![t] = NoRequest]
  /\ seen' = [seen EXCEPT ![t] = NothingSeen]
  /\ work' = [work EXCEPT ![t] = NoWork]

Fail(t) == End(t, "failed") /\ UNCHANGED <<db, today>>

-----------------------------------------------------------------------------
(* Requests.  A client names occurrences and lines it was shown; by the    *)
(* time the statement runs they may be gone.                               *)

Together(op) == \E m \in Mixes : op \in m /\ \A u \in Active : req[u].op \in m

Begin(t, r, label) ==
  /\ Together(r.op)
  /\ pc[t] = "idle"
  /\ \A u \in Tx : u < t => pc[u] # "idle"
  /\ Cardinality(Active) < InFlight
  /\ Goto(t, label)
  /\ req' = [req EXCEPT ![t] = r]
  /\ UNCHANGED <<db, today, seen, work>>

(* count distinct verified recipes in shuffled order.                      *)
Shuffles ==
  UNION {{p \in [0..(n - 1) -> Recipe] : \A i, j \in 0..(n - 1) : p[i] = p[j] => i = j} :
           n \in 1..Cardinality(Recipe)}

Generate(t) ==
  \E p \in Shuffles :
    Begin(t, [op |-> "generate", week |-> today, picks |-> p], "getWeek")

Add(t) ==
  /\ today \in weeks
  /\ \E r \in Recipe :
       Begin(t, [op |-> "add", week |-> today, recipe |-> r], "position")

Remove(t) ==
  /\ today \in weeks
  /\ \E o \in occs : Begin(t, [op |-> "remove", week |-> today, occ |-> o.id], "delete")

Swap(t) ==
  /\ today \in weeks
  /\ \E o \in occs, r \in Recipe :
       Begin(t, [op |-> "swap", week |-> today, occ |-> o.id, recipe |-> r], "update")

RandomSwap(t) ==
  /\ today \in weeks
  /\ \E o \in occs :
       Begin(t, [op |-> "randomSwap", week |-> today, occ |-> o.id], "pick")

SetLine(t) ==
  \E l \in lines, f \in Flag, on \in BOOLEAN :
    Begin(t, [op |-> "setLine", week |-> today, line |-> l.id, flag |-> f, on |-> on], "setLine")

AddManualLine(t) ==
  /\ today \in weeks
  /\ Begin(t, [op |-> "addManual", week |-> today], "addManual")

-----------------------------------------------------------------------------
(* getOrCreateWeek: a Generate that saw no week inserts one; the UNIQUE    *)
(* start date lets one of two such inserts through.                        *)

GetWeek(t) ==
  /\ At(t, "getWeek")
  /\ Goto(t, IF req[t].week \in weeks THEN "clear" ELSE "createWeek")
  /\ UNCHANGED <<db, today, req, seen, work>>

CreateWeek(t) ==
  /\ At(t, "createWeek")
  /\ IF req[t].week \in weeks
     THEN Fail(t)
     ELSE /\ work' = [work EXCEPT ![t].newWeek = TRUE]
          /\ Goto(t, "clear")
          /\ UNCHANGED <<db, today, req, seen>>

(* DeleteWeekRecipes: the rows are those of the statement's snapshot; one  *)
(* that another transaction deletes meanwhile is skipped, one inserted     *)
(* meanwhile stays.                                                        *)
DeleteWeekRecipes(t) ==
  /\ At(t, "clear")
  /\ seen' = [seen EXCEPT ![t].occTargets = Ids(InWeek(VisibleOccs(t), req[t].week))]
  /\ Goto(t, "clearing")
  /\ UNCHANGED <<db, today, req, work>>

DeletedWeekRecipes(t) ==
  /\ At(t, "clearing")
  /\ work' = [work EXCEPT ![t].occDel = seen[t].occTargets \cap Ids(occs)]
  /\ Goto(t, "cascade")
  /\ UNCHANGED <<db, today, req, seen>>

(* The foreign key's cascade from week_recipes to contributions.           *)
CascadeOccurrence(t) ==
  /\ At(t, "cascade")
  /\ work' = [work EXCEPT ![t].contribDel = @ \cup Orphans(t)]
  /\ Goto(t, IF req[t].op = "generate" THEN "insert" ELSE "states")
  /\ UNCHANGED <<db, today, req, seen>>

(* Fault: MAX(position) + 1 without COALESCE, NULL for an empty pool.      *)
PositionWithoutCoalesce(t) ==
  LET used == {o.position : o \in InWeek(VisibleOccs(t), req[t].week)}
  IN  /\ At(t, "position")
      /\ \E p \in IF used = {} THEN {None} ELSE {q + 1 : q \in used} :
           /\ \A q \in used : q < p
           /\ seen' = [seen EXCEPT ![t].position = p]
      /\ Goto(t, "insert")
      /\ UNCHANGED <<db, today, req, work>>

NextWeekRecipePosition(t) ==
  LET used == {o.position : o \in InWeek(VisibleOccs(t), req[t].week)}
  IN  /\ At(t, "position")
      /\ \E p \in {0} \cup {q + 1 : q \in used} :
           /\ \A q \in used : q < p
           /\ seen' = [seen EXCEPT ![t].position = p]
      /\ Goto(t, "insert")
      /\ UNCHANGED <<db, today, req, work>>

(* Fault: the rows are inserted outside the transaction.                   *)
CreateOutside(t) ==
  /\ At(t, "insert")
  /\ IF \E n \in NewOccs(t), o \in VisibleOccs(t) : SamePlace(o, n)
     THEN Fail(t)
     ELSE /\ occs' = occs \cup NewOccs(t)
          /\ Goto(t, "states")
          /\ UNCHANGED <<weeks, lines, contribs, today, req, seen, work>>

(* CreateWeekRecipe against UNIQUE (week_id, position).                    *)
CreateWeekRecipes(t) ==
  /\ At(t, "insert")
  /\ IF \E n \in NewOccs(t), o \in VisibleOccs(t) : SamePlace(o, n)
     THEN Fail(t)
     ELSE /\ work' = [work EXCEPT ![t].occIns = NewOccs(t)]
          /\ Goto(t, "states")
          /\ UNCHANGED <<db, today, req, seen>>

(* Fault: a missing row returns an error and leaves the transaction open.  *)
DeleteWithoutRollback(t) ==
  /\ At(t, "delete") /\ Target(t) # {}
  /\ work' = [work EXCEPT ![t].occDel = Ids(Target(t))]
  /\ Goto(t, "cascade")
  /\ UNCHANGED <<db, today, req, seen>>

DeleteWeekRecipe(t) ==
  /\ At(t, "delete")
  /\ IF Target(t) = {}
     THEN Fail(t)
     ELSE /\ work' = [work EXCEPT ![t].occDel = Ids(Target(t))]
          /\ Goto(t, "cascade")
          /\ UNCHANGED <<db, today, req, seen>>

(* RandomSwap's reads and choice; it fails when nothing can replace.       *)
Pick(t) ==
  LET pool       == InWeek(VisibleOccs(t), req[t].week)
      absent     == Recipe \ {o.recipe : o \in pool}
      different  == Recipe \ {o.recipe : o \in Target(t)}
      candidates == IF absent # {} THEN absent ELSE different
  IN  /\ At(t, "pick")
      /\ IF Target(t) = {} \/ candidates = {}
         THEN Fail(t)
         ELSE /\ \E r \in candidates : seen' = [seen EXCEPT ![t].recipe = r]
              /\ Goto(t, "update")
              /\ UNCHANGED <<db, today, req, work>>

UpdateWeekRecipe(t) ==
  LET recipe == IF req[t].op = "swap" THEN req[t].recipe ELSE seen[t].recipe
  IN  /\ At(t, "update")
      /\ IF Target(t) = {}
         THEN Fail(t)
         ELSE /\ work' = [work EXCEPT ![t].occUpd =
                            {[o EXCEPT !.recipe = recipe] : o \in Target(t)}]
              /\ Goto(t, "states")
              /\ UNCHANGED <<db, today, req, seen>>

-----------------------------------------------------------------------------
(* recompute                                                               *)

(* Fault: no origin filter.                                                *)
AnyOrigin(rows, w) == InWeek(rows, w)

Generated(rows, w) == {l \in InWeek(rows, w) : l.origin = "generated"}

ReadStates(t) ==
  /\ At(t, "states")
  /\ seen' = [seen EXCEPT ![t].marks =
                {[key |-> l.key, marks |-> l.marks] : l \in Generated(lines, req[t].week)}]
  /\ Goto(t, "requirements")
  /\ UNCHANGED <<db, today, req, work>>

ReadRequirements(t) ==
  /\ At(t, "requirements")
  /\ seen' = [seen EXCEPT ![t].pool = InWeek(VisibleOccs(t), req[t].week)]
  /\ Goto(t, "purge")
  /\ UNCHANGED <<db, today, req, work>>

(* DeleteGeneratedShoppingLines, with a snapshot of its own.               *)
DeleteGeneratedLines(t) ==
  /\ At(t, "purge")
  /\ seen' = [seen EXCEPT ![t].lineTargets = Ids(Generated(lines, req[t].week))]
  /\ Goto(t, "purging")
  /\ UNCHANGED <<db, today, req, work>>

DeletedGeneratedLines(t) ==
  /\ At(t, "purging")
  /\ work' = [work EXCEPT ![t].lineDel = seen[t].lineTargets \cap Ids(lines)]
  /\ Goto(t, "uncontribute")
  /\ UNCHANGED <<db, today, req, seen>>

CascadeLines(t) ==
  /\ At(t, "uncontribute")
  /\ work' = [work EXCEPT ![t].contribDel = @ \cup Orphans(t)]
  /\ Goto(t, "rebuild")
  /\ UNCHANGED <<db, today, req, seen>>

(* Fault: no UNIQUE (shopping_list_id, aggregation_key).                   *)
NoUniqueKey(t) == FALSE

(* UNIQUE (shopping_list_id, aggregation_key).                             *)
DuplicateKey(t) ==
  \E n \in NewLines(t), l \in VisibleLines(t) : l.week = n.week /\ l.key = n.key

(* Fault: contributions are not checked against the pool.                  *)
NeverMismatched(t) == FALSE

(* require_matching_contribution and the foreign key: the occurrence is in *)
(* the week and its recipe still has the ingredient.                       *)
MismatchedContribution(t) ==
  \E c \in NewContribs(t) :
    ~\E o \in VisibleOccs(t) :
       /\ o.id = c.occ /\ o.week = req[t].week
       /\ c.ing \in IngredientsOf[o.recipe]

(* The inserts of the new lines and contributions, TouchWeek and COMMIT.   *)
RebuildAndCommit(t) ==
  /\ At(t, "rebuild")
  /\ IF DuplicateKey(t) \/ MismatchedContribution(t)
     THEN Fail(t)
     ELSE /\ weeks' = weeks \cup (IF work[t].newWeek THEN {req[t].week} ELSE {})
          /\ occs' = VisibleOccs(t)
          /\ lines' = VisibleLines(t) \cup NewLines(t)
          /\ contribs' = VisibleContribs(t) \cup NewContribs(t)
          /\ End(t, "committed")
          /\ UNCHANGED today

-----------------------------------------------------------------------------
(* Checklist edits: one UPDATE or INSERT and the COMMIT.                   *)

(* Fault: the line may be of any week.                                     *)
EditableInAnyWeek(t) ==
  {l \in lines : /\ l.id = req[t].line
                 /\ req[t].flag = "override" => l.origin = "generated"}

(* The line must be one of the current week's list; only generated lines   *)
(* have an override.                                                       *)
Editable(t) ==
  {l \in lines : /\ l.id = req[t].line /\ l.week = req[t].week
                 /\ req[t].flag = "override" => l.origin = "generated"}

UpdateLine(t) ==
  LET edited(l) == [l EXCEPT !.marks = IF req[t].on THEN @ \cup {req[t].flag}
                                                   ELSE @ \ {req[t].flag}]
  IN  /\ At(t, "setLine")
      /\ IF Editable(t) = {}
         THEN Fail(t)
         ELSE /\ lines' = (lines \ Editable(t)) \cup {edited(l) : l \in Editable(t)}
              /\ End(t, "committed")
              /\ UNCHANGED <<today, weeks, occs, contribs>>

CreateManualLine(t) ==
  LET key == <<"manual", t>>
  IN  /\ At(t, "addManual")
      /\ lines' = lines \cup {[id |-> <<t, key>>, week |-> req[t].week, key |-> key,
                               origin |-> "manual", marks |-> {}]}
      /\ End(t, "committed")
      /\ UNCHANGED <<today, weeks, occs, contribs>>

-----------------------------------------------------------------------------
(* t is on a cycle of waiting transactions: PostgreSQL rolls it back.      *)
OnCycle(t) ==
  \E S \in SUBSET Active :
    /\ t \in S
    /\ \A u \in S : /\ WaitsFor(u) \cap S # {}
                    /\ \E v \in S : u \in WaitsFor(v)

DeadlockVictim(t) == t \in Active /\ OnCycle(t) /\ Fail(t)

(* The client goes away, the connection breaks or the server stops before  *)
(* COMMIT.                                                                 *)
Cancel(t) == t \in Active /\ Fail(t)

Midnight ==
  /\ today < LastWeek
  /\ today' = today + 1
  /\ UNCHANGED <<db, pc, req, seen, work>>

Statement(t) ==
  \/ GetWeek(t) \/ CreateWeek(t)
  \/ DeleteWeekRecipes(t) \/ DeletedWeekRecipes(t) \/ CascadeOccurrence(t)
  \/ NextWeekRecipePosition(t) \/ CreateWeekRecipes(t)
  \/ DeleteWeekRecipe(t) \/ Pick(t) \/ UpdateWeekRecipe(t)
  \/ ReadStates(t) \/ ReadRequirements(t)
  \/ DeleteGeneratedLines(t) \/ DeletedGeneratedLines(t) \/ CascadeLines(t)
  \/ RebuildAndCommit(t) \/ UpdateLine(t) \/ CreateManualLine(t)

Request(t) ==
  \/ Generate(t) \/ Add(t) \/ Remove(t) \/ Swap(t) \/ RandomSwap(t)
  \/ SetLine(t) \/ AddManualLine(t)

Next ==
  \/ Midnight
  \/ \E t \in Tx : Request(t) \/ Statement(t) \/ DeadlockVictim(t) \/ Cancel(t)

Spec == Init /\ [][Next]_vars

(* A statement that can run is run, a lock's next holder is served, and    *)
(* the deadlock detector acts; clients need not send or cancel anything.   *)
FairSpec ==
  /\ Spec
  /\ \A t \in Tx : WF_vars(Statement(t)) /\ WF_vars(DeadlockVictim(t))

-----------------------------------------------------------------------------
(* Types.                                                                  *)

OccId == (0..MaxTx) \X Nat
Key ==
  ({"group"} \X {GroupOf[i] : i \in Ingredient \ Unspecified})
    \cup ({"unspecified"} \X OccId \X Ingredient)
    \cup ({"manual"} \X Tx)
LineId == (0..MaxTx) \X Key

OccRow == [id : OccId, week : Week, recipe : Recipe, position : Nat]
LineRow == [id : LineId, week : Week, key : Key, origin : {"generated", "manual"},
            marks : SUBSET Flag]
ContribRow == [line : LineId, occ : OccId, ing : Ingredient]

RequestRow ==
  {NoRequest}
    \cup [op : {"generate"}, week : Week, picks : Shuffles]
    \cup [op : {"add"}, week : Week, recipe : Recipe]
    \cup [op : {"remove", "randomSwap"}, week : Week, occ : OccId]
    \cup [op : {"swap"}, week : Week, occ : OccId, recipe : Recipe]
    \cup [op : {"setLine"}, week : Week, line : LineId, flag : Flag, on : BOOLEAN]
    \cup [op : {"addManual"}, week : Week]

SeenRow == [position : Nat, recipe : Recipe \cup {None},
            marks : SUBSET [key : Key, marks : SUBSET Flag],
            pool : SUBSET OccRow, occTargets : SUBSET OccId, lineTargets : SUBSET LineId]

WorkRow == [newWeek : BOOLEAN, occIns : SUBSET OccRow, occUpd : SUBSET OccRow,
            occDel : SUBSET OccId, lineDel : SUBSET LineId, contribDel : SUBSET ContribRow]

(* The statements a request of each kind goes through.                     *)
Recompute == {"states", "requirements", "purge", "purging", "uncontribute", "rebuild"}
Steps ==
  ({"none"} \X {"idle", "committed", "failed"})
    \cup ({"generate"} \X ({"getWeek", "createWeek", "clear", "clearing", "cascade", "insert"}
                            \cup Recompute))
    \cup ({"add"} \X ({"position", "insert"} \cup Recompute))
    \cup ({"remove"} \X ({"delete", "cascade"} \cup Recompute))
    \cup ({"swap"} \X ({"update"} \cup Recompute))
    \cup ({"randomSwap"} \X ({"pick", "update"} \cup Recompute))
    \cup {<<"setLine", "setLine">>, <<"addManual", "addManual">>}

(* Rows, requests and transactions are of their types, and a transaction   *)
(* is only ever at a statement its request issues.                         *)
TypeOK ==
  /\ today \in Week
  /\ weeks \subseteq Week
  /\ occs \subseteq OccRow
  /\ lines \subseteq LineRow
  /\ contribs \subseteq ContribRow
  /\ pc \in [Tx -> {s[2] : s \in Steps}]
  /\ req \in [Tx -> RequestRow]
  /\ seen \in [Tx -> SeenRow]
  /\ work \in [Tx -> WorkRow]
  /\ \A t \in Tx : <<req[t].op, pc[t]>> \in Steps
  /\ \A t \in Tx : req[t].op = "randomSwap" /\ pc[t] = "update" => seen[t].recipe \in Recipe

-----------------------------------------------------------------------------
(* Properties.                                                             *)

(* The contributions of the lines of week w, as requirements.              *)
Listed(w) ==
  {[occ |-> c.occ, ing |-> c.ing] :
     c \in {d \in contribs : d.line \in Ids(InWeek(lines, w))}}

(* The grocery list is the pool's: every requirement of every occurrence   *)
(* of a week is behind a line of that week and nothing else is.            *)
ListMatchesPool ==
  \A w \in weeks : Listed(w) = Requirements(InWeek(occs, w))

(* Every generated line traces to an occurrence that exists, through a     *)
(* contribution of its own key, and no contribution outlives its line.     *)
LinesExplained ==
  /\ \A l \in lines : l.origin = "generated" =>
       \E c \in contribs : c.line = l.id /\ KeyOf(c) = l.key
  /\ \A c \in contribs : c.occ \in Ids(occs) /\ c.line \in Ids(lines)

(* The list takes all ingredients of a recipe for an occurrence or none.   *)
WholeRecipes ==
  \A o \in occs, r \in Recipe :
    LET got == IngredientsOf[r] \cap {c.ing : c \in {d \in contribs : d.occ = o.id}}
    IN  got \in {{}, IngredientsOf[r]}

(* One occurrence per position and one line per key in each week.          *)
UniqueRows ==
  /\ \A o, p \in occs : SamePlace(o, p) => o = p
  /\ \A l, m \in lines : l.week = m.week /\ l.key = m.key => l = m

(* When a line is replaced by a new one with its key, removed, completed   *)
(* and override are those of the line it replaces.                         *)
RecomputePreservesState ==
  [][\A l \in lines, m \in lines' :
       l.week = m.week /\ l.key = m.key /\ l.id # m.id => l.marks = m.marks]_vars

(* Generate and Add give each new line the state of the line with its key  *)
(* in the list they replace, which other requests may have written since   *)
(* they began.                                                             *)
PlansKeepState ==
  [][\A t \in Tx : req[t].op \in {"generate", "add"} =>
       \A l \in lines, m \in lines' :
         m.id[1] = t /\ l.week = m.week /\ l.key = m.key => l.marks = m.marks]_vars

(* No request ever takes a manual line away.                               *)
ManualLinesKept ==
  [][\A l \in lines : l.origin = "manual" => l.id \in Ids(lines')]_vars

(* Once its last request has ended, a past week never changes.             *)
HistoryFinal ==
  [][\A w \in 0..(today - 1) :
       (\A t \in Active : req[t].week # w) =>
         /\ InWeek(occs', w) = InWeek(occs, w)
         /\ InWeek(lines', w) = InWeek(lines, w)]_vars

(* Every COMMIT is one operation of the plan, applied to what was committed *)
(* just before it: the requests behave as if they ran one after another.   *)
Committed == UNION {Listed(w) : w \in weeks}
Plan == INSTANCE WeekPlan WITH pool <- occs, list <- Committed
RefinesPlan == Plan!Spec

(* No request waits for ever.                                              *)
RequestsEnd == \A t \in Tx : (t \in Active) ~> (t \notin Active)
=============================================================================
