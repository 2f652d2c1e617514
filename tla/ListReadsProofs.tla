--------------------------- MODULE ListReadsProofs ---------------------------
(***************************************************************************)
(* What the handlers answer, for every corpus, number of weeks, requests   *)
(* and interleaving.  Reading changes nothing, so that the theorems about  *)
(* WeekTx hold of ReadSpec; what the queries of one page found is related  *)
(* by ReadInvariant, next to the invariants of the rows.                   *)
(***************************************************************************)
EXTENDS ListReads, WeekHistoryProofs

-----------------------------------------------------------------------------
(* Pages and the week service.                                             *)

LEMMA ReadStepShape ==
  ASSUME NEW r \in Reader, ReadStep(r)
  PROVE  UNCHANGED <<vars, ask>> /\ \E q : page' = [page EXCEPT ![r] = q]
<1>1. ASSUME NEW p, Open(r, p)
      PROVE  UNCHANGED <<vars, ask>> /\ \E q : page' = [page EXCEPT ![r] = q]
  BY <1>1 DEF Open
<1>2. ASSUME NEW label, NEW p, Read(r, label, p)
      PROVE  UNCHANGED <<vars, ask>> /\ \E q : page' = [page EXCEPT ![r] = q]
  BY <1>2 DEF Read
<1>3. CASE CurrentWeek(r) \/ GetGroceries(r) \/ WriteGroceries(r)
  BY <1>1, <1>3 DEF CurrentWeek, GetGroceries, WriteGroceries
<1>4. CASE GetGroceryContributions(r)
  BY <1>1, <1>4 DEF GetGroceryContributions
<1>5. CASE HistoricalWeek(r)
  BY <1>1, <1>5 DEF HistoricalWeek
<1>6. CASE GetWeekByStart(r)
  BY <1>2, <1>6 DEF GetWeekByStart
<1>7. CASE GetPastWeek(r) \/ LabelGroceries(r)
  BY <1>2, <1>7 DEF GetPastWeek, LabelGroceries
<1>8. CASE ListWeekRecipes(r) \/ ListShoppingLines(r)
  BY <1>2, <1>8 DEF ListWeekRecipes, ListShoppingLines
<1>9. CASE ListShoppingLineRecipeNames(r) \/ ListShoppingLineContributions(r)
  BY <1>2, <1>9 DEF ListShoppingLineRecipeNames, ListShoppingLineContributions
<1> QED
  BY <1>3, <1>4, <1>5, <1>6, <1>7, <1>8, <1>9 DEF ReadStep

LEMMA ReadNextNext == [ReadNext]_readVars => [Next]_vars
<1>1. CASE WeekStep
  BY <1>1 DEF WeekStep
<1>2. ASSUME NEW r \in Reader, ReadStep(r)
      PROVE  [Next]_vars
  BY <1>2, ReadStepShape
<1>3. CASE UNCHANGED readVars
  BY <1>3 DEF readVars, vars
<1> QED
  BY <1>1, <1>2, <1>3 DEF ReadNext

(* The handlers that read are invisible to the week service: whatever      *)
(* holds of its specification holds while pages are being read.            *)
THEOREM ReadsAreStutters == ReadSpec => Spec
<1>1. ReadInit => Init
  BY DEF ReadInit
<1> QED
  BY <1>1, ReadNextNext, PTL DEF ReadSpec, Spec

-----------------------------------------------------------------------------
(* A query of a page.                                                      *)

LEMMA TracesType ==
  ASSUME TypeOK, NEW ids
  PROVE  Traces(ids) \in SUBSET Trace
BY DEF Traces, Trace, TypeOK, ContribRow, OccRow

(* The occurrences of a line, from the traces of some lines.               *)
LEMMA OccsOfTraces ==
  ASSUME LinesExplained, NEW ids, NEW id
  PROVE  OccsOf(Traces(ids), id) = IF id \in ids THEN LineOccs(id) ELSE {}
<1> DEFINE trace(c, o) == [line |-> c.line, occ |-> o.id, recipe |-> o.recipe]
<1>1. \A c, o : trace(c, o).line = c.line /\ trace(c, o).occ = o.id
  OBVIOUS
<1>2. \A x : x \in Traces(ids) <=>
        \E c \in contribs, o \in occs : c.line \in ids /\ o.id = c.occ /\ x = trace(c, o)
  BY DEF Traces
<1> HIDE DEF trace
<1>3. \A y : y \in OccsOf(Traces(ids), id) <=>
        \E c \in contribs, o \in occs : c.line \in ids /\ o.id = c.occ /\ c.line = id /\ y = o.id
  BY <1>1, <1>2 DEF OccsOf
<1>4. \A c \in contribs : \E o \in occs : o.id = c.occ
  BY DEF LinesExplained, Ids
<1>5. \A y : y \in OccsOf(Traces(ids), id) <=> id \in ids /\ \E c \in contribs : c.line = id /\ y = c.occ
  BY <1>3, <1>4
<1> QED
  BY <1>5 DEF LineOccs

LEMMA PageTurned ==
  ASSUME ReadInvariant, UNCHANGED <<vars, ask>>,
         NEW r \in Reader, NEW q, page' = [page EXCEPT ![r] = q], PageFor(r, q)
  PROVE  ReadInvariant'
<1>1. \A s, p : PageFor(s, p)' <=> PageFor(s, p)
  BY DEF PageFor, PageOf, PastRead, TracesKept, LineOccs, OccsOf, AnswersEdit, EditKept, Shown,
         Settled, Active, Traces, InWeek, Ids, vars
<1>2. WeeksExist' /\ \A t \in Tx : Asked(t)'
  BY DEF ReadInvariant, WeeksExist, Asked, Active, vars
<1>3. q \in PageRow
  BY DEF PageFor
<1> HIDE DEF PageFor
<1> QED
  BY <1>1, <1>2, <1>3 DEF ReadInvariant

(* A request for a page: nothing is read yet.                              *)
LEMMA OpenedPage ==
  ASSUME TypeOK, NEW r \in Reader,
         \/ CurrentWeek(r) \/ GetGroceries(r) \/ GetGroceryContributions(r)
         \/ HistoricalWeek(r) \/ WriteGroceries(r)
  PROVE  \E p \in PageRow :
           /\ Open(r, p) /\ p.lines = {} /\ p.names = {} /\ p.rows = {}
           /\ \/ p.at = "week" /\ p.kind # "history"
              \/ p.at = "pastWeek" /\ p.kind = "history"
           /\ r \in Pages \/ WriteGroceries(r)
<1>0. 0 \in Week
  BY BoundsAssumption DEF Week
<1>1. NoPage \in PageRow
  BY <1>0 DEF NoPage, PageRow
<1>2. CASE CurrentWeek(r)
  <2>1. [NoPage EXCEPT !.at = "week", !.kind = "week"] \in PageRow
    BY <1>1 DEF PageRow
  <2> QED
    BY <1>2, <2>1 DEF CurrentWeek, Free, NoPage
<1>3. CASE GetGroceries(r) \/ WriteGroceries(r)
  <2>1. [NoPage EXCEPT !.at = "week", !.kind = "groceries"] \in PageRow
    BY <1>1 DEF PageRow
  <2> QED
    BY <1>3, <2>1 DEF GetGroceries, WriteGroceries, Free, NoPage
<1>4. CASE GetGroceryContributions(r)
  <2> PICK l \in lines :
        Open(r, [NoPage EXCEPT !.at = "week", !.kind = "contributions", !.line = l.id])
    BY <1>4 DEF GetGroceryContributions
  <2>1. [NoPage EXCEPT !.at = "week", !.kind = "contributions", !.line = l.id] \in PageRow
    BY <1>1 DEF PageRow, TypeOK, LineRow
  <2> QED
    BY <1>4, <2>1 DEF GetGroceryContributions, Free, NoPage
<1>5. CASE HistoricalWeek(r)
  <2> PICK w \in weeks :
        Open(r, [NoPage EXCEPT !.at = "pastWeek", !.kind = "history", !.week = w])
    BY <1>5 DEF HistoricalWeek
  <2>1. [NoPage EXCEPT !.at = "pastWeek", !.kind = "history", !.week = w] \in PageRow
    BY <1>1 DEF PageRow, TypeOK
  <2> QED
    BY <1>5, <2>1 DEF HistoricalWeek, Free, NoPage
<1> QED
  BY <1>2, <1>3, <1>4, <1>5

LEMMA Opened ==
  ASSUME RowsInvariant, ReadInvariant, NEW r \in Reader,
         \/ CurrentWeek(r) \/ GetGroceries(r) \/ GetGroceryContributions(r)
         \/ HistoricalWeek(r) \/ WriteGroceries(r)
  PROVE  ReadInvariant'
<1>0. TypeOK
  BY DEF RowsInvariant
<1> PICK p \in PageRow :
      /\ Open(r, p) /\ p.lines = {} /\ p.names = {} /\ p.rows = {}
      /\ \/ p.at = "week" /\ p.kind # "history"
         \/ p.at = "pastWeek" /\ p.kind = "history"
      /\ r \in Pages \/ WriteGroceries(r)
  BY <1>0, OpenedPage
<1> DEFINE q == [p EXCEPT !.day = today]
<1>1. page' = [page EXCEPT ![r] = q] /\ UNCHANGED <<vars, ask>>
  BY DEF Open
<1>2. /\ q \in PageRow /\ q.at = p.at /\ q.kind = p.kind /\ q.day = today
      /\ q.lines = {} /\ q.names = {} /\ q.rows = {}
  BY <1>0 DEF PageRow, TypeOK
<1> HIDE DEF q
<1>3. PageOf(q) /\ PastRead(q) /\ TracesKept(q)
  <2>1. today <= today
    BY <1>0 DEF TypeOK, Week
  <2>2. PageOf(q) /\ PastRead(q)
    BY <1>2, <2>1 DEF PageOf, PastRead
  <2>3. TracesKept(q)
    BY <1>2 DEF TracesKept
  <2> QED
    BY <2>2, <2>3
<1>4. ASSUME r \in Tx
      PROVE  AnswersEdit(r, q) /\ EditKept(r, q)
  <2>1. WriteGroceries(r)
    BY <1>4, PagesAssumption
  <2>2. pc[r] = "committed" /\ ask[r].op \in Edit /\ q.at # "noWeek"
    BY <1>2, <2>1 DEF WriteGroceries
  <2>3. ask[r].week <= today /\ EditKept(r, page[r])
    BY <1>4, <2>2 DEF ReadInvariant, Asked, PageFor
  <2> QED
    BY <1>2, <2>2, <2>3 DEF AnswersEdit, EditKept
<1>5. PageFor(r, q)
  BY <1>2, <1>3, <1>4 DEF PageFor
<1> QED
  BY <1>1, <1>5, PageTurned

(* A page that reads: the row before and after the query.                  *)
LEMMA Turned ==
  ASSUME ReadInvariant, NEW r \in Reader, NEW label, NEW q, Read(r, label, q), label # "idle",
         q \in PageRow, q.day = page[r].day, q.at # "idle",
         q.at = "noWeek" => page[r].day \notin weeks,
         \A l \in q.lines : l \in lines \cup page[r].lines,
         PageOf(q), PastRead(q), TracesKept(q)
  PROVE  ReadInvariant'
<1> DEFINE p == page[r]
<1>1. /\ p.at = label /\ page' = [page EXCEPT ![r] = q] /\ UNCHANGED <<vars, ask>>
      /\ PageFor(r, p)
  BY DEF Read, ReadInvariant
<1>2. ASSUME r \in Tx
      PROVE  AnswersEdit(r, q) /\ EditKept(r, q)
  <2>1. AnswersEdit(r, p) /\ EditKept(r, p) /\ Asked(r)
    BY <1>1, <1>2 DEF PageFor, ReadInvariant
  <2>2. /\ pc[r] = "committed" /\ ask[r].op \in Edit /\ ask[r].week <= q.day
        /\ ask[r].week \in weeks
    BY <1>1, <2>1 DEF AnswersEdit, Asked
  <2>3. AnswersEdit(r, q)
    BY <2>2 DEF AnswersEdit
  <2>4. EditKept(r, q)
    BY <2>1 DEF EditKept
  <2> QED
    BY <2>3, <2>4
<1>3. PageFor(r, q)
  BY <1>2 DEF PageFor
<1> QED
  BY <1>1, <1>3, PageTurned

(* What a page holds of its lines is unchanged.                            *)
LEMMA TracesCarried ==
  ASSUME NEW p, NEW q, TracesKept(p),
         q.lines = p.lines, q.traced = p.traced, q.names = p.names, q.rows = p.rows,
         \/ q.at \notin {"idle", "week", "pastWeek", "pool", "lines"}
         \/ p.at \in {"idle", "week", "pastWeek", "pool", "lines"}
  PROVE  TracesKept(q)
BY DEF TracesKept

LEMMA Queried ==
  ASSUME RowsInvariant, ReadInvariant, NEW r \in Reader,
         \/ GetWeekByStart(r) \/ GetPastWeek(r) \/ ListWeekRecipes(r) \/ ListShoppingLines(r)
         \/ ListShoppingLineRecipeNames(r) \/ ListShoppingLineContributions(r)
         \/ LabelGroceries(r)
  PROVE  ReadInvariant'
<1> DEFINE p == page[r]
<1>0. /\ TypeOK /\ p \in PageRow /\ PageOf(p) /\ PastRead(p) /\ TracesKept(p)
      /\ LinesExplained /\ RowIdentity
  BY DEF RowsInvariant, ReadInvariant, PageFor
<1>1. CASE GetWeekByStart(r)
  <2>1. CASE p.day \notin weeks
    <3> DEFINE q == [p EXCEPT !.at = "noWeek"]
    <3>1. Read(r, "week", q)
      BY <1>1, <2>1 DEF GetWeekByStart
    <3>2. /\ q \in PageRow /\ q.at = "noWeek" /\ q.day = p.day /\ q.lines = p.lines
          /\ q.traced = p.traced /\ q.names = p.names /\ q.rows = p.rows
      BY <1>0 DEF PageRow, Answered
    <3> HIDE DEF q
    <3>3. PageOf(q) /\ PastRead(q)
      BY <1>0, <3>2 DEF PageOf, PastRead
    <3>4. TracesKept(q)
      BY <1>0, <3>2, TracesCarried
    <3> QED
      BY <2>1, <3>1, <3>2, <3>3, <3>4, Turned
  <2>2. CASE p.day \in weeks
    <3> DEFINE at == IF p.kind = "week" THEN "pool" ELSE "lines"
               q == [p EXCEPT !.week = p.day, !.at = at]
    <3>1. Read(r, "week", q)
      BY <1>1, <2>2 DEF GetWeekByStart
    <3>2. /\ q \in PageRow /\ q.at = at /\ q.day = p.day /\ q.lines = p.lines
          /\ q.week = p.day /\ q.kind = p.kind
          /\ q.traced = p.traced /\ q.names = p.names /\ q.rows = p.rows
      BY <1>0 DEF PageRow
    <3>3. p.at = "week"
      BY <3>1 DEF Read
    <3> HIDE DEF q
    <3>4. PageOf(q) /\ PastRead(q)
      BY <1>0, <3>2, <3>3 DEF PageOf, PastRead
    <3>5. TracesKept(q)
      BY <1>0, <3>2, <3>3, TracesCarried
    <3> QED
      BY <3>1, <3>2, <3>4, <3>5, Turned
  <2> QED
    BY <2>1, <2>2
<1>2. CASE GetPastWeek(r)
  <2>1. CASE p.week \in weeks /\ p.week < p.day
    <3> DEFINE settled == Settled(p.week)
               q == [p EXCEPT !.at = "pool", !.settled = settled]
    <3>1. Read(r, "pastWeek", q)
      BY <1>2, <2>1 DEF GetPastWeek
    <3>2. settled \in BOOLEAN
      BY DEF Settled
    <3>3. p.at = "pastWeek"
      BY <3>1 DEF Read
    <3> HIDE DEF settled
    <3>4. /\ q \in PageRow /\ q.at = "pool" /\ q.day = p.day /\ q.lines = p.lines
          /\ q.week = p.week /\ q.kind = p.kind /\ q.settled = settled
          /\ q.traced = p.traced /\ q.names = p.names /\ q.rows = p.rows
      BY <1>0, <3>2 DEF PageRow
    <3> HIDE DEF q
    <3>5. PageOf(q)
      BY <1>0, <3>3, <3>4 DEF PageOf
    <3>6. PastRead(q)
      BY <2>1, <3>4 DEF PastRead, settled
    <3>7. TracesKept(q)
      BY <1>0, <3>3, <3>4, TracesCarried
    <3> QED
      BY <3>1, <3>4, <3>5, <3>6, <3>7, Turned
  <2>2. CASE ~(p.week \in weeks /\ p.week < p.day)
    <3> DEFINE q == [p EXCEPT !.at = "notFound"]
    <3>1. Read(r, "pastWeek", q)
      BY <1>2, <2>2 DEF GetPastWeek
    <3>2. /\ q \in PageRow /\ q.at = "notFound" /\ q.day = p.day /\ q.lines = p.lines
          /\ q.traced = p.traced /\ q.names = p.names /\ q.rows = p.rows
      BY <1>0 DEF PageRow, Answered
    <3> HIDE DEF q
    <3>3. PageOf(q) /\ PastRead(q)
      BY <1>0, <3>2 DEF PageOf, PastRead
    <3>4. TracesKept(q)
      BY <1>0, <3>2, TracesCarried
    <3> QED
      BY <3>1, <3>2, <3>3, <3>4, Turned
  <2> QED
    BY <2>1, <2>2
<1>3. CASE ListWeekRecipes(r)
  <2> DEFINE pool == InWeek(occs, p.week)
             at == IF p.kind = "history" THEN "lines" ELSE "ok"
             q == [p EXCEPT !.pool = pool, !.at = at]
  <2>1. Read(r, "pool", q)
    BY <1>3 DEF ListWeekRecipes
  <2>2. p.at = "pool" /\ p.kind \in {"week", "history"}
    BY <1>0, <2>1 DEF Read, PageOf
  <2>3. pool \in SUBSET OccRow
    BY <1>0 DEF TypeOK, InWeek
  <2> HIDE DEF pool
  <2>4. /\ q \in PageRow /\ q.at = at /\ q.day = p.day /\ q.lines = p.lines
        /\ q.week = p.week /\ q.kind = p.kind /\ q.settled = p.settled /\ q.pool = pool
        /\ q.traced = p.traced /\ q.names = p.names /\ q.rows = p.rows
    BY <1>0, <2>3 DEF PageRow, Answered
  <2> HIDE DEF q
  <2>5. PageOf(q)
    BY <1>0, <2>2, <2>4 DEF PageOf
  <2>6. PastRead(q)
    BY <1>0, <2>2, <2>4 DEF PastRead, pool
  <2>7. TracesKept(q)
    BY <1>0, <2>2, <2>4, TracesCarried
  <2> QED
    BY <2>1, <2>4, <2>5, <2>6, <2>7, Turned
<1>4. CASE ListShoppingLines(r)
  <2> DEFINE now == InWeek(lines, p.week)
             traced == Traces(Ids(now))
             q == [p EXCEPT !.lines = now, !.traced = traced, !.at = "names"]
  <2>1. Read(r, "lines", q)
    BY <1>4 DEF ListShoppingLines
  <2>2. p.at = "lines"
    BY <2>1 DEF Read
  <2>3. now \subseteq lines /\ now \in SUBSET LineRow /\ traced \in SUBSET Trace
    BY <1>0, TracesType DEF TypeOK, InWeek
  <2> HIDE DEF now, traced
  <2>4. /\ q \in PageRow /\ q.at = "names" /\ q.day = p.day /\ q.lines = now
        /\ q.week = p.week /\ q.kind = p.kind /\ q.settled = p.settled /\ q.pool = p.pool
        /\ q.traced = traced /\ q.names = p.names /\ q.rows = p.rows
    BY <1>0, <2>3 DEF PageRow
  <2> HIDE DEF q
  <2>5. PageOf(q)
    BY <1>0, <2>2, <2>4 DEF PageOf
  <2>6. PastRead(q)
    BY <1>0, <2>2, <2>4 DEF PastRead, now
  <2>7. TracesKept(q)
    <3>1. p.names = {} /\ p.rows = {}
      BY <1>0, <2>2 DEF TracesKept
    <3>2. \A id : OccsOf({}, id) = {}
      BY DEF OccsOf
    <3>3. ASSUME NEW l \in now
          PROVE  /\ l.id[1] = 0 \/ pc[l.id[1]] = "committed"
                 /\ LineOccs(l.id) = OccsOf(traced, l.id)
      <4>1. l \in lines /\ l.id \in Ids(now)
        BY <2>3 DEF Ids
      <4>2. Durable(l.id)
        BY <1>0, <4>1 DEF RowIdentity
      <4>3. OccsOf(traced, l.id) = LineOccs(l.id)
        BY <1>0, <4>1, OccsOfTraces DEF traced
      <4> QED
        BY <4>2, <4>3 DEF Durable
    <3> QED
      BY <2>4, <3>1, <3>2, <3>3 DEF TracesKept
  <2> QED
    BY <2>1, <2>3, <2>4, <2>5, <2>6, <2>7, Turned
<1>5. CASE ListShoppingLineRecipeNames(r)
  <2> DEFINE names == Traces(Ids(InWeek(lines, p.week)))
             at == CASE p.kind = "history" -> "ok"
                     [] p.kind = "groceries" -> "label"
                     [] p.kind = "contributions" /\ p.line \in Ids(p.lines) -> "rows"
                     [] OTHER -> "unknownLine"
             q == [p EXCEPT !.names = names, !.at = at]
  <2>1. Read(r, "names", q)
    BY <1>5 DEF ListShoppingLineRecipeNames
  <2>2. p.at = "names"
    BY <2>1 DEF Read
  <2>3. names \in SUBSET Trace
    BY <1>0, TracesType
  <2>4. /\ p.kind = "history" => at = "ok"
        /\ p.kind = "groceries" => at = "label"
        /\ p.kind \notin {"history", "groceries"} => at \in {"rows", "unknownLine"}
    <3>1. CASE p.kind = "history"
      BY <3>1
    <3>2. CASE p.kind = "groceries"
      BY <3>2
    <3>3. CASE p.kind = "contributions" /\ p.line \in Ids(p.lines)
      BY <3>3
    <3>4. CASE /\ p.kind \notin {"history", "groceries"}
               /\ ~(p.kind = "contributions" /\ p.line \in Ids(p.lines))
      BY <3>4
    <3> QED
      BY <3>1, <3>2, <3>3, <3>4
  <2>5. at \in {"ok", "label", "rows", "unknownLine"}
    BY <2>4
  <2> HIDE DEF names, at
  <2>6. /\ q \in PageRow /\ q.at = at /\ q.day = p.day /\ q.lines = p.lines /\ q.names = names
        /\ q.week = p.week /\ q.kind = p.kind /\ q.settled = p.settled /\ q.pool = p.pool
        /\ q.traced = p.traced /\ q.rows = p.rows
    BY <1>0, <2>3, <2>5 DEF PageRow, Answered
  <2> HIDE DEF q
  <2>7. PageOf(q)
    BY <1>0, <2>2, <2>4, <2>5, <2>6 DEF PageOf
  <2>8. PastRead(q)
    BY <1>0, <2>2, <2>4, <2>6 DEF PastRead, names
  <2>9. TracesKept(q)
    <3>1. ASSUME NEW l \in p.lines
          PROVE  OccsOf(names, l.id) \in {{}, OccsOf(p.traced, l.id)}
      <4> DEFINE ids == Ids(InWeek(lines, p.week))
      <4>1. OccsOf(names, l.id) = IF l.id \in ids THEN LineOccs(l.id) ELSE {}
        BY <1>0, OccsOfTraces DEF names
      <4>2. l.id \in ids => l.id \in Ids(lines)
        BY DEF Ids, InWeek
      <4>3. l.id \in ids => LineOccs(l.id) = OccsOf(p.traced, l.id)
        BY <1>0, <4>2 DEF TracesKept
      <4> HIDE DEF ids
      <4> QED
        BY <4>1, <4>3
    <3> QED
      BY <1>0, <2>5, <2>6, <3>1 DEF TracesKept
  <2> QED
    BY <2>1, <2>5, <2>6, <2>7, <2>8, <2>9, Turned
<1>6. CASE ListShoppingLineContributions(r)
  <2> DEFINE rows == Traces({p.line})
             q == [p EXCEPT !.rows = rows, !.at = "ok"]
  <2>1. Read(r, "rows", q)
    BY <1>6 DEF ListShoppingLineContributions
  <2>2. p.at = "rows"
    BY <2>1 DEF Read
  <2>3. rows \in SUBSET Trace
    BY <1>0, TracesType
  <2> HIDE DEF rows
  <2>4. /\ q \in PageRow /\ q.at = "ok" /\ q.day = p.day /\ q.lines = p.lines
        /\ q.kind = p.kind /\ q.traced = p.traced /\ q.names = p.names /\ q.rows = rows
    BY <1>0, <2>3 DEF PageRow, Answered
  <2> HIDE DEF q
  <2>5. PageOf(q) /\ PastRead(q)
    BY <1>0, <2>2, <2>4 DEF PageOf, PastRead
  <2>6. TracesKept(q)
    <3>1. ASSUME NEW l \in p.lines
          PROVE  OccsOf(rows, l.id) \in {{}, OccsOf(p.traced, l.id)}
      <4>1. OccsOf(rows, l.id) = IF l.id \in {p.line} THEN LineOccs(l.id) ELSE {}
        BY <1>0, OccsOfTraces DEF rows
      <4>2. l.id \notin Ids(lines) => LineOccs(l.id) = {}
        BY <1>0 DEF LinesExplained, LineOccs
      <4>3. l.id \in Ids(lines) => LineOccs(l.id) = OccsOf(p.traced, l.id)
        BY <1>0 DEF TracesKept
      <4> QED
        BY <4>1, <4>2, <4>3
    <3> QED
      BY <1>0, <2>4, <3>1 DEF TracesKept
  <2> QED
    BY <2>1, <2>4, <2>5, <2>6, Turned
<1>7. CASE LabelGroceries(r)
  <2> DEFINE q == [p EXCEPT !.label = today, !.at = "ok"]
  <2>1. Read(r, "label", q)
    BY <1>7 DEF LabelGroceries
  <2>2. p.at = "label"
    BY <2>1 DEF Read
  <2>3. /\ q \in PageRow /\ q.at = "ok" /\ q.day = p.day /\ q.lines = p.lines
        /\ q.kind = p.kind /\ q.week = p.week /\ q.label = today
        /\ q.traced = p.traced /\ q.names = p.names /\ q.rows = p.rows
    BY <1>0 DEF PageRow, Answered, TypeOK
  <2> HIDE DEF q
  <2>4. PageOf(q) /\ PastRead(q)
    BY <1>0, <2>2, <2>3 DEF PageOf, PastRead
  <2>5. TracesKept(q)
    BY <1>0, <2>3, TracesCarried
  <2> QED
    BY <2>1, <2>3, <2>4, <2>5, Turned
<1> QED
  BY <1>1, <1>2, <1>3, <1>4, <1>5, <1>6, <1>7

-----------------------------------------------------------------------------
(* A step of the week service, by what it does to a transaction.           *)

OthersStay(t) ==
  \A u \in Tx \ {t} : pc'[u] = pc[u] /\ req'[u] = req[u] /\ work'[u] = work[u]

(* A request comes in for a week there is, or to make one, or for a line.  *)
Begins(t) ==
  /\ pc[t] = "idle" /\ UNCHANGED <<db, today>> /\ OthersStay(t)
  /\ pc'[t] \notin {"idle", "committed", "failed"}
  /\ req'[t].week = today
  /\ today \in weeks \/ req'[t].op = "setLine" \/ (req'[t].op = "generate" /\ pc'[t] = "getWeek")

(* A statement between the first and the COMMIT.                           *)
Goes(t) ==
  /\ t \in Active /\ UNCHANGED <<db, today>> /\ OthersStay(t)
  /\ pc'[t] \notin {"idle", "committed", "failed"}
  /\ req'[t] = req[t]
  /\ req[t].op = "generate" /\ req[t].week \notin weeks /\ ~work'[t].newWeek =>
       pc'[t] = "createWeek" \/ (pc[t] \notin {"getWeek", "createWeek"} /\ ~work[t].newWeek)

Ends(t) ==
  \/ t \in Active /\ Fail(t)
  \/ ~Fail(t) /\ RebuildAndCommit(t)
  \/ ~Fail(t) /\ UpdateLine(t)
  \/ CreateManualLine(t)

LEMMA RequestBegins ==
  ASSUME TypeOK, NEW t \in Tx, Request(t)
  PROVE  Begins(t)
<1>1. ASSUME NEW r, NEW label, Begin(t, r, label), label \notin {"idle", "committed", "failed"},
             r.week = today,
             today \in weeks \/ r.op = "setLine" \/ (r.op = "generate" /\ label = "getWeek")
      PROVE  Begins(t)
  BY <1>1 DEF Begin, Goto, Begins, OthersStay, TypeOK
<1>2. CASE Generate(t)
  BY <1>1, <1>2 DEF Generate
<1>3. CASE Add(t)
  BY <1>1, <1>3 DEF Add
<1>4. CASE Remove(t)
  BY <1>1, <1>4 DEF Remove
<1>5. CASE Swap(t)
  BY <1>1, <1>5 DEF Swap
<1>6. CASE RandomSwap(t)
  BY <1>1, <1>6 DEF RandomSwap
<1>7. CASE SetLine(t)
  BY <1>1, <1>7 DEF SetLine
<1>8. CASE AddManualLine(t)
  BY <1>1, <1>8 DEF AddManualLine
<1> QED
  BY <1>2, <1>3, <1>4, <1>5, <1>6, <1>7, <1>8 DEF Request

LEMMA StatementGoes ==
  ASSUME TypeOK, NEW t \in Tx, ~Fail(t), Statement(t),
         ~RebuildAndCommit(t), ~UpdateLine(t), ~CreateManualLine(t)
  PROVE  Goes(t)
<1> USE DEF At, Goto, db, Goes, OthersStay, Active
<1>0. seen[t] \in SeenRow /\ work[t] \in WorkRow
  BY SeenWorkType
<1>1. CASE GetWeek(t)
  BY <1>1 DEF GetWeek, TypeOK
<1>2. CASE CreateWeek(t)
  BY <1>0, <1>2 DEF CreateWeek, TypeOK, WorkRow
<1>3. CASE DeleteWeekRecipes(t)
  BY <1>3 DEF DeleteWeekRecipes, TypeOK
<1>4. CASE DeletedWeekRecipes(t)
  BY <1>0, <1>4 DEF DeletedWeekRecipes, TypeOK, WorkRow
<1>5. CASE CascadeOccurrence(t)
  BY <1>0, <1>5 DEF CascadeOccurrence, TypeOK, WorkRow
<1>6. CASE NextWeekRecipePosition(t)
  BY <1>6 DEF NextWeekRecipePosition, TypeOK
<1>7. CASE CreateWeekRecipes(t)
  BY <1>0, <1>7 DEF CreateWeekRecipes, TypeOK, WorkRow
<1>8. CASE DeleteWeekRecipe(t)
  BY <1>0, <1>8 DEF DeleteWeekRecipe, TypeOK, WorkRow
<1>9. CASE Pick(t)
  BY <1>9 DEF Pick, TypeOK
<1>10. CASE UpdateWeekRecipe(t)
  BY <1>0, <1>10 DEF UpdateWeekRecipe, TypeOK, WorkRow
<1>11. CASE ReadStates(t)
  BY <1>11 DEF ReadStates, TypeOK
<1>12. CASE ReadRequirements(t)
  BY <1>12 DEF ReadRequirements, TypeOK
<1>13. CASE DeleteGeneratedLines(t)
  BY <1>13 DEF DeleteGeneratedLines, TypeOK
<1>14. CASE DeletedGeneratedLines(t)
  BY <1>0, <1>14 DEF DeletedGeneratedLines, TypeOK, WorkRow
<1>15. CASE CascadeLines(t)
  BY <1>0, <1>15 DEF CascadeLines, TypeOK, WorkRow
<1> QED
  BY <1>1, <1>2, <1>3, <1>4, <1>5, <1>6, <1>7, <1>8, <1>9, <1>10, <1>11, <1>12, <1>13,
     <1>14, <1>15 DEF Statement

LEMMA StatementActive ==
  ASSUME NEW t \in Tx, Statement(t)
  PROVE  t \in Active
BY DEF Statement, At, Active, GetWeek, CreateWeek, DeleteWeekRecipes, DeletedWeekRecipes,
       CascadeOccurrence, NextWeekRecipePosition, CreateWeekRecipes, DeleteWeekRecipe, Pick,
       UpdateWeekRecipe, ReadStates, ReadRequirements, DeleteGeneratedLines,
       DeletedGeneratedLines, CascadeLines, RebuildAndCommit, UpdateLine, CreateManualLine

LEMMA WeekStepShape ==
  ASSUME TypeOK, Next
  PROVE  \/ Midnight
         \/ \E t \in Tx : Begins(t) \/ Goes(t) \/ Ends(t)
<1>1. ASSUME NEW t \in Tx, Request(t) \/ Statement(t) \/ DeadlockVictim(t) \/ Cancel(t)
      PROVE  Begins(t) \/ Goes(t) \/ Ends(t)
  <2>1. CASE Request(t)
    BY <2>1, RequestBegins
  <2>2. CASE Statement(t)
    BY <2>2, StatementGoes, StatementActive DEF Ends
  <2> QED
    BY <1>1, <2>1, <2>2 DEF DeadlockVictim, Cancel, Ends
<1> QED
  BY <1>1 DEF Next

(* The request a transaction at each of these statements serves.           *)
LEMMA EditOps ==
  ASSUME TypeOK, NEW t \in Tx
  PROVE  /\ t \notin Active => req[t].op = "none"
         /\ t \in Active => req[t].op # "none"
         /\ pc[t] = "rebuild" => req[t].op \notin {"none", "setLine", "addManual"}
         /\ pc[t] = "setLine" <=> req[t].op = "setLine"
         /\ pc[t] = "addManual" <=> req[t].op = "addManual"
BY DEF TypeOK, Steps, Recompute, Active

Commits(t) ==
  \/ ~Fail(t) /\ RebuildAndCommit(t)
  \/ ~Fail(t) /\ UpdateLine(t)
  \/ CreateManualLine(t)

LEMMA CommitsEnd ==
  ASSUME TypeOK, NEW t \in Tx, Commits(t)
  PROVE  t \in Active /\ End(t, "committed") /\ today' = today /\ OthersStay(t)
BY DEF Commits, RebuildAndCommit, UpdateLine, CreateManualLine, At, Active, End, Goto, OthersStay,
       TypeOK

(* What a step does to each transaction and to the edit it serves.         *)
LEMMA AskStep ==
  ASSUME TypeOK, \A t \in Tx : Asked(t), WeekStep, NEW u \in Tx
  PROVE  \/ /\ pc[u] = "idle" /\ u \in Active' /\ req'[u].week = today /\ UNCHANGED <<db, today>>
            /\ ask'[u] = IF req'[u].op \in Edit THEN req'[u] ELSE NoRequest
         \/ /\ ask'[u] = ask[u] /\ (pc'[u] = "idle" => pc[u] = "idle")
            /\ u \in Active' => u \in Active /\ req'[u] = req[u]
            /\ pc[u] = "committed" => pc'[u] = "committed"
            /\ pc'[u] = "committed" => pc[u] = "committed" \/ Commits(u)
<1>0. /\ ask'[u] = IF req'[u].op \in Edit THEN req'[u] ELSE ask[u]
      /\ NoRequest.op \notin Edit
      /\ req[u].op \in Edit => u \in Active /\ ask[u] = req[u]
  BY EditOps DEF WeekStep, NoRequest, Edit, Asked
<1>1. ASSUME pc'[u] = pc[u], req'[u] = req[u]
      PROVE  /\ ask'[u] = ask[u] /\ (u \in Active' => u \in Active)
  BY <1>0, <1>1 DEF Active
<1>2. CASE Midnight
  BY <1>1, <1>2 DEF Midnight
<1>3. ASSUME NEW t \in Tx, Begins(t) \/ Goes(t) \/ Ends(t), t # u
      PROVE  pc'[u] = pc[u] /\ req'[u] = req[u]
  <2>1. CASE Fail(t)
    BY <1>3, <2>1 DEF Fail, End, Goto, TypeOK
  <2>2. CASE Commits(t)
    BY <1>3, <2>2, CommitsEnd DEF OthersStay
  <2> QED
    BY <1>3, <2>1, <2>2 DEF Begins, Goes, Ends, Commits, OthersStay
<1>4. CASE Begins(u)
  <2>1. ask[u] = NoRequest /\ u \in Active'
    BY <1>4 DEF Begins, Asked, Active
  <2> QED
    BY <1>0, <1>4, <2>1 DEF Begins
<1>5. CASE Goes(u)
  BY <1>0, <1>5 DEF Goes, Active
<1>6. CASE u \in Active /\ Fail(u)
  <2>1. pc'[u] = "failed" /\ req'[u] = NoRequest
    BY <1>6 DEF Fail, End, Goto, TypeOK
  <2> QED
    BY <1>0, <1>6, <2>1 DEF Active
<1>7. CASE Commits(u)
  <2>1. pc'[u] = "committed" /\ req'[u] = NoRequest
    BY <1>7, CommitsEnd DEF End, Goto, TypeOK
  <2> QED
    BY <1>0, <1>7, <2>1 DEF Active
<1>8. CASE \E t \in Tx : Begins(t) \/ Goes(t) \/ Ends(t)
  <2> PICK t \in Tx : Begins(t) \/ Goes(t) \/ Ends(t)
    BY <1>8
  <2>1. CASE t = u
    BY <1>4, <1>5, <1>6, <1>7, <2>1 DEF Ends, Commits
  <2>2. CASE t # u
    BY <1>1, <1>3, <2>2
  <2> QED
    BY <2>1, <2>2
<1> QED
  BY <1>2, <1>8, WeekStepShape DEF WeekStep

-----------------------------------------------------------------------------
(* A step of the week service keeps the invariant of the pages.            *)

LEMMA WeeksExistStay ==
  ASSUME RowsInvariant, WeekInvariant, WeeksExist, Next
  PROVE  WeeksExist'
<1>0. TypeOK
  BY DEF RowsInvariant
<1> DEFINE fine(t) == \/ req[t].week \in weeks \/ req[t].op = "setLine"
                      \/ req[t].op = "generate"
                           /\ (work[t].newWeek \/ pc[t] \in {"getWeek", "createWeek"})
<1>1. ASSUME weeks \subseteq weeks', NEW t \in Tx, OthersStay(t), NEW u \in Tx, u # t, u \in Active'
      PROVE  fine(u)'
  BY <1>1 DEF OthersStay, Active, WeeksExist
<1>2. CASE Midnight
  BY <1>2 DEF Midnight, WeeksExist, Active, db
<1>3. ASSUME NEW t \in Tx, Begins(t) \/ Goes(t)
      PROVE  WeeksExist'
  <2>1. UNCHANGED <<weeks, lines>> /\ OthersStay(t)
    BY <1>3 DEF Begins, Goes, db
  <2>2. CASE Begins(t)
    BY <1>1, <2>1, <2>2 DEF Begins, WeeksExist, Active
  <2>3. CASE Goes(t)
    <3>1. fine(t) /\ t \in Active
      BY <2>3 DEF Goes, WeeksExist
    <3>2. fine(t)'
      BY <2>1, <2>3, <3>1 DEF Goes
    <3> QED
      BY <1>1, <2>1, <3>2 DEF WeeksExist, Active
  <2> QED
    BY <1>3, <2>2, <2>3
<1>4. ASSUME NEW t \in Tx, t \in Active, Fail(t)
      PROVE  WeeksExist'
  <2>1. UNCHANGED <<weeks, lines>> /\ OthersStay(t) /\ pc'[t] = "failed"
    BY <1>0, <1>4 DEF Fail, End, Goto, db, OthersStay, TypeOK
  <2> QED
    BY <1>1, <2>1 DEF WeeksExist, Active
<1>5. ASSUME NEW t \in Tx, Commits(t), weeks \subseteq weeks',
             \A l \in lines' : l.week \in weeks' \/ \E k \in lines : k.week = l.week
      PROVE  WeeksExist'
  <2>1. OthersStay(t) /\ pc'[t] = "committed"
    BY <1>0, <1>5, CommitsEnd DEF End, Goto, TypeOK
  <2>2. \A l \in lines' : l.week \in weeks'
    BY <1>5 DEF WeeksExist
  <2> QED
    BY <1>1, <1>5, <2>1, <2>2 DEF WeeksExist, Active
<1>6. ASSUME NEW t \in Tx, RebuildAndCommit(t), ~Fail(t)
      PROVE  WeeksExist'
  <2>1. /\ weeks' = weeks \cup (IF work[t].newWeek THEN {req[t].week} ELSE {})
        /\ lines' = VisibleLines(t) \cup NewLines(t) /\ pc[t] = "rebuild" /\ t \in Active
    BY <1>6 DEF RebuildAndCommit, At, Active
  <2>2. req[t].week \in weeks'
    BY <1>0, <2>1, EditOps DEF WeeksExist
  <2>3. \A l \in lines' : l.week \in weeks' \/ \E k \in lines : k.week = l.week
    BY <2>1, <2>2, NewLineRows DEF VisibleLines
  <2> QED
    BY <1>5, <1>6, <2>1, <2>3 DEF Commits
<1>7. ASSUME NEW t \in Tx, UpdateLine(t), ~Fail(t)
      PROVE  WeeksExist'
  <2> DEFINE edited(l) == [l EXCEPT !.marks = IF req[t].on THEN @ \cup {req[t].flag}
                                                         ELSE @ \ {req[t].flag}]
  <2>1. weeks' = weeks /\ lines' = (lines \ Editable(t)) \cup {edited(l) : l \in Editable(t)}
    BY <1>7 DEF UpdateLine
  <2>2. Editable(t) \subseteq lines /\ \A l \in lines : edited(l).week = l.week
    BY <1>0 DEF Editable, TypeOK, LineRow
  <2> HIDE DEF edited
  <2>3. \A l \in lines' : \E k \in lines : k.week = l.week
    BY <2>1, <2>2
  <2> QED
    BY <1>5, <1>7, <2>1, <2>3 DEF Commits
<1>8. ASSUME NEW t \in Tx, CreateManualLine(t)
      PROVE  WeeksExist'
  <2>1. weeks' = weeks /\ pc[t] = "addManual" /\ t \in Active
    BY <1>8 DEF CreateManualLine, At, Active
  <2>2. req[t].week \in weeks
    BY <1>0, <2>1, EditOps DEF WeeksExist
  <2>3. \A l \in lines' : l \in lines \/ l.week = req[t].week
    BY <1>8 DEF CreateManualLine
  <2>4. \A l \in lines' : l.week \in weeks' \/ \E k \in lines : k.week = l.week
    BY <2>1, <2>2, <2>3
  <2> QED
    BY <1>5, <1>8, <2>1, <2>4 DEF Commits
<1> QED
  BY <1>0, <1>2, <1>3, <1>4, <1>6, <1>7, <1>8, WeekStepShape DEF Ends

LEMMA AskType ==
  ASSUME ask \in [Tx -> RequestRow], NEW t \in Tx
  PROVE  /\ ask[t].op \in Edit => ask[t].week \in Week
         /\ ask[t].op = "setLine" => ask[t].line[1] \in {0} \cup Tx
<1>1. ask[t] \in RequestRow
  OBVIOUS
<1>2. ask[t].op \in Edit => ask[t].week \in Week
  BY <1>1 DEF RequestRow, Edit, NoRequest
<1>3. ask[t].op = "setLine" => ask[t].line \in LineId
  BY <1>1 DEF RequestRow, NoRequest
<1> QED
  BY <1>2, <1>3, BoundsAssumption DEF LineId, Tx

LEMMA CommittedStay ==
  ASSUME TypeOK, \A t \in Tx : Asked(t), WeekStep, NEW u \in Tx, pc[u] = "committed"
  PROVE  pc'[u] = "committed" /\ ask'[u] = ask[u]
BY AskStep

LEMMA ClockStays ==
  ASSUME TypeOK, Next
  PROVE  today' \in {today, today + 1} /\ weeks \subseteq weeks'
<1>1. CASE Midnight
  BY <1>1 DEF Midnight, db
<1>2. ASSUME NEW t \in Tx, Begins(t) \/ Goes(t) \/ Ends(t)
      PROVE  today' = today /\ weeks \subseteq weeks'
  BY <1>2 DEF Begins, Goes, Ends, db, Fail, RebuildAndCommit, UpdateLine, CreateManualLine
<1> QED
  BY <1>1, <1>2, WeekStepShape

(* An edit that commits is of a line and a week there are.                 *)
LEMMA EditCommits ==
  ASSUME RowsInvariant, WeeksExist, NEW t \in Tx, Asked(t), Commits(t), ask[t].op \in Edit
  PROVE  /\ ask[t] = req[t] /\ ask[t].week \in weeks
         /\ ask[t].op = "setLine" => UpdateLine(t) /\ ~Fail(t) /\ Durable(ask[t].line)
         /\ ask[t].op # "setLine" => CreateManualLine(t)
<1>0. TypeOK /\ RowIdentity /\ t \in Active
  BY CommitsEnd DEF RowsInvariant
<1>1. ask[t] = req[t] /\ req[t].op \in Edit
  BY <1>0 DEF Asked, NoRequest, Edit
<1>2. ~RebuildAndCommit(t)
  BY <1>0, <1>1, EditOps DEF RebuildAndCommit, At, Edit
<1>3. CASE req[t].op = "setLine"
  <2>1. UpdateLine(t) /\ ~Fail(t)
    BY <1>0, <1>2, <1>3, EditOps DEF Commits, CreateManualLine, At
  <2>2. Editable(t) # {}
    BY <2>1 DEF UpdateLine
  <2>3. PICK l \in lines : l.id = req[t].line /\ l.week = req[t].week
    BY <2>2 DEF Editable
  <2> QED
    BY <1>0, <1>1, <1>3, <2>1, <2>3 DEF RowIdentity, WeeksExist
<1>4. CASE req[t].op # "setLine"
  <2>1. CreateManualLine(t)
    BY <1>0, <1>2, <1>4, EditOps DEF Commits, UpdateLine, At
  <2>2. req[t].week \in weeks
    BY <1>0, <1>1, <1>4 DEF WeeksExist, Edit
  <2> QED
    BY <1>1, <1>4, <2>1, <2>2
<1> QED
  BY <1>3, <1>4

LEMMA AskedStay ==
  ASSUME RowsInvariant, TypeOK', WeeksExist, ask \in [Tx -> RequestRow],
         \A t \in Tx : Asked(t), WeekStep, NEW u \in Tx
  PROVE  Asked(u)'
<1>0. TypeOK /\ Asked(u) /\ Next
  BY DEF RowsInvariant, WeekStep
<1>1. /\ \A d \in Week : d <= d /\ (d <= today => d <= today')
      /\ weeks \subseteq weeks'
  BY <1>0, ClockStays, BoundsAssumption DEF TypeOK, Week
<1>2. CASE /\ pc[u] = "idle" /\ u \in Active' /\ req'[u].week = today /\ UNCHANGED <<db, today>>
           /\ ask'[u] = IF req'[u].op \in Edit THEN req'[u] ELSE NoRequest
  <2>1. today \in Week /\ NoRequest.op \notin Edit
    BY <1>0 DEF TypeOK, NoRequest, Edit
  <2> QED
    BY <1>1, <1>2, <2>1 DEF Asked, Active
<1>3. CASE /\ ask'[u] = ask[u] /\ (pc'[u] = "idle" => pc[u] = "idle")
           /\ u \in Active' => u \in Active /\ req'[u] = req[u]
           /\ pc[u] = "committed" => pc'[u] = "committed"
           /\ pc'[u] = "committed" => pc[u] = "committed" \/ Commits(u)
  <2>1. /\ pc'[u] = "idle" => ask'[u] = NoRequest
        /\ u \in Active' => ask'[u] = IF req'[u].op \in Edit THEN req'[u] ELSE NoRequest
    BY <1>0, <1>3 DEF Asked
  <2>2. ask'[u].op \in Edit => ask'[u].week <= today'
    BY <1>0, <1>1, <1>3, AskType DEF Asked
  <2>3. pc'[u] = "committed" /\ ask[u].op \in Edit => ask[u].week \in weeks
    BY <1>0, <1>3, EditCommits DEF Asked
  <2>4. pc'[u] = "committed" /\ ask[u].op = "setLine" => Durable(ask[u].line)
    BY <1>0, <1>3, EditCommits DEF Asked, Durable, Edit
  <2>5. pc'[u] = "committed" /\ ask[u].op = "setLine" =>
          ask[u].line[1] = 0 \/ pc'[ask[u].line[1]] = "committed"
    BY <1>0, <2>4, AskType, CommittedStay DEF Durable
  <2> QED
    BY <1>1, <1>3, <2>1, <2>2, <2>3, <2>5 DEF Asked
<1> QED
  BY <1>0, <1>2, <1>3, AskStep

(* What is recorded of a settled past week's lines stays as it is.         *)
LEMMA TracesStay ==
  ASSUME RowsInvariant, WeekInvariant, RowsInvariant', [Next]_vars,
         NEW w \in 0..(today - 1), Settled(w)
  PROVE  Traces(Ids(InWeek(lines, w)))' = Traces(Ids(InWeek(lines, w)))
<1> DEFINE ids == Ids(InWeek(lines, w))
<1>0. /\ TypeOK /\ SameWeek /\ LinesExplained /\ RowIdentity /\ RowIdentity'
      /\ \A t \in Active : req[t].week # w
  BY DEF RowsInvariant, Settled
<1>1. InWeek(occs', w) = InWeek(occs, w) /\ InWeek(lines', w) = InWeek(lines, w)
  BY <1>0, PastStays
<1>2. \A c \in contribs : c.line \in ids => \E o \in occs : o.id = c.occ /\ o.week = w
  BY <1>0 DEF LinesExplained, SameWeek, Ids, InWeek
<1>3. ASSUME NEW c \in contribs, c.line \in ids
      PROVE  {q \in occs' : q.id = c.occ} = {q \in occs : q.id = c.occ}
  <2>1. PICK o \in occs : o.id = c.occ /\ o.week = w
    BY <1>2, <1>3
  <2>2. o \in occs'
    BY <1>1, <2>1 DEF InWeek
  <2>3. \A q \in occs : q.id = c.occ => q = o
    BY <1>0, <2>1 DEF RowIdentity
  <2>4. \A q \in occs' : q.id = c.occ => q = o
    BY <1>0, <2>1, <2>2 DEF RowIdentity
  <2> QED
    BY <2>1, <2>2, <2>3, <2>4
<1>4. {d \in contribs' : d.line \in ids} = {d \in contribs : d.line \in ids}
  <2>1. CASE contribs' = contribs
    BY <2>1
  <2>2. ASSUME NEW t \in Tx, RebuildAndCommit(t), ~Fail(t)
        PROVE  {d \in contribs' : d.line \in ids} = {d \in contribs : d.line \in ids}
    <3>1. /\ contribs' = VisibleContribs(t) \cup NewContribs(t)
          /\ pc[t] = "rebuild" /\ t \in Active /\ Goto(t, "committed") /\ pc[t] # "committed"
      BY <2>2 DEF RebuildAndCommit, At, Active, End
    <3>2. \A c \in NewContribs(t) : c.line \notin ids
      <4>1. \A l \in lines : l.id[1] # t
        BY <3>1, RowsDurable
      <4> QED
        BY <4>1, NewLineRows DEF Ids, InWeek
    <3>3. \A c \in work[t].contribDel \cap contribs : c.line \notin ids
      <4>1. \A c \in work[t].contribDel \cap contribs : c.line \in work[t].lineDel
        BY <3>1 DEF RowsInvariant, Consistent, Cascades
      <4>2. \A l \in lines : l.id \in work[t].lineDel => l.week = req[t].week
        BY DEF WeekInvariant, OwnWeek
      <4>3. req[t].week # w
        BY <1>0, <3>1
      <4> QED
        BY <4>1, <4>2, <4>3 DEF Ids, InWeek
    <3> HIDE DEF ids
    <3> QED
      BY <3>1, <3>2, <3>3 DEF VisibleContribs
  <2>3. ASSUME NEW t \in Tx, (~Fail(t) /\ UpdateLine(t)) \/ CreateManualLine(t)
        PROVE  contribs' = contribs
    BY <2>3 DEF UpdateLine, CreateManualLine
  <2> QED
    BY <2>1, <2>2, <2>3, StepKinds DEF Private
<1>5. Ids(InWeek(lines, w))' = ids
  BY <1>1 DEF Ids, InWeek
<1> DEFINE joined(c, os) == {[line |-> c.line, occ |-> o.id, recipe |-> o.recipe] : o \in os}
<1>6. Traces(ids) = UNION {joined(c, {q \in occs : q.id = c.occ}) : c \in {d \in contribs : d.line \in ids}}
  BY DEF Traces
<1>7. Traces(Ids(InWeek(lines, w)))' =
        UNION {joined(c, {q \in occs' : q.id = c.occ}) : c \in {d \in contribs' : d.line \in ids}}
  BY <1>5 DEF Traces
<1> HIDE DEF ids, joined
<1>8. {joined(c, {q \in occs' : q.id = c.occ}) : c \in {d \in contribs : d.line \in ids}}
      = {joined(c, {q \in occs : q.id = c.occ}) : c \in {d \in contribs : d.line \in ids}}
  BY <1>3
<1> QED
  BY <1>4, <1>6, <1>7, <1>8 DEF ids

LEMMA SettledStay ==
  ASSUME TypeOK, \A t \in Tx : Asked(t), WeekStep, NEW w \in Week, w < today, Settled(w)
  PROVE  Settled(w)'
<1>1. ASSUME NEW u \in Tx, u \in Active'
      PROVE  req'[u].week # w
  <2>1. today # w
    BY DEF TypeOK, Week
  <2>2. (u \in Active /\ req'[u] = req[u]) \/ req'[u].week = today
    BY <1>1, AskStep
  <2> QED
    BY <2>1, <2>2 DEF Settled
<1> QED
  BY <1>1 DEF Settled, Active

LEMMA PastReadStay ==
  ASSUME RowsInvariant, WeekInvariant, RowsInvariant', \A t \in Tx : Asked(t), WeekStep,
         NEW p \in PageRow, PageOf(p), PastRead(p)
  PROVE  PastRead(p)'
<1> SUFFICES ASSUME p.kind = "history" /\ p.settled /\ p.at \in {"pool", "lines", "names", "ok"}
             PROVE  /\ p.week < p.day /\ Settled(p.week)'
                    /\ p.at # "pool" => p.pool = InWeek(occs, p.week)'
                    /\ p.at \in {"names", "ok"} => p.lines = InWeek(lines, p.week)'
                    /\ p.at = "ok" => p.names = Traces(Ids(p.lines))'
  BY DEF PastRead
<1> DEFINE w == p.week
<1>0. /\ TypeOK /\ [Next]_vars /\ p.week < p.day /\ Settled(w)
      /\ p.day <= today /\ today \in Week /\ p.week \in Week /\ p.day \in Week
  BY DEF RowsInvariant, TypeOK, WeekStep, PastRead, PageOf, PageRow
<1>1. w \in 0..(today - 1) /\ w < today
  BY <1>0, BoundsAssumption DEF Week
<1>2. Settled(w)'
  BY <1>0, <1>1, SettledStay
<1>3. InWeek(occs', w) = InWeek(occs, w) /\ InWeek(lines', w) = InWeek(lines, w)
  BY <1>0, <1>1, PastStays DEF Settled
<1>4. Traces(Ids(InWeek(lines, w)))' = Traces(Ids(InWeek(lines, w)))
  BY <1>0, <1>1, TracesStay
<1>5. p.at # "pool" => p.pool = InWeek(occs, p.week)'
  BY <1>3 DEF PastRead, InWeek
<1>6. p.at \in {"names", "ok"} => p.lines = InWeek(lines, p.week) /\ p.lines = InWeek(lines, p.week)'
  BY <1>3 DEF PastRead, InWeek
<1>7. p.at = "ok" => p.names = Traces(Ids(p.lines))'
  <2> SUFFICES ASSUME p.at = "ok" PROVE p.names = Traces(Ids(p.lines))'
    OBVIOUS
  <2>1. p.names = Traces(Ids(p.lines))
    BY DEF PastRead
  <2>2. p.lines = InWeek(lines, w) /\ p.lines = InWeek(lines, w)'
    BY <1>6
  <2> QED
    BY <1>4, <2>1, <2>2
<1> QED
  BY <1>0, <1>2, <1>5, <1>6, <1>7

(* An edit seen stays seen, and so does the other edit that hides it.      *)
LEMMA ShownStay ==
  ASSUME TypeOK, \A t \in Tx : Asked(t), WeekStep,
         NEW t \in Tx, pc[t] = "committed", NEW l, Shown(t, l)
  PROVE  Shown(t, l)'
<1>1. ask'[t] = ask[t]
  BY CommittedStay
<1>2. \A u \in Tx : pc[u] = "committed" => pc'[u] = "committed" /\ ask'[u] = ask[u]
  BY CommittedStay
<1> QED
  BY <1>1, <1>2 DEF Shown

(* The lines after a step, by those before it.                             *)
LEMMA LinesAfter ==
  ASSUME RowsInvariant, Next, NEW l \in lines'
  PROVE  \/ l \in lines
         \/ \E u \in Tx : pc[u] # "committed" /\ l.id[1] = u
         \/ \E u \in Tx : \E k \in lines :
              /\ UpdateLine(u) /\ ~Fail(u) /\ k.id = req[u].line /\ l.id = k.id
              /\ l.marks = IF req[u].on THEN k.marks \cup {req[u].flag}
                                        ELSE k.marks \ {req[u].flag}
<1>0. TypeOK
  BY DEF RowsInvariant
<1>1. CASE lines' = lines
  BY <1>1
<1>2. ASSUME NEW u \in Tx, RebuildAndCommit(u), ~Fail(u)
      PROVE  l \in lines \/ (pc[u] # "committed" /\ l.id[1] = u)
  <2>1. lines' = VisibleLines(u) \cup NewLines(u) /\ pc[u] # "committed"
    BY <1>2 DEF RebuildAndCommit, At
  <2> QED
    BY <2>1, NewLineRows DEF VisibleLines
<1>3. ASSUME NEW u \in Tx, CreateManualLine(u)
      PROVE  l \in lines \/ (pc[u] # "committed" /\ l.id[1] = u)
  BY <1>3 DEF CreateManualLine, At
<1>4. ASSUME NEW u \in Tx, UpdateLine(u), ~Fail(u)
      PROVE  \/ l \in lines
             \/ \E k \in lines :
                  /\ k.id = req[u].line /\ l.id = k.id
                  /\ l.marks = IF req[u].on THEN k.marks \cup {req[u].flag}
                                            ELSE k.marks \ {req[u].flag}
  <2> DEFINE edited(k) == [k EXCEPT !.marks = IF req[u].on THEN @ \cup {req[u].flag}
                                                         ELSE @ \ {req[u].flag}]
  <2>1. lines' = (lines \ Editable(u)) \cup {edited(k) : k \in Editable(u)}
    BY <1>4 DEF UpdateLine
  <2>2. \A k \in Editable(u) : /\ k \in lines /\ k.id = req[u].line /\ edited(k).id = k.id
                               /\ edited(k).marks = IF req[u].on THEN k.marks \cup {req[u].flag}
                                                                 ELSE k.marks \ {req[u].flag}
    BY <1>0 DEF Editable, TypeOK, LineRow
  <2> HIDE DEF edited
  <2>3. l \in lines \/ \E k \in Editable(u) : l = edited(k)
    BY <2>1
  <2>4. ASSUME NEW k \in Editable(u), l = edited(k)
        PROVE  /\ k \in lines /\ k.id = req[u].line /\ l.id = k.id
               /\ l.marks = IF req[u].on THEN k.marks \cup {req[u].flag}
                                         ELSE k.marks \ {req[u].flag}
    BY <2>2, <2>4
  <2> QED
    BY <2>3, <2>4
<1>5. lines' = lines \/ \E u \in Tx :
        \/ ~Fail(u) /\ RebuildAndCommit(u)
        \/ ~Fail(u) /\ UpdateLine(u)
        \/ CreateManualLine(u)
  BY StepKinds DEF Private
<1>6. CASE \E u \in Tx : ~Fail(u) /\ UpdateLine(u)
  <2>1. PICK u \in Tx : ~Fail(u) /\ UpdateLine(u)
    BY <1>6
  <2> QED
    BY <1>4, <2>1
<1>7. CASE \E u \in Tx : (~Fail(u) /\ RebuildAndCommit(u)) \/ CreateManualLine(u)
  BY <1>2, <1>3, <1>7
<1> QED
  BY <1>1, <1>5, <1>6, <1>7

LEMMA EditKeptStay ==
  ASSUME RowsInvariant, WeekInvariant, WeeksExist, ask \in [Tx -> RequestRow],
         \A t \in Tx : Asked(t), WeekStep,
         NEW t \in Tx, NEW p \in PageRow, PageOf(p), AnswersEdit(t, p), EditKept(t, p)
  PROVE  EditKept(t, p)'
<1> SUFFICES ASSUME pc'[t] = "committed", ask'[t].op = "setLine",
                    NEW l \in lines' \cup p.lines, l.id = ask'[t].line
             PROVE  Shown(t, l)'
  BY DEF EditKept
<1>0. TypeOK /\ Next
  BY DEF RowsInvariant, WeekStep
<1>1. CASE pc[t] = "committed"
  <2>1. ask'[t] = ask[t] /\ Asked(t)
    BY <1>0, <1>1, CommittedStay
  <2>2. \A k \in lines \cup p.lines : k.id = l.id => Shown(t, k)
    BY <1>1, <2>1 DEF EditKept
  <2>3. ASSUME l \in lines \cup p.lines
        PROVE  Shown(t, l)'
    BY <1>0, <1>1, <2>2, <2>3, ShownStay
  <2>4. l.id[1] = 0 \/ pc[l.id[1]] = "committed"
    BY <1>1, <2>1 DEF Asked
  <2>5. ASSUME NEW u \in Tx, pc[u] # "committed", l.id[1] = u
        PROVE  FALSE
    BY <2>4, <2>5, BoundsAssumption DEF Tx
  <2>6. ASSUME NEW u \in Tx, NEW k \in lines,
               UpdateLine(u), ~Fail(u), k.id = req[u].line, l.id = k.id,
               l.marks = IF req[u].on THEN k.marks \cup {req[u].flag}
                                      ELSE k.marks \ {req[u].flag}
        PROVE  Shown(t, l)'
    <3>1. Shown(t, k)'
      BY <1>0, <1>1, <2>2, <2>6, ShownStay
    <3>2. /\ pc[u] = "setLine" /\ req[u].op = "setLine" /\ u # t /\ Commits(u)
      BY <1>0, <1>1, <2>6, EditOps DEF UpdateLine, At, Commits
    <3>3. pc'[u] = "committed" /\ ask'[u] = req[u]
      <4>1. u \in Active /\ End(u, "committed")
        BY <1>0, <3>2, CommitsEnd
      <4>2. pc'[u] = "committed" /\ req'[u] = NoRequest
        BY <1>0, <4>1 DEF End, Goto, TypeOK
      <4>3. ask'[u] = ask[u]
        BY <4>2 DEF WeekStep, NoRequest, Edit
      <4> QED
        BY <3>2, <4>1, <4>2, <4>3 DEF Asked, Edit
    <3>4. CASE req[u].flag = ask'[t].flag
      BY <2>6, <3>2, <3>3, <3>4 DEF Shown
    <3>5. CASE req[u].flag # ask'[t].flag
      <4>1. ask'[t].flag \in l.marks <=> ask'[t].flag \in k.marks
        BY <2>6, <3>5
      <4> QED
        BY <2>6, <3>1, <4>1 DEF Shown
    <3> QED
      BY <3>4, <3>5
  <2> QED
    BY <1>0, <2>3, <2>5, <2>6, LinesAfter
<1>2. CASE pc[t] # "committed"
  <2>1. Commits(t) /\ ask'[t] = ask[t]
    BY <1>0, <1>2, AskStep DEF Active
  <2>2. ask[t] = req[t] /\ UpdateLine(t) /\ ~Fail(t)
    BY <2>1, EditCommits DEF Edit
  <2>3. p.lines = {}
    BY <1>2 DEF AnswersEdit, PageOf
  <2> DEFINE edited(k) == [k EXCEPT !.marks = IF req[t].on THEN @ \cup {req[t].flag}
                                                         ELSE @ \ {req[t].flag}]
  <2>4. /\ lines' = (lines \ Editable(t)) \cup {edited(k) : k \in Editable(t)}
        /\ Editable(t) # {}
    BY <2>2 DEF UpdateLine
  <2>5. \A k \in lines : k.id = req[t].line => k \in Editable(t)
    BY <2>4 DEF Editable, WeekInvariant
  <2>6. \A k \in Editable(t) : edited(k).marks = IF req[t].on THEN k.marks \cup {req[t].flag}
                                                              ELSE k.marks \ {req[t].flag}
    BY <1>0 DEF Editable, TypeOK, LineRow
  <2> HIDE DEF edited
  <2>7. \E k \in Editable(t) : l = edited(k)
    BY <2>1, <2>2, <2>3, <2>4, <2>5
  <2>8. req[t].on \in BOOLEAN
    <3>1. ask[t] \in RequestRow
      OBVIOUS
    <3> QED
      BY <2>1, <2>2, <3>1 DEF RequestRow, NoRequest
  <2>9. (req[t].flag \in l.marks) <=> req[t].on
    <3>1. CASE req[t].on
      BY <2>6, <2>7, <3>1
    <3>2. CASE ~req[t].on
      BY <2>6, <2>7, <3>2
    <3> QED
      BY <3>1, <3>2
  <2> QED
    BY <2>1, <2>2, <2>9 DEF Shown
<1> QED
  BY <1>1, <1>2

LEMMA LineOccsStay ==
  ASSUME RowsInvariant, [Next]_vars, NEW id, id[1] \in 0..MaxTx, Durable(id), id \in Ids(lines')
  PROVE  id \in Ids(lines) /\ LineOccs(id)' = LineOccs(id)
<1>1. ASSUME NEW u \in Tx, pc[u] # "committed"
      PROVE  id[1] # u
  BY <1>1, BoundsAssumption DEF Durable, Tx
<1>2. CASE UNCHANGED <<lines, contribs>>
  BY <1>2 DEF Ids, LineOccs
<1>3. ASSUME NEW t \in Tx, RebuildAndCommit(t), ~Fail(t)
      PROVE  id \in Ids(lines) /\ LineOccs(id)' = LineOccs(id)
  <2>1. /\ contribs' = VisibleContribs(t) \cup NewContribs(t)
        /\ lines' = VisibleLines(t) \cup NewLines(t)
        /\ pc[t] = "rebuild" /\ id[1] # t
    BY <1>1, <1>3 DEF RebuildAndCommit, At
  <2>2. id \in Ids(VisibleLines(t))
    BY <2>1, NewLineRows DEF Ids
  <2>3. id \in Ids(lines) /\ id \notin work[t].lineDel
    BY <2>2 DEF Ids, VisibleLines
  <2>4. \A c \in work[t].contribDel \cap contribs : c.line # id
    BY <2>1, <2>3 DEF RowsInvariant, Consistent, Cascades
  <2>5. \A c \in NewContribs(t) : c.line # id
    BY <2>1, NewLineRows
  <2>6. {d \in contribs' : d.line = id} = {d \in contribs : d.line = id}
    BY <2>1, <2>4, <2>5 DEF VisibleContribs
  <2> QED
    BY <2>3, <2>6 DEF LineOccs
<1>4. ASSUME NEW t \in Tx, (~Fail(t) /\ UpdateLine(t)) \/ CreateManualLine(t)
      PROVE  id \in Ids(lines) /\ LineOccs(id)' = LineOccs(id)
  <2>1. contribs' = contribs /\ Next
    BY <1>4 DEF UpdateLine, CreateManualLine, Next, Statement
  <2>2. id \in Ids(lines)
    <3>1. PICK l \in lines' : l.id = id
      BY DEF Ids
    <3> QED
      BY <1>1, <2>1, <3>1, LinesAfter DEF Ids
  <2> QED
    BY <2>1, <2>2 DEF LineOccs
<1> QED
  BY <1>2, <1>3, <1>4, StepKinds DEF Private

LEMMA TracesKeptStay ==
  ASSUME RowsInvariant, [Next]_vars, \A t \in Tx : pc[t] = "committed" => pc'[t] = "committed",
         NEW p \in PageRow, TracesKept(p)
  PROVE  TracesKept(p)'
<1>1. ASSUME NEW l \in p.lines
      PROVE  /\ l.id[1] = 0 \/ pc'[l.id[1]] = "committed"
             /\ l.id \in Ids(lines') => LineOccs(l.id)' = OccsOf(p.traced, l.id)
  <2>1. l.id[1] \in 0..MaxTx
    BY DEF PageRow, LineRow, LineId
  <2>2. Durable(l.id)
    BY DEF TracesKept, Durable
  <2>3. l.id[1] = 0 \/ pc'[l.id[1]] = "committed"
    BY <2>1, <2>2, BoundsAssumption DEF Durable, Tx
  <2>4. l.id \in Ids(lines') => l.id \in Ids(lines) /\ LineOccs(l.id)' = LineOccs(l.id)
    BY <2>1, <2>2, LineOccsStay
  <2> QED
    BY <2>3, <2>4 DEF TracesKept
<1>2. Ids(lines)' = Ids(lines')
  BY DEF Ids
<1> QED
  BY <1>1, <1>2 DEF TracesKept, OccsOf

LEMMA WeekStepInvariant ==
  ASSUME RowsInvariant, WeekInvariant, RowsInvariant', ReadInvariant, WeekStep
  PROVE  ReadInvariant'
<1>0. /\ TypeOK /\ TypeOK' /\ Next /\ page' = page
      /\ ask \in [Tx -> RequestRow] /\ page \in [Reader -> PageRow]
      /\ WeeksExist /\ \A t \in Tx : Asked(t)
  BY DEF RowsInvariant, ReadInvariant, WeekStep
<1>1. ask' \in [Tx -> RequestRow]
  <2>1. \A t \in Tx : req'[t] \in RequestRow
    BY <1>0 DEF TypeOK
  <2> QED
    BY <1>0, <2>1 DEF WeekStep
<1>2. WeeksExist' /\ \A t \in Tx : Asked(t)'
  BY <1>0, WeeksExistStay, AskedStay
<1>3. ASSUME NEW r \in Reader
      PROVE  PageFor(r, page[r])'
  <2> DEFINE p == page[r]
  <2>1. /\ p \in PageRow /\ PageOf(p) /\ PastRead(p) /\ TracesKept(p)
        /\ r \in Tx => AnswersEdit(r, p) /\ EditKept(r, p)
    BY <1>0 DEF ReadInvariant, PageFor
  <2>2. p' = p
    BY <1>0
  <2> HIDE DEF p
  <2>3. PastRead(p)'
    <3>1. ASSUME NEW q, q = p
          PROVE  PastRead(q)'
      BY <1>0, <2>1, <3>1, PastReadStay
    <3> QED
      BY <2>2, <3>1 DEF PastRead
  <2>4. PageOf(p)'
    <3>1. p.day <= today => p.day <= today'
      BY <1>0, <2>1, ClockStays, BoundsAssumption DEF TypeOK, Week, PageRow
    <3> QED
      BY <2>1, <2>2, <3>1 DEF PageOf
  <2>5. ASSUME r \in Tx
        PROVE  AnswersEdit(r, p)' /\ EditKept(r, p)'
    <3>1. ASSUME NEW q, q = p
          PROVE  EditKept(r, q)'
      BY <1>0, <2>1, <2>5, <3>1, EditKeptStay
    <3>2. EditKept(r, p)'
      BY <2>2, <3>1 DEF EditKept
    <3>3. AnswersEdit(r, p)'
      BY <1>0, <2>1, <2>2, <2>5, CommittedStay DEF AnswersEdit
    <3> QED
      BY <3>2, <3>3
  <2>6. TracesKept(p)'
    <3>1. ASSUME NEW q, q = p
          PROVE  TracesKept(q)'
      BY <1>0, <2>1, <3>1, TracesKeptStay, CommittedStay
    <3> QED
      BY <2>2, <3>1 DEF TracesKept
  <2>7. p' \in PageRow
    BY <2>1, <2>2
  <2> QED
    BY <2>3, <2>4, <2>5, <2>6, <2>7 DEF PageFor, p
<1> HIDE DEF PageFor
<1> QED
  BY <1>0, <1>1, <1>2, <1>3 DEF ReadInvariant

-----------------------------------------------------------------------------
(* Theorems.                                                               *)

LEMMA InitReads == ReadInit => ReadInvariant
<1> SUFFICES ASSUME ReadInit
             PROVE  ReadInvariant
  OBVIOUS
<1>0. /\ Init /\ \A t \in Tx : ask[t] = NoRequest /\ pc[t] = "idle" /\ req[t] = NoRequest
      /\ \A r \in Reader : page[r] = NoPage
      /\ 0 \in Week /\ today = 0
  BY BoundsAssumption DEF ReadInit, Init, Week
<1>1. ask \in [Tx -> RequestRow]
  BY DEF ReadInit, RequestRow
<1>2. NoPage \in PageRow
  BY <1>0 DEF NoPage, PageRow
<1>3. page \in [Reader -> PageRow]
  BY <1>2 DEF ReadInit
<1>4. WeeksExist
  <2> PICK k \in Pools : /\ weeks = IF DOMAIN k = {} THEN {} ELSE {0}
                         /\ occs = OccRows(0, 0, k)
    BY DEF ReadInit, Init
  <2>0. lines = LineRows(0, 0, occs, {})
    BY DEF ReadInit, Init
  <2>1. \A l \in lines : l.week = 0 /\ occs # {}
    BY <2>0 DEF LineRows, Requirements
  <2>2. occs # {} => 0 \in weeks
    BY DEF OccRows
  <2> QED
    BY <1>0, <2>1, <2>2 DEF WeeksExist, Active
<1>5. \A t \in Tx : Asked(t)
  BY <1>0 DEF Asked, Active, NoRequest, Edit
<1>6. \A r \in Reader : PageFor(r, page[r])
  <2>1. PageOf(NoPage) /\ PastRead(NoPage) /\ TracesKept(NoPage)
    BY <1>0 DEF PageOf, PastRead, TracesKept, NoPage
  <2>2. \A t \in Tx : AnswersEdit(t, NoPage) /\ EditKept(t, NoPage)
    BY <1>0 DEF AnswersEdit, EditKept, NoPage
  <2> QED
    BY <1>0, <1>2, <2>1, <2>2 DEF PageFor
<1> QED
  BY <1>1, <1>3, <1>4, <1>5, <1>6 DEF ReadInvariant

LEMMA NextReads ==
  RowsInvariant /\ WeekInvariant /\ RowsInvariant' /\ ReadInvariant /\ [ReadNext]_readVars
    => ReadInvariant'
<1> SUFFICES ASSUME RowsInvariant, WeekInvariant, RowsInvariant', ReadInvariant,
                    [ReadNext]_readVars
             PROVE  ReadInvariant'
  OBVIOUS
<1>1. CASE WeekStep
  BY <1>1, WeekStepInvariant
<1>2. ASSUME NEW r \in Reader, ReadStep(r)
      PROVE  ReadInvariant'
  BY <1>2, Opened, Queried DEF ReadStep
<1>3. CASE UNCHANGED readVars
  <2>1. UNCHANGED <<vars, ask>> /\ page' = page
    BY <1>3 DEF readVars, vars
  <2>2. \A s, p : PageFor(s, p)' <=> PageFor(s, p)
    BY <2>1 DEF PageFor, PageOf, PastRead, TracesKept, LineOccs, OccsOf, AnswersEdit, EditKept,
         Shown, Settled, Active, Traces, InWeek, Ids, vars
  <2>3. WeeksExist' /\ \A t \in Tx : Asked(t)'
    BY <2>1 DEF ReadInvariant, WeeksExist, Asked, Active, vars
  <2> HIDE DEF PageFor
  <2> QED
    BY <2>1, <2>2, <2>3 DEF ReadInvariant
<1> QED
  BY <1>1, <1>2, <1>3 DEF ReadNext

LEMMA ReadsHold == ReadSpec => [](RowsInvariant /\ ReadInvariant)
<1>1. ReadInit => ReadInvariant
  BY InitReads
<1>2. ReadSpec => [](RowsInvariant /\ WeekInvariant)
  BY ReadsAreStutters, InvariantsHold, PTL
<1> QED
  BY <1>1, <1>2, NextReads, PTL DEF ReadSpec

(* A list is of the week its handler asked for and carries that week's     *)
(* date, except when the clock passed a Sunday while it was read; an edit  *)
(* that was made is answered "no current week" only in that case.          *)
THEOREM LabelsMatch == ReadSpec => []LabelMatches
<1>1. RowsInvariant /\ ReadInvariant => LabelMatches
  <2> SUFFICES ASSUME RowsInvariant, ReadInvariant, NEW r \in Reader
               PROVE  LET p == page[r]
                      IN  /\ p.kind = "groceries" /\ p.at = "ok" =>
                               p.week = p.day /\ (p.label = p.week \/ p.label > p.day)
                          /\ r \in Tx /\ p.at = "noWeek" => p.day > ask[r].week
    BY DEF LabelMatches
  <2> DEFINE p == page[r]
  <2>1. /\ p \in PageRow /\ PageOf(p) /\ (r \in Tx => AnswersEdit(r, p))
        /\ p.day \in Week /\ p.week \in Week /\ p.label \in Week
    BY DEF ReadInvariant, PageFor, PageRow
  <2> HIDE DEF p
  <2>2. p.kind = "groceries" /\ p.at = "ok" =>
          p.week = p.day /\ (p.label = p.week \/ p.label > p.day)
    BY <2>1, BoundsAssumption DEF PageOf, Week
  <2>3. r \in Tx /\ p.at = "noWeek" => p.day > ask[r].week
    BY <2>1, AskType, BoundsAssumption DEF AnswersEdit, ReadInvariant, Week
  <2> QED
    BY <2>2, <2>3 DEF p
<1> QED
  BY <1>1, ReadsHold, PTL

(* The page of a past week that no request was still changing when it was  *)
(* found is the week's one last state, though three more queries read it.  *)
THEOREM HistoryPagesAreOneState == ReadSpec => []HistoryIsOneState
<1>1. ReadInvariant => HistoryIsOneState
  BY DEF ReadInvariant, PageFor, PastRead, HistoryIsOneState
<1> QED
  BY <1>1, ReadsHold, PTL

(* The list that answers an edit shows the edit, unless another edit of    *)
(* the line was made, whatever recompute and the clock do in between.      *)
THEOREM EditsAreShown == ReadSpec => []EditShown
<1>1. ReadInvariant => EditShown
  BY DEF ReadInvariant, PageFor, AnswersEdit, EditKept, Shown, EditShown, Reader
<1> QED
  BY <1>1, ReadsHold, PTL

(* The names and the contributions shown for a line are those of all the   *)
(* occurrences the line was added up from, or the line is gone and there   *)
(* are none: never a part of them, never those of another line.            *)
THEOREM TracesAreWhole == ReadSpec => []WholeTraces
<1>1. ReadInvariant => WholeTraces
  BY DEF ReadInvariant, PageFor, TracesKept, WholeTraces
<1> QED
  BY <1>1, ReadsHold, PTL
=============================================================================
