----------------------------- MODULE ListReads ------------------------------
(***************************************************************************)
(* What the HTTP handlers answer while the week service works.  A read     *)
(* handler issues its queries one by one outside any transaction, so every *)
(* query sees what is committed when it runs; the page it answers is put   *)
(* together from several moments.  A checklist edit runs its transaction   *)
(* and then answers the whole list, read with a new look at the clock, and *)
(* labelled with one more.                                                 *)
(***************************************************************************)
EXTENDS WeekTx

CONSTANT Pages      (* read requests that may be open at one time          *)

ASSUME PagesAssumption == Pages \cap Tx = {}

VARIABLES
  ask,      (* the checklist edit each transaction serves or served        *)
  page      (* each handler's progress and what it has read                *)

Reader == Tx \cup Pages
readVars == <<today, weeks, occs, lines, contribs, pc, req, seen, work, ask, page>>

(* day is the Sunday the handler computed, label the one it writes on the  *)
(* answer.  settled and traced are not read by the program: whether no     *)
(* request was changing the week when GetPastWeek found it, and the        *)
(* contributions at the moment the lines were read.                        *)
NoPage == [at |-> "idle", kind |-> "none", day |-> 0, week |-> 0, line |-> None,
           pool |-> {}, lines |-> {}, names |-> {}, rows |-> {}, label |-> 0,
           settled |-> FALSE, traced |-> {}]
Answered == {"ok", "noWeek", "notFound", "unknownLine"}

ReadInit ==
  /\ Init
  /\ ask = [t \in Tx |-> NoRequest]
  /\ page = [r \in Reader |-> NoPage]

Edit == {"setLine", "addManual"}

WeekStep ==
  /\ Next
  /\ ask' = [t \in Tx |-> IF req'[t].op \in Edit THEN req'[t] ELSE ask[t]]
  /\ UNCHANGED page

-----------------------------------------------------------------------------
(* Requests.                                                               *)

Open(r, p) ==
  /\ page' = [page EXCEPT ![r] = [p EXCEPT !.day = today]]
  /\ UNCHANGED <<vars, ask>>

Free(r) == r \in Pages /\ page[r].at \in {"idle"} \cup Answered

CurrentWeek(r) == Free(r) /\ Open(r, [NoPage EXCEPT !.at = "week", !.kind = "week"])

GetGroceries(r) == Free(r) /\ Open(r, [NoPage EXCEPT !.at = "week", !.kind = "groceries"])

GetGroceryContributions(r) ==
  /\ Free(r)
  /\ \E l \in lines :
       Open(r, [NoPage EXCEPT !.at = "week", !.kind = "contributions", !.line = l.id])

HistoricalWeek(r) ==
  /\ Free(r)
  /\ \E w \in weeks : Open(r, [NoPage EXCEPT !.at = "pastWeek", !.kind = "history", !.week = w])

(* Fault: the list is read before the edit's transaction.                  *)
WriteGroceriesEarly(r) ==
  /\ r \in Tx /\ page[r].at = "idle" /\ req[r].op \in Edit
  /\ Open(r, [NoPage EXCEPT !.at = "week", !.kind = "groceries"])

(* addGroceryLine, updateGroceryLine and removeGroceryLine go on with      *)
(* writeGroceries when the service reports no error.                       *)
WriteGroceries(r) ==
  /\ r \in Tx /\ page[r].at = "idle"
  /\ pc[r] = "committed" /\ ask[r].op \in Edit
  /\ Open(r, [NoPage EXCEPT !.at = "week", !.kind = "groceries"])

-----------------------------------------------------------------------------
(* Queries.                                                                *)

Read(r, label, p) ==
  /\ page[r].at = label
  /\ page' = [page EXCEPT ![r] = p]
  /\ UNCHANGED <<vars, ask>>

(* Fault: the latest week is taken for the current one.                    *)
LatestWeekByStart(r) ==
  LET p == page[r]
  IN  IF weeks = {}
      THEN Read(r, "week", [p EXCEPT !.at = "noWeek"])
      ELSE \E w \in weeks :
             /\ \A v \in weeks : v <= w
             /\ Read(r, "week", [p EXCEPT !.week = w,
                                          !.at = IF p.kind = "week" THEN "pool" ELSE "lines"])

(* GetWeekByStart, and GetShoppingListByWeek: the list is there when the   *)
(* week is.                                                                *)
GetWeekByStart(r) ==
  LET p == page[r]
  IN  IF p.day \notin weeks
      THEN Read(r, "week", [p EXCEPT !.at = "noWeek"])
      ELSE Read(r, "week", [p EXCEPT !.week = p.day,
                                     !.at = IF p.kind = "week" THEN "pool" ELSE "lines"])

(* No request is changing the week.                                        *)
Settled(w) == \A t \in Active : req[t].week # w

(* Fault: starts_on <= the current Sunday.                                 *)
GetPastOrCurrentWeek(r) ==
  LET p == page[r]
  IN  Read(r, "pastWeek",
        IF p.week \in weeks /\ p.week <= p.day
        THEN [p EXCEPT !.at = "pool", !.settled = Settled(p.week)]
        ELSE [p EXCEPT !.at = "notFound"])

GetPastWeek(r) ==
  LET p == page[r]
  IN  Read(r, "pastWeek",
        IF p.week \in weeks /\ p.week < p.day
        THEN [p EXCEPT !.at = "pool", !.settled = Settled(p.week)]
        ELSE [p EXCEPT !.at = "notFound"])

ListWeekRecipes(r) ==
  LET p == page[r]
  IN  Read(r, "pool", [p EXCEPT !.pool = InWeek(occs, p.week),
                                !.at = IF p.kind = "history" THEN "lines" ELSE "ok"])

(* The contributions of lines, each with the recipe of its occurrence.     *)
Traces(ids) ==
  UNION {{[line |-> c.line, occ |-> o.id, recipe |-> o.recipe] :
            o \in {q \in occs : q.id = c.occ}} : c \in {d \in contribs : d.line \in ids}}

ListShoppingLines(r) ==
  LET p == page[r]
      now == InWeek(lines, p.week)
  IN  Read(r, "lines", [p EXCEPT !.lines = now, !.traced = Traces(Ids(now)), !.at = "names"])

(* Fault: the names are put to the lines by aggregation key, not by id.    *)
NamesByKey(r) ==
  LET p       == page[r]
      byKey(l) == {[c EXCEPT !.line = l.id] :
                     c \in Traces({m.id : m \in {n \in lines : n.week = p.week /\ n.key = l.key}})}
  IN  Read(r, "names", [p EXCEPT !.names = UNION {byKey(l) : l \in p.lines},
                                 !.at = IF p.kind = "groceries" THEN "label" ELSE "ok"])

(* By list, not by the lines read before.                                  *)
ListShoppingLineRecipeNames(r) ==
  LET p == page[r]
  IN  Read(r, "names",
        [p EXCEPT !.names = Traces(Ids(InWeek(lines, p.week))),
                  !.at = CASE p.kind = "history" -> "ok"
                           [] p.kind = "groceries" -> "label"
                           [] p.kind = "contributions" /\ p.line \in Ids(p.lines) -> "rows"
                           [] OTHER -> "unknownLine"])

ListShoppingLineContributions(r) ==
  LET p == page[r]
  IN  Read(r, "rows", [p EXCEPT !.rows = Traces({p.line}), !.at = "ok"])

(* The Sunday groceryResponseFromChecklist is given.                       *)
LabelGroceries(r) == Read(r, "label", [page[r] EXCEPT !.label = today, !.at = "ok"])

ReadStep(r) ==
  \/ CurrentWeek(r) \/ GetGroceries(r) \/ GetGroceryContributions(r) \/ HistoricalWeek(r)
  \/ WriteGroceries(r)
  \/ GetWeekByStart(r) \/ GetPastWeek(r) \/ ListWeekRecipes(r) \/ ListShoppingLines(r)
  \/ ListShoppingLineRecipeNames(r) \/ ListShoppingLineContributions(r) \/ LabelGroceries(r)

ReadNext == WeekStep \/ \E r \in Reader : ReadStep(r)
ReadSpec == ReadInit /\ [][ReadNext]_readVars

-----------------------------------------------------------------------------
(* Properties.                                                             *)

OccsOf(traces, id) == {c.occ : c \in {d \in traces : d.line = id}}

(* The names and the contributions shown for a line are those of all the   *)
(* occurrences the line was added up from, or the line was replaced before *)
(* they were read and there are none: never a part, never of another line. *)
WholeTraces ==
  \A r \in Reader : \A l \in page[r].lines :
    /\ page[r].at \in {"label", "rows", "ok"} =>
         OccsOf(page[r].names, l.id) \in {{}, OccsOf(page[r].traced, l.id)}
    /\ page[r].at = "ok" /\ page[r].line = l.id =>
         OccsOf(page[r].rows, l.id) \in {{}, OccsOf(page[r].traced, l.id)}

(* The page of a past week that no request was still changing when it was  *)
(* found is the week's one last state, though three more queries read it.  *)
HistoryIsOneState ==
  \A r \in Reader :
    LET p == page[r]
    IN  p.kind = "history" /\ p.at = "ok" /\ p.settled =>
          /\ p.pool = InWeek(occs, p.week)
          /\ p.lines = InWeek(lines, p.week)
          /\ p.names = Traces(Ids(p.lines))

(* The list that answers an edit shows it: the line, if it is still there, *)
(* has the state asked for, unless another edit of it was made.            *)
EditShown ==
  \A t \in Tx : page[t].at = "ok" /\ ask[t].op = "setLine" =>
    \A l \in page[t].lines : l.id = ask[t].line =>
      \/ (ask[t].flag \in l.marks) <=> ask[t].on
      \/ \E u \in Tx \ {t} : /\ pc[u] = "committed" /\ ask[u].op = "setLine"
                             /\ ask[u].line = l.id /\ ask[u].flag = ask[t].flag

(* A list is of the week its handler asked for and carries that week's     *)
(* date, except when the clock passed a Sunday while it was read; and an   *)
(* edit that was made is answered "no current week" only in that case.     *)
LabelMatches ==
  \A r \in Reader :
    LET p == page[r]
    IN  /\ p.kind = "groceries" /\ p.at = "ok" =>
             p.week = p.day /\ (p.label = p.week \/ p.label > p.day)
        /\ r \in Tx /\ p.at = "noWeek" => p.day > ask[r].week

-----------------------------------------------------------------------------
(* What makes the properties inductive.                                    *)

Trace == [line : LineId, occ : OccId, recipe : Recipe]
PageRow ==
  [at : {"idle", "week", "pastWeek", "pool", "lines", "names", "rows", "label"} \cup Answered,
   kind : {"none", "week", "groceries", "contributions", "history"},
   day : Week, week : Week, line : LineId \cup {None},
   pool : SUBSET OccRow, lines : SUBSET LineRow, names : SUBSET Trace, rows : SUBSET Trace,
   label : Week, settled : BOOLEAN, traced : SUBSET Trace]

(* A line is of a week there is, and so is a request that is not for one   *)
(* line, or its transaction creates the week.                              *)
WeeksExist ==
  /\ \A l \in lines : l.week \in weeks
  /\ \A t \in Active :
       \/ req[t].week \in weeks \/ req[t].op = "setLine"
       \/ req[t].op = "generate" /\ (work[t].newWeek \/ pc[t] \in {"getWeek", "createWeek"})

(* ask is the edit a transaction serves or served.                         *)
Asked(t) ==
  /\ pc[t] = "idle" => ask[t] = NoRequest
  /\ t \in Active => ask[t] = IF req[t].op \in Edit THEN req[t] ELSE NoRequest
  /\ ask[t].op \in Edit => ask[t].week <= today
  /\ pc[t] = "committed" /\ ask[t].op \in Edit => ask[t].week \in weeks
  /\ pc[t] = "committed" /\ ask[t].op = "setLine" =>
       ask[t].line[1] = 0 \/ pc[ask[t].line[1]] = "committed"

(* A page goes through the queries of its kind, on one day.                *)
PageOf(p) ==
  /\ p.at = "idle" => p.lines = {}
  /\ p.at = "week" => p.kind # "history"
  /\ p.at = "pastWeek" => p.kind = "history"
  /\ p.at = "pool" => p.kind \in {"week", "history"}
  /\ p.at = "rows" => p.kind \notin {"groceries", "history"}
  /\ p.at = "label" => p.kind = "groceries"
  /\ p.day <= today
  /\ p.kind = "groceries" /\ p.at \in {"lines", "names", "label", "ok"} => p.week = p.day
  /\ p.kind = "groceries" /\ p.at = "ok" => p.day <= p.label

(* An edit is answered after its COMMIT, on its day or a later one.        *)
AnswersEdit(t, p) ==
  p.at # "idle" => /\ pc[t] = "committed" /\ ask[t].op \in Edit
                   /\ ask[t].week <= p.day
                   /\ p.at = "noWeek" => ask[t].week # p.day

(* The line t edited is as t left it, or another edit of it was made.      *)
Shown(t, l) ==
  \/ (ask[t].flag \in l.marks) <=> ask[t].on
  \/ \E u \in Tx \ {t} : /\ pc[u] = "committed" /\ ask[u].op = "setLine"
                         /\ ask[u].line = l.id /\ ask[u].flag = ask[t].flag
EditKept(t, p) ==
  pc[t] = "committed" /\ ask[t].op = "setLine" =>
    \A l \in lines \cup p.lines : l.id = ask[t].line => Shown(t, l)

(* What the page of a settled week has read is what there is.              *)
PastRead(p) ==
  p.kind = "history" /\ p.settled /\ p.at \in {"pool", "lines", "names", "ok"} =>
    /\ p.week < p.day /\ Settled(p.week)
    /\ p.at # "pool" => p.pool = InWeek(occs, p.week)
    /\ p.at \in {"names", "ok"} => p.lines = InWeek(lines, p.week)
    /\ p.at = "ok" => p.names = Traces(Ids(p.lines))

(* A line that is still there has the contributions it had when the page   *)
(* read it, and one that is gone does not come back.                       *)
LineOccs(id) == {c.occ : c \in {d \in contribs : d.line = id}}
TracesKept(p) ==
  /\ p.at \in {"idle", "week", "pastWeek", "pool", "lines"} => p.names = {} /\ p.rows = {}
  /\ \A l \in p.lines :
       /\ l.id[1] = 0 \/ pc[l.id[1]] = "committed"
       /\ l.id \in Ids(lines) => LineOccs(l.id) = OccsOf(p.traced, l.id)
       /\ OccsOf(p.names, l.id) \in {{}, OccsOf(p.traced, l.id)}
       /\ OccsOf(p.rows, l.id) \in {{}, OccsOf(p.traced, l.id)}

PageFor(r, p) ==
  /\ p \in PageRow /\ PageOf(p) /\ PastRead(p) /\ TracesKept(p)
  /\ r \in Tx => AnswersEdit(r, p) /\ EditKept(r, p)

ReadInvariant ==
  /\ ask \in [Tx -> RequestRow] /\ page \in [Reader -> PageRow]
  /\ WeeksExist
  /\ \A t \in Tx : Asked(t)
  /\ \A r \in Reader : PageFor(r, page[r])
=============================================================================
