----------------------------- MODULE WebClient -----------------------------
(***************************************************************************)
(* The single page of web/index.html as the asynchronous program it is.    *)
(*                                                                         *)
(* Every handler runs from one await to the next without interruption; in  *)
(* between, the user clicks what is not disabled and responses arrive in   *)
(* any order.  A task is a handler at its await: the requests the server   *)
(* has not answered yet (due) and the answers that have not been delivered *)
(* or not all arrived (got).  Of a view the module keeps which league and  *)
(* which state of it the view was computed from.                           *)
(*                                                                         *)
(* Left out: texts and the error line, the team catalog and its tab, and   *)
(* what a user types.  One match stands for the matches of a league and is *)
(* named by the league.  Rendering (Vue) is external: a button that the    *)
(* template disables or does not render is not clicked.                    *)
(*                                                                         *)
(* A definition marked Variant is its successor with a plausible mistake;  *)
(* no specification uses it.                                               *)
(***************************************************************************)
EXTENDS Integers, FiniteSets, FiniteSetsExt

CONSTANTS
  League,       \* the league ids; a newer league has a greater id
  TotalWeeks,
  PredictFrom,  \* the week predictions start at; 4 in the code
  MaxClicks,    \* bound: clicks of the user that send a request
  MaxFailures,  \* bound: requests that fail
  Unborn, Deleted, Nothing, Failed, TooEarly

ASSUME WebAssumption ==
  /\ League \subseteq Nat /\ IsFiniteSet(League)
  /\ PredictFrom \in Nat /\ TotalWeeks \in Nat \ {0}
  /\ MaxClicks \in Nat /\ MaxFailures \in Nat

VARIABLES
  server,      \* per league: unborn, deleted, or its week and its changes
  leagues, selectedId, league, page, audits, tab, edit, expandedAudit, busy,
  tasks,
  clicks, failures,
  failed,      \* history: a request failed since the last selection in quiet
  overlapped   \* history: two handlers overlapped since then

pageVars == <<leagues, selectedId, league, page, audits, tab, edit, expandedAudit>>
history  == <<failed, overlapped>>
vars     == <<server, pageVars, busy, tasks, clicks, failures, history>>

Exclusive == {"bootstrap", "create", "playWeek", "playAll", "reset", "delete", "edit"}
Mutations == {"playWeek", "playAll", "reset"}
Views     == {"standings", "week", "fixtures", "history", "prediction"}

State   == [week : 0..TotalWeeks, at : Nat, edits : Nat]
Showing == [of : League, at : Nat, edits : Nat, week : 0..TotalWeeks]

\* What stands for no league and for no view is none.
ASSUME AbsentAssumption ==
  /\ Unborn \notin State /\ Deleted \notin State
  /\ Nothing \notin Showing

Exists(l)  == server[l] \notin {Unborn, Deleted}
Finished(lg) == lg.week = TotalWeeks

(***************************************************************************)
(* The server answers each request at one moment.                          *)
(***************************************************************************)
\* The league after a write, or Failed where the service refuses it.
Written(op, s) ==
  CASE op = "playWeek" -> IF Finished(s) THEN Failed
                          ELSE [s EXCEPT !.week = @ + 1, !.at = @ + 1]
    [] op = "playAll"  -> IF Finished(s) THEN Failed
                          ELSE [s EXCEPT !.week = TotalWeeks, !.at = @ + 1]
    [] op = "reset"    -> [s EXCEPT !.week = 0, !.at = @ + 1]
    [] op = "edit"     -> IF s.week = 0 THEN Failed
                          ELSE [s EXCEPT !.at = @ + 1, !.edits = @ + 1]
    [] op = "delete"   -> Deleted

Newborn == {l \in League : /\ server[l] = Unborn
                           /\ \A k \in League : k < l => server[k] # Unborn}

Shown(l, s, week) == [of |-> l, at |-> s.at, edits |-> s.edits, week |-> week]

\* The answer to a read: of the list, which leagues there are; of a league,
\* what it is now; of a week's detail, that of the week asked for.
Read(t, q) ==
  IF q = "list" THEN {l \in League : Exists(l)}
  ELSE IF ~Exists(t.lg) THEN Failed
  ELSE LET s == server[t.lg] IN
       IF q = "prediction" /\ s.week < PredictFrom THEN TooEarly
       ELSE Shown(t.lg, s, IF q = "week" THEN t.week ELSE s.week)

Replied(t, q, r) ==
  /\ LET got == [p \in DOMAIN t.got \cup {q} |-> IF p = q THEN r ELSE t.got[p]]
     IN tasks' = (tasks \ {t}) \cup {[t EXCEPT !.due = @ \ {q}, !.got = got]}
  /\ failed' = (failed \/ r = Failed)
  /\ UNCHANGED overlapped

ServeRead(t, q) ==
  /\ q # "write"
  /\ Replied(t, q, Read(t, q))
  /\ UNCHANGED <<server, pageVars, busy, clicks, failures>>

Create(t) ==
  \E l \in Newborn :
    /\ server' = [server EXCEPT ![l] = [week |-> 0, at |-> 0, edits |-> 0]]
    /\ Replied(t, "write", l)

ServeWrite(t) ==
  /\ IF t.op = "create" THEN Create(t)
     ELSE IF ~Exists(t.lg) \/ Written(t.op, server[t.lg]) = Failed
     THEN /\ Replied(t, "write", Failed)
          /\ UNCHANGED server
     ELSE /\ server' = [server EXCEPT ![t.lg] = Written(t.op, @)]
          /\ Replied(t, "write", t.lg)
  /\ UNCHANGED <<pageVars, busy, clicks, failures>>

\* The request or its answer is lost: a write may have taken effect.
Lose(t, q) ==
  /\ failures < MaxFailures
  /\ failures' = failures + 1
  /\ Replied(t, q, Failed)
  /\ UNCHANGED <<pageVars, busy, clicks>>
  /\ \/ UNCHANGED server
     \/ /\ q = "write" /\ t.op # "create"
        /\ Exists(t.lg) /\ Written(t.op, server[t.lg]) # Failed
        /\ server' = [server EXCEPT ![t.lg] = Written(t.op, @)]
     \/ /\ q = "write" /\ t.op = "create"
        /\ \E l \in Newborn :
             server' = [server EXCEPT ![l] = [week |-> 0, at |-> 0, edits |-> 0]]

Serve(t) ==
  \E q \in t.due :
    \/ ServeRead(t, q)
    \/ q = "write" /\ ServeWrite(t)
    \/ Lose(t, q)

(***************************************************************************)
(* What the handlers share.                                                *)
(***************************************************************************)
Task(no, op, at, lg, week, match, queries) ==
  [no |-> no, op |-> op, at |-> at, lg |-> lg, week |-> week, match |-> match,
   due |-> queries, got |-> <<>>]

\* The task t at its next await.
AtNext(t, at, lg, week, queries) == Task(t.no, t.op, at, lg, week, t.match, queries)

Awaits(t, at, lg, week, queries) ==
  /\ tasks' = (tasks \ {t}) \cup {AtNext(t, at, lg, week, queries)}
  /\ UNCHANGED busy

\* Variant: every handler unlocks the buttons.
EndUnlocking(t) ==
  /\ tasks' = tasks \ {t}
  /\ busy' = FALSE

\* A handler that locked the buttons gives them back at its end, its finally.
End(t) ==
  /\ tasks' = tasks \ {t}
  /\ busy' = (busy /\ t.op \notin Exclusive)

\* refresh() up to its first await, when the page shows lg.
Refresh(t, lg) ==
  IF lg = Nothing THEN End(t)
  ELSE Awaits(t, "tables", lg.of, lg.week,
              {"standings"} \cup (IF lg.week >= 1 THEN {"week"} ELSE {}))

\* selectLeague(id) up to its first await.
SelectLeague(t, id) ==
  /\ selectedId' = id
  /\ tab' = "table"
  /\ edit' = Nothing
  /\ expandedAudit' = Nothing
  /\ page' = [v \in Views |-> Nothing]
  /\ tasks' = (tasks \ {t}) \cup {AtNext(t, "league", id, 0, {"league"})}

\* The rest of refresh(): the tab's own view, and the prediction, which nobody
\* waits for; then saveEdit reloads an open audit log and the others end.
LoadPrediction(t, shown) ==
  LET early == league # Nothing /\ ~Finished(league) /\ league.week < PredictFrom
      audit == t.op = "edit" /\ expandedAudit = t.match
  IN /\ page' = [shown EXCEPT !.prediction = Nothing]
     /\ tasks' = (tasks \ {t})
          \cup (IF early THEN {}
                ELSE {Task(t.no, "predict", "prediction", t.lg, 0, Nothing, {"prediction"})})
          \cup (IF audit THEN {AtNext(t, "audit", t.match, 0, {"audit"})} ELSE {})
     /\ busy' = (busy /\ (audit \/ t.op \notin Exclusive))

\* Variant: refresh() does not look at the open tab.
LoadTabSkipped(t, shown, tabs) == LoadPrediction(t, shown)

LoadTab(t, shown, tabs) ==
  IF tab \in tabs
  THEN /\ page' = shown
       /\ Awaits(t, tab, t.lg, 0, {tab})
  ELSE LoadPrediction(t, shown)

(***************************************************************************)
(* From an await to the next, once its answers are there.                  *)
(***************************************************************************)
Answered(t, at) == /\ t.at = at
                   /\ t.due = {}
                   /\ \A q \in DOMAIN t.got : t.got[q] # Failed

Others == <<server, clicks, failures, history>>

\* After the write of its handler.
Wrote(t) ==
  /\ Answered(t, "write")
  /\ \/ /\ t.op \in Mutations
        /\ IF league = Nothing THEN End(t)  \* this.league.id throws
           ELSE Awaits(t, "league", league.of, 0, {"league"})
        /\ UNCHANGED pageVars
     \/ /\ t.op = "edit"
        /\ edit' = Nothing
        /\ Refresh(t, league)
        /\ UNCHANGED <<leagues, selectedId, league, page, audits, tab, expandedAudit>>
     \/ /\ t.op = "delete"
        /\ league' = Nothing
        /\ selectedId' = Nothing
        /\ Awaits(t, "list", t.lg, 0, {"list"})
        /\ UNCHANGED <<leagues, page, audits, tab, edit, expandedAudit>>
     \/ /\ t.op = "create"
        /\ Awaits(t, "list", t.got["write"], 0, {"list"})
        /\ UNCHANGED pageVars
  /\ UNCHANGED Others

\* listLeagues catches its own failure and keeps the list it had; bootstrap and
\* deleteLeague then select the first league if none is shown, submitCreate the
\* new one.
Listed(t) ==
  /\ t.at = "list"
  /\ t.due = {}
  /\ LET lost  == t.got["list"] = Failed
         known == IF lost THEN leagues ELSE t.got["list"]
     IN /\ leagues' = known
        /\ \/ /\ t.op = "create"
              /\ SelectLeague(t, t.lg)
              /\ UNCHANGED busy
           \/ /\ t.op \in {"bootstrap", "delete"}
              /\ known # {} /\ league = Nothing /\ (lost => t.op = "bootstrap")
              /\ SelectLeague(t, Max(known))
              /\ UNCHANGED busy
           \/ /\ t.op \in {"bootstrap", "delete"}
              /\ known = {} \/ league # Nothing \/ (lost /\ t.op = "delete")
              /\ End(t)
              /\ UNCHANGED <<selectedId, page, tab, edit, expandedAudit>>
  /\ UNCHANGED <<Others, league, audits>>

LeagueRead(t) ==
  /\ Answered(t, "league")
  /\ league' = t.got["league"]
  /\ Refresh(t, t.got["league"])
  /\ UNCHANGED <<Others, leagues, selectedId, page, audits, tab, edit, expandedAudit>>

TablesRead(t) ==
  /\ Answered(t, "tables")
  /\ LoadTab(t, [page EXCEPT !.standings = t.got["standings"],
                             !.week = IF "week" \in DOMAIN t.got THEN t.got["week"]
                                      ELSE Nothing],
             {"fixtures", "history"})
  /\ UNCHANGED <<Others, leagues, selectedId, league, audits, tab, edit, expandedAudit>>

\* The fixtures or the history, for a refresh or for the tab just opened.  A
\* refresh that has loaded the fixtures looks at the tab once more.
TabRead(t) ==
  /\ \E view \in {"fixtures", "history"} :
       /\ Answered(t, view)
       /\ LET shown == [page EXCEPT ![view] = t.got[view]]
          IN IF t.op = "tab"
             THEN /\ page' = shown
                  /\ End(t)
             ELSE LoadTab(t, shown, IF view = "fixtures" THEN {"history"} ELSE {})
  /\ UNCHANGED <<Others, leagues, selectedId, league, audits, tab, edit, expandedAudit>>

\* Variant: the prediction is shown whatever league is shown by then.
PredictionReadUnguarded(t) ==
  /\ Answered(t, "prediction")
  /\ page' = IF t.got["prediction"] = TooEarly THEN page
             ELSE [page EXCEPT !.prediction = t.got["prediction"]]
  /\ End(t)
  /\ UNCHANGED <<Others, leagues, selectedId, league, audits, tab, edit, expandedAudit>>

\* Variant: api() does not look at res.ok.
PredictionReadUnchecked(t) ==
  /\ Answered(t, "prediction")
  /\ page' = IF league = Nothing \/ league.of # t.lg THEN page
             ELSE [page EXCEPT !.prediction = t.got["prediction"]]
  /\ End(t)
  /\ UNCHANGED <<Others, leagues, selectedId, league, audits, tab, edit, expandedAudit>>

\* The late answer is dropped when another league is shown by then, and an
\* answer that it is too early for a prediction is no error.
PredictionRead(t) ==
  /\ Answered(t, "prediction")
  /\ LET answer == t.got["prediction"]
     IN page' = IF answer # TooEarly /\ league # Nothing /\ league.of = t.lg
                THEN [page EXCEPT !.prediction = answer] ELSE page
  /\ End(t)
  /\ UNCHANGED <<Others, leagues, selectedId, league, audits, tab, edit, expandedAudit>>

AuditRead(t) ==
  /\ Answered(t, "audit")
  /\ audits' = [audits EXCEPT ![t.lg] = t.got["audit"]]
  /\ End(t)
  /\ UNCHANGED <<Others, leagues, selectedId, league, page, tab, edit, expandedAudit>>

\* Variant: busy is cleared at the end of the try block, not in a finally.
FailsLocked(t) ==
  /\ t.at # "list"
  /\ \E q \in DOMAIN t.got : t.got[q] = Failed
  /\ tasks' = tasks \ {t}
  /\ UNCHANGED <<Others, pageVars, busy>>

\* An await that fails ends its handler, with the error on the page.  Of two
\* requests the first to fail is enough.
Fails(t) ==
  /\ t.at # "list"
  /\ \E q \in DOMAIN t.got : t.got[q] = Failed
  /\ End(t)
  /\ UNCHANGED <<Others, pageVars>>

Proceed(t) ==
  \/ Wrote(t) \/ Listed(t) \/ LeagueRead(t) \/ TablesRead(t) \/ TabRead(t)
  \/ PredictionRead(t) \/ AuditRead(t) \/ Fails(t)

(***************************************************************************)
(* What the user clicks.                                                   *)
(***************************************************************************)
InFlight == {t \in tasks : t.op # "predict"}

Starts(op, at, lg, match, q) ==
  /\ clicks < MaxClicks
  /\ clicks' = clicks + 1
  /\ tasks' = tasks \cup {Task(clicks + 1, op, at, lg, 0, match, {q})}
  /\ overlapped' = (overlapped \/ InFlight # {})
  /\ UNCHANGED failed

\* A button that locks the others: busy disables every one of these.
Locks(op, lg, match) ==
  /\ ~busy
  /\ busy' = TRUE
  /\ Starts(op, "write", lg, match, "write")
  /\ UNCHANGED <<server, pageVars, failures>>

ClickMutate(op) ==
  /\ league # Nothing
  /\ op \in {"playWeek", "playAll"} => ~Finished(league)
  /\ Locks(op, league.of, Nothing)

ClickDelete == league # Nothing /\ Locks("delete", league.of, Nothing)

ClickCreate == Newborn # {} /\ Locks("create", Nothing, Nothing)

\* The match the fixtures tab shows, and the same if it has a result.
MatchShown ==
  IF league # Nothing /\ tab = "fixtures" /\ page.fixtures # Nothing
  THEN {page.fixtures.of} ELSE {}

PlayedMatches == {m \in MatchShown : page.fixtures.week > 0}

\* Save and Cancel are rendered beside the match under edit; a match that is
\* played and not under edit has Edit and Audit.
ClickSave ==
  /\ edit \in MatchShown
  /\ Locks("edit", edit, edit)

StartEdit ==
  /\ \E m \in PlayedMatches \ {edit} : edit' = m
  /\ UNCHANGED <<server, leagues, selectedId, league, page, audits, tab, expandedAudit,
                 busy, tasks, clicks, failures, history>>

CancelEdit ==
  /\ edit \in MatchShown
  /\ edit' = Nothing
  /\ UNCHANGED <<server, leagues, selectedId, league, page, audits, tab, expandedAudit,
                 busy, tasks, clicks, failures, history>>

\* The dropdown is never disabled.  A selection made in quiet starts afresh.
Select ==
  /\ clicks < MaxClicks
  /\ clicks' = clicks + 1
  /\ \E id \in leagues \ {selectedId} :
       SelectLeague(Task(clicks + 1, "select", "league", id, 0, Nothing, {}), id)
  /\ IF InFlight = {} THEN failed' = FALSE /\ overlapped' = FALSE
     ELSE overlapped' = TRUE /\ UNCHANGED failed
  /\ UNCHANGED <<server, leagues, league, audits, busy, failures>>

SwitchTab ==
  /\ league # Nothing
  /\ \E name \in {"table", "fixtures", "history"} :
       /\ tab' = name
       /\ IF name = "table" THEN UNCHANGED <<clicks, tasks, history>>
          ELSE Starts("tab", name, league.of, Nothing, name)
  /\ UNCHANGED <<server, leagues, selectedId, league, page, audits, edit, expandedAudit,
                 busy, failures>>

ToggleAudit ==
  /\ \E m \in PlayedMatches \ {edit} :
       IF expandedAudit = m
       THEN /\ expandedAudit' = Nothing
            /\ UNCHANGED <<clicks, tasks, history>>
       ELSE /\ expandedAudit' = m
            /\ Starts("audit", "audit", m, Nothing, "audit")
  /\ UNCHANGED <<server, leagues, selectedId, league, page, audits, tab, edit, busy, failures>>

Click ==
  \/ \E op \in Mutations : ClickMutate(op)
  \/ ClickDelete \/ ClickCreate \/ ClickSave \/ StartEdit \/ CancelEdit
  \/ Select \/ SwitchTab \/ ToggleAudit

\* The page is opened on a server where seasons are under way.
Init ==
  /\ server \in [League -> {Unborn} \cup
       {[week |-> w, at |-> 0, edits |-> 0] : w \in 0..TotalWeeks}]
  /\ \A k, l \in League : k < l /\ server[k] = Unborn => server[l] = Unborn
  /\ leagues = {} /\ selectedId = Nothing /\ league = Nothing
  /\ page = [v \in Views |-> Nothing]
  /\ audits = [l \in League |-> Nothing]
  /\ tab = "table" /\ edit = Nothing /\ expandedAudit = Nothing
  /\ busy = TRUE
  /\ tasks = {Task(0, "bootstrap", "list", Nothing, 0, Nothing, {"list"})}
  /\ clicks = 0 /\ failures = 0
  /\ failed = FALSE /\ overlapped = FALSE

Respond == \E t \in tasks : Serve(t) \/ Proceed(t)

Next == Respond \/ Click

Spec == Init /\ [][Next]_vars

\* A request is answered or fails, and its handler goes on.
FairSpec == Spec /\ WF_vars(Respond)

-----------------------------------------------------------------------------
ExclusiveTasks == {t \in tasks : t.op \in Exclusive}
Quiet          == tasks = {}

TypeOK ==
  /\ server \in [League -> {Unborn, Deleted} \cup State]
  /\ leagues \subseteq League
  /\ selectedId \in League \cup {Nothing}
  /\ league \in Showing \cup {Nothing}
  /\ page \in [Views -> Showing \cup {Nothing}]
  /\ audits \in [League -> Showing \cup {Nothing}]
  /\ tab \in {"table", "fixtures", "history"}
  /\ edit \in League \cup {Nothing} /\ expandedAudit \in League \cup {Nothing}
  /\ busy \in BOOLEAN /\ failed \in BOOLEAN /\ overlapped \in BOOLEAN

\* The buttons are locked exactly while one of the handlers that lock them
\* runs, and two of those never run at once: selections, tabs and audit logs
\* that come and go meanwhile do not unlock them.
LockedByOne == Cardinality(ExclusiveTasks) = IF busy THEN 1 ELSE 0

\* Once nothing is in flight and nothing failed, the prediction shown is of the
\* league shown, however selections, plays, edits and deletes overlapped and in
\* whatever order their answers came.
PredictionOfShownLeague ==
  Quiet /\ ~failed /\ league # Nothing /\ page.prediction # Nothing
  => page.prediction.of = league.of

\* A user who waits for each handler sees the server's state: the selected
\* league is the one shown, its table, its current week's matches and the view
\* of the open tab are of the league as it is now, and so is an open audit log.
PageAgrees ==
  LET Now(view) == view # Nothing /\ view.of = league.of /\ view.at = server[league.of].at
  IN Quiet /\ ~failed /\ ~overlapped /\ league # Nothing =>
     /\ selectedId = league.of
     /\ league.of \in leagues /\ Exists(league.of)
     /\ league.week = server[league.of].week
     /\ Now(page.standings)
     /\ league.week > 0 => Now(page.week) /\ page.week.week = league.week
     /\ tab # "table" => Now(page[tab])
     /\ tab = "fixtures" /\ expandedAudit # Nothing =>
          audits[expandedAudit] # Nothing
          /\ audits[expandedAudit].edits = server[expandedAudit].edits

\* The buttons are always given back, also by a handler whose request failed.
ButtonsComeBack == busy ~> ~busy

\* After a score is corrected "standings and predictions recompute automatically"
\* (web/index.html:200): once a user who waits for each handler sees all quiet, the
\* prediction shown counts every edit.
PredictionRecomputed ==
  Quiet /\ ~failed /\ ~overlapped /\ league # Nothing /\ page.prediction # Nothing
  => page.prediction.edits = server[league.of].edits
=============================================================================
