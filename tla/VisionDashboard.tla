--------------------------- MODULE VisionDashboard ---------------------------
(***************************************************************************)
(* The companion's own page of Vision jobs (discord_jobs.js): a list that  *)
(* refreshes itself and the details of one job.  It shares nothing with    *)
(* the plugin's rail but the companion's jobs, srv, so a behaviour in      *)
(* which the page is used is one in which the rail is closed.              *)
(*                                                                         *)
(* Nothing aborts a request here.  Two counters decide which answer still  *)
(* counts: refreshToken for lists, detailToken for details.  A counter is  *)
(* modelled by the call that holds its newest value, 0 if that has settled *)
(* or been given up.                                                       *)
(***************************************************************************)
EXTENDS PluginHistory

CONSTANT MaxCalls       \* bound: requests of the page not yet settled

ASSUME DashboardBounds == MaxCalls \in Nat

VARIABLES
    page,    \* what the page shows and has chosen, its timer and its counters
    calls    \* its requests

dashboard == <<page, calls>>

Calls   == 1..MaxCalls
ViewOf  == [all |-> "recent", active |-> "queued", completed |-> "completed",
            attention |-> "errors"]
Filters == {f \in DOMAIN ViewOf : ViewOf[f] \in Tabs}  \* those the user visits
NoCall  == [st |-> "free", by |-> "refresh", filter |-> "all", no |-> 1,
            answer |-> NoPage, job |-> 0, status |-> "none"]
Blank   == [job |-> 0, status |-> "none"]    \* the details' empty state

DashboardInit ==
    /\ Init
    /\ page = [open |-> FALSE, filter |-> "all", no |-> 1, rows |-> {}, at |-> 1,
               pages |-> 1, drawn |-> "all", selected |-> 0, detail |-> Blank,
               timer |-> FALSE, refresh |-> 0, fetch |-> 0]
    /\ calls = [i \in Calls |-> NoCall]

-----------------------------------------------------------------------------
(* The list *)

Free == {i \in Calls : calls[i].st = "free"}
Freed(i) == [calls EXCEPT ![i] = NoCall]

\* refresh: with the page's state p; what was asked before no longer counts.
RefreshPage(p) ==
    /\ Free # {}
    /\ page' = [p EXCEPT !.timer = FALSE, !.refresh = Min(Free)]
    /\ calls' = [calls EXCEPT ![Min(Free)] =
                    [NoCall EXCEPT !.st = "list", !.filter = p.filter, !.no = p.no]]

\* schedule, at the end of the newest refresh.
Scheduled(p) == [p EXCEPT !.timer = TRUE, !.refresh = 0]

\* clearDetail.
ClearDetail(p) == [p EXCEPT !.selected = 0, !.detail = Blank, !.fetch = 0]

\* selectJob: call i is to bring the details of j, of which the page shows only
\* what the list says until then.  A job that is chosen is in the list.
SelectJob(p, i, j, by) ==
    /\ page' = [p EXCEPT !.selected = j, !.detail = [job |-> j, status |-> "loading"],
                         !.fetch = i, !.drawn = p.filter]
    /\ calls' = [calls EXCEPT ![i] = [NoCall EXCEPT !.st = "job", !.by = by, !.job = j]]

JobsOf(rows) == {r.job : r \in rows}

\* The jobs that may head a list: the oldest that waits, or any that has ended.
FirstOf(rows) ==
    LET waiting == JobsOf({r \in rows : r.status = "active"})
    IN  IF waiting # {} THEN {Min(waiting)} ELSE JobsOf(rows)

\* Mutant: an answer counts although the page has asked anew since.
NewestMutant(i) == TRUE

\* token === state.refreshToken.
Newest(i) == page.refresh = i

\* A list arrives: the chosen job's details are fetched again, or the first
\* job's if none was chosen; a chosen job that has left the list is given up.
ListArrives(i) ==
    LET a == calls[i].answer
        p == [page EXCEPT !.rows = a.rows, !.no = a.page, !.at = a.page,
                          !.pages = a.pages, !.drawn = page.filter]
    IN  /\ calls[i].st = "listed"
        /\ IF ~Newest(i) THEN calls' = Freed(i) /\ UNCHANGED page
           ELSE IF page.selected \in JobsOf(a.rows)
           THEN SelectJob(p, i, page.selected, "refresh")
           ELSE IF page.selected = 0 /\ a.rows # {}
           THEN \E j \in FirstOf(a.rows) : SelectJob(p, i, j, "refresh")
           ELSE page' = Scheduled(ClearDetail(p)) /\ calls' = Freed(i)
        /\ UNCHANGED vars

\* requestJson fails, or answers an error.
ListFails(i) ==
    /\ calls[i].st \in {"list", "listed"}
    /\ page' = IF Newest(i) THEN Scheduled(page) ELSE page
    /\ calls' = Freed(i)
    /\ UNCHANGED vars

-----------------------------------------------------------------------------
(* The details *)

\* token === state.detailToken && state.selected === jobId.
Awaited(i) == page.fetch = i /\ page.selected = calls[i].job

\* Call i has brought the details of its job, or has failed; a refresh goes on
\* to schedule the next one.
Settled(i, status) ==
    LET p == IF Awaited(i)
             THEN [page EXCEPT !.detail = [job |-> calls[i].job, status |-> status]]
             ELSE page
        q == IF p.fetch = i THEN [p EXCEPT !.fetch = 0] ELSE p
    IN  /\ page' = IF calls[i].by = "refresh" /\ Newest(i) THEN Scheduled(q) ELSE q
        /\ calls' = Freed(i)
        /\ UNCHANGED vars

\* renderDetail.
DetailsArrive(i) ==
    /\ calls[i].st = "read"
    /\ calls[i].status # "gone"
    /\ Settled(i, calls[i].status)

DetailsFail(i) == calls[i].st \in {"job", "read"} /\ Settled(i, "unavailable")

-----------------------------------------------------------------------------
(* The companion answers *)

ListRead(i) ==
    /\ calls[i].st = "list"
    /\ \E by \in Updates :
         calls' = [calls EXCEPT ![i].st = "listed",
             ![i].answer = Answered([view |-> ViewOf[calls[i].filter], search |-> FALSE,
                                     model |-> FALSE], calls[i].no, by)]
    /\ UNCHANGED <<vars, page>>

JobRead(i) ==
    /\ calls[i].st = "job"
    /\ calls' = [calls EXCEPT ![i].st = "read", ![i].status = srv[calls[i].job]]
    /\ UNCHANGED <<vars, page>>

-----------------------------------------------------------------------------
(* The user *)

Uses ==
    /\ page.open /\ scene.clicks > 0
    /\ scene' = [scene EXCEPT !.clicks = @ - 1]
    /\ UNCHANGED <<running, srv, ui, list, detail, clearing, th>>

OpenPage == ~page.open /\ RefreshPage([page EXCEPT !.open = TRUE]) /\ UNCHANGED vars

Ticks == page.timer /\ RefreshPage(page) /\ UNCHANGED vars

ChooseFilter(f) == Uses /\ RefreshPage([page EXCEPT !.filter = f, !.no = 1])

\* The Refresh button.
RefreshClicked == Uses /\ RefreshPage(page)

\* The page's tab is shown again.
TabShown == Uses /\ RefreshPage(page)

\* renderPagination disables the button that led nowhere when it was drawn; the
\* handler looks at the page asked for since.
CanTurnPage(d) == {page.at + d, page.no + d} \subseteq 1..page.pages
TurnDashboardPage(d) == Uses /\ CanTurnPage(d) /\ RefreshPage([page EXCEPT !.no = @ + d])

\* filteredJobs.
Filtered(rows, filter) ==
    CASE filter = "active"    -> {r \in rows : r.status = "active"}
      [] filter = "completed" -> {r \in rows : r.status = "completed"}
      [] filter = "attention" -> {r \in rows : r.status = "failed"}
      [] OTHER                -> rows

\* A row is clicked that renderJobs drew: by the filter of then, which may have
\* changed since.
ChooseJob(j) ==
    /\ Uses
    /\ j \in JobsOf(Filtered(page.rows, page.drawn))
    /\ Free # {}
    /\ SelectJob(page, Min(Free), j, "click")

-----------------------------------------------------------------------------
\* clear_terminal, asked for by the rail of another Discord client.
JobsCleared ==
    /\ srv' = [j \in Jobs |-> IF srv[j] \in Ended THEN "gone" ELSE srv[j]]
    /\ srv' # srv
    /\ UNCHANGED <<running, scene, ui, list, detail, clearing, th>>

DashboardSteps ==
    \/ OpenPage \/ Ticks \/ RefreshClicked \/ TabShown
    \/ \E f \in Filters : ChooseFilter(f)
    \/ \E d \in {-1, 1} : TurnDashboardPage(d)
    \/ \E j \in Jobs : ChooseJob(j)
    \/ \E i \in Calls : \/ ListRead(i) \/ ListArrives(i) \/ ListFails(i)
                        \/ JobRead(i) \/ DetailsArrive(i) \/ DetailsFail(i)

JobSteps == JobsCleared \/ \E j \in Jobs : JobAppears(j) \/ JobEnds(j)

DashboardNext ==
    \/ /\ "dashboard" \in scene.use
       /\ \/ DashboardSteps
          \/ JobSteps /\ UNCHANGED dashboard
    \/ /\ "dashboard" \notin scene.use
       /\ Next /\ UNCHANGED dashboard

DashboardSpec == DashboardInit /\ [][DashboardNext]_<<vars, dashboard>>

-----------------------------------------------------------------------------
(* Properties *)

\* It will ask again, and only once: a timer runs unless a refresh that counts
\* is under way.
AsksAgain == page.open => (page.timer <=> page.refresh = 0)

\* The details are those of the chosen job, which the list holds; while they are
\* said to be loading, the request that is to bring them is under way.
ShowsTheChosen ==
    /\ page.detail.job = page.selected
    /\ page.selected # 0 => page.selected \in JobsOf(page.rows)
    /\ page.detail.status = "loading" =>
          /\ page.fetch # 0
          /\ calls[page.fetch].st \in {"job", "read"}
          /\ calls[page.fetch].job = page.selected

\* A job listed as ended is never listed as waiting again.
ListAdvances ==
    \A j \in Jobs : [job |-> j, status |-> "active"] \in page'.rows =>
                        j \notin JobsOf({r \in page.rows : r.status \in Ended})

\* However lists and details overtake each other, the dashboard goes on asking,
\* shows the details of the chosen job only, and its list never goes back
\* (refresh, selectJob).
DashboardKeepsUp ==
    [](AsksAgain /\ ShowsTheChosen) /\ [][ListAdvances]_page
=============================================================================
