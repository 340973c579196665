---------------------------- MODULE PluginHistory ----------------------------
(***************************************************************************)
(* The plugin's history rail: the list of Vision jobs it asks the          *)
(* companion for and refreshes while everything may change under it, its   *)
(* tabs, search, model filter and pages, the notice that a job has ended,  *)
(* Clear, the full-screen overlay, the detail window that polls one job,   *)
(* and the object URLs of the thumbnails that rows and uploads share.      *)
(*                                                                         *)
(* The plugin runs in one thread: an action is what runs between two       *)
(* awaits.  The companion is another process; it answers at one moment,    *)
(* the plugin takes the answer at a later one.                             *)
(***************************************************************************)
EXTENDS Integers, Sequences, FiniteSets, SequencesExt, FiniteSetsExt

CONSTANTS
    NJobs,       \* Vision jobs, numbered in order of creation
    ThumbOf,     \* the image of each job, named by its hash
    Hashes,      \* the images
    SearchHits,  \* jobs that the text typed into the search box matches
    ModelHits,   \* jobs that ran with the model the filter names
    Tabs,        \* tabs of the rail the user visits
    PageSize,    \* HISTORY_PAGE_SIZE
    Limit,       \* HISTORY_LIMIT: thumbnail URLs kept
    MaxFlights,  \* bound: list requests not yet settled
    MaxUrls,     \* bound: object URLs and thumbnail loads at a time
    Scenes       \* bound: a user uses the controls of one of these, so often

Jobs    == 1..NJobs
Flights == 1..MaxFlights
Urls    == 1..MaxUrls
AllTabs == {"interrogate", "recent", "completed", "queued", "errors"}

ASSUME HistoryBounds ==
    /\ {NJobs, PageSize, Limit, MaxFlights, MaxUrls} \subseteq Nat \ {0}
    /\ Scenes \subseteq [use: SUBSET STRING, clicks: Nat, restarts: Nat, flights: Nat,
                        urls: 0..MaxUrls]
    /\ ThumbOf \in [Jobs -> Hashes]
    /\ SearchHits \cup ModelHits \subseteq Jobs
    /\ Tabs \subseteq AllTabs /\ "recent" \in Tabs

VARIABLES
    running,   \* this.running
    scene,     \* bounds of this behaviour: what is left to the user and the outside
    srv,       \* the companion's jobs
    ui,        \* the rail's own state
    shown,     \* the last answer taken: historyJobs, historyPagination
    flight,    \* the list requests not settled
    cur,       \* historyRequestController: the newest of them, or 0
    known,     \* historyStatusById
    told,      \* completion notices given, by job
    last,      \* lastCompletionJobId, or 0
    detail,    \* the detail window
    clearing,  \* the Clear in progress
    th         \* thumbnails: files, loads and object URLs

list == <<shown, flight, cur, known, told, last>>
vars == <<running, scene, srv, ui, list, detail, clearing, th>>

\* "active" is queued or running, "failed" is error, rejected or cancelled.
Ended     == {"completed", "failed"}
Status    == {"none", "active"} \cup Ended
Row       == [job: Jobs, status: Status]
Page      == [rows: SUBSET Row, page: 1..NJobs, pages: 1..NJobs, total: 0..NJobs]
NoPage    == [rows |-> {}, page |-> 1, pages |-> 1, total |-> 0]
AtFirst   == [view |-> "recent", search |-> FALSE, model |-> FALSE]
NoFlight  == [st |-> "free", aborted |-> FALSE, q |-> AtFirst, page |-> 1,
              answer |-> NoPage]
Aborted   == [NoFlight EXCEPT !.st = "sent", !.aborted = TRUE]
NoDetail  == [job |-> 0, pc |-> "idle", answer |-> "none", status |-> "none",
              timer |-> FALSE]
NoWork    == [st |-> "free", hash |-> 0]

TypeOK ==
    /\ running \in BOOLEAN
    /\ scene.clicks >= 0 /\ scene.restarts >= 0
    /\ srv \in [Jobs -> Status \cup {"gone"}]
    /\ ui \in [filter: AllTabs, search: BOOLEAN, model: BOOLEAN, page: 1..NJobs,
               timer: BOOLEAN, loading: BOOLEAN, error: BOOLEAN,
               collapsed: BOOLEAN, overlay: BOOLEAN]
    /\ shown.rows \subseteq Row
    /\ shown.page \in 1..shown.pages
    /\ \A f \in Flights : flight[f].st \in {"free", "sent", "answered"}
    /\ cur \in Flights \cup {0}
    /\ known \in [Jobs -> Status]
    /\ told \in [Jobs -> Nat]
    /\ last \in Jobs \cup {0}
    /\ detail \in [job: Jobs \cup {0}, pc: {"idle", "fetch", "thumb"},
                   answer: Status, status: Status, timer: BOOLEAN]
    /\ clearing \in {"no", "asked", "cleared"}
    /\ th.live \subseteq Urls
    /\ th.loads \in [Hashes -> Urls \cup {0}]
    /\ Len(th.urls) <= Limit

Init ==
    /\ running = TRUE
    /\ scene \in Scenes
    /\ srv = [j \in Jobs |-> "none"]
    /\ ui = [filter |-> "recent", search |-> FALSE, model |-> FALSE, page |-> 1,
             timer |-> FALSE, loading |-> FALSE, error |-> FALSE,
             collapsed |-> FALSE, overlay |-> FALSE]
    /\ shown = NoPage
    /\ flight = [f \in Flights |-> NoFlight]
    /\ cur = 0
    /\ known = [j \in Jobs |-> "none"]
    /\ told = [j \in Jobs |-> 0]
    /\ last = 0
    /\ detail = NoDetail
    /\ clearing = "no"
    /\ th = [urls |-> <<>>, live |-> {}, loads |-> [h \in Hashes |-> 0],
             work |-> [i \in Urls |-> NoWork], preview |-> 0, image |-> 0]

-----------------------------------------------------------------------------
(* The companion *)

InView(j, view) ==
    CASE view = "completed" -> srv[j] = "completed"
      [] view = "queued"    -> srv[j] = "active"
      [] view = "errors"    -> srv[j] = "failed"
      [] OTHER              -> srv[j] \in Ended \cup {"active"}

Matches(q) == {j \in Jobs : /\ InView(j, q.view)
                            /\ q.search => j \in SearchHits
                            /\ q.model => j \in ModelHits}

\* Jobs that wait come first, the oldest of them at the head; then the others by
\* their last update, which may come after their end (set_reproducibility): it
\* may put them in any order.
Updates == {by \in [Jobs -> Jobs] : IsInjective(by)}
Before(a, b, by) ==
    IF srv[a] = "active" THEN srv[b] = "active" => a < b
    ELSE srv[b] # "active" /\ by[a] > by[b]

Place(q, j, by) == Cardinality({i \in Matches(q) : Before(i, j, by)})

\* list_page: a page beyond the last is answered with the last.
Answered(q, p, by) ==
    LET pages == Max({1, (Cardinality(Matches(q)) + PageSize - 1) \div PageSize})
        page  == Min({p, pages})
        first == (page - 1) * PageSize
        found == {j \in Matches(q) : Place(q, j, by) \in first..(first + PageSize - 1)}
    IN [rows  |-> {[job |-> j, status |-> srv[j]] : j \in found},
        page  |-> page,
        pages |-> pages,
        total |-> Cardinality(Matches(AtFirst))]

\* The vision queue submits a job; it ends.
JobAppears(j) ==
    /\ srv[j] = "none"
    /\ \A k \in Jobs : k < j => srv[k] # "none"
    /\ srv' = [srv EXCEPT ![j] = "active"]
    /\ UNCHANGED <<running, scene, ui, list, detail, clearing, th>>

JobEnds(j) ==
    /\ srv[j] = "active"
    /\ \E end \in Ended : srv' = [srv EXCEPT ![j] = end]
    /\ UNCHANGED <<running, scene, ui, list, detail, clearing, th>>

-----------------------------------------------------------------------------
(* Thumbnails *)

\* Where the URL of image h is kept.
KeptAt(t, h) == {k \in DOMAIN t.urls : t.urls[k].hash = h}
FreeIds(t)   == {i \in 1..scene.urls : t.work[i].st = "free" /\ i \notin t.live}
Revoked(t)   == [t EXCEPT !.live = @ \ {t.urls[k].url : k \in DOMAIN t.urls},
                          !.urls = <<>>,
                          !.loads = [h \in Hashes |-> 0]]

\* Mutant: a second URL of the same image is not revoked.
StoreKeepsMutant(t, h, i) ==
    LET k     == CHOOSE x \in KeptAt(t, h) : TRUE
        grown == Append(t.urls, [hash |-> h, url |-> i])
    IN IF KeptAt(t, h) # {}
       THEN [t EXCEPT !.urls = Append(RemoveAt(t.urls, k), t.urls[k])]
       ELSE IF Len(grown) <= Limit THEN [t EXCEPT !.urls = grown]
            ELSE [t EXCEPT !.urls = Tail(grown), !.live = @ \ {Head(grown).url}]

\* A live URL i of image h is kept, unless there is one: that one is kept as the
\* last stored.  The least recently stored one beyond the limit is revoked.
Store(t, h, i) ==
    LET k     == CHOOSE x \in KeptAt(t, h) : TRUE
        grown == Append(t.urls, [hash |-> h, url |-> i])
    IN IF KeptAt(t, h) # {}
       THEN [t EXCEPT !.urls = Append(RemoveAt(t.urls, k), t.urls[k]), !.live = @ \ {i}]
       ELSE IF Len(grown) <= Limit THEN [t EXCEPT !.urls = grown]
            ELSE [t EXCEPT !.urls = Tail(grown), !.live = @ \ {Head(grown).url}]

\* A new URL of the bytes at hand, which are also written to the cache folder.
Remember(t, h) ==
    LET i == Min(FreeIds(t)) IN
    IF KeptAt(t, h) # {} THEN t
    ELSE Store([t EXCEPT !.live = @ \cup {i}], h, i)

\* loadHistoryThumbnailUrl: a kept URL or a load under way is shared.
StartLoad(h, t) ==
    IF KeptAt(t, h) # {} \/ t.loads[h] # 0 \/ FreeIds(t) = {} THEN t
    ELSE LET i == Min(FreeIds(t))
         IN [t EXCEPT !.loads[h] = i, !.work[i] = [st |-> "busy", hash |-> h]]

\* The load finds a file in the cache folder, which earlier uploads left there,
\* and makes a URL of its bytes; or it finds none.  Either way it forgets
\* whatever load of that image is registered.
LoadEnds(i) ==
    LET h == th.work[i].hash
        t == [th EXCEPT !.work[i] = NoWork]
    IN /\ th.work[i].st = "busy"
       /\ \E u \in {t, Store([t EXCEPT !.live = @ \cup {i}], h, i)} :
             th' = [u EXCEPT !.loads[h] = 0]
       /\ UNCHANGED <<running, scene, srv, ui, list, detail, clearing>>

-----------------------------------------------------------------------------
(* What the rail shows *)

QueryOf(u) ==
    [view   |-> IF u.filter = "interrogate" THEN "recent" ELSE u.filter,
     search |-> u.search, model |-> u.model]

\* filterHistoryJobs: the rail filters the last answer once more.
Shows(tab, status) ==
    CASE tab = "completed"   -> status = "completed"
      [] tab = "queued"      -> status = "active"
      [] tab = "errors"      -> status = "failed"
      [] OTHER               -> TRUE

\* historyJobMatchesModel, the models as they are shown.
MatchesModel(j, u) == u.model => j \in ModelHits

Visible(u, s) ==
    IF u.filter = "interrogate" \/ u.error THEN {}
    ELSE {r \in s.rows : /\ Shows(u.filter, r.status)
                         /\ u.search => r.job \in SearchHits
                         /\ MatchesModel(r.job, u)}

\* Rendering the rail loads the thumbnails of its rows.
Rendered(t, u, s) ==
    FoldSet(StartLoad, t, {ThumbOf[r.job] : r \in Visible(u, s)})

Sees == running /\ (ui.overlay \/ ~ui.collapsed)

-----------------------------------------------------------------------------
(* Asking for the list *)

Slots == {f \in Flights : f <= scene.flights /\ flight[f].st = "free"}

\* Mutant: the earlier request is not aborted.
RefreshAddsMutant(u, t) ==
    /\ Slots # {}
    /\ cur' = Min(Slots)
    /\ flight' = [flight EXCEPT ![Min(Slots)] =
                    [NoFlight EXCEPT !.st = "sent", !.q = QueryOf(u), !.page = u.page]]
    /\ ui' = [u EXCEPT !.loading = TRUE, !.error = FALSE]
    /\ th' = Rendered(t, ui', shown)

\* refreshHistory: with the rail's state u, after the request before is aborted.
Refresh(u, t) ==
    /\ Slots # {}
    /\ cur' = Min(Slots)
    /\ flight' = [f \in Flights |->
          IF f = Min(Slots) THEN [NoFlight EXCEPT !.st = "sent", !.q = QueryOf(u),
                                                  !.page = u.page]
          ELSE IF f = cur THEN Aborted
          ELSE flight[f]]
    /\ ui' = [u EXCEPT !.loading = TRUE, !.error = FALSE]
    /\ th' = Rendered(t, ui', shown)

\* Nothing is asked, the rail is only rendered.
Renders(u, t) ==
    /\ ui' = u
    /\ th' = Rendered(t, u, shown)
    /\ UNCHANGED <<flight, cur>>

Poll ==
    /\ Sees
    /\ ~ui.loading
    /\ Refresh(ui, th)
    /\ UNCHANGED <<running, scene, srv, shown, known, told, last, detail, clearing>>

Click(control) ==
    /\ running
    /\ scene.clicks > 0
    /\ control \in scene.use
    /\ scene' = [scene EXCEPT !.clicks = @ - 1]
    /\ UNCHANGED running

\* A step on Discord's route: the rail is built anew if Discord dropped it, and
\* asks for its list unless a request is under way.
RouteChanges ==
    /\ Click("route")
    /\ IF ui.loading THEN Renders(ui, th) ELSE Refresh(ui, th)
    /\ UNCHANGED <<srv, shown, known, told, last, detail, clearing>>

\* The companion reads its jobs for request f.
CompanionAnswers(f) ==
    /\ flight[f].st = "sent"
    /\ ~flight[f].aborted
    /\ \E by \in Updates : flight' = [flight EXCEPT ![f] =
         [NoFlight EXCEPT !.st = "answered",
                          !.answer = Answered(flight[f].q, flight[f].page, by)]]
    /\ UNCHANGED <<running, scene, srv, ui, shown, cur, known, told,
                   last, detail, clearing, th>>

\* Mutant: a failed request leaves historyLoading set.
SettlesLoadingMutant(f, u, s) ==
    /\ flight' = [flight EXCEPT ![f] = NoFlight]
    /\ cur' = IF cur = f THEN 0 ELSE cur
    /\ ui' = IF u.error THEN u ELSE [u EXCEPT !.loading = FALSE]
    /\ th' = IF running THEN Rendered(th, ui', s) ELSE th

\* refreshHistory's finally block: it forgets its own controller, but declares
\* loading over whichever request is under way.
Settles(f, u, s) ==
    /\ flight' = [flight EXCEPT ![f] = NoFlight]
    /\ cur' = IF cur = f THEN 0 ELSE cur
    /\ ui' = [u EXCEPT !.loading = FALSE]
    /\ th' = IF running THEN Rendered(th, ui', s) ELSE th

NewlyEnded(rows) == {r.job : r \in {x \in rows : /\ known[x.job] = "active"
                                                 /\ x.status # "active"}}

StatusIn(rows, j) == (CHOOSE r \in rows : r.job = j).status

\* Mutant: the status is recorded only for jobs that still run.
NotedActiveMutant(rows) ==
    /\ known' = [j \in Jobs |-> IF [job |-> j, status |-> "active"] \in rows
                                THEN "active" ELSE known[j]]
    /\ told' = [j \in Jobs |-> told[j] + IF j \in NewlyEnded(rows) THEN 1 ELSE 0]
    /\ IF NewlyEnded(rows) = {} THEN last' = last ELSE last' \in NewlyEnded(rows)

\* notifyJobCompletion, once for each of the jobs; the last one is offered for
\* opening.
Announced(jobs) ==
    /\ told' = [j \in Jobs |-> told[j] + IF j \in jobs THEN 1 ELSE 0]
    /\ IF jobs = {} THEN last' = last ELSE last' \in jobs

\* A job last seen waiting and now ended is announced; every status is noted.
Noted(rows) ==
    /\ known' = [j \in Jobs |-> IF \E r \in rows : r.job = j
                                THEN StatusIn(rows, j) ELSE known[j]]
    /\ Announced(NewlyEnded(rows))

\* The plugin takes an answer that was not superseded.
Arrives(f) ==
    LET a == flight[f].answer IN
    /\ flight[f].st = "answered"
    /\ ~flight[f].aborted
    /\ Noted(a.rows)
    /\ shown' = a
    /\ Settles(f, [ui EXCEPT !.page = a.page], a)
    /\ UNCHANGED <<running, scene, srv, detail, clearing>>

\* It fails, times out, or is not valid.
Fails(f) ==
    /\ flight[f].st # "free"
    /\ ~flight[f].aborted
    /\ Settles(f, [ui EXCEPT !.error = TRUE], shown)
    /\ UNCHANGED <<running, scene, srv, shown, known, told, last, detail, clearing>>

\* An aborted request settles, as an abort or with an error of its own.
Drops(f) ==
    /\ flight[f].aborted
    /\ \E e \in {ui.error, TRUE} : Settles(f, [ui EXCEPT !.error = e], shown)
    /\ UNCHANGED <<running, scene, srv, shown, known, told, last, detail, clearing>>

-----------------------------------------------------------------------------
(* The rail's controls *)

SelectTab(tab) ==
    LET u == [ui EXCEPT !.filter = tab, !.page = 1] IN
    /\ Click("tab")
    /\ IF tab = "interrogate" THEN Renders(u, th) ELSE Refresh(u, th)
    /\ UNCHANGED <<srv, shown, known, told, last, detail, clearing>>

\* Typing filters at once and asks a quarter of a second after the last key.
Search ==
    /\ Click("search")
    /\ Renders([ui EXCEPT !.search = ~@, !.page = 1, !.timer = TRUE], th)
    /\ UNCHANGED <<srv, shown, known, told, last, detail, clearing>>

SearchTimer ==
    /\ running
    /\ ui.timer
    /\ Refresh([ui EXCEPT !.timer = FALSE], th)
    /\ UNCHANGED <<running, scene, srv, shown, known, told, last, detail, clearing>>

SelectModel ==
    /\ Click("model")
    /\ Refresh([ui EXCEPT !.model = ~@, !.page = 1], th)
    /\ UNCHANGED <<srv, shown, known, told, last, detail, clearing>>

RefreshButton ==
    /\ Click("refresh")
    /\ Refresh(ui, th)
    /\ UNCHANGED <<srv, shown, known, told, last, detail, clearing>>

\* Previous and Next count from the page last answered.
CanTurn(d) == ~ui.loading /\ shown.page + d \in 1..shown.pages

TurnPage(d) ==
    /\ Click("page")
    /\ ui.filter # "interrogate"
    /\ CanTurn(d)
    /\ Refresh([ui EXCEPT !.page = shown.page + d], th)
    /\ UNCHANGED <<srv, shown, known, told, last, detail, clearing>>

Collapse(c) ==
    LET u == [ui EXCEPT !.collapsed = c] IN
    /\ Click("collapse")
    /\ IF c THEN ui' = u /\ UNCHANGED <<flight, cur, th>> ELSE Refresh(u, th)
    /\ UNCHANGED <<srv, shown, known, told, last, detail, clearing>>

\* The Cancel button of a row, or of the detail window.
MayCancel(j) ==
    \/ [job |-> j, status |-> "active"] \in Visible(ui, shown)
    \/ detail.job = j /\ detail.status = "active"

\* The companion ends a waiting job at once and a running one later.
Cancel(j) ==
    /\ Click("cancel")
    /\ MayCancel(j)
    /\ \E s \in {srv[j], IF srv[j] = "active" THEN "failed" ELSE srv[j]} :
          srv' = [srv EXCEPT ![j] = s]
    /\ Refresh(ui, th)
    /\ UNCHANGED <<shown, known, told, last, detail, clearing>>

\* Clear: the question is answered, the companion is asked.
ClearAsked ==
    /\ Click("clear")
    /\ clearing = "no"
    /\ ~ui.loading
    /\ shown.total > 0
    /\ clearing' = "asked"
    /\ UNCHANGED <<srv, ui, list, detail, th>>

\* The companion forgets the jobs that have ended; or it does not, and nothing
\* is cleared.
CompanionClears ==
    /\ clearing = "asked"
    /\ \/ /\ clearing' = "cleared"
          /\ srv' = [j \in Jobs |-> IF srv[j] \in Ended THEN "gone" ELSE srv[j]]
       \/ clearing' = "no" /\ UNCHANGED srv
    /\ UNCHANGED <<running, scene, ui, list, detail, th>>

\* The cached files and every kept URL go, those of waiting jobs too; the
\* uploaded file's preview is not among them.
Cleared ==
    LET t == Revoked(th)
        u == [ui EXCEPT !.page = 1]
    IN /\ clearing = "cleared"
       /\ clearing' = "no"
       /\ IF running THEN Refresh(u, t)
          ELSE ui' = u /\ th' = t /\ UNCHANGED <<flight, cur>>
       /\ UNCHANGED <<running, scene, srv, shown, known, told, last, detail>>

-----------------------------------------------------------------------------
(* The detail window *)

\* What createHistoryDetailBody puts where the prompt goes, and whether the
\* model it names is the one that ran.
Body(status) ==
    [output    |-> CASE status = "none"      -> "loading"
                     [] status = "active"    -> "stage"
                     [] status = "completed" -> "prompt"
                     [] OTHER                -> "diagnostics",
     confirmed |-> status = "completed"]

\* A row is clicked, or Enter or the space bar pressed on it.
RowChosen(j) == \E r \in Visible(ui, shown) : r.job = j

\* The details of a chosen row, or of the last job that ended by its notice.
\* They take the place of an open window.
OpenDetail(j) ==
    /\ Click("detail")
    /\ \/ RowChosen(j)
       \/ ui.filter # "interrogate" /\ last = j /\ \E r \in shown.rows : r.job = j
    /\ detail' = [NoDetail EXCEPT !.job = j, !.pc = "fetch", !.timer = TRUE]
    /\ UNCHANGED <<srv, ui, list, clearing, th>>

CloseDetail ==
    /\ Click("detail")
    /\ detail.job # 0
    /\ detail' = NoDetail
    /\ UNCHANGED <<srv, ui, list, clearing, th>>

\* The once-a-second poll, unless the one before is still under way.
DetailTick ==
    /\ detail.timer
    /\ detail.pc = "idle"
    /\ detail' = [detail EXCEPT !.pc = "fetch"]
    /\ UNCHANGED <<running, scene, srv, ui, list, clearing, th>>

\* The job's state arrives and its thumbnail is looked for.
DetailArrives ==
    /\ detail.pc = "fetch"
    /\ srv[detail.job] # "gone"
    /\ detail' = [detail EXCEPT !.pc = "thumb", !.answer = srv[detail.job]]
    /\ th' = StartLoad(ThumbOf[detail.job], th)
    /\ UNCHANGED <<running, scene, srv, ui, list, clearing>>

DetailFails ==
    /\ detail.pc = "fetch"
    /\ detail' = [detail EXCEPT !.pc = "idle"]
    /\ UNCHANGED <<running, scene, srv, ui, list, clearing, th>>

\* Once the thumbnail is loaded or not to be had, the body is replaced; a job
\* that has ended stops the poll and refreshes the list.
DetailRenders ==
    LET over == detail.answer \in Ended IN
    /\ detail.pc = "thumb"
    /\ detail' = [detail EXCEPT !.pc = "idle", !.status = detail.answer,
                                !.timer = @ /\ ~over]
    /\ IF detail.timer /\ over THEN Refresh(ui, th)
       ELSE UNCHANGED <<ui, th, flight, cur>>
    /\ UNCHANGED <<running, scene, srv, shown, known, told, last,
                   clearing>>

-----------------------------------------------------------------------------
(* The overlay and its keys *)

Overlay(open) ==
    /\ Click("overlay")
    /\ ui.overlay # open
    /\ Renders([ui EXCEPT !.overlay = open], th)
    /\ UNCHANGED <<srv, shown, known, told, last, detail, clearing>>

\* Escape: the overlay's handler comes first and leaves the key to any other
\* window that says it is modal: the detail window, or another of the plugin's
\* dialogs, a hidden editor's too.
Escape ==
    /\ Click("escape")
    /\ \/ /\ ui.overlay
          /\ detail.job = 0
          /\ Renders([ui EXCEPT !.overlay = FALSE], th)
       \/ UNCHANGED <<ui, th, flight, cur>>
    /\ detail' = NoDetail
    /\ UNCHANGED <<srv, shown, known, told, last, clearing>>

-----------------------------------------------------------------------------
(* Images that enter the rail *)

\* The magnifier has downloaded image h.
Capture(h) ==
    /\ Click("capture")
    /\ FreeIds(th) # {}
    /\ th' = Remember(th, h)
    /\ UNCHANGED <<srv, ui, list, detail, clearing>>

\* The selected file's preview, if any, is revoked.
NoSelection(t) == [t EXCEPT !.live = @ \ {t.preview}, !.preview = 0, !.image = 0]

\* A file is chosen in the Interrogate tab.
SelectFile(h) ==
    LET t == NoSelection(th) IN
    /\ Click("file")
    /\ ui.filter = "interrogate"
    /\ FreeIds(t) # {}
    /\ th' = [t EXCEPT !.live = @ \cup {Min(FreeIds(t))},
                       !.preview = Min(FreeIds(t)), !.image = h]
    /\ UNCHANGED <<srv, ui, list, detail, clearing>>

RemoveFile ==
    /\ Click("file")
    /\ ui.filter = "interrogate"
    /\ th.image # 0
    /\ th' = NoSelection(th)
    /\ UNCHANGED <<srv, ui, list, detail, clearing>>

\* Start interrogation: the preview becomes the thumbnail unless there is one.
QueueFile ==
    LET h == th.image
        t == IF KeptAt(th, h) = {} /\ th.preview # 0
             THEN [Store(th, h, th.preview) EXCEPT !.preview = 0] ELSE th
    IN /\ Click("file")
       /\ ui.filter = "interrogate"
       /\ h # 0
       /\ FreeIds(th) # {}
       /\ th' = NoSelection(Remember(t, h))
       /\ UNCHANGED <<srv, ui, list, detail, clearing>>

-----------------------------------------------------------------------------
(* The plugin *)

Stop ==
    /\ running
    /\ scene.restarts > 0
    /\ running' = FALSE
    /\ scene' = [scene EXCEPT !.restarts = @ - 1]
    /\ flight' = [f \in Flights |-> IF f = cur THEN Aborted ELSE flight[f]]
    /\ cur' = 0
    /\ ui' = [ui EXCEPT !.timer = FALSE, !.overlay = FALSE]
    /\ detail' = NoDetail
    /\ th' = NoSelection(Revoked(th))
    /\ UNCHANGED <<srv, shown, known, told, last, clearing>>

\* start() asks for the list unless the aborted request has not settled yet.
Start ==
    /\ ~running
    /\ running' = TRUE
    /\ IF ui.loading THEN Renders(ui, th) ELSE Refresh(ui, th)
    /\ UNCHANGED <<scene, srv, shown, known, told, last, detail, clearing>>

Next ==
    \/ \E j \in Jobs : JobAppears(j) \/ JobEnds(j) \/ Cancel(j) \/ OpenDetail(j)
    \/ \E i \in Urls : LoadEnds(i)
    \/ \E h \in Hashes : Capture(h) \/ SelectFile(h)
    \/ \E f \in Flights : CompanionAnswers(f) \/ Arrives(f) \/ Fails(f) \/ Drops(f)
    \/ Poll \/ RouteChanges \/ SearchTimer
    \/ \E tab \in Tabs : SelectTab(tab)
    \/ Search \/ SelectModel \/ RefreshButton
    \/ \E d \in {-1, 1} : TurnPage(d)
    \/ \E b \in BOOLEAN : Collapse(b) \/ Overlay(b)
    \/ ClearAsked \/ CompanionClears \/ Cleared
    \/ CloseDetail \/ DetailTick \/ DetailArrives \/ DetailFails \/ DetailRenders
    \/ Escape \/ RemoveFile \/ QueueFile
    \/ Stop \/ Start

Spec == Init /\ [][Next]_vars

-----------------------------------------------------------------------------
(* Properties *)

Says(s, j, ends) == \E r \in s.rows : r.job = j /\ r.status \in ends

\* A job the list shows as ended is never shown as waiting again, however the
\* answers of overlapping requests are delayed.
NeverReverts ==
    [][\A j \in Jobs : Says(shown, j, Ended) => ~Says(shown', j, {"active"})]_vars

\* The end of a job is announced at most once, and only when it has ended,
\* whatever pages, filters and restarts it is seen through.
ToldOnce ==
    \A j \in Jobs : /\ told[j] <= 1
                    /\ told[j] = 1 => srv[j] \notin {"none", "active"}

\* Every object URL that is alive is the thumbnail of one image or the preview
\* of the selected file: none is lost and none in use was revoked.
NoUrlLost ==
    /\ th.live = {th.urls[k].url : k \in DOMAIN th.urls}
                 \cup (IF th.preview = 0 THEN {} ELSE {th.preview})
    /\ \A k, l \in DOMAIN th.urls :
         k # l => /\ th.urls[k].hash # th.urls[l].hash
                  /\ th.urls[k].url # th.urls[l].url

\* Neither the rail nor the detail window waits for nothing: while the rail says
\* it is loading, and so asks for nothing, a request is under way; a window that
\* shows a job as unfinished still polls it.
NeverStuck ==
    /\ ui.loading => \E f \in Flights : flight[f].st # "free"
    /\ detail.job # 0 /\ Body(detail.status).output \in {"loading", "stage"}
         => detail.timer
=============================================================================
