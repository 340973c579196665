--------------------------- MODULE MCPluginHistory ---------------------------
(* Two jobs on pages of one, each with its image and room for one thumbnail; *)
(* a few user actions and one stop; or the companion's own page of the jobs. *)
EXTENDS VisionDashboard
MCThumbOf == [j \in Jobs |-> j]

\* The tabs and the search box; paging, Clear and Cancel; the detail window and
\* the overlay; a stop beside any one of them; images that enter the rail, with
\* one list request at a time; the dashboard.
Scene(use, clicks, restarts, flights, urls) ==
    [use |-> use, clicks |-> clicks, restarts |-> restarts, flights |-> flights,
     urls |-> urls]
MCScenes == {
    Scene({"tab", "search"}, 2, 0, 2, 0),
    Scene({"model", "page", "clear", "cancel"}, 2, 0, 2, 0),
    Scene({"detail", "escape", "overlay", "collapse"}, 2, 0, 2, 0),
    Scene({"route", "refresh", "clear", "search", "detail", "overlay", "capture"}, 1, 1, 2, 1),
    Scene({"clear", "capture"}, 2, 0, 1, 2),
    Scene({"tab", "file"}, 3, 0, 1, 2),
    Scene({"dashboard"}, 2, 0, 0, 0)}
=============================================================================
