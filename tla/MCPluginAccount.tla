--------------------------- MODULE MCPluginAccount ---------------------------
(* Two requests at a time, two sign-ins, one payment, four reports in an     *)
(* outbox of two, two models and two setup windows.                          *)
EXTENDS PluginAccount, TLC

CONSTANTS r1, r2
MCSymmetry == Permutations({r1, r2})

\* What an earlier run has left: a completed setup; diagnostics on without a
\* receipt; an outdated setup with everything on.
SetUp    == [done |-> TRUE, contribute |-> FALSE, diagnostics |-> FALSE, receipts |-> {}]
Asking   == [SetUp EXCEPT !.diagnostics = TRUE]
Outdated == [done |-> FALSE, contribute |-> TRUE, diagnostics |-> TRUE,
             receipts |-> {}]

Scene(left, kinds, use, clicks, stops, reports) ==
    [left |-> {left}, kinds |-> kinds, use |-> use, clicks |-> clicks,
     stops |-> stops, reports |-> reports]

\* Sign-ins that are aborted, expire, or meet a stop or a restart of the gateway;
\* consents beside requests that need them; the setup window and its installs;
\* the outbox.
MCScenes == {
    Scene(SetUp, {"chat", "audit"}, {"abort"}, 3, 0, 0),
    Scene(SetUp, {"chat"}, {"expiry"}, 2, 0, 0),
    Scene(SetUp, {"image", "chat"}, {}, 2, 1, 0),
    Scene(Asking, {"local"}, {"consent", "panel"}, 3, 1, 0),
    Scene(Outdated, {"local"}, {"review", "modes", "check", "save", "consent"}, 3, 1, 0),
    Scene(SetUp, {}, {"install", "review", "check"}, 4, 0, 0),
    Scene(SetUp, {"local"}, {}, 4, 1, 4)}
=============================================================================
