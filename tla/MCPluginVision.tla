--------------------------- MODULE MCPluginVision ---------------------------
(* Two attachments (one with an embedded prompt), one image element, two    *)
(* flows, and one stop and restart.                                          *)
EXTENDS PluginVision
CONSTANTS a1, a2, i1, c1
MCAttachments == {a1, a2}
MCPrompts     == {a2}
MCFiles       == {a1}
MCImages      == {i1}
MCChannels    == {c1}
=============================================================================
