---------------------------- MODULE MCPluginChats ----------------------------
(* Two requests, two conversations, two windows and one end of the plugin *)
(* or of Discord.  Sizes are the worst cases of the code's character limits  *)
(* (an editor's first request up to 7 units, a later one 1, a chat's 4, a    *)
(* summary 4, a reply 8); the message limit and the recent messages are      *)
(* scaled down so that both ways of compacting happen.                       *)
EXTENDS PluginChats
MCRecent       == [editor |-> 1, chat |-> 1]
MCRequestSizes == [editor |-> {1}, chat |-> {4}, audit |-> {8}]
MCFirstSizes   == {1, 7}
MCReplySizes   == {1, 8}
=============================================================================
