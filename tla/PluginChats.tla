----------------------------- MODULE PluginChats -----------------------------
(***************************************************************************)
(* The plugin's three windows that talk to the Online API's Qwen: the      *)
(* Prompt Editor, the Qwen Chat, and the prompt audit.  A window is a      *)
(* closure with its own copy of a conversation; the conversations are kept *)
(* in BetterDiscord's data file by a debounced save.  A request goes       *)
(* through sign-in and credits (which may wait for a modal nobody          *)
(* answers), is posted as a job and polled.  Windows are hidden, replaced, *)
(* destroyed by stop(), or lost with Discord while a request is under way. *)
(*                                                                         *)
(* Token estimates are counted in units of about 3,776 tokens, so that the *)
(* window of 30,208 input tokens is 8 units.                               *)
(***************************************************************************)
EXTENDS Integers, Sequences, FiniteSets, SequencesExt, FiniteSetsExt

CONSTANTS
    MaxRequests,   \* bound: requests typed in a behaviour
    MaxSessions,   \* bound: conversations
    MaxWindows,    \* bound: windows opened
    MaxRestarts,   \* bound: ends of the plugin or of Discord
    MaxMessages,   \* PROMPT_EDITOR_MAX_GATEWAY_MESSAGES
    Recent,        \* messages a compaction keeps verbatim, by kind
    RequestSizes,  \* sizes of a request, by kind
    FirstSizes,    \* sizes of an editor's first request: it carries the prompt
    ReplySizes,    \* sizes of a reply
    Context,       \* PROMPT_EDITOR_CONTEXT_INPUT_TOKENS
    LeastContext,  \* the 4096 tokens compaction never goes below
    SummarySize    \* the most a 12,000-character summary can weigh

Kinds == {"editor", "chat", "audit"}
Kept  == {"editor", "chat"}     \* the kinds whose conversations are stored

ASSUME ChatBounds ==
    /\ {MaxRequests, MaxSessions, MaxWindows} \subseteq Nat \ {0}
    /\ MaxRestarts \in Nat
    /\ Recent \in [Kept -> Nat]
    /\ MaxMessages \in Nat /\ MaxMessages >= 3
    /\ RequestSizes \in [Kinds -> SUBSET (1..Context)]
    /\ FirstSizes \subseteq 1..Context
    /\ ReplySizes \cup {Context, LeastContext, SummarySize} \subseteq Nat
    /\ \A k \in Kept : \A s \in RequestSizes[k] :
         s + SummarySize <= Context /\ s + LeastContext <= Context

VARIABLES
    running,    \* this.running
    restarts,   \* bound counter of stops and crashes
    stored,     \* the data file: conversation by id
    index,      \* ids by last save, newest first, by kind
    active,     \* the id of the active conversation, by kind
    win,        \* the windows, by order of opening
    kindBusy,   \* promptEditorBusy and qwenChatBusy
    typed,      \* requests typed so far
    job         \* the latest prompt-chat job of each request at the gateway

disk == <<stored, index, active>>
vars == <<running, restarts, disk, win, kindBusy, typed, job>>

Requests  == 1..MaxRequests
Ids       == 1..MaxSessions
Windows   == 1..MaxWindows
Modes     == {"edit", "create"}
Stages    == {"idle", "access", "post", "poll"}
Message   == [role: {"user", "assistant"}, n: 0..MaxRequests, size: Nat]
Turn      == [role: {"user", "assistant"}, n: Requests]
Fresh     == [kind |-> "none", mode |-> "edit", messages |-> <<>>,
              turns |-> <<>>, draft |-> 0, status |-> "idle"]
NoWindow  == [kind |-> "none", st |-> "none", sess |-> 0, mode |-> "edit",
              messages |-> <<>>, turns |-> <<>>, draft |-> 0,
              status |-> "idle", asked |-> 0, pc |-> "idle",
              aborted |-> FALSE, armed |-> FALSE]

TypeOK ==
    /\ running \in BOOLEAN
    /\ restarts \in 0..MaxRestarts
    /\ DOMAIN stored = Ids
    /\ \A id \in Ids :
         /\ stored[id].kind \in Kept \cup {"none"}
         /\ stored[id].mode \in Modes
         /\ stored[id].messages \in Seq(Message)
         /\ stored[id].turns \in Seq(Turn)
         /\ stored[id].draft \in 0..MaxRequests
         /\ stored[id].status \in {"idle", "working", "success", "error"}
    /\ index \in [Kept -> Seq(Ids)]
    /\ active \in [Kept -> Ids \cup {0}]
    /\ DOMAIN win = Windows
    /\ \A w \in Windows :
         /\ win[w].kind \in Kinds \cup {"none"}
         /\ win[w].st \in {"none", "shown", "hidden", "gone", "late"}
         /\ win[w].sess \in Ids \cup {0}
         /\ win[w].messages \in Seq(Message)
         /\ win[w].turns \in Seq(Turn)
         /\ win[w].draft \in 0..MaxRequests
         /\ win[w].asked \in 0..MaxRequests
         /\ win[w].pc \in Stages
    /\ kindBusy \in [Kept -> BOOLEAN]
    /\ typed \in 0..MaxRequests
    /\ job \in [Requests -> {"none", "running", "done", "failed"}]

-----------------------------------------------------------------------------
(* The model's context *)

Weight(ms) == FoldLeft(LAMBDA sum, m : sum + m.size, 0, ms)

\* What estimatePromptEditorContextTokens and the gateway's limit allow.
Fits(ms) ==
    /\ Len(ms) <= MaxMessages
    /\ Weight(ms) <= Context

Summary == << [role |-> "user", n |-> 0, size |-> SummarySize],
              [role |-> "assistant", n |-> 0, size |-> 0] >>

\* Older messages give way to a summary and an acknowledgement before the last
\* j messages.
Newest(ms, j) == Summary \o SubSeq(ms, Len(ms) - j + 1, Len(ms))

\* Mutant: the upcoming request is not counted.
CompactAloneMutant(k, ms, upcoming) ==
    LET keep == {j \in 0..Min({Recent[k], Len(ms)}) : Fits(Newest(ms, j))}
    IN IF Fits(ms) THEN ms ELSE Newest(ms, Max(keep \cup {0}))

\* A context that does not suit the upcoming request is compacted: of the most
\* recent messages as many stay as do.  (The chat's function differs from the
\* editor's in its texts and in Recent.)
Compact(k, ms, upcoming) ==
    LET room     == Max({LeastContext, Context - upcoming})
        extra    == IF upcoming > 0 THEN 1 ELSE 0
        Suits(s) == /\ Len(s) + extra <= MaxMessages
                    /\ Weight(s) <= room
        keep     == {j \in 0..Min({Recent[k], Len(ms)}) : Suits(Newest(ms, j))}
    IN IF Suits(ms) THEN ms ELSE Newest(ms, Max(keep \cup {0}))

-----------------------------------------------------------------------------
(* Windows and conversations *)

Live(w)     == win[w].st \in {"shown", "hidden"}
Busy(w)     == win[w].pc # "idle"
Of(k)       == {w \in Windows : Live(w) /\ win[w].kind = k}
Unused      == {w \in Windows : win[w].st = "none"}
UnusedIds   == {id \in Ids : stored[id].kind = "none"}
Content(v)  == [kind |-> v.kind, mode |-> v.mode, messages |-> v.messages,
                turns |-> v.turns, draft |-> v.draft, status |-> v.status]

\* The index lists each id once, the last saved first.
Indexed(ids, id) == Cons(id, RemoveFirst(ids, id))

\* Saving a conversation puts it first in the index and makes it active.
Persist(d, id, content) ==
    LET k == content.kind IN
    [stored |-> [d.stored EXCEPT ![id] = content],
     index  |-> [d.index EXCEPT ![k] = Indexed(@, id)],
     active |-> [d.active EXCEPT ![k] = id]]

Disk       == [stored |-> stored, index |-> index, active |-> active]
Written(d) == /\ stored' = d.stored
              /\ index'  = d.index
              /\ active' = d.active

\* saveSessionNow of a window, on disk d.
SaveNow(d, v) == IF v.kind \in Kept THEN Persist(d, v.sess, Content(v)) ELSE d

\* createPromptEditorSession and createQwenChatSession.
NewEditorSession(d, id, m) == Persist(d, id, [Fresh EXCEPT !.kind = "editor", !.mode = m])
NewChatSession(d, id) == Persist(d, id, [Fresh EXCEPT !.kind = "chat"])

\* Mutant: the turns shown before stay.
ShowsOldTurnsMutant(v, id, c) ==
    [v EXCEPT !.sess = id, !.mode = c.mode, !.messages = c.messages,
              !.draft = c.draft, !.status = c.status, !.armed = FALSE]

\* A window takes over a stored conversation.
Shows(v, id, c) ==
    [v EXCEPT !.sess = id, !.mode = c.mode, !.messages = c.messages,
              !.turns = c.turns, !.draft = c.draft, !.status = c.status,
              !.armed = FALSE]

\* A window closed for good: saved, aborted, removed.
Destroyed(v) == [v EXCEPT !.st = IF v.pc = "idle" THEN "gone" ELSE "late",
                          !.aborted = TRUE, !.armed = FALSE]

\* The conversation an opening window resumes: the active one, the newest, or
\* none.
Resumed(k) ==
    IF active[k] # 0 THEN active[k]
    ELSE IF index[k] # <<>> THEN Head(index[k]) ELSE 0

\* The editor resets the status of a request that died with its session.
Recovered(k, c) ==
    IF k = "editor" /\ c.status = "working"
    THEN [c EXCEPT !.status = "idle"] ELSE c

\* The window's elements and state when it is built on conversation id.
NewEditor(id, c) == Shows([NoWindow EXCEPT !.kind = "editor", !.st = "shown"], id, c)
NewChatWindow(id, c) == Shows([NoWindow EXCEPT !.kind = "chat", !.st = "shown"], id, c)
NewAudit == [NoWindow EXCEPT !.kind = "audit", !.st = "shown"]

Init ==
    /\ running = TRUE
    /\ restarts = 0
    /\ stored = [id \in Ids |-> Fresh]
    /\ index = [k \in Kept |-> <<>>]
    /\ active = [k \in Kept |-> 0]
    /\ win = [w \in Windows |-> NoWindow]
    /\ kindBusy = [k \in Kept |-> FALSE]
    /\ typed = 0
    /\ job = [n \in Requests |-> "none"]

-----------------------------------------------------------------------------
(* Opening and closing *)

\* Open the editor from the rail (prompt FALSE) or on a prompt of a job.  An
\* open editor is shown again; only an idle one gives way to a new prompt.
OpenEditor(prompt) ==
    /\ running
    /\ UNCHANGED <<running, restarts, kindBusy, typed, job>>
    /\ IF Of("editor") # {} /\ ~(prompt /\ ~kindBusy["editor"])
       THEN /\ win' = [w \in Windows |-> IF w \in Of("editor")
                         THEN [win[w] EXCEPT !.st = "shown"] ELSE win[w]]
            /\ UNCHANGED disk
       ELSE LET closed == [w \in Windows |-> IF w \in Of("editor")
                             THEN Destroyed(win[w]) ELSE win[w]]
                d0 == IF Of("editor") = {} THEN Disk
                      ELSE SaveNow(Disk, win[Min(Of("editor"))])
                id == IF prompt \/ Resumed("editor") = 0
                      THEN Min(UnusedIds) ELSE Resumed("editor")
                d1 == IF prompt \/ Resumed("editor") = 0
                      THEN NewEditorSession(d0, id, "edit") ELSE d0
                c  == Recovered("editor", d1.stored[id])
            IN /\ Unused # {}
               /\ (prompt \/ Resumed("editor") = 0) => UnusedIds # {}
               /\ win' = [closed EXCEPT ![Min(Unused)] = NewEditor(id, c)]
               /\ Written(Persist(d1, id, c))

\* ensureQwenLauncher and removeQwenLauncher.
LauncherShown == running

\* The pinned launcher opens the chat, or shows it again.
OpenChat ==
    /\ LauncherShown
    /\ UNCHANGED <<running, restarts, kindBusy, typed, job>>
    /\ IF Of("chat") # {}
       THEN /\ win' = [w \in Windows |-> IF w \in Of("chat")
                         THEN [win[w] EXCEPT !.st = "shown"] ELSE win[w]]
            /\ UNCHANGED disk
       ELSE LET id == IF Resumed("chat") = 0 THEN Min(UnusedIds) ELSE Resumed("chat")
                d  == IF Resumed("chat") = 0
                      THEN NewChatSession(Disk, id) ELSE Disk
                c  == Recovered("chat", d.stored[id])
            IN /\ Unused # {}
               /\ Resumed("chat") = 0 => UnusedIds # {}
               /\ win' = [win EXCEPT ![Min(Unused)] = NewChatWindow(id, c)]
               /\ Written(Persist(d, id, c))

\* The audit of a prompt replaces an open audit.
OpenAudit ==
    /\ running
    /\ Unused # {}
    /\ win' = [w \in Windows |->
                 CASE w = Min(Unused)    -> NewAudit
                   [] w \in Of("audit")  -> Destroyed(win[w])
                   [] OTHER              -> win[w]]
    /\ UNCHANGED <<running, restarts, disk, kindBusy, typed, job>>

\* Close, Escape or a click beside the window hide an editor or a chat (its
\* request goes on) and end an audit.
Close(w) ==
    /\ win[w].st = "shown"
    /\ Written(SaveNow(Disk, win[w]))
    /\ win' = [win EXCEPT ![w] =
                 IF win[w].kind = "audit" THEN Destroyed(@)
                 ELSE [@ EXCEPT !.st = "hidden", !.armed = FALSE]]
    /\ UNCHANGED <<running, restarts, kindBusy, typed, job>>

\* The debounced save.
Timer(w) ==
    /\ Live(w)
    /\ win[w].armed
    /\ Written(SaveNow(Disk, win[w]))
    /\ win' = [win EXCEPT ![w].armed = FALSE]
    /\ UNCHANGED <<running, restarts, kindBusy, typed, job>>

\* Typing is possible while a request runs; it arms the save timer.
Type(w) ==
    /\ win[w].st = "shown"
    /\ typed < MaxRequests
    /\ typed' = typed + 1
    /\ win' = [win EXCEPT ![w].draft = typed + 1,
                          ![w].armed = win[w].kind \in Kept]
    /\ UNCHANGED <<running, restarts, disk, kindBusy, job>>

\* "Use as current prompt" below a reply puts it into the editor's prompt box
\* and says so, also while another request runs.
UseReply(w) ==
    /\ win[w].st = "shown"
    /\ win[w].kind = "editor"
    /\ \E t \in Range(win[w].turns) : t.role = "assistant"
    /\ win' = [win EXCEPT ![w].status = "success", ![w].armed = TRUE]
    /\ UNCHANGED <<running, restarts, disk, kindBusy, typed, job>>

\* Mutant: the busy flags are forgotten.
MaySwitchBusyMutant(w) ==
    /\ win[w].st = "shown"
    /\ win[w].kind \in Kept

\* Another conversation may be loaded or started only while none is asked.
MaySwitch(w) ==
    /\ win[w].st = "shown"
    /\ win[w].kind \in Kept
    /\ ~Busy(w)
    /\ ~kindBusy[win[w].kind]

\* New chat.
NewChat(w) ==
    /\ MaySwitch(w)
    /\ UnusedIds # {}
    /\ LET id == Min(UnusedIds)
           d0 == SaveNow(Disk, win[w])
           d  == IF win[w].kind = "editor" THEN NewEditorSession(d0, id, win[w].mode)
                 ELSE NewChatSession(d0, id)
       IN /\ Written(d)
          /\ win' = [win EXCEPT ![w] = [Shows(@, id, d.stored[id])
                                          EXCEPT !.armed = TRUE]]
    /\ UNCHANGED <<running, restarts, kindBusy, typed, job>>

\* The editor's other tab starts a conversation of the other mode.
SelectMode(w) ==
    /\ MaySwitch(w)
    /\ win[w].kind = "editor"
    /\ UnusedIds # {}
    /\ LET id == Min(UnusedIds)
           m  == CHOOSE x \in Modes : x # win[w].mode
           d  == NewEditorSession(SaveNow(Disk, win[w]), id, m)
       IN /\ Written(d)
          /\ win' = [win EXCEPT ![w] = [Shows(@, id, d.stored[id])
                                          EXCEPT !.armed = TRUE]]
    /\ UNCHANGED <<running, restarts, kindBusy, typed, job>>

\* The conversations the list of a kind shows.
Listed(k) == Range(index[k])

\* A click on a conversation of the list.
LoadSession(w, id) ==
    /\ MaySwitch(w)
    /\ id \in Listed(win[w].kind)
    /\ LET d == SaveNow(Disk, win[w])
           c == d.stored[id]
       IN /\ win' = [win EXCEPT ![w] = Shows(@, id, c)]
          /\ Written(IF win[w].kind = "chat" THEN Persist(d, id, c)
                     ELSE [d EXCEPT !.active = [@ EXCEPT !["editor"] = id]])
    /\ UNCHANGED <<running, restarts, kindBusy, typed, job>>

-----------------------------------------------------------------------------
(* A request *)

\* A request joins messages ms and turns ts, and its window is busy.
Asks(v, ms, ts, size) ==
    [v EXCEPT !.messages = Append(ms, [role |-> "user", n |-> v.draft, size |-> size]),
              !.turns = Append(ts, [role |-> "user", n |-> v.draft]),
              !.draft = 0, !.asked = v.draft, !.status = "working",
              !.pc = "access", !.armed = v.kind \in Kept]

\* Send, after the context was compacted if need be.
EditorAsks(v, size) == Asks(v, Compact("editor", v.messages, size), v.turns, size)
ChatAsks(v, size)   == Asks(v, Compact("chat", v.messages, size), v.turns, size)

\* An audit asks about its prompt alone.  Its question stays in the box, to be
\* asked again, and the answer to an earlier one stays below the box.
AuditAsks(v, size) ==
    [v EXCEPT !.messages = <<[role |-> "user", n |-> v.draft, size |-> size]>>,
              !.asked = v.draft, !.status = "working", !.pc = "access"]

\* The user sends what is typed; an editor's first request carries the prompt.
Submit(w) ==
    LET v == win[w] IN
    /\ v.st = "shown"
    /\ ~Busy(w)
    /\ v.draft # 0
    /\ \E s \in IF v.kind = "editor" /\ v.messages = <<>> THEN FirstSizes
                ELSE RequestSizes[v.kind] :
         win' = [win EXCEPT ![w] = CASE v.kind = "editor" -> EditorAsks(v, s)
                                     [] v.kind = "chat"   -> ChatAsks(v, s)
                                     [] OTHER             -> AuditAsks(v, s)]
    /\ kindBusy' = IF v.kind \in Kept THEN [kindBusy EXCEPT ![v.kind] = TRUE]
                   ELSE kindBusy
    /\ UNCHANGED <<running, restarts, disk, typed, job>>

\* The licence is at hand and the balance suffices, perhaps after a sign-in or
\* a purchase in the browser.
AccessGranted(w) ==
    /\ win[w].pc = "access"
    /\ ~win[w].aborted
    /\ win' = [win EXCEPT ![w].pc = "post"]
    /\ UNCHANGED <<running, restarts, disk, kindBusy, typed, job>>

\* The gateway takes the job under a fresh request id.
Posted(w) ==
    /\ win[w].pc = "post"
    /\ ~win[w].aborted
    /\ win' = [win EXCEPT ![w].pc = "poll"]
    /\ job' = [job EXCEPT ![win[w].asked] = "running"]
    /\ UNCHANGED <<running, restarts, disk, kindBusy, typed>>

\* The gateway's worker thread ends a job.
JobEnds(n) ==
    /\ job[n] = "running"
    /\ \E end \in {"done", "failed"} : job' = [job EXCEPT ![n] = end]
    /\ UNCHANGED <<running, restarts, disk, win, kindBusy, typed>>

\* Mutant: the save is left to the timer, which is cleared.
SettleUnsavedMutant(w, v) ==
    /\ win' = [win EXCEPT ![w] = [v EXCEPT !.pc = "idle", !.armed = FALSE]]
    /\ kindBusy' = IF v.kind \in Kept THEN [kindBusy EXCEPT ![v.kind] = FALSE]
                   ELSE kindBusy
    /\ UNCHANGED <<running, restarts, disk, typed, job>>

\* What the finally block does, after the window became v.
Settle(w, v) ==
    LET free == [v EXCEPT !.pc = "idle", !.armed = FALSE] IN
    /\ win' = [win EXCEPT ![w] = free]
    /\ kindBusy' = IF v.kind \in Kept THEN [kindBusy EXCEPT ![v.kind] = FALSE]
                   ELSE kindBusy
    /\ Written(SaveNow(Disk, free))
    /\ UNCHANGED <<running, restarts, typed, job>>

\* A valid reply joins the conversation, and the context is compacted again.
\* An audit has no conversation: the reply takes the place of its last answer.
Replied(v, s) ==
    LET answer == [role |-> "assistant", n |-> v.asked]
        ms     == Append(v.messages, [role |-> "assistant", n |-> v.asked, size |-> s])
        r      == [v EXCEPT !.asked = 0, !.status = "success"]
    IN IF v.kind = "audit"
       THEN [r EXCEPT !.messages = <<>>, !.turns = <<answer>>]
       ELSE [r EXCEPT !.messages = Compact(v.kind, ms, 0), !.turns = Append(@, answer)]

\* A poll brings the completed job.  (Other polls, and up to three failed ones
\* in a row, leave everything as it was.)
Reply(w) ==
    /\ win[w].pc = "poll"
    /\ ~win[w].aborted
    /\ job[win[w].asked] = "done"
    /\ \E s \in ReplySizes : Settle(w, Replied(win[w], s))

\* A failure takes the request out of the context.  The chat puts it back into
\* the input box; the editor keeps it as an unanswered turn.  An AbortError
\* leaves the status line alone; an abort met while waiting for a modal, for a
\* sign-in or for a payment is an ordinary error.
Withdrawn(v, status) ==
    LET w == [v EXCEPT !.messages = Front(@), !.asked = 0, !.status = status]
    IN IF v.kind = "chat"
       THEN [w EXCEPT !.turns = Front(@), !.draft = v.asked]
       ELSE w

Fail(w) ==
    /\ Busy(w)
    /\ Settle(w, Withdrawn(win[w], IF win[w].aborted /\ win[w].pc \in {"post", "poll"}
                                   THEN win[w].status ELSE "error"))

-----------------------------------------------------------------------------
(* The plugin and Discord *)

\* stop() destroys the windows; each saves its conversation first.
Stop ==
    /\ running
    /\ restarts < MaxRestarts
    /\ running' = FALSE
    /\ restarts' = restarts + 1
    /\ win' = [w \in Windows |-> IF Live(w) THEN Destroyed(win[w]) ELSE win[w]]
    /\ LET d0 == IF Of("editor") = {} THEN Disk
                 ELSE SaveNow(Disk, win[Min(Of("editor"))])
       IN Written(IF Of("chat") = {} THEN d0 ELSE SaveNow(d0, win[Min(Of("chat"))]))
    /\ kindBusy' = [k \in Kept |-> FALSE]
    /\ UNCHANGED <<typed, job>>

Start ==
    /\ ~running
    /\ running' = TRUE
    /\ UNCHANGED <<restarts, disk, win, kindBusy, typed, job>>

\* Discord ends with whatever the windows had not saved.
Crash ==
    /\ restarts < MaxRestarts
    /\ restarts' = restarts + 1
    /\ running' = FALSE
    /\ win' = [w \in Windows |-> IF win[w].st = "none" THEN win[w]
                                 ELSE [NoWindow EXCEPT !.kind = win[w].kind, !.st = "gone"]]
    /\ kindBusy' = [k \in Kept |-> FALSE]
    /\ UNCHANGED <<disk, typed, job>>

Next ==
    \/ \E prompt \in BOOLEAN : OpenEditor(prompt)
    \/ OpenChat
    \/ OpenAudit
    \/ \E w \in Windows :
         \/ Close(w) \/ Timer(w) \/ Type(w) \/ UseReply(w) \/ NewChat(w) \/ SelectMode(w)
         \/ \E id \in Ids : LoadSession(w, id)
         \/ Submit(w) \/ AccessGranted(w) \/ Posted(w)
         \/ Reply(w) \/ Fail(w)
    \/ \E n \in Requests : JobEnds(n)
    \/ Stop \/ Start \/ Crash

Spec == Init /\ [][Next]_vars

-----------------------------------------------------------------------------
(* Properties *)

\* A conversation of the editor or the chat shows an answer only right below
\* the request it answers, whatever was switched, closed or reopened meanwhile.
\* (An audit shows its last answer while the next question is typed, asked or
\* refused.)
AnswersFollow(turns) ==
    \A i \in 1..Len(turns) :
        turns[i].role = "assistant" =>
            /\ i > 1
            /\ turns[i-1] = [role |-> "user", n |-> turns[i].n]

ReplyToAsker ==
    /\ \A id \in Ids : AnswersFollow(stored[id].turns)
    /\ \A w \in Windows : win[w].kind \in Kept => AnswersFollow(win[w].turns)

\* Compaction always succeeds: what a window submits ends with the request and
\* is within the gateway's message limit and the context window, so that
\* requestPromptChat never refuses it as not compacted.
NeverTooLong ==
    \A w \in Windows : Busy(w) =>
        /\ Last(win[w].messages).role = "user"
        /\ Last(win[w].messages).n = win[w].asked
        /\ Fits(win[w].messages)

\* No request of an earlier run of the plugin was under way in conversation id.
Undisturbed(id) ==
    ~ \E w \in Windows : win[w].st = "late" /\ win[w].sess = id

\* What an open window holds is on disk, or the save timer is armed: a crash
\* loses only what was typed, sent or switched to since the timer last fired,
\* which each further keystroke puts off.
Saved ==
    \A w \in Windows :
        /\ Live(w)
        /\ win[w].kind \in Kept
        /\ ~win[w].armed
        /\ Undisturbed(win[w].sess)
        => stored[win[w].sess] = Content(win[w])

Replies(id) == {t.n : t \in {u \in Range(stored[id].turns) : u.role = "assistant"}}

\* It does, at least, where no request of an earlier run can still write.
RepliesStayUndisturbed ==
    [][\A id \in Ids : Undisturbed(id) => Replies(id) \subseteq Replies(id)']_vars
=============================================================================
