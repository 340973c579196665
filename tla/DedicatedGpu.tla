---------------------------- MODULE DedicatedGpu ----------------------------
(***************************************************************************)
(* The dedicated GPU of the gateway (remote-gateway/app.py): one llama.cpp *)
(* router, which holds one model at a time, behind one asyncio.Lock that   *)
(* image analyses, prompt chats and Open WebUI's completions share.        *)
(*                                                                         *)
(* A caller is one client that sends its next request after the last one   *)
(* ended.  Images and chats await _dedicated_completion; a chat holds      *)
(* _prompt_chat_lock around it.  A streamed completion is opened by        *)
(* _dedicated_completion_stream, which hands its lock to the generator it  *)
(* returns: Starlette's StreamingResponse runs the generator, and gives    *)
(* the lock back in the generator's finally clause.                        *)
(*                                                                         *)
(* External, modelled from how the code uses it: asyncio.Lock (a release   *)
(* frees the lock and wakes the first waiter; whoever comes while somebody *)
(* waits queues behind), the worker's answers, and Starlette's             *)
(* cancellation: when the client of a stream is gone it cancels the        *)
(* generator's task, and cancels it again at every later await until the   *)
(* task is over.  Handlers that have not returned are never cancelled.     *)
(*                                                                         *)
(* LockInit, LockNext, ... are named so that one module, GpuProof, can     *)
(* speak of this lock and of SharedGpu.                                    *)
(***************************************************************************)
EXTENDS Naturals, Sequences, FiniteSets

CONSTANTS
    Image,      \* clients that submit images
    Chat,       \* clients of the prompt editor
    Stream,     \* clients of Open WebUI that ask for a streamed completion
    NoCaller    \* nobody holds the lock

Caller == Image \cup Chat \cup Stream

ASSUME CallersAreFinite ==
    /\ IsFiniteSet(Caller)
    /\ NoCaller \notin Caller
    /\ Chat \cap (Image \cup Stream) = {}
    /\ Image \cap Stream = {}

VARIABLES
    at,           \* where the request of a caller is
    gone,         \* streaming clients that have disconnected
    holder,       \* who holds _dedicated_inference_lock
    waiters,      \* who waits for it, in order
    chatHolder,   \* who holds _prompt_chat_lock
    chatWaiters,  \* who waits for that, in order
    depth         \* _dedicated_queue_depth

lockVars == <<at, gone, holder, waiters, chatHolder, chatWaiters, depth>>

(***************************************************************************)
(* The places a request passes.  "reading" and "sending" are the generator *)
(* awaiting the worker's next chunk and suspended at a yield; a "document" *)
(* is a plain JSON answer sent as one event.  "closing" awaits the         *)
(* response's close in the cancelled task, "finalizing" in a task of its   *)
(* own (asyncio's finalizer of a dropped generator), "failing" in the      *)
(* except clause.  "abandoned": the task is over and released nothing.     *)
(***************************************************************************)
Stage == {"idle", "chatting", "waiting", "asking", "opening", "reading",
          "sending", "document", "closing", "finalizing", "failing", "abandoned"}

(* Requests the worker has open: from the call to the close.               *)
AtWorker(c) == at[c] \in {"asking", "opening", "reading", "sending", "document",
                          "closing", "finalizing", "failing"}

LockInit ==
    /\ at = [c \in Caller |-> "idle"]
    /\ gone = {}
    /\ holder = NoCaller
    /\ waiters = <<>>
    /\ chatHolder = NoCaller
    /\ chatWaiters = <<>>
    /\ depth = 0

----------------------------------------------------------------------------
(* The dedicated lock.                                                     *)

Corrected == IF depth > 0 THEN depth - 1 ELSE 0

Begun(c) == IF c \in Stream THEN "opening" ELSE "asking"

(* A request takes the lock if it is free and nobody waits, and queues     *)
(* otherwise: there is no await between the count and the lock.            *)
Enter(c) ==
    /\ depth' = depth + 1
    /\ \/ /\ holder = NoCaller
          /\ waiters = <<>>
          /\ holder' = c
          /\ at' = [at EXCEPT ![c] = Begun(c)]
          /\ UNCHANGED waiters
       \/ /\ holder # NoCaller \/ waiters # <<>>
          /\ waiters' = Append(waiters, c)
          /\ at' = [at EXCEPT ![c] = "waiting"]
          /\ UNCHANGED holder

(* The first waiter, woken by a release, resumes.                          *)
Resume(c) ==
    /\ holder = NoCaller
    /\ waiters # <<>>
    /\ c = Head(waiters)
    /\ holder' = c
    /\ waiters' = Tail(waiters)
    /\ at' = [at EXCEPT ![c] = Begun(c)]
    /\ UNCHANGED <<gone, chatHolder, chatWaiters, depth>>

(* The request is over: the lock is free, the depth corrected, and the     *)
(* client may ask again.                                                   *)
Leave(c) ==
    /\ holder' = NoCaller
    /\ depth' = Corrected
    /\ at' = [at EXCEPT ![c] = "idle"]
    /\ gone' = gone \ {c}
    /\ UNCHANGED waiters

----------------------------------------------------------------------------
(* Images, and streams up to their headers.                                *)

Request(c) ==
    /\ c \in Image \cup Stream
    /\ at[c] = "idle"
    /\ Enter(c)
    /\ UNCHANGED <<gone, chatHolder, chatWaiters>>

(* The worker's document, its refusal or the time-out of the call.         *)
Answer(c) ==
    /\ c \in Image
    /\ at[c] = "asking"
    /\ Leave(c)
    /\ UNCHANGED <<chatHolder, chatWaiters>>

----------------------------------------------------------------------------
(* Prompt chats, one at a time.                                            *)

(* The chat lock is free: the chat goes on to the dedicated lock at once.  *)
StartChat(c) ==
    /\ c \in Chat
    /\ at[c] = "idle"
    /\ \/ /\ chatHolder = NoCaller
          /\ chatWaiters = <<>>
          /\ chatHolder' = c
          /\ Enter(c)
          /\ UNCHANGED chatWaiters
       \/ /\ chatHolder # NoCaller \/ chatWaiters # <<>>
          /\ chatWaiters' = Append(chatWaiters, c)
          /\ at' = [at EXCEPT ![c] = "chatting"]
          /\ UNCHANGED <<chatHolder, holder, waiters, depth>>
    /\ UNCHANGED gone

ResumeChat(c) ==
    /\ chatHolder = NoCaller
    /\ chatWaiters # <<>>
    /\ c = Head(chatWaiters)
    /\ chatHolder' = c
    /\ chatWaiters' = Tail(chatWaiters)
    /\ Enter(c)
    /\ UNCHANGED gone

(* A chat that keeps its lock when the completion raises.                  *)
AnswerChatLockedMutant(c) ==
    /\ c \in Chat
    /\ at[c] = "asking"
    /\ Leave(c)
    /\ chatHolder' \in {NoCaller, chatHolder}
    /\ UNCHANGED chatWaiters

(* The completion returns or raises; both locks are released before the    *)
(* chat's task awaits again.                                               *)
AnswerChat(c) ==
    /\ c \in Chat
    /\ at[c] = "asking"
    /\ Leave(c)
    /\ chatHolder' = NoCaller
    /\ UNCHANGED chatWaiters

----------------------------------------------------------------------------
(* Streams.                                                                *)

Move(c, from, to) ==
    /\ c \in Stream
    /\ at[c] = from
    /\ at' = [at EXCEPT ![c] = to]
    /\ UNCHANGED <<gone, holder, waiters, chatHolder, chatWaiters, depth>>

(* The worker cannot be reached: there is no response to close.            *)
OpenRaises(c) ==
    /\ c \in Stream
    /\ at[c] = "opening"
    /\ Leave(c)
    /\ UNCHANGED <<chatHolder, chatWaiters>>

(* The worker answers with an error or with no completion: the response is *)
(* closed and the lock released before the error is raised.                *)
OpenRefused(c) == Move(c, "opening", "failing")

StreamFails(c) ==
    /\ at[c] = "failing"
    /\ Leave(c)
    /\ UNCHANGED <<chatHolder, chatWaiters>>

(* The lock given back by "async with" when the generator is returned.     *)
OpenEventsUnlockedMutant(c) ==
    /\ c \in Stream
    /\ at[c] = "opening"
    /\ at' = [at EXCEPT ![c] = "reading"]
    /\ holder' = NoCaller
    /\ UNCHANGED <<gone, waiters, chatHolder, chatWaiters, depth>>

(* The worker answers with events, or with a plain document.               *)
OpenEvents(c) == Move(c, "opening", "reading")
OpenDocument(c) == Move(c, "opening", "document")

Chunk(c) == Move(c, "reading", "sending")
Sent(c) == Move(c, "sending", "reading")

(* The last chunk, an error of the worker, or the document's second event. *)
StreamEnds(c) == Move(c, "reading", "closing")
DocumentEnds(c) == Move(c, "document", "closing")

(* The client closes its connection.                                       *)
Disconnect(c) ==
    /\ c \in Stream \ gone
    /\ at[c] \notin {"idle", "abandoned"}
    /\ gone' = gone \cup {c}
    /\ UNCHANGED <<at, holder, waiters, chatHolder, chatWaiters, depth>>

(* The cancellation reaches the generator where it awaits the worker: the  *)
(* finally clause runs in the cancelled task.                              *)
CancelRead(c) ==
    /\ c \in gone
    /\ Move(c, "reading", "closing")

(* The cancellation reaches the response where it sends a chunk: the       *)
(* generator is dropped at its yield and finalized by a task of its own.   *)
CancelSend(c) ==
    /\ c \in gone
    /\ Move(c, "sending", "finalizing") \/ Move(c, "document", "finalizing")

(* The finally clause: close, then release, then the depth.                *)
Close(c) ==
    /\ at[c] \in {"closing", "finalizing"}
    /\ Leave(c)
    /\ UNCHANGED <<chatHolder, chatWaiters>>

(* The task is cancelled again while it awaits the close: what follows the *)
(* await in the finally clause is skipped.                                 *)
CancelClose(c) ==
    /\ c \in gone
    /\ Move(c, "closing", "abandoned")

----------------------------------------------------------------------------
Serve(c) ==
    \/ Resume(c) \/ ResumeChat(c) \/ Answer(c) \/ AnswerChat(c)
    \/ OpenRaises(c) \/ OpenRefused(c) \/ OpenEvents(c) \/ OpenDocument(c)
    \/ StreamFails(c) \/ Chunk(c) \/ Sent(c) \/ StreamEnds(c) \/ DocumentEnds(c)
    \/ CancelRead(c) \/ CancelSend(c) \/ Close(c) \/ CancelClose(c)

LockNext ==
    \E c \in Caller :
        Request(c) \/ StartChat(c) \/ Disconnect(c) \/ Serve(c)

(* Every request of the worker ends, by its answer or by the time-out of   *)
(* the HTTP call, and a completion has finitely many chunks.               *)
LockSpec ==
    /\ LockInit
    /\ [][LockNext]_lockVars
    /\ \A c \in Caller : WF_lockVars(Serve(c)) /\ SF_lockVars(StreamEnds(c))

----------------------------------------------------------------------------
(* The queues hold distinct callers that are where they are said to wait,  *)
(* and the holders are not among them.                                     *)
LockTypeOK ==
    /\ at \in [Caller -> Stage]
    /\ gone \subseteq Stream
    /\ holder \in Caller \cup {NoCaller}
    /\ chatHolder \in Chat \cup {NoCaller}
    /\ waiters \in Seq(Caller)
    /\ chatWaiters \in Seq(Chat)
    /\ depth \in Nat

(* The lock is held by exactly the request the worker has open, or by one  *)
(* that was abandoned there.                                               *)
HeldByTheServed ==
    \A c \in Caller : (AtWorker(c) \/ at[c] = "abandoned") <=> holder = c

(* Requests that were counted in and are not yet over.                     *)
Counted == {c \in Caller : at[c] \notin {"idle", "chatting"}}

DepthCounts == depth = Cardinality(Counted)

(***************************************************************************)
(* Two models are never loaded at once, and each request is counted in and *)
(* out of the queue once, whichever way a streamed completion ends: the    *)
(* lock is held by exactly the request the worker has open or by one       *)
(* abandoned there, and the queue depth the gateway reports is the number  *)
(* of requests that wait or are served (app.py:405-412, 428, 470-506).     *)
(***************************************************************************)
LockCoversService == HeldByTheServed /\ DepthCounts

(***************************************************************************)
(* Unless a stream is abandoned, every request that waits for the GPU or   *)
(* for the chat lock is answered: the two locks never wait for each other, *)
(* and no way out of a completion keeps one.                               *)
(***************************************************************************)
ClientsServed ==
    [](\A c \in Caller : at[c] # "abandoned") =>
        \A c \in Caller : at[c] \in {"chatting", "waiting"} ~> at[c] = "idle"

=============================================================================
