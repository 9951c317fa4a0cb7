--------------------------- MODULE RenderPipeline ---------------------------
(***************************************************************************)
(* The render pipeline of crates/barepdf-render: the RenderScheduler the   *)
(* UI thread calls, the three command queues, the worker thread with its   *)
(* open documents and its bitmap cache, the two event queues back to the   *)
(* UI, and the shutdown handshake.                                         *)
(*                                                                         *)
(* Two threads.  The UI thread is uiPc, the worker is pc; a step is what   *)
(* one thread does between two accesses to state the other can change.     *)
(* A document's content is a version number, a bitmap is the version it    *)
(* was drawn from, and a size stands for the width and height of a target  *)
(* (targets of one page and rotation share their proportions).  A panic    *)
(* ends the process (Cargo.toml: panic = "abort"), so a worker stops only  *)
(* where run() returns.                                                    *)
(***************************************************************************)
EXTENDS OpenDocuments, Integers, FiniteSets

CONSTANTS
  Docs,           \* document ids
  Targets,        \* what a render may ask for: page, size, kind, priority
  Calls,          \* the calls the UI makes in this instance
  ControlCap, VisibleCap, LowCap,   \* capacities of the command queues
  CriticalCap, EventCap,            \* capacities of the event queues
  VisibleBurst,   \* visible commands served before a low one gets its turn
  MaxGeneration,  \* bound: generations the UI can reach
  MaxVersion      \* bound: versions a file on disk can reach

CommandTypes == {"open", "close", "shutdown", "render", "text", "query", "search"}
OtherCalls == {"bump", "invert", "stop", "drop"}
Kinds == {"Page", "Thumbnail"}
Priorities == {"Visible", "Low"}

ASSUME PipelineAssumption ==
  /\ IsFiniteSet(Docs)
  /\ Calls \subseteq CommandTypes \cup OtherCalls
  /\ \A t \in Targets : t = [page |-> t.page, size |-> t.size, kind |-> t.kind,
                             priority |-> t.priority]
  /\ \A t \in Targets : t.size \in Nat /\ t.kind \in Kinds /\ t.priority \in Priorities
  /\ {ControlCap, VisibleCap, LowCap, CriticalCap, EventCap} \subseteq Nat \ {0}
  /\ {MaxOpenTabs, VisibleBurst, MaxGeneration, MaxVersion} \subseteq Nat \ {0}

VARIABLES
  queue,              \* the command channels, by lane
  events,             \* the event channels, by lane
  shutdown,           \* a token is in the shutdown channel (capacity 1)
  currentGeneration,  \* shared atomic
  pendingRenders,     \* keys under the shared mutex
  invertColors,       \* shared atomic
  uiPc,               \* where the UI thread is
  uiKey,              \* the key send_command inserts once try_send succeeded
  handle,             \* the scheduler still holds the worker's JoinHandle
  shutdownCalled,     \* history: shutdown() was called
  stoppedReported,    \* history: try_recv_event returned WorkerStopped
  pc,                 \* where the worker thread is
  command,            \* the command the worker is handling
  outgoing,           \* the event the worker is about to emit
  visibleBudget,      \* receive_command's counter
  activeDocs,         \* the worker's open documents, most recent first
  cache,              \* the worker's bitmaps
  fileVersion,        \* content of each document's file on disk
  passedOver          \* history: visible commands served over a waiting low one

uiVars     == <<uiPc, uiKey, handle, shutdownCalled, stoppedReported>>
workerVars == <<pc, command, outgoing, visibleBudget, activeDocs, cache>>
sharedVars == <<shutdown, currentGeneration, pendingRenders, invertColors>>
vars == <<queue, events, sharedVars, uiVars, workerVars, fileVersion, passedOver>>

-----------------------------------------------------------------------------
(* Data *)

Generations == 1..MaxGeneration
Versions    == 1..MaxVersion
Lanes       == {"control", "visible", "low"}
EventLanes  == {"critical", "event"}

None == [type |-> "none"]

Job  == [type : {"render"}, doc : Docs, generation : Generations, target : Targets]
Text == [type : {"text"}, doc : Docs, generation : Generations]
DocumentCommand == [type : {"open", "close", "shutdown", "query", "search"}, doc : Docs]
Command == Job \cup Text \cup DocumentCommand

\* RenderRequestKey: what makes two renders the same work; neither the priority
\* nor the colour inversion is part of it.
Key(job) == [doc |-> job.doc, generation |-> job.generation, page |-> job.target.page,
             size |-> job.target.size, kind |-> job.target.kind]
Pages == {t.page : t \in Targets}
Sizes == {t.size : t \in Targets}
RenderKey == [doc : Docs, generation : Generations, page : Pages, size : Sizes, kind : Kinds]

Bitmap == [doc : Docs, page : Pages, size : Sizes, invert : BOOLEAN, version : Versions]
OpenDoc == [doc : Docs, version : Versions]

\* The command an event answers is part of the model only: the code tells an
\* error of OpenDocument from one of FetchOutline by nothing.
Event ==
       [type : {"page"}, of : {"render"}, key : RenderKey, bitmap : Bitmap]
  \cup [type : {"opened"}, of : {"open"}, doc : Docs, version : Versions]
  \cup [type : {"reply"}, of : {"query", "search", "text"}, doc : Docs, generation : Generations]
  \cup [type : {"error"}, of : CommandTypes, doc : Docs]

LaneOf(c) ==
  IF c.type \in {"open", "close", "shutdown"} THEN "control"
  ELSE IF c.type = "render" /\ c.target.priority = "Visible" THEN "visible"
  ELSE "low"

Capacity == [control |-> ControlCap, visible |-> VisibleCap, low |-> LowCap,
             critical |-> CriticalCap, event |-> EventCap]

-----------------------------------------------------------------------------
(* The worker's bitmaps *)

SameSlot(b, c) == b.doc = c.doc /\ b.page = c.page /\ b.size = c.size /\ b.invert = c.invert

\* BitmapCache::insert: the byte budget may refuse the new bitmap or evict
\* others for it (which ones is BitmapCache.tla's subject).
InsertOutcomes(bitmaps, b) ==
  {bitmaps} \cup {kept \cup {b} : kept \in SUBSET {c \in bitmaps : ~ SameSlot(b, c)}}

-----------------------------------------------------------------------------
Init ==
  /\ queue = [lane \in Lanes |-> <<>>]
  /\ events = [lane \in EventLanes |-> <<>>]
  /\ shutdown = FALSE
  /\ currentGeneration = 1
  /\ pendingRenders = {}
  /\ invertColors = FALSE
  /\ uiPc = "idle" /\ uiKey = None
  /\ handle = TRUE /\ shutdownCalled = FALSE /\ stoppedReported = FALSE
  /\ pc = "pollShutdown" /\ command = None /\ outgoing = None
  /\ visibleBudget = 0
  /\ activeDocs = <<>> /\ cache = {}
  /\ fileVersion = [d \in Docs |-> 1]
  /\ passedOver = 0

-----------------------------------------------------------------------------
(* The UI thread: RenderScheduler *)

Running == pc # "stopped"

\* Mutant: the queue takes one command more than its capacity.
TakesWorkOverCapacity(lane) == Running /\ Len(queue[lane]) <= Capacity[lane]

\* try_send succeeds: the receiver lives and the queue has room.
TakesWork(lane) == Running /\ Len(queue[lane]) < Capacity[lane]

Enqueue(c) ==
  /\ TakesWork(LaneOf(c))
  /\ queue' = [queue EXCEPT ![LaneOf(c)] = Append(@, c)]

\* Mutant: the duplicate check is missing.
SendRenderUnchecked(job) ==
  /\ uiPc = "idle"
  /\ Enqueue(job)
  /\ uiPc' = "insertPending" /\ uiKey' = Key(job)
  /\ UNCHANGED <<events, sharedVars, handle, shutdownCalled, stoppedReported, workerVars,
                 fileVersion, passedOver>>

\* send_command of a render: with the pending set locked, refuse a duplicate,
\* queue the job; the key goes in before the lock is released.
SendRender(job) ==
  /\ uiPc = "idle"
  /\ Key(job) \notin pendingRenders
  /\ Enqueue(job)
  /\ uiPc' = "insertPending" /\ uiKey' = Key(job)
  /\ UNCHANGED <<events, sharedVars, handle, shutdownCalled, stoppedReported, workerVars,
                 fileVersion, passedOver>>

InsertPending ==
  /\ uiPc = "insertPending"
  /\ pendingRenders' = pendingRenders \cup {uiKey}
  /\ uiPc' = "idle" /\ uiKey' = None
  /\ UNCHANGED <<queue, events, shutdown, currentGeneration, invertColors, handle,
                 shutdownCalled, stoppedReported, workerVars, fileVersion, passedOver>>

\* send_command of anything else takes no lock.
SendCommand(c) ==
  /\ uiPc = "idle"
  /\ Enqueue(c)
  /\ UNCHANGED <<events, sharedVars, uiVars, workerVars, fileVersion, passedOver>>

\* Mutant: the old generation's keys stay.
BumpGenerationKeepingKeys ==
  /\ uiPc = "idle" /\ currentGeneration < MaxGeneration
  /\ currentGeneration' = currentGeneration + 1
  /\ UNCHANGED <<queue, events, shutdown, pendingRenders, invertColors, uiVars, workerVars,
                 fileVersion, passedOver>>

BumpGeneration ==
  /\ uiPc = "idle" /\ currentGeneration < MaxGeneration
  /\ currentGeneration' = currentGeneration + 1
  /\ pendingRenders' = {k \in pendingRenders : k.generation = currentGeneration + 1}
  /\ UNCHANGED <<queue, events, shutdown, invertColors, uiVars, workerVars, fileVersion,
                 passedOver>>

SetInvertColors ==
  /\ uiPc = "idle"
  /\ invertColors' = ~ invertColors
  /\ UNCHANGED <<queue, events, shutdown, currentGeneration, pendingRenders, uiVars,
                 workerVars, fileVersion, passedOver>>

\* Mutant: what the critical queue answered is not remembered as disconnected.
PollCriticalForgetful ==
  /\ uiPc = "idle"
  /\ IF events["critical"] # <<>>
     THEN /\ events' = [events EXCEPT !["critical"] = Tail(@)]
          /\ UNCHANGED uiPc
     ELSE uiPc' = "criticalEmpty" /\ UNCHANGED events
  /\ UNCHANGED <<queue, sharedVars, uiKey, handle, shutdownCalled, stoppedReported,
                 workerVars, fileVersion, passedOver>>

\* try_recv_event looks at the critical queue, then at the other one; the
\* worker can run in between.
PollCritical ==
  /\ uiPc = "idle"
  /\ IF events["critical"] # <<>>
     THEN /\ events' = [events EXCEPT !["critical"] = Tail(@)]
          /\ UNCHANGED uiPc
     ELSE /\ uiPc' = IF Running THEN "criticalEmpty" ELSE "criticalClosed"
          /\ UNCHANGED events
  /\ UNCHANGED <<queue, sharedVars, uiKey, handle, shutdownCalled, stoppedReported,
                 workerVars, fileVersion, passedOver>>

\* Mutant: a closed event queue alone counts as the end.
PollEventHasty ==
  /\ uiPc \in {"criticalEmpty", "criticalClosed"}
  /\ uiPc' = "idle"
  /\ IF events["event"] # <<>>
     THEN /\ events' = [events EXCEPT !["event"] = Tail(@)]
          /\ UNCHANGED stoppedReported
     ELSE stoppedReported' = (stoppedReported \/ ~ Running) /\ UNCHANGED events
  /\ UNCHANGED <<queue, sharedVars, uiKey, handle, shutdownCalled, workerVars, fileVersion,
                 passedOver>>

PollEvent ==
  /\ uiPc \in {"criticalEmpty", "criticalClosed"}
  /\ uiPc' = "idle"
  /\ IF events["event"] # <<>>
     THEN /\ events' = [events EXCEPT !["event"] = Tail(@)]
          /\ UNCHANGED stoppedReported
     ELSE /\ stoppedReported' = (stoppedReported \/ (~ Running /\ uiPc = "criticalClosed"))
          /\ UNCHANGED events
  /\ UNCHANGED <<queue, sharedVars, uiKey, handle, shutdownCalled, workerVars, fileVersion,
                 passedOver>>

\* shutdown(): the token goes in (or one is there already), then the caller
\* waits for the worker unless it was joined before.  Drop calls it too.
Shutdown(next) ==
  /\ uiPc = "idle"
  /\ shutdown' = (shutdown \/ Running)
  /\ shutdownCalled' = TRUE
  /\ uiPc' = IF handle THEN next ELSE IF next = "dropping" THEN "gone" ELSE "idle"
  /\ UNCHANGED <<queue, events, currentGeneration, pendingRenders, invertColors, uiKey,
                 handle, stoppedReported, workerVars, fileVersion, passedOver>>

AfterShutdown == uiPc' = IF uiPc = "dropping" THEN "gone" ELSE "idle"

\* The worker said it is done (or its end of the channel is gone): join it.
JoinWorker ==
  /\ uiPc \in {"joining", "dropping"}
  /\ ~ Running
  /\ handle' = FALSE
  /\ AfterShutdown
  /\ UNCHANGED <<queue, events, sharedVars, uiKey, shutdownCalled, stoppedReported,
                 workerVars, fileVersion, passedOver>>

\* recv_timeout gave up; the handle stays for another attempt.
JoinTimeout ==
  /\ uiPc \in {"joining", "dropping"}
  /\ Running
  /\ AfterShutdown
  /\ UNCHANGED <<queue, events, sharedVars, uiKey, handle, shutdownCalled, stoppedReported,
                 workerVars, fileVersion, passedOver>>

-----------------------------------------------------------------------------
(* The worker thread: receive_command *)

\* A try_recv on the shutdown channel finds a token or a closed channel.
StopSeen == shutdown \/ uiPc = "gone"

\* The try_recv that sees the token takes it: no later check will find it.
ConsumeStop == StopSeen /\ shutdown' = FALSE

NoStop == ~ StopSeen /\ UNCHANGED shutdown

PollShutdown ==
  /\ pc = "pollShutdown"
  /\ \/ ConsumeStop /\ pc' = "stopped"
     \/ NoStop /\ pc' = "pollControl"
  /\ UNCHANGED <<queue, events, currentGeneration, pendingRenders, invertColors, uiVars,
                 command, outgoing, visibleBudget, activeDocs, cache, fileVersion, passedOver>>

\* Takes a command from the lane, or goes on to the next poll.
Poll(lane, next) ==
  /\ IF queue[lane] # <<>>
     THEN /\ command' = Head(queue[lane])
          /\ queue' = [queue EXCEPT ![lane] = Tail(@)]
          /\ pc' = Head(queue[lane]).type
     ELSE /\ pc' = next
          /\ UNCHANGED <<command, queue>>
  /\ UNCHANGED <<events, sharedVars, uiVars, outgoing, activeDocs, cache, fileVersion>>

\* Mutant: the low queue never gets the first look.
PollControlAlwaysVisible ==
  /\ pc = "pollControl"
  /\ Poll("control", "pollVisible")
  /\ UNCHANGED <<visibleBudget, passedOver>>

PollControl ==
  /\ pc = "pollControl"
  /\ Poll("control", IF visibleBudget >= VisibleBurst THEN "pollLowFirst" ELSE "pollVisible")
  /\ UNCHANGED <<visibleBudget, passedOver>>

\* The counter saturates at usize::MAX; only "at least VisibleBurst" is ever asked.
PollVisible ==
  /\ pc = "pollVisible"
  /\ Poll("visible", IF visibleBudget >= VisibleBurst THEN "blocked" ELSE "pollLow")
  /\ IF queue["visible"] # <<>>
     THEN /\ visibleBudget' = IF visibleBudget < VisibleBurst THEN visibleBudget + 1
                              ELSE visibleBudget
          /\ passedOver' = IF queue["low"] # <<>> THEN passedOver + 1 ELSE 0
     ELSE UNCHANGED <<visibleBudget, passedOver>>

PollLow ==
  /\ pc \in {"pollLowFirst", "pollLow"}
  /\ Poll("low", IF pc = "pollLowFirst" THEN "pollVisible" ELSE "blocked")
  /\ IF queue["low"] # <<>>
     THEN visibleBudget' = 0 /\ passedOver' = 0
     ELSE UNCHANGED <<visibleBudget, passedOver>>

\* Mutant: the select leaves the control queue out.
WakeWithoutControl ==
  /\ pc = "blocked"
  /\ StopSeen \/ \E lane \in {"visible", "low"} : queue[lane] # <<>>
  /\ pc' = "pollShutdown"
  /\ UNCHANGED <<queue, events, sharedVars, uiVars, command, outgoing, visibleBudget,
                 activeDocs, cache, fileVersion, passedOver>>

\* Select::ready over the shutdown channel and the three queues.
Wake ==
  /\ pc = "blocked"
  /\ StopSeen \/ \E lane \in Lanes : queue[lane] # <<>>
  /\ pc' = "pollShutdown"
  /\ UNCHANGED <<queue, events, sharedVars, uiVars, command, outgoing, visibleBudget,
                 activeDocs, cache, fileVersion, passedOver>>

-----------------------------------------------------------------------------
(* The worker thread: handle_command *)

\* Mutant: render_page returns without removing its key.
ReturnWithKey(continue) ==
  /\ outgoing' = None
  /\ pc' = IF continue THEN "pollShutdown" ELSE "stopped"
  /\ command' = None

\* A handler returns: true goes on with the next command, false ends run().
\* render_page still has its key to remove.
Return(continue) ==
  /\ outgoing' = None
  /\ IF command.type = "render"
     THEN /\ pc' = IF continue THEN "unpend" ELSE "unpendAndStop"
          /\ UNCHANGED command
     ELSE /\ pc' = IF continue THEN "pollShutdown" ELSE "stopped"
          /\ command' = None

Emit(e, how) == outgoing' = e /\ pc' = how /\ UNCHANGED command

Failed == Emit([type |-> "error", of |-> command.type, doc |-> command.doc], "emitCritical")

Stale == command.generation # currentGeneration

OpenDocument ==
  /\ pc = "open"
  /\ \/ LET version == fileVersion[command.doc]
        IN  /\ activeDocs' = Put(activeDocs, [doc |-> command.doc, version |-> version])
            /\ Emit([type |-> "opened", of |-> "open", doc |-> command.doc, version |-> version],
                    "emitCritical")
     \/ Failed /\ UNCHANGED activeDocs
  /\ UNCHANGED <<queue, events, sharedVars, uiVars, visibleBudget, cache, fileVersion,
                 passedOver>>

\* Mutant: the bitmaps of a closed document stay.
CloseDocumentKeepingBitmaps ==
  /\ pc = "close"
  /\ activeDocs' = Without(activeDocs, command.doc)
  /\ Return(TRUE)
  /\ UNCHANGED <<queue, events, sharedVars, uiVars, visibleBudget, cache, fileVersion,
                 passedOver>>

CloseDocument ==
  /\ pc = "close"
  /\ activeDocs' = Without(activeDocs, command.doc)
  /\ cache' = {b \in cache : b.doc # command.doc}
  /\ Return(TRUE)
  /\ UNCHANGED <<queue, events, sharedVars, uiVars, visibleBudget, fileVersion, passedOver>>

ShutdownCommand ==
  /\ pc = "shutdown"
  /\ Return(FALSE)
  /\ UNCHANGED <<queue, events, sharedVars, uiVars, visibleBudget, activeDocs, cache,
                 fileVersion, passedOver>>

RenderPage ==
  /\ pc = "render"
  /\ IF Stale THEN Return(TRUE)
     ELSE pc' = "lookup" /\ UNCHANGED <<command, outgoing>>
  /\ UNCHANGED <<queue, events, sharedVars, uiVars, visibleBudget, activeDocs, cache,
                 fileVersion, passedOver>>

Slot(job) == [doc |-> job.doc, page |-> job.target.page, size |-> job.target.size,
              invert |-> invertColors]

PageEvent(job, b) == [type |-> "page", of |-> "render", key |-> Key(job), bitmap |-> b]

\* The bitmap of exactly this target, else any larger one of the page.
Hits(slot) ==
  LET exact == {b \in cache : SameSlot(b, slot)}
  IN  IF exact # {} THEN exact
      ELSE {b \in cache : SameSlot([b EXCEPT !.size = slot.size], slot) /\ b.size >= slot.size}

LookUp ==
  /\ pc = "lookup"
  /\ LET slot == Slot(command) IN
     IF Hits(slot) # {}
     THEN /\ \E b \in Hits(slot) : Emit(PageEvent(command, b), "emit")
          /\ UNCHANGED activeDocs
     ELSE IF IsOpen(activeDocs, command.doc)
     THEN /\ Emit(PageEvent(command,
                            [doc |-> slot.doc, page |-> slot.page, size |-> slot.size,
                             invert |-> slot.invert,
                             version |-> EntryOf(activeDocs, command.doc).version]), "draw")
          /\ activeDocs' = Touched(activeDocs, command.doc)
     ELSE Return(TRUE) /\ UNCHANGED activeDocs
  /\ UNCHANGED <<queue, events, sharedVars, uiVars, visibleBudget, cache, fileVersion,
                 passedOver>>

\* PDFium draws the page while the UI runs on.
Draw ==
  /\ pc = "draw"
  /\ Emit(outgoing, "keep") \/ Failed
  /\ UNCHANGED <<queue, events, sharedVars, uiVars, visibleBudget, activeDocs, cache,
                 fileVersion, passedOver>>

Keep ==
  /\ pc = "keep"
  /\ \/ ConsumeStop /\ Return(FALSE) /\ UNCHANGED cache
     \/ NoStop /\ Emit(outgoing, "emit") /\ cache' \in InsertOutcomes(cache, outgoing.bitmap)
  /\ UNCHANGED <<queue, events, currentGeneration, pendingRenders, invertColors, uiVars,
                 visibleBudget, activeDocs, fileVersion, passedOver>>

\* Mutant: the key is removed while send_command still holds the lock.
UnpendUnlocked ==
  /\ pc \in {"unpend", "unpendAndStop"}
  /\ pendingRenders' = pendingRenders \ {Key(command)}
  /\ pc' = IF pc = "unpend" THEN "pollShutdown" ELSE "stopped"
  /\ command' = None
  /\ UNCHANGED <<queue, events, shutdown, currentGeneration, invertColors, uiVars, outgoing,
                 visibleBudget, activeDocs, cache, fileVersion, passedOver>>

\* render_page: remove the key, once the lock is free.
Unpend ==
  /\ pc \in {"unpend", "unpendAndStop"}
  /\ uiPc # "insertPending"
  /\ pendingRenders' = pendingRenders \ {Key(command)}
  /\ pc' = IF pc = "unpend" THEN "pollShutdown" ELSE "stopped"
  /\ command' = None
  /\ UNCHANGED <<queue, events, shutdown, currentGeneration, invertColors, uiVars, outgoing,
                 visibleBudget, activeDocs, cache, fileVersion, passedOver>>

\* ExtractText, FetchTextGeometry: dropped if stale; the answer is lossy.
FetchText ==
  /\ pc = "text"
  /\ IF Stale \/ ~ IsOpen(activeDocs, command.doc)
     THEN Return(TRUE)
     ELSE \/ Emit([type |-> "reply", of |-> "text", doc |-> command.doc,
                   generation |-> command.generation], "emit")
          \/ Failed
  /\ activeDocs' = IF Stale THEN activeDocs ELSE Touched(activeDocs, command.doc)
  /\ UNCHANGED <<queue, events, sharedVars, uiVars, visibleBudget, cache, fileVersion,
                 passedOver>>

\* FetchOutline, FetchPageDimensions carry no generation; SearchDocument goes
\* page by page unless its query is empty.
QueryDocument ==
  /\ pc \in {"query", "search"}
  /\ LET reply == [type |-> "reply", of |-> command.type, doc |-> command.doc,
                   generation |-> currentGeneration] IN
     IF IsOpen(activeDocs, command.doc)
     THEN \/ Emit(reply, "emitCritical")
          \/ pc = "search" /\ Emit(reply, "searchPage")
          \/ Failed
     ELSE Return(TRUE)
  /\ activeDocs' = Touched(activeDocs, command.doc)
  /\ UNCHANGED <<queue, events, sharedVars, uiVars, visibleBudget, cache, fileVersion,
                 passedOver>>

\* Before each page: stop if told to, give up if the generation moved on since
\* the search began.  A page that is not the last one is a stuttering step.
SearchPage ==
  /\ pc = "searchPage"
  /\ \/ ConsumeStop /\ Return(FALSE)
     \/ NoStop /\ outgoing.generation # currentGeneration /\ Return(TRUE)
     \/ NoStop /\ outgoing.generation = currentGeneration /\ Emit(outgoing, "emitCritical")
  /\ UNCHANGED <<queue, events, currentGeneration, pendingRenders, invertColors, uiVars,
                 visibleBudget, activeDocs, cache, fileVersion, passedOver>>

-----------------------------------------------------------------------------
(* The worker thread: emitting events *)

HasRoom(lane) == Len(events[lane]) < Capacity[lane]
Push(lane) == events' = [events EXCEPT ![lane] = Append(@, outgoing)]

IsPage(e) == e.type = "page" /\ e.key.kind = "Page"

\* Mutant: the check takes the token and the worker goes on.
EmitEventForgetsToken ==
  /\ pc = "emit"
  /\ \/ ConsumeStop /\ Return(TRUE) /\ UNCHANGED events
     \/ NoStop /\ HasRoom("event") /\ Push("event") /\ Return(TRUE)
     \/ /\ NoStop /\ ~ HasRoom("event") /\ UNCHANGED events
        /\ IF IsPage(outgoing) THEN Emit(outgoing, "emitCritical") ELSE Return(TRUE)
  /\ UNCHANGED <<queue, currentGeneration, pendingRenders, invertColors, uiVars,
                 visibleBudget, activeDocs, cache, fileVersion, passedOver>>

\* emit_rendered and emit_lossy_event: when the queue is full a page takes the
\* critical queue, anything else is dropped.  A token that arrives after the
\* check leaves the send as it is, so both are one step.
EmitEvent ==
  /\ pc = "emit"
  /\ \/ ConsumeStop /\ Return(FALSE) /\ UNCHANGED events
     \/ NoStop /\ HasRoom("event") /\ Push("event") /\ Return(TRUE)
     \/ /\ NoStop /\ ~ HasRoom("event") /\ UNCHANGED events
        /\ IF IsPage(outgoing) THEN Emit(outgoing, "emitCritical") ELSE Return(TRUE)
  /\ UNCHANGED <<queue, currentGeneration, pendingRenders, invertColors, uiVars,
                 visibleBudget, activeDocs, cache, fileVersion, passedOver>>

\* emit_critical: a check, then a select between the send and the token.
EmitCritical ==
  /\ pc = "emitCritical"
  /\ \/ ConsumeStop /\ Return(FALSE)
     \/ NoStop /\ Emit(outgoing, "sendCritical")
  /\ UNCHANGED <<queue, events, currentGeneration, pendingRenders, invertColors, uiVars,
                 visibleBudget, activeDocs, cache, fileVersion, passedOver>>

\* Mutant: a full critical queue drops the event.
SendCriticalLossy ==
  /\ pc = "sendCritical"
  /\ IF HasRoom("critical") THEN Push("critical") ELSE UNCHANGED events
  /\ Return(TRUE)
  /\ UNCHANGED <<queue, sharedVars, uiVars, visibleBudget, activeDocs, cache, fileVersion,
                 passedOver>>

\* Mutant: a plain blocking send instead of the select.
SendCriticalBlocking ==
  /\ pc = "sendCritical"
  /\ uiPc # "gone" /\ HasRoom("critical")
  /\ Push("critical") /\ Return(TRUE)
  /\ UNCHANGED <<queue, sharedVars, uiVars, visibleBudget, activeDocs, cache, fileVersion,
                 passedOver>>

SendCritical ==
  /\ pc = "sendCritical"
  /\ \/ ConsumeStop /\ Return(FALSE) /\ UNCHANGED events
     \/ /\ uiPc # "gone" /\ HasRoom("critical")
        /\ Push("critical") /\ Return(TRUE) /\ UNCHANGED shutdown
  /\ UNCHANGED <<queue, currentGeneration, pendingRenders, invertColors, uiVars,
                 visibleBudget, activeDocs, cache, fileVersion, passedOver>>

-----------------------------------------------------------------------------
\* Another program writes the file.
FileChanged(d) ==
  /\ fileVersion[d] < MaxVersion
  /\ fileVersion' = [fileVersion EXCEPT ![d] = @ + 1]
  /\ UNCHANGED <<queue, events, sharedVars, uiVars, workerVars, passedOver>>

\* The UI asks with the generation that is current when it asks.
UiSends ==
  \/ /\ "render" \in Calls
     /\ \E d \in Docs, t \in Targets :
          SendRender([type |-> "render", doc |-> d, generation |-> currentGeneration,
                      target |-> t])
  \/ /\ "text" \in Calls
     /\ \E d \in Docs :
          SendCommand([type |-> "text", doc |-> d, generation |-> currentGeneration])
  \/ \E type \in (Calls \cap CommandTypes) \ {"render", "text"}, d \in Docs :
       SendCommand([type |-> type, doc |-> d])

UiNext ==
  \/ UiSends
  \/ InsertPending
  \/ "bump" \in Calls /\ BumpGeneration
  \/ "invert" \in Calls /\ SetInvertColors
  \/ PollCritical \/ PollEvent
  \/ "stop" \in Calls /\ Shutdown("joining")
  \/ "drop" \in Calls /\ Shutdown("dropping")
  \/ JoinWorker \/ JoinTimeout

WorkerNext ==
  \/ PollShutdown \/ PollControl \/ PollVisible \/ PollLow \/ Wake
  \/ OpenDocument \/ CloseDocument \/ ShutdownCommand
  \/ RenderPage \/ LookUp \/ Draw \/ Keep \/ Unpend
  \/ FetchText \/ QueryDocument \/ SearchPage
  \/ EmitEvent \/ EmitCritical \/ SendCritical

Next == UiNext \/ WorkerNext \/ \E d \in Docs : FileChanged(d)

Spec == Init /\ [][Next]_vars

\* The operating system schedules both threads, PDFium's calls return, and the
\* pending set's lock is held for two statements only.
FairSpec == Spec /\ WF_vars(WorkerNext) /\ WF_vars(InsertPending)

\* The event pump's timer keeps firing between the UI's other callbacks (strong
\* fairness: each of those disables a poll for its duration), a poll once begun
\* is completed and a wait for a stopped worker ends.
UiPolls == SF_vars(PollCritical) /\ WF_vars(PollEvent) /\ WF_vars(JoinWorker)

-----------------------------------------------------------------------------
(* Properties *)

ReceivePcs  == {"pollShutdown", "pollControl", "pollLowFirst", "pollVisible", "pollLow", "blocked"}
HandlerPcs  == {"open", "close", "shutdown", "render", "text", "query", "search"}
RenderPcs   == {"lookup", "draw", "keep", "unpend", "unpendAndStop"}
EmittingPcs == {"emit", "emitCritical", "sendCritical", "searchPage"}
UiPcs == {"idle", "insertPending", "criticalEmpty", "criticalClosed", "joining", "dropping",
          "gone"}

ChannelsOK ==
  /\ queue \in [Lanes -> Seq(Command)]
  /\ events \in [EventLanes -> Seq(Event)]
  /\ \A lane \in Lanes : Len(queue[lane]) <= Capacity[lane]
  /\ \A lane \in EventLanes : Len(events[lane]) <= Capacity[lane]

SchedulerOK ==
  /\ shutdown \in BOOLEAN /\ invertColors \in BOOLEAN
  /\ currentGeneration \in Generations
  /\ pendingRenders \subseteq RenderKey
  /\ uiPc \in UiPcs
  /\ uiKey \in IF uiPc = "insertPending" THEN RenderKey ELSE {None}
  /\ handle \in BOOLEAN /\ shutdownCalled \in BOOLEAN /\ stoppedReported \in BOOLEAN

\* What the worker has in hand where.
InHandOK ==
  /\ pc \in ReceivePcs \cup HandlerPcs \cup RenderPcs \cup EmittingPcs \cup {"stopped"}
  /\ pc \in ReceivePcs \cup {"stopped"} => command = None /\ outgoing = None
  /\ pc \in HandlerPcs => command \in Command /\ command.type = pc /\ outgoing = None
  /\ pc \in RenderPcs => command \in Job
  /\ pc \in {"lookup", "unpend", "unpendAndStop"} => outgoing = None
  /\ pc \in {"draw", "keep"} => outgoing \in Event /\ outgoing.type = "page"
  /\ pc \in EmittingPcs => command \in Command /\ outgoing \in Event

DocumentsOK ==
  /\ activeDocs \in Seq(OpenDoc) /\ Len(activeDocs) <= MaxOpenTabs
  /\ cache \subseteq Bitmap
  /\ fileVersion \in [Docs -> Versions]

CountersOK == visibleBudget \in 0..VisibleBurst /\ passedOver \in Nat

\* No queue is over its capacity, no more documents are open than tabs are
\* allowed, and the worker has the command and the event that belong to the
\* point of the handler it has reached.
TypeOK == ChannelsOK /\ SchedulerOK /\ InHandOK /\ DocumentsOK /\ CountersOK

\* Where a render that is still to be done can be: <<lane, position>>, or in
\* the worker's hands.
Places == ({"visible"} \X DOMAIN queue["visible"]) \cup ({"low"} \X DOMAIN queue["low"])
            \cup {<<"worker", 1>>}
At(p) == IF p[1] = "worker" THEN command ELSE queue[p[1]][p[2]]
IsScheduledAt(p, k) == At(p).type = "render" /\ Key(At(p)) = k

\* The duplicate check never blocks a page for good: a key stays in the pending
\* set only while its job waits in a queue or is being rendered (send_command
\* refuses a key in the set, so a stale key would leave that page blank).
PendingIsScheduled ==
  Running => \A k \in pendingRenders : \E p \in Places : IsScheduledAt(p, k)

\* Deduplication works: outside the moment of insertion, a job of the current
\* generation that waits or runs has its key in the set, and no second job has
\* the same key.
NoDuplicateRender ==
  \A p \in Places :
    LET k == Key(At(p)) IN
    (At(p).type = "render" /\ At(p).generation = currentGeneration /\ Running) =>
       /\ k \in pendingRenders \cup {uiKey}
       /\ \A q \in Places : IsScheduledAt(q, k) => q = p

\* bump_generation leaves no key of an older viewport behind, and none comes
\* back later.
PendingIsCurrent == \A k \in pendingRenders : k.generation = currentGeneration

\* Whichever of its seven checks takes the token, the worker is on its way out:
\* a token that was taken and forgotten would leave shutdown() to time out and
\* the process with a live PDFium thread.
ShutdownIsHeeded ==
  shutdownCalled /\ Running => StopSeen \/ pc = "unpendAndStop"

\* WorkerStopped is reported "after all queued events were received", although
\* the two queues are looked at one after the other.
StoppedMeansDrained ==
  stoppedReported => \A lane \in EventLanes : events[lane] = <<>>

\* Visible work is preferred, but no background command is passed over by more
\* than VISIBLE_BURST visible ones, whenever it arrives between two polls.
LowIsNotStarved == passedOver <= VisibleBurst

\* Closing a document frees its bitmaps: the cache holds bitmaps of open
\* documents only, as long as the app keeps to its limit of open tabs.
CachedDocumentsAreOpen ==
  Cardinality(Docs) <= MaxOpenTabs => \A b \in cache : IsOpen(activeDocs, b.doc)

\* shutdown() always ends the worker, whatever it is doing and even if nobody
\* takes events off a full queue any more.
ShutdownStopsWorker == shutdownCalled ~> ~ Running

\* A UI that keeps polling is told that the worker stopped.
StopIsReported == UiPolls => (~ Running ~> (stoppedReported \/ uiPc = "gone"))

\* Every render that was accepted is settled (drawn, failed or dropped as stale)
\* so that it can be asked for again, provided control commands do not keep
\* coming: they have priority without a limit.
RenderIsSettled ==
  UiPolls /\ <>[](queue["control"] = <<>>)
    => \A k \in RenderKey : k \in pendingRenders ~> (k \notin pendingRenders \/ ~ Running)
=============================================================================
