------------------------ MODULE RenderPipelineProofs ------------------------
(* What holds of the render pipeline for all documents, targets, queue       *)
(* capacities and bursts.                                                    *)
EXTENDS RenderPipelineOpens, OpenDocumentsProofs, SequenceLemmas, FiniteSetTheorems

-----------------------------------------------------------------------------
(* Types *)

LEMMA CapacityType ==
  ASSUME PipelineAssumption
  PROVE  \A lane \in Lanes \cup EventLanes : Capacity[lane] \in Nat \ {0}
BY DEF PipelineAssumption, Capacity, Lanes, EventLanes

\* A command the UI can issue, its lane, and what identifies a render.
LEMMA JobType ==
  ASSUME NEW job \in Job, PipelineAssumption
  PROVE  /\ job \in Command /\ job.type = "render" /\ Key(job) \in RenderKey
         /\ job.doc \in Docs /\ job.target \in Targets /\ job.generation \in Generations
         /\ job.target.page \in Pages /\ job.target.size \in Sizes
BY DEF Job, Command, Key, RenderKey, Pages, Sizes, PipelineAssumption

LEMMA LaneType == \A c : LaneOf(c) \in Lanes
BY DEF LaneOf, Lanes

LEMMA ConstantsType ==
  ASSUME PipelineAssumption
  PROVE  /\ MaxVersion \in Nat \ {0} /\ MaxGeneration \in Nat \ {0}
         /\ VisibleBurst \in Nat \ {0} /\ MaxOpenTabs \in Nat \ {0}
BY DEF PipelineAssumption

\* A command of type render is a job.
LEMMA RenderIsJob ==
  ASSUME NEW c \in Command, c.type = "render"
  PROVE  c \in Job
BY DEF Command, Text, DocumentCommand

LEMMA TypeInit == PipelineAssumption /\ Init => TypeOK
<1> SUFFICES ASSUME PipelineAssumption, Init PROVE TypeOK
  OBVIOUS
<1>1. ChannelsOK
  <2>1. /\ queue \in [Lanes -> Seq(Command)] /\ \A lane \in Lanes : queue[lane] = <<>>
        /\ events \in [EventLanes -> Seq(Event)]
        /\ \A lane \in EventLanes : events[lane] = <<>>
    BY DEF Init
  <2>2. \A lane \in Lanes \cup EventLanes : Capacity[lane] \in Nat
    BY CapacityType
  <2>. QED BY <2>1, <2>2 DEF ChannelsOK
<1>2. SchedulerOK
  <2>1. currentGeneration \in Generations
    BY ConstantsType DEF Init, Generations
  <2>. QED BY <2>1 DEF Init, SchedulerOK, UiPcs
<1>3. InHandOK
  BY DEF Init, InHandOK, ReceivePcs, HandlerPcs, EmittingPcs, RenderPcs
<1>4. DocumentsOK
  BY ConstantsType DEF Init, DocumentsOK, Versions
<1>5. CountersOK
  BY ConstantsType DEF Init, CountersOK
<1>. QED BY <1>1, <1>2, <1>3, <1>4, <1>5 DEF TypeOK

\* Queueing a command, emitting an event.
LEMMA EnqueueType ==
  ASSUME PipelineAssumption, TypeOK, NEW c \in Command, Enqueue(c)
  PROVE  /\ queue' \in [Lanes -> Seq(Command)]
         /\ \A lane \in Lanes : Len(queue'[lane]) <= Capacity[lane]
<1>1. LaneOf(c) \in Lanes /\ Capacity[LaneOf(c)] \in Nat
  BY LaneType, CapacityType
<1>. QED BY <1>1 DEF TypeOK, ChannelsOK, Enqueue, TakesWork

LEMMA PushType ==
  ASSUME PipelineAssumption, TypeOK, outgoing \in Event,
         NEW lane \in EventLanes, HasRoom(lane), Push(lane)
  PROVE  /\ events' \in [EventLanes -> Seq(Event)]
         /\ \A l \in EventLanes : Len(events'[l]) <= Capacity[l]
<1>1. Capacity[lane] \in Nat
  BY CapacityType
<1>. QED BY <1>1 DEF TypeOK, ChannelsOK, HasRoom, Push

\* Returning from a handler, and handing an event on.
LEMMA ReturnType ==
  ASSUME command \in Command, NEW continue \in BOOLEAN, Return(continue)
  PROVE  InHandOK'
<1>1. CASE command.type = "render"
  BY <1>1, RenderIsJob
     DEF Return, InHandOK, ReceivePcs, HandlerPcs, RenderPcs, EmittingPcs
<1>2. CASE command.type # "render"
  BY <1>2 DEF Return, InHandOK, ReceivePcs, HandlerPcs, RenderPcs, EmittingPcs
<1>. QED BY <1>1, <1>2

LEMMA EmitType ==
  ASSUME command \in Command, NEW e \in Event, NEW how \in EmittingPcs, Emit(e, how)
  PROVE  InHandOK'
BY DEF Emit, InHandOK, ReceivePcs, HandlerPcs, RenderPcs, EmittingPcs

LEMMA FailedType ==
  ASSUME command \in Command, Failed
  PROVE  InHandOK'
<1>1. command.type \in CommandTypes /\ command.doc \in Docs
  BY DEF Command, Job, Text, DocumentCommand, CommandTypes
<1>2. [type |-> "error", of |-> command.type, doc |-> command.doc] \in Event
  BY <1>1 DEF Event
<1>3. "emitCritical" \in EmittingPcs
  BY DEF EmittingPcs
<1>. QED BY <1>2, <1>3, EmitType DEF Failed

-----------------------------------------------------------------------------
(* Every action keeps the types *)

\* Taking the first message off a queue.
LEMMA TakenType ==
  ASSUME PipelineAssumption, ChannelsOK, NEW lane \in EventLanes, events[lane] # <<>>,
         events' = [events EXCEPT ![lane] = Tail(@)]
  PROVE  /\ events' \in [EventLanes -> Seq(Event)]
         /\ \A l \in EventLanes : Len(events'[l]) <= Capacity[l]
<1>1. Tail(events[lane]) \in Seq(Event) /\ Len(Tail(events[lane])) = Len(events[lane]) - 1
  BY HeadTailProperties DEF ChannelsOK
<1>2. \A l \in EventLanes : Len(events[l]) \in Nat /\ Len(events[l]) <= Capacity[l]
  BY DEF ChannelsOK
<1>3. Capacity[lane] \in Nat
  BY CapacityType
<1>. QED BY <1>1, <1>2, <1>3 DEF ChannelsOK

\* One poll of a command queue: a command arrives, or the next poll is due.
LEMMA PollType ==
  ASSUME PipelineAssumption, TypeOK, NEW lane \in Lanes, NEW next \in ReceivePcs,
         pc \in ReceivePcs, Poll(lane, next)
  PROVE  ChannelsOK' /\ InHandOK'
<1>1. CASE queue[lane] # <<>>
  <2>1. /\ Head(queue[lane]) \in Command
        /\ Tail(queue[lane]) \in Seq(Command)
        /\ Len(Tail(queue[lane])) = Len(queue[lane]) - 1
    BY <1>1, HeadTailProperties DEF TypeOK, ChannelsOK
  <2>2. \A l \in Lanes : Len(queue[l]) \in Nat /\ Len(queue[l]) <= Capacity[l]
    BY DEF TypeOK, ChannelsOK
  <2>3. Capacity[lane] \in Nat
    BY CapacityType
  <2>4. /\ queue' = [queue EXCEPT ![lane] = Tail(queue[lane])]
        /\ command' = Head(queue[lane]) /\ pc' = command'.type
        /\ outgoing' = outgoing /\ events' = events
    BY <1>1 DEF Poll
  <2>5. ChannelsOK'
    BY <2>1, <2>2, <2>3, <2>4 DEF TypeOK, ChannelsOK
  <2>6. command'.type \in HandlerPcs
    BY <2>1, <2>4 DEF Command, Job, Text, DocumentCommand, HandlerPcs
  <2>7. outgoing' = None
    BY <2>4 DEF TypeOK, InHandOK
  <2>8. InHandOK'
    BY <2>1, <2>4, <2>6, <2>7 DEF InHandOK, ReceivePcs, HandlerPcs, RenderPcs, EmittingPcs
  <2>. QED BY <2>5, <2>8
<1>2. CASE queue[lane] = <<>>
  BY <1>2 DEF Poll, TypeOK, ChannelsOK, InHandOK, ReceivePcs, HandlerPcs, RenderPcs,
              EmittingPcs
<1>. QED BY <1>1, <1>2

LEMMA TSendRender ==
  ASSUME PipelineAssumption, TypeOK, NEW job \in Job, SendRender(job)
  PROVE  TypeOK'
<1> USE DEF TypeOK
<1>1. ChannelsOK'
  BY JobType, EnqueueType DEF SendRender, ChannelsOK
<1>2. SchedulerOK'
  BY JobType DEF SendRender, SchedulerOK, sharedVars, UiPcs
<1>3. InHandOK'
  BY DEF SendRender, InHandOK, workerVars
<1>4. DocumentsOK'
  BY DEF SendRender, DocumentsOK, workerVars
<1>5. CountersOK'
  BY DEF SendRender, CountersOK, workerVars
<1>. QED BY <1>1, <1>2, <1>3, <1>4, <1>5

LEMMA TSendCommand ==
  ASSUME PipelineAssumption, TypeOK, NEW c \in Command, SendCommand(c)
  PROVE  TypeOK'
<1> USE DEF TypeOK
<1>1. ChannelsOK'
  BY EnqueueType DEF SendCommand, ChannelsOK
<1>2. SchedulerOK'
  BY DEF SendCommand, SchedulerOK, sharedVars, uiVars
<1>3. InHandOK'
  BY DEF SendCommand, InHandOK, workerVars
<1>4. DocumentsOK'
  BY DEF SendCommand, DocumentsOK, workerVars
<1>5. CountersOK'
  BY DEF SendCommand, CountersOK, workerVars
<1>. QED BY <1>1, <1>2, <1>3, <1>4, <1>5

LEMMA TInsertPending ==
  ASSUME PipelineAssumption, TypeOK, InsertPending
  PROVE  TypeOK'
<1> USE DEF TypeOK
<1>1. ChannelsOK'
  BY DEF InsertPending, ChannelsOK
<1>2. SchedulerOK'
  BY DEF InsertPending, SchedulerOK, UiPcs
<1>3. InHandOK'
  BY DEF InsertPending, InHandOK, workerVars
<1>4. DocumentsOK'
  BY DEF InsertPending, DocumentsOK, workerVars
<1>5. CountersOK'
  BY DEF InsertPending, CountersOK, workerVars
<1>. QED BY <1>1, <1>2, <1>3, <1>4, <1>5

LEMMA TBumpGeneration ==
  ASSUME PipelineAssumption, TypeOK, BumpGeneration
  PROVE  TypeOK'
<1> USE DEF TypeOK
<1>1. ChannelsOK'
  BY DEF BumpGeneration, ChannelsOK
<1>2. SchedulerOK'
  BY ConstantsType DEF BumpGeneration, SchedulerOK, uiVars, Generations
<1>3. InHandOK'
  BY DEF BumpGeneration, InHandOK, workerVars
<1>4. DocumentsOK'
  BY DEF BumpGeneration, DocumentsOK, workerVars
<1>5. CountersOK'
  BY DEF BumpGeneration, CountersOK, workerVars
<1>. QED BY <1>1, <1>2, <1>3, <1>4, <1>5

LEMMA TSetInvertColors ==
  ASSUME PipelineAssumption, TypeOK, SetInvertColors
  PROVE  TypeOK'
<1> USE DEF TypeOK
<1>1. ChannelsOK'
  BY DEF SetInvertColors, ChannelsOK
<1>2. SchedulerOK'
  BY DEF SetInvertColors, SchedulerOK, sharedVars, uiVars
<1>3. InHandOK'
  BY DEF SetInvertColors, InHandOK, workerVars
<1>4. DocumentsOK'
  BY DEF SetInvertColors, DocumentsOK, workerVars
<1>5. CountersOK'
  BY DEF SetInvertColors, CountersOK, workerVars
<1>. QED BY <1>1, <1>2, <1>3, <1>4, <1>5

LEMMA TPollCritical ==
  ASSUME PipelineAssumption, TypeOK, PollCritical
  PROVE  TypeOK'
<1> USE DEF TypeOK
<1>1. ChannelsOK'
  BY TakenType DEF PollCritical, ChannelsOK, EventLanes
<1>2. SchedulerOK'
  BY DEF PollCritical, SchedulerOK, sharedVars, UiPcs
<1>3. InHandOK'
  BY DEF PollCritical, InHandOK, workerVars
<1>4. DocumentsOK'
  BY DEF PollCritical, DocumentsOK, workerVars
<1>5. CountersOK'
  BY DEF PollCritical, CountersOK, workerVars
<1>. QED BY <1>1, <1>2, <1>3, <1>4, <1>5

LEMMA TPollEvent ==
  ASSUME PipelineAssumption, TypeOK, PollEvent
  PROVE  TypeOK'
<1> USE DEF TypeOK
<1>1. ChannelsOK'
  BY TakenType DEF PollEvent, ChannelsOK, EventLanes
<1>2. SchedulerOK'
  BY DEF PollEvent, SchedulerOK, sharedVars, UiPcs, Running
<1>3. InHandOK'
  BY DEF PollEvent, InHandOK, workerVars
<1>4. DocumentsOK'
  BY DEF PollEvent, DocumentsOK, workerVars
<1>5. CountersOK'
  BY DEF PollEvent, CountersOK, workerVars
<1>. QED BY <1>1, <1>2, <1>3, <1>4, <1>5

LEMMA TShutdown ==
  ASSUME PipelineAssumption, TypeOK, NEW next \in {"joining", "dropping"}, Shutdown(next)
  PROVE  TypeOK'
<1> USE DEF TypeOK
<1>1. ChannelsOK'
  BY DEF Shutdown, ChannelsOK
<1>2. SchedulerOK'
  BY DEF Shutdown, SchedulerOK, UiPcs, Running
<1>3. InHandOK'
  BY DEF Shutdown, InHandOK, workerVars
<1>4. DocumentsOK'
  BY DEF Shutdown, DocumentsOK, workerVars
<1>5. CountersOK'
  BY DEF Shutdown, CountersOK, workerVars
<1>. QED BY <1>1, <1>2, <1>3, <1>4, <1>5

LEMMA TJoinWorker ==
  ASSUME PipelineAssumption, TypeOK, JoinWorker
  PROVE  TypeOK'
<1> USE DEF TypeOK
<1>1. ChannelsOK'
  BY DEF JoinWorker, ChannelsOK
<1>2. SchedulerOK'
  BY DEF JoinWorker, AfterShutdown, SchedulerOK, sharedVars, UiPcs
<1>3. InHandOK'
  BY DEF JoinWorker, InHandOK, workerVars
<1>4. DocumentsOK'
  BY DEF JoinWorker, DocumentsOK, workerVars
<1>5. CountersOK'
  BY DEF JoinWorker, CountersOK, workerVars
<1>. QED BY <1>1, <1>2, <1>3, <1>4, <1>5

LEMMA TJoinTimeout ==
  ASSUME PipelineAssumption, TypeOK, JoinTimeout
  PROVE  TypeOK'
<1> USE DEF TypeOK
<1>1. ChannelsOK'
  BY DEF JoinTimeout, ChannelsOK
<1>2. SchedulerOK'
  BY DEF JoinTimeout, AfterShutdown, SchedulerOK, sharedVars, UiPcs
<1>3. InHandOK'
  BY DEF JoinTimeout, InHandOK, workerVars
<1>4. DocumentsOK'
  BY DEF JoinTimeout, DocumentsOK, workerVars
<1>5. CountersOK'
  BY DEF JoinTimeout, CountersOK, workerVars
<1>. QED BY <1>1, <1>2, <1>3, <1>4, <1>5

LEMMA TPollShutdown ==
  ASSUME PipelineAssumption, TypeOK, PollShutdown
  PROVE  TypeOK'
<1> USE DEF TypeOK
<1>1. ChannelsOK'
  BY DEF PollShutdown, ChannelsOK
<1>2. SchedulerOK'
  BY DEF PollShutdown, ConsumeStop, NoStop, SchedulerOK, uiVars
<1>3. InHandOK'
  BY DEF PollShutdown, InHandOK, ReceivePcs, HandlerPcs, RenderPcs, EmittingPcs
<1>4. DocumentsOK'
  BY DEF PollShutdown, DocumentsOK, workerVars
<1>5. CountersOK'
  BY DEF PollShutdown, CountersOK, workerVars
<1>. QED BY <1>1, <1>2, <1>3, <1>4, <1>5

LEMMA TPollControl ==
  ASSUME PipelineAssumption, TypeOK, PollControl
  PROVE  TypeOK'
<1> USE DEF TypeOK
<1>1. ChannelsOK'
  BY PollType DEF PollControl, Lanes, ReceivePcs
<1>2. SchedulerOK'
  BY DEF PollControl, Poll, SchedulerOK, sharedVars, uiVars
<1>3. InHandOK'
  BY PollType DEF PollControl, Lanes, InHandOK, ReceivePcs, HandlerPcs, RenderPcs, EmittingPcs
<1>4. DocumentsOK'
  BY DEF PollControl, Poll, DocumentsOK
<1>5. CountersOK'
  BY ConstantsType DEF PollControl, Poll, CountersOK
<1>. QED BY <1>1, <1>2, <1>3, <1>4, <1>5

LEMMA TPollVisible ==
  ASSUME PipelineAssumption, TypeOK, PollVisible
  PROVE  TypeOK'
<1> USE DEF TypeOK
<1>1. ChannelsOK'
  BY PollType DEF PollVisible, Lanes, ReceivePcs
<1>2. SchedulerOK'
  BY DEF PollVisible, Poll, SchedulerOK, sharedVars, uiVars
<1>3. InHandOK'
  BY PollType DEF PollVisible, Lanes, InHandOK, ReceivePcs, HandlerPcs, RenderPcs, EmittingPcs
<1>4. DocumentsOK'
  BY DEF PollVisible, Poll, DocumentsOK
<1>5. CountersOK'
  BY ConstantsType DEF PollVisible, Poll, CountersOK
<1>. QED BY <1>1, <1>2, <1>3, <1>4, <1>5

LEMMA TPollLow ==
  ASSUME PipelineAssumption, TypeOK, PollLow
  PROVE  TypeOK'
<1> USE DEF TypeOK
<1>1. ChannelsOK'
  BY PollType DEF PollLow, Lanes, ReceivePcs
<1>2. SchedulerOK'
  BY DEF PollLow, Poll, SchedulerOK, sharedVars, uiVars
<1>3. InHandOK'
  BY PollType DEF PollLow, Lanes, InHandOK, ReceivePcs, HandlerPcs, RenderPcs, EmittingPcs
<1>4. DocumentsOK'
  BY DEF PollLow, Poll, DocumentsOK
<1>5. CountersOK'
  BY ConstantsType DEF PollLow, Poll, CountersOK
<1>. QED BY <1>1, <1>2, <1>3, <1>4, <1>5

LEMMA TWake ==
  ASSUME PipelineAssumption, TypeOK, Wake
  PROVE  TypeOK'
<1> USE DEF TypeOK
<1>1. ChannelsOK'
  BY DEF Wake, ChannelsOK
<1>2. SchedulerOK'
  BY DEF Wake, SchedulerOK, sharedVars, uiVars
<1>3. InHandOK'
  BY DEF Wake, InHandOK, ReceivePcs, HandlerPcs, RenderPcs, EmittingPcs
<1>4. DocumentsOK'
  BY DEF Wake, DocumentsOK, workerVars
<1>5. CountersOK'
  BY DEF Wake, CountersOK, workerVars
<1>. QED BY <1>1, <1>2, <1>3, <1>4, <1>5
\* What a handler knows of its command.
LEMMA CommandType ==
  ASSUME PipelineAssumption, TypeOK, pc \in HandlerPcs \cup RenderPcs \cup EmittingPcs
  PROVE  command \in Command /\ command.doc \in Docs /\ command.type \in CommandTypes
<1>1. command \in Command
  BY JobType DEF TypeOK, InHandOK
<1>. QED BY <1>1 DEF Command, Job, Text, DocumentCommand, CommandTypes

LEMMA TOpenDocument ==
  ASSUME PipelineAssumption, TypeOK, OpenDocument
  PROVE  TypeOK'
<1> USE DEF TypeOK
<1>1. ChannelsOK'
  BY DEF OpenDocument, ChannelsOK
<1>2. SchedulerOK'
  BY DEF OpenDocument, SchedulerOK, sharedVars, uiVars
<1>3. InHandOK'
  <2> DEFINE version == fileVersion[command.doc]
             e == [type |-> "opened", of |-> "open", doc |-> command.doc, version |-> version]
  <2>1. command \in Command /\ command.doc \in Docs
    BY CommandType DEF OpenDocument, HandlerPcs
  <2>2. e \in Event
    BY <2>1 DEF DocumentsOK, Event
  <2>3. CASE Emit(e, "emitCritical")
    BY <2>1, <2>2, <2>3, EmitType DEF EmittingPcs
  <2>4. CASE Failed
    BY <2>1, <2>4, FailedType
  <2>. QED BY <2>3, <2>4 DEF OpenDocument
<1>4. DocumentsOK'
  <2>1. command.doc \in Docs /\ MaxOpenTabs \in Nat \ {0}
    BY CommandType, ConstantsType DEF OpenDocument, HandlerPcs
  <2>2. [doc |-> command.doc, version |-> fileVersion[command.doc]] \in OpenDoc
    BY <2>1 DEF DocumentsOK, OpenDoc
  <2>. QED BY <2>1, <2>2, PutType DEF OpenDocument, DocumentsOK
<1>5. CountersOK'
  BY DEF OpenDocument, CountersOK, workerVars
<1>. QED BY <1>1, <1>2, <1>3, <1>4, <1>5

LEMMA TCloseDocument ==
  ASSUME PipelineAssumption, TypeOK, CloseDocument
  PROVE  TypeOK'
<1> USE DEF TypeOK
<1>1. ChannelsOK'
  BY DEF CloseDocument, ChannelsOK
<1>2. SchedulerOK'
  BY DEF CloseDocument, SchedulerOK, sharedVars, uiVars
<1>3. InHandOK'
  <2>1. command \in Command
    BY CommandType DEF CloseDocument, HandlerPcs
  <2>. QED BY <2>1, ReturnType DEF CloseDocument
<1>4. DocumentsOK'
  BY WithoutType DEF CloseDocument, DocumentsOK
<1>5. CountersOK'
  BY DEF CloseDocument, CountersOK, workerVars
<1>. QED BY <1>1, <1>2, <1>3, <1>4, <1>5

LEMMA TShutdownCommand ==
  ASSUME PipelineAssumption, TypeOK, ShutdownCommand
  PROVE  TypeOK'
<1> USE DEF TypeOK
<1>1. ChannelsOK'
  BY DEF ShutdownCommand, ChannelsOK
<1>2. SchedulerOK'
  BY DEF ShutdownCommand, SchedulerOK, sharedVars, uiVars
<1>3. InHandOK'
  <2>1. command \in Command
    BY CommandType DEF ShutdownCommand, HandlerPcs
  <2>. QED BY <2>1, ReturnType DEF ShutdownCommand
<1>4. DocumentsOK'
  BY DEF ShutdownCommand, DocumentsOK
<1>5. CountersOK'
  BY DEF ShutdownCommand, CountersOK, workerVars
<1>. QED BY <1>1, <1>2, <1>3, <1>4, <1>5

LEMMA TRenderPage ==
  ASSUME PipelineAssumption, TypeOK, RenderPage
  PROVE  TypeOK'
<1> USE DEF TypeOK
<1>1. ChannelsOK'
  BY DEF RenderPage, ChannelsOK
<1>2. SchedulerOK'
  BY DEF RenderPage, SchedulerOK, sharedVars, uiVars
<1>3. InHandOK'
  <2>1. command \in Command /\ command.type = "render" /\ outgoing = None
    BY DEF RenderPage, InHandOK, HandlerPcs
  <2>2. CASE Return(TRUE)
    BY <2>1, <2>2, ReturnType
  <2>3. CASE pc' = "lookup" /\ UNCHANGED <<command, outgoing>>
    BY <2>1, <2>3, RenderIsJob DEF InHandOK, ReceivePcs, HandlerPcs, RenderPcs, EmittingPcs
  <2>. QED BY <2>2, <2>3 DEF RenderPage
<1>4. DocumentsOK'
  BY DEF RenderPage, DocumentsOK
<1>5. CountersOK'
  BY DEF RenderPage, CountersOK, workerVars
<1>. QED BY <1>1, <1>2, <1>3, <1>4, <1>5

\* A page event answers its job with a bitmap.
LEMMA PageEventType ==
  ASSUME PipelineAssumption, NEW job \in Job, NEW b \in Bitmap
  PROVE  PageEvent(job, b) \in Event /\ PageEvent(job, b).type = "page"
BY JobType DEF PageEvent, Event

LEMMA TLookUp ==
  ASSUME PipelineAssumption, TypeOK, LookUp
  PROVE  TypeOK'
<1> USE DEF TypeOK
<1>1. ChannelsOK'
  BY DEF LookUp, ChannelsOK
<1>2. SchedulerOK'
  BY DEF LookUp, SchedulerOK, sharedVars, uiVars
<1>3. InHandOK'
  <2> DEFINE slot == Slot(command)
             drawn == [doc |-> slot.doc, page |-> slot.page, size |-> slot.size,
                       invert |-> slot.invert,
                       version |-> EntryOf(activeDocs, command.doc).version]
  <2>1. command \in Job /\ command \in Command
    BY JobType DEF LookUp, InHandOK, RenderPcs
  <2>2. CASE Hits(slot) # {}
    <3>1. PICK b \in Hits(slot) : Emit(PageEvent(command, b), "emit")
      BY <2>2 DEF LookUp
    <3>2. b \in Bitmap
      BY DEF Hits, DocumentsOK
    <3>3. PageEvent(command, b) \in Event
      BY <2>1, <3>2, PageEventType
    <3>. QED BY <2>1, <3>1, <3>3, EmitType DEF EmittingPcs
  <2>3. CASE Hits(slot) = {} /\ IsOpen(activeDocs, command.doc)
    <3>1. EntryOf(activeDocs, command.doc) \in OpenDoc
      BY <2>3, PositionType DEF DocumentsOK
    <3>2. drawn \in Bitmap
      BY <2>1, <3>1, JobType DEF Slot, OpenDoc, Bitmap, SchedulerOK
    <3>3. PageEvent(command, drawn) \in Event /\ PageEvent(command, drawn).type = "page"
      BY <2>1, <3>2, PageEventType
    <3>4. Emit(PageEvent(command, drawn), "draw")
      BY <2>3 DEF LookUp
    <3> HIDE DEF drawn
    <3>. QED
      BY <2>1, <3>3, <3>4 DEF Emit, InHandOK, ReceivePcs, HandlerPcs, RenderPcs, EmittingPcs
  <2>4. CASE Hits(slot) = {} /\ ~ IsOpen(activeDocs, command.doc)
    <3>1. Return(TRUE)
      BY <2>4 DEF LookUp
    <3>. QED BY <2>1, <3>1, ReturnType
  <2>. QED BY <2>2, <2>3, <2>4
<1>4. DocumentsOK'
  BY TouchedType DEF LookUp, DocumentsOK
<1>5. CountersOK'
  BY DEF LookUp, CountersOK, workerVars
<1>. QED BY <1>1, <1>2, <1>3, <1>4, <1>5

LEMMA TDraw ==
  ASSUME PipelineAssumption, TypeOK, Draw
  PROVE  TypeOK'
<1> USE DEF TypeOK
<1>1. ChannelsOK'
  BY DEF Draw, ChannelsOK
<1>2. SchedulerOK'
  BY DEF Draw, SchedulerOK, sharedVars, uiVars
<1>3. InHandOK'
  <2>1. command \in Job /\ command \in Command /\ outgoing \in Event /\ outgoing.type = "page"
    BY JobType DEF Draw, InHandOK, RenderPcs
  <2>2. CASE Emit(outgoing, "keep")
    BY <2>1, <2>2 DEF Emit, InHandOK, ReceivePcs, HandlerPcs, RenderPcs, EmittingPcs
  <2>3. CASE Failed
    BY <2>1, <2>3, FailedType
  <2>. QED BY <2>2, <2>3 DEF Draw
<1>4. DocumentsOK'
  BY DEF Draw, DocumentsOK
<1>5. CountersOK'
  BY DEF Draw, CountersOK, workerVars
<1>. QED BY <1>1, <1>2, <1>3, <1>4, <1>5

LEMMA TKeep ==
  ASSUME PipelineAssumption, TypeOK, Keep
  PROVE  TypeOK'
<1> USE DEF TypeOK
<1>1. ChannelsOK'
  BY DEF Keep, ChannelsOK
<1>2. SchedulerOK'
  BY DEF Keep, ConsumeStop, NoStop, SchedulerOK, uiVars
<1>3. InHandOK'
  <2>1. command \in Job /\ command \in Command /\ outgoing \in Event
    BY JobType DEF Keep, InHandOK, RenderPcs
  <2>2. CASE Return(FALSE)
    BY <2>1, <2>2, ReturnType
  <2>3. CASE Emit(outgoing, "emit")
    BY <2>1, <2>3, EmitType DEF EmittingPcs
  <2>. QED BY <2>2, <2>3 DEF Keep
<1>4. DocumentsOK'
  <2>1. outgoing.bitmap \in Bitmap
    BY DEF Keep, InHandOK, Event
  <2>2. \A kept \in InsertOutcomes(cache, outgoing.bitmap) : kept \subseteq Bitmap
    BY <2>1 DEF InsertOutcomes, DocumentsOK
  <2>. QED BY <2>2 DEF Keep, DocumentsOK
<1>5. CountersOK'
  BY DEF Keep, CountersOK, workerVars
<1>. QED BY <1>1, <1>2, <1>3, <1>4, <1>5

LEMMA TUnpend ==
  ASSUME PipelineAssumption, TypeOK, Unpend
  PROVE  TypeOK'
<1> USE DEF TypeOK
<1>1. ChannelsOK'
  BY DEF Unpend, ChannelsOK
<1>2. SchedulerOK'
  BY DEF Unpend, SchedulerOK, uiVars
<1>3. InHandOK'
  <2>1. outgoing = None
    BY DEF Unpend, InHandOK
  <2>. QED BY <2>1 DEF Unpend, InHandOK, ReceivePcs, HandlerPcs, RenderPcs, EmittingPcs
<1>4. DocumentsOK'
  BY DEF Unpend, DocumentsOK
<1>5. CountersOK'
  BY DEF Unpend, CountersOK, workerVars
<1>. QED BY <1>1, <1>2, <1>3, <1>4, <1>5

LEMMA TFetchText ==
  ASSUME PipelineAssumption, TypeOK, FetchText
  PROVE  TypeOK'
<1> USE DEF TypeOK
<1>1. ChannelsOK'
  BY DEF FetchText, ChannelsOK
<1>2. SchedulerOK'
  BY DEF FetchText, SchedulerOK, sharedVars, uiVars
<1>3. InHandOK'
  <2> DEFINE e == [type |-> "reply", of |-> "text", doc |-> command.doc,
                   generation |-> command.generation]
  <2>1. command \in Command /\ command.type = "text"
    BY DEF FetchText, InHandOK, HandlerPcs
  <2>2. e \in Event
    BY <2>1 DEF Command, Job, Text, DocumentCommand, Event
  <2>3. CASE Return(TRUE)
    BY <2>1, <2>3, ReturnType
  <2>4. CASE Emit(e, "emit")
    BY <2>1, <2>2, <2>4, EmitType DEF EmittingPcs
  <2>5. CASE Failed
    BY <2>1, <2>5, FailedType
  <2>. QED BY <2>3, <2>4, <2>5 DEF FetchText
<1>4. DocumentsOK'
  BY TouchedType DEF FetchText, DocumentsOK
<1>5. CountersOK'
  BY DEF FetchText, CountersOK, workerVars
<1>. QED BY <1>1, <1>2, <1>3, <1>4, <1>5

LEMMA TQueryDocument ==
  ASSUME PipelineAssumption, TypeOK, QueryDocument
  PROVE  TypeOK'
<1> USE DEF TypeOK
<1>1. ChannelsOK'
  BY DEF QueryDocument, ChannelsOK
<1>2. SchedulerOK'
  BY DEF QueryDocument, SchedulerOK, sharedVars, uiVars
<1>3. InHandOK'
  <2> DEFINE e == [type |-> "reply", of |-> command.type, doc |-> command.doc,
                   generation |-> currentGeneration]
  <2>1. /\ command \in Command /\ command.type \in {"query", "search"}
        /\ command.doc \in Docs
    BY CommandType DEF QueryDocument, InHandOK, HandlerPcs
  <2>2. e \in Event
    BY <2>1 DEF SchedulerOK, Event
  <2>3. CASE Return(TRUE)
    BY <2>1, <2>3, ReturnType
  <2>4. CASE Emit(e, "emitCritical") \/ Emit(e, "searchPage")
    BY <2>1, <2>2, <2>4, EmitType DEF EmittingPcs
  <2>5. CASE Failed
    BY <2>1, <2>5, FailedType
  <2>. QED BY <2>3, <2>4, <2>5 DEF QueryDocument
<1>4. DocumentsOK'
  BY TouchedType DEF QueryDocument, DocumentsOK
<1>5. CountersOK'
  BY DEF QueryDocument, CountersOK, workerVars
<1>. QED BY <1>1, <1>2, <1>3, <1>4, <1>5

LEMMA TSearchPage ==
  ASSUME PipelineAssumption, TypeOK, SearchPage
  PROVE  TypeOK'
<1> USE DEF TypeOK
<1>1. ChannelsOK'
  BY DEF SearchPage, ChannelsOK
<1>2. SchedulerOK'
  BY DEF SearchPage, ConsumeStop, NoStop, SchedulerOK, uiVars
<1>3. InHandOK'
  <2>1. command \in Command /\ outgoing \in Event
    BY DEF SearchPage, InHandOK, EmittingPcs
  <2>2. CASE Return(TRUE) \/ Return(FALSE)
    BY <2>1, <2>2, ReturnType
  <2>3. CASE Emit(outgoing, "emitCritical")
    BY <2>1, <2>3, EmitType DEF EmittingPcs
  <2>. QED BY <2>2, <2>3 DEF SearchPage
<1>4. DocumentsOK'
  BY DEF SearchPage, DocumentsOK
<1>5. CountersOK'
  BY DEF SearchPage, CountersOK, workerVars
<1>. QED BY <1>1, <1>2, <1>3, <1>4, <1>5

LEMMA TEmitEvent ==
  ASSUME PipelineAssumption, TypeOK, EmitEvent
  PROVE  TypeOK'
<1> USE DEF TypeOK
<1>1. ChannelsOK'
  <2>1. outgoing \in Event
    BY DEF EmitEvent, InHandOK, EmittingPcs
  <2>2. CASE HasRoom("event") /\ Push("event")
    BY <2>1, <2>2, PushType DEF EmitEvent, EventLanes, ChannelsOK
  <2>3. CASE UNCHANGED events
    BY <2>3 DEF EmitEvent, ChannelsOK
  <2>. QED BY <2>2, <2>3 DEF EmitEvent
<1>2. SchedulerOK'
  BY DEF EmitEvent, ConsumeStop, NoStop, SchedulerOK, uiVars
<1>3. InHandOK'
  <2>1. command \in Command /\ outgoing \in Event
    BY DEF EmitEvent, InHandOK, EmittingPcs
  <2>2. CASE Return(TRUE) \/ Return(FALSE)
    BY <2>1, <2>2, ReturnType
  <2>3. CASE Emit(outgoing, "emitCritical")
    BY <2>1, <2>3, EmitType DEF EmittingPcs
  <2>. QED BY <2>2, <2>3 DEF EmitEvent
<1>4. DocumentsOK'
  BY DEF EmitEvent, DocumentsOK
<1>5. CountersOK'
  BY DEF EmitEvent, CountersOK, workerVars
<1>. QED BY <1>1, <1>2, <1>3, <1>4, <1>5

LEMMA TEmitCritical ==
  ASSUME PipelineAssumption, TypeOK, EmitCritical
  PROVE  TypeOK'
<1> USE DEF TypeOK
<1>1. ChannelsOK'
  BY DEF EmitCritical, ChannelsOK
<1>2. SchedulerOK'
  BY DEF EmitCritical, ConsumeStop, NoStop, SchedulerOK, uiVars
<1>3. InHandOK'
  <2>1. command \in Command /\ outgoing \in Event
    BY DEF EmitCritical, InHandOK, EmittingPcs
  <2>2. CASE Return(TRUE) \/ Return(FALSE)
    BY <2>1, <2>2, ReturnType
  <2>3. CASE Emit(outgoing, "sendCritical")
    BY <2>1, <2>3, EmitType DEF EmittingPcs
  <2>. QED BY <2>2, <2>3 DEF EmitCritical
<1>4. DocumentsOK'
  BY DEF EmitCritical, DocumentsOK
<1>5. CountersOK'
  BY DEF EmitCritical, CountersOK, workerVars
<1>. QED BY <1>1, <1>2, <1>3, <1>4, <1>5

LEMMA TSendCritical ==
  ASSUME PipelineAssumption, TypeOK, SendCritical
  PROVE  TypeOK'
<1> USE DEF TypeOK
<1>1. ChannelsOK'
  <2>1. outgoing \in Event
    BY DEF SendCritical, InHandOK, EmittingPcs
  <2>2. CASE HasRoom("critical") /\ Push("critical")
    BY <2>1, <2>2, PushType DEF SendCritical, EventLanes, ChannelsOK
  <2>3. CASE UNCHANGED events
    BY <2>3 DEF SendCritical, ChannelsOK
  <2>. QED BY <2>2, <2>3 DEF SendCritical
<1>2. SchedulerOK'
  BY DEF SendCritical, ConsumeStop, NoStop, SchedulerOK, uiVars
<1>3. InHandOK'
  <2>1. command \in Command /\ outgoing \in Event
    BY DEF SendCritical, InHandOK, EmittingPcs
  <2>2. Return(TRUE) \/ Return(FALSE)
    BY DEF SendCritical
  <2>. QED BY <2>1, <2>2, ReturnType
<1>4. DocumentsOK'
  BY DEF SendCritical, DocumentsOK
<1>5. CountersOK'
  BY DEF SendCritical, CountersOK, workerVars
<1>. QED BY <1>1, <1>2, <1>3, <1>4, <1>5

LEMMA TFileChanged ==
  ASSUME PipelineAssumption, TypeOK, NEW d \in Docs, FileChanged(d)
  PROVE  TypeOK'
<1> USE DEF TypeOK
<1>1. ChannelsOK'
  BY DEF FileChanged, ChannelsOK
<1>2. SchedulerOK'
  BY DEF FileChanged, SchedulerOK, sharedVars, uiVars
<1>3. InHandOK'
  BY DEF FileChanged, InHandOK, workerVars
<1>4. DocumentsOK'
  BY ConstantsType DEF FileChanged, DocumentsOK, Versions, workerVars
<1>5. CountersOK'
  BY DEF FileChanged, CountersOK, workerVars
<1>. QED BY <1>1, <1>2, <1>3, <1>4, <1>5

\* What the UI sends is a command, asked for in the current generation.
LEMMA UiSendsType ==
  ASSUME PipelineAssumption, TypeOK, UiSends
  PROVE  (\E job \in Job : SendRender(job)) \/ (\E c \in Command : SendCommand(c))
<1>0. currentGeneration \in Generations
  BY DEF TypeOK, SchedulerOK
<1>1. \A d \in Docs, t \in Targets :
        [type |-> "render", doc |-> d, generation |-> currentGeneration, target |-> t] \in Job
  BY <1>0 DEF Job
<1>2. \A d \in Docs :
        [type |-> "text", doc |-> d, generation |-> currentGeneration] \in Command
  BY <1>0 DEF Command, Text
<1>3. \A type \in (Calls \cap CommandTypes) \ {"render", "text"}, d \in Docs :
        [type |-> type, doc |-> d] \in Command
  BY DEF Command, DocumentCommand, CommandTypes
<1>. QED BY <1>1, <1>2, <1>3 DEF UiSends

LEMMA TypeStep ==
  ASSUME PipelineAssumption, TypeOK, [Next]_vars
  PROVE  TypeOK'
<1>1. CASE UiNext
  BY <1>1, UiSendsType, TSendRender, TSendCommand, TInsertPending, TBumpGeneration, TSetInvertColors, TPollCritical, TPollEvent, TShutdown, TJoinWorker, TJoinTimeout DEF UiNext
<1>2. CASE WorkerNext
  BY <1>2, TPollShutdown, TPollControl, TPollVisible, TPollLow, TWake, TOpenDocument, TCloseDocument, TShutdownCommand, TRenderPage, TLookUp, TDraw, TKeep, TUnpend, TFetchText, TQueryDocument, TSearchPage, TEmitEvent, TEmitCritical, TSendCritical DEF WorkerNext
<1>3. CASE \E d \in Docs : FileChanged(d)
  BY <1>3, TFileChanged
<1>4. CASE UNCHANGED vars
  BY <1>4 DEF vars, sharedVars, uiVars, workerVars, TypeOK, ChannelsOK, SchedulerOK, InHandOK,
              DocumentsOK, CountersOK
<1>. QED BY <1>1, <1>2, <1>3, <1>4 DEF Next

\* For all documents, targets, capacities and bounds: queues stay within their
\* capacities, the worker holds at most MaxOpenTabs documents, and it always has
\* in hand what the point it has reached needs.
THEOREM PipelineTypes == Spec => []TypeOK
<1>1. Init => TypeOK
  BY TypeInit, PipelineAssumption
<1>2. TypeOK /\ [Next]_vars => TypeOK'
  BY TypeStep, PipelineAssumption
<1>. QED BY <1>1, <1>2, PTL DEF Spec

-----------------------------------------------------------------------------
(* The safety invariants *)

UiCalls ==
  \/ \E job \in Job : job.generation = currentGeneration /\ SendRender(job)
  \/ \E c \in Command : c.type # "render" /\ SendCommand(c)
  \/ InsertPending \/ BumpGeneration \/ SetInvertColors \/ PollCritical \/ PollEvent
  \/ \E next \in {"joining", "dropping"} : Shutdown(next)
  \/ JoinWorker \/ JoinTimeout

\* What the UI sends are commands, asked for in the current generation.
LEMMA UiStep ==
  ASSUME TypeOK, UiNext
  PROVE  UiCalls
<1>0. currentGeneration \in Generations
  BY DEF TypeOK, SchedulerOK
<1>1. ASSUME NEW d \in Docs, NEW t \in Targets,
             SendRender([type |-> "render", doc |-> d, generation |-> currentGeneration,
                         target |-> t])
      PROVE  UiCalls
  <2> DEFINE job == [type |-> "render", doc |-> d, generation |-> currentGeneration,
                     target |-> t]
  <2>1. job \in Job /\ job.generation = currentGeneration
    BY <1>0 DEF Job
  <2> HIDE DEF job
  <2>2. SendRender(job)
    BY <1>1 DEF job
  <2>. QED BY <2>1, <2>2 DEF UiCalls
<1>2. ASSUME NEW d \in Docs,
             SendCommand([type |-> "text", doc |-> d, generation |-> currentGeneration])
      PROVE  UiCalls
  <2> DEFINE c == [type |-> "text", doc |-> d, generation |-> currentGeneration]
  <2>1. c \in Command /\ c.type # "render"
    BY <1>0 DEF Command, Text
  <2> HIDE DEF c
  <2>2. SendCommand(c)
    BY <1>2 DEF c
  <2>. QED BY <2>1, <2>2 DEF UiCalls
<1>3. ASSUME NEW type \in (Calls \cap CommandTypes) \ {"render", "text"}, NEW d \in Docs,
             SendCommand([type |-> type, doc |-> d])
      PROVE  UiCalls
  <2> DEFINE c == [type |-> type, doc |-> d]
  <2>1. c \in Command /\ c.type # "render"
    BY DEF Command, DocumentCommand, CommandTypes
  <2> HIDE DEF c
  <2>2. SendCommand(c)
    BY <1>3 DEF c
  <2>. QED BY <2>1, <2>2 DEF UiCalls
<1>4. CASE UiSends
  BY <1>1, <1>2, <1>3, <1>4 DEF UiSends
<1>. QED BY <1>4 DEF UiNext, UiCalls

-----------------------------------------------------------------------------
(* Shutdown *)

\* A handler that ended run() leaves the worker stopped, or one key away from it.
LEMMA ReturnStops ==
  ASSUME Return(FALSE)
  PROVE  pc' \in {"stopped", "unpendAndStop"}
BY DEF Return

\* For all constants: once shutdown() was called, the token is in its channel
\* (or the channel is closed) or the worker is on its way out, whichever check
\* took the token.
THEOREM TokenIsHeeded == Spec => []ShutdownIsHeeded
<1>1. Init => ShutdownIsHeeded
  BY DEF Init, ShutdownIsHeeded
<1>2. TypeOK /\ ShutdownIsHeeded /\ [Next]_vars => ShutdownIsHeeded'
  <2> SUFFICES ASSUME TypeOK, ShutdownIsHeeded, [Next]_vars PROVE ShutdownIsHeeded'
    OBVIOUS
  <2> USE DEF ShutdownIsHeeded, Running, StopSeen
  <2>1. CASE UiNext
    <3>1. UiCalls
      BY <2>1, UiStep
    <3>. QED
      BY <3>1 DEF UiCalls, SendRender, SendCommand, InsertPending, BumpGeneration,
                  SetInvertColors, PollCritical, PollEvent, Shutdown, JoinWorker, JoinTimeout,
                  AfterShutdown, sharedVars, uiVars, workerVars
  <2>2. CASE WorkerNext
    <3> USE DEF sharedVars, uiVars
    <3>1. CASE PollShutdown
      BY <3>1 DEF PollShutdown, ConsumeStop, NoStop
    <3>2. CASE PollControl \/ PollVisible \/ PollLow \/ Wake \/ Draw
      BY <3>2 DEF PollControl, PollVisible, PollLow, Wake, Draw, Poll
    <3>3. CASE OpenDocument \/ CloseDocument \/ ShutdownCommand \/ RenderPage \/ LookUp
               \/ FetchText \/ QueryDocument
      BY <3>3 DEF OpenDocument, CloseDocument, ShutdownCommand, RenderPage, LookUp, FetchText,
                  QueryDocument
    <3>4. CASE Keep \/ SearchPage \/ EmitEvent \/ EmitCritical \/ SendCritical
      BY <3>4, ReturnStops DEF Keep, SearchPage, EmitEvent, EmitCritical, SendCritical,
                               ConsumeStop, NoStop
    <3>5. CASE Unpend
      BY <3>5 DEF Unpend
    <3>. QED BY <2>2, <3>1, <3>2, <3>3, <3>4, <3>5 DEF WorkerNext
  <2>3. CASE \E d \in Docs : FileChanged(d)
    BY <2>3 DEF FileChanged, sharedVars, uiVars, workerVars
  <2>4. CASE UNCHANGED vars
    BY <2>4 DEF vars, sharedVars, uiVars, workerVars
  <2>. QED BY <2>1, <2>2, <2>3, <2>4 DEF Next
<1>. QED BY <1>1, <1>2, PipelineTypes, PTL DEF Spec

-----------------------------------------------------------------------------
(* Generations *)

\* What the worker leaves to the UI thread.
LEMMA WorkerFrame ==
  ASSUME WorkerNext
  PROVE  /\ UNCHANGED <<currentGeneration, invertColors, uiVars, fileVersion>>
         /\ pendingRenders' \subseteq pendingRenders
<1> USE DEF sharedVars, uiVars
<1>1. CASE PollShutdown \/ PollControl \/ PollVisible \/ PollLow \/ Wake
  BY <1>1 DEF PollShutdown, PollControl, PollVisible, PollLow, Wake, Poll
<1>2. CASE OpenDocument \/ CloseDocument \/ ShutdownCommand \/ RenderPage \/ LookUp \/ Draw
  BY <1>2 DEF OpenDocument, CloseDocument, ShutdownCommand, RenderPage, LookUp, Draw
<1>3. CASE Keep \/ Unpend \/ FetchText \/ QueryDocument \/ SearchPage
  BY <1>3 DEF Keep, Unpend, FetchText, QueryDocument, SearchPage
<1>4. CASE EmitEvent \/ EmitCritical \/ SendCritical
  BY <1>4 DEF EmitEvent, EmitCritical, SendCritical
<1>. QED BY <1>1, <1>2, <1>3, <1>4 DEF WorkerNext

\* The key send_command is about to insert is of the current generation: the
\* lock it holds keeps bump_generation out.
KeyIsCurrent == uiPc = "insertPending" => uiKey.generation = currentGeneration

\* For all constants: the pending set holds keys of the current generation only.
THEOREM NoStaleKey == Spec => []PendingIsCurrent
<1>1. Init => PendingIsCurrent /\ KeyIsCurrent
  BY DEF Init, PendingIsCurrent, KeyIsCurrent
<1>2. TypeOK /\ PendingIsCurrent /\ KeyIsCurrent /\ [Next]_vars
        => PendingIsCurrent' /\ KeyIsCurrent'
  <2> SUFFICES ASSUME TypeOK, PendingIsCurrent, KeyIsCurrent, [Next]_vars
               PROVE  PendingIsCurrent' /\ KeyIsCurrent'
    OBVIOUS
  <2> USE DEF PendingIsCurrent, KeyIsCurrent, sharedVars, uiVars, workerVars
  <2>1. CASE UiNext
    <3>1. CASE \E job \in Job : job.generation = currentGeneration /\ SendRender(job)
      BY <3>1 DEF SendRender, Key
    <3>2. CASE \E c \in Command : c.type # "render" /\ SendCommand(c)
      BY <3>2 DEF SendCommand
    <3>3. CASE InsertPending
      BY <3>3 DEF InsertPending
    <3>4. CASE BumpGeneration
      BY <3>4 DEF BumpGeneration
    <3>5. CASE SetInvertColors \/ PollCritical \/ PollEvent \/ JoinWorker \/ JoinTimeout
               \/ \E next \in {"joining", "dropping"} : Shutdown(next)
      BY <3>5 DEF SetInvertColors, PollCritical, PollEvent, JoinWorker, JoinTimeout,
                  AfterShutdown, Shutdown
    <3>. QED BY <2>1, UiStep, <3>1, <3>2, <3>3, <3>4, <3>5 DEF UiCalls
  <2>2. CASE WorkerNext
    BY <2>2, WorkerFrame
  <2>3. CASE \E d \in Docs : FileChanged(d)
    BY <2>3 DEF FileChanged
  <2>4. CASE UNCHANGED vars
    BY <2>4 DEF vars
  <2>. QED BY <2>1, <2>2, <2>3, <2>4 DEF Next
<1>. QED BY <1>1, <1>2, PipelineTypes, PTL DEF Spec

-----------------------------------------------------------------------------
(* Fairness of the two work queues *)

\* Steps that serve no visible and no low command and do not end a poll for one.
ServesNeither ==
  /\ UNCHANGED <<passedOver, visibleBudget>>
  /\ pc' = "pollVisible" =>
       pc = "pollVisible" \/ (pc = "pollControl" /\ visibleBudget < VisibleBurst)
  /\ queue["low"] # <<>> => queue'["low"] # <<>>

LEMMA EnqueueKeepsLow ==
  ASSUME TypeOK, NEW c \in Command, Enqueue(c)
  PROVE  queue["low"] # <<>> => queue'["low"] # <<>>
<1>1. queue \in [Lanes -> Seq(Command)] /\ LaneOf(c) \in Lanes
  BY DEF TypeOK, ChannelsOK, LaneOf, Lanes
<1>2. Append(queue[LaneOf(c)], c) # <<>>
  BY <1>1
<1>3. "low" \in Lanes
  BY DEF Lanes
<1>. QED BY <1>1, <1>2, <1>3 DEF Enqueue

LEMMA UiServesNeither ==
  ASSUME TypeOK, UiNext
  PROVE  ServesNeither
<1> USE DEF ServesNeither, sharedVars, uiVars, workerVars
<1>1. ASSUME NEW job \in Job, SendRender(job) PROVE ServesNeither
  <2>1. job \in Command
    BY DEF Command
  <2>. QED BY <1>1, <2>1, EnqueueKeepsLow DEF SendRender
<1>2. ASSUME NEW c \in Command, SendCommand(c) PROVE ServesNeither
  BY <1>2, EnqueueKeepsLow DEF SendCommand
<1>3. CASE InsertPending \/ BumpGeneration \/ SetInvertColors \/ PollCritical \/ PollEvent
           \/ JoinWorker \/ JoinTimeout \/ \E next \in {"joining", "dropping"} : Shutdown(next)
  BY <1>3 DEF InsertPending, BumpGeneration, SetInvertColors, PollCritical, PollEvent,
              JoinWorker, JoinTimeout, Shutdown
<1>. QED BY UiStep, <1>1, <1>2, <1>3 DEF UiCalls

LEMMA WorkerServesNeither ==
  ASSUME TypeOK, WorkerNext, ~ PollVisible, ~ PollLow
  PROVE  ServesNeither
<1> USE DEF ServesNeither, sharedVars, uiVars
<1>1. CASE PollShutdown \/ Wake
  BY <1>1 DEF PollShutdown, Wake
<1>2. CASE PollControl
  <2>1. queue \in [Lanes -> Seq(Command)]
    BY DEF TypeOK, ChannelsOK
  <2>2. queue'["low"] = queue["low"]
    BY <1>2, <2>1 DEF PollControl, Poll, Lanes
  <2>3. CASE queue["control"] # <<>>
    <3>1. Head(queue["control"]) \in Command
      BY <2>1, <2>3 DEF Lanes
    <3>2. pc' = Head(queue["control"]).type
      BY <1>2, <2>3 DEF PollControl, Poll
    <3>3. pc' # "pollVisible"
      BY <3>1, <3>2 DEF Command, Job, Text, DocumentCommand
    <3>. QED BY <1>2, <2>2, <3>3 DEF PollControl
  <2>4. CASE queue["control"] = <<>>
    <3>1. visibleBudget \in Nat /\ VisibleBurst \in Nat
      BY PipelineAssumption DEF TypeOK, CountersOK
    <3>. QED BY <1>2, <2>2, <2>4, <3>1 DEF PollControl, Poll
  <2>. QED BY <2>3, <2>4
<1>3. CASE OpenDocument \/ CloseDocument \/ ShutdownCommand \/ RenderPage \/ LookUp \/ Draw
  BY <1>3 DEF OpenDocument, CloseDocument, ShutdownCommand, RenderPage, LookUp, Draw, Emit,
              Failed, Return
<1>4. CASE Keep \/ Unpend \/ FetchText \/ QueryDocument \/ SearchPage
  BY <1>4 DEF Keep, Unpend, FetchText, QueryDocument, SearchPage, Emit, Failed, Return
<1>5. CASE EmitEvent \/ EmitCritical \/ SendCritical
  BY <1>5 DEF EmitEvent, EmitCritical, SendCritical, Emit, Return
<1>. QED BY <1>1, <1>2, <1>3, <1>4, <1>5 DEF WorkerNext

\* Why nothing starves: visible_budget counts what a waiting low command has been
\* passed over by, and a worker that has reached the burst takes its look at the
\* low queue before the visible one.
BurstIsBounded ==
  /\ passedOver <= visibleBudget
  /\ passedOver > 0 => queue["low"] # <<>>
  /\ pc = "pollVisible" /\ visibleBudget >= VisibleBurst => passedOver = 0

\* For all constants: a background command is passed over by at most VISIBLE_BURST
\* visible ones.
THEOREM LowIsServed == Spec => []LowIsNotStarved
<1>1. Init => BurstIsBounded
  BY DEF Init, BurstIsBounded
<1>2. TypeOK /\ BurstIsBounded /\ [Next]_vars => BurstIsBounded'
  <2> SUFFICES ASSUME TypeOK, BurstIsBounded, [Next]_vars PROVE BurstIsBounded'
    OBVIOUS
  <2>0. /\ visibleBudget \in 0..VisibleBurst /\ passedOver \in Nat
        /\ VisibleBurst \in Nat \ {0}
        /\ queue \in [Lanes -> Seq(Command)]
    BY PipelineAssumption DEF TypeOK, CountersOK, ChannelsOK
  <2> USE DEF BurstIsBounded
  <2>1. CASE ServesNeither
    BY <2>0, <2>1 DEF ServesNeither
  <2>2. CASE PollVisible
    <3>1. queue'["low"] = queue["low"]
      BY <2>0, <2>2 DEF PollVisible, Poll, Lanes
    <3>2. CASE queue["visible"] # <<>>
      <4>1. Head(queue["visible"]) \in Command
        BY <2>0, <3>2 DEF Lanes
      <4>2. pc' = Head(queue["visible"]).type
        BY <2>2, <3>2 DEF PollVisible, Poll
      <4>3. pc' # "pollVisible"
        BY <4>1, <4>2 DEF Command, Job, Text, DocumentCommand
      <4>. QED BY <2>0, <2>2, <3>1, <3>2, <4>3 DEF PollVisible
    <3>3. CASE queue["visible"] = <<>>
      BY <2>0, <2>2, <3>1, <3>3 DEF PollVisible, Poll
    <3>. QED BY <3>2, <3>3
  <2>3. CASE PollLow
    <3>1. CASE queue["low"] # <<>>
      <4>1. passedOver' = 0 /\ visibleBudget' = 0
        BY <2>3, <3>1 DEF PollLow
      <4>. QED BY <4>1
    <3>2. CASE queue["low"] = <<>>
      <4>1. passedOver = 0
        BY <2>0, <3>2
      <4>. QED BY <2>0, <2>3, <3>2, <4>1 DEF PollLow
    <3>. QED BY <3>1, <3>2
  <2>4. CASE \E d \in Docs : FileChanged(d)
    BY <2>4, <2>1 DEF FileChanged, ServesNeither, workerVars
  <2>5. CASE UNCHANGED vars
    BY <2>5, <2>1 DEF vars, ServesNeither, workerVars
  <2>. QED BY <2>1, <2>2, <2>3, <2>4, <2>5, UiServesNeither, WorkerServesNeither DEF Next
<1>3. TypeOK /\ BurstIsBounded => LowIsNotStarved
  BY PipelineAssumption DEF TypeOK, CountersOK, BurstIsBounded, LowIsNotStarved
<1>. QED BY <1>1, <1>2, <1>3, PipelineTypes, PTL DEF Spec

-----------------------------------------------------------------------------
(* The end of the worker as the UI sees it *)

\* The worker takes steps only while it runs.
LEMMA WorkerRuns ==
  ASSUME WorkerNext
  PROVE  Running
<1> USE DEF Running
<1>1. CASE PollShutdown \/ PollControl \/ PollVisible \/ PollLow \/ Wake
  BY <1>1 DEF PollShutdown, PollControl, PollVisible, PollLow, Wake
<1>2. CASE OpenDocument \/ CloseDocument \/ ShutdownCommand \/ RenderPage \/ LookUp \/ Draw
  BY <1>2 DEF OpenDocument, CloseDocument, ShutdownCommand, RenderPage, LookUp, Draw
<1>3. CASE Keep \/ Unpend \/ FetchText \/ QueryDocument \/ SearchPage
  BY <1>3 DEF Keep, Unpend, FetchText, QueryDocument, SearchPage
<1>4. CASE EmitEvent \/ EmitCritical \/ SendCritical
  BY <1>4 DEF EmitEvent, EmitCritical, SendCritical
<1>. QED BY <1>1, <1>2, <1>3, <1>4 DEF WorkerNext

\* What each of the two looks of try_recv_event has established: nobody sends once
\* a channel was seen closed, so what was empty then stays empty.
ClosedIsEmpty ==
  /\ uiPc = "criticalClosed" => ~ Running /\ events["critical"] = <<>>
  /\ stoppedReported => ~ Running /\ events["critical"] = <<>> /\ events["event"] = <<>>

\* For all constants: WorkerStopped is reported only when both event queues are
\* empty.
THEOREM StoppedIsDrained == Spec => []StoppedMeansDrained
<1>1. Init => ClosedIsEmpty
  BY DEF Init, ClosedIsEmpty
<1>2. TypeOK /\ ClosedIsEmpty /\ [Next]_vars => ClosedIsEmpty'
  <2> SUFFICES ASSUME TypeOK, ClosedIsEmpty, [Next]_vars PROVE ClosedIsEmpty'
    OBVIOUS
  <2>0. events \in [EventLanes -> Seq(Event)]
    BY DEF TypeOK, ChannelsOK
  <2> USE DEF ClosedIsEmpty, Running, sharedVars, uiVars, workerVars
  <2>1. CASE UiNext
    <3>1. ASSUME NEW job \in Job, SendRender(job) PROVE ClosedIsEmpty'
      BY <3>1 DEF SendRender
    <3>2. ASSUME NEW c \in Command, SendCommand(c) PROVE ClosedIsEmpty'
      BY <3>2 DEF SendCommand
    <3>3. CASE InsertPending \/ BumpGeneration \/ SetInvertColors
      BY <3>3 DEF InsertPending, BumpGeneration, SetInvertColors
    <3>4. CASE PollCritical
      BY <3>4, <2>0 DEF PollCritical, EventLanes
    <3>5. CASE PollEvent
      BY <3>5, <2>0 DEF PollEvent, EventLanes
    <3>6. CASE JoinWorker \/ JoinTimeout \/ \E next \in {"joining", "dropping"} : Shutdown(next)
      BY <3>6 DEF JoinWorker, JoinTimeout, AfterShutdown, Shutdown
    <3>. QED BY <2>1, UiStep, <3>1, <3>2, <3>3, <3>4, <3>5, <3>6 DEF UiCalls
  <2>2. CASE WorkerNext
    BY <2>2, WorkerRuns, WorkerFrame
  <2>3. CASE \E d \in Docs : FileChanged(d)
    BY <2>3 DEF FileChanged
  <2>4. CASE UNCHANGED vars
    BY <2>4 DEF vars
  <2>. QED BY <2>1, <2>2, <2>3, <2>4 DEF Next
<1>3. ClosedIsEmpty => StoppedMeansDrained
  BY DEF ClosedIsEmpty, StoppedMeansDrained, EventLanes
<1>. QED BY <1>1, <1>2, <1>3, PipelineTypes, PTL DEF Spec

-----------------------------------------------------------------------------
(* The pending set and the jobs in the pipeline agree *)

WorkLanes == {"visible", "low"}
Hand == <<"worker", 1>>

\* The inductive invariant, in parts.

\* A render never takes the control queue.
ControlHasNoJob ==
  \A i \in 1..Len(queue["control"]) : queue["control"][i].type # "render"

\* A key in the set, or about to be inserted, has a job.
KeysHaveJobs ==
  \A k \in pendingRenders \cup ({uiKey} \ {None}) : \E p \in Places : IsScheduledAt(p, k)

\* No job is of a generation to come; a job of the current one has its key in the
\* set, or about to be inserted.
JobsHaveKeys ==
  \A p \in Places : At(p).type = "render" =>
    /\ At(p).generation <= currentGeneration
    /\ At(p).generation = currentGeneration => Key(At(p)) \in pendingRenders \cup {uiKey}

\* One key, one job.
JobsAreUnique ==
  \A p, q \in Places :
    /\ At(p).type = "render" /\ At(q).type = "render"
    /\ Key(At(p)) = Key(At(q)) /\ At(p).generation = currentGeneration
    => p = q

JobsAgree == ControlHasNoJob /\ KeysHaveJobs /\ JobsHaveKeys /\ JobsAreUnique

-----------------------------------------------------------------------------
(* Places *)

LEMMA PlacesAre ==
  ASSUME TypeOK
  PROVE  /\ \A p : p \in Places <=>
                 p = Hand \/ \E lane \in WorkLanes : \E i \in 1..Len(queue[lane]) : p = <<lane, i>>
         /\ At(Hand) = command
         /\ \A lane \in WorkLanes : \A i \in 1..Len(queue[lane]) : At(<<lane, i>>) = queue[lane][i]
<1>1. \A lane \in WorkLanes : DOMAIN queue[lane] = 1..Len(queue[lane])
  BY DEF TypeOK, ChannelsOK, WorkLanes, Lanes
<1>. QED BY <1>1 DEF Places, At, Hand, WorkLanes

LEMMA PlacesAreNext ==
  ASSUME TypeOK'
  PROVE  /\ \A p : p \in Places' <=>
                 p = Hand \/ \E lane \in WorkLanes : \E i \in 1..Len(queue'[lane]) : p = <<lane, i>>
         /\ At(Hand)' = command'
         /\ \A lane \in WorkLanes : \A i \in 1..Len(queue'[lane]) :
              At(<<lane, i>>)' = queue'[lane][i]
<1>1. \A lane \in WorkLanes : DOMAIN queue'[lane] = 1..Len(queue'[lane])
  BY DEF TypeOK, ChannelsOK, WorkLanes, Lanes
<1>. QED BY <1>1 DEF Places, At, Hand, WorkLanes

LEMMA PlacesHoldCommands ==
  ASSUME TypeOK, NEW p \in Places, At(p).type = "render"
  PROVE  At(p) \in Job
<1>1. queue \in [Lanes -> Seq(Command)]
  BY DEF TypeOK, ChannelsOK
<1>2. command \in Command \cup {None}
  BY DEF TypeOK, InHandOK, Command
<1>3. At(p) \in Command \cup {None}
  <2>1. CASE p = Hand
    BY <2>1, <1>2, PlacesAre
  <2>2. ASSUME NEW lane \in WorkLanes, NEW i \in 1..Len(queue[lane]), p = <<lane, i>>
        PROVE  At(p) \in Command
    BY <2>2, <1>1, PlacesAre DEF WorkLanes, Lanes
  <2>. QED BY <2>1, <2>2, PlacesAre
<1>. QED BY <1>3 DEF Command, Job, Text, DocumentCommand, None

LEMMA KeyOfJob ==
  ASSUME NEW job \in Job
  PROVE  /\ Key(job) \in RenderKey
         /\ Key(job).generation = job.generation
         /\ Key(job) # None
<1>1. job.target \in Targets /\ job.doc \in Docs /\ job.generation \in Generations
  BY DEF Job
<1>2. job.target.kind \in Kinds
  BY <1>1, PipelineAssumption
<1>3. Key(job) \in RenderKey /\ Key(job).generation = job.generation
  BY <1>1, <1>2 DEF Key, RenderKey, Pages, Sizes
<1>4. \A k \in RenderKey : k # None
  BY DEF RenderKey, None
<1>. QED BY <1>3, <1>4

-----------------------------------------------------------------------------
(* What the worker's steps do to the jobs: nothing, take one, or finish one *)

Rests ==
  /\ \A lane \in WorkLanes : queue'[lane] = queue[lane]
  /\ command' = command \/ (command.type # "render" /\ command'.type # "render")
  /\ ControlHasNoJob => ControlHasNoJob'
  /\ UNCHANGED pendingRenders

Takes(lane) ==
  /\ command = None
  /\ queue[lane] # <<>>
  /\ command' = Head(queue[lane])
  /\ queue' = [queue EXCEPT ![lane] = Tail(@)]
  /\ UNCHANGED pendingRenders

LEMMA QueueAndHandRest ==
  ASSUME TypeOK, UNCHANGED <<queue, pendingRenders>>,
         command' = command \/ (command.type # "render" /\ command'.type # "render")
  PROVE  Rests
BY DEF Rests, ControlHasNoJob

LEMMA ReturnRests ==
  ASSUME TypeOK, UNCHANGED <<queue, pendingRenders>>, NEW b \in BOOLEAN, Return(b)
  PROVE  Rests
<1>1. command' = command \/ (command.type # "render" /\ command'.type # "render")
  BY DEF Return, None
<1>. QED BY <1>1, QueueAndHandRest

LEMMA WorkerOnJobs ==
  ASSUME TypeOK, ControlHasNoJob, WorkerNext
  PROVE  Rests \/ (\E lane \in WorkLanes : Takes(lane)) \/ Unpend
<1>0. /\ queue \in [Lanes -> Seq(Command)]
      /\ pc \in ReceivePcs => command = None
  BY DEF TypeOK, ChannelsOK, InHandOK
<1> USE DEF sharedVars
<1>1. CASE PollShutdown \/ Wake \/ Draw
  BY <1>1, QueueAndHandRest DEF PollShutdown, Wake, Draw, Emit, Failed
<1>2. CASE PollControl
  <2>1. command = None
    BY <1>0, <1>2 DEF PollControl, ReceivePcs
  <2>2. CASE queue["control"] # <<>>
    <3>1. /\ command' = Head(queue["control"])
          /\ queue' = [queue EXCEPT !["control"] = Tail(@)]
          /\ UNCHANGED pendingRenders
      BY <1>2, <2>2 DEF PollControl, Poll
    <3>2. queue["control"] \in Seq(Command)
      BY <1>0 DEF Lanes
    <3>3. /\ Len(queue["control"]) \in Nat \ {0}
          /\ Head(queue["control"]) = queue["control"][1]
          /\ Len(Tail(queue["control"])) = Len(queue["control"]) - 1
          /\ \A i \in 1..(Len(queue["control"]) - 1) :
               Tail(queue["control"])[i] = queue["control"][i + 1]
      BY <3>2, <2>2
    <3>4. queue'["control"] = Tail(queue["control"])
      BY <3>1, <1>0 DEF Lanes
    <3>5. ControlHasNoJob'
      <4> SUFFICES ASSUME NEW i \in 1..Len(queue'["control"])
                   PROVE  queue'["control"][i].type # "render"
        BY DEF ControlHasNoJob
      <4>1. i + 1 \in 1..Len(queue["control"]) /\ i \in 1..(Len(queue["control"]) - 1)
        BY <3>3, <3>4
      <4>. QED BY <3>3, <3>4, <4>1 DEF ControlHasNoJob
    <3>6. command'.type # "render"
      BY <3>1, <3>3 DEF ControlHasNoJob
    <3>7. \A lane \in WorkLanes : queue'[lane] = queue[lane]
      BY <3>1, <1>0 DEF WorkLanes, Lanes
    <3>. QED BY <2>1, <3>1, <3>5, <3>6, <3>7 DEF Rests, None
  <2>3. CASE queue["control"] = <<>>
    BY <1>2, <2>3, QueueAndHandRest DEF PollControl, Poll
  <2>. QED BY <2>2, <2>3
<1>3. CASE PollVisible
  <2>1. command = None
    BY <1>0, <1>3 DEF PollVisible, ReceivePcs
  <2>2. CASE queue["visible"] # <<>>
    BY <1>3, <2>1, <2>2 DEF PollVisible, Poll, Takes, WorkLanes
  <2>3. CASE queue["visible"] = <<>>
    BY <1>3, <2>3, QueueAndHandRest DEF PollVisible, Poll
  <2>. QED BY <2>2, <2>3
<1>4. CASE PollLow
  <2>1. command = None
    BY <1>0, <1>4 DEF PollLow, ReceivePcs
  <2>2. CASE queue["low"] # <<>>
    BY <1>4, <2>1, <2>2 DEF PollLow, Poll, Takes, WorkLanes
  <2>3. CASE queue["low"] = <<>>
    BY <1>4, <2>3, QueueAndHandRest DEF PollLow, Poll
  <2>. QED BY <2>2, <2>3
<1>5. CASE OpenDocument \/ CloseDocument \/ ShutdownCommand \/ RenderPage \/ LookUp
  BY <1>5, QueueAndHandRest, ReturnRests DEF OpenDocument, CloseDocument, ShutdownCommand,
     RenderPage, LookUp, Emit, Failed
<1>6. CASE Keep \/ FetchText \/ QueryDocument \/ SearchPage
  BY <1>6, QueueAndHandRest, ReturnRests DEF Keep, FetchText, QueryDocument, SearchPage, Emit,
     Failed
<1>7. CASE EmitEvent \/ EmitCritical \/ SendCritical
  BY <1>7, QueueAndHandRest, ReturnRests DEF EmitEvent, EmitCritical, SendCritical, Emit
<1>. QED BY <1>1, <1>2, <1>3, <1>4, <1>5, <1>6, <1>7 DEF WorkerNext

-----------------------------------------------------------------------------
(* Each kind of step keeps keys and jobs in agreement *)

LEMMA RestKeeps ==
  ASSUME TypeOK, TypeOK', JobsAgree, Rests, UNCHANGED <<currentGeneration, uiKey>>
  PROVE  JobsAgree'
<1>1. \A p : p \in Places' <=> p \in Places
  BY PlacesAre, PlacesAreNext DEF Rests
<1>2. \A p \in Places :
        \/ At(p)' = At(p)
        \/ At(p).type # "render" /\ At(p)'.type # "render"
  <2>1. CASE command' = command
    BY <2>1, PlacesAre, PlacesAreNext DEF Rests
  <2>2. CASE command.type # "render" /\ command'.type # "render"
    BY <2>2, PlacesAre, PlacesAreNext DEF Rests
  <2>. QED BY <2>1, <2>2 DEF Rests
<1>3. KeysHaveJobs'
  BY <1>1, <1>2 DEF JobsAgree, KeysHaveJobs, IsScheduledAt, Rests
<1>4. JobsHaveKeys'
  BY <1>1, <1>2 DEF JobsAgree, JobsHaveKeys, Rests
<1>5. JobsAreUnique'
  BY <1>1, <1>2 DEF JobsAgree, JobsAreUnique
<1>. QED BY <1>3, <1>4, <1>5 DEF JobsAgree, Rests

\* Where a job was before the worker took the head of a lane.
Before(lane, p) ==
  IF p = Hand THEN <<lane, 1>> ELSE IF p[1] = lane THEN <<lane, p[2] + 1>> ELSE p

LEMMA TakeMoves ==
  ASSUME TypeOK, TypeOK', NEW lane \in WorkLanes, Takes(lane)
  PROVE  /\ \A p \in Places' : Before(lane, p) \in Places /\ At(p)' = At(Before(lane, p))
         /\ \A p, q \in Places' : Before(lane, p) = Before(lane, q) => p = q
         /\ \A p \in Places \ {Hand} : \E q \in Places' : Before(lane, q) = p
<1>1. queue[lane] \in Seq(Command) /\ queue \in [Lanes -> Seq(Command)] /\ lane \in Lanes
  BY DEF TypeOK, ChannelsOK, WorkLanes, Lanes
<1> DEFINE s == queue[lane]
<1>2. /\ Len(s) \in Nat \ {0}
      /\ Head(s) = s[1]
      /\ Len(Tail(s)) = Len(s) - 1
      /\ \A i \in 1..(Len(s) - 1) : Tail(s)[i] = s[i + 1]
  BY <1>1 DEF Takes
<1>3. queue'[lane] = Tail(s) /\ \A other \in WorkLanes \ {lane} : queue'[other] = queue[other]
  BY <1>1 DEF Takes, WorkLanes, Lanes
<1>4. command' = s[1]
  BY <1>2 DEF Takes
<1> HIDE DEF s
<1>5. ASSUME NEW p \in Places'
      PROVE  Before(lane, p) \in Places /\ At(p)' = At(Before(lane, p))
  <2>1. CASE p = Hand
    <3>1. 1 \in 1..Len(s)
      BY <1>2
    <3>2. <<lane, 1>> \in Places /\ At(<<lane, 1>>) = s[1]
      BY <3>1, PlacesAre DEF s
    <3>. QED BY <2>1, <1>4, <3>2, PlacesAreNext DEF Before
  <2>2. ASSUME NEW i \in 1..Len(queue'[lane]), p = <<lane, i>>
        PROVE  Before(lane, p) \in Places /\ At(p)' = At(Before(lane, p))
    <3>1. i \in 1..(Len(s) - 1) /\ i + 1 \in 1..Len(s)
      BY <1>2, <1>3
    <3>2. p # Hand /\ p[1] = lane /\ p[2] = i
      BY <2>2 DEF Hand, WorkLanes
    <3>3. Before(lane, p) = <<lane, i + 1>>
      BY <3>2 DEF Before
    <3>4. <<lane, i + 1>> \in Places /\ At(<<lane, i + 1>>) = s[i + 1]
      BY <3>1, PlacesAre DEF s
    <3>5. At(p)' = Tail(s)[i]
      BY <2>2, <1>3, PlacesAreNext
    <3>. QED BY <1>2, <3>1, <3>3, <3>4, <3>5
  <2>3. ASSUME NEW other \in WorkLanes \ {lane}, NEW i \in 1..Len(queue'[other]),
               p = <<other, i>>
        PROVE  Before(lane, p) \in Places /\ At(p)' = At(Before(lane, p))
    <3>1. Before(lane, p) = p
      BY <2>3 DEF Before, Hand, WorkLanes
    <3>2. i \in 1..Len(queue[other])
      BY <1>3
    <3>3. p \in Places /\ At(p) = queue[other][i]
      BY <2>3, <3>2, PlacesAre
    <3>4. At(p)' = queue'[other][i]
      BY <2>3, PlacesAreNext
    <3>. QED BY <3>1, <3>3, <3>4, <1>3
  <2>. QED BY <2>1, <2>2, <2>3, PlacesAreNext
<1>6. ASSUME NEW p \in Places', NEW q \in Places', Before(lane, p) = Before(lane, q)
      PROVE  p = q
  <2>1. \A r \in Places' :
          \/ r = Hand /\ Before(lane, r) = <<lane, 1>>
          \/ \E i \in Nat \ {0} : r = <<lane, i>> /\ Before(lane, r) = <<lane, i + 1>>
          \/ \E other \in WorkLanes \ {lane} : \E i \in Nat : r = <<other, i>> /\ Before(lane, r) = r
    <3> SUFFICES ASSUME NEW r \in Places'
                 PROVE \/ r = Hand /\ Before(lane, r) = <<lane, 1>>
                       \/ \E i \in Nat \ {0} : r = <<lane, i>> /\ Before(lane, r) = <<lane, i + 1>>
                       \/ \E other \in WorkLanes \ {lane} : \E i \in Nat :
                            r = <<other, i>> /\ Before(lane, r) = r
      OBVIOUS
    <3>1. CASE r = Hand
      BY <3>1 DEF Before
    <3>2. ASSUME NEW i \in 1..Len(queue'[lane]), r = <<lane, i>>
          PROVE  i \in Nat \ {0} /\ r = <<lane, i>> /\ Before(lane, r) = <<lane, i + 1>>
      BY <3>2, <1>2, <1>3 DEF Before, Hand, WorkLanes
    <3>3. ASSUME NEW other \in WorkLanes \ {lane}, NEW i \in 1..Len(queue'[other]),
                 r = <<other, i>>
          PROVE  i \in Nat /\ r = <<other, i>> /\ Before(lane, r) = r
      BY <3>3 DEF Before, Hand, WorkLanes
    <3>. QED BY <3>1, <3>2, <3>3, PlacesAreNext
  <2>. QED BY <2>1, <1>6
<1>7. ASSUME NEW p \in Places \ {Hand}
      PROVE  \E q \in Places' : Before(lane, q) = p
  <2>1. ASSUME NEW i \in 1..Len(s), p = <<lane, i>>
        PROVE  \E q \in Places' : Before(lane, q) = p
    <3>1. CASE i = 1
      BY <2>1, <3>1, PlacesAreNext DEF Before
    <3>2. CASE i # 1
      <4>1. i - 1 \in 1..Len(queue'[lane]) /\ (i - 1) + 1 = i
        BY <3>2, <1>2, <1>3
      <4>2. <<lane, i - 1>> \in Places'
        BY <4>1, PlacesAreNext
      <4>3. Before(lane, <<lane, i - 1>>) = <<lane, i>>
        BY <4>1 DEF Before, Hand, WorkLanes
      <4>. QED BY <2>1, <4>2, <4>3
    <3>. QED BY <3>1, <3>2
  <2>2. ASSUME NEW other \in WorkLanes \ {lane}, NEW i \in 1..Len(queue[other]),
               p = <<other, i>>
        PROVE  \E q \in Places' : Before(lane, q) = p
    <3>1. i \in 1..Len(queue'[other])
      BY <1>3
    <3>2. p \in Places'
      BY <2>2, <3>1, PlacesAreNext
    <3>3. Before(lane, p) = p
      BY <2>2 DEF Before, Hand, WorkLanes
    <3>. QED BY <3>2, <3>3
  <2>. QED BY <2>1, <2>2, PlacesAre DEF s
<1>. QED BY <1>5, <1>6, <1>7

LEMMA TakeKeeps ==
  ASSUME TypeOK, TypeOK', JobsAgree, NEW lane \in WorkLanes, Takes(lane),
         UNCHANGED <<currentGeneration, uiKey>>
  PROVE  JobsAgree'
<1>1. /\ \A p \in Places' : Before(lane, p) \in Places /\ At(p)' = At(Before(lane, p))
      /\ \A p, q \in Places' : Before(lane, p) = Before(lane, q) => p = q
      /\ \A p \in Places \ {Hand} : \E q \in Places' : Before(lane, q) = p
  BY TakeMoves
<1>2. At(Hand).type # "render"
  BY PlacesAre DEF Takes, None
<1>3. ControlHasNoJob'
  <2>1. queue'["control"] = queue["control"]
    BY DEF Takes, WorkLanes, TypeOK, ChannelsOK, Lanes
  <2>. QED BY <2>1 DEF ControlHasNoJob, JobsAgree
<1>4. KeysHaveJobs'
  <2> SUFFICES ASSUME NEW k \in pendingRenders \cup ({uiKey} \ {None})
               PROVE  \E q \in Places' : At(q)'.type = "render" /\ Key(At(q)') = k
    BY DEF KeysHaveJobs, IsScheduledAt, Takes, Key
  <2>1. PICK p \in Places : At(p).type = "render" /\ Key(At(p)) = k
    BY DEF JobsAgree, KeysHaveJobs, IsScheduledAt
  <2>2. p # Hand
    BY <1>2, <2>1
  <2>. QED BY <1>1, <2>1, <2>2
<1>5. JobsHaveKeys'
  BY <1>1 DEF JobsAgree, JobsHaveKeys, Takes, Key
<1>6. JobsAreUnique'
  BY <1>1 DEF JobsAgree, JobsAreUnique, Takes, Key
<1>. QED BY <1>3, <1>4, <1>5, <1>6 DEF JobsAgree

\* With the lock free no key waits to be inserted; the worker gives up its job
\* and that job's key together.
LEMMA UnpendKeeps ==
  ASSUME TypeOK, TypeOK', JobsAgree, Unpend
  PROVE  JobsAgree'
<1>1. uiKey = None /\ command \in Job
  BY DEF Unpend, TypeOK, SchedulerOK, InHandOK, RenderPcs
<1>2. /\ queue' = queue /\ command' = None
      /\ pendingRenders' = pendingRenders \ {Key(command)}
      /\ UNCHANGED <<currentGeneration, uiKey>>
  BY DEF Unpend, uiVars
<1>3. command.type = "render" /\ At(Hand) = command /\ Hand \in Places
  BY <1>1, PlacesAre DEF Job
<1>4. \A p : p \in Places' <=> p \in Places
  BY <1>2, PlacesAre, PlacesAreNext
<1>5. \A p \in Places \ {Hand} : At(p)' = At(p)
  BY <1>2, PlacesAre, PlacesAreNext
<1>6. At(Hand)' = None /\ None.type # "render"
  BY <1>2, PlacesAreNext DEF None
<1>7. ControlHasNoJob'
  BY <1>2 DEF ControlHasNoJob, JobsAgree
<1>8. KeysHaveJobs'
  <2> SUFFICES ASSUME NEW k \in pendingRenders \ {Key(command)}
               PROVE  \E q \in Places' : IsScheduledAt(q, k)'
    BY <1>1, <1>2 DEF KeysHaveJobs
  <2>1. PICK p \in Places : IsScheduledAt(p, k)
    BY DEF JobsAgree, KeysHaveJobs
  <2>2. p # Hand
    BY <1>3, <2>1 DEF IsScheduledAt
  <2>. QED BY <1>4, <1>5, <2>1, <2>2 DEF IsScheduledAt
<1>9. JobsHaveKeys'
  <2> SUFFICES ASSUME NEW p \in Places', At(p)'.type = "render"
               PROVE  /\ At(p)'.generation <= currentGeneration
                      /\ At(p)'.generation = currentGeneration =>
                           Key(At(p)') \in (pendingRenders \ {Key(command)}) \cup {uiKey}
    BY <1>2 DEF JobsHaveKeys, Key
  <2>1. p \in Places \ {Hand} /\ At(p)' = At(p)
    BY <1>4, <1>5, <1>6
  <2>2. At(p).generation <= currentGeneration
    BY <2>1 DEF JobsAgree, JobsHaveKeys
  <2>3. ASSUME At(p).generation = currentGeneration
        PROVE  Key(At(p)) \in (pendingRenders \ {Key(command)}) \cup {uiKey}
    <3>1. Key(At(p)) \in pendingRenders \cup {uiKey}
      BY <2>1, <2>3 DEF JobsAgree, JobsHaveKeys
    <3>2. Key(At(p)) # Key(command)
      BY <1>3, <2>1, <2>3 DEF JobsAgree, JobsAreUnique
    <3>. QED BY <3>1, <3>2
  <2>. QED BY <2>1, <2>2, <2>3
<1>10. JobsAreUnique'
  BY <1>2, <1>4, <1>5, <1>6 DEF JobsAgree, JobsAreUnique, Key
<1>. QED BY <1>7, <1>8, <1>9, <1>10 DEF JobsAgree

\* A command joins a lane: one more place, at the end.
LEMMA AppendMoves ==
  ASSUME TypeOK, TypeOK', NEW lane \in WorkLanes, NEW c \in Command,
         queue' = [queue EXCEPT ![lane] = Append(@, c)], UNCHANGED command
  PROVE  \E new : /\ new \notin Places
                  /\ \A p : p \in Places' <=> p \in Places \cup {new}
                  /\ At(new)' = c
                  /\ \A p \in Places : At(p)' = At(p)
<1> DEFINE s == queue[lane]
<1>0. PICK n : n = Len(s) + 1
  OBVIOUS
<1> DEFINE new == <<lane, n>>
<1>1. queue \in [Lanes -> Seq(Command)] /\ lane \in Lanes /\ s \in Seq(Command)
  BY DEF TypeOK, ChannelsOK, WorkLanes, Lanes
<1>2. queue'[lane] = Append(s, c) /\ \A other \in WorkLanes \ {lane} : queue'[other] = queue[other]
  BY <1>1 DEF WorkLanes, Lanes
<1>3. /\ Len(s) \in Nat /\ Len(Append(s, c)) = n
      /\ Append(s, c)[n] = c
      /\ \A i \in 1..Len(s) : Append(s, c)[i] = s[i]
  BY <1>0, <1>1
<1>4. \A i : i \in 1..n <=> i \in 1..Len(s) \/ i = n
  BY <1>0, <1>3
<1>5. n \notin 1..Len(s)
  BY <1>0, <1>3
<1>6. new # Hand /\ \A other \in WorkLanes \ {lane} : \A i : new # <<other, i>>
  BY DEF Hand, WorkLanes
<1>7. new \notin Places
  BY <1>5, <1>6, PlacesAre
<1>8. \A p : p \in Places' <=> p \in Places \cup {new}
  <2>1. ASSUME NEW p PROVE p \in Places' <=> p = Hand \/ \E l \in WorkLanes : \E i \in 1..Len(queue'[l]) : p = <<l, i>>
    BY PlacesAreNext
  <2>2. ASSUME NEW p PROVE p \in Places <=> p = Hand \/ \E l \in WorkLanes : \E i \in 1..Len(queue[l]) : p = <<l, i>>
    BY PlacesAre
  <2>3. ASSUME NEW p
        PROVE  (\E i \in 1..Len(queue'[lane]) : p = <<lane, i>>)
                 <=> (\E i \in 1..Len(s) : p = <<lane, i>>) \/ p = new
    BY <1>2, <1>3, <1>4
  <2> HIDE DEF new
  <2>. QED BY <1>2, <2>1, <2>2, <2>3
<1>9. At(new)' = c
  BY <1>2, <1>3, <1>4, PlacesAreNext
<1>10. ASSUME NEW p \in Places PROVE At(p)' = At(p)
  <2>1. CASE p = Hand
    BY <2>1, PlacesAre, PlacesAreNext
  <2>2. ASSUME NEW i \in 1..Len(s), p = <<lane, i>>
        PROVE  At(p)' = At(p)
    BY <2>2, <1>2, <1>3, <1>4, PlacesAre, PlacesAreNext
  <2>3. ASSUME NEW other \in WorkLanes \ {lane}, NEW i \in 1..Len(queue[other]),
               p = <<other, i>>
        PROVE  At(p)' = At(p)
    BY <2>3, <1>2, PlacesAre, PlacesAreNext
  <2>. QED BY <2>1, <2>2, <2>3, PlacesAre
<1>. QED BY <1>7, <1>8, <1>9, <1>10

\* The duplicate check: a second job of the key would find the key in the set.
LEMMA SendRenderKeeps ==
  ASSUME TypeOK, TypeOK', JobsAgree, NEW job \in Job, job.generation = currentGeneration,
         SendRender(job)
  PROVE  JobsAgree'
<1>1. LaneOf(job) \in WorkLanes /\ job \in Command /\ job.type = "render"
  BY DEF LaneOf, Job, WorkLanes, Command
<1>2. /\ uiKey = None /\ uiKey' = Key(job)
      /\ queue' = [queue EXCEPT ![LaneOf(job)] = Append(@, job)]
      /\ Key(job) \notin pendingRenders
      /\ UNCHANGED <<pendingRenders, currentGeneration, command>>
  BY DEF SendRender, Enqueue, sharedVars, workerVars, TypeOK, SchedulerOK
<1>3. PICK new : /\ new \notin Places
                 /\ \A p : p \in Places' <=> p \in Places \cup {new}
                 /\ At(new)' = job
                 /\ \A p \in Places : At(p)' = At(p)
  BY <1>1, <1>2, AppendMoves
<1>4. Key(job).generation = currentGeneration /\ Key(job) # None
  BY KeyOfJob
<1>5. \A p \in Places : At(p).type = "render" =>
        Key(At(p)).generation = At(p).generation /\ Key(At(p)) # None
  BY PlacesHoldCommands, KeyOfJob
<1>6. \A p \in Places : At(p).type = "render" => Key(At(p)) # Key(job)
  BY <1>2, <1>4, <1>5 DEF JobsAgree, JobsHaveKeys
<1>7. ControlHasNoJob'
  <2>1. queue'["control"] = queue["control"]
    BY <1>1, <1>2 DEF WorkLanes, TypeOK, ChannelsOK, Lanes
  <2>. QED BY <2>1 DEF ControlHasNoJob, JobsAgree
<1>8. KeysHaveJobs'
  BY <1>1, <1>2, <1>3 DEF JobsAgree, KeysHaveJobs, IsScheduledAt, Key
<1>9. JobsHaveKeys'
  <2>0. currentGeneration \in Nat
    BY DEF TypeOK, SchedulerOK, Generations
  <2>1. At(new)'.generation <= currentGeneration /\ Key(At(new)') = uiKey'
    BY <1>2, <1>3, <2>0 DEF Key
  <2>2. \A p \in Places : At(p).type = "render" =>
          /\ At(p).generation <= currentGeneration
          /\ At(p).generation = currentGeneration => Key(At(p)) \in pendingRenders
    BY <1>2, <1>5 DEF JobsAgree, JobsHaveKeys
  <2>. QED BY <1>2, <1>3, <2>1, <2>2 DEF JobsHaveKeys, Key
<1>10. JobsAreUnique'
  BY <1>2, <1>3, <1>6 DEF JobsAgree, JobsAreUnique, Key
<1>. QED BY <1>7, <1>8, <1>9, <1>10 DEF JobsAgree

LEMMA SendCommandKeeps ==
  ASSUME TypeOK, TypeOK', JobsAgree, NEW c \in Command, c.type # "render", SendCommand(c)
  PROVE  JobsAgree'
<1>1. /\ queue' = [queue EXCEPT ![LaneOf(c)] = Append(@, c)]
      /\ UNCHANGED <<pendingRenders, currentGeneration, command, uiKey>>
  BY DEF SendCommand, Enqueue, sharedVars, workerVars, uiVars
<1>2. CASE LaneOf(c) \in WorkLanes
  <2>1. PICK new : /\ new \notin Places
                   /\ \A p : p \in Places' <=> p \in Places \cup {new}
                   /\ At(new)' = c
                   /\ \A p \in Places : At(p)' = At(p)
    BY <1>1, <1>2, AppendMoves
  <2>2. queue'["control"] = queue["control"]
    BY <1>1, <1>2 DEF WorkLanes, TypeOK, ChannelsOK, Lanes
  <2>3. ControlHasNoJob'
    BY <2>2 DEF ControlHasNoJob, JobsAgree
  <2>4. KeysHaveJobs'
    BY <1>1, <2>1 DEF JobsAgree, KeysHaveJobs, IsScheduledAt, Key
  <2>5. JobsHaveKeys'
    BY <1>1, <2>1 DEF JobsAgree, JobsHaveKeys, Key
  <2>6. JobsAreUnique'
    BY <1>1, <2>1 DEF JobsAgree, JobsAreUnique, Key
  <2>. QED BY <2>3, <2>4, <2>5, <2>6 DEF JobsAgree
<1>3. CASE LaneOf(c) \notin WorkLanes
  <2>1. LaneOf(c) = "control"
    BY <1>3 DEF LaneOf, WorkLanes
  <2>2. queue["control"] \in Seq(Command) /\ queue'["control"] = Append(queue["control"], c)
    BY <1>1, <2>1 DEF TypeOK, ChannelsOK, Lanes
  <2>3. \A i \in 1..Len(queue'["control"]) :
          queue'["control"][i] = c \/ (i \in 1..Len(queue["control"])
                                       /\ queue'["control"][i] = queue["control"][i])
    BY <2>2
  <2>4. ControlHasNoJob => ControlHasNoJob'
    BY <2>3 DEF ControlHasNoJob
  <2>5. \A lane \in WorkLanes : queue'[lane] = queue[lane]
    BY <1>1, <2>1 DEF WorkLanes, TypeOK, ChannelsOK, Lanes
  <2>6. Rests
    BY <1>1, <2>4, <2>5 DEF Rests
  <2>. QED BY <1>1, <2>6, RestKeeps
<1>. QED BY <1>2, <1>3

LEMMA InsertPendingKeeps ==
  ASSUME TypeOK, TypeOK', JobsAgree, InsertPending
  PROVE  JobsAgree'
<1>1. uiKey \in RenderKey /\ \A k \in RenderKey : k # None
  BY DEF InsertPending, TypeOK, SchedulerOK, RenderKey, None
<1>2. /\ pendingRenders' = pendingRenders \cup {uiKey} /\ uiKey' = None
      /\ UNCHANGED <<queue, command, currentGeneration>>
  BY DEF InsertPending, workerVars
<1>3. (\A p : p \in Places' <=> p \in Places) /\ \A p \in Places : At(p)' = At(p)
  BY <1>2, PlacesAre, PlacesAreNext
<1>4. ControlHasNoJob'
  BY <1>2 DEF ControlHasNoJob, JobsAgree
<1>5. KeysHaveJobs'
  BY <1>1, <1>2, <1>3 DEF JobsAgree, KeysHaveJobs, IsScheduledAt, Key
<1>6. JobsHaveKeys'
  BY <1>2, <1>3 DEF JobsAgree, JobsHaveKeys, Key
<1>7. JobsAreUnique'
  BY <1>2, <1>3 DEF JobsAgree, JobsAreUnique, Key
<1>. QED BY <1>4, <1>5, <1>6, <1>7 DEF JobsAgree

\* All jobs are of older generations then, and their keys are gone.
LEMMA BumpGenerationKeeps ==
  ASSUME TypeOK, TypeOK', JobsAgree, BumpGeneration
  PROVE  JobsAgree'
<1>1. /\ currentGeneration' = currentGeneration + 1 /\ currentGeneration \in Nat
      /\ pendingRenders' \subseteq pendingRenders
      /\ UNCHANGED <<queue, command, uiKey>>
  BY DEF BumpGeneration, workerVars, uiVars, TypeOK, SchedulerOK, Generations
<1>2. (\A p : p \in Places' <=> p \in Places) /\ \A p \in Places : At(p)' = At(p)
  BY <1>1, PlacesAre, PlacesAreNext
<1>3. \A p \in Places : At(p).type = "render" =>
        At(p).generation <= currentGeneration /\ At(p).generation \in Nat
  BY PlacesHoldCommands DEF JobsAgree, JobsHaveKeys, Job, Generations
<1>4. \A p \in Places' : At(p)'.type = "render" =>
        At(p)'.generation <= currentGeneration' /\ At(p)'.generation # currentGeneration'
  BY <1>1, <1>2, <1>3
<1>5. ControlHasNoJob'
  BY <1>1 DEF ControlHasNoJob, JobsAgree
<1>6. KeysHaveJobs'
  BY <1>1, <1>2 DEF JobsAgree, KeysHaveJobs, IsScheduledAt, Key
<1>7. JobsHaveKeys'
  BY <1>4 DEF JobsHaveKeys
<1>8. JobsAreUnique'
  BY <1>4 DEF JobsAreUnique
<1>. QED BY <1>5, <1>6, <1>7, <1>8 DEF JobsAgree

-----------------------------------------------------------------------------
(* The theorems *)

\* Every step keeps keys and jobs in agreement.
LEMMA JobsStep ==
  ASSUME TypeOK, TypeOK', JobsAgree, [Next]_vars
  PROVE  JobsAgree'
<1> USE DEF sharedVars, uiVars, workerVars
<1>1. CASE UiNext
  <2>1. CASE SetInvertColors \/ PollCritical \/ PollEvent \/ JoinWorker \/ JoinTimeout
             \/ \E next \in {"joining", "dropping"} : Shutdown(next)
    <3>1. UNCHANGED <<queue, pendingRenders, command, currentGeneration, uiKey>>
      BY <2>1 DEF SetInvertColors, PollCritical, PollEvent, JoinWorker, JoinTimeout, Shutdown
    <3>. QED BY <3>1, QueueAndHandRest, RestKeeps
  <2>. QED BY <1>1, <2>1, UiStep, SendRenderKeeps, SendCommandKeeps, InsertPendingKeeps,
              BumpGenerationKeeps DEF UiCalls
<1>2. CASE WorkerNext
  <2>1. UNCHANGED <<currentGeneration, uiKey>>
    BY <1>2, WorkerFrame
  <2>2. Rests \/ (\E lane \in WorkLanes : Takes(lane)) \/ Unpend
    BY <1>2, WorkerOnJobs DEF JobsAgree
  <2>. QED BY <2>1, <2>2, RestKeeps, TakeKeeps, UnpendKeeps
<1>3. CASE \E d \in Docs : FileChanged(d)
  <2>1. UNCHANGED <<queue, pendingRenders, command, currentGeneration, uiKey>>
    BY <1>3 DEF FileChanged
  <2>. QED BY <2>1, QueueAndHandRest, RestKeeps
<1>4. CASE UNCHANGED vars
  <2>1. UNCHANGED <<queue, pendingRenders, command, currentGeneration, uiKey>>
    BY <1>4 DEF vars
  <2>. QED BY <2>1, QueueAndHandRest, RestKeeps
<1>. QED BY <1>1, <1>2, <1>3, <1>4 DEF Next

LEMMA JobsInit ==
  ASSUME TypeOK, Init
  PROVE  JobsAgree
<1>1. /\ command = None /\ uiKey = None /\ pendingRenders = {}
      /\ \A lane \in Lanes : queue[lane] = <<>>
  BY DEF Init
<1>2. \A lane \in Lanes : \A i : i \notin 1..Len(queue[lane])
  BY <1>1
<1>3. \A p \in Places : At(p).type # "render"
  BY <1>1, <1>2, PlacesAre DEF WorkLanes, Lanes, None
<1>. QED
  BY <1>1, <1>2, <1>3 DEF JobsAgree, ControlHasNoJob, KeysHaveJobs, JobsHaveKeys,
                          JobsAreUnique, Lanes

\* For all constants: the jobs waiting and running and their keys stay in step.
THEOREM JobsInvariant == Spec => [](TypeOK /\ JobsAgree)
<1>1. Init => TypeOK /\ JobsAgree
  BY TypeInit, PipelineAssumption, JobsInit
<1>2. TypeOK /\ JobsAgree /\ [Next]_vars => TypeOK' /\ JobsAgree'
  BY TypeStep, PipelineAssumption, JobsStep
<1>. QED BY <1>1, <1>2, PTL DEF Spec

\* For all constants: the duplicate check never blocks a page for good, because a
\* key is in the pending set only while its job waits or runs.
THEOREM KeyHasJob == Spec => []PendingIsScheduled
<1>1. JobsAgree => PendingIsScheduled
  <2> SUFFICES ASSUME JobsAgree, NEW k \in pendingRenders
               PROVE  \E p \in Places : IsScheduledAt(p, k)
    BY DEF PendingIsScheduled
  <2>. QED BY DEF JobsAgree, KeysHaveJobs
<1>. QED BY <1>1, JobsInvariant, PTL

\* For all constants: no render of the current generation waits or runs twice, and
\* none without its key.
THEOREM OneJobPerKey == Spec => []NoDuplicateRender
<1>1. JobsAgree => NoDuplicateRender
  BY DEF JobsAgree, JobsHaveKeys, JobsAreUnique, NoDuplicateRender, IsScheduledAt
<1>. QED BY <1>1, JobsInvariant, PTL

-----------------------------------------------------------------------------
(* Each document is open once *)

Distinct(docs) == \A i, j \in DOMAIN docs : docs[i].doc = docs[j].doc => i = j

\* Popping a document closes that one and no other.
LEMMA WithoutKeeps ==
  ASSUME NEW docs \in Seq(OpenDoc), Distinct(docs), NEW d
  PROVE  /\ Distinct(Without(docs, d))
         /\ \A e : IsOpen(Without(docs, d), e) <=> IsOpen(docs, e) /\ e # d
<1>1. CASE ~ IsOpen(docs, d)
  BY <1>1 DEF Without
<1>2. CASE IsOpen(docs, d)
  <2> DEFINE i == CHOOSE i \in DOMAIN docs : docs[i].doc = d
             r == Without(docs, d)
  <2>1. i \in 1..Len(docs) /\ docs[i].doc = d
    BY <1>2, PositionType DEF IsOpen, IndexOfDoc
  <2>2. r = Removed(docs, i)
    BY <1>2 DEF Without, Removed
  <2> HIDE DEF i, r
  <2>3. /\ r \in Seq(OpenDoc) /\ Len(r) = Len(docs) - 1
        /\ \A k \in 1..Len(r) : r[k] = IF k < i THEN docs[k] ELSE docs[k + 1]
    BY <2>1, <2>2, RemovalType, RemovalElements
  <2>4. DOMAIN docs = 1..Len(docs) /\ DOMAIN r = 1..Len(r) /\ Len(docs) \in Nat
    BY <2>3
  <2>5. Distinct(r)
    <3> SUFFICES ASSUME NEW j \in 1..Len(r), NEW k \in 1..Len(r), r[j].doc = r[k].doc
                 PROVE  j = k
      BY <2>4 DEF Distinct
    <3>1. PICK m \in 1..Len(docs) : docs[m] = r[j] /\ m = (IF j < i THEN j ELSE j + 1)
      BY <2>1, <2>3, <2>4
    <3>2. PICK n \in 1..Len(docs) : docs[n] = r[k] /\ n = (IF k < i THEN k ELSE k + 1)
      BY <2>1, <2>3, <2>4
    <3>3. m = n
      BY <2>4, <3>1, <3>2 DEF Distinct
    <3>. QED BY <2>1, <2>4, <3>1, <3>2, <3>3
  <2>6. ASSUME NEW e, IsOpen(r, e) PROVE IsOpen(docs, e) /\ e # d
    <3>1. PICK k \in 1..Len(r) : r[k].doc = e
      BY <2>4, <2>6 DEF IsOpen, IndexOfDoc
    <3>2. PICK n \in 1..Len(docs) : n # i /\ docs[n].doc = e
      BY <2>1, <2>3, <2>4, <3>1
    <3>. QED BY <2>1, <2>4, <3>2 DEF IsOpen, IndexOfDoc, Distinct
  <2>7. ASSUME NEW e, IsOpen(docs, e), e # d PROVE IsOpen(r, e)
    <3>1. PICK n \in 1..Len(docs) : docs[n].doc = e
      BY <2>4, <2>7 DEF IsOpen, IndexOfDoc
    <3>2. n # i
      BY <2>1, <2>7, <3>1
    <3> DEFINE k == IF n < i THEN n ELSE n - 1
    <3>3. k \in 1..Len(r) /\ r[k] = docs[n]
      BY <2>1, <2>3, <2>4, <3>1, <3>2
    <3>. QED BY <2>4, <3>1, <3>3 DEF IsOpen, IndexOfDoc
  <2>. QED BY <2>5, <2>6, <2>7 DEF r
<1>. QED BY <1>1, <1>2

\* An entry put in front is open, and so is what was open behind it.
LEMMA InFront ==
  ASSUME NEW rest \in Seq(OpenDoc), NEW entry \in OpenDoc
  PROVE  /\ \A e : IsOpen(<<entry>> \o rest, e) <=> e = entry.doc \/ IsOpen(rest, e)
         /\ Distinct(rest) /\ ~ IsOpen(rest, entry.doc) => Distinct(<<entry>> \o rest)
<1> DEFINE s == <<entry>> \o rest
<1>1. <<entry>> \in Seq(OpenDoc) /\ Len(<<entry>>) = 1 /\ <<entry>>[1] = entry
  OBVIOUS
<1>2. /\ s \in Seq(OpenDoc) /\ Len(s) = Len(rest) + 1
      /\ s[1] = entry /\ \A k \in 2..Len(s) : s[k] = rest[k - 1]
  BY <1>1, ConcatProperties
<1> HIDE DEF s
<1>3. DOMAIN s = 1..Len(s) /\ DOMAIN rest = 1..Len(rest) /\ Len(rest) \in Nat
  BY <1>2
<1>4. ASSUME NEW e, IsOpen(s, e) PROVE e = entry.doc \/ IsOpen(rest, e)
  <2>1. PICK k \in 1..Len(s) : s[k].doc = e
    BY <1>3, <1>4 DEF IsOpen, IndexOfDoc
  <2>2. CASE k = 1
    BY <1>2, <2>1, <2>2
  <2>3. CASE k # 1
    <3>1. k - 1 \in 1..Len(rest) /\ rest[k - 1].doc = e
      BY <1>2, <1>3, <2>1, <2>3
    <3>. QED BY <1>3, <3>1 DEF IsOpen, IndexOfDoc
  <2>. QED BY <2>2, <2>3
<1>5. IsOpen(s, entry.doc)
  <2>1. 1 \in 1..Len(s) /\ s[1].doc = entry.doc
    BY <1>2, <1>3
  <2>. QED BY <1>3, <2>1 DEF IsOpen, IndexOfDoc
<1>6. ASSUME NEW e, IsOpen(rest, e) PROVE IsOpen(s, e)
  <2>1. PICK n \in 1..Len(rest) : rest[n].doc = e
    BY <1>3, <1>6 DEF IsOpen, IndexOfDoc
  <2>2. n + 1 \in 2..Len(s) /\ s[n + 1] = rest[(n + 1) - 1] /\ (n + 1) - 1 = n
    BY <1>2, <1>3
  <2>3. n + 1 \in 1..Len(s) /\ s[n + 1].doc = e
    BY <1>3, <2>1, <2>2
  <2>. QED BY <1>3, <2>3 DEF IsOpen, IndexOfDoc
<1>7. ASSUME Distinct(rest), ~ IsOpen(rest, entry.doc) PROVE Distinct(s)
  <2>1. \A n \in 1..Len(rest) : rest[n].doc # entry.doc
    BY <1>3, <1>7 DEF IsOpen, IndexOfDoc
  <2>2. \A m, n \in 1..Len(rest) : rest[m].doc = rest[n].doc => m = n
    BY <1>3, <1>7 DEF Distinct
  <2>3. ASSUME NEW i \in 1..Len(s), NEW j \in 1..Len(s), s[i].doc = s[j].doc
        PROVE  i = j
    <3>1. CASE i = 1 \/ j = 1
      BY <1>2, <1>3, <2>1, <2>3, <3>1
    <3>2. CASE i # 1 /\ j # 1
      <4>1. /\ i - 1 \in 1..Len(rest) /\ j - 1 \in 1..Len(rest)
            /\ s[i] = rest[i - 1] /\ s[j] = rest[j - 1]
        BY <1>2, <1>3, <3>2
      <4>2. i - 1 = j - 1
        BY <2>2, <2>3, <4>1
      <4>. QED BY <4>2
    <3>. QED BY <3>1, <3>2
  <2>. QED BY <1>3, <2>3 DEF Distinct
<1>. QED BY <1>4, <1>5, <1>6, <1>7 DEF s

\* A lookup closes nothing.
LEMMA TouchedKeeps ==
  ASSUME NEW docs \in Seq(OpenDoc), Distinct(docs), NEW d
  PROVE  /\ Distinct(Touched(docs, d))
         /\ \A e : IsOpen(Touched(docs, d), e) <=> IsOpen(docs, e)
<1>1. CASE ~ IsOpen(docs, d)
  BY <1>1 DEF Touched
<1>2. CASE IsOpen(docs, d)
  <2>1. EntryOf(docs, d) \in OpenDoc /\ EntryOf(docs, d).doc = d
    BY <1>2, PositionType
  <2>2. /\ Without(docs, d) \in Seq(OpenDoc) /\ Distinct(Without(docs, d))
        /\ \A e : IsOpen(Without(docs, d), e) <=> IsOpen(docs, e) /\ e # d
    BY WithoutType, WithoutKeeps
  <2>3. Touched(docs, d) = <<EntryOf(docs, d)>> \o Without(docs, d)
    BY <1>2 DEF Touched
  <2>. QED BY <1>2, <2>1, <2>2, <2>3, InFront
<1>. QED BY <1>1, <1>2

\* While a document is closed, fewer are open than there are.
LEMMA RoomForOneMore ==
  ASSUME IsFiniteSet(Docs), NEW docs \in Seq(OpenDoc), Distinct(docs),
         NEW d \in Docs, ~ IsOpen(docs, d)
  PROVE  Len(docs) < Cardinality(Docs)
<1> DEFINE others == Docs \ {d}
           f == [i \in 1..Len(docs) |-> docs[i].doc]
<1>1. /\ IsFiniteSet(others) /\ Cardinality(others) = Cardinality(Docs) - 1
      /\ Cardinality(Docs) \in Nat
  BY FS_RemoveElement, FS_CardinalityType
<1>2. DOMAIN docs = 1..Len(docs) /\ Len(docs) \in Nat
  OBVIOUS
<1>3. ASSUME NEW i \in 1..Len(docs) PROVE docs[i].doc \in others
  <2>1. docs[i] \in OpenDoc
    OBVIOUS
  <2>2. docs[i].doc \in Docs
    BY <2>1 DEF OpenDoc
  <2>3. docs[i].doc # d
    BY <1>2 DEF IsOpen, IndexOfDoc
  <2>. QED BY <2>2, <2>3
<1>4. f \in [1..Len(docs) -> others]
  BY <1>3
<1>5. \A i, j \in 1..Len(docs) : f[i] = f[j] => i = j
  BY <1>2 DEF Distinct
<1> HIDE DEF f, others
<1>6. f \in Injection(1..Len(docs), others)
  BY <1>4, <1>5 DEF Injection, IsInjective
<1>7. Cardinality(1..Len(docs)) <= Cardinality(others)
  BY <1>1, <1>6, FS_Injection
<1>8. Cardinality(1..Len(docs)) = Len(docs)
  BY <1>2, FS_Interval
<1>. QED BY <1>1, <1>2, <1>7, <1>8

\* While the app keeps to its limit of open tabs, opening a document pushes no
\* other one out.
LEMMA PutKeeps ==
  ASSUME IsFiniteSet(Docs), Cardinality(Docs) <= MaxOpenTabs, MaxOpenTabs \in Nat,
         NEW docs \in Seq(OpenDoc), Distinct(docs), NEW entry \in OpenDoc
  PROVE  /\ Distinct(Put(docs, entry))
         /\ \A e : IsOpen(docs, e) => IsOpen(Put(docs, entry), e)
<1> DEFINE rest == Without(docs, entry.doc)
<1>1. /\ rest \in Seq(OpenDoc) /\ Distinct(rest)
      /\ \A e : IsOpen(rest, e) <=> IsOpen(docs, e) /\ e # entry.doc
  BY WithoutType, WithoutKeeps
<1>2. entry.doc \in Docs
  BY DEF OpenDoc
<1> HIDE DEF rest
<1>3. Len(rest) < Cardinality(Docs) /\ Len(rest) \in Nat /\ Cardinality(Docs) \in Nat
  BY <1>1, <1>2, RoomForOneMore, FS_CardinalityType
<1>4. Put(docs, entry) = <<entry>> \o rest
  BY <1>3 DEF Put, rest
<1>. QED BY <1>1, <1>4, InFront

-----------------------------------------------------------------------------
(* The documents and the bitmaps *)

\* Why a bitmap never outlives its document: a page is drawn from an open
\* document, nothing is closed between drawing and keeping it, and closing a
\* document drops its bitmaps with it.
BitmapsHaveDocuments ==
  Cardinality(Docs) <= MaxOpenTabs =>
    /\ Distinct(activeDocs)
    /\ \A b \in cache : IsOpen(activeDocs, b.doc)
    /\ pc \in {"draw", "keep"} => IsOpen(activeDocs, outgoing.bitmap.doc)

\* A handler that returns, fails or emits is not about to keep a bitmap.
LEMMA NotDrawing ==
  /\ \A continue \in BOOLEAN : Return(continue) => pc' \notin {"draw", "keep"}
  /\ \A e, how : how \notin {"draw", "keep"} /\ Emit(e, how) => pc' \notin {"draw", "keep"}
  /\ Failed => pc' \notin {"draw", "keep"}
BY DEF Return, Emit, Failed

LEMMA BitmapsStep ==
  ASSUME TypeOK, BitmapsHaveDocuments, [Next]_vars
  PROVE  BitmapsHaveDocuments'
<1> SUFFICES ASSUME Cardinality(Docs) <= MaxOpenTabs
             PROVE  /\ Distinct(activeDocs')
                    /\ \A b \in cache' : IsOpen(activeDocs', b.doc)
                    /\ pc' \in {"draw", "keep"} => IsOpen(activeDocs', outgoing'.bitmap.doc)
  BY DEF BitmapsHaveDocuments, Distinct, IsOpen, IndexOfDoc
<1> DEFINE Goal == /\ Distinct(activeDocs')
                   /\ \A b \in cache' : IsOpen(activeDocs', b.doc)
                   /\ pc' \in {"draw", "keep"} => IsOpen(activeDocs', outgoing'.bitmap.doc)
<1>1. /\ Distinct(activeDocs)
      /\ \A b \in cache : IsOpen(activeDocs, b.doc)
      /\ pc \in {"draw", "keep"} => IsOpen(activeDocs, outgoing.bitmap.doc)
      /\ activeDocs \in Seq(OpenDoc)
      /\ fileVersion \in [Docs -> Versions]
      /\ IsFiniteSet(Docs) /\ MaxOpenTabs \in Nat
  BY PipelineAssumption DEF BitmapsHaveDocuments, TypeOK, DocumentsOK
<1>2. ASSUME UNCHANGED <<activeDocs, cache>>,
             pc' \in {"draw", "keep"} => pc \in {"draw", "keep"} /\ UNCHANGED outgoing
      PROVE  Goal
  BY <1>1, <1>2
<1> USE DEF sharedVars, uiVars, workerVars
<1>3. CASE UiNext
  <2>1. UNCHANGED <<activeDocs, cache, pc, outgoing>>
    <3>1. UiCalls
      BY <1>3, UiStep
    <3>. QED BY <3>1 DEF UiCalls, SendRender, SendCommand, InsertPending, BumpGeneration,
                         SetInvertColors, PollCritical, PollEvent, Shutdown, JoinWorker,
                         JoinTimeout
  <2>. QED BY <2>1, <1>2
<1>4. CASE WorkerNext
  <2>1. CASE PollShutdown \/ Wake \/ ShutdownCommand \/ RenderPage \/ Unpend \/ SearchPage
             \/ EmitEvent \/ EmitCritical \/ SendCritical
    <3>1. UNCHANGED <<activeDocs, cache>>
      BY <2>1 DEF PollShutdown, Wake, ShutdownCommand, RenderPage, Unpend, SearchPage, EmitEvent,
                  EmitCritical, SendCritical
    <3>2. pc' \notin {"draw", "keep"}
      BY <2>1, NotDrawing DEF PollShutdown, Wake, ShutdownCommand, RenderPage, Unpend, SearchPage,
                              EmitEvent, EmitCritical, SendCritical
    <3>. QED BY <3>1, <3>2, <1>2
  <2>2. CASE PollControl \/ PollVisible \/ PollLow
    <3>1. PICK lane \in Lanes, next \in ReceivePcs : Poll(lane, next)
      BY <2>2 DEF PollControl, PollVisible, PollLow, Lanes, ReceivePcs
    <3>2. UNCHANGED <<activeDocs, cache>>
      BY <3>1 DEF Poll
    <3>3. pc' \notin {"draw", "keep"}
      <4>1. CASE queue[lane] # <<>>
        <5>1. Head(queue[lane]) \in Command
          BY <4>1 DEF TypeOK, ChannelsOK
        <5>2. pc' = Head(queue[lane]).type
          BY <3>1, <4>1 DEF Poll
        <5>. QED BY <5>1, <5>2 DEF Command, Job, Text, DocumentCommand
      <4>2. CASE queue[lane] = <<>>
        BY <3>1, <4>2 DEF Poll, ReceivePcs
      <4>. QED BY <4>1, <4>2
    <3>. QED BY <3>2, <3>3, <1>2
  <2>3. CASE OpenDocument
    <3>1. cache' = cache /\ pc' \notin {"draw", "keep"}
      BY <2>3, NotDrawing DEF OpenDocument
    <3>2. CASE UNCHANGED activeDocs
      BY <3>1, <3>2, <1>2
    <3>3. CASE ~ UNCHANGED activeDocs
      <4> DEFINE entry == [doc |-> command.doc, version |-> fileVersion[command.doc]]
      <4>1. activeDocs' = Put(activeDocs, entry)
        BY <2>3, <3>3 DEF OpenDocument
      <4>2. entry \in OpenDoc
        <5>1. pc = "open" /\ command \in Command
          BY <2>3 DEF OpenDocument, TypeOK, InHandOK, HandlerPcs
        <5>2. command.doc \in Docs
          BY <5>1 DEF Command, Job, Text, DocumentCommand
        <5>. QED BY <1>1, <5>2 DEF OpenDoc
      <4> HIDE DEF entry
      <4>. QED BY <1>1, <3>1, <4>1, <4>2, PutKeeps
    <3>. QED BY <3>2, <3>3
  <2>4. CASE CloseDocument
    <3>1. /\ activeDocs' = Without(activeDocs, command.doc)
          /\ cache' = {b \in cache : b.doc # command.doc}
          /\ pc' \notin {"draw", "keep"}
      BY <2>4, NotDrawing DEF CloseDocument
    <3>. QED BY <1>1, <3>1, WithoutKeeps
  <2>5. CASE LookUp
    <3>1. cache' = cache
      BY <2>5 DEF LookUp
    <3>2. CASE UNCHANGED activeDocs /\ pc' \notin {"draw", "keep"}
      BY <3>1, <3>2, <1>2
    <3>3. CASE /\ IsOpen(activeDocs, command.doc)
               /\ activeDocs' = Touched(activeDocs, command.doc)
               /\ outgoing'.bitmap.doc = command.doc
      BY <1>1, <3>1, <3>3, TouchedKeeps
    <3>4. CASE Hits(Slot(command)) # {}
      <4>1. PICK b : Emit(PageEvent(command, b), "emit")
        BY <2>5, <3>4 DEF LookUp
      <4>2. activeDocs' = activeDocs
        BY <2>5, <3>4 DEF LookUp
      <4>. QED BY <3>2, <4>1, <4>2 DEF Emit
    <3>5. CASE Hits(Slot(command)) = {} /\ IsOpen(activeDocs, command.doc)
      <4>1. activeDocs' = Touched(activeDocs, command.doc)
        BY <2>5, <3>5 DEF LookUp
      <4>2. outgoing'.bitmap.doc = Slot(command).doc
        BY <2>5, <3>5 DEF LookUp, Emit, PageEvent
      <4>3. outgoing'.bitmap.doc = command.doc
        BY <4>2 DEF Slot
      <4>. QED BY <3>3, <3>5, <4>1, <4>3
    <3>6. CASE Hits(Slot(command)) = {} /\ ~ IsOpen(activeDocs, command.doc)
      BY <2>5, <3>2, <3>6, NotDrawing DEF LookUp
    <3>. QED BY <3>4, <3>5, <3>6
  <2>6. CASE Draw
    <3>1. pc = "draw" /\ UNCHANGED <<activeDocs, cache>>
      BY <2>6 DEF Draw
    <3>2. CASE Emit(outgoing, "keep")
      BY <3>1, <3>2, <1>2 DEF Emit
    <3>3. CASE Failed
      BY <3>1, <3>3, <1>2, NotDrawing
    <3>. QED BY <2>6, <3>2, <3>3 DEF Draw
  <2>7. CASE Keep
    <3>1. pc = "keep" /\ activeDocs' = activeDocs
      BY <2>7 DEF Keep
    <3>2. pc' \notin {"draw", "keep"}
      BY <2>7, NotDrawing DEF Keep
    <3>3. \A b \in cache' : b \in cache \/ b = outgoing.bitmap
      BY <2>7 DEF Keep, InsertOutcomes
    <3>. QED BY <1>1, <3>1, <3>2, <3>3
  <2>8. CASE FetchText \/ QueryDocument
    <3>1. cache' = cache
      BY <2>8 DEF FetchText, QueryDocument
    <3>3. pc' \notin {"draw", "keep"}
      <4>1. CASE FetchText
        <5>1. Return(TRUE) \/ (\E e : Emit(e, "emit")) \/ Failed
          BY <4>1 DEF FetchText
        <5>. QED BY <5>1, NotDrawing
      <4>2. CASE QueryDocument
        <5>1. Return(TRUE) \/ (\E e, how : how \notin {"draw", "keep"} /\ Emit(e, how)) \/ Failed
          BY <4>2 DEF QueryDocument
        <5>. QED BY <5>1, NotDrawing
      <4>. QED BY <2>8, <4>1, <4>2
    <3>2. activeDocs' = activeDocs \/ activeDocs' = Touched(activeDocs, command.doc)
      BY <2>8 DEF FetchText, QueryDocument
    <3>. QED BY <1>1, <3>1, <3>2, <3>3, TouchedKeeps
  <2>. QED BY <1>4, <2>1, <2>2, <2>3, <2>4, <2>5, <2>6, <2>7, <2>8 DEF WorkerNext
<1>5. CASE \E d \in Docs : FileChanged(d)
  BY <1>5, <1>2 DEF FileChanged
<1>6. CASE UNCHANGED vars
  BY <1>6, <1>2 DEF vars
<1>. QED BY <1>3, <1>4, <1>5, <1>6 DEF Next

\* For all constants: while there are no more documents than tabs are allowed,
\* every cached bitmap is one of an open document, so closing a document frees
\* its bitmaps.
THEOREM BitmapsOfOpenDocuments == Spec => []CachedDocumentsAreOpen
<1>1. Init => BitmapsHaveDocuments
  BY DEF Init, BitmapsHaveDocuments, Distinct
<1>2. TypeOK /\ BitmapsHaveDocuments /\ [Next]_vars => BitmapsHaveDocuments'
  BY BitmapsStep
<1>3. BitmapsHaveDocuments => CachedDocumentsAreOpen
  BY DEF BitmapsHaveDocuments, CachedDocumentsAreOpen
<1>. QED BY <1>1, <1>2, <1>3, PipelineTypes, PTL DEF Spec

-----------------------------------------------------------------------------
(* What was asked and what was answered, queue by queue *)

LEMMA RequestType ==
  /\ \A c \in Command : RequestOf(c) \in Seq(Docs)
  /\ \A e \in Event : AnswerOf(e) \in Seq(Docs)
  /\ RequestOf(None) = <<>>
<1>1. \A c \in Command : c.doc \in Docs
  BY DEF Command, Job, Text, DocumentCommand
<1>2. \A e \in Event : e.of = "open" => e.doc \in Docs
  BY DEF Event
<1>. QED BY <1>1, <1>2 DEF RequestOf, AnswerOf, None

LEMMA RequestsType ==
  ASSUME NEW q \in Seq(Command)
  PROVE  [i \in DOMAIN q |-> RequestOf(q[i])] \in Seq(Seq(Docs))
<1> DEFINE V == Seq(Docs)
<1>1. \A i \in 1..Len(q) : RequestOf(q[i]) \in V
  BY RequestType
<1> HIDE DEF V
<1>2. [i \in DOMAIN q |-> RequestOf(q[i])] \in Seq(V)
  BY <1>1
<1>. QED BY <1>2 DEF V

LEMMA RequestedIs ==
  ASSUME NEW q \in Seq(Command)
  PROVE  Requested(q) = FlattenSeq([i \in DOMAIN q |-> RequestOf(q[i])])
<1> DEFINE rs == [i \in DOMAIN q |-> RequestOf(q[i])]
           m == Len(q)
           Is(g) == g = [n \in 0..m |-> IF n = 0 THEN <<>> ELSE g[n - 1] \o RequestOf(q[n])]
           up == CHOOSE g : Is(g)
<1>1. m \in Nat /\ DOMAIN q = 1..m /\ Len(rs) = m /\ rs \in Seq(Seq(Docs))
  BY RequestsType
<1>2. Requested(q) = up[m]
  BY DEF Requested
<1>3. \A g : Is(g) <=> IsUpTo(g, rs)
  <2>1. \A n \in 0..m : n # 0 => rs[n] = RequestOf(q[n])
    BY <1>1
  <2>2. Len(rs) = m
    BY <1>1
  <2> HIDE DEF rs, m
  <2>3. ASSUME NEW g
        PROVE  [n \in 0..m |-> IF n = 0 THEN <<>> ELSE g[n - 1] \o RequestOf(q[n])]
                 = [n \in 0..m |-> IF n = 0 THEN <<>> ELSE g[n - 1] \o rs[n]]
    BY <2>1
  <2>. QED BY <2>2, <2>3 DEF IsUpTo
<1>4. \E g : Is(g)
  BY <1>1, <1>3, UpToExists
<1> HIDE DEF Is, rs, m
<1>5. Is(up)
  BY <1>4
<1> HIDE DEF up
<1>6. up[Len(rs)] = FlattenSeq(rs)
  BY <1>1, <1>3, <1>5, UpToIs
<1>. QED BY <1>1, <1>2, <1>6 DEF rs

LEMMA RequestedType ==
  ASSUME NEW q \in Seq(Command)
  PROVE  Requested(q) \in Seq(Docs)
BY RequestsType, RequestedIs, FlattenType

LEMMA AnswersType ==
  ASSUME NEW q \in Seq(Event)
  PROVE  [i \in DOMAIN q |-> AnswerOf(q[i])] \in Seq(Seq(Docs))
<1> DEFINE V == Seq(Docs)
<1>1. \A i \in 1..Len(q) : AnswerOf(q[i]) \in V
  BY RequestType
<1> HIDE DEF V
<1>2. [i \in DOMAIN q |-> AnswerOf(q[i])] \in Seq(V)
  BY <1>1
<1>. QED BY <1>2 DEF V

LEMMA AnsweredIs ==
  ASSUME NEW q \in Seq(Event)
  PROVE  Answered(q) = FlattenSeq([i \in DOMAIN q |-> AnswerOf(q[i])])
<1> DEFINE rs == [i \in DOMAIN q |-> AnswerOf(q[i])]
           m == Len(q)
           Is(g) == g = [n \in 0..m |-> IF n = 0 THEN <<>> ELSE g[n - 1] \o AnswerOf(q[n])]
           up == CHOOSE g : Is(g)
<1>1. m \in Nat /\ DOMAIN q = 1..m /\ Len(rs) = m /\ rs \in Seq(Seq(Docs))
  BY AnswersType
<1>2. Answered(q) = up[m]
  BY DEF Answered
<1>3. \A g : Is(g) <=> IsUpTo(g, rs)
  <2>1. \A n \in 0..m : n # 0 => rs[n] = AnswerOf(q[n])
    BY <1>1
  <2>2. Len(rs) = m
    BY <1>1
  <2> HIDE DEF rs, m
  <2>3. ASSUME NEW g
        PROVE  [n \in 0..m |-> IF n = 0 THEN <<>> ELSE g[n - 1] \o AnswerOf(q[n])]
                 = [n \in 0..m |-> IF n = 0 THEN <<>> ELSE g[n - 1] \o rs[n]]
    BY <2>1
  <2>. QED BY <2>2, <2>3 DEF IsUpTo
<1>4. \E g : Is(g)
  BY <1>1, <1>3, UpToExists
<1> HIDE DEF Is, rs, m
<1>5. Is(up)
  BY <1>4
<1> HIDE DEF up
<1>6. up[Len(rs)] = FlattenSeq(rs)
  BY <1>1, <1>3, <1>5, UpToIs
<1>. QED BY <1>1, <1>2, <1>6 DEF rs

LEMMA AnsweredType ==
  ASSUME NEW q \in Seq(Event)
  PROVE  Answered(q) \in Seq(Docs)
BY AnswersType, AnsweredIs, FlattenType

LEMMA RequestedAppend ==
  ASSUME NEW q \in Seq(Command), NEW c \in Command
  PROVE  Requested(Append(q, c)) = Requested(q) \o RequestOf(c)
<1> DEFINE qc == Append(q, c)
           rs == [i \in DOMAIN q |-> RequestOf(q[i])]
<1>1. rs \in Seq(Seq(Docs)) /\ RequestOf(c) \in Seq(Docs)
  BY RequestType, RequestsType
<1>2. qc \in Seq(Command) /\ Len(qc) = Len(q) + 1 /\ qc[Len(q) + 1] = c
      /\ \A i \in 1..Len(q) : qc[i] = q[i]
  BY AppendProperties
<1> HIDE DEF qc
<1>3. [i \in DOMAIN qc |-> RequestOf(qc[i])] = Append(rs, RequestOf(c))
  BY <1>2
<1>. QED BY <1>1, <1>2, <1>3, RequestedIs, FlattenAppend DEF qc

LEMMA AnsweredAppend ==
  ASSUME NEW q \in Seq(Event), NEW e \in Event
  PROVE  Answered(Append(q, e)) = Answered(q) \o AnswerOf(e)
<1> DEFINE qe == Append(q, e)
           rs == [i \in DOMAIN q |-> AnswerOf(q[i])]
<1>1. rs \in Seq(Seq(Docs)) /\ AnswerOf(e) \in Seq(Docs)
  BY RequestType, AnswersType
<1>2. qe \in Seq(Event) /\ Len(qe) = Len(q) + 1 /\ qe[Len(q) + 1] = e
      /\ \A i \in 1..Len(q) : qe[i] = q[i]
  BY AppendProperties
<1> HIDE DEF qe
<1>3. [i \in DOMAIN qe |-> AnswerOf(qe[i])] = Append(rs, AnswerOf(e))
  BY <1>2
<1>. QED BY <1>1, <1>2, <1>3, AnsweredIs, FlattenAppend DEF qe

LEMMA RequestedTail ==
  ASSUME NEW q \in Seq(Command), q # <<>>
  PROVE  Requested(q) = RequestOf(Head(q)) \o Requested(Tail(q))
<1> DEFINE rs == [i \in DOMAIN q |-> RequestOf(q[i])]
           t == Tail(q)
<1>1. rs \in Seq(Seq(Docs)) /\ rs # <<>> /\ Head(rs) = RequestOf(Head(q))
  BY RequestsType, EmptySeq
<1>2. t \in Seq(Command) /\ Len(t) = Len(q) - 1 /\ \A i \in 1..Len(t) : t[i] = q[i + 1]
  BY HeadTailProperties
<1> HIDE DEF t
<1>3. [i \in DOMAIN t |-> RequestOf(t[i])] = Tail(rs)
  BY <1>1, <1>2
<1>. QED BY <1>1, <1>2, <1>3, RequestedIs, FlattenTail DEF t

LEMMA AnsweredTail ==
  ASSUME NEW q \in Seq(Event), q # <<>>
  PROVE  Answered(q) = AnswerOf(Head(q)) \o Answered(Tail(q))
<1> DEFINE rs == [i \in DOMAIN q |-> AnswerOf(q[i])]
           t == Tail(q)
<1>1. rs \in Seq(Seq(Docs)) /\ rs # <<>> /\ Head(rs) = AnswerOf(Head(q))
  BY AnswersType, EmptySeq
<1>2. t \in Seq(Event) /\ Len(t) = Len(q) - 1 /\ \A i \in 1..Len(t) : t[i] = q[i + 1]
  BY HeadTailProperties
<1> HIDE DEF t
<1>3. [i \in DOMAIN t |-> AnswerOf(t[i])] = Tail(rs)
  BY <1>1, <1>2
<1>. QED BY <1>1, <1>2, <1>3, AnsweredIs, FlattenTail DEF t

-----------------------------------------------------------------------------
(* The worker answers what it was asked *)

\* Only the control queue holds OpenDocument commands, and what the worker
\* emits while it handles one is the answer to it.
OpensAgree ==
  /\ \A lane \in {"visible", "low"} : \A i \in DOMAIN queue[lane] : queue[lane][i].type # "open"
  /\ pc \in EmittingPcs => AnswerOf(outgoing) = RequestOf(command)
  /\ pc \in {"emit", "searchPage"} => command.type # "open"

LEMMA OpensInit == Init => OpensAgree
BY DEF Init, OpensAgree, Lanes, EmittingPcs

\* What a step does to the answers that are due: nothing, the end of all work,
\* a request passed to the worker, an answer passed to the queue.
NoneMoves ==
  /\ events'["critical"] = events["critical"] /\ queue'["control"] = queue["control"]
  /\ RequestOf(command') = RequestOf(command)
  /\ Running' <=> Running

WorkEnds ==
  /\ events'["critical"] = events["critical"]
  /\ RequestOf(command') = <<>>
  /\ Running /\ ~ Running'

RequestMoves ==
  /\ events'["critical"] = events["critical"]
  /\ queue["control"] # <<>>
  /\ RequestOf(command) = <<>> /\ command' = Head(queue["control"])
  /\ queue'["control"] = Tail(queue["control"])
  /\ Running /\ Running'

AnswerMoves ==
  /\ events'["critical"] = Append(events["critical"], outgoing)
  /\ outgoing \in Event /\ AnswerOf(outgoing) = RequestOf(command)
  /\ queue'["control"] = queue["control"]
  /\ RequestOf(command') = <<>>
  /\ Running /\ Running'

LEMMA ReturnAnswered ==
  ASSUME NEW b \in BOOLEAN, Return(b), RequestOf(command) = <<>>, Running,
         events'["critical"] = events["critical"], queue'["control"] = queue["control"]
  PROVE  NoneMoves \/ WorkEnds
<1>1. RequestOf(command') = <<>>
  BY DEF Return, RequestOf, None
<1>. QED BY <1>1 DEF NoneMoves, WorkEnds, Running

LEMMA ReturnGivesUp ==
  ASSUME Return(FALSE), Running,
         events'["critical"] = events["critical"], queue'["control"] = queue["control"]
  PROVE  NoneMoves \/ WorkEnds
<1>1. CASE command.type = "render"
  BY <1>1 DEF Return, NoneMoves, Running
<1>2. CASE command.type # "render"
  BY <1>2 DEF Return, WorkEnds, RequestOf, None, Running
<1>. QED BY <1>1, <1>2

LEMMA WorkerOnOpens ==
  ASSUME TypeOK, OpensAgree, WorkerNext
  PROVE  NoneMoves \/ WorkEnds \/ RequestMoves \/ AnswerMoves
<1>0. /\ Running
      /\ queue \in [Lanes -> Seq(Command)] /\ events \in [EventLanes -> Seq(Event)]
      /\ pc \in ReceivePcs => command = None
      /\ pc \in RenderPcs => command.type = "render"
      /\ pc \in HandlerPcs => command.type = pc
      /\ pc \in EmittingPcs => outgoing \in Event
  BY WorkerRuns, RenderIsJob DEF TypeOK, ChannelsOK, InHandOK, Job
<1> USE DEF sharedVars
<1>1. CASE PollShutdown \/ Wake
  BY <1>0, <1>1 DEF PollShutdown, Wake, NoneMoves, WorkEnds, RequestOf, None, ReceivePcs, Running
<1>2. CASE PollControl
  <2>1. PICK next \in ReceivePcs : Poll("control", next)
    BY <1>2 DEF PollControl, ReceivePcs
  <2>2. RequestOf(command) = <<>>
    BY <1>0, <1>2 DEF PollControl, ReceivePcs, RequestOf, None
  <2>3. CASE queue["control"] # <<>>
    <3>1. Head(queue["control"]) \in Command
      BY <1>0, <2>3, HeadTailProperties DEF Lanes
    <3>2. Head(queue["control"]).type # "stopped"
      BY <3>1 DEF Command, Job, Text, DocumentCommand
    <3>. QED BY <1>0, <2>1, <2>2, <2>3, <3>2 DEF Poll, RequestMoves, Running, Lanes
  <2>4. CASE queue["control"] = <<>>
    BY <1>0, <2>1, <2>4 DEF Poll, NoneMoves, Running, ReceivePcs
  <2>. QED BY <2>3, <2>4
<1>3. CASE PollVisible \/ PollLow
  <2>1. PICK lane \in {"visible", "low"}, next \in ReceivePcs : Poll(lane, next)
    BY <1>3 DEF PollVisible, PollLow, ReceivePcs
  <2>2. command = None
    BY <1>0, <1>3 DEF PollVisible, PollLow, ReceivePcs
  <2>3. CASE queue[lane] # <<>>
    <3>1. Head(queue[lane]) \in Command /\ Head(queue[lane]).type # "open"
      BY <1>0, <2>3, HeadTailProperties, EmptySeq DEF OpensAgree, Lanes
    <3>2. Head(queue[lane]).type # "stopped"
      BY <3>1 DEF Command, Job, Text, DocumentCommand
    <3>. QED BY <1>0, <2>1, <2>2, <2>3, <3>1, <3>2
             DEF Poll, NoneMoves, RequestOf, None, Running, Lanes
  <2>4. CASE queue[lane] = <<>>
    BY <1>0, <2>1, <2>2, <2>4 DEF Poll, NoneMoves, RequestOf, None, Running, ReceivePcs
  <2>. QED BY <2>3, <2>4
<1>4. CASE OpenDocument
  BY <1>0, <1>4 DEF OpenDocument, Emit, Failed, NoneMoves, Running
<1>5. CASE CloseDocument \/ ShutdownCommand
  BY <1>0, <1>5, ReturnAnswered DEF CloseDocument, ShutdownCommand, RequestOf, HandlerPcs
<1>6. CASE RenderPage \/ LookUp \/ Draw
  BY <1>0, <1>6, ReturnAnswered
     DEF RenderPage, LookUp, Draw, Emit, Failed, RequestOf, HandlerPcs, RenderPcs, NoneMoves,
         Running
<1>7. CASE Keep
  BY <1>0, <1>7, ReturnAnswered DEF Keep, Emit, RequestOf, RenderPcs, NoneMoves, Running
<1>8. CASE Unpend
  BY <1>0, <1>8 DEF Unpend, RequestOf, None, RenderPcs, NoneMoves, WorkEnds, Running
<1>9. CASE FetchText \/ QueryDocument
  BY <1>0, <1>9, ReturnAnswered
     DEF FetchText, QueryDocument, Emit, Failed, RequestOf, HandlerPcs, NoneMoves, Running
<1>10. CASE SearchPage
  BY <1>0, <1>10, ReturnAnswered
     DEF SearchPage, OpensAgree, Emit, RequestOf, NoneMoves, Running
<1>11. CASE EmitEvent
  <2>1. RequestOf(command) = <<>> /\ events'["critical"] = events["critical"]
    BY <1>0, <1>11 DEF EmitEvent, OpensAgree, RequestOf, Push, EventLanes
  <2>. QED BY <1>0, <1>11, <2>1, ReturnAnswered DEF EmitEvent, Emit, NoneMoves, Running
<1>12. CASE EmitCritical
  BY <1>0, <1>12, ReturnGivesUp DEF EmitCritical, Emit, NoneMoves, Running
<1>13. CASE SendCritical
  <2>1. CASE Return(FALSE) /\ UNCHANGED events
    BY <1>0, <1>13, <2>1, ReturnGivesUp DEF SendCritical
  <2>2. CASE Push("critical") /\ Return(TRUE)
    <3>1. AnswerOf(outgoing) = RequestOf(command) /\ outgoing \in Event
      BY <1>0, <1>13 DEF SendCritical, OpensAgree, EmittingPcs
    <3>2. RequestOf(command') = <<>> /\ Running'
      BY <2>2 DEF Return, RequestOf, None, Running
    <3>. QED BY <1>0, <1>13, <2>2, <3>1, <3>2 DEF SendCritical, Push, AnswerMoves, EventLanes
  <2>. QED BY <1>13, <2>1, <2>2 DEF SendCritical
<1>. QED BY <1>1, <1>2, <1>3, <1>4, <1>5, <1>6, <1>7, <1>8, <1>9, <1>10, <1>11, <1>12, <1>13
         DEF WorkerNext

LEMMA LanesAgree ==
  ASSUME TypeOK, OpensAgree, Next
  PROVE  \A lane \in {"visible", "low"} : \A i \in DOMAIN queue'[lane] :
           queue'[lane][i].type # "open"
<1>0. /\ queue \in [Lanes -> Seq(Command)]
      /\ \A lane \in Lanes : DOMAIN queue[lane] = 1..Len(queue[lane]) /\ Len(queue[lane]) \in Nat
  BY DEF TypeOK, ChannelsOK
<1>1. CASE \E c \in Command : Enqueue(c)
  <2>1. PICK c \in Command : Enqueue(c)
    BY <1>1
  <2> SUFFICES ASSUME NEW lane \in {"visible", "low"}, NEW i \in DOMAIN queue'[lane]
               PROVE  queue'[lane][i].type # "open"
    OBVIOUS
  <2>2. CASE LaneOf(c) = lane
    <3>1. c.type # "open"
      BY <2>2 DEF LaneOf
    <3>2. queue'[lane] = Append(queue[lane], c)
      BY <1>0, <2>1, <2>2 DEF Enqueue, Lanes
    <3>3. queue[lane] \in Seq(Command)
      BY <1>0 DEF Lanes
    <3>4. CASE i \in 1..Len(queue[lane])
      BY <3>2, <3>3, <3>4, AppendProperties DEF OpensAgree
    <3>5. CASE i = Len(queue[lane]) + 1
      BY <3>1, <3>2, <3>3, <3>5, AppendProperties
    <3>. QED BY <3>2, <3>3, <3>4, <3>5, AppendProperties
  <2>3. CASE LaneOf(c) # lane
    BY <1>0, <2>1, <2>3, LaneType DEF Enqueue, OpensAgree, Lanes
  <2>. QED BY <2>2, <2>3
<1>2. CASE \E lane \in Lanes : queue[lane] # <<>> /\ queue' = [queue EXCEPT ![lane] = Tail(@)]
  <2>1. PICK taken \in Lanes :
          queue[taken] # <<>> /\ queue' = [queue EXCEPT ![taken] = Tail(@)]
    BY <1>2
  <2> SUFFICES ASSUME NEW lane \in {"visible", "low"}, NEW i \in DOMAIN queue'[lane]
               PROVE  queue'[lane][i].type # "open"
    OBVIOUS
  <2>2. CASE taken = lane
    <3>1. queue'[lane] = Tail(queue[lane]) /\ queue[lane] # <<>> /\ queue[lane] \in Seq(Command)
      BY <1>0, <2>1, <2>2 DEF Lanes
    <3>2. i + 1 \in DOMAIN queue[lane] /\ queue'[lane][i] = queue[lane][i + 1]
      BY <3>1, HeadTailProperties
    <3>. QED BY <3>2 DEF OpensAgree
  <2>3. CASE taken # lane
    BY <1>0, <2>1, <2>3 DEF OpensAgree, Lanes
  <2>. QED BY <2>2, <2>3
<1>3. CASE UNCHANGED queue
  BY <1>3 DEF OpensAgree
<1>4. CASE UiNext
  <2>1. UiCalls
    BY <1>4, UiStep
  <2>. QED
    BY <1>1, <1>3, <2>1 DEF UiCalls, SendRender, SendCommand, InsertPending, BumpGeneration,
       SetInvertColors, PollCritical, PollEvent, Shutdown, JoinWorker, JoinTimeout, Command
<1>5. CASE WorkerNext
  <2>1. CASE PollControl \/ PollVisible \/ PollLow
    BY <1>2, <1>3, <2>1 DEF PollControl, PollVisible, PollLow, Poll, Lanes
  <2>2. CASE PollShutdown \/ Wake \/ OpenDocument \/ CloseDocument \/ ShutdownCommand
    BY <1>3, <2>2 DEF PollShutdown, Wake, OpenDocument, CloseDocument, ShutdownCommand
  <2>3. CASE RenderPage \/ LookUp \/ Draw \/ Keep \/ Unpend
    BY <1>3, <2>3 DEF RenderPage, LookUp, Draw, Keep, Unpend
  <2>4. CASE FetchText \/ QueryDocument \/ SearchPage \/ EmitEvent \/ EmitCritical \/ SendCritical
    BY <1>3, <2>4 DEF FetchText, QueryDocument, SearchPage, EmitEvent, EmitCritical, SendCritical
  <2>. QED BY <1>5, <2>1, <2>2, <2>3, <2>4 DEF WorkerNext
<1>6. CASE \E d \in Docs : FileChanged(d)
  BY <1>3, <1>6 DEF FileChanged
<1>. QED BY <1>4, <1>5, <1>6 DEF Next

\* What the worker has in hand to emit answers what it handles.
HandAgrees ==
  /\ pc \in EmittingPcs => AnswerOf(outgoing) = RequestOf(command)
  /\ pc \in {"emit", "searchPage"} => command.type # "open"

LEMMA ReturnAgrees ==
  ASSUME NEW b \in BOOLEAN, Return(b)
  PROVE  HandAgrees'
BY DEF Return, HandAgrees, EmittingPcs

LEMMA WorkerAgrees ==
  ASSUME TypeOK, HandAgrees, WorkerNext
  PROVE  HandAgrees'
<1>0. /\ queue \in [Lanes -> Seq(Command)]
      /\ pc \in RenderPcs => command.type = "render"
      /\ pc \in HandlerPcs => command.type = pc
      /\ pc \in {"draw", "keep"} => outgoing.of = "render"
  BY RenderIsJob DEF TypeOK, ChannelsOK, InHandOK, Job, Event
<1>f. Failed => HandAgrees'
  BY DEF Failed, Emit, HandAgrees, AnswerOf, RequestOf
<1>1. CASE PollShutdown \/ Wake
  BY <1>1 DEF PollShutdown, Wake, HandAgrees, EmittingPcs
<1>2. CASE PollControl \/ PollVisible \/ PollLow
  <2>1. PICK lane \in Lanes, next \in ReceivePcs : Poll(lane, next)
    BY <1>2 DEF PollControl, PollVisible, PollLow, ReceivePcs, Lanes
  <2>2. CASE queue[lane] # <<>>
    <3>1. Head(queue[lane]) \in Command
      BY <1>0, <2>2, HeadTailProperties
    <3>2. Head(queue[lane]).type \in HandlerPcs
      BY <3>1 DEF Command, Job, Text, DocumentCommand, HandlerPcs
    <3>. QED BY <2>1, <2>2, <3>2 DEF Poll, HandAgrees, EmittingPcs, HandlerPcs
  <2>3. CASE queue[lane] = <<>>
    BY <2>1, <2>3 DEF Poll, HandAgrees, EmittingPcs, ReceivePcs
  <2>. QED BY <2>2, <2>3
<1>4. CASE OpenDocument
  BY <1>0, <1>4, <1>f DEF OpenDocument, Emit, HandAgrees, AnswerOf, RequestOf, HandlerPcs
<1>5. CASE CloseDocument \/ ShutdownCommand \/ RenderPage
  BY <1>5, ReturnAgrees DEF CloseDocument, ShutdownCommand, RenderPage, HandAgrees, EmittingPcs
<1>r. ASSUME NEW e, NEW how, Emit(e, how), e.of # "open", command.type # "open"
      PROVE  HandAgrees'
  BY <1>r DEF Emit, HandAgrees, AnswerOf, RequestOf
<1>6. CASE LookUp
  <2>1. command.type # "open"
    BY <1>0, <1>6 DEF LookUp, RenderPcs
  <2>2. \A b : PageEvent(command, b).of # "open"
    BY DEF PageEvent
  <2>. QED BY <1>6, <1>r, <2>1, <2>2, ReturnAgrees DEF LookUp
<1>7. CASE Draw \/ Keep
  BY <1>0, <1>7, <1>f, ReturnAgrees
     DEF Draw, Keep, Emit, HandAgrees, AnswerOf, RequestOf, RenderPcs, EmittingPcs
<1>8. CASE Unpend
  BY <1>8 DEF Unpend, HandAgrees, EmittingPcs
<1>9. CASE FetchText \/ QueryDocument
  <2>1. command.type \in {"text", "query", "search"}
    BY <1>0, <1>9 DEF FetchText, QueryDocument, HandlerPcs
  <2>. QED BY <1>9, <1>f, <1>r, <2>1, ReturnAgrees DEF FetchText, QueryDocument
<1>10. CASE SearchPage \/ EmitEvent \/ EmitCritical \/ SendCritical
  BY <1>10, ReturnAgrees
     DEF SearchPage, EmitEvent, EmitCritical, SendCritical, Emit, HandAgrees, EmittingPcs
<1>. QED BY <1>1, <1>2, <1>4, <1>5, <1>6, <1>7, <1>8, <1>9, <1>10 DEF WorkerNext

LEMMA OpensStep ==
  ASSUME TypeOK, OpensAgree, [Next]_vars
  PROVE  OpensAgree'
<1>1. HandAgrees /\ UNCHANGED workerVars => HandAgrees'
  BY DEF HandAgrees, workerVars
<1>2. CASE Next
  <2>1. CASE UiNext
    <3>1. UiCalls
      BY <2>1, UiStep
    <3>. QED
      BY <1>1, <1>2, <3>1, LanesAgree
         DEF OpensAgree, HandAgrees, UiCalls, SendRender, SendCommand, InsertPending,
             BumpGeneration, SetInvertColors, PollCritical, PollEvent, Shutdown, JoinWorker,
             JoinTimeout
  <2>2. CASE WorkerNext
    BY <1>2, <2>2, LanesAgree, WorkerAgrees DEF OpensAgree, HandAgrees
  <2>3. CASE \E d \in Docs : FileChanged(d)
    BY <1>1, <1>2, <2>3, LanesAgree DEF OpensAgree, HandAgrees, FileChanged
  <2>. QED BY <1>2, <2>1, <2>2, <2>3 DEF Next
<1>3. CASE UNCHANGED vars
  BY <1>3 DEF vars, workerVars, OpensAgree
<1>. QED BY <1>2, <1>3

-----------------------------------------------------------------------------
(* Every step is one of AnsweredRequests, or none *)

LEMMA OpensAskedType ==
  ASSUME TypeOK
  PROVE  /\ Answered(events["critical"]) \in Seq(Docs)
         /\ RequestOf(command) \in Seq(Docs)
         /\ Requested(queue["control"]) \in Seq(Docs)
         /\ OpensAsked \in Seq(Docs)
<1>1. events["critical"] \in Seq(Event) /\ queue["control"] \in Seq(Command)
  BY DEF TypeOK, ChannelsOK, Lanes, EventLanes
<1>2. command = None \/ command \in Command
  BY DEF TypeOK, InHandOK, Command
<1>3. /\ Answered(events["critical"]) \in Seq(Docs)
      /\ RequestOf(command) \in Seq(Docs)
      /\ Requested(queue["control"]) \in Seq(Docs)
  BY <1>1, <1>2, AnsweredType, RequestType, RequestedType, EmptySeq
<1>. QED BY <1>3, ConcatProperties, EmptySeq DEF OpensAsked

LEMMA DocsAssociative ==
  \A a, b, c \in Seq(Docs) : (a \o b) \o c = a \o (b \o c)
BY ConcatAssociative

LEMMA TailOfOne ==
  ASSUME NEW S, NEW x \in S, NEW s \in Seq(S)
  PROVE  <<x>> \o s # <<>> /\ Tail(<<x>> \o s) = s
<1> DEFINE u == <<x>>
           t == u \o s
<1>1. u \in Seq(S) /\ Len(u) = 1
  OBVIOUS
<1> HIDE DEF u
<1>2. t \in Seq(S) /\ Len(t) = 1 + Len(s) /\ \A i \in 1..Len(s) : t[i + 1] = s[i]
  <2>1. /\ t \in Seq(S) /\ Len(t) = Len(u) + Len(s)
        /\ \A i \in 1..Len(u) + Len(s) : t[i] = IF i <= Len(u) THEN u[i] ELSE s[i - Len(u)]
    BY <1>1, ConcatProperties
  <2> HIDE DEF t
  <2>2. Len(s) \in Nat
    OBVIOUS
  <2>. QED BY <1>1, <2>1, <2>2
<1> HIDE DEF t
<1>3. t # <<>> /\ Len(s) \in Nat
  BY <1>2, EmptySeq
<1>4. Tail(t) \in Seq(S) /\ Len(Tail(t)) = Len(s) /\ \A i \in 1..Len(s) : Tail(t)[i] = s[i]
  BY <1>2, <1>3, HeadTailProperties
<1>5. Tail(t) = s
  BY <1>4, SeqEqual
<1>. QED BY <1>3, <1>5 DEF t, u

\* Taking an answer off the queue answers the oldest request, or concerns none.
LEMMA AnswerTaken ==
  ASSUME TypeOK, events["critical"] # <<>>, events'["critical"] = Tail(events["critical"]),
         UNCHANGED <<queue, command, pc>>
  PROVE  [Opens!Next]_Opens!vars
<1> DEFINE rest == Answered(Tail(events["critical"])) \o RequestOf(command)
                     \o (IF Running THEN Requested(queue["control"]) ELSE <<>>)
           first == AnswerOf(Head(events["critical"]))
<1>1. events["critical"] \in Seq(Event)
  BY DEF TypeOK, ChannelsOK, EventLanes
<1>2. Head(events["critical"]) \in Event /\ Tail(events["critical"]) \in Seq(Event)
  BY <1>1, HeadTailProperties
<1>3. /\ first \in Seq(Docs) /\ Answered(Tail(events["critical"])) \in Seq(Docs)
      /\ RequestOf(command) \in Seq(Docs) /\ Requested(queue["control"]) \in Seq(Docs)
  BY <1>2, OpensAskedType, RequestType, AnsweredType
<1>4. rest \in Seq(Docs)
  BY <1>3, ConcatProperties, EmptySeq
<1>5. OpensAsked = first \o rest
  <2>1. Answered(events["critical"]) = first \o Answered(Tail(events["critical"]))
    BY <1>1, AnsweredTail
  <2> DEFINE a == Answered(Tail(events["critical"]))
             r == RequestOf(command)
             q == IF Running THEN Requested(queue["control"]) ELSE <<>>
  <2>2. a \in Seq(Docs) /\ r \in Seq(Docs) /\ q \in Seq(Docs)
    BY <1>3, EmptySeq
  <2> DEFINE x == a \o r
  <2>3. x \in Seq(Docs)
    BY <2>2, ConcatProperties
  <2>4. OpensAsked = ((first \o a) \o r) \o q /\ rest = x \o q
    BY <2>1 DEF OpensAsked
  <2>5. (first \o a) \o r = first \o x
    <3>1. first \in Seq(Docs)
      BY <1>3
    <3> HIDE DEF a, r, first
    <3>. QED BY <2>2, <3>1, DocsAssociative
  <2>6. first \in Seq(Docs)
    BY <1>3
  <2>7. OpensAsked = (first \o x) \o q
    BY <2>4, <2>5
  <2> HIDE DEF a, r, q, first, rest, x
  <2>8. (first \o x) \o q = first \o (x \o q)
    BY <2>2, <2>3, <2>6, DocsAssociative
  <2>. QED BY <2>4, <2>7, <2>8
<1>6. OpensAsked' = rest /\ Running' = Running
  BY DEF OpensAsked, Running
<1> HIDE DEF rest
<1>7. CASE first = <<>>
  BY <1>4, <1>5, <1>6, <1>7 DEF Opens!vars
<1>8. CASE first = <<Head(events["critical"]).doc>>
  <2>0. Head(events["critical"]).doc \in Docs
    <3>1. first[1] \in Docs
      <4> HIDE DEF first
      <4>. QED BY <1>3, <1>8
    <3>. QED BY <1>8, <3>1
  <2>1. OpensAsked # <<>> /\ Tail(OpensAsked) = rest
    BY <1>4, <1>5, <1>8, <2>0, TailOfOne
  <2>. QED BY <1>6, <2>1 DEF Opens!Next, Opens!Answer
<1>. QED BY <1>7, <1>8 DEF AnswerOf

\* Queueing a command asks for a document, or concerns none.
LEMMA CommandQueued ==
  ASSUME PipelineAssumption, TypeOK, NEW c \in Command, Enqueue(c),
         UNCHANGED <<events, command, pc>>
  PROVE  [Opens!Next]_Opens!vars
<1>1. Running /\ Running'
  BY DEF Enqueue, TakesWork, Running
<1>2. queue \in [Lanes -> Seq(Command)] /\ LaneOf(c) \in Lanes /\ "control" \in Lanes
  BY LaneType DEF TypeOK, ChannelsOK, Lanes
<1> DEFINE before == Answered(events["critical"]) \o RequestOf(command)
<1>3. /\ before \in Seq(Docs) /\ RequestOf(c) \in Seq(Docs)
      /\ Requested(queue["control"]) \in Seq(Docs)
  BY OpensAskedType, RequestType, ConcatProperties
<1>4. OpensAsked = before \o Requested(queue["control"])
      /\ OpensAsked' = before \o Requested(queue'["control"])
  BY <1>1 DEF OpensAsked
<1> HIDE DEF before
<1>5. CASE c.type = "open"
  <2>1. queue'["control"] = Append(queue["control"], c)
    BY <1>2, <1>5 DEF Enqueue, LaneOf
  <2>2. Requested(queue'["control"]) = Requested(queue["control"]) \o RequestOf(c)
    BY <1>2, <2>1, RequestedAppend
  <2> DEFINE r == RequestOf(c)
             q == Requested(queue["control"])
  <2>r. r \in Seq(Docs) /\ q \in Seq(Docs)
    BY <1>3
  <2>q. OpensAsked' = before \o (q \o r) /\ OpensAsked = before \o q
    BY <1>4, <2>2
  <2> HIDE DEF r, q
  <2>3. OpensAsked' = OpensAsked \o r
    <3>0. before \in Seq(Docs) /\ r \in Seq(Docs) /\ q \in Seq(Docs)
      BY <1>3, <2>r
    <3>1. (before \o q) \o r = before \o (q \o r)
      BY <3>0, DocsAssociative
    <3>. QED BY <2>q, <3>1
  <2>4. OpensAsked' = Append(OpensAsked, c.doc) /\ c.doc \in Docs
    <3>1. c.doc \in Docs
      BY DEF Command, Job, Text, DocumentCommand
    <3>2. OpensAsked \in Seq(Docs)
      BY OpensAskedType
    <3>. QED BY <1>5, <2>3, <3>1, <3>2, AppendIsConcat DEF RequestOf, r
  <2>. QED BY <1>1, <2>4 DEF Opens!Next, Opens!Ask
<1>6. CASE c.type # "open"
  <2>1. CASE LaneOf(c) = "control"
    <3>1. queue'["control"] = Append(queue["control"], c)
      BY <1>2, <2>1 DEF Enqueue
    <3> DEFINE r == Requested(queue["control"])
    <3>2. Requested(queue'["control"]) = r \o RequestOf(c)
      BY <1>2, <3>1, RequestedAppend
    <3>3. r \in Seq(Docs) /\ RequestOf(c) = <<>>
      BY <1>3, <1>6 DEF RequestOf
    <3>4. r \o <<>> = r
      <4> HIDE DEF r
      <4>. QED BY <3>3, ConcatEmptySeq
    <3>5. Requested(queue'["control"]) = Requested(queue["control"])
      BY <3>2, <3>3, <3>4
    <3>. QED BY <1>1, <1>4, <3>5 DEF Opens!vars
  <2>2. CASE LaneOf(c) # "control"
    <3>1. queue'["control"] = queue["control"]
      BY <1>2, <2>2 DEF Enqueue
    <3>. QED BY <1>1, <1>4, <3>1 DEF Opens!vars
  <2>. QED BY <2>1, <2>2
<1>. QED BY <1>5, <1>6

LEMMA WorkerAnswers ==
  ASSUME TypeOK, OpensAgree, WorkerNext
  PROVE  [Opens!Next]_Opens!vars
<1> DEFINE A == Answered(events["critical"])
           R == RequestOf(command)
           Q == Requested(queue["control"])
<1>1. A \in Seq(Docs) /\ R \in Seq(Docs) /\ Q \in Seq(Docs)
  BY OpensAskedType
<1>2. /\ events["critical"] \in Seq(Event) /\ queue["control"] \in Seq(Command)
      /\ Running
  BY WorkerRuns DEF TypeOK, ChannelsOK, Lanes, EventLanes
<1>3. OpensAsked = A \o R \o Q
  BY <1>2 DEF OpensAsked
<1>4. CASE NoneMoves
  BY <1>4 DEF NoneMoves, Opens!vars, OpensAsked
<1>5. CASE WorkEnds
  <2>1. OpensAsked' = A /\ ~ Running'
    <3>1. A \o <<>> = A
      BY <1>1, ConcatEmptySeq
    <3>. QED BY <1>5, <3>1 DEF WorkEnds, OpensAsked
  <2> HIDE DEF A, R, Q
  <2>2. /\ R \o Q \in Seq(Docs) /\ OpensAsked = A \o (R \o Q)
    BY <1>1, <1>3, ConcatProperties, ConcatAssociative
  <2> DEFINE B == R \o Q
  <2>3. B \in Seq(Docs) /\ OpensAsked = A \o B
    BY <2>2
  <2> HIDE DEF B
  <2>4. Len(A) \in 0..Len(OpensAsked) /\ A = SubSeq(OpensAsked, 1, Len(A))
    <3>1. /\ OpensAsked \in Seq(Docs) /\ Len(OpensAsked) = Len(A) + Len(B)
          /\ Len(A) \in Nat /\ Len(B) \in Nat
          /\ \A i \in 1..Len(A) : OpensAsked[i] = A[i]
      BY <1>1, <2>3, ConcatProperties
    <3> DEFINE D == SubSeq(OpensAsked, 1, Len(A))
    <3>2. /\ D \in Seq(Docs) /\ Len(D) = Len(A)
          /\ \A i \in 1..Len(A) : D[i] = OpensAsked[i]
      BY <3>1, SubSeqProperties
    <3> HIDE DEF D
    <3>3. A = D
      BY <1>1, <3>1, <3>2, SeqEqual
    <3>. QED BY <3>1, <3>3 DEF D
  <2>. QED BY <1>2, <2>1, <2>4 DEF Opens!Next, Opens!End
<1>6. CASE RequestMoves
  <2>1. Q = RequestOf(Head(queue["control"])) \o Requested(Tail(queue["control"]))
    BY <1>2, <1>6, RequestedTail DEF RequestMoves
  <2>2. /\ Head(queue["control"]) \in Command /\ Tail(queue["control"]) \in Seq(Command)
    BY <1>2, <1>6, HeadTailProperties DEF RequestMoves
  <2>3. /\ RequestOf(Head(queue["control"])) \in Seq(Docs)
        /\ Requested(Tail(queue["control"])) \in Seq(Docs)
    BY <2>2, RequestType, RequestedType
  <2>4. OpensAsked' = A \o RequestOf(Head(queue["control"]))
                        \o Requested(Tail(queue["control"]))
    BY <1>6 DEF RequestMoves, OpensAsked
  <2>5. OpensAsked = A \o Q
    BY <1>1, <1>3, <1>6, ConcatEmptySeq DEF RequestMoves
  <2>6. OpensAsked' = OpensAsked
    BY <1>1, <2>1, <2>3, <2>4, <2>5, ConcatAssociative
  <2>. QED BY <1>6, <2>6 DEF RequestMoves, Opens!vars
<1>7. CASE AnswerMoves
  <2>1. Answered(events'["critical"]) = A \o R
    BY <1>2, <1>7, AnsweredAppend DEF AnswerMoves
  <2>2. OpensAsked' = (A \o R) \o <<>> \o Q
    BY <1>7, <2>1 DEF AnswerMoves, OpensAsked
  <2>3. A \o R \in Seq(Docs)
    BY <1>1, ConcatProperties
  <2>4. OpensAsked' = OpensAsked
    BY <1>3, <2>2, <2>3, ConcatEmptySeq
  <2>. QED BY <1>7, <2>4 DEF AnswerMoves, Opens!vars
<1>. QED BY <1>4, <1>5, <1>6, <1>7, WorkerOnOpens

\* For all constants: the pipeline implements AnsweredRequests, so every
\* OpenDocument it accepted is answered once, in the order of the requests, and
\* what is not answered when the worker stops is lost together.
THEOREM OpensImplement == Spec => OpensAreAnswered
<1>1. Init => Opens!Init
  <2>1. Requested(<<>>) = <<>> /\ Answered(<<>>) = <<>>
    <3> DEFINE none == <<>>
    <3>1. /\ none \in Seq(Command) /\ none \in Seq(Event)
          /\ [i \in DOMAIN none |-> RequestOf(none[i])] = <<>>
          /\ [i \in DOMAIN none |-> AnswerOf(none[i])] = <<>>
      OBVIOUS
    <3> HIDE DEF none
    <3>2. Requested(none) = <<>> /\ Answered(none) = <<>>
      BY <3>1, RequestedIs, AnsweredIs, FlattenEmpty
    <3>. QED BY <3>2 DEF none
  <2>. QED BY <2>1, ConcatEmptySeq, EmptySeq
           DEF Init, Opens!Init, OpensAsked, RequestOf, None, Running, Lanes, EventLanes
<1>2. TypeOK /\ OpensAgree /\ [Next]_vars => [Opens!Next]_Opens!vars
  <2> SUFFICES ASSUME TypeOK, OpensAgree, [Next]_vars PROVE [Opens!Next]_Opens!vars
    OBVIOUS
  <2>1. ASSUME UNCHANGED <<events, queue, command, pc>>
        PROVE  [Opens!Next]_Opens!vars
    BY <2>1 DEF OpensAsked, Running, Opens!vars
  <2>2. CASE UiNext
    <3>1. UiCalls
      BY <2>2, UiStep
    <3>2. CASE \E c \in Command : Enqueue(c) /\ UNCHANGED <<events, workerVars>>
      BY <3>2, CommandQueued, PipelineAssumption DEF workerVars
    <3>3. CASE PollCritical
      BY <2>1, <3>3, AnswerTaken DEF PollCritical, workerVars, TypeOK, ChannelsOK, EventLanes
    <3>4. CASE PollEvent
      <4>1. events'["critical"] = events["critical"] /\ UNCHANGED <<queue, command, pc>>
        BY <3>4 DEF PollEvent, workerVars, TypeOK, ChannelsOK, EventLanes
      <4>. QED BY <4>1 DEF OpensAsked, Running, Opens!vars
    <3>. QED
      BY <2>1, <3>1, <3>2, <3>3, <3>4
         DEF UiCalls, SendRender, SendCommand, InsertPending, BumpGeneration,
             SetInvertColors, Shutdown, JoinWorker, JoinTimeout, workerVars, Command
  <2>3. CASE WorkerNext
    BY <2>3, WorkerAnswers
  <2>4. CASE \E d \in Docs : FileChanged(d)
    BY <2>1, <2>4 DEF FileChanged, workerVars
  <2>5. CASE UNCHANGED vars
    BY <2>1, <2>5 DEF vars, workerVars
  <2>. QED BY <2>2, <2>3, <2>4, <2>5 DEF Next
<1>. QED BY <1>1, <1>2, OpensInit, OpensStep, PipelineTypes, PTL
         DEF Spec, OpensAreAnswered, Opens!Spec
=============================================================================
