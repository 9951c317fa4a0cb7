------------------------------ MODULE ToolJobs ------------------------------
(***************************************************************************)
(* The tool worker (apps/barepdf/src/infrastructure/tool_worker.rs), which *)
(* merges, splits, converts ... one file job at a time, and the part of    *)
(* the UI that starts, cancels and unlocks jobs and takes their events     *)
(* (apps/barepdf/src/presentation/callbacks/tools.rs).                     *)
(*                                                                         *)
(* The two threads share a command queue of one, an event queue, an atomic *)
(* that says whether there is a job, the cancellation token of the request *)
(* that runs, and a shutdown flag.  At most two events are ever queued     *)
(* (TypeOK), far below the 16 there is room for, so send_event's           *)
(* waiting for room and giving up after 500 ms have no part here.          *)
(***************************************************************************)
EXTENDS SequencesExt, Integers

CONSTANTS
  MaxJobs,     \* job ids the UI hands out
  MaxStamp,    \* generations and source tokens, taken together
  CommandCap,  \* COMMAND_CAPACITY
  Operations   \* what a job may be: the protected files it reads, in order

VARIABLES
  ui,        \* AppState::tools
  commands,  \* ToolWorker::command_sender
  shared,    \* active, current_cancellation, shutdown, and the tokens
  worker,    \* the worker thread
  events,    \* ToolWorker::event_receiver
  output     \* jobs whose result is in place on disk

Ids == 1..MaxJobs
NoKey == [id |-> 0, stamp |-> 0]
NoSource == "none"
NoRequest == [key |-> NoKey, sources |-> <<>>]
NotPending == [request |-> NoRequest, source |-> NoSource]
Event(kind, key) == [kind |-> kind, key |-> key]
NoEvent == Event("none", NoKey)

Init ==
  /\ ui = [open |-> TRUE, job |-> NoKey, prompt |-> FALSE, awaited |-> NoSource,
           stamp |-> 1, next |-> 1]
  /\ commands = <<>> /\ events = <<>> /\ output = {}
  /\ shared = [active |-> FALSE, current |-> 0, cancelled |-> {}, shutdown |-> FALSE]
  /\ worker = [at |-> "head", request |-> NoRequest, pending |-> NotPending, event |-> NoEvent]

-----------------------------------------------------------------------------
(* The UI thread *)

HasRoom == Len(commands) < CommandCap

\* queue_tool_operation, with set_tool_source before it where the callback has
\* another source; submit refuses while the worker is active or the queue full.
\* A request is known by the files that it has no password for yet.
QueueToolOperation(operation, newSource) ==
  LET stamp == ui.stamp + (IF newSource THEN 1 ELSE 0)
      key == [id |-> ui.next, stamp |-> stamp]
      named == [ui EXCEPT !.next = @ + 1, !.stamp = stamp]
  IN  /\ ui.open /\ ui.job = NoKey /\ ui.next <= MaxJobs /\ stamp <= MaxStamp
      /\ IF ~shared.active /\ HasRoom
         THEN /\ ui' = [named EXCEPT !.job = key, !.awaited = NoSource]
              /\ shared' = [shared EXCEPT !.active = TRUE]
              /\ commands' = Append(commands,
                   [do |-> "Start", request |-> [key |-> key, sources |-> operation]])
         ELSE ui' = named /\ UNCHANGED <<shared, commands>>
      /\ UNCHANGED <<worker, events, output>>

\* set_tool_source outside of a job (a tool opened, a file dropped on the panel,
\* a callback that is then refused because a job is active), or a new generation.
Outdate ==
  /\ ui.open /\ ui.stamp < MaxStamp
  /\ ui' = [ui EXCEPT !.stamp = @ + 1]
  /\ UNCHANGED <<commands, shared, worker, events, output>>

\* cancel_active_tool and ToolWorker::cancel: the token is set, the command is
\* lost when the queue is full, and the job stays until its last event.
CancelActiveTool ==
  /\ ui.open /\ ui.job # NoKey
  /\ ui' = [ui EXCEPT !.prompt = FALSE, !.awaited = NoSource]
  /\ shared' = [shared EXCEPT !.cancelled = @ \cup {ui.job.id}]
  /\ commands' = IF HasRoom THEN Append(commands, [do |-> "Cancel", key |-> ui.job]) ELSE commands
  /\ UNCHANGED <<worker, events, output>>

\* Mutant: the dialog stays up until the worker has answered.
SubmitToolPasswordKeepingDialog(right) ==
  /\ ui.open /\ ui.prompt /\ ui.job # NoKey /\ HasRoom
  /\ commands' = Append(commands, [do |-> "ProvidePassword", key |-> ui.job,
                                   source |-> ui.awaited, right |-> right])
  /\ UNCHANGED <<ui, shared, worker, events, output>>

\* on_request_submit_tool_password; a full queue only shows an error.
SubmitToolPassword(right) ==
  /\ ui.open /\ ui.prompt /\ ui.job # NoKey /\ HasRoom
  /\ commands' = Append(commands, [do |-> "ProvidePassword", key |-> ui.job,
                                   source |-> ui.awaited, right |-> right])
  /\ ui' = [ui EXCEPT !.prompt = FALSE]
  /\ UNCHANGED <<shared, worker, events, output>>

\* Mutant: an event of an older generation or source is ignored altogether.
HandleToolEventOfCurrent ==
  /\ ui.open /\ events # <<>>
  /\ LET event == Head(events)
     IN  ui' = IF event.key # ui.job \/ event.key.stamp # ui.stamp THEN ui
               ELSE IF event.kind = "PasswordRequired"
               THEN [ui EXCEPT !.prompt = TRUE, !.awaited = event.source]
               ELSE [ui EXCEPT !.job = NoKey, !.prompt = FALSE, !.awaited = NoSource]
  /\ events' = Tail(events)
  /\ UNCHANGED <<commands, shared, worker, output>>

\* handle_tool_event, from the event pump.  An event of an older generation or
\* source only ends its job, and asks for nothing.  No job is left for the new
\* generation that opening the output may bring to make a difference to.
HandleToolEvent ==
  /\ ui.open /\ events # <<>>
  /\ LET event == Head(events)
         active == event.key = ui.job
         current == active /\ event.key.stamp = ui.stamp
     IN  ui' = IF event.kind = "PasswordRequired"
               THEN IF current THEN [ui EXCEPT !.prompt = TRUE, !.awaited = event.source] ELSE ui
               ELSE IF ~active THEN ui
               ELSE [ui EXCEPT !.job = NoKey, !.prompt = FALSE,
                               !.awaited = IF current THEN NoSource ELSE @]
  /\ events' = Tail(events)
  /\ UNCHANGED <<commands, shared, worker, output>>

\* ToolWorker::shutdown, from Drop: only the token that is registered is set, and
\* the Shutdown command is lost when the queue is full.
Exit ==
  /\ ui.open
  /\ ui' = [ui EXCEPT !.open = FALSE]
  /\ shared' = [shared EXCEPT !.shutdown = TRUE, !.cancelled = @ \cup ({shared.current} \ {0})]
  /\ commands' = IF HasRoom THEN Append(commands, [do |-> "Shutdown"]) ELSE commands
  /\ events' = <<>>
  /\ UNCHANGED <<worker, output>>

-----------------------------------------------------------------------------
(* The worker thread *)

Cancelled == worker.request.key.id \in shared.cancelled

\* worker_loop, when it is left by whatever way.
End ==
  /\ worker' = [worker EXCEPT !.at = "ended", !.pending = NotPending]
  /\ shared' = [shared EXCEPT !.active = FALSE, !.current = 0]

\* The head of worker_loop.
LookAtShutdown ==
  /\ worker.at = "head"
  /\ IF shared.shutdown THEN End ELSE worker' = [worker EXCEPT !.at = "recv"] /\ UNCHANGED shared
  /\ UNCHANGED <<ui, commands, events, output>>

\* run_and_emit begins.
Running(request) ==
  [worker EXCEPT !.at = "register", !.request = request, !.pending = NotPending]

\* run_and_emit has come to a last event: the job is no longer active, its token
\* no longer registered, and then the event is sent.
Ending(event) == [worker EXCEPT !.at = "clear", !.event = event]

\* worker_loop: the request that is pending goes on once it has the password of
\* the file it waits for; any other password makes it ask again.
TakePassword(command) ==
  LET pending == worker.pending
  IN  /\ worker' = IF pending = NotPending THEN [worker EXCEPT !.at = "head"]
                   ELSE IF pending.request.key # command.key \/ pending.source # command.source
                   THEN [worker EXCEPT !.at = "send",
                           !.event = [kind |-> "PasswordRequired", key |-> pending.request.key,
                                      source |-> pending.source]]
                   ELSE Running([pending.request EXCEPT
                           !.sources = IF command.right THEN Remove(@, command.source) ELSE @])
      /\ UNCHANGED shared

\* Mutant: the request that waits for a password is forgotten without an event.
TakeCancelSilently(command) ==
  IF worker.pending.request.key = command.key
  THEN /\ worker' = [worker EXCEPT !.at = "head", !.pending = NotPending]
       /\ shared' = [shared EXCEPT !.active = FALSE, !.current = 0]
  ELSE worker' = [worker EXCEPT !.at = "head"] /\ UNCHANGED shared

\* worker_loop: only a request that waits for a password is cancelled here.
TakeCancel(command) ==
  IF worker.pending.request.key = command.key
  THEN /\ worker' = [worker EXCEPT !.at = "send", !.pending = NotPending,
                                   !.event = Event("Cancelled", command.key)]
       /\ shared' = [shared EXCEPT !.active = FALSE, !.current = 0]
  ELSE worker' = [worker EXCEPT !.at = "head"] /\ UNCHANGED shared

\* worker_loop, one command.  (A queue whose sender is gone would end it too, but
\* there is a Shutdown in it then, or a command after which the flag is seen.)
Receive ==
  /\ worker.at = "recv" /\ commands # <<>>
  /\ LET command == Head(commands)
     IN  CASE command.do = "Start" -> worker' = Running(command.request) /\ UNCHANGED shared
           [] command.do = "ProvidePassword" -> TakePassword(command)
           [] command.do = "Cancel" -> TakeCancel(command)
           [] command.do = "Shutdown" -> End
  /\ commands' = Tail(commands)
  /\ UNCHANGED <<ui, events, output>>

\* run_and_emit: from here on shutdown finds the token.
Register ==
  /\ worker.at = "register"
  /\ worker' = [worker EXCEPT !.at = "check"]
  /\ shared' = [shared EXCEPT !.current = worker.request.key.id]
  /\ UNCHANGED <<ui, commands, events, output>>

\* Mutant: execute_request leaves the token to the operation.
CheckNothing ==
  /\ worker.at = "check"
  /\ worker' = [worker EXCEPT !.at = "preflight"]
  /\ UNCHANGED <<ui, commands, shared, events, output>>

\* execute_request, before it starts.
Check ==
  /\ worker.at = "check"
  /\ worker' = IF Cancelled THEN Ending(Event("Cancelled", worker.request.key))
               ELSE [worker EXCEPT !.at = "preflight"]
  /\ UNCHANGED <<ui, commands, shared, events, output>>

\* preflight: every file is opened; the first one without its password makes the
\* request wait, its token still registered and the worker still active.
\* merge looks at the token between two files.  A panic is a failure too.
Preflight ==
  LET request == worker.request
      key == request.key
  IN  /\ worker.at = "preflight"
      /\ \/ worker' = Ending(Event("Failed", key))
         \/ Cancelled /\ worker' = Ending(Event("Cancelled", key))
         \/ IF request.sources = <<>> THEN worker' = [worker EXCEPT !.at = "write"]
            ELSE LET source == Head(request.sources)
                 IN  worker' = [worker EXCEPT !.at = "send", !.request = NoRequest,
                       !.pending = [request |-> request, source |-> source],
                       !.event = [kind |-> "PasswordRequired", key |-> key, source |-> source]]
      /\ UNCHANGED <<ui, commands, shared, events, output>>

\* The work, staged in a temporary file; then check_cancel and persist_file.
Write ==
  LET key == worker.request.key
  IN  /\ worker.at = "write"
      /\ \/ worker' = Ending(Event("Failed", key)) /\ UNCHANGED output
         \/ Cancelled /\ worker' = Ending(Event("Cancelled", key)) /\ UNCHANGED output
         \/ /\ ~Cancelled
            /\ worker' = [worker EXCEPT !.at = "written"] /\ output' = output \cup {key.id}
      /\ UNCHANGED <<ui, commands, shared, events>>

\* execute_request, after the work: cancelled now, the output stays in place.
Written ==
  /\ worker.at = "written"
  /\ worker' = Ending(Event(IF Cancelled THEN "Cancelled" ELSE "Completed", worker.request.key))
  /\ UNCHANGED <<ui, commands, shared, events, output>>

\* Mutant: the flag is left to the next job.
ClearTokenOnly ==
  /\ worker.at = "clear"
  /\ worker' = [worker EXCEPT !.at = "send", !.request = NoRequest]
  /\ shared' = [shared EXCEPT !.current = 0]
  /\ UNCHANGED <<ui, commands, events, output>>

Clear ==
  /\ worker.at = "clear"
  /\ worker' = [worker EXCEPT !.at = "send", !.request = NoRequest]
  /\ shared' = [shared EXCEPT !.active = FALSE, !.current = 0]
  /\ UNCHANGED <<ui, commands, events, output>>

\* Mutant: send_event blocks until the UI takes events.
SendToUi ==
  /\ worker.at = "send" /\ ui.open
  /\ worker' = [worker EXCEPT !.at = "head", !.event = NoEvent]
  /\ events' = Append(events, worker.event)
  /\ UNCHANGED <<ui, commands, shared, output>>

\* send_event; nobody takes events any more once the UI is gone.
Send ==
  /\ worker.at = "send"
  /\ worker' = [worker EXCEPT !.at = "head", !.event = NoEvent]
  /\ events' = IF ui.open THEN Append(events, worker.event) ELSE events
  /\ UNCHANGED <<ui, commands, shared, output>>

Worker ==
  LookAtShutdown \/ Receive \/ Register \/ Check \/ Preflight \/ Write \/ Written \/ Clear \/ Send

User ==
  \/ \E operation \in Operations, newSource \in BOOLEAN : QueueToolOperation(operation, newSource)
  \/ \E right \in BOOLEAN : SubmitToolPassword(right)
  \/ Outdate \/ CancelActiveTool \/ Exit

-----------------------------------------------------------------------------
(* Properties *)

Terminal(event) == event.kind \in {"Completed", "Cancelled", "Failed"}

TypeOK ==
  /\ ui.job.id \in 0..MaxJobs /\ ui.stamp \in 1..MaxStamp /\ ui.next \in 1..MaxJobs + 1
  /\ Len(commands) <= CommandCap /\ Len(events) <= 2
  /\ shared.cancelled \subseteq Ids /\ shared.current \in 0..MaxJobs /\ output \subseteq Ids
  /\ worker.at \in {"head", "recv", "register", "check", "preflight", "write", "written",
                    "clear", "send", "ended"}

\* The places a job can be at between submit and its last event.
StartQueued(id) == \E i \in DOMAIN commands :
  commands[i].do = "Start" /\ commands[i].request.key.id = id
InHand(id) ==
  \/ worker.request.key.id = id
  \/ worker.at = "send" /\ Terminal(worker.event) /\ worker.event.key.id = id
Waiting(id) == worker.pending.request.key.id = id
EndOnItsWay(id) == \E i \in DOMAIN events : Terminal(events[i]) /\ events[i].key.id = id

\* The job the UI waits for is in exactly one of these places, and no other job
\* is in any: none is lost, which would refuse all later ones, and none is
\* answered twice or after the next one has begun.
JobIsSomewhere ==
  ui.open => \A id \in Ids :
    LET places == {p \in 1..4 : <<StartQueued(id), InHand(id), Waiting(id), EndOnItsWay(id)>>[p]}
    IN  IF ui.job.id = id THEN \E p \in 1..4 : places = {p} ELSE places = {}

\* Once the UI has taken a job's last event the worker's own flag does not refuse
\* the next one, however the two threads run.
IdleIsAccepting == ui.open /\ ui.job = NoKey => ~shared.active

\* A password reaches the file it was asked for: the dialog and a queued password
\* are for what the request waits for, unless that has just been cancelled.
PasswordIsAwaited ==
  /\ \A i \in DOMAIN commands :
       commands[i].do = "ProvidePassword" /\ worker.pending # NotPending
         => worker.pending.request.key = commands[i].key /\ worker.pending.source = commands[i].source
  /\ ui.open /\ ui.prompt =>
       \/ worker.pending.request.key = ui.job /\ worker.pending.source = ui.awaited
       \/ ui.job.id \in shared.cancelled

\* What the UI is told of a job is so on disk; only a cancelled job may have left
\* its output all the same.
OutcomeIsTrue ==
  \A i \in DOMAIN events :
    /\ events[i].kind = "Completed" => events[i].key.id \in output
    /\ events[i].kind = "Failed" => events[i].key.id \notin output
=============================================================================
