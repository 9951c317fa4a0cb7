----------------------------- MODULE PrintJobs -----------------------------
(***************************************************************************)
(* Printing: the controller that reserves one job at a time                *)
(* (apps/barepdf/src/application/print_controller.rs), the print worker    *)
(* (apps/barepdf/src/infrastructure/print_worker.rs), what the UI does     *)
(* with both (apps/barepdf/src/presentation/callbacks/print.rs), and the   *)
(* spooler a job writes to.                                                *)
(*                                                                         *)
(* A second terminal event is never queued (TypeOK), so waiting            *)
(* for room in their queue of 16 and giving up after 500 ms have no part   *)
(* here; progress events are lost when theirs is full.                     *)
(***************************************************************************)
EXTENDS Sequences, Integers

CONSTANTS
  MaxJobs,      \* job ids the controller hands out
  CommandCap,   \* COMMAND_CAPACITY
  ProgressCap,  \* EVENT_CAPACITY, of the progress events
  PageCounts,   \* lengths a print range can have
  CopyCounts    \* copies one can ask for

VARIABLES
  ui,        \* PrintController and the window's print_progress (print_active is active # 0)
  commands,  \* PrintWorker::command_sender
  shared,    \* the shutdown flag and the jobs' cancel flags
  worker,    \* the worker thread
  events,    \* terminal_receiver and progress_receiver
  output     \* the spool document of every job

Ids == 1..MaxJobs
NoJob == [id |-> 0, pages |-> 1, copies |-> 1]
Event(kind, id) == [kind |-> kind, id |-> id]
NoEvent == Event("none", 0)
NoSpool == [state |-> "none", pages |-> 0, deviceCopies |-> 0]

Init ==
  /\ ui = [open |-> TRUE, active |-> 0, progress |-> 0, next |-> 1]
  /\ commands = <<>> /\ events = [terminal |-> <<>>, progress |-> <<>>]
  /\ shared = [cancelled |-> {}, shutdown |-> FALSE]
  /\ worker = [at |-> "head", job |-> NoJob, done |-> 0, backend |-> "untried", event |-> NoEvent]
  /\ output = [id \in Ids |-> NoSpool]

-----------------------------------------------------------------------------
(* The UI thread *)

\* Mutant: the controller does not look whether a job is active.
ReserveAlways(pages, copies) ==
  /\ ui.open /\ ui.next <= MaxJobs
  /\ ui' = [ui EXCEPT !.next = @ + 1, !.active = ui.next, !.progress = 0]
  /\ commands' = Append(commands, [do |-> "Start",
                   job |-> [id |-> ui.next, pages |-> pages, copies |-> copies]])
  /\ UNCHANGED <<shared, worker, events, output>>

\* on_request_confirm_print: reserve_job, then submit; where the worker refuses,
\* the reservation is released.
ConfirmPrint(pages, copies) ==
  LET job == [id |-> ui.next, pages |-> pages, copies |-> copies]
      reserved == [ui EXCEPT !.next = @ + 1]
  IN  /\ ui.open /\ ui.active = 0 /\ ui.next <= MaxJobs
      /\ IF Len(commands) < CommandCap
         THEN /\ ui' = [reserved EXCEPT !.active = job.id, !.progress = 0]
              /\ commands' = Append(commands, [do |-> "Start", job |-> job])
         ELSE ui' = reserved /\ UNCHANGED commands
      /\ UNCHANGED <<shared, worker, events, output>>

\* on_request_cancel_print
CancelPrint ==
  /\ ui.open /\ ui.active # 0
  /\ shared' = [shared EXCEPT !.cancelled = @ \cup {ui.active}]
  /\ UNCHANGED <<ui, commands, worker, events, output>>

\* Mutant: what the worker sent last of a job ends whatever is active.
HandleAnyPrintEvent ==
  /\ ui.open /\ events.terminal \o events.progress # <<>>
  /\ LET event == Head(events.terminal \o events.progress)
     IN  ui' = IF event.kind = "Progress" THEN [ui EXCEPT !.progress = event.percent]
               ELSE [ui EXCEPT !.active = 0, !.progress = 0]
  /\ events' = IF events.terminal # <<>> THEN [events EXCEPT !.terminal = Tail(@)]
               ELSE [events EXCEPT !.progress = Tail(@)]
  /\ UNCHANGED <<commands, shared, worker, output>>

\* try_recv_event, terminal events first, and handle_print_event; events of
\* another job than the active one are skipped.
HandlePrintEvent ==
  /\ ui.open /\ events.terminal \o events.progress # <<>>
  /\ LET event == Head(events.terminal \o events.progress)
     IN  ui' = IF event.id # ui.active THEN ui
               ELSE IF event.kind = "Progress" THEN [ui EXCEPT !.progress = event.percent]
               ELSE [ui EXCEPT !.active = 0,
                               !.progress = IF event.kind = "Finished" THEN 100 ELSE 0]
  /\ events' = IF events.terminal # <<>> THEN [events EXCEPT !.terminal = Tail(@)]
               ELSE [events EXCEPT !.progress = Tail(@)]
  /\ UNCHANGED <<commands, shared, worker, output>>

\* PrintController::shutdown: the active job's flag is set, the worker's flag,
\* and what is queued is thrown away; Shutdown is lost when the queue is full.
Exit ==
  /\ ui.open
  /\ ui' = [ui EXCEPT !.open = FALSE, !.active = 0]
  /\ shared' = [shutdown |-> TRUE, cancelled |-> shared.cancelled \cup ({ui.active} \ {0})]
  /\ commands' = IF Len(commands) < CommandCap THEN Append(commands, [do |-> "Shutdown"])
                 ELSE commands
  /\ events' = [terminal |-> <<>>, progress |-> <<>>]
  /\ UNCHANGED <<worker, output>>

-----------------------------------------------------------------------------
(* The worker thread *)

Job == worker.job

\* check_cancel
Stopped == Job.id \in shared.cancelled \/ shared.shutdown

\* The head of worker_loop.
LookAtShutdown ==
  /\ worker.at = "head"
  /\ worker' = [worker EXCEPT !.at = IF shared.shutdown THEN "ended" ELSE "recv"]
  /\ UNCHANGED <<ui, commands, shared, events, output>>

\* worker_loop, one command.  (A queue whose sender is gone would end it too, but
\* there is a Shutdown in it then, or a job after which the flag is seen.)
Receive ==
  /\ worker.at = "recv" /\ commands # <<>>
  /\ worker' = IF Head(commands).do = "Shutdown" THEN [worker EXCEPT !.at = "ended"]
               ELSE [worker EXCEPT !.at = "start", !.job = Head(commands).job, !.done = 0]
  /\ commands' = Tail(commands)
  /\ UNCHANGED <<ui, shared, events, output>>

Ending(kind) == [worker EXCEPT !.at = "send", !.event = Event(kind, Job.id)]

\* How a job can end early: a step of it fails, or check_cancel says so.
EarlyEnds == {"Failed"} \cup {kind \in {"Cancelled"} : Stopped}

\* Mutant: a document that was begun is only given up, not aborted.
Forgetting == output

\* A sink that is dropped before it is finished aborts its document.
Aborting == [output EXCEPT ![Job.id].state = IF @ = "spooling" THEN "aborted" ELSE @]

\* The backend's factory is called once, by the first job; if it fails every job
\* fails.  Otherwise execute_job up to sink.begin, which tells the device how
\* many copies to make; the file may be unreadable or shorter than the range.
Start ==
  /\ worker.at = "start"
  /\ \/ /\ worker.backend # "ready"
        /\ worker' = [Ending("Failed") EXCEPT !.backend = "missing"]
        /\ UNCHANGED output
     \/ /\ worker.backend # "missing"
        /\ \/ /\ worker' \in {[Ending(kind) EXCEPT !.backend = "ready"] : kind \in EarlyEnds}
              /\ UNCHANGED output
           \/ /\ ~Stopped
              /\ worker' = [worker EXCEPT !.at = "page", !.backend = "ready"]
              /\ output' = [output EXCEPT ![Job.id] =
                   [state |-> "spooling", pages |-> 0, deviceCopies |-> Job.copies]]
  /\ UNCHANGED <<ui, commands, shared, events>>

Total == Job.pages * Job.copies

\* execute_job, one page of one copy: check_cancel, render, write_page, progress.
PrintNextPage ==
  LET progress == [kind |-> "Progress", id |-> Job.id, percent |-> ((worker.done + 1) * 100) \div Total]
  IN  /\ worker.at = "page" /\ worker.done < Total
      /\ \/ /\ worker' \in {Ending(kind) : kind \in EarlyEnds}
            /\ output' = Aborting /\ UNCHANGED events
         \/ /\ ~Stopped
            /\ worker' = [worker EXCEPT !.done = @ + 1]
            /\ output' = [output EXCEPT ![Job.id].pages = @ + 1]
            /\ events' = IF ui.open /\ Len(events.progress) < ProgressCap
                         THEN [events EXCEPT !.progress = Append(@, progress)] ELSE events
      /\ UNCHANGED <<ui, commands, shared>>

\* execute_job after its last page: check_cancel, then finish, which prints what
\* was spooled, or fails and aborts it.
Finish ==
  /\ worker.at = "page" /\ worker.done = Total
  /\ \/ worker' \in {Ending(kind) : kind \in EarlyEnds} /\ output' = Aborting
     \/ /\ ~Stopped
        /\ worker' = Ending("Finished")
        /\ output' = [output EXCEPT ![Job.id].state = "printed"]
  /\ UNCHANGED <<ui, commands, shared, events>>

\* send_terminal_event; nobody takes events any more once the UI is gone.
Send ==
  /\ worker.at = "send"
  /\ worker' = [worker EXCEPT !.at = "head", !.event = NoEvent, !.job = NoJob, !.done = 0]
  /\ events' = IF ui.open THEN [events EXCEPT !.terminal = Append(@, worker.event)] ELSE events
  /\ UNCHANGED <<ui, commands, shared, output>>

Worker == LookAtShutdown \/ Receive \/ Start \/ PrintNextPage \/ Finish \/ Send

User ==
  \/ \E pages \in PageCounts, copies \in CopyCounts : ConfirmPrint(pages, copies)
  \/ CancelPrint \/ Exit

-----------------------------------------------------------------------------
(* Properties *)

TypeOK ==
  /\ ui.active \in 0..MaxJobs /\ ui.next \in 1..MaxJobs + 1 /\ ui.progress \in 0..100
  /\ Len(commands) <= CommandCap /\ Len(events.terminal) <= 1
  /\ Len(events.progress) <= ProgressCap /\ shared.cancelled \subseteq Ids
  /\ worker.backend \in {"untried", "ready", "missing"}
  /\ worker.at \in {"head", "recv", "start", "page", "send", "ended"}

\* The places a job can be at between submit and its last event.
StartQueued(id) == \E i \in DOMAIN commands : commands[i].do = "Start" /\ commands[i].job.id = id
InHand(id) == worker.job.id = id
EndOnItsWay(id) == \E i \in DOMAIN events.terminal : events.terminal[i].id = id

\* The job the controller holds is in exactly one of these places, no other in any.
JobIsSomewhere ==
  ui.open => \A id \in Ids :
    LET places == {p \in 1..3 : <<StartQueued(id), InHand(id), EndOnItsWay(id)>>[p]}
    IN  IF ui.active = id THEN \E p \in 1..3 : places = {p} ELSE places = {}

\* A job that could be reserved is never refused by the worker's queue.
IdleIsAccepting == ui.open /\ ui.active = 0 => commands = <<>>

\* A job that is reported as finished is printed, one that is not leaves no half
\* of a document behind in the spooler.
OutcomeIsTrue ==
  /\ \A i \in DOMAIN events.terminal :
       LET event == events.terminal[i]
       IN  event.kind = "Finished" <=> output[event.id].state = "printed"
  /\ \A id \in Ids : output[id].state = "spooling" => InHand(id)
=============================================================================
