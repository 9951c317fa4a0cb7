------------------------------- MODULE Updates -------------------------------
(***************************************************************************)
(* The update worker (apps/barepdf/src/infrastructure/update), which asks  *)
(* for the latest release, downloads its installer and starts it, and the  *)
(* controller on the UI's side that has one request at a time under way    *)
(* (application/update_controller.rs, presentation/update_ui.rs,           *)
(* callbacks/mod.rs).                                                      *)
(*                                                                         *)
(* A release is a number, 0 the installed one.  One event at most is ever  *)
(* queued (TypeOK), so the waiting for room in a queue of 16 has no part.  *)
(***************************************************************************)
EXTENDS Sequences, Integers

CONSTANTS
  MaxJobs,   \* bound: requests to the worker
  MaxStamp,  \* bound: releases
  Retries    \* CHECK_BACKOFF_SCHEDULE, its length

VARIABLES
  ui,        \* UpdateController, the consent, and the flag of the last check
  commands,  \* UpdateWorker::commands
  shared,    \* the worker's flag and those of the checks that were cancelled
  worker,    \* run_worker
  events,    \* the receiver of start_worker
  output     \* releases on the server, installers and partial files on disk

Releases == 0..MaxStamp
NoCommand == [do |-> "none", id |-> 0, release |-> 0]
Event(kind, release) == [kind |-> kind, release |-> release]
NoEvent == Event("none", 0)

\* is_busy
Busy == ui.state \in {"checking", "downloading", "installing"}

\* The build is an installed one, or one that only points to the release's page;
\* an earlier run may have left an installer.
Init ==
  /\ \E installed \in BOOLEAN :
       ui = [open |-> TRUE, state |-> "ready", release |-> 0, check |-> 0, next |-> 1,
             installed |-> installed]
  /\ commands = <<>> /\ events = <<>>
  /\ shared = [stop |-> FALSE, cancelled |-> {}]
  /\ worker = [at |-> "head", command |-> NoCommand, attempt |-> 0, event |-> NoEvent]
  /\ \E latest \in {0, 1}, left \in SUBSET {1} :
       output = [latest |-> latest, installers |-> left, partial |-> FALSE, launched |-> {}]

-----------------------------------------------------------------------------
(* The UI thread *)

\* Mutant: a check does not mind what is under way.
QueueUpdateCheckAnyway ==
  /\ ui.open /\ ui.next <= MaxJobs
  /\ ui' = [ui EXCEPT !.state = "checking", !.release = 0, !.check = ui.next, !.next = @ + 1]
  /\ commands' = Append(commands, [do |-> "Check", id |-> ui.next, release |-> 0])
  /\ UNCHANGED <<shared, worker, events, output>>

\* queue_update_check, at the start and from the settings: the check gets a
\* cancellation flag of its own, which takes the place of the last one's.
QueueUpdateCheck ==
  /\ ui.open /\ ~Busy /\ ui.next <= MaxJobs
  /\ ui' = [ui EXCEPT !.state = "checking", !.release = 0, !.check = ui.next, !.next = @ + 1]
  /\ commands' = Append(commands, [do |-> "Check", id |-> ui.next, release |-> 0])
  /\ UNCHANGED <<shared, worker, events, output>>

\* Turning the checks off cancels the last one, if it is still under way.
ChangeUpdateChecks ==
  /\ ui.open /\ ui.check \notin shared.cancelled \cup {0}
  /\ shared' = [shared EXCEPT !.cancelled = @ \cup {ui.check}]
  /\ UNCHANGED <<ui, commands, worker, events, output>>

\* on_request_update_action
Install ==
  /\ ui.open /\ ui.state = "verified" /\ ui.next <= MaxJobs
  /\ ui' = [ui EXCEPT !.state = "installing", !.next = @ + 1]
  /\ commands' = Append(commands, [do |-> "Install", id |-> ui.next, release |-> ui.release])
  /\ UNCHANGED <<shared, worker, events, output>>

Download ==
  /\ ui.open /\ ui.state = "available" /\ ui.installed /\ ui.next <= MaxJobs
  /\ ui' = [ui EXCEPT !.state = "downloading", !.next = @ + 1]
  /\ commands' = Append(commands, [do |-> "Download", id |-> ui.next, release |-> ui.release])
  /\ UNCHANGED <<shared, worker, events, output>>

\* The release's page cannot be shown.
ReleasePageFails ==
  /\ ui.open /\ ui.state = "available" /\ ~ui.installed
  /\ ui' = [ui EXCEPT !.state = "error", !.release = 0]
  /\ UNCHANGED <<commands, shared, worker, events, output>>

\* handle_update_event, from the event pump: mark_current, mark_available,
\* mark_downloaded, mark_failed or the end of the application.
HandleUpdateEvent ==
  /\ ui.open /\ events # <<>>
  /\ LET event == Head(events)
     IN  ui' = CASE event.kind = "UpToDate" -> [ui EXCEPT !.state = "current", !.release = 0]
                 [] event.kind = "Available" ->
                      [ui EXCEPT !.state = "available", !.release = event.release]
                 [] event.kind = "Downloaded" ->
                      [ui EXCEPT !.state = "verified", !.release = event.release]
                 [] event.kind = "InstallerStarted" -> [ui EXCEPT !.open = FALSE]
                 [] event.kind = "Error" -> [ui EXCEPT !.state = "error", !.release = 0]
  /\ events' = Tail(events)
  /\ IF ui'.open THEN UNCHANGED <<shared, commands>>
     ELSE /\ shared' = [stop |-> TRUE, cancelled |-> shared.cancelled \cup {ui.check}]
          /\ commands' = Append(commands, [NoCommand EXCEPT !.do = "Shutdown"])
  /\ UNCHANGED <<worker, output>>

\* UpdateWorker::shutdown, and drop, which joins the thread however long it takes.
Exit ==
  /\ ui.open /\ ui' = [ui EXCEPT !.open = FALSE]
  /\ shared' = [stop |-> TRUE, cancelled |-> shared.cancelled \cup {ui.check}]
  /\ commands' = Append(commands, [NoCommand EXCEPT !.do = "Shutdown"])
  /\ UNCHANGED <<worker, events, output>>

-----------------------------------------------------------------------------
(* The worker *)

Answer(kind, release) ==
  worker' = [worker EXCEPT !.at = "send", !.event = Event(kind, release)]
Failed == Answer("Error", 0)
Goes(at) == worker' = [worker EXCEPT !.at = at]

\* run_worker
Receive ==
  /\ worker.at = "head" /\ commands # <<>> /\ commands' = Tail(commands)
  /\ LET command == Head(commands)
     IN  worker' = IF shared.stop \/ command.do = "Shutdown" THEN [worker EXCEPT !.at = "ended"]
                   ELSE [worker EXCEPT !.at = command.do, !.command = command, !.attempt = 0]
  /\ UNCHANGED <<ui, shared, events, output>>

\* The flags of the worker and of its check.
Flagged == shared.stop \/ worker.command.id \in shared.cancelled

\* check_with_retry: the flags are looked at before every attempt ...
Check ==
  /\ worker.at = "Check"
  /\ IF Flagged THEN Failed ELSE Goes("ask")
  /\ UNCHANGED <<ui, commands, shared, events, output>>

\* ... check_for_update asks for the signed manifest of the latest release ...
Asked ==
  /\ worker.at = "ask"
  /\ IF output.latest = 0 THEN Answer("UpToDate", 0) ELSE Answer("Available", output.latest)
  /\ UNCHANGED <<ui, commands, shared, events, output>>

\* ... and a failed attempt is repeated if it was the network's fault, unless the
\* check is no longer wanted.
AskFails(network) ==
  /\ worker.at = "ask"
  /\ IF network /\ ~Flagged /\ worker.attempt < Retries
     THEN worker' = [worker EXCEPT !.at = "backoff", !.attempt = @ + 1]
     ELSE Failed
  /\ UNCHANGED <<ui, commands, shared, events, output>>

\* sleep_with_cancellation
Backoff ==
  /\ worker.at = "backoff"
  /\ IF Flagged THEN Failed ELSE Goes("Check")
  /\ UNCHANGED <<ui, commands, shared, events, output>>

\* download_update: the file grows under a name of its own; whatever fails, or
\* stops it, takes it away again.
StartDownload ==
  /\ worker.at = "Download"
  /\ \/ output' = [output EXCEPT !.partial = TRUE] /\ Goes("download")
     \/ UNCHANGED output /\ Failed
  /\ UNCHANGED <<ui, commands, shared, events>>

DownloadFails ==
  /\ worker.at \in {"download", "verified", "rename"}
  /\ output' = [output EXCEPT !.partial = FALSE] /\ Failed
  /\ UNCHANGED <<ui, commands, shared, events>>

\* download_to_partial and verify_download of what was written
Downloaded ==
  /\ worker.at = "download" /\ ~shared.stop
  /\ Goes("verified") /\ UNCHANGED <<ui, commands, shared, events, output>>

\* An older file of that name makes room.
RemoveOld ==
  /\ worker.at = "verified" /\ ~shared.stop
  /\ output' = [output EXCEPT !.installers = @ \ {worker.command.release}] /\ Goes("rename")
  /\ UNCHANGED <<ui, commands, shared, events>>

\* The verified file takes the final name, and is verified once more.
Rename ==
  /\ worker.at = "rename"
  /\ output' = [output EXCEPT !.partial = FALSE,
                              !.installers = @ \cup {worker.command.release}]
  /\ Answer("Downloaded", worker.command.release) \/ Failed
  /\ UNCHANGED <<ui, commands, shared, events>>

\* Mutant: what was verified when it was downloaded is started.
LaunchUnverified ==
  /\ worker.at = "Install"
  /\ \/ /\ output' = [output EXCEPT !.launched =
                        @ \cup {[release |-> worker.command.release,
                                 whole |-> worker.command.release \in output.installers]}]
        /\ Answer("InstallerStarted", worker.command.release)
     \/ UNCHANGED output /\ Failed
  /\ UNCHANGED <<ui, commands, shared, events>>

\* verify_download again, and launch_installer
Launch ==
  /\ worker.at = "Install"
  /\ \/ /\ worker.command.release \in output.installers /\ ~shared.stop
        /\ output' = [output EXCEPT !.launched =
                        @ \cup {[release |-> worker.command.release,
                                 whole |-> worker.command.release \in output.installers]}]
        /\ Answer("InstallerStarted", worker.command.release)
     \/ UNCHANGED output /\ Failed
  /\ UNCHANGED <<ui, commands, shared, events>>

\* send_event_with_backpressure
Send ==
  /\ worker.at = "send"
  /\ IF shared.stop THEN Goes("ended") /\ UNCHANGED events
     ELSE Goes("head") /\ events' = Append(events, worker.event)
  /\ UNCHANGED <<ui, commands, shared, output>>

-----------------------------------------------------------------------------
(* Others *)

Release ==
  /\ output.latest < MaxStamp /\ output' = [output EXCEPT !.latest = @ + 1]
  /\ UNCHANGED <<ui, commands, shared, worker, events>>

\* An installer is taken from the cache directory while nobody works on it.
CleanUp ==
  /\ worker.at = "head" /\ output.installers # {}
  /\ output' = [output EXCEPT !.installers = {}]
  /\ UNCHANGED <<ui, commands, shared, worker, events>>

User ==
  \/ QueueUpdateCheck \/ ChangeUpdateChecks \/ Install \/ Download \/ ReleasePageFails
  \/ Exit \/ Release \/ CleanUp

Worker ==
  \/ Receive \/ Check \/ Asked \/ (\E network \in BOOLEAN : AskFails(network)) \/ Backoff
  \/ StartDownload \/ DownloadFails \/ Downloaded \/ RemoveOld \/ Rename \/ Launch \/ Send

-----------------------------------------------------------------------------
(* What is promised *)

TypeOK ==
  /\ ui.release \in Releases /\ ui.check \in 0..MaxJobs
  /\ ui.state \in {"available", "downloading", "verified", "installing"} <=> ui.release # 0
  /\ Len(commands) <= 2 /\ Len(events) <= 1

\* While the application runs nothing but requests is in the queue.
UnderWay == Len(commands) + Len(events) + (IF worker.at \in {"head", "ended"} THEN 0 ELSE 1)

\* While the controller is busy there is exactly one request, and else none: an
\* answer is taken in whatever state the controller is, and must be to what it
\* asked last.
JobIsSomewhere ==
  ui.open => /\ UnderWay = IF Busy THEN 1 ELSE 0
             /\ \A i \in 1..Len(events) :
                  events[i].kind \in
                    {"Error"} \cup (CASE ui.state = "checking" -> {"UpToDate", "Available"}
                                      [] ui.state = "downloading" -> {"Downloaded"}
                                      [] OTHER -> {"InstallerStarted"})

\* Only a whole installer is started, and the one that was asked for; and no
\* partial file outlives its download, also when the application ends under it.
OutcomeIsTrue ==
  /\ \A l \in output.launched : l.whole /\ l.release = ui.release
  /\ output.partial => worker.at \in {"download", "verified", "rename"}
  /\ \A i \in 1..Len(events) :
       events[i].kind = "Available" => events[i].release <= output.latest

\* The flag that turning the checks off sets is that of the check under way.
CancelReachesCheck ==
  /\ \A i \in 1..Len(commands) : commands[i].do = "Check" => commands[i].id = ui.check
  /\ worker.at \in {"Check", "ask", "backoff"} => worker.command.id = ui.check

Active(id) == Busy /\ ui.next = id + 1
=============================================================================
