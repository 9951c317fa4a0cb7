------------------------------- MODULE Watcher -------------------------------
(***************************************************************************)
(* The file watcher (crates/barepdf-platform-windows/src/watcher.rs): a    *)
(* thread per watched file that waits for notifications about its          *)
(* directory, lets the writes calm down and reports a change; and the UI,  *)
(* which starts and stops watchers and reloads what they report            *)
(* (start_file_watcher in apps/barepdf/src/presentation/state.rs, the      *)
(* event pump).                                                            *)
(*                                                                         *)
(* There is one file; what it contains is a number that is never used      *)
(* again.  Notifications also come for other files of its directory.       *)
(***************************************************************************)
EXTENDS Sequences, Integers

CONSTANTS
  MaxWatchers,  \* bound: watchers that are started
  MaxStamp,     \* bound: contents of the file
  Retries       \* attempts to open the file before it is reported

VARIABLES
  ui,        \* the document's tab, AppState::file_watcher and where the UI thread is
  commands,  \* not used: a watcher is told to stop by an event object
  shared,    \* the watchers whose stop event, and those whose directory handle, is signalled
  worker,    \* the thread of every watcher
  events,    \* whether there is something in AppState::file_change_receiver, which
             \* the pump empties in one go
  output     \* the file, and whether its writer keeps others out

Watchers == 1..MaxWatchers
Absent == 0
NoThread == [at |-> "none", first |-> Absent, seen |-> Absent, look |-> Absent, left |-> 0]

Init ==
  /\ ui = [open |-> TRUE, tab |-> "empty", shown |-> 0, loaded |-> 0, failed |-> FALSE,
           at |-> "idle", current |-> 0, old |-> 0, next |-> 1]
  /\ commands = <<>> /\ events = FALSE
  /\ shared = [stopped |-> {}, changed |-> {}]
  /\ worker = [w \in Watchers |-> NoThread]
  /\ output = [file |-> 1, next |-> 2, locked |-> FALSE]

-----------------------------------------------------------------------------
(* The UI thread and the document's tab *)

Idle == ui.open /\ ui.at = "idle"

\* begin_open, of an empty tab or of a document that changed on disk
BeginOpen ==
  /\ Idle /\ ui.tab = "empty" /\ ui.next <= MaxWatchers
  /\ ui' = [ui EXCEPT !.tab = "opening"]
  /\ UNCHANGED <<commands, shared, worker, events, output>>

\* The render worker opens the file ...
Loaded ==
  /\ ui.tab = "opening" /\ output.file # Absent /\ ~output.locked
  /\ ui' = [ui EXCEPT !.tab = "opened", !.loaded = output.file]
  /\ UNCHANGED <<commands, shared, worker, events, output>>

\* ... or cannot, which leaves a document that was there as it was.
LoadFails ==
  /\ Idle /\ ui.tab = "opening"
  /\ ui' = [ui EXCEPT !.tab = IF ui.shown = 0 THEN "empty" ELSE "ready", !.failed = TRUE]
  /\ UNCHANGED <<commands, shared, worker, events, output>>

\* start_file_watcher does nothing for a file that is not there; where the system
\* refuses, the watcher of before stays.
StartsWatching(to) ==
  \/ output.file # Absent /\ ui.next <= MaxWatchers /\ ui' = [to EXCEPT !.at = "arm"]
  \/ output.file = Absent /\ ui' = to
  \/ output.file # Absent /\ ui' = [to EXCEPT !.failed = TRUE]

\* handle_worker_event, the document is ready
Opened ==
  /\ Idle /\ ui.tab = "opened"
  /\ StartsWatching([ui EXCEPT !.tab = "ready", !.shown = ui.loaded, !.loaded = 0,
                            !.failed = FALSE])
  /\ UNCHANGED <<commands, shared, worker, events, output>>

\* The user comes back to the tab from another one, whose watcher ran meanwhile.
Activate ==
  /\ Idle /\ ui.tab = "ready" /\ StartsWatching(ui)
  /\ UNCHANGED <<commands, shared, worker, events, output>>

\* with_callback: the directory is watched, then the file is looked at and the
\* thread started; only then the watcher of before is dropped.
Arm ==
  /\ ui.at = "arm" /\ ui' = [ui EXCEPT !.at = "spawn"]
  /\ worker' = [worker EXCEPT ![ui.next].at = "armed"]
  /\ UNCHANGED <<commands, shared, events, output>>

Stop(ending) ==
  /\ ui' = [ending EXCEPT !.at = IF ui.current = 0 THEN "idle" ELSE "join", !.old = ui.current]
  /\ shared' = [shared EXCEPT !.stopped = @ \cup ({ui.current} \ {0})]

Spawn ==
  /\ ui.at = "spawn"
  /\ worker' = [worker EXCEPT ![ui.next] =
       [@ EXCEPT !.at = "wait", !.first = output.file, !.seen = output.file]]
  /\ Stop([ui EXCEPT !.current = ui.next, !.next = @ + 1])
  /\ UNCHANGED <<commands, events, output>>

\* The last tab is closed, or the application left; both stop the watcher.
Close ==
  /\ Idle /\ ui.tab = "ready"
  /\ Stop([ui EXCEPT !.tab = "empty", !.shown = 0, !.failed = FALSE, !.current = 0])
  /\ UNCHANGED <<commands, worker, events, output>>

Exit ==
  /\ Idle /\ Stop([ui EXCEPT !.open = FALSE, !.current = 0])
  /\ UNCHANGED <<commands, worker, events, output>>

Joined ==
  /\ ui.at = "join" /\ worker[ui.old].at = "ended"
  /\ ui' = [ui EXCEPT !.at = "idle", !.old = 0]
  /\ UNCHANGED <<commands, shared, worker, events, output>>

\* The event pump: a change of a document that is not ready is dropped.
HandleFileChange ==
  /\ Idle /\ events /\ events' = FALSE
  /\ ui' = IF ui.tab = "ready" THEN [ui EXCEPT !.tab = "opening"] ELSE ui
  /\ UNCHANGED <<commands, shared, worker, output>>

-----------------------------------------------------------------------------
(* run_watcher_loop *)

Goes(w, at) == worker' = [worker EXCEPT ![w].at = at]

\* FindNextChangeNotification.  (What came since the handle was signalled would
\* signal it again, as if another file had changed.)
Rearm(w) == shared' = [shared EXCEPT !.changed = @ \ {w}]

\* WaitForMultipleObjects prefers the stop event.
Ends(w) ==
  /\ worker[w].at \in {"wait", "calm"} /\ w \in shared.stopped
  /\ worker' = [worker EXCEPT ![w] = [NoThread EXCEPT !.at = "ended"]]
  /\ shared' = [shared EXCEPT !.changed = @ \ {w}]
  /\ UNCHANGED <<ui, commands, events, output>>

Wakes(w) ==
  /\ worker[w].at = "wait" /\ w \notin shared.stopped /\ w \in shared.changed
  /\ Rearm(w) /\ Goes(w, "calm") /\ UNCHANGED <<ui, commands, events, output>>

\* Another change while it calms down
Absorbs(w) ==
  /\ worker[w].at = "calm" /\ w \notin shared.stopped /\ w \in shared.changed
  /\ Rearm(w) /\ UNCHANGED <<ui, commands, worker, events, output>>

\* It has been calm for the debounce time, or not for 2.5 seconds.
Looks(w) ==
  /\ worker[w].at = "calm"
  /\ worker' = [worker EXCEPT ![w] = [@ EXCEPT !.at = "open", !.look = output.file, !.left = Retries]]
  /\ UNCHANGED <<ui, commands, shared, events, output>>

\* The file is opened to see whether its writer is done, and looked at again.
Waits(w) ==
  /\ worker[w].at = "open" /\ worker[w].look # Absent /\ worker[w].left > 0
  /\ output.locked \/ output.file = Absent
  /\ worker' = [worker EXCEPT ![w] =
       [@ EXCEPT !.look = output.file, !.left = worker[w].left - 1]]
  /\ UNCHANGED <<ui, commands, shared, events, output>>

\* Mutant: a file that cannot be opened is not reported now.
ReportsIfReadable(w) ==
  LET thread == worker[w]
      changed == thread.look \notin {Absent, thread.seen} /\ thread.left > 0
  IN  /\ thread.at = "open"
      /\ thread.look = Absent \/ thread.left = 0 \/ ~(output.locked \/ output.file = Absent)
      /\ worker' = [worker EXCEPT ![w] = [thread EXCEPT
           !.at = "wait", !.seen = IF changed THEN thread.look ELSE @, !.look = Absent, !.left = 0]]
      /\ events' = (events \/ changed)
      /\ UNCHANGED <<ui, commands, shared, output>>

\* has_changed_from and the callback; a file that is gone is no change.
Reports(w) ==
  LET thread == worker[w]
      changed == thread.look \notin {Absent, thread.seen}
  IN  /\ thread.at = "open"
      /\ thread.look = Absent \/ thread.left = 0 \/ ~(output.locked \/ output.file = Absent)
      /\ worker' = [worker EXCEPT ![w] = [thread EXCEPT
           !.at = "wait", !.seen = IF changed THEN thread.look ELSE @, !.look = Absent, !.left = 0]]
      /\ events' = (events \/ changed)
      /\ UNCHANGED <<ui, commands, shared, output>>

Thread(w) == Ends(w) \/ Wakes(w) \/ Absorbs(w) \/ Looks(w) \/ Waits(w) \/ Reports(w)

-----------------------------------------------------------------------------
(* Other programs *)

Notified ==
  [shared EXCEPT !.changed = {w \in Watchers : worker[w].at \notin {"none", "ended"}}]

\* The file is written, in place or by being replaced, and is locked or not.
Write(locked) ==
  /\ output.next <= MaxStamp
  /\ output' = [file |-> output.next, next |-> output.next + 1, locked |-> locked]
  /\ shared' = Notified /\ UNCHANGED <<ui, commands, worker, events>>

Remove ==
  /\ output.file # Absent /\ output' = [output EXCEPT !.file = Absent, !.locked = FALSE]
  /\ shared' = Notified /\ UNCHANGED <<ui, commands, worker, events>>

\* Nothing is notified when the writer lets go of the file.
Unlock ==
  /\ output.locked /\ output' = [output EXCEPT !.locked = FALSE]
  /\ UNCHANGED <<ui, commands, shared, worker, events>>

WriteOther == shared' = Notified /\ UNCHANGED <<ui, commands, worker, events, output>>

User ==
  \/ BeginOpen \/ LoadFails \/ Activate \/ Close \/ Exit
  \/ (\E locked \in BOOLEAN : Write(locked)) \/ Remove \/ Unlock \/ WriteOther

Pump == Loaded \/ Opened \/ Arm \/ Spawn \/ Joined \/ HandleFileChange
Worker == \E w \in Watchers : Thread(w)

-----------------------------------------------------------------------------
(* What is promised *)

TypeOK ==
  /\ ui.current \in 0..MaxWatchers /\ ui.old \in 0..MaxWatchers /\ ui.shown \in 0..MaxStamp
  /\ shared.stopped \cup shared.changed \subseteq Watchers /\ events \in BOOLEAN
  /\ \A w \in Watchers : worker[w].seen \in 0..MaxStamp /\ worker[w].left \in 0..Retries

\* No thread is left behind: what runs is the current watcher or the one that is
\* being joined.
JobIsSomewhere ==
  \A w \in Watchers :
    worker[w].at \in {"wait", "calm", "open"} =>
      w \in {ui.current, ui.old} /\ (w = ui.old <=> w \in shared.stopped)

Resting(w) == worker[w].at = "wait" /\ w \notin shared.changed /\ w \notin shared.stopped

\* A watcher that waits and has nothing to look at has seen the file as it is.
ChangeIsSeen == \A w \in Watchers : Resting(w) /\ output.file # Absent => worker[w].seen = output.file

\* What a watcher has seen change is shown once everything is quiet, unless it
\* could not be loaded or is gone.
OutcomeIsTrue ==
  Idle /\ ui.tab = "ready" /\ ~ui.failed /\ ~events /\ output.file # Absent
    /\ ui.current # 0 /\ Resting(ui.current)
    => ui.shown = worker[ui.current].seen \/ worker[ui.current].seen = worker[ui.current].first
=============================================================================
