----------------------------- MODULE Preferences -----------------------------
(***************************************************************************)
(* The preferences on their way to disk: the thread that writes the newest *)
(* of what is queued (run_prefs_worker and persist_preferences,            *)
(* apps/barepdf/src/presentation/ui.rs), the atomic write and the loader   *)
(* that replaces a file it cannot read (infrastructure/                    *)
(* preferences_store.rs), over several runs of the application, which may  *)
(* be killed.                                                              *)
(*                                                                         *)
(* What the preferences say is a number that grows with every change, 0    *)
(* the defaults.  There is one file, as in the application: the branch for *)
(* a second path is never taken.                                           *)
(***************************************************************************)
EXTENDS Sequences, Integers

CONSTANTS
  MaxJobs,  \* bound: runs of the application
  MaxStamp  \* bound: changes

VARIABLES
  ui,        \* AppState::preferences and what the UI thread waits for
  commands,  \* the channel of get_prefs_sender
  shared,    \* whether the UI thread has given up on the worker in this run
  worker,    \* run_prefs_worker
  events,    \* the replies to what the UI thread waits for
  output     \* the file, and whether the last write of the worker failed

\* The file is absent, or there with what it says, or damaged.
Absent == 0
Damaged == MaxStamp + 1

Idle == [at |-> "idle", prefs |-> 0, done |-> {}]

Init ==
  /\ ui = [open |-> FALSE, stage |-> "gone", prefs |-> 0, next |-> 1, runs |-> 0,
           waits |-> 0, told |-> FALSE]
  /\ commands = <<>> /\ events = <<>> /\ shared = [late |-> FALSE]
  /\ worker = Idle
  /\ output = [file |-> Absent, failed |-> FALSE]

-----------------------------------------------------------------------------
(* The application starts and ends *)

Ready(prefs) ==
  /\ shared' = [late |-> FALSE] /\ worker' = Idle /\ commands' = <<>> /\ events' = <<>>
  /\ ui' = [ui EXCEPT !.open = TRUE, !.stage = "running", !.prefs = prefs, !.runs = @ + 1,
                      !.waits = 0, !.told = FALSE]

\* load: a file that cannot be read or understood is put aside.
Load ==
  /\ ui.stage = "gone" /\ ui.runs < MaxJobs
  /\ \/ output.file # Damaged /\ Ready(output.file) /\ output' = [output EXCEPT !.failed = FALSE]
     \/ /\ output.file # Absent /\ Ready(0)
        /\ output' = [file |-> Absent, failed |-> FALSE]

\* The process is killed.
Kill ==
  /\ ui.open /\ ui' = [ui EXCEPT !.open = FALSE, !.stage = "gone"] /\ events' = <<>>
  /\ UNCHANGED <<commands, shared, worker, output>>

\* Another program spoils the file between two runs.
Damage ==
  /\ ui.stage = "gone" /\ output.file \notin {Absent, Damaged}
  /\ output' = [output EXCEPT !.file = Damaged]
  /\ UNCHANGED <<ui, commands, shared, worker, events>>

-----------------------------------------------------------------------------
(* persist_preferences *)

\* Something changes, and is saved in the background.
Change ==
  /\ ui.stage = "running" /\ ui.next < MaxStamp
  /\ ui' = [ui EXCEPT !.prefs = ui.next, !.next = @ + 1]
  /\ commands' = Append(commands, [prefs |-> ui.next, done |-> 0])
  /\ UNCHANGED <<shared, worker, events, output>>

\* The answer to the consent at the start, or the window's size at the end, is
\* saved while the UI thread waits.
ChangeAndWait(stage) ==
  /\ ui.stage = "running" /\ ui.next <= MaxStamp /\ ui.waits < 2
  /\ ui' = [ui EXCEPT !.prefs = ui.next, !.next = @ + 1, !.stage = stage, !.waits = @ + 1]
  /\ commands' = Append(commands, [prefs |-> ui.next, done |-> ui.waits + 1])
  /\ UNCHANGED <<shared, worker, events, output>>

Consent == ui.waits = 0 /\ ChangeAndWait("consenting")
Leave == ChangeAndWait("leaving")

Waiting == ui.stage \in {"consenting", "leaving"}
After == IF ui.stage = "leaving" THEN "gone" ELSE "running"

Answered ==
  /\ Waiting /\ events # <<>>
  /\ ui' = [ui EXCEPT !.stage = After, !.open = After # "gone", !.told = Head(events)]
  /\ events' = <<>> /\ UNCHANGED <<commands, shared, worker, output>>

\* After five seconds the UI thread writes the file itself; what the worker has
\* in hand may still be written after it.
SaveItself ==
  /\ Waiting /\ events = <<>>
  /\ \/ output' = [output EXCEPT !.file = ui.prefs] \/ UNCHANGED output
  /\ shared' = [late |-> TRUE]
  /\ ui' = [ui EXCEPT !.stage = After, !.open = After # "gone", !.told = FALSE]
  /\ UNCHANGED <<commands, worker, events>>

-----------------------------------------------------------------------------
(* run_prefs_worker *)

Receive ==
  /\ ui.open /\ worker.at = "idle" /\ commands # <<>> /\ commands' = Tail(commands)
  /\ worker' = [at |-> "gather", prefs |-> Head(commands).prefs, done |-> {Head(commands).done} \ {0}]
  /\ UNCHANGED <<ui, shared, events, output>>

\* Mutant: what was taken first is written.
GatherKeepingFirst ==
  /\ ui.open /\ worker.at = "gather" /\ commands # <<>> /\ commands' = Tail(commands)
  /\ worker' = [worker EXCEPT !.done = @ \cup ({Head(commands).done} \ {0})]
  /\ UNCHANGED <<ui, shared, events, output>>

\* What is queued behind it takes its place, whoever waits for it.
Gather ==
  /\ ui.open /\ worker.at = "gather" /\ commands # <<>> /\ commands' = Tail(commands)
  /\ worker' = [worker EXCEPT !.prefs = Head(commands).prefs,
                              !.done = @ \cup ({Head(commands).done} \ {0})]
  /\ UNCHANGED <<ui, shared, events, output>>

Gathered ==
  /\ ui.open /\ worker.at = "gather" /\ commands = <<>>
  /\ worker' = [worker EXCEPT !.at = "write"]
  /\ UNCHANGED <<ui, commands, shared, events, output>>

\* Mutant: an older file is not given up before the new one is written.
SaveInPlace ==
  /\ ui.open /\ worker.at = "write"
  /\ output' = [file |-> Absent, failed |-> FALSE]
  /\ worker' = [worker EXCEPT !.at = "reply"]
  /\ UNCHANGED <<ui, commands, shared, events>>

\* try_save_to_file: a temporary file takes the place of the old one, or nothing
\* changes.
Save ==
  /\ ui.open /\ worker.at = "write"
  /\ \/ output' = [file |-> worker.prefs, failed |-> FALSE]
     \/ output' = [output EXCEPT !.failed = TRUE]
  /\ worker' = [worker EXCEPT !.at = "reply"]
  /\ UNCHANGED <<ui, commands, shared, events>>

\* Who still waits is told how it went.
Reply ==
  /\ ui.open /\ worker.at = "reply" /\ worker' = Idle
  /\ events' = IF Waiting /\ ui.waits \in worker.done THEN <<~output.failed>> ELSE events
  /\ UNCHANGED <<ui, commands, shared, output>>

User == Load \/ Kill \/ Damage \/ Change \/ Consent \/ Leave
Pump == Answered \/ SaveItself
Worker == Receive \/ Gather \/ Gathered \/ Save \/ Reply

-----------------------------------------------------------------------------
(* What is promised *)

TypeOK ==
  /\ output.file \in 0..Damaged /\ ui.prefs \in 0..MaxStamp
  /\ Len(events) <= 1 /\ (events # <<>> => Waiting)
  /\ ui.open <=> ui.stage # "gone"

\* Once the worker has nothing left to do the file says what the preferences are,
\* however the requests were gathered, unless it could not be written or the UI
\* thread wrote it in between.
NewestIsSaved ==
  ui.open /\ worker.at = "idle" /\ commands = <<>> /\ ~output.failed /\ ~shared.late
    => output.file = ui.prefs

\* Whoever was told that the preferences are saved finds them in the file.
OutcomeIsTrue == events = <<TRUE>> => output.file = ui.prefs

\* While the application runs, the file never goes back to older preferences,
\* unless the UI thread gave up waiting.
NeverBack == ~ui.open \/ ~ui'.open \/ shared.late \/ output'.file >= output.file
=============================================================================
