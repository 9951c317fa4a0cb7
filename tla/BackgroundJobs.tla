--------------------------- MODULE BackgroundJobs ---------------------------
(***************************************************************************)
(* The five services that work for the UI on threads of their own: file    *)
(* tools, printing, updates, saving the preferences and watching the file. *)
(* They share no state, so a behaviour is that of one of them, and what    *)
(* all promise (a request is somewhere, it ends, what the UI is told is    *)
(* so, the thread ends with the application) can be said once.             *)
(***************************************************************************)
EXTENDS Integers, Sequences

CONSTANTS
  MaxJobs, MaxStamp, MaxWatchers, CommandCap, ProgressCap, Retries,
  Operations, PageCounts, CopyCounts

ASSUME JobsAssumption ==
  /\ MaxJobs \in Nat \ {0} /\ MaxStamp \in Nat \ {0}
  /\ MaxWatchers \in 1..MaxJobs /\ Retries \in Nat
  /\ CommandCap \in Nat \ {0} /\ ProgressCap \in Nat \ {0}
  /\ PageCounts \subseteq Nat \ {0} /\ CopyCounts \subseteq Nat \ {0}

VARIABLES
  owner,  \* which of the five this is
  ui, commands, shared, worker, events, output

vars == <<owner, ui, commands, shared, worker, events, output>>

Tools == INSTANCE ToolJobs
Prints == INSTANCE PrintJobs
Update == INSTANCE Updates
Prefs == INSTANCE Preferences
Watch == INSTANCE Watcher

Init ==
  \/ owner = "tools" /\ Tools!Init
  \/ owner = "print" /\ Prints!Init
  \/ owner = "updates" /\ Update!Init
  \/ owner = "preferences" /\ Prefs!Init
  \/ owner = "watcher" /\ Watch!Init

Worker ==
  /\ UNCHANGED owner
  /\ \/ owner = "tools" /\ Tools!Worker
     \/ owner = "print" /\ Prints!Worker
     \/ owner = "updates" /\ Update!Worker
     \/ owner = "preferences" /\ Prefs!Worker
     \/ owner = "watcher" /\ Watch!Worker

\* The thread of one watcher; there may be two.
WatcherThread(w) == UNCHANGED owner /\ owner = "watcher" /\ Watch!Thread(w)

Pump ==
  /\ UNCHANGED owner
  /\ \/ owner = "tools" /\ Tools!HandleToolEvent
     \/ owner = "print" /\ Prints!HandlePrintEvent
     \/ owner = "updates" /\ Update!HandleUpdateEvent
     \/ owner = "preferences" /\ Prefs!Pump
     \/ owner = "watcher" /\ Watch!Pump

User ==
  /\ UNCHANGED owner
  /\ \/ owner = "tools" /\ Tools!User
     \/ owner = "print" /\ Prints!User
     \/ owner = "updates" /\ Update!User
     \/ owner = "preferences" /\ Prefs!User
     \/ owner = "watcher" /\ Watch!User

Next == Worker \/ Pump \/ User

Spec == Init /\ [][Next]_vars

\* A job's work comes to an end, the event pump's timer keeps firing, and the
\* threads of two watchers are scheduled each.
FairSpec ==
  /\ Spec /\ WF_vars(Worker) /\ WF_vars(Pump)
  /\ \A w \in 1..MaxWatchers : WF_vars(WatcherThread(w))

-----------------------------------------------------------------------------
(* Properties *)

\* The commands and events that are queued never need more room than there is.
TypeOK ==
  CASE owner = "tools" -> Tools!TypeOK
    [] owner = "print" -> Prints!TypeOK
    [] owner = "updates" -> Update!TypeOK
    [] owner = "preferences" -> Prefs!TypeOK
    [] owner = "watcher" -> Watch!TypeOK

\* What the UI waits for is in exactly one place (the command queue, the worker's
\* hands, waiting for a password, its last event queued) and nothing else is in
\* any: no job is lost, which would refuse all later ones, and none is answered
\* twice or after the next one has begun.  No thread of a watcher is left behind.
JobIsSomewhere ==
  /\ TypeOK
  /\ CASE owner = "tools" -> Tools!JobIsSomewhere
       [] owner = "print" -> Prints!JobIsSomewhere
       [] owner = "updates" -> Update!JobIsSomewhere
       [] owner = "watcher" -> Watch!JobIsSomewhere
       [] OTHER -> TRUE

\* Once the UI has taken a job's last event, the worker does not refuse the next
\* one as busy, however the two threads run (a tool's Cancel that comes late and
\* fills the queue apart).
IdleIsAccepting ==
  /\ owner = "tools" => Tools!IdleIsAccepting
  /\ owner = "print" => Prints!IdleIsAccepting

\* What the UI is told of a job is so on disk or in the spooler, and a document
\* that is not printed is aborted; only a verified installer is started, and the
\* one that was asked for; preferences that are reported as saved are; what the
\* watcher reports comes to be shown.
OutcomeIsTrue ==
  CASE owner = "tools" -> Tools!OutcomeIsTrue
    [] owner = "print" -> Prints!OutcomeIsTrue
    [] owner = "updates" -> Update!OutcomeIsTrue
    [] owner = "preferences" -> Prefs!OutcomeIsTrue
    [] owner = "watcher" -> Watch!OutcomeIsTrue

\* A password reaches the request and the file it was asked for, and turning the
\* update checks off reaches the check that is under way.
InputReachesItsJob ==
  /\ owner = "tools" => Tools!PasswordIsAwaited
  /\ owner = "updates" => Update!CancelReachesCheck

\* What is newest is what counts, once the thread rests: the preferences on disk
\* are the last ones, and the watcher has seen the file as it is, however the
\* changes came while it was at work.
NewestIsTaken ==
  /\ owner = "preferences" => Prefs!NewestIsSaved
  /\ owner = "watcher" => Watch!ChangeIsSeen

\* The preferences on disk never become older ones while the application runs.
PreferencesNeverGoBack == [][owner = "preferences" => Prefs!NeverBack]_vars

\* The progress that is shown of a job never goes back, also not by what is
\* left in the queue of the job before it.
ProgressNeverFalls ==
  [][owner = "print" /\ ui.active # 0 /\ ui'.active = ui.active
       => ui'.progress >= ui.progress]_vars

\* What the UI waits for
Active(id) ==
  CASE owner = "tools" -> ui.job.id = id
    [] owner = "print" -> ui.active = id
    [] owner = "updates" -> Update!Active(id)
    [] owner = "preferences" -> Prefs!Waiting /\ ui.waits = id
    [] owner = "watcher" -> ui.old = id

\* Cancelling ends a job, though the command to do so may be lost.
CancelledJobEnds ==
  \A id \in 1..MaxJobs :
    (owner \in {"tools", "print", "updates"} /\ Active(id) /\ id \in shared.cancelled)
      ~> (~ui.open \/ ~Active(id))

\* Every job ends, or asks for a password, or (having become outdated before it
\* asked) waits for one until it is cancelled; the UI thread does not wait for
\* ever for its preferences to be saved or for a watcher to be gone.
JobEnds ==
  \A id \in 1..MaxJobs :
    Active(id) ~> (\/ ~Active(id)
                   \/ (owner # "watcher" /\ ~ui.open)
                   \/ owner = "tools" /\ Tools!Waiting(id))

\* Leaving the application ends the worker from wherever it is, also when its
\* queue was full and nobody takes events (what saves the preferences ends with
\* the process).
ExitEndsWorker ==
  ~ui.open ~>
    CASE owner = "preferences" -> TRUE
      [] owner = "watcher" -> \A w \in 1..MaxWatchers : worker[w].at \in {"none", "ended"}
      [] OTHER -> worker.at = "ended"

\* A finished print has each page as often as was asked for: the test at
\* apps/barepdf/src/infrastructure/print_worker.rs:712 has two copies of two pages
\* spool the pages 1, 2, 1, 2, which a device that makes one copy of what it is
\* sent turns into the sheets that were asked for.
SheetsAreAsAsked ==
  owner = "print" /\ worker.at = "send" /\ worker.event.kind = "Finished" =>
    output[worker.job.id].pages * output[worker.job.id].deviceCopies
      = worker.job.pages * worker.job.copies
=============================================================================
