------------------------ MODULE BackgroundJobsProofs ------------------------
(***************************************************************************)
(* What the five services promise, proved for every number of jobs,        *)
(* changes and watchers and every size of their queues.                    *)
(*                                                                         *)
(* A behaviour is that of one service, so each has an invariant of its own *)
(* (PreferencesAreGood ...), proved action by action, and what is said     *)
(* of all of them is put together at the end.                              *)
(***************************************************************************)
EXTENDS BackgroundJobs, SequenceTheorems, TLAPS

-----------------------------------------------------------------------------
(* Queues *)

\* Everything in a queue is something that was there or what was put in.
LEMMA AppendType ==
  ASSUME NEW S, NEW s \in Seq(S), NEW e \in S
  PROVE  /\ Append(s, e) \in Seq(S) /\ Len(Append(s, e)) = Len(s) + 1
         /\ \A i \in 1..Len(s) : Append(s, e)[i] = s[i]
         /\ Append(s, e)[Len(s) + 1] = e
  OBVIOUS

\* What is behind the head of a queue moves up by one.
LEMMA TailType ==
  ASSUME NEW S, NEW s \in Seq(S), s # <<>>
  PROVE  /\ Tail(s) \in Seq(S) /\ Len(Tail(s)) = Len(s) - 1
         /\ \A i \in 1..Len(Tail(s)) : Tail(s)[i] = s[i + 1] /\ i + 1 \in 1..Len(s)
         /\ Head(s) = s[1] /\ Head(s) \in S /\ 1 \in 1..Len(s)
  OBVIOUS

\* The head of one queue before another is that of the first, unless it is empty.
LEMMA HeadOfBoth ==
  ASSUME NEW S, NEW T, NEW s \in Seq(S), NEW t \in Seq(T), s # <<>>
  PROVE  Head(s \o t) = s[1]
<1>1. s \in Seq(S \cup T) /\ t \in Seq(S \cup T) /\ Len(s) >= 1
  OBVIOUS
<1>2. Len(s \o t) = Len(s) + Len(t) /\ s \o t \in Seq(S \cup T) /\ (s \o t)[1] = s[1]
  BY <1>1
<1>3. s \o t # <<>>
  BY <1>1, <1>2
<1>. QED  BY <1>2, <1>3

-----------------------------------------------------------------------------
(* Preferences *)

Numbers == 0..MaxStamp
Saves == [prefs : Numbers, done : 0..2]

PreferencesUi ==
  [open : BOOLEAN, stage : {"gone", "running", "consenting", "leaving"},
   prefs : Numbers, next : 1..MaxStamp + 1, runs : Nat, waits : 0..2, told : BOOLEAN]

PreferencesTypes ==
  /\ ui \in PreferencesUi
  /\ commands \in Seq(Saves)
  /\ shared \in [late : BOOLEAN]
  /\ worker \in [at : {"idle", "gather", "write", "reply"}, prefs : Numbers, done : SUBSET (1..2)]
  /\ events \in {<<>>, <<TRUE>>, <<FALSE>>}
  /\ output \in [file : 0..MaxStamp + 1, failed : BOOLEAN]

\* A number is given out once.
NumbersAreNew ==
  /\ ui.prefs < ui.next
  /\ output.file = MaxStamp + 1 \/ output.file < ui.next
  /\ ui.open <=> ui.stage # "gone"
  /\ ui.open => output.file <= ui.prefs
  /\ Prefs!Waiting => ui.waits # 0

\* What is known of the numbers' types
NumbersType ==
  /\ ui.prefs \in Int /\ ui.next \in Int /\ ui.waits \in Int /\ output.file \in Int
  /\ worker.prefs \in Int /\ Len(commands) \in Nat
  /\ \A i \in 1..Len(commands) : commands[i].prefs \in Int /\ commands[i].done \in Int
  /\ \A n \in worker.done : n \in Int

\* From the file over the worker and the queue to the UI the preferences get newer.
SavesGrow ==
  ui.open =>
    /\ \A i \in 1..Len(commands) :
         /\ commands[i].prefs <= ui.prefs /\ commands[i].done <= ui.waits
         /\ i = Len(commands) => commands[i].prefs = ui.prefs
         /\ Prefs!Waiting /\ commands[i].done = ui.waits => commands[i].prefs = ui.prefs
         /\ \A j \in 1..Len(commands) : i < j => commands[i].prefs < commands[j].prefs
         /\ worker.at # "idle" => worker.prefs < commands[i].prefs
         /\ ~shared.late => output.file <= commands[i].prefs
    /\ worker.at # "idle" =>
         /\ worker.prefs <= ui.prefs
         /\ commands = <<>> => worker.prefs = ui.prefs
         /\ ~shared.late => output.file <= worker.prefs

\* Whoever waits waits for the last ones, and what was written is in the file.
AnswersAreTrue ==
  ui.open =>
    /\ \A k \in worker.done : k <= ui.waits
    /\ Prefs!Waiting /\ ui.waits \in worker.done => worker.prefs = ui.prefs
    /\ worker.at = "idle" => worker.done = {}
    /\ worker.at = "reply" /\ ~output.failed =>
         /\ ~shared.late => output.file = worker.prefs
         /\ Prefs!Waiting /\ ui.waits \in worker.done => output.file = ui.prefs
    /\ worker.at = "idle" /\ commands = <<>> /\ ~output.failed /\ ~shared.late
         => output.file = ui.prefs
    /\ events # <<>> => Prefs!Waiting /\ worker.at = "idle" /\ commands = <<>>
    /\ events = <<TRUE>> => output.file = ui.prefs

PreferencesAreGood ==
  /\ PreferencesTypes /\ NumbersAreNew /\ SavesGrow /\ AnswersAreTrue
  /\ ~ui.open => events = <<>>

USE DEF Numbers, PreferencesUi, Prefs!Waiting, Prefs!Absent, Prefs!Damaged, Prefs!Idle

LEMMA NumbersAreInt == PreferencesTypes => NumbersType
<1>. SUFFICES ASSUME PreferencesTypes PROVE NumbersType
  OBVIOUS
<1>1. ui.prefs \in Int /\ ui.next \in Int /\ ui.waits \in Int /\ output.file \in Int
  BY JobsAssumption DEF PreferencesTypes
<1>2. worker.prefs \in Int /\ \A n \in worker.done : n \in Int
  BY JobsAssumption DEF PreferencesTypes
<1>3. ASSUME NEW i \in 1..Len(commands)
      PROVE  commands[i].prefs \in Int /\ commands[i].done \in Int
  <2>1. commands[i] \in Saves
    BY <1>3 DEF PreferencesTypes
  <2>. QED  BY <2>1, JobsAssumption DEF Saves
<1>4. Len(commands) \in Nat
  BY DEF PreferencesTypes
<1>. QED  BY <1>1, <1>2, <1>3, <1>4 DEF NumbersType

LEMMA PreferencesInit == Prefs!Init => PreferencesAreGood
  BY JobsAssumption
  DEF Prefs!Init, PreferencesAreGood, PreferencesTypes, NumbersAreNew, SavesGrow, AnswersAreTrue

LEMMA PreferencesStutter == PreferencesAreGood /\ UNCHANGED vars => PreferencesAreGood'
<1>. SUFFICES ASSUME PreferencesAreGood, UNCHANGED vars PROVE PreferencesAreGood'
  OBVIOUS
<1>1. UNCHANGED vars
  OBVIOUS
<1>2. PreferencesTypes'
  BY <1>1 DEF vars, PreferencesAreGood, PreferencesTypes
<1>3. NumbersAreNew' /\ SavesGrow' /\ AnswersAreTrue'
  BY <1>1 DEF vars, PreferencesAreGood, NumbersAreNew, SavesGrow, AnswersAreTrue
<1>4. (~ ui.open => events = <<>>)'
  BY <1>1 DEF vars, PreferencesAreGood
<1>. QED  BY <1>2, <1>3, <1>4 DEF PreferencesAreGood

\* The application starts with what the file says, or with the defaults; what is
\* killed leaves the file as it is.
LEMMA PreferencesRuns ==
  ASSUME PreferencesAreGood, Prefs!Load \/ Prefs!Kill \/ Prefs!Damage
  PROVE  PreferencesAreGood'
<1>1. ASSUME NEW file \in Numbers, file < ui.next, ui.stage = "gone",
             Prefs!Ready(file), output' = [file |-> file, failed |-> FALSE]
      PROVE  PreferencesAreGood'
  <2>1. ui \in PreferencesUi
    BY DEF PreferencesAreGood, PreferencesTypes
  <2>2. ui.runs + 1 \in Nat /\ 0 \in Numbers /\ file \in 0..MaxStamp + 1
    BY <1>1, <2>1, JobsAssumption
  <2>3. /\ ui'.open /\ ui'.stage = "running" /\ ui'.prefs = file /\ ui'.next = ui.next
        /\ ui' \in PreferencesUi
    <3>1. ui' = [ui EXCEPT !.open = TRUE, !.stage = "running", !.prefs = file,
                           !.runs = ui.runs + 1, !.waits = 0, !.told = FALSE]
      BY <1>1 DEF Prefs!Ready
    <3>2. ui'.stage = "running" /\ ui'.prefs = file /\ ui'.next = ui.next /\ ui'.open = TRUE
      BY <2>1, <3>1
    <3>3. ASSUME NEW a \in BOOLEAN, NEW b \in BOOLEAN, NEW k \in 0..2, NEW runs \in Nat,
                 NEW stage \in {"gone", "running", "consenting", "leaving"}
          PROVE  [ui EXCEPT !.open = a, !.stage = stage, !.prefs = file, !.runs = runs,
                            !.waits = k, !.told = b] \in PreferencesUi
      BY <2>1
    <3>4. ui' \in PreferencesUi
      <4>. HIDE DEF PreferencesUi
      <4>1. 0 \in 0..2
        OBVIOUS
      <4>. QED  BY <2>2, <3>1, <3>3, <4>1, Zenon
    <3>. QED  BY <3>2, <3>4
  <2>. /\ commands' = <<>> /\ events' = <<>> /\ worker' = Prefs!Idle
       /\ output'.file = file /\ ~output'.failed
    BY <1>1 DEF Prefs!Ready
  <2>4. PreferencesTypes'
    BY <1>1, <2>2, <2>3 DEF Prefs!Ready, PreferencesTypes
  <2>5. NumbersAreNew' /\ SavesGrow' /\ AnswersAreTrue'
    BY <1>1, <2>1, <2>3, JobsAssumption DEF NumbersAreNew, SavesGrow, AnswersAreTrue
  <2>. QED  BY <2>3, <2>4, <2>5 DEF PreferencesAreGood
<1>2. CASE Prefs!Load
  <2>1. output' = [file |-> output'.file, failed |-> FALSE] /\ ui.stage = "gone"
    BY <1>2 DEF Prefs!Load, PreferencesAreGood, PreferencesTypes
  <2>2. output'.file \in Numbers /\ Prefs!Ready(output'.file) /\ output'.file < ui.next
    BY <1>2, JobsAssumption DEF Prefs!Load, PreferencesAreGood, PreferencesTypes, NumbersAreNew
  <2>. QED  BY <1>1, <2>1, <2>2
<1>3. CASE Prefs!Kill
  BY <1>3, JobsAssumption DEF Prefs!Kill, PreferencesAreGood, PreferencesTypes, NumbersAreNew,
              SavesGrow, AnswersAreTrue
<1>4. CASE Prefs!Damage
  <2>1. output'.file = MaxStamp + 1 /\ ~ui.open
    BY <1>4 DEF Prefs!Damage, PreferencesAreGood, PreferencesTypes, NumbersAreNew
  <2>2. MaxStamp + 1 \in 0..MaxStamp + 1
    BY JobsAssumption
  <2>3. PreferencesTypes'
    BY <1>4, <2>2 DEF Prefs!Damage, PreferencesAreGood, PreferencesTypes
  <2>. QED
    BY <1>4, <2>1, <2>3
    DEF Prefs!Damage, PreferencesAreGood, NumbersAreNew, SavesGrow, AnswersAreTrue
<1>. QED  BY <1>2, <1>3, <1>4

\* How a change is saved: by d it is known who waits for it, if anyone does.
Saved(stage, k, d) ==
  /\ stage = "running" => k = ui.waits /\ (d = 0 \/ d = k)
  /\ stage # "running" => k = ui.waits + 1 /\ d = k

\* What changes is newer than all that is on its way.
LEMMA PreferencesChange ==
  ASSUME PreferencesAreGood, NEW stage \in {"running", "consenting", "leaving"}, NEW k \in 0..2,
         ui.stage = "running", ui.next <= MaxStamp,
         ui' = [ui EXCEPT !.prefs = ui.next, !.next = @ + 1, !.stage = stage, !.waits = k],
         NEW d \in 0..2, commands' = Append(commands, [prefs |-> ui.next, done |-> d]),
         Saved(stage, k, d),
         UNCHANGED <<shared, worker, events, output>>
  PROVE  PreferencesAreGood'
<1>. DEFINE save == [prefs |-> ui.next, done |-> d]
<1>1. /\ ui \in PreferencesUi /\ commands \in Seq(Saves) /\ PreferencesTypes /\ NumbersAreNew
      /\ SavesGrow /\ AnswersAreTrue /\ ui.open
      /\ shared' = shared /\ worker' = worker /\ events' = events /\ output' = output
  BY DEF PreferencesAreGood, PreferencesTypes, NumbersAreNew
<1>2. ui.next \in Numbers /\ ui.next + 1 \in 1..MaxStamp + 1 /\ ui.next \in Int
  BY <1>1, JobsAssumption
<1>3. save \in Saves /\ save.prefs = ui.next /\ save.done = d
  BY <1>2 DEF Saves
<1>4. /\ commands' \in Seq(Saves) /\ Len(commands') = Len(commands) + 1
      /\ \A i \in 1..Len(commands) : commands'[i] = commands[i]
      /\ commands'[Len(commands) + 1] = save
  <2>. HIDE DEF save
  <2>. QED  BY <1>1, <1>3, AppendType DEF save
<1>5. Len(commands) \in Nat /\ commands' # <<>>
  BY <1>1, <1>4
<1>6. /\ ui'.open /\ ui'.stage = stage /\ ui'.prefs = ui.next /\ ui'.next = ui.next + 1
      /\ ui'.waits = k /\ ui' \in PreferencesUi
  BY <1>1, <1>2
<1>7. NumbersType
  BY <1>1, NumbersAreInt
<1>. HIDE DEF save
<1>8. PreferencesTypes'
  BY <1>1, <1>4, <1>6 DEF PreferencesTypes
<1>9. NumbersAreNew'
  BY <1>1, <1>6, <1>7 DEF NumbersType, NumbersAreNew, Saved
<1>10. SavesGrow'
  <2>1. ASSUME NEW i \in 1..Len(commands)
        PROVE  /\ commands[i].prefs < ui.next /\ commands[i].done <= k
               /\ stage # "running" => commands[i].done # k
    BY <1>1, <1>7 DEF NumbersType, NumbersAreNew, SavesGrow, Saved
  <2>2. worker.at # "idle" => worker.prefs < ui.next
    BY <1>1, <1>7 DEF NumbersType, NumbersAreNew, SavesGrow
  <2>3. output.file <= ui.next /\ d <= k
    BY <1>1, <1>7 DEF NumbersType, NumbersAreNew, Saved
  <2>4. ASSUME NEW i \in 1..Len(commands')
        PROVE  /\ commands'[i].prefs <= ui'.prefs /\ commands'[i].done <= ui'.waits
               /\ i = Len(commands') => commands'[i].prefs = ui'.prefs
               /\ Prefs!Waiting' /\ commands'[i].done = ui'.waits => commands'[i].prefs = ui'.prefs
               /\ worker.at # "idle" => worker.prefs < commands'[i].prefs
               /\ ~shared.late => output.file <= commands'[i].prefs
    <3>1. CASE i \in 1..Len(commands)
      BY <1>1, <1>2, <1>4, <1>5, <1>6, <1>7, <2>1, <3>1 DEF NumbersType, SavesGrow
    <3>2. CASE i = Len(commands) + 1
      BY <1>2, <1>3, <1>4, <1>6, <1>7, <2>2, <2>3, <3>2 DEF NumbersType
    <3>. QED  BY <1>4, <1>5, <3>1, <3>2
  <2>5. ASSUME NEW i \in 1..Len(commands'), NEW j \in 1..Len(commands'), i < j
        PROVE  commands'[i].prefs < commands'[j].prefs
    BY <1>1, <1>3, <1>4, <1>5, <2>1, <2>5 DEF SavesGrow
  <2>. QED  BY <1>1, <1>5, <2>4, <2>5, <1>7, <2>2, <2>3 DEF NumbersType, SavesGrow
<1>11. AnswersAreTrue'
  <2>1. events = <<>>
    BY <1>1 DEF AnswersAreTrue
  <2>2. \A n \in worker.done : n <= ui.waits /\ n <= k
    BY <1>1, <1>7 DEF NumbersType, AnswersAreTrue, Saved
  <2>3. ~(Prefs!Waiting' /\ k \in worker.done)
    BY <1>1, <1>6, <1>7, <2>2 DEF NumbersType, Saved
  <2>. QED  BY <1>1, <1>5, <1>6, <2>1, <2>2, <2>3 DEF AnswersAreTrue
<1>. QED  BY <1>1, <1>6, <1>8, <1>9, <1>10, <1>11 DEF PreferencesAreGood

LEMMA PreferencesUser ==
  ASSUME PreferencesAreGood, Prefs!User
  PROVE  PreferencesAreGood'
<1>1. ui \in PreferencesUi
  BY DEF PreferencesAreGood, PreferencesTypes
<1>2. CASE Prefs!Change
  <2>1. /\ ui.stage = "running" /\ ui.next <= MaxStamp /\ ui.waits \in 0..2
        /\ Saved("running", ui.waits, 0)
    BY <1>1, <1>2, JobsAssumption DEF Prefs!Change, Saved
  <2>2. ui' = [ui EXCEPT !.prefs = ui.next, !.next = @ + 1, !.stage = "running", !.waits = ui.waits]
    BY <1>1, <1>2, <2>1 DEF Prefs!Change
  <2>3. /\ commands' = Append(commands, [prefs |-> ui.next, done |-> 0])
        /\ UNCHANGED <<shared, worker, events, output>> /\ 0 \in 0..2
    BY <1>2 DEF Prefs!Change
  <2>. HIDE DEF PreferencesUi, Saved
  <2>. QED  BY <2>1, <2>2, <2>3, PreferencesChange
<1>3. ASSUME NEW stage \in {"consenting", "leaving"}, Prefs!ChangeAndWait(stage)
      PROVE  PreferencesAreGood'
  <2>1. ui.waits + 1 \in 0..2 /\ Saved(stage, ui.waits + 1, ui.waits + 1)
    BY <1>1, <1>3 DEF Prefs!ChangeAndWait, Saved
  <2>2. stage \in {"running", "consenting", "leaving"}
    OBVIOUS
  <2>3. ui' = [ui EXCEPT !.prefs = ui.next, !.next = @ + 1, !.stage = stage, !.waits = ui.waits + 1]
    BY <1>1, <1>3 DEF Prefs!ChangeAndWait
  <2>. QED  BY <1>3, <2>1, <2>2, <2>3, PreferencesChange DEF Prefs!ChangeAndWait
<1>. QED
  BY <1>2, <1>3, PreferencesRuns DEF Prefs!User, Prefs!Consent, Prefs!Leave

\* Whoever has waited goes on; what the worker has left to do, it does.
LEMMA PreferencesPump ==
  ASSUME PreferencesAreGood, Prefs!Pump
  PROVE  PreferencesAreGood'
<1>. USE DEF Prefs!After
<1>1. /\ ui \in PreferencesUi /\ PreferencesTypes /\ NumbersAreNew /\ SavesGrow /\ AnswersAreTrue
      /\ NumbersType
  BY NumbersAreInt DEF PreferencesAreGood, PreferencesTypes
<1>2. CASE Prefs!Answered
  <2>1. /\ ui' \in PreferencesUi /\ ui'.prefs = ui.prefs /\ ui'.next = ui.next
        /\ ui'.waits = ui.waits /\ ui'.stage \in {"gone", "running"}
        /\ ui'.open <=> ui'.stage # "gone"
    <3>1. Head(events) \in BOOLEAN
      <4>1. events = <<TRUE>> \/ events = <<FALSE>>
        BY <1>1, <1>2 DEF Prefs!Answered, PreferencesTypes
      <4>2. \A x : Head(<<x>>) = x
        OBVIOUS
      <4>. QED  BY <4>1, <4>2, Zenon
    <3>2. ui' = [ui EXCEPT !.stage = Prefs!After, !.open = Prefs!After # "gone",
                           !.told = Head(events)]
      BY <1>2 DEF Prefs!Answered
    <3>. QED  BY <1>1, <3>1, <3>2
  <2>2. events' = <<>> /\ UNCHANGED <<commands, shared, worker, output>> /\ ui.open
    BY <1>1, <1>2 DEF Prefs!Answered, NumbersAreNew
  <2>3. PreferencesTypes' /\ NumbersAreNew'
    BY <1>1, <2>1, <2>2 DEF PreferencesTypes, NumbersAreNew
  <2>4. SavesGrow' /\ AnswersAreTrue'
    BY <1>1, <2>1, <2>2 DEF SavesGrow, AnswersAreTrue
  <2>. QED  BY <2>2, <2>3, <2>4 DEF PreferencesAreGood
<1>3. CASE Prefs!SaveItself
  <2>1. /\ ui' \in PreferencesUi /\ ui'.prefs = ui.prefs /\ ui'.next = ui.next
        /\ ui'.waits = ui.waits /\ ui'.stage \in {"gone", "running"}
        /\ ui'.open <=> ui'.stage # "gone"
    BY <1>1, <1>3 DEF Prefs!SaveItself
  <2>2. /\ events' = <<>> /\ UNCHANGED <<commands, worker>> /\ ui.open
        /\ shared' = [late |-> TRUE] /\ shared'.late
    BY <1>1, <1>3 DEF Prefs!SaveItself, NumbersAreNew
  <2>3. /\ output' \in [file : 0..MaxStamp + 1, failed : BOOLEAN]
        /\ output'.file \in {ui.prefs, output.file}
    <3>1. ui.prefs \in 0..MaxStamp + 1
      BY <1>1, JobsAssumption
    <3>. QED  BY <1>1, <1>3, <3>1 DEF Prefs!SaveItself, PreferencesTypes
  <2>4. PreferencesTypes' /\ NumbersAreNew'
    BY <1>1, <2>1, <2>2, <2>3 DEF PreferencesTypes, NumbersAreNew, NumbersType
  <2>5. SavesGrow' /\ AnswersAreTrue'
    BY <1>1, <2>1, <2>2, <2>3 DEF SavesGrow, AnswersAreTrue
  <2>. QED  BY <2>2, <2>4, <2>5 DEF PreferencesAreGood
<1>. QED  BY <1>2, <1>3 DEF Prefs!Pump

\* The worker takes the newest of what is queued and writes it.
LEMMA PreferencesWorker ==
  ASSUME PreferencesAreGood, Prefs!Worker
  PROVE  PreferencesAreGood'
<1>1. /\ ui \in PreferencesUi /\ PreferencesTypes /\ NumbersAreNew /\ SavesGrow /\ AnswersAreTrue
      /\ NumbersType /\ commands \in Seq(Saves)
  BY NumbersAreInt DEF PreferencesAreGood, PreferencesTypes
<1>2. ASSUME commands # <<>>, commands' = Tail(commands), ui.open, UNCHANGED <<ui, shared, events, output>>,
             NEW done \in SUBSET (1..2),
             worker' = [at |-> "gather", prefs |-> Head(commands).prefs, done |-> done],
             done \subseteq worker.done \cup ({Head(commands).done} \ {0}),
             worker.at \in {"idle", "gather"}
      PROVE  PreferencesAreGood'
  <2>1. /\ commands' \in Seq(Saves) /\ Len(commands') = Len(commands) - 1
        /\ \A i \in 1..Len(commands') : commands'[i] = commands[i + 1] /\ i + 1 \in 1..Len(commands)
        /\ Head(commands) = commands[1] /\ Head(commands) \in Saves /\ 1 \in 1..Len(commands)
    BY <1>1, <1>2, TailType
  <2>2. commands' = <<>> <=> Len(commands) = 1
    BY <1>1, <2>1
  <2>3. /\ worker'.at = "gather" /\ worker'.prefs = commands[1].prefs /\ worker'.done = done
        /\ worker' \in [at : {"idle", "gather", "write", "reply"}, prefs : Numbers, done : SUBSET (1..2)]
    BY <1>2, <2>1 DEF Saves
  <2>4. PreferencesTypes' /\ NumbersAreNew'
    BY <1>1, <1>2, <2>1, <2>3 DEF PreferencesTypes, NumbersAreNew
  <2>5. SavesGrow'
    <3>1. ASSUME NEW i \in 1..Len(commands')
          PROVE  /\ commands'[i].prefs <= ui.prefs /\ commands'[i].done <= ui.waits
                 /\ i = Len(commands') => commands'[i].prefs = ui.prefs
                 /\ Prefs!Waiting /\ commands'[i].done = ui.waits => commands'[i].prefs = ui.prefs
                 /\ commands[1].prefs < commands'[i].prefs
                 /\ ~shared.late => output.file <= commands'[i].prefs
      <4>1. /\ commands'[i] = commands[i + 1] /\ i + 1 \in 1..Len(commands) /\ 1 < i + 1
            /\ i = Len(commands') => i + 1 = Len(commands)
        BY <1>1, <2>1
      <4>. QED  BY <1>1, <1>2, <2>1, <4>1 DEF SavesGrow
    <3>2. ASSUME NEW i \in 1..Len(commands'), NEW j \in 1..Len(commands'), i < j
          PROVE  commands'[i].prefs < commands'[j].prefs
      <4>1. i + 1 \in 1..Len(commands) /\ j + 1 \in 1..Len(commands) /\ i + 1 < j + 1
        BY <2>1, <3>2
      <4>. QED  BY <1>1, <1>2, <2>1, <4>1 DEF SavesGrow
    <3>3. /\ commands[1].prefs <= ui.prefs
          /\ commands' = <<>> => commands[1].prefs = ui.prefs
          /\ ~shared.late => output.file <= commands[1].prefs
      BY <1>1, <1>2, <2>1, <2>2 DEF SavesGrow
    <3>. QED  BY <1>2, <2>3, <3>1, <3>2, <3>3 DEF SavesGrow
  <2>6. AnswersAreTrue'
    <3>1. \A n \in done : n \in worker.done \/ n = commands[1].done
      BY <1>2, <2>1
    <3>2. events = <<>>
      BY <1>1, <1>2 DEF AnswersAreTrue
    <3>3. commands[1].done <= ui.waits
      BY <1>1, <1>2, <2>1 DEF SavesGrow
    <3>4. ASSUME Prefs!Waiting, ui.waits \in worker.done PROVE FALSE
      <4>1. worker.at # "idle" /\ worker.prefs = ui.prefs
        BY <1>1, <1>2, <3>4 DEF AnswersAreTrue
      <4>2. worker.prefs < commands[1].prefs /\ commands[1].prefs <= ui.prefs
        BY <1>1, <1>2, <2>1, <4>1 DEF SavesGrow
      <4>3. worker.prefs \in Int /\ commands[1].prefs \in Int
        BY <1>1, <2>1 DEF NumbersType
      <4>. QED  BY <4>1, <4>2, <4>3
    <3>5. Prefs!Waiting /\ ui.waits \in done => commands[1].prefs = ui.prefs
      BY <1>1, <1>2, <2>1, <3>1, <3>4 DEF SavesGrow
    <3>. QED  BY <1>1, <1>2, <2>1, <2>3, <3>1, <3>2, <3>3, <3>5 DEF AnswersAreTrue
  <2>. QED  BY <1>2, <2>4, <2>5, <2>6 DEF PreferencesAreGood
<1>3. CASE Prefs!Receive
  <2>1. Head(commands).done \in 0..2
    <3>1. Head(commands) \in Saves
      BY <1>1, <1>3, TailType DEF Prefs!Receive
    <3>. QED  BY <3>1 DEF Saves
  <2>2. {Head(commands).done} \ {0} \in SUBSET (1..2)
    BY <2>1
  <2>. QED  BY <1>2, <1>3, <2>2 DEF Prefs!Receive
<1>4. CASE Prefs!Gather
  <2>1. Head(commands).done \in 0..2
    <3>1. Head(commands) \in Saves
      BY <1>1, <1>4, TailType DEF Prefs!Gather
    <3>. QED  BY <3>1 DEF Saves
  <2>2. worker.done \cup ({Head(commands).done} \ {0}) \in SUBSET (1..2)
    BY <1>1, <2>1 DEF PreferencesTypes
  <2>3. worker' = [at |-> "gather", prefs |-> Head(commands).prefs,
                   done |-> worker.done \cup ({Head(commands).done} \ {0})]
    BY <1>1, <1>4 DEF Prefs!Gather, PreferencesTypes
  <2>. QED  BY <1>2, <1>4, <2>2, <2>3 DEF Prefs!Gather
<1>5. CASE Prefs!Gathered
  <2>1. /\ worker'.at = "write" /\ worker'.prefs = worker.prefs /\ worker'.done = worker.done
        /\ worker' \in [at : {"idle", "gather", "write", "reply"}, prefs : Numbers, done : SUBSET (1..2)]
        /\ worker.at = "gather" /\ UNCHANGED <<ui, commands, shared, events, output>> /\ ui.open
    BY <1>1, <1>5 DEF Prefs!Gathered, PreferencesTypes
  <2>2. PreferencesTypes' /\ NumbersAreNew'
    BY <1>1, <2>1 DEF PreferencesTypes, NumbersAreNew
  <2>3. SavesGrow' /\ AnswersAreTrue'
    BY <1>1, <2>1 DEF SavesGrow, AnswersAreTrue
  <2>. QED  BY <2>1, <2>2, <2>3 DEF PreferencesAreGood
<1>6. CASE Prefs!Save
  <2>1. /\ worker'.at = "reply" /\ worker'.prefs = worker.prefs /\ worker'.done = worker.done
        /\ worker' \in [at : {"idle", "gather", "write", "reply"}, prefs : Numbers, done : SUBSET (1..2)]
        /\ worker.at = "write" /\ UNCHANGED <<ui, commands, shared, events>> /\ ui.open
    BY <1>1, <1>6 DEF Prefs!Save, PreferencesTypes
  <2>2. /\ output' \in [file : 0..MaxStamp + 1, failed : BOOLEAN]
        /\ \/ output'.file = worker.prefs /\ ~output'.failed
           \/ output'.file = output.file /\ output'.failed
    <3>1. worker.prefs \in 0..MaxStamp + 1
      BY <1>1, JobsAssumption DEF PreferencesTypes
    <3>2. CASE output' = [file |-> worker.prefs, failed |-> FALSE]
      BY <3>1, <3>2
    <3>3. CASE output' = [output EXCEPT !.failed = TRUE]
      <4>1. output \in [file : 0..MaxStamp + 1, failed : BOOLEAN]
        BY <1>1 DEF PreferencesTypes
      <4>. QED  BY <3>3, <4>1
    <3>. QED  BY <1>6, <3>2, <3>3 DEF Prefs!Save
  <2>3. PreferencesTypes'
    BY <1>1, <2>1, <2>2 DEF PreferencesTypes
  <2>4. worker.prefs <= ui.prefs
    BY <1>1, <2>1 DEF SavesGrow
  <2>5. NumbersAreNew'
    BY <1>1, <2>1, <2>2, <2>4 DEF NumbersAreNew, NumbersType
  <2>6. SavesGrow'
    BY <1>1, <2>1, <2>2 DEF SavesGrow, NumbersType
  <2>7. AnswersAreTrue'
    <3>1. events = <<>>
      BY <1>1, <2>1 DEF AnswersAreTrue
    <3>2. Prefs!Waiting /\ ui.waits \in worker.done => worker.prefs = ui.prefs
      BY <1>1, <2>1 DEF AnswersAreTrue
    <3>. QED  BY <1>1, <2>1, <2>2, <3>1, <3>2 DEF AnswersAreTrue
  <2>. QED  BY <2>1, <2>3, <2>5, <2>6, <2>7 DEF PreferencesAreGood
<1>7. CASE Prefs!Reply
  <2>1. /\ worker'.at = "idle" /\ worker'.done = {} /\ worker' = Prefs!Idle
        /\ worker.at = "reply" /\ UNCHANGED <<ui, commands, shared, output>> /\ ui.open
    BY <1>1, <1>7 DEF Prefs!Reply
  <2>2. \/ events' = <<~output.failed>> /\ Prefs!Waiting /\ ui.waits \in worker.done
        \/ events' = events
    BY <1>7 DEF Prefs!Reply
  <2>3. events = <<>>
    BY <1>1, <2>1 DEF AnswersAreTrue
  <2>4. events' \in {<<>>, <<TRUE>>, <<FALSE>>} /\ (events' = <<TRUE>> => ~output.failed)
    <3>1. CASE output.failed
      <4>1. <<~output.failed>> = <<FALSE>> 
        BY <3>1
      <4>2. <<FALSE>> # <<TRUE>> /\ <<>> # <<TRUE>>
        OBVIOUS
      <4>. QED  BY <2>2, <2>3, <4>1, <4>2, Zenon
    <3>2. CASE ~output.failed
      <4>1. <<~output.failed>> = <<TRUE>>
        BY <3>2
      <4>. QED  BY <2>2, <2>3, <3>2, <4>1
    <3>. QED  BY <3>1, <3>2
  <2>5. PreferencesTypes'
    <3>1. worker' \in [at : {"idle", "gather", "write", "reply"}, prefs : Numbers,
                       done : SUBSET (1..2)]
      BY <2>1, JobsAssumption
    <3>. QED  BY <1>1, <2>1, <2>4, <3>1 DEF PreferencesTypes
  <2>9. NumbersAreNew'
    BY <1>1, <2>1 DEF NumbersAreNew
  <2>6. SavesGrow'
    BY <1>1, <2>1 DEF SavesGrow, NumbersType
  <2>7. Prefs!Waiting /\ ui.waits \in worker.done => commands = <<>>
    BY <1>1, <2>1 DEF SavesGrow, AnswersAreTrue, NumbersType
  <2>8. AnswersAreTrue'
    BY <1>1, <2>1, <2>2, <2>3, <2>4, <2>7 DEF AnswersAreTrue, SavesGrow, NumbersType
  <2>. QED  BY <2>1, <2>5, <2>6, <2>8, <2>9 DEF PreferencesAreGood
<1>. QED  BY <1>3, <1>4, <1>5, <1>6, <1>7 DEF Prefs!Worker

LEMMA PreferencesPromise ==
  PreferencesAreGood => Prefs!TypeOK /\ Prefs!NewestIsSaved /\ Prefs!OutcomeIsTrue
<1>. SUFFICES ASSUME PreferencesAreGood
     PROVE  Prefs!TypeOK /\ Prefs!NewestIsSaved /\ Prefs!OutcomeIsTrue
  OBVIOUS
<1>1. PreferencesTypes /\ NumbersAreNew /\ AnswersAreTrue /\ (~ui.open => events = <<>>)
  BY DEF PreferencesAreGood
<1>2. Prefs!NewestIsSaved
  BY <1>1 DEF AnswersAreTrue, Prefs!NewestIsSaved
<1>3. Prefs!OutcomeIsTrue
  <2>1. <<>> # <<TRUE>>
    OBVIOUS
  <2>. QED  BY <1>1, <2>1 DEF AnswersAreTrue, Prefs!OutcomeIsTrue
<1>4. Prefs!TypeOK
  <2>1. Len(events) <= 1
    <3>1. \A x : Len(<<x>>) <= 1
      OBVIOUS
    <3>2. Len(<<>>) <= 1
      OBVIOUS
    <3>3. events = <<>> \/ events = <<TRUE>> \/ events = <<FALSE>>
      BY <1>1 DEF PreferencesTypes
    <3>. QED  BY <3>1, <3>2, <3>3, Zenon
  <2>2. output.file \in 0..MaxStamp + 1 /\ ui.prefs \in 0..MaxStamp
    BY <1>1 DEF PreferencesTypes
  <2>3. events # <<>> => Prefs!Waiting
    BY <1>1 DEF AnswersAreTrue
  <2>4. ui.open <=> ui.stage # "gone"
    BY <1>1 DEF NumbersAreNew
  <2>. QED  BY <2>1, <2>2, <2>3, <2>4 DEF Prefs!TypeOK
<1>. QED  BY <1>2, <1>3, <1>4

\* The worker and the UI thread only write what is newer than the file.
LEMMA PreferencesAreNewer ==
  ASSUME PreferencesAreGood, Prefs!Worker \/ Prefs!Pump \/ Prefs!User \/ UNCHANGED vars
  PROVE  Prefs!NeverBack
<1>. USE DEF Prefs!NeverBack
<1>1. PreferencesTypes /\ NumbersAreNew /\ SavesGrow /\ NumbersType
  BY NumbersAreInt DEF PreferencesAreGood
<1>2. CASE output'.file = output.file
  BY <1>1, <1>2 DEF NumbersType
<1>3. CASE Prefs!Save
  <2>1. ui.open /\ worker.at = "write" /\ output'.file \in {worker.prefs, output.file}
    BY <1>1, <1>3 DEF Prefs!Save, PreferencesTypes
  <2>. QED  BY <1>1, <2>1 DEF SavesGrow, NumbersType
<1>4. CASE Prefs!SaveItself
  <2>1. ui.open /\ output'.file \in {ui.prefs, output.file}
    BY <1>1, <1>4 DEF Prefs!SaveItself, PreferencesTypes, NumbersAreNew
  <2>. QED  BY <1>1, <2>1 DEF NumbersAreNew, NumbersType
<1>5. CASE Prefs!Load \/ Prefs!Damage
  <2>1. ~ui.open
    BY <1>1, <1>5 DEF NumbersAreNew, Prefs!Load, Prefs!Damage
  <2>. QED  BY <2>1
<1>. QED
  BY <1>2, <1>3, <1>4, <1>5
  DEF Prefs!Worker, Prefs!Pump, Prefs!User, Prefs!Receive, Prefs!Gather, Prefs!Gathered, Prefs!Reply,
      Prefs!Answered, Prefs!Change, Prefs!Consent, Prefs!Leave, Prefs!ChangeAndWait, Prefs!Kill, vars

HIDE DEF Numbers, PreferencesUi, Prefs!Waiting, Prefs!Absent, Prefs!Damaged, Prefs!Idle, Prefs!After

-----------------------------------------------------------------------------
(* Printing *)

PrintJob == [id : 1..MaxJobs, pages : Nat \ {0}, copies : Nat \ {0}]
PrintCommand == {[do |-> "Shutdown"]} \cup {[do |-> "Start", job |-> job] : job \in PrintJob}
PrintEvent == [kind : {"none", "Finished", "Failed", "Cancelled"}, id : 0..MaxJobs]
PrintProgress == [kind : {"Progress"}, id : 1..MaxJobs, percent : 0..100]

PrintUi == [open : BOOLEAN, active : 0..MaxJobs, progress : 0..100, next : 1..MaxJobs + 1]
PrintWorker ==
  [at : {"head", "recv", "start", "page", "send", "ended"},
   job : [id : 0..MaxJobs, pages : Nat \ {0}, copies : Nat \ {0}], done : Nat,
   backend : {"untried", "ready", "missing"}, event : PrintEvent]
PrintEvents == [terminal : Seq(PrintEvent), progress : Seq(PrintProgress)]
PrintOutput ==
  [1..MaxJobs -> [state : {"none", "spooling", "printed", "aborted"}, pages : Nat, deviceCopies : Nat]]

PrintTypes ==
  /\ ui \in PrintUi /\ commands \in Seq(PrintCommand) /\ Len(commands) <= CommandCap
  /\ shared \in [cancelled : SUBSET (1..MaxJobs), shutdown : BOOLEAN]
  /\ worker \in PrintWorker /\ events \in PrintEvents /\ Len(events.progress) <= ProgressCap
  /\ output \in PrintOutput

\* The worker has a job exactly while it works, and comes to no page too many.
PrintWorkerIsGood ==
  /\ worker.at \in {"start", "page", "send"} <=> worker.job.id # 0
  /\ worker.at = "page" => worker.done <= Prints!Total
  /\ worker.at = "start" => worker.done = 0
  /\ worker.at = "send" => worker.event.id = worker.job.id /\ worker.event.kind # "none"

\* The job the controller holds is at one place, and nothing is anywhere else.
PrintJobIsHeld ==
  /\ ui.active < ui.next
  /\ ~ui.open => ui.active = 0 /\ events.terminal = <<>> /\ events.progress = <<>>
  /\ ui.open =>
       /\ worker.job.id # 0 => worker.job.id = ui.active /\ commands = <<>> /\ events.terminal = <<>>
       /\ commands # <<>> =>
            /\ Len(commands) = 1 /\ commands[1].do = "Start" /\ commands[1].job.id = ui.active
            /\ ui.active # 0 /\ events.terminal = <<>>
       /\ events.terminal # <<>> =>
            /\ Len(events.terminal) = 1 /\ events.terminal[1].id = ui.active /\ ui.active # 0
       /\ ui.active # 0 => worker.job.id # 0 \/ commands # <<>> \/ events.terminal # <<>>

\* The spooler has what the worker, or its last event, says.
SpoolIsGood ==
  /\ \A id \in 1..MaxJobs : output[id].state = "spooling" => worker.job.id = id
  /\ worker.at = "start" => output[worker.job.id].state # "spooling"
  /\ worker.at = "page" => output[worker.job.id].state = "spooling"
  /\ worker.at = "send" => output[worker.job.id].state # "spooling"
  /\ ui.open =>
       /\ \A id \in ui.next..MaxJobs : output[id].state = "none"
       /\ commands # <<>> => output[ui.active].state = "none"
       /\ worker.at = "start" => output[ui.active].state = "none"
       /\ worker.at = "send" => (worker.event.kind = "Finished" <=> output[ui.active].state = "printed")
       /\ events.terminal # <<>> =>
            (events.terminal[1].kind = "Finished" <=> output[ui.active].state = "printed")

\* How much of the job is done, in percent
Done == (worker.done * 100) \div Prints!Total

\* What is queued of the active job's progress is more than what is shown, and no
\* more than what is done.
ProgressGrows ==
  /\ \A i \in 1..Len(events.progress) :
       /\ events.progress[i].id < ui.next
       /\ events.progress[i].id = ui.active =>
            /\ ui.progress <= events.progress[i].percent
            /\ worker.at = "page" => events.progress[i].percent <= Done
            /\ commands = <<>> /\ worker.at # "start"
            /\ \A j \in i..Len(events.progress) : events.progress[j].id = ui.active
                 => events.progress[i].percent <= events.progress[j].percent
  /\ ui.open /\ worker.at = "page" => ui.progress <= Done
  /\ ui.open /\ (commands # <<>> \/ worker.at = "start") => ui.progress = 0

PrintIsGood ==
  PrintTypes /\ PrintWorkerIsGood /\ PrintJobIsHeld /\ SpoolIsGood /\ ProgressGrows

LEMMA PrintCommandType ==
  ASSUME NEW c \in PrintCommand
  PROVE  c.do = "Shutdown" \/ (c.do = "Start" /\ c.job \in PrintJob)
  BY DEF PrintCommand

LEMMA TotalType == ASSUME worker \in PrintWorker PROVE Prints!Total \in Nat \ {0}
<1>1. worker.job.pages \in Nat \ {0} /\ worker.job.copies \in Nat \ {0}
  BY DEF PrintWorker
<1>2. \A a, b \in Nat \ {0} : a * b \in Nat \ {0}
  OBVIOUS
<1>. QED  BY <1>1, <1>2 DEF Prints!Total, Prints!Job

\* A page more is no smaller part, and all pages are 100 percent.
LEMMA PartsGrow ==
  ASSUME NEW done \in Nat, NEW total \in Nat \ {0}, done < total
  PROVE  /\ (done * 100) \div total <= ((done + 1) * 100) \div total
         /\ (done * 100) \div total \in 0..100 /\ ((done + 1) * 100) \div total \in 0..100
<1>1. \A a, b \in Nat : a <= b => a \div total <= b \div total
  OBVIOUS
<1>2. \A a \in Nat : a <= total => (a * 100) \div total \in 0..100
  OBVIOUS
<1>3. done * 100 \in Nat /\ (done + 1) * 100 \in Nat /\ done * 100 <= (done + 1) * 100
  OBVIOUS
<1>. QED  BY <1>1, <1>2, <1>3

LEMMA PrintEventTypes ==
  ASSUME PrintTypes
  PROVE  /\ events.progress \in Seq(PrintProgress) /\ events.terminal \in Seq(PrintEvent)
         /\ Len(events.progress) \in Nat /\ Len(events.terminal) \in Nat
         /\ \A i \in 1..Len(events.progress) :
              /\ events.progress[i].id \in Int /\ events.progress[i].percent \in 0..100
              /\ events.progress[i].percent \in Int
              /\ events.progress[i].kind = "Progress"
<1>1. events.progress \in Seq(PrintProgress) /\ events.terminal \in Seq(PrintEvent)
  BY DEF PrintTypes, PrintEvents
<1>2. ASSUME NEW i \in 1..Len(events.progress)
      PROVE  /\ events.progress[i].id \in Int /\ events.progress[i].percent \in 0..100
             /\ events.progress[i].percent \in Int /\ events.progress[i].kind = "Progress"
  <2>1. events.progress[i] \in PrintProgress
    BY <1>1
  <2>2. /\ events.progress[i].id \in Int /\ events.progress[i].percent \in 0..100
        /\ events.progress[i].kind = "Progress"
    BY <2>1 DEF PrintProgress
  <2>3. \A k \in 0..100 : k \in Int
    OBVIOUS
  <2>. QED  BY <2>2, <2>3, Zenon
<1>. QED  BY <1>1, <1>2

LEMMA PrintInit == Prints!Init => PrintIsGood
<1>. SUFFICES ASSUME Prints!Init PROVE PrintIsGood
  OBVIOUS
<1>. USE JobsAssumption DEF Prints!Init, Prints!Ids, Prints!NoJob, Prints!NoEvent, Prints!NoSpool, Prints!Event
<1>1. ui \in PrintUi
  BY DEF PrintUi
<1>2. worker \in PrintWorker
  BY DEF PrintWorker, PrintEvent
<1>3. events \in PrintEvents /\ commands \in Seq(PrintCommand) /\ output \in PrintOutput
  BY DEF PrintEvents, PrintOutput
<1>4. PrintTypes
  BY <1>1, <1>2, <1>3 DEF PrintTypes
<1>5. PrintWorkerIsGood /\ PrintJobIsHeld /\ SpoolIsGood /\ ProgressGrows
  BY DEF PrintWorkerIsGood, PrintJobIsHeld, SpoolIsGood, ProgressGrows
<1>. QED  BY <1>4, <1>5 DEF PrintIsGood

LEMMA PrintStutter == PrintIsGood /\ UNCHANGED vars => PrintIsGood'
  BY DEF vars, PrintIsGood, PrintTypes, PrintWorkerIsGood, PrintJobIsHeld, SpoolIsGood, ProgressGrows,
         Done, Prints!Total, Prints!Job, PrintUi, PrintWorker, PrintEvents, PrintOutput, PrintCommand,
         PrintJob, PrintEvent, PrintProgress

LEMMA PrintConfirm ==
  ASSUME PrintIsGood, NEW pages \in PageCounts, NEW copies \in CopyCounts,
         Prints!ConfirmPrint(pages, copies)
  PROVE  PrintIsGood'
<1>. DEFINE job == [id |-> ui.next, pages |-> pages, copies |-> copies]
            start == [do |-> "Start", job |-> job]
<1>1. /\ PrintTypes /\ PrintWorkerIsGood /\ PrintJobIsHeld /\ SpoolIsGood /\ ProgressGrows
      /\ ui \in PrintUi /\ commands \in Seq(PrintCommand)
  BY DEF PrintIsGood, PrintTypes
<1>2. /\ ui.open /\ ui.active = 0 /\ ui.next \in 1..MaxJobs /\ ui.next + 1 \in 1..MaxJobs + 1
      /\ UNCHANGED <<shared, worker, events, output>> /\ ui.next \in Int
  BY <1>1, JobsAssumption DEF Prints!ConfirmPrint, PrintUi
<1>3. /\ commands = <<>> /\ worker.job.id = 0 /\ events.terminal = <<>>
      /\ worker.at \notin {"start", "page", "send"}
  <2>1. worker.job.id = 0
    BY <1>1, <1>2 DEF PrintJobIsHeld
  <2>. QED  BY <1>1, <1>2, <2>1 DEF PrintJobIsHeld, PrintWorkerIsGood
<1>4. job \in PrintJob /\ start \in PrintCommand
  BY <1>2, JobsAssumption DEF PrintJob, PrintCommand
<1>5. Len(commands) < CommandCap
  BY <1>3, JobsAssumption
<1>6. /\ ui' = [ui EXCEPT !.next = @ + 1, !.active = ui.next, !.progress = 0]
      /\ commands' = Append(commands, start)
  BY <1>1, <1>2, <1>5 DEF Prints!ConfirmPrint, PrintUi
<1>7. /\ ui'.next = ui.next + 1 /\ ui'.active = ui.next /\ ui'.progress = 0 /\ ui'.open
      /\ ui' \in PrintUi
  <2>1. 0 \in 0..100 /\ ui.next \in 0..MaxJobs
    BY <1>2, JobsAssumption
  <2>. QED  BY <1>1, <1>2, <1>6, <2>1 DEF PrintUi
<1>. HIDE DEF start
<1>8. /\ commands' \in Seq(PrintCommand) /\ Len(commands') = 1 /\ commands'[1] = start
      /\ commands' # <<>>
  BY <1>1, <1>3, <1>4, <1>6
<1>9. PrintTypes'
  BY <1>1, <1>2, <1>7, <1>8, JobsAssumption DEF PrintTypes
<1>10. PrintWorkerIsGood'
  BY <1>1, <1>2 DEF PrintWorkerIsGood, Prints!Total, Prints!Job
<1>11. PrintJobIsHeld'
  BY <1>1, <1>2, <1>3, <1>7, <1>8 DEF PrintJobIsHeld, start
<1>12. SpoolIsGood'
  BY <1>1, <1>2, <1>3, <1>7 DEF SpoolIsGood
<1>13. ProgressGrows'
  <2>1. \A i \in 1..Len(events.progress) : events.progress[i].id < ui.next /\ events.progress[i].id \in Int
    BY <1>1, PrintEventTypes DEF ProgressGrows
  <2>. QED  BY <1>2, <1>3, <1>7, <2>1 DEF ProgressGrows
<1>. QED  BY <1>9, <1>10, <1>11, <1>12, <1>13 DEF PrintIsGood

LEMMA PrintCancel ==
  ASSUME PrintIsGood, Prints!CancelPrint
  PROVE  PrintIsGood'
<1>1. shared' \in [cancelled : SUBSET (1..MaxJobs), shutdown : BOOLEAN]
  BY DEF PrintIsGood, PrintTypes, Prints!CancelPrint, PrintUi
<1>2. PrintTypes'
  BY <1>1 DEF PrintIsGood, PrintTypes, Prints!CancelPrint
<1>. QED
  BY <1>2 DEF PrintIsGood, Prints!CancelPrint, PrintWorkerIsGood, PrintJobIsHeld, SpoolIsGood,
              ProgressGrows, Done, Prints!Total, Prints!Job

LEMMA PrintExit ==
  ASSUME PrintIsGood, Prints!Exit
  PROVE  PrintIsGood'
<1>1. /\ PrintTypes /\ PrintWorkerIsGood /\ PrintJobIsHeld /\ SpoolIsGood /\ ProgressGrows
      /\ ui \in PrintUi /\ commands \in Seq(PrintCommand) /\ worker' = worker /\ output' = output
      /\ ui' = [ui EXCEPT !.open = FALSE, !.active = 0]
      /\ events' = [terminal |-> <<>>, progress |-> <<>>]
  BY DEF PrintIsGood, PrintTypes, Prints!Exit
<1>2. 0 \in 0..MaxJobs /\ ui.next \in Int /\ ui.next > 0
  BY <1>1, JobsAssumption DEF PrintUi
<1>3. ui'.next = ui.next /\ ui'.active = 0 /\ ~ui'.open /\ ui' \in PrintUi
  BY <1>1, <1>2 DEF PrintUi
<1>4. /\ events'.terminal = <<>> /\ events'.progress = <<>> /\ events' \in PrintEvents
      /\ Len(events'.progress) <= ProgressCap
  BY <1>1, JobsAssumption DEF PrintEvents
<1>5. shared' \in [cancelled : SUBSET (1..MaxJobs), shutdown : BOOLEAN]
  BY <1>1 DEF PrintTypes, Prints!Exit, PrintUi
<1>6. commands' \in Seq(PrintCommand) /\ Len(commands') <= CommandCap
  <2>1. [do |-> "Shutdown"] \in PrintCommand /\ CommandCap \in Nat
    BY JobsAssumption DEF PrintCommand
  <2>. QED  BY <1>1, <2>1, AppendType DEF PrintTypes, Prints!Exit
<1>7. PrintTypes'
  BY <1>1, <1>3, <1>4, <1>5, <1>6 DEF PrintTypes
<1>8. PrintWorkerIsGood' /\ PrintJobIsHeld'
  BY <1>1, <1>2, <1>3, <1>4 DEF PrintWorkerIsGood, PrintJobIsHeld, Prints!Total, Prints!Job
<1>9. SpoolIsGood' /\ ProgressGrows'
  BY <1>1, <1>3, <1>4 DEF SpoolIsGood, ProgressGrows
<1>. QED  BY <1>7, <1>8, <1>9 DEF PrintIsGood

\* Terminal events are taken first; of those of another job nothing comes.
LEMMA PrintPump ==
  ASSUME PrintIsGood, Prints!HandlePrintEvent
  PROVE  /\ PrintIsGood'
         /\ ui.active # 0 /\ ui'.active = ui.active => ui'.progress >= ui.progress
<1>1. /\ PrintTypes /\ PrintWorkerIsGood /\ PrintJobIsHeld /\ SpoolIsGood /\ ProgressGrows
      /\ ui \in PrintUi /\ events \in PrintEvents /\ ui.open
      /\ commands' = commands /\ shared' = shared /\ worker' = worker /\ output' = output
      /\ ui.progress \in Int /\ ui.active \in Int /\ ui.next \in Int /\ ui.progress \in 0..100
  <2>1. PrintTypes /\ ui \in PrintUi /\ events \in PrintEvents
    BY DEF PrintIsGood, PrintTypes
  <2>2. ui.progress \in Int /\ ui.active \in Int /\ ui.next \in Int /\ ui.progress \in 0..100
    BY <2>1, JobsAssumption DEF PrintUi
  <2>. QED  BY <2>1, <2>2 DEF PrintIsGood, Prints!HandlePrintEvent
<1>2. /\ events.progress \in Seq(PrintProgress) /\ events.terminal \in Seq(PrintEvent)
      /\ Len(events.progress) \in Nat /\ Len(events.terminal) \in Nat
      /\ \A i \in 1..Len(events.progress) :
           /\ events.progress[i].id \in Int /\ events.progress[i].percent \in 0..100
           /\ events.progress[i].kind = "Progress"
  BY <1>1, PrintEventTypes
<1>3. PrintWorkerIsGood'
  BY <1>1 DEF PrintWorkerIsGood, Prints!Total, Prints!Job
<1>4. Done' = Done
  BY <1>1 DEF Done, Prints!Total, Prints!Job
<1>5. CASE events.terminal # <<>>
  <2>1. /\ Len(events.terminal) = 1 /\ events.terminal[1].id = ui.active /\ ui.active # 0
        /\ events.terminal[1] \in PrintEvent /\ commands = <<>> /\ worker.job.id = 0
    BY <1>1, <1>2, <1>5 DEF PrintJobIsHeld
  <2>2. Head(events.terminal \o events.progress) = events.terminal[1]
    BY <1>2, <1>5, HeadOfBoth
  <2>3. PICK k \in {0, 100} : ui' = [ui EXCEPT !.active = 0, !.progress = k]
    BY <2>1, <2>2 DEF Prints!HandlePrintEvent, PrintEvent
  <2>4. /\ ui'.open /\ ui'.active = 0 /\ ui'.next = ui.next /\ ui' \in PrintUi
    <3>1. k \in 0..100 /\ 0 \in 0..MaxJobs
      BY JobsAssumption
    <3>. QED  BY <1>1, <2>3, <3>1 DEF PrintUi
  <2>5. events' = [events EXCEPT !.terminal = Tail(@)]
    BY <1>5 DEF Prints!HandlePrintEvent
  <2>6. Tail(events.terminal) = <<>> /\ Tail(events.terminal) \in Seq(PrintEvent)
    <3>1. Tail(events.terminal) \in Seq(PrintEvent) /\ Len(Tail(events.terminal)) = 0
      BY <1>2, <1>5, <2>1, TailType
    <3>. QED  BY <3>1, EmptySeq
  <2>7. /\ events' \in PrintEvents /\ events'.terminal = <<>> /\ events'.progress = events.progress
    BY <1>1, <2>5, <2>6 DEF PrintEvents
  <2>8. PrintTypes'
    BY <1>1, <2>4, <2>7 DEF PrintTypes
  <2>9. PrintJobIsHeld' /\ SpoolIsGood'
    <3>1. worker.at \notin {"start", "page", "send"} /\ 0 < ui.next
      BY <1>1, <2>1 DEF PrintWorkerIsGood, PrintUi
    <3>2. PrintJobIsHeld'
      BY <1>1, <2>1, <2>4, <2>7, <3>1 DEF PrintJobIsHeld
    <3>3. SpoolIsGood'
      BY <1>1, <2>1, <2>4, <2>7, <3>1 DEF SpoolIsGood
    <3>. QED  BY <3>2, <3>3
  <2>10. ProgressGrows'
    <3>1. worker.at # "start" /\ worker.at # "page"
      BY <1>1, <2>1 DEF PrintWorkerIsGood
    <3>2. \A i \in 1..Len(events.progress) : events.progress[i].id # 0
      <4>1. \A i \in 1..Len(events.progress) : events.progress[i] \in PrintProgress
        BY <1>2
      <4>. QED  BY <4>1 DEF PrintProgress
    <3>. QED  BY <1>1, <2>1, <2>4, <2>7, <3>1, <3>2 DEF ProgressGrows
  <2>. QED  BY <1>3, <2>1, <2>4, <2>8, <2>9, <2>10 DEF PrintIsGood
<1>6. CASE events.terminal = <<>>
  <2>1. /\ events.progress # <<>> /\ Head(events.terminal \o events.progress) = events.progress[1]
        /\ 1 \in 1..Len(events.progress)
    BY <1>2, <1>6 DEF Prints!HandlePrintEvent
  <2>2. events' = [events EXCEPT !.progress = Tail(@)]
    BY <1>6 DEF Prints!HandlePrintEvent
  <2>3. /\ Tail(events.progress) \in Seq(PrintProgress)
        /\ Len(Tail(events.progress)) = Len(events.progress) - 1
        /\ \A i \in 1..Len(Tail(events.progress)) :
             Tail(events.progress)[i] = events.progress[i + 1] /\ i + 1 \in 1..Len(events.progress)
    BY <1>2, <2>1, TailType
  <2>4. /\ events' \in PrintEvents /\ events'.terminal = <<>>
        /\ events'.progress = Tail(events.progress)
    BY <1>1, <1>6, <2>2, <2>3 DEF PrintEvents
  <2>5. /\ ui' \in PrintUi /\ ui'.open /\ ui'.active = ui.active /\ ui'.next = ui.next
        /\ IF events.progress[1].id = ui.active THEN ui'.progress = events.progress[1].percent
           ELSE ui'.progress = ui.progress
    <3>1. events.progress[1].percent \in 0..100
      BY <1>2, <2>1
    <3>2. \/ events.progress[1].id # ui.active /\ ui' = ui
          \/ /\ events.progress[1].id = ui.active
             /\ ui' = [ui EXCEPT !.progress = events.progress[1].percent]
      BY <1>2, <2>1 DEF Prints!HandlePrintEvent
    <3>. QED  BY <1>1, <3>1, <3>2 DEF PrintUi
  <2>6. PrintTypes'
    <3>1. Len(events.progress) <= ProgressCap
      BY <1>1 DEF PrintTypes
    <3>2. Len(events'.progress) <= ProgressCap
      BY <1>2, <2>3, <2>4, <3>1, JobsAssumption
    <3>. QED  BY <1>1, <2>4, <2>5, <3>2 DEF PrintTypes
  <2>7. PrintJobIsHeld' /\ SpoolIsGood'
    BY <1>1, <1>6, <2>4, <2>5 DEF PrintJobIsHeld, SpoolIsGood
  <2>8. ui'.progress >= ui.progress
    BY <1>1, <1>2, <2>1, <2>5 DEF ProgressGrows
  <2>9. ProgressGrows'
    <3>1. ASSUME NEW i \in 1..Len(events'.progress)
          PROVE  /\ events'.progress[i] = events.progress[i + 1] /\ i + 1 \in 1..Len(events.progress)
                 /\ i + 1 \in 1..Len(events.progress)
      BY <2>3, <2>4
    <3>2. ASSUME NEW i \in 1..Len(events'.progress), events'.progress[i].id = ui.active
          PROVE  ui'.progress <= events'.progress[i].percent
      BY <1>1, <1>2, <2>1, <2>5, <3>1, <3>2 DEF ProgressGrows
    <3>3. ASSUME NEW i \in 1..Len(events'.progress), NEW j \in i..Len(events'.progress),
                 events'.progress[i].id = ui.active, events'.progress[j].id = ui.active
          PROVE  events'.progress[i].percent <= events'.progress[j].percent
      <4>1. j \in 1..Len(events'.progress) /\ j + 1 \in (i + 1)..Len(events.progress)
        BY <1>2, <2>3, <2>4, <3>1
      <4>. QED  BY <1>1, <3>1, <3>3, <4>1 DEF ProgressGrows
    <3>4. worker.at = "page" => ui'.progress <= Done
      BY <1>1, <2>1, <2>5 DEF ProgressGrows
    <3>5. commands # <<>> \/ worker.at = "start" => ui'.progress = 0
      BY <1>1, <2>1, <2>5 DEF ProgressGrows
    <3>6. \A i \in 1..Len(events'.progress) :
            /\ events'.progress[i].id < ui'.next
            /\ events'.progress[i].id = ui'.active =>
                 /\ worker.at = "page" => events'.progress[i].percent <= Done
                 /\ commands = <<>> /\ worker.at # "start"
      BY <1>1, <2>5, <3>1 DEF ProgressGrows
    <3>. QED  BY <1>1, <1>4, <2>5, <3>2, <3>3, <3>4, <3>5, <3>6 DEF ProgressGrows
  <2>. QED  BY <1>3, <2>6, <2>7, <2>8, <2>9 DEF PrintIsGood
<1>. QED  BY <1>5, <1>6

\* What the thread does next, with nothing done to the spooler
LEMMA PrintLook ==
  ASSUME PrintIsGood, Prints!LookAtShutdown
  PROVE  PrintIsGood'
<1>1. PICK at \in {"ended", "recv"} : worker' = [worker EXCEPT !.at = at]
  BY DEF Prints!LookAtShutdown
<1>2. /\ worker \in PrintWorker /\ PrintTypes /\ worker.at = "head"
      /\ UNCHANGED <<ui, commands, shared, events, output>>
  BY DEF PrintIsGood, PrintTypes, Prints!LookAtShutdown
<1>3. worker' \in PrintWorker /\ worker'.at = at /\ worker'.job = worker.job
  BY <1>1, <1>2 DEF PrintWorker
<1>4. PrintTypes'
  BY <1>2, <1>3 DEF PrintTypes
<1>. QED
  BY <1>2, <1>3, <1>4
  DEF PrintIsGood, PrintWorkerIsGood, PrintJobIsHeld, SpoolIsGood, ProgressGrows

LEMMA PrintReceive ==
  ASSUME PrintIsGood, Prints!Receive
  PROVE  PrintIsGood'
<1>1. /\ PrintTypes /\ PrintWorkerIsGood /\ PrintJobIsHeld /\ SpoolIsGood /\ ProgressGrows
      /\ ui' = ui /\ shared' = shared /\ events' = events /\ output' = output
      /\ worker.at = "recv" /\ commands # <<>> /\ commands' = Tail(commands)
      /\ worker \in PrintWorker /\ commands \in Seq(PrintCommand)
  BY DEF PrintIsGood, PrintTypes, Prints!Receive
<1>2. /\ commands' \in Seq(PrintCommand) /\ Len(commands') = Len(commands) - 1
      /\ Head(commands) = commands[1] /\ Head(commands) \in PrintCommand
  BY <1>1, TailType
<1>3. Len(commands') <= CommandCap
  <2>1. Len(commands) \in Nat /\ Len(commands) <= CommandCap
    BY <1>1 DEF PrintTypes
  <2>. QED  BY <1>2, <2>1, JobsAssumption
<1>4. worker.job.id = 0 /\ \A id \in 1..MaxJobs : output[id].state # "spooling"
  BY <1>1 DEF PrintWorkerIsGood, SpoolIsGood
<1>5. CASE Head(commands).do = "Shutdown"
  <2>1. worker' = [worker EXCEPT !.at = "ended"]
    BY <1>5 DEF Prints!Receive
  <2>2. worker' \in PrintWorker /\ worker'.at = "ended" /\ worker'.job = worker.job
    BY <1>1, <2>1 DEF PrintWorker
  <2>3. PrintTypes'
    BY <1>1, <1>2, <1>3, <2>2 DEF PrintTypes
  <2>4. ~ui.open
    BY <1>1, <1>2, <1>5 DEF PrintJobIsHeld
  <2>. QED
    BY <1>1, <1>4, <2>2, <2>3, <2>4
    DEF PrintIsGood, PrintWorkerIsGood, PrintJobIsHeld, SpoolIsGood, ProgressGrows
<1>6. CASE Head(commands).do # "Shutdown"
  <2>1. commands[1].job \in PrintJob /\ commands[1].do = "Start"
    BY <1>2, <1>6, PrintCommandType
  <2>2. worker' = [worker EXCEPT !.at = "start", !.job = commands[1].job, !.done = 0]
    BY <1>2, <1>6 DEF Prints!Receive
  <2>3. /\ worker' \in PrintWorker /\ worker'.at = "start" /\ worker'.job = commands[1].job
        /\ worker'.job.id # 0 /\ worker'.job.id \in 1..MaxJobs /\ worker'.done = 0
    <3>1. /\ commands[1].job \in [id : 0..MaxJobs, pages : Nat \ {0}, copies : Nat \ {0}]
          /\ commands[1].job.id # 0 /\ commands[1].job.id \in 1..MaxJobs
      BY <2>1, JobsAssumption DEF PrintJob
    <3>. QED  BY <1>1, <2>2, <3>1 DEF PrintWorker
  <2>4. PrintTypes'
    BY <1>1, <1>2, <1>3, <2>3 DEF PrintTypes
  <2>5. PrintWorkerIsGood'
    BY <2>3 DEF PrintWorkerIsGood
  <2>6. ui.open => commands' = <<>> /\ commands[1].job.id = ui.active /\ events.terminal = <<>>
    <3>1. ui.open => Len(commands) = 1
      BY <1>1 DEF PrintJobIsHeld
    <3>2. ui.open => commands' = <<>>
      BY <1>2, <3>1, EmptySeq
    <3>. QED  BY <1>1, <3>2 DEF PrintJobIsHeld
  <2>7. PrintJobIsHeld'
    BY <1>1, <2>3, <2>6 DEF PrintJobIsHeld
  <2>8. SpoolIsGood'
    BY <1>1, <1>4, <2>3, <2>6 DEF SpoolIsGood
  <2>9. ProgressGrows'
    <3>1. ~ui.open => events.progress = <<>>
      BY <1>1 DEF PrintJobIsHeld
    <3>. QED  BY <1>1, <2>3, <2>6, <3>1 DEF ProgressGrows
  <2>. QED  BY <2>4, <2>5, <2>7, <2>8, <2>9 DEF PrintIsGood
<1>. QED  BY <1>5, <1>6

\* A job that has come to its end holds its last event, which says what became of it.
LEMMA PrintEnding ==
  ASSUME PrintIsGood, worker.at \in {"start", "page"}, UNCHANGED <<ui, commands, shared, events>>,
         worker' \in PrintWorker, worker'.at = "send", worker'.job = worker.job,
         worker'.event.id = worker.job.id, worker'.event.kind # "none",
         output' \in PrintOutput,
         \A id \in 1..MaxJobs : id # worker.job.id => output'[id] = output[id],
         output'[worker.job.id].state # "spooling",
         ui.open => (worker'.event.kind = "Finished" <=> output'[worker.job.id].state = "printed")
  PROVE  PrintIsGood'
<1>1. /\ PrintTypes /\ PrintWorkerIsGood /\ PrintJobIsHeld /\ SpoolIsGood /\ ProgressGrows
  BY DEF PrintIsGood
<1>2. /\ worker.job.id # 0 /\ worker.job.id \in 1..MaxJobs /\ ui.next \in Int
      /\ ui.open => /\ worker.job.id = ui.active /\ commands = <<>> /\ events.terminal = <<>>
                    /\ worker.job.id < ui.next
  <2>1. worker.job.id \in 0..MaxJobs /\ ui.next \in Int
    BY <1>1 DEF PrintTypes, PrintWorker, PrintUi
  <2>2. worker.job.id # 0
    BY <1>1 DEF PrintWorkerIsGood
  <2>. QED  BY <1>1, <2>1, <2>2, JobsAssumption DEF PrintJobIsHeld
<1>3. PrintTypes'
  BY <1>1 DEF PrintTypes
<1>4. PrintWorkerIsGood' /\ PrintJobIsHeld'
  BY <1>1, <1>2 DEF PrintWorkerIsGood, PrintJobIsHeld
<1>5. SpoolIsGood'
  BY <1>1, <1>2 DEF SpoolIsGood
<1>6. ProgressGrows'
  BY <1>1, <1>2 DEF ProgressGrows
<1>. QED  BY <1>3, <1>4, <1>5, <1>6 DEF PrintIsGood

LEMMA PrintStart ==
  ASSUME PrintIsGood, Prints!Start
  PROVE  PrintIsGood'
<1>1. /\ PrintTypes /\ PrintWorkerIsGood /\ PrintJobIsHeld /\ SpoolIsGood /\ ProgressGrows
      /\ worker \in PrintWorker /\ output \in PrintOutput /\ worker.at = "start"
      /\ UNCHANGED <<ui, commands, shared, events>>
      /\ worker.job \in [id : 0..MaxJobs, pages : Nat \ {0}, copies : Nat \ {0}]
  BY DEF PrintIsGood, PrintTypes, Prints!Start, PrintWorker
<1>2. worker.job.id # 0 /\ worker.job.id \in 1..MaxJobs
  BY <1>1, JobsAssumption DEF PrintWorkerIsGood
<1>3. ASSUME NEW kind \in {"Failed", "Cancelled"}, NEW backend \in {"ready", "missing"},
             worker' = [Prints!Ending(kind) EXCEPT !.backend = backend], output' = output
      PROVE  PrintIsGood'
  <2>1. [kind |-> kind, id |-> worker.job.id] \in PrintEvent
    BY <1>2, JobsAssumption DEF PrintEvent
  <2>2. worker' = [[worker EXCEPT !.at = "send", !.event = [kind |-> kind, id |-> worker.job.id]]
                     EXCEPT !.backend = backend]
    BY <1>3 DEF Prints!Ending, Prints!Event, Prints!Job
  <2>3. /\ worker' \in PrintWorker /\ worker'.at = "send" /\ worker'.job = worker.job
        /\ worker'.event = [kind |-> kind, id |-> worker.job.id]
    BY <1>1, <2>1, <2>2 DEF PrintWorker
  <2>4. /\ output[worker.job.id].state # "spooling"
        /\ ui.open => output[worker.job.id].state = "none"
    BY <1>1, <1>2 DEF SpoolIsGood, PrintJobIsHeld
  <2>. QED  BY <1>1, <1>2, <1>3, <2>3, <2>4, PrintEnding
<1>4. ASSUME worker' = [worker EXCEPT !.at = "page", !.backend = "ready"],
             output' = [output EXCEPT ![worker.job.id] =
               [state |-> "spooling", pages |-> 0, deviceCopies |-> worker.job.copies]]
      PROVE  PrintIsGood'
  <2>1. worker' \in PrintWorker /\ worker'.at = "page" /\ worker'.job = worker.job
        /\ worker'.done = worker.done
    BY <1>1, <1>4 DEF PrintWorker
  <2>2. /\ output' \in PrintOutput /\ output'[worker.job.id].state = "spooling"
        /\ \A id \in 1..MaxJobs : id # worker.job.id => output'[id] = output[id]
    BY <1>1, <1>2, <1>4 DEF PrintOutput
  <2>3. PrintTypes'
    BY <1>1, <2>1, <2>2 DEF PrintTypes
  <2>4. Prints!Total' \in Nat \ {0} /\ worker'.done = 0
    <3>1. worker'.done = 0
      BY <1>1, <2>1 DEF PrintWorkerIsGood
    <3>2. Prints!Total' = Prints!Total
      BY <2>1 DEF Prints!Total, Prints!Job
    <3>. QED  BY <1>1, <3>1, <3>2, TotalType
  <2>5. Done' \in 0..100
    <3>1. \A total \in Nat \ {0} : (0 * 100) \div total \in 0..100
      OBVIOUS
    <3>. QED  BY <2>4, <3>1 DEF Done
  <2>6. PrintWorkerIsGood' /\ PrintJobIsHeld'
    BY <1>1, <1>2, <2>1, <2>4 DEF PrintWorkerIsGood, PrintJobIsHeld
  <2>7. SpoolIsGood'
    <3>1. ui.open => ui.active = worker.job.id /\ commands = <<>> /\ events.terminal = <<>>
                     /\ ui.active < ui.next
      BY <1>1, <1>2 DEF PrintJobIsHeld
    <3>2. ui.next \in Int /\ worker.job.id \in Int
      BY <1>1, <1>2 DEF PrintTypes, PrintUi
    <3>. QED  BY <1>1, <1>2, <2>1, <2>2, <3>1, <3>2 DEF SpoolIsGood
  <2>8. ProgressGrows'
    BY <1>1, <2>1, <2>5 DEF ProgressGrows
  <2>. QED  BY <2>3, <2>6, <2>7, <2>8 DEF PrintIsGood
<1>. QED
  BY <1>1, <1>3, <1>4 DEF Prints!Start, Prints!EarlyEnds, Prints!Job

\* Where the work is cut short, the document is aborted.
LEMMA PrintCut ==
  ASSUME PrintIsGood, worker.at = "page", UNCHANGED <<ui, commands, shared, events>>,
         NEW kind \in {"Failed", "Cancelled"},
         worker' = Prints!Ending(kind), output' = Prints!Aborting
  PROVE  PrintIsGood'
<1>1. /\ PrintTypes /\ PrintWorkerIsGood /\ PrintJobIsHeld /\ SpoolIsGood
      /\ worker \in PrintWorker /\ output \in PrintOutput
      /\ worker.job.id \in 0..MaxJobs
  BY DEF PrintIsGood, PrintTypes, PrintWorker
<1>2. worker.job.id # 0 /\ worker.job.id \in 1..MaxJobs
  BY <1>1, JobsAssumption DEF PrintWorkerIsGood
<1>3. [kind |-> kind, id |-> worker.job.id] \in PrintEvent
  BY <1>2, JobsAssumption DEF PrintEvent
<1>4. worker' = [worker EXCEPT !.at = "send", !.event = [kind |-> kind, id |-> worker.job.id]]
  BY DEF Prints!Ending, Prints!Event, Prints!Job
<1>5. /\ worker' \in PrintWorker /\ worker'.at = "send" /\ worker'.job = worker.job
      /\ worker'.event = [kind |-> kind, id |-> worker.job.id]
  BY <1>1, <1>3, <1>4 DEF PrintWorker
<1>6. output[worker.job.id].state = "spooling"
  BY <1>1 DEF SpoolIsGood
<1>7. output' = [output EXCEPT ![worker.job.id].state = "aborted"]
  BY <1>1, <1>2, <1>6 DEF Prints!Aborting, Prints!Job, PrintOutput
<1>8. /\ output' \in PrintOutput /\ output'[worker.job.id].state = "aborted"
      /\ \A id \in 1..MaxJobs : id # worker.job.id => output'[id] = output[id]
  BY <1>1, <1>2, <1>7 DEF PrintOutput
<1>. QED  BY <1>1, <1>2, <1>5, <1>8, PrintEnding

LEMMA PrintFinish ==
  ASSUME PrintIsGood, Prints!Finish
  PROVE  PrintIsGood'
<1>1. /\ PrintTypes /\ PrintWorkerIsGood /\ worker.at = "page"
      /\ worker \in PrintWorker /\ output \in PrintOutput /\ UNCHANGED <<ui, commands, shared, events>>
      /\ worker.job.id \in 0..MaxJobs
  BY DEF PrintIsGood, PrintTypes, PrintWorker, Prints!Finish
<1>2. ASSUME worker' = Prints!Ending("Finished"),
             output' = [output EXCEPT ![worker.job.id].state = "printed"]
      PROVE  PrintIsGood'
  <2>1. worker.job.id # 0 /\ worker.job.id \in 1..MaxJobs
    BY <1>1, JobsAssumption DEF PrintWorkerIsGood
  <2>2. [kind |-> "Finished", id |-> worker.job.id] \in PrintEvent
    BY <2>1, JobsAssumption DEF PrintEvent
  <2>3. worker' = [worker EXCEPT !.at = "send", !.event = [kind |-> "Finished", id |-> worker.job.id]]
    BY <1>2 DEF Prints!Ending, Prints!Event, Prints!Job
  <2>4. /\ worker' \in PrintWorker /\ worker'.at = "send" /\ worker'.job = worker.job
        /\ worker'.event = [kind |-> "Finished", id |-> worker.job.id]
    BY <1>1, <2>2, <2>3 DEF PrintWorker
  <2>5. /\ output' \in PrintOutput /\ output'[worker.job.id].state = "printed"
        /\ \A id \in 1..MaxJobs : id # worker.job.id => output'[id] = output[id]
    BY <1>1, <1>2, <2>1 DEF PrintOutput
  <2>. QED  BY <1>1, <2>1, <2>4, <2>5, PrintEnding
<1>. QED
  BY <1>1, <1>2, PrintCut DEF Prints!Finish, Prints!EarlyEnds, Prints!Job

LEMMA PrintNext ==
  ASSUME PrintIsGood, Prints!PrintNextPage
  PROVE  PrintIsGood'
<1>1. /\ PrintTypes /\ PrintWorkerIsGood /\ PrintJobIsHeld /\ SpoolIsGood /\ ProgressGrows
      /\ worker.at = "page" /\ worker.done < Prints!Total
      /\ worker \in PrintWorker /\ output \in PrintOutput /\ events \in PrintEvents
      /\ UNCHANGED <<ui, commands, shared>> /\ worker.job.id \in 0..MaxJobs /\ worker.done \in Nat
  BY DEF PrintIsGood, PrintTypes, PrintWorker, Prints!PrintNextPage
<1>2. /\ worker.job.id # 0 /\ worker.job.id \in 1..MaxJobs
      /\ ui.next \in 1..MaxJobs + 1 /\ ui.progress \in Int /\ ui.active \in Int
  <2>1. ui.next \in 1..MaxJobs + 1 /\ ui.progress \in Int /\ ui.active \in Int
    <3>1. ui \in PrintUi
      BY <1>1 DEF PrintTypes
    <3>. QED  BY <3>1, JobsAssumption DEF PrintUi
  <2>2. worker.job.id # 0 /\ worker.job.id \in 1..MaxJobs
    BY <1>1, JobsAssumption DEF PrintWorkerIsGood
  <2>. QED  BY <2>1, <2>2
<1>3. /\ Prints!Total \in Nat \ {0}
      /\ Done <= ((worker.done + 1) * 100) \div Prints!Total
      /\ Done \in 0..100 /\ ((worker.done + 1) * 100) \div Prints!Total \in 0..100
  BY <1>1, TotalType, PartsGrow DEF Done
<1>. DEFINE percent == ((worker.done + 1) * 100) \div Prints!Total
            progress == [kind |-> "Progress", id |-> worker.job.id, percent |-> percent]
<1>6. percent \in 0..100 /\ Done <= percent /\ Done \in Int
  BY <1>3
<1>4. ASSUME worker' = [worker EXCEPT !.done = @ + 1],
             output' = [output EXCEPT ![worker.job.id].pages = @ + 1],
             events' = IF ui.open /\ Len(events.progress) < ProgressCap
                       THEN [events EXCEPT !.progress = Append(@, progress)] ELSE events
      PROVE  PrintIsGood'
  <2>1. /\ worker' \in PrintWorker /\ worker'.at = "page" /\ worker'.job = worker.job
        /\ worker'.done = worker.done + 1
    BY <1>1, <1>4 DEF PrintWorker
  <2>2. Prints!Total' = Prints!Total /\ Done' = percent
    BY <2>1 DEF Prints!Total, Prints!Job, Done
  <2>3. /\ output' \in PrintOutput
        /\ \A id \in 1..MaxJobs : output'[id].state = output[id].state
    <3>1. output[worker.job.id] \in [state : {"none", "spooling", "printed", "aborted"},
                                     pages : Nat, deviceCopies : Nat]
      BY <1>1, <1>2 DEF PrintOutput
    <3>2. output[worker.job.id].pages + 1 \in Nat
      BY <3>1
    <3>3. output' = [output EXCEPT ![worker.job.id] =
                       [output[worker.job.id] EXCEPT !.pages = output[worker.job.id].pages + 1]]
      BY <1>4
    <3>4. /\ [output[worker.job.id] EXCEPT !.pages = output[worker.job.id].pages + 1]
               \in [state : {"none", "spooling", "printed", "aborted"}, pages : Nat, deviceCopies : Nat]
          /\ [output[worker.job.id] EXCEPT !.pages = output[worker.job.id].pages + 1].state
               = output[worker.job.id].state
      BY <3>1, <3>2
    <3>. QED  BY <1>1, <1>2, <3>3, <3>4 DEF PrintOutput
  <2>4. progress \in PrintProgress /\ progress.id = worker.job.id /\ progress.percent = percent
    BY <1>2, <1>3 DEF PrintProgress
  <2>. HIDE DEF progress, percent
  <2>5. /\ events.progress \in Seq(PrintProgress) /\ Len(events.progress) \in Nat
        /\ Len(events.progress) <= ProgressCap
        /\ \A i \in 1..Len(events.progress) :
             events.progress[i].id \in Int /\ events.progress[i].percent \in Int
    BY <1>1, PrintEventTypes DEF PrintTypes
  <2>6. PrintWorkerIsGood'
    BY <1>1, <1>2, <1>3, <2>1, <2>2 DEF PrintWorkerIsGood
  <2>9. ui.open => /\ ui.active = worker.job.id /\ ui.active < ui.next
                   /\ commands = <<>> /\ events.terminal = <<>>
    BY <1>1, <1>2 DEF PrintJobIsHeld
  <2>7. CASE events' = events
    <3>1. PrintTypes'
      BY <1>1, <2>1, <2>3, <2>7 DEF PrintTypes
    <3>2. PrintJobIsHeld'
      BY <1>1, <1>2, <2>1, <2>7 DEF PrintJobIsHeld
    <3>3. Done \in Int /\ Done' \in Int /\ Done <= Done'
      BY <1>6, <2>2
    <3>5. SpoolIsGood'
      BY <1>1, <1>2, <2>1, <2>3, <2>7, <2>9 DEF SpoolIsGood
    <3>4. ProgressGrows'
      <4>1. ui.open => ui.progress <= Done'
        BY <1>1, <1>2, <3>3 DEF ProgressGrows
      <4>2. ASSUME NEW i \in 1..Len(events.progress), events.progress[i].id = ui.active
            PROVE  events.progress[i].percent <= Done'
        <5>1. events.progress[i].percent \in Int /\ events.progress[i].percent <= Done
          BY <1>1, <2>5, <4>2 DEF ProgressGrows
        <5>. QED  BY <3>3, <5>1
      <4>. QED  BY <1>1, <2>1, <2>7, <4>1, <4>2 DEF ProgressGrows
    <3>. QED  BY <2>6, <3>1, <3>2, <3>4, <3>5 DEF PrintIsGood
  <2>8. CASE ui.open /\ Len(events.progress) < ProgressCap
             /\ events' = [events EXCEPT !.progress = Append(@, progress)]
    <3>1. /\ Append(events.progress, progress) \in Seq(PrintProgress)
          /\ Len(Append(events.progress, progress)) = Len(events.progress) + 1
          /\ \A i \in 1..Len(events.progress) : Append(events.progress, progress)[i] = events.progress[i]
          /\ Append(events.progress, progress)[Len(events.progress) + 1] = progress
      BY <2>4, <2>5, AppendType
    <3>2. /\ events' \in PrintEvents /\ events'.terminal = events.terminal
          /\ events'.progress = Append(events.progress, progress)
      BY <1>1, <2>8, <3>1 DEF PrintEvents
    <3>3. Len(events'.progress) <= ProgressCap
      BY <2>5, <2>8, <3>1, <3>2, JobsAssumption
    <3>4. PrintTypes'
      BY <1>1, <2>1, <2>3, <3>2, <3>3 DEF PrintTypes
    <3>5. PrintJobIsHeld'
      BY <1>1, <1>2, <2>1, <2>8, <3>2 DEF PrintJobIsHeld
    <3>8. SpoolIsGood'
      <4>1. ui.next..MaxJobs \subseteq 1..MaxJobs
        BY <1>2
      <4>2. \A id \in ui.next..MaxJobs : output'[id].state = "none"
        BY <1>1, <2>3, <2>8, <4>1 DEF SpoolIsGood
      <4>. QED  BY <1>1, <1>2, <2>1, <2>3, <2>8, <2>9, <3>2, <4>2 DEF SpoolIsGood
    <3>6. /\ Done \in Int /\ Done' \in Int /\ Done <= Done' /\ ui.progress \in Int
          /\ ui.active = worker.job.id /\ ui.active < ui.next /\ commands = <<>>
      BY <1>2, <1>6, <2>2, <2>8, <2>9
    <3>7. ProgressGrows'
      <4>1. ASSUME NEW i \in 1..Len(events.progress), events.progress[i].id = ui.active
            PROVE  /\ ui.progress <= events.progress[i].percent /\ events.progress[i].percent <= Done'
        <5>1. events.progress[i].percent \in Int
          BY <2>5
        <5>2. ui.progress <= events.progress[i].percent /\ events.progress[i].percent <= Done
          BY <1>1, <4>1 DEF ProgressGrows
        <5>. QED  BY <3>6, <5>1, <5>2
      <4>2. ui.progress <= Done'
        BY <1>1, <2>8, <3>6 DEF ProgressGrows
      <4>3. progress.percent = Done' /\ progress.id = ui.active
        BY <2>2, <2>4, <3>6
      <4>4. ASSUME NEW i \in 1..Len(events'.progress)
            PROVE  /\ events'.progress[i].id < ui.next
                   /\ events'.progress[i].id = ui.active =>
                        ui.progress <= events'.progress[i].percent /\ events'.progress[i].percent <= Done'
        <5>1. CASE i \in 1..Len(events.progress)
          BY <1>1, <3>1, <3>2, <4>1, <5>1 DEF ProgressGrows
        <5>2. CASE i = Len(events.progress) + 1
          BY <3>1, <3>2, <3>6, <4>2, <4>3, <5>2
        <5>. QED  BY <2>5, <3>1, <3>2, <5>1, <5>2
      <4>5. ASSUME NEW i \in 1..Len(events'.progress), NEW j \in i..Len(events'.progress),
                   events'.progress[i].id = ui.active, events'.progress[j].id = ui.active
            PROVE  events'.progress[i].percent <= events'.progress[j].percent
        <5>1. CASE j \in 1..Len(events.progress)
          <6>1. i \in 1..Len(events.progress) /\ j \in i..Len(events.progress)
            BY <2>5, <3>1, <3>2, <5>1
          <6>. QED  BY <1>1, <3>1, <3>2, <4>5, <5>1, <6>1 DEF ProgressGrows
        <5>2. CASE j = Len(events.progress) + 1
          BY <3>1, <3>2, <4>3, <4>4, <4>5, <5>2
        <5>. QED  BY <2>5, <3>1, <3>2, <5>1, <5>2
      <4>6. \A i \in 1..Len(events'.progress) :
              /\ events'.progress[i].id < ui.next
              /\ events'.progress[i].id = ui.active =>
                   /\ ui.progress <= events'.progress[i].percent
                   /\ events'.progress[i].percent <= Done'
                   /\ commands = <<>> /\ worker'.at # "start"
                   /\ \A j \in i..Len(events'.progress) : events'.progress[j].id = ui.active
                        => events'.progress[i].percent <= events'.progress[j].percent
        BY <2>1, <3>6, <4>4, <4>5
      <4>. QED  BY <1>1, <2>1, <3>6, <4>2, <4>6 DEF ProgressGrows
    <3>. QED  BY <2>6, <3>4, <3>5, <3>7, <3>8 DEF PrintIsGood
  <2>. QED  BY <1>4, <2>7, <2>8
<1>5. ASSUME NEW kind \in {"Failed", "Cancelled"}, worker' = Prints!Ending(kind),
             output' = Prints!Aborting, events' = events
      PROVE  PrintIsGood'
  BY <1>1, <1>5, PrintCut
<1>. QED
  BY <1>1, <1>4, <1>5 DEF Prints!PrintNextPage, Prints!EarlyEnds, Prints!Job

LEMMA PrintSend ==
  ASSUME PrintIsGood, Prints!Send
  PROVE  PrintIsGood'
<1>1. /\ PrintTypes /\ PrintWorkerIsGood /\ PrintJobIsHeld /\ SpoolIsGood /\ ProgressGrows
      /\ worker.at = "send" /\ worker \in PrintWorker /\ events \in PrintEvents
      /\ UNCHANGED <<ui, commands, shared, output>>
      /\ worker' = [worker EXCEPT !.at = "head", !.event = [kind |-> "none", id |-> 0],
                                  !.job = [id |-> 0, pages |-> 1, copies |-> 1], !.done = 0]
      /\ events' = IF ui.open THEN [events EXCEPT !.terminal = Append(@, worker.event)] ELSE events
  BY DEF PrintIsGood, PrintTypes, Prints!Send, Prints!NoEvent, Prints!Event, Prints!NoJob
<1>2. /\ worker.job.id # 0 /\ worker.event.id = worker.job.id /\ worker.event \in PrintEvent
      /\ worker.event.kind # "none"
  BY <1>1 DEF PrintWorkerIsGood, PrintWorker
<1>3. worker' \in PrintWorker /\ worker'.at = "head" /\ worker'.job.id = 0
  <2>1. /\ [kind |-> "none", id |-> 0] \in PrintEvent
        /\ [id |-> 0, pages |-> 1, copies |-> 1] \in
             [id : 0..MaxJobs, pages : Nat \ {0}, copies : Nat \ {0}]
    BY JobsAssumption DEF PrintEvent
  <2>. QED  BY <1>1, <2>1 DEF PrintWorker
<1>4. PrintWorkerIsGood'
  BY <1>3 DEF PrintWorkerIsGood
<1>5. /\ \A id \in 1..MaxJobs : output[id].state # "spooling"
      /\ ui.open => (worker.event.kind = "Finished" <=> output[ui.active].state = "printed")
  BY <1>1, <1>2 DEF SpoolIsGood
<1>6. CASE ~ui.open
  <2>1. events' = events
    BY <1>1, <1>6
  <2>2. PrintTypes'
    BY <1>1, <1>3, <2>1 DEF PrintTypes
  <2>. QED
    BY <1>1, <1>3, <1>4, <1>5, <1>6, <2>1, <2>2
    DEF PrintIsGood, PrintJobIsHeld, SpoolIsGood, ProgressGrows
<1>7. CASE ui.open
  <2>1. /\ events.terminal = <<>> /\ commands = <<>> /\ worker.job.id = ui.active /\ ui.active # 0
        /\ events.terminal \in Seq(PrintEvent)
    BY <1>1, <1>2, <1>7, PrintEventTypes DEF PrintJobIsHeld
  <2>2. /\ Append(events.terminal, worker.event) \in Seq(PrintEvent)
        /\ Len(Append(events.terminal, worker.event)) = 1
        /\ Append(events.terminal, worker.event)[1] = worker.event
        /\ Append(events.terminal, worker.event) # <<>>
    BY <1>2, <2>1
  <2>3. /\ events' \in PrintEvents /\ events'.progress = events.progress
        /\ events'.terminal = Append(events.terminal, worker.event)
    BY <1>1, <1>7, <2>2 DEF PrintEvents
  <2>4. PrintTypes'
    BY <1>1, <1>3, <2>3 DEF PrintTypes
  <2>5. PrintJobIsHeld'
    BY <1>1, <1>2, <1>3, <1>7, <2>1, <2>2, <2>3 DEF PrintJobIsHeld
  <2>6. SpoolIsGood'
    BY <1>1, <1>3, <1>5, <1>7, <2>1, <2>2, <2>3 DEF SpoolIsGood
  <2>7. ProgressGrows'
    BY <1>1, <1>3, <1>7, <2>1, <2>3 DEF ProgressGrows
  <2>. QED  BY <1>4, <2>4, <2>5, <2>6, <2>7 DEF PrintIsGood
<1>. QED  BY <1>6, <1>7

\* Every step keeps the invariant and lets the progress only grow.
LEMMA PrintStep ==
  ASSUME PrintIsGood, Prints!Worker \/ Prints!HandlePrintEvent \/ Prints!User \/ UNCHANGED vars
  PROVE  /\ PrintIsGood'
         /\ ui.active # 0 /\ ui'.active = ui.active => ui'.progress >= ui.progress
<1>1. ui.progress \in Int /\ ui.active < ui.next /\ ui.active \in Int /\ ui.next \in Int /\ ui \in PrintUi
  <2>1. ui \in PrintUi
    BY DEF PrintIsGood, PrintTypes
  <2>2. ui.active < ui.next
    BY DEF PrintIsGood, PrintJobIsHeld
  <2>3. ui.active \in 0..MaxJobs /\ ui.next \in 1..MaxJobs + 1 /\ ui.progress \in 0..100
    BY <2>1 DEF PrintUi
  <2>. QED  BY <2>1, <2>2, <2>3, JobsAssumption
<1>2. CASE Prints!Worker
  <2>1. ui' = ui
    BY <1>2 DEF Prints!Worker, Prints!LookAtShutdown, Prints!Receive, Prints!Start,
                Prints!PrintNextPage, Prints!Finish, Prints!Send
  <2>. QED
    BY <1>1, <1>2, <2>1, PrintLook, PrintReceive, PrintStart, PrintNext, PrintFinish, PrintSend
    DEF Prints!Worker
<1>3. ASSUME NEW pages \in PageCounts, NEW copies \in CopyCounts, Prints!ConfirmPrint(pages, copies)
      PROVE  PrintIsGood' /\ ui.active = 0
  BY <1>3, PrintConfirm DEF Prints!ConfirmPrint
<1>4. CASE Prints!CancelPrint
  <2>1. ui' = ui
    BY <1>4 DEF Prints!CancelPrint
  <2>. QED  BY <1>1, <1>4, <2>1, PrintCancel
<1>5. CASE Prints!Exit
  <2>1. ui'.progress = ui.progress
    BY <1>1, <1>5 DEF Prints!Exit, PrintUi
  <2>. QED  BY <1>1, <1>5, <2>1, PrintExit
<1>6. CASE UNCHANGED vars
  <2>1. ui' = ui
    BY <1>6 DEF vars
  <2>. QED  BY <1>1, <1>6, <2>1, PrintStutter
<1>. QED  BY <1>2, <1>3, <1>4, <1>5, <1>6, PrintPump DEF Prints!User

LEMMA OneOfThree ==
  ASSUME NEW a \in BOOLEAN, NEW b \in BOOLEAN, NEW c \in BOOLEAN, a \/ b \/ c,
         ~(a /\ b), ~(a /\ c), ~(b /\ c)
  PROVE  \E p \in 1..3 : {q \in 1..3 : <<a, b, c>>[q]} = {p}
<1>1. \A f : f[1] = TRUE /\ f[2] = FALSE /\ f[3] = FALSE => {q \in 1..3 : f[q]} = {1}
  OBVIOUS
<1>2. \A f : f[1] = FALSE /\ f[2] = TRUE /\ f[3] = FALSE => {q \in 1..3 : f[q]} = {2}
  OBVIOUS
<1>3. \A f : f[1] = FALSE /\ f[2] = FALSE /\ f[3] = TRUE => {q \in 1..3 : f[q]} = {3}
  OBVIOUS
<1>4. <<a, b, c>>[1] = a /\ <<a, b, c>>[2] = b /\ <<a, b, c>>[3] = c
  OBVIOUS
<1>5. 1 \in 1..3 /\ 2 \in 1..3 /\ 3 \in 1..3
  OBVIOUS
<1>6. \/ a = TRUE /\ b = FALSE /\ c = FALSE
      \/ a = FALSE /\ b = TRUE /\ c = FALSE
      \/ a = FALSE /\ b = FALSE /\ c = TRUE
  OBVIOUS
<1>. QED  BY <1>1, <1>2, <1>3, <1>4, <1>5, <1>6, Zenon

LEMMA NoneOfThree ==
  ASSUME NEW a \in BOOLEAN, NEW b \in BOOLEAN, NEW c \in BOOLEAN, ~a, ~b, ~c
  PROVE  {q \in 1..3 : <<a, b, c>>[q]} = {}
<1>1. \A f : f[1] = FALSE /\ f[2] = FALSE /\ f[3] = FALSE => {q \in 1..3 : f[q]} = {}
  OBVIOUS
<1>2. <<a, b, c>>[1] = FALSE /\ <<a, b, c>>[2] = FALSE /\ <<a, b, c>>[3] = FALSE
  OBVIOUS
<1>. QED  BY <1>1, <1>2, Zenon

LEMMA PrintPromise ==
  PrintIsGood => Prints!TypeOK /\ Prints!JobIsSomewhere /\ Prints!IdleIsAccepting /\ Prints!OutcomeIsTrue
<1>. SUFFICES ASSUME PrintIsGood
     PROVE  Prints!TypeOK /\ Prints!JobIsSomewhere /\ Prints!IdleIsAccepting /\ Prints!OutcomeIsTrue
  OBVIOUS
<1>1. /\ PrintTypes /\ PrintWorkerIsGood /\ PrintJobIsHeld /\ SpoolIsGood
      /\ ui \in PrintUi /\ worker \in PrintWorker /\ events \in PrintEvents
      /\ commands \in Seq(PrintCommand) /\ Len(commands) <= CommandCap
      /\ Len(events.progress) <= ProgressCap /\ events.terminal \in Seq(PrintEvent)
  BY PrintEventTypes DEF PrintIsGood, PrintTypes
<1>2. events.terminal = <<>> \/ Len(events.terminal) = 1
  BY <1>1 DEF PrintJobIsHeld
<1>3. Prints!TypeOK
  <2>1. Len(events.terminal) <= 1
    <3>1. Len(<<>>) <= 1 /\ 1 <= 1
      OBVIOUS
    <3>. QED  BY <1>2, <3>1, Zenon
  <2>2. shared.cancelled \subseteq 1..MaxJobs
    BY <1>1 DEF PrintTypes
  <2>3. ui.active \in 0..MaxJobs /\ ui.next \in 1..MaxJobs + 1 /\ ui.progress \in 0..100
    BY <1>1 DEF PrintUi
  <2>. QED  BY <1>1, <2>1, <2>2, <2>3 DEF Prints!TypeOK, Prints!Ids, PrintWorker
<1>4. Prints!JobIsSomewhere
  <2>1. ASSUME ui.open, NEW id \in 1..MaxJobs
        PROVE  LET places == {p \in 1..3 : <<Prints!StartQueued(id), Prints!InHand(id),
                                             Prints!EndOnItsWay(id)>>[p]}
               IN  IF ui.active = id THEN \E p \in 1..3 : places = {p} ELSE places = {}
    <3>1. Prints!StartQueued(id) <=> commands # <<>> /\ ui.active = id
      BY <1>1, <2>1 DEF Prints!StartQueued, PrintJobIsHeld
    <3>2. Prints!InHand(id) <=> worker.job.id # 0 /\ ui.active = id
      BY <1>1, <2>1 DEF Prints!InHand, PrintJobIsHeld
    <3>3. Prints!EndOnItsWay(id) <=> events.terminal # <<>> /\ ui.active = id
      BY <1>1, <1>2, <2>1 DEF Prints!EndOnItsWay, PrintJobIsHeld
    <3>4. /\ Prints!StartQueued(id) \in BOOLEAN /\ Prints!InHand(id) \in BOOLEAN
          /\ Prints!EndOnItsWay(id) \in BOOLEAN
      BY DEF Prints!StartQueued, Prints!InHand, Prints!EndOnItsWay
    <3>5. CASE ui.active = id
      <4>1. /\ ~(Prints!StartQueued(id) /\ Prints!InHand(id))
            /\ ~(Prints!StartQueued(id) /\ Prints!EndOnItsWay(id))
            /\ ~(Prints!InHand(id) /\ Prints!EndOnItsWay(id))
            /\ Prints!StartQueued(id) \/ Prints!InHand(id) \/ Prints!EndOnItsWay(id)
        BY <1>1, <2>1, <3>1, <3>2, <3>3, <3>5 DEF PrintJobIsHeld
      <4>. QED  BY <3>4, <3>5, <4>1, OneOfThree
    <3>6. CASE ui.active # id
      BY <3>1, <3>2, <3>3, <3>4, <3>6, NoneOfThree
    <3>. QED  BY <3>5, <3>6
  <2>. QED  BY <2>1 DEF Prints!JobIsSomewhere, Prints!Ids
<1>5. Prints!IdleIsAccepting
  BY <1>1 DEF Prints!IdleIsAccepting, PrintJobIsHeld
<1>6. Prints!OutcomeIsTrue
  <2>1. ASSUME NEW i \in DOMAIN events.terminal
        PROVE  events.terminal[i].kind = "Finished" <=> output[events.terminal[i].id].state = "printed"
    <3>1. i = 1 /\ events.terminal # <<>>
      BY <1>1, <1>2, <2>1
    <3>. QED  BY <1>1, <3>1 DEF PrintJobIsHeld, SpoolIsGood
  <2>. QED  BY <1>1, <2>1 DEF Prints!OutcomeIsTrue, SpoolIsGood, Prints!InHand, Prints!Ids
<1>. QED  BY <1>3, <1>4, <1>5, <1>6

-----------------------------------------------------------------------------
(* Updates *)

UpdateUi ==
  [open : BOOLEAN, state : {"ready", "checking", "available", "downloading", "verified",
                            "installing", "current", "error"},
   release : 0..MaxStamp, check : 0..MaxJobs, next : 1..MaxJobs + 1, installed : BOOLEAN]
UpdateCommand ==
  [do : {"none", "Check", "Download", "Install", "Shutdown"}, id : 0..MaxJobs, release : 0..MaxStamp]
UpdateEvent ==
  [kind : {"none", "UpToDate", "Available", "Downloaded", "InstallerStarted", "Error"},
   release : 0..MaxStamp]
UpdateWorker ==
  [at : {"none", "head", "Check", "ask", "backoff", "Download", "download", "verified", "rename",
         "Install", "Shutdown", "send", "ended"},
   command : UpdateCommand, attempt : Nat, event : UpdateEvent]
UpdateOutput ==
  [latest : 0..MaxStamp, installers : SUBSET (0..MaxStamp), partial : BOOLEAN,
   launched : SUBSET [release : 0..MaxStamp, whole : BOOLEAN]]

UpdateTypes ==
  /\ ui \in UpdateUi /\ commands \in Seq(UpdateCommand)
  /\ shared \in [stop : BOOLEAN, cancelled : SUBSET (0..MaxJobs)]
  /\ worker \in UpdateWorker /\ events \in Seq(UpdateEvent) /\ output \in UpdateOutput

Checks == {"Check", "ask", "backoff"}
Downloads == {"Download", "download", "verified", "rename"}

\* What a request does, and for which release
UpdateAsks(do, release) ==
  \/ do = "Check" /\ ui.state = "checking"
  \/ do = "Download" /\ ui.state = "downloading" /\ release = ui.release
  \/ do = "Install" /\ ui.state = "installing" /\ release = ui.release

\* An answer is to what was asked last.
UpdateAnswers(event) ==
  \/ event.kind = "Error"
  \/ ui.state = "checking" /\ event.kind = "UpToDate"
  \/ ui.state = "checking" /\ event.kind = "Available" /\ event.release \in 1..output.latest
  \/ ui.state = "downloading" /\ event.kind = "Downloaded" /\ event.release = ui.release
  \/ ui.state = "installing" /\ event.kind = "InstallerStarted"

\* The one request of the controller is at one place, and fits its state.
UpdateIsUnderWay ==
  /\ ui.state \in {"available", "downloading", "verified", "installing"} <=> ui.release # 0
  /\ Len(commands) <= 2 /\ Len(events) <= 1
  /\ ~ui.open => shared.stop
  /\ ui.open =>
       /\ ~shared.stop /\ worker.at # "ended" /\ Len(commands) <= 1
       /\ ~Update!Busy => commands = <<>> /\ events = <<>> /\ worker.at = "head"
       /\ Update!Busy => commands # <<>> \/ events # <<>> \/ worker.at # "head"
       /\ commands # <<>> => events = <<>> /\ worker.at = "head"
       /\ events # <<>> => worker.at = "head"
       /\ commands # <<>> => UpdateAsks(commands[1].do, commands[1].release)
       /\ worker.at \in Checks => UpdateAsks("Check", worker.command.release)
       /\ worker.at \in Downloads => UpdateAsks("Download", worker.command.release)
       /\ worker.at = "Install" => UpdateAsks("Install", worker.command.release)
       /\ worker.at = "send" => UpdateAnswers(worker.event)
       /\ events # <<>> => UpdateAnswers(events[1])

\* The worker is where its command says, a partial file is that of its download,
\* and a check has the flag of the last one.
UpdateWorkerIsGood ==
  /\ worker.at \notin {"none", "Shutdown"}
  /\ output.partial => worker.at \in {"download", "verified", "rename"}
  /\ \A i \in 1..Len(commands) : commands[i].do = "Check" => commands[i].id = ui.check
  /\ worker.at \in Checks => worker.command.id = ui.check
  /\ \A i \in 1..Len(events) : events[i].kind = "Available" => events[i].release <= output.latest

\* What is started is whole, and what was asked for; the application then ends.
LaunchIsGood ==
  /\ \A l \in output.launched : l.whole /\ l.release = ui.release
  /\ ui.open /\ output.launched # {} =>
       /\ ui.state = "installing" /\ worker.at \in {"send", "head"} /\ commands = <<>>
       /\ worker.at = "send" => worker.event.kind = "InstallerStarted"
       /\ events # <<>> => events[1].kind = "InstallerStarted"

UpdatesAreGood == UpdateTypes /\ UpdateIsUnderWay /\ UpdateWorkerIsGood /\ LaunchIsGood

LEMMA UpdateInit == Update!Init => UpdatesAreGood
<1>. SUFFICES ASSUME Update!Init
     PROVE  UpdatesAreGood
  OBVIOUS
<1>1. /\ \E installed \in BOOLEAN :
           ui = [open |-> TRUE, state |-> "ready", release |-> 0, check |-> 0, next |-> 1,
                 installed |-> installed]
      /\ commands = <<>> /\ events = <<>> /\ shared = [stop |-> FALSE, cancelled |-> {}]
      /\ worker = [at |-> "head", command |-> [do |-> "none", id |-> 0, release |-> 0],
                   attempt |-> 0, event |-> [kind |-> "none", release |-> 0]]
      /\ \E latest \in {0, 1}, left \in SUBSET {1} :
           output = [latest |-> latest, installers |-> left, partial |-> FALSE, launched |-> {}]
  BY DEF Update!Init, Update!NoCommand, Update!NoEvent, Update!Event
<1>2. 0 \in 0..MaxJobs /\ 0 \in 0..MaxStamp /\ 1 \in 0..MaxStamp /\ 1 \in 1..MaxJobs + 1
  BY JobsAssumption
<1>3. ui \in UpdateUi /\ ui.state = "ready" /\ ui.release = 0 /\ ui.open
  BY <1>1, <1>2 DEF UpdateUi
<1>4. worker \in UpdateWorker /\ worker.at = "head"
  <2>1. /\ [do |-> "none", id |-> 0, release |-> 0] \in UpdateCommand
        /\ [kind |-> "none", release |-> 0] \in UpdateEvent
    BY <1>2 DEF UpdateCommand, UpdateEvent
  <2>. QED  BY <1>1, <2>1 DEF UpdateWorker
<1>5. output \in UpdateOutput /\ output.launched = {} /\ ~output.partial
  <2>1. PICK latest \in {0, 1}, left \in SUBSET {1} :
          output = [latest |-> latest, installers |-> left, partial |-> FALSE, launched |-> {}]
    BY <1>1
  <2>2. latest \in 0..MaxStamp /\ left \in SUBSET (0..MaxStamp)
    BY <1>2, <2>1
  <2>. QED  BY <2>1, <2>2 DEF UpdateOutput
<1>6. shared \in [stop : BOOLEAN, cancelled : SUBSET (0..MaxJobs)] /\ ~shared.stop
  BY <1>1
<1>7. Len(commands) = 0 /\ Len(events) = 0
  BY <1>1
<1>8. UpdateTypes
  BY <1>1, <1>3, <1>4, <1>5, <1>6 DEF UpdateTypes
<1>9. UpdateIsUnderWay
  BY <1>1, <1>3, <1>4, <1>6, <1>7 DEF UpdateIsUnderWay, Update!Busy, Checks, Downloads
<1>10. UpdateWorkerIsGood /\ LaunchIsGood
  BY <1>1, <1>4, <1>5, <1>7 DEF UpdateWorkerIsGood, LaunchIsGood, Checks
<1>. QED  BY <1>8, <1>9, <1>10 DEF UpdatesAreGood

LEMMA UpdateStutter == UpdatesAreGood /\ UNCHANGED vars => UpdatesAreGood'
  BY DEF vars, UpdatesAreGood, UpdateTypes, UpdateIsUnderWay, UpdateWorkerIsGood, LaunchIsGood,
         UpdateAsks, UpdateAnswers, Update!Busy

\* What the worker does between taking a request and sending the answer.
LEMMA UpdateWork ==
  ASSUME UpdatesAreGood, UNCHANGED <<ui, commands, shared, events>>,
         worker.at \in Checks \cup Downloads \cup {"Install"},
         worker' \in UpdateWorker, worker'.command = worker.command,
         output' \in UpdateOutput, output'.latest = output.latest,
         output'.partial => worker'.at \in {"download", "verified", "rename"},
         \/ worker.at \in Checks /\ worker'.at \in Checks
         \/ worker.at \in Downloads /\ worker'.at \in Downloads
         \/ worker'.at = "send" /\ (ui.open => UpdateAnswers(worker'.event))
  PROVE  UpdateTypes' /\ UpdateIsUnderWay' /\ UpdateWorkerIsGood'
<1>1. /\ UpdateTypes /\ UpdateIsUnderWay /\ UpdateWorkerIsGood
      /\ ui' = ui /\ commands' = commands /\ shared' = shared /\ events' = events
      /\ Update!Busy' = Update!Busy
  BY DEF UpdatesAreGood, Update!Busy
<1>2. worker.at # "head" /\ worker.at # "ended" /\ worker.at # "send"
  BY DEF Checks, Downloads
<1>3. /\ worker'.at # "head" /\ worker'.at # "ended" /\ worker'.at # "none"
      /\ worker'.at # "Shutdown" /\ worker'.at # "Install"
  BY DEF Checks, Downloads
<1>4. \A do, release : UpdateAsks(do, release)' = UpdateAsks(do, release)
  BY <1>1 DEF UpdateAsks
<1>5. \A event : UpdateAnswers(event)' = UpdateAnswers(event)
  BY <1>1 DEF UpdateAnswers
<1>6. UpdateTypes'
  BY <1>1 DEF UpdateTypes
<1>7. ui.open =>
        /\ worker'.at \in Checks => UpdateAsks("Check", worker'.command.release)
        /\ worker'.at \in Downloads => UpdateAsks("Download", worker'.command.release)
        /\ worker'.at = "send" => UpdateAnswers(worker'.event)
  BY <1>1, <1>2 DEF UpdateIsUnderWay, Checks, Downloads
<1>8. UpdateIsUnderWay'
  BY <1>1, <1>2, <1>3, <1>4, <1>5, <1>7 DEF UpdateIsUnderWay, UpdateAsks, UpdateAnswers
<1>9. UpdateWorkerIsGood'
  BY <1>1, <1>3 DEF UpdateWorkerIsGood, Checks, Downloads
<1>. QED  BY <1>6, <1>8, <1>9

LEMMA UpdateWorks ==
  ASSUME UpdatesAreGood, UpdateTypes' /\ UpdateIsUnderWay' /\ UpdateWorkerIsGood',
         UNCHANGED <<ui, commands, shared, events>>,
         worker.at \in Checks \cup Downloads \cup {"Install"}, output'.launched = output.launched
  PROVE  UpdatesAreGood'
<1>1. worker.at # "head" /\ worker.at # "send"
  BY DEF Checks, Downloads
<1>. QED  BY <1>1 DEF UpdatesAreGood, LaunchIsGood

\* The values that the worker's steps give it.
LEMMA UpdateWorkerTypes ==
  ASSUME worker \in UpdateWorker
  PROVE  /\ \A at \in {"head", "Check", "ask", "backoff", "download", "verified", "rename", "ended"} :
              /\ [worker EXCEPT !.at = at] \in UpdateWorker
              /\ [worker EXCEPT !.at = at].at = at
              /\ [worker EXCEPT !.at = at].command = worker.command
         /\ \A event \in UpdateEvent :
              /\ [worker EXCEPT !.at = "send", !.event = event] \in UpdateWorker
              /\ [worker EXCEPT !.at = "send", !.event = event].at = "send"
              /\ [worker EXCEPT !.at = "send", !.event = event].event = event
              /\ [worker EXCEPT !.at = "send", !.event = event].command = worker.command
         /\ worker.command.release \in 0..MaxStamp /\ worker.command.id \in 0..MaxJobs
         /\ [kind |-> "Error", release |-> 0] \in UpdateEvent
<1>1. worker.command \in UpdateCommand
  BY DEF UpdateWorker
<1>2. 0 \in 0..MaxStamp
  BY JobsAssumption
<1>. QED  BY <1>1, <1>2 DEF UpdateWorker, UpdateCommand, UpdateEvent

LEMMA UpdateFails ==
  ASSUME UpdatesAreGood, UNCHANGED <<ui, commands, shared, events, output>>,
         worker.at \in Checks \cup Downloads \cup {"Install"}, ~output.partial, Update!Failed
  PROVE  UpdatesAreGood'
<1>1. /\ worker \in UpdateWorker /\ output \in UpdateOutput
      /\ worker' = [worker EXCEPT !.at = "send", !.event = [kind |-> "Error", release |-> 0]]
  BY DEF UpdatesAreGood, UpdateTypes, Update!Failed, Update!Answer, Update!Event
<1>5. /\ worker' \in UpdateWorker /\ worker'.at = "send" /\ worker'.command = worker.command
      /\ worker'.event = [kind |-> "Error", release |-> 0]
  BY <1>1, UpdateWorkerTypes, Zenon
<1>2. worker'.event.kind = "Error"
  BY <1>5
<1>3. UpdateAnswers(worker'.event)
  BY <1>2 DEF UpdateAnswers
<1>4. UpdateTypes' /\ UpdateIsUnderWay' /\ UpdateWorkerIsGood'
  BY <1>1, <1>3, <1>5, UpdateWork
<1>. QED  BY <1>4, UpdateWorks

LEMMA UpdateGoesOn ==
  ASSUME UpdatesAreGood, UNCHANGED <<ui, commands, shared, events>>,
         worker' \in UpdateWorker, worker'.command = worker.command,
         output' \in UpdateOutput, output'.latest = output.latest,
         output'.launched = output.launched,
         output'.partial => worker'.at \in {"download", "verified", "rename"},
         \/ worker.at \in Checks /\ worker'.at \in Checks
         \/ worker.at \in Downloads /\ worker'.at \in Downloads
         \/ /\ worker.at \in Checks \cup Downloads \cup {"Install"}
            /\ worker'.at = "send" /\ (ui.open => UpdateAnswers(worker'.event))
  PROVE  UpdatesAreGood'
<1>1. worker.at \in Checks \cup Downloads \cup {"Install"}
  OBVIOUS
<1>2. UpdateTypes' /\ UpdateIsUnderWay' /\ UpdateWorkerIsGood'
  BY <1>1, UpdateWork
<1>. QED  BY <1>1, <1>2, UpdateWorks

LEMMA UpdateChecks ==
  ASSUME UpdatesAreGood,
         \/ Update!Check \/ Update!Asked \/ (\E network \in BOOLEAN : Update!AskFails(network))
         \/ Update!Backoff
  PROVE  UpdatesAreGood'
<1>1. /\ worker \in UpdateWorker /\ output \in UpdateOutput
      /\ UpdateTypes /\ UpdateIsUnderWay /\ UpdateWorkerIsGood /\ LaunchIsGood
  BY DEF UpdatesAreGood, UpdateTypes
<1>2. worker.at \in Checks /\ UNCHANGED <<ui, commands, shared, events, output>>
  BY DEF Update!Check, Update!Asked, Update!AskFails, Update!Backoff, Checks
<1>3. ~output.partial
  BY <1>1, <1>2 DEF UpdateWorkerIsGood, Checks
<1>4. CASE Update!Failed
  BY <1>2, <1>3, <1>4, UpdateFails
<1>5. ASSUME NEW at \in {"ask", "Check"}, Update!Goes(at)
      PROVE  UpdatesAreGood'
  <2>1. worker' \in UpdateWorker /\ worker'.at = at /\ worker'.command = worker.command
    BY <1>1, <1>5, UpdateWorkerTypes DEF Update!Goes
  <2>2. worker'.at \in Checks
    BY <2>1 DEF Checks
  <2>. QED  BY <1>1, <1>2, <1>3, <2>1, <2>2, UpdateGoesOn
<1>6. CASE worker' = [worker EXCEPT !.at = "backoff", !.attempt = @ + 1]
  <2>1. worker.attempt \in Nat /\ worker.attempt + 1 \in Nat
    BY <1>1 DEF UpdateWorker
  <2>2. worker' \in UpdateWorker /\ worker'.at = "backoff" /\ worker'.command = worker.command
    BY <1>1, <1>6, <2>1 DEF UpdateWorker
  <2>3. worker'.at \in Checks
    BY <2>2 DEF Checks
  <2>. QED  BY <1>1, <1>2, <1>3, <2>2, <2>3, UpdateGoesOn
<1>7. ASSUME worker.at = "ask", output.latest = 0, Update!Answer("UpToDate", 0)
      PROVE  UpdatesAreGood'
  <2>1. [kind |-> "UpToDate", release |-> 0] \in UpdateEvent
    BY JobsAssumption DEF UpdateEvent
  <2>2. /\ worker' \in UpdateWorker /\ worker'.at = "send" /\ worker'.command = worker.command
        /\ worker'.event = [kind |-> "UpToDate", release |-> 0]
    BY <1>1, <1>7, <2>1, UpdateWorkerTypes DEF Update!Answer, Update!Event
  <2>3. ui.open => UpdateAnswers(worker'.event)
    BY <1>1, <1>7, <2>2 DEF UpdateIsUnderWay, UpdateAsks, UpdateAnswers, Checks
  <2>. QED  BY <1>1, <1>2, <1>3, <2>2, <2>3, UpdateGoesOn
<1>8. ASSUME worker.at = "ask", output.latest # 0, Update!Answer("Available", output.latest)
      PROVE  UpdatesAreGood'
  <2>0. output.latest \in 0..MaxStamp
    BY <1>1 DEF UpdateOutput
  <2>1. [kind |-> "Available", release |-> output.latest] \in UpdateEvent
    BY <2>0 DEF UpdateEvent
  <2>2. /\ worker' \in UpdateWorker /\ worker'.at = "send" /\ worker'.command = worker.command
        /\ worker'.event = [kind |-> "Available", release |-> output.latest]
    BY <1>1, <1>8, <2>1, UpdateWorkerTypes DEF Update!Answer, Update!Event
  <2>4. output.latest \in 1..output.latest
    BY <1>8, <2>0
  <2>3. ui.open => UpdateAnswers(worker'.event)
    BY <1>1, <1>8, <2>2, <2>4 DEF UpdateIsUnderWay, UpdateAsks, UpdateAnswers, Checks
  <2>. QED  BY <1>1, <1>2, <1>3, <2>2, <2>3, UpdateGoesOn
<1>9. CASE Update!Check
  BY <1>4, <1>5, <1>9 DEF Update!Check
<1>10. CASE Update!Asked
  BY <1>7, <1>8, <1>10 DEF Update!Asked
<1>11. CASE \E network \in BOOLEAN : Update!AskFails(network)
  BY <1>4, <1>6, <1>11 DEF Update!AskFails
<1>12. CASE Update!Backoff
  BY <1>4, <1>5, <1>12 DEF Update!Backoff
<1>. QED  BY <1>9, <1>10, <1>11, <1>12

LEMMA UpdateDownloads ==
  ASSUME UpdatesAreGood,
         \/ Update!StartDownload \/ Update!DownloadFails \/ Update!Downloaded
         \/ Update!RemoveOld \/ Update!Rename
  PROVE  UpdatesAreGood'
<1>1. /\ worker \in UpdateWorker /\ output \in UpdateOutput /\ output.partial \in BOOLEAN
      /\ worker.command.release \in 0..MaxStamp /\ output.installers \in SUBSET (0..MaxStamp)
      /\ UpdateTypes /\ UpdateIsUnderWay /\ UpdateWorkerIsGood /\ LaunchIsGood
  BY UpdateWorkerTypes DEF UpdatesAreGood, UpdateTypes, UpdateOutput
<1>2. worker.at \in Downloads /\ UNCHANGED <<ui, commands, shared, events>>
  BY DEF Update!StartDownload, Update!DownloadFails, Update!Downloaded, Update!RemoveOld,
         Update!Rename, Downloads
<1>3. ASSUME NEW at \in {"download", "verified", "rename"}, Update!Goes(at),
             output' \in UpdateOutput, output'.latest = output.latest,
             output'.launched = output.launched
      PROVE  UpdatesAreGood'
  <2>1. worker' \in UpdateWorker /\ worker'.at = at /\ worker'.command = worker.command
    BY <1>1, <1>3, UpdateWorkerTypes DEF Update!Goes
  <2>2. worker'.at \in Downloads
    BY <2>1 DEF Downloads
  <2>. QED  BY <1>1, <1>2, <1>3, <2>1, <2>2, UpdateGoesOn
<1>4. ASSUME Update!Failed, output' \in UpdateOutput, output'.latest = output.latest,
             output'.launched = output.launched, ~output'.partial
      PROVE  UpdatesAreGood'
  <2>3. worker' = [worker EXCEPT !.at = "send", !.event = [kind |-> "Error", release |-> 0]]
    BY <1>4 DEF Update!Failed, Update!Answer, Update!Event
  <2>1. /\ worker' \in UpdateWorker /\ worker'.at = "send" /\ worker'.command = worker.command
        /\ worker'.event = [kind |-> "Error", release |-> 0]
    BY <1>1, <2>3, UpdateWorkerTypes, Zenon
  <2>2. UpdateAnswers(worker'.event)
    BY <2>1 DEF UpdateAnswers
  <2>. QED  BY <1>1, <1>2, <1>4, <2>1, <2>2, UpdateGoesOn
<1>5. \A partial \in BOOLEAN, installers \in SUBSET (0..MaxStamp) :
        /\ [output EXCEPT !.partial = partial, !.installers = installers] \in UpdateOutput
        /\ [output EXCEPT !.partial = partial, !.installers = installers].latest = output.latest
        /\ [output EXCEPT !.partial = partial, !.installers = installers].launched = output.launched
        /\ [output EXCEPT !.partial = partial, !.installers = installers].partial = partial
        /\ [output EXCEPT !.partial = partial] \in UpdateOutput
        /\ [output EXCEPT !.partial = partial].latest = output.latest
        /\ [output EXCEPT !.partial = partial].launched = output.launched
        /\ [output EXCEPT !.partial = partial].partial = partial
        /\ [output EXCEPT !.installers = installers] \in UpdateOutput
        /\ [output EXCEPT !.installers = installers].latest = output.latest
        /\ [output EXCEPT !.installers = installers].launched = output.launched
  BY <1>1 DEF UpdateOutput
<1>6. TRUE \in BOOLEAN /\ FALSE \in BOOLEAN
  OBVIOUS
<1>7. CASE Update!StartDownload
  <2>1. CASE output' = [output EXCEPT !.partial = TRUE] /\ Update!Goes("download")
    BY <1>1, <1>3, <1>5, <2>1
  <2>2. CASE UNCHANGED output /\ Update!Failed
    <3>1. ~output.partial
      BY <1>1, <1>7 DEF Update!StartDownload, UpdateWorkerIsGood
    <3>. QED  BY <1>1, <1>4, <2>2, <3>1
  <2>. QED  BY <1>7, <2>1, <2>2 DEF Update!StartDownload
<1>8. CASE Update!DownloadFails
  BY <1>1, <1>4, <1>5, <1>8 DEF Update!DownloadFails
<1>9. CASE Update!Downloaded
  BY <1>1, <1>3, <1>9 DEF Update!Downloaded
<1>10. CASE Update!RemoveOld
  <2>1. output.installers \ {worker.command.release} \in SUBSET (0..MaxStamp)
    BY <1>1
  <2>2. /\ output' = [output EXCEPT !.installers = output.installers \ {worker.command.release}]
        /\ Update!Goes("rename")
    BY <1>10 DEF Update!RemoveOld
  <2>. QED  BY <1>3, <1>5, <2>1, <2>2
<1>11. CASE Update!Rename
  <2>1. output.installers \cup {worker.command.release} \in SUBSET (0..MaxStamp)
    BY <1>1
  <2>2. /\ output' = [output EXCEPT !.partial = FALSE,
                        !.installers = output.installers \cup {worker.command.release}]
        /\ worker.at = "rename"
    BY <1>11 DEF Update!Rename
  <2>3. /\ output' \in UpdateOutput /\ output'.latest = output.latest
        /\ output'.launched = output.launched /\ ~output'.partial
    BY <1>5, <2>1, <2>2
  <2>4. CASE Update!Answer("Downloaded", worker.command.release)
    <3>1. [kind |-> "Downloaded", release |-> worker.command.release] \in UpdateEvent
      BY <1>1 DEF UpdateEvent
    <3>2. /\ worker' \in UpdateWorker /\ worker'.at = "send" /\ worker'.command = worker.command
          /\ worker'.event = [kind |-> "Downloaded", release |-> worker.command.release]
      BY <1>1, <2>4, <3>1, UpdateWorkerTypes DEF Update!Answer, Update!Event
    <3>3. ui.open => UpdateAnswers(worker'.event)
      BY <1>1, <2>2, <3>2 DEF UpdateIsUnderWay, UpdateAsks, UpdateAnswers, Downloads
    <3>. QED  BY <1>2, <2>3, <3>2, <3>3, UpdateGoesOn
  <2>. QED  BY <1>4, <1>11, <2>3, <2>4 DEF Update!Rename
<1>. QED  BY <1>7, <1>8, <1>9, <1>10, <1>11

LEMMA UpdateLaunches == UpdatesAreGood /\ Update!Launch => UpdatesAreGood'
<1>. SUFFICES ASSUME UpdatesAreGood, Update!Launch
     PROVE  UpdatesAreGood'
  OBVIOUS
<1>1. /\ worker \in UpdateWorker /\ output \in UpdateOutput /\ worker.at = "Install"
      /\ worker.command.release \in 0..MaxStamp
      /\ UNCHANGED <<ui, commands, shared, events>>
      /\ UpdateTypes /\ UpdateIsUnderWay /\ UpdateWorkerIsGood /\ LaunchIsGood
      /\ ~output.partial
  BY UpdateWorkerTypes DEF UpdatesAreGood, UpdateTypes, Update!Launch, UpdateWorkerIsGood
<1>2. CASE UNCHANGED output /\ Update!Failed
  BY <1>1, <1>2, UpdateFails
<1>3. ASSUME worker.command.release \in output.installers, ~shared.stop,
             output' = [output EXCEPT !.launched = output.launched \cup
               {[release |-> worker.command.release,
                 whole |-> worker.command.release \in output.installers]}],
             Update!Answer("InstallerStarted", worker.command.release)
      PROVE  UpdatesAreGood'
  <2> DEFINE launch == [release |-> worker.command.release, whole |-> TRUE]
  <2>1. /\ ui.open /\ ui.state = "installing" /\ worker.command.release = ui.release
        /\ commands = <<>> /\ events = <<>>
    BY <1>1, <1>3 DEF UpdateIsUnderWay, UpdateAsks
  <2>2. launch \in [release : 0..MaxStamp, whole : BOOLEAN] /\ launch.whole
        /\ launch.release = ui.release
    BY <1>1, <2>1
  <2>3. output' = [output EXCEPT !.launched = output.launched \cup {launch}]
    BY <1>3
  <2>. HIDE DEF launch
  <2>4. /\ output' \in UpdateOutput /\ output'.latest = output.latest
        /\ output'.partial = output.partial /\ output'.launched = output.launched \cup {launch}
    BY <1>1, <2>2, <2>3 DEF UpdateOutput
  <2>5. [kind |-> "InstallerStarted", release |-> worker.command.release] \in UpdateEvent
    BY <1>1 DEF UpdateEvent
  <2>6. /\ worker' \in UpdateWorker /\ worker'.at = "send" /\ worker'.command = worker.command
        /\ worker'.event = [kind |-> "InstallerStarted", release |-> worker.command.release]
    BY <1>1, <1>3, <2>5, UpdateWorkerTypes DEF Update!Answer, Update!Event
  <2>7. UpdateAnswers(worker'.event)
    BY <2>1, <2>6 DEF UpdateAnswers
  <2>8. UpdateTypes' /\ UpdateIsUnderWay' /\ UpdateWorkerIsGood'
    BY <1>1, <2>4, <2>6, <2>7, UpdateWork
  <2>9. LaunchIsGood'
    BY <1>1, <2>1, <2>2, <2>4, <2>6 DEF LaunchIsGood
  <2>. QED  BY <2>8, <2>9 DEF UpdatesAreGood
<1>. QED  BY <1>2, <1>3 DEF Update!Launch

LEMMA UpdateReceives == UpdatesAreGood /\ Update!Receive => UpdatesAreGood'
<1>. SUFFICES ASSUME UpdatesAreGood, Update!Receive
     PROVE  UpdatesAreGood'
  OBVIOUS
<1>1. /\ worker \in UpdateWorker /\ worker.at = "head" /\ commands \in Seq(UpdateCommand)
      /\ commands # <<>> /\ commands' = Tail(commands)
      /\ ui' = ui /\ shared' = shared /\ events' = events /\ output' = output
      /\ worker' = IF shared.stop \/ Head(commands).do = "Shutdown"
                   THEN [worker EXCEPT !.at = "ended"]
                   ELSE [worker EXCEPT !.at = Head(commands).do, !.command = Head(commands),
                                       !.attempt = 0]
      /\ UpdateTypes /\ UpdateIsUnderWay /\ UpdateWorkerIsGood /\ LaunchIsGood
      /\ ~output.partial
  BY DEF UpdatesAreGood, UpdateTypes, Update!Receive, UpdateWorkerIsGood
<1>2. /\ Tail(commands) \in Seq(UpdateCommand) /\ Len(Tail(commands)) = Len(commands) - 1
      /\ \A i \in 1..Len(Tail(commands)) : Tail(commands)[i] = commands[i + 1] /\ i + 1 \in 1..Len(commands)
      /\ Head(commands) = commands[1] /\ Head(commands) \in UpdateCommand /\ 1 \in 1..Len(commands)
  BY <1>1, TailType
<1>3. /\ \A i \in 1..Len(commands') : commands'[i].do = "Check" => commands'[i].id = ui.check
      /\ commands[1].do = "Check" => commands[1].id = ui.check
  BY <1>1, <1>2 DEF UpdateWorkerIsGood
<1>4. Len(commands') <= 2 /\ (Len(commands) <= 1 => commands' = <<>>)
  <2>1. Len(commands) \in Nat /\ Len(commands) <= 2
    BY <1>1 DEF UpdateIsUnderWay
  <2>2. Len(commands) <= 1 => Len(Tail(commands)) = 0
    BY <1>2, <2>1
  <2>3. Len(Tail(commands)) <= 2
    BY <1>2, <2>1
  <2>. QED  BY <1>1, <1>2, <2>2, <2>3, EmptySeq
<1>5. CASE shared.stop
  <2>1. worker' \in UpdateWorker /\ worker'.at = "ended" /\ ~ui.open
    BY <1>1, <1>5 DEF UpdateWorker, UpdateIsUnderWay
  <2>2. UpdateTypes'
    BY <1>1, <1>2, <2>1 DEF UpdateTypes
  <2>3. UpdateIsUnderWay'
    BY <1>1, <1>4, <1>5, <2>1 DEF UpdateIsUnderWay
  <2>4. UpdateWorkerIsGood' /\ LaunchIsGood'
    BY <1>1, <1>3, <2>1 DEF UpdateWorkerIsGood, LaunchIsGood, Checks
  <2>. QED  BY <2>2, <2>3, <2>4 DEF UpdatesAreGood
<1>6. CASE ~shared.stop
  <2>1. /\ ui.open /\ commands' = <<>> /\ events = <<>> /\ Update!Busy
        /\ UpdateAsks(commands[1].do, commands[1].release)
    BY <1>1, <1>4, <1>6 DEF UpdateIsUnderWay
  <2>2. commands[1].do \in {"Check", "Download", "Install"}
    BY <2>1 DEF UpdateAsks
  <2>3. worker' = [worker EXCEPT !.at = commands[1].do, !.command = commands[1], !.attempt = 0]
    BY <1>1, <1>2, <1>6, <2>2
  <2>4. worker' \in UpdateWorker /\ worker'.at = commands[1].do /\ worker'.command = commands[1]
    <3>1. ASSUME NEW do \in {"Check", "Download", "Install"}, NEW command \in UpdateCommand,
                 NEW attempt \in Nat,
                 worker' = [worker EXCEPT !.at = do, !.command = command, !.attempt = attempt]
          PROVE  worker' \in UpdateWorker /\ worker'.at = do /\ worker'.command = command
      BY <1>1, <3>1 DEF UpdateWorker
    <3>2. PICK do \in {"Check", "Download", "Install"} : do = commands[1].do
      BY <2>2
    <3>3. PICK command \in UpdateCommand : command = commands[1]
      BY <1>2
    <3>4. PICK attempt \in Nat : attempt = 0
      OBVIOUS
    <3>5. worker' = [worker EXCEPT !.at = do, !.command = command, !.attempt = attempt]
      BY <2>3, <3>2, <3>3, <3>4
    <3>6. worker' \in UpdateWorker /\ worker'.at = do /\ worker'.command = command
      BY <3>1, <3>5
    <3>. QED  BY <3>2, <3>3, <3>6
  <2>5. UpdateTypes'
    BY <1>1, <1>2, <2>4 DEF UpdateTypes
  <2>6. /\ worker'.at \in Checks => worker'.at = "Check"
        /\ worker'.at \in Downloads => worker'.at = "Download"
        /\ worker'.at \notin {"send", "head", "ended", "none", "Shutdown"}
    BY <2>2, <2>4 DEF Checks, Downloads
  <2>7. /\ Update!Busy' /\ Len(<<>>) <= 1 /\ Len(<<>>) <= 2
        /\ \A do, release : UpdateAsks(do, release)' = UpdateAsks(do, release)
    BY <1>1, <2>1 DEF UpdateAsks, Update!Busy
  <2>9. LaunchIsGood'
    <3>1. output.launched = {}
      BY <1>1, <2>1 DEF LaunchIsGood
    <3>. QED  BY <1>1, <3>1 DEF LaunchIsGood
  <2>10. UpdateWorkerIsGood'
    BY <1>1, <1>3, <2>4, <2>6 DEF UpdateWorkerIsGood
  <2>8. UpdateIsUnderWay'
    BY <1>1, <1>4, <1>6, <2>1, <2>4, <2>6, <2>7 DEF UpdateIsUnderWay
  <2>. QED  BY <2>5, <2>8, <2>9, <2>10 DEF UpdatesAreGood
<1>. QED  BY <1>5, <1>6

LEMMA UpdateSends == UpdatesAreGood /\ Update!Send => UpdatesAreGood'
<1>. SUFFICES ASSUME UpdatesAreGood, Update!Send
     PROVE  UpdatesAreGood'
  OBVIOUS
<1>1. /\ worker \in UpdateWorker /\ worker.at = "send" /\ events \in Seq(UpdateEvent)
      /\ ui' = ui /\ shared' = shared /\ commands' = commands /\ output' = output
      /\ IF shared.stop THEN worker' = [worker EXCEPT !.at = "ended"] /\ events' = events
         ELSE worker' = [worker EXCEPT !.at = "head"] /\ events' = Append(events, worker.event)
      /\ UpdateTypes /\ UpdateIsUnderWay /\ UpdateWorkerIsGood /\ LaunchIsGood
      /\ ~output.partial /\ Update!Busy' = Update!Busy
  BY DEF UpdatesAreGood, UpdateTypes, Update!Send, Update!Goes, UpdateWorkerIsGood, Update!Busy
<1>2. worker' \in UpdateWorker /\ worker'.at \in {"ended", "head"}
  <2>1. /\ [worker EXCEPT !.at = "ended"] \in UpdateWorker /\ [worker EXCEPT !.at = "ended"].at = "ended"
        /\ [worker EXCEPT !.at = "head"] \in UpdateWorker /\ [worker EXCEPT !.at = "head"].at = "head"
    BY <1>1 DEF UpdateWorker
  <2>. QED  BY <1>1, <2>1, Zenon
<1>5. CASE shared.stop
  <2>1. worker'.at = "ended" /\ ~ui.open
    BY <1>1, <1>5, UpdateWorkerTypes DEF UpdateIsUnderWay
  <2>2. UpdateTypes'
    BY <1>1, <1>2, <1>5 DEF UpdateTypes
  <2>3. UpdateIsUnderWay'
    BY <1>1, <1>5, <2>1 DEF UpdateIsUnderWay
  <2>4. UpdateWorkerIsGood' /\ LaunchIsGood'
    BY <1>1, <1>5, <2>1 DEF UpdateWorkerIsGood, LaunchIsGood, Checks
  <2>. QED  BY <2>2, <2>3, <2>4 DEF UpdatesAreGood
<1>6. CASE ~shared.stop
  <2>0. /\ worker'.at = "head" /\ ui.open = ui.open' /\ worker.event \in UpdateEvent
        /\ events' = Append(events, worker.event)
    BY <1>1, <1>6, UpdateWorkerTypes DEF UpdateWorker
  <2>1. ui.open /\ commands = <<>> /\ events = <<>> /\ Update!Busy /\ UpdateAnswers(worker.event)
    BY <1>1, <1>6 DEF UpdateIsUnderWay
  <2>3. /\ events' \in Seq(UpdateEvent) /\ Len(events') = 1 /\ events'[1] = worker.event
        /\ events' # <<>>
    BY <1>1, <2>0, <2>1
  <2>5. UpdateTypes'
    BY <1>1, <1>2, <2>3 DEF UpdateTypes
  <2>7. Len(events') <= 1 /\ UpdateAnswers(events[1])'
    BY <1>1, <2>1, <2>3 DEF UpdateAnswers
  <2>8. UpdateIsUnderWay'
    BY <1>1, <1>6, <2>0, <2>1, <2>3, <2>7 DEF UpdateIsUnderWay, Checks, Downloads
  <2>9. LaunchIsGood'
    BY <1>1, <2>0, <2>1, <2>3 DEF LaunchIsGood
  <2>10. worker.event.kind = "Available" => worker.event.release <= output.latest
    <3>1. output.latest \in Int
      BY <1>1 DEF UpdateTypes, UpdateOutput
    <3>. QED  BY <2>1, <3>1 DEF UpdateAnswers
  <2>11. UpdateWorkerIsGood'
    BY <1>1, <2>0, <2>1, <2>3, <2>10 DEF UpdateWorkerIsGood, Checks
  <2>. QED  BY <2>5, <2>8, <2>9, <2>11 DEF UpdatesAreGood
<1>. QED  BY <1>5, <1>6

\* A request is queued by a controller that is not busy.
LEMMA UpdateRequests ==
  ASSUME UpdatesAreGood, ui.open, ~Update!Busy, UNCHANGED <<shared, worker, events, output>>,
         NEW command \in UpdateCommand, commands' = Append(commands, command),
         ui' \in UpdateUi, ui'.open,
         \/ command.do = "Check" /\ ui'.state = "checking"
         \/ command.do = "Download" /\ ui'.state = "downloading" /\ command.release = ui'.release
         \/ command.do = "Install" /\ ui'.state = "installing" /\ command.release = ui'.release,
         command.do = "Check" => command.id = ui'.check,
         ui'.state \in {"available", "downloading", "verified", "installing"} <=> ui'.release # 0
  PROVE  UpdatesAreGood'
<1>1. /\ UpdateTypes /\ UpdateIsUnderWay /\ UpdateWorkerIsGood /\ LaunchIsGood
      /\ commands \in Seq(UpdateCommand)
      /\ shared' = shared /\ worker' = worker /\ events' = events /\ output' = output
  BY DEF UpdatesAreGood, UpdateTypes
<1>2. commands = <<>> /\ events = <<>> /\ worker.at = "head" /\ ~shared.stop
  BY <1>1 DEF UpdateIsUnderWay
<1>3. /\ commands' \in Seq(UpdateCommand) /\ Len(commands') = 1 /\ commands'[1] = command
      /\ commands' # <<>>
  BY <1>2
<1>4. output.launched = {}
  BY <1>1, <1>2 DEF LaunchIsGood, Update!Busy
<1>5. Update!Busy'
  BY DEF Update!Busy
<1>6. UpdateTypes'
  BY <1>1, <1>3 DEF UpdateTypes
<1>10. UpdateAsks(commands[1].do, commands[1].release)' /\ Len(commands') <= 2 /\ Len(commands') <= 1
  BY <1>3 DEF UpdateAsks
<1>7. UpdateIsUnderWay'
  BY <1>1, <1>2, <1>3, <1>5, <1>10 DEF UpdateIsUnderWay, Checks, Downloads
<1>8. UpdateWorkerIsGood'
  BY <1>1, <1>2, <1>3 DEF UpdateWorkerIsGood, Checks
<1>9. LaunchIsGood'
  BY <1>1, <1>4 DEF LaunchIsGood
<1>. QED  BY <1>6, <1>7, <1>8, <1>9 DEF UpdatesAreGood

LEMMA UpdateUiTypes ==
  ASSUME ui \in UpdateUi
  PROVE  /\ \A state \in {"checking", "current", "error"}, release \in 0..MaxStamp :
              /\ [ui EXCEPT !.state = state, !.release = release] \in UpdateUi
              /\ [ui EXCEPT !.state = state, !.release = release].state = state
              /\ [ui EXCEPT !.state = state, !.release = release].release = release
         /\ ui.release \in 0..MaxStamp /\ ui.check \in 0..MaxJobs /\ ui.next \in 1..MaxJobs + 1
         /\ 0 \in 0..MaxStamp /\ 0 \in 0..MaxJobs
         /\ ui.next <= MaxJobs => ui.next \in 0..MaxJobs /\ ui.next + 1 \in 1..MaxJobs + 1
<1>1. 0 \in 0..MaxStamp /\ 0 \in 0..MaxJobs
  BY JobsAssumption
<1>2. ui.next \in 1..MaxJobs + 1
  BY DEF UpdateUi
<1>3. ui.next <= MaxJobs => ui.next \in 0..MaxJobs /\ ui.next + 1 \in 1..MaxJobs + 1
  BY <1>2, JobsAssumption
<1>. QED  BY <1>1, <1>2, <1>3 DEF UpdateUi

LEMMA UpdateAsksAnew ==
  UpdatesAreGood /\ (Update!QueueUpdateCheck \/ Update!Install \/ Update!Download) => UpdatesAreGood'
<1>. SUFFICES ASSUME UpdatesAreGood, Update!QueueUpdateCheck \/ Update!Install \/ Update!Download
     PROVE  UpdatesAreGood'
  OBVIOUS
<1>1. /\ ui \in UpdateUi /\ UpdateIsUnderWay /\ ui.open /\ ui.next <= MaxJobs
      /\ UNCHANGED <<shared, worker, events, output>>
  BY DEF UpdatesAreGood, UpdateTypes, Update!QueueUpdateCheck, Update!Install, Update!Download
<1>2. /\ ui.release \in 0..MaxStamp /\ 0 \in 0..MaxStamp /\ 0 \in 0..MaxJobs
      /\ ui.next \in 0..MaxJobs /\ ui.next + 1 \in 1..MaxJobs + 1
  BY <1>1, UpdateUiTypes
<1>3. CASE Update!QueueUpdateCheck
  <2> DEFINE command == [do |-> "Check", id |-> ui.next, release |-> 0]
  <2>1. /\ command \in UpdateCommand /\ command.do = "Check" /\ command.id = ui.next
        /\ command.release = 0
    BY <1>2 DEF UpdateCommand
  <2>2. /\ commands' = Append(commands, command) /\ ~Update!Busy
        /\ ui' = [ui EXCEPT !.state = "checking", !.release = 0, !.check = ui.next, !.next = ui.next + 1]
    BY <1>3 DEF Update!QueueUpdateCheck
  <2>. HIDE DEF command
  <2>3. ASSUME NEW release \in 0..MaxStamp, NEW check \in 0..MaxJobs, NEW next \in 1..MaxJobs + 1,
               ui' = [ui EXCEPT !.state = "checking", !.release = release, !.check = check, !.next = next]
        PROVE  /\ ui' \in UpdateUi /\ ui'.open = ui.open /\ ui'.state = "checking"
               /\ ui'.release = release /\ ui'.check = check
    BY <1>1, <2>3 DEF UpdateUi
  <2>4. /\ ui' \in UpdateUi /\ ui'.open = ui.open /\ ui'.state = "checking"
        /\ ui'.release = 0 /\ ui'.check = ui.next
    BY <1>2, <2>2, <2>3
  <2>. QED  BY <1>1, <2>1, <2>2, <2>4, UpdateRequests
<1>4. ASSUME NEW do \in {"Install", "Download"}, NEW state \in {"installing", "downloading"},
             ~Update!Busy, ui.state \in {"verified", "available"},
             do = "Install" <=> state = "installing",
             ui' = [ui EXCEPT !.state = state, !.next = ui.next + 1],
             commands' = Append(commands, [do |-> do, id |-> ui.next, release |-> ui.release])
      PROVE  UpdatesAreGood'
  <2> DEFINE command == [do |-> do, id |-> ui.next, release |-> ui.release]
  <2>1. /\ command \in UpdateCommand /\ command.do = do /\ command.release = ui.release
    BY <1>2 DEF UpdateCommand
  <2>2. commands' = Append(commands, command)
    BY <1>4
  <2>. HIDE DEF command
  <2>3. ASSUME NEW next \in 1..MaxJobs + 1, ui' = [ui EXCEPT !.state = state, !.next = next]
        PROVE  /\ ui' \in UpdateUi /\ ui'.open = ui.open /\ ui'.state = state
               /\ ui'.release = ui.release
    BY <1>1, <2>3 DEF UpdateUi
  <2>4. /\ ui' \in UpdateUi /\ ui'.open = ui.open /\ ui'.state = state /\ ui'.release = ui.release
    BY <1>2, <1>4, <2>3
  <2>6. ui.release # 0
    BY <1>1, <1>4 DEF UpdateIsUnderWay
  <2>5. \/ do = "Install" /\ state = "installing"
        \/ do = "Download" /\ state = "downloading"
    BY <1>4
  <2>. QED  BY <1>1, <1>4, <2>1, <2>2, <2>4, <2>5, <2>6, UpdateRequests
<1>5. CASE Update!Install
  BY <1>4, <1>5 DEF Update!Install, Update!Busy
<1>6. CASE Update!Download
  BY <1>4, <1>6 DEF Update!Download, Update!Busy
<1>. QED  BY <1>3, <1>5, <1>6

\* What others do: the checks are turned off, the page is not shown, a release
\* comes out, the installers are deleted.
LEMMA UpdateOthers ==
  UpdatesAreGood
    /\ (Update!ChangeUpdateChecks \/ Update!ReleasePageFails \/ Update!Release \/ Update!CleanUp)
  => UpdatesAreGood'
<1>. SUFFICES ASSUME UpdatesAreGood,
        \/ Update!ChangeUpdateChecks \/ Update!ReleasePageFails \/ Update!Release \/ Update!CleanUp
     PROVE  UpdatesAreGood'
  OBVIOUS
<1>1. /\ UpdateTypes /\ UpdateIsUnderWay /\ UpdateWorkerIsGood /\ LaunchIsGood
      /\ ui \in UpdateUi /\ output \in UpdateOutput
      /\ ui.release \in 0..MaxStamp /\ ui.check \in 0..MaxJobs /\ 0 \in 0..MaxStamp
  BY UpdateUiTypes DEF UpdatesAreGood, UpdateTypes
<1>2. CASE Update!ChangeUpdateChecks
  <2>1. shared.cancelled \cup {ui.check} \in SUBSET (0..MaxJobs)
    BY <1>1 DEF UpdateTypes
  <2>2. /\ shared' = [shared EXCEPT !.cancelled = shared.cancelled \cup {ui.check}]
        /\ UNCHANGED <<ui, commands, worker, events, output>>
    BY <1>2 DEF Update!ChangeUpdateChecks
  <2>3. /\ shared' \in [stop : BOOLEAN, cancelled : SUBSET (0..MaxJobs)]
        /\ shared'.stop = shared.stop
    BY <1>1, <2>1, <2>2 DEF UpdateTypes
  <2>4. UpdateTypes'
    BY <1>1, <2>2, <2>3 DEF UpdateTypes
  <2>5. UpdateIsUnderWay'
    BY <1>1, <2>2, <2>3 DEF UpdateIsUnderWay, UpdateAsks, UpdateAnswers, Update!Busy
  <2>6. UpdateWorkerIsGood' /\ LaunchIsGood'
    BY <1>1, <2>2 DEF UpdateWorkerIsGood, LaunchIsGood
  <2>. QED  BY <2>4, <2>5, <2>6 DEF UpdatesAreGood
<1>3. CASE Update!ReleasePageFails
  <2>1. /\ ui' = [ui EXCEPT !.state = "error", !.release = 0]
        /\ commands' = commands /\ shared' = shared /\ worker' = worker /\ events' = events
        /\ output' = output /\ ui.open /\ ~Update!Busy
    BY <1>3 DEF Update!ReleasePageFails, Update!Busy
  <2>2. /\ ui' \in UpdateUi /\ ui'.open /\ ui'.state = "error" /\ ui'.release = 0
        /\ ui'.check = ui.check
    BY <1>1, <2>1, UpdateUiTypes DEF UpdateUi
  <2>3. commands = <<>> /\ events = <<>> /\ worker.at = "head" /\ output.launched = {}
    BY <1>1, <2>1 DEF UpdateIsUnderWay, LaunchIsGood, Update!Busy
  <2>4. UpdateTypes'
    BY <1>1, <2>1, <2>2 DEF UpdateTypes
  <2>5. UpdateIsUnderWay'
    BY <1>1, <2>1, <2>2, <2>3 DEF UpdateIsUnderWay, Checks, Downloads, Update!Busy
  <2>6. UpdateWorkerIsGood' /\ LaunchIsGood'
    BY <1>1, <2>1, <2>2, <2>3 DEF UpdateWorkerIsGood, LaunchIsGood
  <2>. QED  BY <2>4, <2>5, <2>6 DEF UpdatesAreGood
<1>4. ASSUME UNCHANGED <<ui, commands, shared, worker, events>>, output' \in UpdateOutput,
             output'.partial = output.partial, output'.launched = output.launched,
             output'.latest >= output.latest
      PROVE  UpdatesAreGood'
  <2>1. /\ output.latest \in Int /\ output'.latest \in Int
        /\ \A i \in 1..Len(events) : events[i].release \in Int
    <3>1. \A i \in 1..Len(events) : events[i] \in UpdateEvent
      BY <1>1 DEF UpdateTypes
    <3>. QED  BY <1>4, <1>1, <3>1 DEF UpdateOutput, UpdateEvent
  <2>2. \A event : UpdateAnswers(event) => UpdateAnswers(event)'
    BY <1>4, <2>1 DEF UpdateAnswers
  <2>4. UpdateTypes'
    BY <1>1, <1>4 DEF UpdateTypes
  <2>5. UpdateIsUnderWay'
    <3>1. /\ worker.at = "send" /\ UpdateAnswers(worker.event) => UpdateAnswers(worker.event)'
          /\ UpdateAnswers(events[1]) => UpdateAnswers(events[1])'
          /\ \A do, release : UpdateAsks(do, release)' = UpdateAsks(do, release)
          /\ Update!Busy' = Update!Busy
      BY <1>4, <2>2 DEF UpdateAsks, UpdateAnswers, Update!Busy
    <3>. QED  BY <1>1, <1>4, <3>1 DEF UpdateIsUnderWay
  <2>7. \A i \in 1..Len(events) : events[i].kind = "Available" => events[i].release <= output'.latest
    <3>1. ASSUME NEW i \in 1..Len(events), events[i].kind = "Available"
          PROVE  events[i].release <= output'.latest
      <4>1. events[i].release <= output.latest
        BY <1>1, <3>1 DEF UpdateWorkerIsGood
      <4>. QED  BY <1>4, <2>1, <4>1
    <3>. QED  BY <3>1
  <2>6. UpdateWorkerIsGood'
    BY <1>1, <1>4, <2>7 DEF UpdateWorkerIsGood
  <2>8. LaunchIsGood'
    BY <1>1, <1>4 DEF LaunchIsGood
  <2>. QED  BY <2>4, <2>5, <2>6, <2>8 DEF UpdatesAreGood
<1>5. CASE Update!Release
  <2>1. output.latest \in 0..MaxStamp
    BY <1>1 DEF UpdateOutput
  <2>2. output.latest + 1 \in 0..MaxStamp /\ output.latest + 1 >= output.latest
    BY <1>5, <2>1, JobsAssumption DEF Update!Release
  <2>3. output' = [output EXCEPT !.latest = output.latest + 1]
    BY <1>5 DEF Update!Release
  <2>4. /\ output' \in UpdateOutput /\ output'.partial = output.partial
        /\ output'.launched = output.launched /\ output'.latest = output.latest + 1
    BY <1>1, <2>2, <2>3 DEF UpdateOutput
  <2>5. UNCHANGED <<ui, commands, shared, worker, events>>
    BY <1>5 DEF Update!Release
  <2>6. output'.latest >= output.latest
    BY <2>2, <2>4
  <2>. QED  BY <1>4, <2>4, <2>5, <2>6
<1>6. CASE Update!CleanUp
  <2>1. output' = [output EXCEPT !.installers = {}] /\ UNCHANGED <<ui, commands, shared, worker, events>>
    BY <1>6 DEF Update!CleanUp
  <2>2. /\ output' \in UpdateOutput /\ output'.partial = output.partial
        /\ output'.launched = output.launched /\ output'.latest = output.latest
        /\ output.latest \in 0..MaxStamp
    BY <1>1, <2>1 DEF UpdateOutput
  <2>3. output'.latest >= output.latest
    BY <2>2
  <2>. QED  BY <1>4, <2>1, <2>2, <2>3
<1>. QED  BY <1>2, <1>3, <1>5, <1>6

\* Leaving the application, by its user or once the installer is started.
LEMMA UpdateLeaves ==
  ASSUME UpdatesAreGood, ui.open, ui' = [ui EXCEPT !.open = FALSE],
         shared' = [stop |-> TRUE, cancelled |-> shared.cancelled \cup {ui.check}],
         commands' = Append(commands, [Update!NoCommand EXCEPT !.do = "Shutdown"]),
         events' = events \/ (events # <<>> /\ events' = Tail(events)),
         UNCHANGED <<worker, output>>
  PROVE  UpdatesAreGood'
<1>1. /\ UpdateTypes /\ UpdateIsUnderWay /\ UpdateWorkerIsGood /\ LaunchIsGood
      /\ ui \in UpdateUi /\ commands \in Seq(UpdateCommand) /\ events \in Seq(UpdateEvent)
      /\ ui.check \in 0..MaxJobs /\ 0 \in 0..MaxStamp /\ 0 \in 0..MaxJobs
      /\ Len(commands) <= 1 /\ Len(events) <= 1 /\ worker' = worker /\ output' = output
  BY UpdateUiTypes DEF UpdatesAreGood, UpdateTypes, UpdateIsUnderWay
<1>2. /\ ui' \in UpdateUi /\ ~ui'.open /\ ui'.state = ui.state /\ ui'.release = ui.release
      /\ ui'.check = ui.check
  BY <1>1 DEF UpdateUi
<1>3. shared' \in [stop : BOOLEAN, cancelled : SUBSET (0..MaxJobs)] /\ shared'.stop
  BY <1>1 DEF UpdateTypes
<1> DEFINE command == [do |-> "Shutdown", id |-> 0, release |-> 0]
<1>4. command \in UpdateCommand /\ command.do = "Shutdown" /\ commands' = Append(commands, command)
  BY <1>1 DEF UpdateCommand, Update!NoCommand
<1>. HIDE DEF command
<1>5. /\ commands' \in Seq(UpdateCommand) /\ Len(commands') = Len(commands) + 1
      /\ \A i \in 1..Len(commands) : commands'[i] = commands[i]
      /\ commands'[Len(commands) + 1] = command
  BY <1>1, <1>4, AppendType
<1>6. Len(commands') <= 2
  BY <1>1, <1>5
<1>7. \A i \in 1..Len(commands') : commands'[i].do = "Check" => commands'[i].id = ui.check
  <2>1. ASSUME NEW i \in 1..Len(commands'), commands'[i].do = "Check"
        PROVE  commands'[i].id = ui.check
    <3>1. CASE i \in 1..Len(commands)
      BY <1>1, <1>5, <2>1, <3>1 DEF UpdateWorkerIsGood
    <3>2. CASE i = Len(commands) + 1
      BY <1>4, <1>5, <2>1, <3>2
    <3>. QED  BY <1>1, <1>5, <3>1, <3>2
  <2>. QED  BY <2>1
<1>8. /\ events' \in Seq(UpdateEvent) /\ Len(events') <= 1
      /\ \A i \in 1..Len(events') :
           events'[i].kind = "Available" => events'[i].release <= output.latest
  <2>1. CASE events' = events
    BY <1>1, <2>1 DEF UpdateWorkerIsGood
  <2>2. CASE events # <<>> /\ events' = Tail(events)
    <3>1. /\ events' \in Seq(UpdateEvent) /\ Len(events') = Len(events) - 1
          /\ Len(events) \in Nat
      BY <1>1, <2>2, TailType
    <3>2. Len(events') = 0
      BY <1>1, <3>1
    <3>. QED  BY <3>1, <3>2
  <2>. QED  BY <2>1, <2>2
<1>9. UpdateTypes'
  BY <1>1, <1>2, <1>3, <1>5, <1>8 DEF UpdateTypes
<1>10. UpdateIsUnderWay'
  BY <1>1, <1>2, <1>3, <1>6, <1>8 DEF UpdateIsUnderWay
<1>11. UpdateWorkerIsGood'
  BY <1>1, <1>2, <1>7, <1>8 DEF UpdateWorkerIsGood
<1>12. LaunchIsGood'
  BY <1>1, <1>2 DEF LaunchIsGood
<1>. QED  BY <1>9, <1>10, <1>11, <1>12 DEF UpdatesAreGood

LEMMA UpdateExit == UpdatesAreGood /\ Update!Exit => UpdatesAreGood'
<1>. SUFFICES ASSUME UpdatesAreGood, Update!Exit
     PROVE  UpdatesAreGood'
  OBVIOUS
<1>1. /\ ui.open /\ ui' = [ui EXCEPT !.open = FALSE]
      /\ shared' = [stop |-> TRUE, cancelled |-> shared.cancelled \cup {ui.check}]
      /\ commands' = Append(commands, [Update!NoCommand EXCEPT !.do = "Shutdown"])
      /\ UNCHANGED <<worker, events, output>>
  BY DEF Update!Exit
<1>. QED  BY <1>1, UpdateLeaves

LEMMA UpdatePump == UpdatesAreGood /\ Update!HandleUpdateEvent => UpdatesAreGood'
<1>. SUFFICES ASSUME UpdatesAreGood, Update!HandleUpdateEvent
     PROVE  UpdatesAreGood'
  OBVIOUS
<1> DEFINE event == events[1]
<1>1. /\ UpdateTypes /\ UpdateIsUnderWay /\ UpdateWorkerIsGood /\ LaunchIsGood
      /\ ui \in UpdateUi /\ events \in Seq(UpdateEvent) /\ output \in UpdateOutput
      /\ ui.open /\ events # <<>> /\ events' = Tail(events)
      /\ worker' = worker /\ output' = output /\ Len(events) <= 1
  BY DEF UpdatesAreGood, UpdateTypes, Update!HandleUpdateEvent, UpdateIsUnderWay
<1>2. /\ events' \in Seq(UpdateEvent) /\ Len(events') = Len(events) - 1
      /\ Head(events) = event /\ event \in UpdateEvent /\ Len(events) \in Nat
  BY <1>1, TailType
<1>3. events' = <<>> /\ Len(events') = 0
  <2>1. Len(events') = 0
    BY <1>1, <1>2
  <2>. QED  BY <1>2, <2>1, EmptySeq
<1>4. /\ UpdateAnswers(event) /\ Update!Busy /\ commands = <<>> /\ worker.at = "head"
      /\ ~shared.stop /\ (output.launched # {} => event.kind = "InstallerStarted")
  BY <1>1 DEF UpdateIsUnderWay, LaunchIsGood
<1>5. ui' = CASE event.kind = "UpToDate" -> [ui EXCEPT !.state = "current", !.release = 0]
              [] event.kind = "Available" ->
                   [ui EXCEPT !.state = "available", !.release = event.release]
              [] event.kind = "Downloaded" ->
                   [ui EXCEPT !.state = "verified", !.release = event.release]
              [] event.kind = "InstallerStarted" -> [ui EXCEPT !.open = FALSE]
              [] event.kind = "Error" -> [ui EXCEPT !.state = "error", !.release = 0]
  BY <1>2 DEF Update!HandleUpdateEvent
<1>6. event.release \in 0..MaxStamp /\ 0 \in 0..MaxStamp
  BY <1>1, <1>2, UpdateUiTypes DEF UpdateEvent
<1>. HIDE DEF event
<1>7. ASSUME NEW state \in {"current", "available", "verified", "error"}, NEW release \in 0..MaxStamp,
             ui' = [ui EXCEPT !.state = state, !.release = release],
             state \in {"available", "verified"} <=> release # 0, output.launched = {}
      PROVE  UpdatesAreGood'
  <2>1. /\ ui' \in UpdateUi /\ ui'.open /\ ui'.state = state /\ ui'.release = release
        /\ ui'.check = ui.check
    BY <1>1, <1>7 DEF UpdateUi
  <2>2. shared' = shared /\ commands' = commands
    BY <2>1 DEF Update!HandleUpdateEvent
  <2>3. UpdateTypes'
    BY <1>1, <1>2, <2>1, <2>2 DEF UpdateTypes
  <2>4. ~Update!Busy' /\ Len(commands) <= 1 /\ Len(commands) <= 2 /\ Len(events') <= 1
    BY <1>1, <1>3, <2>1 DEF Update!Busy, UpdateIsUnderWay
  <2>5. UpdateIsUnderWay'
    BY <1>1, <1>3, <1>4, <1>7, <2>1, <2>2, <2>4 DEF UpdateIsUnderWay, Checks, Downloads
  <2>6. UpdateWorkerIsGood'
    BY <1>1, <1>3, <2>1, <2>2 DEF UpdateWorkerIsGood
  <2>7. LaunchIsGood'
    BY <1>1, <1>7 DEF LaunchIsGood
  <2>. QED  BY <2>3, <2>5, <2>6, <2>7 DEF UpdatesAreGood
<1>8. CASE event.kind = "UpToDate"
  <2>1. ui' = [ui EXCEPT !.state = "current", !.release = 0] /\ output.launched = {}
    BY <1>4, <1>5, <1>8
  <2>. QED  BY <1>6, <1>7, <2>1
<1>9. CASE event.kind = "Available"
  <2>1. ui' = [ui EXCEPT !.state = "available", !.release = event.release] /\ output.launched = {}
    BY <1>4, <1>5, <1>9
  <2>2. event.release # 0
    BY <1>4, <1>9 DEF UpdateAnswers
  <2>. QED  BY <1>6, <1>7, <2>1, <2>2
<1>10. CASE event.kind = "Downloaded"
  <2>1. ui' = [ui EXCEPT !.state = "verified", !.release = event.release] /\ output.launched = {}
    BY <1>4, <1>5, <1>10
  <2>2. event.release # 0
    BY <1>1, <1>4, <1>10 DEF UpdateAnswers, UpdateIsUnderWay
  <2>. QED  BY <1>6, <1>7, <2>1, <2>2
<1>11. CASE event.kind = "Error"
  <2>1. ui' = [ui EXCEPT !.state = "error", !.release = 0] /\ output.launched = {}
    BY <1>4, <1>5, <1>11
  <2>. QED  BY <1>6, <1>7, <2>1
<1>12. CASE event.kind = "InstallerStarted"
  <2>1. ui' = [ui EXCEPT !.open = FALSE]
    BY <1>5, <1>12
  <2>2. ~ui'.open
    BY <1>1, <2>1 DEF UpdateUi
  <2>3. /\ shared' = [stop |-> TRUE, cancelled |-> shared.cancelled \cup {ui.check}]
        /\ commands' = Append(commands, [Update!NoCommand EXCEPT !.do = "Shutdown"])
    BY <2>2 DEF Update!HandleUpdateEvent
  <2>. QED  BY <1>1, <2>1, <2>3, UpdateLeaves
<1>. QED  BY <1>4, <1>8, <1>9, <1>10, <1>11, <1>12 DEF UpdateAnswers

\* Every step keeps the invariant.
LEMMA UpdateStep ==
  ASSUME UpdatesAreGood, Update!Worker \/ Update!HandleUpdateEvent \/ Update!User \/ UNCHANGED vars
  PROVE  UpdatesAreGood'
<1>1. CASE Update!Worker
  BY <1>1, UpdateReceives, UpdateChecks, UpdateDownloads, UpdateLaunches, UpdateSends DEF Update!Worker
<1>2. CASE Update!User
  BY <1>2, UpdateAsksAnew, UpdateOthers, UpdateExit DEF Update!User
<1>. QED  BY <1>1, <1>2, UpdatePump, UpdateStutter

LEMMA UpdatePromise ==
  UpdatesAreGood => /\ Update!TypeOK /\ Update!JobIsSomewhere /\ Update!OutcomeIsTrue
                    /\ Update!CancelReachesCheck
<1>. SUFFICES ASSUME UpdatesAreGood
     PROVE  Update!TypeOK /\ Update!JobIsSomewhere /\ Update!OutcomeIsTrue /\ Update!CancelReachesCheck
  OBVIOUS
<1>1. /\ UpdateTypes /\ UpdateIsUnderWay /\ UpdateWorkerIsGood /\ LaunchIsGood
      /\ ui \in UpdateUi /\ commands \in Seq(UpdateCommand) /\ events \in Seq(UpdateEvent)
      /\ ui.release \in 0..MaxStamp /\ ui.check \in 0..MaxJobs
      /\ Len(commands) \in Nat /\ Len(events) \in Nat /\ Len(commands) <= 2 /\ Len(events) <= 1
  <2>1. /\ UpdateTypes /\ UpdateIsUnderWay /\ UpdateWorkerIsGood /\ LaunchIsGood
        /\ ui \in UpdateUi /\ commands \in Seq(UpdateCommand) /\ events \in Seq(UpdateEvent)
    BY DEF UpdatesAreGood, UpdateTypes
  <2>2. Len(commands) <= 2 /\ Len(events) <= 1
    BY <2>1 DEF UpdateIsUnderWay
  <2>3. Len(commands) \in Nat /\ Len(events) \in Nat
    BY <2>1
  <2>. QED  BY <2>1, <2>2, <2>3, UpdateUiTypes
<1>2. Update!TypeOK
  BY <1>1 DEF Update!TypeOK, Update!Releases, UpdateIsUnderWay
<1>3. ASSUME ui.open
      PROVE  /\ Update!UnderWay = (IF Update!Busy THEN 1 ELSE 0)
             /\ \A i \in 1..Len(events) :
                  events[i].kind \in
                    {"Error"} \cup (CASE ui.state = "checking" -> {"UpToDate", "Available"}
                                      [] ui.state = "downloading" -> {"Downloaded"}
                                      [] OTHER -> {"InstallerStarted"})
  <2>1. /\ commands = <<>> \/ Len(commands) = 1
        /\ events = <<>> \/ Len(events) = 1
        /\ Len(<<>>) = 0
    <3>1. Len(commands) = 0 => commands = <<>>
      BY <1>1, EmptySeq
    <3>2. Len(events) = 0 => events = <<>>
      BY <1>1, EmptySeq
    <3>3. Len(commands) <= 1
      BY <1>1, <1>3 DEF UpdateIsUnderWay
    <3>4. \A n \in Nat : n <= 1 => n = 0 \/ n = 1
      OBVIOUS
    <3>5. Len(commands) \in {0, 1} /\ Len(events) \in {0, 1}
      BY <1>1, <3>3, <3>4
    <3>6. Len(<<>>) = 0
      OBVIOUS
    <3>. QED  BY <3>1, <3>2, <3>5, <3>6
  <2>2. /\ commands # <<>> => Len(commands) = 1
        /\ events # <<>> => Len(events) = 1
        /\ commands = <<>> => Len(commands) = 0
        /\ events = <<>> => Len(events) = 0
    BY <2>1
  <2>3. Update!UnderWay = (IF Update!Busy THEN 1 ELSE 0)
    <3>1. worker.at # "ended"
      BY <1>1, <1>3 DEF UpdateIsUnderWay
    <3>2. CASE Update!Busy
      BY <1>1, <1>3, <2>2, <3>1, <3>2 DEF UpdateIsUnderWay, Update!UnderWay
    <3>3. CASE ~Update!Busy
      BY <1>1, <1>3, <2>2, <3>3 DEF UpdateIsUnderWay, Update!UnderWay
    <3>. QED  BY <3>2, <3>3
  <2>4. ASSUME NEW i \in 1..Len(events)
        PROVE  UpdateAnswers(events[i])
    <3>1. i = 1 /\ events # <<>>
      BY <1>1, <2>1
    <3>. QED  BY <1>1, <1>3, <3>1 DEF UpdateIsUnderWay
  <2>. QED  BY <2>3, <2>4 DEF UpdateAnswers
<1>4. Update!JobIsSomewhere
  BY <1>3 DEF Update!JobIsSomewhere
<1>5. Update!OutcomeIsTrue /\ Update!CancelReachesCheck
  BY <1>1 DEF Update!OutcomeIsTrue, Update!CancelReachesCheck, UpdateWorkerIsGood, LaunchIsGood, Checks
<1>. QED  BY <1>2, <1>4, <1>5

-----------------------------------------------------------------------------
(* The file watcher *)

WatcherUi ==
  [open : BOOLEAN, tab : {"empty", "opening", "opened", "ready"}, shown : 0..MaxStamp,
   loaded : 0..MaxStamp, failed : BOOLEAN, at : {"idle", "arm", "spawn", "join"},
   current : 0..MaxWatchers, old : 0..MaxWatchers, next : 1..MaxWatchers + 1]
Thread ==
  [at : {"none", "armed", "wait", "calm", "open", "ended"}, first : 0..MaxStamp,
   seen : 0..MaxStamp, look : 0..MaxStamp, left : 0..Retries]
Running == {"wait", "calm", "open"}

WatcherTypes ==
  /\ ui \in WatcherUi
  /\ shared \in [stopped : SUBSET (1..MaxWatchers), changed : SUBSET (1..MaxWatchers)]
  /\ worker \in [1..MaxWatchers -> Thread]
  /\ events \in BOOLEAN
  /\ output \in [file : 0..MaxStamp, next : 1..MaxStamp + 1, locked : BOOLEAN]

\* Every thread that runs is held by the UI, and only the one that it joins is
\* told to stop.
ThreadsAreHeld ==
  /\ ui.current < ui.next /\ ui.old < ui.next
  /\ ui.at \in {"arm", "spawn"} => ui.next <= MaxWatchers
  /\ ui.at = "join" <=> ui.old # 0
  /\ ui.current # 0 => worker[ui.current].at \in Running /\ ui.current \notin shared.stopped
  /\ ui.old # 0 => ui.old \in shared.stopped
  /\ \A w \in 1..MaxWatchers :
       /\ worker[w].at \in Running => w = ui.current \/ w = ui.old
       /\ w \in shared.stopped => w < ui.next

\* What a thread has seen or is looking at is the file as it is, unless its
\* handle is signalled; and contents are never used again.
FileIsSeen ==
  /\ output.file < output.next
  /\ \A w \in 1..MaxWatchers :
       /\ worker[w].at = "wait" /\ w \notin shared.changed /\ output.file # 0
            => worker[w].seen = output.file
       /\ worker[w].at = "open" /\ w \notin shared.changed => worker[w].look = output.file
       /\ worker[w].seen < output.next /\ worker[w].look < output.next
       /\ worker[w].seen = 0 => worker[w].first = 0

\* What the current watcher has seen change is shown, about to be handled, or
\* out of date already.
ShownIsSeen ==
  ui.current # 0 /\ ui.tab = "ready" /\ ~ui.failed /\ ui.at \in {"idle", "join"} =>
    \/ worker[ui.current].seen = worker[ui.current].first
    \/ worker[ui.current].seen = ui.shown
    \/ events
    \/ worker[ui.current].seen # output.file

WatchersAreGood == WatcherTypes /\ ThreadsAreHeld /\ FileIsSeen /\ ShownIsSeen

LEMMA WatcherInit == Watch!Init => WatchersAreGood
<1>. SUFFICES ASSUME Watch!Init
     PROVE  WatchersAreGood
  OBVIOUS
<1>1. /\ ui = [open |-> TRUE, tab |-> "empty", shown |-> 0, loaded |-> 0, failed |-> FALSE,
               at |-> "idle", current |-> 0, old |-> 0, next |-> 1]
      /\ events = FALSE
      /\ shared = [stopped |-> {}, changed |-> {}]
      /\ worker = [w \in 1..MaxWatchers |->
                     [at |-> "none", first |-> 0, seen |-> 0, look |-> 0, left |-> 0]]
      /\ output = [file |-> 1, next |-> 2, locked |-> FALSE]
  BY DEF Watch!Init, Watch!Watchers, Watch!NoThread, Watch!Absent
<1>2. /\ 0 \in 0..MaxStamp /\ 1 \in 0..MaxStamp /\ 2 \in 1..MaxStamp + 1 /\ 0 \in 0..Retries
      /\ 0 \in 0..MaxWatchers /\ 1 \in 1..MaxWatchers + 1
  BY JobsAssumption
<1>3. ui \in WatcherUi
  BY <1>1, <1>2 DEF WatcherUi
<1>4. [at |-> "none", first |-> 0, seen |-> 0, look |-> 0, left |-> 0] \in Thread
  BY <1>2 DEF Thread
<1>5. worker \in [1..MaxWatchers -> Thread]
  BY <1>1, <1>4
<1>6. output \in [file : 0..MaxStamp, next : 1..MaxStamp + 1, locked : BOOLEAN]
  BY <1>1, <1>2
<1>7. WatcherTypes
  BY <1>1, <1>3, <1>5, <1>6 DEF WatcherTypes
<1>8. ThreadsAreHeld /\ FileIsSeen /\ ShownIsSeen
  BY <1>1 DEF ThreadsAreHeld, FileIsSeen, ShownIsSeen, Running
<1>. QED  BY <1>7, <1>8 DEF WatchersAreGood

LEMMA WatcherStutter == WatchersAreGood /\ UNCHANGED vars => WatchersAreGood'
  BY DEF vars, WatchersAreGood, WatcherTypes, ThreadsAreHeld, FileIsSeen, ShownIsSeen

\* What is known of the numbers' types
LEMMA WatcherNumbers ==
  ASSUME WatcherTypes
  PROVE  /\ ui.current \in 0..MaxWatchers /\ ui.old \in 0..MaxWatchers
         /\ ui.next \in 1..MaxWatchers + 1
         /\ output.file \in 0..MaxStamp /\ output.next \in 1..MaxStamp + 1
         /\ 0 \in 0..MaxStamp /\ 0 \in 0..MaxWatchers /\ 0 \in 0..Retries
         /\ \A w \in 1..MaxWatchers :
              /\ worker[w] \in Thread /\ worker[w].seen \in 0..MaxStamp
              /\ worker[w].look \in 0..MaxStamp /\ worker[w].first \in 0..MaxStamp
              /\ worker[w].left \in 0..Retries
<1>1. 0 \in 0..MaxStamp /\ 0 \in 0..MaxWatchers /\ 0 \in 0..Retries
  BY JobsAssumption
<1>2. \A w \in 1..MaxWatchers : worker[w] \in Thread
  BY DEF WatcherTypes
<1>. QED  BY <1>1, <1>2 DEF WatcherTypes, WatcherUi, Thread

\* What changes neither the file nor a thread, nor which watcher there is.
LEMMA WatcherUiChanges ==
  ASSUME WatchersAreGood, UNCHANGED <<shared, worker, output>>, events' \in BOOLEAN,
         ui' \in WatcherUi, ui'.current = ui.current, ui'.old = ui.old, ui'.next = ui.next,
         ui'.at = ui.at \/ (ui.at = "idle" /\ ui'.at = "arm" /\ ui.next <= MaxWatchers),
         ShownIsSeen'
  PROVE  WatchersAreGood'
<1>1. /\ WatcherTypes /\ ThreadsAreHeld /\ FileIsSeen
      /\ shared' = shared /\ worker' = worker /\ output' = output
  BY DEF WatchersAreGood
<1>2. WatcherTypes'
  BY <1>1 DEF WatcherTypes
<1>3. ThreadsAreHeld'
  BY <1>1 DEF ThreadsAreHeld
<1>4. FileIsSeen'
  BY <1>1 DEF FileIsSeen
<1>. QED  BY <1>2, <1>3, <1>4 DEF WatchersAreGood

LEMMA WatcherOpens ==
  WatchersAreGood /\ (Watch!BeginOpen \/ Watch!Loaded \/ Watch!LoadFails) => WatchersAreGood'
<1>. SUFFICES ASSUME WatchersAreGood, Watch!BeginOpen \/ Watch!Loaded \/ Watch!LoadFails
     PROVE  WatchersAreGood'
  OBVIOUS
<1>1. /\ WatcherTypes /\ ui \in WatcherUi /\ events \in BOOLEAN /\ output.file \in 0..MaxStamp
  BY WatcherNumbers DEF WatchersAreGood, WatcherTypes
<1>2. CASE Watch!BeginOpen
  <2>1. ui' = [ui EXCEPT !.tab = "opening"] /\ UNCHANGED <<shared, worker, events, output>>
    BY <1>2 DEF Watch!BeginOpen
  <2>2. /\ ui' \in WatcherUi /\ ui'.tab = "opening" /\ ui'.current = ui.current /\ ui'.old = ui.old
        /\ ui'.next = ui.next /\ ui'.at = ui.at
    BY <1>1, <2>1 DEF WatcherUi
  <2>3. ShownIsSeen'
    BY <2>2 DEF ShownIsSeen
  <2>. QED  BY <1>1, <2>1, <2>2, <2>3, WatcherUiChanges
<1>3. CASE Watch!Loaded
  <2>1. /\ ui' = [ui EXCEPT !.tab = "opened", !.loaded = output.file]
        /\ UNCHANGED <<shared, worker, events, output>>
    BY <1>3 DEF Watch!Loaded
  <2>2. /\ ui' \in WatcherUi /\ ui'.tab = "opened" /\ ui'.current = ui.current /\ ui'.old = ui.old
        /\ ui'.next = ui.next /\ ui'.at = ui.at
    BY <1>1, <2>1 DEF WatcherUi
  <2>3. ShownIsSeen'
    BY <2>2 DEF ShownIsSeen
  <2>. QED  BY <1>1, <2>1, <2>2, <2>3, WatcherUiChanges
<1>4. CASE Watch!LoadFails
  <2>1. PICK tab \in {"empty", "ready"} : ui' = [ui EXCEPT !.tab = tab, !.failed = TRUE]
    BY <1>4 DEF Watch!LoadFails
  <2>2. /\ ui' \in WatcherUi /\ ui'.failed /\ ui'.current = ui.current /\ ui'.old = ui.old
        /\ ui'.next = ui.next /\ ui'.at = ui.at
    BY <1>1, <2>1 DEF WatcherUi
  <2>3. ShownIsSeen'
    BY <2>2 DEF ShownIsSeen
  <2>4. UNCHANGED <<shared, worker, events, output>>
    BY <1>4 DEF Watch!LoadFails
  <2>. QED  BY <1>1, <2>2, <2>3, <2>4, WatcherUiChanges
<1>. QED  BY <1>2, <1>3, <1>4

\* A document is ready or its tab is shown: the watcher is to be replaced, or
\* stays as it is where the file is gone or the system refuses.
LEMMA WatcherStarts ==
  ASSUME WatchersAreGood, ui.at = "idle", NEW to \in WatcherUi,
         to.at = ui.at, to.current = ui.current, to.old = ui.old, to.next = ui.next,
         Watch!StartsWatching(to), UNCHANGED <<shared, worker, events, output>>
  PROVE  WatchersAreGood'
<1>1. /\ WatcherTypes /\ FileIsSeen /\ events \in BOOLEAN
      /\ worker' = worker /\ output' = output
  BY DEF WatchersAreGood, WatcherTypes
<1>2. CASE output.file # Watch!Absent /\ ui.next <= MaxWatchers /\ ui' = [to EXCEPT !.at = "arm"]
  <2>1. /\ ui' \in WatcherUi /\ ui'.at = "arm" /\ ui'.current = ui.current /\ ui'.old = ui.old
        /\ ui'.next = ui.next
    BY <1>2 DEF WatcherUi
  <2>2. ShownIsSeen'
    BY <2>1 DEF ShownIsSeen
  <2>. QED  BY <1>1, <1>2, <2>1, <2>2, WatcherUiChanges
<1>3. CASE output.file = Watch!Absent /\ ui' = to
  <2>1. \A w \in 1..MaxWatchers : worker[w].seen = worker[w].first \/ worker[w].seen # output.file
    <3>1. ASSUME NEW w \in 1..MaxWatchers, worker[w].seen = 0
          PROVE  worker[w].seen = worker[w].first
      BY <1>1, <3>1 DEF FileIsSeen
    <3>. QED  BY <1>3, <3>1 DEF Watch!Absent
  <2>2. ui.current # 0 => ui.current \in 1..MaxWatchers
    BY <1>1, WatcherNumbers, JobsAssumption
  <2>3. ShownIsSeen'
    BY <1>1, <1>3, <2>1, <2>2 DEF ShownIsSeen
  <2>. QED  BY <1>1, <1>3, <2>3, WatcherUiChanges
<1>4. CASE ui' = [to EXCEPT !.failed = TRUE]
  <2>1. /\ ui' \in WatcherUi /\ ui'.failed /\ ui'.current = ui.current /\ ui'.old = ui.old
        /\ ui'.next = ui.next /\ ui'.at = ui.at
    BY <1>4 DEF WatcherUi
  <2>2. ShownIsSeen'
    BY <2>1 DEF ShownIsSeen
  <2>. QED  BY <1>1, <1>4, <2>1, <2>2, WatcherUiChanges
<1>. QED  BY <1>2, <1>3, <1>4 DEF Watch!StartsWatching

LEMMA WatcherShows ==
  WatchersAreGood /\ (Watch!Opened \/ Watch!Activate \/ Watch!HandleFileChange) => WatchersAreGood'
<1>. SUFFICES ASSUME WatchersAreGood, Watch!Opened \/ Watch!Activate \/ Watch!HandleFileChange
     PROVE  WatchersAreGood'
  OBVIOUS
<1>1. /\ WatcherTypes /\ ShownIsSeen /\ ui \in WatcherUi /\ events \in BOOLEAN /\ ui.at = "idle"
      /\ 0 \in 0..MaxStamp
  BY WatcherNumbers
  DEF WatchersAreGood, WatcherTypes, Watch!Opened, Watch!Activate, Watch!HandleFileChange, Watch!Idle
<1>2. CASE Watch!Opened
  <2> DEFINE to == [ui EXCEPT !.tab = "ready", !.shown = ui.loaded, !.loaded = 0, !.failed = FALSE]
  <2>1. Watch!StartsWatching(to) /\ UNCHANGED <<shared, worker, events, output>>
    BY <1>2 DEF Watch!Opened
  <2>2. ASSUME NEW failed \in BOOLEAN, NEW loaded \in 0..MaxStamp
        PROVE  LET after == [ui EXCEPT !.tab = "ready", !.shown = ui.loaded, !.loaded = loaded,
                                       !.failed = failed]
               IN  /\ after \in WatcherUi /\ after.at = ui.at /\ after.current = ui.current
                   /\ after.old = ui.old /\ after.next = ui.next
    BY <1>1 DEF WatcherUi
  <2>3. /\ to \in WatcherUi /\ to.at = ui.at /\ to.current = ui.current
        /\ to.old = ui.old /\ to.next = ui.next
    BY <1>1, <2>2
  <2>. HIDE DEF to
  <2>. QED  BY <1>1, <2>1, <2>3, WatcherStarts
<1>3. CASE Watch!Activate
  <2>1. Watch!StartsWatching(ui) /\ UNCHANGED <<shared, worker, events, output>>
    BY <1>3 DEF Watch!Activate
  <2>. QED  BY <1>1, <2>1, WatcherStarts
<1>4. CASE Watch!HandleFileChange
  <2>1. /\ ui' = IF ui.tab = "ready" THEN [ui EXCEPT !.tab = "opening"] ELSE ui
        /\ events' = FALSE /\ UNCHANGED <<shared, worker, output>>
    BY <1>4 DEF Watch!HandleFileChange
  <2>2. /\ ui' \in WatcherUi /\ ui'.tab # "ready" /\ ui'.current = ui.current /\ ui'.old = ui.old
        /\ ui'.next = ui.next /\ ui'.at = ui.at
    BY <1>1, <2>1 DEF WatcherUi
  <2>3. ShownIsSeen'
    BY <2>2 DEF ShownIsSeen
  <2>. QED  BY <1>1, <2>1, <2>2, <2>3, WatcherUiChanges
<1>. QED  BY <1>2, <1>3, <1>4

LEMMA WatcherArm == WatchersAreGood /\ Watch!Arm => WatchersAreGood'
<1>. SUFFICES ASSUME WatchersAreGood, Watch!Arm
     PROVE  WatchersAreGood'
  OBVIOUS
<1>1. /\ WatcherTypes /\ ThreadsAreHeld /\ FileIsSeen /\ ui \in WatcherUi /\ ui.at = "arm"
      /\ ui' = [ui EXCEPT !.at = "spawn"] /\ worker' = [worker EXCEPT ![ui.next].at = "armed"]
      /\ shared' = shared /\ events' = events /\ output' = output
      /\ worker \in [1..MaxWatchers -> Thread]
  BY DEF WatchersAreGood, WatcherTypes, Watch!Arm
<1>2. /\ ui.next \in 1..MaxWatchers /\ ui.next # ui.current
      /\ ui.current \in 0..MaxWatchers /\ ui.old \in 0..MaxWatchers
  BY <1>1, WatcherNumbers, JobsAssumption DEF ThreadsAreHeld
<1>3. /\ ui' \in WatcherUi /\ ui'.at = "spawn" /\ ui'.current = ui.current /\ ui'.old = ui.old
      /\ ui'.next = ui.next
  BY <1>1 DEF WatcherUi
<1>4. /\ worker' \in [1..MaxWatchers -> Thread] /\ worker'[ui.next].at = "armed"
      /\ \A w \in 1..MaxWatchers :
           /\ w # ui.next => worker'[w] = worker[w]
           /\ worker'[w].seen = worker[w].seen /\ worker'[w].first = worker[w].first
           /\ worker'[w].look = worker[w].look
  <2>1. worker' = [worker EXCEPT ![ui.next] = [worker[ui.next] EXCEPT !.at = "armed"]]
    BY <1>1
  <2>2. worker[ui.next] \in Thread
    BY <1>1, <1>2
  <2>3. /\ [worker[ui.next] EXCEPT !.at = "armed"] \in Thread
        /\ [worker[ui.next] EXCEPT !.at = "armed"].at = "armed"
        /\ [worker[ui.next] EXCEPT !.at = "armed"].seen = worker[ui.next].seen
        /\ [worker[ui.next] EXCEPT !.at = "armed"].first = worker[ui.next].first
        /\ [worker[ui.next] EXCEPT !.at = "armed"].look = worker[ui.next].look
    BY <2>2 DEF Thread
  <2>. QED  BY <1>1, <1>2, <2>1, <2>3
<1>5. WatcherTypes'
  BY <1>1, <1>3, <1>4 DEF WatcherTypes
<1>6. ThreadsAreHeld'
  BY <1>1, <1>2, <1>3, <1>4 DEF ThreadsAreHeld, Running
<1>7. FileIsSeen'
  BY <1>1, <1>4 DEF FileIsSeen
<1>8. ShownIsSeen'
  BY <1>3 DEF ShownIsSeen
<1>. QED  BY <1>5, <1>6, <1>7, <1>8 DEF WatchersAreGood

LEMMA WatcherSpawn == WatchersAreGood /\ Watch!Spawn => WatchersAreGood'
<1>. SUFFICES ASSUME WatchersAreGood, Watch!Spawn
     PROVE  WatchersAreGood'
  OBVIOUS
<1>1. /\ WatcherTypes /\ ThreadsAreHeld /\ FileIsSeen /\ ui \in WatcherUi /\ ui.at = "spawn"
      /\ events' = events /\ output' = output /\ worker \in [1..MaxWatchers -> Thread]
  BY DEF WatchersAreGood, WatcherTypes, Watch!Spawn
<1>2. /\ ui.next \in 1..MaxWatchers /\ ui.next # ui.current /\ ui.next \notin shared.stopped
      /\ ui.next + 1 \in 1..MaxWatchers + 1 /\ ui.current \in 0..MaxWatchers /\ ui.old = 0
      /\ output.file \in 0..MaxStamp /\ ui.current < ui.next + 1 /\ ui.next < ui.next + 1
      /\ ui.next # 0 /\ ui.next \in 0..MaxWatchers
  BY <1>1, WatcherNumbers, JobsAssumption DEF ThreadsAreHeld
<1>3. /\ ui' = [[ui EXCEPT !.current = ui.next, !.next = ui.next + 1]
                   EXCEPT !.at = IF ui.current = 0 THEN "idle" ELSE "join", !.old = ui.current]
      /\ shared' = [shared EXCEPT !.stopped = shared.stopped \cup ({ui.current} \ {0})]
      /\ worker' = [worker EXCEPT ![ui.next] =
                      [worker[ui.next] EXCEPT !.at = "wait", !.first = output.file, !.seen = output.file]]
  BY <1>1 DEF Watch!Spawn, Watch!Stop
<1>4. /\ ui' \in WatcherUi /\ ui'.at = (IF ui.current = 0 THEN "idle" ELSE "join")
      /\ ui'.current = ui.next /\ ui'.old = ui.current /\ ui'.next = ui.next + 1
  <2>1. ASSUME NEW at \in {"idle", "join"}, NEW next \in 1..MaxWatchers + 1, NEW current \in 0..MaxWatchers,
               NEW old \in 0..MaxWatchers,
               ui' = [[ui EXCEPT !.current = current, !.next = next] EXCEPT !.at = at, !.old = old]
        PROVE  /\ ui' \in WatcherUi /\ ui'.at = at /\ ui'.current = current /\ ui'.old = old
               /\ ui'.next = next
    BY <1>1, <2>1 DEF WatcherUi
  <2>2. PICK at \in {"idle", "join"} : at = IF ui.current = 0 THEN "idle" ELSE "join"
    OBVIOUS
  <2>3. ui' = [[ui EXCEPT !.current = ui.next, !.next = ui.next + 1] EXCEPT !.at = at, !.old = ui.current]
    BY <1>3, <2>2
  <2>4. /\ ui' \in WatcherUi /\ ui'.at = at /\ ui'.current = ui.next /\ ui'.old = ui.current
        /\ ui'.next = ui.next + 1
    BY <1>2, <2>1, <2>3
  <2>. QED  BY <2>2, <2>4
<1>5. /\ shared' \in [stopped : SUBSET (1..MaxWatchers), changed : SUBSET (1..MaxWatchers)]
      /\ shared'.changed = shared.changed
      /\ shared'.stopped = shared.stopped \cup ({ui.current} \ {0})
  <2>1. shared.stopped \cup ({ui.current} \ {0}) \in SUBSET (1..MaxWatchers)
    BY <1>1, <1>2, JobsAssumption DEF WatcherTypes
  <2>. QED  BY <1>1, <1>3, <2>1 DEF WatcherTypes
<1>6. /\ worker' \in [1..MaxWatchers -> Thread] /\ worker'[ui.next].at = "wait"
      /\ worker'[ui.next].first = output.file /\ worker'[ui.next].seen = output.file
      /\ worker'[ui.next].look = worker[ui.next].look
      /\ \A w \in 1..MaxWatchers : w # ui.next => worker'[w] = worker[w]
  <2>1. worker[ui.next] \in Thread
    BY <1>1, <1>2
  <2>2. ASSUME NEW file \in 0..MaxStamp
        PROVE  LET thread == [worker[ui.next] EXCEPT !.at = "wait", !.first = file, !.seen = file]
               IN  /\ thread \in Thread /\ thread.at = "wait" /\ thread.first = file
                   /\ thread.seen = file /\ thread.look = worker[ui.next].look
    BY <2>1 DEF Thread
  <2>. QED  BY <1>1, <1>2, <1>3, <2>2
<1>7. WatcherTypes'
  BY <1>1, <1>4, <1>5, <1>6 DEF WatcherTypes
<1>8. ThreadsAreHeld'
  BY <1>1, <1>2, <1>4, <1>5, <1>6 DEF ThreadsAreHeld, Running
<1>9. FileIsSeen'
  BY <1>1, <1>2, <1>5, <1>6 DEF FileIsSeen
<1>10. ShownIsSeen'
  BY <1>4, <1>6 DEF ShownIsSeen
<1>. QED  BY <1>7, <1>8, <1>9, <1>10 DEF WatchersAreGood

LEMMA WatcherEnds == WatchersAreGood /\ (Watch!Close \/ Watch!Exit) => WatchersAreGood'
<1>. SUFFICES ASSUME WatchersAreGood, Watch!Close \/ Watch!Exit
     PROVE  WatchersAreGood'
  OBVIOUS
<1>1. /\ WatcherTypes /\ ThreadsAreHeld /\ FileIsSeen /\ ui \in WatcherUi /\ ui.at = "idle"
      /\ worker' = worker /\ events' = events /\ output' = output
  BY DEF WatchersAreGood, WatcherTypes, Watch!Close, Watch!Exit, Watch!Idle
<1>2. /\ ui.current \in 0..MaxWatchers /\ ui.old = 0 /\ 0 \in 0..MaxWatchers /\ 0 \in 0..MaxStamp
      /\ ui.next \in 1..MaxWatchers + 1 /\ 0 < ui.next
  BY <1>1, WatcherNumbers, JobsAssumption DEF ThreadsAreHeld
<1>3. /\ ui' \in WatcherUi /\ ui'.at = (IF ui.current = 0 THEN "idle" ELSE "join")
      /\ ui'.current = 0 /\ ui'.old = ui.current /\ ui'.next = ui.next
  <2>1. PICK at \in {"idle", "join"} : at = IF ui.current = 0 THEN "idle" ELSE "join"
    OBVIOUS
  <2>2. ASSUME NEW tab \in {"empty", "opening", "opened", "ready"}, NEW shown \in 0..MaxStamp,
               NEW failed \in BOOLEAN, NEW current \in 0..MaxWatchers, NEW old \in 0..MaxWatchers,
               ui' = [[ui EXCEPT !.tab = tab, !.shown = shown, !.failed = failed, !.current = current]
                        EXCEPT !.at = at, !.old = old]
        PROVE  /\ ui' \in WatcherUi /\ ui'.at = at /\ ui'.current = current /\ ui'.old = old
               /\ ui'.next = ui.next
    BY <1>1, <2>2 DEF WatcherUi
  <2>3. ASSUME NEW open \in BOOLEAN, NEW current \in 0..MaxWatchers, NEW old \in 0..MaxWatchers,
               ui' = [[ui EXCEPT !.open = open, !.current = current] EXCEPT !.at = at, !.old = old]
        PROVE  /\ ui' \in WatcherUi /\ ui'.at = at /\ ui'.current = current /\ ui'.old = old
               /\ ui'.next = ui.next
    BY <1>1, <2>3 DEF WatcherUi
  <2>4. /\ ui' \in WatcherUi /\ ui'.at = at /\ ui'.current = 0 /\ ui'.old = ui.current
        /\ ui'.next = ui.next
    <3>1. CASE Watch!Close
      <4>1. ui' = [[ui EXCEPT !.tab = "empty", !.shown = 0, !.failed = FALSE, !.current = 0]
                     EXCEPT !.at = at, !.old = ui.current]
        BY <2>1, <3>1 DEF Watch!Close, Watch!Stop
      <4>2. PICK tab \in {"empty", "opening", "opened", "ready"} : tab = "empty"
        OBVIOUS
      <4>3. PICK failed \in BOOLEAN : failed = FALSE
        OBVIOUS
      <4>4. PICK shown \in 0..MaxStamp : shown = 0
        BY <1>2
      <4>5. PICK current \in 0..MaxWatchers : current = 0
        BY <1>2
      <4>6. ui' = [[ui EXCEPT !.tab = tab, !.shown = shown, !.failed = failed, !.current = current]
                     EXCEPT !.at = at, !.old = ui.current]
        BY <4>1, <4>2, <4>3, <4>4, <4>5
      <4>7. /\ ui' \in WatcherUi /\ ui'.at = at /\ ui'.current = current /\ ui'.old = ui.current
            /\ ui'.next = ui.next
        BY <1>2, <2>2, <4>6
      <4>. QED  BY <4>5, <4>7
    <3>2. CASE Watch!Exit
      <4>1. ui' = [[ui EXCEPT !.open = FALSE, !.current = 0] EXCEPT !.at = at, !.old = ui.current]
        BY <2>1, <3>2 DEF Watch!Exit, Watch!Stop
      <4>2. PICK open \in BOOLEAN : open = FALSE
        OBVIOUS
      <4>3. ui' = [[ui EXCEPT !.open = open, !.current = 0] EXCEPT !.at = at, !.old = ui.current]
        BY <4>1, <4>2
      <4>. QED  BY <1>2, <2>3, <4>3
    <3>. QED  BY <3>1, <3>2
  <2>. QED  BY <2>1, <2>4
<1>4. /\ shared' \in [stopped : SUBSET (1..MaxWatchers), changed : SUBSET (1..MaxWatchers)]
      /\ shared'.changed = shared.changed
      /\ shared'.stopped = shared.stopped \cup ({ui.current} \ {0})
  <2>1. shared.stopped \cup ({ui.current} \ {0}) \in SUBSET (1..MaxWatchers)
    BY <1>1, <1>2, JobsAssumption DEF WatcherTypes
  <2>2. shared' = [shared EXCEPT !.stopped = shared.stopped \cup ({ui.current} \ {0})]
    BY DEF Watch!Close, Watch!Exit, Watch!Stop
  <2>. QED  BY <1>1, <2>1, <2>2 DEF WatcherTypes
<1>5. WatcherTypes'
  BY <1>1, <1>3, <1>4 DEF WatcherTypes
<1>6. ThreadsAreHeld'
  BY <1>1, <1>2, <1>3, <1>4 DEF ThreadsAreHeld
<1>7. FileIsSeen'
  BY <1>1, <1>4 DEF FileIsSeen
<1>8. ShownIsSeen'
  BY <1>3 DEF ShownIsSeen
<1>. QED  BY <1>5, <1>6, <1>7, <1>8 DEF WatchersAreGood

LEMMA WatcherJoined == WatchersAreGood /\ Watch!Joined => WatchersAreGood'
<1>. SUFFICES ASSUME WatchersAreGood, Watch!Joined
     PROVE  WatchersAreGood'
  OBVIOUS
<1>1. /\ WatcherTypes /\ ThreadsAreHeld /\ FileIsSeen /\ ShownIsSeen /\ ui \in WatcherUi
      /\ ui.at = "join" /\ worker[ui.old].at = "ended" /\ ui' = [ui EXCEPT !.at = "idle", !.old = 0]
      /\ shared' = shared /\ worker' = worker /\ events' = events /\ output' = output
  BY DEF WatchersAreGood, WatcherTypes, Watch!Joined
<1>2. 0 \in 0..MaxWatchers /\ ui.next \in 1..MaxWatchers + 1 /\ 0 < ui.next
  BY <1>1, WatcherNumbers, JobsAssumption
<1>3. /\ ui' \in WatcherUi /\ ui'.at = "idle" /\ ui'.old = 0 /\ ui'.current = ui.current
      /\ ui'.next = ui.next /\ ui'.tab = ui.tab /\ ui'.failed = ui.failed /\ ui'.shown = ui.shown
  <2>1. ASSUME NEW old \in 0..MaxWatchers, ui' = [ui EXCEPT !.at = "idle", !.old = old]
        PROVE  /\ ui' \in WatcherUi /\ ui'.at = "idle" /\ ui'.old = old /\ ui'.current = ui.current
               /\ ui'.next = ui.next /\ ui'.tab = ui.tab /\ ui'.failed = ui.failed
               /\ ui'.shown = ui.shown
    BY <1>1, <2>1 DEF WatcherUi
  <2>. QED  BY <1>1, <1>2, <2>1
<1>5. WatcherTypes'
  BY <1>1, <1>3 DEF WatcherTypes
<1>6. ThreadsAreHeld'
  BY <1>1, <1>2, <1>3 DEF ThreadsAreHeld, Running
<1>7. FileIsSeen'
  BY <1>1 DEF FileIsSeen
<1>8. ShownIsSeen'
  BY <1>1, <1>3 DEF ShownIsSeen
<1>. QED  BY <1>5, <1>6, <1>7, <1>8 DEF WatchersAreGood

\* A step of one thread: it stays the watcher that it was, or ends when told to.
LEMMA ThreadChanges ==
  ASSUME WatchersAreGood, NEW w \in 1..MaxWatchers, NEW thread \in Thread,
         worker' = [worker EXCEPT ![w] = thread], UNCHANGED <<ui, output>>, events' \in BOOLEAN,
         events => events',
         shared' \in [stopped : SUBSET (1..MaxWatchers), changed : SUBSET (1..MaxWatchers)],
         shared'.stopped = shared.stopped, shared.changed \ {w} \subseteq shared'.changed,
         worker[w].at \in Running,
         thread.at \in Running \/ (thread.at = "ended" /\ w \in shared.stopped),
         /\ thread.at = "wait" /\ w \notin shared'.changed /\ output.file # 0
              => thread.seen = output.file,
         thread.at = "open" /\ w \notin shared'.changed => thread.look = output.file,
         thread.seen < output.next, thread.look < output.next,
         thread.seen = 0 => thread.first = 0,
         \/ thread.seen = worker[w].seen /\ thread.first = worker[w].first
         \/ events' \/ w \in shared.stopped
  PROVE  WatchersAreGood'
<1>1. /\ WatcherTypes /\ ThreadsAreHeld /\ FileIsSeen /\ ShownIsSeen
      /\ worker \in [1..MaxWatchers -> Thread] /\ ui' = ui /\ output' = output
  BY DEF WatchersAreGood, WatcherTypes
<1>2. /\ worker' \in [1..MaxWatchers -> Thread] /\ worker'[w] = thread
      /\ \A v \in 1..MaxWatchers : v # w => worker'[v] = worker[v]
  BY <1>1
<1>3. /\ ui.current \in 0..MaxWatchers /\ ui.old \in 0..MaxWatchers
      /\ ui.current # 0 => ui.current \in 1..MaxWatchers
  BY <1>1, WatcherNumbers, JobsAssumption
<1>4. WatcherTypes'
  BY <1>1, <1>2 DEF WatcherTypes
<1>5. ThreadsAreHeld'
  BY <1>1, <1>2, <1>3 DEF ThreadsAreHeld, Running
<1>6. FileIsSeen'
  <2>1. ASSUME NEW v \in 1..MaxWatchers
        PROVE  /\ worker'[v].at = "wait" /\ v \notin shared'.changed /\ output.file # 0
                    => worker'[v].seen = output.file
               /\ worker'[v].at = "open" /\ v \notin shared'.changed => worker'[v].look = output.file
               /\ worker'[v].seen < output.next /\ worker'[v].look < output.next
               /\ worker'[v].seen = 0 => worker'[v].first = 0
    <3>1. CASE v = w
      BY <1>2, <3>1
    <3>2. CASE v # w
      BY <1>1, <1>2, <3>2 DEF FileIsSeen
    <3>. QED  BY <3>1, <3>2
  <2>. QED  BY <1>1, <2>1 DEF FileIsSeen
<1>7. ShownIsSeen'
  <2>1. CASE ui.current = w
    <3>1. w \notin shared.stopped
      BY <1>1, <1>3, <2>1, JobsAssumption DEF ThreadsAreHeld
    <3>. QED  BY <1>1, <1>2, <2>1, <3>1 DEF ShownIsSeen
  <2>2. CASE ui.current # w
    BY <1>1, <1>2, <1>3, <2>2 DEF ShownIsSeen
  <2>. QED  BY <2>1, <2>2
<1>. QED  BY <1>4, <1>5, <1>6, <1>7 DEF WatchersAreGood

\* run_watcher_loop
LEMMA WatcherThreads ==
  ASSUME WatchersAreGood, NEW w \in 1..MaxWatchers, Watch!Thread(w)
  PROVE  WatchersAreGood'
<1>1. /\ WatcherTypes /\ ThreadsAreHeld /\ FileIsSeen
      /\ worker \in [1..MaxWatchers -> Thread] /\ events \in BOOLEAN
      /\ shared \in [stopped : SUBSET (1..MaxWatchers), changed : SUBSET (1..MaxWatchers)]
  BY DEF WatchersAreGood, WatcherTypes
<1>2. /\ worker[w] \in Thread /\ worker[w].seen \in 0..MaxStamp /\ worker[w].look \in 0..MaxStamp
      /\ worker[w].first \in 0..MaxStamp /\ worker[w].left \in 0..Retries
      /\ output.file \in 0..MaxStamp /\ output.next \in 1..MaxStamp + 1
      /\ 0 \in 0..MaxStamp /\ 0 \in 0..Retries
  BY <1>1, WatcherNumbers
<1>3. /\ worker[w].seen < output.next /\ worker[w].look < output.next /\ output.file < output.next
      /\ worker[w].seen = 0 => worker[w].first = 0
      /\ worker[w].at = "wait" /\ w \notin shared.changed /\ output.file # 0
           => worker[w].seen = output.file
      /\ worker[w].at = "open" /\ w \notin shared.changed => worker[w].look = output.file
  BY <1>1 DEF FileIsSeen
<1>4. \A changed \in SUBSET (1..MaxWatchers) :
        /\ [shared EXCEPT !.changed = changed] \in
             [stopped : SUBSET (1..MaxWatchers), changed : SUBSET (1..MaxWatchers)]
        /\ [shared EXCEPT !.changed = changed].stopped = shared.stopped
        /\ [shared EXCEPT !.changed = changed].changed = changed
  BY <1>1
<1>5. shared.changed \ {w} \in SUBSET (1..MaxWatchers)
  BY <1>1
<1>6. CASE Watch!Ends(w)
  <2>1. /\ worker[w].at \in Running /\ w \in shared.stopped
        /\ worker' = [worker EXCEPT ![w] = [Watch!NoThread EXCEPT !.at = "ended"]]
        /\ shared' = [shared EXCEPT !.changed = shared.changed \ {w}]
        /\ UNCHANGED <<ui, events, output>>
    BY <1>6 DEF Watch!Ends, Running
  <2>6. [Watch!NoThread EXCEPT !.at = "ended"]
          = [at |-> "ended", first |-> 0, seen |-> 0, look |-> 0, left |-> 0]
    BY DEF Watch!NoThread, Watch!Absent
  <2> DEFINE thread == [at |-> "ended", first |-> 0, seen |-> 0, look |-> 0, left |-> 0]
  <2>2. thread \in Thread /\ thread.at = "ended" /\ thread.seen = 0 /\ thread.look = 0 /\ thread.first = 0
    BY <1>2 DEF Thread
  <2>3. worker' = [worker EXCEPT ![w] = thread]
    BY <2>1, <2>6
  <2>. HIDE DEF thread
  <2>4. thread.seen < output.next /\ thread.look < output.next
    BY <1>2, <2>2
  <2>5. /\ shared' \in [stopped : SUBSET (1..MaxWatchers), changed : SUBSET (1..MaxWatchers)]
        /\ shared'.stopped = shared.stopped /\ shared.changed \ {w} \subseteq shared'.changed
    BY <1>4, <1>5, <2>1
  <2>. QED  BY <1>1, <2>1, <2>2, <2>3, <2>4, <2>5, ThreadChanges
<1>7. CASE Watch!Wakes(w)
  <2>1. /\ worker[w].at \in Running
        /\ worker' = [worker EXCEPT ![w] = [worker[w] EXCEPT !.at = "calm"]]
        /\ shared' = [shared EXCEPT !.changed = shared.changed \ {w}]
        /\ UNCHANGED <<ui, events, output>>
    BY <1>7 DEF Watch!Wakes, Watch!Rearm, Watch!Goes, Running
  <2> DEFINE thread == [worker[w] EXCEPT !.at = "calm"]
  <2>2. /\ thread \in Thread /\ thread.at = "calm" /\ thread.seen = worker[w].seen
        /\ thread.look = worker[w].look /\ thread.first = worker[w].first /\ thread.at \in Running
    BY <1>2 DEF Thread, Running
  <2>3. worker' = [worker EXCEPT ![w] = thread]
    BY <2>1
  <2>. HIDE DEF thread
  <2>5. /\ shared' \in [stopped : SUBSET (1..MaxWatchers), changed : SUBSET (1..MaxWatchers)]
        /\ shared'.stopped = shared.stopped /\ shared.changed \ {w} \subseteq shared'.changed
    BY <1>4, <1>5, <2>1
  <2>. QED  BY <1>1, <1>3, <2>1, <2>2, <2>3, <2>5, ThreadChanges
<1>8. CASE Watch!Absorbs(w)
  <2>1. /\ worker[w].at = "calm" /\ worker[w].at \in Running
        /\ shared' = [shared EXCEPT !.changed = shared.changed \ {w}]
        /\ UNCHANGED <<ui, worker, events, output>>
    BY <1>8 DEF Watch!Absorbs, Watch!Rearm, Running
  <2>2. worker' = [worker EXCEPT ![w] = worker[w]]
    BY <1>1, <2>1
  <2>5. /\ shared' \in [stopped : SUBSET (1..MaxWatchers), changed : SUBSET (1..MaxWatchers)]
        /\ shared'.stopped = shared.stopped /\ shared.changed \ {w} \subseteq shared'.changed
    BY <1>4, <1>5, <2>1
  <2>6. worker[w].at # "wait" /\ worker[w].at # "open"
    BY <2>1
  <2>. QED  BY <1>1, <1>2, <1>3, <2>1, <2>2, <2>5, <2>6, ThreadChanges
<1>9. CASE Watch!Looks(w)
  <2>1. /\ worker[w].at \in Running
        /\ worker' = [worker EXCEPT ![w] =
                        [worker[w] EXCEPT !.at = "open", !.look = output.file, !.left = Retries]]
        /\ UNCHANGED <<ui, shared, events, output>>
    BY <1>9 DEF Watch!Looks, Running
  <2> DEFINE thread == [worker[w] EXCEPT !.at = "open", !.look = output.file, !.left = Retries]
  <2>0. Retries \in 0..Retries
    BY JobsAssumption
  <2>2. /\ thread \in Thread /\ thread.at = "open" /\ thread.seen = worker[w].seen
        /\ thread.look = output.file /\ thread.first = worker[w].first /\ thread.at \in Running
    BY <1>2, <2>0 DEF Thread, Running
  <2>3. worker' = [worker EXCEPT ![w] = thread]
    BY <2>1
  <2>. HIDE DEF thread
  <2>. QED  BY <1>1, <1>3, <2>1, <2>2, <2>3, ThreadChanges
<1>10. CASE Watch!Waits(w)
  <2>4. /\ worker[w].at = "open" /\ worker[w].left > 0
        /\ worker' = [worker EXCEPT ![w] =
                        [worker[w] EXCEPT !.look = output.file, !.left = worker[w].left - 1]]
        /\ UNCHANGED <<ui, shared, events, output>>
    BY <1>10 DEF Watch!Waits
  <2>5. worker[w].at \in Running
    BY <2>4 DEF Running
  <2> DEFINE thread == [worker[w] EXCEPT !.look = output.file, !.left = worker[w].left - 1]
  <2>0. worker[w].left - 1 \in 0..Retries
    BY <1>2, <2>4, JobsAssumption
  <2>2. /\ thread \in Thread /\ thread.at = worker[w].at /\ thread.seen = worker[w].seen
        /\ thread.look = output.file /\ thread.first = worker[w].first
    BY <1>2, <2>0 DEF Thread
  <2>3. worker' = [worker EXCEPT ![w] = thread]
    BY <2>4
  <2>. HIDE DEF thread
  <2>. QED  BY <1>1, <1>3, <2>4, <2>5, <2>2, <2>3, ThreadChanges
<1>11. CASE Watch!Reports(w)
  <2> DEFINE changed == worker[w].look \notin {0, worker[w].seen}
             seen == IF changed THEN worker[w].look ELSE worker[w].seen
             thread == [worker[w] EXCEPT !.at = "wait", !.seen = seen, !.look = 0, !.left = 0]
  <2>1. /\ worker[w].at = "open" /\ worker[w].at \in Running
        /\ worker' = [worker EXCEPT ![w] = thread] /\ events' = (events \/ changed)
        /\ UNCHANGED <<ui, shared, output>>
    BY <1>11 DEF Watch!Reports, Watch!Absent, Running
  <2>2. /\ seen \in 0..MaxStamp /\ changed \in BOOLEAN /\ seen < output.next
        /\ changed \/ seen = worker[w].seen
        /\ seen = 0 => worker[w].first = 0
        /\ w \notin shared.changed /\ output.file # 0 => seen = output.file
    BY <1>2, <1>3, <2>1
  <2>. HIDE DEF changed, seen
  <2>3. /\ thread \in Thread /\ thread.at = "wait" /\ thread.seen = seen
        /\ thread.look = 0 /\ thread.first = worker[w].first /\ thread.at \in Running
    <3>1. ASSUME NEW zero \in 0..MaxStamp, NEW none \in 0..Retries
          PROVE  LET after == [worker[w] EXCEPT !.at = "wait", !.seen = seen, !.look = zero, !.left = none]
                 IN  /\ after \in Thread /\ after.at = "wait" /\ after.seen = seen
                     /\ after.look = zero /\ after.first = worker[w].first /\ after.at \in Running
      BY <1>2, <2>2 DEF Thread, Running
    <3>. QED  BY <1>2, <3>1
  <2>. HIDE DEF thread
  <2>4. /\ events' \in BOOLEAN /\ (events => events') /\ (changed => events') /\ 0 < output.next
    BY <1>1, <1>2, <2>1, <2>2
  <2>. QED  BY <1>1, <1>3, <2>1, <2>2, <2>3, <2>4, ThreadChanges
<1>. QED  BY <1>6, <1>7, <1>8, <1>9, <1>10, <1>11 DEF Watch!Thread

\* The file is written, removed or unlocked, or another one is: who waits for
\* notifications is notified, unless the writer only lets go of the file.
LEMMA WatcherOthers ==
  WatchersAreGood
    /\ ((\E locked \in BOOLEAN : Watch!Write(locked)) \/ Watch!Remove \/ Watch!Unlock \/ Watch!WriteOther)
  => WatchersAreGood'
<1>. SUFFICES ASSUME WatchersAreGood,
        \/ \E locked \in BOOLEAN : Watch!Write(locked)
        \/ Watch!Remove \/ Watch!Unlock \/ Watch!WriteOther
     PROVE  WatchersAreGood'
  OBVIOUS
<1>1. /\ WatcherTypes /\ ThreadsAreHeld /\ FileIsSeen /\ ShownIsSeen
      /\ shared \in [stopped : SUBSET (1..MaxWatchers), changed : SUBSET (1..MaxWatchers)]
      /\ output \in [file : 0..MaxStamp, next : 1..MaxStamp + 1, locked : BOOLEAN]
      /\ ui' = ui /\ worker' = worker /\ events' = events
  BY DEF WatchersAreGood, WatcherTypes, Watch!Write, Watch!Remove, Watch!Unlock, Watch!WriteOther
<1>2. /\ output.file \in 0..MaxStamp /\ output.next \in 1..MaxStamp + 1 /\ 0 \in 0..MaxStamp
      /\ ui.current \in 0..MaxWatchers /\ (ui.current # 0 => ui.current \in 1..MaxWatchers)
      /\ \A w \in 1..MaxWatchers :
           worker[w].seen \in 0..MaxStamp /\ worker[w].look \in 0..MaxStamp
      /\ output.file < output.next
  BY <1>1, WatcherNumbers, JobsAssumption DEF FileIsSeen
<1>3. ASSUME output' \in [file : 0..MaxStamp, next : 1..MaxStamp + 1, locked : BOOLEAN],
             output'.file = output.file, output'.next = output.next,
             shared' \in [stopped : SUBSET (1..MaxWatchers), changed : SUBSET (1..MaxWatchers)],
             shared'.stopped = shared.stopped,
             \A w \in shared.changed : worker[w].at \in {"wait", "open"} => w \in shared'.changed
      PROVE  WatchersAreGood'
  <2>1. WatcherTypes'
    BY <1>1, <1>3 DEF WatcherTypes
  <2>2. ThreadsAreHeld'
    BY <1>1, <1>3 DEF ThreadsAreHeld
  <2>3. FileIsSeen'
    BY <1>1, <1>3 DEF FileIsSeen
  <2>4. ShownIsSeen'
    BY <1>1, <1>3 DEF ShownIsSeen
  <2>. QED  BY <2>1, <2>2, <2>3, <2>4 DEF WatchersAreGood
<1>4. ASSUME output' \in [file : 0..MaxStamp, next : 1..MaxStamp + 1, locked : BOOLEAN],
             output'.file < output'.next, output.next <= output'.next,
             output'.file = 0 \/ output'.file = output.next,
             shared' \in [stopped : SUBSET (1..MaxWatchers), changed : SUBSET (1..MaxWatchers)],
             shared'.stopped = shared.stopped,
             \A w \in 1..MaxWatchers : worker[w].at \in {"wait", "open"} => w \in shared'.changed
      PROVE  WatchersAreGood'
  <2>0. output'.file \in 0..MaxStamp /\ output'.next \in 1..MaxStamp + 1
    BY <1>4
  <2>1. WatcherTypes'
    BY <1>1, <1>4 DEF WatcherTypes
  <2>2. ThreadsAreHeld'
    BY <1>1, <1>4 DEF ThreadsAreHeld
  <2>3. \A w \in 1..MaxWatchers : worker[w].seen < output'.next /\ worker[w].look < output'.next
    <3>1. ASSUME NEW w \in 1..MaxWatchers
          PROVE  worker[w].seen < output'.next /\ worker[w].look < output'.next
      <4>1. worker[w].seen < output.next /\ worker[w].look < output.next
        BY <1>1 DEF FileIsSeen
      <4>. QED  BY <1>2, <1>4, <2>0, <4>1
    <3>. QED  BY <3>1
  <2>4. FileIsSeen'
    BY <1>1, <1>4, <2>3 DEF FileIsSeen
  <2>5. ShownIsSeen'
    <3>1. ASSUME NEW w \in 1..MaxWatchers
          PROVE  worker[w].seen = worker[w].first \/ worker[w].seen # output'.file
      <4>1. worker[w].seen < output.next /\ (worker[w].seen = 0 => worker[w].first = 0)
        BY <1>1 DEF FileIsSeen
      <4>. QED  BY <1>2, <1>4, <4>1
    <3>. QED  BY <1>1, <1>2, <3>1 DEF ShownIsSeen
  <2>. QED  BY <2>1, <2>2, <2>4, <2>5 DEF WatchersAreGood
<1>5. ASSUME shared' = Watch!Notified
      PROVE  /\ shared' \in [stopped : SUBSET (1..MaxWatchers), changed : SUBSET (1..MaxWatchers)]
             /\ shared'.stopped = shared.stopped
             /\ \A w \in 1..MaxWatchers : worker[w].at \in {"wait", "open"} => w \in shared'.changed
  BY <1>1, <1>5 DEF Watch!Notified, Watch!Watchers
<1>6. ASSUME NEW locked \in BOOLEAN, Watch!Write(locked)
      PROVE  WatchersAreGood'
  <2>1. /\ output.next <= MaxStamp /\ shared' = Watch!Notified
        /\ output' = [file |-> output.next, next |-> output.next + 1, locked |-> locked]
    BY <1>6 DEF Watch!Write
  <2>2. /\ output.next \in 0..MaxStamp /\ output.next + 1 \in 1..MaxStamp + 1
        /\ output.next < output.next + 1 /\ output.next <= output.next + 1
    BY <1>2, <2>1, JobsAssumption
  <2>3. /\ output' \in [file : 0..MaxStamp, next : 1..MaxStamp + 1, locked : BOOLEAN]
        /\ output'.file = output.next /\ output'.next = output.next + 1
    BY <2>1, <2>2
  <2>. QED  BY <1>4, <1>5, <2>1, <2>2, <2>3
<1>7. CASE Watch!Remove
  <2>1. output' = [output EXCEPT !.file = 0, !.locked = FALSE] /\ shared' = Watch!Notified
    BY <1>7 DEF Watch!Remove, Watch!Absent
  <2>2. ASSUME NEW file \in 0..MaxStamp, output' = [output EXCEPT !.file = file, !.locked = FALSE]
        PROVE  /\ output' \in [file : 0..MaxStamp, next : 1..MaxStamp + 1, locked : BOOLEAN]
               /\ output'.file = file /\ output'.next = output.next
    BY <1>1, <2>2
  <2>3. /\ output' \in [file : 0..MaxStamp, next : 1..MaxStamp + 1, locked : BOOLEAN]
        /\ output'.file = 0 /\ output'.next = output.next
    BY <1>2, <2>1, <2>2
  <2>4. 0 < output.next /\ output.next <= output.next
    BY <1>2
  <2>. QED  BY <1>4, <1>5, <2>1, <2>3, <2>4
<1>8. CASE Watch!Unlock
  <2>1. output' = [output EXCEPT !.locked = FALSE] /\ shared' = shared
    BY <1>8 DEF Watch!Unlock
  <2>2. /\ output' \in [file : 0..MaxStamp, next : 1..MaxStamp + 1, locked : BOOLEAN]
        /\ output'.file = output.file /\ output'.next = output.next
    BY <1>1, <2>1
  <2>. QED  BY <1>1, <1>3, <2>1, <2>2
<1>9. CASE Watch!WriteOther
  <2>1. output' = output /\ shared' = Watch!Notified
    BY <1>9 DEF Watch!WriteOther
  <2>2. \A w \in shared.changed : w \in 1..MaxWatchers
    BY <1>1
  <2>. QED  BY <1>1, <1>3, <1>5, <2>1, <2>2
<1>. QED  BY <1>6, <1>7, <1>8, <1>9

\* Every step keeps the invariant.
LEMMA WatcherStep ==
  ASSUME WatchersAreGood, Watch!Worker \/ Watch!Pump \/ Watch!User \/ UNCHANGED vars
  PROVE  WatchersAreGood'
<1>1. CASE Watch!Worker
  BY <1>1, WatcherThreads DEF Watch!Worker, Watch!Watchers
<1>2. CASE Watch!Pump
  BY <1>2, WatcherOpens, WatcherShows, WatcherArm, WatcherSpawn, WatcherJoined DEF Watch!Pump
<1>3. CASE Watch!User
  BY <1>3, WatcherOpens, WatcherShows, WatcherEnds, WatcherOthers DEF Watch!User
<1>. QED  BY <1>1, <1>2, <1>3, WatcherStutter

LEMMA WatcherPromise ==
  WatchersAreGood => /\ Watch!TypeOK /\ Watch!JobIsSomewhere /\ Watch!ChangeIsSeen
                     /\ Watch!OutcomeIsTrue
<1>. SUFFICES ASSUME WatchersAreGood
     PROVE  Watch!TypeOK /\ Watch!JobIsSomewhere /\ Watch!ChangeIsSeen /\ Watch!OutcomeIsTrue
  OBVIOUS
<1>1. /\ WatcherTypes /\ ThreadsAreHeld /\ FileIsSeen /\ ShownIsSeen /\ ui \in WatcherUi
  BY DEF WatchersAreGood, WatcherTypes
<1>2. /\ ui.current \in 0..MaxWatchers /\ ui.old \in 0..MaxWatchers /\ ui.shown \in 0..MaxStamp
      /\ \A w \in 1..MaxWatchers : worker[w].seen \in 0..MaxStamp /\ worker[w].left \in 0..Retries
      /\ ui.current # 0 => ui.current \in 1..MaxWatchers
  BY <1>1, WatcherNumbers, JobsAssumption DEF WatcherUi
<1>3. Watch!TypeOK
  <2>1. shared.stopped \cup shared.changed \subseteq 1..MaxWatchers /\ events \in BOOLEAN
    BY <1>1 DEF WatcherTypes
  <2>. QED  BY <1>2, <2>1 DEF Watch!TypeOK, Watch!Watchers
<1>4. Watch!JobIsSomewhere
  BY <1>1, <1>2 DEF Watch!JobIsSomewhere, Watch!Watchers, ThreadsAreHeld, Running
<1>5. Watch!ChangeIsSeen
  BY <1>1 DEF Watch!ChangeIsSeen, Watch!Watchers, Watch!Resting, Watch!Absent, FileIsSeen
<1>6. Watch!OutcomeIsTrue
  BY <1>1, <1>2 DEF Watch!OutcomeIsTrue, Watch!Idle, Watch!Resting, Watch!Absent, FileIsSeen, ShownIsSeen
<1>. QED  BY <1>3, <1>4, <1>5, <1>6

-----------------------------------------------------------------------------
(* File tools *)

IsSeq(s) == \E S : s \in Seq(S)

ToolKey == [id : 0..MaxJobs, stamp : 0..MaxStamp]
IsRequest(r) == r \in [key : ToolKey, sources : {r.sources}]
Works == {"register", "check", "preflight", "write", "written", "clear"}
Pends == worker.pending # Tools!NotPending
Asks(event) == event.kind = "PasswordRequired"

IsToolUi(u) ==
  u \in [open : BOOLEAN, job : ToolKey, prompt : BOOLEAN, awaited : {u.awaited},
         stamp : 1..MaxStamp, next : 1..MaxJobs + 1]
ToolShared ==
  [active : BOOLEAN, current : 0..MaxJobs, cancelled : SUBSET (1..MaxJobs), shutdown : BOOLEAN]
IsToolWorker(w) ==
  w \in [at : {"head", "recv", "send", "ended"} \cup Works, request : {w.request},
         pending : {w.pending}, event : {w.event}]
IsPending(p) == p \in [request : {p.request}, source : {p.source}]

\* What a file is known by is left open: such a record's type is told from itself.
ToolTypes ==
  /\ IsToolUi(ui) /\ IsToolWorker(worker) /\ shared \in ToolShared
  /\ IsSeq(commands) /\ Len(commands) <= CommandCap /\ IsSeq(events)
  /\ IsPending(worker.pending) /\ IsRequest(worker.request) /\ IsRequest(worker.pending.request)
  /\ output \in SUBSET (1..MaxJobs)

\* A start waits alone, behind what is left of older jobs; a password is the only
\* trace of the question it answers.
CommandIsGood(i) ==
  /\ commands[i].do \in {"Start", "Cancel", "ProvidePassword", "Shutdown"}
  /\ commands[i].do = "Start" =>
       /\ IsRequest(commands[i].request) /\ commands[i].request.key = ui.job
       /\ ui.job.id # 0 /\ ui.job.id \notin output
       /\ worker.at \in {"head", "recv", "ended"} /\ ~Pends /\ events = <<>> /\ ~ui.prompt
       /\ \A j \in i + 1..Len(commands) : commands[j].do \notin {"Start", "ProvidePassword"}
  /\ commands[i].do = "Cancel" => commands[i].key.id \in shared.cancelled
  /\ commands[i].do = "ProvidePassword" =>
       /\ ~ui.prompt /\ worker.at \notin Works
       /\ worker.at = "send" => ~Asks(worker.event)
       /\ \A j \in 1..Len(events) : ~Asks(events[j])
       /\ \A j \in i + 1..Len(commands) : commands[j].do # "ProvidePassword"
       /\ Pends => /\ commands[i].key = worker.pending.request.key
                   /\ commands[i].source = worker.pending.source
  /\ commands[i].do = "Shutdown" => ~ui.open

CommandsAreGood == \A i \in 1..Len(commands) : CommandIsGood(i)

\* The worker has the UI's job in hand, waits for a password, or neither.
ToolWorkerIsGood ==
  /\ worker.at \in Works =>
       worker.request.key = ui.job /\ ui.job.id # 0 /\ ~Pends /\ events = <<>> /\ ~ui.prompt
  /\ worker.at \notin Works => worker.request = Tools!NoRequest
  /\ worker.at = "clear" => Tools!Terminal(worker.event) /\ worker.event.key = ui.job
  /\ worker.at = "send" =>
       /\ worker.event.key = ui.job /\ ui.job.id # 0
       /\ \/ Tools!Terminal(worker.event) /\ ~Pends
          \/ /\ Asks(worker.event) /\ Pends /\ worker.event.source = worker.pending.source
             /\ events = <<>> /\ ~ui.prompt
  /\ Pends => /\ worker.pending.request.key = ui.job /\ ui.job.id # 0
              /\ worker.at \in {"head", "recv", "send"}
              /\ ui.prompt => ui.awaited = worker.pending.source

\* At most a question and the last event are on their way, and no question while
\* the dialog shows.  A question that nobody waits with is of a cancelled job.
EventIsGood(i) ==
  /\ events[i].key = ui.job /\ ui.job.id # 0
  /\ \/ /\ Asks(events[i]) /\ i = 1 /\ ~ui.prompt
        /\ IF Pends THEN events[i].source = worker.pending.source
           ELSE ui.job.id \in shared.cancelled
     \/ /\ Tools!Terminal(events[i]) /\ i = Len(events) /\ ~Pends
        /\ worker.at \in {"head", "recv"} /\ ~shared.active

EventsAreGood == \A i \in 1..Len(events) : EventIsGood(i)

\* While the application runs, the UI's job is somewhere and the worker takes
\* the next one once it is not.
ToolJobIsHeld ==
  /\ ui.job.id < ui.next /\ (ui.job.id = 0 => ui.job = Tools!NoKey)
  /\ ~ui.open => events = <<>>
  /\ ui.open =>
       /\ ~shared.shutdown /\ worker.at # "ended"
       /\ ui.job.id = 0 => ~shared.active /\ ~ui.prompt
       /\ ui.prompt => Pends \/ ui.job.id \in shared.cancelled
       /\ ui.job.id # 0 =>
            \/ \E i \in 1..Len(commands) : commands[i].do = "Start"
            \/ worker.at \in Works \cup {"send"} \/ Pends
            \/ \E i \in 1..Len(events) : Tools!Terminal(events[i])
       /\ worker.at = "send" /\ Tools!Terminal(worker.event) => ~shared.active

\* What an event says of the output
SaysTheTruth(event) ==
  /\ event.kind = "Completed" => ui.job.id \in output
  /\ event.kind = "Failed" => ui.job.id \notin output

\* A job has no output until it is written, and is not written twice.
ToolOutputIsGood ==
  /\ \A id \in output : id < ui.next
  /\ worker.at \in {"register", "check", "preflight", "write"} \/ Pends => ui.job.id \notin output
  /\ worker.at = "written" => ui.job.id \in output
  /\ worker.at \in {"clear", "send"} => SaysTheTruth(worker.event)
  /\ \A i \in 1..Len(events) : SaysTheTruth(events[i])

ToolsAreGood ==
  /\ ToolTypes /\ CommandsAreGood /\ ToolWorkerIsGood /\ EventsAreGood
  /\ ToolJobIsHeld /\ ToolOutputIsGood

LEMMA SeqAppend ==
  ASSUME NEW s, IsSeq(s), NEW e
  PROVE  /\ IsSeq(Append(s, e)) /\ Len(s) \in Nat /\ Len(Append(s, e)) = Len(s) + 1
         /\ \A i \in 1..Len(s) : Append(s, e)[i] = s[i]
         /\ Append(s, e)[Len(s) + 1] = e /\ Append(s, e) # <<>>
<1>1. PICK S : s \in Seq(S)
  BY DEF IsSeq
<1>2. s \in Seq(S \cup {e}) /\ e \in S \cup {e}
  BY <1>1
<1>. QED  BY <1>2, AppendType DEF IsSeq

LEMMA SeqTail ==
  ASSUME NEW s, IsSeq(s), s # <<>>
  PROVE  /\ IsSeq(Tail(s)) /\ Len(s) \in Nat /\ Len(Tail(s)) = Len(s) - 1 /\ Head(s) = s[1]
         /\ \A i \in 1..Len(Tail(s)) : Tail(s)[i] = s[i + 1] /\ i + 1 \in 1..Len(s)
         /\ 1 \in 1..Len(s)
<1>1. PICK S : s \in Seq(S)
  BY DEF IsSeq
<1>. QED  BY <1>1, TailType DEF IsSeq

LEMMA SeqEmpty ==
  /\ IsSeq(<<>>) /\ Len(<<>>) = 0
  /\ \A s : IsSeq(s) /\ Len(s) = 0 => s = <<>>
<1>1. <<>> \in Seq({}) /\ Len(<<>>) = 0
  OBVIOUS
<1>. QED  BY <1>1, EmptySeq DEF IsSeq

LEMMA ToolKeyType == Tools!NoKey \in ToolKey /\ Tools!NoKey.id = 0
  BY JobsAssumption DEF Tools!NoKey, ToolKey

LEMMA NoRequestType ==
  /\ IsRequest(Tools!NoRequest) /\ Tools!NoRequest.key = Tools!NoKey
  /\ IsPending(Tools!NotPending) /\ Tools!NotPending.request = Tools!NoRequest
<1>1. IsRequest(Tools!NoRequest) /\ Tools!NoRequest.key = Tools!NoKey
  BY ToolKeyType DEF Tools!NoRequest, IsRequest
<1>. QED  BY <1>1 DEF Tools!NotPending, IsPending

LEMMA ToolInit == Tools!Init => ToolsAreGood
<1>. SUFFICES ASSUME Tools!Init
     PROVE  ToolsAreGood
  OBVIOUS
<1>1. /\ ui = [open |-> TRUE, job |-> Tools!NoKey, prompt |-> FALSE, awaited |-> Tools!NoSource,
               stamp |-> 1, next |-> 1]
      /\ commands = <<>> /\ events = <<>> /\ output = {}
      /\ shared = [active |-> FALSE, current |-> 0, cancelled |-> {}, shutdown |-> FALSE]
      /\ worker = [at |-> "head", request |-> Tools!NoRequest, pending |-> Tools!NotPending,
                   event |-> Tools!NoEvent]
  BY DEF Tools!Init
<1>2. 0 \in 0..MaxJobs /\ 1 \in 1..MaxStamp /\ 1 \in 1..MaxJobs + 1 /\ 0 <= CommandCap
  BY JobsAssumption
<1>3. /\ IsToolUi(ui) /\ ui.open /\ ui.job = Tools!NoKey /\ ~ui.prompt /\ ui.next = 1
  BY <1>1, <1>2, ToolKeyType DEF IsToolUi
<1>4. /\ IsToolWorker(worker) /\ worker.at = "head" /\ worker.request = Tools!NoRequest
      /\ worker.pending = Tools!NotPending
  BY <1>1 DEF IsToolWorker
<1>5. shared \in ToolShared /\ ~shared.active /\ ~shared.shutdown
  BY <1>1, <1>2 DEF ToolShared
<1>6. ToolTypes
  BY <1>1, <1>2, <1>3, <1>4, <1>5, SeqEmpty, NoRequestType DEF ToolTypes
<1>7. Len(commands) = 0 /\ Len(events) = 0 /\ ui.job.id = 0
  BY <1>1, <1>3, ToolKeyType, SeqEmpty
<1>8. CommandsAreGood /\ EventsAreGood
  BY <1>7 DEF CommandsAreGood, EventsAreGood
<1>9. ToolWorkerIsGood
  BY <1>4 DEF ToolWorkerIsGood, Works, Pends
<1>10. ToolJobIsHeld /\ ToolOutputIsGood
  BY <1>1, <1>3, <1>4, <1>5, <1>7 DEF ToolJobIsHeld, ToolOutputIsGood, Pends
<1>. QED  BY <1>6, <1>8, <1>9, <1>10 DEF ToolsAreGood

LEMMA ToolStutter == ToolsAreGood /\ UNCHANGED vars => ToolsAreGood'
<1>. SUFFICES ASSUME ToolsAreGood, UNCHANGED vars
     PROVE  ToolsAreGood'
  OBVIOUS
<1>1. /\ ui' = ui /\ commands' = commands /\ shared' = shared /\ worker' = worker
      /\ events' = events /\ output' = output
  BY DEF vars
<1>2. ToolTypes'
  BY <1>1 DEF ToolsAreGood, ToolTypes
<1>3. CommandsAreGood'
  BY <1>1 DEF ToolsAreGood, CommandsAreGood, CommandIsGood, Pends
<1>4. EventsAreGood'
  BY <1>1 DEF ToolsAreGood, EventsAreGood, EventIsGood, Pends
<1>5. ToolWorkerIsGood'
  BY <1>1 DEF ToolsAreGood, ToolWorkerIsGood, Pends
<1>6. ToolJobIsHeld' /\ ToolOutputIsGood'
  BY <1>1 DEF ToolsAreGood, ToolJobIsHeld, ToolOutputIsGood, SaysTheTruth, Pends
<1>. QED  BY <1>2, <1>3, <1>4, <1>5, <1>6 DEF ToolsAreGood

\* While the worker has the job in hand there is nothing else of it.
LEMMA ToolInHand ==
  ASSUME ToolsAreGood, worker.at \in Works
  PROVE  /\ worker.request.key = ui.job /\ ui.job.id # 0 /\ ~Pends /\ events = <<>> /\ ~ui.prompt
         /\ \A i \in 1..Len(commands) : commands[i].do \in {"Cancel", "Shutdown"}
<1>1. worker.at \notin {"head", "recv", "ended"}
  BY DEF Works
<1>. QED
  BY <1>1 DEF ToolsAreGood, ToolWorkerIsGood, CommandsAreGood, CommandIsGood

\* What run_and_emit does, of which the queues hear nothing.
LEMMA ToolWorking ==
  ASSUME ToolsAreGood, worker.at \in Works, UNCHANGED <<ui, commands, events>>,
         shared'.cancelled = shared.cancelled, shared'.shutdown = shared.shutdown,
         worker'.at \in Works \cup {"send"},
         worker'.at = "send" /\ Tools!Terminal(worker'.event) => ~shared'.active,
         ToolTypes', ToolWorkerIsGood', ToolOutputIsGood'
  PROVE  ToolsAreGood'
<1>1. /\ ui.job.id # 0 /\ events = <<>> /\ ~ui.prompt /\ CommandsAreGood /\ ToolJobIsHeld
      /\ \A i \in 1..Len(commands) : commands[i].do \in {"Cancel", "Shutdown"}
      /\ ui' = ui /\ commands' = commands /\ events' = events
  BY ToolInHand DEF ToolsAreGood
<1>2. CommandsAreGood'
  <2>1. ASSUME NEW i \in 1..Len(commands)
        PROVE  CommandIsGood(i)'
    <3>1. /\ commands[i].do \in {"Cancel", "Shutdown"}
          /\ commands[i].do = "Cancel" => commands[i].key.id \in shared.cancelled
          /\ commands[i].do = "Shutdown" => ~ui.open
      BY <1>1 DEF CommandsAreGood, CommandIsGood
    <3>. QED  BY <1>1, <3>1 DEF CommandIsGood
  <2>. QED  BY <1>1, <2>1 DEF CommandsAreGood
<1>3. EventsAreGood'
  BY <1>1, SeqEmpty DEF EventsAreGood
<1>4. ToolJobIsHeld'
  <2>1. worker'.at # "ended"
    BY DEF Works
  <2>. QED  BY <1>1, <2>1 DEF ToolJobIsHeld
<1>. QED  BY <1>2, <1>3, <1>4 DEF ToolsAreGood

LEMMA ToolGoesOn ==
  ASSUME ToolsAreGood, worker.at \in Works, UNCHANGED <<ui, commands, events>>,
         NEW at \in {"check", "preflight", "write", "written"},
         worker' = [worker EXCEPT !.at = at],
         shared' \in ToolShared, shared'.cancelled = shared.cancelled,
         shared'.shutdown = shared.shutdown,
         output' \in SUBSET (1..MaxJobs), \A id \in output' : id < ui.next,
         at = "written" <=> ui.job.id \in output'
  PROVE  ToolsAreGood'
<1>1. /\ IsToolWorker(worker) /\ ToolTypes /\ ~Pends
      /\ worker.request.key = ui.job /\ ui.job.id # 0 /\ events = <<>> /\ ~ui.prompt
  BY ToolInHand DEF ToolsAreGood, ToolTypes
<1>2. /\ IsToolWorker(worker') /\ worker'.at = at /\ worker'.request = worker.request
      /\ worker'.pending = worker.pending /\ worker'.event = worker.event
  BY <1>1 DEF IsToolWorker, Works
<1>3. ToolTypes'
  BY <1>1, <1>2 DEF ToolTypes
<1>4. ToolWorkerIsGood'
  BY <1>1, <1>2 DEF ToolWorkerIsGood, Pends, Works
<1>5. ToolOutputIsGood'
  BY <1>1, <1>2, SeqEmpty DEF ToolOutputIsGood, Pends
<1>6. worker'.at \in Works /\ worker'.at # "send"
  BY <1>2 DEF Works
<1>. QED  BY <1>3, <1>4, <1>5, <1>6, ToolWorking

LEMMA ToolEnding ==
  ASSUME ToolsAreGood, worker.at \in {"check", "preflight", "write", "written"},
         UNCHANGED <<ui, commands, shared, events, output>>,
         NEW kind \in {"Completed", "Cancelled", "Failed"},
         worker' = Tools!Ending(Tools!Event(kind, worker.request.key)),
         kind = "Completed" => worker.at = "written",
         kind = "Failed" => worker.at \in {"preflight", "write"}
  PROVE  ToolsAreGood'
<1>0. worker.at \in Works
  BY DEF Works
<1>1. /\ IsToolWorker(worker) /\ ToolTypes /\ ToolOutputIsGood /\ ~Pends
      /\ worker.request.key = ui.job /\ ui.job.id # 0 /\ events = <<>> /\ ~ui.prompt
  BY <1>0, ToolInHand DEF ToolsAreGood, ToolTypes
<1> DEFINE event == [kind |-> kind, key |-> worker.request.key]
<1>2. worker' = [worker EXCEPT !.at = "clear", !.event = event]
  BY DEF Tools!Ending, Tools!Event
<1>3. event.kind = kind /\ event.key = ui.job
  BY <1>1
<1>. HIDE DEF event
<1>4. /\ IsToolWorker(worker') /\ worker'.at = "clear" /\ worker'.request = worker.request
      /\ worker'.pending = worker.pending /\ worker'.event = event
  BY <1>1, <1>2 DEF IsToolWorker, Works
<1>5. ToolTypes'
  BY <1>1, <1>4 DEF ToolTypes
<1>6. ToolWorkerIsGood'
  BY <1>1, <1>3, <1>4 DEF ToolWorkerIsGood, Pends, Works, Tools!Terminal
<1>7. ToolOutputIsGood'
  BY <1>1, <1>3, <1>4, SeqEmpty DEF ToolOutputIsGood, Pends, SaysTheTruth
<1>8. worker'.at \in Works /\ worker'.at # "send"
  BY <1>4 DEF Works
<1>. QED  BY <1>0, <1>5, <1>6, <1>7, <1>8, ToolWorking

LEMMA ToolRuns ==
  ASSUME ToolsAreGood, Tools!Register \/ Tools!Check \/ Tools!Write \/ Tools!Written
  PROVE  ToolsAreGood'
<1>1. /\ ToolTypes /\ ToolOutputIsGood /\ ToolJobIsHeld /\ shared \in ToolShared /\ output \in SUBSET (1..MaxJobs)
      /\ IsRequest(worker.request) /\ worker.at \in Works
  BY DEF ToolsAreGood, ToolTypes, Tools!Register, Tools!Check, Tools!Write, Tools!Written, Works
<1>2. /\ worker.request.key = ui.job /\ worker.request.key.id \in 0..MaxJobs /\ ui.job.id # 0
      /\ ui.job.id < ui.next /\ \A id \in output : id < ui.next
  BY <1>1, ToolInHand DEF IsRequest, ToolKey, ToolJobIsHeld, ToolOutputIsGood
<1>3. CASE Tools!Register
  <2>1. /\ worker.at = "register" /\ worker' = [worker EXCEPT !.at = "check"]
        /\ shared' = [shared EXCEPT !.current = worker.request.key.id]
        /\ UNCHANGED <<ui, commands, events, output>>
    BY <1>3 DEF Tools!Register
  <2>2. /\ shared' \in ToolShared /\ shared'.cancelled = shared.cancelled
        /\ shared'.shutdown = shared.shutdown
    BY <1>1, <1>2, <2>1 DEF ToolShared
  <2>3. ui.job.id \notin output
    BY <1>1, <2>1 DEF ToolOutputIsGood
  <2>. QED  BY <1>1, <1>2, <2>1, <2>2, <2>3, ToolGoesOn
<1>4. CASE Tools!Check
  <2>1. /\ worker.at = "check" /\ UNCHANGED <<ui, commands, shared, events, output>>
        /\ \/ worker' = Tools!Ending(Tools!Event("Cancelled", worker.request.key))
           \/ worker' = [worker EXCEPT !.at = "preflight"]
    BY <1>4 DEF Tools!Check
  <2>3. ui.job.id \notin output
    BY <1>1, <2>1 DEF ToolOutputIsGood
  <2>. QED  BY <1>1, <1>2, <2>1, <2>3, ToolGoesOn, ToolEnding
<1>5. CASE Tools!Write
  <2>1. /\ worker.at = "write" /\ UNCHANGED <<ui, commands, shared, events>>
        /\ \/ worker' = Tools!Ending(Tools!Event("Failed", worker.request.key)) /\ UNCHANGED output
           \/ worker' = Tools!Ending(Tools!Event("Cancelled", worker.request.key)) /\ UNCHANGED output
           \/ worker' = [worker EXCEPT !.at = "written"] /\ output' = output \cup {worker.request.key.id}
    BY <1>5 DEF Tools!Write
  <2>2. CASE UNCHANGED output /\ worker' = Tools!Ending(Tools!Event("Failed", worker.request.key))
    BY <2>1, <2>2, ToolEnding
  <2>3. CASE UNCHANGED output /\ worker' = Tools!Ending(Tools!Event("Cancelled", worker.request.key))
    BY <2>1, <2>3, ToolEnding
  <2>4. CASE worker' = [worker EXCEPT !.at = "written"] /\ output' = output \cup {worker.request.key.id}
    <3>1. /\ output' \in SUBSET (1..MaxJobs) /\ ui.job.id \in output'
          /\ \A id \in output' : id < ui.next
      BY <1>1, <1>2, <2>4, JobsAssumption
    <3>. QED  BY <1>1, <2>1, <2>4, <3>1, ToolGoesOn
  <2>. QED  BY <2>1, <2>2, <2>3, <2>4
<1>6. CASE Tools!Written
  <2>1. /\ worker.at = "written" /\ UNCHANGED <<ui, commands, shared, events, output>>
        /\ \/ worker' = Tools!Ending(Tools!Event("Completed", worker.request.key))
           \/ worker' = Tools!Ending(Tools!Event("Cancelled", worker.request.key))
    BY <1>6 DEF Tools!Written
  <2>. QED  BY <2>1, ToolEnding
<1>. QED  BY <1>3, <1>4, <1>5, <1>6

LEMMA ToolPreflight == ToolsAreGood /\ Tools!Preflight => ToolsAreGood'
<1>. SUFFICES ASSUME ToolsAreGood, Tools!Preflight
     PROVE  ToolsAreGood'
  OBVIOUS
<1> DEFINE request == worker.request
           source == Head(request.sources)
           pending == [request |-> request, source |-> source]
           event == [kind |-> "PasswordRequired", key |-> request.key, source |-> source]
<1>1. /\ worker.at = "preflight" /\ worker.at \in Works
      /\ UNCHANGED <<ui, commands, shared, events, output>>
      /\ \/ worker' = Tools!Ending(Tools!Event("Failed", worker.request.key))
         \/ worker' = Tools!Ending(Tools!Event("Cancelled", worker.request.key))
         \/ worker' = [worker EXCEPT !.at = "write"]
         \/ worker' = [worker EXCEPT !.at = "send", !.request = Tools!NoRequest,
                                     !.pending = pending, !.event = event]
  BY DEF Tools!Preflight, Works
<1>2. /\ ToolTypes /\ ToolOutputIsGood /\ shared \in ToolShared /\ output \in SUBSET (1..MaxJobs)
      /\ IsToolWorker(worker) /\ IsRequest(request) /\ \A id \in output : id < ui.next
      /\ ui.job.id \notin output
      /\ request.key = ui.job /\ ui.job.id # 0 /\ ~Pends /\ events = <<>> /\ ~ui.prompt
  BY <1>1, ToolInHand DEF ToolsAreGood, ToolTypes, ToolOutputIsGood
<1>3. CASE \/ worker' = Tools!Ending(Tools!Event("Failed", worker.request.key))
           \/ worker' = Tools!Ending(Tools!Event("Cancelled", worker.request.key))
  BY <1>1, <1>3, ToolEnding
<1>4. CASE worker' = [worker EXCEPT !.at = "write"]
  BY <1>1, <1>2, <1>4, ToolGoesOn
<1>5. CASE worker' = [worker EXCEPT !.at = "send", !.request = Tools!NoRequest,
                                    !.pending = pending, !.event = event]
  <2>1. /\ pending.request = request /\ pending.source = source /\ IsPending(pending)
        /\ event.kind = "PasswordRequired" /\ event.key = ui.job /\ event.source = source
    BY <1>2 DEF IsPending
  <2>2. pending # Tools!NotPending
    BY <1>2, <2>1, ToolKeyType, NoRequestType
  <2>. HIDE DEF pending, event, source, request
  <2>3. /\ IsToolWorker(worker') /\ worker'.at = "send" /\ worker'.request = Tools!NoRequest
        /\ worker'.pending = pending /\ worker'.event = event
    BY <1>2, <1>5 DEF IsToolWorker
  <2>4. Pends' /\ ~(worker'.at \in Works)
    BY <2>2, <2>3 DEF Pends, Works
  <2>5. ToolTypes'
    BY <1>1, <1>2, <2>1, <2>3, NoRequestType DEF ToolTypes
  <2>6. ToolWorkerIsGood'
    BY <1>1, <1>2, <2>1, <2>3, <2>4 DEF ToolWorkerIsGood, Asks
  <2>7. ToolOutputIsGood'
    BY <1>1, <1>2, <2>1, <2>3, SeqEmpty DEF ToolOutputIsGood, SaysTheTruth
  <2>8. ~Tools!Terminal(worker'.event)
    BY <2>1, <2>3 DEF Tools!Terminal
  <2>. QED  BY <1>1, <2>3, <2>5, <2>6, <2>7, <2>8, ToolWorking
<1>. QED  BY <1>1, <1>3, <1>4, <1>5

LEMMA ToolClear == ToolsAreGood /\ Tools!Clear => ToolsAreGood'
<1>. SUFFICES ASSUME ToolsAreGood, Tools!Clear
     PROVE  ToolsAreGood'
  OBVIOUS
<1>1. /\ worker.at = "clear" /\ worker.at \in Works
      /\ worker' = [worker EXCEPT !.at = "send", !.request = Tools!NoRequest]
      /\ shared' = [shared EXCEPT !.active = FALSE, !.current = 0]
      /\ ui' = ui /\ commands' = commands /\ events' = events /\ output' = output
  BY DEF Tools!Clear, Works
<1>2. /\ ToolTypes /\ ToolOutputIsGood /\ ToolWorkerIsGood /\ shared \in ToolShared /\ IsToolWorker(worker)
      /\ ui.job.id # 0 /\ ~Pends /\ events = <<>> /\ ~ui.prompt
  BY <1>1, ToolInHand DEF ToolsAreGood, ToolTypes
<1>3. /\ Tools!Terminal(worker.event) /\ worker.event.key = ui.job /\ SaysTheTruth(worker.event)
      /\ \A id \in output : id < ui.next
  BY <1>1, <1>2 DEF ToolWorkerIsGood, ToolOutputIsGood
<1>4. /\ shared' \in ToolShared /\ ~shared'.active /\ shared'.cancelled = shared.cancelled
      /\ shared'.shutdown = shared.shutdown
  <2>1. ASSUME NEW current \in 0..MaxJobs, NEW active \in BOOLEAN, ~active,
               shared' = [shared EXCEPT !.active = active, !.current = current]
        PROVE  /\ shared' \in ToolShared /\ ~shared'.active /\ shared'.cancelled = shared.cancelled
               /\ shared'.shutdown = shared.shutdown
    BY <1>2, <2>1 DEF ToolShared
  <2>2. 0 \in 0..MaxJobs
    BY JobsAssumption
  <2>3. PICK active \in BOOLEAN : active = FALSE
    OBVIOUS
  <2>. QED  BY <1>1, <2>1, <2>2, <2>3
<1>5. /\ IsToolWorker(worker') /\ worker'.at = "send" /\ worker'.request = Tools!NoRequest
      /\ worker'.pending = worker.pending /\ worker'.event = worker.event
  BY <1>1, <1>2 DEF IsToolWorker
<1>6. ToolTypes'
  BY <1>1, <1>2, <1>4, <1>5, NoRequestType DEF ToolTypes
<1>7. ToolWorkerIsGood'
  BY <1>1, <1>2, <1>3, <1>5 DEF ToolWorkerIsGood, Pends, Works
<1>8. ToolOutputIsGood'
  BY <1>1, <1>2, <1>3, <1>5, SeqEmpty DEF ToolOutputIsGood, Pends, SaysTheTruth
<1>. QED  BY <1>1, <1>4, <1>5, <1>6, <1>7, <1>8, ToolWorking

\* A command is taken from the queue by a worker that does not begin to work, or
\* that finds neither a start nor a password behind it.
LEMMA ToolTakes ==
  ASSUME ToolsAreGood, worker.at = "recv", commands # <<>>, commands' = Tail(commands),
         UNCHANGED <<ui, events, output>>, shared'.cancelled = shared.cancelled,
         Pends' => Pends /\ worker'.pending = worker.pending,
         \/ worker'.at \in {"head", "ended"}
         \/ worker'.at = "send" /\ ~Asks(worker'.event) /\ Pends
         \/ worker'.at \in Works /\ ~Pends'
              /\ \A i \in 1..Len(commands) : i # 1 => commands[i].do \notin {"Start", "ProvidePassword"}
  PROVE  CommandsAreGood'
<1>1. /\ CommandsAreGood /\ ui' = ui /\ events' = events /\ output' = output /\ IsSeq(commands)
  BY DEF ToolsAreGood, ToolTypes
<1>2. /\ Len(commands) \in Nat /\ Len(commands') = Len(commands) - 1
      /\ \A i \in 1..Len(commands') : commands'[i] = commands[i + 1] /\ i + 1 \in 1..Len(commands)
  BY <1>1, SeqTail
<1>3. ASSUME NEW i \in 1..Len(commands')
      PROVE  CommandIsGood(i)'
  <2>1. CommandIsGood(i + 1) /\ commands'[i] = commands[i + 1] /\ i + 1 # 1 /\ i + 1 \in 1..Len(commands)
    BY <1>1, <1>2 DEF CommandsAreGood
  <2>2. ASSUME NEW j \in i + 1..Len(commands')
        PROVE  commands'[j] = commands[j + 1] /\ j + 1 \in i + 1 + 1..Len(commands)
    BY <1>2
  <2>3. worker'.at = "send" => commands[i + 1].do # "Start"
    BY <2>1 DEF CommandIsGood
  <2>4. worker'.at \in Works => commands[i + 1].do \notin {"Start", "ProvidePassword"}
    BY <2>1 DEF Works
  <2>5. worker'.at \in {"head", "ended", "send"} \cup Works
    OBVIOUS
  <2>6. commands[i + 1].do = "Start" => worker'.at \in {"head", "recv", "ended"} /\ ~Pends'
    BY <2>1, <2>3, <2>4, <2>5 DEF CommandIsGood
  <2>7. commands[i + 1].do = "ProvidePassword" =>
          worker'.at \notin Works /\ (worker'.at = "send" => ~Asks(worker'.event))
    BY <2>4 DEF Works
  <2>. QED  BY <1>1, <2>1, <2>2, <2>6, <2>7 DEF CommandIsGood, Asks
<1>. QED  BY <1>3 DEF CommandsAreGood

LEMMA ToolEnd ==
  ASSUME ToolsAreGood, ~ui.open, worker.at \in {"head", "recv"}, Tools!End,
         UNCHANGED <<ui, events, output>>,
         commands' = commands \/ (worker.at = "recv" /\ commands # <<>> /\ commands' = Tail(commands))
  PROVE  ToolsAreGood'
<1>1. /\ ToolTypes /\ CommandsAreGood /\ ToolWorkerIsGood /\ EventsAreGood /\ ToolJobIsHeld
      /\ ToolOutputIsGood /\ IsToolWorker(worker) /\ shared \in ToolShared
      /\ ui' = ui /\ events' = events /\ output' = output
      /\ worker' = [worker EXCEPT !.at = "ended", !.pending = Tools!NotPending]
      /\ shared' = [shared EXCEPT !.active = FALSE, !.current = 0]
      /\ IsSeq(commands) /\ Len(commands) <= CommandCap
  BY DEF ToolsAreGood, ToolTypes, Tools!End
<1>2. /\ shared' \in ToolShared /\ shared'.cancelled = shared.cancelled
  <2>1. ASSUME NEW current \in 0..MaxJobs, NEW active \in BOOLEAN,
               shared' = [shared EXCEPT !.active = active, !.current = current]
        PROVE  /\ shared' \in ToolShared /\ shared'.cancelled = shared.cancelled
    BY <1>1, <2>1 DEF ToolShared
  <2>2. 0 \in 0..MaxJobs
    BY JobsAssumption
  <2>3. PICK active \in BOOLEAN : active = FALSE
    OBVIOUS
  <2>. QED  BY <1>1, <2>1, <2>2, <2>3
<1>3. /\ IsToolWorker(worker') /\ worker'.at = "ended" /\ worker'.request = worker.request
      /\ worker'.pending = Tools!NotPending /\ worker'.event = worker.event
  BY <1>1 DEF IsToolWorker
<1>4. ~Pends' /\ worker'.at \notin Works /\ worker.at \notin Works /\ events = <<>>
  BY <1>1, <1>3 DEF Pends, Works, ToolJobIsHeld
<1>5. ToolTypes'
  <2>1. IsSeq(commands') /\ Len(commands') <= CommandCap
    <3>1. CASE commands' = commands
      BY <1>1, <3>1
    <3>2. CASE commands # <<>> /\ commands' = Tail(commands)
      <4>1. IsSeq(commands') /\ Len(commands) \in Nat /\ Len(commands') = Len(commands) - 1
        BY <1>1, <3>2, SeqTail
      <4>. QED  BY <1>1, <4>1, JobsAssumption
    <3>. QED  BY <3>1, <3>2
  <2>. QED  BY <1>1, <1>2, <1>3, <2>1, NoRequestType DEF ToolTypes
<1>6. CommandsAreGood'
  <2>1. CASE commands' = commands
    <3>1. ASSUME NEW i \in 1..Len(commands)
          PROVE  CommandIsGood(i)'
      <4>1. CommandIsGood(i)
        BY <1>1 DEF CommandsAreGood
      <4>. QED  BY <1>1, <1>2, <1>3, <1>4, <2>1, <4>1 DEF CommandIsGood
    <3>. QED  BY <2>1, <3>1 DEF CommandsAreGood
  <2>2. CASE worker.at = "recv" /\ commands # <<>> /\ commands' = Tail(commands)
    BY <1>2, <1>3, <1>4, <2>2, ToolTakes
  <2>. QED  BY <2>1, <2>2
<1>7. ToolWorkerIsGood'
  BY <1>1, <1>3, <1>4 DEF ToolWorkerIsGood, Works
<1>8. EventsAreGood'
  BY <1>1, <1>4, SeqEmpty DEF EventsAreGood
<1>9. ToolJobIsHeld'
  BY <1>1 DEF ToolJobIsHeld
<1>10. ToolOutputIsGood'
  BY <1>1, <1>3, <1>4, SeqEmpty DEF ToolOutputIsGood
<1>. QED  BY <1>5, <1>6, <1>7, <1>8, <1>9, <1>10 DEF ToolsAreGood

\* The worker looks for a command, or drops one, with the job where it was.
LEMMA ToolLooks ==
  ASSUME ToolsAreGood, worker.at \in {"head", "recv"}, NEW at \in {"head", "recv"},
         worker' = [worker EXCEPT !.at = at], UNCHANGED <<ui, shared, events, output>>,
         CommandsAreGood', IsSeq(commands'), Len(commands') <= CommandCap,
         \A i \in 1..Len(commands) : commands[i].do = "Start" =>
           \E j \in 1..Len(commands') : commands'[j].do = "Start"
  PROVE  ToolsAreGood'
<1>1. /\ ToolTypes /\ ToolWorkerIsGood /\ EventsAreGood /\ ToolJobIsHeld
      /\ ToolOutputIsGood /\ IsToolWorker(worker)
      /\ ui' = ui /\ events' = events /\ output' = output /\ shared' = shared
  BY DEF ToolsAreGood, ToolTypes
<1>3. /\ IsToolWorker(worker') /\ worker'.at = at /\ worker'.request = worker.request
      /\ worker'.pending = worker.pending /\ worker'.event = worker.event
  BY <1>1 DEF IsToolWorker
<1>4. /\ worker'.at \notin Works /\ worker.at \notin Works /\ Pends' = Pends
      /\ worker'.at \notin {"send", "ended", "clear"} /\ worker.at \notin {"send", "ended", "clear"}
  BY <1>3 DEF Pends, Works
<1>5. ToolTypes'
  BY <1>1, <1>3 DEF ToolTypes
<1>7. ToolWorkerIsGood'
  BY <1>1, <1>3, <1>4 DEF ToolWorkerIsGood
<1>8. EventsAreGood'
  BY <1>1, <1>3, <1>4 DEF EventsAreGood, EventIsGood
<1>9. ToolJobIsHeld'
  BY <1>1, <1>3, <1>4 DEF ToolJobIsHeld
<1>10. ToolOutputIsGood'
  BY <1>1, <1>3, <1>4 DEF ToolOutputIsGood, SaysTheTruth, Works
<1>. QED  BY <1>5, <1>7, <1>8, <1>9, <1>10 DEF ToolsAreGood

LEMMA ToolShutdown == ToolsAreGood /\ Tools!LookAtShutdown => ToolsAreGood'
<1>. SUFFICES ASSUME ToolsAreGood, Tools!LookAtShutdown
     PROVE  ToolsAreGood'
  OBVIOUS
<1>1. /\ worker.at = "head" /\ UNCHANGED <<ui, commands, events, output>>
      /\ ToolTypes /\ CommandsAreGood /\ ToolJobIsHeld
      /\ IsSeq(commands) /\ Len(commands) <= CommandCap
  BY DEF ToolsAreGood, ToolTypes, Tools!LookAtShutdown
<1>2. CASE shared.shutdown
  <2>1. Tools!End /\ ~ui.open
    BY <1>1, <1>2 DEF ToolJobIsHeld, Tools!LookAtShutdown
  <2>. QED  BY <1>1, <2>1, ToolEnd
<1>3. CASE ~shared.shutdown
  <2>1. worker' = [worker EXCEPT !.at = "recv"] /\ shared' = shared
    BY <1>3 DEF Tools!LookAtShutdown
  <2>2. IsToolWorker(worker)
    BY <1>1 DEF ToolTypes
  <2>3. /\ worker'.at = "recv" /\ worker'.pending = worker.pending
    BY <2>1, <2>2 DEF IsToolWorker
  <2>4. Pends' = Pends /\ worker'.at \notin Works
    BY <2>3 DEF Pends, Works
  <2>5. CommandsAreGood'
    <3>1. ASSUME NEW i \in 1..Len(commands)
          PROVE  CommandIsGood(i)'
      <4>1. CommandIsGood(i)
        BY <1>1 DEF CommandsAreGood
      <4>. QED  BY <1>1, <2>1, <2>3, <2>4, <4>1 DEF CommandIsGood
    <3>. QED  BY <1>1, <3>1 DEF CommandsAreGood
  <2>. QED  BY <1>1, <2>1, <2>5, ToolLooks
<1>. QED  BY <1>2, <1>3

LEMMA ToolHead ==
  ASSUME ToolsAreGood, commands # <<>>, commands' = Tail(commands)
  PROVE  /\ Head(commands) = commands[1] /\ CommandIsGood(1) /\ 1 \in 1..Len(commands)
         /\ IsSeq(commands') /\ Len(commands') <= CommandCap /\ Len(commands) \in Nat
         /\ Len(commands') = Len(commands) - 1
         /\ \A i \in 1..Len(commands') : commands'[i] = commands[i + 1]
<1>1. IsSeq(commands) /\ Len(commands) <= CommandCap /\ CommandsAreGood /\ CommandCap \in Nat
  BY JobsAssumption DEF ToolsAreGood, ToolTypes
<1>2. /\ IsSeq(commands') /\ Len(commands) \in Nat /\ Len(commands') = Len(commands) - 1
      /\ Head(commands) = commands[1] /\ 1 \in 1..Len(commands)
      /\ \A i \in 1..Len(commands') : commands'[i] = commands[i + 1]
  BY <1>1, SeqTail
<1>. QED  BY <1>1, <1>2 DEF CommandsAreGood

LEMMA ToolDrops ==
  ASSUME ToolsAreGood, worker.at = "recv", commands # <<>>, commands' = Tail(commands),
         Head(commands).do # "Start", worker' = [worker EXCEPT !.at = "head"],
         UNCHANGED <<ui, shared, events, output>>
  PROVE  ToolsAreGood'
<1>1. /\ Head(commands) = commands[1] /\ IsSeq(commands') /\ Len(commands') <= CommandCap
      /\ Len(commands) \in Nat /\ Len(commands') = Len(commands) - 1
      /\ \A i \in 1..Len(commands') : commands'[i] = commands[i + 1]
  BY ToolHead
<1>2. IsToolWorker(worker)
  BY DEF ToolsAreGood, ToolTypes
<1>3. worker'.at = "head" /\ worker'.pending = worker.pending
  BY <1>2 DEF IsToolWorker
<1>4. CommandsAreGood'
  BY <1>3, ToolTakes DEF Pends
<1>5. ASSUME NEW i \in 1..Len(commands), commands[i].do = "Start"
      PROVE  \E j \in 1..Len(commands') : commands'[j].do = "Start"
  <2>1. i # 1
    BY <1>1, <1>5
  <2>2. i - 1 \in 1..Len(commands') /\ (i - 1) + 1 = i
    BY <1>1, <2>1
  <2>. QED  BY <1>1, <1>5, <2>2
<1>. QED  BY <1>1, <1>4, <1>5, ToolLooks

LEMMA ToolBegins ==
  ASSUME ToolsAreGood, worker.at = "recv", commands # <<>>, commands' = Tail(commands),
         NEW request, IsRequest(request), request.key = ui.job, ui.job.id # 0, ui.job.id \notin output,
         events = <<>>, ~ui.prompt, worker' = Tools!Running(request),
         UNCHANGED <<ui, shared, events, output>>,
         \A i \in 1..Len(commands) : i # 1 => commands[i].do \notin {"Start", "ProvidePassword"}
  PROVE  ToolsAreGood'
<1>1. /\ ToolTypes /\ ToolJobIsHeld /\ ToolOutputIsGood /\ IsToolWorker(worker)
      /\ ui' = ui /\ events' = events /\ output' = output /\ shared' = shared
      /\ worker' = [worker EXCEPT !.at = "register", !.request = request,
                                  !.pending = Tools!NotPending]
  BY DEF ToolsAreGood, ToolTypes, Tools!Running
<1>2. /\ IsToolWorker(worker') /\ worker'.at = "register" /\ worker'.request = request
      /\ worker'.pending = Tools!NotPending /\ worker'.event = worker.event
  BY <1>1 DEF IsToolWorker, Works
<1>3. ~Pends' /\ worker'.at \in Works /\ worker'.at \notin {"clear", "send", "ended", "written"}
  BY <1>2 DEF Pends, Works
<1>4. ToolTypes'
  BY <1>1, <1>2, ToolHead, NoRequestType DEF ToolTypes
<1>5. CommandsAreGood'
  BY <1>1, <1>3, ToolTakes
<1>6. ToolWorkerIsGood'
  BY <1>1, <1>2, <1>3 DEF ToolWorkerIsGood
<1>7. EventsAreGood'
  BY <1>1, SeqEmpty DEF EventsAreGood
<1>8. ToolJobIsHeld'
  BY <1>1, <1>3 DEF ToolJobIsHeld
<1>9. ToolOutputIsGood'
  BY <1>1, <1>2, <1>3, SeqEmpty DEF ToolOutputIsGood
<1>. QED  BY <1>4, <1>5, <1>6, <1>7, <1>8, <1>9 DEF ToolsAreGood

LEMMA ToolCancelled ==
  ASSUME ToolsAreGood, worker.at = "recv", commands # <<>>, commands' = Tail(commands),
         Pends, ui.job.id \in shared.cancelled,
         worker' = [worker EXCEPT !.at = "send", !.pending = Tools!NotPending,
                                  !.event = Tools!Event("Cancelled", ui.job)],
         shared' = [shared EXCEPT !.active = FALSE, !.current = 0],
         UNCHANGED <<ui, events, output>>
  PROVE  ToolsAreGood'
<1> DEFINE event == [kind |-> "Cancelled", key |-> ui.job]
<1>1. /\ ToolTypes /\ ToolJobIsHeld /\ ToolOutputIsGood /\ ToolWorkerIsGood /\ EventsAreGood
      /\ IsToolWorker(worker) /\ shared \in ToolShared
      /\ ui' = ui /\ events' = events /\ output' = output
      /\ worker' = [worker EXCEPT !.at = "send", !.pending = Tools!NotPending, !.event = event]
      /\ event.kind = "Cancelled" /\ event.key = ui.job
  BY DEF ToolsAreGood, ToolTypes, Tools!Event
<1>. HIDE DEF event
<1>2. /\ IsToolWorker(worker') /\ worker'.at = "send" /\ worker'.request = worker.request
      /\ worker'.pending = Tools!NotPending /\ worker'.event = event
  BY <1>1 DEF IsToolWorker, Works
<1>3. /\ ~Pends' /\ worker'.at \notin Works /\ worker.at \notin Works /\ worker'.at # "ended"
      /\ Tools!Terminal(event) /\ ~Asks(event) /\ ui.job.id # 0
  BY <1>1, <1>2 DEF Pends, Works, Tools!Terminal, Asks, ToolWorkerIsGood
<1>4. /\ shared' \in ToolShared /\ ~shared'.active /\ shared'.cancelled = shared.cancelled
      /\ shared'.shutdown = shared.shutdown
  <2>1. ASSUME NEW current \in 0..MaxJobs, NEW active \in BOOLEAN, ~active,
               shared' = [shared EXCEPT !.active = active, !.current = current]
        PROVE  /\ shared' \in ToolShared /\ ~shared'.active /\ shared'.cancelled = shared.cancelled
               /\ shared'.shutdown = shared.shutdown
    BY <1>1, <2>1 DEF ToolShared
  <2>2. 0 \in 0..MaxJobs
    BY JobsAssumption
  <2>3. PICK active \in BOOLEAN : active = FALSE
    OBVIOUS
  <2>. QED  BY <2>1, <2>2, <2>3
<1>5. ToolTypes'
  BY <1>1, <1>2, <1>4, ToolHead, NoRequestType DEF ToolTypes
<1>6. CommandsAreGood'
  BY <1>1, <1>2, <1>3, <1>4, ToolTakes
<1>7. ToolWorkerIsGood'
  BY <1>1, <1>2, <1>3 DEF ToolWorkerIsGood
<1>8. EventsAreGood'
  <2>1. ASSUME NEW i \in 1..Len(events)
        PROVE  EventIsGood(i)'
    <3>1. EventIsGood(i)
      BY <1>1 DEF EventsAreGood
    <3>2. Asks(events[i]) /\ i = 1 /\ ~ui.prompt /\ events[i].key = ui.job
      BY <3>1 DEF EventIsGood
    <3>. QED  BY <1>1, <1>3, <1>4, <3>2 DEF EventIsGood, Asks
  <2>. QED  BY <1>1, <2>1 DEF EventsAreGood
<1>9. ToolJobIsHeld'
  BY <1>1, <1>2, <1>3, <1>4 DEF ToolJobIsHeld
<1>10. ToolOutputIsGood'
  BY <1>1, <1>2, <1>3 DEF ToolOutputIsGood, SaysTheTruth
<1>. QED  BY <1>5, <1>6, <1>7, <1>8, <1>9, <1>10 DEF ToolsAreGood

\* A password in the queue is the one the request waits for, if one waits.
LEMMA ToolPassword ==
  ASSUME ToolsAreGood, worker.at = "recv", commands # <<>>, commands' = Tail(commands),
         Head(commands).do = "ProvidePassword", Tools!TakePassword(Head(commands)),
         UNCHANGED <<ui, events, output>>
  PROVE  ToolsAreGood'
<1> DEFINE pending == worker.pending
           command == commands[1]
<1>1. /\ Head(commands) = command /\ CommandIsGood(1) /\ 1 \in 1..Len(commands)
      /\ command.do = "ProvidePassword" /\ shared' = shared /\ Len(commands) \in Nat
      /\ IsRequest(pending.request) /\ CommandsAreGood /\ EventsAreGood /\ ToolWorkerIsGood
      /\ IsSeq(events) /\ ToolOutputIsGood
  BY ToolHead DEF ToolsAreGood, ToolTypes, Tools!TakePassword
<1>2. CASE ~Pends
  BY <1>1, <1>2, ToolDrops DEF Pends, Tools!TakePassword
<1>3. CASE Pends
  <2>1. /\ command.key = pending.request.key /\ command.source = pending.source /\ ~ui.prompt
        /\ \A j \in 1..Len(events) : ~Asks(events[j])
        /\ \A j \in 2..Len(commands) : commands[j].do # "ProvidePassword"
    BY <1>1, <1>3 DEF CommandIsGood
  <2>2. /\ pending.request.key = ui.job /\ ui.job.id # 0 /\ ui.job.id \notin output
    BY <1>1, <1>3 DEF ToolWorkerIsGood, ToolOutputIsGood
  <2>3. events = <<>>
    <3>1. ASSUME NEW i \in 1..Len(events)
          PROVE  FALSE
      BY <1>1, <1>3, <2>1 DEF EventsAreGood, EventIsGood
    <3>2. Len(events) \in Nat
      BY <1>1, SeqAppend
    <3>3. Len(events) = 0
      BY <3>1, <3>2
    <3>. QED  BY <1>1, <3>3, SeqEmpty
  <2>4. ASSUME NEW i \in 1..Len(commands), i # 1
        PROVE  commands[i].do \notin {"Start", "ProvidePassword"}
    <3>1. i \in 2..Len(commands) /\ CommandIsGood(i)
      BY <1>1, <2>4 DEF CommandsAreGood
    <3>. QED  BY <1>3, <2>1, <3>1 DEF CommandIsGood
  <2>5. PICK sources : worker' = Tools!Running([pending.request EXCEPT !.sources = sources])
    BY <1>1, <1>3, <2>1 DEF Tools!TakePassword, Pends
  <2> DEFINE request == [pending.request EXCEPT !.sources = sources]
  <2>6. IsRequest(request) /\ request.key = pending.request.key
    BY <1>1 DEF IsRequest
  <2>7. worker' = Tools!Running(request)
    BY <2>5
  <2>. HIDE DEF request
  <2>. QED  BY <2>1, <2>2, <2>3, <2>4, <2>6, <2>7, <1>1, ToolBegins
<1>. QED  BY <1>2, <1>3

LEMMA ToolReceive == ToolsAreGood /\ Tools!Receive => ToolsAreGood'
<1>. SUFFICES ASSUME ToolsAreGood, Tools!Receive
     PROVE  ToolsAreGood'
  OBVIOUS
<1> DEFINE command == Head(commands)
<1>1. /\ worker.at = "recv" /\ commands # <<>> /\ commands' = Tail(commands)
      /\ ui' = ui /\ events' = events /\ output' = output
  BY DEF Tools!Receive
<1>2. /\ command = commands[1] /\ CommandIsGood(1) /\ CommandsAreGood /\ 1 \in 1..Len(commands)
      /\ Len(commands) \in Nat /\ shared \in ToolShared /\ ToolWorkerIsGood
  BY <1>1, ToolHead DEF ToolsAreGood, ToolTypes
<1>3. command.do \in {"Start", "Cancel", "ProvidePassword", "Shutdown"}
  BY <1>2 DEF CommandIsGood
<1>4. CASE command.do = "Start"
  <2>1. worker' = Tools!Running(command.request) /\ shared' = shared
    BY <1>4 DEF Tools!Receive
  <2>2. /\ IsRequest(command.request) /\ command.request.key = ui.job /\ ui.job.id # 0
        /\ ui.job.id \notin output /\ events = <<>> /\ ~ui.prompt
        /\ \A j \in 2..Len(commands) : commands[j].do \notin {"Start", "ProvidePassword"}
    BY <1>2, <1>4 DEF CommandIsGood
  <2>3. \A i \in 1..Len(commands) : i # 1 => i \in 2..Len(commands)
    BY <1>2
  <2>. QED  BY <1>1, <2>1, <2>2, <2>3, ToolBegins
<1>5. CASE command.do = "ProvidePassword"
  <2>1. Tools!TakePassword(command)
    BY <1>5 DEF Tools!Receive
  <2>. QED  BY <1>1, <1>5, <2>1, ToolPassword
<1>6. CASE command.do = "Cancel"
  <2>1. Tools!TakeCancel(command)
    BY <1>6 DEF Tools!Receive
  <2>2. command.key.id \in shared.cancelled
    BY <1>2, <1>6 DEF CommandIsGood
  <2>3. CASE worker.pending.request.key = command.key
    <3>1. command.key.id # 0
      BY <1>2, <2>2 DEF ToolShared
    <3>2. Pends
      BY <2>3, <3>1, ToolKeyType, NoRequestType DEF Pends
    <3>3. command.key = ui.job
      BY <1>2, <2>3, <3>2 DEF ToolWorkerIsGood
    <3>4. /\ worker' = [worker EXCEPT !.at = "send", !.pending = Tools!NotPending,
                                      !.event = Tools!Event("Cancelled", ui.job)]
          /\ shared' = [shared EXCEPT !.active = FALSE, !.current = 0]
      BY <2>1, <2>3, <3>3 DEF Tools!TakeCancel
    <3>. QED  BY <1>1, <2>2, <3>2, <3>3, <3>4, ToolCancelled
  <2>4. CASE worker.pending.request.key # command.key
    BY <1>1, <1>6, <2>1, <2>4, ToolDrops DEF Tools!TakeCancel
  <2>. QED  BY <2>3, <2>4
<1>7. CASE command.do = "Shutdown"
  <2>1. Tools!End /\ ~ui.open
    BY <1>2, <1>7 DEF Tools!Receive, CommandIsGood
  <2>. QED  BY <1>1, <2>1, ToolEnd
<1>. QED  BY <1>3, <1>4, <1>5, <1>6, <1>7

LEMMA ToolSend == ToolsAreGood /\ Tools!Send => ToolsAreGood'
<1>. SUFFICES ASSUME ToolsAreGood, Tools!Send
     PROVE  ToolsAreGood'
  OBVIOUS
<1> DEFINE event == worker.event
<1>1. /\ ToolTypes /\ CommandsAreGood /\ ToolWorkerIsGood /\ EventsAreGood /\ ToolJobIsHeld
      /\ ToolOutputIsGood /\ IsToolWorker(worker) /\ IsSeq(events)
      /\ worker.at = "send" /\ ui' = ui /\ commands' = commands /\ shared' = shared /\ output' = output
      /\ worker' = [worker EXCEPT !.at = "head", !.event = Tools!NoEvent]
      /\ events' = IF ui.open THEN Append(events, event) ELSE events
  BY DEF ToolsAreGood, ToolTypes, Tools!Send
<1>2. /\ IsToolWorker(worker') /\ worker'.at = "head" /\ worker'.request = worker.request
      /\ worker'.pending = worker.pending /\ Pends' = Pends
      /\ worker'.at \notin Works /\ worker.at \notin Works
  BY <1>1 DEF IsToolWorker, Pends, Works
<1>3. /\ event.key = ui.job /\ ui.job.id # 0 /\ SaysTheTruth(event)
      /\ \/ Tools!Terminal(event) /\ ~Pends /\ ~Asks(event)
         \/ Asks(event) /\ Pends /\ event.source = worker.pending.source /\ events = <<>> /\ ~ui.prompt
  BY <1>1 DEF ToolWorkerIsGood, ToolOutputIsGood, Tools!Terminal, Asks
<1>4. ASSUME NEW i \in 1..Len(events)
      PROVE  Asks(events[i]) /\ i = 1 /\ EventIsGood(i) /\ SaysTheTruth(events[i])
  BY <1>1 DEF EventsAreGood, EventIsGood, ToolOutputIsGood
<1>5. ASSUME NEW i \in 1..Len(commands)
      PROVE  CommandIsGood(i) /\ commands[i].do # "Start"
  BY <1>1 DEF CommandsAreGood, CommandIsGood
<1>6. /\ IsSeq(events') /\ Len(events) \in Nat
      /\ ui.open => /\ Len(events') = Len(events) + 1 /\ events'[Len(events) + 1] = event
                    /\ \A i \in 1..Len(events) : events'[i] = events[i]
      /\ ~ui.open => events' = <<>> /\ Len(events') = 0
  BY <1>1, SeqAppend, SeqEmpty DEF ToolJobIsHeld
<1>7. ToolTypes'
  BY <1>1, <1>2, <1>6 DEF ToolTypes
<1>8. ASSUME NEW i \in 1..Len(events')
      PROVE  /\ ui.open
             /\ \/ i \in 1..Len(events) /\ events'[i] = events[i]
                \/ i = Len(events') /\ i = Len(events) + 1 /\ events'[i] = event
  BY <1>6
<1>9. CommandsAreGood'
  <2>1. ASSUME NEW i \in 1..Len(commands)
        PROVE  CommandIsGood(i)'
    <3>1. CommandIsGood(i) /\ commands[i].do # "Start"
      BY <1>5
    <3>2. ASSUME commands[i].do = "ProvidePassword", NEW j \in 1..Len(events')
          PROVE  ~Asks(events'[j])
      BY <1>1, <1>8, <3>1, <3>2 DEF CommandIsGood
    <3>. QED  BY <1>1, <1>2, <3>1, <3>2 DEF CommandIsGood, Asks
  <2>. QED  BY <1>1, <2>1 DEF CommandsAreGood
<1>10. ToolWorkerIsGood'
  BY <1>1, <1>2 DEF ToolWorkerIsGood
<1>11. EventsAreGood'
  <2>1. ASSUME NEW i \in 1..Len(events')
        PROVE  EventIsGood(i)'
    <3>1. CASE i \in 1..Len(events) /\ events'[i] = events[i]
      <4>1. Asks(events[i]) /\ i = 1 /\ EventIsGood(i)
        BY <1>4, <3>1
      <4>. QED  BY <1>1, <1>2, <3>1, <4>1 DEF EventIsGood, Asks, Tools!Terminal
    <3>2. CASE i = Len(events') /\ i = Len(events) + 1 /\ events'[i] = event
      <4>1. CASE Tools!Terminal(event) /\ ~Pends
        <5>1. ~shared.active
          BY <1>1, <1>8, <4>1 DEF ToolJobIsHeld
        <5>. QED  BY <1>1, <1>2, <1>3, <3>2, <4>1, <5>1 DEF EventIsGood, Tools!Terminal
      <4>2. CASE /\ Asks(event) /\ Pends /\ event.source = worker.pending.source
                 /\ events = <<>> /\ ~ui.prompt
        <5>1. i = 1
          BY <3>2, <4>2, SeqEmpty
        <5>. QED  BY <1>1, <1>2, <1>3, <3>2, <4>2, <5>1 DEF EventIsGood, Asks
      <4>. QED  BY <1>3, <4>1, <4>2
    <3>. QED  BY <1>8, <3>1, <3>2
  <2>. QED  BY <2>1 DEF EventsAreGood
<1>12. ToolJobIsHeld'
  <2>1. ui.open => Pends \/ \E i \in 1..Len(events') : Tools!Terminal(events'[i])
    <3>1. ui.open => Len(events) + 1 \in 1..Len(events')
      BY <1>6
    <3>. QED  BY <1>3, <1>6, <3>1
  <2>2. ui.open => Pends' \/ \E i \in 1..Len(events') : Tools!Terminal(events[i])'
    BY <1>2, <2>1 DEF Tools!Terminal
  <2>3. ~ui.open => events' = <<>>
    BY <1>6
  <2>. QED  BY <1>1, <1>2, <1>3, <2>2, <2>3 DEF ToolJobIsHeld
<1>13. ToolOutputIsGood'
  <2>1. ASSUME NEW i \in 1..Len(events')
        PROVE  SaysTheTruth(events[i])'
    BY <1>1, <1>3, <1>4, <1>8 DEF SaysTheTruth
  <2>. QED  BY <1>1, <1>2, <2>1 DEF ToolOutputIsGood, Works
<1>. QED  BY <1>7, <1>9, <1>10, <1>11, <1>12, <1>13 DEF ToolsAreGood

LEMMA ToolWorkerStep == ToolsAreGood /\ Tools!Worker => ToolsAreGood'
  BY ToolShutdown, ToolReceive, ToolRuns, ToolPreflight, ToolClear, ToolSend DEF Tools!Worker

\* Nothing that the job depends on changes.
LEMMA ToolAside ==
  ASSUME ToolsAreGood, IsToolUi(ui'), ui'.open = ui.open, ui'.job = ui.job,
         ui'.prompt = ui.prompt, ui'.awaited = ui.awaited, ui'.next >= ui.next,
         UNCHANGED <<commands, shared, worker, events, output>>
  PROVE  ToolsAreGood'
<1>1. /\ ToolTypes /\ CommandsAreGood /\ ToolWorkerIsGood /\ EventsAreGood /\ ToolJobIsHeld
      /\ ToolOutputIsGood /\ commands' = commands /\ shared' = shared /\ worker' = worker
      /\ events' = events /\ output' = output /\ Pends' = Pends /\ IsToolUi(ui)
  BY DEF ToolsAreGood, ToolTypes, Pends
<1>2. ui.next \in Int /\ ui'.next \in Int /\ ui.job.id \in Int /\ output \in SUBSET (1..MaxJobs)
  BY <1>1, JobsAssumption DEF IsToolUi, ToolTypes, ToolKey
<1>3. ToolTypes'
  BY <1>1 DEF ToolTypes
<1>4. CommandsAreGood'
  <2>1. ASSUME NEW i \in 1..Len(commands)
        PROVE  CommandIsGood(i)'
    <3>1. CommandIsGood(i)
      BY <1>1 DEF CommandsAreGood
    <3>. QED  BY <1>1, <3>1 DEF CommandIsGood
  <2>. QED  BY <1>1, <2>1 DEF CommandsAreGood
<1>5. ToolWorkerIsGood'
  BY <1>1 DEF ToolWorkerIsGood
<1>6. EventsAreGood'
  BY <1>1 DEF EventsAreGood, EventIsGood
<1>7. ToolJobIsHeld'
  BY <1>1, <1>2 DEF ToolJobIsHeld
<1>8. ToolOutputIsGood'
  <2>1. \A id \in output : id < ui'.next
    BY <1>1, <1>2 DEF ToolOutputIsGood
  <2>. QED  BY <1>1, <2>1 DEF ToolOutputIsGood, SaysTheTruth
<1>. QED  BY <1>3, <1>4, <1>5, <1>6, <1>7, <1>8 DEF ToolsAreGood

\* Without a job there is nothing of one anywhere.
LEMMA ToolNoJob ==
  ASSUME ToolsAreGood, ui.open, ui.job.id = 0
  PROVE  /\ worker.at \in {"head", "recv"} /\ ~Pends /\ events = <<>> /\ ~shared.active /\ ~ui.prompt
         /\ \A i \in 1..Len(commands) : commands[i].do # "Start"
<1>1. /\ IsToolWorker(worker) /\ ToolWorkerIsGood /\ EventsAreGood /\ ToolJobIsHeld /\ CommandsAreGood
      /\ IsSeq(events)
  BY DEF ToolsAreGood, ToolTypes
<1>2. worker.at \in {"head", "recv"} /\ ~Pends /\ ~shared.active /\ ~ui.prompt
  BY <1>1 DEF IsToolWorker, ToolWorkerIsGood, ToolJobIsHeld
<1>3. \A i \in 1..Len(commands) : commands[i].do # "Start"
  BY <1>1 DEF CommandsAreGood, CommandIsGood
<1>4. ~ \E i \in 1..Len(events) : TRUE
  BY <1>1 DEF EventsAreGood, EventIsGood
<1>5. Len(events) \in Nat
  BY <1>1, SeqAppend
<1>6. Len(events) = 0
  BY <1>4, <1>5
<1>. QED  BY <1>1, <1>2, <1>3, <1>6, SeqEmpty

LEMMA ToolQueue ==
  ASSUME ToolsAreGood, NEW operation, NEW newSource \in BOOLEAN,
         Tools!QueueToolOperation(operation, newSource)
  PROVE  ToolsAreGood'
<1> DEFINE stamp == ui.stamp + (IF newSource THEN 1 ELSE 0)
           key == [id |-> ui.next, stamp |-> stamp]
           named == [ui EXCEPT !.next = ui.next + 1, !.stamp = stamp]
           request == [key |-> key, sources |-> operation]
           start == [do |-> "Start", request |-> request]
<1>1. /\ ui.open /\ ui.job = Tools!NoKey /\ ui.next <= MaxJobs /\ stamp <= MaxStamp
      /\ \/ /\ ~shared.active /\ Len(commands) < CommandCap
            /\ ui' = [named EXCEPT !.job = key, !.awaited = Tools!NoSource]
            /\ shared' = [shared EXCEPT !.active = TRUE]
            /\ commands' = Append(commands, start)
         \/ ui' = named /\ shared' = shared /\ commands' = commands
      /\ worker' = worker /\ events' = events /\ output' = output
  BY DEF Tools!QueueToolOperation, Tools!HasRoom
<1>2. /\ ToolTypes /\ CommandsAreGood /\ ToolWorkerIsGood /\ EventsAreGood /\ ToolJobIsHeld
      /\ ToolOutputIsGood /\ IsToolUi(ui) /\ IsSeq(commands) /\ shared \in ToolShared
      /\ output \in SUBSET (1..MaxJobs) /\ ui.job.id = 0
  BY <1>1, ToolKeyType DEF ToolsAreGood, ToolTypes
<1>3. /\ worker.at \in {"head", "recv"} /\ ~Pends /\ events = <<>> /\ ~ui.prompt
      /\ \A i \in 1..Len(commands) : commands[i].do # "Start"
  BY <1>1, <1>2, ToolNoJob
<1>4. stamp \in 1..MaxStamp /\ ui.next + 1 \in 1..MaxJobs + 1 /\ ui.next \in 1..MaxJobs
  BY <1>1, <1>2, JobsAssumption DEF IsToolUi
<1>5. /\ key \in ToolKey /\ key.id = ui.next /\ request.key = key /\ IsRequest(request)
      /\ start.do = "Start" /\ start.request = request
  BY <1>4, JobsAssumption DEF ToolKey, IsRequest
<1>. HIDE DEF stamp, key
<1>6. IsToolUi(named) /\ named.open = ui.open /\ named.job = ui.job /\ named.prompt = ui.prompt
      /\ named.awaited = ui.awaited /\ named.next = ui.next + 1
  BY <1>2, <1>4 DEF IsToolUi
<1>. HIDE DEF named, request, start
<1>7. CASE ui' = named /\ shared' = shared /\ commands' = commands
  <2>1. ui'.next >= ui.next
    BY <1>4, <1>6, <1>7, JobsAssumption
  <2>. QED  BY <1>1, <1>6, <1>7, <2>1, ToolAside
<1>8. CASE /\ ~shared.active /\ Len(commands) < CommandCap
           /\ ui' = [named EXCEPT !.job = key, !.awaited = Tools!NoSource]
           /\ shared' = [shared EXCEPT !.active = TRUE]
           /\ commands' = Append(commands, start)
  <2>1. /\ IsToolUi(ui') /\ ui'.job = key /\ ui'.open /\ ~ui'.prompt /\ ui'.next = ui.next + 1
    BY <1>1, <1>3, <1>5, <1>6, <1>8 DEF IsToolUi
  <2>2. /\ shared' \in ToolShared /\ shared'.cancelled = shared.cancelled
        /\ shared'.shutdown = shared.shutdown
    <3>1. ASSUME NEW active \in BOOLEAN, shared' = [shared EXCEPT !.active = active]
          PROVE  /\ shared' \in ToolShared /\ shared'.cancelled = shared.cancelled
                 /\ shared'.shutdown = shared.shutdown
      BY <1>2, <3>1 DEF ToolShared
    <3>2. PICK active \in BOOLEAN : active = TRUE
      OBVIOUS
    <3>. QED  BY <1>8, <3>1, <3>2
  <2>3. /\ IsSeq(commands') /\ Len(commands) \in Nat /\ Len(commands') = Len(commands) + 1
        /\ \A i \in 1..Len(commands) : commands'[i] = commands[i]
        /\ commands'[Len(commands) + 1] = start
    BY <1>2, <1>8, SeqAppend
  <2>4. ~Pends' /\ worker.at \notin Works /\ worker.at \notin {"send", "ended", "clear", "written"}
    BY <1>1, <1>3 DEF Pends, Works
  <2>5. ui.next \notin output /\ \A id \in output : id < ui.next + 1
    BY <1>2, <1>4, JobsAssumption DEF ToolOutputIsGood
  <2>6. ToolTypes'
    BY <1>1, <1>2, <1>8, <2>1, <2>2, <2>3, JobsAssumption DEF ToolTypes
  <2>7. CommandsAreGood'
    <3>1. ASSUME NEW i \in 1..Len(commands')
          PROVE  CommandIsGood(i)'
      <4>1. CASE i \in 1..Len(commands)
        <5>1. CommandIsGood(i) /\ commands'[i] = commands[i] /\ commands[i].do # "Start"
          BY <1>2, <1>3, <2>3, <4>1 DEF CommandsAreGood
        <5>2. ASSUME NEW j \in i + 1..Len(commands')
              PROVE  commands'[j].do = "Start" \/ (j \in i + 1..Len(commands) /\ commands'[j] = commands[j])
          BY <1>5, <2>3, <4>1
        <5>. QED  BY <1>1, <1>3, <2>1, <2>2, <2>4, <5>1, <5>2 DEF CommandIsGood, Asks
      <4>2. CASE i = Len(commands) + 1
        <5>1. commands'[i] = start /\ \A j \in i + 1..Len(commands') : FALSE
          BY <2>3, <4>2
        <5>2. ui'.job.id # 0 /\ ui'.job.id \notin output'
          BY <1>1, <1>4, <1>5, <2>1, <2>5
        <5>. QED  BY <1>1, <1>3, <1>5, <2>1, <2>4, <5>1, <5>2 DEF CommandIsGood
      <4>. QED  BY <2>3, <4>1, <4>2
    <3>. QED  BY <3>1 DEF CommandsAreGood
  <2>8. ToolWorkerIsGood'
    BY <1>1, <1>2, <2>4 DEF ToolWorkerIsGood
  <2>9. EventsAreGood'
    BY <1>1, <1>3, SeqEmpty DEF EventsAreGood
  <2>10. ToolJobIsHeld'
    <3>1. ui'.job.id < ui'.next /\ ui'.job.id # 0
      BY <1>4, <1>5, <2>1, JobsAssumption
    <3>2. Len(commands) + 1 \in 1..Len(commands')
      BY <2>3
    <3>3. \E i \in 1..Len(commands') : commands'[i].do = "Start"
      BY <1>5, <2>3, <3>2
    <3>. QED  BY <1>1, <1>2, <2>1, <2>2, <2>4, <3>1, <3>3 DEF ToolJobIsHeld
  <2>11. ToolOutputIsGood'
    <3>1. \A id \in output' : id < ui'.next
      BY <1>1, <2>1, <2>5
    <3>. QED  BY <1>1, <1>3, <2>4, <3>1, SeqEmpty DEF ToolOutputIsGood, Works
  <2>. QED  BY <2>6, <2>7, <2>8, <2>9, <2>10, <2>11 DEF ToolsAreGood
<1>. QED  BY <1>1, <1>7, <1>8

LEMMA ToolOutdate == ToolsAreGood /\ Tools!Outdate => ToolsAreGood'
<1>. SUFFICES ASSUME ToolsAreGood, Tools!Outdate
     PROVE  ToolsAreGood'
  OBVIOUS
<1>1. /\ IsToolUi(ui) /\ ui.stamp < MaxStamp /\ ui' = [ui EXCEPT !.stamp = ui.stamp + 1]
      /\ UNCHANGED <<commands, shared, worker, events, output>>
  BY DEF ToolsAreGood, ToolTypes, Tools!Outdate
<1>2. ui.stamp + 1 \in 1..MaxStamp /\ ui.next \in Int
  BY <1>1, JobsAssumption DEF IsToolUi
<1>3. /\ IsToolUi(ui') /\ ui'.open = ui.open /\ ui'.job = ui.job /\ ui'.prompt = ui.prompt
      /\ ui'.awaited = ui.awaited /\ ui'.next = ui.next
  BY <1>1, <1>2 DEF IsToolUi
<1>. QED  BY <1>1, <1>2, <1>3, ToolAside

\* The user's own changes: the queue may get one command more, which is no start.
LEMMA ToolCancel == ToolsAreGood /\ Tools!CancelActiveTool => ToolsAreGood'
<1>. SUFFICES ASSUME ToolsAreGood, Tools!CancelActiveTool
     PROVE  ToolsAreGood'
  OBVIOUS
<1> DEFINE cancel == [do |-> "Cancel", key |-> ui.job]
<1>1. /\ ui.open /\ ui.job # Tools!NoKey
      /\ ui' = [ui EXCEPT !.prompt = FALSE, !.awaited = Tools!NoSource]
      /\ shared' = [shared EXCEPT !.cancelled = shared.cancelled \cup {ui.job.id}]
      /\ \/ Len(commands) < CommandCap /\ commands' = Append(commands, cancel)
         \/ commands' = commands
      /\ worker' = worker /\ events' = events /\ output' = output
      /\ cancel.do = "Cancel" /\ cancel.key = ui.job
  BY DEF Tools!CancelActiveTool, Tools!HasRoom
<1>. HIDE DEF cancel
<1>2. /\ ToolTypes /\ CommandsAreGood /\ ToolWorkerIsGood /\ EventsAreGood /\ ToolJobIsHeld
      /\ ToolOutputIsGood /\ IsToolUi(ui) /\ IsSeq(commands) /\ shared \in ToolShared
      /\ ui.job.id # 0 /\ ui.job.id \in 1..MaxJobs
  BY <1>1, JobsAssumption DEF ToolsAreGood, ToolTypes, ToolJobIsHeld, IsToolUi, ToolKey
<1>3. IsToolUi(ui') /\ ui'.open /\ ui'.job = ui.job /\ ~ui'.prompt /\ ui'.next = ui.next
  <2>1. ASSUME NEW prompt \in BOOLEAN, ~prompt,
               ui' = [ui EXCEPT !.prompt = prompt, !.awaited = Tools!NoSource]
        PROVE  IsToolUi(ui') /\ ui'.open /\ ui'.job = ui.job /\ ~ui'.prompt /\ ui'.next = ui.next
    BY <1>1, <1>2, <2>1 DEF IsToolUi
  <2>2. PICK prompt \in BOOLEAN : prompt = FALSE
    OBVIOUS
  <2>. QED  BY <1>1, <2>1, <2>2
<1>4. /\ shared' \in ToolShared /\ shared'.cancelled = shared.cancelled \cup {ui.job.id}
      /\ shared'.shutdown = shared.shutdown /\ shared'.active = shared.active
  BY <1>1, <1>2 DEF ToolShared
<1>5. Pends' = Pends
  BY <1>1 DEF Pends
<1>6. /\ IsSeq(commands') /\ Len(commands') \in Nat /\ Len(commands) \in Nat
      /\ Len(commands) <= Len(commands') /\ Len(commands') <= CommandCap
      /\ \A i \in 1..Len(commands') :
           \/ i \in 1..Len(commands) /\ commands'[i] = commands[i]
           \/ i \notin 1..Len(commands) /\ commands'[i] = cancel
  <2>1. IsSeq(commands) /\ Len(commands) <= CommandCap /\ Len(commands) \in Nat /\ CommandCap \in Nat
    BY <1>2, SeqAppend, JobsAssumption DEF ToolTypes
  <2>2. CASE commands' = commands
    BY <2>1, <2>2
  <2>3. CASE Len(commands) < CommandCap /\ commands' = Append(commands, cancel)
    <3>1. /\ IsSeq(commands') /\ Len(commands') = Len(commands) + 1
          /\ \A i \in 1..Len(commands) : commands'[i] = commands[i]
          /\ commands'[Len(commands) + 1] = cancel
      BY <2>1, <2>3, SeqAppend
    <3>. QED  BY <2>1, <2>3, <3>1
  <2>. QED  BY <1>1, <2>2, <2>3
<1>7. ToolTypes'
  BY <1>1, <1>2, <1>3, <1>4, <1>6 DEF ToolTypes
<1>8. CommandsAreGood'
  <2>1. ASSUME NEW i \in 1..Len(commands')
        PROVE  CommandIsGood(i)'
    <3>1. CASE i \in 1..Len(commands) /\ commands'[i] = commands[i]
      <4>1. CommandIsGood(i)
        BY <1>2, <3>1 DEF CommandsAreGood
      <4>2. ASSUME NEW j \in i + 1..Len(commands')
            PROVE  commands'[j] = cancel \/ (j \in i + 1..Len(commands) /\ commands'[j] = commands[j])
        BY <1>6, <3>1
      <4>. QED  BY <1>1, <1>3, <1>4, <1>5, <3>1, <4>1, <4>2 DEF CommandIsGood
    <3>2. CASE commands'[i] = cancel
      BY <1>1, <1>3, <1>4, <3>2 DEF CommandIsGood
    <3>. QED  BY <1>6, <3>1, <3>2
  <2>. QED  BY <2>1 DEF CommandsAreGood
<1>9. ToolWorkerIsGood'
  BY <1>1, <1>2, <1>3, <1>5 DEF ToolWorkerIsGood
<1>10. EventsAreGood'
  BY <1>1, <1>2, <1>3, <1>4, <1>5 DEF EventsAreGood, EventIsGood
<1>11. ToolJobIsHeld'
  <2>1. ASSUME NEW i \in 1..Len(commands), commands[i].do = "Start"
        PROVE  \E j \in 1..Len(commands') : commands'[j].do = "Start"
    <3>1. i \in 1..Len(commands')
      BY <1>6
    <3>. QED  BY <1>6, <2>1, <3>1
  <2>. QED  BY <1>1, <1>2, <1>3, <1>4, <1>5, <2>1 DEF ToolJobIsHeld
<1>12. ToolOutputIsGood'
  BY <1>1, <1>2, <1>3, <1>5 DEF ToolOutputIsGood, SaysTheTruth
<1>. QED  BY <1>7, <1>8, <1>9, <1>10, <1>11, <1>12 DEF ToolsAreGood

LEMMA ToolExit == ToolsAreGood /\ Tools!Exit => ToolsAreGood'
<1>. SUFFICES ASSUME ToolsAreGood, Tools!Exit
     PROVE  ToolsAreGood'
  OBVIOUS
<1> DEFINE shutdown == [do |-> "Shutdown"]
<1>1. /\ ui.open /\ ui' = [ui EXCEPT !.open = FALSE]
      /\ shared' = [shared EXCEPT !.shutdown = TRUE,
                                  !.cancelled = shared.cancelled \cup ({shared.current} \ {0})]
      /\ \/ Len(commands) < CommandCap /\ commands' = Append(commands, shutdown)
         \/ commands' = commands
      /\ worker' = worker /\ events' = <<>> /\ output' = output
      /\ shutdown.do = "Shutdown"
  BY DEF Tools!Exit, Tools!HasRoom
<1>. HIDE DEF shutdown
<1>2. /\ ToolTypes /\ CommandsAreGood /\ ToolWorkerIsGood /\ EventsAreGood /\ ToolJobIsHeld
      /\ ToolOutputIsGood /\ IsToolUi(ui) /\ IsSeq(commands) /\ shared \in ToolShared
      /\ shared.current \in 0..MaxJobs
  BY <1>1 DEF ToolsAreGood, ToolTypes, ToolShared
<1>3. IsToolUi(ui') /\ ~ui'.open /\ ui'.job = ui.job /\ ui'.prompt = ui.prompt
      /\ ui'.next = ui.next /\ ui'.awaited = ui.awaited
  <2>1. ASSUME NEW open \in BOOLEAN, ~open, ui' = [ui EXCEPT !.open = open]
        PROVE  /\ IsToolUi(ui') /\ ~ui'.open /\ ui'.job = ui.job /\ ui'.prompt = ui.prompt
               /\ ui'.next = ui.next /\ ui'.awaited = ui.awaited
    BY <1>1, <1>2, <2>1 DEF IsToolUi
  <2>2. PICK open \in BOOLEAN : open = FALSE
    OBVIOUS
  <2>. QED  BY <1>1, <2>1, <2>2
<1>4. /\ shared' \in ToolShared /\ shared.cancelled \subseteq shared'.cancelled
  <2>1. ASSUME NEW shut \in BOOLEAN, NEW cancelled \in SUBSET (1..MaxJobs),
               shared' = [shared EXCEPT !.shutdown = shut, !.cancelled = cancelled]
        PROVE  shared' \in ToolShared /\ shared'.cancelled = cancelled
    BY <1>2, <2>1 DEF ToolShared
  <2>2. shared.cancelled \cup ({shared.current} \ {0}) \in SUBSET (1..MaxJobs)
    BY <1>2, JobsAssumption DEF ToolShared
  <2>3. PICK shut \in BOOLEAN : shut = TRUE
    OBVIOUS
  <2>4. PICK cancelled \in SUBSET (1..MaxJobs) :
          cancelled = shared.cancelled \cup ({shared.current} \ {0})
    BY <2>2
  <2>5. shared' = [shared EXCEPT !.shutdown = shut, !.cancelled = cancelled]
    BY <1>1, <2>3, <2>4
  <2>6. shared' \in ToolShared /\ shared'.cancelled = cancelled
    BY <2>1, <2>5
  <2>. QED  BY <2>4, <2>6
<1>5. Pends' = Pends
  BY <1>1 DEF Pends
<1>6. /\ IsSeq(commands') /\ Len(commands') \in Nat /\ Len(commands) \in Nat
      /\ Len(commands) <= Len(commands') /\ Len(commands') <= CommandCap
      /\ \A i \in 1..Len(commands') :
           \/ i \in 1..Len(commands) /\ commands'[i] = commands[i]
           \/ i \notin 1..Len(commands) /\ commands'[i] = shutdown
  <2>1. IsSeq(commands) /\ Len(commands) <= CommandCap /\ Len(commands) \in Nat /\ CommandCap \in Nat
    BY <1>2, SeqAppend, JobsAssumption DEF ToolTypes
  <2>2. CASE commands' = commands
    BY <2>1, <2>2
  <2>3. CASE Len(commands) < CommandCap /\ commands' = Append(commands, shutdown)
    <3>1. /\ IsSeq(commands') /\ Len(commands') = Len(commands) + 1
          /\ \A i \in 1..Len(commands) : commands'[i] = commands[i]
          /\ commands'[Len(commands) + 1] = shutdown
      BY <2>1, <2>3, SeqAppend
    <3>. QED  BY <2>1, <2>3, <3>1
  <2>. QED  BY <1>1, <2>2, <2>3
<1>7. ToolTypes'
  BY <1>1, <1>2, <1>3, <1>4, <1>6, SeqEmpty DEF ToolTypes
<1>8. CommandsAreGood'
  <2>1. ASSUME NEW i \in 1..Len(commands')
        PROVE  CommandIsGood(i)'
    <3>1. CASE i \in 1..Len(commands) /\ commands'[i] = commands[i]
      <4>1. CommandIsGood(i)
        BY <1>2, <3>1 DEF CommandsAreGood
      <4>2. ASSUME NEW j \in i + 1..Len(commands')
            PROVE  commands'[j] = shutdown \/ (j \in i + 1..Len(commands) /\ commands'[j] = commands[j])
        BY <1>6, <3>1
      <4>3. \A j \in 1..Len(events') : FALSE
        BY <1>1, SeqEmpty
      <4>. QED  BY <1>1, <1>3, <1>4, <1>5, <3>1, <4>1, <4>2, <4>3 DEF CommandIsGood
    <3>2. CASE commands'[i] = shutdown
      BY <1>1, <1>3, <3>2 DEF CommandIsGood
    <3>. QED  BY <1>6, <3>1, <3>2
  <2>. QED  BY <2>1 DEF CommandsAreGood
<1>9. ToolWorkerIsGood'
  BY <1>1, <1>2, <1>3, <1>5 DEF ToolWorkerIsGood
<1>10. EventsAreGood'
  BY <1>1, SeqEmpty DEF EventsAreGood
<1>11. ToolJobIsHeld'
  BY <1>1, <1>2, <1>3 DEF ToolJobIsHeld
<1>12. ToolOutputIsGood'
  BY <1>1, <1>2, <1>3, <1>5, SeqEmpty DEF ToolOutputIsGood, SaysTheTruth
<1>. QED  BY <1>7, <1>8, <1>9, <1>10, <1>11, <1>12 DEF ToolsAreGood

LEMMA ToolSubmit ==
  ASSUME ToolsAreGood, NEW right \in BOOLEAN, Tools!SubmitToolPassword(right)
  PROVE  ToolsAreGood'
<1> DEFINE password == [do |-> "ProvidePassword", key |-> ui.job,
                        source |-> ui.awaited, right |-> right]
<1>1. /\ ui.open /\ ui.prompt /\ ui.job # Tools!NoKey /\ Len(commands) < CommandCap
      /\ ui' = [ui EXCEPT !.prompt = FALSE] /\ commands' = Append(commands, password)
      /\ shared' = shared /\ worker' = worker /\ events' = events /\ output' = output
      /\ password.do = "ProvidePassword" /\ password.key = ui.job /\ password.source = ui.awaited
  BY DEF Tools!SubmitToolPassword, Tools!HasRoom
<1>. HIDE DEF password
<1>2. /\ ToolTypes /\ CommandsAreGood /\ ToolWorkerIsGood /\ EventsAreGood /\ ToolJobIsHeld
      /\ ToolOutputIsGood /\ IsToolUi(ui) /\ IsSeq(commands) /\ Pends' = Pends
  BY <1>1 DEF ToolsAreGood, ToolTypes, Pends
<1>3. IsToolUi(ui') /\ ui'.open /\ ui'.job = ui.job /\ ~ui'.prompt /\ ui'.next = ui.next
  <2>1. ASSUME NEW prompt \in BOOLEAN, ~prompt, ui' = [ui EXCEPT !.prompt = prompt]
        PROVE  IsToolUi(ui') /\ ui'.open /\ ui'.job = ui.job /\ ~ui'.prompt /\ ui'.next = ui.next
    BY <1>1, <1>2, <2>1 DEF IsToolUi
  <2>2. PICK prompt \in BOOLEAN : prompt = FALSE
    OBVIOUS
  <2>. QED  BY <1>1, <2>1, <2>2
<1>4. /\ worker.at \notin Works /\ (worker.at = "send" => ~Asks(worker.event))
      /\ \A j \in 1..Len(events) : ~Asks(events[j])
      /\ Pends => ui.job = worker.pending.request.key /\ ui.awaited = worker.pending.source
  <2>1. \A j \in 1..Len(events) : ~Asks(events[j])
    BY <1>1, <1>2 DEF EventsAreGood, EventIsGood, Asks, Tools!Terminal
  <2>. QED  BY <1>1, <1>2, <2>1 DEF ToolWorkerIsGood, Asks, Tools!Terminal
<1>5. \A i \in 1..Len(commands) : commands[i].do \in {"Cancel", "Shutdown"} /\ CommandIsGood(i)
  BY <1>1, <1>2 DEF CommandsAreGood, CommandIsGood
<1>6. /\ IsSeq(commands') /\ Len(commands) \in Nat /\ Len(commands') = Len(commands) + 1
      /\ \A i \in 1..Len(commands) : commands'[i] = commands[i]
      /\ commands'[Len(commands) + 1] = password
  BY <1>1, <1>2, SeqAppend
<1>7. ToolTypes'
  BY <1>1, <1>2, <1>3, <1>6, JobsAssumption DEF ToolTypes
<1>8. CommandsAreGood'
  <2>1. ASSUME NEW i \in 1..Len(commands')
        PROVE  CommandIsGood(i)'
    <3>1. CASE i \in 1..Len(commands)
      BY <1>1, <1>3, <1>5, <1>6, <3>1 DEF CommandIsGood
    <3>2. CASE i = Len(commands) + 1
      <4>1. commands'[i] = password /\ \A j \in i + 1..Len(commands') : FALSE
        BY <1>6, <3>2
      <4>. QED  BY <1>1, <1>2, <1>3, <1>4, <4>1 DEF CommandIsGood, Asks
    <3>. QED  BY <1>6, <3>1, <3>2
  <2>. QED  BY <2>1 DEF CommandsAreGood
<1>9. ToolWorkerIsGood'
  BY <1>1, <1>2, <1>3 DEF ToolWorkerIsGood
<1>10. EventsAreGood'
  BY <1>1, <1>2, <1>3 DEF EventsAreGood, EventIsGood
<1>11. ToolJobIsHeld'
  <2>1. \A i \in 1..Len(commands) : commands[i].do # "Start"
    BY <1>5
  <2>. QED  BY <1>1, <1>2, <1>3, <2>1 DEF ToolJobIsHeld
<1>12. ToolOutputIsGood'
  BY <1>1, <1>2, <1>3 DEF ToolOutputIsGood, SaysTheTruth
<1>. QED  BY <1>7, <1>8, <1>9, <1>10, <1>11, <1>12 DEF ToolsAreGood

LEMMA ToolAnswer == ToolsAreGood /\ Tools!HandleToolEvent => ToolsAreGood'
<1>. SUFFICES ASSUME ToolsAreGood, Tools!HandleToolEvent
     PROVE  ToolsAreGood'
  OBVIOUS
<1> DEFINE event == events[1]
<1>1. /\ ui.open /\ events # <<>> /\ events' = Tail(events)
      /\ commands' = commands /\ shared' = shared /\ worker' = worker /\ output' = output
  BY DEF Tools!HandleToolEvent
<1>2. /\ ToolTypes /\ CommandsAreGood /\ ToolWorkerIsGood /\ EventsAreGood /\ ToolJobIsHeld
      /\ ToolOutputIsGood /\ IsToolUi(ui) /\ IsSeq(events) /\ IsToolWorker(worker) /\ Pends' = Pends
  BY <1>1 DEF ToolsAreGood, ToolTypes, Pends
<1>3. /\ IsSeq(events') /\ Len(events) \in Nat /\ Len(events') = Len(events) - 1 /\ Head(events) = event
      /\ \A i \in 1..Len(events') : events'[i] = events[i + 1] /\ i + 1 \in 1..Len(events)
      /\ 1 \in 1..Len(events)
  BY <1>1, <1>2, SeqTail
<1>4. EventIsGood(1) /\ event.key = ui.job /\ ui.job.id # 0
  BY <1>2, <1>3 DEF EventsAreGood, EventIsGood
<1>5. \A i \in 1..Len(commands) : CommandIsGood(i) /\ commands[i].do # "Start"
  BY <1>1, <1>2 DEF CommandsAreGood, CommandIsGood
<1>6. worker.at \notin Works
  BY <1>1, <1>2 DEF ToolWorkerIsGood
<1>7. ASSUME NEW i \in 1..Len(events')
      PROVE  EventIsGood(i + 1) /\ Tools!Terminal(events'[i]) /\ ~Asks(events'[i]) /\ i = Len(events')
             /\ events'[i] = events[i + 1] /\ i + 1 \in 1..Len(events)
  <2>1. EventIsGood(i + 1) /\ i + 1 # 1 /\ events'[i] = events[i + 1] /\ i + 1 \in 1..Len(events)
    BY <1>2, <1>3 DEF EventsAreGood
  <2>. QED  BY <1>3, <2>1 DEF EventIsGood, Asks, Tools!Terminal
<1>8. CASE Asks(event)
  <2>1. /\ ~ui.prompt
        /\ IF Pends THEN event.source = worker.pending.source ELSE ui.job.id \in shared.cancelled
    BY <1>4, <1>8 DEF EventIsGood, Asks, Tools!Terminal
  <2>2. \/ ui' = ui
        \/ ui' = [ui EXCEPT !.prompt = TRUE, !.awaited = event.source]
    BY <1>3, <1>8 DEF Tools!HandleToolEvent, Asks
  <2>3. /\ IsToolUi(ui') /\ ui'.open /\ ui'.job = ui.job /\ ui'.next = ui.next
        /\ ui'.prompt => ui'.awaited = event.source
    <3>1. CASE ui' = ui
      BY <1>1, <1>2, <2>1, <3>1
    <3>2. CASE ui' = [ui EXCEPT !.prompt = TRUE, !.awaited = event.source]
      <4>1. ASSUME NEW prompt \in BOOLEAN, ui' = [ui EXCEPT !.prompt = prompt, !.awaited = event.source]
            PROVE  /\ IsToolUi(ui') /\ ui'.open /\ ui'.job = ui.job /\ ui'.next = ui.next
                   /\ ui'.awaited = event.source
        BY <1>1, <1>2, <4>1 DEF IsToolUi
      <4>2. PICK prompt \in BOOLEAN : prompt = TRUE
        OBVIOUS
      <4>. QED  BY <3>2, <4>1, <4>2
    <3>. QED  BY <2>2, <3>1, <3>2
  <2>4. ToolTypes'
    BY <1>1, <1>2, <1>3, <2>3 DEF ToolTypes
  <2>5. CommandsAreGood'
    <3>1. ASSUME NEW i \in 1..Len(commands)
          PROVE  CommandIsGood(i)'
      <4>1. CommandIsGood(i) /\ commands[i].do \notin {"Start", "ProvidePassword"}
        BY <1>3, <1>5, <1>8 DEF CommandIsGood
      <4>. QED  BY <1>1, <2>3, <4>1 DEF CommandIsGood
    <3>. QED  BY <1>1, <3>1 DEF CommandsAreGood
  <2>6. ToolWorkerIsGood'
    <3>1. worker.at = "send" => Tools!Terminal(worker.event) /\ ~Pends
      BY <1>1, <1>2 DEF ToolWorkerIsGood
    <3>. QED  BY <1>1, <1>2, <1>6, <2>1, <2>3, <3>1 DEF ToolWorkerIsGood
  <2>7. EventsAreGood'
    <3>1. ASSUME NEW i \in 1..Len(events')
          PROVE  EventIsGood(i)'
      <4>1. EventIsGood(i + 1) /\ Tools!Terminal(events'[i]) /\ i = Len(events') /\ events'[i] = events[i + 1]
            /\ ~Asks(events[i + 1])
        BY <1>7
      <4>. QED  BY <1>1, <1>2, <2>3, <4>1 DEF EventIsGood, Tools!Terminal
    <3>. QED  BY <3>1 DEF EventsAreGood
  <2>8. ToolJobIsHeld'
    <3>1. ASSUME NEW i \in 1..Len(events), Tools!Terminal(events[i])
          PROVE  \E j \in 1..Len(events') : Tools!Terminal(events'[j])
      <4>1. i # 1
        BY <1>8, <3>1 DEF Asks, Tools!Terminal
      <4>2. i - 1 \in 1..Len(events') /\ (i - 1) + 1 = i
        BY <1>3, <4>1
      <4>. QED  BY <1>3, <3>1, <4>2
    <3>2. \/ worker.at \in {"send"} \/ Pends
          \/ \E j \in 1..Len(events') : Tools!Terminal(events'[j])
      BY <1>1, <1>2, <1>4, <1>5, <1>6, <3>1 DEF ToolJobIsHeld
    <3>3. \/ worker'.at \in {"send"} \/ Pends'
          \/ \E j \in 1..Len(events') : Tools!Terminal(events[j])'
      BY <1>1, <1>2, <3>2 DEF Tools!Terminal
    <3>. QED  BY <1>1, <1>2, <1>4, <2>1, <2>3, <3>3 DEF ToolJobIsHeld
  <2>9. ToolOutputIsGood'
    <3>1. \A i \in 1..Len(events') : SaysTheTruth(events[i])'
      BY <1>1, <1>2, <1>3, <2>3 DEF ToolOutputIsGood, SaysTheTruth
    <3>. QED  BY <1>1, <1>2, <2>3, <3>1 DEF ToolOutputIsGood, SaysTheTruth
  <2>. QED  BY <2>4, <2>5, <2>6, <2>7, <2>8, <2>9 DEF ToolsAreGood
<1>9. CASE Tools!Terminal(event)
  <2>1. /\ Len(events) = 1 /\ ~Pends /\ worker.at \in {"head", "recv"} /\ ~shared.active
        /\ event.kind # "PasswordRequired"
    BY <1>4, <1>9 DEF EventIsGood, Asks, Tools!Terminal
  <2>2. Len(events') = 0 /\ events' = <<>>
    BY <1>3, <2>1, SeqEmpty
  <2>3. \E awaited : ui' = [ui EXCEPT !.job = Tools!NoKey, !.prompt = FALSE, !.awaited = awaited]
    BY <1>3, <1>4, <2>1 DEF Tools!HandleToolEvent
  <2>4. /\ IsToolUi(ui') /\ ui'.open /\ ui'.job = Tools!NoKey /\ ~ui'.prompt /\ ui'.next = ui.next
    <3>1. PICK awaited : ui' = [ui EXCEPT !.job = Tools!NoKey, !.prompt = FALSE, !.awaited = awaited]
      BY <2>3
    <3>2. ASSUME NEW prompt \in BOOLEAN, ~prompt,
                 ui' = [ui EXCEPT !.job = Tools!NoKey, !.prompt = prompt, !.awaited = awaited]
          PROVE  IsToolUi(ui') /\ ui'.open /\ ui'.job = Tools!NoKey /\ ~ui'.prompt /\ ui'.next = ui.next
      <4>1. Tools!NoKey \in ToolKey
        BY ToolKeyType
      <4>. HIDE DEF Tools!NoKey
      <4>. QED  BY <1>1, <1>2, <3>2, <4>1 DEF IsToolUi
    <3>3. PICK prompt \in BOOLEAN : prompt = FALSE
      OBVIOUS
    <3>. QED  BY <3>1, <3>2, <3>3
  <2>5. ui'.job.id = 0 /\ 0 < ui'.next
    BY <1>2, <2>4, ToolKeyType, JobsAssumption DEF IsToolUi
  <2>6. ToolTypes'
    BY <1>1, <1>2, <1>3, <2>4 DEF ToolTypes
  <2>7. CommandsAreGood'
    <3>1. ASSUME NEW i \in 1..Len(commands)
          PROVE  CommandIsGood(i)'
      <4>1. CommandIsGood(i) /\ commands[i].do # "Start"
        BY <1>5
      <4>2. \A j \in 1..Len(events') : FALSE
        BY <2>2
      <4>. QED  BY <1>1, <1>2, <2>1, <2>4, <4>1, <4>2 DEF CommandIsGood
    <3>. QED  BY <1>1, <3>1 DEF CommandsAreGood
  <2>8. ToolWorkerIsGood'
    BY <1>1, <1>2, <1>6, <2>1 DEF ToolWorkerIsGood, Works
  <2>9. EventsAreGood'
    BY <2>2, SeqEmpty DEF EventsAreGood
  <2>10. ToolJobIsHeld'
    BY <1>1, <1>2, <2>1, <2>2, <2>4, <2>5 DEF ToolJobIsHeld
  <2>11. ToolOutputIsGood'
    BY <1>1, <1>2, <2>1, <2>2, <2>4, SeqEmpty DEF ToolOutputIsGood
  <2>. QED  BY <2>6, <2>7, <2>8, <2>9, <2>10, <2>11 DEF ToolsAreGood
<1>. QED  BY <1>4, <1>8, <1>9 DEF EventIsGood

LEMMA ToolStep ==
  ToolsAreGood /\ (Tools!Worker \/ Tools!HandleToolEvent \/ Tools!User \/ UNCHANGED vars) => ToolsAreGood'
<1>. SUFFICES ASSUME ToolsAreGood, Tools!Worker \/ Tools!HandleToolEvent \/ Tools!User \/ UNCHANGED vars
     PROVE  ToolsAreGood'
  OBVIOUS
<1>1. CASE Tools!User
  BY <1>1, ToolQueue, ToolSubmit, ToolOutdate, ToolCancel, ToolExit DEF Tools!User
<1>. QED  BY <1>1, ToolWorkerStep, ToolAnswer, ToolStutter

LEMMA OneOfFour ==
  ASSUME NEW a \in BOOLEAN, NEW b \in BOOLEAN, NEW c \in BOOLEAN, NEW d \in BOOLEAN, a \/ b \/ c \/ d,
         ~(a /\ b), ~(a /\ c), ~(a /\ d), ~(b /\ c), ~(b /\ d), ~(c /\ d)
  PROVE  \E p \in 1..4 : {q \in 1..4 : <<a, b, c, d>>[q]} = {p}
<1>1. \A f : f[1] = TRUE /\ f[2] = FALSE /\ f[3] = FALSE /\ f[4] = FALSE => {q \in 1..4 : f[q]} = {1}
  OBVIOUS
<1>2. \A f : f[1] = FALSE /\ f[2] = TRUE /\ f[3] = FALSE /\ f[4] = FALSE => {q \in 1..4 : f[q]} = {2}
  OBVIOUS
<1>3. \A f : f[1] = FALSE /\ f[2] = FALSE /\ f[3] = TRUE /\ f[4] = FALSE => {q \in 1..4 : f[q]} = {3}
  OBVIOUS
<1>4. \A f : f[1] = FALSE /\ f[2] = FALSE /\ f[3] = FALSE /\ f[4] = TRUE => {q \in 1..4 : f[q]} = {4}
  OBVIOUS
<1>5. /\ <<a, b, c, d>>[1] = a /\ <<a, b, c, d>>[2] = b
      /\ <<a, b, c, d>>[3] = c /\ <<a, b, c, d>>[4] = d
  OBVIOUS
<1>6. 1 \in 1..4 /\ 2 \in 1..4 /\ 3 \in 1..4 /\ 4 \in 1..4
  OBVIOUS
<1>7. \/ a = TRUE /\ b = FALSE /\ c = FALSE /\ d = FALSE
      \/ a = FALSE /\ b = TRUE /\ c = FALSE /\ d = FALSE
      \/ a = FALSE /\ b = FALSE /\ c = TRUE /\ d = FALSE
      \/ a = FALSE /\ b = FALSE /\ c = FALSE /\ d = TRUE
  OBVIOUS
<1>. QED  BY <1>1, <1>2, <1>3, <1>4, <1>5, <1>6, <1>7, Zenon

LEMMA NoneOfFour ==
  ASSUME NEW a \in BOOLEAN, NEW b \in BOOLEAN, NEW c \in BOOLEAN, NEW d \in BOOLEAN, ~a, ~b, ~c, ~d
  PROVE  {q \in 1..4 : <<a, b, c, d>>[q]} = {}
<1>1. \A f : f[1] = FALSE /\ f[2] = FALSE /\ f[3] = FALSE /\ f[4] = FALSE => {q \in 1..4 : f[q]} = {}
  OBVIOUS
<1>2. /\ <<a, b, c, d>>[1] = FALSE /\ <<a, b, c, d>>[2] = FALSE
      /\ <<a, b, c, d>>[3] = FALSE /\ <<a, b, c, d>>[4] = FALSE
  OBVIOUS
<1>. QED  BY <1>1, <1>2, Zenon

LEMMA SeqDomain == ASSUME NEW s, IsSeq(s) PROVE DOMAIN s = 1..Len(s) /\ Len(s) \in Nat
  BY DEF IsSeq

LEMMA ToolPromise ==
  ToolsAreGood => /\ Tools!TypeOK /\ Tools!JobIsSomewhere /\ Tools!IdleIsAccepting
                  /\ Tools!PasswordIsAwaited /\ Tools!OutcomeIsTrue
<1>. SUFFICES ASSUME ToolsAreGood
     PROVE  /\ Tools!TypeOK /\ Tools!JobIsSomewhere /\ Tools!IdleIsAccepting
            /\ Tools!PasswordIsAwaited /\ Tools!OutcomeIsTrue
  OBVIOUS
<1>1. /\ ToolTypes /\ CommandsAreGood /\ ToolWorkerIsGood /\ EventsAreGood /\ ToolJobIsHeld
      /\ ToolOutputIsGood /\ IsToolUi(ui) /\ IsToolWorker(worker) /\ shared \in ToolShared
      /\ DOMAIN commands = 1..Len(commands) /\ DOMAIN events = 1..Len(events) /\ Len(events) \in Nat
      /\ worker.at \notin Works => worker.request.key.id = 0
      /\ ~Pends => worker.pending.request.key.id = 0
  BY SeqDomain, NoRequestType, ToolKeyType DEF ToolsAreGood, ToolTypes, ToolWorkerIsGood, Pends
<1>2. Tools!TypeOK
  <2>1. Len(events) <= 2
    <3>1. SUFFICES ASSUME ~(Len(events) <= 2) PROVE FALSE
      OBVIOUS
    <3>2. 2 \in 1..Len(events) /\ Len(events) # 2
      BY <1>1, <3>1
    <3>3. PICK i \in 1..Len(events) : i = 2 /\ EventIsGood(i)
      BY <1>1, <3>2 DEF EventsAreGood
    <3>4. i = 1 \/ i = Len(events)
      BY <3>3 DEF EventIsGood
    <3>. QED  BY <3>2, <3>3, <3>4
  <2>2. ui.job.id \in 0..MaxJobs /\ ui.stamp \in 1..MaxStamp /\ ui.next \in 1..MaxJobs + 1
    BY <1>1 DEF IsToolUi, ToolKey
  <2>3. shared.cancelled \subseteq 1..MaxJobs /\ shared.current \in 0..MaxJobs
    BY <1>1 DEF ToolShared
  <2>4. worker.at \in {"head", "recv", "register", "check", "preflight", "write", "written",
                       "clear", "send", "ended"}
    BY <1>1 DEF IsToolWorker, Works
  <2>. QED  BY <1>1, <2>1, <2>2, <2>3, <2>4 DEF Tools!TypeOK, Tools!Ids, ToolTypes
<1>3. Tools!JobIsSomewhere
  <2> DEFINE starts == \E i \in 1..Len(commands) : commands[i].do = "Start"
             ends == \E i \in 1..Len(events) : Tools!Terminal(events[i])
             sends == worker.at = "send" /\ Tools!Terminal(worker.event)
  <2>1. ASSUME ui.open, NEW id \in 1..MaxJobs
        PROVE  LET places == {p \in 1..4 : <<Tools!StartQueued(id), Tools!InHand(id),
                                             Tools!Waiting(id), Tools!EndOnItsWay(id)>>[p]}
               IN  IF ui.job.id = id THEN \E p \in 1..4 : places = {p} ELSE places = {}
    <3>0. id # 0
      BY JobsAssumption
    <3>1. Tools!StartQueued(id) <=> starts /\ ui.job.id = id
      BY <1>1 DEF Tools!StartQueued, CommandsAreGood, CommandIsGood
    <3>2. Tools!InHand(id) <=> (worker.at \in Works \/ sends) /\ ui.job.id = id
      BY <1>1, <3>0 DEF Tools!InHand, ToolWorkerIsGood
    <3>3. Tools!Waiting(id) <=> Pends /\ ui.job.id = id
      BY <1>1, <3>0 DEF Tools!Waiting, ToolWorkerIsGood
    <3>4. Tools!EndOnItsWay(id) <=> ends /\ ui.job.id = id
      BY <1>1 DEF Tools!EndOnItsWay, EventsAreGood, EventIsGood
    <3>5. /\ Tools!StartQueued(id) \in BOOLEAN /\ Tools!InHand(id) \in BOOLEAN
          /\ Tools!Waiting(id) \in BOOLEAN /\ Tools!EndOnItsWay(id) \in BOOLEAN
      BY DEF Tools!StartQueued, Tools!InHand, Tools!Waiting, Tools!EndOnItsWay
    <3>6. CASE ui.job.id = id
      <4>1. starts => worker.at \notin Works \cup {"send"} /\ ~Pends /\ events = <<>>
        BY <1>1 DEF CommandsAreGood, CommandIsGood, Works
      <4>2. ends => worker.at \notin Works \cup {"send"} /\ ~Pends
        BY <1>1 DEF EventsAreGood, EventIsGood, Asks, Tools!Terminal, Works
      <4>3. worker.at \in Works \/ sends => ~Pends
        BY <1>1 DEF ToolWorkerIsGood, Asks, Tools!Terminal
      <4>4. events = <<>> => ~ends
        BY SeqEmpty
      <4>5. starts \/ worker.at \in Works \cup {"send"} \/ Pends \/ ends
        BY <1>1, <2>1, <3>0, <3>6 DEF ToolJobIsHeld
      <4>6. worker.at = "send" => sends \/ Pends
        BY <1>1 DEF ToolWorkerIsGood
      <4>. HIDE DEF starts, ends
      <4>7. /\ ~(Tools!StartQueued(id) /\ Tools!InHand(id))
            /\ ~(Tools!StartQueued(id) /\ Tools!Waiting(id))
            /\ ~(Tools!StartQueued(id) /\ Tools!EndOnItsWay(id))
            /\ ~(Tools!InHand(id) /\ Tools!Waiting(id))
            /\ ~(Tools!InHand(id) /\ Tools!EndOnItsWay(id))
            /\ ~(Tools!Waiting(id) /\ Tools!EndOnItsWay(id))
        BY <3>1, <3>2, <3>3, <3>4, <4>1, <4>2, <4>3, <4>4
      <4>8. Tools!StartQueued(id) \/ Tools!InHand(id) \/ Tools!Waiting(id) \/ Tools!EndOnItsWay(id)
        BY <3>1, <3>2, <3>3, <3>4, <3>6, <4>5, <4>6
      <4>. QED  BY <3>5, <3>6, <4>7, <4>8, OneOfFour
    <3>7. CASE ui.job.id # id
      BY <3>1, <3>2, <3>3, <3>4, <3>5, <3>7, NoneOfFour
    <3>. QED  BY <3>6, <3>7
  <2>. QED  BY <2>1 DEF Tools!JobIsSomewhere, Tools!Ids
<1>4. Tools!IdleIsAccepting
  BY <1>1, ToolKeyType DEF Tools!IdleIsAccepting, ToolJobIsHeld
<1>5. Tools!PasswordIsAwaited
  <2>1. ASSUME NEW i \in DOMAIN commands, commands[i].do = "ProvidePassword",
               worker.pending # Tools!NotPending
        PROVE  worker.pending.request.key = commands[i].key /\ worker.pending.source = commands[i].source
    BY <1>1, <2>1 DEF CommandsAreGood, CommandIsGood, Pends
  <2>2. ui.open /\ ui.prompt => \/ worker.pending.request.key = ui.job /\ worker.pending.source = ui.awaited
                                \/ ui.job.id \in shared.cancelled
    BY <1>1 DEF ToolJobIsHeld, ToolWorkerIsGood
  <2>. QED  BY <2>1, <2>2 DEF Tools!PasswordIsAwaited
<1>6. Tools!OutcomeIsTrue
  <2>1. ASSUME NEW i \in DOMAIN events
        PROVE  /\ events[i].kind = "Completed" => events[i].key.id \in output
               /\ events[i].kind = "Failed" => events[i].key.id \notin output
    <3>1. events[i].key = ui.job /\ SaysTheTruth(events[i])
      BY <1>1 DEF EventsAreGood, EventIsGood, ToolOutputIsGood
    <3>. QED  BY <3>1 DEF SaysTheTruth
  <2>. QED  BY <2>1 DEF Tools!OutcomeIsTrue
<1>. QED  BY <1>2, <1>3, <1>4, <1>5, <1>6

-----------------------------------------------------------------------------
(* All five *)

JobsAreGood ==
  /\ owner \in {"tools", "print", "updates", "preferences", "watcher"}
  /\ owner = "tools" => ToolsAreGood
  /\ owner = "print" => PrintIsGood
  /\ owner = "updates" => UpdatesAreGood
  /\ owner = "preferences" => PreferencesAreGood
  /\ owner = "watcher" => WatchersAreGood

LEMMA JobsInit == Init => JobsAreGood
  BY ToolInit, PrintInit, UpdateInit, PreferencesInit, WatcherInit DEF Init, JobsAreGood

LEMMA JobsStep ==
  ASSUME JobsAreGood, [Next]_vars
  PROVE  /\ JobsAreGood'
         /\ owner = "preferences" => Prefs!NeverBack
         /\ owner = "print" /\ ui.active # 0 /\ ui'.active = ui.active => ui'.progress >= ui.progress
<1>1. owner' = owner /\ owner \in {"tools", "print", "updates", "preferences", "watcher"}
  BY DEF JobsAreGood, Next, Worker, Pump, User, vars
<1>2. CASE owner = "tools"
  <2>1. Tools!Worker \/ Tools!HandleToolEvent \/ Tools!User \/ UNCHANGED vars
    BY <1>2 DEF Next, Worker, Pump, User
  <2>. QED  BY <1>1, <1>2, <2>1, ToolStep DEF JobsAreGood
<1>3. CASE owner = "print"
  <2>1. Prints!Worker \/ Prints!HandlePrintEvent \/ Prints!User \/ UNCHANGED vars
    BY <1>3 DEF Next, Worker, Pump, User
  <2>2. PrintIsGood
    BY <1>3 DEF JobsAreGood
  <2>3. /\ PrintIsGood'
        /\ ui.active # 0 /\ ui'.active = ui.active => ui'.progress >= ui.progress
    BY <2>1, <2>2, PrintStep
  <2>. QED  BY <1>1, <1>3, <2>3 DEF JobsAreGood
<1>4. CASE owner = "updates"
  <2>1. Update!Worker \/ Update!HandleUpdateEvent \/ Update!User \/ UNCHANGED vars
    BY <1>4 DEF Next, Worker, Pump, User
  <2>. QED  BY <1>1, <1>4, <2>1, UpdateStep DEF JobsAreGood
<1>5. CASE owner = "preferences"
  <2>1. Prefs!Worker \/ Prefs!Pump \/ Prefs!User \/ UNCHANGED vars
    BY <1>5 DEF Next, Worker, Pump, User
  <2>2. PreferencesAreGood
    BY <1>5 DEF JobsAreGood
  <2>3. PreferencesAreGood'
    BY <2>1, <2>2, PreferencesWorker, PreferencesPump, PreferencesUser, PreferencesStutter
  <2>4. Prefs!NeverBack
    BY <2>1, <2>2, PreferencesAreNewer
  <2>. QED  BY <1>1, <1>5, <2>3, <2>4 DEF JobsAreGood
<1>6. CASE owner = "watcher"
  <2>1. Watch!Worker \/ Watch!Pump \/ Watch!User \/ UNCHANGED vars
    BY <1>6 DEF Next, Worker, Pump, User
  <2>. QED  BY <1>1, <1>6, <2>1, WatcherStep DEF JobsAreGood
<1>. QED  BY <1>1, <1>2, <1>3, <1>4, <1>5, <1>6

LEMMA JobsPromise ==
  JobsAreGood => JobIsSomewhere /\ IdleIsAccepting /\ OutcomeIsTrue /\ InputReachesItsJob /\ NewestIsTaken
<1>. SUFFICES ASSUME JobsAreGood
     PROVE  JobIsSomewhere /\ IdleIsAccepting /\ OutcomeIsTrue /\ InputReachesItsJob /\ NewestIsTaken
  OBVIOUS
<1>. USE DEF JobIsSomewhere, TypeOK, IdleIsAccepting, OutcomeIsTrue, InputReachesItsJob, NewestIsTaken
<1>1. CASE owner = "tools"
  BY <1>1, ToolPromise DEF JobsAreGood
<1>2. CASE owner = "print"
  BY <1>2, PrintPromise DEF JobsAreGood
<1>3. CASE owner = "updates"
  BY <1>3, UpdatePromise DEF JobsAreGood
<1>4. CASE owner = "preferences"
  BY <1>4, PreferencesPromise DEF JobsAreGood
<1>5. CASE owner = "watcher"
  BY <1>5, WatcherPromise DEF JobsAreGood
<1>. QED  BY <1>1, <1>2, <1>3, <1>4, <1>5 DEF JobsAreGood

LEMMA JobsStayGood == Spec => []JobsAreGood
<1>1. JobsAreGood /\ [Next]_vars => JobsAreGood'
  BY JobsStep
<1>. QED  BY JobsInit, <1>1, PTL DEF Spec

\* What the UI waits for is in exactly one place of its service and nothing else is
\* in any (ToolWorker, PrintWorker, UpdateWorker and the threads of FileWatcher), and
\* the commands and events that wait never need more room than there is.
THEOREM JobsAreSomewhere == Spec => []JobIsSomewhere
  BY JobsStayGood, JobsPromise, PTL

\* When the UI has taken the last event of a tool or print job, the worker's own
\* `active` flag has been cleared, so that the next job is not refused as busy.
THEOREM IdleServicesAccept == Spec => []IdleIsAccepting
  BY JobsStayGood, JobsPromise, PTL

\* The events of all five services say what is so on disk, in the spooler or of the
\* installer, though the job was cancelled or failed on the way.
THEOREM OutcomesAreTrue == Spec => []OutcomeIsTrue
  BY JobsStayGood, JobsPromise, PTL

\* A tool password is only ever queued or asked for on behalf of the request that
\* waits for it, and turning the update checks off reaches the check under way.
THEOREM InputsReachTheirJobs == Spec => []InputReachesItsJob
  BY JobsStayGood, JobsPromise, PTL

\* Once its thread rests, the newest preferences are on disk and the watcher has
\* seen the file as it is.
THEOREM NewestAreTaken == Spec => []NewestIsTaken
  BY JobsStayGood, JobsPromise, PTL

\* PreferencesWriter drops older snapshots and never writes one over a newer one.
THEOREM PreferencesOnlyAdvance == Spec => PreferencesNeverGoBack
<1>1. JobsAreGood /\ [Next]_vars => [owner = "preferences" => Prefs!NeverBack]_vars
  BY JobsStep
<1>. QED  BY JobsStayGood, <1>1, PTL DEF Spec, PreferencesNeverGoBack

\* The progress shown of one print job does not fall, whatever the queues hold.
THEOREM ProgressOnlyRises == Spec => ProgressNeverFalls
<1>1. JobsAreGood /\ [Next]_vars
        => [owner = "print" /\ ui.active # 0 /\ ui'.active = ui.active
              => ui'.progress >= ui.progress]_vars
  BY JobsStep
<1>. QED  BY JobsStayGood, <1>1, PTL DEF Spec, ProgressNeverFalls
=============================================================================
