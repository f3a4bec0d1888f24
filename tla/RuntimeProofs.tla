--------------------------- MODULE RuntimeProofs ---------------------------
(***************************************************************************)
(* The settings task of Runtime keeps the settings it compares with equal  *)
(* to those the pipelines run with, and misses no save: for any number of  *)
(* saves, wherever the task dies, whenever the device stalls and whenever  *)
(* main shuts the program down.                                            *)
(***************************************************************************)
EXTENDS Runtime, TLAPS

(***************************************************************************)
(* The mutex: who is in its critical section holds it.                     *)
(***************************************************************************)
TaskHolds ==
  task \in {"stopAudio", "stopVideo", "recreate", "audio", "video", "commit"}

MainHolds == main \in {"stopAudio", "stopVideo"}

LockInv ==
  /\ task \in TaskPC
  /\ TaskHolds <=> lock = "task"
  /\ MainHolds <=> lock = "main"

LEMMA LockStep == LockInv /\ [Next]_vars => LockInv'
<1> SUFFICES ASSUME LockInv, [Next]_vars PROVE LockInv'
  OBVIOUS
<1> USE DEF LockInv, TaskHolds, MainHolds, TaskPC
<1>1. CASE (\E changed \in SUBSET Aspects : Publish(changed)) \/ StallDevice
  BY <1>1 DEF Publish, StallDevice, settingsTask, shutdown
<1>2. CASE Task
  <2> USE DEF TaskStep, shutdown
  <2>1. CASE Changed \/ Borrow \/ Announce
    BY <2>1 DEF Changed, Borrow, Announce
  <2>2. CASE TaskLock
    BY <2>2 DEF TaskLock
  <2>3. CASE TaskStopAudio \/ TaskStopVideo \/ Recreate \/ RestartAudio
             \/ NothingToUpdate
    BY <2>3 DEF TaskStopAudio, TaskStopVideo, Recreate, RestartAudio,
       NothingToUpdate
  <2>4. CASE TaskPanics \/ Commit
    BY <2>4 DEF TaskPanics, Commit
  <2>5. QED
    BY <1>2, <2>1, <2>2, <2>3, <2>4 DEF Task
<1>3. CASE CtrlC \/ Main
  BY <1>3 DEF CtrlC, Main, MainLock, MainStopAudio, MainStopVideo, SaveOnExit,
     MainStep, settingsTask
<1>4. CASE Rest \/ UNCHANGED vars
  BY <1>4 DEF Rest, vars, settingsTask, shutdown
<1>5. QED
  BY <1>1, <1>2, <1>3, <1>4 DEF Next

LEMMA LockInit == Init => LockInv
BY DEF Init, LockInv, TaskHolds, MainHolds, TaskPC

(***************************************************************************)
(* The mutex is never left to nobody, although the settings task panics    *)
(* with the guard in its hands (update_video, update_preview on a runtime  *)
(* thread, main.rs:173, 176) and main asks for it at any moment (:210):    *)
(* who holds it is alive and in its critical section, and only there.  It  *)
(* is what ShutdownSaves needs besides fairness.                           *)
(***************************************************************************)
HolderAlive ==
  /\ lock = "task" <=> TaskHolds
  /\ lock = "main" <=> MainHolds
  /\ task = "dead" => lock # "task"

THEOREM MutexNeverOrphaned == Spec => []HolderAlive
<1>1. LockInv => HolderAlive
  BY DEF LockInv, HolderAlive, TaskHolds
<1>2. QED
  BY <1>1, LockInit, LockStep, PTL DEF Spec

-----------------------------------------------------------------------------
(***************************************************************************)
(* CommittedIsRunning speaks of moments at which nobody holds the mutex.   *)
(* While the task holds it, the pipelines go over from the committed       *)
(* settings to the new ones: first audio, then video.                      *)
(***************************************************************************)
AudioRuns(s) == audio.cfg = s["audio"]

VideoRuns(s) ==
  /\ video.cfg = s["video"]
  /\ video.preview = s["preview"]
  /\ video.send = s["send"]

MainWaits == main \in {"serving", "lock"}

RunningInv ==
  MainWaits =>
    /\ task \in {"wait", "borrow", "lock", "announce", "audio"} =>
         AudioRuns(committed) /\ VideoRuns(committed)
    /\ task = "video" => AudioRuns(new) /\ VideoRuns(committed)
    /\ task = "commit" => AudioRuns(new) /\ VideoRuns(new)
    /\ task \in {"audio", "video"} => ~SendChanged

LEMMA RunningStep == LockInv /\ RunningInv /\ [Next]_vars => RunningInv'
<1> SUFFICES ASSUME LockInv, RunningInv, [Next]_vars PROVE RunningInv'
  OBVIOUS
<1> USE DEF RunningInv, MainWaits, AudioRuns, VideoRuns
<1>1. CASE (\E changed \in SUBSET Aspects : Publish(changed)) \/ StallDevice
  BY <1>1 DEF Publish, StallDevice, settingsTask, pipelines, shutdown,
     SendChanged, Differs
<1>2. CASE Task
  <2> USE DEF TaskStep, shutdown, pipelines
  <2>1. CASE Changed \/ Borrow \/ Announce
    BY <2>1 DEF Changed, Borrow, Announce, SendChanged, Differs
  <2>2. CASE TaskLock
    BY <2>2 DEF TaskLock, SendChanged, Differs
  <2>3. CASE TaskStopAudio \/ TaskStopVideo \/ Recreate
    BY <2>3 DEF TaskStopAudio, TaskStopVideo, Recreate
  <2>4. CASE RestartAudio
    <3>1. UNCHANGED <<main, committed, new, video>> /\ task' = "video"
          /\ task = "audio"
      BY <2>4 DEF RestartAudio
    <3>2. MainWaits => audio'.cfg = new["audio"]
      BY <2>4 DEF RestartAudio, AudioChanged, Differs
    <3>3. QED
      BY <3>1, <3>2 DEF SendChanged, Differs
  <2>5. CASE NothingToUpdate
    <3>1. UNCHANGED <<main, committed, new, audio, video>> /\ task = "video"
          /\ task' = "commit"
      BY <2>5 DEF NothingToUpdate
    <3>2. committed["video"] = new["video"] /\ committed["preview"] = new["preview"]
      BY <2>5 DEF NothingToUpdate, VideoChanged, PreviewChanged, Differs
    <3>3. MainWaits => committed["send"] = new["send"]
      BY <3>1 DEF SendChanged, Differs
    <3>4. QED
      BY <3>1, <3>2, <3>3
  <2>6. CASE TaskPanics \/ Commit
    BY <2>6 DEF TaskPanics, Commit
  <2>7. QED
    BY <1>2, <2>1, <2>2, <2>3, <2>4, <2>5, <2>6 DEF Task
<1>3. CASE CtrlC \/ Main
  BY <1>3 DEF CtrlC, Main, MainLock, MainStopAudio, MainStopVideo, SaveOnExit,
     MainStep, settingsTask, pipelines, SendChanged, Differs
<1>4. CASE Rest \/ UNCHANGED vars
  BY <1>4 DEF Rest, vars, settingsTask, shutdown, pipelines, SendChanged, Differs
<1>5. QED
  BY <1>1, <1>2, <1>3, <1>4 DEF Next

(***************************************************************************)
(* Whenever the mutex is free, the task alive and the program not shutting *)
(* down, guard.settings is what the pipelines run with, so that the next   *)
(* save is compared with the truth (main.rs:138-183).                      *)
(***************************************************************************)
THEOREM CommittedSettingsRun == Spec => []CommittedIsRunning
<1>1. Init => LockInv /\ RunningInv
  BY DEF Init, LockInv, TaskHolds, MainHolds, TaskPC, RunningInv, AudioRuns, VideoRuns,
     Initial, Aspects
<1>2. LockInv /\ RunningInv => CommittedIsRunning
  <2> SUFFICES ASSUME LockInv, RunningInv, lock = "free", task # "dead",
                      main \in {"serving", "lock"}
               PROVE  AudioRuns(committed) /\ VideoRuns(committed)
    BY DEF CommittedIsRunning, AudioRuns, VideoRuns
  <2> QED
    BY DEF LockInv, TaskHolds, TaskPC, RunningInv, MainWaits
<1>3. QED
  BY <1>1, <1>2, LockStep, RunningStep, PTL DEF Spec

-----------------------------------------------------------------------------
(***************************************************************************)
(* The newest settings that were sent are on their way through the task:   *)
(* a version that is marked as seen is still to be borrowed, or is what    *)
(* the task holds as new_settings, or is committed.                        *)
(***************************************************************************)
SeenInv ==
  /\ rxVer \in Nat /\ watchVer \in Nat /\ rxVer <= watchVer
  /\ rxVer = watchVer =>
       /\ task \in {"lock"} \cup {"stopAudio", "stopVideo", "recreate", "audio",
                                  "video", "commit", "announce"} => new = watched
       /\ task \in {"wait", "announce"} => committed = watched

\* The name that is announced is the committed one, or about to be.
NameInv ==
  /\ task \notin {"announce", "dead"} => announced = committed["name"]
  /\ task = "announce" => new["name"] = committed["name"]

LEMMA SeenStep == SeenInv /\ [Next]_vars => SeenInv'
<1> SUFFICES ASSUME SeenInv, [Next]_vars PROVE SeenInv'
  OBVIOUS
<1> USE DEF SeenInv
<1>1. CASE \E changed \in SUBSET Aspects : Publish(changed)
  <2>1. UNCHANGED <<task, rxVer, new, committed>>
    BY <1>1 DEF Publish, settingsTask, pipelines
  <2>2. CASE task = "dead"
    BY <1>1, <2>1, <2>2 DEF Publish
  <2>3. CASE task # "dead"
    <3>1. watchVer' = watchVer + 1
      BY <1>1, <2>3 DEF Publish
    <3>2. QED
      BY <2>1, <3>1
  <2>4. QED
    BY <2>2, <2>3
<1>2. CASE Task
  <2> USE DEF TaskStep, web
  <2>1. CASE Changed \/ Borrow \/ Announce
    BY <2>1 DEF Changed, Borrow, Announce, pipelines
  <2>2. CASE TaskLock \/ TaskPanics
    BY <2>2 DEF TaskLock, TaskPanics, pipelines
  <2>3. CASE TaskStopAudio \/ TaskStopVideo \/ Recreate \/ RestartAudio
             \/ NothingToUpdate
    BY <2>3 DEF TaskStopAudio, TaskStopVideo, Recreate, RestartAudio,
       NothingToUpdate, pipelines
  <2>4. CASE Commit
    BY <2>4 DEF Commit
  <2>5. QED
    BY <1>2, <2>1, <2>2, <2>3, <2>4 DEF Task
<1>3. CASE StallDevice \/ CtrlC \/ Main
  BY <1>3 DEF StallDevice, CtrlC, Main, MainLock, MainStopAudio, MainStopVideo,
     SaveOnExit, web, settingsTask, pipelines
<1>4. CASE Rest \/ UNCHANGED vars
  BY <1>4 DEF Rest, vars, web, settingsTask, pipelines
<1>5. QED
  BY <1>1, <1>2, <1>3, <1>4 DEF Next

LEMMA NameStep == NameInv /\ [Next]_vars => NameInv'
<1> SUFFICES ASSUME NameInv, [Next]_vars PROVE NameInv'
  OBVIOUS
<1> USE DEF NameInv
<1>1. CASE Task
  <2> USE DEF TaskStep
  <2>1. CASE Changed \/ Borrow \/ TaskLock \/ TaskPanics
    BY <2>1 DEF Changed, Borrow, TaskLock, TaskPanics, pipelines
  <2>2. CASE TaskStopAudio \/ TaskStopVideo \/ Recreate \/ RestartAudio
             \/ NothingToUpdate
    BY <2>2 DEF TaskStopAudio, TaskStopVideo, Recreate, RestartAudio,
       NothingToUpdate, pipelines
  <2>3. CASE Commit
    BY <2>3 DEF Commit, NameChanged, Differs
  <2>4. CASE Announce
    BY <2>4 DEF Announce, pipelines
  <2>5. QED
    BY <1>1, <2>1, <2>2, <2>3, <2>4 DEF Task
<1>2. CASE \/ \E changed \in SUBSET Aspects : Publish(changed)
           \/ StallDevice \/ CtrlC \/ Main
  BY <1>2 DEF Publish, StallDevice, CtrlC, Main, MainLock, MainStopAudio,
     MainStopVideo, SaveOnExit, settingsTask, pipelines
<1>3. CASE Rest \/ UNCHANGED vars
  BY <1>3 DEF Rest, vars, settingsTask, pipelines
<1>4. QED
  BY <1>1, <1>2, <1>3 DEF Next

(***************************************************************************)
(* A settings task that waits with nothing new to see has applied and      *)
(* announced the newest settings sent to it, however fast they came        *)
(* (main.rs:134-137, 180-191).                                             *)
(***************************************************************************)
THEOREM NewestSaveApplied == Spec => []NoSaveMissed
<1>1. Init => SeenInv /\ NameInv
  BY DEF Init, SeenInv, NameInv, Initial, Aspects
<1>2. SeenInv /\ NameInv => NoSaveMissed
  BY DEF SeenInv, NameInv, NoSaveMissed
<1>3. QED
  BY <1>1, <1>2, SeenStep, NameStep, PTL DEF Spec

-----------------------------------------------------------------------------
(***************************************************************************)
(* Types.  Versions are numbers of saves.  A pipeline is made anew at most *)
(* once for each version the task has seen, so that the generations are    *)
(* bounded by the saves, too.                                              *)
(***************************************************************************)
Versions == 0..MaxPublish

SettingsTyped ==
  /\ requested \in Settings /\ watched \in Settings
  /\ new \in Settings /\ committed \in Settings
  /\ announced \in Versions

CountersTyped ==
  /\ saves \in Versions
  /\ watchVer \in 0..saves /\ rxVer \in 0..watchVer

PipelinesTyped ==
  /\ audio \in [gen : Versions, cfg : {Stopped} \cup Versions]
  /\ video \in [gen : Versions, cfg : {Stopped} \cup Versions,
                preview : Versions, send : Versions]

\* The generations, and one to come in a round that has not made them yet.
GensSeen ==
  /\ audio.gen <= rxVer /\ video.gen <= rxVer
  /\ task \in {"borrow", "lock", "stopAudio", "stopVideo", "recreate", "audio"}
       => audio.gen < rxVer /\ video.gen < rxVer

PlacesTyped ==
  /\ task \in TaskPC
  /\ lock \in {"free", "task", "main"}
  /\ main \in {"serving", "lock", "stopAudio", "stopVideo", "save", "exited"}
  /\ saved \in {Stopped} \cup Versions

LEMMA TypedInit ==
  Init => SettingsTyped /\ CountersTyped /\ PipelinesTyped /\ GensSeen
<1> SUFFICES ASSUME Init
             PROVE  SettingsTyped /\ CountersTyped /\ PipelinesTyped /\ GensSeen
  OBVIOUS
<1>1. Initial \in Settings
  BY MaxPublishAssumption DEF Initial, Settings
<1>2. SettingsTyped /\ CountersTyped /\ PipelinesTyped
  BY <1>1, MaxPublishAssumption
     DEF Init, SettingsTyped, CountersTyped, PipelinesTyped, Versions
<1>3. GensSeen
  BY DEF Init, GensSeen
<1>4. QED
  BY <1>2, <1>3

LEMMA SettingsStep ==
  SettingsTyped /\ CountersTyped /\ [Next]_vars => SettingsTyped'
<1> SUFFICES ASSUME SettingsTyped, CountersTyped, [Next]_vars
             PROVE  SettingsTyped'
  OBVIOUS
<1> USE DEF SettingsTyped
<1>1. ASSUME NEW changed \in SUBSET Aspects, Publish(changed)
      PROVE  SettingsTyped'
  <2>1. saves + 1 \in Versions
    BY <1>1, MaxPublishAssumption DEF Publish, CountersTyped, Versions
  <2>2. requested' = [a \in Aspects |->
                        IF a \in changed THEN saves + 1 ELSE requested[a]]
    BY <1>1 DEF Publish
  <2>3. requested' \in Settings
    BY <2>1, <2>2 DEF Settings, Versions
  <2>4. watched' \in {watched, requested'}
    BY <1>1 DEF Publish
  <2>5. UNCHANGED <<new, committed, announced>>
    BY <1>1 DEF Publish, settingsTask, pipelines
  <2>6. QED
    BY <2>3, <2>4, <2>5
<1>2. CASE Task
  <2>1. CASE Announce
    BY <2>1 DEF Announce, web, pipelines, Settings, Aspects, Versions
  <2>2. CASE \/ Changed \/ Borrow \/ TaskLock \/ TaskStopAudio
             \/ TaskStopVideo \/ Recreate \/ RestartAudio \/ TaskPanics
             \/ NothingToUpdate \/ Commit
    BY <2>2 DEF Changed, Borrow, TaskLock, TaskStopAudio, TaskStopVideo,
       Recreate, RestartAudio, TaskPanics, NothingToUpdate, Commit, web,
       pipelines
  <2>3. QED
    BY <1>2, <2>1, <2>2 DEF Task
<1>3. CASE StallDevice \/ CtrlC \/ Main \/ Rest \/ UNCHANGED vars
  BY <1>3 DEF StallDevice, CtrlC, Main, MainLock, MainStopAudio,
     MainStopVideo, SaveOnExit, Rest, vars, web, settingsTask, pipelines
<1>4. QED
  BY <1>1, <1>2, <1>3 DEF Next

LEMMA CountersStep == CountersTyped /\ [Next]_vars => CountersTyped'
<1> SUFFICES ASSUME CountersTyped, [Next]_vars PROVE CountersTyped'
  OBVIOUS
<1> USE MaxPublishAssumption DEF CountersTyped, Versions
<1>1. ASSUME NEW changed \in SUBSET Aspects, Publish(changed)
      PROVE  CountersTyped'
  <2>1. /\ saves < MaxPublish /\ saves' = saves + 1 /\ UNCHANGED rxVer
        /\ watchVer' \in {watchVer, watchVer + 1}
    BY <1>1 DEF Publish, settingsTask
  <2>2. QED
    BY <2>1
<1>2. CASE Task
  BY <1>2 DEF Task, Changed, Borrow, TaskLock, TaskStopAudio, TaskStopVideo,
     Recreate, RestartAudio, TaskPanics, NothingToUpdate, Commit, Announce,
     web
<1>3. CASE StallDevice \/ CtrlC \/ Main \/ Rest \/ UNCHANGED vars
  BY <1>3 DEF StallDevice, CtrlC, Main, MainLock, MainStopAudio,
     MainStopVideo, SaveOnExit, Rest, vars, web, settingsTask
<1>4. QED
  BY <1>1, <1>2, <1>3 DEF Next

\* Where the settings come from that a pipeline is made with.
LEMMA AspectsTyped ==
  ASSUME NEW s \in Settings
  PROVE  /\ s["audio"] \in Versions /\ s["video"] \in Versions
         /\ s["preview"] \in Versions /\ s["send"] \in Versions
BY DEF Settings, Aspects, Versions

LEMMA PipelinesStep ==
  ASSUME SettingsTyped, CountersTyped, PipelinesTyped, GensSeen, [Next]_vars
  PROVE  PipelinesTyped' /\ GensSeen'
<1> USE MaxPublishAssumption
<1>1. ASSUME UNCHANGED <<audio, video, rxVer>>,
             task' = task \/ task' \notin {"borrow", "lock", "stopAudio",
                                         "stopVideo", "recreate", "audio"}
      PROVE  PipelinesTyped' /\ GensSeen'
  BY <1>1 DEF PipelinesTyped, GensSeen
<1>2. CASE \/ \E changed \in SUBSET Aspects : Publish(changed)
           \/ StallDevice \/ CtrlC \/ MainLock \/ SaveOnExit \/ Rest
           \/ UNCHANGED vars
  BY <1>1, <1>2 DEF Publish, StallDevice, CtrlC, MainStep, MainLock,
     SaveOnExit, Rest, vars, settingsTask, pipelines
<1>3. CASE TaskPanics \/ NothingToUpdate \/ Commit \/ Announce
  BY <1>1, <1>3 DEF TaskPanics, NothingToUpdate, Commit, Announce, TaskStep,
     pipelines
<1>4. CASE Changed
  <2>1. rxVer' = watchVer /\ rxVer < rxVer' /\ UNCHANGED <<audio, video>>
    BY <1>4 DEF Changed, CountersTyped, Versions, pipelines
  <2>2. QED
    BY <2>1 DEF PipelinesTyped, GensSeen, CountersTyped, Versions
<1>5. CASE Borrow \/ TaskLock
  BY <1>5 DEF Borrow, TaskLock, TaskStep, pipelines, PipelinesTyped, GensSeen
<1>6. CASE TaskStopAudio \/ TaskStopVideo
  BY <1>6 DEF TaskStopAudio, TaskStopVideo, TaskStep, PipelinesTyped, GensSeen
<1>7. CASE MainStopAudio \/ MainStopVideo
  BY <1>7 DEF MainStopAudio, MainStopVideo, settingsTask, PipelinesTyped,
     GensSeen
<1>8. CASE Recreate
  <2>1. /\ task = "recreate" /\ task' = "commit" /\ UNCHANGED rxVer
        /\ audio' = [gen |-> audio.gen + 1, cfg |-> new["audio"]]
        /\ video' = [gen |-> video.gen + 1, cfg |-> new["video"],
                     preview |-> new["preview"], send |-> new["send"]]
    BY <1>8 DEF Recreate, TaskStep
  <2>2. audio.gen + 1 <= rxVer /\ video.gen + 1 <= rxVer
    BY <2>1 DEF GensSeen, PipelinesTyped, CountersTyped, Versions
  <2>3. audio.gen + 1 \in Versions /\ video.gen + 1 \in Versions
    BY <2>2 DEF PipelinesTyped, CountersTyped, Versions
  <2>4. PipelinesTyped'
    BY <2>1, <2>3, AspectsTyped DEF PipelinesTyped, SettingsTyped
  <2>5. GensSeen'
    BY <2>1, <2>2 DEF GensSeen
  <2>6. QED
    BY <2>4, <2>5
<1>9. CASE RestartAudio
  <2>1. /\ task = "audio" /\ task' = "video" /\ UNCHANGED <<rxVer, video>>
        /\ audio' \in {audio, [gen |-> audio.gen + 1, cfg |-> new["audio"]]}
    BY <1>9 DEF RestartAudio, TaskStep
  <2>2. audio.gen + 1 <= rxVer
    BY <2>1 DEF GensSeen, PipelinesTyped, CountersTyped, Versions
  <2>3. audio.gen + 1 \in Versions
    BY <2>2 DEF PipelinesTyped, CountersTyped, Versions
  <2>4. PipelinesTyped'
    BY <2>1, <2>3, AspectsTyped DEF PipelinesTyped, SettingsTyped
  <2>5. GensSeen'
    BY <2>1, <2>2 DEF GensSeen
  <2>6. QED
    BY <2>4, <2>5
<1>10. QED
  BY <1>2, <1>3, <1>4, <1>5, <1>6, <1>7, <1>8, <1>9 DEF Next, Task, Main

LEMMA PlacesStep == PlacesTyped /\ CountersTyped /\ [Next]_vars => PlacesTyped'
<1> SUFFICES ASSUME PlacesTyped, CountersTyped, [Next]_vars PROVE PlacesTyped'
  OBVIOUS
<1> USE DEF PlacesTyped
<1>1. CASE \/ \E changed \in SUBSET Aspects : Publish(changed)
           \/ StallDevice \/ Rest \/ UNCHANGED vars
  BY <1>1 DEF Publish, StallDevice, Rest, vars, settingsTask, shutdown
<1>2. CASE Task
  BY <1>2 DEF Task, Changed, Borrow, TaskLock, TaskStopAudio, TaskStopVideo,
     Recreate, RestartAudio, TaskPanics, NothingToUpdate, Commit, Announce,
     TaskStep, TaskPC, shutdown
<1>3. CASE CtrlC \/ Main
  BY <1>3 DEF CtrlC, Main, MainLock, MainStopAudio, MainStopVideo, SaveOnExit,
     MainStep, settingsTask, CountersTyped
<1>4. QED
  BY <1>1, <1>2, <1>3 DEF Next

(***************************************************************************)
(* The variables of Runtime keep their types: the task makes each pipeline *)
(* anew at most once for a version it has seen (main.rs:134-171).          *)
(***************************************************************************)
THEOREM TypeCorrect == Spec => []TypeOK
<1> USE MaxPublishAssumption
<1> DEFINE Typed == /\ SettingsTyped /\ CountersTyped /\ PipelinesTyped
                    /\ GensSeen /\ PlacesTyped
<1> DEFINE StalledTyped == stalled \subseteq Stalling
<1>1. Init => Typed
  BY TypedInit DEF Init, PlacesTyped, TaskPC
<1>2. Typed /\ [Next]_vars => Typed'
  BY SettingsStep, CountersStep, PipelinesStep, PlacesStep
<1>3. Init => StalledTyped
  BY DEF Init
<1>4. StalledTyped /\ [Next]_vars => StalledTyped'
  <2> SUFFICES ASSUME StalledTyped, [Next]_vars PROVE StalledTyped'
    OBVIOUS
  <2>1. CASE StallDevice
    BY <2>1 DEF StallDevice
  <2>2. CASE UNCHANGED stalled
    BY <2>2
  <2>3. StallDevice \/ UNCHANGED stalled
    BY DEF Next, Publish, Task, Changed, Borrow, TaskLock, TaskStopAudio,
       TaskStopVideo, Recreate, RestartAudio, TaskPanics, NothingToUpdate,
       Commit, Announce, CtrlC, Main, MainLock, MainStopAudio, MainStopVideo,
       SaveOnExit, Rest, vars
  <2>4. QED
    BY <2>1, <2>2, <2>3
<1>5. Typed /\ StalledTyped => TypeOK
  BY DEF SettingsTyped, CountersTyped, PipelinesTyped, PlacesTyped, Versions,
     TypeOK
<1>6. QED
  BY <1>1, <1>2, <1>3, <1>4, <1>5, PTL DEF Spec

-----------------------------------------------------------------------------
(***************************************************************************)
(* For the refinement: the versions of the audio settings never overtake   *)
(* one another on their way from the web server to the audio pipeline.     *)
(***************************************************************************)
InOrder ==
  /\ audio.cfg <= new["audio"]
  /\ new["audio"] <= watched["audio"]
  /\ watched["audio"] <= requested["audio"]
  /\ requested["audio"] <= saves

AudioInv == SettingsTyped /\ CountersTyped /\ PipelinesTyped /\ InOrder

LEMMA InOrderStep ==
  ASSUME AudioInv, [Next]_vars PROVE InOrder'
<1> USE MaxPublishAssumption DEF AudioInv, InOrder
<1>1. /\ new["audio"] \in Versions /\ watched["audio"] \in Versions
      /\ requested["audio"] \in Versions /\ saves \in Versions
      /\ audio.cfg \in {-1} \cup Versions
  BY AspectsTyped DEF SettingsTyped, CountersTyped, PipelinesTyped, Stopped
<1>2. ASSUME NEW changed \in SUBSET Aspects, Publish(changed)
      PROVE  InOrder'
  <2>1. UNCHANGED <<audio, new>> /\ saves' = saves + 1
    BY <1>2 DEF Publish, settingsTask, pipelines
  <2>2. requested'["audio"] \in {requested["audio"], saves + 1}
    BY <1>2 DEF Publish, Aspects
  <2>3. watched' \in {watched, requested'}
    BY <1>2 DEF Publish
  <2>4. QED
    BY <1>1, <2>1, <2>2, <2>3 DEF Versions
<1>3. CASE Borrow
  BY <1>1, <1>3 DEF Borrow, web, pipelines, Versions
<1>4. CASE TaskStopAudio \/ MainStopAudio
  <2>1. audio'.cfg = -1 /\ UNCHANGED <<requested, saves, watched, new>>
    BY <1>4 DEF TaskStopAudio, MainStopAudio, PipelinesTyped, web,
       settingsTask, Stopped
  <2>2. QED
    BY <1>1, <2>1 DEF Versions
<1>5. CASE Recreate \/ RestartAudio
  <2>1. /\ audio'.cfg \in {audio.cfg, new["audio"]}
        /\ UNCHANGED <<requested, saves, watched, new>>
    BY <1>5 DEF Recreate, RestartAudio, web
  <2>2. QED
    BY <1>1, <2>1 DEF Versions
<1>6. CASE \/ StallDevice \/ Changed \/ TaskLock \/ TaskStopVideo
           \/ TaskPanics \/ NothingToUpdate \/ Commit \/ Announce \/ CtrlC
           \/ MainLock \/ MainStopVideo \/ SaveOnExit \/ Rest
           \/ UNCHANGED vars
  BY <1>6 DEF StallDevice, Changed, TaskLock, TaskStopVideo, TaskPanics,
     NothingToUpdate, Commit, Announce, CtrlC, MainLock, MainStopVideo,
     SaveOnExit, Rest, vars, web, settingsTask, pipelines
<1>7. QED
  BY <1>2, <1>3, <1>4, <1>5, <1>6 DEF Next, Task, Main

(***************************************************************************)
(* Runtime implements LiveSettings for the audio settings: what the audio  *)
(* pipeline runs with was saved, and is replaced only by the same or newer *)
(* settings unless the pipeline is stopped in between, in whatever order   *)
(* saves, restarts, the panic of the task and the shutdown come            *)
(* (main.rs:134-171, 205-217).                                             *)
(***************************************************************************)
THEOREM AudioRefinement == Spec => AudioImplementsLiveSettings
<1> USE MaxPublishAssumption
<1> DEFINE Inv == AudioInv /\ GensSeen
<1>1. Init => Inv
  BY TypedInit DEF Init, AudioInv, InOrder, Initial, Aspects
<1>2. Inv /\ [Next]_vars => Inv'
  BY SettingsStep, CountersStep, PipelinesStep, InOrderStep DEF AudioInv
<1>3. Init => AudioLive!LSInit
  BY DEF Init, Initial, Aspects, AudioLive!LSInit
<1>4. Inv /\ [Next]_vars => [AudioLive!LSNext]_(AudioLive!lsVars)
  <2> SUFFICES ASSUME Inv, [Next]_vars
               PROVE  [AudioLive!LSNext]_(AudioLive!lsVars)
    OBVIOUS
  <2> USE DEF AudioLive!lsVars, AudioLive!LSNext, AudioLive!Nothing, Stopped
  <2>1. /\ new["audio"] \in Versions /\ requested["audio"] \in Versions
        /\ saves \in Versions /\ audio.cfg <= new["audio"]
        /\ new["audio"] <= requested["audio"] /\ requested["audio"] <= saves
    BY AspectsTyped DEF AudioInv, SettingsTyped, CountersTyped, InOrder,
       Versions, Settings, Aspects
  <2>2. ASSUME NEW changed \in SUBSET Aspects, Publish(changed)
        PROVE  [AudioLive!LSNext]_(AudioLive!lsVars)
    <3>1. UNCHANGED <<audio, main, task>>
      BY <2>2 DEF Publish, settingsTask, pipelines, shutdown
    <3>2. saves < MaxPublish
          /\ requested'["audio"] \in {requested["audio"], saves + 1}
      BY <2>2 DEF Publish, Aspects
    <3>3. CASE requested'["audio"] = requested["audio"]
      BY <3>1, <3>3
    <3>4. CASE requested'["audio"] = saves + 1
      <4>1. requested'["audio"] \in (requested["audio"] + 1)..MaxPublish
        BY <2>1, <3>2, <3>4 DEF Versions
      <4>2. QED
        BY <3>1, <4>1 DEF AudioLive!Publish
    <3>5. QED
      BY <3>2, <3>3, <3>4
  <2>3. CASE Recreate \/ RestartAudio
    <3>1. /\ audio'.cfg \in {audio.cfg, new["audio"]}
          /\ UNCHANGED <<requested, main>> /\ task # "dead" /\ task' # "dead"
      BY <2>3 DEF Recreate, RestartAudio, TaskStep, web, shutdown
    <3>2. CASE audio'.cfg = audio.cfg
      BY <3>1, <3>2
    <3>3. CASE audio'.cfg = new["audio"]
      <4>1. new["audio"] \in 0..requested["audio"]
            /\ new["audio"] >= audio.cfg
        BY <2>1 DEF Versions, AudioInv, PipelinesTyped
      <4>2. QED
        BY <3>1, <3>3, <4>1 DEF AudioLive!TakeEffect
    <3>4. QED
      BY <3>1, <3>2, <3>3
  <2>4. CASE TaskStopAudio \/ MainStopAudio
    <3>1. /\ audio'.cfg = -1
          /\ UNCHANGED requested
          /\ (main' = "serving" /\ task' # "dead")
               = (main = "serving" /\ task # "dead")
      BY <2>4 DEF TaskStopAudio, MainStopAudio, AudioInv, PipelinesTyped,
         TaskStep, MainStep, web, settingsTask, shutdown
    <3>2. QED
      BY <3>1 DEF AudioLive!Withdraw
  <2>5. CASE TaskPanics \/ CtrlC
    <3>1. UNCHANGED <<requested, audio>>
          /\ (main' # "serving" \/ task' = "dead")
      BY <2>5 DEF TaskPanics, CtrlC, TaskStep, MainStep, web, pipelines
    <3>2. QED
      BY <3>1 DEF AudioLive!Close
  <2>6. CASE StallDevice
    BY <2>6 DEF StallDevice, web, settingsTask, pipelines, shutdown
  <2>7. CASE \/ Changed \/ Borrow \/ TaskLock \/ TaskStopVideo
             \/ NothingToUpdate \/ Commit \/ Announce
    <3>1. UNCHANGED <<requested, audio, main>>
      BY <2>7 DEF Changed, Borrow, TaskLock, TaskStopVideo, NothingToUpdate,
         Commit, Announce, web, pipelines, shutdown
    <3>2. task # "dead" /\ task' # "dead"
      BY <2>7 DEF Changed, Borrow, TaskLock, TaskStopVideo, NothingToUpdate,
         Commit, Announce, TaskStep
    <3>3. QED
      BY <3>1, <3>2
  <2>8. CASE MainLock \/ MainStopVideo \/ SaveOnExit
    <3>1. UNCHANGED <<requested, audio, task>>
          /\ main # "serving" /\ main' # "serving"
      BY <2>8 DEF MainLock, MainStopVideo, SaveOnExit, MainStep, web,
         settingsTask, pipelines
    <3>2. QED
      BY <3>1
  <2>9. CASE Rest \/ UNCHANGED vars
    BY <2>9 DEF Rest, vars, web, settingsTask, pipelines, shutdown
  <2>10. QED
    BY <2>2, <2>3, <2>4, <2>5, <2>6, <2>7, <2>8, <2>9 DEF Next, Task, Main
<1>5. QED
  BY <1>1, <1>2, <1>3, <1>4, PTL
     DEF Spec, AudioImplementsLiveSettings, AudioLive!LSSpec

=============================================================================
