------------------------------- MODULE Runtime -------------------------------
(***************************************************************************)
(* main.rs: the task that applies saved settings to the running pipelines, *)
(* the pipelines behind their mutex, the handles that the web server took  *)
(* when the program started, and the shutdown path of main.                *)
(*                                                                         *)
(* Settings are a version per aspect: the number of the save that last     *)
(* changed it.  A web handler's save is Publish; the pipelines are what    *)
(* VideoPipeline and AudioPipeline make of them: stopped, or running with  *)
(* some settings.  A stop of one returns only if its thread does not wait  *)
(* for ever (WaitsForEver of those modules): for the capture device, or    *)
(* for an audio input that is open elsewhere.                              *)
(***************************************************************************)
EXTENDS Integers

CONSTANTS
  MaxPublish,       \* bound on the number of saves
  Stalling          \* the pipelines, audio or video, whose thread may come to
                    \* wait for ever

ASSUME MaxPublishAssumption == MaxPublish \in Nat
ASSUME StallingAssumption == Stalling \subseteq {"audio", "video"}

Aspects == {"audio", "video", "name", "preview", "send"}
Settings == [Aspects -> 0..MaxPublish]
Stopped == -1
TaskPC == {"wait", "borrow", "lock", "stopAudio", "stopVideo", "recreate",
           "audio", "video", "commit", "announce", "dead"}

VARIABLES
  requested,   \* the shared settings the web server shows (GET /api/config)
  saves,       \* number of saves so far
  watched,     \* value in the watch channel
  watchVer,    \* its version
  rxVer,       \* version the task has marked as seen
  task,        \* where the settings task is
  new,         \* new_settings of the task
  lock,        \* holder of the pipelines mutex
  committed,   \* guard.settings
  audio,       \* [gen, cfg]: which AudioPipeline object, its settings
  video,       \* [gen, cfg, preview, send]: the same of the VideoPipeline
  announced,   \* source name in the sender info and in mDNS
  main,        \* where main is
  saved,       \* version of the settings file written on exit, or Stopped
  stalled      \* the pipelines whose thread waits for ever

web == <<requested, saves, watched, watchVer>>
settingsTask == <<rxVer, task, new, announced>>
pipelines == <<committed, audio, video>>
shutdown == <<main, saved>>
vars == <<web, settingsTask, lock, pipelines, shutdown, stalled>>

Initial == [a \in Aspects |-> 0]

\* The audio levels and the video frame that main gives to the web server and
\* to the preview loop are those of the first pipelines, once and for all.
WebHandles == [levels |-> 0, frame |-> 0]

\* Both pipelines have been started and the web server has their handles.
Init ==
  /\ requested = Initial /\ saves = 0
  /\ watched = Initial /\ watchVer = 0
  /\ rxVer = 0 /\ task = "wait" /\ new = Initial
  /\ lock = "free"
  /\ committed = Initial
  /\ audio = [gen |-> 0, cfg |-> 0]
  /\ video = [gen |-> 0, cfg |-> 0, preview |-> 0, send |-> 0]
  /\ announced = 0
  /\ main = "serving" /\ saved = Stopped
  /\ stalled = {}

Up == main # "exited"

-----------------------------------------------------------------------------
(***************************************************************************)
(* The web handler: the shared settings, then the watch channel; requests  *)
(* that overlap are ConfigStore's subject.  A watch channel whose receiver *)
(* is gone keeps its value, and the error is ignored.                      *)
(***************************************************************************)
Publish(changed) ==
  /\ Up /\ saves < MaxPublish
  /\ saves' = saves + 1
  /\ requested' = [a \in Aspects |->
                     IF a \in changed THEN saves + 1 ELSE requested[a]]
  /\ IF task = "dead"
     THEN UNCHANGED <<watched, watchVer>>
     ELSE watched' = requested' /\ watchVer' = watchVer + 1
  /\ UNCHANGED <<settingsTask, lock, pipelines, shutdown, stalled>>

StallDevice ==
  /\ \E p \in Stalling \ stalled : stalled' = stalled \cup {p}
  /\ UNCHANGED <<web, settingsTask, lock, pipelines, shutdown>>

-----------------------------------------------------------------------------
(***************************************************************************)
(* The settings task.  changed() marks the version as seen; borrow() reads *)
(* the value that is there then, which may already be a newer one.         *)
(***************************************************************************)
Differs(aspects) == \E a \in aspects : committed[a] # new[a]
SendChanged == Differs({"send"})
AudioChanged == Differs({"audio"})
VideoChanged == Differs({"video", "name"})
PreviewChanged == Differs({"preview"})
NameChanged == Differs({"name"})

TaskStep(from, to) == Up /\ task = from /\ task' = to

Changed ==
  /\ rxVer # watchVer
  /\ TaskStep("wait", "borrow")
  /\ rxVer' = watchVer
  /\ UNCHANGED <<web, new, announced, lock, pipelines, shutdown, stalled>>

Borrow ==
  /\ TaskStep("borrow", "lock")
  /\ new' = watched
  /\ UNCHANGED <<web, rxVer, announced, lock, pipelines, shutdown, stalled>>

TaskLock ==
  /\ lock = "free"
  /\ TaskStep("lock", IF SendChanged THEN "stopAudio" ELSE "audio")
  /\ lock' = "task"
  /\ UNCHANGED <<web, rxVer, new, announced, pipelines, shutdown, stalled>>

\* A changed send queue: both pipelines are stopped, then all made anew.
TaskStopAudio ==
  /\ "audio" \notin stalled
  /\ TaskStep("stopAudio", "stopVideo")
  /\ audio' = [audio EXCEPT !.cfg = Stopped]
  /\ UNCHANGED <<web, rxVer, new, announced, lock, committed, video,
                 shutdown, stalled>>

TaskStopVideo ==
  /\ "video" \notin stalled
  /\ TaskStep("stopVideo", "recreate")
  /\ video' = [video EXCEPT !.cfg = Stopped]
  /\ UNCHANGED <<web, rxVer, new, announced, lock, committed, audio,
                 shutdown, stalled>>

\* Mutant: the audio pipeline is restarted once more after all was made anew.
RecreateThenRestart ==
  /\ TaskStep("recreate", "audio")
  /\ audio' = [gen |-> audio.gen + 1, cfg |-> new["audio"]]
  /\ video' = [gen |-> video.gen + 1, cfg |-> new["video"],
               preview |-> new["preview"], send |-> new["send"]]
  /\ UNCHANGED <<web, rxVer, new, announced, lock, committed, shutdown,
                 stalled>>

\* Mutant: the new video pipeline is given the preview settings of the old one.
RecreateWithOldPreview ==
  /\ TaskStep("recreate", "commit")
  /\ audio' = [gen |-> audio.gen + 1, cfg |-> new["audio"]]
  /\ video' = [video EXCEPT !.gen = @ + 1, !.cfg = new["video"],
                            !.send = new["send"]]
  /\ UNCHANGED <<web, rxVer, new, announced, lock, committed, shutdown,
                 stalled>>

Recreate ==
  /\ TaskStep("recreate", "commit")
  /\ audio' = [gen |-> audio.gen + 1, cfg |-> new["audio"]]
  /\ video' = [gen |-> video.gen + 1, cfg |-> new["video"],
               preview |-> new["preview"], send |-> new["send"]]
  /\ UNCHANGED <<web, rxVer, new, announced, lock, committed, shutdown,
                 stalled>>

\* Mutant: the audio pipeline is made anew from the settings of the start.
RestartAudioWithInitial ==
  /\ AudioChanged => "audio" \notin stalled
  /\ TaskStep("audio", "video")
  /\ audio' = IF AudioChanged
              THEN [gen |-> audio.gen + 1, cfg |-> Initial["audio"]]
              ELSE audio
  /\ UNCHANGED <<web, rxVer, new, announced, lock, committed, video,
                 shutdown, stalled>>

\* Mutant: a changed audio setting restarts nothing.
RestartAudioNot ==
  /\ TaskStep("audio", "video")
  /\ UNCHANGED <<web, rxVer, new, announced, lock, pipelines, shutdown, stalled>>

\* Otherwise the audio pipeline alone is stopped, made anew and started ...
RestartAudio ==
  /\ AudioChanged => "audio" \notin stalled
  /\ TaskStep("audio", "video")
  /\ audio' = IF AudioChanged
              THEN [gen |-> audio.gen + 1, cfg |-> new["audio"]]
              ELSE audio
  /\ UNCHANGED <<web, rxVer, new, announced, lock, committed, video,
                 shutdown, stalled>>

\* Mutant: the guard outlives the task.
TaskPanicsLocked ==
  /\ VideoChanged \/ PreviewChanged
  /\ TaskStep("video", "dead")
  /\ UNCHANGED <<web, rxVer, new, announced, lock, pipelines, shutdown, stalled>>

\* ... and update_video or update_preview panics in blocking_write, for the
\* task runs on a runtime thread.  The unwinding drops the guard; the
\* receiver of the watch channel goes with the task.
TaskPanics ==
  /\ VideoChanged \/ PreviewChanged
  /\ TaskStep("video", "dead")
  /\ lock' = "free"
  /\ UNCHANGED <<web, rxVer, new, announced, pipelines, shutdown, stalled>>

NothingToUpdate ==
  /\ ~VideoChanged /\ ~PreviewChanged
  /\ TaskStep("video", "commit")
  /\ UNCHANGED <<web, rxVer, new, announced, lock, pipelines, shutdown,
                 stalled>>

\* Mutant: the name is compared after guard.settings has become the new one.
CommitBeforeCompare ==
  /\ TaskStep("commit", "wait")
  /\ committed' = new
  /\ lock' = "free"
  /\ UNCHANGED <<web, rxVer, new, announced, audio, video, shutdown, stalled>>

Commit ==
  /\ TaskStep("commit", IF NameChanged THEN "announce" ELSE "wait")
  /\ committed' = new
  /\ lock' = "free"
  /\ UNCHANGED <<web, rxVer, new, announced, audio, video, shutdown,
                 stalled>>

\* set_sender_info_xml and a new MdnsPublisher, after the guard is dropped.
Announce ==
  /\ TaskStep("announce", "wait")
  /\ announced' = new["name"]
  /\ UNCHANGED <<web, rxVer, new, lock, pipelines, shutdown, stalled>>

Task ==
  \/ Changed \/ Borrow \/ TaskLock \/ TaskStopAudio \/ TaskStopVideo
  \/ Recreate \/ RestartAudio \/ TaskPanics \/ NothingToUpdate \/ Commit
  \/ Announce

-----------------------------------------------------------------------------
(***************************************************************************)
(* main after its select (Ctrl-C, or the OMT server has ended): stop both  *)
(* pipelines under the mutex, then save the shared settings and end the    *)
(* process.                                                                *)
(***************************************************************************)
MainStep(from, to) == main = from /\ main' = to

CtrlC ==
  /\ MainStep("serving", "lock")
  /\ UNCHANGED <<web, settingsTask, lock, pipelines, saved, stalled>>

MainLock ==
  /\ lock = "free"
  /\ MainStep("lock", "stopAudio")
  /\ lock' = "main"
  /\ UNCHANGED <<web, settingsTask, pipelines, saved, stalled>>

MainStopAudio ==
  /\ "audio" \notin stalled
  /\ MainStep("stopAudio", "stopVideo")
  /\ audio' = [audio EXCEPT !.cfg = Stopped]
  /\ UNCHANGED <<web, settingsTask, lock, committed, video, saved, stalled>>

MainStopVideo ==
  /\ "video" \notin stalled
  /\ MainStep("stopVideo", "save")
  /\ video' = [video EXCEPT !.cfg = Stopped]
  /\ lock' = "free"
  /\ UNCHANGED <<web, settingsTask, committed, audio, saved, stalled>>

SaveOnExit ==
  /\ MainStep("save", "exited")
  /\ saved' = saves
  /\ UNCHANGED <<web, settingsTask, lock, pipelines, stalled>>

Main == MainLock \/ MainStopAudio \/ MainStopVideo \/ SaveOnExit

\* The process has ended, or somebody waits for a stalled thread.
Rest == (~Up \/ stalled # {}) /\ UNCHANGED vars

Next ==
  \/ \E changed \in SUBSET Aspects : Publish(changed)
  \/ StallDevice \/ Task \/ CtrlC \/ Main
  \/ Rest

Spec == Init /\ [][Next]_vars

\* The runtime polls its tasks and main; nothing makes a user press Ctrl-C
\* or save, and nothing makes a thread stall.
FairSpec == Spec /\ WF_vars(Task) /\ WF_vars(Main)

-----------------------------------------------------------------------------
TypeOK ==
  /\ requested \in Settings /\ saves \in 0..MaxPublish
  /\ watched \in Settings /\ watchVer \in 0..MaxPublish
  /\ rxVer \in 0..MaxPublish /\ new \in Settings /\ committed \in Settings
  /\ task \in TaskPC
  /\ lock \in {"free", "task", "main"}
  /\ audio \in [gen : 0..MaxPublish, cfg : {Stopped} \cup 0..MaxPublish]
  /\ video \in [gen : 0..MaxPublish, cfg : {Stopped} \cup 0..MaxPublish,
               preview : 0..MaxPublish, send : 0..MaxPublish]
  /\ announced \in 0..MaxPublish
  /\ main \in {"serving", "lock", "stopAudio", "stopVideo", "save", "exited"}
  /\ saved \in {Stopped} \cup 0..MaxPublish
  /\ stalled \subseteq Stalling

(***************************************************************************)
(* While the task is alive and main does not stop the pipelines, what the  *)
(* unlocked mutex guards is consistent: guard.settings, which the next     *)
(* save is compared with, is what the pipelines really run with            *)
(* (main.rs:138-183).                                                      *)
(***************************************************************************)
CommittedIsRunning ==
  lock = "free" /\ task # "dead" /\ main \in {"serving", "lock"} =>
    /\ audio.cfg = committed["audio"]
    /\ video.cfg = committed["video"]
    /\ video.preview = committed["preview"]
    /\ video.send = committed["send"]

(***************************************************************************)
(* Saves that come faster than the task handles them are merged, never     *)
(* missed: a task that waits with nothing new to see has applied and       *)
(* announced the newest settings sent to it (changed() before borrow(),    *)
(* main.rs:134-137, 182-191).                                              *)
(***************************************************************************)
NoSaveMissed ==
  task = "wait" /\ rxVer = watchVer =>
    committed = watched /\ announced = watched["name"]

(***************************************************************************)
(* While the task lives, the audio settings are live settings: the running *)
(* audio pipeline follows the newest save.                                 *)
(***************************************************************************)
AudioLive == INSTANCE LiveSettings
               WITH MaxVersion <- MaxPublish, latest <- requested["audio"],
                    effect <- audio.cfg,
                    open <- (main = "serving" /\ task # "dead")

\* The audio pipeline never goes back to older settings, in whatever order
\* saves, restarts, the panic of the task and the shutdown come.
AudioImplementsLiveSettings == AudioLive!LSSpec

\* Every saved audio setting comes to run while the task lives, unless a
\* thread stalls: the task may wait for either with the mutex.
AudioTimely == [](stalled = {}) => AudioLive!Timely

(***************************************************************************)
(* Pressing Ctrl-C ends the process after the settings have been saved     *)
(* ("Save settings on exit", main.rs:217), whatever the settings task is   *)
(* doing with the mutex, unless the thread of a pipeline waits for ever.   *)
(***************************************************************************)
ShutdownSaves ==
  main = "lock" ~> (main = "exited" /\ saved # Stopped) \/ stalled # {}

(***************************************************************************)
(* Video, audio and preview settings can be changed in real time           *)
(* (README.md:74): a saved preview setting comes to be used by the running *)
(* video pipeline, unless the program is being shut down.                  *)
(***************************************************************************)
PreviewInRealTime ==
  \A v \in 1..MaxPublish :
    (requested["preview"] = v /\ main = "serving")
      ~> (video.preview >= v \/ main # "serving")

(***************************************************************************)
(* "Shared audio peak levels (updated every frame, read by web API)"       *)
(* (audio_pipeline.rs:10), "Shared raw frame for web preview snapshot      *)
(* generation" (video_pipeline.rs:11): what the web server reads is what   *)
(* the running pipelines write.                                            *)
(***************************************************************************)
WebReadsLivePipelines ==
  /\ audio.cfg # Stopped => WebHandles.levels = audio.gen
  /\ video.cfg # Stopped => WebHandles.frame = video.gen

=============================================================================
