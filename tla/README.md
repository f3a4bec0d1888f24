# TLA+ verification of omt-encoder

omt-encoder captures HDMI video and audio on a small Linux board, encodes them and
offers them on the network as an OMT source. A web page changes the settings while
it runs. This directory holds TLA+ models of the program's own logic, TLC
configurations that check them on small instances, and proofs that TLAPS checks
for every value of the constants. All line numbers are those of
`src/omtencoder/src/`.

## 1. The system

| component | state | operations | talks to |
|---|---|---|---|
| **VideoPipeline** (`video_pipeline.rs:32-145`, `run_video_loop` `:1260-2011`) | three atomic flags (`running`, `restart_requested`, `preview_restart_requested`), settings and preview settings behind `tokio::RwLock`s, the worker's copy of both | `new`, `start`, `update_video`, `update_preview`, `stop`; the worker's capture loop | main (calls), preview sinks, encoders, OMTServer, web preview (shared frame) |
| **Preview sinks** (`:1968-2020`, `:2616-3066`) | per output a channel for one frame, a worker thread, an ffmpeg or gst-launch child, a reader thread | build, offer a frame, stop (close the channel, join) | capture loop, children over pipes, framebuffers |
| **Settings task and shutdown** (`main.rs:44-224`, `:285-331`) | `RuntimePipelines` behind a mutex: settings, both pipelines; the handles given to the web server | compare new settings with old, recreate / restart / update the pipelines; Ctrl-C: stop both, save | watch channel, both pipelines, mDNS |
| **Settings store** (`web_server.rs:89-245`, `settings.rs`, `main.rs:226-261`) | shared settings (lock), `config.json`, the watch channel | `POST /api/config` (read, merge, store, save, send), load with the XML fallback, autodetection, save on exit | settings task |
| **AudioPipeline** (`audio_pipeline.rs:61-614`) | `running`, two optional ALSA inputs, their read buffers, failure counter, time of the last attempt | `new`, `start`, `stop`; open, read, mix, retry, silence | ALSA, OMTServer, monitor output, levels for the web |
| **AudioTimestampClock** (`audio_pipeline.rs:21-59`, `timebase.rs`) | the last time stamp | `next` | audio loop |
| **SendCoordinator** (`send_coordinator.rs`) | a queue and a thread, now without a producer; the broadcast channels per quality and codec | `send_video_quality`, `send_video_codec` | OMTServer |
| **Capture sources, DRM mirror, HDMI hot-plug** (`video_pipeline.rs:570-924`, `:1032-1058`, `:1280-1429`, `:1641-1669`) | a ring of buffers shared with the driver and the display, the mirror and its failure counter, the flag that suppresses HDMI sinks, the outputs seen last | open, `next_frame`, look for connected outputs | capture loop, preview sinks |
| **Encoders** (`:1061-1227`, `:1738-1945`) | a transform child, VMX instances per quality, H.264/H.265 ffmpeg children started on demand | write a picture, `read_frame` | capture loop, OMTServer |
| **Audio monitor output** (`audio_pipeline.rs:270-289`, `:627-689`) | a channel, a pending queue, a playback device | receive, open, write, reopen | audio loop |
| **Autodetection, mDNS, web queries, preview snapshots** | - | read-only queries, child processes | - |

**What is hard here.** The controller and the worker of a pipeline share flags and
locks without holding both; the worker resets flags that others set. Saves are
merged by a watch channel while a pipeline takes seconds to restart. A pipeline
may be replaced while its handles are in use. Requests to the web server overlap.
Files may be half written at a crash. Devices and children disappear and come
back, and threads wait for them through pipes and joins.

**What makes it correct**, component by component:

* VideoPipeline: no update of the settings is lost or overtaken by an older one,
  each one takes effect, `stop` returns unless the worker waits for a device or a
  child that never answers.
* Preview sinks: one writer per screen, nothing left after a stop, no older frame
  after a newer one, no cycle of waiting threads.
* Settings task: what it takes for the running settings is what runs; the last
  save is applied; Ctrl-C ends in a save.
* Settings store: memory, file and pipelines agree after a success; what was
  acknowledged survives a restart; a field a request leaves empty keeps its value.
  None of the three holds without exceptions, which their properties state and
  section 4 lists.
* AudioPipeline: the thread stays alive, keeps sending, comes back to its inputs,
  and never indexes beyond a buffer.
* Clock: audio stamps stay with the clock that stamps the video.
* Capture sources: the monitor has one writer, the buffer it shows is refilled
  last, a read returns, the HDMI sinks follow setting and cable.
* Encoders: a frame carries the stamp of its picture, a codec with a client is
  served, `stop` ends the loop though children die.
* Monitor output: it keeps up with the audio loop and comes back to its device.

`PROJECT.json` lists every hazard with its line and the properties that cover it.

## 2. Modules

    LiveSettings            abstract: settings that follow the newest update
      ^ refined by            ^ refined by
    VideoPipeline           Runtime ............ AudioPipeline, VideoPipeline
      VideoPipelineProofs     RuntimeProofs      (as their outcomes)
      |                     ConfigStore (publishes what Runtime receives)
      |                       ConfigStoreProofs
      | its outcomes, in detail:
      +- Capture            AudioPipeline
      |    CaptureProofs      |  AudioProofs (with AudioClock)
      +- Encoders             +- AudioClock
      |    EncodersProofs     +- MonitorOutput
      +- PreviewSinks              MonitorOutputProofs
           PreviewSinksProofs

`MC<module>.tla` gives the constants of a module to TLC; the `.cfg` files are the
runs.

### LiveSettings
The promise both pipelines make about their settings: an update has a version,
what is in effect is a version that was current at some time, and never goes back
while the pipeline is open. `Timely`: every version, or a newer one, takes effect.

### VideoPipeline
Every load, store and lock of a shared variable is an action; `caller` and `pc`
say where the controller and the worker are. `settings` and `preview` are
versions. `sinks` is the preview version the sinks were built from. Capture,
transform and encoding are outcomes (`FrameRead`, `NoFrame`, `ReadFails`,
`FrameDone`, `ShortFrame`, `TransformFails`), which may never come: whether the
loop waits for a device, a child or a preview worker is left open (`Waiting`).
`update_video` and `update_preview`
use `blocking_write`, which panics on a thread of the tokio runtime, and main
calls them from one. The module lets every call do either (`UpdatePanics`, or the
write and then the flag): the panic is what main gets, the rest is the protocol
the component offers to a caller on an ordinary thread. Runtime has the panic only.

| code | actions |
|---|---|
| `new`, `start` | `Init`, `Start` |
| `update_video` | `UpdatePanics`, or `UpdateVideoWrite`, `UpdateVideoFlag` |
| `update_preview` | `UpdatePanics`, or `UpdatePreviewWrite`, `UpdatePreviewFlag` |
| `stop` | `StopRunning`, `StopRestart`, `StopPreview`, `Join` |
| thread body | `Top`, `ReadSettings`, `Cleanup` |
| `run_video_loop`, before the loop | `ClearRestart`, `ClearPreview`, `OpenOk`, `OpenFails`, `ReadPreview`, `BuildSinks` |
| the loop | `TestRunning`, `TestRestart`, `TestPreview`, `RebuildSinks`, ... `FrameDone` |

### PreviewSinks
What is behind `sinks` of VideoPipeline. The capture loop's part is `Build`,
`Offer`, `StopSinks`, `CloseChannel`, `JoinWorker`, `SinksStopped`. A worker takes
one of four paths (`kind`): it copies (`direct`), feeds gst-launch (`kms`), feeds
an ffmpeg that writes to the device (`ffmpeg`) or to a pipe that a reader thread
carries to the framebuffer (`fbdev`). Frames go through the pipes in pieces, so
that threads wait in the middle of a frame. Formats, sizes, rates and scaling
decide the path and are a choice, as is the length of a frame: only the direct
and the kms path test it. The children are external.

### Runtime
The settings task from `changed()` to the announcement, a step per call that
another task can see, the mutex, main's shutdown, and `WebHandles`, what the web
server was given at start. Settings have five aspects (audio, video, send,
preview, name), as the `*_settings_changed` functions distinguish; an aspect is
the number of the save that last changed it. Starting and stopping a pipeline are
steps; stopping one waits while its thread is `stalled`. The video thread waits in
`MplaneCapture::next_frame` without testing a flag, for a child or for a preview
worker, the audio thread in a blocking open; `Stalling` says which of the two may,
and a stalled thread stays so. The mutex
is tokio's, which is fair: who waits for it gets it in turn.

### ConfigStore
A request is `ReadOld`, `Store`, `HandlerCreate`, `HandlerWrite`, `Send`, because
the lock is held for the read and the store only. `ReadOld` merges
(`merge_empty_fields`) and then clamps (`ClampSendSettings`). Writing a file is
two steps, truncation and contents; a crash may come between them, and a save may
fail. `file` is what programs see, `disk` what the kernel has written back
(`WriteBack`): `Crash` kills the process and leaves `file`, `PowerLoss` may put
what is on the disk, or a file without contents, in its place. `task` is the
settings task as the receiver of the watch channel; when it has panicked `Send`
changes nothing and answers as ever. The value of a field is a model value; an
empty field is `Empty`. A start loads `config.json`, or else the XML file, or else
the defaults; autodetection is a choice over the fields it sets.

Three history variables serve the properties. `overlapped`: the last request came
while another was in progress. `promised`: the settings acknowledged or loaded
last, and all that were stored since, any of which a start may bring back.
`interrupted`: since then a save was cut short between its two steps, or the power
was lost before the file was on the disk.

### AudioPipeline
The two inputs (hdmi, trs), of which none, one or both are `expected`: the mode
and the device names decide, once per pipeline. Devices are plugged
and unplugged at any time, and other programs take those that can be open once
only (`Exclusive`). `channels` is what an open input delivers, `room` what its read
buffer holds. The cool-down is a flag that time sets.

| code | actions |
|---|---|
| `start`, `stop` | `Start`, `Stop`, `Join` |
| before the loop | `BeginOpened`, `BeginFails` |
| a round without inputs (`:335-381`) | `Top`, `SilentRound`, then at `retry` `SilentOpened`, `SilentFails` |
| a round with inputs (`:383-614`) | `Top`, `Read`, and `Mix`, `MixPanics`, `NoDataYet` or `FailedRound`; after the last, at `restart`, `RestartOpened`, `RestartFails` |

`try_start_inputs` is `Openings`, the sets of inputs it may open, and `OpenWaits`.
The old handles are still there when it runs, so that a device is `Busy` also when
this thread has it. With both inputs expected the opens are non-blocking and a busy
one is left out; a single one is opened blocking, and the thread waits until the
device is free or gone. `round` is a history variable: whether the last round sent
a frame, had no data, or reopened the inputs and ended without one (`:491`).

### Capture
Behind `OpenOk`, `FrameRead` and `ReadFails` of VideoPipeline. A buffer of the
ring is `queued`, `filling`, in `filled`, `held` by the loop, or lost; the driver
fills buffers in the order in which it got them, and the display scans out
`shown`, whoever has that buffer. The mirror and `suppress` are decided when the
source is opened; what `build_preview_sinks` makes of the connected outputs is
`WantsSinks`. The check for a change of the outputs, every two seconds, may or may
not be due (`HotplugSeen`, `ReadNext`).

| code | actions |
|---|---|
| `run_video_loop`, before the loop | `OpenV4l`, `OpenMplane`, `OpenFfmpeg`, `OpenFails`, `BuildSinks`, `NoteOutputs` |
| the loop, before the read | `PreviewRequested`, `NoteOutputsAgain`, `HotplugSeen`, `Rebuild`, `ReadNext`, `Leave` |
| `MplaneCapture::next_frame` | `Dequeue`, `SetPlane`, `SetPlaneFails`, `Requeue`, `RequeueFails`, `DequeueFails`, `BadIndex` |
| the other sources | `OtherFrame`, `OtherFails` |
| the end of the loop, `drop` | `StopSinks`, `DropSource` |
| the driver, the user | `FillStarts`, `FillEnds`, `SetAuto`, `StopCalled`, `Plug` |

### Encoders
Behind `FrameDone` and `TransformFails` of VideoPipeline: one iteration of the
loop from the picture to its transmission. A picture is its time stamp. The
transform (0) and the codecs (1 for H.264, 2 for H.265) are children with two
pipes each; both codec blocks of the code are one set of actions. A child answers
every picture, or wants a second one before it answers the first (`delays`): which
of the two is decided when it is spawned. It may die at any time, with or without
a frame in its pipe. `Levels` is the VMX part, which has no state of its own.

| code | actions |
|---|---|
| up to the picture | `Open`, `Leave`, `Capture`, `SkipPicture` |
| transform | `ToTransform`, `FromTransform`, `TransformFails` |
| VMX levels | `Levels` |
| a codec | `DropEncoder`, `StartEncoder`, `StartFails`, `HasEncoder`, `WriteEncoder`, `WriteFails`, `ReadEncoder`, `ReadFails` |
| after the loop | `Close` |

### MonitorOutput
The audio loop puts frames into a channel of a few places and drops what does not
fit (`FrameMixed`); the monitor thread is `Monitor`. A pipeline that is stopped
joins its audio thread only, so that threads of several pipelines exist at once
and compete for the device, which can be open once only: `open_pcm_playback` is
blocking, so that a thread that finds it `Busy`, with another thread or `taken` by
another program, waits in the open. A handle dies when the device is unplugged.
Frames are counted.

### AudioClock
Only the difference between the audio stamp and the presentation clock is kept.
Rounds of three kinds move it: a captured frame, a frame of silence of a failed
round, a gap without frames.

## 3. Runs

| run | shows | result |
|---|---|---|
| `video` | no preview update is lost, none is overtaken; each takes effect and `stop` returns, unless the worker waits for ever for a device, a child or a preview worker | holds |
| `preview` | one writer per screen, nothing left, frames whole (if those of the device are), order kept, nobody waits for ever | holds |
| `runtime` | the settings compared with are those that run, no save is missed, audio never goes back, though either pipeline's thread may stall; a saved audio setting comes to run and Ctrl-C ends in a save unless one does | holds |
| `runtime_realtime` | a saved preview setting takes effect | violated |
| `runtime_web` | the web server reads what the running pipelines write | violated |
| `config` | unless requests overlap, memory and file agree after a success, and the pipelines were sent the same unless the settings task is gone; empty fields keep their value or its clamped one; a start finds the acknowledged settings, or newer ones, after failing saves, kills and power losses that did not cut a save short or come before it was on the disk | holds |
| `audio` | a thread that started with an input never overruns a buffer; inputs that are all there and free are opened again, frames go on and `stop` returns, unless the thread waits for ever in the blocking open of a single input, or (frames) one of two inputs has no data | holds |
| `audio_exits` | the thread never exits by itself | violated |
| `clock` | stamps stay within the threshold, and come back | holds |
| `encoders` | a frame has the stamp of its picture; `stop` ends the loop and no child is left; a codec with a client gets a frame: with children that die, and for the last two unless a child holds the loop up | holds |
| `capture` | one writer for the monitor; the buffer shown is refilled only when the driver has no other; `next_frame` returns unless all buffers are lost; the HDMI sinks follow the cable unless it moves within a build | holds |
| `monitor` | a thread with an open device has no backlog; as long as frames come the newest pipeline plays, though an older thread may hold the device and the device be unplugged | holds |

A violation is a disagreement between the code and what a comment, message or
README line says; `PROJECT.json` quotes both under `findings`.

**Bounds and why they are enough.** Two updates of each kind: an update can meet
every point of the worker's cycle, and a second one the handling of the first; the
proofs cover any number. `ErrorLimit = 2` and `RestartAfter = 2`: a counter that
is below, at and reset from its limit. Two saves, five aspects: any subset changes
with each. Audio: every set of expected inputs and every number of channels of
each (1, 2), so that both inputs can differ; only the HDMI device is exclusive, so
that a single input may be either. Two requests, two fields (one that autodetection
sets, one that is clamped and whose default is out of range), two values: enough to
tell whose value a field has; one kill or power loss, at each step of each save. Two
builds of the preview sinks, two frames of two pieces, pipes of one piece: every
wait on a pipe occurs and an old frame can meet a new sink, and a child die in the
middle of a frame and be followed by another. Two workers for a single screen
suffice: two sinks of the same list, or an old and a new one. Clock: the shipped
durations (40 ms frames, 5 ms threshold, 1 ms correction) in units of 0.1 ms, two
upsets, any skew up to twice a unit; the proof covers every value.
Three capture buffers: one shown, one filling, one on its way; `MaxLost = 3`, so
that all of them can be lost; mirror and error limits of 2, reached and reset
from below. No framebuffer among the configured outputs (`Explicit = FALSE`), the
case in which the check for outputs may be skipped. Two codecs, so that one is
served beside the other and the loop goes from block to block; two time stamps,
enough to tell a picture from the one before; one death, in each of the three
children and at each of its steps. Two audio pipelines, the old thread and the
new one; one place in the channel and a reserve of 2, so that the channel is full,
and the queue reaches and passes twice the reserve.

**Deadlock** is checked in every run. Where the system rests, a step says so and
under which condition: the process has ended or waits for a stalled thread
(`Runtime!Rest`), the pipeline has been stopped, the capture loop has left.
In Encoders, Capture and MonitorOutput clients, cables and devices can always
change, so that deadlock means nothing there: `LoopEnds`, `FramesCome` and
`PlaysAgain` say who waits for ever and when nobody does.

**Fairness.** Threads are scheduled and runtime tasks polled (`WF` of each
thread's next step), and no more than that where a step may wait for something
outside the process:

* VideoPipeline: the worker's steps within the process (`Compute`) are fair. What
  waits for a device, the pipe of a child or the join of a preview worker
  (`Waiting`: `CaptureReturns`, `FrameDone`, `ShortFrame`, `TransformFails`,
  `RebuildSinks`, `Cleanup`) is not; that the worker stays there (`WaitsForEver`)
  is the exception in `PreviewTimely` and `StopReturns`. Opening a capture device
  returns, and one that is tried again and again succeeds (`SF`), since a device
  that refuses for ever makes every promise void.
* Runtime: nothing is assumed of a stalled thread; `AudioTimely` and
  `ShutdownSaves` say "unless one stalls".
* AudioPipeline: the rounds go on, because ALSA ends a read that gets no data with
  an error. An open that need not wait returns (`SF(OpenReturns)`), and one that is
  possible again and again succeeds (`SF(OpenSucceeds)`); one that must wait may do
  so for ever (`WaitsForEver`).
* PreviewSinks: a child that runs reads its input and writes its output (`Child`).
  A child that hangs without dying blocks the worker in `write_all`, and with it
  the join of the capture loop; the code has no timeout. `SinksStop` holds under
  this assumption only; VideoPipeline makes none.
* Encoders: an encoder that can be started again and again is
  (`SF(StartEncoder)`), pictures keep coming (`SF(Capture)`), and a child that has
  what it wants answers.
* Capture: the driver fills the buffers it has, and the look at the outputs comes
  round every two seconds (`SF(HotplugSeen)`); nothing is assumed about the ioctls
  that fail.
* MonitorOutput: time passes, opens and writes that are possible again and again
  succeed (`SF`). That frames come is the premise of `PlaysAgain`
  (`FramesCome(t)`) and not a fairness: failed rounds and rounds without data give
  the monitor none.

Nothing makes a user save, press Ctrl-C or plug a device.

## 4. Observations without a run of their own

The runs are few on purpose. These follow from the same modules, by reading or as
the exceptions in a property above, and matter to who changes the code:

* `update_video` stores the settings (`video_pipeline.rs:118`) and then sets
  `restart_requested` (`:119`); the worker copies the settings (`:93`) and resets
  the flag only at `:1277`. An update in between is stored, its flag is reset,
  and the capture goes on with the old settings until the next change.
  `update_preview` has no such gap, because the worker reads the preview settings
  after the reset (`:1278`, `:1525`). Main never gets that far: the call panics.
* A request merges its empty fields with settings read at `web_server.rs:93-96`
  and stores the result under another acquisition of the lock (`:121`). With two
  requests at a time an empty field of one puts back what the other has just
  changed: the exception in `EmptyFieldsKept`. The lock is not held while the file
  is written and the settings are sent (`:123-129`), so that overlapping requests
  can also leave one's settings in memory, the other's in the file or with the
  pipelines, and a file made of both, though each was answered "Saved. Changes
  applied." (`:254`): the exception in `SavedAgree`.
* The result of `watch::Sender::send` is ignored (`web_server.rs:129`). Its only
  receiver is the settings task, which panics at the first change of the video or
  preview settings (run `runtime_realtime`); from then on a save changes memory and
  file, nothing reaches the pipelines, and the answer is still "Saved. Changes
  applied.": the second exception in `SavedAgree`.
* `clamp_send_settings` (`web_server.rs:118`, `:151-155`) limits
  `audio_queue_capacity` to 16, while its default is 32 (`settings.rs:109`) and
  `SendCoordinator::new` would take 64. The first save of anything changes it,
  although "unrelated pipelines" are to be left alone (`:110-113`) and empty values
  to be kept (`:225`), and the settings task then restarts both pipelines: the
  exception in `EmptyFieldsKept`.
* `fs::write` (`settings.rs:211`) truncates `config.json` and writes it in place,
  without a sync, in a request as in the save on exit. A crash in between, a full
  disk, or a power loss soon after an answer leaves a file that cannot be read, and
  the next start replaces the settings by those of the XML file or the defaults: the
  exception (`interrupted`) in `AckedSurvives`.
* When the reads of a single input fail, the restart opens the device at
  `audio_pipeline.rs:472` while `pcm_hdmi` or `pcm_trs` still has it, and blocking
  (`:974`, `:992`). If the device cannot be shared and is still there, the thread
  waits for itself: no retry, no silence, and `stop` never returns, against the
  comment at `:217-219`. Another program that keeps the device has the same effect.
  This is the exception in `SomeInputRetried`, `SilenceKept` and the audio
  `StopReturns`, and the stalled audio thread of Runtime.
* A restart that succeeds ends its round without a frame (`:491`). With
  `restart_after_failed_reads = 1` (the default is 5), a cool-down shorter than a
  read, and reads that always fail, nothing is ever sent: `SilenceKept` excludes
  that value. With 0 the inputs of handles that stay alive are never reopened.
* An input that failed to open, or that was lost, is tried again only when no
  input is open (`audio_pipeline.rs:335`) or all open ones fail (`:459`): never
  while the other one works. The comment at `:219` speaks of periodic retries.
* Every frame that is read resets `consecutive_capture_errors`
  (`video_pipeline.rs:1687`) before a short one is counted (`:1731`): the counter
  never passes 1 there, and "Too many short video frames; restarting capture."
  (`:1733`) is never reached.
* With both inputs wanted, one that is open but has no data makes the loop go on
  without sending anything (`audio_pipeline.rs:443`), for as long as it lasts:
  the exception in `SilenceKept`.
* `stop` joins the video thread, which waits in `MplaneCapture::next_frame` as
  long as the device has no frame (`video_pipeline.rs:786-788`), in `write_all`,
  `read_exact` and `read_frame` for ffmpeg (`:1740-1744`, `:1878-1879`,
  `:1923-1924`), and for preview workers that write to a child (`:1999-2010`,
  `:2016`). None tests a flag: the exception in the video `StopReturns` and
  `PreviewTimely`. The settings task joins with the mutex, and main then saves
  nothing: the exception in `ShutdownSaves`.
* A round in which all reads fail sends a frame of silence and sleeps 10 ms
  (`audio_pipeline.rs:494-511`) while the stamps advance by a whole frame (40 ms)
  less the correction: about 30 ms ahead per round. `Resync` says that they come
  back. With two inputs a read takes what there is (`:1269-1285`) and the round
  still sends a whole frame, so that frames need not be as far apart as they last;
  `InSync` and `Resync` are about inputs that deliver whole frames.
* An encoder that died stays `Some` (`video_pipeline.rs:1860`, `:1877`): its
  writes fail, its codec gets no frame, and no new one is started before a picture
  comes while no client wants the codec (`:1899`): the exception in
  `RequestServed`.
* A child that wants a second picture before it answers the first is never given
  one, since the loop waits for the answer (`:1744`, `:1879`) and tests no flag
  there: the exception (`HeldUp`) in `LoopEnds` and `RequestServed`. `-bf 0` and
  `-g 1` make it unlikely; nothing excludes it.
* `suppress_auto_hdmi_preview` is set before the mirror is tried (`:1383`) and
  never reset. When the mirror does not open, when it ends after 120 failures, or
  when ffmpeg is the source, there is neither a mirror nor an HDMI sink until the
  capture is started again, and with ffmpeg not then either. For the same reason
  `auto_hdmi_monitor` turned off at run time leaves the mirror on.
* A framebuffer among the configured outputs gets its sink beside the mirror;
  `HdmiOnce` speaks of the outputs of `auto_hdmi_monitor`.
* A buffer whose `VIDIOC_QBUF` failed (`:771`), or that came with an index out of
  range (`:737-738`), is never queued again. When all are
  gone `next_frame` retries every millisecond for ever (`:786`): the exception in
  `FramesCome`.
* The connected outputs are read by `build_preview_sinks` (`:2623`) and again for
  `last_detected_hdmi_outputs` (`:1562`, `:1640`, and before the build at
  `:1651`). A cable that moves between the two is taken for known, and the sinks
  stay wrong until the next change: the exception in `HotplugFollowed`.
* After one short frame everything an ffmpeg preview gets is cut in the wrong
  place, until it is started again: the condition of `FramesWhole`. A frame that is
  longer than what ffmpeg cuts, from a padded buffer (`:762-766`, `:1039`), does the
  same, since the worker writes it whole (`:3021`, `:3042`).
* The monitor opens its device blocking and without testing `running`. While
  another program, or the thread of the pipeline before, has it, the thread neither
  ends nor empties its channel, and further frames are dropped.

## 5. Proofs

| theorem | for every | inductive invariant |
|---|---|---|
| `VideoPipelineProofs!TypeCorrect` | number of updates, limit of errors | `FlagsTyped`, `StateInv`: the counter is below its limit wherever the loop goes on |
| `VideoPipelineProofs!PreviewNeverLost` | 〃 | `PreviewInv`: besides the property, `ReadIsFresh`: what the worker has read but not built is the newest, or the flag is set or about to be |
| `VideoPipelineProofs!PreviewRefinement` | 〃 | `RefineInv`: what was built is no newer than what was read, and that no newer than what is stored |
| `RuntimeProofs!CommittedSettingsRun` | number of saves, stalled threads | `LockInv` (who holds the mutex), `RunningInv`: what runs at each step of the task, and that audio and video restarts are reached only with unchanged send settings |
| `RuntimeProofs!NewestSaveApplied` | 〃 | `SeenInv`: a task that has seen the newest version has its value; `NameInv` |
| `AudioProofs!TypeCorrect` | inputs, channels | `FlagsTyped`, `StateTyped` |
| `AudioProofs!NoPanicWithInput` | 〃 | `RoomInv`: once opened at the start, the silent branch, the only one that leaves the buffers as they are, is never reached |
| `AudioProofs!StaysInSync` | duration, threshold, correction, skew | the band itself, by `FrameKeepsBand` |
| `RuntimeProofs!AudioRefinement` | 〃 | `InOrder`: the versions the task holds are no older than what the audio pipeline runs, and no newer than what was saved |
| `RuntimeProofs!TypeCorrect` | number of saves, stalled threads | `GensSeen`: a pipeline is made once per round of the task, so that its generation is at most the version seen |
| `ConfigStoreProofs!TypeCorrect` | fields, values, clamps, requests, crashes | `Typed`: settings merged with a payload and clamped are settings |
| `ConfigStoreProofs!SavedCopiesAgree` | 〃 | `Alone`: one request is in progress until the next overlaps it; `Progress`: what it has made of memory and file so far; `Agreeing` |
| `ConfigStoreProofs!EmptyKept` | 〃 | `Progress`: a request about to store has the clamped merge of its payload with what is stored |
| `ConfigStoreProofs!AcknowledgedSurvives` | 〃 | `Promising`: unless interrupted, the file holds promised settings or is between the two steps of a save, and whatever memory and handlers may still write is promised |
| `EncodersProofs!FramesStampedRight` | number of codecs, stamps, deaths | `Lockstep`: only the child the loop waits for has a picture or a frame in its pipes, and it is the loop's own; `DeadReadsNothing` |
| `EncodersProofs!TypeCorrect` | 〃 | 〃, which bounds the pipes |
| `CaptureProofs!OneWriterPerMonitor` | number of buffers, limits | `OneOfThem`: a mirror implies the flag, the flag no sink, and no sink is left where the flag may be set |
| `CaptureProofs!ShownKept` | 〃 | `ShownLast`: unless a failure has been counted, the buffer shown is with the loop or the last in the driver's queue; `Apart`: no buffer is in two places of the ring |
| `CaptureProofs!TypeCorrect` | 〃 | `RingInv`, and the counters below their limits |
| `MonitorOutputProofs!MonitorKeepsUp` | pipelines, places, reserve | with `Unborn`: a thread that is not alive has no device; writing empties the queue before the thread waits again |
| `MonitorOutputProofs!TypeCorrect` | 〃 | `Trimmed`: only the round that has just received a frame finds more than twice the reserve |
| `PreviewSinksProofs!OneWriterPerOutput` | devices, workers, output lists, lengths of frames and pipes | `ControlInv`: whatever lives belongs to a sink of the list or is where the loop waits for it, and the sinks of a list have different devices |
| `PreviewSinksProofs!NothingLeftBehind` | 〃 | 〃 |
| `PreviewSinksProofs!TypeCorrect` | 〃 | `QueueInv`: every channel and pipe holds pieces of frames within its limit, and a half written frame is at the worker that writes it |
| `PreviewSinksProofs!FramesStayWhole` | 〃 | `WholeInv`: what has come out of a pipe and what is still in it add up to whole frames; what went in does only while the worker goes on with the same child, since a failed write stops in the middle of one |
| `PreviewSinksProofs!ScreensAdvance` | 〃 | `OrderInv`: along channel, worker, pipes and reader the frames never decrease, and lie between what the screen shows and the last one offered; with `ControlInv`, as an older sink might write otherwise |
| `PreviewSinksProofs!NoCircularWait` | 〃 | `Attached`: a worker that writes or joins has had a child, and only the child of the fbdev path has output, which a reader takes; so whoever waits on a full or an empty pipe waits for one that can go on |
| `EncodersProofs!NeverWaitsInVain` | number of codecs, stamps, deaths | `Attended`: the child the loop is at is there, and while it lives and the loop waits, the picture is in its pipes; with `Lockstep` |
| `EncodersProofs!ChildrenReaped` | 〃 | `NoOrphans`, the property itself |
| `CaptureProofs!BuffersAccountedFor` | number of buffers, limits | the sum over the places of the ring, and `LoopHolds`: a buffer is with the loop only between the dequeue and the requeue |
| `CaptureProofs!ReadsGetFrames` | 〃 | 〃 |
| `RuntimeProofs!MutexNeverOrphaned` | number of saves, stalled threads | `LockInv` |

They assume what the modules assume of their constants (a limit of at least one,
a frame longer than a correction, a skew no larger than the correction, at least
one output device, frames and pipes of at least one piece). The proofs of
PreviewSinks first show that a step of a worker, child or reader is one of a few
effects on its streams (`StepEffect`: moved, dropped, played ...), and each
invariant then needs a case for an effect only.

Every invariant and every action property of a run is proved. Only model-checked
is liveness (`PreviewTimely`, `StopReturns`, `AudioTimely`, `ShutdownSaves`,
`SomeInputRetried`, `SilenceKept`, `SinksStop`, `Resync`, `LoopEnds`,
`RequestServed`, `FramesCome`, `HotplugFollowed`, `PlaysAgain`), which is out of
the prover's reach, as are `ENABLED` and induction theorems with an operator as
parameter. Where a list of any length is gone through (`Resolved` of
PreviewSinks) the proofs use the least number of a set instead (`LeastNumber`).
The last six theorems are the safety halves of liveness properties: they say by
its guards that somebody can go on (`NoCircularWait` for `SinksStop`,
`NeverWaitsInVain` for `LoopEnds`, `ReadsGetFrames` for `FramesCome`,
`MutexNeverOrphaned` for `ShutdownSaves`) or what must hold at the end
(`ChildrenReaped`); that who can go on does is the fairness TLC checks with.
`BuffersAccountedFor` counts the buffers for `ReadsGetFrames`. None of the six is
a property of a run.
That a property is violated is shown by TLC's counterexample.

## 6. Not modelled

* Samples, pixels, formats, wording, logging, statistics. Sizes only where an
  index depends on them (`room`) or a frame may be short.
* The audio mode `none`: no thread is started.
* OMTServer, libomtnet and libvmx: git submodules without contents here. Sending
  is `Encoders!Send`, with `force_zero_timestamps` off.
* The choice of a device by autodetection and of a capture format, and which
  settings `merge_empty_fields` and the clamps name: tables of strings and sizes.
  ConfigStore merges every field in one way and clamps by a function it is given.
* The fallback of the monitor to `aplay` (`audio_pipeline.rs:1101`), which has to
  be asked for.
* Device queries, framebuffer queries and statistics of the web server, the
  browser's JavaScript, the avahi child: input and output only.
* The queue of SendCoordinator and its send thread: they have no producer any more.
* The preview loop for the web (`main.rs`): a snapshot a second, which nothing
  depends on; that its frame is that of an old pipeline is in Runtime.

## 7. Plan

Done, in the order of importance:

1. LiveSettings, VideoPipeline and its proofs: the flag protocol.
2. Runtime and its proofs: the settings task, the mutex and the shutdown.
3. ConfigStore and its proofs: the path of a setting from the browser to disk and
   pipelines, with requests that overlap.
4. AudioPipeline and its proofs: the loss and return of inputs.
5. AudioClock and its proof.
6. PreviewSinks and its proofs: threads, children and pipes.
7. Encoders and its proofs: the capture loop and children that delay or die.
8. Capture and its proofs: the ring of buffers, the mirror, the HDMI outputs.
9. MonitorOutput and its proofs: the pending queue and the playback device.

Left:

10. The safety halves of the liveness of MonitorOutput (`PlaysAgain`) and of the
    inputs of AudioPipeline (`SomeInputRetried`).
11. SettingsMerge: which settings `merge_empty_fields` and the clamps name, field by
    field, against a reference definition.
12. SendCoordinator's queue and thread, if it gets a producer again.
