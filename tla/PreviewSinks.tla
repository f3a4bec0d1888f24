---------------------------- MODULE PreviewSinks ----------------------------
(***************************************************************************)
(* The preview outputs of src/omtencoder/src/video_pipeline.rs: the        *)
(* capture loop builds a sink per output (build_preview_sinks), offers it  *)
(* frames through a channel for one frame, and takes all of them down      *)
(* again (stop_preview_sinks).  Behind a channel runs a worker thread      *)
(* (spawn_preview_worker), which copies the frames to a framebuffer        *)
(* itself, or feeds them to a child process; a third thread may carry the  *)
(* output of that child to the framebuffer.                                *)
(*                                                                         *)
(* A frame is its number and travels through the pipes in FrameChunks      *)
(* pieces; the pipes hold fewer than a frame.  Formats, sizes and scaling  *)
(* decide which path a worker takes, and that is a choice here.            *)
(***************************************************************************)
EXTENDS Integers, FiniteSets, SequencesExt

CONSTANTS
  Devices,      \* output devices
  Workers,      \* worker threads, each used again once all of it is gone
  Lists,        \* output lists build_preview_sinks may have to resolve
  FrameChunks,  \* pieces of a frame
  PipeSize,     \* pieces a pipe holds
  MaxFrames,    \* bound on the frames offered
  MaxBuilds,    \* bound on how often the sinks are built
  MaxCrashes    \* bound on the deaths of children and failed writes

ASSUME DevicesAssumption == Devices # {}
ASSUME ChunksAssumption ==
  FrameChunks \in Nat \ {0} /\ PipeSize \in Nat \ {0}
ASSUME ListsAssumption == Lists \subseteq Seq([device : Devices, usable : BOOLEAN])
ASSUME BoundsAssumption ==
  MaxFrames \in Nat /\ MaxBuilds \in Nat /\ MaxCrashes \in Nat

VARIABLES
  mode,      \* the capture loop: build, run, stop (and then build or leave)
  leave,     \* the loop stops its sinks for the last time
  sinks,     \* preview_sinks: the workers in the order they were built
  frame,     \* number of the last frame that was offered
  builds,    \* how often the sinks were built
  crashes,   \* children that died and writes that failed
  pc,        \* of each worker
  device,    \* of each worker
  kind,      \* of each worker: the path it has taken
  open,      \* its sink still holds the sending end of the channel
  chan,      \* the channel: at most one frame
  writing,   \* what is left of the frame in write_all
  child,     \* the child process: none, running, dead
  inPipe, outPipe,  \* its standard input and output
  have,      \* what the child has read of the next frame
  out,       \* what it has yet to write
  reader,    \* the thread that reads its output: none, open, read, done
  buf,       \* what that thread has read of the next frame
  shown,     \* per device: the last frame that was put on the screen
  shortSeen  \* history: the capture device delivered an incomplete frame

loop == <<mode, leave, sinks, frame, builds, shortSeen>>
pipes == <<inPipe, outPipe, have, out>>
sink == <<device, open, chan>>
vars == <<loop, crashes, pc, kind, sink, writing, child, pipes, reader, buf,
          shown>>

\* direct: the worker copies; kms: gst-launch shows; ffmpeg: ffmpeg writes to
\* the device itself; fbdev: ffmpeg writes to a pipe, a reader to the device.
Kinds == {"direct", "kms", "ffmpeg", "fbdev"}
WorkerPC == {"none", "start", "spawn", "recv", "write", "closing", "failed",
             "joinClosing", "joinFailed", "sleep", "done"}
Frame == 1..MaxFrames
Pieces(size) == UNION {[1..n -> Frame] : n \in 0..size}

Init ==
  /\ mode = "build" /\ leave = FALSE /\ sinks = <<>>
  /\ frame = 0 /\ builds = 0 /\ crashes = 0
  /\ pc = [w \in Workers |-> "none"]
  /\ device = [w \in Workers |-> CHOOSE d \in Devices : TRUE]
  /\ kind = [w \in Workers |-> "direct"]
  /\ open = [w \in Workers |-> FALSE]
  /\ chan = [w \in Workers |-> <<>>]
  /\ writing = [w \in Workers |-> <<>>]
  /\ child = [w \in Workers |-> "none"]
  /\ inPipe = [w \in Workers |-> <<>>]
  /\ outPipe = [w \in Workers |-> <<>>]
  /\ have = [w \in Workers |-> <<>>]
  /\ out = [w \in Workers |-> <<>>]
  /\ reader = [w \in Workers |-> "none"]
  /\ buf = [w \in Workers |-> <<>>]
  /\ shown = [d \in Devices |-> 0]
  /\ shortSeen = FALSE

Reading(w) == reader[w] \in {"open", "read"}
Lives(w) == pc[w] \notin {"none", "done"} \/ child[w] = "running" \/ Reading(w)

-----------------------------------------------------------------------------
(***************************************************************************)
(* The capture loop.  An entry of the list is dropped when its device has  *)
(* been seen, and then when it is an HDMI framebuffer that is disconnected *)
(* or does not take the frames as they are.                                *)
(***************************************************************************)
FirstOf(list, i) == \A j \in 1..(i - 1) : list[j].device # list[i].device

\* Mutant: devices that occur twice in the list are not dropped.
ResolvedTwice(list) ==
  LET usable == SelectSeq(list, LAMBDA entry : entry.usable)
  IN [n \in DOMAIN usable |-> usable[n].device]

Resolved(list) ==
  LET chosen == {i \in 1..Len(list) : FirstOf(list, i) /\ list[i].usable}
      order == CHOOSE f \in [1..Cardinality(chosen) -> chosen] :
                 \A m, n \in DOMAIN f : m < n => f[m] < f[n]
  IN [n \in DOMAIN order |-> list[order[n]].device]

Build(list) ==
  /\ mode = "build" /\ builds < MaxBuilds
  /\ builds' = builds + 1
  /\ mode' = "run"
  /\ LET outputs == Resolved(list)
     IN \E ws \in [1..Len(outputs) -> {w \in Workers : ~Lives(w)}] :
          /\ IsInjective(ws)
          /\ sinks' = ws
          /\ pc' = [w \in Workers |->
                      IF w \in Range(ws) THEN "start" ELSE pc[w]]
          /\ device' = [w \in Workers |->
                          IF w \in Range(ws)
                          THEN outputs[CHOOSE n \in DOMAIN ws : ws[n] = w]
                          ELSE device[w]]
          /\ open' = [w \in Workers |-> w \in Range(ws)]
          /\ chan' = [w \in Workers |-> <<>>]
  /\ UNCHANGED <<leave, frame, crashes, kind, writing, child, pipes, reader,
                 buf, shown, shortSeen>>

\* try_send succeeds when the channel is empty and the worker has not ended.
Accepts(w) == chan[w] = <<>> /\ pc[w] # "done"

\* A frame for the sinks whose interval has passed; one that cannot take it
\* goes without.
Offer ==
  /\ mode = "run" /\ sinks # <<>> /\ frame < MaxFrames
  /\ frame' = frame + 1
  /\ \E due \in SUBSET Range(sinks), size \in 1..FrameChunks :
       /\ chan' = [w \in Workers |->
                    IF w \in due /\ Accepts(w)
                    THEN <<[n \in 1..size |-> frame + 1]>> ELSE chan[w]]
       /\ shortSeen' = (shortSeen \/ size < FrameChunks)
  /\ UNCHANGED <<mode, leave, sinks, builds, crashes, pc, kind, device, open,
                 writing, child, pipes, reader, buf, shown>>

\* The preview settings or the HDMI outputs have changed, or the loop ends.
StopSinks ==
  /\ mode = "run"
  /\ mode' = "stop"
  /\ leave' \in {TRUE, builds = MaxBuilds}
  /\ UNCHANGED <<sinks, frame, builds, crashes, pc, kind, sink, writing, child,
                 pipes, reader, buf, shown, shortSeen>>

\* sink.tx.take()
CloseChannel ==
  /\ mode = "stop" /\ sinks # <<>> /\ open[Head(sinks)]
  /\ open' = [open EXCEPT ![Head(sinks)] = FALSE]
  /\ UNCHANGED <<loop, crashes, pc, kind, device, chan, writing, child, pipes,
                 reader, buf, shown>>

\* handle.join()
JoinWorker ==
  /\ mode = "stop" /\ sinks # <<>> /\ ~open[Head(sinks)]
  /\ pc[Head(sinks)] = "done"
  /\ sinks' = Tail(sinks)
  /\ UNCHANGED <<mode, leave, frame, builds, crashes, pc, kind, sink, writing,
                 child, pipes, reader, buf, shown, shortSeen>>

SinksStopped ==
  /\ mode = "stop" /\ sinks = <<>>
  /\ mode' = IF leave THEN "left" ELSE "build"
  /\ UNCHANGED <<leave, sinks, frame, builds, crashes, pc, kind, sink, writing,
                 child, pipes, reader, buf, shown, shortSeen>>

-----------------------------------------------------------------------------
(***************************************************************************)
(* The worker thread, from the path it takes to the frames it copies.      *)
(***************************************************************************)
Move(w, to) == pc' = [pc EXCEPT ![w] = to]

\* No frame size for the format, or the framebuffer cannot be opened.
GivesUp(w) ==
  /\ pc[w] = "start"
  /\ Move(w, "done")
  /\ UNCHANGED <<loop, crashes, kind, sink, writing, child, pipes, reader, buf,
                 shown>>

TakesDirectPath(w) ==
  /\ pc[w] = "start"
  /\ kind' = [kind EXCEPT ![w] = "direct"]
  /\ Move(w, "recv")
  /\ UNCHANGED <<loop, crashes, sink, writing, child, pipes, reader, buf, shown>>

TakesFfmpegPath(w) ==
  /\ pc[w] = "start"
  /\ \E k \in {"ffmpeg", "fbdev"} : kind' = [kind EXCEPT ![w] = k]
  /\ Move(w, "spawn")
  /\ UNCHANGED <<loop, crashes, sink, writing, child, pipes, reader, buf, shown>>

\* Mutant: the reader of a new child goes on with the buffer of the last one.
NewChildOldBuffer(w) ==
  /\ child' = [child EXCEPT ![w] = "running"]
  /\ inPipe' = [inPipe EXCEPT ![w] = <<>>]
  /\ outPipe' = [outPipe EXCEPT ![w] = <<>>]
  /\ have' = [have EXCEPT ![w] = <<>>]
  /\ out' = [out EXCEPT ![w] = <<>>]
  /\ UNCHANGED buf

\* A child with pipes of its own; what was left of a frame is forgotten.
NewChild(w) ==
  /\ child' = [child EXCEPT ![w] = "running"]
  /\ inPipe' = [inPipe EXCEPT ![w] = <<>>]
  /\ outPipe' = [outPipe EXCEPT ![w] = <<>>]
  /\ have' = [have EXCEPT ![w] = <<>>]
  /\ out' = [out EXCEPT ![w] = <<>>]
  /\ buf' = [buf EXCEPT ![w] = <<>>]

\* start_kms_preview; if it fails, the worker takes the direct path.
TakesKmsPath(w) ==
  /\ pc[w] = "start"
  /\ kind' = [kind EXCEPT ![w] = "kms"]
  /\ NewChild(w)
  /\ reader' = [reader EXCEPT ![w] = "none"]
  /\ Move(w, "recv")
  /\ UNCHANGED <<loop, crashes, sink, writing, shown>>

Spawns(w) ==
  /\ pc[w] = "spawn"
  /\ NewChild(w)
  /\ reader' = [reader EXCEPT ![w] = IF kind[w] = "fbdev" THEN "open" ELSE "none"]
  /\ Move(w, "recv")
  /\ UNCHANGED <<loop, crashes, kind, sink, writing, shown>>

SpawnFails(w) ==
  /\ pc[w] = "spawn"
  /\ Move(w, "done")
  /\ UNCHANGED <<loop, crashes, kind, sink, writing, child, pipes, reader, buf,
                 shown>>

Take(w) == chan[w] # <<>> /\ chan' = [chan EXCEPT ![w] = <<>>]
Show(d, n) == shown' = [shown EXCEPT ![d] = n]
IsWhole(f) == Len(f) = FrameChunks

\* The direct path copies a whole frame, and the write that stands in for a
\* failed mmap may fail, which ends the worker.
CopiesFrame(w) ==
  /\ pc[w] = "recv" /\ kind[w] = "direct"
  /\ Take(w) /\ IsWhole(chan[w][1])
  /\ Show(device[w], Head(chan[w][1]))
  /\ UNCHANGED <<loop, crashes, pc, kind, device, open, writing, child, pipes,
                 reader, buf>>

CopyFails(w) ==
  /\ pc[w] = "recv" /\ kind[w] = "direct" /\ crashes < MaxCrashes
  /\ Take(w) /\ IsWhole(chan[w][1])
  /\ crashes' = crashes + 1
  /\ Move(w, "done")
  /\ UNCHANGED <<loop, kind, device, open, writing, child, pipes, reader, buf,
                 shown>>

\* Only the direct and the kms path look at the length of a frame.
SkipsShortFrame(w) ==
  /\ pc[w] = "recv" /\ kind[w] \in {"direct", "kms"}
  /\ Take(w) /\ ~IsWhole(chan[w][1])
  /\ UNCHANGED <<loop, crashes, pc, kind, device, open, writing, child, pipes,
                 reader, buf, shown>>

ReceivesFrame(w) ==
  /\ pc[w] = "recv" /\ kind[w] # "direct"
  /\ Take(w) /\ (kind[w] = "kms" => IsWhole(chan[w][1]))
  /\ writing' = [writing EXCEPT ![w] = chan[w][1]]
  /\ Move(w, "write")
  /\ UNCHANGED <<loop, crashes, kind, device, open, child, pipes, reader, buf,
                 shown>>

\* write_all, a piece at a time: it waits while the pipe is full.
Writes(w) ==
  /\ pc[w] = "write" /\ child[w] = "running" /\ Len(inPipe[w]) < PipeSize
  /\ inPipe' = [inPipe EXCEPT ![w] = Append(@, Head(writing[w]))]
  /\ writing' = [writing EXCEPT ![w] = Tail(@)]
  /\ Move(w, IF Len(writing[w]) = 1 THEN "recv" ELSE "write")
  /\ UNCHANGED <<loop, crashes, kind, sink, child, outPipe, have, out, reader,
                 buf, shown>>

\* Mutant: the rest of the frame is kept.
WriteFailsKeepsRest(w) ==
  /\ pc[w] = "write" /\ child[w] = "dead"
  /\ Move(w, "failed")
  /\ UNCHANGED <<loop, crashes, kind, sink, writing, child, pipes, reader, buf,
                 shown>>

WriteFails(w) ==
  /\ pc[w] = "write" /\ child[w] = "dead"
  /\ writing' = [writing EXCEPT ![w] = <<>>]
  /\ Move(w, "failed")
  /\ UNCHANGED <<loop, crashes, kind, sink, child, pipes, reader, buf, shown>>

\* recv fails once the channel is empty and the sink has dropped its end.
Disconnected(w) ==
  /\ pc[w] = "recv" /\ chan[w] = <<>> /\ ~open[w]
  /\ Move(w, IF kind[w] = "direct" THEN "done" ELSE "closing")
  /\ UNCHANGED <<loop, crashes, kind, sink, writing, child, pipes, reader, buf,
                 shown>>

\* Mutant: the worker waits for its child before it closes the pipe or kills.
ReapsByWaiting(w) ==
  /\ pc[w] \in {"closing", "failed"} /\ child[w] = "dead"
  /\ Move(w, IF pc[w] = "closing" THEN "joinClosing" ELSE "joinFailed")
  /\ UNCHANGED <<loop, crashes, kind, sink, writing, child, pipes, reader, buf,
                 shown>>

\* Mutant: a worker that is closed leaves its child to itself.
ReapsFailed(w) ==
  /\ pc[w] \in {"closing", "failed"}
  /\ child' = [child EXCEPT ![w] = IF pc[w] = "failed" THEN "dead" ELSE @]
  /\ Move(w, IF pc[w] = "closing" THEN "done" ELSE "joinFailed")
  /\ UNCHANGED <<loop, crashes, kind, sink, writing, pipes, reader, buf, shown>>

\* drop(stdin), child.kill(), child.wait()
Reaps(w) ==
  /\ pc[w] \in {"closing", "failed"}
  /\ child' = [child EXCEPT ![w] = "dead"]
  /\ Move(w, IF pc[w] = "closing" THEN "joinClosing" ELSE "joinFailed")
  /\ UNCHANGED <<loop, crashes, kind, sink, writing, pipes, reader, buf, shown>>

\* Mutant: the worker does not join the reader.
ForgetsReader(w) ==
  /\ pc[w] \in {"joinClosing", "joinFailed"}
  /\ Move(w, IF pc[w] = "joinFailed" /\ kind[w] # "kms" THEN "sleep" ELSE "done")
  /\ UNCHANGED <<loop, crashes, kind, sink, writing, child, pipes, reader, buf,
                 shown>>

\* reader.join(), where there is one.  After a failed write the worker starts
\* ffmpeg again; the kms path ends.
JoinsReader(w) ==
  /\ pc[w] \in {"joinClosing", "joinFailed"} /\ ~Reading(w)
  /\ Move(w, IF pc[w] = "joinFailed" /\ kind[w] # "kms" THEN "sleep" ELSE "done")
  /\ UNCHANGED <<loop, crashes, kind, sink, writing, child, pipes, reader, buf,
                 shown>>

\* 200 ms
Sleeps(w) ==
  /\ pc[w] = "sleep"
  /\ Move(w, "spawn")
  /\ UNCHANGED <<loop, crashes, kind, sink, writing, child, pipes, reader, buf,
                 shown>>

Worker(w) ==
  \/ GivesUp(w) \/ TakesDirectPath(w) \/ TakesFfmpegPath(w) \/ TakesKmsPath(w)
  \/ Spawns(w) \/ SpawnFails(w) \/ CopiesFrame(w) \/ CopyFails(w)
  \/ SkipsShortFrame(w) \/ ReceivesFrame(w) \/ Writes(w) \/ WriteFails(w)
  \/ Disconnected(w) \/ Reaps(w) \/ JoinsReader(w) \/ Sleeps(w)

-----------------------------------------------------------------------------
(***************************************************************************)
(* The reader thread of the fbdev path: whole frames from the pipe to the  *)
(* framebuffer, until the pipe ends.                                       *)
(***************************************************************************)
ReaderMoves(w, to) == reader' = [reader EXCEPT ![w] = to]

ReaderOpens(w) ==
  /\ reader[w] = "open"
  /\ ReaderMoves(w, "read")
  /\ UNCHANGED <<loop, crashes, pc, kind, sink, writing, child, pipes, buf, shown>>

\* The framebuffer cannot be opened: the reader drops its end of the pipe.
ReaderGivesUp(w) ==
  /\ reader[w] = "open"
  /\ ReaderMoves(w, "done")
  /\ UNCHANGED <<loop, crashes, pc, kind, sink, writing, child, pipes, buf, shown>>

ReaderReads(w) ==
  /\ reader[w] = "read" /\ outPipe[w] # <<>>
  /\ outPipe' = [outPipe EXCEPT ![w] = Tail(@)]
  /\ LET got == Append(buf[w], Head(outPipe[w]))
     IN IF IsWhole(got)
        THEN buf' = [buf EXCEPT ![w] = <<>>] /\ Show(device[w], Last(got))
        ELSE buf' = [buf EXCEPT ![w] = got] /\ UNCHANGED shown
  /\ UNCHANGED <<loop, crashes, pc, kind, sink, writing, child, inPipe, have,
                 out, reader>>

ReaderEnds(w) ==
  /\ reader[w] = "read" /\ outPipe[w] = <<>> /\ child[w] = "dead"
  /\ ReaderMoves(w, "done")
  /\ UNCHANGED <<loop, crashes, pc, kind, sink, writing, child, pipes, buf, shown>>

Reader(w) ==
  ReaderOpens(w) \/ ReaderGivesUp(w) \/ ReaderReads(w) \/ ReaderEnds(w)

-----------------------------------------------------------------------------
(***************************************************************************)
(* The child, ffmpeg or gst-launch: from its input it cuts frames of the   *)
(* size it was started with, and puts out one for each; it reads on when   *)
(* that has been taken.                                                    *)
(***************************************************************************)
ChildReads(w) ==
  /\ child[w] = "running" /\ inPipe[w] # <<>> /\ out[w] = <<>>
  /\ inPipe' = [inPipe EXCEPT ![w] = Tail(@)]
  /\ LET got == Append(have[w], Head(inPipe[w]))
     IN IF ~IsWhole(got)
        THEN have' = [have EXCEPT ![w] = got] /\ UNCHANGED <<out, shown>>
        ELSE /\ have' = [have EXCEPT ![w] = <<>>]
             /\ IF kind[w] = "fbdev"
                THEN out' = [out EXCEPT ![w] = got] /\ UNCHANGED shown
                ELSE Show(device[w], Last(got)) /\ UNCHANGED out
  /\ UNCHANGED <<loop, crashes, pc, kind, sink, writing, child, outPipe, reader,
                 buf>>

ChildWrites(w) ==
  /\ child[w] = "running" /\ out[w] # <<>>
  /\ reader[w] # "done" /\ Len(outPipe[w]) < PipeSize
  /\ out' = [out EXCEPT ![w] = Tail(@)]
  /\ outPipe' = [outPipe EXCEPT ![w] = Append(@, Head(out[w]))]
  /\ UNCHANGED <<loop, crashes, pc, kind, sink, writing, child, inPipe, have,
                 reader, buf, shown>>

\* Nobody reads its output any more: SIGPIPE.
ChildBreaks(w) ==
  /\ child[w] = "running" /\ out[w] # <<>> /\ reader[w] = "done"
  /\ child' = [child EXCEPT ![w] = "dead"]
  /\ UNCHANGED <<loop, crashes, pc, kind, sink, writing, pipes, reader, buf, shown>>

ChildDies(w) ==
  /\ child[w] = "running" /\ crashes < MaxCrashes
  /\ child' = [child EXCEPT ![w] = "dead"]
  /\ crashes' = crashes + 1
  /\ UNCHANGED <<loop, pc, kind, sink, writing, pipes, reader, buf, shown>>

Child(w) == ChildReads(w) \/ ChildWrites(w) \/ ChildBreaks(w)

-----------------------------------------------------------------------------
Ended == mode = "left" /\ UNCHANGED vars

Stopping == CloseChannel \/ JoinWorker \/ SinksStopped

Next ==
  \/ \E list \in Lists : Build(list)
  \/ Offer \/ StopSinks \/ Stopping \/ Ended
  \/ \E w \in Workers : Worker(w) \/ Reader(w) \/ Child(w) \/ ChildDies(w)

Spec == Init /\ [][Next]_vars

\* Threads are scheduled, and a child that runs reads and writes.
FairSpec ==
  /\ Spec
  /\ WF_vars(Stopping)
  /\ \A w \in Workers : WF_vars(Worker(w)) /\ WF_vars(Reader(w)) /\ WF_vars(Child(w))

-----------------------------------------------------------------------------
TypeOK ==
  /\ mode \in {"build", "run", "stop", "left"} /\ leave \in BOOLEAN
  /\ Range(sinks) \subseteq Workers /\ IsInjective(sinks)
  /\ frame \in 0..MaxFrames /\ builds \in 0..MaxBuilds /\ crashes \in 0..MaxCrashes
  /\ pc \in [Workers -> WorkerPC]
  /\ device \in [Workers -> Devices] /\ kind \in [Workers -> Kinds]
  /\ open \in [Workers -> BOOLEAN]
  /\ \A w \in Workers :
       /\ Len(chan[w]) <= 1 /\ Range(chan[w]) \subseteq Pieces(FrameChunks)
       /\ writing[w] \in Pieces(FrameChunks)
       /\ (pc[w] = "write") = (writing[w] # <<>>)
       /\ {inPipe[w], outPipe[w]} \subseteq Pieces(PipeSize)
       /\ {have[w], buf[w]} \subseteq Pieces(FrameChunks - 1)
       /\ out[w] \in Pieces(FrameChunks)
  /\ child \in [Workers -> {"none", "running", "dead"}]
  /\ reader \in [Workers -> {"none", "open", "read", "done"}]
  /\ shown \in [Devices -> 0..MaxFrames]
  /\ shortSeen \in BOOLEAN

(***************************************************************************)
(* No two outputs are written by two sinks at a time: of all that lives of *)
(* the sinks, old and new (worker, child, reader), only one has a device.  *)
(* It takes the set seen of build_preview_sinks (:2692) and the joins of   *)
(* stop_preview_sinks (:2013).                                             *)
(***************************************************************************)
OneWriter ==
  \A v, w \in Workers : v # w /\ Lives(v) /\ Lives(w) => device[v] # device[w]

(***************************************************************************)
(* Once the capture loop has stopped its sinks, nothing of them lives: no  *)
(* worker, no ffmpeg or gst-launch, no reader.                             *)
(***************************************************************************)
NothingLeft == mode \in {"build", "left"} => \A w \in Workers : ~Lives(w)

(***************************************************************************)
(* A screen never goes back to an older frame, though frames wait in a     *)
(* channel, two pipes and a buffer while the sinks are built anew.         *)
(***************************************************************************)
ShownInOrder == [][\A d \in Devices : shown'[d] >= shown[d]]_shown

(***************************************************************************)
(* While the capture device delivers whole frames, each exactly as long as *)
(* ffmpeg cuts them, what goes to a child and what comes from it stays cut *)
(* into frames where frames begin: no death of a child and no restart in   *)
(* the middle of a frame shifts it for good (the pipes and the buffer of   *)
(* the reader are new with each child, :2995-3018).  A frame that is       *)
(* longer, from a padded buffer (:762-766, 1039), shifts it as a short one *)
(* does, because the worker writes it whole (:3021, 3042).                 *)
(***************************************************************************)
CutAtFrames(pieces) ==
  \A n \in 1..(Len(pieces) - 1) :
    pieces[n] # pieces[n + 1] => n % FrameChunks = 0

FramesWhole ==
  ~shortSeen =>
    \A w \in Workers : /\ CutAtFrames(have[w] \o inPipe[w] \o writing[w])
                       /\ CutAtFrames(buf[w] \o outPipe[w] \o out[w])

(***************************************************************************)
(* stop_preview_sinks returns, and the capture loop with it, whatever the  *)
(* workers and their children are doing: a worker that writes to a child   *)
(* which writes to the reader thread is not stuck ("Prevents deadlock:     *)
(* stdin write blocks if ffmpeg can't flush stdout", :2999).               *)
(***************************************************************************)
SinksStop == mode = "stop" ~> mode # "stop"

=============================================================================
