---------------------------- MODULE MonitorOutput ----------------------------
(***************************************************************************)
(* The local monitor of the audio pipeline (src/omtencoder/src/            *)
(* audio_pipeline.rs): the audio loop gives each mixed frame to a thread   *)
(* of its own (run_monitor_thread) through a channel of a few places, and  *)
(* drops it when the channel is full.  The thread gathers frames until it  *)
(* can open the playback device with a reserve, and then writes what comes.*)
(*                                                                         *)
(* AudioPipeline::stop joins the audio thread and not this one, so that    *)
(* after a restart of the pipeline the old thread may still hold the       *)
(* device that the new one wants.  The device can be open once only, and   *)
(* the open waits until it is free (open_pcm_playback, not non-blocking).  *)
(* A thread is the number of its pipeline.  Frames are counted; what is in *)
(* them does not matter here.                                              *)
(***************************************************************************)
EXTENDS Integers

CONSTANTS
  Pipelines,   \* bound on the audio pipelines started one after the other
  Places,      \* room of the channel (4)
  Prebuffer    \* prebuffer_frames (3 to 12)

ASSUME PipelinesAssumption == Pipelines \in Nat \ {0}
ASSUME PlacesAssumption == Places \in Nat \ {0}
ASSUME PrebufferAssumption == Prebuffer \in Nat \ {0}

VARIABLES
  current,    \* the pipeline that was started last
  running,    \* the flag of each pipeline
  mixing,     \* its audio loop runs and holds the sending end of the channel
  pc,         \* where its monitor thread is
  channel,    \* number of frames in its channel
  pending,    \* length of its pending queue
  cooled,     \* restart_cooldown_ms have passed since it tried to open
  present,    \* the playback device is there
  taken,      \* another program has it open
  handle,     \* pcm_monitor of each thread: none, live, or dead with its device
  plays       \* the thread whose frames the device has been given since it
              \* was opened

threads == <<pc, channel, pending, cooled>>
device == <<present, taken, handle, plays>>
vars == <<current, running, mixing, threads, device>>

Threads == 1..Pipelines
None == 0

\* AudioPipeline::start, run_audio_loop and the spawn of its monitor thread.
Begin(t) ==
  /\ current' = t
  /\ running' = [running EXCEPT ![t] = TRUE]
  /\ mixing' = [mixing EXCEPT ![t] = TRUE]
  /\ pc' = [pc EXCEPT ![t] = "top"]

Init ==
  /\ current = None
  /\ running = [t \in Threads |-> FALSE]
  /\ mixing = [t \in Threads |-> FALSE]
  /\ pc = [t \in Threads |-> "unborn"]
  /\ channel = [t \in Threads |-> 0]
  /\ pending = [t \in Threads |-> 0]
  /\ cooled = [t \in Threads |-> TRUE]
  /\ present \in BOOLEAN /\ taken \in BOOLEAN
  /\ handle = [t \in Threads |-> "none"]
  /\ plays = None

-----------------------------------------------------------------------------
(***************************************************************************)
(* The pipelines.  The next one is started when the thread of the audio    *)
(* loop has been joined.                                                   *)
(***************************************************************************)
Start ==
  /\ current < Pipelines
  /\ current # None => ~mixing[current]
  /\ Begin(current + 1)
  /\ UNCHANGED <<channel, pending, cooled, device>>

Stop ==
  /\ current # None /\ running[current]
  /\ running' = [running EXCEPT ![current] = FALSE]
  /\ UNCHANGED <<current, mixing, threads, device>>

LoopEnds(t) ==
  /\ mixing[t] /\ ~running[t]
  /\ mixing' = [mixing EXCEPT ![t] = FALSE]
  /\ UNCHANGED <<current, running, threads, device>>

\* A frame is mixed, or silence for want of inputs: try_send, and "silently
\* dropped" if there is no place.
FrameMixed(t) ==
  /\ mixing[t]
  /\ channel' = [channel EXCEPT ![t] = IF @ < Places /\ pc[t] # "ended"
                                       THEN @ + 1 ELSE @]
  /\ UNCHANGED <<current, running, mixing, pc, pending, cooled, device>>

-----------------------------------------------------------------------------
(***************************************************************************)
(* The monitor thread.                                                     *)
(***************************************************************************)
Go(t, from, to) == pc[t] = from /\ pc' = [pc EXCEPT ![t] = to]

\* What the thread has open is closed when it lets go of it.
Release(t) ==
  /\ handle' = [handle EXCEPT ![t] = "none"]
  /\ plays' = IF plays = t THEN None ELSE plays

Top(t) ==
  /\ running[t]
  /\ Go(t, "top", "receive")
  /\ UNCHANGED <<current, running, mixing, channel, pending, cooled, device>>

Receive(t) ==
  /\ channel[t] > 0
  /\ Go(t, "receive", "received")
  /\ channel' = [channel EXCEPT ![t] = @ - 1]
  /\ pending' = [pending EXCEPT ![t] = @ + 1]
  /\ UNCHANGED <<current, running, mixing, cooled, device>>

\* A tenth of a second without a frame.
Timeout(t) ==
  /\ channel[t] = 0
  /\ Go(t, "receive", "top")
  /\ UNCHANGED <<current, running, mixing, channel, pending, cooled, device>>

\* The flag is down, or the audio loop has dropped its end of the channel.
Ends(t) ==
  /\ \/ ~running[t] /\ Go(t, "top", "ended")
     \/ ~mixing[t] /\ channel[t] = 0 /\ Go(t, "receive", "ended")
  /\ channel' = [channel EXCEPT ![t] = 0]
  /\ pending' = [pending EXCEPT ![t] = 0]
  /\ Release(t)
  /\ UNCHANGED <<current, running, mixing, cooled, present, taken>>

MayOpen(t) == handle[t] = "none" /\ cooled[t] /\ pending[t] >= Prebuffer

\* Somebody else has the device open: the open of t waits.
Busy(t) == taken \/ \E u \in Threads \ {t} : handle[u] = "live"

OpenOk(t) ==
  /\ MayOpen(t)
  /\ present /\ ~Busy(t)
  /\ Go(t, "received", "write")
  /\ cooled' = [cooled EXCEPT ![t] = FALSE]
  /\ handle' = [handle EXCEPT ![t] = "live"]
  /\ UNCHANGED <<current, running, mixing, channel, pending, present, taken,
                 plays>>

\* Mutant: the oldest frame is not dropped.
TrimNot(t) == UNCHANGED pending

\* Without a device the oldest frame is dropped above twice the reserve.
Trim(t) ==
  pending' = [pending EXCEPT ![t] = IF @ > 2 * Prebuffer THEN @ - 1 ELSE @]

OpenFails(t) ==
  /\ MayOpen(t) /\ (present => ~Busy(t))
  /\ Go(t, "received", "top")
  /\ cooled' = [cooled EXCEPT ![t] = FALSE]
  /\ Trim(t)
  /\ UNCHANGED <<current, running, mixing, channel, device>>

NotYet(t) ==
  /\ handle[t] = "none" /\ ~MayOpen(t)
  /\ Go(t, "received", "top")
  /\ Trim(t)
  /\ UNCHANGED <<current, running, mixing, channel, cooled, device>>

IsOpen(t) ==
  /\ handle[t] # "none"
  /\ Go(t, "received", "write")
  /\ UNCHANGED <<current, running, mixing, channel, pending, cooled, device>>

\* Mutant: one frame is written for each that comes.
WriteOne(t) ==
  /\ pending[t] > 0 /\ handle[t] = "live"
  /\ Go(t, "write", "top")
  /\ pending' = [pending EXCEPT ![t] = @ - 1]
  /\ plays' = t
  /\ UNCHANGED <<current, running, mixing, channel, cooled, present, taken,
                 handle>>

Write(t) ==
  /\ pc[t] = "write" /\ pending[t] > 0 /\ handle[t] = "live"
  /\ pending' = [pending EXCEPT ![t] = @ - 1]
  /\ plays' = t
  /\ UNCHANGED <<current, running, mixing, pc, channel, cooled, present,
                 taken, handle>>

\* Mutant: the frames are given up, the device is kept.
WriteFailsKeepsDevice(t) ==
  /\ pending[t] > 0
  /\ Go(t, "write", "top")
  /\ pending' = [pending EXCEPT ![t] = 0]
  /\ plays' = None
  /\ UNCHANGED <<current, running, mixing, channel, cooled, present, taken,
                 handle>>

\* An underrun, or the device has gone.
WriteFails(t) ==
  /\ pending[t] > 0
  /\ Go(t, "write", "top")
  /\ pending' = [pending EXCEPT ![t] = 0]
  /\ Release(t)
  /\ UNCHANGED <<current, running, mixing, channel, cooled, present, taken>>

Written(t) ==
  /\ pending[t] = 0
  /\ Go(t, "write", "top")
  /\ UNCHANGED <<current, running, mixing, channel, pending, cooled, device>>

Monitor(t) ==
  \/ Top(t) \/ Receive(t) \/ Timeout(t) \/ Ends(t)
  \/ OpenOk(t) \/ OpenFails(t) \/ NotYet(t) \/ IsOpen(t)
  \/ Write(t) \/ WriteFails(t) \/ Written(t)

-----------------------------------------------------------------------------
CoolsDown(t) ==
  /\ ~cooled[t]
  /\ cooled' = [cooled EXCEPT ![t] = TRUE]
  /\ UNCHANGED <<current, running, mixing, pc, channel, pending, device>>

\* The device is plugged or unplugged.
Plug ==
  /\ present' = ~present
  /\ handle' = [t \in Threads |-> IF handle[t] = "live" THEN "dead"
                                 ELSE handle[t]]
  /\ plays' = None
  /\ UNCHANGED <<current, running, mixing, threads, taken>>

\* Another program opens or closes it.
Take ==
  /\ \A t \in Threads : handle[t] # "live"
  /\ taken' = ~taken
  /\ UNCHANGED <<current, running, mixing, threads, present, handle, plays>>

Next ==
  \/ Start \/ Stop \/ Plug \/ Take
  \/ \E t \in Threads :
       LoopEnds(t) \/ FrameMixed(t) \/ Monitor(t) \/ CoolsDown(t)

Spec == Init /\ [][Next]_vars

(***************************************************************************)
(* Threads are scheduled and time passes; an open that is possible again   *)
(* and again succeeds in the end.  A write returns: the device plays what  *)
(* it is given.  Frames need not come.                                     *)
(***************************************************************************)
Fairness ==
  \A t \in Threads :
    /\ WF_vars(Monitor(t)) /\ WF_vars(LoopEnds(t)) /\ WF_vars(CoolsDown(t))
    /\ SF_vars(OpenOk(t)) /\ SF_vars(Write(t))

FairSpec == Spec /\ Fairness

-----------------------------------------------------------------------------
FlagsTyped ==
  /\ running \in [Threads -> BOOLEAN] /\ mixing \in [Threads -> BOOLEAN]
  /\ cooled \in [Threads -> BOOLEAN]
  /\ present \in BOOLEAN /\ taken \in BOOLEAN

\* A queue that waits for its device is no longer than twice the reserve and
\* the frame that has just come.
StateTyped ==
  /\ current \in 0..Pipelines
  /\ pc \in [Threads -> {"unborn", "top", "receive", "received", "write",
                         "ended"}]
  /\ channel \in [Threads -> 0..Places]
  /\ pending \in [Threads -> 0..(2 * Prebuffer + 1)]
  /\ handle \in [Threads -> {"none", "live", "dead"}]
  /\ plays \in Threads \cup {None}

TypeOK == FlagsTyped /\ StateTyped

(***************************************************************************)
(* The monitor does not fall behind: a thread that waits for the next      *)
(* frame has given all others to its device, if it has it open (:672-684). *)
(* What the reserve once held would otherwise delay the sound for good.    *)
(***************************************************************************)
NoBacklog ==
  \A t \in Threads :
    handle[t] # "none" /\ pc[t] \in {"top", "receive"} => pending[t] = 0

(***************************************************************************)
(* "Monitor output write failed; reopening playback device" (:681): the    *)
(* newest pipeline plays, as long as it runs, after underruns, after the   *)
(* device was unplugged, and though the thread of the pipeline before,     *)
(* which nobody joins, may still hold the device, or wait for it.  That is *)
(* while its device is there and no other program keeps it, and as long as *)
(* there are frames: the rounds in which the inputs fail, or have no data, *)
(* give it none (:441-445, 495-511).                                       *)
(***************************************************************************)
FramesCome(t) == WF_vars(FrameMixed(t))

PlaysAgain ==
  \A t \in Threads :
    FramesCome(t) =>
      (current = t /\ running[t]
        ~> plays = t \/ ~running[t] \/ ~present \/ taken)

=============================================================================
