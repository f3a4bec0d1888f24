---------------------------- MODULE AudioPipeline ----------------------------
(***************************************************************************)
(* AudioPipeline of src/omtencoder/src/audio_pipeline.rs: the controller's *)
(* new, start and stop, and run_audio_loop, which opens the HDMI and TRS   *)
(* inputs, reads, mixes and sends them, and tries to open them again when  *)
(* they fail.  Samples are left out; what remains of the buffers is the    *)
(* number of channels they have room for.                                  *)
(*                                                                         *)
(* The devices are external: they are plugged and unplugged at any time, a *)
(* handle dies with its device, another program may take a device, and an  *)
(* open or a read of a plugged device may fail.                            *)
(***************************************************************************)
EXTENDS Integers

CONSTANTS
  Inputs,          \* {"hdmi", "trs"}
  Exclusive,       \* those whose device can be open once only (no dsnoop)
  ChannelCounts,   \* channels an input may be opened with
  RestartAfter     \* restart_after_failed_reads; 0 never restarts

ASSUME InputsAssumption == Exclusive \subseteq Inputs
ASSUME ChannelsAssumption == ChannelCounts \subseteq Nat \ {0}
ASSUME RestartAssumption == RestartAfter \in Nat

VARIABLES
  expected,    \* the inputs of the mode that have a device name; never changed
  caller,      \* the controller: new, idle, joining, joined
  running,     \* the flag the thread loops on
  pc,          \* where the thread is
  plugged,     \* the devices that are there
  taken,       \* those that another program has open
  handle,      \* pcm_hdmi, pcm_trs: none, live, or dead with its device
  channels,    \* hdmi_channels, trs_channels
  room,        \* channels the read buffer of each input has room for
  result,      \* what the last read of each input returned
  failures,    \* consecutive_read_failures, up to RestartAfter
  cooled,      \* restart_cooldown_ms have passed since the last attempt
  round,       \* history: the last round of the loop sent a frame, had no data
               \* to send, or reopened the inputs instead
  openAtStart  \* history: an input was open when the loop began

inputs == <<handle, channels, room>>
devices == <<plugged, taken>>
history == <<round, openAtStart>>
vars == <<expected, caller, running, pc, devices, inputs, result, failures,
          cooled, history>>

Opened == {i \in Inputs : handle[i] # "none"}

\* Inputs are opened non-blocking only when both are wanted.
NonBlocking == expected = Inputs

\* Mutant: no max(1).
AtLeastNone(n) == n

AtLeastOne(n) == IF n = 0 THEN 1 ELSE n

Init ==
  /\ expected \in SUBSET Inputs
  /\ caller = "new" /\ running = FALSE /\ pc = "unborn"
  /\ plugged \in SUBSET Inputs /\ taken \in SUBSET Exclusive
  /\ handle = [i \in Inputs |-> "none"]
  /\ channels = [i \in Inputs |-> 0]
  /\ room = [i \in Inputs |-> 1]
  /\ result = [i \in Inputs |-> "again"]
  /\ failures = 0
  /\ cooled = TRUE
  /\ round = "sent" /\ openAtStart = FALSE

-----------------------------------------------------------------------------
(* The controller and the devices. *)

Start ==
  /\ caller = "new"
  /\ caller' = "idle" /\ running' = TRUE /\ pc' = "begin"
  /\ UNCHANGED <<expected, devices, inputs, result, failures, cooled, history>>

Stop ==
  /\ caller = "idle"
  /\ caller' = "joining" /\ running' = FALSE
  /\ UNCHANGED <<expected, pc, devices, inputs, result, failures, cooled,
                 history>>

Join ==
  /\ caller = "joining"
  /\ pc \in {"exited", "panicked"}
  /\ caller' = "joined"
  /\ UNCHANGED <<expected, running, pc, devices, inputs, result, failures,
                 cooled, history>>

Plug(i) ==
  /\ i \notin plugged
  /\ plugged' = plugged \cup {i}
  /\ UNCHANGED <<expected, caller, running, pc, taken, inputs, result, failures,
                 cooled, history>>

Unplug(i) ==
  /\ i \in plugged
  /\ plugged' = plugged \ {i}
  /\ handle' = [handle EXCEPT ![i] = IF @ = "live" THEN "dead" ELSE @]
  /\ UNCHANGED <<expected, caller, running, pc, taken, channels, room, result,
                 failures, cooled, history>>

\* Another program opens or closes a device.
Take(i) ==
  /\ i \in Exclusive /\ handle[i] # "live"
  /\ taken' = IF i \in taken THEN taken \ {i} ELSE taken \cup {i}
  /\ UNCHANGED <<expected, caller, running, pc, plugged, inputs, result,
                 failures, cooled, history>>

CoolDown ==
  /\ ~cooled
  /\ cooled' = TRUE
  /\ UNCHANGED <<expected, caller, running, pc, devices, inputs, result,
                 failures, history>>

Environment == (\E i \in Inputs : Plug(i) \/ Unplug(i) \/ Take(i)) \/ CoolDown

-----------------------------------------------------------------------------
(***************************************************************************)
(* try_start_inputs: all expected inputs open, or one of two.  The result  *)
(* is the set that is opened; no set is a failure, and leaves everything.  *)
(* The thread holds its old handles meanwhile.  A device that is open      *)
(* elsewhere, or in such a handle, gives EBUSY to a non-blocking open; the *)
(* blocking open of a single input waits until it is free or gone.         *)
(***************************************************************************)
Busy(i) == i \in Exclusive /\ (i \in taken \/ handle[i] = "live")

Openings ==
  IF expected = {} THEN {{}}
  ELSE {O \in SUBSET {i \in expected \cap plugged : ~Busy(i)} :
          O = expected \/ (NonBlocking /\ O # {})}

OpenWaits == ~NonBlocking /\ \E i \in expected \cap plugged : Busy(i)

TakeInputs(O) ==
  /\ handle' = [i \in Inputs |-> IF i \in O THEN "live" ELSE "none"]
  /\ channels' \in [Inputs -> {0} \cup ChannelCounts]
  /\ \A i \in Inputs : (channels'[i] = 0) = (i \notin O)

\* Mutant: only the HDMI buffer is resized.
ResizeHdmiBuffer ==
  room' = [room EXCEPT !["hdmi"] = AtLeastOne(channels'["hdmi"])]

ResizeBuffers == room' = [i \in Inputs |-> AtLeastOne(channels'[i])]

AudioStep(from, to) ==
  /\ pc = from /\ pc' = to
  /\ UNCHANGED <<expected, caller, running, devices>>

\* The inputs are opened once before the loop, and the buffers made to fit.
BeginOpened(O) ==
  /\ AudioStep("begin", "top")
  /\ TakeInputs(O)
  /\ ResizeBuffers
  /\ openAtStart' = (O # {})
  /\ UNCHANGED <<result, failures, cooled, round>>

BeginFails ==
  /\ ~OpenWaits
  /\ AudioStep("begin", "top")
  /\ UNCHANGED <<inputs, result, failures, cooled, history>>

\* Mutant: the thread does not test running.
TopForEver ==
  /\ AudioStep("top", IF Opened = {} THEN "silent" ELSE "read")
  /\ UNCHANGED <<inputs, result, failures, cooled, history>>

Top ==
  /\ AudioStep("top", IF ~running THEN "exited"
                      ELSE IF Opened = {} THEN "silent" ELSE "read")
  /\ UNCHANGED <<inputs, result, failures, cooled, history>>

\* No input: send silence; after the cool-down, try to open the inputs.  The
\* read buffers stay as they are.
SilentRound ==
  /\ AudioStep("silent", IF cooled THEN "retry" ELSE "top")
  /\ cooled' = FALSE
  /\ round' = "sent"
  /\ UNCHANGED <<inputs, result, failures, openAtStart>>

SilentOpened(O) ==
  /\ AudioStep("retry", "top")
  /\ TakeInputs(O)
  /\ UNCHANGED <<room, result, failures, cooled, history>>

SilentFails ==
  /\ ~OpenWaits
  /\ AudioStep("retry", "top")
  /\ UNCHANGED <<inputs, result, failures, cooled, history>>

\* read_pcm of both inputs; an input that is not open counts as no data yet.
Outcomes(i) ==
  IF handle[i] = "none" THEN {"again"}
  ELSE IF handle[i] = "dead" THEN {"error"}
  ELSE {"data", "error"} \cup (IF NonBlocking THEN {"again"} ELSE {})

Read ==
  /\ AudioStep("read", "decide")
  /\ result' \in [Inputs -> {"again", "data", "error"}]
  /\ \A i \in Inputs : result'[i] \in Outcomes(i)
  /\ UNCHANGED <<inputs, failures, cooled, history>>

Got(what) == {i \in Opened : result[i] = what}

\* all_eagain: nothing came and nothing failed; nothing is sent.
NoDataYet ==
  /\ Got("again") = Opened
  /\ AudioStep("decide", "top")
  /\ round' = "noData"
  /\ UNCHANGED <<inputs, result, failures, cooled, openAtStart>>

\* Mutant: the failures are forgotten after each round.
CountFailureNot == failures' = 0

CountFailure ==
  failures' = IF failures < RestartAfter THEN failures + 1 ELSE failures

RestartDue ==
  /\ RestartAfter > 0
  /\ failures + 1 >= RestartAfter
  /\ cooled

\* all_expected_failed: a frame of silence, or an attempt to open the inputs
\* again, while the old ones are still there.
FailedRound ==
  /\ Got("error") = Opened
  /\ AudioStep("decide", IF RestartDue THEN "restart" ELSE "top")
  /\ CountFailure
  /\ cooled' = (cooled /\ ~RestartDue)
  /\ round' = IF RestartDue THEN round ELSE "sent"
  /\ UNCHANGED <<inputs, result, openAtStart>>

\* Mutant: the failures before the restart count after it.
RestartOpenedNoReset(O) ==
  /\ AudioStep("restart", "top")
  /\ TakeInputs(O)
  /\ ResizeBuffers
  /\ round' = "reopened"
  /\ UNCHANGED <<result, failures, cooled, openAtStart>>

\* The round ends without a frame.
RestartOpened(O) ==
  /\ AudioStep("restart", "top")
  /\ TakeInputs(O)
  /\ ResizeBuffers
  /\ failures' = 0
  /\ round' = "reopened"
  /\ UNCHANGED <<result, cooled, openAtStart>>

RestartFails ==
  /\ ~OpenWaits
  /\ AudioStep("restart", "top")
  /\ round' = "sent"
  /\ UNCHANGED <<inputs, result, failures, cooled, openAtStart>>

\* Some input delivered, or some failed while another has no data yet: the
\* samples there are, or none, are mixed and sent.  The read and the mix
\* index a buffer by the channels of its input.
Mixes ==
  /\ Got("again") # Opened
  /\ Got("error") # Opened

Overrun == \E i \in Got("data") : channels[i] > room[i]

Mix ==
  /\ Mixes /\ ~Overrun
  /\ AudioStep("decide", "top")
  /\ failures' = 0
  /\ round' = "sent"
  /\ UNCHANGED <<inputs, result, cooled, openAtStart>>

MixPanics ==
  /\ Mixes /\ Overrun
  /\ AudioStep("decide", "panicked")
  /\ UNCHANGED <<inputs, result, failures, cooled, history>>

OpenSucceeds ==
  \E O \in Openings : BeginOpened(O) \/ SilentOpened(O) \/ RestartOpened(O)

OpenReturns == OpenSucceeds \/ BeginFails \/ SilentFails \/ RestartFails

Round ==
  \/ Top \/ SilentRound \/ Read \/ NoDataYet \/ FailedRound \/ Mix \/ MixPanics

Next ==
  \/ Start \/ Stop \/ Join \/ Environment \/ OpenReturns \/ Round
  \/ (caller = "joined" /\ UNCHANGED vars)

Spec == Init /\ [][Next]_vars

(***************************************************************************)
(* Fairness: the thread runs and its reads return (ALSA ends one without   *)
(* data by an error), time passes, and stop goes on to its join.  An open  *)
(* that need not wait returns, and one that is possible again and again    *)
(* succeeds.                                                               *)
(***************************************************************************)
FairSpec ==
  /\ Spec
  /\ WF_vars(Round) /\ WF_vars(CoolDown) /\ WF_vars(Join)
  /\ SF_vars(OpenReturns) /\ SF_vars(OpenSucceeds)

-----------------------------------------------------------------------------
FlagsTyped ==
  /\ running \in BOOLEAN
  /\ cooled \in BOOLEAN
  /\ openAtStart \in BOOLEAN

StateTyped ==
  /\ caller \in {"new", "idle", "joining", "joined"}
  /\ pc \in {"unborn", "begin", "top", "silent", "retry", "read", "decide",
             "restart", "exited", "panicked"}
  /\ round \in {"sent", "noData", "reopened"}
  /\ expected \subseteq Inputs
  /\ plugged \subseteq Inputs /\ taken \subseteq Exclusive
  /\ handle \in [Inputs -> {"none", "live", "dead"}]
  /\ channels \in [Inputs -> {0} \cup ChannelCounts]
  /\ room \in [Inputs -> {1} \cup ChannelCounts]
  /\ result \in [Inputs -> {"again", "data", "error"}]
  /\ failures \in 0..RestartAfter

TypeOK == FlagsTyped /\ StateTyped

(***************************************************************************)
(* Where an input was open from the start, the thread never indexes beyond *)
(* a read buffer: no later reopening, with one input or both, leaves a     *)
(* buffer too small for the channels of its input (audio_pipeline.rs:      *)
(* 254-255, 484-485, 514-537).                                             *)
(***************************************************************************)
NoPanicAfterStart == openAtStart => pc # "panicked"

(***************************************************************************)
(* "Never exit the audio thread just because inputs are missing/invalid."  *)
(* (audio_pipeline.rs:217)                                                 *)
(***************************************************************************)
NeverExits == pc \in {"exited", "panicked"} => ~running

Ended == pc \in {"exited", "panicked"}

\* The thread opens its only input, whose device another program keeps, or
\* which it has open itself: at :472 the old handle is still there.
WaitsForEver == <>[](pc \in {"begin", "retry", "restart"} /\ OpenWaits)

(***************************************************************************)
(* "periodically retry opening the inputs" (audio_pipeline.rs:219), of all *)
(* the expected inputs together: when their devices are there and free for *)
(* good, the inputs are read again and again, unless the pipeline ends.    *)
(* (Of one input it does not hold: while the other one works it is never   *)
(* retried.)  Nor does it hold of a single input whose handle is alive     *)
(* while its reads fail: the restart then waits for its own handle.        *)
(***************************************************************************)
SomeInputRetried ==
  <>[](expected # {} /\ expected \subseteq plugged /\ expected \cap taken = {})
    => \/ []<>(\/ pc = "read" /\ \E i \in Inputs : handle[i] = "live"
              \/ Ended \/ pc = "unborn")
       \/ <>[](pc = "restart" /\ OpenWaits)

(***************************************************************************)
(* "keep sending silence" (audio_pipeline.rs:219): frames go out again and *)
(* again, though the round of a successful restart sends none (:491) - but *)
(* not while every round finds no data in one of two inputs (:443), nor    *)
(* when the thread waits for ever to open its only input.  (A loop that    *)
(* restarts after each failed read may send nothing, if the cool-down is   *)
(* shorter than the read.)                                                 *)
(***************************************************************************)
SilenceKept ==
  RestartAfter # 1 =>
    \/ []<>(round = "sent" \/ Ended \/ pc = "unborn")
    \/ <>[](round = "noData")
    \/ WaitsForEver

(***************************************************************************)
(* stop returns, whatever is plugged, unplugged or taken, as long as reads *)
(* return - unless the thread waits for ever to open its only input, which *)
(* no flag ends (audio_pipeline.rs:113-119, 974, 992).                     *)
(***************************************************************************)
StopReturns == (caller = "joining" ~> caller = "joined") \/ WaitsForEver

=============================================================================
