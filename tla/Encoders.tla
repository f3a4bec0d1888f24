------------------------------ MODULE Encoders ------------------------------
(***************************************************************************)
(* What the capture loop of run_video_loop (src/omtencoder/src/            *)
(* video_pipeline.rs) does with a picture between its capture and its      *)
(* transmission: the transform child, the VMX levels, and one encoder      *)
(* child per codec, started when a client asks for the codec and dropped   *)
(* when none does.  The loop is the only thread: it writes the picture to  *)
(* a child and waits until a frame has come back, so that a time stamp     *)
(* taken at capture belongs to the frame that is read.  Children may die   *)
(* at any time, and may want a second picture before they answer the first.*)
(*                                                                         *)
(* A picture is its time stamp, counted modulo Pictures.                   *)
(***************************************************************************)
EXTENDS Integers, Sequences

CONSTANTS
  Codecs,      \* number of encoder children: h264 is 1, h265 is 2
  Pictures,    \* time stamps are counted modulo this
  MaxDeaths    \* bound on the children that die

ASSUME CodecsAssumption == Codecs \in Nat \ {0}
ASSUME PicturesAssumption == Pictures \in Nat \ {0, 1}
ASSUME DeathsAssumption == MaxDeaths \in Nat

VARIABLES
  running,    \* the flag the loop tests at its top
  wanted,     \* codecs with a receiver: active_codec_mask
  pc,         \* where the loop is
  codec,      \* the codec it is at
  mask,       \* codec_mask: its copy of wanted for this picture
  picture,    \* capture_timestamp
  payload,    \* the picture that raw_payload shows
  child,      \* the transform (0) and the encoders
  in, out,    \* their pipes
  sent,       \* the last compressed frame given to a broadcast channel
  deaths      \* children that have died

loop == <<pc, codec, mask, picture, payload>>
children == <<child, in, out>>
vars == <<running, wanted, loop, children, sent, deaths>>

CodecIds == 1..Codecs
Children == 0..Codecs
Transform == 0
Vmx == 0            \* the channel of the VMX levels
Stamps == 0..(Pictures - 1)
None == -1
Nothing == [channel |-> None, stamp |-> 0, shows |-> 0]

\* What a child is: it answers each picture, or it wants one more first.
Answering == {"works", "delays"}

Init ==
  /\ running = TRUE
  /\ wanted = {}
  /\ pc = "closed" /\ codec = 1 /\ mask = {}
  /\ picture = 0 /\ payload = 0
  /\ child = [c \in Children |-> "none"]
  /\ in = [c \in Children |-> <<>>]
  /\ out = [c \in Children |-> <<>>]
  /\ sent = Nothing
  /\ deaths = 0

-----------------------------------------------------------------------------
(***************************************************************************)
(* Steps on a child: spawned with empty pipes, given a picture, read, or   *)
(* killed and waited for.                                                  *)
(***************************************************************************)
Spawn(c) ==
  /\ \E kind \in Answering : child' = [child EXCEPT ![c] = kind]
  /\ in' = [in EXCEPT ![c] = <<>>]
  /\ out' = [out EXCEPT ![c] = <<>>]

Kill(c) ==
  /\ child' = [child EXCEPT ![c] = "none"]
  /\ in' = [in EXCEPT ![c] = <<>>]
  /\ out' = [out EXCEPT ![c] = <<>>]

Give(c, p) ==
  /\ child[c] \in Answering
  /\ in' = [in EXCEPT ![c] = Append(@, p)]
  /\ UNCHANGED <<child, out>>

TakeFrom(c) ==
  /\ out[c] # <<>>
  /\ out' = [out EXCEPT ![c] = Tail(@)]
  /\ UNCHANGED <<child, in>>

AtEnd(c) == child[c] = "dead" /\ out[c] = <<>>

\* send_video_quality, send_video_codec (with force_zero_timestamps off).
Send(channel, shows) ==
  sent' = [channel |-> channel, stamp |-> picture, shows |-> shows]

-----------------------------------------------------------------------------
(***************************************************************************)
(* The capture is opened, with a transform or without (not needed, or it   *)
(* could not be spawned), by the worker that calls run_video_loop again    *)
(* and again while it runs.                                                *)
(***************************************************************************)
Open ==
  /\ pc = "closed" /\ running
  /\ pc' = "capture"
  /\ Spawn(Transform) \/ UNCHANGED children
  /\ UNCHANGED <<running, wanted, codec, mask, picture, payload, sent,
                 deaths>>

WorkerEnds ==
  /\ pc = "closed" /\ ~running
  /\ pc' = "ended"
  /\ UNCHANGED <<running, wanted, codec, mask, picture, payload, children,
                 sent, deaths>>

\* The flag is down, or a restart was asked for, or reads keep failing.
Leave ==
  /\ pc = "capture"
  /\ pc' = "close"
  /\ UNCHANGED <<running, wanted, codec, mask, picture, payload, children,
                 sent, deaths>>

NewPicture ==
  /\ pc = "capture" /\ running
  /\ picture' = (picture + 1) % Pictures
  /\ payload' = picture'

Capture ==
  /\ NewPicture
  /\ pc' = IF child[Transform] = "none" THEN "levels" ELSE "toTransform"
  /\ UNCHANGED <<running, wanted, codec, mask, children, sent, deaths>>

\* A picture that is too short for the transform, or not wanted.
SkipPicture ==
  /\ NewPicture
  /\ pc' = "capture"
  /\ UNCHANGED <<running, wanted, codec, mask, children, sent, deaths>>

ToTransform ==
  /\ pc = "toTransform"
  /\ pc' = "fromTransform"
  /\ Give(Transform, payload)
  /\ UNCHANGED <<running, wanted, codec, mask, picture, payload, sent,
                 deaths>>

FromTransform ==
  /\ pc = "fromTransform"
  /\ TakeFrom(Transform)
  /\ payload' = Head(out[Transform])
  /\ pc' = "levels"
  /\ UNCHANGED <<running, wanted, codec, mask, picture, sent, deaths>>

\* The write, or the read, fails: the capture is started again.
TransformFails ==
  /\ \/ pc = "toTransform" /\ child[Transform] = "dead"
     \/ pc = "fromTransform" /\ AtEnd(Transform)
  /\ pc' = "close"
  /\ UNCHANGED <<running, wanted, codec, mask, picture, payload, children,
                 sent, deaths>>

\* The levels that have receivers are encoded and sent by the loop itself,
\* one after the other, after it has read the mask for the codecs.
Levels ==
  /\ pc = "levels"
  /\ mask' = wanted
  /\ Send(Vmx, payload) \/ UNCHANGED sent
  /\ pc' = "gate" /\ codec' = 1
  /\ UNCHANGED <<running, wanted, picture, payload, children, deaths>>

-----------------------------------------------------------------------------
(***************************************************************************)
(* The block of each codec.                                                *)
(***************************************************************************)
AtCodec(c, place) == c \in CodecIds /\ codec = c /\ pc = place

NextCodec ==
  IF codec = Codecs
  THEN pc' = "capture" /\ UNCHANGED codec
  ELSE pc' = "gate" /\ codec' = codec + 1

\* No client: the encoder, if there is one, is dropped.
DropEncoder(c) ==
  /\ AtCodec(c, "gate") /\ c \notin mask
  /\ Kill(c)
  /\ NextCodec
  /\ UNCHANGED <<running, wanted, mask, picture, payload, sent, deaths>>

StartEncoder(c) ==
  /\ AtCodec(c, "gate") /\ c \in mask
  /\ child[c] = "none"
  /\ Spawn(c)
  /\ pc' = "write"
  /\ UNCHANGED <<running, wanted, codec, mask, picture, payload, sent,
                 deaths>>

StartFails(c) ==
  /\ AtCodec(c, "gate") /\ c \in mask
  /\ child[c] = "none"
  /\ NextCodec
  /\ UNCHANGED <<running, wanted, mask, picture, payload, children, sent,
                 deaths>>

\* An encoder that has died is still one.
HasEncoder(c) ==
  /\ AtCodec(c, "gate") /\ c \in mask
  /\ child[c] # "none"
  /\ pc' = "write"
  /\ UNCHANGED <<running, wanted, codec, mask, picture, payload, children,
                 sent, deaths>>

\* Mutant: the frame is not read.
WriteOnly(c) ==
  /\ AtCodec(c, "write")
  /\ Give(c, payload)
  /\ NextCodec
  /\ UNCHANGED <<running, wanted, mask, picture, payload, sent, deaths>>

WriteEncoder(c) ==
  /\ AtCodec(c, "write")
  /\ Give(c, payload)
  /\ pc' = "read"
  /\ UNCHANGED <<running, wanted, codec, mask, picture, payload, sent,
                 deaths>>

WriteFails(c) ==
  /\ AtCodec(c, "write") /\ child[c] = "dead"
  /\ NextCodec
  /\ UNCHANGED <<running, wanted, mask, picture, payload, children, sent,
                 deaths>>

\* Mutant: the frame of one codec ends the iteration.
ReadEncoderLast(c) ==
  /\ AtCodec(c, "read")
  /\ TakeFrom(c)
  /\ Send(c, Head(out[c]))
  /\ pc' = "capture"
  /\ UNCHANGED <<running, wanted, codec, mask, picture, payload, deaths>>

ReadEncoder(c) ==
  /\ AtCodec(c, "read")
  /\ TakeFrom(c)
  /\ Send(c, Head(out[c]))
  /\ NextCodec
  /\ UNCHANGED <<running, wanted, mask, picture, payload, deaths>>

\* Mutant: the loop does not wait for a frame that is not there yet.
ReadFailsOrEmpty(c) ==
  /\ AtCodec(c, "read") /\ out[c] = <<>>
  /\ NextCodec
  /\ UNCHANGED <<running, wanted, mask, picture, payload, children, sent,
                 deaths>>

\* Mutant: the end of the stream is taken for a pause.
ReadFailsNot(c) ==
  /\ AtCodec(c, "read") /\ AtEnd(c)
  /\ UNCHANGED vars

ReadFails(c) ==
  /\ AtCodec(c, "read") /\ AtEnd(c)
  /\ NextCodec
  /\ UNCHANGED <<running, wanted, mask, picture, payload, children, sent,
                 deaths>>

\* The transform is killed, the encoders are dropped with their variables.
Close ==
  /\ pc = "close"
  /\ pc' = "closed"
  /\ child' = [c \in Children |-> "none"]
  /\ in' = [c \in Children |-> <<>>]
  /\ out' = [c \in Children |-> <<>>]
  /\ UNCHANGED <<running, wanted, codec, mask, picture, payload, sent,
                 deaths>>

Encode(c) ==
  \/ DropEncoder(c) \/ StartEncoder(c) \/ StartFails(c) \/ HasEncoder(c)
  \/ WriteEncoder(c) \/ WriteFails(c) \/ ReadEncoder(c) \/ ReadFails(c)

Loop ==
  \/ Open \/ WorkerEnds \/ Leave \/ Capture \/ SkipPicture
  \/ ToTransform \/ FromTransform \/ TransformFails \/ Levels \/ Close
  \/ \E c \in CodecIds : Encode(c)

-----------------------------------------------------------------------------
(***************************************************************************)
(* Around the loop: clients come and go, stop is called, children work     *)
(* and die.  A child that dies may leave its last frame in the pipe, or a  *)
(* part of it, which reads like none.                                      *)
(***************************************************************************)
ClientsChange(c) ==
  /\ wanted' = IF c \in wanted THEN wanted \ {c} ELSE wanted \cup {c}
  /\ UNCHANGED <<running, loop, children, sent, deaths>>

StopCalled ==
  /\ running
  /\ running' = FALSE
  /\ UNCHANGED <<wanted, loop, children, sent, deaths>>

ChildAnswers(c) ==
  /\ \/ child[c] = "works" /\ Len(in[c]) > 0
     \/ child[c] = "delays" /\ Len(in[c]) > 1
  /\ in' = [in EXCEPT ![c] = Tail(@)]
  /\ out' = [out EXCEPT ![c] = Append(@, Head(in[c]))]
  /\ UNCHANGED <<running, wanted, loop, child, sent, deaths>>

ChildDies(c) ==
  /\ child[c] \in Answering
  /\ deaths < MaxDeaths
  /\ deaths' = deaths + 1
  /\ child' = [child EXCEPT ![c] = "dead"]
  /\ in' = [in EXCEPT ![c] = <<>>]
  /\ UNCHANGED out \/ out' = [out EXCEPT ![c] = <<>>]
  /\ UNCHANGED <<running, wanted, loop, sent>>

Next ==
  \/ Loop \/ StopCalled
  \/ \E c \in CodecIds : ClientsChange(c)
  \/ \E c \in Children : ChildAnswers(c) \/ ChildDies(c)

(***************************************************************************)
(* The thread is scheduled, and a child that can answer does.  A device    *)
(* that never gives a whole picture again, and an encoder that never       *)
(* starts, make every promise void.                                        *)
(***************************************************************************)
Fairness ==
  /\ WF_vars(Loop)
  /\ SF_vars(Capture)
  /\ \A c \in CodecIds : SF_vars(StartEncoder(c))
  /\ \A c \in Children : WF_vars(ChildAnswers(c))

Spec == Init /\ [][Next]_vars

FairSpec == Spec /\ Fairness

-----------------------------------------------------------------------------
PCs == {"closed", "ended", "capture", "toTransform", "fromTransform", "levels",
        "gate", "write", "read", "close"}

\* The loop and a child have at most one picture between them.
Pipe == {<<>>} \cup {<<p>> : p \in Stamps}

TypeOK ==
  /\ running \in BOOLEAN
  /\ wanted \subseteq CodecIds /\ mask \subseteq CodecIds
  /\ pc \in PCs /\ codec \in CodecIds
  /\ picture \in Stamps /\ payload \in Stamps
  /\ child \in [Children -> {"none", "dead"} \cup Answering]
  /\ in \in [Children -> Pipe] /\ out \in [Children -> Pipe]
  /\ sent \in [channel : {None, Vmx} \cup CodecIds, stamp : Stamps,
               shows : Stamps]
  /\ deaths \in 0..MaxDeaths

(***************************************************************************)
(* A compressed frame carries the time stamp of the picture that it shows  *)
(* (video_pipeline.rs:1706, 1838, 1880, 1925), though children die with    *)
(* pictures and frames in their pipes, pictures are skipped, encoders are  *)
(* dropped and started again, and a child may want a second picture first. *)
(***************************************************************************)
StampedRight == sent.stamp = sent.shows

\* A child that keeps its first picture until it has another.
HeldUp == \E c \in Children : child[c] = "delays"

(***************************************************************************)
(* After stop the worker ends, and no child is left (:1999-2010 and the    *)
(* Drop of HwEncoderContext), though children die while it waits for them. *)
(* A child that wants a second picture keeps the loop in read_frame        *)
(* (:1879) or read_exact (:1744), where running is not tested.             *)
(***************************************************************************)
LoopEnds ==
  ~running ~>
    \/ HeldUp
    \/ pc = "ended" /\ \A c \in Children : child[c] = "none"

(***************************************************************************)
(* "created on demand when clients request them" (:1614): a codec that has *)
(* a client gets a frame of it, as long as the client waits, no child is   *)
(* held up, and its encoder has not died: one that died stays in place     *)
(* until the loop sees a picture without clients.                          *)
(***************************************************************************)
RequestServed ==
  \A c \in CodecIds :
    (c \in wanted /\ running) ~>
      \/ sent.channel = c
      \/ c \notin wanted \/ ~running
      \/ HeldUp \/ child[c] = "dead"

=============================================================================
