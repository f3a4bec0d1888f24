--------------------------- MODULE EncodersProofs ---------------------------
(***************************************************************************)
(* Time stamps and frames stay together: for any number of codecs,         *)
(* pictures and children that die.  The stamp travels beside the pipes, in *)
(* a variable of the loop; the frame is the right one because every pipe   *)
(* is empty again before the loop takes the next picture.                  *)
(***************************************************************************)
EXTENDS Encoders, TLAPS

\* The child the loop has given a picture to and waits for.
Busy(c) ==
  \/ pc = "fromTransform" /\ c = Transform
  \/ pc = "read" /\ c = codec

\* The pipes of that child hold the picture, on its way in or out, or nothing
\* if the child has died; all other pipes are empty.
PipesOf(c) ==
  \/ in[c] = <<>> /\ out[c] = <<>>
  \/ Busy(c) /\ in[c] = <<picture>> /\ out[c] = <<>>
  \/ Busy(c) /\ in[c] = <<>> /\ out[c] = <<picture>>

Lockstep ==
  /\ payload = picture
  /\ \A c \in Children : PipesOf(c)

LoopTyped ==
  /\ wanted \subseteq CodecIds /\ mask \subseteq CodecIds
  /\ pc \in PCs /\ codec \in CodecIds
  /\ picture \in Stamps /\ payload \in Stamps

ChildrenTyped ==
  /\ child \in [Children -> {"none", "dead"} \cup Answering]
  /\ in \in [Children -> Pipe] /\ out \in [Children -> Pipe]

DeadReadsNothing == \A c \in Children : child[c] = "dead" => in[c] = <<>>

SentTyped ==
  sent \in [channel : {None, Vmx} \cup CodecIds, stamp : Stamps,
            shows : Stamps]

IInv ==
  /\ LoopTyped /\ ChildrenTyped /\ SentTyped /\ DeadReadsNothing
  /\ Lockstep /\ StampedRight

LEMMA Constants ==
  Codecs \in Nat \ {0} /\ Pictures \in Nat \ {0, 1} /\ MaxDeaths \in Nat
BY CodecsAssumption, PicturesAssumption, DeathsAssumption

LEMMA InitIInv == Init => IInv
<1> SUFFICES ASSUME Init PROVE IInv
  OBVIOUS
<1> USE Constants DEF Init
<1>1. LoopTyped
  BY DEF LoopTyped, CodecIds, PCs, Stamps
<1>2. ChildrenTyped /\ DeadReadsNothing
  BY DEF ChildrenTyped, DeadReadsNothing, Pipe
<1>3. SentTyped /\ StampedRight
  BY DEF SentTyped, StampedRight, Nothing, Stamps, CodecIds
<1>4. Lockstep
  BY DEF Lockstep, PipesOf, Children
<1>5. QED
  BY <1>1, <1>2, <1>3, <1>4 DEF IInv

(***************************************************************************)
(* Steps on one child, from pipes that are empty.                          *)
(***************************************************************************)
LEMMA FreshPipes ==
  ASSUME ChildrenTyped, DeadReadsNothing, NEW c \in Children,
         Spawn(c) \/ Kill(c)
  PROVE  /\ ChildrenTyped' /\ DeadReadsNothing'
         /\ in'[c] = <<>> /\ out'[c] = <<>>
         /\ \A d \in Children \ {c} : in'[d] = in[d] /\ out'[d] = out[d]
BY DEF ChildrenTyped, DeadReadsNothing, Spawn, Kill, Pipe, Answering

LEMMA GivesPicture ==
  ASSUME ChildrenTyped, DeadReadsNothing, NEW c \in Children,
         NEW p \in Stamps, in[c] = <<>>, Give(c, p)
  PROVE  /\ ChildrenTyped' /\ DeadReadsNothing'
         /\ in'[c] = <<p>> /\ out'[c] = out[c]
         /\ \A d \in Children \ {c} : in'[d] = in[d] /\ out'[d] = out[d]
<1>1. Append(in[c], p) = <<p>>
  OBVIOUS
<1>2. in' = [in EXCEPT ![c] = <<p>>] /\ UNCHANGED <<child, out>>
  BY <1>1 DEF Give
<1>3. QED
  BY <1>2 DEF ChildrenTyped, DeadReadsNothing, Pipe, Give, Answering

LEMMA TakesPicture ==
  ASSUME ChildrenTyped, DeadReadsNothing, NEW c \in Children,
         NEW p \in Stamps, out[c] = <<p>>, TakeFrom(c)
  PROVE  /\ ChildrenTyped' /\ DeadReadsNothing'
         /\ in'[c] = in[c] /\ out'[c] = <<>>
         /\ \A d \in Children \ {c} : in'[d] = in[d] /\ out'[d] = out[d]
<1>1. Tail(out[c]) = <<>>
  OBVIOUS
<1>2. out' = [out EXCEPT ![c] = <<>>] /\ UNCHANGED <<child, in>>
  BY <1>1 DEF TakeFrom
<1>3. QED
  BY <1>2 DEF ChildrenTyped, DeadReadsNothing, Pipe

(***************************************************************************)
(* Where the loop waits for no child, all pipes are empty.                 *)
(***************************************************************************)
LEMMA NothingUnderWay ==
  ASSUME Lockstep, \A c \in Children : ~Busy(c)
  PROVE  \A c \in Children : in[c] = <<>> /\ out[c] = <<>>
BY DEF Lockstep, PipesOf

LEMMA PicturesAreStamps == \A n \in Stamps : (n + 1) % Pictures \in Stamps
BY Constants DEF Stamps

LEMMA NextCodecTyped ==
  ASSUME codec \in CodecIds, NextCodec
  PROVE  codec' \in CodecIds /\ pc' \in {"capture", "gate"}
BY Constants DEF NextCodec, CodecIds

(***************************************************************************)
(* The steps of the loop that leave the children and what was sent alone.  *)
(***************************************************************************)
QuietStep ==
  \/ WorkerEnds \/ Leave \/ Capture \/ SkipPicture \/ TransformFails
  \/ \E c \in CodecIds :
       StartFails(c) \/ HasEncoder(c) \/ WriteFails(c) \/ ReadFails(c)

LEMMA QuietStepKeepsIInv ==
  ASSUME IInv, QuietStep PROVE IInv'
<1> USE DEF IInv
<1>1. UNCHANGED children /\ UNCHANGED sent
  BY DEF QuietStep, WorkerEnds, Leave, Capture, SkipPicture, TransformFails,
     StartFails, HasEncoder, WriteFails, ReadFails
<1>2. ChildrenTyped' /\ DeadReadsNothing' /\ SentTyped' /\ StampedRight'
  BY <1>1 DEF children, ChildrenTyped, DeadReadsNothing, SentTyped,
     StampedRight
<1>3. LoopTyped'
  <2>1. CASE Capture \/ SkipPicture
    BY <2>1, PicturesAreStamps
       DEF Capture, SkipPicture, NewPicture, LoopTyped, PCs
  <2>2. CASE WorkerEnds \/ Leave \/ TransformFails
    BY <2>2 DEF WorkerEnds, Leave, TransformFails, LoopTyped, PCs
  <2>3. ASSUME NEW c \in CodecIds,
               StartFails(c) \/ HasEncoder(c) \/ WriteFails(c) \/ ReadFails(c)
        PROVE  LoopTyped'
    <3>1. codec' \in CodecIds /\ pc' \in PCs
      BY <2>3, NextCodecTyped DEF StartFails, HasEncoder, WriteFails,
         ReadFails, LoopTyped, PCs
    <3>2. UNCHANGED <<wanted, mask, picture, payload>>
      BY <2>3 DEF StartFails, HasEncoder, WriteFails, ReadFails
    <3>3. QED
      BY <3>1, <3>2 DEF LoopTyped
  <2>4. QED
    BY <2>1, <2>2, <2>3 DEF QuietStep
<1>4. \A c \in Children : in[c] = <<>> /\ out[c] = <<>>
  <2>1. CASE TransformFails /\ pc = "fromTransform"
    <3>1. in[Transform] = <<>> /\ out[Transform] = <<>>
      BY <2>1, Constants
         DEF TransformFails, AtEnd, DeadReadsNothing, Children, Transform
    <3>2. \A c \in Children \ {Transform} : ~Busy(c)
      BY <2>1 DEF Busy
    <3>3. QED
      BY <3>1, <3>2 DEF Lockstep, PipesOf
  <2>2. ASSUME NEW c \in CodecIds, ReadFails(c)
        PROVE  \A d \in Children : in[d] = <<>> /\ out[d] = <<>>
    <3>1. in[c] = <<>> /\ out[c] = <<>> /\ pc = "read" /\ codec = c
      BY <2>2, Constants
         DEF ReadFails, AtCodec, AtEnd, DeadReadsNothing, Children, CodecIds
    <3>2. \A d \in Children \ {c} : ~Busy(d)
      BY <3>1 DEF Busy
    <3>3. QED
      BY <3>1, <3>2 DEF Lockstep, PipesOf
  <2>3. CASE pc \notin {"fromTransform", "read"}
    BY <2>3, NothingUnderWay DEF Busy
  <2>4. QED
    BY <2>1, <2>2, <2>3 DEF QuietStep, WorkerEnds, Leave, Capture,
       SkipPicture, NewPicture, TransformFails, StartFails, HasEncoder,
       WriteFails, AtCodec
<1>5. payload' = picture'
  BY DEF QuietStep, WorkerEnds, Leave, Capture, SkipPicture, NewPicture,
     TransformFails, StartFails, HasEncoder, WriteFails, ReadFails, Lockstep
<1>6. Lockstep'
  BY <1>1, <1>4, <1>5 DEF Lockstep, PipesOf, children
<1>7. QED
  BY <1>2, <1>3, <1>6

(***************************************************************************)
(* The steps of the loop on one child.                                     *)
(***************************************************************************)
LEMMA SpawnOrKillKeepsIInv ==
  ASSUME IInv, NEW c \in Children, Spawn(c) \/ Kill(c),
         \A d \in Children : ~Busy(d),
         LoopTyped', UNCHANGED <<picture, payload, sent>>
  PROVE  IInv'
<1> USE DEF IInv
<1>1. ChildrenTyped' /\ DeadReadsNothing'
  BY FreshPipes
<1>2. \A d \in Children : in'[d] = <<>> /\ out'[d] = <<>>
  BY FreshPipes, NothingUnderWay
<1>3. Lockstep'
  BY <1>2 DEF Lockstep, PipesOf
<1>4. SentTyped' /\ StampedRight'
  BY DEF SentTyped, StampedRight
<1>5. QED
  BY <1>1, <1>3, <1>4

LEMMA GiveKeepsIInv ==
  ASSUME IInv, NEW c \in Children, Give(c, payload),
         \A d \in Children : ~Busy(d), Busy(c)',
         LoopTyped', UNCHANGED <<picture, payload, sent>>
  PROVE  IInv'
<1> USE DEF IInv
<1>1. \A d \in Children : in[d] = <<>> /\ out[d] = <<>>
  BY NothingUnderWay
<1>2. payload = picture /\ payload \in Stamps
  BY DEF Lockstep, LoopTyped
<1>3. /\ ChildrenTyped' /\ DeadReadsNothing'
      /\ in'[c] = <<picture>> /\ out'[c] = <<>>
      /\ \A d \in Children \ {c} : in'[d] = in[d] /\ out'[d] = out[d]
  BY <1>1, <1>2, GivesPicture
<1>4. PipesOf(c)'
  BY <1>3 DEF PipesOf
<1>5. \A d \in Children \ {c} : PipesOf(d)'
  BY <1>1, <1>3 DEF PipesOf
<1>6. Lockstep'
  BY <1>2, <1>4, <1>5 DEF Lockstep
<1>7. SentTyped' /\ StampedRight'
  BY DEF SentTyped, StampedRight
<1>8. QED
  BY <1>3, <1>6, <1>7

\* What the loop reads from a child is the picture it gave to it.
LEMMA ReadsPicture ==
  ASSUME IInv, NEW c \in Children, Busy(c), TakeFrom(c)
  PROVE  /\ Head(out[c]) = picture
         /\ ChildrenTyped' /\ DeadReadsNothing'
         /\ \A d \in Children : in'[d] = <<>> /\ out'[d] = <<>>
<1> USE DEF IInv
<1>1. in[c] = <<>> /\ out[c] = <<picture>>
  BY DEF Lockstep, PipesOf, TakeFrom
<1>2. \A d \in Children \ {c} : ~Busy(d)
  BY Constants DEF Busy
<1>3. \A d \in Children \ {c} : in[d] = <<>> /\ out[d] = <<>>
  BY <1>2 DEF Lockstep, PipesOf
<1>4. picture \in Stamps
  BY DEF LoopTyped
<1>5. /\ ChildrenTyped' /\ DeadReadsNothing'
      /\ in'[c] = in[c] /\ out'[c] = <<>>
      /\ \A d \in Children \ {c} : in'[d] = in[d] /\ out'[d] = out[d]
  BY <1>1, <1>4, TakesPicture
<1>6. Head(out[c]) = picture
  BY <1>1
<1>7. QED
  BY <1>1, <1>3, <1>5, <1>6

LEMMA LoopKeepsIInv == ASSUME IInv, Loop PROVE IInv'
<1> USE DEF IInv
<1>1. CASE QuietStep
  BY <1>1, QuietStepKeepsIInv
<1>2. CASE Open
  <2>1. /\ \A d \in Children : ~Busy(d)
        /\ LoopTyped' /\ UNCHANGED <<picture, payload, sent>>
    BY <1>2 DEF Open, Busy, LoopTyped, PCs
  <2>2. CASE Spawn(Transform)
    BY <2>1, <2>2, SpawnOrKillKeepsIInv, Constants DEF Children, Transform
  <2>3. CASE UNCHANGED children
    <3>1. \A d \in Children : in'[d] = <<>> /\ out'[d] = <<>>
      BY <2>1, <2>3, NothingUnderWay DEF children
    <3>2. Lockstep'
      BY <2>1, <3>1 DEF Lockstep, PipesOf
    <3>3. QED
      BY <2>1, <2>3, <3>2 DEF children, ChildrenTyped, DeadReadsNothing,
         SentTyped, StampedRight
  <2>4. QED
    BY <1>2, <2>2, <2>3 DEF Open
<1>3. CASE ToTransform
  <2>1. /\ \A d \in Children : ~Busy(d)
        /\ LoopTyped' /\ UNCHANGED <<picture, payload, sent>>
        /\ Busy(Transform)' /\ Give(Transform, payload)
    BY <1>3 DEF ToTransform, Busy, LoopTyped, PCs
  <2>2. Transform \in Children
    BY Constants DEF Children, Transform
  <2>3. QED
    BY <2>1, <2>2, GiveKeepsIInv
<1>4. CASE FromTransform
  <2>1. Transform \in Children /\ Busy(Transform) /\ TakeFrom(Transform)
    BY <1>4, Constants DEF Children, Transform, Busy, FromTransform
  <2>2. /\ Head(out[Transform]) = picture
        /\ ChildrenTyped' /\ DeadReadsNothing'
        /\ \A d \in Children : in'[d] = <<>> /\ out'[d] = <<>>
    BY <2>1, ReadsPicture
  <2>3. payload' = picture /\ UNCHANGED <<picture, sent>>
    BY <1>4, <2>2 DEF FromTransform
  <2>4. LoopTyped'
    BY <1>4, <2>3 DEF FromTransform, LoopTyped, PCs
  <2>5. Lockstep'
    BY <2>2, <2>3 DEF Lockstep, PipesOf
  <2>6. QED
    BY <2>2, <2>3, <2>4, <2>5 DEF SentTyped, StampedRight
<1>5. CASE Levels
  <2>1. /\ \A d \in Children : ~Busy(d)
        /\ UNCHANGED <<picture, payload, children>>
    BY <1>5 DEF Levels, Busy
  <2>2. LoopTyped'
    BY <1>5, Constants DEF Levels, LoopTyped, PCs, CodecIds
  <2>3. ChildrenTyped' /\ DeadReadsNothing'
    BY <2>1 DEF children, ChildrenTyped, DeadReadsNothing
  <2>4. \A d \in Children : in'[d] = <<>> /\ out'[d] = <<>>
    BY <2>1, NothingUnderWay DEF children
  <2>5. Lockstep'
    BY <2>1, <2>4 DEF Lockstep, PipesOf
  <2>6. SentTyped' /\ StampedRight'
    BY <1>5 DEF Levels, Send, SentTyped, StampedRight, Lockstep, LoopTyped
  <2>7. QED
    BY <2>2, <2>3, <2>5, <2>6
<1>6. ASSUME NEW c \in CodecIds, DropEncoder(c) \/ StartEncoder(c)
      PROVE  IInv'
  <2>1. /\ \A d \in Children : ~Busy(d)
        /\ UNCHANGED <<wanted, mask, picture, payload, sent>>
        /\ Spawn(c) \/ Kill(c)
    BY <1>6 DEF DropEncoder, StartEncoder, AtCodec, Busy
  <2>2. codec' \in CodecIds /\ pc' \in PCs
    BY <1>6, NextCodecTyped DEF DropEncoder, StartEncoder, LoopTyped, PCs
  <2>3. LoopTyped'
    BY <2>1, <2>2 DEF LoopTyped
  <2>4. c \in Children
    BY Constants DEF CodecIds, Children
  <2>5. QED
    BY <2>1, <2>3, <2>4, SpawnOrKillKeepsIInv
<1>7. ASSUME NEW c \in CodecIds, WriteEncoder(c) PROVE IInv'
  <2>1. /\ \A d \in Children : ~Busy(d)
        /\ LoopTyped' /\ UNCHANGED <<picture, payload, sent>>
        /\ Busy(c)' /\ Give(c, payload)
    BY <1>7 DEF WriteEncoder, AtCodec, Busy, LoopTyped, PCs
  <2>2. c \in Children
    BY Constants DEF CodecIds, Children
  <2>3. QED
    BY <2>1, <2>2, GiveKeepsIInv
<1>8. ASSUME NEW c \in CodecIds, ReadEncoder(c) PROVE IInv'
  <2>1. c \in Children /\ Busy(c) /\ TakeFrom(c)
    BY <1>8, Constants DEF CodecIds, Children, Busy, ReadEncoder, AtCodec
  <2>2. /\ Head(out[c]) = picture
        /\ ChildrenTyped' /\ DeadReadsNothing'
        /\ \A d \in Children : in'[d] = <<>> /\ out'[d] = <<>>
    BY <2>1, ReadsPicture
  <2>3. UNCHANGED <<wanted, mask, picture, payload>>
    BY <1>8 DEF ReadEncoder
  <2>4. codec' \in CodecIds /\ pc' \in PCs
    BY <1>8, NextCodecTyped DEF ReadEncoder, LoopTyped, PCs
  <2>5. LoopTyped'
    BY <2>3, <2>4 DEF LoopTyped
  <2>6. Lockstep'
    BY <2>2, <2>3 DEF Lockstep, PipesOf
  <2>7. sent' = [channel |-> c, stamp |-> picture, shows |-> picture]
    BY <1>8, <2>2 DEF ReadEncoder, Send
  <2>8. SentTyped' /\ StampedRight'
    BY <2>7 DEF SentTyped, StampedRight, LoopTyped
  <2>9. QED
    BY <2>2, <2>5, <2>6, <2>8
<1>9. CASE Close
  <2>1. LoopTyped' /\ UNCHANGED <<picture, payload, sent>>
    BY <1>9 DEF Close, LoopTyped, PCs
  <2>2. /\ ChildrenTyped' /\ DeadReadsNothing'
        /\ \A d \in Children : in'[d] = <<>> /\ out'[d] = <<>>
    BY <1>9 DEF Close, ChildrenTyped, DeadReadsNothing, Pipe
  <2>3. Lockstep'
    BY <2>1, <2>2 DEF Lockstep, PipesOf
  <2>4. QED
    BY <2>1, <2>2, <2>3 DEF SentTyped, StampedRight
<1>10. QED
  BY <1>1, <1>2, <1>3, <1>4, <1>5, <1>6, <1>7, <1>8, <1>9
     DEF Loop, Encode, QuietStep

(***************************************************************************)
(* The steps of the children.                                              *)
(***************************************************************************)
LEMMA AnswerKeepsIInv ==
  ASSUME IInv, NEW c \in Children, ChildAnswers(c) PROVE IInv'
<1> USE DEF IInv
<1>1. in[c] # <<>> /\ UNCHANGED <<loop, wanted, child, sent>>
  BY DEF ChildAnswers
<1>2. Busy(c) /\ in[c] = <<picture>> /\ out[c] = <<>>
  BY <1>1 DEF Lockstep, PipesOf
<1>3. Tail(in[c]) = <<>> /\ Append(out[c], Head(in[c])) = <<picture>>
  BY <1>2
<1>4. /\ in' = [in EXCEPT ![c] = <<>>]
      /\ out' = [out EXCEPT ![c] = <<picture>>]
  BY <1>3 DEF ChildAnswers
<1>5. ChildrenTyped' /\ DeadReadsNothing'
  BY <1>1, <1>4 DEF ChildrenTyped, DeadReadsNothing, LoopTyped, Pipe
<1>6. PipesOf(c)'
  BY <1>1, <1>2, <1>4 DEF PipesOf, Busy, loop, ChildrenTyped
<1>7. \A d \in Children \ {c} : PipesOf(d)'
  BY <1>1, <1>4 DEF PipesOf, Busy, loop, ChildrenTyped, Lockstep
<1>8. Lockstep'
  BY <1>1, <1>6, <1>7 DEF Lockstep, loop
<1>9. LoopTyped' /\ SentTyped' /\ StampedRight'
  BY <1>1 DEF LoopTyped, SentTyped, StampedRight, loop
<1>10. QED
  BY <1>5, <1>8, <1>9

LEMMA DeathKeepsIInv ==
  ASSUME IInv, NEW c \in Children, ChildDies(c) PROVE IInv'
<1> USE DEF IInv
<1>1. /\ child' = [child EXCEPT ![c] = "dead"]
      /\ in' = [in EXCEPT ![c] = <<>>]
      /\ UNCHANGED <<loop, wanted, sent>>
  BY DEF ChildDies
<1>2. UNCHANGED out \/ out' = [out EXCEPT ![c] = <<>>]
  BY DEF ChildDies
<1>3. ChildrenTyped' /\ DeadReadsNothing'
  BY <1>1, <1>2 DEF ChildrenTyped, DeadReadsNothing, Pipe
<1>4. PipesOf(c)'
  BY <1>1, <1>2 DEF PipesOf, Busy, loop, ChildrenTyped, Lockstep
<1>5. \A d \in Children \ {c} : PipesOf(d)'
  BY <1>1, <1>2 DEF PipesOf, Busy, loop, ChildrenTyped, Lockstep
<1>6. Lockstep'
  BY <1>1, <1>4, <1>5 DEF Lockstep, loop
<1>7. LoopTyped' /\ SentTyped' /\ StampedRight'
  BY <1>1 DEF LoopTyped, SentTyped, StampedRight, loop
<1>8. QED
  BY <1>3, <1>6, <1>7

LEMMA NextKeepsIInv == IInv /\ [Next]_vars => IInv'
<1> SUFFICES ASSUME IInv, [Next]_vars PROVE IInv'
  OBVIOUS
<1>1. CASE Loop
  BY <1>1, LoopKeepsIInv
<1>2. CASE StopCalled \/ UNCHANGED vars
  BY <1>2 DEF StopCalled, vars, loop, children, IInv, LoopTyped,
     ChildrenTyped, SentTyped, DeadReadsNothing, Lockstep, PipesOf, Busy,
     StampedRight
<1>3. ASSUME NEW c \in CodecIds, ClientsChange(c) PROVE IInv'
  <2>1. wanted' \subseteq CodecIds
    BY <1>3 DEF ClientsChange, IInv, LoopTyped
  <2>2. UNCHANGED <<loop, children, sent>>
    BY <1>3 DEF ClientsChange
  <2>3. QED
    BY <2>1, <2>2 DEF loop, children, IInv, LoopTyped, ChildrenTyped,
       SentTyped, DeadReadsNothing, Lockstep, PipesOf, Busy, StampedRight
<1>4. ASSUME NEW c \in Children, ChildAnswers(c) \/ ChildDies(c)
      PROVE  IInv'
  BY <1>4, AnswerKeepsIInv, DeathKeepsIInv
<1>5. QED
  BY <1>1, <1>2, <1>3, <1>4 DEF Next

LEMMA Invariance == Spec => []IInv
BY InitIInv, NextKeepsIInv, PTL DEF Spec

(***************************************************************************)
(* A compressed frame carries the time stamp of the picture that it shows  *)
(* (video_pipeline.rs:1706, 1838, 1880, 1925), whatever the children do.   *)
(***************************************************************************)
THEOREM FramesStampedRight == Spec => []StampedRight
<1>1. IInv => StampedRight
  BY DEF IInv
<1>2. QED
  BY <1>1, Invariance, PTL

(***************************************************************************)
(* Types; the pipe of a child never holds more than one picture.           *)
(***************************************************************************)
THEOREM TypeCorrect == Spec => []TypeOK
<1> DEFINE Others == running \in BOOLEAN /\ deaths \in 0..MaxDeaths
<1>1. Init => Others
  BY Constants DEF Init
<1>2. Others /\ [Next]_vars => Others'
  <2> SUFFICES ASSUME Others, [Next]_vars PROVE Others'
    OBVIOUS
  <2>1. CASE Loop
    BY <2>1 DEF Loop, Encode, Open, WorkerEnds, Leave, Capture, SkipPicture,
       ToTransform, FromTransform, TransformFails, Levels, Close, DropEncoder,
       StartEncoder, StartFails, HasEncoder, WriteEncoder, WriteFails,
       ReadEncoder, ReadFails
  <2>2. CASE StopCalled \/ UNCHANGED vars
    BY <2>2 DEF StopCalled, vars
  <2>3. ASSUME NEW c \in CodecIds, ClientsChange(c) PROVE Others'
    BY <2>3 DEF ClientsChange
  <2>4. ASSUME NEW c \in Children, ChildAnswers(c) PROVE Others'
    BY <2>4 DEF ChildAnswers
  <2>5. ASSUME NEW c \in Children, ChildDies(c) PROVE Others'
    BY <2>5, Constants DEF ChildDies
  <2>6. QED
    BY <2>1, <2>2, <2>3, <2>4, <2>5 DEF Next
<1>3. IInv /\ Others => TypeOK
  BY DEF IInv, LoopTyped, ChildrenTyped, SentTyped, TypeOK
<1>4. QED
  BY <1>1, <1>2, <1>3, Invariance, PTL DEF Spec

-----------------------------------------------------------------------------
(***************************************************************************)
(* Who waits, and what is left.  In a step of the loop the child it is     *)
(* about to write to, or reads from, is there; while it lives and the loop *)
(* waits for it, it has the picture, or the frame is in its pipe.          *)
(***************************************************************************)
Addressed(c) ==
  \/ pc \in {"toTransform", "fromTransform"} /\ c = Transform
  \/ pc \in {"write", "read"} /\ c = codec

Attended ==
  \A c \in Children :
    /\ Addressed(c) => child[c] # "none"
    /\ Busy(c) /\ child[c] \in Answering => in[c] # <<>> \/ out[c] # <<>>

NoOrphans == pc \in {"closed", "ended"} => \A c \in Children : child[c] = "none"

WaitInv == Attended /\ NoOrphans

\* Steps of the loop after which it waits for no child, and leaves them alone.
LEMMA LeavesChildrenAlone ==
  ASSUME WaitInv, UNCHANGED children,
         \A c \in Children : ~Addressed(c)', pc' \notin {"closed", "ended"}
  PROVE  WaitInv'
BY DEF WaitInv, Attended, NoOrphans, Busy, Addressed

LEMMA LoopWaits == ASSUME IInv, WaitInv, Loop PROVE WaitInv'
<1> USE Constants DEF IInv
<1>1. CASE Leave \/ SkipPicture \/ TransformFails \/ Levels
  BY <1>1, LeavesChildrenAlone
     DEF Leave, SkipPicture, TransformFails, Levels, Addressed
<1>2. CASE Open
  <2>1. pc' = "capture"
    BY <1>2 DEF Open
  <2>2. QED
    BY <2>1 DEF WaitInv, Attended, NoOrphans, Busy, Addressed
<1>3. CASE WorkerEnds
  BY <1>3 DEF WorkerEnds, children, WaitInv, Attended, NoOrphans, Busy, Addressed
<1>4. CASE Capture
  <2>1. /\ UNCHANGED children
        /\ pc' = IF child[Transform] = "none" THEN "levels" ELSE "toTransform"
    BY <1>4 DEF Capture
  <2>2. QED
    BY <2>1 DEF children, WaitInv, Attended, NoOrphans, Busy, Addressed
<1>5. CASE ToTransform
  <2>1. /\ pc' = "fromTransform" /\ Transform \in Children
        /\ Give(Transform, payload) /\ child' = child
        /\ \A d \in Children : ~Busy(d)
    BY <1>5 DEF ToTransform, Give, Children, Transform, Busy
  <2>2. in'[Transform] # <<>>
    <3>1. in'[Transform] = <<payload>>
      BY <2>1, GivesPicture, NothingUnderWay DEF LoopTyped
    <3>2. QED
      BY <3>1
  <2>3. child'[Transform] # "none"
    BY <2>1 DEF Give, Answering
  <2>4. QED
    BY <2>1, <2>2, <2>3 DEF WaitInv, Attended, NoOrphans, Busy, Addressed
<1>6. CASE FromTransform
  <2>1. pc' = "levels"
    BY <1>6 DEF FromTransform
  <2>2. QED
    BY <2>1 DEF WaitInv, Attended, NoOrphans, Busy, Addressed
<1>7. CASE Close
  <2>1. pc' = "closed" /\ \A c \in Children : child'[c] = "none"
    BY <1>7 DEF Close
  <2>2. QED
    BY <2>1 DEF WaitInv, Attended, NoOrphans, Busy, Addressed
<1>8. ASSUME NEW c \in CodecIds, Encode(c) PROVE WaitInv'
  <2>1. c \in Children /\ codec \in CodecIds
    BY DEF CodecIds, Children, LoopTyped
  <2>2. CASE \/ DropEncoder(c) \/ StartFails(c) \/ WriteFails(c)
             \/ ReadEncoder(c) \/ ReadFails(c)
    <3>1. pc' \in {"capture", "gate"}
      BY <2>1, <2>2, NextCodecTyped
         DEF DropEncoder, StartFails, WriteFails, ReadEncoder, ReadFails
    <3>2. QED
      BY <3>1 DEF WaitInv, Attended, NoOrphans, Busy, Addressed
  <2>3. CASE StartEncoder(c)
    <3>1. pc' = "write" /\ codec' = c /\ Spawn(c)
      BY <2>3 DEF StartEncoder, AtCodec
    <3>2. child'[c] \in Answering
      BY <2>1, <3>1 DEF Spawn, ChildrenTyped
    <3>3. QED
      BY <2>1, <3>1, <3>2
         DEF WaitInv, Attended, NoOrphans, Busy, Addressed, Answering
  <2>4. CASE HasEncoder(c)
    <3>1. pc' = "write" /\ codec' = c /\ child'[c] # "none"
      BY <2>4 DEF HasEncoder, AtCodec, children
    <3>2. QED
      BY <2>1, <3>1 DEF WaitInv, Attended, NoOrphans, Busy, Addressed
  <2>5. CASE WriteEncoder(c)
    <3>1. /\ pc' = "read" /\ codec' = c
          /\ Give(c, payload) /\ child' = child
          /\ \A d \in Children : ~Busy(d)
      BY <2>5 DEF WriteEncoder, AtCodec, Give, Busy
    <3>2. in'[c] # <<>>
      <4>1. in'[c] = <<payload>>
        BY <2>1, <3>1, GivesPicture, NothingUnderWay DEF LoopTyped
      <4>2. QED
        BY <4>1
    <3>3. child'[c] # "none"
      BY <3>1 DEF Give, Answering
    <3>4. QED
      BY <2>1, <3>1, <3>2, <3>3
         DEF WaitInv, Attended, NoOrphans, Busy, Addressed
  <2>6. QED
    BY <1>8, <2>2, <2>3, <2>4, <2>5 DEF Encode
<1>9. QED
  BY <1>1, <1>2, <1>3, <1>4, <1>5, <1>6, <1>7, <1>8 DEF Loop

LEMMA WaitStep == IInv /\ WaitInv /\ [Next]_vars => WaitInv'
<1> SUFFICES ASSUME IInv, WaitInv, [Next]_vars PROVE WaitInv'
  OBVIOUS
<1>1. CASE Loop
  BY <1>1, LoopWaits
<1>2. ASSUME UNCHANGED <<loop, children>> PROVE WaitInv'
  BY <1>2 DEF loop, children, WaitInv, Attended, NoOrphans, Busy, Addressed
<1>3. CASE StopCalled \/ UNCHANGED vars
  BY <1>2, <1>3 DEF StopCalled, vars
<1>4. ASSUME NEW c \in CodecIds, ClientsChange(c) PROVE WaitInv'
  BY <1>2, <1>4 DEF ClientsChange
<1>5. ASSUME NEW c \in Children, ChildAnswers(c) PROVE WaitInv'
  <2>1. /\ UNCHANGED <<loop, child>>
        /\ in' = [in EXCEPT ![c] = Tail(@)]
        /\ out' = [out EXCEPT ![c] = Append(@, Head(in[c]))]
    BY <1>5 DEF ChildAnswers
  <2>2. in[c] # <<>>
    BY <1>5 DEF ChildAnswers
  <2>3. Append(out[c], Head(in[c])) # <<>>
    <3>1. Busy(c) /\ in[c] = <<picture>> /\ out[c] = <<>>
      BY <2>2 DEF IInv, Lockstep, PipesOf
    <3>2. QED
      BY <3>1
  <2>4. \A d \in Children :
          out'[d] # <<>> \/ (in'[d] = in[d] /\ out'[d] = out[d])
    BY <2>1, <2>3 DEF IInv, ChildrenTyped
  <2>5. QED
    BY <2>1, <2>4 DEF loop, WaitInv, Attended, NoOrphans, Busy, Addressed
<1>6. ASSUME NEW c \in Children, ChildDies(c) PROVE WaitInv'
  <2>1. /\ UNCHANGED loop /\ child[c] \in Answering
        /\ child' = [child EXCEPT ![c] = "dead"]
        /\ \A d \in Children \ {c} : in'[d] = in[d] /\ out'[d] = out[d]
    BY <1>6 DEF ChildDies, IInv, ChildrenTyped
  <2>2. \A d \in Children \ {c} : child'[d] = child[d]
    BY <2>1 DEF IInv, ChildrenTyped
  <2>3. child'[c] = "dead" /\ child[c] # "none"
    BY <2>1 DEF IInv, ChildrenTyped, Answering
  <2>4. QED
    BY <2>1, <2>2, <2>3
       DEF loop, WaitInv, Attended, NoOrphans, Busy, Addressed, Answering
<1>7. QED
  BY <1>1, <1>3, <1>4, <1>5, <1>6 DEF Next

LEMMA WaitInit == Init => WaitInv
BY DEF Init, WaitInv, Attended, NoOrphans, Busy, Addressed, Children

LEMMA WaitInvariance == Spec => []WaitInv
BY InitIInv, NextKeepsIInv, WaitInit, WaitStep, PTL DEF Spec

(***************************************************************************)
(* The loop never waits in vain in read_frame (:1879) or read_exact        *)
(* (:1744): a frame is there, or the stream has ended, or the child has    *)
(* the picture and answers it, unless it is one that wants a second first. *)
(* It is what LoopEnds needs besides the fairness of loop and children.    *)
(***************************************************************************)
AnswerOnItsWay ==
  \A c \in Children :
    Busy(c) => \/ out[c] # <<>>
               \/ AtEnd(c)
               \/ child[c] = "works" /\ in[c] = <<picture>>
               \/ child[c] = "delays" /\ in[c] = <<picture>>

THEOREM NeverWaitsInVain == Spec => []AnswerOnItsWay
<1>1. IInv /\ WaitInv => AnswerOnItsWay
  <2> SUFFICES ASSUME IInv, WaitInv, NEW c \in Children, Busy(c), out[c] = <<>>
               PROVE  \/ AtEnd(c)
                      \/ child[c] = "works" /\ in[c] = <<picture>>
                      \/ child[c] = "delays" /\ in[c] = <<picture>>
    BY DEF AnswerOnItsWay
  <2>1. child[c] \in {"dead"} \cup Answering
    BY DEF IInv, ChildrenTyped, WaitInv, Attended, Addressed, Busy
  <2>2. child[c] \in Answering => in[c] = <<picture>>
    BY DEF IInv, Lockstep, PipesOf, WaitInv, Attended
  <2>3. QED
    BY <2>1, <2>2 DEF AtEnd, Answering
<1>2. QED
  BY <1>1, Invariance, WaitInvariance, PTL

(***************************************************************************)
(* Where run_video_loop has returned, no transform and no encoder is left  *)
(* (:1999-2010 and the Drop of HwEncoderContext), whichever error it left  *)
(* with and whatever had died before.                                      *)
(***************************************************************************)
THEOREM ChildrenReaped == Spec => []NoOrphans
<1>1. WaitInv => NoOrphans
  BY DEF WaitInv
<1>2. QED
  BY <1>1, WaitInvariance, PTL

=============================================================================
