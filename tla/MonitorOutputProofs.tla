------------------------ MODULE MonitorOutputProofs ------------------------
(***************************************************************************)
(* The queue of the monitor thread never grows beyond its limit, and is    *)
(* empty whenever a thread with an open device waits: for any number of    *)
(* pipelines, any channel and any reserve.                                 *)
(***************************************************************************)
EXTENDS MonitorOutput, TLAPS

\* Pipelines that have not been started have no monitor thread, and a thread
\* that is not alive has no device.
Unborn ==
  /\ \A t \in Threads : t > current => pc[t] = "unborn"
  /\ \A t \in Threads : pc[t] = "unborn" => handle[t] = "none"

\* Only the round of the thread that has just received a frame may find more
\* than twice the reserve.
Trimmed ==
  \A t \in Threads :
    pc[t] \notin {"received", "write"} => pending[t] <= 2 * Prebuffer

IInv == StateTyped /\ Unborn /\ Trimmed /\ NoBacklog

LEMMA Constants ==
  /\ Pipelines \in Nat \ {0} /\ Places \in Nat \ {0}
  /\ Prebuffer \in Nat \ {0}
BY PipelinesAssumption, PlacesAssumption, PrebufferAssumption

LEMMA InitIInv == Init => IInv
BY Constants DEF Init, IInv, StateTyped, Unborn, Trimmed, NoBacklog, Threads,
   None

(***************************************************************************)
(* A round of a monitor thread.                                            *)
(***************************************************************************)
LEMMA MonitorKeepsIInv ==
  ASSUME IInv, NEW t \in Threads, Monitor(t)
  PROVE  IInv'
<1> USE Constants
<1> USE DEF IInv, StateTyped, Unborn, Trimmed, NoBacklog, Threads, None
<1>1. CASE Top(t)
  <2>1. /\ pc[t] = "top" /\ pc' = [pc EXCEPT ![t] = "receive"]
        /\ UNCHANGED <<current, channel, pending, handle, plays>>
    BY <1>1 DEF Top, Go, device
  <2>2. StateTyped'
    BY <2>1
  <2>3. Unborn'
    BY <2>1
  <2>4. Trimmed'
    BY <2>1
  <2>5. NoBacklog'
    BY <2>1
  <2>6. QED
    BY <2>2, <2>3, <2>4, <2>5
<1>2. CASE Receive(t)
  <2>1. /\ pc[t] = "receive" /\ channel[t] > 0
        /\ pc' = [pc EXCEPT ![t] = "received"]
        /\ channel' = [channel EXCEPT ![t] = @ - 1]
        /\ pending' = [pending EXCEPT ![t] = @ + 1]
        /\ UNCHANGED <<current, handle, plays>>
    BY <1>2 DEF Receive, Go, device
  <2>2. pending[t] <= 2 * Prebuffer
    BY <2>1
  <2>3. StateTyped'
    <3>1. channel[t] \in 0..Places /\ pending[t] \in Nat
      OBVIOUS
    <3> HIDE DEF IInv, StateTyped, Unborn, Trimmed, NoBacklog, Threads, None
    <3>2. channel[t] - 1 \in 0..Places
      BY <2>1, <3>1
    <3>3. pending[t] + 1 \in 0..(2 * Prebuffer + 1)
      BY <2>2, <3>1
    <3>4. QED
      BY <2>1, <3>2, <3>3 DEF IInv, StateTyped, Threads, None
  <2>4. Unborn'
    BY <2>1
  <2>5. Trimmed'
    BY <2>1
  <2>6. NoBacklog'
    BY <2>1
  <2>7. QED
    BY <2>3, <2>4, <2>5, <2>6
<1>3. CASE Timeout(t)
  <2>1. /\ pc[t] = "receive" /\ pc' = [pc EXCEPT ![t] = "top"]
        /\ UNCHANGED <<current, channel, pending, handle, plays>>
    BY <1>3 DEF Timeout, Go, device
  <2>2. StateTyped'
    BY <2>1
  <2>3. Unborn'
    BY <2>1
  <2>4. Trimmed'
    BY <2>1
  <2>5. NoBacklog'
    BY <2>1
  <2>6. QED
    BY <2>2, <2>3, <2>4, <2>5
<1>4. CASE Ends(t)
  <2>1. pc' = [pc EXCEPT ![t] = "ended"] /\ pc[t] \in {"top", "receive"}
    BY <1>4 DEF Ends, Go
  <2>2. /\ channel' = [channel EXCEPT ![t] = 0]
        /\ pending' = [pending EXCEPT ![t] = 0]
        /\ UNCHANGED current
    BY <1>4 DEF Ends
  <2>3. handle' = [handle EXCEPT ![t] = "none"]
        /\ plays' \in Threads \cup {None}
    BY <1>4 DEF Ends, Release
  <2>4. StateTyped'
    BY <2>1, <2>2, <2>3
  <2>5. /\ handle'[t] = "none"
        /\ \A u \in Threads : u # t => handle'[u] = handle[u]
    BY <2>3
  <2>6. Unborn'
    BY <2>1, <2>2, <2>5
  <2>7. Trimmed'
    <3>1. ASSUME NEW u \in Threads, pc'[u] \notin {"received", "write"}
          PROVE  pending'[u] <= 2 * Prebuffer
      <4>1. CASE u = t
        BY <2>2, <4>1
      <4>2. CASE u # t
        BY <2>1, <2>2, <3>1, <4>2
      <4>3. QED
        BY <4>1, <4>2
    <3>2. QED
      BY <3>1
  <2>8. NoBacklog'
    BY <2>1, <2>2, <2>5
  <2>9. QED
    BY <2>4, <2>6, <2>7, <2>8
<1>5. CASE OpenOk(t)
  <2>1. /\ pc[t] = "received" /\ pc' = [pc EXCEPT ![t] = "write"]
        /\ handle' = [handle EXCEPT ![t] = "live"]
        /\ UNCHANGED <<current, channel, pending, plays>>
    BY <1>5 DEF OpenOk, Go
  <2>2. StateTyped'
    BY <2>1
  <2>3. Unborn'
    BY <2>1
  <2>4. Trimmed'
    BY <2>1
  <2>5. NoBacklog'
    BY <2>1
  <2>6. QED
    BY <2>2, <2>3, <2>4, <2>5
<1>6. CASE OpenFails(t) \/ NotYet(t)
  <2> DEFINE left == IF pending[t] > 2 * Prebuffer
                     THEN pending[t] - 1 ELSE pending[t]
  <2>1. /\ pc[t] = "received" /\ handle[t] = "none"
        /\ pc' = [pc EXCEPT ![t] = "top"]
        /\ UNCHANGED <<current, channel, handle, plays>>
    BY <1>6 DEF OpenFails, NotYet, MayOpen, Go, device
  <2>2. pending' = [pending EXCEPT ![t] = left]
    BY <1>6 DEF OpenFails, NotYet, Trim
  <2>3. left \in 0..(2 * Prebuffer)
    <3>1. pending[t] \in 0..(2 * Prebuffer + 1)
      OBVIOUS
    <3> HIDE DEF IInv, StateTyped, Unborn, Trimmed, NoBacklog, Threads, None
    <3>2. QED
      BY <3>1
  <2> HIDE DEF left
  <2>4. StateTyped'
    <3>1. left \in 0..(2 * Prebuffer + 1)
      BY <2>3
    <3>2. QED
      BY <2>1, <2>2, <3>1
  <2>5. Unborn'
    BY <2>1
  <2>6. Trimmed'
    <3>1. ASSUME NEW u \in Threads, pc'[u] \notin {"received", "write"}
          PROVE  pending'[u] <= 2 * Prebuffer
      <4>1. CASE u = t
        BY <2>2, <2>3, <4>1
      <4>2. CASE u # t
        BY <2>1, <2>2, <3>1, <4>2
      <4>3. QED
        BY <4>1, <4>2
    <3>2. QED
      BY <3>1
  <2>7. NoBacklog'
    BY <2>1, <2>2, <2>3
  <2>8. QED
    BY <2>4, <2>5, <2>6, <2>7
<1>7. CASE IsOpen(t)
  <2>1. /\ pc[t] = "received" /\ pc' = [pc EXCEPT ![t] = "write"]
        /\ UNCHANGED <<current, channel, pending, handle, plays>>
    BY <1>7 DEF IsOpen, Go, device
  <2>2. StateTyped'
    BY <2>1
  <2>3. Unborn'
    BY <2>1
  <2>4. Trimmed'
    BY <2>1
  <2>5. NoBacklog'
    BY <2>1
  <2>6. QED
    BY <2>2, <2>3, <2>4, <2>5
<1>8. CASE Write(t)
  <2>1. /\ pc[t] = "write" /\ pending[t] > 0
        /\ pending' = [pending EXCEPT ![t] = @ - 1]
        /\ plays' = t
        /\ UNCHANGED <<current, pc, channel, handle>>
    BY <1>8 DEF Write
  <2>2. StateTyped'
    <3>1. pending[t] \in 0..(2 * Prebuffer + 1)
      OBVIOUS
    <3> HIDE DEF IInv, StateTyped, Unborn, Trimmed, NoBacklog, Threads, None
    <3>2. pending[t] - 1 \in 0..(2 * Prebuffer + 1)
      BY <2>1, <3>1
    <3>3. QED
      BY <2>1, <3>2 DEF IInv, StateTyped, Threads, None
  <2>3. Unborn'
    BY <2>1
  <2>4. Trimmed'
    BY <2>1
  <2>5. NoBacklog'
    BY <2>1
  <2>6. QED
    BY <2>2, <2>3, <2>4, <2>5
<1>9. CASE WriteFails(t)
  <2>1. pc' = [pc EXCEPT ![t] = "top"] /\ pc[t] = "write"
    BY <1>9 DEF WriteFails, Go
  <2>2. /\ pending' = [pending EXCEPT ![t] = 0]
        /\ UNCHANGED <<current, channel>>
    BY <1>9 DEF WriteFails
  <2>3. handle' = [handle EXCEPT ![t] = "none"]
        /\ plays' \in Threads \cup {None}
    BY <1>9 DEF WriteFails, Release
  <2>4. StateTyped'
    BY <2>1, <2>2, <2>3
  <2>5. /\ handle'[t] = "none"
        /\ \A u \in Threads : u # t => handle'[u] = handle[u]
    BY <2>3
  <2>6. Unborn'
    BY <2>1, <2>2, <2>5
  <2>7. Trimmed'
    <3>1. ASSUME NEW u \in Threads, pc'[u] \notin {"received", "write"}
          PROVE  pending'[u] <= 2 * Prebuffer
      <4>1. CASE u = t
        BY <2>2, <4>1
      <4>2. CASE u # t
        BY <2>1, <2>2, <3>1, <4>2
      <4>3. QED
        BY <4>1, <4>2
    <3>2. QED
      BY <3>1
  <2>8. NoBacklog'
    BY <2>1, <2>2, <2>5
  <2>9. QED
    BY <2>4, <2>6, <2>7, <2>8
<1>10. CASE Written(t)
  <2>1. /\ pc[t] = "write" /\ pc' = [pc EXCEPT ![t] = "top"]
        /\ pending[t] = 0
        /\ UNCHANGED <<current, channel, pending, handle, plays>>
    BY <1>10 DEF Written, Go, device
  <2>2. StateTyped'
    BY <2>1
  <2>3. Unborn'
    BY <2>1
  <2>4. Trimmed'
    BY <2>1
  <2>5. NoBacklog'
    BY <2>1
  <2>6. QED
    BY <2>2, <2>3, <2>4, <2>5
<1>11. QED
  BY <1>1, <1>2, <1>3, <1>4, <1>5, <1>6, <1>7, <1>8, <1>9, <1>10
     DEF Monitor

(***************************************************************************)
(* Everything else that happens.                                           *)
(***************************************************************************)
LEMMA NextKeepsIInv == IInv /\ [Next]_vars => IInv'
<1> SUFFICES ASSUME IInv, [Next]_vars PROVE IInv'
  OBVIOUS
<1> USE Constants
<1> USE DEF IInv, StateTyped, Unborn, Trimmed, NoBacklog, Threads, None
<1>1. CASE Start
  <2> DEFINE next == current + 1
  <2>1. /\ current' = next /\ next \in 1..Pipelines
        /\ pc' = [pc EXCEPT ![next] = "top"]
        /\ UNCHANGED <<channel, pending, handle, plays>>
    BY <1>1 DEF Start, Begin, device
  <2>2. pc[next] = "unborn"
    BY <2>1
  <2>3. StateTyped'
    BY <2>1
  <2>4. Unborn'
    BY <2>1, <2>2
  <2>5. Trimmed'
    BY <2>1, <2>2
  <2>6. NoBacklog'
    BY <2>1, <2>2
  <2>7. QED
    BY <2>3, <2>4, <2>5, <2>6
<1>2. CASE Stop
  BY <1>2 DEF Stop, threads, device
<1>3. CASE Plug \/ Take
  <2>1. /\ plays' \in {plays, None}
        /\ UNCHANGED <<current, pc, channel, pending>>
    BY <1>3 DEF Plug, Take, threads
  <2>2. /\ handle' \in [Threads -> {"none", "live", "dead"}]
        /\ \A t \in Threads : (handle'[t] = "none") = (handle[t] = "none")
    BY <1>3 DEF Plug, Take
  <2>3. StateTyped'
    BY <2>1, <2>2
  <2>4. Unborn' /\ Trimmed' /\ NoBacklog'
    BY <2>1, <2>2
  <2>5. QED
    BY <2>3, <2>4
<1>4. ASSUME NEW t \in Threads, LoopEnds(t) PROVE IInv'
  BY <1>4 DEF LoopEnds, threads, device
<1>5. ASSUME NEW t \in Threads, FrameMixed(t) PROVE IInv'
  <2> DEFINE room == IF channel[t] < Places /\ pc[t] # "ended"
                     THEN channel[t] + 1 ELSE channel[t]
  <2>1. /\ channel' = [channel EXCEPT ![t] = room]
        /\ UNCHANGED <<current, pc, pending, handle, plays>>
    BY <1>5 DEF FrameMixed, device
  <2>2. room \in 0..Places
    <3>1. channel[t] \in 0..Places
      OBVIOUS
    <3> HIDE DEF IInv, StateTyped, Unborn, Trimmed, NoBacklog, Threads, None
    <3>2. QED
      BY <3>1
  <2> HIDE DEF room
  <2>3. StateTyped'
    BY <2>1, <2>2
  <2>4. Unborn'
    BY <2>1
  <2>5. Trimmed'
    BY <2>1
  <2>6. NoBacklog'
    BY <2>1
  <2>7. QED
    BY <2>3, <2>4, <2>5, <2>6
<1>6. ASSUME NEW t \in Threads, Monitor(t) PROVE IInv'
  BY <1>6, MonitorKeepsIInv
<1>7. ASSUME NEW t \in Threads, CoolsDown(t) PROVE IInv'
  BY <1>7 DEF CoolsDown, device
<1>8. CASE UNCHANGED vars
  BY <1>8 DEF vars, threads, device
<1>9. QED
  BY <1>1, <1>2, <1>3, <1>4, <1>5, <1>6, <1>7, <1>8 DEF Next

(***************************************************************************)
(* The flags.                                                              *)
(***************************************************************************)
LEMMA NextKeepsFlags == FlagsTyped /\ [Next]_vars => FlagsTyped'
<1> SUFFICES ASSUME FlagsTyped, [Next]_vars PROVE FlagsTyped'
  OBVIOUS
<1> USE DEF FlagsTyped
<1>1. CASE Start
  BY <1>1 DEF Start, Begin, device
<1>2. CASE Stop
  BY <1>2 DEF Stop, threads, device
<1>3. CASE Plug \/ Take
  BY <1>3 DEF Plug, Take, threads
<1>4. ASSUME NEW t \in Threads,
             LoopEnds(t) \/ FrameMixed(t) \/ CoolsDown(t)
      PROVE  FlagsTyped'
  BY <1>4 DEF LoopEnds, FrameMixed, CoolsDown, threads, device
<1>5. ASSUME NEW t \in Threads, Monitor(t) PROVE FlagsTyped'
  BY <1>5 DEF Monitor, Top, Receive, Timeout, Ends, Release, OpenOk,
     OpenFails, NotYet, IsOpen, Write, WriteFails, Written, device
<1>6. CASE UNCHANGED vars
  BY <1>6 DEF vars, threads, device
<1>7. QED
  BY <1>1, <1>2, <1>3, <1>4, <1>5, <1>6 DEF Next

LEMMA Invariance == Spec => []IInv
BY InitIInv, NextKeepsIInv, PTL DEF Spec

(***************************************************************************)
(* Types, and the limit of a queue that waits for its device               *)
(* (audio_pipeline.rs:684-686).                                            *)
(***************************************************************************)
THEOREM TypeCorrect == Spec => []TypeOK
<1>1. Init => FlagsTyped
  BY DEF Init, FlagsTyped
<1>2. Spec => []FlagsTyped
  BY <1>1, NextKeepsFlags, PTL DEF Spec
<1>3. IInv /\ FlagsTyped => TypeOK
  BY DEF IInv, TypeOK
<1>4. QED
  BY <1>2, <1>3, Invariance, PTL

(***************************************************************************)
(* A monitor thread that has its device open and waits for a frame has     *)
(* given all others to the device (audio_pipeline.rs:672-684).             *)
(***************************************************************************)
THEOREM MonitorKeepsUp == Spec => []NoBacklog
<1>1. IInv => NoBacklog
  BY DEF IInv
<1>2. QED
  BY <1>1, Invariance, PTL

=============================================================================
