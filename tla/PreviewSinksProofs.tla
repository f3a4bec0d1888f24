------------------------- MODULE PreviewSinksProofs -------------------------
(***************************************************************************)
(* The preview sinks of PreviewSinks: for any output devices, workers,     *)
(* output lists, pipe sizes and frame sizes.                               *)
(***************************************************************************)
EXTENDS PreviewSinks, FiniteSetTheorems, SequenceTheorems,
        WellFoundedInduction, TLAPS

(***************************************************************************)
(* The least-number principle for sets; it stands for induction below.     *)
(***************************************************************************)
LEMMA LeastNumber ==
  ASSUME NEW T \in SUBSET Nat, T # {}
  PROVE  \E x \in T : \A y \in T : x <= y
<1>1. OpToRel(<, Nat) = {ss \in Nat \X Nat : ss[1] < ss[2]}
  BY DEF OpToRel
<1>2. \E x \in T : \A y \in T : ~(<<y, x>> \in OpToRel(<, Nat))
  BY NatLessThanWellFounded, WFMin
<1>3. \A x, y \in Nat : <<y, x>> \in OpToRel(<, Nat) <=> y < x
  BY <1>1
<1>4. \A x, y \in Nat : ~(y < x) => x <= y
  OBVIOUS
<1>5. QED
  BY <1>2, <1>3, <1>4

LEMMA IntervalSubset ==
  ASSUME NEW top \in Nat, NEW S \in SUBSET (1..top)
  PROVE  IsFiniteSet(S) /\ Cardinality(S) \in Nat
<1>1. IsFiniteSet(1..top)
  BY FS_Interval
<1>2. QED
  BY <1>1, FS_Subset, FS_CardinalityType

Increasing(f) == \A m, n \in DOMAIN f : m < n => f[m] < f[n]

\* A finite set of numbers can be listed in increasing order.
LEMMA IncreasingExists ==
  ASSUME NEW top \in Nat, NEW chosen \in SUBSET (1..top)
  PROVE  \E f \in [1..Cardinality(chosen) -> chosen] : Increasing(f)
<1> DEFINE Listed(S) == \E f \in [1..Cardinality(S) -> S] : Increasing(f)
           Bad == {k \in Nat : \E S \in SUBSET (1..k) : ~Listed(S)}
<1> HIDE DEF Listed, Bad
<1>1. SUFFICES ASSUME Bad # {} PROVE FALSE
  BY <1>1 DEF Bad, Listed
<1>2. PICK k \in Bad : \A l \in Bad : k <= l
  <2> Bad \in SUBSET Nat
    BY DEF Bad
  <2> QED
    BY <1>1, LeastNumber
<1>. k \in Nat
  BY DEF Bad
<1>3. PICK S \in SUBSET (1..k) : ~Listed(S)
  BY DEF Bad
<1>4. \A R \in SUBSET (1..(k - 1)) : k # 0 => Listed(R)
  <2> SUFFICES ASSUME NEW R \in SUBSET (1..(k - 1)), k # 0, ~Listed(R)
               PROVE  FALSE
    OBVIOUS
  <2>1. k - 1 \in Nat
    OBVIOUS
  <2>2. k - 1 \in Bad
    BY <2>1 DEF Bad
  <2>3. QED
    BY <1>2, <2>2
<1>5. IsFiniteSet(S)
  BY <1>3, IntervalSubset
<1>6. CASE k \notin S
  <2>1. CASE k = 0
    <3>1. S = {} /\ Cardinality(S) = 0
      <4>1. S = {}
        BY <1>3, <2>1
      <4>2. QED
        BY <4>1, FS_EmptySet
    <3>2. [m \in 1..0 |-> m] \in [1..Cardinality(S) -> S]
      BY <3>1
    <3>3. Increasing([m \in 1..0 |-> m])
      BY DEF Increasing
    <3>4. QED
      BY <1>3, <3>2, <3>3 DEF Listed
  <2>2. CASE k # 0
    <3>1. S \in SUBSET (1..(k - 1))
      BY <1>3, <1>6
    <3>2. QED
      BY <1>3, <1>4, <2>2, <3>1
  <2>3. QED
    BY <2>1, <2>2
<1>7. CASE k \in S
  <2> DEFINE R == S \ {k}
             c == Cardinality(R)
  <2>1. k # 0 /\ R \in SUBSET (1..(k - 1))
    BY <1>3, <1>7
  <2>2. PICK g \in [1..c -> R] : Increasing(g)
    BY <1>4, <2>1 DEF Listed
  <2>3. c \in Nat /\ Cardinality(S) = c + 1
    <3>1. Cardinality(S) \in Nat /\ IsFiniteSet(R)
          /\ c = Cardinality(S) - 1
      BY <1>5, <1>7, FS_RemoveElement, FS_CardinalityType
    <3>2. c \in Nat
      BY <3>1, FS_CardinalityType
    <3>3. QED
      BY <3>1, <3>2
  <2> HIDE DEF c
  <2> DEFINE f == [m \in 1..(c + 1) |-> IF m = c + 1 THEN k ELSE g[m]]
  <2>4. f \in [1..(c + 1) -> S]
    BY <1>7, <2>2, <2>3
  <2>5. Increasing(f)
    <3> SUFFICES ASSUME NEW m \in 1..(c + 1), NEW n \in 1..(c + 1), m < n
                 PROVE  f[m] < f[n]
      BY DEF Increasing
    <3>1. m \in 1..c
      BY <2>3
    <3>2. f[m] = g[m] /\ g[m] \in 1..(k - 1)
      <4>1. m # c + 1
        BY <2>3, <3>1
      <4>2. g[m] \in R
        BY <2>2, <3>1
      <4>3. QED
        BY <2>1, <4>1, <4>2
    <3>3. CASE n = c + 1
      BY <2>3, <3>2, <3>3
    <3>4. CASE n # c + 1
      BY <2>2, <2>3, <3>1, <3>2, <3>4 DEF Increasing
    <3>5. QED
      BY <3>3, <3>4
  <2>6. QED
    BY <1>3, <2>3, <2>4, <2>5 DEF Listed
<1>8. QED
  BY <1>6, <1>7

(***************************************************************************)
(* build_preview_sinks lists every device once (its set seen, :2692).      *)
(***************************************************************************)
LEMMA ResolvedOnce ==
  ASSUME NEW list \in Lists
  PROVE  /\ Resolved(list) \in Seq(Devices)
         /\ \A m, n \in 1..Len(Resolved(list)) :
              Resolved(list)[m] = Resolved(list)[n] => m = n
<1> DEFINE chosen == {i \in 1..Len(list) : FirstOf(list, i) /\ list[i].usable}
           order == CHOOSE f \in [1..Cardinality(chosen) -> chosen] :
                      \A m, n \in DOMAIN f : m < n => f[m] < f[n]
           k == Cardinality(chosen)
           outputs == [n \in DOMAIN order |-> list[order[n]].device]
<1>1. list \in Seq([device : Devices, usable : BOOLEAN])
  BY ListsAssumption
<1>2. Len(list) \in Nat /\ chosen \in SUBSET (1..Len(list))
  BY <1>1
<1>3. k \in Nat
  BY <1>2, IntervalSubset
<1>4. order \in [1..k -> chosen] /\ Increasing(order)
  BY <1>2, IncreasingExists DEF Increasing
<1>5. Resolved(list) = outputs
  BY DEF Resolved
<1> HIDE DEF order, k
<1>6. \A n \in 1..k : order[n] \in 1..Len(list) /\ FirstOf(list, order[n])
  BY <1>4
<1>7. outputs \in [1..k -> Devices]
  <2>1. \A i \in 1..Len(list) : list[i].device \in Devices
    <3> TAKE i \in 1..Len(list)
    <3>1. list[i] \in [device : Devices, usable : BOOLEAN]
      BY <1>1, ElementOfSeq
    <3>2. QED
      BY <3>1
  <2>2. DOMAIN order = 1..k
    BY <1>4
  <2>3. QED
    BY <1>6, <2>1, <2>2
<1>8. outputs \in Seq(Devices) /\ Len(outputs) = k
  BY <1>3, <1>7
<1>9. \A m, n \in 1..k : m < n => outputs[m] # outputs[n]
  <2> SUFFICES ASSUME NEW m \in 1..k, NEW n \in 1..k, m < n
               PROVE  outputs[m] # outputs[n]
    OBVIOUS
  <2>1. order[m] < order[n] /\ order[m] \in 1..Len(list)
        /\ order[n] \in 1..Len(list) /\ FirstOf(list, order[n])
    BY <1>4, <1>6 DEF Increasing
  <2>2. order[m] \in 1..(order[n] - 1)
    BY <1>2, <2>1
  <2>3. list[order[m]].device # list[order[n]].device
    BY <2>1, <2>2 DEF FirstOf
  <2>4. QED
    BY <1>4, <2>3
<1>10. QED
  <2> HIDE DEF outputs
  <2>1. \A m, n \in 1..k : outputs[m] = outputs[n] => m = n
    BY <1>3, <1>9
  <2>2. QED
    BY <1>5, <1>8, <2>1

-----------------------------------------------------------------------------
(***************************************************************************)
(* Where the workers, the children and the readers are.  A worker that has *)
(* ended, or starts, or has joined its reader, has neither a child that    *)
(* runs nor a reader that reads; one that joins has killed its child.      *)
(***************************************************************************)
ControlTyped ==
  /\ mode \in {"build", "run", "stop", "left"}
  /\ pc \in [Workers -> WorkerPC]
  /\ device \in [Workers -> Devices] /\ kind \in [Workers -> Kinds]
  /\ child \in [Workers -> {"none", "running", "dead"}]
  /\ reader \in [Workers -> {"none", "open", "read", "done"}]

Idle(w) == child[w] # "running" /\ ~Reading(w)

Coherent(w) ==
  /\ pc[w] \in {"none", "start", "spawn", "sleep", "done"} => Idle(w)
  /\ pc[w] = "recv" /\ kind[w] = "direct" => Idle(w)
  /\ pc[w] \in {"spawn", "write", "closing", "failed", "joinClosing",
               "joinFailed", "sleep"} => kind[w] # "direct"
  /\ pc[w] \in {"joinClosing", "joinFailed"} => child[w] # "running"

Step(w) == Worker(w) \/ Reader(w) \/ Child(w) \/ ChildDies(w)

\* A step of a worker, its child or its reader is one of something that lives
\* and leaves the other workers alone.
LEMMA StepIsLocal ==
  ASSUME ControlTyped, NEW w \in Workers, Step(w)
  PROVE  /\ UNCHANGED <<loop, device, open>>
         /\ \A v \in Workers \ {w} :
              /\ pc'[v] = pc[v] /\ kind'[v] = kind[v] /\ child'[v] = child[v]
              /\ reader'[v] = reader[v]
<1> USE DEF ControlTyped, Move, sink, NewChild, ReaderMoves, Take, Show
<1>1. CASE GivesUp(w) \/ TakesDirectPath(w) \/ TakesFfmpegPath(w)
  BY <1>1 DEF GivesUp, TakesDirectPath, TakesFfmpegPath
<1>2. CASE TakesKmsPath(w) \/ Spawns(w) \/ SpawnFails(w)
  BY <1>2 DEF TakesKmsPath, Spawns, SpawnFails
<1>3. CASE CopiesFrame(w) \/ CopyFails(w) \/ SkipsShortFrame(w)
  BY <1>3 DEF CopiesFrame, CopyFails, SkipsShortFrame
<1>4. CASE ReceivesFrame(w) \/ Writes(w) \/ WriteFails(w)
  BY <1>4 DEF ReceivesFrame, Writes, WriteFails
<1>5. CASE Disconnected(w) \/ Reaps(w) \/ JoinsReader(w) \/ Sleeps(w)
  BY <1>5 DEF Disconnected, Reaps, JoinsReader, Sleeps
<1>6. CASE Reader(w)
  BY <1>6 DEF Reader, ReaderOpens, ReaderGivesUp, ReaderReads, ReaderEnds
<1>7. CASE Child(w) \/ ChildDies(w)
  BY <1>7 DEF Child, ChildReads, ChildWrites, ChildBreaks, ChildDies
<1>8. QED
  BY <1>1, <1>2, <1>3, <1>4, <1>5, <1>6, <1>7 DEF Step, Worker

LEMMA StepIsCoherent ==
  ASSUME ControlTyped, NEW w \in Workers, Coherent(w), Step(w)
  PROVE  ControlTyped' /\ Coherent(w)' /\ Lives(w)
<1> USE DEF ControlTyped, Coherent, Idle, Reading, Lives, Move, sink, loop
<1>1. CASE GivesUp(w) \/ TakesDirectPath(w) \/ TakesFfmpegPath(w)
  BY <1>1 DEF GivesUp, TakesDirectPath, TakesFfmpegPath, WorkerPC, Kinds
<1>2. CASE TakesKmsPath(w) \/ Spawns(w) \/ SpawnFails(w)
  <2>1. CASE TakesKmsPath(w)
    BY <2>1 DEF TakesKmsPath, NewChild, WorkerPC, Kinds
  <2>2. CASE Spawns(w)
    <3>1. /\ pc[w] = "spawn" /\ pc' = [pc EXCEPT ![w] = "recv"]
          /\ child' = [child EXCEPT ![w] = "running"]
          /\ UNCHANGED <<mode, device, kind>>
      BY <2>2 DEF Spawns, NewChild
    <3>2. \E to \in {"open", "none"} : reader' = [reader EXCEPT ![w] = to]
      BY <2>2 DEF Spawns
    <3>3. QED
      BY <3>1, <3>2 DEF WorkerPC
  <2>3. CASE SpawnFails(w)
    BY <2>3 DEF SpawnFails, WorkerPC
  <2>4. QED
    BY <1>2, <2>1, <2>2, <2>3
<1>3. CASE CopiesFrame(w) \/ CopyFails(w) \/ SkipsShortFrame(w)
  BY <1>3 DEF CopiesFrame, CopyFails, SkipsShortFrame, WorkerPC
<1>4. CASE ReceivesFrame(w) \/ Writes(w) \/ WriteFails(w)
  <2>1. CASE ReceivesFrame(w)
    BY <2>1 DEF ReceivesFrame, WorkerPC
  <2>2. CASE Writes(w)
    <3>1. \E to \in {"recv", "write"} : pc' = [pc EXCEPT ![w] = to]
      BY <2>2 DEF Writes
    <3>2. pc[w] = "write" /\ UNCHANGED <<mode, device, kind, child, reader>>
      BY <2>2 DEF Writes
    <3>3. QED
      BY <3>1, <3>2 DEF WorkerPC
  <2>3. CASE WriteFails(w)
    BY <2>3 DEF WriteFails, WorkerPC
  <2>4. QED
    BY <1>4, <2>1, <2>2, <2>3
<1>5. CASE Disconnected(w) \/ Reaps(w) \/ JoinsReader(w) \/ Sleeps(w)
  BY <1>5 DEF Disconnected, Reaps, JoinsReader, Sleeps, WorkerPC
<1>6. CASE Reader(w)
  BY <1>6 DEF Reader, ReaderOpens, ReaderGivesUp, ReaderReads, ReaderEnds,
     ReaderMoves
<1>7. CASE Child(w) \/ ChildDies(w)
  BY <1>7 DEF Child, ChildReads, ChildWrites, ChildBreaks, ChildDies
<1>8. QED
  BY <1>1, <1>2, <1>3, <1>4, <1>5, <1>6, <1>7 DEF Step, Worker

(***************************************************************************)
(* What lives belongs to a sink, and the sinks have different devices.     *)
(***************************************************************************)
SinksTyped == sinks \in Seq(Workers)

SinksApart ==
  \A m, n \in 1..Len(sinks) : device[sinks[m]] = device[sinks[n]] => m = n

SinksHold == \A w \in Workers : Lives(w) => \E n \in 1..Len(sinks) : sinks[n] = w

ControlInv ==
  /\ ControlTyped
  /\ SinksTyped /\ SinksApart /\ SinksHold
  /\ mode \in {"build", "left"} => sinks = <<>>
  /\ \A w \in Workers : Coherent(w)

\* What Build makes of the workers.
LEMMA BuildTakes ==
  ASSUME NEW list \in Lists, Build(list), ControlTyped
  PROVE  /\ sinks' \in Seq(Workers) /\ Len(sinks') = Len(Resolved(list))
         /\ IsInjective(sinks')
         /\ \A n \in 1..Len(sinks') :
              ~Lives(sinks'[n]) /\ device'[sinks'[n]] = Resolved(list)[n]
         /\ pc' = [w \in Workers |->
                     IF w \in Range(sinks') THEN "start" ELSE pc[w]]
         /\ device' \in [Workers -> Devices]
         /\ open' = [w \in Workers |-> w \in Range(sinks')]
         /\ chan' = [w \in Workers |-> <<>>]
<1> DEFINE outputs == Resolved(list)
           Free == {w \in Workers : ~Lives(w)}
           deviceOf(ws) ==
             [w \in Workers |-> IF w \in Range(ws)
                               THEN outputs[CHOOSE n \in DOMAIN ws : ws[n] = w]
                               ELSE device[w]]
<1>1. PICK ws \in [1..Len(outputs) -> Free] :
        /\ IsInjective(ws)
        /\ sinks' = ws
        /\ pc' = [w \in Workers |-> IF w \in Range(ws) THEN "start" ELSE pc[w]]
        /\ device' = deviceOf(ws)
        /\ open' = [w \in Workers |-> w \in Range(ws)]
        /\ chan' = [w \in Workers |-> <<>>]
  BY DEF Build
<1>2. outputs \in Seq(Devices)
  BY ResolvedOnce
<1> HIDE DEF outputs, Free, deviceOf
<1>3. Len(outputs) \in Nat /\ \A n \in 1..Len(outputs) : outputs[n] \in Devices
  BY <1>2
<1>4. \A n \in 1..Len(outputs) : ws[n] \in Workers /\ ~Lives(ws[n])
  BY <1>1 DEF Free
<1>5. ws \in Seq(Workers) /\ Len(ws) = Len(outputs)
  <2>1. ws \in [1..Len(outputs) -> Workers]
    BY <1>1, <1>4
  <2>2. QED
    BY <1>3, <2>1
<1>6. \A n \in 1..Len(outputs) :
        n = CHOOSE m \in DOMAIN ws : ws[m] = ws[n]
  BY <1>1 DEF IsInjective
<1>7. \A n \in 1..Len(outputs) : deviceOf(ws)[ws[n]] = outputs[n]
  <2> TAKE n \in 1..Len(outputs)
  <2>1. ws[n] \in Workers /\ ws[n] \in Range(ws)
    BY <1>1, <1>4 DEF Range
  <2>2. QED
    BY <1>6, <2>1 DEF deviceOf
<1>8. deviceOf(ws) \in [Workers -> Devices]
  <2> SUFFICES ASSUME NEW w \in Workers
               PROVE  deviceOf(ws)[w] \in Devices
    BY DEF deviceOf
  <2>1. CASE w \in Range(ws)
    <3>1. PICK n \in 1..Len(outputs) : ws[n] = w
      BY <1>1, <2>1 DEF Range
    <3>2. QED
      BY <1>3, <1>7, <3>1
  <2>2. CASE w \notin Range(ws)
    BY <2>2 DEF deviceOf, ControlTyped
  <2>3. QED
    BY <2>1, <2>2
<1>9. QED
  BY <1>1, <1>4, <1>5, <1>7, <1>8 DEF outputs

LEMMA BuildKeepsControl ==
  ASSUME ControlInv, NEW list \in Lists, Build(list)
  PROVE  ControlInv'
<1> USE DEF ControlInv
<1>1. /\ mode = "build" /\ mode' = "run"
      /\ UNCHANGED <<kind, child, reader>>
  BY DEF Build
<1>2. /\ sinks' \in Seq(Workers) /\ Len(sinks') = Len(Resolved(list))
      /\ \A n \in 1..Len(sinks') : device'[sinks'[n]] = Resolved(list)[n]
      /\ pc' = [w \in Workers |-> IF w \in Range(sinks') THEN "start" ELSE pc[w]]
      /\ device' \in [Workers -> Devices]
  BY BuildTakes
<1>3. \A w \in Workers : ~Lives(w)
  <2>1. sinks = <<>>
    BY <1>1
  <2>2. QED
    BY <2>1 DEF SinksHold
<1>4. \A w \in Workers : pc'[w] = "start" \/ pc'[w] = pc[w]
  BY <1>2
<1>5. ControlTyped'
  BY <1>1, <1>2, <1>4 DEF ControlTyped, WorkerPC
<1>6. SinksApart'
  BY <1>2, ResolvedOnce DEF SinksApart
<1>7. SinksHold'
  <2> SUFFICES ASSUME NEW w \in Workers, Lives(w)'
               PROVE  \E n \in 1..Len(sinks') : sinks'[n] = w
    BY DEF SinksHold
  <2>1. w \in Range(sinks')
    BY <1>1, <1>2, <1>3 DEF Lives, Reading
  <2>2. QED
    BY <1>2, <2>1 DEF Range
<1>8. ASSUME NEW w \in Workers PROVE Coherent(w)'
  BY <1>1, <1>3, <1>4 DEF Coherent, Idle, Lives, Reading
<1>9. QED
  BY <1>1, <1>2, <1>5, <1>6, <1>7, <1>8 DEF SinksTyped

LEMMA ControlStep == ControlInv /\ [Next]_vars => ControlInv'
<1> SUFFICES ASSUME ControlInv, [Next]_vars PROVE ControlInv'
  OBVIOUS
<1> USE DEF ControlInv
<1>1. ASSUME NEW list \in Lists, Build(list) PROVE ControlInv'
  BY <1>1, BuildKeepsControl
<1>2. ASSUME UNCHANGED <<mode, sinks, pc, device, kind, child, reader>>
      PROVE  ControlInv'
  BY <1>2 DEF ControlTyped, SinksTyped, SinksApart, SinksHold, Coherent, Idle,
     Lives, Reading
<1>3. CASE Offer \/ CloseChannel \/ Ended \/ UNCHANGED vars
  BY <1>2, <1>3 DEF Offer, CloseChannel, Ended, vars, loop, sink
<1>4. CASE StopSinks \/ SinksStopped
  <2>1. /\ UNCHANGED <<sinks, pc, device, kind, child, reader>>
        /\ mode' \in {"stop", "left", "build"}
        /\ mode' \in {"left", "build"} => sinks = <<>>
    BY <1>4 DEF StopSinks, SinksStopped, sink
  <2>2. QED
    BY <2>1 DEF ControlTyped, SinksTyped, SinksApart, SinksHold, Coherent,
       Idle, Lives, Reading
<1>5. CASE JoinWorker
  <2>1. /\ UNCHANGED <<mode, pc, device, kind, child, reader>>
        /\ mode = "stop" /\ sinks # <<>> /\ pc[Head(sinks)] = "done"
        /\ sinks' = Tail(sinks)
    BY <1>5 DEF JoinWorker, sink
  <2>2. /\ sinks' \in Seq(Workers) /\ Len(sinks') = Len(sinks) - 1
        /\ \A n \in 1..Len(sinks') : sinks'[n] = sinks[n + 1]
    BY <2>1, HeadTailProperties DEF SinksTyped
  <2>3. Len(sinks) \in Nat \ {0} /\ Head(sinks) = sinks[1]
        /\ sinks[1] \in Workers
    BY <2>1 DEF SinksTyped
  <2>4. SinksApart'
    BY <2>1, <2>2, <2>3 DEF SinksApart
  <2>5. SinksHold'
    <3> SUFFICES ASSUME NEW w \in Workers, Lives(w)
                 PROVE  \E n \in 1..Len(sinks') : sinks'[n] = w
      BY <2>1 DEF SinksHold, Lives, Reading
    <3>1. PICK m \in 1..Len(sinks) : sinks[m] = w
      BY DEF SinksHold
    <3>2. ~Lives(sinks[1])
      BY <2>1, <2>3 DEF Coherent, Idle, Lives
    <3>3. m # 1
      BY <3>1, <3>2
    <3>4. m - 1 \in 1..Len(sinks') /\ sinks'[m - 1] = w
      BY <2>2, <2>3, <3>1, <3>3
    <3>5. QED
      BY <3>4
  <2>6. QED
    BY <2>1, <2>2, <2>4, <2>5 DEF ControlTyped, SinksTyped, Coherent, Idle,
       Reading
<1>6. ASSUME NEW w \in Workers, Step(w) PROVE ControlInv'
  <2>1. /\ UNCHANGED <<mode, sinks, device>>
        /\ \A v \in Workers \ {w} :
             /\ pc'[v] = pc[v] /\ kind'[v] = kind[v] /\ child'[v] = child[v]
             /\ reader'[v] = reader[v]
    BY <1>6, StepIsLocal DEF loop
  <2>2. ControlTyped' /\ Coherent(w)' /\ Lives(w)
    BY <1>6, StepIsCoherent
  <2>3. SinksTyped' /\ SinksApart'
    BY <2>1 DEF SinksTyped, SinksApart
  <2>4. SinksHold'
    BY <2>1, <2>2 DEF SinksHold, Lives, Reading
  <2>5. \A v \in Workers : Coherent(v)'
    BY <2>1, <2>2 DEF Coherent, Idle, Reading
  <2>6. QED
    BY <2>1, <2>2, <2>3, <2>4, <2>5
<1>7. QED
  BY <1>1, <1>3, <1>4, <1>5, <1>6 DEF Next, Stopping, Step

LEMMA ControlInit == Init => ControlInv
BY DevicesAssumption
   DEF Init, ControlInv, ControlTyped, SinksTyped, SinksApart, SinksHold,
       Coherent, Idle, Lives, Reading, WorkerPC, Kinds

LEMMA ApartWhileLiving ==
  ASSUME ControlInv, NEW v \in Workers, NEW w \in Workers, v # w, Lives(v),
         Lives(w)
  PROVE  device[v] # device[w]
<1>1. PICK m \in 1..Len(sinks) : sinks[m] = v
  BY DEF ControlInv, SinksHold
<1>2. PICK n \in 1..Len(sinks) : sinks[n] = w
  BY DEF ControlInv, SinksHold
<1>3. QED
  BY <1>1, <1>2 DEF ControlInv, SinksApart

(***************************************************************************)
(* No two outputs are written by two sinks at a time, old or new: a device *)
(* is listed once (:2692), and the sinks of the last round are joined with *)
(* their children and readers before new ones are built (:2013).           *)
(***************************************************************************)
THEOREM OneWriterPerOutput == Spec => []OneWriter
<1>1. ControlInv => OneWriter
  BY ApartWhileLiving DEF OneWriter
<1>2. QED
  BY <1>1, ControlInit, ControlStep, PTL DEF Spec

(***************************************************************************)
(* After stop_preview_sinks no worker, child or reader is left (:2013).    *)
(***************************************************************************)
THEOREM NothingLeftBehind == Spec => []NothingLeft
<1>1. ControlInv => NothingLeft
  BY DEF ControlInv, SinksHold, NothingLeft
<1>2. QED
  BY <1>1, ControlInit, ControlStep, PTL DEF Spec

-----------------------------------------------------------------------------
(***************************************************************************)
(* Sequences of pieces.                                                    *)
(***************************************************************************)
LEMMA PiecesAreSeqs ==
  ASSUME NEW size \in Nat
  PROVE  \A s : s \in Pieces(size) <=> s \in Seq(Frame) /\ Len(s) <= size
<1>1. ASSUME NEW s \in Pieces(size)
      PROVE  s \in Seq(Frame) /\ Len(s) <= size
  <2>1. PICK n \in 0..size : s \in [1..n -> Frame]
    BY <1>1 DEF Pieces
  <2>2. n \in Nat /\ n <= size
    BY <2>1
  <2>3. s \in Seq(Frame) /\ Len(s) = n
    BY <2>1, <2>2
  <2>4. QED
    BY <2>2, <2>3
<1>2. ASSUME NEW s \in Seq(Frame), Len(s) <= size
      PROVE  s \in Pieces(size)
  <2>1. Len(s) \in 0..size /\ s \in [1..Len(s) -> Frame]
    BY <1>2, LenProperties
  <2>2. QED
    BY <2>1 DEF Pieces
<1>3. QED
  BY <1>1, <1>2

LEMMA EmptyIsPieces ==
  ASSUME NEW size \in Nat PROVE <<>> \in Pieces(size)
<1> DEFINE e == <<>>
<1>1. e \in Seq(Frame) /\ Len(e) = 0
  BY EmptySeq
<1> HIDE DEF e
<1>2. Len(e) <= size
  BY <1>1
<1>3. e \in Pieces(size)
  BY <1>1, <1>2, PiecesAreSeqs, Zenon
<1>4. QED
  BY <1>3 DEF e

LEMMA AppendPiece ==
  ASSUME NEW size \in Nat, NEW s \in Pieces(size), NEW x \in Frame,
         NEW limit \in Nat, Len(s) < limit
  PROVE  /\ Append(s, x) \in Pieces(limit)
         /\ Len(Append(s, x)) = Len(s) + 1
<1>1. s \in Seq(Frame) /\ Len(s) \in Nat
  BY PiecesAreSeqs
<1>2. Append(s, x) \in Seq(Frame) /\ Len(Append(s, x)) = Len(s) + 1
  BY <1>1, AppendProperties
<1>3. Len(Append(s, x)) <= limit
  BY <1>1, <1>2
<1>4. QED
  BY <1>2, <1>3, PiecesAreSeqs

LEMMA TakePiece ==
  ASSUME NEW size \in Nat, NEW s \in Pieces(size), s # <<>>
  PROVE  /\ Head(s) \in Frame /\ Tail(s) \in Pieces(size)
         /\ Len(s) \in Nat \ {0} /\ Len(Tail(s)) = Len(s) - 1
<1>1. s \in Seq(Frame) /\ Len(s) \in Nat \ {0} /\ Len(s) <= size
  BY PiecesAreSeqs, EmptySeq
<1>2. /\ Head(s) \in Frame /\ Tail(s) \in Seq(Frame)
      /\ Len(Tail(s)) = Len(s) - 1
  BY <1>1, HeadTailProperties
<1>3. Len(Tail(s)) <= size
  BY <1>1, <1>2
<1>4. QED
  BY <1>1, <1>2, <1>3, PiecesAreSeqs

\* A piece that goes from the front of one queue to the end of another.
LEMMA MovePiece ==
  ASSUME NEW S, NEW s \in Seq(S), NEW t \in Seq(S), t # <<>>
  PROVE  Append(s, Head(t)) \o Tail(t) = s \o t
<1>1. /\ Head(t) \in S /\ Head(t) = t[1] /\ Tail(t) \in Seq(S)
      /\ Len(t) \in Nat \ {0} /\ Len(Tail(t)) = Len(t) - 1
      /\ \A i \in 1..Len(Tail(t)) : Tail(t)[i] = t[i + 1]
  BY HeadTailProperties, EmptySeq
<1> DEFINE a == Append(s, Head(t))
           b == Tail(t)
           n == Len(s)
<1>2. /\ a \in Seq(S) /\ Len(a) = n + 1 /\ n \in Nat
      /\ \A i \in 1..n : a[i] = s[i]
      /\ a[n + 1] = t[1]
  BY <1>1, AppendProperties
<1>3. b \in Seq(S) /\ Len(b) = Len(t) - 1 /\ \A i \in 1..Len(b) : b[i] = t[i + 1]
  BY <1>1
<1> HIDE DEF a, b, n
<1>4. /\ a \o b \in Seq(S) /\ Len(a \o b) = n + Len(t)
      /\ \A i \in 1..(n + Len(t)) :
           (a \o b)[i] = IF i <= n + 1 THEN a[i] ELSE b[i - (n + 1)]
  <2>1. /\ a \o b \in Seq(S) /\ Len(a \o b) = Len(a) + Len(b)
        /\ \A i \in 1..(Len(a) + Len(b)) :
             (a \o b)[i] = IF i <= Len(a) THEN a[i] ELSE b[i - Len(a)]
    BY <1>2, <1>3, ConcatProperties
  <2>2. Len(a) + Len(b) = n + Len(t)
    BY <1>1, <1>2, <1>3
  <2>3. QED
    BY <1>2, <2>1, <2>2
<1>5. /\ s \o t \in Seq(S) /\ Len(s \o t) = n + Len(t)
      /\ \A i \in 1..(n + Len(t)) :
           (s \o t)[i] = IF i <= n THEN s[i] ELSE t[i - n]
  BY ConcatProperties DEF n
<1>6. \A i \in 1..(n + Len(t)) : (a \o b)[i] = (s \o t)[i]
  <2> TAKE i \in 1..(n + Len(t))
  <2>1. CASE i <= n
    BY <1>2, <1>4, <1>5, <2>1
  <2>2. CASE i = n + 1
    BY <1>1, <1>2, <1>4, <1>5, <2>2
  <2>3. CASE i > n + 1
    <3>1. i - (n + 1) \in 1..Len(b) /\ (i - (n + 1)) + 1 = i - n
      BY <1>1, <1>2, <1>3, <2>3
    <3>2. (a \o b)[i] = b[i - (n + 1)] /\ (s \o t)[i] = t[i - n]
      BY <1>1, <1>2, <1>4, <1>5, <2>3
    <3>3. QED
      BY <1>3, <3>1, <3>2
  <2>4. n \in Nat /\ i \in Int
    BY <1>1, <1>2
  <2>5. i <= n \/ i = n + 1 \/ i > n + 1
    BY <2>4
  <2>6. QED
    BY <2>1, <2>2, <2>3, <2>5
<1>7. a \o b = s \o t
  BY <1>4, <1>5, <1>6, SeqEqual
<1>8. QED
  BY <1>7 DEF a, b

\* One piece after the other, where only that is of interest.
Join(x, y) == x \o y

LEMMA JoinAssociates ==
  \A x, y, z \in Seq(Frame) : Join(Join(x, y), z) = Join(x, Join(y, z))
<1> TAKE x \in Seq(Frame), y \in Seq(Frame), z \in Seq(Frame)
<1> QED
  BY ConcatAssociative DEF Join

LEMMA MoveMiddle ==
  ASSUME NEW r \in Seq(Frame), NEW s \in Seq(Frame), NEW t \in Seq(Frame),
         Len(t) # 0
  PROVE  (r \o Append(s, Head(t))) \o Tail(t) = (r \o s) \o t
<1> DEFINE a == Append(s, Head(t))
           b == Tail(t)
<1> t # <<>>
  BY EmptySeq
<1>1. a \in Seq(Frame) /\ b \in Seq(Frame)
  BY HeadTailProperties, AppendProperties
<1>2. Join(a, b) = Join(s, t)
  BY MovePiece DEF Join
<1> HIDE DEF a, b
<1>3. Join(Join(r, a), b) = Join(r, Join(a, b))
  BY <1>1, JoinAssociates
<1>4. Join(Join(r, s), t) = Join(r, Join(s, t))
  BY JoinAssociates
<1>5. Join(Join(r, a), b) = Join(Join(r, s), t)
  BY <1>2, <1>3, <1>4
<1>6. QED
  BY <1>5 DEF a, b, Join

Cut(r, s, t) ==
  /\ (Append(r, Head(s)) \o Tail(s)) \o t = (r \o s) \o t
  /\ Append(r, Head(s)) \o (Tail(s) \o t) = (r \o s) \o t
  /\ Tail(s) \o t \in Seq(Frame)

LEMMA CutPiece ==
  ASSUME NEW r \in Seq(Frame), NEW s \in Seq(Frame), NEW t \in Seq(Frame),
         Len(s) # 0
  PROVE  Cut(r, s, t)
<1> DEFINE a == Append(r, Head(s))
           b == Tail(s)
<1> s # <<>>
  BY EmptySeq
<1>1. a \in Seq(Frame) /\ b \in Seq(Frame)
  BY HeadTailProperties, AppendProperties
<1>2. Join(a, b) = Join(r, s)
  BY MovePiece DEF Join
<1> HIDE DEF a, b
<1>3. Join(Join(a, b), t) = Join(a, Join(b, t))
  BY <1>1, JoinAssociates
<1>4. Join(b, t) \in Seq(Frame)
  BY <1>1, ConcatProperties DEF Join
<1>5. /\ Join(Join(a, b), t) = Join(Join(r, s), t)
      /\ Join(a, Join(b, t)) = Join(Join(r, s), t)
  BY <1>2, <1>3
<1>6. QED
  BY <1>4, <1>5 DEF a, b, Join, Cut

-----------------------------------------------------------------------------
(***************************************************************************)
(* The types of the queues between the capture loop and the screen.        *)
(***************************************************************************)
Channels == {<<>>} \cup {<<f>> : f \in Pieces(FrameChunks) \ {<<>>}}

QueuesTyped ==
  /\ chan \in [Workers -> Channels]
  /\ writing \in [Workers -> Pieces(FrameChunks)]
  /\ inPipe \in [Workers -> Pieces(PipeSize)]
  /\ outPipe \in [Workers -> Pieces(PipeSize)]
  /\ have \in [Workers -> Pieces(FrameChunks - 1)]
  /\ buf \in [Workers -> Pieces(FrameChunks - 1)]
  /\ out \in [Workers -> Pieces(FrameChunks)]
  /\ shown \in [Devices -> 0..MaxFrames]
  /\ frame \in 0..MaxFrames

WritesInWrite(w) == pc[w] = "write" <=> writing[w] # <<>>

\* What a child has yet to make frames of, and what it has made of them; the
\* oldest piece first.
In(w) == have[w] \o inPipe[w] \o writing[w]
Out(w) == buf[w] \o outPipe[w] \o out[w]

LEMMA QueuesAreSeqs ==
  ASSUME QueuesTyped, NEW w \in Workers
  PROVE  /\ {have[w], inPipe[w], writing[w]} \subseteq Seq(Frame)
         /\ {buf[w], outPipe[w], out[w]} \subseteq Seq(Frame)
         /\ In(w) \in Seq(Frame) /\ Out(w) \in Seq(Frame)
<1> USE ChunksAssumption
<1>1. FrameChunks \in Nat /\ FrameChunks - 1 \in Nat /\ PipeSize \in Nat
  OBVIOUS
<1>2. {have[w], inPipe[w], writing[w]} \subseteq Seq(Frame)
  BY <1>1, PiecesAreSeqs DEF QueuesTyped
<1>3. {buf[w], outPipe[w], out[w]} \subseteq Seq(Frame)
  BY <1>1, PiecesAreSeqs DEF QueuesTyped
<1>4. In(w) \in Seq(Frame)
  BY <1>2, ConcatProperties DEF In
<1>5. Out(w) \in Seq(Frame)
  BY <1>3, ConcatProperties DEF Out
<1>6. QED
  BY <1>2, <1>3, <1>4, <1>5

LEMMA ChannelHoldsFrame ==
  ASSUME QueuesTyped, NEW w \in Workers, chan[w] # <<>>
  PROVE  /\ chan[w][1] \in Pieces(FrameChunks) /\ chan[w][1] # <<>>
         /\ chan[w][1] \in Seq(Frame) /\ Len(chan[w][1]) \in Nat \ {0}
<1>1. chan[w] \in Channels
  BY DEF QueuesTyped
<1>2. PICK f \in Pieces(FrameChunks) \ {<<>>} : chan[w] = <<f>>
  BY <1>1 DEF Channels
<1>3. chan[w][1] = f
  BY <1>2
<1>4. f \in Seq(Frame)
  BY ChunksAssumption, PiecesAreSeqs
<1>5. Len(f) \in Nat \ {0}
  BY <1>4, EmptySeq
<1>6. QED
  BY <1>3, <1>4, <1>5

-----------------------------------------------------------------------------
(***************************************************************************)
(* What the steps of a worker, its child and its reader do to the queues.  *)
(***************************************************************************)
Streams == <<writing, pipes, buf>>

\* Nothing, and nobody reads who did not before.
Quiet(w) ==
  /\ UNCHANGED <<Streams, chan, shown>>
  /\ child'[w] = "running" => child[w] = "running"
  /\ Reading(w)' => Reading(w)
  /\ \/ pc'[w] = pc[w] /\ kind'[w] = kind[w]
     \/ /\ pc[w] # "write" /\ pc'[w] # "write"
        /\ pc'[w] = "recv" => kind'[w] = "direct"
  /\ kind'[w] = kind[w] \/ pc[w] = "start"

SameParts(w) == UNCHANGED <<kind, child, reader>>

\* A new child with empty pipes.
Renewed(w) ==
  /\ In(w)' = <<>> /\ Out(w)' = <<>>
  /\ UNCHANGED <<chan, shown, writing>>
  /\ pc[w] # "write" /\ pc'[w] = "recv"

\* A frame leaves the channel: it is shown, or lost, or goes to the child.
Copied(w) ==
  /\ chan[w] # <<>> /\ chan' = [chan EXCEPT ![w] = <<>>]
  /\ UNCHANGED Streams /\ SameParts(w)
  /\ \/ UNCHANGED shown
     \/ /\ kind[w] = "direct"
        /\ shown' = [shown EXCEPT ![device[w]] = Head(chan[w][1])]
  /\ pc[w] = "recv" /\ pc'[w] \in {"recv", "done"}

Received(w) ==
  /\ chan[w] # <<>> /\ chan' = [chan EXCEPT ![w] = <<>>]
  /\ In(w)' = In(w) \o chan[w][1] /\ Out(w)' = Out(w)
  /\ SameParts(w) /\ UNCHANGED shown
  /\ pc[w] = "recv" /\ pc'[w] = "write" /\ kind[w] # "direct"

\* A piece moves on, without the end of a frame.
Moved(w) ==
  /\ In(w)' = In(w) /\ Out(w)' = Out(w)
  /\ SameParts(w) /\ UNCHANGED <<chan, shown>>
  /\ pc'[w] = pc[w] \/ (pc[w] = "write" /\ pc'[w] \in {"recv", "write"})

\* The rest of a frame is given up.
Dropped(w) ==
  /\ In(w) = In(w)' \o writing[w] /\ Out(w)' = Out(w)
  /\ In(w)' \in Seq(Frame)
  /\ SameParts(w) /\ UNCHANGED <<chan, shown>>
  /\ pc'[w] = "failed"

\* The child has a whole frame, and shows it or puts it out.
Played(w, got) ==
  /\ In(w) = got \o In(w)' /\ Out(w)' = Out(w) /\ kind[w] # "fbdev"
  /\ shown' = [shown EXCEPT ![device[w]] = Last(got)]
  /\ SameParts(w) /\ UNCHANGED <<chan, pc>>
  /\ child[w] = "running"

Forwarded(w, got) ==
  /\ In(w) = got \o In(w)' /\ Out(w)' = Out(w) \o got
  /\ SameParts(w) /\ UNCHANGED <<chan, pc, shown>>
  /\ child[w] = "running" /\ kind[w] = "fbdev"

\* The reader has a whole frame, and shows it.
Shown(w, got) ==
  /\ In(w)' = In(w) /\ Out(w) = got \o Out(w)'
  /\ shown' = [shown EXCEPT ![device[w]] = Last(got)]
  /\ SameParts(w) /\ UNCHANGED <<chan, pc>>
  /\ Reading(w)

WholeFrames == {got \in Seq(Frame) : IsWhole(got)}

Effect(w) ==
  \/ Quiet(w) \/ Renewed(w) \/ Copied(w) \/ Received(w) \/ Moved(w)
  \/ Dropped(w)
  \/ \E got \in WholeFrames : Played(w, got) \/ Forwarded(w, got) \/ Shown(w, got)

\* The queues of the other workers stay as they are.
LEMMA QueuesAreLocal ==
  ASSUME QueuesTyped, NEW w \in Workers, Step(w)
  PROVE  \A v \in Workers \ {w} :
           /\ chan'[v] = chan[v] /\ writing'[v] = writing[v]
           /\ inPipe'[v] = inPipe[v] /\ outPipe'[v] = outPipe[v]
           /\ have'[v] = have[v] /\ out'[v] = out[v] /\ buf'[v] = buf[v]
<1> USE DEF QueuesTyped, sink, pipes
<1>1. CASE GivesUp(w) \/ TakesDirectPath(w) \/ TakesFfmpegPath(w)
  BY <1>1 DEF GivesUp, TakesDirectPath, TakesFfmpegPath
<1>2. CASE TakesKmsPath(w) \/ Spawns(w) \/ SpawnFails(w)
  BY <1>2 DEF TakesKmsPath, Spawns, SpawnFails, NewChild
<1>3. CASE CopiesFrame(w) \/ CopyFails(w) \/ SkipsShortFrame(w)
  BY <1>3 DEF CopiesFrame, CopyFails, SkipsShortFrame, Take
<1>4. CASE ReceivesFrame(w) \/ Writes(w) \/ WriteFails(w)
  BY <1>4 DEF ReceivesFrame, Writes, WriteFails, Take
<1>5. CASE Disconnected(w) \/ Reaps(w) \/ JoinsReader(w) \/ Sleeps(w)
  BY <1>5 DEF Disconnected, Reaps, JoinsReader, Sleeps
<1>6. CASE Reader(w)
  BY <1>6 DEF Reader, ReaderOpens, ReaderGivesUp, ReaderReads, ReaderEnds
<1>7. CASE Child(w) \/ ChildDies(w)
  BY <1>7 DEF Child, ChildReads, ChildWrites, ChildBreaks, ChildDies
<1>8. QED
  BY <1>1, <1>2, <1>3, <1>4, <1>5, <1>6, <1>7 DEF Step, Worker

LEMMA QuietEffect ==
  ASSUME ControlTyped, QueuesTyped, NEW w \in Workers, WritesInWrite(w),
         \/ GivesUp(w) \/ TakesDirectPath(w) \/ TakesFfmpegPath(w)
         \/ SpawnFails(w) \/ Disconnected(w) \/ Reaps(w) \/ JoinsReader(w)
         \/ Sleeps(w) \/ ReaderOpens(w) \/ ReaderGivesUp(w) \/ ReaderEnds(w)
         \/ ChildBreaks(w) \/ ChildDies(w)
  PROVE  QueuesTyped' /\ WritesInWrite(w)' /\ Quiet(w)
<1>1. UNCHANGED <<Streams, chan, shown, frame>>
  BY DEF Streams, GivesUp, TakesDirectPath, TakesFfmpegPath, SpawnFails,
     Disconnected, Reaps, JoinsReader, Sleeps, ReaderOpens, ReaderGivesUp,
     ReaderEnds, ChildBreaks, ChildDies, sink, pipes, loop
<1>2. QueuesTyped'
  BY <1>1 DEF QueuesTyped, Streams, pipes
<1>3. /\ child'[w] = "running" => child[w] = "running"
      /\ Reading(w)' => Reading(w)
  BY DEF Reading, ControlTyped, GivesUp, TakesDirectPath, TakesFfmpegPath,
     SpawnFails, Disconnected, Reaps, JoinsReader, Sleeps, ReaderOpens,
     ReaderGivesUp, ReaderEnds, ChildBreaks, ChildDies, ReaderMoves
<1>4. \/ pc'[w] = pc[w] /\ kind'[w] = kind[w]
      \/ /\ pc[w] # "write" /\ pc'[w] # "write"
         /\ pc'[w] = "recv" => kind'[w] = "direct"
  <2>1. CASE ReaderOpens(w) \/ ReaderGivesUp(w) \/ ReaderEnds(w)
             \/ ChildBreaks(w) \/ ChildDies(w)
    BY <2>1 DEF ReaderOpens, ReaderGivesUp, ReaderEnds, ChildBreaks, ChildDies
  <2>2. CASE GivesUp(w) \/ TakesDirectPath(w) \/ TakesFfmpegPath(w)
             \/ SpawnFails(w)
    BY <2>2 DEF GivesUp, TakesDirectPath, TakesFfmpegPath, SpawnFails, Move,
       ControlTyped
  <2>3. CASE Disconnected(w) \/ Reaps(w) \/ JoinsReader(w) \/ Sleeps(w)
    BY <2>3 DEF Disconnected, Reaps, JoinsReader, Sleeps, Move, ControlTyped
  <2>4. QED
    BY <2>1, <2>2, <2>3
<1>5. kind'[w] = kind[w] \/ pc[w] = "start"
  BY DEF GivesUp, TakesDirectPath, TakesFfmpegPath, SpawnFails, Disconnected,
     Reaps, JoinsReader, Sleeps, ReaderOpens, ReaderGivesUp, ReaderEnds,
     ChildBreaks, ChildDies
<1>6. WritesInWrite(w)'
  <2>1. writing' = writing
    BY <1>1 DEF Streams
  <2>2. pc'[w] = "write" <=> pc[w] = "write"
    BY <1>4
  <2>3. QED
    BY <2>1, <2>2, Zenon DEF WritesInWrite
<1>7. QED
  BY <1>1, <1>2, <1>3, <1>4, <1>5, <1>6 DEF Quiet

LEMMA RenewedEffect ==
  ASSUME ControlTyped, QueuesTyped, NEW w \in Workers, WritesInWrite(w),
         TakesKmsPath(w) \/ Spawns(w)
  PROVE  QueuesTyped' /\ WritesInWrite(w)' /\ Renewed(w)
<1> USE ChunksAssumption
<1>1. /\ inPipe' = [inPipe EXCEPT ![w] = <<>>]
      /\ outPipe' = [outPipe EXCEPT ![w] = <<>>]
      /\ have' = [have EXCEPT ![w] = <<>>] /\ out' = [out EXCEPT ![w] = <<>>]
      /\ buf' = [buf EXCEPT ![w] = <<>>]
      /\ UNCHANGED <<chan, writing, shown, frame>>
  BY DEF TakesKmsPath, Spawns, NewChild, sink, loop
<1>2. pc[w] # "write" /\ pc'[w] = "recv"
  BY DEF TakesKmsPath, Spawns, Move, ControlTyped
<1>3. QueuesTyped'
  <2>1. /\ <<>> \in Pieces(PipeSize) /\ <<>> \in Pieces(FrameChunks)
        /\ <<>> \in Pieces(FrameChunks - 1)
    BY EmptyIsPieces
  <2>2. QED
    BY <1>1, <2>1 DEF QueuesTyped
<1>4. WritesInWrite(w)'
  BY <1>1, <1>2 DEF WritesInWrite
<1>5. In(w)' = <<>> \o <<>> \o <<>> /\ Out(w)' = <<>> \o <<>> \o <<>>
  <2>1. writing[w] = <<>>
    BY <1>2 DEF WritesInWrite
  <2>2. QED
    BY <1>1, <2>1 DEF In, Out, QueuesTyped
<1>6. <<>> \o <<>> \o <<>> = <<>>
  BY ConcatEmptySeq, EmptySeq
<1>7. QED
  BY <1>1, <1>2, <1>3, <1>4, <1>5, <1>6 DEF Renewed

LEMMA CopiedEffect ==
  ASSUME ControlTyped, QueuesTyped, NEW w \in Workers, WritesInWrite(w),
         CopiesFrame(w) \/ CopyFails(w) \/ SkipsShortFrame(w)
  PROVE  QueuesTyped' /\ WritesInWrite(w)' /\ Copied(w)
<1>1. /\ chan[w] # <<>> /\ chan' = [chan EXCEPT ![w] = <<>>]
      /\ UNCHANGED <<writing, inPipe, outPipe, have, out, buf, frame>>
      /\ UNCHANGED <<kind, child, reader>>
      /\ \/ UNCHANGED shown
         \/ /\ kind[w] = "direct"
            /\ shown' = [shown EXCEPT ![device[w]] = Head(chan[w][1])]
  BY DEF CopiesFrame, CopyFails, SkipsShortFrame, Take, Show, pipes, loop
<1>2. pc[w] = "recv" /\ pc'[w] \in {"recv", "done"}
  BY DEF CopiesFrame, CopyFails, SkipsShortFrame, Move, ControlTyped
<1>3. Head(chan[w][1]) \in Frame
  <2>1. chan[w][1] \in Pieces(FrameChunks) /\ chan[w][1] # <<>>
    BY <1>1, ChannelHoldsFrame
  <2>2. QED
    BY <2>1, ChunksAssumption, TakePiece
<1>4. shown' \in [Devices -> 0..MaxFrames]
  <2>1. Head(chan[w][1]) \in 0..MaxFrames
    BY <1>3, BoundsAssumption DEF Frame
  <2>2. QED
    BY <1>1, <2>1 DEF QueuesTyped
<1>5. chan' \in [Workers -> Channels]
  BY <1>1 DEF QueuesTyped, Channels
<1>6. QueuesTyped'
  BY <1>1, <1>4, <1>5 DEF QueuesTyped
<1>7. WritesInWrite(w)'
  BY <1>1, <1>2 DEF WritesInWrite
<1>8. QED
  BY <1>1, <1>2, <1>6, <1>7 DEF Copied, Streams, pipes, SameParts

LEMMA ReceivedEffect ==
  ASSUME ControlTyped, QueuesTyped, NEW w \in Workers, WritesInWrite(w),
         ReceivesFrame(w)
  PROVE  QueuesTyped' /\ WritesInWrite(w)' /\ Received(w)
<1>1. /\ chan[w] # <<>> /\ chan' = [chan EXCEPT ![w] = <<>>]
      /\ writing' = [writing EXCEPT ![w] = chan[w][1]]
      /\ UNCHANGED <<inPipe, outPipe, have, out, buf, shown, frame>>
      /\ UNCHANGED <<kind, child, reader>>
      /\ pc[w] = "recv" /\ kind[w] # "direct"
  BY DEF ReceivesFrame, Take, pipes, loop
<1>2. pc'[w] = "write"
  BY DEF ReceivesFrame, Move, ControlTyped
<1>3. chan[w][1] \in Pieces(FrameChunks) /\ chan[w][1] # <<>>
      /\ chan[w][1] \in Seq(Frame)
  BY <1>1, ChannelHoldsFrame
<1>4. writing'[w] = chan[w][1] /\ writing' \in [Workers -> Pieces(FrameChunks)]
  BY <1>1, <1>3 DEF QueuesTyped
<1>5. chan' \in [Workers -> Channels]
  BY <1>1 DEF QueuesTyped, Channels
<1>6. QueuesTyped'
  BY <1>1, <1>4, <1>5 DEF QueuesTyped
<1>7. WritesInWrite(w)'
  BY <1>2, <1>3, <1>4 DEF WritesInWrite
<1>8. In(w)' = In(w) \o chan[w][1]
  <2>1. writing[w] = <<>>
    BY <1>1 DEF WritesInWrite
  <2>2. have[w] \in Seq(Frame) /\ inPipe[w] \in Seq(Frame)
    BY QueuesAreSeqs
  <2>3. have[w] \o inPipe[w] \in Seq(Frame)
    BY <2>2, ConcatProperties
  <2>4. In(w) = have[w] \o inPipe[w]
    BY <2>1, <2>3, ConcatEmptySeq DEF In
  <2>5. QED
    BY <1>1, <1>4, <2>4 DEF In
<1>9. Out(w)' = Out(w)
  BY <1>1 DEF Out
<1>10. QED
  BY <1>1, <1>2, <1>6, <1>7, <1>8, <1>9 DEF Received, SameParts

LEMMA MovedEffect ==
  ASSUME ControlTyped, QueuesTyped, NEW w \in Workers, WritesInWrite(w),
         Writes(w) \/ ChildWrites(w)
  PROVE  QueuesTyped' /\ WritesInWrite(w)' /\ Moved(w)
<1> USE ChunksAssumption
<1>1. CASE Writes(w)
  <2>1. /\ pc[w] = "write" /\ Len(inPipe[w]) < PipeSize
        /\ inPipe' = [inPipe EXCEPT ![w] = Append(@, Head(writing[w]))]
        /\ writing' = [writing EXCEPT ![w] = Tail(@)]
        /\ UNCHANGED <<chan, outPipe, have, out, buf, shown, frame>>
        /\ UNCHANGED <<kind, child, reader>>
    BY <1>1 DEF Writes, sink, loop
  <2>2. writing[w] # <<>>
    BY <2>1 DEF WritesInWrite
  <2>3. /\ Head(writing[w]) \in Frame /\ Tail(writing[w]) \in Pieces(FrameChunks)
        /\ Len(writing[w]) \in Nat \ {0}
        /\ Len(Tail(writing[w])) = Len(writing[w]) - 1
    BY <2>2, TakePiece DEF QueuesTyped
  <2>4. Append(inPipe[w], Head(writing[w])) \in Pieces(PipeSize)
    BY <2>1, <2>3, AppendPiece DEF QueuesTyped
  <2>5. QueuesTyped'
    BY <2>1, <2>3, <2>4 DEF QueuesTyped
  <2>6. pc'[w] = IF Len(writing[w]) = 1 THEN "recv" ELSE "write"
    BY <1>1 DEF Writes, Move, ControlTyped
  <2>7. writing'[w] = Tail(writing[w])
        /\ inPipe'[w] = Append(inPipe[w], Head(writing[w]))
    BY <2>1 DEF QueuesTyped
  <2>8. WritesInWrite(w)'
    <3>1. Tail(writing[w]) \in Seq(Frame)
      BY <2>3, PiecesAreSeqs
    <3>2. Tail(writing[w]) = <<>> <=> Len(Tail(writing[w])) = 0
      BY <3>1, EmptySeq
    <3>3. QED
      BY <2>3, <2>6, <2>7, <3>2 DEF WritesInWrite
  <2>9. In(w)' = In(w)
    <3>1. /\ have[w] \in Seq(Frame) /\ inPipe[w] \in Seq(Frame)
          /\ writing[w] \in Seq(Frame)
      BY QueuesAreSeqs
    <3>2. (have[w] \o Append(inPipe[w], Head(writing[w]))) \o Tail(writing[w])
            = (have[w] \o inPipe[w]) \o writing[w]
      BY <2>3, <3>1, MoveMiddle
    <3>3. QED
      BY <2>1, <2>7, <3>2 DEF In
  <2>10. QED
    BY <2>1, <2>5, <2>6, <2>8, <2>9 DEF Moved, SameParts, Out
<1>2. CASE ChildWrites(w)
  <2>1. /\ out[w] # <<>> /\ Len(outPipe[w]) < PipeSize
        /\ out' = [out EXCEPT ![w] = Tail(@)]
        /\ outPipe' = [outPipe EXCEPT ![w] = Append(@, Head(out[w]))]
        /\ UNCHANGED <<chan, inPipe, have, writing, buf, shown, frame>>
        /\ UNCHANGED <<pc, kind, child, reader>>
    BY <1>2 DEF ChildWrites, sink, loop
  <2>2. /\ Head(out[w]) \in Frame /\ Tail(out[w]) \in Pieces(FrameChunks)
        /\ Len(out[w]) # 0
    BY <2>1, TakePiece DEF QueuesTyped
  <2>3. Append(outPipe[w], Head(out[w])) \in Pieces(PipeSize)
    BY <2>1, <2>2, AppendPiece DEF QueuesTyped
  <2>4. QueuesTyped'
    BY <2>1, <2>2, <2>3 DEF QueuesTyped
  <2>5. out'[w] = Tail(out[w]) /\ outPipe'[w] = Append(outPipe[w], Head(out[w]))
    BY <2>1 DEF QueuesTyped
  <2>6. WritesInWrite(w)'
    BY <2>1 DEF WritesInWrite
  <2>7. Out(w)' = Out(w)
    <3>1. /\ buf[w] \in Seq(Frame) /\ outPipe[w] \in Seq(Frame)
          /\ out[w] \in Seq(Frame)
      BY QueuesAreSeqs
    <3>2. (buf[w] \o Append(outPipe[w], Head(out[w]))) \o Tail(out[w])
            = (buf[w] \o outPipe[w]) \o out[w]
      BY <2>2, <3>1, MoveMiddle
    <3>3. QED
      BY <2>1, <2>5, <3>2 DEF Out
  <2>8. QED
    BY <2>1, <2>4, <2>6, <2>7 DEF Moved, SameParts, In
<1>3. QED
  BY <1>1, <1>2

LEMMA DroppedEffect ==
  ASSUME ControlTyped, QueuesTyped, NEW w \in Workers, WritesInWrite(w),
         WriteFails(w)
  PROVE  QueuesTyped' /\ WritesInWrite(w)' /\ Dropped(w)
<1> DEFINE e == <<>>
<1> HIDE DEF e
<1>1. /\ pc[w] = "write"
      /\ writing' = [writing EXCEPT ![w] = e]
      /\ UNCHANGED <<chan, inPipe, outPipe, have, out, buf, shown, frame>>
      /\ UNCHANGED <<kind, child, reader>>
  BY DEF WriteFails, sink, pipes, loop, e
<1>2. pc'[w] = "failed"
  BY DEF WriteFails, Move, ControlTyped
<1>3. e \in Pieces(FrameChunks) /\ e \in Seq(Frame)
  BY ChunksAssumption, EmptyIsPieces, EmptySeq DEF e
<1>4. QueuesTyped' /\ writing'[w] = e
  BY <1>1, <1>3 DEF QueuesTyped
<1>5. WritesInWrite(w)'
  BY <1>2, <1>4 DEF WritesInWrite, e
<1>6. In(w) = In(w)' \o writing[w] /\ In(w)' \in Seq(Frame)
  <2>1. have[w] \in Seq(Frame) /\ inPipe[w] \in Seq(Frame)
    BY QueuesAreSeqs
  <2>2. have[w] \o inPipe[w] \in Seq(Frame)
    BY <2>1, ConcatProperties
  <2>3. In(w)' = have[w] \o inPipe[w] \o e
    BY <1>1, <1>4 DEF In
  <2>4. In(w)' = have[w] \o inPipe[w]
    BY <2>2, <2>3, ConcatEmptySeq DEF e
  <2>5. QED
    BY <2>2, <2>4 DEF In
<1>7. QED
  BY <1>1, <1>2, <1>4, <1>5, <1>6 DEF Dropped, SameParts, Out

LEMMA LastOfWhole ==
  ASSUME NEW got \in Seq(Frame), IsWhole(got)
  PROVE  /\ Last(got) \in 0..MaxFrames /\ Last(got) = got[FrameChunks]
         /\ FrameChunks \in 1..Len(got) /\ Len(got) = FrameChunks
<1>1. Len(got) = FrameChunks /\ FrameChunks \in 1..FrameChunks
  BY ChunksAssumption DEF IsWhole
<1>2. Last(got) = got[FrameChunks] /\ got[FrameChunks] \in Frame
  BY <1>1, ElementOfSeq DEF Last
<1>3. QED
  BY <1>1, <1>2, BoundsAssumption DEF Frame

LEMMA ChildReadsEffect ==
  ASSUME ControlTyped, QueuesTyped, NEW w \in Workers, WritesInWrite(w),
         ChildReads(w)
  PROVE  QueuesTyped' /\ WritesInWrite(w)'
         /\ (Moved(w) \/ \E got \in WholeFrames : Played(w, got) \/ Forwarded(w, got))
<1> DEFINE got == Append(have[w], Head(inPipe[w]))
           rest == Tail(inPipe[w])
           e == <<>>
<1> HIDE DEF e
<1> USE ChunksAssumption
<1>1. /\ child[w] = "running" /\ inPipe[w] # <<>> /\ out[w] = e
      /\ inPipe' = [inPipe EXCEPT ![w] = rest]
      /\ UNCHANGED <<chan, outPipe, writing, buf, frame>>
      /\ UNCHANGED <<pc, kind, child, reader, device>>
  BY DEF ChildReads, sink, loop, e
<1>2. Head(inPipe[w]) \in Frame /\ rest \in Pieces(PipeSize)
      /\ Len(inPipe[w]) # 0
  BY <1>1, TakePiece DEF QueuesTyped
<1>3. /\ have[w] \in Pieces(FrameChunks - 1) /\ FrameChunks - 1 \in Nat
      /\ have[w] \in Seq(Frame) /\ inPipe[w] \in Seq(Frame)
      /\ writing[w] \in Seq(Frame) /\ buf[w] \in Seq(Frame)
      /\ outPipe[w] \in Seq(Frame)
  BY QueuesAreSeqs DEF QueuesTyped
<1>4. Len(have[w]) \in Nat /\ Len(have[w]) <= FrameChunks - 1
  BY <1>3, PiecesAreSeqs
<1>5. got \in Pieces(FrameChunks) /\ Len(got) = Len(have[w]) + 1
  BY <1>2, <1>3, <1>4, AppendPiece
<1>6. got \in Seq(Frame)
  BY <1>5, PiecesAreSeqs
<1>7. /\ (got \o rest) \o writing[w] = In(w)
      /\ got \o (rest \o writing[w]) = In(w)
      /\ rest \o writing[w] \in Seq(Frame) /\ rest \in Seq(Frame)
  <2>1. rest \in Seq(Frame)
    BY <1>2, PiecesAreSeqs
  <2>2. /\ (Append(have[w], Head(inPipe[w])) \o Tail(inPipe[w])) \o writing[w]
             = (have[w] \o inPipe[w]) \o writing[w]
        /\ Append(have[w], Head(inPipe[w])) \o (Tail(inPipe[w]) \o writing[w])
             = (have[w] \o inPipe[w]) \o writing[w]
        /\ Tail(inPipe[w]) \o writing[w] \in Seq(Frame)
    <3>1. /\ have[w] \in Seq(Frame) /\ inPipe[w] \in Seq(Frame)
          /\ writing[w] \in Seq(Frame) /\ Len(inPipe[w]) # 0
      BY <1>2, <1>3
    <3>2. Cut(have[w], inPipe[w], writing[w])
      BY <3>1, CutPiece
    <3>3. QED
      BY <3>2 DEF Cut
  <2>3. QED
    BY <2>1, <2>2 DEF In
<1>8. WritesInWrite(w)'
  BY <1>1 DEF WritesInWrite
<1>9. inPipe'[w] = rest /\ inPipe' \in [Workers -> Pieces(PipeSize)]
  BY <1>1, <1>2 DEF QueuesTyped
<1>10. /\ ~IsWhole(got) => /\ have' = [have EXCEPT ![w] = got]
                           /\ UNCHANGED <<out, shown>>
       /\ IsWhole(got) => have' = [have EXCEPT ![w] = e]
       /\ IsWhole(got) /\ kind[w] = "fbdev" =>
            out' = [out EXCEPT ![w] = got] /\ UNCHANGED shown
       /\ IsWhole(got) /\ kind[w] # "fbdev" =>
            shown' = [shown EXCEPT ![device[w]] = Last(got)] /\ UNCHANGED out
  BY DEF ChildReads, Show, e
<1> HIDE DEF got, rest
<1>11. CASE ~IsWhole(got)
  <2>1. got \in Pieces(FrameChunks - 1)
    <3>1. Len(got) <= FrameChunks - 1
      BY <1>4, <1>5, <1>11 DEF IsWhole
    <3>2. QED
      BY <1>3, <1>6, <3>1, PiecesAreSeqs
  <2>2. QueuesTyped' /\ have'[w] = got
    BY <1>1, <1>9, <1>10, <1>11, <2>1 DEF QueuesTyped
  <2>3. In(w)' = (got \o rest) \o writing[w]
    BY <1>1, <1>9, <2>2 DEF In
  <2>4. Moved(w)
    BY <1>1, <1>7, <1>10, <1>11, <2>3 DEF Moved, SameParts, Out
  <2>5. QED
    BY <1>8, <2>2, <2>4
<1>12. CASE IsWhole(got)
  <2>1. got \in WholeFrames
    BY <1>6, <1>12 DEF WholeFrames
  <2>2. e \in Pieces(FrameChunks - 1) /\ e \in Seq(Frame)
    BY <1>3, EmptyIsPieces, EmptySeq DEF e
  <2>3. have' \in [Workers -> Pieces(FrameChunks - 1)] /\ have'[w] = e
    BY <1>10, <1>12, <2>2 DEF QueuesTyped
  <2>4. In(w) = got \o In(w)'
    <3>1. In(w)' = (e \o rest) \o writing[w]
      BY <1>1, <1>9, <2>3 DEF In
    <3>2. e \o rest = rest
      BY <1>7, ConcatEmptySeq DEF e
    <3>3. QED
      BY <1>7, <3>1, <3>2
  <2>5. CASE kind[w] = "fbdev"
    <3>1. out' = [out EXCEPT ![w] = got] /\ UNCHANGED shown
      BY <1>10, <1>12, <2>5
    <3>2. QueuesTyped' /\ out'[w] = got
      BY <1>1, <1>5, <1>9, <2>3, <3>1 DEF QueuesTyped
    <3>3. Out(w)' = Out(w) \o got
      <4>1. Out(w)' = (buf[w] \o outPipe[w]) \o got
        BY <1>1, <3>2 DEF Out
      <4>2. buf[w] \o outPipe[w] \in Seq(Frame)
        BY <1>3, ConcatProperties
      <4>3. Out(w) = (buf[w] \o outPipe[w]) \o e
        BY <1>1 DEF Out
      <4>4. @ = buf[w] \o outPipe[w]
        BY <4>2, ConcatEmptySeq DEF e
      <4>5. QED
        BY <4>1, <4>3, <4>4
    <3>4. Forwarded(w, got)
      BY <1>1, <2>4, <2>5, <3>1, <3>3 DEF Forwarded, SameParts
    <3>5. QED
      BY <1>8, <2>1, <3>2, <3>4
  <2>6. CASE kind[w] # "fbdev"
    <3>1. shown' = [shown EXCEPT ![device[w]] = Last(got)] /\ UNCHANGED out
      BY <1>10, <1>12, <2>6
    <3>2. Last(got) \in 0..MaxFrames
      BY <1>6, <1>12, LastOfWhole
    <3>3. shown' \in [Devices -> 0..MaxFrames]
      BY <3>1, <3>2 DEF QueuesTyped
    <3>4. QueuesTyped'
      BY <1>1, <1>9, <2>3, <3>1, <3>3 DEF QueuesTyped
    <3>5. Played(w, got)
      BY <1>1, <2>4, <2>6, <3>1 DEF Played, SameParts, Out
    <3>6. QED
      BY <1>8, <2>1, <3>4, <3>5
  <2>7. QED
    BY <2>5, <2>6
<1>13. QED
  BY <1>11, <1>12

LEMMA ReaderReadsEffect ==
  ASSUME ControlTyped, QueuesTyped, NEW w \in Workers, WritesInWrite(w),
         ReaderReads(w)
  PROVE  QueuesTyped' /\ WritesInWrite(w)'
         /\ (Moved(w) \/ \E got \in WholeFrames : Shown(w, got))
<1> DEFINE got == Append(buf[w], Head(outPipe[w]))
           rest == Tail(outPipe[w])
           e == <<>>
<1> HIDE DEF e
<1> USE ChunksAssumption
<1>1. /\ reader[w] = "read" /\ outPipe[w] # <<>>
      /\ outPipe' = [outPipe EXCEPT ![w] = rest]
      /\ UNCHANGED <<chan, inPipe, have, writing, out, frame>>
      /\ UNCHANGED <<pc, kind, child, reader, device>>
  BY DEF ReaderReads, sink, loop, e
<1>2. Head(outPipe[w]) \in Frame /\ rest \in Pieces(PipeSize)
      /\ Len(outPipe[w]) # 0
  BY <1>1, TakePiece DEF QueuesTyped
<1>3. /\ buf[w] \in Pieces(FrameChunks - 1) /\ FrameChunks - 1 \in Nat
      /\ buf[w] \in Seq(Frame) /\ outPipe[w] \in Seq(Frame)
      /\ out[w] \in Seq(Frame)
  BY QueuesAreSeqs DEF QueuesTyped
<1>4. Len(buf[w]) \in Nat /\ Len(buf[w]) <= FrameChunks - 1
  BY <1>3, PiecesAreSeqs
<1>5. got \in Pieces(FrameChunks) /\ Len(got) = Len(buf[w]) + 1
  BY <1>2, <1>3, <1>4, AppendPiece
<1>6. got \in Seq(Frame)
  BY <1>5, PiecesAreSeqs
<1>7. /\ (got \o rest) \o out[w] = Out(w)
      /\ got \o (rest \o out[w]) = Out(w)
      /\ rest \o out[w] \in Seq(Frame) /\ rest \in Seq(Frame)
  <2>1. rest \in Seq(Frame)
    BY <1>2, PiecesAreSeqs
  <2>2. /\ (Append(buf[w], Head(outPipe[w])) \o Tail(outPipe[w])) \o out[w]
             = (buf[w] \o outPipe[w]) \o out[w]
        /\ Append(buf[w], Head(outPipe[w])) \o (Tail(outPipe[w]) \o out[w])
             = (buf[w] \o outPipe[w]) \o out[w]
        /\ Tail(outPipe[w]) \o out[w] \in Seq(Frame)
    <3>1. Cut(buf[w], outPipe[w], out[w])
      BY <1>2, <1>3, CutPiece
    <3>2. QED
      BY <3>1 DEF Cut
  <2>3. QED
    BY <2>1, <2>2 DEF Out
<1>8. WritesInWrite(w)'
  BY <1>1 DEF WritesInWrite
<1>9. outPipe'[w] = rest /\ outPipe' \in [Workers -> Pieces(PipeSize)]
  BY <1>1, <1>2 DEF QueuesTyped
<1>10. /\ ~IsWhole(got) => buf' = [buf EXCEPT ![w] = got] /\ UNCHANGED shown
       /\ IsWhole(got) => /\ buf' = [buf EXCEPT ![w] = e]
                          /\ shown' = [shown EXCEPT ![device[w]] = Last(got)]
  BY DEF ReaderReads, Show, e
<1> HIDE DEF got, rest
<1>11. In(w)' = In(w)
  BY <1>1 DEF In
<1>12. CASE ~IsWhole(got)
  <2>1. got \in Pieces(FrameChunks - 1)
    <3>1. Len(got) <= FrameChunks - 1
      BY <1>4, <1>5, <1>12 DEF IsWhole
    <3>2. QED
      BY <1>3, <1>6, <3>1, PiecesAreSeqs
  <2>2. QueuesTyped' /\ buf'[w] = got
    BY <1>1, <1>9, <1>10, <1>12, <2>1 DEF QueuesTyped
  <2>3. Out(w)' = (got \o rest) \o out[w]
    BY <1>1, <1>9, <2>2 DEF Out
  <2>4. Moved(w)
    BY <1>1, <1>7, <1>10, <1>11, <1>12, <2>3 DEF Moved, SameParts
  <2>5. QED
    BY <1>8, <2>2, <2>4
<1>13. CASE IsWhole(got)
  <2>1. got \in WholeFrames
    BY <1>6, <1>13 DEF WholeFrames
  <2>2. e \in Pieces(FrameChunks - 1) /\ e \in Seq(Frame)
    BY <1>3, EmptyIsPieces, EmptySeq DEF e
  <2>3. buf' \in [Workers -> Pieces(FrameChunks - 1)] /\ buf'[w] = e
    BY <1>10, <1>13, <2>2 DEF QueuesTyped
  <2>4. Out(w) = got \o Out(w)'
    <3>1. Out(w)' = (e \o rest) \o out[w]
      BY <1>1, <1>9, <2>3 DEF Out
    <3>2. e \o rest = rest
      BY <1>7, ConcatEmptySeq DEF e
    <3>3. QED
      BY <1>7, <3>1, <3>2
  <2>5. Last(got) \in 0..MaxFrames
    BY <1>6, <1>13, LastOfWhole
  <2>6. shown' \in [Devices -> 0..MaxFrames]
    BY <1>10, <1>13, <2>5 DEF QueuesTyped
  <2>7. QueuesTyped'
    BY <1>1, <1>9, <2>3, <2>6 DEF QueuesTyped
  <2>8. Shown(w, got)
    BY <1>1, <1>10, <1>11, <1>13, <2>4 DEF Shown, SameParts, Reading
  <2>9. QED
    BY <1>8, <2>1, <2>7, <2>8
<1>14. QED
  BY <1>12, <1>13

LEMMA StepEffect ==
  ASSUME ControlTyped, QueuesTyped, NEW w \in Workers, WritesInWrite(w),
         Step(w)
  PROVE  QueuesTyped' /\ WritesInWrite(w)' /\ Effect(w)
<1>1. CASE \/ GivesUp(w) \/ TakesDirectPath(w) \/ TakesFfmpegPath(w)
           \/ SpawnFails(w) \/ Disconnected(w) \/ Reaps(w) \/ JoinsReader(w)
           \/ Sleeps(w) \/ ReaderOpens(w) \/ ReaderGivesUp(w) \/ ReaderEnds(w)
           \/ ChildBreaks(w) \/ ChildDies(w)
  BY <1>1, QuietEffect DEF Effect
<1>2. CASE TakesKmsPath(w) \/ Spawns(w)
  BY <1>2, RenewedEffect DEF Effect
<1>3. CASE CopiesFrame(w) \/ CopyFails(w) \/ SkipsShortFrame(w)
  BY <1>3, CopiedEffect DEF Effect
<1>4. CASE ReceivesFrame(w)
  BY <1>4, ReceivedEffect DEF Effect
<1>5. CASE Writes(w) \/ ChildWrites(w)
  BY <1>5, MovedEffect DEF Effect
<1>6. CASE WriteFails(w)
  BY <1>6, DroppedEffect DEF Effect
<1>7. CASE ChildReads(w)
  BY <1>7, ChildReadsEffect DEF Effect
<1>8. CASE ReaderReads(w)
  BY <1>8, ReaderReadsEffect DEF Effect
<1>9. QED
  BY <1>1, <1>2, <1>3, <1>4, <1>5, <1>6, <1>7, <1>8
     DEF Step, Worker, Reader, Child

-----------------------------------------------------------------------------
(***************************************************************************)
(* The capture loop and the queues.                                        *)
(***************************************************************************)
QueueInv == QueuesTyped /\ \A w \in Workers : WritesInWrite(w)

\* A new frame of the capture device, of as many pieces as it delivered.
Delivered(size) == [n \in 1..size |-> frame + 1]

LEMMA DeliveredIsFrame ==
  ASSUME frame \in 0..MaxFrames, frame < MaxFrames, NEW size \in 1..FrameChunks
  PROVE  /\ Delivered(size) \in Seq(Frame) /\ Len(Delivered(size)) = size
         /\ \A n \in 1..size : Delivered(size)[n] = frame + 1
         /\ <<Delivered(size)>> \in Channels
<1> USE ChunksAssumption, BoundsAssumption
<1>1. frame + 1 \in Frame /\ size \in Nat /\ size <= FrameChunks /\ size # 0
  BY DEF Frame
<1>2. Delivered(size) \in [1..size -> Frame]
  BY <1>1 DEF Delivered
<1>3. Delivered(size) \in Seq(Frame) /\ Len(Delivered(size)) = size
  BY <1>1, <1>2
<1>4. \A n \in 1..size : Delivered(size)[n] = frame + 1
  BY DEF Delivered
<1> HIDE DEF Delivered
<1>5. Delivered(size) \in Pieces(FrameChunks)
  BY <1>1, <1>3, PiecesAreSeqs
<1>6. Delivered(size) # <<>>
  BY <1>1, <1>3, EmptySeq
<1>7. <<Delivered(size)>> \in Channels
  BY <1>5, <1>6 DEF Channels
<1>8. QED
  BY <1>3, <1>4, <1>7

\* The steps of the capture loop that neither build sinks nor offer a frame.
LoopRests ==
  UNCHANGED <<Streams, chan, shown, frame, pc, kind, child, reader, device,
              shortSeen>>

LEMMA LoopRestsElsewhere ==
  ASSUME StopSinks \/ Stopping \/ Ended \/ UNCHANGED vars
  PROVE  LoopRests
BY DEF StopSinks, Stopping, CloseChannel, JoinWorker, SinksStopped, Ended, vars,
   loop, sink, pipes, Streams, LoopRests

LEMMA QueueStep == ControlInv /\ QueueInv /\ [Next]_vars => QueueInv'
<1> SUFFICES ASSUME ControlInv, QueueInv, [Next]_vars PROVE QueueInv'
  OBVIOUS
<1> USE DEF QueueInv
<1>1. ASSUME NEW list \in Lists, Build(list) PROVE QueueInv'
  <2>1. /\ mode = "build" /\ UNCHANGED <<Streams, shown, frame>>
    BY <1>1 DEF Build, Streams, pipes
  <2>2. chan' = [w \in Workers |-> <<>>]
        /\ pc' = [w \in Workers |-> IF w \in Range(sinks') THEN "start" ELSE pc[w]]
    BY <1>1, BuildTakes DEF ControlInv
  <2>3. QueuesTyped'
    BY <2>1, <2>2 DEF QueuesTyped, Channels, Streams, pipes
  <2>4. ASSUME NEW w \in Workers PROVE WritesInWrite(w)'
    <3>1. pc[w] # "write"
      BY <2>1 DEF ControlInv, SinksHold, Lives
    <3>2. pc'[w] # "write"
      BY <2>2, <3>1
    <3>3. writing[w] = <<>>
      BY <3>1 DEF WritesInWrite
    <3>4. QED
      BY <2>1, <3>2, <3>3 DEF WritesInWrite, Streams
  <2>5. QED
    BY <2>3, <2>4
<1>2. CASE Offer
  <2>1. /\ frame < MaxFrames /\ frame' = frame + 1
        /\ UNCHANGED <<pc, Streams, shown>>
    BY <1>2 DEF Offer, Streams, pipes
  <2>2. PICK due \in SUBSET Range(sinks), size \in 1..FrameChunks :
          chan' = [w \in Workers |-> IF w \in due /\ Accepts(w)
                                    THEN <<Delivered(size)>> ELSE chan[w]]
    BY <1>2 DEF Offer, Delivered
  <2>3. <<Delivered(size)>> \in Channels
    BY <2>1, DeliveredIsFrame DEF QueuesTyped
  <2>4. chan' \in [Workers -> Channels]
    BY <2>2, <2>3 DEF QueuesTyped
  <2>5. frame' \in 0..MaxFrames
    BY <2>1, BoundsAssumption DEF QueuesTyped
  <2>6. QueuesTyped'
    BY <2>1, <2>4, <2>5 DEF QueuesTyped, Streams, pipes
  <2>7. \A w \in Workers : WritesInWrite(w)'
    BY <2>1 DEF WritesInWrite, Streams
  <2>8. QED
    BY <2>6, <2>7
<1>3. CASE StopSinks \/ Stopping \/ Ended \/ UNCHANGED vars
  <2>1. LoopRests
    BY <1>3, LoopRestsElsewhere
  <2>2. QED
    BY <2>1 DEF LoopRests, Streams, pipes, QueuesTyped, WritesInWrite
<1>4. ASSUME NEW w \in Workers, Step(w) PROVE QueueInv'
  <2>1. QueuesTyped' /\ WritesInWrite(w)'
    BY <1>4, StepEffect DEF ControlInv
  <2>2. \A v \in Workers \ {w} : pc'[v] = pc[v] /\ writing'[v] = writing[v]
    BY <1>4, StepIsLocal, QueuesAreLocal DEF ControlInv
  <2>3. \A v \in Workers \ {w} : WritesInWrite(v)'
    BY <2>2 DEF WritesInWrite
  <2>4. QED
    BY <2>1, <2>3
<1>5. QED
  BY <1>1, <1>2, <1>3, <1>4 DEF Next, Step

LEMMA QueueInit == Init => QueueInv
<1> SUFFICES ASSUME Init PROVE QueueInv
  OBVIOUS
<1> USE ChunksAssumption, BoundsAssumption
<1>1. /\ <<>> \in Pieces(PipeSize) /\ <<>> \in Pieces(FrameChunks)
      /\ <<>> \in Pieces(FrameChunks - 1)
  BY EmptyIsPieces
<1>2. frame \in 0..MaxFrames /\ shown \in [Devices -> 0..MaxFrames]
  BY DEF Init
<1>3. QueuesTyped
  BY <1>1, <1>2 DEF Init, QueuesTyped, Channels
<1>4. QED
  BY <1>3 DEF Init, QueueInv, WritesInWrite

FlagsTyped ==
  leave \in BOOLEAN /\ open \in [Workers -> BOOLEAN] /\ shortSeen \in BOOLEAN

Counted == builds \in 0..MaxBuilds /\ crashes \in 0..MaxCrashes

LEMMA StepCounts ==
  ASSUME NEW w \in Workers, Step(w)
  PROVE  /\ UNCHANGED <<leave, builds, open, shortSeen>>
         /\ crashes' = crashes \/ (crashes < MaxCrashes /\ crashes' = crashes + 1)
<1> USE DEF loop, sink
<1>1. CASE GivesUp(w) \/ TakesDirectPath(w) \/ TakesFfmpegPath(w)
  BY <1>1 DEF GivesUp, TakesDirectPath, TakesFfmpegPath
<1>2. CASE TakesKmsPath(w) \/ Spawns(w) \/ SpawnFails(w)
  BY <1>2 DEF TakesKmsPath, Spawns, SpawnFails
<1>3. CASE CopiesFrame(w) \/ CopyFails(w) \/ SkipsShortFrame(w)
  BY <1>3 DEF CopiesFrame, CopyFails, SkipsShortFrame
<1>4. CASE ReceivesFrame(w) \/ Writes(w) \/ WriteFails(w)
  BY <1>4 DEF ReceivesFrame, Writes, WriteFails
<1>5. CASE Disconnected(w) \/ Reaps(w) \/ JoinsReader(w) \/ Sleeps(w)
  BY <1>5 DEF Disconnected, Reaps, JoinsReader, Sleeps
<1>6. CASE Reader(w)
  BY <1>6 DEF Reader, ReaderOpens, ReaderGivesUp, ReaderReads, ReaderEnds
<1>7. CASE Child(w) \/ ChildDies(w)
  BY <1>7 DEF Child, ChildReads, ChildWrites, ChildBreaks, ChildDies
<1>8. QED
  BY <1>1, <1>2, <1>3, <1>4, <1>5, <1>6, <1>7 DEF Step, Worker

LEMMA FlagsStep == ControlInv /\ FlagsTyped /\ [Next]_vars => FlagsTyped'
<1> SUFFICES ASSUME ControlInv, FlagsTyped, [Next]_vars PROVE FlagsTyped'
  OBVIOUS
<1> USE DEF FlagsTyped
<1>1. ASSUME NEW list \in Lists, Build(list) PROVE FlagsTyped'
  <2>1. UNCHANGED <<leave, shortSeen>>
    BY <1>1 DEF Build
  <2>2. open' = [w \in Workers |-> w \in Range(sinks')]
    BY <1>1, BuildTakes DEF ControlInv
  <2>3. open' \in [Workers -> BOOLEAN]
    BY <2>2
  <2>4. QED
    BY <2>1, <2>3
<1>2. CASE Offer
  <2>1. UNCHANGED <<leave, open>>
    BY <1>2 DEF Offer
  <2>2. PICK size \in 1..FrameChunks :
          shortSeen' = (shortSeen \/ size < FrameChunks)
    BY <1>2 DEF Offer
  <2>3. shortSeen' \in BOOLEAN
    BY <2>2, Zenon
  <2>4. QED
    BY <2>1, <2>3, Zenon
<1>3. CASE StopSinks
  <2>1. leave' \in {TRUE, builds = MaxBuilds} /\ UNCHANGED <<open, shortSeen>>
    BY <1>3 DEF StopSinks, sink
  <2>2. leave' \in BOOLEAN
    BY <2>1, Zenon
  <2>3. QED
    BY <2>1, <2>2, Zenon
<1>4. CASE CloseChannel
  BY <1>4 DEF CloseChannel, loop
<1>5. CASE JoinWorker \/ SinksStopped \/ Ended \/ UNCHANGED vars
  BY <1>5 DEF JoinWorker, SinksStopped, Ended, vars, loop, sink
<1>6. ASSUME NEW w \in Workers, Step(w) PROVE FlagsTyped'
  BY <1>6, StepCounts
<1>7. QED
  BY <1>1, <1>2, <1>3, <1>4, <1>5, <1>6 DEF Next, Stopping, Step

LEMMA CountedStep == Counted /\ [Next]_vars => Counted'
<1> SUFFICES ASSUME Counted, [Next]_vars PROVE Counted'
  OBVIOUS
<1> USE BoundsAssumption DEF Counted
<1>1. ASSUME NEW list \in Lists, Build(list) PROVE Counted'
  BY <1>1 DEF Build
<1>2. CASE Offer \/ StopSinks \/ Stopping \/ Ended \/ UNCHANGED vars
  BY <1>2 DEF Offer, StopSinks, Stopping, CloseChannel, JoinWorker,
     SinksStopped, Ended, vars, loop
<1>3. ASSUME NEW w \in Workers, Step(w) PROVE Counted'
  BY <1>3, StepCounts
<1>4. QED
  BY <1>1, <1>2, <1>3 DEF Next, Step

(***************************************************************************)
(* The model is typed; in particular a channel never holds two frames, the *)
(* pipes are never overfull, and a child never holds a whole frame that it *)
(* has not put out.                                                        *)
(***************************************************************************)
THEOREM TypeCorrect == Spec => []TypeOK
<1>1. ControlInv /\ QueueInv /\ FlagsTyped /\ Counted => TypeOK
  <2> SUFFICES ASSUME ControlInv, QueueInv, FlagsTyped, Counted PROVE TypeOK
    OBVIOUS
  <2>1. Range(sinks) \subseteq Workers /\ IsInjective(sinks)
    <3>1. sinks \in Seq(Workers)
      BY DEF ControlInv, SinksTyped
    <3>2. DOMAIN sinks = 1..Len(sinks)
      BY <3>1, LenProperties
    <3>3. QED
      BY <3>1, <3>2 DEF ControlInv, SinksApart, Range, IsInjective
  <2>2. ASSUME NEW w \in Workers
        PROVE  Len(chan[w]) <= 1 /\ Range(chan[w]) \subseteq Pieces(FrameChunks)
    <3>1. chan[w] \in Channels
      BY DEF QueueInv, QueuesTyped
    <3>2. CASE chan[w] = <<>>
      BY <3>2 DEF Range
    <3>3. CASE chan[w] # <<>>
      <4>1. PICK f \in Pieces(FrameChunks) \ {<<>>} : chan[w] = <<f>>
        BY <3>1, <3>3 DEF Channels
      <4>2. Len(chan[w]) = 1 /\ Range(chan[w]) = {f}
        BY <4>1 DEF Range
      <4>3. QED
        BY <4>2
    <3>4. QED
      BY <3>2, <3>3
  <2>3. ASSUME NEW w \in Workers
        PROVE  (pc[w] = "write") = (writing[w] # <<>>)
    BY DEF QueueInv, WritesInWrite
  <2>4. ASSUME NEW w \in Workers
        PROVE  /\ writing[w] \in Pieces(FrameChunks)
               /\ {inPipe[w], outPipe[w]} \subseteq Pieces(PipeSize)
               /\ {have[w], buf[w]} \subseteq Pieces(FrameChunks - 1)
               /\ out[w] \in Pieces(FrameChunks)
    BY DEF QueueInv, QueuesTyped
  <2>5. /\ mode \in {"build", "run", "stop", "left"}
        /\ pc \in [Workers -> WorkerPC]
        /\ device \in [Workers -> Devices] /\ kind \in [Workers -> Kinds]
        /\ child \in [Workers -> {"none", "running", "dead"}]
        /\ reader \in [Workers -> {"none", "open", "read", "done"}]
    BY DEF ControlInv, ControlTyped
  <2>6. frame \in 0..MaxFrames /\ shown \in [Devices -> 0..MaxFrames]
    BY DEF QueueInv, QueuesTyped
  <2>7. QED
    BY <2>1, <2>2, <2>3, <2>4, <2>5, <2>6, Zenon
       DEF TypeOK, FlagsTyped, Counted
<1>2. Init => FlagsTyped /\ Counted
  <2> SUFFICES ASSUME Init PROVE FlagsTyped /\ Counted
    OBVIOUS
  <2>1. leave = FALSE /\ shortSeen = FALSE /\ open = [w \in Workers |-> FALSE]
    BY DEF Init
  <2>2. open \in [Workers -> BOOLEAN]
    BY <2>1
  <2>3. FlagsTyped
    BY <2>1, <2>2, Zenon DEF FlagsTyped
  <2>4. Counted
    BY BoundsAssumption DEF Init, Counted
  <2>5. QED
    BY <2>3, <2>4
<1>3. QED
  BY <1>1, <1>2, ControlInit, ControlStep, QueueInit, QueueStep, FlagsStep,
     CountedStep, PTL DEF Spec

-----------------------------------------------------------------------------
(***************************************************************************)
(* Positions in a stream, modulo the size of a frame.                      *)
(***************************************************************************)
LEMMA DivMod ==
  ASSUME NEW n \in Nat
  PROVE  /\ n = FrameChunks * (n \div FrameChunks) + (n % FrameChunks)
         /\ n % FrameChunks \in 0..(FrameChunks - 1)
         /\ n \div FrameChunks \in Nat
<1> USE ChunksAssumption
<1>1. n = FrameChunks * (n \div FrameChunks) + (n % FrameChunks)
  OBVIOUS
<1>2. n % FrameChunks \in 0..(FrameChunks - 1)
  OBVIOUS
<1>3. n \div FrameChunks \in Nat
  OBVIOUS
<1>4. QED
  BY <1>1, <1>2, <1>3

LEMMA OneRemainder ==
  ASSUME NEW p \in Int, NEW q \in Int, NEW r \in 0..(FrameChunks - 1),
         NEW s \in 0..(FrameChunks - 1),
         FrameChunks * p + s = FrameChunks * q + r
  PROVE  r = s
<1> USE ChunksAssumption
<1>1. CASE p > q
  <2>1. p - q >= 1
    BY <1>1
  <2>2. FrameChunks * (p - q) = r - s
    OBVIOUS
  <2>3. FrameChunks * (p - q) >= FrameChunks
    BY <2>1
  <2>4. QED
    BY <2>2, <2>3
<1>2. CASE p < q
  <2>1. q - p >= 1
    BY <1>2
  <2>2. FrameChunks * (q - p) = s - r
    OBVIOUS
  <2>3. FrameChunks * (q - p) >= FrameChunks
    BY <2>1
  <2>4. QED
    BY <2>2, <2>3
<1>3. CASE p = q
  BY <1>3
<1>4. QED
  BY <1>1, <1>2, <1>3

\* Whole frames do not move the positions of the others.
LEMMA AlignedSum ==
  ASSUME NEW m \in Nat, NEW n \in Nat, m % FrameChunks = 0
  PROVE  (m + n) % FrameChunks = n % FrameChunks
<1> USE ChunksAssumption
<1> DEFINE t == m + n
           p == m \div FrameChunks
           q == n \div FrameChunks
           u == t \div FrameChunks
<1>1. t \in Nat
  OBVIOUS
<1>2. m = FrameChunks * p /\ p \in Nat
  BY DivMod
<1>3. n = FrameChunks * q + (n % FrameChunks) /\ q \in Nat
      /\ n % FrameChunks \in 0..(FrameChunks - 1)
  BY DivMod
<1>4. t = FrameChunks * u + (t % FrameChunks) /\ u \in Nat
      /\ t % FrameChunks \in 0..(FrameChunks - 1)
  BY <1>1, DivMod
<1>5. t = FrameChunks * (p + q) + (n % FrameChunks)
  BY <1>2, <1>3
<1> HIDE DEF t, p, q, u
<1>6. FrameChunks * u + (t % FrameChunks)
        = FrameChunks * (p + q) + (n % FrameChunks)
  BY <1>4, <1>5
<1>7. t % FrameChunks = n % FrameChunks
  <2> DEFINE r == n % FrameChunks
             z == t % FrameChunks
             v == p + q
  <2>1. /\ r \in 0..(FrameChunks - 1) /\ z \in 0..(FrameChunks - 1)
        /\ v \in Int /\ u \in Int
    BY <1>2, <1>3, <1>4
  <2>2. FrameChunks * u + z = FrameChunks * v + r
    BY <1>6
  <2> HIDE DEF r, z, v
  <2>3. z = r
    BY <2>1, <2>2, OneRemainder
  <2>4. QED
    BY <2>3 DEF r, z
<1>8. QED
  BY <1>7 DEF t

LEMMA FrameAligned ==
  0 % FrameChunks = 0 /\ FrameChunks % FrameChunks = 0
BY ChunksAssumption

(***************************************************************************)
(* Streams that are cut at frames.                                         *)
(***************************************************************************)
LEMMA ConcatAt ==
  ASSUME NEW s \in Seq(Frame), NEW t \in Seq(Frame)
  PROVE  /\ s \o t \in Seq(Frame)
         /\ Len(s) \in Nat /\ Len(t) \in Nat /\ Len(s \o t) = Len(s) + Len(t)
         /\ \A n \in 1..Len(s) : (s \o t)[n] = s[n]
         /\ \A n \in 1..Len(t) : (s \o t)[Len(s) + n] = t[n]
         /\ \A n \in 1..Len(s) : s[n] \in Frame
         /\ \A n \in 1..Len(t) : t[n] \in Frame
<1>1. Len(s) \in Nat /\ Len(t) \in Nat
  OBVIOUS
<1>2. /\ s \o t \in Seq(Frame) /\ Len(s \o t) = Len(s) + Len(t)
      /\ \A i \in 1..(Len(s) + Len(t)) :
           (s \o t)[i] = IF i <= Len(s) THEN s[i] ELSE t[i - Len(s)]
  BY ConcatProperties
<1>3. \A n \in 1..Len(s) : n \in 1..(Len(s) + Len(t)) /\ n <= Len(s)
  BY <1>1
<1>4. \A n \in 1..Len(t) :
        /\ Len(s) + n \in 1..(Len(s) + Len(t)) /\ ~(Len(s) + n <= Len(s))
        /\ (Len(s) + n) - Len(s) = n
  BY <1>1
<1>5. \A n \in 1..Len(s) : s[n] \in Frame
  BY ElementOfSeq
<1>6. \A n \in 1..Len(t) : t[n] \in Frame
  BY ElementOfSeq
<1>7. \A n \in 1..Len(s) : (s \o t)[n] = s[n]
  BY <1>2, <1>3
<1>8. \A n \in 1..Len(t) : (s \o t)[Len(s) + n] = t[n]
  BY <1>2, <1>4
<1>9. QED
  BY <1>1, <1>2, <1>5, <1>6, <1>7, <1>8

LEMMA CutParts ==
  ASSUME NEW s \in Seq(Frame), NEW t \in Seq(Frame), CutAtFrames(s \o t)
  PROVE  CutAtFrames(s)
<1> DEFINE c == s \o t
<1>1. /\ Len(s) \in Nat /\ Len(t) \in Nat /\ Len(c) = Len(s) + Len(t)
      /\ \A n \in 1..Len(s) : c[n] = s[n]
  BY ConcatAt
<1> HIDE DEF c
<1>2. SUFFICES ASSUME NEW n \in 1..(Len(s) - 1), s[n] # s[n + 1]
               PROVE  n % FrameChunks = 0
  BY DEF CutAtFrames
<1>3. n \in 1..Len(s) /\ n + 1 \in 1..Len(s) /\ n \in 1..(Len(c) - 1)
  BY <1>1, <1>2
<1>4. c[n] # c[n + 1]
  BY <1>1, <1>2, <1>3
<1>5. CutAtFrames(c)
  BY DEF c
<1>6. QED
  BY <1>3, <1>4, <1>5 DEF CutAtFrames

LEMMA CutRest ==
  ASSUME NEW s \in Seq(Frame), NEW t \in Seq(Frame), CutAtFrames(s \o t),
         Len(s) % FrameChunks = 0
  PROVE  CutAtFrames(t)
<1> DEFINE c == s \o t
           l == Len(s)
<1>1. /\ l \in Nat /\ Len(t) \in Nat /\ Len(c) = l + Len(t)
      /\ \A n \in 1..Len(t) : c[l + n] = t[n]
  BY ConcatAt
<1>2. CutAtFrames(c) /\ l % FrameChunks = 0
  OBVIOUS
<1> HIDE DEF c, l
<1>3. SUFFICES ASSUME NEW n \in 1..(Len(t) - 1), t[n] # t[n + 1]
               PROVE  n % FrameChunks = 0
  BY DEF CutAtFrames
<1>4. n \in 1..Len(t) /\ n + 1 \in 1..Len(t) /\ l + n \in 1..(Len(c) - 1)
      /\ (l + n) + 1 = l + (n + 1) /\ n \in Nat
  BY <1>1, <1>3
<1>5. c[l + n] # c[(l + n) + 1]
  BY <1>1, <1>3, <1>4
<1>6. (l + n) % FrameChunks = 0
  BY <1>2, <1>4, <1>5 DEF CutAtFrames
<1>7. QED
  BY <1>1, <1>2, <1>4, <1>6, AlignedSum

LEMMA CutJoin ==
  ASSUME NEW s \in Seq(Frame), NEW t \in Seq(Frame), CutAtFrames(s),
         CutAtFrames(t), Len(s) % FrameChunks = 0
  PROVE  CutAtFrames(s \o t)
<1> DEFINE c == s \o t
           l == Len(s)
<1>1. /\ l \in Nat /\ Len(t) \in Nat /\ Len(c) = l + Len(t)
      /\ \A n \in 1..l : c[n] = s[n]
      /\ \A n \in 1..Len(t) : c[l + n] = t[n]
  BY ConcatAt
<1>2. l % FrameChunks = 0 /\ l = Len(s)
  OBVIOUS
<1> HIDE DEF c, l
<1>3. SUFFICES ASSUME NEW n \in 1..(Len(c) - 1), c[n] # c[n + 1]
               PROVE  n % FrameChunks = 0
  BY DEF CutAtFrames, c
<1>4. n \in Nat
  OBVIOUS
<1>5. CASE n < l
  <2>1. n \in 1..l /\ n + 1 \in 1..l /\ n \in 1..(l - 1)
    BY <1>1, <1>4, <1>5
  <2>2. s[n] # s[n + 1]
    BY <1>1, <1>3, <2>1
  <2>3. QED
    BY <1>2, <2>1, <2>2 DEF CutAtFrames
<1>6. CASE n = l
  BY <1>2, <1>6
<1>7. CASE n > l
  <2> DEFINE m == n - l
  <2>1. /\ m \in Nat /\ m \in 1..Len(t) /\ m + 1 \in 1..Len(t)
        /\ m \in 1..(Len(t) - 1) /\ n = l + m /\ n + 1 = l + (m + 1)
    BY <1>1, <1>4, <1>7
  <2> HIDE DEF m
  <2>2. t[m] # t[m + 1]
    BY <1>1, <1>3, <2>1
  <2>3. m % FrameChunks = 0
    BY <2>1, <2>2 DEF CutAtFrames
  <2>4. QED
    BY <1>1, <1>2, <2>1, <2>3, AlignedSum
<1>8. QED
  BY <1>1, <1>4, <1>5, <1>6, <1>7

LEMMA CutTrivial ==
  /\ CutAtFrames(<<>>)
  /\ \A size \in 1..FrameChunks : frame \in 0..MaxFrames /\ frame < MaxFrames
       => CutAtFrames(Delivered(size))
<1>1. CutAtFrames(<<>>)
  BY DEF CutAtFrames
<1>2. ASSUME NEW size \in 1..FrameChunks, frame \in 0..MaxFrames,
             frame < MaxFrames
      PROVE  CutAtFrames(Delivered(size))
  <2>1. /\ Len(Delivered(size)) = size
        /\ \A n \in 1..size : Delivered(size)[n] = frame + 1
    BY <1>2, DeliveredIsFrame
  <2>2. ASSUME NEW n \in 1..(size - 1)
        PROVE  Delivered(size)[n] = Delivered(size)[n + 1]
    <3>1. n \in 1..size /\ n + 1 \in 1..size
      BY ChunksAssumption
    <3>2. QED
      BY <2>1, <3>1
  <2>3. QED
    BY <2>1, <2>2 DEF CutAtFrames
<1>3. QED
  BY <1>1, <1>2

-----------------------------------------------------------------------------
(***************************************************************************)
(* Frames stay whole.  What comes out of a child is whole frames whatever  *)
(* goes in; what goes in is, while the worker goes on with a child.        *)
(***************************************************************************)
Streaming(w) == pc[w] \in {"recv", "write"} /\ kind[w] # "direct"

WholeOut(w) == Len(Out(w)) % FrameChunks = 0

WholeChannel(w) ==
  chan[w] # <<>> => IsWhole(chan[w][1]) /\ CutAtFrames(chan[w][1])

WholeLine(w) ==
  /\ CutAtFrames(In(w)) /\ CutAtFrames(Out(w))
  /\ Streaming(w) => Len(In(w)) % FrameChunks = 0

WholeInv ==
  /\ \A w \in Workers : WholeOut(w)
  /\ ~shortSeen => \A w \in Workers : WholeChannel(w) /\ WholeLine(w)

StreamsTyped == \A w \in Workers : In(w) \in Seq(Frame) /\ Out(w) \in Seq(Frame)

LEMMA QueuesTypeStreams == QueuesTyped => StreamsTyped
BY QueuesAreSeqs DEF StreamsTyped

LEMMA QueuesTypeStreamsNext == QueuesTyped' => StreamsTyped'
<1>1. QueuesTyped => StreamsTyped
  BY QueuesTypeStreams
<1>2. QED
  BY <1>1, PTL

\* What a step does to the stream of its worker; for the others it is as it was.
LEMMA OthersKeep ==
  ASSUME ControlTyped, QueuesTyped, NEW w \in Workers, Step(w),
         NEW v \in Workers \ {w}
  PROVE  /\ In(v)' = In(v) /\ Out(v)' = Out(v) /\ chan'[v] = chan[v]
         /\ pc'[v] = pc[v] /\ kind'[v] = kind[v] /\ child'[v] = child[v]
         /\ reader'[v] = reader[v] /\ device'[v] = device[v]
<1>1. /\ chan'[v] = chan[v] /\ writing'[v] = writing[v]
      /\ inPipe'[v] = inPipe[v] /\ outPipe'[v] = outPipe[v]
      /\ have'[v] = have[v] /\ out'[v] = out[v] /\ buf'[v] = buf[v]
  BY QueuesAreLocal
<1>2. /\ pc'[v] = pc[v] /\ kind'[v] = kind[v] /\ child'[v] = child[v]
      /\ reader'[v] = reader[v] /\ device' = device
  BY StepIsLocal
<1>3. QED
  BY <1>1, <1>2 DEF In, Out

LEMMA WholeFrameAligned ==
  ASSUME NEW got \in WholeFrames
  PROVE  got \in Seq(Frame) /\ Len(got) = FrameChunks /\ Len(got) # 0
         /\ Len(got) % FrameChunks = 0
BY ChunksAssumption, FrameAligned DEF WholeFrames, IsWhole

LEMMA WholeOutEffect ==
  ASSUME NEW w \in Workers, StreamsTyped, StreamsTyped', Effect(w), WholeOut(w)
  PROVE  WholeOut(w)'
<1> USE DEF WholeOut
<1>1. /\ Out(w) \in Seq(Frame) /\ Out(w)' \in Seq(Frame)
      /\ Len(Out(w)) \in Nat /\ Len(Out(w)') \in Nat
  BY DEF StreamsTyped
<1>2. CASE Quiet(w) \/ Copied(w) \/ Received(w) \/ Moved(w) \/ Dropped(w)
  <2>1. UNCHANGED Streams => Out(w)' = Out(w)
    BY DEF Streams, pipes, Out
  <2> HIDE DEF WholeOut
  <2>2. Out(w)' = Out(w)
    BY <1>2, <2>1 DEF Quiet, Copied, Received, Moved, Dropped
  <2>3. QED
    BY <2>2 DEF WholeOut
<1>3. CASE Renewed(w)
  BY <1>3, FrameAligned DEF Renewed
<1>4. ASSUME NEW got \in WholeFrames, Played(w, got) PROVE Len(Out(w)') % FrameChunks = 0
  BY <1>4 DEF Played
<1>5. ASSUME NEW got \in WholeFrames, Forwarded(w, got)
      PROVE  Len(Out(w)') % FrameChunks = 0
  <2>1. Out(w)' = Out(w) \o got
    BY <1>5 DEF Forwarded
  <2>2. /\ got \in Seq(Frame) /\ Len(got) % FrameChunks = 0
        /\ Len(got) \in Nat
    BY WholeFrameAligned, ChunksAssumption
  <2>3. Len(Out(w)') = Len(Out(w)) + Len(got)
    BY <1>1, <2>1, <2>2, ConcatAt
  <2>4. QED
    BY <1>1, <2>2, <2>3, AlignedSum
<1>6. ASSUME NEW got \in WholeFrames, Shown(w, got)
      PROVE  Len(Out(w)') % FrameChunks = 0
  <2>1. Out(w) = got \o Out(w)'
    BY <1>6 DEF Shown
  <2>2. /\ got \in Seq(Frame) /\ Len(got) % FrameChunks = 0
        /\ Len(got) \in Nat
    BY WholeFrameAligned, ChunksAssumption
  <2>3. Len(Out(w)) = Len(got) + Len(Out(w)')
    BY <1>1, <2>1, <2>2, ConcatAt
  <2>4. QED
    BY <1>1, <2>2, <2>3, AlignedSum
<1>7. QED
  BY <1>2, <1>3, <1>4, <1>5, <1>6 DEF Effect

LEMMA WholeLineEffect ==
  ASSUME QueuesTyped, NEW w \in Workers, StreamsTyped, StreamsTyped',
         Effect(w), WholeOut(w), WholeChannel(w), WholeLine(w)
  PROVE  WholeChannel(w)' /\ WholeLine(w)'
<1> DEFINE in == In(w)
           inN == In(w)'
           ou == Out(w)
           ouN == Out(w)'
<1>1. /\ in \in Seq(Frame) /\ inN \in Seq(Frame)
      /\ ou \in Seq(Frame) /\ ouN \in Seq(Frame)
      /\ Len(in) \in Nat /\ Len(inN) \in Nat
      /\ Len(ou) \in Nat /\ Len(ouN) \in Nat
  BY DEF StreamsTyped
<1>2. /\ CutAtFrames(in) /\ CutAtFrames(ou) /\ Len(ou) % FrameChunks = 0
      /\ Streaming(w) => Len(in) % FrameChunks = 0
  BY DEF WholeLine, WholeOut
<1>3. SUFFICES /\ WholeChannel(w)'
               /\ CutAtFrames(inN) /\ CutAtFrames(ouN)
               /\ Streaming(w)' => Len(inN) % FrameChunks = 0
  BY DEF WholeLine
<1>4. CASE Quiet(w)
  <2>1. inN = in /\ ouN = ou /\ chan' = chan
    BY <1>4 DEF Quiet, Streams, pipes, In, Out
  <2>2. Streaming(w)' => Streaming(w)
    BY <1>4 DEF Quiet, Streaming
  <2> HIDE DEF in, inN, ou, ouN
  <2>3. QED
    BY <1>2, <2>1, <2>2 DEF WholeChannel
<1>5. CASE Renewed(w)
  <2>1. inN = <<>> /\ ouN = <<>> /\ chan' = chan
    BY <1>5 DEF Renewed
  <2> HIDE DEF in, inN, ou, ouN
  <2>2. CutAtFrames(inN) /\ CutAtFrames(ouN) /\ Len(inN) = 0
    BY <2>1, CutTrivial
  <2>3. QED
    BY <2>1, <2>2, FrameAligned DEF WholeChannel
<1>6. CASE Copied(w)
  <2>1. inN = in /\ ouN = ou /\ chan' = [chan EXCEPT ![w] = <<>>]
    BY <1>6 DEF Copied, Streams, pipes, In, Out
  <2>2. Streaming(w)' => Streaming(w)
    BY <1>6 DEF Copied, Streaming, SameParts
  <2>3. chan'[w] = <<>>
    BY <2>1 DEF QueuesTyped
  <2> HIDE DEF in, inN, ou, ouN
  <2>4. QED
    BY <1>2, <2>1, <2>2, <2>3 DEF WholeChannel
<1>7. CASE Received(w)
  <2> DEFINE f == chan[w][1]
  <2>1. /\ chan[w] # <<>> /\ chan' = [chan EXCEPT ![w] = <<>>]
        /\ inN = in \o f /\ ouN = ou /\ Streaming(w)
    BY <1>7 DEF Received, Streaming
  <2>2. chan'[w] = <<>>
    BY <2>1 DEF QueuesTyped
  <2>3. f \in Seq(Frame) /\ CutAtFrames(f) /\ Len(f) = FrameChunks
    BY <2>1, ChannelHoldsFrame DEF WholeChannel, IsWhole
  <2> HIDE DEF in, inN, ou, ouN, f
  <2>4. CutAtFrames(inN)
    BY <1>1, <1>2, <2>1, <2>3, CutJoin
  <2>5. Len(inN) % FrameChunks = 0
    <3>1. Len(inN) = Len(in) + FrameChunks /\ FrameChunks \in Nat
      BY <1>1, <2>1, <2>3, ConcatAt, ChunksAssumption
    <3>2. QED
      BY <1>1, <1>2, <2>1, <3>1, AlignedSum, FrameAligned
  <2>6. QED
    BY <1>2, <2>1, <2>2, <2>4, <2>5 DEF WholeChannel
<1>8. CASE Moved(w)
  <2>1. inN = in /\ ouN = ou /\ chan' = chan
    BY <1>8 DEF Moved
  <2>2. Streaming(w)' => Streaming(w)
    BY <1>8 DEF Moved, Streaming, SameParts
  <2> HIDE DEF in, inN, ou, ouN
  <2>3. QED
    BY <1>2, <2>1, <2>2 DEF WholeChannel
<1>9. CASE Dropped(w)
  <2>1. in = inN \o writing[w] /\ ouN = ou /\ chan' = chan
    BY <1>9 DEF Dropped
  <2>2. ~Streaming(w)'
    BY <1>9 DEF Dropped, Streaming
  <2>3. writing[w] \in Seq(Frame)
    BY QueuesAreSeqs
  <2> HIDE DEF in, inN, ou, ouN
  <2>4. CutAtFrames(inN)
    BY <1>1, <1>2, <2>1, <2>3, CutParts
  <2>5. QED
    BY <1>2, <2>1, <2>2, <2>4 DEF WholeChannel
<1>10. ASSUME NEW got \in WholeFrames, in = got \o inN
       PROVE  /\ CutAtFrames(got) /\ CutAtFrames(inN)
              /\ Streaming(w) => Len(inN) % FrameChunks = 0
  <2>1. /\ got \in Seq(Frame) /\ Len(got) % FrameChunks = 0
        /\ Len(got) = FrameChunks /\ Len(got) \in Nat
    BY WholeFrameAligned, ChunksAssumption
  <2> HIDE DEF in, inN, ou, ouN
  <2>2. CutAtFrames(got \o inN)
    BY <1>2, <1>10
  <2>3. CutAtFrames(got)
    BY <1>1, <2>1, <2>2, CutParts
  <2>4. CutAtFrames(inN)
    BY <1>1, <2>1, <2>2, CutRest
  <2>5. Len(in) = Len(got) + Len(inN)
    BY <1>1, <1>10, <2>1, ConcatAt
  <2>6. Len(in) % FrameChunks = Len(inN) % FrameChunks
    BY <1>1, <2>1, <2>5, AlignedSum
  <2>7. QED
    BY <1>2, <2>3, <2>4, <2>6
<1>11. ASSUME NEW got \in WholeFrames, Played(w, got) \/ Forwarded(w, got)
                                       \/ Shown(w, got)
       PROVE  chan' = chan /\ (Streaming(w)' => Streaming(w))
  BY <1>11 DEF Played, Forwarded, Shown, Streaming, SameParts
<1>12. ASSUME NEW got \in WholeFrames, Played(w, got)
       PROVE  /\ WholeChannel(w)'
              /\ CutAtFrames(inN) /\ CutAtFrames(ouN)
              /\ Streaming(w)' => Len(inN) % FrameChunks = 0
  <2>1. in = got \o inN /\ ouN = ou
    BY <1>12 DEF Played
  <2> HIDE DEF in, inN, ou, ouN
  <2>2. QED
    BY <1>2, <1>10, <1>11, <1>12, <2>1 DEF WholeChannel
<1>13. ASSUME NEW got \in WholeFrames, Forwarded(w, got)
       PROVE  /\ WholeChannel(w)'
              /\ CutAtFrames(inN) /\ CutAtFrames(ouN)
              /\ Streaming(w)' => Len(inN) % FrameChunks = 0
  <2>1. in = got \o inN /\ ouN = ou \o got
    BY <1>13 DEF Forwarded
  <2>2. got \in Seq(Frame)
    BY WholeFrameAligned
  <2> HIDE DEF in, inN, ou, ouN
  <2>3. CutAtFrames(ouN)
    BY <1>1, <1>2, <1>10, <2>1, <2>2, CutJoin
  <2>4. QED
    BY <1>10, <1>11, <1>13, <2>1, <2>3 DEF WholeChannel
<1>14. ASSUME NEW got \in WholeFrames, Shown(w, got)
       PROVE  /\ WholeChannel(w)'
              /\ CutAtFrames(inN) /\ CutAtFrames(ouN)
              /\ Streaming(w)' => Len(inN) % FrameChunks = 0
  <2>1. inN = in /\ ou = got \o ouN
    BY <1>14 DEF Shown
  <2>2. got \in Seq(Frame) /\ Len(got) % FrameChunks = 0
    BY WholeFrameAligned
  <2> HIDE DEF in, inN, ou, ouN
  <2>3. CutAtFrames(ouN)
    BY <1>1, <1>2, <2>1, <2>2, CutRest
  <2>4. QED
    BY <1>2, <1>11, <1>14, <2>1, <2>3 DEF WholeChannel
<1> HIDE DEF in, inN, ou, ouN
<1>15. QED
  BY <1>4, <1>5, <1>6, <1>7, <1>8, <1>9, <1>12, <1>13, <1>14 DEF Effect

LEMMA WholeStep ==
  ControlInv /\ QueueInv /\ QueueInv' /\ WholeInv /\ [Next]_vars => WholeInv'
<1> SUFFICES ASSUME ControlInv, QueueInv, QueueInv', WholeInv, [Next]_vars
             PROVE  WholeInv'
  OBVIOUS
<1> USE DEF WholeInv
<1>1. QueuesTyped /\ StreamsTyped /\ StreamsTyped'
  BY QueuesTypeStreams, QueuesTypeStreamsNext DEF QueueInv
<1>2. ASSUME NEW list \in Lists, Build(list) PROVE WholeInv'
  <2>1. UNCHANGED <<Streams, shortSeen, kind>> /\ mode = "build"
    BY <1>2 DEF Build, Streams, pipes
  <2>2. chan' = [w \in Workers |-> <<>>]
        /\ pc' = [w \in Workers |-> IF w \in Range(sinks') THEN "start" ELSE pc[w]]
    BY <1>2, BuildTakes DEF ControlInv
  <2>3. \A w \in Workers : In(w)' = In(w) /\ Out(w)' = Out(w)
    BY <2>1 DEF In, Out, Streams, pipes
  <2>4. \A w \in Workers : WholeChannel(w)'
    BY <2>2 DEF WholeChannel
  <2>5. \A w \in Workers : Streaming(w)' => Streaming(w)
    BY <2>1, <2>2 DEF Streaming
  <2>6. \A w \in Workers : WholeLine(w) => WholeLine(w)'
    BY <2>3, <2>5 DEF WholeLine
  <2>7. \A w \in Workers : WholeOut(w)'
    BY <2>3 DEF WholeOut
  <2>8. QED
    BY <2>1, <2>4, <2>6, <2>7
<1>3. CASE Offer
  <2>1. /\ frame < MaxFrames /\ UNCHANGED <<pc, kind, Streams>>
    BY <1>3 DEF Offer, Streams, pipes
  <2>2. PICK due \in SUBSET Range(sinks), size \in 1..FrameChunks :
          /\ chan' = [w \in Workers |-> IF w \in due /\ Accepts(w)
                                       THEN <<Delivered(size)>> ELSE chan[w]]
          /\ shortSeen' = (shortSeen \/ size < FrameChunks)
    BY <1>3 DEF Offer, Delivered
  <2>3. \A w \in Workers : In(w)' = In(w) /\ Out(w)' = Out(w)
    BY <2>1 DEF In, Out, Streams, pipes
  <2>4. \A w \in Workers : WholeOut(w)'
    BY <2>3 DEF WholeOut
  <2>5. \A w \in Workers : WholeLine(w) => WholeLine(w)'
    BY <2>1, <2>3 DEF WholeLine, Streaming
  <2>6. ASSUME ~shortSeen', NEW w \in Workers PROVE WholeChannel(w)'
    <3>1. ~shortSeen /\ ~(size < FrameChunks)
      BY <2>2, <2>6, Zenon
    <3>2. size = FrameChunks
      BY <3>1, ChunksAssumption
    <3>3. /\ CutAtFrames(Delivered(size)) /\ Len(Delivered(size)) = size
          /\ frame \in 0..MaxFrames
      BY <1>1, <2>1, CutTrivial, DeliveredIsFrame DEF QueuesTyped
    <3>4. WholeChannel(w)
      BY <3>1
    <3>5. chan'[w] = <<Delivered(size)>> \/ chan'[w] = chan[w]
      BY <2>2
    <3>6. <<Delivered(size)>>[1] = Delivered(size)
      OBVIOUS
    <3>7. QED
      BY <3>2, <3>3, <3>4, <3>5, <3>6 DEF WholeChannel, IsWhole
  <2>7. ASSUME ~shortSeen' PROVE ~shortSeen
    BY <2>2, <2>7, Zenon
  <2>8. QED
    BY <2>4, <2>5, <2>6, <2>7
<1>4. CASE StopSinks \/ Stopping \/ Ended \/ UNCHANGED vars
  <2>1. LoopRests
    BY <1>4, LoopRestsElsewhere
  <2>2. QED
    BY <2>1 DEF LoopRests, Streams, pipes, WholeOut, WholeChannel, WholeLine,
       Streaming, In, Out
<1>5. ASSUME NEW w \in Workers, Step(w) PROVE WholeInv'
  <2>1. Effect(w)
    BY <1>1, <1>5, StepEffect DEF ControlInv, QueueInv
  <2>2. \A v \in Workers \ {w} :
          /\ In(v)' = In(v) /\ Out(v)' = Out(v) /\ chan'[v] = chan[v]
          /\ pc'[v] = pc[v] /\ kind'[v] = kind[v]
    BY <1>1, <1>5, OthersKeep DEF ControlInv
  <2>3. \A v \in Workers : WholeOut(v)'
    BY <1>1, <2>1, <2>2, WholeOutEffect DEF WholeOut
  <2>4. UNCHANGED shortSeen
    BY <1>5, StepCounts
  <2>5. ASSUME ~shortSeen, NEW v \in Workers
        PROVE  WholeChannel(v)' /\ WholeLine(v)'
    <3>1. WholeOut(v) /\ WholeChannel(v) /\ WholeLine(v)
      BY <2>5
    <3>2. CASE v = w
      BY <1>1, <2>1, <3>1, <3>2, WholeLineEffect
    <3>3. CASE v # w
      BY <2>2, <3>1, <3>3 DEF WholeChannel, WholeLine, Streaming
    <3>4. QED
      BY <3>2, <3>3
  <2>6. QED
    BY <2>3, <2>4, <2>5
<1>6. QED
  BY <1>2, <1>3, <1>4, <1>5 DEF Next, Step

LEMMA WholeInit == Init => WholeInv
<1> SUFFICES ASSUME Init PROVE WholeInv
  OBVIOUS
<1>1. \A w \in Workers : In(w) = <<>> \o <<>> \o <<>>
                        /\ Out(w) = <<>> \o <<>> \o <<>>
  BY DEF Init, In, Out
<1>2. <<>> \o <<>> \o <<>> = <<>>
  BY ConcatEmptySeq, EmptySeq
<1>3. \A w \in Workers : In(w) = <<>> /\ Out(w) = <<>>
  BY <1>1, <1>2
<1>4. Len(<<>>) % FrameChunks = 0
  BY FrameAligned
<1>5. \A w \in Workers : WholeOut(w) /\ WholeLine(w)
  BY <1>3, <1>4, CutTrivial DEF WholeOut, WholeLine
<1>6. \A w \in Workers : WholeChannel(w)
  BY DEF Init, WholeChannel
<1>7. QED
  BY <1>5, <1>6 DEF WholeInv

(***************************************************************************)
(* While the capture device delivers whole frames, what goes to a child    *)
(* and what comes from it is cut where frames begin, through every death   *)
(* of a child and every restart (:2995-3018).                              *)
(***************************************************************************)
THEOREM FramesStayWhole == Spec => []FramesWhole
<1>1. WholeInv => FramesWhole
  BY DEF WholeInv, WholeLine, FramesWhole, In, Out
<1>2. QED
  BY <1>1, ControlInit, ControlStep, QueueInit, QueueStep, WholeInit, WholeStep,
     PTL DEF Spec

-----------------------------------------------------------------------------
(***************************************************************************)
(* The order of the pieces on their way to a screen.                       *)
(***************************************************************************)
Sorted(s) == \A m, n \in 1..Len(s) : m < n => s[m] <= s[n]
Below(s, t) == \A m \in 1..Len(s), n \in 1..Len(t) : s[m] <= t[n]
Within(s, low, high) == \A m \in 1..Len(s) : low <= s[m] /\ s[m] <= high

LEMMA PartIndex ==
  ASSUME NEW s \in Seq(Frame), NEW t \in Seq(Frame), NEW i \in 1..Len(s \o t)
  PROVE  \/ i \in 1..Len(s) /\ (s \o t)[i] = s[i]
         \/ \E j \in 1..Len(t) : i = Len(s) + j /\ (s \o t)[i] = t[j]
<1>1. /\ Len(s) \in Nat /\ Len(t) \in Nat /\ Len(s \o t) = Len(s) + Len(t)
      /\ \A n \in 1..Len(s) : (s \o t)[n] = s[n]
      /\ \A n \in 1..Len(t) : (s \o t)[Len(s) + n] = t[n]
  BY ConcatAt
<1> DEFINE c == s \o t
           l == Len(s)
<1> HIDE DEF c
<1>2. i \in 1..(l + Len(t)) /\ l \in Nat /\ Len(t) \in Nat
  BY <1>1 DEF c
<1>3. CASE i <= l
  BY <1>1, <1>2, <1>3 DEF c
<1>4. CASE i > l
  <2>1. i - l \in 1..Len(t) /\ i = l + (i - l)
    BY <1>2, <1>4
  <2>2. c[l + (i - l)] = t[i - l]
    BY <1>1, <2>1 DEF c
  <2>3. c[i] = t[i - l]
    BY <2>1, <2>2
  <2>4. QED
    BY <2>1, <2>3 DEF c
<1>5. QED
  BY <1>2, <1>3, <1>4

LEMMA FramesAreNumbers ==
  ASSUME NEW s \in Seq(Frame)
  PROVE  Len(s) \in Nat /\ \A n \in 1..Len(s) : s[n] \in Int
<1>1. \A n \in 1..Len(s) : s[n] \in Frame
  BY ElementOfSeq
<1>2. QED
  BY <1>1, BoundsAssumption DEF Frame

LEMMA WithinParts ==
  ASSUME NEW s \in Seq(Frame), NEW t \in Seq(Frame), NEW low, NEW high
  PROVE  Within(s \o t, low, high)
           <=> Within(s, low, high) /\ Within(t, low, high)
<1> DEFINE c == s \o t
           l == Len(s)
<1>1. /\ l \in Nat /\ Len(t) \in Nat /\ Len(c) = l + Len(t)
      /\ \A n \in 1..l : c[n] = s[n]
      /\ \A n \in 1..Len(t) : c[l + n] = t[n]
  BY ConcatAt
<1>2. \A i \in 1..Len(c) : \/ i \in 1..l /\ c[i] = s[i]
                           \/ \E j \in 1..Len(t) : i = l + j /\ c[i] = t[j]
  BY PartIndex
<1> HIDE DEF c, l
<1>3. ASSUME Within(c, low, high) PROVE Within(s, low, high) /\ Within(t, low, high)
  <2>1. \A n \in 1..l : n \in 1..Len(c)
    BY <1>1
  <2>2. \A n \in 1..Len(t) : l + n \in 1..Len(c)
    BY <1>1
  <2>3. Within(s, low, high)
    BY <1>1, <1>3, <2>1 DEF Within, l
  <2>4. Within(t, low, high)
    BY <1>1, <1>3, <2>2 DEF Within
  <2>5. QED
    BY <2>3, <2>4
<1>4. ASSUME Within(s, low, high), Within(t, low, high) PROVE Within(c, low, high)
  BY <1>2, <1>4 DEF Within, l
<1>5. QED
  BY <1>3, <1>4 DEF c

LEMMA BelowParts ==
  ASSUME NEW s \in Seq(Frame), NEW t \in Seq(Frame), NEW u \in Seq(Frame)
  PROVE  /\ Below(s \o t, u) <=> Below(s, u) /\ Below(t, u)
         /\ Below(u, s \o t) <=> Below(u, s) /\ Below(u, t)
<1> DEFINE c == s \o t
           l == Len(s)
<1>1. /\ l \in Nat /\ Len(t) \in Nat /\ Len(c) = l + Len(t)
      /\ \A n \in 1..l : c[n] = s[n]
      /\ \A n \in 1..Len(t) : c[l + n] = t[n]
  BY ConcatAt
<1>2. \A i \in 1..Len(c) : \/ i \in 1..l /\ c[i] = s[i]
                           \/ \E j \in 1..Len(t) : i = l + j /\ c[i] = t[j]
  BY PartIndex
<1>3. \A n \in 1..l : n \in 1..Len(c) /\ c[n] = s[n]
  BY <1>1
<1>4. \A n \in 1..Len(t) : l + n \in 1..Len(c) /\ c[l + n] = t[n]
  BY <1>1
<1> HIDE DEF c, l
<1>5. Below(c, u) => Below(s, u) /\ Below(t, u)
  BY <1>3, <1>4 DEF Below, l
<1>6. Below(s, u) /\ Below(t, u) => Below(c, u)
  BY <1>2 DEF Below, l
<1>7. Below(u, c) => Below(u, s) /\ Below(u, t)
  BY <1>3, <1>4 DEF Below, l
<1>8. Below(u, s) /\ Below(u, t) => Below(u, c)
  BY <1>2 DEF Below, l
<1>9. QED
  BY <1>5, <1>6, <1>7, <1>8 DEF c

LEMMA SortedParts ==
  ASSUME NEW s \in Seq(Frame), NEW t \in Seq(Frame)
  PROVE  Sorted(s \o t) <=> Sorted(s) /\ Sorted(t) /\ Below(s, t)
<1> DEFINE c == s \o t
           l == Len(s)
<1>1. /\ l \in Nat /\ Len(t) \in Nat /\ Len(c) = l + Len(t)
      /\ \A n \in 1..l : c[n] = s[n]
      /\ \A n \in 1..Len(t) : c[l + n] = t[n]
  BY ConcatAt
<1>2. \A i \in 1..Len(c) : \/ i \in 1..l /\ c[i] = s[i]
                           \/ \E j \in 1..Len(t) : i = l + j /\ c[i] = t[j]
  BY PartIndex
<1>3. \A n \in 1..l : n \in 1..Len(c) /\ c[n] = s[n]
  BY <1>1
<1>4. \A n \in 1..Len(t) : l + n \in 1..Len(c) /\ c[l + n] = t[n]
  BY <1>1
<1> HIDE DEF c
<1>5. ASSUME Sorted(c) PROVE Sorted(s) /\ Sorted(t) /\ Below(s, t)
  <2>1. Sorted(s)
    BY <1>3, <1>5 DEF Sorted
  <2>2. Sorted(t)
    <3> SUFFICES ASSUME NEW m \in 1..Len(t), NEW n \in 1..Len(t), m < n
                 PROVE  t[m] <= t[n]
      BY DEF Sorted
    <3>1. l + m < l + n
      BY <1>1
    <3>2. QED
      BY <1>4, <1>5, <3>1 DEF Sorted
  <2>3. Below(s, t)
    <3> SUFFICES ASSUME NEW m \in 1..Len(s), NEW n \in 1..Len(t)
                 PROVE  s[m] <= t[n]
      BY DEF Below
    <3>1. m < l + n
      BY <1>1
    <3>2. QED
      BY <1>3, <1>4, <1>5, <3>1 DEF Sorted
  <2>4. QED
    BY <2>1, <2>2, <2>3
<1>6. ASSUME Sorted(s), Sorted(t), Below(s, t) PROVE Sorted(c)
  <2> SUFFICES ASSUME NEW m \in 1..Len(c), NEW n \in 1..Len(c), m < n
               PROVE  c[m] <= c[n]
    BY DEF Sorted
  <2>1. CASE m \in 1..l /\ c[m] = s[m]
    <3>1. CASE n \in 1..l /\ c[n] = s[n]
      BY <1>6, <2>1, <3>1 DEF Sorted
    <3>2. CASE \E j \in 1..Len(t) : n = l + j /\ c[n] = t[j]
      BY <1>6, <2>1, <3>2 DEF Below
    <3>3. QED
      BY <1>2, <3>1, <3>2
  <2>2. CASE \E j \in 1..Len(t) : m = l + j /\ c[m] = t[j]
    <3>1. PICK j \in 1..Len(t) : m = l + j /\ c[m] = t[j]
      BY <2>2
    <3>2. n \notin 1..l
      BY <1>1, <3>1
    <3>3. PICK k \in 1..Len(t) : n = l + k /\ c[n] = t[k]
      BY <1>2, <3>2
    <3>4. j < k
      BY <1>1, <3>1, <3>3
    <3>5. QED
      BY <1>6, <3>1, <3>3, <3>4 DEF Sorted
  <2>3. QED
    BY <1>2, <2>1, <2>2
<1>7. QED
  BY <1>5, <1>6 DEF c

LEMMA EmptyOrder ==
  /\ Sorted(<<>>)
  /\ \A s : Below(<<>>, s) /\ Below(s, <<>>)
  /\ \A low, high : Within(<<>>, low, high)
BY DEF Sorted, Below, Within

(***************************************************************************)
(* Every piece on its way to a screen is as new as the one before it, and  *)
(* none is older than what the screen shows: of the reader's buffer and    *)
(* the pipe before it, then of the child and its input, then of the        *)
(* channel.                                                                *)
(***************************************************************************)
Waiting(w) == IF chan[w] = <<>> THEN <<>> ELSE chan[w][1]
Running(w) == child[w] = "running" \/ Reading(w)

Fresh(w, s) == Sorted(s) /\ Within(s, shown[device[w]], frame)

FreshStreams(w) ==
  /\ Fresh(w, In(w)) /\ Fresh(w, Out(w))
  /\ Below(Out(w), In(w)) /\ Below(Out(w), Waiting(w)) /\ Below(In(w), Waiting(w))
  /\ kind[w] # "fbdev" => Out(w) = <<>>

Ordered(w) == Fresh(w, Waiting(w)) /\ (Running(w) => FreshStreams(w))

OrderInv ==
  /\ \A d \in Devices : shown[d] <= frame
  /\ \A w \in Workers : Lives(w) => Ordered(w)

LEMMA WaitingIsSeq ==
  ASSUME QueuesTyped, NEW w \in Workers
  PROVE  Waiting(w) \in Seq(Frame)
<1>1. CASE chan[w] = <<>>
  BY <1>1, EmptySeq DEF Waiting
<1>2. CASE chan[w] # <<>>
  BY <1>2, ChannelHoldsFrame DEF Waiting
<1>3. QED
  BY <1>1, <1>2

\* After a frame has been shown, what comes behind it is as new.
LEMMA FreshAfter ==
  ASSUME NEW got \in WholeFrames, NEW s \in Seq(Frame), Below(got, s),
         NEW low, NEW high, Within(s, low, high)
  PROVE  Within(s, Last(got), high)
<1>1. /\ Last(got) = got[FrameChunks] /\ FrameChunks \in 1..Len(got)
  BY LastOfWhole DEF WholeFrames
<1>2. QED
  BY <1>1 DEF Below, Within

LEMMA LastWithin ==
  ASSUME NEW got \in WholeFrames, NEW low, NEW high, Within(got, low, high)
  PROVE  low <= Last(got) /\ Last(got) <= high
<1>1. /\ Last(got) = got[FrameChunks] /\ FrameChunks \in 1..Len(got)
  BY LastOfWhole DEF WholeFrames
<1>2. QED
  BY <1>1 DEF Within

\* What a step of w does to the screen of w, and to no other.
Advances(w) ==
  /\ shown[device[w]] <= shown'[device[w]] /\ shown'[device[w]] <= frame
  /\ \A d \in Devices \ {device[w]} : shown'[d] = shown[d]

LEMMA AdvancesBy ==
  ASSUME QueuesTyped, OrderInv, NEW w \in Workers, device[w] \in Devices
  PROVE  /\ UNCHANGED shown => Advances(w)
         /\ \A n \in Int :
              /\ shown' = [shown EXCEPT ![device[w]] = n]
              /\ shown[device[w]] <= n /\ n <= frame
              => Advances(w) /\ shown'[device[w]] = n
<1> USE BoundsAssumption DEF QueuesTyped, OrderInv, Advances
<1>1. shown[device[w]] \in Int /\ shown[device[w]] <= frame
  OBVIOUS
<1>2. QED
  BY <1>1

LEMMA OrderedEffect ==
  ASSUME NEW w \in Workers, ControlTyped, Coherent(w), QueuesTyped,
         QueuesTyped', OrderInv, StreamsTyped, StreamsTyped', Effect(w),
         Waiting(w) \in Seq(Frame), Ordered(w), UNCHANGED <<device, frame>>
  PROVE  Ordered(w)' /\ Advances(w)
<1> DEFINE in == In(w)
           inN == In(w)'
           ou == Out(w)
           ouN == Out(w)'
           wait == Waiting(w)
           waitN == Waiting(w)'
           low == shown[device[w]]
           lowN == shown'[device[w]]
           e == <<>>
<1>1. /\ in \in Seq(Frame) /\ inN \in Seq(Frame)
      /\ ou \in Seq(Frame) /\ ouN \in Seq(Frame) /\ wait \in Seq(Frame)
  BY DEF StreamsTyped
<1>2. /\ Sorted(wait) /\ Within(wait, low, frame)
      /\ Running(w) =>
           /\ Sorted(in) /\ Within(in, low, frame)
           /\ Sorted(ou) /\ Within(ou, low, frame)
           /\ Below(ou, in) /\ Below(ou, wait) /\ Below(in, wait)
           /\ kind[w] # "fbdev" => ou = e
  BY DEF Ordered, Fresh, FreshStreams
<1>3. device[w] \in Devices
  BY DEF ControlTyped
<1> DEFINE Goal ==
      /\ Sorted(waitN) /\ Within(waitN, lowN, frame)
      /\ Running(w)' =>
           /\ Sorted(inN) /\ Within(inN, lowN, frame)
           /\ Sorted(ouN) /\ Within(ouN, lowN, frame)
           /\ Below(ouN, inN) /\ Below(ouN, waitN) /\ Below(inN, waitN)
           /\ kind'[w] # "fbdev" => ouN = e
      /\ Advances(w)
<1>4. SUFFICES Goal
  BY DEF Ordered, Fresh, FreshStreams
<1>5. chan' = chan => waitN = wait
  BY DEF Waiting
<1>6. chan' = [chan EXCEPT ![w] = e] => waitN = e
  BY DEF Waiting, QueuesTyped
<1>7. UNCHANGED shown => lowN = low /\ Advances(w)
  BY <1>3, AdvancesBy
<1>8. /\ Sorted(e) /\ \A s : Below(e, s) /\ Below(s, e)
      /\ \A a, b : Within(e, a, b)
  BY EmptyOrder
<1>9. CASE Quiet(w)
  <2>1. inN = in /\ ouN = ou /\ chan' = chan /\ UNCHANGED shown
    BY <1>9 DEF Quiet, Streams, pipes, In, Out
  <2>2. Running(w)' => Running(w)
    BY <1>9 DEF Quiet, Running
  <2>3. Running(w) => kind'[w] = kind[w]
    BY <1>9 DEF Quiet, Running, Coherent, Idle
  <2> HIDE DEF in, inN, ou, ouN, wait, waitN, low, lowN, e
  <2>4. QED
    BY <1>2, <1>5, <1>7, <2>1, <2>2, <2>3
<1>10. CASE Renewed(w)
  <2>1. inN = e /\ ouN = e /\ chan' = chan /\ UNCHANGED shown
    BY <1>10 DEF Renewed
  <2> HIDE DEF in, inN, ou, ouN, wait, waitN, low, lowN, e
  <2>2. QED
    BY <1>2, <1>5, <1>7, <1>8, <2>1
<1>11. CASE Copied(w)
  <2>1. /\ inN = in /\ ouN = ou /\ chan[w] # e /\ chan' = [chan EXCEPT ![w] = e]
        /\ Running(w)' = Running(w) /\ kind'[w] = kind[w]
    BY <1>11 DEF Copied, Streams, pipes, In, Out, SameParts, Running, Reading
  <2>2. CASE UNCHANGED shown
    <3> HIDE DEF in, inN, ou, ouN, wait, waitN, low, lowN, e
    <3>1. QED
      BY <1>2, <1>6, <1>7, <1>8, <2>1, <2>2
  <2>3. CASE ~UNCHANGED shown
    <3>1. /\ kind[w] = "direct" /\ pc[w] = "recv"
          /\ shown' = [shown EXCEPT ![device[w]] = Head(chan[w][1])]
      BY <1>11, <2>3 DEF Copied
    <3>2. ~Running(w)
      BY <3>1 DEF Coherent, Idle, Running
    <3>3. chan[w][1] \in Seq(Frame) /\ Len(chan[w][1]) \in Nat \ {0}
      BY <2>1, ChannelHoldsFrame
    <3>4. wait = chan[w][1]
      BY <2>1 DEF Waiting
    <3>5. /\ Head(wait) = wait[1] /\ 1 \in 1..Len(wait) /\ wait[1] \in Int
      BY <3>3, <3>4, FramesAreNumbers
    <3>6. low <= Head(wait) /\ Head(wait) <= frame
      BY <1>2, <3>5 DEF Within
    <3>7. Advances(w)
      BY <1>3, <3>1, <3>4, <3>5, <3>6, AdvancesBy
    <3> HIDE DEF in, inN, ou, ouN, wait, waitN, low, lowN, e
    <3>8. QED
      BY <1>6, <1>8, <2>1, <3>2, <3>7
  <2>4. QED
    BY <2>2, <2>3
<1>12. CASE Received(w)
  <2>1. /\ chan[w] # e /\ chan' = [chan EXCEPT ![w] = e] /\ UNCHANGED shown
        /\ inN = in \o chan[w][1] /\ ouN = ou
        /\ Running(w)' = Running(w) /\ kind'[w] = kind[w]
    BY <1>12 DEF Received, SameParts, Running, Reading
  <2>2. wait = chan[w][1]
    BY <2>1 DEF Waiting
  <2> HIDE DEF in, inN, ou, ouN, wait, waitN, low, lowN, e
  <2>3. inN = in \o wait
    BY <2>1, <2>2
  <2>4. /\ Sorted(inN) <=> Sorted(in) /\ Sorted(wait) /\ Below(in, wait)
        /\ Within(inN, low, frame)
             <=> Within(in, low, frame) /\ Within(wait, low, frame)
        /\ Below(ou, inN) <=> Below(ou, in) /\ Below(ou, wait)
    BY <1>1, <2>3, SortedParts, WithinParts, BelowParts
  <2>5. QED
    BY <1>2, <1>6, <1>7, <1>8, <2>1, <2>4
<1>13. CASE Moved(w)
  <2>1. /\ inN = in /\ ouN = ou /\ chan' = chan /\ UNCHANGED shown
        /\ Running(w)' = Running(w) /\ kind'[w] = kind[w]
    BY <1>13 DEF Moved, SameParts, Running, Reading
  <2> HIDE DEF in, inN, ou, ouN, wait, waitN, low, lowN, e
  <2>2. QED
    BY <1>2, <1>5, <1>7, <2>1
<1>14. CASE Dropped(w)
  <2>1. /\ in = inN \o writing[w] /\ ouN = ou /\ chan' = chan
        /\ UNCHANGED shown
        /\ Running(w)' = Running(w) /\ kind'[w] = kind[w]
    BY <1>14 DEF Dropped, SameParts, Running, Reading
  <2>2. writing[w] \in Seq(Frame)
    BY QueuesAreSeqs
  <2> HIDE DEF in, inN, ou, ouN, wait, waitN, low, lowN, e
  <2>3. /\ Sorted(in) => Sorted(inN)
        /\ Within(in, low, frame) => Within(inN, low, frame)
        /\ Below(ou, in) => Below(ou, inN)
        /\ Below(in, wait) => Below(inN, wait)
    BY <1>1, <2>1, <2>2, SortedParts, WithinParts, BelowParts
  <2>4. QED
    BY <1>2, <1>5, <1>7, <2>1, <2>3
<1>15. ASSUME NEW got \in WholeFrames, Played(w, got) PROVE Goal
  <2>1. /\ in = got \o inN /\ ouN = ou /\ chan' = chan
        /\ shown' = [shown EXCEPT ![device[w]] = Last(got)]
        /\ Running(w) /\ kind'[w] = kind[w] /\ kind[w] # "fbdev"
    BY <1>15 DEF Played, SameParts, Running
  <2>2. got \in Seq(Frame) /\ Last(got) \in Int
    BY LastOfWhole DEF WholeFrames
  <2> HIDE DEF in, inN, ou, ouN, wait, waitN, low, lowN, e
  <2>3. /\ Sorted(inN) /\ Below(got, inN)
        /\ Within(got, low, frame) /\ Within(inN, low, frame)
        /\ Below(got, wait) /\ Below(inN, wait)
    BY <1>1, <1>2, <2>1, <2>2, SortedParts, WithinParts, BelowParts
  <2>4. low <= Last(got) /\ Last(got) <= frame
    BY <2>3, LastWithin
  <2>5. Advances(w) /\ lowN = Last(got)
    BY <1>3, <2>1, <2>2, <2>4, AdvancesBy DEF low, lowN
  <2>6. Within(inN, lowN, frame) /\ Within(wait, lowN, frame)
    BY <1>1, <1>2, <2>3, <2>5, FreshAfter
  <2>7. ouN = e
    BY <1>2, <2>1
  <2>8. QED
    BY <1>2, <1>5, <1>8, <2>1, <2>3, <2>5, <2>6, <2>7
<1>16. ASSUME NEW got \in WholeFrames, Forwarded(w, got) PROVE Goal
  <2>1. /\ in = got \o inN /\ ouN = ou \o got /\ chan' = chan
        /\ UNCHANGED shown
        /\ Running(w) /\ kind'[w] = kind[w] /\ kind[w] = "fbdev"
    BY <1>16 DEF Forwarded, SameParts, Running
  <2>2. got \in Seq(Frame)
    BY WholeFrameAligned
  <2> HIDE DEF in, inN, ou, ouN, wait, waitN, low, lowN, e
  <2>3. /\ Sorted(got) /\ Sorted(inN) /\ Below(got, inN)
        /\ Within(got, low, frame) /\ Within(inN, low, frame)
        /\ Below(got, wait) /\ Below(inN, wait)
        /\ Below(ou, got) /\ Below(ou, inN)
    BY <1>1, <1>2, <2>1, <2>2, SortedParts, WithinParts, BelowParts
  <2>4. Sorted(ouN) /\ Within(ouN, low, frame)
    BY <1>1, <1>2, <2>1, <2>2, <2>3, SortedParts, WithinParts
  <2>5. Below(ouN, inN) /\ Below(ouN, wait)
    BY <1>1, <1>2, <2>1, <2>2, <2>3, BelowParts
  <2>6. QED
    BY <1>2, <1>5, <1>7, <2>1, <2>3, <2>4, <2>5
<1>17. ASSUME NEW got \in WholeFrames, Shown(w, got) PROVE Goal
  <2>1. /\ inN = in /\ ou = got \o ouN /\ chan' = chan
        /\ shown' = [shown EXCEPT ![device[w]] = Last(got)]
        /\ Running(w) /\ kind'[w] = kind[w]
    BY <1>17 DEF Shown, SameParts, Running
  <2>2. got \in Seq(Frame) /\ Last(got) \in Int /\ Len(got) # 0
    BY LastOfWhole, WholeFrameAligned DEF WholeFrames
  <2>3. e \in Seq(Frame) /\ Len(e) = 0
    BY EmptySeq
  <2> HIDE DEF in, inN, ou, ouN, wait, waitN, low, lowN, e
  <2>4. /\ Sorted(ouN) /\ Below(got, ouN)
        /\ Within(got, low, frame) /\ Within(ouN, low, frame)
        /\ Below(got, wait) /\ Below(ouN, wait)
        /\ Below(got, in) /\ Below(ouN, in)
    BY <1>1, <1>2, <2>1, <2>2, SortedParts, WithinParts, BelowParts
  <2>5. low <= Last(got) /\ Last(got) <= frame
    BY <2>4, LastWithin
  <2>6. Advances(w) /\ lowN = Last(got)
    BY <1>3, <2>1, <2>2, <2>5, AdvancesBy DEF low, lowN
  <2>7. /\ Within(in, lowN, frame) /\ Within(ouN, lowN, frame)
        /\ Within(wait, lowN, frame)
    BY <1>1, <1>2, <2>1, <2>4, <2>6, FreshAfter
  <2>8. kind[w] = "fbdev"
    <3>1. Len(ou) # 0
      BY <1>1, <2>1, <2>2, ConcatAt
    <3>2. ou # e
      BY <2>3, <3>1
    <3>3. QED
      BY <1>2, <2>1, <3>2
  <2>9. QED
    BY <1>2, <1>5, <2>1, <2>4, <2>6, <2>7, <2>8
<1> HIDE DEF Goal
<1>18. QED
  BY <1>9, <1>10, <1>11, <1>12, <1>13, <1>14, <1>15, <1>16, <1>17 DEF Effect

LEMMA OrderStep ==
  ControlInv /\ QueueInv /\ QueueInv' /\ OrderInv /\ [Next]_vars
    => OrderInv' /\ (\A d \in Devices : shown'[d] >= shown[d])
<1> SUFFICES ASSUME ControlInv, QueueInv, QueueInv', OrderInv, [Next]_vars
             PROVE  OrderInv' /\ (\A d \in Devices : shown'[d] >= shown[d])
  OBVIOUS
<1> SUFFICES OrderInv' /\ (\A d \in Devices : shown[d] <= shown'[d])
  <2>1. shown \in [Devices -> 0..MaxFrames] /\ shown' \in [Devices -> 0..MaxFrames]
    BY DEF QueueInv, QueuesTyped
  <2>2. \A d \in Devices : shown[d] \in Int /\ shown'[d] \in Int
    BY <2>1, BoundsAssumption
  <2>3. \A a, b \in Int : a <= b => b >= a
    OBVIOUS
  <2>4. QED
    BY <2>2, <2>3
<1> USE DEF OrderInv
<1>1. /\ QueuesTyped /\ QueuesTyped' /\ StreamsTyped /\ StreamsTyped'
      /\ ControlTyped /\ \A w \in Workers : Coherent(w) /\ device[w] \in Devices
  BY QueuesTypeStreams, QueuesTypeStreamsNext
     DEF QueueInv, ControlInv, ControlTyped
<1>2. /\ frame \in Int /\ frame \in 0..MaxFrames
      /\ \A d \in Devices : shown[d] \in Int /\ shown[d] <= shown[d]
  BY <1>1, BoundsAssumption DEF QueuesTyped
<1>3. ASSUME NEW list \in Lists, Build(list)
      PROVE  OrderInv' /\ (\A d \in Devices : shown[d] <= shown'[d])
  <2>1. /\ mode = "build" /\ UNCHANGED <<shown, frame, child, reader>>
    BY <1>3 DEF Build
  <2>2. chan' = [w \in Workers |-> <<>>]
    BY <1>1, <1>3, BuildTakes
  <2>3. \A w \in Workers : ~Running(w)'
    BY <2>1 DEF ControlInv, SinksHold, Lives, Running, Reading
  <2>4. \A w \in Workers : Waiting(w)' = <<>>
    BY <2>2 DEF Waiting
  <2>5. \A w \in Workers : Ordered(w)'
    BY <2>3, <2>4, EmptyOrder DEF Ordered, Fresh
  <2>6. QED
    BY <1>2, <2>1, <2>5
<1>4. CASE Offer
  <2>1. /\ frame < MaxFrames /\ frame' = frame + 1
        /\ UNCHANGED <<pc, kind, device, child, reader, Streams, shown>>
    BY <1>4 DEF Offer, Streams, pipes
  <2>2. PICK due \in SUBSET Range(sinks), size \in 1..FrameChunks :
          chan' = [w \in Workers |-> IF w \in due /\ Accepts(w)
                                    THEN <<Delivered(size)>> ELSE chan[w]]
    BY <1>4 DEF Offer, Delivered
  <2>3. \A d \in Devices : shown'[d] <= frame'
    BY <1>2, <2>1
  <2>4. ASSUME NEW w \in Workers, Lives(w)' PROVE Ordered(w)'
    <3> DEFINE in == In(w)
               ou == Out(w)
               wait == Waiting(w)
               waitN == Waiting(w)'
               low == shown[device[w]]
               frameN == frame'
    <3>1. /\ In(w)' = in /\ Out(w)' = ou /\ Lives(w)
          /\ Running(w)' = Running(w) /\ shown'[device'[w]] = low
      BY <2>1, <2>4 DEF In, Out, Lives, Running, Reading, Streams, pipes
    <3>2. /\ Sorted(wait) /\ Within(wait, low, frame)
          /\ Running(w) =>
               /\ Sorted(in) /\ Within(in, low, frame)
               /\ Sorted(ou) /\ Within(ou, low, frame)
               /\ Below(ou, in) /\ Below(ou, wait) /\ Below(in, wait)
               /\ kind[w] # "fbdev" => ou = <<>>
      BY <3>1 DEF Ordered, Fresh, FreshStreams
    <3>3. SUFFICES /\ Sorted(waitN) /\ Within(waitN, low, frameN)
                   /\ Running(w) => /\ Within(in, low, frameN)
                                    /\ Within(ou, low, frameN)
                                    /\ Below(ou, waitN) /\ Below(in, waitN)
      BY <2>1, <3>1, <3>2 DEF Ordered, Fresh, FreshStreams
    <3>4. in \in Seq(Frame) /\ ou \in Seq(Frame) /\ wait \in Seq(Frame)
      BY <1>1, WaitingIsSeq DEF StreamsTyped
    <3>5. low \in Int /\ low <= frame /\ frameN = frame + 1
      BY <1>1, <1>2, <2>1
    <3> HIDE DEF in, ou, wait, waitN, low, frameN
    <3>6. ASSUME NEW s \in Seq(Frame), Within(s, low, frame)
          PROVE  Within(s, low, frameN)
                 /\ \A n \in 1..Len(s) : s[n] <= frameN
      BY <1>2, <3>5, <3>6, FramesAreNumbers DEF Within
    <3>7. CASE chan'[w] = chan[w]
      <4>1. waitN = wait
        BY <3>7 DEF Waiting, wait, waitN
      <4>2. QED
        BY <3>2, <3>4, <3>6, <4>1
    <3>8. CASE chan'[w] # chan[w]
      <4> DEFINE f == Delivered(size)
      <4>1. chan'[w] = <<f>>
        BY <2>2, <3>8
      <4>2. waitN = f
        BY <4>1 DEF Waiting, waitN
      <4>3. /\ Len(f) = size /\ \A n \in 1..size : f[n] = frame + 1
        BY <1>2, <2>1, DeliveredIsFrame
      <4> HIDE DEF f
      <4>4. Sorted(waitN) /\ Within(waitN, low, frameN)
        BY <1>2, <3>5, <4>2, <4>3 DEF Sorted, Within
      <4>5. ASSUME Running(w)
            PROVE  /\ Within(in, low, frameN) /\ Within(ou, low, frameN)
                   /\ Below(ou, waitN) /\ Below(in, waitN)
        BY <3>2, <3>4, <3>5, <3>6, <4>2, <4>3, <4>5 DEF Below
      <4>6. QED
        BY <4>4, <4>5
    <3>9. QED
      BY <3>7, <3>8
  <2>5. QED
    BY <1>2, <2>1, <2>3, <2>4
<1>5. CASE StopSinks \/ Stopping \/ Ended \/ UNCHANGED vars
  <2>1. LoopRests
    BY <1>5, LoopRestsElsewhere
  <2>2. /\ UNCHANGED <<shown, frame>>
        /\ \A w \in Workers : /\ Lives(w)' = Lives(w)
                              /\ Ordered(w)' = Ordered(w)
    BY <2>1 DEF LoopRests, Streams, pipes, Ordered, Fresh, FreshStreams, Lives,
       Running, Reading, Waiting, In, Out
  <2>3. QED
    BY <1>2, <2>2
<1>6. ASSUME NEW w \in Workers, Step(w)
      PROVE  OrderInv' /\ (\A d \in Devices : shown[d] <= shown'[d])
  <2>1. Effect(w)
    BY <1>1, <1>6, StepEffect DEF QueueInv
  <2>2. Lives(w) /\ UNCHANGED <<device, frame>>
    BY <1>1, <1>6, StepIsCoherent, StepIsLocal DEF loop
  <2>3. Ordered(w)' /\ Advances(w)
    BY <1>1, <2>1, <2>2, OrderedEffect, WaitingIsSeq
  <2>4. \A d \in Devices : shown'[d] <= frame' /\ shown[d] <= shown'[d]
    BY <1>1, <1>2, <2>2, <2>3 DEF Advances
  <2>5. ASSUME NEW v \in Workers \ {w}, Lives(v)' PROVE Ordered(v)'
    <3>1. /\ In(v)' = In(v) /\ Out(v)' = Out(v) /\ chan'[v] = chan[v]
          /\ pc'[v] = pc[v] /\ kind'[v] = kind[v] /\ child'[v] = child[v]
          /\ reader'[v] = reader[v] /\ device'[v] = device[v]
      BY <1>1, <1>6, OthersKeep
    <3>2. Lives(v)
      BY <2>5, <3>1 DEF Lives, Reading
    <3>3. device[v] # device[w]
      BY <2>2, <3>2, ApartWhileLiving
    <3>4. shown'[device[v]] = shown[device[v]]
      BY <1>1, <2>3, <3>3 DEF Advances
    <3>5. Ordered(v)
      BY <3>2
    <3>6. QED
      BY <2>2, <3>1, <3>4, <3>5
         DEF Ordered, Fresh, FreshStreams, Running, Reading, Waiting
  <2>6. QED
    BY <2>3, <2>4, <2>5
<1>7. QED
  BY <1>3, <1>4, <1>5, <1>6 DEF Next, Step

LEMMA OrderInit == Init => OrderInv
<1> SUFFICES ASSUME Init PROVE OrderInv
  OBVIOUS
<1>1. /\ \A d \in Devices : shown[d] = 0
      /\ frame = 0 /\ \A w \in Workers : ~Lives(w)
  BY DEF Init, Lives, Reading
<1>2. QED
  BY <1>1 DEF OrderInv

(***************************************************************************)
(* A screen never goes back to an older frame.  It rests on OneWriter: a   *)
(* second sink on the same device would show its own frames in between.    *)
(***************************************************************************)
THEOREM ScreensAdvance == Spec => ShownInOrder
<1>1. ControlInv /\ QueueInv /\ QueueInv' /\ OrderInv /\ [Next]_vars
        => [\A d \in Devices : shown'[d] >= shown[d]]_shown
  BY OrderStep
<1>2. ControlInv /\ QueueInv /\ QueueInv' /\ OrderInv /\ [Next]_vars => OrderInv'
  BY OrderStep
<1>3. QED
  BY <1>1, <1>2, ControlInit, ControlStep, QueueInit, QueueStep, OrderInit, PTL
     DEF Spec, ShownInOrder

-----------------------------------------------------------------------------
(***************************************************************************)
(* Who waits for whom.  A worker that writes or reads has had a child, the *)
(* output of a child goes to a reader, and only that of the fbdev path.    *)
(***************************************************************************)
Attached(w) ==
  /\ pc[w] = "write" => child[w] # "none"
  /\ pc[w] = "recv" /\ kind[w] # "direct" => child[w] # "none"
  /\ Reading(w) => child[w] # "none"
  /\ child[w] = "running" /\ kind[w] = "fbdev" => reader[w] # "none"
  /\ child[w] = "running" /\ out[w] # <<>> => kind[w] = "fbdev"

SinksStarted == \A n \in 1..Len(sinks) : pc[sinks[n]] # "none"

WaitInv == SinksStarted /\ \A w \in Workers : Attached(w)

LEMMA StepIsAttached ==
  ASSUME ControlTyped, QueuesTyped, NEW w \in Workers, Coherent(w),
         Attached(w), Step(w)
  PROVE  Attached(w)' /\ pc'[w] # "none"
<1> USE DEF ControlTyped, Coherent, Idle, Attached, Reading, Move, sink, pipes
<1>1. CASE GivesUp(w) \/ TakesDirectPath(w) \/ TakesFfmpegPath(w)
  BY <1>1 DEF GivesUp, TakesDirectPath, TakesFfmpegPath
<1>2. CASE TakesKmsPath(w) \/ Spawns(w)
  <2>1. /\ pc' = [pc EXCEPT ![w] = "recv"]
        /\ child' = [child EXCEPT ![w] = "running"]
    BY <1>2 DEF TakesKmsPath, Spawns, NewChild
  <2>2. out' = [out EXCEPT ![w] = <<>>]
    BY <1>2 DEF TakesKmsPath, Spawns, NewChild
  <2>3. out'[w] = <<>>
    BY <2>2 DEF QueuesTyped
  <2>4. kind'[w] = "fbdev" => reader'[w] # "none"
    <3>1. CASE TakesKmsPath(w)
      BY <3>1 DEF TakesKmsPath
    <3>2. CASE Spawns(w)
      BY <3>2 DEF Spawns
    <3>3. QED
      BY <1>2, <3>1, <3>2
  <2>5. child'[w] = "running" /\ pc'[w] = "recv"
    BY <2>1
  <2>6. QED
    BY <2>3, <2>4, <2>5
<1>3. CASE SpawnFails(w) \/ CopiesFrame(w) \/ CopyFails(w) \/ SkipsShortFrame(w)
  BY <1>3 DEF SpawnFails, CopiesFrame, CopyFails, SkipsShortFrame
<1>4. CASE ReceivesFrame(w) \/ Writes(w) \/ WriteFails(w)
  <2>1. /\ UNCHANGED <<kind, child, reader, out>>
        /\ child[w] # "none"
        /\ pc'[w] \in {"write", "recv", "failed"}
    BY <1>4 DEF ReceivesFrame, Writes, WriteFails
  <2>2. QED
    BY <2>1
<1>5. CASE Disconnected(w) \/ Reaps(w) \/ JoinsReader(w) \/ Sleeps(w)
  BY <1>5 DEF Disconnected, Reaps, JoinsReader, Sleeps
<1>6. CASE Reader(w)
  <2>1. /\ UNCHANGED <<pc, kind, child, out>>
        /\ Reading(w)
        /\ reader'[w] # "none"
    BY <1>6
       DEF Reader, ReaderOpens, ReaderGivesUp, ReaderReads, ReaderEnds, ReaderMoves
  <2>2. pc[w] # "none"
    BY <2>1
  <2>3. QED
    BY <2>1, <2>2
<1>7. CASE ChildReads(w)
  <2>1. UNCHANGED <<pc, kind, child, reader>>
    BY <1>7 DEF ChildReads
  <2>2. kind[w] = "fbdev" \/ out' = out
    BY <1>7 DEF ChildReads
  <2>3. child[w] = "running"
    BY <1>7 DEF ChildReads
  <2>4. QED
    BY <2>1, <2>2, <2>3
<1>8. CASE ChildWrites(w)
  <2>1. UNCHANGED <<pc, kind, child, reader>>
        /\ child[w] = "running" /\ out[w] # <<>>
    BY <1>8 DEF ChildWrites
  <2>2. QED
    BY <2>1
<1>9. CASE ChildBreaks(w) \/ ChildDies(w)
  BY <1>9 DEF ChildBreaks, ChildDies
<1>10. QED
  BY <1>1, <1>2, <1>3, <1>4, <1>5, <1>6, <1>7, <1>8, <1>9
     DEF Step, Worker, Child

LEMMA WaitStep ==
  ControlInv /\ QueueInv /\ WaitInv /\ [Next]_vars => WaitInv'
<1> SUFFICES ASSUME ControlInv, QueueInv, WaitInv, [Next]_vars PROVE WaitInv'
  OBVIOUS
<1> USE DEF WaitInv
<1>1. ASSUME NEW list \in Lists, Build(list) PROVE WaitInv'
  <2>1. mode = "build" /\ UNCHANGED <<kind, child, reader, out>>
    BY <1>1 DEF Build, pipes
  <2>2. /\ sinks' \in Seq(Workers)
        /\ pc' = [w \in Workers |-> IF w \in Range(sinks') THEN "start" ELSE pc[w]]
    BY <1>1, BuildTakes DEF ControlInv
  <2>3. \A w \in Workers : ~Lives(w)
    BY <2>1 DEF ControlInv, SinksHold
  <2>4. \A w \in Workers : pc'[w] \in {"start", "none", "done"}
    BY <2>2, <2>3 DEF Lives
  <2>5. SinksStarted'
    <3> SUFFICES ASSUME NEW n \in 1..Len(sinks') PROVE pc'[sinks'[n]] # "none"
      BY DEF SinksStarted
    <3>1. sinks'[n] \in Workers /\ sinks'[n] \in Range(sinks')
      BY <2>2 DEF Range
    <3>2. QED
      BY <2>2, <3>1
  <2>6. ASSUME NEW w \in Workers PROVE Attached(w)'
    BY <2>1, <2>3, <2>4 DEF Attached, Lives, Reading
  <2>7. QED
    BY <2>5, <2>6
<1>2. ASSUME UNCHANGED <<pc, kind, child, reader, out>> PROVE \A w \in Workers : Attached(w)'
  BY <1>2 DEF Attached, Reading
<1>3. CASE Offer \/ StopSinks \/ CloseChannel \/ SinksStopped \/ Ended \/ UNCHANGED vars
  <2>1. UNCHANGED <<sinks, pc, kind, child, reader, out>>
    BY <1>3 DEF Offer, StopSinks, CloseChannel, SinksStopped, Ended, vars, loop,
       sink, pipes
  <2>2. QED
    BY <1>2, <2>1 DEF SinksStarted
<1>4. CASE JoinWorker
  <2>1. /\ UNCHANGED <<pc, kind, child, reader, out>>
        /\ sinks # <<>> /\ sinks' = Tail(sinks)
    BY <1>4 DEF JoinWorker, sink, pipes
  <2>2. /\ Len(sinks') = Len(sinks) - 1 /\ Len(sinks) \in Nat
        /\ \A n \in 1..Len(sinks') : sinks'[n] = sinks[n + 1]
    BY <2>1, HeadTailProperties, LenProperties DEF ControlInv, SinksTyped
  <2>3. SinksStarted'
    BY <2>1, <2>2 DEF SinksStarted
  <2>4. QED
    BY <1>2, <2>1, <2>3
<1>5. ASSUME NEW w \in Workers, Step(w) PROVE WaitInv'
  <2>1. UNCHANGED sinks
        /\ \A v \in Workers \ {w} :
             /\ pc'[v] = pc[v] /\ kind'[v] = kind[v] /\ child'[v] = child[v]
             /\ reader'[v] = reader[v] /\ out'[v] = out[v]
    BY <1>5, StepIsLocal, QueuesAreLocal DEF ControlInv, QueueInv, loop
  <2>2. Attached(w)' /\ pc'[w] # "none"
    BY <1>5, StepIsAttached DEF ControlInv, QueueInv
  <2>3. \A v \in Workers : Attached(v)'
    BY <2>1, <2>2 DEF Attached, Reading
  <2>4. \A n \in 1..Len(sinks) : sinks[n] \in Workers
    BY DEF ControlInv, SinksTyped
  <2>5. SinksStarted'
    BY <2>1, <2>2, <2>4 DEF SinksStarted
  <2>6. QED
    BY <2>3, <2>5
<1>6. QED
  BY <1>1, <1>3, <1>4, <1>5 DEF Next, Stopping, Step

LEMMA WaitInit == Init => WaitInv
BY DEF Init, WaitInv, SinksStarted, Attached, Reading

(***************************************************************************)
(* When the steps of a thread and of the child are possible: a worker      *)
(* waits in recv, in write_all and in join, a reader for a piece or the    *)
(* end of the pipe, a child for a piece or for room.                       *)
(***************************************************************************)
WorkerCan(w) ==
  \/ pc[w] \in {"start", "spawn", "closing", "failed", "sleep"}
  \/ pc[w] = "recv" /\ (chan[w] # <<>> \/ ~open[w])
  \/ pc[w] = "write" /\ (child[w] = "dead" \/ Len(inPipe[w]) < PipeSize)
  \/ pc[w] \in {"joinClosing", "joinFailed"} /\ ~Reading(w)

ReaderCan(w) ==
  \/ reader[w] = "open"
  \/ reader[w] = "read" /\ (outPipe[w] # <<>> \/ child[w] = "dead")

ChildCan(w) ==
  /\ child[w] = "running"
  /\ \/ inPipe[w] # <<>> /\ out[w] = <<>>
     \/ out[w] # <<>> /\ (reader[w] = "done" \/ Len(outPipe[w]) < PipeSize)

StopCan ==
  \/ sinks = <<>>
  \/ open[Head(sinks)]
  \/ pc[Head(sinks)] = "done"

\* A worker without a sink that could send to it never waits for its child
\* while that waits for the reader and that for the child.
LEMMA NoCycle ==
  ASSUME ControlInv, WaitInv, NEW w \in Workers, ~open[w],
         pc[w] \notin {"none", "done"}
  PROVE  WorkerCan(w) \/ ReaderCan(w) \/ ChildCan(w)
<1> SUFFICES ASSUME ~WorkerCan(w), ~ReaderCan(w) PROVE ChildCan(w)
  OBVIOUS
<1> USE DEF ControlInv, ControlTyped, WaitInv, Attached, Coherent, Idle, Reading
<1>1. pc[w] \in {"write", "joinClosing", "joinFailed"}
  BY DEF WorkerCan, WorkerPC
<1>2. CASE pc[w] = "write"
  <2>1. child[w] = "running" /\ ~(Len(inPipe[w]) < PipeSize)
    BY <1>2 DEF WorkerCan
  <2>2. inPipe[w] # <<>>
    BY <2>1, ChunksAssumption
  <2>3. CASE out[w] = <<>>
    BY <2>1, <2>2, <2>3 DEF ChildCan
  <2>4. CASE out[w] # <<>>
    <3>1. reader[w] \in {"read", "done"}
      BY <2>1, <2>4 DEF ReaderCan
    <3>2. CASE reader[w] = "done"
      BY <2>1, <2>4, <3>2 DEF ChildCan
    <3>3. CASE reader[w] = "read"
      <4>1. outPipe[w] = <<>>
        BY <3>3 DEF ReaderCan
      <4>2. Len(outPipe[w]) < PipeSize
        BY <4>1, ChunksAssumption
      <4>3. QED
        BY <2>1, <2>4, <4>2 DEF ChildCan
    <3>4. QED
      BY <3>1, <3>2, <3>3
  <2>5. QED
    BY <2>3, <2>4
<1>3. CASE pc[w] \in {"joinClosing", "joinFailed"}
  BY <1>3 DEF WorkerCan, ReaderCan
<1>4. QED
  BY <1>1, <1>2, <1>3

(***************************************************************************)
(* While stop_preview_sinks (:2013) waits for a worker, somebody can go    *)
(* on: it itself, or that worker, its reader or its child.  No cycle of    *)
(* threads that wait for each other through channel, pipes and joins       *)
(* exists ("Prevents deadlock: stdin write blocks if ffmpeg can't flush    *)
(* stdout", :2999), whatever the sizes of pipes and frames.                *)
(***************************************************************************)
SomebodyCanGoOn ==
  mode = "stop" =>
    \/ StopCan
    \/ LET w == Head(sinks) IN WorkerCan(w) \/ ReaderCan(w) \/ ChildCan(w)

THEOREM NoCircularWait == Spec => []SomebodyCanGoOn
<1>1. ControlInv /\ WaitInv => SomebodyCanGoOn
  <2> SUFFICES ASSUME ControlInv, WaitInv, ~StopCan
               PROVE  LET w == Head(sinks)
                      IN WorkerCan(w) \/ ReaderCan(w) \/ ChildCan(w)
    BY DEF SomebodyCanGoOn
  <2>1. sinks \in Seq(Workers) /\ sinks # <<>>
    BY DEF ControlInv, SinksTyped, StopCan
  <2>2. Head(sinks) = sinks[1] /\ 1 \in 1..Len(sinks) /\ sinks[1] \in Workers
    BY <2>1
  <2>3. pc[Head(sinks)] \notin {"none", "done"} /\ ~open[Head(sinks)]
    BY <2>2 DEF StopCan, WaitInv, SinksStarted
  <2>4. QED
    BY <2>2, <2>3, NoCycle
<1>2. QED
  BY <1>1, ControlInit, ControlStep, QueueInit, QueueStep, WaitInit, WaitStep,
     PTL DEF Spec

=============================================================================
