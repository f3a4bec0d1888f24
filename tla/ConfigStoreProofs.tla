-------------------------- MODULE ConfigStoreProofs --------------------------
(***************************************************************************)
(* The copies of the settings agree after a success, acknowledged settings *)
(* survive unless a save is cut short, and empty fields change at most to  *)
(* their clamped value: for any fields, values and clamps, any number of   *)
(* requests, crashes and power losses, and wherever a save fails.          *)
(***************************************************************************)
EXTENDS ConfigStore, TLAPS

(***************************************************************************)
(* Types.                                                                  *)
(***************************************************************************)
CopiesTyped ==
  /\ mem \in Settings /\ watch \in Settings
  /\ file \in Settings \cup Unreadable /\ disk \in Settings \cup Unreadable
  /\ promised \subseteq Settings

RequestsTyped ==
  /\ pc \in [Requests -> PCs]
  /\ payload \in [Requests -> Payloads \cup {Invalid}]
  /\ new \in [Requests -> Settings]
  /\ reply \in {"none", "ok", "invalid", "error"}

Typed == CopiesTyped /\ RequestsTyped /\ proc \in Procs

LEMMA MergeTyped ==
  ASSUME NEW old \in Settings, NEW asked \in Payloads
  PROVE  ClampSendSettings(Merge(old, asked)) \in Settings
<1>1. Merge(old, asked) \in Settings
  BY DEF Merge, Settings, Payloads
<1>2. QED
  BY <1>1, ClampedAssumption DEF ClampSendSettings, Settings

\* A completed write leaves the settings or, beside another writer, a ruin.
LEMMA WriteFileTyped ==
  ASSUME NEW s \in Settings, WriteFile(s)
  PROVE  file' \in Settings \cup Unreadable
BY DEF WriteFile, Unreadable

MainActions ==
  \/ Load \/ Detect \/ BootCreate \/ BootWrite \/ MainSaveFails \/ Ready
  \/ TaskDone \/ TaskPanics
  \/ Exit \/ Ended \/ Crash \/ PowerLoss \/ WriteBack

\* Settings change to settings, also among those promised.
LEMMA ChangesTyped ==
  ASSUME Typed, NEW s \in Settings, Changes(s)
  PROVE  mem' \in Settings /\ promised' \subseteq Settings
BY DEF Typed, CopiesTyped, Changes

LEMMA CopiesKept == Typed /\ [Next]_vars => CopiesTyped'
<1> SUFFICES ASSUME Typed, [Next]_vars PROVE CopiesTyped'
  OBVIOUS
<1> USE DEF Typed, CopiesTyped, storage, channel, history
<1>1. CASE Load
  <2>1. mem' \in Settings
    BY <1>1, DefaultsAssumption DEF Load, Loads
  <2>2. promised' \subseteq Settings
    BY <1>1 DEF Load, Loads
  <2>3. QED
    BY <1>1, <2>1, <2>2 DEF Load, Loads
<1>2. CASE Detect
  <2>1. mem' \in Settings /\ promised' \subseteq Settings
    BY <1>2, ChangesTyped DEF Detect
  <2>2. QED
    BY <1>2, <2>1 DEF Detect
<1>3. CASE BootCreate
  BY <1>3 DEF BootCreate, CreateFile, Unreadable
<1>4. CASE BootWrite
  <2>1. file' \in Settings \cup Unreadable
    BY <1>4, WriteFileTyped DEF BootWrite
  <2>2. QED
    BY <1>4, <2>1 DEF BootWrite, WriteFile
<1>5. CASE \/ MainSaveFails \/ Ready \/ TaskDone \/ TaskPanics \/ Exit
           \/ WriteBack
  BY <1>5 DEF MainSaveFails, SaveFails, Ready, TaskDone, TaskPanics, TaskStep,
     Exit, WriteBack
<1>6. CASE Ended \/ Crash \/ PowerLoss
  BY <1>6, DefaultsAssumption
     DEF Ended, Crash, PowerLoss, Off, Unreadable
<1>7. ASSUME NEW r \in Requests,
             Post(r) \/ ReadOld(r) \/ RejectPayload(r) \/ HandlerSaveFails(r)
      PROVE  CopiesTyped'
  BY <1>7 DEF Post, ReadOld, RejectPayload, HandlerSaveFails, SaveFails
<1>8. ASSUME NEW r \in Requests, Store(r) PROVE CopiesTyped'
  <2>1. mem' \in Settings /\ promised' \subseteq Settings
    BY <1>8, ChangesTyped DEF Store, RequestsTyped
  <2>2. QED
    BY <1>8, <2>1 DEF Store
<1>9. ASSUME NEW r \in Requests, Send(r) PROVE CopiesTyped'
  BY <1>9 DEF Send, RequestsTyped
<1>10. ASSUME NEW r \in Requests, HandlerCreate(r) PROVE CopiesTyped'
  BY <1>10 DEF HandlerCreate, CreateFile, Unreadable
<1>11. ASSUME NEW r \in Requests, HandlerWrite(r) PROVE CopiesTyped'
  <2>1. file' \in Settings \cup Unreadable
    BY <1>11, WriteFileTyped DEF HandlerWrite, RequestsTyped
  <2>2. QED
    BY <1>11, <2>1 DEF HandlerWrite, WriteFile
<1>12. CASE UNCHANGED vars
  BY <1>12 DEF vars
<1>13. QED
  BY <1>1, <1>2, <1>3, <1>4, <1>5, <1>6, <1>7, <1>8, <1>9, <1>10, <1>11,
     <1>12 DEF Next, Handler

LEMMA RequestsKept == Typed /\ [Next]_vars => RequestsTyped'
<1> SUFFICES ASSUME Typed, [Next]_vars PROVE RequestsTyped'
  OBVIOUS
<1> USE DEF Typed, RequestsTyped, PCs
<1>1. CASE \/ Load \/ Detect \/ BootCreate \/ BootWrite \/ MainSaveFails
           \/ Ready \/ TaskDone \/ TaskPanics \/ Exit \/ WriteBack
           \/ UNCHANGED vars
  BY <1>1 DEF Load, Loads, Detect, BootCreate, BootWrite, MainSaveFails,
     Ready, TaskDone, TaskPanics, TaskStep, Exit, WriteBack, vars, handlers
<1>2. CASE Ended \/ Crash \/ PowerLoss
  BY <1>2, DefaultsAssumption DEF Ended, Crash, PowerLoss, Off
<1>3. ASSUME NEW r \in Requests, Post(r) PROVE RequestsTyped'
  <2>1. pc' \in [Requests -> PCs] /\ UNCHANGED <<new, reply>>
    BY <1>3 DEF Post, HandlerStep
  <2>2. PICK p \in Payloads \cup {Invalid} :
          payload' = [payload EXCEPT ![r] = p]
    BY <1>3 DEF Post
  <2>3. QED
    BY <2>1, <2>2
<1>4. ASSUME NEW r \in Requests, ReadOld(r) PROVE RequestsTyped'
  <2>1. ClampSendSettings(Merge(mem, payload[r])) \in Settings
    BY <1>4, MergeTyped DEF ReadOld, CopiesTyped
  <2>2. QED
    BY <1>4, <2>1 DEF ReadOld, HandlerStep
<1>5. ASSUME NEW r \in Requests,
             RejectPayload(r) \/ HandlerSaveFails(r) \/ Send(r)
      PROVE  RequestsTyped'
  BY <1>5, DefaultsAssumption DEF RejectPayload, HandlerSaveFails, Send, Answer
<1>6. ASSUME NEW r \in Requests,
             Store(r) \/ HandlerCreate(r) \/ HandlerWrite(r)
      PROVE  RequestsTyped'
  BY <1>6 DEF Store, HandlerCreate, HandlerWrite, HandlerStep
<1>7. QED
  BY <1>1, <1>2, <1>3, <1>4, <1>5, <1>6 DEF Next, Handler

LEMMA TypedKept == Typed /\ [Next]_vars => Typed'
<1> SUFFICES ASSUME Typed, [Next]_vars PROVE proc' \in Procs
  BY CopiesKept, RequestsKept DEF Typed
<1> USE DEF Typed, Procs
<1>1. CASE MainActions \/ UNCHANGED vars
  BY <1>1 DEF MainActions, Load, Loads, Detect, BootCreate, BootWrite,
     MainSaveFails, Ready, TaskDone, TaskPanics, TaskStep, Exit, Ended, Crash,
     PowerLoss, Off, WriteBack, vars
<1>2. ASSUME NEW r \in Requests, Post(r) \/ Handler(r) PROVE proc' \in Procs
  BY <1>2 DEF Post, Handler, ReadOld, RejectPayload, Store, HandlerCreate,
     HandlerWrite, HandlerSaveFails, Send
<1>3. QED
  BY <1>1, <1>2 DEF Next, MainActions

LEMMA InitTyped == Init => Typed
<1> SUFFICES ASSUME Init PROVE Typed
  OBVIOUS
<1>1. CopiesTyped
  BY DefaultsAssumption DEF Init, CopiesTyped, Unreadable
<1>2. RequestsTyped /\ proc \in Procs
  BY DefaultsAssumption DEF Init, RequestsTyped, Procs, PCs
<1>3. QED
  BY <1>1, <1>2 DEF Typed

-----------------------------------------------------------------------------
(***************************************************************************)
(* One request at a time.                                                  *)
(***************************************************************************)
Idle(r) == pc[r] = "idle"

\* Requests are served by a program that is up, or about to end.
Resting == Serving \/ \A r \in Requests : Idle(r)

Alone ==
  ~overlapped => \A r, s \in Requests : Idle(r) \/ Idle(s) \/ r = s

LEMMA RestingAtStart ==
  ASSUME Resting, proc \notin {"up", "createExit", "writeExit", "exit"}
  PROVE  \A r \in Requests : Idle(r)
BY DEF Resting, Serving

LEMMA PlacesKept ==
  ASSUME Typed, Resting, Alone, [Next]_vars
  PROVE  Resting' /\ Alone'
<1> USE DEF Resting, Alone, Idle, Serving
<1>1. CASE MainActions \/ UNCHANGED vars
  <2>1. CASE Ended \/ Crash \/ PowerLoss
    BY <2>1 DEF Ended, Crash, PowerLoss, Off
  <2>2. CASE \/ Load \/ Detect \/ BootCreate \/ BootWrite \/ MainSaveFails
             \/ Ready \/ TaskDone \/ TaskPanics \/ Exit \/ WriteBack
             \/ UNCHANGED vars
    BY <2>2 DEF Load, Loads, Detect, BootCreate, BootWrite, MainSaveFails,
       Ready, TaskDone, TaskPanics, TaskStep, Exit, WriteBack, handlers, vars
  <2>3. QED
    BY <1>1, <2>1, <2>2 DEF MainActions
<1>2. ASSUME NEW r \in Requests, Post(r) PROVE Resting' /\ Alone'
  <2>1. /\ Serving /\ UNCHANGED proc
        /\ \A s \in Requests \ {r} : pc'[s] = pc[s]
    BY <1>2 DEF Post, HandlerStep, HandlerAt, Typed, RequestsTyped
  <2>2. ~overlapped' => \A s \in Requests \ {r} : Idle(s)
    BY <1>2 DEF Post
  <2>3. QED
    BY <2>1, <2>2
<1>3. ASSUME NEW r \in Requests, Handler(r) PROVE Resting' /\ Alone'
  <2>1. /\ Serving /\ ~Idle(r) /\ UNCHANGED <<proc, overlapped>>
        /\ \A s \in Requests \ {r} : pc'[s] = pc[s]
    BY <1>3 DEF Handler, ReadOld, RejectPayload, Store, HandlerCreate,
       HandlerWrite, HandlerSaveFails, Send, HandlerStep, HandlerAt, Answer,
       Typed, RequestsTyped
  <2>2. QED
    BY <2>1
<1>4. QED
  BY <1>1, <1>2, <1>3 DEF Next, MainActions

(***************************************************************************)
(* What the request has made of the three copies so far, and what the      *)
(* last one has left.                                                      *)
(***************************************************************************)
Progress(r) ==
  /\ pc[r] = "store" => new[r] = ClampSendSettings(Merge(mem, payload[r]))
  /\ proc = "up" =>
       /\ pc[r] \in {"create", "write", "send"} => mem = new[r]
       /\ pc[r] = "write" => file = Truncated
       /\ pc[r] = "send" => file = new[r]

Agreeing ==
  /\ ~overlapped => \A r \in Requests : Progress(r)
  /\ SavedAgree

\* An idle request has made no progress that could be wrong.
LEMMA IdleProgress == ASSUME NEW r, Idle(r) PROVE Progress(r)
BY DEF Idle, Progress

LEMMA MainKeepsAgreeing ==
  ASSUME Typed, Resting, Agreeing, MainActions \/ UNCHANGED vars
  PROVE  Agreeing'
<1> USE DEF Agreeing, SavedAgree
<1>1. CASE Load \/ Detect \/ Ready
  <2>1. \A r \in Requests : Idle(r)
    BY <1>1, RestingAtStart DEF Load, Loads, Detect, Ready
  <2>2. UNCHANGED pc
    BY <1>1 DEF Load, Loads, Detect, Ready, handlers
  <2>3. \A r \in Requests : Progress(r)'
    BY <2>1, <2>2 DEF Idle, Progress
  <2>4. proc' # "up" \/ reply' # "ok"
    BY <1>1 DEF Load, Loads, Detect, Ready
  <2>5. QED
    BY <2>3, <2>4
<1>2. CASE BootCreate \/ BootWrite \/ MainSaveFails \/ Exit
  <2>1. proc' # "up" /\ UNCHANGED <<mem, handlers>>
    BY <1>2 DEF BootCreate, BootWrite, MainSaveFails, Exit
  <2>2. QED
    BY <2>1 DEF Progress, handlers
<1>3. CASE Ended \/ Crash \/ PowerLoss
  <2>1. /\ proc' = "down"
        /\ \A r \in Requests : pc'[r] = "idle"
    BY <1>3 DEF Ended, Crash, PowerLoss, Off
  <2>2. QED
    BY <2>1 DEF Progress
<1>4. CASE TaskDone \/ TaskPanics \/ WriteBack
  <2>1. /\ UNCHANGED <<proc, mem, file, watch, handlers>>
        /\ task # "gone" \/ task' = task
    BY <1>4 DEF TaskDone, TaskPanics, TaskStep, WriteBack, storage, channel
  <2>2. QED
    BY <2>1 DEF handlers, Progress
<1>5. CASE UNCHANGED vars
  BY <1>5 DEF vars, storage, channel, handlers, Progress
<1>6. QED
  BY <1>1, <1>2, <1>3, <1>4, <1>5 DEF MainActions

LEMMA PostKeepsAgreeing ==
  ASSUME Typed, NEW r \in Requests, Post(r) PROVE Agreeing'
<1>1. /\ pc'[r] = "read"
      /\ \A s \in Requests \ {r} : pc'[s] = pc[s]
      /\ ~overlapped' => \A s \in Requests \ {r} : pc[s] = "idle"
  BY DEF Post, HandlerStep, HandlerAt, Typed, RequestsTyped
<1>2. ~overlapped' => \A s \in Requests : Progress(s)'
  BY <1>1 DEF Progress
<1>3. SavedAgree'
  BY <1>1 DEF SavedAgree
<1>4. QED
  BY <1>2, <1>3 DEF Agreeing

LEMMA HandlerKeepsAgreeing ==
  ASSUME Typed, Alone, Agreeing, NEW r \in Requests, Handler(r)
  PROVE  Agreeing'
<1>1. CASE overlapped
  <2>1. overlapped'
    BY <1>1 DEF Handler, ReadOld, RejectPayload, Store, HandlerCreate,
       HandlerWrite, HandlerSaveFails, Send
  <2>2. QED
    BY <2>1 DEF Agreeing, SavedAgree
<1>2. CASE ~overlapped
  <2>1. /\ ~Idle(r) /\ pc[r] \in PCs
        /\ \A s \in Requests \ {r} : pc'[s] = pc[s]
    BY DEF Handler, ReadOld, RejectPayload, Store, HandlerCreate,
       HandlerWrite, HandlerSaveFails, Send, HandlerStep, HandlerAt, Answer,
       Idle, Typed, RequestsTyped
  <2>2. \A s \in Requests \ {r} : pc'[s] = "idle"
    BY <1>2, <2>1 DEF Alone, Idle
  <2>3. \A s \in Requests \ {r} : Progress(s)'
    BY <2>2 DEF Progress
  <2>4. Progress(r)
    BY <1>2 DEF Agreeing
  <2>5. Progress(r)' /\ SavedAgree'
    <3> USE DEF Typed, RequestsTyped, CopiesTyped, HandlerStep, HandlerAt,
                Answer, Progress, storage, channel
    <3>1. CASE ReadOld(r)
      <4>1. /\ pc'[r] = "store"
            /\ new'[r] = ClampSendSettings(Merge(mem, payload[r]))
            /\ UNCHANGED <<mem, payload>>
        BY <3>1 DEF ReadOld
      <4>2. QED
        BY <4>1 DEF SavedAgree, ClampSendSettings, Merge
    <3>2. CASE RejectPayload(r) \/ HandlerSaveFails(r)
      <4>1. pc'[r] = "idle" /\ reply' # "ok"
        BY <3>2 DEF RejectPayload, HandlerSaveFails
      <4>2. QED
        BY <4>1 DEF SavedAgree
    <3>3. CASE Store(r)
      BY <3>3 DEF Store, Changes, SavedAgree
    <3>4. CASE HandlerCreate(r)
      BY <3>4, <2>4 DEF HandlerCreate, CreateFile, SavedAgree
    <3>5. CASE HandlerWrite(r)
      <4>1. /\ pc[r] = "write" /\ pc'[r] = "send"
            /\ WriteFile(new[r]) /\ UNCHANGED <<proc, mem, new>>
        BY <3>5 DEF HandlerWrite
      <4>2. proc = "up" => file' = new[r]
        BY <4>1, <2>4 DEF WriteFile
      <4>3. QED
        BY <4>1, <4>2, <2>4 DEF SavedAgree
    <3>6. CASE Send(r)
      <4>1. /\ pc[r] = "send" /\ pc'[r] = "idle"
            /\ UNCHANGED <<proc, mem, file>>
            /\ task' = "gone" \/ watch' = new[r]
        BY <3>6 DEF Send
      <4>2. QED
        BY <4>1, <2>4 DEF SavedAgree
    <3>7. QED
      BY <3>1, <3>2, <3>3, <3>4, <3>5, <3>6 DEF Handler
  <2>6. QED
    BY <2>3, <2>5 DEF Agreeing
<1>3. QED
  BY <1>1, <1>2

-----------------------------------------------------------------------------
(***************************************************************************)
(* What may come back: unless a save was cut short, the file holds one of  *)
(* the promised settings or is about to, and so does whatever could still  *)
(* be written to it.                                                       *)
(***************************************************************************)
InFile == file \in promised \/ (file = Truncated /\ Saving)

InProgram ==
  /\ proc # "down" => mem \in promised
  /\ \A r \in Requests :
       pc[r] \in {"create", "write", "send"} => new[r] \in promised

Promising == promised # {} /\ ~interrupted => InFile /\ InProgram

LEMMA MainKeepsPromise ==
  ASSUME Typed, Resting, Promising, MainActions \/ UNCHANGED vars
  PROVE  Promising'
<1> USE DEF storage, channel, handlers, history
<1>1. CASE Load
  <2>1. CASE file \in Unreadable
    <3>1. promised' = {}
      BY <1>1, <2>1 DEF Load, Loads
    <3>2. QED
      BY <3>1 DEF Promising
  <2>2. CASE file \notin Unreadable
    <3>1. promised' = {file} /\ mem' = file /\ UNCHANGED <<file, pc, new>>
      BY <1>1, <2>2 DEF Load, Loads
    <3>2. \A r \in Requests : pc[r] = "idle"
      BY <1>1, RestingAtStart DEF Load, Loads, Idle
    <3>3. QED
      BY <3>1, <3>2 DEF Promising, InFile, InProgram
  <2>3. QED
    BY <2>1, <2>2
<1>2. CASE Detect
  <2>1. /\ proc = "detect" /\ proc' # "down"
        /\ UNCHANGED <<file, pc, new, interrupted>>
        /\ promised # {} => promised' = promised \cup {mem'}
        /\ promised = {} => promised' = {}
    BY <1>2 DEF Detect, Changes
  <2>2. \A r \in Requests : pc[r] = "idle"
    BY <2>1, RestingAtStart DEF Idle
  <2>3. QED
    BY <2>1, <2>2 DEF Promising, InFile, InProgram, Saving
<1>3. CASE BootCreate
  <2>1. Saving' /\ file' = Truncated
    BY <1>3 DEF BootCreate, CreateFile, Saving
  <2>2. QED
    BY <1>3, <2>1
       DEF BootCreate, CreateFile, Promising, InFile, InProgram
<1>4. CASE BootWrite
  <2> SUFFICES ASSUME promised' # {}, ~interrupted'
               PROVE  InFile' /\ InProgram'
    BY DEF Promising
  <2>1. promised # {} /\ ~interrupted /\ UNCHANGED promised
    BY <1>4 DEF BootWrite, WriteFile
  <2>2. InProgram /\ proc # "down"
    BY <1>4, <2>1 DEF Promising, BootWrite
  <2>3. file' \in promised'
    BY <1>4, <2>1, <2>2 DEF BootWrite, WriteFile, InProgram
  <2>4. InProgram'
    BY <1>4, <2>1, <2>2 DEF BootWrite, InProgram
  <2>5. QED
    BY <2>3, <2>4 DEF InFile
<1>5. CASE MainSaveFails
  <2>1. CASE proc \in {"writeLoaded", "writeDetected", "writeExit"}
    <3>1. interrupted'
      BY <1>5, <2>1 DEF MainSaveFails, SaveFails
    <3>2. QED
      BY <3>1 DEF Promising
  <2>2. CASE proc \notin {"writeLoaded", "writeDetected", "writeExit"}
    <3>1. proc # "down"
      BY <1>5 DEF MainSaveFails
    <3>2. UNCHANGED <<file, promised, mem, pc, new>>
      BY <1>5 DEF MainSaveFails, SaveFails
    <3>3. promised # {} /\ ~interrupted' => ~interrupted
      BY <1>5 DEF MainSaveFails, SaveFails
    <3>4. Saving => Saving'
      BY <2>2, <3>2 DEF Saving
    <3>5. QED
      BY <3>1, <3>2, <3>3, <3>4 DEF Promising, InFile, InProgram
  <2>3. QED
    BY <2>1, <2>2
<1>6. CASE \/ Ready \/ TaskDone \/ TaskPanics \/ Exit \/ WriteBack
           \/ UNCHANGED vars
  <2>1. /\ UNCHANGED <<file, promised, interrupted, mem, pc, new>>
        /\ proc' = proc \/ proc \in {"ready", "up"}
        /\ proc' # "down" => proc # "down"
    BY <1>6 DEF Ready, TaskDone, TaskPanics, TaskStep, Exit, WriteBack, vars
  <2>2. Saving => Saving'
    BY <2>1 DEF Saving
  <2>3. QED
    BY <2>1, <2>2 DEF Promising, InFile, InProgram
<1>7. CASE Ended \/ Crash \/ PowerLoss
  <2> SUFFICES ASSUME promised' # {}, ~interrupted'
               PROVE  InFile' /\ InProgram'
    BY DEF Promising
  <2>1. /\ proc' = "down" /\ \A r \in Requests : pc'[r] = "idle"
        /\ UNCHANGED promised
    BY <1>7 DEF Ended, Crash, PowerLoss, Off
  <2>2. ~interrupted /\ ~Saving /\ file' = file
    <3>1. CASE Ended
      BY <3>1 DEF Ended, Saving
    <3>2. CASE Crash
      BY <3>2 DEF Crash
    <3>3. CASE PowerLoss
      <4>1. ~interrupted /\ ~Saving /\ disk = file
        BY <3>3 DEF PowerLoss
      <4>2. QED
        BY <3>3, <4>1 DEF PowerLoss
    <3>4. QED
      BY <1>7, <3>1, <3>2, <3>3
  <2>3. QED
    BY <2>1, <2>2 DEF Promising, InFile, InProgram
<1>8. QED
  BY <1>1, <1>2, <1>3, <1>4, <1>5, <1>6, <1>7 DEF MainActions

LEMMA HandlersKeepPromise ==
  ASSUME Typed, Alone, Agreeing, Promising, NEW r \in Requests,
         Post(r) \/ Handler(r)
  PROVE  Promising'
<1> USE DEF storage, channel, history, HandlerStep, HandlerAt, Typed,
            RequestsTyped
<1> DEFINE Holds(q) == pc[q] \in {"create", "write", "send"}
<1>1. Serving /\ UNCHANGED proc /\ proc # "down"
  BY DEF Post, Handler, ReadOld, RejectPayload, Store, HandlerCreate,
     HandlerWrite, HandlerSaveFails, Send, Serving
<1>2. \A q \in Requests \ {r} : pc'[q] = pc[q] /\ new'[q] = new[q]
  BY DEF Post, Handler, ReadOld, RejectPayload, Store, HandlerCreate,
     HandlerWrite, HandlerSaveFails, Send, Answer
<1>3. CASE Post(r) \/ ReadOld(r) \/ RejectPayload(r)
  <2>1. /\ UNCHANGED <<file, promised, interrupted, mem>>
        /\ pc[r] \in {"idle", "read"} /\ pc'[r] \in {"read", "store", "idle"}
    BY <1>3 DEF Post, ReadOld, RejectPayload, Answer
  <2>2. Saving => Saving'
    BY <1>1, <1>2, <2>1 DEF Saving
  <2>3. QED
    BY <1>1, <1>2, <2>1, <2>2 DEF Promising, InFile, InProgram
<1>4. CASE Store(r)
  <2>1. /\ UNCHANGED <<file, new, interrupted>> /\ mem' = new[r]
        /\ pc[r] = "store" /\ pc'[r] = "create"
        /\ promised # {} => promised' = promised \cup {new[r]}
        /\ promised = {} => promised' = {}
    BY <1>4 DEF Store, Changes
  <2>2. Saving => Saving'
    BY <1>1, <1>2, <2>1 DEF Saving
  <2>3. QED
    BY <1>1, <1>2, <2>1, <2>2 DEF Promising, InFile, InProgram
<1>5. CASE HandlerCreate(r)
  <2>1. /\ UNCHANGED <<promised, interrupted, mem, new>>
        /\ file' = Truncated /\ pc[r] = "create" /\ pc'[r] = "write"
    BY <1>5 DEF HandlerCreate, CreateFile
  <2>2. Saving'
    BY <2>1 DEF Saving
  <2>3. QED
    BY <1>1, <1>2, <2>1, <2>2 DEF Promising, InFile, InProgram
<1>6. CASE HandlerWrite(r)
  <2> SUFFICES ASSUME promised' # {}, ~interrupted'
               PROVE  InFile' /\ InProgram'
    BY DEF Promising
  <2>1. /\ promised # {} /\ ~interrupted
        /\ UNCHANGED <<promised, mem, new>>
        /\ pc[r] = "write" /\ pc'[r] = "send"
    BY <1>6 DEF HandlerWrite, WriteFile
  <2>2. InProgram
    BY <2>1 DEF Promising
  <2>3. file' \in promised'
    <3>1. WriteFile(new[r]) /\ new[r] \in promised
      BY <1>6, <2>1, <2>2 DEF HandlerWrite, InProgram
    <3>2. QED
      BY <2>1, <3>1 DEF WriteFile
  <2>4. InProgram'
    BY <1>1, <1>2, <2>1, <2>2 DEF InProgram
  <2>5. QED
    BY <2>3, <2>4 DEF InFile
<1>7. CASE HandlerSaveFails(r)
  <2>1. CASE pc[r] = "write"
    <3>1. interrupted'
      BY <1>7, <2>1 DEF HandlerSaveFails, SaveFails
    <3>2. QED
      BY <3>1 DEF Promising
  <2>2. CASE pc[r] # "write"
    <3>1. /\ UNCHANGED <<file, promised, mem>> /\ pc'[r] = "idle"
          /\ ~interrupted' => ~interrupted
      BY <1>7 DEF HandlerSaveFails, SaveFails, Answer
    <3>2. Saving => Saving'
      BY <1>1, <1>2, <2>2 DEF Saving
    <3>3. QED
      BY <1>1, <1>2, <3>1, <3>2 DEF Promising, InFile, InProgram
  <2>3. QED
    BY <2>1, <2>2
<1>8. CASE Send(r)
  <2>1. /\ pc[r] = "send" /\ pc'[r] = "idle"
        /\ UNCHANGED <<file, mem>>
    BY <1>8 DEF Send, Answer
  <2>2. CASE proc = "up" /\ ~overlapped
    <3>1. promised' = {new[r]}
      BY <1>8, <2>2 DEF Send
    <3>2. file = new[r] /\ mem = new[r]
      BY <2>1, <2>2 DEF Agreeing, Progress
    <3>3. \A q \in Requests : pc'[q] = "idle"
      BY <1>2, <2>1, <2>2 DEF Alone, Idle
    <3>4. QED
      BY <2>1, <3>1, <3>2, <3>3 DEF Promising, InFile, InProgram
  <2>3. CASE ~(proc = "up" /\ ~overlapped)
    <3>1. UNCHANGED <<promised, interrupted>>
      BY <1>8, <2>3 DEF Send
    <3>2. Saving => Saving'
      BY <1>1, <1>2, <2>1 DEF Saving
    <3>3. QED
      BY <1>1, <1>2, <2>1, <3>1, <3>2 DEF Promising, InFile, InProgram
  <2>4. QED
    BY <2>2, <2>3
<1>9. QED
  BY <1>3, <1>4, <1>5, <1>6, <1>7, <1>8 DEF Handler

-----------------------------------------------------------------------------
(***************************************************************************)
(* The inductive invariant and what follows from it.                       *)
(***************************************************************************)
IInv ==
  /\ Typed
  /\ Resting /\ Alone
  /\ Agreeing
  /\ Promising

LEMMA InitIInv == Init => IInv
<1> SUFFICES ASSUME Init PROVE IInv
  OBVIOUS
<1>1. \A r \in Requests : Idle(r)
  BY DEF Init, Idle
<1>2. Resting /\ Alone
  BY <1>1 DEF Resting, Alone
<1>3. Agreeing
  BY <1>1, IdleProgress DEF Init, Agreeing, SavedAgree
<1>4. Promising
  BY DEF Init, Promising
<1>5. QED
  BY InitTyped, <1>2, <1>3, <1>4 DEF IInv

LEMMA IInvKept == IInv /\ [Next]_vars => IInv'
<1> SUFFICES ASSUME IInv, [Next]_vars PROVE IInv'
  OBVIOUS
<1> USE DEF IInv
<1>1. Typed'
  BY TypedKept
<1>2. Resting' /\ Alone'
  BY PlacesKept
<1>3. Agreeing'
  <2>1. CASE MainActions \/ UNCHANGED vars
    BY <2>1, MainKeepsAgreeing
  <2>2. ASSUME NEW r \in Requests, Post(r) PROVE Agreeing'
    BY <2>2, PostKeepsAgreeing
  <2>3. ASSUME NEW r \in Requests, Handler(r) PROVE Agreeing'
    BY <2>3, HandlerKeepsAgreeing
  <2>4. QED
    BY <2>1, <2>2, <2>3 DEF Next, MainActions
<1>4. Promising'
  <2>1. CASE MainActions \/ UNCHANGED vars
    BY <2>1, MainKeepsPromise
  <2>2. ASSUME NEW r \in Requests, Post(r) \/ Handler(r) PROVE Promising'
    BY <2>2, HandlersKeepPromise
  <2>3. QED
    BY <2>1, <2>2 DEF Next, MainActions
<1>5. QED
  BY <1>1, <1>2, <1>3, <1>4

LEMMA IInvHolds == Spec => []IInv
BY InitIInv, IInvKept, PTL DEF Spec

(***************************************************************************)
(* When no request is in progress and the last one succeeded without       *)
(* another beside it, the settings that the web server shows and those in  *)
(* config.json are the same, and so are those the pipelines were sent      *)
(* while the settings task is there to receive them (web_server.rs:119-138)*)
(***************************************************************************)
THEOREM SavedCopiesAgree == Spec => []SavedAgree
<1>1. IInv => SavedAgree
  BY DEF IInv, Agreeing
<1>2. QED
  BY <1>1, IInvHolds, PTL

(***************************************************************************)
(* A start brings back the settings acknowledged or loaded last, or some   *)
(* stored since, wherever the program was killed, the power was lost or a  *)
(* save failed - unless one of them cut a save short or came before the    *)
(* file was on the disk (settings.rs:211).                                 *)
(***************************************************************************)
THEOREM AcknowledgedSurvives == Spec => AckedSurvives
<1> DEFINE Survives ==
      Load /\ promised # {} => mem' \in promised \/ interrupted
<1>1. IInv => Survives
  <2> SUFFICES ASSUME IInv, Load, promised # {}, ~interrupted
               PROVE  mem' \in promised
    OBVIOUS
  <2>1. proc = "down" /\ \A r \in Requests : pc[r] = "idle"
    BY RestingAtStart DEF IInv, Load, Loads, Idle
  <2>2. file \in promised /\ file \in Settings
    BY <2>1 DEF IInv, Promising, InFile, Saving, Typed, CopiesTyped
  <2>3. file \notin Unreadable
    BY <2>2, DefaultsAssumption DEF Unreadable
  <2>4. QED
    BY <2>2, <2>3 DEF Load, Loads
<1>2. IInv => [Survives]_vars
  BY <1>1
<1>3. QED
  BY <1>2, IInvHolds, PTL DEF AckedSurvives

(***************************************************************************)
(* A field that a request leaves empty keeps its value or takes the one    *)
(* clamp_send_settings makes of it, unless another request overlaps it     *)
(* (web_server.rs:114-118).                                                *)
(***************************************************************************)
THEOREM EmptyKept == Spec => EmptyFieldsKept
<1> DEFINE Keeps ==
      \A r \in Requests : Store(r) /\ ~overlapped =>
        \A f \in Fields : payload[r][f] = Empty =>
          \/ mem'[f] = mem[f]
          \/ mem'[f] = Clamped[f][mem[f]]
<1>1. IInv => Keeps
  <2> SUFFICES ASSUME IInv, NEW r \in Requests, Store(r), ~overlapped,
                      NEW f \in Fields, payload[r][f] = Empty
               PROVE  mem'[f] = Clamped[f][mem[f]]
    OBVIOUS
  <2>1. mem' = ClampSendSettings(Merge(mem, payload[r]))
    BY DEF IInv, Agreeing, Progress, Store, HandlerStep, HandlerAt, Changes
  <2>2. QED
    BY <2>1 DEF ClampSendSettings, Merge
<1>2. IInv => [Keeps]_vars
  BY <1>1
<1>3. QED
  BY <1>2, IInvHolds, PTL DEF EmptyFieldsKept

(***************************************************************************)
(* The variables keep their types: settings stay settings, and config.json *)
(* is one of them, missing, truncated or garbled.                          *)
(***************************************************************************)
THEOREM TypeCorrect == Spec => []TypeOK
<1> DEFINE Counted ==
      /\ posts \in 0..MaxPosts /\ crashes \in 0..MaxCrashes
      /\ task \in {"waiting", "called", "gone"}
      /\ overlapped \in BOOLEAN /\ interrupted \in BOOLEAN
<1>1. Init => Counted
  <2> SUFFICES ASSUME Init PROVE Counted
    OBVIOUS
  <2>1. /\ posts \in 0..MaxPosts /\ crashes \in 0..MaxCrashes
        /\ task \in {"waiting", "called", "gone"}
    BY BoundsAssumption DEF Init
  <2>2. overlapped \in BOOLEAN /\ interrupted \in BOOLEAN
    BY Zenon DEF Init
  <2>3. QED
    BY <2>1, <2>2
<1>2. Counted /\ [Next]_vars => Counted'
  <2> SUFFICES ASSUME Counted, [Next]_vars PROVE Counted'
    OBVIOUS
  <2> USE DEF storage, channel, handlers, history
  <2>1. CASE MainActions \/ UNCHANGED vars
    <3>1. UNCHANGED <<posts, overlapped>>
      BY <2>1 DEF MainActions, Load, Loads, Detect, BootCreate, BootWrite,
         MainSaveFails, Ready, TaskDone, TaskPanics, TaskStep, Exit, Ended,
         Crash, PowerLoss, Off, WriteBack, vars
    <3>2. /\ crashes' \in 0..MaxCrashes
          /\ task' \in {"waiting", "called", "gone"}
      BY <2>1, BoundsAssumption
         DEF MainActions, Load, Loads, Detect, BootCreate, BootWrite,
         MainSaveFails, Ready, TaskDone, TaskPanics, TaskStep, Exit, Ended,
         Crash, PowerLoss, Off, WriteBack, vars
    <3>3. interrupted' \in BOOLEAN
      BY <2>1, Zenon
         DEF MainActions, Load, Loads, Detect, Changes, BootCreate,
         CreateFile, BootWrite, WriteFile, MainSaveFails, SaveFails, Ready,
         TaskDone, TaskPanics, TaskStep, Exit, Ended, Crash, PowerLoss,
         WriteBack, vars
    <3>4. QED
      BY <3>1, <3>2, <3>3
  <2>2. ASSUME NEW r \in Requests, Post(r) PROVE Counted'
    <3>1. overlapped' \in BOOLEAN /\ UNCHANGED interrupted
      BY <2>2, Zenon DEF Post
    <3>2. posts' \in 0..MaxPosts /\ UNCHANGED <<task, crashes>>
      BY <2>2, BoundsAssumption DEF Post
    <3>3. QED
      BY <3>1, <3>2
  <2>3. ASSUME NEW r \in Requests, Handler(r) PROVE Counted'
    <3>1. UNCHANGED <<posts, crashes, overlapped>>
      BY <2>3 DEF Handler, ReadOld, RejectPayload, Store, HandlerCreate,
         HandlerWrite, HandlerSaveFails, Send
    <3>2. task' \in {"waiting", "called", "gone"}
      BY <2>3 DEF Handler, ReadOld, RejectPayload, Store, HandlerCreate,
         HandlerWrite, HandlerSaveFails, Send
    <3>3. interrupted' \in BOOLEAN
      BY <2>3, Zenon
         DEF Handler, ReadOld, RejectPayload, Store, Changes, HandlerCreate,
         CreateFile, HandlerWrite, WriteFile, HandlerSaveFails, SaveFails, Send
    <3>4. QED
      BY <3>1, <3>2, <3>3
  <2>4. QED
    BY <2>1, <2>2, <2>3 DEF Next, MainActions
<1>3. IInv /\ Counted => TypeOK
  BY DEF IInv, Typed, CopiesTyped, RequestsTyped, TypeOK
<1>4. QED
  BY <1>1, <1>2, <1>3, IInvHolds, PTL DEF Spec

=============================================================================
