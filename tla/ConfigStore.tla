----------------------------- MODULE ConfigStore -----------------------------
(***************************************************************************)
(* The settings of the program and their three copies: the shared settings *)
(* behind a lock, the file config.json, and the watch channel from which   *)
(* the settings task takes what the pipelines run with.  POST /api/config  *)
(* (update_config of web_server.rs) writes all three, several requests at  *)
(* a time; main.rs loads the file when the program starts and writes it    *)
(* when it ends.  The process may be killed and the machine may lose power *)
(* at any step; nothing calls fsync, so that a file is on the disk only    *)
(* when the kernel has written it back.                                    *)
(*                                                                         *)
(* Settings are functions from fields to values.  A request may leave a    *)
(* field empty, and merge_empty_fields then keeps the old value.  For      *)
(* fields it does not look at, empty is a value like another: flags, the   *)
(* audio mode (normalize_audio_mode reads an empty one as both), and the   *)
(* device of an audio input that the mode switches off.                    *)
(***************************************************************************)
EXTENDS Integers

CONSTANTS
  Requests,        \* the connections that can carry a request
  Fields, Values,  \* what settings are made of
  Detected,        \* fields that the autodetection at start may set
  Defaults,        \* Settings::default
  Legacy,          \* the contents of config.xml, or NoXml
  NoXml,           \* there is no config.xml
  Empty,           \* a field the request leaves empty
  Invalid,         \* a payload serde_json rejects
  Clamped,         \* what clamp_send_settings makes of a field's value
  Missing,         \* there is no config.json
  Truncated,       \* config.json created or truncated, not yet written
  Garbled,         \* config.json holds the remains of two writes
  MaxPosts,        \* bound on the number of requests
  MaxCrashes,      \* bound on the number of crashes and power losses
  DiskMayFail      \* file operations may fail

Settings == [Fields -> Values]

ASSUME FieldsAssumption == Detected \subseteq Fields
ASSUME DefaultsAssumption ==
  /\ Defaults \in Settings
  /\ Legacy \in Settings \cup {NoXml}
  /\ Settings \cap {NoXml, Missing, Truncated, Garbled} = {}
  /\ Empty \notin Values
ASSUME ClampedAssumption == Clamped \in [Fields -> [Values -> Values]]
ASSUME BoundsAssumption == MaxPosts \in Nat /\ MaxCrashes \in Nat
ASSUME DiskAssumption == DiskMayFail \in BOOLEAN

VARIABLES
  proc,       \* the program: down, starting, up, or ending
  mem,        \* the shared settings (WebState.settings)
  file,       \* config.json as programs see it
  disk,       \* config.json as a power loss would leave it
  watch,      \* the value of the watch channel
  task,       \* the settings task, its receiver: waiting, called or gone
  pc,         \* where the handler of each request is
  payload,    \* what each request asks for
  new,        \* new_settings of each handler
  reply,      \* the last answer given since the program started
  posts,      \* requests so far
  crashes,    \* crashes and power losses so far
  overlapped, \* history: a request came while another one was in progress,
              \* and none has come since that was alone
  promised,   \* history: the settings acknowledged or loaded last, and those
              \* stored since
  interrupted \* history: since then a save has been cut short, or the power
              \* was lost before the file was on the disk

handlers == <<pc, payload, new, reply, posts, overlapped>>
channel == <<watch, task>>
storage == <<file, disk>>
history == <<promised, interrupted>>
vars == <<proc, mem, storage, channel, handlers, crashes, history>>

Unreadable == {Missing, Truncated, Garbled}

Payloads == [Fields -> Values \cup {Empty}]

\* Mutant: an empty field is given its default.
MergeDefaults(old, asked) ==
  [f \in Fields |-> IF asked[f] = Empty THEN Defaults[f] ELSE asked[f]]

\* merge_empty_fields
Merge(old, asked) ==
  [f \in Fields |-> IF asked[f] = Empty THEN old[f] ELSE asked[f]]

\* clamp_send_settings
ClampSendSettings(s) == [f \in Fields |-> Clamped[f][s[f]]]

Init ==
  /\ proc = "down"
  /\ mem = Defaults /\ watch = Defaults /\ task = "gone"
  /\ file \in Settings \cup {Missing} /\ disk = file
  /\ pc = [r \in Requests |-> "idle"]
  /\ payload = [r \in Requests |-> Invalid]
  /\ new = [r \in Requests |-> Defaults]
  /\ reply = "none"
  /\ posts = 0 /\ crashes = 0
  /\ overlapped = FALSE
  /\ promised = {} /\ interrupted = FALSE

-----------------------------------------------------------------------------
(***************************************************************************)
(* Settings::save is fs::write: the file is created or truncated, then     *)
(* written from its start.  A write into a file that another writer has    *)
(* filled since leaves the longer one's tail behind the new contents.  A   *)
(* save that fails does so at its first step, or leaves the file short.    *)
(***************************************************************************)
CreateFile ==
  /\ file' = Truncated
  /\ UNCHANGED <<disk, history>>

WriteFile(s) ==
  /\ IF file \in {Truncated, s} THEN file' = s ELSE file' \in {s, Garbled}
  /\ interrupted' = (interrupted \/ file' = Garbled)
  /\ UNCHANGED <<disk, promised>>

SaveFails(created) ==
  /\ DiskMayFail
  /\ interrupted' = (interrupted \/ created)
  /\ UNCHANGED <<storage, promised>>

\* Settings that a later start may bring back in place of those promised.
Changes(s) ==
  /\ mem' = s
  /\ promised' = IF promised = {} THEN {} ELSE promised \cup {s}
  /\ UNCHANGED interrupted

\* The kernel has written the file, in whatever state it is.
WriteBack ==
  /\ disk # file
  /\ disk' = file
  /\ UNCHANGED <<proc, mem, file, channel, handlers, crashes, history>>

-----------------------------------------------------------------------------
(***************************************************************************)
(* Start: load_settings_with_xml_fallback, apply_startup_autodetect, and   *)
(* the copies that main makes.  A failed save is logged and ignored.       *)
(***************************************************************************)
Loads(s) ==
  /\ proc = "down"
  /\ mem' = s
  /\ proc' = IF file \notin Unreadable THEN "detect" ELSE "createLoaded"
  /\ promised' = IF file \notin Unreadable THEN {file} ELSE {}
  /\ interrupted' = FALSE
  /\ UNCHANGED <<storage, channel, handlers, crashes>>

\* Mutant: config.xml is preferred to config.json.
LoadLegacyFirst ==
  Loads(IF Legacy # NoXml THEN Legacy
        ELSE IF file \notin Unreadable THEN file ELSE Defaults)

\* Mutant: what is in the file is not checked.
LoadUnchecked == Loads(file)

Load ==
  Loads(IF file \notin Unreadable THEN file
        ELSE IF Legacy # NoXml THEN Legacy ELSE Defaults)

Detect ==
  /\ proc = "detect"
  /\ \E s \in Settings :
       /\ \A f \in Fields \ Detected : s[f] = mem[f]
       /\ Changes(s)
  /\ proc' = IF mem' = mem THEN "ready" ELSE "createDetected"
  /\ UNCHANGED <<storage, channel, handlers, crashes>>

BootCreate ==
  /\ \/ proc = "createLoaded" /\ proc' = "writeLoaded"
     \/ proc = "createDetected" /\ proc' = "writeDetected"
     \/ proc = "createExit" /\ proc' = "writeExit"
  /\ CreateFile
  /\ UNCHANGED <<mem, channel, handlers, crashes>>

BootWrite ==
  /\ \/ proc = "writeLoaded" /\ proc' = "detect"
     \/ proc = "writeDetected" /\ proc' = "ready"
     \/ proc = "writeExit" /\ proc' = "exit"
  /\ WriteFile(mem)
  /\ UNCHANGED <<mem, channel, handlers, crashes>>

MainSaveFails ==
  /\ \/ proc \in {"createLoaded", "writeLoaded"} /\ proc' = "detect"
     \/ proc \in {"createDetected", "writeDetected"} /\ proc' = "ready"
     \/ proc \in {"createExit", "writeExit"} /\ proc' = "exit"
  /\ SaveFails(proc \in {"writeLoaded", "writeDetected", "writeExit"})
  /\ UNCHANGED <<mem, channel, handlers, crashes>>

Ready ==
  /\ proc = "ready"
  /\ proc' = "up"
  /\ watch' = mem /\ task' = "waiting"
  /\ reply' = "none"
  /\ UNCHANGED <<mem, storage, pc, payload, new, posts, crashes, overlapped,
                 history>>

-----------------------------------------------------------------------------
(***************************************************************************)
(* update_config.                                                          *)
(***************************************************************************)
Serving == proc \in {"up", "createExit", "writeExit", "exit"}

HandlerAt(r, from) == Serving /\ pc[r] = from

HandlerStep(r, from, to) ==
  /\ HandlerAt(r, from)
  /\ pc' = [pc EXCEPT ![r] = to]

Post(r) ==
  /\ proc = "up" /\ posts < MaxPosts
  /\ HandlerStep(r, "idle", "read")
  /\ posts' = posts + 1
  /\ overlapped' = (\E s \in Requests \ {r} : pc[s] # "idle")
  /\ payload' \in {[payload EXCEPT ![r] = p] : p \in Payloads \cup {Invalid}}
  /\ UNCHANGED <<proc, mem, storage, channel, new, reply, crashes, history>>

\* The handler returns; its variables are gone.
Answer(r, result) ==
  /\ pc' = [pc EXCEPT ![r] = "idle"]
  /\ payload' = [payload EXCEPT ![r] = Invalid]
  /\ new' = [new EXCEPT ![r] = Defaults]
  /\ reply' = result

\* Read the old settings under the lock, parse, merge and clamp.
ReadOld(r) ==
  /\ payload[r] # Invalid
  /\ HandlerStep(r, "read", "store")
  /\ new' = [new EXCEPT ![r] = ClampSendSettings(Merge(mem, payload[r]))]
  /\ UNCHANGED <<proc, mem, storage, channel, payload, reply, posts, crashes,
                 overlapped, history>>

RejectPayload(r) ==
  /\ payload[r] = Invalid
  /\ HandlerAt(r, "read")
  /\ Answer(r, "invalid")
  /\ UNCHANGED <<proc, mem, storage, channel, posts, crashes, overlapped,
                 history>>

\* The write lock; main holds the read lock while it saves on exit.
Store(r) ==
  /\ proc \notin {"createExit", "writeExit"}
  /\ HandlerStep(r, "store", "create")
  /\ Changes(new[r])
  /\ UNCHANGED <<proc, storage, channel, payload, new, reply, posts, crashes,
                 overlapped>>

HandlerCreate(r) ==
  /\ HandlerStep(r, "create", "write")
  /\ CreateFile
  /\ UNCHANGED <<proc, mem, channel, payload, new, reply, posts, crashes,
                 overlapped>>

HandlerWrite(r) ==
  /\ HandlerStep(r, "write", "send")
  /\ WriteFile(new[r])
  /\ UNCHANGED <<proc, mem, channel, payload, new, reply, posts, crashes,
                 overlapped>>

\* Mutant: the failure of the save is ignored in the answer.
HandlerSaveFailsUntold(r) ==
  /\ HandlerAt(r, "create") \/ HandlerAt(r, "write")
  /\ SaveFails(pc[r] = "write")
  /\ Answer(r, "ok")
  /\ UNCHANGED <<proc, mem, channel, posts, crashes, overlapped>>

\* The error answer; the shared settings keep the new value.
HandlerSaveFails(r) ==
  /\ HandlerAt(r, "create") \/ HandlerAt(r, "write")
  /\ SaveFails(pc[r] = "write")
  /\ Answer(r, "error")
  /\ UNCHANGED <<proc, mem, channel, posts, crashes, overlapped>>

\* send fails and keeps the old value when the receiver is gone, and the
\* handler does not look at its result.
Send(r) ==
  /\ HandlerAt(r, "send")
  /\ IF task = "gone" THEN UNCHANGED channel
                       ELSE watch' = new[r] /\ task' = "called"
  /\ Answer(r, "ok")
  /\ IF proc = "up" /\ ~overlapped
       THEN promised' = {new[r]} /\ interrupted' = FALSE
       ELSE UNCHANGED history
  /\ UNCHANGED <<proc, mem, storage, posts, crashes, overlapped>>

Handler(r) ==
  \/ ReadOld(r) \/ RejectPayload(r) \/ Store(r) \/ HandlerCreate(r)
  \/ HandlerWrite(r) \/ HandlerSaveFails(r) \/ Send(r)

-----------------------------------------------------------------------------
(***************************************************************************)
(* The settings task, which Runtime models: here it applies what it was    *)
(* sent, or panics while it does so (blocking_write in update_video and    *)
(* update_preview) and takes the only receiver with it.                    *)
(***************************************************************************)
TaskStep(to) ==
  /\ Serving /\ task = "called"
  /\ task' = to
  /\ UNCHANGED <<proc, mem, storage, watch, handlers, crashes, history>>

TaskDone == TaskStep("waiting")
TaskPanics == TaskStep("gone")

-----------------------------------------------------------------------------
(***************************************************************************)
(* The end of the program: "Save settings on exit", and the runtime ends   *)
(* when the handlers that are past their last await have finished.         *)
(***************************************************************************)
Exit ==
  /\ proc = "up"
  /\ proc' = "createExit"
  /\ UNCHANGED <<mem, storage, channel, handlers, crashes, history>>

Off ==
  /\ proc' = "down"
  /\ pc' = [r \in Requests |-> "idle"]
  /\ payload' = [r \in Requests |-> Invalid]
  /\ new' = [r \in Requests |-> Defaults]
  /\ reply' = "none"
  /\ watch' = Defaults /\ task' = "gone"
  /\ UNCHANGED <<mem, posts, overlapped, promised>>

Ended ==
  /\ proc = "exit"
  /\ \A r \in Requests : pc[r] \in {"idle", "read", "store"}
  /\ Off
  /\ UNCHANGED <<storage, crashes, interrupted>>

\* The file has been created and does not have its contents yet.
Saving ==
  \/ proc \in {"writeLoaded", "writeDetected", "writeExit"}
  \/ \E r \in Requests : pc[r] = "write"

\* The process is killed; what it has written stays in the page cache.
Crash ==
  /\ proc # "down" /\ crashes < MaxCrashes
  /\ Off
  /\ crashes' = crashes + 1
  /\ interrupted' = (interrupted \/ Saving)
  /\ UNCHANGED storage

\* The machine stops; of a file that is not on the disk yet the name, the
\* length or the contents may be the old ones.
PowerLoss ==
  /\ crashes < MaxCrashes
  /\ Off
  /\ crashes' = crashes + 1
  /\ file' \in IF disk = file THEN {file} ELSE {file, disk, Truncated}
  /\ disk' = file'
  /\ interrupted' = (interrupted \/ Saving \/ disk # file)

Next ==
  \/ Load \/ Detect \/ BootCreate \/ BootWrite \/ MainSaveFails \/ Ready
  \/ \E r \in Requests : Post(r) \/ Handler(r)
  \/ TaskDone \/ TaskPanics
  \/ Exit \/ Ended \/ Crash \/ PowerLoss \/ WriteBack

Spec == Init /\ [][Next]_vars

-----------------------------------------------------------------------------
Procs == {"down", "createLoaded", "writeLoaded", "detect", "createDetected",
          "writeDetected", "ready", "up", "createExit", "writeExit", "exit"}

PCs == {"idle", "read", "store", "create", "write", "send"}

TypeOK ==
  /\ proc \in Procs
  /\ mem \in Settings /\ watch \in Settings
  /\ file \in Settings \cup Unreadable /\ disk \in Settings \cup Unreadable
  /\ task \in {"waiting", "called", "gone"}
  /\ pc \in [Requests -> PCs]
  /\ payload \in [Requests -> Payloads \cup {Invalid}]
  /\ new \in [Requests -> Settings]
  /\ reply \in {"none", "ok", "invalid", "error"}
  /\ posts \in 0..MaxPosts /\ crashes \in 0..MaxCrashes
  /\ overlapped \in BOOLEAN
  /\ promised \subseteq Settings /\ interrupted \in BOOLEAN

(***************************************************************************)
(* "Saved. Changes applied." (web_server.rs:254): when no request is in    *)
(* progress and the last answer was that one, the settings the web server  *)
(* shows and those in config.json are the same, and the pipelines were     *)
(* sent them too.  Two exceptions: requests that overlap may leave three   *)
(* different copies (the lock is held for the store alone, :119-122); and  *)
(* when the settings task has panicked, nothing is sent any more, though   *)
(* the answer stays the same (:129 does not look at the result).           *)
(***************************************************************************)
SavedAgree ==
  proc = "up" /\ reply = "ok" /\ (\A r \in Requests : pc[r] = "idle")
    => overlapped \/ (mem = file /\ (watch = mem \/ task = "gone"))

(***************************************************************************)
(* A start brings back the settings that were acknowledged or loaded last, *)
(* or some that were stored since (web_server.rs:119-137, main.rs:226-229) *)
(* - through requests that overlap, files that cannot be created, the save *)
(* on exit and a kill of the process - unless a save was cut short between *)
(* the truncation and the contents, by a kill, a power loss, a full disk   *)
(* or another writer, or the power was lost before the file was on the     *)
(* disk: fs::write (settings.rs:211) truncates in place and does not sync. *)
(***************************************************************************)
AckedSurvives ==
  [][Load /\ promised # {} => mem' \in promised \/ interrupted]_vars

(***************************************************************************)
(* "Avoid nuking critical fields and accidentally stopping unrelated       *)
(* pipelines" (web_server.rs:110-113): storing a request that no other one *)
(* overlaps leaves a field that the request left empty as it was - except  *)
(* that one outside the range of clamp_send_settings, which the default    *)
(* audio_queue_capacity is (settings.rs:109), changes to its clamped value *)
(* (:118, :151-155) and makes the settings task restart both pipelines.    *)
(***************************************************************************)
EmptyFieldsKept ==
  [][\A r \in Requests : Store(r) /\ ~overlapped =>
       \A f \in Fields : payload[r][f] = Empty =>
         \/ mem'[f] = mem[f]
         \/ mem'[f] = Clamped[f][mem[f]]]_vars

=============================================================================
