---------------------------- MODULE LiveSettings ----------------------------
(***************************************************************************)
(* What a component that takes settings while it runs promises, whatever   *)
(* threads and flags it is built from: video, audio and preview settings   *)
(* can be changed in real time (README.md:74).  Settings are identified by *)
(* the order in which they were published; what is in effect is either     *)
(* nothing (the component is between two set-ups) or a published version,  *)
(* never an older one than before without a set-up in between, and the     *)
(* newest version comes into effect unless the component is closed.        *)
(***************************************************************************)
EXTENDS Integers

CONSTANT MaxVersion   \* bound on the versions

VARIABLES
  latest,   \* the newest published version
  effect,   \* the version in effect, or Nothing
  open      \* the component has not been told to stop

Nothing == -1

lsVars == <<latest, effect, open>>

LSInit ==
  /\ latest = 0
  /\ effect \in {Nothing, 0}
  /\ open \in BOOLEAN

Open ==
  /\ ~open
  /\ effect = Nothing
  /\ open' = TRUE
  /\ UNCHANGED <<latest, effect>>

Publish ==
  /\ latest' \in (latest + 1)..MaxVersion
  /\ UNCHANGED <<effect, open>>

\* A published version replaces what is in effect; it is never an older one.
TakeEffect ==
  /\ \E v \in 0..latest :
       /\ v >= effect
       /\ effect' = v
  /\ UNCHANGED <<latest, open>>

Withdraw ==
  /\ effect' = Nothing
  /\ UNCHANGED <<latest, open>>

Close ==
  /\ open' = FALSE
  /\ UNCHANGED <<latest, effect>>

LSNext == Open \/ Publish \/ TakeEffect \/ Withdraw \/ Close

LSSpec == LSInit /\ [][LSNext]_lsVars

(***************************************************************************)
(* Every version that is published while the component is open is in       *)
(* effect later, or a newer one is, or the component is closed.            *)
(***************************************************************************)
Timely == \A v \in 0..MaxVersion : (latest = v /\ open) ~> (effect >= v \/ ~open)

=============================================================================
