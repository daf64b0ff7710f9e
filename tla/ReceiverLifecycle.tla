------------------------- MODULE ReceiverLifecycle -------------------------
(***************************************************************************)
(* What SocketHelper::UDPReceiver promises the object that owns it and its *)
(* callback, from its comments: runInBackground starts forwarding received *)
(* data to the callback, stopBackground stops it, and once stopBackground  *)
(* has returned the callback is not running and is not entered again       *)
(* until the receiver is started anew.                                     *)
(***************************************************************************)
VARIABLES
  phase,   \* "stopped", "running", or "stopping" (inside stopBackground)
  inCb     \* the callback is executing

lifeVars == <<phase, inCb>>

Phases == {"stopped", "running", "stopping"}

LifeInit == phase = "stopped" /\ inCb = FALSE

\* runInBackground on a stopped receiver.
Start ==
  /\ phase = "stopped"
  /\ phase' = "running"
  /\ UNCHANGED inCb

\* stopBackground is entered (also on a receiver that is already stopped).
BeginStop ==
  /\ phase \in {"running", "stopped"}
  /\ phase' = "stopping"
  /\ UNCHANGED inCb

\* The callback is entered: only while the receiver runs or is stopping.
EnterCb ==
  /\ phase \in {"running", "stopping"}
  /\ ~inCb
  /\ inCb' = TRUE
  /\ UNCHANGED phase

\* The callback returns.
LeaveCb ==
  /\ inCb
  /\ inCb' = FALSE
  /\ UNCHANGED phase

\* stopBackground returns: never while the callback runs.
FinishStop ==
  /\ phase = "stopping"
  /\ ~inCb
  /\ phase' = "stopped"
  /\ UNCHANGED inCb

LifeNext == Start \/ BeginStop \/ EnterCb \/ LeaveCb \/ FinishStop

LifeSpec == LifeInit /\ [][LifeNext]_lifeVars
=============================================================================
