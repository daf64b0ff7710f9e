------------------------- MODULE UDPReceiverProofs -------------------------
(***************************************************************************)
(* Proofs about UDPReceiver for every receive-buffer bound and whether or  *)
(* not the process reuses descriptors.                                     *)
(***************************************************************************)
EXTENDS UDPReceiver, TLAPS

(***************************************************************************)
(* The inductive invariant behind NoCallbackAfterStop.  receiverThread is  *)
(* null only while no loopUntilError runs; a stopped receiver has no       *)
(* thread object; and stopBackground reaches its reset only after the      *)
(* join saw loopUntilError return.                                         *)
(***************************************************************************)
ThreadInv ==
  /\ ~threadObj => rxPc = "none"
  /\ stopped => ~threadObj
  /\ ownerPc = "reset" /\ threadObj => rxPc = "exit"

RecvIInv == RecvTypeOK /\ NoCallbackAfterStop /\ ThreadInv
-----------------------------------------------------------------------------
LEMMA InitRecvIInv == RecvInit => RecvIInv
<1> SUFFICES ASSUME RecvInit PROVE RecvIInv
  OBVIOUS
<1>1. ownQ \in 0..MaxQueue
  BY MaxQueueAssumption DEF RecvInit
<1>2. RecvTypeOK
  BY <1>1, Zenon DEF RecvInit, RecvTypeOK, RxPcs, OwnerPcs, FdStates
<1>3. NoCallbackAfterStop /\ ThreadInv
  BY Zenon DEF RecvInit, NoCallbackAfterStop, ThreadInv
<1> QED
  BY <1>2, <1>3 DEF RecvIInv

\* Every step keeps the variables in their types.
LEMMA TypeStep == RecvTypeOK /\ [RecvNext]_vars => RecvTypeOK'
<1> SUFFICES ASSUME RecvTypeOK, [RecvNext]_vars PROVE RecvTypeOK'
  OBVIOUS
<1> USE MaxQueueAssumption DEF RecvTypeOK, RxPcs, OwnerPcs, FdStates
<1>1. CASE Arrive
  <2>1. /\ ownQ' = IF ownQ < MaxQueue THEN ownQ + 1 ELSE ownQ
        /\ receiving' = receiving /\ fd' = fd /\ ourShut' = ourShut
        /\ foreignData' = foreignData /\ threadObj' = threadObj
        /\ ownerPc' = ownerPc /\ stopped' = stopped
        /\ rxPc' = rxPc /\ cbOrigin' = cbOrigin
        /\ cbAfterStop' = cbAfterStop /\ foreignCb' = foreignCb
    BY <1>1, Zenon DEF Arrive, rxOnly
  <2> QED
    BY <2>1
<1>2. CASE ReuseFd
  <2>1. /\ fd' = "other" /\ foreignData' = FALSE
        /\ receiving' = receiving /\ ourShut' = ourShut /\ ownQ' = ownQ
        /\ threadObj' = threadObj /\ ownerPc' = ownerPc /\ stopped' = stopped
        /\ rxPc' = rxPc /\ cbOrigin' = cbOrigin
        /\ cbAfterStop' = cbAfterStop /\ foreignCb' = foreignCb
    BY <1>2, Zenon DEF ReuseFd, rxOnly
  <2> QED
    BY <2>1, ZenonT(30)
<1>3. CASE ForeignArrive
  <2>1. /\ foreignData' = TRUE
        /\ receiving' = receiving /\ fd' = fd /\ ourShut' = ourShut
        /\ ownQ' = ownQ /\ threadObj' = threadObj
        /\ ownerPc' = ownerPc /\ stopped' = stopped
        /\ rxPc' = rxPc /\ cbOrigin' = cbOrigin
        /\ cbAfterStop' = cbAfterStop /\ foreignCb' = foreignCb
    BY <1>3, Zenon DEF ForeignArrive, rxOnly
  <2> QED
    BY <2>1
<1>4. CASE LoopTest
  BY <1>4 DEF LoopTest
<1>5. CASE Recv
  <2>1. /\ fd' = fd /\ ourShut' = ourShut /\ threadObj' = threadObj
        /\ ownerPc' = ownerPc /\ stopped' = stopped
        /\ cbAfterStop' = cbAfterStop /\ foreignCb' = foreignCb
    BY <1>5, Zenon DEF Recv
  <2>2. CASE RecvError
    BY <2>1, <2>2, ZenonT(30) DEF RecvError
  <2>3. CASE RecvOwn
    BY <2>1, <2>3 DEF RecvOwn
  <2>4. CASE RecvForeign
    BY <2>1, <2>4, Zenon DEF RecvForeign
  <2>5. CASE /\ rxPc' \in {"blocked", "blockedOther"}
             /\ UNCHANGED <<receiving, ownQ, foreignData, cbOrigin>>
    <3>1. /\ receiving' = receiving /\ ownQ' = ownQ
          /\ foreignData' = foreignData /\ cbOrigin' = cbOrigin
      BY <2>5, Zenon
    <3>2. rxPc' \in RxPcs
      BY <2>5
    <3> QED
      BY <2>1, <3>1, <3>2
  <2> QED
    BY <1>5, <2>2, <2>3, <2>4, <2>5, Zenon DEF Recv
<1>6. CASE RecvWake
  <2>1. /\ fd' = fd /\ ourShut' = ourShut /\ threadObj' = threadObj
        /\ ownerPc' = ownerPc /\ stopped' = stopped
        /\ cbAfterStop' = cbAfterStop /\ foreignCb' = foreignCb
    BY <1>6, Zenon DEF RecvWake
  <2>2. CASE RecvError
    BY <2>1, <2>2, ZenonT(30) DEF RecvError
  <2>3. CASE RecvOwn
    BY <2>1, <2>3 DEF RecvOwn
  <2> QED
    BY <1>6, <2>2, <2>3, Zenon DEF RecvWake
<1>7. CASE RecvWakeOther
  BY <1>7 DEF RecvWakeOther, RecvForeign
<1>8. CASE Callback
  BY <1>8 DEF Callback
<1>9. CASE OwnerThread
  <2>1. CASE RunInBackground
    <3>1. UNCHANGED <<receiving, fd, ourShut, ownQ, foreignData,
                      cbOrigin, ownerPc, cbAfterStop, foreignCb>>
      BY <2>1, Zenon DEF RunInBackground
    <3>2. CASE threadObj
      <4>1. UNCHANGED <<rxPc, threadObj, stopped>>
        BY <2>1, <3>2, Zenon DEF RunInBackground
      <4> QED
        BY <3>1, <4>1
    <3>3. CASE ~threadObj
      <4>1. threadObj' = TRUE /\ rxPc' = "check" /\ stopped' = FALSE
        BY <2>1, <3>3, Zenon DEF RunInBackground
      <4> QED
        BY <3>1, <4>1
    <3> QED
      BY <3>2, <3>3
  <2>2. CASE StopSetFlag
    BY <2>2, ZenonT(30) DEF StopSetFlag, ownerFrame
  <2>3. CASE StopShutdown
    BY <2>3 DEF StopShutdown, ownerFrame
  <2>4. CASE StopClose
    BY <2>4 DEF StopClose, ownerFrame
  <2>5. CASE StopJoin
    BY <2>5 DEF StopJoin, ownerFrame
  <2>6. CASE StopReset
    BY <2>6 DEF StopReset
  <2> QED
    BY <1>9, <2>1, <2>2, <2>3, <2>4, <2>5, <2>6 DEF OwnerThread
<1>10. CASE UNCHANGED vars
  BY <1>10 DEF vars
<1> QED
  BY <1>1, <1>2, <1>3, <1>4, <1>5, <1>6, <1>7, <1>8, <1>9, <1>10
     DEF RecvNext, ReceiverThread

(***************************************************************************)
(* A step of loopUntilError happens only while a thread runs it, and that  *)
(* thread is neither stopped nor past the join: it leaves receiverThread,  *)
(* stopped and the owner alone and never sets rxPc back to "none".         *)
(***************************************************************************)
LEMMA ReceiverStep ==
  ASSUME RecvIInv, ReceiverThread
  PROVE  /\ threadObj /\ ~stopped /\ ownerPc # "reset"
         /\ threadObj' = threadObj /\ stopped' = stopped /\ ownerPc' = ownerPc
         /\ rxPc' # "none"
         /\ cbAfterStop' = (cbAfterStop \/ stopped)
<1>1. rxPc \notin {"none", "exit"}
  BY Zenon DEF ReceiverThread, LoopTest, Recv, RecvWake, RecvWakeOther, Callback
<1>2. threadObj /\ ~stopped /\ ownerPc # "reset"
  BY <1>1, Zenon DEF RecvIInv, ThreadInv
<1>3. threadObj' = threadObj /\ stopped' = stopped /\ ownerPc' = ownerPc
  BY Zenon DEF ReceiverThread, LoopTest, Recv, RecvWake, RecvWakeOther, Callback
<1>4. rxPc' # "none"
  BY Zenon DEF ReceiverThread, LoopTest, Recv, RecvWake, RecvWakeOther,
     Callback, RecvError, RecvOwn, RecvForeign
<1>5. cbAfterStop' = (cbAfterStop \/ stopped)
  <2>1. CASE Callback
    BY <2>1 DEF Callback
  <2>2. CASE ~Callback
    <3>1. cbAfterStop' = cbAfterStop
      BY <2>2, Zenon DEF ReceiverThread, LoopTest, Recv, RecvWake, RecvWakeOther
    <3> QED
      BY <1>2, <3>1, Zenon DEF RecvIInv, RecvTypeOK
  <2> QED
    BY <2>1, <2>2
<1> QED
  BY <1>2, <1>3, <1>4, <1>5

\* The invariant is preserved by every step.
LEMMA NextRecvIInv == RecvIInv /\ [RecvNext]_vars => RecvIInv'
<1> SUFFICES ASSUME RecvIInv, [RecvNext]_vars PROVE RecvIInv'
  OBVIOUS
<1>1. RecvTypeOK'
  BY TypeStep DEF RecvIInv
<1> SUFFICES (NoCallbackAfterStop /\ ThreadInv)'
  BY <1>1 DEF RecvIInv
<1>2. CASE Arrive \/ ReuseFd \/ ForeignArrive
  <2>1. /\ threadObj' = threadObj /\ stopped' = stopped /\ ownerPc' = ownerPc
        /\ rxPc' = rxPc /\ cbAfterStop' = cbAfterStop
    BY <1>2, Zenon DEF Arrive, ReuseFd, ForeignArrive, rxOnly
  <2> QED
    BY <2>1, Zenon DEF RecvIInv, NoCallbackAfterStop, ThreadInv
<1>3. CASE ReceiverThread
  <2>1. /\ threadObj /\ ~stopped /\ ownerPc # "reset"
        /\ threadObj' = threadObj /\ stopped' = stopped /\ ownerPc' = ownerPc
        /\ rxPc' # "none" /\ cbAfterStop' = (cbAfterStop \/ stopped)
    BY <1>3, ReceiverStep
  <2> QED
    BY <2>1, Zenon DEF RecvIInv, NoCallbackAfterStop, ThreadInv
<1>4. CASE RunInBackground
  <2>1. CASE threadObj
    <3>1. /\ threadObj' = threadObj /\ stopped' = stopped /\ ownerPc' = ownerPc
          /\ rxPc' = rxPc /\ cbAfterStop' = cbAfterStop
      BY <1>4, <2>1, Zenon DEF RunInBackground
    <3> QED
      BY <3>1, Zenon DEF RecvIInv, NoCallbackAfterStop, ThreadInv
  <2>2. CASE ~threadObj
    <3>1. /\ threadObj' /\ ~stopped' /\ ownerPc' = "idle"
          /\ cbAfterStop' = cbAfterStop
      BY <1>4, <2>2, Zenon DEF RunInBackground
    <3> QED
      BY <3>1, Zenon DEF RecvIInv, NoCallbackAfterStop, ThreadInv
  <2> QED
    BY <2>1, <2>2
<1>5. CASE StopSetFlag \/ StopShutdown \/ StopClose
  <2>1. /\ threadObj' = threadObj /\ stopped' = stopped
        /\ rxPc' = rxPc /\ cbAfterStop' = cbAfterStop
        /\ ownerPc' \in {"shutdown", "close", "join"}
    BY <1>5, Zenon DEF StopSetFlag, StopShutdown, StopClose, ownerFrame
  <2> QED
    BY <2>1, Zenon DEF RecvIInv, NoCallbackAfterStop, ThreadInv
<1>6. CASE StopJoin
  <2>1. /\ threadObj' = threadObj /\ stopped' = stopped
        /\ rxPc' = rxPc /\ cbAfterStop' = cbAfterStop
        /\ ownerPc' = "reset" /\ (threadObj => rxPc = "exit")
    BY <1>6, Zenon DEF StopJoin, ownerFrame
  <2> QED
    BY <2>1, Zenon DEF RecvIInv, NoCallbackAfterStop, ThreadInv
<1>7. CASE StopReset
  <2>1. rxPc \in {"none", "exit"}
    BY <1>7, Zenon DEF StopReset, RecvIInv, ThreadInv
  <2>2. /\ ~threadObj' /\ stopped' /\ ownerPc' = "idle"
        /\ rxPc' = "none" /\ cbAfterStop' = cbAfterStop
    BY <1>7, <2>1, Zenon DEF StopReset
  <2> QED
    BY <2>2, Zenon DEF RecvIInv, NoCallbackAfterStop, ThreadInv
<1>8. CASE UNCHANGED vars
  BY <1>8, Zenon DEF vars, RecvIInv, NoCallbackAfterStop, ThreadInv
<1> QED
  BY <1>2, <1>3, <1>4, <1>5, <1>6, <1>7, <1>8
     DEF RecvNext, OwnerThread

-----------------------------------------------------------------------------
(***************************************************************************)
(* stopBackground joins loopUntilError before it returns, so mCb is never  *)
(* entered after stopBackground returned (until runInBackground runs       *)
(* again), whatever other threads do with descriptor numbers and however   *)
(* large the receive buffer is.                                            *)
(***************************************************************************)
THEOREM NoCallbackAfterStopHolds == RecvSpec => []NoCallbackAfterStop
<1>1. RecvInit => RecvIInv
  BY InitRecvIInv
<1>2. RecvIInv /\ [RecvNext]_vars => RecvIInv'
  BY NextRecvIInv
<1>3. RecvIInv => NoCallbackAfterStop
  BY DEF RecvIInv
<1> QED
  BY <1>1, <1>2, <1>3, PTL DEF RecvSpec

-----------------------------------------------------------------------------
(***************************************************************************)
(* The refinement of ReceiverLifecycle, step by step.                      *)
(***************************************************************************)
LEMMA InitRefinesLifecycle == RecvInit => Lifecycle!LifeInit
BY DEF RecvInit, Lifecycle!LifeInit, LifecyclePhase

\* Every step of the receiver is a lifecycle step or leaves the lifecycle as it is.
LEMMA NextRefinesLifecycle ==
  RecvIInv /\ [RecvNext]_vars => [Lifecycle!LifeNext]_Lifecycle!lifeVars
<1> SUFFICES ASSUME RecvIInv, [RecvNext]_vars
             PROVE  [Lifecycle!LifeNext]_Lifecycle!lifeVars
  OBVIOUS
<1> DEFINE Stutter == /\ LifecyclePhase' = LifecyclePhase
                      /\ (rxPc' = "cb") = (rxPc = "cb")
<1>0. Stutter => [Lifecycle!LifeNext]_Lifecycle!lifeVars
  BY DEF Lifecycle!lifeVars
<1>1. CASE Arrive \/ ReuseFd \/ ForeignArrive
  <2>1. rxPc' = rxPc /\ ownerPc' = ownerPc /\ threadObj' = threadObj
    BY <1>1, Zenon DEF Arrive, ReuseFd, ForeignArrive, rxOnly
  <2> QED
    BY <1>0, <2>1 DEF LifecyclePhase
<1>2. CASE ReceiverThread
  <2>1. /\ threadObj /\ ownerPc' = ownerPc /\ threadObj' = threadObj
    BY <1>2, ReceiverStep
  <2>2. LifecyclePhase' = LifecyclePhase /\ LifecyclePhase # "stopped"
    BY <2>1 DEF LifecyclePhase
  <2>3. CASE Callback
    <3>1. rxPc = "cb" /\ rxPc' = "check"
      BY <2>3 DEF Callback
    <3> QED
      BY <2>2, <3>1 DEF Lifecycle!LifeNext, Lifecycle!LeaveCb
  <2>4. CASE LoopTest \/ Recv \/ RecvWake \/ RecvWakeOther
    <3>1. rxPc # "cb"
      BY <2>4 DEF LoopTest, Recv, RecvWake, RecvWakeOther
    <3>2. CASE rxPc' = "cb"
      <4>1. LifecyclePhase \in {"running", "stopping"}
        BY <2>2 DEF LifecyclePhase
      <4> QED
        BY <2>2, <3>1, <3>2, <4>1 DEF Lifecycle!LifeNext, Lifecycle!EnterCb
    <3>3. CASE rxPc' # "cb"
      BY <1>0, <2>2, <3>1, <3>3
    <3> QED
      BY <3>2, <3>3
  <2> QED
    BY <1>2, <2>3, <2>4 DEF ReceiverThread
<1>3. CASE RunInBackground
  <2>1. CASE threadObj
    <3>1. rxPc' = rxPc /\ ownerPc' = ownerPc /\ threadObj' = threadObj
      BY <1>3, <2>1, Zenon DEF RunInBackground
    <3> QED
      BY <1>0, <3>1 DEF LifecyclePhase
  <2>2. CASE ~threadObj
    <3>1. rxPc = "none" /\ rxPc' = "check" /\ ownerPc = "idle" /\ ownerPc' = "idle"
          /\ threadObj'
      BY <1>3, <2>2, Zenon DEF RunInBackground, RecvIInv, ThreadInv
    <3>2. LifecyclePhase = "stopped" /\ LifecyclePhase' = "running"
      BY <2>2, <3>1 DEF LifecyclePhase
    <3> QED
      BY <3>1, <3>2 DEF Lifecycle!LifeNext, Lifecycle!Start
  <2> QED
    BY <2>1, <2>2
<1>4. CASE StopSetFlag
  <2>1. /\ rxPc' = rxPc /\ ownerPc = "idle" /\ ownerPc' = "shutdown"
    BY <1>4 DEF StopSetFlag, ownerFrame
  <2>2. LifecyclePhase \in {"running", "stopped"} /\ LifecyclePhase' = "stopping"
    BY <2>1 DEF LifecyclePhase
  <2> QED
    BY <2>1, <2>2 DEF Lifecycle!LifeNext, Lifecycle!BeginStop
<1>5. CASE StopShutdown \/ StopClose \/ StopJoin
  <2>1. /\ rxPc' = rxPc /\ ownerPc # "idle" /\ ownerPc' # "idle"
    BY <1>5 DEF StopShutdown, StopClose, StopJoin, ownerFrame
  <2> QED
    BY <1>0, <2>1 DEF LifecyclePhase
<1>6. CASE StopReset
  <2>1. rxPc \in {"none", "exit"}
    BY <1>6, Zenon DEF StopReset, RecvIInv, ThreadInv
  <2>2. /\ rxPc' = "none" /\ ownerPc = "reset" /\ ownerPc' = "idle" /\ ~threadObj'
    BY <1>6, <2>1 DEF StopReset
  <2>3. LifecyclePhase = "stopping" /\ LifecyclePhase' = "stopped"
    BY <2>2 DEF LifecyclePhase
  <2> QED
    BY <2>1, <2>2, <2>3 DEF Lifecycle!LifeNext, Lifecycle!FinishStop
<1>7. CASE UNCHANGED vars
  BY <1>0, <1>7 DEF vars, LifecyclePhase
<1> QED
  BY <1>1, <1>2, <1>3, <1>4, <1>5, <1>6, <1>7 DEF RecvNext, OwnerThread

(***************************************************************************)
(* For every receive-buffer bound and whether or not other threads reuse   *)
(* descriptor numbers, UDPReceiver implements the lifecycle it promises:   *)
(* mCb runs only while a receive thread exists or stopBackground is in     *)
(* progress, and stopBackground never returns while mCb runs.              *)
(***************************************************************************)
THEOREM LifecycleRefinement == RecvSpec => ImplementsReceiverLifecycle
<1>1. RecvSpec => []RecvIInv
  BY InitRecvIInv, NextRecvIInv, PTL DEF RecvSpec
<1>2. RecvInit => Lifecycle!LifeInit
  BY InitRefinesLifecycle
<1>3. RecvIInv /\ [RecvNext]_vars => [Lifecycle!LifeNext]_Lifecycle!lifeVars
  BY NextRefinesLifecycle
<1> QED
  BY <1>1, <1>2, <1>3, PTL DEF RecvSpec, ImplementsReceiverLifecycle, Lifecycle!LifeSpec
=============================================================================
