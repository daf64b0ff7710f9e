---------------------------- MODULE UDPReceiver ----------------------------
(***************************************************************************)
(* SocketHelper::UDPReceiver: a socket, the receive thread running          *)
(* loopUntilError, and the owner thread calling runInBackground and        *)
(* stopBackground.  The two threads share the plain bool `receiving` and   *)
(* the descriptor number mSocket without synchronisation; every statement  *)
(* that touches shared state is one step, so all their interleavings are   *)
(* explored.                                                               *)
(*                                                                         *)
(* fd is what the descriptor number mSocket refers to in the process: our  *)
(* socket, nothing after close(), or a socket another thread of the        *)
(* process opened afterwards and was given the same (lowest free) number.  *)
(* A recv already blocked holds the socket it was called on: close() does  *)
(* not wake it, shutdown() does.  A datagram is abstracted to its origin.  *)
(***************************************************************************)
EXTENDS Naturals

CONSTANTS
  MaxQueue,       \* bound: datagrams our socket's receive buffer holds
  FdReuse         \* whether another thread opens descriptors meanwhile

ASSUME MaxQueueAssumption == MaxQueue \in Nat \ {0}
ASSUME FdReuseAssumption == FdReuse \in BOOLEAN

FdStates == {"ours", "none", "other"}

RxPcs == {"none", "check", "recv", "blocked", "blockedOther", "cb", "exit"}

OwnerPcs == {"idle", "shutdown", "close", "join", "reset"}

VARIABLES
  receiving,    \* UDPReceiver::receiving
  fd,           \* what mSocket refers to
  ourShut,      \* shutdown() has been called on our socket
  ownQ,         \* datagrams queued on our socket
  foreignData,  \* the other socket has a datagram queued
  rxPc,         \* the receive thread's position in loopUntilError
  cbOrigin,     \* whose datagram the running mCb call was given
  threadObj,    \* receiverThread != nullptr
  ownerPc,      \* the owner thread inside stopBackground
  stopped,      \* stopBackground has returned and runInBackground not been called since
  cbAfterStop,  \* mCb was entered after stopBackground returned
  foreignCb     \* mCb was handed a datagram of another socket

vars == <<receiving, fd, ourShut, ownQ, foreignData, rxPc,
          cbOrigin, threadObj, ownerPc, stopped, cbAfterStop, foreignCb>>

\* The variables the owner thread and the network leave to the receive thread.
rxOnly == <<rxPc, cbOrigin, cbAfterStop, foreignCb>>

RecvTypeOK ==
  /\ receiving \in BOOLEAN
  /\ fd \in FdStates
  /\ ourShut \in BOOLEAN
  /\ ownQ \in 0..MaxQueue
  /\ foreignData \in BOOLEAN
  /\ rxPc \in RxPcs
  /\ cbOrigin \in {"own", "foreign"}
  /\ threadObj \in BOOLEAN
  /\ ownerPc \in OwnerPcs
  /\ stopped \in BOOLEAN
  /\ cbAfterStop \in BOOLEAN
  /\ foreignCb \in BOOLEAN

\* The constructor: openUdpSocketForReceiving, receiving = true, no thread.
RecvInit ==
  /\ receiving = TRUE
  /\ fd = "ours"
  /\ ourShut = FALSE
  /\ ownQ = 0
  /\ foreignData = FALSE
  /\ rxPc = "none"
  /\ cbOrigin = "own"
  /\ threadObj = FALSE
  /\ ownerPc = "idle"
  /\ stopped = FALSE
  /\ cbAfterStop = FALSE
  /\ foreignCb = FALSE

-----------------------------------------------------------------------------
(* The network and the rest of the process.                                *)

(***************************************************************************)
(* A datagram for our port arrives.  Our socket lives while mSocket names  *)
(* it or a recv blocked on it holds it, and receives until shutdown(); a   *)
(* datagram that finds the receive buffer full is dropped by the kernel.   *)
(***************************************************************************)
Arrive ==
  /\ fd = "ours" \/ rxPc = "blocked"
  /\ ~ourShut
  /\ ownQ' = IF ownQ < MaxQueue THEN ownQ + 1 ELSE ownQ
  /\ UNCHANGED <<receiving, fd, ourShut, foreignData, threadObj, ownerPc,
                 stopped>>
  /\ UNCHANGED rxOnly

\* Another thread opens a socket and gets the number mSocket had.
ReuseFd ==
  /\ FdReuse
  /\ fd = "none"
  /\ fd' = "other"
  /\ foreignData' = FALSE
  /\ UNCHANGED <<receiving, ourShut, ownQ, threadObj, ownerPc, stopped>>
  /\ UNCHANGED rxOnly

\* A datagram arrives on that other socket.
ForeignArrive ==
  /\ fd = "other"
  /\ ~foreignData
  /\ foreignData' = TRUE
  /\ UNCHANGED <<receiving, fd, ourShut, ownQ, threadObj, ownerPc,
                 stopped>>
  /\ UNCHANGED rxOnly

-----------------------------------------------------------------------------
(* The receive thread: loopUntilError.                                     *)

\* while (receiving): the test of the unsynchronised flag.
LoopTest ==
  /\ rxPc = "check"
  /\ rxPc' = IF receiving THEN "recv" ELSE "exit"
  /\ UNCHANGED <<receiving, fd, ourShut, ownQ, foreignData,
                 cbOrigin, threadObj, ownerPc, stopped, cbAfterStop, foreignCb>>

\* message_length <= 0: print and clear receiving.
RecvError ==
  /\ receiving' = FALSE
  /\ rxPc' = "check"
  /\ UNCHANGED <<ownQ, foreignData, cbOrigin>>

\* A datagram of our socket is handed to the loop.
RecvOwn ==
  /\ ownQ > 0
  /\ ownQ' = ownQ - 1
  /\ rxPc' = "cb"
  /\ cbOrigin' = "own"
  /\ UNCHANGED <<receiving, foreignData>>

\* A datagram of the other socket is handed to the loop.
RecvForeign ==
  /\ foreignData
  /\ foreignData' = FALSE
  /\ rxPc' = "cb"
  /\ cbOrigin' = "foreign"
  /\ UNCHANGED <<receiving, ownQ>>

(***************************************************************************)
(* recv(mSocket, ..., MSG_WAITALL) on whatever mSocket names at the call:  *)
(* on our socket it returns 0 once shut down, a queued datagram, or        *)
(* blocks; on no socket -1 (EBADF); on the other socket it returns its    *)
(* datagram or blocks there (nothing of this receiver shuts that socket    *)
(* down while the owner waits in join).                                    *)
(***************************************************************************)
Recv ==
  /\ rxPc = "recv"
  /\ \/ fd = "ours" /\ ourShut /\ RecvError
     \/ fd = "ours" /\ ~ourShut /\ RecvOwn
     \/ /\ fd = "ours" /\ ~ourShut /\ ownQ = 0
        /\ rxPc' = "blocked"
        /\ UNCHANGED <<receiving, ownQ, foreignData, cbOrigin>>
     \/ fd = "none" /\ RecvError
     \/ fd = "other" /\ RecvForeign
     \/ /\ fd = "other" /\ ~foreignData
        /\ rxPc' = "blockedOther"
        /\ UNCHANGED <<receiving, ownQ, foreignData, cbOrigin>>
  /\ UNCHANGED <<fd, ourShut, threadObj, ownerPc, stopped,
                 cbAfterStop, foreignCb>>

\* A recv blocked on our socket returns: a datagram, or 0 after shutdown().
RecvWake ==
  /\ rxPc = "blocked"
  /\ \/ ourShut /\ RecvError
     \/ ~ourShut /\ RecvOwn
  /\ UNCHANGED <<fd, ourShut, threadObj, ownerPc, stopped,
                 cbAfterStop, foreignCb>>

\* A recv blocked on the other socket returns.
RecvWakeOther ==
  /\ rxPc = "blockedOther"
  /\ RecvForeign
  /\ UNCHANGED <<fd, ourShut, threadObj, ownerPc, stopped,
                 cbAfterStop, foreignCb>>

\* mCb(buff, message_length), then back to the loop test.
Callback ==
  /\ rxPc = "cb"
  /\ rxPc' = "check"
  /\ cbAfterStop' = (cbAfterStop \/ stopped)
  /\ foreignCb' = (foreignCb \/ cbOrigin = "foreign")
  /\ UNCHANGED <<receiving, fd, ourShut, ownQ, foreignData,
                 cbOrigin, threadObj, ownerPc, stopped>>

-----------------------------------------------------------------------------
(* The owner thread.                                                       *)

\* The variables the owner's steps of stopBackground leave alone.
ownerFrame == <<ownQ, foreignData, rxPc, cbOrigin, cbAfterStop, foreignCb>>

(***************************************************************************)
(* runInBackground: refuse if receiverThread is set, else start a thread   *)
(* running loopUntilError.                                                 *)
(***************************************************************************)
RunInBackground ==
  /\ ownerPc = "idle"
  /\ IF threadObj
       THEN UNCHANGED <<rxPc, threadObj, stopped>>
       ELSE /\ threadObj' = TRUE
            /\ rxPc' = "check"
            /\ stopped' = FALSE
  /\ UNCHANGED <<receiving, fd, ourShut, ownQ, foreignData,
                 cbOrigin, ownerPc, cbAfterStop, foreignCb>>

\* stopBackground -> stopLooping: receiving = false.
StopSetFlag ==
  /\ ownerPc = "idle"
  /\ receiving' = FALSE
  /\ ownerPc' = "shutdown"
  /\ UNCHANGED <<fd, ourShut, threadObj, stopped>>
  /\ UNCHANGED ownerFrame

\* Variant of StopShutdown without the shutdown() call.
StopShutdownSkipped ==
  /\ ownerPc = "shutdown"
  /\ ownerPc' = "close"
  /\ UNCHANGED <<receiving, fd, ourShut, threadObj, stopped>>
  /\ UNCHANGED ownerFrame

\* shutdown(mSocket, SHUT_RDWR) on whatever mSocket names: it wakes a recv
\* blocked on our socket; on no socket it fails with EBADF; on the other
\* socket (a second stopBackground) it breaks that socket's owner, which the
\* model does not follow.
StopShutdown ==
  /\ ownerPc = "shutdown"
  /\ ourShut' = (ourShut \/ fd = "ours")
  /\ ownerPc' = "close"
  /\ UNCHANGED <<receiving, fd, threadObj, stopped>>
  /\ UNCHANGED ownerFrame

\* close(mSocket): frees the number, whatever socket it named.
StopClose ==
  /\ ownerPc = "close"
  /\ fd' = "none"
  /\ ownerPc' = "join"
  /\ UNCHANGED <<receiving, ourShut, threadObj, stopped>>
  /\ UNCHANGED ownerFrame

\* Variant of StopJoin that does not wait for the thread.
StopJoinDetached ==
  /\ ownerPc = "join"
  /\ ownerPc' = "reset"
  /\ UNCHANGED <<receiving, fd, ourShut, threadObj, stopped>>
  /\ UNCHANGED ownerFrame

\* if (receiverThread && joinable()) join(): wait for loopUntilError to return.
StopJoin ==
  /\ ownerPc = "join"
  /\ threadObj => rxPc = "exit"
  /\ ownerPc' = "reset"
  /\ UNCHANGED <<receiving, fd, ourShut, threadObj, stopped>>
  /\ UNCHANGED ownerFrame

\* Variant of StopReset that does not clear receiverThread.
StopResetKeepThread ==
  /\ ownerPc = "reset"
  /\ rxPc' = IF rxPc = "exit" THEN "none" ELSE rxPc
  /\ ownerPc' = "idle"
  /\ stopped' = TRUE
  /\ UNCHANGED <<receiving, fd, ourShut, ownQ, foreignData,
                 cbOrigin, cbAfterStop, foreignCb, threadObj>>

\* receiverThread = nullptr; stopBackground returns.
StopReset ==
  /\ ownerPc = "reset"
  /\ threadObj' = FALSE
  /\ rxPc' = IF rxPc = "exit" THEN "none" ELSE rxPc
  /\ ownerPc' = "idle"
  /\ stopped' = TRUE
  /\ UNCHANGED <<receiving, fd, ourShut, ownQ, foreignData,
                 cbOrigin, cbAfterStop, foreignCb>>

ReceiverThread == LoopTest \/ Recv \/ RecvWake \/ RecvWakeOther \/ Callback

OwnerThread ==
  RunInBackground \/ StopSetFlag \/ StopShutdown \/ StopClose \/ StopJoin \/ StopReset

RecvNext == Arrive \/ ReuseFd \/ ForeignArrive \/ ReceiverThread \/ OwnerThread

\* The scheduler runs both threads: a thread that can take a step takes one.
\* Once begun, stopBackground is carried on to its end.
RecvSpec ==
  /\ RecvInit /\ [][RecvNext]_vars
  /\ WF_vars(ReceiverThread)
  /\ WF_vars(StopShutdown \/ StopClose \/ StopJoin \/ StopReset)

-----------------------------------------------------------------------------
(***************************************************************************)
(* stopBackground joins the receive thread before it returns, so once it   *)
(* has returned mCb is not entered again until runInBackground is called   *)
(* anew: the callback's owner may then destroy what mCb uses.              *)
(***************************************************************************)
NoCallbackAfterStop == ~cbAfterStop

(***************************************************************************)
(* The comment of loopUntilError: "Receive data from socket and forward it *)
(* via callback until stopLooping() is called": mCb is only ever handed    *)
(* datagrams that arrived on the receiver's own socket.                    *)
(***************************************************************************)
OnlyOwnDatagrams == ~foreignCb

(***************************************************************************)
(* stopBackground returns: the shutdown() in stopLooping wakes a recv      *)
(* blocked on the socket, the loop sees the error and ends, and the join   *)
(* completes.                                                              *)
(***************************************************************************)
StopReturns == (ownerPc = "shutdown") ~> (ownerPc = "idle")

(***************************************************************************)
(* runInBackground refuses only a thread "already running or not properly  *)
(* stopped": after stopBackground it starts a receiver again.  Its thread  *)
(* leaves loopUntilError only while a stopBackground is in progress.       *)
(***************************************************************************)
RestartReceives == rxPc = "exit" => ownerPc # "idle"

-----------------------------------------------------------------------------
\* The receiver as its owner sees it: stopping while inside stopBackground,
\* running while a receive thread object exists, stopped otherwise.
LifecyclePhase ==
  IF ownerPc # "idle" THEN "stopping"
  ELSE IF threadObj THEN "running" ELSE "stopped"

Lifecycle == INSTANCE ReceiverLifecycle WITH phase <- LifecyclePhase, inCb <- (rxPc = "cb")

(***************************************************************************)
(* UDPReceiver implements the lifecycle its comments promise: mCb is only  *)
(* entered while a receive thread runs or is being stopped, and            *)
(* stopBackground returns only when loopUntilError is not inside mCb,      *)
(* because it joins the thread first.                                      *)
(***************************************************************************)
ImplementsReceiverLifecycle == Lifecycle!LifeSpec
=============================================================================
