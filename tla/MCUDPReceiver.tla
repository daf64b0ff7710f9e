---------------------------- MODULE MCUDPReceiver ---------------------------
(***************************************************************************)
(* UDPReceiver with a receive buffer of three datagrams: one can be in    *)
(* mCb while three wait, and the buffer can overflow.                     *)
(***************************************************************************)
EXTENDS UDPReceiver

MCMaxQueue == 3
=============================================================================
