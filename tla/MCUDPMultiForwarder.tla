------------------------ MODULE MCUDPMultiForwarder ------------------------
(***************************************************************************)
(* UDPMultiForwarder on two IP::port tuples and four forwarded packets:   *)
(* enough for a tuple to be added twice, removed and re-added between      *)
(* forwards.                                                               *)
(***************************************************************************)
EXTENDS UDPMultiForwarder, TLC

CONSTANTS e1, e2

MCEndpoints == {e1, e2}

MCMaxPackets == 4

\* The tuples are interchangeable: no action names one of them.
MCSymmetry == Permutations(MCEndpoints)
=============================================================================
