---------------------------- MODULE ForwarderSet ----------------------------
(***************************************************************************)
(* What UDPMultiForwarder promises its callers, from its comments: a set   *)
(* of IP::port tuples data is forwarded to.  addForwarder starts           *)
(* forwarding to a tuple, removeForwarder stops it ("do nothing if such an *)
(* instance is not found"), and forwardPacketViaUDP sends the packet to    *)
(* every tuple of the set, each send possibly failing.                     *)
(***************************************************************************)
EXTENDS Naturals

CONSTANTS Endpoints, MaxPackets

VARIABLES
  targets,   \* the tuples data is forwarded to
  sent,      \* sent[e]: datagrams sent towards e
  packets    \* packets forwarded so far

setVars == <<targets, sent, packets>>

SetInit ==
  /\ targets = {}
  /\ sent = [e \in Endpoints |-> 0]
  /\ packets = 0

Subscribe(e) ==
  /\ targets' = targets \cup {e}
  /\ UNCHANGED <<sent, packets>>

Unsubscribe(e) ==
  /\ targets' = targets \ {e}
  /\ UNCHANGED <<sent, packets>>

\* One copy to each tuple of `ok`, the tuples whose send succeeded.
Forward ==
  /\ packets < MaxPackets
  /\ packets' = packets + 1
  /\ \E ok \in SUBSET targets :
       sent' = [e \in Endpoints |-> IF e \in ok THEN sent[e] + 1 ELSE sent[e]]
  /\ UNCHANGED targets

SetNext == (\E e \in Endpoints : Subscribe(e) \/ Unsubscribe(e)) \/ Forward

SetSpec == SetInit /\ [][SetNext]_setVars
=============================================================================
