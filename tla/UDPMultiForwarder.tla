------------------------- MODULE UDPMultiForwarder -------------------------
(***************************************************************************)
(* SocketHelper::UDPMultiForwarder: a std::list of UDPForwarder instances, *)
(* one per client IP::port tuple, guarded by udpForwardersLock.  Each of   *)
(* addForwarder, removeForwarder and forwardPacketViaUDP holds the lock    *)
(* for its whole body, so the calls of different threads are serialised   *)
(* and each is one atomic step here.                                       *)
(*                                                                         *)
(* An IP::port tuple is a model value of Endpoints; a UDP datagram is      *)
(* abstracted to its count: sent[e] is the number of datagrams sendto has  *)
(* handed to the kernel for endpoint e, packets the number of              *)
(* forwardPacketViaUDP calls.                                              *)
(***************************************************************************)
EXTENDS Naturals, Sequences, FiniteSets

CONSTANTS
  Endpoints,    \* the IP::port tuples the callers name
  MaxPackets    \* bound: forwardPacketViaUDP calls in one run

ASSUME EndpointsAssumption == Endpoints # {}
ASSUME MaxPacketsAssumption == MaxPackets \in Nat

VARIABLES
  forwarders,   \* udpForwarders, in list order
  sent,         \* sent[e]: datagrams sent towards e
  packets,      \* forwardPacketViaUDP calls so far
  aborted       \* the process died of a std::list::erase(end())

vars == <<forwarders, sent, packets, aborted>>

FwdTypeOK ==
  /\ forwarders \in Seq(Endpoints)
  /\ sent \in [Endpoints -> Nat]
  /\ packets \in 0..MaxPackets
  /\ aborted \in BOOLEAN

FwdInit ==
  /\ forwarders = <<>>
  /\ sent = [e \in Endpoints |-> 0]
  /\ packets = 0
  /\ aborted = FALSE

\* The tuples in the list (UDPForwarder::client_addr, client_udp_port).
Listed == {forwarders[i] : i \in 1..Len(forwarders)}

\* The positions of the list whose forwarder targets e.
Positions(e) == {i \in 1..Len(forwarders) : forwarders[i] = e}

\* Variant of addForwarder without the "already forwarding" loop.
AddForwarderNoCheck(e) ==
  /\ ~aborted
  /\ forwarders' = Append(forwarders, e)
  /\ UNCHANGED <<sent, packets, aborted>>

(***************************************************************************)
(* addForwarder: return if the tuple is already in the list; otherwise     *)
(* construct a UDPForwarder (socket()) and append it.  If socket() fails   *)
(* the constructor throws before emplace_back and the list is unchanged.   *)
(***************************************************************************)
AddForwarder(e) ==
  /\ ~aborted
  /\ IF e \in Listed
       THEN UNCHANGED forwarders
       ELSE \/ forwarders' = Append(forwarders, e)
            \/ UNCHANGED forwarders          \* socket() < 0: runtime_error
  /\ UNCHANGED <<sent, packets, aborted>>

\* Variant of EraseAt that erases from position i to the end (erase(it, end())).
EraseToEnd(s, i) == [k \in 1..(i - 1) |-> s[k]]

\* std::list::erase of the entry at position i.
EraseAt(s, i) == [k \in 1..(Len(s) - 1) |-> IF k < i THEN s[k] ELSE s[k + 1]]

\* find_if: the first position whose forwarder targets e.
FindIf(e) == CHOOSE i \in Positions(e) : \A j \in Positions(e) : i <= j

(***************************************************************************)
(* removeForwarder: erase(find_if(...)).  When the tuple is in the list    *)
(* the first matching entry is erased (its destructor closes the socket).  *)
(* When it is not, find_if returns end() and std::list::erase(end()) is    *)
(* undefined behaviour: libstdc++ unhooks and deletes the list's sentinel  *)
(* node, which aborts the process (free() of a non-heap pointer) or        *)
(* corrupts the heap.  The model takes the abort.                          *)
(***************************************************************************)
RemoveForwarder(e) ==
  /\ ~aborted
  /\ IF e \in Listed
       THEN /\ forwarders' = EraseAt(forwarders, FindIf(e))
            /\ UNCHANGED aborted
       ELSE /\ aborted' = TRUE
            /\ UNCHANGED forwarders
  /\ UNCHANGED <<sent, packets>>

\* How often e occurs in the list of forwarders.
Occurrences(e) == Cardinality(Positions(e))

(***************************************************************************)
(* forwardPacketViaUDP: one sendto per list entry, in list order.  A       *)
(* failing sendto is only logged; `ok` is the set of endpoints whose       *)
(* sendto succeeded.                                                       *)
(***************************************************************************)
ForwardPacketViaUDP ==
  /\ ~aborted
  /\ packets < MaxPackets
  /\ packets' = packets + 1
  /\ \E ok \in SUBSET Endpoints :
       sent' = [e \in Endpoints |-> IF e \in ok THEN sent[e] + Occurrences(e) ELSE sent[e]]
  /\ UNCHANGED <<forwarders, aborted>>

FwdNext ==
  \/ \E e \in Endpoints : AddForwarder(e) \/ RemoveForwarder(e)
  \/ ForwardPacketViaUDP

FwdSpec == FwdInit /\ [][FwdNext]_vars

-----------------------------------------------------------------------------
(***************************************************************************)
(* addForwarder's duplicate check makes each forwardPacketViaUDP call      *)
(* send at most one copy of the datagram to any IP::port tuple, however    *)
(* many threads added and removed that tuple in between: no endpoint has   *)
(* received more datagrams than forwardPacketViaUDP was called.            *)
(***************************************************************************)
AtMostOnceDelivery == \A e \in Endpoints : sent[e] <= packets

(***************************************************************************)
(* The comment of removeForwarder: "Do nothing if such an instance is not  *)
(* found."  Removing a tuple that is not registered never reaches          *)
(* std::list::erase(end()).                                                *)
(***************************************************************************)
RemoveAbsentIsNoop == ~aborted

\* The abstract forwarding set, with the tuples of the list as its set.
Abs == INSTANCE ForwarderSet WITH targets <- Listed

(***************************************************************************)
(* UDPMultiForwarder implements the forwarding set its comments describe:  *)
(* the tuples of its list behave as a set to which add, remove and forward *)
(* apply.  This needs the list to hold each tuple at most once, so that    *)
(* erasing the first match removes the tuple and a forward sends it one    *)
(* copy.  The abort of removeForwarder on an absent tuple leaves the set   *)
(* and the counts unchanged and is a stuttering step here; the run         *)
(* forwarder_remove_absent shows it.                                       *)
(***************************************************************************)
ImplementsForwarderSet == Abs!SetSpec
=============================================================================
