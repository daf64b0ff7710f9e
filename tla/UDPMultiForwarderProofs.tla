------------------------ MODULE UDPMultiForwarderProofs ------------------------
(***************************************************************************)
(* Proofs about UDPMultiForwarder for every set of IP::port tuples and     *)
(* every bound on the packets: the list never holds a tuple twice, so a    *)
(* forward sends each tuple at most one copy, and the list implements the  *)
(* forwarding set of ForwarderSet.                                         *)
(***************************************************************************)
EXTENDS UDPMultiForwarder, FiniteSetTheorems, TLAPS

\* No tuple occurs at two positions of s.
NoDup(s) == \A i, j \in 1..Len(s) : s[i] = s[j] => i = j

\* The inductive invariant: addForwarder's check keeps the list duplicate-free.
FwdInv ==
  /\ FwdTypeOK
  /\ NoDup(forwarders)
  /\ AtMostOnceDelivery

-----------------------------------------------------------------------------
\* In a duplicate-free list a tuple sits at one position or at none.
LEMMA PositionsNoDup ==
  ASSUME forwarders \in Seq(Endpoints), NoDup(forwarders), NEW e
  PROVE  /\ e \in Listed => \E i \in 1..Len(forwarders) : Positions(e) = {i}
         /\ e \notin Listed => Positions(e) = {}
BY DEF NoDup, Listed, Positions

\* So a forward sends it one copy or none.
LEMMA OccurrencesNoDup ==
  ASSUME forwarders \in Seq(Endpoints), NoDup(forwarders), NEW e
  PROVE  Occurrences(e) = IF e \in Listed THEN 1 ELSE 0
<1>1. CASE e \in Listed
  <2>1. PICK i \in 1..Len(forwarders) : Positions(e) = {i}
    BY <1>1, PositionsNoDup
  <2>2. QED
    BY <1>1, <2>1, FS_Singleton DEF Occurrences
<1>2. CASE e \notin Listed
  BY <1>2, PositionsNoDup, FS_EmptySet DEF Occurrences
<1>3. QED
  BY <1>1, <1>2

\* find_if finds the only position of a listed tuple.
LEMMA FindIfNoDup ==
  ASSUME forwarders \in Seq(Endpoints), NoDup(forwarders), NEW e, e \in Listed
  PROVE  /\ FindIf(e) \in 1..Len(forwarders)
         /\ forwarders[FindIf(e)] = e
<1>1. PICK i \in 1..Len(forwarders) : Positions(e) = {i}
  BY PositionsNoDup
<1>2. FindIf(e) = i
  BY <1>1 DEF FindIf
<1>3. QED
  BY <1>1, <1>2 DEF Positions

\* Appending a tuple that is not listed keeps the list duplicate-free.
LEMMA AppendNoDup ==
  ASSUME NEW s \in Seq(Endpoints), NoDup(s), NEW e \in Endpoints,
         \A i \in 1..Len(s) : s[i] # e
  PROVE  /\ Append(s, e) \in Seq(Endpoints)
         /\ NoDup(Append(s, e))
         /\ {Append(s, e)[i] : i \in 1..Len(Append(s, e))} = {s[i] : i \in 1..Len(s)} \cup {e}
BY DEF NoDup

\* Erasing position i of a duplicate-free list removes exactly s[i].
LEMMA EraseNoDup ==
  ASSUME NEW s \in Seq(Endpoints), NoDup(s), NEW i \in 1..Len(s)
  PROVE  /\ EraseAt(s, i) \in Seq(Endpoints)
         /\ NoDup(EraseAt(s, i))
         /\ {EraseAt(s, i)[k] : k \in 1..Len(EraseAt(s, i))} = {s[k] : k \in 1..Len(s)} \ {s[i]}
<1> DEFINE t == EraseAt(s, i)
<1>1. t \in Seq(Endpoints) /\ Len(t) = Len(s) - 1
  BY DEF EraseAt
<1>2. \A k \in 1..Len(t) : t[k] = IF k < i THEN s[k] ELSE s[k + 1]
  BY <1>1 DEF EraseAt
<1>3. NoDup(t)
  BY <1>1, <1>2, SMTT(30) DEF NoDup
<1>4. {t[k] : k \in 1..Len(t)} = {s[k] : k \in 1..Len(s)} \ {s[i]}
  <2>1. ASSUME NEW k \in 1..Len(t)
        PROVE  t[k] \in {s[m] : m \in 1..Len(s)} \ {s[i]}
    BY <1>1, <1>2 DEF NoDup
  <2>2. ASSUME NEW m \in 1..Len(s), s[m] # s[i]
        PROVE  s[m] \in {t[k] : k \in 1..Len(t)}
    <3>1. CASE m < i
      BY <1>1, <1>2, <3>1
    <3>2. CASE m > i
      <4>1. m - 1 \in 1..Len(t) /\ t[m - 1] = s[m]
        BY <1>1, <1>2, <3>2
      <4>2. QED
        BY <4>1
    <3>3. QED
      BY <2>2, <3>1, <3>2
  <2>3. QED
    BY <2>1, <2>2
<1>5. QED
  BY <1>1, <1>3, <1>4
-----------------------------------------------------------------------------
LEMMA InitFwdInv == FwdInit => FwdInv
<1> SUFFICES ASSUME FwdInit PROVE FwdInv
  OBVIOUS
<1>1. forwarders \in Seq(Endpoints) /\ Len(forwarders) = 0
  BY DEF FwdInit
<1>2. NoDup(forwarders)
  BY <1>1 DEF NoDup
<1>3. FwdTypeOK
  <2>1. sent \in [Endpoints -> Nat] /\ packets \in 0..MaxPackets
    BY MaxPacketsAssumption DEF FwdInit
  <2>2. aborted \in BOOLEAN
    BY Zenon DEF FwdInit
  <2>3. QED
    BY <1>1, <2>1, <2>2, Zenon DEF FwdTypeOK
<1>4. AtMostOnceDelivery
  BY DEF FwdInit, AtMostOnceDelivery
<1>5. QED
  BY <1>2, <1>3, <1>4 DEF FwdInv

\* The list before and after one addForwarder.
LEMMA AddForwarderInv ==
  ASSUME FwdInv, NEW e \in Endpoints, AddForwarder(e)
  PROVE  FwdInv'
<1>1. CASE e \in Listed
  BY <1>1 DEF AddForwarder, FwdInv, FwdTypeOK, NoDup, AtMostOnceDelivery
<1>2. CASE e \notin Listed /\ forwarders' = Append(forwarders, e)
  <2>1. \A i \in 1..Len(forwarders) : forwarders[i] # e
    BY <1>2 DEF Listed
  <2>2. Append(forwarders, e) \in Seq(Endpoints) /\ NoDup(Append(forwarders, e))
    BY <2>1, AppendNoDup DEF FwdInv, FwdTypeOK
  <2>3. QED
    BY <1>2, <2>2 DEF AddForwarder, FwdInv, FwdTypeOK, AtMostOnceDelivery
<1>3. CASE e \notin Listed /\ UNCHANGED forwarders
  BY <1>3 DEF AddForwarder, FwdInv, FwdTypeOK, NoDup, AtMostOnceDelivery
<1>4. QED
  BY <1>1, <1>2, <1>3 DEF AddForwarder

LEMMA RemoveForwarderInv ==
  ASSUME FwdInv, NEW e \in Endpoints, RemoveForwarder(e)
  PROVE  FwdInv'
<1>1. CASE e \in Listed
  <2>1. FindIf(e) \in 1..Len(forwarders)
    BY <1>1, FindIfNoDup DEF FwdInv, FwdTypeOK
  <2>2. forwarders' = EraseAt(forwarders, FindIf(e))
    BY <1>1 DEF RemoveForwarder
  <2>3. forwarders' \in Seq(Endpoints) /\ NoDup(forwarders')
    BY <2>1, <2>2, EraseNoDup DEF FwdInv, FwdTypeOK
  <2>4. QED
    BY <1>1, <2>3 DEF RemoveForwarder, FwdInv, FwdTypeOK, AtMostOnceDelivery
<1>2. CASE e \notin Listed
  BY <1>2 DEF RemoveForwarder, FwdInv, FwdTypeOK, NoDup, AtMostOnceDelivery
<1>3. QED
  BY <1>1, <1>2

LEMMA ForwardInv ==
  ASSUME FwdInv, ForwardPacketViaUDP
  PROVE  FwdInv'
<1>1. PICK ok \in SUBSET Endpoints :
        sent' = [e \in Endpoints |-> IF e \in ok THEN sent[e] + Occurrences(e) ELSE sent[e]]
  BY DEF ForwardPacketViaUDP
<1>2. \A e \in Endpoints : Occurrences(e) \in {0, 1}
  BY OccurrencesNoDup DEF FwdInv, FwdTypeOK
<1>3. sent' \in [Endpoints -> Nat] /\ \A e \in Endpoints : sent'[e] <= packets + 1
  <2>1. ASSUME NEW e \in Endpoints
        PROVE  sent'[e] \in Nat /\ sent'[e] <= packets + 1
    <3>1. sent[e] \in Nat /\ sent[e] <= packets /\ packets \in Nat
      BY MaxPacketsAssumption DEF FwdInv, FwdTypeOK, AtMostOnceDelivery
    <3>2. CASE e \in ok
      BY <1>1, <1>2, <3>1, <3>2
    <3>3. CASE e \notin ok
      BY <1>1, <3>1, <3>3
    <3> QED
      BY <3>2, <3>3
  <2> QED
    BY <1>1, <2>1
<1>4. forwarders' = forwarders /\ packets' = packets + 1 /\ packets < MaxPackets
  BY Zenon DEF ForwardPacketViaUDP
<1>5. NoDup(forwarders)'
  BY <1>4 DEF FwdInv, NoDup
<1>6. FwdTypeOK'
  <2>1. packets' \in 0..MaxPackets /\ forwarders' \in Seq(Endpoints)
    BY <1>4, MaxPacketsAssumption DEF FwdInv, FwdTypeOK
  <2>2. aborted' \in BOOLEAN
    BY Zenon DEF ForwardPacketViaUDP, FwdInv, FwdTypeOK
  <2>3. QED
    BY <1>3, <2>1, <2>2, Zenon DEF FwdTypeOK
<1>7. AtMostOnceDelivery'
  BY <1>3, <1>4 DEF FwdInv, FwdTypeOK, AtMostOnceDelivery
<1>8. QED
  BY <1>5, <1>6, <1>7 DEF FwdInv

LEMMA NextFwdInv == FwdInv /\ [FwdNext]_vars => FwdInv'
<1> SUFFICES ASSUME FwdInv, [FwdNext]_vars PROVE FwdInv'
  OBVIOUS
<1>1. CASE \E e \in Endpoints : AddForwarder(e)
  BY <1>1, AddForwarderInv
<1>2. CASE \E e \in Endpoints : RemoveForwarder(e)
  BY <1>2, RemoveForwarderInv
<1>3. CASE ForwardPacketViaUDP
  BY <1>3, ForwardInv
<1>4. CASE UNCHANGED vars
  BY <1>4 DEF vars, FwdInv, FwdTypeOK, NoDup, AtMostOnceDelivery
<1>5. QED
  BY <1>1, <1>2, <1>3, <1>4 DEF FwdNext

(***************************************************************************)
(* addForwarder's duplicate check keeps the list of UDPForwarders free of  *)
(* duplicates, whatever the order of the callers' add, remove and forward  *)
(* calls, so that each forward sends each tuple at most one copy.          *)
(***************************************************************************)
THEOREM ForwarderInvariant == FwdSpec => []FwdInv
BY InitFwdInv, NextFwdInv, PTL DEF FwdSpec

(***************************************************************************)
(* forwardPacketViaUDP never sends an IP::port tuple more datagrams than   *)
(* it was called, for every set of tuples and every bound on the calls.    *)
(***************************************************************************)
THEOREM AtMostOnce == FwdSpec => []AtMostOnceDelivery
BY ForwarderInvariant, PTL DEF FwdInv

-----------------------------------------------------------------------------
LEMMA InitRefines == FwdInit => Abs!SetInit
BY DEF FwdInit, Abs!SetInit, Listed

\* Each step of the list is a step of the forwarding set or leaves it alone.
LEMMA NextRefines == FwdInv /\ [FwdNext]_vars => [Abs!SetNext]_Abs!setVars
<1> SUFFICES ASSUME FwdInv, [FwdNext]_vars PROVE [Abs!SetNext]_Abs!setVars
  OBVIOUS
<1>1. ASSUME NEW e \in Endpoints, AddForwarder(e)
      PROVE  [Abs!SetNext]_Abs!setVars
  <2>1. CASE e \notin Listed /\ forwarders' = Append(forwarders, e)
    <3>1. \A i \in 1..Len(forwarders) : forwarders[i] # e
      BY <2>1 DEF Listed
    <3>2. Listed' = Listed \cup {e}
      BY <2>1, <3>1, AppendNoDup DEF FwdInv, FwdTypeOK, Listed
    <3>3. Abs!Subscribe(e)
      BY <1>1, <3>2 DEF AddForwarder, Abs!Subscribe
    <3>4. QED
      BY <3>3 DEF Abs!SetNext
  <2>6. CASE UNCHANGED forwarders
    BY <1>1, <2>6 DEF AddForwarder, Abs!setVars, Listed
  <2>7. QED
    BY <1>1, <2>1, <2>6 DEF AddForwarder
<1>2. ASSUME NEW e \in Endpoints, RemoveForwarder(e)
      PROVE  [Abs!SetNext]_Abs!setVars
  <2>1. CASE e \in Listed
    <3>1. FindIf(e) \in 1..Len(forwarders) /\ forwarders[FindIf(e)] = e
      BY <2>1, FindIfNoDup DEF FwdInv, FwdTypeOK
    <3>2. forwarders' = EraseAt(forwarders, FindIf(e))
      BY <1>2, <2>1 DEF RemoveForwarder
    <3>3. Listed' = Listed \ {e}
      <4>1. {EraseAt(forwarders, FindIf(e))[k] : k \in 1..Len(EraseAt(forwarders, FindIf(e)))}
              = Listed \ {e}
        BY <3>1, EraseNoDup DEF FwdInv, FwdTypeOK, Listed
      <4>2. QED
        BY <3>2, <4>1 DEF Listed
    <3>4. Abs!Unsubscribe(e)
      BY <1>2, <3>3 DEF RemoveForwarder, Abs!Unsubscribe
    <3>5. QED
      BY <3>4 DEF Abs!SetNext
  <2>7. CASE e \notin Listed
    BY <1>2, <2>7 DEF RemoveForwarder, Abs!setVars, Listed
  <2>8. QED
    BY <2>1, <2>7
<1>3. ASSUME ForwardPacketViaUDP
      PROVE  [Abs!SetNext]_Abs!setVars
  <2>1. PICK ok \in SUBSET Endpoints :
          sent' = [e \in Endpoints |-> IF e \in ok THEN sent[e] + Occurrences(e) ELSE sent[e]]
    BY <1>3 DEF ForwardPacketViaUDP
  <2>2. \A e \in Endpoints : Occurrences(e) = IF e \in Listed THEN 1 ELSE 0
    BY OccurrencesNoDup DEF FwdInv, FwdTypeOK
  <2>3. Listed \subseteq Endpoints
    BY DEF FwdInv, FwdTypeOK, Listed
  <2>4. sent' = [e \in Endpoints |-> IF e \in ok \cap Listed THEN sent[e] + 1 ELSE sent[e]]
    BY <2>1, <2>2 DEF FwdInv, FwdTypeOK
  <2>5. ok \cap Listed \in SUBSET Listed
    OBVIOUS
  <2>6. Listed' = Listed
    BY <1>3 DEF ForwardPacketViaUDP, Listed
  <2>7. Abs!Forward
    BY <1>3, <2>4, <2>5, <2>6 DEF ForwardPacketViaUDP, Abs!Forward
  <2>8. QED
    BY <2>7 DEF Abs!SetNext
<1>4. CASE UNCHANGED vars
  BY <1>4 DEF vars, Abs!setVars, Listed
<1>5. QED
  BY <1>1, <1>2, <1>3, <1>4 DEF FwdNext

(***************************************************************************)
(* UDPMultiForwarder implements the forwarding set its comments describe   *)
(* (ForwarderSet), with the tuples of its list as the set: adding,         *)
(* removing and forwarding act on the list as on a set.                     *)
(***************************************************************************)
THEOREM Refinement == FwdSpec => ImplementsForwarderSet
<1>1. FwdSpec => []FwdInv
  BY ForwarderInvariant
<1>2. QED
  BY <1>1, InitRefines, NextRefines, PTL DEF FwdSpec, ImplementsForwarderSet, Abs!SetSpec
==============================================================================
