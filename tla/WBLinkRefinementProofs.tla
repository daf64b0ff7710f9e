----------------------- MODULE WBLinkRefinementProofs -----------------------
(***************************************************************************)
(* WBLink, with one RX card, implements the session layer SessionLink      *)
(* under the mapping of WBLink (Session).                                  *)
(***************************************************************************)
EXTENDS WBLinkSessionProofs

\* Every packet on_valid_packet handed on is a data frame of the air that
\* some card has already passed on.
DeliveredFrom ==
  \A i \in 1..Len(rxValid) :
    \E c \in Cards : \E j \in 1..pos[c] :
      air[j].kind = "data" /\ Packet(air[j]) = Packet(rxValid[i])

RefInv == SessInv /\ DeliveredFrom
-----------------------------------------------------------------------------
\* Every data frame of t is sealed with key K.
DataKeyed(t, K) == \A i \in 1..Len(t) : t[i].kind = "data" => t[i].key = K

\* u is s followed by frames whose data frames are sealed with key K.
Extends(s, u, K) ==
  /\ Len(s) <= Len(u)
  /\ \A i \in 1..Len(s) : u[i] = s[i]
  /\ \A i \in (Len(s) + 1)..Len(u) : u[i].kind = "data" => u[i].key = K

LEMMA ExtendsConcat ==
  ASSUME NEW s \in Seq(Frames), NEW t \in Seq(Frames), NEW K, DataKeyed(t, K)
  PROVE  s \o t \in Seq(Frames) /\ Extends(s, s \o t, K)
<1>1. /\ s \o t \in Seq(Frames)
      /\ Len(s \o t) = Len(s) + Len(t)
      /\ \A i \in 1..Len(s \o t) : (s \o t)[i] = IF i <= Len(s) THEN s[i] ELSE t[i - Len(s)]
  BY ConcatProperties
<1>2. ASSUME NEW i \in (Len(s) + 1)..Len(s \o t), (s \o t)[i].kind = "data"
      PROVE  (s \o t)[i].key = K
  <2>1. i - Len(s) \in 1..Len(t) /\ (s \o t)[i] = t[i - Len(s)]
    BY <1>1
  <2> QED
    BY <1>2, <2>1 DEF DataKeyed
<1> QED
  BY <1>1, <1>2 DEF Extends

LEMMA ExtendsTrans ==
  ASSUME NEW s \in Seq(Frames), NEW u \in Seq(Frames), NEW w \in Seq(Frames), NEW K,
         Extends(s, u, K), Extends(u, w, K)
  PROVE  Extends(s, w, K)
BY SMTT(30) DEF Extends

LEMMA AnnKeyed ==
  ASSUME NEW k \in Nat, NEW n \in Nat, NEW K
  PROVE  Announcements(k, n) \in Seq(Frames) /\ DataKeyed(Announcements(k, n), K)
BY DEF DataKeyed, Announcements, KeyFrame, Frames

LEMMA ConstKeyed ==
  ASSUME NEW t \in Seq(Frames), NEW K, ConstKey(t, K)
  PROVE  DataKeyed(t, K)
BY DEF DataKeyed, ConstKey

LEMMA DueKeyed ==
  ASSUME IInv, NEW K
  PROVE  DueAnnouncement \in Seq(Frames) /\ DataKeyed(DueAnnouncement, K)
<1>1. txKey \in Nat
  BY DEF IInv, TypeOK, TxTypeOK
<1>2. CASE announceDue
  BY <1>1, <1>2, AnnKeyed DEF DueAnnouncement
<1>3. CASE ~announceDue
  BY <1>3, EmptySeq DEF DueAnnouncement, DataKeyed
<1> QED
  BY <1>2, <1>3

(***************************************************************************)
(* Every TX step appends to the air, and every data frame it appends is    *)
(* sealed with the key the TX held when the step began: a rekey after an   *)
(* encoder wrap or a restart only announces the new key.                   *)
(***************************************************************************)
LEMMA TxExtends ==
  ASSUME IInv, TxNext
  PROVE  /\ air' \in Seq(Frames)
         /\ Extends(air, air', txKey)
         /\ txKey' \in {txKey, txKey + 1}
<1> DEFINE s1 == air \o DueAnnouncement
<1>0. /\ txKey \in Nat /\ air \in Seq(Frames) /\ fdNonce \in Nat
      /\ encBlock \in Nat /\ encFrag \in 0..(FecK - 1)
  BY DEF IInv, TypeOK, TxTypeOK
<1>1. s1 \in Seq(Frames) /\ Extends(air, s1, txKey)
  BY <1>0, DueKeyed, ExtendsConcat
<1>2. CASE Tick
  BY <1>0, <1>2 DEF Tick, Extends
<1>3. CASE FeedFecDisabled
  <2> DEFINE d == <<DataFrame(txKey, fdNonce)>>
  <2>1. air' = s1 \o d /\ txKey' = txKey
    BY <1>3 DEF FeedFecDisabled
  <2>2. d \in Seq(Frames) /\ DataKeyed(d, txKey)
    BY <1>0, SingleKey, ConstKeyed
  <2>3. s1 \o d \in Seq(Frames) /\ Extends(s1, s1 \o d, txKey)
    BY <1>1, <2>2, ExtendsConcat
  <2> QED
    BY <1>0, <1>1, <2>1, <2>3, ExtendsTrans
<1>4. CASE \E endBlock \in BOOLEAN : FeedPrimary(endBlock)
  <2>1. air' = s1 /\ txKey' = txKey
    BY <1>4 DEF FeedPrimary
  <2> QED
    BY <1>1, <2>1
<1>5. CASE \E endBlock \in BOOLEAN : FeedBlock(endBlock)
  <2>1. PICK endBlock \in BOOLEAN : FeedBlock(endBlock)
    BY <1>5
  <2> DEFINE nk  == encFrag + 1
             blk == BlockFrames(txKey, encBlock, nk + Parity(nk))
             s2  == s1 \o blk
             a   == Announcements(txKey + 1, 1)
  <2>2. blk \in Seq(Frames) /\ DataKeyed(blk, txKey)
    <3>1. nk \in 1..FecK
      BY <1>0, FecKAssumption
    <3>2. nk + Parity(nk) \in 0..FragmentsPerBlock
      BY <3>1, ParityBound
    <3>3. blk \in Seq(Frames)
      BY <1>0, <3>2, BlockFacts
    <3>4. ConstKey(blk, txKey)
      BY <1>0, <3>2, BlockKey
    <3> QED
      BY <3>3, <3>4, ConstKeyed
  <2>3. s2 \in Seq(Frames) /\ Extends(air, s2, txKey)
    <3>1. s2 \in Seq(Frames) /\ Extends(s1, s2, txKey)
      BY <1>1, <2>2, ExtendsConcat
    <3> QED
      BY <1>0, <1>1, <3>1, ExtendsTrans
  <2>4. CASE encBlock < MaxBlockIdx
    <3>1. encBlock # MaxBlockIdx
      BY <2>4, <1>0, BoundsAssumption
    <3>2. air' = s2 /\ txKey' = txKey
      BY <2>1, <3>1, Zenon DEF FeedBlock
    <3> QED
      BY <2>3, <3>2
  <2>5. CASE ~(encBlock < MaxBlockIdx)
    <3>1. air' = s2 \o a /\ txKey' = txKey + 1
      BY <2>1, <2>5 DEF FeedBlock
    <3>2. a \in Seq(Frames) /\ DataKeyed(a, txKey)
      BY <1>0, AnnKeyed
    <3>3. s2 \o a \in Seq(Frames) /\ Extends(s2, s2 \o a, txKey)
      BY <2>3, <3>2, ExtendsConcat
    <3> QED
      BY <1>0, <2>3, <3>1, <3>3, ExtendsTrans
  <2> QED
    BY <2>4, <2>5
<1>6. CASE TxRestart
  <2> DEFINE a == Announcements(txKey + 1, StartupAnnouncements)
  <2>1. air' = air \o a /\ txKey' = txKey + 1
    BY <1>6 DEF TxRestart
  <2>2. a \in Seq(Frames) /\ DataKeyed(a, txKey)
    BY <1>0, AnnKeyed DEF StartupAnnouncements
  <2> QED
    BY <1>0, <2>1, <2>2, ExtendsConcat
<1> QED
  BY <1>2, <1>3, <1>4, <1>5, <1>6 DEF TxNext

\* Extending the air keeps every sealed packet sealed and seals new packets
\* only under key K.
LEMMA SealStep ==
  ASSUME air \in Seq(Frames), air' \in Seq(Frames), NEW K, Extends(air, air', K)
  PROVE  /\ SealedPackets \subseteq SealedPackets'
         /\ \A p \in SealedPackets' \ SealedPackets : p.key = K
<1>1. ASSUME NEW p \in SealedPackets PROVE p \in SealedPackets'
  <2>1. PICK i \in 1..Len(air) : air[i].kind = "data" /\ p = Packet(air[i])
    BY <1>1 DEF SealedPackets
  <2>2. i \in 1..Len(air') /\ air'[i] = air[i]
    BY DEF Extends
  <2> QED
    BY <2>1, <2>2 DEF SealedPackets
<1>2. ASSUME NEW p \in SealedPackets', p \notin SealedPackets PROVE p.key = K
  <2>1. PICK i \in 1..Len(air') : air'[i].kind = "data" /\ p = Packet(air'[i])
    BY <1>2 DEF SealedPackets
  <2>2. CASE i <= Len(air)
    <3>1. i \in 1..Len(air) /\ air'[i] = air[i]
      BY <2>2 DEF Extends
    <3> QED
      BY <1>2, <2>1, <3>1 DEF SealedPackets
  <2>3. CASE i > Len(air)
    <3>1. i \in (Len(air) + 1)..Len(air')
      BY <2>3
    <3> QED
      BY <2>1, <3>1 DEF Extends, Packet
  <2> QED
    BY <2>2, <2>3
<1> QED
  BY <1>1, <1>2

\* The frames the cards have passed on are still where they were after the
\* TX appends to the air.
LEMMA DeliveredFromTx ==
  ASSUME TypeOK, DeliveredFrom, air' \in Seq(Frames), NEW K, Extends(air, air', K),
         pos' = pos, rxValid' = rxValid
  PROVE  DeliveredFrom'
<1> SUFFICES ASSUME NEW i \in 1..Len(rxValid)
             PROVE  \E c \in Cards : \E j \in 1..pos[c] :
                      air'[j].kind = "data" /\ Packet(air'[j]) = Packet(rxValid[i])
  BY DEF DeliveredFrom
<1>0. PICK c \in Cards : \E j \in 1..pos[c] :
        air[j].kind = "data" /\ Packet(air[j]) = Packet(rxValid[i])
  BY DEF DeliveredFrom
<1>1. PICK j \in 1..pos[c] : air[j].kind = "data" /\ Packet(air[j]) = Packet(rxValid[i])
  BY <1>0
<1>2. j \in 1..Len(air)
  BY <1>0, <1>1 DEF TypeOK
<1>3. air'[j] = air[j]
  BY <1>2 DEF Extends
<1> QED
  BY <1>0, <1>1, <1>3

\* A receive step moves one card on by a frame; a packet it hands on is the
\* data frame that card has just passed on.
LEMMA DeliveredFromRx ==
  ASSUME IInv, DeliveredFrom, NEW c \in Cards, RxLose(c) \/ RxSessionKey(c) \/ RxData(c)
  PROVE  DeliveredFrom'
<1>1. /\ air' = air /\ HasFrame(c)
      /\ pos' = [pos EXCEPT ![c] = @ + 1]
  BY DEF RxLose, RxSessionKey, RxData, Advance, txVars
<1>2. /\ pos \in [Cards -> 0..Len(air)] /\ rxValid \in Seq(ValidPackets)
      /\ pos[c] + 1 \in 1..Len(air) /\ NextFrame(c) \in Frames
  BY <1>1, NextFrameFacts DEF IInv, TypeOK
<1>3. /\ \A d \in Cards : pos[d] \in Nat /\ pos'[d] \in Nat /\ pos[d] <= pos'[d]
      /\ pos'[c] = pos[c] + 1
  BY <1>1, <1>2
\* The packets handed on before stay witnessed.
<1>4. ASSUME NEW i \in 1..Len(rxValid), rxValid'[i] = rxValid[i]
      PROVE  \E d \in Cards : \E j \in 1..pos'[d] :
               air'[j].kind = "data" /\ Packet(air'[j]) = Packet(rxValid'[i])
  <2>1. PICK d \in Cards : \E j \in 1..pos[d] :
          air[j].kind = "data" /\ Packet(air[j]) = Packet(rxValid[i])
    BY DEF DeliveredFrom
  <2>2. PICK j \in 1..pos[d] : air[j].kind = "data" /\ Packet(air[j]) = Packet(rxValid[i])
    BY <2>1
  <2>3. j \in 1..pos'[d]
    BY <1>2, <1>3
  <2> QED
    BY <1>1, <1>4, <2>2, <2>3
<1>5. CASE rxValid' = rxValid
  BY <1>4, <1>5 DEF DeliveredFrom
<1>6. CASE rxValid' # rxValid
  <2> DEFINE f == NextFrame(c)
             v == [key |-> f.key, nonce |-> f.nonce, card |-> c]
  <2>1. RxData(c) /\ f.kind = "data" /\ rxValid' = Append(rxValid, v)
    BY <1>6 DEF RxLose, RxSessionKey, RxData
  <2>2. /\ Len(rxValid') = Len(rxValid) + 1
        /\ \A i \in 1..Len(rxValid) : rxValid'[i] = rxValid[i]
        /\ rxValid'[Len(rxValid) + 1] = v
    BY <1>2, <2>1
  <2>3. air[pos[c] + 1].kind = "data" /\ Packet(air[pos[c] + 1]) = Packet(v)
    BY <2>1 DEF NextFrame, Packet
  <2>4. pos[c] + 1 \in 1..pos'[c]
    BY <1>2, <1>3
  <2> SUFFICES ASSUME NEW i \in 1..Len(rxValid')
               PROVE  \E d \in Cards : \E j \in 1..pos'[d] :
                        air'[j].kind = "data" /\ Packet(air'[j]) = Packet(rxValid'[i])
    BY DEF DeliveredFrom
  <2>5. CASE i \in 1..Len(rxValid)
    BY <1>4, <2>2, <2>5
  <2>6. CASE i = Len(rxValid) + 1
    BY <1>1, <2>2, <2>3, <2>4, <2>6
  <2> QED
    BY <1>2, <2>2, <2>5, <2>6
<1> QED
  BY <1>5, <1>6

-----------------------------------------------------------------------------
(***************************************************************************)
(* A TX step is a Seal step of the session layer: the air only grows, the  *)
(* data it gains is sealed under txKey, and txKey grows by at most one.    *)
(***************************************************************************)
LEMMA TxRefines ==
  ASSUME IInv, TxNext, UNCHANGED rxVars
  PROVE  Session!Seal
<1>1. /\ air' \in Seq(Frames) /\ Extends(air, air', txKey)
      /\ txKey' \in {txKey, txKey + 1}
  BY TxExtends
<1>2. /\ SealedPackets \subseteq SealedPackets'
      /\ \A p \in SealedPackets' \ SealedPackets : p.key = txKey
  BY <1>1, SealStep DEF IInv, TypeOK, TxTypeOK
<1>3. rxKey' = rxKey /\ newSessions' = newSessions /\ rxValid' = rxValid
  BY DEF rxVars
<1> QED
  BY <1>1, <1>2, <1>3 DEF Session!Seal

\* The pairs of a sequence with a packet appended.
LEMMA PacketsOfAppend ==
  ASSUME NEW s \in Seq(ValidPackets), NEW v \in ValidPackets
  PROVE  PacketsOf(Append(s, v)) = Append(PacketsOf(s), Packet(v))
<1>1. /\ Len(Append(s, v)) = Len(s) + 1
      /\ \A i \in 1..Len(s) : Append(s, v)[i] = s[i]
      /\ Append(s, v)[Len(s) + 1] = v
  BY AppendProperties
<1>2. PacketsOf(s) \in Seq([key : Nat, nonce : Nat])
  <2>1. Len(s) \in Nat /\ \A i \in 1..Len(s) : s[i] \in ValidPackets
    BY LenProperties, ElementOfSeq
  <2>2. PacketsOf(s) \in [1..Len(s) -> [key : Nat, nonce : Nat]]
    BY <2>1 DEF PacketsOf, Packet, ValidPackets
  <2>3. \E n \in Nat : PacketsOf(s) \in [1..n -> [key : Nat, nonce : Nat]]
    BY <2>1, <2>2
  <2>4. Seq([key : Nat, nonce : Nat]) = UNION {[1..n -> [key : Nat, nonce : Nat]] : n \in Nat}
    BY SeqDef
  <2> QED
    BY <2>3, <2>4, Zenon
<1>3. /\ Len(Append(PacketsOf(s), Packet(v))) = Len(s) + 1
      /\ \A i \in 1..Len(s) : Append(PacketsOf(s), Packet(v))[i] = Packet(s[i])
      /\ Append(PacketsOf(s), Packet(v))[Len(s) + 1] = Packet(v)
  <2>1. Packet(v) \in [key : Nat, nonce : Nat]
    BY DEF Packet, ValidPackets
  <2> QED
    BY <1>2, <2>1, AppendProperties DEF PacketsOf
<1> QED
  BY <1>1, <1>3 DEF PacketsOf

\* What a receive step of card c starts from.
LEMMA RxFacts ==
  ASSUME RefInv, NEW c \in Cards, RxLose(c) \/ RxSessionKey(c) \/ RxData(c)
  PROVE  /\ air' = air /\ txKey' = txKey /\ SealedPackets' = SealedPackets
         /\ pos[c] + 1 \in 1..Len(air) /\ NextFrame(c) \in Frames
         /\ air \in Seq(Frames) /\ rxValid \in Seq(ValidPackets)
         /\ txKey \in Nat /\ rxKey \in Nat
         /\ rxKey <= NextFrame(c).key /\ NextFrame(c).key <= txKey
<1>1. air' = air /\ txKey' = txKey /\ HasFrame(c)
  BY DEF RxLose, RxSessionKey, RxData, txVars
<1>2. SealedPackets' = SealedPackets
  BY <1>1 DEF SealedPackets
<1>3. pos[c] + 1 \in 1..Len(air) /\ NextFrame(c) \in Frames
  BY <1>1, NextFrameFacts DEF RefInv, SessInv
<1>4. /\ air \in Seq(Frames) /\ rxValid \in Seq(ValidPackets)
      /\ txKey \in Nat /\ rxKey \in Nat
      /\ Ahead(air, pos[c], rxKey) /\ KeyBound(air, txKey)
  BY DEF RefInv, SessInv, IInv, TypeOK, TxTypeOK
<1>5. rxKey <= NextFrame(c).key /\ NextFrame(c).key <= txKey
  BY <1>3, <1>4 DEF Ahead, KeyBound, NextFrame
<1> QED
  BY <1>1, <1>2, <1>3, <1>4, <1>5

(***************************************************************************)
(* A receive step of the only card.  A session-key frame that differs from *)
(* the installed key names a later key the TX made (the card is ahead of   *)
(* the installed key): NewSession.  A data frame that authenticates was    *)
(* sealed by the TX under the installed key, and every packet of that key  *)
(* handed on before came from an earlier frame of the same card, so from a *)
(* smaller nonce: Deliver.  Anything else changes no state of the session  *)
(* layer.                                                                  *)
(***************************************************************************)
LEMMA RxRefines ==
  ASSUME RefInv, NEW c0, Cards = {c0},
         NEW c \in Cards, RxLose(c) \/ RxSessionKey(c) \/ RxData(c)
  PROVE  [Session!SessNext]_Session!sessVars
<1> DEFINE f == NextFrame(c)
<1>0. /\ air' = air /\ txKey' = txKey /\ SealedPackets' = SealedPackets
      /\ pos[c] + 1 \in 1..Len(air) /\ f \in Frames
      /\ air \in Seq(Frames) /\ rxValid \in Seq(ValidPackets)
      /\ txKey \in Nat /\ rxKey \in Nat
      /\ rxKey <= f.key /\ f.key <= txKey
  BY RxFacts
<1>1. CASE rxKey' = rxKey /\ newSessions' = newSessions /\ rxValid' = rxValid
  BY <1>0, <1>1 DEF Session!sessVars
<1>2. CASE RxSessionKey(c) /\ f.key # rxKey
  <2>1. rxKey' = f.key /\ newSessions' = newSessions + 1 /\ rxValid' = rxValid
    BY <1>2 DEF RxSessionKey, OnNewPacketWfbKey
  <2>2. f.key \in (rxKey + 1)..txKey
    BY <1>0, <1>2 DEF Frames
  <2> QED
    BY <1>0, <2>1, <2>2 DEF Session!SessNext, Session!NewSession
<1>3. CASE RxData(c) /\ DecryptPacket(f)
  <2> DEFINE p == Packet(f)
             v == [key |-> f.key, nonce |-> f.nonce, card |-> c]
  <2>1. /\ f.kind = "data" /\ f.key = rxKey
        /\ rxValid' = Append(rxValid, v)
        /\ rxKey' = rxKey /\ newSessions' = newSessions
    BY <1>3 DEF RxData, DecryptPacket
  <2>2. p \in SealedPackets
    BY <1>0, <2>1 DEF SealedPackets, NextFrame
  <2>3. PacketsOf(rxValid') = Append(PacketsOf(rxValid), p)
    <3>1. v \in ValidPackets
      BY <1>0 DEF Frames, ValidPackets
    <3>2. Packet(v) = p
      BY DEF Packet
    <3> QED
      BY <1>0, <2>1, <3>1, <3>2, PacketsOfAppend
  <2>4. ASSUME NEW i \in 1..Len(PacketsOf(rxValid)), PacketsOf(rxValid)[i].key = p.key
        PROVE  PacketsOf(rxValid)[i].nonce < p.nonce
    <3>1. i \in 1..Len(rxValid) /\ PacketsOf(rxValid)[i] = Packet(rxValid[i])
      BY <1>0 DEF PacketsOf
    <3>2. PICK d \in Cards : \E j \in 1..pos[d] :
            air[j].kind = "data" /\ Packet(air[j]) = Packet(rxValid[i])
      BY <3>1 DEF RefInv, DeliveredFrom
    <3>3. d = c
      OBVIOUS
    <3>4. PICK j \in 1..pos[c] : air[j].kind = "data" /\ Packet(air[j]) = Packet(rxValid[i])
      BY <3>2, <3>3
    <3>5. j \in 1..Len(air) /\ j < pos[c] + 1
      <4>1. pos[c] \in Nat
        BY DEF RefInv, SessInv, IInv, TypeOK
      <4> QED
        BY <1>0, <3>4, <4>1
    <3>6. air[j].key = air[pos[c] + 1].key
      <4>1. Packet(air[j]).key = air[j].key /\ Packet(rxValid[i]).key = rxValid[i].key
        BY DEF Packet
      <4>2. Packet(rxValid[i]).key = f.key
        BY <2>4, <3>1 DEF Packet
      <4> QED
        BY <3>4, <4>1, <4>2 DEF NextFrame
    <3>7. air[j].nonce < air[pos[c] + 1].nonce
      BY <1>0, <2>1, <3>4, <3>5, <3>6
         DEF RefInv, SessInv, IInv, MonotoneNoncesPerKey, NoncesIncrease, NextFrame
    <3> QED
      BY <3>1, <3>4, <3>7 DEF Packet, NextFrame
  <2>5. Session!Deliver
    BY <1>0, <2>1, <2>2, <2>3, <2>4 DEF Session!Deliver, Packet
  <2> QED
    BY <2>5 DEF Session!SessNext
<1> QED
  BY <1>1, <1>2, <1>3 DEF RxLose, RxSessionKey, RxData, OnNewPacketWfbKey, DecryptPacket

-----------------------------------------------------------------------------
LEMMA InitRefInv == Init => RefInv
<1> SUFFICES ASSUME Init PROVE RefInv
  OBVIOUS
<1>1. SessInv
  BY InitSessInv
<1>2. DeliveredFrom
  BY DEF Init, DeliveredFrom
<1> QED
  BY <1>1, <1>2 DEF RefInv

LEMMA NextRefInv ==
  ASSUME NEW c0, Cards = {c0}
  PROVE  RefInv /\ [Next]_vars => RefInv'
<1> SUFFICES ASSUME RefInv, [Next]_vars PROVE RefInv'
  OBVIOUS
<1>1. SessInv'
  BY NextSessInv DEF RefInv
<1>2. CASE TxNext /\ UNCHANGED rxVars
  <2>1. air' \in Seq(Frames) /\ Extends(air, air', txKey)
    BY <1>2, TxExtends DEF RefInv, SessInv
  <2>2. pos' = pos /\ rxValid' = rxValid
    BY <1>2 DEF rxVars
  <2> QED
    BY <1>1, <2>1, <2>2, DeliveredFromTx DEF RefInv, SessInv, IInv
<1>3. CASE \E c \in Cards : RxLose(c) \/ RxSessionKey(c) \/ RxData(c)
  BY <1>1, <1>3, DeliveredFromRx DEF RefInv, SessInv
<1>4. CASE UNCHANGED vars
  BY <1>1, <1>4 DEF vars, txVars, rxVars, RefInv, DeliveredFrom
<1> QED
  BY <1>2, <1>3, <1>4 DEF Next

\* The initial state of the link is the initial state of the session layer.
LEMMA InitRefines == Init => Session!SessInit
<1> SUFFICES ASSUME Init PROVE Session!SessInit
  OBVIOUS
<1>1. air = Announcements(1, StartupAnnouncements)
  BY DEF Init, TxInit
<1>2. SealedPackets = {}
  BY <1>1 DEF SealedPackets, Announcements, KeyFrame, StartupAnnouncements
<1>3. PacketsOf(rxValid) = << >>
  BY DEF Init, PacketsOf
<1> QED
  BY <1>2, <1>3 DEF Init, TxInit, Session!SessInit

LEMMA NextRefines ==
  ASSUME NEW c0, Cards = {c0}
  PROVE  RefInv /\ [Next]_vars => [Session!SessNext]_Session!sessVars
<1> SUFFICES ASSUME RefInv, [Next]_vars PROVE [Session!SessNext]_Session!sessVars
  OBVIOUS
<1>1. CASE TxNext /\ UNCHANGED rxVars
  BY <1>1, TxRefines DEF RefInv, SessInv, Session!SessNext
<1>2. CASE \E c \in Cards : RxLose(c) \/ RxSessionKey(c) \/ RxData(c)
  BY <1>2, RxRefines
<1>3. CASE UNCHANGED vars
  <2>1. SealedPackets' = SealedPackets
    BY <1>3 DEF vars, txVars, SealedPackets
  <2> QED
    BY <1>3, <2>1 DEF vars, txVars, rxVars, Session!sessVars
<1> QED
  BY <1>1, <1>2, <1>3 DEF Next

(***************************************************************************)
(* With one RX card, the link implements the session layer SessionLink,    *)
(* for every FEC configuration and every bound: onNewPacketWfbKey installs  *)
(* only a key the TX made after the installed one, and decryptPacket lets  *)
(* through only packets sealed under the installed key, each with a nonce  *)
(* beyond every packet of its key handed on before (no replay, no reorder  *)
(* within a session).  With two cards it does not hold: run                *)
(* link_two_cards_rollback shows a stale announcement re-installing an old *)
(* key.                                                                    *)
(***************************************************************************)
THEOREM SessionRefinementOneCard ==
  ASSUME NEW c0, Cards = {c0}
  PROVE  Spec => ImplementsSessionLink
<1>1. Init => RefInv
  BY InitRefInv
<1>2. RefInv /\ [Next]_vars => RefInv'
  BY NextRefInv
<1>3. Init => Session!SessInit
  BY InitRefines
<1>4. RefInv /\ [Next]_vars => [Session!SessNext]_Session!sessVars
  BY NextRefines
<1> QED
  BY <1>1, <1>2, <1>3, <1>4, PTL DEF Spec, ImplementsSessionLink, Session!SessSpec
=============================================================================
