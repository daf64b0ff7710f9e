------------------------- MODULE WBLinkSessionProofs ------------------------
(***************************************************************************)
(* The bound on new-session callbacks of WBLink, for a receiver with one   *)
(* RX card.  With two cards it does not hold (run link_two_cards_rollback):  *)
(* a stale announcement from the slower card re-installs an old key.       *)
(***************************************************************************)
EXTENDS WBLinkProofs

\* The frames of s name nondecreasing session keys.
KeysOrdered(s) == \A i, j \in 1..Len(s) : i < j => s[i].key <= s[j].key

\* Every frame of s after position p names key r or a later one.
Ahead(s, p, r) == \A i \in (p + 1)..Len(s) : r <= s[i].key

\* Every frame of t names key k.
ConstKey(t, k) == \A i \in 1..Len(t) : t[i].key = k

(***************************************************************************)
(* The strengthening: the TX only ever sends under its current key, which  *)
(* only grows, so the air is ordered by key; the card has not yet passed   *)
(* on any frame keyed below the installed key; and each new session        *)
(* installed a strictly larger key than the one before.                    *)
(***************************************************************************)
SessInv ==
  /\ IInv
  /\ KeysOrdered(air)
  /\ \A c \in Cards : Ahead(air, pos[c], rxKey)
  /\ rxKey <= txKey
  /\ newSessions <= rxKey
-----------------------------------------------------------------------------
\* Appending frames of one key k, no smaller than every key of s, keeps s
\* ordered and leaves every card ahead of a key r <= k.
LEMMA AppendKeys ==
  ASSUME NEW s \in Seq(Frames), NEW t \in Seq(Frames), NEW K \in Nat, NEW k \in Nat,
         NEW r \in Nat, K <= k, r <= K,
         KeysOrdered(s), KeyBound(s, K), ConstKey(t, k),
         \A c \in Cards : pos[c] \in Nat,
         \A c \in Cards : Ahead(s, pos[c], r)
  PROVE  /\ s \o t \in Seq(Frames)
         /\ KeysOrdered(s \o t)
         /\ KeyBound(s \o t, k)
         /\ \A c \in Cards : Ahead(s \o t, pos[c], r)
<1> DEFINE u == s \o t
<1>1. /\ u \in Seq(Frames)
      /\ Len(u) = Len(s) + Len(t)
      /\ \A i \in 1..Len(u) : u[i] = IF i <= Len(s) THEN s[i] ELSE t[i - Len(s)]
  BY ConcatProperties
<1>2. \A i \in 1..Len(u) : u[i].key \in Nat /\ u[i].key <= k
                           /\ (i > Len(s) => u[i].key = k)
  <2> SUFFICES ASSUME NEW i \in 1..Len(u)
               PROVE  u[i].key \in Nat /\ u[i].key <= k /\ (i > Len(s) => u[i].key = k)
    OBVIOUS
  <2>1. u[i] \in Frames
    BY <1>1, ElementOfSeq
  <2>2. CASE i <= Len(s)
    BY <1>1, <2>1, <2>2, SMTT(30) DEF KeyBound, Frames
  <2>3. CASE i > Len(s)
    <3>1. i - Len(s) \in 1..Len(t)
      BY <1>1, <2>3
    <3> QED
      BY <1>1, <2>1, <2>3, <3>1 DEF ConstKey, Frames
  <2> QED
    BY <2>2, <2>3
<1>3. KeysOrdered(u)
  <2> SUFFICES ASSUME NEW i \in 1..Len(u), NEW j \in 1..Len(u), i < j
               PROVE  u[i].key <= u[j].key
    BY DEF KeysOrdered
  <2>1. CASE j <= Len(s)
    BY <1>1, <2>1 DEF KeysOrdered
  <2>2. CASE j > Len(s)
    BY <1>2, <2>2
  <2> QED
    BY <2>1, <2>2
<1>4. ASSUME NEW c \in Cards PROVE Ahead(u, pos[c], r)
  <2> SUFFICES ASSUME NEW i \in (pos[c] + 1)..Len(u) PROVE r <= u[i].key
    BY DEF Ahead
  <2>1. CASE i <= Len(s)
    <3>1. i \in (pos[c] + 1)..Len(s) /\ u[i] = s[i]
      BY <1>1, <2>1
    <3> QED
      BY <3>1 DEF Ahead
  <2>2. CASE i > Len(s)
    BY <1>2, <2>2, SMTT(30)
  <2> QED
    BY <2>1, <2>2
<1> QED
  BY <1>1, <1>2, <1>3, <1>4 DEF KeyBound

\* What the TX sends names one key.
LEMMA AnnKey ==
  ASSUME NEW k \in Nat, NEW n \in Nat
  PROVE  Announcements(k, n) \in Seq(Frames) /\ ConstKey(Announcements(k, n), k)
BY DEF ConstKey, Announcements, KeyFrame, Frames

LEMMA BlockKey ==
  ASSUME NEW k \in Nat, NEW b \in Nat, NEW m \in Nat
  PROVE  ConstKey(BlockFrames(k, b, m), k)
BY DEF ConstKey, BlockFrames, DataFrame

LEMMA SingleKey ==
  ASSUME NEW k \in Nat, NEW m \in Nat
  PROVE  <<DataFrame(k, m)>> \in Seq(Frames) /\ ConstKey(<<DataFrame(k, m)>>, k)
BY DEF ConstKey, DataFrame, Frames

LEMMA EmptyKey ==
  ASSUME NEW k \in Nat
  PROVE  << >> \in Seq(Frames) /\ ConstKey(<< >>, k)
BY EmptySeq DEF ConstKey

LEMMA DueKey ==
  ASSUME IInv
  PROVE  DueAnnouncement \in Seq(Frames) /\ ConstKey(DueAnnouncement, txKey)
<1>1. txKey \in Nat
  BY DEF IInv, TypeOK, TxTypeOK
<1>2. CASE announceDue
  BY <1>1, <1>2, AnnKey DEF DueAnnouncement
<1>3. CASE ~announceDue
  BY <1>1, <1>3, EmptyKey DEF DueAnnouncement
<1> QED
  BY <1>2, <1>3

\* The parts of the strengthening a TX step starts from.
LEMMA SessFacts ==
  ASSUME SessInv
  PROVE  /\ txKey \in Nat /\ rxKey \in Nat /\ rxKey <= txKey
         /\ encBlock \in Nat /\ encFrag \in Nat /\ fdNonce \in Nat
         /\ air \in Seq(Frames) /\ KeysOrdered(air) /\ KeyBound(air, txKey)
         /\ \A c \in Cards : pos[c] \in Nat
         /\ \A c \in Cards : Ahead(air, pos[c], rxKey)
BY BoundsAssumption DEF SessInv, IInv, TypeOK, TxTypeOK

\* The air with the due announcement appended.
LEMMA TxSessPre ==
  ASSUME SessInv
  PROVE  /\ air \o DueAnnouncement \in Seq(Frames)
         /\ KeysOrdered(air \o DueAnnouncement)
         /\ KeyBound(air \o DueAnnouncement, txKey)
         /\ \A c \in Cards : Ahead(air \o DueAnnouncement, pos[c], rxKey)
<1>1. DueAnnouncement \in Seq(Frames) /\ ConstKey(DueAnnouncement, txKey)
  BY DueKey DEF SessInv
<1>2. /\ txKey \in Nat /\ rxKey \in Nat /\ rxKey <= txKey /\ txKey <= txKey
      /\ air \in Seq(Frames) /\ KeysOrdered(air) /\ KeyBound(air, txKey)
      /\ \A c \in Cards : pos[c] \in Nat
      /\ \A c \in Cards : Ahead(air, pos[c], rxKey)
  BY SessFacts
<1> QED
  BY <1>1, <1>2, AppendKeys

(***************************************************************************)
(* A TX step appends frames of its current key, and on a rekey or restart  *)
(* of the next key, so the air stays ordered and the card stays ahead.     *)
(***************************************************************************)
LEMMA TxSess ==
  ASSUME SessInv, TxNext, UNCHANGED rxVars
  PROVE  /\ KeysOrdered(air')
         /\ \A c \in Cards : Ahead(air', pos'[c], rxKey')
         /\ rxKey' <= txKey'
         /\ newSessions' <= rxKey'
<1> DEFINE s1 == air \o DueAnnouncement
<1>0. /\ txKey \in Nat /\ rxKey \in Nat /\ rxKey <= txKey
      /\ encBlock \in Nat /\ encFrag \in Nat /\ fdNonce \in Nat
      /\ air \in Seq(Frames) /\ KeysOrdered(air) /\ KeyBound(air, txKey)
      /\ \A c \in Cards : pos[c] \in Nat
      /\ \A c \in Cards : Ahead(air, pos[c], rxKey)
      /\ txKey <= txKey /\ txKey <= txKey + 1 /\ txKey + 1 \in Nat
  BY SessFacts
<1>1. /\ s1 \in Seq(Frames) /\ KeysOrdered(s1) /\ KeyBound(s1, txKey)
      /\ \A c \in Cards : Ahead(s1, pos[c], rxKey)
  BY TxSessPre
<1>2. /\ pos' = pos /\ rxKey' = rxKey /\ newSessions' = newSessions
      /\ newSessions <= rxKey
  BY DEF rxVars, SessInv
<1> SUFFICES /\ KeysOrdered(air')
             /\ \A c \in Cards : Ahead(air', pos[c], rxKey)
             /\ rxKey <= txKey'
  BY <1>2
<1>3. CASE Tick
  <2>1. air' = air /\ txKey' = txKey
    BY <1>3 DEF Tick
  <2> QED
    BY <1>0, <2>1
<1>4. CASE FeedFecDisabled
  <2> DEFINE d == <<DataFrame(txKey, fdNonce)>>
  <2>1. air' = s1 \o d /\ txKey' = txKey
    BY <1>4 DEF FeedFecDisabled
  <2>2. d \in Seq(Frames) /\ ConstKey(d, txKey)
    BY <1>0, SingleKey
  <2>3. KeysOrdered(s1 \o d) /\ \A c \in Cards : Ahead(s1 \o d, pos[c], rxKey)
    BY <1>0, <1>1, <2>2, AppendKeys
  <2> QED
    BY <1>0, <2>1, <2>3
<1>5. CASE \E endBlock \in BOOLEAN : FeedPrimary(endBlock)
  <2>1. air' = s1 /\ txKey' = txKey
    BY <1>5 DEF FeedPrimary
  <2> QED
    BY <1>0, <1>1, <2>1
<1>6. CASE \E endBlock \in BOOLEAN : FeedBlock(endBlock)
  <2>1. PICK endBlock \in BOOLEAN : FeedBlock(endBlock)
    BY <1>6
  <2> DEFINE nk  == encFrag + 1
             blk == BlockFrames(txKey, encBlock, nk + Parity(nk))
             s2  == s1 \o blk
             a   == Announcements(txKey + 1, 1)
  <2>2. nk + Parity(nk) \in Nat
    BY <1>0, FecPercentageAssumption DEF Parity
  <2>3. blk \in Seq(Frames) /\ ConstKey(blk, txKey)
    <3>1. nk \in 1..FecK
      BY FecKAssumption DEF SessInv, IInv, TypeOK, TxTypeOK
    <3>2. nk + Parity(nk) \in 0..FragmentsPerBlock
      BY <3>1, ParityBound
    <3>3. blk \in Seq(Frames)
      BY <1>0, <3>2, BlockFacts
    <3> QED
      BY <1>0, <2>2, <3>3, BlockKey
  <2>4. /\ s2 \in Seq(Frames) /\ KeysOrdered(s2) /\ KeyBound(s2, txKey)
        /\ \A c \in Cards : Ahead(s2, pos[c], rxKey)
    BY <1>0, <1>1, <2>3, AppendKeys
  <2>5. CASE encBlock < MaxBlockIdx
    <3>1. air' = s2 /\ txKey' = txKey
      <4>1. encBlock # MaxBlockIdx
        BY <2>5, <1>0, BoundsAssumption
      <4> QED
        BY <2>1, <4>1, Zenon DEF FeedBlock
    <3> QED
      BY <1>0, <2>4, <3>1
  <2>6. CASE ~(encBlock < MaxBlockIdx)
    <3>1. air' = s2 \o a /\ txKey' = txKey + 1
      BY <2>1, <2>6 DEF FeedBlock
    <3>2. a \in Seq(Frames) /\ ConstKey(a, txKey + 1)
      BY <1>0, AnnKey
    <3>3. txKey <= txKey + 1 /\ txKey + 1 \in Nat
      BY <1>0
    <3>4. KeysOrdered(s2 \o a) /\ \A c \in Cards : Ahead(s2 \o a, pos[c], rxKey)
      BY <1>0, <2>4, <3>2, <3>3, AppendKeys
    <3> QED
      BY <1>0, <3>1, <3>4
  <2> QED
    BY <2>5, <2>6
<1>7. CASE TxRestart
  <2> DEFINE a == Announcements(txKey + 1, StartupAnnouncements)
  <2>1. air' = air \o a /\ txKey' = txKey + 1
    BY <1>7 DEF TxRestart
  <2>2. a \in Seq(Frames) /\ ConstKey(a, txKey + 1)
    BY <1>0, AnnKey DEF StartupAnnouncements
  <2>3. txKey <= txKey + 1 /\ txKey + 1 \in Nat
    BY <1>0
  <2>4. KeysOrdered(air \o a) /\ \A c \in Cards : Ahead(air \o a, pos[c], rxKey)
    BY <1>0, <2>2, <2>3, AppendKeys
  <2> QED
    BY <1>0, <2>1, <2>4
<1> QED
  BY <1>3, <1>4, <1>5, <1>6, <1>7 DEF TxNext

\* A card that passes on its next frame stays ahead of any key it was ahead of.
LEMMA AheadAdvance ==
  ASSUME NEW s, NEW p \in Nat, NEW r, Ahead(s, p, r)
  PROVE  Ahead(s, p + 1, r)
BY DEF Ahead

(***************************************************************************)
(* A receive step on the only card.  A session-key frame that differs from *)
(* the installed key names a larger one, since the card is ahead of the    *)
(* installed key; so each new session raises rxKey by at least one, and    *)
(* the frames after it, ordered by key, stay at or above the new key.      *)
(***************************************************************************)
LEMMA RxSess ==
  ASSUME SessInv, NEW c0, Cards = {c0},
         NEW c \in Cards, RxLose(c) \/ RxSessionKey(c) \/ RxData(c)
  PROVE  /\ KeysOrdered(air')
         /\ \A d \in Cards : Ahead(air', pos'[d], rxKey')
         /\ rxKey' <= txKey'
         /\ newSessions' <= rxKey'
<1> DEFINE k == air[pos[c] + 1].key
<1>1. /\ air' = air /\ txKey' = txKey /\ HasFrame(c)
      /\ pos' = [pos EXCEPT ![c] = @ + 1]
  BY DEF RxLose, RxSessionKey, RxData, Advance, txVars
<1>2. /\ pos[c] + 1 \in 1..Len(air) /\ NextFrame(c) \in Frames
  BY <1>1, NextFrameFacts DEF SessInv
<1>3. /\ txKey \in Nat /\ rxKey \in Nat /\ rxKey <= txKey
      /\ air \in Seq(Frames) /\ KeysOrdered(air) /\ KeyBound(air, txKey)
      /\ pos[c] \in Nat /\ Ahead(air, pos[c], rxKey)
      /\ newSessions \in Nat /\ newSessions <= rxKey
  BY SessFacts DEF SessInv, IInv, TypeOK
<1>4. pos'[c] = pos[c] + 1
  BY <1>1 DEF SessInv, IInv, TypeOK
<1>5. /\ k \in Nat /\ rxKey <= k /\ k <= txKey
      /\ Ahead(air, pos[c] + 1, k)
  <2>1. k \in Nat
    BY <1>2 DEF NextFrame, Frames
  <2>2. rxKey <= k
    BY <1>2, <1>3 DEF Ahead
  <2>3. k <= txKey
    BY <1>2, <1>3 DEF KeyBound
  <2>4. Ahead(air, pos[c] + 1, k)
    BY <1>2, <1>3 DEF Ahead, KeysOrdered
  <2> QED
    BY <2>1, <2>2, <2>3, <2>4
<1> SUFFICES /\ Ahead(air, pos[c] + 1, rxKey')
             /\ rxKey' <= txKey
             /\ newSessions' <= rxKey'
  BY <1>1, <1>3, <1>4
<1>6. CASE RxLose(c) \/ RxData(c)
  <2>1. rxKey' = rxKey /\ newSessions' = newSessions
    BY <1>6 DEF RxLose, RxData
  <2> QED
    BY <1>3, <2>1, AheadAdvance
<1>7. CASE RxSessionKey(c)
  <2>1. CASE k # rxKey
    <3>1. rxKey' = k /\ newSessions' = newSessions + 1
      BY <1>7, <2>1 DEF RxSessionKey, OnNewPacketWfbKey, NextFrame
    <3> QED
      BY <1>3, <1>5, <2>1, <3>1
  <2>2. CASE k = rxKey
    <3>1. rxKey' = rxKey /\ newSessions' = newSessions
      BY <1>7, <2>2 DEF RxSessionKey, OnNewPacketWfbKey, NextFrame
    <3> QED
      BY <1>3, <3>1, AheadAdvance
  <2> QED
    BY <2>1, <2>2
<1> QED
  BY <1>6, <1>7

\* The strengthening holds initially and, with one card, is inductive.
LEMMA InitSessInv == Init => SessInv
<1> SUFFICES ASSUME Init PROVE SessInv
  OBVIOUS
<1>1. IInv
  BY InitIInv
<1>2. air = Announcements(1, StartupAnnouncements) /\ txKey = 1 /\ rxKey = 0
      /\ newSessions = 0 /\ pos = [c \in Cards |-> 0]
  BY DEF Init, TxInit
<1>2a. air \in Seq(Frames) /\ ConstKey(air, 1)
  BY <1>2, AnnKey DEF StartupAnnouncements
<1>3. KeysOrdered(air)
  BY <1>2a DEF KeysOrdered, ConstKey
<1>4. \A c \in Cards : Ahead(air, pos[c], rxKey)
  BY <1>2, <1>2a DEF Ahead, ConstKey
<1> QED
  BY <1>1, <1>2, <1>3, <1>4 DEF SessInv

LEMMA NextSessInv ==
  ASSUME NEW c0, Cards = {c0}
  PROVE  SessInv /\ [Next]_vars => SessInv'
<1> SUFFICES ASSUME SessInv, [Next]_vars PROVE SessInv'
  OBVIOUS
<1>1. IInv'
  BY NextIInv DEF SessInv
<1>2. CASE TxNext /\ UNCHANGED rxVars
  BY <1>1, <1>2, TxSess DEF SessInv
<1>3. CASE \E c \in Cards : RxLose(c) \/ RxSessionKey(c) \/ RxData(c)
  BY <1>1, <1>3, RxSess DEF SessInv
<1>4. CASE UNCHANGED vars
  BY <1>1, <1>4 DEF vars, txVars, rxVars, SessInv
<1> QED
  BY <1>2, <1>3, <1>4 DEF Next

-----------------------------------------------------------------------------
(***************************************************************************)
(* With one RX card, onNewPacketWfbKey's comparison with the installed key *)
(* makes the receiver detect a new session (and reset its FEC decoder) at  *)
(* most once per session key the TX has made, however often the key is    *)
(* re-announced, whatever frames are lost, for every FEC configuration and *)
(* every bound on keys, blocks and nonces.                                 *)
(***************************************************************************)
THEOREM SessionCallbacksOneCard ==
  ASSUME NEW c0, Cards = {c0}
  PROVE  Spec => []SessionCallbacksBounded
<1>1. Init => SessInv
  BY InitSessInv
<1>2. SessInv /\ [Next]_vars => SessInv'
  BY NextSessInv
<1>3. SessInv => SessionCallbacksBounded
  BY DEF SessInv, SessionCallbacksBounded, IInv, TypeOK, TxTypeOK
<1> QED
  BY <1>1, <1>2, <1>3, PTL DEF Spec
=============================================================================
