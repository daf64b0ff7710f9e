---------------------------- MODULE WBLinkProofs ----------------------------
(***************************************************************************)
(* Proofs about WBLink for every value of the constants.                   *)
(***************************************************************************)
EXTENDS WBLink, SequenceTheorems, TLAPS

(***************************************************************************)
(* The inductive invariant: the type invariant, the nonce order on the     *)
(* air, and that every frame on the air lies before what the TX will send  *)
(* next: no key beyond the current one, and no data frame of the current   *)
(* key at or beyond the encoder's next nonce.                              *)
(***************************************************************************)
IInv ==
  /\ TypeOK
  /\ MonotoneNoncesPerKey
  /\ Below(air, txKey, NextNonce)
  /\ KeyBound(air, txKey)
-----------------------------------------------------------------------------
(***************************************************************************)
(* Lemmas on appending frames to the air.                                  *)
(***************************************************************************)

\* Appending t after s keeps the nonces of each key increasing when every
\* data frame of s lies before (K, N) and every data frame of t has key K
\* and a nonce of N or more.
LEMMA ConcatNoncesIncrease ==
  ASSUME NEW s \in Seq(Frames), NEW t \in Seq(Frames), NEW K \in Nat, NEW N \in Nat,
         NoncesIncrease(s), NoncesIncrease(t), Below(s, K, N), From(t, K, N)
  PROVE  NoncesIncrease(s \o t)
<1> DEFINE u == s \o t
<1>1. /\ Len(u) = Len(s) + Len(t)
      /\ \A i \in 1..Len(u) : u[i] = IF i <= Len(s) THEN s[i] ELSE t[i - Len(s)]
  BY ConcatProperties
<1>2. SUFFICES ASSUME NEW i \in 1..Len(u), NEW j \in 1..Len(u), i < j,
                      u[i].kind = "data", u[j].kind = "data", u[i].key = u[j].key
               PROVE  u[i].nonce < u[j].nonce
  BY DEF NoncesIncrease
<1>3. CASE j <= Len(s)
  BY <1>1, <1>2, <1>3 DEF NoncesIncrease
<1>4. CASE i <= Len(s) /\ j > Len(s)
  <2>1. u[i] = s[i] /\ u[j] = t[j - Len(s)] /\ j - Len(s) \in 1..Len(t)
    BY <1>1, <1>4
  <2>2. u[j].key = K /\ u[j].nonce >= N
    BY <2>1, <1>2 DEF From
  <2>3. u[i].key < K \/ (u[i].key = K /\ u[i].nonce < N)
    BY <2>1, <1>2, <1>4 DEF Below
  <2>4. u[i].nonce \in Nat /\ u[j].nonce \in Nat
    <3>1. i \in 1..Len(s) /\ j - Len(s) \in 1..Len(t)
      BY <2>1, <1>4
    <3>2. s[i] \in Frames /\ t[j - Len(s)] \in Frames
      BY <3>1, ElementOfSeq
    <3> QED
      BY <3>2, <2>1 DEF Frames
  <2>5. u[i].key = K
    BY <2>2, <1>2
  <2>6. u[i].nonce < N
    BY <2>3, <2>5, <2>4, SMTT(30) DEF Frames
  <2>7. \A x, y \in Nat : x < N /\ y >= N => x < y
    OBVIOUS
  <2> QED
    BY <2>2, <2>4, <2>6, <2>7, Zenon
<1>5. CASE i > Len(s)
  <2>1. u[i] = t[i - Len(s)] /\ u[j] = t[j - Len(s)]
        /\ i - Len(s) \in 1..Len(t) /\ j - Len(s) \in 1..Len(t)
        /\ i - Len(s) < j - Len(s)
    BY <1>1, <1>5, <1>2
  <2> QED
    BY <2>1, <1>2 DEF NoncesIncrease
<1> QED
  BY <1>3, <1>4, <1>5, <1>2

\* Below and KeyBound hold of a concatenation when they hold of both parts.
LEMMA ConcatBelow ==
  ASSUME NEW s \in Seq(Frames), NEW t \in Seq(Frames), NEW K \in Nat, NEW N \in Nat,
         Below(s, K, N), Below(t, K, N), KeyBound(s, K), KeyBound(t, K)
  PROVE  Below(s \o t, K, N) /\ KeyBound(s \o t, K)
<1>1. /\ Len(s \o t) = Len(s) + Len(t)
      /\ \A i \in 1..Len(s \o t) : (s \o t)[i] = IF i <= Len(s) THEN s[i] ELSE t[i - Len(s)]
  BY ConcatProperties
<1>2. Below(s \o t, K, N)
  <2> SUFFICES ASSUME NEW i \in 1..Len(s \o t), (s \o t)[i].kind = "data"
               PROVE  \/ (s \o t)[i].key < K
                      \/ (s \o t)[i].key = K /\ (s \o t)[i].nonce < N
    BY DEF Below
  <2>1. CASE i <= Len(s)
    BY <1>1, <2>1 DEF Below
  <2>2. CASE i > Len(s)
    <3>1. i - Len(s) \in 1..Len(t)
      BY <1>1, <2>2
    <3> QED
      BY <1>1, <2>2, <3>1 DEF Below
  <2> QED
    BY <2>1, <2>2
<1>3. KeyBound(s \o t, K)
  <2> SUFFICES ASSUME NEW i \in 1..Len(s \o t)
               PROVE  (s \o t)[i].key <= K
    BY DEF KeyBound
  <2>1. CASE i <= Len(s)
    BY <1>1, <2>1 DEF KeyBound
  <2>2. CASE i > Len(s)
    <3>1. i - Len(s) \in 1..Len(t)
      BY <1>1, <2>2
    <3> QED
      BY <1>1, <2>2, <3>1 DEF KeyBound
  <2> QED
    BY <2>1, <2>2
<1> QED
  BY <1>2, <1>3

\* Below stays true when the point moves forward.
LEMMA BelowRaise ==
  ASSUME NEW s \in Seq(Frames), NEW K \in Nat, NEW N \in Nat,
         NEW K2 \in Nat, NEW N2 \in Nat,
         Below(s, K, N), K < K2 \/ (K = K2 /\ N <= N2)
  PROVE  Below(s, K2, N2)
<1> SUFFICES ASSUME NEW i \in 1..Len(s), s[i].kind = "data"
             PROVE  \/ s[i].key < K2
                    \/ s[i].key = K2 /\ s[i].nonce < N2
  BY DEF Below
<1>1. s[i] \in Frames
  BY ElementOfSeq
<1>2. s[i].key \in Nat /\ s[i].nonce \in Nat
  BY <1>1 DEF Frames
<1>3. s[i].key < K \/ (s[i].key = K /\ s[i].nonce < N)
  BY DEF Below
<1> QED
  BY <1>2, <1>3

\* Appending t moves the point the air lies before from (K, N) to (K2, N2).
LEMMA AppendFrames ==
  ASSUME NEW s \in Seq(Frames), NEW t \in Seq(Frames),
         NEW K \in Nat, NEW N \in Nat, NEW K2 \in Nat, NEW N2 \in Nat,
         NoncesIncrease(s), Below(s, K, N), KeyBound(s, K),
         NoncesIncrease(t), From(t, K, N), Below(t, K2, N2), KeyBound(t, K2),
         K < K2 \/ (K = K2 /\ N <= N2)
  PROVE  /\ s \o t \in Seq(Frames)
         /\ NoncesIncrease(s \o t)
         /\ Below(s \o t, K2, N2)
         /\ KeyBound(s \o t, K2)
<1>1. s \o t \in Seq(Frames)
  BY ConcatProperties
<1>2. NoncesIncrease(s \o t)
  BY ConcatNoncesIncrease
<1>3. Below(s, K2, N2)
  BY BelowRaise
<1>4. KeyBound(s, K2)
  <2> SUFFICES ASSUME NEW i \in 1..Len(s) PROVE s[i].key <= K2
    BY DEF KeyBound
  <2>1. s[i] \in Frames
    BY ElementOfSeq
  <2> QED
    BY <2>1 DEF KeyBound, Frames
<1> QED
  BY <1>1, <1>2, <1>3, <1>4, ConcatBelow

\* Announcements carry no data frame.
LEMMA AnnouncementsFacts ==
  ASSUME NEW k \in Nat, NEW n \in Nat, NEW K \in Nat, NEW N \in Nat
  PROVE  /\ Announcements(k, n) \in Seq(Frames)
         /\ NoncesIncrease(Announcements(k, n))
         /\ From(Announcements(k, n), K, N)
         /\ Below(Announcements(k, n), K, N)
         /\ k <= K => KeyBound(Announcements(k, n), K)
<1>1. Announcements(k, n) \in Seq(Frames)
  BY DEF Announcements, KeyFrame, Frames
<1>2. Len(Announcements(k, n)) = n
  BY DEF Announcements
<1> QED
  BY <1>1, <1>2 DEF Announcements, KeyFrame, NoncesIncrease, From, Below, KeyBound

\* The empty sequence, sent when no announcement is due.
LEMMA EmptyFacts ==
  ASSUME NEW K \in Nat, NEW N \in Nat
  PROVE  /\ << >> \in Seq(Frames)
         /\ NoncesIncrease(<< >>) /\ From(<< >>, K, N)
         /\ Below(<< >>, K, N) /\ KeyBound(<< >>, K)
BY EmptySeq DEF NoncesIncrease, From, Below, KeyBound

\* The fragments of a block of at most 256 carry increasing nonces of the
\* block's range, all under one key.
LEMMA BlockFacts ==
  ASSUME NEW k \in Nat, NEW b \in Nat, NEW n \in 0..FragmentsPerBlock
  PROVE  /\ BlockFrames(k, b, n) \in Seq(Frames)
         /\ NoncesIncrease(BlockFrames(k, b, n))
         /\ From(BlockFrames(k, b, n), k, b * FragmentsPerBlock)
         /\ Below(BlockFrames(k, b, n), k, (b + 1) * FragmentsPerBlock)
         /\ KeyBound(BlockFrames(k, b, n), k)
<1>1. BlockFrames(k, b, n) \in Seq(Frames)
  BY DEF BlockFrames, DataFrame, Frames, FragmentsPerBlock
<1>2. Len(BlockFrames(k, b, n)) = n
  BY DEF BlockFrames
<1> DEFINE B == BlockFrames(k, b, n)
<1>3. \A i \in 1..n : B[i].kind = "data" /\ B[i].key = k
                      /\ B[i].nonce = b * FragmentsPerBlock + (i - 1)
  BY DEF BlockFrames, DataFrame
<1>4. NoncesIncrease(B)
  <2> SUFFICES ASSUME NEW i \in 1..n, NEW j \in 1..n, i < j
               PROVE  B[i].nonce < B[j].nonce
    BY <1>2 DEF NoncesIncrease
  <2> QED
    BY <1>3, SMT DEF FragmentsPerBlock
<1>5. From(B, k, b * FragmentsPerBlock)
  <2> SUFFICES ASSUME NEW i \in 1..n PROVE B[i].key = k /\ B[i].nonce >= b * FragmentsPerBlock
    BY <1>2 DEF From
  <2> QED
    BY <1>3, SMT DEF FragmentsPerBlock
<1>6. Below(B, k, (b + 1) * FragmentsPerBlock)
  <2> SUFFICES ASSUME NEW i \in 1..n PROVE B[i].key = k /\ B[i].nonce < (b + 1) * FragmentsPerBlock
    BY <1>2 DEF Below
  <2>1. B[i].nonce = b * 256 + (i - 1) /\ i <= 256
    BY <1>3 DEF FragmentsPerBlock
  <2> QED
    BY <2>1, <1>3, SMT DEF FragmentsPerBlock
<1>7. KeyBound(B, k)
  BY <1>2, <1>3 DEF KeyBound
<1> QED
  BY <1>1, <1>4, <1>5, <1>6, <1>7

\* The single packet of the FEC-disabled encoder.
LEMMA SingleFacts ==
  ASSUME NEW k \in Nat, NEW n \in Nat
  PROVE  /\ <<DataFrame(k, n)>> \in Seq(Frames)
         /\ NoncesIncrease(<<DataFrame(k, n)>>)
         /\ From(<<DataFrame(k, n)>>, k, n)
         /\ Below(<<DataFrame(k, n)>>, k, n + 1)
         /\ KeyBound(<<DataFrame(k, n)>>, k)
BY DEF DataFrame, Frames, NoncesIncrease, From, Below, KeyBound

\* A block of k <= 128 primaries has at most 256 fragments.
LEMMA ParityBound ==
  ASSUME NEW k \in 1..FecK
  PROVE  k + Parity(k) \in 0..FragmentsPerBlock
BY FecKAssumption, FecPercentageAssumption DEF Parity, FragmentsPerBlock

-----------------------------------------------------------------------------
(***************************************************************************)
(* The invariant holds initially and is preserved by every step.           *)
(***************************************************************************)
LEMMA InitIInv == Init => IInv
<1> SUFFICES ASSUME Init PROVE IInv
  OBVIOUS
<1>1. /\ air \in Seq(Frames) /\ NoncesIncrease(air)
      /\ Below(air, 1, 0) /\ KeyBound(air, 1)
  BY AnnouncementsFacts DEF Init, TxInit, StartupAnnouncements
<1>2. NextNonce = 0
  BY DEF Init, TxInit, NextNonce, FragmentsPerBlock
<1>3. TxTypeOK
  <2>1. fecMode \in AllFecModes
    BY FecModesAssumption DEF Init, TxInit
  <2>2. txKey \in 1..MaxKeys /\ encBlock \in 0..MaxBlockIdx
        /\ encFrag \in 0..(FecK - 1) /\ fdNonce \in 0..MaxNonce
    BY BoundsAssumption, FecKAssumption DEF Init, TxInit
  <2> QED
    BY <1>1, <2>1, <2>2 DEF Init, TxInit, TxTypeOK
<1>4. /\ pos \in [Cards -> 0..Len(air)] /\ rxKey \in 0..MaxKeys
      /\ newSessions \in Nat /\ rxValid \in Seq(ValidPackets)
  BY <1>1, BoundsAssumption, EmptySeq DEF Init
<1> QED
  BY <1>1, <1>2, <1>3, <1>4 DEF IInv, TypeOK, MonotoneNoncesPerKey, Init, TxInit

\* Appending never shortens the air, so no card's read position leaves it.
LEMMA ConcatGrows ==
  ASSUME NEW s \in Seq(Frames), NEW t \in Seq(Frames)
  PROVE  s \o t \in Seq(Frames) /\ Len(s) <= Len(s \o t)
BY ConcatProperties

\* A TX step that keeps the TX state well typed and only appends to the air
\* keeps the link state well typed: the receiver's state is untouched.
LEMMA TxStepTypeOK ==
  ASSUME TypeOK, TxTypeOK', UNCHANGED rxVars, Len(air) <= Len(air')
  PROVE  TypeOK'
<1>1. /\ pos' = pos /\ rxKey' = rxKey /\ newSessions' = newSessions
      /\ rxValid' = rxValid
  BY DEF rxVars
<1>2. Len(air) \in Nat /\ Len(air') \in Nat
  BY SMTT(30) DEF TypeOK, TxTypeOK
<1>3. pos' \in [Cards -> 0..Len(air')]
  BY <1>1, <1>2 DEF TypeOK
<1> QED
  BY <1>1, <1>3 DEF TypeOK

\* What the air holds before a TX step and after its due announcement.
LEMMA TxPre ==
  ASSUME IInv
  PROVE  /\ txKey \in Nat /\ NextNonce \in Nat
         /\ air \o DueAnnouncement \in Seq(Frames)
         /\ NoncesIncrease(air \o DueAnnouncement)
         /\ Below(air \o DueAnnouncement, txKey, NextNonce)
         /\ KeyBound(air \o DueAnnouncement, txKey)
         /\ Len(air) <= Len(air \o DueAnnouncement)
<1>0. /\ NoncesIncrease(air) /\ Below(air, txKey, NextNonce) /\ KeyBound(air, txKey)
      /\ txKey \in Nat /\ NextNonce \in Nat /\ air \in Seq(Frames)
  BY DEF IInv, TypeOK, TxTypeOK, MonotoneNoncesPerKey, NextNonce, FragmentsPerBlock
<1>1. /\ DueAnnouncement \in Seq(Frames) /\ NoncesIncrease(DueAnnouncement)
      /\ From(DueAnnouncement, txKey, NextNonce)
      /\ Below(DueAnnouncement, txKey, NextNonce)
      /\ KeyBound(DueAnnouncement, txKey)
  <2>1. CASE announceDue
    BY <1>0, <2>1, AnnouncementsFacts DEF DueAnnouncement
  <2>2. CASE ~announceDue
    BY <1>0, <2>2, EmptyFacts DEF DueAnnouncement
  <2> QED
    BY <2>1, <2>2
<1>2. /\ air \o DueAnnouncement \in Seq(Frames)
      /\ NoncesIncrease(air \o DueAnnouncement)
      /\ Below(air \o DueAnnouncement, txKey, NextNonce)
      /\ KeyBound(air \o DueAnnouncement, txKey)
  BY <1>0, <1>1, AppendFrames
<1> QED
  BY <1>0, <1>1, <1>2, ConcatGrows

\* Time passing changes nothing on the air.
LEMMA TickIInv ==
  ASSUME IInv, Tick, UNCHANGED rxVars
  PROVE  IInv'
<1>1. TxTypeOK'
  BY DEF IInv, TypeOK, TxTypeOK, Tick
<1>2. TypeOK'
  BY <1>1, TxStepTypeOK DEF IInv, Tick
<1> QED
  BY <1>2 DEF IInv, MonotoneNoncesPerKey, NextNonce, Tick

\* feedPacket without FEC seals one packet at the next nonce and moves past it.
LEMMA FeedFecDisabledIInv ==
  ASSUME IInv, FeedFecDisabled, UNCHANGED rxVars
  PROVE  IInv'
<1> DEFINE s1 == air \o DueAnnouncement
           d  == <<DataFrame(txKey, fdNonce)>>
<1>0. /\ txKey \in Nat /\ s1 \in Seq(Frames) /\ NoncesIncrease(s1)
      /\ Below(s1, txKey, NextNonce) /\ KeyBound(s1, txKey) /\ Len(air) <= Len(s1)
  BY TxPre
<1>1. fdNonce \in Nat /\ NextNonce = fdNonce /\ NextNonce' = fdNonce + 1
  BY DEF IInv, TypeOK, TxTypeOK, FeedFecDisabled, NextNonce
<1>2. /\ d \in Seq(Frames) /\ NoncesIncrease(d) /\ From(d, txKey, fdNonce)
      /\ Below(d, txKey, fdNonce + 1) /\ KeyBound(d, txKey)
  BY <1>0, <1>1, SingleFacts
<1>3. /\ s1 \o d \in Seq(Frames) /\ NoncesIncrease(s1 \o d)
      /\ Below(s1 \o d, txKey, fdNonce + 1) /\ KeyBound(s1 \o d, txKey)
      /\ Len(s1) <= Len(s1 \o d)
  <2>1. Below(s1, txKey, fdNonce)
    BY <1>0, <1>1
  <2>2. fdNonce <= fdNonce + 1 /\ fdNonce + 1 \in Nat
    BY <1>1
  <2>3. /\ s1 \o d \in Seq(Frames) /\ NoncesIncrease(s1 \o d)
        /\ Below(s1 \o d, txKey, fdNonce + 1) /\ KeyBound(s1 \o d, txKey)
    BY <1>0, <1>1, <1>2, <2>1, <2>2, AppendFrames
  <2> QED
    BY <1>0, <1>2, <2>3, ConcatGrows
<1>4. air' = s1 \o d /\ txKey' = txKey
  BY DEF FeedFecDisabled
<1>5. TxTypeOK'
  <2>1. fdNonce + 1 \in 0..MaxNonce
    BY <1>1, BoundsAssumption DEF FeedFecDisabled
  <2> QED
    BY <1>3, <1>4, <2>1 DEF IInv, TypeOK, TxTypeOK, FeedFecDisabled
<1>6. TypeOK'
  BY <1>0, <1>3, <1>4, <1>5, TxStepTypeOK DEF IInv
<1> QED
  BY <1>1, <1>3, <1>4, <1>6 DEF IInv, MonotoneNoncesPerKey

\* Buffering a primary sends at most the due announcement.
LEMMA FeedPrimaryIInv ==
  ASSUME IInv, NEW endBlock \in BOOLEAN, FeedPrimary(endBlock), UNCHANGED rxVars
  PROVE  IInv'
<1> DEFINE s1 == air \o DueAnnouncement
<1>0. /\ s1 \in Seq(Frames) /\ NoncesIncrease(s1)
      /\ Below(s1, txKey, NextNonce) /\ KeyBound(s1, txKey) /\ Len(air) <= Len(s1)
  BY TxPre
<1>1. NextNonce' = NextNonce /\ air' = s1 /\ txKey' = txKey
  BY DEF FeedPrimary, NextNonce
<1>2. encFrag + 1 \in 0..(FecK - 1)
  BY FecKAssumption DEF IInv, TypeOK, TxTypeOK, FeedPrimary, BlockEnds
<1>3. TxTypeOK'
  BY <1>0, <1>1, <1>2 DEF IInv, TypeOK, TxTypeOK, FeedPrimary
<1>4. TypeOK'
  BY <1>0, <1>1, <1>3, TxStepTypeOK DEF IInv
<1> QED
  BY <1>0, <1>1, <1>4 DEF IInv, MonotoneNoncesPerKey

\* A restart announces a key beyond every key on the air.
LEMMA TxRestartIInv ==
  ASSUME IInv, TxRestart, UNCHANGED rxVars
  PROVE  IInv'
<1> DEFINE a == Announcements(txKey + 1, StartupAnnouncements)
<1>0. /\ txKey \in Nat /\ NextNonce \in Nat /\ air \in Seq(Frames)
      /\ NoncesIncrease(air) /\ Below(air, txKey, NextNonce) /\ KeyBound(air, txKey)
  BY DEF IInv, TypeOK, TxTypeOK, MonotoneNoncesPerKey, NextNonce, FragmentsPerBlock
<1>1. /\ air' = air \o a /\ txKey' = txKey + 1 /\ txKey + 1 \in 1..MaxKeys
      /\ fecMode' = fecMode /\ encBlock' = 0 /\ encFrag' = 0 /\ fdNonce' = 0
      /\ announceDue' \in BOOLEAN
  <2>1. txKey < MaxKeys /\ txKey' = txKey + 1
    BY DEF TxRestart
  <2>2. txKey + 1 \in 1..MaxKeys
    BY <1>0, <2>1, BoundsAssumption
  <2> QED
    BY <2>1, <2>2 DEF TxRestart
<1>1a. NextNonce' = 0
  BY <1>1 DEF NextNonce, FragmentsPerBlock
<1>2. /\ a \in Seq(Frames) /\ NoncesIncrease(a) /\ From(a, txKey, NextNonce)
      /\ Below(a, txKey + 1, 0) /\ KeyBound(a, txKey + 1)
  <2>1. StartupAnnouncements \in Nat /\ txKey + 1 \in Nat
    BY <1>0 DEF StartupAnnouncements
  <2>2. a \in Seq(Frames) /\ NoncesIncrease(a) /\ From(a, txKey, NextNonce)
    BY <1>0, <2>1, AnnouncementsFacts
  <2>3. Below(a, txKey + 1, 0) /\ KeyBound(a, txKey + 1)
    <3>1. txKey + 1 <= txKey + 1 /\ 0 \in Nat
      BY <1>0
    <3> QED
      BY <2>1, <3>1, AnnouncementsFacts
  <2> QED
    BY <2>2, <2>3
<1>3. /\ air \o a \in Seq(Frames) /\ NoncesIncrease(air \o a)
      /\ Below(air \o a, txKey + 1, 0) /\ KeyBound(air \o a, txKey + 1)
  BY <1>0, <1>2, AppendFrames
<1>4. TxTypeOK'
  <2>1. fecMode \in AllFecModes
    BY DEF IInv, TypeOK, TxTypeOK
  <2>2. 0 \in 0..MaxBlockIdx /\ 0 \in 0..(FecK - 1) /\ 0 \in 0..MaxNonce
    BY FecKAssumption, BoundsAssumption
  <2> QED
    BY <1>1, <1>3, <2>1, <2>2 DEF TxTypeOK
<1>5. TypeOK'
  BY <1>0, <1>1, <1>2, <1>4, ConcatGrows, TxStepTypeOK DEF IInv
<1> QED
  BY <1>1, <1>1a, <1>3, <1>5 DEF IInv, MonotoneNoncesPerKey

\* Closing a block seals its k + r fragments at the block's nonces, all of
\* them below the next block's; on overflow the new key lies beyond all.
LEMMA FeedBlockIInv ==
  ASSUME IInv, NEW endBlock \in BOOLEAN, FeedBlock(endBlock), UNCHANGED rxVars
  PROVE  IInv'
<1> DEFINE nk    == encFrag + 1
           blk   == BlockFrames(txKey, encBlock, nk + Parity(nk))
           s1    == air \o DueAnnouncement
           s2    == s1 \o blk
           M     == (encBlock + 1) * FragmentsPerBlock
<1>0. /\ txKey \in Nat /\ s1 \in Seq(Frames) /\ NoncesIncrease(s1)
      /\ Below(s1, txKey, NextNonce) /\ KeyBound(s1, txKey) /\ Len(air) <= Len(s1)
  BY TxPre
<1>1. /\ encBlock \in 0..MaxBlockIdx /\ nk \in 1..FecK
      /\ NextNonce = encBlock * FragmentsPerBlock
      /\ M \in Nat /\ NextNonce <= M
  <2>1. encBlock \in 0..MaxBlockIdx /\ encFrag \in 0..(FecK - 1)
    BY DEF IInv, TypeOK, TxTypeOK
  <2>2. NextNonce = encBlock * FragmentsPerBlock
    BY DEF FeedBlock, NextNonce
  <2> QED
    BY <2>1, <2>2, BoundsAssumption, FecKAssumption DEF FragmentsPerBlock
<1>2. /\ blk \in Seq(Frames) /\ NoncesIncrease(blk)
      /\ From(blk, txKey, NextNonce) /\ Below(blk, txKey, M)
      /\ KeyBound(blk, txKey)
  <2>1. nk + Parity(nk) \in 0..FragmentsPerBlock
    BY <1>1, ParityBound
  <2>2. encBlock \in Nat
    BY <1>1, BoundsAssumption
  <2> QED
    BY <1>0, <1>1, <2>1, <2>2, BlockFacts
<1>3. /\ s2 \in Seq(Frames) /\ NoncesIncrease(s2)
      /\ Below(s2, txKey, M) /\ KeyBound(s2, txKey) /\ Len(air) <= Len(s2)
  <2>1. NextNonce \in Nat
    BY <1>1, BoundsAssumption DEF FragmentsPerBlock
  <2>2. s2 \in Seq(Frames) /\ NoncesIncrease(s2) /\ Below(s2, txKey, M) /\ KeyBound(s2, txKey)
    BY <1>0, <1>1, <1>2, <2>1, AppendFrames
  <2> QED
    BY <1>0, <1>2, <2>2, ConcatGrows
<1>4. 0 \in 0..(FecK - 1) /\ fecMode' = fecMode /\ fdNonce' = fdNonce
      /\ encFrag' = 0 /\ announceDue' \in BOOLEAN
  <2>1. 0 \in 0..(FecK - 1)
    BY FecKAssumption
  <2>2. fecMode' = fecMode /\ fdNonce' = fdNonce /\ encFrag' = 0 /\ announceDue' \in BOOLEAN
    BY Zenon DEF FeedBlock
  <2> QED
    BY <2>1, <2>2
<1>5. CASE encBlock < MaxBlockIdx
  <2>1. air' = s2 /\ txKey' = txKey /\ encBlock' = encBlock + 1
    <3>1. encBlock # MaxBlockIdx
      BY <1>1, <1>5, BoundsAssumption
    <3> QED
      BY <1>5, <3>1, Zenon DEF FeedBlock
  <2>2. encBlock + 1 \in 0..MaxBlockIdx
    BY <1>1, <1>5, BoundsAssumption
  <2>3. NextNonce' = M
    BY <2>1, <1>4 DEF FeedBlock, NextNonce
  <2>4. TxTypeOK'
    BY <1>3, <1>4, <2>1, <2>2 DEF IInv, TypeOK, TxTypeOK
  <2>5. TypeOK'
    BY <1>3, <2>1, <2>4, TxStepTypeOK DEF IInv
  <2> QED
    BY <1>3, <2>1, <2>3, <2>5 DEF IInv, MonotoneNoncesPerKey
<1>6. CASE ~(encBlock < MaxBlockIdx)
  <2> DEFINE a == Announcements(txKey + 1, 1)
  <2>1. air' = s2 \o a /\ txKey' = txKey + 1 /\ txKey < MaxKeys /\ encBlock' = 0
    BY <1>6 DEF FeedBlock
  <2>2. txKey + 1 \in 1..MaxKeys /\ 0 \in 0..MaxBlockIdx /\ txKey + 1 <= txKey + 1
    BY <1>0, <2>1, BoundsAssumption
  <2>3. NextNonce' = 0
    BY <2>1, <1>4 DEF FeedBlock, NextNonce, FragmentsPerBlock
  <2>4. /\ a \in Seq(Frames) /\ NoncesIncrease(a) /\ From(a, txKey, M)
        /\ Below(a, txKey + 1, 0) /\ KeyBound(a, txKey + 1)
    <3>1. 1 \in Nat /\ 0 \in Nat /\ txKey + 1 \in Nat
      BY <1>0
    <3>2. a \in Seq(Frames) /\ NoncesIncrease(a) /\ From(a, txKey, M)
      BY <1>0, <1>1, <3>1, AnnouncementsFacts
    <3>3. Below(a, txKey + 1, 0) /\ KeyBound(a, txKey + 1)
      BY <2>2, <3>1, AnnouncementsFacts
    <3> QED
      BY <3>2, <3>3
  <2>5. /\ s2 \o a \in Seq(Frames) /\ NoncesIncrease(s2 \o a)
        /\ Below(s2 \o a, txKey + 1, 0) /\ KeyBound(s2 \o a, txKey + 1)
        /\ Len(s2) <= Len(s2 \o a)
    <3>1. txKey < txKey + 1 /\ txKey + 1 \in Nat /\ 0 \in Nat
      BY <1>0
    <3>2. /\ s2 \o a \in Seq(Frames) /\ NoncesIncrease(s2 \o a)
          /\ Below(s2 \o a, txKey + 1, 0) /\ KeyBound(s2 \o a, txKey + 1)
      BY <1>0, <1>1, <1>3, <2>4, <3>1, AppendFrames
    <3> QED
      BY <1>3, <2>4, <3>2, ConcatGrows
  <2>6. TxTypeOK'
    BY <1>4, <2>1, <2>2, <2>5 DEF IInv, TypeOK, TxTypeOK
  <2>7. TypeOK'
    BY <1>3, <2>1, <2>5, <2>6, TxStepTypeOK DEF IInv
  <2> QED
    BY <2>1, <2>3, <2>5, <2>7 DEF IInv, MonotoneNoncesPerKey
<1> QED
  BY <1>5, <1>6

\* What a card reads next is a frame of the air, keyed no further than txKey.
LEMMA NextFrameFacts ==
  ASSUME IInv, NEW c \in Cards, HasFrame(c)
  PROVE  /\ pos[c] + 1 \in 1..Len(air)
         /\ NextFrame(c) \in Frames
         /\ NextFrame(c).key \in 0..MaxKeys
<1>1. pos[c] + 1 \in 1..Len(air) /\ air \in Seq(Frames)
  BY DEF IInv, TypeOK, TxTypeOK, HasFrame
<1>2. NextFrame(c) \in Frames
  BY <1>1, ElementOfSeq DEF NextFrame
<1>3. NextFrame(c).key <= txKey /\ txKey \in 1..MaxKeys
  BY <1>1 DEF IInv, KeyBound, NextFrame, TypeOK, TxTypeOK
<1>4. NextFrame(c).key \in Nat
  BY <1>2 DEF Frames
<1> QED
  BY <1>1, <1>2, <1>3, <1>4, BoundsAssumption

\* A receive step leaves the transmitter and the air alone.
LEMMA RxStepIInv ==
  ASSUME IInv, NEW c \in Cards, RxLose(c) \/ RxSessionKey(c) \/ RxData(c)
  PROVE  IInv'
<1>1. /\ UNCHANGED txVars /\ HasFrame(c)
      /\ pos' = [pos EXCEPT ![c] = @ + 1]
  BY DEF RxLose, RxSessionKey, RxData, Advance
<1>2. /\ fecMode' = fecMode /\ txKey' = txKey /\ announceDue' = announceDue
      /\ encBlock' = encBlock /\ encFrag' = encFrag /\ fdNonce' = fdNonce /\ air' = air
  BY <1>1 DEF txVars
<1>3. /\ pos[c] + 1 \in 1..Len(air) /\ NextFrame(c) \in Frames
      /\ NextFrame(c).key \in 0..MaxKeys
  BY <1>1, NextFrameFacts
<1>4. pos' \in [Cards -> 0..Len(air')]
  BY <1>1, <1>2, <1>3 DEF IInv, TypeOK
<1>5. /\ rxKey' \in 0..MaxKeys /\ newSessions' \in Nat
      /\ rxValid' \in Seq(ValidPackets)
  <2>1. CASE RxLose(c)
    BY <2>1 DEF RxLose, IInv, TypeOK
  <2>2. CASE RxSessionKey(c)
    BY <1>3, <2>2 DEF RxSessionKey, IInv, TypeOK
  <2>3. CASE RxData(c)
    <3>1. [key |-> NextFrame(c).key, nonce |-> NextFrame(c).nonce, card |-> c]
            \in ValidPackets
      BY <1>3 DEF Frames, ValidPackets
    <3>2. rxValid \in Seq(ValidPackets)
      BY DEF IInv, TypeOK
    <3>3. Append(rxValid, [key |-> NextFrame(c).key, nonce |-> NextFrame(c).nonce, card |-> c])
            \in Seq(ValidPackets)
      BY <3>1, <3>2, AppendProperties
    <3> QED
      BY <2>3, <3>2, <3>3 DEF RxData, IInv, TypeOK
  <2> QED
    BY <2>1, <2>2, <2>3
<1>6. TxTypeOK'
  BY <1>2 DEF IInv, TypeOK, TxTypeOK
<1> QED
  BY <1>2, <1>4, <1>5, <1>6 DEF IInv, TypeOK, MonotoneNoncesPerKey, NextNonce

\* The invariant is inductive.
LEMMA NextIInv == IInv /\ [Next]_vars => IInv'
<1> SUFFICES ASSUME IInv, [Next]_vars PROVE IInv'
  OBVIOUS
<1>1. CASE TxNext /\ UNCHANGED rxVars
  BY <1>1, TickIInv, FeedFecDisabledIInv, FeedPrimaryIInv, FeedBlockIInv,
     TxRestartIInv DEF TxNext
<1>2. CASE \E c \in Cards : RxLose(c) \/ RxSessionKey(c) \/ RxData(c)
  BY <1>2, RxStepIInv
<1>3. CASE UNCHANGED vars
  BY <1>3 DEF vars, txVars, rxVars, IInv, TypeOK, TxTypeOK, MonotoneNoncesPerKey,
     NextNonce, Below, KeyBound, NoncesIncrease
<1> QED
  BY <1>1, <1>2, <1>3 DEF Next

-----------------------------------------------------------------------------
(***************************************************************************)
(* In every behaviour of the link the inductive invariant holds.           *)
(***************************************************************************)
THEOREM SpecIInv == Spec => []IInv
<1>1. Init => IInv
  BY InitIInv
<1>2. IInv /\ [Next]_vars => IInv'
  BY NextIInv
<1> QED
  BY <1>1, <1>2, PTL DEF Spec

(***************************************************************************)
(* Type correctness of the link: the TX counters (block index, fragment    *)
(* count, FEC-disabled nonce, session key) stay in their ranges, every     *)
(* card's read position stays within what has been sent, and the receiver  *)
(* only ever installs a key the TX has announced.                          *)
(***************************************************************************)
THEOREM TypeCorrect == Spec => []TypeOK
<1>1. IInv => TypeOK
  BY DEF IInv
<1> QED
  BY SpecIInv, <1>1, PTL

(***************************************************************************)
(* For every value of the constants, feedPacket, the FEC encoder's block   *)
(* numbering, resetOnOverflow's rekey and the restart's new key together   *)
(* never seal two data frames of one session key with the same nonce, nor  *)
(* a later frame with a smaller nonce (the ChaCha20-Poly1305 nonce-reuse   *)
(* condition of Encryptor::makeEncryptedPacketIncludingHeader).            *)
(***************************************************************************)
THEOREM NonceSafety == Spec => []MonotoneNoncesPerKey
<1>1. IInv => MonotoneNoncesPerKey
  BY DEF IInv
<1> QED
  BY SpecIInv, <1>1, PTL
=============================================================================
