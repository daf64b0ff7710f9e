--------------------------- MODULE WBTransmitter ---------------------------
(***************************************************************************)
(* The transmitting side of the link: WBTransmitter::feedPacket with the   *)
(* FEC encoder it drives, the periodic session-key announcement, the       *)
(* rekey on nonce overflow and the restart of the TX process.              *)
(*                                                                         *)
(* Every frame the TX injects is appended to `air`, the history of the     *)
(* radio channel in emission order.  A frame is a record: a session-key    *)
(* announcement carries the key it announces, a data frame the session key *)
(* it was sealed with and its 64-bit nonce.  Keys are abstracted to the    *)
(* naturals 1, 2, ...: makeNewSessionKey draws 32 random bytes, so two     *)
(* keys of one run differ (up to a 2^-256 chance the model leaves out).    *)
(* Key 0 stands for the all-zero key a Decryptor starts with.              *)
(*                                                                         *)
(* Time is abstracted to one bit: announceDue is "cur_ts >=                *)
(* session_key_announce_ts" of feedPacket.                                 *)
(***************************************************************************)
EXTENDS Integers, Sequences

CONSTANTS
  FecModes,        \* the encoder configurations a run may start with
  FecK,            \* fec_k in fixed mode; kMax (MAX_N_P_FRAGMENTS_PER_BLOCK) in variable mode
  FecPercentage,   \* fec_percentage: parity fragments per 100 primaries
  MaxBlockIdx,     \* the largest block index before resetOnOverflow (2^56 - 1 in the code)
  MaxKeys,         \* bound: number of session keys (restarts and rekeys) a run may make
  MaxNonce         \* bound: number of packets the FEC-disabled encoder may emit

\* fec_k = 0 disables FEC; an integer k selects fixed blocks; the strings
\* "h264"/"h265" select variable blocks closed by the NAL end-of-frame hint.
AllFecModes == {"disabled", "fixed", "variable"}

\* The number of fragment indices per block: nonce = block_idx << 8 | fragment_idx.
FragmentsPerBlock == 256

\* WBTransmitter sends the session key 5 times on construction.
StartupAnnouncements == 5

ASSUME FecModesAssumption == FecModes \subseteq AllFecModes /\ FecModes # {}
ASSUME FecKAssumption == FecK \in 1..128
ASSUME FecPercentageAssumption == FecPercentage \in 0..100
ASSUME BoundsAssumption ==
  /\ MaxBlockIdx \in Nat
  /\ MaxKeys \in Nat \ {0}
  /\ MaxNonce \in Nat

VARIABLES
  fecMode,      \* the configuration this TX instance was built with (constant over a run)
  txKey,        \* the current session key of mEncryptor
  announceDue,  \* cur_ts >= session_key_announce_ts
  encBlock,     \* FECEncoder: index of the block being filled
  encFrag,      \* FECEncoder: number of primaries buffered in that block
  fdNonce,      \* FECDisabledEncoder: nonce of the next packet
  air           \* every frame injected so far, in order

txVars == <<fecMode, txKey, announceDue, encBlock, encFrag, fdNonce, air>>

Frames == [kind : {"key", "data"}, key : Nat, nonce : Nat]

KeyFrame(k) == [kind |-> "key", key |-> k, nonce |-> 0]

DataFrame(k, n) == [kind |-> "data", key |-> k, nonce |-> n]

\* The frames of sendSessionKey, once or repeated n times.
Announcements(k, n) == [i \in 1..n |-> KeyFrame(k)]

\* r = ceil(k * p / 100): the parity fragments computed for a block of k primaries.
Parity(k) == (k * FecPercentage + 99) \div 100

\* The k primaries and r secondaries of block b, fragment indices 0 .. k+r-1.
BlockFrames(k, b, n) == [i \in 1..n |-> DataFrame(k, b * FragmentsPerBlock + (i - 1))]

\* The announcement feedPacket sends when the interval has passed.
DueAnnouncement == IF announceDue THEN Announcements(txKey, 1) ELSE <<>>

TxTypeOK ==
  /\ fecMode \in AllFecModes
  /\ txKey \in 1..MaxKeys
  /\ announceDue \in BOOLEAN
  /\ encBlock \in 0..MaxBlockIdx
  /\ encFrag \in 0..(FecK - 1)
  /\ fdNonce \in 0..MaxNonce
  /\ air \in Seq(Frames)

(***************************************************************************)
(* The constructor: a fresh session key, announced 5 times; the next       *)
(* announcement is due one interval later.                                 *)
(***************************************************************************)
TxInit ==
  /\ fecMode \in FecModes
  /\ txKey = 1
  /\ announceDue = FALSE
  /\ encBlock = 0
  /\ encFrag = 0
  /\ fdNonce = 0
  /\ air = Announcements(1, StartupAnnouncements)

(***************************************************************************)
(* Time passes beyond session_key_announce_ts.  It may always pass.        *)
(***************************************************************************)
Tick ==
  /\ announceDue' = TRUE
  /\ UNCHANGED <<fecMode, txKey, encBlock, encFrag, fdNonce, air>>

(***************************************************************************)
(* feedPacket with FEC disabled: the announcement if due, then one packet  *)
(* with the next nonce of the FECDisabledEncoder.                          *)
(***************************************************************************)
FeedFecDisabled ==
  /\ fecMode = "disabled"
  /\ fdNonce < MaxNonce
  /\ air' = air \o DueAnnouncement \o <<DataFrame(txKey, fdNonce)>>
  /\ fdNonce' = fdNonce + 1
  /\ announceDue' = FALSE
  /\ UNCHANGED <<fecMode, txKey, encBlock, encFrag>>

\* Variant of BlockEnds with the off-by-one "i == k" for "i == k-1".
BlockEndsLate(endBlock) ==
  \/ encFrag = FecK
  \/ fecMode = "variable" /\ endBlock

\* Whether encodePacket closes the block with this packet: the k-th primary
\* in fixed mode; the end-of-frame hint or kMax primaries in variable mode.
BlockEnds(endBlock) ==
  \/ encFrag + 1 = FecK
  \/ fecMode = "variable" /\ endBlock

(***************************************************************************)
(* feedPacket with FEC enabled, the packet buffered as a primary without   *)
(* closing the block.                                                      *)
(***************************************************************************)
FeedPrimary(endBlock) ==
  /\ fecMode # "disabled"
  /\ ~BlockEnds(endBlock)
  /\ air' = air \o DueAnnouncement
  /\ encFrag' = encFrag + 1
  /\ announceDue' = FALSE
  /\ UNCHANGED <<fecMode, txKey, encBlock, fdNonce>>

\* Variant of FeedBlock that wraps the encoder without a new session key.
FeedBlockNoRekey(endBlock) ==
  LET k     == encFrag + 1
      block == BlockFrames(txKey, encBlock, k + Parity(k))
  IN  /\ fecMode # "disabled"
      /\ BlockEnds(endBlock)
      /\ encFrag' = 0
      /\ announceDue' = FALSE
      /\ UNCHANGED <<fecMode, fdNonce, txKey>>
      /\ encBlock' = IF encBlock < MaxBlockIdx THEN encBlock + 1 ELSE 0
      /\ air' = air \o DueAnnouncement \o block

(***************************************************************************)
(* feedPacket with FEC enabled, the packet closing the block: all k+r      *)
(* fragments are sealed with the current key and injected.  Then           *)
(* resetOnOverflow: past MaxBlockIdx the encoder restarts at block 0, and  *)
(* feedPacket makes a new session key and sends it once.                   *)
(***************************************************************************)
FeedBlock(endBlock) ==
  LET k     == encFrag + 1
      block == BlockFrames(txKey, encBlock, k + Parity(k))
  IN  /\ fecMode # "disabled"
      /\ BlockEnds(endBlock)
      /\ encFrag' = 0
      /\ announceDue' = FALSE
      /\ UNCHANGED <<fecMode, fdNonce>>
      /\ \/ /\ encBlock < MaxBlockIdx
            /\ encBlock' = encBlock + 1
            /\ air' = air \o DueAnnouncement \o block
            /\ UNCHANGED txKey
         \/ /\ encBlock = MaxBlockIdx
            /\ txKey < MaxKeys
            /\ encBlock' = 0
            /\ txKey' = txKey + 1
            /\ air' = air \o DueAnnouncement \o block \o Announcements(txKey + 1, 1)

(***************************************************************************)
(* The TX process restarts (crash or reboot of the air unit): the block    *)
(* being filled is lost and the constructor runs again with a new key.     *)
(***************************************************************************)
TxRestart ==
  /\ txKey < MaxKeys
  /\ txKey' = txKey + 1
  /\ announceDue' = FALSE
  /\ encBlock' = 0
  /\ encFrag' = 0
  /\ fdNonce' = 0
  /\ air' = air \o Announcements(txKey + 1, StartupAnnouncements)
  /\ UNCHANGED fecMode

TxNext ==
  \/ Tick
  \/ FeedFecDisabled
  \/ \E endBlock \in BOOLEAN : FeedPrimary(endBlock) \/ FeedBlock(endBlock)
  \/ TxRestart

TxSpec == TxInit /\ [][TxNext]_txVars

-----------------------------------------------------------------------------
\* Within each key, the data frames of s carry strictly increasing nonces.
NoncesIncrease(s) ==
  \A i, j \in 1..Len(s) :
    /\ i < j
    /\ s[i].kind = "data"
    /\ s[j].kind = "data"
    /\ s[i].key = s[j].key
    => s[i].nonce < s[j].nonce

(***************************************************************************)
(* ChaCha20-Poly1305 must never seal two messages with one (key, nonce)    *)
(* pair.  The TX guarantees it by the strictly increasing nonces of the    *)
(* FEC encoder within a session and a new session key whenever the         *)
(* encoder wraps (resetOnOverflow) or the process restarts: on the air,    *)
(* the data frames of each key carry strictly increasing nonces.           *)
(***************************************************************************)
MonotoneNoncesPerKey == NoncesIncrease(air)

\* The nonce the encoder in use will give its next data frame.
NextNonce ==
  IF fecMode = "disabled" THEN fdNonce ELSE encBlock * FragmentsPerBlock

\* Every data frame of s was sealed before the point (key K, nonce N).
Below(s, K, N) ==
  \A i \in 1..Len(s) :
    s[i].kind = "data" => \/ s[i].key < K
                          \/ s[i].key = K /\ s[i].nonce < N

\* Every data frame of s is sealed with key K at nonce N or later.
From(s, K, N) ==
  \A i \in 1..Len(s) : s[i].kind = "data" => s[i].key = K /\ s[i].nonce >= N

\* No frame of s names a key beyond K.
KeyBound(s, K) == \A i \in 1..Len(s) : s[i].key <= K

=============================================================================
