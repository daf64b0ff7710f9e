------------------------------- MODULE WBLink -------------------------------
(***************************************************************************)
(* The link: the transmitter of WBTransmitter, the radio channel seen by   *)
(* each RX card, and the receive path of the ground unit that opens        *)
(* session-key frames (Decryptor::onNewPacketWfbKey) and authenticates     *)
(* data frames (Decryptor::decryptPacket) with the installed key.          *)
(*                                                                         *)
(* Every RX card sniffs the same channel and hands frames to the receive   *)
(* thread in the order it captured them; it may miss any frame (there are  *)
(* no MAC-layer acknowledgements).  pos[c] is the index in `air` of the    *)
(* last frame card c has passed on or missed.  The receive thread polls    *)
(* all cards and drains whichever is readable, so the cards' streams       *)
(* interleave in any order: the same frame reaches the decryptor once per  *)
(* card that caught it, at different times.                                *)
(***************************************************************************)
EXTENDS WBTransmitter

CONSTANT Cards   \* the RX cards of the receiving WBTxRx

ASSUME CardsAssumption == Cards # {}

VARIABLES
  pos,          \* pos[c]: frames of `air` card c has delivered or missed
  rxKey,        \* Decryptor::session_key, 0 for the initial all-zero key
  newSessions,  \* how often a new session was detected (cb_session fired)
  rxValid       \* the data frames that authenticated, in the order they did

rxVars == <<pos, rxKey, newSessions, rxValid>>

vars == <<txVars, rxVars>>

\* What on_valid_packet hands on: the frame's nonce and the card it came from.
ValidPackets == [key : Nat, nonce : Nat, card : Cards]

TypeOK ==
  /\ TxTypeOK
  /\ pos \in [Cards -> 0..Len(air)]
  /\ rxKey \in 0..MaxKeys
  /\ newSessions \in Nat
  /\ rxValid \in Seq(ValidPackets)

Init ==
  /\ TxInit
  /\ pos = [c \in Cards |-> 0]
  /\ rxKey = 0
  /\ newSessions = 0
  /\ rxValid = <<>>

\* The next frame card c hands to the receive thread.
NextFrame(c) == air[pos[c] + 1]

\* Card c has captured a frame it has not yet passed on.
HasFrame(c) == pos[c] < Len(air)

Advance(c) == pos' = [pos EXCEPT ![c] = @ + 1]

(***************************************************************************)
(* Card c misses the next frame of the channel.                            *)
(***************************************************************************)
RxLose(c) ==
  /\ HasFrame(c)
  /\ Advance(c)
  /\ UNCHANGED <<txVars, rxKey, newSessions, rxValid>>

\* Variant of OnNewPacketWfbKey without the memcmp against the installed key.
OnNewPacketWfbKeyNoCompare(k) == TRUE

\* onNewPacketWfbKey: the announced key opens (the box is authentic) and it
\* is a new session iff it differs byte-wise from the installed key.
OnNewPacketWfbKey(k) == k # rxKey

(***************************************************************************)
(* A session-key frame from card c: onNewPacketWfbKey; on a new session    *)
(* the key is installed and the new-session callbacks fire.                *)
(***************************************************************************)
RxSessionKey(c) ==
  LET k == NextFrame(c).key
  IN  /\ HasFrame(c)
      /\ NextFrame(c).kind = "key"
      /\ Advance(c)
      /\ IF OnNewPacketWfbKey(k)
           THEN /\ rxKey' = k
                /\ newSessions' = newSessions + 1
           ELSE UNCHANGED <<rxKey, newSessions>>
      /\ UNCHANGED <<txVars, rxValid>>

\* A mutant: decryptPacket passes the frame on without checking its tag.
DecryptPacketNoAuth(f) == TRUE

\* decryptPacket: the Poly1305 tag verifies iff the frame was sealed with
\* the installed session key (header and nonce are authenticated as AAD).
DecryptPacket(f) == f.key = rxKey

(***************************************************************************)
(* A data frame from card c: it is passed on iff it authenticates;         *)
(* otherwise it is dropped (counted as "any" but not "valid").             *)
(***************************************************************************)
RxData(c) ==
  LET f == NextFrame(c)
  IN  /\ HasFrame(c)
      /\ f.kind = "data"
      /\ Advance(c)
      /\ IF DecryptPacket(f)
           THEN rxValid' = Append(rxValid, [key |-> f.key, nonce |-> f.nonce, card |-> c])
           ELSE UNCHANGED rxValid
      /\ UNCHANGED <<txVars, rxKey, newSessions>>

Next ==
  \/ TxNext /\ UNCHANGED rxVars
  \/ \E c \in Cards : RxLose(c) \/ RxSessionKey(c) \/ RxData(c)

Spec == Init /\ [][Next]_vars

-----------------------------------------------------------------------------
(***************************************************************************)
(* Re-announcements of a session key are idempotent: the receiver detects  *)
(* a new session (and fires the new_session callbacks, resetting the FEC   *)
(* decoder) at most once per key the TX has made, i.e. once per restart    *)
(* or rekey (spec 4.3, property 5, scenario S4).                           *)
(***************************************************************************)
SessionCallbacksBounded == newSessions <= txKey
-----------------------------------------------------------------------------
\* The (key, nonce) pair of a frame or of a packet on_valid_packet handed on.
Packet(f) == [key |-> f.key, nonce |-> f.nonce]

\* The pairs of a sequence of valid packets, in order.
PacketsOf(s) == [i \in 1..Len(s) |-> Packet(s[i])]

\* The packets the TX has sealed: the data frames it put on the air.
SealedPackets == {Packet(air[i]) : i \in {j \in 1..Len(air) : air[j].kind = "data"}}

Session == INSTANCE SessionLink
             WITH keysMade <- txKey, sealed <- SealedPackets, installed <- rxKey,
                  sessions <- newSessions,
                  delivered <- PacketsOf(rxValid)

(***************************************************************************)
(* With the session keys and the authentication of Decryptor, the link     *)
(* implements the session layer: the receiver installs only keys the TX    *)
(* made after the one it holds (onNewPacketWfbKey), and hands on only      *)
(* packets sealed under the installed key, never one twice and never one   *)
(* behind an earlier packet of its key (decryptPacket).                    *)
(***************************************************************************)
ImplementsSessionLink == Session!SessSpec
=============================================================================
