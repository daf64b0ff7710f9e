----------------------------- MODULE SessionLink -----------------------------
(***************************************************************************)
(* What the session layer of the link promises the FEC decoder of the      *)
(* ground unit (spec sections 4.3 and 4.4): the TX seals data under the    *)
(* latest of the session keys it has made; the receiver only ever moves on *)
(* to a key made after the one it holds, signalling one new session each   *)
(* time; and it hands on only packets the TX sealed under the key it       *)
(* holds, each with a nonce beyond every packet of that key handed on      *)
(* before (no packet twice, none out of order).                            *)
(*                                                                         *)
(* Keys are numbered 1, 2, ... in the order the TX made them; 0 is the     *)
(* all-zero key a receiver starts with.  A packet is a record              *)
(* [key, nonce].                                                           *)
(***************************************************************************)
EXTENDS Naturals, Sequences

VARIABLES
  keysMade,   \* the number of session keys the TX has made
  sealed,     \* the set of packets the TX has sealed
  installed,  \* the key the receiver authenticates with
  sessions,   \* the new sessions signalled to the receiver's consumers
  delivered   \* the packets handed on, in the order they were

sessVars == <<keysMade, sealed, installed, sessions, delivered>>

SessInit ==
  /\ keysMade = 1
  /\ sealed = {}
  /\ installed = 0
  /\ sessions = 0
  /\ delivered = << >>

\* The TX seals packets under its current key; in the same step it may make
\* a new key (the rekey at the end of the call that wraps the encoder, or a
\* restart of the TX process).
Seal ==
  /\ sealed \subseteq sealed'
  /\ \A p \in sealed' \ sealed : p.key = keysMade
  /\ keysMade' \in {keysMade, keysMade + 1}
  /\ UNCHANGED <<installed, sessions, delivered>>

\* The receiver moves on to a key made after the one it holds.
NewSession ==
  /\ \E k \in (installed + 1)..keysMade : installed' = k
  /\ sessions' = sessions + 1
  /\ UNCHANGED <<keysMade, sealed, delivered>>

\* A sealed packet of the installed key, beyond every packet of that key
\* handed on so far, is handed on.
Deliver ==
  /\ \E p \in sealed :
       /\ p.key = installed
       /\ \A i \in 1..Len(delivered) :
            delivered[i].key = p.key => delivered[i].nonce < p.nonce
       /\ delivered' = Append(delivered, p)
  /\ UNCHANGED <<keysMade, sealed, installed, sessions>>

SessNext == Seal \/ NewSession \/ Deliver

SessSpec == SessInit /\ [][SessNext]_sessVars
=============================================================================
