# TLA+ models of wifibroadcast

These modules model the parts of `src/` whose behaviour depends on ordering, on concurrency or on the channel:
- the transmitter's session keys and nonces;
- the receive side that authenticates frames;
- the UDP forwarding list;
- the background UDP receive thread.

The SIMD GF(2^8) region kernels of the FEC code are checked byte for byte against a reference product. TLC checks the models on small instances. TLAPS proves the following for every instance:
- the transmitter's nonce safety;
- the one-card bound on new-session callbacks;
- that with one card the link implements an abstract session layer;
- the forwarder's at-most-once delivery and its refinement;
- the receiver's no-callback-after-stop property and its refinement;
- that the GF(2^8) kernels never write past a region whose length is a multiple of 16.

## The system and its parts

- **WBTransmitter** (`WBTransmitter.cpp`)
  - Takes packets from the application (`feedPacket`) and runs them through a FEC encoder: fixed k, variable k closed by an H.264/H.265 end-of-frame hint, or FEC disabled.
  - Seals every fragment with ChaCha20-Poly1305 under the current session key. The nonce is `block_idx << 8 | fragment_idx`.
  - Injects the result over pcap.
  - Announces the session key:
    - 5 times on construction;
    - then once per interval while packets flow;
    - and once after a rekey when the encoder's block index overflows (`resetOnOverflow`).
- **Encryptor / Decryptor** (`Encryption.hpp`)
  - Both use libsodium.
  - `onNewPacketWfbKey` installs an announced key when it differs from the installed one, and reports a new session.
  - `decryptPacket` authenticates a data frame under the installed key.
- **WBTxRx** (`WBTxRx.h`)
  - The receiving side. It polls several RX cards and dispatches session-key frames to the Decryptor and data frames to decryption and the FEC decoder.
  - Only its declarations are in `src/`. Its behaviour is modelled from the spec.
- **SocketHelper** (`HelperSources/SocketHelper.hpp`)
  - `UDPForwarder` is one send socket per IP::port.
  - `UDPMultiForwarder` is a list of them behind a mutex.
  - `UDPReceiver` is a socket plus a thread (`loopUntilError`) that hands every datagram to a callback. An owner starts it with `runInBackground` and stops it with `stopBackground`, which calls `stopLooping` (flag, `shutdown`, `close`) and then `join`.
- **gf256_ssse3.h**: the SIMD GF(2^8) kernels of the FEC code.
- **Key.hpp**: a key-pair type.

How the parts interact:
- The transmitter and the receiver meet only through the air.
- The UDP helpers feed the transmitter from, and deliver the receiver's output to, local applications.

## Modules

| Module | Models |
|---|---|
| `WBTransmitter` | The TX process. Its state is the encoder configuration, the current key, whether an announcement is due, the encoder position (block, fragment, or the FEC-disabled nonce) and `air`, the sequence of every frame injected. |
| `WBLink` | `WBTransmitter` plus the receive side: per-card read positions into `air`, the installed key `rxKey`, the count of new-session callbacks, and the authenticated frames. |
| `WBLinkProofs` | The TLAPS proofs about `WBLink`. |
| `UDPMultiForwarder` | The forwarder list, per-endpoint send counts and an `aborted` flag. |
| `ForwarderSet` | The abstract forwarding set that `UDPMultiForwarder`'s comments describe: subscribe, unsubscribe, and a forward that sends each packet at most once to each member. |
| `UDPMultiForwarderProofs` | The TLAPS proofs about `UDPMultiForwarder`. |
| `GF256Region` | One call of `maddrc256_shuffle_ssse3`, `mulrc256_shuffle_ssse3` or `mulrc256_shuffle_sse3_x` on a buffer of bytes. |
| `UDPReceiver` | The two threads of a `UDPReceiver` and what the descriptor number `mSocket` refers to. |
| `ReceiverLifecycle` | The contract `UDPReceiver`'s comments state: start, stop, and a callback that runs only while the receiver runs or is stopping, never after `stopBackground` returned. |
| `UDPReceiverProofs` | The TLAPS proofs about `UDPReceiver`. |
| `WBLinkSessionProofs` | The TLAPS proof of the new-session bound for one card. |
| `SessionLink` | The abstract session layer that the spec (sections 4.3 and 4.4) promises the FEC decoder: keys made by the TX, packets it sealed, the installed key, the new sessions signalled and the packets handed on. |
| `WBLinkRefinementProofs` | The TLAPS proof that `WBLink` implements `SessionLink` with one card. |
| `GF256RegionProofs` | The TLAPS proof that the GF(2^8) kernels write nothing past the region. |
| `MCWBLink`, `MCUDPMultiForwarder`, `MCUDPReceiver`, `MCGF256Region` | The small instances for TLC. |

### WBTransmitter

Keys are the naturals 1, 2, ...: `makeNewSessionKey` draws 32 random bytes. A frame is a record of its kind, key and nonce.

Actions:
- `TxInit`: the constructor, with its 5 announcements.
- `Tick`: the announcement interval passes.
- `FeedFecDisabled`: `feedPacket` with FEC disabled.
- `FeedPrimary`: `feedPacket` buffering a primary fragment.
- `FeedBlock`: `feedPacket` closing a block. It emits k primaries and ceil(k·p/100) secondaries. At the last block index it wraps, makes a new key and announces it, as in the code's `resetOnOverflow` branch.
- `TxRestart`: the process is rebuilt with a new key.

The encoder itself (`FECEncoder`, not in `src/`) is taken from the spec. Its parts are:
- `BlockEnds`: when a block closes;
- `Parity`: how many secondaries are computed;
- `NextNonce`: the nonce scheme.

### WBLink

Every card sees the same air in order and may miss any frame (`RxLose`). The receive thread drains the cards in any interleaving, so the same frame can arrive once per card at different times.

Receive actions:
- `RxSessionKey`: `onNewPacketWfbKey`, which installs a key iff it differs from `rxKey`.
- `RxData`: `decryptPacket`, which succeeds iff the frame's key is `rxKey`.

`ImplementsSessionLink` states that the link implements `SessionLink` under this mapping (`Session` in `WBLink`):
- `keysMade <- txKey`;
- `sealed <- SealedPackets`, the (key, nonce) pairs of the data frames on the air;
- `installed <- rxKey` and `sessions <- newSessions`;
- `delivered <- PacketsOf(rxValid)`, the (key, nonce) pairs handed on.

The abstract actions are:
- `Seal`: the TX seals packets under its current key and may make one new key in the same step.
- `NewSession`: the receiver moves to a key made after the one it holds.
- `Deliver`: a sealed packet of the installed key, with a nonce beyond every packet of that key handed on before, is handed on.

### UDPMultiForwarder

Each method holds `udpForwardersLock` for its whole body, so each is one step.
- `AddForwarder`: the duplicate check, and a `socket()` failure that throws before anything is appended.
- `RemoveForwarder`: `erase(find_if(...))`. For an absent tuple that is `erase(end())`, which is undefined behaviour, modelled as the process aborting.
- `ForwardPacketViaUDP`: one `sendto` per list entry, any of which may fail.

`ImplementsForwarderSet` states the refinement: with `targets <- Listed` (the tuples in the list), every step is a `ForwarderSet` step or a stutter. `removeForwarder` must erase exactly the matching entry. Erasing the tail as well (mutant `EraseToEnd`) removes other subscribers.

### GF256Region

One behaviour is one call. Its steps are:
- the early path for the constants 0 and 1: nothing for `maddrc`, `xorr_sse2` for `maddrc` with c = 1, `memset` for `mulrc` with c = 0;
- for `mulrc_x`, the `memcpy`;
- one step per iteration of the `for (end = region + length; region < end; region += 16)` loop.

Each iteration computes its chunk byte by byte as the intrinsics do:
- the 0x0f and 0xf0 masks;
- `_mm_srli_epi64` within 64-bit lanes, so without the mask a neighbour's nibble would enter;
- `pshufb`, which yields 0 for a byte with bit 7 set and otherwise the table entry at the low nibble;
- the XORs.

The nibble tables `tl`/`th` (in `gf256tables285.h`, not in `src/`) are the products of the constant with every low and every high nibble. `GFMul` is the reference shift-and-add product modulo 0x11d.

The byte operations XOR and AND are the constant operators `BitXor` and `BitAnd`. `MCGF256Region` binds them to `^^` and `&` of `Bitwise`. `GF256Region` itself therefore reaches no `Bitwise`, and the proofs about it hold for any byte operations.

### UDPReceiver

Every statement that touches shared state is one step:
- the `while (receiving)` test;
- `recv`;
- the callback;
- each of flag, `shutdown`, `close`, `join` and reset in `stopBackground`.

The model follows the facts of the system calls:
- `fd` is `"ours"`, `"none"` after `close`, or `"other"` once another thread of the process has been given the same number (`ReuseFd`).
- A `recv` already blocked holds its socket: `close` does not wake it, `shutdown` does.
- The receive buffer is bounded and drops datagrams on overflow.

## Runs

| Run | cfg | Result | What it shows |
|---|---|---|---|
| link_one_card | `MCWBLink_one_card.cfg` | pass | Under all three FEC modes, with restarts and an encoder wrap: (a) `TypeOK`; (b) `MonotoneNoncesPerKey`, which says no (key, nonce) pair is sealed twice; (c) `SessionCallbacksBounded`, which says the new-session callbacks fire at most once per key the TX made |
| link_session_layer | `MCWBLink_session.cfg` | pass | `ImplementsSessionLink`: on the one-card instance of `link_one_card`, every step is a `Seal`, `NewSession` or `Deliver` step of `SessionLink`, or a stutter. So keys move only forward, and packets are handed on only under the installed key, in nonce order, never twice. With two cards the same property fails. |
| link_two_cards_rollback | `MCWBLink_two_cards.cfg` | violation | With two cards, a stale announcement of the old key from the slower card re-installs it after a rekey or restart. The receiver flips back to a dead session and resets its FEC decoder again. |
| forwarder | `MCUDPMultiForwarder.cfg` | pass | `AtMostOnceDelivery`: across any sequence of add, remove and forward, no endpoint gets more copies than packets were forwarded. |
| forwarder_remove_absent | `MCUDPMultiForwarder_remove_absent.cfg` | violation | Removing an unregistered tuple reaches `erase(end())`, although the comment promises "Do nothing". |
| receiver_join | `MCUDPReceiver.cfg` | pass | `NoCallbackAfterStop`: even with descriptor reuse, `mCb` never runs after `stopBackground` returned. |
| receiver_stop | `MCUDPReceiver_stop.cfg` | pass | Without descriptor reuse: (a) `StopReturns`, which says `stopBackground` always returns; (b) `ImplementsReceiverLifecycle`, which says every step maps to a lifecycle step or a stutter, under `phase <- LifecyclePhase` and `inCb <- rxPc = "cb"`. The refinement is checked here without descriptor reuse. `LifecycleRefinement` proves it for both values of `FdReuse`. |
| receiver_fd_reuse | `MCUDPReceiver_fd_reuse.cfg` | violation | If the number is reused between `close` and the thread's next `recv`, `mCb` receives another socket's datagram. |
| receiver_restart | `MCUDPReceiver_restart.cfg` | violation | `RestartReceives`: `runInBackground` after `stopBackground` starts a thread that leaves `loopUntilError` at once, because nothing resets `receiving` (and `mSocket` stays closed). |
| gf_kernels | `MCGF256Region.cfg` | pass | For lengths 0, 16 and 32, all three kernels and constants 0, 1, 2, 83, 142 and 255: `RegionResult` (the region holds the field result) and `NoWritePastLength`. |
| gf_odd_length | `MCGF256Region_odd_length.cfg` | violation | For length 20, the loop stores a whole second chunk and overwrites bytes 20..31. |
| receiver_fd_reuse_hang | `MCUDPReceiver_fd_reuse_hang.cfg` | violation | In the same window, `recv` blocks on the foreign socket and `join` never returns. |

Two cfgs disable deadlock checking:
- Both forwarder cfgs set `CHECK_DEADLOCK FALSE`, because after the abort the process has stopped.
- Both GF cfgs set `CHECK_DEADLOCK FALSE`, because a behaviour is one call and the call returns.
- The receiver runs keep the deadlock check.

Each property of a passing run has a mutant in `PROJECT.json` that breaks it, and each mutant is a plausible coding error:
- a late block end;
- no rekey on wrap;
- no key comparison;
- no duplicate check;
- a skipped `shutdown`;
- a skipped `join`;
- an inclusive loop test (`region <= end`);
- no 0xf0 mask before the lane shift;
- `erase` to the end of the list;
- no tag check in `decryptPacket`;
- `receiverThread` not reset when `stopBackground` returns.

### Bounds

| Module | Bound | Why it is enough |
|---|---|---|
| `MCWBLink` | 2 keys | One restart or one rekey. |
| `MCWBLink` | block indices 0..1 | The encoder wraps after two blocks. |
| `MCWBLink` | k = 2 at 50% parity | A block of 1 or 2 primaries plus one secondary. |
| `MCWBLink` | 3 FEC-disabled packets | |
| `MCUDPMultiForwarder` | 2 endpoints | Symmetric. |
| `MCUDPMultiForwarder` | 4 packets | A tuple can be added, re-added, removed and added again between forwards. |
| `MCUDPReceiver` | a buffer of 3 datagrams | One datagram in the callback while others queue and overflow. |
| `MCGF256Region` | 48-byte buffers, lengths 0/16/32 (and 20) | Zero, one and two loop iterations, and a tail. Six constants cover 0, 1 and the table path, including constants whose products need the reduction. Each chunk has 16 source bytes with both nibbles varied and bytes with bit 7 set. |

Every interleaving that breaks the properties needs at most one wrap or restart and two cards, so these bounds reach it.

### Fairness

`UDPReceiver` assumes weak fairness in two places:
- **On the receive thread.** It is a running OS thread: if it can step, it eventually does.
- **On the steps of `stopBackground` after it has begun.** The owner is inside a call that runs to its end.

Nothing is assumed of the environment:
- datagram arrival;
- descriptor reuse;
- whether the owner ever calls stop.

The link and forwarder runs check only safety.

## Proofs

### `WBLinkProofs`

| Theorem | Statement |
|---|---|
| `TypeCorrect` | `Spec => []TypeOK` |
| `NonceSafety` | `Spec => []MonotoneNoncesPerKey` |

Both hold for every value of the constants that satisfies their `ASSUME`s:
- `FecK` in 1..128;
- `FecPercentage` in 0..100;
- `MaxKeys > 0`;
- and so on.

`MonotoneNoncesPerKey` is not inductive by itself: a step appends frames, and nothing in it relates the new frames to the old ones. The proof therefore uses the strengthening

    IInv == TypeOK /\ MonotoneNoncesPerKey
            /\ Below(air, txKey, NextNonce)   \* every data frame so far precedes (current key, next nonce)
            /\ KeyBound(air, txKey)           \* no frame names a future key

Theorem `SpecIInv` proves `Spec => []IInv` in three steps:
1. `InitIInv`: `IInv` holds initially.
2. `NextIInv`: `IInv` is preserved, with one lemma per action.
   - `Below` is what makes appending safe. The new frames are all `From` the current nonce, and each action raises `NextNonce` past them, or moves to a larger key (`BelowRaise`).
   - Lemmas about concatenation (`ConcatNoncesIncrease`, `ConcatBelow`) and about the appended blocks (`BlockFacts`, `AnnouncementsFacts`) carry the argument.
   - Receive steps leave the TX state unchanged.
3. Temporal induction (PTL) combines 1 and 2.

### `UDPMultiForwarderProofs`

| Theorem | Statement |
|---|---|
| `ForwarderInvariant` | `FwdSpec => []FwdInv` |
| `AtMostOnce` | `FwdSpec => []AtMostOnceDelivery` |
| `Refinement` | `FwdSpec => ImplementsForwarderSet` |

These hold for all `Endpoints` and `MaxPackets`. `AtMostOnceDelivery` is not inductive by itself: a forward adds one send per list entry, so it needs each tuple to occur at most once in the list. The proofs use

    FwdInv == FwdTypeOK /\ NoDup(forwarders) /\ AtMostOnceDelivery

Lemmas carry the argument:
- `AppendNoDup`: the duplicate check in `addForwarder` keeps `NoDup`.
- `EraseNoDup`: erasing keeps `NoDup` and removes exactly one tuple from `Listed`.
- `OccurrencesNoDup`: a duplicate-free list sends each tuple 0 or 1 copies.

The refinement proof maps `Init` to `SetInit`, and each action to `Subscribe`, `Unsubscribe`, `Forward` or a stutter (`InitRefines`, `NextRefines`).

### `UDPReceiverProofs`

| Theorem | Statement |
|---|---|
| `NoCallbackAfterStopHolds` | `RecvSpec => []NoCallbackAfterStop` |
| `LifecycleRefinement` | `RecvSpec => ImplementsReceiverLifecycle` |

These hold for every `MaxQueue`, with or without descriptor reuse: the proofs use no assumption on `FdReuse`. `NoCallbackAfterStop` is not inductive by itself, because it says nothing about where the thread is. The strengthening `RecvIInv` adds `ThreadInv`:
- with no thread object, `rxPc = "none"`;
- a stopped receiver has no thread object;
- at the reset step of `stopBackground`, a thread object means `loopUntilError` has returned.

The third conjunct is exactly what the `join` establishes. Lemmas:
- `ReceiverStep`: every step of the receive thread happens while a thread object exists and no stop is at its reset.
- `NextRefinesLifecycle`: proves the refinement step by step, for example `StopReset` maps to `FinishStop` and the callback entry maps to `EnterCb`.

### `WBLinkSessionProofs`

| Theorem | Statement |
|---|---|
| `SessionCallbacksOneCard` | `ASSUME NEW c0, Cards = {c0} PROVE Spec => []SessionCallbacksBounded` |

The single-card hypothesis is necessary: with two cards the bound fails (run `link_two_cards_rollback`). The proof strengthens `IInv` with four facts:

    SessInv == IInv /\ KeysOrdered(air) /\ \A c \in Cards : Ahead(air, pos[c], rxKey)
               /\ rxKey <= txKey /\ newSessions <= rxKey

In words:
- the TX only sends under its current key, which only grows, so the air is ordered by key;
- the card has not yet passed on any frame keyed below the installed key;
- so every key that `onNewPacketWfbKey` finds different is larger, and each new session raises `rxKey` by at least one.

`AppendKeys` carries the TX steps: appending frames of one key at least the current one keeps the order. `RxSess` carries the receive steps.

### `WBLinkRefinementProofs`

| Theorem | Statement |
|---|---|
| `SessionRefinementOneCard` | `ASSUME NEW c0, Cards = {c0} PROVE Spec => ImplementsSessionLink` |

The proof is the standard one for a refinement:
- `InitRefines` maps `Init` to `SessInit`. The startup announcements seal no data, so `SealedPackets = {}`.
- `NextRefines` maps every step under the invariant `RefInv` to a step of `SessionLink` or a stutter.
- `PTL` combines the two with `Spec => []RefInv`.

The invariant is `RefInv == SessInv /\ DeliveredFrom`. `DeliveredFrom` says that every packet handed on is a data frame of the air that some card has already passed on.

The steps map as follows:
- **TX steps** map to `Seal`.
  - `TxExtends` shows that each TX action keeps the air as a prefix and appends only data sealed under the current `txKey`. A rekey or restart appends only the announcement of the new key.
  - `SealStep` turns this into `sealed \subseteq sealed'`, with every new packet keyed `keysMade`.
- **A session-key frame** that differs from `rxKey` maps to `NewSession`. `SessInv` puts its key strictly between `rxKey` and `txKey`.
- **An authenticated data frame** maps to `Deliver`. Its key is `rxKey`. With one card, every earlier packet of that key came from an earlier position of the same card (`DeliveredFrom`), so `MonotoneNoncesPerKey` gives it a smaller nonce. `PacketsOfAppend` relates the appended pair to the mapping.
- **Lost frames, repeated announcements and frames that fail authentication** are stutters.

The single-card hypothesis is again necessary. With two cards, TLC finds `ImplementsSessionLink` violated: a stale announcement rolls the key back, and one frame is delivered once per card. TLC checked `RefInv` as an invariant on the one-card instance (1,230,804 states) before it was proved.

TLC checked `RecvIInv` on both `FdReuse` values and `SessInv` on the one-card instance, as invariants, before they were proved.

### `GF256RegionProofs`

| Theorem | Statement |
|---|---|
| `NoWritePastLengthHolds` | `ASSUME \A l \in Lengths : l % Chunk = 0 PROVE GFSpec => []NoWritePastLength` |

The hypothesis is the one the FEC code meets: it passes whole 16-byte chunks. It is necessary, because run `gf_odd_length` overwrites bytes 20..31 for a length of 20. `NoWritePastLength` alone is not inductive: it says nothing about where the loop will store next. The strengthening `GFInv` adds that `ptr` is a multiple of 16 and at most `length`. Then while `ptr < length`, the stored chunk `ptr..ptr+15` ends at or before `length`.

Lemmas:
- `PrefixUpdate` carries the early paths (`xorr_sse2`, `memset`, `memcpy`), which change only bytes below `length`.
- `StoreChunk` carries one loop iteration.

TLC checked `GFInv` as an invariant of run gf_kernels before it was proved.

### What is only model-checked, and why

- **Liveness** (`StopReturns`): liveness and `ENABLED` are beyond TLAPS.
- **`OnlyOwnDatagrams` and `RestartReceives`**: their runs are violations, so there is nothing to prove.
- **`RegionResult`** (the kernels compute the field product): `GFMul` is computed by iteration over the bits of a byte, and the byte operations come from `Bitwise`. Both are beyond the provers: no induction over data, and no `Bitwise` in a proved module. TLC evaluates the result on every byte of the chunks above.
- **The violation runs**: counterexamples need no proof.

## Not modelled

- **The cryptography.** Keys are distinct naturals, and forgery is not considered.
- **The FEC encoder and decoder.** They are not in `src/`. The GF(2^8) kernels under `src/` are modelled. The tables and `xorr_sse2` are taken from the spec.
- **Alignment.** `_mm_load_si128` needs 16-byte aligned regions. The model has no addresses, so alignment is listed as a hazard only.
- **Radiotap and IEEE 802.11 header contents, statistics and logging.** None of them affects control.
- **Concurrent `feedPacket`/`update_mcs_index` callers.** Not a hazard of this code. `update_mcs_index` replaces `mRadiotapHeader` under `radiotapHeaderMutex`, and `sendPacket` reads it under the same mutex. The 802.11 header and `ieee80211_seq` are written only by the one thread that calls `feedPacket`.
- **A wrap of the FEC-disabled nonce.** `fdNonce` is bounded by `MaxNonce` and never wraps: the 64-bit counter of `FECDisabledEncoder` would need 2^64 packets.
- **`Key.hpp`.** It is data only.

## Plan for later sittings

1. A FEC decoder model: block reassembly out of order across cards, and the reset on a new session.
2. A model of a second `stopBackground` closing a reused descriptor (the hazard at `SocketHelper.hpp:276`).
