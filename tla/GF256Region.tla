---------------------------- MODULE GF256Region ----------------------------
(***************************************************************************)
(* The SSSE3 region kernels of libmoepgf (gf256_ssse3.h) that the Reed-    *)
(* Solomon code runs on every fragment:                                     *)
(*   maddrc256_shuffle_ssse3(r1, r2, c, len)   r1 ^= c * r2                 *)
(*   mulrc256_shuffle_ssse3(r, c, len)         r   = c * r                  *)
(*   mulrc256_shuffle_sse3_x(r1, r2, c, len)   r1  = c * r2                 *)
(* over GF(2^8) with the primitive polynomial 0x11d.                       *)
(*                                                                         *)
(* One call is one behaviour: the early paths for the constants 0 and 1,   *)
(* then one step per iteration of the loop over 16-byte __m128i chunks.   *)
(* Each iteration is modelled byte by byte as the intrinsics compute it:   *)
(* the nibble masks, the 64-bit-lane shift, the table lookup of pshufb and *)
(* the XORs.  The destination is a buffer of BufLen bytes; the source      *)
(* region and the destination's initial contents are fixed byte patterns.  *)
(***************************************************************************)
EXTENDS Naturals

CONSTANTS
  BitXor(_, _), \* the bitwise XOR of two bytes (^ of C, _mm_xor_si128 per byte)
  BitAnd(_, _), \* the bitwise AND of two bytes (& of C, _mm_and_si128 per byte)
  Constants,    \* the multipliers a run may pass
  Lengths,      \* the region lengths a run may pass
  BufLen        \* bytes allocated for each region

\* Bytes per __m128i.
Chunk == 16

ASSUME GFAssumption ==
  /\ Constants \subseteq 0..255
  /\ BufLen \in Nat /\ BufLen % Chunk = 0
  /\ Lengths \subseteq 0..BufLen

Calls == {"madd", "mul", "mulx"}

\* The source region (region2) and the destination's contents before the call.
Src(i) == (37 * i + 11) % 256
Dst(i) == (101 * i + 7) % 256

\* Multiplication by x modulo x^8 + x^4 + x^3 + x^2 + 1 (0x11d).
XTime(a) == IF a >= 128 THEN BitXor(2 * a - 256, 29) ELSE 2 * a

\* Reference product in GF(2^8): shift-and-add over the bits of b.
GFMul(a, b) ==
  LET acc[i \in 0..8] ==
        IF i = 0 THEN <<0, a>>
        ELSE <<IF (b \div 2^(i - 1)) % 2 = 1 THEN BitXor(acc[i - 1][1], acc[i - 1][2])
                                             ELSE acc[i - 1][1],
               XTime(acc[i - 1][2])>>
  IN  acc[8][1]

\* tl[c] and th[c]: c times every low nibble and every high nibble.
tl(c) == [n \in 0..15 |-> GFMul(c, n)]
th(c) == [n \in 0..15 |-> GFMul(c, 16 * n)]

\* _mm_shuffle_epi8: byte j is t[b_j & 0x0f], or 0 when b_j has bit 7 set.
ShuffleEpi8(t, v) == [j \in 0..15 |-> IF v[j] >= 128 THEN 0 ELSE t[BitAnd(v[j], 15)]]

\* _mm_and_si128 with a mask of equal bytes.
AndEpi8(v, m) == [j \in 0..15 |-> BitAnd(v[j], m)]

\* _mm_srli_epi64(v, 4): each 64-bit lane shifted right by 4 bits; the low
\* nibble of the next byte of the same lane moves into the high nibble.
SrliEpi64By4(v) ==
  [j \in 0..15 |-> v[j] \div 16 + IF j % 8 = 7 THEN 0 ELSE (v[j + 1] % 16) * 16]

XorEpi8(u, v) == [j \in 0..15 |-> BitXor(u[j], v[j])]

\* The product of one chunk: l = tl[c][in & 0x0f], h = th[c][(in & 0xf0) >> 4].
ShuffleMulNoHighMask(c, in) ==
  XorEpi8(ShuffleEpi8(th(c), SrliEpi64By4(in)), ShuffleEpi8(tl(c), AndEpi8(in, 15)))

ShuffleMul(c, in) ==
  XorEpi8(ShuffleEpi8(th(c), SrliEpi64By4(AndEpi8(in, 240))),
          ShuffleEpi8(tl(c), AndEpi8(in, 15)))

VARIABLES
  call,       \* which kernel was called
  constant,   \* its multiplier
  length,     \* its length argument
  mem,        \* the destination buffer region1[0 .. BufLen-1]
  ptr,        \* region1 - start: offset of the next chunk
  pc          \* "start", "mul" (mulrc entered from mulrc_x), "loop", "done"

vars == <<call, constant, length, mem, ptr, pc>>

GFTypeOK ==
  /\ call \in Calls
  /\ constant \in Constants
  /\ length \in Lengths
  /\ mem \in [0..(BufLen - 1) -> 0..255]
  /\ ptr \in 0..BufLen + Chunk
  /\ pc \in {"start", "mul", "loop", "done"}

GFInit ==
  /\ call \in Calls
  /\ constant \in Constants
  /\ length \in Lengths
  /\ mem = [i \in 0..(BufLen - 1) |-> Dst(i)]
  /\ ptr = 0
  /\ pc = "start"

\* The 16 bytes of the chunk at offset p of region f.
Load(f, p) == [j \in 0..15 |-> f[p + j]]

\* _mm_store_si128 of v at offset p.
Store(p, v) == [i \in DOMAIN mem |-> IF i >= p /\ i < p + Chunk THEN v[i - p] ELSE mem[i]]

SrcRegion == [i \in 0..(BufLen - 1) |-> Src(i)]

(***************************************************************************)
(* maddrc256_shuffle_ssse3 up to its loop: nothing to add for c = 0;       *)
(* xorr_sse2(region1, region2, length) for c = 1.                          *)
(***************************************************************************)
MaddrcStart ==
  /\ pc = "start" /\ call = "madd"
  /\ CASE constant = 0 -> pc' = "done" /\ UNCHANGED mem
       [] constant = 1 -> /\ pc' = "done"
                          /\ mem' = [i \in DOMAIN mem |->
                                       IF i < length THEN BitXor(mem[i], Src(i)) ELSE mem[i]]
       [] OTHER        -> pc' = "loop" /\ UNCHANGED mem
  /\ UNCHANGED <<call, constant, length, ptr>>

\* mulrc256_shuffle_sse3_x: memcpy(region1, region2, length), then mulrc.
MulrcX ==
  /\ pc = "start" /\ call = "mulx"
  /\ mem' = [i \in DOMAIN mem |-> IF i < length THEN Src(i) ELSE mem[i]]
  /\ pc' = "mul"
  /\ UNCHANGED <<call, constant, length, ptr>>

(***************************************************************************)
(* mulrc256_shuffle_ssse3 up to its loop: memset(region, 0, length) for    *)
(* c = 0; nothing for c = 1.                                               *)
(***************************************************************************)
MulrcStart ==
  /\ \/ pc = "start" /\ call = "mul"
     \/ pc = "mul"
  /\ CASE constant = 0 -> /\ pc' = "done"
                          /\ mem' = [i \in DOMAIN mem |-> IF i < length THEN 0 ELSE mem[i]]
       [] constant = 1 -> pc' = "done" /\ UNCHANGED mem
       [] OTHER        -> pc' = "loop" /\ UNCHANGED mem
  /\ UNCHANGED <<call, constant, length, ptr>>

\* Variant of the loop test with "region <= end".
LoopTestInclusive == ptr <= length

\* for (end = region + length; region < end; region += 16)
LoopTest == ptr < length

(***************************************************************************)
(* One iteration of the loop of either kernel: load the chunk, multiply    *)
(* it by the constant through the nibble tables, add region1's chunk for   *)
(* maddrc, store it, and advance by 16 bytes.  The loop ends when the      *)
(* offset reaches length.                                                  *)
(***************************************************************************)
LoopIteration ==
  /\ pc = "loop"
  /\ IF LoopTest
       THEN LET in2 == Load(IF call = "madd" THEN SrcRegion ELSE mem, ptr)
                prod == ShuffleMul(constant, in2)
            IN  /\ mem' = Store(ptr, IF call = "madd" THEN XorEpi8(prod, Load(mem, ptr))
                                                      ELSE prod)
                /\ ptr' = ptr + Chunk
                /\ UNCHANGED pc
       ELSE /\ pc' = "done"
            /\ UNCHANGED <<mem, ptr>>
  /\ UNCHANGED <<call, constant, length>>

GFNext == MaddrcStart \/ MulrcX \/ MulrcStart \/ LoopIteration

GFSpec == GFInit /\ [][GFNext]_vars

-----------------------------------------------------------------------------
\* What the call is to leave in byte i of region1 (i < length).
Expected(i) ==
  CASE call = "madd" -> BitXor(Dst(i), GFMul(constant, Src(i)))
    [] call = "mul"  -> GFMul(constant, Dst(i))
    [] call = "mulx" -> GFMul(constant, Src(i))

(***************************************************************************)
(* When a kernel returns, the first length bytes of region1 hold the       *)
(* GF(2^8) result the call promises: the split-nibble tables, the masking  *)
(* and lane shift of the high nibbles and the pshufb lookups compute the   *)
(* field product of every byte.                                            *)
(***************************************************************************)
RegionResult == pc = "done" => \A i \in 0..(length - 1) : mem[i] = Expected(i)

(***************************************************************************)
(* A kernel changes only the length bytes it was given: every byte of the  *)
(* buffer from offset length on keeps its contents.                        *)
(***************************************************************************)
NoWritePastLength == \A i \in length..(BufLen - 1) : mem[i] = Dst(i)
=============================================================================
