-------------------------- MODULE GF256RegionProofs --------------------------
(***************************************************************************)
(* Proofs about the GF(2^8) region kernels for every buffer size, every    *)
(* set of multipliers and any byte operations BitXor and BitAnd.           *)
(***************************************************************************)
EXTENDS GF256Region, TLAPS

(***************************************************************************)
(* The strengthening: the loop offset is a whole number of chunks and      *)
(* never passes length, so the chunk the loop stores next lies inside the  *)
(* region when the region is a whole number of chunks.                     *)
(***************************************************************************)
GFInv ==
  /\ call \in Calls
  /\ length \in Lengths
  /\ DOMAIN mem = 0..(BufLen - 1)
  /\ ptr \in Nat
  /\ ptr % Chunk = 0
  /\ ptr <= length
  /\ NoWritePastLength
-----------------------------------------------------------------------------
\* The facts about the constants the proofs use.
LEMMA LengthFacts ==
  ASSUME \A l \in Lengths : l % Chunk = 0
  PROVE  /\ BufLen \in Nat
         /\ \A l \in Lengths : l \in 0..BufLen /\ l % Chunk = 0
BY GFAssumption

\* A step that changes only bytes before length keeps the invariant.
LEMMA PrefixUpdate ==
  ASSUME GFInv, DOMAIN mem' = DOMAIN mem,
         \A i \in DOMAIN mem : ~(i < length) => mem'[i] = mem[i],
         UNCHANGED <<call, length, ptr>>
  PROVE  GFInv'
<1>1. length \in Nat
  BY GFAssumption DEF GFInv
<1>2. NoWritePastLength'
  BY <1>1 DEF GFInv, NoWritePastLength
<1> QED
  BY <1>2 DEF GFInv

\* The store of the loop writes the chunk at ptr and nothing else.
LEMMA StoreChunk ==
  ASSUME GFInv, \A l \in Lengths : l % Chunk = 0, ptr < length, NEW v,
         mem' = Store(ptr, v), ptr' = ptr + Chunk, UNCHANGED <<call, length>>
  PROVE  GFInv'
<1>1. length \in Nat /\ length % Chunk = 0 /\ ptr \in Nat /\ ptr % Chunk = 0
  BY LengthFacts DEF GFInv
<1>2. ptr + Chunk <= length
  BY <1>1, ptr < length DEF Chunk
<1>3. DOMAIN mem' = 0..(BufLen - 1)
  BY DEF GFInv, Store
<1>4. ASSUME NEW i \in length..(BufLen - 1) PROVE mem'[i] = Dst(i)
  <2>1. i \in DOMAIN mem /\ ~(i >= ptr /\ i < ptr + Chunk)
    BY <1>1, <1>2 DEF GFInv
  <2>2. mem'[i] = mem[i]
    BY <2>1 DEF Store
  <2> QED
    BY <2>2 DEF GFInv, NoWritePastLength
<1>5. (ptr + Chunk) % Chunk = 0
  BY <1>1 DEF Chunk
<1>6. ptr' \in Nat /\ ptr' % Chunk = 0 /\ ptr' <= length'
  BY <1>1, <1>2, <1>5 DEF Chunk
<1>7. NoWritePastLength'
  BY <1>4 DEF NoWritePastLength
<1> QED
  BY <1>3, <1>6, <1>7 DEF GFInv
-----------------------------------------------------------------------------
LEMMA InitGFInv == GFInit => GFInv
<1> SUFFICES ASSUME GFInit PROVE GFInv
  OBVIOUS
<1>1. ptr = 0 /\ length \in Lengths /\ call \in Calls
  BY DEF GFInit
<1>2. length \in Nat
  BY <1>1, GFAssumption
<1> QED
  BY <1>1, <1>2 DEF GFInit, GFInv, NoWritePastLength, Chunk

LEMMA NextGFInv ==
  ASSUME \A l \in Lengths : l % Chunk = 0
  PROVE  GFInv /\ [GFNext]_vars => GFInv'
<1> SUFFICES ASSUME GFInv, [GFNext]_vars PROVE GFInv'
  OBVIOUS
<1>1. CASE MaddrcStart
  <2>1. CASE constant = 1
    <3>1. mem' = [i \in DOMAIN mem |-> IF i < length THEN BitXor(mem[i], Src(i)) ELSE mem[i]]
          /\ UNCHANGED <<call, length, ptr>>
      BY <1>1, <2>1 DEF MaddrcStart
    <3> QED
      BY <3>1, PrefixUpdate DEF GFInv
  <2>2. CASE constant # 1
    <3>1. UNCHANGED <<call, length, ptr, mem>>
      BY <1>1, <2>2 DEF MaddrcStart
    <3> QED
      BY <3>1 DEF GFInv, NoWritePastLength
  <2> QED
    BY <2>1, <2>2
<1>2. CASE MulrcX
  <2>1. mem' = [i \in DOMAIN mem |-> IF i < length THEN Src(i) ELSE mem[i]]
        /\ UNCHANGED <<call, length, ptr>>
    BY <1>2 DEF MulrcX
  <2> QED
    BY <2>1, PrefixUpdate DEF GFInv
<1>3. CASE MulrcStart
  <2>1. CASE constant = 0
    <3>1. mem' = [i \in DOMAIN mem |-> IF i < length THEN 0 ELSE mem[i]]
          /\ UNCHANGED <<call, length, ptr>>
      BY <1>3, <2>1 DEF MulrcStart
    <3> QED
      BY <3>1, PrefixUpdate DEF GFInv
  <2>2. CASE constant # 0
    <3>1. UNCHANGED <<call, length, ptr, mem>>
      BY <1>3, <2>2 DEF MulrcStart
    <3> QED
      BY <3>1 DEF GFInv, NoWritePastLength
  <2> QED
    BY <2>1, <2>2
<1>4. CASE LoopIteration
  <2>1. CASE LoopTest
    <3> DEFINE in2  == Load(IF call = "madd" THEN SrcRegion ELSE mem, ptr)
               prod == ShuffleMul(constant, in2)
    <3>1. /\ mem' = Store(ptr, IF call = "madd" THEN XorEpi8(prod, Load(mem, ptr)) ELSE prod)
          /\ ptr' = ptr + Chunk /\ UNCHANGED <<call, length>>
      BY <1>4, <2>1 DEF LoopIteration
    <3> QED
      BY <2>1, <3>1, StoreChunk DEF LoopTest
  <2>2. CASE ~LoopTest
    <3>1. UNCHANGED <<call, length, ptr, mem>>
      BY <1>4, <2>2 DEF LoopIteration
    <3> QED
      BY <3>1 DEF GFInv, NoWritePastLength
  <2> QED
    BY <2>1, <2>2
<1>5. CASE UNCHANGED vars
  BY <1>5 DEF vars, GFInv, NoWritePastLength
<1> QED
  BY <1>1, <1>2, <1>3, <1>4, <1>5 DEF GFNext

(***************************************************************************)
(* For every buffer size and every multiplier, a kernel called on a region *)
(* that is a whole number of 16-byte chunks (as the Reed-Solomon code      *)
(* passes) never writes a byte past the region: the loop stores chunk      *)
(* after chunk while region < end, and with both a multiple of 16 the last *)
(* chunk ends exactly at end.  The hypothesis is needed: run gf_odd_length *)
(* shows the overwrite for a length of 20.                                 *)
(***************************************************************************)
THEOREM NoWritePastLengthHolds ==
  ASSUME \A l \in Lengths : l % Chunk = 0
  PROVE  GFSpec => []NoWritePastLength
<1>1. GFInit => GFInv
  BY InitGFInv
<1>2. GFInv /\ [GFNext]_vars => GFInv'
  BY NextGFInv
<1>3. GFInv => NoWritePastLength
  BY DEF GFInv
<1> QED
  BY <1>1, <1>2, <1>3, PTL DEF GFSpec
=============================================================================
