--------------------------- MODULE MCGF256Region ---------------------------
(***************************************************************************)
(* The GF(2^8) kernels on a 48-byte buffer: three chunks, so that a        *)
(* region of 0, 16 or 32 bytes has untouched bytes after it.  The          *)
(* multipliers cover both early paths (0, 1), a small one (2), ones with   *)
(* the top bit set (0x8e, 0xff) and one in between (0x53).                 *)
(***************************************************************************)
EXTENDS GF256Region, Bitwise

\* The byte operations are those of the Bitwise module.
MCBitXor(a, b) == a ^^ b
MCBitAnd(a, b) == a & b

MCConstants == {0, 1, 2, 83, 142, 255}

MCBufLen == 48

\* Region lengths the Reed-Solomon code passes: multiples of 16.
MCLengths == {0, 16, 32}

\* A region length that is not a multiple of 16.
MCOddLengths == {20}
=============================================================================
