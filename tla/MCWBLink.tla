------------------------------ MODULE MCWBLink ------------------------------
(* Small instances of WBLink for TLC. *)
EXTENDS WBLink

\* Two session keys: one restart or one rekey on overflow.
MCMaxKeys == 2
\* Blocks 0 and 1 before the encoder wraps.
MCMaxBlockIdx == 1
\* Blocks of at most two primaries.
MCFecK == 2
\* 50%: one secondary per block of one or two primaries.
MCFecPercentage == 50
\* Three packets in FEC-disabled mode.
MCMaxNonce == 3
=============================================================================
