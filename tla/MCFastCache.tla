---------------------------- MODULE MCFastCache ----------------------------
(* FastCache for TLC: four plaintext paths over a capacity of three, so    *)
(* that a full cache must evict, and two ciphertext paths so that an       *)
(* overwriting Store changes the mapping.                                  *)
EXTENDS FastCache

CONSTANTS p1, p2, p3, p4, x1, x2

MCPPaths == {p1, p2, p3, p4}
MCCPaths == {x1, x2}
\* spec scenario S1 uses capacity 3; the code's 16 behaves the same way
MCCacheSize == 3
=============================================================================
