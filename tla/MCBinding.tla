----------------------------- MODULE MCBinding -----------------------------
(* A scaled instance: fields of 4 bits, u32 of 8, u64 of 16 and words of 2  *)
(* bytes.  145 * 226 words wrap around u64 to a span of 4 bytes, and a      *)
(* stride of 128 words to one of 0 bytes in u32.                            *)
EXTENDS StrelaBinding

MCOffsets == 0..8 \cup {127, 255}
MCCounts == 0..8 \cup {128, 145, 226, 255}
MCStrides == 0..8 \cup {128, 145, 226, 255}
MCObjSizes == {0, 2, 4, 6, 8, 12, 14, 16, 18, 30, 512}
=============================================================================
