------------------------------- MODULE Bytes -------------------------------
(***************************************************************************)
(* The fixed-width unsigned integers the emulator computes with: uint8_t   *)
(* and uint16_t values, the bit set of a byte (which is also how the union *)
(* of the STATUS register views it) and the little-endian word.            *)
(***************************************************************************)
EXTENDS Integers

UINT8_MAX  == \hFF
UINT16_MAX == \hFFFF

Byte == 0 .. UINT8_MAX
Word == 0 .. UINT16_MAX

U8(n)  == n % \h100
U16(n) == n % \h10000

(***************************************************************************)
(* Masks for the STATUS register.                                          *)
(***************************************************************************)
kMaskSign      == \h80
kMaskOverflow  == \h40
kMaskConstant  == \h20
kMaskBreak     == \h10
kMaskDecimal   == \h08
kMaskInterrupt == \h04
kMaskZero      == \h02
kMaskCarry     == \h01

Masks == {\h01, \h02, \h04, \h08, \h10, \h20, \h40, \h80}

(***************************************************************************)
(* A byte as the set of its bits, and back.                                *)
(***************************************************************************)
HasBit(v, m) == (v \div m) % 2 = 1
Bits(v)      == {m \in Masks : HasBit(v, m)}
Weight(S, m) == IF m \in S THEN m ELSE 0
FromBits(S)  == Weight(S, \h01) + Weight(S, \h02) + Weight(S, \h04) + Weight(S, \h08)
                + Weight(S, \h10) + Weight(S, \h20) + Weight(S, \h40) + Weight(S, \h80)

ByteAnd(a, b) == FromBits(Bits(a) \cap Bits(b))
ByteOr(a, b)  == FromBits(Bits(a) \cup Bits(b))
ByteXor(a, b) == FromBits((Bits(a) \ Bits(b)) \cup (Bits(b) \ Bits(a)))

Lo(w)           == w % \h100
Hi(w)           == (w \div \h100) % \h100
MkWord(lo, hi)  == lo + \h100 * hi

(* The byte read as a two's complement number, -128 .. 127. *)
Signed(v) == IF v > 127 THEN v - 256 ELSE v
=============================================================================
