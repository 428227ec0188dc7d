---------------------------- MODULE BytesProofs ----------------------------
(***************************************************************************)
(* Proofs about bytes and words: what the operators of module Bytes return *)
(* for every argument, and that taking a value apart and putting it        *)
(* together again gives it back.                                           *)
(***************************************************************************)
EXTENDS Bytes, TLAPS

(* A byte by its bounds. *)
LEMMA ByteBounds == \A n : n \in Byte <=> n \in Int /\ 0 <= n /\ n <= 255
<1>1. UINT8_MAX = 255
  BY SMT DEF UINT8_MAX
<1>2. \A n : n \in Byte <=> n \in Int /\ 0 <= n /\ n <= UINT8_MAX
  BY SMT, <1>1 DEF Byte
<1> QED
  BY <1>1, <1>2

(* A word by its bounds. *)
LEMMA WordBounds == \A n : n \in Word <=> n \in Int /\ 0 <= n /\ n <= 65535
<1>1. UINT16_MAX \in Int
  BY SMT DEF UINT16_MAX
<1>2. \A n : n \in Word <=> n \in Int /\ 0 <= n /\ n <= UINT16_MAX
  BY SMT, <1>1 DEF Word
<1> QED
  BY SMT, <1>2 DEF UINT16_MAX

(* A number taken modulo 2^8 is a byte. *)
LEMMA U8Type == \A n \in Int : U8(n) \in Byte
BY SMT, ByteBounds DEF U8

(* A number taken modulo 2^16 is a word. *)
LEMMA U16Type == \A n \in Int : U16(n) \in Word
BY SMT, WordBounds DEF U16

(* The set of bits of a value holds masks only. *)
LEMMA BitsType == \A v : Bits(v) \subseteq Masks
BY DEF Bits

(* Weights of bits add up to a byte. *)
LEMMA FromBitsType == \A S : FromBits(S) \in Byte
BY SMT, ByteBounds DEF FromBits, Weight

(* The halves of a word are bytes. *)
LEMMA HalvesType == \A w \in Word : Lo(w) \in Byte /\ Hi(w) \in Byte
BY SMT, WordBounds, ByteBounds DEF Lo, Hi

(* Two bytes make a word. *)
LEMMA MkWordType ==
  ASSUME NEW lo \in Byte, NEW hi \in Byte
  PROVE  MkWord(lo, hi) \in Word
<1>1. /\ lo \in Int /\ 0 <= lo /\ lo <= 255
      /\ hi \in Int /\ 0 <= hi /\ hi <= 255
  BY ByteBounds
<1>2. /\ MkWord(lo, hi) \in Int
      /\ 0 <= MkWord(lo, hi) /\ MkWord(lo, hi) <= 65535
  BY SMT, <1>1 DEF MkWord
<1> QED
  BY <1>2, WordBounds

(* Putting the halves of a word together gives the word back. *)
LEMMA HalvesMakeWord ==
  ASSUME NEW w \in Word
  PROVE  MkWord(Lo(w), Hi(w)) = w
<1>1. w \in Int /\ 0 <= w /\ w <= 65535
  BY WordBounds
<1>2. w \div 256 \in 0 .. 255
  BY SMT, <1>1
<1>3. Hi(w) = w \div 256
  BY SMT, <1>1, <1>2 DEF Hi
<1> QED
  BY SMT, <1>1, <1>3 DEF Lo, MkWord

(***************************************************************************)
(* Bits undoes FromBits.                                                   *)
(***************************************************************************)
LEMMA BitsFromBits ==
  ASSUME NEW S \in SUBSET Masks
  PROVE  Bits(FromBits(S)) = S
<1> DEFINE w(m) == Weight(S, m)
           n    == FromBits(S)
<1>1. \A m \in Masks : w(m) \in {0, m}
  BY DEF Weight
<1>2. n = w(1) + w(2) + w(4) + w(8) + w(16) + w(32) + w(64) + w(128)
  BY DEF FromBits
<1>3. \A m \in Masks : m \in S <=> w(m) = m
  BY DEF Weight, Masks
<1>4. /\ w(1) \in {0, 1} /\ w(2) \in {0, 2} /\ w(4) \in {0, 4} /\ w(8) \in {0, 8}
      /\ w(16) \in {0, 16} /\ w(32) \in {0, 32} /\ w(64) \in {0, 64} /\ w(128) \in {0, 128}
  BY <1>1 DEF Masks
<1> HIDE DEF w
<1>5. HasBit(n, 1) <=> w(1) = 1
  BY <1>2, <1>4 DEF HasBit
<1>6. HasBit(n, 2) <=> w(2) = 2
  BY <1>2, <1>4 DEF HasBit
<1>7. HasBit(n, 4) <=> w(4) = 4
  BY <1>2, <1>4 DEF HasBit
<1>8. HasBit(n, 8) <=> w(8) = 8
  BY <1>2, <1>4 DEF HasBit
<1>9. HasBit(n, 16) <=> w(16) = 16
  BY <1>2, <1>4 DEF HasBit
<1>10. HasBit(n, 32) <=> w(32) = 32
  BY <1>2, <1>4 DEF HasBit
<1>11. HasBit(n, 64) <=> w(64) = 64
  BY <1>2, <1>4 DEF HasBit
<1>12. HasBit(n, 128) <=> w(128) = 128
  BY <1>2, <1>4 DEF HasBit
<1>13. \A m \in Masks : HasBit(n, m) <=> m \in S
  BY <1>3, <1>5, <1>6, <1>7, <1>8, <1>9, <1>10, <1>11, <1>12 DEF Masks
<1> QED
  BY <1>13 DEF Bits
=============================================================================
