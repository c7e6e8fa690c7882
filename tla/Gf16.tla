-------------------------------- MODULE Gf16 --------------------------------
(***************************************************************************)
(* The bitsliced GF(16) kernel of binius-mayo (gf16/). GF(16) is           *)
(* GF(2)[x]/(x^4 + x + 1). A 64-bit word is the set of its one bits, so    *)
(* the circuit's gates are set operations; an m-vector of 64 lanes is four *)
(* words, one per nibble bit ("planes") or one per 16 lanes ("packed").    *)
(* Lanes are nibbles 0..15, numbered 1..64 where they form a sequence.     *)
(***************************************************************************)
EXTENDS Integers, Sequences, SequencesExt, FiniteSets

Bits == 0 .. 63
Lanes == 1 .. 64

(* Gates of the circuit builder: bxor, bxor_multi, band, fax, shl, shr and *)
(* sar.                                                                    *)
bxor(a, b) == (a \ b) \cup (b \ a)
Shl(a, n) == {i + n : i \in a} \cap Bits
Shr(a, n) == {i - n : i \in a} \cap Bits
Sar(a, n) == Shr(a, n) \cup (IF 63 \in a THEN (63 - n) .. 63 ELSE {})

Bit(v, b) == (v \div 2^b) % 2
RepeatMask(period, width) == {i \in Bits : i % period < width}
Upto(n) == [k \in 1 .. n |-> k]
Zero == <<{}, {}, {}, {}>>

(***************************************************************************)
(* scalar.rs: the field by the book, and the two layouts of 64 lanes.      *)
(***************************************************************************)
GfAdd(a, b) ==
    LET differ(i) == IF Bit(a, i) # Bit(b, i) THEN 2^i ELSE 0
    IN differ(0) + differ(1) + differ(2) + differ(3)

(* Coefficient i of the carry-less product, then x^4 = x + 1. *)
GfMul(a, b) ==
    LET p(i) == Cardinality({j \in 0 .. 3 : /\ i - j \in 0 .. 3
                                            /\ Bit(a, j) = 1
                                            /\ Bit(b, i - j) = 1})
    IN   ((p(0) + p(4)) % 2)
       + 2 * ((p(1) + p(4) + p(5)) % 2)
       + 4 * ((p(2) + p(5) + p(6)) % 2)
       + 8 * ((p(3) + p(6)) % 2)

pack_word(lanes, w) ==
    {4 * k + b : <<k, b>> \in {kb \in (0 .. 15) \X (0 .. 3) :
                                  Bit(lanes[16 * w + kb[1] + 1], kb[2]) = 1}}

pack_lanes(lanes) == <<pack_word(lanes, 0), pack_word(lanes, 1),
                       pack_word(lanes, 2), pack_word(lanes, 3)>>

plane(lanes, b) == {i \in Bits : Bit(lanes[i + 1], b) = 1}

lanes_to_bitsliced(lanes) == <<plane(lanes, 0), plane(lanes, 1),
                               plane(lanes, 2), plane(lanes, 3)>>

(***************************************************************************)
(* gf16/mod.rs and gf16/mul.rs: addition and two-level Karatsuba.          *)
(***************************************************************************)
add(u, v) == <<bxor(u[1], v[1]), bxor(u[2], v[2]), bxor(u[3], v[3]), bxor(u[4], v[4])>>

mul2(a0, a1, b0, b1) ==
    LET y0 == a0 \cap b0
        y2 == a1 \cap b1
        y1 == bxor(bxor(a0, a1) \cap bxor(b0, b1), bxor(y0, y2))
    IN [y0 |-> y0, y1 |-> y1, y2 |-> y2]

mul_karatsuba(a, b) ==
    LET z0 == mul2(a[1], a[2], b[1], b[2])
        z2 == mul2(a[3], a[4], b[3], b[4])
        z1m == mul2(bxor(a[1], a[3]), bxor(a[2], a[4]),
                    bxor(b[1], b[3]), bxor(b[2], b[4]))
        p2 == bxor(bxor(z0.y2, z1m.y0), bxor(z2.y0, z0.y0))
        p3 == bxor(z1m.y1, bxor(z2.y1, z0.y1))
        p4 == bxor(bxor(z1m.y2, z2.y2), bxor(z0.y2, z2.y0))
    IN <<bxor(z0.y0, p4), bxor(z0.y1, bxor(p4, z2.y1)),
         bxor(p2, bxor(z2.y1, z2.y2)), bxor(p3, z2.y2)>>

(* Mask one bit of the nibble, move it to the sign and smear it. *)
broadcast_scalar(word) ==
    LET splat(b) == Sar(Shl(Shr(word, b) \cap {0}, 63), 63)
    IN <<splat(0), splat(1), splat(2), splat(3)>>

mul_into_acc(scalar, vec, acc) == add(acc, mul_karatsuba(scalar, vec))

(***************************************************************************)
(* gf16/transpose.rs: packed <-> bitsliced by shift, XOR and mask.         *)
(***************************************************************************)
Stage(x, moved, mask) == bxor(x, moved) \cap mask

compress_stride4_to_low16(x) ==
    LET r1 == Stage(x, Shr(x, 3), RepeatMask(8, 2))
        r2 == Stage(r1, Shr(r1, 6), RepeatMask(16, 4))
        r3 == Stage(r2, Shr(r2, 12), RepeatMask(32, 8))
    IN Stage(r3, Shr(r3, 24), RepeatMask(64, 16))

(* Fault: the third stage moves by a nibble. *)
expand_low16_nibble(x) ==
    LET r1 == Stage(x, Shl(x, 24), RepeatMask(32, 8))
        r2 == Stage(r1, Shl(r1, 12), RepeatMask(16, 4))
        r3 == Stage(r2, Shl(r2, 4), RepeatMask(8, 2))
    IN Stage(r3, Shl(r3, 3), RepeatMask(4, 1))

expand_low16_to_stride4(x) ==
    LET r1 == Stage(x, Shl(x, 24), RepeatMask(32, 8))
        r2 == Stage(r1, Shl(r1, 12), RepeatMask(16, 4))
        r3 == Stage(r2, Shl(r2, 6), RepeatMask(8, 2))
    IN Stage(r3, Shl(r3, 3), RepeatMask(4, 1))

Xor4(c) == bxor(bxor(c[1], c[2]), bxor(c[3], c[4]))

packed_to_bitsliced(packed) ==
    LET chunk(b, w) == Shl(compress_stride4_to_low16(
                               Shr(packed[w + 1], b) \cap RepeatMask(4, 1)), 16 * w)
        bits(b) == Xor4(<<chunk(b, 0), chunk(b, 1), chunk(b, 2), chunk(b, 3)>>)
    IN <<bits(0), bits(1), bits(2), bits(3)>>

bitsliced_to_packed(bv) ==
    LET contrib(w, b) == Shl(expand_low16_to_stride4(
                                 Shr(bv[b + 1], 16 * w) \cap RepeatMask(64, 16)), b)
        word(w) == Xor4(<<contrib(w, 0), contrib(w, 1), contrib(w, 2), contrib(w, 3)>>)
    IN <<word(0), word(1), word(2), word(3)>>
=============================================================================
