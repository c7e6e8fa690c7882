-------------------------------- MODULE Mayo --------------------------------
(***************************************************************************)
(* binius-mayo: the MAYO-2 verification circuit (verify.rs, quadratic.rs,  *)
(* whipping.rs, shake256.rs) evaluated on a witness, and the commitments   *)
(* and key expansion around it (api.rs).                                   *)
(*                                                                         *)
(* V, O and K are parameters; m-vectors keep their 64 lanes and f(z) is    *)
(* that of MAYO-2. AES, SHAKE and Keccak are not modelled: the first two   *)
(* are constants, a Keccak digest is 32 bytes that each carry their place  *)
(* and the preimage. Bytes are 0..255; a word that only passes through is  *)
(* its eight bytes, low byte first.                                        *)
(***************************************************************************)
EXTENDS Gf16

CONSTANTS
    V, O, K,      \* vinegar and oil dimension, number of signature blocks
    Payloads,     \* payloads a proof may be asked for
    Cpks,         \* compact public keys [seed, p3], p3 in packed bytes
    Sigs,         \* signatures [s, salt], K*N/2 and 24 bytes
    Aes(_, _),    \* AES-128 block of 16 bytes: key, counter
    Shake(_),     \* SHAKE-256 of a payload, 32 bytes
    Xof(_)        \* Keccak-f of a padded block of 136 bytes: 4 packed words

N == V + O
P1_ENTRIES == (V * (V + 1)) \div 2
P2_ENTRIES == V * O
P3_ENTRIES == (O * (O + 1)) \div 2
S_BYTES == (K * N) \div 2
M_VEC_BYTES == 32

ASSUME MayoAssumption ==
    /\ V \in Nat \ {0} /\ O \in Nat \ {0} /\ K \in Nat \ {0}
    /\ (K * N) % 2 = 0
    /\ \A sig \in Sigs : Len(sig.s) = S_BYTES /\ Len(sig.salt) = 24
    /\ \A cpk \in Cpks : Len(cpk.p3) = P3_ENTRIES * M_VEC_BYTES

AsSeq(f) == SubSeq(f, 1, Len(f))   \* f itself, as an explicit sequence

(* Bytes to nibbles, low half first. *)
Nibbles(bytes) ==
    AsSeq([n \in 1 .. 2 * Len(bytes) |->
              IF n % 2 = 1 THEN bytes[(n + 1) \div 2] % 16
              ELSE bytes[n \div 2] \div 16])

(* write_le_words *)
write_le_words(bytes) ==
    AsSeq([i \in 1 .. Len(bytes) \div 8 |-> SubSeq(bytes, 8 * i - 7, 8 * i)])

to_le_bytes(word) ==
    LET bit(i) == IF i \in word THEN 1 ELSE 0
    IN AsSeq([b \in 1 .. 8 |->
              LET o == 8 * (b - 1) IN
                bit(o) + 2 * bit(o + 1) + 4 * bit(o + 2) + 8 * bit(o + 3)
                + 16 * bit(o + 4) + 32 * bit(o + 5) + 64 * bit(o + 6)
                + 128 * bit(o + 7)])

Keccak(bytes) == [i \in 1 .. 32 |-> <<i, bytes>>]

(***************************************************************************)
(* Off-circuit commitments and key expansion (api.rs).                     *)
(***************************************************************************)
DOMAIN_TAG_C == <<1, 0, 0, 0, 0, 0, 0, 0>>
DOMAIN_TAG_PK == <<2, 0, 0, 0, 0, 0, 0, 0>>

compute_c_from_digest(m) == Keccak(DOMAIN_TAG_C \o m)
compute_c(payload) == compute_c_from_digest(Shake(payload))

unpack_m_vec_array(packed, n) ==
    AsSeq([i \in 1 .. n |->
        Nibbles(SubSeq(packed, (i - 1) * M_VEC_BYTES + 1, i * M_VEC_BYTES))])

(* Entry i, over P1 then P2, takes the counters 2i and 2i + 1. *)
fill_entry(seed, i) == Nibbles(Aes(seed, 2 * i) \o Aes(seed, 2 * i + 1))

expand_pk_to_lanes(cpk) ==
    [p1 |-> AsSeq([i \in 1 .. P1_ENTRIES |-> fill_entry(cpk.seed, i - 1)]),
     p2 |-> AsSeq([i \in 1 .. P2_ENTRIES |-> fill_entry(cpk.seed, P1_ENTRIES + i - 1)]),
     p3 |-> unpack_m_vec_array(cpk.p3, P3_ENTRIES)]

PackedBytes(words) == FoldLeft(LAMBDA acc, w : acc \o to_le_bytes(w), <<>>, words)

pk_id_from_lanes(pk) ==
    Keccak(FoldLeft(LAMBDA acc, lanes : acc \o PackedBytes(pack_lanes(lanes)),
                    DOMAIN_TAG_PK, pk.p1 \o pk.p2 \o pk.p3))

compute_pk_id(cpk) == pk_id_from_lanes(expand_pk_to_lanes(cpk))

(***************************************************************************)
(* quadratic.rs: where P[j][r] lies, and the two passes. Rows, columns and *)
(* blocks count from 0 as in the code.                                     *)
(***************************************************************************)
idx_p1(i, j) == (i * (2 * V - i + 1)) \div 2 + (j - i)
idx_p2(i, j) == i * O + j
idx_p3(i, j) == (i * (2 * O - i + 1)) \div 2 + (j - i)

Entry(pk, j, r) ==
    IF r < V THEN pk.p1[idx_p1(j, r) + 1]
    ELSE IF j < V THEN pk.p2[idx_p2(j, r - V) + 1]
    ELSE pk.p3[idx_p3(j - V, r - V) + 1]

(* PS[j*K + col] = sum over r >= j of P[j][r] * s[col][r] *)
compute_ps(pk, sig) ==
    LET entry(j, col) ==
            FoldLeft(LAMBDA acc, r : mul_into_acc(sig[col * N + r + 1], Entry(pk, j, r), acc),
                     Zero, [x \in 1 .. N - j |-> j + x - 1])
    IN AsSeq([x \in 1 .. N * K |-> entry((x - 1) \div K, (x - 1) % K)])

(* SPS[row*K + col] = sum over j of s[row][j] * PS[j*K + col] *)
compute_sps(sig, ps) ==
    LET entry(row, col) ==
            FoldLeft(LAMBDA acc, j : mul_into_acc(sig[row * N + j + 1], ps[j * K + col + 1], acc),
                     Zero, [x \in 1 .. N |-> x - 1])
    IN AsSeq([x \in 1 .. K * K |-> entry((x - 1) \div K, (x - 1) % K)])

(***************************************************************************)
(* whipping.rs: the accumulator times z modulo f(z) = z^64 + 8 + 2z^2 +    *)
(* 8z^3, then the SPS of the next pair of blocks, from (K-1, K-1) to       *)
(* (0, K-1).                                                               *)
(***************************************************************************)
(* Fault: the term 8z^3 of f is forgotten. *)
FoldShort(shifted, m8, m2) == bxor(bxor(shifted, m8), Shl(m2, 2))

Fold(shifted, m8, m2) == bxor(bxor(shifted, m8), bxor(Shl(m2, 2), Shl(m8, 3)))

times_z(ledger) ==
    LET t == <<Shr(ledger[1], 63), Shr(ledger[2], 63),
               Shr(ledger[3], 63), Shr(ledger[4], 63)>>
        s(b) == Shl(ledger[b], 1)
    IN <<Fold(s(1), t[2], t[4]),
         Fold(s(2), bxor(t[2], t[3]), bxor(t[1], t[4])),
         Fold(s(3), bxor(t[3], t[4]), t[2]),
         Fold(s(4), bxor(t[1], t[4]), t[3])>>

Pairs == FoldLeft(LAMBDA acc, i_inv : acc \o [x \in 1 .. i_inv |-> <<K - i_inv, K - i_inv + x - 1>>],
                  <<>>, Upto(K))

compute_rhs(sps) ==
    FoldLeft(LAMBDA ledger, p :
                LET upper == add(times_z(ledger), sps[p[1] * K + p[2] + 1])
                IN IF p[1] = p[2] THEN upper
                   ELSE add(upper, sps[p[2] * K + p[1] + 1]),
             Zero, Pairs)

(***************************************************************************)
(* shake256.rs: one rate block, 0x1F after the input, 0x80 in byte 135.    *)
(***************************************************************************)
N_WORDS_PER_BLOCK == 17

shake256_single_block_to_32(input) ==
    LET word(low, high) == [b \in 1 .. 8 |-> IF b = 1 THEN low ELSE IF b = 8 THEN high ELSE 0]
        block == [i \in 1 .. N_WORDS_PER_BLOCK |->
                    IF i <= Len(input) THEN input[i]
                    ELSE IF i = Len(input) + 1 THEN word(31, 0)
                    ELSE IF i = N_WORDS_PER_BLOCK THEN word(0, 128)
                    ELSE word(0, 0)]
    IN Xof(FoldLeft(LAMBDA acc, w : acc \o w, <<>>, block))

shake256_56_to_32(in56) == shake256_single_block_to_32(in56)

(***************************************************************************)
(* Mayo2Verify::populate: the wires a witness fills, and Mayo2Verify::new: *)
(* what the circuit derives from them and the equations it asserts.        *)
(***************************************************************************)
populate_pk(pk) ==
    LET bitsliced(p) == AsSeq([i \in DOMAIN p |-> lanes_to_bitsliced(p[i])])
    IN [p1 |-> bitsliced(pk.p1), p2 |-> bitsliced(pk.p2), p3 |-> bitsliced(pk.p3)]

(* Scalar r of block col is nibble col*N + r: a block may start mid-byte. *)
populate_sig(nibbles) ==
    AsSeq([n \in 1 .. K * N |-> {b \in 0 .. 3 : Bit(nibbles[n], b) = 1}])

SigBroadcasts(wires) == AsSeq([n \in DOMAIN wires |-> broadcast_scalar(wires[n])])

populate(m, pk, sig) ==
    [c |-> write_le_words(compute_c_from_digest(m)),
     pk_id |-> write_le_words(pk_id_from_lanes(pk)),
     msg |-> write_le_words(m),
     pk |-> populate_pk(pk),
     sig |-> populate_sig(Nibbles(sig.s)),
     salt |-> write_le_words(sig.salt)]

PublicMap(w) ==
    LET broadcasts == SigBroadcasts(w.sig)
    IN compute_rhs(compute_sps(broadcasts, compute_ps(w.pk, broadcasts)))

Satisfied(w, y) ==
    LET words(ws) == FoldLeft(LAMBDA acc, x : acc \o x, <<>>, ws)
        packed == FoldLeft(LAMBDA acc, mvec : acc \o PackedBytes(bitsliced_to_packed(mvec)),
                           DOMAIN_TAG_PK, w.pk.p1 \o w.pk.p2 \o w.pk.p3)
        t == packed_to_bitsliced(shake256_56_to_32(w.msg \o w.salt))
    IN /\ write_le_words(Keccak(DOMAIN_TAG_C \o words(w.msg))) = w.c
       /\ write_le_words(Keccak(packed)) = w.pk_id
       /\ y = t

(* The order in which the public inputs are allocated. *)
Inout(w) == w.c \o w.pk_id
=============================================================================
