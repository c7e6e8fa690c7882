------------------------------ MODULE MayoApi ------------------------------
(***************************************************************************)
(* The public interface of binius-mayo (api.rs): a prover and a verifier   *)
(* compiled apart, a bundle that travels between them, and an application  *)
(* that derives c and pk_id itself and compares. A value-vec layout comes  *)
(* with the backend; the verifier refuses one its writes do not fit.       *)
(***************************************************************************)
EXTENDS Mayo

CONSTANTS
    Layouts,      \* value-vec layouts [constants, offset_inout, offset_witness]
    Nothing       \* Option::None

VARIABLES
    layout,       \* the backend's layout
    prover,       \* Prover compiled?
    verifier,     \* Nothing, or the Verifier's fields
    signed,       \* the SignedMessage last given to prove, or Nothing
    witness,      \* Nothing, or its y and whether the circuit's equations hold
    sent,         \* the bundle prove returned, or Nothing
    bundle,       \* the bundle as it arrived, or Nothing
    result        \* what the last call returned

apiVars == <<layout, prover, verifier, signed, witness, sent, bundle, result>>

ZeroWord == <<0, 0, 0, 0, 0, 0, 0, 0>>
Damages == {"intact", "garbled", "trailing", "malformed"}

ApiInit ==
    /\ layout \in Layouts
    /\ prover = FALSE
    /\ verifier = Nothing
    /\ signed = Nothing /\ witness = Nothing /\ sent = Nothing /\ bundle = Nothing
    /\ result = "none"

(* Prover::compile: the backend's setup may fail. *)
CompileProver ==
    /\ ~prover
    /\ \E ok \in BOOLEAN :
          /\ prover' = ok
          /\ result' = IF ok THEN "Ready" ELSE "ErrSetup"
    /\ UNCHANGED <<layout, verifier, signed, witness, sent, bundle>>

LayoutFits ==
    /\ layout.offset_witness >= layout.offset_inout + 8
    /\ Len(layout.constants) <= layout.offset_inout

(* Verifier::compile, with its own copy of the layout. *)
CompileVerifier ==
    /\ verifier = Nothing
    /\ \E ok \in BOOLEAN :
          IF ok /\ LayoutFits
          THEN verifier' = layout /\ result' = "Ready"
          ELSE verifier' = Nothing /\ result' = "ErrSetup"
    /\ UNCHANGED <<layout, prover, signed, witness, sent, bundle>>

(* The backend's value vector up to the witness: constants, then the       *)
(* inout wires in the order they were allocated.                           *)
ValueVec(w) ==
    [i \in 0 .. layout.offset_witness - 1 |->
        IF i < Len(layout.constants) THEN layout.constants[i + 1]
        ELSE IF i - layout.offset_inout \in 0 .. 7
             THEN Inout(w)[i - layout.offset_inout + 1]
             ELSE ZeroWord]

(* prove_with_rng: populate, evaluate the circuit, prove, and derive c and *)
(* pk_id once more for the bundle. The backend may fail on a good witness. *)
Prove(payload, cpk, sig) ==
    LET m == Shake(payload)
        pk == expand_pk_to_lanes(cpk)
        w == populate(m, pk, sig)
        y == PublicMap(w)
        satisfied == Satisfied(w, y)
    IN  /\ prover /\ signed = Nothing
        /\ signed' = [payload |-> payload, cpk |-> cpk, sig |-> sig]
        /\ witness' = [y |-> y, satisfied |-> satisfied]
        /\ \E ok \in BOOLEAN :
              /\ sent' = IF satisfied /\ ok
                         THEN [c |-> compute_c_from_digest(m),
                               pk_id |-> pk_id_from_lanes(pk),
                               proof |-> [public |-> ValueVec(w), bytes |-> "intact"]]
                         ELSE Nothing
              /\ result' = IF satisfied /\ ok THEN "Proved" ELSE "ErrProve"
        /\ bundle' = sent'
        /\ UNCHANGED <<layout, prover, verifier>>

(* On the way the proof bytes may be damaged, or another payload's or      *)
(* key's commitment put in place.                                          *)
Transmit ==
    /\ bundle # Nothing /\ bundle = sent
    /\ \/ \E d \in Damages \ {"intact"} : bundle' = [bundle EXCEPT !.proof.bytes = d]
       \/ \E payload \in Payloads : bundle' = [bundle EXCEPT !.c = compute_c(payload)]
       \/ \E cpk \in Cpks : bundle' = [bundle EXCEPT !.pk_id = compute_pk_id(cpk)]
    /\ result' = "none"
    /\ UNCHANGED <<layout, prover, verifier, signed, witness, sent>>

(* The slice verify hands to the backend: zeros, the constants in front,   *)
(* and over them the commitments at their offset.                          *)
Written(v, inout) ==
    [i \in 0 .. v.offset_witness - 1 |->
        IF i - v.offset_inout \in 0 .. 7 THEN inout[i - v.offset_inout + 1]
        ELSE IF i < Len(v.constants) THEN v.constants[i + 1]
        ELSE ZeroWord]

(* Fault: pk_id first. *)
PublicSliceSwapped(v, b) == Written(v, write_le_words(b.pk_id) \o write_le_words(b.c))

PublicSlice(v, b) == Written(v, write_le_words(b.c) \o write_le_words(b.pk_id))

(* The backend accepts a proof for the public inputs it was made for, may  *)
(* panic on malformed bytes, and leaves trailing bytes to finalize.        *)
BackendVerify(public, proof) ==
    IF proof.bytes = "malformed" THEN {"Panicked", "ErrVerify"}
    ELSE IF proof.bytes = "garbled" \/ public # proof.public THEN {"ErrVerify"}
    ELSE {"Ok"}

finalize(proof) == IF proof.bytes = "trailing" THEN "ErrVerify" ELSE "Ok"

verify(v, b) ==
    {IF r = "Ok" THEN finalize(b.proof) ELSE r :
        r \in BackendVerify(PublicSlice(v, b), b.proof)}

(* catch_unwind folds a panic into Error::Verify. *)
try_verify(v, b) == {IF r = "Panicked" THEN "ErrVerify" ELSE r : r \in verify(v, b)}

Verify ==
    /\ verifier # Nothing /\ bundle # Nothing
    /\ \/ result' \in verify(verifier, bundle)
       \/ result' \in try_verify(verifier, bundle)
    /\ UNCHANGED <<layout, prover, verifier, signed, witness, sent, bundle>>

(* The application is done with the bundle, and maybe with an instance. *)
Drop ==
    /\ \/ prover' = prover /\ verifier' = verifier
       \/ prover' = FALSE /\ verifier' = Nothing
    /\ signed' = Nothing /\ witness' = Nothing /\ sent' = Nothing /\ bundle' = Nothing
    /\ result' = "none"
    /\ UNCHANGED layout

ApiNext ==
    \/ CompileProver
    \/ CompileVerifier
    \/ \E payload \in Payloads, cpk \in Cpks, sig \in Sigs : Prove(payload, cpk, sig)
    \/ Transmit
    \/ Verify
    \/ Drop

(***************************************************************************)
(* MAYO by the book, lane by lane over GF(16): the sums of the public map  *)
(* without blocks, planes or Karatsuba.                                    *)
(***************************************************************************)
Products == [ab \in (0 .. 15) \X (0 .. 15) |-> GfMul(ab[1], ab[2])]
Sums == [ab \in (0 .. 15) \X (0 .. 15) |-> GfAdd(ab[1], ab[2])]

(* The pairs a <= b below n, and the place of one in lexicographic order. *)
Triangle(n) == {ab \in (0 .. n - 1) \X (0 .. n - 1) : ab[1] <= ab[2]}
Before(p, q) == p[1] < q[1] \/ (p[1] = q[1] /\ p[2] < q[2])
Place(n, ab) == Cardinality({p \in Triangle(n) : Before(p, ab)})

(* Nibble n of a byte stream, low half first. *)
Nibble(bytes, n) == (bytes[n \div 2 + 1] \div 16^(n % 2)) % 16

(* The expanded key is one stream, keystream then P3, 32 bytes an entry;   *)
(* P[a][b] of the block matrix (P1 P2 / 0 P3).                             *)
Matrix(cpk) ==
    LET stream == FoldLeft(LAMBDA acc, ctr : acc \o Aes(cpk.seed, ctr - 1), <<>>,
                           Upto(2 * (P1_ENTRIES + P2_ENTRIES))) \o cpk.p3
        place(a, b) == IF b < V THEN Place(V, <<a, b>>)
                       ELSE IF a < V THEN P1_ENTRIES + a * O + (b - V)
                       ELSE P1_ENTRIES + P2_ENTRIES + Place(O, <<a - V, b - V>>)
    IN {<<ab, AsSeq([l \in Lanes |-> Nibble(stream, 64 * place(ab[1], ab[2]) + l - 1)])>> :
            ab \in Triangle(N)}

(* Coefficient l of u * z^e mod z^64 + 8 + 2z^2 + 8z^3, e small. *)
Whipped(u, e, l) ==
    LET tail(shift, by) ==
            IF l - shift \in 0 .. e - 1 THEN Products[by, u[64 + l - shift - e + 1]] ELSE 0
        kept == IF l >= e THEN u[l - e + 1] ELSE 0
    IN Sums[Sums[kept, tail(0, 8)], Sums[tail(2, 2), tail(3, 8)]]

(* Sum over i <= j of z^e(i,j) * (s_i P s_j, and s_j P s_i when i # j);    *)
(* e counts the pairs that the fold of MAYO takes after (i, j).            *)
EvalPublicMap(cpk, sig) ==
    LET matrix == Matrix(cpk)
        s(i, a) == Nibble(sig.s, i * N + a)
        add64(f, g) == AsSeq([l \in Lanes |-> Sums[f[l], g[l]]])
        form(i, j) ==
            FoldSet(LAMBDA p, acc :
                        LET k == Products[s(i, p[1][1]), s(j, p[1][2])]
                        IN AsSeq([l \in Lanes |-> Sums[acc[l], Products[k, p[2][l]]]]),
                    [l \in Lanes |-> 0], matrix)
        u(i, j) == IF i = j THEN form(i, j) ELSE add64(form(i, j), form(j, i))
        e(i, j) == (K - 1 - j) + Place(K, <<i, i>>)
        whip(ij) == LET v == u(ij[1], ij[2])
                    IN AsSeq([l \in Lanes |-> Whipped(v, e(ij[1], ij[2]), l - 1)])
    IN FoldSet(LAMBDA ij, acc : add64(acc, whip(ij)), [l \in Lanes |-> 0], Triangle(K))

(* Keys, signatures and the planes of their public map. *)
Evaluated ==
    {<<cpk, sig, lanes_to_bitsliced(EvalPublicMap(cpk, sig))>> : cpk \in Cpks, sig \in Sigs}

(* The 136-byte block of m and salt, and its digest in lanes. *)
Padded(m, salt) == m \o salt \o <<31>> \o [i \in 1 .. 78 |-> 0] \o <<128>>

Target(payload, salt) ==
    LET words == Xof(Padded(Shake(payload), salt))
        bit(n, b) == IF 4 * (n % 16) + b \in words[n \div 16 + 1] THEN 2^b ELSE 0
    IN AsSeq([l \in Lanes |-> bit(l - 1, 0) + bit(l - 1, 1) + bit(l - 1, 2) + bit(l - 1, 3)])

Signed ==
    {x \in [payload : Payloads, cpk : Cpks, sig : Sigs] :
        <<x.cpk, x.sig, lanes_to_bitsliced(Target(x.payload, x.sig.salt))>> \in Evaluated}

(***************************************************************************)
(* Properties                                                              *)
(***************************************************************************)

(* The circuit computes the public map of MAYO: whatever key and signature *)
(* are populated, the planes that compute_ps, compute_sps and compute_rhs  *)
(* leave are the lanes of the sum by the book (verify.rs, whipping.rs).    *)
EvaluatesPublicMap ==
    witness # Nothing => <<signed.cpk, signed.sig, witness.y>> \in Evaluated

(* The equations of Mayo2Verify::new hold for a populated witness exactly  *)
(* when the signature is one of the payload under the key, so prove fails  *)
(* for no signature and yields a bundle for nothing else (api.rs).         *)
ProvesExactlySignatures ==
    /\ witness # Nothing => (witness.satisfied <=> signed \in Signed)
    /\ sent # Nothing => witness.satisfied

(* A verifier that compiled accepts a bundle exactly when it arrived as it *)
(* was proved; and then c and pk_id are those an application derives from  *)
(* the payload and the key that were signed (Verifier::verify).            *)
VerifiesExactlyProved ==
    result \in {"Ok", "ErrVerify", "Panicked"} =>
        /\ result = "Ok" <=> bundle = sent
        /\ result = "Ok" => /\ signed \in Signed
                            /\ bundle.c = compute_c(signed.payload)
                            /\ bundle.pk_id = compute_pk_id(signed.cpk)
=============================================================================
