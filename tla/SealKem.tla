------------------------------- MODULE SealKem -------------------------------
(***************************************************************************)
(* The key encapsulation mechanisms of sealring: trait Kem (kem.rs), its   *)
(* adapters K256, X25519 and Grumpkin (adapters/), and the MockKem of      *)
(* test_util.rs.                                                           *)
(*                                                                         *)
(* The curves are replaced by one toy group: a point k*G is its scalar k   *)
(* in 0..Order-1, the identity is 0, and P and -P share an x-coordinate,   *)
(* as they do on a curve. Base field elements are integers modulo Field.   *)
(* A byte string is a sequence of cells; an Option is <<>> or <<value>>.   *)
(***************************************************************************)
EXTENDS Integers, Sequences, SequencesExt, Bitwise

CONSTANTS
    Order,      \* order of the toy group, a prime
    Field,      \* order of the toy base field, a prime above Order \div 2
    SCAN_CHUNK  \* SCAN_CHUNK (64): width of a batch

ASSUME GroupAssumption ==
    /\ Order \in Nat /\ Order > 2
    /\ Field \in Nat /\ Field > Order \div 2
    /\ SCAN_CHUNK \in Nat \ {0}

Kems == {"K256", "X25519", "Grumpkin", "Mock"}
None == <<>>
Some(v) == <<v>>
Points == 0 .. Order - 1

(* Group and field arithmetic of the curve crates. *)
Mul(point, k) == (point * k) % Order
XOf(point) == IF point <= Order - point THEN point ELSE Order - point
FieldInverse(z) == CHOOSE i \in 1 .. Field - 1 : (i * z) % Field = 1
(* A product comes back in Jacobian coordinates, x = X / Z^2, with a Z that *)
(* depends on the computation; Z = 0 is the identity.                       *)
JacobianZ(point, k) ==
    IF Mul(point, k) = 0 THEN 0 ELSE 1 + ((2 * point + k) % (Field - 1))
Jacobian(point, k) ==
    LET z == JacobianZ(point, k) IN
    [x |-> (XOf(Mul(point, k)) * z * z) % Field, z |-> z]

(***************************************************************************)
(* Constants of the adapters.                                              *)
(***************************************************************************)
KEM_ID(kem) == CASE kem = "K256" -> 1 [] kem = "X25519" -> 2
                 [] kem = "Grumpkin" -> 3 [] kem = "Mock" -> 255

(* A SEC1-compressed point is a parity byte and x, the others are one      *)
(* field-sized string: 33 and 32 bytes become two cells and one.           *)
EPK_LEN(kem) == IF kem = "K256" THEN 2 ELSE 1

(* derive_pk: an X25519 public key is a u-coordinate, a MockKem public key *)
(* is the secret key itself.                                               *)
derive_pk(kem, sk) == IF kem = "X25519" THEN XOf(sk) ELSE sk

(* encode_pk / compress. *)
encode_pk(kem, pk) ==
    IF kem = "K256" THEN <<2 + (IF XOf(pk) = pk THEN 0 ELSE 1), XOf(pk)>>
    ELSE <<pk>>

(* from_sec1_bytes and deserialize_compressed: the point a string encodes. *)
(* SEC1 decoding knows no identity.                                        *)
Decode(kem, epk) ==
    LET found == {p \in (IF kem = "K256" THEN Points \ {0} ELSE Points) :
                     encode_pk(kem, p) = epk}
    IN IF found = {} THEN None ELSE Some(CHOOSE p \in found : TRUE)

(***************************************************************************)
(* encap(rng, to): esk is the scalar the rng yields. The shared secret is  *)
(* the x-coordinate, zero for the identity; MockKem draws the epk itself   *)
(* and takes the XOR of it and the key.                                    *)
(***************************************************************************)
encap_k256(esk, to) ==
    [epk |-> encode_pk("K256", derive_pk("K256", esk)), shared |-> XOf(Mul(to, esk))]

encap_x25519(esk, to) == [epk |-> <<XOf(esk)>>, shared |-> XOf(Mul(to, esk))]

encap_grumpkin(esk, to) ==
    LET shared == Mul(to, esk)
    IN [epk |-> encode_pk("Grumpkin", esk),
        shared |-> IF shared = 0 THEN 0 ELSE XOf(shared)]

encap_mock(draw, to) == [epk |-> <<draw>>, shared |-> draw ^^ to]

encap(kem, draw, to) ==
    CASE kem = "K256" -> encap_k256(draw, to)
      [] kem = "X25519" -> encap_x25519(draw, to)
      [] kem = "Grumpkin" -> encap_grumpkin(draw, to)
      [] kem = "Mock" -> encap_mock(draw, to)

(***************************************************************************)
(* decap(sk, epk): the shared secret, or None for a string that is no      *)
(* point and for a non-contributory result.                                *)
(***************************************************************************)
decap_k256(sk, epk) ==
    LET pk == Decode("K256", epk) IN
    IF pk = None THEN None ELSE Some(XOf(Mul(pk[1], sk)))

decap_x25519(sk, epk) ==
    IF Len(epk) # EPK_LEN("X25519") THEN None
    ELSE LET shared == XOf(Mul(epk[1], sk)) IN
         IF shared = 0 THEN None ELSE Some(shared)

decap_grumpkin(sk, epk) ==
    LET point == Decode("Grumpkin", epk)
        shared == Mul(point[1], sk)
    IN IF \/ Len(epk) # EPK_LEN("Grumpkin")
          \/ point = None
          \/ point[1] = 0
          \/ shared = 0
       THEN None ELSE Some(XOf(shared))

decap_mock(sk, epk) ==
    IF Len(epk) # EPK_LEN("Mock") THEN None ELSE Some(epk[1] ^^ sk)

decap(kem, sk, epk) ==
    CASE kem = "K256" -> decap_k256(sk, epk)
      [] kem = "X25519" -> decap_x25519(sk, epk)
      [] kem = "Grumpkin" -> decap_grumpkin(sk, epk)
      [] kem = "Mock" -> decap_mock(sk, epk)

(***************************************************************************)
(* decap_batch(sk, epks, out): one output slot per input. The default is a *)
(* scalar loop; slots past the inputs are not touched.                     *)
(***************************************************************************)
decap_loop(kem, sk, epks, out) ==
    [i \in DOMAIN out |-> IF i <= Len(epks) THEN decap(kem, sk, epks[i])
                          ELSE out[i]]

(* The batching adapters clear the slots, gather the usable inputs at the  *)
(* front of their scratch, remember in "indices" where each came from, and *)
(* write the results back through it.                                      *)
Scatter(indices, values, epks, out) ==
    [i \in DOMAIN out |->
        IF i > Len(epks) THEN out[i]
        ELSE IF \E j \in DOMAIN indices : indices[j] = i
             THEN Some(values[CHOOSE j \in DOMAIN indices : indices[j] = i])
             ELSE None]

Indices(epks, usable) ==
    SelectSeq([i \in DOMAIN epks |-> i], LAMBDA i : epks[i] \in usable)

decap_batch_k256(sk, epks, out) ==
    LET indices == Indices(epks, {epk \in Range(epks) : Decode("K256", epk) # None})
        points == [j \in DOMAIN indices |->
                      Mul(Decode("K256", epks[indices[j]])[1], sk)]
    IN Scatter(indices, [j \in DOMAIN points |-> XOf(points[j])], epks, out)

(* batch_invert: Montgomery's trick. prefix[j] is the product of everything *)
(* before j; walking back, "inverse" is the inverse of the product of       *)
(* everything up to j.                                                      *)
batch_invert(zs) ==
    LET n == Len(zs)
        running[j \in 0 .. n] ==
            IF j = 0 THEN 1 ELSE (running[j - 1] * zs[j]) % Field
        inverse[j \in 0 .. n] ==
            IF j = n THEN FieldInverse(running[n])
            ELSE (inverse[j + 1] * zs[j + 1]) % Field
    IN [j \in 1 .. n |-> (inverse[j] * running[j - 1]) % Field]

decap_batch_grumpkin(sk, epks, out) ==
    LET shared(epk) == Jacobian(Decode("Grumpkin", epk)[1], sk)
        indices == Indices(epks, {epk \in Range(epks) :
                      /\ Len(epk) = EPK_LEN("Grumpkin")
                      /\ Decode("Grumpkin", epk) # None
                      /\ Decode("Grumpkin", epk)[1] # 0
                      /\ shared(epk).z # 0})
        points == [j \in DOMAIN indices |-> shared(epks[indices[j]])]
        zs == batch_invert([j \in DOMAIN points |-> points[j].z])
    IN Scatter(indices,
               [j \in DOMAIN points |-> (points[j].x * zs[j] * zs[j]) % Field],
               epks, out)

(* Both batching adapters work through the inputs a SCAN_CHUNK at a time;  *)
(* a scanner never passes more than one.                                   *)
decap_batch(kem, sk, epks, out) ==
    CASE kem = "K256" -> decap_batch_k256(sk, epks, out)
      [] kem = "Grumpkin" -> decap_batch_grumpkin(sk, epks, out)
      [] OTHER -> decap_loop(kem, sk, epks, out)
=============================================================================
