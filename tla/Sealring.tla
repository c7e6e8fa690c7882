------------------------------ MODULE Sealring ------------------------------
(***************************************************************************)
(* The sealed note of sealring: its wire format (envelope.rs), the key     *)
(* schedule and seal / open (seal.rs), and the recipient (recipient.rs).   *)
(* Constant-level: Scanner.tla is the state machine that uses it.          *)
(*                                                                         *)
(* HKDF and ChaCha20-Poly1305 are ideal: what they return is the tuple of  *)
(* everything that went in. A commitment, a tag and an epk are a cell or   *)
(* two of the byte string instead of 32, 16 and 33 bytes; MaxCtLen stands  *)
(* for MAX_CT_LEN in the same scale.                                       *)
(***************************************************************************)
EXTENDS SealKem

CONSTANTS
    Notes,        \* the notes of the domains
    NoteLen,      \* cells the encoding of a note takes
    Unencodable,  \* notes Domain::encode_note refuses
    Undecodable,  \* notes whose bytes Domain::decode_note refuses
    Unverified,   \* notes Domain::verify refuses
    Tag,          \* DOMAIN_TAG of each domain, a byte string
    MaxCtLen      \* MAX_CT_LEN

(* suite_asserts: a domain tag is not empty and fits its prefix. *)
ASSUME SealringAssumption ==
    /\ Unencodable \cup Undecodable \cup Unverified \subseteq Notes
    /\ NoteLen \in [Notes -> Nat]
    /\ \A d \in DOMAIN Tag : Len(Tag[d]) \in 1 .. 65535
    /\ MaxCtLen \in Nat

VERSION == 1
HEADER_LEN == 2
COMMIT_LEN == 1
AEAD_TAG_LEN == 1

(* Recipient::new *)
Recipient(kem, sk) ==
    [sk |-> sk, pk_encoded |-> encode_pk(kem, derive_pk(kem, sk))]

(***************************************************************************)
(* SealedNote::parse: Ok holds the bytes as they came, Err the first check *)
(* that fails. Serialize and SchemaWrite emit as_bytes, Deserialize and    *)
(* SchemaRead collect a byte string and parse it, so a transfer is a parse *)
(* of the same bytes.                                                      *)
(***************************************************************************)
Fixed(kem) == HEADER_LEN + EPK_LEN(kem) + COMMIT_LEN

ParseError(kind) == [err |-> kind]

parse(kem, bytes) ==
    IF Len(bytes) < Fixed(kem) + AEAD_TAG_LEN THEN ParseError("TooShort")
    ELSE IF bytes[1] # VERSION THEN ParseError("WrongVersion")
    ELSE IF bytes[2] # KEM_ID(kem) THEN ParseError("WrongKemId")
    ELSE IF Len(bytes) - Fixed(kem) > MaxCtLen THEN ParseError("CtTooLong")
    ELSE [err |-> "None", bytes |-> bytes]

as_bytes(note) == note.bytes
deserialize(kem, bytes) == parse(kem, bytes)

epk_of(kem, note) ==
    SubSeq(note.bytes, HEADER_LEN + 1, HEADER_LEN + EPK_LEN(kem))
commit_of(kem, note) == note.bytes[HEADER_LEN + EPK_LEN(kem) + 1]
ct_of(kem, note) == SubSeq(note.bytes, Fixed(kem) + 1, Len(note.bytes))

(***************************************************************************)
(* Key schedule. push_lp writes a big-endian u16 length before a field.    *)
(***************************************************************************)
push_lp(out, field) ==
    out \o <<Len(field) \div 256, Len(field) % 256>> \o field

(* Fault: the recipient key is not bound. *)
write_kdf_info_unbound(out, kem, tag, epk, pk_r) ==
    FoldLeft(push_lp, out, << <<VERSION>>, <<KEM_ID(kem)>>, tag, epk >>)

write_kdf_info(out, kem, tag, epk, pk_r) ==
    FoldLeft(push_lp, out, << <<VERSION>>, <<KEM_ID(kem)>>, tag, epk, pk_r >>)

(* expand: HKDF over the shared secret, split into key, nonce and commit. *)
expand(shared, info) ==
    [key |-> <<"key", shared, info>>, nonce |-> <<"nonce", shared, info>>,
     commit |-> <<"commit", shared, info>>]

(* derive: a fresh info string, then expand. *)
derive(kem, shared, tag, epk, pk_r) ==
    expand(shared, write_kdf_info(<<>>, kem, tag, epk, pk_r))

(* ChaCha20-Poly1305: a ciphertext cell per message cell, then the tag. *)
Encrypt(key, nonce, msg, aad) ==
    LET body == [i \in DOMAIN msg |-> <<"enc", key, nonce, i, msg[i]>>]
    IN Append(body, <<"tag", key, nonce, aad, body>>)

Authentic(key, nonce, ct, aad) ==
    Last(ct) = <<"tag", key, nonce, aad, Front(ct)>>

Plaintext(ct) == [i \in 1 .. Len(ct) - 1 |-> ct[i][5]]

(* The consumer's Domain: encode_note writes NoteLen[n] cells. *)
encode_note(note) == [i \in 1 .. NoteLen[note] |-> note]
decode_note(bytes) == bytes[1]

(***************************************************************************)
(* seal(pk, note, aad, rng): <<>> for Err(SealError), else the envelope.   *)
(***************************************************************************)
Assemble(kem, tag, enc, pk, note, aad) ==
    LET derived == derive(kem, enc.shared, tag, enc.epk, encode_pk(kem, pk))
        ct == Encrypt(derived.key, derived.nonce, encode_note(note), aad)
    IN <<VERSION, KEM_ID(kem)>> \o enc.epk \o <<derived.commit>> \o ct

seal(kem, tag, pk, note, aad, draw) ==
    LET enc == encap(kem, draw, pk)
        sealed == parse(kem, Assemble(kem, tag, enc, pk, note, aad))
    IN IF \/ enc.shared = 0                  \* is_all_zero
          \/ note \in Unencodable
          \/ sealed.err # "None"
       THEN None ELSE Some(sealed)

(***************************************************************************)
(* open(recipient, envelope, aad): None is Ok(None), not addressed to this *)
(* key; else the note or an OpenError.                                     *)
(***************************************************************************)
OpenError(kind) == [err |-> kind]

Opened(note) ==
    CASE note \in Undecodable -> OpenError("NoteDecode")
      [] note \in Unverified \ Undecodable -> OpenError("Verify")
      [] OTHER -> [err |-> "None", note |-> note]

open(kem, tag, recipient, envelope, aad) ==
    LET shared == decap(kem, recipient.sk, epk_of(kem, envelope))
        derived == derive(kem, shared[1], tag, epk_of(kem, envelope),
                          recipient.pk_encoded)
        ct == ct_of(kem, envelope)
    IN IF shared = None \/ derived.commit # commit_of(kem, envelope) THEN None
       ELSE IF ~Authentic(derived.key, derived.nonce, ct, aad)
       THEN Some(OpenError("Aead"))
       ELSE Some(Opened(decode_note(Plaintext(ct))))
=============================================================================
