------------------------------- MODULE Scanner -------------------------------
(***************************************************************************)
(* Scanner of sealring (scan.rs): trial decryption of a batch of sealed    *)
(* notes under one key, sequentially through buffers the scanner owns and  *)
(* reuses, or in parallel with buffers per task.                           *)
(*                                                                         *)
(* A behaviour first lets senders seal notes (seal.rs) and hands what      *)
(* arrives, parsed, to the inbox; then one scanner scans the inbox any     *)
(* number of times. A sequential scan is one step per chunk pulled, per    *)
(* envelope tried and per chunk wiped; a parallel task touches nothing     *)
(* shared, so it is one step, and tasks of a round finish in any order.    *)
(* The Domain is the consumer's code: its decode_note or verify may panic, *)
(* which unwinds out of the scan and leaves the buffers as they are; the   *)
(* scanner may be used again.                                              *)
(***************************************************************************)
EXTENDS Sealring, FiniteSets

CONSTANTS
    Me,                \* secret key of the scanner's recipient
    OtherKeys,         \* secret keys of other recipients
    Mine,              \* the scanner's domain
    Aads,              \* associated data senders seal under
    Aad,               \* associated data the scanner's owner scans under
    UsualNote,         \* the note of a plain envelope
    Threads,           \* rayon::current_num_threads()
    CHUNKS_PER_THREAD, \* CHUNKS_PER_THREAD (8)
    MaxSeals,          \* bound: notes sealed
    MaxOdd             \* bound: notes in the inbox that are not plain

ASSUME ScannerAssumption ==
    /\ {Me} \cup OtherKeys \subseteq Points \ {0}
    /\ Mine \in DOMAIN Tag /\ Aad \in Aads /\ UsualNote \in Notes
    /\ Threads \in Nat \ {0} /\ CHUNKS_PER_THREAD \in Nat \ {0}

VARIABLES
    kem,      \* K, fixed in a behaviour
    sealed,   \* draws of the senders' rng so far
    inbox,    \* envelopes to scan, as parsed
    origin,   \* history: how each envelope of the inbox was sealed
    buffers,  \* Scanner.buffers: out, info, scratch
    scan,     \* the scan under way or finished last
    leftover  \* history: slots a panic of a sequential scan has left unwiped

senderVars == <<kem, sealed, inbox, origin>>
scannerVars == <<kem, sealed, inbox, origin, buffers, scan, leftover>>

recipient == Recipient(kem, Me)

(* ScanBuffers::new *)
NewBuffers == [out |-> [i \in 1 .. SCAN_CHUNK |-> None], info |-> <<>>,
               scratch |-> <<>>]

ScannerInit ==
    /\ kem \in Kems
    /\ sealed = 0
    /\ inbox = <<>>
    /\ origin = <<>>
    /\ buffers = NewBuffers
    /\ scan = [phase |-> "idle"]
    /\ leftover = {}

(***************************************************************************)
(* Senders. What a transfer may do to the bytes of an envelope on the way: *)
(* nothing, or one kind of damage, never two.                              *)
(***************************************************************************)
BadEpks == CASE kem = "K256" -> {<<9, 1>>}
             [] kem = "Grumpkin" -> {<<0>>, <<Order>>}
             [] kem = "X25519" -> {<<0>>}
             [] kem = "Mock" -> {<<7>>}

Transfers(bytes) ==
    {[how |-> "intact", bytes |-> bytes]}
    \cup
    {[how |-> "epk", bytes |-> SubSeq(bytes, 1, HEADER_LEN) \o epk
                    \o SubSeq(bytes, HEADER_LEN + EPK_LEN(kem) + 1, Len(bytes))] :
        epk \in BadEpks}
    \cup {[how |-> "version", bytes |-> [bytes EXCEPT ![1] = VERSION + 1]],
          [how |-> "kem", bytes |-> [bytes EXCEPT ![2] = 0]],
          [how |-> "commit", bytes |-> [bytes EXCEPT ![Fixed(kem)] = <<"flipped">>]],
          [how |-> "ct", bytes |-> [bytes EXCEPT ![Len(bytes)] = <<"flipped">>]],
          [how |-> "short", bytes |-> SubSeq(bytes, 1, Fixed(kem))]}

(* Bounds: an envelope differs from the usual one in one respect at most,  *)
(* and at most MaxOdd of the inbox do, an unusable epk not counted.        *)
Usual == [to |-> derive_pk(kem, Me), domain |-> Mine, note |-> UsualNote,
          aad |-> Aad, how |-> "intact"]
Differences(o) == {f \in DOMAIN Usual : o[f] # Usual[f]}
Plain(o) == Differences(o) \subseteq {"how"} /\ o.how \in {"intact", "epk"}
Odd == Cardinality({i \in DOMAIN origin : ~Plain(origin[i])})

(* A parsed envelope reaches the inbox; a parse error leaves it out. *)
Arrive(o, bytes) ==
    LET got == deserialize(kem, bytes) IN
    /\ Cardinality(Differences(o)) <= 1
    /\ Plain(o) \/ Odd < MaxOdd
    /\ IF got.err = "None"
       THEN inbox' = Append(inbox, got) /\ origin' = Append(origin, o)
       ELSE UNCHANGED <<inbox, origin>>

(* K256 public keys exclude the identity by type, the others do not. *)
PublicKeys ==
    {derive_pk(kem, k) : k \in {Me} \cup OtherKeys}
    \cup (IF kem \in {"X25519", "Grumpkin"} THEN {0} ELSE {})

(* seal succeeds and the envelope is transferred. *)
Send(domain, pk, note, aad) ==
    LET s == seal(kem, Tag[domain], pk, note, aad, sealed + 1)
        o(how) == [to |-> pk, domain |-> domain, note |-> note, aad |-> aad,
                   how |-> how]
    IN /\ s # None
       /\ \E t \in Transfers(as_bytes(s[1])) : Arrive(o(t.how), t.bytes)

(* seal returns SealError; the rng has moved on. *)
Refuse(domain, pk, note, aad) ==
    /\ seal(kem, Tag[domain], pk, note, aad, sealed + 1) = None
    /\ UNCHANGED <<inbox, origin>>

Seal ==
    /\ scan.phase = "idle"
    /\ sealed < MaxSeals
    /\ sealed' = sealed + 1
    /\ \E domain \in DOMAIN Tag, pk \in PublicKeys, note \in Notes, aad \in Aads :
          Send(domain, pk, note, aad) \/ Refuse(domain, pk, note, aad)
    /\ UNCHANGED <<kem, buffers, scan, leftover>>

(***************************************************************************)
(* process_envelope: None for a commit mismatch, else the outcome, and the *)
(* buffers as it leaves them.                                              *)
(***************************************************************************)
info_of(envelope) ==    \* info.clear(), then the same string seal built
    write_kdf_info(<<>>, kem, Tag[Mine], epk_of(kem, envelope),
                   recipient.pk_encoded)

process_envelope(shared, envelope, aad, bufs) ==
    LET info == info_of(envelope)
        derived == expand(shared, info)
        ct == ct_of(kem, envelope)
        outcome == IF ~Authentic(derived.key, derived.nonce, ct, aad)
                   THEN OpenError("Aead")
                   ELSE Opened(decode_note(Plaintext(ct)))
    IN IF derived.commit # commit_of(kem, envelope)
       THEN [outcome |-> None, bufs |-> [bufs EXCEPT !.info = info]]
       ELSE [outcome |-> Some(outcome),
             bufs |-> [bufs EXCEPT !.info = info, !.scratch = <<>>]]

(* Fault: the index of a hit counts from the start of its chunk. *)
TryRelative(i, base, bufs, hits) ==
    LET tried == process_envelope(bufs.out[i][1], inbox[base + i], Aad, bufs)
    IN IF bufs.out[i] = None \/ tried.outcome = None
       THEN [bufs |-> bufs, hits |-> hits]
       ELSE [bufs |-> tried.bufs,
             hits |-> Append(hits, <<i - 1, tried.outcome[1]>>)]

(* One turn of the loop of scan_chunk: slot i of the chunk, whose first    *)
(* envelope has index base.                                                *)
Try(i, base, bufs, hits) ==
    LET tried == process_envelope(bufs.out[i][1], inbox[base + i], Aad, bufs)
    IN IF bufs.out[i] = None THEN [bufs |-> bufs, hits |-> hits]
       ELSE IF tried.outcome = None THEN [bufs |-> tried.bufs, hits |-> hits]
       ELSE [bufs |-> tried.bufs,
             hits |-> Append(hits, <<base + i - 1, tried.outcome[1]>>)]

Decapsulate(base, len, bufs) ==
    [bufs EXCEPT !.out =
        decap_batch(kem, Me, [i \in 1 .. len |-> epk_of(kem, inbox[base + i])], @)]

(* Fault: the last slot in use is missed. *)
WipeUsed(len, bufs) ==
    [bufs EXCEPT !.out = [i \in DOMAIN @ |-> IF i < len THEN None ELSE @[i]]]

Wipe(len, bufs) ==
    [bufs EXCEPT !.out = [i \in DOMAIN @ |-> IF i <= len THEN None ELSE @[i]]]

(* scan_chunk in one go, as a parallel task runs it on buffers of its own. *)
scan_chunk(base, len) ==
    FoldLeft(LAMBDA acc, i : Try(i, base, acc.bufs, acc.hits),
             [bufs |-> Decapsulate(base, len, NewBuffers), hits |-> <<>>],
             [i \in 1 .. len |-> i]).hits

(***************************************************************************)
(* Scanner::scan. "base" envelopes have been pulled before this chunk.     *)
(***************************************************************************)
Resting == scan.phase \in {"idle", "done", "panicked"}
Lesser(a, b) == IF a < b THEN a ELSE b

Begin(mode) ==
    /\ Resting
    /\ scan' = [phase |-> "pull", mode |-> mode, base |-> 0, len |-> 0, at |-> 0,
                found |-> <<>>, hits |-> <<>>]
    /\ UNCHANGED <<senderVars, buffers, leftover>>

Done(s) == [phase |-> "done", hits |-> s.hits]

PullChunk ==
    /\ scan.phase = "pull" /\ scan.mode = "sequential"
    /\ LET len == Lesser(SCAN_CHUNK, Len(inbox) - scan.base) IN
       IF len = 0
       THEN scan' = Done(scan) /\ UNCHANGED buffers
       ELSE /\ scan' = [scan EXCEPT !.phase = "try", !.len = len, !.at = 1]
            /\ buffers' = Decapsulate(scan.base, len, buffers)
    /\ UNCHANGED <<senderVars, leftover>>

TryEnvelope ==
    /\ scan.phase = "try" /\ scan.at <= scan.len
    /\ LET tried == Try(scan.at, scan.base, buffers, scan.hits) IN
       /\ buffers' = tried.bufs
       /\ scan' = [scan EXCEPT !.at = @ + 1, !.hits = tried.hits]
    /\ UNCHANGED <<senderVars, leftover>>

WipeChunk ==
    /\ scan.phase = "try" /\ scan.at > scan.len
    /\ buffers' = Wipe(scan.len, buffers)
    /\ scan' = IF scan.len < SCAN_CHUNK THEN Done(scan)
               ELSE [scan EXCEPT !.phase = "pull", !.base = @ + scan.len,
                                 !.len = 0, !.at = 0]
    /\ leftover' = leftover \ (1 .. scan.len)
    /\ UNCHANGED senderVars

(* decode_note or verify panics on the plaintext in the scratch buffer. *)
Reaches(envelope) ==
    LET opened == open(kem, Tag[Mine], recipient, envelope, Aad)
    IN opened # None /\ opened[1].err # "Aead"

DomainPanics ==
    /\ scan.phase = "try" /\ scan.at <= scan.len
    /\ LET envelope == inbox[scan.base + scan.at] IN
       /\ Reaches(envelope)
       /\ buffers' = [buffers EXCEPT
                        !.info = info_of(envelope),
                        !.scratch = Plaintext(ct_of(kem, envelope))]
    /\ scan' = [phase |-> "panicked"]
    /\ leftover' = leftover \cup (1 .. scan.len)
    /\ UNCHANGED senderVars

(***************************************************************************)
(* Scanner::scan_parallel. A round pulls one window and splits it into     *)
(* tasks; results are appended in task order when all have finished.       *)
(***************************************************************************)
tasks_per_round == Threads * CHUNKS_PER_THREAD
window_len == SCAN_CHUNK * tasks_per_round
CeilDiv(a, b) == (a + b - 1) \div b
task_len(len) == Lesser(CeilDiv(len, tasks_per_round), SCAN_CHUNK)
Running == <<"running">>

PullWindow ==
    /\ scan.phase = "pull" /\ scan.mode = "parallel"
    /\ LET len == Lesser(window_len, Len(inbox) - scan.base) IN
       scan' = IF len = 0 THEN Done(scan)
               ELSE [scan EXCEPT !.phase = "round", !.len = len,
                       !.found = [t \in 1 .. CeilDiv(len, task_len(len)) |-> Running]]
    /\ UNCHANGED <<senderVars, buffers, leftover>>

TaskBase(t) == (t - 1) * task_len(scan.len)
TaskWidth(t) == Lesser(task_len(scan.len), scan.len - TaskBase(t))

RunTask ==
    /\ scan.phase = "round"
    /\ \E t \in DOMAIN scan.found :
          /\ scan.found[t] = Running
          /\ scan' = [scan EXCEPT !.found[t] =
                <<"found", scan_chunk(scan.base + TaskBase(t), TaskWidth(t))>>]
    /\ UNCHANGED <<senderVars, buffers, leftover>>

CollectRound ==
    /\ scan.phase = "round"
    /\ \A t \in DOMAIN scan.found : scan.found[t] # Running
    /\ LET s == [scan EXCEPT !.phase = "pull", !.base = @ + scan.len,
                   !.len = 0, !.found = <<>>,
                   !.hits = FoldLeft(LAMBDA acc, f : acc \o f[2], @, scan.found)]
       IN scan' = IF scan.len < window_len THEN Done(s) ELSE s
    /\ UNCHANGED <<senderVars, buffers, leftover>>

(* A panic of a task is carried to the caller; the scanner's own buffers   *)
(* took no part.                                                           *)
TaskPanics ==
    /\ scan.phase = "round"
    /\ \E t \in DOMAIN scan.found :
          /\ scan.found[t] = Running
          /\ \E i \in 1 .. TaskWidth(t) :
                Reaches(inbox[scan.base + TaskBase(t) + i])
    /\ scan' = [phase |-> "panicked"]
    /\ UNCHANGED <<senderVars, buffers, leftover>>

ScannerNext ==
    \/ Seal
    \/ Begin("sequential")
    \/ Begin("parallel")
    \/ PullChunk
    \/ TryEnvelope
    \/ WipeChunk
    \/ DomainPanics
    \/ PullWindow
    \/ RunTask
    \/ CollectRound
    \/ TaskPanics

-----------------------------------------------------------------------------
(***************************************************************************)
(* Properties.                                                             *)
(***************************************************************************)

(* A finished scan, sequential or parallel, reports exactly what a loop of *)
(* open() over the batch reports, by index and in input order: batched     *)
(* decapsulation, chunking, task splitting and buffers left by an earlier  *)
(* scan or by a panic make no difference (scan.rs:105, scan.rs:155).       *)
ScanAgreesWithOpen ==
    scan.phase = "done" =>
        LET opened(i) == open(kem, Tag[Mine], recipient, inbox[i], Aad)
            hit == SelectSeq([i \in DOMAIN inbox |-> i], LAMBDA i : opened(i) # None)
        IN scan.hits = [j \in DOMAIN hit |-> <<hit[j] - 1, opened(hit[j])[1]>>]

(* What a note sealed to this key under this domain and associated data    *)
(* must come back as, by what happened to it; "absent" for all others.     *)
Expected(o) ==
    IF \/ o.to # derive_pk(kem, Me)
       \/ o.domain # Mine
       \/ o.how \in {"epk", "commit"}
    THEN "absent"
    ELSE IF o.how = "ct" \/ o.aad # Aad THEN "Aead"
    ELSE IF o.note \in Undecodable THEN "NoteDecode"
    ELSE IF o.note \in Unverified THEN "Verify"
    ELSE "None"

(* End to end from seal to scan: a finished scan reports a note if and     *)
(* only if it was sealed to this very public key under this domain, with   *)
(* the note itself or the error that fits, and stays silent on every other *)
(* envelope, those of a key with the same shared x-coordinate included     *)
(* (seal.rs:102 binds the tag and pk_r, seal.rs:242).                      *)
ReceivesOwn ==
    scan.phase = "done" =>
        \A i \in DOMAIN inbox :
            LET want == Expected(origin[i])
                got == {h \in ToSet(scan.hits) : h[1] = i - 1}
            IN CASE want = "absent" -> got = {}
                 [] want = "None" ->
                        got = {<<i - 1, [err |-> "None", note |-> origin[i].note]>>}
                 [] OTHER -> got = {<<i - 1, [err |-> want]>>}

(* No shared secret outlives its chunk but by a panic: the slots of the    *)
(* chunk being worked on hold what its epks decapsulate to, nothing of a   *)
(* chunk or scan before, even of one that panicked; every other out slot   *)
(* is None, except those a panic of the Domain's code has left and no      *)
(* chunk that reaches so far has been wiped since (scan.rs:234).           *)
SecretsLiveOneChunk ==
    \A i \in DOMAIN buffers.out :
        IF scan.phase = "try" /\ i <= scan.len
        THEN buffers.out[i] = decap(kem, Me, epk_of(kem, inbox[scan.base + i]))
        ELSE i \in leftover \/ buffers.out[i] = None
=============================================================================
