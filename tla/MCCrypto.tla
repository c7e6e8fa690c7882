------------------------------ MODULE MCCrypto ------------------------------
(***************************************************************************)
(* Instances of the two cryptographic libraries, sealring (Scanner) and    *)
(* binius-mayo (MayoApi).  They share no state and no caller: a behaviour  *)
(* is one of the one or of the other, in which the variables of the idle   *)
(* library keep one fixed initial value.                                   *)
(***************************************************************************)
EXTENDS Scanner, MayoApi

VARIABLE library   \* whose behaviour this is

Init ==
    /\ library \in {"sealring", "binius-mayo"}
    /\ ScannerInit /\ ApiInit
    /\ library = "sealring" => layout = CHOOSE l \in Layouts : TRUE
    /\ library = "binius-mayo" => kem = "Mock"

Next ==
    \/ library = "sealring" /\ ScannerNext /\ UNCHANGED <<library, apiVars>>
    \/ library = "binius-mayo" /\ ApiNext /\ UNCHANGED <<library, scannerVars>>

Spec == Init /\ [][Next]_<<library, scannerVars, apiVars>>

-----------------------------------------------------------------------------
(* sealring: a group of order 7 in which 5 is the mirror image of 2, two   *)
(* domains of which the second has a longer tag.                           *)
MCNoteLen == [n \in Notes |-> IF n = "long" THEN 4 ELSE 1]
MCTag == [own |-> <<11>>, other |-> <<11, 12>>]

(* binius-mayo: a key of 15 m-vectors, four blocks of five nibbles, and a  *)
(* SHAKE that answers the public map of chosen signatures, so that they    *)
(* are valid.                                                              *)
MCAes(key, counter) ==
    AsSeq([i \in 1 .. 16 |-> (key * 77 + counter * counter * 29 + i * i * 13 + i * 91 + 5) % 256])

MCShake(payload) == AsSeq([i \in 1 .. 32 |-> (payload * 31 + i * 7) % 256])

MCCpk(seed) == [seed |-> seed, p3 |-> [i \in 1 .. 96 |-> (seed * 19 + i * i * 37) % 256]]
MCCpks == {MCCpk(1), MCCpk(2)}

Salt(n) == [i \in 1 .. 24 |-> (n + i) % 256]

(* The second has the salt of the first and another top nibble. *)
MCSigA == [s |-> <<33, 202, 95, 127, 16, 52, 9, 177, 68, 228>>, salt |-> Salt(1)]
MCSigB == [s |-> <<33, 202, 95, 127, 16, 52, 9, 177, 68, 100>>, salt |-> Salt(1)]
MCSigC == [s |-> <<255, 129, 6, 240, 137, 75, 82, 3, 194, 29>>, salt |-> Salt(2)]
MCSigs == {MCSigA, MCSigB, MCSigC}

(* Who signed: payload 1 by key 1 with A, payload 2 by key 2 with C. *)
Answer(cpk, sig) == pack_lanes(EvalPublicMap(cpk, sig))
AnswerA == Answer(MCCpk(1), MCSigA)
AnswerC == Answer(MCCpk(2), MCSigC)
BlockA == AsSeq(Padded(MCShake(1), MCSigA.salt))
BlockC == AsSeq(Padded(MCShake(2), MCSigC.salt))

MCXof(block) ==
    IF block = BlockA THEN AnswerA
    ELSE IF block = BlockC THEN AnswerC
    ELSE <<{1, 5, 9}, {0}, {63}, {7, 8}>>

Word(n) == [b \in 1 .. 8 |-> IF b = 1 THEN n ELSE 0]
MCLayout(constants, inout, end) ==
    [constants |-> [i \in 1 .. constants |-> Word(i)], offset_inout |-> inout,
     offset_witness |-> end]
(* Padded, tight, witness too early, constants too long. *)
MCLayouts == {MCLayout(2, 4, 16), MCLayout(3, 3, 11), MCLayout(2, 4, 11), MCLayout(6, 4, 16)}
=============================================================================
