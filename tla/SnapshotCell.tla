---------------------------- MODULE SnapshotCell ----------------------------
(***************************************************************************)
(* What a snapshot store promises to those who commit to it: one snapshot  *)
(* is stored; a commit replaces it; a commit that did not return leaves    *)
(* either the old snapshot or the new one, and a recovery finds out which. *)
(* Module Store implements it, module Flusher relies on it.                *)
(***************************************************************************)
EXTENDS Naturals

CONSTANT Data   \* snapshots are told apart by a positive number

VARIABLES
    stored,   \* the snapshot a recovery finds, or NoData
    pending   \* the snapshot of a commit that has not returned Ok, or NoData

cellVars == <<stored, pending>>

NoData == 0

ASSUME DataAssumption == Data \subseteq Nat \ {NoData}

CellInit == stored \in Data \cup {NoData} /\ pending = NoData

BeginCommit(data) ==
    /\ pending = NoData
    /\ pending' = data
    /\ UNCHANGED stored

CommitReturns ==
    /\ pending # NoData
    /\ stored' = pending
    /\ pending' = NoData

Recover ==
    /\ stored' \in {stored} \cup ({pending} \ {NoData})
    /\ pending' = NoData

CellNext == (\E data \in Data : BeginCommit(data)) \/ CommitReturns \/ Recover

CellSpec == CellInit /\ [][CellNext]_cellVars
=============================================================================
