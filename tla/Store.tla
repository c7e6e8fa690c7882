------------------------------- MODULE Store --------------------------------
(***************************************************************************)
(* The snapshot store: a commit writes a temp file, renames it and points  *)
(* one of two manifest slots at it; an open repairs, reads and prunes      *)
(* (crates/chainfold/src/storage: store.rs, manifest.rs, vfs.rs).          *)
(*                                                                         *)
(* The file system is what the code relies on: cache is what a running     *)
(* system reads back, disk what an fsync made certain.  When the process   *)
(* ends the cache stays.  When the power fails every name, every file and  *)
(* every slot that differs comes back as either of the two, and one that   *)
(* was being written may come back torn.                                   *)
(*                                                                         *)
(* What is abstracted: a snapshot's bytes are a number, and the cursor a   *)
(* slot records is the number of the snapshot it was committed with; a     *)
(* manifest that is absent, short or all zero is two blank slots.          *)
(*                                                                         *)
(* A definition introduced as faulty is a bug the code could have had: it  *)
(* stands before the definition it imitates and nothing uses it.           *)
(***************************************************************************)
EXTENDS Integers, FiniteSets

CONSTANTS
    Retain,      \* StoreConfig::retain
    MaxCommits,  \* commits begun, in all
    Budgets      \* how often the power fails, the process is killed, a call fails

ASSUME StoreAssumption ==
    /\ Retain \in Nat \ {0} /\ MaxCommits \in Nat
    /\ Budgets \subseteq [power : Nat, kills : Nat, io : Nat]

VARIABLES
    cache,     \* temp, files and slots as the kernel shows them
    disk,      \* the same as the disk is sure to hold them
    mem,       \* SnapshotStore: slots, active, poisoned
    pc,        \* the next call; "closed" before an open, "ready" between commits
    acked,     \* the snapshot of the last commit that returned Ok, or was recovered
    offered,   \* the snapshot of the commit under way, or of the one that failed
    commits,   \* commits begun
    returned,  \* some commit returned Ok
    budget     \* mishaps left

vars == <<cache, disk, mem, pc, acked, offered, commits, returned, budget>>

NoData == 0
Garbage == -1
NoFile == [data |-> NoData, synced |-> TRUE]
Blank == [version |-> 0, cursor |-> NoData]
Torn == [version |-> -1, cursor |-> NoData]

Versions == 1..MaxCommits
Sides == {0, 1}

File == [data : {NoData, Garbage} \cup Versions, synced : BOOLEAN]
SlotRecord == [version : Versions, cursor : Versions]
Image == [temp : File, files : [Versions -> File], slots : [Sides -> SlotRecord \cup {Blank, Torn}]]

\* decode_slot: only a whole slot passes its checksum.
Decode(slot) == IF slot.version > 0 THEN slot ELSE Blank

Empty == [temp |-> NoFile, files |-> [v \in Versions |-> NoFile], slots |-> [i \in Sides |-> Blank]]

NoStore == [slots |-> [i \in Sides |-> Blank], active |-> 0, poisoned |-> FALSE]

Init ==
    /\ cache = Empty /\ disk = Empty
    /\ mem = NoStore
    /\ pc = "closed"
    /\ acked = NoData /\ offered = NoData
    /\ commits = 0 /\ returned = FALSE
    /\ budget \in Budgets

Spend(what) ==
    /\ budget[what] > 0
    /\ budget' = [budget EXCEPT ![what] = @ - 1]

-----------------------------------------------------------------------------
(***************************************************************************)
(* The file system.                                                        *)
(***************************************************************************)
Exists(file) == file # NoFile

\* Vfs::fsync_dir: the names are durable.
FsyncDir == disk' = [disk EXCEPT !.temp = cache.temp, !.files = cache.files]

\* What a power failure may leave of one file, and of one slot.
FileLeft(kept, seen) ==
    {f \in {kept, seen} : f.synced}
    \cup {[data |-> d, synced |-> TRUE] : d \in {f.data : f \in {g \in {kept, seen} : ~g.synced}}}
    \cup {[data |-> Garbage, synced |-> TRUE] : f \in {g \in {kept, seen} : ~g.synced}}

SlotLeft(kept, seen) == {kept, seen} \cup (IF kept = seen THEN {} ELSE {Torn})

-----------------------------------------------------------------------------
(***************************************************************************)
(* SnapshotStore::open.                                                    *)
(***************************************************************************)
\* An orphan temp file is removed, and the removal synced.
OpenRepair ==
    /\ pc = "closed"
    /\ cache' = [cache EXCEPT !.temp = NoFile]
    /\ pc' = IF Exists(cache.temp) THEN "repaired" ELSE "manifest"
    /\ UNCHANGED <<disk, mem, acked, offered, commits, returned, budget>>

OpenSyncRepair ==
    /\ pc = "repaired"
    /\ FsyncDir
    /\ pc' = "manifest"
    /\ UNCHANGED <<cache, mem, acked, offered, commits, returned, budget>>

\* The valid slot of the higher version.
NewestSide(slots) ==
    IF slots[1].version > slots[0].version THEN 1 ELSE 0

\* The manifest holds written bytes, but no slot passes its checksum.
CorruptManifest ==
    /\ \A i \in Sides : Decode(cache.slots[i]) = Blank
    /\ \E i \in Sides : cache.slots[i] = Torn

\* The active slot's snapshot is what the open recovers.
OpenRead ==
    /\ pc = "manifest"
    /\ LET slots  == [i \in Sides |-> Decode(cache.slots[i])]
           active == NewestSide(slots)
           record == slots[active]
           found  == IF record = Blank THEN NoFile ELSE cache.files[record.version]
       IN IF CorruptManifest \/ (record # Blank /\ ~Exists(found))
          THEN pc' = "refused" /\ UNCHANGED <<mem, acked, offered>>
          ELSE /\ mem' = [slots |-> slots, active |-> active, poisoned |-> FALSE]
               /\ acked' = found.data
               /\ offered' = NoData
               /\ pc' = "prune"
    /\ UNCHANGED <<cache, disk, commits, returned, budget>>

\* A call of the open fails, and open returns the error.
OpenFails ==
    /\ pc \in {"closed", "repaired", "manifest"}
    /\ Spend("io")
    /\ pc' = "closed"
    /\ UNCHANGED <<cache, disk, mem, acked, offered, commits, returned>>

-----------------------------------------------------------------------------
(***************************************************************************)
(* prune: a step per file removed, then the directory sync.  An error ends *)
(* it and is ignored.                                                      *)
(***************************************************************************)
\* A faulty prune that looks at the active slot alone.
UnreferencedByActive ==
    {v \in Versions : Exists(cache.files[v]) /\ mem.slots[mem.active].version # v}

Unreferenced ==
    {v \in Versions : Exists(cache.files[v]) /\ \A i \in Sides : mem.slots[i].version # v}

PruneOne ==
    /\ pc \in {"prune", "pruned"}
    /\ Cardinality(Unreferenced) > Retain
    /\ \E v \in Unreferenced :
         /\ \A w \in Unreferenced : v <= w
         /\ cache' = [cache EXCEPT !.files[v] = NoFile]
    /\ pc' = "pruned"
    /\ UNCHANGED <<disk, mem, acked, offered, commits, returned, budget>>

PruneEnds ==
    /\ pc \in {"prune", "pruned"}
    /\ Cardinality(Unreferenced) <= Retain
    /\ IF pc = "pruned" THEN FsyncDir ELSE UNCHANGED disk
    /\ pc' = "ready"
    /\ UNCHANGED <<cache, mem, acked, offered, commits, returned, budget>>

PruneFails ==
    /\ pc \in {"prune", "pruned"}
    /\ Spend("io")
    /\ pc' = "ready"
    /\ UNCHANGED <<cache, disk, mem, acked, offered, commits, returned>>

-----------------------------------------------------------------------------
(***************************************************************************)
(* commit_once.                                                            *)
(***************************************************************************)
NextVersion == mem.slots[mem.active].version + 1

\* A faulty choice of the slot to overwrite.
OlderActive == mem.active

Older == 1 - mem.active

WriteTemp ==
    /\ pc = "ready" /\ ~mem.poisoned
    /\ commits < MaxCommits
    /\ commits' = commits + 1
    /\ offered' = commits + 1
    /\ cache' = [cache EXCEPT !.temp = [data |-> commits + 1, synced |-> FALSE]]
    /\ pc' = "synctemp"
    /\ UNCHANGED <<disk, mem, acked, returned, budget>>

\* A faulty commit that does not sync the temp file.
SyncTempSkipped ==
    /\ pc = "synctemp"
    /\ pc' = "rename"
    /\ UNCHANGED <<cache, disk, mem, acked, offered, commits, returned, budget>>

SyncTemp ==
    /\ pc = "synctemp"
    /\ cache' = [cache EXCEPT !.temp.synced = TRUE]
    /\ pc' = "rename"
    /\ UNCHANGED <<disk, mem, acked, offered, commits, returned, budget>>

Rename ==
    /\ pc = "rename"
    /\ cache' = [cache EXCEPT !.files[NextVersion] = cache.temp, !.temp = NoFile]
    /\ pc' = "syncdir"
    /\ UNCHANGED <<disk, mem, acked, offered, commits, returned, budget>>

SyncDir ==
    /\ pc = "syncdir"
    /\ FsyncDir
    /\ pc' = "slot"
    /\ UNCHANGED <<cache, mem, acked, offered, commits, returned, budget>>

Record == [version |-> NextVersion, cursor |-> offered]

WriteSlot ==
    /\ pc = "slot"
    /\ cache' = [cache EXCEPT !.slots[Older] = Record]
    /\ pc' = "syncslot"
    /\ UNCHANGED <<disk, mem, acked, offered, commits, returned, budget>>

\* The commit point: the whole manifest is synced, and the active slot flips.
SyncSlot ==
    /\ pc = "syncslot"
    /\ disk' = [disk EXCEPT !.slots = cache.slots]
    /\ mem' = [mem EXCEPT !.slots[Older] = Record, !.active = Older]
    /\ acked' = offered
    /\ offered' = NoData
    /\ returned' = TRUE
    /\ pc' = "prune"
    /\ UNCHANGED <<cache, commits, budget>>

\* commit: a call that fails poisons the store.  A write may be done in part.
Poison == mem' = [mem EXCEPT !.poisoned = TRUE] /\ pc' = "ready"

CommitFails ==
    /\ pc \in {"synctemp", "rename", "syncdir", "syncslot"}
    /\ Spend("io")
    /\ Poison
    /\ UNCHANGED <<cache, disk, acked, offered, commits, returned>>

\* The failing write of the temp file did not create it.
TempWriteFails ==
    /\ pc = "synctemp"
    /\ Spend("io")
    /\ cache' = [cache EXCEPT !.temp = NoFile]
    /\ Poison
    /\ UNCHANGED <<disk, acked, offered, commits, returned>>

SlotWriteFails ==
    /\ pc = "slot"
    /\ Spend("io")
    /\ \E left \in {cache.slots[Older], Torn, Record} :
         cache' = [cache EXCEPT !.slots[Older] = left]
    /\ Poison
    /\ UNCHANGED <<disk, acked, offered, commits, returned>>

-----------------------------------------------------------------------------
(***************************************************************************)
(* The store is dropped, the process killed, or the power cut.             *)
(***************************************************************************)
Close ==
    /\ pc = "ready"
    /\ mem' = NoStore
    /\ pc' = "closed"
    /\ UNCHANGED <<cache, disk, acked, offered, commits, returned, budget>>

Killed ==
    /\ pc \notin {"closed", "ready", "refused"}
    /\ Spend("kills")
    /\ mem' = NoStore
    /\ pc' = "closed"
    /\ UNCHANGED <<cache, disk, acked, offered, commits, returned>>

PowerFails ==
    /\ Spend("power")
    /\ \E left \in [temp : FileLeft(disk.temp, cache.temp),
                    files : [Versions -> UNION {FileLeft(disk.files[v], cache.files[v]) : v \in Versions}],
                    slots : [Sides -> UNION {SlotLeft(disk.slots[i], cache.slots[i]) : i \in Sides}]] :
         /\ \A v \in Versions : left.files[v] \in FileLeft(disk.files[v], cache.files[v])
         /\ \A i \in Sides : left.slots[i] \in SlotLeft(disk.slots[i], cache.slots[i])
         /\ cache' = left /\ disk' = left
    /\ mem' = NoStore
    /\ pc' = "closed"
    /\ UNCHANGED <<acked, offered, commits, returned>>

\* What an open refuses stays refused until an operator steps in.
Refused == pc = "refused" /\ UNCHANGED vars

-----------------------------------------------------------------------------
Opens == OpenRepair \/ OpenSyncRepair \/ OpenRead \/ OpenFails

Prunes == PruneOne \/ PruneEnds \/ PruneFails

Commits ==
    \/ WriteTemp \/ SyncTemp \/ Rename \/ SyncDir \/ WriteSlot \/ SyncSlot
    \/ CommitFails \/ TempWriteFails \/ SlotWriteFails

Next == Opens \/ Prunes \/ Commits \/ Close \/ Killed \/ PowerFails \/ Refused

Spec == Init /\ [][Next]_vars

-----------------------------------------------------------------------------
(***************************************************************************)
(* Properties.                                                             *)
(***************************************************************************)
\* The values each variable takes.
TypeOK ==
    /\ cache \in Image /\ disk \in Image
    /\ mem.active \in Sides /\ mem.poisoned \in BOOLEAN
    /\ \A i \in Sides : mem.slots[i] \in SlotRecord \cup {Blank}
    /\ acked \in Versions \cup {NoData} /\ offered \in Versions \cup {NoData}
    /\ commits \in 0..MaxCommits /\ returned \in BOOLEAN

\* Once a commit returned Ok no open refuses the directory: neither are both
\* slots torn nor is the snapshot the newest slot names gone, wherever between
\* two calls the process, the power or a call failed.
OpensAfterAck == returned => pc # "refused"

\* The snapshot every valid slot names is the one it was committed with, whole
\* and under its name, though a version number is used again after a failed
\* commit: what serves if the newer slot is lost serves the cursor it records.
SlotsNameTheirSnapshot ==
    pc \in {"ready", "synctemp", "rename", "syncdir", "slot", "syncslot"} =>
      \A i \in Sides :
        mem.slots[i] # Blank => cache.files[mem.slots[i].version].data = mem.slots[i].cursor

\* An open recovers the last commit that returned Ok, or the one that was under
\* way: never an older one, never a mixture.
Cell == INSTANCE SnapshotCell WITH Data <- Versions, stored <- acked, pending <- offered
ImplementsCell == Cell!CellSpec
=============================================================================
