---------------------------- MODULE StoreProofs -----------------------------
(***************************************************************************)
(* Proofs about Store, for every number of commits and of retained files,  *)
(* on a machine that loses its power and on one whose process dies and     *)
(* whose calls fail, any number of times.  On a machine where both happen  *)
(* the theorems do not hold: see the run store_adopted_slot.               *)
(***************************************************************************)
EXTENDS Store, TLAPS

USE StoreAssumption

\* No machine has both kinds of mishap.
OneKindOfMishap ==
    \A b \in Budgets : b.power = 0 \/ (b.kills = 0 /\ b.io = 0)

-----------------------------------------------------------------------------
(***************************************************************************)
(* The inductive invariant.                                                *)
(***************************************************************************)
Slot == SlotRecord \cup {Blank, Torn}

Underway == {"synctemp", "rename", "syncdir", "slot", "syncslot"}
Running == Underway \cup {"prune", "pruned", "ready"}

\* A file whose bytes are all there.
Whole(data) == [data |-> data, synced |-> TRUE]

\* Every valid slot names the whole snapshot it was committed with.
SlotsSound(slots, files) ==
    \A i \in Sides : slots[i].version > 0 => files[slots[i].version] = Whole(slots[i].cursor)

\* The cursor of the slot an open makes active.
Newest(slots) == slots[NewestSide(slots)].cursor

\* The values each variable takes, those of the store in memory and of the control too.
StoreTyped ==
    /\ TypeOK
    /\ mem \in [slots : [Sides -> SlotRecord \cup {Blank}], active : Sides, poisoned : BOOLEAN]
    /\ pc \in Running \cup {"closed", "repaired", "manifest", "refused"}
    /\ budget \in [power : Nat, kills : Nat, io : Nat]

\* What an open would find now.
Reopens ==
    /\ SlotsSound(cache.slots, cache.files)
    /\ \A i \in Sides : cache.slots[i].version <= commits
    /\ returned = TRUE => \E i \in Sides : cache.slots[i].version > 0
    /\ Newest(cache.slots) = acked \/ (offered # NoData /\ Newest(cache.slots) = offered)
    /\ pc = "refused" => returned = FALSE

\* The open store knows the slots: but for a slot it is writing, or failed to write,
\* its copy is theirs.
MemoryCurrent ==
    pc \in Running =>
      /\ mem.active = NewestSide(mem.slots)
      /\ acked = mem.slots[mem.active].cursor
      /\ returned = TRUE => mem.slots[mem.active].version > 0
      /\ SlotsSound(mem.slots, cache.files)
      /\ \A i \in Sides : mem.slots[i].version <= commits
      /\ Decode(cache.slots[mem.active]) = mem.slots[mem.active]
      /\ mem.poisoned = FALSE /\ pc # "syncslot" => Decode(cache.slots[Older]) = mem.slots[Older]
      /\ mem.poisoned = TRUE => pc = "ready"

\* How far the commit under way has come.
CommitProgress ==
    /\ pc \in {"prune", "pruned", "ready"} /\ mem.poisoned = FALSE => offered = NoData
    /\ pc \in Underway => offered \in Versions /\ NextVersion \in Versions /\ NextVersion <= commits
    /\ pc = "synctemp" => cache.temp.data = offered
    /\ pc = "rename" => cache.temp = Whole(offered)
    /\ pc \in {"syncdir", "slot", "syncslot"} => cache.files[NextVersion] = Whole(offered)
    /\ pc = "syncslot" => cache.slots[Older] = Record

\* While the power may fail the disk holds what the slots need, and the slots but
\* for one that is being written.
DiskFollows ==
    budget.power > 0 =>
      /\ budget.kills = 0 /\ budget.io = 0
      /\ mem.poisoned = FALSE
      /\ SlotsSound(cache.slots, disk.files)
      /\ SlotsSound(disk.slots, cache.files)
      /\ SlotsSound(disk.slots, disk.files)
      /\ pc # "syncslot" => disk.slots = cache.slots
      /\ pc = "syncslot" => /\ disk.slots[mem.active] = cache.slots[mem.active]
                            /\ Decode(disk.slots[Older]) = mem.slots[Older]
      /\ pc \in {"slot", "syncslot"} => disk.files[NextVersion] = Whole(offered)

StoreInv == StoreTyped /\ Reopens /\ MemoryCurrent /\ CommitProgress /\ DiskFollows

-----------------------------------------------------------------------------
(***************************************************************************)
(* Slots and files.                                                        *)
(***************************************************************************)
\* A slot is a record, or is blank, or is torn; decode_slot keeps the records.
LEMMA SlotKinds ==
    ASSUME NEW s \in Slot
    PROVE  /\ s.version \in Int /\ s.version >= -1 /\ s.cursor \in Versions \cup {NoData}
           /\ s.version > 0 => s \in SlotRecord /\ Decode(s) = s /\ s.version \in Versions
           /\ s.version <= 0 => Decode(s) = Blank /\ s.cursor = NoData
           /\ Decode(s) \in SlotRecord \cup {Blank} /\ Decode(s).version \in Nat
           /\ Decode(s).cursor = s.cursor
  <1>1. CASE s \in SlotRecord
    <2>1. s.version \in Versions /\ s.cursor \in Versions
      BY <1>1 DEF SlotRecord
    <2>2. s.version \in Nat /\ s.version > 0
      BY <2>1 DEF Versions
    <2>3. Decode(s) = s
      BY <2>2 DEF Decode
    <2>4. QED
      BY <1>1, <2>1, <2>2, <2>3
  <1>2. CASE s \in {Blank, Torn}
    <2>1. s.version \in {0, -1} /\ s.cursor = NoData
      BY <1>2 DEF Blank, Torn
    <2>2. Decode(s) = Blank /\ Blank.version = 0 /\ Blank.cursor = NoData
      BY <2>1 DEF Decode, Blank
    <2>3. QED
      BY <2>1, <2>2
  <1>3. QED
    BY <1>1, <1>2 DEF Slot

\* The slot of the higher version is the newest.
LEMMA NewestOfHigher ==
    ASSUME NEW slots \in [Sides -> Slot], NEW i \in Sides,
           slots[i].version > slots[1 - i].version
    PROVE  Newest(slots) = slots[i].cursor
  <1>1. slots[0].version \in Int /\ slots[1].version \in Int
    BY SlotKinds DEF Sides
  <1>2. QED
    BY <1>1 DEF Newest, NewestSide, Sides

\* A torn slot leaves the other one.
LEMMA NewestOfTorn ==
    ASSUME NEW slots \in [Sides -> Slot], NEW i \in Sides, slots[1 - i] = Torn
    PROVE  Newest(slots) = slots[i].cursor
  <1>1. /\ slots[i].version \in Int /\ slots[i].version >= -1 /\ slots[1 - i].version = -1
        /\ slots[i].version <= 0 => slots[i].cursor = NoData
        /\ slots[1 - i].cursor = NoData
    BY SlotKinds DEF Sides, Torn
  <1>2. CASE slots[i].version > -1
    BY <1>1, <1>2, NewestOfHigher
  <1>3. CASE slots[i].version = -1
    BY <1>1, <1>3 DEF Newest, NewestSide, Sides
  <1>4. QED
    BY <1>1, <1>2, <1>3

\* Decoding the slots does not change which one serves.
LEMMA NewestDecoded ==
    ASSUME NEW slots \in [Sides -> Slot], NEW decoded,
           \A i \in Sides : decoded[i] = Decode(slots[i])
    PROVE  Newest(decoded) = Newest(slots)
  <1>1. \A i \in Sides :
           /\ decoded[i] = Decode(slots[i])
           /\ slots[i].version > 0 => decoded[i] = slots[i]
           /\ slots[i].version <= 0 => decoded[i] = Blank /\ slots[i].cursor = NoData
           /\ slots[i].version \in Int
    BY SlotKinds
  <1>2. Blank.version = 0 /\ Blank.cursor = NoData
    BY DEF Blank
  <1>3. 0 \in Sides /\ 1 \in Sides
    BY DEF Sides
  <1>4. CASE slots[0].version <= 0 /\ slots[1].version <= 0
    <2>1. decoded[0] = Blank /\ decoded[1] = Blank /\ slots[0].cursor = NoData /\ slots[1].cursor = NoData
      BY <1>1, <1>3, <1>4
    <2>2. QED
      BY <1>2, <2>1 DEF Newest, NewestSide
  <1>5. CASE slots[1].version > 0 /\ slots[1].version > slots[0].version
    <2>1. decoded[1] = slots[1] /\ decoded[1].version > decoded[0].version
      BY <1>1, <1>2, <1>3, <1>5
    <2>2. QED
      BY <1>5, <2>1 DEF Newest, NewestSide
  <1>6. CASE slots[0].version > 0 /\ ~(slots[1].version > slots[0].version)
    <2>1. decoded[0] = slots[0] /\ ~(decoded[1].version > decoded[0].version)
      BY <1>1, <1>2, <1>3, <1>6
    <2>2. QED
      BY <1>6, <2>1 DEF Newest, NewestSide
  <1>7. QED
    BY <1>1, <1>3, <1>4, <1>5, <1>6

\* A file that is whole in the cache and on the disk survives a power failure.
LEMMA WholeStays ==
    ASSUME NEW d, NEW f \in FileLeft(Whole(d), Whole(d))
    PROVE  f = Whole(d)
  BY DEF FileLeft, Whole

\* What a power failure leaves of a file is a file.
LEMMA FileLeftTyped ==
    ASSUME NEW f \in File, NEW g \in File
    PROVE  FileLeft(f, g) \subseteq File
  <1>1. \A d \in {NoData, Garbage} \cup Versions : [data |-> d, synced |-> TRUE] \in File
    BY DEF File
  <1>2. \A h \in {f, g} : h \in File /\ h.data \in {NoData, Garbage} \cup Versions
    BY DEF File
  <1>3. SUFFICES ASSUME NEW h \in FileLeft(f, g) PROVE h \in File
    OBVIOUS
  <1>4. \/ h \in {f, g}
        \/ \E k \in {f, g} : h = [data |-> k.data, synced |-> TRUE]
        \/ h = [data |-> Garbage, synced |-> TRUE]
    BY <1>3 DEF FileLeft
  <1>5. QED
    BY <1>1, <1>2, <1>4

\* The types, field by field.
LEMMA StoreTypes ==
    ASSUME StoreTyped
    PROVE  /\ cache.temp \in File /\ cache.files \in [Versions -> File]
           /\ cache.slots \in [Sides -> Slot]
           /\ disk.temp \in File /\ disk.files \in [Versions -> File]
           /\ disk.slots \in [Sides -> Slot]
           /\ mem.slots \in [Sides -> SlotRecord \cup {Blank}] /\ mem.slots \in [Sides -> Slot]
           /\ mem.active \in Sides /\ mem.poisoned \in BOOLEAN
           /\ Older \in Sides /\ Older = 1 - mem.active /\ mem.active = 1 - Older
           /\ commits \in Nat /\ commits <= MaxCommits
           /\ budget.power \in Nat /\ budget.kills \in Nat /\ budget.io \in Nat
  <1>1. /\ cache \in Image /\ disk \in Image
    BY DEF StoreTyped, TypeOK
  <1>2. /\ cache.temp \in File /\ cache.files \in [Versions -> File]
        /\ cache.slots \in [Sides -> Slot]
        /\ disk.temp \in File /\ disk.files \in [Versions -> File]
        /\ disk.slots \in [Sides -> Slot]
    BY <1>1 DEF Image, Slot
  <1>3. /\ mem.slots \in [Sides -> SlotRecord \cup {Blank}]
        /\ mem.active \in Sides /\ mem.poisoned \in BOOLEAN
    BY DEF StoreTyped
  <1>4. mem.slots \in [Sides -> Slot]
    BY <1>3 DEF Slot
  <1>5. Older \in Sides /\ Older = 1 - mem.active /\ mem.active = 1 - Older
    BY <1>3 DEF Older, Sides
  <1>6. commits \in Nat /\ commits <= MaxCommits
    BY DEF StoreTyped, TypeOK
  <1>7. budget.power \in Nat /\ budget.kills \in Nat /\ budget.io \in Nat
    BY DEF StoreTyped
  <1>8. QED
    BY <1>2, <1>3, <1>4, <1>5, <1>6, <1>7

\* A mishap is taken from the budget, which has one kind of them.
LEMMA SpendTyped ==
    ASSUME StoreInv, NEW what \in {"power", "kills", "io"}, Spend(what)
    PROVE  /\ budget' \in [power : Nat, kills : Nat, io : Nat]
           /\ what # "power" => budget.power = 0 /\ budget'.power = 0
           /\ what = "power" => budget.power > 0
           /\ budget'.power > 0 => budget'.kills = budget.kills /\ budget'.io = budget.io
  <1>1. budget \in [power : Nat, kills : Nat, io : Nat] /\ budget[what] > 0
    BY DEF StoreInv, StoreTyped, Spend
  <1>2. budget' = [budget EXCEPT ![what] = @ - 1]
    BY DEF Spend
  <1>3. CASE what = "power"
    BY <1>1, <1>2, <1>3
  <1>4. CASE what = "kills"
    <2>1. budget.power = 0
      BY <1>1, <1>4 DEF StoreInv, DiskFollows
    <2>2. QED
      BY <1>1, <1>2, <1>4, <2>1
  <1>5. CASE what = "io"
    <2>1. budget.power = 0
      BY <1>1, <1>5 DEF StoreInv, DiskFollows
    <2>2. QED
      BY <1>1, <1>2, <1>5, <2>1
  <1>6. QED
    BY <1>3, <1>4, <1>5

-----------------------------------------------------------------------------
(***************************************************************************)
(* Steps to a store that is not open.                                      *)
(***************************************************************************)
\* The store is closed, or stays so, and what an open would find stays: the disk
\* may learn the names of the files.
LEMMA ClosedKeepsInv ==
    ASSUME StoreInv, pc' \in {"closed", "repaired", "manifest"},
           cache' \in Image, cache'.slots = cache.slots, cache'.files = cache.files,
           disk' \in Image, disk'.slots = disk.slots, disk'.files \in {disk.files, cache.files},
           mem' \in {mem, NoStore}, UNCHANGED <<acked, offered, commits, returned>>,
           budget' \in [power : Nat, kills : Nat, io : Nat],
           budget'.power = 0 \/ (budget' = budget /\ pc # "syncslot")
    PROVE  StoreInv'
  <1>1. StoreTyped'
    <2>1. NoStore \in [slots : [Sides -> SlotRecord \cup {Blank}], active : Sides, poisoned : BOOLEAN]
      BY DEF NoStore, Sides
    <2>2. mem' \in [slots : [Sides -> SlotRecord \cup {Blank}], active : Sides, poisoned : BOOLEAN]
      BY <2>1 DEF StoreInv, StoreTyped
    <2>3. /\ mem'.active \in Sides /\ mem'.poisoned \in BOOLEAN
          /\ \A i \in Sides : mem'.slots[i] \in SlotRecord \cup {Blank}
      BY <2>2
    <2>4. TypeOK'
      BY <2>3 DEF StoreInv, StoreTyped, TypeOK
    <2>5. QED
      BY <2>2, <2>4 DEF StoreTyped
  <1>2. Reopens'
    BY DEF StoreInv, Reopens
  <1>3. MemoryCurrent' /\ CommitProgress'
    BY DEF MemoryCurrent, CommitProgress, Running, Underway
  <1>4. DiskFollows'
    <2>1. SUFFICES ASSUME budget'.power > 0
                   PROVE  DiskFollows'
      BY DEF DiskFollows
    <2>2. budget' = budget /\ pc # "syncslot" /\ budget.power > 0
      BY <2>1
    <2>3. mem'.poisoned = FALSE
      BY <2>2 DEF StoreInv, DiskFollows, NoStore
    <2>4. /\ SlotsSound(cache'.slots, disk'.files) /\ SlotsSound(disk'.slots, cache'.files)
          /\ SlotsSound(disk'.slots, disk'.files)
      BY <2>2 DEF StoreInv, DiskFollows, Reopens
    <2>5. budget'.kills = 0 /\ budget'.io = 0 /\ disk'.slots = cache'.slots
      BY <2>2 DEF StoreInv, DiskFollows
    <2>6. QED
      BY <2>3, <2>4, <2>5 DEF DiskFollows
  <1>5. QED
    BY <1>1, <1>2, <1>3, <1>4 DEF StoreInv

\* An open that repairs the directory or fails, and the end of the process.
LEMMA ClosingKeepsInv ==
    ASSUME StoreInv, OpenRepair \/ OpenSyncRepair \/ OpenFails \/ Close \/ Killed
    PROVE  StoreInv'
  <1>1. /\ cache \in Image /\ disk \in Image /\ budget \in [power : Nat, kills : Nat, io : Nat]
        /\ cache.temp \in File /\ cache.files \in [Versions -> File] /\ NoFile \in File
    BY StoreTypes DEF StoreInv, StoreTyped, TypeOK, NoFile, File
  <1>2. CASE OpenRepair
    <2>1. /\ cache' = [cache EXCEPT !.temp = NoFile] /\ pc = "closed"
          /\ pc' \in {"repaired", "manifest"}
          /\ UNCHANGED <<disk, mem, acked, offered, commits, returned, budget>>
      BY <1>2 DEF OpenRepair
    <2>2. cache' \in Image /\ cache'.slots = cache.slots /\ cache'.files = cache.files
      BY <1>1, <2>1 DEF Image
    <2>3. QED
      BY <1>1, <2>1, <2>2, ClosedKeepsInv
  <1>3. CASE OpenSyncRepair
    <2>1. /\ disk' = [disk EXCEPT !.temp = cache.temp, !.files = cache.files] /\ pc = "repaired"
          /\ pc' = "manifest"
          /\ UNCHANGED <<cache, mem, acked, offered, commits, returned, budget>>
      BY <1>3 DEF OpenSyncRepair, FsyncDir
    <2>2. disk' \in Image /\ disk'.slots = disk.slots /\ disk'.files = cache.files
      BY <1>1, <2>1 DEF Image
    <2>3. QED
      BY <1>1, <2>1, <2>2, ClosedKeepsInv
  <1>4. CASE OpenFails
    <2>1. Spend("io") /\ pc' = "closed" /\ UNCHANGED <<cache, disk, mem, acked, offered, commits, returned>>
      BY <1>4 DEF OpenFails
    <2>2. QED
      BY <1>1, <2>1, SpendTyped, ClosedKeepsInv
  <1>5. CASE Close
    BY <1>1, <1>5, ClosedKeepsInv DEF Close
  <1>6. CASE Killed
    <2>1. Spend("kills") /\ pc' = "closed" /\ mem' = NoStore
          /\ UNCHANGED <<cache, disk, acked, offered, commits, returned>>
      BY <1>6 DEF Killed
    <2>2. QED
      BY <1>1, <2>1, SpendTyped, ClosedKeepsInv
  <1>7. QED
    BY <1>2, <1>3, <1>4, <1>5, <1>6

\* An open reads the manifest: it recovers the newest slot's snapshot, and it does
\* not refuse a directory that served a commit.
LEMMA OpenReadKeepsInv ==
    ASSUME StoreInv, OpenRead
    PROVE  /\ StoreInv'
           /\ \/ acked' = Newest(cache.slots) /\ offered' = NoData
              \/ UNCHANGED <<acked, offered>>
  <1> DEFINE slots  == [i \in Sides |-> Decode(cache.slots[i])]
             active == NewestSide(slots)
             record == slots[active]
             found  == IF record = Blank THEN NoFile ELSE cache.files[record.version]
  <1>1. /\ pc = "manifest"
        /\ \/ /\ CorruptManifest \/ (record # Blank /\ ~Exists(found))
              /\ pc' = "refused" /\ UNCHANGED <<mem, acked, offered>>
           \/ /\ mem' = [slots |-> slots, active |-> active, poisoned |-> FALSE]
              /\ acked' = found.data /\ offered' = NoData /\ pc' = "prune"
        /\ UNCHANGED <<cache, disk, commits, returned, budget>>
    BY DEF OpenRead
  <1>2. StoreTyped /\ Reopens /\ DiskFollows
    BY DEF StoreInv
  <1>3. /\ slots \in [Sides -> SlotRecord \cup {Blank}] /\ active \in Sides
        /\ \A i \in Sides : slots[i] = Decode(cache.slots[i])
    <2>1. \A i \in Sides : Decode(cache.slots[i]) \in SlotRecord \cup {Blank}
      BY <1>2, StoreTypes, SlotKinds
    <2>2. QED
      BY <2>1 DEF NewestSide, Sides
  <1>4. record = Decode(cache.slots[active]) /\ record.cursor = Newest(cache.slots)
    <2>1. Newest(slots) = record.cursor
      BY DEF Newest
    <2>2. Newest(slots) = Newest(cache.slots)
      BY <1>2, <1>3, StoreTypes, NewestDecoded
    <2>3. QED
      BY <1>3, <2>1, <2>2
  <1> HIDE DEF slots, active
  <1>5. SlotsSound(slots, cache.files)
    <2>1. ASSUME NEW i \in Sides, slots[i].version > 0
          PROVE  slots[i] = cache.slots[i]
      <3>1. cache.slots[i] \in Slot /\ Blank.version = 0
        BY <1>2, StoreTypes DEF Blank
      <3>2. QED
        BY <1>3, <2>1, <3>1, SlotKinds
    <2>2. QED
      BY <1>2, <2>1 DEF SlotsSound, Reopens
  <1>6. found.data = record.cursor /\ (record # Blank => Exists(found))
    <2>1. CASE record = Blank
      BY <2>1 DEF Blank, NoFile
    <2>2. CASE record # Blank
      <3>1. record \in SlotRecord
        BY <1>3, <2>2
      <3>2. record.version > 0 /\ record.cursor \in Versions
        BY <3>1 DEF SlotRecord, Versions
      <3>3. found = Whole(record.cursor)
        BY <1>3, <1>5, <2>2, <3>2 DEF SlotsSound
      <3>4. record.cursor # NoData
        BY <3>2 DEF Versions, NoData
      <3>5. QED
        BY <3>3, <3>4 DEF Whole, Exists, NoFile
    <2>3. QED
      BY <2>1, <2>2
  <1>7. CASE pc' = "refused"
    <2>1. CorruptManifest /\ UNCHANGED <<mem, acked, offered>>
      BY <1>1, <1>6, <1>7
    <2>2. returned = FALSE
      <3>1. returned \in BOOLEAN
        BY <1>2 DEF StoreTyped, TypeOK
      <3>2. ASSUME NEW i \in Sides PROVE ~(cache.slots[i].version > 0)
        <4>1. cache.slots[i] \in Slot /\ Decode(cache.slots[i]) = Blank
          BY <1>2, <2>1, StoreTypes DEF CorruptManifest
        <4>2. QED
          BY <4>1, SlotKinds DEF Blank, SlotRecord, Versions
      <3>3. QED
        BY <1>2, <3>1, <3>2 DEF Reopens
    <2>3. StoreTyped'
      BY <1>1, <1>2, <1>7, <2>1 DEF StoreTyped, TypeOK
    <2>4. Reopens'
      BY <1>1, <1>2, <1>7, <2>1, <2>2 DEF Reopens
    <2>5. MemoryCurrent' /\ CommitProgress'
      BY <1>7 DEF MemoryCurrent, CommitProgress, Running, Underway
    <2>6. DiskFollows'
      BY <1>1, <1>2, <1>7, <2>1 DEF DiskFollows
    <2>7. QED
      BY <2>1, <2>3, <2>4, <2>5, <2>6 DEF StoreInv
  <1>8. CASE pc' # "refused"
    <2>1. /\ mem' = [slots |-> slots, active |-> active, poisoned |-> FALSE]
          /\ acked' = record.cursor /\ offered' = NoData /\ pc' = "prune"
      BY <1>1, <1>6, <1>8
    <2>2. mem'.slots = slots /\ mem'.active = active /\ mem'.poisoned = FALSE
      BY <2>1
    <2>3. StoreTyped'
      <3>1. mem' \in [slots : [Sides -> SlotRecord \cup {Blank}], active : Sides, poisoned : BOOLEAN]
        BY <1>3, <2>1
      <3>2. acked' \in Versions \cup {NoData}
        BY <1>3, <2>1 DEF SlotRecord, Blank
      <3>3. /\ mem'.active \in Sides /\ mem'.poisoned \in BOOLEAN
            /\ \A i \in Sides : mem'.slots[i] \in SlotRecord \cup {Blank}
        BY <3>1
      <3>4. TypeOK'
        BY <1>1, <1>2, <2>1, <3>2, <3>3 DEF StoreTyped, TypeOK
      <3>5. QED
        BY <1>1, <1>2, <2>1, <3>1, <3>4 DEF StoreTyped, Running
    <2>4. Reopens'
      BY <1>1, <1>2, <1>4, <2>1 DEF Reopens
    <2>5. MemoryCurrent'
      <3>1. \A i \in Sides : mem'.slots[i].version <= commits'
        <4>1. ASSUME NEW i \in Sides PROVE slots[i].version <= commits
          <5>1. cache.slots[i] \in Slot /\ cache.slots[i].version <= commits /\ commits \in Nat
            BY <1>2, StoreTypes DEF Reopens
          <5>2. QED
            BY <1>3, <5>1, SlotKinds DEF Blank
        <4>2. QED
          BY <1>1, <2>2, <4>1
      <3>2. mem'.active = NewestSide(mem'.slots) /\ acked' = mem'.slots[mem'.active].cursor
        BY <2>1, <2>2 DEF active
      <3>3. Older' \in Sides
        BY <1>3, <2>2 DEF Older, Sides
      <3>4. returned = TRUE => slots[active].version > 0
        <4>1. \A i \in Sides : slots[i].version \in Nat
          BY <1>3 DEF SlotRecord, Blank, Versions
        <4>2. \A i \in Sides : slots[i].version <= slots[active].version
          BY <4>1 DEF active, NewestSide, Sides
        <4>3. returned = TRUE => \E i \in Sides : slots[i].version > 0
          <5>1. \A i \in Sides : cache.slots[i].version > 0 => slots[i].version > 0
            BY <1>2, <1>3, StoreTypes, SlotKinds
          <5>2. QED
            BY <1>2, <5>1 DEF Reopens
        <4>4. QED
          BY <1>3, <4>1, <4>2, <4>3
      <3>5. QED
        BY <1>1, <1>3, <1>5, <2>1, <2>2, <3>1, <3>2, <3>3, <3>4 DEF MemoryCurrent
    <2>6. CommitProgress'
      BY <2>1 DEF CommitProgress, Underway
    <2>7. DiskFollows'
      BY <1>1, <1>2, <2>1, <2>2 DEF DiskFollows
    <2>8. QED
      BY <1>4, <2>1, <2>3, <2>4, <2>5, <2>6, <2>7 DEF StoreInv
  <1>9. QED
    BY <1>7, <1>8

-----------------------------------------------------------------------------
(***************************************************************************)
(* Steps of an open store.                                                 *)
(***************************************************************************)
\* The active slot has the highest version, and that of the next commit is higher.
LEMMA ActiveIsHighest ==
    ASSUME StoreInv, pc \in Running
    PROVE  /\ mem.slots[mem.active].version \in Nat
           /\ \A i \in Sides : /\ mem.slots[i].version \in Nat
                               /\ mem.slots[i].version <= mem.slots[mem.active].version
                               /\ mem.slots[i].version < NextVersion
           /\ NextVersion \in Nat
  <1>1. \A i \in Sides : mem.slots[i].version \in Nat
    BY StoreTypes DEF StoreInv, SlotRecord, Blank, Versions
  <1>2. mem.active = NewestSide(mem.slots) /\ mem.active \in Sides
    BY StoreTypes DEF StoreInv, MemoryCurrent
  <1>3. \A i \in Sides : mem.slots[i].version <= mem.slots[mem.active].version
    BY <1>1, <1>2 DEF NewestSide, Sides
  <1>4. QED
    BY <1>1, <1>2, <1>3 DEF NextVersion

\* Between slot writes the store's copy of the slots is what they decode to.
LEMMA MemoryIsCache ==
    ASSUME StoreInv, pc \in Running, pc # "syncslot", mem.poisoned = FALSE
    PROVE  \A i \in Sides :
             /\ Decode(cache.slots[i]) = mem.slots[i]
             /\ cache.slots[i].version > 0 => cache.slots[i] = mem.slots[i]
             /\ cache.slots[i].version < NextVersion
  <1>1. \A i \in Sides : Decode(cache.slots[i]) = mem.slots[i]
    <2>1. /\ Decode(cache.slots[mem.active]) = mem.slots[mem.active]
          /\ Decode(cache.slots[Older]) = mem.slots[Older]
      BY DEF StoreInv, MemoryCurrent
    <2>2. \A i \in Sides : i = mem.active \/ i = Older
      BY StoreTypes DEF StoreInv, Sides
    <2>3. QED
      BY <2>1, <2>2
  <1>2. SUFFICES ASSUME NEW i \in Sides
                 PROVE  /\ cache.slots[i].version > 0 => cache.slots[i] = mem.slots[i]
                        /\ cache.slots[i].version < NextVersion
    BY <1>1
  <1>3. cache.slots[i] \in Slot
    BY StoreTypes DEF StoreInv
  <1>4. cache.slots[i].version > 0 => cache.slots[i] = mem.slots[i]
    BY <1>1, <1>3, SlotKinds
  <1>5. cache.slots[i].version \in Int
    BY <1>3, SlotKinds
  <1>6. mem.slots[i].version < NextVersion /\ NextVersion \in Nat /\ mem.slots[i].version \in Nat
    BY ActiveIsHighest
  <1>7. QED
    BY <1>4, <1>5, <1>6

\* A step that leaves the slots alone, and the files they name, keeps the store's
\* copy current.
LEMMA MemoryKept ==
    ASSUME StoreInv, pc \in Running, pc' \in Running, pc' # "syncslot",
           cache'.slots = cache.slots, SlotsSound(mem.slots, cache'.files),
           mem'.slots = mem.slots, mem'.active = mem.active, acked' = acked, returned' = returned,
           commits' \in Nat, commits' >= commits,
           pc # "syncslot" \/ mem'.poisoned = TRUE,
           mem'.poisoned = FALSE => mem.poisoned = FALSE,
           mem'.poisoned = TRUE => pc' = "ready"
    PROVE  MemoryCurrent'
  <1>1. MemoryCurrent
    BY DEF StoreInv
  <1>2. \A i \in Sides : mem'.slots[i].version <= commits'
    <2>1. \A i \in Sides : mem.slots[i].version <= commits
      BY <1>1 DEF MemoryCurrent
    <2>2. \A i \in Sides : mem.slots[i].version \in Nat
      BY ActiveIsHighest
    <2>3. commits \in Nat
      BY StoreTypes DEF StoreInv
    <2>4. QED
      BY <2>1, <2>2, <2>3
  <1>3. Older' = Older
    BY DEF Older
  <1>4. QED
    BY <1>1, <1>2, <1>3 DEF MemoryCurrent

\* A file no slot names is removed.
LEMMA PruneOneKeepsInv ==
    ASSUME StoreInv, PruneOne
    PROVE  StoreInv'
  <1>1. PICK v \in Unreferenced : cache' = [cache EXCEPT !.files[v] = NoFile]
    BY DEF PruneOne
  <1>2. /\ pc \in {"prune", "pruned"} /\ pc' = "pruned"
        /\ UNCHANGED <<disk, mem, acked, offered, commits, returned, budget>>
    BY DEF PruneOne
  <1>3. /\ v \in Versions /\ \A i \in Sides : mem.slots[i].version # v
        /\ pc \in Running /\ pc' \in Running /\ mem.poisoned = FALSE
    <2>1. pc \in Running /\ pc' \in Running
      BY <1>2 DEF Running
    <2>2. mem.poisoned \in BOOLEAN /\ (mem.poisoned = TRUE => pc = "ready")
      BY <2>1, StoreTypes DEF StoreInv, MemoryCurrent
    <2>3. QED
      BY <1>1, <1>2, <2>1, <2>2 DEF Unreferenced
  <1>4. /\ cache' \in Image /\ cache'.slots = cache.slots /\ cache'.temp = cache.temp
        /\ cache'.files = [cache.files EXCEPT ![v] = NoFile]
        /\ \A w \in Versions : w # v => cache'.files[w] = cache.files[w]
    <2>1. NoFile \in File /\ cache \in Image
      BY DEF StoreInv, StoreTyped, TypeOK, NoFile, File
    <2>2. cache'.slots = cache.slots /\ cache'.temp = cache.temp
          /\ cache'.files = [cache.files EXCEPT ![v] = NoFile]
      BY <1>1, <2>1 DEF Image
    <2>3. cache'.files \in [Versions -> File]
      BY <2>1, <2>2, StoreTypes DEF StoreInv
    <2>4. cache' \in Image
      BY <1>1, <1>3, <2>1, <2>3 DEF Image
    <2>5. QED
      BY <2>2, <2>4, StoreTypes DEF StoreInv
  <1>5. ASSUME NEW slots \in [Sides -> Slot], SlotsSound(slots, cache.files),
               \A i \in Sides : slots[i].version > 0 => slots[i].version # v
        PROVE  SlotsSound(slots, cache'.files)
    <2>1. \A i \in Sides : slots[i].version > 0 => slots[i].version \in Versions
      BY SlotKinds
    <2>2. QED
      BY <1>4, <1>5, <2>1 DEF SlotsSound
  <1>6. SlotsSound(mem.slots, cache'.files)
    BY <1>3, <1>5, StoreTypes DEF StoreInv, MemoryCurrent
  <1>7. \A i \in Sides : cache.slots[i].version > 0 => cache.slots[i].version # v
    BY <1>2, <1>3, MemoryIsCache
  <1>8. SlotsSound(cache'.slots, cache'.files)
    BY <1>4, <1>5, <1>7, StoreTypes DEF StoreInv, Reopens
  <1>9. StoreTyped'
    BY <1>2, <1>3, <1>4 DEF StoreInv, StoreTyped, TypeOK
  <1>10. Reopens'
    BY <1>2, <1>4, <1>8 DEF StoreInv, Reopens
  <1>11. MemoryCurrent'
    <2>1. /\ commits' \in Nat /\ commits' >= commits /\ UNCHANGED <<acked, returned>> /\ pc # "syncslot"
          /\ pc' # "syncslot" /\ mem'.slots = mem.slots /\ mem'.active = mem.active
      BY <1>1, <1>2, StoreTypes DEF StoreInv
    <2>2. mem'.poisoned = FALSE /\ ~(mem'.poisoned = TRUE)
      BY <1>1, <1>2, <1>3
    <2>3. QED
      BY <1>3, <1>4, <1>6, <2>1, <2>2, MemoryKept
  <1>12. CommitProgress'
    BY <1>2 DEF StoreInv, CommitProgress, Underway
  <1>13. DiskFollows'
    BY <1>2, <1>4, <1>8 DEF StoreInv, DiskFollows
  <1>14. QED
    BY <1>2, <1>9, <1>10, <1>11, <1>12, <1>13 DEF StoreInv

\* A prune ends, with the directory synced or with an error.
LEMMA PruneEndsKeepsInv ==
    ASSUME StoreInv, PruneEnds \/ PruneFails
    PROVE  StoreInv'
  <1>1. /\ pc \in {"prune", "pruned"} /\ pc' = "ready" /\ pc \in Running /\ pc' \in Running
        /\ UNCHANGED <<cache, mem, acked, offered, commits, returned>>
    BY DEF PruneEnds, PruneFails, Running
  <1>2. mem.poisoned = FALSE
    <2>1. mem.poisoned \in BOOLEAN /\ (mem.poisoned = TRUE => pc = "ready")
      BY <1>1, StoreTypes DEF StoreInv, MemoryCurrent
    <2>2. QED
      BY <1>1, <2>1
  <1>3. /\ disk' \in Image /\ disk'.slots = disk.slots /\ disk'.files \in {disk.files, cache.files}
        /\ budget' \in [power : Nat, kills : Nat, io : Nat]
        /\ budget'.power > 0 => budget' = budget
    <2>1. disk \in Image /\ budget \in [power : Nat, kills : Nat, io : Nat]
      BY DEF StoreInv, StoreTyped, TypeOK
    <2>2. CASE PruneFails
      BY <2>1, <2>2, SpendTyped DEF PruneFails
    <2>3. CASE PruneEnds
      <3>1. disk' = disk \/ disk' = [disk EXCEPT !.temp = cache.temp, !.files = cache.files]
        BY <2>3 DEF PruneEnds, FsyncDir
      <3>2. cache.temp \in File /\ cache.files \in [Versions -> File]
        BY StoreTypes DEF StoreInv
      <3>3. disk' \in Image /\ disk'.slots = disk.slots /\ disk'.files \in {disk.files, cache.files}
        BY <2>1, <3>1, <3>2 DEF Image
      <3>4. QED
        BY <2>1, <2>3, <3>3 DEF PruneEnds
    <2>4. QED
      BY <2>2, <2>3
  <1>4. StoreTyped'
    BY <1>1, <1>3 DEF StoreInv, StoreTyped, TypeOK
  <1>5. Reopens'
    BY <1>1 DEF StoreInv, Reopens
  <1>6. MemoryCurrent'
    <2>1. /\ commits' \in Nat /\ commits' >= commits /\ UNCHANGED <<acked, returned>> /\ pc # "syncslot"
          /\ pc' # "syncslot" /\ mem'.slots = mem.slots /\ mem'.active = mem.active
      BY <1>1, <1>2, StoreTypes DEF StoreInv
    <2>2. mem'.poisoned = FALSE /\ ~(mem'.poisoned = TRUE)
      BY <1>1, <1>2, <1>3
    <2>3. cache'.slots = cache.slots /\ SlotsSound(mem.slots, cache'.files)
      BY <1>1 DEF StoreInv, MemoryCurrent
    <2>4. QED
      BY <1>1, <1>2, <2>1, <2>2, <2>3, MemoryKept
  <1>7. CommitProgress'
    BY <1>1 DEF StoreInv, CommitProgress, Underway
  <1>8. DiskFollows'
    <2>1. SUFFICES ASSUME budget'.power > 0 PROVE DiskFollows'
      BY DEF DiskFollows
    <2>2. budget' = budget /\ budget.power > 0
      BY <1>3, <2>1
    <2>3. /\ SlotsSound(cache.slots, disk'.files) /\ SlotsSound(disk.slots, disk'.files)
      BY <1>1, <1>3, <2>2 DEF StoreInv, DiskFollows, Reopens
    <2>4. QED
      BY <1>1, <1>2, <1>3, <2>2, <2>3 DEF StoreInv, DiskFollows
  <1>9. QED
    BY <1>1, <1>4, <1>5, <1>6, <1>7, <1>8 DEF StoreInv

\* A commit under way was offered its snapshot, of a store that is not poisoned.
LEMMA UnderwayFacts ==
    ASSUME StoreInv, pc \in Underway
    PROVE  /\ pc \in Running /\ mem.poisoned = FALSE /\ ~(mem.poisoned = TRUE)
           /\ offered \in Versions /\ offered # NoData
           /\ NextVersion \in Versions /\ NextVersion <= commits
           /\ SlotsSound(mem.slots, cache.files)
  <1>1. pc \in Running /\ pc # "ready"
    BY DEF Running, Underway
  <1>2. mem.poisoned \in BOOLEAN /\ (mem.poisoned = TRUE => pc = "ready")
    BY <1>1, StoreTypes DEF StoreInv, MemoryCurrent
  <1>3. offered \in Versions /\ NextVersion \in Versions /\ NextVersion <= commits
    BY DEF StoreInv, CommitProgress
  <1>4. offered # NoData
    BY <1>3 DEF Versions, NoData
  <1>5. QED
    BY <1>1, <1>2, <1>3, <1>4 DEF StoreInv, MemoryCurrent

\* A commit begins: the temp file is written.
LEMMA WriteTempKeepsInv ==
    ASSUME StoreInv, WriteTemp
    PROVE  StoreInv' /\ offered = NoData
  <1>1. /\ pc = "ready" /\ ~mem.poisoned /\ commits < MaxCommits /\ commits' = commits + 1
        /\ offered' = commits + 1 /\ pc' = "synctemp"
        /\ cache' = [cache EXCEPT !.temp = [data |-> commits + 1, synced |-> FALSE]]
        /\ UNCHANGED <<disk, mem, acked, returned, budget>>
    BY DEF WriteTemp
  <1>2. /\ pc \in Running /\ pc' \in Running /\ commits \in Nat /\ commits + 1 \in Versions
        /\ mem.poisoned \in BOOLEAN /\ commits' \in 0..MaxCommits
    BY <1>1, StoreTypes DEF StoreInv, Running, Underway, Versions
  <1>3. mem.poisoned = FALSE /\ ~(mem.poisoned = TRUE)
    BY <1>1, <1>2
  <1>4. offered = NoData
    BY <1>1, <1>3 DEF StoreInv, CommitProgress
  <1>5. /\ cache' \in Image /\ cache'.slots = cache.slots /\ cache'.files = cache.files
        /\ cache'.temp = [data |-> commits + 1, synced |-> FALSE]
    <2>1. cache \in Image /\ [data |-> commits + 1, synced |-> FALSE] \in File
      BY <1>2 DEF StoreInv, StoreTyped, TypeOK, File
    <2>2. QED
      BY <1>1, <2>1 DEF Image
  <1>6. StoreTyped'
    BY <1>1, <1>2, <1>5 DEF StoreInv, StoreTyped, TypeOK
  <1>7. Reopens'
    <2>1. Reopens
      BY DEF StoreInv
    <2>2. \A i \in Sides : cache.slots[i].version <= commits'
      <3>1. \A i \in Sides : cache.slots[i].version \in Int /\ cache.slots[i].version <= commits
        BY <2>1, StoreTypes, SlotKinds DEF StoreInv, Reopens
      <3>2. QED
        BY <1>1, <1>2, <3>1
    <2>3. QED
      BY <1>1, <1>4, <1>5, <2>1, <2>2 DEF Reopens
  <1>8. MemoryCurrent'
    <2>1. /\ commits' \in Nat /\ commits' >= commits /\ pc # "syncslot" /\ pc' # "syncslot"
          /\ mem'.slots = mem.slots /\ mem'.active = mem.active
      BY <1>1, <1>2
    <2>2. mem'.poisoned = FALSE /\ ~(mem'.poisoned = TRUE) /\ SlotsSound(mem.slots, cache'.files)
      BY <1>1, <1>2, <1>3, <1>5 DEF StoreInv, MemoryCurrent
    <2>3. QED
      BY <1>1, <1>2, <1>3, <1>5, <2>1, <2>2, MemoryKept
  <1>9. CommitProgress'
    <2>1. NextVersion' = mem.slots[mem.active].version + 1 /\ mem.active \in Sides
      BY <1>1, StoreTypes DEF NextVersion, StoreInv
    <2>2. mem.slots[mem.active].version \in Nat /\ mem.slots[mem.active].version <= commits
      BY <1>2, <2>1, ActiveIsHighest DEF StoreInv, MemoryCurrent
    <2>3. NextVersion' \in Versions /\ NextVersion' <= commits'
      BY <1>1, <1>2, <2>1, <2>2 DEF Versions
    <2>4. cache'.temp.data = offered'
      BY <1>1, <1>5
    <2>5. QED
      BY <1>1, <1>2, <2>3, <2>4 DEF CommitProgress
  <1>10. DiskFollows'
    BY <1>1, <1>5 DEF StoreInv, DiskFollows
  <1>11. QED
    BY <1>4, <1>6, <1>7, <1>8, <1>9, <1>10 DEF StoreInv

\* The temp file is synced.
LEMMA SyncTempKeepsInv ==
    ASSUME StoreInv, SyncTemp
    PROVE  StoreInv'
  <1>1. /\ pc = "synctemp" /\ pc' = "rename" /\ cache' = [cache EXCEPT !.temp.synced = TRUE]
        /\ UNCHANGED <<disk, mem, acked, offered, commits, returned, budget>>
    BY DEF SyncTemp
  <1>2. pc \in Underway /\ pc' \in Underway /\ pc' \in Running
    BY <1>1 DEF Underway, Running
  <1>3. /\ cache' \in Image /\ cache'.slots = cache.slots /\ cache'.files = cache.files
        /\ cache'.temp = Whole(offered)
    <2>1. cache \in Image /\ cache.temp \in File /\ cache.temp.data = offered
      BY <1>1, StoreTypes DEF StoreInv, StoreTyped, TypeOK, CommitProgress
    <2>2. [cache.temp EXCEPT !.synced = TRUE] = Whole(offered)
      <3> DEFINE temp == [cache.temp EXCEPT !.synced = TRUE]
      <3>1. temp \in File /\ temp.data = offered /\ temp.synced = TRUE
        BY <2>1 DEF File
      <3> HIDE DEF temp
      <3>2. temp = [data |-> temp.data, synced |-> temp.synced]
        BY <3>1 DEF File
      <3>3. temp = Whole(offered)
        BY <3>1, <3>2 DEF Whole
      <3>4. QED
        BY <3>3 DEF temp
    <2>3. Whole(offered) \in File
      <3>1. offered \in Versions
        BY <1>2, UnderwayFacts
      <3>2. QED
        BY <3>1 DEF File, Whole
    <2>4. cache' = [cache EXCEPT !.temp = [cache.temp EXCEPT !.synced = TRUE]]
      BY <1>1
    <2>5. QED
      BY <2>1, <2>2, <2>3, <2>4 DEF Image
  <1>4. StoreTyped'
    BY <1>1, <1>2, <1>3 DEF StoreInv, StoreTyped, TypeOK
  <1>5. Reopens'
    BY <1>1, <1>3 DEF StoreInv, Reopens
  <1>6. MemoryCurrent'
    <2>1. /\ commits' \in Nat /\ commits' >= commits /\ pc # "syncslot" /\ pc' # "syncslot"
          /\ mem'.slots = mem.slots /\ mem'.active = mem.active
      BY <1>1, StoreTypes DEF StoreInv
    <2>2. QED
      BY <1>1, <1>2, <1>3, <2>1, UnderwayFacts, MemoryKept
  <1>7. CommitProgress'
    BY <1>1, <1>2, <1>3, UnderwayFacts DEF CommitProgress, NextVersion
  <1>8. DiskFollows'
    BY <1>1, <1>3 DEF StoreInv, DiskFollows
  <1>9. QED
    BY <1>4, <1>5, <1>6, <1>7, <1>8 DEF StoreInv

\* The temp file takes a name no slot refers to.
LEMMA RenameKeepsInv ==
    ASSUME StoreInv, Rename
    PROVE  StoreInv'
  <1>1. /\ pc = "rename" /\ pc' = "syncdir"
        /\ cache' = [cache EXCEPT !.files[NextVersion] = cache.temp, !.temp = NoFile]
        /\ UNCHANGED <<disk, mem, acked, offered, commits, returned, budget>>
    BY DEF Rename
  <1>2. pc \in Underway /\ pc' \in Underway /\ pc \in Running /\ pc' \in Running
    BY <1>1 DEF Underway, Running
  <1>3. NextVersion' = NextVersion /\ NextVersion \in Versions /\ cache.temp = Whole(offered)
    BY <1>1, <1>2, UnderwayFacts DEF NextVersion, StoreInv, CommitProgress
  <1>4. /\ cache' \in Image /\ cache'.slots = cache.slots
        /\ cache'.files[NextVersion] = Whole(offered)
        /\ \A w \in Versions : w # NextVersion => cache'.files[w] = cache.files[w]
    <2>1. /\ cache \in Image /\ cache.temp \in File /\ cache.files \in [Versions -> File]
          /\ NoFile \in File
      BY StoreTypes DEF StoreInv, StoreTyped, TypeOK, NoFile, File
    <2>2. /\ cache'.files = [cache.files EXCEPT ![NextVersion] = cache.temp]
          /\ cache'.slots = cache.slots /\ cache'.temp = NoFile
      BY <1>1, <2>1 DEF Image
    <2>3. cache'.files \in [Versions -> File]
      BY <2>1, <2>2
    <2>4. cache' \in Image
      BY <1>1, <2>1, <2>3 DEF Image
    <2>5. QED
      BY <1>3, <2>1, <2>2, <2>4
  <1>5. ASSUME NEW slots \in [Sides -> Slot], SlotsSound(slots, cache.files),
               \A i \in Sides : slots[i].version < NextVersion
        PROVE  SlotsSound(slots, cache'.files)
    <2>1. \A i \in Sides : slots[i].version > 0 =>
             slots[i].version \in Versions /\ slots[i].version # NextVersion
      BY <1>3, <1>5, SlotKinds DEF Versions
    <2>2. QED
      BY <1>4, <1>5, <2>1 DEF SlotsSound
  <1>6. SlotsSound(mem.slots, cache'.files)
    BY <1>2, <1>5, StoreTypes, ActiveIsHighest, UnderwayFacts DEF StoreInv
  <1>7. SlotsSound(cache.slots, cache'.files)
    BY <1>1, <1>2, <1>5, StoreTypes, MemoryIsCache, UnderwayFacts DEF StoreInv, Reopens
  <1>8. StoreTyped'
    BY <1>1, <1>2, <1>4 DEF StoreInv, StoreTyped, TypeOK
  <1>9. Reopens'
    BY <1>1, <1>4, <1>7 DEF StoreInv, Reopens
  <1>10. MemoryCurrent'
    <2>1. /\ commits' \in Nat /\ commits' >= commits /\ pc # "syncslot" /\ pc' # "syncslot"
          /\ mem'.slots = mem.slots /\ mem'.active = mem.active
      BY <1>1, StoreTypes DEF StoreInv
    <2>2. QED
      BY <1>1, <1>2, <1>4, <1>6, <2>1, UnderwayFacts, MemoryKept
  <1>11. CommitProgress'
    BY <1>1, <1>2, <1>3, <1>4, UnderwayFacts DEF CommitProgress
  <1>12. DiskFollows'
    BY <1>1, <1>4, <1>7 DEF StoreInv, DiskFollows
  <1>13. QED
    BY <1>8, <1>9, <1>10, <1>11, <1>12 DEF StoreInv

\* The names are synced: the disk holds what the slots name and what the commit
\* is about to name.
LEMMA SyncDirKeepsInv ==
    ASSUME StoreInv, SyncDir
    PROVE  StoreInv'
  <1>1. /\ pc = "syncdir" /\ pc' = "slot"
        /\ disk' = [disk EXCEPT !.temp = cache.temp, !.files = cache.files]
        /\ UNCHANGED <<cache, mem, acked, offered, commits, returned, budget>>
    BY DEF SyncDir, FsyncDir
  <1>2. pc \in Underway /\ pc' \in Underway /\ pc' \in Running
    BY <1>1 DEF Underway, Running
  <1>3. disk' \in Image /\ disk'.slots = disk.slots /\ disk'.files = cache.files
    <2>1. disk \in Image /\ cache.temp \in File /\ cache.files \in [Versions -> File]
      BY StoreTypes DEF StoreInv, StoreTyped, TypeOK
    <2>2. QED
      BY <1>1, <2>1 DEF Image
  <1>4. NextVersion' = NextVersion /\ cache.files[NextVersion] = Whole(offered)
    BY <1>1 DEF NextVersion, StoreInv, CommitProgress
  <1>5. StoreTyped'
    BY <1>1, <1>2, <1>3 DEF StoreInv, StoreTyped, TypeOK
  <1>6. Reopens'
    BY <1>1 DEF StoreInv, Reopens
  <1>7. MemoryCurrent'
    <2>1. /\ commits' \in Nat /\ commits' >= commits /\ pc # "syncslot" /\ pc' # "syncslot"
          /\ mem'.slots = mem.slots /\ mem'.active = mem.active
      BY <1>1, StoreTypes DEF StoreInv
    <2>2. QED
      BY <1>1, <1>2, <2>1, UnderwayFacts, MemoryKept
  <1>8. CommitProgress'
    BY <1>1, <1>2, <1>4, UnderwayFacts DEF CommitProgress
  <1>9. DiskFollows'
    BY <1>1, <1>3, <1>4 DEF StoreInv, DiskFollows, Reopens
  <1>10. QED
    BY <1>5, <1>6, <1>7, <1>8, <1>9 DEF StoreInv

\* What may become of the slot being written: it keeps what it held, is torn or
\* holds the commit's record.  The active slot still serves, or the commit does.
LEMMA SlotOverwritten ==
    ASSUME StoreInv, pc \in {"slot", "syncslot"}, NEW slots \in [Sides -> Slot],
           slots[mem.active] = cache.slots[mem.active],
           \/ slots[Older] = Torn \/ slots[Older] = Record
           \/ Decode(slots[Older]) = mem.slots[Older]
    PROVE  /\ slots[Older] # Record => Newest(slots) = acked
           /\ slots[Older] = Record => Newest(slots) = offered
           /\ \A i \in Sides : slots[i].version <= commits
           /\ returned = TRUE => \E i \in Sides : slots[i].version > 0
           /\ \A files : SlotsSound(mem.slots, files) /\ files[NextVersion] = Whole(offered)
                           => SlotsSound(slots, files)
  <1>1. pc \in Underway /\ pc \in Running
    BY DEF Underway, Running
  <1>2. /\ mem.active \in Sides /\ Older \in Sides /\ Older = 1 - mem.active /\ mem.active = 1 - Older
        /\ slots[mem.active] \in Slot /\ slots[Older] \in Slot
        /\ \A i \in Sides : i = mem.active \/ i = Older
    BY StoreTypes DEF StoreInv, Sides
  <1>3. Decode(slots[mem.active]) = mem.slots[mem.active] /\ acked = mem.slots[mem.active].cursor
    BY <1>1 DEF StoreInv, MemoryCurrent
  <1>4. slots[mem.active].cursor = acked
    BY <1>2, <1>3, SlotKinds
  <1>5. /\ slots[mem.active].version \in Int
        /\ slots[mem.active].version > 0 => slots[mem.active] = mem.slots[mem.active]
        /\ slots[mem.active].version < NextVersion
        /\ slots[mem.active].version <= commits
        /\ mem.slots[mem.active].version > 0 => slots[mem.active].version > 0
    <2>1. /\ slots[mem.active].version \in Int
          /\ slots[mem.active].version > 0 => slots[mem.active] = mem.slots[mem.active]
          /\ slots[mem.active].version <= 0 => mem.slots[mem.active] = Blank
      BY <1>2, <1>3, SlotKinds
    <2>2. mem.slots[mem.active].version < NextVersion /\ NextVersion \in Nat
      BY <1>1, <1>2, ActiveIsHighest
    <2>3. slots[mem.active].version <= commits
      BY <1>2 DEF StoreInv, Reopens
    <2>4. QED
      BY <2>1, <2>2, <2>3 DEF Blank
  <1>6. returned = TRUE => slots[mem.active].version > 0
    BY <1>1, <1>5 DEF StoreInv, MemoryCurrent
  <1>7. NextVersion \in Nat /\ NextVersion > 0 /\ NextVersion <= commits /\ commits \in Nat
    BY <1>1, UnderwayFacts, StoreTypes DEF Versions, StoreInv
  <1>8. Record.version = NextVersion /\ Record.cursor = offered
    BY DEF Record
  <1>9. CASE slots[Older] = Torn
    <2>1. Newest(slots) = acked
      BY <1>2, <1>4, <1>9, NewestOfTorn
    <2>2. Torn.version = -1 /\ Torn # Record
      BY <1>7, <1>8 DEF Torn
    <2>3. \A i \in Sides : slots[i].version <= commits
      BY <1>2, <1>5, <1>7, <1>9, <2>2
    <2>4. \A files : SlotsSound(mem.slots, files) => SlotsSound(slots, files)
      BY <1>2, <1>5, <1>9, <2>2 DEF SlotsSound
    <2>5. QED
      BY <1>2, <1>6, <1>9, <2>1, <2>2, <2>3, <2>4
  <1>10. CASE slots[Older] = Record
    <2>1. Newest(slots) = offered
      BY <1>2, <1>5, <1>8, <1>10, NewestOfHigher
    <2>2. \A i \in Sides : slots[i].version <= commits
      BY <1>2, <1>5, <1>7, <1>8, <1>10
    <2>3. \A files : SlotsSound(mem.slots, files) /\ files[NextVersion] = Whole(offered)
                       => SlotsSound(slots, files)
      BY <1>2, <1>5, <1>8, <1>10 DEF SlotsSound
    <2>4. QED
      BY <1>2, <1>6, <1>10, <2>1, <2>2, <2>3
  <1>11. CASE Decode(slots[Older]) = mem.slots[Older] /\ slots[Older] # Record
    <2>1. \A i \in Sides : mem.slots[i] = Decode(slots[i])
      BY <1>2, <1>3, <1>11
    <2>2. Newest(slots) = acked
      <3>1. Newest(mem.slots) = Newest(slots)
        BY <2>1, NewestDecoded
      <3>2. mem.active = NewestSide(mem.slots)
        BY <1>1 DEF StoreInv, MemoryCurrent
      <3>3. QED
        BY <1>3, <3>1, <3>2 DEF Newest
    <2>3. /\ slots[Older].version \in Int
          /\ slots[Older].version > 0 => slots[Older] = mem.slots[Older]
      BY <1>2, <1>11, SlotKinds
    <2>4. mem.slots[Older].version <= commits
      BY <1>1, <1>2 DEF StoreInv, MemoryCurrent
    <2>5. \A i \in Sides : slots[i].version <= commits
      BY <1>2, <1>5, <1>7, <2>3, <2>4
    <2>6. \A files : SlotsSound(mem.slots, files) => SlotsSound(slots, files)
      BY <1>2, <1>5, <2>3 DEF SlotsSound
    <2>7. QED
      BY <1>2, <1>6, <1>11, <2>2, <2>5, <2>6
  <1>12. QED
    BY <1>9, <1>10, <1>11

\* A slot of the cache is written: what follows for the typed state.
LEMMA SlotWritten ==
    ASSUME StoreInv, pc = "slot", NEW left \in Slot,
           cache' = [cache EXCEPT !.slots[Older] = left]
    PROVE  /\ cache' \in Image /\ cache'.files = cache.files /\ cache'.slots \in [Sides -> Slot]
           /\ cache'.slots[Older] = left /\ cache'.slots[mem.active] = cache.slots[mem.active]
  <1>1. cache \in Image /\ Older \in Sides /\ mem.active \in Sides /\ mem.active # Older
        /\ cache.slots \in [Sides -> Slot]
    BY StoreTypes DEF StoreInv, StoreTyped, TypeOK, Sides
  <1>2. cache'.files = cache.files /\ cache'.slots = [cache.slots EXCEPT ![Older] = left]
    BY <1>1 DEF Image
  <1>3. cache'.slots \in [Sides -> Slot]
    BY <1>1, <1>2
  <1>4. cache' \in Image
    BY <1>1, <1>3 DEF Image, Slot
  <1>5. QED
    BY <1>1, <1>2, <1>3, <1>4

\* The commit's record is a slot.
LEMMA RecordTyped ==
    ASSUME StoreInv, pc \in Underway
    PROVE  Record \in SlotRecord /\ Record \in Slot
  BY UnderwayFacts DEF Record, SlotRecord, Slot

\* The older slot is written.
LEMMA WriteSlotKeepsInv ==
    ASSUME StoreInv, WriteSlot
    PROVE  StoreInv'
  <1>1. /\ pc = "slot" /\ pc' = "syncslot" /\ cache' = [cache EXCEPT !.slots[Older] = Record]
        /\ UNCHANGED <<disk, mem, acked, offered, commits, returned, budget>>
    BY DEF WriteSlot
  <1>2. pc \in Underway /\ pc' \in Underway /\ pc \in Running /\ pc' \in Running
    BY <1>1 DEF Underway, Running
  <1>3. /\ cache' \in Image /\ cache'.files = cache.files /\ cache'.slots \in [Sides -> Slot]
        /\ cache'.slots[Older] = Record /\ cache'.slots[mem.active] = cache.slots[mem.active]
    BY <1>1, <1>2, RecordTyped, SlotWritten
  <1>4. /\ Newest(cache'.slots) = offered
        /\ \A i \in Sides : cache'.slots[i].version <= commits
        /\ returned = TRUE => \E i \in Sides : cache'.slots[i].version > 0
        /\ \A files : SlotsSound(mem.slots, files) /\ files[NextVersion] = Whole(offered)
                        => SlotsSound(cache'.slots, files)
    BY <1>1, <1>3, SlotOverwritten
  <1>5. /\ NextVersion' = NextVersion /\ Older' = Older /\ Record' = Record
        /\ cache.files[NextVersion] = Whole(offered)
        /\ SlotsSound(mem.slots, cache.files) /\ offered # NoData
    BY <1>1, <1>2, UnderwayFacts DEF NextVersion, Older, Record, StoreInv, CommitProgress
  <1>6. StoreTyped'
    BY <1>1, <1>2, <1>3 DEF StoreInv, StoreTyped, TypeOK
  <1>7. Reopens'
    BY <1>1, <1>3, <1>4, <1>5 DEF StoreInv, Reopens
  <1>8. MemoryCurrent'
    BY <1>1, <1>2, <1>3, <1>5, UnderwayFacts DEF StoreInv, MemoryCurrent
  <1>9. CommitProgress'
    BY <1>1, <1>2, <1>3, <1>5, UnderwayFacts DEF CommitProgress
  <1>10. DiskFollows'
    <2>1. SUFFICES ASSUME budget.power > 0 PROVE DiskFollows'
      BY <1>1 DEF DiskFollows
    <2>2. /\ disk.slots = cache.slots /\ disk.files[NextVersion] = Whole(offered)
          /\ SlotsSound(cache.slots, disk.files) /\ mem.poisoned = FALSE
          /\ budget.kills = 0 /\ budget.io = 0
      BY <1>1, <2>1 DEF StoreInv, DiskFollows
    <2>3. SlotsSound(mem.slots, disk.files)
      <3>1. ASSUME NEW i \in Sides, mem.slots[i].version > 0
            PROVE  cache.slots[i] = mem.slots[i]
        <4>1. Decode(cache.slots[i]) = mem.slots[i] /\ cache.slots[i] \in Slot
          BY <1>1, <1>2, <2>2, MemoryIsCache, StoreTypes DEF StoreInv
        <4>2. QED
          BY <3>1, <4>1, SlotKinds DEF Blank
      <3>2. QED
        BY <2>2, <3>1 DEF SlotsSound
    <2>4. SlotsSound(cache'.slots, disk.files)
      BY <1>4, <2>2, <2>3
    <2>5. SlotsSound(disk.slots, cache.files) /\ SlotsSound(disk.slots, disk.files)
      BY <2>2 DEF StoreInv, Reopens
    <2>6. disk.slots[mem.active] = cache'.slots[mem.active] /\ Decode(disk.slots[Older]) = mem.slots[Older]
      BY <1>1, <1>2, <1>3, <2>2, MemoryIsCache, StoreTypes DEF StoreInv
    <2>7. QED
      BY <1>1, <1>3, <1>5, <2>2, <2>4, <2>5, <2>6 DEF DiskFollows
  <1>11. QED
    BY <1>6, <1>7, <1>8, <1>9, <1>10 DEF StoreInv

\* The commit point.
LEMMA SyncSlotKeepsInv ==
    ASSUME StoreInv, SyncSlot
    PROVE  StoreInv' /\ offered # NoData
  <1>1. /\ pc = "syncslot" /\ pc' = "prune" /\ disk' = [disk EXCEPT !.slots = cache.slots]
        /\ mem' = [mem EXCEPT !.slots[Older] = Record, !.active = Older]
        /\ acked' = offered /\ offered' = NoData /\ returned' = TRUE
        /\ UNCHANGED <<cache, commits, budget>>
    BY DEF SyncSlot
  <1>2. pc \in Underway /\ pc \in Running /\ pc' \in Running
    BY <1>1 DEF Underway, Running
  <1>3. /\ mem.slots \in [Sides -> SlotRecord \cup {Blank}] /\ mem.active \in Sides /\ Older \in Sides
        /\ mem.active # Older /\ mem.active = 1 - Older
        /\ \A i \in Sides : i = mem.active \/ i = Older
    BY StoreTypes DEF StoreInv, Sides
  <1>4. /\ Record \in SlotRecord /\ Record.version = NextVersion /\ Record.cursor = offered
        /\ cache.slots[Older] = Record /\ cache.files[NextVersion] = Whole(offered)
    BY <1>1, <1>2, RecordTyped DEF Record, StoreInv, CommitProgress
  <1>5. /\ mem'.slots = [mem.slots EXCEPT ![Older] = Record] /\ mem'.active = Older
        /\ mem'.poisoned = FALSE
        /\ mem' \in [slots : [Sides -> SlotRecord \cup {Blank}], active : Sides, poisoned : BOOLEAN]
    <2>1. /\ mem \in [slots : [Sides -> SlotRecord \cup {Blank}], active : Sides, poisoned : BOOLEAN]
          /\ mem.poisoned = FALSE
      BY <1>2, UnderwayFacts DEF StoreInv, StoreTyped
    <2>2. /\ mem'.slots = [mem.slots EXCEPT ![Older] = Record] /\ mem'.active = Older
          /\ mem'.poisoned = FALSE
      BY <1>1, <2>1
    <2>3. mem'.slots \in [Sides -> SlotRecord \cup {Blank}]
      BY <1>3, <1>4, <2>2
    <2>4. QED
      BY <1>1, <1>3, <2>1, <2>2, <2>3
  <1>6. /\ mem'.slots[Older] = Record /\ mem'.slots[mem.active] = mem.slots[mem.active]
        /\ Older' = mem.active
    BY <1>3, <1>5 DEF Older, Sides
  <1>7. disk' \in Image /\ disk'.slots = cache.slots /\ disk'.files = disk.files
    <2>1. disk \in Image /\ cache \in Image
      BY DEF StoreInv, StoreTyped, TypeOK
    <2>2. QED
      BY <1>1, <2>1 DEF Image
  <1>8. StoreTyped'
    <2>1. /\ mem'.active \in Sides /\ mem'.poisoned \in BOOLEAN
          /\ \A i \in Sides : mem'.slots[i] \in SlotRecord \cup {Blank}
      BY <1>5
    <2>2. TypeOK'
      BY <1>1, <1>7, <2>1 DEF StoreInv, StoreTyped, TypeOK
    <2>3. QED
      BY <1>1, <1>2, <1>5, <2>2 DEF StoreInv, StoreTyped
  <1>9. Reopens'
    <2>1. Newest(cache.slots) = offered
      <3>1. cache.slots[Older].version > cache.slots[mem.active].version
        <4>1. Decode(cache.slots[mem.active]) = mem.slots[mem.active] /\ cache.slots[mem.active] \in Slot
          BY <1>2, <1>3, StoreTypes DEF StoreInv, MemoryCurrent
        <4>2. mem.slots[mem.active].version < NextVersion /\ NextVersion \in Nat
          BY <1>2, <1>3, ActiveIsHighest
        <4>3. cache.slots[mem.active].version \in Int /\ cache.slots[mem.active].version < NextVersion
          BY <4>1, <4>2, SlotKinds
        <4>4. QED
          BY <1>4, <4>3
      <3>2. QED
        BY <1>3, <1>4, <3>1, NewestOfHigher, StoreTypes DEF StoreInv
    <2>2. cache.slots[Older].version > 0
      BY <1>2, <1>4, UnderwayFacts DEF Versions
    <2>3. QED
      BY <1>1, <1>3, <2>1, <2>2 DEF StoreInv, Reopens
  <1>10. MemoryCurrent'
    <2>1. mem.slots[mem.active].version < NextVersion /\ NextVersion \in Nat
          /\ NextVersion > 0 /\ NextVersion <= commits
      BY <1>2, <1>3, ActiveIsHighest, UnderwayFacts DEF Versions
    <2>2. mem'.active = NewestSide(mem'.slots)
      <3>1. mem'.slots[Older].version > mem'.slots[mem.active].version
        BY <1>4, <1>6, <2>1
      <3>2. mem'.slots[mem.active].version \in Nat /\ mem'.slots[Older].version \in Nat
        BY <1>2, <1>3, <1>4, <1>6, <2>1, ActiveIsHighest
      <3>3. QED
        BY <1>3, <1>5, <3>1, <3>2 DEF NewestSide, Sides
    <2>3. SlotsSound(mem'.slots, cache.files)
      BY <1>2, <1>3, <1>4, <1>6, UnderwayFacts DEF SlotsSound
    <2>4. \A i \in Sides : mem'.slots[i].version <= commits
      BY <1>2, <1>3, <1>4, <1>6, <2>1 DEF StoreInv, MemoryCurrent
    <2>5. Decode(Record) = Record
      BY <1>4, <2>1 DEF Decode
    <2>6. Decode(cache.slots[mem.active]) = mem.slots[mem.active]
      BY <1>2 DEF StoreInv, MemoryCurrent
    <2>7. ~(mem'.poisoned = TRUE)
      BY <1>5
    <2>8. QED
      BY <1>1, <1>4, <1>5, <1>6, <2>1, <2>2, <2>3, <2>4, <2>5, <2>6, <2>7 DEF MemoryCurrent
  <1>11. CommitProgress'
    BY <1>1 DEF CommitProgress, Underway
  <1>12. DiskFollows'
    <2>1. SUFFICES ASSUME budget.power > 0 PROVE DiskFollows'
      BY <1>1 DEF DiskFollows
    <2>2. SlotsSound(cache.slots, disk.files) /\ SlotsSound(cache.slots, cache.files)
          /\ budget.kills = 0 /\ budget.io = 0
      BY <2>1 DEF StoreInv, DiskFollows, Reopens
    <2>3. QED
      BY <1>1, <1>5, <1>7, <2>2 DEF DiskFollows
  <1>13. QED
    BY <1>2, <1>8, <1>9, <1>10, <1>11, <1>12, UnderwayFacts DEF StoreInv

\* A call of the commit fails: the store is poisoned, and an open finds the old
\* snapshot or the new one.
LEMMA PoisonedKeepsInv ==
    ASSUME StoreInv, pc \in Underway, Spend("io"), Poison,
           cache' \in Image, cache'.files = cache.files,
           \/ cache'.slots = cache.slots
           \/ /\ pc = "slot" /\ cache'.slots[mem.active] = cache.slots[mem.active]
              /\ \/ cache'.slots[Older] = Torn \/ cache'.slots[Older] = Record
                 \/ Decode(cache'.slots[Older]) = mem.slots[Older],
           UNCHANGED <<disk, acked, offered, commits, returned>>
    PROVE  StoreInv'
  <1>1. mem' = [mem EXCEPT !.poisoned = TRUE] /\ pc' = "ready"
    BY DEF Poison
  <1>2. /\ mem'.slots = mem.slots /\ mem'.active = mem.active /\ mem'.poisoned = TRUE
        /\ mem' \in [slots : [Sides -> SlotRecord \cup {Blank}], active : Sides, poisoned : BOOLEAN]
        /\ Older' = Older
    <2>1. mem \in [slots : [Sides -> SlotRecord \cup {Blank}], active : Sides, poisoned : BOOLEAN]
      BY DEF StoreInv, StoreTyped
    <2>2. QED
      BY <1>1, <2>1 DEF Older
  <1>3. budget' \in [power : Nat, kills : Nat, io : Nat] /\ budget'.power = 0
    BY SpendTyped
  <1>4. pc \in Running /\ pc' \in Running
    BY <1>1 DEF Running, Underway
  <1>5. StoreTyped'
    <2>1. /\ mem'.active \in Sides /\ mem'.poisoned \in BOOLEAN
          /\ \A i \in Sides : mem'.slots[i] \in SlotRecord \cup {Blank}
      BY <1>2
    <2>2. TypeOK'
      BY <2>1 DEF StoreInv, StoreTyped, TypeOK
    <2>3. QED
      BY <1>2, <1>3, <1>4, <2>2 DEF StoreTyped
  <1>6. Reopens'
    <2>1. CASE cache'.slots = cache.slots
      BY <1>1, <2>1 DEF StoreInv, Reopens
    <2>2. CASE /\ pc = "slot" /\ cache'.slots[mem.active] = cache.slots[mem.active]
               /\ \/ cache'.slots[Older] = Torn \/ cache'.slots[Older] = Record
                  \/ Decode(cache'.slots[Older]) = mem.slots[Older]
      <3>1. cache'.slots \in [Sides -> Slot]
        BY DEF Image, Slot
      <3>2. cache.files[NextVersion] = Whole(offered)
        BY <2>2 DEF StoreInv, CommitProgress
      <3>3. /\ Newest(cache'.slots) = acked \/ Newest(cache'.slots) = offered
            /\ \A i \in Sides : cache'.slots[i].version <= commits
            /\ returned = TRUE => \E i \in Sides : cache'.slots[i].version > 0
            /\ SlotsSound(cache'.slots, cache.files)
        BY <2>2, <3>1, <3>2, SlotOverwritten, UnderwayFacts
      <3>4. QED
        BY <1>1, <3>3, UnderwayFacts DEF Reopens
    <2>3. QED
      BY <2>1, <2>2
  <1>7. MemoryCurrent'
    <2>1. cache'.slots[mem.active] = cache.slots[mem.active] /\ ~(mem'.poisoned = FALSE)
      BY <1>2
    <2>2. MemoryCurrent
      BY DEF StoreInv
    <2>3. QED
      BY <1>1, <1>2, <1>4, <2>1, <2>2 DEF MemoryCurrent
  <1>8. CommitProgress'
    BY <1>1, <1>2 DEF CommitProgress, Underway
  <1>9. DiskFollows'
    BY <1>3 DEF DiskFollows
  <1>10. QED
    BY <1>5, <1>6, <1>7, <1>8, <1>9 DEF StoreInv

\* The calls of a commit that may fail.
LEMMA FailuresKeepInv ==
    ASSUME StoreInv, CommitFails \/ TempWriteFails \/ SlotWriteFails
    PROVE  StoreInv'
  <1>1. cache \in Image /\ NoFile \in File
    BY DEF StoreInv, StoreTyped, TypeOK, NoFile, File
  <1>2. CASE CommitFails
    BY <1>1, <1>2, PoisonedKeepsInv DEF CommitFails, Underway
  <1>3. CASE TempWriteFails
    <2>1. cache' = [cache EXCEPT !.temp = NoFile]
      BY <1>3 DEF TempWriteFails
    <2>2. cache' \in Image /\ cache'.slots = cache.slots /\ cache'.files = cache.files
      BY <1>1, <2>1 DEF Image
    <2>3. QED
      BY <1>3, <2>2, PoisonedKeepsInv DEF TempWriteFails, Underway
  <1>4. CASE SlotWriteFails
    <2>1. /\ pc = "slot" /\ Spend("io") /\ Poison
          /\ UNCHANGED <<disk, acked, offered, commits, returned>>
      BY <1>4 DEF SlotWriteFails
    <2>2. PICK left \in {cache.slots[Older], Torn, Record} :
             cache' = [cache EXCEPT !.slots[Older] = left]
      BY <1>4 DEF SlotWriteFails
    <2>3. pc \in Underway /\ pc \in Running /\ pc # "syncslot"
      BY <2>1 DEF Underway, Running
    <2>4. Decode(cache.slots[Older]) = mem.slots[Older] /\ Older \in Sides /\ cache.slots[Older] \in Slot
      BY <2>3, UnderwayFacts, MemoryIsCache, StoreTypes DEF StoreInv
    <2>5. left \in Slot
      BY <2>3, <2>4, RecordTyped DEF Slot
    <2>6. /\ cache' \in Image /\ cache'.files = cache.files
          /\ cache'.slots[Older] = left /\ cache'.slots[mem.active] = cache.slots[mem.active]
      BY <2>1, <2>2, <2>5, SlotWritten
    <2>7. QED
      BY <2>1, <2>2, <2>3, <2>4, <2>6, PoisonedKeepsInv
  <1>5. QED
    BY <1>2, <1>3, <1>4

\* The power fails: each name, file and slot comes back as the disk or the cache had
\* it, or torn.
LEMMA PowerFailsKeepsInv ==
    ASSUME StoreInv, PowerFails
    PROVE  StoreInv'
  <1>1. PICK left \in [temp : FileLeft(disk.temp, cache.temp),
                 files : [Versions -> UNION {FileLeft(disk.files[v], cache.files[v]) : v \in Versions}],
                 slots : [Sides -> UNION {SlotLeft(disk.slots[i], cache.slots[i]) : i \in Sides}]] :
             /\ \A v \in Versions : left.files[v] \in FileLeft(disk.files[v], cache.files[v])
             /\ \A i \in Sides : left.slots[i] \in SlotLeft(disk.slots[i], cache.slots[i])
             /\ cache' = left /\ disk' = left
    BY DEF PowerFails
  <1>2. /\ Spend("power") /\ mem' = NoStore /\ pc' = "closed"
        /\ UNCHANGED <<acked, offered, commits, returned>>
    BY DEF PowerFails
  <1>3. /\ budget.power > 0 /\ budget' \in [power : Nat, kills : Nat, io : Nat]
        /\ budget'.power > 0 => budget'.kills = 0 /\ budget'.io = 0
    BY <1>2, SpendTyped DEF StoreInv, DiskFollows
  <1>4. /\ mem.poisoned = FALSE
        /\ SlotsSound(cache.slots, disk.files) /\ SlotsSound(disk.slots, cache.files)
        /\ SlotsSound(disk.slots, disk.files) /\ SlotsSound(cache.slots, cache.files)
        /\ pc # "syncslot" => disk.slots = cache.slots
        /\ pc = "syncslot" => /\ disk.slots[mem.active] = cache.slots[mem.active]
                              /\ Decode(disk.slots[Older]) = mem.slots[Older]
                              /\ disk.files[NextVersion] = Whole(offered)
                              /\ cache.files[NextVersion] = Whole(offered)
    BY <1>3 DEF StoreInv, DiskFollows, Reopens, CommitProgress
  <1>5. left \in Image /\ left.slots \in [Sides -> Slot]
    <2>1. left.temp \in File
      BY <1>1, FileLeftTyped, StoreTypes DEF StoreInv
    <2>2. left.files \in [Versions -> File]
      <3>1. \A v \in Versions : left.files[v] \in File
        BY <1>1, FileLeftTyped, StoreTypes DEF StoreInv
      <3>2. QED
        BY <1>1, <3>1
    <2>3. left.slots \in [Sides -> Slot]
      <3>1. \A i \in Sides : left.slots[i] \in Slot
        <4>1. \A i \in Sides : disk.slots[i] \in Slot /\ cache.slots[i] \in Slot /\ Torn \in Slot
          BY StoreTypes DEF StoreInv, Slot
        <4>2. QED
          BY <1>1, <4>1 DEF SlotLeft
      <3>2. QED
        BY <1>1, <3>1
    <2>4. left = [temp |-> left.temp, files |-> left.files, slots |-> left.slots]
      BY <1>1
    <2>5. QED
      BY <2>1, <2>2, <2>3, <2>4 DEF Image, Slot
  <1>6. ASSUME NEW v \in Versions, NEW d, disk.files[v] = Whole(d), cache.files[v] = Whole(d)
        PROVE  left.files[v] = Whole(d)
    BY <1>1, <1>6, WholeStays
  <1>7. /\ SlotsSound(left.slots, left.files)
        /\ \A i \in Sides : left.slots[i].version <= commits
        /\ returned = TRUE => \E i \in Sides : left.slots[i].version > 0
        /\ Newest(left.slots) = acked \/ (offered # NoData /\ Newest(left.slots) = offered)
    <2>1. CASE pc # "syncslot"
      <3>1. left.slots = cache.slots
        <4>1. \A i \in Sides : left.slots[i] = cache.slots[i]
          BY <1>1, <1>4, <2>1 DEF SlotLeft
        <4>2. QED
          BY <1>5, <4>1, StoreTypes DEF StoreInv
      <3>2. SlotsSound(cache.slots, left.files)
        <4>1. ASSUME NEW i \in Sides, cache.slots[i].version > 0
              PROVE  left.files[cache.slots[i].version] = Whole(cache.slots[i].cursor)
          <5>1. cache.slots[i].version \in Versions
            BY <4>1, StoreTypes, SlotKinds DEF StoreInv
          <5>2. QED
            BY <1>4, <1>6, <4>1, <5>1 DEF SlotsSound
        <4>2. QED
          BY <4>1 DEF SlotsSound
      <3>3. QED
        BY <3>1, <3>2 DEF StoreInv, Reopens
    <2>2. CASE pc = "syncslot"
      <3>1. pc \in Underway /\ pc \in Running
        BY <2>2 DEF Underway, Running
      <3>2. /\ mem.active \in Sides /\ Older \in Sides /\ mem.slots \in [Sides -> Slot]
            /\ \A i \in Sides : i = mem.active \/ i = Older
        BY StoreTypes DEF StoreInv, Sides
      <3>3. left.slots[mem.active] = cache.slots[mem.active]
        BY <1>1, <1>4, <2>2, <3>2 DEF SlotLeft
      <3>4. \/ left.slots[Older] = Torn \/ left.slots[Older] = Record
            \/ Decode(left.slots[Older]) = mem.slots[Older]
        <4>1. cache.slots[Older] = Record
          BY <2>2 DEF StoreInv, CommitProgress
        <4>2. left.slots[Older] \in {disk.slots[Older], cache.slots[Older], Torn}
          BY <1>1, <3>2 DEF SlotLeft
        <4>3. QED
          BY <1>4, <2>2, <4>1, <4>2
      <3>5. SlotsSound(mem.slots, left.files)
        <4>1. ASSUME NEW i \in Sides, mem.slots[i].version > 0
              PROVE  left.files[mem.slots[i].version] = Whole(mem.slots[i].cursor)
          <5>1. disk.slots[i] = mem.slots[i]
            <6>1. Decode(disk.slots[mem.active]) = mem.slots[mem.active]
              BY <1>4, <2>2, <3>1 DEF StoreInv, MemoryCurrent
            <6>2. Decode(disk.slots[i]) = mem.slots[i] /\ disk.slots[i] \in Slot
              BY <1>4, <2>2, <3>2, <6>1, StoreTypes DEF StoreInv
            <6>3. QED
              BY <4>1, <6>2, SlotKinds DEF Blank
          <5>2. mem.slots[i].version \in Versions
            BY <3>2, <4>1, SlotKinds
          <5>3. QED
            BY <1>4, <1>6, <4>1, <5>1, <5>2 DEF SlotsSound
        <4>2. QED
          BY <4>1 DEF SlotsSound
      <3>6. left.files[NextVersion] = Whole(offered) /\ offered # NoData
        BY <1>4, <1>6, <2>2, <3>1, UnderwayFacts
      <3>7. QED
        BY <1>5, <2>2, <3>3, <3>4, <3>5, <3>6, SlotOverwritten
    <2>3. QED
      BY <2>1, <2>2
  <1>8. StoreTyped'
    <2>1. mem' \in [slots : [Sides -> SlotRecord \cup {Blank}], active : Sides, poisoned : BOOLEAN]
      BY <1>2 DEF NoStore, Sides
    <2>2. /\ mem'.active \in Sides /\ mem'.poisoned \in BOOLEAN
          /\ \A i \in Sides : mem'.slots[i] \in SlotRecord \cup {Blank}
      BY <2>1
    <2>3. TypeOK'
      BY <1>1, <1>2, <1>5, <2>2 DEF StoreInv, StoreTyped, TypeOK
    <2>4. QED
      BY <1>2, <1>3, <2>1, <2>3 DEF StoreTyped
  <1>9. Reopens'
    BY <1>1, <1>2, <1>7 DEF Reopens
  <1>10. MemoryCurrent' /\ CommitProgress'
    BY <1>2 DEF MemoryCurrent, CommitProgress, Running, Underway
  <1>11. DiskFollows'
    <2>1. mem'.poisoned = FALSE
      BY <1>2 DEF NoStore
    <2>2. QED
      BY <1>1, <1>2, <1>3, <1>7, <2>1 DEF DiskFollows
  <1>12. QED
    BY <1>8, <1>9, <1>10, <1>11 DEF StoreInv

-----------------------------------------------------------------------------
(***************************************************************************)
(* The theorems.                                                           *)
(***************************************************************************)
\* An empty directory and a store that is not open.
LEMMA InitEstablishesInv ==
    ASSUME Init, OneKindOfMishap
    PROVE  StoreInv
  <1>1. /\ cache = Empty /\ disk = Empty /\ mem = NoStore /\ pc = "closed" /\ acked = NoData
        /\ offered = NoData /\ commits = 0 /\ returned = FALSE /\ budget \in Budgets
    BY DEF Init
  <1>2. /\ Empty.temp = NoFile /\ Empty.files = [v \in Versions |-> NoFile]
        /\ Empty.slots = [i \in Sides |-> Blank] /\ Empty \in Image
    <2>1. NoFile \in File
      BY DEF NoFile, File
    <2>2. QED
      BY <2>1 DEF Empty, Image
  <1>3. Blank.version = 0 /\ Blank.cursor = NoData
    BY DEF Blank
  <1>4. StoreTyped
    <2>1. mem \in [slots : [Sides -> SlotRecord \cup {Blank}], active : Sides, poisoned : BOOLEAN]
      BY <1>1 DEF NoStore, Sides
    <2>2. /\ mem.active \in Sides /\ mem.poisoned \in BOOLEAN
          /\ \A i \in Sides : mem.slots[i] \in SlotRecord \cup {Blank}
      BY <2>1
    <2>3. returned \in BOOLEAN /\ commits \in 0..MaxCommits
      <3>1. returned \in BOOLEAN
        BY <1>1
      <3>2. commits \in 0..MaxCommits
        BY <1>1
      <3>3. QED
        BY <3>1, <3>2
    <2>4. TypeOK
      BY <1>1, <1>2, <2>2, <2>3 DEF TypeOK
    <2>5. budget \in [power : Nat, kills : Nat, io : Nat]
      BY <1>1
    <2>6. QED
      BY <1>1, <2>1, <2>4, <2>5 DEF StoreTyped
  <1>5. \A i \in Sides : cache.slots[i] = Blank
    BY <1>1, <1>2
  <1>6. SlotsSound(cache.slots, cache.files)
    BY <1>3, <1>5 DEF SlotsSound
  <1>7. Reopens
    <2>1. Newest(cache.slots) = NoData
      BY <1>3, <1>5 DEF Newest, NewestSide, Sides
    <2>2. QED
      BY <1>1, <1>3, <1>5, <1>6, <2>1 DEF Reopens
  <1>8. MemoryCurrent /\ CommitProgress
    BY <1>1 DEF MemoryCurrent, CommitProgress, Running, Underway
  <1>9. DiskFollows
    <2>1. budget.power \in Nat /\ (budget.power = 0 \/ (budget.kills = 0 /\ budget.io = 0))
      BY <1>1 DEF OneKindOfMishap
    <2>2. mem.poisoned = FALSE
      BY <1>1 DEF NoStore
    <2>3. QED
      BY <1>1, <1>6, <2>1, <2>2 DEF DiskFollows
  <1>10. QED
    BY <1>4, <1>7, <1>8, <1>9 DEF StoreInv

\* Every call, every failure of one and every crash keeps the invariant.
LEMMA NextKeepsInv ==
    ASSUME StoreInv, [Next]_vars
    PROVE  StoreInv'
  <1>1. CASE UNCHANGED vars
    BY <1>1 DEF vars, StoreInv, StoreTyped, TypeOK, Reopens, MemoryCurrent, CommitProgress,
                DiskFollows, Older, Record, NextVersion
  <1>2. CASE Opens
    BY <1>2, ClosingKeepsInv, OpenReadKeepsInv DEF Opens
  <1>3. CASE Prunes
    BY <1>3, PruneOneKeepsInv, PruneEndsKeepsInv DEF Prunes
  <1>4. CASE Commits
    BY <1>4, WriteTempKeepsInv, SyncTempKeepsInv, RenameKeepsInv, SyncDirKeepsInv,
       WriteSlotKeepsInv, SyncSlotKeepsInv, FailuresKeepInv DEF Commits
  <1>5. CASE Close \/ Killed
    BY <1>5, ClosingKeepsInv
  <1>6. CASE PowerFails
    BY <1>6, PowerFailsKeepsInv
  <1>7. CASE Refused
    BY <1>1, <1>7 DEF Refused
  <1>8. QED
    BY <1>1, <1>2, <1>3, <1>4, <1>5, <1>6, <1>7 DEF Next

\* Wherever between two calls the power, the process or a call fails, the invariant
\* holds.
THEOREM InvIsInductive ==
    ASSUME OneKindOfMishap
    PROVE  Spec => []StoreInv
  <1>1. Init => StoreInv
    BY InitEstablishesInv
  <1>2. StoreInv /\ [Next]_vars => StoreInv'
    BY NextKeepsInv
  <1>3. QED
    BY <1>1, <1>2, PTL DEF Spec

\* The values each variable takes.
THEOREM TypeCorrect ==
    ASSUME OneKindOfMishap
    PROVE  Spec => []TypeOK
  <1>1. StoreInv => TypeOK
    BY DEF StoreInv, StoreTyped
  <1>2. QED
    BY <1>1, InvIsInductive, PTL

\* Once a commit returned Ok no open refuses the directory.
THEOREM OpensOnceAcked ==
    ASSUME OneKindOfMishap
    PROVE  Spec => []OpensAfterAck
  <1>1. ASSUME StoreInv PROVE OpensAfterAck
    BY <1>1 DEF StoreInv, Reopens, OpensAfterAck
  <1>2. QED
    BY <1>1, InvIsInductive, PTL

\* Every valid slot of an open store names the snapshot it was committed with.
THEOREM SlotsNameSnapshots ==
    ASSUME OneKindOfMishap
    PROVE  Spec => []SlotsNameTheirSnapshot
  <1>1. ASSUME StoreInv,
               pc \in {"ready", "synctemp", "rename", "syncdir", "slot", "syncslot"},
               NEW i \in Sides, mem.slots[i] # Blank
        PROVE  cache.files[mem.slots[i].version].data = mem.slots[i].cursor
    <2>1. pc \in Running
      BY <1>1 DEF Running, Underway
    <2>2. mem.slots[i] \in SlotRecord
      BY <1>1, StoreTypes DEF StoreInv
    <2>3. mem.slots[i].version > 0
      BY <2>2 DEF SlotRecord, Versions
    <2>4. cache.files[mem.slots[i].version] = Whole(mem.slots[i].cursor)
      BY <1>1, <2>1, <2>3 DEF StoreInv, MemoryCurrent, SlotsSound
    <2>5. QED
      BY <2>4 DEF Whole
  <1>2. StoreInv => SlotsNameTheirSnapshot
    BY <1>1 DEF SlotsNameTheirSnapshot
  <1>3. QED
    BY <1>2, InvIsInductive, PTL

\* A step of the store is one of SnapshotCell, or none: the write of the temp file
\* begins a commit, the sync of the slot ends it, a read of the manifest recovers.
LEMMA StepImplementsCell ==
    ASSUME StoreInv, [Next]_vars
    PROVE  [Cell!CellNext]_(Cell!cellVars)
  <1> USE DEF Cell!cellVars
  <1>1. CASE WriteTemp
    <2>1. offered = NoData /\ offered' = commits + 1 /\ acked' = acked /\ commits < MaxCommits
      BY <1>1, WriteTempKeepsInv DEF WriteTemp
    <2>2. commits + 1 \in Versions
      BY <2>1, StoreTypes DEF StoreInv, Versions
    <2>3. \E data \in Versions : Cell!BeginCommit(data)
      BY <2>1, <2>2 DEF Cell!BeginCommit, Cell!NoData, NoData
    <2>4. QED
      BY <2>3 DEF Cell!CellNext
  <1>2. CASE SyncSlot
    <2>1. offered # NoData /\ acked' = offered /\ offered' = NoData
      BY <1>2, SyncSlotKeepsInv DEF SyncSlot
    <2>2. QED
      BY <2>1 DEF Cell!CellNext, Cell!CommitReturns, Cell!NoData, NoData
  <1>3. CASE OpenRead
    <2>1. \/ acked' = Newest(cache.slots) /\ offered' = NoData
          \/ UNCHANGED <<acked, offered>>
      BY <1>3, OpenReadKeepsInv
    <2>2. Newest(cache.slots) = acked \/ (offered # NoData /\ Newest(cache.slots) = offered)
      BY DEF StoreInv, Reopens
    <2>3. QED
      BY <2>1, <2>2 DEF Cell!CellNext, Cell!Recover, Cell!NoData, NoData
  <1>4. CASE ~(WriteTemp \/ SyncSlot \/ OpenRead)
    <2>1. UNCHANGED <<acked, offered>>
      BY <1>4 DEF Next, vars, Opens, Prunes, Commits, OpenRepair, OpenSyncRepair, OpenFails,
                  PruneOne, PruneEnds, PruneFails, SyncTemp, Rename, SyncDir, WriteSlot,
                  CommitFails, TempWriteFails, SlotWriteFails, Close, Killed, PowerFails, Refused
    <2>2. QED
      BY <2>1
  <1>5. QED
    BY <1>1, <1>2, <1>3, <1>4

\* The store keeps SnapshotCell's promise: an open recovers the last commit that
\* returned Ok, or the one that was under way.
THEOREM StoreImplementsCell ==
    ASSUME OneKindOfMishap
    PROVE  Spec => ImplementsCell
  <1>1. Init => Cell!CellInit
    BY DEF Init, Cell!CellInit, Cell!NoData, NoData
  <1>2. StoreInv /\ [Next]_vars => [Cell!CellNext]_(Cell!cellVars)
    BY StepImplementsCell
  <1>3. QED
    BY <1>1, <1>2, InvIsInductive, PTL DEF Spec, ImplementsCell, Cell!CellSpec
=============================================================================
