-------------------------------- MODULE DataStore --------------------------------
(***************************************************************************)
(* The data store of one array on one instance (src/util/DataStore.cpp): a *)
(* file whose size is a power of two, carved into chunks by a binary buddy *)
(* allocator, with the free lists in memory and, between flushes, in an    *)
(* ".fl" file next to it.  Its client is the disk index of the array       *)
(* (src/storage/IndexMgr.cpp): it enters chunks under the version a query  *)
(* is writing, commits or rolls back that version, and removes the chunks  *)
(* of old ones.  The process may die at any time, and what it finds when   *)
(* it starts again is what it had written to the two files and to the      *)
(* index.                                                                  *)
(*                                                                         *)
(* Space is counted in units of getMinAllocSize().  A chunk or a free      *)
(* block is its offset and its size, and the free lists are the set of the *)
(* free blocks.  An array lock admits one writer; without the background   *)
(* flusher, what runs under _dslock is one step.  Holes are punched into   *)
(* the file where it is free (CONFIG_DATASTORE_PUNCH_HOLES, the default).  *)
(***************************************************************************)
EXTENDS Integers, FiniteSets, FiniteSetsExt

CONSTANTS
    MaxLog,             \* bound on the size of the file: 2^MaxLog units
    Request,            \* the sizes of the chunks, in units
    MaxVersions,        \* bound on the committed versions
    MaxCalls,           \* bound on the calls of the client
    MaxCrashes          \* bound on the times the process dies

pow2[n \in Nat] == IF n = 0 THEN 1 ELSE 2 * pow2[n - 1]

ASSUME DataStoreAssumption ==
    /\ {MaxLog, MaxVersions, MaxCalls, MaxCrashes} \subseteq Nat
    /\ Request \subseteq 1 .. pow2[MaxLog]

VARIABLES
    freelists,          \* _freelists
    largestFreeChunk,   \* _largestFreeChunk
    allocatedSize,      \* _allocatedSize
    isFileCreated,      \* _isFileCreated: whether the data file exists
    isOpen,             \* whether there is a _file
    fldirty,            \* _fldirty
    length,             \* the size of the data file, 0 when there is none
    short,              \* whether an attempt to enlarge the open file has failed
    fl,                 \* what reading the free list file would yield
    torn,               \* whether that file is being written
    held,               \* chunks of the running query that are not in the index
    new, old,           \* chunks in the index: of the version being written, of committed ones
    freed,              \* chunks in the index that this process has freed already
    gone,               \* chunks in the index that a process that died was removing
    version,            \* the versions committed so far
    op,                 \* what the client is in the middle of
    lost,               \* space that was free when the process died
    caught,             \* the deaths of the process that the store does not survive
    calls, crashes

memory == <<freelists, largestFreeChunk, allocatedSize, isFileCreated, isOpen, fldirty>>
files == <<length, short, fl, torn>>
client == <<held, new, old, freed, gone, version, op>>
vars == <<memory, files, client, lost, caught, calls, crashes>>

Block(off, size) == [off |-> off, size |-> size]
Units(b) == b.off .. b.off + b.size - 1
Space(bs) == UNION {Units(b) : b \in bs}
Apart(bs) == \A b, c \in bs : b # c => Units(b) \cap Units(c) = {}
Sizes == {pow2[n] : n \in 0 .. MaxLog}

roundUpPowerOf2(size) == Min({s \in Sizes : s >= size})

calcLargestFreeChunk(lists) == Max({0} \cup {b.size : b \in lists})

-----------------------------------------------------------------------------
(* The buddy allocator *)

(* makeMoreSpace: the file is doubled until a block of the size is free. *)
LastDoubled(request) == Max({allocatedSize, request})

MoreSpace(request) ==
    {Block(s, s) : s \in {t \in Sizes : allocatedSize <= t /\ t <= LastDoubled(request)}}

(* searchFreelist: the first block of the smallest bucket that has one; the upper *)
(* halves that are split off on the way down go to the lists.                      *)
FirstFit(lists, request) ==
    LET bucket == Min({b.size : b \in {c \in lists : c.size >= request}})
    IN  Block(Min({b.off : b \in {c \in lists : c.size = bucket}}), bucket)

(* A faulty variant: the smallest of the halves is not put on its list. *)
SplitShort(b, request) == {Block(b.off + s, s) : s \in {t \in Sizes : t > request /\ t < b.size}}

Split(b, request) == {Block(b.off + s, s) : s \in {t \in Sizes : t >= request /\ t < b.size}}

searchFreelist(lists, request) ==
    LET b == FirstFit(lists, request)
    IN  [off |-> b.off, lists |-> (lists \ {b}) \cup Split(b, request)]

(* addToFreelist: the block is merged with its buddy as long as that is free. *)
Parent(b, s) == Block(b.off - (b.off % s), s)

(* A faulty variant: the buddy is always the block behind. *)
BuddyBehind(b) == Block(b.off + b.size, b.size)

Buddy(b) == Block(IF b.off % (2 * b.size) = 0 THEN b.off + b.size ELSE b.off - b.size, b.size)

addToFreelist(lists, b) ==
    LET Up(s) == Parent(b, s)
        top == Min({s \in Sizes \cup {2 * pow2[MaxLog]} : s >= b.size /\ Buddy(Up(s)) \notin lists})
    IN  (lists \ {Buddy(Up(s)) : s \in {t \in Sizes : t >= b.size /\ t < top}}) \cup {Up(top)}

isParentBlockFree(lists, b) ==
    \E s \in {c.size : c \in lists} : s > b.size /\ Parent(b, s) \in lists

-----------------------------------------------------------------------------
(* The files *)

(* checkFileOpen: the file is created, or grown to the size the store has in memory. *)
checkFileOpen(size) ==
    /\ isOpen' = TRUE /\ isFileCreated' = TRUE
    /\ length' = IF isOpen \/ length >= size THEN length ELSE size

(* A faulty variant: the lists that were saved stay valid. *)
invalidateFreelistFileLate ==
    /\ fldirty' = (isFileCreated \/ fldirty)
    /\ UNCHANGED fl

(* invalidateFreelistFile, before the lists change: zero buckets, synced *)
invalidateFreelistFile ==
    /\ fldirty' = (isFileCreated \/ fldirty)
    /\ fl' = IF isFileCreated /\ ~fldirty THEN {} ELSE fl

(* The constructor, initializeFreelist and readFreelistFromFile.  A data file has *)
(* its size from the moment it exists; a free list file that is empty, or cut     *)
(* short, or fails its checksum yields no lists.                                  *)
initializeFreelist(exists, len, lists) ==
    LET start == IF exists THEN lists ELSE {Block(0, 1)} IN
    /\ isFileCreated' = exists
    /\ isOpen' = FALSE /\ fldirty' = FALSE
    /\ allocatedSize' = IF exists THEN roundUpPowerOf2(len) ELSE 1
    /\ freelists' = start
    /\ largestFreeChunk' = calcLargestFreeChunk(start)

-----------------------------------------------------------------------------
Init ==
    /\ freelists = {Block(0, 1)} /\ largestFreeChunk = 1 /\ allocatedSize = 1
    /\ isFileCreated = FALSE /\ isOpen = FALSE /\ fldirty = FALSE
    /\ length = 0 /\ short = FALSE /\ fl = {} /\ torn = FALSE
    /\ held = {} /\ new = {} /\ old = {} /\ freed = {} /\ gone = {} /\ version = 0 /\ op = "none"
    /\ lost = {} /\ caught = {} /\ calls = 0 /\ crashes = 0

Called == calls < MaxCalls /\ calls' = calls + 1 /\ UNCHANGED crashes
Within == UNCHANGED <<calls, crashes>>

(* A chunk of n units, its header included, for the query that is writing. *)
allocateSpace(n) ==
    LET size == roundUpPowerOf2(n)
        grow == size > largestFreeChunk
        lists == IF grow THEN freelists \cup MoreSpace(size) ELSE freelists
        total == IF grow THEN 2 * LastDoubled(size) ELSE allocatedSize
        found == searchFreelist(lists, size)
    IN
    /\ Called /\ ~torn /\ op \in {"none", "write"}
    /\ total <= pow2[MaxLog]
    /\ invalidateFreelistFile
    /\ allocatedSize' = total
    /\ length' = IF isOpen /\ grow THEN total ELSE length
    /\ short' = (short /\ ~grow)
    /\ freelists' = found.lists
    /\ largestFreeChunk' = calcLargestFreeChunk(freelists')
    /\ held' = held \cup {Block(found.off, size)}
    /\ op' = "write"
    /\ UNCHANGED <<isFileCreated, isOpen, torn, new, old, freed, gone, version, lost, caught>>

(* The ftruncate of an open file fails in one of the turns of makeMoreSpace: the *)
(* call throws, but the lists and the size have the space of that turn already.  *)
makeMoreSpaceFails(n) ==
    /\ Called /\ ~torn /\ op \in {"none", "write"}
    /\ isOpen /\ roundUpPowerOf2(n) > largestFreeChunk
    /\ \E s \in Sizes :
          /\ allocatedSize <= s /\ s <= LastDoubled(roundUpPowerOf2(n)) /\ 2 * s <= pow2[MaxLog]
          /\ freelists' = freelists \cup MoreSpace(s)
          /\ largestFreeChunk' = s
          /\ allocatedSize' = 2 * s
          /\ length' = IF s = allocatedSize THEN length ELSE s
    /\ invalidateFreelistFile
    /\ short' = TRUE /\ op' = "write"
    /\ UNCHANGED <<isFileCreated, isOpen, torn, held, new, old, freed, gone, version, lost, caught>>

(* freeChunk, with the hole it punches *)
freeChunk(b) ==
    /\ invalidateFreelistFile
    /\ IF isParentBlockFree(freelists, b)
       THEN UNCHANGED <<freelists, isOpen, isFileCreated, length>>
       ELSE /\ freelists' = addToFreelist(freelists, b)
            /\ checkFileOpen(allocatedSize)
    /\ largestFreeChunk' = calcLargestFreeChunk(freelists')
    /\ UNCHANGED <<allocatedSize, short, torn>>

(* An error between the truncation of the free list file and the write of its    *)
(* zero: the call throws, and the lists stay as they are.                        *)
invalidateFails ==
    /\ Called /\ ~torn /\ isFileCreated /\ ~fldirty
    /\ fl' = {}
    /\ UNCHANGED <<memory, length, short, torn, client, lost, caught>>

writeData(b) ==
    /\ Called /\ ~torn /\ op = "write" /\ b \in held \cup new
    /\ isOpen' = TRUE /\ isFileCreated' = TRUE
    /\ length' = Max({length, b.off + b.size} \cup (IF isOpen THEN {} ELSE {allocatedSize}))
    /\ UNCHANGED <<freelists, largestFreeChunk, allocatedSize, fldirty, short, fl, torn>>
    /\ UNCHANGED <<client, lost, caught>>

readData(b) ==
    /\ Called /\ op \in {"none", "write"} /\ b \in old
    /\ checkFileOpen(allocatedSize)
    /\ UNCHANGED <<freelists, largestFreeChunk, allocatedSize, fldirty, short, fl, torn>>
    /\ UNCHANGED <<client, lost, caught>>

(* flush, by the client or by the DataStoreFlusher, truncates the free list file  *)
(* first and holds _dslock until persistFreelists has written and synced it.      *)
flush ==
    /\ torn' = fldirty
    /\ fl' = IF fldirty THEN {} ELSE fl
    /\ UNCHANGED <<memory, length, short>>

persistFreelists ==
    /\ torn /\ torn' = FALSE
    /\ fl' = freelists
    /\ fldirty' = FALSE
    /\ Within
    /\ UNCHANGED <<freelists, largestFreeChunk, allocatedSize, isFileCreated, isOpen, length, short>>
    /\ UNCHANGED <<client, lost, caught>>

(* The flusher *)
FlushJob ==
    /\ ~torn /\ fldirty
    /\ flush
    /\ Within
    /\ UNCHANGED <<client, lost, caught>>

-----------------------------------------------------------------------------
(* The disk index *)

insertRecord(b) ==
    /\ op = "write" /\ b \in held
    /\ held' = held \ {b} /\ new' = new \cup {b}
    /\ Within
    /\ UNCHANGED <<memory, files, old, freed, gone, version, op, lost, caught>>

(* A chunk that is not entered goes. *)
cleanupDiskIndexValue(b) ==
    /\ ~torn /\ op = "write" /\ b \in held
    /\ freeChunk(b)
    /\ held' = held \ {b}
    /\ Within
    /\ UNCHANGED <<new, old, freed, gone, version, op, lost, caught>>

(* The commit: the chunks are written (so they are inside the file), the store is *)
(* flushed, and the version becomes the last one in the catalog.                  *)
flushVersion ==
    /\ ~torn /\ op = "write" /\ held = {} /\ version < MaxVersions
    /\ new = {} \/ (isOpen /\ Space(new) \subseteq 0 .. length - 1)
    /\ flush
    /\ op' = "commit"
    /\ Within
    /\ UNCHANGED <<held, new, old, freed, gone, version, lost, caught>>

commitVersion ==
    /\ ~torn /\ op = "commit"
    /\ old' = old \cup new /\ new' = {} /\ version' = version + 1 /\ op' = "none"
    /\ Within
    /\ UNCHANGED <<memory, files, held, freed, gone, lost, caught>>

(* The rollback of the version being written, by its query or after a restart. *)
rollbackVersion ==
    /\ op \in {"write", "commit", "recover"} /\ held = {}
    /\ op' = "rollback"
    /\ Within
    /\ UNCHANGED <<memory, files, held, new, old, freed, gone, version, lost, caught>>

(* lastVersion == 0: discardAllBuffers and closeDataStore remove the store. *)
closeDataStore ==
    /\ ~torn /\ op = "rollback" /\ version = 0
    /\ length' = 0 /\ short' = FALSE /\ fl' = {}
    /\ initializeFreelist(FALSE, 0, {})
    /\ freed' = new /\ lost' = {} /\ op' = "erase"
    /\ Within
    /\ UNCHANGED <<torn, held, new, old, gone, version, caught>>

(* Otherwise the chunks of the version are discarded one after the other ... *)
discardBuffer(b) ==
    /\ ~torn /\ op = "rollback" /\ version > 0 /\ b \in new \ freed
    /\ freeChunk(b)
    /\ freed' = freed \cup {b}
    /\ Within
    /\ UNCHANGED <<held, new, old, gone, version, op, lost, caught>>

(* ... and then their entries are deleted in one batch, before flushMetadata. *)
eraseEntries ==
    /\ ~torn
    /\ op = "erase" \/ (op = "rollback" /\ version > 0 /\ new = freed)
    /\ new' = {} /\ freed' = {} /\ op' = "none"
    /\ IF op = "erase" THEN UNCHANGED <<memory, files>> ELSE flush
    /\ Within
    /\ UNCHANGED <<held, old, gone, version, lost, caught>>

(* removeVersions: deleteRecord frees the space and then deletes the entry. *)
deleteRecord(b) ==
    /\ Called /\ ~torn /\ op = "none" /\ b \in old
    /\ freeChunk(b)
    /\ freed' = {b} /\ op' = "delete"
    /\ UNCHANGED <<held, new, old, gone, version, lost, caught>>

eraseRecord ==
    /\ op = "delete"
    /\ old' = old \ freed /\ gone' = gone \ freed /\ freed' = {} /\ op' = "none"
    /\ Within
    /\ UNCHANGED <<memory, files, held, new, version, lost, caught>>

(* A store whose first version is rolled back goes with all it has. *)
Doomed == version = 0 /\ op \in {"recover", "rollback", "erase"}

(* The process dies and starts again.  A version that was being written still has *)
(* its array lock, by which the recovery finds it; a removal that was cut short   *)
(* is completed in the catalog only.  Some deaths are remembered: one that leaves *)
(* saved lists or chunks of an open version beyond the size that the store has    *)
(* from now on, because the file had not been opened ("grow") or could not be     *)
(* enlarged ("short"); and one between the two halves of deleteRecord that leaves *)
(* the lists of after the first half ("remove").                                  *)
restart ==
    /\ crashes < MaxCrashes /\ crashes' = crashes + 1 /\ UNCHANGED calls
    /\ initializeFreelist(isFileCreated, length, fl)
    /\ held' = {} /\ freed' = {} /\ torn' = FALSE /\ short' = FALSE
    /\ gone' = gone \cup (IF op = "delete" THEN freed ELSE {})
    /\ op' = IF op \in {"none", "delete"} THEN "none" ELSE "recover"
    /\ lost' = (0 .. allocatedSize' - 1) \ Space(freelists' \cup new \cup old)
    /\ UNCHANGED <<length, fl, new, old, version>>
    /\ LET file == IF isFileCreated THEN 0 .. allocatedSize' - 1 ELSE {}
           beyond == ~(Space(fl \cup new) \subseteq file) /\ ~Doomed'
           grow == IF beyond /\ ~short THEN {"grow"} ELSE {}
           cut == IF beyond /\ short THEN {"short"} ELSE {}
           remove == IF op = "delete" /\ fl # {} THEN {"remove"} ELSE {}
       IN  caught' = caught \cup grow \cup cut \cup remove

Next ==
    \/ \E n \in Request : allocateSpace(n) \/ makeMoreSpaceFails(n)
    \/ \E b \in held \cup new : writeData(b)
    \/ \E b \in held : insertRecord(b) \/ cleanupDiskIndexValue(b)
    \/ \E b \in old : readData(b) \/ deleteRecord(b)
    \/ \E b \in new : discardBuffer(b)
    \/ invalidateFails \/ FlushJob \/ persistFreelists
    \/ flushVersion \/ commitVersion \/ rollbackVersion \/ closeDataStore
    \/ eraseEntries \/ eraseRecord \/ restart

Spec == Init /\ [][Next]_vars

-----------------------------------------------------------------------------
Blocks == [off : 0 .. pow2[MaxLog], size : Sizes]
Ops == {"none", "write", "commit", "recover", "rollback", "erase", "delete"}

(* The chunks and blocks are aligned pieces of a file of at most 2^MaxLog units. *)
TypeOK ==
    /\ {freelists, fl, held, new, old, freed, gone} \subseteq SUBSET Blocks
    /\ \A b \in freelists \cup held \cup new \cup old : b.off % b.size = 0
    /\ allocatedSize \in Sizes /\ length \in 0 .. pow2[MaxLog] /\ (isFileCreated <=> length > 0)
    /\ version \in 0 .. MaxVersions /\ op \in Ops

(* The chunks that hold, or will hold, somebody's data. *)
Entered == (new \cup old) \ freed
InUse == IF Doomed THEN {} ELSE held \cup (Entered \ gone)

(* Two chunks that allocateSpace has handed out, and that were not freed since,   *)
(* do not overlap: not if enlarging the file failed, not if the process died with *)
(* its free lists or while rolling back, and not if the free lists it finds are   *)
(* those of an earlier flush; as long as no death caught the store with less file *)
(* than it had handed out, or in the middle of a deleteRecord.  (InUse is a set:  *)
(* one and the same block handed out twice is for SpaceConserved to see.)         *)
ChunksDisjoint == caught = {} => Apart(InUse)

(* The same also after a death that left saved lists or chunks beyond the end of  *)
(* a file that was not opened: what allocateSpace returns "can then be safely     *)
(* written to".                                                                   *)
GrowthSurvives == caught \subseteq {"grow"} => Apart(InUse)

(* The same also after a death within a deleteRecord, which the recovery of       *)
(* StorageMgr is to complete.                                                     *)
RemovalSurvives == caught \subseteq {"remove"} => Apart(InUse)

(* The chunks of a version that is being rolled back are on their way to the      *)
(* lists.  Some may be there already: the flusher may have saved the lists before *)
(* the process died, and the recovery frees those chunks again.                   *)
Leaving == IF op \in {"recover", "rollback"} THEN new ELSE {}

(* Every unit of the file is in one place: in a chunk in use, in one free block,  *)
(* or in what was lost when the process died; splitting, merging, doubling and    *)
(* rolling back, also for the second time, lose nothing and free nothing twice.   *)
(* What is committed is inside the file.  An open file has the size that the      *)
(* store reckons with (the assertion in getSizes), so holes are only punched      *)
(* inside it (the one in fallocPunchHole), unless enlarging it failed.  Every     *)
(* variable has its type, and blocks are aligned.                                 *)
SpaceConserved ==
    caught = {} =>
    /\ TypeOK
    /\ Space(old) \subseteq 0 .. length - 1
    /\ isOpen /\ ~short => length = allocatedSize
    /\ Doomed \/
       LET staying == (held \cup Entered) \ Leaving
           leaving == Space(Leaving) \ Space(freelists)
       IN
       /\ Space(freelists) \cup Space(staying) \cup leaving \cup lost = 0 .. allocatedSize - 1
       /\ Apart(freelists \cup staying) /\ freelists \cap staying = {}
       /\ Space(staying) \cap leaving = {}
       /\ lost \cap (Space(freelists) \cup Space(staying) \cup leaving) = {}

(* The free list file never offers other lists than the ones in memory: it is     *)
(* invalidated before they change and not written before they are flushed.        *)
PersistedIsCurrent == fl \in {{}, freelists}
====
