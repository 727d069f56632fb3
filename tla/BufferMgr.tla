-------------------------------- MODULE BufferMgr --------------------------------
(***************************************************************************)
(* The buffer cache of one instance (src/storage/BufferMgr.cpp) as its     *)
(* only client, the disk indexes of the arrays (src/storage/IndexMgr.cpp), *)
(* drives it: chunks are allocated, filled, stored, pinned again and read, *)
(* destaged and ejected under memory pressure, flushed at commit and       *)
(* discarded at rollback, while the I/O threads write in the background.   *)
(*                                                                         *)
(* Everything but the write itself and the condition waits runs under      *)
(* _blockMutex, so a step is what a thread does between two of them.  The  *)
(* structures that mutex protects are one record, "cache", and the private *)
(* methods of BufferMgr are operators from cache to cache.                 *)
(*                                                                         *)
(* A Key stands for a BufferKey (data store and offset) and fixes the size *)
(* of the buffer.  The bytes of a buffer are abstracted to the number of   *)
(* times the buffer at that offset was filled.  A thread runs one query at *)
(* a time, writes to the array of one data store (an array lock admits one *)
(* writer) and may read what is committed in any other.                    *)
(***************************************************************************)
EXTENDS Integers, Sequences, SequencesExt, FiniteSetsExt

CONSTANTS
    Thread, Key, Store, IoThread,   \* a Key is a number: its offset
    StoreOf,            \* the data store of a buffer
    Home,               \* the data store a thread writes to
    Size,               \* bhead.size
    Zipped,             \* the buffers of arrays with a compressor
    Temporary,          \* the data stores with a BasicIndexMap (temporary arrays)
    Abandoned,          \* the new buffers a query may drop before it stores them
    Limit,              \* _usedMemLimit
    ListSize,           \* BufferMgrDefaultListSize
    MaxFills,           \* bound on the times a buffer is filled
    MaxCalls,           \* bound on the calls of a thread
    MaxFailures         \* bound on the calls of a data store that fail

ASSUME BufferMgrAssumption ==
    /\ Key \subseteq Nat \ {0}
    /\ StoreOf \in [Key -> Store] /\ Home \in [Thread -> Store]
    /\ \A t, u \in Thread : Home[t] = Home[u] => t = u
    /\ Size \in [Key -> Nat \ {0}]
    /\ Zipped \subseteq Key /\ Abandoned \subseteq Key /\ Temporary \subseteq Store
    /\ \A k \in Zipped : StoreOf[k] \notin Temporary
    /\ {Limit, ListSize, MaxFills, MaxCalls, MaxFailures} \subseteq Nat
    /\ ListSize > 0

VARIABLES
    cache,              \* what _blockMutex protects
    call,               \* the call each thread is in
    hold,               \* the handles of the pinned buffers of a thread
    index,              \* the handle in the index map, for the chunks entered there
    mutex,              \* who holds DiskIndex::_mutex
    io,                 \* the job an I/O thread is running
    disk,               \* what the data stores hold
    stable,             \* what they hold once the file is synced
    allocated,          \* the space DataStore::allocateSpace has handed out
    fills,              \* how often a buffer was filled: its latest content
    committed,          \* the buffers of committed versions
    cancelled,          \* the threads whose query was aborted
    leaked,             \* bytes claimed for compression buffers that never were
    stranded,           \* the slots a failed call of the data store has left in use
    calls, failures

client == <<call, hold, calls>>
storage == <<disk, stable, allocated>>
history == <<fills, committed, leaked, stranded>>
vars == <<cache, client, index, mutex, io, storage, history, cancelled, failures>>

NoOne == "none"
NoHandle == [slot |-> 0, gen |-> 0, zip |-> FALSE]
NoEntry == [slot |-> -1, gen |-> 0, zip |-> FALSE]
NoCall == [pc |-> "idle", key |-> 0, slot |-> 0, gen |-> 0, tries |-> 0,
           fast |-> FALSE, asleep |-> FALSE, stale |-> FALSE, back |-> "idle", todo |-> {}]
NoJob == [slot |-> 0, gen |-> 0, key |-> 0, bad |-> FALSE, done |-> FALSE]
MAX_PIN_RETRIES == 3

(* _blockList: the headers a free slot and a slot that was just allocated have. *)
FreeHeader(gen) ==
    [used |-> FALSE, key |-> 0, dirty |-> FALSE, pending |-> FALSE,
     pins |-> 0, gen |-> gen, zip |-> FALSE, cbuf |-> FALSE, data |-> 0]

NewHeader(k, gen, zip) ==
    [FreeHeader(gen) EXCEPT !.used = TRUE, !.key = k, !.pins = 1, !.zip = zip]

(* bhead.size, and as much again for the compressedBlockBase. *)
Bytes(h) == Size[h.key] * (IF h.cbuf THEN 2 ELSE 1)
Times(k, zip) == Size[k] * (IF zip THEN 2 ELSE 1)
Total(c, slots) == FoldLeft(LAMBDA sum, s : sum + Bytes(c.block[s]), 0, slots)

Resident(c, k) == c.map[k] # 0
Cold(c) == SelectSeq(c.lru, LAMBDA s : c.block[s].pins = 0)

(* The slots of a walk from _lruBlock that stops once it has sz bytes. *)
Covering(c, slots, sz) ==
    LET enough == {n \in 0 .. Len(slots) : Total(c, SubSeq(slots, 1, n)) >= sz}
    IN  SubSeq(slots, 1, IF enough = {} THEN Len(slots) ELSE Min(enough))

updateLru(c, s) == [c EXCEPT !.lru = Append(Remove(@, s), s)]

(* _freeSlot and _markSlotAsFree *)
releaseBlockHeader(c, s) ==
    LET h == c.block[s] IN
    [c EXCEPT !.block[s] = FreeHeader(h.gen + 1),
              !.cached = @ - Bytes(h),
              !.dirty = @ - (IF h.dirty THEN Bytes(h) ELSE 0),
              !.lru = Remove(@, s),
              !.free = <<s>> \o @]

(* _allocateFreeSlot doubles a _blockList that is full. *)
Grown(c) ==
    LET n == Len(c.block) IN
    IF c.free # <<>> THEN c
    ELSE [c EXCEPT !.block = @ \o [i \in 1 .. n |-> FreeHeader(0)],
                   !.free = [i \in 1 .. n |-> n + i]]

(* _allocateFreeSlot and BlockHeader::reset; the slot comes back pinned. *)
allocateBlockHeader(c, k, zip) ==
    LET s == Head(c.free) IN
    [c EXCEPT !.block[s] = NewHeader(k, @.gen + 1, zip),
              !.lru = Append(@, s),
              !.free = Tail(@)]

(* The claims on the bytes of a buffer when its first pin is taken. *)
Pinned(c, s) ==
    LET h == c.block[s] IN
    [c EXCEPT !.block[s].pins = @ + 1,
              !.pinned = @ + (IF h.pins = 0 THEN Bytes(h) ELSE 0)]

(* A buffer gets a write job; the flag and the claim precede the job. *)
Destaged(c, s) ==
    [c EXCEPT !.block[s].pending = TRUE,
              !.pending = @ + Bytes(c.block[s]),
              !.jobs = Append(@, s)]

(* A faulty variant: a buffer that is being written counts as clean. *)
ejectCachePending(c, sz) ==
    LET victims == Covering(c, SelectSeq(Cold(c), LAMBDA s : ~c.block[s].dirty \/ c.block[s].pending), sz)
        Eject(d, s) == [releaseBlockHeader(d, s) EXCEPT !.map[d.block[s].key] = 0]
    IN  FoldLeft(Eject, c, victims)

(* A faulty variant: the dirty buffers go too. *)
ejectCacheDirty(c, sz) ==
    LET victims == Covering(c, SelectSeq(Cold(c), LAMBDA s : ~c.block[s].pending), sz)
        Eject(d, s) == [releaseBlockHeader(d, s) EXCEPT !.map[d.block[s].key] = 0]
    IN  FoldLeft(Eject, c, victims)

(* The clean, unpinned buffers from the cold end of the list go, until sz bytes are free. *)
ejectCache(c, sz) ==
    LET victims == Covering(c, SelectSeq(Cold(c), LAMBDA s : ~c.block[s].dirty), sz)
        Eject(d, s) == [releaseBlockHeader(d, s) EXCEPT !.map[d.block[s].key] = 0]
    IN  FoldLeft(Eject, c, victims)

(* A faulty variant: what other waiters will take of the pending writes is ignored. *)
destageCacheUnreserved(c, sz) ==
    LET slots == Covering(c, SelectSeq(Cold(c), LAMBDA s : c.block[s].dirty /\ ~c.block[s].pending), sz - c.pending)
    IN  IF c.pending >= sz THEN [ok |-> TRUE, cache |-> c]
        ELSE [ok |-> Total(c, slots) >= sz - c.pending, cache |-> FoldLeft(Destaged, c, slots)]

(* Writes are issued for what the writes already under way will not cover; *)
(* "ok" is what the method returns, and the jobs are issued in either case. *)
destageCache(c, sz) ==
    LET spare == c.pending - c.reserved
        slots == Covering(c, SelectSeq(Cold(c), LAMBDA s : c.block[s].dirty /\ ~c.block[s].pending), sz - spare)
    IN  IF spare >= sz THEN [ok |-> TRUE, cache |-> c]
        ELSE [ok |-> Total(c, slots) >= sz - spare, cache |-> FoldLeft(Destaged, c, slots)]

(* One turn of the loop in _reserveSpace, to its end or to _waitOnReserveQueue. *)
reserveSpace(c, t, need) ==
    LET short == c.cached + need - Limit
        e == ejectCache(c, short)
        left == e.cached + need - Limit
        d == destageCache(e, left)
    IN  IF short <= 0 THEN [says |-> "room", cache |-> c]
        ELSE IF left <= 0 THEN [says |-> "room", cache |-> e]
        ELSE IF ~d.ok THEN [says |-> "full", cache |-> d.cache]
        ELSE [says |-> "wait",
              cache |-> [d.cache EXCEPT !.queue = Append(@, [who |-> t, size |-> left]),
                                        !.reserved = @ + left]]

(* A faulty variant: a waiter that needs more than sz bytes loses them. *)
signalReserveWaitersWhole(c, sz) ==
    LET Asked(n) == FoldLeft(LAMBDA sum, r : sum + r.size, 0, SubSeq(c.queue, 1, n))
        n == Max({m \in 0 .. Len(c.queue) : Asked(m) <= sz})
    IN  [c EXCEPT !.queue = SubSeq(@, n + 1, Len(@)), !.reserved = @ - Asked(n)]

(* Waiters at the front of _reserveQueue are served with the sz bytes that were *)
(* cleaned or unpinned; one that needs more keeps its place and asks for less.  *)
signalReserveWaiters(c, sz) ==
    LET Asked(n) == FoldLeft(LAMBDA sum, r : sum + r.size, 0, SubSeq(c.queue, 1, n))
        n == Max({m \in 0 .. Len(c.queue) : Asked(m) <= sz})
        rest == SubSeq(c.queue, n + 1, Len(c.queue))
        over == sz - Asked(n)
    IN  IF rest = <<>> THEN [c EXCEPT !.queue = <<>>, !.reserved = @ - Asked(n)]
        ELSE [c EXCEPT !.queue = [rest EXCEPT ![1].size = @ - over], !.reserved = @ - sz]

unpinBuffer(c, s) ==
    LET h == c.block[s]
        d == [c EXCEPT !.block[s].pins = @ - 1]
    IN  IF h.pins > 1 THEN d
        ELSE IF h.dirty THEN [d EXCEPT !.pinned = @ - Bytes(h)]
        ELSE signalReserveWaiters([d EXCEPT !.pinned = @ - Bytes(h)], Bytes(h))

(* A faulty variant: the entry of _dsBufferMap stays. *)
removeBufferFromCacheMapped(c, k) == releaseBlockHeader(c, c.map[k])

(* _removeBufferFromCache, once no write of the buffer is pending *)
removeBufferFromCache(c, k) == [releaseBlockHeader(c, c.map[k]) EXCEPT !.map[k] = 0]

-----------------------------------------------------------------------------
Init ==
    /\ cache = [block |-> [s \in 1 .. ListSize |-> FreeHeader(0)],
                map |-> [k \in Key |-> 0],
                lru |-> <<>>, free |-> [s \in 1 .. ListSize |-> s],
                jobs |-> <<>>, queue |-> <<>>,
                cached |-> 0, dirty |-> 0, pinned |-> 0, pending |-> 0, reserved |-> 0]
    /\ call = [t \in Thread |-> NoCall]
    /\ hold = [t \in Thread |-> [k \in Key |-> NoHandle]]
    /\ index = [k \in Key |-> NoEntry]
    /\ mutex = [d \in Store |-> NoOne]
    /\ io = [i \in IoThread |-> NoJob]
    /\ disk = [k \in Key |-> 0] /\ stable = [k \in Key |-> 0] /\ allocated = {}
    /\ fills = [k \in Key |-> 0] /\ committed = {} /\ cancelled = {}
    /\ leaked = 0 /\ stranded = {}
    /\ calls = [t \in Thread |-> 0] /\ failures = 0

Queued(t) == \E n \in DOMAIN cache.queue : cache.queue[n].who = t
Runs(t, pc) == call[t].pc = pc /\ ~call[t].asleep /\ ~Queued(t)
Ready(t) == call[t].pc = "idle" /\ calls[t] < MaxCalls
Own(t, k) == StoreOf[k] = Home[t] /\ k \notin committed
CallerPinned(t, k) == hold[t][k] # NoHandle /\ index[k] = NoEntry
IndexPinned(t, k) == hold[t][k] # NoHandle /\ index[k] # NoEntry

(* A call begins: what it takes with it until it returns. *)
Enter(t, c) == call' = [call EXCEPT ![t] = c] /\ calls' = [calls EXCEPT ![t] = @ + 1]
Goes(t, c) == call' = [call EXCEPT ![t] = c] /\ UNCHANGED calls
Lock(t, d) == mutex[d] = NoOne /\ mutex' = [mutex EXCEPT ![d] = t]
Unlock(t) == mutex' = [d \in Store |-> IF mutex[d] = t THEN NoOne ELSE mutex[d]]

(* Growing _blockList moves it; a thread that waits with a reference to a header *)
(* of the old one is left with that.                                             *)
GoesAfter(t, c, grown) ==
    /\ call' = [u \in Thread |->
                  IF u = t THEN c
                  ELSE IF grown /\ call[u].slot # 0 THEN [call[u] EXCEPT !.stale = TRUE]
                  ELSE call[u]]
    /\ UNCHANGED calls

(* A call throws: the exception ends its query. *)
ThrowAfter(t, grown) ==
    GoesAfter(t, NoCall, grown) /\ Unlock(t) /\ cancelled' = cancelled \cup {t}
Throw(t) == ThrowAfter(t, FALSE)

(* A call of the data store throws while the slot s is being set up.  Nothing takes *)
(* the slot back: it stays in use, pinned and on the LRU list, and no entry of      *)
(* _dsBufferMap leads to it.                                                        *)
Strand(t, s, grown) ==
    /\ failures < MaxFailures /\ failures' = failures + 1
    /\ stranded' = stranded \cup {s}
    /\ ThrowAfter(t, grown)

-----------------------------------------------------------------------------
(* New chunks: DiskIndex::allocateMemory, BufferMgr::allocateBuffer *)

allocateMemory(t, k) ==
    /\ Ready(t) /\ t \notin cancelled
    /\ StoreOf[k] = Home[t] /\ k \notin allocated /\ fills[k] < MaxFills
    /\ Enter(t, [NoCall EXCEPT !.pc = "allocate", !.key = k])
    /\ UNCHANGED <<cache, hold, index, mutex, io, storage, history, cancelled, failures>>

(* The buffer comes back pinned, dirty and, in the model, filled; with a       *)
(* compressor the space of the compression buffer is claimed along with it.    *)
(* allocateSpace of the data store may throw before any byte is claimed.       *)
allocateBuffer(t) ==
    LET k == call[t].key
        sz == Times(k, k \in Zipped)
        r == reserveSpace(cache, t, sz)
        g == Grown(r.cache)
        s == Head(g.free)
        c == allocateBlockHeader(g, k, k \in Zipped)
    IN
    /\ Runs(t, "allocate")
    /\ \/ /\ r.says = "room"
          /\ cache' = [c EXCEPT !.block[s].dirty = TRUE,
                                !.block[s].data = fills[k] + 1,
                                !.map[k] = s,
                                !.cached = @ + sz, !.pinned = @ + sz, !.dirty = @ + sz]
          /\ hold' = [hold EXCEPT ![t][k] = [slot |-> s, gen |-> c.block[s].gen, zip |-> k \in Zipped]]
          /\ allocated' = allocated \cup {k}
          /\ fills' = [fills EXCEPT ![k] = @ + 1]
          /\ GoesAfter(t, NoCall, g # r.cache)
          /\ UNCHANGED <<mutex, cancelled, stranded, failures>>
       \/ /\ r.says = "room"
          /\ cache' = [c EXCEPT !.block[s].dirty = TRUE]
          /\ Strand(t, s, g # r.cache)
          /\ UNCHANGED <<hold, allocated, fills>>
       \/ /\ r.says = "wait"
          /\ cache' = r.cache
          /\ UNCHANGED <<client, mutex, allocated, fills, cancelled, stranded, failures>>
       \/ /\ r.says = "full"
          /\ cache' = r.cache
          /\ Throw(t)
          /\ UNCHANGED <<hold, allocated, fills, stranded, failures>>
    /\ UNCHANGED <<index, io, disk, stable, committed, leaked>>

(* DiskIndex::insertRecord; a RocksIndexMap keeps no slot and no generation. *)
Entered(t, k, zip) ==
    index' = [index EXCEPT ![k] = IF Home[t] \in Temporary THEN hold[t][k]
                                  ELSE [NoHandle EXCEPT !.zip = zip]]

(* DBArray::unpinChunk and MemArray::unpinChunk of a new chunk: it is compressed *)
(* (when that saves nothing it is kept as it is), entered into the index and     *)
(* unpinned.                                                                     *)
insertRecord(t, k) ==
    LET s == hold[t][k].slot IN
    /\ Ready(t) /\ t \notin cancelled /\ CallerPinned(t, k) /\ mutex[Home[t]] = NoOne
    /\ \E zip \in IF k \in Zipped THEN BOOLEAN ELSE {FALSE} :
          /\ cache' = unpinBuffer([cache EXCEPT !.block[s].cbuf = k \in Zipped,
                                                !.block[s].zip = zip], s)
          /\ Entered(t, k, zip)
    /\ hold' = [hold EXCEPT ![t][k] = NoHandle]
    /\ Enter(t, NoCall)
    /\ UNCHANGED <<mutex, io, storage, history, cancelled, failures>>

(* _cleanupDiskIndexValue of a new chunk: it grows (CachedDBChunk::reallocate) or *)
(* its query is over.  It is unpinned here and discarded by a second call.        *)
cleanupDiskIndexValue(t, k) ==
    /\ Ready(t) /\ CallerPinned(t, k) /\ (t \in cancelled \/ k \in Abandoned)
    /\ cache' = unpinBuffer(cache, hold[t][k].slot)
    /\ leaked' = leaked + (IF k \in Zipped THEN Size[k] ELSE 0)
    /\ hold' = [hold EXCEPT ![t][k] = NoHandle]
    /\ Enter(t, [NoCall EXCEPT !.pc = "discard", !.key = k])
    /\ UNCHANGED <<index, mutex, io, storage, fills, committed, stranded, cancelled, failures>>

-----------------------------------------------------------------------------
(* Pinning a stored chunk: DiskIndex::pinValue, BufferHandle::pinBuffer *)

pinValue(t, k) ==
    /\ Ready(t) /\ t \notin cancelled
    /\ index[k] # NoEntry /\ hold[t][k] = NoHandle /\ (Own(t, k) \/ k \in committed)
    /\ Lock(t, StoreOf[k])
    /\ Enter(t, [NoCall EXCEPT !.pc = "pin", !.key = k, !.fast = TRUE])
    /\ UNCHANGED <<cache, hold, index, io, storage, history, cancelled, failures>>

(* The pinned buffer's handle goes to the caller and, in memory, to the index. *)
Handed(t, k, h) ==
    /\ hold' = [hold EXCEPT ![t][k] = h]
    /\ index' = [index EXCEPT ![k] = IF StoreOf[k] \in Temporary THEN h ELSE @]
    /\ Unlock(t)

(* RetryPinException, caught MAX_PIN_RETRIES times *)
Retry(t, grown) ==
    IF call[t].tries + 1 < MAX_PIN_RETRIES
    THEN /\ GoesAfter(t, [NoCall EXCEPT !.pc = "pin", !.key = call[t].key,
                                        !.tries = call[t].tries + 1], grown)
         /\ UNCHANGED <<mutex, cancelled>>
    ELSE ThrowAfter(t, grown)

(* _pinBuffer and _pinBufferLocked when the buffer is in the cache.  The handle *)
(* in the index may lead straight to the slot; then the list is left alone.     *)
pinBuffer(t) ==
    LET k == call[t].key
        s == cache.map[k]
        h == cache.block[s]
        fast == call[t].fast /\ index[k].slot = s /\ index[k].gen = h.gen
    IN
    /\ Runs(t, "pin") /\ Resident(cache, k)
    /\ \/ /\ h.pins = 0 /\ h.pending
          /\ Goes(t, [call[t] EXCEPT !.pc = "pinwait", !.slot = s, !.gen = h.gen,
                                     !.fast = fast, !.asleep = TRUE])
          /\ UNCHANGED <<cache, hold, index, mutex>>
       \/ /\ ~(h.pins = 0 /\ h.pending)
          /\ cache' = Pinned(IF fast THEN cache ELSE updateLru(cache, s), s)
          /\ Handed(t, k, [slot |-> s, gen |-> h.gen, zip |-> index[k].zip])
          /\ Goes(t, NoCall)
    /\ UNCHANGED <<io, storage, history, cancelled, failures>>

(* What the reference a thread kept over its wait leads to: the header, or, once *)
(* the list has moved, storage that was freed: the header as it was when the     *)
(* list moved, or whatever has been put there since.                             *)
Sees(t) ==
    LET old == [FreeHeader(call[t].gen) EXCEPT !.pending = TRUE]
    IN  IF call[t].stale THEN {old, [old EXCEPT !.pending = FALSE], FreeHeader(call[t].gen + 1)}
        ELSE {cache.block[call[t].slot]}

(* The pending write is over; the slot may hold another buffer by now. *)
pinAfterWrite(t) ==
    LET k == call[t].key
        s == call[t].slot
        moved == IF call[t].fast THEN cache ELSE updateLru(cache, s)
    IN
    /\ Runs(t, "pinwait")
    /\ \E h \in Sees(t) :
          IF h.pins = 0 /\ h.pending
          THEN /\ Goes(t, [call[t] EXCEPT !.asleep = TRUE])
               /\ UNCHANGED <<cache, hold, index, mutex, cancelled>>
          ELSE IF h.gen = call[t].gen
          THEN /\ cache' = IF call[t].stale THEN moved ELSE Pinned(moved, s)
               /\ Handed(t, k, [slot |-> s, gen |-> h.gen, zip |-> index[k].zip])
               /\ Goes(t, NoCall)
               /\ UNCHANGED cancelled
          ELSE /\ IF call[t].fast
                  THEN /\ Goes(t, [NoCall EXCEPT !.pc = "pin", !.key = k])
                       /\ UNCHANGED <<mutex, cancelled>>
                  ELSE Retry(t, FALSE)
               /\ UNCHANGED <<cache, hold, index>>
    /\ UNCHANGED <<io, storage, history, failures>>

(* _pinBufferLocked when the buffer is not in the cache: it is read under the    *)
(* mutex into a slot for which space is reserved first, unless the buffer came   *)
(* in while the thread waited for that space.  A readData that throws leaves the *)
(* claims on the slot too, with those on the temporary compression buffer.       *)
loadBuffer(t) ==
    LET k == call[t].key
        zip == index[k].zip
        r == reserveSpace(cache, t, Times(k, zip))
        g == Grown(r.cache)
        s == Head(g.free)
        c == allocateBlockHeader(g, k, zip)
    IN
    /\ Runs(t, "load") \/ (Runs(t, "pin") /\ ~Resident(cache, k))
    /\ \/ /\ r.says = "wait"
          /\ cache' = r.cache
          /\ Goes(t, [call[t] EXCEPT !.pc = "load"])
          /\ UNCHANGED <<hold, index, mutex, cancelled, stranded, failures>>
       \/ /\ r.says = "full"
          /\ cache' = r.cache
          /\ Throw(t)
          /\ UNCHANGED <<hold, index, stranded, failures>>
       \/ /\ r.says = "room" /\ Resident(r.cache, k)
          /\ cache' = [g EXCEPT !.block[s].gen = @ + 2]
          /\ Retry(t, g # r.cache)
          /\ UNCHANGED <<hold, index, stranded, failures>>
       \/ /\ r.says = "room" /\ ~Resident(r.cache, k)
          /\ cache' = [c EXCEPT !.block[s].data = disk[k], !.map[k] = s,
                                !.cached = @ + Size[k], !.pinned = @ + Size[k]]
          /\ Handed(t, k, [slot |-> s, gen |-> c.block[s].gen, zip |-> zip])
          /\ GoesAfter(t, NoCall, g # r.cache)
          /\ UNCHANGED <<cancelled, stranded, failures>>
       \/ /\ r.says = "room" /\ ~Resident(r.cache, k)
          /\ cache' = [c EXCEPT !.block[s].cbuf = zip,
                                !.cached = @ + Times(k, zip), !.pinned = @ + Times(k, zip)]
          /\ Strand(t, s, g # r.cache)
          /\ UNCHANGED <<hold, index>>
    /\ UNCHANGED <<io, storage, fills, committed, leaked>>

(* DiskIndexValue::unpin *)
unpin(t, k) ==
    /\ call[t].pc = "idle" /\ IndexPinned(t, k)
    /\ cache' = unpinBuffer(cache, hold[t][k].slot)
    /\ hold' = [hold EXCEPT ![t][k] = NoHandle]
    /\ UNCHANGED <<call, calls, index, mutex, io, storage, history, cancelled, failures>>

(* _getRawData of a stored chunk of a temporary array: the only pin may write. *)
getRawData(t, k) ==
    LET s == hold[t][k].slot
        h == cache.block[s]
    IN
    /\ Ready(t) /\ t \notin cancelled /\ fills[k] < MaxFills
    /\ IndexPinned(t, k) /\ Own(t, k) /\ Home[t] \in Temporary
    /\ h.dirty \/ h.pins = 1
    /\ cache' = [cache EXCEPT !.block[s].dirty = TRUE, !.block[s].data = fills[k] + 1,
                              !.dirty = @ + (IF h.dirty THEN 0 ELSE Bytes(h))]
    /\ fills' = [fills EXCEPT ![k] = @ + 1]
    /\ Enter(t, NoCall)
    /\ UNCHANGED <<hold, index, mutex, io, storage, committed, leaked, stranded, cancelled, failures>>

-----------------------------------------------------------------------------
(* DiskIndex::flushVersion at the commit of a query, BufferMgr::flushAllBuffers *)

flushVersion(t) ==
    /\ Ready(t) /\ t \notin cancelled /\ Home[t] \notin Temporary
    /\ \A k \in Key : Own(t, k) => hold[t][k] = NoHandle
    /\ Lock(t, Home[t])
    /\ Enter(t, [NoCall EXCEPT !.pc = "flush"])
    /\ UNCHANGED <<cache, hold, index, io, storage, history, cancelled, failures>>

(* Writes are issued and awaited until no buffer is dirty; then the file is *)
(* synced.  The version is committed unless its query was aborted.          *)
flushAllBuffers(t) ==
    LET mine == {k \in Key : StoreOf[k] = Home[t]}
        dirty == {k \in mine : Resident(cache, k) /\ cache.block[cache.map[k]].dirty}
        write == {cache.map[k] : k \in {j \in dirty : ~cache.block[cache.map[j]].pending}}
    IN
    /\ Runs(t, "flush")
    /\ IF dirty # {}
       THEN /\ cache' = FoldLeft(Destaged, cache, SetToSeq(write))
            /\ Goes(t, [call[t] EXCEPT !.asleep = TRUE])
            /\ UNCHANGED <<mutex, stable, committed>>
       ELSE /\ stable' = [k \in Key |-> IF k \in mine THEN disk[k] ELSE stable[k]]
            /\ committed' = committed \cup
                   (IF t \in cancelled THEN {} ELSE {k \in mine : index[k] # NoEntry})
            /\ Goes(t, NoCall) /\ Unlock(t)
            /\ UNCHANGED cache
    /\ UNCHANGED <<hold, index, io, disk, allocated, fills, leaked, stranded, cancelled, failures>>

-----------------------------------------------------------------------------
(* Discarding: DiskIndex::deleteRecord, rollbackVersion, BufferMgr::discardBuffer *)

deleteRecord(t, k) ==
    /\ Ready(t) /\ t \notin cancelled
    /\ Own(t, k) /\ index[k] # NoEntry /\ hold[t][k] = NoHandle
    /\ Lock(t, Home[t])
    /\ Enter(t, [NoCall EXCEPT !.pc = "discard", !.key = k])
    /\ UNCHANGED <<cache, hold, index, io, storage, history, cancelled, failures>>

(* The buffers of the version an aborted query was writing go one by one. *)
rollbackVersion(t) ==
    /\ Ready(t) /\ t \in cancelled /\ \A k \in Key : hold[t][k] = NoHandle
    /\ Lock(t, Home[t])
    /\ Enter(t, [NoCall EXCEPT !.pc = "rollback", !.back = "rollback",
                               !.todo = {k \in Key : Own(t, k) /\ index[k] # NoEntry}])
    /\ UNCHANGED <<cache, hold, index, io, storage, history, cancelled, failures>>

(* The entries are deleted in one batch when all the buffers are gone; the thread *)
(* goes on to another query.                                                      *)
rollbackNext(t) ==
    /\ Runs(t, "rollback")
    /\ IF call[t].todo = {}
       THEN /\ index' = [k \in Key |-> IF Own(t, k) THEN NoEntry ELSE index[k]]
            /\ cancelled' = cancelled \ {t}
            /\ Goes(t, NoCall) /\ Unlock(t)
       ELSE LET k == Min(call[t].todo) IN
            /\ Goes(t, [call[t] EXCEPT !.pc = "discard", !.key = k, !.todo = @ \ {k}])
            /\ UNCHANGED <<index, mutex, cancelled>>
    /\ UNCHANGED <<cache, hold, io, storage, history, failures>>

(* DataStore::freeChunk; deleteRecord erases its entry, the mutex goes with the call. *)
Freed(t, k) ==
    /\ allocated' = allocated \ {k}
    /\ IF call[t].back = "rollback"
       THEN /\ Goes(t, [NoCall EXCEPT !.pc = "rollback", !.back = "rollback", !.todo = call[t].todo])
            /\ UNCHANGED <<index, mutex>>
       ELSE /\ index' = [index EXCEPT ![k] = NoEntry]
            /\ Goes(t, NoCall) /\ Unlock(t)

(* _removeBufferFromCache: find the buffer, and wait if a write of it is pending *)
Settle(t, tries) ==
    LET k == call[t].key
        h == cache.block[cache.map[k]]
    IN
    IF ~Resident(cache, k) THEN Freed(t, k) /\ UNCHANGED <<cache, cancelled>>
    ELSE IF tries = MAX_PIN_RETRIES THEN Throw(t) /\ UNCHANGED <<cache, allocated, index>>
    ELSE IF h.pending
    THEN /\ Goes(t, [call[t] EXCEPT !.pc = "discardwait", !.slot = cache.map[k], !.gen = h.gen,
                                    !.tries = tries, !.asleep = TRUE, !.stale = FALSE])
         /\ UNCHANGED <<cache, allocated, index, mutex, cancelled>>
    ELSE /\ cache' = removeBufferFromCache(cache, k)
         /\ Freed(t, k)
         /\ UNCHANGED cancelled

discardBuffer(t) ==
    /\ Runs(t, "discard")
    /\ Settle(t, 0)
    /\ UNCHANGED <<hold, io, disk, stable, history, failures>>

(* The wait is over: a slot whose generation looks the same is freed, one that has *)
(* changed is looked up again.  A reference that has gone stale may show the old   *)
(* generation of a slot that was freed (that the lists do not survive: the model   *)
(* lets the call throw) or holds another buffer, which then goes.                  *)
discardAfterWrite(t) ==
    LET k == call[t].key
        s == call[t].slot
    IN
    /\ Runs(t, "discardwait")
    /\ \E h \in Sees(t) :
          IF h.pending
          THEN /\ Goes(t, [call[t] EXCEPT !.asleep = TRUE])
               /\ UNCHANGED <<cache, allocated, index, mutex, cancelled>>
          ELSE IF h.gen = call[t].gen
          THEN IF cache.block[s].used /\ cache.block[s].pins = 0
               THEN /\ cache' = [releaseBlockHeader(cache, s) EXCEPT !.map[k] = 0]
                    /\ Freed(t, k)
                    /\ UNCHANGED cancelled
               ELSE Throw(t) /\ UNCHANGED <<cache, allocated, index>>
          ELSE Settle(t, call[t].tries + 1)
    /\ UNCHANGED <<hold, io, disk, stable, history, failures>>

-----------------------------------------------------------------------------
(* test_clear_cache(): everything that can go goes *)

enterClearCache(t) ==
    /\ Ready(t) /\ t \notin cancelled
    /\ Enter(t, [NoCall EXCEPT !.pc = "clear"])
    /\ UNCHANGED <<cache, hold, index, mutex, io, storage, history, cancelled, failures>>

clearCache(t) ==
    LET r == reserveSpace(cache, t, Limit) IN
    /\ Runs(t, "clear")
    /\ cache' = r.cache
    /\ \/ r.says = "room" /\ Goes(t, NoCall) /\ UNCHANGED <<mutex, cancelled>>
       \/ r.says = "wait" /\ UNCHANGED <<call, calls, mutex, cancelled>>
       \/ r.says = "full" /\ Throw(t)
    /\ UNCHANGED <<hold, index, io, storage, history, failures>>

-----------------------------------------------------------------------------
(* The I/O threads: BufferMgr::_writeSlotUnlocked *)

(* The header is copied under the mutex. *)
copyHeader(i) ==
    LET s == Head(cache.jobs)
        h == cache.block[s]
    IN
    /\ io[i] = NoJob /\ cache.jobs # <<>>
    /\ io' = [io EXCEPT ![i] = [slot |-> s, gen |-> h.gen, key |-> h.key,
                                bad |-> h.zip /\ ~h.cbuf, done |-> FALSE]]
    /\ cache' = [cache EXCEPT !.jobs = Tail(@)]
    /\ UNCHANGED <<client, index, mutex, storage, history, cancelled, failures>>

(* A faulty variant: a write that fails leaves the queries alone. *)
writeDataQuietly(i) ==
    /\ io[i] # NoJob /\ ~io[i].done
    /\ io' = [io EXCEPT ![i].done = TRUE]
    /\ \/ /\ ~io[i].bad
          /\ disk' = [disk EXCEPT ![io[i].key] = cache.block[io[i].slot].data]
          /\ UNCHANGED failures
       \/ /\ io[i].bad \/ failures < MaxFailures
          /\ failures' = failures + (IF io[i].bad THEN 0 ELSE 1)
          /\ UNCHANGED disk
    /\ UNCHANGED <<cache, client, index, mutex, stable, allocated, history, cancelled>>

(* The write, without the mutex.  A buffer that was to be compressed and was not  *)
(* is compressed now, but to a size other than the one its header announces; like *)
(* any other failure that frees all the queries.  (It has that size only when the *)
(* chunk was stored before and a caller marked it dirty without having changed    *)
(* it, the "Bad getWriteData() call", which no client here makes.)                *)
writeData(i) ==
    /\ io[i] # NoJob /\ ~io[i].done
    /\ io' = [io EXCEPT ![i].done = TRUE]
    /\ \/ /\ ~io[i].bad
          /\ disk' = [disk EXCEPT ![io[i].key] = cache.block[io[i].slot].data]
          /\ UNCHANGED <<cancelled, failures>>
       \/ /\ io[i].bad \/ failures < MaxFailures
          /\ cancelled' = Thread
          /\ failures' = failures + (IF io[i].bad THEN 0 ELSE 1)
          /\ UNCHANGED disk
    /\ UNCHANGED <<cache, client, index, mutex, stable, allocated, history>>

(* finishAccounting, whether the write succeeded or not *)
finishAccounting(i) ==
    LET s == io[i].slot
        h == cache.block[s]
        c == signalReserveWaiters(cache, Bytes(h))
    IN
    /\ io[i] # NoJob /\ io[i].done
    /\ cache' = [c EXCEPT !.block[s].dirty = FALSE,
                          !.block[s].pending = FALSE,
                          !.block[s].cbuf = FALSE,
                          !.dirty = @ - Bytes(h),
                          !.pending = @ - Bytes(h),
                          !.cached = @ - (IF h.cbuf THEN Size[h.key] ELSE 0)]
    /\ io' = [io EXCEPT ![i] = NoJob]
    /\ call' = [t \in Thread |-> [call[t] EXCEPT !.asleep = FALSE]]
    /\ UNCHANGED <<hold, calls, index, mutex, storage, history, cancelled, failures>>

-----------------------------------------------------------------------------
Begins(t) ==
    \/ \E k \in Key :
          \/ allocateMemory(t, k) \/ insertRecord(t, k) \/ cleanupDiskIndexValue(t, k)
          \/ pinValue(t, k) \/ unpin(t, k) \/ getRawData(t, k) \/ deleteRecord(t, k)
    \/ flushVersion(t) \/ rollbackVersion(t) \/ enterClearCache(t)

Continues(t) ==
    \/ allocateBuffer(t)
    \/ pinBuffer(t) \/ pinAfterWrite(t) \/ loadBuffer(t)
    \/ flushAllBuffers(t)
    \/ discardBuffer(t) \/ discardAfterWrite(t) \/ rollbackNext(t)
    \/ clearCache(t)

Writes(i) == copyHeader(i) \/ writeData(i) \/ finishAccounting(i)

Next == (\E t \in Thread : Begins(t) \/ Continues(t)) \/ (\E i \in IoThread : Writes(i))

(* When a thread inside a call, or an I/O thread, has a step: ENABLED Continues(t) *)
(* and ENABLED Writes(i), spelled out.                                             *)
CanContinue(t) == call[t].pc # "idle" /\ ~call[t].asleep /\ ~Queued(t)
CanWrite(i) == io[i] # NoJob \/ cache.jobs # <<>>

(* A thread inside a call gets to run, and so does the I/O pool: weak fairness. *)
Fairness ==
    /\ \A t \in Thread : []<>~CanContinue(t) \/ []<><<Continues(t)>>_vars
    /\ \A i \in IoThread : []<>~CanWrite(i) \/ []<><<Writes(i)>>_vars

Spec == Init /\ [][Next]_vars /\ Fairness

-----------------------------------------------------------------------------
Header == [used : BOOLEAN, key : Key \cup {0}, dirty : BOOLEAN, pending : BOOLEAN, pins : Nat,
           gen : Nat, zip : BOOLEAN, cbuf : BOOLEAN, data : 0 .. MaxFills]
Handle == [slot : Int, gen : Nat, zip : BOOLEAN]
Pc == {"idle", "allocate", "pin", "pinwait", "load", "flush", "discard", "discardwait",
       "rollback", "clear"}

(* The values of the headers, handles and calls. *)
TypeOK ==
    /\ cache.block \in Seq(Header) /\ cache.map \in [Key -> 0 .. Len(cache.block)]
    /\ cache.lru \in Seq(Nat) /\ cache.free \in Seq(Nat) /\ cache.jobs \in Seq(Nat)
    /\ {cache.cached, cache.dirty, cache.pinned, cache.pending, cache.reserved} \subseteq Nat
    /\ \A t \in Thread : call[t].pc \in Pc /\ call[t].tries \in 0 .. MAX_PIN_RETRIES
    /\ hold \in [Thread -> [Key -> Handle]] /\ index \in [Key -> Handle]
    /\ mutex \in [Store -> Thread \cup {NoOne}]
    /\ disk \in [Key -> 0 .. MaxFills] /\ stable \in [Key -> 0 .. MaxFills]
    /\ allocated \subseteq Key /\ committed \subseteq Key /\ cancelled \subseteq Thread

Used == {s \in DOMAIN cache.block : cache.block[s].used}

(* The bytes claimed for a slot: a new buffer of a compressed array also has those *)
(* of the compression buffer it will get, one whose space could not be allocated   *)
(* (stranded, and dirty) has none.                                                 *)
Claimed(s) ==
    LET h == cache.block[s]
        new == \E t \in Thread : /\ CallerPinned(t, h.key) /\ hold[t][h.key].slot = s
                                 /\ h.key \in Zipped
    IN  IF s \in stranded /\ h.dirty THEN 0 ELSE Times(h.key, h.cbuf \/ new)

SumOver(f(_), S) == MapThenSumSet(f, S)

(* The counters of the cache (_bytesCached, _dirtyBytes, _pinnedBytes,           *)
(* _pendingBytes, _reserveReqBytes) are the bytes of the buffers in that state   *)
(* and of the requests that wait, whatever the order in which buffers are        *)
(* allocated, pinned, destaged, written, ejected and discarded and whichever     *)
(* call of the data store fails, but for what is lost with compression buffers.  *)
(* The cache stays within its limit, and a thread in the reserve queue waits for *)
(* bytes that are on their way: what is asked for never exceeds what the pending *)
(* writes will release (the assertion in every claim and release of the two).    *)
CountersMatch ==
    /\ cache.cached = SumOver(Claimed, Used) + leaked
    /\ cache.dirty = SumOver(Claimed, {s \in Used : cache.block[s].dirty}) + leaked
    /\ cache.pinned = SumOver(Claimed, {s \in Used : cache.block[s].pins > 0}) + leaked
    /\ cache.pending = SumOver(Claimed, {s \in Used : cache.block[s].pending})
    /\ cache.reserved = FoldLeft(LAMBDA sum, r : sum + r.size, 0, cache.queue)
    /\ cache.cached <= Limit
    /\ cache.reserved <= cache.pending

(* _dsBufferMap, the LRU list and the free list agree with the headers: a buffer  *)
(* is in one slot, and a slot is either free or on the LRU list, once.  The slots *)
(* in use that the map does not know are those a failed call of the data store    *)
(* has left behind: each keeps its one pin for good, and its memory with it.      *)
(* Every variable has its type.                                                   *)
SlotsAgree ==
    /\ TypeOK
    /\ \A k \in Key : Resident(cache, k) =>
          cache.map[k] \in Used \ stranded /\ cache.block[cache.map[k]].key = k
    /\ \A s \in Used \ stranded : cache.map[cache.block[s].key] = s
    /\ \A s \in stranded : s \in Used /\ cache.block[s].pins = 1
    /\ ToSet(cache.lru) = Used /\ Len(cache.lru) = Cardinality(Used)
    /\ ToSet(cache.free) = (DOMAIN cache.block) \ Used
    /\ Len(cache.free) + Len(cache.lru) = Len(cache.block)

(* The slot of a write job belongs to the job from the moment the write is issued *)
(* until finishAccounting, though the mutex is free meanwhile: the buffer stays,  *)
(* dirty, pending and unpinned, in the generation the I/O thread has copied (the  *)
(* assertion there), and no second job writes it.                                 *)
WritesOwnTheirSlot ==
    LET At(s) == Cardinality({n \in DOMAIN cache.jobs : cache.jobs[n] = s})
                 + Cardinality({i \in IoThread : io[i].slot = s})
    IN  /\ \A s \in Used :
              LET h == cache.block[s] IN
              /\ At(s) = (IF h.pending THEN 1 ELSE 0)
              /\ h.pending => h.dirty /\ h.pins = 0
        /\ \A s \in (DOMAIN cache.block) \ Used : At(s) = 0
        /\ \A i \in IoThread : io[i] # NoJob =>
              cache.block[io[i].slot].gen = io[i].gen /\ cache.block[io[i].slot].key = io[i].key

(* What a query that was not aborted has pinned is there, in the slot and the      *)
(* generation of its handle, with the latest content of the buffer: ejecting,      *)
(* writing and reading back, or discarding and reusing the space, lose no update.  *)
PinnedIsLatest ==
    \A t \in Thread, k \in Key : hold[t][k] # NoHandle /\ t \notin cancelled =>
        LET h == cache.block[hold[t][k].slot] IN
        /\ h.used /\ h.key = k /\ h.gen = hold[t][k].gen /\ h.pins > 0
        /\ h.data = fills[k]

(* The chunks of a committed version are on disk, synced: a write that failed    *)
(* has aborted the query before the flush that waits for it can end.             *)
CommittedIsStable ==
    \A k \in committed : stable[k] = fills[k] /\ k \in allocated

(* Every call returns: no pin, allocation, flush or discard waits for something *)
(* only another caller could do.                                                *)
EveryCallReturns == \A t \in Thread : call[t].pc # "idle" ~> call[t].pc = "idle"
====
