------------------------------ MODULE PullSG ------------------------------
(***************************************************************************)
(* Pull-based scatter/gather of one attribute of a distributed array       *)
(* (src/src/query/PullSGArray.cpp, src/src/query/PullSGContext.cpp,        *)
(* src/src/array/MultiStreamArray.cpp, and the handlers of mtFetch,        *)
(* mtRemoteChunk, mtSyncRequest and mtSyncResponse in                      *)
(* src/src/network/MessageHandleJob.cpp).                                  *)
(*                                                                         *)
(* Every instance is a producer, which caches the chunks of its part of    *)
(* the input by destination and sends them when they are asked for, and a  *)
(* consumer, which merges one stream of chunks per producer in row-major   *)
(* order.  Each side bounds what it holds, and a consumer cannot merge a   *)
(* position before it knows the next position of EVERY stream: the         *)
(* protocol has to keep going although everybody may wait on somebody.     *)
(*                                                                         *)
(* The operator queue and the receive queue of a query run one job at a    *)
(* time; connections are FIFO.  The consumer's thread interleaves with the *)
(* receive queue at every acquisition of the stream's mutex.               *)
(*                                                                         *)
(* Message identifiers are only ever compared to learn whether the last    *)
(* position-only request was answered.  At most one such request is        *)
(* outstanding per stream, so the identifiers are kept as one bit that     *)
(* every position-only request flips.                                      *)
(***************************************************************************)
EXTENDS Integers, Sequences, FiniteSets, SequencesExt, FiniteSetsExt

CONSTANTS
    N,              \* number of instances of the query (getInstancesCount)
    Layouts         \* what is redistributed: the input of each instance, the
                    \* destination of each position, where and how often an
                    \* input is not ready, and the sizes of the queues

ASSUME PullSGAssumption ==
    /\ N \in Nat \ {0}
    /\ \A l \in Layouts : l.receive \in Nat \ {0} /\ l.send \in Nat \ {0}

Instance == 1 .. N

\* ALL_INSTANCE_MASK and INVALID_INSTANCE as destinations, and "no position"
All == 0
Invalid == N + 1
NoPos == 0

VARIABLES
    layout,     \* what this behaviour redistributes, and the queue sizes
    ctx,        \* PullSGContext of each producer
    bg,         \* its rescheduled job: the fetches queued before it, or NoJob
    stream,     \* _messages[c][p]: StreamState of c's stream from p
    common,     \* _commonChunks of each consumer
    pull,       \* the thread that pulls from the array: nextChunk and sync
    got,        \* chunks the consumer was handed, with the streams merged
    fetch,      \* fetch[c][p]: requests on the way from c to p
    chan,       \* chan[p][c]: replies on the way from p to c
    broken      \* assertions of the code that have failed

vars == <<layout, ctx, bg, stream, common, pull, got, fetch, chan, broken>>

NoJob == [c \in Instance |-> -1]

\* Assertions of the code, by name
Asserts(claims) == broken' = broken \cup {name \in DOMAIN claims : ~claims[name]}

(***************************************************************************)
(* Messages.  A chunk carries the position that follows it, when known.    *)
(***************************************************************************)
Chunk(pos, dest) ==
    [kind |-> "chunk", pos |-> pos, dest |-> dest, next |-> NoPos, nextDest |-> Invalid, id |-> 0]

Position(pos, dest) == [Chunk(pos, dest) EXCEPT !.kind = "position"]

EOF == [Chunk(NoPos, Invalid) EXCEPT !.kind = "eof"]

Request(positionOnly, prefetch, id) ==
    [kind |-> "fetch", positionOnly |-> positionOnly, prefetch |-> prefetch, id |-> id]

Sync == [Request(FALSE, 0, 0) EXCEPT !.kind = "sync"]

Synced == [EOF EXCEPT !.kind = "synced"]

------------------------------------------------------------------------------
(***************************************************************************)
(* The producer: PullSGContext.                                            *)
(***************************************************************************)
Locate(pos, puller) ==
    IF layout.dest[pos] = All THEN puller ELSE layout.dest[pos]

\* The positions [first, last] of the input that hold values (hasValues).
Filled(p, first, last) ==
    SelectSeq(SubSeq(layout.input[p], first, last), LAMBDA item : ~item.empty)

\* drainInputArray: cache chunks until the input ends, the cache is full or
\* advancing from item `blocked` throws RetryException.  An attribute that was
\* unavailable is advanced first.
drainInputArray(p, s, blocked) ==
    LET first   == IF s.unavailable THEN s.next + 1 ELSE s.next
        full    == {k \in first .. Len(layout.input[p]) :
                      /\ ~layout.input[p][k].empty
                      /\ s.size + Len(Filled(p, first, k - 1)) >= layout.send}
        stuck   == {k \in {blocked} : k >= first}
        stop    == Min(full \cup stuck \cup {Len(layout.input[p]) + 1})
        retries == stop \in stuck /\ stop \notin full
        items   == Filled(p, first, IF retries THEN stop ELSE stop - 1)
        shared  == Len(SelectSeq(items, LAMBDA item : layout.dest[item.pos] = All))
        ended   == stop > Len(layout.input[p])
        For(d)  == LET mine == SelectSeq(items, LAMBDA item : Locate(item.pos, d) = d)
                   IN  [i \in 1 .. Len(mine) |-> Chunk(mine[i].pos, d)]
    IN  IF s.unavailable /\ blocked = s.next
        THEN [s EXCEPT !.retries = @ + 1]
        ELSE [s EXCEPT !.next = stop,
                       !.unavailable = retries,
                       !.retries = IF retries THEN @ + 1 ELSE @,
                       !.size = @ + Len(items),
                       !.shallow = @ + shared * (N - 1) + (IF ended THEN N ELSE 0),
                       !.eof = ended,
                       !.chunks = [d \in Instance |->
                           @[d] \o For(d) \o (IF ended THEN <<EOF>> ELSE <<>>)]]

\* reapChunkMsg and setNextPosition: the i-th message sent to d, with the
\* position of the one behind it in the cache or else of the input.
Reaped(p, s, d, i) ==
    LET m    == [s.chunks[d][i] EXCEPT !.id = s.lastFetch[d]]
        last == i = Len(s.chunks[d])
        here == layout.input[p][s.next].pos
    IN  CASE m.kind = "eof" \/ (last /\ s.unavailable) -> m
          [] last -> [m EXCEPT !.next = here, !.nextDest = Locate(here, d)]
          [] OTHER -> [m EXCEPT !.next = s.chunks[d][i + 1].pos,
                                !.nextDest = s.chunks[d][i + 1].dest]

OnlyPosition(s, puller, positionOnly, d) ==
    d = puller /\ positionOnly /\ s.requested[d] = 0

\* reapChunkMsg: how many of the reaped messages leave the count of cached
\* chunks; the extra copies of replicated chunks and the ends are counted apart.
DeepEach(s, reaped) == Min({reaped, s.size})

Deep(s, reaped) == IF reaped > s.shallow THEN reaped - s.shallow ELSE 0

\* findCachedChunksToSend: what goes to each instance, and what stays.
findCachedChunksToSend(p, s, puller, positionOnly) ==
    LET Only(d)  == OnlyPosition(s, puller, positionOnly, d) /\ s.chunks[d] # <<>>
        Count(d) == IF Only(d) THEN 0 ELSE Min({Len(s.chunks[d]), s.requested[d]})
        Peek(d)  == LET m == Head(s.chunks[d])
                    IN  <<[m EXCEPT !.kind = IF @ = "eof" THEN @ ELSE "position",
                                    !.id = s.lastFetch[d]]>>
        reaped   == MapThenSumSet(Count, Instance)
        deep     == Deep(s, reaped)
    IN  [sent  |-> [d \in Instance |->
                      IF Only(d) THEN Peek(d)
                      ELSE [i \in 1 .. Count(d) |-> Reaped(p, s, d, i)]],
         state |-> [s EXCEPT !.size = @ - deep,
                             !.shallow = @ - (reaped - deep),
                             !.requested = [d \in Instance |-> @[d] - Count(d)],
                             !.chunks = [d \in Instance |->
                                 IF Only(d) /\ Head(@[d]).kind = "eof" THEN Tail(@[d])
                                 ELSE SubSeq(@[d], Count(d) + 1, Len(@[d]))]]]

\* getNextChunksInternal: drain, send what is asked for and, when nothing goes
\* to the pulling instance, the current position.
getNextChunksInternal(p, s, puller, positionOnly, blocked) ==
    LET drained == IF s.eof THEN s ELSE drainInputArray(p, s, blocked)
        found   == findCachedChunksToSend(p, drained, puller, positionOnly)
        here    == layout.input[p][drained.next].pos
        reply   == [Position(here, IF drained.unavailable THEN Invalid ELSE Locate(here, puller))
                      EXCEPT !.id = drained.lastFetch[puller]]
    IN  IF positionOnly /\ found.sent[puller] = <<>> /\ ~drained.eof
        THEN [found EXCEPT !.sent[puller] = <<reply>>]
        ELSE found

\* The item from which the input of p cannot be advanced yet, or 0: the first
\* layout.retries attempts to do so throw RetryException.
Blocked(p) == IF ctx[p].retries < layout.retries THEN layout.stall[p] ELSE 0

\* The end of handleSGFetchChunk: send, and setupToRunInBackground, which puts
\* the job behind the requests that are queued by then.
Served(p, r, job) ==
    /\ ctx' = [ctx EXCEPT ![p] = r.state]
    /\ chan' = [chan EXCEPT ![p] = [d \in Instance |-> @[d] \o r.sent[d]]]
    /\ bg' = [bg EXCEPT ![p] = IF r.state.size < layout.send /\ ~r.state.eof /\ job = NoJob
                               THEN [c \in Instance |-> Len(fetch'[c][p])] ELSE job]
    /\ Asserts([cacheSize |-> r.state.size \in 0 .. layout.send])
    /\ UNCHANGED <<layout, stream, common, pull, got>>

\* The operator queue hands out c's next request, unless it was sent after the
\* rescheduled job was queued.
Take(c, p) ==
    /\ fetch[c][p] # <<>> /\ bg[p][c] # 0
    /\ fetch' = [fetch EXCEPT ![c][p] = Tail(@)]

Overtaken(c, p) == IF bg[p] = NoJob THEN NoJob ELSE [bg[p] EXCEPT ![c] = @ - 1]

\* handleSGFetchChunk for a request of c: getNextChunks
handleFetch(c, p) ==
    /\ Take(c, p) /\ Head(fetch[c][p]) # Sync
    /\ LET m == Head(fetch[c][p])
           s == [ctx[p] EXCEPT !.requested[c] = @ + m.prefetch, !.lastFetch[c] = m.id]
       IN  Served(p, getNextChunksInternal(p, s, c, m.positionOnly, Blocked(p)), Overtaken(c, p))

\* handleSGFetchChunk in the background.  The local requests counted in the job
\* were queued before it; remote ones may still have been on their way.
produceChunksInBackground(p) ==
    /\ bg[p] # NoJob /\ bg[p][p] = 0
    /\ UNCHANGED fetch
    /\ IF ctx[p].size >= layout.send \/ ctx[p].eof
       THEN Served(p, [state |-> ctx[p], sent |-> [d \in Instance |-> <<>>]], NoJob)
       ELSE Served(p, getNextChunksInternal(p, ctx[p], Invalid, FALSE, Blocked(p)), NoJob)

\* handleSyncRequest: mtSyncResponse follows the chunks.  chunkReqs counts the
\* requests of c that are not served yet, and is asserted to be zero.
handleSyncRequest(c, p) ==
    /\ Take(c, p) /\ Head(fetch[c][p]) = Sync
    /\ chan' = [chan EXCEPT ![p][c] = Append(@, Synced)]
    /\ bg' = [bg EXCEPT ![p] = Overtaken(c, p)]
    /\ Asserts([chunkReqs |-> \A i \in DOMAIN fetch[c][p] : fetch[c][p][i].kind # "fetch"])
    /\ UNCHANGED <<layout, ctx, stream, common, pull, got>>

------------------------------------------------------------------------------
(***************************************************************************)
(* The streams of a consumer: PullSGArray.                                 *)
(***************************************************************************)
Cached(st) == Len(SelectSeq(st.msgs, LAMBDA m : m.kind = "chunk"))

Outstanding(st) == Cached(st) + st.requested

maxChunksPerStream == (layout.receive \div N) \div 2

maxCommonChunks == layout.receive - maxChunksPerStream * N

PositionInFlight(st) == st.lastPositionOnly # st.lastRemote

\* The positions in front, which pruneRedundantPositions drops
RedundantNever(st) == {}

Redundant(st) ==
    {i \in 1 .. Len(st.msgs) : \A j \in 1 .. i : st.msgs[j].kind = "position"}

pruneRedundantPositions(st) ==
    [st EXCEPT !.msgs = SubSeq(@, Cardinality(Redundant(st)) + 1, Len(@))]

\* its assertion: they repeat the position the consumer is at
OnlyKnown(c, p) ==
    \A i \in Redundant(stream[c][p]) : stream[c][p].msgs[i].pos = pull[c].minPos

\* getPrefetchSize, and what it bills against the common pool
getPrefetchSizeStrict(c, st, positionOnly) ==
    CASE maxChunksPerStream > Outstanding(st) -> maxChunksPerStream - Outstanding(st)
      [] /\ maxChunksPerStream <= Outstanding(st)
         /\ common[c] < maxCommonChunks /\ st.requested = 0 ->
           Max({1, (maxCommonChunks - common[c]) \div N})
      [] OTHER -> 0

getPrefetchSize(c, st, positionOnly) ==
    CASE maxChunksPerStream > Outstanding(st) -> maxChunksPerStream - Outstanding(st)
      [] /\ maxChunksPerStream <= Outstanding(st)
         /\ common[c] < maxCommonChunks /\ st.requested = 0 ->
           Max({1, (maxCommonChunks - common[c]) \div N})
      [] OTHER -> IF ~positionOnly /\ Outstanding(st) = 0 /\ st.msgs = <<>> THEN 1 ELSE 0

BilledAll(st, prefetch) == prefetch

Billed(st, prefetch) == IF maxChunksPerStream > Outstanding(st) THEN 0 ELSE prefetch

\* requestNextChunk: what is asked of p, if anything.  A bare position is only
\* asked for when nothing was received and no such request is unanswered.
requestNextChunk(c, p, positionOnly) ==
    LET st       == IF positionOnly THEN stream[c][p] ELSE pruneRedundantPositions(stream[c][p])
        ended    == st.msgs # <<>> /\ Head(st.msgs).kind = "eof"
        bare     == positionOnly /\ st.msgs = <<>> /\ ~PositionInFlight(st)
        prefetch == IF ended THEN 0 ELSE getPrefetchSize(c, st, positionOnly)
        asks     == ~ended /\ (bare \/ (prefetch > 0 /\ st.requested = 0))
        id       == IF bare THEN 1 - st.lastPositionOnly ELSE st.lastPositionOnly
        Load(q)  == Outstanding(stream[c][q])
    IN  /\ common' = [common EXCEPT ![c] = @ + Billed(st, prefetch)]
        /\ stream' = [stream EXCEPT ![c][p] =
               IF asks THEN [st EXCEPT !.requested = @ + prefetch, !.lastPositionOnly = id] ELSE st]
        /\ fetch' = IF asks
                    THEN [fetch EXCEPT ![c][p] = Append(@, Request(bare, prefetch, id))]
                    ELSE fetch
        /\ Asserts([known     |-> positionOnly \/ OnlyKnown(c, p),
                    stream    |-> Outstanding(st) <= maxChunksPerStream + common[c],
                    attribute |-> MapThenSumSet(Load, Instance) + prefetch <= layout.receive + N,
                    pool      |-> common'[c] <= maxCommonChunks + N])

\* The receive queue hands out the next message of p, after the callback of the
\* one before.
Arrives(p, c) ==
    /\ chan[p][c] # <<>> /\ ~pull[c].call
    /\ chan' = [chan EXCEPT ![p][c] = Tail(@)]

\* handleChunkMsg: the message is stored under the stream's mutex.  If the
\* consumer's thread found the stream empty and has a callback (it is in
\* nextChunk), it is called after that.
handleChunkMsg(p, c) ==
    /\ Arrives(p, c) /\ Head(chan[p][c]) # Synced
    /\ LET m     == Head(chan[p][c])
           st    == stream[c][p]
           bytes == m.kind = "chunk"
       IN  /\ stream' = [stream EXCEPT ![c][p] =
                  [st EXCEPT !.msgs = Append(@, m), !.lastRemote = m.id, !.pending = FALSE,
                             !.requested = IF bytes THEN @ - 1 ELSE @]]
           /\ pull' = [pull EXCEPT ![c].call = st.pending /\ pull[c].pc # "idle"]
           /\ Asserts([requested |-> bytes => st.requested > 0])
    /\ UNCHANGED <<layout, ctx, bg, common, got, fetch>>

\* SyncCtx::signal, the callback
signal(c) ==
    /\ pull[c].call
    /\ pull' = [pull EXCEPT ![c].call = FALSE, ![c].cond = TRUE]
    /\ UNCHANGED <<layout, ctx, bg, stream, common, got, fetch, chan, broken>>

------------------------------------------------------------------------------
(***************************************************************************)
(* The thread that pulls: MultiStreamArray and PullSGArrayBlocking.        *)
(*   pc       what it does next                                            *)
(*   todo     the streams its loop has not visited                         *)
(*   err      a stream of the loop was not ready (RetryException)          *)
(*   notReady, ready, partial, minPos    the members of MultiStreamArray   *)
(*   merged   the streams whose part is in the chunk being merged          *)
(*   cond     SyncCtx::_cond; synced: the permits of Query::syncSG         *)
(*   call     its callback is about to be called                           *)
(***************************************************************************)
Stream(c) == Head(pull[c].todo)

\* nextChunk's loop begins with getAllStreamPositions, which visits the streams
\* whose position is not known.
RestartEarly(pl) ==
    IF pl.notReady = <<>> \/ pl.ready # {} THEN [pl EXCEPT !.pc = "choose"]
    ELSE [pl EXCEPT !.pc = "allreq", !.todo = pl.notReady, !.err = FALSE]

Restart(pl) ==
    IF pl.notReady = <<>> THEN [pl EXCEPT !.pc = "choose"]
    ELSE [pl EXCEPT !.pc = "allreq", !.todo = pl.notReady, !.err = FALSE]

\* The end of one round of a loop over streams: the next stream, or after the
\* last one a wait for the callback (RetryException) or what follows the loop.
Round(pl, first, then) ==
    LET left == [pl EXCEPT !.todo = Tail(@)]
    IN  CASE left.todo # <<>> -> [left EXCEPT !.pc = first]
          [] left.todo = <<>> /\ left.err -> [left EXCEPT !.pc = "wait"]
          [] left.todo = <<>> /\ ~left.err -> then

\* PullSGArrayBlocking::nextChunk begins with a new SyncCtx.  When it returns the
\* SyncCtx is not waited for any more: a callback under way has no effect.
Returned(pl, pc) == [pl EXCEPT !.pc = pc, !.cond = FALSE, !.call = FALSE]

nextChunk(c) ==
    /\ pull[c].pc = "idle"
    /\ pull' = [pull EXCEPT ![c] = Restart(@)]
    /\ UNCHANGED <<layout, ctx, bg, stream, common, got, fetch, chan, broken>>

\* MultiStreamArray::nextChunk once every position is known: the end, the rest
\* of a chunk, or the streams at the smallest position, skipped if it is not c's.
choose(c) ==
    /\ pull[c].pc = "choose"
    /\ LET pl   == pull[c]
           low  == Min({e.pos : e \in pl.ready})
           at   == {e \in pl.ready : e.pos = low}
           mine == \E e \in at : e.dest = c
           new  == [pl EXCEPT !.ready = @ \ at, !.merged = {}, !.err = FALSE,
                              !.partial = SetToSortSeq({e.src : e \in at}, <)]
       IN  \/ /\ pl.partial = <<>> /\ pl.ready = {}
              /\ pull' = [pull EXCEPT ![c] = Returned(@, "eof")]
              /\ UNCHANGED broken
           \/ /\ pl.partial # <<>>
              /\ pull' = [pull EXCEPT ![c] = [pl EXCEPT !.pc = "bodyreq", !.todo = pl.partial,
                                                        !.err = FALSE]]
              /\ UNCHANGED broken
           \/ /\ pl.partial = <<>> /\ pl.ready # {}
              /\ pull' = [pull EXCEPT ![c] =
                     IF mine THEN [new EXCEPT !.pc = "bodyreq", !.todo = new.partial, !.minPos = low]
                     ELSE [new EXCEPT !.pc = "nextreq", !.todo = new.partial]]
              /\ Asserts([destination |-> mine => \A e \in at : e.dest = c,
                          rowMajor    |-> (mine /\ got[c] # <<>>) => Last(got[c]).pos < low])
    /\ UNCHANGED <<layout, ctx, bg, stream, common, got, fetch, chan>>

\* The calls of requestNextChunk in nextChunkPos and nextChunkBody
AfterRequest == [allreq  |-> "allget", nextreq |-> "nextget", posreq |-> "posget",
                 bodyreq |-> "bodyget", bodypre |-> "posreq"]

request(c) ==
    /\ pull[c].pc \in DOMAIN AfterRequest
    /\ requestNextChunk(c, Stream(c), pull[c].pc # "bodyreq")
    /\ pull' = [pull EXCEPT ![c].pc = AfterRequest[@]]
    /\ UNCHANGED <<layout, ctx, bg, got, chan>>

\* mergePartialStreams is over when every stream has given its part: the chunk
\* is handed out.
Merged(pl) == Round(pl, "bodyreq", Returned([pl EXCEPT !.todo = <<>>, !.minPos = NoPos], "idle"))

Parted(pl) == pl.pc = "posget" /\ Tail(pl.todo) = <<>> /\ ~pl.err

\* getPosition in each of the three loops, after which the loop goes on.  A
\* stream that is not ready is kept in (or added to) notReady.
getPosition(c) ==
    /\ pull[c].pc \in {"allget", "nextget", "posget"}
    /\ LET p     == Stream(c)
           st    == stream[c][p]
           empty == st.msgs = <<>>
           pl    == pull[c]
           found == IF empty \/ Head(st.msgs).kind = "eof" THEN {}
                    ELSE {[pos |-> Head(st.msgs).pos, src |-> p, dest |-> Head(st.msgs).dest]}
           seen  == [pl EXCEPT
                        !.ready = @ \cup found,
                        !.err = @ \/ (empty /\ pl.pc # "posget"),
                        !.notReady = IF pl.pc = "allget"
                                     THEN (IF empty THEN @ ELSE Remove(@, p))
                                     ELSE (IF empty THEN Append(@, p) ELSE @),
                        !.partial = IF pl.pc = "posget" THEN Remove(@, p) ELSE @]
       IN  /\ stream' = [stream EXCEPT ![c][p] =
                  IF empty THEN [st EXCEPT !.pending = TRUE]
                  ELSE IF Head(st.msgs).kind = "chunk" THEN st
                  ELSE [st EXCEPT !.msgs = Tail(@)]]
           /\ Asserts([positionInFlight |-> empty => PositionInFlight(st)])
           /\ pull' = [pull EXCEPT ![c] =
                CASE pl.pc = "allget" -> Round(seen, "allreq", [seen EXCEPT !.pc = "choose", !.todo = <<>>])
                  [] pl.pc = "posget" -> Merged(seen)
                  [] pl.pc = "nextget" ->
                       IF Len(pl.todo) > 1 THEN Round(seen, "nextreq", seen)
                       ELSE LET none == [seen EXCEPT !.partial = <<>>]
                            IN  Round(none, "nextreq", Restart([none EXCEPT !.todo = <<>>]))]
           /\ got' = IF Parted(pl)
                     THEN [got EXCEPT ![c] = Append(@, [pos |-> pl.minPos, from |-> pl.merged])]
                     ELSE got
    /\ UNCHANGED <<layout, ctx, bg, common, fetch, chan>>

\* getChunk: the part of this stream, or RetryException.  Once the queue is
\* empty, the position that came with the chunk takes its place.
getChunk(c) ==
    /\ pull[c].pc = "bodyget"
    /\ LET p     == Stream(c)
           st    == pruneRedundantPositions(stream[c][p])
           m     == Head(st.msgs)
           rest  == [st EXCEPT !.msgs =
                        IF Len(@) = 1 /\ m.next # NoPos THEN <<Position(m.next, m.nextDest)>> ELSE Tail(@)]
           bills == Outstanding(rest) >= maxChunksPerStream
       IN  \/ /\ st.msgs # <<>>
              /\ stream' = [stream EXCEPT ![c][p] = rest]
              /\ common' = IF bills THEN [common EXCEPT ![c] = @ - 1] ELSE common
              /\ pull' = [pull EXCEPT ![c].pc = "bodypre", ![c].merged = @ \cup {p}]
              /\ Asserts([known  |-> OnlyKnown(c, p),
                          chunk  |-> m.kind = "chunk" /\ m.pos = pull[c].minPos /\ m.dest = c,
                          billed |-> bills => common[c] > 0])
           \/ /\ st.msgs = <<>>
              /\ stream' = [stream EXCEPT ![c][p] = [st EXCEPT !.pending = TRUE]]
              /\ pull' = [pull EXCEPT ![c] = Round([@ EXCEPT !.err = TRUE], "bodyreq", @)]
              /\ Asserts([known |-> OnlyKnown(c, p), outstanding |-> st.requested > 0])
              /\ UNCHANGED common
    /\ UNCHANGED <<layout, ctx, bg, got, fetch, chan>>

\* waitForActiveAttributes returns, and nextChunk is tried again.
waitForActiveAttributes(c) ==
    /\ pull[c].pc = "wait" /\ pull[c].cond
    /\ pull' = [pull EXCEPT ![c] = Restart([@ EXCEPT !.cond = FALSE])]
    /\ UNCHANGED <<layout, ctx, bg, stream, common, got, fetch, chan, broken>>

\* PullSGArrayBlocking::sync at the end of the array: syncSG asks every
\* instance for an answer behind its chunks, then everyone meets at a barrier
\* and drops the context.
sync(c) ==
    /\ pull[c].pc = "eof"
    /\ fetch' = [fetch EXCEPT ![c] = [p \in Instance |-> Append(@[p], Sync)]]
    /\ pull' = [pull EXCEPT ![c].pc = "syncSG"]
    /\ UNCHANGED <<layout, ctx, bg, stream, common, got, chan, broken>>

handleSyncResponse(p, c) ==
    /\ Arrives(p, c) /\ Head(chan[p][c]) = Synced
    /\ pull' = [pull EXCEPT ![c].synced = @ + 1]
    /\ UNCHANGED <<layout, ctx, bg, stream, common, got, fetch, broken>>

syncSG(c) ==
    /\ pull[c].pc = "syncSG" /\ pull[c].synced = N
    /\ pull' = [pull EXCEPT ![c].pc = "barrier"]
    /\ UNCHANGED <<layout, ctx, bg, stream, common, got, fetch, chan, broken>>

syncBarrierAlone(c) ==
    /\ pull[c].pc = "barrier"
    /\ pull' = [pull EXCEPT ![c].pc = "done"]
    /\ UNCHANGED <<layout, ctx, bg, stream, common, got, fetch, chan, broken>>

syncBarrier(c) ==
    /\ pull[c].pc = "barrier"
    /\ \A d \in Instance : pull[d].pc \in {"barrier", "done"}
    /\ pull' = [pull EXCEPT ![c].pc = "done"]
    /\ UNCHANGED <<layout, ctx, bg, stream, common, got, fetch, chan, broken>>

------------------------------------------------------------------------------
\* Every instance has created its context and its array (the barriers at the
\* start of the redistribution).
Init ==
    /\ layout \in Layouts
    /\ ctx = [p \in Instance |->
                [next |-> 1, unavailable |-> FALSE, retries |-> 0, size |-> 0, shallow |-> 0,
                 eof |-> FALSE,
                 chunks |-> [d \in Instance |-> <<>>], requested |-> [d \in Instance |-> 0],
                 lastFetch |-> [d \in Instance |-> 0]]]
    /\ bg = [p \in Instance |-> NoJob]
    /\ stream = [c \in Instance |-> [p \in Instance |->
                   [msgs |-> <<>>, requested |-> 0, lastPositionOnly |-> 0, lastRemote |-> 0,
                    pending |-> FALSE]]]
    /\ common = [c \in Instance |-> 0]
    /\ pull = [c \in Instance |->
                 [pc |-> "idle", todo |-> <<>>, err |-> FALSE,
                  notReady |-> [i \in Instance |-> i], ready |-> {}, partial |-> <<>>,
                  minPos |-> NoPos, merged |-> {}, cond |-> FALSE, call |-> FALSE,
                  synced |-> 0]]
    /\ got = [c \in Instance |-> <<>>]
    /\ fetch = [c \in Instance |-> [p \in Instance |-> <<>>]]
    /\ chan = [p \in Instance |-> [c \in Instance |-> <<>>]]
    /\ broken = {}

Pulls(c) ==
    \/ nextChunk(c) \/ choose(c) \/ request(c) \/ getPosition(c) \/ getChunk(c)
    \/ waitForActiveAttributes(c) \/ sync(c) \/ syncSG(c) \/ syncBarrier(c)

Serves(c, p) == handleFetch(c, p) \/ handleSyncRequest(c, p)

Receives(p, c) == handleChunkMsg(p, c) \/ handleSyncResponse(p, c)

Done == \A c \in Instance : pull[c].pc = "done"

Next ==
    \/ \E c \in Instance : Pulls(c)
    \/ \E c, p \in Instance : Serves(c, p) \/ Receives(p, c)
    \/ \E p \in Instance : produceChunksInBackground(p) \/ signal(p)

\* Threads that can run do run, and connections deliver.  CanPull and the guards
\* below say when the actions are enabled.
CanPull(c) ==
    CASE pull[c].pc = "wait" -> pull[c].cond
      [] pull[c].pc = "syncSG" -> pull[c].synced = N
      [] pull[c].pc = "barrier" -> \A d \in Instance : pull[d].pc \in {"barrier", "done"}
      [] OTHER -> pull[c].pc # "done"

CanServe(c, p) == fetch[c][p] # <<>> /\ bg[p][c] # 0

CanReceive(p, c) == chan[p][c] # <<>> /\ ~pull[c].call

CanProduce(p) == bg[p] # NoJob /\ bg[p][p] = 0

Fairness ==
    /\ \A c \in Instance : []<>~CanPull(c) \/ []<><<Pulls(c)>>_vars
    /\ \A c, p \in Instance : []<>~CanServe(c, p) \/ []<><<Serves(c, p)>>_vars
    /\ \A c, p \in Instance : []<>~CanReceive(p, c) \/ []<><<Receives(p, c)>>_vars
    /\ \A p \in Instance : []<>~CanProduce(p) \/ []<><<produceChunksInBackground(p)>>_vars
    /\ \A c \in Instance : []<>~pull[c].call \/ []<><<signal(c)>>_vars

Spec == Init /\ [][Next]_vars /\ Fairness

------------------------------------------------------------------------------
\* What c has to receive: its positions in row-major order, each with the
\* instances that hold a part of it.
Holders(pos) ==
    {p \in Instance : \E i \in DOMAIN layout.input[p] :
        layout.input[p][i].pos = pos /\ ~layout.input[p][i].empty}

Expected(c) ==
    LET mine == {pos \in DOMAIN layout.dest : Locate(pos, c) = c /\ Holders(pos) # {}}
        inOrder == SetToSortSeq(mine, <)
    IN  [i \in 1 .. Len(inOrder) |-> [pos |-> inOrder[i], from |-> Holders(inOrder[i])]]

\* The state is well formed: counters are natural, queues hold messages, the
\* streams of a loop are streams (StreamState, PullSGContext, MultiStreamArray).
TypeOK ==
    /\ layout \in Layouts
    /\ \A p \in Instance :
         /\ ctx[p].next \in 1 .. Len(layout.input[p]) + 1
         /\ ctx[p].size \in Nat /\ ctx[p].shallow \in Nat
         /\ \A d \in Instance : ctx[p].requested[d] \in Nat /\ bg[p][d] \in Nat \cup {-1}
    /\ \A c, p \in Instance :
         stream[c][p].requested \in Nat /\ {stream[c][p].lastRemote, stream[c][p].lastPositionOnly} \subseteq {0, 1}
    /\ \A c \in Instance :
         /\ common[c] \in Nat
         /\ ToSet(pull[c].todo) \cup ToSet(pull[c].partial) \cup ToSet(pull[c].notReady) \subseteq Instance

\* No assertion of the pulling array or of the context fails: prefetch limits
\* per stream and per attribute, chunks only when requested, known positions,
\* agreement on destinations, row-major order, no request behind a sync (assert
\* and ASSERT_EXCEPTION in MessageHandleJob.cpp,
\* PullSGArray.cpp, PullSGContext.cpp and MultiStreamArray.cpp); and every
\* variable has its type.
AssertionsHold == TypeOK /\ broken = {}

\* The common pool is billed exactly for what the streams hold or have
\* requested beyond their own limit, although the bills are drawn by requests
\* and released by getChunk (getPrefetchSize, getChunk).
CommonIsAccounted ==
    \A c \in Instance :
        LET Over(p) == Max({0, Outstanding(stream[c][p]) - maxChunksPerStream})
        IN  common[c] = MapThenSumSet(Over, Instance)

\* A producer holds at most sg-send-queue-size chunks of its input, counting a
\* replicated chunk once although every destination has a message for it
\* (isCacheFull and the shallow count of PullSGContext).
SendCacheBounded ==
    \A p \in Instance :
        Cardinality(UNION {{m.pos : m \in {x \in ToSet(ctx[p].chunks[d]) : x.kind = "chunk"}} :
                           d \in Instance}) <= layout.send

\* A consumer is handed its chunks in row-major order, each once and merged
\* from every instance that holds a part of it, and at the end of the array it
\* has them all (MultiStreamArray::nextChunk over the streams' positions).
DeliveredComplete ==
    \A c \in Instance :
        /\ IsPrefix(got[c], Expected(c))
        /\ pull[c].pc \in {"eof", "syncSG", "barrier", "done"} => got[c] = Expected(c)

\* Once an instance has dropped its context, no request, reply or rescheduled
\* job can look for it (sync: "make sure there are no outgoing messages
\* in-flight").
ContextOutlivesMessages ==
    \A p \in Instance : pull[p].pc = "done" =>
        /\ bg[p] = NoJob
        /\ \A c \in Instance : fetch[c][p] = <<>> /\ chan[c][p] = <<>>

\* The redistribution ends on every instance: no cycle of full caches, missing
\* positions and withheld requests keeps the instances waiting for each other.
EveryoneFinishes == <>Done

==============================================================================
