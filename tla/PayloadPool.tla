----------------------------- MODULE PayloadPool -----------------------------
(***************************************************************************)
(* The player's pool of replay evidence: IndexedDbAuditPayloadPool         *)
(* (payload-pool.ts) under MoonBitPayloadBudgetPolicy (payload-budget.ts). *)
(* The queues of all encounters share one database and one budget; a queue *)
(* may reserve the bytes and items of its whole log before it is played.   *)
(* Every operation is one strict read-write transaction: a write fault     *)
(* aborts it and changes nothing.  A handle is a queue and the incarnation *)
(* it was opened with; other tabs hold handles of their own.               *)
(***************************************************************************)
EXTENDS Integers, Sequences, FiniteSets, SequencesExt, FiniteSetsExt

CONSTANTS
  Queues,      \* the queue ids
  PoolBytes,   \* maxBytes - reservedBytes of the pool
  PoolItems,   \* maxItems of the pool
  ScopeBytes,  \* maxBytes - reservedBytes of a queue
  ScopeItems,  \* maxItems of a queue
  MaxItemBytes,
  MaxQueues,
  MaxBatch     \* MAX_BATCH

VARIABLES
  pool,     \* the metadata, and the scopes with their retained chunks
  handles   \* the open queues: handle to queue and incarnation

poolVars == <<pool, handles>>

EmptyPool ==
  [used |-> 0, items |-> 0, queues |-> 0, revision |-> 0, reservedBytes |-> 0,
   reservedItems |-> 0, scopes |-> <<>>]

-----------------------------------------------------------------------------
(* The policy.                                                             *)
Admits(maxBytes, maxItems, used, items, size) ==
  size <= MaxItemBytes /\ items < maxItems /\ used + size <= maxBytes

Reserves(bytes, items) ==
  /\ pool.used + pool.reservedBytes + bytes <= PoolBytes
  /\ pool.items + pool.reservedItems + items <= PoolItems

-----------------------------------------------------------------------------
(* The transactions, on the pool.                                          *)
IsOpen(q) == q \in DOMAIN pool.scopes

ScopeOf(q) == pool.scopes[q]

HandleStands(h) == IsOpen(h.queue) /\ ScopeOf(h.queue).incarnation = h.incarnation

NewScope(incarnation, revision, bytes, items) ==
  [incarnation |-> incarnation, revision |-> revision, first |-> 0, next |-> 0, used |-> 0,
   lastPruned |-> 0, chunks |-> <<>>, totalBytes |-> bytes, totalItems |-> items,
   creditBytes |-> bytes, creditItems |-> items]

WithScope(q, scope) ==
  [x \in DOMAIN pool.scopes \cup {q} |-> IF x = q THEN scope ELSE pool.scopes[x]]

WithoutScope(q) == [x \in DOMAIN pool.scopes \ {q} |-> pool.scopes[x]]

IsReserved(scope) == scope.totalItems > 0

(* openScope: the queue is there and is what is asked for.                 *)
Reopens(q, bytes, items) ==
  /\ IsOpen(q)
  /\ items = 0 \/ (ScopeOf(q).totalBytes = bytes /\ ScopeOf(q).totalItems = items)

(* openScope: a new queue, or a reservation for one that is still empty.   *)
Registers(q, bytes, items) ==
  /\ ~Reopens(q, bytes, items)
  /\ IsOpen(q) => ~IsReserved(ScopeOf(q)) /\ ScopeOf(q).next = 0
  /\ ~IsOpen(q) => pool.queues < MaxQueues
  /\ items > 0 => Reserves(bytes, items)

Opened(q, bytes, items) ==
  LET revision == pool.revision + 1
      incarnation == IF IsOpen(q) THEN ScopeOf(q).incarnation ELSE revision IN
  [pool EXCEPT
     !.scopes = WithScope(q, NewScope(incarnation, revision, bytes, items)),
     !.queues = @ + IF IsOpen(q) THEN 0 ELSE 1,
     !.revision = revision,
     !.reservedBytes = @ + bytes, !.reservedItems = @ + items]

(* append: what the chunk is to the queue.                                 *)
AppendAnswer(q, sequence, chunk) ==
  LET scope == ScopeOf(q) IN
  IF sequence < scope.first THEN "pruned"
  ELSE IF sequence < scope.next
  THEN IF scope.chunks[sequence - scope.first + 1] = chunk THEN "duplicate" ELSE "conflict"
  ELSE IF sequence > scope.next THEN "gap"
  ELSE IF /\ Admits(ScopeBytes, ScopeItems, scope.used, Len(scope.chunks), chunk.size)
          /\ IF IsReserved(scope)
             THEN scope.creditItems > 0 /\ chunk.size <= scope.creditBytes
             ELSE Admits(PoolBytes, PoolItems, pool.used + pool.reservedBytes,
                         pool.items + pool.reservedItems, chunk.size)
  THEN "stored" ELSE "backpressure"

(* Faulty variant: the last item of a reservation frees only its own bytes.*)
SpentBytesOfChunk(scope, chunk) == IF IsReserved(scope) THEN chunk.size ELSE 0

(* The last item of a reservation frees all that is left of its bytes.     *)
SpentBytes(scope, chunk) ==
  IF ~IsReserved(scope) THEN 0
  ELSE IF scope.creditItems = 1 THEN scope.creditBytes ELSE chunk.size

Extended(q, chunk) ==
  LET scope == ScopeOf(q)
      revision == pool.revision + 1
      spent == IF IsReserved(scope) THEN 1 ELSE 0 IN
  [pool EXCEPT
     !.scopes = WithScope(q, [scope EXCEPT
        !.chunks = Append(@, chunk), !.used = @ + chunk.size, !.next = @ + 1,
        !.revision = revision, !.creditItems = @ - spent,
        !.creditBytes = IF scope.creditItems = 1 THEN 0 ELSE @ - spent * chunk.size]),
     !.used = @ + chunk.size, !.items = @ + 1, !.revision = revision,
     !.reservedBytes = @ - SpentBytes(scope, chunk), !.reservedItems = @ - spent]

SizeOf(chunks) == FoldSeq(LAMBDA chunk, sum : sum + chunk.size, 0, chunks)

(* remove: a grant deletes the chunks through a sequence number.           *)
PruneStands(q, grant) ==
  LET scope == ScopeOf(q)
      count == grant.through - scope.first + 1 IN
  /\ scope.revision = grant.revision
  /\ 1 <= count /\ count <= MaxBatch /\ grant.through < scope.next
  /\ scope.chunks[count].digest = grant.digest

Pruned(q, grant) ==
  LET scope == ScopeOf(q)
      count == grant.through - scope.first + 1
      bytes == SizeOf(SubSeq(scope.chunks, 1, count))
      revision == pool.revision + 1 IN
  [pool EXCEPT
     !.scopes = WithScope(q, [scope EXCEPT
        !.chunks = SubSeq(@, count + 1, Len(@)), !.used = @ - bytes,
        !.first = grant.through + 1, !.lastPruned = grant.digest, !.revision = revision]),
     !.used = @ - bytes, !.items = @ - count, !.revision = revision]

(* A queue leaves the pool with its chunks and what is left of its credit. *)
Dropped(q) ==
  LET scope == ScopeOf(q) IN
  [pool EXCEPT
     !.scopes = WithoutScope(q), !.queues = @ - 1, !.revision = @ + 1,
     !.used = @ - SizeOf(scope.chunks), !.items = @ - Len(scope.chunks),
     !.reservedBytes = @ - scope.creditBytes, !.reservedItems = @ - scope.creditItems]

(* remove: a pruned queue is released under the grant that emptied it.     *)
ReleaseStands(q, grant) ==
  LET scope == ScopeOf(q) IN
  /\ scope.revision = grant.revision
  /\ scope.chunks = <<>> /\ scope.used = 0 /\ scope.next # 0 /\ scope.first = scope.next
  /\ grant.through = scope.next - 1 /\ grant.digest = scope.lastPruned

(* removeClosed: a closed queue goes with everything it holds.             *)
ReleaseClosedStands(q, grant) ==
  LET scope == ScopeOf(q) IN
  /\ scope.revision = grant.revision /\ scope.next = grant.next
  /\ Len(scope.chunks) <= MaxBatch

ReleaseEmptyStands(q) == ScopeOf(q).next = 0 /\ ScopeOf(q).chunks = <<>>

-----------------------------------------------------------------------------
(* The operations of a tab.                                                *)
PoolInit(stored) == pool = stored /\ handles = <<>>

Transact(after) == pool' = after /\ UNCHANGED handles

OpenQueue(h, q, bytes, items) ==
  /\ \/ Reopens(q, bytes, items) /\ UNCHANGED pool
     \/ Registers(q, bytes, items) /\ pool' = Opened(q, bytes, items)
  /\ handles' = [x \in DOMAIN handles \cup {h} |->
                   IF x = h THEN [queue |-> q, incarnation |-> pool'.scopes[q].incarnation]
                   ELSE handles[x]]

AppendChunk(h, sequence, chunk) ==
  /\ HandleStands(handles[h])
  /\ AppendAnswer(handles[h].queue, sequence, chunk) = "stored"
  /\ Transact(Extended(handles[h].queue, chunk))

PruneQueue(h, grant) ==
  /\ HandleStands(handles[h]) /\ PruneStands(handles[h].queue, grant)
  /\ Transact(Pruned(handles[h].queue, grant))

ReleaseQueue(h, grant) ==
  /\ HandleStands(handles[h])
  /\ \/ ReleaseStands(handles[h].queue, grant)
     \/ ReleaseClosedStands(handles[h].queue, grant)
     \/ ReleaseEmptyStands(handles[h].queue)
  /\ Transact(Dropped(handles[h].queue))

-----------------------------------------------------------------------------
(* What validate reads.                                                    *)
UsedOf(q) == ScopeOf(q).used
ItemsOf(q) == Len(ScopeOf(q).chunks)
CreditBytesOf(q) == ScopeOf(q).creditBytes
CreditItemsOf(q) == ScopeOf(q).creditItems

ScopeValid(scope) ==
  /\ 1 <= scope.incarnation /\ scope.incarnation <= scope.revision
  /\ scope.revision <= pool.revision
  /\ scope.next - scope.first = Len(scope.chunks) /\ Len(scope.chunks) <= ScopeItems
  /\ scope.used = SizeOf(scope.chunks) /\ scope.used <= ScopeBytes
  /\ IsReserved(scope) =>
       /\ scope.used + scope.creditBytes <= scope.totalBytes
       /\ scope.creditItems + scope.next = scope.totalItems
       /\ scope.creditItems = 0 => scope.creditBytes = 0

(* The accounting of the pool is the sum of its queues, within its limits: *)
(* validate accepts every reachable pool, so that the evidence can be      *)
(* opened again after a crash between any two operations of any tabs.      *)
PoolValidates ==
  /\ pool.queues = Cardinality(DOMAIN pool.scopes) /\ pool.queues <= MaxQueues
  /\ pool.used + pool.reservedBytes <= PoolBytes
  /\ pool.items + pool.reservedItems <= PoolItems
  /\ MapThenSumSet(UsedOf, DOMAIN pool.scopes) = pool.used
  /\ MapThenSumSet(ItemsOf, DOMAIN pool.scopes) = pool.items
  /\ MapThenSumSet(CreditBytesOf, DOMAIN pool.scopes) = pool.reservedBytes
  /\ MapThenSumSet(CreditItemsOf, DOMAIN pool.scopes) = pool.reservedItems
  /\ \A q \in DOMAIN pool.scopes : ScopeValid(ScopeOf(q))
=============================================================================
