# Verification of converge_audit in TLA+

`converge_audit` lets players keep signed evidence of what they did, seal it
into a chain of checkpoints and hand the checkpoints to authorities and peers
that can later be asked what they received. This directory holds TLA+ models of
the parts of it that keep durable state under concurrency, the TLC
configurations that check them on small instances, and TLAPS proofs of the
properties that matter most.

Contents: [the system](#the-system) · [modules](#modules) · [runs](#runs) ·
[bounds](#bounds) · [fairness](#fairness) · [proofs](#proofs) ·
[findings](#findings) · [not modelled](#not-modelled) · [plan](#plan)

Run a check with `tlc -config PeerRoutes.cfg MCPeerRoutes` and a proof with
`tlapm PlayerLocalStoreProofs.tla` in this directory.

## The system

| part | state | operations | what makes it hard |
|---|---|---|---|
| player-local store (`player-local-sqlite.ts`, `contracts.ts`) | events, equivocations, checkpoints, head, retention anchor, consumed closures, outbox, ACK history, evidence holds, inbox cursors, poll jobs, one storage revision | admit, seal, claim, release, acknowledge, place/resolve hold, apply inbox message, prune, poll jobs, open | preparation and commit are separate; several tabs or processes; late ACKs; faults inside a transaction |
| checkpoint runtime and policy (`player-local-checkpoint-runtime.ts`, `moonbit-checkpoint-policy.ts`, `seal.mbt`, `head.mbt`, `pruning.mbt`) | prepared write sets | read an image, authenticate (await), decide in MoonBit, commit | the image is stale when the write set commits |
| peer fanout (`peer-checkpoint-transport.ts`, `peer-route-sqlite.ts`, `peer_transport.mbt`) | routes with leases, attempt clock, fork evidence | configure, dispatch, settle, persist, open | leases expire under a running send; concurrent dispatches; crash between attempts |
| audit adapter (`adapter.mbt`) | roster, accepted digests, reservations, pending buffer, flushed lists | register, deliver, take | any order, duplicates, equivocations, cascaded flush |
| source Durable Object (`checkpoint-runtime.ts`, `index.ts`) | config, provisioning, closures, history, head, outbox, alarm | configure, provision, store closure, seal, claim, dispatch, acknowledge, alarm, Queue consumer | RPCs fail or are late, the object stops, handlers interleave at every await |
| receiving authority (`checkpoint-receiver.ts`) | head, history, forks | configure, receive | deliveries overtake and repeat |
| game authority (`index.ts`: pve handlers, `asset-ownership.ts`, `item-verification.ts`) | verified checkpoints and items, ownership heads, listings, lineage decisions, evidence cases, notices, inboxes | verify, create, transfer, list, cancel, revoke, appeal, open, dismiss and publish a case | requests interleave while a body or a signature check is awaited; decisions arrive late or twice |
| resolution relay (`evidence-resolution-relay-worker.ts`) | job with lease, pending envelope, cursor, alarm | configure, claim, poll, publish, confirm, back off, cron | alarm and cron overlap, answers are lost, the object stops between two awaits |
| open-world shard (`index.ts`, `moonbit.ts`) | anchor head, history and forks, replay outbox, decisions, items, asset heads, lineage, revocations | configure, append an anchor, queue and decide a replay, list, checkpoint an inventory, revoke, appeal | Queue, alarm and requests share the outbox; proofs are verified against rows that change meanwhile; batches fail half-way |
| witnesses (`checkpoint-witness-collection.ts`, `witness-client.ts`) | collections of approvals, rate window | start, submit, sign, seal with a quorum | approvals repeat, conflict or arrive past the deadline |
| observer (`open-world-observer-signing-store.ts`, `open-world-seal-conflict.ts`) | store row, reservations, conflict rows | open, reserve, sign, snapshot, conflict, prune | the signer fails after the reservation; stores are reopened under other anchors |
| verification keys (`key-lifecycle*.ts`, `verification-key-*.ts`) | ledger of key versions, the signer's synchronised configuration | plan, provision, rotate, revoke, synchronise, sign | the deployed configuration and the ledger change apart |
| encounter authority (`game/encounter/*.ts`, `encounter-api.ts`, `encounter-evidence.ts`) | admissions, tickets, archive, generations, recovery rows, inventory | provision, start, commit, reveal, settle, forfeit, terminate, hold, archive, release, roll, compact, retire, recover | compare-and-swap loops around awaits; uploads that fail; retention that ends meanwhile |
| encounter session (`encounter-session.ts`, `encounter-recorder.ts`, `payload-pool.ts`) | session image, payload pool | start, play, settle, abandon, clean up, serve evidence, compact and retire the inventory | the tab is closed at any await, answers are lost, requests arrive after their sender is gone |
| evidence polling (`evidence-inbox-scheduler.ts`, `evidence-inbox-poller.ts`, `evidence_poll_schedule.mbt`) | poll job with lease and attempt token, inbox cursor | schedule, claim, poll, ingest, complete, expire, escalate | workers crash or outlive their lease; late answers; write sets go stale between awaits |

The player-local store seals into an outbox, the peer fanout carries a sealed
checkpoint to other players, and the source object carries it to authorities.
The adapter sits before all of them: it decides which signed events of a session
become evidence at all. Polling brings the holds and resolutions of an external
authority into the store; that authority opens and settles evidence cases, and
the relay publishes its resolutions to the inboxes. Verified items and
encounters are what the cases are about: central replay decides them, witnesses
and the observer sign what they have seen, and a session keeps the log of an
encounter until nobody may ask for it any more. The parts listed as not modelled
in `PROJECT.json` are summarised [below](#not-modelled).

Properties sought per part:

* store: it can always be opened again; a seal extends the current head; a prune
  never drops evidence in dispute; a resolution is final; an inbox cursor never
  runs ahead; a sequence number stands for one digest;
* fanout: the window holds; attempts are numbered; the newest attempt wins;
  quarantine is for good and comes with its evidence;
* adapter: accepted events are the causal closure; none is lost or repeated;
  hand-over is causal; one event per id; replies say what they mean;
* delivery: an acknowledgement means a durable copy; no false fork; bounded
  outbox; the whole is a replicated log; every seal is acknowledged in the end;
* polling: one worker at a time within a lease; late completions are lost; the
  inbox is a prefix of the feed; store and policy agree on times; every call
  returns and every job ends;
* game authority: the owners of an item are one chain; lineage decisions are a
  gapless history of revocations and appeals; an item has one active listing, a
  canceled or quarantined one stays so, and a revocation leaves none active; a
  case is settled once, with one notice and one message;
* relay: the cursor never passes a notice that was not published; every notice
  is published in the end;
* open world: anchors form a chain and forks are kept apart; a replay is decided
  and its items are created once; an alarm is not lost; asset heads only advance
  and agree with lineage and revocations, also after a failed batch;
* witnesses, observer, keys: a seal has its quorum of timely approvals; a slot is
  signed for one encounter; the ledger stays one the planner accepts; whatever
  the signer answers verifies under the history it publishes at that moment;
* encounters: one ticket per start; outcomes are final; evidence that is held or
  asked for is kept; the inventory stays readable; the pool's accounts are
  exact; a player can go on from wherever the session was cut off.

## Modules

**`PlayerLocalStore`** — a variable per table, an action per transaction. A
transaction that throws rolls back, so it is no step. `PrepareSeal`,
`PreparePrune` and `PrepareInbox` put a write set in `pending[w]`; `CommitSeal`,
`PruneEvidence` and `ApplyEvidenceInbox` commit it, or find the revision (or the
snapshot) changed and discard it. Anything may happen in between, including
`Crash`. `sent` records which envelopes left the process, so that an ACK may be
late but not invented; `stored_log` is history for one property.
`WriteEvidencePollJob` stands for the four poll-job operations: they share
nothing with the other tables but the revision (`EvidencePolling` has them in
full). `EventsValid`, `ChainValid`,
`HoldsValid`, `OutboxValid`, `AckHistoryValid` and `CapacityRespected` are
relations `playerLocalAuditImageError()` checks when the store is opened, and
`ImageValid` says that they hold. Of its other relations, that of the poll jobs is
`JobValid` of `EvidencePolling`, and that of the inbox cursors holds by the shape
of the model, where a source has one cursor. Opening never fails because of
`ImageValid` and `JobValid` together.

**`PeerRoutes`** — `Dispatch` is `dispatch()` up to its first await (select,
lease and number the attempts), `Settle` a send that ends, `PersistAttempt` one
transaction of the closing loop, which other calls cannot interrupt but a crash
can. `Open` runs `assertValidImage()`; while it fails the process stays down.
`Backoff` is the saturating doubling of `bounded_exponential_backoff()`, and
`FailureRefused` its overflow, which ends the call and leaves the route leased. A
peer's
response is identified by the time it was received: `recordFork()` compares the
whole canonical response with the stored one, and two answers of different sends
count as different responses.

**`AuditAdapter`** — `Deliver` with one disjunct per exit of `deliver()`.
`TryFlush`/`Drain` is the worklist of `try_flush()`, with its counters of unmet
hashes and its queue of indices. `accepted_times` and `mismatch_times` are
history.

**`CheckpointDelivery`** — source object, receivers and handlers. Each
`transactionSync` is one step and a handler yields only while it waits for
another object. `slots` holds what each handler is doing: `starting` (sealed, not
yet claimed), `sending` (in the delivery loop, with the claims left and perhaps
an answer), `consuming` (the Queue consumer, in another worker). `RpcFails` may
leave the request under way in `stray`; it arrives at any later time or never.
`SourceCrashes` loses the source's handlers and keeps its tables and alarm.
Leases and the alarm count down in ticks, so that no clock grows.

**`ReplicatedCheckpoints`** — what delivery promises: one append-only log, a copy
per destination that grows epoch by epoch, and confirmations that follow the
copies. `CheckpointDelivery` implements it with `sealed <- history`,
`copied <- receiver_history`, `confirmed <- acknowledged rows`.

**`EvidencePolling`** — the row of one poll job and `run[w]`, the scheduler call
each worker is in. A call samples the clock (`Begin`), claims (`Claim`: refused,
expired or granted), compares the claim with the MoonBit policy and reads the
cursor (`StartPoll`), waits for the page (`Respond`, `RequestFails`,
`RequestTimesOut`), ingests message after message (`Ingest` reads an image and
prepares, `Apply` commits), samples the clock again (`Finish`) and completes or
expires the job (`Complete`, `ExpireJob`). The storage revision is abstracted to
`run[w].fresh`: whether the revision a prepared write set expects is still the
store's; every write makes all prepared write sets stale, and `OtherWrite` is any
transaction outside this module. A page carries any messages in any order,
because the decoder looks at its anchor only. Policy times are relative to now
and clamped to `Int`, as in `moonBitRelativeTime()`; the store's are absolute.
What a message does to the holds is in `PlayerLocalStore`.

**`ShardRequests`** — the frame of the `GameAuditShard` object. A handler is a call
that proceeds in steps; a step ends where the code awaits real I/O (the body, Web
Crypto, a Queue, R2), because a Durable Object lets other requests in only there.
`calls[c]` has the request, the step the call has reached and what it has read
(`seen`), which may be stale when it goes on. `StopCalls` is a restart: handlers
are gone, tables stay. A workload is a small set of requests; they begin in any
order, so every order of arrival and every interleaving of steps is covered.

**`ReferenceGame`** — verification of game checkpoints and items (with the rate
window), transfers, listings and lineage decisions. An ownership head is the
sequence of owners since creation, because its id commits to all earlier
transfers. A handler's second step repeats the checks that the code repeats
inside its transaction, and only those.

**`EvidenceCases`**, **`EvidenceRelay`** — cases of the authority and the relay
object of one source, composed: `CursorMatches` is the comparison of the inbox
cursor, a run of the relay is `run[r]` with its lease token, and requests of the
relay are steps of the authority whose answer may be lost. A publication that
another run has overtaken during its verification is answered with a cursor
mismatch (`OvertakenAnswers`); the run after it is answered `duplicate`.

**`AnchorReplay`**, **`VerifiedAssets`** — anchors, replay outbox, alarm, Queue
consumer and items; on top of it the asset handlers. `Written` is a batch: either
all of its rows or, after a write fault, none.

**`WitnessCollection`**, **`ObserverSigning`**, **`KeyLifecycle`** — what else the
shard and its workers sign. An approval carries the time at which it was signed;
a reservation precedes any signature; the signer compares its synchronised state
with its deployed configuration (`InStep`) before it signs.

**`EncounterAuthority`** — rows of tickets changed by compare-and-swap: a handler
reads a row, awaits, and starts over when the revision differs (`SameRevision`).
Archive objects, generations, recovery tombstones and the inventory with its
ranges of empty tickets are variables of their own. The session reads the
inventory page by page and retires what the page it shows holds.

**`PayloadPool`** — the transactions of the player's evidence database and the
budget policy. **`EncounterSession`** — the controller and the recorder on top of
pool and authority: an operation is a sequence of awaits, each a write of the
image, a pool transaction or a request; the tab may close between any two.

**`MC*`** — inputs for TLC. **`PlayerLocalStoreTypes`**, **`CheckpointLogProofs`**
and **`*Proofs`** — theorems and their lemmas.

## Runs

| run | question | answer |
|---|---|---|
| `player_local_store` | two writers seal competing drafts with claims, late ACKs and prunes; equivocating events, holds and an inbox around a prune | image valid, seals extend the head, evidence survives, resolutions final, cursors honest (370,509 states) |
| `player_local_slot_rebinding` | does an (author, counter) keep one digest? | no, see findings |
| `peer_routes` | three peers, two dispatches, window 2, orders up to 3, crashes | window and numbers hold, routes only advance (208,920 states) |
| `peer_fork_quarantine` | is fork evidence always quarantined with its route? | no, see findings |
| `audit_adapter` | nine signed events: chain, repeated hash, equivocation, mismatch, wrong key, bad signature | holds (8,188 states) |
| `adapter_buffered` | does Buffered mean waiting? | no, see findings |
| `checkpoint_delivery` | two destinations, two epochs, competing clients, a failed RPC, a stop | safe, implements the log (356,740 states) |
| `checkpoint_retry` | is every seal acknowledged in the end? | yes, with finitely many failures and no stop |
| `checkpoint_stop` | also when the source stops? | no, see findings |
| `evidence_polling` | two workers, one job, two messages, crashes, time-outs, late completions, an operator | leases exclusive, inbox a prefix, calls and jobs end (62,462 states) |
| `authority` | the game authority with its relay, the open-world shard, and witnesses, observer and keys, in 44 workloads of up to five requests, with restarts, faults and alarms | fifteen properties hold (95,057 states) |
| `encounters` | the encounter authority under competing requests, the pool under two tabs, and a player whose tab closes anywhere, from start to inventory | seven properties hold (168,699 states) |

The properties of `authority`: `TransfersAreOneChain`, `LineageIsHistory`,
`ListingsStaySound` (market), `CasesSettleOnce`, `RelayCursorSafe`,
`RelaySettles` (cases and relay), `AnchorHistoryIsChain`, `ReplayCountsOnce`,
`AlarmedJobsAreSent` (anchors and replay), `AssetRecordsAgree`,
`AssetHeadsAdvance` (assets), `WitnessesStand`, `SlotsAreSignedOnce`,
`LedgerStaysUsable` and `SignaturesVerify`. Of `encounters`: `OneTicketPerStart`,
`OutcomesAreFinal`, `HeldEvidenceIsKept`, `InventoryReadable` (authority),
`PoolValidates` (pool), `EvidenceIsKept` and `SessionIsRecoverable` (player and
authority together). Some properties are conjunctions of facts that belong
together; the conjuncts are definitions of their own.

Every property of a passing run comes with a mutant in `PROJECT.json`: a faulty
variant of one definition (`Faulty variant:` in the modules) under which TLC
finds the property violated.

## Bounds

* `MaxRevision` bounds the writes of a store: eleven suffice to store two
  conflicting events, seal, acknowledge, place and resolve a hold, and prune.
  The constraint `SealingOrGathering` leaves two kinds of behaviour, whose product
  would be too large: up to eight writes of two writers who only seal, deliver
  and prune, or all operations of one writer at a time with one destination and
  no passing of time. The two writers are symmetric.
* `MaxTime`, `LeaseDuration`: one tick is a lease, so that leases expire and are
  renewed. The evidence run needs no clock.
* `LastAttempt` is 3 in place of 2147483647: the batch that meets the limit is
  reached from every route state. `MaxInt` is the same number in the code; it is 4,
  apart from `LastAttempt`, so that a retry time that overflows is met as well.
* `MaxFailures`, `MaxCrashes`: RPCs that fail or are deferred, and stops. One
  failure and one stop already give late requests, repeated claims and
  overlapping handlers.
* Two epochs and two destinations show gaps, duplicates, overtaking and a
  partially acknowledged seal; `ClaimLimit` 2 is smaller than the rows of two
  seals, so claims are cut.
* `evidence_polling`: a deadline of 3 ticks holds two leases of 2 (the second cut
  by the deadline), a failed attempt, its retry and a doubled back-off; `IntMax`
  is 2, so that the first deadline is beyond it and is clamped.
* `authority`: a workload has the requests that meet in one hazard (two transfers
  of one head, a listing against a revocation, a dismissal against an uphold, two
  anchors of one epoch, a batch that fails, two approvals of one witness, two
  encounters for one slot, a rotation against a synchronisation, a rotation beyond
  the longest key history) and those that
  lead there; three owners, three items, two epochs. Two relay runs overlap
  through alarm and cron, with two lost answers; two outages of the replay Queue
  and one restart. Limits (reservations, conflicts, retained lineage, batch, key versions) are
  1 to 3 so that they are reached.
* `encounters`: scenes start from rows a unit can hold (issued, settled,
  terminated, released, archived) and add up to five requests; a player scene
  starts from a stored image and its pool, allows one lost or late answer, and
  lets the tab close and reopen throughout; retention lasts one tick, the
  archive holds two objects, the pool four bytes, four items and two queues. A page
  of the inventory has two entries in place of three, so that three receipts take
  two pages.
* `CHECK_DEADLOCK FALSE` in all runs but `evidence_polling`: with every bound used
  up nothing is left to do, and the code may rest in any state. Workers can
  always call the scheduler again, so polling is checked for deadlock.

The theorems hold for all values of these constants.

## Fairness

`FairSpec` of `CheckpointDelivery` assumes that a handler that can go on does
(the runtime resumes it), that time passes, and that a due alarm fires (Durable
Object alarms are delivered at least once). Nothing is assumed of clients, of the
Queue or of requests whose sender has gone; failures are finitely many. A client
that repeats deferred seals for ever renews leases without delivering, so
deferrals share the failure bound.

`FairSpec` of `EvidencePolling` assumes that time passes and that a call that can
proceed by itself does: store transactions return and the request timer fires.
The source need not answer, and nobody need call the scheduler or stay alive;
`PollingStops` is therefore stated for behaviours in which some worker's claims
keep reaching the store.

`RelayFair` assumes that time passes, that a set alarm fires, that cron runs when
no alarm is set (every minute, `wrangler.source-relay.jsonc:30`; the repair duty
of cron is in `examples/cf-game-audit/README.md:272`), and that a run goes on; its
requests are served in the end, as only `MaxFaults` of them fail. `RelaySettles`
leaves out the wedge described under [findings](#findings). `ReplayFair` assumes
that a set alarm fires and that a handler that is sending a job goes on; outages
of the Queue are finitely many.

## Proofs

`PlayerLocalStoreTypes` proves `TypeOK` and splits a step into its cases;
`PlayerLocalStoreProofs` proves `ImageValid` and `SealsExtendHead`, for any inputs
and any number of writers. `ImageValid` is inductive only together
with the types, the finiteness of the outbox and the shape of prepared write
sets; the write sets themselves need no invariant about the tables, because each
commit validates against the current image. The proof goes relation by relation
(events, chain, holds, outbox, ACKs, capacity) over the cases of a step.

`PlayerLocalEvidenceProofs` derives `EvidenceSurvives` and `ResolutionIsFinal`
from that invariant, and `InboxEffectsDurable` with one more: cursors stay inside
their feeds and a prepared message is the one after the cursor it expects.

`CheckpointLogProofs` states the invariant of delivery and what receiving and
sealing do to it; `CheckpointDeliveryProofs` proves `TypeOK`,
`AckImpliesReceived`, `NoFalseFork`, `OutboxBounded` and the refinement
`ImplementsReplication` from it. The inductive
invariant says that the source's history is a chain ending at its head, that each
receiver holds exactly the prefix up to its own head, that every row, claim and
stray request was sealed, and that a successful answer on its way to the source
belongs to a stored copy. Without the last two a late answer could acknowledge
anything; without the first two a late request could look like a fork.

`EvidencePollingProofs` proves `LeaseIsExclusive` and `JobOnlyAdvances` (which
includes that only the holder of the current attempt reschedules a job) for any
number of workers. Exclusivity is inductive once
two facts are added: the clock a claim sampled is not ahead of the clock (so a
claim made late, with an old sample, finds a live lease still live), and no lease
outlives the deadline (so expiring a job never cuts off a worker within its
lease). Both need one clock: workers on machines whose clocks differ are outside
the theorem, and there only the attempt token protects the row.

`PeerRoutesProofs` proves `RoutesOnlyAdvance`, and `InFlightBounded` with
`AttemptsNumbered`, for any peers, calls, window and crashes. The order of
`peer_route_precedes()` is shown to be strict and total, so that the places of the
eligible routes are distinct and a batch is a prefix of them: a batch is never
larger than the window or than the numbers left, and its numbers are new. Two
facts make the invariant inductive: a leased route is not quarantined, and the
number of a lease lies between the last completed attempt and the clock; a
result that still holds its lease is therefore newer than what it replaces.

`ObserverSigningProofs` proves `SlotsAreSignedOnce` for any requests, capacities
and restarts: whoever has reached the signature, and every signature made, has a
reservation for exactly its encounter, a slot has one reservation, and the
numbers of the reservations are those below the next one.

Assumptions are the named `ASSUME`s of the modules: inputs have their types,
destination arrays are non-empty and free of repetition, bounds are naturals,
model values for "absent" differ from data, and the scheduler's configuration
passed `configurationValid()`.

Only model-checked: the liveness properties `EverySealAcknowledged`,
`PollingEnds`, `RelaySettles` and `AlarmedJobsAreSent`; `PollingAgrees` (it rests
on what the recursive back-off computes, as do the retry times in `TypeOK` of
`PeerRoutes`); `InboxIsPrefix` (for whole stores `InboxEffectsDurable` is proved);
everything about `AuditAdapter` (its worklist is recursive); and the properties of
the authority and of the encounters other than `SlotsAreSignedOnce`.

## Findings

1. *A sequence number can be bound twice.* After a prune, `admitEvent()` stores
   another digest for an (author, counter) it accepted before
   (`player-local-sqlite.ts:330`), against the contract
   (`docs/game-audit-implementation-contract-ja.md:96`).
2. *Fork evidence without quarantine.* `recordFork()` commits evidence although
   the route was leased again (`peer-route-sqlite.ts:297`), against the contract
   (same document, line 317); a restart before the route is quarantined finds an
   image that `assertValidImage()` refuses.
3. *Buffered without waiting.* A second delivery of an event rejected for its
   dependencies answers `Buffered` (`adapter.mbt:173`), against lines 92 and 169.
4. *No alarm after a stop.* A dispatch claims rows before it sets the alarm
   (`index.ts:2929`), against `examples/cf-game-audit/README.md:178`.

Also seen, without a run of its own:

* an inbox stops for good at a message about a pruned epoch; the loop in
  `peer-checkpoint-transport.ts:164` drops the remaining attempts of a call when
  one has lost its lease; `releaseOutbox()` does not check who holds the claim;
  dependents of a rejected event stay in the adapter's buffer; the poll scheduler
  admits lease durations beyond 2147483647 ms, with which the policy refuses every
  claim the store grants (`PollingAgrees` is checked for durations within `Int`);
* a relay that has stored its pending envelope is stuck when a new case of the
  same source appends its message first: every publication is then refused with
  `evidence_source_cursor_mismatch`, and nothing rebuilds the envelope
  (`PendingIsStale` in `EvidenceRelay`);
* the replay alarm reads at most 32 pending jobs and asks for another alarm only
  if one of them failed (`index.ts:1741`), so `AlarmedJobsAreSent` is stated for
  the jobs within one batch;
* `listReferenceGameItem()` inserts a listing after its awaited proof without
  reading the ownership head or the lineage again, so a listing that races a
  transfer or a revocation can be active afterwards; `ListingsStaySound` speaks
  of the moment a revocation commits;
* an archive upload whose `acceptArchive()` is cut off by a stop, and whose
  retention ends before the client repeats it, is refused (`encounter-api.ts:161`)
  and its ticket keeps the generation from rolling
  (`docs/encounter-archive-ja.md:83`);
* a session clears the intent of a retirement when its request is refused
  (`encounter-session.ts:297`); an earlier request that arrives after that retires
  the tickets all the same, which `SessionIsRecoverable` allows as a trailing entry
  of the inventory;
* `planVerificationKeyLifecycleMutation()` does not compare the time of a command
  with that of the last event (`key-lifecycle-ledger.ts:105`), which
  `lifecycleImageValid()` does (`:291`): after a commit whose clock had gone back
  every further rotation and revocation is refused. `LedgerStaysUsable` is stated
  for times in order;
* a route whose retry time would exceed 2147483647 is leased, fails and is refused
  (`peer_transport.mbt:153`) again and again, and the attempts behind it in the same
  call are not recorded (`FailureRefused` in `PeerRoutes`).

## Not modelled

Signatures, hashes, canonical encodings and wire codecs have no state: the models
take authenticated inputs, and digests are model values. Response selection of
the fanout is a pure result. `releaseDelivery()` of the source object has no
caller in the Worker. What a replay of the game says is part of a request: the
replay rules, inventory and market proofs, and owner signatures are pure
functions. The browser store (`player-local-indexeddb.ts`) performs the operations
of `PlayerLocalStore` in IndexedDB transactions; the in-memory queue is a pool of
one encounter without persistence. The count of appends that wait in memory
(`MAX_PENDING` of the pool) refuses before anything is stored. Of the session, the owner key, the recovery of
a receipt from an exported file, and what the page does when start-up throws are
left out. User interface, benchmarks and bridges are out of scope; the existing
Quint and Lean models under `formal/` are not reused. `PROJECT.json` lists every
component with its status.

## Plan

1. The browser store, and an abstract store that it, the SQLite store and the
   in-memory MoonBit store implement.
2. The remaining operations of the session: export and recovery of a receipt.
3. Quorum and votes with a theorem on quorum intersection; layered checkpoints.
4. Proofs for the market (`TransfersAreOneChain`) and for the encounter authority
   (`OutcomesAreFinal`).
