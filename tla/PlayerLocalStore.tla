-------------------------- MODULE PlayerLocalStore --------------------------
(***************************************************************************)
(* The durable player-local audit store (SQLite in                         *)
(* examples/node-audit-runtime, IndexedDB in the browser) and the          *)
(* asynchronous runtime that writes to it.                                 *)
(*                                                                         *)
(* A table is a set of rows.  Every store operation is one transaction, so *)
(* it is one action; a transaction that faults rolls back and is a         *)
(* stuttering step.  Seals, prunes and inbox messages are prepared from an *)
(* image read earlier and committed later: the write set prepared by       *)
(* writer w waits in pending[w], any other transaction may run in between, *)
(* and a crash discards it.                                                *)
(*                                                                         *)
(* Abstracted: boundaries (one audit unit), canonical envelopes (a         *)
(* checkpoint is its digest), the roster and frontier of a closure (its    *)
(* epoch), signatures (the inputs are the authenticated ones).             *)
(***************************************************************************)
EXTENDS Integers, Sequences, FiniteSets

CONSTANTS
  Digests,          \* checkpoint digests
  Genesis,          \* genesis_digest of the configuration
  Drafts,           \* checkpoint drafts a caller may try to seal
  Destinations,     \* authorities
  DestinationLists, \* destination arrays a seal may name
  Capacity,         \* outbox_capacity of the configuration
  Events,           \* authenticated events a caller may admit
  Holds,            \* authenticated active holds a caller may place
  Decisions,        \* decision and digest of a hold resolution
  Feeds,            \* messages published by each evidence source
  ProtectedSets,    \* protected_epochs of a prune request
  Writers,          \* concurrent calls of the runtime
  NoWriteSet,       \* no prepared write set
  NoLease,          \* lease_expires_at_ms IS NULL
  LeaseDuration,    \* lease of an outbox claim
  MaxTime,          \* bound on the clock
  MaxRevision       \* bound on the number of writes

Sources == DOMAIN Feeds

Epochs == Nat

Anchors == [epoch: Int, digest: Digests]

Operations ==
  [kind: {"place"}, hold: Holds, decision: {"none"}]
    \cup [kind: {"resolve"}, hold: Holds, decision: Decisions]

(* The static inputs: drafts and holds name digests of the unit, a         *)
(* destination array has no repetition and is not empty.                   *)
ASSUME InputAssumption ==
  /\ Genesis \in Digests
  /\ Drafts \subseteq [epoch: Epochs, digest: Digests, previous: Digests]
  /\ \A l \in DestinationLists :
       /\ l \in Seq(Destinations)
       /\ l # <<>>
       /\ \A i, j \in 1..Len(l) : l[i] = l[j] => i = j
  /\ \A e \in Events : e.epoch \in Epochs
  /\ \A h \in Holds : h.epoch \in Epochs /\ h.digest \in Digests
  /\ \A s \in Sources : Feeds[s] \in Seq(Operations)
  /\ \A P \in ProtectedSets : P \subseteq Epochs
  /\ "none" \notin Decisions

ASSUME BoundAssumption ==
  /\ Capacity \in Nat
  /\ LeaseDuration \in Nat \ {0}
  /\ MaxTime \in Nat
  /\ MaxRevision \in Nat
  /\ NoLease \notin Nat

VARIABLES
  revision,           \* player_local_config.storage_revision
  next_created_order, \* player_local_config.next_created_order
  head,               \* player_local_head
  retention_anchor,   \* player_local_retention_anchor
  events,             \* player_local_events
  equivocations,      \* player_local_equivocations
  checkpoints,        \* player_local_checkpoints
  consumed_closures,  \* player_local_consumed_closures
  outbox,             \* player_local_outbox
  ack_history,        \* player_local_ack_history
  evidence_holds,     \* player_local_evidence_holds
  inbox_cursors,      \* player_local_evidence_inbox_cursors, -1 if no row
  pending,            \* write sets prepared and not yet committed
  sent,               \* created orders whose envelope reached the network
  stored_log,         \* history: every event ever answered "stored"
  now                 \* the clock

eventVars == <<events, equivocations, stored_log>>
chainVars == <<head, checkpoints, consumed_closures, next_created_order>>
outboxVars == <<outbox, ack_history, sent>>
holdVars == <<evidence_holds, inbox_cursors>>
vars == <<revision, eventVars, chainVars, retention_anchor, outboxVars,
          holdVars, pending, now>>

OutboxRows ==
  [destination: Destinations, epoch: Epochs, digest: Digests,
   created_order: Nat, state: {"pending", "in_flight", "acknowledged"},
   lease: Nat \cup {NoLease}]

AckRows ==
  [authority: Destinations, epoch: Epochs, digest: Digests,
   decision: {"accepted", "duplicate"}]

HoldRows == [hold: Holds, decision: Decisions \cup {"none"}]

Snapshots ==
  [current_epoch: Int, current_digest: Digests,
   incoming_epoch_known: BOOLEAN, known_digest_matches: BOOLEAN,
   known_seal_complete: BOOLEAN, closure_consumed: BOOLEAN,
   outbox_entry_count: Nat, next_created_order: Nat]

SealWriteSets ==
  [kind: {"seal"}, expected_revision: Nat, expected_snapshot: Snapshots,
   checkpoint: Drafts, destinations: DestinationLists]

PruneWriteSets ==
  [kind: {"prune"}, expected_revision: Nat, expected_anchor: Anchors,
   next_anchor: Anchors, retain_from_epoch: Nat,
   protected_epochs: ProtectedSets]

InboxWriteSets ==
  [kind: {"inbox"}, expected_revision: Nat, source: Sources,
   expected_sequence: Int, operation: Operations]

-----------------------------------------------------------------------------
(* configure(): the rows written when the database is created.             *)
Init ==
  /\ revision = 0
  /\ next_created_order = 0
  /\ head = [epoch |-> -1, digest |-> Genesis]
  /\ retention_anchor = [epoch |-> -1, digest |-> Genesis]
  /\ events = {}
  /\ equivocations = {}
  /\ checkpoints = {}
  /\ consumed_closures = {}
  /\ outbox = {}
  /\ ack_history = {}
  /\ evidence_holds = {}
  /\ inbox_cursors = [s \in Sources |-> -1]
  /\ pending = [w \in Writers |-> NoWriteSet]
  /\ sent = {}
  /\ stored_log = {}
  /\ now = 0

(* incrementRevision(): every transaction that writes moves the revision.  *)
IncrementRevision ==
  /\ revision < MaxRevision
  /\ revision' = revision + 1

ActiveOutbox == {o \in outbox : o.state # "acknowledged"}

CheckpointAt(epoch, digest) ==
  \E c \in checkpoints : c.epoch = epoch /\ c.digest = digest

-----------------------------------------------------------------------------
(* admitEvent(): an event of a pruned epoch, a duplicate and a digest      *)
(* collision leave the store alone; a fresh (author, counter) is stored; a *)
(* second digest for a stored (author, counter) is kept as equivocation.   *)
SameSlot(e, f) == e.author = f.author /\ e.counter = f.counter

StoreEvent(e) ==
  /\ \A f \in events : ~SameSlot(e, f)
  /\ events' = events \cup {e}
  /\ stored_log' = stored_log \cup {e}
  /\ UNCHANGED equivocations

StoreEquivocation(e) ==
  /\ \E f \in events : SameSlot(e, f) /\ f.digest # e.digest
  /\ \A q \in equivocations : SameSlot(e, q) => q.digest # e.digest
  /\ equivocations' = equivocations \cup {e}
  /\ UNCHANGED <<events, stored_log>>

AdmitEvent(e) ==
  /\ e.epoch > retention_anchor.epoch
  /\ StoreEvent(e) \/ StoreEquivocation(e)
  /\ IncrementRevision
  /\ UNCHANGED <<chainVars, retention_anchor, outboxVars, holdVars, pending, now>>

-----------------------------------------------------------------------------
(* playerLocalSealSnapshot(): what a seal of draft c to destinations l     *)
(* depends on.                                                             *)
SealSnapshot(c, l) ==
  LET known == \E k \in checkpoints : k.epoch = c.epoch
      matches == CheckpointAt(c.epoch, c.digest)
      consumed == c.epoch \in consumed_closures
      allOutboxPresent ==
        \A i \in 1..Len(l) : \E o \in outbox :
          o.destination = l[i] /\ o.epoch = c.epoch /\ o.digest = c.digest
  IN [current_epoch |-> head.epoch,
      current_digest |-> head.digest,
      incoming_epoch_known |-> known,
      known_digest_matches |-> matches,
      known_seal_complete |-> matches /\ consumed /\ allOutboxPresent,
      closure_consumed |-> consumed,
      outbox_entry_count |-> Cardinality(ActiveOutbox),
      next_created_order |-> next_created_order]

(* classify_checkpoint_head() = Advance.                                   *)
Advances(snapshot, c) ==
  /\ ~snapshot.incoming_epoch_known
  /\ c.epoch = snapshot.current_epoch + 1
  /\ c.previous = snapshot.current_digest

(* prepare_atomic_checkpoint_seal() and prepareWriteSet(): only an advance *)
(* whose closure is unused and whose entries fit the capacity yields a     *)
(* write set; duplicates, forks, gaps and stale drafts are refused.        *)
PrepareSeal(w, c, l) ==
  LET snapshot == SealSnapshot(c, l)
  IN /\ pending[w] = NoWriteSet
     /\ Advances(snapshot, c)
     /\ ~snapshot.closure_consumed
     /\ snapshot.outbox_entry_count + Len(l) <= Capacity
     /\ pending' = [pending EXCEPT ![w] =
          [kind |-> "seal", expected_revision |-> revision,
           expected_snapshot |-> snapshot, checkpoint |-> c,
           destinations |-> l]]
     /\ UNCHANGED <<revision, eventVars, chainVars, retention_anchor,
                    outboxVars, holdVars, now>>

(* writeSetValid(): the write set is an exact one-epoch advance.           *)
SealWriteSetValid(ws) ==
  LET snapshot == ws.expected_snapshot
  IN /\ ws.checkpoint.epoch = snapshot.current_epoch + 1
     /\ ws.checkpoint.previous = snapshot.current_digest
     /\ snapshot.outbox_entry_count + Len(ws.destinations) <= Capacity

SealOutboxEntries(ws) ==
  {[destination |-> ws.destinations[i], epoch |-> ws.checkpoint.epoch,
    digest |-> ws.checkpoint.digest,
    created_order |-> ws.expected_snapshot.next_created_order + i - 1,
    state |-> "pending", lease |-> NoLease] : i \in 1..Len(ws.destinations)}

(* The five writes of commitSeal(), in one transaction: history, head,     *)
(* outbox, consumed closure, next created order and revision.              *)
ApplySeal(ws) ==
  /\ checkpoints' = checkpoints \cup {ws.checkpoint}
  /\ head' = [epoch |-> ws.checkpoint.epoch, digest |-> ws.checkpoint.digest]
  /\ outbox' = outbox \cup SealOutboxEntries(ws)
  /\ consumed_closures' = consumed_closures \cup {ws.checkpoint.epoch}
  /\ next_created_order' =
       ws.expected_snapshot.next_created_order + Len(ws.destinations)
  /\ IncrementRevision
  /\ UNCHANGED <<ack_history, sent>>

(* Faulty variant: commitSeal() trusts the snapshot of the write set.      *)
SealIsCurrentUnchecked(ws) == TRUE

(* commitSeal() compares the revision and the snapshot it was prepared on. *)
SealIsCurrent(ws) ==
  /\ revision = ws.expected_revision
  /\ SealSnapshot(ws.checkpoint, ws.destinations) = ws.expected_snapshot

CommitSeal(w) ==
  LET ws == pending[w]
  IN /\ ws # NoWriteSet
     /\ ws.kind = "seal"
     /\ \/ /\ SealIsCurrent(ws) /\ SealWriteSetValid(ws)
           /\ ApplySeal(ws)
        \/ /\ ~(SealIsCurrent(ws) /\ SealWriteSetValid(ws))
           /\ UNCHANGED <<revision, chainVars, outboxVars>>
     /\ pending' = [pending EXCEPT ![w] = NoWriteSet]
     /\ UNCHANGED <<eventVars, retention_anchor, holdVars, now>>

-----------------------------------------------------------------------------
(* claimOutbox(): a pending entry, or one whose lease has run out.         *)
InState(o, state, lease) ==
  [destination |-> o.destination, epoch |-> o.epoch, digest |-> o.digest,
   created_order |-> o.created_order, state |-> state, lease |-> lease]

ReplaceRow(o, p) == (outbox \ {o}) \cup {p}

Claimable(o) == o.state = "pending" \/ (o.state = "in_flight" /\ o.lease <= now)

LeaseUntil == now + LeaseDuration

ClaimOutbox(o) ==
  /\ Claimable(o)
  /\ outbox' = ReplaceRow(o, InState(o, "in_flight", LeaseUntil))
  /\ sent' = sent \cup {o.created_order}
  /\ IncrementRevision
  /\ UNCHANGED <<eventVars, chainVars, retention_anchor, ack_history,
                 holdVars, pending, now>>

(* releaseOutbox(): any claimed entry goes back to pending.                *)
ReleaseOutbox(o) ==
  /\ o.state = "in_flight"
  /\ outbox' = ReplaceRow(o, InState(o, "pending", NoLease))
  /\ IncrementRevision
  /\ UNCHANGED <<eventVars, chainVars, retention_anchor, ack_history, sent,
                 holdVars, pending, now>>

(* Faulty variant: a second answer for an acknowledged entry is recorded.  *)
AcknowledgeOutboxAgain(o, decision) ==
  /\ o.created_order \in sent
  /\ ack_history' = ack_history \cup
       {[authority |-> o.destination, epoch |-> o.epoch, digest |-> o.digest,
         decision |-> decision]}
  /\ outbox' = ReplaceRow(o, InState(o, "acknowledged", NoLease))
  /\ IncrementRevision
  /\ UNCHANGED <<eventVars, chainVars, retention_anchor, sent, holdVars,
                 pending, now>>

(* acknowledgeOutbox(): an authority may answer any envelope that was sent *)
(* once, however late; the ACK row and the entry change together.          *)
AcknowledgeOutbox(o, decision) ==
  /\ o.created_order \in sent
  /\ o.state # "acknowledged"
  /\ ack_history' = ack_history \cup
       {[authority |-> o.destination, epoch |-> o.epoch, digest |-> o.digest,
         decision |-> decision]}
  /\ outbox' = ReplaceRow(o, InState(o, "acknowledged", NoLease))
  /\ IncrementRevision
  /\ UNCHANGED <<eventVars, chainVars, retention_anchor, sent, holdVars,
                 pending, now>>

-----------------------------------------------------------------------------
(* placeEvidenceHold(): a fresh id on a retained checkpoint with exactly   *)
(* that digest.                                                            *)
HoldRow(id) == {r \in evidence_holds : r.hold.id = id}

PlaceEvidenceHold(h) ==
  /\ HoldRow(h.id) = {}
  /\ h.epoch > retention_anchor.epoch
  /\ CheckpointAt(h.epoch, h.digest)
  /\ evidence_holds' = evidence_holds \cup {[hold |-> h, decision |-> "none"]}
  /\ IncrementRevision
  /\ UNCHANGED <<eventVars, chainVars, retention_anchor, outboxVars,
                 inbox_cursors, pending, now>>

(* resolveEvidenceHold(): active to resolved, once; another decision for a *)
(* resolved hold is refused.                                               *)
ResolvedHolds(h, d) ==
  (evidence_holds \ {[hold |-> h, decision |-> "none"]})
    \cup {[hold |-> h, decision |-> d]}

(* Faulty variant: a later decision overwrites an earlier one.             *)
ResolveEvidenceHoldAgain(h, d) ==
  /\ \E r \in evidence_holds : r.hold = h
  /\ evidence_holds' = {r \in evidence_holds : r.hold # h}
                         \cup {[hold |-> h, decision |-> d]}
  /\ IncrementRevision
  /\ UNCHANGED <<eventVars, chainVars, retention_anchor, outboxVars,
                 inbox_cursors, pending, now>>

ResolveEvidenceHold(h, d) ==
  /\ [hold |-> h, decision |-> "none"] \in evidence_holds
  /\ evidence_holds' = ResolvedHolds(h, d)
  /\ IncrementRevision
  /\ UNCHANGED <<eventVars, chainVars, retention_anchor, outboxVars,
                 inbox_cursors, pending, now>>

-----------------------------------------------------------------------------
(* playerLocalEvidenceInboxWriteSetValid(), the operation of a message.    *)
OperationAllowed(op) ==
  \/ /\ op.kind = "place"
     /\ CheckpointAt(op.hold.epoch, op.hold.digest)
     /\ HoldRow(op.hold.id) \subseteq {[hold |-> op.hold, decision |-> "none"]}
  \/ /\ op.kind = "resolve"
     /\ \/ [hold |-> op.hold, decision |-> "none"] \in evidence_holds
        \/ [hold |-> op.hold, decision |-> op.decision] \in evidence_holds

(* ingestEvidenceHoldEnvelope(): message i of source s, in whatever order  *)
(* messages arrive; only the successor of the cursor is prepared.          *)
PrepareInbox(w, s, i) ==
  /\ pending[w] = NoWriteSet
  /\ i - 1 = inbox_cursors[s] + 1
  /\ OperationAllowed(Feeds[s][i])
  /\ pending' = [pending EXCEPT ![w] =
       [kind |-> "inbox", expected_revision |-> revision, source |-> s,
        expected_sequence |-> inbox_cursors[s], operation |-> Feeds[s][i]]]
  /\ UNCHANGED <<revision, eventVars, chainVars, retention_anchor,
                 outboxVars, holdVars, now>>

InboxIsCurrent(ws) ==
  /\ revision = ws.expected_revision
  /\ inbox_cursors[ws.source] = ws.expected_sequence
  /\ OperationAllowed(ws.operation)

(* Faulty variant: a resolution moves the cursor and leaves the hold.      *)
ApplyPlacementsOnly(op) ==
  evidence_holds' =
    IF op.kind = "place"
    THEN evidence_holds \cup {[hold |-> op.hold, decision |-> "none"]}
    ELSE evidence_holds

(* applyEvidenceInbox(): the hold and the cursor move in one transaction.  *)
ApplyOperation(op) ==
  evidence_holds' =
    IF op.kind = "place"
    THEN evidence_holds \cup {[hold |-> op.hold, decision |-> "none"]}
    ELSE ResolvedHolds(op.hold, op.decision)

ApplyEvidenceInbox(w) ==
  LET ws == pending[w]
  IN /\ ws # NoWriteSet
     /\ ws.kind = "inbox"
     /\ \/ /\ InboxIsCurrent(ws)
           /\ ApplyOperation(ws.operation)
           /\ inbox_cursors' = [inbox_cursors EXCEPT ![ws.source] = @ + 1]
           /\ IncrementRevision
        \/ /\ ~InboxIsCurrent(ws)
           /\ UNCHANGED <<revision, holdVars>>
     /\ pending' = [pending EXCEPT ![w] = NoWriteSet]
     /\ UNCHANGED <<eventVars, chainVars, retention_anchor, outboxVars, now>>

-----------------------------------------------------------------------------
(* What keeps an epoch from being pruned: an active hold, the request's    *)
(* protected epochs, and both sides of an equivocation.                    *)
ActiveHoldEpochs ==
  {r.hold.epoch : r \in {r \in evidence_holds : r.decision = "none"}}

(* Faulty variant: only the conflicting side of an equivocation counts.    *)
ConflictingEpochs == {q.epoch : q \in equivocations}

EquivocationEpochs ==
  {q.epoch : q \in equivocations}
    \cup {e.epoch : e \in {e \in events :
                            \E q \in equivocations : SameSlot(e, q)}}

UnresolvedEpochs(protected) ==
  protected \cup ActiveHoldEpochs \cup EquivocationEpochs

AllOutboxAcknowledged(c) ==
  LET rows == {o \in outbox : o.epoch = c.epoch /\ o.digest = c.digest}
  IN rows # {} /\ \A o \in rows : o.state = "acknowledged"

Prunable(c, retain_from, protected) ==
  /\ c.epoch < retain_from
  /\ AllOutboxAcknowledged(c)
  /\ c.epoch \notin UnresolvedEpochs(protected)

(* The checkpoint, or the anchor, that c names as its parent is retained.  *)
LinkedToParent(c) ==
  \E p \in checkpoints \cup {retention_anchor} :
    p.epoch = c.epoch - 1 /\ p.digest = c.previous

(* The checkpoints that may become the anchor: every epoch from the anchor *)
(* up to them is present, linked to its parent, and prunable.              *)
PruneCandidates(retain_from, protected) ==
  {c \in checkpoints :
     \A e \in (retention_anchor.epoch + 1)..c.epoch :
       \E d \in checkpoints :
         d.epoch = e /\ LinkedToParent(d) /\ Prunable(d, retain_from, protected)}

(* preparePruneWriteSet() walks the chain as far as it can.                *)
PreparePrune(w, retain_from, protected) ==
  /\ pending[w] = NoWriteSet
  /\ \A e \in protected : e > retention_anchor.epoch
  /\ \E c \in PruneCandidates(retain_from, protected) :
       /\ \A d \in PruneCandidates(retain_from, protected) : d.epoch <= c.epoch
       /\ pending' = [pending EXCEPT ![w] =
            [kind |-> "prune", expected_revision |-> revision,
             expected_anchor |-> retention_anchor,
             next_anchor |-> [epoch |-> c.epoch, digest |-> c.digest],
             retain_from_epoch |-> retain_from,
             protected_epochs |-> protected]]
  /\ UNCHANGED <<revision, eventVars, chainVars, retention_anchor,
                 outboxVars, holdVars, now>>

(* playerLocalPruneWriteSetValid(), evaluated again at commit.             *)
PruneWriteSetValid(ws) ==
  /\ ws.expected_anchor = retention_anchor
  /\ ws.retain_from_epoch <= head.epoch + 1
  /\ ws.next_anchor.epoch > retention_anchor.epoch
  /\ \A e \in ws.protected_epochs : e > retention_anchor.epoch
  /\ \E c \in PruneCandidates(ws.retain_from_epoch, ws.protected_epochs) :
       c.epoch = ws.next_anchor.epoch /\ c.digest = ws.next_anchor.digest

(* Faulty variant: the rows of the last pruned epoch stay.                 *)
RetainedInclusive(rows, through) == {r \in rows : r.epoch >= through}

Retained(rows, through) == {r \in rows : r.epoch > through}

(* The deletions of pruneEvidence() and the new anchor.                    *)
ApplyPrune(through, anchor) ==
  /\ equivocations' = Retained(equivocations, through)
  /\ events' = Retained(events, through)
  /\ ack_history' = Retained(ack_history, through)
  /\ outbox' = Retained(outbox, through)
  /\ consumed_closures' = {e \in consumed_closures : e > through}
  /\ evidence_holds' =
       {r \in evidence_holds : r.hold.epoch > through \/ r.decision = "none"}
  /\ checkpoints' = Retained(checkpoints, through)
  /\ retention_anchor' = anchor
  /\ IncrementRevision

PruneEvidence(w) ==
  LET ws == pending[w]
      current == revision = ws.expected_revision /\ PruneWriteSetValid(ws)
  IN /\ ws # NoWriteSet
     /\ ws.kind = "prune"
     /\ \/ current /\ ApplyPrune(ws.next_anchor.epoch, ws.next_anchor)
        \/ /\ ~current
           /\ UNCHANGED <<revision, events, equivocations, checkpoints,
                          consumed_closures, outbox, ack_history,
                          evidence_holds, retention_anchor>>
     /\ pending' = [pending EXCEPT ![w] = NoWriteSet]
     /\ UNCHANGED <<head, next_created_order, inbox_cursors, sent, stored_log,
                    now>>

-----------------------------------------------------------------------------
(* schedule-, claim-, complete- and escalateEvidencePollJob() write a      *)
(* table of their own; all they share with the rest is the revision.       *)
WriteEvidencePollJob ==
  /\ IncrementRevision
  /\ UNCHANGED <<eventVars, chainVars, retention_anchor, outboxVars, holdVars,
                 pending, now>>

(* The process or tab of writer w dies between its read and its commit.    *)
Crash(w) ==
  /\ pending[w] # NoWriteSet
  /\ pending' = [pending EXCEPT ![w] = NoWriteSet]
  /\ UNCHANGED <<revision, eventVars, chainVars, retention_anchor, outboxVars,
                 holdVars, now>>

Tick ==
  /\ now < MaxTime
  /\ now' = now + 1
  /\ UNCHANGED <<revision, eventVars, chainVars, retention_anchor, outboxVars,
                 holdVars, pending>>

Next ==
  \/ \E e \in Events : AdmitEvent(e)
  \/ \E w \in Writers :
       \/ \E c \in Drafts, l \in DestinationLists : PrepareSeal(w, c, l)
       \/ CommitSeal(w)
       \/ \E s \in Sources : \E i \in 1..Len(Feeds[s]) : PrepareInbox(w, s, i)
       \/ ApplyEvidenceInbox(w)
       \/ \E r \in 0..(head.epoch + 1), P \in ProtectedSets :
            PreparePrune(w, r, P)
       \/ PruneEvidence(w)
       \/ Crash(w)
  \/ \E o \in outbox :
       \/ ClaimOutbox(o)
       \/ ReleaseOutbox(o)
       \/ \E d \in {"accepted", "duplicate"} : AcknowledgeOutbox(o, d)
  \/ \E h \in Holds :
       \/ PlaceEvidenceHold(h)
       \/ \E d \in Decisions : ResolveEvidenceHold(h, d)
  \/ WriteEvidencePollJob
  \/ Tick

Spec == Init /\ [][Next]_vars

-----------------------------------------------------------------------------
(* The rows of every table have the types of its schema.                   *)
TypeOK ==
  /\ revision \in Nat
  /\ next_created_order \in Nat
  /\ head \in Anchors
  /\ retention_anchor \in Anchors
  /\ events \subseteq Events
  /\ equivocations \subseteq Events
  /\ checkpoints \subseteq Drafts
  /\ consumed_closures \subseteq Epochs
  /\ outbox \subseteq OutboxRows
  /\ ack_history \subseteq AckRows
  /\ evidence_holds \subseteq HoldRows
  /\ inbox_cursors \in [Sources -> Int]
  /\ pending \in [Writers ->
       SealWriteSets \cup PruneWriteSets \cup InboxWriteSets \cup {NoWriteSet}]
  /\ sent \subseteq Nat
  /\ stored_log \subseteq Events
  /\ now \in Nat

(* playerLocalAuditImageError(), relation by relation: what assertValidImage *)
(* requires of the rows when the store is opened again.                    *)
EventsValid ==
  /\ \A e \in events :
       /\ e.epoch > retention_anchor.epoch
       /\ \A f \in events : SameSlot(e, f) => e = f
  /\ \A q \in equivocations :
       /\ q.epoch > retention_anchor.epoch
       /\ \E e \in events : SameSlot(e, q) /\ e.digest # q.digest
       /\ \A p \in equivocations : SameSlot(p, q) /\ p.digest = q.digest => p = q

ChainValid ==
  /\ retention_anchor.epoch \in -1..head.epoch
  /\ retention_anchor.epoch = -1 => retention_anchor.digest = Genesis
  /\ {c.epoch : c \in checkpoints} = (retention_anchor.epoch + 1)..head.epoch
  /\ \A c, d \in checkpoints : c.epoch = d.epoch => c = d
  /\ \A c \in checkpoints : LinkedToParent(c)
  /\ head = retention_anchor \/ CheckpointAt(head.epoch, head.digest)
  /\ consumed_closures = {c.epoch : c \in checkpoints}

HoldsValid ==
  \A r \in evidence_holds :
    /\ CheckpointAt(r.hold.epoch, r.hold.digest)
    /\ \A q \in evidence_holds : q.hold.id = r.hold.id => q = r

(* The primary key of player_local_outbox.                                 *)
SameEntry(o, p) ==
  o.destination = p.destination /\ o.epoch = p.epoch /\ o.digest = p.digest

OutboxValid ==
  /\ \A o \in outbox :
       /\ CheckpointAt(o.epoch, o.digest)
       /\ o.created_order < next_created_order
       /\ (o.state = "in_flight") <=> (o.lease # NoLease)
       /\ \A p \in outbox :
            p.created_order = o.created_order \/ SameEntry(p, o) => p = o
  /\ \A c \in checkpoints : \E o \in outbox : o.epoch = c.epoch

AcksOf(o) ==
  {a \in ack_history :
     a.authority = o.destination /\ a.epoch = o.epoch /\ a.digest = o.digest}

AckHistoryValid ==
  /\ \A a \in ack_history : \E o \in outbox :
       a \in AcksOf(o) /\ o.state = "acknowledged"
  /\ \A a, b \in ack_history :
       (a.authority = b.authority /\ a.epoch = b.epoch /\ a.digest = b.digest)
         => a = b
  /\ \A o \in outbox : o.state = "acknowledged" => AcksOf(o) # {}

CapacityRespected == Cardinality(ActiveOutbox) <= Capacity

(* However transactions, late acknowledgements, concurrent seals, prunes   *)
(* and crashes interleave, the rows on disk are an image that              *)
(* playerLocalAuditImageError() accepts: the store can always be reopened. *)
ImageValid ==
  /\ EventsValid
  /\ ChainValid
  /\ HoldsValid
  /\ OutboxValid
  /\ AckHistoryValid
  /\ CapacityRespected

(* A seal extends the head that is current when it commits, by exactly one *)
(* epoch and onto its digest, whatever was current when it was prepared:   *)
(* of several seals in flight at most one commits per epoch.               *)
SealsExtendHead ==
  [][head' # head =>
       \E c \in checkpoints' :
         /\ c.epoch = head.epoch + 1
         /\ c.previous = head.digest
         /\ head' = [epoch |-> c.epoch, digest |-> c.digest]]_vars

(* No step, and pruneEvidence() in particular, drops evidence that is      *)
(* still needed: an equivocation and the accepted event it contradicts, an *)
(* active hold and its checkpoint, an entry its authority has not          *)
(* acknowledged.                                                           *)
EvidenceSurvives ==
  [][/\ equivocations \subseteq equivocations'
     /\ \A e \in events :
          (\E q \in equivocations : SameSlot(e, q)) => e \in events'
     /\ \A r \in evidence_holds :
          r.decision = "none" =>
            /\ \E q \in evidence_holds' : q.hold = r.hold
            /\ \E c \in checkpoints' : c.epoch = r.hold.epoch
     /\ \A o \in ActiveOutbox :
          \E p \in outbox' : p.created_order = o.created_order]_vars

(* Once resolved, a hold keeps its decision until its epoch is pruned,     *)
(* whether decisions arrive directly or through an inbox.                  *)
ResolutionIsFinal ==
  [][\A r \in evidence_holds :
       r.decision # "none" =>
         r \in evidence_holds' \/ r.hold.epoch <= retention_anchor'.epoch]_vars

(* A cursor never runs ahead of the holds: the effect of every message up  *)
(* to it is in the store, or its epoch has been pruned.                    *)
InboxEffectsDurable ==
  \A s \in Sources : \A i \in 1..(inbox_cursors[s] + 1) :
    LET op == Feeds[s][i]
    IN \/ op.hold.epoch <= retention_anchor.epoch
       \/ \E r \in evidence_holds :
            /\ r.hold = op.hold
            /\ op.kind = "resolve" => r.decision = op.decision

(* An (author, counter) stands for one digest for the whole life of the    *)
(* store: no two events with one slot and different digests are both       *)
(* answered "stored".                                                      *)
OneDigestPerSlot ==
  \A e, f \in stored_log : SameSlot(e, f) => e.digest = f.digest
=============================================================================
