---------------------------- MODULE AuditAdapter ----------------------------
(***************************************************************************)
(* The adversarial audit adapter (src/adapter.mbt): events arrive in any   *)
(* order and any number of times, are checked, and are accepted, buffered  *)
(* until their dependencies arrive, or rejected.                           *)
(*                                                                         *)
(* A digest stands for the session, event and dependency hashes it is      *)
(* computed from.  Hashing, the signature and the session check are one    *)
(* field of a signed event, `authentic`: they depend on nothing the        *)
(* adapter stores.                                                         *)
(***************************************************************************)
EXTENDS Naturals, Sequences, FiniteSets, SequencesExt

CONSTANTS
  SignedEvents,  \* every signed event the network may deliver
  Roster,        \* <<peer, key>> pairs a caller may register
  NoReply        \* nothing delivered yet

Digests == {e.digest : e \in SignedEvents}

Ids == {e.id : e \in SignedEvents}

(* Of the events with one digest at least the content is the same.         *)
ASSUME DigestAssumption ==
  \A e, f \in SignedEvents :
    e.digest = f.digest =>
      e.id = f.id /\ e.deps = f.deps /\ e.dep_hashes = f.dep_hashes

VARIABLES
  peer_keys,      \* registered peers and their keys
  digest_ids,     \* accepted digests and the event id each authenticates
  event_digests,  \* event id to the digest that reserved it
  pending_buffer, \* events waiting for dependencies, in arrival order
  flushed_events, \* accepted from the buffer, not yet taken
  flushed_alerts, \* rejected from the buffer, not yet taken
  reply,          \* the result of the last deliver()
  accepted_times, \* history: how often a digest was newly accepted
  mismatch_times  \* history: how often a digest was reported as mismatch

vars == <<peer_keys, digest_ids, event_digests, pending_buffer,
          flushed_events, flushed_alerts, reply, accepted_times, mismatch_times>>

digest_store == DOMAIN digest_ids

Extend(f, x, y) == [z \in DOMAIN f \cup {x} |-> IF z = x THEN y ELSE f[z]]

Init ==
  /\ peer_keys = [p \in {} |-> ""]
  /\ digest_ids = [d \in {} |-> ""]
  /\ event_digests = [i \in {} |-> ""]
  /\ pending_buffer = <<>>
  /\ flushed_events = <<>>
  /\ flushed_alerts = <<>>
  /\ reply = NoReply
  /\ accepted_times = [d \in Digests |-> 0]
  /\ mismatch_times = [d \in Digests |-> 0]

(* register_peer(): a peer is never bound to a second key.                 *)
RegisterPeer(p, k) ==
  /\ p \notin DOMAIN peer_keys
  /\ peer_keys' = Extend(peer_keys, p, k)
  /\ UNCHANGED <<digest_ids, event_digests, pending_buffer, flushed_events,
                 flushed_alerts, reply, accepted_times, mismatch_times>>

-----------------------------------------------------------------------------
(* dependencies_match(): each hash is accepted and authenticates the id    *)
(* the event names at that place.                                          *)
DependenciesMatch(ids, e) ==
  /\ Len(e.deps) = Len(e.dep_hashes)
  /\ \A k \in DOMAIN e.dep_hashes :
       e.dep_hashes[k] \in DOMAIN ids /\ ids[e.dep_hashes[k]] = e.deps[k]

(* The hashes of e that are not accepted, counted with repetition.         *)
UnmetCount(ids, e) ==
  Cardinality({k \in DOMAIN e.dep_hashes : e.dep_hashes[k] \notin DOMAIN ids})

(* Faulty variant: a hash named twice is counted down once.                *)
OccurrencesOnce(e, d) == IF \E k \in DOMAIN e.dep_hashes : e.dep_hashes[k] = d THEN 1 ELSE 0

Occurrences(e, d) == Cardinality({k \in DOMAIN e.dep_hashes : e.dep_hashes[k] = d})

IndicesWhere(n, P(_)) == SelectSeq([i \in 1..n |-> i], P)

(* try_flush() is a worklist over the indices of the buffer: unmet counts  *)
(* the missing hashes of each entry, queue holds the entries that miss     *)
(* none.  Its assignment to event_digests repeats the reservation made     *)
(* when the entry was buffered, so it is left out.                         *)
WaitingFor(fs, d) ==
  LET unblocked(i) == fs.unmet[i] > 0 /\ fs.unmet[i] = Occurrences(fs.buffer[i], d)
  IN IndicesWhere(Len(fs.buffer), unblocked)

(* Faulty variant: flushed_events is filled from the front.                *)
FlushAcceptInFront(fs, e) ==
  [fs EXCEPT
     !.ids = Extend(@, e.digest, e.id),
     !.flushed = <<e.digest>> \o @,
     !.unmet = [i \in DOMAIN @ |-> @[i] - Occurrences(fs.buffer[i], e.digest)],
     !.queue = @ \o WaitingFor(fs, e.digest)]

FlushAccept(fs, e) ==
  [fs EXCEPT
     !.ids = Extend(@, e.digest, e.id),
     !.flushed = Append(@, e.digest),
     !.unmet = [i \in DOMAIN @ |-> @[i] - Occurrences(fs.buffer[i], e.digest)],
     !.queue = @ \o WaitingFor(fs, e.digest)]

(* Faulty variant: a mismatched entry is dropped without an alert.         *)
FlushSilently(fs, e) == fs

FlushReject(fs, e) == [fs EXCEPT !.alerts = Append(@, e.digest)]

RECURSIVE Drain(_)
Drain(fs) ==
  IF fs.queue = <<>> THEN fs
  ELSE LET i == Head(fs.queue)
           e == fs.buffer[i]
           next == [fs EXCEPT !.queue = Tail(@), !.processed = @ \cup {i}]
       IN CASE i \in fs.processed -> Drain(next)
            [] i \notin fs.processed /\ DependenciesMatch(fs.ids, e)
                 -> Drain(FlushAccept(next, e))
            [] OTHER -> Drain(FlushReject(next, e))

TryFlush(ids) ==
  LET unmet == [i \in 1..Len(pending_buffer) |-> UnmetCount(ids, pending_buffer[i])]
      ready(i) == unmet[i] = 0
  IN Drain([buffer |-> pending_buffer, ids |-> ids, unmet |-> unmet,
            queue |-> IndicesWhere(Len(pending_buffer), ready),
            processed |-> {}, flushed |-> <<>>, alerts |-> <<>>])

(* What stays in the buffer when the flush compacts it.                    *)
Remaining(fs) ==
  LET unprocessed(i) == i \notin fs.processed
      kept == IndicesWhere(Len(fs.buffer), unprocessed)
  IN [k \in 1..Len(kept) |-> fs.buffer[kept[k]]]

-----------------------------------------------------------------------------
Unchanged ==
  UNCHANGED <<digest_ids, event_digests, pending_buffer, flushed_events,
              flushed_alerts, accepted_times, mismatch_times>>

Reply(e, kind) == reply' = [digest |-> e.digest, kind |-> kind]

(* Steps 1 to 4 of deliver() and the length of the dependency arrays.      *)
Admissible(e) ==
  /\ e.authentic
  /\ e.id.peer \in DOMAIN peer_keys
  /\ peer_keys[e.id.peer] = e.author_key
  /\ Len(e.deps) = Len(e.dep_hashes)

DeliverRefused(e) ==
  /\ ~Admissible(e)
  /\ Reply(e, "rejected")
  /\ Unchanged

(* Faulty variant: the id is not reserved when the event is buffered.      *)
ReserveAccepted(e) ==
  IF UnmetCount(digest_ids, e) > 0 THEN event_digests
  ELSE Extend(event_digests, e.id, e.digest)

(* Faulty variant: the reservation goes to the author's next counter.      *)
ReserveNextCounter(e) ==
  Extend(event_digests, [e.id EXCEPT !.counter = @ + 1], e.digest)

(* "Reserve before buffering so a conflicting event cannot flush later."   *)
Reserve(e) == Extend(event_digests, e.id, e.digest)

(* Step 5, the event id is reserved.                                       *)
DeliverKnown(e) ==
  /\ e.id \in DOMAIN event_digests
  /\ Reply(e, CASE event_digests[e.id] # e.digest -> "equivocation"
                [] event_digests[e.id] = e.digest /\ e.digest \in digest_store
                     -> "accepted"
                [] OTHER -> "buffered")
  /\ Unchanged

(* Step 6, the event id is new and is reserved before anything else.       *)
DeliverBuffered(e) ==
  /\ UnmetCount(digest_ids, e) > 0
  /\ pending_buffer' = Append(pending_buffer, e)
  /\ Reply(e, "buffered")
  /\ UNCHANGED <<digest_ids, flushed_events, flushed_alerts, accepted_times,
                 mismatch_times>>

DeliverMismatched(e) ==
  /\ UnmetCount(digest_ids, e) = 0
  /\ ~DependenciesMatch(digest_ids, e)
  /\ Reply(e, "mismatch")
  /\ mismatch_times' = [mismatch_times EXCEPT ![e.digest] = @ + 1]
  /\ UNCHANGED <<digest_ids, pending_buffer, flushed_events, flushed_alerts,
                 accepted_times>>

(* accept(): the event, then everything in the buffer it makes ready.      *)
DeliverAccepted(e) ==
  /\ DependenciesMatch(digest_ids, e)
  /\ LET fs == TryFlush(Extend(digest_ids, e.digest, e.id))
         new == <<e.digest>> \o fs.flushed
         times(s, d) == Cardinality({k \in DOMAIN s : s[k] = d})
     IN /\ digest_ids' = fs.ids
        /\ pending_buffer' = Remaining(fs)
        /\ flushed_events' = flushed_events \o fs.flushed
        /\ flushed_alerts' = flushed_alerts \o fs.alerts
        /\ accepted_times' = [d \in Digests |-> accepted_times[d] + times(new, d)]
        /\ mismatch_times' =
             [d \in Digests |-> mismatch_times[d] + times(fs.alerts, d)]
  /\ Reply(e, "accepted")

Deliver(e) ==
  /\ \/ DeliverRefused(e)
     \/ Admissible(e) /\ DeliverKnown(e)
     \/ /\ Admissible(e)
        /\ e.id \notin DOMAIN event_digests
        /\ event_digests' = Reserve(e)
        /\ DeliverBuffered(e) \/ DeliverMismatched(e) \/ DeliverAccepted(e)
  /\ UNCHANGED peer_keys

(* take_flushed() and take_flushed_alerts() hand a list over and clear it. *)
TakeFlushed ==
  /\ flushed_events # <<>>
  /\ flushed_events' = <<>>
  /\ UNCHANGED <<peer_keys, digest_ids, event_digests, pending_buffer,
                 flushed_alerts, reply, accepted_times, mismatch_times>>

TakeFlushedAlerts ==
  /\ flushed_alerts # <<>>
  /\ flushed_alerts' = <<>>
  /\ UNCHANGED <<peer_keys, digest_ids, event_digests, pending_buffer,
                 flushed_events, reply, accepted_times, mismatch_times>>

Next ==
  \/ \E r \in Roster : RegisterPeer(r[1], r[2])
  \/ \E e \in SignedEvents : Deliver(e)
  \/ TakeFlushed
  \/ TakeFlushedAlerts

Spec == Init /\ [][Next]_vars

-----------------------------------------------------------------------------
Event(d) == CHOOSE e \in SignedEvents : e.digest = d

Reserved == {event_digests[i] : i \in DOMAIN event_digests}

Pending == {pending_buffer[k].digest : k \in DOMAIN pending_buffer}

Hashes(d) == {Event(d).dep_hashes[k] : k \in DOMAIN Event(d).dep_hashes}

(* Shape of the adapter's maps, lists and last result.                     *)
TypeOK ==
  /\ \A p \in DOMAIN peer_keys : <<p, peer_keys[p]>> \in Roster
  /\ \A d \in DOMAIN digest_ids : d \in Digests /\ digest_ids[d] = Event(d).id
  /\ \A i \in DOMAIN event_digests :
       i \in Ids /\ event_digests[i] \in Digests /\ Event(event_digests[i]).id = i
  /\ pending_buffer \in Seq(SignedEvents)
  /\ flushed_events \in Seq(Digests)
  /\ flushed_alerts \in Seq(Digests)

(* The least set of reserved events closed under acceptance, by iterating  *)
(* "every dependency is in the set, under the id the event names".         *)
RECURSIVE ClosureFrom(_)
ClosureFrom(S) ==
  LET supported(d) ==
        /\ Len(Event(d).deps) = Len(Event(d).dep_hashes)
        /\ \A k \in DOMAIN Event(d).dep_hashes :
             LET h == Event(d).dep_hashes[k]
             IN h \in S /\ Event(h).id = Event(d).deps[k]
      more == {d \in Reserved : supported(d)}
  IN IF more \subseteq S THEN S ELSE ClosureFrom(S \cup more)

(* Whatever the order of delivery, the accepted events are exactly the     *)
(* causal closure of the events that reserved an id: try_flush()'s         *)
(* counting worklist neither misses nor anticipates one.                   *)
StoreIsCausalClosure == digest_store = ClosureFrom({})

(* Every reserved event is in one place: accepted, waiting in the buffer   *)
(* (once, and really short of a dependency), or reported as a mismatch     *)
(* exactly once, by deliver() or through flushed_alerts.                   *)
EveryEventAccounted ==
  /\ Len(pending_buffer) = Cardinality(Pending)
  /\ \A d \in Digests :
       /\ accepted_times[d] = IF d \in digest_store THEN 1 ELSE 0
       /\ d \in Pending <=> d \in Reserved /\ ~(Hashes(d) \subseteq digest_store)
       /\ mismatch_times[d] =
            IF d \in Reserved \ (digest_store \cup Pending) THEN 1 ELSE 0

(* take_flushed() hands events over in causal order: no event of the list  *)
(* depends on one that comes at or after its own place.                    *)
FlushOrderCausal ==
  \A i \in DOMAIN flushed_events : \A j \in i..Len(flushed_events) :
    flushed_events[j] \notin Hashes(flushed_events[i])

(* Causal delivery, whatever the network does with order and repetition:   *)
(* the accepted events are the causal closure, handed over in its order.   *)
DeliveryIsCausal == StoreIsCausalClosure /\ FlushOrderCausal

(* An author's counter is never accepted for two different events, even    *)
(* when both copies arrive before the dependency they wait for.            *)
OneEventPerId ==
  \A d1, d2 \in digest_store : Event(d1).id = Event(d2).id => d1 = d2

(* Nothing is lost, counted twice or accepted beside its rival: every      *)
(* event has one place, and every id one event, in well-formed maps.       *)
EventsAccountedOnce == TypeOK /\ EveryEventAccounted /\ OneEventPerId

(* deliver() is documented to answer "Buffered if waiting for deps".       *)
(* A redelivery of an event rejected for mismatched dependencies answers   *)
(* Buffered too, although the event is in no buffer.                       *)
BufferedMeansPending ==
  reply # NoReply /\ reply.kind = "buffered" => reply.digest \in Pending

=============================================================================
