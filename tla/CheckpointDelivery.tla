------------------------- MODULE CheckpointDelivery -------------------------
(***************************************************************************)
(* Delivery of sealed checkpoints from the source Durable Object to its    *)
(* destination authorities: the source's store (checkpoint-runtime.ts),    *)
(* the receivers' stores (checkpoint-receiver.ts) and the handlers of      *)
(* index.ts that run between them: seal, alarm and the Queue consumer.     *)
(*                                                                         *)
(* Every transactionSync is one step.  A handler gives way to others only  *)
(* while it waits for another object, so that is where a step ends.        *)
(* A checkpoint is the content of one seal request.  An outbox row and the *)
(* job made from it carry the checkpoint of their epoch, which no later    *)
(* step changes, so a job is named by its key <<destination, epoch>>.      *)
(* Created order is the order by epoch, then by destination.               *)
(***************************************************************************)
EXTENDS Integers, FiniteSets

CONSTANTS
  DestinationCount, \* configured destinations, in their sorted order
  MaxEpoch,         \* bound: the last epoch that is ever sealed
  Checkpoints,      \* records [epoch, digest, previous] a client may submit
  InitialDigest,    \* parent of epoch 0, from the configuration
  OutboxCapacity,   \* most rows that may be unacknowledged
  ClaimLimit,       \* most rows one dispatch claims
  LeaseDuration,    \* ticks a claim is exclusive; an alarm is at least 1 away
  Handlers,         \* bound: seal and Queue handlers that run at a time
  MaxFailures,      \* bound: RPCs that fail or are deferred by the client
  MaxCrashes,       \* bound: times the source object stops
  None              \* absent

Destinations == 1..DestinationCount

Epochs == 0..MaxEpoch

Keys == Destinations \X Epochs

ASSUME BoundsAssumption ==
  /\ DestinationCount \in Nat \ {0}
  /\ MaxEpoch \in Nat
  /\ OutboxCapacity \in Nat
  /\ ClaimLimit \in Nat \ {0}
  /\ LeaseDuration \in Nat \ {0}
  /\ MaxFailures \in Nat
  /\ MaxCrashes \in Nat

ASSUME CheckpointsAssumption ==
  \A c \in Checkpoints :
    /\ c = [epoch |-> c.epoch, digest |-> c.digest, previous |-> c.previous]
    /\ c.epoch \in Epochs

(* The alarm handler never runs twice at a time, so it has a slot.         *)
Alarm == "alarm"

ASSUME HandlersAssumption == Alarm \notin Handlers

Slots == Handlers \cup {Alarm}

VARIABLES
  provisioned,      \* destinations marked provisioned
  head,             \* checkpoint_local_head: epoch and digest, or None
  history,          \* checkpoint_history: epoch to checkpoint
  closures,         \* checkpoint_closures: epoch to status
  outbox,           \* checkpoint_outbox: key to row
  alarm,            \* ticks until the object's alarm, or None
  slots,            \* what each handler is doing
  receiver_head,    \* checkpoint_receiver_head per destination, or None
  receiver_history, \* checkpoint_receiver_history per destination
  receiver_forks,   \* checkpoint_receiver_forks per destination
  stray,            \* requests whose sender no longer waits
  failures,         \* RPCs failed or deferred so far
  crashes           \* stops so far

source == <<provisioned, head, history, closures>>
receivers == <<receiver_head, receiver_history, receiver_forks>>
vars == <<source, outbox, alarm, slots, receivers, stray, failures, crashes>>

Absent == [state |-> "absent", lease |-> 0]
Pending == [state |-> "pending", lease |-> 0]
Acknowledged == [state |-> "acknowledged", lease |-> 0]

InFlight(ticks) == [state |-> "in_flight", lease |-> ticks]

Idle == [state |-> "idle", mode |-> "direct", fresh |-> {}, retry |-> {},
         reply |-> None]

(* A dispatch that has not claimed yet.                                    *)
Starting(mode) == [state |-> "starting", mode |-> mode, fresh |-> {},
                   retry |-> {}, reply |-> None]

Sending(fresh, retry) ==
  [state |-> "sending", mode |-> "direct", fresh |-> fresh, retry |-> retry,
   reply |-> None]

Consuming(k) == [state |-> "consuming", mode |-> "direct", fresh |-> {k},
                 retry |-> {}, reply |-> None]

Replied(slot, k, decision) ==
  [state |-> slot.state, mode |-> slot.mode, fresh |-> slot.fresh,
   retry |-> slot.retry, reply |-> [job |-> k, decision |-> decision]]

Head(epoch, digest) == [epoch |-> epoch, digest |-> digest]

Init ==
  /\ provisioned = {}
  /\ head = None
  /\ history = [e \in Epochs |-> None]
  /\ closures = [e \in Epochs |-> "none"]
  /\ outbox = [k \in Keys |-> Absent]
  /\ alarm = None
  /\ slots = [h \in Slots |-> Idle]
  /\ receiver_head = [d \in Destinations |-> None]
  /\ receiver_history = [d \in Destinations |-> [e \in Epochs |-> None]]
  /\ receiver_forks = [d \in Destinations |-> {}]
  /\ stray = {}
  /\ failures = 0
  /\ crashes = 0

-----------------------------------------------------------------------------
(* Configuration.  The control plane calls again until every destination   *)
(* is provisioned; a repeated call finds the same rows.                    *)
configured == head # None

Configure ==
  /\ ~configured
  /\ head' = Head(-1, InitialDigest)
  /\ UNCHANGED <<provisioned, history, closures, outbox, alarm, slots,
                 receivers, stray, failures, crashes>>

(* CheckpointReceiverStore.configure() at d, called by the loop of         *)
(* provisionCheckpointDestinations(): earlier destinations answered.       *)
ConfigureReceiver(d) ==
  /\ configured
  /\ \A f \in Destinations : f < d => f \in provisioned
  /\ receiver_head[d] = None
  /\ receiver_head' = [receiver_head EXCEPT ![d] = Head(-1, InitialDigest)]
  /\ UNCHANGED <<source, outbox, alarm, slots, receiver_history,
                 receiver_forks, stray, failures, crashes>>

MarkDestinationProvisioned(d) ==
  /\ configured
  /\ receiver_head[d] # None
  /\ d \notin provisioned
  /\ provisioned' = provisioned \cup {d}
  /\ UNCHANGED <<head, history, closures, outbox, alarm, slots,
                 receivers, stray, failures, crashes>>

StoreClosure(e) ==
  /\ configured
  /\ closures[e] = "none"
  /\ closures' = [closures EXCEPT ![e] = "ready"]
  /\ UNCHANGED <<provisioned, head, history, outbox, alarm, slots,
                 receivers, stray, failures, crashes>>

-----------------------------------------------------------------------------
(* seal().  Refusals and conflicts change nothing and are not steps.       *)
ActiveOutbox == {k \in Keys : outbox[k].state \in {"pending", "in_flight"}}

CapacityAvailable == DestinationCount <= OutboxCapacity - Cardinality(ActiveOutbox)

(* classify_checkpoint_head() answers Advance for the source's own head.   *)
ExtendsHead(c) == c.epoch = head.epoch + 1 /\ c.previous = head.digest

SealAdvance(c) ==
  /\ history[c.epoch] = None
  /\ ExtendsHead(c)
  /\ closures[c.epoch] = "ready"
  /\ CapacityAvailable
  /\ history' = [history EXCEPT ![c.epoch] = c]
  /\ head' = Head(c.epoch, c.digest)
  /\ closures' = [closures EXCEPT ![c.epoch] = "consumed"]
  /\ outbox' = [k \in Keys |-> IF k[2] = c.epoch THEN Pending ELSE outbox[k]]

SealDuplicate(c) ==
  /\ history[c.epoch] = c
  /\ head.epoch >= c.epoch
  /\ closures[c.epoch] = "consumed"
  /\ \A d \in Destinations : outbox[<<d, c.epoch>>] # Absent
  /\ UNCHANGED <<head, history, closures, outbox>>

(* A committed or repeated seal goes on to dispatch, directly or deferred. *)
SealCheckpoint(h, c, mode) ==
  /\ slots[h] = Idle
  /\ configured
  /\ provisioned = Destinations
  /\ SealAdvance(c) \/ SealDuplicate(c)
  /\ slots' = [slots EXCEPT ![h] = Starting(mode)]
  /\ \/ mode = "direct" /\ UNCHANGED failures
     \/ mode = "deferred" /\ failures < MaxFailures /\ failures' = failures + 1
  /\ UNCHANGED <<provisioned, alarm, receivers, stray, crashes>>

-----------------------------------------------------------------------------
(* claimDeliveries(): first the rows never attempted, in created order,    *)
(* then for each destination its oldest row whose lease has expired.       *)
Before(j, k) == j[2] < k[2] \/ (j[2] = k[2] /\ j[1] < k[1])

Unattempted == {k \in Keys : outbox[k].state = "pending"}

FreshClaims ==
  {k \in Unattempted : Cardinality({j \in Unattempted : Before(j, k)}) < ClaimLimit}

Expired == {k \in Keys : outbox[k].state = "in_flight" /\ outbox[k].lease = 0}

OldestExpired == {k \in Expired : ~\E j \in Expired : j[1] = k[1] /\ Before(j, k)}

RetryClaims ==
  {k \in OldestExpired :
     Cardinality(FreshClaims) + Cardinality({j \in OldestExpired : j[1] < k[1]})
       < ClaimLimit}

Claim(h) ==
  /\ slots[h].state = "starting"
  /\ outbox' = [k \in Keys |-> IF k \in FreshClaims \cup RetryClaims
                              THEN InFlight(LeaseDuration) ELSE outbox[k]]
  /\ slots' = [slots EXCEPT ![h] =
       IF slots[h].mode = "direct" THEN Sending(FreshClaims, RetryClaims)
                                   ELSE Sending({}, {})]
  /\ UNCHANGED <<source, alarm, receivers, stray, failures, crashes>>

(* k is the claim the handler's loop has come to.                          *)
Current(slot, k) ==
  /\ slot.state \in {"sending", "consuming"}
  /\ \/ /\ k \in slot.fresh
        /\ \A j \in slot.fresh : ~Before(j, k)
     \/ /\ slot.fresh = {}
        /\ k \in slot.retry
        /\ \A j \in slot.retry : j[1] >= k[1]

-----------------------------------------------------------------------------
(* CheckpointReceiverStore.receive() of job k, at destination k[1].  The   *)
(* boundary matches by the configuration both sides were given.            *)
Job(k) == history[k[2]]

(* Faulty variant: the head is compared before the history is looked up.   *)
DecisionByHead(k) ==
  LET current == receiver_head[k[1]]
  IN CASE k[2] = current.epoch + 1 /\ Job(k).previous = current.digest -> "accepted"
       [] k[2] > current.epoch + 1 -> "gap"
       [] OTHER -> "parent_fork"

(* Faulty variant: any newer epoch advances the head.                      *)
DecisionSkippingGaps(k) ==
  IF k[2] > receiver_head[k[1]].epoch THEN "accepted" ELSE "duplicate"

(* classify_checkpoint_head(), in its order, under receiverDecision()'s    *)
(* names.                                                                  *)
Decision(k) ==
  LET known == receiver_history[k[1]][k[2]]
      current == receiver_head[k[1]]
  IN IF current = None THEN "not_configured"
     ELSE IF known # None
       THEN IF known = Job(k) THEN "duplicate" ELSE "same_epoch_fork"
     ELSE IF k[2] = current.epoch + 1
       THEN IF Job(k).previous = current.digest THEN "accepted" ELSE "parent_fork"
     ELSE IF k[2] > current.epoch THEN "gap" ELSE "stale_unknown"

Receive(k) ==
  /\ IF Decision(k) = "accepted"
     THEN /\ receiver_history' =
               [receiver_history EXCEPT ![k[1]] = [@ EXCEPT ![k[2]] = Job(k)]]
          /\ receiver_head' =
               [receiver_head EXCEPT ![k[1]] = Head(k[2], Job(k).digest)]
     ELSE UNCHANGED <<receiver_history, receiver_head>>
  /\ IF Decision(k) \in {"same_epoch_fork", "parent_fork"}
     THEN receiver_forks' = [receiver_forks EXCEPT ![k[1]] =
            @ \cup {[kind |-> Decision(k), observed |-> Job(k)]}]
     ELSE UNCHANGED receiver_forks

(* The request of handler h reaches its destination.                       *)
RequestArrives(h, k) ==
  /\ Current(slots[h], k)
  /\ slots[h].reply = None
  /\ Receive(k)
  /\ slots' = [slots EXCEPT ![h] = Replied(slots[h], k, Decision(k))]
  /\ UNCHANGED <<source, outbox, alarm, stray, failures, crashes>>

(* A request arrives after its sender stopped waiting.                     *)
StrayArrives(k) ==
  /\ k \in stray
  /\ Receive(k)
  /\ stray' = stray \ {k}
  /\ UNCHANGED <<source, outbox, alarm, slots, failures, crashes>>

-----------------------------------------------------------------------------
(* Faulty variant: every answer completes the row.                         *)
AnyAnswer(decision) == decision # None

(* acknowledge_checkpoint_outbox() completes a row for these alone.        *)
Successful(decision) == decision \in {"accepted", "duplicate"}

(* The loop goes on without k; the Queue consumer has only k.              *)
Without(slot, k) ==
  IF slot.state = "consuming" THEN Idle
  ELSE Sending(slot.fresh \ {k}, slot.retry \ {k})

(* The answer arrives.  The consumer's acknowledgement request dispatches  *)
(* again before it returns.                                                *)
Settle(h) ==
  /\ slots[h].reply # None
  /\ LET k == slots[h].reply.job
     IN IF Successful(slots[h].reply.decision)
        THEN /\ outbox' = [outbox EXCEPT ![k] = Acknowledged]
             /\ slots' = [slots EXCEPT ![h] =
                  IF slots[h].state = "consuming" THEN Starting("direct")
                                                  ELSE Without(slots[h], k)]
        ELSE /\ slots' = [slots EXCEPT ![h] = Without(slots[h], k)]
             /\ UNCHANGED outbox
  /\ UNCHANGED <<source, alarm, receivers, stray, failures, crashes>>

(* The RPC fails, before or after the destination has acted on it; the     *)
(* request may still be on its way.                                        *)
RpcFails(h, k) ==
  /\ failures < MaxFailures
  /\ Current(slots[h], k)
  /\ slots' = [slots EXCEPT ![h] = Without(slots[h], k)]
  /\ stray' = IF slots[h].reply = None THEN stray \cup {k} ELSE stray
  /\ failures' = failures + 1
  /\ UNCHANGED <<source, outbox, alarm, receivers, crashes>>

(* Faulty variant: rows in flight are taken for somebody else's business.  *)
RetryTimesOfPending == IF Unattempted # {} THEN {0} ELSE {}

(* nextDeliveryRetryAt() is the least of these, if any.                    *)
RetryTimes ==
  IF Unattempted # {} THEN {0}
  ELSE {outbox[k].lease : k \in {j \in Keys : outbox[j].state = "in_flight"}}

AtLeastOne(n) == IF n < 1 THEN 1 ELSE n

(* The end of a dispatch: the alarm is set, or moved to an earlier time.   *)
(* alarm() itself then sets it whatever it was.                            *)
Finish(h) ==
  /\ slots[h].state = "sending"
  /\ slots[h].fresh \cup slots[h].retry = {}
  /\ \/ RetryTimes = {} /\ UNCHANGED alarm
     \/ \E t \in RetryTimes :
          /\ \A u \in RetryTimes : t <= u
          /\ alarm' = IF h # Alarm /\ alarm # None /\ alarm <= AtLeastOne(t)
                      THEN alarm ELSE AtLeastOne(t)
  /\ slots' = [slots EXCEPT ![h] = Idle]
  /\ UNCHANGED <<source, outbox, receivers, stray, failures, crashes>>

AlarmFires ==
  /\ alarm = 0
  /\ slots[Alarm] = Idle
  /\ alarm' = None
  /\ slots' = [slots EXCEPT ![Alarm] = Starting("direct")]
  /\ UNCHANGED <<source, outbox, receivers, stray, failures, crashes>>

(* deliverCheckpointJob(): the Queue hands a job to its consumer, any      *)
(* number of times; authenticateDelivery() finds it in the outbox.         *)
QueueDelivers(h, k) ==
  /\ slots[h] = Idle
  /\ outbox[k] # Absent
  /\ slots' = [slots EXCEPT ![h] = Consuming(k)]
  /\ UNCHANGED <<source, outbox, alarm, receivers, stray, failures, crashes>>

(* Handlers of the source object; the Queue consumer is another worker.    *)
Stopped(slot) == slot.state \in {"starting", "sending"}

(* The source object stops.  Its tables and its alarm are durable, its     *)
(* handlers are lost, and an alarm that was being handled fires again.     *)
SourceCrashes ==
  /\ crashes < MaxCrashes
  /\ \E h \in Slots : Stopped(slots[h])
  /\ slots' = [h \in Slots |-> IF Stopped(slots[h]) THEN Idle ELSE slots[h]]
  /\ stray' = stray \cup {k \in Keys : \E h \in Slots :
       /\ slots[h].state = "sending"
       /\ Current(slots[h], k)
       /\ slots[h].reply = None}
  /\ alarm' = IF Stopped(slots[Alarm]) THEN 0 ELSE alarm
  /\ crashes' = crashes + 1
  /\ UNCHANGED <<source, outbox, receivers, failures>>

Down(n) == IF n > 0 THEN n - 1 ELSE 0

(* Time passes for every lease and for the alarm.                          *)
Tick ==
  /\ \/ alarm # None /\ alarm # 0
     \/ \E k \in Keys : outbox[k].lease > 0
  /\ outbox' = [k \in Keys |-> [state |-> outbox[k].state,
                                lease |-> Down(outbox[k].lease)]]
  /\ alarm' = IF alarm = None THEN None ELSE Down(alarm)
  /\ UNCHANGED <<source, slots, receivers, stray, failures, crashes>>

HandlerStep(h) ==
  \/ Claim(h)
  \/ \E k \in Keys : RequestArrives(h, k)
  \/ Settle(h)
  \/ Finish(h)

ControlStep ==
  \/ Configure
  \/ \E d \in Destinations : ConfigureReceiver(d) \/ MarkDestinationProvisioned(d)
  \/ \E e \in Epochs : StoreClosure(e)

Next ==
  \/ ControlStep
  \/ \E h \in Handlers, c \in Checkpoints, mode \in {"direct", "deferred"} :
       SealCheckpoint(h, c, mode)
  \/ \E h \in Slots : HandlerStep(h)
  \/ \E h \in Slots, k \in Keys : RpcFails(h, k)
  \/ \E h \in Handlers, k \in Keys : QueueDelivers(h, k)
  \/ \E k \in Keys : StrayArrives(k)
  \/ AlarmFires
  \/ SourceCrashes
  \/ Tick

Spec == Init /\ [][Next]_vars

(* A handler that runs goes on, time passes and a due alarm fires.         *)
(* Nothing is assumed of clients, of the Queue or of stray requests.       *)
FairSpec ==
  /\ Spec
  /\ \A h \in Slots : WF_vars(HandlerStep(h))
  /\ WF_vars(AlarmFires)
  /\ WF_vars(Tick)

-----------------------------------------------------------------------------
Digests == {c.digest : c \in Checkpoints} \cup {InitialDigest}

HeadRows == [epoch : -1..MaxEpoch, digest : Digests]

Rows == {Absent, Pending, Acknowledged}
          \cup [state : {"in_flight"}, lease : 0..LeaseDuration]

Decisions == {"accepted", "duplicate", "same_epoch_fork", "parent_fork", "gap",
              "stale_unknown", "not_configured"}

Replies == [job : Keys, decision : Decisions]

SlotStates ==
  [state : {"idle", "starting", "sending", "consuming"},
   mode : {"direct", "deferred"}, fresh : SUBSET Keys, retry : SUBSET Keys,
   reply : Replies \cup {None}]

ASSUME NoneAssumption ==
  None \notin Checkpoints \cup HeadRows \cup Replies \cup 0..LeaseDuration

(* Every table, handler and budget has its shape.                          *)
TypeOK ==
  /\ provisioned \subseteq Destinations
  /\ head \in HeadRows \cup {None}
  /\ history \in [Epochs -> Checkpoints \cup {None}]
  /\ closures \in [Epochs -> {"none", "ready", "consumed"}]
  /\ outbox \in [Keys -> Rows]
  /\ alarm \in 0..LeaseDuration \cup {None}
  /\ slots \in [Slots -> SlotStates]
  /\ receiver_head \in [Destinations -> HeadRows \cup {None}]
  /\ receiver_history \in [Destinations -> [Epochs -> Checkpoints \cup {None}]]
  /\ receiver_forks \in [Destinations ->
       SUBSET [kind : {"same_epoch_fork", "parent_fork"},
               observed : Checkpoints \cup {None}]]
  /\ stray \subseteq Keys
  /\ failures \in 0..MaxFailures
  /\ crashes \in 0..MaxCrashes

(* A row is acknowledged only if its destination durably holds exactly the *)
(* source's checkpoint of that epoch, whatever was lost, repeated or late. *)
AckImpliesReceived ==
  \A k \in Keys :
    outbox[k] = Acknowledged =>
      history[k[2]] # None /\ receiver_history[k[1]][k[2]] = history[k[2]]

(* A source that never seals two checkpoints for an epoch is never         *)
(* recorded as a fork, however its deliveries overtake one another: the    *)
(* history lookup in receive() precedes the comparison with the head.      *)
NoFalseFork == \A d \in Destinations : receiver_forks[d] = {}

(* The unacknowledged rows stay within outbox_capacity.                    *)
OutboxBounded == Cardinality(ActiveOutbox) <= OutboxCapacity

(* The stores together implement one log, its copies and confirmations.    *)
Confirmed == {k \in Keys : outbox[k] = Acknowledged}

Abstract == INSTANCE ReplicatedCheckpoints
              WITH sealed <- history, copied <- receiver_history,
                   confirmed <- Confirmed

(* Sealing appends to the source's history, every receiver's history grows *)
(* along it one epoch at a time, and no acknowledgement precedes its copy. *)
ImplementsReplication == Abstract!Spec

(* Every sealed checkpoint is eventually acknowledged by every destination *)
(* once RPCs stop failing: leases expire and the alarm retries the oldest. *)
EverySealAcknowledged ==
  \A k \in Keys : outbox[k] # Absent ~> outbox[k] = Acknowledged

(* "If the process stops before ACK, a Durable Object alarm retries the    *)
(* oldest entry after lease expiry": a row in flight is acknowledged in    *)
(* the end even when the source object stops.                              *)
RetriedAfterStop ==
  \A k \in Keys : outbox[k].state = "in_flight" ~> outbox[k] = Acknowledged

=============================================================================
