---------------------- MODULE CheckpointDeliveryProofs ----------------------
(***************************************************************************)
(* Theorems about CheckpointDelivery, for any number of destinations,      *)
(* epochs, handlers, failures and crashes.                                 *)
(***************************************************************************)
EXTENDS CheckpointLogProofs

-----------------------------------------------------------------------------
(* A handler moves to a state that is sealed already.                      *)
LEMMA MoveSlot ==
  ASSUME Inv, Grows, NEW h \in Slots, NEW x \in SlotStates, SlotSealed(x),
         slots' = [slots EXCEPT ![h] = x]
  PROVE  SlotsSealed' /\ slots' \in [Slots -> SlotStates]
BY ZenonT(60), SlotGrows, OneSlotStep

(* claimDeliveries() preserves the invariant.                              *)
LEMMA ClaimStep ==
  ASSUME Inv, NEW h \in Slots, Claim(h)
  PROVE  Inv'
<1>1. /\ outbox' = [k \in Keys |-> IF k \in FreshClaims \cup RetryClaims
                                   THEN InFlight(LeaseDuration) ELSE outbox[k]]
      /\ UNCHANGED <<provisioned, head, history, closures, alarm, receivers,
                     stray, failures, crashes>>
  BY DEF Claim, source
<1>2. Grows /\ SourceChain' /\ ReceiversFollow' /\ NoFalseFork'
  BY <1>1, LogUnchanged
<1>3. /\ FreshClaims \subseteq Keys /\ RetryClaims \subseteq Keys
      /\ \A k \in FreshClaims \cup RetryClaims : outbox[k] # Absent /\ Sealed(k)
  BY DEF FreshClaims, Unattempted, RetryClaims, OldestExpired, Expired, Absent,
         Inv, RowsSealed
<1>4. /\ Sending(FreshClaims, RetryClaims) \in SlotStates
      /\ SlotSealed(Sending(FreshClaims, RetryClaims))
      /\ Sending({}, {}) \in SlotStates /\ SlotSealed(Sending({}, {}))
  BY <1>3, SlotShapes DEF SlotSealed, Sending
<1>5. PICK x \in SlotStates :
        /\ x = IF slots[h].mode = "direct" THEN Sending(FreshClaims, RetryClaims)
                                           ELSE Sending({}, {})
        /\ SlotSealed(x)
  BY <1>4
<1>6. slots' = [slots EXCEPT ![h] = x]
  BY <1>5 DEF Claim
<1>7. SlotsSealed' /\ slots' \in [Slots -> SlotStates]
  BY ZenonT(60), <1>2, <1>5, <1>6, MoveSlot
<1>8. outbox' \in [Keys -> Rows]
  BY <1>1, BoundsAssumption DEF InFlight, Rows, Inv, TypeOK
<1>9. TypeOK'
  BY <1>1, <1>7, <1>8 DEF Inv, TypeOK, receivers
<1>10. RowsSealed'
  BY <1>1, <1>2, <1>3 DEF Inv, RowsSealed, Grows
<1>11. AckImpliesReceived'
  <2>1. \A k \in Keys : outbox'[k] = Acknowledged => outbox[k] = Acknowledged
    BY <1>1 DEF InFlight, Acknowledged
  <2>2. \A k \in Keys : outbox'[k] = Acknowledged => Received(k)'
    BY <1>2, <2>1 DEF Inv, AckImpliesReceived, Grows, Received, Sealed
  <2> QED
    BY <2>2 DEF AckImpliesReceived, Received, Sealed
<1> QED
  BY <1>1, <1>2, <1>7, <1>9, <1>10, <1>11, StrayKept DEF Inv

(* The claim a handler has come to was sealed.                             *)
LEMMA CurrentSealed ==
  ASSUME Inv, NEW h \in Slots, NEW k, Current(slots[h], k)
  PROVE  k \in Keys /\ Sealed(k)
<1>1. k \in slots[h].fresh \cup slots[h].retry
  BY DEF Current
<1>2. slots[h] \in SlotStates /\ SlotSealed(slots[h])
  BY DEF Inv, TypeOK, SlotsSealed
<1> QED
  BY <1>1, <1>2 DEF SlotSealed, SlotStates

(* What a received request leaves of the invariant.                        *)
LEMMA ReceiveKeeps ==
  ASSUME Inv, NEW k \in Keys, Sealed(k), Receive(k),
         UNCHANGED <<source, outbox>>
  PROVE  /\ Grows /\ SourceChain' /\ ReceiversFollow' /\ NoFalseFork'
         /\ RowsSealed' /\ AckImpliesReceived'
<1>1. /\ ReceiversFollow' /\ UNCHANGED receiver_forks
      /\ \A j \in Keys : Received(j) => Received(j)'
  BY ReceiveStep
<1>2. UNCHANGED <<head, history>>
  BY DEF source
<1>3. Grows
  BY <1>1, <1>2 DEF Grows, Sealed
<1>4. SourceChain'
  BY <1>2 DEF Inv, SourceChain, ParentDigest
<1>5. NoFalseFork'
  BY <1>1 DEF Inv, NoFalseFork
<1> QED
  BY <1>1, <1>3, <1>4, <1>5, RowsUnchanged

(* receive() of a request whose sender waits preserves the invariant.      *)
LEMMA RequestArrivesStep ==
  ASSUME Inv, NEW h \in Slots, NEW k \in Keys, RequestArrives(h, k)
  PROVE  Inv'
<1>1. /\ Current(slots[h], k) /\ Receive(k)
      /\ UNCHANGED <<source, outbox, alarm, stray, failures, crashes>>
  BY DEF RequestArrives
<1>2. Sealed(k)
  BY <1>1, CurrentSealed
<1>3. /\ Grows /\ SourceChain' /\ ReceiversFollow' /\ NoFalseFork'
      /\ RowsSealed' /\ AckImpliesReceived'
  BY <1>1, <1>2, ReceiveKeeps
<1>4. /\ receiver_head' \in [Destinations -> HeadRows \cup {None}]
      /\ receiver_history' \in [Destinations -> [Epochs -> Checkpoints \cup {None}]]
      /\ UNCHANGED receiver_forks
      /\ Successful(Decision(k)) => Received(k)'
  BY <1>1, <1>2, ReceiveStep
<1>5. Decision(k) \in Decisions
  BY <1>2, DecisionCases DEF Decisions
<1>6. slots[h] \in SlotStates /\ SlotSealed(slots[h])
  BY DEF Inv, TypeOK, SlotsSealed
<1>7. PICK old \in SlotStates : old = slots[h] /\ SlotSealed(old)
  BY <1>6
<1>8. PICK dec \in Decisions : dec = Decision(k)
  BY <1>5
<1>9. PICK x \in SlotStates : x = Replied(old, k, dec)
  BY ZenonT(60), <1>7, <1>8 DEF Replied, SlotStates, Replies
<1>10. slots' = [slots EXCEPT ![h] = x]
  BY <1>7, <1>8, <1>9 DEF RequestArrives
<1>11. SlotSealed(old)'
  BY <1>3, <1>7, SlotGrows
<1>12. SlotSealed(x)'
  <2>1. x.fresh = old.fresh /\ x.retry = old.retry
        /\ x.reply.job = k /\ x.reply.decision = dec
    BY <1>9 DEF Replied
  <2>2. Successful(dec) => Received(k)'
    BY <1>4, <1>8
  <2> QED
    BY <1>11, <2>1, <2>2 DEF SlotSealed, Successful
<1>13. SlotsSealed' /\ slots' \in [Slots -> SlotStates]
  BY ZenonT(60), <1>3, <1>10, <1>12, OneSlotStep
<1>14. TypeOK'
  BY <1>1, <1>4, <1>13 DEF Inv, TypeOK, source
<1> QED
  BY <1>1, <1>3, <1>13, <1>14, StrayKept DEF Inv

(* receive() of a request nobody waits for preserves the invariant.        *)
LEMMA StrayArrivesStep ==
  ASSUME Inv, NEW k \in Keys, StrayArrives(k)
  PROVE  Inv'
<1>1. /\ k \in stray /\ Receive(k) /\ stray' = stray \ {k}
      /\ UNCHANGED <<source, outbox, alarm, slots, failures, crashes>>
  BY DEF StrayArrives
<1>2. Sealed(k)
  BY <1>1 DEF Inv, StraySealed
<1>3. /\ Grows /\ SourceChain' /\ ReceiversFollow' /\ NoFalseFork'
      /\ RowsSealed' /\ AckImpliesReceived'
  BY <1>1, <1>2, ReceiveKeeps
<1>4. /\ receiver_head' \in [Destinations -> HeadRows \cup {None}]
      /\ receiver_history' \in [Destinations -> [Epochs -> Checkpoints \cup {None}]]
      /\ UNCHANGED receiver_forks
  BY <1>1, <1>2, ReceiveStep
<1>5. TypeOK'
  BY <1>1, <1>4 DEF Inv, TypeOK, source
<1>6. stray' \subseteq stray
  BY <1>1
<1> QED
  BY <1>1, <1>3, <1>5, <1>6, StrayKept, SlotsUnchanged DEF Inv

-----------------------------------------------------------------------------
(* acknowledgeDelivery() preserves the invariant: the answer it acts on    *)
(* was given after the copy was stored.                                    *)
LEMMA SettleStep ==
  ASSUME Inv, NEW h \in Slots, Settle(h)
  PROVE  Inv'
<1>1. UNCHANGED <<provisioned, head, history, closures, alarm, receivers, stray,
                  failures, crashes>>
  BY DEF Settle, source
<1>2. Grows /\ SourceChain' /\ ReceiversFollow' /\ NoFalseFork'
  BY <1>1, LogUnchanged
<1>3. PICK old \in SlotStates : old = slots[h] /\ SlotSealed(old)
  BY DEF Inv, TypeOK, SlotsSealed
<1>4. /\ old.reply # None /\ old.reply.job \in Keys
      /\ Successful(old.reply.decision) => Received(old.reply.job)
  BY <1>3 DEF Settle, SlotStates, Replies, SlotSealed
<1>5. PICK k \in Keys : k = old.reply.job
  BY <1>4
<1>6. /\ Without(old, k) \in SlotStates /\ SlotSealed(Without(old, k))
      /\ Starting("direct") \in SlotStates /\ SlotSealed(Starting("direct"))
  BY <1>3, WithoutSealed, SlotShapes, EmptySlotsSealed
<1>7. CASE Successful(old.reply.decision)
  <2>1. outbox' = [outbox EXCEPT ![k] = Acknowledged] /\ Received(k)
    BY <1>3, <1>4, <1>5, <1>7 DEF Settle
  <2>2. PICK x \in SlotStates :
          /\ x = IF old.state = "consuming" THEN Starting("direct")
                                            ELSE Without(old, k)
          /\ SlotSealed(x)
    BY <1>6
  <2>3. slots' = [slots EXCEPT ![h] = x]
    BY <1>3, <1>5, <1>7, <2>2 DEF Settle
  <2>4. SlotsSealed' /\ slots' \in [Slots -> SlotStates]
    BY ZenonT(60), <1>2, <2>2, <2>3, MoveSlot
  <2>5. outbox \in [Keys -> Rows] /\ Acknowledged \in Rows
    BY DEF Inv, TypeOK, Rows
  <2>6. TypeOK'
    BY <1>1, <2>1, <2>4, <2>5 DEF Inv, TypeOK, receivers
  <2>7. \A j \in Keys : outbox'[j] = IF j = k THEN Acknowledged ELSE outbox[j]
    BY <2>1, <2>5
  <2>8. RowsSealed'
    BY <1>2, <2>1, <2>7 DEF Inv, RowsSealed, Grows, Received
  <2>9. \A j \in Keys : outbox'[j] = Acknowledged => Received(j)'
    <3> SUFFICES ASSUME NEW j \in Keys, outbox'[j] = Acknowledged
                 PROVE  Received(j)
      BY <1>2 DEF Grows
    <3> QED
      BY <2>1, <2>7 DEF Inv, AckImpliesReceived, Received, Sealed
  <2>10. AckImpliesReceived'
    BY <2>9 DEF AckImpliesReceived, Received, Sealed
  <2> QED
    BY SMTT(60), <1>1, <1>2, <2>4, <2>6, <2>8, <2>10, StrayKept DEF Inv
<1>8. CASE ~Successful(old.reply.decision)
  <2>1. PICK x \in SlotStates : x = Without(old, k) /\ SlotSealed(x)
    BY <1>6
  <2>2. slots' = [slots EXCEPT ![h] = x] /\ UNCHANGED outbox
    BY <1>3, <1>5, <1>8, <2>1 DEF Settle
  <2>3. SlotsSealed' /\ slots' \in [Slots -> SlotStates]
    BY ZenonT(60), <1>2, <2>1, <2>2, MoveSlot
  <2>4. TypeOK'
    BY <1>1, <2>2, <2>3 DEF Inv, TypeOK, receivers
  <2> QED
    BY <1>1, <1>2, <2>2, <2>3, <2>4, RowsUnchanged, StrayKept DEF Inv
<1> QED
  BY SMTT(60), <1>7, <1>8

(* A failed RPC preserves the invariant.                                   *)
LEMMA RpcFailsStep ==
  ASSUME Inv, NEW h \in Slots, NEW k \in Keys, RpcFails(h, k)
  PROVE  Inv'
<1>1. /\ UNCHANGED <<provisioned, head, history, closures, outbox, alarm,
                     receivers, crashes>>
      /\ failures' \in 0..MaxFailures
      /\ Current(slots[h], k)
      /\ stray' \subseteq stray \cup {k}
  BY BoundsAssumption DEF RpcFails, source, Inv, TypeOK
<1>2. Grows /\ SourceChain' /\ ReceiversFollow' /\ NoFalseFork'
  BY <1>1, LogUnchanged
<1>3. Sealed(k)
  BY <1>1, CurrentSealed
<1>4. PICK old \in SlotStates : old = slots[h] /\ SlotSealed(old)
  BY DEF Inv, TypeOK, SlotsSealed
<1>5. PICK x \in SlotStates : x = Without(old, k) /\ SlotSealed(x)
  BY <1>4, WithoutSealed
<1>6. slots' = [slots EXCEPT ![h] = x]
  BY <1>4, <1>5 DEF RpcFails
<1>7. SlotsSealed' /\ slots' \in [Slots -> SlotStates]
  BY ZenonT(60), <1>2, <1>5, <1>6, MoveSlot
<1>8. StraySealed'
  BY <1>1, <1>2, <1>3 DEF StraySealed, Grows, Inv, TypeOK
<1>9. TypeOK'
  BY <1>1, <1>7 DEF Inv, TypeOK, receivers
<1> QED
  BY <1>1, <1>2, <1>7, <1>8, <1>9, RowsUnchanged DEF Inv

(* Leases and the alarm count down from at most LeaseDuration.             *)
LEMMA LeaseRange ==
  ASSUME Inv, NEW k \in Keys
  PROVE  outbox[k].lease \in 0..LeaseDuration
<1>1. outbox[k] \in Rows
  BY DEF Inv, TypeOK
<1> QED
  BY <1>1, BoundsAssumption DEF Rows, Absent, Pending, Acknowledged

(* Steps that move one handler to a fresh state and may set the alarm.     *)
LEMMA HandlerOnlyStep ==
  ASSUME Inv, NEW h \in Slots, NEW x \in SlotStates, SlotSealed(x),
         slots' = [slots EXCEPT ![h] = x],
         alarm' \in 0..LeaseDuration \cup {None},
         UNCHANGED <<source, outbox, receivers, stray, failures, crashes>>
  PROVE  Inv'
<1>1. UNCHANGED <<provisioned, head, history, closures>>
  BY DEF source
<1>2. Grows /\ SourceChain' /\ ReceiversFollow' /\ NoFalseFork'
  BY <1>1, LogUnchanged
<1>3. SlotsSealed' /\ slots' \in [Slots -> SlotStates]
  BY ZenonT(60), <1>2, MoveSlot
<1>4. TypeOK'
  BY <1>1, <1>3 DEF Inv, TypeOK, receivers
<1> QED
  BY <1>2, <1>3, <1>4, RowsUnchanged, StrayKept DEF Inv

(* The end of a dispatch preserves the invariant.                          *)
LEMMA FinishStep ==
  ASSUME Inv, NEW h \in Slots, Finish(h)
  PROVE  Inv'
<1>1. alarm' \in 0..LeaseDuration \cup {None}
  <2>1. CASE UNCHANGED alarm
    BY <2>1 DEF Inv, TypeOK
  <2>2. ASSUME NEW t \in RetryTimes, alarm' = alarm \/ alarm' = AtLeastOne(t)
        PROVE  alarm' \in 0..LeaseDuration \cup {None}
    <3>1. t \in 0..LeaseDuration
      BY <2>2, LeaseRange, BoundsAssumption DEF RetryTimes
    <3>2. AtLeastOne(t) \in 0..LeaseDuration
      BY <3>1, BoundsAssumption DEF AtLeastOne
    <3> QED
      BY <2>2, <3>2 DEF Inv, TypeOK
  <2> QED
    BY <2>1, <2>2 DEF Finish
<1>2. PICK x \in SlotStates : x = Idle /\ SlotSealed(x)
  BY SlotShapes, EmptySlotsSealed
<1> QED
  BY ZenonT(60), <1>1, <1>2, HandlerOnlyStep DEF Finish

(* The start of alarm() preserves the invariant.                           *)
LEMMA AlarmFiresStep ==
  ASSUME Inv, AlarmFires
  PROVE  Inv'
<1>1. PICK x \in SlotStates : x = Starting("direct") /\ SlotSealed(x)
  BY SlotShapes, EmptySlotsSealed
<1>2. Alarm \in Slots
  BY DEF Slots
<1> QED
  BY ZenonT(60), <1>1, <1>2, HandlerOnlyStep DEF AlarmFires

(* A delivery of the Queue preserves the invariant.                        *)
LEMMA QueueDeliversStep ==
  ASSUME Inv, NEW h \in Handlers, NEW k \in Keys, QueueDelivers(h, k)
  PROVE  Inv'
<1>1. PICK x \in SlotStates : x = Consuming(k)
  BY SlotShapes
<1>2. SlotSealed(x)
  BY <1>1 DEF SlotSealed, Consuming, QueueDelivers, Inv, RowsSealed
<1>3. h \in Slots
  BY DEF Slots
<1>4. alarm' \in 0..LeaseDuration \cup {None}
  BY DEF QueueDelivers, Inv, TypeOK
<1> QED
  BY ZenonT(60), <1>1, <1>2, <1>3, <1>4, HandlerOnlyStep DEF QueueDelivers

(* A stop of the source object preserves the invariant.                    *)
LEMMA SourceCrashesStep ==
  ASSUME Inv, SourceCrashes
  PROVE  Inv'
<1>1. /\ UNCHANGED <<provisioned, head, history, closures, outbox, receivers,
                     failures>>
      /\ crashes' \in 0..MaxCrashes
      /\ alarm' \in 0..LeaseDuration \cup {None}
      /\ slots' = [h \in Slots |-> IF Stopped(slots[h]) THEN Idle ELSE slots[h]]
  BY BoundsAssumption DEF SourceCrashes, source, Inv, TypeOK
<1>2. Grows /\ SourceChain' /\ ReceiversFollow' /\ NoFalseFork'
  BY <1>1, LogUnchanged
<1>3. \A k \in stray' : k \in Keys /\ Sealed(k)
  BY CurrentSealed DEF SourceCrashes, Inv, TypeOK, StraySealed
<1>4. slots' \in [Slots -> SlotStates]
  BY SMTT(60), <1>1, SlotShapes DEF Inv, TypeOK
<1>5. SlotsSealed'
  <2> SUFFICES ASSUME NEW g \in Slots PROVE SlotSealed(slots[g])'
    BY DEF SlotsSealed
  <2>1. PICK y \in SlotStates : y = slots'[g] /\ SlotSealed(y)
    BY <1>1, SlotShapes, EmptySlotsSealed DEF Inv, TypeOK, SlotsSealed
  <2>2. SlotSealed(y)'
    BY <1>2, <2>1, SlotGrows
  <2> QED
    BY <2>1, <2>2 DEF SlotSealed, Sealed, Received
<1>6. TypeOK'
  BY <1>1, <1>3, <1>4 DEF Inv, TypeOK, receivers
<1>7. StraySealed'
  BY SMTT(60), <1>2, <1>3 DEF StraySealed, Grows
<1> QED
  BY <1>1, <1>2, <1>5, <1>6, <1>7, RowsUnchanged DEF Inv

(* A row keeps its state while its lease runs down.                        *)
LEMMA TickRows ==
  ASSUME Inv, Tick
  PROVE  /\ outbox' \in [Keys -> Rows]
         /\ \A k \in Keys : /\ outbox'[k].state = outbox[k].state
                            /\ outbox'[k] = Absent <=> outbox[k] = Absent
                            /\ outbox'[k] = Acknowledged <=> outbox[k] = Acknowledged
<1>1. outbox' = [k \in Keys |-> [state |-> outbox[k].state,
                                 lease |-> Down(outbox[k].lease)]]
  BY DEF Tick
<1>2. ASSUME NEW k \in Keys
      PROVE  /\ outbox'[k] \in Rows
             /\ outbox'[k].state = outbox[k].state
             /\ outbox'[k] = Absent <=> outbox[k] = Absent
             /\ outbox'[k] = Acknowledged <=> outbox[k] = Acknowledged
  <2>1. outbox'[k] = [state |-> outbox[k].state, lease |-> Down(outbox[k].lease)]
    BY <1>1
  <2>2. outbox[k] \in Rows
    BY DEF Inv, TypeOK
  <2>3. CASE outbox[k] \in {Absent, Pending, Acknowledged}
    <3>1. outbox[k].lease = 0
          /\ outbox[k] = [state |-> outbox[k].state, lease |-> 0]
      BY <2>3 DEF Absent, Pending, Acknowledged
    <3>2. outbox'[k] = outbox[k]
      BY <2>1, <3>1 DEF Down
    <3> QED
      BY <2>2, <3>2
  <2>4. CASE outbox[k] \in [state : {"in_flight"}, lease : 0..LeaseDuration]
    <3>1. Down(outbox[k].lease) \in 0..LeaseDuration
      BY <2>4, BoundsAssumption DEF Down
    <3>2. outbox'[k] \in [state : {"in_flight"}, lease : 0..LeaseDuration]
      BY <2>1, <2>4, <3>1
    <3> QED
      BY <2>4, <3>2 DEF Rows, Absent, Acknowledged
  <2> QED
    BY <2>2, <2>3, <2>4 DEF Rows
<1> QED
  BY <1>1, <1>2

(* The passing of time preserves the invariant.                            *)
LEMMA TickStep ==
  ASSUME Inv, Tick
  PROVE  Inv'
<1>1. UNCHANGED <<provisioned, head, history, closures, slots, receivers, stray,
                  failures, crashes>>
  BY DEF Tick, source
<1>2. Grows /\ SourceChain' /\ ReceiversFollow' /\ NoFalseFork'
  BY <1>1, LogUnchanged
<1>3. alarm' \in 0..LeaseDuration \cup {None}
  BY BoundsAssumption DEF Tick, Down, Inv, TypeOK
<1>4. TypeOK'
  BY <1>1, <1>3, TickRows DEF Inv, TypeOK, receivers
<1>5. RowsSealed'
  BY <1>2, TickRows DEF Inv, RowsSealed, Grows
<1>6. \A k \in Keys : outbox'[k] = Acknowledged => Received(k)'
  <2> SUFFICES ASSUME NEW k \in Keys, outbox'[k] = Acknowledged
               PROVE  Received(k)
    BY <1>2 DEF Grows
  <2>1. outbox[k] = Acknowledged
    BY TickRows
  <2> QED
    BY <2>1 DEF Inv, AckImpliesReceived, Received, Sealed
<1>7. AckImpliesReceived'
  BY <1>6 DEF AckImpliesReceived, Received, Sealed
<1> QED
  BY <1>1, <1>2, <1>4, <1>5, <1>7, StrayKept, SlotsUnchanged DEF Inv

-----------------------------------------------------------------------------
(* A step that changes nothing preserves the invariant.                    *)
LEMMA StutterStep ==
  ASSUME Inv, UNCHANGED vars
  PROVE  Inv'
<1>1. UNCHANGED <<provisioned, head, history, closures, outbox, alarm, slots,
                  receivers, stray, failures, crashes>>
  BY DEF vars, source
<1>2. TypeOK'
  BY <1>1 DEF Inv, TypeOK, receivers
<1> QED
  BY <1>1, <1>2, LogUnchanged, RowsUnchanged, StrayKept, SlotsUnchanged DEF Inv

(* Every step preserves the invariant.                                     *)
LEMMA InvStep ==
  ASSUME Inv, [Next]_vars
  PROVE  Inv'
<1>1. CASE ControlStep
  BY <1>1, ConfigureStep, ConfigureReceiverStep, ControlRowsStep DEF ControlStep
<1>2. CASE \E h \in Handlers, c \in Checkpoints, mode \in {"direct", "deferred"} :
             SealCheckpoint(h, c, mode)
  BY <1>2, SealCheckpointStep
<1>3. CASE \E h \in Slots : HandlerStep(h)
  BY <1>3, ClaimStep, RequestArrivesStep, SettleStep, FinishStep DEF HandlerStep
<1>4. CASE \E h \in Slots, k \in Keys : RpcFails(h, k)
  BY <1>4, RpcFailsStep
<1>5. CASE \E h \in Handlers, k \in Keys : QueueDelivers(h, k)
  BY <1>5, QueueDeliversStep
<1>6. CASE \E k \in Keys : StrayArrives(k)
  BY <1>6, StrayArrivesStep
<1>7. CASE AlarmFires
  BY <1>7, AlarmFiresStep
<1>8. CASE SourceCrashes
  BY <1>8, SourceCrashesStep
<1>9. CASE Tick
  BY <1>9, TickStep
<1>10. CASE UNCHANGED vars
  BY <1>10, StutterStep
<1> QED
  BY <1>1, <1>2, <1>3, <1>4, <1>5, <1>6, <1>7, <1>8, <1>9, <1>10 DEF Next

(* The inductive invariant holds in every state delivery can reach: seals,  *)
(* claims, answers, stray requests, alarms and stops all preserve it.       *)
THEOREM InvAlways == Spec => []Inv
<1>1. Init => Inv
  BY InvInit
<1>2. Inv /\ [Next]_vars => Inv'
  BY InvStep
<1> QED
  BY <1>1, <1>2, PTL DEF Spec

(* Every table, handler and budget keeps its shape: no handler leaves a    *)
(* row, a lease or the alarm outside its domain.                           *)
THEOREM DeliveryTypeCorrect == Spec => []TypeOK
<1>1. Inv => TypeOK
  BY DEF Inv
<1> QED
  BY <1>1, InvAlways, PTL

(* acknowledgeDelivery() completes a row only when receive() has made the  *)
(* source's checkpoint durable at the destination.                         *)
THEOREM AckAlwaysReceived == Spec => []AckImpliesReceived
<1>1. Inv => AckImpliesReceived
  BY DEF Inv
<1> QED
  BY <1>1, InvAlways, PTL

(* No order of deliveries makes receive() record a fork of this source.    *)
THEOREM NeverFalseFork == Spec => []NoFalseFork
<1>1. Inv => NoFalseFork
  BY DEF Inv
<1> QED
  BY <1>1, InvAlways, PTL

-----------------------------------------------------------------------------
(* The outbox: only a seal adds rows, one for each destination.            *)
LEMMA KeysFinite ==
  /\ IsFiniteSet(Keys)
  /\ IsFiniteSet(Destinations) /\ Cardinality(Destinations) = DestinationCount
  /\ \A S \in SUBSET Keys : IsFiniteSet(S) /\ Cardinality(S) \in Nat
<1>1. IsFiniteSet(Destinations) /\ Cardinality(Destinations) = DestinationCount
  BY FS_Interval, BoundsAssumption DEF Destinations
<1>2. IsFiniteSet(Epochs)
  BY FS_Interval, BoundsAssumption DEF Epochs
<1>3. IsFiniteSet(Keys)
  BY <1>1, <1>2, FS_Product DEF Keys
<1>4. \A S \in SUBSET Keys : IsFiniteSet(S) /\ Cardinality(S) \in Nat
  BY <1>3, FS_Subset, FS_CardinalityType
<1> QED
  BY <1>1, <1>3, <1>4

(* A seal adds one active row per destination and no more.                 *)
LEMMA SealCardinality ==
  ASSUME NEW A \in SUBSET Keys, NEW B \in SUBSET Keys, NEW e \in Epochs,
         B \subseteq A \cup (Destinations \X {e}),
         DestinationCount <= OutboxCapacity - Cardinality(A)
  PROVE  Cardinality(B) <= OutboxCapacity
<1> DEFINE R == Destinations \X {e}
<1>1. IsFiniteSet({e}) /\ Cardinality({e}) = 1
  BY ZenonT(60), FS_Singleton
<1>2. Cardinality(R) = DestinationCount * 1 /\ R \in SUBSET Keys
  BY ZenonT(60), <1>1, KeysFinite, FS_Product DEF Keys
<1>3. /\ IsFiniteSet(A) /\ Cardinality(A) \in Nat
      /\ IsFiniteSet(R) /\ Cardinality(R) \in Nat
  BY <1>2, KeysFinite
<1>4. /\ IsFiniteSet(A \cup R)
      /\ Cardinality(A \cup R) = Cardinality(A) + Cardinality(R) - Cardinality(A \cap R)
  BY ZenonT(60), <1>3, FS_Union
<1>5. Cardinality(A \cap R) \in Nat
  BY KeysFinite
<1>6. Cardinality(B) <= Cardinality(A \cup R) /\ Cardinality(B) \in Nat
  BY <1>4, KeysFinite, FS_Subset
<1>7. Cardinality(A \cup R) \in Nat
  BY <1>4, FS_CardinalityType
<1> HIDE DEF R
<1> QED
  BY <1>2, <1>3, <1>4, <1>5, <1>6, <1>7, BoundsAssumption

(* Every step keeps the active rows within the capacity.                   *)
LEMMA OutboxStep ==
  ASSUME Inv, [Next]_vars, OutboxBounded
  PROVE  OutboxBounded'
<1>1. PICK A \in SUBSET Keys : A = ActiveOutbox
  BY ZenonT(60) DEF ActiveOutbox
<1>2. PICK B \in SUBSET Keys : B = ActiveOutbox'
  BY ZenonT(60) DEF ActiveOutbox
<1>3. CASE B \subseteq A
  <2>1. Cardinality(B) <= Cardinality(A) /\ Cardinality(A) \in Nat
        /\ Cardinality(B) \in Nat
    BY <1>3, KeysFinite, FS_Subset
  <2> QED
    BY <1>1, <1>2, <2>1, BoundsAssumption DEF OutboxBounded
<1>4. CASE \E c \in Checkpoints : SealAdvance(c)
  <2>1. PICK c \in Checkpoints : SealAdvance(c)
    BY <1>4
  <2>2. c.epoch \in Epochs
    BY CheckpointsAssumption
  <2>3. B \subseteq A \cup (Destinations \X {c.epoch})
    BY <1>1, <1>2, <2>1, <2>2 DEF SealAdvance, ActiveOutbox, Keys
  <2>4. DestinationCount <= OutboxCapacity - Cardinality(A)
    BY <1>1, <2>1 DEF SealAdvance, CapacityAvailable
  <2>5. Cardinality(B) <= OutboxCapacity
    BY <2>2, <2>3, <2>4, SealCardinality
  <2> QED
    BY <1>2, <2>5 DEF OutboxBounded
<1>5. CASE UNCHANGED outbox
  BY <1>1, <1>2, <1>3, <1>5 DEF ActiveOutbox
<1>6. CASE \E h \in Slots : Claim(h)
  <2>1. \A k \in Keys : outbox'[k] = outbox[k]
          \/ outbox[k].state \in {"pending", "in_flight"}
    <3>1. \A k \in FreshClaims \cup RetryClaims :
            outbox[k].state \in {"pending", "in_flight"}
      BY DEF FreshClaims, Unattempted, RetryClaims, OldestExpired, Expired
    <3> QED
      BY <1>6, <3>1 DEF Claim
  <2> QED
    BY <1>1, <1>2, <1>3, <2>1 DEF ActiveOutbox
<1>7. CASE \E h \in Slots : Settle(h)
  <2>1. PICK h \in Slots : Settle(h)
    BY <1>7
  <2>2. CASE UNCHANGED outbox
    BY <1>5, <2>2
  <2>3. CASE \E k : outbox' = [outbox EXCEPT ![k] = Acknowledged]
    <3>1. \A k \in Keys : outbox'[k] = outbox[k] \/ outbox'[k] = Acknowledged
      BY <2>3 DEF Inv, TypeOK
    <3> QED
      BY <1>1, <1>2, <1>3, <3>1 DEF ActiveOutbox, Acknowledged
  <2> QED
    BY <2>1, <2>2, <2>3 DEF Settle
<1>8. CASE Tick
  BY SMTT(60), <1>1, <1>2, <1>3, <1>8, TickRows DEF ActiveOutbox
<1>9. \/ UNCHANGED outbox
      \/ \E c \in Checkpoints : SealAdvance(c)
      \/ \E h \in Slots : Claim(h) \/ Settle(h)
      \/ Tick
  BY DEF Next, vars, ControlStep, Configure, ConfigureReceiver,
         MarkDestinationProvisioned, StoreClosure, SealCheckpoint, SealDuplicate,
         HandlerStep, RequestArrives, Finish, RpcFails, QueueDelivers,
         StrayArrives, AlarmFires, SourceCrashes
<1> QED
  BY <1>4, <1>5, <1>6, <1>7, <1>8, <1>9

(* activeOutboxCount() never exceeds outbox_capacity, because seal()       *)
(* counts the rows it is about to add.                                     *)
THEOREM OutboxAlwaysBounded == Spec => []OutboxBounded
<1>1. Init => OutboxBounded
  <2> SUFFICES ASSUME Init PROVE OutboxBounded
    OBVIOUS
  <2>1. ActiveOutbox = {}
    BY DEF Init, ActiveOutbox, Absent
  <2> QED
    BY <2>1, FS_EmptySet, BoundsAssumption DEF OutboxBounded
<1>2. Inv /\ OutboxBounded /\ [Next]_vars => OutboxBounded'
  BY OutboxStep
<1> QED
  BY <1>1, <1>2, InvAlways, PTL DEF Spec

-----------------------------------------------------------------------------
(* The refinement: each step of the stores is a step of the replicated log *)
(* or leaves it as it is.                                                  *)
LogVars == <<history, receiver_history, Confirmed>>

(* A seal appends to the abstract log or leaves it alone.                  *)
LEMMA SealRefines ==
  ASSUME Inv, configured, NEW c \in Checkpoints, SealAdvance(c),
         UNCHANGED receivers
  PROVE  Abstract!Next
<1>1. /\ c.epoch \in Epochs /\ history[c.epoch] = None
      /\ c.epoch = head.epoch + 1
      /\ history' = [history EXCEPT ![c.epoch] = c]
  BY CheckpointsAssumption DEF SealAdvance, ExtendsHead
<1>2. head # None /\ head.epoch \in Int
  <2>1. head # None /\ head \in HeadRows
    BY DEF Inv, TypeOK, configured
  <2> QED
    BY <2>1, BoundsAssumption DEF HeadRows
<1>3. \A f \in Epochs : f < c.epoch => history[f] # None
  BY <1>1, <1>2 DEF Inv, SourceChain, Epochs
<1>4. \A j \in Keys : outbox'[j] = Acknowledged <=> outbox[j] = Acknowledged
  <2>1. \A j \in Keys : j[2] = c.epoch => outbox[j] = Absent
    BY SealStep, ZenonT(40)
  <2>2. outbox' = [k \in Keys |-> IF k[2] = c.epoch THEN Pending ELSE outbox[k]]
    BY DEF SealAdvance
  <2>3. Pending # Acknowledged /\ Absent # Acknowledged
    BY DEF Pending, Absent, Acknowledged
  <2>4. ASSUME NEW j \in Keys
        PROVE  outbox'[j] = IF j[2] = c.epoch THEN Pending ELSE outbox[j]
    BY <2>2, Zenon
  <2> QED
    BY <2>1, <2>3, <2>4
<1>5. Confirmed' = Confirmed
  BY <1>4 DEF Confirmed
<1>6. Abstract!EndsBefore(history, c.epoch)
  BY <1>1, <1>3 DEF Abstract!EndsBefore, Abstract!Epochs, Epochs
<1>7. Abstract!Seal(c.epoch, c)
  BY <1>1, <1>5, <1>6 DEF Abstract!Seal, receivers
<1> QED
  BY <1>1, <1>7 DEF Abstract!Next, Abstract!Epochs, Epochs

(* A receipt copies the next epoch or changes no copy.                     *)
LEMMA ReceiveRefines ==
  ASSUME Inv, NEW k \in Keys, Sealed(k), Receive(k),
         UNCHANGED <<source, outbox>>
  PROVE  Abstract!Next \/ UNCHANGED LogVars
<1>1. history' = history /\ Confirmed' = Confirmed
  BY DEF source, Confirmed
<1>2. CASE Decision(k) # "accepted"
  BY <1>1, <1>2 DEF Receive, LogVars
<1>3. CASE Decision(k) = "accepted"
  <2>1. /\ k[1] \in Destinations /\ k[2] \in Epochs
        /\ receiver_history[k[1]][k[2]] = None
        /\ \A f \in Epochs : f < k[2] => receiver_history[k[1]][f] # None
    BY <1>3, DecisionCases, ZenonT(40)
  <2>2. Abstract!EndsBefore(receiver_history[k[1]], k[2])
    BY <2>1 DEF Abstract!EndsBefore, Abstract!Epochs, Epochs
  <2>3. receiver_history' = [receiver_history EXCEPT ![k[1]] =
          [receiver_history[k[1]] EXCEPT ![k[2]] = history[k[2]]]]
    BY <1>3 DEF Receive, Job
  <2>4. Abstract!Copy(k[1], k[2])
    BY <1>1, <2>2, <2>3 DEF Abstract!Copy, Sealed
  <2> QED
    BY <2>1, <2>4 DEF Abstract!Next, Abstract!Epochs, Epochs
<1> QED
  BY <1>2, <1>3

(* An acknowledgement confirms a copy that exists or changes nothing.      *)
LEMMA SettleRefines ==
  ASSUME Inv, NEW h \in Slots, Settle(h)
  PROVE  Abstract!Next \/ UNCHANGED LogVars
<1>1. UNCHANGED <<history, receiver_history>>
  BY DEF Settle, source, receivers
<1>2. /\ slots[h].reply # None /\ slots[h] \in SlotStates
      /\ SlotSealed(slots[h])
  BY DEF Settle, Inv, TypeOK, SlotsSealed
<1>3. PICK k \in Keys : k = slots[h].reply.job
  <2>1. slots[h].reply \in Replies
    BY SMTT(60), <1>2 DEF SlotStates
  <2> QED
    BY <2>1 DEF Replies
<1>4. CASE ~Successful(slots[h].reply.decision)
  BY <1>1, <1>4 DEF Settle, Confirmed, LogVars
<1>5. CASE Successful(slots[h].reply.decision)
  <2>1. outbox' = [outbox EXCEPT ![k] = Acknowledged]
    BY <1>3, <1>5 DEF Settle
  <2>2. Received(k)
    BY <1>2, <1>3, <1>5 DEF SlotSealed
  <2>3. /\ k[1] \in Destinations /\ k[2] \in Epochs /\ k = <<k[1], k[2]>>
        /\ receiver_history[k[1]][k[2]] # None
    BY <2>2 DEF Keys, Received, Sealed
  <2>4. \A j \in Keys : outbox'[j] = Acknowledged <=> j = k \/ outbox[j] = Acknowledged
    BY <2>1 DEF Inv, TypeOK
  <2>5. Confirmed' = Confirmed \cup {<<k[1], k[2]>>}
    BY <2>3, <2>4 DEF Confirmed
  <2>6. Abstract!Confirm(k[1], k[2])
    BY <1>1, <2>3, <2>5 DEF Abstract!Confirm
  <2> QED
    BY <2>3, <2>6 DEF Abstract!Next, Abstract!Epochs, Epochs
<1> QED
  BY <1>4, <1>5

(* Every step is a step of the abstract log or a stutter.                  *)
LEMMA NextRefines ==
  ASSUME Inv, [Next]_vars
  PROVE  Abstract!Next \/ UNCHANGED LogVars
<1>1. CASE UNCHANGED <<history, receiver_history, outbox>>
  BY <1>1 DEF LogVars, Confirmed
<1>2. CASE \E h \in Handlers, c \in Checkpoints, mode \in {"direct", "deferred"} :
             SealCheckpoint(h, c, mode)
  <2>1. PICK h \in Handlers, c \in Checkpoints, mode \in {"direct", "deferred"} :
          SealCheckpoint(h, c, mode)
    BY <1>2
  <2>2. CASE SealAdvance(c)
    BY SMTT(60), <2>1, <2>2, SealRefines DEF SealCheckpoint
  <2>3. CASE SealDuplicate(c)
    BY <2>1, <2>3, <1>1 DEF SealCheckpoint, SealDuplicate, receivers
  <2> QED
    BY <2>1, <2>2, <2>3 DEF SealCheckpoint
<1>3. CASE \E h \in Slots : Claim(h)
  <2>1. UNCHANGED <<history, receiver_history>>
    BY <1>3 DEF Claim, source, receivers
  <2>2. \A k \in Keys : outbox'[k] = Acknowledged <=> outbox[k] = Acknowledged
    <3>1. \A k \in FreshClaims \cup RetryClaims :
            outbox[k].state \in {"pending", "in_flight"}
      BY DEF FreshClaims, Unattempted, RetryClaims, OldestExpired, Expired
    <3>2. outbox' = [k \in Keys |-> IF k \in FreshClaims \cup RetryClaims
                                  THEN InFlight(LeaseDuration) ELSE outbox[k]]
      BY <1>3 DEF Claim
    <3> QED
      BY SMTT(60), <3>1, <3>2 DEF InFlight, Acknowledged
  <2> QED
    BY <2>1, <2>2 DEF Confirmed, LogVars
<1>4. CASE \E h \in Slots, k \in Keys : RequestArrives(h, k)
  BY <1>4, CurrentSealed, ReceiveRefines DEF RequestArrives
<1>5. CASE \E k \in Keys : StrayArrives(k)
  BY <1>5, ReceiveRefines DEF StrayArrives, Inv, StraySealed
<1>6. CASE \E h \in Slots : Settle(h)
  BY SMTT(60), <1>6, SettleRefines
<1>7. CASE Tick
  BY SMTT(60), <1>7, TickRows DEF Tick, source, receivers, Confirmed, LogVars
<1>8. \/ UNCHANGED <<history, receiver_history, outbox>>
      \/ \E h \in Handlers, c \in Checkpoints, mode \in {"direct", "deferred"} :
           SealCheckpoint(h, c, mode)
      \/ \E h \in Slots : Claim(h) \/ Settle(h)
      \/ \E h \in Slots, k \in Keys : RequestArrives(h, k)
      \/ \E k \in Keys : StrayArrives(k)
      \/ Tick
  BY ZenonT(60) DEF Next, vars, source, receivers, ControlStep, Configure, ConfigureReceiver,
         MarkDestinationProvisioned, StoreClosure, HandlerStep, Finish, RpcFails,
         QueueDelivers, AlarmFires, SourceCrashes
<1> QED
  BY <1>1, <1>2, <1>3, <1>4, <1>5, <1>6, <1>7, <1>8

(* The source's and the receivers' stores, with everything that is lost,   *)
(* repeated or late between them, implement the replicated log: seal() is  *)
(* Seal, an accepted receive() is Copy, acknowledgeDelivery() is Confirm.  *)
THEOREM DeliveryRefinesReplication == Spec => ImplementsReplication
<1>1. Init => Abstract!Init
  BY DEF Init, Confirmed, Absent, Acknowledged, Abstract!Init,
         Abstract!EmptyLog, Abstract!Epochs, Epochs
<1>2. Inv /\ [Next]_vars => [Abstract!Next]_<<history, receiver_history, Confirmed>>
  BY NextRefines DEF LogVars
<1> QED
  BY <1>1, <1>2, InvAlways, PTL DEF Spec, ImplementsReplication, Abstract!Spec

=============================================================================
