------------------------ MODULE CheckpointLogProofs -------------------------
(***************************************************************************)
(* The inductive invariant of CheckpointDelivery, and the steps that write *)
(* a log: a seal at the source, a delivery at a receiver.                  *)
(***************************************************************************)
EXTENDS CheckpointDelivery, FiniteSetTheorems, TLAPS

(* The digest a checkpoint of epoch e must name as its parent.             *)
ParentDigest(log, e) == IF e = 0 THEN InitialDigest ELSE log[e - 1].digest

(* The source's history is a chain that ends at its head.                  *)
SourceChain ==
  /\ head = None => \A e \in Epochs : history[e] = None
  /\ head # None =>
       /\ \A e \in Epochs : history[e] # None <=> e <= head.epoch
       /\ \A e \in Epochs : history[e] # None =>
            history[e].epoch = e /\ history[e].previous = ParentDigest(history, e)
       /\ head.digest = ParentDigest(history, head.epoch + 1)

(* Each receiver holds the source's history up to its own head.            *)
Follows(d) ==
  /\ receiver_head[d] = None =>
       \A e \in Epochs : receiver_history[d][e] = None
  /\ receiver_head[d] # None =>
       /\ head # None
       /\ receiver_head[d].epoch <= head.epoch
       /\ receiver_head[d].digest = ParentDigest(history, receiver_head[d].epoch + 1)
       /\ \A e \in Epochs :
            receiver_history[d][e] =
              IF e <= receiver_head[d].epoch THEN history[e] ELSE None

ReceiversFollow == \A d \in Destinations : Follows(d)

Sealed(k) == history[k[2]] # None

Received(k) == Sealed(k) /\ receiver_history[k[1]][k[2]] = history[k[2]]

(* Whatever is in the outbox, claimed or under way was sealed.             *)
RowsSealed == \A k \in Keys : outbox[k] # Absent => Sealed(k)

StraySealed == \A k \in stray : Sealed(k)

SlotSealed(slot) ==
  /\ \A k \in slot.fresh \cup slot.retry : Sealed(k)
  /\ slot.reply # None =>
       (Successful(slot.reply.decision) => Received(slot.reply.job))

SlotsSealed == \A h \in Slots : SlotSealed(slots[h])

Inv ==
  /\ TypeOK
  /\ SourceChain
  /\ ReceiversFollow
  /\ RowsSealed
  /\ StraySealed
  /\ SlotsSealed
  /\ AckImpliesReceived
  /\ NoFalseFork

-----------------------------------------------------------------------------
(* Before anything is configured the tables are empty and the invariant    *)
(* holds.                                                                  *)
LEMMA InvInit ==
  ASSUME Init
  PROVE  Inv
<1>1. TypeOK
  BY BoundsAssumption DEF Init, TypeOK, Rows, Absent, Idle, SlotStates
<1>2. SourceChain /\ ReceiversFollow
  BY DEF Init, SourceChain, ReceiversFollow, Follows
<1>3. RowsSealed /\ StraySealed /\ NoFalseFork
  BY DEF Init, RowsSealed, StraySealed, NoFalseFork
<1>4. SlotsSealed
  BY DEF Init, SlotsSealed, SlotSealed, Idle
<1>5. AckImpliesReceived
  BY DEF Init, AckImpliesReceived, Absent, Acknowledged
<1> QED
  BY <1>1, <1>2, <1>3, <1>4, <1>5 DEF Inv

(* How receive() judges a sealed job when the receiver follows the source. *)
LEMMA DecisionCases ==
  ASSUME Inv, NEW k \in Keys, Sealed(k)
  PROVE  LET d == k[1]
             e == k[2]
         IN /\ d \in Destinations /\ e \in Epochs
            /\ Job(k) \in Checkpoints
            /\ Decision(k) \in {"accepted", "duplicate", "gap", "not_configured"}
            /\ Decision(k) = "duplicate" => Received(k)
            /\ Decision(k) = "accepted" =>
                 /\ receiver_head[d] # None
                 /\ e = receiver_head[d].epoch + 1
                 /\ receiver_history[d][e] = None
                 /\ \A f \in Epochs : f < e => receiver_history[d][f] # None
<1> DEFINE d == k[1]
           e == k[2]
<1>1. d \in Destinations /\ e \in Epochs
  BY DEF Keys
<1>2. Job(k) \in Checkpoints
  BY <1>1 DEF Job, Sealed, Inv, TypeOK
<1>3. head # None
  BY <1>1 DEF Inv, SourceChain, Sealed
<1>4. /\ history[e].previous = ParentDigest(history, e)
      /\ e <= head.epoch
  BY <1>1, <1>3 DEF Inv, SourceChain, Sealed
<1>5. Follows(d)
  BY <1>1 DEF Inv, ReceiversFollow
<1>6. CASE receiver_head[d] = None
  BY <1>1, <1>2, <1>6 DEF Decision
<1>7. CASE receiver_head[d] # None
  <2>1. receiver_head[d].epoch \in -1..MaxEpoch
    BY <1>1, <1>7 DEF Inv, TypeOK, HeadRows
  <2>2. CASE e <= receiver_head[d].epoch
    <3>1. receiver_history[d][e] = history[e]
      BY <1>1, <1>5, <1>7, <2>2 DEF Follows
    <3>2. Decision(k) = "duplicate"
      BY <1>7, <3>1 DEF Decision, Job, Sealed
    <3> QED
      BY <1>1, <1>2, <3>1, <3>2 DEF Received
  <2>3. CASE e = receiver_head[d].epoch + 1
    <3>1. receiver_history[d][e] = None
      BY <1>1, <1>5, <1>7, <2>1, <2>3 DEF Follows, Epochs
    <3>2. history[e].previous = receiver_head[d].digest
      BY <1>4, <1>5, <1>7, <2>3 DEF Follows
    <3>3. Decision(k) = "accepted"
      BY <1>7, <2>3, <3>1, <3>2 DEF Decision, Job
    <3>4. \A f \in Epochs : f < e => receiver_history[d][f] # None
      <4> SUFFICES ASSUME NEW f \in Epochs, f < e
                   PROVE  receiver_history[d][f] # None
        OBVIOUS
      <4>1. f <= receiver_head[d].epoch /\ f <= head.epoch
        BY <1>1, <1>3, <1>4, <2>1, <2>3 DEF Epochs, Inv, TypeOK, HeadRows
      <4> QED
        BY <4>1, <1>3, <1>5, <1>7 DEF Follows, Inv, SourceChain
    <3> QED
      BY <1>1, <1>2, <1>7, <2>3, <3>1, <3>3, <3>4
  <2>4. CASE e > receiver_head[d].epoch + 1
    <3>1. receiver_history[d][e] = None
      BY <1>1, <1>5, <1>7, <2>1, <2>4 DEF Follows, Epochs
    <3>2. Decision(k) = "gap"
      BY <1>1, <1>7, <2>1, <2>4, <3>1 DEF Decision, Epochs
    <3> QED
      BY <1>1, <1>2, <3>2
  <2> QED
    BY <1>1, <2>1, <2>2, <2>3, <2>4 DEF Epochs
<1> QED
  BY <1>6, <1>7

-----------------------------------------------------------------------------
(* A sealed job changes a receiver only by the next checkpoint of the log. *)
LEMMA ReceiveStep ==
  ASSUME Inv, NEW k \in Keys, Sealed(k), Receive(k), UNCHANGED source
  PROVE  /\ receiver_head' \in [Destinations -> HeadRows \cup {None}]
         /\ receiver_history' \in
              [Destinations -> [Epochs -> Checkpoints \cup {None}]]
         /\ UNCHANGED receiver_forks
         /\ ReceiversFollow'
         /\ \A j \in Keys : Received(j) => Received(j)'
         /\ Successful(Decision(k)) => Received(k)'
<1> DEFINE d == k[1]
           e == k[2]
<1>1. /\ d \in Destinations /\ e \in Epochs
      /\ Job(k) \in Checkpoints
      /\ Decision(k) \in {"accepted", "duplicate", "gap", "not_configured"}
      /\ Decision(k) = "duplicate" => Received(k)
      /\ Decision(k) = "accepted" =>
           /\ receiver_head[d] # None
           /\ e = receiver_head[d].epoch + 1
           /\ receiver_history[d][e] = None
  BY DecisionCases
<1>2. UNCHANGED receiver_forks
  BY <1>1 DEF Receive
<1>3. UNCHANGED <<head, history>>
  BY DEF source
<1>4. CASE Decision(k) # "accepted"
  <2>1. UNCHANGED <<receiver_head, receiver_history>>
    BY <1>4 DEF Receive
  <2>2. ReceiversFollow'
    BY <1>3, <2>1 DEF Inv, ReceiversFollow, Follows, ParentDigest
  <2>3. \A j \in Keys : Received(j) => Received(j)'
    BY <1>3, <2>1 DEF Received, Sealed
  <2>4. Successful(Decision(k)) => Received(k)'
    BY <1>1, <1>4, <2>3 DEF Successful
  <2> QED
    BY <1>2, <2>1, <2>2, <2>3, <2>4 DEF Inv, TypeOK
<1>5. CASE Decision(k) = "accepted"
  <2>1. /\ receiver_history' =
             [receiver_history EXCEPT ![d] = [receiver_history[d] EXCEPT ![e] = Job(k)]]
        /\ receiver_head' = [receiver_head EXCEPT ![d] = Head(e, Job(k).digest)]
    BY <1>5 DEF Receive
  <2>2. /\ receiver_head \in [Destinations -> HeadRows \cup {None}]
        /\ receiver_history \in
             [Destinations -> [Epochs -> Checkpoints \cup {None}]]
    BY DEF Inv, TypeOK
  <2>3. Head(e, Job(k).digest) \in HeadRows
    BY <1>1, BoundsAssumption DEF Head, HeadRows, Digests, Epochs
  <2>4. receiver_head' \in [Destinations -> HeadRows \cup {None}]
    BY ZenonT(60), <2>1, <2>2, <2>3
  <2>5. receiver_history' \in
          [Destinations -> [Epochs -> Checkpoints \cup {None}]]
    BY <1>1, <2>1, <2>2
  <2>6. /\ receiver_head'[d] = Head(e, Job(k).digest)
        /\ \A f \in Epochs : receiver_history'[d][f] =
             IF f = e THEN history[e] ELSE receiver_history[d][f]
    BY <1>1, <2>1, <2>2 DEF Job
  <2>7. \A x \in Destinations : x # d =>
          /\ receiver_head'[x] = receiver_head[x]
          /\ receiver_history'[x] = receiver_history[x]
    BY <1>1, <2>1, <2>2
  <2>8. Follows(d)'
    <3>1. Follows(d) /\ receiver_head[d] # None /\ head # None
      BY <1>1, <1>5 DEF Inv, ReceiversFollow, Follows
    <3>2. e <= head.epoch
      BY <1>1, <3>1 DEF Inv, SourceChain, Sealed
    <3>3. receiver_head'[d].epoch = e /\ receiver_head'[d].digest = history[e].digest
      BY <2>6 DEF Head, Job
    <3>4. receiver_head'[d] # None
      BY <2>3, <2>6, NoneAssumption
    <3>5. receiver_head'[d].digest = ParentDigest(history, e + 1)
      BY <1>1, <3>3 DEF ParentDigest, Epochs
    <3>6. receiver_head[d].epoch \in Int /\ e = receiver_head[d].epoch + 1
      BY <1>1, <1>5, <3>1, <2>2, BoundsAssumption DEF HeadRows
    <3>7. \A f \in Epochs :
            receiver_history'[d][f] = IF f <= e THEN history[f] ELSE None
      <4> SUFFICES ASSUME NEW f \in Epochs
                   PROVE  receiver_history'[d][f] =
                            IF f <= e THEN history[f] ELSE None
        OBVIOUS
      <4>1. receiver_history[d][f] =
              IF f <= receiver_head[d].epoch THEN history[f] ELSE None
        BY <3>1 DEF Follows
      <4> QED
        BY <1>1, <2>6, <3>6, <4>1 DEF Epochs
    <3>8. UNCHANGED <<head, history>>
      BY <1>3
    <3> QED
      BY <3>1, <3>2, <3>3, <3>4, <3>5, <3>7, <3>8 DEF Follows, ParentDigest
  <2>9. ReceiversFollow'
    <3> SUFFICES ASSUME NEW x \in Destinations
                 PROVE  Follows(x)'
      BY DEF ReceiversFollow
    <3>1. CASE x = d
      BY <2>8, <3>1
    <3>2. CASE x # d
      BY <1>3, <2>7, <3>2 DEF Inv, ReceiversFollow, Follows, ParentDigest
    <3> QED
      BY <3>1, <3>2
  <2>10. \A j \in Keys : Received(j) => Received(j)'
    <3> SUFFICES ASSUME NEW j \in Keys, Received(j)
                 PROVE  Received(j)'
      OBVIOUS
    <3>1. j[1] \in Destinations /\ j[2] \in Epochs
      BY DEF Keys
    <3>2. receiver_history'[j[1]][j[2]] = history[j[2]]
      BY <2>6, <2>7, <3>1 DEF Received
    <3> QED
      BY <1>3, <3>2 DEF Received, Sealed
  <2>11. Received(k)'
    BY <1>1, <1>3, <2>6 DEF Received, Sealed
  <2> QED
    BY <1>2, <2>4, <2>5, <2>9, <2>10, <2>11
<1> QED
  BY <1>4, <1>5

(* seal() extends the log and takes nothing that was there away.           *)
LEMMA SealStep ==
  ASSUME Inv, NEW c \in Checkpoints, configured, SealAdvance(c),
         UNCHANGED receivers
  PROVE  /\ head' \in HeadRows
         /\ history' \in [Epochs -> Checkpoints \cup {None}]
         /\ SourceChain'
         /\ ReceiversFollow'
         /\ \A j \in Keys : Sealed(j) => Sealed(j)'
         /\ \A j \in Keys : Received(j) => Received(j)'
         /\ \A j \in Keys : j[2] = c.epoch => outbox[j] = Absent /\ Sealed(j)'
<1> DEFINE e == c.epoch
<1>1. /\ e \in Epochs /\ e \in Int /\ e >= 0
      /\ c # None
      /\ head' = Head(e, c.digest)
      /\ history' = [history EXCEPT ![e] = c]
      /\ history[e] = None
      /\ e = head.epoch + 1 /\ c.previous = head.digest
  BY CheckpointsAssumption, NoneAssumption
     DEF SealAdvance, ExtendsHead, Epochs
<1>2. /\ history \in [Epochs -> Checkpoints \cup {None}]
      /\ head \in HeadRows /\ head # None /\ head.epoch \in Int
  BY BoundsAssumption DEF Inv, TypeOK, configured, HeadRows
<1>3. head' \in HeadRows
  BY <1>1, BoundsAssumption DEF Head, HeadRows, Digests, Epochs
<1>4. history' \in [Epochs -> Checkpoints \cup {None}]
  BY <1>1, <1>2
<1>5. \A f \in Epochs : history'[f] = IF f = e THEN c ELSE history[f]
  BY <1>1, <1>2
<1>6. head'.epoch = e /\ head'.digest = c.digest /\ head' # None
  BY <1>1, <1>3, NoneAssumption DEF Head
<1>7. \A f \in 0..e : ParentDigest(history', f) = ParentDigest(history, f)
  <2> SUFFICES ASSUME NEW f \in 0..e, f # 0
               PROVE  history'[f - 1] = history[f - 1]
    BY DEF ParentDigest
  <2>1. f - 1 \in Epochs /\ f - 1 # e
    BY <1>1, BoundsAssumption DEF Epochs
  <2> QED
    BY <1>5, <2>1
<1>8. SourceChain'
  <2>1. \A f \in Epochs : history'[f] # None <=> f <= e
    BY <1>1, <1>2, <1>5 DEF Inv, SourceChain, Epochs
  <2>2. ASSUME NEW f \in Epochs, history'[f] # None
        PROVE  history'[f].epoch = f /\ history'[f].previous = ParentDigest(history', f)
    <3>1. f \in 0..e
      BY <1>1, <2>1, <2>2 DEF Epochs
    <3>2. CASE f = e
      <4>1. c.previous = ParentDigest(history, e)
        BY <1>1, <1>2 DEF Inv, SourceChain
      <4> QED
        BY <1>5, <1>7, <3>1, <3>2, <4>1
    <3>3. CASE f # e
      <4>1. history'[f] = history[f] /\ history[f] # None
        BY <1>5, <2>2, <3>3
      <4>2. history[f].epoch = f /\ history[f].previous = ParentDigest(history, f)
        BY <1>2, <4>1 DEF Inv, SourceChain
      <4> QED
        BY <1>7, <3>1, <4>1, <4>2
    <3> QED
      BY <3>2, <3>3
  <2>3. head'.digest = ParentDigest(history', e + 1)
    BY <1>1, <1>5, <1>6 DEF ParentDigest
  <2> QED
    BY <1>6, <2>1, <2>2, <2>3 DEF SourceChain, ParentDigest
<1>9. ReceiversFollow'
  <2> SUFFICES ASSUME NEW d \in Destinations
               PROVE  Follows(d)'
    BY DEF ReceiversFollow
  <2>1. UNCHANGED <<receiver_head, receiver_history>> /\ Follows(d)
    BY DEF receivers, Inv, ReceiversFollow
  <2>2. CASE receiver_head[d] = None
    BY <2>1, <2>2 DEF Follows
  <2>3. CASE receiver_head[d] # None
    <3>1. /\ receiver_head[d].epoch \in Int
          /\ receiver_head[d].epoch >= -1
          /\ receiver_head[d].epoch < e
      BY <1>1, <1>2, <2>1, <2>3, BoundsAssumption
         DEF Follows, Inv, TypeOK, HeadRows
    <3>2. ParentDigest(history', receiver_head[d].epoch + 1) =
            ParentDigest(history, receiver_head[d].epoch + 1)
      <4>1. receiver_head[d].epoch + 1 \in 0..e
        BY <1>1, <3>1
      <4> QED
        BY <1>7, <4>1
    <3>3. \A f \in Epochs : f <= receiver_head[d].epoch => history'[f] = history[f]
      BY <1>1, <1>5, <3>1 DEF Epochs
    <3> QED
      BY <1>1, <1>6, <2>1, <2>3, <3>1, <3>2, <3>3 DEF Follows, ParentDigest
  <2> QED
    BY <2>2, <2>3
<1>10. \A j \in Keys : Sealed(j) => Sealed(j)'
  BY <1>1, <1>5 DEF Sealed, Keys
<1>11. \A j \in Keys : Received(j) => Received(j)'
  BY <1>1, <1>5, <1>10 DEF Received, Sealed, Keys, receivers
<1>12. \A j \in Keys : j[2] = e => outbox[j] = Absent /\ Sealed(j)'
  BY <1>1, <1>5 DEF Sealed, Keys, Inv, RowsSealed
<1> QED
  BY <1>3, <1>4, <1>8, <1>9, <1>10, <1>11, <1>12

-----------------------------------------------------------------------------
(* What was sealed or received stays so.                                   *)
Grows ==
  /\ \A j \in Keys : Sealed(j) => Sealed(j)'
  /\ \A j \in Keys : Received(j) => Received(j)'

(* What a handler carries stays sealed when histories only grow.           *)
LEMMA SlotGrows ==
  ASSUME Grows, NEW slot \in SlotStates, SlotSealed(slot)
  PROVE  SlotSealed(slot)'
BY DEF Grows, SlotSealed, SlotStates, Replies

(* A step that moves one handler to a sealed state keeps all of them so.   *)
LEMMA OneSlotStep ==
  ASSUME Inv, Grows, NEW h \in Slots, NEW x \in SlotStates,
         slots' = [slots EXCEPT ![h] = x], SlotSealed(x)'
  PROVE  SlotsSealed' /\ slots' \in [Slots -> SlotStates]
<1>1. slots \in [Slots -> SlotStates]
  BY DEF Inv, TypeOK
<1>2. ASSUME NEW g \in Slots PROVE SlotSealed(slots[g])'
  <2>1. CASE g = h
    <3>1. slots'[g] = x
      BY SMTT(60), <1>1, <2>1
    <3> QED
      BY <3>1 DEF SlotSealed, Sealed, Received
  <2>2. CASE g # h
    <3>1. slots'[g] = slots[g] /\ slots[g] \in SlotStates
      BY <1>1, <2>2
    <3>2. PICK y \in SlotStates : y = slots[g]
      BY <3>1
    <3>3. SlotSealed(y)
      BY <3>2 DEF Inv, SlotsSealed
    <3>4. SlotSealed(y)'
      BY <3>3, SlotGrows
    <3> QED
      BY <3>1, <3>2, <3>4 DEF SlotSealed, Sealed, Received
  <2> QED
    BY SMTT(60), <2>1, <2>2
<1>3. slots' \in [Slots -> SlotStates]
  BY <1>1
<1> QED
  BY <1>2, <1>3 DEF SlotsSealed

(* The constructors of handler states yield handler states.                *)
LEMMA SlotShapes ==
  /\ Idle \in SlotStates
  /\ \A mode \in {"direct", "deferred"} : Starting(mode) \in SlotStates
  /\ \A F, R \in SUBSET Keys : Sending(F, R) \in SlotStates
  /\ \A k \in Keys : Consuming(k) \in SlotStates
BY DEF Idle, Starting, Sending, Consuming, SlotStates

(* A handler that carries no job refers to no row.                         *)
LEMMA EmptySlotsSealed ==
  /\ SlotSealed(Idle)
  /\ \A mode : SlotSealed(Starting(mode))
BY DEF SlotSealed, Idle, Starting

(* A slot without one of its claims.                                       *)
LEMMA WithoutSealed ==
  ASSUME NEW slot \in SlotStates, NEW k \in Keys, SlotSealed(slot)
  PROVE  Without(slot, k) \in SlotStates /\ SlotSealed(Without(slot, k))
<1>1. CASE slot.state = "consuming"
  BY <1>1, SlotShapes, EmptySlotsSealed DEF Without
<1>2. CASE slot.state # "consuming"
  <2>1. Without(slot, k) = Sending(slot.fresh \ {k}, slot.retry \ {k})
    BY <1>2 DEF Without
  <2>2. slot.fresh \ {k} \in SUBSET Keys /\ slot.retry \ {k} \in SUBSET Keys
    BY DEF SlotStates
  <2>3. SlotSealed(Sending(slot.fresh \ {k}, slot.retry \ {k}))
    BY DEF SlotSealed, Sending
  <2> QED
    BY <2>1, <2>2, <2>3, SlotShapes
<1> QED
  BY <1>1, <1>2

-----------------------------------------------------------------------------
(* What a step keeps of the invariant by leaving variables alone.          *)
LEMMA LogUnchanged ==
  ASSUME Inv, UNCHANGED <<head, history, receivers>>
  PROVE  Grows /\ SourceChain' /\ ReceiversFollow' /\ NoFalseFork'
<1>1. UNCHANGED <<receiver_head, receiver_history, receiver_forks>>
  BY DEF receivers
<1>2. Grows
  BY <1>1 DEF Grows, Sealed, Received
<1>3. SourceChain'
  BY DEF Inv, SourceChain, ParentDigest
<1>4. ReceiversFollow'
  BY <1>1 DEF Inv, ReceiversFollow, Follows, ParentDigest
<1> QED
  BY <1>1, <1>2, <1>3, <1>4 DEF Inv, NoFalseFork

(* A step that leaves the outbox alone keeps every row sealed.             *)
LEMMA RowsUnchanged ==
  ASSUME Inv, Grows, UNCHANGED outbox
  PROVE  RowsSealed' /\ AckImpliesReceived'
<1>1. RowsSealed'
  BY DEF Inv, RowsSealed, Grows
<1>2. \A k \in Keys : outbox[k] = Acknowledged => Received(k)'
  BY DEF Inv, AckImpliesReceived, Grows, Received, Sealed
<1> QED
  BY <1>1, <1>2 DEF AckImpliesReceived, Received, Sealed

(* Requests on their way stay sealed when histories only grow.             *)
LEMMA StrayKept ==
  ASSUME Inv, Grows, stray' \subseteq stray
  PROVE  StraySealed'
BY SMTT(60) DEF Inv, TypeOK, StraySealed, Grows

(* A step that leaves the handlers alone keeps their jobs sealed.          *)
LEMMA SlotsUnchanged ==
  ASSUME Inv, Grows, UNCHANGED slots
  PROVE  SlotsSealed'
<1> SUFFICES ASSUME NEW g \in Slots PROVE SlotSealed(slots[g])'
  BY DEF SlotsSealed
<1>1. PICK y \in SlotStates : y = slots[g]
  BY DEF Inv, TypeOK
<1>2. SlotSealed(y)'
  BY <1>1, SlotGrows DEF Inv, SlotsSealed
<1> QED
  BY <1>1, <1>2 DEF SlotSealed, Sealed, Received

-----------------------------------------------------------------------------
(* configure() of the source preserves the invariant.                      *)
LEMMA ConfigureStep ==
  ASSUME Inv, Configure
  PROVE  Inv'
<1>1. /\ head = None
      /\ head' = Head(-1, InitialDigest)
      /\ UNCHANGED <<provisioned, history, closures, outbox, alarm, slots,
                     receivers, stray, failures, crashes>>
  BY DEF Configure, configured
<1>2. head' \in HeadRows /\ head'.epoch = -1 /\ head'.digest = InitialDigest
  BY <1>1, BoundsAssumption DEF Head, HeadRows, Digests
<1>3. head' # None
  BY <1>2, NoneAssumption
<1>4. TypeOK'
  BY <1>1, <1>2 DEF Inv, TypeOK, receivers
<1>5. SourceChain'
  <2>1. \A e \in Epochs : history[e] = None /\ ~(e <= -1)
    BY <1>1, BoundsAssumption DEF Inv, SourceChain, Epochs
  <2> QED
    BY <1>1, <1>2, <1>3, <2>1 DEF SourceChain, ParentDigest
<1>6. ReceiversFollow'
  BY <1>1 DEF Inv, ReceiversFollow, Follows, receivers
<1>7. Grows
  BY <1>1 DEF Grows, Sealed, Received, receivers
<1>8. NoFalseFork'
  BY <1>1 DEF Inv, NoFalseFork, receivers
<1> QED
  BY <1>1, <1>4, <1>5, <1>6, <1>7, <1>8, RowsUnchanged, StrayKept,
     SlotsUnchanged DEF Inv

(* configure() of a receiver preserves the invariant.                      *)
LEMMA ConfigureReceiverStep ==
  ASSUME Inv, NEW d \in Destinations, ConfigureReceiver(d)
  PROVE  Inv'
<1>1. /\ head # None
      /\ receiver_head[d] = None
      /\ receiver_head' = [receiver_head EXCEPT ![d] = Head(-1, InitialDigest)]
      /\ UNCHANGED <<provisioned, head, history, closures, outbox, alarm, slots,
                     receiver_history, receiver_forks, stray, failures, crashes>>
  BY DEF ConfigureReceiver, configured, source
<1>2. /\ Head(-1, InitialDigest) \in HeadRows
      /\ Head(-1, InitialDigest).epoch = -1
      /\ Head(-1, InitialDigest).digest = InitialDigest
  BY BoundsAssumption DEF Head, HeadRows, Digests
<1>3. TypeOK'
  BY <1>1, <1>2 DEF Inv, TypeOK
<1>4. SourceChain'
  BY <1>1 DEF Inv, SourceChain, ParentDigest
<1>5. ReceiversFollow'
  <2> SUFFICES ASSUME NEW x \in Destinations PROVE Follows(x)'
    BY DEF ReceiversFollow
  <2>1. receiver_head \in [Destinations -> HeadRows \cup {None}]
    BY DEF Inv, TypeOK
  <2>2. CASE x # d
    <3>1. receiver_head'[x] = receiver_head[x]
      BY <1>1, <2>1, <2>2
    <3> QED
      BY <1>1, <3>1 DEF Inv, ReceiversFollow, Follows, ParentDigest
  <2>3. CASE x = d
    <3>1. receiver_head'[x] = Head(-1, InitialDigest)
      BY <1>1, <2>1, <2>3
    <3>2. head.epoch \in -1..MaxEpoch
      BY <1>1 DEF Inv, TypeOK, HeadRows
    <3>3. \A e \in Epochs : receiver_history[x][e] = None /\ ~(e <= -1)
      BY <1>1, <2>3, BoundsAssumption DEF Inv, ReceiversFollow, Follows, Epochs
    <3>4. -1 <= head.epoch /\ receiver_head'[x] # None
      BY <1>2, <3>1, <3>2, NoneAssumption, BoundsAssumption
    <3> QED
      BY <1>1, <1>2, <3>1, <3>3, <3>4 DEF Follows, ParentDigest
  <2> QED
    BY <2>2, <2>3
<1>6. Grows
  BY <1>1 DEF Grows, Sealed, Received
<1>7. NoFalseFork'
  BY <1>1 DEF Inv, NoFalseFork
<1> QED
  BY <1>1, <1>3, <1>4, <1>5, <1>6, <1>7, RowsUnchanged, StrayKept,
     SlotsUnchanged DEF Inv

(* Steps of the control plane that touch no log.                           *)
LEMMA ControlRowsStep ==
  ASSUME Inv,
         \/ \E d \in Destinations : MarkDestinationProvisioned(d)
         \/ \E e \in Epochs : StoreClosure(e)
  PROVE  Inv'
<1>1. /\ UNCHANGED <<head, history, outbox, alarm, slots, receivers, stray,
                     failures, crashes>>
      /\ provisioned' \subseteq Destinations
      /\ closures' \in [Epochs -> {"none", "ready", "consumed"}]
  BY DEF MarkDestinationProvisioned, StoreClosure, Inv, TypeOK
<1>2. TypeOK'
  BY <1>1 DEF Inv, TypeOK, receivers
<1> QED
  BY <1>1, <1>2, LogUnchanged, RowsUnchanged, StrayKept, SlotsUnchanged DEF Inv

(* A committed or repeated seal preserves the invariant.                   *)
LEMMA SealCheckpointStep ==
  ASSUME Inv, NEW h \in Handlers, NEW c \in Checkpoints,
         NEW mode \in {"direct", "deferred"}, SealCheckpoint(h, c, mode)
  PROVE  Inv'
<1>1. /\ configured
      /\ slots' = [slots EXCEPT ![h] = Starting(mode)]
      /\ UNCHANGED <<provisioned, alarm, receivers, stray, crashes>>
      /\ h \in Slots
  BY DEF SealCheckpoint, Slots
<1>2. failures' \in 0..MaxFailures
  BY SMTT(60), BoundsAssumption DEF SealCheckpoint, Inv, TypeOK
<1>3. Starting(mode) \in SlotStates /\ SlotSealed(Starting(mode))'
  BY ZenonT(60), SlotShapes, EmptySlotsSealed DEF SlotSealed, Starting
<1>4. CASE SealAdvance(c)
  <2>1. /\ head' \in HeadRows
        /\ history' \in [Epochs -> Checkpoints \cup {None}]
        /\ SourceChain' /\ ReceiversFollow' /\ Grows
        /\ \A j \in Keys : j[2] = c.epoch => outbox[j] = Absent /\ Sealed(j)'
    BY <1>1, <1>4, SealStep DEF Grows
  <2>2. /\ outbox' = [k \in Keys |-> IF k[2] = c.epoch THEN Pending ELSE outbox[k]]
        /\ closures' = [closures EXCEPT ![c.epoch] = "consumed"]
    BY SMTT(60), <1>4 DEF SealAdvance
  <2>3. TypeOK'
    <3>1. outbox' \in [Keys -> Rows]
      BY <2>2 DEF Rows, Inv, TypeOK
    <3>2. slots' \in [Slots -> SlotStates]
      BY ZenonT(60), <1>1, <1>3, <2>1, OneSlotStep
    <3> QED
      BY ZenonT(60), <1>1, <1>2, <2>1, <2>2, <3>1, <3>2 DEF Inv, TypeOK, receivers
  <2>4. SlotsSealed'
    BY ZenonT(60), <1>1, <1>3, <2>1, OneSlotStep
  <2>5. RowsSealed' /\ AckImpliesReceived'
    <3>1. \A k \in Keys : outbox'[k] # Absent => Sealed(k)'
      BY <2>1, <2>2 DEF Inv, RowsSealed, Grows
    <3>2. \A k \in Keys : outbox'[k] = Acknowledged => outbox[k] = Acknowledged
      BY SMTT(60), <2>2 DEF Pending, Acknowledged
    <3>3. \A k \in Keys : outbox'[k] = Acknowledged => Received(k)'
      BY <2>1, <3>2 DEF Inv, AckImpliesReceived, Grows, Received, Sealed
    <3> QED
      BY <3>1, <3>3 DEF RowsSealed, AckImpliesReceived, Received, Sealed
  <2>6. NoFalseFork'
    BY <1>1 DEF Inv, NoFalseFork, receivers
  <2> QED
    BY SMTT(60), <1>1, <2>1, <2>3, <2>4, <2>5, <2>6, StrayKept DEF Inv
<1>5. CASE SealDuplicate(c)
  <2>1. UNCHANGED <<head, history, closures, outbox>>
    BY <1>5 DEF SealDuplicate
  <2>2. Grows /\ SourceChain' /\ ReceiversFollow' /\ NoFalseFork'
    BY <1>1, <2>1, LogUnchanged
  <2>3. SlotsSealed' /\ slots' \in [Slots -> SlotStates]
    BY ZenonT(60), <1>1, <1>3, <2>2, OneSlotStep
  <2>4. TypeOK'
    BY <1>1, <1>2, <2>1, <2>3 DEF Inv, TypeOK, receivers
  <2> QED
    BY <1>1, <2>1, <2>2, <2>3, <2>4, RowsUnchanged, StrayKept DEF Inv
<1> QED
  BY <1>4, <1>5 DEF SealCheckpoint
=============================================================================
