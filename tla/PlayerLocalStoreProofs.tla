----------------------- MODULE PlayerLocalStoreProofs -----------------------
(***************************************************************************)
(* Theorems about PlayerLocalStore, for every value of its constants: the  *)
(* rows always form a valid image.                                         *)
(***************************************************************************)
EXTENDS PlayerLocalStoreTypes

-----------------------------------------------------------------------------
(* Events: a prune keeps both sides of an equivocation.                    *)
LEMMA PruneKeepsEquivocations ==
  ASSUME Inv, NEW c \in checkpoints, NEW r, NEW P, Pruned(c, r, P)
  PROVE  /\ \A q \in equivocations : q.epoch > c.epoch
         /\ \A e \in events :
              (\E q \in equivocations : SameSlot(e, q)) => e.epoch > c.epoch
<1>1. ASSUME NEW n \in Nat, n > retention_anchor.epoch, n \in EquivocationEpochs
      PROVE  n > c.epoch
  <2> SUFFICES ASSUME n <= c.epoch PROVE FALSE
    BY InputAssumption DEF Inv, TypeInv, TypeOK, Epochs
  <2>1. c.epoch \in (retention_anchor.epoch + 1)..head.epoch
    BY DEF Inv, ImageValid, ChainValid
  <2>2. n \in (retention_anchor.epoch + 1)..head.epoch
    BY <1>1, <2>1 DEF Inv, TypeInv, TypeOK, Anchors
  <2>3. PICK d \in checkpoints : d.epoch = n
    BY <2>2 DEF Inv, ImageValid, ChainValid
  <2>4. Prunable(d, r, P)
    BY <2>3 DEF Pruned
  <2> QED
    BY <1>1, <2>3, <2>4 DEF Prunable, UnresolvedEpochs
<1>2. \A q \in equivocations :
        /\ q.epoch \in Nat /\ q.epoch > retention_anchor.epoch
        /\ q.epoch \in EquivocationEpochs
  BY InputAssumption DEF Inv, TypeInv, TypeOK, ImageValid, EventsValid, Epochs,
     EquivocationEpochs
<1>3. \A e \in events :
        /\ e.epoch \in Nat /\ e.epoch > retention_anchor.epoch
        /\ (\E q \in equivocations : SameSlot(e, q)) =>
             e.epoch \in EquivocationEpochs
  BY InputAssumption DEF Inv, TypeInv, TypeOK, ImageValid, EventsValid, Epochs,
     EquivocationEpochs
<1> QED
  BY <1>1, <1>2, <1>3

(* Every step keeps the relation of events and equivocations.              *)
LEMMA EventsStep ==
  ASSUME Inv, [Next]_vars
  PROVE  EventsValid'
<1>0. EventsValid
  BY DEF Inv, ImageValid
<1>1. ASSUME NEW e \in Events, AdmitEvent(e)
      PROVE  EventsValid'
  <2>1. e.epoch > retention_anchor.epoch /\ retention_anchor' = retention_anchor
    BY <1>1 DEF AdmitEvent
  <2>2. CASE StoreEvent(e)
    <3>1. /\ events' = events \cup {e} /\ equivocations' = equivocations
          /\ \A f \in events : ~SameSlot(e, f)
      BY <2>2 DEF StoreEvent
    <3> QED
      BY <1>0, <2>1, <3>1 DEF EventsValid, SameSlot
  <2>3. CASE StoreEquivocation(e)
    <3>1. /\ equivocations' = equivocations \cup {e} /\ events' = events
          /\ \E f \in events : SameSlot(e, f) /\ f.digest # e.digest
          /\ \A q \in equivocations : SameSlot(e, q) => q.digest # e.digest
      BY <2>3 DEF StoreEquivocation
    <3> QED
      BY <1>0, <2>1, <3>1 DEF EventsValid, SameSlot
  <2> QED
    BY <1>1, <2>2, <2>3 DEF AdmitEvent
<1>2. ASSUME NEW c \in checkpoints, NEW r, NEW P, Pruned(c, r, P)
      PROVE  EventsValid'
  <2>1. /\ events' = {e \in events : e.epoch > c.epoch}
        /\ equivocations' = {e \in equivocations : e.epoch > c.epoch}
        /\ retention_anchor'.epoch = c.epoch
    BY <1>2 DEF Pruned, ApplyPrune, Retained
  <2>2. \A e \in events :
          (\E q \in equivocations : SameSlot(e, q)) => e.epoch > c.epoch
    BY <1>2, PruneKeepsEquivocations
  <2> QED
    BY <1>0, <2>1, <2>2 DEF EventsValid
<1>3. CASE UNCHANGED <<events, equivocations, retention_anchor>>
  BY <1>0, <1>3 DEF EventsValid
<1> QED
  BY ZenonT(60), <1>1, <1>2, <1>3, StepCases DEF Sealed, ApplyEvidenceInbox, ClaimOutbox,
     ReleaseOutbox, AcknowledgeOutbox, PlaceEvidenceHold, ResolveEvidenceHold,
     TablesUnchanged, eventVars

-----------------------------------------------------------------------------
(* The chain from the anchor to the head.                                  *)
LEMMA ChainStep ==
  ASSUME Inv, [Next]_vars
  PROVE  ChainValid'
<1>0. ChainValid
  BY DEF Inv, ImageValid
<1>t. /\ head \in Anchors /\ retention_anchor \in Anchors
      /\ \A c \in checkpoints : /\ c.epoch \in Nat /\ c.digest \in Digests
                                /\ c.previous \in Digests
  BY InputAssumption DEF Inv, TypeInv, TypeOK, Epochs
<1>1. ASSUME NEW w \in Writers, Sealed(pending[w])
      PROVE  ChainValid'
  <2>0. PICK c \in Drafts : c = pending[w].checkpoint
    BY <1>1 DEF Sealed, SealWriteSets
  <2>1. /\ c.epoch = head.epoch + 1
        /\ c.previous = head.digest
        /\ checkpoints' = checkpoints \cup {c}
        /\ head' = [epoch |-> c.epoch, digest |-> c.digest]
        /\ consumed_closures' = consumed_closures \cup {c.epoch}
        /\ retention_anchor' = retention_anchor
    BY <1>1, <2>0 DEF Sealed, ApplySeal
  <2>2. c.epoch \in Nat
    BY InputAssumption DEF Epochs
  <2>3. \A d \in checkpoints : d.epoch # c.epoch
    BY <1>0, <1>t, <2>1 DEF ChainValid, Anchors
  <2>4. /\ retention_anchor'.epoch \in -1..head'.epoch
        /\ retention_anchor'.epoch = -1 => retention_anchor'.digest = Genesis
    BY <1>0, <1>t, <2>1, <2>2 DEF ChainValid, Anchors
  <2>5. {d.epoch : d \in checkpoints'} =
          (retention_anchor'.epoch + 1)..head'.epoch
    <3>1. {d.epoch : d \in checkpoints'} =
            {d.epoch : d \in checkpoints} \cup {c.epoch}
      BY <2>1
    <3>2. (retention_anchor.epoch + 1)..c.epoch =
            ((retention_anchor.epoch + 1)..head.epoch) \cup {c.epoch}
      BY <1>0, <1>t, <2>1, <2>2 DEF ChainValid, Anchors
    <3> QED
      BY <1>0, <2>1, <3>1, <3>2 DEF ChainValid
  <2>6. \A d, e \in checkpoints' : d.epoch = e.epoch => d = e
    BY <1>0, <2>1, <2>3 DEF ChainValid
  <2>7. \A d \in checkpoints' : LinkedToParent(d)'
    <3>1. \A d \in checkpoints : LinkedToParent(d)'
      BY <1>0, <2>1 DEF ChainValid, LinkedToParent
    <3>2. LinkedToParent(c)'
      <4>1. \E p \in checkpoints \cup {retention_anchor} :
              p.epoch = head.epoch /\ p.digest = head.digest
        BY <1>0 DEF ChainValid, CheckpointAt
      <4>2. c.epoch - 1 = head.epoch
        BY <1>t, <2>1 DEF Anchors
      <4> QED
        BY <2>1, <4>1, <4>2 DEF LinkedToParent
    <3> QED
      BY <2>1, <3>1, <3>2
  <2>8. CheckpointAt(head.epoch, head.digest)'
    BY <2>1 DEF CheckpointAt
  <2>9. consumed_closures' = {d.epoch : d \in checkpoints'}
    BY <1>0, <2>1 DEF ChainValid
  <2> QED
    BY <2>4, <2>5, <2>6, <2>7, <2>8, <2>9 DEF ChainValid
<1>2. ASSUME NEW c \in checkpoints, NEW r, NEW P, Pruned(c, r, P)
      PROVE  ChainValid'
  <2>1. /\ checkpoints' = {d \in checkpoints : d.epoch > c.epoch}
        /\ consumed_closures' = {e \in consumed_closures : e > c.epoch}
        /\ retention_anchor' = [epoch |-> c.epoch, digest |-> c.digest]
        /\ head' = head
    BY <1>2 DEF Pruned, ApplyPrune, Retained
  <2>2. c.epoch \in (retention_anchor.epoch + 1)..head.epoch
    BY <1>0 DEF ChainValid
  <2>3. /\ retention_anchor'.epoch \in -1..head'.epoch
        /\ retention_anchor'.epoch # -1
    BY <1>t, <2>1, <2>2 DEF Anchors
  <2>4. {d.epoch : d \in checkpoints'} =
          (retention_anchor'.epoch + 1)..head'.epoch
    <3>1. {d.epoch : d \in checkpoints'} =
            {e \in {d.epoch : d \in checkpoints} : e > c.epoch}
      BY <2>1
    <3>2. (c.epoch + 1)..head.epoch =
            {e \in (retention_anchor.epoch + 1)..head.epoch : e > c.epoch}
      BY <1>t, <2>2 DEF Anchors
    <3> QED
      BY <1>0, <2>1, <3>1, <3>2 DEF ChainValid
  <2>5. \A d, e \in checkpoints' : d.epoch = e.epoch => d = e
    BY <1>0, <2>1 DEF ChainValid
  <2>6. ASSUME NEW d \in checkpoints'
        PROVE  LinkedToParent(d)'
    <3>1. d \in checkpoints /\ d.epoch > c.epoch
      BY <2>1
    <3>2. PICK p \in checkpoints \cup {retention_anchor} :
            p.epoch = d.epoch - 1 /\ p.digest = d.previous
      BY <1>0, <3>1 DEF ChainValid, LinkedToParent
    <3>3. p.epoch >= c.epoch
      BY <1>t, <3>1, <3>2
    <3>4. p \in checkpoints
      BY <1>t, <2>2, <3>2, <3>3 DEF Anchors
    <3>5. CASE p.epoch = c.epoch
      <4>1. p = c
        BY <1>0, <3>4, <3>5 DEF ChainValid
      <4> QED
        BY <2>1, <3>2, <4>1 DEF LinkedToParent
    <3>6. CASE p.epoch > c.epoch
      BY <2>1, <3>2, <3>4, <3>6 DEF LinkedToParent
    <3> QED
      BY <1>t, <3>3, <3>4, <3>5, <3>6
  <2>7. head' = retention_anchor' \/ CheckpointAt(head.epoch, head.digest)'
    <3>1. PICK d \in checkpoints : d.epoch = head.epoch /\ d.digest = head.digest
      BY <1>0, <1>t, <2>2 DEF ChainValid, CheckpointAt, Anchors
    <3>2. CASE c.epoch = head.epoch
      <4>1. d = c
        BY <1>0, <3>1, <3>2 DEF ChainValid
      <4>2. head = [epoch |-> head.epoch, digest |-> head.digest]
        BY <1>t DEF Anchors
      <4> QED
        BY <2>1, <3>1, <4>1, <4>2
    <3>3. CASE c.epoch < head.epoch
      BY <2>1, <3>1, <3>3 DEF CheckpointAt
    <3> QED
      BY <1>t, <2>2, <3>2, <3>3 DEF Anchors
  <2>8. consumed_closures' = {d.epoch : d \in checkpoints'}
    BY <1>0, <2>1 DEF ChainValid
  <2> QED
    BY <2>3, <2>4, <2>5, <2>6, <2>7, <2>8 DEF ChainValid
<1>3. CASE UNCHANGED <<head, checkpoints, consumed_closures, retention_anchor>>
  BY <1>0, <1>3 DEF ChainValid, LinkedToParent, CheckpointAt
<1> QED
  BY ZenonT(60), <1>1, <1>2, <1>3, StepCases DEF AdmitEvent, ApplyEvidenceInbox,
     ClaimOutbox, ReleaseOutbox, AcknowledgeOutbox, PlaceEvidenceHold,
     ResolveEvidenceHold, TablesUnchanged, chainVars

-----------------------------------------------------------------------------
(* Holds: a prune never reaches a checkpoint under an active hold.         *)
LEMMA PruneKeepsActiveHolds ==
  ASSUME Inv, NEW c \in checkpoints, NEW r, NEW P, Pruned(c, r, P),
         NEW q \in evidence_holds, q.decision = "none"
  PROVE  q.hold.epoch > c.epoch
<1>1. PICK d \in checkpoints : d.epoch = q.hold.epoch
  BY DEF Inv, ImageValid, HoldsValid, CheckpointAt
<1>2. q.hold.epoch \in ActiveHoldEpochs
  BY DEF ActiveHoldEpochs
<1>3. ~Prunable(d, r, P)
  BY <1>1, <1>2 DEF Prunable, UnresolvedEpochs
<1>4. ~(d.epoch <= c.epoch)
  BY <1>3 DEF Pruned
<1> QED
  BY <1>1, <1>4, InputAssumption DEF Inv, TypeInv, TypeOK, Epochs

(* Every step keeps each hold on a retained checkpoint.                    *)
LEMMA HoldsStep ==
  ASSUME Inv, [Next]_vars
  PROVE  HoldsValid'
<1>0. HoldsValid
  BY SMTT(60) DEF Inv, ImageValid
<1>1. ASSUME NEW w \in Writers, Sealed(pending[w])
      PROVE  HoldsValid'
  BY <1>0, <1>1 DEF Sealed, ApplySeal, holdVars, HoldsValid, CheckpointAt
<1>2. ASSUME NEW c \in checkpoints, NEW r, NEW P, Pruned(c, r, P)
      PROVE  HoldsValid'
  <2>1. /\ checkpoints' = {d \in checkpoints : d.epoch > c.epoch}
        /\ evidence_holds' = {q \in evidence_holds :
                                q.hold.epoch > c.epoch \/ q.decision = "none"}
    BY <1>2 DEF Pruned, ApplyPrune, Retained
  <2>2. \A q \in evidence_holds' : q.hold.epoch > c.epoch
    BY <1>2, <2>1, PruneKeepsActiveHolds
  <2> QED
    BY SMTT(60), <1>0, <2>1, <2>2 DEF HoldsValid, CheckpointAt
<1>3. ASSUME NEW h \in Holds, NEW d, checkpoints' = checkpoints,
             \/ /\ [hold |-> h, decision |-> "none"] \in evidence_holds
                /\ evidence_holds' = ResolvedHolds(h, d)
             \/ /\ CheckpointAt(h.epoch, h.digest)
                /\ HoldRow(h.id) \subseteq {[hold |-> h, decision |-> "none"]}
                /\ evidence_holds' =
                     evidence_holds \cup {[hold |-> h, decision |-> "none"]}
      PROVE  HoldsValid'
  <2>1. CASE /\ [hold |-> h, decision |-> "none"] \in evidence_holds
             /\ evidence_holds' = ResolvedHolds(h, d)
    BY <1>0, <1>3, <2>1 DEF HoldsValid, CheckpointAt, ResolvedHolds
  <2>2. CASE /\ CheckpointAt(h.epoch, h.digest)
             /\ HoldRow(h.id) \subseteq {[hold |-> h, decision |-> "none"]}
             /\ evidence_holds' =
                  evidence_holds \cup {[hold |-> h, decision |-> "none"]}
    BY <1>0, <1>3, <2>2 DEF HoldsValid, CheckpointAt, HoldRow
  <2> QED
    BY <1>3, <2>1, <2>2
<1>4. CASE UNCHANGED <<checkpoints, evidence_holds>>
  BY <1>0, <1>4 DEF HoldsValid, CheckpointAt
<1>5. ASSUME NEW w \in Writers, ApplyEvidenceInbox(w)
      PROVE  HoldsValid'
  <2> DEFINE op == pending[w].operation
  <2>1. op \in Operations
    BY <1>5 DEF ApplyEvidenceInbox, Inv, TypeInv, TypeOK, SealWriteSets,
       PruneWriteSets, InboxWriteSets
  <2>2. op.hold \in Holds /\ op.kind \in {"place", "resolve"}
    BY <2>1 DEF Operations
  <2>3. checkpoints' = checkpoints
    BY <1>5 DEF ApplyEvidenceInbox, chainVars
  <2>4. CASE evidence_holds' = evidence_holds
    BY <1>4, <2>3, <2>4
  <2>5. CASE OperationAllowed(op) /\ ApplyOperation(op)
    <3> HIDE DEF op
    <3>1. CASE op.kind = "place"
      BY ZenonT(60), <1>3, <2>2, <2>3, <2>5, <3>1 DEF OperationAllowed, ApplyOperation
    <3>2. CASE /\ op.kind = "resolve"
               /\ [hold |-> op.hold, decision |-> "none"] \in evidence_holds
      BY <1>3, <2>2, <2>3, <2>5, <3>2 DEF ApplyOperation
    <3>3. CASE /\ op.kind = "resolve"
               /\ [hold |-> op.hold, decision |-> op.decision] \in evidence_holds
               /\ [hold |-> op.hold, decision |-> "none"] \notin evidence_holds
      <4>1. evidence_holds' = evidence_holds
        BY <2>5, <3>3 DEF ApplyOperation, ResolvedHolds
      <4> QED
        BY <1>4, <2>3, <4>1
    <3> QED
      BY <2>2, <2>5, <3>1, <3>2, <3>3 DEF OperationAllowed
  <2> QED
    BY <1>5, <2>4, <2>5 DEF ApplyEvidenceInbox, InboxIsCurrent, holdVars
<1>6. ASSUME NEW h \in Holds, PlaceEvidenceHold(h)
      PROVE  HoldsValid'
  BY ZenonT(60), <1>3, <1>6 DEF PlaceEvidenceHold, chainVars
<1>7. ASSUME NEW h \in Holds, NEW d \in Decisions, ResolveEvidenceHold(h, d)
      PROVE  HoldsValid'
  BY <1>3, <1>7 DEF ResolveEvidenceHold, chainVars
<1> QED
  BY <1>1, <1>2, <1>4, <1>5, <1>6, <1>7, StepCases DEF AdmitEvent,
     ClaimOutbox, ReleaseOutbox, AcknowledgeOutbox, TablesUnchanged, chainVars,
     holdVars

-----------------------------------------------------------------------------
(* The fields of the entries a seal creates.                               *)
LEMMA SealEntryFields ==
  ASSUME NEW ws, NEW o \in SealOutboxEntries(ws)
  PROVE  /\ o.epoch = ws.checkpoint.epoch
         /\ o.digest = ws.checkpoint.digest
         /\ o.state = "pending"
         /\ o.lease = NoLease
<1> DEFINE order(i) == ws.expected_snapshot.next_created_order + i - 1
<1>1. PICK i \in 1..Len(ws.destinations) :
        o = [destination |-> ws.destinations[i],
             epoch |-> ws.checkpoint.epoch, digest |-> ws.checkpoint.digest,
             created_order |-> order(i), state |-> "pending",
             lease |-> NoLease]
  BY Zenon DEF SealOutboxEntries
<1> HIDE DEF order
<1> QED
  BY <1>1

(* The outbox: entries keep their key and their order.                     *)
LEMMA ReplaceKeepsOutbox ==
  ASSUME Inv, NEW o \in outbox, NEW state, NEW lease,
         (state = "in_flight") <=> (lease # NoLease),
         outbox' = ReplaceRow(o, InState(o, state, lease)),
         UNCHANGED <<checkpoints, next_created_order>>
  PROVE  OutboxValid'
<1> DEFINE q == InState(o, state, lease)
<1>1. OutboxValid
  BY DEF Inv, ImageValid
<1>2. /\ q.destination = o.destination /\ q.epoch = o.epoch
      /\ q.digest = o.digest /\ q.created_order = o.created_order
      /\ q.state = state /\ q.lease = lease
  BY DEF InState
<1>3. outbox' = (outbox \ {o}) \cup {q}
  BY SMTT(60) DEF ReplaceRow
<1> HIDE DEF q
<1> QED
  BY <1>1, <1>2, <1>3 DEF OutboxValid, CheckpointAt, SameEntry

(* Every step keeps the relation of outbox and checkpoints.                *)
LEMMA OutboxStep ==
  ASSUME Inv, [Next]_vars
  PROVE  OutboxValid'
<1>0. OutboxValid
  BY DEF Inv, ImageValid
<1>1. ASSUME NEW w \in Writers, Sealed(pending[w])
      PROVE  OutboxValid'
  <2> DEFINE ws == pending[w]
             new == SealOutboxEntries(ws)
             n == Len(ws.destinations)
             k == ws.checkpoint
  <2>1. /\ outbox' = outbox \cup new
        /\ checkpoints' = checkpoints \cup {k}
        /\ next_created_order' = next_created_order + n
        /\ k.epoch = head.epoch + 1
    BY <1>1 DEF Sealed, ApplySeal
  <2>2. ws \in SealWriteSets /\ n \in Nat \ {0} /\ next_created_order \in Nat
    BY <1>1, SealOutboxEntriesType DEF Sealed, Inv, TypeInv, TypeOK
  <2>3. \A i, j \in 1..n : ws.destinations[i] = ws.destinations[j] => i = j
    BY <2>2, InputAssumption DEF SealWriteSets
  <2>4. \A o \in new : \E i \in 1..n :
          o = [destination |-> ws.destinations[i], epoch |-> k.epoch,
               digest |-> k.digest,
               created_order |-> next_created_order + i - 1,
               state |-> "pending", lease |-> NoLease]
    BY <1>1 DEF Sealed, SealOutboxEntries
  <2>5. \A o \in outbox : /\ o.epoch # k.epoch /\ o.created_order \in Nat
                          /\ o.created_order < next_created_order
    <3>1. \A o \in outbox : o.epoch \in (retention_anchor.epoch + 1)..head.epoch
      BY <1>0 DEF OutboxValid, CheckpointAt, Inv, ImageValid, ChainValid
    <3>2. head.epoch \in Int /\ retention_anchor.epoch \in Int
      BY DEF Inv, TypeInv, TypeOK, Anchors
    <3>3. \A o \in outbox : o.created_order \in Nat
      BY DEF Inv, TypeInv, TypeOK, OutboxRows
    <3>4. \A o \in outbox : o.created_order < next_created_order
      BY <1>0 DEF OutboxValid
    <3>5. \A o \in outbox : o.epoch <= head.epoch /\ o.epoch \in Int
      BY <3>1, <3>2
    <3>6. \A o \in outbox : o.epoch # k.epoch
      <4> HIDE DEF k
      <4> QED BY SMTT(60), <2>1, <3>2, <3>5
    <3> QED
      BY <3>3, <3>4, <3>6
  <2>6. new # {}
    <3>1. 1 \in 1..n
      BY <2>2
    <3> QED
      BY ZenonT(60), <3>1 DEF SealOutboxEntries
  <2>7. \A o \in new :
          /\ o.epoch = k.epoch /\ o.digest = k.digest
          /\ o.created_order \in Nat
          /\ o.created_order >= next_created_order
          /\ o.created_order < next_created_order + n
          /\ o.state = "pending" /\ o.lease = NoLease
    <3> SUFFICES ASSUME NEW o \in new
                 PROVE  /\ o.epoch = k.epoch /\ o.digest = k.digest
                        /\ o.created_order \in Nat
                        /\ o.created_order >= next_created_order
                        /\ o.created_order < next_created_order + n
                        /\ o.state = "pending" /\ o.lease = NoLease
      OBVIOUS
    <3>1. PICK i \in 1..n : o.created_order = next_created_order + i - 1
      BY <2>4
    <3>2. /\ o.epoch = k.epoch /\ o.digest = k.digest
          /\ o.state = "pending" /\ o.lease = NoLease
      BY SealEntryFields
    <3> HIDE DEF new, n, k, ws
    <3> QED
      BY <2>2, <3>1, <3>2
  <2>8. \A o, p \in new :
          p.created_order = o.created_order \/ SameEntry(p, o) => p = o
    <3> SUFFICES ASSUME NEW o \in new, NEW p \in new,
                        p.created_order = o.created_order \/ SameEntry(p, o)
                 PROVE  p = o
      OBVIOUS
    <3> DEFINE entry(i) ==
          [destination |-> ws.destinations[i], epoch |-> k.epoch,
           digest |-> k.digest, created_order |-> next_created_order + i - 1,
           state |-> "pending", lease |-> NoLease]
    <3>1. PICK i \in 1..n : o = entry(i)
      BY <2>4
    <3>2. PICK j \in 1..n : p = entry(j)
      BY <2>4
    <3>3. /\ entry(i).created_order = next_created_order + i - 1
          /\ entry(j).created_order = next_created_order + j - 1
          /\ entry(i).destination = ws.destinations[i]
          /\ entry(j).destination = ws.destinations[j]
      OBVIOUS
    <3> HIDE DEF entry, new, k, ws, n
    <3>4. CASE p.created_order = o.created_order
      <4>1. i = j
        BY <2>2, <3>1, <3>2, <3>3, <3>4
      <4> QED BY <4>1, <3>1, <3>2
    <3>5. CASE SameEntry(p, o)
      <4>1. ws.destinations[i] = ws.destinations[j]
        BY <3>1, <3>2, <3>3, <3>5 DEF SameEntry
      <4>2. i = j
        BY <2>3, <4>1
      <4> QED BY <4>2, <3>1, <3>2
    <3> QED BY <3>4, <3>5
  <2> HIDE DEF new, n, k, ws
  <2>9. \A o, p \in outbox' :
          p.created_order = o.created_order \/ SameEntry(p, o) => p = o
    BY <1>0, <2>1, <2>2, <2>5, <2>7, <2>8 DEF OutboxValid, SameEntry
  <2>10. \A o \in outbox' :
          /\ o.created_order < next_created_order'
          /\ (o.state = "in_flight") <=> (o.lease # NoLease)
    BY <1>0, <2>1, <2>2, <2>5, <2>7 DEF OutboxValid
  <2>11. \A o \in outbox' : CheckpointAt(o.epoch, o.digest)'
    BY <1>0, <2>1, <2>7 DEF OutboxValid, CheckpointAt
  <2>12. \A c \in checkpoints' : \E o \in outbox' : o.epoch = c.epoch
    BY <1>0, <2>1, <2>6, <2>7 DEF OutboxValid
  <2> QED
    BY <2>9, <2>10, <2>11, <2>12 DEF OutboxValid
<1>2. ASSUME NEW c \in checkpoints, NEW r, NEW P, Pruned(c, r, P)
      PROVE  OutboxValid'
  <2>1. /\ checkpoints' = {d \in checkpoints : d.epoch > c.epoch}
        /\ outbox' = {o \in outbox : o.epoch > c.epoch}
        /\ next_created_order' = next_created_order
    BY <1>2 DEF Pruned, ApplyPrune, Retained
  <2> QED
    BY <1>0, <2>1 DEF OutboxValid, CheckpointAt
<1>3. ASSUME NEW o \in outbox, ClaimOutbox(o)
      PROVE  OutboxValid'
  <2>1. LeaseUntil # NoLease
    BY BoundAssumption DEF LeaseUntil, Inv, TypeInv, TypeOK
  <2> QED
    BY <1>3, <2>1, ReplaceKeepsOutbox DEF ClaimOutbox, chainVars
<1>4. ASSUME NEW o \in outbox, ReleaseOutbox(o)
      PROVE  OutboxValid'
  BY <1>4, ReplaceKeepsOutbox DEF ReleaseOutbox, chainVars
<1>5. ASSUME NEW o \in outbox, NEW d \in {"accepted", "duplicate"},
             AcknowledgeOutbox(o, d)
      PROVE  OutboxValid'
  BY <1>5, ReplaceKeepsOutbox DEF AcknowledgeOutbox, chainVars
<1>6. CASE UNCHANGED <<outbox, checkpoints, next_created_order>>
  BY <1>0, <1>6 DEF OutboxValid, CheckpointAt
<1> QED
  BY ZenonT(60), <1>1, <1>2, <1>3, <1>4, <1>5, <1>6, StepCases DEF AdmitEvent,
     ApplyEvidenceInbox, PlaceEvidenceHold, ResolveEvidenceHold,
     TablesUnchanged, chainVars, outboxVars

-----------------------------------------------------------------------------
(* ACK history: one row for each acknowledged entry, and no other.         *)
LEMMA ReplaceKeepsAcks ==
  ASSUME Inv, NEW o \in outbox, NEW state, NEW lease,
         o.state # "acknowledged", state # "acknowledged",
         outbox' = ReplaceRow(o, InState(o, state, lease)),
         ack_history' = ack_history
  PROVE  AckHistoryValid'
<1>1. AckHistoryValid
  BY DEF Inv, ImageValid
<1>2. InState(o, state, lease).state = state
  BY SMTT(60) DEF InState
<1> QED
  BY <1>1, <1>2 DEF AckHistoryValid, AcksOf, ReplaceRow

(* Every step keeps one ACK row per acknowledged entry.                    *)
LEMMA AckHistoryStep ==
  ASSUME Inv, [Next]_vars
  PROVE  AckHistoryValid'
<1>0. AckHistoryValid
  BY DEF Inv, ImageValid
<1>1. ASSUME NEW w \in Writers, Sealed(pending[w])
      PROVE  AckHistoryValid'
  <2> DEFINE new == SealOutboxEntries(pending[w])
  <2>1. outbox' = outbox \cup new /\ ack_history' = ack_history
    BY <1>1 DEF Sealed, ApplySeal
  <2>2. \A o \in new : o.state = "pending"
    BY SealEntryFields
  <2> HIDE DEF new
  <2> QED
    BY <1>0, <2>1, <2>2 DEF AckHistoryValid, AcksOf
<1>2. ASSUME NEW c \in checkpoints, NEW r, NEW P, Pruned(c, r, P)
      PROVE  AckHistoryValid'
  <2>1. /\ ack_history' = {a \in ack_history : a.epoch > c.epoch}
        /\ outbox' = {o \in outbox : o.epoch > c.epoch}
    BY <1>2 DEF Pruned, ApplyPrune, Retained
  <2>2. \A a \in ack_history' : \E o \in outbox' :
          a \in AcksOf(o)' /\ o.state = "acknowledged"
    <3> SUFFICES ASSUME NEW a \in ack_history'
                 PROVE  \E o \in outbox' :
                          a \in AcksOf(o)' /\ o.state = "acknowledged"
      OBVIOUS
    <3>1. a \in ack_history /\ a.epoch > c.epoch
      BY <2>1
    <3>2. PICK o \in outbox : a \in AcksOf(o) /\ o.state = "acknowledged"
      BY <1>0, <3>1 DEF AckHistoryValid
    <3> QED
      BY <2>1, <3>1, <3>2 DEF AcksOf
  <2>3. \A o \in outbox' : o.state = "acknowledged" => AcksOf(o)' # {}
    <3> SUFFICES ASSUME NEW o \in outbox', o.state = "acknowledged"
                 PROVE  AcksOf(o)' # {}
      OBVIOUS
    <3>1. o \in outbox /\ o.epoch > c.epoch
      BY <2>1
    <3>2. PICK a \in ack_history : a \in AcksOf(o)
      BY <1>0, <3>1 DEF AckHistoryValid, AcksOf
    <3> QED
      BY <2>1, <3>1, <3>2 DEF AcksOf
  <2> QED
    BY <1>0, <2>1, <2>2, <2>3 DEF AckHistoryValid
<1>3. ASSUME NEW o \in outbox, ClaimOutbox(o)
      PROVE  AckHistoryValid'
  BY <1>3, ReplaceKeepsAcks DEF ClaimOutbox, Claimable
<1>4. ASSUME NEW o \in outbox, ReleaseOutbox(o)
      PROVE  AckHistoryValid'
  BY <1>4, ReplaceKeepsAcks DEF ReleaseOutbox
<1>5. ASSUME NEW o \in outbox, NEW d \in {"accepted", "duplicate"},
             AcknowledgeOutbox(o, d)
      PROVE  AckHistoryValid'
  <2> DEFINE ack == [authority |-> o.destination, epoch |-> o.epoch,
                     digest |-> o.digest, decision |-> d]
             q == InState(o, "acknowledged", NoLease)
  <2>1. /\ ack_history' = ack_history \cup {ack}
        /\ outbox' = (outbox \ {o}) \cup {q}
        /\ o.state # "acknowledged"
    BY <1>5 DEF AcknowledgeOutbox, ReplaceRow
  <2>2. /\ q.destination = o.destination /\ q.epoch = o.epoch
        /\ q.digest = o.digest /\ q.state = "acknowledged"
    BY DEF InState
  <2>3. /\ ack.authority = o.destination /\ ack.epoch = o.epoch
        /\ ack.digest = o.digest
    OBVIOUS
  <2> HIDE DEF ack, q
  <2>4. ASSUME NEW a \in ack_history, a.authority = o.destination,
               a.epoch = o.epoch, a.digest = o.digest
        PROVE  FALSE
    <3>1. PICK p \in outbox : a \in AcksOf(p) /\ p.state = "acknowledged"
      BY <1>0 DEF AckHistoryValid
    <3>2. SameEntry(p, o)
      BY <2>4, <3>1 DEF AcksOf, SameEntry
    <3>3. p = o
      BY <3>2 DEF Inv, ImageValid, OutboxValid
    <3> QED
      BY <2>1, <3>1, <3>3
  <2>5. \A a \in ack_history' : \E p \in outbox' :
          a \in AcksOf(p)' /\ p.state = "acknowledged"
    BY <1>0, <2>1, <2>2, <2>3 DEF AckHistoryValid, AcksOf
  <2>6. \A a, b \in ack_history' :
          (a.authority = b.authority /\ a.epoch = b.epoch /\ a.digest = b.digest)
            => a = b
    BY <1>0, <2>1, <2>3, <2>4 DEF AckHistoryValid
  <2>7. \A p \in outbox' : p.state = "acknowledged" => AcksOf(p)' # {}
    BY <1>0, <2>1, <2>2, <2>3 DEF AckHistoryValid, AcksOf
  <2> QED
    BY <2>5, <2>6, <2>7 DEF AckHistoryValid
<1>6. CASE UNCHANGED <<outbox, ack_history>>
  BY <1>0, <1>6 DEF AckHistoryValid, AcksOf
<1> QED
  BY ZenonT(60), <1>1, <1>2, <1>3, <1>4, <1>5, <1>6, StepCases DEF AdmitEvent,
     ApplyEvidenceInbox, PlaceEvidenceHold, ResolveEvidenceHold,
     TablesUnchanged, outboxVars

-----------------------------------------------------------------------------
(* Capacity: only a seal adds active entries.                              *)
LEMMA ReplaceKeepsCapacity ==
  ASSUME Inv, NEW o \in ActiveOutbox, NEW q, outbox' = ReplaceRow(o, q)
  PROVE  CapacityRespected'
<1>1. /\ IsFiniteSet(ActiveOutbox) /\ Cardinality(ActiveOutbox) \in Nat
      /\ Cardinality(ActiveOutbox) <= Capacity
  BY ActiveOutboxFinite DEF Inv, ImageValid, CapacityRespected
<1>2. /\ IsFiniteSet(ActiveOutbox \ {o})
      /\ Cardinality(ActiveOutbox \ {o}) = Cardinality(ActiveOutbox) - 1
  BY <1>1, FS_RemoveElement
<1>3. /\ IsFiniteSet((ActiveOutbox \ {o}) \cup {q})
      /\ Cardinality((ActiveOutbox \ {o}) \cup {q}) <= Cardinality(ActiveOutbox)
  <2> DEFINE A == ActiveOutbox \ {o}
  <2>1. /\ IsFiniteSet(A \cup {q})
        /\ Cardinality(A \cup {q}) =
             IF q \in A THEN Cardinality(A) ELSE Cardinality(A) + 1
    BY <1>2, FS_AddElement
  <2> HIDE DEF A
  <2>2. Cardinality(A \cup {q}) <= Cardinality(ActiveOutbox)
    BY <1>1, <1>2, <2>1 DEF A
  <2> QED
    BY <2>1, <2>2 DEF A
<1>4. ActiveOutbox' \subseteq (ActiveOutbox \ {o}) \cup {q}
  BY DEF ActiveOutbox, ReplaceRow
<1>5. /\ Cardinality(ActiveOutbox') <= Cardinality((ActiveOutbox \ {o}) \cup {q})
      /\ IsFiniteSet(ActiveOutbox')
  BY <1>3, <1>4, FS_Subset
<1>6. /\ Cardinality(ActiveOutbox') \in Nat
      /\ Cardinality((ActiveOutbox \ {o}) \cup {q}) \in Nat
  BY SMTT(60), <1>3, <1>5, FS_CardinalityType
<1> QED
  BY <1>1, <1>3, <1>5, <1>6, BoundAssumption DEF CapacityRespected

(* Every step keeps the active entries within the capacity.                *)
LEMMA CapacityStep ==
  ASSUME Inv, [Next]_vars
  PROVE  CapacityRespected'
<1>0. /\ IsFiniteSet(ActiveOutbox) /\ Cardinality(ActiveOutbox) \in Nat
      /\ Cardinality(ActiveOutbox) <= Capacity
  BY ActiveOutboxFinite DEF Inv, ImageValid, CapacityRespected
<1>1. ASSUME NEW w \in Writers, Sealed(pending[w])
      PROVE  CapacityRespected'
  <2> DEFINE new == SealOutboxEntries(pending[w])
             n == Len(pending[w].destinations)
  <2>1. /\ outbox' = outbox \cup new
        /\ Cardinality(ActiveOutbox) + n <= Capacity
        /\ pending[w] \in SealWriteSets
    BY <1>1 DEF Sealed, ApplySeal
  <2>2. IsFiniteSet(new) /\ Cardinality(new) <= n /\ n \in Nat
    BY <2>1, SealOutboxEntriesType
  <2> HIDE DEF new, n
  <2>3. ActiveOutbox' \subseteq ActiveOutbox \cup new
    BY <2>1 DEF ActiveOutbox
  <2>4. /\ IsFiniteSet(ActiveOutbox \cup new)
        /\ IsFiniteSet(ActiveOutbox \cap new)
        /\ Cardinality(ActiveOutbox \cup new) =
             Cardinality(ActiveOutbox) + Cardinality(new)
               - Cardinality(ActiveOutbox \cap new)
    BY ZenonT(60), <1>0, <2>2, FS_Union, FS_Intersection
  <2>5. /\ Cardinality(ActiveOutbox') <= Cardinality(ActiveOutbox \cup new)
        /\ IsFiniteSet(ActiveOutbox')
    BY <2>3, <2>4, FS_Subset
  <2>6. /\ Cardinality(ActiveOutbox') \in Nat
        /\ Cardinality(ActiveOutbox \cap new) \in Nat
        /\ Cardinality(new) \in Nat
    BY <2>2, <2>4, <2>5, FS_CardinalityType
  <2> QED
    BY <1>0, <2>1, <2>2, <2>4, <2>5, <2>6, BoundAssumption DEF CapacityRespected
<1>2. ASSUME NEW c \in checkpoints, NEW r, NEW P, Pruned(c, r, P)
      PROVE  CapacityRespected'
  <2>1. ActiveOutbox' \subseteq ActiveOutbox
    BY <1>2 DEF Pruned, ApplyPrune, Retained, ActiveOutbox
  <2>2. Cardinality(ActiveOutbox') <= Cardinality(ActiveOutbox)
        /\ IsFiniteSet(ActiveOutbox')
    BY <1>0, <2>1, FS_Subset
  <2>3. Cardinality(ActiveOutbox') \in Nat
    BY <2>2, FS_CardinalityType
  <2> QED
    BY <1>0, <2>2, <2>3, BoundAssumption DEF CapacityRespected
<1>3. ASSUME NEW o \in outbox, ClaimOutbox(o)
      PROVE  CapacityRespected'
  BY <1>3, ReplaceKeepsCapacity DEF ClaimOutbox, Claimable, ActiveOutbox
<1>4. ASSUME NEW o \in outbox, ReleaseOutbox(o)
      PROVE  CapacityRespected'
  BY <1>4, ReplaceKeepsCapacity DEF ReleaseOutbox, ActiveOutbox
<1>5. ASSUME NEW o \in outbox, NEW d \in {"accepted", "duplicate"},
             AcknowledgeOutbox(o, d)
      PROVE  CapacityRespected'
  BY <1>5, ReplaceKeepsCapacity DEF AcknowledgeOutbox, ActiveOutbox
<1>6. CASE outbox' = outbox
  BY <1>0, <1>6 DEF CapacityRespected, ActiveOutbox
<1> QED
  BY ZenonT(60), <1>1, <1>2, <1>3, <1>4, <1>5, <1>6, StepCases DEF AdmitEvent,
     ApplyEvidenceInbox, PlaceEvidenceHold, ResolveEvidenceHold,
     TablesUnchanged, outboxVars

-----------------------------------------------------------------------------
(* The freshly configured store satisfies the invariant.                   *)
LEMMA InvInit == Init => Inv
<1> SUFFICES ASSUME Init PROVE Inv
  OBVIOUS
<1>1. TypeInv
  BY SMTT(60), TypeInit
<1>2. EventsValid /\ HoldsValid /\ OutboxValid /\ AckHistoryValid
  BY SMTT(60) DEF Init, EventsValid, HoldsValid, OutboxValid, AckHistoryValid
<1>3. ChainValid
  <2>1. /\ head.epoch = -1 /\ retention_anchor.epoch = -1
        /\ retention_anchor.digest = Genesis /\ head = retention_anchor
    BY DEF Init
  <2>2. /\ checkpoints = {} /\ consumed_closures = {}
        /\ {c.epoch : c \in checkpoints} = {}
    BY DEF Init
  <2>3. -1 \in -1..-1 /\ (-1 + 1)..-1 = {}
    OBVIOUS
  <2> QED
    BY <2>1, <2>2, <2>3 DEF ChainValid
<1>4. CapacityRespected
  <2>1. ActiveOutbox = {}
    BY DEF Init, ActiveOutbox
  <2> QED
    BY <2>1, FS_EmptySet, BoundAssumption DEF CapacityRespected
<1> QED
  BY <1>1, <1>2, <1>3, <1>4 DEF Inv, ImageValid

(* Every step preserves the invariant.                                     *)
LEMMA InvStep ==
  ASSUME Inv, [Next]_vars
  PROVE  Inv'
<1>1. TypeInv'
  BY TypeStep DEF Inv
<1> QED
  BY <1>1, EventsStep, ChainStep, HoldsStep, OutboxStep, AckHistoryStep,
     CapacityStep DEF Inv, ImageValid

(* The invariant holds in every reachable state of the store.              *)
LEMMA Invariance == Spec => []Inv
<1>1. Init => Inv
  BY InvInit
<1>2. Inv /\ [Next]_vars => Inv'
  BY InvStep
<1> QED
  BY <1>1, <1>2, PTL DEF Spec

(* The store can always be reopened: whatever transactions, prunes, late   *)
(* acknowledgements and crashes came before, playerLocalAuditImageError()  *)
(* finds nothing to object to in the rows.                                 *)
THEOREM ImageAlwaysValid == Spec => []ImageValid
<1>1. Inv => ImageValid
  BY DEF Inv
<1> QED
  BY <1>1, Invariance, PTL

(* Concurrent seals serialize: commitSeal() moves the head by one epoch,   *)
(* onto a checkpoint that names the head it replaces.                      *)
THEOREM SealsAlwaysExtendHead == Spec => SealsExtendHead
<1>1. ASSUME Inv, [Next]_vars
      PROVE  [head' # head =>
                \E c \in checkpoints' :
                  /\ c.epoch = head.epoch + 1
                  /\ c.previous = head.digest
                  /\ head' = [epoch |-> c.epoch, digest |-> c.digest]]_vars
  <2>1. ASSUME NEW w \in Writers, Sealed(pending[w])
        PROVE  \E c \in checkpoints' :
                 /\ c.epoch = head.epoch + 1
                 /\ c.previous = head.digest
                 /\ head' = [epoch |-> c.epoch, digest |-> c.digest]
    BY SMTT(60), <2>1 DEF Sealed, ApplySeal
  <2>2. (\A w \in Writers : ~Sealed(pending[w])) => head' = head
    BY ZenonT(60), <1>1, StepCases DEF AdmitEvent, ApplyEvidenceInbox, ClaimOutbox,
       ReleaseOutbox, AcknowledgeOutbox, PlaceEvidenceHold, Pruned,
       ResolveEvidenceHold, TablesUnchanged, chainVars
  <2> QED
    BY SMTT(60), <2>1, <2>2
<1> QED
  BY <1>1, Invariance, PTL DEF Spec, SealsExtendHead
=============================================================================
