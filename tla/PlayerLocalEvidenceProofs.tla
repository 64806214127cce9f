---------------------- MODULE PlayerLocalEvidenceProofs ----------------------
(***************************************************************************)
(* What the player-local store promises about evidence: nothing that is    *)
(* still needed is dropped, a decision is final, and a cursor never runs   *)
(* ahead of the effects of its messages.                                   *)
(***************************************************************************)
EXTENDS PlayerLocalStoreProofs

(* A prune never reaches an entry that is not acknowledged.                *)
LEMMA PruneKeepsActiveEntries ==
  ASSUME Inv, NEW c \in checkpoints, NEW r, NEW P, Pruned(c, r, P),
         NEW o \in ActiveOutbox
  PROVE  o.epoch > c.epoch
<1>1. o \in outbox /\ o.state # "acknowledged"
  BY DEF ActiveOutbox
<1>2. PICK d \in checkpoints : d.epoch = o.epoch /\ d.digest = o.digest
  BY <1>1 DEF Inv, ImageValid, OutboxValid, CheckpointAt
<1>3. ~AllOutboxAcknowledged(d)
  BY <1>1, <1>2 DEF AllOutboxAcknowledged
<1>4. ~(d.epoch <= c.epoch)
  BY <1>3 DEF Pruned, Prunable
<1> QED
  BY <1>2, <1>4, InputAssumption DEF Inv, TypeInv, TypeOK, Epochs

(* No step drops an equivocation or the event it contradicts.              *)
LEMMA EventsSurvive ==
  ASSUME Inv, [Next]_vars
  PROVE  /\ equivocations \subseteq equivocations'
         /\ \A e \in events :
              (\E q \in equivocations : SameSlot(e, q)) => e \in events'
<1>1. ASSUME NEW c \in checkpoints, NEW r, NEW P, Pruned(c, r, P)
      PROVE  /\ equivocations \subseteq equivocations'
             /\ \A e \in events :
                  (\E q \in equivocations : SameSlot(e, q)) => e \in events'
  BY <1>1, PruneKeepsEquivocations DEF Pruned, ApplyPrune, Retained
<1>2. ASSUME NEW e \in Events, AdmitEvent(e)
      PROVE  equivocations \subseteq equivocations' /\ events \subseteq events'
  BY <1>2 DEF AdmitEvent, StoreEvent, StoreEquivocation
<1>3. CASE UNCHANGED <<events, equivocations>>
  BY <1>3
<1> QED
  BY ZenonT(60), <1>1, <1>2, <1>3, StepCases DEF Sealed, ApplyEvidenceInbox, ClaimOutbox,
     ReleaseOutbox, AcknowledgeOutbox, PlaceEvidenceHold, ResolveEvidenceHold,
     TablesUnchanged, eventVars

(* The only changes a step makes to the holds: rows are added, an active   *)
(* row is resolved, resolved rows of pruned epochs go.                     *)
LEMMA HoldChanges ==
  ASSUME Inv, [Next]_vars
  PROVE  \/ evidence_holds \subseteq evidence_holds'
         \/ \E h \in Holds, d \in Decisions :
              /\ [hold |-> h, decision |-> "none"] \in evidence_holds
              /\ evidence_holds' = ResolvedHolds(h, d)
         \/ \E c \in checkpoints : \E r, P : Pruned(c, r, P)
<1>1. ASSUME NEW w \in Writers, ApplyEvidenceInbox(w)
      PROVE  \/ evidence_holds \subseteq evidence_holds'
             \/ \E h \in Holds, d \in Decisions :
                  /\ [hold |-> h, decision |-> "none"] \in evidence_holds
                  /\ evidence_holds' = ResolvedHolds(h, d)
  <2> DEFINE op == pending[w].operation
  <2>1. op \in Operations
    BY <1>1 DEF ApplyEvidenceInbox, Inv, TypeInv, TypeOK, SealWriteSets,
       PruneWriteSets, InboxWriteSets
  <2>2. \/ evidence_holds' = evidence_holds
        \/ OperationAllowed(op) /\ ApplyOperation(op)
    BY <1>1 DEF ApplyEvidenceInbox, InboxIsCurrent, holdVars
  <2> HIDE DEF op
  <2>3. CASE op.kind = "place"
    BY <2>2, <2>3 DEF ApplyOperation
  <2>4. CASE op.kind = "resolve"
    <3>1. op.hold \in Holds /\ op.decision \in Decisions
      BY <2>1, <2>4 DEF Operations
    <3>2. ApplyOperation(op) => evidence_holds' = ResolvedHolds(op.hold, op.decision)
      BY <2>4 DEF ApplyOperation
    <3>3. CASE [hold |-> op.hold, decision |-> "none"] \in evidence_holds
      BY <2>2, <3>1, <3>2, <3>3
    <3>4. CASE [hold |-> op.hold, decision |-> "none"] \notin evidence_holds
      BY <2>2, <3>2, <3>4 DEF ResolvedHolds
    <3> QED
      BY SMTT(60), <3>3, <3>4
  <2> QED
    BY ZenonT(60), <2>1, <2>3, <2>4 DEF Operations
<1>2. ASSUME NEW h \in Holds, PlaceEvidenceHold(h)
      PROVE  evidence_holds \subseteq evidence_holds'
  BY <1>2 DEF PlaceEvidenceHold
<1>3. ASSUME NEW h \in Holds, NEW d \in Decisions, ResolveEvidenceHold(h, d)
      PROVE  /\ [hold |-> h, decision |-> "none"] \in evidence_holds
             /\ evidence_holds' = ResolvedHolds(h, d)
  BY <1>3 DEF ResolveEvidenceHold
<1>4. evidence_holds' = evidence_holds => evidence_holds \subseteq evidence_holds'
  OBVIOUS
<1> QED
  BY ZenonT(60), <1>1, <1>2, <1>3, <1>4, StepCases DEF AdmitEvent, Sealed, ClaimOutbox,
     ReleaseOutbox, AcknowledgeOutbox, TablesUnchanged, holdVars

(* No step drops an active hold or its checkpoint.                         *)
LEMMA HoldsSurvive ==
  ASSUME Inv, [Next]_vars, NEW q \in evidence_holds, q.decision = "none"
  PROVE  /\ \E p \in evidence_holds' : p.hold = q.hold
         /\ \E c \in checkpoints' : c.epoch = q.hold.epoch
<1>1. \E p \in evidence_holds' : p.hold = q.hold
  <2>1. ASSUME NEW h \in Holds, NEW d \in Decisions,
               evidence_holds' = ResolvedHolds(h, d)
        PROVE  \E p \in evidence_holds' : p.hold = q.hold
    <3>1. CASE q = [hold |-> h, decision |-> "none"]
      <4>1. [hold |-> h, decision |-> d] \in evidence_holds'
        BY <2>1 DEF ResolvedHolds
      <4> QED
        BY <3>1, <4>1
    <3>2. CASE q # [hold |-> h, decision |-> "none"]
      BY <2>1, <3>2 DEF ResolvedHolds
    <3> QED
      BY <3>1, <3>2
  <2>2. ASSUME NEW c \in checkpoints, NEW r, NEW P, Pruned(c, r, P)
        PROVE  q \in evidence_holds'
    BY <2>2 DEF Pruned, ApplyPrune
  <2> QED
    BY ZenonT(60), <2>1, <2>2, HoldChanges
<1>2. PICK c \in checkpoints : c.epoch = q.hold.epoch
  BY DEF Inv, ImageValid, HoldsValid, CheckpointAt
<1>3. c \in checkpoints'
  <2>1. ASSUME NEW k \in checkpoints, NEW r, NEW P, Pruned(k, r, P)
        PROVE  c \in checkpoints'
    <3>1. q.hold.epoch > k.epoch
      BY <2>1, PruneKeepsActiveHolds
    <3> QED
      BY <1>2, <2>1, <3>1 DEF Pruned, ApplyPrune, Retained
  <2>2. ASSUME NEW w \in Writers, Sealed(pending[w])
        PROVE  c \in checkpoints'
    BY <2>2 DEF Sealed, ApplySeal
  <2> QED
    BY ZenonT(60), <2>1, <2>2, StepCases DEF AdmitEvent, ApplyEvidenceInbox, ClaimOutbox,
       ReleaseOutbox, AcknowledgeOutbox, PlaceEvidenceHold,
       ResolveEvidenceHold, TablesUnchanged, chainVars
<1> QED
  BY <1>1, <1>2, <1>3

(* No step drops an entry that is not acknowledged.                        *)
LEMMA EntriesSurvive ==
  ASSUME Inv, [Next]_vars, NEW o \in ActiveOutbox
  PROVE  \E p \in outbox' : p.created_order = o.created_order
<1>0. o \in outbox
  BY DEF ActiveOutbox
<1>1. ASSUME NEW c \in checkpoints, NEW r, NEW P, Pruned(c, r, P)
      PROVE  o \in outbox'
  BY <1>0, <1>1, PruneKeepsActiveEntries DEF Pruned, ApplyPrune, Retained
<1>2. ASSUME NEW w \in Writers, Sealed(pending[w])
      PROVE  o \in outbox'
  BY <1>0, <1>2 DEF Sealed, ApplySeal
<1>3. ASSUME NEW q, NEW s, NEW l, outbox' = ReplaceRow(q, InState(q, s, l))
      PROVE  \E p \in outbox' : p.created_order = o.created_order
  <2>1. InState(q, s, l).created_order = q.created_order
    BY DEF InState
  <2>2. InState(q, s, l) \in outbox' /\ outbox \ {q} \subseteq outbox'
    BY <1>3 DEF ReplaceRow
  <2> HIDE DEF InState
  <2>3. CASE o = q
    BY <2>1, <2>2, <2>3
  <2>4. CASE o # q
    BY <1>0, <2>2, <2>4
  <2> QED
    BY <2>3, <2>4
<1>4. ASSUME NEW q \in outbox, ClaimOutbox(q)
      PROVE  \E p \in outbox' : p.created_order = o.created_order
  BY <1>3, <1>4 DEF ClaimOutbox
<1>5. ASSUME NEW q \in outbox, ReleaseOutbox(q)
      PROVE  \E p \in outbox' : p.created_order = o.created_order
  BY <1>3, <1>5 DEF ReleaseOutbox
<1>6. ASSUME NEW q \in outbox, NEW d \in {"accepted", "duplicate"},
             AcknowledgeOutbox(q, d)
      PROVE  \E p \in outbox' : p.created_order = o.created_order
  BY <1>3, <1>6 DEF AcknowledgeOutbox
<1>7. CASE outbox' = outbox
  BY <1>0, <1>7
<1> QED
  BY ZenonT(60), <1>1, <1>2, <1>4, <1>5, <1>6, <1>7, StepCases DEF AdmitEvent,
     ApplyEvidenceInbox, PlaceEvidenceHold, ResolveEvidenceHold,
     TablesUnchanged, outboxVars

(* No step of the store, pruneEvidence() included, drops an equivocation,  *)
(* an active hold or an unacknowledged entry, or the rows they refer to.   *)
THEOREM EvidenceAlwaysSurvives == Spec => EvidenceSurvives
<1>1. ASSUME Inv, [Next]_vars
      PROVE  [/\ equivocations \subseteq equivocations'
              /\ \A e \in events :
                   (\E q \in equivocations : SameSlot(e, q)) => e \in events'
              /\ \A r \in evidence_holds :
                   r.decision = "none" =>
                     /\ \E q \in evidence_holds' : q.hold = r.hold
                     /\ \E c \in checkpoints' : c.epoch = r.hold.epoch
              /\ \A o \in ActiveOutbox :
                   \E p \in outbox' : p.created_order = o.created_order]_vars
  BY <1>1, EventsSurvive, HoldsSurvive, EntriesSurvive
<1> QED
  BY <1>1, Invariance, PTL DEF Spec, EvidenceSurvives

(* A decision on a hold is final until its epoch is pruned, however        *)
(* resolveEvidenceHold() and applyEvidenceInbox() race.                    *)
THEOREM ResolutionAlwaysFinal == Spec => ResolutionIsFinal
<1>1. ASSUME Inv, [Next]_vars
      PROVE  [\A r \in evidence_holds :
                r.decision # "none" =>
                  r \in evidence_holds' \/ r.hold.epoch <= retention_anchor'.epoch]_vars
  <2> SUFFICES ASSUME NEW r \in evidence_holds, r.decision # "none"
               PROVE  \/ r \in evidence_holds'
                      \/ r.hold.epoch <= retention_anchor'.epoch
    OBVIOUS
  <2>1. ASSUME NEW h \in Holds, NEW d \in Decisions,
               evidence_holds' = ResolvedHolds(h, d)
        PROVE  r \in evidence_holds'
    BY <2>1 DEF ResolvedHolds
  <2>2. ASSUME NEW c \in checkpoints, NEW f, NEW P, Pruned(c, f, P)
        PROVE  \/ r \in evidence_holds'
               \/ r.hold.epoch <= retention_anchor'.epoch
    <3>1. r.hold \in Holds /\ c \in Drafts
      BY <1>1 DEF Inv, TypeInv, TypeOK, HoldRows
    <3>2. r.hold.epoch \in Nat /\ c.epoch \in Nat
      BY <3>1, InputAssumption DEF Epochs
    <3> QED
      BY <2>2, <3>2 DEF Pruned, ApplyPrune
  <2> QED
    BY ZenonT(60), <1>1, <2>1, <2>2, HoldChanges
<1> QED
  BY <1>1, Invariance, PTL DEF Spec, ResolutionIsFinal

-----------------------------------------------------------------------------
(* What a prepared inbox message and the cursors refer to: the message     *)
(* after the cursor it was prepared on.                                    *)
CursorsInFeed ==
  \A s \in Sources : inbox_cursors[s] \in -1..(Len(Feeds[s]) - 1)

PreparedFromFeed ==
  \A w \in Writers :
    LET ws == pending[w]
    IN ws # NoWriteSet /\ ws.kind = "inbox" =>
         /\ ws.expected_sequence + 2 \in 1..Len(Feeds[ws.source])
         /\ ws.operation = Feeds[ws.source][ws.expected_sequence + 2]

FeedInv == CursorsInFeed /\ PreparedFromFeed

(* The messages of a feed are operations.                                  *)
LEMMA FeedTypes ==
  ASSUME NEW s \in Sources
  PROVE  /\ Len(Feeds[s]) \in Nat
         /\ \A i \in 1..Len(Feeds[s]) : Feeds[s][i] \in Operations
BY InputAssumption

(* Cursors stay within their feeds, and a prepared message is the one      *)
(* after its cursor.                                                       *)
LEMMA FeedStep ==
  ASSUME TypeInv, FeedInv, [Next]_vars
  PROVE  FeedInv'
<1> USE DEF FeedInv
<1>1. ASSUME NEW w \in Writers, NEW s \in Sources, NEW i \in 1..Len(Feeds[s]),
             PrepareInbox(w, s, i)
      PROVE  FeedInv'
  <2>1. inbox_cursors[s] \in Int /\ Len(Feeds[s]) \in Nat
    BY FeedTypes DEF TypeInv, TypeOK
  <2>2. inbox_cursors[s] + 2 = i
    BY <1>1, <2>1 DEF PrepareInbox
  <2>3. CursorsInFeed'
    BY <1>1 DEF PrepareInbox, CursorsInFeed, holdVars
  <2>4. pending' = [pending EXCEPT ![w] =
          [kind |-> "inbox", expected_revision |-> revision, source |-> s,
           expected_sequence |-> inbox_cursors[s], operation |-> Feeds[s][i]]]
    BY <1>1 DEF PrepareInbox
  <2>5. PreparedFromFeed'
    BY <2>2, <2>4 DEF PreparedFromFeed, TypeInv, TypeOK
  <2> QED
    BY <2>3, <2>5
<1>2. ASSUME NEW w \in Writers, ApplyEvidenceInbox(w)
      PROVE  FeedInv'
  <2> DEFINE ws == pending[w]
  <2>1. ws \in InboxWriteSets
    BY <1>2 DEF ApplyEvidenceInbox, TypeInv, TypeOK, SealWriteSets, PruneWriteSets
  <2>2. ws.source \in Sources /\ ws.expected_sequence \in Int
    BY <2>1 DEF InboxWriteSets
  <2>3. ws.expected_sequence + 2 \in 1..Len(Feeds[ws.source])
    BY <1>2 DEF ApplyEvidenceInbox, PreparedFromFeed
  <2>4. CursorsInFeed'
    <3>1. CASE UNCHANGED inbox_cursors
      BY <3>1 DEF CursorsInFeed
    <3>2. CASE /\ InboxIsCurrent(ws)
               /\ inbox_cursors' = [inbox_cursors EXCEPT ![ws.source] = @ + 1]
      <4>1. inbox_cursors[ws.source] = ws.expected_sequence
        BY <3>2 DEF InboxIsCurrent
      <4>2. inbox_cursors'[ws.source] \in -1..(Len(Feeds[ws.source]) - 1)
        BY <2>2, <2>3, <3>2, <4>1, FeedTypes DEF TypeInv, TypeOK
      <4> QED
        BY <3>2, <4>2 DEF CursorsInFeed, TypeInv, TypeOK
    <3> QED
      BY <1>2, <3>1, <3>2 DEF ApplyEvidenceInbox, holdVars
  <2>5. PreparedFromFeed'
    BY <1>2 DEF ApplyEvidenceInbox, PreparedFromFeed, TypeInv, TypeOK
  <2> QED
    BY <2>4, <2>5
<1>3. ASSUME inbox_cursors' = inbox_cursors,
             \/ pending' = pending
             \/ \E w \in Writers : \E v :
                  /\ pending' = [pending EXCEPT ![w] = v]
                  /\ v = NoWriteSet \/ v.kind # "inbox"
      PROVE  FeedInv'
  BY <1>3 DEF CursorsInFeed, PreparedFromFeed, TypeInv, TypeOK
<1>4. ASSUME NEW w \in Writers, NEW c \in Drafts, NEW l \in DestinationLists,
             PrepareSeal(w, c, l)
      PROVE  FeedInv'
  <2> DEFINE v == [kind |-> "seal", expected_revision |-> revision,
                   expected_snapshot |-> SealSnapshot(c, l), checkpoint |-> c,
                   destinations |-> l]
  <2>1. /\ inbox_cursors' = inbox_cursors
        /\ pending' = [pending EXCEPT ![w] = v]
    BY <1>4 DEF PrepareSeal, holdVars
  <2>2. v.kind # "inbox"
    OBVIOUS
  <2> HIDE DEF v
  <2> QED
    BY ZenonT(60), <1>3, <2>1, <2>2
<1>5. ASSUME NEW w \in Writers, NEW r \in 0..(head.epoch + 1),
             NEW P \in ProtectedSets, PreparePrune(w, r, P)
      PROVE  FeedInv'
  <2>1. inbox_cursors' = inbox_cursors
    BY <1>5 DEF PreparePrune, holdVars
  <2>2. PICK c \in checkpoints :
          pending' = [pending EXCEPT ![w] =
            [kind |-> "prune", expected_revision |-> revision,
             expected_anchor |-> retention_anchor,
             next_anchor |-> [epoch |-> c.epoch, digest |-> c.digest],
             retain_from_epoch |-> r, protected_epochs |-> P]]
    BY ZenonT(60), <1>5 DEF PreparePrune, PruneCandidates
  <2> DEFINE v == [kind |-> "prune", expected_revision |-> revision,
                   expected_anchor |-> retention_anchor,
                   next_anchor |-> [epoch |-> c.epoch, digest |-> c.digest],
                   retain_from_epoch |-> r, protected_epochs |-> P]
  <2>3. pending' = [pending EXCEPT ![w] = v] /\ v.kind # "inbox"
    BY <2>2
  <2> HIDE DEF v
  <2> QED
    BY ZenonT(60), <1>3, <2>1, <2>3
<1>6. ASSUME NEW w \in Writers, CommitSeal(w) \/ PruneEvidence(w) \/ Crash(w)
      PROVE  FeedInv'
  BY <1>3, <1>6 DEF CommitSeal, PruneEvidence, Crash, holdVars
<1> QED
  BY ZenonT(60), <1>1, <1>2, <1>3, <1>4, <1>5, <1>6 DEF Next, AdmitEvent, ClaimOutbox,
     ReleaseOutbox, AcknowledgeOutbox, PlaceEvidenceHold, ResolveEvidenceHold,
     WriteEvidencePollJob, Tick, vars, holdVars

(* The effect of a message, once in the store, stays.                      *)
Effected(op) ==
  \/ op.hold.epoch <= retention_anchor.epoch
  \/ \E r \in evidence_holds :
       /\ r.hold = op.hold
       /\ op.kind = "resolve" => r.decision = op.decision

(* The effect of a message that was applied stays until its epoch is       *)
(* pruned.                                                                 *)
LEMMA EffectsStay ==
  ASSUME Inv, [Next]_vars, NEW op \in Operations, Effected(op)
  PROVE  Effected(op)'
<1>0. /\ op.hold \in Holds /\ op.hold.epoch \in Nat
      /\ op.kind \in {"place", "resolve"}
      /\ op.kind = "resolve" => op.decision # "none"
  BY InputAssumption DEF Operations, Epochs
<1>1. ASSUME NEW c \in checkpoints, NEW r, NEW P, Pruned(c, r, P)
      PROVE  Effected(op)'
  <2>1. /\ retention_anchor'.epoch = c.epoch
        /\ c.epoch > retention_anchor.epoch
        /\ evidence_holds' = {q \in evidence_holds :
                                q.hold.epoch > c.epoch \/ q.decision = "none"}
    BY <1>1 DEF Pruned, ApplyPrune
  <2>2. c.epoch \in Nat /\ retention_anchor.epoch \in Int
    BY SMTT(60), InputAssumption DEF Inv, TypeInv, TypeOK, Anchors, Epochs
  <2>3. CASE op.hold.epoch <= c.epoch
    BY SMTT(60), <1>0, <2>1, <2>2, <2>3 DEF Effected
  <2>4. CASE op.hold.epoch > c.epoch
    <3>1. ~(op.hold.epoch <= retention_anchor.epoch)
      BY SMTT(60), <1>0, <2>1, <2>2, <2>4
    <3>2. \A q \in evidence_holds : q.hold = op.hold => q \in evidence_holds'
      BY SMTT(60), <2>1, <2>4
    <3> QED
      BY SMTT(60), <1>0, <3>1, <3>2 DEF Effected
  <2> QED
    BY SMTT(60), <1>0, <2>2, <2>3, <2>4
<1>2. \/ retention_anchor' = retention_anchor
      \/ \E c \in checkpoints : \E r, P : Pruned(c, r, P)
  BY ZenonT(60), StepCases DEF AdmitEvent, Sealed, ApplyEvidenceInbox, ClaimOutbox,
     ReleaseOutbox, AcknowledgeOutbox, PlaceEvidenceHold, ResolveEvidenceHold,
     TablesUnchanged
<1>3. CASE /\ retention_anchor' = retention_anchor
           /\ evidence_holds \subseteq evidence_holds'
  BY <1>3 DEF Effected
<1>4. ASSUME retention_anchor' = retention_anchor,
             NEW h \in Holds, NEW d \in Decisions,
             [hold |-> h, decision |-> "none"] \in evidence_holds,
             evidence_holds' = ResolvedHolds(h, d)
      PROVE  Effected(op)'
  <2>1. CASE op.hold.epoch <= retention_anchor.epoch
    BY <1>4, <2>1 DEF Effected
  <2>2. ASSUME NEW r \in evidence_holds, r.hold = op.hold,
               op.kind = "resolve" => r.decision = op.decision
        PROVE  Effected(op)'
    <3>1. CASE r # [hold |-> h, decision |-> "none"]
      BY <1>4, <2>2, <3>1 DEF Effected, ResolvedHolds
    <3>2. CASE r = [hold |-> h, decision |-> "none"]
      <4>1. [hold |-> h, decision |-> d] \in evidence_holds'
        BY <1>4 DEF ResolvedHolds
      <4>2. op.kind # "resolve" /\ op.hold = h
        BY <1>0, <2>2, <3>2
      <4> QED
        BY <4>1, <4>2 DEF Effected
    <3> QED
      BY <3>1, <3>2
  <2> QED
    BY <2>1, <2>2 DEF Effected
<1> QED
  BY ZenonT(60), <1>1, <1>2, <1>3, <1>4, HoldChanges

(* Every step keeps the effects of all messages up to the cursors.         *)
LEMMA EffectsStep ==
  ASSUME Inv, FeedInv, InboxEffectsDurable, [Next]_vars
  PROVE  InboxEffectsDurable'
<1> SUFFICES ASSUME NEW s \in Sources, NEW i \in 1..(inbox_cursors'[s] + 1)
             PROVE  Effected(Feeds[s][i])'
  BY DEF InboxEffectsDurable, Effected
<1>1. inbox_cursors'[s] \in Int /\ inbox_cursors[s] \in Int
  BY TypeStep DEF Inv, TypeInv, TypeOK
<1>2. i \in 1..Len(Feeds[s]) /\ Feeds[s][i] \in Operations
  BY SMTT(60), <1>1, FeedStep, FeedTypes DEF Inv, FeedInv, CursorsInFeed
<1>3. CASE i \in 1..(inbox_cursors[s] + 1)
  <2>1. Effected(Feeds[s][i])
    BY <1>3 DEF InboxEffectsDurable, Effected
  <2> QED
    BY <1>2, <2>1, EffectsStay
<1>4. CASE i \notin 1..(inbox_cursors[s] + 1)
  <2>1. inbox_cursors' # inbox_cursors
    BY SMTT(60), <1>4
  <2>2. PICK w \in Writers : ApplyEvidenceInbox(w)
    BY ZenonT(60), <2>1, StepCases DEF AdmitEvent, Sealed, Pruned, ClaimOutbox,
       ReleaseOutbox, AcknowledgeOutbox, PlaceEvidenceHold,
       ResolveEvidenceHold, TablesUnchanged, holdVars
  <2> DEFINE ws == pending[w]
  <2>3. /\ InboxIsCurrent(ws)
        /\ ApplyOperation(ws.operation)
        /\ inbox_cursors' = [inbox_cursors EXCEPT ![ws.source] = @ + 1]
        /\ ws # NoWriteSet /\ ws.kind = "inbox"
    BY <2>1, <2>2 DEF ApplyEvidenceInbox, holdVars
  <2>4. ws \in InboxWriteSets
    BY <2>3 DEF Inv, TypeInv, TypeOK, SealWriteSets, PruneWriteSets
  <2>5. ws.source = s /\ i = inbox_cursors[s] + 2
    BY SMTT(60), <1>1, <1>4, <2>3, <2>4 DEF Inv, TypeInv, TypeOK, InboxWriteSets
  <2>6. ws.operation = Feeds[s][i]
    BY SMTT(60), <2>3, <2>5 DEF FeedInv, PreparedFromFeed, InboxIsCurrent
  <2>7. ApplyOperation(Feeds[s][i])
    BY <2>3, <2>6
  <2> DEFINE op == Feeds[s][i]
  <2> HIDE DEF ws
  <2>8. CASE op.kind = "place"
    <3>1. [hold |-> op.hold, decision |-> "none"] \in evidence_holds'
      BY <2>7, <2>8 DEF ApplyOperation
    <3> QED
      BY <2>8, <3>1 DEF Effected
  <2>9. CASE op.kind = "resolve"
    <3>1. [hold |-> op.hold, decision |-> op.decision] \in evidence_holds'
      BY <2>7, <2>9 DEF ApplyOperation, ResolvedHolds
    <3> QED
      BY <2>9, <3>1 DEF Effected
  <2> QED
    BY <1>2, <2>8, <2>9 DEF Operations
<1> QED
  BY <1>3, <1>4

(* The hold and the cursor of a message move together: after any crash or  *)
(* race, applyEvidenceInbox() has recorded the effect of every message it  *)
(* counts as consumed.                                                     *)
THEOREM InboxEffectsAlwaysDurable == Spec => []InboxEffectsDurable
<1>1. Init => Inv /\ FeedInv /\ InboxEffectsDurable
  <2> SUFFICES ASSUME Init PROVE Inv /\ FeedInv /\ InboxEffectsDurable
    OBVIOUS
  <2>1. \A s \in Sources : inbox_cursors[s] = -1 /\ Len(Feeds[s]) \in Nat
    BY FeedTypes DEF Init
  <2>2. FeedInv
    BY <2>1 DEF Init, FeedInv, CursorsInFeed, PreparedFromFeed
  <2>3. \A s \in Sources : 1..(inbox_cursors[s] + 1) = {}
    BY <2>1
  <2>4. InboxEffectsDurable
    BY <2>3 DEF InboxEffectsDurable
  <2> QED
    BY <2>2, <2>4, InvInit
<1>2. Inv /\ FeedInv /\ InboxEffectsDurable /\ [Next]_vars
        => Inv' /\ FeedInv' /\ InboxEffectsDurable'
  BY InvStep, FeedStep, EffectsStep DEF Inv
<1> QED
  BY <1>1, <1>2, PTL DEF Spec
=============================================================================
