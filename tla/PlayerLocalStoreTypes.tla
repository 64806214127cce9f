----------------------- MODULE PlayerLocalStoreTypes ------------------------
(***************************************************************************)
(* Type correctness of PlayerLocalStore, for every value of its constants, *)
(* and the case analysis of its steps.                                     *)
(***************************************************************************)
EXTENDS PlayerLocalStore, FiniteSetTheorems, TLAPS

(* The type invariant with what a snapshot needs to count the outbox.      *)
TypeInv == TypeOK /\ IsFiniteSet(outbox)

(* The unacknowledged entries of a finite outbox are finite.               *)
LEMMA ActiveOutboxFinite ==
  ASSUME TypeInv
  PROVE  IsFiniteSet(ActiveOutbox) /\ Cardinality(ActiveOutbox) \in Nat
<1>1. ActiveOutbox \subseteq outbox
  BY DEF ActiveOutbox
<1>2. IsFiniteSet(ActiveOutbox)
  BY <1>1, FS_Subset DEF TypeInv
<1> QED
  BY <1>2, FS_CardinalityType

(* The entries a seal inserts have the type of the table.                  *)
LEMMA SealOutboxEntriesType ==
  ASSUME NEW ws \in SealWriteSets
  PROVE  /\ SealOutboxEntries(ws) \subseteq OutboxRows
         /\ IsFiniteSet(SealOutboxEntries(ws))
         /\ Cardinality(SealOutboxEntries(ws)) <= Len(ws.destinations)
         /\ Len(ws.destinations) \in Nat \ {0}
<1> DEFINE n == Len(ws.destinations)
           row(i) == [destination |-> ws.destinations[i],
                      epoch |-> ws.checkpoint.epoch,
                      digest |-> ws.checkpoint.digest,
                      created_order |->
                        ws.expected_snapshot.next_created_order + i - 1,
                      state |-> "pending", lease |-> NoLease]
           f == [i \in 1..n |-> row(i)]
<1>1. /\ ws.destinations \in Seq(Destinations)
      /\ ws.destinations # <<>>
      /\ ws.checkpoint \in Drafts
      /\ ws.expected_snapshot \in Snapshots
  BY InputAssumption DEF SealWriteSets
<1>2. n \in Nat \ {0}
  BY <1>1
<1>3. \A i \in 1..n : row(i) \in OutboxRows
  <2> SUFFICES ASSUME NEW i \in 1..n
               PROVE  row(i) \in OutboxRows
    OBVIOUS
  <2>1. ws.destinations[i] \in Destinations
    BY <1>1, <1>2
  <2>2. ws.checkpoint.epoch \in Nat /\ ws.checkpoint.digest \in Digests
    BY <1>1, InputAssumption DEF Epochs
  <2>3. ws.expected_snapshot.next_created_order + i - 1 \in Nat
    BY <1>1, <1>2 DEF Snapshots
  <2> QED
    BY <2>1, <2>2, <2>3 DEF OutboxRows, Epochs
<1>4. SealOutboxEntries(ws) = {f[i] : i \in 1..n}
  BY ZenonT(60) DEF SealOutboxEntries
<1>5. IsFiniteSet(1..n) /\ Cardinality(1..n) = n
  <2> HIDE DEF n
  <2>1. n \in Int /\ ~(1 > n) /\ n - 1 + 1 = n
    BY <1>2
  <2> QED
    BY <2>1, FS_Interval
<1>6. f \in Surjection(1..n, {f[i] : i \in 1..n})
  BY ZenonT(60) DEF Surjection
<1>7. /\ IsFiniteSet({f[i] : i \in 1..n})
      /\ Cardinality({f[i] : i \in 1..n}) <= n
  BY <1>5, <1>6, FS_Surjection
<1> QED
  BY ZenonT(60), <1>2, <1>3, <1>4, <1>7

(* configure() writes rows of the right types.                             *)
LEMMA TypeInit == Init => TypeInv
<1> SUFFICES ASSUME Init PROVE TypeInv
  OBVIOUS
<1>1. IsFiniteSet(outbox)
  BY FS_EmptySet DEF Init
<1>2. TypeOK
  BY InputAssumption DEF Init, TypeOK, Anchors
<1> QED
  BY <1>1, <1>2 DEF TypeInv
(* A snapshot of well-typed tables is a snapshot.                          *)
LEMMA SnapshotType ==
  ASSUME TypeInv, NEW c, NEW l
  PROVE  SealSnapshot(c, l) \in Snapshots
<1>1. Cardinality(ActiveOutbox) \in Nat
  BY ActiveOutboxFinite
<1> QED
  BY <1>1 DEF SealSnapshot, Snapshots, TypeInv, TypeOK, Anchors, CheckpointAt

(* A row that takes the place of another keeps the table finite and typed. *)
LEMMA ReplaceRowType ==
  ASSUME TypeInv, NEW o, NEW p \in OutboxRows
  PROVE  /\ ReplaceRow(o, p) \subseteq OutboxRows
         /\ IsFiniteSet(ReplaceRow(o, p))
<1>1. IsFiniteSet(outbox \ {o})
  BY FS_RemoveElement DEF TypeInv
<1>2. IsFiniteSet((outbox \ {o}) \cup {p})
  BY <1>1, FS_AddElement
<1> QED
  BY <1>2 DEF ReplaceRow, TypeInv, TypeOK

(* Every transaction keeps the tables well typed.                          *)
LEMMA TypeStep ==
  ASSUME TypeInv, [Next]_vars
  PROVE  TypeInv'
<1> USE DEF TypeInv
<1>1. ASSUME NEW e \in Events, AdmitEvent(e)
      PROVE  TypeInv'
  BY <1>1 DEF AdmitEvent, StoreEvent, StoreEquivocation, IncrementRevision,
     TypeOK, chainVars, outboxVars, holdVars
<1>2. ASSUME NEW w \in Writers, NEW c \in Drafts, NEW l \in DestinationLists,
             PrepareSeal(w, c, l)
      PROVE  TypeInv'
  <2>1. SealSnapshot(c, l) \in Snapshots
    BY SnapshotType
  <2>2. [kind |-> "seal", expected_revision |-> revision,
         expected_snapshot |-> SealSnapshot(c, l), checkpoint |-> c,
         destinations |-> l] \in SealWriteSets
    BY <2>1 DEF SealWriteSets, TypeOK
  <2> QED
    BY <1>2, <2>2 DEF PrepareSeal, TypeOK, eventVars, chainVars, outboxVars,
       holdVars
<1>3. ASSUME NEW w \in Writers, CommitSeal(w)
      PROVE  TypeInv'
  <2> DEFINE ws == pending[w]
  <2>1. /\ pending' = [pending EXCEPT ![w] = NoWriteSet]
        /\ UNCHANGED <<eventVars, retention_anchor, holdVars, now>>
    BY <1>3 DEF CommitSeal
  <2>2. CASE UNCHANGED <<revision, chainVars, outboxVars>>
    BY <2>1, <2>2 DEF TypeOK, eventVars, chainVars, outboxVars, holdVars
  <2>3. CASE ApplySeal(ws)
    <3>1. ws \in SealWriteSets
      BY <1>3 DEF CommitSeal, TypeOK, PruneWriteSets, InboxWriteSets
    <3>2. IsFiniteSet(outbox \cup SealOutboxEntries(ws))
      BY ZenonT(60), <3>1, SealOutboxEntriesType, FS_Union
    <3>3. /\ ws.checkpoint \in Drafts
          /\ ws.checkpoint.epoch \in Nat /\ ws.checkpoint.digest \in Digests
      BY <3>1, InputAssumption DEF SealWriteSets, Epochs
    <3>4. ws.expected_snapshot.next_created_order + Len(ws.destinations) \in Nat
      BY <3>1, SealOutboxEntriesType DEF SealWriteSets, Snapshots
    <3>5. head' \in Anchors
      BY <2>3, <3>3 DEF ApplySeal, Anchors
    <3>6. checkpoints' \subseteq Drafts
      BY <2>3, <3>3 DEF ApplySeal, TypeOK
    <3>7. consumed_closures' \subseteq Epochs
      BY ZenonT(60), <2>3, <3>3 DEF ApplySeal, TypeOK, Epochs
    <3>8. next_created_order' \in Nat /\ revision' \in Nat
      BY <2>3, <3>4 DEF ApplySeal, IncrementRevision, TypeOK
    <3>9. UNCHANGED <<ack_history, sent>>
      BY <2>3 DEF ApplySeal
    <3>10. outbox' \subseteq OutboxRows /\ IsFiniteSet(outbox')
      BY <2>3, <3>1, <3>2, SealOutboxEntriesType DEF ApplySeal, TypeOK
    <3> QED
      BY <2>1, <3>5, <3>6, <3>7, <3>8, <3>9, <3>10 DEF TypeOK, eventVars, holdVars
  <2> QED
    BY <1>3, <2>2, <2>3 DEF CommitSeal
<1>4. ASSUME NEW w \in Writers, NEW s \in Sources, NEW i \in 1..Len(Feeds[s]),
             PrepareInbox(w, s, i)
      PROVE  TypeInv'
  <2>1. Feeds[s][i] \in Operations
    BY InputAssumption
  <2>2. [kind |-> "inbox", expected_revision |-> revision, source |-> s,
         expected_sequence |-> inbox_cursors[s], operation |-> Feeds[s][i]]
          \in InboxWriteSets
    BY <2>1 DEF InboxWriteSets, TypeOK
  <2> QED
    BY <1>4, <2>2 DEF PrepareInbox, TypeOK, eventVars, chainVars, outboxVars,
       holdVars
<1>5. ASSUME NEW w \in Writers, ApplyEvidenceInbox(w)
      PROVE  TypeInv'
  <2> DEFINE ws == pending[w]
  <2>1. ws \in InboxWriteSets
    BY <1>5 DEF ApplyEvidenceInbox, TypeOK, SealWriteSets, PruneWriteSets
  <2>2. ws.operation \in Operations /\ ws.source \in Sources
    BY <2>1 DEF InboxWriteSets
  <2>3. ApplyOperation(ws.operation) => evidence_holds' \subseteq HoldRows
    BY <2>2 DEF ApplyOperation, ResolvedHolds, HoldRows, Operations, TypeOK
  <2> QED
    BY <1>5, <2>2, <2>3 DEF ApplyEvidenceInbox, IncrementRevision, TypeOK,
       eventVars, chainVars, outboxVars, holdVars
<1>6. ASSUME NEW w \in Writers, NEW r \in 0..(head.epoch + 1),
             NEW P \in ProtectedSets, PreparePrune(w, r, P)
      PROVE  TypeInv'
  <2>1. PICK c \in checkpoints :
          pending' = [pending EXCEPT ![w] =
            [kind |-> "prune", expected_revision |-> revision,
             expected_anchor |-> retention_anchor,
             next_anchor |-> [epoch |-> c.epoch, digest |-> c.digest],
             retain_from_epoch |-> r, protected_epochs |-> P]]
    BY ZenonT(60), <1>6 DEF PreparePrune, PruneCandidates
  <2>2. [epoch |-> c.epoch, digest |-> c.digest] \in Anchors
    BY InputAssumption DEF TypeOK, Anchors, Epochs
  <2>3. r \in Nat
    BY DEF TypeOK, Anchors
  <2>4. [kind |-> "prune", expected_revision |-> revision,
         expected_anchor |-> retention_anchor,
         next_anchor |-> [epoch |-> c.epoch, digest |-> c.digest],
         retain_from_epoch |-> r, protected_epochs |-> P] \in PruneWriteSets
    BY <2>2, <2>3 DEF PruneWriteSets, TypeOK
  <2> QED
    BY <1>6, <2>1, <2>4 DEF PreparePrune, TypeOK, eventVars, chainVars,
       outboxVars, holdVars
<1>7. ASSUME NEW w \in Writers, PruneEvidence(w)
      PROVE  TypeInv'
  <2> DEFINE ws == pending[w]
  <2>1. /\ pending' = [pending EXCEPT ![w] = NoWriteSet]
        /\ UNCHANGED <<head, next_created_order, inbox_cursors, sent,
                       stored_log, now>>
    BY <1>7 DEF PruneEvidence
  <2>2. CASE UNCHANGED <<revision, events, equivocations, checkpoints,
                         consumed_closures, outbox, ack_history,
                         evidence_holds, retention_anchor>>
    BY <2>1, <2>2 DEF TypeOK
  <2>3. CASE ApplyPrune(ws.next_anchor.epoch, ws.next_anchor)
    <3>1. ws \in PruneWriteSets
      BY <1>7 DEF PruneEvidence, TypeOK, SealWriteSets, InboxWriteSets
    <3>2. retention_anchor' \in Anchors
      BY <2>3, <3>1 DEF ApplyPrune, PruneWriteSets
    <3>3. outbox' \subseteq outbox
      BY <2>3 DEF ApplyPrune, Retained
    <3>4. IsFiniteSet(outbox')
      BY <3>3, FS_Subset
    <3> QED
      BY <2>1, <2>3, <3>2, <3>3, <3>4 DEF ApplyPrune, Retained,
         IncrementRevision, TypeOK
  <2> QED
    BY <1>7, <2>2, <2>3 DEF PruneEvidence
<1>8. ASSUME NEW w \in Writers, Crash(w)
      PROVE  TypeInv'
  BY <1>8 DEF Crash, TypeOK, eventVars, chainVars, outboxVars, holdVars
<1>9. ASSUME NEW o \in outbox, ClaimOutbox(o)
      PROVE  TypeInv'
  <2> DEFINE p == InState(o, "in_flight", LeaseUntil)
  <2>1. p \in OutboxRows /\ o.created_order \in Nat
    BY BoundAssumption DEF TypeOK, OutboxRows, LeaseUntil, InState
  <2>2. outbox' \subseteq OutboxRows /\ IsFiniteSet(outbox')
    BY <1>9, <2>1, ReplaceRowType DEF ClaimOutbox
  <2>3. sent' \subseteq Nat
    BY ZenonT(60), <1>9, <2>1 DEF ClaimOutbox, TypeOK
  <2> QED
    BY <1>9, <2>2, <2>3 DEF ClaimOutbox, IncrementRevision, TypeOK, eventVars,
       chainVars, holdVars
<1>10. ASSUME NEW o \in outbox, ReleaseOutbox(o)
       PROVE  TypeInv'
  <2> DEFINE p == InState(o, "pending", NoLease)
  <2>1. p \in OutboxRows
    BY DEF TypeOK, OutboxRows, InState
  <2>2. outbox' \subseteq OutboxRows /\ IsFiniteSet(outbox')
    BY <1>10, <2>1, ReplaceRowType DEF ReleaseOutbox
  <2> QED
    BY <1>10, <2>2 DEF ReleaseOutbox, IncrementRevision, TypeOK, eventVars,
       chainVars, holdVars
<1>11. ASSUME NEW o \in outbox, NEW d \in {"accepted", "duplicate"},
              AcknowledgeOutbox(o, d)
       PROVE  TypeInv'
  <2> DEFINE p == InState(o, "acknowledged", NoLease)
  <2>1. p \in OutboxRows
    BY DEF TypeOK, OutboxRows, InState
  <2>2. outbox' \subseteq OutboxRows /\ IsFiniteSet(outbox')
    BY <1>11, <2>1, ReplaceRowType DEF AcknowledgeOutbox
  <2>3. [authority |-> o.destination, epoch |-> o.epoch, digest |-> o.digest,
         decision |-> d] \in AckRows
    BY DEF TypeOK, OutboxRows, AckRows
  <2> QED
    BY <1>11, <2>2, <2>3 DEF AcknowledgeOutbox, IncrementRevision, TypeOK,
       eventVars, chainVars, holdVars
<1>12. ASSUME NEW h \in Holds, PlaceEvidenceHold(h)
       PROVE  TypeInv'
  BY <1>12 DEF PlaceEvidenceHold, IncrementRevision, HoldRows, TypeOK,
     eventVars, chainVars, outboxVars
<1>13. ASSUME NEW h \in Holds, NEW d \in Decisions, ResolveEvidenceHold(h, d)
       PROVE  TypeInv'
  BY <1>13 DEF ResolveEvidenceHold, ResolvedHolds, IncrementRevision, HoldRows,
     TypeOK, eventVars, chainVars, outboxVars
<1>14. CASE WriteEvidencePollJob
  BY <1>14 DEF WriteEvidencePollJob, IncrementRevision, TypeOK, eventVars,
     chainVars, outboxVars, holdVars
<1>15. CASE Tick
  BY <1>15 DEF Tick, TypeOK, eventVars, chainVars, outboxVars, holdVars
<1>16. CASE UNCHANGED vars
  BY <1>16 DEF vars, TypeOK, eventVars, chainVars, outboxVars, holdVars
<1> QED
  BY <1>1, <1>2, <1>3, <1>4, <1>5, <1>6, <1>7, <1>8, <1>9, <1>10, <1>11,
     <1>12, <1>13, <1>14, <1>15, <1>16 DEF Next

(* TypeOK holds of every table after any sequence of store operations.     *)
THEOREM TypeCorrect == Spec => []TypeOK
<1>1. Init => TypeInv
  BY TypeInit
<1>2. TypeInv /\ [Next]_vars => TypeInv'
  BY TypeStep
<1>3. TypeInv => TypeOK
  BY DEF TypeInv
<1> QED
  BY <1>1, <1>2, <1>3, PTL DEF Spec

-----------------------------------------------------------------------------
(* The inductive invariant: the rows are typed and the image is valid.     *)
Inv == TypeInv /\ ImageValid

(* A seal that commits: what the two comparisons of commitSeal() establish *)
(* about the write set it applies.                                         *)
Sealed(ws) ==
  /\ ws \in SealWriteSets
  /\ ws.checkpoint.epoch = head.epoch + 1
  /\ ws.checkpoint.previous = head.digest
  /\ ws.expected_snapshot.next_created_order = next_created_order
  /\ Cardinality(ActiveOutbox) + Len(ws.destinations) <= Capacity
  /\ ApplySeal(ws)
  /\ UNCHANGED <<eventVars, retention_anchor, holdVars>>

(* A prune that commits: everything through checkpoint c was prunable.     *)
Pruned(c, retain_from, protected) ==
  /\ c \in checkpoints
  /\ c.epoch > retention_anchor.epoch
  /\ \A d \in checkpoints :
       d.epoch <= c.epoch => Prunable(d, retain_from, protected)
  /\ ApplyPrune(c.epoch, [epoch |-> c.epoch, digest |-> c.digest])
  /\ UNCHANGED <<head, next_created_order, inbox_cursors, sent, stored_log>>

(* commitSeal() applies its write set or changes no table.                 *)
LEMMA CommitSealCases ==
  ASSUME TypeInv, NEW w \in Writers, CommitSeal(w)
  PROVE  \/ Sealed(pending[w])
         \/ UNCHANGED <<eventVars, chainVars, retention_anchor, outboxVars, holdVars>>
<1> DEFINE ws == pending[w]
<1>1. ws \in SealWriteSets
  BY DEF CommitSeal, TypeInv, TypeOK, PruneWriteSets, InboxWriteSets
<1>2. CASE SealIsCurrent(ws) /\ SealWriteSetValid(ws) /\ ApplySeal(ws)
  <2>1. SealSnapshot(ws.checkpoint, ws.destinations) = ws.expected_snapshot
    BY <1>2 DEF SealIsCurrent
  <2>2. /\ ws.expected_snapshot.current_epoch = head.epoch
        /\ ws.expected_snapshot.current_digest = head.digest
        /\ ws.expected_snapshot.outbox_entry_count = Cardinality(ActiveOutbox)
        /\ ws.expected_snapshot.next_created_order = next_created_order
    <3>1. \E known, matches, complete, consumed :
            SealSnapshot(ws.checkpoint, ws.destinations) =
              [current_epoch |-> head.epoch,
               current_digest |-> head.digest,
               incoming_epoch_known |-> known,
               known_digest_matches |-> matches,
               known_seal_complete |-> complete,
               closure_consumed |-> consumed,
               outbox_entry_count |-> Cardinality(ActiveOutbox),
               next_created_order |-> next_created_order]
      BY Zenon DEF SealSnapshot
    <3>2. PICK known, matches, complete, consumed :
            ws.expected_snapshot =
              [current_epoch |-> head.epoch,
               current_digest |-> head.digest,
               incoming_epoch_known |-> known,
               known_digest_matches |-> matches,
               known_seal_complete |-> complete,
               closure_consumed |-> consumed,
               outbox_entry_count |-> Cardinality(ActiveOutbox),
               next_created_order |-> next_created_order]
      BY <2>1, <3>1, Zenon
    <3> HIDE DEF ws
    <3> QED
      BY <3>2
  <2>3. UNCHANGED <<eventVars, retention_anchor, holdVars>>
    BY DEF CommitSeal
  <2> QED
    BY <1>1, <1>2, <2>2, <2>3 DEF SealWriteSetValid, Sealed
<1>3. CASE UNCHANGED <<revision, chainVars, outboxVars>>
  BY SMTT(60), <1>3 DEF CommitSeal
<1> QED
  BY <1>2, <1>3 DEF CommitSeal

(* pruneEvidence() applies its write set or changes no table.              *)
LEMMA PruneEvidenceCases ==
  ASSUME Inv, NEW w \in Writers, PruneEvidence(w)
  PROVE  \/ \E c \in checkpoints :
              Pruned(c, pending[w].retain_from_epoch, pending[w].protected_epochs)
         \/ UNCHANGED <<eventVars, chainVars, retention_anchor, outboxVars, holdVars>>
<1> DEFINE ws == pending[w]
           r == ws.retain_from_epoch
           P == ws.protected_epochs
<1>1. UNCHANGED <<head, next_created_order, inbox_cursors, sent, stored_log>>
  BY DEF PruneEvidence
<1>2. CASE /\ PruneWriteSetValid(ws)
           /\ ApplyPrune(ws.next_anchor.epoch, ws.next_anchor)
  <2>1. PICK c \in PruneCandidates(r, P) :
          c.epoch = ws.next_anchor.epoch /\ c.digest = ws.next_anchor.digest
    BY SMTT(60), <1>2 DEF PruneWriteSetValid
  <2>2. ws.next_anchor \in Anchors
    BY SMTT(60) DEF PruneEvidence, Inv, TypeInv, TypeOK, PruneWriteSets, SealWriteSets,
       InboxWriteSets
  <2>3. ws.next_anchor = [epoch |-> c.epoch, digest |-> c.digest]
    BY SMTT(60), <2>1, <2>2 DEF Anchors
  <2>4. c \in checkpoints /\ c.epoch > retention_anchor.epoch
    BY <1>2, <2>1 DEF PruneCandidates, PruneWriteSetValid
  <2>5. ASSUME NEW d \in checkpoints, d.epoch <= c.epoch
        PROVE  Prunable(d, r, P)
    <3>1. d.epoch \in (retention_anchor.epoch + 1)..head.epoch
      BY DEF Inv, ImageValid, ChainValid
    <3>2. d.epoch \in (retention_anchor.epoch + 1)..c.epoch
      BY <2>4, <2>5, <3>1, InputAssumption DEF Inv, TypeInv, TypeOK, Anchors, Epochs
    <3>3. PICK e \in checkpoints : e.epoch = d.epoch /\ Prunable(e, r, P)
      BY SMTT(60), <2>1, <3>2 DEF PruneCandidates
    <3>4. e = d
      BY <3>3 DEF Inv, ImageValid, ChainValid
    <3> QED
      BY <3>3, <3>4
  <2>6. ApplyPrune(c.epoch, [epoch |-> c.epoch, digest |-> c.digest])
    BY <1>2, <2>1, <2>3, Zenon
  <2> HIDE DEF ws, r, P
  <2>7. Pruned(c, r, P)
    BY <1>1, <2>4, <2>5, <2>6, Zenon DEF Pruned
  <2> USE DEF ws, r, P
  <2> QED
    BY <2>4, <2>7
<1>3. CASE UNCHANGED <<revision, events, equivocations, checkpoints,
                       consumed_closures, outbox, ack_history,
                       evidence_holds, retention_anchor>>
  BY <1>1, <1>3 DEF eventVars, chainVars, outboxVars, holdVars
<1> QED
  BY SMTT(60), <1>2, <1>3 DEF PruneEvidence

(* Every step is one of the writes below, or leaves all tables alone.      *)
TablesUnchanged ==
  UNCHANGED <<eventVars, chainVars, retention_anchor, outboxVars, holdVars>>

(* Every step of the store, by what it does to the tables.                 *)
LEMMA StepCases ==
  ASSUME Inv, [Next]_vars
  PROVE  \/ \E e \in Events : AdmitEvent(e)
         \/ \E w \in Writers : Sealed(pending[w])
         \/ \E c \in checkpoints : \E r, P : Pruned(c, r, P)
         \/ \E w \in Writers : ApplyEvidenceInbox(w)
         \/ \E o \in outbox : ClaimOutbox(o)
         \/ \E o \in outbox : ReleaseOutbox(o)
         \/ \E o \in outbox, d \in {"accepted", "duplicate"} :
              AcknowledgeOutbox(o, d)
         \/ \E h \in Holds : PlaceEvidenceHold(h)
         \/ \E h \in Holds, d \in Decisions : ResolveEvidenceHold(h, d)
         \/ TablesUnchanged
<1>1. ASSUME NEW w \in Writers, CommitSeal(w)
      PROVE  Sealed(pending[w]) \/ TablesUnchanged
  BY <1>1, CommitSealCases DEF Inv, TablesUnchanged
<1>2. ASSUME NEW w \in Writers, PruneEvidence(w)
      PROVE  \/ \E c \in checkpoints : \E r, P : Pruned(c, r, P)
             \/ TablesUnchanged
  BY <1>2, PruneEvidenceCases DEF TablesUnchanged
<1>3. ASSUME NEW w \in Writers, NEW c \in Drafts, NEW l \in DestinationLists,
             PrepareSeal(w, c, l)
      PROVE  TablesUnchanged
  BY SMTT(60), <1>3 DEF PrepareSeal, TablesUnchanged
<1>4. ASSUME NEW w \in Writers, NEW s \in Sources, NEW i \in 1..Len(Feeds[s]),
             PrepareInbox(w, s, i)
      PROVE  TablesUnchanged
  BY <1>4 DEF PrepareInbox, TablesUnchanged
<1>5. ASSUME NEW w \in Writers, NEW r \in 0..(head.epoch + 1),
             NEW P \in ProtectedSets, PreparePrune(w, r, P)
      PROVE  TablesUnchanged
  BY <1>5 DEF PreparePrune, TablesUnchanged
<1>6. ASSUME NEW w \in Writers, Crash(w)
      PROVE  TablesUnchanged
  BY <1>6 DEF Crash, TablesUnchanged
<1>7. WriteEvidencePollJob => TablesUnchanged
  BY DEF WriteEvidencePollJob, TablesUnchanged
<1>8. Tick => TablesUnchanged
  BY DEF Tick, TablesUnchanged
<1>9. UNCHANGED vars => TablesUnchanged
  BY DEF vars, TablesUnchanged
<1> QED
  BY <1>1, <1>2, <1>3, <1>4, <1>5, <1>6, <1>7, <1>8, <1>9 DEF Next
=============================================================================
