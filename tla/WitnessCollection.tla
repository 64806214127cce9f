-------------------------- MODULE WitnessCollection --------------------------
(***************************************************************************)
(* Collections of witness approvals for a checkpoint                       *)
(* (checkpoint-witness-collection.ts), with the handlers of the            *)
(* GameAuditShard that start and fill them and the seal that uses them     *)
(* (index.ts), and the witnesses (witness-client.ts).                      *)
(*                                                                         *)
(* A statement names a destination and a checkpoint; the id of its         *)
(* collection leaves out the parent.  An approval is its witness, the      *)
(* statement, whether its signature is good, and the time of signing,      *)
(* which is part of what is signed.  The policy is configured once         *)
(* (CheckpointDelivery).                                                   *)
(***************************************************************************)
EXTENDS Sequences, FiniteSets, ShardRequests

CONSTANTS
  Roster,               \* the witnesses of the policy
  RequiredApprovals,    \* required_approvals of the policy
  LongestCollection,    \* milliseconds to the latest deadline
  SubmissionWindow,     \* WITNESS_SUBMISSION_WINDOW_MS
  SubmissionsPerWindow, \* WITNESS_SUBMISSIONS_PER_WINDOW
  SealedHead            \* the head of the checkpoint runtime: epoch and digest

ASSUME PolicyAssumption == RequiredApprovals \in 1..Cardinality(Roster)

VARIABLES
  collections, \* checkpoint_witness_collections: id to row or Nothing
  approvals,   \* checkpoint_witness_approvals
  conflicts,   \* checkpoint_witness_conflicts
  windows,     \* checkpoint_witness_source_windows
  sealed       \* the seal of the next epoch with its approvals, or Nothing

witnessVars == <<collections, approvals, conflicts, windows, sealed>>

CollectionId(s) == [destination |-> s.destination, epoch |-> s.epoch, digest |-> s.digest]

CollectionIds == {CollectionId(r.statement) : r \in Asked("collect")}

Buckets == {r.bucket : r \in Asked("approve") \cup Asked("submit")}

WitnessInit ==
  /\ collections = [i \in CollectionIds |-> Nothing]
  /\ approvals = {}
  /\ conflicts = {}
  /\ windows = [i \in CollectionIds |-> [b \in Buckets |-> Nothing]]
  /\ sealed = Nothing

Collected(i) == i \in CollectionIds /\ collections[i] # Nothing

Due(i, now) == collections[i].status = "collecting" /\ now >= collections[i].deadline

(* expireIfNeeded                                                          *)
ExpireIfNeeded(i, now) ==
  collections' = IF Due(i, now) THEN [collections EXCEPT ![i].status = "expired"]
                 ELSE collections

ApprovalsOf(i) == {a.approval : a \in {b \in approvals : b.collection = i}}

(* verifyCheckpointDeliveryAuthenticationStandard, for the approvals.      *)
Verified(a, statement) == a.signed /\ a.statement = statement /\ a.witness \in Roster

IsQuorum(as) == Cardinality({a.witness : a \in as}) >= RequiredApprovals

-----------------------------------------------------------------------------
(* A collection is started; the producer's signature is checked in between.*)
CheckCollection(c) ==
  LET r == calls[c].request IN
  /\ At(c, "collect", "new")
  /\ UNCHANGED witnessVars
  /\ IF r.signed /\ r.deadline > clock /\ r.deadline <= clock + LongestCollection
     THEN Proceed(c, "start", Nothing) ELSE End(c)

StartCollection(c) ==
  LET r == calls[c].request
      i == CollectionId(r.statement)
  IN
  /\ At(c, "collect", "start")
  /\ End(c)
  /\ collections' = IF collections[i] # Nothing THEN collections
       ELSE [collections EXCEPT ![i] =
               [statement |-> r.statement, deadline |-> r.deadline, status |-> "collecting"]]
  /\ UNCHANGED <<approvals, conflicts, windows, sealed>>

-----------------------------------------------------------------------------
(* approveCheckpointWitnessCollection: a witness fetches the collection,   *)
(* signs it if it is collecting, and submits the approval.                 *)
FetchCollection(c) ==
  LET i == calls[c].request.collection IN
  /\ At(c, "approve", "new")
  /\ IF ~Collected(i) THEN End(c) /\ UNCHANGED collections
     ELSE /\ ExpireIfNeeded(i, clock)
          /\ Proceed(c, "sign", collections'[i])
  /\ UNCHANGED <<approvals, conflicts, windows, sealed>>

SignApproval(c) ==
  LET r == calls[c].request IN
  /\ At(c, "approve", "sign")
  /\ UNCHANGED witnessVars
  /\ IF /\ calls[c].seen.status = "collecting"
        /\ clock < calls[c].seen.deadline
        /\ r.witness \in Roster
     THEN Proceed(c, "offer", [witness |-> r.witness, issued |-> clock, signed |-> TRUE,
                               statement |-> calls[c].seen.statement])
     ELSE End(c)

(* reserveSubmission: every submission of a source counts, a bad one too.  *)
(* A "submit" is any other client, with an approval of its own making.     *)
InWindow(w) == w # Nothing /\ w.start <= clock /\ clock - w.start < SubmissionWindow

ReserveSubmission(c) ==
  LET r == calls[c].request
      a == IF r.op = "submit" THEN r.approval ELSE calls[c].seen
      w == windows[r.collection][r.bucket]
  IN
  /\ At(c, "approve", "offer") \/ At(c, "submit", "new")
  /\ UNCHANGED <<collections, approvals, conflicts, sealed>>
  /\ \/ /\ ~Collected(r.collection)
        /\ End(c)
        /\ UNCHANGED windows
     \/ /\ Collected(r.collection)
        /\ InWindow(w) /\ w.attempts >= SubmissionsPerWindow
        /\ End(c)
        /\ UNCHANGED windows
     \/ /\ Collected(r.collection)
        /\ ~(InWindow(w) /\ w.attempts >= SubmissionsPerWindow)
        /\ windows' = [windows EXCEPT ![r.collection][r.bucket] =
             IF InWindow(w) THEN [w EXCEPT !.attempts = @ + 1]
             ELSE [start |-> clock, attempts |-> 1]]
        /\ IF Verified(a, collections[r.collection].statement)
           THEN Proceed(c, "store", [approval |-> a, now |-> clock]) ELSE End(c)

(* Faulty variant: only the deadline is looked at.                         *)
ExpiredByDeadline(i, now) == Due(i, now)

ExpiredAt(i, now) == collections[i].status = "expired" \/ Due(i, now)

(* Faulty variant: a ready collection takes further approvals.             *)
NeverFull(i) == FALSE

IsFull(i) == collections[i].status = "ready"

(* submit: in one transaction, at the time the request came in.            *)
SubmitApproval(c) ==
  LET i == calls[c].request.collection
      a == calls[c].seen.approval
      now == calls[c].seen.now
      earlier == {b \in ApprovalsOf(i) : b.witness = a.witness}
  IN
  /\ At(c, "approve", "store") \/ At(c, "submit", "store")
  /\ End(c)
  /\ UNCHANGED <<windows, sealed>>
  /\ \/ /\ ExpiredAt(i, now)
        /\ ExpireIfNeeded(i, now)
        /\ UNCHANGED <<approvals, conflicts>>
     \/ /\ ~ExpiredAt(i, now)
        /\ IsFull(i)
        /\ UNCHANGED <<collections, approvals, conflicts>>
     \/ /\ ~ExpiredAt(i, now)
        /\ ~IsFull(i)
        /\ earlier # {}
        /\ conflicts' = conflicts \cup
             {[collection |-> i, first |-> b, other |-> a] : b \in earlier \ {a}}
        /\ UNCHANGED <<collections, approvals>>
     \/ /\ ~ExpiredAt(i, now)
        /\ ~IsFull(i)
        /\ earlier = {}
        /\ approvals' = approvals \cup {[collection |-> i, approval |-> a]}
        /\ collections' = IF /\ collections[i].status = "collecting"
                             /\ IsQuorum(ApprovalsOf(i) \cup {a})
                          THEN [collections EXCEPT ![i].status = "ready"] ELSE collections
        /\ UNCHANGED conflicts

-----------------------------------------------------------------------------
(* sealCheckpoint with collections: each must be ready for exactly the     *)
(* statement; the first one that is not may turn out to be expired.        *)
StatementOf(p, destination) ==
  [destination |-> destination, epoch |-> p.epoch, digest |-> p.digest,
   previous |-> p.previous]

ReadyFor(ref, statement) ==
  /\ Collected(ref.collection)
  /\ collections[ref.collection].statement = statement
  /\ collections[ref.collection].status = "ready"

ReadCollections(c) ==
  LET r == calls[c].request
      refused == {n \in DOMAIN r.references :
                    ~ReadyFor(r.references[n], StatementOf(r.checkpoint, r.references[n].destination))}
      first == CHOOSE n \in refused : \A m \in refused : n <= m
  IN
  /\ At(c, "seal", "new")
  /\ UNCHANGED <<approvals, conflicts, windows, sealed>>
  /\ IF refused = {}
     THEN /\ Proceed(c, "seal", {[destination |-> r.references[n].destination,
                                  approvals |-> ApprovalsOf(r.references[n].collection)] :
                                   n \in DOMAIN r.references})
          /\ UNCHANGED collections
     ELSE /\ End(c)
          /\ IF Collected(r.references[first].collection)
             THEN ExpireIfNeeded(r.references[first].collection, clock)
             ELSE UNCHANGED collections

(* The approvals are verified again, and then the next epoch is sealed;    *)
(* the rest of the transaction is in CheckpointDelivery.                   *)
SealWitnessed(c) ==
  LET p == calls[c].request.checkpoint IN
  /\ At(c, "seal", "seal")
  /\ End(c)
  /\ sealed' = IF /\ \A d \in calls[c].seen :
                       /\ \A a \in d.approvals : Verified(a, StatementOf(p, d.destination))
                       /\ IsQuorum(d.approvals)
                  /\ sealed = Nothing
                  /\ p.epoch = SealedHead.epoch + 1
                  /\ p.previous = SealedHead.digest
               THEN [checkpoint |-> p, authentications |-> calls[c].seen]
               ELSE sealed
  /\ UNCHANGED <<collections, approvals, conflicts, windows>>

-----------------------------------------------------------------------------
WitnessStep(c) ==
  /\ UNCHANGED clock
  /\ \/ CheckCollection(c) \/ StartCollection(c)
     \/ FetchCollection(c) \/ SignApproval(c)
     \/ ReserveSubmission(c) \/ SubmitApproval(c)
     \/ ReadCollections(c) \/ SealWitnessed(c)

-----------------------------------------------------------------------------
(* What is sealed carries for every destination a quorum of approvals of   *)
(* exactly the sealed statement, and they are still all the approvals of   *)
(* its collection, which is ready.                                         *)
SealsAreWitnessed ==
  sealed # Nothing =>
    \A d \in sealed.authentications :
      LET s == StatementOf(sealed.checkpoint, d.destination) IN
      /\ ReadyFor([collection |-> CollectionId(s)], s)
      /\ d.approvals = ApprovalsOf(CollectionId(s))
      /\ IsQuorum(d.approvals)

(* What a seal rests on stays: a collection is ready exactly when a quorum *)
(* of distinct witnesses of the roster has approved it; once it is ready   *)
(* or expired neither its status nor its approvals change, not by an       *)
(* approval that came in before the deadline and is stored late, nor by a  *)
(* witness that signs again; and sealed checkpoints keep their quorums.    *)
WitnessesStand ==
  [][/\ SealsAreWitnessed'
     /\ \A i \in CollectionIds : collections[i] # Nothing =>
          /\ collections[i].status # "collecting" =>
               collections'[i] = collections[i] /\ ApprovalsOf(i)' = ApprovalsOf(i)
          /\ collections'[i].status = "ready" <=> IsQuorum(ApprovalsOf(i)')]_witnessVars
=============================================================================
