---------------------------- MODULE ReferenceGame ----------------------------
(***************************************************************************)
(* The reference-game authority: the pve handlers of the GameAuditShard    *)
(* Durable Object (index.ts) that verify game checkpoints and items, move  *)
(* items between owners, list them on the market, and revoke or restore    *)
(* their lineage under arbiter certificates.                               *)
(*                                                                         *)
(* Each handler is a call (ShardRequests).                                 *)
(*                                                                         *)
(* A digest is the value it is computed from.  The id of an ownership head *)
(* commits to the last transfer and so to all earlier ones: it is the      *)
(* sequence of the owners since the creation.  Owner id and owner key are  *)
(* one value.  A transfer, a listing and a decision are their requests.    *)
(***************************************************************************)
EXTENDS Integers, Sequences, FiniteSets, ShardRequests

CONSTANTS
  Assets,           \* item ids
  Migrated,         \* receipts stored before ownership heads existed
  ReservationLimit, \* REFERENCE_GAME_VERIFICATIONS_PER_WINDOW
  WindowLength,     \* REFERENCE_GAME_VERIFICATION_WINDOW_MS
  ClockSkew         \* lineage decision clock skew

Listings == Asked("list")

LineageKeys == {<<r.asset, r.ancestor>> : r \in Asked("decide")}

Cases == {r.case : r \in Asked("open")}

Sources == {k.source : k \in Cases}

VARIABLES
  window,      \* reference_game_verification_windows of the callers' source
  checkpoints, \* reference_game_checkpoint_states
  receipts,    \* reference_game_item_receipts: asset to receipt
  heads,       \* reference_game_asset_ownership_heads: asset to owners
  transfers,   \* reference_game_item_transfers
  listings,    \* reference_game_market_listings: listing to status
  lineage,     \* reference_game_asset_lineage_heads
  decisions,   \* reference_game_asset_lineage_decisions
  cases,       \* reference_game_evidence_lineage_cases
  notices,     \* reference_game_evidence_case_resolution_notices per source
  inbox        \* reference_game_evidence_inbox_messages per source

tables == <<checkpoints, receipts, heads, transfers, listings, lineage,
            decisions, cases, notices, inbox>>
gameVars == <<clock, window, tables, calls>>

(* The ancestor that is the creation of the item, not a transfer.          *)
Origin == Nothing

(* A lineage without a row counts as eligible at revision 0.               *)
Unquestioned == [revision |-> 0, status |-> "eligible", last |-> Nothing]

NoCase == [status |-> "none", disposition |-> Nothing, resolution |-> Nothing]

GameInit ==
  /\ window = Nothing
  /\ checkpoints = {}
  /\ receipts = Migrated
  /\ heads = [a \in Assets |-> <<>>]
  /\ transfers = {}
  /\ listings = [l \in Listings |-> "none"]
  /\ lineage = [k \in LineageKeys |-> Unquestioned]
  /\ decisions = {}
  /\ cases = [k \in Cases |-> NoCase]
  /\ notices = [s \in Sources |-> <<>>]
  /\ inbox = [s \in Sources |-> <<>>]

-----------------------------------------------------------------------------
(* A refusal: the handler answers an error and has changed nothing more.   *)
Refuse(c) == End(c) /\ UNCHANGED tables

(* The handler goes on iff its checks pass, and changes nothing.           *)
GoOnIf(c, checks, step, seen) ==
  /\ UNCHANGED tables
  /\ IF checks THEN Proceed(c, step, seen) ELSE End(c)

(* The window of a source: it starts over when it has passed, or when the  *)
(* clock reads less than its start.                                        *)
WindowOver ==
  \/ window = Nothing
  \/ clock < window.start
  \/ clock - window.start >= WindowLength

Admitted == WindowOver \/ window.attempts < ReservationLimit

Reserve ==
  window' = IF WindowOver THEN [start |-> clock, attempts |-> 1]
            ELSE IF Admitted THEN [window EXCEPT !.attempts = @ + 1]
            ELSE window

(* A call that passes the limit starts; another is answered 429.           *)
Start(c, op, effect) ==
  /\ At(c, op, "new")
  /\ Reserve
  /\ UNCHANGED clock
  /\ IF Admitted THEN effect ELSE Refuse(c)

Continue(c, op, step) ==
  /\ At(c, op, step)
  /\ UNCHANGED <<clock, window>>

-----------------------------------------------------------------------------
(* Checkpoints and items.                                                  *)
CheckpointRow(run, epoch) ==
  {p \in checkpoints : p.run = run /\ p.epoch = epoch}

(* Nothing at epoch 0, else the parent's row.                              *)
VerificationParent(p) ==
  {q.digest : q \in CheckpointRow(p.run, p.epoch - 1)}

CheckpointAnswer(p) ==
  IF CheckpointRow(p.run, p.epoch) # {}
    THEN IF p \in checkpoints THEN "duplicate" ELSE "conflict"
    ELSE IF \E q \in checkpoints : q.digest = p.digest THEN "conflict"
    ELSE "verified"

(* Replaying the segment from the parent's state yields the checkpoint.    *)
VerifyGameCheckpoint(p, parent) ==
  IF p.epoch = 0 THEN p.parent = Nothing ELSE p.parent \in parent

StartVerification(c, op) ==
  LET p == calls[c].request.checkpoint IN
  Start(c, op,
        GoOnIf(c, p.epoch = 0 \/ VerificationParent(p) # {}, "verify",
               VerificationParent(p)))

VerifyCheckpoint(c) ==
  LET p == calls[c].request.checkpoint IN
  /\ Continue(c, "checkpoint", "verify")
  /\ End(c)
  /\ checkpoints' = IF /\ VerifyGameCheckpoint(p, calls[c].seen)
                       /\ CheckpointAnswer(p) # "conflict"
                    THEN checkpoints \cup {p} ELSE checkpoints
  /\ UNCHANGED <<receipts, heads, transfers, listings, lineage, decisions,
                 cases, notices, inbox>>

InitialHead(receipt) == IF receipt.keyed THEN <<receipt.owner>> ELSE <<>>

(* The stored head, or the initial one that is inserted for the receipt;   *)
(* none if the receipt has no valid owner key.                             *)
OwnershipHead(a) ==
  IF heads[a] # <<>> THEN heads[a] ELSE InitialHead(receipts[a])

EnsureOwnershipHead(a) == heads' = [heads EXCEPT ![a] = OwnershipHead(a)]

(* The receipt of a new item and its first head are stored together.       *)
StoreItem(a, receipt) ==
  /\ receipts' = [receipts EXCEPT ![a] = receipt]
  /\ heads' = [heads EXCEPT ![a] = IF @ # <<>> THEN @ ELSE InitialHead(receipt)]

VerifyItem(c) ==
  LET r == calls[c].request
      p == r.checkpoint
      receipt == [owner |-> r.owner, checkpoint |-> p, keyed |-> TRUE]
  IN
  /\ Continue(c, "create", "verify")
  /\ End(c)
  /\ IF ~(r.signed /\ VerifyGameCheckpoint(p, calls[c].seen))
          \/ CheckpointAnswer(p) = "conflict"
       THEN UNCHANGED <<checkpoints, receipts, heads>>
       ELSE /\ checkpoints' = checkpoints \cup {p}
            /\ \/ /\ receipts[r.asset] = Nothing
                  /\ StoreItem(r.asset, receipt)
               \/ /\ receipts[r.asset] = receipt
                  /\ EnsureOwnershipHead(r.asset)
                  /\ UNCHANGED receipts
               \/ /\ receipts[r.asset] \notin {Nothing, receipt}
                  /\ UNCHANGED <<receipts, heads>>
  /\ UNCHANGED <<transfers, listings, lineage, decisions, cases, notices, inbox>>

-----------------------------------------------------------------------------
(* Ownership.                                                              *)
ActiveListings(a) == {l \in Listings : l.asset = a /\ listings[l] = "active"}

OpenRevocations(a) ==
  {k \in LineageKeys : k[1] = a /\ lineage[k].status = "revoked"}

VersionOf(owners) == Len(owners) - 1

OwnerOf(owners) == owners[Len(owners)]

NextHead(t) == Append(t.previous, t.to)

(* The request names the receipt of a stored item.                         *)
NamesReceipt(r) == receipts[r.asset] # Nothing /\ receipts[r.asset] = r.receipt

StartTransfer(c) ==
  LET t == calls[c].request IN
  Start(c, "transfer",
        GoOnIf(c, NamesReceipt(t) /\ OpenRevocations(t.asset) = {},
               "proof", Nothing))

(* The proofs are verified.  A stored transfer answers "duplicate" or      *)
(* "conflict"; otherwise the current head is read.                         *)
LoadTransfer(c) ==
  LET t == calls[c].request IN
  /\ Continue(c, "transfer", "proof")
  /\ IF ~t.signed \/ t \in transfers
       THEN Refuse(c)
       ELSE /\ EnsureOwnershipHead(t.asset)
            /\ IF OwnershipHead(t.asset) = <<>>
                 THEN End(c)
                 ELSE Proceed(c, "commit", OwnershipHead(t.asset))
            /\ UNCHANGED <<checkpoints, receipts, transfers, listings, lineage,
                           decisions, cases, notices, inbox>>

VerifyAndApplyGameItemTransfer(current, t) ==
  /\ current = t.previous
  /\ OwnerOf(current) = t.from
  /\ VersionOf(current) = t.version
  /\ t.next = t.version + 1
  /\ t.from # t.to

(* Faulty variant: the transaction trusts the head that was read before.   *)
TransferStandsUnchecked(t) == ActiveListings(t.asset) = {}

(* What the transaction checks again.                                      *)
TransferStands(t) ==
  /\ heads[t.asset] = t.previous
  /\ VersionOf(heads[t.asset]) = t.version
  /\ ActiveListings(t.asset) = {}

CommitTransfer(c) ==
  LET t == calls[c].request IN
  /\ Continue(c, "transfer", "commit")
  /\ IF ~VerifyAndApplyGameItemTransfer(calls[c].seen, t) \/ ~TransferStands(t)
       THEN Refuse(c)
       ELSE /\ End(c)
            /\ transfers' = transfers \cup {t}
            /\ heads' = [heads EXCEPT ![t.asset] = NextHead(t)]
            /\ UNCHANGED <<checkpoints, receipts, listings, lineage, decisions,
                           cases, notices, inbox>>

-----------------------------------------------------------------------------
(* The market.                                                             *)
OwnerHeadIs(a, l) ==
  /\ OwnershipHead(a) # <<>>
  /\ OwnerOf(OwnershipHead(a)) = l.seller
  /\ VersionOf(OwnershipHead(a)) = l.version
  /\ OwnershipHead(a) = l.head

StartListing(c) ==
  LET l == calls[c].request IN
  Start(c, "list",
        IF ~NamesReceipt(l)
          THEN Refuse(c)
          ELSE /\ EnsureOwnershipHead(l.asset)
               /\ IF OwnerHeadIs(l.asset, l)
                    THEN Proceed(c, "proof", Nothing) ELSE End(c)
               /\ UNCHANGED <<checkpoints, receipts, transfers, listings,
                              lineage, decisions, cases, notices, inbox>>)

CheckListing(c) ==
  LET l == calls[c].request IN
  /\ Continue(c, "list", "proof")
  /\ GoOnIf(c, l.signed /\ OpenRevocations(l.asset) = {}, "insert", Nothing)

(* Faulty variant: a second active listing is not looked for.              *)
ListingFreeByNonce(l) == listings[l] = "none"

(* The nonce is fresh and no other listing of the item is active.          *)
ListingFree(l) == listings[l] = "none" /\ ActiveListings(l.asset) = {}

InsertListing(c) ==
  LET l == calls[c].request IN
  /\ Continue(c, "list", "insert")
  /\ End(c)
  /\ listings' = IF ListingFree(l) THEN [listings EXCEPT ![l] = "active"]
                 ELSE listings
  /\ UNCHANGED <<checkpoints, receipts, heads, transfers, lineage, decisions,
                 cases, notices, inbox>>

StartCancellation(c) ==
  LET l == calls[c].request.listing IN
  Start(c, "cancel", GoOnIf(c, listings[l] # "none", "proof", listings[l]))

(* The status is the one read before the proof was verified.               *)
CheckCancellation(c) ==
  LET l == calls[c].request.listing IN
  /\ Continue(c, "cancel", "proof")
  /\ GoOnIf(c, /\ calls[c].request.signed
               /\ calls[c].seen = "active"
               /\ heads[l.asset] # <<>>
               /\ OwnerHeadIs(l.asset, l),
            "commit", Nothing)

(* Faulty variant: the update does not ask for an active row.              *)
CanceledFromAny(status) == "canceled"

(* UPDATE ... WHERE status = 'active'.                                     *)
Canceled(status) == IF status = "active" THEN "canceled" ELSE status

CommitCancellation(c) ==
  LET l == calls[c].request.listing IN
  /\ Continue(c, "cancel", "commit")
  /\ End(c)
  /\ listings' = [listings EXCEPT ![l] = Canceled(@)]
  /\ UNCHANGED <<checkpoints, receipts, heads, transfers, lineage, decisions,
                 cases, notices, inbox>>

-----------------------------------------------------------------------------
(* Lineage decisions.                                                      *)
CertificateLifecycle(d) ==
  /\ d.issued <= d.expires
  /\ IF d.outcome = "revoked"
       THEN d.deadline # Nothing /\ d.deadline > d.issued /\ d.appealOf = Nothing
       ELSE d.deadline = Nothing /\ d.appealOf # Nothing

VerifyCertificate(d, now) ==
  /\ d.signed
  /\ d.revision = d.expected + 1
  /\ d.issued <= now + ClockSkew
  /\ d.expires >= now - ClockSkew
  /\ CertificateLifecycle(d)

StartDecision(c) ==
  /\ At(c, "decide", "new")
  /\ UNCHANGED <<clock, window>>
  /\ GoOnIf(c, VerifyCertificate(calls[c].request, clock), "load", clock)

InLineage(d) ==
  /\ receipts[d.asset] # Nothing
  /\ d.ancestor = Origin \/ d.ancestor \in {t \in transfers : t.asset = d.asset}

(* A version 2 certificate decides an open case about the same ancestor.   *)
CaseIsOpen(d) ==
  \/ d.case = Nothing
  \/ /\ cases[d.case].status = "open"
     /\ d.case.asset = d.asset
     /\ d.ancestor = Origin

HeadOf(d) == lineage[<<d.asset, d.ancestor>>]

(* An appeal names the revocation it answers, within its deadline.         *)
AppealAllowed(d, head, decidedAt) ==
  \/ d.outcome = "revoked"
  \/ /\ head.status = "revoked"
     /\ d.appealOf = head.last
     /\ decidedAt <= head.last.deadline + ClockSkew

DecisionAllowed(d, decidedAt) ==
  /\ InLineage(d)
  /\ d \notin decisions
  /\ CaseIsOpen(d)
  /\ HeadOf(d).revision = d.expected
  /\ AppealAllowed(d, HeadOf(d), decidedAt)
  /\ HeadOf(d).status # d.outcome

LoadDecision(c) ==
  LET d == calls[c].request IN
  /\ Continue(c, "decide", "load")
  /\ GoOnIf(c, DecisionAllowed(d, calls[c].seen), "commit", HeadOf(d))

(* Faulty variant: the transaction does not compare the head again.        *)
DecisionStandsUnchecked(d, head) == CaseIsOpen(d)

(* What the transaction checks again.                                      *)
DecisionStands(d, head) ==
  /\ HeadOf(d).revision = head.revision
  /\ HeadOf(d).status = head.status
  /\ CaseIsOpen(d)

(* Faulty variant: a revocation leaves the listings alone.                 *)
LeaveListings(d) == listings

(* A revocation quarantines the active listings of the item.               *)
QuarantineListings(d) ==
  [l \in Listings |->
     IF d.outcome = "revoked" /\ l \in ActiveListings(d.asset)
     THEN "quarantined" ELSE listings[l]]

(* The case is closed and its source is notified, in the same transaction. *)
Resolve(case, disposition, resolution) ==
  /\ cases' = [cases EXCEPT ![case] =
       [status |-> "decided", disposition |-> disposition,
        resolution |-> resolution]]
  /\ notices' = [notices EXCEPT ![case.source] =
       Append(@, [case |-> case, disposition |-> disposition,
                  resolution |-> resolution, delivered |-> Nothing])]

CommitDecision(c) ==
  LET d == calls[c].request IN
  /\ Continue(c, "decide", "commit")
  /\ IF ~DecisionStands(d, calls[c].seen)
       THEN Refuse(c)
       ELSE /\ End(c)
            /\ decisions' = decisions \cup {d}
            /\ lineage' = [lineage EXCEPT ![<<d.asset, d.ancestor>>] =
                 [revision |-> d.revision, status |-> d.outcome, last |-> d]]
            /\ listings' = QuarantineListings(d)
            /\ IF d.case = Nothing THEN UNCHANGED <<cases, notices>>
               ELSE Resolve(d.case, "upheld", d)
            /\ UNCHANGED <<checkpoints, receipts, heads, transfers, inbox>>

-----------------------------------------------------------------------------
MarketStep(c) ==
  \/ StartVerification(c, "checkpoint") \/ StartVerification(c, "create")
  \/ VerifyCheckpoint(c) \/ VerifyItem(c)
  \/ StartTransfer(c) \/ LoadTransfer(c) \/ CommitTransfer(c)
  \/ StartListing(c) \/ CheckListing(c) \/ InsertListing(c)
  \/ StartCancellation(c) \/ CheckCancellation(c) \/ CommitCancellation(c)
  \/ StartDecision(c) \/ LoadDecision(c) \/ CommitDecision(c)

-----------------------------------------------------------------------------
(* The owners of an item, from its creation on, are one chain of transfers:*)
(* of the transfers that race from one head at most one is stored, and     *)
(* none is lost (transferReferenceGameItem).                               *)
TransfersAreOneChain ==
  \A a \in Assets :
    /\ heads[a] # <<>> => heads[a][1] = receipts[a].owner
    /\ {NextHead(t) : t \in {u \in transfers : u.asset = a}}
         = {SubSeq(heads[a], 1, n) : n \in 2..Len(heads[a])}
    /\ \A t \in transfers : t.asset = a => t.from = OwnerOf(t.previous)

(* An item has at most one active listing, although the table has no       *)
(* constraint that says so (listReferenceGameItem).                        *)
OneActiveListing == \A a \in Assets : Cardinality(ActiveListings(a)) <= 1

(* The decisions about an ancestor are numbered without gaps, alternate    *)
(* between revocation and appeal, every appeal names the revocation before *)
(* it, and the head shows the last one (decideReferenceGameAssetLineage).  *)
LineageIsHistory ==
  \A k \in LineageKeys :
    LET made == {d \in decisions : <<d.asset, d.ancestor>> = k} IN
    /\ {d.revision : d \in made} = 1..lineage[k].revision
    /\ Cardinality(made) = lineage[k].revision
    /\ \A d \in made :
         IF d.revision % 2 = 1 THEN d.outcome = "revoked"
         ELSE d.outcome = "eligible" /\ d.appealOf \in made
                /\ d.appealOf.revision = d.revision - 1
    /\ made # {} => /\ lineage[k].last \in made
                    /\ lineage[k].last.revision = lineage[k].revision
                    /\ lineage[k].status = lineage[k].last.outcome

(* Listings under races of listing, cancellation, transfer, revocation and *)
(* appeal: an item keeps at most one active listing, although no constraint*)
(* of the table says so; a canceled or quarantined listing stays so, also  *)
(* for a cancellation that read it as active; and a revocation leaves none *)
(* of the item's listings active when it commits (listReferenceGameItem,   *)
(* cancelReferenceGameMarketListing, decideReferenceGameAssetLineage).     *)
ListingsStaySound ==
  [][/\ OneActiveListing'
     /\ \A l \in Listings : listings[l] \in {"canceled", "quarantined"}
                              => listings'[l] = listings[l]
     /\ \A k \in LineageKeys :
          (lineage[k].status # "revoked" /\ lineage'[k].status = "revoked")
            => \A l \in Listings : l.asset = k[1] => listings'[l] # "active"]_gameVars

=============================================================================
