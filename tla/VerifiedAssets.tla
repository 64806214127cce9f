--------------------------- MODULE VerifiedAssets ---------------------------
(***************************************************************************)
(* The open-world asset handlers of the GameAuditShard (index.ts): the     *)
(* inventory heads of the items that central replay created, advanced one  *)
(* by one (market-listing) or together (inventory-checkpoint), the         *)
(* retained lineage of transfers, and the revocation of items.             *)
(*                                                                         *)
(* An inventory checkpoint certifies the state of some items: owner,       *)
(* version and lineage.  The lineage of an item is the sequence of its     *)
(* owners; last event and lineage root are that sequence.  Proofs and      *)
(* certificates are checked with the Web Crypto backend, and so each       *)
(* handler is split where it awaits that.                                  *)
(***************************************************************************)
EXTENDS AnchorReplay, ReferenceGame

CONSTANTS
  ProofLength,   \* transfers in one lineage proof, 64 in the code
  RetentionLimit \* MAX_RETAINED_LINEAGE_TRANSFERS_PER_ASSET

ASSUME RetentionAssumption == ProofLength \in Nat /\ RetentionLimit \in Nat

VARIABLES
  judgements,     \* verified_asset_lineage_decisions
  standing,       \* verified_asset_lineage_heads
  retained,       \* verified_asset_lineage_transitions
  anchors,        \* verified_asset_lineage_anchors
  lineageProofs,  \* verified_asset_lineage_proofs
  batches,        \* verified_inventory_checkpoint_batches
  moves           \* verified_inventory_checkpoint_history

ledgers == <<judgements, standing, retained, anchors, lineageProofs, batches, moves>>
assetVars == <<replayVars, ledgers, clock, calls>>

Judged == {<<r.asset, r.ancestor>> : r \in Asked("judge")}

AssetsInit ==
  /\ judgements = {}
  /\ standing = [k \in Judged |-> Unquestioned]
  /\ retained = {}
  /\ anchors = [a \in Goods |-> Nothing]
  /\ lineageProofs = {}
  /\ batches = {}
  /\ moves = {}

(* What the asset handlers leave alone.                                    *)
ReplayUntouched ==
  UNCHANGED <<shard, history, forks, outbox, jobs, wakeup, alarmRun, outages, restarts, clock>>

(* A refusal, or a step that only reads.                                   *)
Proceeding(c, checks, step, seen) ==
  /\ ReplayUntouched
  /\ UNCHANGED <<items, ledgers>>
  /\ IF checks THEN Proceed(c, step, seen) ELSE End(c)

Exists(a) == shard # Nothing /\ items[a] # Nothing

OpenOnes(a) == {k \in Judged : k[1] = a /\ standing[k].status = "revoked"}

Clean(a) == items[a].status = "eligible" /\ OpenOnes(a) = {}

ManifestMatches(a, proof) == items[a].manifest \in {Nothing, proof.manifest}

(* The row of an item at an inventory checkpoint.                          *)
AtCheckpoint(item, proof, a) ==
  [item EXCEPT !.owner = proof.assets[a].owner, !.version = proof.assets[a].version,
               !.lineage = proof.assets[a].lineage, !.head = proof.digest,
               !.epoch = proof.epoch, !.manifest = proof.manifest]

-----------------------------------------------------------------------------
(* checkMarketListing, with or without an inventory proof.  Its answer is  *)
(* no state; what it stores is the head the proof leads to.                *)
ListingProofStands(r) ==
  r.proof # Nothing /\ ManifestMatches(r.asset, r.proof) /\ r.proof.signed

CheckMarketListing(c) ==
  LET r == calls[c].request IN
  /\ At(c, "market", "new")
  /\ Proceeding(c, /\ Exists(r.asset)
                   /\ Clean(r.asset)
                   /\ ListingProofStands(r),
                "advance", items[r.asset])

(* inventoryHeadAdvanceAllowed of the row that was read.                   *)
HeadAdvanceAllowed(item, proof, a) ==
  /\ item.status = "eligible"
  /\ proof.previous = item.head
  /\ proof.epoch > item.epoch
  /\ IF proof.assets[a].owner = item.owner THEN proof.assets[a].version >= item.version
     ELSE proof.assets[a].version > item.version

(* Faulty variant: the transaction trusts the row that was read.           *)
AdvanceStandsUnchecked(seen, a) == TRUE

(* What the transaction compares again.                                    *)
AdvanceStands(seen, a) ==
  /\ items[a].status = "eligible"
  /\ items[a].head = seen.head
  /\ items[a].epoch = seen.epoch

(* A proof of the head that was read must agree with it, and fills in what *)
(* the replay did not know.                                                *)
Fills(seen, proof, a) ==
  /\ proof.digest = seen.head
  /\ proof.epoch = seen.epoch
  /\ proof.assets[a].owner = seen.owner
  /\ proof.assets[a].version = seen.version
  /\ seen.lineage = Nothing
  /\ items[a].head = proof.digest

Advances(seen, proof, a) ==
  /\ proof.digest # seen.head
  /\ HeadAdvanceAllowed(seen, proof, a)
  /\ AdvanceStands(seen, a)

StoreProvedHead(c) ==
  LET r == calls[c].request
      seen == calls[c].seen
  IN
  /\ At(c, "market", "advance")
  /\ End(c)
  /\ ReplayUntouched
  /\ UNCHANGED ledgers
  /\ items' =
       IF Fills(seen, r.proof, r.asset)
         THEN [items EXCEPT ![r.asset].lineage = r.proof.assets[r.asset].lineage]
       ELSE IF Advances(seen, r.proof, r.asset)
         THEN [items EXCEPT ![r.asset] = AtCheckpoint(@, r.proof, r.asset)]
       ELSE items

-----------------------------------------------------------------------------
(* commitVerifiedInventoryCheckpoint: several items move to one checkpoint *)
(* or none does.  `expected` gives the head and version of each.           *)
BatchOf(key) == {b \in batches : b.key = key}

AssetReady(a, expected) ==
  /\ Exists(a)
  /\ items[a].head = expected[a].head
  /\ items[a].version = expected[a].version
  /\ Clean(a)

(* The proof is of exactly these items, at a child of their shared head.   *)
InventoryProofStands(r) ==
  /\ r.proof.signed
  /\ DOMAIN r.proof.assets = DOMAIN r.expected
  /\ \A a \in DOMAIN r.expected : /\ r.proof.previous = items[a].head
                                  /\ r.proof.epoch > items[a].epoch

CheckInventoryCheckpoint(c) ==
  LET r == calls[c].request
      moved == DOMAIN r.expected
  IN
  /\ At(c, "inventory", "new")
  /\ Proceeding(c, /\ BatchOf(r.key) = {}
                   /\ \A a \in moved : AssetReady(a, r.expected)
                   /\ \A a, b \in moved : /\ items[a].head = items[b].head
                                          /\ items[a].epoch = items[b].epoch
                   /\ \A a \in moved : ManifestMatches(a, r.proof)
                   /\ InventoryProofStands(r),
                "commit", [a \in moved |-> items[a]])

(* What the transaction checks again, for every item.                      *)
BatchStands(c) ==
  LET r == calls[c].request IN
  /\ BatchOf(r.key) = {}
  /\ \A a \in DOMAIN r.expected :
       /\ AssetReady(a, r.expected)
       /\ items[a].owner = calls[c].seen[a].owner
       /\ items[a].epoch = calls[c].seen[a].epoch

(* Faulty variant: the updates before the fault are kept.                  *)
WrittenBeforeFault(r) ==
  IF r.fault THEN {CHOOSE a \in DOMAIN r.expected : TRUE} ELSE DOMAIN r.expected

(* The rows written before a fault: a fault rolls back the transaction.    *)
Written(r) == IF r.fault THEN {} ELSE DOMAIN r.expected

CommitInventoryCheckpoint(c) ==
  LET r == calls[c].request IN
  /\ At(c, "inventory", "commit")
  /\ End(c)
  /\ ReplayUntouched
  /\ UNCHANGED <<judgements, standing, retained, anchors, lineageProofs>>
  /\ IF ~BatchStands(c) THEN UNCHANGED <<items, moves, batches>>
     ELSE /\ items' = [a \in Goods |-> IF a \in Written(r)
                         THEN AtCheckpoint(items[a], r.proof, a) ELSE items[a]]
          /\ moves' = moves \cup
               {[asset |-> a, from |-> r.expected[a].head, to |-> r.proof.digest,
                 key |-> r.key] : a \in Written(r)}
          /\ batches' = IF r.fault THEN batches
                        ELSE batches \cup {[key |-> r.key, assets |-> DOMAIN r.expected]}

-----------------------------------------------------------------------------
(* registerVerifiedAssetLineageProof: the transfers between the retained   *)
(* anchor of an item and its head.                                         *)
InitialAnchor(a) ==
  [owner |-> items[a].creation.owner, version |-> 0, lineage |-> <<items[a].creation.owner>>]

AnchorOf(a) == IF anchors[a] = Nothing THEN InitialAnchor(a) ELSE anchors[a]

FinalAnchor(r) ==
  [owner |-> Last(r.transfers), version |-> r.anchor.version + Len(r.transfers),
   lineage |-> r.anchor.lineage \o r.transfers]

(* The i-th transfer of a proof; its event is the lineage it leads to.     *)
Transition(r, i) ==
  [asset |-> r.asset, version |-> r.anchor.version + i - 1,
   event |-> r.anchor.lineage \o SubSeq(r.transfers, 1, i),
   from |-> IF i = 1 THEN r.anchor.owner ELSE r.transfers[i - 1], to |-> r.transfers[i]]

Transitions(r) == {Transition(r, i) : i \in DOMAIN r.transfers}

RetainedOf(a) == {t \in retained : t.asset = a}

(* The proof starts at the anchor, retained or initial, and verifies.      *)
LineageProofStands(r) == r.anchor = AnchorOf(r.asset) /\ r.signed

CheckLineageProof(c) ==
  LET r == calls[c].request IN
  /\ At(c, "register", "new")
  /\ Proceeding(c, /\ r \notin lineageProofs
                   /\ Exists(r.asset)
                   /\ items[r.asset].head = r.head
                   /\ items[r.asset].owner = r.seller
                   /\ items[r.asset].manifest \in {Nothing, r.manifest}
                   /\ LineageProofStands(r),
                "retain",
                [item |-> items[r.asset], anchor |-> anchors[r.asset]])

(* After the proof is verified: it ends at the head that was read, agrees  *)
(* with the transfers that are retained, and fits.                         *)
LineageProofFits(r, item) ==
  /\ r.transfers # <<>>
  /\ Len(r.transfers) <= ProofLength
  /\ FinalAnchor(r).owner = item.owner
  /\ FinalAnchor(r).lineage = item.lineage
  /\ \A t \in Transitions(r), u \in RetainedOf(r.asset) : t.event = u.event => t = u
  /\ Cardinality(RetainedOf(r.asset) \cup Transitions(r)) <= RetentionLimit

(* Faulty variant: the transaction compares nothing again.                 *)
RegistrationStandsUnchecked(r, seen) == TRUE

RegistrationStands(r, seen) ==
  /\ items[r.asset].head = r.head
  /\ items[r.asset].owner = r.seller
  /\ items[r.asset].lineage = FinalAnchor(r).lineage
  /\ anchors[r.asset] = seen.anchor

(* INSERT OR IGNORE under UNIQUE(asset_id, expected_version).              *)
Retain(new) ==
  retained \cup
    {t \in new : \A u \in retained : u.asset = t.asset => u.version # t.version}

RegisterLineageProof(c) ==
  LET r == calls[c].request IN
  /\ At(c, "register", "retain")
  /\ End(c)
  /\ ReplayUntouched
  /\ UNCHANGED <<items, judgements, standing, batches, moves>>
  /\ IF LineageProofFits(r, calls[c].seen.item) /\ RegistrationStands(r, calls[c].seen)
     THEN /\ retained' = Retain(Transitions(r))
          /\ anchors' = [anchors EXCEPT ![r.asset] = FinalAnchor(r)]
          /\ lineageProofs' = lineageProofs \cup {r}
     ELSE UNCHANGED <<retained, anchors, lineageProofs>>

-----------------------------------------------------------------------------
(* decideVerifiedAssetLineage.  An ancestor is the origin of the item, a   *)
(* retained transfer, or its current inventory head.                       *)
AncestorKind(a, ancestor) ==
  IF ancestor = Origin THEN "origin"
  ELSE IF \E t \in RetainedOf(a) : t.event = ancestor THEN "transfer"
  ELSE IF items[a].head = ancestor THEN "current_head"
  ELSE "none"

StandingOf(d) == standing[<<d.asset, d.ancestor>>]

CheckJudgement(c) ==
  LET d == calls[c].request IN
  /\ At(c, "judge", "new")
  /\ Proceeding(c, shard # Nothing /\ VerifyCertificate(d, clock), "load", clock)

(* Nothing in the last part of the handler awaits the crypto backend: the  *)
(* transaction finds the row that was read.                                *)
JudgementAllowed(d, decidedAt) ==
  /\ items[d.asset] # Nothing
  /\ AncestorKind(d.asset, d.ancestor) = d.kind
  /\ d \notin judgements
  /\ StandingOf(d).revision = d.expected
  /\ AppealAllowed(d, StandingOf(d), decidedAt)
  /\ StandingOf(d).status # d.outcome

(* Faulty variant: the item takes the outcome of the last decision.        *)
StatusByOutcome(d) == d.outcome

(* The item is eligible iff no revocation of it is open.                   *)
StatusAfter(d) ==
  IF OpenOnes(d.asset) \ {<<d.asset, d.ancestor>>} = {} /\ d.outcome = "eligible"
  THEN "eligible" ELSE "revoked"

CommitJudgement(c) ==
  LET d == calls[c].request IN
  /\ At(c, "judge", "load")
  /\ End(c)
  /\ ReplayUntouched
  /\ UNCHANGED <<retained, anchors, lineageProofs, batches, moves>>
  /\ IF JudgementAllowed(d, calls[c].seen)
     THEN /\ judgements' = judgements \cup {d}
          /\ standing' = [standing EXCEPT ![<<d.asset, d.ancestor>>] =
               [revision |-> d.revision, status |-> d.outcome, last |-> d]]
          /\ items' = [items EXCEPT ![d.asset].status = StatusAfter(d)]
     ELSE UNCHANGED <<judgements, standing, items>>

-----------------------------------------------------------------------------
AssetStep(c) ==
  \/ CheckMarketListing(c) \/ StoreProvedHead(c)
  \/ CheckInventoryCheckpoint(c) \/ CommitInventoryCheckpoint(c)
  \/ CheckLineageProof(c) \/ RegisterLineageProof(c)
  \/ CheckJudgement(c) \/ CommitJudgement(c)

-----------------------------------------------------------------------------
(* The head of an item moves only to a child of itself, in a later epoch,  *)
(* and only while no revocation of the item is open, whichever of a        *)
(* listing, an inventory checkpoint and a revocation commits first.        *)
AssetHeadsAdvance ==
  [][\A a \in Goods :
       items[a] # Nothing /\ items'[a].head # items[a].head =>
         /\ OpenOnes(a) = {}
         /\ items'[a].epoch > items[a].epoch
         /\ \E p \in {r.proof : r \in Asked("market") \cup Asked("inventory")} :
              p # Nothing /\ p.digest = items'[a].head /\ p.previous = items[a].head]_assetVars

(* An inventory checkpoint moves all of its items or none of them: every   *)
(* move in the history belongs to a stored batch, every item of a batch    *)
(* has its move, and no item leaves one head twice.                        *)
BatchesAreAtomic ==
  /\ \A m \in moves : \E b \in batches : b.key = m.key /\ m.asset \in b.assets
  /\ \A b \in batches, a \in Goods : a \in b.assets =>
       \E m \in moves : m.key = b.key /\ m.asset = a
  /\ \A m, n \in moves : m.asset = n.asset /\ m.from = n.from => m = n

(* The retained transfers of an item are numbered from its creation on,    *)
(* each starts with the owner the one before leads to, and the anchor is   *)
(* where they end: a proof that was verified against an older head or      *)
(* anchor cannot take the anchor back.                                     *)
RetainedLineageIsChain ==
  \A a \in Goods : anchors[a] # Nothing =>
    LET owner(n) == IF n = 0 THEN items[a].creation.owner
                    ELSE (CHOOSE t \in RetainedOf(a) : t.version = n - 1).to
    IN
    /\ {t.version : t \in RetainedOf(a)} = 0..(anchors[a].version - 1)
    /\ \A t \in RetainedOf(a) : t.from = owner(t.version)
    /\ anchors[a].owner = owner(anchors[a].version)

(* The status an item carries agrees with the revocations of its           *)
(* ancestors: it is eligible iff none of them is open.                     *)
StatusAgreesWithRevocations ==
  \A a \in Goods : items[a] # Nothing =>
    (items[a].status = "eligible" <=> OpenOnes(a) = {})

(* The tables that record the past of an item agree with the item, whether *)
(* batches, lineage registrations or revocations commit first and whenever *)
(* a write fails inside a batch.                                           *)
AssetRecordsAgree ==
  BatchesAreAtomic /\ RetainedLineageIsChain /\ StatusAgreesWithRevocations
=============================================================================
