----------------------------- MODULE MCAuthority -----------------------------
(***************************************************************************)
(* The GameAuditShard: the reference-game authority with the relay of one  *)
(* source, an open-world shard with its anchors, replays and assets, and   *)
(* the shard's collections of approvals, its observer and its signing key. *)
(* Every workload is a handful of requests that meet in one hazard; they   *)
(* start in any order and their steps interleave.                          *)
(***************************************************************************)
EXTENDS EvidenceRelay, VerifiedAssets, WitnessCollection, ObserverSigning, KeyLifecycle

CONSTANTS
  sword, relic, shield, ann, bob, cyd, feed, run, \* the reference game
  gem, coin, dust, i0, i1, i2, i3                   \* the open world

TheCalls == 1..5

TheAssets == {sword, relic, shield}

Genesis == [run |-> run, epoch |-> 0, digest |-> 0, parent |-> Nothing]
Second == [run |-> run, epoch |-> 1, digest |-> 1, parent |-> 0]
Forked == [run |-> run, epoch |-> 1, digest |-> 2, parent |-> 0]
Orphan == [run |-> run, epoch |-> 1, digest |-> 3, parent |-> 1]

Receipt(owner, keyed) == [owner |-> owner, checkpoint |-> Genesis, keyed |-> keyed]

TheMigrated ==
  [a \in TheAssets |-> IF a = sword THEN Receipt(ann, TRUE)
                       ELSE IF a = relic THEN Receipt(ann, FALSE) ELSE Nothing]

Check(p) == [op |-> "checkpoint", checkpoint |-> p]

Create(a, owner, p, signed) ==
  [op |-> "create", asset |-> a, owner |-> owner, checkpoint |-> p, signed |-> signed]

ReceiptOf(a) == IF a = shield THEN Receipt(bob, TRUE) ELSE TheMigrated[a]

Transfer(a, previous, to, signed) ==
  [op |-> "transfer", asset |-> a, receipt |-> ReceiptOf(a), previous |-> previous,
   from |-> previous[Len(previous)], to |-> to, version |-> Len(previous) - 1,
   next |-> Len(previous), signed |-> signed]

Listing(a, head, nonce, signed) ==
  [op |-> "list", asset |-> a, receipt |-> ReceiptOf(a), seller |-> head[Len(head)],
   head |-> head, version |-> Len(head) - 1, nonce |-> nonce, signed |-> signed]

Cancel(listing, signed) == [op |-> "cancel", listing |-> listing, signed |-> signed]

Certificate(ancestor, expected, outcome, appealOf, case) ==
  [op |-> "decide", asset |-> sword, ancestor |-> ancestor, expected |-> expected,
   revision |-> expected + 1, outcome |-> outcome, issued |-> 0, expires |-> 1,
   deadline |-> IF outcome = "revoked" THEN 1 ELSE Nothing,
   appealOf |-> appealOf, case |-> case, signed |-> TRUE]

Revoke(ancestor, expected) == Certificate(ancestor, expected, "revoked", Nothing, Nothing)

Appeal(d) == Certificate(d.ancestor, d.revision, "eligible", d, Nothing)

Uphold(case) == Certificate(Origin, 0, "revoked", Nothing, case)

Dismiss(case, issued) ==
  [op |-> "dismiss", case |-> case, issued |-> issued, expires |-> issued, signed |-> TRUE]

Case(hold, after) ==
  [source |-> feed, hold |-> hold, asset |-> sword, ancestor |-> Origin,
   owner |-> ann, checkpoint |-> Genesis, after |-> after]

Open(case) == [op |-> "open", case |-> case, signed |-> TRUE]

Publish(case, d, disposition, after) ==
  [op |-> "publish", case |-> case, disposition |-> disposition, resolution |-> d,
   after |-> after, signed |-> TRUE]

NoCall == [op |-> "none"]

Place(case) == <<Message("place", case)>>

-----------------------------------------------------------------------------
ToBob == Transfer(sword, <<ann>>, bob, TRUE)
ToCyd == Transfer(sword, <<ann>>, cyd, TRUE)
BobToCyd == Transfer(sword, <<ann, bob>>, cyd, TRUE)
ByAnn == Listing(sword, <<ann>>, 1, TRUE)
ByAnnAgain == Listing(sword, <<ann>>, 2, TRUE)
ByBob == Listing(sword, <<ann, bob>>, 1, TRUE)
First == Revoke(Origin, 0)
FirstCase == Case(1, <<>>)
Rival == Case(2, <<>>)
SameHold == Case(1, Place(FirstCase))
ByFirst == Publish(FirstCase, Uphold(FirstCase), "upheld", Place(FirstCase))
Unsigned == [Publish(FirstCase, Dismiss(FirstCase, 0), "dismissed", Place(FirstCase))
               EXCEPT !.signed = FALSE]
Later == Case(2, Place(FirstCase))

MarketWorkloads == {
  <<ToBob, ToCyd, BobToCyd, [ToBob EXCEPT !.signed = FALSE]>>,
  <<ToBob, ByAnn, ByAnnAgain, Cancel(ByAnn, TRUE)>>,
  <<ByAnn, Cancel(ByAnn, TRUE), Cancel(ByAnn, TRUE), ByAnnAgain>>,
  <<ByAnn, Cancel(ByAnn, TRUE), First, Appeal(First)>>,
  <<First, [First EXCEPT !.deadline = 2], Appeal(First), Revoke(Origin, 2)>>,
  <<ToBob, Revoke(ToBob, 0), ByBob, Appeal(Revoke(ToBob, 0))>>,
  <<Create(shield, bob, Genesis, TRUE), Create(shield, bob, Second, TRUE),
    Transfer(shield, <<bob>>, ann, TRUE), Listing(shield, <<bob>>, 1, TRUE)>>,
  <<Create(shield, bob, Genesis, TRUE), Create(shield, bob, Genesis, TRUE),
    Create(shield, bob, Genesis, FALSE)>>,
  <<Create(relic, ann, Second, TRUE), Transfer(relic, <<ann>>, bob, TRUE),
    Listing(relic, <<ann>>, 1, TRUE), Check(Genesis)>>,
  <<Check(Genesis), Check(Second), Check(Forked), Check(Orphan)>>}

CaseWorkloads == {
  <<Open(FirstCase), Open(Rival), Open(SameHold), Dismiss(FirstCase, 0)>>,
  <<Open(FirstCase), Dismiss(FirstCase, 0), Uphold(FirstCase), ByAnn>>,
  <<Open(FirstCase), Dismiss(FirstCase, 0), Dismiss(FirstCase, 1), Unsigned>>}

RelayWorkloads == {
  <<Open(FirstCase), Dismiss(FirstCase, 0), Open(Later), NoCall>>,
  <<Open(FirstCase), Uphold(FirstCase), ByFirst, NoCall>>}

-----------------------------------------------------------------------------
(* The open world.                                                         *)
Anchor(epoch, digest, previous) ==
  [op |-> "anchor", anchor |-> [epoch |-> epoch, digest |-> digest, previous |-> previous],
   signed |-> TRUE]

Config(first) == [first |-> first, previous |-> 9]

Setup(first) == [op |-> "configure", config |-> Config(first)]

Creation(a, owner, origin, head) ==
  [asset |-> a, owner |-> owner, source |-> origin, checkpoint |-> head, epoch |-> 0]

Replay(reason, artifact) == [op |-> "replay", reason |-> reason, artifact |-> artifact]

Bundle(head, replay, created) == [checkpoint |-> head, replay |-> replay, items |-> created]

TheGoods == {gem, coin, dust}

TheShelved ==
  [a \in TheGoods |-> IF a = dust THEN Nothing ELSE NewItem(Creation(a, ann, a, i0))]

OfDust == Bundle(i1, "matches", {Creation(dust, bob, 1, i1)})
OfGemsOutput == Bundle(i2, "matches", {Creation(dust, cyd, gem, i2)})
Unbound == Bundle(i1, "matches", {Creation(dust, bob, 1, i2)})
Root == Anchor(0, 0, 9)
Stray == Anchor(1, 2, 5)

SetupWorkloads == {
  <<Setup(0), Setup(1), Root, Replay("sample", Nothing), [Root EXCEPT !.signed = FALSE]>>}

ReplayWorkloads == SetupWorkloads \cup {
  <<Root, Stray, Anchor(1, 1, 0), Stray>>,
  <<Root, Anchor(3, 4, 1), Stray, Anchor(1, 3, 7)>>,
  <<Root, Replay("sample", OfDust), Replay("marketplace", OfDust)>>,
  <<Root, Replay("sample", OfDust), Replay("challenge", OfGemsOutput)>>,
  <<Root, Replay("sample", Unbound), Replay("fork", Nothing), Anchor(1, 1, 0)>>,
  <<Root, Replay("sample", Bundle(i1, "incomplete", {})),
    Replay("challenge", Bundle(i1, "differs", {}))>>}

Held(owners) == [owner |-> owners[Len(owners)], version |-> Len(owners) - 1, lineage |-> owners]

Proof(digest, previous, epoch, assets) ==
  [digest |-> digest, previous |-> previous, epoch |-> epoch, manifest |-> run,
   assets |-> assets, signed |-> TRUE]

Of(a, owners) == [x \in {a} |-> Held(owners)]

ToBobGem == Proof(i1, i0, 1, Of(gem, <<ann, bob>>))
ToCydGem == Proof(i2, i0, 1, Of(gem, <<ann, cyd>>))
OnToCyd == Proof(i3, i1, 2, Of(gem, <<ann, bob, cyd>>))
Both == Proof(i2, i0, 1, [x \in {gem, coin} |-> Held(<<ann, bob>>)])

Market(a, proof) == [op |-> "market", asset |-> a, proof |-> proof]

Inventory(key, proof, fault) ==
  [op |-> "inventory", key |-> key, proof |-> proof, fault |-> fault,
   expected |-> [a \in DOMAIN proof.assets |-> [head |-> i0, version |-> 0]]]

Register(head, owners, onward) ==
  [op |-> "register", asset |-> gem, seller |-> onward[Len(onward)], head |-> head,
   manifest |-> run, anchor |-> Held(owners), transfers |-> onward, signed |-> TRUE]

Judge(ancestor, kind, expected, outcome, appealOf) ==
  [op |-> "judge", asset |-> gem, ancestor |-> ancestor, kind |-> kind,
   expected |-> expected, revision |-> expected + 1, outcome |-> outcome,
   issued |-> 0, expires |-> 1, deadline |-> IF outcome = "revoked" THEN 1 ELSE Nothing,
   appealOf |-> appealOf, signed |-> TRUE]

OriginFails == Judge(Origin, "origin", 0, "revoked", Nothing)
HeadFails == Judge(i0, "current_head", 0, "revoked", Nothing)
TransferFails == Judge(<<ann, bob>>, "transfer", 0, "revoked", Nothing)
Restored(d) == Judge(d.ancestor, d.kind, 1, "eligible", d)

AssetWorkloads == {
  <<Market(gem, ToBobGem), Market(gem, ToCydGem), Market(gem, OnToCyd), OriginFails>>,
  <<Market(gem, ToBobGem), Market(gem, OnToCyd), Register(i1, <<ann>>, <<bob>>),
    Register(i3, <<ann>>, <<bob, cyd>>), Register(i3, <<ann, bob>>, <<cyd>>)>>,
  <<Market(gem, ToBobGem), Register(i1, <<ann>>, <<bob>>), TransferFails, Market(gem, OnToCyd)>>,
  <<Inventory(1, Both, FALSE), Inventory(1, ToBobGem, FALSE), Inventory(2, Both, TRUE),
    Market(coin, Nothing)>>,
  <<Inventory(1, Both, FALSE), HeadFails, Market(gem, ToBobGem),
    Market(gem, Proof(i0, i0, 0, Of(gem, <<ann>>)))>>,
  <<OriginFails, HeadFails, Restored(OriginFails), Restored(HeadFails)>>}

-----------------------------------------------------------------------------
(* Witnesses and observers.                                                *)
TheHead == [epoch |-> 0, digest |-> 10]

Statement(destination, previous) ==
  [destination |-> destination, epoch |-> 1, digest |-> 11, previous |-> previous]

Here == Statement("here", 10)
There == Statement("there", 10)
Elsewhere == Statement("here", 12)

Collect(statement, deadline) ==
  [op |-> "collect", statement |-> statement, deadline |-> deadline, signed |-> TRUE]

Approve(witness, statement) ==
  [op |-> "approve", witness |-> witness, collection |-> CollectionId(statement), bucket |-> witness]

Submit(witness, statement, bucket, signed) ==
  [op |-> "submit", collection |-> CollectionId(statement), bucket |-> bucket,
   approval |-> [witness |-> witness, issued |-> 0, signed |-> signed, statement |-> statement]]

Reference(statement) ==
  [destination |-> statement.destination, collection |-> CollectionId(statement)]

SealOf(previous, references) ==
  [op |-> "seal", checkpoint |-> [epoch |-> 1, digest |-> 11, previous |-> previous],
   references |-> references]

WitnessWorkloads == {
  <<Collect(Here, 1), Approve(ann, Here), Approve(bob, Here), Approve(cyd, Here),
    SealOf(10, <<Reference(Here)>>)>>,
  <<Collect(Here, 1), Approve(ann, Here), Submit(ann, Here, cyd, TRUE), Submit(bob, Here, bob, TRUE),
    SealOf(10, <<Reference(Here), Reference(There)>>)>>,
  <<Collect(Elsewhere, 1), Collect(Here, 2), Submit(ann, Here, ann, TRUE),
    Submit(bob, Elsewhere, ann, TRUE), SealOf(12, <<Reference(Elsewhere)>>)>>,
  <<Collect(Here, 1), Submit(ann, Here, bob, FALSE), Submit(bob, Here, bob, TRUE),
    Submit(relic, Here, bob, TRUE), Approve(relic, Here)>>,
  <<[Collect(Here, 1) EXCEPT !.signed = FALSE], Collect(Here, 0), Collect(There, 2),
    Submit(ann, There, ann, TRUE), Submit(bob, There, bob, TRUE)>>}

OpenAs(id, trusted) == [op |-> "observer", id |-> id, trusted |-> trusted]

Sign(slot, digest, fault) ==
  [op |-> "sign", slot |-> slot, digest |-> digest, valid |-> TRUE, fault |-> fault]

Missing(key, bundle, verified) ==
  [op |-> "missing", conflict |-> [key |-> key, bundle |-> bundle], verified |-> verified]

Snapshot == [op |-> "snapshot"]

ObserverWorkloads == {
  <<OpenAs(ann, {}), Sign(1, 1, FALSE), Sign(1, 2, FALSE), Sign(1, 1, FALSE), Sign(2, 1, TRUE)>>,
  <<OpenAs(ann, Nothing), Sign(1, 1, FALSE), Sign(2, 2, FALSE), Sign(3, 3, FALSE),
    OpenAs(ann, {[slot |-> 1, digest |-> 1]})>>,
  <<OpenAs(ann, Nothing), Sign(1, 1, FALSE), Sign(1, 2, FALSE), Sign(1, 3, FALSE),
    [op |-> "prune", before |-> 1, protected |-> {}]>>,
  <<OpenAs(ann, {[slot |-> 1, digest |-> 1]}), OpenAs(bob, Nothing), OpenAs(ann, Nothing), Snapshot,
    [Sign(1, 1, FALSE) EXCEPT !.valid = FALSE]>>,
  <<Missing(1, 1, TRUE), Missing(1, 2, TRUE), Missing(2, 1, FALSE)>>}

-----------------------------------------------------------------------------
(* Keys.                                                                   *)
KeyVersion(version, from, until, revoked) ==
  [version |-> version, identity |-> ann, public |-> version,
   from |-> from, until |-> until, revoked |-> revoked]

K1 == KeyVersion(1, 0, 3, Nothing)
K2 == KeyVersion(2, 1, 3, Nothing)
K3 == KeyVersion(3, 2, 3, Nothing)

Configured(key, revision) == [key |-> key, revision |-> revision]

TheFirstDeployment == Configured(K1, 1)

SignRequest == [op |-> "keysign"]

DeployOf(key, revision) == [op |-> "deploy", configuration |-> Configured(key, revision)]

Mutate(command) == [op |-> "lifecycle", command |-> command]

ProvisionKey(key) == Mutate([kind |-> "provision", key |-> key, expected |-> 0, at |-> 1])

RotateKey(key, expected, at) ==
  Mutate([kind |-> "rotate", key |-> key, previous |-> key.version - 1,
          cutover |-> key.from, expected |-> expected, at |-> at])

RevokeKey(version, time, expected) ==
  Mutate([kind |-> "revoke", version |-> version, revoked |-> time,
          expected |-> expected, at |-> 1])

KeyWorkloads == {
  <<SignRequest, SignRequest, DeployOf([K1 EXCEPT !.revoked = 1], 2), SignRequest,
    DeployOf(K1, 2)>>,
  <<SignRequest, SignRequest, DeployOf(K2, 2), SignRequest, DeployOf(K1, 1)>>,
  <<SignRequest, DeployOf([K1 EXCEPT !.until = 0], 2), SignRequest>>}

LedgerWorkloads == {
  <<ProvisionKey(K1), ProvisionKey([K1 EXCEPT !.identity = bob]), RotateKey(K2, 1, 1),
    RotateKey([K2 EXCEPT !.public = 3], 1, 1), RevokeKey(1, 2, 1)>>,
  <<ProvisionKey(K1), RotateKey(K2, 1, 0), RevokeKey(2, 2, 2), RevokeKey(1, 0, 1),
    RotateKey(K2, 2, 1)>>,
  <<ProvisionKey(K1), RotateKey(K2, 1, 1), RotateKey(K3, 2, 1), RevokeKey(2, 2, 2),
    RotateKey(K3, 3, 1)>>}

-----------------------------------------------------------------------------
Padded(workloads) ==
  {[c \in TheCalls |-> IF c \in DOMAIN w THEN w[c] ELSE NoCall] : w \in workloads}

GameWorkloads == Padded(MarketWorkloads \cup CaseWorkloads \cup RelayWorkloads)
OpenWorkloads == Padded(ReplayWorkloads \cup AssetWorkloads)
WatchWorkloads == Padded(WitnessWorkloads \cup ObserverWorkloads \cup KeyWorkloads
                            \cup LedgerWorkloads)
TheWorkloads == GameWorkloads \cup OpenWorkloads \cup WatchWorkloads
TheRelayWorkloads == Padded(RelayWorkloads)
TimelessWorkloads == Padded(ReplayWorkloads \cup LedgerWorkloads)

Workload == [c \in Calls |-> calls[c].request]

Init ==
  /\ CallsInit
  /\ CasesInit
  /\ RelayInit
  /\ ReplayInit
  /\ AssetsInit
  /\ WitnessInit
  /\ ObserverInit
  /\ KeyInit
  /\ relay.configured = (Workload \in TheRelayWorkloads)
  /\ shard = IF Workload \in SetupWorkloads THEN Nothing ELSE Config(0)

TheDeployments == {Nothing, Config(0)}

openVars == <<replayVars, ledgers>>

GameStep ==
  \/ \E c \in Calls : MarketStep(c) /\ UNCHANGED <<dismissals, relayVars>>
  \/ \E c \in Calls : CaseStep(c) /\ UNCHANGED relayVars
  \/ RelayAlone /\ UNCHANGED caseVars
  \/ Publishing

OpenStep ==
  \/ ReplayStep /\ UNCHANGED <<ledgers, clock>>
  \/ \E c \in Calls : AssetStep(c)

watchVars == <<witnessVars, observerVars, keyVars>>

WatchStep ==
  \/ \E c \in Calls : WitnessStep(c) /\ UNCHANGED <<observerVars, keyVars, replayVars>>
  \/ \E c \in Calls : ObserverStep(c) /\ UNCHANGED <<witnessVars, keyVars, replayVars>>
  \/ \E c \in Calls : KeyStep(c) /\ UNCHANGED <<witnessVars, observerVars, replayVars>>
  \/ Restart /\ UNCHANGED <<watchVars, clock>>

recordVars == <<window, tables, dismissals, relayVars>>

Next ==
  \/ Workload \in GameWorkloads /\ GameStep /\ UNCHANGED <<openVars, watchVars>>
  \/ Workload \in OpenWorkloads /\ OpenStep /\ UNCHANGED <<recordVars, watchVars>>
  \/ Workload \in WatchWorkloads /\ WatchStep /\ UNCHANGED <<recordVars, ledgers>>
  \/ Workload \notin TimelessWorkloads /\ PassTime /\ UNCHANGED <<recordVars, openVars, watchVars>>

Spec == Init /\ [][Next]_<<relayedVars, openVars, watchVars>> /\ RelayFair /\ ReplayFair
=============================================================================
