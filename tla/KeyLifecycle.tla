---------------------------- MODULE KeyLifecycle ----------------------------
(***************************************************************************)
(* The versions of one verification key (key-lifecycle.ts), the ledger of  *)
(* their provisioning, rotation and revocation (key-lifecycle-ledger.ts)   *)
(* in its store (verification-key-lifecycle-store.ts), and the signer that *)
(* follows its deployed configuration (verification-key-signer-worker.ts). *)
(*                                                                         *)
(* A key version is its number, the identity it is bound to (subject,      *)
(* purpose, scope), its public key and its times.                          *)
(***************************************************************************)
EXTENDS Sequences, SequencesExt, ShardRequests

CONSTANTS
  FirstDeployment, \* the configuration the signer starts with
  HistoryLimit     \* 1,024: the versions of a key

VARIABLES
  keyRecords, \* verification_key_versions, by version
  keyEvents,  \* verification_key_lifecycle_events, by revision
  deployment, \* the environment of the signer: key and lifecycle revision
  keySignatures \* what the signer has answered: version, public key, time

keyTables == <<keyRecords, keyEvents>>
keyVars == <<keyTables, deployment, keySignatures>>

KeyInit ==
  /\ keyRecords = <<>>
  /\ keyEvents = <<>>
  /\ deployment = FirstDeployment
  /\ keySignatures = {}

(* validKeyRecord                                                          *)
ValidKey(k) ==
  /\ k.version > 0
  /\ k.from < k.until
  /\ k.revoked # Nothing => k.from <= k.revoked /\ k.revoked <= k.until

(* validateVerificationKeyHistory, of the versions in order.               *)
ValidHistory(keys) ==
  /\ keys # <<>> /\ Len(keys) <= HistoryLimit
  /\ \A i \in DOMAIN keys : ValidKey(keys[i])
  /\ \A i \in 2..Len(keys) :
       /\ keys[i].identity = keys[1].identity
       /\ keys[i].version = keys[i - 1].version + 1
       /\ keys[i - 1].until <= keys[i].from

EventsOf(kind) == SelectSeq(keyEvents, LAMBDA e : e.kind = kind)

TimesInOrder == \A i \in 2..Len(keyEvents) : keyEvents[i - 1].at <= keyEvents[i].at

(* lifecycleImageValid: the records are what the events say.               *)
LifecycleImageValid ==
  LET rotations == EventsOf("rotate")
      revocations == EventsOf("revoke")
  IN
  /\ keyRecords = <<>> <=> keyEvents = <<>>
  /\ keyRecords # <<>> =>
       /\ ValidHistory(keyRecords)
       /\ keyEvents[1].kind = "provision" /\ keyEvents[1].version = 1
       /\ \A i \in DOMAIN keyEvents : keyEvents[i].revision = i
       /\ TimesInOrder
       /\ \A i \in DOMAIN keyRecords : keyRecords[i].version = i
       /\ Len(rotations) = Len(keyRecords) - 1
       /\ \A i \in DOMAIN rotations : rotations[i].version = i + 1
       /\ \A i, j \in DOMAIN revocations :
            revocations[i].version = revocations[j].version => i = j
       /\ {revocations[i].version : i \in DOMAIN revocations}
            = {i \in DOMAIN keyRecords : keyRecords[i].revoked # Nothing}

Revision == IF keyEvents = <<>> THEN 0 ELSE Last(keyEvents).revision

-----------------------------------------------------------------------------
(* planVerificationKeyLifecycleMutation.  A command m has a kind, the      *)
(* revision it expects and its time; provision and rotate the new key,     *)
(* rotate the cutover, revoke the version and the time of revocation.      *)
RecordsAfter(m) ==
  CASE m.kind = "provision" -> <<m.key>>
    [] m.kind = "rotate" ->
         Append([keyRecords EXCEPT ![Len(keyRecords)].until = m.cutover], m.key)
    [] m.kind = "revoke" -> [keyRecords EXCEPT ![m.version].revoked = m.revoked]

RotationAllowed(m) ==
  LET previous == Last(keyRecords) IN
  /\ m.previous = previous.version
  /\ m.key.version = previous.version + 1
  /\ m.key.identity = previous.identity
  /\ m.key.from = m.cutover
  /\ m.key.revoked = Nothing
  /\ previous.from < m.cutover /\ m.cutover <= previous.until

RevocationAllowed(m) ==
  LET target == keyRecords[m.version] IN
  /\ target.revoked = Nothing
  /\ target.from <= m.revoked /\ m.revoked <= target.until

PlanAllowed(m) ==
  /\ LifecycleImageValid
  /\ m.expected = Revision
  /\ CASE m.kind = "provision" ->
            /\ keyRecords = <<>>
            /\ m.key.version = 1
            /\ m.key.revoked = Nothing
       [] m.kind = "rotate" -> keyRecords # <<>> /\ RotationAllowed(m)
       [] m.kind = "revoke" -> m.version \in DOMAIN keyRecords /\ RevocationAllowed(m)
  /\ ValidHistory(RecordsAfter(m))

EventOf(m) ==
  [kind |-> m.kind, revision |-> Revision + 1, at |-> m.at,
   version |-> IF m.kind = "revoke" THEN m.version ELSE m.key.version]

(* Faulty variant: the plan made before the digest was awaited is used.    *)
PlannedBefore(m) == TRUE

(* The transaction plans again.                                            *)
PlannedAgain(m) == PlanAllowed(m)

CommitPlan(m) ==
  IF PlannedAgain(m)
  THEN keyRecords' = RecordsAfter(m) /\ keyEvents' = Append(keyEvents, EventOf(m))
  ELSE UNCHANGED keyTables

(* commit of the store: a plan, the digest of its event, the transaction.  *)
PlanMutation(c) ==
  /\ At(c, "lifecycle", "new")
  /\ UNCHANGED keyVars
  /\ IF PlanAllowed(calls[c].request.command) THEN Proceed(c, "commit", Nothing) ELSE End(c)

CommitMutation(c) ==
  /\ At(c, "lifecycle", "commit")
  /\ End(c)
  /\ CommitPlan(calls[c].request.command)
  /\ UNCHANGED <<deployment, keySignatures>>

-----------------------------------------------------------------------------
(* synchronizeConfiguredKey: the command that brings the ledger to the     *)
(* deployed configuration g, if it is one step ahead.                      *)
SameKeyExceptRevocation(k, l) == [k EXCEPT !.revoked = Nothing] = [l EXCEPT !.revoked = Nothing]

IsFirst(g) == keyRecords = <<>> /\ g.key.version = 1 /\ g.revision = 1

IsNext(g) ==
  /\ keyRecords # <<>>
  /\ g.key.version = Last(keyRecords).version + 1
  /\ g.revision = Revision + 1

Recorded(g) ==
  /\ g.key.version \in DOMAIN keyRecords
  /\ SameKeyExceptRevocation(keyRecords[g.key.version], g.key)

IsRevoked(g) ==
  /\ Recorded(g)
  /\ keyRecords[g.key.version].revoked = Nothing
  /\ g.key.revoked # Nothing
  /\ g.revision = Revision + 1

SyncCommand(g) ==
  CASE IsFirst(g) -> [kind |-> "provision", key |-> g.key, expected |-> 0, at |-> clock]
    [] IsNext(g) -> [kind |-> "rotate", key |-> g.key, previous |-> g.key.version - 1,
                     cutover |-> g.key.from, expected |-> Revision, at |-> clock]
    [] IsRevoked(g) -> [kind |-> "revoke", version |-> g.key.version,
                        revoked |-> g.key.revoked, expected |-> Revision, at |-> clock]
    [] OTHER -> Nothing

(* Faulty variant: any configuration of the current revision is in step.   *)
InStepByRevision(g) == g.key.version \in DOMAIN keyRecords /\ g.revision = Revision

InStep(g) ==
  /\ Recorded(g)
  /\ keyRecords[g.key.version].revoked = g.key.revoked
  /\ g.revision = Revision

Synchronize(c) ==
  LET m == SyncCommand(deployment) IN
  /\ At(c, "keysign", "new")
  /\ UNCHANGED keyVars
  /\ \/ /\ ValidHistory(<<deployment.key>>)
        /\ m # Nothing
        /\ IF PlanAllowed(m) THEN Proceed(c, "commit", m) ELSE End(c)
     \/ /\ ValidHistory(<<deployment.key>>)
        /\ m = Nothing
        /\ IF InStep(deployment) THEN Proceed(c, "body", Nothing) ELSE End(c)
     \/ /\ ~ValidHistory(<<deployment.key>>)
        /\ End(c)

CommitSynchronization(c) ==
  /\ At(c, "keysign", "commit")
  /\ CommitPlan(calls[c].seen)
  /\ IF keyEvents' # keyEvents THEN Proceed(c, "body", Nothing) ELSE End(c)
  /\ UNCHANGED <<deployment, keySignatures>>

(* keyCanSignAt, and issuanceTimeRefusal of the verifier.                  *)
CanSignAt(k, now) == k.from <= now /\ now < k.until /\ (k.revoked # Nothing => now < k.revoked)

ReadSigningRequest(c) ==
  /\ At(c, "keysign", "body")
  /\ UNCHANGED keyVars
  /\ IF CanSignAt(deployment.key, clock) THEN Proceed(c, "sign", clock) ELSE End(c)

(* The key may fail to load or to sign; the call then answers nothing.     *)
SignWithKey(c) ==
  /\ At(c, "keysign", "sign")
  /\ End(c)
  /\ keySignatures' \in {keySignatures, keySignatures \cup
       {[version |-> deployment.key.version, public |-> deployment.key.public,
         issued |-> calls[c].seen]}}
  /\ UNCHANGED <<keyTables, deployment>>

(* A new configuration is deployed: the object starts again with it.       *)
Deploy(c) ==
  /\ At(c, "deploy", "new")
  /\ deployment' = calls[c].request.configuration
  /\ calls' = [x \in Calls |->
       IF x # c /\ calls[x].step = "new" THEN calls[x]
       ELSE [calls[x] EXCEPT !.step = "done", !.seen = Nothing]]
  /\ UNCHANGED <<keyTables, keySignatures>>

KeyStep(c) ==
  /\ UNCHANGED clock
  /\ \/ PlanMutation(c) \/ CommitMutation(c)
     \/ Synchronize(c) \/ CommitSynchronization(c)
     \/ ReadSigningRequest(c) \/ SignWithKey(c) \/ Deploy(c)

-----------------------------------------------------------------------------
(* As long as mutations carry times that do not go back, the ledger stays  *)
(* one the planner accepts, so that a key can still be rotated or revoked: *)
(* racing mutations that were planned on the same image do not both commit.*)
LedgerStaysUsable == TimesInOrder => LifecycleImageValid

(* preflightKeyBoundStatement: what a verifier with the current history    *)
(* says of a signature.                                                    *)
VerifierAccepts(s) ==
  /\ s.version \in DOMAIN keyRecords
  /\ keyRecords[s.version].public = s.public
  /\ CanSignAt(keyRecords[s.version], s.issued)

(* Whatever the signer answers verifies under the history it publishes at  *)
(* that moment, whichever configurations were deployed, rolled back or     *)
(* deployed while a request was being answered.                            *)
SignaturesVerify ==
  [][\A s \in keySignatures' \ keySignatures : VerifierAccepts(s)]_keyVars
=============================================================================
