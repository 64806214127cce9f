---------------------------- MODULE AnchorReplay ----------------------------
(***************************************************************************)
(* Signing anchors and central replay of an open-world GameAuditShard      *)
(* (index.ts): the head and history of anchors, the forks of it, the       *)
(* outbox of replay jobs, the queue that carries them, and what a          *)
(* delivered job decides and creates.                                      *)
(*                                                                         *)
(* A digest is the value it names.  The key of a job is the tuple its      *)
(* idempotency key is printed from.  What the game kernel says of a        *)
(* bundle is part of the request (`replay`), with the items it creates.    *)
(***************************************************************************)
EXTENDS Integers, Sequences, FiniteSets, SequencesExt, ShardRequests

CONSTANTS
  Goods,       \* asset ids of created items
  Shelved,     \* the items that earlier replays created
  Deployments, \* what the shard may have been configured with, or Nothing
  BatchLimit,  \* rows an alarm reads, 32 in the code
  MaxOutages,  \* bound: failed sends and lost acknowledgements
  MaxRestarts  \* bound: restarts of the object

ASSUME ReplayAssumption == BatchLimit \in Nat \ {0}

VARIABLES
  shard,    \* audit_config, or Nothing
  history,  \* anchor_history by epoch; its last entry is anchor_head
  forks,    \* anchor_forks
  outbox,   \* replay_outbox with replay_artifacts, by created_at
  jobs,     \* REPLAY_QUEUE: keys that have not been acknowledged
  items,    \* verified_item_creations
  wakeup,   \* an alarm of the object is set
  alarmRun, \* the alarm handler: keys left, step, retryNeeded
  outages,  \* failures so far
  restarts  \* restarts so far

replayTables == <<shard, history, forks, outbox, items>>
replayVars == <<replayTables, jobs, wakeup, alarmRun, outages, restarts>>

ReplayInit ==
  /\ shard \in Deployments
  /\ history = <<>>
  /\ forks = {}
  /\ outbox = <<>>
  /\ jobs = {}
  /\ items = Shelved
  /\ wakeup = FALSE
  /\ alarmRun = Nothing
  /\ outages = 0
  /\ restarts = 0

-----------------------------------------------------------------------------
(* Configuration and anchors.                                              *)
Configure(c) ==
  /\ At(c, "configure", "new")
  /\ End(c)
  /\ shard' = IF shard = Nothing THEN calls[c].request.config ELSE shard
  /\ UNCHANGED <<history, forks, outbox, jobs, items, wakeup, alarmRun, outages, restarts>>

Known(epoch) == SelectSeq(history, LAMBDA h : h.epoch = epoch)

(* Faulty variant: the parent of the next anchor is not compared.          *)
ClassifyAnchorByEpoch(a) ==
  IF history # <<>> /\ a.epoch = Last(history).epoch + 1 THEN "advance"
  ELSE IF history = <<>> THEN "initialized"
  ELSE IF \E h \in Range(history) : h = a THEN "duplicate" ELSE "same_epoch_fork"

ClassifyAnchor(a) ==
  LET head == Last(history) IN
  IF history = <<>>
    THEN IF a.epoch = shard.first /\ a.previous = shard.previous
         THEN "initialized" ELSE "boundary_rejected"
  ELSE IF Known(a.epoch) # <<>>
    THEN IF Known(a.epoch)[1].digest = a.digest THEN "duplicate" ELSE "same_epoch_fork"
  ELSE IF a.epoch = head.epoch + 1
    THEN IF a.previous = head.digest THEN "advance" ELSE "wrong_parent_fork"
  ELSE IF a.epoch > head.epoch THEN "gap" ELSE "stale"

IsFork(decision) == decision \in {"same_epoch_fork", "wrong_parent_fork"}

Key(reason, epoch, digest, checkpoint) ==
  [reason |-> reason, epoch |-> epoch, digest |-> digest, checkpoint |-> checkpoint]

InOutbox(key) == \E i \in DOMAIN outbox : outbox[i].key = key

Row(key) == outbox[CHOOSE i \in DOMAIN outbox : outbox[i].key = key]

Pending(key) == InOutbox(key) /\ Row(key).status = "pending"

(* INSERT OR IGNORE; with the artifact of the request.                     *)
InsertReplayOutbox(key, artifact) ==
  outbox' = IF InOutbox(key) THEN outbox
            ELSE Append(outbox, [key |-> key, status |-> "pending",
                                 artifact |-> artifact, decision |-> Nothing])

(* A job that was inserted is dispatched: the handler awaits the queue.    *)
Dispatch(c, key) == IF InOutbox(key) THEN End(c) ELSE Proceed(c, "send", key)

(* commitVerifiedAnchor is one transaction; the configuration never        *)
(* changes while the body is read.                                         *)
SubmitAnchor(c) ==
  LET a == calls[c].request.anchor
      decision == ClassifyAnchor(a)
      key == Key("fork", a.epoch, a.digest, Nothing)
      verified == shard # Nothing /\ calls[c].request.signed
  IN
  /\ At(c, "anchor", "new")
  /\ UNCHANGED <<shard, jobs, items, wakeup, alarmRun, outages, restarts>>
  /\ \/ /\ ~verified
        /\ End(c)
        /\ UNCHANGED <<history, forks, outbox>>
     \/ /\ verified
        /\ history' = IF decision \in {"initialized", "advance"}
                      THEN Append(history, a) ELSE history
        /\ IF IsFork(decision)
           THEN /\ forks' = forks \cup
                     {[kind |-> decision, epoch |-> a.epoch, digest |-> a.digest]}
                /\ InsertReplayOutbox(key, Nothing)
                /\ Dispatch(c, key)
           ELSE End(c) /\ UNCHANGED <<forks, outbox>>

(* requestCentralReplay: the head is read before the body of the request.  *)
ReadReplayHead(c) ==
  /\ At(c, "replay", "new")
  /\ UNCHANGED replayVars
  /\ IF shard = Nothing \/ history = <<>> THEN End(c)
     ELSE Proceed(c, "insert", Last(history))

ExplicitReasons == {"sample", "challenge", "marketplace"}

RequestCentralReplay(c) ==
  LET r == calls[c].request
      head == calls[c].seen
      key == Key(r.reason, head.epoch, head.digest,
                 IF r.artifact = Nothing THEN Nothing ELSE r.artifact.checkpoint)
  IN
  /\ At(c, "replay", "insert")
  /\ UNCHANGED <<shard, history, forks, jobs, items, wakeup, alarmRun, outages, restarts>>
  /\ IF r.reason \in ExplicitReasons
     THEN InsertReplayOutbox(key, r.artifact) /\ Dispatch(c, key)
     ELSE End(c) /\ UNCHANGED outbox

-----------------------------------------------------------------------------
(* dispatchReplayJob: the queue takes the job, and then the row is marked  *)
(* unless it has been delivered in between.                                *)
SetRow(key, status, decision) ==
  [i \in DOMAIN outbox |->
     IF outbox[i].key = key
     THEN [outbox[i] EXCEPT !.status = status, !.decision = decision] ELSE outbox[i]]

(* Faulty variant: the row is marked queued whatever its status.           *)
MarkAnyQueued(key) == outbox' = SetRow(key, "queued", Nothing)

MarkQueued(key) ==
  outbox' = IF Pending(key) THEN SetRow(key, "queued", Nothing) ELSE outbox

QueueAccepts(key) == jobs' = jobs \cup {key} /\ UNCHANGED <<wakeup, outages>>

(* The send throws; the queue may have taken the job all the same.         *)
QueueFails(key) ==
  /\ outages < MaxOutages
  /\ outages' = outages + 1
  /\ jobs' \in {jobs, jobs \cup {key}}
  /\ wakeup' = TRUE

SendReplayJob(c) ==
  LET key == calls[c].seen IN
  /\ calls[c].step = "send"
  /\ UNCHANGED <<replayTables, alarmRun, restarts>>
  /\ \/ QueueAccepts(key) /\ Proceed(c, "mark", key)
     \/ QueueFails(key) /\ End(c)

MarkReplayJob(c) ==
  /\ calls[c].step = "mark"
  /\ MarkQueued(calls[c].seen)
  /\ End(c)
  /\ UNCHANGED <<shard, history, forks, items, jobs, wakeup, alarmRun, outages, restarts>>

(* alarm: the oldest pending jobs, one after the other.                    *)
PendingKeys ==
  LET rows == SelectSeq(outbox, LAMBDA r : r.status = "pending") IN
  [i \in DOMAIN rows |-> rows[i].key]

FirstKeys(keys) == SubSeq(keys, 1, IF Len(keys) < BatchLimit THEN Len(keys) ELSE BatchLimit)

AlarmFires ==
  /\ wakeup
  /\ alarmRun = Nothing
  /\ wakeup' = FALSE
  /\ alarmRun' = [keys |-> FirstKeys(PendingKeys), step |-> "send", retry |-> FALSE]
  /\ UNCHANGED <<replayTables, jobs, outages, restarts, calls>>

AlarmGoesOn(keys, step, retry) ==
  alarmRun' = [keys |-> keys, step |-> step, retry |-> retry]

AlarmSends ==
  LET key == Head(alarmRun.keys) IN
  /\ alarmRun # Nothing
  /\ alarmRun.step = "send"
  /\ alarmRun.keys # <<>>
  /\ UNCHANGED <<replayTables, restarts, calls>>
  /\ \/ /\ ~Pending(key)
        /\ AlarmGoesOn(Tail(alarmRun.keys), "send", alarmRun.retry)
        /\ UNCHANGED <<jobs, wakeup, outages>>
     \/ /\ Pending(key)
        /\ QueueAccepts(key)
        /\ AlarmGoesOn(alarmRun.keys, "mark", alarmRun.retry)
     \/ /\ Pending(key)
        /\ QueueFails(key)
        /\ AlarmGoesOn(Tail(alarmRun.keys), "send", TRUE)

AlarmMarks ==
  /\ alarmRun # Nothing
  /\ alarmRun.step = "mark"
  /\ MarkQueued(Head(alarmRun.keys))
  /\ AlarmGoesOn(Tail(alarmRun.keys), "send", alarmRun.retry)
  /\ UNCHANGED <<shard, history, forks, items, jobs, wakeup, outages, restarts, calls>>

(* Faulty variant: the handler never asks to be woken again.               *)
NoRetry(retry) == wakeup' = FALSE

(* The next alarm, if a job was not sent.                                  *)
RetryIf(retry) == wakeup' = (wakeup \/ retry)

AlarmEnds ==
  /\ alarmRun # Nothing
  /\ alarmRun.step = "send"
  /\ alarmRun.keys = <<>>
  /\ alarmRun' = Nothing
  /\ RetryIf(alarmRun.retry)
  /\ UNCHANGED <<replayTables, jobs, outages, restarts, calls>>

-----------------------------------------------------------------------------
(* classifyDeliveredReplay: what a delivered job decides.                  *)
ReplayJobMatchesStoredEvidence(key) ==
  IF key.reason = "fork"
  THEN Cardinality({f \in forks : f.epoch = key.epoch /\ f.digest = key.digest}) = 1
  ELSE Known(key.epoch) # <<>> /\ Known(key.epoch)[1].digest = key.digest

CheckpointBound(artifact) ==
  \A i \in artifact.items : i.checkpoint = artifact.checkpoint

ClassifyCentralReplay(row) ==
  IF ~ReplayJobMatchesStoredEvidence(row.key) THEN "boundary_rejected"
  ELSE IF row.artifact = Nothing THEN "awaiting_transcript"
  ELSE IF row.artifact.replay = "incomplete" THEN "replay_incomplete"
  ELSE IF row.artifact.replay # "matches" \/ ~CheckpointBound(row.artifact)
    THEN "replay_mismatch"
  ELSE "verified"

(* A creation agrees with the stored one, and no other item has its source *)
(* event and output index.  The epoch compared is the current one of the   *)
(* stored item.                                                            *)
Agrees(i) ==
  /\ items[i.asset] = Nothing \/
       /\ items[i.asset].creation = i
       /\ items[i.asset].epoch = i.epoch
  /\ \A a \in Goods \ {i.asset} : items[a] # Nothing => items[a].creation.source # i.source

(* Faulty variant: creations are stored without a look at the others.      *)
ItemCreationsUnchecked(created) == TRUE

ItemCreationsCanBeStored(created) == \A i \in created : Agrees(i)

NewItem(i) ==
  [creation |-> i, owner |-> i.owner, version |-> 0, head |-> i.checkpoint,
   epoch |-> i.epoch, manifest |-> Nothing, lineage |-> Nothing, status |-> "eligible"]

(* INSERT OR IGNORE under the key asset_id and UNIQUE(source_event,        *)
(* output_index); the creations of one bundle have distinct ids and        *)
(* sources.                                                                *)
StoreVerifiedItemCreations(created) ==
  items' = [a \in Goods |->
              IF items[a] = Nothing /\ \E i \in created : i.asset = a
              THEN NewItem(CHOOSE i \in created : i.asset = a) ELSE items[a]]

Classified(row) ==
  LET decision == ClassifyCentralReplay(row) IN
  IF decision = "verified" /\ ~ItemCreationsCanBeStored(row.artifact.items)
  THEN "replay_mismatch" ELSE decision

(* The queue consumer hands a job to the shard and acknowledges it; a lost *)
(* answer brings the job again.                                            *)
DeliverReplayJob(key) ==
  LET row == Row(key) IN
  /\ key \in jobs
  /\ UNCHANGED <<shard, history, forks, wakeup, alarmRun, restarts, calls>>
  /\ \/ jobs' = jobs \ {key} /\ UNCHANGED outages
     \/ outages < MaxOutages /\ outages' = outages + 1 /\ UNCHANGED jobs
  /\ IF row.status = "delivered" THEN UNCHANGED <<outbox, items>>
     ELSE /\ outbox' = SetRow(key, "delivered", Classified(row))
          /\ IF Classified(row) = "verified" THEN StoreVerifiedItemCreations(row.artifact.items)
             ELSE UNCHANGED items

(* The object restarts: its handlers are gone, its storage and its alarm   *)
(* are not, and an alarm handler that did not end is run again.            *)
Restart ==
  /\ restarts < MaxRestarts
  /\ restarts' = restarts + 1
  /\ wakeup' = (wakeup \/ alarmRun # Nothing)
  /\ alarmRun' = Nothing
  /\ StopCalls
  /\ UNCHANGED <<replayTables, jobs, outages>>

-----------------------------------------------------------------------------
ReplayCall(c) ==
  \/ Configure(c) \/ SubmitAnchor(c) \/ ReadReplayHead(c) \/ RequestCentralReplay(c)
  \/ SendReplayJob(c) \/ MarkReplayJob(c)

AlarmStep == AlarmFires \/ AlarmSends \/ AlarmMarks \/ AlarmEnds

ReplayStep ==
  \/ \E c \in Calls : ReplayCall(c)
  \/ AlarmStep
  \/ \E key \in jobs : DeliverReplayJob(key)
  \/ Restart

ReplayFair ==
  /\ WF_<<replayVars, calls>>(AlarmStep)
  /\ WF_<<replayVars, calls>>(\E c \in Calls : SendReplayJob(c) \/ MarkReplayJob(c))

-----------------------------------------------------------------------------
(* The history of anchors starts at the configured boundary and every      *)
(* anchor names its predecessor; a recorded fork differs from the accepted *)
(* anchor of its epoch, so that recording it never moved the head.         *)
AnchorHistoryIsChain ==
  /\ \A i \in DOMAIN history :
       history[i].previous = IF i = 1 THEN shard.previous ELSE history[i - 1].digest
  /\ \A i \in DOMAIN history : history[i].epoch = shard.first + i - 1
  /\ \A f \in forks, i \in DOMAIN history :
       f.kind = "same_epoch_fork" => f.epoch # history[i].epoch \/ f.digest # history[i].digest

(* Every new item is backed by a job that was decided "verified", and the  *)
(* items of such a job are all stored as it created them.                  *)
ItemsAreVerified ==
  /\ \A a \in Goods : items[a] # Nothing /\ Shelved[a] = Nothing =>
       \E i \in DOMAIN outbox :
         /\ outbox[i].decision = "verified"
         /\ items[a].creation \in outbox[i].artifact.items
  /\ \A i \in DOMAIN outbox : outbox[i].decision = "verified" =>
       \A j \in outbox[i].artifact.items :
         items[j.asset] # Nothing /\ items[j.asset].creation = j

(* However sends, redeliveries, late marks and stops are interleaved, the  *)
(* replay of an accepted epoch counts once: neither a late mark of the     *)
(* dispatcher nor a redelivery takes a delivered job back or changes its   *)
(* decision, and the items of the shelf are those of the verified jobs.    *)
ReplayCountsOnce ==
  [][/\ ItemsAreVerified'
     /\ \A i \in DOMAIN outbox :
          outbox[i].status = "delivered" => outbox'[i] = outbox[i]]_replayVars

(* The oldest pending job is sent once an alarm is set, whatever sends     *)
(* fail and however often the object restarts: the alarm that cannot send  *)
(* it asks for another.                                                    *)
AlarmedJobsAreSent ==
  \A i \in 1..2 :
    (wakeup /\ i \in DOMAIN outbox /\ i <= BatchLimit /\ outbox[i].status = "pending")
      ~> (i \in DOMAIN outbox /\ outbox[i].status # "pending")

=============================================================================
