-------------------------- MODULE EncounterSession --------------------------
(***************************************************************************)
(* The player's side of an encounter: EncounterSessionController           *)
(* (encounter-session.ts) with its durable image (encounter-session-store. *)
(* ts), and EncounterRecorder (encounter-recorder.ts) over the payload     *)
(* pool, against the encounter authority.  The page takes a lock (main.ts),*)
(* so that there is one tab, which runs one operation at a time.  An       *)
(* operation is a sequence of awaits: a write of the image (compare-and-   *)
(* swap on its revision), a transaction of the pool, or a request; between *)
(* them the tab may be closed and the authority serves others.  The effect *)
(* of a request is one step of the authority; its answer may be lost, and  *)
(* it may arrive late, after the tab that sent it has gone or given up.    *)
(* Signatures verify.                                                      *)
(***************************************************************************)
EXTENDS EncounterAuthority, PayloadPool

CONSTANTS
  Player,         \* the owner whose sessions these are
  Logs,           \* the roots of the logs the player may record
  MaxHistory,     \* MAX_RECEIPT_HISTORY
  MaxLosses       \* bound: closed tabs, lost answers and late requests

VARIABLES
  image,       \* the durable session image
  tabs,        \* the controller: memory, and the operation in progress;
               \* and what the request needs that was left in flight
  operations,  \* bound: the operations the player may still start
  losses

playerVars == <<image, tabs, operations, losses, poolVars>>

Slots == {"tab", "late"}

NoImage ==
  [revision |-> 0, current |-> Nothing, history |-> <<>>, checkpoint |-> <<>>,
   compaction |-> Nothing, retirement |-> Nothing]

NewTab ==
  [image |-> NoImage, recorder |-> Nothing, chunks |-> 0, playing |-> FALSE, catalog |-> <<>>,
   catalogAfter |-> 0, catalogNext |-> Nothing,
   want |-> Nothing, at |-> "idle", plan |-> <<>>, next |-> Nothing, seen |-> Nothing]

SessionInit(stored, written, count) ==
  /\ PoolInit(stored)
  /\ image = written
  /\ tabs = [p \in Slots |-> Nothing]
  /\ operations = count
  /\ losses = 0

NewSession(start) ==
  [start |-> start, phase |-> "starting", ticket |-> Nothing, receipt |-> Nothing,
   issued |-> 0, termination |-> Nothing, cleaned |-> FALSE, releasing |-> FALSE]

-----------------------------------------------------------------------------
(* Operations and their awaits.                                            *)
Tab(p) == tabs[p]
Current(p) == tabs[p].image.current

(* Nobody waits for the answer to a late request.                          *)
Set(p, tab) == tabs' = [tabs EXCEPT ![p] = IF p = "late" THEN Nothing ELSE tab]

(* The operation goes on with the next part of its plan, or ends.          *)
Onward(tab) ==
  IF tab.plan = <<>>
  THEN [tab EXCEPT !.at = "idle", !.want = Nothing, !.seen = Nothing, !.next = Nothing]
  ELSE [tab EXCEPT !.at = Head(tab.plan), !.plan = Tail(tab.plan), !.seen = Nothing, !.next = Nothing]

(* The operation throws: the phase is "error".                             *)
Thrown(tab) ==
  [tab EXCEPT !.at = "idle", !.plan = <<>>, !.playing = FALSE, !.want = Nothing,
     !.seen = Nothing, !.next = Nothing]

Stage(p, at) == tabs[p] # Nothing /\ tabs[p].at = at

Only(p, tab) ==
  Set(p, tab) /\ UNCHANGED <<image, operations, losses, poolVars, encounterVars, calls>>

(* An operation of the player begins with the first part of its plan.      *)
Begin(p, want, plan) ==
  /\ operations > 0
  /\ operations' = operations - 1
  /\ Set(p, Onward([Tab(p) EXCEPT !.want = want, !.plan = plan]))
  /\ UNCHANGED <<image, losses, poolVars, encounterVars, calls>>

Throw(p) == Set(p, Thrown(Tab(p)))

(* save and store.write: the image replaces the one it was made from.      *)
Saving(tab, next) == [tab EXCEPT !.at = "write", !.next = next]

SavingCurrent(tab, current) == Saving(tab, [tab.image EXCEPT !.current = current])

Before(at, tab) == [tab EXCEPT !.plan = <<at>> \o @]

SameImage(tab) == image.revision = tab.image.revision

Catalog(tab, catalog, after, next) ==
  [tab EXCEPT !.catalog = catalog, !.catalogAfter = after, !.catalogNext = next]

(* Without a current session nothing is recorded; the catalog is a page of *)
(* one checkpoint.                                                         *)
Adopted(tab, next) ==
  LET adopted == [tab EXCEPT
        !.image = next,
        !.recorder = IF next.current = Nothing THEN Nothing ELSE @,
        !.chunks = IF next.current = Nothing THEN 0 ELSE @] IN
  IF next.checkpoint = tab.image.checkpoint THEN adopted ELSE Catalog(adopted, <<>>, 0, Nothing)

WriteImage(p) ==
  LET next == [Tab(p).next EXCEPT !.revision = image.revision + 1] IN
  /\ Stage(p, "write")
  /\ IF SameImage(Tab(p))
     THEN image' = next /\ Set(p, Onward(Adopted(Tab(p), next)))
     ELSE UNCHANGED image /\ Throw(p)
  /\ UNCHANGED <<operations, losses, poolVars, encounterVars, calls>>

(* A request that the authority grants, with what it changes, is answered, *)
(* or the answer is lost; one that it refuses throws.                      *)
Answered(p, granted, tab) ==
  /\ \/ granted /\ Set(p, tab) /\ UNCHANGED losses
     \/ granted /\ losses < MaxLosses /\ losses' = losses + 1 /\ Throw(p)
     \/ ~granted /\ Throw(p) /\ UNCHANGED losses
  /\ UNCHANGED <<image, operations, poolVars, calls>>

Asking(p, granted, tab) == Answered(p, granted, tab) /\ UNCHANGED encounterVars

Changing(p, t, granted, row, tab) ==
  /\ Answered(p, granted, tab)
  /\ IF granted /\ row # tickets[t] THEN Replace(t, row) ELSE UNCHANGED tickets
  /\ UNCHANGED besidesTickets

(* A transaction of the pool.                                              *)
Pooled(p, stands, after, tab) ==
  /\ IF stands THEN pool' = after /\ Set(p, tab) ELSE UNCHANGED pool /\ Throw(p)
  /\ UNCHANGED <<image, operations, losses, handles, encounterVars, calls>>

-----------------------------------------------------------------------------
(* The tab comes and goes; a closed tab loses what is not in the image.    *)
RecoveryPlan(i, page) ==
  (IF i.retirement # Nothing THEN <<"retire">> ELSE <<>>) \o
  (IF i.compaction # Nothing THEN <<"compact">> ELSE <<>>) \o <<"recover", page>>

Initialize(p) ==
  /\ tabs[p] = Nothing
  /\ Only(p, Onward([NewTab EXCEPT !.image = image, !.plan = RecoveryPlan(image, "first-page")]))

Refresh(p) == Stage(p, "idle") /\ Begin(p, Nothing, RecoveryPlan(Tab(p).image, "same-page"))

Requesting ==
  {"start", "start-again", "status", "stop", "commit", "reveal", "settle", "terminate", "prune",
   "drop", "grant", "closure", "upload", "handoff", "releasing", "admit", "compacting",
   "retiring", "first-page", "same-page", "next-page"}

InFlight(tab) ==
  Catalog([tab EXCEPT !.plan = <<>>, !.chunks = 0, !.playing = FALSE], <<>>, 0, Nothing)

(* The tab is closed, or its request fails without an answer.              *)
Leave(p) ==
  /\ tabs[p] # Nothing /\ losses < MaxLosses
  /\ losses' = losses + 1
  /\ \E after \in {Nothing} \cup {Thrown(tab) : tab \in {x \in {Tab(p)} : x.at \in Requesting}},
        late \in {tabs["late"]} \cup
                {InFlight(tab) : tab \in {x \in {Tab(p)} : x.at \in Requesting /\ tabs["late"] = Nothing}} :
       tabs' = [tabs EXCEPT ![p] = after, !["late"] = late]
  /\ UNCHANGED <<image, operations, poolVars, encounterVars, calls>>

-----------------------------------------------------------------------------
(* EncounterRecorder.start: the whole log is reserved, then the ticket is  *)
(* asked for; a failure gives nothing back.                                *)
LogBytes == 2
LogItems == 2

HandleOf(q, after) == [queue |-> q, incarnation |-> after.scopes[q].incarnation]

ReserveLog(p, at, then) ==
  LET q == Current(p).start
      after == IF Reopens(q, LogBytes, LogItems) THEN pool ELSE Opened(q, LogBytes, LogItems) IN
  /\ Stage(p, at)
  /\ Pooled(p, Reopens(q, LogBytes, LogItems) \/ Registers(q, LogBytes, LogItems), after,
            [Tab(p) EXCEPT !.at = then, !.recorder = HandleOf(q, after)])

StartRequest(start) == [start |-> start, owner |-> Player]

(* The ticket of the start: of an older generation only if it is closed.   *)
Startable(start) ==
  IF start.generation < generation
  THEN \E t \in TicketsOf(start) : tickets[t].released /\ tickets[t].owner = Player
  ELSE StartAuthorized(StartRequest(start))

TicketFor(start) ==
  IF TicketsOf(start) = {} THEN Len(started) + 1 ELSE CHOOSE t \in TicketsOf(start) : TRUE

StartTicket(p, at, tab) ==
  LET start == Current(p).start IN
  /\ Stage(p, at)
  /\ Answered(p, Startable(start), tab)
  /\ IF Startable(start) /\ TicketsOf(start) = {}
     THEN Insert(start, Player, clock) ELSE UNCHANGED <<tickets, started>>
  /\ UNCHANGED <<admissions, generation, bundles, bindings, inventory>>

-----------------------------------------------------------------------------
(* recoverCurrent.                                                         *)
Recover(p) ==
  LET tab == Tab(p) IN
  /\ Stage(p, "recover")
  /\ Only(p, IF Current(p) = Nothing THEN Onward([tab EXCEPT !.playing = FALSE])
             ELSE IF Current(p).releasing THEN [tab EXCEPT !.at = "release"]
             ELSE IF Current(p).ticket = Nothing THEN [tab EXCEPT !.at = "reserve-again"]
             ELSE [tab EXCEPT !.at = "status", !.seen = Current(p).ticket])

ReserveAgain(p) == ReserveLog(p, "reserve-again", "start-again")

StartAgain(p) ==
  StartTicket(p, "start-again",
              [Tab(p) EXCEPT !.at = "status", !.seen = TicketFor(Current(p).start)])

ReadStatus(p) ==
  LET t == Tab(p).seen IN
  /\ Stage(p, "status")
  /\ Asking(p, tickets[t] # Nothing,
            [Tab(p) EXCEPT !.at = "snapshot", !.seen = [ticket |-> t, row |-> tickets[t]]])

LastDigest(q) == ScopeOf(q).chunks[LogItems].digest

WholeLog(q) == IsOpen(q) /\ ScopeOf(q).first = 0 /\ Len(ScopeOf(q).chunks) = LogItems

(* What the status and the retained log say of the session.                *)
Recovered(current, seen) ==
  LET row == seen.row
      settled == row.phase = "settled"
      stopped == row.phase = "forfeited" IN
  [current EXCEPT
     !.ticket = seen.ticket,
     !.issued = row.issued,
     !.phase = IF settled THEN "settled"
               ELSE IF stopped THEN "terminated"
               ELSE IF ~WholeLog(current.start) THEN @
               ELSE IF row.phase = "issued" THEN "complete" ELSE "committed",
     !.receipt = IF settled THEN row.receipt ELSE @,
     !.termination = IF stopped THEN row.termination ELSE @,
     !.cleaned = IF settled THEN ~IsOpen(current.start) ELSE @]

Reopening(tab, open) ==
  IF open THEN [tab EXCEPT !.at = "reopen"] ELSE SavingCurrent(tab, tab.next)

SnapshotLog(p) ==
  LET q == Current(p).start
      next == Recovered(Current(p), Tab(p).seen)
      tab == [Tab(p) EXCEPT !.recorder = Nothing, !.playing = FALSE, !.next = next,
                !.chunks = IF IsOpen(q) THEN ScopeOf(q).next ELSE 0, !.seen = IsOpen(q)] IN
  /\ Stage(p, "snapshot")
  /\ Only(p, IF next.phase = "terminated" /\ next.termination = Nothing
             THEN [tab EXCEPT !.at = "stop"] ELSE Reopening(tab, IsOpen(q)))

(* terminate: the row with its certificate.                                *)
Stoppable(t) ==
  tickets[t] # Nothing /\ (tickets[t].termination # Nothing \/ TerminateStands(tickets[t], "abandoned"))

Stopped(t) == IF tickets[t].termination # Nothing THEN tickets[t] ELSE Terminated(tickets[t], clock)

(* A forfeited ticket without a certificate is terminated.                 *)
StopForfeited(p) ==
  LET t == Tab(p).next.ticket IN
  /\ Stage(p, "stop")
  /\ Changing(p, t, Stoppable(t), Stopped(t),
              Reopening([Tab(p) EXCEPT !.next.termination = Stopped(t).termination], Tab(p).seen))

(* EncounterRecorder.open: queue() registers the scope if it is gone.      *)
ReopenLog(p) ==
  LET q == Current(p).start
      after == IF IsOpen(q) THEN pool ELSE Opened(q, 0, 0) IN
  /\ Stage(p, "reopen")
  /\ Pooled(p, IsOpen(q) \/ Registers(q, 0, 0), after,
            SavingCurrent([Tab(p) EXCEPT !.recorder = HandleOf(q, after)], Tab(p).next))

-----------------------------------------------------------------------------
(* start, step and advanceSettlement.                                      *)
RetainedReceipts(i) ==
  i.history \o
    IF i.current # Nothing /\ i.current.receipt # Nothing
    THEN <<[ticket |-> i.current.ticket, loot |-> i.current.receipt.loot]>> ELSE <<>>

(* The admissions the authority lists: those without a ticket.             *)
Offered == {a.start : a \in {x \in admissions : x.owner = Player /\ TicketsOf(x.start) = {}}}

StartSession(p) == \E start \in Offered :
  LET i == Tab(p).image IN
  /\ Stage(p, "idle")
  /\ i.current # Nothing => i.current.cleaned
  /\ Begin(p, start,
       (IF i.retirement # Nothing THEN <<"retire">> ELSE <<>>) \o
       (IF i.current # Nothing /\ i.current.termination # Nothing THEN <<"release">> ELSE <<>>) \o
       (IF i.compaction # Nothing \/ Len(RetainedReceipts(i)) >= MaxHistory
        THEN <<"compact", "first-page">> ELSE <<>>) \o <<"begin">>)

(* The receipt of the session before moves to the history.                 *)
BeginSession(p) ==
  LET i == Tab(p).image
      history == RetainedReceipts(i) IN
  /\ Stage(p, "begin")
  /\ Only(p, IF Len(history) >= MaxHistory THEN Thrown(Tab(p))
             ELSE Before("reserve",
                    Saving(Tab(p), [i EXCEPT !.history = history, !.current = NewSession(Tab(p).want)])))

ReserveFirst(p) == ReserveLog(p, "reserve", "start")

StartFirst(p) ==
  LET t == TicketFor(Current(p).start)
      issued == IF tickets[t] = Nothing THEN clock ELSE tickets[t].issued IN
  StartTicket(p, "start", Before("play",
    SavingCurrent(Tab(p), [Current(p) EXCEPT !.ticket = t, !.issued = issued, !.phase = "playing"])))

Play(p) ==
  /\ Stage(p, "play")
  /\ Only(p, Onward([Tab(p) EXCEPT !.chunks = 0, !.playing = clock < ReleaseAt(Current(p))]))

Interrupt(p) ==
  tabs[p] # Nothing /\ Tab(p).playing /\ Only(p, [Tab(p) EXCEPT !.playing = FALSE])

(* Thirty steps make a chunk, two chunks the log.                          *)
StepOn(p) ==
  /\ Stage(p, "idle") /\ Tab(p).playing /\ Tab(p).recorder # Nothing /\ Tab(p).chunks < LogItems
  /\ Begin(p, Nothing, <<"record">>)

RecordChunk(p) ==
  LET tab == Tab(p)
      q == Current(p).start IN
  /\ Stage(p, "record")
  /\ \E digest \in IF tab.chunks + 1 = LogItems THEN Logs ELSE {0} :
       LET chunk == [digest |-> digest, size |-> 1]
           answer == AppendAnswer(q, tab.chunks, chunk)
           last == tab.chunks + 1 = LogItems
           recorded == [tab EXCEPT !.chunks = @ + 1] IN
       Pooled(p, HandleStands(tab.recorder) /\ answer \in {"stored", "duplicate"},
              IF answer = "stored" THEN Extended(q, chunk) ELSE pool,
              IF last THEN SavingCurrent([recorded EXCEPT !.playing = FALSE],
                                         [Current(p) EXCEPT !.phase = "complete"])
              ELSE Onward(recorded))

Settleable(p) ==
  /\ Current(p) # Nothing /\ Current(p).ticket # Nothing /\ Tab(p).recorder # Nothing
  /\ Current(p).phase \in {"complete", "committed"} /\ Tab(p).chunks = LogItems

AdvanceSettlement(p) ==
  LET current == Current(p) IN
  /\ Stage(p, "idle") /\ Settleable(p)
  /\ IF current.phase = "complete"
     THEN NotBefore(current) <= clock /\ clock < ReleaseAt(current)
     ELSE clock >= ReleaseAt(current)
  /\ Begin(p, Nothing, IF current.phase = "complete" THEN <<"prepare", "commit", "due">>
                       ELSE <<"prepare", "reveal">>)

(* prepared: the complete log, read from the pool.                         *)
PrepareLog(p) ==
  LET q == Current(p).start IN
  /\ Stage(p, "prepare")
  /\ Only(p, IF HandleStands(Tab(p).recorder) /\ WholeLog(q)
             THEN [Onward(Tab(p)) EXCEPT !.seen = LastDigest(q)]
             ELSE Thrown(Tab(p)))

Commit(p) ==
  LET t == Current(p).ticket
      root == Tab(p).seen
      again == tickets[t] # Nothing /\ tickets[t].phase # "forfeited" /\ tickets[t].root = root IN
  /\ Stage(p, "commit")
  /\ Changing(p, t, again \/ CommitStands(tickets[t]),
              IF again THEN tickets[t] ELSE Committed(tickets[t], root),
              SavingCurrent(Tab(p), [Current(p) EXCEPT !.phase = "committed"]))

ReleaseDue(p) ==
  /\ Stage(p, "due")
  /\ Only(p, IF clock < ReleaseAt(Current(p)) THEN Onward(Tab(p))
             ELSE [Tab(p) EXCEPT !.at = "prepare", !.plan = <<"reveal">> \o @])

Reveal(p) ==
  LET t == Current(p).ticket
      again == tickets[t] # Nothing /\ tickets[t].phase # "forfeited" /\ tickets[t].revealed IN
  /\ Stage(p, "reveal")
  /\ Changing(p, t, again \/ RevealStands(tickets[t]),
              IF again THEN tickets[t] ELSE Revealed(tickets[t]), [Tab(p) EXCEPT !.at = "settle"])

Settle(p) ==
  LET t == Current(p).ticket
      again == tickets[t] # Nothing /\ tickets[t].receipt # Nothing
      row == IF again THEN tickets[t]
             ELSE Settled(tickets[t], ReceiptFor(tickets[t].root, clock)) IN
  /\ Stage(p, "settle")
  /\ Changing(p, t, again \/ (SettleStands(tickets[t]) /\ Tab(p).seen = tickets[t].root), row,
              SavingCurrent(Tab(p), [Current(p) EXCEPT !.phase = "settled", !.receipt = row.receipt]))

TerminateSession(p) ==
  /\ Stage(p, "idle")
  /\ Current(p) # Nothing /\ Current(p).ticket # Nothing /\ Current(p).receipt = Nothing
  /\ Begin(p, Nothing, <<"terminate">>)

Terminate(p) ==
  LET t == Current(p).ticket IN
  /\ Stage(p, "terminate")
  /\ Changing(p, t, Stoppable(t), Stopped(t),
              SavingCurrent([Tab(p) EXCEPT !.playing = FALSE],
                [Current(p) EXCEPT !.phase = "terminated", !.termination = Stopped(t).termination]))

-----------------------------------------------------------------------------
(* cleanup: the authority's right to delete, for the queue as it was read. *)
CleanUp(p) ==
  LET current == Current(p) IN
  /\ Stage(p, "idle")
  /\ current # Nothing /\ current.ticket # Nothing /\ ~current.cleaned
  /\ current.receipt # Nothing \/ current.termination # Nothing
  /\ Begin(p, Nothing,
       IF current.termination # Nothing
       THEN IF Tab(p).recorder = Nothing THEN <<"closure">> ELSE <<"closure-read">>
       ELSE IF Tab(p).recorder = Nothing THEN <<"grant">> ELSE <<"cleanup">>)

Snapshot(p) ==
  [revision |-> ScopeOf(Current(p).start).revision, next |-> ScopeOf(Current(p).start).next]

ReadLog(p, at, then) ==
  /\ Stage(p, at)
  /\ Only(p, IF HandleStands(Tab(p).recorder)
             THEN [Tab(p) EXCEPT !.at = then, !.seen = Snapshot(p)] ELSE Thrown(Tab(p)))

ReadForCleanup(p) ==
  ReadLog(p, "cleanup", IF ScopeOf(Current(p).start).chunks # <<>> THEN "prune-read" ELSE "release-read")

ReadForClosure(p) == ReadLog(p, "closure-read", "closure")
ReadForPrune(p) == ReadLog(p, "prune-read", "prune")
ReadForRelease(p) == ReadLog(p, "release-read", "drop")

(* The right is signed once the retention is recorded as closed.           *)
Grant(p, at, stands, tab) ==
  LET t == Current(p).ticket IN
  /\ Stage(p, at)
  /\ Changing(p, t, tickets[t] # Nothing /\ stands, Closed(tickets[t]), tab)

CleanedTab(tab) ==
  SavingCurrent([tab EXCEPT !.recorder = Nothing], [tab.image.current EXCEPT !.cleaned = TRUE])

PruneGrantFor(p) ==
  [revision |-> Tab(p).seen.revision, through |-> LogItems - 1,
   digest |-> tickets[Current(p).ticket].root]

(* Faulty variant: the log is deleted on a grant made up by the player.    *)
GrantingItself(p, at, then) ==
  Stage(p, at) /\ Only(p, [Tab(p) EXCEPT !.at = then, !.seen = PruneGrantFor(p)])

Granting(p, at, then) ==
  Grant(p, at, RetireStands(Current(p).ticket),
        [Tab(p) EXCEPT !.at = then, !.seen = PruneGrantFor(p)])

AskPrune(p) == Granting(p, "prune", "pruning")
AskRelease(p) == Granting(p, "drop", "dropping")

AskGrant(p) == Grant(p, "grant", RetireStands(Current(p).ticket), CleanedTab(Tab(p)))

AskClosure(p) ==
  Grant(p, "closure", ClosureStands(Current(p).ticket),
        IF Tab(p).recorder = Nothing THEN CleanedTab(Tab(p))
        ELSE [Tab(p) EXCEPT !.at = "drop-closed"])

PruneLog(p) ==
  LET q == Current(p).start IN
  /\ Stage(p, "pruning")
  /\ Pooled(p, HandleStands(Tab(p).recorder) /\ PruneStands(q, Tab(p).seen),
            Pruned(q, Tab(p).seen), [Tab(p) EXCEPT !.at = "release-read"])

DropLog(p, at, stands) ==
  /\ Stage(p, at)
  /\ Pooled(p, HandleStands(Tab(p).recorder) /\ stands, Dropped(Current(p).start),
            CleanedTab(Tab(p)))

(* A queue that was never written to goes without a digest (releaseEmpty). *)
ReleaseLog(p) ==
  LET q == Current(p).start IN
  \/ DropLog(p, "dropping", IF ScopeOf(q).next = 0 THEN ReleaseEmptyStands(q)
                            ELSE ReleaseStands(q, Tab(p).seen))
  \/ DropLog(p, "drop-closed", ReleaseClosedStands(q, Tab(p).seen))

(* archive: the bundle is stored, its custody accepted, the queue handed   *)
(* over.  The authority may stop between the two.                          *)
ArchiveLog(p) ==
  /\ Stage(p, "idle")
  /\ Current(p) # Nothing /\ Current(p).receipt # Nothing /\ ~Current(p).cleaned
  /\ Tab(p).recorder # Nothing
  /\ Begin(p, Nothing, <<"prepare", "upload", "prepare", "handoff-read">>)

Upload(p) ==
  LET t == Current(p).ticket
      stored == tickets[t] # Nothing /\ UploadStands(tickets[t]) /\
                (StoreStands(t) \/ (bundles[t] = "kept" /\ started[t].generation >= generation))
      accepted == stored /\ (tickets[t].custody \/ AcceptStands(tickets[t])) IN
  /\ Stage(p, "upload")
  /\ bundles' = IF stored THEN [bundles EXCEPT ![t] = "kept"] ELSE bundles
  /\ \/ /\ Answered(p, accepted, Onward(Tab(p)))
        /\ IF accepted /\ ~tickets[t].custody
           THEN Replace(t, [tickets[t] EXCEPT !.custody = TRUE]) ELSE UNCHANGED tickets
     \/ /\ stored /\ losses < MaxLosses /\ losses' = losses + 1
        /\ Throw(p)
        /\ UNCHANGED <<tickets, image, operations, poolVars, calls>>
  /\ UNCHANGED <<started, admissions, generation, bindings, inventory>>

ReadForHandoff(p) == ReadLog(p, "handoff-read", "handoff")

Handoff(p) ==
  LET row == tickets[Current(p).ticket] IN
  /\ Stage(p, "handoff")
  /\ Asking(p, row # Nothing /\ row.receipt # Nothing /\ row.custody /\ Tab(p).seen.next = LogItems,
            [Tab(p) EXCEPT !.at = "drop-closed"])

-----------------------------------------------------------------------------
(* releaseTerminated: the intent, the authority's release, the end.        *)
Forget(p) == Stage(p, "idle") /\ Current(p) # Nothing /\ Begin(p, Nothing, <<"release">>)

(* Faulty variant: the authority is asked before the intent is written.    *)
Unmarked(tab) == [tab EXCEPT !.at = "releasing"]

MarkReleasing(tab) ==
  Before("releasing", SavingCurrent(tab, [tab.image.current EXCEPT !.releasing = TRUE]))

PrepareRelease(p) ==
  LET current == Current(p)
      tab == Tab(p) IN
  /\ Stage(p, "release")
  /\ Only(p, IF \/ current = Nothing \/ ~current.cleaned
                \/ current.phase # "terminated" \/ IsOpen(current.start)
             THEN Thrown(tab)
             ELSE IF current.releasing THEN [tab EXCEPT !.at = "releasing"]
             ELSE MarkReleasing(tab))

ReleaseTerminated(p) ==
  LET current == Current(p)
      t == current.ticket IN
  /\ Stage(p, "releasing")
  /\ Answered(p, IF tickets[t] = Nothing
                 THEN current.start.generation < generation /\ clock >= current.termination
                 ELSE RecoveryStands(t),
              SavingCurrent(Tab(p), Nothing))
  /\ ReleaseRow(t)
  /\ UNCHANGED besidesTickets

-----------------------------------------------------------------------------
(* admit, and the inventory.                                               *)
RecordsOf(tab) == Range(RetainedReceipts(tab.image)) \cup Range(tab.catalog)

Admit(p, t) ==
  /\ Stage(p, "idle") /\ [ticket |-> t, loot |-> TRUE] \in RecordsOf(Tab(p))
  /\ Begin(p, t, <<"admit">>)

AdmitItem(p) ==
  LET t == Tab(p).want
      retained == \E e \in Range(RetainedReceipts(Tab(p).image)) : e.ticket = t IN
  /\ Stage(p, "admit")
  /\ Changing(p, t, tickets[t] # Nothing /\ ~IsHeld(t) /\ HasLoot(tickets[t]),
              [tickets[t] EXCEPT !.listed = TRUE],
              IF retained THEN Saving(Tab(p), Tab(p).image) ELSE Onward(Tab(p)))

TicketsIn(records) == [i \in DOMAIN records |-> records[i].ticket]

RetireFirst(tab) == IF tab.image.retirement # Nothing THEN <<"retire">> ELSE <<>>

Compact(p) ==
  Stage(p, "idle") /\ Begin(p, Nothing, RetireFirst(Tab(p)) \o <<"compact", "first-page">>)

PrepareCompaction(p) ==
  LET tab == Tab(p)
      i == tab.image
      records == RetainedReceipts(i)
      intent == [expected |-> i.checkpoint, batch |-> TicketsIn(records)] IN
  /\ Stage(p, "compact")
  /\ Only(p, IF (i.current # Nothing /\ ~i.current.cleaned) \/ records = <<>> THEN Thrown(tab)
             ELSE IF i.current # Nothing /\ i.current.termination # Nothing
             THEN Before("compact", [tab EXCEPT !.at = "release"])
             ELSE IF i.compaction = intent THEN [tab EXCEPT !.at = "compacting"]
             ELSE IF i.compaction # Nothing THEN Thrown(tab)
             ELSE Before("compacting", Saving(tab, [i EXCEPT !.compaction = intent])))

CompactionStands(r) ==
  /\ \A t \in Range(r.batch) : ReceiptRecord(t, r.owner)
  /\ HeadStands("append", r) /\ Range(r.batch) \cap Members = {}

(* The receipts leave the image in the write that adopts the checkpoint.   *)
CompactInventory(p) ==
  LET i == Tab(p).image
      r == [expected |-> i.compaction.expected, batch |-> i.compaction.batch, owner |-> Player]
      again == (\A t \in Range(r.batch) : ReceiptRecord(t, Player)) /\ IsRetry("append", r)
      after == IF again THEN inventory ELSE Appended(r, Batch("append", r)) IN
  /\ Stage(p, "compacting")
  /\ Answered(p, again \/ CompactionStands(r),
              Saving(Tab(p), [i EXCEPT !.current = Nothing, !.history = <<>>,
                                !.checkpoint = after.chain, !.compaction = Nothing]))
  /\ inventory' = IF again \/ CompactionStands(r) THEN after ELSE inventory
  /\ UNCHANGED <<tickets, started, admissions, generation, bundles, bindings>>

RetireEmptyInventory(p) ==
  Stage(p, "idle") /\ Begin(p, Nothing, <<"retire", "first-page">>)

PrepareRetirement(p) ==
  LET tab == Tab(p)
      i == tab.image
      empty == SelectSeq(tab.catalog, LAMBDA e : ~e.loot)
      intent == IF i.retirement # Nothing THEN i.retirement
                ELSE [expected |-> i.checkpoint, batch |-> TicketsIn(empty)] IN
  /\ Stage(p, "retire")
  /\ Only(p, IF \/ i.checkpoint = <<>> \/ i.compaction # Nothing
                \/ i.current # Nothing /\ (~i.current.cleaned \/ i.current.releasing)
                \/ intent.batch = <<>> \/ intent.expected # i.checkpoint
                \/ Range(TicketsIn(RetainedReceipts(i))) \cap Range(intent.batch) # {}
             THEN Thrown(tab)
             ELSE IF i.retirement # Nothing THEN [tab EXCEPT !.at = "retiring"]
             ELSE Before("retiring", Saving(tab, [i EXCEPT !.retirement = intent])))

Clearing(tab) ==
  [Saving(tab, [tab.image EXCEPT !.retirement = Nothing]) EXCEPT !.plan = <<"rethrow">>]

(* What the authority refuses is answered with 409, which clears the       *)
(* intent; a failure of any other kind (Leave, a lost answer) keeps it.    *)
RetireInventory(p) ==
  LET tab == Tab(p)
      r == [expected |-> tab.image.retirement.expected, batch |-> tab.image.retirement.batch,
            owner |-> Player]
      again == IsRetry("retire", r)
      stands == ~again /\ RetireBatchStands(r)
      after == IF again THEN inventory ELSE Erased(r) IN
  /\ Stage(p, "retiring")
  /\ inventory' = IF stands THEN after ELSE inventory
  /\ tickets' = IF stands THEN [t \in TicketIds |-> IF t \in Range(r.batch) THEN Nothing ELSE tickets[t]]
                ELSE tickets
  /\ \/ /\ again \/ stands
        /\ Set(p, Saving(tab, [tab.image EXCEPT !.checkpoint = after.chain, !.retirement = Nothing]))
        /\ UNCHANGED losses
     \/ (again \/ stands) /\ losses < MaxLosses /\ losses' = losses + 1 /\ Throw(p)
     \/ ~again /\ ~stands /\ Set(p, Clearing(tab)) /\ UNCHANGED losses
  /\ UNCHANGED <<image, operations, poolVars, calls, started, admissions, generation, bundles, bindings>>

Rethrow(p) == Stage(p, "rethrow") /\ Only(p, Thrown(Tab(p)))

LoadInventory(p) ==
  \E page \in {"first-page", "next-page"} : Stage(p, "idle") /\ Begin(p, Nothing, <<page>>)

Cursor(tab) ==
  CASE tab.at = "first-page" -> 0
    [] tab.at = "same-page" -> tab.catalogAfter
    [] tab.at = "next-page" -> IF tab.catalogNext = Nothing THEN 0 ELSE tab.catalogNext

(* readInventory: a page of the checkpoint the image holds.                *)
ReadInventory(p) ==
  LET tab == Tab(p)
      after == Cursor(tab)
      page == PageAfter(after)
      end == Last(page).last
      shown == SelectSeq(page, LAMBDA e : e.first \in DOMAIN inventory.members)
      record(n) == [ticket |-> inventory.members[n], loot |-> HasLoot(tickets[inventory.members[n]])]
      catalog == [i \in DOMAIN shown |-> record(shown[i].first)] IN
  /\ \E at \in {"first-page", "same-page", "next-page"} : Stage(p, at)
  /\ IF tab.image.checkpoint = <<>> THEN Only(p, Onward(Catalog(tab, <<>>, 0, Nothing)))
     ELSE Asking(p, inventory.chain = tab.image.checkpoint /\ PageFits(page, after),
                 Onward(Catalog(tab, catalog, after, IF end < ReceiptCount THEN end ELSE Nothing)))

-----------------------------------------------------------------------------
(* What the tab does by itself.                                            *)
LocalStep(p) ==
  \/ Initialize(p) \/ Refresh(p) \/ Leave(p) \/ WriteImage(p)
  \/ Recover(p) \/ ReserveAgain(p) \/ SnapshotLog(p) \/ ReopenLog(p)
  \/ StartSession(p)
  \/ BeginSession(p) \/ ReserveFirst(p) \/ Play(p) \/ Interrupt(p) \/ StepOn(p) \/ RecordChunk(p)
  \/ AdvanceSettlement(p) \/ PrepareLog(p) \/ ReleaseDue(p) \/ TerminateSession(p)
  \/ CleanUp(p) \/ ReadForCleanup(p) \/ ReadForClosure(p) \/ ReadForPrune(p) \/ ReadForRelease(p)
  \/ PruneLog(p) \/ ReleaseLog(p) \/ ArchiveLog(p) \/ ReadForHandoff(p)
  \/ Forget(p) \/ PrepareRelease(p) \/ \E t \in TicketIds : Admit(p, t)
  \/ Compact(p) \/ PrepareCompaction(p) \/ RetireEmptyInventory(p) \/ PrepareRetirement(p)
  \/ Rethrow(p) \/ LoadInventory(p)

RequestStep(p) ==
  \/ StartFirst(p) \/ StartAgain(p) \/ ReadStatus(p) \/ StopForfeited(p)
  \/ Commit(p) \/ Reveal(p) \/ Settle(p) \/ Terminate(p)
  \/ AskPrune(p) \/ AskRelease(p) \/ AskGrant(p) \/ AskClosure(p)
  \/ Upload(p) \/ Handoff(p) \/ ReleaseTerminated(p) \/ AdmitItem(p)
  \/ CompactInventory(p) \/ RetireInventory(p) \/ ReadInventory(p)

SessionNext == LocalStep("tab") \/ \E p \in Slots : RequestStep(p)

-----------------------------------------------------------------------------
(* The tickets the image names.                                            *)
TicketsHeld ==
  {e.ticket : e \in Range(image.history)} \cup
  IF image.current = Nothing THEN {} ELSE {image.current.ticket} \ {Nothing}

(* Until the authority has closed the retention of a committed log, all of *)
(* it is with the player or with the archive, whatever answers are lost    *)
(* and whenever the tab is closed (prune, releaseClosed, archive,          *)
(* cleanupArchived, closureGrant, pruneGrant).                             *)
EvidenceIsKept ==
  \A t \in TicketsHeld :
    tickets[t] # Nothing /\ tickets[t].root # Nothing /\ ~tickets[t].released =>
      \/ WholeLog(tickets[t].start) /\ LastDigest(tickets[t].start) = tickets[t].root
      \/ bundles[t] = "kept"

(* A written image is enough to recover from: a start it holds can still   *)
(* be asked for, the tickets it holds are still with the authority, unless *)
(* their release is under way, and the receipts it no longer holds are in  *)
(* the inventory: its checkpoint is the head, or what is ahead of it is    *)
(* the batch of the intent in the image, or a retirement (initialize,      *)
(* recoverCurrent, releaseTerminated, compactRetained).                    *)
SessionIsRecoverable == image.revision > 0 =>
  /\ image.current # Nothing =>
       IF image.current.ticket = Nothing THEN Startable(image.current.start)
       ELSE tickets[image.current.ticket] # Nothing \/
            (image.current.releasing /\ image.current.start.generation < generation)
  /\ \A e \in Range(image.history) : ReceiptRecord(e.ticket, Player)
  /\ \/ image.checkpoint = inventory.chain
     \/ /\ image.checkpoint = Front(inventory.chain)
        /\ Last(inventory.chain).op = "retire" \/
           (image.compaction # Nothing /\ IsRetry("append", image.compaction))
=============================================================================
