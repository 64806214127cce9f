----------------------------- MODULE MCEncounters -----------------------------
(***************************************************************************)
(* Scenes of the encounter authority: the tickets and admissions of a unit *)
(* and the requests that meet there.  Scenes of the player: what the       *)
(* authority, the pool and the session image hold when the tabs open.      *)
(***************************************************************************)
EXTENDS EncounterSession

CONSTANTS
  ada, ben, lootless, looted,  \* owners, and the roots of two logs
  LastRevision              \* bound on the revision of the pool

Start1 == [head |-> 1, generation |-> 0]
Start2 == [head |-> 2, generation |-> 0]
Start3 == [head |-> 3, generation |-> 0]

Admission(start) == [start |-> start, owner |-> ada]

IssuedAt(start, at) == NewRow(start, ada, at)
CommittedAt(start, root, at) == Committed(IssuedAt(start, at), root)
RevealedAt(start, root, at) == Revealed(CommittedAt(start, root, at))
SettledUntil(start, root, until) ==
  Settled(RevealedAt(start, root, until - 3), ReceiptFor(root, until - RetentionLength))
TerminatedUntil(start, until) == Terminated(IssuedAt(start, -2), until - RetentionLength)
Free(row) == [row EXCEPT !.released = TRUE]

Ask(op, t) == [op |-> op, ticket |-> t, owner |-> ada]
StartOf(start, owner) == [op |-> "e-start", start |-> start, owner |-> owner]
ProvisionOf(start) == [op |-> "e-provision", admission |-> Admission(start)]
CommitOf(root) == Ask("e-commit", 1) @@ [root |-> root, signed |-> TRUE]
SettleOf(t) == Ask("e-settle", t) @@ [chunks |-> TRUE]
TerminateFor(reason) == Ask("e-terminate", 1) @@ [reason |-> reason]
Hold(t, hold) == Ask("e-hold", t) @@ [hold |-> hold]
CaseAbout(t, case) == Ask("e-case", t) @@ [case |-> case]
UploadOf(t, fault) == Ask("e-archive", t) @@ [fault |-> fault]
RollFrom(expected) == [op |-> "e-roll", expected |-> expected]
CompactOf(batch, expected) ==
  [op |-> "e-compact", owner |-> ada, batch |-> batch, expected |-> expected, fault |-> FALSE]
RetireOf(batch, expected, fault) ==
  [op |-> "e-retire", owner |-> ada, batch |-> batch, expected |-> expected, fault |-> fault]
Entry(op, batch) == [op |-> op, batch |-> batch, size |-> Len(batch), items |-> 0]
NoRequest == [op |-> "none"]

Scene(rows, admitted, requests) == [rows |-> rows, admitted |-> admitted, requests |-> requests]
Admitted1 == {Admission(Start1)}
Admitted2 == {Admission(Start1), Admission(Start2)}
AllCompacted == <<Entry("append", <<1, 2, 3>>)>>
OneRetired == Append(AllCompacted, Entry("retire", <<3>>))
Emptied(n) == Free(SettledUntil([head |-> n, generation |-> 0], lootless, 0))

Scenes == {
  \* Starts: a race for one start, and a start against its own oblivion.
  Scene(<<>>, {Admission(Start2), Admission(Start3)},
        <<ProvisionOf(Start1), StartOf(Start1, ada), StartOf(Start1, ada),
          StartOf(Start1, ben), ProvisionOf([head |-> 4, generation |-> 0])>>),
  Scene(<<Free(TerminatedUntil(Start1, 0))>>, Admitted1,
        <<StartOf(Start1, ada), Ask("e-recovery", 1), RollFrom(0), Ask("e-recovery", 1),
          ProvisionOf([head |-> 1, generation |-> 1])>>),
  \* From the ticket to its outcome.
  Scene(<<IssuedAt(Start1, -1)>>, Admitted1,
        <<CommitOf(lootless), CommitOf(looted), TerminateFor("expired"), Ask("e-reveal", 1),
          Ask("e-forfeit", 1)>>),
  Scene(<<CommittedAt(Start1, looted, -2)>>, Admitted1,
        <<Ask("e-reveal", 1), Ask("e-reveal", 1), SettleOf(1), TerminateFor("abandoned"), Hold(1, TRUE)>>),
  Scene(<<RevealedAt(Start1, looted, -3)>>, Admitted1,
        <<SettleOf(1), SettleOf(1), TerminateFor("abandoned"), CaseAbout(1, 1), Ask("e-market", 1)>>),
  \* The evidence of a receipt, its cases and its bundle.
  Scene(<<SettledUntil(Start1, looted, 0)>>, Admitted1,
        <<CaseAbout(1, 1), CaseAbout(1, 2), Ask("e-prune", 1), Hold(1, TRUE), Hold(1, FALSE)>>),
  Scene(<<SettledUntil(Start1, looted, 1)>>, Admitted1,
        <<UploadOf(1, TRUE), UploadOf(1, FALSE), Ask("e-release", 1), CaseAbout(1, 1), RollFrom(0)>>),
  Scene(<<SettledUntil(Start1, looted, 0), SettledUntil(Start2, looted, 1)>>, Admitted2,
        <<UploadOf(1, FALSE), UploadOf(2, FALSE), Ask("e-release", 1), Ask("e-prune", 2), NoRequest>>),
  \* The end of a generation.
  Scene(<<TerminatedUntil(Start1, 0), SettledUntil(Start2, lootless, 0)>>, Admitted2,
        <<Ask("e-closure", 1), Ask("e-prune", 2), RollFrom(0), Ask("e-recovery", 1), RollFrom(0)>>),
  \* The inventory.
  Scene([n \in 1..3 |-> Emptied(n)], {Admission([head |-> n, generation |-> 0]) : n \in 1..3},
        <<CompactOf(<<1, 2, 3>>, <<>>), CompactOf(<<2>>, <<>>), RollFrom(0),
          RetireOf(<<3>>, AllCompacted, FALSE), RetireOf(<<2, 1>>, OneRetired, FALSE)>>),
  Scene([n \in 1..3 |-> Emptied(n)], {Admission([head |-> n, generation |-> 0]) : n \in 1..3},
        <<CompactOf(<<1, 2, 3>>, <<>>), RetireOf(<<1>>, AllCompacted, TRUE), RollFrom(0),
          RetireOf(<<1>>, AllCompacted, FALSE), RetireOf(<<1>>, AllCompacted, FALSE)>>)}

EncounterWorkloads == {s.requests : s \in Scenes}

-----------------------------------------------------------------------------
(* What the player holds.                                                  *)
PoolWith(start, chunks) ==
  LET n == Len(chunks)
      scope == [NewScope(1, 1 + n, LogBytes, LogItems) EXCEPT
                  !.next = n, !.used = n, !.chunks = chunks,
                  !.creditBytes = @ - n, !.creditItems = @ - n] IN
  [used |-> n, items |-> n, queues |-> 1, revision |-> 1 + n, reservedBytes |-> LogBytes - n,
   reservedItems |-> LogItems - n, scopes |-> start :> scope]

LogOf(root) == <<[digest |-> 0, size |-> 1], [digest |-> root, size |-> 1]>>

Playing(start, row) ==
  [NewSession(start) EXCEPT !.ticket = 1, !.issued = row.issued, !.phase = "playing"]
Kept1(current) == [NoImage EXCEPT !.revision = 1, !.current = current]
Receipts(n, loot) == [i \in 1..n |-> [ticket |-> i, loot |-> loot]]

(* A tag that names the scene, and the requests of others.                 *)
SceneOf(name, count, rows, compacted, stored, written, requests) ==
  [count |-> count, rows |-> rows, admitted |-> {Admission(rows[t].start) : t \in DOMAIN rows} \cup Admitted1,
   compacted |-> compacted, stored |-> stored, written |-> written,
   requests |-> <<[op |-> "session", scene |-> name]>> \o requests \o
                [i \in 1 .. 4 - Len(requests) |-> NoRequest]]

PlayerScene(name, count, rows, stored, written, requests) ==
  SceneOf(name, count, rows, NoInventory, stored, written, requests)

Issued1 == IssuedAt(Start1, -1)
Settled1(root) == SettledUntil(Start1, root, 0)
Terminated1 == TerminatedUntil(Start1, 0)
SettledSession(root) ==
  [Playing(Start1, Settled1(root)) EXCEPT !.phase = "settled", !.receipt = Settled1(root).receipt]
TerminatedSession ==
  [Playing(Start1, Terminated1) EXCEPT !.phase = "terminated", !.termination = 0]

(* Two batches that take two pages, the first receipt with an item.        *)
TwoBatches ==
  [chain |-> <<[Entry("append", <<1, 2>>) EXCEPT !.items = 1], Entry("append", <<3>>)>>,
   members |-> <<1, 2, 3>>, ranges |-> {}]

CleanedSession == [SettledSession(lootless) EXCEPT !.cleaned = TRUE]

PlayerScenes == {
  PlayerScene("start", 3, <<>>, EmptyPool, NoImage, <<>>),
  PlayerScene("settle", 3, <<Issued1>>, PoolWith(Start1, LogOf(looted)),
              Kept1(Playing(Start1, Issued1)), <<Ask("e-forfeit", 1)>>),
  PlayerScene("evidence", 2, <<Settled1(looted)>>, PoolWith(Start1, LogOf(looted)),
              Kept1(SettledSession(looted)), <<CaseAbout(1, 1), RollFrom(0)>>),
  PlayerScene("forget", 3, <<Terminated1>>, PoolWith(Start1, LogOf(looted)),
              Kept1(TerminatedSession), <<RollFrom(0)>>),
  PlayerScene("inventory", 3, <<Emptied(1), Emptied(2)>>, EmptyPool,
              [Kept1([CleanedSession EXCEPT !.ticket = 2, !.start = Start2]) EXCEPT
                 !.history = <<[ticket |-> 1, loot |-> FALSE]>>], <<RollFrom(0)>>),
  SceneOf("pages", 3, <<Free(Settled1(looted)), Emptied(2), Emptied(3)>>, TwoBatches, EmptyPool,
          [Kept1(Nothing) EXCEPT !.checkpoint = TwoBatches.chain], <<RollFrom(0)>>)}

PlayerWorkloads == {s.requests : s \in PlayerScenes}

(* The pool by itself: the queues of two tabs.                             *)
PoolWorkload == <<[op |-> "pool"], NoRequest, NoRequest, NoRequest, NoRequest>>

PoolNext ==
  /\ pool.revision < LastRevision
  /\ \E h \in 1..2 :
       \/ \E q \in Queues, log \in {<<0, 0>>, <<3, 2>>} : OpenQueue(h, q, log[1], log[2])
       \/ h \in DOMAIN handles /\ HandleStands(handles[h]) /\
          \/ \E sequence \in 0..1, size \in 1..2 :
               AppendChunk(h, sequence, [digest |-> sequence, size |-> size])
          \/ \E through \in 0..1, revision \in {LastRevision - 1, ScopeOf(handles[h].queue).revision} :
               LET grant == [revision |-> revision, through |-> through, digest |-> through,
                             next |-> through + 1] IN
               PruneQueue(h, grant) \/ ReleaseQueue(h, grant)

-----------------------------------------------------------------------------
TheCalls == 1..5
TheQueues == {Start1, Start2}
TheWorkloads == EncounterWorkloads \cup PlayerWorkloads \cup {PoolWorkload}

Workload == [c \in Calls |-> calls[c].request]

Init ==
  /\ CallsInit
  /\ \/ \E s \in Scenes : /\ s.requests = Workload /\ EncounterInit(s.rows, s.admitted, NoInventory)
                          /\ SessionInit(EmptyPool, NoImage, 0)
     \/ \E s \in PlayerScenes : /\ s.requests = Workload /\ EncounterInit(s.rows, s.admitted, s.compacted)
                                /\ SessionInit(s.stored, s.written, s.count)
     \/ Workload = PoolWorkload /\ EncounterInit(<<>>, {}, NoInventory) /\ SessionInit(EmptyPool, NoImage, 0)

sessionVars == <<image, tabs, operations, losses>>

Next ==
  \/ Workload = PoolWorkload /\ PoolNext /\ UNCHANGED <<calls, clock, encounterVars, sessionVars>>
  \/ Workload \in PlayerWorkloads /\ SessionNext /\ UNCHANGED clock
  \/ EncounterNext /\ UNCHANGED <<clock, playerVars>>
  \/ Workload # PoolWorkload /\ PassTime /\ UNCHANGED <<encounterVars, playerVars>>

Spec == Init /\ [][Next]_<<calls, clock, encounterVars, playerVars>>
=============================================================================
