------------------------- MODULE EncounterAuthority -------------------------
(***************************************************************************)
(* The encounters of one unit: EncounterHttpApi (encounter-api.ts) over    *)
(* the EncounterAuthority (authority.ts), its ledger, archive, generations,*)
(* recovery and inventory (ledger.ts, archive-store.ts, generation-store.  *)
(* ts, recovery-store.ts, inventory-store.ts), and the evidence cases that *)
(* bind to a ticket (encounter-evidence.ts).  An admission lets its owner  *)
(* start one encounter; the ticket is committed, revealed and settled with *)
(* a receipt, or terminated.  Its replay evidence is kept, by the player   *)
(* or in the archive, until its retention is released; when every ticket   *)
(* of a generation is released the generation is rolled.                   *)
(*                                                                         *)
(* A row is changed by compare-and-swap on its revision: a handler reads   *)
(* it, awaits a hash or a signature, and starts over if the row has        *)
(* changed.  The code gives up after 8 times; fewer calls are made here.   *)
(***************************************************************************)
EXTENDS Integers, Sequences, FiniteSets, SequencesExt, ShardRequests

CONSTANTS
  TicketIds,        \* bound: the tickets ever issued, 1..n
  Looted,           \* the committed roots whose replay picks up an item
  PlayTime,         \* ENCOUNTER_TICKS * 50: from issue to the commit window
  CommitWindow,     \* 1_000: from there to the release of the seed
  RetentionLength,  \* retentionMs
  MaxAdmissions,    \* maxAdmissions
  MaxBindings,      \* MAX_ENCOUNTER_CASES
  ArchiveBytes,     \* maxBytes, in bundles
  ArchiveObjects,   \* maxObjects
  PageSize          \* INVENTORY_PAGE_SIZE

VARIABLES
  tickets,     \* encounter_tickets_v1 and encounter_origins_v1: id to row
  started,     \* the starts of the tickets issued so far, by id (history)
  admissions,  \* encounter_admissions_v2
  generation,  \* encounter_generations_v1, its floor and the archive's minimum
  bundles,     \* encounter_archive_objects_v1: id to "none", "kept", "released"
  bindings,    \* encounter_evidence_case_bindings with the state of the case
  inventory    \* the owner's inventory head, members and empty ranges

encounterVars == <<tickets, started, admissions, generation, bundles, bindings, inventory>>
besidesTickets == <<started, admissions, generation, bundles, bindings, inventory>>

NewRow(start, owner, at) ==
  [start |-> start, owner |-> owner, issued |-> at, phase |-> "issued", revision |-> 0,
   root |-> Nothing, revealed |-> FALSE, receipt |-> Nothing, termination |-> Nothing,
   custody |-> FALSE, hold |-> FALSE, released |-> FALSE, listed |-> FALSE,
   recovered |-> FALSE, secret |-> TRUE, hot |-> TRUE]

NoInventory == [chain |-> <<>>, members |-> <<>>, ranges |-> {}]

EncounterInit(rows, admitted, compacted) ==
  /\ tickets = [t \in TicketIds |-> IF t \in DOMAIN rows THEN rows[t] ELSE Nothing]
  /\ started = [t \in DOMAIN rows |-> rows[t].start]
  /\ admissions = admitted
  /\ generation = 0
  /\ bundles = [t \in TicketIds |-> "none"]
  /\ bindings = {}
  /\ inventory = compacted

NotBefore(row) == row.issued + PlayTime

ReleaseAt(row) == NotBefore(row) + CommitWindow

BindingsOf(t) == {b \in bindings : b.ticket = t}

(* held: by the host, or by a case that is not decided and delivered.      *)
IsHeld(t) == tickets[t].hold \/ \E b \in BindingsOf(t) : b.state # "delivered"

Replace(t, row) == tickets' = [tickets EXCEPT ![t] = [row EXCEPT !.revision = @ + 1]]

(* Faulty variant: replace writes the row whatever its revision is.        *)
AnyRevision(t, row) == tickets[t] # Nothing

SameRevision(t, row) == tickets[t] # Nothing /\ tickets[t].revision = row.revision

ContinueIf(c, stands, step, seen) ==
  IF stands THEN Proceed(c, step, seen) ELSE End(c)

-----------------------------------------------------------------------------
(* Admissions and starts.                                                  *)
ProvisionStands(a) ==
  /\ a.start.generation = generation
  /\ \A b \in admissions : b.start # a.start
  /\ Cardinality(admissions) < MaxAdmissions

Provision(c) ==
  LET a == calls[c].request.admission IN
  /\ At(c, "e-provision", "new")
  /\ admissions' = admissions \cup {x \in {a} : ProvisionStands(x)}
  /\ End(c)
  /\ UNCHANGED <<tickets, started, generation, bundles, bindings, inventory>>

StartAuthorized(r) ==
  /\ r.start.generation = generation
  /\ [start |-> r.start, owner |-> r.owner] \in admissions

(* A start of an older generation is answered with its ticket, if any.     *)
RequestStart(c) ==
  /\ At(c, "e-start", "new")
  /\ ContinueIf(c, StartAuthorized(calls[c].request), "issue", Nothing)
  /\ UNCHANGED encounterVars

TicketsOf(start) == {t \in TicketIds : tickets[t] # Nothing /\ tickets[t].start = start}

(* Faulty variant: the generation is not read again after an await.        *)
IssueUnfenced(start) == TRUE

IssueStands(start) == start.generation = generation

(* What the ticket is made from is read; hashes and signatures follow.     *)
PrepareTicket(c) ==
  LET start == calls[c].request.start IN
  /\ At(c, "e-start", "issue")
  /\ ContinueIf(c, IssueStands(start) /\ TicketsOf(start) = {}, "insert", clock)
  /\ UNCHANGED encounterVars

Insert(start, owner, at) ==
  /\ Len(started) + 1 \in TicketIds
  /\ started' = Append(started, start)
  /\ tickets' = [tickets EXCEPT ![Len(started) + 1] = NewRow(start, owner, at)]

(* The time of issue is read between two of the hashes.                    *)
InsertTicket(c) ==
  LET r == calls[c].request IN
  /\ At(c, "e-start", "insert")
  /\ \/ /\ IssueStands(r.start) /\ TicketsOf(r.start) = {}
        /\ \E issued \in calls[c].seen .. clock : Insert(r.start, r.owner, issued)
        /\ End(c)
     \/ /\ ~(IssueStands(r.start) /\ TicketsOf(r.start) = {})
        /\ ContinueIf(c, IssueStands(r.start), "issue", Nothing)
        /\ UNCHANGED <<tickets, started>>
  /\ UNCHANGED <<admissions, generation, bundles, bindings, inventory>>

-----------------------------------------------------------------------------
(* From the commitment to the receipt.                                     *)
Owned(r) == tickets[r.ticket] # Nothing /\ tickets[r.ticket].owner = r.owner

CommitStands(row) ==
  /\ row # Nothing /\ row.phase # "forfeited"
  /\ row.root = Nothing
  /\ NotBefore(row) <= clock /\ clock < ReleaseAt(row)

Committed(row, root) == [row EXCEPT !.phase = "committed", !.root = root]

VerifyCommit(c) ==
  LET r == calls[c].request IN
  /\ At(c, "e-commit", "new")
  /\ ContinueIf(c, Owned(r) /\ r.signed, "commit", Nothing)
  /\ UNCHANGED encounterVars

CommitTicket(c) ==
  LET r == calls[c].request IN
  /\ At(c, "e-commit", "commit")
  /\ IF CommitStands(tickets[r.ticket])
     THEN Replace(r.ticket, Committed(tickets[r.ticket], r.root))
     ELSE UNCHANGED tickets
  /\ End(c)
  /\ UNCHANGED besidesTickets

RevealStands(row) ==
  /\ row # Nothing /\ row.root # Nothing /\ row.phase # "forfeited" /\ ~row.revealed
  /\ row.secret
  /\ clock >= ReleaseAt(row)

Revealed(row) == [row EXCEPT !.phase = "revealed", !.revealed = TRUE]

(* The row is read, the reveal signed, and the row replaced if it is the   *)
(* one that was read; else it is read again.                               *)
ReadForReveal(c) ==
  LET r == calls[c].request IN
  /\ At(c, "e-reveal", "new")
  /\ ContinueIf(c, Owned(r) /\ RevealStands(tickets[r.ticket]), "reveal", tickets[r.ticket])
  /\ UNCHANGED encounterVars

RevealTicket(c) ==
  LET t == calls[c].request.ticket
      row == calls[c].seen IN
  /\ At(c, "e-reveal", "reveal")
  /\ IF SameRevision(t, row)
     THEN Replace(t, Revealed(row)) /\ End(c)
     ELSE ContinueIf(c, RevealStands(tickets[t]), "reveal", tickets[t]) /\ UNCHANGED tickets
  /\ UNCHANGED besidesTickets

SettleStands(row) == row # Nothing /\ row.receipt = Nothing /\ row.phase = "revealed"

ReceiptFor(root, at) == [loot |-> root \in Looted, until |-> at + RetentionLength]

Settled(row, receipt) == [row EXCEPT !.phase = "settled", !.receipt = receipt]

(* The replay of the log, then the time of the receipt, then its signature.*)
ReplayLog(c) ==
  LET r == calls[c].request IN
  /\ At(c, "e-settle", "new")
  /\ ContinueIf(c, Owned(r) /\ SettleStands(tickets[r.ticket]) /\ r.chunks, "receipt",
                tickets[r.ticket].root)
  /\ UNCHANGED encounterVars

SignReceipt(c) ==
  /\ At(c, "e-settle", "receipt")
  /\ Proceed(c, "settle", ReceiptFor(calls[c].seen, clock))
  /\ UNCHANGED encounterVars

SettleTicket(c) ==
  LET t == calls[c].request.ticket IN
  /\ At(c, "e-settle", "settle")
  /\ IF SettleStands(tickets[t])
     THEN Replace(t, Settled(tickets[t], calls[c].seen))
     ELSE UNCHANGED tickets
  /\ End(c)
  /\ UNCHANGED besidesTickets

HasLoot(row) == row.receipt # Nothing /\ row.receipt.loot

CheckAdmission(c) ==
  LET r == calls[c].request IN
  /\ At(c, "e-market", "new")
  /\ ContinueIf(c, Owned(r) /\ ~IsHeld(r.ticket) /\ HasLoot(tickets[r.ticket]), "admit", Nothing)
  /\ UNCHANGED encounterVars

AdmitToMarket(c) ==
  LET t == calls[c].request.ticket IN
  /\ At(c, "e-market", "admit")
  /\ IF tickets[t] # Nothing /\ ~IsHeld(t) /\ ~tickets[t].listed
     THEN Replace(t, [tickets[t] EXCEPT !.listed = TRUE])
     ELSE UNCHANGED tickets
  /\ End(c)
  /\ UNCHANGED besidesTickets

-----------------------------------------------------------------------------
(* Holds, cases and termination.                                           *)
SetEvidenceHold(c) ==
  LET r == calls[c].request IN
  /\ At(c, "e-hold", "new")
  /\ IF tickets[r.ticket] # Nothing /\ ~tickets[r.ticket].released
     THEN Replace(r.ticket, [tickets[r.ticket] EXCEPT !.hold = r.hold])
     ELSE UNCHANGED tickets
  /\ End(c)
  /\ UNCHANGED besidesTickets

Forfeit(c) ==
  LET t == calls[c].request.ticket IN
  /\ At(c, "e-forfeit", "new")
  /\ IF tickets[t] # Nothing /\ tickets[t].phase \notin {"settled", "forfeited"}
     THEN Replace(t, [tickets[t] EXCEPT !.phase = "forfeited"])
     ELSE UNCHANGED tickets
  /\ End(c)
  /\ UNCHANGED besidesTickets

CaseContext(t) == tickets[t] # Nothing /\ tickets[t].phase = "settled" /\ HasLoot(tickets[t])

CheckCase(c) ==
  /\ At(c, "e-case", "new")
  /\ ContinueIf(c, CaseContext(calls[c].request.ticket), "bind", Nothing)
  /\ UNCHANGED encounterVars

(* Faulty variant: a case binds to a ticket whose retention is closed.     *)
BindStandsLate(r) ==
  /\ CaseContext(r.ticket)
  /\ \A b \in bindings : b.case # r.case
  /\ Cardinality(BindingsOf(r.ticket)) < MaxBindings

BindStands(r) ==
  /\ CaseContext(r.ticket)
  /\ ~tickets[r.ticket].released
  /\ \A b \in bindings : b.case # r.case
  /\ Cardinality(BindingsOf(r.ticket)) < MaxBindings

(* The case, its binding and the fence of the ticket in one transaction.   *)
BindCase(c) ==
  LET r == calls[c].request IN
  /\ At(c, "e-case", "bind")
  /\ IF BindStands(r)
     THEN /\ Replace(r.ticket, tickets[r.ticket])
          /\ bindings' = bindings \cup {[case |-> r.case, ticket |-> r.ticket, state |-> "open"]}
     ELSE UNCHANGED <<tickets, bindings>>
  /\ End(c)
  /\ UNCHANGED <<started, admissions, generation, bundles, inventory>>

(* The case is decided, and later its resolution reaches the inbox.        *)
ResolveCase ==
  /\ \E b \in bindings :
       /\ b.state # "delivered"
       /\ bindings' = (bindings \ {b}) \cup
            {[b EXCEPT !.state = IF @ = "open" THEN "decided" ELSE "delivered"]}
  /\ UNCHANGED <<calls, tickets, started, admissions, generation, bundles, inventory>>

TerminationAllowed(row, reason) ==
  \/ row.phase = "forfeited"
  \/ reason = "abandoned"
  \/ row.phase = "issued" /\ row.root = Nothing /\ clock >= ReleaseAt(row)

TerminateStands(row, reason) ==
  /\ row # Nothing /\ row.receipt = Nothing /\ row.phase # "settled"
  /\ row.termination = Nothing
  /\ TerminationAllowed(row, reason)

Terminated(row, at) ==
  [row EXCEPT !.phase = "forfeited", !.termination = at + RetentionLength]

ReadForTermination(c) ==
  LET r == calls[c].request IN
  /\ At(c, "e-terminate", "new")
  /\ ContinueIf(c, Owned(r) /\ TerminateStands(tickets[r.ticket], r.reason), "terminate",
                [row |-> tickets[r.ticket], at |-> clock])
  /\ UNCHANGED encounterVars

TerminateTicket(c) ==
  LET r == calls[c].request
      seen == calls[c].seen IN
  /\ At(c, "e-terminate", "terminate")
  /\ IF SameRevision(r.ticket, seen.row)
     THEN Replace(r.ticket, Terminated(seen.row, seen.at)) /\ End(c)
     ELSE /\ ContinueIf(c, TerminateStands(tickets[r.ticket], r.reason), "terminate",
                        [row |-> tickets[r.ticket], at |-> clock])
          /\ UNCHANGED tickets
  /\ UNCHANGED besidesTickets

-----------------------------------------------------------------------------
(* The end of retention: the rights to delete the evidence.                *)
ClosureStands(t) ==
  LET row == tickets[t] IN
  /\ row.phase = "forfeited" /\ row.receipt = Nothing /\ row.termination # Nothing
  /\ clock >= row.termination
  /\ ~IsHeld(t)

RetireStands(t) ==
  LET row == tickets[t] IN
  /\ row.receipt # Nothing /\ clock >= row.receipt.until
  /\ ~IsHeld(t)

Closed(row) == [row EXCEPT !.released = TRUE]

CloseRetention(t) ==
  IF tickets[t].released THEN UNCHANGED tickets ELSE Replace(t, Closed(tickets[t]))

ClosureGrant(c) ==
  LET r == calls[c].request IN
  /\ At(c, "e-closure", "new")
  /\ IF Owned(r) /\ ClosureStands(r.ticket) THEN CloseRetention(r.ticket) ELSE UNCHANGED tickets
  /\ End(c)
  /\ UNCHANGED besidesTickets

PruneGrant(c) ==
  LET r == calls[c].request IN
  /\ At(c, "e-prune", "new")
  /\ IF Owned(r) /\ RetireStands(r.ticket) THEN CloseRetention(r.ticket) ELSE UNCHANGED tickets
  /\ End(c)
  /\ UNCHANGED besidesTickets

(* archive-upload: the bundle is stored, then its custody is accepted.     *)
UploadStands(row) == ~row.released /\ row.receipt # Nothing /\ row.revealed

Kept == {t \in TicketIds : bundles[t] = "kept"}

Objects == {t \in TicketIds : bundles[t] # "none"}

StoreStands(t) ==
  /\ started[t].generation >= generation
  /\ bundles[t] = "none"
  /\ Cardinality(Kept) < ArchiveBytes /\ Cardinality(Objects) < ArchiveObjects

CheckUpload(c) ==
  LET r == calls[c].request IN
  /\ At(c, "e-archive", "new")
  /\ ContinueIf(c, Owned(r) /\ UploadStands(tickets[r.ticket]), "store", Nothing)
  /\ UNCHANGED encounterVars

StoreBundle(c) ==
  LET r == calls[c].request IN
  /\ At(c, "e-archive", "store")
  /\ IF StoreStands(r.ticket) /\ ~r.fault
     THEN bundles' = [bundles EXCEPT ![r.ticket] = "kept"] /\ Proceed(c, "accept", Nothing)
     ELSE /\ ContinueIf(c, bundles[r.ticket] = "kept" /\ started[r.ticket].generation >= generation,
                        "accept", Nothing)
          /\ UNCHANGED bundles
  /\ UNCHANGED <<tickets, started, admissions, generation, bindings, inventory>>

AcceptStands(row) == row # Nothing /\ row.receipt # Nothing /\ row.secret /\ ~row.custody

AcceptArchive(c) ==
  LET t == calls[c].request.ticket IN
  /\ At(c, "e-archive", "accept")
  /\ IF AcceptStands(tickets[t])
     THEN Replace(t, [tickets[t] EXCEPT !.custody = TRUE])
     ELSE UNCHANGED tickets
  /\ End(c)
  /\ UNCHANGED besidesTickets

ArchiveReleaseStands(t) == tickets[t].custody /\ RetireStands(t)

SignArchiveRelease(c) ==
  LET r == calls[c].request IN
  /\ At(c, "e-release", "new")
  /\ IF Owned(r) /\ ArchiveReleaseStands(r.ticket)
     THEN CloseRetention(r.ticket) /\ Proceed(c, "drop", Nothing)
     ELSE UNCHANGED tickets /\ End(c)
  /\ UNCHANGED besidesTickets

DropBundle(c) ==
  LET t == calls[c].request.ticket IN
  /\ At(c, "e-release", "drop")
  /\ bundles' = [bundles EXCEPT ![t] = IF @ = "kept" THEN "released" ELSE @]
  /\ End(c)
  /\ UNCHANGED <<tickets, started, admissions, generation, bindings, inventory>>

-----------------------------------------------------------------------------
(* The end of a generation, and of what is kept for recovery.              *)
HotTickets == {t \in TicketIds : tickets[t] # Nothing /\ tickets[t].hot}

IsClosed(t) ==
  LET row == tickets[t] IN
  /\ row.released /\ ~IsHeld(t)
  /\ \/ row.phase = "settled" /\ row.receipt # Nothing
     \/ row.phase = "forfeited" /\ row.termination # Nothing

RollStands(expected) ==
  /\ generation = expected
  /\ Cardinality(admissions) = Cardinality(HotTickets)
  /\ \A t \in HotTickets : IsClosed(t)
  /\ Kept = {}

Revisions == [t \in HotTickets |-> tickets[t].revision]

WithoutAssets(t) ==
  /\ tickets[t].receipt = Nothing /\ ~tickets[t].custody /\ ~tickets[t].listed
  /\ \A n \in DOMAIN inventory.members : inventory.members[n] # t

ForgetAllowed(t) ==
  tickets[t].phase = "forfeited" /\ IsClosed(t) /\ WithoutAssets(t) /\ tickets[t].recovered

Retained(row) ==
  [row EXCEPT !.secret = FALSE, !.revealed = FALSE, !.custody = FALSE, !.hot = FALSE]

PrepareSeal(c) ==
  LET expected == calls[c].request.expected IN
  /\ At(c, "e-roll", "new")
  /\ ContinueIf(c, RollStands(expected), "seal", Revisions)
  /\ UNCHANGED encounterVars

Roll ==
  /\ tickets' = [t \in TicketIds |-> IF t \notin HotTickets THEN tickets[t]
                                     ELSE IF ForgetAllowed(t) THEN Nothing
                                     ELSE Retained(tickets[t])]
  /\ bundles' = [t \in TicketIds |-> "none"]
  /\ admissions' = {}
  /\ generation' = generation + 1
  /\ UNCHANGED <<started, bindings, inventory>>

RollGeneration(c) ==
  LET expected == calls[c].request.expected IN
  /\ At(c, "e-roll", "seal")
  /\ IF RollStands(expected) /\ Revisions = calls[c].seen THEN Roll ELSE UNCHANGED encounterVars
  /\ End(c)

RecoveryStands(t) ==
  /\ tickets[t] # Nothing /\ tickets[t].termination # Nothing
  /\ clock >= tickets[t].termination
  /\ tickets[t].phase = "forfeited" /\ tickets[t].released /\ ~IsHeld(t) /\ WithoutAssets(t)

(* Without a row the owner is told that it is released if the ticket is of *)
(* an older generation; nothing changes.                                   *)
ReleaseRow(t) ==
  IF ~RecoveryStands(t) \/ (tickets[t].recovered /\ tickets[t].hot) THEN UNCHANGED tickets
  ELSE IF started[t].generation < generation THEN tickets' = [tickets EXCEPT ![t] = Nothing]
  ELSE Replace(t, [tickets[t] EXCEPT !.recovered = TRUE])

(* The ticket in the request is the row, and its owner the one who asks.   *)
ReleaseRecovery(c) ==
  LET r == calls[c].request IN
  /\ At(c, "e-recovery", "new")
  /\ IF Owned(r) THEN ReleaseRow(r.ticket) ELSE UNCHANGED tickets
  /\ End(c)
  /\ UNCHANGED besidesTickets

-----------------------------------------------------------------------------
(* The owner's inventory: the settled receipts in the order they were      *)
(* compacted.  A checkpoint is identified by the chain of its batches.     *)
ReceiptRecord(t, owner) ==
  /\ tickets[t] # Nothing
  /\ tickets[t].phase = "settled" /\ tickets[t].receipt # Nothing
  /\ tickets[t].owner = owner

Members == {inventory.members[n] : n \in DOMAIN inventory.members}

OrdinalOf(t) == CHOOSE n \in DOMAIN inventory.members : inventory.members[n] = t

SumOf(op, field) ==
  FoldSeq(LAMBDA e, sum : IF e.op = op THEN sum + e[field] ELSE sum, 0, inventory.chain)

ReceiptCount == SumOf("append", "size")

Batch(op, r) ==
  [op |-> op, batch |-> r.batch, size |-> Len(r.batch),
   items |-> Cardinality({t \in Range(r.batch) : HasLoot(tickets[t])})]

(* The head is already the answer to this very request.                    *)
IsRetry(op, r) ==
  /\ inventory.chain # <<>>
  /\ Front(inventory.chain) = r.expected
  /\ Last(inventory.chain).op = op /\ Last(inventory.chain).batch = r.batch

HeadStands(op, r) == ~IsRetry(op, r) /\ inventory.chain = r.expected

ReadRecords(c) ==
  LET r == calls[c].request IN
  /\ At(c, "e-compact", "new")
  /\ ContinueIf(c, \A t \in Range(r.batch) : ReceiptRecord(t, r.owner), "append", Nothing)
  /\ UNCHANGED encounterVars

CheckBatch(c) ==
  LET r == calls[c].request IN
  /\ At(c, "e-compact", "append")
  /\ ContinueIf(c, HeadStands("append", r) /\ Range(r.batch) \cap Members = {}, "index",
                Batch("append", r))
  /\ UNCHANGED encounterVars

Appended(r, entry) ==
  [inventory EXCEPT
     !.chain = Append(@, entry),
     !.members = [n \in DOMAIN @ \cup (ReceiptCount + 1 .. ReceiptCount + entry.size) |->
                    IF n \in DOMAIN @ THEN @[n] ELSE r.batch[n - ReceiptCount]]]

CompactBatch(c) ==
  LET r == calls[c].request IN
  /\ At(c, "e-compact", "index")
  /\ inventory' = IF HeadStands("append", r) /\ ~r.fault
                  THEN Appended(r, calls[c].seen) ELSE inventory
  /\ End(c)
  /\ UNCHANGED <<tickets, started, admissions, generation, bundles, bindings>>

EmptyRetireStands(t, owner) ==
  /\ ReceiptRecord(t, owner)
  /\ ~HasLoot(tickets[t]) /\ ~tickets[t].listed /\ ~tickets[t].custody
  /\ tickets[t].released /\ clock >= tickets[t].receipt.until
  /\ ~IsHeld(t)
  /\ tickets[t].start.generation < generation
  /\ t \in Members

RetireBatchStands(r) ==
  /\ r.expected # <<>> /\ HeadStands("retire", r)
  /\ \A t \in Range(r.batch) : EmptyRetireStands(t, r.owner)

SourcesOf(r) == [i \in DOMAIN r.batch |-> <<tickets[r.batch[i]].revision, OrdinalOf(r.batch[i])>>]

HashRetirement(c) ==
  /\ At(c, "e-retire", "new")
  /\ Proceed(c, "retire", Nothing)
  /\ UNCHANGED encounterVars

CheckRetirement(c) ==
  LET r == calls[c].request IN
  /\ At(c, "e-retire", "retire")
  /\ IF RetireBatchStands(r) THEN Proceed(c, "erase", SourcesOf(r)) ELSE End(c)
  /\ UNCHANGED encounterVars

(* Faulty variant: the new range leaves out its right neighbour.           *)
AddRangeLeft(ranges, n) ==
  LET near == {g \in ranges : g.last = n - 1 \/ g.first = n + 1}
      left == {g \in near : g.last = n - 1} IN
  (ranges \ near) \cup
    {[first |-> IF left = {} THEN n ELSE (CHOOSE g \in left : TRUE).first, last |-> n]}

(* SqliteInventoryEmptyRanges.add: the ordinal joins its neighbours.  It   *)
(* is that of a member, which is in no range, or the add throws.           *)
AddRange(ranges, n) ==
  LET left == {g \in ranges : g.last = n - 1}
      right == {g \in ranges : g.first = n + 1} IN
  (ranges \ (left \cup right)) \cup
    {[first |-> IF left = {} THEN n ELSE (CHOOSE g \in left : TRUE).first,
      last |-> IF right = {} THEN n ELSE (CHOOSE g \in right : TRUE).last]}

Erased(r) ==
  LET ordinals == {OrdinalOf(t) : t \in Range(r.batch)} IN
  [chain |-> Append(inventory.chain, Batch("retire", r)),
   members |-> [n \in DOMAIN inventory.members \ ordinals |-> inventory.members[n]],
   ranges |-> FoldSeq(LAMBDA t, ranges : AddRange(ranges, OrdinalOf(t)), inventory.ranges, r.batch)]

EraseEmpty(c) ==
  LET r == calls[c].request IN
  /\ At(c, "e-retire", "erase")
  /\ IF RetireBatchStands(r) /\ SourcesOf(r) = calls[c].seen /\ ~r.fault
     THEN /\ inventory' = Erased(r)
          /\ tickets' = [t \in TicketIds |-> IF t \in Range(r.batch) THEN Nothing ELSE tickets[t]]
     ELSE UNCHANGED <<inventory, tickets>>
  /\ End(c)
  /\ UNCHANGED <<started, admissions, generation, bundles, bindings>>

(* What a page answers for one ordinal: a receipt, or the rest of a range. *)
EntryAt(n) ==
  IF n \in DOMAIN inventory.members THEN [first |-> n, last |-> n]
  ELSE LET before == {g \in inventory.ranges : g.first <= n}
           near == CHOOSE g \in before : \A h \in before : h.first <= g.first IN
       IF before = {} \/ near.last < n \/ near.last > ReceiptCount THEN Nothing
       ELSE [first |-> n, last |-> near.last]

(* page and sparsePage: at most PageSize entries after the cursor.         *)
PageAfter(cursor) ==
  LET entries[k \in 0..PageSize] ==
        IF k = 0 THEN <<>>
        ELSE LET sofar == entries[k - 1]
                 at == IF sofar = <<>> THEN cursor
                       ELSE IF Last(sofar) = Nothing THEN ReceiptCount ELSE Last(sofar).last IN
             IF at >= ReceiptCount THEN sofar ELSE Append(sofar, EntryAt(at + 1))
  IN entries[PageSize]

RetiredCount == SumOf("retire", "size")

(* validInventoryPage: the entries follow one another and reach the end,   *)
(* or the page is full; the ranges stay within what has been retired.      *)
PageFits(page, cursor) ==
  LET retired(k) == IF page[k].first \in DOMAIN inventory.members THEN 0
                    ELSE page[k].last - page[k].first + 1 IN
  /\ page # <<>> /\ \A k \in DOMAIN page : page[k] # Nothing
  /\ \A k \in DOMAIN page : page[k].first = 1 + IF k = 1 THEN cursor ELSE page[k - 1].last
  /\ Last(page).last = ReceiptCount \/ Len(page) = PageSize
  /\ FoldSeq(LAMBDA k, sum : sum + retired(k), 0, [k \in DOMAIN page |-> k]) <= RetiredCount

(* validInventoryCheckpoint of the head.                                   *)
HeadFits ==
  /\ RetiredCount <= ReceiptCount - SumOf("append", "items")
  /\ Len(inventory.chain) <= ReceiptCount + RetiredCount

-----------------------------------------------------------------------------
EncounterStep(c) ==
  \/ Provision(c) \/ RequestStart(c) \/ PrepareTicket(c) \/ InsertTicket(c)
  \/ VerifyCommit(c) \/ CommitTicket(c) \/ ReadForReveal(c) \/ RevealTicket(c)
  \/ ReplayLog(c) \/ SignReceipt(c) \/ SettleTicket(c)
  \/ CheckAdmission(c) \/ AdmitToMarket(c) \/ SetEvidenceHold(c) \/ Forfeit(c)
  \/ CheckCase(c) \/ BindCase(c) \/ ReadForTermination(c) \/ TerminateTicket(c)
  \/ ClosureGrant(c) \/ PruneGrant(c) \/ CheckUpload(c) \/ StoreBundle(c) \/ AcceptArchive(c)
  \/ SignArchiveRelease(c) \/ DropBundle(c) \/ PrepareSeal(c) \/ RollGeneration(c)
  \/ ReleaseRecovery(c) \/ ReadRecords(c) \/ CheckBatch(c) \/ CompactBatch(c)
  \/ HashRetirement(c) \/ CheckRetirement(c) \/ EraseEmpty(c)

EncounterNext == (\E c \in Calls : EncounterStep(c)) \/ ResolveCase

-----------------------------------------------------------------------------
(* A start yields one ticket for ever: the generation fence and the unique *)
(* start key keep a start from being played again after its ticket has     *)
(* been forgotten (issue, roll and release).                               *)
OneTicketPerStart == \A t, u \in DOMAIN started : started[t] = started[u] => t = u

(* The outcome of a ticket is final: it never has both a receipt and a     *)
(* termination, and a receipt or a termination is never replaced or lost,  *)
(* unless its owner has given it up: an empty receipt that is retired, a   *)
(* terminated ticket whose recovery is released.                           *)
OutcomesAreFinal ==
  [][\A t \in TicketIds :
       tickets[t] # Nothing =>
         IF tickets'[t] = Nothing
         THEN tickets[t].released /\ ~HasLoot(tickets[t])
         ELSE /\ tickets'[t].receipt = Nothing \/ tickets'[t].termination = Nothing
              /\ tickets[t].receipt # Nothing => tickets'[t].receipt = tickets[t].receipt
              /\ tickets[t].termination # Nothing => tickets'[t].termination = tickets[t].termination
              /\ tickets[t].root # Nothing => tickets'[t].root = tickets[t].root]_encounterVars

(* While a case about a ticket is not decided and delivered, no right to   *)
(* delete its evidence has been signed, its bundle has not left the        *)
(* archive and its origin is there (bind, hasHold, retireSettled, roll).   *)
HeldEvidenceIsKept ==
  \A b \in bindings : b.state # "delivered" =>
    /\ tickets[b.ticket] # Nothing /\ ~tickets[b.ticket].released
    /\ bundles[b.ticket] # "released"

(* The head of the inventory stays valid, and from any cursor the page the *)
(* authority answers passes validInventoryPage, so that the owner can read *)
(* all receipts, whatever has been retired and in whatever order.          *)
InventoryReadable ==
  /\ HeadFits
  /\ \A n \in DOMAIN inventory.members : tickets[inventory.members[n]] # Nothing
  /\ \A cursor \in 0 .. ReceiptCount - 1 : PageFits(PageAfter(cursor), cursor)

=============================================================================
