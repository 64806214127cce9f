---------------------------- MODULE EvidenceRelay ----------------------------
(***************************************************************************)
(* The relay Durable Object of one evidence source, with the authority it  *)
(* serves (evidence-resolution-relay-worker.ts).  A run, started by the    *)
(* alarm or by cron, claims the job row under a lease, polls the authority *)
(* for the next resolution notice, builds the envelope that continues the  *)
(* source's chain, stores it as pending, publishes it, and moves the       *)
(* cursor when the authority confirms.  A run that finds a pending         *)
(* envelope publishes that one.                                            *)
(*                                                                         *)
(* The attempt count and the lease expiry in a run's token name the run    *)
(* that claimed last: relay.holder.  Times are kept as what is left of     *)
(* them, or as the age of the claim.                                       *)
(***************************************************************************)
EXTENDS EvidenceCases

CONSTANTS
  Relayed,         \* the source
  RelayRuns,       \* bound: runs in flight
  LeaseLength,     \* RELAY_LEASE_DURATION_MS
  SuccessInterval, \* RELAY_SUCCESS_INTERVAL_MS
  BaseBackoff,     \* RELAY_BASE_BACKOFF_MS
  MaxBackoff,      \* RELAY_MAX_BACKOFF_MS
  FailureCap,      \* bound: failures are counted up to here
  MaxFaults        \* bound: failed or slow requests, and crashes

(* Beyond FailureCap failures the backoff no longer grows.                 *)
ASSUME RelayAssumption ==
  /\ MaxBackoff >= BaseBackoff
  /\ BaseBackoff * 2^FailureCap >= MaxBackoff

VARIABLES
  relay,  \* evidence_resolution_relay: the job row; whether it is configured
  alarm,  \* time until the alarm, or Nothing
  runs,   \* the runs: step, and what each has read
  faults  \* failed or slow requests and crashes so far

relayVars == <<relay, alarm, runs, faults>>
relayedVars == <<caseVars, relayVars>>

(* undelivered: the notice was, when the run came to publish.              *)
IdleRun ==
  [step |-> "idle", cursor |-> 0, pending |-> Nothing, undelivered |-> FALSE,
   answer |-> Nothing]

RelayInit ==
  /\ \E configured \in BOOLEAN :
       relay = [configured |-> configured, cursor |-> 0, wait |-> 0, failures |-> 0,
                holder |-> Nothing, age |-> 0, pending |-> Nothing]
  /\ alarm = Nothing
  /\ runs = [r \in RelayRuns |-> IdleRun]
  /\ faults = 0

Fault == faults < MaxFaults /\ faults' = faults + 1

RunAt(r, step) == runs[r].step = step

GoTo(r, run) == runs' = [runs EXCEPT ![r] = run]

(* Faulty variant: a lease never expires.                                  *)
LeaseHeld == relay.holder # Nothing

LeaseActive == relay.holder # Nothing /\ relay.age < LeaseLength

(* An older claim counts like one of this age.                             *)
Oldest == CHOOSE t \in {LeaseLength, SuccessInterval, MaxBackoff} :
            \A u \in {LeaseLength, SuccessInterval, MaxBackoff} : u <= t

Aging == relay.holder # Nothing /\ relay.age < Oldest

ToPublish(claimed, pending) ==
  [claimed EXCEPT !.step = "publish", !.pending = pending,
                  !.undelivered = DeliveredAs(pending.case) = {}]

(* The claim of a run, in one transaction with its alarm.  Without it the  *)
(* job is idle: leased, or not due.                                        *)
Claim(r, remaining) ==
  IF LeaseActive \/ relay.wait > 0
    THEN alarm' = remaining /\ UNCHANGED <<relay, runs>>
    ELSE /\ relay' = [relay EXCEPT !.holder = r, !.age = 0]
         /\ alarm' = LeaseLength
         /\ LET claimed == [IdleRun EXCEPT !.step = "poll", !.cursor = relay.cursor] IN
            GoTo(r, IF relay.pending = Nothing THEN claimed ELSE ToPublish(claimed, relay.pending))

Alarm(r) ==
  /\ RunAt(r, "idle")
  /\ alarm = 0
  /\ Claim(r, Nothing)
  /\ UNCHANGED faults

(* Without a configuration the worker throws before it claims.             *)
Cron(r) ==
  /\ relay.configured
  /\ RunAt(r, "idle")
  /\ Claim(r, alarm)
  /\ UNCHANGED faults

(* Only the holder's completion changes the row.  The delay counts from    *)
(* the claim.                                                              *)
Complete(r, row, delay) ==
  LET left == IF delay > relay.age THEN delay - relay.age ELSE 0 IN
  /\ GoTo(r, IdleRun)
  /\ IF relay.holder = r
       THEN /\ relay' = [row EXCEPT !.holder = Nothing, !.wait = left]
            /\ alarm' = left
       ELSE UNCHANGED <<relay, alarm>>

Backoff(failures) ==
  IF BaseBackoff * 2^failures < MaxBackoff THEN BaseBackoff * 2^failures
  ELSE MaxBackoff

ScheduleFailure(r) ==
  Complete(r, [relay EXCEPT !.failures = IF @ < FailureCap THEN @ + 1 ELSE @],
           Backoff(relay.failures))

-----------------------------------------------------------------------------
(* The envelope of a notice on the chain the authority reports.            *)
Envelope(notice, sequence, after) ==
  [case |-> notice.case, disposition |-> notice.disposition,
   resolution |-> notice.resolution, notice |-> sequence, after |-> after]

(* pollReferenceGameEvidenceCaseResolutions answers; a source without      *)
(* messages is an error.                                                   *)
Poll(r) ==
  LET next == runs[r].cursor + 1 IN
  /\ RunAt(r, "poll")
  /\ IF inbox[Relayed] = <<>>
       THEN ScheduleFailure(r)
     ELSE IF next > Len(notices[Relayed])
       THEN Complete(r, [relay EXCEPT !.failures = 0], SuccessInterval)
     ELSE /\ GoTo(r, [runs[r] EXCEPT
                        !.step = "persist",
                        !.pending = Envelope(notices[Relayed][next], next,
                                             inbox[Relayed])])
          /\ UNCHANGED <<relay, alarm>>
  /\ UNCHANGED faults

PersistPending(r) ==
  /\ RunAt(r, "persist")
  /\ IF relay.holder = r /\ relay.pending \in {Nothing, runs[r].pending}
       THEN /\ relay' = [relay EXCEPT !.pending = runs[r].pending]
            /\ GoTo(r, ToPublish(runs[r], runs[r].pending))
       ELSE UNCHANGED relay /\ GoTo(r, IdleRun)
  /\ UNCHANGED <<alarm, faults>>

(* The authority handles the request; its answer is still to come.         *)
PublishPending(r) ==
  LET claimed == runs[r] IN
  /\ RunAt(r, "publish")
  /\ ApplyPublish(claimed.pending)
  /\ \E answer \in {PublishAnswer(claimed.pending)} \cup
                    (IF claimed.undelivered THEN OvertakenAnswers(claimed.pending) ELSE {}) :
       GoTo(r, [claimed EXCEPT !.step = "answer", !.undelivered = FALSE, !.answer = answer])
  /\ UNCHANGED <<relay, alarm, faults>>

(* Faulty variant: every answer counts as a confirmation.                  *)
ConfirmedByAny(answer) == answer # Nothing

Confirmed(answer) == answer \in {"published", "duplicate"}

FinishPublish(r) ==
  /\ RunAt(r, "answer")
  /\ IF Confirmed(runs[r].answer)
       THEN Complete(r, [relay EXCEPT !.cursor = runs[r].pending.notice,
                                      !.failures = 0, !.pending = Nothing],
                     SuccessInterval)
       ELSE ScheduleFailure(r)
  /\ UNCHANGED faults

(* A request fails, or its answer is lost: transport, timeout, rate limit. *)
RequestFails(r) ==
  /\ runs[r].step \in {"poll", "publish", "answer"}
  /\ ScheduleFailure(r)
  /\ Fault

(* The object stops: its runs are gone, its row and its alarm stay.        *)
RelayCrash ==
  /\ \E r \in RelayRuns : ~RunAt(r, "idle")
  /\ runs' = [r \in RelayRuns |-> IdleRun]
  /\ Fault
  /\ UNCHANGED <<relay, alarm>>

(* Time passes; while a run is in flight this is a slow request.           *)
Tick ==
  /\ relay.wait > 0 \/ alarm \notin {Nothing, 0} \/ Aging
  /\ IF \A r \in RelayRuns : RunAt(r, "idle") THEN UNCHANGED faults ELSE Fault
  /\ relay' = [relay EXCEPT !.wait = IF @ > 0 THEN @ - 1 ELSE 0,
                            !.age = IF Aging THEN @ + 1 ELSE @]
  /\ alarm' = IF alarm \in {Nothing, 0} THEN alarm ELSE alarm - 1
  /\ UNCHANGED runs

RunStep(r) == Poll(r) \/ PersistPending(r) \/ FinishPublish(r)

(* The steps that leave the authority's tables alone.                      *)
RelayAlone ==
  \/ \E r \in RelayRuns : Alarm(r) \/ Cron(r) \/ RunStep(r) \/ RequestFails(r)
  \/ RelayCrash
  \/ Tick

Publishing ==
  /\ \E r \in RelayRuns : PublishPending(r)
  /\ UNCHANGED <<clock, window, calls, dismissals>>

(* Cron starts the first run; from then on the alarm alone keeps the relay *)
(* going.  A run, once started, takes its next step; time passes.          *)
RelayFair ==
  /\ WF_relayedVars(Tick /\ UNCHANGED caseVars)
  /\ \A r \in RelayRuns :
       /\ WF_relayedVars(alarm = Nothing /\ Cron(r) /\ UNCHANGED caseVars)
       /\ WF_relayedVars(Alarm(r) /\ UNCHANGED caseVars)
       /\ WF_relayedVars(RunStep(r) /\ UNCHANGED caseVars)
       /\ WF_relayedVars(PublishPending(r) /\ UNCHANGED <<clock, window, calls, dismissals>>)

-----------------------------------------------------------------------------
(* The cursor of the relay never passes a notice that the authority has    *)
(* not delivered, whatever crashes, lost answers and runs that outlive     *)
(* their lease do; and what is pending answers the next notice.            *)
RelayCursorSafe ==
  /\ relay.cursor <= Len(notices[Relayed])
  /\ \A n \in 1..relay.cursor : notices[Relayed][n].delivered # Nothing
  /\ relay.pending # Nothing =>
       /\ relay.pending.notice = relay.cursor + 1
       /\ relay.pending.case = notices[Relayed][relay.cursor + 1].case

CaughtUp == relay.configured => relay.cursor = Len(notices[Relayed])

(* The pending envelope continues a chain that has moved on.               *)
PendingIsStale ==
  relay.pending # Nothing /\ ~Confirmed(PublishAnswer(relay.pending))

(* Failed and slow requests, lost answers and crashes, as long as they are *)
(* finitely many, do not keep the relay from delivering every notice: only *)
(* a pending envelope whose chain has moved on does.                       *)
RelaySettles == <>[](CaughtUp \/ PendingIsStale)

=============================================================================
