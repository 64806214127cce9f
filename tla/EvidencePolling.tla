--------------------------- MODULE EvidencePolling ---------------------------
(* One durable evidence poll job and the workers that run the scheduler on *)
(* it: claim under a lease, read the inbox cursor, request a page, ingest  *)
(* its messages one by one, and complete the job under the claim's token.  *)
(* Every store call is one transaction; between two of them any other      *)
(* worker, the operator, the clock or a crash may come.                    *)
EXTENDS Integers, Sequences

CONSTANTS
  Workers,          \* callers of runPlayerLocalEvidencePollSchedulerOnce
  Deadlines,        \* deadlines a draft may carry
  FirstPolls,       \* first poll times a draft may carry
  LeaseDuration, RequestTimeout, SuccessInterval, BaseBackoff, MaxBackoff,
  IntMax,           \* the largest MoonBit Int
  Messages,         \* how many messages the source ever publishes
  MaxPage,          \* maxMessagesPerPage
  Reasons,          \* digests an operator escalates with
  MaxTime           \* bound on the clock

ASSUME ConfigurationValid ==
  /\ {LeaseDuration, RequestTimeout, SuccessInterval, BaseBackoff,
      MaxBackoff, IntMax} \subseteq Nat \ {0}
  /\ MaxBackoff >= BaseBackoff
  /\ RequestTimeout <= LeaseDuration
  /\ MaxTime \in Nat
  /\ Deadlines \subseteq 1..MaxTime
  /\ FirstPolls \subseteq Nat

VARIABLES
  now,       \* the clock every caller reads
  job,       \* the row of player_local_evidence_poll_jobs, or NoJob
  cursor,    \* sequence of the inbox cursor, -1 before the first message
  applied,   \* sequences of the messages applied so far (history)
  run        \* run[w]: the scheduler call w is in

vars == <<now, job, cursor, applied, run>>

None == -1

NoJob ==
  [state |-> "none", deadline |-> 0, next_poll |-> 0, failures |-> 0,
   attempts |-> 0, lease |-> None, expired_at |-> None,
   escalated_at |-> None, reason |-> None]

(* A scheduler call: the clock it last sampled, its copy of the claimed    *)
(* row, the rest of its page, whether the revision its write set expects   *)
(* is still the store's, and how the poll ended.                           *)
Idle ==
  [phase |-> "idle", at |-> 0, deadline |-> 0, next_poll |-> 0,
   failures |-> 0, attempt |-> 0, lease |-> 0, page |-> <<>>,
   fresh |-> FALSE, outcome |-> "none"]

-----------------------------------------------------------------------------
(* The policy, in MoonBit: times relative to now, clamped to Int.          *)

Lesser(a, b) == IF a <= b THEN a ELSE b

(* Faulty variant: the difference wraps around the Int instead of being     *)
(* clamped.                                                                 *)
moonBitWrappedTime(absolute, origin) ==
  ((absolute - origin + IntMax + 1) % (2 * (IntMax + 1))) - (IntMax + 1)

moonBitRelativeTime(absolute, origin) ==
  IF absolute - origin > IntMax THEN IntMax
  ELSE IF absolute - origin < -IntMax - 1 THEN -IntMax - 1
  ELSE absolute - origin

(* A duration beyond Int is refused.                                       *)
moonBitDuration(value) == value <= IntMax

evidencePollClaimAllowed(at, deadline, next_poll) ==
  /\ moonBitRelativeTime(deadline, at) > 0
  /\ moonBitRelativeTime(next_poll, at) <= 0

evidencePollLeaseExpiry(at, deadline) ==
  LET relative == moonBitRelativeTime(deadline, at)
  IN  IF relative <= 0 \/ ~moonBitDuration(LeaseDuration) THEN None
      ELSE at + Lesser(LeaseDuration, relative)

(* The doubling loop, stopped before the product can overflow.             *)
backoff_delay[failures \in Nat] ==
  IF failures = 0 THEN BaseBackoff
  ELSE LET delay == backoff_delay[failures - 1]
       IN  IF delay > MaxBackoff \div 2 THEN MaxBackoff ELSE delay * 2

(* Faulty variant: the retry is not capped by the deadline.                 *)
NextRetryUncapped(at, deadline, failures) == at + backoff_delay[failures]

evidencePollNextRetryAt(at, deadline, failures) ==
  LET relative == moonBitRelativeTime(deadline, at)
  IN  IF relative <= 0 \/ ~moonBitDuration(MaxBackoff) THEN None
      ELSE at + Lesser(backoff_delay[failures], relative)

-----------------------------------------------------------------------------
(* The store.  A write moves the storage revision, so every write set      *)
(* prepared before it is stale when it commits.                            *)

(* Faulty variant: a write leaves the storage revision alone.               *)
OvertakenNever(runs) == runs

Overtaken(runs) ==
  [w \in Workers |-> [runs[w] EXCEPT !.fresh = FALSE]]

Terminal == {"expired", "escalated"}

(* Faulty variant: a job in flight is claimed again before its lease        *)
(* expires.                                                                 *)
NotDueIgnoringLease(at) == job.state = "scheduled" /\ job.next_poll > at

NotDue(at) ==
  \/ job.state = "scheduled" /\ job.next_poll > at
  \/ job.state = "in_flight" /\ job.lease > at

(* Faulty variant: expiring releases the lease and forgets the state.       *)
ExpireLeaseOnly(at) ==
  job' = [job EXCEPT !.lease = None, !.expired_at = at]

Expire(at) ==
  job' = [job EXCEPT !.state = "expired", !.lease = None, !.expired_at = at]

(* Faulty variant: the lease may outlive the deadline.                      *)
GrantUncapped(at) ==
  job' = [job EXCEPT !.state = "in_flight", !.attempts = @ + 1,
                     !.lease = at + LeaseDuration]

Grant(at) ==
  job' = [job EXCEPT !.state = "in_flight", !.attempts = @ + 1,
                     !.lease = Lesser(at + LeaseDuration, job.deadline)]

(* Faulty variant: a claim overlooks that the job was escalated.            *)
ClaimIdleUnlessExpired(at) ==
  job.state \in {"scheduled", "in_flight", "escalated"} =>
    (at < job.deadline /\ NotDue(at))

(* claimEvidencePollJob refuses, changing nothing.                         *)
ClaimIdle(at) ==
  job.state \in {"scheduled", "in_flight"} =>
    (at < job.deadline /\ NotDue(at))

ClaimExpires(at) == ~ClaimIdle(at) /\ at >= job.deadline

ClaimGrants(at) == ~ClaimIdle(at) /\ at < job.deadline

(* Faulty variant: any attempt may complete a job in flight.                *)
FencedByState(c) == job.state = "in_flight"

(* completeEvidencePollJob: the fence, then the validity of what it writes *)
Fenced(c) ==
  job.state = "in_flight" /\ job.attempts = c.attempt /\ job.lease = c.lease

CompletionValid(c) ==
  /\ c.at <= c.lease
  /\ c.at < job.deadline
  /\ c.next_poll >= c.at
  /\ c.next_poll <= job.deadline
  /\ c.failures \in {0, job.failures + 1}

-----------------------------------------------------------------------------
Init ==
  /\ now = 0
  /\ job = NoJob
  /\ cursor = -1
  /\ applied = <<>>
  /\ run = [w \in Workers |-> Idle]

(* scheduleEvidencePollJob: a second draft is a duplicate or a conflict    *)
(* and writes nothing.                                                     *)
Schedule(deadline, next_poll) ==
  /\ job = NoJob
  /\ next_poll <= deadline
  /\ job' = [NoJob EXCEPT !.state = "scheduled", !.deadline = deadline,
                          !.next_poll = next_poll]
  /\ run' = Overtaken(run)
  /\ UNCHANGED <<now, cursor, applied>>

(* The operator's handoff; a second one with another reason is refused.    *)
Escalate(reason) ==
  /\ job.state \notin {"none", "escalated"}
  /\ job' = [job EXCEPT !.state = "escalated", !.lease = None,
                        !.expired_at = None, !.escalated_at = now,
                        !.reason = reason]
  /\ run' = Overtaken(run)
  /\ UNCHANGED <<now, cursor, applied>>

(* Any other transaction of the same store: it moves the revision only.    *)
OtherWrite ==
  /\ \E w \in Workers : run[w].fresh
  /\ run' = Overtaken(run)
  /\ UNCHANGED <<now, job, cursor, applied>>

(* The scheduler samples the clock, then waits for the claim.              *)
Begin(w) ==
  /\ run[w] = Idle
  /\ run' = [run EXCEPT ![w].phase = "claiming", ![w].at = now]
  /\ UNCHANGED <<now, job, cursor, applied>>

Claimed(w) ==
  [Idle EXCEPT !.phase = "claimed", !.at = run[w].at,
               !.deadline = job.deadline, !.next_poll = job.next_poll,
               !.failures = job.failures, !.attempt = job'.attempts,
               !.lease = job'.lease]

(* The three ends of a claim transaction sampled at run[w].at.             *)
ClaimRefused(w) ==
  /\ ClaimIdle(run[w].at)
  /\ run' = [run EXCEPT ![w] = Idle]
  /\ UNCHANGED job

ClaimExpired(w) ==
  /\ ClaimExpires(run[w].at)
  /\ Expire(run[w].at)
  /\ run' = Overtaken([run EXCEPT ![w] = Idle])

ClaimGranted(w) ==
  /\ ClaimGrants(run[w].at)
  /\ Grant(run[w].at)
  /\ run' = Overtaken([run EXCEPT ![w] = Claimed(w)])

Claim(w) ==
  /\ run[w].phase = "claiming"
  /\ ClaimRefused(w) \/ ClaimExpired(w) \/ ClaimGranted(w)
  /\ UNCHANGED <<now, cursor, applied>>

(* The scheduler holds a granted claim against the policy.                 *)
PolicyAccepts(c) ==
  /\ c.lease = evidencePollLeaseExpiry(c.at, c.deadline)
  /\ evidencePollClaimAllowed(c.at, c.deadline, c.next_poll)

(* The poll is over; the scheduler has its outcome.                        *)
Ended(w, outcome) ==
  [run[w] EXCEPT !.phase = "ended", !.outcome = outcome, !.at = 0,
                 !.next_poll = 0, !.page = <<>>, !.fresh = FALSE]

(* pollPlayerLocalEvidenceInbox up to the request: it asks for what        *)
(* follows the cursor it reads here.                                       *)
StartPoll(w) ==
  /\ run[w].phase = "claimed"
  /\ run' = [run EXCEPT ![w] =
       IF ~PolicyAccepts(run[w]) THEN Idle
       ELSE IF now >= run[w].deadline THEN Ended(w, "deadline")
       ELSE [run[w] EXCEPT !.phase = "requested", !.at = now, !.next_poll = 0]]
  /\ UNCHANGED <<now, job, cursor, applied>>

(* Any answer the transport and the page decoder refuse.                   *)
RequestFails(w) ==
  /\ run[w].phase = "requested"
  /\ run' = [run EXCEPT ![w] = Ended(w, "failed")]
  /\ UNCHANGED <<now, job, cursor, applied>>

(* Faulty variant: the timer is set only when the deadline limits the       *)
(* request.                                                                 *)
RequestEndsAtDeadline(w) ==
  LET remaining == run[w].deadline - run[w].at
  IN  /\ run[w].phase = "requested"
      /\ remaining <= RequestTimeout
      /\ now >= run[w].at + remaining
      /\ run' = [run EXCEPT ![w] = Ended(w, "deadline")]
      /\ UNCHANGED <<now, job, cursor, applied>>

RequestTimesOut(w) ==
  LET remaining == run[w].deadline - run[w].at
  IN  /\ run[w].phase = "requested"
      /\ now >= run[w].at + Lesser(remaining, RequestTimeout)
      /\ run' = [run EXCEPT ![w] =
           Ended(w, IF remaining <= RequestTimeout THEN "deadline"
                    ELSE "failed")]
      /\ UNCHANGED <<now, job, cursor, applied>>

Pages == UNION {[1..n -> 0..(Messages - 1)] : n \in 0..MaxPage}

(* The page decoder looks at the anchor of the page only, so its messages  *)
(* may be any, in any order.                                               *)
Respond(w, page) ==
  /\ run[w].phase = "requested"
  /\ run' = [run EXCEPT ![w] =
       IF now >= run[w].deadline THEN Ended(w, "deadline")
       ELSE [run[w] EXCEPT !.phase = "ingesting", !.at = 0, !.page = page]]
  /\ UNCHANGED <<now, job, cursor, applied>>

(* ingestEvidenceHoldEnvelope on the next message: refused (its            *)
(* authentication or its operation may always be), already the cursor's,   *)
(* or prepared as a write set against the revision read here.              *)
Refuse(w) ==
  /\ run[w].phase = "ingesting"
  /\ run[w].page # <<>>
  /\ run' = [run EXCEPT ![w] = Ended(w, "failed")]
  /\ UNCHANGED <<now, job, cursor, applied>>

Ingest(w) ==
  /\ run[w].phase = "ingesting"
  /\ run[w].page # <<>>
  /\ \/ /\ Head(run[w].page) = cursor
        /\ run' = [run EXCEPT ![w].page = Tail(@)]
     \/ /\ Head(run[w].page) = cursor + 1
        /\ run' = [run EXCEPT ![w].phase = "applying", ![w].fresh = TRUE]
  /\ UNCHANGED <<now, job, cursor, applied>>

(* applyEvidenceInbox: nothing is written under a revision that has moved. *)
Apply(w) ==
  /\ run[w].phase = "applying"
  /\ \/ /\ run[w].fresh
        /\ cursor' = Head(run[w].page)
        /\ applied' = Append(applied, Head(run[w].page))
        /\ run' = Overtaken([run EXCEPT ![w].phase = "ingesting",
                                        ![w].page = Tail(@)])
     \/ /\ ~run[w].fresh
        /\ run' = [run EXCEPT ![w] = Ended(w, "failed")]
        /\ UNCHANGED <<cursor, applied>>
  /\ UNCHANGED <<now, job>>

PageDone(w) ==
  /\ run[w].phase = "ingesting"
  /\ run[w].page = <<>>
  /\ run' = [run EXCEPT ![w] = Ended(w, "succeeded")]
  /\ UNCHANGED <<now, job, cursor, applied>>

(* The scheduler samples completedAtMs and decides what to write.          *)
Completion(w) ==
  LET c == run[w]
      succeeded == c.outcome = "succeeded"
  IN  [c EXCEPT
         !.phase = "completing", !.at = now, !.outcome = "none",
         !.failures = IF succeeded THEN 0 ELSE c.failures + 1,
         !.next_poll =
           IF succeeded THEN Lesser(now + SuccessInterval, c.deadline)
           ELSE evidencePollNextRetryAt(now, c.deadline, c.failures)]

Finish(w) ==
  /\ run[w].phase = "ended"
  /\ run' = [run EXCEPT ![w] =
       IF run[w].outcome = "deadline" \/ now >= run[w].deadline
       THEN [Idle EXCEPT !.phase = "expiring", !.at = now]
       ELSE IF Completion(w).next_poll < now THEN Idle
       ELSE Completion(w)]
  /\ UNCHANGED <<now, job, cursor, applied>>

(* Past the deadline the scheduler claims once more, to expire the job.    *)
(* Its sample is not before the deadline, so the claim is never granted.   *)
ExpireJob(w) ==
  /\ run[w].phase = "expiring"
  /\ ClaimRefused(w) \/ ClaimExpired(w)
  /\ UNCHANGED <<now, cursor, applied>>

Complete(w) ==
  /\ run[w].phase = "completing"
  /\ \/ /\ Fenced(run[w]) /\ CompletionValid(run[w])
        /\ job' = [job EXCEPT !.state = "scheduled", !.lease = None,
                              !.next_poll = run[w].next_poll,
                              !.failures = run[w].failures]
        /\ run' = Overtaken([run EXCEPT ![w] = Idle])
     \/ /\ ~(Fenced(run[w]) /\ CompletionValid(run[w]))
        /\ run' = [run EXCEPT ![w] = Idle]
        /\ UNCHANGED job
  /\ UNCHANGED <<now, cursor, applied>>

Crash(w) ==
  /\ run[w] # Idle
  /\ run' = [run EXCEPT ![w] = Idle]
  /\ UNCHANGED <<now, job, cursor, applied>>

Tick ==
  /\ now < MaxTime
  /\ now' = now + 1
  /\ UNCHANGED <<job, cursor, applied, run>>

(* The steps a run takes by itself, without the source or the host.        *)
Proceed(w) ==
  \/ Claim(w)
  \/ StartPoll(w)
  \/ RequestTimesOut(w)
  \/ Refuse(w)
  \/ Ingest(w)
  \/ Apply(w)
  \/ PageDone(w)
  \/ Finish(w)
  \/ ExpireJob(w)
  \/ Complete(w)

Next ==
  \/ \E d \in Deadlines, n \in FirstPolls : Schedule(d, n)
  \/ \E r \in Reasons : Escalate(r)
  \/ OtherWrite
  \/ \E w \in Workers :
       \/ Begin(w)
       \/ Proceed(w)
       \/ RequestFails(w)
       \/ \E page \in Pages : Respond(w, page)
       \/ Crash(w)
  \/ Tick

Spec == Init /\ [][Next]_vars

FairSpec == Spec /\ WF_vars(Tick) /\ \A w \in Workers : WF_vars(Proceed(w))

-----------------------------------------------------------------------------
(* playerLocalEvidencePollJobValid, which every read of the row demands,   *)
(* and the CHECKs of the table (a column is set in its own state only):    *)
(* no order of claims, completions, expiries and handoffs stores a row     *)
(* that the store would then fail to decode.                               *)
JobValid ==
  job # NoJob =>
    /\ job.next_poll \in 0..job.deadline
    /\ job.failures \in 0..job.attempts
    /\ job.state \in {"scheduled", "in_flight"} \cup Terminal
    /\ (job.state = "in_flight") <=> (job.lease # None)
    /\ (job.state = "expired") <=> (job.expired_at # None)
    /\ (job.state = "escalated") <=> (job.escalated_at # None)
    /\ job.state = "in_flight" => job.attempts > 0 /\ job.lease \in 0..job.deadline
    /\ job.state = "expired" => job.expired_at >= job.deadline
    /\ job.state = "escalated" => job.escalated_at >= 0 /\ job.reason \in Reasons

Leased(w) == run[w].lease > now

(* A worker still within its lease owns the job: the row is in flight      *)
(* under its token, unless an operator escalated it, and no other worker   *)
(* is within a lease, whatever crashed, timed out or was claimed late.     *)
LeaseIsExclusive ==
  \A w \in Workers : Leased(w) =>
    /\ job.attempts = run[w].attempt
    /\ job.state \in {"in_flight", "escalated"}
    /\ job.state = "in_flight" => job.lease = run[w].lease
    /\ \A v \in Workers \ {w} : ~Leased(v)

(* The inbox holds a prefix of the source's chain, each message once, also *)
(* when workers that lost their lease still ingest pages, and pages repeat *)
(* or reorder messages (ingestEvidenceHoldEnvelope, applyEvidenceInbox).   *)
InboxIsPrefix == applied = [i \in 1..(cursor + 1) |-> i - 1]

(* The store's claim and the MoonBit policy decide alike, although one     *)
(* computes in absolute time and the other in clamped relative time: no    *)
(* granted claim ends as claim_policy_mismatch, its lease wasted.          *)
PolicyAgrees ==
  \A w \in Workers : run[w].phase = "claimed" => PolicyAccepts(run[w])

(* A completion that still holds the fence is refused only for being       *)
(* later than its lease: the failure count and the next poll the scheduler *)
(* computed from its copy of the job are what the store accepts.           *)
CompletionFits ==
  \A w \in Workers :
    run[w].phase = "completing" /\ Fenced(run[w]) =>
      (CompletionValid(run[w]) <=> run[w].at <= run[w].lease)

(* Store, scheduler and policy agree on a job: what one of them writes or  *)
(* decides, from a copy that is older than an await, the others accept.    *)
PollingAgrees == JobValid /\ PolicyAgrees /\ CompletionFits

(* The life of a job: an expired job is only ever handed to an operator,   *)
(* an escalated one keeps its reason for good, the attempt token never     *)
(* goes back, and a job in flight is rescheduled only through the worker   *)
(* that holds the current token: a late completion of a reclaimed job is   *)
(* lost (claimEvidencePollJob, completeEvidencePollJob,                    *)
(* escalateEvidencePollJob).                                               *)
JobOnlyAdvances ==
  [][/\ job # NoJob =>
          /\ job'.attempts \in {job.attempts, job.attempts + 1}
          /\ job.state = "expired" => job'.state \in Terminal
          /\ job.state = "escalated" => job' = job
     /\ job.state = "in_flight" /\ job'.state = "scheduled" =>
          \E w \in Workers :
            /\ run[w].phase = "completing" /\ run'[w] = Idle
            /\ run[w].attempt = job.attempts
            /\ run[w].at <= job.lease]_vars

(* Every scheduler call returns, also when the source never answers: the   *)
(* request timer of the poller ends it.                                    *)
RunEnds == \A w \in Workers : run[w] # Idle ~> run[w] = Idle

(* A job does not stay in flight or scheduled for ever, whichever workers  *)
(* crash, as long as claims keep reaching the store: a worker that dies    *)
(* leaves a lease others can reclaim and a deadline they enforce.          *)
PollingStops ==
  (\E w \in Workers : []<><<Claim(w)>>_vars) =>
    (job # NoJob ~> job.state \in Terminal)

(* Polling ends: every call of the scheduler, and the job itself.          *)
PollingEnds == RunEnds /\ PollingStops

=============================================================================
