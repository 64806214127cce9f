------------------------ MODULE EvidencePollingProofs -----------------------
(***************************************************************************)
(* Theorems about EvidencePolling, for any number of workers, any          *)
(* deadlines, durations, feeds and page sizes.                             *)
(***************************************************************************)
EXTENDS EvidencePolling, TLAPS

(* The part of a call's shape that leases need.                            *)
CallShape(r) ==
  /\ DOMAIN r = DOMAIN Idle
  /\ r.lease \in Int /\ r.attempt \in Int /\ r.at \in Int

(* What the row and the calls look like, as far as leases need it.         *)
Shapes ==
  /\ now \in Nat
  /\ DOMAIN job = DOMAIN NoJob
  /\ job.deadline \in Int /\ job.lease \in Int /\ job.attempts \in Int
  /\ run = [w \in Workers |-> run[w]]
  /\ \A w \in Workers : CallShape(run[w])

(* A clock a call sampled for a claim is not ahead of the clock.           *)
SamplesPast ==
  \A w \in Workers :
    run[w].phase \in {"claiming", "expiring"} => run[w].at <= now

(* No lease outlives the deadline.                                         *)
LeaseInTime == job.state = "in_flight" => job.lease <= job.deadline

Inv == Shapes /\ SamplesPast /\ LeaseInTime /\ LeaseIsExclusive

-----------------------------------------------------------------------------
(* The initial state satisfies the invariant.                              *)
LEMMA InvInit == Init => Inv
<1> SUFFICES ASSUME Init PROVE Inv
  OBVIOUS
<1>1. \A w \in Workers : run[w] = Idle
  BY ZenonT(60) DEF Init
<1>2. Idle.lease = 0 /\ Idle.attempt = 0 /\ Idle.at = 0 /\ Idle.phase = "idle"
  BY DEF Idle
<1>3. /\ NoJob.deadline = 0 /\ NoJob.lease = -1 /\ NoJob.attempts = 0
      /\ NoJob.state = "none"
  BY DEF NoJob, None
<1>4. job = NoJob /\ now = 0 /\ run = [w \in Workers |-> run[w]]
  BY DEF Init
<1>5. Shapes
  BY <1>1, <1>2, <1>3, <1>4 DEF Shapes, CallShape
<1> QED
  BY <1>1, <1>2, <1>3, <1>4, <1>5
     DEF Inv, SamplesPast, LeaseInTime, LeaseIsExclusive, Leased
-----------------------------------------------------------------------------
(* The fields of an idle call.                                             *)
LEMMA IdleShape ==
  CallShape(Idle) /\ Idle.lease = 0 /\ Idle.phase = "idle"
BY DEF CallShape, Idle

(* A call that moves on without the store keeps its lease or gives it up.  *)
LEMMA CallMoves ==
  ASSUME Inv, NEW w \in Workers, NEW r, CallShape(r),
         \/ r.lease = 0
         \/ r.lease = run[w].lease /\ r.attempt = run[w].attempt,
         r.phase \in {"claiming", "expiring"} => r.at <= now,
         run' = [run EXCEPT ![w] = r],
         UNCHANGED <<now, job>>
  PROVE  Inv'
<1>1. run'[w] = r /\ \A v \in Workers \ {w} : run'[v] = run[v]
  BY DEF Inv, Shapes
<1>2. Shapes'
  <2>1. \A v \in Workers : CallShape(run'[v])
    BY <1>1 DEF Inv, Shapes
  <2>2. run' = [v \in Workers |-> run'[v]]
    BY DEF Inv, Shapes
  <2> QED
    BY <2>1, <2>2 DEF Inv, Shapes, CallShape
<1>3. SamplesPast'
  BY <1>1 DEF Inv, SamplesPast
<1>4. \A v \in Workers : Leased(v)' =>
        Leased(v) /\ run'[v].lease = run[v].lease /\ run'[v].attempt = run[v].attempt
  <2>1. now \in Nat /\ now' = now
    BY DEF Inv, Shapes
  <2> QED
    BY <1>1, <2>1 DEF Leased
<1>5. LeaseIsExclusive'
  BY <1>4 DEF Inv, LeaseIsExclusive
<1> QED
  BY <1>2, <1>3, <1>5 DEF Inv, LeaseInTime

(* What a write to the store does to the calls: w goes on as r, and every  *)
(* prepared write set is stale.                                            *)
LEMMA CallsOvertaken ==
  ASSUME Shapes, NEW w \in Workers, NEW r, CallShape(r),
         run' = Overtaken([run EXCEPT ![w] = r])
  PROVE  /\ run' = [v \in Workers |-> run'[v]]
         /\ \A v \in Workers : CallShape(run'[v])
         /\ /\ run'[w].lease = r.lease /\ run'[w].attempt = r.attempt
            /\ run'[w].phase = r.phase /\ run'[w].at = r.at
         /\ \A v \in Workers \ {w} :
              /\ run'[v].lease = run[v].lease /\ run'[v].attempt = run[v].attempt
              /\ run'[v].phase = run[v].phase /\ run'[v].at = run[v].at
<1> DEFINE old(v) == IF v = w THEN r ELSE run[v]
<1>1. run' = [v \in Workers |-> [old(v) EXCEPT !.fresh = FALSE]]
  BY ZenonT(60) DEF Overtaken, Shapes
<1>2. \A v \in Workers : CallShape(old(v))
  BY DEF Shapes
<1>3. ASSUME NEW v \in Workers
      PROVE  /\ CallShape(run'[v])
             /\ run'[v].lease = old(v).lease /\ run'[v].attempt = old(v).attempt
             /\ run'[v].phase = old(v).phase /\ run'[v].at = old(v).at
  <2> DEFINE o == old(v)
  <2>1. run'[v] = [o EXCEPT !.fresh = FALSE] /\ CallShape(o)
    BY ZenonT(60), <1>1, <1>2
  <2>2. {"lease", "attempt", "phase", "at", "fresh"} \subseteq DOMAIN Idle
    BY DEF Idle
  <2> HIDE DEF o
  <2> QED
    BY <2>1, <2>2 DEF CallShape, o
<1> QED
  BY ZenonT(60), <1>1, <1>3

(* The same for a write that belongs to no call.                           *)
LEMMA AllOvertaken ==
  ASSUME Shapes, run' = Overtaken(run)
  PROVE  /\ run' = [v \in Workers |-> run'[v]]
         /\ \A v \in Workers : CallShape(run'[v])
         /\ \A v \in Workers :
              /\ run'[v].lease = run[v].lease /\ run'[v].attempt = run[v].attempt
              /\ run'[v].phase = run[v].phase /\ run'[v].at = run[v].at
<1>1. ASSUME NEW v \in Workers
      PROVE  /\ CallShape(run'[v])
             /\ run'[v].lease = run[v].lease /\ run'[v].attempt = run[v].attempt
             /\ run'[v].phase = run[v].phase /\ run'[v].at = run[v].at
  <2>1. run'[v] = [run[v] EXCEPT !.fresh = FALSE] /\ CallShape(run[v])
    BY DEF Overtaken, Shapes
  <2>2. {"lease", "attempt", "phase", "at", "fresh"} \subseteq DOMAIN Idle
    BY DEF Idle
  <2> QED
    BY <2>1, <2>2 DEF CallShape
<1>2. run' = [v \in Workers |-> run'[v]]
  BY DEF Overtaken
<1> QED
  BY <1>1, <1>2

(* The invariant after a write that ends no lease but w's.                 *)
LEMMA WriteKeeps ==
  ASSUME Inv, now' = now,
         DOMAIN job' = DOMAIN NoJob,
         job'.deadline \in Int, job'.lease \in Int, job'.attempts \in Int,
         LeaseInTime',
         run' = [v \in Workers |-> run'[v]],
         \A v \in Workers : CallShape(run'[v]),
         \A v \in Workers :
           run'[v].phase \in {"claiming", "expiring"} => run'[v].at <= now,
         LeaseIsExclusive'
  PROVE  Inv'
BY DEF Inv, Shapes, SamplesPast, CallShape

(* A claim at or past the deadline expires the job.                        *)
LEMMA ExpiredStep ==
  ASSUME Inv, NEW w \in Workers, run[w].phase \in {"claiming", "expiring"},
         ClaimExpired(w), now' = now
  PROVE  Inv'
<1>1. /\ job.state \in {"scheduled", "in_flight"}
      /\ run[w].at >= job.deadline
      /\ job' = [job EXCEPT !.state = "expired", !.lease = None,
                            !.expired_at = run[w].at]
      /\ run' = Overtaken([run EXCEPT ![w] = Idle])
  BY DEF ClaimExpired, ClaimExpires, ClaimIdle, Expire
<1>2. /\ run' = [v \in Workers |-> run'[v]]
      /\ \A v \in Workers : CallShape(run'[v])
      /\ run'[w].lease = 0 /\ run'[w].phase = "idle"
      /\ \A v \in Workers \ {w} :
              /\ run'[v].lease = run[v].lease
              /\ run'[v].phase = run[v].phase /\ run'[v].at = run[v].at
  BY ZenonT(60), <1>1, CallsOvertaken, IdleShape DEF Inv
<1>3. /\ DOMAIN job' = DOMAIN NoJob /\ job'.deadline = job.deadline
      /\ job'.attempts = job.attempts /\ job'.lease = -1
      /\ job'.state = "expired"
  <2>1. DOMAIN job = {"state", "deadline", "next_poll", "failures", "attempts",
                      "lease", "expired_at", "escalated_at", "reason"}
    BY DEF Inv, Shapes, NoJob
  <2> QED
    BY <1>1, <2>1 DEF None, NoJob
<1>4. \A v \in Workers : ~Leased(v)'
  <2> SUFFICES ASSUME NEW v \in Workers, Leased(v)'
               PROVE  FALSE
    OBVIOUS
  <2>1. now \in Nat /\ now' = now /\ run[w].at \in Int /\ job.deadline \in Int
    BY DEF Inv, Shapes, CallShape
  <2>2. v # w /\ Leased(v) /\ run[v].lease \in Int
    BY <1>2, <2>1 DEF Leased, Inv, Shapes, CallShape
  <2>3. job.state = "in_flight" /\ job.lease = run[v].lease
    BY <1>1, <2>2 DEF Inv, LeaseIsExclusive
  <2>4. run[v].lease <= job.deadline /\ run[w].at <= now
    BY <2>3 DEF Inv, LeaseInTime, SamplesPast
  <2> QED
    BY <1>1, <2>1, <2>2, <2>4 DEF Leased
<1>5. LeaseIsExclusive' /\ LeaseInTime'
  BY <1>3, <1>4 DEF LeaseIsExclusive, LeaseInTime
<1>6. \A v \in Workers :
        run'[v].phase \in {"claiming", "expiring"} => run'[v].at <= now
  BY <1>2 DEF Inv, SamplesPast
<1> QED
  BY <1>2, <1>3, <1>5, <1>6, WriteKeeps DEF Inv, Shapes

(* A granted claim: nobody is within a lease, or the job would not be due. *)
LEMMA GrantedStep ==
  ASSUME Inv, NEW w \in Workers, run[w].phase = "claiming",
         ClaimGranted(w), now' = now
  PROVE  Inv'
<1> DEFINE at == run[w].at
<1>1. /\ job.state \in {"scheduled", "in_flight"}
      /\ at < job.deadline
      /\ ~NotDue(at)
      /\ Grant(at)
      /\ run' = Overtaken([run EXCEPT ![w] = Claimed(w)])
  BY DEF ClaimGranted, ClaimGrants, ClaimIdle
<1>t. /\ now \in Nat /\ at \in Int /\ at <= now /\ job.deadline \in Int
      /\ job.attempts \in Int /\ job.lease \in Int /\ LeaseDuration \in Nat
  BY ConfigurationValid DEF Inv, Shapes, CallShape, SamplesPast
<1>2. /\ DOMAIN job' = DOMAIN NoJob /\ job'.deadline = job.deadline
      /\ job'.attempts = job.attempts + 1 /\ job'.state = "in_flight"
      /\ job'.lease = Lesser(at + LeaseDuration, job.deadline)
  <2>1. DOMAIN job = {"state", "deadline", "next_poll", "failures", "attempts",
                      "lease", "expired_at", "escalated_at", "reason"}
    BY DEF Inv, Shapes, NoJob
  <2> HIDE DEF at
  <2> QED
    BY <1>1, <2>1 DEF Grant, NoJob
<1>3. job'.lease \in Int /\ job'.lease <= job'.deadline
  BY <1>t, <1>2 DEF Lesser
<1>4. /\ CallShape(Claimed(w)) /\ Claimed(w).phase = "claimed"
      /\ Claimed(w).lease = job'.lease /\ Claimed(w).attempt = job'.attempts
  <2>1. DOMAIN Idle = {"phase", "at", "deadline", "next_poll", "failures",
                       "attempt", "lease", "page", "fresh", "outcome"}
    BY DEF Idle
  <2>2. /\ DOMAIN Claimed(w) = DOMAIN Idle
        /\ Claimed(w).phase = "claimed" /\ Claimed(w).at = at
        /\ Claimed(w).lease = job'.lease /\ Claimed(w).attempt = job'.attempts
    BY <2>1 DEF Claimed
  <2> QED
    BY <1>t, <1>2, <1>3, <2>2 DEF CallShape
<1>5. /\ run' = [v \in Workers |-> run'[v]]
      /\ \A v \in Workers : CallShape(run'[v])
      /\ run'[w].lease = job'.lease /\ run'[w].attempt = job'.attempts
      /\ run'[w].phase = "claimed"
      /\ \A v \in Workers \ {w} :
              /\ run'[v].lease = run[v].lease
              /\ run'[v].phase = run[v].phase /\ run'[v].at = run[v].at
  BY ZenonT(60), <1>1, <1>4, CallsOvertaken DEF Inv
<1>6. \A v \in Workers \ {w} : ~Leased(v)'
  <2> SUFFICES ASSUME NEW v \in Workers \ {w}, Leased(v)'
               PROVE  FALSE
    OBVIOUS
  <2>1. Leased(v) /\ run[v].lease \in Int
    BY <1>5 DEF Leased, Inv, Shapes, CallShape
  <2>2. job.state = "in_flight" /\ job.lease = run[v].lease
    BY <1>1, <2>1 DEF Inv, LeaseIsExclusive
  <2>3. job.lease > at
    BY <1>t, <2>1, <2>2 DEF Leased
  <2> QED
    BY <1>1, <2>2, <2>3 DEF NotDue
<1>7. LeaseIsExclusive' /\ LeaseInTime'
  BY <1>2, <1>3, <1>5, <1>6 DEF LeaseIsExclusive, LeaseInTime
<1>8. \A v \in Workers :
        run'[v].phase \in {"claiming", "expiring"} => run'[v].at <= now
  BY <1>5 DEF Inv, SamplesPast
<1> QED
  BY <1>t, <1>2, <1>3, <1>5, <1>7, <1>8, WriteKeeps

(* A completion accepted from w: were another worker within a lease, w     *)
(* would hold the same lease.                                              *)
LEMMA CompleteStep ==
  ASSUME Inv, NEW w \in Workers, Complete(w)
  PROVE  Inv'
<1>1. CASE /\ run' = [run EXCEPT ![w] = Idle]
           /\ UNCHANGED job
  BY ZenonT(60), <1>1, CallMoves, IdleShape DEF Complete
<1>2. CASE /\ Fenced(run[w])
           /\ job' = [job EXCEPT !.state = "scheduled", !.lease = None,
                                 !.next_poll = run[w].next_poll,
                                 !.failures = run[w].failures]
           /\ run' = Overtaken([run EXCEPT ![w] = Idle])
  <2>1. /\ run' = [v \in Workers |-> run'[v]]
        /\ \A v \in Workers : CallShape(run'[v])
        /\ run'[w].lease = 0 /\ run'[w].phase = "idle"
        /\ \A v \in Workers \ {w} :
                /\ run'[v].lease = run[v].lease
                /\ run'[v].phase = run[v].phase /\ run'[v].at = run[v].at
    BY ZenonT(60), <1>2, CallsOvertaken, IdleShape DEF Inv
  <2>2. /\ DOMAIN job' = DOMAIN NoJob /\ job'.deadline = job.deadline
        /\ job'.attempts = job.attempts /\ job'.lease = -1
        /\ job'.state = "scheduled"
    <3>1. DOMAIN job = {"state", "deadline", "next_poll", "failures",
                        "attempts", "lease", "expired_at", "escalated_at",
                        "reason"}
      BY DEF Inv, Shapes, NoJob
    <3> QED
      BY <1>2, <3>1 DEF None, NoJob
  <2>3. now \in Nat /\ now' = now
    BY DEF Complete, Inv, Shapes
  <2>4. \A v \in Workers : ~Leased(v)'
    <3> SUFFICES ASSUME NEW v \in Workers, Leased(v)'
                 PROVE  FALSE
      OBVIOUS
    <3>1. v # w /\ Leased(v)
      BY <2>1, <2>3 DEF Leased
    <3>2. job.lease = run[v].lease /\ ~Leased(w)
      BY <1>2, <3>1 DEF Inv, LeaseIsExclusive, Fenced
    <3> QED
      BY <1>2, <3>1, <3>2 DEF Fenced, Leased
  <2>5. LeaseIsExclusive' /\ LeaseInTime'
    BY <2>2, <2>4 DEF LeaseIsExclusive, LeaseInTime
  <2>6. \A v \in Workers :
          run'[v].phase \in {"claiming", "expiring"} => run'[v].at <= now
    BY <2>1 DEF Inv, SamplesPast
  <2> QED
    BY <2>1, <2>2, <2>3, <2>5, <2>6, WriteKeeps DEF Inv, Shapes
<1> QED
  BY <1>1, <1>2 DEF Complete

(* A write that leaves leases and samples alone and the row in flight or   *)
(* escalated under the same token.                                         *)
LEMMA LeasesKept ==
  ASSUME Inv, now' = now,
         DOMAIN job' = DOMAIN NoJob,
         job'.deadline \in Int, job'.lease \in Int, job'.attempts = job.attempts,
         job' = job \/ job'.state = "escalated",
         run' = [v \in Workers |-> run'[v]],
         \A v \in Workers : CallShape(run'[v]),
         \A v \in Workers :
           /\ run'[v].lease = run[v].lease /\ run'[v].attempt = run[v].attempt
           /\ run'[v].phase \in {"claiming", "expiring"} => run'[v].at <= now
  PROVE  Inv'
<1>1. \A v \in Workers : Leased(v)' <=> Leased(v)
  BY DEF Leased
<1>2. LeaseIsExclusive'
  BY <1>1 DEF Inv, LeaseIsExclusive
<1>3. LeaseInTime'
  BY DEF Inv, LeaseInTime
<1> QED
  BY <1>2, <1>3, WriteKeeps DEF Inv, Shapes

(* The operator, other transactions of the store, and a new job.           *)
LEMMA EscalateStep ==
  ASSUME Inv, NEW reason, Escalate(reason)
  PROVE  Inv'
<1>1. DOMAIN job = {"state", "deadline", "next_poll", "failures", "attempts",
                    "lease", "expired_at", "escalated_at", "reason"}
  BY DEF Inv, Shapes, NoJob
<1>2. /\ DOMAIN job' = DOMAIN NoJob /\ job'.deadline = job.deadline
      /\ job'.lease = -1 /\ job'.attempts = job.attempts
      /\ job'.state = "escalated"
  BY <1>1 DEF Escalate, None, NoJob
<1> QED
  BY <1>2, AllOvertaken, LeasesKept DEF Escalate, Inv, Shapes, SamplesPast

(* Any other write of the store only makes prepared write sets stale.      *)
LEMMA OtherWriteStep ==
  ASSUME Inv, OtherWrite
  PROVE  Inv'
BY AllOvertaken, LeasesKept DEF OtherWrite, Inv, Shapes, SamplesPast

(* A job is scheduled only when there was none, so nobody holds a lease.   *)
LEMMA ScheduleStep ==
  ASSUME Inv, NEW d \in Deadlines, NEW n, Schedule(d, n)
  PROVE  Inv'
<1>1. /\ job.state = "none" /\ job.attempts = 0
  BY DEF Schedule, NoJob
<1>2. \A v \in Workers : ~Leased(v)
  BY <1>1 DEF Inv, LeaseIsExclusive
<1>3. DOMAIN NoJob = {"state", "deadline", "next_poll", "failures", "attempts",
                      "lease", "expired_at", "escalated_at", "reason"}
      /\ NoJob.lease = -1 /\ NoJob.attempts = 0
  BY DEF NoJob, None
<1>4. /\ DOMAIN job' = DOMAIN NoJob /\ job'.deadline = d
      /\ job'.lease = -1 /\ job'.attempts = 0 /\ job'.state = "scheduled"
  BY <1>3 DEF Schedule
<1>5. d \in Int
  BY ConfigurationValid
<1>6. /\ run' = [v \in Workers |-> run'[v]]
      /\ \A v \in Workers : CallShape(run'[v])
      /\ \A v \in Workers :
           /\ run'[v].lease = run[v].lease
           /\ run'[v].phase = run[v].phase /\ run'[v].at = run[v].at
  BY AllOvertaken DEF Schedule, Inv
<1>7. now' = now
  BY DEF Schedule
<1>8. LeaseIsExclusive' /\ LeaseInTime'
  BY <1>2, <1>4, <1>6, <1>7 DEF LeaseIsExclusive, LeaseInTime, Leased
<1> QED
  BY <1>4, <1>5, <1>6, <1>7, <1>8, WriteKeeps DEF Inv, SamplesPast

(* The clock only ends leases.                                             *)
LEMMA TickStep ==
  ASSUME Inv, Tick
  PROVE  Inv'
<1>1. now \in Nat /\ now' = now + 1 /\ job' = job /\ run' = run
  BY DEF Tick, Inv, Shapes
<1>2. \A v \in Workers : run[v].lease \in Int /\ run[v].at \in Int
  BY DEF Inv, Shapes, CallShape
<1>3. \A v \in Workers : Leased(v)' => Leased(v)
  BY <1>1, <1>2 DEF Leased
<1>4. LeaseIsExclusive'
  BY <1>1, <1>3 DEF Inv, LeaseIsExclusive
<1>5. SamplesPast'
  BY <1>1, <1>2 DEF Inv, SamplesPast
<1>6. Shapes'
  BY <1>1 DEF Inv, Shapes, CallShape
<1> QED
  BY <1>1, <1>4, <1>5, <1>6 DEF Inv, LeaseInTime

-----------------------------------------------------------------------------
(* The fields of a call, for the leaves that update some of them.          *)
LEMMA CallDomain ==
  DOMAIN Idle = {"phase", "at", "deadline", "next_poll", "failures",
                 "attempt", "lease", "page", "fresh", "outcome"}
BY DEF Idle

(* An ended poll keeps the token of its claim.                             *)
LEMMA EndedShape ==
  ASSUME NEW w \in Workers, CallShape(run[w]), NEW o
  PROVE  /\ CallShape(Ended(w, o)) /\ Ended(w, o).phase = "ended"
         /\ Ended(w, o).lease = run[w].lease
         /\ Ended(w, o).attempt = run[w].attempt
BY CallDomain DEF Ended, CallShape

(* So does the completion the scheduler then writes.                       *)
LEMMA CompletionShape ==
  ASSUME NEW w \in Workers, CallShape(run[w]), now \in Nat
  PROVE  /\ CallShape(Completion(w)) /\ Completion(w).phase = "completing"
         /\ Completion(w).lease = run[w].lease
         /\ Completion(w).attempt = run[w].attempt
<1> DEFINE n == Completion(w).next_poll
           f == Completion(w).failures
<1>1. Completion(w) =
        [run[w] EXCEPT !.phase = "completing", !.at = now, !.outcome = "none",
                       !.failures = f, !.next_poll = n]
  BY CallDomain DEF Completion, CallShape
<1> HIDE DEF n, f
<1> QED
  BY <1>1, CallDomain DEF CallShape

(* The steps a call takes without writing to the store.                    *)
LEMMA PollSteps ==
  ASSUME Inv, NEW w \in Workers, UNCHANGED <<now, job>>,
         \/ Begin(w) \/ StartPoll(w) \/ RequestFails(w) \/ RequestTimesOut(w)
         \/ (\E page \in Pages : Respond(w, page))
         \/ Refuse(w) \/ Ingest(w) \/ PageDone(w) \/ Finish(w) \/ Crash(w)
  PROVE  Inv'
<1>t. CallShape(run[w]) /\ now \in Nat /\ run = [v \in Workers |-> run[v]]
  BY DEF Inv, Shapes
<1>e. ASSUME NEW o, run' = [run EXCEPT ![w] = Ended(w, o)]
      PROVE  Inv'
  BY <1>t, <1>e, EndedShape, CallMoves
<1>i. ASSUME run' = [run EXCEPT ![w] = Idle]
      PROVE  Inv'
  BY ZenonT(60), <1>i, IdleShape, CallMoves
<1>1. CASE Begin(w)
  <2> DEFINE r == [run[w] EXCEPT !.phase = "claiming", !.at = now]
  <2>1. run' = [run EXCEPT ![w] = r]
    BY ZenonT(60), <1>1, <1>t DEF Begin
  <2>2. /\ CallShape(r) /\ r.at = now
        /\ r.lease = run[w].lease /\ r.attempt = run[w].attempt
    BY <1>t, CallDomain DEF CallShape
  <2> HIDE DEF r
  <2> QED
    BY <1>t, <2>1, <2>2, CallMoves
<1>2. CASE StartPoll(w)
  <2> DEFINE r == [run[w] EXCEPT !.phase = "requested", !.at = now,
                                 !.next_poll = 0]
  <2>1. \/ run' = [run EXCEPT ![w] = Idle]
        \/ run' = [run EXCEPT ![w] = Ended(w, "deadline")]
        \/ run' = [run EXCEPT ![w] = r]
    BY ZenonT(60), <1>2 DEF StartPoll
  <2>2. /\ CallShape(r) /\ r.phase = "requested"
        /\ r.lease = run[w].lease /\ r.attempt = run[w].attempt
    BY <1>t, CallDomain DEF CallShape
  <2> HIDE DEF r
  <2>3. CASE run' = [run EXCEPT ![w] = r]
    BY ZenonT(60), <2>2, <2>3, CallMoves
  <2> QED
    BY <1>e, <1>i, <2>1, <2>3
<1>3. CASE RequestFails(w)
  BY ZenonT(60), <1>3, <1>e DEF RequestFails
<1>4. CASE RequestTimesOut(w)
  BY ZenonT(60), <1>4, <1>e DEF RequestTimesOut
<1>5. CASE \E page \in Pages : Respond(w, page)
  <2> PICK page \in Pages : Respond(w, page)
    BY <1>5
  <2> DEFINE r == [run[w] EXCEPT !.phase = "ingesting", !.at = 0, !.page = page]
  <2>1. \/ run' = [run EXCEPT ![w] = Ended(w, "deadline")]
        \/ run' = [run EXCEPT ![w] = r]
    BY ZenonT(60) DEF Respond
  <2>2. /\ CallShape(r) /\ r.phase = "ingesting"
        /\ r.lease = run[w].lease /\ r.attempt = run[w].attempt
    BY <1>t, CallDomain DEF CallShape
  <2> HIDE DEF r
  <2>3. CASE run' = [run EXCEPT ![w] = r]
    BY ZenonT(60), <2>2, <2>3, CallMoves
  <2> QED
    BY <1>e, <2>1, <2>3
<1>6. CASE Refuse(w)
  BY ZenonT(60), <1>6, <1>e DEF Refuse
<1>7. CASE Ingest(w)
  <2> DEFINE r == [run[w] EXCEPT !.page = Tail(@)]
             q == [run[w] EXCEPT !.phase = "applying", !.fresh = TRUE]
  <2>0. run[w].phase = "ingesting"
    BY <1>7 DEF Ingest
  <2>1. run' = [run EXCEPT ![w] = r] \/ run' = [run EXCEPT ![w] = q]
    BY <1>7, <1>t DEF Ingest
  <2>2. /\ CallShape(r) /\ r.phase = "ingesting"
        /\ r.lease = run[w].lease /\ r.attempt = run[w].attempt
    BY <1>t, <2>0, CallDomain DEF CallShape
  <2>3. /\ CallShape(q) /\ q.phase = "applying"
        /\ q.lease = run[w].lease /\ q.attempt = run[w].attempt
    BY <1>t, CallDomain DEF CallShape
  <2> HIDE DEF r, q
  <2>4. CASE run' = [run EXCEPT ![w] = r]
    BY ZenonT(60), <2>2, <2>4, CallMoves
  <2>5. CASE run' = [run EXCEPT ![w] = q]
    BY ZenonT(60), <2>3, <2>5, CallMoves
  <2> QED
    BY <2>1, <2>4, <2>5
<1>8. CASE PageDone(w)
  BY ZenonT(60), <1>8, <1>e DEF PageDone
<1>9. CASE Finish(w)
  <2> DEFINE r == [Idle EXCEPT !.phase = "expiring", !.at = now]
  <2>1. \/ run' = [run EXCEPT ![w] = r]
        \/ run' = [run EXCEPT ![w] = Idle]
        \/ run' = [run EXCEPT ![w] = Completion(w)]
    BY ZenonT(60), <1>9 DEF Finish
  <2>2. CallShape(r) /\ r.at = now /\ r.lease = 0
    BY <1>t DEF CallShape, Idle
  <2> HIDE DEF r
  <2>3. CASE run' = [run EXCEPT ![w] = r]
    BY <1>t, <2>2, <2>3, CallMoves
  <2>4. CASE run' = [run EXCEPT ![w] = Completion(w)]
    BY <1>t, <2>4, CompletionShape, CallMoves
  <2> QED
    BY <1>i, <2>1, <2>3, <2>4
<1>10. CASE Crash(w)
  BY <1>10, <1>i DEF Crash
<1> QED
  BY <1>1, <1>2, <1>3, <1>4, <1>5, <1>6, <1>7, <1>8, <1>9, <1>10

(* Committing a message keeps the token of the call that ingests it.       *)
LEMMA ApplyStep ==
  ASSUME Inv, NEW w \in Workers, Apply(w)
  PROVE  Inv'
<1>t. CallShape(run[w]) /\ now \in Nat /\ run = [v \in Workers |-> run[v]]
  BY DEF Inv, Shapes
<1>1. CASE run' = [run EXCEPT ![w] = Ended(w, "failed")]
  BY <1>t, <1>1, EndedShape, CallMoves DEF Apply
<1>2. CASE run' = Overtaken([run EXCEPT ![w].phase = "ingesting",
                                        ![w].page = Tail(@)])
  <2> DEFINE r == [run[w] EXCEPT !.phase = "ingesting", !.page = Tail(@)]
  <2>1. run' = Overtaken([run EXCEPT ![w] = r])
    BY ZenonT(60), <1>2, <1>t
  <2>2. /\ CallShape(r) /\ r.phase = "ingesting"
        /\ r.lease = run[w].lease /\ r.attempt = run[w].attempt
    BY <1>t, CallDomain DEF CallShape
  <2> HIDE DEF r
  <2>a. /\ run' = [v \in Workers |-> run'[v]]
        /\ \A v \in Workers : CallShape(run'[v])
        /\ /\ run'[w].lease = r.lease /\ run'[w].attempt = r.attempt
           /\ run'[w].phase = r.phase /\ run'[w].at = r.at
        /\ \A v \in Workers \ {w} :
             /\ run'[v].lease = run[v].lease /\ run'[v].attempt = run[v].attempt
             /\ run'[v].phase = run[v].phase /\ run'[v].at = run[v].at
    BY ZenonT(60), <2>1, <2>2, CallsOvertaken DEF Inv
  <2>3. /\ run'[w].phase = "ingesting"
        /\ \A v \in Workers :
             /\ run'[v].lease = run[v].lease /\ run'[v].attempt = run[v].attempt
             /\ v # w => run'[v].phase = run[v].phase /\ run'[v].at = run[v].at
    BY <2>2, <2>a
  <2>4. \A v \in Workers :
          run'[v].phase \in {"claiming", "expiring"} => run'[v].at <= now
    BY <2>3 DEF Inv, SamplesPast
  <2>5. job' = job /\ now' = now
    BY DEF Apply
  <2> QED
    BY <2>a, <2>3, <2>4, <2>5, LeasesKept DEF Inv, Shapes
<1> QED
  BY <1>1, <1>2 DEF Apply

(* A claim, also the one that expires the job past its deadline.           *)
LEMMA ClaimStep ==
  ASSUME Inv, NEW w \in Workers, Claim(w) \/ ExpireJob(w)
  PROVE  Inv'
<1>1. /\ now' = now
      /\ run[w].phase \in {"claiming", "expiring"}
      /\ \/ ClaimRefused(w) \/ ClaimExpired(w)
         \/ run[w].phase = "claiming" /\ ClaimGranted(w)
  BY DEF Claim, ExpireJob
<1>2. CASE ClaimRefused(w)
  BY ZenonT(60), <1>1, <1>2, IdleShape, CallMoves DEF ClaimRefused
<1> QED
  BY <1>1, <1>2, ExpiredStep, GrantedStep

(* The actions that are neither a claim, a commit nor a completion.        *)
LEMMA PollStepsUnchanged ==
  ASSUME NEW w \in Workers,
         \/ Begin(w) \/ StartPoll(w) \/ RequestFails(w) \/ RequestTimesOut(w)
         \/ (\E page \in Pages : Respond(w, page))
         \/ Refuse(w) \/ Ingest(w) \/ PageDone(w) \/ Finish(w) \/ Crash(w)
  PROVE  UNCHANGED <<now, job>>
BY ZenonT(60) DEF Begin, StartPoll, RequestFails, RequestTimesOut, Respond, Refuse,
       Ingest, PageDone, Finish, Crash

(* Every step preserves the invariant.                                     *)
LEMMA InvStep == Inv /\ [Next]_vars => Inv'
<1> SUFFICES ASSUME Inv, [Next]_vars
             PROVE  Inv'
  OBVIOUS
<1>1. CASE \E d \in Deadlines, n \in FirstPolls : Schedule(d, n)
  BY <1>1, ScheduleStep
<1>2. CASE \E r \in Reasons : Escalate(r)
  BY <1>2, EscalateStep
<1>3. CASE OtherWrite
  BY <1>3, OtherWriteStep
<1>4. ASSUME NEW w \in Workers,
             \/ Begin(w) \/ Proceed(w) \/ RequestFails(w)
             \/ (\E page \in Pages : Respond(w, page)) \/ Crash(w)
      PROVE  Inv'
  <2>1. CASE Claim(w) \/ ExpireJob(w)
    BY <2>1, ClaimStep
  <2>2. CASE Apply(w)
    BY <2>2, ApplyStep
  <2>3. CASE Complete(w)
    BY <2>3, CompleteStep
  <2>4. CASE \/ Begin(w) \/ StartPoll(w) \/ RequestFails(w)
             \/ RequestTimesOut(w)
             \/ (\E page \in Pages : Respond(w, page))
             \/ Refuse(w) \/ Ingest(w) \/ PageDone(w) \/ Finish(w) \/ Crash(w)
    BY <2>4, PollSteps, PollStepsUnchanged
  <2> QED
    BY <1>4, <2>1, <2>2, <2>3, <2>4 DEF Proceed
<1>5. CASE Tick
  BY <1>5, TickStep
<1>6. CASE UNCHANGED vars
  BY <1>6 DEF vars, Inv, Shapes, CallShape, SamplesPast, LeaseInTime,
              LeaseIsExclusive, Leased
<1> QED
  BY <1>1, <1>2, <1>3, <1>4, <1>5, <1>6 DEF Next

(* claimEvidencePollJob hands out leases one at a time: a worker within its *)
(* lease owns the job, for any number of workers and any durations, also    *)
(* when workers crash, sample the clock late or act long after their lease. *)
THEOREM LeaseAlwaysExclusive == Spec => []LeaseIsExclusive
<1>1. Inv => LeaseIsExclusive
  BY DEF Inv
<1> QED
  BY InvInit, InvStep, <1>1, PTL DEF Spec

-----------------------------------------------------------------------------
(* What a step may do to the row.                                          *)
RowKept == job' = job

RowScheduled == job = NoJob

RowEscalated ==
  /\ job.state # "escalated" /\ job'.state = "escalated"
  /\ job'.attempts = job.attempts

RowClaimed ==
  /\ job.state \in {"scheduled", "in_flight"}
  /\ job'.state \in {"expired", "in_flight"}
  /\ job'.attempts \in {job.attempts, job.attempts + 1}

RowCompleted ==
  \E w \in Workers :
    /\ run[w].phase = "completing" /\ run'[w] = Idle
    /\ run[w].attempt = job.attempts /\ run[w].at <= job.lease
    /\ job.state = "in_flight" /\ job'.state = "scheduled"
    /\ job'.attempts = job.attempts

(* These are all the changes of the row.                                   *)
LEMMA RowSteps ==
  ASSUME Inv, [Next]_vars
  PROVE  RowKept \/ RowScheduled \/ RowEscalated \/ RowClaimed \/ RowCompleted
<1>d. DOMAIN job = {"state", "deadline", "next_poll", "failures", "attempts",
                    "lease", "expired_at", "escalated_at", "reason"}
  BY DEF Inv, Shapes, NoJob
<1>1. ASSUME NEW d \in Deadlines, NEW n \in FirstPolls, Schedule(d, n)
      PROVE  RowScheduled
  BY <1>1 DEF Schedule, RowScheduled
<1>2. ASSUME NEW r \in Reasons, Escalate(r)
      PROVE  RowEscalated
  BY <1>2, <1>d DEF Escalate, RowEscalated
<1>3. ASSUME NEW w \in Workers, Claim(w) \/ ExpireJob(w)
      PROVE  RowKept \/ RowClaimed
  <2>1. CASE ClaimRefused(w)
    BY <2>1 DEF ClaimRefused, RowKept
  <2>2. CASE ClaimExpired(w)
    BY <2>2, <1>d DEF ClaimExpired, ClaimExpires, ClaimIdle, Expire, RowClaimed
  <2>3. CASE ClaimGranted(w)
    BY <2>3, <1>d DEF ClaimGranted, ClaimGrants, ClaimIdle, Grant, RowClaimed
  <2> QED
    BY <1>3, <2>1, <2>2, <2>3 DEF Claim, ExpireJob
<1>4. ASSUME NEW w \in Workers, Complete(w)
      PROVE  RowKept \/ RowCompleted
  <2>1. CASE UNCHANGED job
    BY <2>1 DEF RowKept
  <2>2. CASE /\ Fenced(run[w]) /\ CompletionValid(run[w])
             /\ job' = [job EXCEPT !.state = "scheduled", !.lease = None,
                                   !.next_poll = run[w].next_poll,
                                   !.failures = run[w].failures]
             /\ run' = Overtaken([run EXCEPT ![w] = Idle])
    <3>1. run'[w] = [Idle EXCEPT !.fresh = FALSE]
      BY <2>2 DEF Overtaken, Inv, Shapes
    <3>2. run'[w] = Idle
      BY ZenonT(60), <3>1 DEF Idle
    <3>3. job'.state = "scheduled" /\ job'.attempts = job.attempts
      BY <2>2, <1>d
    <3> QED
      BY <1>4, <2>2, <3>2, <3>3
         DEF Complete, Fenced, CompletionValid, RowCompleted
  <2> QED
    BY <1>4, <2>1, <2>2 DEF Complete
<1>5. ASSUME NEW w \in Workers,
             \/ Begin(w) \/ Proceed(w) \/ RequestFails(w)
             \/ (\E page \in Pages : Respond(w, page)) \/ Crash(w)
      PROVE  RowKept \/ RowClaimed \/ RowCompleted
  <2>1. Apply(w) => RowKept
    BY DEF Apply, RowKept
  <2> QED
    BY <1>3, <1>4, <1>5, <2>1, PollStepsUnchanged DEF Proceed, RowKept
<1>6. OtherWrite \/ Tick \/ UNCHANGED vars => RowKept
  BY DEF OtherWrite, Tick, vars, RowKept
<1> QED
  BY <1>1, <1>2, <1>5, <1>6 DEF Next

(* The life of a job, for every configuration: expired jobs only go to an  *)
(* operator, escalated ones never change, attempts never go back, and      *)
(* completeEvidencePollJob is fenced: a job in flight is rescheduled only  *)
(* by the call that holds its current token, and only with a sample not    *)
(* past the lease.                                                         *)
THEOREM JobAlwaysAdvances == Spec => JobOnlyAdvances
<1> DEFINE Advances ==
             job # NoJob =>
               /\ job'.attempts \in {job.attempts, job.attempts + 1}
               /\ job.state = "expired" => job'.state \in Terminal
               /\ job.state = "escalated" => job' = job
           IsFenced ==
             job.state = "in_flight" /\ job'.state = "scheduled" =>
               \E w \in Workers :
                 /\ run[w].phase = "completing" /\ run'[w] = Idle
                 /\ run[w].attempt = job.attempts
                 /\ run[w].at <= job.lease
<1>1. Inv /\ [Next]_vars => [Advances]_vars
  BY RowSteps DEF RowKept, RowScheduled, RowEscalated, RowClaimed,
                  RowCompleted, Terminal
<1>2. Inv /\ [Next]_vars => [IsFenced]_vars
  <2>1. NoJob.state = "none"
    BY DEF NoJob
  <2> QED
    BY RowSteps, <2>1 DEF RowKept, RowScheduled, RowEscalated, RowClaimed,
                          RowCompleted
<1>3. Inv /\ [Next]_vars => [Advances /\ IsFenced]_vars
  BY <1>1, <1>2
<1> QED
  BY InvInit, InvStep, <1>3, PTL DEF Spec, JobOnlyAdvances

=============================================================================
