----------------------------- MODULE PeerRoutes -----------------------------
(***************************************************************************)
(* Peer checkpoint fanout of the Node runtime: PeerCheckpointDispatcher on *)
(* PeerRouteSqliteStore, with the MoonBit peer transport policy.           *)
(*                                                                         *)
(* One process runs any number of dispatch() calls.  JavaScript runs to    *)
(* the next await, so the part of dispatch() before the sends is one       *)
(* action, and the loop that persists the attempts is not interleaved with *)
(* other calls; it is one transaction per attempt, and the process may     *)
(* crash between two of them.                                              *)
(*                                                                         *)
(* Abstracted: endpoints (fixed for a peer), the column `available` (1 in  *)
(* every row, no transition clears it), envelopes and signatures (a        *)
(* response is authenticated or a failure).                                *)
(***************************************************************************)
EXTENDS Integers, FiniteSets

CONSTANTS
  Peers,           \* peer ids, numbers so that they are ordered
  Digests,         \* checkpoint digests a peer may answer with
  Deliveries,      \* checkpoint digests dispatch() is called with
  Dispatches,      \* concurrent dispatch() calls
  Idle,            \* a dispatch slot with no call, and no persisting loop
  NoLease,         \* NULL in the lease columns
  MaxInFlight,     \* configuration.max_in_flight
  MaxParallel,     \* configuration.max_parallel
  LeaseDuration,   \* configuration.lease_duration_ms
  BaseBackoff,     \* configuration.base_backoff_ms
  MaxBackoff,      \* configuration.max_backoff_ms
  LastAttempt,     \* the largest attempt order, 2147483647 in the code
  MaxInt,          \* the largest time and failure count, 2147483647 as well
  MaxTime          \* bound on the clock

(* validConfiguration() and the schema.                                    *)
ASSUME ConfigurationAssumption ==
  /\ Peers \subseteq Nat /\ IsFiniteSet(Peers)
  /\ Deliveries \subseteq Digests
  /\ {MaxInFlight, MaxParallel, LeaseDuration, BaseBackoff, MaxBackoff,
      LastAttempt, MaxInt} \subseteq Nat \ {0}
  /\ MaxBackoff >= BaseBackoff
  /\ MaxTime \in Nat
  /\ NoLease \notin Nat
  /\ Idle \notin Dispatches

VARIABLES
  routes,             \* player_local_peer_routes: peer to row
  next_attempt_order, \* player_local_peer_attempt_clock
  fork_evidence,      \* player_local_peer_fork_evidence
  dispatch,           \* the calls in progress
  persisting,         \* the call whose persist loop is running
  running,            \* the process is up and has opened the store
  now                 \* the clock the callers read

tables == <<routes, next_attempt_order, fork_evidence>>
vars == <<tables, dispatch, persisting, running, now>>

Configured == DOMAIN routes

Rows ==
  [quarantined: BOOLEAN, failures: Nat, next_retry_at: Nat,
   last_attempt_order: Nat, lease_expires_at: Nat \cup {NoLease},
   lease_attempt_order: Nat \cup {NoLease}]

Results ==
  [kind: {"failure"}, digest: {NoLease}, received_at: Nat]
    \cup [kind: {"response"}, digest: Digests, received_at: Nat]

Evidence ==
  [peer: Peers, expected: Digests, conflicting: Digests, received_at: Nat]

-----------------------------------------------------------------------------
(* createSchema(): an empty route table and a clock at 1.                  *)
Init ==
  /\ routes = [p \in {} |-> NoLease]
  /\ next_attempt_order = 1
  /\ fork_evidence = {}
  /\ dispatch = [d \in Dispatches |-> Idle]
  /\ persisting = Idle
  /\ running = TRUE
  /\ now = 0

(* JavaScript runs one call at a time.                                     *)
Scheduled == running /\ persisting = Idle

(* configureRoutes(): rows that exist stay as they are.                    *)
(* Faulty variant: a row is inserted without its retry time.               *)
FreshRowWithoutRetry ==
  [quarantined |-> FALSE, failures |-> 0, next_retry_at |-> NoLease,
   last_attempt_order |-> 0, lease_expires_at |-> NoLease,
   lease_attempt_order |-> NoLease]

FreshRow ==
  [quarantined |-> FALSE, failures |-> 0, next_retry_at |-> 0,
   last_attempt_order |-> 0, lease_expires_at |-> NoLease,
   lease_attempt_order |-> NoLease]

ConfigureRoutes(P) ==
  /\ Scheduled
  /\ P # {}
  /\ routes' = [p \in Configured \cup P |->
                  IF p \in Configured THEN routes[p] ELSE FreshRow]
  /\ UNCHANGED <<next_attempt_order, fork_evidence, dispatch, persisting,
                 running, now>>

-----------------------------------------------------------------------------
LeaseFree(p) ==
  routes[p].lease_expires_at = NoLease \/ routes[p].lease_expires_at <= now

ActiveLeases == {p \in Configured : ~LeaseFree(p)}

Eligible ==
  {p \in Configured :
     LeaseFree(p) /\ ~routes[p].quarantined /\ routes[p].next_retry_at <= now}

(* peer_route_precedes(): least recently attempted first.                  *)
Precedes(p, q) ==
  LET a == routes[p]
      b == routes[q]
  IN \/ a.last_attempt_order < b.last_attempt_order
     \/ /\ a.last_attempt_order = b.last_attempt_order
        /\ \/ a.failures < b.failures
           \/ a.failures = b.failures /\ p < q

(* The place of p in the sorted array of eligible routes.                  *)
Rank(p) == Cardinality({q \in Eligible : Precedes(q, p)})

(* Faulty variant: leases in flight do not reduce the window.              *)
WindowIgnoringLeases == MaxInFlight

Window == MaxInFlight - Cardinality(ActiveLeases)

(* Faulty variant: one attempt too many.                                   *)
OrderInRangeInclusive(order) == order <= LastAttempt + 1

(* claimRoutes() stops when the attempt order would leave its range.       *)
OrderInRange(order) == order <= LastAttempt

(* select_peer_delivery_batch(): a prefix of the sorted eligible routes.   *)
Selected ==
  {p \in Eligible :
     /\ Rank(p) < Window
     /\ Rank(p) < MaxParallel
     /\ OrderInRange(next_attempt_order + Rank(p))}

Leased(row, expires_at, order) ==
  [quarantined |-> row.quarantined, failures |-> row.failures,
   next_retry_at |-> row.next_retry_at,
   last_attempt_order |-> row.last_attempt_order,
   lease_expires_at |-> expires_at, lease_attempt_order |-> order]

(* dispatch() up to the sends: select, then lease the selected routes and  *)
(* number the attempts in one transaction.  A clock at which the times of  *)
(* arrival would leave their range is refused.                             *)
Dispatch(d, expected) ==
  /\ Scheduled
  /\ dispatch[d] = Idle
  /\ now <= MaxInt - MaxParallel
  /\ Selected # {}
  /\ LET order == [p \in Selected |-> next_attempt_order + Rank(p)]
     IN /\ routes' = [p \in Configured |->
             IF p \in Selected
             THEN Leased(routes[p], now + LeaseDuration, order[p])
             ELSE routes[p]]
        /\ dispatch' = [dispatch EXCEPT ![d] =
             [started_at |-> now, expected |-> expected,
              claims |-> [p \in Selected |->
                [route |-> routes[p], attempt_order |-> order[p],
                 lease_expires_at |-> now + LeaseDuration]],
              results |-> [p \in {} |-> NoLease],
              left |-> Selected]]
  /\ next_attempt_order' = next_attempt_order + Cardinality(Selected)
  /\ UNCHANGED <<fork_evidence, persisting, running, now>>

(* A send settles: an authenticated response, or a failure (timeout,       *)
(* refusal, oversize, not authenticated).  Settling order is recorded in   *)
(* received_at.                                                            *)
Settle(d, p, kind, digest) ==
  LET call == dispatch[d]
      received_at == call.started_at + Cardinality(DOMAIN call.results)
  IN /\ Scheduled
     /\ call # Idle
     /\ p \in DOMAIN call.claims \ DOMAIN call.results
     /\ dispatch' = [dispatch EXCEPT ![d].results =
          [q \in DOMAIN call.results \cup {p} |->
             IF q = p THEN [kind |-> kind, digest |-> digest,
                            received_at |-> received_at]
             ELSE call.results[q]]]
     /\ UNCHANGED <<tables, persisting, running, now>>

-----------------------------------------------------------------------------
(* bounded_exponential_backoff(), by the number of earlier failures.       *)
Backoff[n \in Nat] ==
  IF n = 0 THEN BaseBackoff
  ELSE IF Backoff[n - 1] > MaxBackoff \div 2 THEN MaxBackoff
       ELSE 2 * Backoff[n - 1]

(* record_peer_delivery_failure() refuses a retry time that wraps around   *)
(* and a failure count that has no successor.                              *)
FailureRefused(claim, started_at) ==
  \/ started_at + Backoff[claim.route.failures] > MaxInt
  \/ claim.route.failures = MaxInt

(* record_peer_delivery_success(), record_peer_delivery_failure() and the  *)
(* columns updateClaimedRoute() clears.                                    *)
SettledRow(claim, authenticated, quarantine, started_at) ==
  [quarantined |-> quarantine,
   failures |-> IF authenticated THEN 0 ELSE claim.route.failures + 1,
   next_retry_at |-> IF authenticated THEN 0
                     ELSE started_at + Backoff[claim.route.failures],
   last_attempt_order |-> claim.attempt_order,
   lease_expires_at |-> NoLease, lease_attempt_order |-> NoLease]

(* Faulty variant: any claim of the route may complete it.                 *)
HoldsSomeLease(p, claim) == TRUE

(* The WHERE clause of updateClaimedRoute(): the claim still has the lease. *)
HoldsLease(p, claim) ==
  /\ routes[p].lease_expires_at = claim.lease_expires_at
  /\ routes[p].lease_attempt_order = claim.attempt_order

UpdateClaimedRoute(p, row, claim) ==
  routes' = IF HoldsLease(p, claim) THEN [routes EXCEPT ![p] = row] ELSE routes

(* recordFork(): evidence already stored for the same two digests must be  *)
(* the same response; otherwise the transaction changes nothing.           *)
KnownEvidence(e) ==
  {f \in fork_evidence :
     f.peer = e.peer /\ f.expected = e.expected /\ f.conflicting = e.conflicting}

(* persistAttempt() of the next attempt.  An update the policy refuses and *)
(* a transaction that reports no changed route make the loop throw, and    *)
(* with it the call: the leases of the attempts that are left expire.      *)
PersistAttempt(d) ==
  LET call == dispatch[d]
  IN /\ running
     /\ persisting \in {Idle, d}
     /\ call # Idle
     /\ DOMAIN call.results = DOMAIN call.claims
     /\ \E p \in call.left :
          LET claim == call.claims[p]
              result == call.results[p]
              authenticated == result.kind = "response"
              isFork == authenticated /\ result.digest # call.expected
              evidence == [peer |-> p, expected |-> call.expected,
                           conflicting |-> result.digest,
                           received_at |-> result.received_at]
              refused == IF authenticated
                         THEN isFork /\ ~(KnownEvidence(evidence) \subseteq {evidence})
                         ELSE FailureRefused(claim, call.started_at)
              committed == ~refused /\ HoldsLease(p, claim)
              last == call.left = {p} \/ ~committed
          IN /\ \A q \in call.left :
                  claim.attempt_order <= call.claims[q].attempt_order
             /\ IF refused THEN UNCHANGED <<routes, fork_evidence>>
                ELSE /\ UpdateClaimedRoute(
                          p, SettledRow(claim, authenticated, isFork,
                                        call.started_at), claim)
                     /\ fork_evidence' = fork_evidence \cup
                          (IF isFork THEN {evidence} ELSE {})
             /\ dispatch' = [dispatch EXCEPT ![d] =
                  IF last THEN Idle ELSE [call EXCEPT !.left = @ \ {p}]]
             /\ persisting' = IF last THEN Idle ELSE d
     /\ UNCHANGED <<next_attempt_order, running, now>>

-----------------------------------------------------------------------------
(* assertValidImage(), which open() runs.  The quarantine relation is      *)
(* apart.                                                                  *)
OrdersValid ==
  /\ next_attempt_order \in 1..(LastAttempt + 1)
  /\ \A p \in Configured :
       LET row == routes[p]
       IN /\ row.last_attempt_order < next_attempt_order
          /\ (row.lease_attempt_order = NoLease) <=> (row.lease_expires_at = NoLease)
          /\ row.lease_attempt_order # NoLease =>
               /\ row.lease_attempt_order > row.last_attempt_order
               /\ row.lease_attempt_order < next_attempt_order

ForkPeers == {e.peer : e \in fork_evidence}

QuarantineValid ==
  \A p \in Configured : routes[p].quarantined <=> p \in ForkPeers

Crash ==
  /\ running
  /\ running' = FALSE
  /\ dispatch' = [d \in Dispatches |-> Idle]
  /\ persisting' = Idle
  /\ UNCHANGED <<tables, now>>

Open ==
  /\ ~running
  /\ OrdersValid /\ QuarantineValid
  /\ running' = TRUE
  /\ UNCHANGED <<tables, dispatch, persisting, now>>

Tick ==
  /\ now < MaxTime
  /\ persisting = Idle
  /\ now' = now + 1
  /\ UNCHANGED <<tables, dispatch, persisting, running>>

Next ==
  \/ \E P \in SUBSET Peers : ConfigureRoutes(P)
  \/ \E d \in Dispatches :
       \/ \E g \in Deliveries : Dispatch(d, g)
       \/ \E p \in Peers :
            \/ Settle(d, p, "failure", NoLease)
            \/ \E g \in Digests : Settle(d, p, "response", g)
       \/ PersistAttempt(d)
  \/ Crash
  \/ Open
  \/ Tick

Spec == Init /\ [][Next]_vars

-----------------------------------------------------------------------------
(* The rows have the types of the schema.                                  *)
TypeOK ==
  /\ Configured \subseteq Peers
  /\ routes \in [Configured -> Rows]
  /\ next_attempt_order \in Nat
  /\ fork_evidence \subseteq Evidence
  /\ persisting \in Dispatches \cup {Idle}
  /\ running \in BOOLEAN
  /\ now \in Nat

(* dispatch() never has more than max_in_flight live leases, counting the  *)
(* leases of calls that crashed or hang: select_peer_delivery_batch() is   *)
(* never refused for a window that is exceeded.                            *)
InFlightBounded == Cardinality(ActiveLeases) <= MaxInFlight

(* The attempt orders in the rows stay below the clock and ahead of the    *)
(* last completed attempt, through late completions and restarts, and no   *)
(* two routes are leased for the same attempt.                             *)
AttemptsNumbered ==
  /\ OrdersValid
  /\ \A p, q \in Configured :
       /\ p # q
       /\ routes[p].lease_attempt_order # NoLease
       => routes[p].lease_attempt_order # routes[q].lease_attempt_order

(* The table can be read and dispatched from after any crash and any late  *)
(* result: its rows are well-formed, the window holds and the attempts are *)
(* numbered (assertValidImage, select_peer_delivery_batch).                *)
RoutesAreUsable == TypeOK /\ InFlightBounded /\ AttemptsNumbered

(* A route only advances, through late results, crashes and restarts: a    *)
(* late result never replaces that of a newer attempt, a route is          *)
(* quarantined only with durable evidence and then for good, and evidence  *)
(* is never overwritten.                                                   *)
RoutesOnlyAdvance ==
  [][/\ fork_evidence \subseteq fork_evidence'
     /\ \A p \in Configured :
          /\ routes'[p].last_attempt_order >= routes[p].last_attempt_order
          /\ routes[p].quarantined => routes'[p].quarantined
     /\ \A p \in DOMAIN routes' :
          routes'[p].quarantined => p \in ForkPeers']_vars

(* An authenticated response with another digest is stored and, in the     *)
(* same transaction, its route is quarantined.                             *)
ForkEvidenceQuarantines ==
  \A p \in Configured : p \in ForkPeers => routes[p].quarantined
=============================================================================
