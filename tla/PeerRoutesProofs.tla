-------------------------- MODULE PeerRoutesProofs --------------------------
(***************************************************************************)
(* The peer fanout, for any peers, dispatches, window, leases and clock:   *)
(* attempts are numbered, the window holds, and a route only advances.     *)
(***************************************************************************)
EXTENDS PeerRoutes, FiniteSetTheorems, TLAPS

(* The columns the proofs use.  A retry time rests on what the recursive   *)
(* back-off computes and is left out.                                      *)
RowKept(row) ==
  /\ row.quarantined \in BOOLEAN
  /\ row.failures \in Nat
  /\ row.last_attempt_order \in Nat
  /\ row.lease_expires_at \in Nat \cup {NoLease}
  /\ row.lease_attempt_order \in Nat \cup {NoLease}
  /\ row.last_attempt_order < next_attempt_order
  /\ (row.lease_attempt_order = NoLease) <=> (row.lease_expires_at = NoLease)
  /\ row.lease_attempt_order # NoLease =>
       /\ row.lease_attempt_order > row.last_attempt_order
       /\ row.lease_attempt_order < next_attempt_order
       /\ ~row.quarantined

RowsKept ==
  /\ routes = [p \in Configured |-> routes[p]]
  /\ Configured \subseteq Peers
  /\ next_attempt_order \in 1..(LastAttempt + 1)
  /\ now \in Nat
  /\ \A p \in Configured : RowKept(routes[p])
  /\ \A p \in Configured : routes[p].quarantined => p \in ForkPeers

(* No two routes are leased for the same attempt.                          *)
LeasesDistinct ==
  \A p, q \in Configured :
    p # q /\ routes[p].lease_attempt_order # NoLease
      => routes[p].lease_attempt_order # routes[q].lease_attempt_order

(* What a call in progress remembers of the routes it claimed.             *)
CallKept(call) ==
  /\ call = [started_at |-> call.started_at, expected |-> call.expected,
             claims |-> call.claims, results |-> call.results, left |-> call.left]
  /\ call.left \subseteq DOMAIN call.claims
  /\ \A p \in DOMAIN call.claims :
       call.claims[p].attempt_order \in Nat /\ call.claims[p].route.failures \in Nat

CallsKept ==
  /\ dispatch = [d \in Dispatches |-> dispatch[d]]
  /\ \A d \in Dispatches : dispatch[d] # Idle => CallKept(dispatch[d])

Inv == RowsKept /\ LeasesDistinct /\ CallsKept /\ InFlightBounded

-----------------------------------------------------------------------------
LEMMA ConfiguredFinite ==
  ASSUME RowsKept
  PROVE  /\ IsFiniteSet(Configured) /\ IsFiniteSet(Eligible)
         /\ IsFiniteSet(ActiveLeases) /\ IsFiniteSet(Selected)
<1>1. IsFiniteSet(Peers) /\ Configured \subseteq Peers
  BY ConfigurationAssumption DEF RowsKept
<1>2. IsFiniteSet(Configured)
  BY <1>1, FS_Subset
<1>3. /\ Eligible \subseteq Configured /\ ActiveLeases \subseteq Configured
      /\ Selected \subseteq Configured
  BY DEF Eligible, ActiveLeases, Selected
<1> QED
  BY <1>2, <1>3, FS_Subset

(* peer_route_precedes() is a strict total order.                          *)
LEMMA PrecedesOrders ==
  ASSUME RowsKept
  PROVE  /\ \A p \in Configured : ~Precedes(p, p)
         /\ \A p, q \in Configured : p # q => Precedes(p, q) \/ Precedes(q, p)
         /\ \A p, q, r \in Configured : Precedes(p, q) /\ Precedes(q, r) => Precedes(p, r)
<1>1. \A p \in Configured : /\ p \in Nat
                            /\ routes[p].last_attempt_order \in Nat
                            /\ routes[p].failures \in Nat
  BY ConfigurationAssumption DEF RowsKept, RowKept
<1> QED
  BY <1>1 DEF Precedes

(* The place of a route in the sorted array: earlier routes have smaller   *)
(* places, and no two the same.                                            *)
LEMMA RankOrders ==
  ASSUME RowsKept
  PROVE  /\ \A p \in Eligible : Rank(p) \in Nat
         /\ \A p, q \in Eligible : Precedes(q, p) => Rank(q) < Rank(p)
         /\ \A p, q \in Eligible : p # q => Rank(p) # Rank(q)
<1> DEFINE Before(p) == {q \in Eligible : Precedes(q, p)}
<1>1. Eligible \subseteq Configured
  BY DEF Eligible
<1>2. \A p \in Eligible : IsFiniteSet(Before(p)) /\ Rank(p) = Cardinality(Before(p))
  BY ConfiguredFinite, FS_Subset DEF Rank
<1>3. \A p \in Eligible : Rank(p) \in Nat
  BY ZenonT(60), <1>2, FS_CardinalityType
<1>4. ASSUME NEW p \in Eligible, NEW q \in Eligible, Precedes(q, p)
      PROVE  Rank(q) < Rank(p)
  <2>1. Before(q) \subseteq Before(p)
    BY <1>1, <1>4, PrecedesOrders
  <2>2. q \in Before(p) /\ q \notin Before(q)
    BY <1>1, <1>4, PrecedesOrders
  <2> HIDE DEF Before
  <2>3. /\ Cardinality(Before(q)) <= Cardinality(Before(p))
        /\ Cardinality(Before(q)) # Cardinality(Before(p))
    BY <1>2, <2>1, <2>2, FS_Subset
  <2> QED
    BY <1>2, <1>3, <2>3
<1> HIDE DEF Before
<1>5. \A p, q \in Eligible : p # q => Rank(p) # Rank(q)
  BY <1>1, <1>3, <1>4, PrecedesOrders
<1> QED
  BY <1>3, <1>4, <1>5

(* select_peer_delivery_batch() takes a prefix of the array, as long as    *)
(* the window and the numbers left allow.                                  *)
LEMMA SelectedIsPrefix ==
  ASSUME RowsKept, InFlightBounded
  PROVE  /\ Cardinality(Selected) \in Nat
         /\ Cardinality(Selected) <= Window
         /\ next_attempt_order + Cardinality(Selected) \in 1..(LastAttempt + 1)
         /\ \A p \in Selected : Rank(p) \in Nat /\ Rank(p) < Cardinality(Selected)
<1>1. Selected \subseteq Eligible /\ Eligible \subseteq Configured
  BY DEF Selected, Eligible
<1>2. Window \in Nat
  BY ConfiguredFinite, FS_CardinalityType, ConfigurationAssumption DEF Window, InFlightBounded
<1>3. Cardinality(Selected) \in Nat /\ IsFiniteSet(Selected)
  BY ConfiguredFinite, FS_CardinalityType
<1>4. ASSUME NEW n \in Nat, \A p \in Selected : Rank(p) < n
      PROVE  Cardinality(Selected) <= n
  <2> DEFINE f == [p \in Selected |-> Rank(p)]
  <2>1. f \in [Selected -> 0..(n - 1)]
    BY <1>1, <1>4, RankOrders
  <2>2. \A p, q \in Selected : f[p] = f[q] => p = q
    BY <1>1, RankOrders
  <2>3. f \in Injection(Selected, 0..(n - 1))
    BY <2>1, <2>2 DEF Injection, IsInjective
  <2>4. IsFiniteSet(0..(n - 1)) /\ Cardinality(0..(n - 1)) = n
    BY <1>4, FS_Interval
  <2> HIDE DEF f
  <2> QED
    BY <2>3, <2>4, FS_Injection
<1>5. Cardinality(Selected) <= Window
  BY <1>2, <1>4 DEF Selected
<1>6. next_attempt_order + Cardinality(Selected) \in 1..(LastAttempt + 1)
  <2> DEFINE left == LastAttempt + 1 - next_attempt_order
  <2>1. /\ left \in Nat /\ LastAttempt \in Nat
        /\ next_attempt_order \in Nat /\ next_attempt_order >= 1
    BY ConfigurationAssumption DEF RowsKept
  <2>2. \A p \in Selected : Rank(p) < left
    BY <1>1, <2>1, RankOrders DEF Selected, OrderInRange
  <2>3. Cardinality(Selected) <= left
    BY <1>4, <2>1, <2>2
  <2> QED
    BY <1>3, <2>1, <2>3
<1>7. ASSUME NEW p \in Selected
      PROVE  Rank(p) \in Nat /\ Rank(p) < Cardinality(Selected)
  <2> DEFINE before == {q \in Eligible : Precedes(q, p)}
  <2>1. before \subseteq Selected
    <3> SUFFICES ASSUME NEW q \in Eligible, Precedes(q, p)
                 PROVE  q \in Selected
      OBVIOUS
    <3>1. Rank(q) < Rank(p) /\ Rank(q) \in Nat /\ Rank(p) \in Nat
      BY <1>1, RankOrders
    <3>2. next_attempt_order \in Nat /\ LastAttempt \in Nat /\ MaxParallel \in Nat
      BY ConfigurationAssumption DEF RowsKept
    <3> QED
      BY <1>2, <3>1, <3>2 DEF Selected, OrderInRange
  <2>2. p \notin before
    BY <1>1, PrecedesOrders
  <2>3. Rank(p) = Cardinality(before)
    BY DEF Rank
  <2> HIDE DEF before
  <2>4. /\ Cardinality(before) <= Cardinality(Selected)
        /\ Cardinality(before) # Cardinality(Selected)
    BY <1>3, <2>1, <2>2, FS_Subset
  <2> QED
    BY <1>1, <1>3, <2>3, <2>4, RankOrders
<1> QED
  BY <1>3, <1>5, <1>6, <1>7

-----------------------------------------------------------------------------
LEMMA InvInit == Init => Inv
<1> SUFFICES ASSUME Init PROVE Inv
  OBVIOUS
<1>1. RowsKept /\ LeasesDistinct
  BY ConfigurationAssumption DEF Init, RowsKept, LeasesDistinct, Configured
<1>2. CallsKept
  BY DEF Init, CallsKept
<1>3. ActiveLeases = {}
  BY DEF Init, ActiveLeases, Configured
<1>4. InFlightBounded
  BY <1>3, FS_EmptySet, ConfigurationAssumption DEF InFlightBounded
<1> QED
  BY <1>1, <1>2, <1>4 DEF Inv

(* What a step does to the routes: what RoutesOnlyAdvance asks of it.      *)
Advance ==
  /\ fork_evidence \subseteq fork_evidence'
  /\ \A p \in Configured :
       /\ routes'[p].last_attempt_order >= routes[p].last_attempt_order
       /\ routes[p].quarantined => routes'[p].quarantined
  /\ \A p \in DOMAIN routes' : routes'[p].quarantined => p \in ForkPeers'

(* A step that leaves the tables alone, at any later time.                 *)
LEMMA TablesUnchanged ==
  ASSUME Inv, UNCHANGED tables, CallsKept', now' \in Nat, now' >= now
  PROVE  Inv' /\ Advance
<1>1. RowsKept' /\ LeasesDistinct'
  BY DEF Inv, RowsKept, RowKept, LeasesDistinct, Configured, ForkPeers, tables
<1>2. ActiveLeases' \subseteq ActiveLeases
  BY DEF Inv, RowsKept, RowKept, ActiveLeases, LeaseFree, Configured, tables
<1>3. InFlightBounded'
  <2>1. IsFiniteSet(ActiveLeases)
    BY ConfiguredFinite DEF Inv
  <2>2. Cardinality(ActiveLeases') <= Cardinality(ActiveLeases)
    BY <1>2, <2>1, FS_Subset
  <2>3. Cardinality(ActiveLeases') \in Nat /\ Cardinality(ActiveLeases) \in Nat
    BY <1>2, <2>1, FS_Subset, FS_CardinalityType
  <2> QED
    BY <2>2, <2>3, ConfigurationAssumption DEF Inv, InFlightBounded
<1>4. Advance
  BY DEF Inv, RowsKept, RowKept, Advance, ForkPeers, Configured, tables
<1> QED
  BY <1>1, <1>3, <1>4 DEF Inv

(* configureRoutes() adds rows without a lease.                            *)
LEMMA ConfigureKeeps ==
  ASSUME Inv, NEW P \in SUBSET Peers, ConfigureRoutes(P)
  PROVE  Inv' /\ Advance
<1>1. /\ DOMAIN routes' = Configured \cup P
      /\ \A p \in Configured : routes'[p] = routes[p]
      /\ \A p \in P \ Configured : routes'[p] = FreshRow
      /\ UNCHANGED <<next_attempt_order, fork_evidence, dispatch, now>>
  BY DEF ConfigureRoutes
<1>2. routes' = [p \in DOMAIN routes' |-> routes'[p]]
  BY DEF ConfigureRoutes
<1>3. RowsKept'
  <2>1. \A p \in Configured : RowKept(routes[p])'
    BY <1>1 DEF Inv, RowsKept, RowKept
  <2>2. \A p \in P \ Configured : RowKept(routes[p])' /\ ~routes'[p].quarantined
    <3> SUFFICES ASSUME NEW p \in P \ Configured
                 PROVE  RowKept(routes[p])' /\ ~routes'[p].quarantined
      OBVIOUS
    <3>1. routes'[p] = FreshRow
      BY <1>1
    <3>2. next_attempt_order' \in Nat /\ next_attempt_order' >= 1
      BY <1>1, ConfigurationAssumption DEF Inv, RowsKept
    <3> QED
      BY <3>1, <3>2 DEF RowKept, FreshRow
  <2>3. ForkPeers' = ForkPeers
    BY <1>1 DEF ForkPeers
  <2> QED
    BY <1>1, <1>2, <2>1, <2>2, <2>3 DEF Inv, RowsKept, Configured
<1>4. LeasesDistinct'
  BY <1>1 DEF Inv, LeasesDistinct, FreshRow, Configured
<1>5. CallsKept'
  BY <1>1 DEF Inv, CallsKept, CallKept
<1>6. ActiveLeases' = ActiveLeases
  BY <1>1 DEF ActiveLeases, LeaseFree, FreshRow, Configured
<1>7. Advance
  BY <1>1, <1>3 DEF Inv, Advance, RowsKept, RowKept, Configured
<1> QED
  BY <1>1, <1>3, <1>4, <1>5, <1>6, <1>7 DEF Inv, InFlightBounded

(* dispatch() up to the sends.                                             *)
LEMMA DispatchKeeps ==
  ASSUME Inv, NEW d \in Dispatches, NEW expected \in Deliveries, Dispatch(d, expected)
  PROVE  Inv' /\ Advance
<1> DEFINE order(p) == next_attempt_order + Rank(p)
           until == now + LeaseDuration
<1>1. /\ DOMAIN routes' = Configured
      /\ \A p \in Selected : routes'[p] = Leased(routes[p], until, order(p))
      /\ \A p \in Configured \ Selected : routes'[p] = routes[p]
      /\ next_attempt_order' = next_attempt_order + Cardinality(Selected)
      /\ UNCHANGED <<fork_evidence, now>>
  BY DEF Dispatch, Selected, Eligible
<1>2. routes' = [p \in DOMAIN routes' |-> routes'[p]]
  BY DEF Dispatch
<1>3. /\ Selected \subseteq Configured
      /\ \A p \in Selected : ~routes[p].quarantined /\ LeaseFree(p)
  BY DEF Selected, Eligible
<1>4. /\ Cardinality(Selected) \in Nat /\ next_attempt_order \in Nat
      /\ next_attempt_order' \in 1..(LastAttempt + 1)
      /\ \A p \in Selected : /\ order(p) \in Nat /\ order(p) >= next_attempt_order
                             /\ order(p) < next_attempt_order'
  BY <1>1, SelectedIsPrefix, ConfigurationAssumption DEF Inv, RowsKept
<1>5. until \in Nat /\ until > now /\ NoLease \notin Nat /\ now \in Nat
  BY ConfigurationAssumption DEF Inv, RowsKept
<1> HIDE DEF order, until
<1>6. ASSUME NEW p \in Selected
      PROVE  /\ routes'[p].quarantined = routes[p].quarantined
             /\ routes'[p].failures = routes[p].failures
             /\ routes'[p].last_attempt_order = routes[p].last_attempt_order
             /\ routes'[p].lease_expires_at = until
             /\ routes'[p].lease_attempt_order = order(p)
  <2>1. routes'[p] = Leased(routes[p], until, order(p))
    BY <1>1
  <2> QED
    BY <2>1 DEF Leased
<1>7. RowsKept'
  <2>1. ASSUME NEW p \in Selected PROVE RowKept(routes[p])' /\ ~routes'[p].quarantined
    <3>1. RowKept(routes[p])
      BY <1>3 DEF Inv, RowsKept
    <3> QED
      BY <1>3, <1>4, <1>5, <1>6, <3>1 DEF RowKept
  <2>2. ASSUME NEW p \in Configured \ Selected PROVE RowKept(routes[p])'
    <3>1. RowKept(routes[p])
      BY DEF Inv, RowsKept
    <3> QED
      BY <1>1, <1>4, <3>1 DEF RowKept
  <2>3. \A p \in Configured : routes'[p].quarantined => p \in ForkPeers'
    BY <1>1, <2>1 DEF Inv, RowsKept, ForkPeers
  <2> QED
    BY <1>1, <1>2, <1>4, <2>1, <2>2, <2>3 DEF Inv, RowsKept, Configured
<1>8. LeasesDistinct'
  <2>1. \A p, q \in Selected : p # q => order(p) # order(q)
    BY <1>4, RankOrders DEF Inv, order, Selected
  <2>2. \A p \in Configured \ Selected : routes[p].lease_attempt_order = NoLease
                                      \/ routes[p].lease_attempt_order < next_attempt_order
    BY DEF Inv, RowsKept, RowKept
  <2>3. \A p \in Configured : routes[p].lease_attempt_order \in Nat \cup {NoLease}
    BY DEF Inv, RowsKept, RowKept
  <2> QED
    BY <1>1, <1>3, <1>4, <1>5, <1>6, <2>1, <2>2, <2>3 DEF Inv, LeasesDistinct, Configured
<1>9. CallsKept'
  <2> DEFINE call == [started_at |-> now, expected |-> expected,
              claims |-> [p \in Selected |->
                [route |-> routes[p], attempt_order |-> order(p), lease_expires_at |-> until]],
              results |-> [p \in {} |-> NoLease], left |-> Selected]
  <2>1. dispatch' = [dispatch EXCEPT ![d] = call]
    BY ZenonT(60) DEF Dispatch, order, until
  <2>2. CallKept(call)
    BY <1>3, <1>4 DEF CallKept, Inv, RowsKept, RowKept
  <2> HIDE DEF call
  <2>3. \A e \in Dispatches : dispatch'[e] = IF e = d THEN call ELSE dispatch[e]
    BY <2>1 DEF Inv, CallsKept
  <2> QED
    BY <2>1, <2>2, <2>3 DEF Inv, CallsKept
<1>10. InFlightBounded'
  <2>1. ActiveLeases' \subseteq ActiveLeases \cup Selected
    BY <1>1 DEF ActiveLeases, LeaseFree, Configured
  <2>2. IsFiniteSet(ActiveLeases) /\ IsFiniteSet(Selected)
    BY ConfiguredFinite DEF Inv
  <2>3. ActiveLeases \cap Selected = {}
    BY <1>3 DEF ActiveLeases
  <2>4. /\ IsFiniteSet(ActiveLeases \cup Selected)
        /\ Cardinality(ActiveLeases \cup Selected) =
             Cardinality(ActiveLeases) + Cardinality(Selected)
    <3>1. /\ IsFiniteSet(ActiveLeases \cup Selected)
          /\ Cardinality(ActiveLeases \cup Selected) =
               Cardinality(ActiveLeases) + Cardinality(Selected)
                 - Cardinality(ActiveLeases \cap Selected)
      BY <2>2, FS_Union
    <3>2. Cardinality(ActiveLeases \cap Selected) = 0
      BY <2>3, FS_EmptySet
    <3>3. Cardinality(ActiveLeases) \in Nat /\ Cardinality(Selected) \in Nat
      BY <2>2, FS_CardinalityType
    <3> QED
      BY <3>1, <3>2, <3>3
  <2>5. /\ Cardinality(ActiveLeases') <= Cardinality(ActiveLeases \cup Selected)
        /\ Cardinality(ActiveLeases') \in Nat /\ Cardinality(ActiveLeases) \in Nat
    BY <2>1, <2>2, <2>4, FS_Subset, FS_CardinalityType
  <2>6. Cardinality(Selected) <= MaxInFlight - Cardinality(ActiveLeases) /\ MaxInFlight \in Nat
    BY SelectedIsPrefix, ConfigurationAssumption DEF Inv, Window
  <2> QED
    BY <1>4, <2>4, <2>5, <2>6 DEF InFlightBounded
<1>11. Advance
  <2>1. \A p \in Configured : routes'[p].last_attempt_order = routes[p].last_attempt_order
                           /\ routes'[p].quarantined = routes[p].quarantined
                           /\ routes[p].last_attempt_order \in Nat
    BY SMTT(60), <1>1, <1>6 DEF Inv, RowsKept, RowKept
  <2> QED
    BY <1>1, <1>7, <2>1 DEF Advance, RowsKept, Configured
<1> QED
  BY <1>7, <1>8, <1>9, <1>10, <1>11 DEF Inv

(* A send settles: only the call that made it changes.                     *)
LEMMA SettleKeeps ==
  ASSUME Inv, NEW d \in Dispatches, NEW p, NEW kind, NEW digest, Settle(d, p, kind, digest)
  PROVE  Inv' /\ Advance
<1> DEFINE call == dispatch[d]
<1>1. PICK results : dispatch' = [dispatch EXCEPT ![d].results = results]
  BY ZenonT(60) DEF Settle
<1>2. CallKept(call)
  BY DEF Settle, Inv, CallsKept
<1> DEFINE after == [started_at |-> call.started_at, expected |-> call.expected,
                     claims |-> call.claims, results |-> results, left |-> call.left]
<1>3. [call EXCEPT !.results = results] = after
  BY <1>2 DEF CallKept
<1>4. CallKept(after)
  BY <1>2 DEF CallKept
<1>5. \A e \in Dispatches : dispatch'[e] = IF e = d THEN after ELSE dispatch[e]
  BY <1>1, <1>3 DEF Inv, CallsKept
<1> HIDE DEF after
<1>6. CallsKept'
  <2>1. dispatch' = [e \in Dispatches |-> dispatch'[e]]
    BY <1>1 DEF Inv, CallsKept
  <2> QED
    BY <1>4, <1>5, <2>1 DEF Inv, CallsKept
<1>7. UNCHANGED tables /\ now' \in Nat /\ now' >= now
  BY DEF Settle, Inv, RowsKept
<1> QED
  BY <1>6, <1>7, TablesUnchanged

(* A row that is settled by the claim that holds its lease.                *)
LEMMA UpdateKeeps ==
  ASSUME Inv, NEW p, NEW claim, NEW row,
         claim.attempt_order \in Nat, HoldsLease(p, claim),
         row.quarantined \in BOOLEAN, row.failures \in Nat,
         row.last_attempt_order = claim.attempt_order,
         row.lease_expires_at = NoLease, row.lease_attempt_order = NoLease,
         routes' = [routes EXCEPT ![p] = row], fork_evidence \subseteq fork_evidence',
         row.quarantined => p \in ForkPeers',
         UNCHANGED <<next_attempt_order, now>>, CallsKept'
  PROVE  Inv' /\ Advance
<1>1. /\ DOMAIN routes' = Configured
      /\ routes' = [q \in DOMAIN routes' |-> routes'[q]]
      /\ \A q \in Configured : routes'[q] = IF q = p THEN row ELSE routes[q]
  BY DEF Inv, RowsKept
<1>2. ForkPeers \subseteq ForkPeers'
  BY DEF ForkPeers
<1>3. p \in Configured => /\ row.last_attempt_order > routes[p].last_attempt_order
                          /\ row.last_attempt_order < next_attempt_order
                          /\ ~routes[p].quarantined
  BY ConfigurationAssumption DEF Inv, RowsKept, RowKept, HoldsLease
<1>4. \A q \in Configured : RowKept(routes[q])'
  <2> SUFFICES ASSUME NEW q \in Configured PROVE RowKept(routes[q])'
    OBVIOUS
  <2>1. CASE q = p
    <3>1. routes'[q] = row
      BY <1>1, <2>1
    <3> QED
      BY <1>3, <2>1, <3>1 DEF RowKept
  <2>2. CASE q # p
    BY <1>1, <2>2 DEF Inv, RowsKept, RowKept
  <2> QED
    BY <2>1, <2>2
<1>5. RowsKept'
  BY <1>1, <1>2, <1>4 DEF Inv, RowsKept, Configured
<1>6. LeasesDistinct'
  BY <1>1 DEF Inv, LeasesDistinct, Configured
<1>7. InFlightBounded'
  <2>1. ActiveLeases' \subseteq ActiveLeases
    BY <1>1 DEF ActiveLeases, LeaseFree, Configured
  <2>2. IsFiniteSet(ActiveLeases)
    BY ConfiguredFinite DEF Inv
  <2>3. /\ Cardinality(ActiveLeases') <= Cardinality(ActiveLeases)
        /\ Cardinality(ActiveLeases') \in Nat /\ Cardinality(ActiveLeases) \in Nat
    BY <2>1, <2>2, FS_Subset, FS_CardinalityType
  <2> QED
    BY <2>3, ConfigurationAssumption DEF Inv, InFlightBounded
<1>8. Advance
  <2>1. \A q \in Configured : routes[q].last_attempt_order \in Nat
    BY DEF Inv, RowsKept, RowKept
  <2> QED
    BY <1>1, <1>3, <1>5, <2>1 DEF Advance, RowsKept, Configured
<1> QED
  BY <1>5, <1>6, <1>7, <1>8 DEF Inv

(* A transaction that stores evidence and changes no route.                *)
LEMMA EvidenceKeeps ==
  ASSUME Inv, routes' = routes, fork_evidence \subseteq fork_evidence',
         UNCHANGED <<next_attempt_order, now>>, CallsKept'
  PROVE  Inv' /\ Advance
<1>1. ForkPeers \subseteq ForkPeers'
  BY DEF ForkPeers
<1>2. RowsKept' /\ LeasesDistinct'
  BY <1>1 DEF Inv, RowsKept, RowKept, LeasesDistinct, Configured
<1>3. InFlightBounded'
  BY DEF Inv, InFlightBounded, ActiveLeases, LeaseFree, Configured
<1>4. Advance
  BY <1>1 DEF Inv, RowsKept, RowKept, Advance, Configured
<1> QED
  BY <1>2, <1>3, <1>4 DEF Inv

(* A call with one attempt less.                                           *)
LEMMA Remaining ==
  ASSUME NEW call, CallKept(call), NEW p
  PROVE  [call EXCEPT !.left = @ \ {p}] =
           [started_at |-> call.started_at, expected |-> call.expected,
            claims |-> call.claims, results |-> call.results, left |-> call.left \ {p}]
<1>1. ASSUME NEW left
      PROVE  [call EXCEPT !.left = left] =
               [started_at |-> call.started_at, expected |-> call.expected,
                claims |-> call.claims, results |-> call.results, left |-> left]
  BY DEF CallKept
<1>2. [call EXCEPT !.left = @ \ {p}] = [call EXCEPT !.left = call.left \ {p}]
  BY SMTT(60)
<1> QED
  BY <1>1, <1>2

(* persistAttempt(): the row changes only with the lease of the claim.     *)
LEMMA PersistKeeps ==
  ASSUME Inv, NEW d \in Dispatches, PersistAttempt(d)
  PROVE  Inv' /\ Advance
<1> DEFINE call == dispatch[d]
<1>1. CallKept(call)
  BY SMTT(60) DEF PersistAttempt, Inv, CallsKept
<1>2. PICK p \in call.left :
        LET claim == call.claims[p]
            result == call.results[p]
            authenticated == result.kind = "response"
            isFork == authenticated /\ result.digest # call.expected
            evidence == [peer |-> p, expected |-> call.expected,
                         conflicting |-> result.digest,
                         received_at |-> result.received_at]
            refused == IF authenticated
                       THEN isFork /\ ~(KnownEvidence(evidence) \subseteq {evidence})
                       ELSE FailureRefused(claim, call.started_at)
            committed == ~refused /\ HoldsLease(p, claim)
            last == call.left = {p} \/ ~committed
        IN /\ IF refused THEN UNCHANGED <<routes, fork_evidence>>
              ELSE /\ UpdateClaimedRoute(
                        p, SettledRow(claim, authenticated, isFork,
                                      call.started_at), claim)
                   /\ fork_evidence' = fork_evidence \cup
                        (IF isFork THEN {evidence} ELSE {})
           /\ dispatch' = [dispatch EXCEPT ![d] =
                IF last THEN Idle ELSE [call EXCEPT !.left = @ \ {p}]]
  BY ZenonT(60) DEF PersistAttempt
<1> DEFINE claim == call.claims[p]
           result == call.results[p]
           authenticated == result.kind = "response"
           isFork == authenticated /\ result.digest # call.expected
           evidence == [peer |-> p, expected |-> call.expected,
                        conflicting |-> result.digest,
                        received_at |-> result.received_at]
           row == SettledRow(claim, authenticated, isFork, call.started_at)
           after == [started_at |-> call.started_at, expected |-> call.expected,
                     claims |-> call.claims, results |-> call.results,
                     left |-> call.left \ {p}]
<1>3. UNCHANGED <<next_attempt_order, now>>
  BY DEF PersistAttempt
<1>4. CallsKept'
  <2>1. [call EXCEPT !.left = @ \ {p}] = after
    BY <1>1, Remaining
  <2>2. CallKept(after)
    BY SMTT(60), <1>1 DEF CallKept
  <2>3. dispatch' = [dispatch EXCEPT ![d] = Idle] \/ dispatch' = [dispatch EXCEPT ![d] = after]
    BY ZenonT(60), <1>2, <2>1
  <2> HIDE DEF after
  <2>4. /\ dispatch' = [e \in Dispatches |-> dispatch'[e]]
        /\ \A e \in Dispatches \ {d} : dispatch'[e] = dispatch[e]
        /\ dispatch'[d] \in {Idle, after}
    BY <2>3 DEF Inv, CallsKept
  <2>5. \A e \in Dispatches : dispatch'[e] # Idle => CallKept(dispatch'[e])
    BY <2>2, <2>4 DEF Inv, CallsKept
  <2> QED
    BY <2>4, <2>5 DEF CallsKept, CallKept
<1>5. CASE routes' = routes /\ fork_evidence \subseteq fork_evidence'
  BY <1>3, <1>4, <1>5, EvidenceKeeps
<1>6. CASE /\ routes' = [routes EXCEPT ![p] = row] /\ HoldsLease(p, claim)
           /\ fork_evidence' = fork_evidence \cup (IF isFork THEN {evidence} ELSE {})
  <2>1. claim.attempt_order \in Nat /\ claim.route.failures \in Nat
    BY <1>1 DEF CallKept
  <2>2. /\ row.quarantined = isFork
        /\ row.failures = IF authenticated THEN 0 ELSE claim.route.failures + 1
        /\ row.last_attempt_order = claim.attempt_order
        /\ row.lease_expires_at = NoLease /\ row.lease_attempt_order = NoLease
    BY DEF SettledRow
  <2>3. evidence.peer = p
    OBVIOUS
  <2>4. isFork \in BOOLEAN
    OBVIOUS
  <2> HIDE DEF claim, row, evidence, isFork, authenticated
  <2>5. isFork => p \in ForkPeers'
    BY <1>6, <2>3 DEF ForkPeers
  <2>6. /\ row.quarantined \in BOOLEAN /\ row.failures \in Nat
        /\ fork_evidence \subseteq fork_evidence'
    BY <1>6, <2>1, <2>2, <2>4
  <2> QED
    BY ZenonT(60), <1>3, <1>4, <1>6, <2>1, <2>2, <2>5, <2>6, UpdateKeeps
<1> QED
  BY SMTT(60), <1>2, <1>5, <1>6 DEF UpdateClaimedRoute

(* A step keeps the invariant and only advances the routes.                *)
LEMMA InvStep == Inv /\ [Next]_vars => Inv' /\ (Advance \/ UNCHANGED vars)
<1> SUFFICES ASSUME Inv, [Next]_vars PROVE Inv' /\ (Advance \/ UNCHANGED vars)
  OBVIOUS
<1>1. ASSUME NEW P \in SUBSET Peers, ConfigureRoutes(P) PROVE Inv' /\ Advance
  BY <1>1, ConfigureKeeps
<1>2. ASSUME NEW d \in Dispatches, NEW g \in Deliveries, Dispatch(d, g) PROVE Inv' /\ Advance
  BY <1>2, DispatchKeeps
<1>3. ASSUME NEW d \in Dispatches, NEW p \in Peers, NEW kind, NEW g, Settle(d, p, kind, g)
      PROVE  Inv' /\ Advance
  BY <1>3, SettleKeeps
<1>4. ASSUME NEW d \in Dispatches, PersistAttempt(d) PROVE Inv' /\ Advance
  BY <1>4, PersistKeeps
<1>5. CASE Crash
  <2>1. CallsKept'
    BY <1>5 DEF Crash, CallsKept
  <2> QED
    BY <1>5, <2>1, TablesUnchanged DEF Crash, Inv, RowsKept
<1>6. CASE Open \/ UNCHANGED vars
  <2>1. UNCHANGED <<tables, dispatch, now>>
    BY <1>6 DEF Open, vars
  <2>2. CallsKept'
    BY <2>1 DEF Inv, CallsKept, CallKept
  <2> QED
    BY <2>1, <2>2, TablesUnchanged DEF Inv, RowsKept
<1>7. CASE Tick
  <2>1. CallsKept'
    BY <1>7 DEF Tick, Inv, CallsKept, CallKept
  <2> QED
    BY <1>7, <2>1, TablesUnchanged DEF Tick, Inv, RowsKept
<1> QED
  BY <1>1, <1>2, <1>3, <1>4, <1>5, <1>6, <1>7 DEF Next

-----------------------------------------------------------------------------
(* dispatch() never exceeds max_in_flight, and the attempts it numbers are *)
(* in range, distinct and ahead of what is recorded, so that the store can *)
(* always be opened: for any peers, calls, crashes and late results.       *)
THEOREM WindowAlwaysHolds == Spec => [](InFlightBounded /\ AttemptsNumbered)
<1>1. Inv => InFlightBounded /\ AttemptsNumbered
  BY DEF Inv, RowsKept, RowKept, LeasesDistinct, AttemptsNumbered, OrdersValid
<1> QED
  BY InvInit, InvStep, <1>1, PTL DEF Spec

(* A late result never replaces that of a newer attempt, and quarantine    *)
(* comes with its evidence and is for good (updateClaimedRoute).           *)
THEOREM RoutesAlwaysAdvance == Spec => RoutesOnlyAdvance
<1>1. Inv /\ [Next]_vars =>
        [/\ fork_evidence \subseteq fork_evidence'
         /\ \A p \in Configured :
              /\ routes'[p].last_attempt_order >= routes[p].last_attempt_order
              /\ routes[p].quarantined => routes'[p].quarantined
         /\ \A p \in DOMAIN routes' :
              routes'[p].quarantined => p \in ForkPeers']_vars
  BY InvStep DEF Advance
<1> QED
  BY InvInit, InvStep, <1>1, PTL DEF Spec, RoutesOnlyAdvance
=============================================================================
