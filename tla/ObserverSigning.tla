--------------------------- MODULE ObserverSigning ---------------------------
(***************************************************************************)
(* The signing store of an open-world observer                             *)
(* (open-world-observer-signing-store.ts) with its handlers in the         *)
(* GameAuditShard (index.ts): a slot is reserved for one encounter before  *)
(* anything is signed for it.  And the conflicts of seals the shard        *)
(* records (open-world-seal-conflict.ts).                                  *)
(*                                                                         *)
(* The root of a snapshot is the set of reservations it is computed from;  *)
(* a trusted anchor is such a root for the identity it comes with.         *)
(***************************************************************************)
EXTENDS FiniteSets, AnchorReplay

CONSTANTS
  ReservationCapacity, \* MAX_OBSERVER_SIGNING_RESERVATIONS
  ConflictCapacity     \* MAX_OBSERVER_SIGNING_CONFLICTS

ASSUME CapacityAssumption == ReservationCapacity \in Nat /\ ConflictCapacity \in Nat

(* An open store is never taken for none.                                  *)
ASSUME ObserverAssumption ==
  \A r \in Asked("observer"), n \in 0..ReservationCapacity : [id |-> r.id, next |-> n] # Nothing

VARIABLES
  observer,     \* open_world_observer_signing_metadata, or Nothing
  reservations, \* open_world_observer_signing_reservations
  snapshot,     \* open_world_observer_signing_snapshots
  attempts,     \* open_world_observer_signing_conflicts
  signatures,   \* what the signer has signed: slot and digest
  missingSlots  \* open_world_seal_conflicts

observerVars == <<observer, reservations, snapshot, attempts, signatures, missingSlots>>

ObserverInit ==
  /\ observer = Nothing
  /\ reservations = {}
  /\ snapshot = Nothing
  /\ attempts = {}
  /\ signatures = {}
  /\ missingSlots = {}

SlotRoot == {[slot |-> r.slot, digest |-> r.digest] : r \in reservations}

Trusted(r) == r.trusted \in {Nothing, SlotRoot}

(* computeSnapshot refuses a store whose sequences have a gap.             *)
SequencesAreDense == {r.sequence : r \in reservations} = 0..(observer.next - 1)

(* open: a new store, unless the caller trusts the anchor of another, or   *)
(* the one there is, if the identity is its own.  Opening takes a snapshot *)
(* first; the anchor the caller trusts then decides the answer only.       *)
OpenStore(c) ==
  LET r == calls[c].request IN
  /\ At(c, "observer", "new")
  /\ End(c)
  /\ UNCHANGED <<reservations, attempts, signatures, missingSlots>>
  /\ \/ /\ observer = Nothing
        /\ Trusted(r)
        /\ observer' = [id |-> r.id, next |-> 0]
        /\ snapshot' = {}
     \/ /\ observer # Nothing
        /\ observer.id = r.id
        /\ snapshot' = IF SequencesAreDense THEN SlotRoot ELSE snapshot
        /\ UNCHANGED observer
     \/ /\ IF observer = Nothing THEN ~Trusted(r) ELSE observer.id # r.id
        /\ UNCHANGED <<observer, snapshot>>

TakeSnapshot(c) ==
  /\ At(c, "snapshot", "new")
  /\ End(c)
  /\ snapshot' = IF observer # Nothing /\ SequencesAreDense THEN SlotRoot ELSE snapshot
  /\ UNCHANGED <<observer, reservations, attempts, signatures, missingSlots>>

ReservedFor(slot) == {r \in reservations : r.slot = slot}

(* Faulty variant: any reservation of the slot is used again.              *)
ReusedForSlot(slot, digest) == ReservedFor(slot) # {}

Reused(slot, digest) == \E r \in ReservedFor(slot) : r.digest = digest

(* A transaction that fails half way leaves nothing behind.                *)
ReserveNext(slot, digest, fault) ==
  IF observer.next >= ReservationCapacity \/ fault THEN UNCHANGED <<observer, reservations>>
  ELSE /\ reservations' = reservations \cup
            {[slot |-> slot, digest |-> digest, sequence |-> observer.next]}
       /\ observer' = [observer EXCEPT !.next = @ + 1]

(* signAfterObserverReservation, up to the call of the signer.             *)
ReserveSlot(c) ==
  LET r == calls[c].request IN
  /\ At(c, "sign", "new")
  /\ UNCHANGED <<snapshot, signatures, missingSlots>>
  /\ \/ /\ ~(observer # Nothing /\ r.valid)
        /\ End(c)
        /\ UNCHANGED <<observer, reservations, attempts>>
     \/ /\ observer # Nothing /\ r.valid
        /\ Reused(r.slot, r.digest)
        /\ Proceed(c, "sign", Nothing)
        /\ UNCHANGED <<observer, reservations, attempts>>
     \/ /\ observer # Nothing /\ r.valid
        /\ ~Reused(r.slot, r.digest)
        /\ ReservedFor(r.slot) # {}
        /\ End(c)
        /\ attempts' =
             IF \/ Cardinality(attempts) >= ConflictCapacity
                \/ \E a \in attempts : a.slot = r.slot /\ a.digest = r.digest
             THEN attempts
             ELSE attempts \cup {[slot |-> r.slot, digest |-> r.digest, observed |-> clock]}
        /\ UNCHANGED <<observer, reservations>>
     \/ /\ observer # Nothing /\ r.valid
        /\ ReservedFor(r.slot) = {}
        /\ ReserveNext(r.slot, r.digest, r.fault)
        /\ IF reservations' # reservations THEN Proceed(c, "sign", Nothing) ELSE End(c)
        /\ UNCHANGED attempts

(* The signer answers, or fails: the reservation stays.                    *)
SignReserved(c) ==
  LET r == calls[c].request IN
  /\ At(c, "sign", "sign")
  /\ End(c)
  /\ signatures' \in {signatures, signatures \cup {[slot |-> r.slot, digest |-> r.digest]}}
  /\ UNCHANGED <<observer, reservations, snapshot, attempts, missingSlots>>

(* Only the rows of conflicts are ever deleted.                            *)
PruneConflictAttempts(c) ==
  LET r == calls[c].request
      pruned == {a \in attempts : a.observed < r.before /\ a.slot \notin r.protected}
  IN
  /\ At(c, "prune", "new")
  /\ End(c)
  /\ attempts' = attempts \ pruned
  /\ UNCHANGED <<observer, reservations, snapshot, signatures, missingSlots>>

-----------------------------------------------------------------------------
(* storeOpenWorldSealConflict: the bundle is verified and then the         *)
(* conflict is inserted unless its key is known.                           *)
VerifySealConflict(c) ==
  /\ At(c, "missing", "new")
  /\ UNCHANGED observerVars
  /\ IF shard # Nothing /\ calls[c].request.verified THEN Proceed(c, "insert", Nothing) ELSE End(c)

StoreSealConflict(c) ==
  LET k == calls[c].request.conflict IN
  /\ At(c, "missing", "insert")
  /\ End(c)
  /\ missingSlots' = IF \E m \in missingSlots : m.key = k.key THEN missingSlots
                     ELSE missingSlots \cup {k}
  /\ UNCHANGED <<observer, reservations, snapshot, attempts, signatures>>

-----------------------------------------------------------------------------
ObserverStep(c) ==
  /\ UNCHANGED clock
  /\ \/ OpenStore(c) \/ TakeSnapshot(c) \/ ReserveSlot(c) \/ SignReserved(c)
     \/ PruneConflictAttempts(c) \/ VerifySealConflict(c) \/ StoreSealConflict(c)

(* The observer by itself: its requests, restarts of the object, time.     *)
ObserverNext ==
  \/ \E c \in Calls : ObserverStep(c) /\ UNCHANGED replayVars
  \/ Restart /\ UNCHANGED <<observerVars, clock>>
  \/ PassTime /\ UNCHANGED <<observerVars, replayVars>>

ObserverSpec ==
  /\ CallsInit /\ ReplayInit /\ ObserverInit
  /\ [][ObserverNext]_<<observerVars, replayVars, calls, clock>>

-----------------------------------------------------------------------------
(* Nothing is signed without its reservation, and no slot is ever signed   *)
(* for two encounters, however signers fail, calls race, the object        *)
(* restarts between the two and conflict rows are pruned.                  *)
SlotsAreSignedOnce ==
  /\ \A s \in signatures : \E r \in reservations : r.slot = s.slot /\ r.digest = s.digest
  /\ \A s, t \in signatures : s.slot = t.slot => s = t
  /\ observer # Nothing => SequencesAreDense
=============================================================================
