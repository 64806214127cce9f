------------------------ MODULE ObserverSigningProofs ------------------------
(***************************************************************************)
(* An observer never signs two encounters for one slot: the theorem about  *)
(* ObserverSigning, for any requests, capacities and restarts.             *)
(***************************************************************************)
EXTENDS ObserverSigning, TLAPS

(* The calls keep their requests, which are those of a workload.           *)
CallsKept ==
  /\ calls = [c \in Calls |-> [request |-> calls[c].request, step |-> calls[c].step,
                               seen |-> calls[c].seen]]
  /\ \E w \in Workloads : \A c \in Calls : calls[c].request = w[c]

(* The metadata row, if there is one, is the row of an observer, and it    *)
(* numbers the reservations.                                               *)
StoreKept ==
  /\ observer = Nothing => reservations = {}
  /\ observer # Nothing =>
       /\ observer = [id |-> observer.id, next |-> observer.next]
       /\ \E r \in Asked("observer") : observer.id = r.id
       /\ observer.next \in 0..ReservationCapacity
       /\ SequencesAreDense

(* A slot has one reservation.                                             *)
SlotsKept == \A r, s \in reservations : r.slot = s.slot => r = s

IsReservedFor(slot, digest) == \E r \in reservations : r.slot = slot /\ r.digest = digest

(* Whoever signs, or has signed, does so for a reservation.                *)
SignersReserved ==
  /\ \A c \in Calls : At(c, "sign", "sign") =>
       IsReservedFor(calls[c].request.slot, calls[c].request.digest)
  /\ \A s \in signatures :
       s = [slot |-> s.slot, digest |-> s.digest] /\ IsReservedFor(s.slot, s.digest)

Inv == CallsKept /\ StoreKept /\ SlotsKept /\ SignersReserved

allVars == <<observerVars, replayVars, calls, clock>>

-----------------------------------------------------------------------------
LEMMA InvInit == CallsInit /\ ObserverInit => Inv
<1> SUFFICES ASSUME CallsInit, ObserverInit PROVE Inv
  OBVIOUS
<1>1. CallsKept
  BY DEF CallsInit, CallsKept
<1>2. \A c \in Calls : calls[c].step = "new"
  BY DEF CallsInit
<1> QED
  BY <1>1, <1>2 DEF ObserverInit, Inv, StoreKept, SlotsKept, SignersReserved, At

(* Setting the step of a call and what it has seen.                        *)
LEMMA Restepped ==
  ASSUME CallsKept, NEW c \in Calls, NEW step, NEW seen
  PROVE  [calls[c] EXCEPT !.step = step, !.seen = seen] =
           [request |-> calls[c].request, step |-> step, seen |-> seen]
<1> DEFINE was == calls[c]
           between == [request |-> was.request, step |-> step, seen |-> was.seen]
           after == [request |-> was.request, step |-> step, seen |-> seen]
<1>1. was = [request |-> was.request, step |-> was.step, seen |-> was.seen]
  BY Zenon DEF CallsKept
<1>2. [was EXCEPT !.step = step] = between
  BY <1>1
<1>3. [between EXCEPT !.seen = seen] = after
  OBVIOUS
<1> HIDE DEF was, between, after
<1>4. [[was EXCEPT !.step = step] EXCEPT !.seen = seen] = after
  BY ZenonT(60), <1>2, <1>3
<1> QED
  BY <1>4 DEF was, after

(* A call that proceeds or ends keeps its request, and the other calls.    *)
LEMMA ProceedKeeps ==
  ASSUME CallsKept, NEW c \in Calls, NEW step, NEW seen, Proceed(c, step, seen)
  PROVE  /\ CallsKept'
         /\ \A d \in Calls : calls'[d].request = calls[d].request
         /\ calls'[c].step = step
         /\ \A d \in Calls \ {c} : calls'[d].step = calls[d].step
<1> DEFINE was == calls[c]
           now == [request |-> calls[c].request, step |-> step, seen |-> seen]
<1>1. /\ DOMAIN calls = Calls
      /\ \A d \in Calls : calls[d] = [request |-> calls[d].request, step |-> calls[d].step,
                                      seen |-> calls[d].seen]
  BY Zenon DEF CallsKept
<1>2. calls = [d \in Calls |-> calls[d]]
  BY Zenon DEF CallsKept
<1>3. calls' = [d \in Calls |-> IF d = c THEN now ELSE calls[d]]
  <2>1. [was EXCEPT !.step = step, !.seen = seen] = now
    BY ZenonT(60), Restepped DEF Inv
  <2>2. calls' = [calls EXCEPT ![c] = [was EXCEPT !.step = step, !.seen = seen]]
    BY ZenonT(60), <1>1, <1>2 DEF Proceed
  <2> QED
    BY <1>1, <1>2, <2>1, <2>2
<1>4. \A d \in Calls : calls'[d] = [request |-> calls'[d].request, step |-> calls'[d].step,
                                    seen |-> calls'[d].seen]
  BY <1>1, <1>3
<1>5. \A d \in Calls : calls'[d].request = calls[d].request
  BY <1>1, <1>3
<1>6. CallsKept'
  <2>1. calls' = [d \in Calls |-> calls'[d]]
    BY <1>3
  <2>2. calls' = [d \in Calls |-> [request |-> calls'[d].request, step |-> calls'[d].step,
                                  seen |-> calls'[d].seen]]
    BY Zenon, <1>4, <2>1
  <2>3. \E w \in Workloads : \A d \in Calls : calls'[d].request = w[d]
    BY ZenonT(60), <1>5 DEF CallsKept
  <2> QED
    BY Zenon, <2>2, <2>3 DEF CallsKept
<1> QED
  BY <1>1, <1>3, <1>5, <1>6

(* A step that leaves the tables and the signatures alone.                 *)
LEMMA TablesUnchanged ==
  ASSUME Inv, CallsKept', UNCHANGED <<observer, reservations, signatures>>,
         \A d \in Calls : At(d, "sign", "sign")' =>
           /\ At(d, "sign", "sign")
           /\ calls'[d].request = calls[d].request
  PROVE  Inv'
<1>1. StoreKept'
  BY DEF Inv, StoreKept, SequencesAreDense
<1>2. SlotsKept'
  BY DEF Inv, SlotsKept
<1>3. SignersReserved'
  BY DEF Inv, SignersReserved, IsReservedFor
<1> QED
  BY <1>1, <1>2, <1>3 DEF Inv

(* OpenStore: a new row starts at 0, and only where nothing is reserved.   *)
LEMMA OpenStoreKeeps ==
  ASSUME Inv, NEW c \in Calls, OpenStore(c)
  PROVE  Inv'
<1> DEFINE r == calls[c].request
<1>1. /\ CallsKept'
      /\ \A d \in Calls : calls'[d].request = calls[d].request
      /\ calls'[c].step = "done"
      /\ \A d \in Calls \ {c} : calls'[d].step = calls[d].step
  BY ProceedKeeps DEF Inv, OpenStore, End
<1>2. \A d \in Calls : At(d, "sign", "sign")' => At(d, "sign", "sign")
  BY <1>1 DEF At
<1>3. CASE UNCHANGED observer
  BY SMTT(60), <1>1, <1>2, <1>3, TablesUnchanged DEF OpenStore
<1>4. CASE observer = Nothing /\ observer' = [id |-> r.id, next |-> 0]
  <2>1. reservations' = {} /\ reservations = {} /\ signatures' = signatures
    BY <1>4 DEF Inv, StoreKept, OpenStore
  <2>2. r \in Asked("observer")
    BY DEF Inv, CallsKept, OpenStore, At, Asked
  <2>3. StoreKept'
    BY SMTT(60), <1>4, <2>1, <2>2, CapacityAssumption DEF StoreKept, SequencesAreDense
  <2>4. SlotsKept' /\ SignersReserved'
    BY SMTT(60), <1>1, <1>2, <2>1 DEF Inv, SlotsKept, SignersReserved, IsReservedFor
  <2> QED
    BY SMTT(60), <1>1, <2>3, <2>4 DEF Inv
<1> QED
  BY <1>3, <1>4 DEF OpenStore

(* ReserveNext: the new reservation has the next number and is the only    *)
(* one of its slot; or nothing changes.                                    *)
LEMMA ReserveNextKeeps ==
  ASSUME StoreKept, SlotsKept, observer # Nothing,
         NEW slot, NEW digest, NEW fault, ReservedFor(slot) = {},
         ReserveNext(slot, digest, fault)
  PROVE  /\ StoreKept' /\ SlotsKept'
         /\ reservations \subseteq reservations'
         /\ reservations' # reservations => IsReservedFor(slot, digest)'
<1> DEFINE new == [slot |-> slot, digest |-> digest, sequence |-> observer.next]
<1>1. CASE UNCHANGED <<observer, reservations>>
  BY <1>1 DEF StoreKept, SlotsKept, SequencesAreDense
<1>2. CASE /\ observer.next < ReservationCapacity
           /\ reservations' = reservations \cup {new}
           /\ observer' = [observer EXCEPT !.next = @ + 1]
  <2>1. observer' = [id |-> observer.id, next |-> observer.next + 1]
    BY <1>2 DEF StoreKept
  <2>2. /\ observer'.id = observer.id /\ observer'.next = observer.next + 1
        /\ observer'.next \in 0..ReservationCapacity
    BY <1>2, <2>1, CapacityAssumption DEF StoreKept
  <2>3. PICK r \in Asked("observer") : observer.id = r.id
    BY DEF StoreKept
  <2>4. observer' # Nothing
    BY SMTT(60), <2>1, <2>2, <2>3, ObserverAssumption
  <2>5. SequencesAreDense'
    <3>1. {x.sequence : x \in reservations} = 0..(observer.next - 1)
      BY DEF StoreKept, SequencesAreDense
    <3>2. {x.sequence : x \in reservations'} = {x.sequence : x \in reservations} \cup {observer.next}
      <4>1. new.sequence = observer.next
        OBVIOUS
      <4> HIDE DEF new
      <4> QED
        BY <1>2, <4>1
    <3>3. 0..(observer.next - 1) \cup {observer.next} = 0..observer.next
      BY CapacityAssumption DEF StoreKept
    <3>4. observer'.next - 1 = observer.next
      BY <2>2, CapacityAssumption DEF StoreKept
    <3> HIDE DEF new
    <3> QED
      BY SMTT(60), <3>1, <3>2, <3>3, <3>4 DEF SequencesAreDense
  <2>6. StoreKept'
    BY SMTT(60), <2>1, <2>2, <2>3, <2>4, <2>5 DEF StoreKept
  <2>7. \A x \in reservations : x.slot # slot
    BY DEF ReservedFor
  <2>8. SlotsKept'
    BY <1>2, <2>7 DEF SlotsKept
  <2> QED
    BY <1>2, <2>6, <2>8 DEF IsReservedFor
<1> QED
  BY <1>1, <1>2, CapacityAssumption DEF ReserveNext, StoreKept

(* ReserveSlot: who goes on to sign holds a reservation.                   *)
LEMMA ReserveSlotKeeps ==
  ASSUME Inv, NEW c \in Calls, ReserveSlot(c)
  PROVE  Inv'
<1> DEFINE r == calls[c].request
<1>1. PICK step : Proceed(c, step, Nothing)
  BY DEF ReserveSlot, End
<1>2. /\ CallsKept'
      /\ \A d \in Calls : calls'[d].request = calls[d].request
      /\ calls'[c].step = step
      /\ \A d \in Calls \ {c} : calls'[d].step = calls[d].step
  BY SMTT(60), <1>1, ProceedKeeps DEF Inv
<1>3. /\ StoreKept' /\ SlotsKept' /\ reservations \subseteq reservations'
      /\ At(c, "sign", "sign")' => IsReservedFor(r.slot, r.digest)'
  <2>1. CASE UNCHANGED <<observer, reservations>> /\ step = "done"
    BY <1>2, <2>1 DEF Inv, StoreKept, SlotsKept, SequencesAreDense, At
  <2>2. CASE UNCHANGED <<observer, reservations>> /\ Reused(r.slot, r.digest)
    BY <1>2, <2>2 DEF Inv, StoreKept, SlotsKept, SequencesAreDense, Reused, ReservedFor, IsReservedFor
  <2>3. CASE /\ observer # Nothing /\ ReservedFor(r.slot) = {}
             /\ ReserveNext(r.slot, r.digest, r.fault)
             /\ reservations' = reservations => step = "done"
    BY <1>2, <2>3, ReserveNextKeeps DEF Inv, At
  <2>4. \A s : Proceed(c, s, Nothing) => s = step
    BY <1>2, ProceedKeeps DEF Inv
  <2> QED
    BY SMTT(60), <2>1, <2>2, <2>3, <2>4 DEF ReserveSlot, End
<1>4. SignersReserved'
  <2>1. \A slot, digest : IsReservedFor(slot, digest) => IsReservedFor(slot, digest)'
    BY <1>3 DEF IsReservedFor
  <2>2. \A d \in Calls \ {c} : At(d, "sign", "sign")' => At(d, "sign", "sign")
    BY SMTT(60), <1>2 DEF At
  <2>3. signatures' = signatures
    BY DEF ReserveSlot
  <2> QED
    BY SMTT(60), <1>2, <1>3, <2>1, <2>2, <2>3 DEF Inv, SignersReserved
<1> QED
  BY SMTT(60), <1>2, <1>3, <1>4 DEF Inv

(* SignReserved: what is signed was reserved by the same call.             *)
LEMMA SignReservedKeeps ==
  ASSUME Inv, NEW c \in Calls, SignReserved(c)
  PROVE  Inv'
<1> DEFINE r == calls[c].request
<1>1. /\ CallsKept'
      /\ \A d \in Calls : calls'[d].request = calls[d].request
      /\ calls'[c].step = "done"
      /\ \A d \in Calls \ {c} : calls'[d].step = calls[d].step
  BY ProceedKeeps DEF Inv, SignReserved, End
<1>2. IsReservedFor(r.slot, r.digest) /\ UNCHANGED <<observer, reservations>>
  BY DEF Inv, SignersReserved, SignReserved
<1>3. \A s \in signatures' : s \in signatures \/ s = [slot |-> r.slot, digest |-> r.digest]
  BY DEF SignReserved
<1>4. StoreKept' /\ SlotsKept'
  BY <1>2 DEF Inv, StoreKept, SlotsKept, SequencesAreDense
<1>5. SignersReserved'
  BY SMTT(60), <1>1, <1>2, <1>3 DEF Inv, SignersReserved, IsReservedFor, At
<1> QED
  BY SMTT(60), <1>1, <1>4, <1>5 DEF Inv

(* The other steps of a request leave reservations and signatures alone.   *)
LEMMA OtherStepsKeep ==
  ASSUME Inv, NEW c \in Calls,
         TakeSnapshot(c) \/ PruneConflictAttempts(c) \/ VerifySealConflict(c) \/ StoreSealConflict(c)
  PROVE  Inv'
<1>1. UNCHANGED <<observer, reservations, signatures>>
  BY DEF TakeSnapshot, PruneConflictAttempts, VerifySealConflict, StoreSealConflict, observerVars
<1>2. PICK step : Proceed(c, step, Nothing) /\ step \in {"insert", "done"}
  BY DEF TakeSnapshot, PruneConflictAttempts, VerifySealConflict, StoreSealConflict, End
<1>3. /\ CallsKept'
      /\ \A d \in Calls : calls'[d].request = calls[d].request
      /\ calls'[c].step = step
      /\ \A d \in Calls \ {c} : calls'[d].step = calls[d].step
  BY <1>2, ProceedKeeps DEF Inv
<1>4. \A d \in Calls : At(d, "sign", "sign")' => At(d, "sign", "sign")
  BY SMTT(60), <1>2, <1>3 DEF At
<1> QED
  BY SMTT(60), <1>1, <1>3, <1>4, TablesUnchanged

(* A restart ends the calls in progress.                                   *)
LEMMA RestartKeeps ==
  ASSUME Inv, Restart, UNCHANGED observerVars
  PROVE  Inv'
<1>1. \A d \in Calls : calls[d] = [request |-> calls[d].request, step |-> calls[d].step,
                                   seen |-> calls[d].seen]
  BY Zenon DEF Inv, CallsKept
<1> DEFINE Stopped(d) == [request |-> calls[d].request, step |-> "done", seen |-> Nothing]
<1>2. ASSUME NEW d \in Calls
      PROVE  calls'[d] = IF calls[d].step = "new" THEN calls[d] ELSE Stopped(d)
  <2>1. [calls[d] EXCEPT !.step = "done", !.seen = Nothing] = Stopped(d)
    BY ZenonT(60), Restepped DEF Inv
  <2>2. calls'[d] = IF calls[d].step = "new" THEN calls[d]
                    ELSE [calls[d] EXCEPT !.step = "done", !.seen = Nothing]
    BY ZenonT(60) DEF Restart, StopCalls
  <2> HIDE DEF Stopped
  <2> QED
    BY <2>1, <2>2
<1>3. calls' = [d \in Calls |-> calls'[d]]
  BY ZenonT(60) DEF Restart, StopCalls
<1>4. \A d \in Calls :
        /\ calls'[d].request = calls[d].request
        /\ calls'[d].step \in {"new", "done"}
        /\ calls'[d] = [request |-> calls'[d].request, step |-> calls'[d].step,
                       seen |-> calls'[d].seen]
  <2> SUFFICES ASSUME NEW d \in Calls
               PROVE  /\ calls'[d].request = calls[d].request
                      /\ calls'[d].step \in {"new", "done"}
                      /\ calls'[d] = [request |-> calls'[d].request, step |-> calls'[d].step,
                                     seen |-> calls'[d].seen]
    BY ZenonT(60)
  <2>1. CASE calls[d].step = "new"
    <3>1. calls'[d] = calls[d]
      BY ZenonT(60), <1>2, <2>1
    <3> QED
      BY Zenon, <1>1, <2>1, <3>1
  <2>2. CASE calls[d].step # "new"
    <3>1. calls'[d] = Stopped(d)
      BY <1>2, <2>2
    <3> QED
      BY <3>1
  <2> QED
    BY <2>1, <2>2
<1>5. CallsKept'
  BY ZenonT(60), <1>3, <1>4 DEF Inv, CallsKept
<1> QED
  BY ZenonT(60), <1>4, <1>5, TablesUnchanged DEF observerVars, At

LEMMA InvStep == Inv /\ [ObserverNext]_allVars => Inv'
<1> SUFFICES ASSUME Inv, [ObserverNext]_allVars PROVE Inv'
  OBVIOUS
<1>1. ASSUME NEW c \in Calls, ObserverStep(c) PROVE Inv'
  BY <1>1, OpenStoreKeeps, ReserveSlotKeeps, SignReservedKeeps, OtherStepsKeep DEF ObserverStep
<1>2. CASE Restart /\ UNCHANGED observerVars
  BY <1>2, RestartKeeps
<1>3. CASE UNCHANGED <<observerVars, calls>>
  <2>1. CallsKept'
    BY <1>3 DEF Inv, CallsKept
  <2> QED
    BY SMTT(60), <1>3, <2>1, TablesUnchanged DEF observerVars, At
<1> QED
  BY <1>1, <1>2, <1>3 DEF ObserverNext, PassTime, allVars

(* No slot is ever signed for two encounters and nothing is signed without *)
(* a reservation (signAfterObserverReservation), for any requests, any     *)
(* capacities, and however the signer fails or the object restarts.        *)
THEOREM SlotsAlwaysSignedOnce == ObserverSpec => []SlotsAreSignedOnce
<1>1. Inv => SlotsAreSignedOnce
  BY DEF Inv, StoreKept, SlotsKept, SignersReserved, IsReservedFor, SlotsAreSignedOnce
<1> QED
  BY InvInit, InvStep, <1>1, PTL DEF ObserverSpec, allVars
=============================================================================
