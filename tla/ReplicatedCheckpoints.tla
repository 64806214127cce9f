------------------------ MODULE ReplicatedCheckpoints ------------------------
(***************************************************************************)
(* What checkpoint delivery promises: one append-only log of checkpoints,  *)
(* a copy of it at every destination that grows one epoch at a time, and   *)
(* confirmations that only follow the copy they confirm.                   *)
(***************************************************************************)
EXTENDS Integers

CONSTANTS Destinations, MaxEpoch, Checkpoints, None

Epochs == 0..MaxEpoch

VARIABLES
  sealed,    \* the log: epoch to checkpoint, None beyond its end
  copied,    \* each destination's copy
  confirmed  \* <<destination, epoch>> pairs the source knows to be copied

EmptyLog == [e \in Epochs |-> None]

Init ==
  /\ sealed = EmptyLog
  /\ copied = [d \in Destinations |-> EmptyLog]
  /\ confirmed = {}

(* e is the first epoch the log does not hold.                             *)
EndsBefore(log, e) ==
  /\ log[e] = None
  /\ \A f \in Epochs : f < e => log[f] # None

Seal(e, c) ==
  /\ EndsBefore(sealed, e)
  /\ sealed' = [sealed EXCEPT ![e] = c]
  /\ UNCHANGED <<copied, confirmed>>

Copy(d, e) ==
  /\ sealed[e] # None
  /\ EndsBefore(copied[d], e)
  /\ copied' = [copied EXCEPT ![d] = [copied[d] EXCEPT ![e] = sealed[e]]]
  /\ UNCHANGED <<sealed, confirmed>>

Confirm(d, e) ==
  /\ copied[d][e] # None
  /\ confirmed' = confirmed \cup {<<d, e>>}
  /\ UNCHANGED <<sealed, copied>>

Next ==
  \/ \E e \in Epochs, c \in Checkpoints : Seal(e, c)
  \/ \E d \in Destinations, e \in Epochs : Copy(d, e) \/ Confirm(d, e)

Spec == Init /\ [][Next]_<<sealed, copied, confirmed>>

=============================================================================
