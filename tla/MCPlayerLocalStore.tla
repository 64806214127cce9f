------------------------- MODULE MCPlayerLocalStore -------------------------
(***************************************************************************)
(* A small instance of PlayerLocalStore, explored in two directions:       *)
(* Sealing has two competing writers, a fork of epoch 0, two destinations  *)
(* and leases that expire; Gathering has equivocating events, holds and an *)
(* inbox feed around a prune by one writer, with one destination.          *)
(***************************************************************************)
EXTENDS PlayerLocalStore, TLC

CONSTANTS w1, w2  \* the writers

MCWriters == {w1, w2}

MCSymmetry == Permutations(MCWriters)

MCDigests == {"g", "a0", "b0", "a1"}

MCDrafts ==
  {[epoch |-> 0, digest |-> "a0", previous |-> "g"],
   [epoch |-> 0, digest |-> "b0", previous |-> "g"],
   [epoch |-> 1, digest |-> "a1", previous |-> "a0"]}

MCTwoDestinations == {<<"x", "y">>, <<"y">>}

MCOneDestination == {<<"x">>}

(* Two versions of the first event of author p, in different epochs, and a *)
(* third one that repeats a digest in another epoch (a collision).         *)
MCEvents ==
  {[author |-> "p", counter |-> 0, epoch |-> 0, digest |-> "e"],
   [author |-> "p", counter |-> 0, epoch |-> 1, digest |-> "f"],
   [author |-> "p", counter |-> 0, epoch |-> 0, digest |-> "f"]}

MCHold0 == [id |-> "h", epoch |-> 0, digest |-> "a0", reference |-> "r"]
MCHold1 == [id |-> "h", epoch |-> 1, digest |-> "a1", reference |-> "r"]

MCFeeds ==
  [s \in {"src"} |->
     <<[kind |-> "place", hold |-> MCHold0, decision |-> "none"],
       [kind |-> "resolve", hold |-> MCHold0, decision |-> "upheld"]>>]

MCHolds == {MCHold0, MCHold1}

MCProtectedSets == {{}, {0}}
(* No event, no hold and no inbox message.                                 *)
Sealing ==
  /\ revision <= 8
  /\ events = {} /\ evidence_holds = {} /\ \A s \in Sources : inbox_cursors[s] = -1
  /\ \A w \in Writers : pending[w] # NoWriteSet =>
       /\ pending[w].kind # "inbox"
       /\ pending[w].kind = "prune" => pending[w].protected_epochs = {}

(* One writer, one destination, one moment.                                *)
Gathering ==
  /\ now = 0
  /\ \A o \in outbox : o.destination = "y"
  /\ \A w \in Writers : pending[w] # NoWriteSet =>
       /\ \A v \in Writers \ {w} : pending[v] = NoWriteSet
       /\ pending[w].kind = "seal" => pending[w].destinations = <<"y">>

SealingOrGathering == Sealing \/ Gathering
=============================================================================
