------------------------ MODULE MCCheckpointDelivery ------------------------
(* Two clients submit epoch 0, and one of them goes on from its own.       *)
EXTENDS CheckpointDelivery

Submitted(e, digest, previous) ==
  [epoch |-> e, digest |-> digest, previous |-> previous]

MCCheckpoints ==
  {Submitted(0, "a0", "genesis"), Submitted(1, "a1", "a0"),
   Submitted(0, "b0", "genesis")}

OneChain == {Submitted(0, "a0", "genesis"), Submitted(1, "a1", "a0")}

=============================================================================
