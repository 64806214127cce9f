---------------------------- MODULE MCPeerRoutes ----------------------------
(***************************************************************************)
(* Two or three peers, two concurrent calls of dispatch(), a lease of one  *)
(* tick, a window of two routes and a handful of attempt orders.           *)
(***************************************************************************)
EXTENDS PeerRoutes
=============================================================================
