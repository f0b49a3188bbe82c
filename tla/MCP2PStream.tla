----------------------------- MODULE MCP2PStream -----------------------------
(* Instances of P2PStream.tla for TLC. *)
EXTENDS P2PStreamProps, TLC

CONSTANTS own, peer, empty, small, full, large

\* The largest message is above the limit of 2.
Sizes == empty :> 0 @@ small :> 1 @@ full :> 2 @@ large :> 3
Pairs == {<<small, full>>, <<full, small>>, <<empty, small>>, <<small, large>>, <<large, small>>}
=============================================================================
