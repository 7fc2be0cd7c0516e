------------------------------ MODULE MCPCSim ------------------------------
(* Small instances of PCSim: two producers, two consumers, two sites.       *)
EXTENDS PCSim, TLC
PSites == 1 :> 1 @@ 2 :> 2
CSites == 1 :> 2 @@ 2 :> 2
Modes == [spatial : BOOLEAN, w_prefetch : BOOLEAN]
=============================================================================
