-------------------------- MODULE MCPostProcessing --------------------------
(* One folder with two recovery sets, one with none; the second holds an     *)
(* archive inside an archive.                                                *)
EXTENDS PostProcessingProperties

MCPars == [f \in Folders |-> IF f = "film" THEN <<"p1", "p2">> ELSE <<>>]
MCVolumes == [f \in Folders |-> IF f = "film" THEN <<"v1">> ELSE <<"v2">>]
MCNested == [v \in Files |-> IF v = "v2" THEN <<"v3">> ELSE <<>>]
=============================================================================
