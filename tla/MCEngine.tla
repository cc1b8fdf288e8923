------------------------------ MODULE MCEngine ------------------------------
(* Engine on small instances: the functions its configurations name. *)
EXTENDS EngineProperties, TLC

\* One account that pipelines its commands.
OneConnection  == 1 :> 1
Pipelined      == 1 :> TRUE

\* A main account and a fill account, one connection each.
MainAndFill    == 1 :> 1 @@ 2 :> 1
FillPipelined  == 1 :> TRUE @@ 2 :> TRUE

\* Two tasks of one batch on the main account, and their articles.
TwoTasksBatch  == 1 :> 1 @@ 2 :> 1
TwoTaskAccount == 1 :> 1 @@ 2 :> 1
OneAndOne      == 1 :> 1 @@ 2 :> 1
TwoAndOne      == 1 :> 2 @@ 2 :> 1

BinaryOnly     == {{"binary"}}
BinaryAndText  == {{"binary", "text"}}
=============================================================================
