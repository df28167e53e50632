--------------------------- MODULE MCCIScheduler ---------------------------
(* Instances of CIScheduler for TLC.                                       *)
EXTENDS CIScheduler

(* Two jobs of one configuration, two of another one of the same model,    *)
(* and a job without a model.                                              *)
MixedNeeds   == <<1, 1, 2, 2, 1>>
MixedModels  == <<"m1", "m1", "m1", None, "m1">>
MixedConfigs == <<"k1", "k1", "k2", "k3", "k2">>

SmallNeeds   == <<1, 1, 2>>
SmallModels  == <<"m1", None, "m1">>
SmallConfigs == <<"k1", "k1", "k2">>
=============================================================================
