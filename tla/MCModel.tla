------------------------------- MODULE MCModel -------------------------------
(* Option strings for the composition of Model::Run with the loader: one  *)
(* valid option, and one list that fails after its first token is pushed *)
(* ("4,9": 9 is above LAST), leaving <<4>> in mConfig.                    *)
EXTENDS Model

MCOptionValues == {<<"3">>, <<"4", ",", "9">>}
====
