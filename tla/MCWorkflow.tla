------------------------------ MODULE MCWorkflow ------------------------------
(* Instances of Workflow for TLC.                                           *)
EXTENDS Workflow

MCNames == {"fetch", "send", "fan", "typo"}
MCKindOf == [n \in MCNames |-> CASE n = "fetch" -> "plain" [] n = "send" -> "retry"
                                 [] n = "fan" -> "parallel" [] OTHER -> "unknown"]
MCFlows == {<<"fetch", "send">>, <<"fan", "typo">>}
OnlyFan == {<<"fan">>}
=============================================================================
