----------------------------- MODULE MCAgentLoop -----------------------------
(* Instances of AgentLoop for TLC.                                         *)
EXTENDS AgentLoop, TLC

CONSTANTS Seed, Draft, Better

(* Responses without calls, and with one or two that matter together.      *)
SomeCalls == {<<>>, <<"read">>, <<"edit">>, <<"check">>, <<"submit">>,
              <<"edit", "check">>, <<"check", "edit">>, <<"check", "submit">>}
=============================================================================
