------------------------------- MODULE MCAgentRun -------------------------------
(***************************************************************************)
(* Three runs on four files: one in the root of system/, which has a       *)
(* second name, one below it, a test that does not exist yet, and one of   *)
(* infra/, which "infra/**" lets the infra agent write and does not read.  *)
(***************************************************************************)
EXTENDS AgentRunProperties, TLC

CONSTANTS r1, r2, r3

MCPaths == <<Pat(<<"infra", "main">>, <<"tf">>), Pat(<<"system", ".", "main">>, <<"py">>),
             Pat(<<"system", "api", "app">>, <<"py">>), Pat(<<"system", "main">>, <<"py">>),
             Pat(<<"tests", "unit", "test_app">>, <<"py">>)>>
MCFileOf == [n \in 1..5 |-> IF n = 2 THEN 4 ELSE n]
MCTried == {{}, {1}, {2}, {3}, {5}, {1, 3}, {2, 3}, {3, 4}, {3, 5}}
MCExisting == {1, 3, 4}
MCRuns == {r1, r2, r3}
Symmetry == Permutations(MCRuns)
MCTeams == {{"backend"}, {"backend", "infra", "refactor"}, {"architect", "security"},
            {"infra", "qa"}, {"docs", "frontend"}}
MCTargets == <<MCPaths[3]>>
===============================================================================
