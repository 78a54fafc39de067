---------------------------- MODULE MCPlanSteps ----------------------------
EXTENDS PlanSteps

\* Every kind of node, alone and before or after an action.
AllShapes == {<<"ACTION", "REPEAT">>, <<"UNTIL", "ACTION">>, <<"IF", "ABORT">>, <<"WHILE", "PAUSE">>}
=============================================================================
