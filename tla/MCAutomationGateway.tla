-------------------------- MODULE MCAutomationGateway --------------------------
\* The API server and the command line, one workflow of two steps.
EXTENDS AutomationGateway

TwoSteps == [w \in Workflow |-> 2]
=============================================================================
