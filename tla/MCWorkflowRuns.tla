---------------------------- MODULE MCWorkflowRuns ----------------------------
\* Instances of WorkflowRuns: two steps, the second after the first or beside it.
EXTENDS WorkflowRuns

CONSTANTS s1, s2

Version(kind1, kind2, after, onFailure) ==
    [kind |-> [s \in Step |-> IF s = s1 THEN kind1 ELSE kind2],
     deps |-> [s \in Step |-> IF s = s2 /\ after THEN {s1} ELSE {}],
     onFailure |-> [s \in Step |-> onFailure],
     undoable |-> onFailure = "compensate"]

AllDefinitions ==
    { Version("TASK", "TASK", TRUE, "compensate"),
      Version("TASK", "NOCHILD", FALSE, "skip"),
      Version("CHILD", "WAIT", FALSE, "fail_workflow"),
      Version("SKIPPED", "APPROVAL", TRUE, "fail_workflow"),
      Version("APPROVAL", "TASK", TRUE, "fail_workflow"),
      Version("TASK", "BROKEN", TRUE, "fail_workflow"),
      Version("TASK", "UNTRIED", FALSE, "compensate") }

OwnWorker == [r \in Request |-> <<"worker", r>>]
ApprovalOnly == { Version("TASK", "APPROVAL", TRUE, "fail_workflow") }
=============================================================================
