-------------------------- MODULE MCFailoverCases ---------------------------
EXTENDS FailoverCases

MCTriggerPool == {[metric |-> "rsrp", op |-> "<", value |-> -1], [metric |-> "latency", op |-> ">", value |-> 1],
                  [metric |-> "rsrp", op |-> "invalid", value |-> 0]}
MCRsrp == -3..0
=============================================================================
