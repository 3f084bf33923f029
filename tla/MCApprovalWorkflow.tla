-------------------------- MODULE MCApprovalWorkflow --------------------------
EXTENDS ApprovalWorkflow, TLC

MCConfig(use, id, require, block) ==
    [use_rules |-> use, rule_set_id |-> id, require |-> require, block |-> block]

\* As shipped; with a set named that must be approved; and one that need not.
MCRunConfigs == {MCConfig(TRUE, 0, TRUE, FALSE), MCConfig(TRUE, 1, TRUE, TRUE),
                 MCConfig(TRUE, 1, FALSE, FALSE)}

\* A set is named that must be approved, in a run that does not block.
MCUnblocked == {MCConfig(TRUE, 1, TRUE, FALSE)}

\* A second set is there for the race of two creations only.
MCMaxWrites == <<4, 2>>

MCSymmetry == Permutations(Sessions)

===============================================================================
