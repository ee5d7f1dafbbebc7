SPECIFICATION Spec
INVARIANTS StackCannotUnderflow TablesAgree
PROPERTY DeployedCodeKeepsItsMeaning
CHECK_DEADLOCK FALSE
