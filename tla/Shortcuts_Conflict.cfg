SPECIFICATION Spec
INVARIANT NoShortcutConflict
CHECK_DEADLOCK FALSE
