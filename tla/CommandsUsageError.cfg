\* A server's header makes a fetch end like a mistake in the command line.
SPECIFICATION Spec
INVARIANTS UsageErrorIsTheCallers
CHECK_DEADLOCK FALSE
