----------------------------- MODULE MCVbdScsi -----------------------------
EXTENDS VbdScsi
\* One command of each kind: to the ring, answered, refused with and without sense of its own,
\* and the functions that are no command.
Kinds == {[op |-> o] : o \in {"READ", "READ_CAPACITY", "REQUEST_SENSE", "UNKNOWN", "FLUSH", "RESET_BUS"}}
             \cup {[op |-> "INQUIRY", page |-> "BLOCK_LIMITS"]}
=============================================================================
