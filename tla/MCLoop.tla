------------------------------- MODULE MCLoop -------------------------------
EXTENDS SelectLoop

Packet(header, len, rval, line) == [header |-> header, len |-> len, rval |-> rval, line |-> line]

\* One that is as it should be, one that is not and ends a line, one without a header, and a
\* HELLO of a player who returns.
Kinds == {Packet("ok", 2, "ok", FALSE), Packet("ok", 0, "wrong", TRUE), Packet("bad", 0, "ok", FALSE),
          Packet("ok", 0, "return", FALSE)}

\* Bound: one thread disconnects at a time.
OneLeaves == Cardinality({f \in Fds : leaving[f] # "no"}) <= 1
=============================================================================
