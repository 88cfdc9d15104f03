---------------------------- MODULE MCConnectSink ----------------------------
\* Small instances of ConnectSink.
EXTENDS ConnectSink, TLC

CONSTANTS s1, s2, a, b

Terminals == Permutations(Script)

OneListed == {a}
Topic     == <<a, "odd", b>>

\* Bound: one fault, of a command or of a write, and none where commands have
\* overlapped; after either the task starts once and reads nothing, and once it
\* has read anything one file at most is moved to the path.
Small ==
    /\ overlapped => faults = 0
    /\ overlapped \/ faults > 0 =>
          sessions <= 1 /\ lines = <<>> /\ position = 0 /\ failures = 0
    /\ lines # <<>> \/ position > 0 => path <= 2

=============================================================================
