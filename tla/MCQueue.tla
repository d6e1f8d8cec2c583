------------------------------ MODULE MCQueue -------------------------------
\* Instance of QueuedStateMachine for TLC.
EXTENDS QueuedStateMachine

TwoCallers == {"a", "b"}
=============================================================================
