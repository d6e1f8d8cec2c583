------------------------------ MODULE MCFrames ------------------------------
(* Small instances of the example SCHEDULER-FLP-EPN.                       *)
EXTENDS FrameScheduling

\* All devices start at time 1, except the EPNs.
Configuration(epns, flps, amount, maxSlots, programTime, epnStart, slow) ==
    [epns |-> epns, flps |-> flps, amount |-> amount, maxSlots |-> maxSlots,
     programTime |-> programTime, slow |-> slow,
     start |-> [scheduler |-> 1, flps |-> 1, epns |-> epnStart]]

MCConfigurations ==
    {\* one of each, in every interleaving with the clock
     Configuration(1, 1, 1, 1, 3, 1, Parties),
     \* a scheduler that may be slow
     Configuration(1, 1, 1, 1, 4, 1, {"scheduler"}),
     \* two EPNs with one slot: the schedules alternate between them
     Configuration(2, 2, 1, 1, 5, 2, {}),
     \* three EPNs, and a schedule that is longer than there are EPNs
     Configuration(3, 1, 2, 1, 3, 2, {}),
     Configuration(1, 1, 2, 1, 4, 2, {}),
     \* two EPNs in a schedule, whose reports may be late
     Configuration(2, 1, 2, 1, 3, 1, {"reports"}),
     \* two FLPs, and senders that may be slower than the scheduler
     Configuration(1, 2, 1, 1, 4, 2, {"senders"}),
     \* an EPN with two slots, and one with too few that is behind
     Configuration(1, 1, 1, 2, 6, 2, {}),
     Configuration(1, 1, 1, 1, 5, 2, {"epns"})}

=============================================================================
