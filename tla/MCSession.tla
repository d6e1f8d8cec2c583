----------------------------- MODULE MCSession ------------------------------
\* Instances of ShmSession for TLC.
EXTENDS ShmSession, TLC

CONSTANTS d1, d2, d3, d4, m1

TwoDevices == {d1, d2}
FourDevices == {d1, d2, d3, d4}
OneMonitor == {m1}

\* Devices are interchangeable; only used where no liveness is checked.
DeviceSymmetry == Permutations(Devices)
=============================================================================
