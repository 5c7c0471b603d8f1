---------------------------- MODULE MCUhdStream ----------------------------
\* Instances of UhdStream for TLC: two interfaces, so that their transfers can
\* be in different states when a signal or an error arrives.
EXTENDS UhdStream

\* Every call may fail.
AllFaults == FaultKinds

\* Every call may fail except a cancellation.
NoRefusal == FaultKinds \ {"cancel", "cancel_finished"}

\* Nothing fails but the cancellation of a transfer the kernel has finished.
FinishedRefused == {"cancel_finished"}

NoFaults == {}
=============================================================================
