---------------------------- MODULE MCUsbhidDump ----------------------------
\* Instances of UsbhidDump for TLC.
EXTENDS UsbhidDump

\* Every call may fail.
AllHostFaults == HostFaultKinds
AllFaults     == FaultKinds

\* Failures of the stream that end it in each of its ways: between two
\* submissions, in an event loop, and with a transfer left in flight.
StreamFaults == {"submit", "events", "cancel_finished"}

\* libusb_alloc_transfer() runs out of memory, everything else works.
OutOfMemory == {"transfer"}
None == {}

ExitOnly   == ExitSignals
Everything == AllSignals
Background == {"SIGINT"}    \* "usbhid-dump &" in a shell without job control
First      == {1}
=============================================================================
