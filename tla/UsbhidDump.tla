----------------------------- MODULE UsbhidDump -----------------------------
(***************************************************************************)
(* The whole of usbhid-dump: main() and run() (usbhid-dump/usbhid-dump.c)   *)
(* with the interface operations they use (usbhid-dump/iface.c), around the *)
(* stream of UhdStream.  The program borrows HID interfaces from their      *)
(* kernel driver; signals may arrive between any two of its steps, other    *)
(* programs may bind or claim an interface nobody has, and most calls may   *)
(* fail.                                                                   *)
(***************************************************************************)
EXTENDS UhdStream

CONSTANTS
    HostFaults,     \* the calls of main() and run() that may fail
    Signals,        \* the signals sent in this instance
    MayBeIgnored,   \* signals the parent may have had ignored (nohup, &)
    Contested       \* interfaces other programs take an interest in

HostFaultKinds == {"init", "dev_open", "iface_list", "no_match", "detach",
                   "claim", "descriptor", "release", "attach"}
PauseSignals == {"SIGUSR1", "SIGUSR2"}
AllSignals   == ExitSignals \cup PauseSignals

ASSUME HostFaultsAssumption   == HostFaults \subseteq HostFaultKinds
ASSUME SignalsAssumption      == Signals \subseteq AllSignals
ASSUME MayBeIgnoredAssumption == MayBeIgnored \subseteq AllSignals
ASSUME ContestedAssumption    == Contested \subseteq Iface

VARIABLES
    mpc,            \* control point of main() and run()
    at,             \* interface the loops of run() are at
    entity,         \* option -e: what to dump
    status,         \* result of run(), 0 or 1
    detached,       \* iface->detached
    claimed,        \* iface->claimed
    holder,         \* kernel: whose driver is bound to the interface
    disposition,    \* kernel: what a signal does to the process
    delivered,      \* history: exit signals that arrived and were not ignored
    excused         \* history: interfaces the kernel did not take back

mainVars   == <<mpc, at, entity, status>>
ifaceVars  == <<detached, claimed, holder, excused>>
sigVars    == <<disposition, delivered>>
allVars    == <<vars, mainVars, ifaceVars, sigVars>>

Terminal == {"exited", "killed", "crashed"}

MainPoints == {"sig_int", "sig_term", "sig_usr1", "sig_usr2", "init", "dev_open",
               "iface_list", "detach", "claim", "descriptor", "stream",
               "release", "attach", "close", "restore_int", "restore_term",
               "raise"} \cup Terminal

MainTypeOK ==
    /\ TypeOK
    /\ mpc \in MainPoints
    /\ at \in Iface
    /\ entity \in {"descriptor", "stream", "all"}
    /\ status \in {0, 1}
    /\ detached \in [Iface -> BOOLEAN]
    /\ claimed \in [Iface -> BOOLEAN]
    /\ holder \in [Iface -> {"kernel", "nobody", "us", "other"}]
    /\ disposition \in [AllSignals -> {"default", "ignored", "handler"}]
    /\ delivered \subseteq ExitSignals
    /\ excused \subseteq Iface

MainInit ==
    /\ Init
    /\ mpc = "sig_int"
    /\ at = 1
    /\ entity \in {"descriptor", "stream", "all"}
    /\ status = 1
    /\ detached = [t \in Iface |-> FALSE]
    /\ claimed = [t \in Iface |-> FALSE]
    /\ holder \in [Iface -> {"kernel", "nobody", "other"}]
    /\ \A t \in Iface \ Contested : holder[t] # "other"
    /\ disposition \in [AllSignals -> {"default", "ignored"}]
    /\ \A s \in AllSignals \ MayBeIgnored : disposition[s] = "default"
    /\ delivered = {}
    /\ excused = {}

HostFault(kind) == kind \in HostFaults

-----------------------------------------------------------------------------
(***************************************************************************)
(* main() before and after run(): the signal handlers.                     *)
(***************************************************************************)

\* A signal inherited as ignored stays ignored; the pause signals are taken
\* over regardless.
Handled(d) == IF d = "ignored" THEN "ignored" ELSE "handler"

Bug_KeepHandler(d) == d
Restored(d) == IF d = "ignored" THEN "ignored" ELSE "default"

SetDisposition(from, to, s, d) ==
    /\ mpc = from
    /\ mpc' = to
    /\ disposition' = [disposition EXCEPT ![s] = d]
    /\ UNCHANGED <<vars, at, entity, status, ifaceVars, delivered>>

SetupInt  == SetDisposition("sig_int", "sig_term", "SIGINT",
                            Handled(disposition["SIGINT"]))
SetupTerm == SetDisposition("sig_term", "sig_usr1", "SIGTERM",
                            Handled(disposition["SIGTERM"]))
SetupUsr1 == SetDisposition("sig_usr1", "sig_usr2", "SIGUSR1", "handler")
SetupUsr2 == SetDisposition("sig_usr2", "init", "SIGUSR2", "handler")

RestoreInt  == SetDisposition("restore_int", "restore_term", "SIGINT",
                              Restored(disposition["SIGINT"]))
RestoreTerm == SetDisposition("restore_term", "raise", "SIGTERM",
                              Restored(disposition["SIGTERM"]))

\* Reproduce the signal that stopped the program; a handler would only return.
Raise ==
    /\ mpc = "raise"
    /\ mpc' = IF exit_signum # "none" /\ disposition[exit_signum] = "default"
              THEN "killed" ELSE "exited"
    /\ UNCHANGED <<vars, at, entity, status, ifaceVars, sigVars>>

-----------------------------------------------------------------------------
(***************************************************************************)
(* run() up to the dumping.                                                *)
(***************************************************************************)

Bug_AttachFirst == <<"attach", "release">>
CleanupOrder == <<"release", "attach">>

ToCleanup == mpc' = CleanupOrder[1] /\ at' = 1

\* A step of run() before there is an interface list: failing, or finding no
\* interface, goes to the end of the cleanup.
Discover(from, to, kinds) ==
    /\ mpc = from
    /\ \/ mpc' = to
       \/ (\E kind \in kinds : HostFault(kind)) /\ mpc' = "close"
    /\ UNCHANGED <<vars, at, entity, status, ifaceVars, sigVars>>

InitContext    == Discover("init", "dev_open", {"init"})
OpenDevices    == Discover("dev_open", "iface_list", {"dev_open"})
ListInterfaces == Discover("iface_list", "detach", {"iface_list", "no_match"})

\* One more round of a loop over the interfaces, from point again.
Bug_NextTooFar(again, next) ==
    IF at <= N THEN at' = at + 1 /\ mpc' = again
               ELSE at' = 1 /\ mpc' = next
NextInterface(again, next) ==
    IF at < N THEN at' = at + 1 /\ mpc' = again
              ELSE at' = 1 /\ mpc' = next

FirstDump == IF entity = "stream" THEN "stream" ELSE "descriptor"

\* uhd_iface_detach(): no kernel driver to detach (NOT_FOUND) is no error.
Detach ==
    /\ mpc = "detach"
    /\ \/ /\ holder[at] = "kernel"
          /\ holder' = [holder EXCEPT ![at] = "nobody"]
          /\ detached' = [detached EXCEPT ![at] = TRUE]
          /\ mpc' = "claim" /\ UNCHANGED at
       \/ /\ holder[at] # "kernel"
          /\ mpc' = "claim" /\ UNCHANGED <<at, holder, detached>>
       \/ /\ HostFault("detach")
          /\ ToCleanup /\ UNCHANGED <<holder, detached>>
    /\ UNCHANGED <<vars, entity, status, claimed, excused, sigVars>>

\* uhd_iface_claim(): someone else may have bound the interface meanwhile.
Claim ==
    /\ mpc = "claim"
    /\ \/ /\ holder[at] = "nobody"
          /\ holder' = [holder EXCEPT ![at] = "us"]
          /\ claimed' = [claimed EXCEPT ![at] = TRUE]
          /\ NextInterface("detach", FirstDump)
       \/ /\ holder[at] # "nobody" \/ HostFault("claim")
          /\ ToCleanup /\ UNCHANGED <<holder, claimed>>
    /\ UNCHANGED <<vars, entity, status, detached, excused, sigVars>>

-----------------------------------------------------------------------------
(***************************************************************************)
(* The dumping.                                                            *)
(***************************************************************************)

\* dump_iface_list_descriptor(): the first failure ends it, and there is no
\* stream then.
DumpDescriptor ==
    /\ mpc = "descriptor"
    /\ \/ /\ at < N
          /\ at' = at + 1 /\ UNCHANGED <<mpc, status>>
       \/ /\ at = N
          /\ at' = 1
          /\ IF entity = "descriptor"
             THEN mpc' = CleanupOrder[1] /\ status' = 0
             ELSE mpc' = "stream" /\ UNCHANGED status
       \/ HostFault("descriptor") /\ ToCleanup /\ UNCHANGED status
    /\ UNCHANGED <<vars, entity, ifaceVars, sigVars>>

Stream ==
    /\ mpc = "stream"
    /\ Program
    /\ UNCHANGED <<mainVars, ifaceVars, sigVars>>

Bug_StreamStatus == 0
StreamStatus == IF result THEN 0 ELSE 1

StreamReturned ==
    /\ mpc = "stream" /\ pc = "returned"
    /\ status' = StreamStatus
    /\ ToCleanup
    /\ UNCHANGED <<vars, entity, ifaceVars, sigVars>>

\* The kernel drops the claims of a process that is gone.
DropClaims ==
    holder' = [t \in Iface |-> IF holder[t] = "us" THEN "nobody" ELSE holder[t]]

StreamCrashed ==
    /\ mpc = "stream" /\ pc = "crashed"
    /\ mpc' = "crashed"
    /\ DropClaims
    /\ UNCHANGED <<vars, at, entity, status, detached, claimed, excused,
                   sigVars>>

-----------------------------------------------------------------------------
(***************************************************************************)
(* The cleanup of run().  Each interface is released, then attached back;   *)
(* an error is reported and the cleanup goes on.                           *)
(***************************************************************************)

Bug_AttachOnlyAfterSuccess(t) == detached[t] /\ status = 0
NeedsAttach(t) == detached[t]

AfterCleanupOf(point) ==
    IF point = CleanupOrder[1]
    THEN mpc' = CleanupOrder[2] /\ UNCHANGED at
    ELSE NextInterface(CleanupOrder[1], "close")

\* uhd_iface_release(); an interface that is not claimed is an error too.
Release ==
    /\ mpc = "release"
    /\ AfterCleanupOf("release")
    /\ \/ /\ holder[at] = "us"
          /\ holder' = [holder EXCEPT ![at] = "nobody"]
          /\ claimed' = [claimed EXCEPT ![at] = FALSE]
          /\ UNCHANGED excused
       \/ /\ holder[at] # "us"
          /\ UNCHANGED <<holder, claimed, excused>>
       \/ /\ HostFault("release")
          /\ excused' = excused \cup {at}
          /\ UNCHANGED <<holder, claimed>>
    /\ UNCHANGED <<vars, entity, status, detached, sigVars>>

\* uhd_iface_attach(): nothing to do unless uhd_iface_detach() took the
\* interface from its driver.
Attach ==
    /\ mpc = "attach"
    /\ AfterCleanupOf("attach")
    /\ \/ /\ NeedsAttach(at) /\ holder[at] = "nobody"
          /\ holder' = [holder EXCEPT ![at] = "kernel"]
          /\ detached' = [detached EXCEPT ![at] = FALSE]
          /\ UNCHANGED excused
       \/ /\ NeedsAttach(at) /\ holder[at] = "us"
          /\ UNCHANGED <<holder, detached, excused>>
       \/ /\ NeedsAttach(at)
          /\ holder[at] \in {"kernel", "other"} \/ HostFault("attach")
          /\ excused' = excused \cup {at}
          /\ UNCHANGED <<holder, detached>>
       \/ /\ ~NeedsAttach(at)
          /\ UNCHANGED <<holder, detached, excused>>
    /\ UNCHANGED <<vars, entity, status, claimed, sigVars>>

\* Free the interface list, close the devices, destroy the context.
Close ==
    /\ mpc = "close"
    /\ mpc' = "restore_int"
    /\ DropClaims
    /\ claimed' = [t \in Iface |-> FALSE]
    /\ UNCHANGED <<vars, at, entity, status, detached, excused, sigVars>>

Thread ==
    \/ SetupInt \/ SetupTerm \/ SetupUsr1 \/ SetupUsr2
    \/ InitContext \/ OpenDevices \/ ListInterfaces
    \/ Detach \/ Claim
    \/ DumpDescriptor \/ Stream \/ StreamReturned \/ StreamCrashed
    \/ Release \/ Attach \/ Close
    \/ RestoreInt \/ RestoreTerm \/ Raise

-----------------------------------------------------------------------------
(***************************************************************************)
(* The rest of the system.                                                 *)
(***************************************************************************)

Alive == mpc \notin Terminal

Devices ==
    /\ Alive
    /\ Kernel
    /\ UNCHANGED <<mainVars, ifaceVars, sigVars>>

\* A handler runs between two steps of the thread, or the signal kills it.
Deliver(s) ==
    /\ Alive
    /\ disposition[s] # "ignored"
    /\ delivered' = delivered \cup ({s} \cap ExitSignals)
    /\ IF disposition[s] = "default"
       THEN mpc' = "killed" /\ DropClaims /\ UNCHANGED vars
       ELSE /\ \/ s \in ExitSignals /\ ExitSignal(s)
               \/ s = "SIGUSR1" /\ Pause
               \/ s = "SIGUSR2" /\ Resume
            /\ UNCHANGED <<mpc, holder>>
    /\ UNCHANGED <<at, entity, status, detached, claimed, excused, disposition>>

\* Another program claims a free interface or lets go of its own, or a driver
\* is bound to a free one.
Others(t) ==
    /\ Alive
    /\ \E move \in {<<"nobody", "other">>, <<"nobody", "kernel">>,
                    <<"other", "nobody">>} :
          /\ holder[t] = move[1]
          /\ holder' = [holder EXCEPT ![t] = move[2]]
    /\ UNCHANGED <<vars, mainVars, detached, claimed, excused, sigVars>>

Halted == mpc \in Terminal /\ UNCHANGED allVars

MainNext ==
    \/ Thread
    \/ Devices
    \/ \E s \in Signals : Deliver(s)
    \/ \E t \in Contested : Others(t)
    \/ Halted

MainFairness ==
    /\ WF_allVars(Thread)
    /\ \A t \in Iface : WF_allVars(Devices /\ TimeOut(t))
                      /\ WF_allVars(Devices /\ CancelDone(t))

MainSpec == MainInit /\ [][MainNext]_allVars
FairMainSpec == MainSpec /\ MainFairness

-----------------------------------------------------------------------------
(***************************************************************************)
(* Properties.                                                             *)
(***************************************************************************)

\* Whatever fails and whenever a signal comes, the program treats the
\* interfaces as DriverLoan promises: claimed only when free, and given back
\* before the program ends, unless the kernel refuses.
Loan == INSTANCE DriverLoan WITH
            owed <- {t \in Iface : detached[t]},
            ended <- mpc \in Terminal
KeepsLoanPromise == Loan!Spec

\* However the program ends, an interface it took from its kernel driver is
\* back there, unless the kernel refused or another program has it.
HandedBack ==
    mpc \in Terminal => \A t \in Iface : detached[t] => t \in excused

\* An interface is not released under a transfer that is in flight, except for
\* a transfer whose cancellation was refused or could not be waited for.
FlightOnlyWhileClaimed ==
    Alive => \A t \in Iface :
        urb[t] # "idle" => holder[t] = "us" \/ t \in refused \/ drainFailed

\* The parent sees the program die of the signal that ended it: it never exits
\* normally after SIGINT or SIGTERM came, not even if one comes after run().
NoSignalLost == mpc = "exited" => delivered = {}

\* Exit status 0 means descriptors only, and all of them: a dump that includes
\* the stream either dies of a signal or fails.
ZeroMeansDescriptors == mpc = "exited" /\ status = 0 => entity = "descriptor"

-----------------------------------------------------------------------------
(***************************************************************************)
(* The inductive invariant behind the safety properties; the stream inside  *)
(* it keeps its own, StreamInv.                                            *)
(***************************************************************************)

\* The control points, in the order main() and run() pass them.
SettingUp == {"sig_int", "sig_term", "sig_usr1", "sig_usr2"}
Searching == {"init", "dev_open", "iface_list"}
Borrowing == {"detach", "claim"}
Dumping   == {"descriptor", "stream"}
Returning == {"release", "attach"}
Leaving   == {"restore_int", "restore_term", "raise"}

\* The loops over the interfaces begin at the first; the stream runs from its
\* call to its return.
PlaceInv ==
    /\ mpc \notin Borrowing \cup {"descriptor"} \cup Returning => at = 1
    /\ mpc \notin {"stream", "crashed"} => pc \in {"idle", "returned"}
    /\ mpc = "crashed" => pc = "crashed"

\* Which signals are caught: none of them kills the program inside run().
Caught(S) == \A s \in S : disposition[s] # "default"
HandlerInv ==
    /\ mpc = "sig_term" => Caught({"SIGINT"})
    /\ mpc = "sig_usr1" => Caught(ExitSignals)
    /\ mpc = "sig_usr2" => Caught(ExitSignals \cup {"SIGUSR1"})
    /\ mpc \in Searching \cup Borrowing \cup Dumping \cup Returning
              \cup {"close", "restore_int"} => Caught(AllSignals)
    /\ mpc = "restore_term" => disposition["SIGINT"] # "handler"
    /\ mpc = "raise" => \A s \in ExitSignals : disposition[s] # "handler"

\* An exit signal that came is remembered until main() raises it again.
SignalInv ==
    /\ delivered # {} /\ mpc # "killed" => exit_signum # "none"
    /\ exit_signum # "none" => disposition[exit_signum] # "ignored"
    /\ mpc = "exited" => exit_signum = "none"

StatusInv == status = 0 => entity = "descriptor" \/ exit_signum # "none"

\* Whose the interfaces are: ours from the claim to the release, except one
\* that could not be released.
HolderInv ==
    /\ mpc \in SettingUp \cup Searching \cup Leaving \cup Terminal
           => \A t \in Iface : holder[t] # "us"
    /\ mpc \in Borrowing => \A t \in 1..(at - 1) : holder[t] = "us"
    /\ mpc \in Dumping => \A t \in Iface : holder[t] = "us"
    /\ mpc = "attach" => holder[at] # "us" \/ at \in excused

\* Which of them are still to be given back.
Settled(t) == detached[t] => t \in excused
OwedInv ==
    /\ mpc \in SettingUp \cup Searching => \A t \in Iface : ~detached[t]
    /\ mpc = "detach" => \A t \in at..N : ~detached[t]
    /\ mpc = "claim" => \A t \in (at + 1)..N : ~detached[t]
    /\ mpc \in Returning => \A t \in 1..(at - 1) : Settled(t)
    /\ mpc \in {"close", "exited", "killed"} \cup Leaving
           => \A t \in Iface : Settled(t)

\* With memory for every transfer the stream finds no empty slot.
MemoryInv ==
    "transfer" \notin Faults =>
        /\ pc # "crashed"
        /\ pc # "alloc" => \A t \in Iface : transfer[t] # "null"

MainInv ==
    /\ MainTypeOK
    /\ StreamInv
    /\ PlaceInv
    /\ HandlerInv
    /\ SignalInv
    /\ StatusInv
    /\ HolderInv
    /\ OwedInv
    /\ MemoryInv

\* SIGINT and SIGTERM end the program, wherever it is.
SignalEndsProgram == delivered # {} ~> mpc \in Terminal
=============================================================================
