----------------------------- MODULE UhdStream -----------------------------
(***************************************************************************)
(* usbhid-dump's interrupt stream: dump_iface_list_stream(), its completion *)
(* callback and its signal handlers (usbhid-dump/usbhid-dump.c).            *)
(*                                                                         *)
(* One thread runs the function and, inside libusb_handle_events(), the     *)
(* callbacks.  Three other parties move between any two of its steps: the   *)
(* kernel finishes URBs, the user stops typing, and signal handlers set     *)
(* exit_signum and stream_paused.                                          *)
(*                                                                         *)
(* Interface t and the transfer in slot t of transfer_list go together.     *)
(* A URB is what libusb holds for a submitted transfer until it has called  *)
(* the transfer's callback: "pending" or "cancelling" in the kernel, then   *)
(* finished with some status and not yet reported.                         *)
(***************************************************************************)
EXTENDS Naturals

CONSTANTS
    N,          \* number of interfaces on the list, run() refuses 0 of them
    Faults      \* the calls that may fail in this instance

FaultKinds == {"control", "list", "transfer", "buffer", "submit", "events",
               "device", "cancel", "cancel_finished"}

ASSUME NAssumption      == N \in Nat \ {0}
ASSUME FaultsAssumption == Faults \subseteq FaultKinds

Iface == 1..N

\* transfer->status as the callback sees it; ERROR, STALL, NO_DEVICE and
\* OVERFLOW only differ in the message printed and are one "failed".
Finished == {"completed", "timed_out", "failed", "cancelled"}
InKernel == {"pending", "cancelling"}
ExitSignals == {"SIGINT", "SIGTERM"}

VARIABLES
    pc,             \* control point of the thread
    phase,          \* which of the two event loops: "run" or "wait"
    idx,            \* interface (and slot) the current for loop is at
    todo,           \* finished transfers this libusb_handle_events() reports
    cur,            \* transfer whose callback is running
    result,         \* local: what the function will return
    submitted,      \* local: "have any submitted transfers"
    transfer,       \* slot of transfer_list, "none" while there is no list
    ifsubmitted,    \* iface->submitted
    urb,            \* libusb's and the kernel's view of the transfer
    exit_signum,    \* global, 0 is "none"
    stream_paused,  \* global
    infinite,       \* argument: timeout 0, which libusb takes as "never"
    input,          \* interfaces whose device the user still uses
    refused,        \* history: libusb_cancel_transfer() refused these
    drainFailed,    \* history: the wait for cancellations was broken off
    pausedDumps     \* history: dumps made since the stream was paused

threadVars == <<pc, phase, idx, todo, cur>>
localVars  == <<result, submitted, transfer, ifsubmitted>>
signalVars == <<exit_signum, stream_paused>>
userVars   == <<infinite, input>>
historyVars == <<refused, drainFailed>>
vars == <<threadVars, localVars, urb, signalVars, userVars, historyVars,
          pausedDumps>>

Points == {"idle", "prepare", "alloc_list", "alloc", "fill", "submit", "loop",
           "poll", "dispatch", "cb_check", "cb_dump", "cb_resubmit", "scan",
           "after", "cleanup", "cancel", "free", "returned", "crashed"}

TypeOK ==
    /\ pc \in Points
    /\ phase \in {"run", "wait"}
    /\ idx \in Iface
    /\ todo \subseteq Iface
    /\ cur \in Iface
    /\ result \in BOOLEAN
    /\ submitted \in BOOLEAN
    /\ transfer \in [Iface -> {"none", "null", "alloc", "filled", "freed"}]
    /\ ifsubmitted \in [Iface -> BOOLEAN]
    /\ urb \in [Iface -> {"idle"} \cup InKernel \cup Finished]
    /\ exit_signum \in {"none"} \cup ExitSignals
    /\ stream_paused \in BOOLEAN
    /\ infinite \in BOOLEAN
    /\ input \subseteq Iface
    /\ refused \subseteq Iface
    /\ drainFailed \in BOOLEAN
    /\ pausedDumps \in Nat

Init ==
    /\ pc = "idle"
    /\ phase = "run"
    /\ idx = 1
    /\ todo = {}
    /\ cur = 1
    /\ result = FALSE
    /\ submitted = FALSE
    /\ transfer = [t \in Iface |-> "none"]
    /\ ifsubmitted = [t \in Iface |-> FALSE]
    /\ urb = [t \in Iface |-> "idle"]
    /\ exit_signum = "none"
    /\ stream_paused \in BOOLEAN        \* option -p
    /\ infinite \in BOOLEAN
    /\ input = Iface
    /\ refused = {}
    /\ drainFailed = FALSE
    /\ pausedDumps = 0

-----------------------------------------------------------------------------
(***************************************************************************)
(* The conditions of the code.  A definition Bug_X before one of them is a  *)
(* mistake the properties are tried against; no specification uses it.      *)
(***************************************************************************)

\* iface != NULL && iface->submitted: user_data is NULL until the slot is
\* filled in.
HasSubmitted(t) == transfer[t] = "filled" /\ ifsubmitted[t]

\* The scan after libusb_handle_events().
Bug_ScanNeverClears == submitted \/ \E t \in Iface : HasSubmitted(t)
AnySubmitted == \E t \in Iface : HasSubmitted(t)

\* The conditions of the two event loops.
Bug_LoopIgnoresSignal == submitted
Bug_NoDrain == submitted /\ phase = "run" /\ exit_signum = "none"
LoopCondition == submitted /\ (phase = "run" => exit_signum = "none")

\* All transfers ended by themselves: the function fails.
Bug_EndIsNoError == FALSE
TransfersEnded == ~submitted

\* What the callback does for each status: only COMPLETED goes on.
Bug_ResubmitTimedOut(status) == status \in {"completed", "timed_out"}
Bug_ResubmitCancelled(status) == status \in {"completed", "cancelled"}
GoesOn(status) == status = "completed"

Bug_DumpWhilePaused == TRUE
MayDump == ~stream_paused

\* iface->submitted when a callback begins, and after a refused cancellation.
Bug_CallbackKeepsFlag == TRUE
CallbackFlag == FALSE
Bug_RefusalKeepsFlag == TRUE
RefusalFlag == FALSE

\* iface == NULL || !iface->submitted
Bug_FreeAlways(t) == TRUE
MayFree(t) == ~HasSubmitted(t)

\* One more round of a loop over the slots, or on to point next.
Bug_AdvanceTooFar(next) ==
    IF idx <= N THEN idx' = idx + 1 /\ pc' = pc
                ELSE idx' = 1 /\ pc' = next
Advance(next) ==
    IF idx < N THEN idx' = idx + 1 /\ pc' = pc
               ELSE idx' = 1 /\ pc' = next

Fault(kind) == kind \in Faults

\* A GUARD macro: report the error and jump to cleanup.
Fail(kind) ==
    /\ Fault(kind)
    /\ pc' = "cleanup"
    /\ idx' = 1

-----------------------------------------------------------------------------
(***************************************************************************)
(* The thread, from the call to the first submissions.                     *)
(***************************************************************************)

Call ==
    /\ pc = "idle"
    /\ pc' = "prepare"
    /\ UNCHANGED <<phase, idx, todo, cur, localVars, urb, signalVars, userVars,
                   historyVars, pausedDumps>>

\* Set_Protocol and Set_Idle of one interface; a stalled request is no error.
Prepare ==
    /\ pc = "prepare"
    /\ Advance("alloc_list") \/ Fail("control")
    /\ UNCHANGED <<phase, todo, cur, localVars, urb, signalVars, userVars,
                   historyVars, pausedDumps>>

AllocList ==
    /\ pc = "alloc_list"
    /\ \/ pc' = "alloc" /\ idx' = 1 /\ transfer' = [t \in Iface |-> "null"]
       \/ Fail("list") /\ UNCHANGED transfer
    /\ UNCHANGED <<phase, todo, cur, result, submitted, ifsubmitted, urb,
                   signalVars, userVars, historyVars, pausedDumps>>

AllocTransfer ==
    /\ pc = "alloc"
    /\ \/ Advance("fill") /\ transfer' = [transfer EXCEPT ![idx] = "alloc"]
       \/ Fail("transfer") /\ UNCHANGED transfer
    /\ UNCHANGED <<phase, todo, cur, result, submitted, ifsubmitted, urb,
                   signalVars, userVars, historyVars, pausedDumps>>

FillTransfer ==
    /\ pc = "fill"
    /\ \/ Advance("submit") /\ transfer' = [transfer EXCEPT ![idx] = "filled"]
       \/ Fail("buffer") /\ UNCHANGED transfer
    /\ UNCHANGED <<phase, todo, cur, result, submitted, ifsubmitted, urb,
                   signalVars, userVars, historyVars, pausedDumps>>

SubmitFirst ==
    /\ pc = "submit"
    /\ \/ /\ Advance("loop")
          /\ urb' = [urb EXCEPT ![idx] = "pending"]
          /\ ifsubmitted' = [ifsubmitted EXCEPT ![idx] = TRUE]
          /\ submitted' = TRUE
       \/ Fail("submit") /\ UNCHANGED <<urb, ifsubmitted, submitted>>
    /\ UNCHANGED <<phase, todo, cur, result, transfer, signalVars, userVars,
                   historyVars, pausedDumps>>

-----------------------------------------------------------------------------
(***************************************************************************)
(* The event loops and the callback.  Both loops have the same body: call   *)
(* libusb_handle_events(), then scan the flags.                            *)
(***************************************************************************)

Loop ==
    /\ pc = "loop"
    /\ pc' = CASE LoopCondition                    -> "poll"
               [] ~LoopCondition /\ phase = "run"  -> "after"
               [] ~LoopCondition /\ phase = "wait" -> "free"
    /\ UNCHANGED <<phase, idx, todo, cur, localVars, urb, signalVars, userVars,
                   historyVars, pausedDumps>>

\* libusb_handle_events() returns after at most 60 seconds even if nothing
\* happens, and a signal interrupts it (no SA_RESTART), so it may always
\* return with nothing to report.
Poll ==
    /\ pc = "poll"
    /\ todo' = {t \in Iface : urb[t] \in Finished}
    /\ pc' = "dispatch"
    /\ UNCHANGED <<phase, idx, cur, localVars, urb, signalVars, userVars,
                   historyVars, pausedDumps>>

PollError ==
    /\ pc = "poll"
    /\ Fault("events")
    /\ IF phase = "run"
       THEN pc' = "cleanup" /\ UNCHANGED drainFailed
       ELSE pc' = "free" /\ drainFailed' = TRUE
    /\ UNCHANGED <<phase, idx, todo, cur, localVars, urb, signalVars, userVars,
                   refused, pausedDumps>>

\* libusb takes the transfer off its list, then calls the callback.
Callback(t) ==
    /\ pc = "dispatch"
    /\ t \in todo
    /\ todo' = todo \ {t}
    /\ cur' = t
    /\ urb' = [urb EXCEPT ![t] = "idle"]
    /\ ifsubmitted' = [ifsubmitted EXCEPT ![t] = CallbackFlag]
    /\ pc' = IF GoesOn(urb[t]) THEN "cb_check" ELSE "dispatch"
    /\ UNCHANGED <<phase, idx, result, submitted, transfer, signalVars,
                   userVars, historyVars, pausedDumps>>

CheckPaused ==
    /\ pc = "cb_check"
    /\ pc' = IF MayDump THEN "cb_dump" ELSE "cb_resubmit"
    /\ UNCHANGED <<phase, idx, todo, cur, localVars, urb, signalVars, userVars,
                   historyVars, pausedDumps>>

Dump ==
    /\ pc = "cb_dump"
    /\ pausedDumps' = IF stream_paused THEN pausedDumps + 1 ELSE pausedDumps
    /\ pc' = "cb_resubmit"
    /\ UNCHANGED <<phase, idx, todo, cur, localVars, urb, signalVars, userVars,
                   historyVars>>

Resubmit ==
    /\ pc = "cb_resubmit"
    /\ pc' = "dispatch"
    /\ \/ /\ urb' = [urb EXCEPT ![cur] = "pending"]
          /\ ifsubmitted' = [ifsubmitted EXCEPT ![cur] = TRUE]
       \/ Fault("submit") /\ UNCHANGED <<urb, ifsubmitted>>
    /\ UNCHANGED <<phase, idx, todo, cur, result, submitted, transfer,
                   signalVars, userVars, historyVars, pausedDumps>>

DispatchDone ==
    /\ pc = "dispatch"
    /\ todo = {}
    /\ pc' = "scan"
    /\ UNCHANGED <<phase, idx, todo, cur, localVars, urb, signalVars, userVars,
                   historyVars, pausedDumps>>

Scan ==
    /\ pc = "scan"
    /\ submitted' = AnySubmitted
    /\ pc' = "loop"
    /\ UNCHANGED <<phase, idx, todo, cur, result, transfer, ifsubmitted, urb,
                   signalVars, userVars, historyVars, pausedDumps>>

After ==
    /\ pc = "after"
    /\ result' = ~TransfersEnded
    /\ pc' = "cleanup"
    /\ UNCHANGED <<phase, idx, todo, cur, submitted, transfer, ifsubmitted,
                   urb, signalVars, userVars, historyVars, pausedDumps>>

-----------------------------------------------------------------------------
(***************************************************************************)
(* Cleanup: cancel, wait for the cancellations, free.                      *)
(***************************************************************************)

Cleanup ==
    /\ pc = "cleanup"
    /\ submitted' = FALSE
    /\ IF submitted THEN pc' = "cancel" /\ UNCHANGED phase
                    ELSE pc' = "loop" /\ phase' = "wait"
    /\ UNCHANGED <<idx, todo, cur, result, transfer, ifsubmitted, urb,
                   signalVars, userVars, historyVars, pausedDumps>>

\* libusb_cancel_transfer() answers LIBUSB_ERROR_NOT_FOUND for a transfer the
\* kernel has already finished ("cancel_finished") and may fail otherwise.
Refusable(t) ==
    \/ Fault("cancel") /\ urb[t] = "pending"
    \/ Fault("cancel_finished") /\ urb[t] \in Finished

CancelTransfer(t) ==
    \/ /\ HasSubmitted(t)
       /\ urb' = [urb EXCEPT ![t] = IF @ \in Finished THEN "cancelled"
                                                      ELSE "cancelling"]
       /\ submitted' = TRUE
       /\ UNCHANGED <<ifsubmitted, refused>>
    \/ /\ HasSubmitted(t)
       /\ Refusable(t)
       /\ ifsubmitted' = [ifsubmitted EXCEPT ![t] = RefusalFlag]
       /\ refused' = refused \cup {t}
       /\ UNCHANGED <<urb, submitted>>
    \/ /\ ~HasSubmitted(t)
       /\ UNCHANGED <<urb, submitted, ifsubmitted, refused>>

Cancel ==
    /\ pc = "cancel"
    /\ CancelTransfer(idx)
    /\ IF idx < N THEN idx' = idx + 1 /\ UNCHANGED <<pc, phase>>
                  ELSE idx' = 1 /\ pc' = "loop" /\ phase' = "wait"
    /\ UNCHANGED <<todo, cur, result, transfer, signalVars, userVars,
                   drainFailed, pausedDumps>>

\* The loop reads (*ptransfer)->user_data before anything else, also in a
\* slot libusb_alloc_transfer() left NULL.
Free ==
    /\ pc = "free"
    /\ \/ /\ transfer[idx] = "none"
          /\ pc' = "returned" /\ idx' = 1 /\ UNCHANGED transfer
       \/ /\ transfer[idx] = "null"
          /\ pc' = "crashed" /\ UNCHANGED <<idx, transfer>>
       \/ /\ transfer[idx] \notin {"none", "null"}
          /\ Advance("returned")
          /\ transfer' = [transfer EXCEPT ![idx] =
                              IF MayFree(idx) THEN "freed" ELSE @]
    /\ UNCHANGED <<phase, todo, cur, result, submitted, ifsubmitted, urb,
                   signalVars, userVars, historyVars, pausedDumps>>

Program ==
    \/ Call \/ Prepare \/ AllocList \/ AllocTransfer \/ FillTransfer
    \/ SubmitFirst
    \/ Loop \/ Poll \/ PollError
    \/ \E t \in Iface : Callback(t)
    \/ CheckPaused \/ Dump \/ Resubmit \/ DispatchDone \/ Scan \/ After
    \/ Cleanup \/ Cancel \/ Free

-----------------------------------------------------------------------------
(***************************************************************************)
(* The kernel, the user and the signal handlers.                           *)
(***************************************************************************)

Finish(t, from, status) ==
    /\ urb[t] = from
    /\ urb' = [urb EXCEPT ![t] = status]
    /\ UNCHANGED <<threadVars, localVars, signalVars, userVars, historyVars,
                   pausedDumps>>

Complete(t)   == t \in input /\ Finish(t, "pending", "completed")
TimeOut(t)    == ~infinite /\ Finish(t, "pending", "timed_out")
DeviceFail(t) == Fault("device") /\ Finish(t, "pending", "failed")
CancelDone(t) == Finish(t, "cancelling", "cancelled")

Kernel ==
    \E t \in Iface :
        Complete(t) \/ TimeOut(t) \/ DeviceFail(t) \/ CancelDone(t)

StopInput(t) ==
    /\ t \in input
    /\ input' = input \ {t}
    /\ UNCHANGED <<threadVars, localVars, urb, signalVars, infinite,
                   historyVars, pausedDumps>>

User == \E t \in Iface : StopInput(t)

\* exit_sighandler(): the first of the two signals is the one remembered.
Remember(s) == IF exit_signum = "none" THEN s ELSE exit_signum

ExitSignal(s) ==
    /\ exit_signum' = Remember(s)
    /\ UNCHANGED <<threadVars, localVars, urb, stream_paused, userVars,
                   historyVars, pausedDumps>>

\* A pause counts from the signal that changed the flag.
Pause ==
    /\ stream_paused' = TRUE
    /\ pausedDumps' = IF stream_paused THEN pausedDumps ELSE 0
    /\ UNCHANGED <<threadVars, localVars, urb, exit_signum, userVars,
                   historyVars>>

Resume ==
    /\ stream_paused' = FALSE
    /\ UNCHANGED <<threadVars, localVars, urb, exit_signum, userVars,
                   historyVars, pausedDumps>>

Signal == (\E s \in ExitSignals : ExitSignal(s)) \/ Pause \/ Resume

\* The process may stop here; nothing of this component moves any more.
Done ==
    /\ pc \in {"returned", "crashed"}
    /\ UNCHANGED vars

Next == Program \/ Kernel \/ User \/ Signal \/ Done

\* The thread is scheduled, a timeout fires, a cancelled URB comes back.
\* Nothing makes the user type, stop typing or send a signal.
Fairness ==
    /\ WF_vars(Program)
    /\ \A t \in Iface : WF_vars(TimeOut(t)) /\ WF_vars(CancelDone(t))

Spec == Init /\ [][Next]_vars
FairSpec == Spec /\ Fairness

-----------------------------------------------------------------------------
(***************************************************************************)
(* Safety.                                                                 *)
(***************************************************************************)

\* iface->submitted, which the scans, the cancellation and the freeing all
\* trust, tells whether libusb holds the transfer: a set flag is never stale,
\* and a transfer in flight with the flag clear is one whose cancellation
\* libusb refused (the XXX comment of the cancellation loop).
FlagTracksFlight ==
    \A t \in Iface :
        /\ ifsubmitted[t] => transfer[t] = "filled" /\ urb[t] # "idle"
        /\ urb[t] # "idle" => ifsubmitted[t] \/ t \in refused

\* No transfer is freed while libusb or the kernel still holds it, except one
\* whose cancellation was refused: also when the wait for the cancellations
\* was broken off by an error, and whatever step of the setup failed.
FreeOnlyFinished ==
    \A t \in Iface : transfer[t] = "freed" /\ urb[t] # "idle" => t \in refused

\* The thread only waits for events while some transfer is in flight: with an
\* infinite timeout it would otherwise sit there with nothing to report.
NeverPollsForNothing ==
    pc = "poll" => \E t \in Iface : ifsubmitted[t] /\ urb[t] # "idle"

\* When the function returns, every transfer it allocated is freed, unless the
\* wait for the cancellations was broken off (those are leaked on purpose).
NoLeakUnlessDrainFailed ==
    pc = "returned" =>
        drainFailed \/ \A t \in Iface : transfer[t] \in {"none", "freed"}

\* The function only succeeds because a signal asked it to stop: streaming
\* that ends by itself, or by an error, is a failure.
SuccessMeansSignal == result => exit_signum # "none"

\* After SIGUSR1 at most the one report whose callback had already read
\* stream_paused is still printed, however many interfaces are dumped.
AtMostOneDumpAfterPause == pausedDumps <= 1

\* While the function waits for the cancellations, a callback never puts a
\* transfer back in flight, unless its cancellation was refused.
NoResubmitWhileDraining ==
    [][\A t \in Iface :
          phase = "wait" /\ urb[t] = "idle" /\ urb'[t] # "idle"
              => t \in refused]_vars

-----------------------------------------------------------------------------
(***************************************************************************)
(* The inductive invariant behind the safety properties.                   *)
(***************************************************************************)

Setup       == {"idle", "prepare", "alloc_list", "alloc", "fill", "submit"}
InCallback  == {"cb_check", "cb_dump", "cb_resubmit"}
Dispatching == {"dispatch", "scan"} \cup InCallback
Ending      == {"free", "returned", "crashed"}
InSlotLoop  == {"prepare", "alloc", "fill", "submit", "cancel", "free",
                "crashed"}

\* Which control points belong to the first event loop and which to the
\* second; every loop over the slots begins at the first.
PhaseInv ==
    /\ pc \in Setup \cup {"after", "cleanup", "cancel"} => phase = "run"
    /\ pc \in Ending => phase = "wait"
    /\ pc \notin InSlotLoop => idx = 1

\* Where every slot holds a transfer that has been filled in.
Streaming ==
    \/ pc \in {"submit", "poll", "after", "cancel"} \cup Dispatching
    \/ pc = "loop" /\ phase = "run"
    \/ pc \in {"loop", "cleanup"} /\ submitted

\* How far the slots are built at each control point.
SlotInv ==
    /\ (\E t \in Iface : transfer[t] = "none")
           => \A t \in Iface : transfer[t] = "none"
    /\ pc \in {"idle", "prepare", "alloc_list"}
           => \A t \in Iface : transfer[t] = "none"
    /\ pc = "alloc" => \A t \in Iface :
           transfer[t] = IF t < idx THEN "alloc" ELSE "null"
    /\ pc = "fill" => \A t \in Iface :
           transfer[t] = IF t < idx THEN "filled" ELSE "alloc"
    /\ Streaming => \A t \in Iface : transfer[t] = "filled"
    /\ \A t \in Iface : transfer[t] = "freed" => pc \in Ending

\* What the local "submitted" says of the flags.
SubmittedInv ==
    /\ pc \in Setup \ {"submit"} => ~submitted
    /\ pc \in Setup \cup {"loop", "after", "cleanup"} /\ ~submitted
           => \A t \in Iface : ~ifsubmitted[t]
    /\ pc = "loop" /\ submitted => \E t \in Iface : ifsubmitted[t]
    /\ pc = "poll" => submitted /\ \E t \in Iface : ifsubmitted[t]
    /\ pc = "cancel" => (submitted <=> \E t \in 1..(idx - 1) : ifsubmitted[t])

\* Callbacks run for transfers libusb has finished with, one at a time.
DispatchInv ==
    /\ pc \in Dispatching => \A t \in todo : urb[t] \in Finished
    /\ pc \in InCallback => cur \notin todo /\ urb[cur] = "idle"
                            /\ ~ifsubmitted[cur]

\* Once the cancellations are requested, a transfer that may still complete
\* is one whose cancellation was refused.
DrainInv ==
    /\ pc = "cancel" => \A t \in 1..(idx - 1) :
           urb[t] \notin {"idle", "cancelling", "cancelled"} => t \in refused
    /\ phase = "wait" => \A t \in Iface :
           urb[t] \notin {"idle", "cancelling", "cancelled"} => t \in refused
    /\ phase = "wait" /\ pc \in InCallback => cur \in refused

\* What is freed so far, and that only a broken-off wait leaves a flag set.
FreeInv ==
    /\ pc \in {"free", "returned"} /\ ~drainFailed
           => \A t \in Iface : ~ifsubmitted[t]
    /\ pc = "free" => \A t \in 1..(idx - 1) :
           transfer[t] = "freed" \/ ifsubmitted[t]
    /\ pc = "returned" => \A t \in Iface :
           transfer[t] \in {"none", "freed"} \/ ifsubmitted[t]

ResultInv ==
    /\ pc = "after" /\ submitted => exit_signum # "none"
    /\ result => exit_signum # "none"

PauseInv ==
    /\ pausedDumps <= 1
    /\ pc = "cb_dump" /\ stream_paused => pausedDumps = 0

StreamInv ==
    /\ TypeOK
    /\ PhaseInv
    /\ SlotInv
    /\ SubmittedInv
    /\ FlagTracksFlight
    /\ FreeOnlyFinished
    /\ DispatchInv
    /\ DrainInv
    /\ FreeInv
    /\ ResultInv
    /\ PauseInv

-----------------------------------------------------------------------------
(***************************************************************************)
(* Liveness.                                                               *)
(***************************************************************************)

Ended == pc \in {"returned", "crashed"}

\* SIGINT and SIGTERM end the function in bounded work even if no device ever
\* sends a report and there is no timeout ("Setup SIGINT to terminate
\* gracefully").
SignalStops == (exit_signum # "none") ~> Ended

\* With a timeout, the function ends once no device is used any more.
QuietStops == (~infinite /\ input = {}) ~> Ended

\* README: interrupt the dumping of a keyboard by not touching it for the
\* timeout.  With several interfaces this asks that one quiet interface is
\* enough.
QuietInterfaceStops ==
    \A t \in Iface : (~infinite /\ t \notin input) ~> Ended

=============================================================================
