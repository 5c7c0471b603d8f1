-------------------------- MODULE UsbhidDumpProofs --------------------------
(***************************************************************************)
(* Proofs about usbhid-dump.  Its interrupt stream by itself: StreamInv is  *)
(* an inductive invariant of UhdStream, and the safety properties follow    *)
(* from it.  Then the whole program: MainInv is an inductive invariant of   *)
(* UsbhidDump, the stream inside the program is the one of UhdStream, and   *)
(* the program keeps DriverLoan's promise.                                 *)
(***************************************************************************)
EXTENDS UsbhidDump, TLAPS

-----------------------------------------------------------------------------
(***************************************************************************)
(* The stream.  One lemma per action; in each, the conjuncts the action can *)
(* disturb come first, and those that hold because what they speak of did   *)
(* not change after them.                                                  *)
(***************************************************************************)

USE NAssumption
USE DEF Iface, Finished, InKernel, ExitSignals, Points
USE DEF Setup, InCallback, Dispatching, Ending, InSlotLoop, Streaming
USE DEF threadVars, localVars, signalVars, userVars, historyVars, vars

-----------------------------------------------------------------------------
(***************************************************************************)
(* The thread.                                                             *)
(***************************************************************************)

\* Call moves from "idle" to the preparation and touches nothing else.
LEMMA CallKeepsInv ==
  ASSUME StreamInv, Call
  PROVE  StreamInv'
<1> USE DEF StreamInv, Call
<1>1. (TypeOK /\ PhaseInv /\ SlotInv /\ SubmittedInv)'
      BY DEF TypeOK, PhaseInv, SlotInv, SubmittedInv
<1>2. (FlagTracksFlight /\ FreeOnlyFinished /\ DispatchInv /\ DrainInv)'
      BY DEF FlagTracksFlight, FreeOnlyFinished, DispatchInv, DrainInv
<1>3. (FreeInv /\ ResultInv /\ PauseInv)'
      BY DEF FreeInv, ResultInv, PauseInv
<1>4. QED BY <1>1, <1>2, <1>3

\* Preparing an interface (Set_Protocol, Set_Idle) or failing to keeps the
\* invariant: nothing is submitted yet.
LEMMA PrepareKeepsInv ==
  ASSUME StreamInv, Prepare
  PROVE  StreamInv'
<1> USE DEF StreamInv, Prepare, Advance, Fail, Fault
<1>1. SlotInv' BY DEF SlotInv, SubmittedInv
<1>2. (TypeOK /\ PhaseInv /\ SubmittedInv /\ FlagTracksFlight)'
      BY DEF TypeOK, PhaseInv, SubmittedInv, FlagTracksFlight
<1>3. (FreeOnlyFinished /\ DispatchInv /\ DrainInv /\ FreeInv)'
      BY DEF FreeOnlyFinished, DispatchInv, DrainInv, FreeInv
<1>4. (ResultInv /\ PauseInv)'
      BY DEF ResultInv, PauseInv
<1>5. QED BY <1>1, <1>2, <1>3, <1>4

\* Allocating the transfer list makes every slot NULL at once.
LEMMA AllocListKeepsInv ==
  ASSUME StreamInv, AllocList
  PROVE  StreamInv'
<1> USE DEF StreamInv, AllocList, Fail, Fault
<1>1. SlotInv' BY DEF SlotInv, SubmittedInv
<1>2. FlagTracksFlight' BY DEF FlagTracksFlight, SubmittedInv
<1>3. (TypeOK /\ PhaseInv /\ SubmittedInv /\ FreeOnlyFinished)'
      BY DEF TypeOK, PhaseInv, SubmittedInv, FreeOnlyFinished
<1>4. (DispatchInv /\ DrainInv /\ FreeInv /\ ResultInv)'
      BY DEF DispatchInv, DrainInv, FreeInv, ResultInv
<1>5. PauseInv' BY DEF PauseInv
<1>6. QED BY <1>1, <1>2, <1>3, <1>4, <1>5

\* Allocating the transfer of one slot extends the built prefix.
LEMMA AllocTransferKeepsInv ==
  ASSUME StreamInv, AllocTransfer
  PROVE  StreamInv'
<1> USE DEF StreamInv, AllocTransfer, Advance, Fail, Fault
<1>1. SlotInv' BY DEF SlotInv, TypeOK, SubmittedInv
<1>2. FlagTracksFlight' BY DEF FlagTracksFlight, SubmittedInv
<1>3. (TypeOK /\ PhaseInv /\ SubmittedInv /\ FreeOnlyFinished)'
      BY DEF TypeOK, PhaseInv, SubmittedInv, FreeOnlyFinished
<1>4. (DispatchInv /\ DrainInv /\ FreeInv /\ ResultInv)'
      BY DEF DispatchInv, DrainInv, FreeInv, ResultInv
<1>5. PauseInv' BY DEF PauseInv
<1>6. QED BY <1>1, <1>2, <1>3, <1>4, <1>5

\* Filling in one slot extends the filled prefix.
LEMMA FillTransferKeepsInv ==
  ASSUME StreamInv, FillTransfer
  PROVE  StreamInv'
<1> USE DEF StreamInv, FillTransfer, Advance, Fail, Fault
<1>1. SlotInv' BY DEF SlotInv, TypeOK, SubmittedInv
<1>2. (TypeOK /\ PhaseInv /\ SubmittedInv /\ FlagTracksFlight)'
      BY DEF TypeOK, PhaseInv, SubmittedInv, FlagTracksFlight
<1>3. (FreeOnlyFinished /\ DispatchInv /\ DrainInv /\ FreeInv)'
      BY DEF TypeOK, FreeOnlyFinished, DispatchInv, DrainInv, FreeInv
<1>4. (ResultInv /\ PauseInv)'
      BY DEF ResultInv, PauseInv
<1>5. QED BY <1>1, <1>2, <1>3, <1>4

\* A first submission sets the flag together with the URB; when it fails,
\* everything is filled in already.
LEMMA SubmitFirstKeepsInv ==
  ASSUME StreamInv, SubmitFirst
  PROVE  StreamInv'
<1> USE DEF StreamInv, SubmitFirst, Advance, Fail, Fault
<1>1. TypeOK'
  <2>1. urb' \in [Iface -> {"idle"} \cup InKernel \cup Finished]
    BY DEF TypeOK
  <2>2. ifsubmitted' \in [Iface -> BOOLEAN]
    BY DEF TypeOK
  <2>3. pc' \in Points /\ idx' \in Iface
    BY DEF TypeOK
  <2>4. submitted' \in BOOLEAN
    BY DEF TypeOK
  <2>5. QED BY <2>1, <2>2, <2>3, <2>4 DEF TypeOK
<1>2. FlagTracksFlight' BY DEF FlagTracksFlight, TypeOK, SlotInv
<1>3. FreeOnlyFinished' BY DEF FreeOnlyFinished, SlotInv
<1>4. DrainInv' BY DEF DrainInv, PhaseInv
<1>5. (PhaseInv /\ SlotInv /\ SubmittedInv /\ DispatchInv)'
      BY DEF PhaseInv, SlotInv, TypeOK, SubmittedInv, DispatchInv
<1>6. (FreeInv /\ ResultInv /\ PauseInv)'
      BY DEF FreeInv, ResultInv, PauseInv
<1>7. QED BY <1>1, <1>2, <1>3, <1>4, <1>5, <1>6

\* Either loop goes on only with a flag set, and leaves for "free" only when
\* none is.
LEMMA LoopKeepsInv ==
  ASSUME StreamInv, Loop
  PROVE  StreamInv'
<1> USE DEF StreamInv, Loop, LoopCondition
<1>1. FreeInv' BY DEF FreeInv, TypeOK, PhaseInv, SubmittedInv
<1>2. (TypeOK /\ PhaseInv /\ SlotInv /\ SubmittedInv)'
      BY DEF TypeOK, PhaseInv, SlotInv, SubmittedInv
<1>3. (FlagTracksFlight /\ FreeOnlyFinished /\ DispatchInv /\ DrainInv)'
      BY DEF FlagTracksFlight, FreeOnlyFinished, TypeOK, DispatchInv,
             DrainInv
<1>4. (ResultInv /\ PauseInv)'
      BY DEF ResultInv, TypeOK, PauseInv
<1>5. QED BY <1>1, <1>2, <1>3, <1>4

\* The transfers reported are finished ones.
LEMMA PollKeepsInv ==
  ASSUME StreamInv, Poll
  PROVE  StreamInv'
<1> USE DEF StreamInv, Poll
<1>1. (TypeOK /\ PhaseInv /\ SlotInv /\ SubmittedInv)'
      BY DEF TypeOK, PhaseInv, SlotInv, SubmittedInv
<1>2. (FlagTracksFlight /\ FreeOnlyFinished /\ DispatchInv /\ DrainInv)'
      BY DEF FlagTracksFlight, FreeOnlyFinished, DispatchInv, DrainInv
<1>3. (FreeInv /\ ResultInv /\ PauseInv)'
      BY DEF FreeInv, ResultInv, PauseInv
<1>4. QED BY <1>1, <1>2, <1>3

\* An error leaves the first loop with "submitted" still telling the truth, and
\* the second with drainFailed set.
LEMMA PollErrorKeepsInv ==
  ASSUME StreamInv, PollError
  PROVE  StreamInv'
<1> USE DEF StreamInv, PollError, Fault
<1>1. FreeInv' BY DEF FreeInv, PhaseInv
<1>2. (TypeOK /\ PhaseInv /\ SlotInv /\ SubmittedInv)'
      BY DEF TypeOK, PhaseInv, SlotInv, SubmittedInv
<1>3. (FlagTracksFlight /\ FreeOnlyFinished /\ DispatchInv /\ DrainInv)'
      BY DEF FlagTracksFlight, FreeOnlyFinished, DispatchInv, DrainInv
<1>4. (ResultInv /\ PauseInv)'
      BY DEF ResultInv, PauseInv
<1>5. QED BY <1>1, <1>2, <1>3, <1>4

\* A callback clears flag and URB of its transfer together; while draining,
\* only a refused transfer can still be completed.
LEMMA CallbackKeepsInv ==
  ASSUME NEW t \in Iface, StreamInv, Callback(t)
  PROVE  StreamInv'
<1> USE DEF StreamInv, Callback, GoesOn, CallbackFlag
<1>1. (TypeOK /\ PhaseInv /\ SlotInv /\ SubmittedInv)'
      BY DEF TypeOK, PhaseInv, SlotInv, SubmittedInv
<1>2. (FlagTracksFlight /\ FreeOnlyFinished /\ DispatchInv /\ DrainInv)'
      BY DEF TypeOK, FlagTracksFlight, FreeOnlyFinished, DispatchInv,
             DrainInv
<1>3. (FreeInv /\ ResultInv /\ PauseInv)'
      BY DEF FreeInv, ResultInv, PauseInv
<1>4. QED BY <1>1, <1>2, <1>3

\* A dump is only begun while the stream is not paused.
LEMMA CheckPausedKeepsInv ==
  ASSUME StreamInv, CheckPaused
  PROVE  StreamInv'
<1> USE DEF StreamInv, CheckPaused, MayDump
<1>1. (TypeOK /\ PhaseInv /\ SlotInv /\ SubmittedInv)'
      BY DEF TypeOK, PhaseInv, SlotInv, SubmittedInv
<1>2. (FlagTracksFlight /\ FreeOnlyFinished /\ DispatchInv /\ DrainInv)'
      BY DEF FlagTracksFlight, FreeOnlyFinished, DispatchInv, DrainInv
<1>3. (FreeInv /\ ResultInv /\ PauseInv)'
      BY DEF FreeInv, ResultInv, PauseInv
<1>4. QED BY <1>1, <1>2, <1>3

\* A dump begun before the pause is the only one counted.
LEMMA DumpKeepsInv ==
  ASSUME StreamInv, Dump
  PROVE  StreamInv'
<1> USE DEF StreamInv, Dump
<1>1. (TypeOK /\ PhaseInv /\ SlotInv /\ SubmittedInv)'
  <2>1. TypeOK' BY DEF TypeOK
  <2>2. PhaseInv' BY DEF PhaseInv
  <2>3. SlotInv' BY DEF SlotInv
  <2>4. SubmittedInv' BY DEF SubmittedInv, TypeOK
  <2>5. QED BY <2>1, <2>2, <2>3, <2>4
<1>2. (FlagTracksFlight /\ FreeOnlyFinished /\ DispatchInv /\ DrainInv)'
      BY DEF FlagTracksFlight, FreeOnlyFinished, DispatchInv, DrainInv
<1>3. (FreeInv /\ ResultInv /\ PauseInv)'
      BY DEF FreeInv, ResultInv, PauseInv
<1>4. QED BY <1>1, <1>2, <1>3

\* A resubmission sets the flag together with the URB, in a filled slot.
LEMMA ResubmitKeepsInv ==
  ASSUME StreamInv, Resubmit
  PROVE  StreamInv'
<1> USE DEF StreamInv, Resubmit, Fault
<1>1. FlagTracksFlight' BY DEF FlagTracksFlight, TypeOK, SlotInv
<1>2. FreeOnlyFinished' BY DEF FreeOnlyFinished, SlotInv
<1>3. (TypeOK /\ PhaseInv /\ SlotInv /\ SubmittedInv)'
  <2>1. TypeOK' BY DEF TypeOK
  <2>2. PhaseInv' BY DEF PhaseInv
  <2>3. SlotInv' BY DEF SlotInv, TypeOK
  <2>4. SubmittedInv' BY DEF SubmittedInv, PhaseInv, TypeOK
  <2>5. QED BY <2>1, <2>2, <2>3, <2>4
<1>4. (DispatchInv /\ DrainInv /\ FreeInv /\ ResultInv)'
      BY DEF TypeOK, DispatchInv, DrainInv, FreeInv, ResultInv
<1>5. PauseInv' BY DEF PauseInv
<1>6. QED BY <1>1, <1>2, <1>3, <1>4, <1>5

\* The dispatch ends.
LEMMA DispatchDoneKeepsInv ==
  ASSUME StreamInv, DispatchDone
  PROVE  StreamInv'
<1> USE DEF StreamInv, DispatchDone
<1>1. (TypeOK /\ PhaseInv /\ SlotInv /\ SubmittedInv)'
      BY DEF TypeOK, PhaseInv, SlotInv, SubmittedInv
<1>2. (FlagTracksFlight /\ FreeOnlyFinished /\ DispatchInv /\ DrainInv)'
      BY DEF FlagTracksFlight, FreeOnlyFinished, DispatchInv, DrainInv
<1>3. (FreeInv /\ ResultInv /\ PauseInv)'
      BY DEF FreeInv, ResultInv, PauseInv
<1>4. QED BY <1>1, <1>2, <1>3

\* The scan makes "submitted" agree with the flags again.
LEMMA ScanKeepsInv ==
  ASSUME StreamInv, Scan
  PROVE  StreamInv'
<1> USE DEF StreamInv, Scan, AnySubmitted, HasSubmitted
<1>1. SubmittedInv' BY DEF SubmittedInv, FlagTracksFlight
<1>2. (TypeOK /\ PhaseInv /\ SlotInv /\ FlagTracksFlight)'
      BY DEF TypeOK, PhaseInv, SlotInv, FlagTracksFlight
<1>3. (FreeOnlyFinished /\ DispatchInv /\ DrainInv /\ FreeInv)'
      BY DEF FreeOnlyFinished, DispatchInv, DrainInv, FreeInv
<1>4. (ResultInv /\ PauseInv)'
      BY DEF ResultInv, PauseInv
<1>5. QED BY <1>1, <1>2, <1>3, <1>4

\* Leaving the first loop with transfers in flight means a signal came.
LEMMA AfterKeepsInv ==
  ASSUME StreamInv, After
  PROVE  StreamInv'
<1> USE DEF StreamInv, After, TransfersEnded
<1>1. (TypeOK /\ PhaseInv /\ SlotInv /\ SubmittedInv)'
      BY DEF TypeOK, PhaseInv, SlotInv, SubmittedInv
<1>2. (FlagTracksFlight /\ FreeOnlyFinished /\ DispatchInv /\ DrainInv)'
      BY DEF FlagTracksFlight, FreeOnlyFinished, DispatchInv, DrainInv
<1>3. (FreeInv /\ ResultInv /\ PauseInv)'
      BY DEF FreeInv, ResultInv, PauseInv
<1>4. QED BY <1>1, <1>2, <1>3

\* Without anything submitted there is nothing to cancel or to wait for.
LEMMA CleanupKeepsInv ==
  ASSUME StreamInv, Cleanup
  PROVE  StreamInv'
<1> USE DEF StreamInv, Cleanup
<1>1. SubmittedInv' BY DEF SubmittedInv, PhaseInv
<1>2. DrainInv' BY DEF DrainInv, PhaseInv, SubmittedInv, FlagTracksFlight
<1>3. (TypeOK /\ PhaseInv /\ SlotInv /\ FlagTracksFlight)'
      BY DEF TypeOK, PhaseInv, SlotInv, FlagTracksFlight
<1>4. (FreeOnlyFinished /\ DispatchInv /\ FreeInv /\ ResultInv)'
      BY DEF FreeOnlyFinished, DispatchInv, FreeInv, ResultInv
<1>5. PauseInv' BY DEF PauseInv
<1>6. QED BY <1>1, <1>2, <1>3, <1>4, <1>5

\* A cancellation is requested, refused or not needed, and the prefix of
\* cancelled interfaces grows.
LEMMA CancelKeepsInv ==
  ASSUME StreamInv, Cancel
  PROVE  StreamInv'
<1> USE DEF StreamInv, Cancel, CancelTransfer, HasSubmitted, RefusalFlag,
        Refusable, Fault
<1>1. TypeOK'
  <2>1. urb' \in [Iface -> {"idle"} \cup InKernel \cup Finished]
    BY DEF TypeOK
  <2>2. ifsubmitted' \in [Iface -> BOOLEAN]
    BY DEF TypeOK
  <2>3. pc' \in Points /\ idx' \in Iface /\ phase' \in {"run", "wait"}
    BY DEF TypeOK
  <2>4. submitted' \in BOOLEAN /\ refused' \subseteq Iface
    BY DEF TypeOK
  <2>5. QED BY <2>1, <2>2, <2>3, <2>4 DEF TypeOK
<1>2. SubmittedInv' BY DEF SubmittedInv, TypeOK, FlagTracksFlight
<1>3. DrainInv' BY DEF DrainInv, TypeOK, FlagTracksFlight
<1>4. (PhaseInv /\ SlotInv /\ FlagTracksFlight /\ FreeOnlyFinished)'
      BY DEF PhaseInv, SlotInv, TypeOK, FlagTracksFlight, FreeOnlyFinished
<1>5. (DispatchInv /\ FreeInv /\ ResultInv /\ PauseInv)'
      BY DEF DispatchInv, FreeInv, ResultInv, PauseInv
<1>6. QED BY <1>1, <1>2, <1>3, <1>4, <1>5

\* Only a transfer libusb has finished with, or refused to cancel, is freed.
LEMMA FreeKeepsInv ==
  ASSUME StreamInv, Free
  PROVE  StreamInv'
<1> USE DEF StreamInv, Free, Advance, MayFree, HasSubmitted
<1>1. FreeOnlyFinished' BY DEF FreeOnlyFinished, TypeOK, FlagTracksFlight
<1>2. FreeInv' BY DEF FreeInv, TypeOK, SlotInv
<1>3. (TypeOK /\ PhaseInv /\ SlotInv /\ SubmittedInv)'
      BY DEF TypeOK, PhaseInv, SlotInv, SubmittedInv
<1>4. (FlagTracksFlight /\ DispatchInv /\ DrainInv /\ ResultInv)'
      BY DEF TypeOK, FlagTracksFlight, DispatchInv, DrainInv, ResultInv
<1>5. PauseInv' BY DEF PauseInv
<1>6. QED BY <1>1, <1>2, <1>3, <1>4, <1>5

-----------------------------------------------------------------------------
(***************************************************************************)
(* The kernel, the user and the signal handlers.                           *)
(***************************************************************************)

\* The kernel completes a pending URB.
LEMMA CompleteKeepsInv ==
  ASSUME NEW t \in Iface, StreamInv, Complete(t)
  PROVE  StreamInv'
<1> USE DEF StreamInv, Complete, Finish
<1>1. (TypeOK /\ PhaseInv /\ SlotInv /\ SubmittedInv)'
      BY DEF TypeOK, PhaseInv, SlotInv, SubmittedInv
<1>2. (FlagTracksFlight /\ FreeOnlyFinished /\ DispatchInv /\ DrainInv)'
      BY DEF FlagTracksFlight, FreeOnlyFinished, DispatchInv, DrainInv
<1>3. (FreeInv /\ ResultInv /\ PauseInv)'
      BY DEF FreeInv, ResultInv, PauseInv
<1>4. QED BY <1>1, <1>2, <1>3

\* A pending URB times out.
LEMMA TimeOutKeepsInv ==
  ASSUME NEW t \in Iface, StreamInv, TimeOut(t)
  PROVE  StreamInv'
<1> USE DEF StreamInv, TimeOut, Finish
<1>1. (TypeOK /\ PhaseInv /\ SlotInv /\ SubmittedInv)'
      BY DEF TypeOK, PhaseInv, SlotInv, SubmittedInv
<1>2. (FlagTracksFlight /\ FreeOnlyFinished /\ DispatchInv /\ DrainInv)'
      BY DEF FlagTracksFlight, FreeOnlyFinished, DispatchInv, DrainInv
<1>3. (FreeInv /\ ResultInv /\ PauseInv)'
      BY DEF FreeInv, ResultInv, PauseInv
<1>4. QED BY <1>1, <1>2, <1>3

\* A pending URB fails.
LEMMA DeviceFailKeepsInv ==
  ASSUME NEW t \in Iface, StreamInv, DeviceFail(t)
  PROVE  StreamInv'
<1> USE DEF StreamInv, DeviceFail, Fault, Finish
<1>1. (TypeOK /\ PhaseInv /\ SlotInv /\ SubmittedInv)'
      BY DEF TypeOK, PhaseInv, SlotInv, SubmittedInv
<1>2. (FlagTracksFlight /\ FreeOnlyFinished /\ DispatchInv /\ DrainInv)'
      BY DEF FlagTracksFlight, FreeOnlyFinished, DispatchInv, DrainInv
<1>3. (FreeInv /\ ResultInv /\ PauseInv)'
      BY DEF FreeInv, ResultInv, PauseInv
<1>4. QED BY <1>1, <1>2, <1>3

\* The kernel finishes a URB that is being cancelled.
LEMMA CancelDoneKeepsInv ==
  ASSUME NEW t \in Iface, StreamInv, CancelDone(t)
  PROVE  StreamInv'
<1> USE DEF StreamInv, CancelDone, Finish
<1>1. (TypeOK /\ PhaseInv /\ SlotInv /\ SubmittedInv)'
      BY DEF TypeOK, PhaseInv, SlotInv, SubmittedInv
<1>2. (FlagTracksFlight /\ FreeOnlyFinished /\ DispatchInv /\ DrainInv)'
      BY DEF FlagTracksFlight, FreeOnlyFinished, DispatchInv, DrainInv
<1>3. (FreeInv /\ ResultInv /\ PauseInv)'
      BY DEF FreeInv, ResultInv, PauseInv
<1>4. QED BY <1>1, <1>2, <1>3

\* The user stops using a device.
LEMMA StopInputKeepsInv ==
  ASSUME NEW t \in Iface, StreamInv, StopInput(t)
  PROVE  StreamInv'
<1> USE DEF StreamInv, StopInput
<1>1. (TypeOK /\ PhaseInv /\ SlotInv /\ SubmittedInv)'
      BY DEF TypeOK, PhaseInv, SlotInv, SubmittedInv
<1>2. (FlagTracksFlight /\ FreeOnlyFinished /\ DispatchInv /\ DrainInv)'
      BY DEF FlagTracksFlight, FreeOnlyFinished, DispatchInv, DrainInv
<1>3. (FreeInv /\ ResultInv /\ PauseInv)'
      BY DEF FreeInv, ResultInv, PauseInv
<1>4. QED BY <1>1, <1>2, <1>3

\* exit_sighandler() never clears exit_signum.
LEMMA ExitSignalKeepsInv ==
  ASSUME NEW s \in ExitSignals, StreamInv, ExitSignal(s)
  PROVE  StreamInv'
<1> USE DEF StreamInv, ExitSignal, Remember
<1>1. (TypeOK /\ PhaseInv /\ SlotInv /\ SubmittedInv)'
      BY DEF TypeOK, PhaseInv, SlotInv, SubmittedInv
<1>2. (FlagTracksFlight /\ FreeOnlyFinished /\ DispatchInv /\ DrainInv)'
      BY DEF FlagTracksFlight, FreeOnlyFinished, DispatchInv, DrainInv
<1>3. (FreeInv /\ ResultInv /\ PauseInv)'
      BY DEF FreeInv, ResultInv, PauseInv
<1>4. QED BY <1>1, <1>2, <1>3

\* stream_pause_sighandler(): the count of dumps begins anew.
LEMMA PauseKeepsInv ==
  ASSUME StreamInv, Pause
  PROVE  StreamInv'
<1> USE DEF StreamInv, Pause
<1>1. (TypeOK /\ PhaseInv /\ SlotInv /\ SubmittedInv)'
      BY DEF TypeOK, PhaseInv, SlotInv, SubmittedInv
<1>2. (FlagTracksFlight /\ FreeOnlyFinished /\ DispatchInv /\ DrainInv)'
      BY DEF FlagTracksFlight, FreeOnlyFinished, DispatchInv, DrainInv
<1>3. (FreeInv /\ ResultInv /\ PauseInv)'
      BY DEF FreeInv, ResultInv, PauseInv
<1>4. QED BY <1>1, <1>2, <1>3

\* stream_resume_sighandler().
LEMMA ResumeKeepsInv ==
  ASSUME StreamInv, Resume
  PROVE  StreamInv'
<1>1. TypeOK'
  <2>1. TypeOK BY DEF StreamInv
  <2>2. /\ stream_paused' \in BOOLEAN
        /\ pc' = pc /\ phase' = phase /\ idx' = idx /\ todo' = todo
        /\ cur' = cur /\ result' = result /\ submitted' = submitted
        /\ transfer' = transfer /\ ifsubmitted' = ifsubmitted /\ urb' = urb
        /\ exit_signum' = exit_signum /\ infinite' = infinite
        /\ input' = input /\ refused' = refused
        /\ drainFailed' = drainFailed /\ pausedDumps' = pausedDumps
    BY DEF Resume
  <2>3. QED BY <2>1, <2>2 DEF TypeOK
<1> USE DEF StreamInv, Resume
<1>2. (PhaseInv /\ SlotInv /\ SubmittedInv)'
      BY DEF PhaseInv, SlotInv, SubmittedInv
<1>3. (FlagTracksFlight /\ FreeOnlyFinished)'
      BY DEF FlagTracksFlight, FreeOnlyFinished
<1>4. (DispatchInv /\ DrainInv)' BY DEF DispatchInv, DrainInv
<1>5. (FreeInv /\ ResultInv /\ PauseInv)'
      BY DEF FreeInv, ResultInv, PauseInv
<1>6. QED BY <1>1, <1>2, <1>3, <1>4, <1>5

-----------------------------------------------------------------------------
(***************************************************************************)
(* The invariant.                                                          *)
(***************************************************************************)

\* The initial states, paused or not and with any timeout.
LEMMA InitInv == Init => StreamInv
<1> SUFFICES ASSUME Init PROVE StreamInv OBVIOUS
<1> USE DEF Init
<1>1. TypeOK
  <2>1. pc \in Points /\ idx \in Iface /\ cur \in Iface BY DEF TypeOK
  <2>2. transfer \in [Iface -> {"none", "null", "alloc", "filled", "freed"}]
    OBVIOUS
  <2>3. ifsubmitted \in [Iface -> BOOLEAN] OBVIOUS
  <2>4. urb \in [Iface -> {"idle"} \cup InKernel \cup Finished] OBVIOUS
  <2>5. QED BY <2>1, <2>2, <2>3, <2>4 DEF TypeOK
<1>2. PhaseInv /\ SlotInv /\ SubmittedInv
      BY DEF PhaseInv, SlotInv, SubmittedInv
<1>3. FlagTracksFlight /\ FreeOnlyFinished
      BY DEF FlagTracksFlight, FreeOnlyFinished
<1>4. DispatchInv /\ DrainInv /\ FreeInv
      BY DEF DispatchInv, DrainInv, FreeInv
<1>5. ResultInv /\ PauseInv BY DEF ResultInv, PauseInv
<1>6. QED BY <1>1, <1>2, <1>3, <1>4, <1>5 DEF StreamInv

\* A step of the thread.
LEMMA ProgramKeepsInv == ASSUME StreamInv, Program PROVE StreamInv'
<1>1. CASE Call BY <1>1, CallKeepsInv
<1>2. CASE Prepare BY <1>2, PrepareKeepsInv
<1>3. CASE AllocList BY <1>3, AllocListKeepsInv
<1>4. CASE AllocTransfer BY <1>4, AllocTransferKeepsInv
<1>5. CASE FillTransfer BY <1>5, FillTransferKeepsInv
<1>6. CASE SubmitFirst BY <1>6, SubmitFirstKeepsInv
<1>7. CASE Loop BY <1>7, LoopKeepsInv
<1>8. CASE Poll BY <1>8, PollKeepsInv
<1>9. CASE PollError BY <1>9, PollErrorKeepsInv
<1>10. ASSUME NEW t \in Iface, Callback(t) PROVE StreamInv'
  BY <1>10, CallbackKeepsInv
<1>11. CASE CheckPaused BY <1>11, CheckPausedKeepsInv
<1>12. CASE Dump BY <1>12, DumpKeepsInv
<1>13. CASE Resubmit BY <1>13, ResubmitKeepsInv
<1>14. CASE DispatchDone BY <1>14, DispatchDoneKeepsInv
<1>15. CASE Scan BY <1>15, ScanKeepsInv
<1>16. CASE After BY <1>16, AfterKeepsInv
<1>17. CASE Cleanup BY <1>17, CleanupKeepsInv
<1>18. CASE Cancel BY <1>18, CancelKeepsInv
<1>19. CASE Free BY <1>19, FreeKeepsInv
<1>20. QED BY <1>1, <1>2, <1>3, <1>4, <1>5, <1>6, <1>7, <1>8, <1>9, <1>10,
        <1>11, <1>12, <1>13, <1>14, <1>15, <1>16, <1>17, <1>18, <1>19 DEF
        Program

\* A step of the kernel, the user or a signal handler.
LEMMA SurroundingsKeepInv ==
  ASSUME StreamInv, Kernel \/ User \/ Signal
  PROVE  StreamInv'
<1>1. CASE Kernel
  BY <1>1, CompleteKeepsInv, TimeOutKeepsInv, DeviceFailKeepsInv,
     CancelDoneKeepsInv DEF Kernel
<1>2. CASE User BY <1>2, StopInputKeepsInv DEF User
<1>3. CASE Signal
  BY <1>3, ExitSignalKeepsInv, PauseKeepsInv, ResumeKeepsInv DEF Signal
<1>4. QED BY <1>1, <1>2, <1>3

\* Nothing moves.
LEMMA StutterKeepsInv == ASSUME StreamInv, UNCHANGED vars PROVE StreamInv'
<1> USE DEF StreamInv
<1>1. (TypeOK /\ PhaseInv /\ SlotInv /\ SubmittedInv)'
      BY DEF TypeOK, PhaseInv, SlotInv, SubmittedInv
<1>2. (FlagTracksFlight /\ FreeOnlyFinished)'
      BY DEF FlagTracksFlight, FreeOnlyFinished
<1>3. (DispatchInv /\ DrainInv)' BY DEF DispatchInv, DrainInv
<1>4. (FreeInv /\ ResultInv /\ PauseInv)'
      BY DEF FreeInv, ResultInv, PauseInv
<1>5. QED BY <1>1, <1>2, <1>3, <1>4

\* StreamInv is inductive.
LEMMA NextKeepsInv == ASSUME StreamInv, [Next]_vars PROVE StreamInv'
<1>1. CASE Program BY <1>1, ProgramKeepsInv
<1>2. CASE Kernel \/ User \/ Signal BY <1>2, SurroundingsKeepInv
<1>3. CASE Done BY <1>3, StutterKeepsInv DEF Done
<1>4. CASE UNCHANGED vars BY <1>4, StutterKeepsInv
<1>5. QED BY <1>1, <1>2, <1>3, <1>4 DEF Next

-----------------------------------------------------------------------------
(***************************************************************************)
(* The theorems, for any number of interfaces and any calls that may fail.  *)
(***************************************************************************)

\* Every reachable state of the stream satisfies the inductive invariant.
THEOREM StreamInvariant == Spec => []StreamInv
<1>1. Init => StreamInv BY InitInv
<1>2. StreamInv /\ [Next]_vars => StreamInv' BY NextKeepsInv
<1>3. QED BY <1>1, <1>2, PTL DEF Spec

\* The variables keep their types: in particular no loop of
\* dump_iface_list_stream() leaves the slots of transfer_list.
THEOREM TypeCorrect == Spec => []TypeOK
<1>1. StreamInv => TypeOK BY DEF StreamInv
<1>2. QED BY <1>1, StreamInvariant, PTL

\* iface->submitted and libusb agree on every transfer, except one whose
\* cancellation was refused.
THEOREM FlagsTrackFlights == Spec => []FlagTracksFlight
<1>1. StreamInv => FlagTracksFlight BY DEF StreamInv
<1>2. QED BY <1>1, StreamInvariant, PTL

\* The cleanup never frees a transfer in flight, whichever call failed and
\* whenever a signal came, unless its cancellation was refused.
THEOREM FreesOnlyFinished == Spec => []FreeOnlyFinished
<1>1. StreamInv => FreeOnlyFinished BY DEF StreamInv
<1>2. QED BY <1>1, StreamInvariant, PTL

\* libusb_handle_events() is never called with nothing in flight.
THEOREM PollsForSomething == Spec => []NeverPollsForNothing
<1>1. StreamInv => NeverPollsForNothing
  BY DEF StreamInv, NeverPollsForNothing, SubmittedInv, FlagTracksFlight
<1>2. QED BY <1>1, StreamInvariant, PTL

\* Every allocated transfer is freed on return unless the wait for the
\* cancellations was broken off.
THEOREM FreesEverything == Spec => []NoLeakUnlessDrainFailed
<1>1. StreamInv => NoLeakUnlessDrainFailed
  BY DEF StreamInv, NoLeakUnlessDrainFailed, FreeInv
<1>2. QED BY <1>1, StreamInvariant, PTL

\* dump_iface_list_stream() only returns true after a signal.
THEOREM SucceedsOnlyBySignal == Spec => []SuccessMeansSignal
<1>1. StreamInv => SuccessMeansSignal
  BY DEF StreamInv, SuccessMeansSignal, ResultInv
<1>2. QED BY <1>1, StreamInvariant, PTL

\* At most one report is printed between SIGUSR1 and SIGUSR2.
THEOREM PauseBoundsDumps == Spec => []AtMostOneDumpAfterPause
<1>1. StreamInv => AtMostOneDumpAfterPause
  BY DEF StreamInv, AtMostOneDumpAfterPause, PauseInv
<1>2. QED BY <1>1, StreamInvariant, PTL

\* While the cancellations are awaited no callback submits a transfer again,
\* unless its cancellation was refused: no step of the thread but a callback
\* submits then, and that callback belongs to a refused transfer.
THEOREM DrainsWithoutResubmission == Spec => NoResubmitWhileDraining
<1> DEFINE P(t) == phase = "wait" /\ urb[t] = "idle" /\ urb'[t] # "idle"
                     => t \in refused
<1>1. ASSUME StreamInv, Program, NEW t \in Iface PROVE P(t)
  <2>1. CASE Resubmit
    BY <1>1, <2>1 DEF StreamInv, TypeOK, DrainInv, Resubmit
  <2>2. CASE SubmitFirst
    BY <1>1, <2>2 DEF StreamInv, PhaseInv, SubmitFirst
  <2>3. CASE Cancel BY <1>1, <2>3 DEF StreamInv, PhaseInv, Cancel
  <2>4. CASE \E u \in Iface : Callback(u)
    BY <1>1, <2>4 DEF StreamInv, TypeOK, Callback
  <2>5. CASE Call \/ Prepare \/ AllocList \/ AllocTransfer \/ FillTransfer
             \/ Loop \/ Poll \/ PollError \/ CheckPaused \/ Dump
             \/ DispatchDone \/ Scan \/ After \/ Cleanup \/ Free
    BY <2>5 DEF Call, Prepare, AllocList, AllocTransfer, FillTransfer, Loop,
       Poll, PollError, CheckPaused, Dump, DispatchDone, Scan, After, Cleanup,
       Free
  <2>6. QED BY <1>1, <2>1, <2>2, <2>3, <2>4, <2>5 DEF Program
<1>2. ASSUME StreamInv, Kernel, NEW t \in Iface PROVE P(t)
  BY <1>2 DEF StreamInv, TypeOK, Kernel, Complete, TimeOut, DeviceFail,
     CancelDone, Finish
<1>3. ASSUME User \/ Signal \/ Done \/ UNCHANGED vars, NEW t \in Iface
      PROVE  P(t)
  BY <1>3 DEF User, StopInput, Signal, ExitSignal, Pause, Resume, Done
<1>4. StreamInv /\ [Next]_vars => \A t \in Iface : P(t)
  BY <1>1, <1>2, <1>3 DEF Next
<1>5. QED BY <1>4, StreamInvariant, PTL DEF Spec, NoResubmitWhileDraining

-----------------------------------------------------------------------------
(***************************************************************************)
(* The program.                                                            *)
(***************************************************************************)

HIDE DEF Finished, InKernel, Setup, InCallback, Dispatching, Ending, InSlotLoop,
         Streaming
USE DEF Iface, ExitSignals, PauseSignals, AllSignals, Points
USE DEF Terminal, MainPoints, SettingUp, Searching, Borrowing, Dumping,
        Returning, Leaving
USE DEF threadVars, localVars, signalVars, userVars, historyVars, vars
USE DEF mainVars, ifaceVars, sigVars, allVars

-----------------------------------------------------------------------------
(***************************************************************************)
(* The stream inside the program.                                          *)
(***************************************************************************)

\* Every step of the program is a step of the stream or leaves it alone.
LEMMA StreamMoves == ASSUME MainNext PROVE [Next]_vars
<1>1. CASE Thread
  <2>1. CASE Stream BY <2>1 DEF Stream, Next
  <2>2. CASE SetupInt \/ SetupTerm \/ SetupUsr1 \/ SetupUsr2 \/ RestoreInt
             \/ RestoreTerm \/ Raise
    BY <2>2 DEF SetupInt, SetupTerm, SetupUsr1, SetupUsr2, RestoreInt,
       RestoreTerm, SetDisposition, Raise
  <2>3. CASE InitContext \/ OpenDevices \/ ListInterfaces \/ Detach \/ Claim
    BY <2>3 DEF InitContext, OpenDevices, ListInterfaces, Discover, Detach,
       Claim
  <2>4. CASE DumpDescriptor \/ StreamReturned \/ StreamCrashed
    BY <2>4 DEF DumpDescriptor, StreamReturned, StreamCrashed
  <2>5. CASE Release \/ Attach \/ Close
    BY <2>5 DEF Release, Attach, Close
  <2>6. QED BY <1>1, <2>1, <2>2, <2>3, <2>4, <2>5 DEF Thread
<1>2. CASE Devices BY <1>2 DEF Devices, Next
<1>3. CASE \E s \in Signals : Deliver(s)
  BY <1>3 DEF Deliver, Next, Signal
<1>4. CASE \E t \in Contested : Others(t) BY <1>4 DEF Others
<1>5. CASE Halted BY <1>5 DEF Halted
<1>6. QED BY <1>1, <1>2, <1>3, <1>4, <1>5 DEF MainNext

\* The stream stays the stream, so its invariant holds throughout.
LEMMA StreamInvKept == ASSUME MainInv, MainNext PROVE StreamInv'
BY StreamMoves, NextKeepsInv DEF MainInv

\* A slot is NULL only between the allocation of the list and that of its
\* transfers, unless allocating one of them failed.
LEMMA MemoryKept == ASSUME StreamInv, MemoryInv, [Next]_vars PROVE MemoryInv'
<1> SUFFICES ASSUME "transfer" \notin Faults
             PROVE  /\ pc' # "crashed"
                    /\ pc' # "alloc" => \A t \in Iface : transfer'[t] # "null"
    BY DEF MemoryInv
<1>1. pc # "crashed" /\ (pc # "alloc" => \A t \in Iface : transfer[t] # "null")
  BY DEF MemoryInv
<1>2. CASE AllocTransfer
  BY <1>1, <1>2 DEF AllocTransfer, Advance, Fail, Fault, StreamInv, TypeOK,
     SlotInv
<1>3. CASE AllocList
  BY <1>1, <1>3 DEF AllocList, Fail
<1>4. CASE FillTransfer
  BY <1>1, <1>4 DEF FillTransfer, Advance, Fail, StreamInv, TypeOK
<1>5. CASE Free
  BY <1>1, <1>5 DEF Free, Advance, StreamInv, TypeOK
<1>6. CASE Call \/ Prepare \/ SubmitFirst \/ Poll \/ PollError
  BY <1>1, <1>6 DEF Call, Prepare, SubmitFirst, Poll, PollError, Advance, Fail
<1>0. CASE Loop
  BY <1>1, <1>0 DEF Loop, LoopCondition, StreamInv, TypeOK
<1>7. CASE CheckPaused \/ Dump \/ Resubmit \/ DispatchDone \/ Scan \/ After
           \/ Cleanup \/ Cancel \/ \E t \in Iface : Callback(t)
  BY <1>1, <1>7 DEF Callback, CheckPaused, Dump, Resubmit, DispatchDone, Scan,
     After, Cleanup, Cancel
<1>8. CASE Kernel \/ User \/ Signal \/ Done \/ UNCHANGED vars
  BY <1>1, <1>8 DEF Kernel, Complete, TimeOut, DeviceFail, CancelDone, Finish,
     User, StopInput, Signal, ExitSignal, Pause, Resume, Done
<1>9. QED
  BY <1>0, <1>2, <1>3, <1>4, <1>5, <1>6, <1>7, <1>8 DEF Next, Program

\* What the stream keeps, whichever step of the program it is.
LEMMA StreamPart == ASSUME MainInv, MainNext
                    PROVE  StreamInv' /\ MemoryInv' /\ TypeOK'
<1>1. StreamInv' BY StreamInvKept
<1>2. MemoryInv' BY StreamMoves, MemoryKept DEF MainInv
<1>3. QED BY <1>1, <1>2 DEF StreamInv

-----------------------------------------------------------------------------
(***************************************************************************)
(* The steps of main() and run().  In each lemma StreamPart settles what    *)
(* the stream keeps.                                                       *)
(***************************************************************************)

\* Nothing is borrowed, delivered or dumped at the start.
LEMMA MainInitInv == ASSUME MainInit PROVE MainInv
<1> USE DEF MainInit
<1>1. StreamInv BY InitInv
<1>2. MainTypeOK BY <1>1 DEF MainTypeOK, StreamInv
<1>3. PlaceInv /\ MemoryInv BY DEF PlaceInv, MemoryInv, Init
<1>4. HandlerInv /\ SignalInv /\ StatusInv
  BY DEF HandlerInv, SignalInv, StatusInv, Init
<1>5. HolderInv /\ OwedInv BY DEF HolderInv, OwedInv
<1>6. QED BY <1>1, <1>2, <1>3, <1>4, <1>5 DEF MainInv

\* Installing or restoring a handler: a signal inherited as ignored is never
\* one that was delivered.
LEMMA SetDispositionKeepsInv ==
  ASSUME MainInv,
         \/ SetupInt \/ SetupTerm \/ SetupUsr1 \/ SetupUsr2
         \/ RestoreInt \/ RestoreTerm
  PROVE  MainInv'
<1> USE DEF MainInv, SetupInt, SetupTerm, SetupUsr1, SetupUsr2, RestoreInt,
            RestoreTerm, SetDisposition, Handled, Restored
<1>1. StreamInv' /\ MemoryInv' /\ TypeOK'
  BY StreamPart DEF MainNext, Thread
<1>2. MainTypeOK'
  <2>1. MainTypeOK OBVIOUS
  <2> HIDE DEF MainInv
  <2>2. disposition' \in [AllSignals -> {"default", "ignored", "handler"}]
    BY <2>1 DEF MainTypeOK
  <2>3. QED BY <1>1, <2>1, <2>2 DEF MainTypeOK
<1>3. HandlerInv' BY DEF HandlerInv, Caught, MainTypeOK
<1>4. SignalInv' BY DEF SignalInv, MainTypeOK, TypeOK
<1>5. (PlaceInv /\ StatusInv)' BY DEF PlaceInv, StatusInv
<1>6. (HolderInv /\ OwedInv)' BY DEF HolderInv, OwedInv, Settled
<1>7. QED BY <1>1, <1>2, <1>3, <1>4, <1>5, <1>6

\* main() raises the signal that was remembered, and dies of it.
LEMMA RaiseKeepsInv == ASSUME MainInv, Raise PROVE MainInv'
<1> USE DEF MainInv, Raise
<1>1. StreamInv' /\ MemoryInv' /\ TypeOK'
  BY StreamPart DEF MainNext, Thread
<1>2. MainTypeOK' BY <1>1 DEF MainTypeOK
<1>3. SignalInv' BY DEF SignalInv, HandlerInv, MainTypeOK, TypeOK
<1>4. (PlaceInv /\ HandlerInv /\ StatusInv)'
  BY DEF PlaceInv, HandlerInv, StatusInv
<1>5. (HolderInv /\ OwedInv)' BY DEF HolderInv, OwedInv, Settled
<1>6. QED BY <1>1, <1>2, <1>3, <1>4, <1>5

\* Looking for interfaces borrows none.
LEMMA DiscoverKeepsInv ==
  ASSUME MainInv, InitContext \/ OpenDevices \/ ListInterfaces
  PROVE  MainInv'
<1> USE DEF MainInv, InitContext, OpenDevices, ListInterfaces, Discover
<1>1. StreamInv' /\ MemoryInv' /\ TypeOK'
  BY StreamPart DEF MainNext, Thread
<1>2. MainTypeOK' BY <1>1 DEF MainTypeOK
<1>3. (PlaceInv /\ HandlerInv)' BY DEF PlaceInv, HandlerInv, Caught
<1>4. (SignalInv /\ StatusInv)' BY DEF SignalInv, StatusInv
<1>5. (HolderInv /\ OwedInv)'
  BY DEF HolderInv, OwedInv, Settled, PlaceInv, MainTypeOK
<1>6. QED BY <1>1, <1>2, <1>3, <1>4, <1>5

\* An interface is borrowed only before the loop has passed it.
LEMMA DetachKeepsInv == ASSUME MainInv, Detach PROVE MainInv'
<1> USE DEF MainInv, Detach, ToCleanup, CleanupOrder
<1>1. StreamInv' /\ MemoryInv' /\ TypeOK'
  BY StreamPart DEF MainNext, Thread
<1>2. MainTypeOK'
  <2>1. holder' \in [Iface -> {"kernel", "nobody", "us", "other"}]
    BY DEF MainTypeOK
  <2>2. detached' \in [Iface -> BOOLEAN] BY DEF MainTypeOK
  <2>3. mpc' \in MainPoints /\ at' \in Iface BY DEF MainTypeOK
  <2>4. QED BY <1>1, <2>1, <2>2, <2>3 DEF MainTypeOK
<1>3. (PlaceInv /\ HandlerInv)' BY DEF PlaceInv, HandlerInv, Caught
<1>4. (SignalInv /\ StatusInv)' BY DEF SignalInv, StatusInv
<1>5. HolderInv' BY DEF HolderInv, MainTypeOK
<1>6. OwedInv' BY DEF OwedInv, MainTypeOK
<1>7. QED BY <1>1, <1>2, <1>3, <1>4, <1>5, <1>6

\* The claims extend by one interface until they cover the list.
LEMMA ClaimKeepsInv == ASSUME MainInv, Claim PROVE MainInv'
<1> USE DEF MainInv, Claim, NextInterface, FirstDump, ToCleanup, CleanupOrder
<1>1. StreamInv' /\ MemoryInv' /\ TypeOK'
  BY StreamPart DEF MainNext, Thread
<1>2. MainTypeOK'
  <2>1. holder' \in [Iface -> {"kernel", "nobody", "us", "other"}]
    BY DEF MainTypeOK
  <2>2. claimed' \in [Iface -> BOOLEAN] BY DEF MainTypeOK
  <2>3. mpc' \in MainPoints /\ at' \in Iface BY DEF MainTypeOK
  <2>4. QED BY <1>1, <2>1, <2>2, <2>3 DEF MainTypeOK
<1>3. (PlaceInv /\ HandlerInv)' BY DEF PlaceInv, HandlerInv, Caught
<1>4. (SignalInv /\ StatusInv)' BY DEF SignalInv, StatusInv
<1>5. HolderInv' BY DEF HolderInv, MainTypeOK
<1>6. OwedInv' BY DEF OwedInv, MainTypeOK
<1>7. QED BY <1>1, <1>2, <1>3, <1>4, <1>5, <1>6

\* The dump of the descriptors ends with the interfaces claimed.
LEMMA DumpDescriptorKeepsInv == ASSUME MainInv, DumpDescriptor PROVE MainInv'
<1> USE DEF MainInv, DumpDescriptor, ToCleanup, CleanupOrder
<1>1. StreamInv' /\ MemoryInv' /\ TypeOK'
  BY StreamPart DEF MainNext, Thread
<1>2. MainTypeOK' BY <1>1 DEF MainTypeOK
<1>3. (PlaceInv /\ HandlerInv)' BY DEF PlaceInv, HandlerInv, Caught
<1>4. (SignalInv /\ StatusInv)' BY DEF SignalInv, StatusInv
<1>5. (HolderInv /\ OwedInv)' BY DEF HolderInv, OwedInv, MainTypeOK
<1>6. QED BY <1>1, <1>2, <1>3, <1>4, <1>5

\* No step of the stream forgets the signal that came.
LEMMA ProgramKeepsSignal ==
  ASSUME Program PROVE exit_signum' = exit_signum
BY DEF Program, Call, Prepare, AllocList, AllocTransfer, FillTransfer,
   SubmitFirst, Loop, Poll, PollError, Callback, CheckPaused, Dump, Resubmit,
   DispatchDone, Scan, After, Cleanup, Cancel, Free

LEMMA StreamKeepsInv == ASSUME MainInv, Stream PROVE MainInv'
<1> USE DEF MainInv, Stream
<1>0. exit_signum' = exit_signum BY ProgramKeepsSignal
<1>1. StreamInv' /\ MemoryInv' /\ TypeOK'
  BY StreamPart DEF MainNext, Thread
<1>2. MainTypeOK' BY <1>1 DEF MainTypeOK
<1>3. (PlaceInv /\ HandlerInv)' BY DEF PlaceInv, HandlerInv, Caught
<1>4. (SignalInv /\ StatusInv)' BY <1>0 DEF SignalInv, StatusInv
<1>5. (HolderInv /\ OwedInv)' BY DEF HolderInv, OwedInv
<1>6. QED BY <1>1, <1>2, <1>3, <1>4, <1>5

\* The stream only succeeds after a signal, so status 0 does not hide one.
LEMMA StreamReturnedKeepsInv == ASSUME MainInv, StreamReturned PROVE MainInv'
<1> USE DEF MainInv, StreamReturned, StreamStatus, ToCleanup, CleanupOrder
<1>1. StreamInv' /\ MemoryInv' /\ TypeOK'
  BY StreamPart DEF MainNext, Thread
<1>2. MainTypeOK' BY <1>1 DEF MainTypeOK
<1>3. (PlaceInv /\ HandlerInv)' BY DEF PlaceInv, HandlerInv, Caught
<1>4. (SignalInv /\ StatusInv)'
  BY DEF SignalInv, StatusInv, StreamInv, ResultInv
<1>5. (HolderInv /\ OwedInv)' BY DEF HolderInv, OwedInv, MainTypeOK
<1>6. QED BY <1>1, <1>2, <1>3, <1>4, <1>5

LEMMA StreamCrashedKeepsInv == ASSUME MainInv, StreamCrashed PROVE MainInv'
<1> USE DEF MainInv, StreamCrashed, DropClaims
<1>1. StreamInv' /\ MemoryInv' /\ TypeOK'
  BY StreamPart DEF MainNext, Thread
<1>2. MainTypeOK' BY <1>1 DEF MainTypeOK
<1>3. (PlaceInv /\ HandlerInv)' BY DEF PlaceInv, HandlerInv, Caught
<1>4. (SignalInv /\ StatusInv)' BY DEF SignalInv, StatusInv
<1>5. (HolderInv /\ OwedInv)' BY DEF HolderInv, OwedInv
<1>6. QED BY <1>1, <1>2, <1>3, <1>4, <1>5

\* An interface that cannot be released is one the kernel refused.
LEMMA ReleaseKeepsInv == ASSUME MainInv, Release PROVE MainInv'
<1> USE DEF MainInv, Release, AfterCleanupOf, CleanupOrder
<1>1. StreamInv' /\ MemoryInv' /\ TypeOK'
  BY StreamPart DEF MainNext, Thread
<1>2. MainTypeOK'
  <2>1. holder' \in [Iface -> {"kernel", "nobody", "us", "other"}]
    BY DEF MainTypeOK
  <2>2. claimed' \in [Iface -> BOOLEAN] BY DEF MainTypeOK
  <2>3. excused' \subseteq Iface BY DEF MainTypeOK
  <2>4. QED BY <1>1, <2>1, <2>2, <2>3 DEF MainTypeOK
<1>3. (PlaceInv /\ HandlerInv)' BY DEF PlaceInv, HandlerInv, Caught
<1>4. (SignalInv /\ StatusInv)' BY DEF SignalInv, StatusInv
<1>5. HolderInv' BY DEF HolderInv, MainTypeOK
<1>6. OwedInv' BY DEF OwedInv, Settled, MainTypeOK
<1>7. QED BY <1>1, <1>2, <1>3, <1>4, <1>5, <1>6

\* Behind the loop no interface is owed that the kernel did not refuse.
LEMMA AttachKeepsInv == ASSUME MainInv, Attach PROVE MainInv'
<1> USE DEF MainInv, Attach, AfterCleanupOf, CleanupOrder, NextInterface,
            NeedsAttach
<1>1. StreamInv' /\ MemoryInv' /\ TypeOK'
  BY StreamPart DEF MainNext, Thread
<1>2. MainTypeOK'
  <2>1. holder' \in [Iface -> {"kernel", "nobody", "us", "other"}]
    BY DEF MainTypeOK
  <2>2. detached' \in [Iface -> BOOLEAN] BY DEF MainTypeOK
  <2>3. excused' \subseteq Iface BY DEF MainTypeOK
  <2>4. mpc' \in MainPoints /\ at' \in Iface BY DEF MainTypeOK
  <2>5. QED BY <1>1, <2>1, <2>2, <2>3, <2>4 DEF MainTypeOK
<1>3. (PlaceInv /\ HandlerInv)' BY DEF PlaceInv, HandlerInv, Caught
<1>4. (SignalInv /\ StatusInv)' BY DEF SignalInv, StatusInv
<1>5. HolderInv' BY DEF HolderInv, MainTypeOK
<1>6. OwedInv'
  <2>1. \A t \in 1..(at - 1) : detached'[t] => t \in excused'
    BY DEF OwedInv, Settled, MainTypeOK
  <2>2. mpc' # "attach" => (detached'[at] => at \in excused')
    BY DEF HolderInv, MainTypeOK
  <2>3. QED BY <2>1, <2>2 DEF OwedInv, Settled, MainTypeOK
<1>7. QED BY <1>1, <1>2, <1>3, <1>4, <1>5, <1>6

\* After closing the devices no interface is ours.
LEMMA CloseKeepsInv == ASSUME MainInv, Close PROVE MainInv'
<1> USE DEF MainInv, Close, DropClaims
<1>1. StreamInv' /\ MemoryInv' /\ TypeOK'
  BY StreamPart DEF MainNext, Thread
<1>2. MainTypeOK' BY <1>1 DEF MainTypeOK
<1>3. (PlaceInv /\ HandlerInv)' BY DEF PlaceInv, HandlerInv, Caught
<1>4. (SignalInv /\ StatusInv)' BY DEF SignalInv, StatusInv
<1>5. (HolderInv /\ OwedInv)' BY DEF HolderInv, OwedInv, Settled
<1>6. QED BY <1>1, <1>2, <1>3, <1>4, <1>5

-----------------------------------------------------------------------------
(***************************************************************************)
(* The steps of the rest of the system.                                    *)
(***************************************************************************)

LEMMA DevicesKeepInv == ASSUME MainInv, Devices PROVE MainInv'
<1> USE DEF MainInv, Devices
<1>1. StreamInv' /\ MemoryInv' /\ TypeOK' BY StreamPart DEF MainNext
<1>2. pc' = pc /\ exit_signum' = exit_signum
  BY DEF Kernel, Complete, TimeOut, DeviceFail, CancelDone, Finish
<1>3. MainTypeOK' BY <1>1 DEF MainTypeOK
<1>4. (PlaceInv /\ HandlerInv)' BY <1>2 DEF PlaceInv, HandlerInv, Caught
<1>5. (SignalInv /\ StatusInv)' BY <1>2 DEF SignalInv, StatusInv
<1>6. (HolderInv /\ OwedInv)' BY DEF HolderInv, OwedInv, Settled
<1>7. QED BY <1>1, <1>3, <1>4, <1>5, <1>6

\* A signal that is not caught only ends the program while nothing is
\* borrowed; one that is caught is remembered.
LEMMA DeliverKeepsInv ==
  ASSUME MainInv, NEW s \in Signals, Deliver(s) PROVE MainInv'
<1> USE DEF MainInv
<1>0. s \in AllSignals BY SignalsAssumption
<1>1. StreamInv' /\ MemoryInv' /\ TypeOK' BY StreamPart DEF MainNext
<1>2. /\ UNCHANGED <<pc, at, entity, status, detached, excused, disposition>>
      /\ delivered' = delivered \cup ({s} \cap ExitSignals)
      /\ claimed' = claimed /\ disposition[s] # "ignored" /\ Alive
  BY DEF Deliver, ExitSignal, Pause, Resume
<1>3. CASE disposition[s] = "default"
  <2>1. mpc' = "killed" /\ DropClaims /\ exit_signum' = exit_signum
    BY <1>3 DEF Deliver
  <2>2. mpc \in SettingUp \cup Leaving
    BY <1>0, <1>2, <1>3 DEF HandlerInv, Caught, Alive, MainTypeOK
  <2>3. (HolderInv /\ OwedInv)'
    BY <1>2, <2>1, <2>2 DEF HolderInv, OwedInv, Settled, DropClaims,
       MainTypeOK
  <2>4. MainTypeOK' BY <1>1, <1>2, <2>1 DEF MainTypeOK, DropClaims
  <2>5. (PlaceInv /\ HandlerInv)'
    BY <1>2, <2>1, <2>2 DEF PlaceInv, HandlerInv
  <2>6. (SignalInv /\ StatusInv)' BY <1>2, <2>1 DEF SignalInv, StatusInv
  <2>7. QED BY <1>1, <2>3, <2>4, <2>5, <2>6
<1>4. CASE disposition[s] # "default"
  <2>1. /\ mpc' = mpc /\ holder' = holder
        /\ IF s \in ExitSignals THEN exit_signum' = Remember(s)
                                ELSE exit_signum' = exit_signum
    BY <1>0, <1>4 DEF Deliver, ExitSignal, Pause, Resume
  <2>2. (SignalInv /\ StatusInv)'
    BY <1>0, <1>2, <2>1 DEF SignalInv, StatusInv, Remember, Alive, MainTypeOK
  <2>3. MainTypeOK' BY <1>1, <1>2, <2>1 DEF MainTypeOK
  <2>4. (PlaceInv /\ HandlerInv)'
    BY <1>2, <2>1 DEF PlaceInv, HandlerInv, Caught
  <2>5. (HolderInv /\ OwedInv)' BY <1>2, <2>1 DEF HolderInv, OwedInv, Settled
  <2>6. QED BY <1>1, <2>2, <2>3, <2>4, <2>5
<1>5. QED BY <1>3, <1>4

\* What others do to the interfaces never makes or unmakes one ours.
LEMMA OthersKeepInv ==
  ASSUME MainInv, NEW t \in Contested, Others(t) PROVE MainInv'
<1> USE DEF MainInv
<1>1. StreamInv' /\ MemoryInv' /\ TypeOK' BY StreamPart DEF MainNext
<1>2. /\ UNCHANGED <<vars, mainVars, detached, claimed, excused, sigVars>>
      /\ t \in Iface /\ holder[t] # "us"
  BY ContestedAssumption DEF Others
<1>3. \E to \in {"nobody", "other", "kernel"} :
         holder' = [holder EXCEPT ![t] = to]
  <2>1. PICK move \in {<<"nobody", "other">>, <<"nobody", "kernel">>,
                       <<"other", "nobody">>} :
               holder' = [holder EXCEPT ![t] = move[2]]
    BY DEF Others
  <2>2. move[2] \in {"nobody", "other", "kernel"} OBVIOUS
  <2>3. QED BY <2>1, <2>2
<1>4. MainTypeOK' BY <1>1, <1>2, <1>3 DEF MainTypeOK
<1>5. (PlaceInv /\ HandlerInv)' BY <1>2 DEF PlaceInv, HandlerInv, Caught
<1>6. (SignalInv /\ StatusInv)' BY <1>2 DEF SignalInv, StatusInv
<1>7. HolderInv' BY <1>2, <1>3 DEF HolderInv, MainTypeOK
<1>8. OwedInv' BY <1>2 DEF OwedInv, Settled
<1>9. QED BY <1>1, <1>4, <1>5, <1>6, <1>7, <1>8

LEMMA MainStutterKeepsInv == ASSUME MainInv, UNCHANGED allVars PROVE MainInv'
<1> USE DEF MainInv
<1>1. StreamInv' /\ TypeOK' BY StutterKeepsInv DEF StreamInv
<1>2. (MainTypeOK /\ MemoryInv)' BY <1>1 DEF MainTypeOK, MemoryInv
<1>3. (PlaceInv /\ HandlerInv)' BY DEF PlaceInv, HandlerInv, Caught
<1>4. (SignalInv /\ StatusInv)' BY DEF SignalInv, StatusInv
<1>5. (HolderInv /\ OwedInv)' BY DEF HolderInv, OwedInv, Settled
<1>6. QED BY <1>1, <1>2, <1>3, <1>4, <1>5

\* MainInv is inductive.
LEMMA MainNextKeepsInv == ASSUME MainInv, [MainNext]_allVars PROVE MainInv'
<1>1. CASE Thread
  BY <1>1, SetDispositionKeepsInv, RaiseKeepsInv, DiscoverKeepsInv,
     DetachKeepsInv, ClaimKeepsInv, DumpDescriptorKeepsInv, StreamKeepsInv,
     StreamReturnedKeepsInv, StreamCrashedKeepsInv, ReleaseKeepsInv,
     AttachKeepsInv, CloseKeepsInv DEF Thread
<1>2. CASE Devices BY <1>2, DevicesKeepInv
<1>3. CASE \E s \in Signals : Deliver(s) BY <1>3, DeliverKeepsInv
<1>4. CASE \E t \in Contested : Others(t) BY <1>4, OthersKeepInv
<1>5. CASE Halted \/ UNCHANGED allVars
  BY <1>5, MainStutterKeepsInv DEF Halted
<1>6. QED BY <1>1, <1>2, <1>3, <1>4, <1>5 DEF MainNext

-----------------------------------------------------------------------------
(***************************************************************************)
(* The theorems, for any number of interfaces, any calls that may fail, any *)
(* signals and whatever other programs do.                                 *)
(***************************************************************************)

\* Every reachable state of the program satisfies the inductive invariant.
THEOREM MainInvariant == MainSpec => []MainInv
<1>1. MainInit => MainInv BY MainInitInv
<1>2. MainInv /\ [MainNext]_allVars => MainInv' BY MainNextKeepsInv
<1>3. QED BY <1>1, <1>2, PTL DEF MainSpec

\* The variables of main() and run() keep their types: in particular no loop
\* leaves the list of interfaces.
THEOREM MainTypeCorrect == MainSpec => []MainTypeOK
<1>1. MainInv => MainTypeOK BY DEF MainInv
<1>2. QED BY <1>1, MainInvariant, PTL

\* The stream inside the program behaves as UhdStream says, so what is proved
\* about the stream alone holds of it inside the program.
THEOREM ContainsStream == MainSpec => Spec
<1>1. MainInit => Init BY DEF MainInit
<1>2. [MainNext]_allVars => [Next]_vars BY StreamMoves
<1>3. QED BY <1>1, <1>2, PTL DEF MainSpec, Spec

\* An interface is not released under a transfer in flight, except one whose
\* cancellation was refused or could not be waited for: inside the stream all
\* interfaces are claimed, outside it only such transfers are in flight.
THEOREM FliesOnlyWhileClaimed == MainSpec => []FlightOnlyWhileClaimed
<1>1. ASSUME MainInv, Alive, NEW t \in Iface, urb[t] # "idle"
      PROVE  holder[t] = "us" \/ t \in refused \/ drainFailed
  <2>1. CASE mpc = "stream" BY <1>1, <2>1 DEF MainInv, HolderInv
  <2>2. CASE mpc # "stream" /\ pc = "idle"
    BY <1>1, <2>2 DEF MainInv, StreamInv, SlotInv, FlagTracksFlight
  <2>3. CASE mpc # "stream" /\ pc = "returned"
    BY <1>1, <2>3 DEF MainInv, StreamInv, FreeInv, FlagTracksFlight
  <2>4. QED BY <1>1, <2>1, <2>2, <2>3 DEF MainInv, PlaceInv, Alive
<1>2. MainInv => FlightOnlyWhileClaimed BY <1>1 DEF FlightOnlyWhileClaimed
<1>3. QED BY <1>2, MainInvariant, PTL

\* No exit signal is lost: one that came is remembered, its handler is gone
\* when main() raises it again, and it was not inherited as ignored.
THEOREM LosesNoSignal == MainSpec => []NoSignalLost
<1>1. MainInv => NoSignalLost BY DEF MainInv, SignalInv, NoSignalLost
<1>2. QED BY <1>1, MainInvariant, PTL

\* Exit status 0 means that only descriptors were dumped, and all of them.
THEOREM ZeroOnlyForDescriptors == MainSpec => []ZeroMeansDescriptors
<1>1. MainInv => ZeroMeansDescriptors
  BY DEF MainInv, SignalInv, StatusInv, ZeroMeansDescriptors
<1>2. QED BY <1>1, MainInvariant, PTL

\* However the program ends, short of the crash that running out of memory for
\* a transfer causes, the interfaces it took are given back or the kernel
\* refused them.
THEOREM HandsBack ==
  ASSUME "transfer" \notin Faults PROVE MainSpec => []HandedBack
<1>1. MainInv => HandedBack
  BY DEF MainInv, HandedBack, OwedInv, Settled, MemoryInv, PlaceInv
<1>2. QED BY <1>1, MainInvariant, PTL

-----------------------------------------------------------------------------
(***************************************************************************)
(* The refinement: the program keeps DriverLoan's promise.                 *)
(***************************************************************************)

Owed == {t \in Iface : detached[t]}

\* Every step of the program borrows, claims, releases or gives back one
\* interface, is one of the rest of the system, or is none of the loan's.
LEMMA StepsOfTheLoan ==
  ASSUME MainInv, MainInv', "transfer" \notin Faults, [MainNext]_allVars
  PROVE  [Loan!Next]_(Loan!loanVars)
<1> USE DEF Loan!loanVars, Loan!Next, Loan!Move
<1> DEFINE Quiet == UNCHANGED <<holder, detached, excused>>
                    /\ (mpc' \in Terminal <=> mpc \in Terminal)
<1>1. ASSUME Quiet PROVE UNCHANGED Loan!loanVars BY <1>1
<1>2. CASE SetupInt \/ SetupTerm \/ SetupUsr1 \/ SetupUsr2 \/ RestoreInt
           \/ RestoreTerm \/ InitContext \/ OpenDevices \/ ListInterfaces
  BY <1>1, <1>2 DEF SetupInt, SetupTerm, SetupUsr1, SetupUsr2, RestoreInt,
     RestoreTerm, SetDisposition, InitContext, OpenDevices, ListInterfaces,
     Discover
<1>3. CASE DumpDescriptor \/ Stream \/ StreamReturned \/ Devices \/ Halted
           \/ UNCHANGED allVars
  BY <1>1, <1>3 DEF DumpDescriptor, Stream, StreamReturned, ToCleanup,
     CleanupOrder, Devices, Halted
<1>4. CASE StreamCrashed
  BY <1>4 DEF StreamCrashed, MainInv, MemoryInv
<1>5. CASE Detach
  <2>1. CASE UNCHANGED <<holder, detached>>
    BY <1>1, <1>5, <2>1 DEF Detach, ToCleanup, CleanupOrder
  <2>2. CASE /\ holder[at] = "kernel"
             /\ holder' = [holder EXCEPT ![at] = "nobody"]
             /\ detached' = [detached EXCEPT ![at] = TRUE]
    <3>1. at \in Iface /\ ~detached[at] /\ mpc = "detach"
      BY <1>5 DEF Detach, MainInv, MainTypeOK, OwedInv
    <3>2. Owed' = Owed \cup {at} BY <2>2, <3>1 DEF Owed, MainInv, MainTypeOK
    <3>3. mpc' \notin Terminal /\ excused' = excused
      BY <1>5 DEF Detach, ToCleanup, CleanupOrder
    <3>4. Loan!Take(at)
      BY <2>2, <3>1, <3>2, <3>3 DEF Loan!Take, Owed
    <3>5. QED BY <3>1, <3>4 DEF Loan!Take
  <2>3. QED BY <1>5, <2>1, <2>2 DEF Detach
<1>6. CASE Claim
  <2>1. CASE UNCHANGED holder
    BY <1>1, <1>6, <2>1 DEF Claim, NextInterface, FirstDump, ToCleanup,
       CleanupOrder
  <2>2. CASE holder[at] = "nobody" /\ holder' = [holder EXCEPT ![at] = "us"]
    <3>1. at \in Iface /\ mpc = "claim" BY <1>6 DEF Claim, MainInv, MainTypeOK
    <3>2. /\ mpc' \notin Terminal
          /\ UNCHANGED <<detached, excused>>
      BY <1>6 DEF Claim, NextInterface, FirstDump, ToCleanup, CleanupOrder
    <3>3. Loan!Claim(at) BY <2>2, <3>1, <3>2 DEF Loan!Claim
    <3>4. QED BY <3>1, <3>3
  <2>3. QED BY <1>6, <2>1, <2>2 DEF Claim
<1>7. CASE Release
  <2>1. /\ at \in Iface /\ mpc \notin Terminal /\ mpc' \notin Terminal
        /\ detached' = detached
    BY <1>7 DEF Release, AfterCleanupOf, CleanupOrder, MainInv, MainTypeOK
  <2>2. CASE UNCHANGED <<holder, excused>> BY <1>1, <2>1, <2>2
  <2>3. CASE /\ holder[at] = "us" /\ excused' = excused
             /\ holder' = [holder EXCEPT ![at] = "nobody"]
    <3>1. holder' = [t \in Iface |-> IF t \in {at} THEN "nobody"
                                                   ELSE holder[t]]
      BY <2>3 DEF MainInv, MainTypeOK
    <3>2. \A t \in {at} : holder[t] = "us" BY <2>3
    <3>3. UNCHANGED <<Owed, excused, mpc \in Terminal>>
      BY <2>1, <2>3 DEF Owed
    <3>4. Loan!Release({at}) BY <3>1, <3>2, <3>3, Zenon DEF Loan!Release, Owed
    <3>5. QED BY <2>1, <3>4
  <2>4. CASE holder' = holder /\ excused' = excused \cup {at}
    <3>1. Loan!Refuse(at) BY <2>1, <2>4 DEF Loan!Refuse
    <3>2. QED BY <2>1, <3>1
  <2>5. QED BY <1>7, <2>2, <2>3, <2>4 DEF Release
<1>8. CASE Attach
  <2>1. at \in Iface /\ mpc \notin Terminal /\ mpc' \notin Terminal
    BY <1>8 DEF Attach, AfterCleanupOf, CleanupOrder, NextInterface, MainInv,
       MainTypeOK
  <2>2. CASE UNCHANGED <<holder, detached, excused>> BY <1>1, <2>1, <2>2
  <2>3. CASE /\ detached[at] /\ holder[at] = "nobody" /\ excused' = excused
             /\ holder' = [holder EXCEPT ![at] = "kernel"]
             /\ detached' = [detached EXCEPT ![at] = FALSE]
    <3>1. Owed' = Owed \ {at} BY <2>3 DEF Owed, MainInv, MainTypeOK
    <3>2. Loan!GiveBack(at) BY <2>1, <2>3, <3>1 DEF Loan!GiveBack, Owed
    <3>3. QED BY <2>1, <3>2 DEF Loan!GiveBack
  <2>4. CASE UNCHANGED <<holder, detached>> /\ excused' = excused \cup {at}
    <3>1. Loan!Refuse(at) BY <2>1, <2>4 DEF Loan!Refuse
    <3>2. QED BY <2>1, <3>1
  <2>5. QED BY <1>8, <2>2, <2>3, <2>4 DEF Attach, NeedsAttach
<1>9. CASE Close
  <2> DEFINE ours == {t \in Iface : holder[t] = "us"}
  <2>1. Loan!Release(ours)
    BY <1>9 DEF Loan!Release, Close, DropClaims
  <2>2. ours \in SUBSET Iface OBVIOUS
  <2>3. QED BY <2>1, <2>2
<1>10. ASSUME mpc \notin Terminal, mpc' \in Terminal, mpc' # "crashed",
              \A t \in Iface : holder[t] # "us", DropClaims \/ holder' = holder,
              UNCHANGED <<detached, excused>>
       PROVE  Loan!End
  <2>1. holder' = holder BY <1>10 DEF DropClaims, MainInv, MainTypeOK
  <2>2. \A t \in Iface : detached[t] => t \in excused
    BY <1>10 DEF MainInv, OwedInv, Settled
  <2>3. QED BY <1>10, <2>1, <2>2 DEF Loan!End
<1>11. CASE Raise
  BY <1>10, <1>11 DEF Raise, MainInv, HolderInv
<1>12. CASE \E s \in Signals : Deliver(s)
  <2>1. PICK s \in Signals : Deliver(s) BY <1>12
  <2>2. CASE disposition[s] # "default"
    BY <1>1, <2>1, <2>2 DEF Deliver, ExitSignal, Pause, Resume
  <2>3. CASE disposition[s] = "default"
    <3>1. mpc \in SettingUp \cup Leaving
      BY <2>1, <2>3, SignalsAssumption DEF Deliver, Alive, MainInv, HandlerInv,
         Caught, MainTypeOK
    <3>2. \A t \in Iface : holder[t] # "us" BY <3>1 DEF MainInv, HolderInv
    <3>3. QED BY <1>10, <2>1, <2>3, <3>2 DEF Deliver, Alive
  <2>4. QED BY <2>2, <2>3
<1>13. CASE \E t \in Contested : Others(t)
  <2>1. PICK t \in Contested : Others(t) BY <1>13
  <2>2. t \in Iface BY ContestedAssumption
  <2>3. UNCHANGED <<mpc, detached, excused>>
        /\ \/ Loan!Move(t, "nobody", "other")
           \/ Loan!Move(t, "nobody", "kernel")
           \/ Loan!Move(t, "other", "nobody")
    <3>1. PICK move \in {<<"nobody", "other">>, <<"nobody", "kernel">>,
                         <<"other", "nobody">>} :
                 holder[t] = move[1] /\ holder' = [holder EXCEPT ![t] = move[2]]
      BY <2>1 DEF Others
    <3>2. UNCHANGED <<mpc, detached, excused>> BY <2>1 DEF Others
    <3>3. CASE move = <<"nobody", "other">> BY <3>1, <3>2, <3>3
    <3>4. CASE move = <<"nobody", "kernel">> BY <3>1, <3>2, <3>4
    <3>5. CASE move = <<"other", "nobody">> BY <3>1, <3>2, <3>5
    <3>6. QED BY <3>3, <3>4, <3>5
  <2>4. Loan!Others(t) BY <2>3 DEF Loan!Others
  <2>5. QED BY <2>2, <2>4
<1>14. QED
  BY <1>2, <1>3, <1>4, <1>5, <1>6, <1>7, <1>8, <1>9, <1>11, <1>12, <1>13
     DEF MainNext, Thread

\* The whole program, with its faults, signals and rivals, implements the
\* abstract loan: interfaces are claimed only when free, and all that is owed
\* is given back or refused before the program ends - as long as there is
\* memory for the transfers.
THEOREM KeepsPromise ==
  ASSUME "transfer" \notin Faults PROVE MainSpec => KeepsLoanPromise
<1>1. MainInit => Loan!Init
  BY DEF MainInit, Loan!Init, Loan!Holders
<1>2. MainInv /\ MainInv' /\ [MainNext]_allVars
        => [Loan!Next]_(Loan!loanVars)
  BY StepsOfTheLoan
<1>3. QED
  BY <1>1, <1>2, MainInvariant, PTL DEF MainSpec, KeepsLoanPromise, Loan!Spec

=============================================================================
