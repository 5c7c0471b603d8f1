--------------------------- MODULE UtilitiesProofs --------------------------
(***************************************************************************)
(* What is proved of the programs one by one holds of them beside the      *)
(* devices of Utilities: a step of another program changes nothing of      *)
(* theirs, and all see the same devices come and go.                       *)
(***************************************************************************)
EXTENDS Utilities, LsusbProofs

RP == INSTANCE UsbresetProofs WITH Attr <- SysfsAttr
FP == INSTANCE UhdDiscoveryProofs

utilitiesVars == <<lsusbOnly, plugged, usbresetOnly, discoveryOnly>>

-----------------------------------------------------------------------------
(***************************************************************************)
(* usbreset.                                                               *)
(***************************************************************************)

\* The bus is the one its proofs assume.
LEMMA BusIsSound == RP!SoundBus
BY BusAssumption DEF R!SoundBus, RP!SoundBus, R!NoEntry, RP!NoEntry,
   R!IsFiniteSet, RP!IsFiniteSet

\* It starts or is left alone.
LEMMA UsbresetStarts == UtilitiesInit => RP!UsbresetInv
<1>1. UtilitiesInit =>
        \E point \in {"none", "start"},
           arguments \in {Arguments, {CHOOSE a \in Arguments : TRUE}} :
          RP!UsbresetAt(point, arguments)
  BY DEF UtilitiesInit, R!UsbresetAt, RP!UsbresetAt, R!Compatible,
         RP!Compatible, R!NoEntry, RP!NoEntry
<1>2. QED BY <1>1, RP!UsbresetAtInv

\* What the programs do plugs and unplugs nothing.
LEMMA LsusbLeavesTheBus == LsusbStep => UNCHANGED plugged
BY DEF LsusbStep, Option, Usage, names_init, lsusb_t, libusb_init,
       dump_one_device, GetDeviceList, SkipDevice, ShowDevice, AllListed,
       FreeDeviceList, Dump, CloseLibusb

LEMMA DiscoveryLeavesTheBus == F!DiscoveryStep => UNCHANGED plugged
BY DEF F!DiscoveryStep, F!Option, F!libusb_init, F!GetDeviceList,
       F!SkipDevice, F!OpenDevice, F!DeviceFails, F!AllOpen, F!UndoOpen,
       F!GetConfig, F!SkipInterface, F!AddInterface, F!FreeConfig,
       F!UndoList, F!AllListed, F!KeepInterface, F!DropInterface,
       F!Filtered, F!Run, F!Cleanup

LEMMA UsbresetLeavesTheBus == R!UsbresetStep => UNCHANGED plugged
BY DEF R!UsbresetStep, R!Start, R!ReadName, R!ReadAttribute, R!UseEntry,
       R!Multiple, R!EndMeasure, R!EndOfDirectory, R!reset_device, R!opendir,
       R!Usage, R!Complete

\* Each step of usbreset is a step in its proofs.
LEMMA UsbresetStepIsOne == R!UsbresetStep => RP!UsbresetStep
BY DEF R!UsbresetStep, RP!UsbresetStep, R!Start, RP!Start, R!ReadName,
       RP!ReadName, R!ReadAttribute, RP!ReadAttribute, R!UseEntry,
       RP!UseEntry, R!Multiple, RP!Multiple, R!EndMeasure, RP!EndMeasure,
       R!EndOfDirectory, RP!EndOfDirectory, R!reset_device, RP!reset_device,
       R!opendir, RP!opendir, R!Ports, RP!Ports, R!At, RP!At, R!Numbered,
       RP!Numbered, R!Attributes, RP!Attributes, R!NoEntry, RP!NoEntry,
       R!Usage, RP!Usage, R!Complete, RP!Complete, R!Matches, RP!Matches,
       R!EntryRead, RP!EntryRead, R!AtEnd, RP!AtEnd, R!directory,
       RP!directory, R!history, RP!history, R!result, RP!result

\* Whatever happens is a step of usbreset or of the bus it sees, or neither.
LEMMA UsbresetSteps ==
  ASSUME [UtilitiesNext]_utilitiesVars
  PROVE  [RP!UsbresetNext]_RP!usbresetVars
<1>1. CASE RunUsbreset
  BY <1>1, UsbresetStepIsOne DEF RunUsbreset, RP!UsbresetNext
<1>2. CASE UNCHANGED usbresetOnly /\ UNCHANGED plugged
  BY <1>2
  DEF usbresetOnly, RP!usbresetVars, RP!directory, RP!history, RP!result
<1>3. CASE RunLsusb \/ RunDiscovery \/ UNCHANGED utilitiesVars
  BY <1>2, <1>3, LsusbLeavesTheBus, DiscoveryLeavesTheBus
  DEF RunLsusb, RunDiscovery, utilitiesVars
<1>4. ASSUME NEW d \in Devices, R!Plug(d) \/ R!Unplug(d)
      PROVE  RP!UsbresetNext
  BY <1>4
  DEF R!Plug, RP!Plug, R!Unplug, RP!Unplug, R!Compatible, RP!Compatible,
      R!directory, RP!directory, R!history, RP!history, R!result, RP!result,
      RP!UsbresetNext
<1>5. QED BY <1>1, <1>3, <1>4 DEF UtilitiesNext

\* The invariant of usbreset, as it runs beside lsusb and usbhid-dump or does
\* not run at all.
THEOREM UtilitiesUsbreset == UtilitiesSpec => []RP!UsbresetInv
<1>1. RP!UsbresetInv /\ [UtilitiesNext]_utilitiesVars => RP!UsbresetInv'
  BY UsbresetSteps, BusIsSound, RP!UsbresetNextKeepsInv
<1>2. QED BY <1>1, UsbresetStarts, PTL DEF UtilitiesSpec, utilitiesVars

\* Whatever is plugged in or unplugged while it reads sysfs, usbreset resets
\* no device that has been there all the time but is not what was asked for.
THEOREM UtilitiesNoBystanderReset == UtilitiesSpec => []NoBystanderReset
<1>1. RP!UsbresetInv => NoBystanderReset
  BY BusIsSound, RP!SteadyIsMatched
  DEF NoBystanderReset, R!NoBystanderReset, RP!NoBystanderReset, R!Matches,
      RP!Matches
<1>2. QED BY <1>1, UtilitiesUsbreset, PTL

\* If nothing comes or goes, usbreset resets the one device that matches, and
\* none if there is none or are several.
THEOREM UtilitiesResetsTheOneAskedFor ==
  UtilitiesSpec => []ResetsTheOneAskedFor
<1>1. RP!UsbresetInv => ResetsTheOneAskedFor
  BY BusIsSound, RP!OneAskedFor
  DEF ResetsTheOneAskedFor, R!ResetsTheOneAskedFor, RP!ResetsTheOneAskedFor,
      R!Matches, RP!Matches, R!Sought, RP!Sought, R!Cardinality,
      RP!Cardinality
<1>2. QED BY <1>1, UtilitiesUsbreset, PTL

\* usbreset resets none of two devices that match all the time, unless an
\* entry of sysfs it could not read ended the search.
THEOREM UtilitiesAmbiguityStops == UtilitiesSpec => []AmbiguityStops
<1>1. RP!UsbresetInv => AmbiguityStops
  BY BusIsSound, RP!OneOfTheSteady
  DEF AmbiguityStops, R!AmbiguityStops, RP!AmbiguityStops, R!Matches,
      RP!Matches, R!Cardinality, RP!Cardinality
<1>2. QED BY <1>1, UtilitiesUsbreset, PTL

-----------------------------------------------------------------------------
(***************************************************************************)
(* usbhid-dump.                                                            *)
(***************************************************************************)

\* What usbhid-dump finds is what its proofs assume.
LEMMA InterfacesAreSound == FP!SoundDiscovery
BY DiscoveryAssumption
DEF F!SoundDiscovery, FP!SoundDiscovery, F!IsFiniteSet, FP!IsFiniteSet,
    F!Range, FP!Range

\* It starts or is left alone.
LEMMA DiscoveryStarts == UtilitiesInit => FP!DiscoveryInv
<1>1. SUFFICES ASSUME UtilitiesInit PROVE FP!DiscoveryInv OBVIOUS
<1>2. plugged \subseteq Devices
  BY <1>1 DEF UtilitiesInit, LsusbAt
<1>3. PICK point \in {"none", "options"}, lines \in {Words, {<<>>}} :
        F!DiscoveryAt(point, lines)
  BY <1>1 DEF UtilitiesInit
<1>4. FP!DiscoveryAt(point, lines)
  BY <1>3 DEF F!DiscoveryAt, FP!DiscoveryAt, F!NoMask, FP!NoMask,
     F!AnyNumber, FP!AnyNumber, F!AnyIface, FP!AnyIface
<1>5. Words \in SUBSET Seq(FP!Options)
  BY InterfacesAreSound DEF FP!SoundDiscovery, FP!Options
<1>6. {<<>>} \in SUBSET Seq(FP!Options) OBVIOUS
<1>7. lines \in SUBSET Seq(FP!Options) BY <1>3, <1>5, <1>6
<1>8. QED BY <1>2, <1>4, <1>7, InterfacesAreSound, FP!DiscoveryAtInv

\* Each step of usbhid-dump is a step in its proofs.
LEMMA DiscoveryStepIsOne == F!DiscoveryStep => FP!DiscoveryStep
<1> USE DEF F!optionVars, FP!optionVars, F!listVars, FP!listVars,
            F!deviceVars, FP!deviceVars, F!ifaceVars, FP!ifaceVars
<1>1. F!UINT8 = FP!UINT8 /\ F!UINT16 = FP!UINT16
  BY DEF F!UINT8, FP!UINT8, F!UINT16, FP!UINT16
<1>2. ASSUME NEW o
      PROVE  /\ F!parse_address(o) <=> FP!parse_address(o)
             /\ F!parse_model(o) <=> FP!parse_model(o)
             /\ F!parse_iface_num(o) <=> FP!parse_iface_num(o)
  <2>1. F!parse_address(o) <=> FP!parse_address(o)
    BY <1>1 DEF F!parse_address, FP!parse_address
  <2>2. F!parse_model(o) <=> FP!parse_model(o)
    BY <1>1 DEF F!parse_model, FP!parse_model
  <2>3. F!parse_iface_num(o) <=> FP!parse_iface_num(o)
    BY <1>1 DEF F!parse_iface_num, FP!parse_iface_num
  <2>4. QED BY <2>1, <2>2, <2>3
<1>3. F!Option => FP!Option
  BY <1>1, <1>2 DEF F!Option, FP!Option, F!Exit, FP!Exit
<1>4. F!libusb_init => FP!libusb_init
  BY DEF F!libusb_init, FP!libusb_init, F!Operands, FP!Operands, F!Exit,
         FP!Exit
<1>5. F!GetDeviceList => FP!GetDeviceList
  BY DEF F!GetDeviceList, FP!GetDeviceList, F!SetToSeqs, FP!SetToSeqs,
         F!Cardinality, FP!Cardinality, F!IsFiniteSet, FP!IsFiniteSet
<1>6. F!SkipDevice => FP!SkipDevice
  BY DEF F!SkipDevice, FP!SkipDevice, F!Opening, FP!Opening, F!AddressFits,
         FP!AddressFits, F!ModelFits, FP!ModelFits, F!AnyNumber, FP!AnyNumber
<1>7. F!OpenDevice => FP!OpenDevice
  BY DEF F!OpenDevice, FP!OpenDevice, F!Opening, FP!Opening, F!AddressFits,
         FP!AddressFits, F!ModelFits, FP!ModelFits, F!AnyNumber, FP!AnyNumber
<1>8. F!DeviceFails => FP!DeviceFails
  BY DEF F!DeviceFails, FP!DeviceFails, F!Opening, FP!Opening, F!AddressFits,
         FP!AddressFits, F!ModelFits, FP!ModelFits, F!ModelAsked,
         FP!ModelAsked, F!AnyNumber, FP!AnyNumber
<1>9. F!AllOpen => FP!AllOpen
  BY DEF F!AllOpen, FP!AllOpen
<1>10. F!UndoOpen => FP!UndoOpen
  BY DEF F!UndoOpen, FP!UndoOpen, F!Range, FP!Range
<1>11. F!GetConfig => FP!GetConfig
  BY DEF F!GetConfig, FP!GetConfig, F!Listing, FP!Listing
<1>12. F!SkipInterface => FP!SkipInterface
  BY DEF F!SkipInterface, FP!SkipInterface, F!Listing, FP!Listing, F!Reading,
         FP!Reading, F!Current, FP!Current, F!IsHid, FP!IsHid, F!HidClass,
         FP!HidClass, F!AnyIface, FP!AnyIface
<1>13. F!AddInterface => FP!AddInterface
  BY DEF F!AddInterface, FP!AddInterface, F!Listing, FP!Listing, F!Reading,
         FP!Reading, F!Current, FP!Current, F!IsHid, FP!IsHid, F!HidClass,
         FP!HidClass, F!AnyIface, FP!AnyIface, F!rd_len, FP!rd_len, F!HID,
         FP!HID, F!REPORT, FP!REPORT, F!MaxDescriptorSize,
         FP!MaxDescriptorSize, F!Min, FP!Min
<1>14. F!FreeConfig => FP!FreeConfig
  BY DEF F!FreeConfig, FP!FreeConfig, F!Listing, FP!Listing
<1>15. F!UndoList => FP!UndoList
  BY DEF F!UndoList, FP!UndoList
<1>16. F!AllListed => FP!AllListed
  BY DEF F!AllListed, FP!AllListed
<1>17. F!KeepInterface => FP!KeepInterface
  BY DEF F!KeepInterface, FP!KeepInterface, F!Filtering, FP!Filtering,
         F!AnyIface, FP!AnyIface
<1>18. F!DropInterface => FP!DropInterface
  BY DEF F!DropInterface, FP!DropInterface, F!Filtering, FP!Filtering,
         F!AnyIface, FP!AnyIface, F!RemoveAt, FP!RemoveAt
<1>19. F!Filtered => FP!Filtered
  BY DEF F!Filtered, FP!Filtered, F!Filtering, FP!Filtering, F!AnyIface,
         FP!AnyIface
<1>20. F!Run => FP!Run
  BY DEF F!Run, FP!Run
<1>21. F!Cleanup => FP!Cleanup
  BY DEF F!Cleanup, FP!Cleanup, F!Range, FP!Range
<1>22. QED
  BY <1>3, <1>4, <1>5, <1>6, <1>7, <1>8, <1>9, <1>10, <1>11, <1>12, <1>13,
     <1>14, <1>15, <1>16, <1>17, <1>18, <1>19, <1>20, <1>21
  DEF F!DiscoveryStep, FP!DiscoveryStep

\* Whatever happens is a step of usbhid-dump or of the bus it sees, or
\* neither.
LEMMA DiscoverySteps ==
  ASSUME [UtilitiesNext]_utilitiesVars
  PROVE  [FP!DiscoveryNext]_FP!discoveryVars
<1>1. CASE RunDiscovery
  BY <1>1, DiscoveryStepIsOne DEF RunDiscovery, FP!DiscoveryNext
<1>2. CASE UNCHANGED discoveryOnly /\ UNCHANGED plugged
  BY <1>2
  DEF discoveryOnly, FP!discoveryVars, FP!optionVars, FP!listVars,
      FP!deviceVars, FP!ifaceVars
<1>3. CASE RunLsusb \/ RunUsbreset \/ UNCHANGED utilitiesVars
  BY <1>2, <1>3, LsusbLeavesTheBus, UsbresetLeavesTheBus
  DEF RunLsusb, RunUsbreset, utilitiesVars
<1>4. ASSUME NEW d \in Devices, F!Plug(d) \/ F!Unplug(d)
      PROVE  FP!DiscoveryNext
  BY <1>4
  DEF F!Plug, FP!Plug, F!Unplug, FP!Unplug, F!optionVars, FP!optionVars,
      F!listVars, FP!listVars, F!deviceVars, FP!deviceVars, F!ifaceVars,
      FP!ifaceVars, FP!DiscoveryNext
<1>5. QED BY <1>1, <1>3, <1>4 DEF UtilitiesNext

\* The invariant of usbhid-dump's discovery, as it runs beside the others or
\* does not run at all.
THEOREM UtilitiesDiscovery == UtilitiesSpec => []FP!DiscoveryInv
<1>1. FP!DiscoveryInv /\ [UtilitiesNext]_utilitiesVars => FP!DiscoveryInv'
  BY DiscoverySteps, InterfacesAreSound, FP!DiscoveryNextKeepsInv
<1>2. QED BY <1>1, DiscoveryStarts, PTL DEF UtilitiesSpec, utilitiesVars

\* usbhid-dump finds all of the interfaces it is asked for or dumps none, and
\* keeps nothing open, on the devices lsusb and usbreset see.
THEOREM UtilitiesAllOrNothing == UtilitiesSpec => []AllOrNothing
<1>1. FP!DiscoveryInv => FP!AllOrNothing
  BY InterfacesAreSound, FP!InvIsAllOrNothing
<1>2. F!AskedFor = FP!AskedFor
  BY DEF F!AskedFor, FP!AskedFor, F!Asked, FP!Asked, F!Places, FP!Places,
         F!LastOf, FP!LastOf, F!Max, FP!Max, F!IsHid, FP!IsHid, F!AnyIface,
         FP!AnyIface, F!HidClass, FP!HidClass
<1>3. FP!AllOrNothing => AllOrNothing
  BY <1>2
  DEF AllOrNothing, F!AllOrNothing, FP!AllOrNothing, F!Range, FP!Range,
      F!Cardinality, FP!Cardinality, F!IsFiniteSet, FP!IsFiniteSet
<1>4. QED BY <1>1, <1>3, UtilitiesDiscovery, PTL

-----------------------------------------------------------------------------
(***************************************************************************)
(* lsusb.                                                                  *)
(***************************************************************************)

\* It starts or is left alone.
LEMMA LsusbStartsHere == UtilitiesInit => LsusbInv
<1>1. SUFFICES ASSUME UtilitiesInit PROVE LsusbInv OBVIOUS
<1>2. PICK point \in {"none", "options"}, lines \in {CommandLines, {<<>>}} :
        LsusbAt(point, lines)
  BY <1>1 DEF UtilitiesInit
<1>3. lines \in SUBSET Seq(Options)
  BY <1>2, LsusbAssumption, EmptySeq DEF LsusbAssumption
<1>4. QED BY <1>2, <1>3, LsusbStarts

\* Whatever the other programs do leaves it as it is.
LEMMA UtilitiesKeepLsusb ==
  ASSUME LsusbInv, [UtilitiesNext]_utilitiesVars PROVE LsusbInv'
<1>1. CASE RunLsusb BY <1>1, LsusbStepKeepsInv DEF RunLsusb
<1>2. CASE UNCHANGED lsusbOnly /\ UNCHANGED plugged
  BY <1>2, LsusbStutters DEF lsusbOnly, lsusbVars
<1>3. CASE RunUsbreset \/ RunDiscovery \/ UNCHANGED utilitiesVars
  BY <1>2, <1>3, UsbresetLeavesTheBus, DiscoveryLeavesTheBus
  DEF RunUsbreset, RunDiscovery, utilitiesVars
<1>4. ASSUME NEW d \in Devices, Plug(d) \/ Unplug(d)
      PROVE  LsusbInv'
  BY <1>4, BusKeepsInv
<1>5. QED BY <1>1, <1>3, <1>4 DEF UtilitiesNext

\* The invariant of lsusb, as it runs beside usbreset and usbhid-dump or does
\* not run at all.
THEOREM UtilitiesLsusb == UtilitiesSpec => []LsusbInv
<1>1. LsusbInv /\ [UtilitiesNext]_utilitiesVars => LsusbInv'
  BY UtilitiesKeepLsusb
<1>2. QED BY <1>1, LsusbStartsHere, PTL DEF UtilitiesSpec, utilitiesVars

\* Unless -D names a device, what lsusb shows is in the order of the addresses
\* and, when all is shown, what the options ask for of the devices listed,
\* whatever is plugged in or unplugged meanwhile.
THEOREM UtilitiesShowsTheSelectionInOrder ==
  UtilitiesSpec => []ShowsTheSelectionInOrder
BY UtilitiesLsusb, InvShowsTheSelection, PTL

\* A path that leads to the node of a device leads -D to that device, and no
\* other path does, whatever is plugged in or unplugged meanwhile, with the
\* exceptions of LsusbFindsTheNode (Plain).
THEOREM UtilitiesFindsTheNode == UtilitiesSpec => []FindsTheNode
BY UtilitiesLsusb, InvFindsTheNode, PTL

\* lsusb succeeds exactly if it could do what it was asked for.
THEOREM UtilitiesStatusTells == UtilitiesSpec => []StatusTells
BY UtilitiesLsusb, InvStatusTells, PTL

\* Something refers to a device for as long as lsusb uses it, but for one that
\* -D names; in the end all is given back.
THEOREM UtilitiesHeldWhileUsed == UtilitiesSpec => []HeldWhileUsed
BY UtilitiesLsusb, InvHeldWhileUsed, PTL

\* Every variable of the programs holds values of its type, whichever runs.
THEOREM UtilitiesTyped == UtilitiesSpec => []UtilitiesTypeOK
<1>1. RP!UsbresetInv => R!UsbresetTypeOK
  BY DEF RP!UsbresetInv, RP!ShapeInv, RP!UsbresetTypeOK, R!UsbresetTypeOK,
         R!Ports, RP!Ports, R!Attributes, RP!Attributes, R!NoEntry, RP!NoEntry
<1>2. FP!DiscoveryInv => F!DiscoveryTypeOK
  <2>1. F!UINT8 = FP!UINT8 /\ F!UINT16 = FP!UINT16
    BY DEF F!UINT8, FP!UINT8, F!UINT16, FP!UINT16
  <2>2. F!Cardinality(Devices) = FP!Cardinality(Devices)
    BY DEF F!Cardinality, FP!Cardinality, F!IsFiniteSet, FP!IsFiniteSet
  <2>3. FP!DiscoveryTypeOK => F!DiscoveryTypeOK
    BY <2>1, <2>2, Zenon DEF FP!DiscoveryTypeOK, F!DiscoveryTypeOK
  <2>4. QED BY <2>3 DEF FP!DiscoveryInv
<1>3. LsusbInv /\ RP!UsbresetInv /\ FP!DiscoveryInv => UtilitiesTypeOK
  BY <1>1, <1>2, LsusbInvTyped DEF UtilitiesTypeOK
<1>4. QED
  BY <1>3, UtilitiesLsusb, UtilitiesUsbreset, UtilitiesDiscovery, PTL
=============================================================================
