----------------------------- MODULE DescTables -----------------------------
(***************************************************************************)
(* The descriptor definitions of desc-defs.c: for every audio control,     *)
(* audio streaming, MIDI streaming and configuration summary descriptor,   *)
(* the fields that follow its header, in the order of the wire.            *)
(*                                                                         *)
(* Kept of a field is what decides where it lies and how long it is: its   *)
(* name, its size in bytes or the field that holds its size, the fields    *)
(* that hold the number of its entries, and the table an extension goes on *)
(* with.  How a value is rendered (numbers, bitmaps, names of bits) is     *)
(* left out.                                                               *)
(***************************************************************************)
EXTENDS Naturals, Sequences

\* No other field is referred to.
None == "NULL"

\* One field of a table (struct desc): size bytes, one entry.
Field(name, size) ==
  [field |-> name, size |-> size, size_field |-> None, array |-> FALSE,
   bits |-> FALSE, length_field1 |-> None, length_field2 |-> None,
   type_field |-> None, extension |-> <<>>]

\* As many entries of size bytes as the field count says.
Counted(name, size, count) ==
  [Field(name, size) EXCEPT !.array = TRUE, !.length_field1 = count]

\* A matrix of bits of count1 rows and count2 columns, in bytes.
BitMatrix(name, count1, count2) ==
  [Counted(name, 1, count1) EXCEPT !.bits = TRUE, !.length_field2 = count2]

\* As many entries as fit between the other fields and the descriptor's end.
Inferred(name, size) == [Field(name, size) EXCEPT !.array = TRUE]

\* One entry, as long as the field sizeField says.
SizedBy(f, sizeField) == [f EXCEPT !.size = 0, !.size_field = sizeField]

\* The rest of the descriptor, laid out as extension[value of typeField] says.
Extension(typeField, extension) ==
  [Field("Process-specific", 1) EXCEPT !.type_field = typeField,
                                       !.extension = extension]

ByPins(name, size) == Counted(name, size, "bNrInPins")

desc_undefined == <<>>

-----------------------------------------------------------------------------
(* Audio control.  A table is indexed by the version of the audio class, 1 *)
(* to 3; a version that does not know the descriptor has no table.         *)

NoTable == desc_undefined

desc_audio_ac_header ==
  << <<Field("bcdADC", 2), Field("wTotalLength", 2),
       Field("bInCollection", 1), Inferred("baInterfaceNr", 1)>>,
     <<Field("bcdADC", 2), Field("bCategory", 1), Field("wTotalLength", 2),
       Field("bmControls", 1)>>,
     <<Field("bCategory", 1), Field("wTotalLength", 2),
       Field("bmControls", 4)>> >>

desc_audio_ac_effect_unit ==
  LET head == <<Field("bUnitID", 1), Field("wEffectType", 2),
                Field("bSourceID", 1), Inferred("bmaControls", 4)>>
  IN  <<NoTable, head \o <<Field("iEffects", 1)>>,
        head \o <<Field("wEffectsDescrStr", 2)>> >>

desc_audio_ac_input_terminal ==
  << <<Field("bTerminalID", 1), Field("wTerminalType", 2),
       Field("bAssocTerminal", 1), Field("bNrChannels", 1),
       Field("wChannelConfig", 2), Field("iChannelNames", 1),
       Field("iTerminal", 1)>>,
     <<Field("bTerminalID", 1), Field("wTerminalType", 2),
       Field("bAssocTerminal", 1), Field("bCSourceID", 1),
       Field("bNrChannels", 1), Field("bmChannelConfig", 4),
       Field("iChannelNames", 1), Field("bmControls", 2),
       Field("iTerminal", 1)>>,
     <<Field("bTerminalID", 1), Field("wTerminalType", 2),
       Field("bAssocTerminal", 1), Field("bCSourceID", 1),
       Field("bmControls", 4), Field("wClusterDescrID", 2),
       Field("wExTerminalDescrID", 2), Field("wConnectorsDescrID", 2),
       Field("wTerminalDescrStr", 2)>> >>

desc_audio_ac_output_terminal ==
  LET head == <<Field("bTerminalID", 1), Field("wTerminalType", 2),
                Field("bAssocTerminal", 1), Field("bSourceID", 1)>>
  IN  << head \o <<Field("iTerminal", 1)>>,
         head \o <<Field("bCSourceID", 1), Field("bmControls", 2),
                   Field("iTerminal", 1)>>,
         head \o <<Field("bCSourceID", 1), Field("bmControls", 4),
                   Field("wExTerminalDescrID", 2),
                   Field("wConnectorsDescrID", 2),
                   Field("wTerminalDescrStr", 2)>> >>

desc_audio_ac_extended_terminal ==
  <<NoTable, NoTable, <<Field("wDescriptorID", 2), Field("bNrChannels", 1)>> >>

desc_audio_ac_power_domain ==
  <<NoTable, NoTable,
    <<Field("bPowerDomainID", 1), Field("waRecoveryTime(1)", 2),
      Field("waRecoveryTime(2)", 2), Field("bNrEntities", 1),
      Counted("baEntityID", 1, "bNrEntities"),
      Field("wPDomainDescrStr", 2)>> >>

desc_audio_ac_mixer_unit ==
  LET head == <<Field("bUnitID", 1), Field("bNrInPins", 1),
                ByPins("baSourceID", 1)>>
  IN  << head \o <<Field("bNrChannels", 1), Field("wChannelConfig", 2),
                   Field("iChannelNames", 1),
                   BitMatrix("bmControls", "bNrInPins", "bNrChannels"),
                   Field("iMixer", 1)>>,
         head \o <<Field("bNrChannels", 1), Field("bmChannelConfig", 4),
                   Field("iChannelNames", 1),
                   BitMatrix("bmMixerControls", "bNrInPins", "bNrChannels"),
                   Field("bmControls", 1), Field("iMixer", 1)>>,
         head \o <<Field("wClusterDescrID", 2), Inferred("bmMixerControls", 1),
                   Field("bmControls", 4), Field("wMixerDescrStr", 2)>> >>

desc_audio_ac_selector_unit ==
  LET head == <<Field("bUnitID", 1), Field("bNrInPins", 1),
                ByPins("baSourceID", 1)>>
  IN  << head \o <<Field("iSelector", 1)>>,
         head \o <<Field("bmControls", 1), Field("iSelector", 1)>>,
         head \o <<Field("bmControls", 4), Field("wSelectorDescrStr", 2)>> >>

\* The process-specific ends of a processing unit, by its wProcessType.
ProcUnitSpecific ==
  LET modes(name, size) ==
        <<Field("bNrModes", 1), Counted(name, size, "bNrModes")>>
  IN  << <<modes("waModes", 2), modes("waModes", 2)>>,
         <<modes("daModes", 4), modes("daModes", 4)>>,
         << <<Field("bmControls", 4)>> \o modes("waClusterDescrID", 2),
            <<Field("bmControls", 4)>>,
            <<Field("bmControls", 4), Field("wClusterDescrID", 2),
              Field("bmAlgorithms", 4)>> >> >>

desc_audio_ac_processing_unit ==
  LET head == <<Field("bUnitID", 1), Field("wProcessType", 2),
                Field("bNrInPins", 1), ByPins("baSourceID", 1)>>
      rest(version) == Extension("wProcessType", ProcUnitSpecific[version])
  IN  << head \o <<Field("bNrChannels", 1), Field("wChannelConfig", 2),
                   Field("iChannelNames", 1), Field("bControlSize", 1),
                   Counted("bmControls", 1, "bControlSize"),
                   Field("iProcessing", 1), rest(1)>>,
         head \o <<Field("bNrChannels", 1), Field("bmChannelConfig", 4),
                   Field("iChannelNames", 1), Field("bmControls", 2),
                   Field("iProcessing", 1), rest(2)>>,
         head \o <<Field("wProcessingDescrStr", 2), rest(3)>> >>

desc_audio_ac_feature_unit ==
  LET head == <<Field("bUnitID", 1), Field("bSourceID", 1)>>
  IN  << head \o <<Field("bControlSize", 1),
                   SizedBy(Inferred("bmaControls", 1), "bControlSize"),
                   Field("iFeature", 1)>>,
         head \o <<Inferred("bmaControls", 4), Field("iFeature", 1)>>,
         head \o <<Inferred("bmaControls", 4),
                   Field("wFeatureDescrStr", 2)>> >>

desc_audio_ac_extension_unit ==
  LET head == <<Field("bUnitID", 1), Field("wExtensionCode", 2),
                Field("bNrInPins", 1), ByPins("baSourceID", 1)>>
  IN  << head \o <<Field("bNrChannels", 1), Field("wChannelConfig", 2),
                   Field("iChannelNames", 1), Field("bControlSize", 1),
                   Counted("bmControls", 1, "bControlSize"),
                   Field("iExtension", 1)>>,
         head \o <<Field("bNrChannels", 1), Field("bmChannelConfig", 4),
                   Field("iChannelNames", 1), Field("bmControls", 1),
                   Field("iExtension", 1)>>,
         head \o <<Field("wExtensionDescrStr", 2), Field("bmControls", 4),
                   Field("wClusterDescrID", 2)>> >>

desc_audio_ac_clock_source ==
  <<NoTable,
    <<Field("bClockID", 1), Field("bmAttributes", 1), Field("bmControls", 1),
      Field("bAssocTerminal", 1), Field("iClockSource", 1)>>,
    <<Field("bClockID", 1), Field("bmAttributes", 1), Field("bmControls", 4),
      Field("bReferenceTerminal", 1), Field("wClockSourceStr", 2)>> >>

desc_audio_ac_clock_selector ==
  LET head == <<Field("bClockID", 1), Field("bNrInPins", 1),
                ByPins("baCSourceID", 1)>>
  IN  <<NoTable,
        head \o <<Field("bmControls", 1), Field("iClockSelector", 1)>>,
        head \o <<Field("bmControls", 4), Field("wCSelectorDescrStr", 2)>>>>

desc_audio_ac_clock_multiplier ==
  LET head == <<Field("bClockID", 1), Field("bCSourceID", 1)>>
  IN  <<NoTable,
        head \o <<Field("bmControls", 1), Field("iClockMultiplier", 1)>>,
        head \o <<Field("bmControls", 4), Field("wCMultiplierDescrStr", 2)>>>>

desc_audio_ac_sample_rate_converter ==
  LET head == <<Field("bUnitID", 1), Field("bSourceID", 1),
                Field("bCSourceInID", 1), Field("bCSourceOutID", 1)>>
  IN  <<NoTable, head \o <<Field("iSRC", 1)>>,
        head \o <<Field("wSRCDescrStr", 2)>>>>

-----------------------------------------------------------------------------
(* Audio streaming, MIDI streaming, device capability.                     *)

desc_audio_as_interface ==
  << <<Field("bTerminalLink", 1), Field("bDelay", 1), Field("wFormatTag", 2)>>,
     <<Field("bTerminalLink", 1), Field("bmControls", 1),
       Field("bFormatType", 1), Field("bmFormats", 4), Field("bNrChannels", 1),
       Field("bmChannelConfig", 4), Field("iChannelNames", 1)>>,
     <<Field("bTerminalLink", 1), Field("bmControls", 4),
       Field("wClusterDescrID", 2), Field("bmFormats", 8),
       Field("bSubslotSize", 1), Field("bBitResolution", 1),
       Field("bmAuxProtocols", 2), Field("bControlSize", 1)>> >>

desc_audio_as_isochronous_audio_data_endpoint ==
  LET lock == <<Field("bLockDelayUnits", 1), Field("wLockDelay", 2)>>
  IN  << <<Field("bmAttributes", 1)>> \o lock,
         <<Field("bmAttributes", 1), Field("bmControls", 1)>> \o lock,
         <<Field("bmControls", 4)>> \o lock >>

desc_midi_ms_header == <<Field("bcdMSC", 2), Field("wTotalLength", 2)>>

desc_midi_ms_in_jack ==
  <<Field("bJackType", 1), Field("bJackID", 1), Field("iJack", 1)>>

desc_midi_ms_out_jack ==
  <<Field("bJackType", 1), Field("bJackID", 1), Field("bNrInputPins", 1),
    Counted("baSource", 2, "bNrInputPins"), Field("iJack", 1)>>

desc_midi_ms_element ==
  <<Field("bElementID", 1), Field("bNrInputPins", 1),
    Counted("baSource", 2, "bNrInputPins"), Field("bNrOutputPins", 1),
    Field("bInTerminalLink", 1), Field("bOutTerminalLink", 1),
    Field("bElCapsSize", 1),
    SizedBy(Field("bmElementCaps", 1), "bElCapsSize"), Field("iElement", 1)>>

desc_midi_ms_endpoint_general ==
  <<Field("bNumEmbMIDIJack", 1),
    Counted("baAssocJackID", 1, "bNumEmbMIDIJack")>>

desc_usb3_dc_configuration_summary ==
  <<Field("bLength", 1), Field("bDescriptorType", 1),
    Field("bDevCapabilityType", 1), Field("bcdVersion", 2),
    Field("bClass", 1), Field("bSubClass", 1), Field("bProtocol", 1),
    Field("bConfigurationCount", 1),
    Counted("bConfigurationIndex", 1, "bConfigurationCount")>>
=============================================================================
