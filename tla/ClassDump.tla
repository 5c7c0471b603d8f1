------------------------------ MODULE ClassDump -----------------------------
(***************************************************************************)
(* lsusb.c: what the dump of one class specific descriptor does with its   *)
(* bytes, table-driven or written by hand.                                 *)
(*                                                                         *)
(* Each dump is abstracted to                                              *)
(*   as      its name,                                                     *)
(*   end     "fields"   the descriptor's fields were shown,                *)
(*           "short"    a length check failed and a warning says so,       *)
(*           "illegal"  its class version does not know the descriptor,    *)
(*           "raw"      it is not recognised: its bytes were shown,        *)
(*           "hidden"   nothing of it was shown,                           *)
(*   reads   how many leading bytes its fields and checks reach into,      *)
(*   raw     the offset from which bytes were shown as junk or raw,        *)
(*           the descriptor's length if none was,                          *)
(*   desc    the table it was dumped by from byte `skip` on, if any.       *)
(* The checks and the accesses are taken from the code independently: that *)
(* the accesses stay within the checks is a property, not an assumption.   *)
(***************************************************************************)
EXTENDS DescDump, FiniteSetsExt


UINT8 == 0 .. 255
UINT16 == 0 .. 255 + 256 * 255

\* The byte and the little-endian word at an offset; 0 beyond the end.
Byte(buf, i) == IF i < Len(buf) THEN buf[i + 1] ELSE 0
Word(buf, i) == Byte(buf, i) + 256 * Byte(buf, i + 1)

Larger(a, b) == IF a >= b THEN a ELSE b

\* No call of dump_junk(): nothing is shown beyond the fields.
NoJunk == 256

\* What no descriptor has the bytes for.
TooMany == 256

Dumped(as, end, reads, raw) ==
  [as |-> as, end |-> end, reads |-> reads, raw |-> raw,
   desc |-> desc_undefined, skip |-> 0]

(* A dump that requires the lengths `needs`, one after the other, reaches  *)
(* `reads` bytes when they all hold and shows junk from `junk` on.  A check *)
(* that fails has looked at what the one before it required.               *)
Checked(buf, as, needs, reads, junk) ==
  LET failed == {i \in DOMAIN needs : Len(buf) < needs[i]}
  IN  IF failed = {}
      THEN Dumped(as, "fields", reads,
                  IF junk < Len(buf) THEN junk ELSE Len(buf))
      ELSE Dumped(as, "short",
                  IF Min(failed) = 1 THEN 2 ELSE needs[Min(failed) - 1],
                  Len(buf))

\* A descriptor of fixed length, its fields up to that length.
Fixed(buf, as, need) == Checked(buf, as, <<need>>, need, need)

Raw(buf, as, from) ==
  Dumped(as, "raw", 2, IF from < Len(buf) THEN from ELSE Len(buf))

Hidden(buf, as) == Dumped(as, "hidden", 2, Len(buf))

\* A dump by a table, of what follows the first `skip` bytes.
Tabled(as, desc, skip) ==
  [as |-> as, end |-> "table", reads |-> skip, raw |-> skip,
   desc |-> desc, skip |-> skip]

\* What the table makes of it: d is what desc_dump() does.
ByTable(dump, d) ==
  [dump EXCEPT !.end   = IF d.end = "insufficient" THEN "short" ELSE "fields",
               !.reads = @ + d.offset, !.raw = @ + d.offset]

Completed(buf, dump) ==
  IF dump.end # "table" THEN dump
  ELSE ByTable(dump, desc_dump(SubSeq(buf, dump.skip + 1, Len(buf)), dump.desc))

-----------------------------------------------------------------------------
(* Descriptor types and interface classes.                                 *)

OTG == 9
INTERFACE_ASSOCIATION == 11
SECURITY == 12
ENCRYPTION_TYPE == 14
CS_DEVICE == 33
REPORT == 34
CS_INTERFACE == 36
CS_ENDPOINT == 37
SS_ENDPOINT_COMP == 48

AUDIO == 1
COMM == 2
HID == 3
PRINTER == 7
HUB == 9
MASS_STORAGE == 8
DATA == 10
CCID == 11
VIDEO == 14
WIRELESS == 224
APPLICATION == 254

-----------------------------------------------------------------------------
(* Audio                                                                   *)

\* dump_audio_subtype(): the table of the protocol's version of the class.
dump_audio_subtype(buf, as, desc, protocol) ==
  LET version == CASE protocol = 32 -> 2 [] protocol = 48 -> 3 [] OTHER -> 1
  IN  IF desc[version] # NoTable THEN Tabled(as, desc[version], 3)
      ELSE Dumped(as, "illegal", 3, Len(buf))

\* UAC1 and UAC2 number the units differently from UAC3; numbers that are
\* not remapped stay what they are.
get_uac_interface_subtype(c, protocol) ==
  CASE protocol = 0  /\ c \in 4 .. 8  -> <<5, 6, 7, 9, 10>>[c - 3]
    [] protocol = 32 /\ c \in 4 .. 13 ->
         <<5, 6, 7, 8, 9, 10, 11, 12, 13, 14>>[c - 3]
    [] OTHER -> c

AudioControlDumps ==
  << <<"HEADER", desc_audio_ac_header>>,
     <<"INPUT_TERMINAL", desc_audio_ac_input_terminal>>,
     <<"OUTPUT_TERMINAL", desc_audio_ac_output_terminal>>,
     <<"EXTENDED_TERMINAL", <<>>>>,
     <<"MIXER_UNIT", desc_audio_ac_mixer_unit>>,
     <<"SELECTOR_UNIT", desc_audio_ac_selector_unit>>,
     <<"FEATURE_UNIT", desc_audio_ac_feature_unit>>,
     <<"EFFECT_UNIT", desc_audio_ac_effect_unit>>,
     <<"PROCESSING_UNIT", desc_audio_ac_processing_unit>>,
     <<"EXTENSION_UNIT", desc_audio_ac_extension_unit>>,
     <<"CLOCK_SOURCE", desc_audio_ac_clock_source>>,
     <<"CLOCK_SELECTOR", desc_audio_ac_clock_selector>>,
     <<"CLOCK_MULTIPLIER", desc_audio_ac_clock_multiplier>>,
     <<"SAMPLING_RATE_CONVERTER", desc_audio_ac_clock_multiplier>>,
     <<"CONNECTORS", <<>>>>,
     <<"POWER_DOMAIN", desc_audio_ac_power_domain>> >>

\* Extended terminals and connectors have no case of their own.
dump_audiocontrol_interface(buf, protocol) ==
  LET subtype == get_uac_interface_subtype(Byte(buf, 2), protocol)
  IN  IF Len(buf) < 3 THEN Fixed(buf, "AC", 3)
      ELSE IF subtype \in DOMAIN AudioControlDumps \ {4, 15}
      THEN dump_audio_subtype(buf, AudioControlDumps[subtype][1],
                              AudioControlDumps[subtype][2], protocol)
      ELSE Raw(buf, "AC", 3)

\* Three bytes per sampling frequency, or a range of two.
Frequencies(count, at) == IF count = 0 THEN at + 6 ELSE at + 3 * count

FormatType(buf, protocol) ==
  LET b(i)  == Byte(buf, i)
      typeI == Frequencies(b(7), 8)
  IN  CASE protocol = 0 /\ b(3) \in {1, 3} ->
             Checked(buf, "FORMAT_TYPE_I_III", <<4, 8, typeI>>, typeI, typeI)
        [] protocol = 0 /\ b(3) = 2 ->
             LET all == Frequencies(b(8), 9)
             IN  Checked(buf, "FORMAT_TYPE_II", <<4, 8, 9, all>>, all, all)
        [] protocol = 32 /\ b(3) \in {1, 3} ->
             Checked(buf, "FORMAT_TYPE_I_III", <<4, 6>>, 6, 6)
        [] protocol = 32 /\ b(3) = 2 ->
             Checked(buf, "FORMAT_TYPE_II", <<4, 8>>, 8, 8)
        [] protocol = 32 /\ b(3) = 4 -> Fixed(buf, "FORMAT_TYPE_IV", 4)
        [] OTHER ->
             IF Len(buf) < IF protocol = 0 THEN 8 ELSE 4
             THEN Fixed(buf, "FORMAT_TYPE", 8)
             ELSE IF protocol \in {0, 32} THEN Raw(buf, "FORMAT_TYPE", 4)
                                          ELSE Hidden(buf, "FORMAT_TYPE")

\* The junk of an AC-3 format starts before its last two bytes, and that of
\* an unknown format within its tag.
FormatSpecific(buf) ==
  LET tag == Word(buf, 3)
  IN  CASE tag = 4097 -> Checked(buf, "MPEG", <<5, 8>>, 8, 8)
        [] tag = 4098 -> Checked(buf, "AC-3", <<5, 10>>, 10, 8)
        [] OTHER      -> Checked(buf, "FORMAT_SPECIFIC", <<5>>, 5, 4)

dump_audiostreaming_interface(buf, protocol) ==
  CASE Len(buf) < 3     -> Fixed(buf, "AS", 3)
    [] Byte(buf, 2) = 1 -> dump_audio_subtype(buf, "AS_GENERAL",
                                        desc_audio_as_interface, protocol)
    [] Byte(buf, 2) = 2 -> FormatType(buf, protocol)
    [] Byte(buf, 2) = 3 -> FormatSpecific(buf)
    [] OTHER            -> Raw(buf, "AS", 3)

dump_audiostreaming_endpoint(buf, protocol) ==
  IF Len(buf) < 3 THEN Fixed(buf, "AS_EP", 3)
  ELSE dump_audio_subtype(buf, "EP_GENERAL",
                          desc_audio_as_isochronous_audio_data_endpoint,
                          protocol)

dump_midistreaming_interface(buf) ==
  CASE Len(buf) < 3     -> Fixed(buf, "MS", 3)
    [] Byte(buf, 2) = 1 -> Tabled("MS_HEADER", desc_midi_ms_header, 3)
    [] Byte(buf, 2) = 2 -> Tabled("MIDI_IN_JACK", desc_midi_ms_in_jack, 3)
    [] Byte(buf, 2) = 3 -> Tabled("MIDI_OUT_JACK",
                                  desc_midi_ms_out_jack, 3)
    [] Byte(buf, 2) = 4 -> Tabled("ELEMENT", desc_midi_ms_element, 3)
    [] OTHER            -> Raw(buf, "MS", 3)

dump_midistreaming_endpoint(buf) ==
  IF Len(buf) < 3 THEN Fixed(buf, "MS_EP", 3)
  ELSE Tabled("MS_EP", desc_midi_ms_endpoint_general, 3)

-----------------------------------------------------------------------------
(* Video                                                                   *)

\* The terminal type of a camera: its input terminal describes the lens.
ITT_CAMERA == 513

dump_videocontrol_interface(buf) ==
  LET b(i) == Byte(buf, i)
      camera == IF Word(buf, 4) = ITT_CAMERA THEN 7 ELSE 0
      lens   == IF camera = 0 THEN 8 ELSE 15 + b(14)
      n == b(7)   \* bControlSize of a processing unit
      p == b(21)  \* bNrInPins of an extension unit
      m == b(22 + p)
  IN  CASE Len(buf) < 3 -> Fixed(buf, "VC", 3)
        [] b(2) = 1 -> Checked(buf, "VC_HEADER", <<12, 12 + b(11)>>,
                               12 + b(11), 12 + b(11))
        [] b(2) = 2 -> Checked(buf, "VC_INPUT_TERMINAL",
                               <<8, 8 + camera, lens>>, lens, lens)
        [] b(2) = 3 -> Fixed(buf, "VC_OUTPUT_TERMINAL", 9)
        [] b(2) = 4 -> Checked(buf, "VC_SELECTOR_UNIT", <<5, 6 + b(4)>>,
                               6 + b(4), 6 + b(4))
        [] b(2) = 5 -> Checked(buf, "VC_PROCESSING_UNIT", <<8, 10 + n>>,
                               10 + n, NoJunk)
        [] b(2) = 6 -> Checked(buf, "VC_EXTENSION_UNIT",
                               <<22, 23 + p, 24 + p + m>>,
                               24 + p + m, 24 + p + m)
        [] b(2) = 7 -> Checked(buf, "VC_ENCODING_UNIT", <<13>>, 13, NoJunk)
        [] OTHER    -> Raw(buf, "VC", 3)

dump_videocontrol_interrupt_endpoint(buf) == Fixed(buf, "VC_EP", 5)

\* A header lists n bytes of controls for each of p formats and shows the
\* first of them.
FormatList(buf, as, at) ==
  LET p    == Byte(buf, 3)
      n    == Byte(buf, at - 1)
      last == IF p = 0 THEN at ELSE at + (p - 1) * n + 1
  IN  Checked(buf, as, <<at, at + p * n>>, last, at + p * n)

\* A frame lists its n intervals, or the bounds and the step if n is 0.
FrameIntervals(buf, as, at) ==
  LET n   == Byte(buf, at)
      all == IF n = 0 THEN 38 ELSE 26 + 4 * n
  IN  Checked(buf, as, <<at + 1, all>>, all, all)

dump_videostreaming_interface(buf) ==
  LET b(i) == Byte(buf, i)
      sizes == 6 + 4 * b(4)            \* up to the number of compressions
      all   == sizes + b(sizes - 1)
      mpeg  == IF Len(buf) < 23 THEN 7 ELSE 23
  IN  IF Len(buf) < 3 THEN Fixed(buf, "VS", 3)
      ELSE
      CASE b(2) = 1  -> FormatList(buf, "INPUT_HEADER", 13)
        [] b(2) = 2  -> FormatList(buf, "OUTPUT_HEADER", 9)
        [] b(2) = 3  -> Checked(buf, "STILL_IMAGE_FRAME", <<5, sizes, all>>,
                                all, all)
        [] b(2) = 4  -> Fixed(buf, "FORMAT_UNCOMPRESSED", 27)
        [] b(2) = 16 -> Fixed(buf, "FORMAT_FRAME_BASED", 28)
        [] b(2) = 5  -> FrameIntervals(buf, "FRAME_UNCOMPRESSED", 25)
        [] b(2) = 7  -> FrameIntervals(buf, "FRAME_MJPEG", 25)
        [] b(2) = 17 -> FrameIntervals(buf, "FRAME_FRAME_BASED", 21)
        [] b(2) = 6  -> Fixed(buf, "FORMAT_MJPEG", 11)
        [] b(2) = 10 -> Fixed(buf, "FORMAT_MPEG2TS", mpeg)
        [] b(2) = 13 -> Fixed(buf, "COLORFORMAT", 6)
        [] b(2) = 18 -> Checked(buf, "FORMAT_STREAM_BASED", <<24>>, 21, 24)
        [] OTHER     -> Raw(buf, "VS", 3)

-----------------------------------------------------------------------------
(* The other classes                                                       *)

\* The version of DFU 1.1 is shown if the descriptor is long enough for it.
dump_dfu_interface(buf) ==
  Checked(buf, "DFU", <<7>>, IF Len(buf) < 9 THEN 7 ELSE 9, NoJunk)

dump_ccid_device(buf) == Fixed(buf, "CCID", 54)

\* The capabilities of an IPP printer: a type, a length, as many bytes.  A
\* basic one needs six bytes and ends the dump if it has not got them.
PrinterItems(buf) ==
  LET b(i) == Byte(buf, i)
      end[k \in 0 .. b(3)] ==
        IF k = 0 THEN [at |-> 4, reads |-> 4, bad |-> FALSE]
        ELSE LET e == end[k - 1]
                 next == e.at + 2 + b(e.at + 1)
                 uses == e.at + IF b(e.at) = 0 THEN 6 ELSE 2
             IN  IF e.bad \/ e.at + 2 > Len(buf) \/ next > Len(buf)
                          \/ uses > Len(buf)
                 THEN [e EXCEPT !.bad = TRUE]
                 ELSE [at |-> next, reads |-> Larger(e.reads, uses),
                       bad |-> FALSE]
  IN  end[b(3)]

dump_printer_device(buf, protocol) ==
  LET items == PrinterItems(buf)
  IN  IF protocol # 4 THEN Hidden(buf, "PRINTER")
      ELSE [Checked(buf, "IPP", <<4>>, items.reads, NoJunk) EXCEPT
              !.end = IF items.bad THEN "short" ELSE @]

\* The header of a HID descriptor: three bytes per subordinate descriptor,
\* of which those are shown that fit.
dump_hid_header(buf) ==
  LET n   == Byte(buf, 5)
      fit == {i \in 0 .. n - 1 : 9 + 3 * i <= Len(buf)}
  IN  [Checked(buf, "HID", <<6>>, 6 + 3 * Cardinality(fit), 6 + 3 * n) EXCEPT
         !.end = IF Len(buf) < 6 + 3 * n THEN "short" ELSE @]

\* CDC functional descriptors: most have one length, the others a least one.
CdcLengths ==
  {<<0, 5>>, <<1, 5>>, <<2, 4>>, <<8, 4>>, <<10, 7>>, <<15, 13>>, <<17, 5>>,
   <<18, 21>>, <<20, 7>>, <<21, 5>>, <<22, 22>>, <<26, 6>>, <<27, 12>>,
   <<28, 8>>}

dump_comm_descriptor(buf) ==
  LET subtype == Byte(buf, 2)
      exact   == {entry[2] : entry \in {e \in CdcLengths : e[1] = subtype}}
      valid   == CASE subtype = 6  -> Len(buf) >= 5
                   [] subtype = 7  -> Len(buf) >= 6 /\ Len(buf) % 2 = 0
                   [] subtype = 19 -> Len(buf) >= 5
                   [] OTHER        -> Len(buf) \in exact
  IN  IF Len(buf) < 3 THEN Fixed(buf, "CDC", 3)
      ELSE IF exact = {} /\ subtype \notin {6, 7, 19} THEN Raw(buf, "CDC", 0)
      ELSE IF valid THEN Dumped("CDC", "fields", Len(buf), Len(buf))
      ELSE [Raw(buf, "CDC", 0) EXCEPT !.end = "short"]

dump_pipe_desc(buf) ==
  IF Len(buf) = 4 /\ Byte(buf, 1) = CS_INTERFACE
  THEN Checked(buf, "PIPE", <<4>>, 3, NoJunk)
  ELSE Raw(buf, "PIPE", 0)

dump_association(buf) == Checked(buf, "ASSOCIATION", <<8>>, 8, NoJunk)
dump_security(buf) == Checked(buf, "SECURITY", <<5>>, 5, NoJunk)
dump_encryption_type(buf) == Checked(buf, "ENCRYPTION_TYPE", <<5>>, 5, NoJunk)
dump_wire_adapter(buf) == Checked(buf, "WIRE_ADAPTER", <<14>>, 14, NoJunk)
dump_rc_interface(buf) == Checked(buf, "RC", <<4>>, 4, NoJunk)

Unrecognized(buf) == Raw(buf, "UNRECOGNIZED", 0)

-----------------------------------------------------------------------------
(* Which dump a descriptor of a walk gets, by its type and, in the extra   *)
(* bytes of an interface or an endpoint, by the interface's class.         *)

\* dump_config()
ConfigExtra(buf) ==
  LET type == Byte(buf, 1)
  IN  CASE type = OTG                   -> Hidden(buf, "OTG")
        [] type = INTERFACE_ASSOCIATION -> dump_association(buf)
        [] type = SECURITY              -> dump_security(buf)
        [] type = ENCRYPTION_TYPE       -> dump_encryption_type(buf)
        [] OTHER                        -> Unrecognized(buf)

\* dump_altsetting(), explicitly tagged class descriptors
TaggedExtra(buf, alt) ==
  CASE alt.class = AUDIO /\ alt.subclass = 1 ->
         dump_audiocontrol_interface(buf, alt.protocol)
    [] alt.class = AUDIO /\ alt.subclass = 2 ->
         dump_audiostreaming_interface(buf, alt.protocol)
    [] alt.class = AUDIO /\ alt.subclass = 3 ->
         dump_midistreaming_interface(buf)
    [] alt.class = COMM -> dump_comm_descriptor(buf)
    [] alt.class = VIDEO /\ alt.subclass = 1 ->
         dump_videocontrol_interface(buf)
    [] alt.class = VIDEO /\ alt.subclass = 2 ->
         dump_videostreaming_interface(buf)
    [] alt.class = APPLICATION /\ alt.subclass = 1 -> dump_dfu_interface(buf)
    [] alt.class = HID     -> dump_hid_header(buf)
    [] alt.class = PRINTER -> dump_printer_device(buf, alt.protocol)
    [] alt.class = CCID    -> dump_ccid_device(buf)
    [] OTHER               -> Unrecognized(buf)

\* dump_altsetting(), types each class may define for itself
UntaggedExtra(buf, alt) ==
  LET type == Byte(buf, 1)
      other == alt.class \notin {HID, CCID, WIRELESS, AUDIO}
  IN  CASE alt.class = HID  -> dump_hid_header(buf)
        [] alt.class = CCID -> dump_ccid_device(buf)
        [] alt.class = WIRELESS /\ alt.subclass = 1 /\ alt.protocol = 2 ->
             dump_rc_interface(buf)
        [] alt.class = WIRELESS /\ alt.subclass = 2 -> dump_wire_adapter(buf)
        [] alt.class = AUDIO /\ alt.subclass = 2 /\ type = CS_ENDPOINT ->
             dump_audiostreaming_endpoint(buf, alt.protocol)
        [] other /\ type = OTG -> Hidden(buf, "OTG")
        [] other /\ type = INTERFACE_ASSOCIATION -> dump_association(buf)
        [] OTHER -> Unrecognized(buf)

InterfaceExtra(buf, alt) ==
  IF Byte(buf, 1) \in {CS_DEVICE, CS_INTERFACE} THEN TaggedExtra(buf, alt)
                                                ELSE UntaggedExtra(buf, alt)

\* The burst size of every endpoint, the interval of the periodic ones.
EndpointCompanion(buf, attributes) ==
  Checked(buf, "SS_ENDPOINT_COMP", <<6>>,
          CASE attributes % 4 = 0 -> 3
            [] attributes % 4 = 2 -> 4
            [] OTHER              -> 6,
          NoJunk)

\* dump_endpoint()
EndpointExtra(buf, alt, attributes) ==
  LET type == Byte(buf, 1)
  IN  CASE type = CS_ENDPOINT /\ alt.class = AUDIO /\ alt.subclass = 2 ->
             dump_audiostreaming_endpoint(buf, alt.protocol)
        [] type = CS_ENDPOINT /\ alt.class = AUDIO /\ alt.subclass = 3 ->
             dump_midistreaming_endpoint(buf)
        [] type = CS_ENDPOINT /\ alt.class = VIDEO /\ alt.subclass = 1 ->
             dump_videocontrol_interrupt_endpoint(buf)
        [] type = CS_INTERFACE /\ alt.class \in {COMM, DATA} ->
             dump_comm_descriptor(buf)
        [] type = CS_INTERFACE /\ alt.class = MASS_STORAGE ->
             dump_pipe_desc(buf)
        [] type = CS_DEVICE /\ alt.class = CCID -> dump_ccid_device(buf)
        [] type = OTG                   -> Hidden(buf, "OTG")
        [] type = INTERFACE_ASSOCIATION -> dump_association(buf)
        [] type = SS_ENDPOINT_COMP      -> EndpointCompanion(buf, attributes)
        [] OTHER -> IF type = CS_ENDPOINT THEN Hidden(buf, "CS_ENDPOINT")
                                          ELSE Unrecognized(buf)

\* A capability that must have exactly eight bytes.
EightBytes(buf, as) ==
  IF Len(buf) = 8 THEN Fixed(buf, as, 8) ELSE [Fixed(buf, as, TooMany) EXCEPT
                                                  !.reads = 1]

WIRELESS_USB == 1
SUPERSPEEDPLUS == 10
MaxAlternateModes == 52

\* dump_bos_descriptor()
DeviceCapability(buf) ==
  LET type  == Byte(buf, 2)
      speeds == 12 + 4 * ((Byte(buf, 4) % 32) + 1)
      modes  == 44 + 4 * Byte(buf, 4)
  IN  CASE type = WIRELESS_USB   -> Hidden(buf, "WIRELESS_USB")
        [] type = 2  -> Checked(buf, "USB2_EXTENSION", <<7>>, 7, NoJunk)
        [] type = 3  -> Checked(buf, "SUPERSPEED", <<10>>, 10, NoJunk)
        [] type = SUPERSPEEDPLUS ->
             Checked(buf, "SUPERSPEEDPLUS", <<12, speeds>>, speeds, NoJunk)
        [] type = 4  -> Checked(buf, "CONTAINER_ID", <<20>>, 20, NoJunk)
        [] type = 5  -> Checked(buf, "PLATFORM", <<20>>, Len(buf), NoJunk)
        [] type = 13 -> IF Len(buf) >= 48 /\ Byte(buf, 4) > MaxAlternateModes
                        THEN Checked(buf, "BILLBOARD", <<48, TooMany>>, 0, NoJunk)
                        ELSE Checked(buf, "BILLBOARD", <<48, modes>>,
                                     modes, NoJunk)
        [] type = 15 -> EightBytes(buf, "BILLBOARD_ALT_MODE")
        [] type = 16 -> Tabled("CONFIGURATION_SUMMARY",
                               desc_usb3_dc_configuration_summary, 0)
        [] type = 17 -> EightBytes(buf, "FWSTATUS")
        [] OTHER     -> Unrecognized(buf)

-----------------------------------------------------------------------------
\* Every table a descriptor is dumped by is one the dump can rely on.
ASSUME TablesAssumption ==
  /\ \A i \in DOMAIN AudioControlDumps \ {4, 15} : \A v \in 1 .. 3 :
       SoundTables(AudioControlDumps[i][2][v])
  /\ \A v \in 1 .. 3 :
       /\ SoundTables(desc_audio_as_interface[v])
       /\ SoundTables(desc_audio_as_isochronous_audio_data_endpoint[v])
  /\ \A desc \in {desc_midi_ms_header, desc_midi_ms_in_jack,
                  desc_midi_ms_out_jack, desc_midi_ms_element,
                  desc_midi_ms_endpoint_general,
                  desc_usb3_dc_configuration_summary} : SoundTables(desc)
=============================================================================
