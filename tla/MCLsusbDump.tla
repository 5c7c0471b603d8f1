----------------------------- MODULE MCLsusbDump ----------------------------
\* Instances of LsusbDump for TLC: descriptors of every table and of every
\* class, well-formed and not, and devices that have them.
EXTENDS LsusbDump



Few == 0 .. 2

\* The bytes of a table's fields: what other fields refer to as env says, the
\* inferred array of n entries, all else filled with 2s.
Controls(desc) == UNION {Referred(desc[i]) : i \in DOMAIN desc}

FieldBytes(desc, f, env, n) ==
  LET name    == f.field
      size    == IF f.size_field = None THEN f.size ELSE env[f.size_field]
      entries == IF ~ f.array THEN 1
                 ELSE IF f.length_field1 = None THEN n
                 ELSE IF f.bits
                 THEN (env[f.length_field1] * env[f.length_field2] + 7) \div 8
                 ELSE env[f.length_field1]
  IN  IF name \in Controls(desc)
      THEN [i \in 1 .. size |-> IF i = 1 THEN env[name] ELSE 0]
      ELSE [i \in 1 .. size * entries |-> 2]

PlainBytes(desc) ==
  {FoldLeft(LAMBDA bytes, f : bytes \o FieldBytes(desc, f, env, n), <<>>, desc) :
     env \in [Controls(desc) -> Few], n \in Few}

\* With an extension: of the types it has, and of one it has not.
TableBytes(desc) ==
  IF desc = <<>> \/ desc[Len(desc)].type_field = None THEN PlainBytes(desc)
  ELSE LET plain == SubSeq(desc, 1, Len(desc) - 1)
           ext   == desc[Len(desc)]
           at    == Place(desc, ext.type_field)
           start == 1 + IF at = 2 THEN 1 ELSE 0
           typed(bytes, type) == [bytes EXCEPT ![start] = type, ![start + 1] = 0]
       IN  {typed(head, type) \o rest :
              head \in PlainBytes(plain), type \in DOMAIN ext.extension \cup {9},
              rest \in UNION {PlainBytes(ext.extension[t]) :
                                t \in DOMAIN ext.extension}}

\* As it should be, a byte short, and with a byte too many.
Lengths(bytes) ==
  {bytes, Append(bytes, 1)} \cup
    IF bytes = <<>> THEN {} ELSE {SubSeq(bytes, 1, Len(bytes) - 1)}

Described(header, desc) ==
  {<<1 + Len(header) + Len(bytes)>> \o header \o bytes :
     bytes \in UNION {Lengths(b) : b \in TableBytes(desc)}}

Walk(of, class, subclass, protocol, extra) ==
  [of |-> of, alt |-> [class |-> class, subclass |-> subclass,
                       protocol |-> protocol],
   attributes |-> 1, extra |-> extra]

Protocols == <<0, 32, 48>>

\* The codes of an audio control descriptor before it is remapped.
Codes(version, subtype) ==
  {c \in 1 .. 16 : get_uac_interface_subtype(c, Protocols[version]) = subtype}

AudioControl(version, subtype) ==
  LET dump == AudioControlDumps[subtype][2]
  IN  IF version \notin DOMAIN dump THEN {}
      ELSE {Walk("interface", AUDIO, 1, Protocols[version], b) : b \in
              UNION {Described(<<CS_INTERFACE, c>>, dump[version]) :
                       c \in Codes(version, subtype)}}

AudioTables(version) == UNION {AudioControl(version, s) : s \in 1 .. 16}

StreamTables ==
  UNION {
    {Walk("interface", AUDIO, 2, Protocols[v], b) : b \in
       Described(<<CS_INTERFACE, 1>>, desc_audio_as_interface[v])}
    \cup
    {Walk("endpoint", AUDIO, 2, Protocols[v], b) : b \in
       Described(<<CS_ENDPOINT, 1>>,
                 desc_audio_as_isochronous_audio_data_endpoint[v])} :
    v \in 1 .. 3}

MidiTables ==
  {Walk("interface", AUDIO, 3, 0, b) : b \in
     Described(<<CS_INTERFACE, 1>>, desc_midi_ms_header)
     \cup Described(<<CS_INTERFACE, 2>>, desc_midi_ms_in_jack)
     \cup Described(<<CS_INTERFACE, 3>>, desc_midi_ms_out_jack)
     \cup Described(<<CS_INTERFACE, 4>>, desc_midi_ms_element)}
  \cup
  {Walk("endpoint", AUDIO, 3, 0, b) : b \in
     Described(<<CS_ENDPOINT, 1>>, desc_midi_ms_endpoint_general)}

\* Descriptors dumped by hand: every length, every byte after the header the
\* same, which makes all counts and sizes agree with each other.
Plenty == (2 .. 29) \cup {38, 42, 46, 54}

Filled(type, subtypes) ==
  {[i \in 1 .. n |-> CASE i = 1 -> n [] i = 2 -> type [] i = 3 -> s [] OTHER -> v] :
     n \in Plenty, s \in subtypes, v \in {0, 1, 2}}

Extras(of, class, subclass, protocol, buffers) ==
  {Walk(of, class, subclass, protocol, b) : b \in buffers}

\* Values a filled descriptor does not have: a camera terminal, the MPEG and
\* AC-3 formats, items of an IPP printer.
Special ==
  Extras("interface", VIDEO, 1, 0,
         {[i \in 1 .. n |-> IF i \in 2 .. 6 THEN <<36, 2, 1, 1, 2>>[i - 1]
                            ELSE IF i = 1 THEN n ELSE 1] : n \in 7 .. 17})
  \cup Extras("interface", AUDIO, 2, 0,
              {<<n, 36, 3, tag, 16, 0, 0, 0, 0, 0>> : n \in 8 .. 10, tag \in 0 .. 2})
  \cup Extras("interface", PRINTER, 1, 4,
              {SubSeq(<<n, 33, 0, 2, 0, 4, 0, 0, 0, 0, 1, 1, 0>>, 1, n) :
                 n \in 4 .. 13})

VideoControl ==
  Extras("interface", VIDEO, 1, 0, Filled(CS_INTERFACE, 1 .. 8))
  \cup Extras("endpoint", VIDEO, 1, 0, Filled(CS_ENDPOINT, {3}))

VideoStreaming(subtypes) ==
  Extras("interface", VIDEO, 2, 0, Filled(CS_INTERFACE, subtypes))

AudioByHand ==
  Extras("interface", AUDIO, 1, 48, Filled(CS_INTERFACE, {4, 15}))
  \cup Extras("interface", AUDIO, 2, 0, Filled(CS_INTERFACE, {2, 3, 9}))
  \cup Extras("interface", AUDIO, 2, 32, Filled(CS_INTERFACE, {2}))
  \cup Extras("interface", AUDIO, 2, 48, Filled(CS_INTERFACE, {2}))

CommByHand ==
  Extras("interface", COMM, 2, 1,
         Filled(CS_INTERFACE, {0, 2, 6, 7, 10, 15, 18, 19, 22, 27, 28, 99}))

OtherClasses ==
  Special
  \cup Extras("interface", APPLICATION, 1, 1, Filled(CS_DEVICE, {0}))
  \cup Extras("interface", CCID, 0, 0, Filled(CS_DEVICE, {0}))
  \cup Extras("interface", PRINTER, 1, 4, Filled(CS_DEVICE, {0}))
  \cup Extras("interface", WIRELESS, 1, 2, Filled(CS_DEVICE + 2, {0}))
  \cup Extras("interface", WIRELESS, 2, 1, Filled(CS_DEVICE + 2, {0}))
  \cup Extras("endpoint", MASS_STORAGE, 6, 98, Filled(CS_INTERFACE, {1}))
  \cup Extras("endpoint", MASS_STORAGE, 6, 80, Filled(SS_ENDPOINT_COMP, {0}))

MisplacedOrNot ==
  Extras("config", 0, 0, 0,
         UNION {Filled(t, {0}) : t \in {INTERFACE_ASSOCIATION, SECURITY,
                                        ENCRYPTION_TYPE, 99}})

Otg == <<3, OTG, 3>>
Otg2 == <<5, OTG, 3, 0, 2>>
Association == <<8, INTERFACE_ASSOCIATION, 0, 2, 1, 1, 0, 0>>
BadLengths == {<<0, 36>>, <<1, 36, 1>>, <<9, 36, 1>>, <<255, 36>>, <<7>>, <<>>}

\* Walks of several places and descriptors, an OTG descriptor in any of them,
\* before or after something else and before or after a bad length.
SeveralWalks ==
  {<<Walk("config", 0, 0, 0, a), Walk("interface", MASS_STORAGE, 6, 80, b),
     Walk("endpoint", MASS_STORAGE, 6, 80, c)>> :
     a \in {<<>>, Otg, Association \o Otg, <<0, 9>> \o Otg, Otg2},
     b \in {<<>>, Otg \o <<1>>, Association},
     c \in {<<>>, <<6, 48, 0, 0, 0, 0>> \o Otg, <<9, 48>>}}
  \cup {<<Walk(of, HID, 0, 0, bad)>> : of \in {"config", "interface", "endpoint"},
                                      bad \in BadLengths}

\* HID descriptors that list up to two report descriptors, one of another type,
\* one that is too long, and one that does not fit.
Hid(n, list) == <<6 + 3 * n, 33, 17, 1, 0, n>> \o list
HidWalks ==
  {<<Walk("interface", HID, 1, 1, b)>> : b \in
     {Hid(0, <<>>), Hid(1, <<34, 3, 0>>), Hid(1, <<35, 3, 0>>),
      Hid(2, <<34, 2, 0, 34, 4, 0>>), Hid(1, <<34, 0, 0>>),
      Hid(2, <<34, 0, 1, 34, 1, 0>>), Association, <<5, 33, 17, 1, 0>>,
      <<9, 33, 17, 1, 0, 2, 34, 2, 0>>}}

MCMaxReport == 4
MCReports(n) == [1 .. n -> {0, 5, 7}]

\* Devices with one configuration of one walk of one descriptor; and others.
Single(content) == << {<<w>> : w \in content} >>

AllConfigs ==
  [audio_1   |-> Single(AudioTables(1)),
   audio_2   |-> Single(AudioTables(2)),
   audio_3   |-> Single(AudioTables(3)),
   streams   |-> Single(StreamTables \cup MidiTables),
   audio     |-> Single(AudioByHand),
   camera    |-> Single(VideoControl),
   video_1   |-> Single(VideoStreaming(1 .. 7)),
   video_2   |-> Single(VideoStreaming({10, 13, 16, 17, 18})),
   modem     |-> Single(CommByHand),
   other     |-> Single(OtherClasses),
   misplaced |-> Single(MisplacedOrNot),
   several   |-> <<SeveralWalks, {<<Walk("config", 0, 0, 0, Otg)>>, <<>>}>>,
   hid       |-> <<HidWalks>>,
   hub       |-> <<>>,
   caps      |-> <<>>,
   old       |-> <<>>]

MCDevices == DOMAIN AllConfigs
Usb(bcdUSB, class, protocol) ==
  [bcdUSB |-> bcdUSB, class |-> class, protocol |-> protocol]
Descriptors ==
  [d \in MCDevices |-> CASE d = "hub"  -> Usb(784, HUB, 3)
                         [] d = "caps" -> Usb(528, HUB, 1)
                         [] d = "old"  -> Usb(272, HUB, 0)
                         [] OTHER      -> Usb(512, 0, 0)]

\* The BOS: capabilities of one type each, and a SuperSpeedPlus one among
\* others; cut short, or announced with another length.
Answers ==
  {SubSeq(b, 1, k) : b \in {<<7, 16, 2, 0, 0, 0, 0, 16, 16, 10, 0, 0, 0, 0, 0, 0, 0,
                        0, 0, 0, 0, 0, 0>>}, k \in {0, 2, 7, 9, 23}}
  \cup {[i \in 1 .. n |-> CASE i = 1 -> n [] i = 2 -> 16 [] i = 3 -> t [] OTHER -> v] :
          n \in {3, 7, 8, 9, 10, 16, 20, 48, 56},
          t \in {1, 2, 3, 4, 5, 6, 10, 13, 15, 16, 17}, v \in {0, 3}}
  \cup {<<48, 16, 13, 0, 53>> \o [i \in 1 .. 43 |-> 0]}
  \cup Described(<<16, 16>>, SubSeq(desc_usb3_dc_configuration_summary, 4, 9))

Header5(ret, len, type, total) ==
  [ret |-> ret, bLength |-> len, type |-> type, total |-> total]
Headers ==
  {Header5(-1, 0, 0, 0), Header5(0, 0, 0, 0), Header5(2, 5, 15, 0),
   Header5(5, 5, 2, 12), Header5(5, 5, 15, 5), Header5(5, 5, 15, 28),
   Header5(5, 5, 15, 61)}


\* TLC keeps the value of a definition, but evaluates what a constant is replaced
\* by anew each time it is used.
MCConfigs == AllConfigs
MCDescriptor == Descriptors
MCBosHeaders == Headers
MCBosAnswers == Answers
MCHubPorts == {0, 1, 7, 8, 15, 16, 23, 24, 255}
=============================================================================
