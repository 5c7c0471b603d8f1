----------------------------- MODULE MCUtilities ----------------------------
\* An instance of Utilities for TLC: two devices that stay, on two buses, and
\* two that come and go, with the address of one another and in one port.
EXTENDS Utilities, TLC

At(b, n) == [bus |-> b, dev |-> n]
Of(vendor, product) == [vendor |-> vendor, product |-> product]

MCAddress == [a |-> At(1, 2), b |-> At(2, 1), c |-> At(1, 1), c2 |-> At(1, 1)]
MCId == [a |-> Of(5, 1), b |-> Of(6, 1), c |-> Of(5, 2), c2 |-> Of(5, 1)]
MCPort == [a |-> "1-1", b |-> "2-1", c |-> "1-2", c2 |-> "1-2"]
MCStrings ==
  [a  |-> [product |-> "mouse", serial |-> "X1"],
   b  |-> [product |-> "disk", serial |-> ""],
   c  |-> [product |-> "disk", serial |-> "X2"],
   c2 |-> [product |-> "mouse", serial |-> "X2"]]
MCDevices == DOMAIN MCAddress

\* One configuration with an endpoint companion.
Companion ==
  [of |-> "endpoint", alt |-> NoAlt, attributes |-> 2,
   extra |-> <<6, 48, 0, 0, 0, 0>>]
MCConfigs == [d \in MCDevices |-> << {<<Companion>>} >>]
MCDescriptor ==
  [d \in MCDevices |-> [bcdUSB |-> 272, class |-> 0, protocol |-> 0]]
MCReports(n) == {}

\* Paths: nodes, links to them, a link to a link, a link to itself, a link to
\* a directory elsewhere; the current directory holds a link, too.
Bus(n, m) == <<"dev", "bus", "usb", n, m>>
MCNodeOf == [a |-> Bus("001", "002"), b |-> Bus("002", "001"),
             c |-> Bus("001", "001"), c2 |-> Bus("001", "001")]
Absolute(names_) == [absolute |-> TRUE, names |-> names_]
Relative(names_) == [absolute |-> FALSE, names |-> names_]
MCCwd == <<"home", "me">>
AllLinks ==
  (<<"dev", "char", "mouse">> :>
     Relative(<<"..", "bus", "usb", "001", "002">>))
  @@ (<<"home", "disk">> :> Relative(<<"me", "disk">>))
  @@ (<<"home", "me", "disk">> :> Absolute(Bus("002", "001")))
  @@ (<<"home", "me", "loop">> :> Absolute(<<"home", "me", "loop">>))
  @@ (<<"home", "me", "usb">> :> Absolute(<<"dev", "bus", "usb">>))

MCLinks == AllLinks

MCPaths ==
  {Absolute(Bus("001", "002")), Absolute(Bus("001", "001")),
   Absolute(<<"dev", "char", "mouse">>), Absolute(<<"home", "disk">>),
   Absolute(<<"dev", "bus", "..", ".", "bus", "usb", "002", "001">>),
   Absolute(<<"home", "me", "loop">>), Relative(<<"disk">>),
   Relative(<<".", "disk">>), Relative(<<"..", "disk">>),
   Relative(<<"..", "..", "..", "dev", "bus", "usb", "001", "001">>),
   Relative(<<"usb", "..", "usb", "001", "001">>), Relative(<<"nothing">>),
   Absolute(Bus("002", "001") \o <<"">>)}

v == [opt |-> "v"]
t == [opt |-> "t"]
S(bus, devnum) == [opt |-> "s", bus |-> bus, devnum |-> devnum]
D(vendor, product) == [opt |-> "d", vendor |-> vendor, product |-> product]

MCCommandLines ==
  {<<>>, <<v>>, <<t>>, <<v, S(1, -1)>>, <<S(-1, 1), v>>, <<S(2, 1)>>,
   <<S(1, -1), S(-1, 1)>>, <<S(1, 1), S(2, -1)>>, <<D(5, -1), S(-1, 1)>>,
   <<D(-1, 1)>>, <<D(5, 1), v>>, <<S(7, -1)>>, <<S(1023, 1)>>,
   <<[opt |-> "V"], [opt |-> "bad"]>>, <<[opt |-> "bad"], [opt |-> "h"]>>,
   <<[opt |-> "h"]>>, <<[opt |-> "operand"], [opt |-> "h"]>>,
   <<[opt |-> "operand"]>>}
  \cup {<<[opt |-> "D", path |-> p]>> : p \in MCPaths}

Argument(number, id, serial, text) ==
  [number |-> number, id |-> id, serial |-> serial, text |-> text]
MCArguments ==
  {Argument(<<1, 1>>, <<>>, "-", "001/001"),
   Argument(<<>>, <<5, 1>>, "-", "0005:0001"),
   Argument(<<>>, <<>>, "X2", "SN:X2"), Argument(<<>>, <<>>, "", "SN:"),
   Argument(<<>>, <<>>, "-", "disk"), Argument(<<>>, <<>>, "-", "(none)")}

\* Interfaces: a keyboard that also has an interface with settings and one
\* of another class, a report descriptor listed second, third, behind a length
\* or not at all.
Interface(number, alts, class, hid, endpoints) ==
  [number |-> number, alts |-> alts, class |-> class, hid |-> hid,
   endpoints |-> endpoints]
Hid(extra, length, count, entries_) ==
  [extra_length |-> extra, type |-> 33, bLength |-> length,
   bNumDescriptors |-> count, entries |-> entries_]
ReportOf(type, length) == [type |-> type, length |-> length]
Endpoint(interrupt, in) == [interrupt |-> interrupt, in |-> in]
Out == Endpoint(TRUE, FALSE)
In == Endpoint(TRUE, TRUE)
Bulk == Endpoint(FALSE, TRUE)
Keys == Hid(12, 12, 2, <<ReportOf(35, 9), ReportOf(34, 63)>>)
Short == Hid(9, 12, 2, <<ReportOf(35, 9)>>)

MCInterfaces ==
  [a  |-> <<Interface(0, 1, 3, Keys, <<Out, In>>),
            Interface(1, 2, 3, Keys, <<In>>),
            Interface(2, 1, 3, Short, <<In>>)>>,
   b  |-> <<Interface(0, 1, 8, Keys, <<In>>)>>,
   c  |-> <<Interface(2, 1, 3, Keys, <<Bulk, In>>)>>,
   c2 |-> <<Interface(0, 1, 3, Keys, <<Bulk, Out>>),
            Interface(255, 1, 3, Keys, <<In>>)>>]

Of2(opt, n, m) == [opt |-> opt, n |-> n, m |-> m]
MCWords ==
  {<<>>, <<Of2("a", 1, 0)>>, <<Of2("a", 2, 1), Of2("a", 1, 0)>>,
   <<Of2("m", 5, 0), Of2("i", 2, 0)>>, <<Of2("i", 0, 0)>>,
   <<Of2("i", 7, 0)>>, <<Of2("m", 0, 2), Of2("h", 0, 0)>>,
   <<Of2("a", 256, 0)>>, <<Of2("m", 65536, 0)>>, <<Of2("i", 256, 0)>>,
   <<Of2("?", 0, 0)>>, <<Of2("operand", 0, 0)>>,
   <<Of2("operand", 0, 0), Of2("h", 0, 0)>>}
=============================================================================
