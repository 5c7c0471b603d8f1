------------------------------- MODULE Lsusb --------------------------------
(***************************************************************************)
(* lsusb: main() of lsusb.c - the options, the list of the devices they    *)
(* select or the device a path names (get_usb_device() of usbmisc.c) - and *)
(* the dumps of LsusbDump it calls for, while devices come and go.         *)
(*                                                                         *)
(* libusb frees a device when nothing refers to it: neither libusb itself, *)
(* which knows the devices plugged in, nor a list the program was given,   *)
(* nor a handle.  lsusb -t is LsusbTree; here it is the status it returns. *)
(***************************************************************************)
EXTENDS LsusbDump

CONSTANTS
  CommandLines,   \* the options lsusb may be called with, in order
  Address,        \* bus and devnum of the devices; what the kernel reuses
  Id,             \* their vendor and product
  Hotplug,        \* the devices that come and go
  Cwd,            \* the current directory, as a sequence of names
  Links,          \* the symbolic links: from paths to the paths they hold
  NodeOf,         \* the path of a device below /dev/bus/usb
  MaxLinks,       \* MAX_READLINK_DEPTH
  IntWidth        \* the bits of an int

VARIABLES
  plugged,   \* the devices plugged in
  main,      \* where main() is
  asked,     \* the options lsusb was called with
  argv,      \* the options left to parse
  opts,      \* what the options asked for; -1 is any
  names,     \* the hardware database is open
  ctx,       \* libusb is initialized
  list,      \* libusb's list of devices, while it is held
  i,         \* the place in the list
  listed,    \* history: the devices of the list, when it was fetched
  lost,      \* history: devices unplugged while the list was not held
  shown,     \* the devices printed
  status     \* the exit status

optionVars == <<asked, argv, opts>>
hostVars == <<names, ctx>>
listVars == <<list, i, listed>>
lsusbVars ==
  <<vars, plugged, main, optionVars, hostVars, listVars, lost, shown, status>>

(* The command line.  An option is [opt, ...]: "s" has bus and devnum, "d"  *)
(* vendor and product, -1 for what is left out, "D" has a path; "operand"  *)
(* is an argument that is no option, "bad" an option that is not known or  *)
(* a "d" without a colon.                                                  *)
Numbers == Nat \cup {-1}
Paths == [absolute : BOOLEAN, names : Seq(STRING) \ {<<>>}]
Options ==
  [opt : {"v", "h", "t", "V", "operand", "bad"}]
  \cup [opt : {"s"}, bus : Numbers, devnum : Numbers]
  \cup [opt : {"d"}, vendor : Numbers, product : Numbers]
  \cup [opt : {"D"}, path : Paths]

ASSUME LsusbAssumption ==
  /\ IsFiniteSet(Devices) /\ Hotplug \subseteq Devices
  /\ Address \in [Devices -> [bus : UINT8, dev : UINT8]]
  /\ Id \in [Devices -> [vendor : UINT16, product : UINT16]]
  /\ CommandLines \subseteq Seq(Options) /\ IntWidth \in Nat \ {0}

\* The links hold paths, and the name of a node is made of the address.  (That
\* a string is a name is nothing the provers know.)
ASSUME PathsAssumption ==
  /\ "(garbled)" \in STRING
  /\ Cwd \in Seq(STRING) /\ MaxLinks \in Nat
  /\ DOMAIN Links \subseteq Seq(STRING)
  /\ \A file \in DOMAIN Links : Links[file] \in Paths
  /\ \A d, e \in Devices :
       NodeOf[d] = NodeOf[e] => Address[d] = Address[e]

\* Nothing was given to -D.
NoPath == [absolute |-> TRUE, names |-> <<>>]
NoOptions ==
  [err |-> FALSE, operands |-> FALSE, help |-> FALSE, tree |-> FALSE,
   verbose |-> FALSE,
   bus |-> -1, devnum |-> -1, vendor |-> -1, product |-> -1,
   devdump |-> NoPath]

Points ==
  {"none", "options", "tree", "libusb", "list", "dump", "free", "close",
   "exit"}

\* Devices with the same address are not plugged in at the same time.
Distinct(S) == \A d, e \in S : d # e => Address[d] # Address[e]

LsusbAt(point, lines) ==
  /\ Init
  /\ plugged \in {S \in SUBSET Devices : Devices \ Hotplug \subseteq S
                                         /\ Distinct(S)}
  /\ main = point
  /\ asked \in lines /\ argv = asked /\ opts = NoOptions
  /\ names = FALSE /\ ctx = FALSE
  /\ list = <<>> /\ i = 1 /\ listed = {} /\ lost = {}
  /\ shown = <<>> /\ status = 0

LsusbInit == LsusbAt("options", CommandLines)

-----------------------------------------------------------------------------
(* The bus                                                                 *)

Plug(d) ==
  /\ d \in Hotplug \ plugged /\ Distinct(plugged \cup {d})
  /\ plugged' = plugged \cup {d}
  /\ UNCHANGED <<vars, main, optionVars, hostVars, listVars, lost, shown,
                 status>>

Unplug(d) ==
  /\ d \in Hotplug \cap plugged
  /\ plugged' = plugged \ {d}
  /\ lost' = IF list = <<>> THEN lost \cup {d} ELSE lost
  /\ UNCHANGED <<vars, main, optionVars, hostVars, listVars, shown, status>>

-----------------------------------------------------------------------------
(* Options                                                                 *)

Power(n) == LET p[k \in 0 .. n] == IF k = 0 THEN 1 ELSE 2 * p[k - 1] IN p[n]

\* strtoul() returns more than an int holds.
Bug_AsInt(n) == n
AsInt(n) ==
  LET low == n % Power(IntWidth)
  IN  IF low >= Power(IntWidth - 1) THEN low - Power(IntWidth) ELSE low

Given(n, before) == IF n = -1 THEN before ELSE AsInt(n)

Bug_Parsed(o) ==
  CASE o.opt = "v" -> [opts EXCEPT !.verbose = TRUE]
    [] o.opt = "h" -> [opts EXCEPT !.help = TRUE]
    [] o.opt = "t" -> [opts EXCEPT !.tree = TRUE]
    [] o.opt = "s" -> [opts EXCEPT !.bus = AsInt(o.bus),
                                   !.devnum = AsInt(o.devnum)]
    [] o.opt = "d" -> [opts EXCEPT !.vendor = Given(o.vendor, @),
                                   !.product = Given(o.product, @)]
    [] o.opt = "D" -> [opts EXCEPT !.devdump = o.path]
    [] o.opt = "operand" -> [opts EXCEPT !.operands = TRUE]
    [] OTHER       -> [opts EXCEPT !.err = TRUE]

\* A later option overrides an earlier one, but not by what it leaves out.
Parsed(o) ==
  CASE o.opt = "v" -> [opts EXCEPT !.verbose = TRUE]
    [] o.opt = "h" -> [opts EXCEPT !.help = TRUE]
    [] o.opt = "t" -> [opts EXCEPT !.tree = TRUE]
    [] o.opt = "s" -> [opts EXCEPT !.bus = Given(o.bus, @),
                                   !.devnum = Given(o.devnum, @)]
    [] o.opt = "d" -> [opts EXCEPT !.vendor = Given(o.vendor, @),
                                   !.product = Given(o.product, @)]
    [] o.opt = "D" -> [opts EXCEPT !.devdump = o.path]
    [] o.opt = "operand" -> [opts EXCEPT !.operands = TRUE]
    [] OTHER       -> [opts EXCEPT !.err = TRUE]

Exit(code) == main' = "exit" /\ status' = code

\* The version is printed at once, whatever else was asked for.
Option ==
  /\ main = "options" /\ argv # <<>>
  /\ argv' = Tail(argv)
  /\ IF Head(argv).opt = "V"
     THEN Exit(0) /\ UNCHANGED opts
     ELSE opts' = Parsed(Head(argv)) /\ UNCHANGED <<main, status>>
  /\ UNCHANGED <<vars, plugged, asked, hostVars, listVars, lost, shown>>

\* Whoever asks for help with options that are known succeeds.
Usage ==
  /\ main = "options" /\ argv = <<>>
  /\ opts.err \/ opts.operands \/ opts.help
  /\ Exit(IF opts.help /\ ~ opts.err THEN 0 ELSE 1)
  /\ UNCHANGED <<vars, plugged, optionVars, hostVars, listVars, lost, shown>>

\* Without the hardware database the devices are listed all the same.
names_init ==
  /\ main = "options" /\ argv = <<>>
  /\ ~ opts.err /\ ~ opts.operands /\ ~ opts.help
  /\ names' \in BOOLEAN
  /\ main' = IF opts.tree THEN "tree" ELSE "libusb"
  /\ UNCHANGED <<vars, plugged, optionVars, ctx, listVars, lost, shown,
                 status>>

\* lsusb_t() fails if the directory of the devices cannot be opened.
lsusb_t ==
  /\ main = "tree"
  /\ \E code \in {0, 1} : Exit(code)
  /\ names' = FALSE
  /\ UNCHANGED <<vars, plugged, optionVars, ctx, listVars, lost, shown>>

libusb_init ==
  /\ main = "libusb"
  /\ \/ ctx' = TRUE /\ main' = "list" /\ UNCHANGED status
     \/ Exit(1) /\ UNCHANGED ctx
  /\ UNCHANGED <<vars, plugged, optionVars, names, listVars, lost, shown>>

-----------------------------------------------------------------------------
(* The device a path names.  A path is [absolute, names]; names may be "." *)
(* and "..", and empty at the end if the path ends with a slash.           *)

\* The names the kernel looks up, from the root.
Rooted(path) == IF path.absolute THEN path.names ELSE Cwd \o path.names

Loop == <<"(too many links)">>

(* The kernel's lookup of a path, one name or link at a time.  All         *)
(* directories named are taken to exist.                                   *)
WalkStep(w) ==
  LET n    == Head(w.todo)
      file == Append(w.at, n)
      rest == [w EXCEPT !.todo = Tail(@)]
      up   == IF w.at = <<>> THEN <<>> ELSE Front(w.at)
  IN  IF n \in {"", ".", ".."}
      THEN [rest EXCEPT !.at = IF n = ".." THEN up ELSE @]
      ELSE IF file \notin DOMAIN Links THEN [rest EXCEPT !.at = file]
           ELSE [at   |-> IF Links[file].absolute THEN <<>> ELSE w.at,
                 todo |-> Links[file].names \o Tail(w.todo),
                 left |-> w.left - 1]

Walk(path) ==
  LET walk[w \in [at : Seq(STRING), todo : Seq(STRING), left : Int]] ==
        IF w.left < 0 THEN Loop
        ELSE IF w.todo = <<>> THEN w.at ELSE walk[WalkStep(w)]
  IN  walk[[at |-> <<>>, todo |-> path, left |-> MaxLinks]]

\* The file readlink() looks at; only the last name is not followed.
File(path) == Append(Walk(Front(Rooted(path))), Last(path.names))

Bug_Followed(path, target) ==
  IF target.absolute THEN target ELSE [target EXCEPT !.names = Cwd \o @]

\* The target of a relative link is where the link is.  A link that is a bare
\* name keeps the first character of its name.
Followed(path, target) ==
  IF target.absolute THEN target
  ELSE [path EXCEPT !.names =
          IF ~ path.absolute /\ Len(@) = 1
          THEN <<"(garbled)">> \o Tail(target.names)
          ELSE Front(@) \o target.names]

\* The path and what it leads to, link by link, at most MaxLinks deep.
Chain(path) ==
  LET chain[c \in Seq(Paths) \ {<<>>}] ==
        LET file == File(Last(c))
        IN  IF file \notin DOMAIN Links \/ Len(c) = MaxLinks + 2 THEN c
            ELSE chain[Append(c, Followed(Last(c), Links[file]))]
  IN  chain[<<path>>]

readlink_recursive(path) == Last(Chain(path))

\* "." and ".." are taken out by what they look like, but for the last name.
Dots(path) ==
  LET dots[done \in Seq(STRING), todo \in Seq(STRING)] ==
        IF todo = <<>> THEN done
        ELSE CASE Head(todo) = "." -> dots[done, Tail(todo)]
               [] Head(todo) = ".." ->
                    dots[IF done = <<>> THEN done ELSE Front(done), Tail(todo)]
               [] OTHER -> dots[Append(done, Head(todo)), Tail(todo)]
  IN  dots[<<>>, path]

\* getcwd() and a slash go before a relative path: in "/", two slashes, that is
\* an empty name, which only ".." takes away again.
Joined(path) ==
  IF path.absolute THEN path.names
  ELSE (IF Cwd = <<>> THEN <<"">> ELSE Cwd) \o path.names

get_absolute_path(path) ==
  Append(Dots(Front(Joined(path))), Last(path.names))

get_usb_device(path, devices) ==
  {d \in devices : NodeOf[d] = get_absolute_path(readlink_recursive(path))}

\* The exit status until a device is shown.
Bug_not_found == 0
not_found == 1

Found(d) ==
  /\ shown' = Append(shown, d) /\ status' = 0
  /\ Call(d)

\* dump_one_device(): the list is freed before the device is used.
dump_one_device ==
  /\ main = "list" /\ opts.devdump # NoPath
  /\ \/ /\ listed' = plugged
        /\ LET named == get_usb_device(opts.devdump, plugged)
           IN  IF named = {}
               THEN /\ main' = "close" /\ status' = not_found
                    /\ UNCHANGED <<vars, shown>>
               ELSE main' = "dump" /\ \E d \in named : Found(d)
     \/ /\ main' = "close" /\ status' = not_found
        /\ UNCHANGED <<vars, shown, listed>>
  /\ lost' = {}
  /\ UNCHANGED <<plugged, optionVars, hostVars, list, i>>

-----------------------------------------------------------------------------
(* The devices the options select                                          *)

Before(a, b) ==
  \/ Address[a].bus < Address[b].bus
  \/ Address[a].bus = Address[b].bus /\ Address[a].dev < Address[b].dev

\* A pass that exchanges neighbours, and whether it found nothing to exchange.
Exchanged(l, k) == [l EXCEPT ![k] = l[k + 1], ![k + 1] = l[k]]

SortStep(p) ==
  IF p.k >= Len(p.of) THEN [p EXCEPT !.k = 1, !.sorted = TRUE]
  ELSE IF Before(p.of[p.k + 1], p.of[p.k])
       THEN [of |-> Exchanged(p.of, p.k), k |-> p.k + 1, sorted |-> FALSE]
       ELSE [p EXCEPT !.k = @ + 1]

\* Passes until one finds nothing to exchange.
sort_device_list(devices) ==
  LET pass[p \in [of : Seq(Devices), k : Nat \ {0},
              sorted : BOOLEAN]] ==
        IF p.k >= Len(p.of) /\ p.sorted THEN p.of ELSE pass[SortStep(p)]
  IN  pass[[of |-> devices, k |-> 1, sorted |-> TRUE]]

\* libusb lists the devices in whatever order it knows them in.
GetDeviceList ==
  /\ main = "list" /\ opts.devdump = NoPath /\ list = <<>>
  /\ status' = not_found
  /\ \/ /\ listed' = plugged
        /\ \E l \in SetToSeqs(plugged) : list' = sort_device_list(l)
        /\ main' = IF plugged = {} THEN "free" ELSE main
     \/ main' = "close" /\ UNCHANGED <<list, listed>>
  /\ UNCHANGED <<vars, plugged, optionVars, hostVars, i, lost, shown>>

Selected(d) ==
  /\ opts.bus \in {-1, Address[d].bus} /\ opts.devnum \in {-1, Address[d].dev}
  /\ opts.vendor \in {-1, Id[d].vendor} /\ opts.product \in {-1, Id[d].product}

Listing == main = "list" /\ list # <<>>

Bug_SkipDevice ==
  /\ Listing /\ i <= Len(list) /\ ~ Selected(list[i])
  /\ UNCHANGED lsusbVars

SkipDevice ==
  /\ Listing /\ i <= Len(list) /\ ~ Selected(list[i])
  /\ i' = i + 1
  /\ UNCHANGED <<vars, plugged, main, optionVars, hostVars, list, listed, lost,
                 shown, status>>

ShowDevice ==
  /\ Listing /\ i <= Len(list) /\ Selected(list[i])
  /\ IF opts.verbose
     THEN main' = "dump" /\ Found(list[i])
     ELSE /\ shown' = Append(shown, list[i]) /\ status' = 0
          /\ UNCHANGED <<vars, main>>
  /\ i' = i + 1
  /\ UNCHANGED <<plugged, optionVars, hostVars, list, listed, lost>>

AllListed ==
  /\ Listing /\ i > Len(list)
  /\ main' = "free"
  /\ UNCHANGED <<vars, plugged, optionVars, hostVars, listVars, lost, shown,
                 status>>

FreeDeviceList ==
  /\ main = "free"
  /\ list' = <<>> /\ main' = "close"
  /\ UNCHANGED <<vars, plugged, optionVars, hostVars, i, listed, lost, shown,
                 status>>

-----------------------------------------------------------------------------
(* Dumps.  A device that is not plugged in any more cannot be opened.      *)

Dump ==
  /\ main = "dump" /\ DumpStep
  /\ ~ udev /\ udev' => dev \in plugged
  /\ main' = IF pc' # "idle" THEN "dump"
             ELSE IF list = <<>> THEN "close" ELSE "list"
  /\ UNCHANGED <<plugged, optionVars, hostVars, listVars, lost, shown, status>>

Bug_CloseLibusb ==
  /\ main = "close"
  /\ main' = "exit"
  /\ names' = FALSE /\ ctx' = ctx
  /\ UNCHANGED <<vars, plugged, optionVars, listVars, lost, shown, status>>

CloseLibusb ==
  /\ main = "close"
  /\ main' = "exit"
  /\ names' = FALSE /\ ctx' = FALSE
  /\ UNCHANGED <<vars, plugged, optionVars, listVars, lost, shown, status>>

LsusbStep ==
  \/ Option \/ Usage \/ names_init \/ lsusb_t \/ libusb_init
  \/ dump_one_device
  \/ GetDeviceList \/ SkipDevice \/ ShowDevice \/ AllListed \/ FreeDeviceList
  \/ Dump \/ CloseLibusb

LsusbNext ==
  \/ LsusbStep
  \/ \E d \in Devices : Plug(d) \/ Unplug(d)

\* The program is sequential and what it calls returns; devices come and go as
\* they like.
LsusbSpec == LsusbInit /\ [][LsusbNext]_lsusbVars /\ WF_lsusbVars(LsusbStep)

-----------------------------------------------------------------------------
(* Correctness                                                             *)

Ints == - Power(IntWidth - 1) .. Power(IntWidth - 1) - 1

\* Every variable holds values of its type; no option is more than an int.
LsusbTypeOK ==
  /\ TypeOK
  /\ plugged \subseteq Devices /\ listed \subseteq Devices
  /\ lost \subseteq Devices
  /\ main \in Points
  /\ opts \in [err : BOOLEAN, operands : BOOLEAN, help : BOOLEAN,
               tree : BOOLEAN, verbose : BOOLEAN, bus : Ints, devnum : Ints,
               vendor : Ints, product : Ints,
               devdump : Paths \cup {NoPath}]
  /\ names \in BOOLEAN /\ ctx \in BOOLEAN
  /\ list \in Seq(Devices) /\ i \in 1 .. Cardinality(Devices) + 1
  /\ shown \in Seq(Devices) /\ status \in {0, 1}

(* What the options select: the last -s or -d that gives a number decides. *)
(* Left out are numbers an int does not hold, of which some become -1.     *)
LastGiven(opt, field) ==
  LET given == {k \in DOMAIN asked : asked[k].opt = opt
                                      /\ asked[k][field] # -1}
  IN  IF given = {} THEN -1 ELSE asked[Max(given)][field]

Wants(opt, field, value) == LastGiven(opt, field) \in {-1, value}

Wanted(d) ==
  /\ Wants("s", "bus", Address[d].bus) /\ Wants("s", "devnum", Address[d].dev)
  /\ Wants("d", "vendor", Id[d].vendor)
  /\ Wants("d", "product", Id[d].product)

NumbersFit ==
  \A k \in DOMAIN asked :
    /\ asked[k].opt = "s" => \A n \in {asked[k].bus, asked[k].devnum} :
                               n = -1 \/ AsInt(n) = n
    /\ asked[k].opt = "d" => \A n \in {asked[k].vendor, asked[k].product} :
                               n = -1 \/ AsInt(n) = n

\* The devices shown are those selected of the devices there were when they
\* were listed, each once, in the order of their addresses, whatever order
\* libusb listed them in and whatever has been unplugged since.
ShowsTheSelectionInOrder ==
  opts.devdump = NoPath /\ NumbersFit =>
    /\ \A k \in 2 .. Len(shown) : Before(shown[k - 1], shown[k])
    /\ main \in {"free", "close"} =>
         Range(shown) = {d \in listed : Wanted(d)}

\* A path that leads to the node of a device, as the kernel follows it, leads
\* -D to the device, and no other path does.  Left out are paths whose links
\* lead to one with a directory that is a link, or with two slashes since it is
\* relative to "/"; that end in a slash or dots; and links that are a bare name.
Plain(path) ==
  /\ LET p == readlink_recursive(path)
     IN  Dots(Front(Joined(p))) = Walk(Front(Rooted(p)))
  /\ \A p \in Range(Chain(path)) :
       Last(p.names) \notin {"", ".", ".."} /\ p.names[1] # "(garbled)"

FindsTheNode ==
  /\ opts.devdump # NoPath /\ main \in {"dump", "close"}
  /\ Plain(opts.devdump) /\ Walk(Rooted(opts.devdump)) # Loop
  => Range(shown) = {d \in listed : NodeOf[d] = Walk(Rooted(opts.devdump))}

\* lsusb succeeds if it shows a device, and otherwise only if it was not asked
\* for one: for its version, help or the tree.
StatusTells ==
  main = "exit" =>
    /\ shown # <<>> => status = 0
    /\ status = 0 => \/ shown # <<>>
                     \/ opts.tree
                     \/ \E k \in DOMAIN asked : asked[k].opt \in {"V", "h"}

\* A device is dumped while something refers to it: libusb, the list, or the
\* handle - but for the one -D names, unplugged since it was found.  The list
\* and dumps are for as long as libusb is in use; at the end libusb is left and
\* everything given back, except that the hardware database stays open if
\* libusb could not be used.
HeldWhileUsed ==
  /\ pc # "idle" => \/ dev \in (plugged \ lost) \cup Range(list)
                    \/ udev
                    \/ opts.devdump # NoPath /\ dev \in lost
  /\ list # <<>> \/ pc # "idle" => ctx
  /\ main = "exit" => ~ ctx /\ (names => shown = <<>> /\ status = 1)
  /\ pc = "idle" => ~ udev /\ ~ held /\ ~ claimed

\* lsusb ends, whatever is plugged in or unplugged meanwhile.
LsusbEnds == <>(main = "exit")
=============================================================================
