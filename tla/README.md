# A TLA+ model of usbutils

usbutils is a set of command line programs that look at, and in one case take
hold of, the USB devices of a Linux machine: `lsusb` (with `lsusb -t`),
`usbhid-dump`, `usbreset`, and the scripts `usb-devices` and `lsusb.py`.
This directory models them in TLA+, checks the models with TLC and proves
theorems about them with TLAPS.

Paths below are relative to the repository; `usbhid-dump.c` stands for
`usbhid-dump/usbhid-dump.c`, and so on.


## 1. Inventory

| part | state it keeps | operations | talks to |
|---|---|---|---|
| **stream** of usbhid-dump (`usbhid-dump.c:86-111, 188-488`) | the transfer list, `iface->submitted`, the locals `result` and `submitted`, the globals `exit_signum` and `stream_paused` | set up, submit, event loop, callback, cancel, drain, free; three signal handlers | libusb (submit, cancel, events, callbacks), the kernel, the user of the devices, whoever sends signals |
| **main program** of usbhid-dump (`usbhid-dump.c:490-572, 852-1061`, `iface.c:76-144`) | `iface->detached`, `iface->claimed`, signal dispositions, exit status | install handlers, discover, detach, claim, dump, release, attach, close, restore handlers, reproduce the signal | the kernel's driver binding, other programs, the parent process |
| **discovery** of usbhid-dump (`usbhid-dump.c:888-998`, `dev_list.c`, `dev.c`, `iface_list.c`) | options, device list, interface list, configuration in hand | parse the selection, open matching devices, list HID interfaces with their interrupt-in endpoint, filter | libusb |
| **lsusb**: options, listing, dumping a device (`lsusb.c:3827-4112`) | the device list, open handle | sort, filter, dump configurations, qualifier, BOS, status | libusb, sysfs, devices that may stop answering |
| **lsusb descriptor walkers** (`lsusb.c:445-516, 2451-2600, 3718-3825` and the class dumps) | a cursor in a buffer of device bytes | walk extra descriptors by their own length bytes, parse report descriptors, read and walk the BOS | bytes chosen by the device |
| **lsusb -t** (`lsusb-t.c`) | four lists (buses, devices, interfaces, all) and the tree links between them | read sysfs, connect, sort, print, free | sysfs, which changes while it is read |
| **desc-dump** (`desc-dump.c`) over the tables of `desc-defs.c` | offset in a descriptor | sizes of fields, length of arrays given by count, bitmap, another field or inferred; dump each field | bytes chosen by the device |
| **names** (`names.c`) | hwdb handle | look names up | udev hwdb |
| **sysfs**, **usbmisc** (`sysfs.c`, `usbmisc.c`) | path buffers, a reference to a device | property of a device, device of a `/dev/bus/usb` path | sysfs, libusb |
| **usbreset** (`usbreset.c`) | one `struct usbentry`, a directory handle | scan sysfs, match by bus/device, vendor/product or name, reset | sysfs, usbfs |
| scripts, vendored list macros, generated tables, tests | none of their own | formatting | |

How they interact. The programs share no state at run time. Within usbhid-dump,
`main()` installs the handlers and calls `run()`; `run()` discovers the
interfaces, detaches and claims each, and calls the descriptor dump and the
stream; the stream submits one transfer per interface and sits in
`libusb_handle_events()`, from where libusb calls back into
`dump_iface_list_stream_cb()`. The handlers write `exit_signum` and
`stream_paused`; everything else reads them. Each `uhd_iface` carries three
flags, `detached`, `claimed` and `submitted`, and each flag stands for
something the kernel knows better: the value of this code is that flag and
kernel never disagree in a way that loses an interface or frees memory in use.
Within lsusb, `lsusb.c` calls the table-driven `desc-dump.c` with the tables of
`desc-defs.c`, and `lsusb-t.c` when `-t` is given.

What is hard in it:

* stream: callbacks, signals and kernel completions between any two steps;
  cancellations that race a completion; a setup that fails half-way; a drain
  that fails half-way. Correct means: the flag is never stale, nothing in
  flight is freed, everything else is, the loops never wait for nothing, a
  signal ends it, a pause silences it.
* main program: failure of any call after some interfaces are taken; another
  program claiming an interface between detach and claim; signals before,
  during and after the handlers are installed. Correct means: each interface
  taken is given back, claimed only when free, and the exit the parent sees
  tells what happened.
* discovery: failure on the n-th device when n-1 are open. Correct means:
  nothing stays open, every matching interface is listed once.
* descriptor walkers and desc-dump: lengths 0, 1 and larger than what is left;
  counts taken from the descriptor; unsigned subtraction. Correct means: the
  walk ends, and reads nothing outside the descriptor.
* lsusb -t: hot-plug while sysfs is read, arbitrary directory order. Correct
  means: what was seen together with its ancestors is printed once, in port
  order.
* usbreset: a device leaving during the scan or between match and reset.
  Correct means: what is reset is what was asked for, and the only one of it.
* lsusb: options that override one another, a path that is a chain of links, a
  device list that goes stale. Correct means: it shows the selection of the
  devices there were, in order, and its status says so.

`PROJECT.json` lists these hazards one by one, at the line where each bites,
with the properties that would catch it.


## 2. The plan

In the order of writing; the most important behaviour first.

| module | models | state |
|---|---|---|
| **UhdStream** | the stream, one action per step of the thread | written, checked, safety proved |
| **DriverLoan** | abstract: what usbhid-dump promises about the interfaces it borrows | written |
| **UsbhidDump** | `main()` and `run()` around UhdStream, which it extends; implements DriverLoan | written, checked, safety and refinement proved |
| **LsusbTree** | `lsusb-t.c`: a reader of a changing sysfs, then connect, sort, print | written, checked, its safety proved |
| **DescTables** | the tables of `desc-defs.c` | written |
| **DescDump** | the sizes, counts and offsets of `desc-dump.c` and, next to them, when a descriptor is well-formed | written, checked, that it stays within the bytes proved |
| **ClassDump** | which dump every descriptor gets, and its lengths and accesses | written, checked, that they stay within the bytes proved |
| **LsusbDump** | `dumpdev()`: the phases, the walks, report descriptors, BOS, hub | written, checked, proved |
| **Lsusb** | `main()` and `list_devices()` of lsusb, `usbmisc.c`; extends LsusbDump | written, checked, proved |
| **Usbreset** | usbreset while devices come and go | written, checked, its safety proved |
| **UhdDiscovery** | the options, devices and interfaces of usbhid-dump | written, checked, its safety proved |
| **Utilities** | Lsusb, Usbreset and UhdDiscovery beside one set of devices | written, checked, the safety of all three proved |
| **UsbhidDumpProofs** | the safety of UhdStream and UsbhidDump and the refinement of DriverLoan, for every number of interfaces | proved |
| **UsbresetProofs** | what usbreset resets and spares, for any devices, coming and going | proved |
| **UhdDiscoveryProofs** | `AllOrNothing`: what is open, held and allocated at each point, and what the lists hold of it | proved |
| **UtilitiesProofs** | the same of all three programs beside one set of devices | proved |
| **ClassDumpProofs** | DescDump and ClassDump: no dump looks beyond the bytes of its descriptor | proved |
| **LsusbDumpProofs** | the safety of `dumpdev()` and that it comes to an end | proved |
| **LsusbProofs** | the options, the sort, the selection, the status and what lsusb holds | proved |
| **LsusbTreeProofs** | what `lsusb -t` prints, for any tree, hot-plugging and order of reading | proved |

Composition: UsbhidDump takes the place of UhdStream's callers. Lsusb puts
LsusbDump where `lsusb -v` and `lsusb -D` call `dumpdev()`. Utilities has the
three programs that choose devices run while the same devices are plugged and
unplugged. UsbhidDump keeps its one-step discovery: what matters to the loan is
only that it may fail, and UhdDiscovery says what it does.

Runs: two of whatever competes and every failure the code handles; descriptors
of every shape one at a time rather than long ones. Theorems: each component's
type invariant, its flag or resource invariant, and the step-wise refinement of
DriverLoan.


## 3. What is written

### UhdStream: `dump_iface_list_stream()` with its callback

`pc` is the control point of the one thread. Its points follow the function:

| actions | code |
|---|---|
| `Call`, `Prepare` | entry; Set_Protocol / Set_Idle per interface |
| `AllocList`, `AllocTransfer`, `FillTransfer`, `SubmitFirst` | the four set-up stages, one slot per step; `Fail` is the GUARD macros' jump to `cleanup` |
| `Loop`, `Poll`, `PollError`, `Scan` | both event loops, whose bodies are the same: condition, `libusb_handle_events()`, scan of the flags. `phase` says which of the two it is |
| `Callback`, `CheckPaused`, `Dump`, `Resubmit`, `DispatchDone` | `dump_iface_list_stream_cb()`, once for every finished transfer, in any order; its read of `stream_paused` and its `dump()` are separate steps, so that a signal fits between |
| `After` | the check behind the first loop |
| `Cleanup`, `Cancel`, `Free` | the three stages of the cleanup, one slot per step |

Interface t and the transfer in slot t are one index. A slot is `none` (there
is no list), `null`, `alloc`, `filled` or `freed`. `ifsubmitted` is
`iface->submitted`; `urb` is what libusb and the kernel know of the transfer.

Around the thread: `Complete`, `TimeOut`, `DeviceFail`, `CancelDone` (kernel
and libusb), `StopInput` (the user of a device), and `ExitSignal`, `Pause`,
`Resume` (the handlers). `infinite` stands for a timeout of 0.

Constants: `N` interfaces (assumed at least 1: `run()` stops when there is
none), and `Faults`, the kinds of call that may fail, each time it is made,
independently. `cancel_finished` deserves a word: libusb's Linux backend
answers `LIBUSB_ERROR_NOT_FOUND` when asked to cancel a transfer whose URB the
kernel has finished and libusb has not yet reaped; another backend may accept.
Both answers are in the model, the first where `cancel_finished` is a fault.

`refused`, `drainFailed` and `pausedDumps` are history variables: no guard reads
them. `pausedDumps` is reset when a pause begins, so it needs no bound.

### UsbhidDump: `main()` and `run()`

UsbhidDump extends UhdStream and adds a second control point, `mpc`. Its action
`Stream` takes one step of the stream's thread while `mpc = "stream"`; the
signal handlers and the kernel of UhdStream become `Deliver(s)` and `Devices`.
`SetupInt` to `SetupUsr2` are the four `sigaction()` calls; `InitContext`,
`OpenDevices` and `ListInterfaces` the discovery (one step each, which may
fail); `Detach`, `Claim`, `Release` and `Attach` the functions of `iface.c`,
with the loops of `run()` around them; `DumpDescriptor` the descriptor dump;
`Close` the end of `run()`; `RestoreInt`, `RestoreTerm`, `Raise` the end of
`main()`.

`holder[t]` is the kernel's view: whose driver is bound to the interface.
`Others(t)` lets another program, or a driver being bound, move a `Contested`
interface nobody holds, or the other program let go. `disposition[s]` is the
kernel's view of a signal, and a delivered signal with the default disposition
kills the program on the spot; `MayBeIgnored` are the signals a parent may have
had ignored. SIGKILL and signals the program does not know are left out: the
code cannot and does not answer them.

### DriverLoan: the abstract promise

An interface is taken from its driver (`Take`), claimed only when nobody holds
it (`Claim`), released, and given back (`GiveBack`); the program may end only
when it holds nothing and owes nothing the kernel did not refuse (`End`).
UsbhidDump implements it under `owed` = the interfaces with `detached` set and
`ended` = `mpc` terminal. It is worth stating since it says nothing of how: a
change of the order of release and attach, or an early return before them,
breaks it. `UsbhidDump!KeepsLoanPromise` is the property.

### LsusbTree: `lsusb_t()`

Entries of `/sys/bus/usb/devices` are named by their path: `usb1` is `<<1>>`,
`1-2.3` is `<<1, 2, 3>>`, the interface `1-2.3:1.0` a record; what
`strtoul()` and `strrchr()` pick out of a name is then `Parent`, `Last` and `Owner`.
`Kernel` adds and removes the `Volatile` entries while the directory is read
(children and interfaces first out and last in, one configuration of a device
at a time); `ReadNode` and `ReadInterface` take the names in any order, each once, and
find an entry there or gone. Of `connect_devices()`, `ConnectDevice` puts a device
under its parent and `ConnectInterface` is one round of the loop inside.
`sort_dev_siblings()` and `print_tree_dev_children()` call themselves; `queue` is
what the calls under way have left to do, and `entered` tells a node below which
is still to be sorted (`SortBelow`) from one whose children are next
(`SortChildren`). The recursion of `sort_dev_siblings()` on the tail of its list
makes it an insertion sort, and its result is taken at once, whereas
`sort_dev_interfaces()`, which compares two keys, is done comparison by
comparison, since whether it ends is the question. `PrintTree` prints the lines of
one node, a record for each; what a line says of the device is left out. `children` and `ifs` are the `first_child`/`next` and
`first_interface`/`next` chains; `stable` and `stableIfs` are history.

### DescTables, DescDump: `desc-defs.c` and `desc_dump()`

A table is a sequence of fields, each with its size or the field that holds it,
whether it is an array and where its length comes from (another field, the bits
of the product of two, or what is left), and the extension it selects. How a
value is rendered, with the names of bits and values, is left out.

`desc_dump` yields how far the fields shown reach (`offset`) and how the dump
ends: `whole`, with `junk`, or `insufficient`. Sizes and counts are computed as
the code does, `get_value_from_field()` with the offsets
it adds up while it searches. `TrueOffsets` and `WellFormed` are the
reference: where the fields of a descriptor are if every array has the length
the descriptor states, and whether they fill it. They say nothing of the search,
which is what the comparison is for.

### ClassDump: one descriptor

For each descriptor, `ConfigExtra`, `InterfaceExtra`, `EndpointExtra` and
`DeviceCapability` choose the dump as the switches of the four walks do, and the
dump's result is a record: as what it is shown (`as`), how it ends
(`fields`, `short`, `raw` or `hidden`), how many bytes are looked at
(`reads`), from which byte on the rest is shown raw (`raw`), and the table it
goes by, if any. A dump by a table is only chosen there (`end = "table"`);
`Completed` then fills in what `desc_dump` does with the bytes.
`Checked(buf, as, needs, reads, junk)` is the shape of most dumps: length
checks one after the other, each with counts the one before it has made sure
are there, then the fields. That `reads` counts the checks as well as the
fields is the point. Where the code tests the length before the type, so does
the model, with IF: of a CASE two of whose guards hold TLC takes the first arm,
but TLA+ any.

`TablesAssumption` names what the dumps rely on in the tables of `desc-defs.c`:
a field is only referred to by one that comes after it (`SoundTable`), in the
tables an extension selects counts stand at fixed offsets, and a table with an
extension infers no array (`SoundTables`). TLC evaluates it, for the tables as
they are.

### LsusbDump: `dumpdev()`

`pc` follows the function: `Open`, `ReadForOtg`, `ReadConfig` to
`ConfigDumped`, the BOS in two reads, hub, dual speed, debug, status,
`Close`. Without a handle all after the configurations is left out. `walks` are
the places of the configuration still to be walked with the bytes left in
each: `WalkDump` takes one descriptor off the first, `WalkDone` drops a walk
that is at its end or meets a bad length. A HID descriptor puts the lengths of
its report descriptors in `reports`; `SkipReport`, `ClaimInterface`, `Fetch`,
`FetchDone` are the loop of `dump_hid_device()` with its retries. `last` is the
descriptor dumped last, with the bytes that are there behind it. Every control
request may fail or be answered short. `AnswersAssumption` says what libusb and
the kernel promise of the answers: bytes are bytes, and a configuration
consists of places.

### Lsusb: `main()`, `list_devices()`, `dump_one_device()`

One action per option, `Usage`, the initialisations, then either
`lsusb_t` (one step, as LsusbTree models it), `dump_one_device`, or
`GetDeviceList`, `SkipDevice`/`ShowDevice` per device, and the frees.
`Dump` is a step of LsusbDump. `sort_device_list` is the bubble sort
comparison by comparison (`SortStep`), repeated until a pass exchanges nothing. Paths are sequences of names: `Chain` is what `readlink()` gives link
by link, `get_absolute_path` drops dots lexically, and `Walk` (external) is
what the kernel does with a path, which takes `..` behind a link differently.
A path is put behind the current directory twice: by the kernel (`Rooted`,
external) and by `get_absolute_path` (`Joined`), which differ in `/`, where the
latter makes two slashes.
Options are numbers of `IntWidth` bits as `strtoul()` stored in an int makes
them. `listed`, `shown` and `lost` are history, `lost` being the devices
unplugged with no reference left. `LsusbAssumption` says of the constants that
numbers of devices are bytes and words and that an option is what `getopt()`
leaves of it (`Options`).

### Usbreset

`ReadName` takes an entry of the directory, `ReadAttribute` reads one attribute
of whatever device is at that port then, `UseEntry` is what `list_devices()`
or `find_device()` does with a complete entry, `Multiple` its early
return, `reset_device` the reset of what has the matched number at that time.
`steady` are the devices plugged in since the scan began.

### UhdDiscovery

One action per option (`Option`); operands are refused only behind the last
option, as `getopt_long()` leaves them (`Operands`); `GetDeviceList`, `SkipDevice`, `OpenDevice`,
`DeviceFails`, `AllOpen`, `UndoOpen` of `uhd_dev_list_open()`; `GetConfig`,
`SkipInterface`, `AddInterface`, `FreeConfig`, `UndoList` of
`uhd_iface_list_new()`; the filter interface by interface, `Run`, `Cleanup` of
`run()`. `stage` says which of them is under way; `undo_open` and `undo_list`
are the ways back. `opened`, `live`, `configHeld` and `context` are what the
process holds, `devList` and `ifaceList` what its lists remember of it: the two
are compared.

### Utilities

Lsusb extended, Usbreset and UhdDiscovery instantiated over the same `plugged`:
one of the three runs, and devices that come and go do so for all. Sysfs has of
a device (`SysfsAttr`) what libusb has.

### Definitions named Bug_

A definition `Bug_X` in front of a definition states a plausible mistake in the
code that definition models. No specification uses one. Replacing the definition by it makes TLC find the
property violated which `PROJECT.json` pairs with it: evidence that the
property can fail.


## 4. The runs

| run | question | result |
|---|---|---|
| `stream_safety` | two interfaces, every call may fail, signals anywhere, finite or infinite timeout: do flags, transfers and freed memory agree; does a pause silence; is the inductive invariant true? | holds, 188 thousand states |
| `stream_stops` | same, but cancellation is never refused: does a signal, or silence, end the stream? | holds |
| `stream_hang` | the same question of the signal where a finished transfer cannot be cancelled | violated: finding 1 |
| `stream_quiet` | does one quiet interface end the dumping, as the manual says? | violated: finding 2 |
| `dump_loan` | the whole program, two interfaces, one contested, every failure of `main()` and `run()`, three of the stream's, SIGINT and SIGTERM anywhere: does it keep DriverLoan's promise and exit as it should? And is `MainInv`, the proofs' invariant, one? | holds, 2.2 million states |
| `dump_ends` | the whole program, one interface, all signals and failures: do SIGINT and SIGTERM end it? | holds |
| `dump_crash` | `libusb_alloc_transfer()` fails | violated: finding 3 |
| `tree_hotplug` | two buses, two devices, one of them a hub with a device, four interfaces, the hub's side comes and goes, one device may be lost to a failing `malloc()`: is the printed tree what was read, complete, in order, and does the program end? | holds, 517 thousand states |
| `tree_configs` | one device changes its configuration while the directory is read | violated: finding 4 |

| `lsusb_dump` | every table and every class dump with descriptors as they should be, a byte short and a byte long, filled with small values at 32 lengths, bad length bytes, several walks, report descriptors answered short, BOS and hub of every kind: do the dumps stay within the bytes, are well-formed descriptors shown so, is all released, does it end? | holds, 74 thousand states |
| `desc_lengths` | does the search for a count return the field's value? | violated: finding 5 |
| `utilities` | lsusb (31 command lines), usbreset (6 arguments) or the discovery of usbhid-dump (13), four devices, two of them hot-plugged at one address and port: does each find what is asked for, and only that, give back what it holds, and end? | holds, 165 thousand states |

Properties, in the order in which a maintainer would ask for them:

* `FlagTracksFlight` - a set `iface->submitted` is never stale, and a clear one
  with the transfer in flight only follows a refused cancellation (the XXX
  comment at `usbhid-dump.c:425-430`).
* `FreeOnlyFinished`, `NoLeakUnlessDrainFailed` - exactly what is not in flight
  is freed.
* `NoResubmitWhileDraining` - the drain shrinks what is in flight.
* `NeverPollsForNothing` - `libusb_handle_events()` is only called with
  something to wait for.
* `SuccessMeansSignal`, `AtMostOneDumpAfterPause`.
* `SignalStops`, `QuietStops` - liveness.
* `HandedBack`, `FlightOnlyWhileClaimed`, `NoSignalLost`,
  `ZeroMeansDescriptors`, `SignalEndsProgram`, `KeepsLoanPromise` - of the
  whole program; `MainInv` is the invariant they follow from and holds its types.
* `PrintsWhatHangsTogether`, `LinesAscend`, `StableIsPrinted`, `Finishes` - of
  `lsusb -t`: the tree is exactly what was read together with all above it,
  whatever the order; it ascends by bus, port and interface; nothing that was
  there all the time is missing; every sort ends.

* `ReadsWithinDescriptor`, `WholeIffWellFormed`, `ReportWithinAnswer` - of the
  dumps of `lsusb -v`: nothing beyond the bytes that are there is looked at, and
  a descriptor is shown without complaint if and only if it is well-formed.
* `OtgNotLost` - what the walks leave out as handled separately is.
* `NothingHeld`, `EveryStepUsesSomething` - of `dumpdev()`: claim, buffers and
  handle are given back on every way out, and a measure decreases with each
  step, so it ends whatever the device answers.
* `ShowsTheSelectionInOrder`, `FindsTheNode`, `StatusTells`, `HeldWhileUsed` -
  of lsusb: the selection, compared with the last `-s` and `-d` that give a
  number; the device of a path, compared with the kernel's idea of it; the
  status; the lives of list, handle, context and database.
* `NoBystanderReset`, `ResetsTheOneAskedFor`, `AmbiguityStops` - of usbreset.
* `AllOrNothing` - of discovery: all interfaces asked for, each once and open,
  or none; at the end nothing open, held or allocated.
* `AllEnd` - each program ends whatever is plugged in or unplugged meanwhile.

Bounds. The only one in the models of the stream and the main program is the
size of the instance. Two interfaces
are enough for every pairing that matters here: one transfer cancelled while
the other completes, one submitted when the other fails, one detached when the
other is refused. Interfaces only interact through "is any flag set", so a
third adds permutations. `dump_ends` takes one interface because liveness of
the composition with all four signals is too large with two; the stream's own
liveness is checked with two in `stream_stops`. `dump_loan` takes three of the
stream's faults, one for each way it ends (between two submissions, in an event
loop, with a transfer still in flight). Reports are not told apart: what is
in them changes nothing.

`tree_hotplug` has the smallest tree in which an entry can be read before or
after its parent, its sibling and its bus, and its parent be missing.

`lsusb_dump` has one device per kind of descriptor, and a device mostly has one
descriptor at a time: dumps do not influence each other except through the
buffer that is left, which the walks of several descriptors and bad lengths
exercise. Counts and sizes in a table are 0 to 2, extensions of every type and
an unknown one; lengths reach 54 where a dump has its last threshold there.
`MaxReport` (4) stands for the 8192 bytes of `dbuf`: lengths on both sides of it
and one of 256 occur. `MaxTries` is 3 as against 4 in the code.

`utilities`: `MaxLinks` (3) is for the 40 links followed, with a loop and a
chain of two; `IntWidth` is 10 bits, so that 1023 wraps to -1 like 4294967295.
Two devices stay; the other two share an address and a port, so that one can
take the place of the other between any two steps.

Deadlock is checked in every run but `utilities`, where the program that has
ended leaves nothing to do once all hot-plugged devices have come and gone;
`Done` and `Halted` are the self-loops of the terminated program.

Fairness. Weak fairness of the thread: it is an ordinary process. It never
blocks forever in `Poll`, because `libusb_handle_events()` returns after at
most 60 seconds without events, and because a signal interrupts it (the
handlers are installed without `SA_RESTART`). Weak fairness of `TimeOut(t)`
(only possible with a finite timeout) and of `CancelDone(t)`: the kernel keeps
time and returns the URBs it was asked to discard. No fairness for the user, the
signals, the devices' reports, failures or other programs. Since `Poll` may
return empty-handed again and again, nothing is concluded from a device that
has something to say.

lsusb, usbreset and discovery are sequential programs whose calls return
(control requests have a timeout, `CTRL_TIMEOUT`): weak fairness of their steps,
none of the devices. That report descriptors are not asked for for ever, and a
scan of the directory ends, is then a property and not an assumption.


## 5. Findings

1. *A signal may not end the stream* (`usbhid-dump.c:417-459`, run
   `stream_hang`). After SIGINT the cleanup cancels all transfers. One of them
   has just been completed by the kernel; libusb answers NOT_FOUND, and the code
   clears the flag and goes on. While it waits for the cancellation of the other,
   libusb reports the completed one; its callback does not know of the
   cleanup, dumps it, submits it again and sets the flag. The second loop now
   waits for a transfer nobody will cancel, and does not look at
   `exit_signum`. With an infinite timeout and an idle device, forever; further signals change nothing.
2. *One quiet interface does not end the dumping* (run `stream_quiet`). The
   manual and `usbhid-dump/README.md` promise that not touching the keyboard
   for the timeout gives it back. With a second interface in use, the
   timed-out one is no longer polled, and stays detached.
3. *Out of memory leaves interfaces detached* (`usbhid-dump.c:472`, run
   `dump_crash`). A NULL slot is dereferenced in the cleanup, before `run()` has
   attached anything back.

4. *`lsusb -t` may not end* (`lsusb-t.c:605-636`, run `tree_configs`).
   Interfaces of two configurations of one device can be read when the device
   changes its configuration meanwhile; sorted by configuration and by number in
   one step, they are swapped back and forth.
5. *Counts are read from a wrong byte* (`desc-dump.c:157`, run `desc_lengths`).
   The search for the field that holds a count adds one entry for each array it
   passes. In a mixer unit `bNrChannels` stands behind `baSourceID`, in a UAC1
   extension unit `bControlSize` behind it: with any number of inputs but one
   the arrays behind get a wrong length, and a correct descriptor is said to
   have junk at its end, or to be too short. `WholeIffWellFormed` is
   therefore about the tables whose counts stand at fixed offsets
   (`FixedPrefix`).

The passing runs do not hide them: `refused` in the safety properties is the
exception for the first, `stream_stops` leaves out the refusals, and
`dump_loan` leaves out failing allocations of transfers, in `tree_hotplug` a
device has one configuration, and `NumbersFit`, `Plain` and the first disjunct of
`AmbiguityStops` name what they leave out.
`dump_ends` includes everything with a single interface, where the first
cannot happen: there is no other transfer whose cancellation would be awaited.


## 6. The proofs

The first part of `UsbhidDumpProofs` is about the stream by itself. It proves,
for every `N` and `Faults` that satisfy the two named
assumptions of UhdStream and nothing else:

| theorem | says |
|---|---|
| `StreamInvariant` | `Spec => []StreamInv` |
| `TypeCorrect`, `FlagsTrackFlights`, `FreesOnlyFinished`, `PollsForSomething`, `FreesEverything`, `SucceedsOnlyBySignal`, `PauseBoundsDumps` | the safety properties of `stream_safety` |
| `DrainsWithoutResubmission` | its action property |

The argument. None of the safety properties is inductive alone: that a set flag
means a transfer in flight depends on which slots are filled in at which
control point, on what the local `submitted` remembers of the flags, and on a
callback only running for a transfer that has left libusb. `StreamInv` is the
conjunction of those facts:

* `PhaseInv` - which control points belong to which event loop;
* `SlotInv` - how far the slots are built at each point of the setup;
* `SubmittedInv` - what `submitted` says of the flags, point by point; in the
  cancelling loop, of the flags of the slots already passed;
* `DispatchInv` - callbacks run one at a time, for finished transfers;
* `DrainInv` - after the cancellations, what may still complete was refused;
* `FreeInv`, `ResultInv`, `PauseInv` - what is freed so far, what a success
  means, why a second report cannot follow a pause;
* and the properties `FlagTracksFlight` and `FreeOnlyFinished` themselves.

TLC checks `StreamInv` in `stream_safety`. The proof has one lemma per action
(`CallKeepsInv`, ..., `ResumeKeepsInv`), whose steps are the conjuncts, those
the action disturbs first. The theorems combine the lemmas with PTL.

The second part does the same for the whole program, on top of it. Every step
of the program is a step of the stream or leaves it alone (`ContainsStream`:
`MainSpec => Spec`), so `StreamInv` and the theorems above hold inside it, and
what is left to prove is what lies around the stream:

| theorem | says |
|---|---|
| `MainInvariant`, `MainTypeCorrect` | `MainSpec => []MainInv`, and the types |
| `FliesOnlyWhileClaimed`, `LosesNoSignal`, `ZeroOnlyForDescriptors` | safety properties of `dump_loan` |
| `HandsBack` | `HandedBack` |
| `KeepsPromise` | `MainSpec => KeepsLoanPromise`: the program implements DriverLoan |

`MainInv` adds to `StreamInv`:

* `PlaceInv` - which loops are under way, and that the stream only runs where
  `run()` calls it;
* `HandlerInv` - which signals are caught at each point: none of the four kills
  the program between the claim of an interface and its return;
* `SignalInv`, `StatusInv` - a signal that came is remembered until it is
  raised again; a status of 0 without one is due to descriptors;
* `HolderInv`, `OwedInv` - which interfaces are ours and which are still to be
  given back, loop by loop, up to the index of the loop;
* `MemoryInv` - without a failing `libusb_alloc_transfer()` no slot is empty
  after the setup.

The last two theorems assume that transfers can be allocated (`"transfer" \notin
Faults`): without it they are false, which is the run `dump_crash`. `KeepsPromise`
maps `holder` of the model to that of DriverLoan, `detached` to `owed` and the
terminal control points to `ended`; every step of `main()` and `run()` is a step
of the loan or a stutter.

`UsbresetProofs` is about any set of devices of which any may come and go:

| theorem | says |
|---|---|
| `UsbresetInvariant` | the inductive invariant |
| `SparesBystanders`, `StopsIfAmbiguous` | `NoBystanderReset`, `AmbiguityStops` |
| `ResetsOnlyTheOneAskedFor` | `ResetsTheOneAskedFor`: if nothing moves, the one device that matches is reset, and the status says so |

The difficulty is that the attributes of one entry may be read from two devices
that were behind the same port one after the other. `EntryInv` says what is
still known of an entry: all that was read of a port whose device was there all
the time is that device's; and a port stays on one bus, so an entry with both
numbers of such a device is of its port. `MatchInv` carries this from the entry
to the match and to the device that is opened by number later, `HitInv` says
which of the devices that were there all the time have been counted; `QuietInv`
counts exactly what matches as long as nothing moves. The assumption `SoundBus`
is what the kernel guarantees of sysfs: no number is 0, devices behind one port
share the bus number. TLC evaluates it for the instance of `utilities`
(`BusAssumption`).

`UhdDiscoveryProofs` proves `DiscoveryIsSound` and `DiscoveryAllOrNothing`, for
any devices, interfaces and options. Discovery makes lists of lists: devices of
libusb's list, interfaces of the devices, those of them that are asked for. The
invariant says of each list that it is the selection of what has been gone
through of the one before, that interfaces stand one to one for the places of
the configurations they come from, and that what is open or allocated is what
the lists have of it, in the ways back as well.

`UtilitiesProofs` carries these theorems, and those about lsusb below, over to
Utilities, where the programs run beside each other on one set of hot-plugged
devices (`UtilitiesNoBystanderReset`, `UtilitiesResetsTheOneAskedFor`,
`UtilitiesAmbiguityStops`, `UtilitiesAllOrNothing`,
`UtilitiesShowsTheSelectionInOrder`, `UtilitiesStatusTells`,
`UtilitiesHeldWhileUsed`, `UtilitiesFindsTheNode`, `UtilitiesTyped`): every step of
Utilities is a step of each program, or of the bus it sees, or leaves it alone, so the invariants hold
there too.

`ClassDumpProofs` and `LsusbDumpProofs` are about `lsusb -v`, for devices,
configurations, walks, descriptors and answers of any number and length, with
any bytes:

| theorem | says |
|---|---|
| `DescDumpWithin` | `desc_dump()` ends within the bytes it is given, whatever sizes and counts they state |
| `DescDumpShowsAll` | `desc_dump()`, by a table whose counts stand at fixed offsets, shows all bytes without complaint exactly if the descriptor is well-formed |
| `DumpWholeIffWellFormed` | the same of every descriptor `dumpdev()` comes to: shown whole exactly if the fields fill it, at the offsets and of the lengths it states |
| `Dumping`, `DumpTypeOK` | `Spec => []DumpInv`, and the types |
| `DumpReadsWithinDescriptor` | no dump looks beyond its descriptor, nor beyond what was read; the one exception is that of `HeaderWithoutControls` |
| `DumpReportWithinAnswer` | the same of report descriptors, and that all of an answer is shown |
| `DumpOtgNotLost` | what the walks leave out as an OTG descriptor `do_otg()` has found |
| `DumpNothingHeld` | what is claimed or held is so exactly while it is used |
| `DumpEveryStepUsesSomething`, `DumpMeasuresInNumbers` | each step makes the measure smaller, and its eight entries are natural numbers in every reachable state: `dumpdev()` returns |

That a dump stays within its bytes is about operators, not steps. The model
computes offsets by recursive functions, over the entries of a table, the fields
of a table or the offsets of a buffer. Such a definition is a CHOOSE; that there
is a function to choose, and what holds of it, is shown without induction
theorems (see below), by the least number for which it would not hold: `Upwards`,
`Downwards` and `ByRank` of ClassDumpProofs. The rank of a field of a table is
its place: `SoundTable` is why what a field's size refers to has a lower one.
Then, dump by dump: when all the length checks hold, `reads` is within the
length (`StaysWithin`), and a check that fails has looked at what the one before
it required (`CheckedWithin`).

That a dump is whole exactly if the descriptor is well-formed compares two
recursive definitions that share nothing but the table: the offsets the code adds
up, and those the descriptor states (`TrueOffsets`). The argument of
`DescDumpShowsAll`, for a table with `FixedPrefix`:

* before a size, a count or a type all entries have a fixed size, so that the search
  of `get_value_from_field()` comes to it where it lies (`SearchedIs`,
  `TrueTakenIs`): both sides use the same numbers, and the bytes each entry takes
  are the same but for those of the inferred array;
* both sides are then sums of these numbers (`IsSum`); that of the descriptor with n
  entries inferred is n times the size of an entry more (`TotalsAre`). The
  entries the code infers are the room that is left, divided by that size. So some
  n fills the descriptor exactly if the code's does (`QuotientIs`, `RoomDecides`);
* the dump comes to these sums one after the other as long as they are within
  the bytes, and complains at the first that is not (`Reached`, `DumpFieldIs`,
  `EntriesShown`). Sums only grow, so it ends at the last byte, without
  complaint, exactly if the whole sum is the length (`PlainDumpShowsAll`);
* an extension is the same question of the rest of the bytes and of the table
  their type selects (`DumpExtensionIs`), which is why `SoundTables` says of
  those tables what `FixedPrefix` says of the first.

`DumpWholeIffWellFormed` adds that each dump `dumpdev()` chooses goes by a table
that `TablesAssumption` is about, or by none (`ChosenIs`, `TabledAsDescribed`).
Without `FixedPrefix` it is false: finding 5.

`DumpInv` is, part by part:

* `Typed` - the types, of the walks as well;
* `DeviceInv` - which device and configuration is dumped at which point;
* `WalksInv` - what is walked is a configuration, or the BOS;
* `HeldInv`, `ReportsInv` - what is held, claimed, fetched, at which point;
* `LastInv` - the descriptor dumped last has the length it states, at least a
  header, and lay within what was there;
* `OtgInv` - if an OTG descriptor is left in what is to be walked of
  configuration 0, or was the last one, `do_otg()` has found it. This needs
  that `find_otg()` and the walks skip alike (`FoundFirst`, `FoundBehind`).

TLC checks the properties in `lsusb_dump`, and has checked `DumpInv` on that
instance. The assumptions are the three named ones: `BoundsAssumption`,
`AnswersAssumption` and `TablesAssumption`.

`LsusbProofs` is about lsusb as a whole, for any devices, addresses, command
lines and widths of an int, while devices come and go:

| theorem | says |
|---|---|
| `Listed` | `LsusbSpec => []LsusbInv`, which holds `DumpInv`: `dumpdev()` is called as its proofs assume |
| `LsusbShowsTheSelectionInOrder` | unless `-D` names a device, what is shown is what the options, read as a whole, ask for of the list, in the order of the addresses |
| `LsusbFindsTheNode` | `-D` shows exactly the device whose node the path leads the kernel to, along links of any shape, wherever dots mean the same to both and the path is not one that begins with two slashes (section 8) |
| `LsusbStatusTells` | the status says whether a device was shown |
| `LsusbHeldWhileUsed` | what lsusb uses is referred to by something, and all is given back |

Its parts, on top of `DumpInv`:

* `ParsedInv` - the options left to parse are the last ones of the command line,
  and each of `bus`, `devnum`, `vendor`, `product` is what the last option
  among those parsed that gives one gave, cut to an int; or -1 when none did.
  Only where the numbers fit is that what the options ask for
  (`SelectedIsWanted`), and a -1 from the command line is no number given;
* `PlaceInv`, `StatusInv` - what is open and what the status is, point by point;
* `UseInv` - the device in `dumpdev()` is one of the list or, with `-D`, plugged
  in or lost since;
* `ListInv`, `ShownInv` - the list is sorted, with no device twice, and what is
  shown is the selection of what has been gone through of it;
* `NodeInv` - what is shown for `-D` is what `get_usb_device()` finds in the list.

`ListInv` starts with what `sort_device_list()` returns. That is a loop
whose end is not in its text. A loop from x to `next[x]` until it is in T
defines a function whether or not it ends (`LoopExists`: the sets of its results
do not change from one step to the next, so one can be chosen); what holds of
its result is proved by a number that gets smaller (`ByMeasure`). Here it has
three digits: the number of pairs in the wrong order, which an exchange of two
neighbours makes smaller by exactly theirs (`InvertedLess`), whether another
pass is due, and how far the pass has come. When it ends, the last pass has
exchanged nothing, so neighbours are in order and, addresses being different,
all are (`InOrderIs`). That a list starts with different addresses is `Distinct`:
the kernel gives no address to two devices at a time. `PowersAre` is why `AsInt`
stays within an int of any width.

`LsusbFindsTheNode` compares two ways to resolve a path. The kernel looks up one
name after the other and puts what a link holds in front of the names that are
left; `usbmisc.c` takes the whole path, asks for the link at its end, writes
another whole path and at last cuts out the dots. Neither recursion is down a
finite structure: a lookup gets smaller in the links it may still follow or,
between two links, in the names left (`ByTwoMeasures`), so every lookup ends
(`LookupsEnd`), and names that come behind are looked up from where those in
front end. From this, a path leads to its last name in the directory its front
leads to, or on from there if that is a link (`LeadsIs`); so taking out the link
at the end leaves where a path leads, with one link less to follow
(`FollowedLeads`). A path that leads anywhere therefore has a chain of at most
`MaxLinks` links, at whose end is the same file (`ChainIs`), and without links
in its front, or two slashes, the text of the path is its place
(`PlainPathLeads`). The current directory may be any, `/` included: `Plain`
asks of the path at the end of the chain that its text with the dots cut out
be its place, which two slashes prevent and a `..` behind them restores. `NodeInv`
carries that to the end of lsusb.

TLC has checked `LsusbInv` on the instance of `utilities`. The assumptions are
`LsusbAssumption`, `PathsAssumption` and those of the dump. `PathsAssumption` says
that links hold paths that are not empty and that no two devices with different
addresses have one node.

`LsusbTreeProofs` is about `lsusb -t`, for any buses, devices and interfaces that
may come and go while the directory is read, in any order, with any of them lost
to a failing `malloc()`:

| theorem | says |
|---|---|
| `TreeIsBuilt`, `TreeTypeOK` | `Spec => []TreeInv`, and the types: nothing is on a list twice |
| `TreePrintsWhatHangsTogether` | the tree is exactly the buses and the devices all of whose hubs were read, each with exactly its interfaces that were read |
| `TreeLinesAscend` | the lines ascend by bus, port and interface |
| `TreeStableIsPrinted` | what was there from beginning to end is in the tree |

The assumptions are the four named ones, and say what names there can be.
Connecting passes along the lists read, sorting and printing go down the tree,
and the parts of `TreeInv` say what has been passed:

* `DirInv` - nothing is on a list twice, and what was there all the time is on
  one or still unread;
* `QueueInv`, `ChildrenInv`, `IfsInv` - the queue is the rest of the list of
  devices; the children of a node are the devices below it that have been passed,
  its interfaces those of it that have been passed;
* `SortInv` - what is in the tree has been entered or hangs below something on
  the queue; what was entered and is off the queue has its children and
  interfaces in order; within a pass that has swapped nothing, the interfaces
  compared so far are;
* `PrintInv` - the tree is in order; all of it is printed or hangs below something
  on the queue, and nothing else is; each node on the queue comes, with all that is
  below it, before the next (`LeftOf`), and after what was printed last.

No induction down the tree is needed to show that everything is reached: a node
of the tree that is not done hangs below some node on the queue, and a step that
takes that one off puts the next one down the path in its stead (`OnBelow`). When the
queue is empty, all is done. `Sorted` is a CHOOSE; a sequence in order exists
for every finite set of nodes (`SomeOrder`), and as no two siblings have one
port, it ascends strictly (`SamePort`). The last two conjuncts of `TreeInv` are
`TypeOK` and `LinesAscend` themselves; TLC has checked `TreeInv` on the instances of
`tree_hotplug` and `tree_configs`.

What is not proved is that the sort of the interfaces ends: of
two configurations it does not (finding 4), and `LinesAscend` holds there, too,
because the program never gets to print them.

Only model-checked:

* liveness (TLAPS proves no ENABLED, so nothing under fairness). Of `dumpdev()`
  and the sort the part that is safety is proved: every step uses something up.

Every safety property of the passing runs is a theorem.

## 7. Not modelled

* What is printed: wording, names of bits and values, rendering of numbers, hex
  dumps, and therefore `sysfs.c`, the lookups of `names.c`, string descriptors
  (`get_dev_string()`), the URL of a WebUSB or BOS capability and the request
  for it.
* The contents of reports and descriptors in usbhid-dump.
* `--help` and `--version` of usbreset and usbhid-dump beyond the exit status;
  `-e` and the stream's options are constants of UhdStream and UsbhidDump.
* The extended port status of USB 3.1 hubs: one more control request whose
  failure ends the same loop.
* In Usbreset, failing reads of a device that is plugged in (no file descriptor
  left, an interrupted `read()`): attributes are missing of devices that are
  gone only.
* `rd_len` of UhdDiscovery is kept with each interface, but what is dumped with
  it is not modelled, so no property is about it.
* Scripts (`usb-devices`, `lsusb.py`): formatting of sysfs attributes.
* Vendored list macros, generated tables, tests and the build.


## 8. Notes on the code

Met while modelling; the models do what the code does, no document in the
repository promises otherwise unless quoted, and the properties exempt what
is marked *(exempted)*.

lsusb, dumps

* A VideoStreaming header with `bControlSize` 0 has the first control byte of
  each format shown all the same: one byte past the descriptor if nothing
  follows *(exempted: `HeaderWithoutControls`)*. With larger ones only the
  first byte of each is shown.
* An AC-3 format calls junk what follows byte 8, though it shows ten. The unknown
  FORMAT_SPECIFIC is shown raw from byte 4; a stream-based format shows the low
  byte only of `dwPacketLength`.
* "Fields per frame" means opposite things for uncompressed and MJPEG formats.
* A processing unit of a type without specific bytes is said to be
  insufficient. UAC3 formats show nothing. The sample rate converter is shown
  by the table of the clock multiplier; extended terminals and connectors have
  no case, and two tables are never used.
* Class-specific descriptors of other classes at an endpoint are hidden, where
  a comment says "avoid re-ordering or hiding descriptors for display". An OTG
  descriptor of 5 bytes is hidden as "handled separately", but `find_otg()`
  only takes those of 3; so is one of a configuration other than the first.
* A report descriptor whose last try fails is dropped, with what an earlier
  try has brought. A short second read of the BOS is shown padded with zeros.

lsusb, options

* A number of `-s` or `-d` is cut to an int: 4294967295 is -1, which means any
  *(exempted: `NumbersFit`)*, where man/lsusb.8:30 has "Show only devices in
  specified bus and/or devnum".
* `-t` ignores `-s`, `-d` and `-D`. If libusb cannot be initialised the database
  stays open, up to the exit.
* `-D`: a link in the current directory, named without a slash, is taken to lead
  to a path that begins with the first letter of its own name; `..` behind a
  directory that is a link is dropped lexically, unlike the kernel does it
  *(exempted: `Plain`)*. In the directory `/` a relative path does not lead to a
  device: `get_absolute_path()` puts a slash behind what `getcwd()` gives, which
  is one already, so `dev/bus/usb/001/002` becomes `//dev/bus/usb/001/002`, equal
  to the name of no node (`usbmisc.c:91`, 151), where man/lsusb.8:41-43 promises
  the device whose file is given. A `../` in front takes the second slash away
  again, and the device is found. `Joined` models this, `Plain` leaves out the
  paths on which the second slash stays *(exempted)*; the current directory of
  `utilities` is another, that of `LsusbFindsTheNode` any. The device found is
  used after the list it came from is freed; unplugged in between, it is no more there *(exempted
  in `HeldWhileUsed`)*.

usbreset

* An entry that cannot be read completely ends the scan, hiding what follows it
  *(exempted in `AmbiguityStops`)*; the list of usbreset then lacks devices that
  stay connected.
  `SN:` without a serial number matches devices that have none. A product name
  that looks like `BBB/DDD` or `VVVV:PPPP` is taken for a number. It exits with
  0 also if the reset failed.

usbhid-dump

* `-i 255` means any interface. `-i` and `-t` take a number followed by other
  text. A later `-a` or `-m` replaces both numbers of an earlier one, unlike
  `-s` and `-d` of lsusb. An error of `libusb_get_device_list()` other than
  lack of memory counts as no devices.
