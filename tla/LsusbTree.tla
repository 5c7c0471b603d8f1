----------------------------- MODULE LsusbTree -----------------------------
(***************************************************************************)
(* lsusb -t (lsusb-t.c): read the names in /sys/bus/usb/devices, connect    *)
(* what was read into a tree, sort it, print it.  The kernel adds and       *)
(* removes entries while the directory is read, and the order in which they *)
(* are read is whatever the directory yields.                              *)
(*                                                                         *)
(* A node is named by its path: <<1>> is "usb1", <<1, 2>> is "1-2" and      *)
(* <<1, 2, 3>> is "1-2.3".  An interface [of, cfg, num] is the entry        *)
(* "<of>:<cfg>.<num>"; those of root hubs are of <<bus, 0>>, "1-0".         *)
(***************************************************************************)
EXTENDS Naturals, SequencesExt

CONSTANTS
    Nodes,          \* buses and devices this machine may have
    Interfaces,     \* their interfaces
    Volatile,       \* nodes and owners of interfaces that come and go
    NoMemory        \* nodes malloc() may fail for, or for their interfaces

Parent(n) == Front(n)
IsBus(n)  == Len(n) = 1
Buses     == {n \in Nodes : IsBus(n)}
Devices   == Nodes \ Buses
Owner(i)  == IF i.of[2] = 0 THEN <<i.of[1]>> ELSE i.of

ASSUME NodesAssumption ==
    /\ Nodes \subseteq Seq(Nat \ {0})
    /\ \A n \in Nodes : Len(n) > 0 /\ (Len(n) > 1 => Parent(n) \in Nodes)
ASSUME InterfacesAssumption ==
    /\ Interfaces \subseteq [of : Seq(Nat), cfg : Nat, num : Nat]
    /\ \A i \in Interfaces : Len(i.of) > 1 /\ Owner(i) \in Nodes
ASSUME VolatileAssumption == Volatile \subseteq Nodes
ASSUME NoMemoryAssumption == NoMemory \subseteq Nodes

VARIABLES
    present,        \* kernel: nodes in the directory
    presentIfs,     \* kernel: interfaces in the directory
    unread,         \* nodes readdir() has not come past
    unreadIfs,      \* interfaces readdir() has not come past
    stable,         \* history: nodes present since the start and not dropped
    stableIfs,      \* history: the same of interfaces
    pc,             \* control point of lsusb_t()
    usbbuslist,     \* buses read, in order
    usbdevlist,     \* devices read, in order
    interfacelist,  \* interfaces read, in order
    children,       \* first_child and next: children of a node, in order
    ifs,            \* first_interface and next: interfaces of a node, in order
    queue,          \* nodes left to connect, to sort or to print, in order
    entered,        \* nodes below which is being sorted, or has been
    at,             \* position in the list of interfaces
    swapped,        \* local of sort_dev_interfaces()
    printed         \* lines printed

sysfsVars == <<present, presentIfs>>
dirVars   == <<unread, unreadIfs>>
histVars  == <<stable, stableIfs>>
listVars  == <<usbbuslist, usbdevlist, interfacelist>>
treeVars  == <<children, ifs>>
sortVars  == <<queue, entered, at, swapped>>
vars == <<sysfsVars, dirVars, histVars, pc, listVars, treeVars, sortVars,
          printed>>

NoInterface == [of |-> <<>>, cfg |-> 0, num |-> 0]

\* One line of the tree: a bus, a device without interfaces, or an interface.
Line == [node : Nodes, if : Interfaces \cup {NoInterface}]

\* The lists: whatever happens, an entry is on a list at most once.
TypeOK ==
    /\ present \subseteq Nodes /\ presentIfs \subseteq Interfaces
    /\ unread \subseteq Nodes /\ unreadIfs \subseteq Interfaces
    /\ stable \subseteq Nodes /\ stableIfs \subseteq Interfaces
    /\ pc \in {"start", "walk", "connect", "connect_if", "sort", "sort_if",
               "print", "cleanup", "done"}
    /\ usbbuslist \in Seq(Buses) /\ usbdevlist \in Seq(Devices)
    /\ interfacelist \in Seq(Interfaces)
    /\ DOMAIN children = Nodes /\ DOMAIN ifs = Nodes
    /\ \A n \in Nodes : children[n] \in Seq(Devices)
                        /\ IsInjective(children[n])
                        /\ ifs[n] \in Seq(Interfaces)
                        /\ IsInjective(ifs[n])
    /\ queue \in Seq(Nodes) /\ entered \subseteq Nodes
    /\ at \in Nat \ {0}
    /\ swapped \in BOOLEAN
    /\ printed \in Seq(Line)

\* A state the kernel can show before the program starts.
Init ==
    /\ present \in {S \in SUBSET Nodes :
                        /\ Nodes \ Volatile \subseteq S
                        /\ \A n \in S \ Buses : Parent(n) \in S}
    /\ presentIfs \in {S \in SUBSET Interfaces :
                        /\ \A i \in S : Owner(i) \in present
                        /\ \A i, j \in S : i.of = j.of => i.cfg = j.cfg
                        /\ \A i \in Interfaces :
                              Owner(i) \notin Volatile => i \in S}
    /\ unread = Nodes /\ unreadIfs = Interfaces
    /\ stable = present /\ stableIfs = presentIfs
    /\ pc = "start"
    /\ usbbuslist = <<>> /\ usbdevlist = <<>> /\ interfacelist = <<>>
    /\ children = [n \in Nodes |-> <<>>]
    /\ ifs = [n \in Nodes |-> <<>>]
    /\ queue = <<>> /\ entered = {} /\ at = 1 /\ swapped = FALSE
    /\ printed = <<>>

-----------------------------------------------------------------------------
(***************************************************************************)
(* The kernel, while the directory is read.  A device comes after its hub   *)
(* and before its interfaces and goes after them; only the interfaces of    *)
(* one configuration exist at a time.                                      *)
(***************************************************************************)

Plug(n) ==
    /\ n \in Volatile \ present
    /\ ~IsBus(n) => Parent(n) \in present
    /\ present' = present \cup {n}
    /\ UNCHANGED <<presentIfs, histVars>>

Unplug(n) ==
    /\ n \in Volatile \cap present
    /\ \A d \in present \ Buses : Parent(d) # n
    /\ \A i \in presentIfs : Owner(i) # n
    /\ present' = present \ {n}
    /\ stable' = stable \ {n}
    /\ UNCHANGED <<presentIfs, stableIfs>>

AddInterface(i) ==
    /\ i \notin presentIfs
    /\ Owner(i) \in Volatile \cap present
    /\ \A j \in presentIfs : j.of = i.of => j.cfg = i.cfg
    /\ presentIfs' = presentIfs \cup {i}
    /\ UNCHANGED <<present, histVars>>

RemoveInterface(i) ==
    /\ i \in presentIfs
    /\ Owner(i) \in Volatile
    /\ presentIfs' = presentIfs \ {i}
    /\ stableIfs' = stableIfs \ {i}
    /\ UNCHANGED <<present, stable>>

Kernel ==
    /\ pc = "walk"
    /\ \/ \E n \in Nodes : Plug(n) \/ Unplug(n)
       \/ \E i \in Interfaces : AddInterface(i) \/ RemoveInterface(i)
    /\ UNCHANGED <<dirVars, pc, listVars, treeVars, sortVars, printed>>

-----------------------------------------------------------------------------
(***************************************************************************)
(* Reading the directory.                                                  *)
(***************************************************************************)

OpenDir ==
    /\ pc = "start"
    /\ pc' \in {"walk", "done"}
    /\ UNCHANGED <<sysfsVars, dirVars, histVars, listVars, treeVars, sortVars,
                   printed>>

\* inspect_bus_entry() for "usbN" and for "N-...".
Bug_AddKnownParents(n) ==
    IF IsBus(n) THEN usbbuslist' = Append(usbbuslist, n) /\ UNCHANGED usbdevlist
    ELSE /\ usbdevlist' = IF Parent(n) \in Range(usbdevlist \o usbbuslist)
                          THEN Append(usbdevlist, n) ELSE usbdevlist
         /\ UNCHANGED usbbuslist
AddNode(n) ==
    IF IsBus(n) THEN usbbuslist' = Append(usbbuslist, n) /\ UNCHANGED usbdevlist
                ELSE usbdevlist' = Append(usbdevlist, n) /\ UNCHANGED usbbuslist

ReadNode(n) ==
    /\ pc = "walk"
    /\ n \in unread
    /\ unread' = unread \ {n}
    /\ \/ n \in present /\ AddNode(n) /\ UNCHANGED stable
       \/ n \in present \cap NoMemory
          /\ stable' = stable \ {n} /\ UNCHANGED <<usbbuslist, usbdevlist>>
       \/ n \notin present
          /\ UNCHANGED <<stable, usbbuslist, usbdevlist>>
    /\ UNCHANGED <<sysfsVars, unreadIfs, stableIfs, pc, interfacelist, treeVars,
                   sortVars, printed>>

ReadInterface(i) ==
    /\ pc = "walk"
    /\ i \in unreadIfs
    /\ unreadIfs' = unreadIfs \ {i}
    /\ \/ /\ i \in presentIfs
          /\ interfacelist' = Append(interfacelist, i) /\ UNCHANGED stableIfs
       \/ /\ i \in presentIfs /\ Owner(i) \in NoMemory
          /\ stableIfs' = stableIfs \ {i} /\ UNCHANGED interfacelist
       \/ /\ i \notin presentIfs
          /\ UNCHANGED <<stableIfs, interfacelist>>
    /\ UNCHANGED <<sysfsVars, unread, stable, pc, usbbuslist, usbdevlist,
                   treeVars, sortVars, printed>>

EndOfDir ==
    /\ pc = "walk"
    /\ unread = {} /\ unreadIfs = {}
    /\ pc' = "connect"
    /\ queue' = usbdevlist
    /\ UNCHANGED <<sysfsVars, dirVars, histVars, listVars, treeVars, entered, at,
                   swapped, printed>>

-----------------------------------------------------------------------------
(***************************************************************************)
(* connect_devices(): each device, in the order read, is put under its bus  *)
(* or its hub, and takes its interfaces.                                   *)
(***************************************************************************)

\* The bus of assign_dev_to_bus(), or the hub of assign_dev_to_parent(): a
\* device of the same bus whose name is that of d without its last part.
Bug_ConnectedParents(d) ==
    IF Len(d) = 2 THEN Range(usbbuslist) \cap {Parent(d)}
    ELSE (Range(usbdevlist) \ Range(queue)) \cap {Parent(d)}
ParentsOf(d) ==
    Range(IF Len(d) = 2 THEN usbbuslist ELSE usbdevlist) \cap {Parent(d)}

ConnectDevice ==
    /\ pc = "connect"
    /\ queue # <<>>
    /\ LET d == Head(queue) IN
       children' = [n \in Nodes |-> IF n \in ParentsOf(d)
                                   THEN Append(children[n], d)
                                   ELSE children[n]]
    /\ at' = 1 /\ pc' = "connect_if"
    /\ UNCHANGED <<sysfsVars, dirVars, histVars, listVars, ifs, queue, entered,
                   swapped, printed>>

\* assign_interface_to_parent(): an interface of d, or on the way one of a root
\* hub, which comes up with every device and is appended once.
Bug_AppendAgain(i, d) == Owner(i) = d \/ Owner(i) \in Range(usbbuslist)
Appended(i, d) ==
    \/ i.of = d
    \/ /\ i.of[2] = 0 /\ Owner(i) \in Range(usbbuslist)
       /\ i \notin Range(ifs[Owner(i)])

ConnectInterface ==
    /\ pc = "connect_if"
    /\ at <= Len(interfacelist)
    /\ LET i == interfacelist[at] IN
       ifs' = IF Appended(i, Head(queue))
              THEN [ifs EXCEPT ![Owner(i)] = Append(@, i)] ELSE ifs
    /\ at' = at + 1
    /\ UNCHANGED <<sysfsVars, dirVars, histVars, pc, listVars, children, queue,
                   entered, swapped, printed>>

NextDevice ==
    /\ pc = "connect_if"
    /\ at > Len(interfacelist)
    /\ queue' = Tail(queue)
    /\ at' = 1 /\ pc' = "connect"
    /\ UNCHANGED <<sysfsVars, dirVars, histVars, listVars, treeVars, entered,
                   swapped, printed>>

-----------------------------------------------------------------------------
(***************************************************************************)
(* Sorting and printing both go down the tree from each bus on the list:   *)
(* the queue stands for the calls under way.                               *)
(***************************************************************************)

Connected ==
    /\ pc = "connect"
    /\ queue = <<>>
    /\ queue' = usbbuslist
    /\ pc' = "sort"
    /\ UNCHANGED <<sysfsVars, dirVars, histVars, listVars, treeVars, entered, at,
                   swapped, printed>>

\* sort_dev_siblings() first sorts below each child of a node ...
SortBelow ==
    /\ pc = "sort"
    /\ queue # <<>> /\ Head(queue) \notin entered
    /\ queue' = children[Head(queue)] \o queue
    /\ entered' = entered \cup {Head(queue)}
    /\ UNCHANGED <<sysfsVars, dirVars, histVars, pc, listVars, treeVars, at,
                   swapped, printed>>

\* p->portnum > p->next->portnum swaps the two, and busnum in sort_busses().
Bug_Descending(a, b) == Last(a) < Last(b)
ToBeSwapped(a, b) == Last(a) > Last(b)

Sorted(list) ==
    CHOOSE l \in SetToSeqs(Range(list)) :
        \A j, k \in 1..Len(l) : j < k => ~ToBeSwapped(l[j], l[k])

\* ... and then its children; a device has interfaces to be sorted too.
SortChildren ==
    /\ pc = "sort"
    /\ queue # <<>> /\ Head(queue) \in entered
    /\ children' = [children EXCEPT ![Head(queue)] = Sorted(@)]
    /\ at' = 1 /\ swapped' = FALSE
    /\ IF IsBus(Head(queue)) \/ ifs[Head(queue)] = <<>>
       THEN queue' = Tail(queue) /\ UNCHANGED pc
       ELSE pc' = "sort_if" /\ UNCHANGED queue
    /\ UNCHANGED <<sysfsVars, dirVars, histVars, listVars, ifs, entered, printed>>

\* One comparison of sort_dev_interfaces(): by configuration, then the pair
\* that results by number.
Bug_SwapDifferent(a, b) == a.num # b.num
OutOfOrder(a, b) == a.num > b.num

CompareInterfaces ==
    /\ pc = "sort_if"
    /\ LET d      == Head(queue)
           list   == ifs[d]
           a      == list[at]
           b      == list[at + 1]
           byCfg  == a.cfg > b.cfg
           byNum  == IF byCfg THEN OutOfOrder(b, a) ELSE OutOfOrder(a, b)
       IN /\ at < Len(list)
          /\ ifs' = IF byCfg # byNum
                    THEN [ifs EXCEPT ![d] = [@ EXCEPT ![at]     = b,
                                                      ![at + 1] = a]]
                    ELSE ifs
          /\ swapped' = (swapped \/ byCfg \/ byNum)
    /\ at' = at + 1
    /\ UNCHANGED <<sysfsVars, dirVars, histVars, pc, listVars, children, queue,
                   entered, printed>>

\* The end of a pass: another one if anything was swapped.
EndOfPass ==
    /\ pc = "sort_if"
    /\ at = Len(ifs[Head(queue)])
    /\ at' = 1
    /\ swapped' = FALSE
    /\ IF swapped THEN UNCHANGED <<pc, queue>>
                  ELSE pc' = "sort" /\ queue' = Tail(queue)
    /\ UNCHANGED <<sysfsVars, dirVars, histVars, listVars, treeVars, entered,
                   printed>>

SortBuses ==
    /\ pc = "sort"
    /\ queue = <<>>
    /\ usbbuslist' = Sorted(usbbuslist) /\ queue' = usbbuslist'
    /\ pc' = "print"
    /\ UNCHANGED <<sysfsVars, dirVars, histVars, usbdevlist, interfacelist,
                   treeVars, entered, at, swapped, printed>>

\* print_usbbusnode(), or print_tree_dev_interface(): a line for each
\* interface, or one for none.
LinesOf(n) ==
    IF IsBus(n) \/ ifs[n] = <<>> THEN <<[node |-> n, if |-> NoInterface]>>
    ELSE [k \in 1..Len(ifs[n]) |-> [node |-> n, if |-> ifs[n][k]]]

\* print_tree(), print_tree_dev_children(): a node, what is below it, the rest.
PrintTree ==
    /\ pc = "print"
    /\ queue # <<>>
    /\ printed' = printed \o LinesOf(Head(queue))
    /\ queue' = children[Head(queue)] \o Tail(queue)
    /\ UNCHANGED <<sysfsVars, dirVars, histVars, pc, listVars, treeVars, entered,
                   at, swapped>>

TreePrinted ==
    /\ pc = "print"
    /\ queue = <<>>
    /\ pc' = "cleanup"
    /\ UNCHANGED <<sysfsVars, dirVars, histVars, listVars, treeVars, sortVars,
                   printed>>

\* cleanup() frees every entry by the lists it was put on when read.
Cleanup ==
    /\ pc = "cleanup"
    /\ usbbuslist' = <<>> /\ usbdevlist' = <<>> /\ interfacelist' = <<>>
    /\ children' = [n \in Nodes |-> <<>>] /\ ifs' = [n \in Nodes |-> <<>>]
    /\ pc' = "done"
    /\ UNCHANGED <<sysfsVars, dirVars, histVars, sortVars, printed>>

Done == pc = "done" /\ UNCHANGED vars

Program ==
    \/ OpenDir
    \/ \E n \in Nodes : ReadNode(n)
    \/ \E i \in Interfaces : ReadInterface(i)
    \/ EndOfDir \/ ConnectDevice \/ ConnectInterface \/ NextDevice
    \/ Connected \/ SortBelow \/ SortChildren
    \/ CompareInterfaces \/ EndOfPass \/ SortBuses
    \/ PrintTree \/ TreePrinted \/ Cleanup

Next == Program \/ Kernel \/ Done

Spec == Init /\ [][Next]_vars

\* Reading the directory takes finitely many steps of the program itself.
FairSpec == Spec /\ WF_vars(Program)

-----------------------------------------------------------------------------
(***************************************************************************)
(* Properties.                                                             *)
(***************************************************************************)

Printed == Range(printed)
Seen    == Range(usbbuslist) \cup Range(usbdevlist)

\* Seen, and so is everything above it.
Rooted(n) == \A k \in 1..Len(n) : SubSeq(n, 1, k) \in Seen

\* The tree shows what was read and hangs together, in whatever order it was
\* read and whatever came and went meanwhile: every bus, every device all of
\* whose hubs were read, each with exactly its interfaces that were read.
PrintsWhatHangsTogether ==
    pc = "cleanup" =>
        Printed =
            {[node |-> n, if |-> NoInterface] : n \in
                {m \in Seen : Rooted(m) /\ (IsBus(m) \/
                    \A i \in Range(interfacelist) : i.of # m)}}
            \cup {[node |-> i.of, if |-> i] : i \in
                {j \in Range(interfacelist) : j.of \in Seen /\ Rooted(j.of)}}

\* a comes before b, or equals it up to the end of a.
PathBefore(a, b) ==
    \/ \E k \in 1..Len(a) :
          /\ k <= Len(b) /\ a[k] < b[k]
          /\ \A l \in 1..(k - 1) : a[l] = b[l]
    \/ Len(a) < Len(b) /\ \A k \in 1..Len(a) : a[k] = b[k]

\* The lines ascend by bus, by port at every level, and by interface number and
\* configuration: a hub comes before what hangs on it, nothing is printed twice
\* ("sort in numerical order to match 'lsusb' output").
LinesAscend ==
    \A k \in 1..(Len(printed) - 1) :
        LET a == printed[k]  b == printed[k + 1] IN
        \/ PathBefore(a.node, b.node)
        \/ /\ a.node = b.node
           /\ \/ a.if.num < b.if.num
              \/ a.if.num = b.if.num /\ a.if.cfg < b.if.cfg

\* What was there all the time is in the tree, with the interfaces that were
\* there all the time: a change elsewhere never hides it.
StableIsPrinted ==
    pc = "cleanup" =>
        /\ \A n \in stable :
              (\A k \in 1..Len(n) : SubSeq(n, 1, k) \in stable)
                  => \E line \in Printed : line.node = n
        /\ \A i \in stableIfs :
              (i.of \in Nodes /\ \A k \in 1..Len(i.of) :
                                    SubSeq(i.of, 1, k) \in stable)
                  => [node |-> i.of, if |-> i] \in Printed

\* The program ends; in particular every sort does.
Finishes == <>(pc = "done")
=============================================================================
