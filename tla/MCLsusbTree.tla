---------------------------- MODULE MCLsusbTree ----------------------------
\* Instances of LsusbTree for TLC.
EXTENDS LsusbTree

\* Two buses.  On the first, a device with two interfaces in port 1 and a hub in
\* port 2 with a device in its port 1.  The hub and its device, which has an
\* interface, come and go.
TwoBuses  == {<<1>>, <<2>>, <<1, 1>>, <<1, 2>>, <<1, 2, 1>>}
FourIfs   == {[of |-> <<1, 1>>, cfg |-> 1, num |-> 0],
              [of |-> <<1, 1>>, cfg |-> 1, num |-> 1],
              [of |-> <<1, 2, 1>>, cfg |-> 1, num |-> 0],
              [of |-> <<1, 0>>, cfg |-> 1, num |-> 0]}
Hub       == {<<1, 2>>, <<1, 2, 1>>}
OnlyDevice == {<<1, 1>>}

\* One device with two configurations, the second of which has fewer
\* interfaces; and that device as the one that changes.
OneDevice == {<<1>>, <<1, 1>>}
TwoConfigs == {[of |-> <<1, 1>>, cfg |-> 1, num |-> 0],
               [of |-> <<1, 1>>, cfg |-> 1, num |-> 1],
               [of |-> <<1, 1>>, cfg |-> 2, num |-> 0]}
None == {}
=============================================================================
