----------------------------- MODULE DriverLoan -----------------------------
(***************************************************************************)
(* What usbhid-dump promises about the interfaces it borrows, whatever it   *)
(* does with them in between: an interface taken from its kernel driver is  *)
(* claimed only while no one else has it, and is given back before the      *)
(* program ends, unless the kernel refused to take it back.                *)
(***************************************************************************)
CONSTANT Iface

VARIABLES
    holder,     \* whose driver is bound to the interface
    owed,       \* interfaces taken from the kernel driver and not given back
    excused,    \* interfaces the kernel did not take back
    ended       \* the program has ended, in whatever way

loanVars == <<holder, owed, excused, ended>>

Holders == {"kernel", "nobody", "us", "other"}

Init ==
    /\ holder \in [Iface -> Holders \ {"us"}]
    /\ owed = {}
    /\ excused = {}
    /\ ended = FALSE

Move(t, from, to) ==
    /\ holder[t] = from
    /\ holder' = [holder EXCEPT ![t] = to]

Take(t) ==
    /\ ~ended
    /\ t \notin owed
    /\ Move(t, "kernel", "nobody")
    /\ owed' = owed \cup {t}
    /\ UNCHANGED <<excused, ended>>

Claim(t) ==
    /\ ~ended
    /\ Move(t, "nobody", "us")
    /\ UNCHANGED <<owed, excused, ended>>

\* Releasing one interface, or closing the devices of several.
Release(S) ==
    /\ \A t \in S : holder[t] = "us"
    /\ holder' = [t \in Iface |-> IF t \in S THEN "nobody" ELSE holder[t]]
    /\ UNCHANGED <<owed, excused, ended>>

GiveBack(t) ==
    /\ t \in owed
    /\ Move(t, "nobody", "kernel")
    /\ owed' = owed \ {t}
    /\ UNCHANGED <<excused, ended>>

\* An error of the kernel, or another program's claim, keeps an interface
\* from being given back.
Refuse(t) ==
    /\ excused' = excused \cup {t}
    /\ UNCHANGED <<holder, owed, ended>>

\* The rest of the system binds a driver where none is, or another program
\* lets go.
Others(t) ==
    /\ \/ Move(t, "nobody", "other")
       \/ Move(t, "nobody", "kernel")
       \/ Move(t, "other", "nobody")
    /\ UNCHANGED <<owed, excused, ended>>

End ==
    /\ ~ended
    /\ \A t \in Iface : holder[t] # "us"
    /\ owed \subseteq excused
    /\ ended' = TRUE
    /\ UNCHANGED <<holder, owed, excused>>

Next ==
    \/ \E t \in Iface : Take(t) \/ Claim(t) \/ GiveBack(t) \/ Refuse(t)
                        \/ Others(t)
    \/ \E S \in SUBSET Iface : Release(S)
    \/ End

Spec == Init /\ [][Next]_loanVars
=============================================================================
