---------------------------- MODULE Subsystems ----------------------------
(***************************************************************************)
(* SubsystemManager (core/SubsystemManager): the list of registered        *)
(* subsystems, their flags `enabled`, the states the program asks for at a *)
(* start, and the object "config" of the NVS namespace "subsystem", which  *)
(* GlobalConfig writes and reads as a whole.                               *)
(*                                                                         *)
(* A manager is a record: `enabled` has the registered names as its        *)
(* domain, `initial` the names with a state set by setInitialState(),      *)
(* `made` says that begin() has created the instances, and `collected` is  *)
(* what a saveConfig() under way is about to write.  The saved object is a *)
(* function of names; no object at all is the function of no names.        *)
(***************************************************************************)
EXTENDS Functions

NothingSaved == << >>

\* A program that has just started: no subsystem is registered.
NewManager == [enabled |-> << >>, initial |-> << >>, made |-> FALSE, collected |-> << >>]

Names(m) == DOMAIN m.enabled

\* registerSubsystem() leaves `enabled` of the new entry uninitialised: any value.
Registered(m, names, garbage) == [m EXCEPT !.enabled = [n \in names |-> garbage]]

\* setInitialState() of every name of `states`.
Asked(m, states) == [m EXCEPT !.initial = states]

\* begin(): what a subsystem starts with.  The program's wish comes before the saved state.
Target(m, saved, n) ==
    IF n \in DOMAIN m.initial THEN m.initial[n]
    ELSE n \in DOMAIN saved /\ saved[n]

\* begin(): the instances are created and the targets taken.
Initialized(m, saved) ==
    [m EXCEPT !.enabled = [n \in Names(m) |-> Target(m, saved, n)], !.made = TRUE]

Marked(m, n, on) == [m EXCEPT !.enabled[n] = on]

\* enableSubsystem() calls the instance only for a registered name that is off, disableSubsystem()
\* only for one that is on.  Before begin() has created the instance that call is fatal.
Calls(m, n, on) == n \in Names(m) /\ m.enabled[n] = ~on
Accepted(m, n, on) == on => n \in Names(m)

\* saveConfig(): exactly the registered names; entries of others are gone.
Collected(m) == m.enabled

\* Read, change one entry, write back: what the hardware settings do with the same object.
Synced(saved, n, on) == [k \in DOMAIN saved \cup {n} |-> IF k = n THEN on ELSE saved[k]]
===========================================================================
