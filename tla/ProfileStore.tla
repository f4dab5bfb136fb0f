---------------------------- MODULE ProfileStore ----------------------------
(***************************************************************************)
(* What ProfileService promises its users: a store of numbered profiles,   *)
(* one of which is marked active.  A request changes the store once and    *)
(* all at once, and only the profile it names; a restart keeps every       *)
(* profile and the mark.                                                   *)
(***************************************************************************)
EXTENDS Naturals

CONSTANTS
    Ids,     \* numbers profiles may get
    Empty    \* the content of a file that lost its content

VARIABLES
    store,   \* the profiles: a function from their numbers to their contents
    active,  \* the numbers marked active
    request, \* the request being carried out: what it asks, of which profile, and is it done
    damaged  \* a write failed, and no restart has healed the list since

storeVars == <<store, active, request, damaged>>

With(i, content) == [j \in DOMAIN store \cup {i} |-> IF j = i THEN content ELSE store[j]]
Without(i) == [j \in DOMAIN store \ {i} |-> store[j]]

Rest == [kind |-> "none", id |-> 0, done |-> FALSE]

StoreInit ==
    /\ DOMAIN store \subseteq Ids /\ active \subseteq Ids /\ damaged = FALSE
    /\ request = [kind |-> "boot", id |-> 0, done |-> FALSE]

Ask(kind, i) ==
    /\ request = Rest
    /\ request' = [kind |-> kind, id |-> i, done |-> FALSE]
    /\ UNCHANGED <<store, active, damaged>>

Commit(kinds) ==
    /\ request.kind \in kinds /\ ~request.done
    /\ request' = [request EXCEPT !.done = TRUE]
    /\ UNCHANGED damaged

\* A new profile gets a number of its own.
Add ==
    /\ Commit({"create", "copy"})
    /\ \E i \in Ids :
           /\ i \in DOMAIN store => damaged
           /\ DOMAIN store' = DOMAIN store \cup {i}
           /\ store' = With(i, store'[i])
           /\ request.kind = "copy" => store'[i] = store[request.id]
    /\ UNCHANGED active

Change ==
    /\ Commit({"save", "content"})
    /\ request.id \in DOMAIN store /\ DOMAIN store' = DOMAIN store
    /\ store' = With(request.id, store'[request.id])
    /\ UNCHANGED active

Remove ==
    /\ Commit({"delete"})
    /\ request.id \in DOMAIN store
    /\ store' = Without(request.id)
    /\ UNCHANGED active

\* The mark of a profile that is gone goes too.
Unmark ==
    /\ request.kind = "delete"
    /\ active' = active \ {request.id} /\ request.id \notin DOMAIN store
    /\ request' \in {request, Rest}
    /\ UNCHANGED <<store, damaged>>

\* The mark goes to one alone; it may be a profile that is gone, which a crash left listed.
Activate ==
    /\ Commit({"activate"})
    /\ active' = {request.id}
    /\ UNCHANGED store

Reply ==
    /\ request.kind # "boot"
    /\ request' = Rest
    /\ UNCHANGED <<store, active, damaged>>

Restart ==
    /\ request' = [kind |-> "boot", id |-> 0, done |-> FALSE]
    /\ UNCHANGED <<store, active, damaged>>

\* A store without profiles gets a first one.
Found ==
    /\ request.kind = "boot" /\ DOMAIN store = {}
    /\ DOMAIN store' = {0}
    /\ UNCHANGED <<active, request, damaged>>

\* Another profile is marked only when no profile there is carries the mark.
Boot ==
    /\ request.kind = "boot"
    /\ active' # active /\ active \cap DOMAIN store # {} => active' = active \cap DOMAIN store
    /\ damaged' \in {damaged, FALSE}
    /\ request' \in {request, Rest}
    /\ UNCHANGED store

\* A write fails: what it was to write may be lost, and the marks with the list.
Damage ==
    /\ damaged' = TRUE
    /\ request # Rest
    /\ \E i \in Ids :
           /\ store' \in {store, With(i, Empty), Without(i)}
           /\ i \in DOMAIN store =>
                  \/ store' = store \/ damaged
                  \/ request.kind \in {"save", "content", "rename"} /\ request.id = i
    /\ request' \in {request, Rest}

StoreNext ==
    \/ \E kind \in {"create", "copy", "save", "content", "rename", "delete", "activate"}, i \in Ids :
            Ask(kind, i)
    \/ Add \/ Change \/ Remove \/ Unmark \/ Activate \/ Reply \/ Restart \/ Found \/ Boot \/ Damage

StoreSpec == StoreInit /\ [][StoreNext]_storeVars
=============================================================================
