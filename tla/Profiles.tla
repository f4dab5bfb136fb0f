------------------------------ MODULE Profiles ------------------------------
(***************************************************************************)
(* Profiles (ProfileService): a file for each profile, and a list of them  *)
(* (profiles_metadata.json) with the mark of the active one.  A request    *)
(* writes the two one after the other; power may fail between the writes,  *)
(* and a write may fail.  At boot the list is brought into line with the   *)
(* files and the active profile is applied to the settings of the          *)
(* controller (ControllerSettings).                                        *)
(*                                                                         *)
(* The web server carries out one request at a time, in the steps of `op'. *)
(* LittleFS keeps the old content of a file until the new one is closed,   *)
(* so a crash never halves a write; a write that fails leaves the old      *)
(* file, when it could not be opened, or an empty one.                     *)
(***************************************************************************)
EXTENDS ControllerSettings

CONSTANTS
    MaxId,    \* numbers of profiles end here
    Bodies    \* what requests bring as "ssvcSettings"; Nothing for none

Ids == 0..MaxId

ASSUME ProfilesAssumption ==
    /\ MaxId \in Nat /\ \A s \in Setups : s.ids \subseteq Ids
    /\ \A body \in Bodies, f \in Mirrored : f \in DOMAIN body => Shaped(f, body[f])

VARIABLES
    files,   \* the files of the profiles
    meta,    \* profiles_metadata.json
    op,      \* what the web server, or the start, is doing
    greeted, \* GET_SETTINGS and VERSION were queued after the start
    damaged, \* history: a write failed, and no start has healed the list since
    promise  \* history: the profile an activation applied, until anything else touches the settings

storeVars == <<files, meta, damaged>>
vars == <<settingsVars, left, storeVars, op, greeted, promise>>

NoFile == [state |-> "none", has |-> FALSE, json |-> Nothing]
Bad == [state |-> "bad", has |-> FALSE, json |-> Nothing]
File(body) == [state |-> "ok", has |-> TRUE, json |-> body]

\* A list that is not there, or does not parse.
BadMeta == [state |-> "bad", list |-> <<>>]
Meta(list) == [state |-> "list", list |-> list]
Entry(i, on) == [id |-> i, on |-> on]

Listed(list) == {list[k].id : k \in 1..Len(list)}
Exists(i) == files[i].state # "none"

\* getActiveProfileId(): the first that is marked.
Active(m) == {i \in Listed(m.list) : \E k \in 1..Len(m.list) :
                 /\ m.list[k] = Entry(i, TRUE)
                 /\ \A n \in 1..(k - 1) : ~m.list[n].on}

\* Mutant of NewId: the number is the count of the profiles.
NewIdOfCount == Len(meta.list)

NewId == IF meta.list = <<>> THEN 0 ELSE Max(Listed(meta.list)) + 1

Appended(m, i) ==
    IF i \in Listed(m.list) THEN m ELSE Meta(Append(m.list, Entry(i, FALSE)))

-----------------------------------------------------------------------------
(* Writes, and the steps of a request.                                     *)

Rest == [kind |-> "none", step |-> 0, id |-> 0, new |-> 0, body |-> Nothing, patch |-> FALSE]
Booting == [Rest EXCEPT !.kind = "boot", !.step = 1]

At(kind, step) == op.kind = kind /\ op.step = step
Then(step) == [op EXCEPT !.step = step]

Faulty == Spend("faults") /\ damaged' = TRUE

WriteFile(i, content) == files' = [files EXCEPT ![i] = content] /\ UNCHANGED <<left, damaged>>
WriteFileFails(i, remains) ==
    Faulty /\ \E content \in remains : files' = [files EXCEPT ![i] = content]

WriteMeta(m) == meta' = m /\ UNCHANGED <<left, damaged>>
WriteMetaFails == Faulty /\ meta' \in {meta, BadMeta}

Ask(kind, i, body, patch) ==
    /\ op = Rest
    /\ Spend("requests")
    /\ op' = [kind |-> kind, step |-> 1, id |-> i, new |-> 0, body |-> body, patch |-> patch]
    /\ UNCHANGED <<settingsVars, storeVars, greeted, promise>>

Storing == UNCHANGED <<settingsVars, greeted, promise>>

\* createProfile(): current settings, unless the request brings some.
Create ==
    /\ At("create", 1) /\ NewId \in Ids
    /\ \/ /\ WriteFile(NewId, File(IF op.patch THEN op.body ELSE Filled))
          /\ op' = [op EXCEPT !.step = 2, !.new = NewId]
       \/ WriteFileFails(NewId, {files[NewId], Bad}) /\ op' = Rest
    /\ Storing /\ UNCHANGED meta

Copy ==
    /\ At("copy", 1) /\ files[op.id].state = "ok" /\ NewId \in Ids
    /\ \/ /\ WriteFile(NewId, files[op.id])
          /\ op' = [op EXCEPT !.step = 2, !.new = NewId]
       \/ WriteFileFails(NewId, {files[NewId], NoFile}) /\ op' = Rest
    /\ Storing /\ UNCHANGED meta

Save ==
    /\ At("save", 1) /\ Exists(op.id) /\ op.id \in Listed(meta.list)
    /\ \/ WriteFile(op.id, File(Filled)) /\ op' = [op EXCEPT !.step = 2, !.new = op.id]
       \/ WriteFileFails(op.id, {files[op.id], Bad}) /\ op' = Rest
    /\ Storing /\ UNCHANGED meta

\* The list is written after the file: a new entry, or the same list again.
List ==
    /\ op.kind \in {"create", "copy", "save"} /\ op.step = 2
    /\ WriteMeta(Appended(meta, op.new)) \/ WriteMetaFails
    /\ op' = Rest
    /\ Storing /\ UNCHANGED files

Delete ==
    /\ At("delete", 1) /\ Exists(op.id)
    /\ WriteFile(op.id, NoFile)
    /\ op' = Then(2)
    /\ Storing /\ UNCHANGED meta

Unlist ==
    /\ op.kind = "delete" /\ ~Exists(op.id)
    /\ op.id \in Listed(meta.list)
    /\ \/ WriteMeta(Meta(Picked(meta.list, {k \in DOMAIN meta.list : meta.list[k].id # op.id})))
       \/ WriteMetaFails
    /\ op' = Rest
    /\ Storing /\ UNCHANGED files

\* updateProfile(): the name in the list, then in the file.
Rename ==
    /\ At("rename", 1) /\ op.id \in Listed(meta.list)
    /\ \/ WriteMeta(meta) /\ op' = Then(2)
       \/ WriteMetaFails /\ op' = Rest
    /\ Storing /\ UNCHANGED files

RenameFile ==
    /\ At("rename", 2)
    /\ \/ files[op.id].state = "ok" /\ WriteFileFails(op.id, {files[op.id], Bad})
       \/ UNCHANGED <<files, left, damaged>>
    /\ op' = Rest
    /\ Storing /\ UNCHANGED meta

\* setActiveAndApplyProfile(): the mark first.
Activate ==
    /\ At("activate", 1) /\ op.id \in Listed(meta.list)
    /\ \/ /\ WriteMeta(Meta([k \in 1..Len(meta.list) |->
                               Entry(meta.list[k].id, meta.list[k].id = op.id)]))
          /\ op' = Then(2)
       \/ WriteMetaFails /\ op' = Rest
    /\ Storing /\ UNCHANGED files

\* updateProfileContent(): the key is replaced, or removed.
Patched(file) == [file EXCEPT !.has = op.patch, !.json = op.body]
Unpatched == files[op.id].state # "ok" \/ Patched(files[op.id]) = files[op.id]

Content ==
    /\ At("content", 1) /\ ~Unpatched
    /\ \/ /\ WriteFile(op.id, Patched(files[op.id]))
          /\ op' = Then(IF op.id \in Active(meta) THEN 2 ELSE 4)
       \/ WriteFileFails(op.id, {files[op.id], Bad}) /\ op' = Rest
    /\ Storing /\ UNCHANGED meta

\* A request that changes nothing, or nothing more.
Ended ==
    \/ At("create", 1) /\ NewId \notin Ids
    \/ At("copy", 1) /\ (files[op.id].state # "ok" \/ NewId \notin Ids)
    \/ At("save", 1) /\ ~(Exists(op.id) /\ op.id \in Listed(meta.list))
    \/ op.kind = "delete" /\ ~Exists(op.id) /\ op.id \notin Listed(meta.list)
    \/ op.kind \in {"rename", "activate"} /\ op.step = 1 /\ op.id \notin Listed(meta.list)
    \/ At("content", 1) /\ Unpatched
    \/ At("content", 4)

Reply == Ended /\ op' = Rest /\ UNCHANGED <<settingsVars, left, storeVars, greeted, promise>>

-----------------------------------------------------------------------------
(* Applying a profile: SETs for what differs from the mirror, and then the *)
(* mirror takes the profile's values as they are.                          *)

Applied == IF op.kind = "boot" THEN Active(meta) ELSE {op.id}

ApplyStep == IF op.kind = "boot" THEN 5 ELSE 2
Appliable(i) == Exists(i) /\ files[i].state = "ok"

ApplySend ==
    /\ op.kind \in {"boot", "activate", "content"} /\ op.step = ApplyStep
    /\ \E i \in Applied :
           /\ Appliable(i) /\ files[i].has
           /\ ApplySettingsToController(files[i].json)
           /\ op' = [op EXCEPT !.step = @ + 1, !.body = files[i].json,
                              !.id = IF op.kind = "boot" THEN 0 ELSE @]
           /\ promise' = IF op.kind = "activate" THEN files[i].json ELSE Nothing
    /\ UNCHANGED <<firmware, ctrl, caps, answer, timer, left, storeVars, greeted>>
    /\ MirrorWritten

ApplyState ==
    /\ op.kind \in {"boot", "activate", "content"} /\ op.step = ApplyStep + 1
    /\ mirror' = Updated(op.body)
    /\ op' = Rest
    /\ UNCHANGED <<firmware, ctrl, caps, queue, answer, timer, left, storeVars, greeted, promise>>
    /\ MirrorWritten

\* Nothing to apply: no profile, no readable file, or a file without settings.
ApplyNothing ==
    /\ op.kind \in {"boot", "activate", "content"} /\ op.step = ApplyStep
    /\ ~\E i \in Applied : Appliable(i) /\ files[i].has
    /\ op' = Rest
    /\ promise' = Nothing
    /\ UNCHANGED <<settingsVars, left, storeVars, greeted>>

-----------------------------------------------------------------------------
(* The start.                                                              *)

Kept == Picked(meta.list, {k \in DOMAIN meta.list : Exists(meta.list[k].id)})
Unlisted == {i \in Ids : Exists(i)} \ Listed(Kept)
Repaired == Kept \o [k \in 1..Cardinality(Unlisted) |-> Entry(Ascending(Unlisted)[k], FALSE)]
Marked(list) == [list EXCEPT ![1].on = TRUE]

\* Mutant of Mended: files that are not listed stay so.
MendedKept == IF Kept # <<>> /\ Active(meta) = {} THEN Marked(Kept) ELSE Kept

\* The mark is looked up in the file, not in what was repaired.
Mended == IF Repaired # <<>> /\ Active(meta) = {} THEN Marked(Repaired) ELSE Repaired

BootList ==
    /\ At("boot", 1) /\ Repaired # <<>>
    /\ \/ meta' = Meta(Mended) /\ UNCHANGED left /\ damaged' = FALSE
       \/ Meta(Mended) # meta /\ WriteMetaFails
    /\ op' = Then(5)
    /\ Storing /\ UNCHANGED files

\* No profile at all: the default one.
BootFound ==
    /\ At("boot", 1) /\ Repaired = <<>>
    /\ \/ WriteFile(0, File(Filled)) /\ op' = Then(2) /\ UNCHANGED meta
       \/ WriteFileFails(0, {NoFile, Bad}) /\ op' = Then(5) /\ meta' = Meta(<<>>)
    /\ Storing

\* It joins the list as the file has it, with entries whose files are gone.
BootFoundList ==
    /\ At("boot", 2)
    /\ \/ WriteMeta(Appended(meta, 0)) /\ op' = Then(3)
       \/ /\ Faulty
          /\ meta' \in (IF meta = Meta(<<>>) THEN {meta, BadMeta} ELSE {Meta(<<>>)})
          /\ op' = Then(5)
    /\ Storing /\ UNCHANGED files

BootFoundMark ==
    /\ At("boot", 3)
    /\ \/ /\ meta' = [meta EXCEPT !.list = [k \in DOMAIN @ |-> Entry(@[k].id, @[k].on \/ @[k].id = 0)]]
          /\ damaged' = FALSE /\ UNCHANGED left
       \/ WriteMetaFails
    /\ op' = Then(5)
    /\ Storing /\ UNCHANGED files

\* Two seconds after the start, when the web server is up already.
Greet ==
    /\ op.kind # "boot" /\ ~greeted
    /\ greeted' = TRUE
    /\ queue' = Pushed(Pushed(queue, Get), Version)
    /\ UNCHANGED <<firmware, ctrl, mirror, caps, answer, timer, unsure, left, storeVars, op, promise>>

Crash ==
    /\ Spend("crashes")
    /\ SettingsReset
    /\ op' = Booting /\ greeted' = FALSE /\ promise' = Nothing
    /\ UNCHANGED storeVars

-----------------------------------------------------------------------------
Init ==
    /\ SettingsInit
    /\ \E setup \in Setups, body \in Bodies :
           /\ firmware = [tails |-> setup.tails, version |-> setup.version]
           /\ left = setup.left
           /\ files = [i \in Ids |-> IF i \in setup.ids THEN File(body) ELSE NoFile]
           /\ meta = IF setup.ids = {} THEN BadMeta
                     ELSE LET ids == Ascending(setup.ids)
                          IN Meta([k \in DOMAIN ids |-> Entry(ids[k], k = 1)])
    /\ op = Booting
    /\ greeted = FALSE /\ damaged = FALSE /\ promise = Nothing

Request ==
    \/ \E body \in Bodies : Ask("create", 0, body, TRUE) \/ \E i \in Ids : Ask("content", i, body, TRUE)
    \/ Ask("create", 0, Nothing, FALSE)
    \/ \E i \in Ids : Exists(i) /\ Ask("content", i, Nothing, FALSE)
    \/ \E kind \in {"copy", "save", "delete", "rename", "activate"}, i \in Ids :
           (Exists(i) \/ i \in Listed(meta.list)) /\ Ask(kind, i, Nothing, FALSE)

Stored ==
    \/ Create \/ Copy \/ Save \/ List \/ Delete \/ Unlist \/ Rename \/ RenameFile
    \/ Activate \/ Content \/ Reply \/ ApplySend \/ ApplyState \/ ApplyNothing
    \/ BootList \/ BootFound \/ BootFoundList \/ BootFoundMark

Worker ==
    /\ ServeSet \/ ServeGet \/ Load \/ ServeVersion \/ TimerFires \/ TimerForgotten
    /\ promise' = IF left' = left THEN promise ELSE Nothing
    /\ UNCHANGED <<storeVars, op, greeted>>

Users ==
    /\ \E f \in DOMAIN Inputs : \E v \in Inputs[f] :
           \/ op = Rest /\ f \in Settable /\ \E refused \in BOOLEAN : Put(f, v, refused)
           \/ InRange(f, v) /\ PanelChanges(f, v)
    /\ promise' = Nothing
    /\ UNCHANGED <<storeVars, op, greeted>>

Next == Request \/ Stored \/ Greet \/ Crash \/ Worker \/ Users

Spec == Init /\ [][Next]_vars

-----------------------------------------------------------------------------
TypeOK ==
    /\ SettingsTypeOK
    /\ \A i \in Ids : files[i].state \in {"none", "ok", "bad"} /\ files[i].has \in BOOLEAN
    /\ meta.state \in {"bad", "list"} /\ \A k \in 1..Len(meta.list) : meta.list[k] \in [id: Ids, on: BOOLEAN]
    /\ op.id \in Ids /\ op.new \in Ids /\ op.step \in 0..6
    /\ greeted \in BOOLEAN /\ damaged \in BOOLEAN

\* Every profile that has a file is on the list when the server is at rest, through crashes
\* between the two writes and through restarts, unless a write failed since the last start
\* (ProfileService.cpp:643: a file that is not on the list "must not happen").
FilesListed ==
    op = Rest /\ ~damaged => {i \in Ids : Exists(i)} \subseteq Listed(meta.list)

\* The store the users are promised: its profiles are the files, its mark the flags of the
\* list.  A request changes it once, and only the profile it names; a new profile never takes
\* the number of another; a restart keeps all profiles and the mark (ProfileService.cpp
\* 294-573, and 23-103 for the start).
Store == INSTANCE ProfileStore WITH
    Empty <- Bad,
    store <- [i \in {j \in Ids : Exists(j)} |-> files[i]],
    active <- {i \in Listed(meta.list) : \E k \in 1..Len(meta.list) : meta.list[k] = Entry(i, TRUE)},
    request <- [kind |-> op.kind, id |-> op.id,
                done |-> op.kind \notin {"none", "boot", "rename"} /\ op.step > 1],
    damaged <- damaged
StoreKept == Store!StoreSpec

\* A profile whose activation was answered with 200 is what the controller has once all
\* commands are through, if none failed and nobody changed the setting since
\* (docs/develop/api/profiles.md: "sets the profile active and applies it immediately").
PromiseKept ==
    Settled /\ op = Rest /\ greeted /\ "hyst" \in DOMAIN promise /\ InRange("hyst", promise["hyst"])
        => ctrl["hyst"] = promise["hyst"]
=============================================================================
