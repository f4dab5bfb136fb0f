------------------------- MODULE CommandQueueProofs -------------------------
(***************************************************************************)
(* Proofs about CommandQueue, for any number of tasks, commands, stops and *)
(* attempts and queues of any length.  TypeOK is inductive with the fact   *)
(* that chunks on the line are of a journal, without which consume() could *)
(* store others.  The other invariants are built in layers on the types:   *)
(* who owns a command, what was written (which needs the owners), what     *)
(* overtook a STOP, what the gate of journal sessions has let through, and *)
(* what a STOP fences off; last is the refinement of CommandDelivery.      *)
(***************************************************************************)
EXTENDS CommandQueue, SequenceTheorems, FiniteSetTheorems, TLAPS

\* The controller sends chunks of journals only.
JournalLine ==
    \A i \in DOMAIN ctl.line : ctl.line[i].verb = "file" => ctl.line[i].proc \in Procs

Typed == TypeOK /\ JournalLine

CallerTypes == [Tasks -> [pc: {"idle", "send", "sendSafety", "publish"}, cmd: Commands]]
WorkerPcs == {"safety", "queue", "check", "gate", "requeue", "attempt", "probe", "cancel",
              "mark", "write", "poll", "blocked", "answer", "hello"}
WorkerTypes == [pc: WorkerPcs, cmd: Commands, waited: Nat, got: SUBSET EventBits, hello: Nat]
HistTypes == [fate: Seq(Fates), stops: Nat, fence: Nat, written: SUBSET Nat,
              overtook: SUBSET Nat]

-----------------------------------------------------------------------------
(* The types of the transfer object.                                       *)

\* What the receiver hands to consume(): chunks belong to a journal.
WellFormed(f) == f \in Frames /\ (f.kind = "file" => f.file \in Procs)

\* The object as constructed, and after every method but consume().
LEMMA MethodsTyped ==
  /\ NewTransfer \in Transfers
  /\ \A t \in Transfers :
       /\ Reset(t) \in Transfers /\ Reset(t).status = "IDLE" /\ Reset(t).gen = t.gen
       /\ Touch(t) \in Transfers /\ MarkSent(t) \in Transfers /\ Cancel(t) \in Transfers
       /\ ReleaseReservation(t) \in Transfers /\ CompleteDrain(t) \in Transfers
       /\ \A p \in Procs \cup {ListRequest} : Reserve(t, p) \in Transfers
       /\ \A reason \in Reasons :
            Fail(t, reason) \in Transfers /\ AbortReservation(t, reason) \in Transfers
<1>1. Never \in Ages /\ 0 \in Ages
  BY TimeAssumption DEF Ages, Never, OldAge
<1>2. NewTransfer \in Transfers
  BY <1>1 DEF NewTransfer, Transfers, Statuses, Reasons
<1> SUFFICES ASSUME NEW t \in Transfers
             PROVE  /\ Reset(t) \in Transfers /\ Reset(t).status = "IDLE" /\ Reset(t).gen = t.gen
                    /\ Touch(t) \in Transfers /\ MarkSent(t) \in Transfers
                    /\ Cancel(t) \in Transfers
                    /\ ReleaseReservation(t) \in Transfers /\ CompleteDrain(t) \in Transfers
                    /\ \A p \in Procs \cup {ListRequest} : Reserve(t, p) \in Transfers
                    /\ \A reason \in Reasons :
                         /\ Fail(t, reason) \in Transfers
                         /\ AbortReservation(t, reason) \in Transfers
  BY <1>2
<1>3. Reset(t) \in Transfers /\ Reset(t).status = "IDLE" /\ Reset(t).gen = t.gen
  BY <1>2 DEF Reset, Transfers, NewTransfer
<1>4. Touch(t) \in Transfers
  BY <1>1 DEF Touch, Transfers
<1>5. MarkSent(t) \in Transfers
  BY DEF MarkSent, Transfers, Statuses, BlockedStatuses, WaitingStatuses
<1>6. \A reason \in Reasons : Fail(t, reason) \in Transfers
  <2>1. "ERROR" \in Statuses /\ << >> \in Seq(Chunks) /\ FALSE \in BOOLEAN
    BY DEF Statuses
  <2> QED
    BY <2>1 DEF Fail, Transfers
<1>7. \A p \in Procs \cup {ListRequest} : Reserve(t, p) \in Transfers
  <2> TAKE p \in Procs \cup {ListRequest}
  <2>1. t.gen + 1 \in Nat /\ {"QUEUED_LIST", "QUEUED_FILE"} \subseteq Statuses
    BY DEF Transfers, Statuses, BlockedStatuses, QueuedStatuses
  <2> QED
    BY <1>1, <1>3, <2>1 DEF Reserve, Transfers
<1>8. Cancel(t) \in Transfers
  <2>1. ASSUME NEW x \in Transfers PROVE NextGeneration(x) \in Transfers
    <3>1. x.gen + 1 \in Nat
      BY DEF Transfers
    <3> QED
      BY <3>1 DEF NextGeneration, Transfers
  <2>2. [t EXCEPT !.status = "DRAINING", !.error = ""] \in Transfers
    BY DEF Transfers, Statuses, BlockedStatuses, Reasons
  <2> QED
    BY <1>3, <2>1, <2>2 DEF Cancel
<1> QED
  BY <1>3, <1>4, <1>5, <1>6, <1>7, <1>8
     DEF ReleaseReservation, CompleteDrain, AbortReservation

\* consume() stores what a frame says.
LEMMA ConsumeTyped ==
  ASSUME NEW t \in Transfers, NEW f, WellFormed(f)
  PROVE  Consume(t, f, TRUE) \in Transfers
<1> DEFINE u == Touch(t)
<1>1. u \in Transfers /\ \A v \in Transfers, reason \in Reasons : Fail(v, reason) \in Transfers
  BY MethodsTyped
<1>2. 0 \in Ages /\ f.n \in Nat /\ {"RECEIVING", "COMPLETED", "LIST_RECEIVED"} \subseteq Statuses
  BY TimeAssumption DEF Ages, Never, OldAge, WellFormed, Frames, Statuses, BlockedStatuses
<1> HIDE DEF u
<1>3. ConsumeDraining(u, f) \in Transfers
  BY <1>1 DEF ConsumeDraining, Reasons
<1>4. ConsumeList(u, f) \in Transfers
  <2>1. [u EXCEPT !.status = "LIST_RECEIVED"] \in Transfers
    BY <1>1, <1>2 DEF Transfers
  <2> QED
    BY <1>1, <2>1 DEF ConsumeList, Reasons
<1>5. ConsumeStart(u, f, TRUE) \in Transfers
  <2> DEFINE begun == [u EXCEPT !.total = f.n, !.received = 0, !.data = << >>]
  <2>1. begun \in Transfers
    <3>1. << >> \in Seq(Chunks) /\ 0 \in Nat
      OBVIOUS
    <3> QED
      BY <1>1, <1>2, <3>1 DEF Transfers
  <2>2. /\ [begun EXCEPT !.status = "COMPLETED", !.held = 0] \in Transfers
        /\ [begun EXCEPT !.status = "RECEIVING", !.buffer = TRUE] \in Transfers
    BY <1>2, <2>1 DEF Transfers
  <2> QED
    BY <1>1, <2>2 DEF ConsumeStart, Reasons
<1>6. f.kind = "file" => ConsumeChunk(u, f) \in Transfers
  <2> SUFFICES ASSUME f.kind = "file" PROVE ConsumeChunk(u, f) \in Transfers
    OBVIOUS
  <2> DEFINE grown == [u EXCEPT !.data = Append(@, <<f.file, f.n>>), !.received = f.n]
  <2>1. CASE u.status # "RECEIVING" \/ f.n # u.received + 1
    BY <1>1, <2>1 DEF ConsumeChunk, Reasons
  <2>2. CASE f.n = u.received + 1
    <3>1. <<f.file, f.n>> \in Chunks /\ u.data \in Seq(Chunks)
      BY <1>1, <1>2, <2>2 DEF Chunks, WellFormed, Transfers
    <3>2. Append(u.data, <<f.file, f.n>>) \in Seq(Chunks)
      BY <3>1
    <3>3. grown \in Transfers
      BY <1>1, <1>2, <3>2 DEF Transfers
    <3>4. [grown EXCEPT !.status = "COMPLETED", !.held = 0] \in Transfers
      BY <1>2, <3>3 DEF Transfers
    <3> QED
      BY <1>1, <3>3, <3>4 DEF ConsumeChunk, Reasons
  <2> QED
    BY <2>1, <2>2
<1>7. Fail(u, "err_") \in Transfers
  BY <1>1 DEF Reasons
<1>8. f.kind \in {"LIST", "START", "ERR", "OK", "file"}
  BY DEF WellFormed, Frames
<1> QED
  BY <1>1, <1>3, <1>4, <1>5, <1>6, <1>7, <1>8 DEF Consume, u

-----------------------------------------------------------------------------
(* The types.                                                              *)

\* The constant records are well typed.
LEMMA TypeFacts ==
  /\ NoCmd \in Commands /\ AtSafety \in WorkerTypes
  /\ IdleTask \in [pc: {"idle", "send", "sendSafety", "publish"}, cmd: Commands]
  /\ \A type \in CommandTypes : ExpectedBit(type) \in EventBits
  /\ AttemptCount \in Nat
  BY QueueBoundsAssumption
     DEF NoCmd, Commands, CommandTypes, ListRequest, AtSafety, WorkerTypes, WorkerPcs,
         IdleTask, ExpectedBit, EventBits

\* The history keeps its type through every assignment made to it.
LEMMA HistFacts ==
  /\ \A h \in HistTypes : [h EXCEPT !.stops = @ + 1] \in HistTypes
  /\ \A h \in HistTypes, n \in Nat : [h EXCEPT !.fence = n] \in HistTypes
  /\ \A h \in HistTypes, s \in SUBSET Nat, u \in SUBSET Nat :
       [h EXCEPT !.written = s, !.overtook = u] \in HistTypes
  /\ \A h \in HistTypes, u \in SUBSET Nat : [h EXCEPT !.overtook = u] \in HistTypes
<1>1. \A h \in HistTypes : [h EXCEPT !.stops = @ + 1] \in HistTypes
  BY DEF HistTypes
<1>2. \A h \in HistTypes, n \in Nat : [h EXCEPT !.fence = n] \in HistTypes
  BY DEF HistTypes
<1>3. \A h \in HistTypes, s \in SUBSET Nat, u \in SUBSET Nat :
         [h EXCEPT !.written = s, !.overtook = u] \in HistTypes
  BY DEF HistTypes
<1>4. \A h \in HistTypes, u \in SUBSET Nat : [h EXCEPT !.overtook = u] \in HistTypes
  BY DEF HistTypes
<1> QED
  BY <1>1, <1>2, <1>3, <1>4

\* The parts of TypeOK, so that a step names those it touches.
LEMMA TypedParts ==
  ASSUME Typed
  PROVE  /\ tr \in Transfers /\ tr.gen \in Nat
         /\ cmdQ \in Seq(Commands) /\ safetyQ \in Seq(Commands) /\ epoch \in Nat
         /\ caller \in CallerTypes /\ w \in WorkerTypes /\ bits \in SUBSET EventBits
         /\ ctl.inbox \in Seq(Lines) /\ ctl.line \in Seq(Answers)
         /\ hist \in HistTypes
         /\ NewId \in Nat /\ Born \in HistTypes
         /\ \A i \in Nat : \A fate \in Fates : [hist EXCEPT !.fate[i] = fate] \in HistTypes
<1>1. hist \in HistTypes /\ hist.fate \in Seq(Fates)
  BY DEF Typed, TypeOK, HistTypes
<1>2. Append(hist.fate, "open") \in Seq(Fates)
  BY <1>1 DEF Fates
<1>3. Born \in HistTypes /\ NewId \in Nat
  <2>1. NewId \in Nat
    BY <1>1, LenProperties DEF NewId
  <2>2. Born \in HistTypes
    BY <1>1, <1>2 DEF Born, HistTypes
  <2> QED
    BY <2>1, <2>2
<1>4. \A i \in Nat : \A fate \in Fates : [hist.fate EXCEPT ![i] = fate] \in Seq(Fates)
  <2> SUFFICES ASSUME NEW i \in Nat, NEW fate \in Fates
               PROVE  [hist.fate EXCEPT ![i] = fate] \in Seq(Fates)
    OBVIOUS
  <2>1. CASE i \in 1 .. Len(hist.fate)
    BY <1>1, <2>1, ExceptSeq
  <2>2. CASE i \notin 1 .. Len(hist.fate)
    <3>1. [hist.fate EXCEPT ![i] = fate] = hist.fate
      BY <1>1, <2>2
    <3> QED
      BY <1>1, <3>1
  <2> QED
    BY <2>1, <2>2
<1>5. \A i \in Nat : \A fate \in Fates : [hist EXCEPT !.fate[i] = fate] \in HistTypes
  BY <1>1, <1>4 DEF HistTypes
<1> QED
  BY <1>1, <1>3, <1>5 DEF Typed, TypeOK, Transfers, CallerTypes, WorkerTypes, WorkerPcs

\* A command that is made now is a command, and has the next id.
LEMMA NewCommandTyped ==
  ASSUME Typed, NEW type \in CommandTypes, NEW n \in Nat, NEW g \in Nat,
         NEW p \in Procs \cup {ListRequest}
  PROVE  /\ NewCommand(type, n, g, p) \in Commands
         /\ [NewCommand(type, n, g, p) EXCEPT !.epoch = epoch + 1] \in Commands
         /\ NewCommand(type, n, g, p).id = NewId
<1>1. NewId \in Nat /\ epoch \in Nat /\ epoch + 1 \in Nat
  BY TypedParts
<1> QED
  BY <1>1 DEF NewCommand, Commands

\* Calls by tasks: pushCommandInQueue() and emergencyStop().
LEMMA CallTyped ==
  ASSUME Typed, NEW t \in Tasks,
         \/ \E type \in Types : Push(t, type)
         \/ \E p \in Procs \cup {ListRequest} : PushGetLog(t, p)
         \/ EmergencyStop(t)
  PROVE  Typed'
<1>1. \A type \in CommandTypes, n \in Nat, g \in Nat, p \in Procs \cup {ListRequest} :
         /\ NewCommand(type, n, g, p) \in Commands
         /\ [NewCommand(type, n, g, p) EXCEPT !.epoch = epoch + 1] \in Commands
  BY NewCommandTyped
<1> USE TypedParts, TypeFacts, TypesAssumption
<1>2. \A pc \in {"send", "sendSafety", "publish"}, c \in Commands :
         TaskGoes(t, pc, c) => caller' \in CallerTypes
  BY DEF TaskGoes, CallerTypes
<1>3. ASSUME NEW type \in Types, Push(t, type) PROVE Typed'
  <2>1. NewCommand(type, AttemptCount, 0, ListRequest) \in Commands
    BY <1>1
  <2>2. caller' \in CallerTypes /\ hist' \in HistTypes
    BY <1>2, <1>3, <2>1 DEF Push
  <2> QED
    BY <1>3, <2>2 DEF Push, Typed, TypeOK, JournalLine, CallerTypes, HistTypes
<1>4. ASSUME NEW p \in Procs \cup {ListRequest}, PushGetLog(t, p) PROVE Typed'
  <2>1. tr' \in Transfers /\ tr'.gen \in Nat
    BY <1>4, MethodsTyped DEF PushGetLog, Transfers
  <2>2. NewCommand("GET_LOG", 1, tr'.gen, p) \in Commands
    BY <1>1, <2>1 DEF CommandTypes
  <2>3. caller' \in CallerTypes /\ hist' \in HistTypes
    BY <1>2, <1>4, <2>2 DEF PushGetLog
  <2> QED
    BY <1>4, <2>1, <2>3 DEF PushGetLog, Typed, TypeOK, JournalLine, CallerTypes, HistTypes
<1>5. CASE EmergencyStop(t)
  <2>1. [NewCommand("STOP", 1, 0, ListRequest) EXCEPT !.epoch = epoch + 1] \in Commands
    BY <1>1 DEF CommandTypes
  <2>2. caller' \in CallerTypes
    BY <1>2, <1>5, <2>1 DEF EmergencyStop
  <2>4. hist' \in HistTypes
    BY <1>5, HistFacts DEF EmergencyStop
  <2> QED
    BY <1>5, <2>2, <2>4 DEF EmergencyStop, Typed, TypeOK, JournalLine, CallerTypes, HistTypes
<1> QED
  BY <1>3, <1>4, <1>5

\* A task on its way through a call.
LEMMA TaskStepTyped ==
  ASSUME Typed, NEW t \in Tasks, TaskStep(t)
  PROVE  Typed'
<1> USE TypedParts, TypeFacts
<1>1. caller[t].cmd \in Commands /\ caller[t].cmd.id \in Nat /\ caller[t].cmd.epoch \in Nat
  <2>1. caller[t].cmd \in Commands
    BY DEF CallerTypes
  <2> QED
    BY <2>1 DEF Commands
<1>2. /\ TaskDone(t) => caller' \in CallerTypes
      /\ TaskGoes(t, "publish", caller[t].cmd) => caller' \in CallerTypes
  <2>1. [pc |-> "publish", cmd |-> caller[t].cmd]
          \in [pc: {"idle", "send", "sendSafety", "publish"}, cmd: Commands]
    BY <1>1
  <2> QED
    BY <2>1 DEF TaskDone, TaskGoes, CallerTypes
<1>3. hist' = Ended(caller[t].cmd, "refused") => hist' \in HistTypes
  BY <1>1 DEF Ended, Fates
<1>4. CASE Send(t)
  <2>1. cmdQ' \in Seq(Commands) /\ caller' \in CallerTypes
    BY <1>1, <1>2, <1>4 DEF Send
  <2> QED
    BY <1>4, <2>1 DEF Send, Typed, TypeOK, JournalLine, CallerTypes
<1>5. CASE SendRefused(t)
  <2>1. tr' \in Transfers /\ caller' \in CallerTypes /\ hist' \in HistTypes
    BY <1>1, <1>2, <1>3, <1>5, MethodsTyped DEF SendRefused
  <2> QED
    BY <1>5, <2>1 DEF SendRefused, Typed, TypeOK, JournalLine, CallerTypes, HistTypes
<1>6. CASE SendSafety(t)
  <2>1. safetyQ' \in Seq(Commands) /\ caller' \in CallerTypes
    BY <1>1, <1>2, <1>6 DEF SendSafety
  <2> QED
    BY <1>6, <2>1 DEF SendSafety, Typed, TypeOK, JournalLine, CallerTypes
<1>7. CASE SafetyRefused(t)
  <2>1. caller' \in CallerTypes /\ hist' \in HistTypes
    BY <1>1, <1>2, <1>3, <1>7 DEF SafetyRefused
  <2> QED
    BY <1>7, <2>1 DEF SafetyRefused, Typed, TypeOK, JournalLine, CallerTypes, HistTypes
<1>8. CASE Publish(t)
  <2>1. epoch' \in Nat /\ caller' \in CallerTypes
    BY <1>1, <1>2, <1>8 DEF Publish
  <2>2. hist' \in HistTypes
    BY <1>1, <1>8 DEF Publish, HistTypes
  <2> QED
    BY <1>8, <2>1, <2>2 DEF Publish, Typed, TypeOK, JournalLine, CallerTypes, HistTypes
<1> QED
  BY <1>4, <1>5, <1>6, <1>7, <1>8 DEF TaskStep

\* The worker's record keeps its type through every assignment the worker makes.
LEMMA WorkerFacts ==
  /\ \A x \in WorkerTypes, pc \in WorkerPcs : [x EXCEPT !.pc = pc] \in WorkerTypes
  /\ \A x \in WorkerTypes, pc \in WorkerPcs, b \in SUBSET EventBits :
       [x EXCEPT !.pc = pc, !.got = b] \in WorkerTypes
  /\ \A x \in WorkerTypes, pc \in WorkerPcs, b \in SUBSET EventBits, n \in Nat :
       /\ [x EXCEPT !.pc = pc, !.got = b, !.waited = n] \in WorkerTypes
       /\ [x EXCEPT !.pc = pc, !.waited = n] \in WorkerTypes
       /\ [x EXCEPT !.pc = pc, !.hello = n] \in WorkerTypes
       /\ [x EXCEPT !.hello = n] \in WorkerTypes
  /\ \A c \in Commands : [AtSafety EXCEPT !.pc = "check", !.cmd = c] \in WorkerTypes
  /\ \A x \in WorkerTypes, pc \in WorkerPcs :
       x.cmd.attempts # 0 =>
         [x EXCEPT !.cmd.attempts = @ - 1, !.waited = 0, !.got = {}, !.pc = pc] \in WorkerTypes
<1>1. \A x \in WorkerTypes, pc \in WorkerPcs : [x EXCEPT !.pc = pc] \in WorkerTypes
  BY DEF WorkerTypes
<1>2. \A x \in WorkerTypes, pc \in WorkerPcs, b \in SUBSET EventBits :
         [x EXCEPT !.pc = pc, !.got = b] \in WorkerTypes
  BY DEF WorkerTypes
<1>3. \A x \in WorkerTypes, pc \in WorkerPcs, b \in SUBSET EventBits, n \in Nat :
         /\ [x EXCEPT !.pc = pc, !.got = b, !.waited = n] \in WorkerTypes
         /\ [x EXCEPT !.pc = pc, !.waited = n] \in WorkerTypes
         /\ [x EXCEPT !.pc = pc, !.hello = n] \in WorkerTypes
         /\ [x EXCEPT !.hello = n] \in WorkerTypes
  BY DEF WorkerTypes
<1>4. \A c \in Commands : [AtSafety EXCEPT !.pc = "check", !.cmd = c] \in WorkerTypes
  BY DEF WorkerTypes, WorkerPcs, AtSafety
<1>5. ASSUME NEW x \in WorkerTypes, NEW pc \in WorkerPcs, x.cmd.attempts # 0
      PROVE  [x EXCEPT !.cmd.attempts = @ - 1, !.waited = 0, !.got = {}, !.pc = pc]
               \in WorkerTypes
  <2>1. x.cmd \in Commands
    BY DEF WorkerTypes
  <2>2. [x.cmd EXCEPT !.attempts = @ - 1] \in Commands
    BY <1>5, <2>1 DEF Commands
  <2> QED
    BY <2>2 DEF WorkerTypes
<1> QED
  BY <1>1, <1>2, <1>3, <1>4, <1>5

\* The worker: most of its steps change only its own record.
LEMMA OnlyWorkerTyped ==
  ASSUME Typed, w' \in WorkerTypes, bits' \in SUBSET EventBits, hist' \in HistTypes,
         tr' \in Transfers, cmdQ' \in Seq(Commands), safetyQ' \in Seq(Commands),
         UNCHANGED <<epoch, caller, rect, rx, stored, ctl>>
  PROVE  Typed'
  BY DEF Typed, TypeOK, JournalLine, WorkerTypes, WorkerPcs, HistTypes

\* The worker goes to another point of its loop.
LEMMA MoveTyped ==
  ASSUME Typed, NEW pc \in WorkerPcs, WorkerAt(pc)
  PROVE  w' \in WorkerTypes
  BY TypedParts, WorkerFacts DEF WorkerAt

LEMMA TakingTyped ==
  ASSUME Typed, TakeSafety \/ NoSafety \/ TakeCommand \/ QueueIdle
  PROVE  Typed'
<1>1. CASE TakeSafety
  <2>1. Head(safetyQ) \in Commands /\ Tail(safetyQ) \in Seq(Commands)
    BY <1>1, TypedParts, HeadTailProperties DEF TakeSafety
  <2>2. hist.overtook \in SUBSET Nat
    BY TypedParts DEF HistTypes
  <2>3. hist' \in HistTypes
    BY <1>1, <2>2, TypedParts, HistFacts DEF TakeSafety
  <2>4. w' \in WorkerTypes
    BY <1>1, <2>1, WorkerFacts DEF TakeSafety
  <2> QED
    BY <1>1, <2>1, <2>3, <2>4, TypedParts, OnlyWorkerTyped DEF TakeSafety
<1>2. CASE TakeCommand
  <2>1. Head(cmdQ) \in Commands /\ Tail(cmdQ) \in Seq(Commands)
    BY <1>2, TypedParts, HeadTailProperties DEF TakeCommand
  <2>2. w' \in WorkerTypes
    BY <1>2, <2>1, WorkerFacts DEF TakeCommand
  <2> QED
    BY <1>2, <2>1, <2>2, TypedParts, OnlyWorkerTyped DEF TakeCommand
<1>3. CASE NoSafety \/ QueueIdle
  <2>1. w' \in WorkerTypes
    BY <1>3, MoveTyped DEF NoSafety, QueueIdle, WorkerPcs
  <2> QED
    BY <1>3, <2>1, TypedParts, OnlyWorkerTyped DEF NoSafety, QueueIdle
<1> QED
  BY <1>1, <1>2, <1>3

\* The types of what the worker holds.
LEMMA WorkerCmdTyped ==
  ASSUME Typed
  PROVE  /\ w.cmd \in Commands /\ w.cmd.id \in Nat /\ w.cmd.type \in CommandTypes
         /\ w.cmd.proc \in Procs \cup {ListRequest} /\ w.waited \in Nat /\ w.hello \in Nat
         /\ w.pc \in WorkerPcs /\ w.cmd.attempts \in Nat
<1>1. /\ w.cmd \in Commands /\ w.waited \in Nat /\ w.hello \in Nat /\ w.pc \in WorkerPcs
  BY TypedParts DEF WorkerTypes
<1> QED
  BY <1>1 DEF Commands

\* A command ends: the worker starts again.
LEMMA FinishTyped ==
  ASSUME Typed, NEW fate \in Fates, Finish(fate)
  PROVE  w' \in WorkerTypes /\ hist' \in HistTypes
<1>1. w.cmd.id \in Nat
  BY WorkerCmdTyped
<1>2. w' \in WorkerTypes
  BY TypeFacts DEF Finish
<1>3. hist' \in HistTypes
  BY <1>1, TypedParts DEF Finish, Ended
<1> QED
  BY <1>2, <1>3

LEMMA DecidingTyped ==
  ASSUME Typed, DropStale \/ KeepFresh \/ Gate \/ Requeue \/ NoMoreAttempts
  PROVE  Typed'
<1>1. CASE DropStale \/ NoMoreAttempts
  <2>1. w' \in WorkerTypes /\ hist' \in HistTypes
    BY <1>1, FinishTyped DEF DropStale, NoMoreAttempts, Fates
  <2> QED
    BY <1>1, <2>1, TypedParts, OnlyWorkerTyped DEF DropStale, NoMoreAttempts
<1>2. CASE KeepFresh \/ Gate
  <2>1. w' \in WorkerTypes
    BY <1>2, MoveTyped DEF KeepFresh, Gate, WorkerPcs
  <2> QED
    BY <1>2, <2>1, TypedParts, OnlyWorkerTyped DEF KeepFresh, Gate
<1>3. CASE Requeue
  <2>1. cmdQ' \in Seq(Commands)
    BY <1>3, WorkerCmdTyped, TypedParts DEF Requeue
  <2>2. w' \in WorkerTypes
    BY <1>3, TypeFacts DEF Requeue
  <2> QED
    BY <1>3, <2>1, <2>2, TypedParts, OnlyWorkerTyped DEF Requeue
<1> QED
  BY <1>1, <1>2, <1>3

LEMMA AttemptTyped ==
  ASSUME Typed, Attempt \/ StopProbe \/ StopCancel \/ Mark \/ WriteFailed
  PROVE  Typed'
<1>1. CASE Attempt
  <2>1. \E pc \in WorkerPcs :
           w' = [w EXCEPT !.cmd.attempts = @ - 1, !.waited = 0, !.got = {}, !.pc = pc]
    BY <1>1 DEF Attempt, WorkerPcs
  <2>2. w' \in WorkerTypes
    BY <1>1, <2>1, TypedParts, WorkerFacts DEF Attempt
  <2>3. bits' \in SUBSET EventBits
    BY <1>1, TypedParts DEF Attempt
  <2> QED
    BY <1>1, <2>2, <2>3, TypedParts, OnlyWorkerTyped DEF Attempt
<1>2. CASE StopProbe
  <2>1. w' \in WorkerTypes
    BY <1>2, MoveTyped DEF StopProbe, WorkerPcs
  <2> QED
    BY <1>2, <2>1, TypedParts, OnlyWorkerTyped DEF StopProbe
<1>3. CASE StopCancel \/ Mark \/ WriteFailed
  <2>1. w' \in WorkerTypes
    BY <1>3, MoveTyped DEF StopCancel, Mark, WriteFailed, WorkerPcs
  <2>2. tr' \in Transfers
    BY <1>3, TypedParts, MethodsTyped
       DEF StopCancel, Mark, WriteFailed, Reasons
  <2> QED
    BY <1>3, <2>1, <2>2, TypedParts, OnlyWorkerTyped DEF StopCancel, Mark, WriteFailed
<1> QED
  BY <1>1, <1>2, <1>3

LEMMA WriteOkTyped == ASSUME Typed, WriteOk PROVE Typed'
<1>1. Line(w.cmd) \in Lines
  BY WorkerCmdTyped DEF Line, Lines
<1>2. ctl' = [ctl EXCEPT !.inbox = Append(@, Line(w.cmd))] /\ ctl \in [inbox: Seq(Lines), line: Seq(Answers)]
  BY DEF WriteOk, Typed, TypeOK
<1>3. ctl' \in [inbox: Seq(Lines), line: Seq(Answers)] /\ ctl'.line = ctl.line
  BY <1>1, <1>2
<1>4. JournalLine'
  BY <1>3 DEF Typed, JournalLine
<1>5. hist.written \in SUBSET Nat /\ hist.overtook \in SUBSET Nat
  BY TypedParts DEF HistTypes
<1>6. WasWritten \in HistTypes
  BY <1>5, TypedParts, HistFacts, WorkerCmdTyped DEF WasWritten
<1>7. [WasWritten EXCEPT !.fate[w.cmd.id] = "sent"] \in HistTypes
  <2>1. [hist EXCEPT !.fate[w.cmd.id] = "sent"] \in HistTypes
    BY TypedParts, WorkerCmdTyped DEF Fates
  <2>2. hist.fate = WasWritten.fate
    BY TypedParts DEF WasWritten, HistTypes
  <2>3. [WasWritten.fate EXCEPT ![w.cmd.id] = "sent"] \in Seq(Fates)
    BY <2>1, <2>2, TypedParts DEF HistTypes
  <2> QED
    BY <1>6, <2>3 DEF HistTypes
<1>8. hist' \in HistTypes
  BY <1>6, <1>7 DEF WriteOk
<1>9. w' \in WorkerTypes
  BY TypeFacts, MoveTyped DEF WriteOk, WorkerPcs
<1> QED
  BY <1>3, <1>4, <1>8, <1>9 DEF WriteOk, Typed, TypeOK, WorkerTypes, WorkerPcs, HistTypes

LEMMA WaitTyped == ASSUME Typed, Poll \/ SliceOver PROVE Typed'
<1>1. "answer" \in WorkerPcs /\ "poll" \in WorkerPcs /\ "blocked" \in WorkerPcs
  BY DEF WorkerPcs
<1>2. CASE Poll
  <2>1. w' \in WorkerTypes /\ bits' \in SUBSET EventBits
    <3>1. \/ WorkerAt("answer") /\ UNCHANGED bits
          \/ w' = [w EXCEPT !.pc = "answer", !.got = bits] /\ bits' = bits \ Mask(w.cmd.type)
          \/ WorkerAt("blocked") /\ UNCHANGED bits
      BY <1>2 DEF Poll
    <3>2. bits \in SUBSET EventBits /\ w \in WorkerTypes
      BY TypedParts
    <3>3. [w EXCEPT !.pc = "answer", !.got = bits] \in WorkerTypes
      BY <1>1, <3>2, WorkerFacts
    <3>4. bits \ Mask(w.cmd.type) \in SUBSET EventBits
      BY <3>2
    <3>5. w' \in WorkerTypes
      BY <1>1, <3>1, <3>3, MoveTyped
    <3> QED
      BY <3>1, <3>2, <3>4, <3>5
  <2> QED
    BY <1>2, <2>1, TypedParts, OnlyWorkerTyped DEF Poll
<1>3. CASE SliceOver
  <2>1. \E late \in 0 .. MaxLate :
           \/ /\ w' = [w EXCEPT !.pc = "answer", !.got = bits, !.waited = w.waited + 1 + late]
              /\ UNCHANGED hist
           \/ Finish("unknown")
           \/ /\ w' = [w EXCEPT !.pc = "poll", !.waited = w.waited + 1 + late]
              /\ UNCHANGED hist
    BY <1>3 DEF SliceOver
  <2>2. \A late \in 0 .. MaxLate : w.waited + 1 + late \in Nat
    BY WorkerCmdTyped, QueueBoundsAssumption
  <2>3. \A n \in Nat : /\ [w EXCEPT !.pc = "answer", !.got = bits, !.waited = n] \in WorkerTypes
                       /\ [w EXCEPT !.pc = "poll", !.waited = n] \in WorkerTypes
    BY <1>1, TypedParts, WorkerFacts
  <2>4. "unknown" \in Fates /\ hist \in HistTypes
    BY TypedParts DEF Fates
  <2>5. w' \in WorkerTypes /\ hist' \in HistTypes
    BY <2>1, <2>2, <2>3, <2>4, FinishTyped
  <2> QED
    BY <1>3, <2>5, TypedParts, OnlyWorkerTyped DEF SliceOver
<1> QED
  BY <1>2, <1>3

LEMMA OutcomeTyped == ASSUME Typed, Success \/ Failure \/ Hello \/ HelloDone PROVE Typed'
<1>1. CASE Success
  <2>1. w' \in WorkerTypes /\ hist' \in HistTypes
    <3>1. \/ w' = [w EXCEPT !.pc = "hello", !.hello = HelloCount] /\ UNCHANGED hist
          \/ Finish("ok")
      BY <1>1 DEF Success
    <3>2. "hello" \in WorkerPcs /\ HelloCount \in Nat /\ "ok" \in Fates
      BY QueueBoundsAssumption DEF WorkerPcs, Fates
    <3>3. [w EXCEPT !.pc = "hello", !.hello = HelloCount] \in WorkerTypes /\ hist \in HistTypes
      BY <3>2, TypedParts, WorkerFacts
    <3> QED
      BY <3>1, <3>2, <3>3, FinishTyped
  <2> QED
    BY <1>1, <2>1, TypedParts, OnlyWorkerTyped DEF Success
<1>2. CASE Failure
  <2>1. w' \in WorkerTypes /\ hist' \in HistTypes
    BY <1>2, TypedParts, MoveTyped, FinishTyped DEF Failure, WorkerPcs, Fates
  <2> QED
    BY <1>2, <2>1, TypedParts, OnlyWorkerTyped DEF Failure
<1>3. CASE Hello
  <2>1. w' \in WorkerTypes
    <3>1. w.hello - 1 \in Nat
      BY <1>3, WorkerCmdTyped DEF Hello
    <3>2. w' = [w EXCEPT !.hello = w.hello - 1]
      BY <1>3 DEF Hello
    <3> QED
      BY <3>1, <3>2, TypedParts, WorkerFacts, WorkerCmdTyped
  <2>2. NewCommand("STATUS", AttemptCount, 0, ListRequest) \in Commands
    <3>1. NewId \in Nat /\ epoch \in Nat /\ AttemptCount \in Nat
      BY TypedParts, TypeFacts
    <3> QED
      BY <3>1 DEF NewCommand, Commands, CommandTypes
  <2>3. hist' \in HistTypes
    BY <1>3, TypedParts DEF Hello
  <2>4. cmdQ' \in Seq(Commands)
    <3>1. cmdQ \in Seq(Commands)
      BY TypedParts
    <3>2. cmdQ' \in {cmdQ, Append(cmdQ, NewCommand("STATUS", AttemptCount, 0, ListRequest))}
      BY <1>3 DEF Hello
    <3> QED
      BY <2>2, <3>1, <3>2
  <2> QED
    BY <1>3, <2>1, <2>3, <2>4, TypedParts, OnlyWorkerTyped DEF Hello
<1>4. CASE HelloDone
  <2>1. w' \in WorkerTypes /\ hist' \in HistTypes
    BY <1>4, FinishTyped DEF HelloDone, Fates
  <2> QED
    BY <1>4, <2>1, TypedParts, OnlyWorkerTyped DEF HelloDone
<1> QED
  BY <1>1, <1>2, <1>3, <1>4

\* Every element of a concatenation is an element of a part.
LEMMA ElementOfConcat ==
  ASSUME NEW S, NEW q \in Seq(S), NEW r \in Seq(S), NEW i \in DOMAIN (q \o r)
  PROVE  \/ i \in DOMAIN q /\ (q \o r)[i] = q[i]
         \/ \E j \in DOMAIN r : (q \o r)[i] = r[j]
<1>1. Len(q) \in Nat /\ Len(r) \in Nat /\ i \in 1 .. Len(q) + Len(r)
      /\ DOMAIN q = 1 .. Len(q) /\ DOMAIN r = 1 .. Len(r)
  OBVIOUS
<1>2. CASE i <= Len(q)
  BY <1>1, <1>2
<1>3. CASE ~(i <= Len(q))
  <2>1. i - Len(q) \in DOMAIN r /\ (q \o r)[i] = r[i - Len(q)]
    BY <1>1, <1>3
  <2> QED
    BY <2>1
<1> QED
  BY <1>2, <1>3

\* Every chunk among these answers is of a journal.
OfJournals(q) == \A i \in DOMAIN q : q[i].verb = "file" => q[i].proc \in Procs

\* The controller reads a command and answers with any answers.
LEMMA ReplyTyped ==
  ASSUME Typed, ctl.inbox # << >>, NEW more \in Seq(Answers), OfJournals(more),
         ctl' = [inbox |-> Tail(ctl.inbox), line |-> ctl.line \o more],
         UNCHANGED <<tr, cmdQ, safetyQ, epoch, caller, w, bits, rect, rx, stored, hist>>
  PROVE  Typed'
<1>1. ctl.inbox \in Seq(Lines) /\ ctl.line \in Seq(Answers)
  BY DEF Typed, TypeOK
<1>2. Tail(ctl.inbox) \in Seq(Lines) /\ ctl.line \o more \in Seq(Answers)
  BY <1>1
<1>3. JournalLine'
  <2> SUFFICES ASSUME NEW i \in DOMAIN (ctl.line \o more), (ctl.line \o more)[i].verb = "file"
               PROVE  (ctl.line \o more)[i].proc \in Procs
    BY DEF JournalLine
  <2>1. \/ i \in DOMAIN ctl.line /\ (ctl.line \o more)[i] = ctl.line[i]
        \/ \E j \in DOMAIN more : (ctl.line \o more)[i] = more[j]
    BY <1>1, ElementOfConcat
  <2> QED
    BY <2>1 DEF Typed, JournalLine, OfJournals
<1> QED
  BY <1>2, <1>3 DEF Typed, TypeOK

\* The two shapes an answer of the controller has.
LEMMA OneReply == ASSUME NEW a \in Answers, a.verb # "file"
                  PROVE  <<a>> \in Seq(Answers) /\ OfJournals(<<a>>)
  BY DEF OfJournals

LEMMA TwoReplies == ASSUME NEW a \in Answers, a.verb # "file", NEW b \in Answers, b.proc \in Procs
                    PROVE  <<a, b>> \in Seq(Answers) /\ OfJournals(<<a, b>>)
  BY DEF OfJournals

LEMMA ControllerTyped == ASSUME Typed, ControllerReads PROVE Typed'
<1> DEFINE c == Head(ctl.inbox)
           Reply(more) == ctl' = [inbox |-> Tail(ctl.inbox), line |-> ctl.line \o more]
<1>1. ctl.inbox # << >>
      /\ UNCHANGED <<tr, cmdQ, safetyQ, epoch, caller, w, bits, rect, rx, stored, hist>>
  BY DEF ControllerReads
<1>2. c \in Lines
  BY <1>1, HeadTailProperties DEF Typed, TypeOK
<1>3. c.type \in CommandTypes /\ c.type # "file" /\ c.proc \in Procs \cup {ListRequest}
  BY <1>2 DEF Lines, CommandTypes
<1>4. \A ok \in BOOLEAN : Answer(c.type, ok, c.proc) \in Answers
                          /\ Answer(c.type, ok, c.proc).verb # "file"
  BY <1>3 DEF Answer, Answers
<1>5. CASE Reply(<< >>)
  <2>1. << >> \in Seq(Answers) /\ OfJournals(<< >>)
    BY DEF OfJournals
  <2> QED
    BY <1>1, <1>5, <2>1, ReplyTyped
<1>6. ASSUME NEW ok \in BOOLEAN, Reply(<<Answer(c.type, ok, c.proc)>>) PROVE Typed'
  <2>1. <<Answer(c.type, ok, c.proc)>> \in Seq(Answers)
        /\ OfJournals(<<Answer(c.type, ok, c.proc)>>)
    BY <1>4, OneReply
  <2> QED
    BY <1>1, <1>6, <2>1, ReplyTyped
<1>7. CASE /\ c.proc # ListRequest
           /\ Reply(<<Answer("GET_LOG", TRUE, c.proc), Answer("file", TRUE, c.proc)>>)
  <2>1. /\ Answer("GET_LOG", TRUE, c.proc) \in Answers
        /\ Answer("GET_LOG", TRUE, c.proc).verb # "file"
        /\ Answer("file", TRUE, c.proc) \in Answers /\ Answer("file", TRUE, c.proc).proc \in Procs
    BY <1>3, <1>7 DEF Answer, Answers, CommandTypes
  <2> DEFINE r == <<Answer("GET_LOG", TRUE, c.proc), Answer("file", TRUE, c.proc)>>
  <2>2. r \in Seq(Answers) /\ OfJournals(r)
    BY <2>1, TwoReplies
  <2> QED
    BY <1>1, <1>7, <2>2, ReplyTyped
<1>8. \/ Reply(<< >>)
      \/ Reply(<<Answer(c.type, FALSE, c.proc)>>)
      \/ Reply(<<Answer(c.type, TRUE, c.proc)>>)
      \/ /\ c.proc # ListRequest
         /\ Reply(<<Answer("GET_LOG", TRUE, c.proc), Answer("file", TRUE, c.proc)>>)
  BY DEF ControllerReads
<1>9. FALSE \in BOOLEAN /\ TRUE \in BOOLEAN
  OBVIOUS
<1> QED
  BY <1>5, <1>6, <1>7, <1>8, <1>9

\* The first frame on the line is taken off it.
LEMMA LineTaken ==
  ASSUME Typed, ctl.line # << >>, ctl' = [ctl EXCEPT !.line = Tail(@)]
  PROVE  /\ ctl' \in [inbox: Seq(Lines), line: Seq(Answers)] /\ JournalLine'
         /\ Head(ctl.line) \in Answers
         /\ Head(ctl.line).verb = "file" => Head(ctl.line).proc \in Procs
<1>1. ctl \in [inbox: Seq(Lines), line: Seq(Answers)] /\ ctl.line \in Seq(Answers)
  BY DEF Typed, TypeOK
<1>2. Head(ctl.line) \in Answers /\ Tail(ctl.line) \in Seq(Answers)
      /\ Head(ctl.line) = ctl.line[1] /\ 1 \in DOMAIN ctl.line
      /\ \A i \in DOMAIN Tail(ctl.line) :
            i + 1 \in DOMAIN ctl.line /\ Tail(ctl.line)[i] = ctl.line[i + 1]
  BY <1>1, HeadTailProperties
<1>3. ctl'.line = Tail(ctl.line) /\ ctl' \in [inbox: Seq(Lines), line: Seq(Answers)]
  BY <1>1, <1>2
<1>4. JournalLine'
  BY <1>2, <1>3 DEF Typed, JournalLine
<1> QED
  BY <1>2, <1>3, <1>4 DEF Typed, JournalLine

LEMMA ReceiverTyped == ASSUME Typed, ReceiverStep PROVE Typed'
<1>1. CASE RxLogFrame
  <2>1. WellFormed(LogFrame(Head(ctl.line)))
    <3>1. Head(ctl.line) \in Answers
          /\ (Head(ctl.line).verb = "file" => Head(ctl.line).proc \in Procs)
      BY <1>1, LineTaken DEF RxLogFrame
    <3> QED
      BY <3>1 DEF WellFormed, LogFrame, Frames, Answers
  <2>2. tr' \in Transfers
    BY <1>1, <2>1, TypedParts, ConsumeTyped DEF RxLogFrame
  <2>3. ctl' \in [inbox: Seq(Lines), line: Seq(Answers)] /\ JournalLine'
    BY <1>1, LineTaken DEF RxLogFrame
  <2> QED
    BY <1>1, <2>2, <2>3 DEF RxLogFrame, Typed, TypeOK
<1>2. CASE RxResponse
  <2>1. ctl' \in [inbox: Seq(Lines), line: Seq(Answers)] /\ JournalLine'
        /\ Head(ctl.line) \in Answers
    BY <1>2, LineTaken DEF RxResponse
  <2>2. Head(ctl.line).verb \in CommandTypes
    BY <1>2, <2>1 DEF RxResponse, Answers
  <2>3. rx' \in EventBits /\ stored' \in CommandTypes \cup {"none"}
    BY <1>2, <2>2, TypeFacts DEF RxResponse, Typed, TypeOK, EventBits
  <2>4. tr' \in Transfers
    BY <1>2, TypedParts, MethodsTyped DEF RxResponse
  <2> QED
    BY <1>2, <2>1, <2>3, <2>4 DEF RxResponse, Typed, TypeOK
<1>3. CASE RxSetBit
  <2>1. rx \in EventBits
    BY <1>3 DEF RxSetBit, Typed, TypeOK
  <2>2. bits \in SUBSET EventBits /\ w \in WorkerTypes /\ "answer" \in WorkerPcs
    BY TypedParts DEF WorkerPcs
  <2>3. [w EXCEPT !.pc = "answer", !.got = bits \cup {rx}] \in WorkerTypes
    BY <2>1, <2>2, WorkerFacts
  <2>4. w' \in WorkerTypes
    BY <1>3, <2>2, <2>3 DEF RxSetBit, SetBit
  <2>5. bits' \in SUBSET EventBits
    BY <1>3, <2>1, <2>2 DEF RxSetBit, SetBit
  <2> QED
    BY <1>3, <2>4, <2>5 DEF RxSetBit, Typed, TypeOK, JournalLine, WorkerTypes, WorkerPcs
<1> QED
  BY <1>1, <1>2, <1>3 DEF ReceiverStep

LEMMA OthersTyped == ASSUME Typed, Telemetry \/ RectWaits \/ SessionTimeout PROVE Typed'
<1>1. tr' \in Transfers
  BY TypedParts, MethodsTyped DEF Telemetry, RectWaits, SessionTimeout, Reasons
<1>2. bits' \in SUBSET EventBits /\ rect' \in {"waiting", "busy"}
  BY DEF Telemetry, RectWaits, SessionTimeout, Typed, TypeOK, EventBits
<1> QED
  BY <1>1, <1>2 DEF Telemetry, RectWaits, SessionTimeout, Typed, TypeOK, JournalLine

\* Every step of the system keeps the types.
LEMMA NextTyped == ASSUME Typed, [Next]_vars PROVE Typed'
<1>1. CASE WorkerStep
  BY <1>1, TakingTyped, DecidingTyped, AttemptTyped, WriteOkTyped, WaitTyped, OutcomeTyped
     DEF WorkerStep
<1>2. CASE UNCHANGED vars
  BY <1>2 DEF vars, Typed, TypeOK, JournalLine
<1> QED
  BY <1>1, <1>2, CallTyped, TaskStepTyped, ControllerTyped, ReceiverTyped, OthersTyped DEF Next

LEMMA InitTyped == Init => Typed
<1> SUFFICES ASSUME Init PROVE Typed
  OBVIOUS
<1>1. tr \in Transfers
  BY MethodsTyped DEF Init
<1>2. caller \in CallerTypes /\ w \in WorkerTypes
  BY TypeFacts DEF Init, CallerTypes
<1>3. hist \in HistTypes
  BY DEF Init, HistTypes
<1> QED
  BY <1>1, <1>2, <1>3 DEF Init, Typed, TypeOK, JournalLine, CallerTypes, WorkerTypes, WorkerPcs,
     HistTypes, EventBits

\* Everything in the queue component keeps its type, whatever the interleaving.
THEOREM QueueTypeCorrect == Spec => []TypeOK
<1>1. Init => Typed
  BY InitTyped
<1>2. Typed /\ [Next]_vars => Typed'
  BY NextTyped
<1>3. Typed => TypeOK
  BY DEF Typed
<1> QED
  BY <1>1, <1>2, <1>3, PTL DEF Spec

-----------------------------------------------------------------------------

\* The worker has a command except while it looks for one.
Holding == w.cmd.id = NoCmd.id <=> w.pc \in {"safety", "queue"}

Owned == EachCommandOwned /\ Holding

\* Only what the worker holds or has ended was written, and one that must not be
\* repeated is not written when an attempt begins.
BeforeAttempts == {"check", "gate", "requeue"}
Attempting == {"attempt", "probe", "cancel", "mark", "write"}

Unwritten ==
    /\ hist.written \subseteq DOMAIN hist.fate
    /\ (Open \ InWorker) \cap hist.written = {}
    /\ \/ w.pc \in BeforeAttempts
       \/ w.pc \in Attempting /\ NonIdempotent(w.cmd.type)
       => w.cmd.id \notin hist.written

StopsOnly ==
    /\ \A i \in DOMAIN safetyQ : safetyQ[i].type = "STOP"
    /\ \A t \in Tasks : caller[t].pc = "sendSafety" => caller[t].cmd.type = "STOP"

\* What overtook a waiting STOP is one command, and the worker has not taken
\* another from the FIFO since.
Overtaken ==
    /\ StopsOnly
    /\ safetyQ = << >> \/ w.pc = "queue" => hist.overtook = {}
    /\ w.pc = "safety" \/ w.cmd.type = "STOP" \/ hist.overtook \subseteq {w.cmd.id}
    /\ \A i, j \in hist.overtook : i = j

\* Past the gate an ordinary command finds no journal request on the line: only
\* the worker itself sends one.
PastGate == w.pc \notin {"safety", "queue", "check", "gate", "requeue"}

Ordinary(c) == c.type \notin {"GET_LOG", "STOP"}

GateHolds ==
    /\ w.pc = "mark" => w.cmd.type = "GET_LOG"
    /\ PastGate /\ Ordinary(w.cmd) => tr.status \notin WaitingStatuses

-----------------------------------------------------------------------------
(* Who owns a command.                                                     *)

OneMaker ==
    \A s, t \in Tasks :
        Making(s) /\ Making(t) /\ caller[s].cmd.id = caller[t].cmd.id => s = t

\* What xQueueSend() does to the ids in a queue.
LEMMA IdsAppend ==
  ASSUME NEW q \in Seq(Commands), NEW c \in Commands
  PROVE  /\ IdsOf(Append(q, c)) = IdsOf(q) \cup {c.id}
         /\ Distinct(q) /\ c.id \notin IdsOf(q) => Distinct(Append(q, c))
<1>1. /\ Len(q) \in Nat /\ DOMAIN q = 1 .. Len(q) /\ DOMAIN Append(q, c) = 1 .. Len(q) + 1
      /\ \A i \in 1 .. Len(q) : Append(q, c)[i] = q[i]
      /\ Append(q, c)[Len(q) + 1] = c
  BY AppendProperties, LenProperties
<1>2. 1 .. Len(q) + 1 = (1 .. Len(q)) \cup {Len(q) + 1}
  BY <1>1
<1>3. IdsOf(Append(q, c)) = IdsOf(q) \cup {c.id}
  BY <1>1, <1>2 DEF IdsOf
<1>4. ASSUME Distinct(q), c.id \notin IdsOf(q) PROVE Distinct(Append(q, c))
  BY <1>1, <1>2, <1>4 DEF Distinct, IdsOf
<1> QED
  BY <1>3, <1>4

\* What xQueueReceive() does to the ids in a queue.
LEMMA IdsTail ==
  ASSUME NEW q \in Seq(Commands), q # << >>, Distinct(q)
  PROVE  /\ IdsOf(Tail(q)) = IdsOf(q) \ {Head(q).id}
         /\ Head(q).id \in IdsOf(q) /\ Distinct(Tail(q))
<1>1. /\ Len(q) \in Nat /\ Len(q) # 0 /\ DOMAIN q = 1 .. Len(q) /\ Head(q) = q[1]
      /\ DOMAIN Tail(q) = 1 .. Len(q) - 1
      /\ \A i \in 1 .. Len(q) - 1 : Tail(q)[i] = q[i + 1]
  BY HeadTailProperties, LenProperties, EmptySeq
<1>2. 1 \in 1 .. Len(q) /\ \A i \in 1 .. Len(q) - 1 : i + 1 \in 1 .. Len(q) /\ i + 1 # 1
  BY <1>1
<1>3. \A i \in 1 .. Len(q) : i # 1 => i - 1 \in 1 .. Len(q) - 1 /\ (i - 1) + 1 = i
  BY <1>1
<1>4. Head(q).id \in IdsOf(q)
  BY <1>1, <1>2 DEF IdsOf
<1>5. IdsOf(Tail(q)) \subseteq IdsOf(q) \ {Head(q).id}
  BY <1>1, <1>2 DEF IdsOf, Distinct
<1>6. IdsOf(q) \ {Head(q).id} \subseteq IdsOf(Tail(q))
  <2> SUFFICES ASSUME NEW i \in 1 .. Len(q), q[i].id # Head(q).id
               PROVE  \E j \in DOMAIN Tail(q) : q[i].id = Tail(q)[j].id
    BY <1>1 DEF IdsOf
  <2>1. i # 1
    BY <1>1
  <2> QED
    BY <1>1, <1>3, <2>1
<1>7. Distinct(Tail(q))
  <2> SUFFICES ASSUME NEW i \in 1 .. Len(q) - 1, NEW j \in 1 .. Len(q) - 1,
                      Tail(q)[i].id = Tail(q)[j].id
               PROVE  i = j
    BY <1>1 DEF Distinct
  <2>1. i + 1 = j + 1
    BY <1>1, <1>2 DEF Distinct
  <2> QED
    BY <1>1, <2>1
<1> QED
  BY <1>4, <1>5, <1>6, <1>7

\* How the set of open commands changes with the history.
LEMMA OpenFacts ==
  ASSUME Typed
  PROVE  /\ Open \subseteq Nat \ {0} /\ NewId \notin Open /\ NewId # 0
         /\ hist'.fate = hist.fate => Open' = Open
         /\ hist'.fate = Append(hist.fate, "open") => Open' = Open \cup {NewId}
         /\ \A i \in Open : \A fate \in Fates \ {"open"} :
               hist'.fate = [hist.fate EXCEPT ![i] = fate] => Open' = Open \ {i}
<1>1. /\ hist.fate \in Seq(Fates) /\ Len(hist.fate) \in Nat
      /\ DOMAIN hist.fate = 1 .. Len(hist.fate)
  BY TypedParts DEF HistTypes
<1>2. Open \subseteq Nat \ {0} /\ NewId \notin Open /\ NewId # 0
  BY <1>1 DEF Open, NewId
<1>3. hist'.fate = hist.fate => Open' = Open
  BY DEF Open
<1>4. ASSUME hist'.fate = Append(hist.fate, "open") PROVE Open' = Open \cup {NewId}
  <2>1. /\ DOMAIN hist'.fate = (1 .. Len(hist.fate)) \cup {NewId}
        /\ \A i \in 1 .. Len(hist.fate) : hist'.fate[i] = hist.fate[i]
        /\ hist'.fate[NewId] = "open"
    BY <1>1, <1>4 DEF NewId, Fates
  <2> QED
    BY <1>1, <2>1 DEF Open
<1>5. ASSUME NEW i \in Open, NEW fate \in Fates \ {"open"},
             hist'.fate = [hist.fate EXCEPT ![i] = fate]
      PROVE  Open' = Open \ {i}
  BY <1>5 DEF Open
<1> QED
  BY <1>2, <1>3, <1>4, <1>5

\* A task has a command of its own from `new` on.
LEMMA MakingStarts ==
  ASSUME Typed, OneMaker, NEW t \in Tasks, ~Making(t), NEW pc \in {"send", "sendSafety"},
         NEW c \in Commands, TaskGoes(t, pc, c), c.id \notin InMaking
  PROVE  InMaking' = InMaking \cup {c.id} /\ OneMaker'
<1>1. caller \in CallerTypes
  BY TypedParts
<1>2. /\ caller'[t].pc = pc /\ caller'[t].cmd = c
      /\ \A s \in Tasks : s # t => caller'[s] = caller[s]
  BY <1>1 DEF TaskGoes, CallerTypes
<1>3. Making(t)' /\ \A s \in Tasks : s # t => (Making(s)' <=> Making(s))
  BY <1>2 DEF Making
<1>4. InMaking' = InMaking \cup {c.id}
  BY <1>2, <1>3 DEF InMaking, Making
<1>5. OneMaker'
  <2> SUFFICES ASSUME NEW r \in Tasks, NEW s \in Tasks, Making(r)', Making(s)',
                      caller'[r].cmd.id = caller'[s].cmd.id
               PROVE  r = s
    BY DEF OneMaker
  <2>1. CASE r # t /\ s # t
    BY <1>2, <1>3, <2>1 DEF OneMaker
  <2>2. CASE r # t /\ s = t
    BY <1>2, <1>3, <2>2 DEF InMaking
  <2>3. CASE r = t /\ s # t
    BY <1>2, <1>3, <2>3 DEF InMaking
  <2> QED
    BY <2>1, <2>2, <2>3
<1> QED
  BY <1>4, <1>5

\* A task gives its command away, to a queue or to `delete`.
LEMMA MakingEnds ==
  ASSUME Typed, OneMaker, NEW t \in Tasks, Making(t), NEW x \in {IdleTask, [pc |-> "publish", cmd |-> caller[t].cmd]},
         caller' = [caller EXCEPT ![t] = x]
  PROVE  InMaking' = InMaking \ {caller[t].cmd.id} /\ caller[t].cmd.id \in InMaking /\ OneMaker'
<1>1. caller \in CallerTypes
  BY TypedParts
<1>2. caller'[t].pc \in {"idle", "publish"} /\ \A s \in Tasks : s # t => caller'[s] = caller[s]
  BY <1>1 DEF CallerTypes, IdleTask
<1>3. ~Making(t)' /\ \A s \in Tasks : s # t => (Making(s)' <=> Making(s))
  BY <1>2 DEF Making
<1>4. InMaking' = InMaking \ {caller[t].cmd.id}
  <2>1. InMaking' = {caller'[s].cmd.id : s \in {s \in Tasks : Making(s)'}}
    BY DEF InMaking
  <2>2. \A s \in Tasks : Making(s)' <=> Making(s) /\ s # t
    BY <1>3
  <2>3. \A s \in Tasks : Making(s) /\ s # t => caller[s].cmd.id # caller[t].cmd.id
    BY DEF OneMaker
  <2> QED
    BY <1>2, <2>1, <2>2, <2>3 DEF InMaking
<1>5. caller[t].cmd.id \in InMaking
  BY DEF InMaking
<1>6. OneMaker'
  BY <1>2, <1>3 DEF OneMaker
<1> QED
  BY <1>4, <1>5, <1>6

\* Steps on which no task gets or gives a command.
LEMMA MakingSame ==
  ASSUME Typed, OneMaker,
         \/ caller' = caller
         \/ \E t \in Tasks : caller[t].pc = "publish" /\ TaskDone(t)
  PROVE  InMaking' = InMaking /\ OneMaker'
<1>1. CASE caller' = caller
  BY <1>1 DEF InMaking, Making, OneMaker
<1>2. ASSUME NEW t \in Tasks, caller[t].pc = "publish", TaskDone(t)
      PROVE  InMaking' = InMaking /\ OneMaker'
  <2>1. caller'[t].pc = "idle" /\ \A s \in Tasks : s # t => caller'[s] = caller[s]
    BY <1>2, TypedParts DEF CallerTypes, IdleTask, TaskDone
  <2>2. \A s \in Tasks : Making(s)' <=> Making(s)
    BY <1>2, <2>1 DEF Making
  <2>3. \A s \in Tasks : Making(s) => caller'[s] = caller[s]
    BY <1>2, <2>1 DEF Making
  <2> QED
    BY <2>2, <2>3 DEF InMaking, OneMaker
<1> QED
  BY <1>1, <1>2

\* Owned, from what a step makes of each part.
LEMMA OwnedFrom ==
  ASSUME Open' = InMaking' \cup IdsOf(cmdQ') \cup IdsOf(safetyQ') \cup InWorker',
         Distinct(cmdQ'), Distinct(safetyQ'), OneMaker', Holding',
         InMaking' \cap (IdsOf(cmdQ') \cup IdsOf(safetyQ') \cup InWorker') = {},
         IdsOf(cmdQ') \cap (IdsOf(safetyQ') \cup InWorker') = {},
         IdsOf(safetyQ') \cap InWorker' = {}
  PROVE  Owned'
  BY DEF Owned, EachCommandOwned, OneMaker

\* The parts of Owned, so that a step names those it touches.
LEMMA OwnedParts ==
  ASSUME Typed, Owned
  PROVE  /\ Open = InMaking \cup IdsOf(cmdQ) \cup IdsOf(safetyQ) \cup InWorker
         /\ Distinct(cmdQ) /\ Distinct(safetyQ) /\ OneMaker /\ Holding
         /\ InMaking \cap (IdsOf(cmdQ) \cup IdsOf(safetyQ) \cup InWorker) = {}
         /\ IdsOf(cmdQ) \cap (IdsOf(safetyQ) \cup InWorker) = {}
         /\ IdsOf(safetyQ) \cap InWorker = {}
         /\ w.pc \in {"safety", "queue"} => InWorker = {}
         /\ w.pc \notin {"safety", "queue"} => InWorker = {w.cmd.id} /\ w.cmd.id \in Open
<1>1. Holding /\ InWorker = {w.cmd.id} \ {0}
  BY DEF Owned, InWorker, NoCmd
<1> QED
  BY <1>1 DEF Owned, EachCommandOwned, OneMaker, Holding, NoCmd

\* A step that moves no command.
LEMMA OwnedSame ==
  ASSUME Typed, Owned, UNCHANGED <<cmdQ, safetyQ, caller>>, hist'.fate = hist.fate,
         w'.cmd.id = w.cmd.id,
         w'.pc \in {"safety", "queue"} <=> w.pc \in {"safety", "queue"}
  PROVE  Owned'
<1>1. InMaking' = InMaking /\ OneMaker' /\ Open' = Open
  BY OwnedParts, MakingSame, OpenFacts
<1>2. InWorker' = InWorker /\ Holding'
  BY OwnedParts DEF InWorker, Holding
<1> QED
  BY <1>1, <1>2, OwnedParts, OwnedFrom

\* A task makes a command.
LEMMA OwnedCall ==
  ASSUME Typed, Owned, NEW t \in Tasks, caller[t].pc = "idle", NEW pc \in {"send", "sendSafety"},
         NEW c \in Commands, c.id = NewId, TaskGoes(t, pc, c),
         hist'.fate = Append(hist.fate, "open"), UNCHANGED <<cmdQ, safetyQ, w>>
  PROVE  Owned'
<1>1. Open' = Open \cup {NewId} /\ NewId \notin Open
  BY OpenFacts
<1>2. ~Making(t) /\ NewId \notin InMaking
  BY <1>1, OwnedParts DEF Making
<1>3. InMaking' = InMaking \cup {NewId} /\ OneMaker'
  BY <1>2, OwnedParts, MakingStarts
<1>4. InWorker' = InWorker /\ Holding'
  BY OwnedParts DEF InWorker, Holding
<1> QED
  BY <1>1, <1>3, <1>4, OwnedParts, OwnedFrom

\* A call that makes a command: its task owns it.
LEMMA CallOwned ==
  ASSUME Typed, Owned, NEW t \in Tasks,
         \/ \E type \in Types : Push(t, type)
         \/ \E p \in Procs \cup {ListRequest} : PushGetLog(t, p)
         \/ EmergencyStop(t)
  PROVE  Owned'
<1>1. Born.fate = Append(hist.fate, "open")
      /\ [Born EXCEPT !.stops = @ + 1].fate = Append(hist.fate, "open")
  BY TypedParts DEF Born, HistTypes
<1>2. ASSUME NEW type \in Types, Push(t, type) PROVE Owned'
  <2>1. NewCommand(type, AttemptCount, 0, ListRequest) \in Commands
        /\ NewCommand(type, AttemptCount, 0, ListRequest).id = NewId
    BY NewCommandTyped, TypeFacts, TypesAssumption
  <2> QED
    BY <1>1, <1>2, <2>1, OwnedCall DEF Push
<1>3. ASSUME NEW p \in Procs \cup {ListRequest}, PushGetLog(t, p) PROVE Owned'
  <2>1. tr'.gen \in Nat
    BY <1>3, TypedParts, MethodsTyped DEF PushGetLog, Transfers
  <2>2. NewCommand("GET_LOG", 1, tr'.gen, p) \in Commands
        /\ NewCommand("GET_LOG", 1, tr'.gen, p).id = NewId
    BY <2>1, NewCommandTyped DEF CommandTypes
  <2> QED
    BY <1>1, <1>3, <2>2, OwnedCall DEF PushGetLog
<1>4. CASE EmergencyStop(t)
  <2> DEFINE c == NewCommand("STOP", 1, 0, ListRequest)
  <2>1. c \in Commands /\ c.id = NewId /\ [c EXCEPT !.epoch = epoch + 1] \in Commands
    BY NewCommandTyped DEF CommandTypes
  <2>2. [c EXCEPT !.epoch = epoch + 1].id = NewId
    BY <2>1 DEF NewCommand
  <2> QED
    BY <1>1, <1>4, <2>1, <2>2, OwnedCall DEF EmergencyStop
<1> QED
  BY <1>2, <1>3, <1>4

\* A task puts its command into a queue, or gives it up.
LEMMA TaskStepOwned == ASSUME Typed, Owned, NEW t \in Tasks, TaskStep(t) PROVE Owned'
<1> DEFINE c == caller[t].cmd
<1>1. c \in Commands /\ cmdQ \in Seq(Commands) /\ safetyQ \in Seq(Commands)
  BY TypedParts DEF CallerTypes
<1>2. ASSUME Making(t), TaskDone(t) \/ TaskGoes(t, "publish", c)
      PROVE  InMaking' = InMaking \ {c.id} /\ c.id \in InMaking /\ OneMaker'
    BY <1>2, MakingEnds, OwnedParts DEF TaskDone, TaskGoes
<1>3. w' = w => InWorker' = InWorker /\ Holding'
  BY OwnedParts DEF InWorker, Holding
<1>4. CASE Send(t)
  <2>1. Making(t) /\ TaskDone(t) /\ cmdQ' = Append(cmdQ, c) /\ safetyQ' = safetyQ
        /\ hist' = hist /\ w' = w
    BY <1>4 DEF Send, Making
  <2>2. Open' = Open
    BY <2>1, OpenFacts
  <2>3. InMaking' = InMaking \ {c.id} /\ c.id \in InMaking /\ OneMaker'
    BY <1>2, <2>1
  <2>4. c.id \notin IdsOf(cmdQ)
    BY <2>3, OwnedParts
  <2>5. IdsOf(cmdQ') = IdsOf(cmdQ) \cup {c.id} /\ Distinct(cmdQ')
    BY <1>1, <2>1, <2>4, OwnedParts, IdsAppend
  <2> QED
    BY <1>3, <2>1, <2>2, <2>3, <2>5, OwnedParts, OwnedFrom
<1>5. CASE SendSafety(t)
  <2>1. Making(t) /\ TaskGoes(t, "publish", c) /\ safetyQ' = Append(safetyQ, c)
        /\ cmdQ' = cmdQ /\ hist' = hist /\ w' = w
    BY <1>5 DEF SendSafety, Making
  <2>2. Open' = Open
    BY <2>1, OpenFacts
  <2>3. InMaking' = InMaking \ {c.id} /\ c.id \in InMaking /\ OneMaker'
    BY <1>2, <2>1
  <2>4. c.id \notin IdsOf(safetyQ)
    BY <2>3, OwnedParts
  <2>5. IdsOf(safetyQ') = IdsOf(safetyQ) \cup {c.id} /\ Distinct(safetyQ')
    BY <1>1, <2>1, <2>4, OwnedParts, IdsAppend
  <2> QED
    BY <1>3, <2>1, <2>2, <2>3, <2>5, OwnedParts, OwnedFrom
<1>6. CASE SendRefused(t) \/ SafetyRefused(t)
  <2>1. Making(t) /\ TaskDone(t) /\ cmdQ' = cmdQ /\ safetyQ' = safetyQ /\ w' = w
        /\ hist' = Ended(c, "refused")
    BY <1>6 DEF SendRefused, SafetyRefused, Making
  <2>2. InMaking' = InMaking \ {c.id} /\ c.id \in InMaking /\ OneMaker'
    BY <1>2, <2>1
  <2>3. c.id \in Open /\ hist'.fate = [hist.fate EXCEPT ![c.id] = "refused"]
    BY <2>1, <2>2, OwnedParts, TypedParts DEF Ended, HistTypes
  <2>4. Open' = Open \ {c.id}
    BY <2>3, OpenFacts DEF Fates
  <2> QED
    BY <1>3, <2>1, <2>2, <2>4, OwnedParts, OwnedFrom
<1>7. CASE Publish(t)
  <2>1. caller[t].pc = "publish" /\ TaskDone(t) /\ UNCHANGED <<cmdQ, safetyQ, w>>
        /\ hist'.fate = hist.fate
    BY <1>7, TypedParts DEF Publish, HistTypes
  <2>2. InMaking' = InMaking /\ OneMaker' /\ Open' = Open
    BY <2>1, MakingSame, OwnedParts, OpenFacts
  <2> QED
    BY <1>3, <2>1, <2>2, OwnedParts, OwnedFrom
<1> QED
  BY <1>4, <1>5, <1>6, <1>7 DEF TaskStep

\* The worker takes a command from a queue.
LEMMA TakenOwned ==
  ASSUME Typed, Owned, TakeSafety \/ TakeCommand
  PROVE  Owned' /\ w'.cmd.id \in Open
<1>1. InMaking' = InMaking /\ OneMaker' /\ Open' = Open /\ InWorker = {}
  <2>1. caller' = caller /\ hist'.fate = hist.fate /\ w.pc \in {"safety", "queue"}
    BY TypedParts DEF TakeSafety, TakeCommand, HistTypes
  <2> QED
    BY <2>1, MakingSame, OpenFacts, OwnedParts
<1>2. ASSUME NEW q \in {cmdQ, safetyQ}, q # << >>,
             w' = [AtSafety EXCEPT !.pc = "check", !.cmd = Head(q)]
      PROVE  /\ InWorker' = {Head(q).id} /\ Holding' /\ Head(q).id \in Open
             /\ IdsOf(Tail(q)) = IdsOf(q) \ {Head(q).id}
             /\ Head(q).id \in IdsOf(q) /\ Distinct(Tail(q)) /\ w'.cmd.id = Head(q).id
  <2>1. q \in Seq(Commands) /\ Distinct(q) /\ IdsOf(q) \subseteq Open
    BY TypedParts, OwnedParts
  <2>2. /\ IdsOf(Tail(q)) = IdsOf(q) \ {Head(q).id}
        /\ Head(q).id \in IdsOf(q) /\ Distinct(Tail(q))
    BY <1>2, <2>1, IdsTail
  <2>3. Head(q).id \in Open /\ Head(q).id # 0
    BY <2>1, <2>2, OpenFacts
  <2>4. w'.cmd = Head(q) /\ w'.pc = "check"
    BY <1>2 DEF AtSafety
  <2> QED
    BY <2>2, <2>3, <2>4 DEF InWorker, Holding, NoCmd
<1>3. CASE TakeSafety
  <2>1. /\ InWorker' = {Head(safetyQ).id} /\ Holding' /\ Head(safetyQ).id \in Open
        /\ IdsOf(safetyQ') = IdsOf(safetyQ) \ {Head(safetyQ).id}
        /\ Head(safetyQ).id \in IdsOf(safetyQ) /\ Distinct(safetyQ')
        /\ w'.cmd.id = Head(safetyQ).id /\ cmdQ' = cmdQ
    BY <1>2, <1>3 DEF TakeSafety
  <2> QED
    BY <1>1, <2>1, OwnedParts, OwnedFrom
<1>4. CASE TakeCommand
  <2>1. /\ InWorker' = {Head(cmdQ).id} /\ Holding' /\ Head(cmdQ).id \in Open
        /\ IdsOf(cmdQ') = IdsOf(cmdQ) \ {Head(cmdQ).id}
        /\ Head(cmdQ).id \in IdsOf(cmdQ) /\ Distinct(cmdQ')
        /\ w'.cmd.id = Head(cmdQ).id /\ safetyQ' = safetyQ
    BY <1>2, <1>4 DEF TakeCommand
  <2> QED
    BY <1>1, <2>1, OwnedParts, OwnedFrom
<1> QED
  BY <1>3, <1>4

\* The worker is through with its command and starts again.
LEMMA EndedOwned ==
  ASSUME Typed, Owned, w.pc \notin {"safety", "queue"}, w' = AtSafety,
         NEW fate \in Fates \ {"open"},
         hist'.fate = [hist.fate EXCEPT ![w.cmd.id] = fate], UNCHANGED <<cmdQ, safetyQ, caller>>
  PROVE  Owned'
<1>1. InMaking' = InMaking /\ OneMaker'
  BY MakingSame, OwnedParts
<1>2. InWorker = {w.cmd.id} /\ w.cmd.id \in Open /\ Open' = Open \ {w.cmd.id}
  BY OwnedParts, OpenFacts
<1>3. InWorker' = {} /\ Holding'
  BY DEF InWorker, Holding, AtSafety, NoCmd
<1> QED
  BY <1>1, <1>2, <1>3, OwnedParts, OwnedFrom

\* `delete cmd` in the worker's loop.
LEMMA FinishOwned ==
  ASSUME Typed, Owned, w.pc \notin {"safety", "queue"}, NEW fate \in Fates \ {"open"},
         Finish(fate), UNCHANGED <<cmdQ, safetyQ, caller>>
  PROVE  Owned'
<1>1. w' = AtSafety /\ hist'.fate = [hist.fate EXCEPT ![w.cmd.id] = fate]
  BY TypedParts DEF Finish, Ended, HistTypes
<1> QED
  BY <1>1, EndedOwned

\* The worker goes on with its command.
LEMMA MoveOwned ==
  ASSUME Typed, Owned, NEW pc \in WorkerPcs \ {"safety", "queue"}, WorkerAt(pc),
         w.pc \notin {"safety", "queue"}, UNCHANGED <<cmdQ, safetyQ, caller>>, hist'.fate = hist.fate
  PROVE  Owned'
<1>1. w'.pc = pc /\ w'.cmd = w.cmd
  BY TypedParts DEF WorkerAt, WorkerTypes
<1> QED
  BY <1>1, OwnedSame

\* A deferred command goes from the worker to the FIFO.
LEMMA RequeueOwned == ASSUME Typed, Owned, Requeue PROVE Owned'
<1>1. w.cmd \in Commands /\ cmdQ \in Seq(Commands) /\ w.pc = "requeue"
  BY TypedParts, WorkerCmdTyped DEF Requeue
<1>2. InMaking' = InMaking /\ OneMaker' /\ Open' = Open
  BY MakingSame, OpenFacts, OwnedParts DEF Requeue
<1>3. InWorker = {w.cmd.id} /\ w.cmd.id \in Open /\ w.cmd.id \notin IdsOf(cmdQ)
  BY <1>1, OwnedParts
<1>4. InWorker' = {} /\ Holding'
  BY DEF Requeue, InWorker, Holding, AtSafety, NoCmd
<1>5. IdsOf(cmdQ') = IdsOf(cmdQ) \cup {w.cmd.id} /\ Distinct(cmdQ') /\ safetyQ' = safetyQ
  BY <1>1, <1>3, OwnedParts, IdsAppend DEF Requeue
<1> QED
  BY <1>2, <1>3, <1>4, <1>5, OwnedParts, OwnedFrom

\* sendHello(): the worker makes a command and gives it to the FIFO at once.
LEMMA HelloOwned == ASSUME Typed, Owned, Hello PROVE Owned'
<1>1. w'.pc = w.pc /\ w'.cmd = w.cmd /\ w.pc = "hello"
  BY TypedParts DEF Hello, WorkerTypes
<1>2. CASE UNCHANGED <<cmdQ, hist>>
  BY <1>1, <1>2, OwnedSame DEF Hello
<1>3. CASE /\ cmdQ' = Append(cmdQ, NewCommand("STATUS", AttemptCount, 0, ListRequest))
           /\ hist' = Born
  <2> DEFINE c == NewCommand("STATUS", AttemptCount, 0, ListRequest)
  <2>1. c \in Commands /\ c.id = NewId /\ cmdQ \in Seq(Commands)
    <3>1. "STATUS" \in CommandTypes /\ AttemptCount \in Nat /\ 0 \in Nat
          /\ ListRequest \in Procs \cup {ListRequest}
      BY TypeFacts DEF CommandTypes
    <3>2. c \in Commands /\ c.id = NewId
      BY <3>1, NewCommandTyped
    <3> QED
      BY <3>2, TypedParts
  <2>2. hist'.fate = Append(hist.fate, "open")
    BY <1>3, TypedParts DEF Born, HistTypes
  <2>3. Open' = Open \cup {NewId} /\ NewId \notin Open
    BY <2>2, OpenFacts
  <2>4. InMaking' = InMaking /\ OneMaker' /\ safetyQ' = safetyQ
    BY MakingSame, OwnedParts DEF Hello
  <2>5. InWorker' = InWorker /\ Holding'
    BY <1>1, OwnedParts DEF InWorker, Holding
  <2>6. IdsOf(cmdQ') = IdsOf(cmdQ) \cup {NewId} /\ Distinct(cmdQ')
    BY <1>3, <2>1, <2>3, OwnedParts, IdsAppend
  <2> QED
    BY <2>3, <2>4, <2>5, <2>6, OwnedParts, OwnedFrom
<1> QED
  BY <1>2, <1>3 DEF Hello

\* A GET_LOG ends with its write, any other command stays with the worker.
LEMMA WriteOkOwned == ASSUME Typed, Owned, WriteOk PROVE Owned'
<1>1. WasWritten.fate = hist.fate
      /\ [WasWritten EXCEPT !.fate[w.cmd.id] = "sent"].fate
           = [hist.fate EXCEPT ![w.cmd.id] = "sent"]
  BY TypedParts DEF WasWritten, HistTypes
<1>2. w.pc = "write" /\ UNCHANGED <<cmdQ, safetyQ, caller>>
  BY DEF WriteOk
<1>3. CASE w.cmd.type = "GET_LOG"
  BY <1>1, <1>2, <1>3, EndedOwned DEF WriteOk, Fates
<1>4. CASE w.cmd.type # "GET_LOG"
  BY <1>1, <1>2, <1>4, MoveOwned DEF WriteOk, WorkerPcs
<1> QED
  BY <1>3, <1>4

\* Each step of the worker either moves no command or is one of the above.
LEMMA WorkerOwned == ASSUME Typed, Owned, WorkerStep PROVE Owned'
<1>1. CASE TakeSafety \/ TakeCommand
  BY <1>1, TakenOwned
<1>2. CASE NoSafety \/ QueueIdle
  <2>1. w'.pc \in {"safety", "queue"} /\ w'.cmd = w.cmd /\ w.pc \in {"safety", "queue"}
    BY <1>2, TypedParts DEF NoSafety, QueueIdle, WorkerAt, WorkerTypes
  <2> QED
    BY <1>2, <2>1, OwnedSame DEF NoSafety, QueueIdle
<1>3. CASE DropStale \/ NoMoreAttempts \/ HelloDone
  BY <1>3, FinishOwned DEF DropStale, NoMoreAttempts, HelloDone, Fates
<1>4. CASE KeepFresh \/ Gate \/ StopProbe \/ StopCancel \/ Mark \/ WriteFailed
  <2>1. \E pc \in WorkerPcs \ {"safety", "queue"} : WorkerAt(pc)
    BY <1>4 DEF KeepFresh, Gate, StopProbe, StopCancel, Mark, WriteFailed, WorkerPcs
  <2> QED
    BY <1>4, <2>1, MoveOwned DEF KeepFresh, Gate, StopProbe, StopCancel, Mark, WriteFailed
<1>5. CASE Requeue \/ WriteOk \/ Hello
  BY <1>5, RequeueOwned, WriteOkOwned, HelloOwned
<1>6. CASE Attempt
  <2>1. w'.pc \in {"probe", "mark", "write"} /\ w'.cmd.id = w.cmd.id /\ w.pc = "attempt"
    BY <1>6, TypedParts DEF Attempt, WorkerTypes, Commands
  <2> QED
    BY <1>6, <2>1, OwnedSame DEF Attempt
<1>7. CASE Poll
  <2>1. w'.pc \in {"answer", "blocked"} /\ w'.cmd = w.cmd /\ w.pc = "poll"
    BY <1>7, TypedParts DEF Poll, WorkerAt, WorkerTypes
  <2> QED
    BY <1>7, <2>1, OwnedSame DEF Poll
<1>8. CASE SliceOver
  <2>1. \/ Finish("unknown")
        \/ w'.pc \in {"answer", "poll"} /\ w'.cmd = w.cmd /\ UNCHANGED hist
    BY <1>8, TypedParts DEF SliceOver, WorkerTypes
  <2>2. w.pc = "blocked" /\ UNCHANGED <<cmdQ, safetyQ, caller>>
    BY <1>8 DEF SliceOver
  <2> QED
    BY <2>1, <2>2, FinishOwned, OwnedSame DEF Fates
<1>9. CASE Success \/ Failure
  <2>1. \/ Finish("ok") \/ Finish("unknown")
        \/ w'.pc \in {"hello", "attempt"} /\ w'.cmd = w.cmd /\ UNCHANGED hist
    BY <1>9, TypedParts DEF Success, Failure, WorkerAt, WorkerTypes
  <2>2. w.pc = "answer" /\ UNCHANGED <<cmdQ, safetyQ, caller>>
    BY <1>9 DEF Success, Failure
  <2> QED
    BY <2>1, <2>2, FinishOwned, OwnedSame DEF Fates
<1> QED
  BY <1>1, <1>2, <1>3, <1>4, <1>5, <1>6, <1>7, <1>8, <1>9 DEF WorkerStep

\* Setting a bit can only wake the worker.
LEMMA SetBitMoves ==
  ASSUME Typed, RxSetBit
  PROVE  w'.cmd = w.cmd /\ (w'.pc = w.pc \/ (w.pc = "blocked" /\ w'.pc = "answer"))
<1>1. w \in WorkerTypes
  BY TypedParts
<1>2. \/ w.pc = "blocked" /\ w' = [w EXCEPT !.pc = "answer", !.got = bits \cup {rx}]
      \/ w' = w
  BY DEF RxSetBit, SetBit
<1> QED
  BY <1>1, <1>2 DEF WorkerTypes

\* Every step of the system keeps Owned.
LEMMA NextOwned == ASSUME Typed, Owned, [Next]_vars PROVE Owned'
<1>1. CASE ControllerReads \/ RxLogFrame \/ RxResponse \/ Telemetry \/ RectWaits
           \/ SessionTimeout \/ UNCHANGED vars
  <2>1. UNCHANGED <<cmdQ, safetyQ, caller, w, hist>>
    BY <1>1 DEF ControllerReads, RxLogFrame, RxResponse, Telemetry, RectWaits, SessionTimeout, vars
  <2> QED
    BY <2>1, OwnedSame
<1>2. CASE RxSetBit
  <2>1. UNCHANGED <<cmdQ, safetyQ, caller, hist>>
    BY <1>2 DEF RxSetBit
  <2> QED
    BY <1>2, <2>1, SetBitMoves, OwnedSame
<1> QED
  BY <1>1, <1>2, CallOwned, TaskStepOwned, WorkerOwned DEF Next, ReceiverStep

LEMMA InitOwned == Init => Owned
<1> SUFFICES ASSUME Init PROVE Owned
  OBVIOUS
<1>1. InMaking = {} /\ \A t \in Tasks : ~Making(t)
  BY DEF Init, IdleTask, InMaking, Making
<1>2. IdsOf(cmdQ) = {} /\ IdsOf(safetyQ) = {} /\ Distinct(cmdQ) /\ Distinct(safetyQ)
  BY DEF Init, IdsOf, Distinct
<1>3. Open = {} /\ InWorker = {} /\ Holding
  BY DEF Init, Open, InWorker, Holding, AtSafety, NoCmd
<1> QED
  BY <1>1, <1>2, <1>3 DEF Owned, EachCommandOwned

\* No command is lost or doubled between the call that makes it and the `delete` that
\* ends it, with any number of tasks and commands and queues of any length.
THEOREM NoneLostOrDoubled == Spec => []EachCommandOwned
<1>1. Init => Typed /\ Owned
  BY InitTyped, InitOwned
<1>2. Typed /\ Owned /\ [Next]_vars => (Typed /\ Owned)'
  BY NextTyped, NextOwned
<1>3. Owned => EachCommandOwned
  BY DEF Owned
<1> QED
  BY <1>1, <1>2, <1>3, PTL DEF Spec

-----------------------------------------------------------------------------
(* What was written.                                                       *)

\* A step on which nothing is written and the worker keeps its command, going
\* back to an attempt with one that may be repeated only.
LEMMA UnwrittenSame ==
  ASSUME Typed, Owned, Unwritten, hist'.fate = hist.fate, hist'.written = hist.written,
         w'.cmd.id = w.cmd.id, w'.cmd.type = w.cmd.type,
         w'.pc \in BeforeAttempts => w.pc \in BeforeAttempts,
         w'.pc \in Attempting /\ NonIdempotent(w.cmd.type)
           => w.pc \in BeforeAttempts \cup Attempting
  PROVE  Unwritten'
<1>1. Open' = Open /\ InWorker' = InWorker
  BY OpenFacts DEF InWorker
<1>2. NonIdempotent(w'.cmd.type) <=> NonIdempotent(w.cmd.type)
  BY DEF NonIdempotent
<1>3. (Open' \ InWorker') \cap hist'.written = {}
  BY <1>1 DEF Unwritten
<1>4. \/ w'.pc \in BeforeAttempts
      \/ w'.pc \in Attempting /\ NonIdempotent(w'.cmd.type)
      => w'.cmd.id \notin hist'.written
  BY <1>2 DEF Unwritten
<1> QED
  BY <1>3, <1>4 DEF Unwritten

\* A command is made.
LEMMA UnwrittenBorn ==
  ASSUME Typed, Owned, Unwritten, hist'.fate = Append(hist.fate, "open"),
         hist'.written = hist.written, w'.pc = w.pc, w'.cmd = w.cmd
  PROVE  Unwritten'
<1>1. Open' = Open \cup {NewId} /\ InWorker' = InWorker
  BY OpenFacts DEF InWorker
<1>2. hist.fate \in Seq(Fates) /\ DOMAIN hist.fate = 1 .. Len(hist.fate)
      /\ Len(hist.fate) \in Nat
  BY TypedParts DEF HistTypes
<1>3. NewId \notin DOMAIN hist.fate /\ DOMAIN hist'.fate = (DOMAIN hist.fate) \cup {NewId}
  BY <1>2 DEF NewId, Fates
<1>4. hist'.written \subseteq DOMAIN hist'.fate
      /\ (Open' \ InWorker') \cap hist'.written = {}
  BY <1>1, <1>3 DEF Unwritten
<1>5. \/ w'.pc \in BeforeAttempts
      \/ w'.pc \in Attempting /\ NonIdempotent(w'.cmd.type)
      => w'.cmd.id \notin hist'.written
  BY DEF Unwritten
<1> QED
  BY <1>4, <1>5 DEF Unwritten

\* The worker has no command any more: it ended, or is back in the FIFO unwritten.
LEMMA UnwrittenEnds ==
  ASSUME Typed, Owned, Unwritten, w.pc \notin {"safety", "queue"}, w' = AtSafety,
         \/ \E fate \in Fates \ {"open"} :
              /\ hist'.fate = [hist.fate EXCEPT ![w.cmd.id] = fate]
              /\ hist'.written \subseteq hist.written \cup {w.cmd.id}
         \/ UNCHANGED hist /\ w.pc = "requeue"
  PROVE  Unwritten'
<1>1. InWorker' = {} /\ w'.pc = "safety" /\ InWorker = {w.cmd.id} /\ w.cmd.id \in Open
  BY OwnedParts DEF InWorker, AtSafety, NoCmd
<1>2. hist'.written \subseteq DOMAIN hist'.fate /\ Open' \cap hist'.written = {}
  <2>1. CASE UNCHANGED hist /\ w.pc = "requeue"
    <3>1. Open' = Open
      BY <2>1, OpenFacts
    <3> QED
      BY <1>1, <2>1, <3>1 DEF Unwritten, BeforeAttempts
  <2>2. ASSUME NEW fate \in Fates \ {"open"},
               hist'.fate = [hist.fate EXCEPT ![w.cmd.id] = fate],
               hist'.written \subseteq hist.written \cup {w.cmd.id}
        PROVE  hist'.written \subseteq DOMAIN hist'.fate /\ Open' \cap hist'.written = {}
    <3>1. Open' = Open \ {w.cmd.id}
      BY <1>1, <2>2, OpenFacts
    <3>2. DOMAIN hist'.fate = DOMAIN hist.fate /\ w.cmd.id \in DOMAIN hist.fate
      BY <1>1, <2>2 DEF Open
    <3> QED
      BY <1>1, <2>2, <3>1, <3>2 DEF Unwritten
  <2> QED
    BY <2>1, <2>2
<1>3. w'.pc \notin BeforeAttempts \cup Attempting
  BY <1>1 DEF BeforeAttempts, Attempting
<1> QED
  BY <1>1, <1>2, <1>3 DEF Unwritten

\* What is taken from a queue was not written yet.
LEMMA TakenUnwritten ==
  ASSUME Typed, Owned, Unwritten, TakeSafety \/ TakeCommand
  PROVE  Unwritten'
<1>1. Owned' /\ w'.cmd.id \in Open
  BY TakenOwned
<1>2. /\ hist'.fate = hist.fate /\ hist'.written = hist.written
      /\ w.pc \in {"safety", "queue"}
  BY TypedParts DEF TakeSafety, TakeCommand, HistTypes
<1>3. Open' = Open /\ InWorker = {}
  BY <1>2, OpenFacts, OwnedParts
<1>4. w'.cmd.id \notin hist'.written /\ Open' \cap hist'.written = {}
  BY <1>1, <1>2, <1>3 DEF Unwritten
<1> QED
  BY <1>2, <1>4 DEF Unwritten

\* A write: the command stays with the worker, past its attempt, or ends.
LEMMA WriteOkUnwritten == ASSUME Typed, Owned, Unwritten, WriteOk PROVE Unwritten'
<1>1. /\ WasWritten.fate = hist.fate /\ WasWritten.written = hist.written \cup {w.cmd.id}
      /\ [WasWritten EXCEPT !.fate[w.cmd.id] = "sent"].written = hist.written \cup {w.cmd.id}
      /\ [WasWritten EXCEPT !.fate[w.cmd.id] = "sent"].fate
           = [hist.fate EXCEPT ![w.cmd.id] = "sent"]
  BY TypedParts DEF WasWritten, HistTypes
<1>2. w.pc = "write"
  BY DEF WriteOk
<1>3. CASE w.cmd.type = "GET_LOG"
  BY <1>1, <1>2, <1>3, UnwrittenEnds DEF WriteOk, Fates
<1>4. CASE w.cmd.type # "GET_LOG"
  <2>1. w'.pc = "poll" /\ w'.cmd = w.cmd /\ hist' = WasWritten
    BY <1>4, TypedParts DEF WriteOk, WorkerAt, WorkerTypes
  <2>2. Open' = Open /\ InWorker' = InWorker /\ InWorker = {w.cmd.id} /\ w.cmd.id \in Open
    BY <1>1, <1>2, <2>1, OpenFacts, OwnedParts DEF InWorker
  <2>3. hist'.written \subseteq DOMAIN hist'.fate
    BY <1>1, <2>1, <2>2 DEF Unwritten, Open
  <2>4. (Open' \ InWorker') \cap hist'.written = {}
    BY <1>1, <2>1, <2>2 DEF Unwritten
  <2> QED
    BY <2>1, <2>3, <2>4 DEF Unwritten, BeforeAttempts, Attempting
<1> QED
  BY <1>3, <1>4

LEMMA WorkerUnwritten == ASSUME Typed, Owned, Unwritten, WorkerStep PROVE Unwritten'
<1>1. \A fate \in Fates \ {"open"} : Finish(fate) /\ w.pc \notin {"safety", "queue"} => Unwritten'
  <2> SUFFICES ASSUME NEW fate \in Fates \ {"open"}, Finish(fate), w.pc \notin {"safety", "queue"}
               PROVE  Unwritten'
    OBVIOUS
  <2>1. w' = AtSafety /\ hist'.fate = [hist.fate EXCEPT ![w.cmd.id] = fate]
        /\ hist'.written = hist.written
    BY TypedParts DEF Finish, Ended, HistTypes
  <2> QED
    BY <2>1, UnwrittenEnds
<1>2. {"refused", "dropped", "sent", "ok", "unknown"} \subseteq Fates \ {"open"}
  BY DEF Fates
<1>3. \A pc \in WorkerPcs : WorkerAt(pc) => w'.pc = pc /\ w'.cmd = w.cmd
  BY TypedParts DEF WorkerAt, WorkerTypes
<1>4. CASE NoSafety \/ QueueIdle \/ KeepFresh \/ Gate
  <2>1. UNCHANGED hist /\ w'.cmd = w.cmd
        /\ (w'.pc \in BeforeAttempts \cup Attempting => w.pc \in BeforeAttempts)
    BY <1>3, <1>4
       DEF NoSafety, QueueIdle, KeepFresh, Gate, WorkerPcs, BeforeAttempts, Attempting
  <2>2. BeforeAttempts \cap Attempting = {}
    BY DEF BeforeAttempts, Attempting
  <2> QED
    BY <2>1, <2>2, UnwrittenSame
<1>5. CASE StopProbe \/ StopCancel \/ Mark \/ WriteFailed
  <2>1. UNCHANGED hist /\ w'.cmd = w.cmd /\ w'.pc \in Attempting \ BeforeAttempts
        /\ w.pc \in Attempting
    BY <1>3, <1>5
       DEF StopProbe, StopCancel, Mark, WriteFailed, WorkerPcs, BeforeAttempts, Attempting
  <2> QED
    BY <2>1, UnwrittenSame
<1>6. CASE Attempt
  <2>1. UNCHANGED hist /\ w'.cmd.id = w.cmd.id /\ w'.cmd.type = w.cmd.type
        /\ w'.pc \in {"probe", "mark", "write"} /\ w.pc = "attempt"
    BY <1>6, TypedParts DEF Attempt, WorkerTypes, Commands
  <2> QED
    BY <2>1, UnwrittenSame DEF BeforeAttempts, Attempting
<1>7. CASE DropStale \/ NoMoreAttempts \/ HelloDone
  <2>1. w.pc \notin {"safety", "queue"}
        /\ (Finish("dropped") \/ Finish("unknown") \/ Finish("ok"))
    BY <1>7 DEF DropStale, NoMoreAttempts, HelloDone
  <2> QED
    BY <1>1, <1>2, <2>1
<1>8. CASE Requeue
  BY <1>8, UnwrittenEnds DEF Requeue
<1>9. CASE Poll
  <2>1. w'.pc \in {"answer", "blocked"} /\ w'.cmd = w.cmd /\ UNCHANGED hist
    BY <1>9, TypedParts DEF Poll, WorkerAt, WorkerTypes
  <2> QED
    BY <2>1, UnwrittenSame DEF BeforeAttempts, Attempting
<1>10. CASE SliceOver
  <2>1. w.pc = "blocked"
        /\ \/ Finish("unknown")
           \/ w'.pc \in {"answer", "poll"} /\ w'.cmd = w.cmd /\ UNCHANGED hist
    BY <1>10, TypedParts DEF SliceOver, WorkerTypes
  <2>2. CASE Finish("unknown")
    BY <1>1, <1>2, <2>1, <2>2
  <2>3. CASE w'.pc \in {"answer", "poll"} /\ w'.cmd = w.cmd /\ UNCHANGED hist
    BY <2>3, UnwrittenSame DEF BeforeAttempts, Attempting
  <2> QED
    BY <2>1, <2>2, <2>3
<1>11. CASE Success \/ Failure
  <2>1. w.pc = "answer"
        /\ \/ Finish("ok") \/ Finish("unknown")
           \/ w'.pc = "hello" /\ w'.cmd = w.cmd /\ UNCHANGED hist
           \/ /\ w'.pc = "attempt" /\ w'.cmd = w.cmd /\ UNCHANGED hist
              /\ ~NonIdempotent(w.cmd.type)
    BY <1>11, TypedParts DEF Success, Failure, WorkerAt, WorkerTypes
  <2>2. CASE Finish("ok") \/ Finish("unknown")
    BY <1>1, <1>2, <2>1, <2>2
  <2>3. CASE w'.pc = "hello" /\ w'.cmd = w.cmd /\ UNCHANGED hist
    BY <2>3, UnwrittenSame DEF BeforeAttempts, Attempting
  <2>4. CASE /\ w'.pc = "attempt" /\ w'.cmd = w.cmd /\ UNCHANGED hist
             /\ ~NonIdempotent(w.cmd.type)
    BY <2>4, UnwrittenSame DEF BeforeAttempts, Attempting
  <2> QED
    BY <2>1, <2>2, <2>3, <2>4
<1>12. CASE Hello
  <2>1. w'.pc = w.pc /\ w'.cmd = w.cmd
    BY <1>12, TypedParts DEF Hello, WorkerTypes
  <2>2. CASE hist' = Born
    <3>1. hist'.fate = Append(hist.fate, "open") /\ hist'.written = hist.written
      BY <2>2, TypedParts DEF Born, HistTypes
    <3> QED
      BY <2>1, <3>1, UnwrittenBorn
  <2>3. CASE UNCHANGED hist
    BY <2>1, <2>3, UnwrittenSame
  <2> QED
    BY <1>12, <2>2, <2>3 DEF Hello
<1> QED
  BY <1>4, <1>5, <1>6, <1>7, <1>8, <1>9, <1>10, <1>11, <1>12, TakenUnwritten, WriteOkUnwritten
     DEF WorkerStep

LEMMA CallUnwritten ==
  ASSUME Typed, Owned, Unwritten, NEW t \in Tasks,
         \/ \E type \in Types : Push(t, type)
         \/ \E p \in Procs \cup {ListRequest} : PushGetLog(t, p)
         \/ EmergencyStop(t)
  PROVE  Unwritten'
<1>1. Born.fate = Append(hist.fate, "open") /\ Born.written = hist.written
      /\ [Born EXCEPT !.stops = @ + 1].fate = Append(hist.fate, "open")
      /\ [Born EXCEPT !.stops = @ + 1].written = hist.written
  BY TypedParts DEF Born, HistTypes
<1>2. w' = w /\ (hist' = Born \/ hist' = [Born EXCEPT !.stops = @ + 1])
  BY DEF Push, PushGetLog, EmergencyStop
<1> QED
  BY <1>1, <1>2, UnwrittenBorn

LEMMA TaskStepUnwritten ==
  ASSUME Typed, Owned, Unwritten, NEW t \in Tasks, TaskStep(t)
  PROVE  Unwritten'
<1> DEFINE c == caller[t].cmd
<1>1. CASE Send(t) \/ SendSafety(t) \/ Publish(t)
  <2>1. w' = w /\ hist'.fate = hist.fate /\ hist'.written = hist.written
    BY <1>1, TypedParts DEF Send, SendSafety, Publish, HistTypes
  <2> QED
    BY <2>1, UnwrittenSame
<1>2. CASE SendRefused(t) \/ SafetyRefused(t)
  <2>1. w' = w /\ hist' = Ended(c, "refused") /\ Making(t)
    BY <1>2 DEF SendRefused, SafetyRefused, Making
  <2>2. c.id \in InMaking /\ c.id \in Open
    BY <2>1, OwnedParts DEF InMaking
  <2>3. hist'.fate = [hist.fate EXCEPT ![c.id] = "refused"] /\ hist'.written = hist.written
    BY <2>1, TypedParts DEF Ended, HistTypes
  <2>4. Open' = Open \ {c.id} /\ InWorker' = InWorker /\ DOMAIN hist'.fate = DOMAIN hist.fate
    BY <2>1, <2>2, <2>3, OpenFacts DEF Fates, InWorker
  <2>5. (Open' \ InWorker') \cap hist'.written = {} /\ hist'.written \subseteq DOMAIN hist'.fate
    BY <2>3, <2>4 DEF Unwritten
  <2> QED
    BY <2>1, <2>3, <2>5 DEF Unwritten
<1> QED
  BY <1>1, <1>2 DEF TaskStep

\* Every step of the system keeps Unwritten.
LEMMA NextUnwritten == ASSUME Typed, Owned, Unwritten, [Next]_vars PROVE Unwritten'
<1>1. CASE ControllerReads \/ RxLogFrame \/ RxResponse \/ Telemetry \/ RectWaits
           \/ SessionTimeout \/ UNCHANGED vars
  <2>1. UNCHANGED <<w, hist>>
    BY <1>1 DEF ControllerReads, RxLogFrame, RxResponse, Telemetry, RectWaits, SessionTimeout, vars
  <2> QED
    BY <2>1, UnwrittenSame
<1>2. CASE RxSetBit
  <2>1. UNCHANGED hist /\ w'.cmd = w.cmd /\ (w'.pc = w.pc \/ w'.pc = "answer")
    BY <1>2, SetBitMoves DEF RxSetBit
  <2> QED
    BY <2>1, UnwrittenSame DEF BeforeAttempts, Attempting
<1> QED
  BY <1>1, <1>2, CallUnwritten, TaskStepUnwritten, WorkerUnwritten DEF Next, ReceiverStep

LEMMA InitUnwritten == Init => Unwritten
  BY DEF Init, Unwritten, AtSafety, BeforeAttempts, Attempting

\* No START, NEXT or RESUME is written twice, whatever is lost, late or refused.
THEOREM NeverTwice == Spec => NonIdempotentOnce
<1> DEFINE Inv == Typed /\ Owned /\ Unwritten
<1>1. Init => Inv
  BY InitTyped, InitOwned, InitUnwritten
<1>2. Inv /\ [Next]_vars => Inv'
  BY NextTyped, NextOwned, NextUnwritten
<1>3. Inv => (Writing /\ NonIdempotent(w.cmd.type) => w.cmd.id \notin hist.written)
  BY DEF Writing, Unwritten, Attempting
<1> QED
  BY <1>1, <1>2, <1>3, PTL DEF Spec, NonIdempotentOnce

-----------------------------------------------------------------------------
(* What overtook a STOP.                                                   *)

\* Only emergencyStop() feeds the safety queue, with STOPs.
LEMMA NextStopsOnly == ASSUME Typed, StopsOnly, [Next]_vars PROVE StopsOnly'
<1>1. /\ caller \in CallerTypes /\ safetyQ \in Seq(Commands)
      /\ \A t \in Tasks : caller[t].cmd \in Commands
  BY TypedParts DEF CallerTypes
<1>2. ASSUME UNCHANGED <<caller, safetyQ>> PROVE StopsOnly'
  BY <1>2 DEF StopsOnly
<1>3. ASSUME NEW t \in Tasks, NEW pc \in {"idle", "send", "publish"}, NEW c \in Commands,
             caller' = [caller EXCEPT ![t] = [pc |-> pc, cmd |-> c]], safetyQ' = safetyQ
      PROVE  StopsOnly'
  BY <1>1, <1>3 DEF StopsOnly, CallerTypes
<1>4. ASSUME NEW t \in Tasks PROVE TaskDone(t) /\ safetyQ' = safetyQ => StopsOnly'
  BY <1>3, TypeFacts DEF TaskDone, IdleTask
<1>5. ASSUME NEW t \in Tasks, NEW type \in Types, Push(t, type) PROVE StopsOnly'
  <2>1. NewCommand(type, AttemptCount, 0, ListRequest) \in Commands
    BY NewCommandTyped, TypeFacts, TypesAssumption
  <2> QED
    BY <1>3, <1>5, <2>1 DEF Push, TaskGoes
<1>6. ASSUME NEW t \in Tasks, NEW p \in Procs \cup {ListRequest}, PushGetLog(t, p)
      PROVE  StopsOnly'
  <2>1. tr'.gen \in Nat
    BY <1>6, TypedParts, MethodsTyped DEF PushGetLog, Transfers
  <2>2. NewCommand("GET_LOG", 1, tr'.gen, p) \in Commands
    BY <2>1, NewCommandTyped DEF CommandTypes
  <2> QED
    BY <1>3, <1>6, <2>2 DEF PushGetLog, TaskGoes
<1>7. ASSUME NEW t \in Tasks, EmergencyStop(t) PROVE StopsOnly'
  <2> DEFINE c == [NewCommand("STOP", 1, 0, ListRequest) EXCEPT !.epoch = epoch + 1]
  <2>1. c.type = "STOP"
    BY DEF NewCommand
  <2>2. caller'[t].cmd = c /\ \A s \in Tasks : s # t => caller'[s] = caller[s]
    BY <1>1, <1>7 DEF EmergencyStop, TaskGoes, CallerTypes
  <2>3. safetyQ' = safetyQ
    BY <1>7 DEF EmergencyStop
  <2> QED
    BY <2>1, <2>2, <2>3 DEF StopsOnly
<1>8. ASSUME NEW t \in Tasks, SendSafety(t) PROVE StopsOnly'
  <2> DEFINE c == caller[t].cmd
  <2>1. c \in Commands /\ c.type = "STOP" /\ safetyQ' = Append(safetyQ, c)
    BY <1>1, <1>8 DEF SendSafety, StopsOnly
  <2>2. /\ DOMAIN safetyQ' = (DOMAIN safetyQ) \cup {Len(safetyQ) + 1}
        /\ \A i \in DOMAIN safetyQ : safetyQ'[i] = safetyQ[i]
        /\ safetyQ'[Len(safetyQ) + 1] = c
    BY <1>1, <2>1
  <2>3. \A i \in DOMAIN safetyQ' : safetyQ'[i].type = "STOP"
    BY <2>1, <2>2 DEF StopsOnly
  <2>4. caller'[t].pc = "publish" /\ \A s \in Tasks : s # t => caller'[s] = caller[s]
    BY <1>1, <1>8 DEF SendSafety, TaskGoes, CallerTypes
  <2> QED
    BY <2>3, <2>4 DEF StopsOnly
<1>9. CASE TakeSafety
  <2>1. safetyQ # << >> /\ safetyQ' = Tail(safetyQ) /\ caller' = caller
    BY <1>9 DEF TakeSafety
  <2>2. \A i \in DOMAIN Tail(safetyQ) : i + 1 \in DOMAIN safetyQ
                                       /\ Tail(safetyQ)[i] = safetyQ[i + 1]
    BY <1>1, <2>1, HeadTailProperties, LenProperties
  <2> QED
    BY <2>1, <2>2 DEF StopsOnly
<1>10. ASSUME NEW t \in Tasks, TaskStep(t) PROVE StopsOnly'
  BY <1>4, <1>8, <1>10 DEF TaskStep, Send, SendRefused, SafetyRefused, Publish
<1>11. WorkerStep => TakeSafety \/ UNCHANGED <<caller, safetyQ>>
  BY DEF WorkerStep, NoSafety, TakeCommand, QueueIdle, DropStale, KeepFresh, Gate, Requeue,
     Attempt, NoMoreAttempts, StopProbe, StopCancel, Mark, WriteOk, WriteFailed, Poll,
     SliceOver, Success, Failure, Hello, HelloDone
<1>12. ControllerReads \/ ReceiverStep \/ Telemetry \/ RectWaits \/ SessionTimeout
       \/ UNCHANGED vars => UNCHANGED <<caller, safetyQ>>
  BY DEF ControllerReads, ReceiverStep, RxLogFrame, RxResponse, RxSetBit, Telemetry, RectWaits,
     SessionTimeout, vars
<1> QED
  BY <1>2, <1>5, <1>6, <1>7, <1>9, <1>10, <1>11, <1>12 DEF Next

\* A step that writes nothing, and on which the worker keeps its command, gets rid
\* of it, or takes one when nothing has overtaken a STOP.
LEMMA OvertakenSame ==
  ASSUME Overtaken, StopsOnly', hist'.overtook = hist.overtook,
         safetyQ' = << >> => safetyQ = << >>,
         w'.pc = "queue" => w.pc = "queue" \/ safetyQ = << >>,
         \/ w'.pc = "safety"
         \/ w.pc # "safety" /\ w'.cmd.id = w.cmd.id /\ w'.cmd.type = w.cmd.type
         \/ w.pc = "queue" \/ safetyQ = << >>
  PROVE  Overtaken'
<1>1. hist.overtook = {} => Overtaken'
  BY DEF Overtaken
<1>2. CASE w'.pc = "safety"
  BY <1>2 DEF Overtaken
<1>3. CASE w.pc # "safety" /\ w'.cmd.id = w.cmd.id /\ w'.cmd.type = w.cmd.type
  BY <1>3 DEF Overtaken
<1> QED
  BY <1>1, <1>2, <1>3 DEF Overtaken

\* With the last STOP taken nothing waits that could be overtaken.
LEMMA TakeSafetyOvertaken == ASSUME Typed, Overtaken, StopsOnly', TakeSafety PROVE Overtaken'
<1>1. /\ safetyQ \in Seq(Commands) /\ safetyQ # << >> /\ safetyQ' = Tail(safetyQ)
      /\ hist' = [hist EXCEPT !.overtook = IF Len(safetyQ) = 1 THEN {} ELSE @]
      /\ w' = [AtSafety EXCEPT !.pc = "check", !.cmd = Head(safetyQ)]
  BY TypedParts DEF TakeSafety
<1>2. Head(safetyQ) = safetyQ[1] /\ 1 \in DOMAIN safetyQ
  BY <1>1
<1>3. w'.cmd.type = "STOP" /\ w'.pc = "check"
  BY <1>1, <1>2 DEF Overtaken, StopsOnly, AtSafety
<1>4. hist'.overtook = IF Len(safetyQ) = 1 THEN {} ELSE hist.overtook
  BY <1>1, TypedParts DEF HistTypes
<1>5. Tail(safetyQ) = << >> => Len(safetyQ) = 1
  <2>1. Len(Tail(safetyQ)) = Len(safetyQ) - 1 /\ Len(safetyQ) \in Nat
    BY <1>1, HeadTailProperties, LenProperties
  <2>2. Tail(safetyQ) = << >> => Len(Tail(safetyQ)) = 0
    BY EmptySeq, Zenon
  <2>3. Len(safetyQ) - 1 = 0 => Len(safetyQ) = 1
    BY <2>1
  <2> QED
    BY <2>1, <2>2, <2>3, Zenon
<1> QED
  BY <1>1, <1>3, <1>4, <1>5 DEF Overtaken

\* A write while a STOP waits is of the one command the worker had.
LEMMA WriteOkOvertaken == ASSUME Typed, Overtaken, StopsOnly', WriteOk PROVE Overtaken'
<1>1. hist'.overtook = IF safetyQ = << >> \/ w.cmd.type = "STOP" THEN hist.overtook
                       ELSE hist.overtook \cup {w.cmd.id}
  BY TypedParts DEF WriteOk, WasWritten, HistTypes
<1>2. /\ safetyQ' = safetyQ /\ w.pc = "write"
      /\ w'.pc = "safety" \/ (w'.pc = "poll" /\ w'.cmd = w.cmd)
  BY TypedParts DEF WriteOk, WorkerAt, WorkerTypes, AtSafety
<1>3. CASE safetyQ = << >> \/ w.cmd.type = "STOP"
  BY <1>1, <1>2, <1>3, OvertakenSame
<1>4. CASE safetyQ # << >> /\ w.cmd.type # "STOP"
  <2>1. hist.overtook \subseteq {w.cmd.id}
    BY <1>2, <1>4 DEF Overtaken
  <2>2. hist'.overtook = {w.cmd.id}
    BY <1>1, <1>4, <2>1
  <2> QED
    BY <1>2, <1>4, <2>2 DEF Overtaken
<1> QED
  BY <1>3, <1>4

LEMMA WorkerOvertaken == ASSUME Typed, Overtaken, StopsOnly', WorkerStep PROVE Overtaken'
<1>1. \A c \in Commands : \A fate \in Fates : Ended(c, fate).overtook = hist.overtook
  BY TypedParts DEF Ended, HistTypes
<1>2. \A fate \in Fates : Finish(fate) => w'.pc = "safety" /\ hist'.overtook = hist.overtook
  BY <1>1, WorkerCmdTyped DEF Finish, AtSafety
<1>3. \A pc \in WorkerPcs : WorkerAt(pc) => w'.pc = pc /\ w'.cmd = w.cmd
  BY TypedParts DEF WorkerAt, WorkerTypes
<1>4. CASE TakeCommand
  <2>1. UNCHANGED <<hist, safetyQ>> /\ w'.pc = "check" /\ w.pc = "queue"
    BY <1>4 DEF TakeCommand, AtSafety
  <2> QED
    BY <2>1, OvertakenSame
<1>5. CASE NoSafety
  <2>1. UNCHANGED <<hist, safetyQ>> /\ safetyQ = << >>
    BY <1>5 DEF NoSafety
  <2> QED
    BY <2>1, OvertakenSame
<1>6. CASE QueueIdle \/ Requeue
  <2>1. UNCHANGED <<hist, safetyQ>> /\ w'.pc = "safety"
    BY <1>3, <1>6 DEF QueueIdle, Requeue, AtSafety, WorkerPcs
  <2> QED
    BY <2>1, OvertakenSame
<1>7. CASE KeepFresh \/ Gate \/ StopProbe \/ StopCancel \/ Mark \/ WriteFailed
  <2>1. UNCHANGED <<hist, safetyQ>> /\ w'.cmd = w.cmd /\ w.pc # "safety" /\ w'.pc # "queue"
    BY <1>3, <1>7 DEF KeepFresh, Gate, StopProbe, StopCancel, Mark, WriteFailed, WorkerPcs
  <2> QED
    BY <2>1, OvertakenSame
<1>8. CASE Attempt
  <2>1. /\ UNCHANGED <<hist, safetyQ>> /\ w'.cmd.id = w.cmd.id /\ w'.cmd.type = w.cmd.type
        /\ w.pc # "safety" /\ w'.pc # "queue"
    BY <1>8, TypedParts DEF Attempt, WorkerTypes, Commands
  <2> QED
    BY <2>1, OvertakenSame
<1>9. CASE DropStale \/ NoMoreAttempts \/ HelloDone
  <2>1. w'.pc = "safety" /\ hist'.overtook = hist.overtook /\ safetyQ' = safetyQ
    BY <1>2, <1>9 DEF DropStale, NoMoreAttempts, HelloDone, Fates
  <2> QED
    BY <2>1, OvertakenSame
<1>10. CASE Poll
  <2>1. /\ UNCHANGED <<hist, safetyQ>> /\ w'.cmd = w.cmd /\ w.pc # "safety" /\ w'.pc # "queue"
    BY <1>10, TypedParts DEF Poll, WorkerAt, WorkerTypes
  <2> QED
    BY <2>1, OvertakenSame
<1>11. CASE SliceOver
  <2>1. \/ Finish("unknown")
        \/ w'.pc \in {"answer", "poll"} /\ w'.cmd = w.cmd /\ UNCHANGED hist
    BY <1>11, TypedParts DEF SliceOver, WorkerTypes
  <2>2. safetyQ' = safetyQ /\ w.pc = "blocked"
    BY <1>11 DEF SliceOver
  <2>3. Finish("unknown") => w'.pc = "safety" /\ hist'.overtook = hist.overtook
    BY <1>2 DEF Fates
  <2> QED
    BY <2>1, <2>2, <2>3, OvertakenSame
<1>12. CASE Success \/ Failure
  <2>1. \/ Finish("ok") \/ Finish("unknown")
        \/ w'.pc \in {"hello", "attempt"} /\ w'.cmd = w.cmd /\ UNCHANGED hist
    BY <1>12, TypedParts DEF Success, Failure, WorkerAt, WorkerTypes
  <2>2. safetyQ' = safetyQ /\ w.pc = "answer"
    BY <1>12 DEF Success, Failure
  <2>3. Finish("ok") \/ Finish("unknown") => w'.pc = "safety" /\ hist'.overtook = hist.overtook
    BY <1>2 DEF Fates
  <2> QED
    BY <2>1, <2>2, <2>3, OvertakenSame
<1>13. CASE Hello
  <2>1. w'.pc = w.pc /\ w'.cmd = w.cmd /\ w.pc = "hello" /\ safetyQ' = safetyQ
    BY <1>13, TypedParts DEF Hello, WorkerTypes
  <2>2. hist'.overtook = hist.overtook
    BY <1>13, TypedParts DEF Hello, Born, HistTypes
  <2> QED
    BY <2>1, <2>2, OvertakenSame
<1> QED
  BY <1>4, <1>5, <1>6, <1>7, <1>8, <1>9, <1>10, <1>11, <1>12, <1>13, TakeSafetyOvertaken,
     WriteOkOvertaken DEF WorkerStep

\* Every step of the system keeps Overtaken.
LEMMA NextOvertaken == ASSUME Typed, Overtaken, [Next]_vars PROVE Overtaken'
<1>1. StopsOnly'
  BY NextStopsOnly DEF Overtaken
<1>2. CASE ControllerReads \/ RxLogFrame \/ RxResponse \/ Telemetry \/ RectWaits
           \/ SessionTimeout \/ UNCHANGED vars
  <2>1. UNCHANGED <<w, safetyQ, hist>>
    BY <1>2 DEF ControllerReads, RxLogFrame, RxResponse, Telemetry, RectWaits, SessionTimeout, vars
  <2> QED
    BY <1>1, <2>1, OvertakenSame
<1>3. CASE RxSetBit
  <2>1. UNCHANGED <<safetyQ, hist>> /\ w'.cmd = w.cmd
        /\ (w'.pc = w.pc \/ (w.pc = "blocked" /\ w'.pc = "answer"))
    BY <1>3, SetBitMoves DEF RxSetBit
  <2> QED
    BY <1>1, <2>1, OvertakenSame
<1>4. ASSUME NEW t \in Tasks,
             \/ \E type \in Types : Push(t, type)
             \/ \E p \in Procs \cup {ListRequest} : PushGetLog(t, p)
             \/ EmergencyStop(t)
      PROVE  Overtaken'
  <2>1. UNCHANGED <<w, safetyQ>> /\ (hist' = Born \/ hist' = [Born EXCEPT !.stops = @ + 1])
    BY <1>4 DEF Push, PushGetLog, EmergencyStop
  <2>2. hist'.overtook = hist.overtook
    BY <2>1, TypedParts DEF Born, HistTypes
  <2> QED
    BY <1>1, <2>1, <2>2, OvertakenSame
<1>5. ASSUME NEW t \in Tasks, TaskStep(t) PROVE Overtaken'
  <2>1. w' = w /\ (safetyQ' = safetyQ \/ safetyQ' = Append(safetyQ, caller[t].cmd))
    BY <1>5 DEF TaskStep, Send, SendRefused, SendSafety, SafetyRefused, Publish
  <2>2. hist'.overtook = hist.overtook
    BY <1>5, TypedParts
       DEF TaskStep, Send, SendRefused, SendSafety, SafetyRefused, Publish, Ended, HistTypes
  <2>3. safetyQ' = << >> => safetyQ = << >>
    <3>1. safetyQ \in Seq(Commands) /\ caller[t].cmd \in Commands
      BY TypedParts DEF CallerTypes
    <3> QED
      BY <2>1, <3>1, AppendProperties
  <2> QED
    BY <1>1, <2>1, <2>2, <2>3, OvertakenSame
<1> QED
  BY <1>2, <1>3, <1>4, <1>5, WorkerOvertaken, <1>1 DEF Next, ReceiverStep

LEMMA InitOvertaken == Init => Overtaken
  BY DEF Init, Overtaken, StopsOnly, IdleTask

\* At most one command gets to the line ahead of a STOP that waits, however many
\* there are in the FIFO.
THEOREM AtMostOneOvertakes == Spec => []OvertakenByOne
<1>1. Init => Typed /\ Overtaken
  BY InitTyped, InitOvertaken
<1>2. Typed /\ Overtaken /\ [Next]_vars => (Typed /\ Overtaken)'
  BY NextTyped, NextOvertaken
<1>3. ASSUME Overtaken PROVE OvertakenByOne
  <2>1. CASE hist.overtook = {}
    BY <2>1, FS_EmptySet DEF OvertakenByOne
  <2>2. ASSUME NEW x \in hist.overtook PROVE OvertakenByOne
    <3>1. hist.overtook = {x}
      BY <1>3, <2>2 DEF Overtaken
    <3>2. Cardinality({x}) = 1
      BY FS_Singleton
    <3> QED
      BY <3>1, <3>2 DEF OvertakenByOne
  <2> QED
    BY <2>1, <2>2
<1> QED
  BY <1>1, <1>2, <1>3, PTL DEF Spec

-----------------------------------------------------------------------------
(* What the gate has let through.                                          *)

\* No method but markSent() makes a session wait for the controller's answer.
LEMMA NotAsked ==
  ASSUME NEW t \in Transfers, t.status \notin WaitingStatuses
  PROVE  /\ \A p \in Procs \cup {ListRequest} : Reserve(t, p).status \notin WaitingStatuses
         /\ \A reason \in Reasons :
              /\ Fail(t, reason).status \notin WaitingStatuses
              /\ AbortReservation(t, reason).status \notin WaitingStatuses
         /\ ReleaseReservation(t).status \notin WaitingStatuses
         /\ Cancel(t).status \notin WaitingStatuses
         /\ CompleteDrain(t).status \notin WaitingStatuses
<1>1. t \in Transfers /\ Reset(t) \in Transfers /\ Reset(t).status = "IDLE"
  BY MethodsTyped
<1>2. \A p \in Procs \cup {ListRequest} : Reserve(t, p).status \notin WaitingStatuses
  BY <1>1 DEF Reserve, Transfers, WaitingStatuses
<1>3. \A reason \in Reasons :
         /\ Fail(t, reason).status \notin WaitingStatuses
         /\ AbortReservation(t, reason).status \notin WaitingStatuses
  BY <1>1 DEF AbortReservation, Fail, Transfers, WaitingStatuses
<1>4. ReleaseReservation(t).status \notin WaitingStatuses
  BY <1>1 DEF ReleaseReservation, WaitingStatuses
<1>5. Cancel(t).status \notin WaitingStatuses
  <2>1. NextGeneration(Reset(t)).status = "IDLE"
    BY <1>1 DEF NextGeneration, Transfers
  <2>2. [t EXCEPT !.status = "DRAINING", !.error = ""].status = "DRAINING"
    BY <1>1 DEF Transfers
  <2> QED
    BY <2>1, <2>2 DEF Cancel, WaitingStatuses
<1>6. CompleteDrain(t).status \notin WaitingStatuses
  BY <1>1 DEF CompleteDrain, WaitingStatuses
<1> QED
  BY <1>2, <1>3, <1>4, <1>5, <1>6

\* Nor does a frame of the controller, whatever it is.
LEMMA ConsumeNotAsked ==
  ASSUME NEW t \in Transfers, t.status \notin WaitingStatuses, NEW f, WellFormed(f)
  PROVE  Consume(t, f, TRUE).status \notin WaitingStatuses
<1> DEFINE u == Touch(t)
<1>1. u \in Transfers /\ u.status = t.status
  BY MethodsTyped DEF Touch, Transfers
<1>2. \A v \in Transfers : \A reason : Fail(v, reason).status = "ERROR"
  BY DEF Fail, Transfers
<1>3. ConsumeDraining(u, f).status \notin WaitingStatuses
  BY <1>1, <1>2 DEF ConsumeDraining, WaitingStatuses
<1>4. ConsumeList(u, f).status \notin WaitingStatuses
  <2>1. [u EXCEPT !.status = "LIST_RECEIVED"].status = "LIST_RECEIVED"
    BY <1>1 DEF Transfers
  <2> QED
    BY <1>1, <1>2, <2>1 DEF ConsumeList, WaitingStatuses
<1>5. ConsumeStart(u, f, TRUE).status \notin WaitingStatuses
  <2> DEFINE begun == [u EXCEPT !.total = f.n, !.received = 0, !.data = << >>]
  <2>1. /\ [begun EXCEPT !.status = "COMPLETED", !.held = 0].status = "COMPLETED"
        /\ [begun EXCEPT !.status = "RECEIVING", !.buffer = TRUE].status = "RECEIVING"
    BY <1>1 DEF Transfers
  <2> QED
    BY <1>1, <1>2, <2>1 DEF ConsumeStart, WaitingStatuses
<1>6. ConsumeChunk(u, f).status \notin WaitingStatuses
  <2> DEFINE grown == [u EXCEPT !.data = Append(@, <<f.file, f.n>>), !.received = f.n]
  <2>1. /\ [grown EXCEPT !.status = "COMPLETED", !.held = 0].status = "COMPLETED"
        /\ grown.status = u.status
    BY <1>1 DEF Transfers
  <2> QED
    BY <1>1, <1>2, <2>1 DEF ConsumeChunk, WaitingStatuses
<1>7. Fail(u, "err_").status \notin WaitingStatuses
  BY <1>1, <1>2 DEF WaitingStatuses
<1>8. f.kind \in {"LIST", "START", "ERR", "OK", "file"}
  BY DEF WellFormed, Frames
<1> QED
  BY <1>1, <1>3, <1>4, <1>5, <1>6, <1>7, <1>8 DEF Consume

\* A step on which the worker keeps its command, behind the gate if it was there,
\* and no session is asked for.
LEMMA GateSame ==
  ASSUME GateHolds, w'.cmd.type = w.cmd.type, w'.pc # "mark" \/ w'.pc = w.pc,
         PastGate' => PastGate,
         tr.status \notin WaitingStatuses => tr'.status \notin WaitingStatuses
  PROVE  GateHolds'
  BY DEF GateHolds, Ordinary

\* Before the gate there is nothing to show.
LEMMA GateAtStart ==
  ASSUME w'.pc \in {"safety", "queue", "check", "gate", "requeue"}
  PROVE  GateHolds'
  BY DEF GateHolds, PastGate

LEMMA WorkerGate == ASSUME Typed, GateHolds, WorkerStep PROVE GateHolds'
<1>1. \A pc \in WorkerPcs : WorkerAt(pc) => w'.pc = pc /\ w'.cmd = w.cmd
  BY TypedParts DEF WorkerAt, WorkerTypes
<1>2. \A fate \in Fates : Finish(fate) => w'.pc = "safety"
  BY DEF Finish, AtSafety
<1>3. CASE TakeSafety \/ NoSafety \/ TakeCommand \/ QueueIdle \/ DropStale \/ KeepFresh
           \/ Requeue \/ NoMoreAttempts \/ HelloDone
  <2>1. w'.pc \in {"safety", "queue", "check", "gate"}
    <3>1. CASE TakeSafety \/ TakeCommand \/ Requeue
      <4>1. AtSafety.pc = "safety"
            /\ \A c : [AtSafety EXCEPT !.pc = "check", !.cmd = c].pc = "check"
        BY DEF AtSafety
      <4> QED
        BY <3>1, <4>1 DEF TakeSafety, TakeCommand, Requeue
    <3>2. CASE NoSafety \/ QueueIdle \/ KeepFresh
      BY <1>1, <3>2 DEF NoSafety, QueueIdle, KeepFresh, WorkerPcs
    <3>3. CASE DropStale \/ NoMoreAttempts \/ HelloDone
      BY <1>2, <3>3 DEF DropStale, NoMoreAttempts, HelloDone, Fates
    <3> QED
      BY <1>3, <3>1, <3>2, <3>3
  <2> QED
    BY <2>1, GateAtStart
<1>4. CASE Gate
  <2>1. CASE Deferred(w.cmd)
    <3>1. w'.pc = "requeue"
      BY <1>1, <1>4, <2>1 DEF Gate, WorkerPcs
    <3> QED
      BY <3>1, GateAtStart
  <2>2. CASE ~Deferred(w.cmd)
    <3>1. w'.pc = "attempt" /\ w'.cmd = w.cmd /\ tr' = tr
      BY <1>1, <1>4, <2>2 DEF Gate, WorkerPcs
    <3>2. Ordinary(w.cmd) => tr.status \notin WaitingStatuses
      BY <2>2 DEF Deferred, Ordinary, Blocked, BlockedStatuses
    <3> QED
      BY <3>1, <3>2 DEF GateHolds
  <2> QED
    BY <2>1, <2>2
<1>5. CASE Attempt
  <2>1. /\ tr' = tr /\ w'.cmd.type = w.cmd.type /\ w.pc = "attempt"
        /\ w'.pc = "mark" => w.cmd.type = "GET_LOG"
    BY <1>5, TypedParts DEF Attempt, WorkerTypes, Commands
  <2> QED
    BY <2>1 DEF GateHolds, PastGate, Ordinary
<1>6. CASE StopProbe \/ StopCancel
  <2>1. /\ w'.pc \in {"cancel", "write"} /\ w'.cmd = w.cmd /\ w.pc \in {"probe", "cancel"}
        /\ tr' = tr \/ tr' = Cancel(tr)
    BY <1>1, <1>6 DEF StopProbe, StopCancel, WorkerPcs
  <2>2. tr.status \notin WaitingStatuses => tr'.status \notin WaitingStatuses
    BY <2>1, NotAsked, TypedParts
  <2> QED
    BY <2>1, <2>2, GateSame DEF PastGate
<1>7. CASE Mark
  <2>1. w'.pc = "write" /\ w'.cmd = w.cmd /\ w.pc = "mark"
    BY <1>1, <1>7 DEF Mark, WorkerPcs
  <2> QED
    BY <2>1 DEF GateHolds, Ordinary
<1>8. CASE WriteFailed
  <2>1. w'.pc = "attempt" /\ w'.cmd = w.cmd /\ w.pc = "write"
    BY <1>1, <1>8 DEF WriteFailed, WorkerPcs
  <2>2. tr' = tr \/ ~Ordinary(w.cmd)
    BY <1>8 DEF WriteFailed, Ordinary
  <2> QED
    BY <2>1, <2>2 DEF GateHolds, PastGate
<1>9. CASE WriteOk \/ Poll \/ SliceOver \/ Success \/ Failure \/ Hello
  <2>1. tr' = tr /\ w.pc \in {"write", "poll", "blocked", "answer", "hello"}
    BY <1>9 DEF WriteOk, Poll, SliceOver, Success, Failure, Hello
  <2>2. \/ w'.pc = "safety"
        \/ w'.pc \in {"poll", "blocked", "answer", "attempt", "hello"} /\ w'.cmd = w.cmd
    <3>1. w \in WorkerTypes
      BY TypedParts
    <3>2. CASE WriteOk
      <4>1. w' = AtSafety \/ WorkerAt("poll")
        BY <3>2 DEF WriteOk
      <4> QED
        BY <1>1, <4>1 DEF AtSafety, WorkerPcs
    <3>3. CASE Poll
      <4>1. \/ WorkerAt("answer") \/ WorkerAt("blocked")
            \/ w' = [w EXCEPT !.pc = "answer", !.got = bits]
        BY <3>3 DEF Poll
      <4>2. \A pc \in {"answer", "blocked"} : WorkerAt(pc) => w'.pc = pc /\ w'.cmd = w.cmd
        BY <1>1 DEF WorkerPcs
      <4> QED
        BY <3>1, <4>1, <4>2 DEF WorkerTypes
    <3>4. CASE SliceOver
      <4>1. \/ Finish("unknown")
            \/ \E now : w' = [w EXCEPT !.pc = "answer", !.got = bits, !.waited = now]
            \/ \E now : w' = [w EXCEPT !.pc = "poll", !.waited = now]
        BY <3>4 DEF SliceOver
      <4>2. Finish("unknown") => w'.pc = "safety"
        BY <1>2 DEF Fates
      <4> QED
        BY <3>1, <4>1, <4>2 DEF WorkerTypes
    <3>5. CASE Success \/ Failure
      BY <1>1, <1>2, <3>1, <3>5 DEF Success, Failure, WorkerTypes, WorkerPcs, Fates
    <3>6. CASE Hello
      BY <3>1, <3>6 DEF Hello, WorkerTypes
    <3> QED
      BY <1>9, <3>2, <3>3, <3>4, <3>5, <3>6
  <2>3. CASE w'.pc = "safety"
    BY <2>3, GateAtStart
  <2>4. CASE w'.pc \in {"poll", "blocked", "answer", "attempt", "hello"} /\ w'.cmd = w.cmd
    BY <2>1, <2>4, GateSame DEF PastGate
  <2> QED
    BY <2>2, <2>3, <2>4
<1> QED
  BY <1>3, <1>4, <1>5, <1>6, <1>7, <1>8, <1>9 DEF WorkerStep

\* Every step of the system keeps GateHolds.
LEMMA NextGate == ASSUME Typed, GateHolds, [Next]_vars PROVE GateHolds'
<1> USE DEF PastGate
<1>1. \A t \in Tasks :
         \/ \E type \in Types : Push(t, type)
         \/ EmergencyStop(t) \/ TaskStep(t)
         => w' = w /\ (tr' = tr \/ tr' = ReleaseReservation(tr))
  BY DEF Push, EmergencyStop, TaskStep, Send, SendRefused, SendSafety, SafetyRefused, Publish
<1>2. \A t \in Tasks, p \in Procs \cup {ListRequest} :
         PushGetLog(t, p) => w' = w /\ tr' = Reserve(tr, p)
  BY DEF PushGetLog
<1>3. \/ ControllerReads \/ RxResponse \/ Telemetry \/ RectWaits \/ SessionTimeout
      \/ UNCHANGED vars
      => w' = w /\ (tr' = tr \/ tr' = CompleteDrain(tr) \/ tr' = Fail(tr, "timeout"))
  BY DEF ControllerReads, RxResponse, Telemetry, RectWaits, SessionTimeout, vars
<1>4. ASSUME RxLogFrame, tr.status \notin WaitingStatuses PROVE tr'.status \notin WaitingStatuses
  <2>1. Head(ctl.line) \in Answers
        /\ (Head(ctl.line).verb = "file" => Head(ctl.line).proc \in Procs)
    BY <1>4, LineTaken DEF RxLogFrame
  <2>2. WellFormed(LogFrame(Head(ctl.line)))
    BY <2>1 DEF WellFormed, LogFrame, Frames, Answers
  <2> QED
    BY <1>4, <2>2, TypedParts, ConsumeNotAsked DEF RxLogFrame
<1>5. CASE RxSetBit
  <2>1. tr' = tr /\ w'.cmd = w.cmd /\ (w'.pc = w.pc \/ (w.pc = "blocked" /\ w'.pc = "answer"))
    BY <1>5, SetBitMoves DEF RxSetBit
  <2> QED
    BY <2>1, GateSame
<1>6. CASE RxLogFrame
  <2>1. w' = w
    BY <1>6 DEF RxLogFrame
  <2> QED
    BY <1>4, <1>6, <2>1, GateSame
<1>7. ASSUME w' = w,
             \/ tr' = tr \/ tr' = ReleaseReservation(tr) \/ tr' = CompleteDrain(tr)
             \/ tr' = Fail(tr, "timeout")
             \/ \E p \in Procs \cup {ListRequest} : tr' = Reserve(tr, p)
      PROVE  GateHolds'
  <2>1. tr.status \notin WaitingStatuses => tr'.status \notin WaitingStatuses
    BY <1>7, NotAsked, TypedParts DEF Reasons
  <2> QED
    BY <1>7, <2>1, GateSame
<1> QED
  BY <1>1, <1>2, <1>3, <1>5, <1>6, <1>7, WorkerGate DEF Next, ReceiverStep

\* No ordinary command is written between GET_LOG and the controller's answer to it,
\* though the session's status changes while commands are on their way to the line.
THEOREM GateKeepsOut == Spec => NoOrdinaryWhileWaiting
<1>1. Init => Typed /\ GateHolds
  <2>1. Init => GateHolds
    BY DEF Init, GateHolds, PastGate, AtSafety
  <2> QED
    BY <2>1, InitTyped
<1>2. Typed /\ GateHolds /\ [Next]_vars => (Typed /\ GateHolds)'
  BY NextTyped, NextGate
<1>3. GateHolds => (Writing /\ w.cmd.type \notin {"GET_LOG", "STOP"}
                      => tr.status \notin WaitingStatuses)
  BY DEF GateHolds, PastGate, Ordinary, Writing
<1> QED
  BY <1>1, <1>2, <1>3, PTL DEF Spec, NoOrdinaryWhileWaiting

-----------------------------------------------------------------------------
(* What a STOP fences off.                                                 *)

\* emergencyStop() has computed its epoch and not yet published it.
Pending(t) == caller[t].pc \in {"sendSafety", "publish"}

\* The commands made by pushCommandInQueue() that can still be written.
Underway ==
    {caller[t].cmd : t \in {t \in Tasks : caller[t].pc = "send"}}
        \cup {cmdQ[i] : i \in DOMAIN cmdQ} \cup {w.cmd}

\* Of this epoch, c is younger than the fence; and it will be when t's call returns.
Passable(c) ==
    /\ c.epoch <= epoch
    /\ c.epoch = epoch => c.id > hist.fence
    /\ \A t \in Tasks :
         Pending(t) /\ c.epoch >= caller[t].cmd.epoch => c.id > caller[t].cmd.id

Fenced ==
    /\ StopsOnly
    /\ hist.fence < NewId
    /\ \A t \in Tasks : Pending(t) => caller[t].cmd.id < NewId
    /\ \A c \in Underway : NonIdempotent(c.type) => Passable(c)

\* The number c keeps through deferrals and attempts.
Alike(c, d) == c.id = d.id /\ c.epoch = d.epoch /\ c.type = d.type

\* A step that publishes nothing and makes no command.
LEMMA FencedSame ==
  ASSUME Typed, Fenced, StopsOnly', epoch' = epoch, hist'.fence = hist.fence, NewId' = NewId,
         \A t \in Tasks : Pending(t)' => Pending(t) /\ caller'[t].cmd = caller[t].cmd,
         \A c \in Underway' : NonIdempotent(c.type) => \E d \in Underway : Alike(c, d)
  PROVE  Fenced'
<1>1. ASSUME NEW c \in Underway', NonIdempotent(c.type) PROVE Passable(c)'
  <2>1. PICK d \in Underway : Alike(c, d)
    BY <1>1
  <2>2. Passable(d)
    BY <1>1, <2>1 DEF Fenced, Alike
  <2> QED
    BY <2>1, <2>2 DEF Passable, Alike
<1> QED
  BY <1>1 DEF Fenced

\* pushCommandInQueue() makes a command that is younger than every STOP.
LEMMA FencedBorn ==
  ASSUME Typed, Fenced, StopsOnly', epoch' = epoch, hist'.fence = hist.fence,
         NewId' = NewId + 1,
         \A t \in Tasks : Pending(t)' => Pending(t) /\ caller'[t].cmd = caller[t].cmd,
         \A c \in Underway' : \/ c \in Underway
                              \/ c.epoch = epoch /\ c.id = NewId
  PROVE  Fenced'
<1>1. NewId \in Nat /\ epoch \in Nat /\ hist.fence \in Nat
      /\ \A t \in Tasks : caller[t].cmd.id \in Nat /\ caller[t].cmd.epoch \in Nat
  BY TypedParts DEF HistTypes, CallerTypes, Commands
<1>2. ASSUME NEW c \in Underway', NonIdempotent(c.type) PROVE Passable(c)'
  <2>1. CASE c \in Underway
    BY <1>2, <2>1 DEF Fenced, Passable
  <2>2. CASE c.epoch = epoch /\ c.id = NewId
    BY <1>1, <2>2 DEF Fenced, Passable
  <2> QED
    BY <1>2, <2>1, <2>2
<1> QED
  BY <1>1, <1>2 DEF Fenced

\* The commands of the tasks, when one of them leaves its call or goes on in it.
LEMMA CallerMoves ==
  ASSUME Typed, NEW t \in Tasks
  PROVE  /\ TaskDone(t) => \A s \in Tasks : caller'[s] = IF s = t THEN IdleTask ELSE caller[s]
         /\ \A pc, c : TaskGoes(t, pc, c) =>
              \A s \in Tasks : caller'[s] = IF s = t THEN [pc |-> pc, cmd |-> c] ELSE caller[s]
  BY TypedParts DEF TaskDone, TaskGoes, CallerTypes

\* A history that has one more command.
LEMMA BornFacts ==
  ASSUME Typed
  PROVE  /\ Born.fence = hist.fence /\ Len(Born.fate) = Len(hist.fate) + 1
         /\ [Born EXCEPT !.stops = @ + 1].fence = hist.fence
         /\ [Born EXCEPT !.stops = @ + 1].fate = Born.fate
         /\ Len(hist.fate) \in Nat
<1>1. hist \in HistTypes /\ hist.fate \in Seq(Fates)
  BY TypedParts DEF HistTypes
<1>2. Len(Append(hist.fate, "open")) = Len(hist.fate) + 1 /\ Len(hist.fate) \in Nat
  BY <1>1 DEF Fates
<1> QED
  BY <1>1, <1>2 DEF Born, HistTypes

\* A command that ends leaves the numbers alone.
LEMMA EndedFacts ==
  ASSUME Typed
  PROVE  \A c \in Commands, fate \in Fates :
           /\ Ended(c, fate).fence = hist.fence
           /\ Len(Ended(c, fate).fate) = Len(hist.fate)
<1> SUFFICES ASSUME NEW c \in Commands, NEW fate \in Fates
             PROVE  /\ Ended(c, fate).fence = hist.fence
                    /\ Len(Ended(c, fate).fate) = Len(hist.fate)
  OBVIOUS
<1>1. hist \in HistTypes /\ hist.fate \in Seq(Fates)
  BY TypedParts DEF HistTypes
<1>2. Len([hist.fate EXCEPT ![c.id] = fate]) = Len(hist.fate)
  BY <1>1
<1> QED
  BY <1>1, <1>2 DEF Ended, HistTypes

\* They are commands.
LEMMA UnderwayTyped ==
  ASSUME Typed
  PROVE  \A c \in Underway : c \in Commands /\ c.id \in Nat /\ c.epoch \in Nat
<1>1. /\ \A t \in Tasks : caller[t].cmd \in Commands
      /\ w.cmd \in Commands /\ cmdQ \in Seq(Commands)
  BY TypedParts DEF CallerTypes, WorkerTypes
<1>2. \A i \in DOMAIN cmdQ : cmdQ[i] \in Commands
  BY <1>1
<1>3. \A c \in Underway : c \in Commands
  BY <1>1, <1>2 DEF Underway
<1> QED
  BY <1>3 DEF Commands

\* Calls by tasks.
LEMMA CallFenced ==
  ASSUME Typed, Fenced, StopsOnly', NEW t \in Tasks,
         \/ \E type \in Types : Push(t, type)
         \/ \E p \in Procs \cup {ListRequest} : PushGetLog(t, p)
         \/ EmergencyStop(t)
  PROVE  Fenced'
<1>1. ASSUME NEW c, c.epoch = epoch, c.id = NewId, TaskGoes(t, "send", c), hist' = Born,
             UNCHANGED <<epoch, cmdQ, w>>
      PROVE  Fenced'
  <2>1. \A s \in Tasks : caller'[s] = IF s = t THEN [pc |-> "send", cmd |-> c] ELSE caller[s]
    BY <1>1, CallerMoves
  <2>2. \A s \in Tasks : Pending(s)' => Pending(s) /\ caller'[s].cmd = caller[s].cmd
    BY <2>1 DEF Pending
  <2>3. \A d \in Underway' : d \in Underway \/ (d.epoch = epoch /\ d.id = NewId)
    BY <1>1, <2>1 DEF Underway
  <2>4. hist'.fence = hist.fence /\ NewId' = NewId + 1
    BY <1>1, BornFacts DEF NewId
  <2> QED
    BY <1>1, <2>2, <2>3, <2>4, FencedBorn
<1>2. ASSUME NEW type \in Types, Push(t, type) PROVE Fenced'
  <2> DEFINE c == NewCommand(type, AttemptCount, 0, ListRequest)
  <2>1. c.epoch = epoch /\ c.id = NewId
    BY DEF NewCommand
  <2>2. TaskGoes(t, "send", c) /\ hist' = Born /\ UNCHANGED <<epoch, cmdQ, w>>
    BY <1>2 DEF Push
  <2> HIDE DEF c
  <2> QED
    BY <1>1, <2>1, <2>2
<1>3. ASSUME NEW p \in Procs \cup {ListRequest}, PushGetLog(t, p) PROVE Fenced'
  <2> DEFINE c == NewCommand("GET_LOG", 1, tr'.gen, p)
  <2>1. c.epoch = epoch /\ c.id = NewId
    BY DEF NewCommand
  <2>2. TaskGoes(t, "send", c) /\ hist' = Born /\ UNCHANGED <<epoch, cmdQ, w>>
    BY <1>3 DEF PushGetLog
  <2> HIDE DEF c
  <2> QED
    BY <1>1, <2>1, <2>2
<1>4. CASE EmergencyStop(t)
  <2> DEFINE c == [NewCommand("STOP", 1, 0, ListRequest) EXCEPT !.epoch = epoch + 1]
  <2>1. c.epoch = epoch + 1 /\ c.id = NewId
    BY DEF NewCommand
  <2>2. TaskGoes(t, "sendSafety", c) /\ hist' = [Born EXCEPT !.stops = @ + 1]
        /\ UNCHANGED <<epoch, cmdQ, w>> /\ caller[t].pc = "idle"
    BY <1>4 DEF EmergencyStop
  <2> HIDE DEF c
  <2>3. \A s \in Tasks : caller'[s] = IF s = t THEN [pc |-> "sendSafety", cmd |-> c] ELSE caller[s]
    BY <2>2, CallerMoves
  <2>4. hist'.fence = hist.fence /\ NewId' = NewId + 1
    BY <2>2, BornFacts DEF NewId
  <2>5. NewId \in Nat /\ epoch \in Nat /\ hist.fence \in Nat
        /\ \A s \in Tasks : caller[s].cmd.id \in Nat /\ caller[s].cmd.epoch \in Nat
    BY TypedParts DEF HistTypes, CallerTypes, Commands
  <2>6. \A s \in Tasks : Pending(s)' => caller'[s].cmd.id < NewId'
    BY <2>1, <2>3, <2>4, <2>5 DEF Pending, Fenced
  <2>7. Underway' \subseteq Underway
    BY <2>2, <2>3 DEF Underway
  <2>8. ASSUME NEW d \in Underway', NonIdempotent(d.type) PROVE Passable(d)'
    <3>1. d \in Underway /\ Passable(d)
      BY <2>7, <2>8 DEF Fenced
    <3>2. d.epoch \in Nat
      BY <3>1, UnderwayTyped
    <3>3. ASSUME NEW s \in Tasks, Pending(s)', d.epoch >= caller'[s].cmd.epoch
          PROVE  d.id > caller'[s].cmd.id
      <4>1. CASE s = t
        BY <2>1, <2>3, <2>5, <3>1, <3>2, <3>3, <4>1 DEF Passable
      <4>2. CASE s # t
        BY <2>3, <3>1, <3>3, <4>2 DEF Passable, Pending
      <4> QED
        BY <4>1, <4>2
    <3> QED
      BY <2>2, <2>4, <3>1, <3>3 DEF Passable
  <2> QED
    BY <2>4, <2>5, <2>6, <2>8 DEF Fenced
<1> QED
  BY <1>2, <1>3, <1>4

\* A task on its way through a call; what it publishes is no older than what is.
LEMMA TaskStepFenced ==
  ASSUME Typed, Fenced, StopsOnly', NEW t \in Tasks, TaskStep(t), epoch' >= epoch
  PROVE  Fenced'
<1>1. /\ caller[t].cmd \in Commands /\ cmdQ \in Seq(Commands) /\ NewId \in Nat /\ epoch \in Nat
      /\ hist.fence \in Nat /\ Len(hist.fate) \in Nat /\ caller[t].cmd.epoch \in Nat
      /\ \A s \in Tasks : caller[s].cmd.id \in Nat
  BY TypedParts, BornFacts DEF CallerTypes, HistTypes, Commands
<1>2. ASSUME UNCHANGED <<epoch, w>>, hist'.fence = hist.fence, Len(hist'.fate) = Len(hist.fate),
             \A s \in Tasks : s # t => caller'[s] = caller[s],
             \/ caller'[t] = IdleTask
             \/ caller[t].pc = "sendSafety" /\ caller'[t] = [pc |-> "publish", cmd |-> caller[t].cmd],
             {cmdQ'[i] : i \in DOMAIN cmdQ'} \subseteq Underway
      PROVE  Fenced'
  <2>1. IdleTask.pc = "idle"
    BY DEF IdleTask
  <2>2. \A s \in Tasks : Pending(s)' => Pending(s) /\ caller'[s].cmd = caller[s].cmd
    BY <1>2, <2>1 DEF Pending
  <2>3. Underway' \subseteq Underway
    BY <1>2, <2>1 DEF Underway
  <2>4. \A c \in Underway' : NonIdempotent(c.type) => \E d \in Underway : Alike(c, d)
    BY <2>3 DEF Alike
  <2>5. epoch' = epoch /\ NewId' = NewId
    BY <1>2 DEF NewId
  <2> QED
    BY <1>2, <2>2, <2>4, <2>5, FencedSame
<1>3. {cmdQ[i] : i \in DOMAIN cmdQ} \subseteq Underway
  BY DEF Underway
<1>4. CASE Send(t)
  <2>1. /\ caller[t].pc = "send" /\ cmdQ' = Append(cmdQ, caller[t].cmd) /\ hist' = hist
        /\ UNCHANGED <<epoch, w>> /\ TaskDone(t)
    BY <1>4 DEF Send
  <2>2. \A i \in DOMAIN cmdQ' : cmdQ'[i] = caller[t].cmd \/ (i \in DOMAIN cmdQ /\ cmdQ'[i] = cmdQ[i])
    BY <1>1, <2>1
  <2>3. caller[t].cmd \in Underway
    BY <2>1 DEF Underway
  <2>4. {cmdQ'[i] : i \in DOMAIN cmdQ'} \subseteq Underway
    BY <1>3, <2>2, <2>3
  <2>5. \A s \in Tasks : caller'[s] = IF s = t THEN IdleTask ELSE caller[s]
    BY <2>1, CallerMoves
  <2> QED
    BY <1>2, <2>1, <2>4, <2>5
<1>5. CASE SendRefused(t) \/ SafetyRefused(t)
  <2>1. /\ UNCHANGED <<epoch, w, cmdQ>> /\ TaskDone(t) /\ hist' = Ended(caller[t].cmd, "refused")
    BY <1>5 DEF SendRefused, SafetyRefused
  <2>2. \A s \in Tasks : caller'[s] = IF s = t THEN IdleTask ELSE caller[s]
    BY <2>1, CallerMoves
  <2>3. hist'.fence = hist.fence /\ Len(hist'.fate) = Len(hist.fate)
    BY <1>1, <2>1, EndedFacts DEF Fates
  <2> QED
    BY <1>2, <1>3, <2>1, <2>2, <2>3
<1>6. CASE SendSafety(t)
  <2>1. /\ UNCHANGED <<epoch, w, cmdQ, hist>> /\ caller[t].pc = "sendSafety"
        /\ TaskGoes(t, "publish", caller[t].cmd)
    BY <1>6 DEF SendSafety
  <2>2. \A s \in Tasks :
           caller'[s] = IF s = t THEN [pc |-> "publish", cmd |-> caller[t].cmd] ELSE caller[s]
    BY <2>1, CallerMoves
  <2> QED
    BY <1>2, <1>3, <2>1, <2>2
<1>7. CASE Publish(t)
  <2> DEFINE s0 == caller[t].cmd
             new == IF s0.id > hist.fence THEN s0.id ELSE hist.fence
  <2>1. /\ UNCHANGED <<w, cmdQ>> /\ TaskDone(t) /\ epoch' = s0.epoch /\ Pending(t)
        /\ hist' = [hist EXCEPT !.fence = new]
    BY <1>7 DEF Publish, Pending
  <2>2. \A s \in Tasks : caller'[s] = IF s = t THEN IdleTask ELSE caller[s]
    BY <2>1, CallerMoves
  <2>3. hist'.fence = new /\ hist'.fate = hist.fate
    BY <2>1, TypedParts DEF HistTypes
  <2>4. NewId' = NewId
    BY <2>3 DEF NewId
  <2>5. IdleTask.pc = "idle"
    BY DEF IdleTask
  <2>6. \A s \in Tasks : Pending(s)' => Pending(s) /\ caller'[s].cmd = caller[s].cmd
    BY <2>2, <2>5 DEF Pending
  <2>7. Underway' \subseteq Underway
    BY <2>1, <2>2, <2>5 DEF Underway
  <2>8. ASSUME NEW c \in Underway', NonIdempotent(c.type) PROVE Passable(c)'
    <3>1. c \in Underway /\ Passable(c)
      BY <2>7, <2>8 DEF Fenced
    <3>2. c.epoch \in Nat /\ c.id \in Nat
      BY <3>1, UnderwayTyped
    <3>3. c.epoch <= epoch'
      BY <1>1, <2>1, <3>1, <3>2 DEF Passable
    <3>4. ASSUME c.epoch = epoch' PROVE c.id > hist'.fence
      <4>1. c.epoch = epoch
        BY <1>1, <2>1, <3>1, <3>2, <3>4 DEF Passable
      <4>2. c.id > hist.fence /\ c.id > s0.id
        BY <1>1, <2>1, <3>1, <3>4, <4>1 DEF Passable
      <4> QED
        BY <2>3, <4>2
    <3> QED
      BY <2>6, <3>1, <3>3, <3>4 DEF Passable
  <2>9. hist'.fence < NewId'
    BY <1>1, <2>1, <2>3, <2>4 DEF Fenced
  <2> QED
    BY <2>4, <2>6, <2>8, <2>9 DEF Fenced
<1> QED
  BY <1>4, <1>5, <1>6, <1>7 DEF TaskStep

\* A step of the worker that makes no command: it keeps the one it holds, takes
\* one or gets rid of it.
LEMMA WorkerFencedSame ==
  ASSUME Typed, Fenced, StopsOnly', UNCHANGED <<epoch, caller>>, hist'.fence = hist.fence,
         Len(hist'.fate) = Len(hist.fate),
         {cmdQ'[i] : i \in DOMAIN cmdQ'} \subseteq Underway,
         \/ \E d \in Underway : Alike(w'.cmd, d)
         \/ w'.cmd.type \in {"AT", "STOP"}
  PROVE  Fenced'
<1>1. \A c \in Underway' : NonIdempotent(c.type) => \E d \in Underway : Alike(c, d)
  <2> SUFFICES ASSUME NEW c \in Underway', NonIdempotent(c.type)
               PROVE  \E d \in Underway : Alike(c, d)
    OBVIOUS
  <2>1. c \in Underway \/ c = w'.cmd
    BY DEF Underway
  <2> QED
    BY <2>1 DEF Alike, NonIdempotent
<1>2. \A t \in Tasks : Pending(t)' => Pending(t) /\ caller'[t].cmd = caller[t].cmd
  BY DEF Pending
<1>3. epoch' = epoch /\ NewId' = NewId
  BY DEF NewId
<1> QED
  BY <1>1, <1>2, <1>3, FencedSame

LEMMA WorkerFenced == ASSUME Typed, Fenced, StopsOnly', WorkerStep PROVE Fenced'
<1>1. /\ w \in WorkerTypes /\ w.cmd \in Commands /\ cmdQ \in Seq(Commands) /\ hist \in HistTypes
      /\ safetyQ \in Seq(Commands) /\ w.cmd.id \in Nat
  BY TypedParts, WorkerCmdTyped
<1>2. {cmdQ[i] : i \in DOMAIN cmdQ} \subseteq Underway /\ w.cmd \in Underway
  BY DEF Underway
<1>3. AtSafety.cmd.type = "AT" /\ \A c : [AtSafety EXCEPT !.pc = "check", !.cmd = c].cmd = c
  BY DEF AtSafety, NoCmd
<1>4. \A d : Alike(d, d)
  BY DEF Alike
<1>5. \A pc : WorkerAt(pc) => w'.cmd = w.cmd
  BY <1>1 DEF WorkerAt, WorkerTypes
<1>6. \A fate \in Fates : Finish(fate) =>
         w'.cmd.type = "AT" /\ hist'.fence = hist.fence /\ Len(hist'.fate) = Len(hist.fate)
  BY <1>1, <1>3, EndedFacts DEF Finish
<1>7. ASSUME UNCHANGED <<epoch, caller, cmdQ>>,
             \/ w'.cmd = w.cmd /\ hist' = hist
             \/ \E fate \in Fates : Finish(fate)
      PROVE  Fenced'
  BY <1>2, <1>4, <1>6, <1>7, WorkerFencedSame
<1>8. CASE TakeSafety
  <2>1. /\ safetyQ # << >> /\ w'.cmd = Head(safetyQ) /\ UNCHANGED <<epoch, caller, cmdQ>>
        /\ \E s : hist' = [hist EXCEPT !.overtook = s]
    BY <1>3, <1>8 DEF TakeSafety
  <2>2. Head(safetyQ) = safetyQ[1] /\ 1 \in DOMAIN safetyQ
    BY <1>1, <2>1
  <2>3. w'.cmd.type = "STOP"
    BY <2>1, <2>2 DEF Fenced, StopsOnly
  <2>4. hist'.fence = hist.fence /\ hist'.fate = hist.fate
    BY <1>1, <2>1 DEF HistTypes
  <2> QED
    BY <1>2, <2>1, <2>3, <2>4, WorkerFencedSame
<1>9. CASE TakeCommand
  <2>1. /\ cmdQ # << >> /\ w'.cmd = Head(cmdQ) /\ UNCHANGED <<epoch, caller, hist>>
        /\ cmdQ' = Tail(cmdQ)
    BY <1>3, <1>9 DEF TakeCommand
  <2>2. Head(cmdQ) \in {cmdQ[i] : i \in DOMAIN cmdQ}
    BY <1>1, <2>1
  <2>3. \A i \in DOMAIN cmdQ' : i + 1 \in DOMAIN cmdQ /\ cmdQ'[i] = cmdQ[i + 1]
    BY <1>1, <2>1, HeadTailProperties, LenProperties
  <2>4. {cmdQ'[i] : i \in DOMAIN cmdQ'} \subseteq Underway
    BY <1>2, <2>3
  <2> QED
    BY <1>2, <1>4, <2>1, <2>2, <2>4, WorkerFencedSame
<1>10. CASE Requeue
  <2>1. w'.cmd.type = "AT" /\ UNCHANGED <<epoch, caller, hist>> /\ cmdQ' = Append(cmdQ, w.cmd)
    BY <1>3, <1>10 DEF Requeue
  <2>2. \A i \in DOMAIN cmdQ' : cmdQ'[i] = w.cmd \/ (i \in DOMAIN cmdQ /\ cmdQ'[i] = cmdQ[i])
    BY <1>1, <2>1
  <2>3. {cmdQ'[i] : i \in DOMAIN cmdQ'} \subseteq Underway
    BY <1>2, <2>2
  <2> QED
    BY <2>1, <2>3, WorkerFencedSame
<1>11. CASE Attempt
  <2>1. Alike(w'.cmd, w.cmd) /\ UNCHANGED <<epoch, caller, cmdQ, hist>>
    BY <1>1, <1>11 DEF Attempt, WorkerTypes, Commands, Alike
  <2> QED
    BY <1>2, <2>1, WorkerFencedSame
<1>12. CASE WriteOk
  <2>1. UNCHANGED <<epoch, caller, cmdQ>> /\ (w'.cmd = w.cmd \/ w'.cmd.type = "AT")
    BY <1>3, <1>5, <1>12 DEF WriteOk
  <2>2. WasWritten.fence = hist.fence /\ WasWritten.fate = hist.fate
        /\ WasWritten \in [fate: Seq(Fates), stops: Nat, fence: Nat, written: SUBSET Nat,
                           overtook: SUBSET Nat]
    BY <1>1 DEF WasWritten, HistTypes
  <2>3. \/ hist' = WasWritten
        \/ hist' = [WasWritten EXCEPT !.fate[w.cmd.id] = "sent"]
    BY <1>12 DEF WriteOk
  <2>4. hist'.fence = hist.fence /\ Len(hist'.fate) = Len(hist.fate)
    <3>1. CASE hist' = WasWritten
      BY <2>2, <3>1
    <3>2. CASE hist' = [WasWritten EXCEPT !.fate[w.cmd.id] = "sent"]
      <4>1. hist'.fence = WasWritten.fence /\ hist'.fate = [hist.fate EXCEPT ![w.cmd.id] = "sent"]
        BY <2>2, <3>2
      <4>2. Len([hist.fate EXCEPT ![w.cmd.id] = "sent"]) = Len(hist.fate)
        BY <1>1 DEF HistTypes
      <4> QED
        BY <2>2, <4>1, <4>2
    <3> QED
      BY <2>3, <3>1, <3>2
  <2> QED
    BY <1>2, <1>4, <2>1, <2>4, WorkerFencedSame
<1>13. CASE NoSafety \/ QueueIdle \/ DropStale \/ KeepFresh \/ Gate \/ NoMoreAttempts \/ StopProbe
            \/ StopCancel \/ Mark \/ WriteFailed \/ HelloDone
  <2>1. UNCHANGED <<epoch, caller, cmdQ>>
    BY <1>13 DEF NoSafety, QueueIdle, DropStale, KeepFresh, Gate, NoMoreAttempts, StopProbe,
       StopCancel, Mark, WriteFailed, HelloDone
  <2>2. \/ \E pc : WorkerAt(pc) /\ hist' = hist
        \/ \E fate \in Fates : Finish(fate)
    BY <1>13 DEF NoSafety, QueueIdle, DropStale, KeepFresh, Gate, NoMoreAttempts, StopProbe,
       StopCancel, Mark, WriteFailed, HelloDone, Fates
  <2> QED
    BY <1>5, <1>7, <2>1, <2>2
<1>14. CASE Poll \/ SliceOver \/ Success \/ Failure
  <2>1. UNCHANGED <<epoch, caller, cmdQ>>
    BY <1>14 DEF Poll, SliceOver, Success, Failure
  <2>2. (w'.cmd = w.cmd /\ hist' = hist) \/ \E fate \in Fates : Finish(fate)
    <3>1. CASE Poll
      BY <1>1, <1>5, <3>1 DEF Poll, WorkerTypes
    <3>2. CASE SliceOver
      BY <1>1, <3>2 DEF SliceOver, WorkerTypes, Fates
    <3>3. CASE Success \/ Failure
      BY <1>1, <1>5, <3>3 DEF Success, Failure, WorkerTypes, Fates
    <3> QED
      BY <1>14, <3>1, <3>2, <3>3
  <2> QED
    BY <1>7, <2>1, <2>2
<1>15. CASE Hello
  <2>1. w'.cmd = w.cmd /\ UNCHANGED <<epoch, caller>>
    BY <1>1, <1>15 DEF Hello, WorkerTypes
  <2>2. CASE cmdQ' = cmdQ /\ hist' = hist
    BY <1>7, <2>1, <2>2
  <2> DEFINE c == NewCommand("STATUS", AttemptCount, 0, ListRequest)
  <2>3. CASE cmdQ' = Append(cmdQ, c) /\ hist' = Born
    <3>1. c.epoch = epoch /\ c.id = NewId /\ c \in Commands
      BY NewCommandTyped, TypeFacts DEF NewCommand, CommandTypes
    <3> HIDE DEF c
    <3>2. \A i \in DOMAIN cmdQ' : cmdQ'[i] = c \/ (i \in DOMAIN cmdQ /\ cmdQ'[i] = cmdQ[i])
      BY <1>1, <2>3, <3>1
    <3>3. \A d \in Underway' : d \in Underway \/ (d.epoch = epoch /\ d.id = NewId)
      BY <2>1, <3>1, <3>2 DEF Underway
    <3>4. hist'.fence = hist.fence /\ NewId' = NewId + 1
      BY <2>3, BornFacts DEF NewId
    <3>5. \A t \in Tasks : Pending(t)' => Pending(t) /\ caller'[t].cmd = caller[t].cmd
      BY <2>1 DEF Pending
    <3> QED
      BY <2>1, <3>3, <3>4, <3>5, FencedBorn
  <2>4. (cmdQ' = cmdQ /\ hist' = hist) \/ (cmdQ' = Append(cmdQ, c) /\ hist' = Born)
    BY <1>15 DEF Hello
  <2> QED
    BY <2>2, <2>3, <2>4
<1> QED
  BY <1>8, <1>9, <1>10, <1>11, <1>12, <1>13, <1>14, <1>15 DEF WorkerStep

\* _safetyEpoch does not go back.
Forward == epoch' >= epoch

\* Every step that does not set _safetyEpoch back keeps Fenced.
LEMMA NextFenced == ASSUME Typed, Fenced, [Next]_vars, [Forward]_vars PROVE Fenced'
<1>1. StopsOnly'
  BY NextStopsOnly DEF Fenced
<1>2. epoch' >= epoch
  <2>1. epoch \in Nat
    BY TypedParts
  <2> QED
    BY <2>1 DEF Forward, vars
<1>3. CASE ControllerReads \/ RxLogFrame \/ RxResponse \/ RxSetBit \/ Telemetry \/ RectWaits
           \/ SessionTimeout \/ UNCHANGED vars
  <2>1. UNCHANGED <<epoch, caller, cmdQ, hist>>
    BY <1>3 DEF ControllerReads, RxLogFrame, RxResponse, RxSetBit, Telemetry, RectWaits,
       SessionTimeout, vars
  <2>2. w'.cmd = w.cmd
    <3>1. CASE RxSetBit
      BY <3>1, SetBitMoves DEF RxSetBit
    <3>2. CASE ~RxSetBit
      BY <1>3, <3>2 DEF ControllerReads, RxLogFrame, RxResponse, Telemetry, RectWaits,
         SessionTimeout, vars
    <3> QED
      BY <3>1, <3>2
  <2>3. {cmdQ[i] : i \in DOMAIN cmdQ} \subseteq Underway /\ w.cmd \in Underway
    BY DEF Underway
  <2>4. Alike(w'.cmd, w.cmd)
    BY <2>2 DEF Alike
  <2> QED
    BY <1>1, <2>1, <2>3, <2>4, WorkerFencedSame
<1> QED
  BY <1>1, <1>2, <1>3, CallFenced, TaskStepFenced, WorkerFenced DEF Next, ReceiverStep

LEMMA InitFenced == Init => Fenced
<1> SUFFICES ASSUME Init PROVE Fenced
  OBVIOUS
<1>1. hist.fate = << >> /\ hist.fence = 0 /\ Len(hist.fate) = 0
  BY DEF Init
<1>2. NewId = 1
  BY <1>1 DEF NewId
<1>3. \A t \in Tasks : caller[t].pc = "idle"
  BY DEF Init, IdleTask
<1>4. StopsOnly
  BY <1>3 DEF Init, StopsOnly
<1>5. \A c \in Underway : c = NoCmd
  BY <1>3 DEF Init, Underway, AtSafety
<1>6. NoCmd.type = "AT"
  BY DEF NoCmd
<1> QED
  BY <1>1, <1>2, <1>3, <1>4, <1>5, <1>6 DEF Fenced, Pending, NonIdempotent

\* Only a command that is not stale passes the check.
LEMMA TakenFresh == ASSUME Typed, [Next]_vars, Taking PROVE ~Stale(w.cmd)
<1>1. w.pc = "check" /\ w'.pc = "gate"
  BY DEF Taking
<1>2. CASE WorkerStep
  <2>1. DropStale \/ KeepFresh
    BY <1>1, <1>2
       DEF WorkerStep, TakeSafety, NoSafety, TakeCommand, QueueIdle, Gate, Requeue, Attempt,
           NoMoreAttempts, StopProbe, StopCancel, Mark, WriteOk, WriteFailed, Poll, SliceOver,
           Success, Failure, Hello, HelloDone
  <2>2. ~DropStale
    BY <1>1 DEF DropStale, Finish, AtSafety
  <2> QED
    BY <2>1, <2>2 DEF KeepFresh
<1>3. CASE ~WorkerStep
  <2>1. w' = w \/ RxSetBit
    BY <1>3 DEF Next, Push, PushGetLog, EmergencyStop, TaskStep, Send, SendRefused, SendSafety,
       SafetyRefused, Publish, ControllerReads, ReceiverStep, RxLogFrame, RxResponse, Telemetry,
       RectWaits, SessionTimeout, vars
  <2>2. RxSetBit => w' = w
    BY <1>1 DEF RxSetBit, SetBit
  <2> QED
    BY <1>1, <2>1, <2>2
<1> QED
  BY <1>2, <1>3

\* A START, NEXT or RESUME that passes the check is younger than every STOP whose call
\* has returned, as long as _safetyEpoch never goes back: however many stops there
\* were, and wherever the command was deferred to on its way.
THEOREM StaleDroppedForward == Spec /\ [][Forward]_vars => StaleDropped
<1>1. Init => Typed /\ Fenced
  BY InitTyped, InitFenced
<1>2. Typed /\ Fenced /\ [Next]_vars /\ [Forward]_vars => (Typed /\ Fenced)'
  BY NextTyped, NextFenced
<1>3. ASSUME Typed, Fenced, [Next]_vars
      PROVE  Taking /\ NonIdempotent(w.cmd.type) => w.cmd.id > hist.fence
  <2> SUFFICES ASSUME Taking, NonIdempotent(w.cmd.type) PROVE w.cmd.id > hist.fence
    OBVIOUS
  <2>1. w.cmd.epoch = epoch
    BY <1>3, TakenFresh DEF Stale
  <2>2. Passable(w.cmd)
    BY <1>3 DEF Fenced, Underway
  <2> QED
    BY <2>1, <2>2 DEF Passable
<1> QED
  BY <1>1, <1>2, <1>3, PTL DEF Spec, StaleDropped

\* When no call begins before the last one has published its epoch, an epoch waiting
\* to be published is the next one.
OneStop == \A s, t \in Tasks : Pending(s) /\ Pending(t) => s = t

NextEpoch == \A t \in Tasks : Pending(t) => caller[t].cmd.epoch = epoch + 1

\* With two calls both may wait, but then with the same epoch.
Paired ==
    /\ hist.stops <= MaxStops
    /\ \A t \in Tasks : Pending(t) =>
         /\ caller[t].cmd.epoch >= epoch
         /\ hist.stops # 0
         /\ hist.stops = 1 => caller[t].cmd.epoch = epoch + 1
    /\ \A s, t \in Tasks : Pending(s) /\ Pending(t) =>
         /\ caller[s].cmd.epoch = caller[t].cmd.epoch
         /\ hist.stops = 1 => s = t

\* What a step does to the calls of emergencyStop(): nothing, but for one that begins,
\* is refused or publishes.
LEMMA StopSteps ==
  ASSUME Typed, [Next]_vars
  PROVE  \/ /\ epoch' = epoch /\ hist'.stops = hist.stops
            /\ \A t \in Tasks : Pending(t)' => Pending(t) /\ caller'[t].cmd = caller[t].cmd
         \/ \E t \in Tasks :
              /\ epoch' = epoch /\ hist'.stops = hist.stops + 1 /\ hist.stops < MaxStops
              /\ ~Pending(t) /\ Pending(t)' /\ caller'[t].cmd.epoch = epoch + 1
              /\ \A s \in Tasks : s # t => caller'[s] = caller[s]
         \/ \E t \in Tasks :
              /\ Pending(t) /\ epoch' = caller[t].cmd.epoch /\ hist'.stops = hist.stops
              /\ ~Pending(t)' /\ \A s \in Tasks : s # t => caller'[s] = caller[s]
<1> DEFINE Quiet == /\ epoch' = epoch /\ hist'.stops = hist.stops
                    /\ \A t \in Tasks : Pending(t)' => Pending(t) /\ caller'[t].cmd = caller[t].cmd
           Begins == \E t \in Tasks :
              /\ epoch' = epoch /\ hist'.stops = hist.stops + 1 /\ hist.stops < MaxStops
              /\ ~Pending(t) /\ Pending(t)' /\ caller'[t].cmd.epoch = epoch + 1
              /\ \A s \in Tasks : s # t => caller'[s] = caller[s]
           Ends == \E t \in Tasks :
              /\ Pending(t) /\ epoch' = caller[t].cmd.epoch /\ hist'.stops = hist.stops
              /\ ~Pending(t)' /\ \A s \in Tasks : s # t => caller'[s] = caller[s]
<1>1. hist \in HistTypes /\ Born \in HistTypes /\ Born.stops = hist.stops
      /\ \A c : \A fate : Ended(c, fate).stops = hist.stops
  <2>1. hist \in HistTypes
    BY TypedParts
  <2> QED
    BY <2>1, TypedParts DEF HistTypes, Born, Ended
<1>2. ASSUME epoch' = epoch, caller' = caller, hist'.stops = hist.stops PROVE Quiet
  BY <1>2 DEF Pending
<1>3. ASSUME WorkerStep PROVE Quiet
  <2>1. UNCHANGED <<epoch, caller>>
    BY <1>3 DEF WorkerStep, TakeSafety, NoSafety, TakeCommand, QueueIdle, DropStale, KeepFresh,
       Gate, Requeue, Attempt, NoMoreAttempts, StopProbe, StopCancel, Mark, WriteOk, WriteFailed,
       Poll, SliceOver, Success, Failure, Hello, HelloDone
  <2>2. hist'.stops = hist.stops
    <3>1. CASE TakeSafety \/ WriteOk
      BY <1>1, <3>1 DEF TakeSafety, WriteOk, WasWritten, HistTypes
    <3>2. CASE ~TakeSafety /\ ~WriteOk
      <4>1. hist' = hist \/ hist' = Born \/ \E c, fate : hist' = Ended(c, fate)
        BY <1>3, <3>2 DEF WorkerStep, NoSafety, TakeCommand, QueueIdle, DropStale, KeepFresh,
           Gate, Requeue, Attempt, NoMoreAttempts, StopProbe, StopCancel, Mark, WriteFailed,
           Poll, SliceOver, Success, Failure, Hello, HelloDone, Finish
      <4> QED
        BY <1>1, <4>1
    <3> QED
      BY <3>1, <3>2
  <2> QED
    BY <1>2, <2>1, <2>2
<1>4. ASSUME \/ ControllerReads \/ ReceiverStep \/ Telemetry \/ RectWaits \/ SessionTimeout
             \/ UNCHANGED vars
      PROVE  Quiet
  <2>1. UNCHANGED <<epoch, caller, hist>>
    BY <1>4 DEF ControllerReads, ReceiverStep, RxLogFrame, RxResponse, RxSetBit, Telemetry,
       RectWaits, SessionTimeout, vars
  <2> QED
    BY <1>2, <2>1
<1>5. ASSUME NEW t \in Tasks, NEW c, TaskGoes(t, "send", c), epoch' = epoch, hist' = Born
      PROVE  Quiet
  <2>1. \A s \in Tasks : caller'[s] = IF s = t THEN [pc |-> "send", cmd |-> c] ELSE caller[s]
    BY <1>5, CallerMoves
  <2> QED
    BY <1>1, <1>5, <2>1 DEF Pending
<1>6. ASSUME NEW t \in Tasks, NEW type \in Types, Push(t, type) PROVE Quiet
  BY <1>5, <1>6 DEF Push
<1>7. ASSUME NEW t \in Tasks, NEW p \in Procs \cup {ListRequest}, PushGetLog(t, p) PROVE Quiet
  BY <1>5, <1>7 DEF PushGetLog
<1>8. ASSUME NEW t \in Tasks, EmergencyStop(t) PROVE Begins
  <2> DEFINE c == [NewCommand("STOP", 1, 0, ListRequest) EXCEPT !.epoch = epoch + 1]
  <2>1. c.epoch = epoch + 1
    BY DEF NewCommand
  <2>2. TaskGoes(t, "sendSafety", c) /\ hist' = [Born EXCEPT !.stops = @ + 1]
        /\ epoch' = epoch /\ caller[t].pc = "idle" /\ hist.stops < MaxStops
    BY <1>8 DEF EmergencyStop
  <2> HIDE DEF c
  <2>3. \A s \in Tasks : caller'[s] = IF s = t THEN [pc |-> "sendSafety", cmd |-> c] ELSE caller[s]
    BY <2>2, CallerMoves
  <2>4. hist'.stops = hist.stops + 1
    BY <1>1, <2>2 DEF HistTypes
  <2> QED
    BY <2>1, <2>2, <2>3, <2>4 DEF Pending
<1>9. ASSUME NEW t \in Tasks, TaskStep(t) PROVE Quiet \/ Ends
  <2>1. IdleTask.pc = "idle"
    BY DEF IdleTask
  <2>2. CASE Send(t) \/ SendRefused(t) \/ SafetyRefused(t)
    <3>1. epoch' = epoch /\ TaskDone(t) /\ (hist' = hist \/ \E c, fate : hist' = Ended(c, fate))
      BY <2>2 DEF Send, SendRefused, SafetyRefused
    <3>2. \A s \in Tasks : caller'[s] = IF s = t THEN IdleTask ELSE caller[s]
      BY <3>1, CallerMoves
    <3> QED
      BY <1>1, <2>1, <3>1, <3>2 DEF Pending
  <2>3. CASE SendSafety(t)
    <3>1. epoch' = epoch /\ hist' = hist /\ TaskGoes(t, "publish", caller[t].cmd)
          /\ caller[t].pc = "sendSafety"
      BY <2>3 DEF SendSafety
    <3>2. \A s \in Tasks :
             caller'[s] = IF s = t THEN [pc |-> "publish", cmd |-> caller[t].cmd] ELSE caller[s]
      BY <3>1, CallerMoves
    <3> QED
      BY <3>1, <3>2 DEF Pending
  <2>4. CASE Publish(t)
    <3>1. epoch' = caller[t].cmd.epoch /\ TaskDone(t) /\ caller[t].pc = "publish"
          /\ \E n : hist' = [hist EXCEPT !.fence = n]
      BY <2>4 DEF Publish
    <3>2. hist'.stops = hist.stops
      BY <1>1, <3>1 DEF HistTypes
    <3>3. \A s \in Tasks : caller'[s] = IF s = t THEN IdleTask ELSE caller[s]
      BY <3>1, CallerMoves
    <3> QED
      BY <2>1, <3>1, <3>2, <3>3 DEF Pending
  <2> QED
    BY <1>9, <2>2, <2>3, <2>4 DEF TaskStep
<1> HIDE DEF Quiet, Begins, Ends
<1>10. ASSUME NEW t \in Tasks,
              \/ \E type \in Types : Push(t, type)
              \/ \E p \in Procs \cup {ListRequest} : PushGetLog(t, p)
              \/ EmergencyStop(t)
              \/ TaskStep(t)
       PROVE  Quiet \/ Begins \/ Ends
  BY <1>6, <1>7, <1>8, <1>9, <1>10
<1>11. Quiet \/ Begins \/ Ends
  BY <1>3, <1>4, <1>10 DEF Next
<1> QED
  BY <1>11 DEF Quiet, Begins, Ends

\* While calls do not overlap _safetyEpoch counts up.
LEMMA NextEpochKept ==
  ASSUME Typed, OneStop, OneStop', NextEpoch, [Next]_vars
  PROVE  NextEpoch' /\ Forward
<1>1. epoch \in Nat /\ \A t \in Tasks : caller[t].cmd.epoch \in Nat
  BY TypedParts DEF CallerTypes, Commands
<1>2. CASE /\ epoch' = epoch /\ hist'.stops = hist.stops
           /\ \A t \in Tasks : Pending(t)' => Pending(t) /\ caller'[t].cmd = caller[t].cmd
  BY <1>1, <1>2 DEF NextEpoch, Forward
<1>3. ASSUME NEW t \in Tasks, epoch' = epoch, Pending(t)', caller'[t].cmd.epoch = epoch + 1
      PROVE  NextEpoch' /\ Forward
  BY <1>1, <1>3 DEF NextEpoch, Forward, OneStop
<1>4. ASSUME NEW t \in Tasks, Pending(t), epoch' = caller[t].cmd.epoch, ~Pending(t)',
             \A s \in Tasks : s # t => caller'[s] = caller[s]
      PROVE  NextEpoch' /\ Forward
  <2>1. \A s \in Tasks : ~Pending(s)'
    BY <1>4 DEF OneStop, Pending
  <2> QED
    BY <1>1, <1>4, <2>1 DEF NextEpoch, Forward
<1> QED
  BY <1>2, <1>3, <1>4, StopSteps

\* While calls of emergencyStop() do not overlap, everything made before one that has
\* returned is dropped.
THEOREM StaleDroppedApart == Spec /\ []OneStop => StaleDropped
<1>1. Init => Typed /\ NextEpoch
  <2>1. Init => NextEpoch
    BY DEF Init, NextEpoch, Pending, IdleTask
  <2> QED
    BY <2>1, InitTyped
<1>2. Typed /\ NextEpoch /\ OneStop /\ OneStop' /\ [Next]_vars => (Typed /\ NextEpoch)'
  BY NextTyped, NextEpochKept
<1>3. Typed /\ NextEpoch /\ OneStop /\ OneStop' /\ [Next]_vars => [Forward]_vars
  BY NextEpochKept
<1>4. Spec /\ []OneStop => [][Forward]_vars
  BY <1>1, <1>2, <1>3, PTL DEF Spec
<1> QED
  BY <1>4, StaleDroppedForward, PTL

\* So it does with two calls, however they overlap.
LEMMA PairedKept ==
  ASSUME Typed, MaxStops <= 2, Paired, [Next]_vars
  PROVE  Paired' /\ Forward
<1>1. /\ epoch \in Nat /\ hist.stops \in Nat /\ MaxStops \in Nat
      /\ \A t \in Tasks : caller[t].cmd.epoch \in Nat
  BY TypedParts, QueueBoundsAssumption DEF CallerTypes, Commands, HistTypes
<1>2. CASE /\ epoch' = epoch /\ hist'.stops = hist.stops
           /\ \A t \in Tasks : Pending(t)' => Pending(t) /\ caller'[t].cmd = caller[t].cmd
  BY <1>1, <1>2 DEF Paired, Forward
<1>3. ASSUME NEW t \in Tasks, epoch' = epoch, hist'.stops = hist.stops + 1,
             hist.stops < MaxStops, ~Pending(t), caller'[t].cmd.epoch = epoch + 1,
             \A s \in Tasks : s # t => caller'[s] = caller[s]
      PROVE  Paired' /\ Forward
  <2>1. hist.stops \in {0, 1}
    BY <1>1, <1>3
  <2>2. \A s \in Tasks : Pending(s)' /\ s # t => /\ Pending(s) /\ hist.stops = 1
                                                 /\ caller'[s].cmd.epoch = epoch + 1
    BY <1>3, <2>1 DEF Paired, Pending
  <2>3. \A s \in Tasks : Pending(s)' => caller'[s].cmd.epoch = epoch + 1
    BY <1>3, <2>2
  <2>4. hist'.stops = 1 => \A s \in Tasks : Pending(s)' => s = t
    BY <1>1, <1>3, <2>2
  <2>5. hist'.stops <= MaxStops /\ hist'.stops # 0
    BY <1>1, <1>3
  <2> QED
    BY <1>1, <1>3, <2>3, <2>4, <2>5 DEF Paired, Forward
<1>4. ASSUME NEW t \in Tasks, Pending(t), epoch' = caller[t].cmd.epoch,
             hist'.stops = hist.stops, ~Pending(t)',
             \A s \in Tasks : s # t => caller'[s] = caller[s]
      PROVE  Paired' /\ Forward
  <2>1. \A s \in Tasks : Pending(s)' => /\ Pending(s) /\ caller'[s].cmd = caller[s].cmd
                                        /\ caller[s].cmd.epoch = epoch' /\ hist.stops # 1
    BY <1>4 DEF Paired, Pending
  <2> QED
    BY <1>1, <1>4, <2>1 DEF Paired, Forward
<1> QED
  BY <1>2, <1>3, <1>4, StopSteps

\* With two calls of emergencyStop(), overlapping or not, everything made before one
\* that has returned is dropped.  With three it is not: see MCFenceRace.
THEOREM TwoStopsFence == MaxStops <= 2 => (Spec => StaleDropped)
<1> SUFFICES ASSUME MaxStops <= 2 PROVE Spec => StaleDropped
  OBVIOUS
<1>1. Init => Typed /\ Paired
  <2>1. Init => Paired
    BY QueueBoundsAssumption DEF Init, Paired, Pending, IdleTask
  <2> QED
    BY <2>1, InitTyped
<1>2. Typed /\ Paired /\ [Next]_vars => (Typed /\ Paired)'
  BY NextTyped, PairedKept
<1>3. Typed /\ Paired /\ [Next]_vars => [Forward]_vars
  BY PairedKept
<1>4. Spec => [][Forward]_vars
  BY <1>1, <1>2, <1>3, PTL DEF Spec
<1> QED
  BY <1>4, StaleDroppedForward, PTL


-----------------------------------------------------------------------------
(* What is promised of a command: CommandDelivery.                         *)

Waiting == IdsOf(cmdQ) \cup IdsOf(safetyQ)
Maps == Delivery!DeliveryNext \/ UNCHANGED Delivery!deliveryVars

\* A command that is waited for, or whose answer is there, has been written.
Sending == {"poll", "blocked", "answer", "hello"}
AnswerAwaited == w.pc \in Sending => w.cmd.id \in hist.written

\* The worker as the abstract specification sees it.
LEMMA HandFacts ==
  ASSUME Typed, Owned
  PROVE  /\ w.pc \in {"safety", "queue"} => InHand = Delivery!Nobody
         /\ w.pc \notin {"safety", "queue"} =>
              /\ InHand.id = w.cmd.id /\ InHand # Delivery!Nobody
              /\ InHand.once = NonIdempotent(w.cmd.type)
              /\ InHand.left = w.cmd.attempts
                   + IF w.pc \in {"probe", "cancel", "mark", "write"} THEN 1 ELSE 0
<1>1. w.pc \notin {"safety", "queue"} => w.cmd.id # 0
  BY OwnedParts DEF InWorker, NoCmd
<1> QED
  BY <1>1 DEF InHand, Delivery!Nobody

\* Each action of CommandDelivery, from what the queue shows of it.
LEMMA DeliveryMakes ==
  ASSUME hist'.fate = Append(hist.fate, "open"), InMaking' = InMaking \cup {NewId},
         Waiting' = Waiting, InHand' = InHand, hist'.written = hist.written,
         ctl'.inbox = ctl.inbox
  PROVE  Delivery!DeliveryNext
<1>1. Delivery!Make
  BY DEF Delivery!Make, Delivery!Number, NewId, Waiting
<1> QED
  BY <1>1 DEF Delivery!DeliveryNext

LEMMA DeliveryPosts ==
  ASSUME hist'.fate = Append(hist.fate, "open"), Waiting' = Waiting \cup {NewId},
         InHand # Delivery!Nobody, InMaking' = InMaking, InHand' = InHand,
         hist'.written = hist.written, ctl'.inbox = ctl.inbox
  PROVE  Delivery!DeliveryNext
<1>1. Delivery!Post
  BY DEF Delivery!Post, Delivery!Number, NewId, Waiting
<1> QED
  BY <1>1 DEF Delivery!DeliveryNext

LEMMA DeliveryAccepts ==
  ASSUME NEW i \in InMaking, InMaking' = InMaking \ {i}, Waiting' = Waiting \cup {i},
         hist'.fate = hist.fate, InHand' = InHand, hist'.written = hist.written,
         ctl'.inbox = ctl.inbox
  PROVE  Delivery!DeliveryNext
<1>1. Delivery!Accept(i)
  BY DEF Delivery!Accept, Waiting
<1> QED
  BY <1>1 DEF Delivery!DeliveryNext

LEMMA DeliveryRefuses ==
  ASSUME NEW i \in InMaking, InMaking' = InMaking \ {i},
         hist'.fate = [hist.fate EXCEPT ![i] = "refused"], Waiting' = Waiting, InHand' = InHand,
         hist'.written = hist.written, ctl'.inbox = ctl.inbox
  PROVE  Delivery!DeliveryNext
<1>1. Delivery!Refuse(i)
  BY DEF Delivery!Refuse, Waiting
<1> QED
  BY <1>1 DEF Delivery!DeliveryNext

LEMMA DeliveryTakes ==
  ASSUME NEW i \in Waiting, InHand = Delivery!Nobody, Waiting' = Waiting \ {i},
         InHand' \in [id: {i}, once: BOOLEAN, left: Nat], hist'.fate = hist.fate,
         InMaking' = InMaking, hist'.written = hist.written, ctl'.inbox = ctl.inbox
  PROVE  Delivery!DeliveryNext
<1>1. Delivery!Take(i)
  BY DEF Delivery!Take, Waiting
<1> QED
  BY <1>1 DEF Delivery!DeliveryNext, Waiting

LEMMA DeliveryPutsBack ==
  ASSUME InHand # Delivery!Nobody, InHand.id \notin hist.written,
         Waiting' = Waiting \cup {InHand.id}, InHand' = Delivery!Nobody,
         hist'.fate = hist.fate, InMaking' = InMaking, hist'.written = hist.written,
         ctl'.inbox = ctl.inbox
  PROVE  Delivery!DeliveryNext
<1>1. Delivery!PutBack
  BY DEF Delivery!PutBack, Delivery!Unsent, Waiting
<1> QED
  BY <1>1 DEF Delivery!DeliveryNext

LEMMA DeliveryMisses ==
  ASSUME InHand # Delivery!Nobody, InHand.left > 0,
         InHand' = [InHand EXCEPT !.left = @ - 1], hist'.fate = hist.fate,
         InMaking' = InMaking, Waiting' = Waiting, hist'.written = hist.written,
         ctl'.inbox = ctl.inbox
  PROVE  Delivery!DeliveryNext
<1>1. Delivery!Miss
  BY DEF Delivery!Miss, Delivery!AttemptUsed, Waiting
<1> QED
  BY <1>1 DEF Delivery!DeliveryNext

LEMMA DeliveryWrites ==
  ASSUME InHand # Delivery!Nobody, InHand.left > 0, InHand.once => InHand.id \notin hist.written,
         ctl.inbox \in Seq(Lines), NEW l \in Lines, l.id = InHand.id,
         ctl'.inbox = Append(ctl.inbox, l), hist'.written = hist.written \cup {InHand.id},
         \/ InHand' = [InHand EXCEPT !.left = @ - 1] /\ hist'.fate = hist.fate
         \/ InHand' = Delivery!Nobody /\ hist'.fate = [hist.fate EXCEPT ![InHand.id] = "sent"],
         InMaking' = InMaking, Waiting' = Waiting
  PROVE  Delivery!DeliveryNext
<1>1. Len(ctl'.inbox) = Len(ctl.inbox) + 1 /\ ctl'.inbox[Len(ctl'.inbox)] = l
  BY AppendProperties
<1>2. Delivery!Write
  BY <1>1 DEF Delivery!Write, Delivery!AttemptUsed, Delivery!Ends, Waiting
<1> QED
  BY <1>2 DEF Delivery!DeliveryNext

LEMMA DeliveryEnds ==
  ASSUME InHand # Delivery!Nobody, InHand' = Delivery!Nobody,
         NEW fate \in {"dropped", "ok", "unknown"},
         hist'.fate = [hist.fate EXCEPT ![InHand.id] = fate],
         fate = "dropped" => InHand.id \notin hist.written,
         fate = "ok" => InHand.id \in hist.written,
         fate = "unknown" => InHand.id \in hist.written \/ InHand.left = 0,
         InMaking' = InMaking, Waiting' = Waiting, hist'.written = hist.written,
         ctl'.inbox = ctl.inbox
  PROVE  Delivery!DeliveryNext
<1>1. CASE fate = "dropped"
  BY <1>1 DEF Delivery!DeliveryNext, Delivery!Drop, Delivery!Unsent, Delivery!Ends, Waiting
<1>2. CASE fate = "ok"
  BY <1>2 DEF Delivery!DeliveryNext, Delivery!Succeed, Delivery!Sent, Delivery!Ends, Waiting
<1>3. CASE fate = "unknown"
  BY <1>3 DEF Delivery!DeliveryNext, Delivery!GiveUp, Delivery!Sent, Delivery!Ends, Waiting
<1> QED
  BY <1>1, <1>2, <1>3

LEMMA DeliveryStays ==
  ASSUME hist'.fate = hist.fate, InMaking' = InMaking, Waiting' = Waiting, InHand' = InHand,
         hist'.written = hist.written, ctl'.inbox = ctl.inbox
  PROVE  Maps
  BY DEF Maps, Delivery!deliveryVars, Waiting

-----------------------------------------------------------------------------
(* Each step of the queue is one of these actions, or none.                *)

Promised == Typed /\ Owned /\ Unwritten /\ AnswerAwaited

Trying == {"probe", "cancel", "mark", "write"}

\* The worker keeps its command and the attempts it has left.
LEMMA HandSame ==
  ASSUME Typed, w'.cmd.id = w.cmd.id, w'.cmd.type = w.cmd.type,
         w'.pc \in {"safety", "queue"} <=> w.pc \in {"safety", "queue"},
         \/ w'.cmd.attempts = w.cmd.attempts /\ (w'.pc \in Trying <=> w.pc \in Trying)
         \/ w'.cmd.attempts = w.cmd.attempts - 1 /\ w'.pc \in Trying /\ w.pc \notin Trying
  PROVE  InHand' = InHand
<1>1. w.cmd.attempts \in Nat
  BY WorkerCmdTyped
<1> QED
  BY <1>1 DEF InHand, NonIdempotent, Trying

\* A step of the worker that moves no command and writes nothing.
LEMMA HandStays ==
  ASSUME Promised, UNCHANGED <<cmdQ, safetyQ, caller, ctl>>, hist'.fate = hist.fate,
         hist'.written = hist.written, InHand' = InHand
  PROVE  Maps
<1>1. InMaking' = InMaking /\ Waiting' = Waiting
  BY DEF InMaking, Making, Waiting
<1> QED
  BY <1>1, DeliveryStays

LEMMA TakesMap ==
  ASSUME Promised, TakeSafety \/ TakeCommand
  PROVE  Delivery!DeliveryNext
<1>1. /\ InHand = Delivery!Nobody /\ caller' = caller /\ ctl' = ctl
      /\ hist'.fate = hist.fate /\ hist'.written = hist.written
  BY HandFacts, TypedParts DEF Promised, TakeSafety, TakeCommand, HistTypes
<1>2. InMaking' = InMaking
  BY <1>1 DEF InMaking, Making
<1>3. ASSUME NEW c \in Commands, w' = [AtSafety EXCEPT !.pc = "check", !.cmd = c]
      PROVE  InHand' \in [id: {c.id}, once: BOOLEAN, left: Nat]
  <2>1. w'.cmd = c /\ w'.pc = "check" /\ c.attempts \in Nat
    BY <1>3 DEF AtSafety, Commands
  <2>2. NonIdempotent(c.type) \in BOOLEAN
    BY DEF NonIdempotent
  <2>3. InHand' = [id |-> c.id, once |-> NonIdempotent(c.type), left |-> c.attempts + 0]
    BY <2>1 DEF InHand, NonIdempotent
  <2> QED
    BY <2>1, <2>2, <2>3
<1>4. /\ cmdQ \in Seq(Commands) /\ safetyQ \in Seq(Commands)
      /\ Distinct(cmdQ) /\ Distinct(safetyQ) /\ IdsOf(cmdQ) \cap IdsOf(safetyQ) = {}
  BY TypedParts, OwnedParts DEF Promised
<1>5. CASE TakeSafety
  <2>1. Head(safetyQ) \in Commands
    BY <1>4, <1>5, HeadTailProperties DEF TakeSafety
  <2>2. /\ Head(safetyQ).id \in IdsOf(safetyQ) /\ cmdQ' = cmdQ
        /\ IdsOf(safetyQ') = IdsOf(safetyQ) \ {Head(safetyQ).id}
    BY <1>4, <1>5, IdsTail DEF TakeSafety
  <2>3. Head(safetyQ).id \in Waiting /\ Waiting' = Waiting \ {Head(safetyQ).id}
    BY <1>4, <2>2 DEF Waiting
  <2>4. InHand' \in [id: {Head(safetyQ).id}, once: BOOLEAN, left: Nat]
    BY <1>3, <1>5, <2>1 DEF TakeSafety
  <2> QED
    BY <1>1, <1>2, <2>3, <2>4, DeliveryTakes
<1>6. CASE TakeCommand
  <2>1. Head(cmdQ) \in Commands
    BY <1>4, <1>6, HeadTailProperties DEF TakeCommand
  <2>2. /\ Head(cmdQ).id \in IdsOf(cmdQ) /\ safetyQ' = safetyQ
        /\ IdsOf(cmdQ') = IdsOf(cmdQ) \ {Head(cmdQ).id}
    BY <1>4, <1>6, IdsTail DEF TakeCommand
  <2>3. Head(cmdQ).id \in Waiting /\ Waiting' = Waiting \ {Head(cmdQ).id}
    BY <1>4, <2>2 DEF Waiting
  <2>4. InHand' \in [id: {Head(cmdQ).id}, once: BOOLEAN, left: Nat]
    BY <1>3, <1>6, <2>1 DEF TakeCommand
  <2> QED
    BY <1>1, <1>2, <2>3, <2>4, DeliveryTakes
<1> QED
  BY <1>5, <1>6

\* `delete cmd` in the worker's loop.
LEMMA FinishMaps ==
  ASSUME Promised, w.pc \notin {"safety", "queue"}, NEW fate \in {"dropped", "ok", "unknown"},
         Finish(fate), UNCHANGED <<cmdQ, safetyQ, caller, ctl>>,
         \/ fate = "dropped" /\ w.pc \in BeforeAttempts
         \/ fate \in {"ok", "unknown"} /\ w.pc \in Sending
         \/ fate = "unknown" /\ w.pc = "attempt" /\ w.cmd.attempts = 0
  PROVE  Delivery!DeliveryNext
<1>1. /\ InHand # Delivery!Nobody /\ InHand.id = w.cmd.id
      /\ w.pc = "attempt" => InHand.left = w.cmd.attempts + 0
  BY HandFacts DEF Promised
<1>2. InHand' = Delivery!Nobody
  BY DEF Finish, AtSafety, InHand, Delivery!Nobody
<1>3. hist'.fate = [hist.fate EXCEPT ![w.cmd.id] = fate] /\ hist'.written = hist.written
  BY TypedParts DEF Promised, Finish, Ended, HistTypes
<1>4. InMaking' = InMaking /\ Waiting' = Waiting /\ ctl'.inbox = ctl.inbox
  BY DEF InMaking, Making, Waiting
<1>5. w.pc \in BeforeAttempts => w.pc \notin Sending /\ w.cmd.id \notin hist.written
  BY DEF Promised, Unwritten, BeforeAttempts, Sending
<1>6. w.pc \in Sending => w.pc \notin BeforeAttempts /\ w.cmd.id \in hist.written
  BY DEF Promised, AnswerAwaited, BeforeAttempts, Sending
<1>7. /\ fate = "dropped" => w.cmd.id \notin hist.written
      /\ fate = "ok" => w.cmd.id \in hist.written
      /\ fate = "unknown" => w.cmd.id \in hist.written \/ (w.pc = "attempt" /\ w.cmd.attempts = 0)
  BY <1>5, <1>6
<1> QED
  BY <1>1, <1>2, <1>3, <1>4, <1>7, DeliveryEnds

\* A deferred command goes back to the FIFO.
LEMMA RequeueMaps == ASSUME Promised, Requeue PROVE Delivery!DeliveryNext
<1>1. w.cmd \in Commands /\ cmdQ \in Seq(Commands) /\ w.pc = "requeue"
  BY TypedParts, WorkerCmdTyped DEF Promised, Requeue
<1>2. InHand # Delivery!Nobody /\ InHand.id = w.cmd.id /\ w.cmd.id \notin hist.written
  BY <1>1, HandFacts DEF Promised, Unwritten, BeforeAttempts
<1>3. InHand' = Delivery!Nobody
  BY DEF Requeue, AtSafety, InHand, Delivery!Nobody
<1>4. IdsOf(cmdQ') = IdsOf(cmdQ) \cup {w.cmd.id}
  BY <1>1, IdsAppend DEF Requeue
<1>5. InMaking' = InMaking /\ Waiting' = Waiting \cup {w.cmd.id} /\ hist' = hist /\ ctl' = ctl
  BY <1>4 DEF Requeue, InMaking, Making, Waiting
<1> QED
  BY <1>2, <1>3, <1>5, DeliveryPutsBack

\* A write that fails costs an attempt.
LEMMA WriteFailedMaps == ASSUME Promised, WriteFailed PROVE Delivery!DeliveryNext
<1>1. w.pc = "write" /\ w'.pc = "attempt" /\ w'.cmd = w.cmd /\ w.cmd.attempts \in Nat
  BY TypedParts, WorkerCmdTyped DEF Promised, WriteFailed, WorkerAt, WorkerTypes
<1>2. /\ InHand # Delivery!Nobody
      /\ InHand = [id |-> w.cmd.id, once |-> NonIdempotent(w.cmd.type),
                   left |-> w.cmd.attempts + 1]
  BY <1>1, HandFacts DEF Promised, InHand
<1>3. InHand' = [id |-> w.cmd.id, once |-> NonIdempotent(w.cmd.type),
                 left |-> w.cmd.attempts + 0]
  BY <1>1 DEF InHand, NonIdempotent
<1>4. InHand.left > 0 /\ InHand' = [InHand EXCEPT !.left = @ - 1]
  BY <1>1, <1>2, <1>3
<1>5. InMaking' = InMaking /\ Waiting' = Waiting /\ hist' = hist /\ ctl' = ctl
  BY DEF WriteFailed, InMaking, Making, Waiting
<1> QED
  BY <1>2, <1>4, <1>5, DeliveryMisses

LEMMA WriteOkMaps == ASSUME Promised, WriteOk PROVE Delivery!DeliveryNext
<1>1. w.pc = "write" /\ w.cmd.attempts \in Nat /\ Line(w.cmd) \in Lines
      /\ ctl.inbox \in Seq(Lines)
  BY TypedParts, WorkerCmdTyped DEF Promised, WriteOk, Line, Lines
<1>2. /\ InHand # Delivery!Nobody
      /\ InHand = [id |-> w.cmd.id, once |-> NonIdempotent(w.cmd.type),
                   left |-> w.cmd.attempts + 1]
  BY <1>1, HandFacts DEF Promised, InHand
<1>3. NonIdempotent(w.cmd.type) => w.cmd.id \notin hist.written
  BY <1>1 DEF Promised, Unwritten, Attempting
<1>4. ctl'.inbox = Append(ctl.inbox, Line(w.cmd)) /\ Line(w.cmd).id = w.cmd.id
  BY TypedParts DEF Promised, Typed, TypeOK, WriteOk, Line
<1>5. InMaking' = InMaking /\ Waiting' = Waiting
  BY DEF WriteOk, InMaking, Making, Waiting
<1>6. /\ WasWritten.fate = hist.fate /\ WasWritten.written = hist.written \cup {w.cmd.id}
      /\ [WasWritten EXCEPT !.fate[w.cmd.id] = "sent"].written = hist.written \cup {w.cmd.id}
      /\ [WasWritten EXCEPT !.fate[w.cmd.id] = "sent"].fate
           = [hist.fate EXCEPT ![w.cmd.id] = "sent"]
  BY TypedParts DEF Promised, WasWritten, HistTypes
<1>7. CASE w.cmd.type = "GET_LOG"
  <2>1. InHand' = Delivery!Nobody /\ hist' = [WasWritten EXCEPT !.fate[w.cmd.id] = "sent"]
    BY <1>7 DEF WriteOk, AtSafety, InHand, Delivery!Nobody
  <2> QED
    BY <1>1, <1>2, <1>3, <1>4, <1>5, <1>6, <2>1, DeliveryWrites
<1>8. CASE w.cmd.type # "GET_LOG"
  <2>1. w'.pc = "poll" /\ w'.cmd = w.cmd /\ hist' = WasWritten
    BY <1>8, TypedParts DEF Promised, WriteOk, WorkerAt, WorkerTypes
  <2>2. InHand' = [id |-> w.cmd.id, once |-> NonIdempotent(w.cmd.type),
                   left |-> w.cmd.attempts + 0]
    BY <2>1 DEF InHand, NonIdempotent
  <2>3. InHand' = [InHand EXCEPT !.left = @ - 1]
    BY <1>1, <1>2, <2>2
  <2> QED
    BY <1>1, <1>2, <1>3, <1>4, <1>5, <1>6, <2>1, <2>3, DeliveryWrites
<1> QED
  BY <1>7, <1>8

\* The greeting posts a command, or finds the FIFO full.
LEMMA HelloMaps == ASSUME Promised, Hello PROVE Maps
<1>1. w'.pc = w.pc /\ w'.cmd = w.cmd /\ w.pc = "hello"
  BY TypedParts DEF Promised, Hello, WorkerTypes
<1>2. InHand' = InHand /\ InHand # Delivery!Nobody
  BY <1>1, HandSame, HandFacts DEF Promised
<1>3. CASE UNCHANGED <<cmdQ, hist>>
  BY <1>2, <1>3, HandStays DEF Hello
<1>4. CASE /\ cmdQ' = Append(cmdQ, NewCommand("STATUS", AttemptCount, 0, ListRequest))
           /\ hist' = Born
  <2> DEFINE c == NewCommand("STATUS", AttemptCount, 0, ListRequest)
  <2>1. "STATUS" \in CommandTypes /\ AttemptCount \in Nat /\ 0 \in Nat
        /\ ListRequest \in Procs \cup {ListRequest}
    BY TypeFacts DEF CommandTypes
  <2>2. c \in Commands /\ c.id = NewId
    BY <2>1, NewCommandTyped DEF Promised
  <2>3. hist'.fate = Append(hist.fate, "open") /\ hist'.written = hist.written
    BY <1>4, TypedParts DEF Promised, Born, HistTypes
  <2>4. IdsOf(cmdQ') = IdsOf(cmdQ) \cup {NewId}
    BY <1>4, <2>2, TypedParts, IdsAppend DEF Promised
  <2>5. Waiting' = Waiting \cup {NewId} /\ InMaking' = InMaking /\ ctl' = ctl
    BY <2>4 DEF Hello, Waiting, InMaking, Making
  <2> QED
    BY <1>2, <2>3, <2>5, DeliveryPosts DEF Maps
<1> QED
  BY <1>3, <1>4 DEF Hello

\* What a call makes: a command with the next number, which its task has.
LEMMA BornCommand ==
  ASSUME Typed, NEW t \in Tasks,
         \/ \E type \in Types : Push(t, type)
         \/ \E p \in Procs \cup {ListRequest} : PushGetLog(t, p)
         \/ EmergencyStop(t)
  PROVE  /\ caller[t].pc = "idle"
         /\ \E pc \in {"send", "sendSafety"}, c \in Commands : c.id = NewId /\ TaskGoes(t, pc, c)
<1>1. ASSUME NEW type \in Types, Push(t, type)
      PROVE  \E c \in Commands : c.id = NewId /\ TaskGoes(t, "send", c)
  <2>1. NewCommand(type, AttemptCount, 0, ListRequest) \in Commands
        /\ NewCommand(type, AttemptCount, 0, ListRequest).id = NewId
    BY NewCommandTyped, TypeFacts, TypesAssumption
  <2> QED
    BY <1>1, <2>1 DEF Push
<1>2. ASSUME NEW p \in Procs \cup {ListRequest}, PushGetLog(t, p)
      PROVE  \E c \in Commands : c.id = NewId /\ TaskGoes(t, "send", c)
  <2>1. tr'.gen \in Nat
    BY <1>2, TypedParts, MethodsTyped DEF PushGetLog, Transfers
  <2>2. NewCommand("GET_LOG", 1, tr'.gen, p) \in Commands
        /\ NewCommand("GET_LOG", 1, tr'.gen, p).id = NewId
    BY <2>1, NewCommandTyped DEF CommandTypes
  <2> QED
    BY <1>2, <2>2 DEF PushGetLog
<1>3. ASSUME EmergencyStop(t)
      PROVE  \E c \in Commands : c.id = NewId /\ TaskGoes(t, "sendSafety", c)
  <2> DEFINE c == NewCommand("STOP", 1, 0, ListRequest)
  <2>1. c \in Commands /\ c.id = NewId /\ [c EXCEPT !.epoch = epoch + 1] \in Commands
    BY NewCommandTyped DEF CommandTypes
  <2>2. [c EXCEPT !.epoch = epoch + 1].id = NewId
    BY <2>1 DEF NewCommand
  <2> QED
    BY <1>3, <2>1, <2>2 DEF EmergencyStop
<1>4. caller[t].pc = "idle"
  BY DEF Push, PushGetLog, EmergencyStop
<1> QED
  BY <1>1, <1>2, <1>3, <1>4

LEMMA WorkerMaps == ASSUME Promised, WorkerStep PROVE Maps
<1>1. \A pc \in WorkerPcs : WorkerAt(pc) => w'.pc = pc /\ w'.cmd = w.cmd
  BY TypedParts DEF Promised, WorkerAt, WorkerTypes
<1>2. CASE TakeSafety \/ TakeCommand
  BY <1>2, TakesMap DEF Maps
<1>3. CASE Requeue \/ WriteOk \/ WriteFailed \/ Hello
  BY <1>3, RequeueMaps, WriteOkMaps, WriteFailedMaps, HelloMaps DEF Maps
<1>4. CASE NoSafety \/ QueueIdle \/ KeepFresh \/ Gate \/ StopProbe \/ StopCancel \/ Mark
  <2>1. /\ w'.cmd = w.cmd /\ (w'.pc \in {"safety", "queue"} <=> w.pc \in {"safety", "queue"})
        /\ (w'.pc \in Trying <=> w.pc \in Trying)
    BY <1>1, <1>4
       DEF NoSafety, QueueIdle, KeepFresh, Gate, StopProbe, StopCancel, Mark, WorkerPcs, Trying
  <2>2. InHand' = InHand
    BY <2>1, HandSame DEF Promised
  <2> QED
    BY <1>4, <2>2, HandStays
       DEF NoSafety, QueueIdle, KeepFresh, Gate, StopProbe, StopCancel, Mark
<1>5. CASE Attempt
  <2>1. /\ w'.cmd.id = w.cmd.id /\ w'.cmd.type = w.cmd.type /\ w.pc = "attempt"
        /\ w'.cmd.attempts = w.cmd.attempts - 1 /\ w'.pc \in Trying
    BY <1>5, TypedParts DEF Promised, Attempt, WorkerTypes, Commands, Trying
  <2>2. InHand' = InHand
    BY <2>1, HandSame DEF Promised, Trying
  <2> QED
    BY <1>5, <2>2, HandStays DEF Attempt
<1>6. CASE DropStale \/ NoMoreAttempts \/ HelloDone
  <2>1. /\ w.pc \notin {"safety", "queue"} /\ UNCHANGED <<cmdQ, safetyQ, caller, ctl>>
        /\ \/ Finish("dropped") /\ w.pc \in BeforeAttempts
           \/ Finish("unknown") /\ w.pc = "attempt" /\ w.cmd.attempts = 0
           \/ Finish("ok") /\ w.pc \in Sending
    BY <1>6 DEF DropStale, NoMoreAttempts, HelloDone, BeforeAttempts, Sending
  <2> QED
    BY <2>1, FinishMaps DEF Maps
<1>7. CASE Poll
  <2>1. w'.pc \in {"answer", "blocked"} /\ w'.cmd = w.cmd /\ w.pc = "poll"
    BY <1>7, TypedParts DEF Promised, Poll, WorkerAt, WorkerTypes
  <2>2. InHand' = InHand
    BY <2>1, HandSame DEF Promised, Trying
  <2> QED
    BY <1>7, <2>2, HandStays DEF Poll
<1>8. CASE SliceOver
  <2>1. \/ Finish("unknown")
        \/ w'.pc \in {"answer", "poll"} /\ w'.cmd = w.cmd /\ UNCHANGED hist
    BY <1>8, TypedParts DEF Promised, SliceOver, WorkerTypes
  <2>2. w.pc = "blocked" /\ UNCHANGED <<cmdQ, safetyQ, caller, ctl>>
    BY <1>8 DEF SliceOver
  <2>3. CASE Finish("unknown")
    BY <2>2, <2>3, FinishMaps DEF Maps, Sending
  <2>4. CASE w'.pc \in {"answer", "poll"} /\ w'.cmd = w.cmd /\ UNCHANGED hist
    <3>1. InHand' = InHand
      BY <2>2, <2>4, HandSame DEF Promised, Trying
    <3> QED
      BY <2>2, <2>4, <3>1, HandStays
  <2> QED
    BY <2>1, <2>3, <2>4
<1>9. CASE Success \/ Failure
  <2>1. \/ Finish("ok") \/ Finish("unknown")
        \/ w'.pc \in {"hello", "attempt"} /\ w'.cmd = w.cmd /\ UNCHANGED hist
    BY <1>9, TypedParts DEF Promised, Success, Failure, WorkerAt, WorkerTypes
  <2>2. w.pc = "answer" /\ UNCHANGED <<cmdQ, safetyQ, caller, ctl>>
    BY <1>9 DEF Success, Failure
  <2>3. CASE Finish("ok") \/ Finish("unknown")
    BY <2>2, <2>3, FinishMaps DEF Maps, Sending
  <2>4. CASE w'.pc \in {"hello", "attempt"} /\ w'.cmd = w.cmd /\ UNCHANGED hist
    <3>1. InHand' = InHand
      BY <2>2, <2>4, HandSame DEF Promised, Trying
    <3> QED
      BY <2>2, <2>4, <3>1, HandStays
  <2> QED
    BY <2>1, <2>3, <2>4
<1> QED
  BY <1>2, <1>3, <1>4, <1>5, <1>6, <1>7, <1>8, <1>9 DEF WorkerStep

\* A task makes a command.
LEMMA CallMaps ==
  ASSUME Promised, NEW t \in Tasks,
         \/ \E type \in Types : Push(t, type)
         \/ \E p \in Procs \cup {ListRequest} : PushGetLog(t, p)
         \/ EmergencyStop(t)
  PROVE  Delivery!DeliveryNext
<1>1. /\ Born.fate = Append(hist.fate, "open") /\ Born.written = hist.written
      /\ [Born EXCEPT !.stops = @ + 1].fate = Append(hist.fate, "open")
      /\ [Born EXCEPT !.stops = @ + 1].written = hist.written
  BY TypedParts DEF Promised, Born, HistTypes
<1>2. /\ UNCHANGED <<cmdQ, safetyQ, w, ctl>>
      /\ hist' = Born \/ hist' = [Born EXCEPT !.stops = @ + 1]
  BY DEF Push, PushGetLog, EmergencyStop
<1>3. Waiting' = Waiting /\ InHand' = InHand
  BY <1>2 DEF Waiting, InHand
<1>4. caller[t].pc = "idle" /\ \E pc \in {"send", "sendSafety"}, c \in Commands :
        c.id = NewId /\ TaskGoes(t, pc, c)
  BY BornCommand DEF Promised
<1>5. InMaking' = InMaking \cup {NewId}
  <2>1. ~Making(t) /\ NewId \notin InMaking
    BY <1>4, OpenFacts, OwnedParts DEF Promised, Making
  <2> QED
    BY <1>4, <2>1, OwnedParts, MakingStarts DEF Promised
<1> QED
  BY <1>1, <1>2, <1>3, <1>5, DeliveryMakes

\* A task hands its command over, or gives it up.
LEMMA TaskStepMaps == ASSUME Promised, NEW t \in Tasks, TaskStep(t) PROVE Maps
<1> DEFINE c == caller[t].cmd
<1>1. c \in Commands /\ cmdQ \in Seq(Commands) /\ safetyQ \in Seq(Commands)
  BY TypedParts DEF Promised, CallerTypes
<1>2. ASSUME Making(t), TaskDone(t) \/ TaskGoes(t, "publish", c)
      PROVE  InMaking' = InMaking \ {c.id} /\ c.id \in InMaking
    BY <1>2, MakingEnds, OwnedParts DEF Promised, TaskDone, TaskGoes
<1>3. InHand' = InHand /\ ctl'.inbox = ctl.inbox
  BY DEF TaskStep, Send, SendRefused, SendSafety, SafetyRefused, Publish, InHand
<1>4. CASE Send(t)
  <2>1. InMaking' = InMaking \ {c.id} /\ c.id \in InMaking
    BY <1>2, <1>4 DEF Send, Making
  <2>2. IdsOf(cmdQ') = IdsOf(cmdQ) \cup {c.id} /\ safetyQ' = safetyQ /\ hist' = hist
    BY <1>1, <1>4, IdsAppend DEF Send
  <2>3. Waiting' = Waiting \cup {c.id}
    BY <2>2 DEF Waiting
  <2> QED
    BY <1>3, <2>1, <2>2, <2>3, DeliveryAccepts DEF Maps
<1>5. CASE SendSafety(t)
  <2>1. InMaking' = InMaking \ {c.id} /\ c.id \in InMaking
    BY <1>2, <1>5 DEF SendSafety, Making
  <2>2. IdsOf(safetyQ') = IdsOf(safetyQ) \cup {c.id} /\ cmdQ' = cmdQ /\ hist' = hist
    BY <1>1, <1>5, IdsAppend DEF SendSafety
  <2>3. Waiting' = Waiting \cup {c.id}
    BY <2>2 DEF Waiting
  <2> QED
    BY <1>3, <2>1, <2>2, <2>3, DeliveryAccepts DEF Maps
<1>6. CASE SendRefused(t) \/ SafetyRefused(t)
  <2>1. Making(t) /\ TaskDone(t) /\ UNCHANGED <<cmdQ, safetyQ>> /\ hist' = Ended(c, "refused")
    BY <1>6 DEF SendRefused, SafetyRefused, Making
  <2>2. InMaking' = InMaking \ {c.id} /\ c.id \in InMaking
    BY <1>2, <2>1
  <2>3. hist'.fate = [hist.fate EXCEPT ![c.id] = "refused"] /\ hist'.written = hist.written
    BY <2>1, TypedParts DEF Promised, Ended, HistTypes
  <2>4. Waiting' = Waiting
    BY <2>1 DEF Waiting
  <2> QED
    BY <1>3, <2>2, <2>3, <2>4, DeliveryRefuses DEF Maps
<1>7. CASE Publish(t)
  <2>1. caller[t].pc = "publish" /\ TaskDone(t) /\ UNCHANGED <<cmdQ, safetyQ>>
        /\ hist'.fate = hist.fate /\ hist'.written = hist.written
    BY <1>7, TypedParts DEF Promised, Publish, HistTypes
  <2>2. InMaking' = InMaking /\ Waiting' = Waiting
    BY <2>1, MakingSame, OwnedParts DEF Promised, Waiting
  <2> QED
    BY <1>3, <2>1, <2>2, DeliveryStays
<1> QED
  BY <1>4, <1>5, <1>6, <1>7 DEF TaskStep

LEMMA NextMaps == ASSUME Promised, [Next]_vars PROVE Maps
<1>1. CASE RxLogFrame \/ RxResponse \/ Telemetry \/ RectWaits \/ SessionTimeout \/ UNCHANGED vars
  <2>1. UNCHANGED <<cmdQ, safetyQ, caller, w, hist>> /\ ctl'.inbox = ctl.inbox
    BY <1>1, TypedParts
       DEF Promised, Typed, TypeOK, RxLogFrame, RxResponse, Telemetry, RectWaits, SessionTimeout, vars
  <2>2. InMaking' = InMaking /\ Waiting' = Waiting /\ InHand' = InHand
    BY <2>1 DEF InMaking, Making, Waiting, InHand
  <2> QED
    BY <2>1, <2>2, DeliveryStays
<1>2. CASE RxSetBit
  <2>1. UNCHANGED <<cmdQ, safetyQ, caller, ctl, hist>>
    BY <1>2 DEF RxSetBit
  <2>2. w'.cmd = w.cmd /\ (w'.pc = w.pc \/ (w.pc = "blocked" /\ w'.pc = "answer"))
    BY <1>2, SetBitMoves DEF Promised
  <2>3. InHand' = InHand
    BY <2>2, HandSame DEF Promised, Trying
  <2> QED
    BY <2>1, <2>3, HandStays
<1>3. CASE ControllerReads
  <2>1. /\ ctl.inbox # << >> /\ ctl'.inbox = Tail(ctl.inbox)
        /\ UNCHANGED <<cmdQ, safetyQ, caller, w, hist>>
    <3>1. /\ ctl.inbox # << >> /\ UNCHANGED <<cmdQ, safetyQ, caller, w, hist>>
          /\ \E more : ctl' = [inbox |-> Tail(ctl.inbox), line |-> ctl.line \o more]
      BY <1>3, Zenon DEF ControllerReads
    <3> QED
      BY <3>1
  <2>2. InMaking' = InMaking /\ Waiting' = Waiting /\ InHand' = InHand
    BY <2>1 DEF InMaking, Making, Waiting, InHand
  <2>3. Delivery!Read
    BY <2>1, <2>2 DEF Delivery!Read, Waiting
  <2> QED
    BY <2>3 DEF Maps, Delivery!DeliveryNext
<1> QED
  BY <1>1, <1>2, <1>3, CallMaps, TaskStepMaps, WorkerMaps DEF Next, ReceiverStep, Maps

-----------------------------------------------------------------------------

\* The worker waits for the answer to what it has written.
LEMMA NextAwaited == ASSUME Promised, [Next]_vars PROVE AnswerAwaited'
<1>1. CASE WorkerStep
  <2>1. CASE WriteOk
    <3>1. /\ WasWritten.written = hist.written \cup {w.cmd.id}
          /\ [WasWritten EXCEPT !.fate[w.cmd.id] = "sent"].written = hist.written \cup {w.cmd.id}
      BY TypedParts DEF Promised, WasWritten, HistTypes
    <3>2. \/ w' = AtSafety
          \/ w'.cmd = w.cmd /\ hist'.written = hist.written \cup {w.cmd.id}
      BY <2>1, <3>1, TypedParts DEF Promised, WriteOk, WorkerAt, WorkerTypes
    <3> QED
      BY <3>2 DEF AnswerAwaited, AtSafety, Sending
  <2>2. CASE ~WriteOk
    <3>1. hist'.written = hist.written
      BY <1>1, <2>2, TypedParts
         DEF Promised, WorkerStep, TakeSafety, NoSafety, TakeCommand, QueueIdle, DropStale,
             KeepFresh, Gate, Requeue, Attempt, NoMoreAttempts, StopProbe, StopCancel, Mark,
             WriteFailed, Poll, SliceOver, Success, Failure, Hello, HelloDone, Finish, Ended,
             Born, HistTypes
    <3>2. CASE Poll \/ SliceOver \/ Success \/ Failure \/ Hello \/ HelloDone
      <4>1. ASSUME Poll \/ Hello PROVE w.pc \in Sending /\ (w' = AtSafety \/ w'.cmd = w.cmd)
        BY <4>1, TypedParts DEF Promised, Poll, Hello, WorkerAt, WorkerTypes, Sending
      <4>2. ASSUME SliceOver PROVE w.pc \in Sending /\ (w' = AtSafety \/ w'.cmd = w.cmd)
        BY <4>2, TypedParts DEF Promised, SliceOver, Finish, WorkerTypes, Sending
      <4>3. ASSUME Success \/ Failure \/ HelloDone
            PROVE  w.pc \in Sending /\ (w' = AtSafety \/ w'.cmd = w.cmd)
        BY <4>3, TypedParts
           DEF Promised, Success, Failure, HelloDone, Finish, WorkerAt, WorkerTypes, Sending
      <4>4. w.pc \in Sending /\ (w' = AtSafety \/ w'.cmd = w.cmd)
        BY <3>2, <4>1, <4>2, <4>3
      <4> QED
        BY <3>1, <4>4 DEF Promised, AnswerAwaited, AtSafety, Sending
    <3>3. CASE TakeSafety \/ TakeCommand \/ DropStale \/ Requeue \/ NoMoreAttempts
      <4>1. TakeSafety \/ TakeCommand => w'.pc = "check"
        BY DEF TakeSafety, TakeCommand, AtSafety
      <4>2. w'.pc \in {"safety", "check"}
        BY <3>3, <4>1 DEF DropStale, Requeue, NoMoreAttempts, Finish, AtSafety
      <4> QED
        BY <4>2 DEF AnswerAwaited, Sending
    <3>4. CASE NoSafety \/ QueueIdle \/ KeepFresh \/ Gate \/ Attempt \/ StopProbe \/ StopCancel
               \/ Mark \/ WriteFailed
      BY <3>4, TypedParts
         DEF Promised, NoSafety, QueueIdle, KeepFresh, Gate, Attempt, StopProbe, StopCancel, Mark,
             WriteFailed, WorkerAt, WorkerTypes, Sending, AnswerAwaited
    <3> QED
      BY <1>1, <2>2, <3>2, <3>3, <3>4 DEF WorkerStep
  <2> QED
    BY <2>1, <2>2
<1>2. CASE RxSetBit
  <2>1. hist' = hist /\ w'.cmd = w.cmd /\ (w'.pc \in Sending => w.pc \in Sending)
    BY <1>2, SetBitMoves DEF Promised, RxSetBit, Sending
  <2> QED
    BY <2>1 DEF Promised, AnswerAwaited
<1>3. CASE ~WorkerStep /\ ~RxSetBit
  <2>1. w' = w /\ hist'.written = hist.written
    BY <1>3, TypedParts
       DEF Promised, Next, TaskStep, ReceiverStep, Push, PushGetLog, EmergencyStop, Send,
           SendRefused, SendSafety, SafetyRefused, Publish, ControllerReads, RxLogFrame,
           RxResponse, Telemetry, RectWaits, SessionTimeout, Born, Ended, HistTypes, vars
  <2> QED
    BY <2>1 DEF Promised, AnswerAwaited
<1> QED
  BY <1>1, <1>2, <1>3

LEMMA InitMaps == Init => Delivery!DeliveryInit
<1> SUFFICES ASSUME Init PROVE Delivery!DeliveryInit
  OBVIOUS
<1>1. InMaking = {} /\ IdsOf(cmdQ) = {} /\ IdsOf(safetyQ) = {}
  BY DEF Init, IdleTask, InMaking, Making, IdsOf
<1>2. InHand = Delivery!Nobody
  BY DEF Init, AtSafety, InHand, Delivery!Nobody
<1>3. hist.fate = << >> /\ hist.written = {} /\ ctl.inbox = << >>
  BY DEF Init
<1> QED
  BY <1>1, <1>2, <1>3 DEF Delivery!DeliveryInit

\* The queue keeps what CommandDelivery promises, with any number of tasks, commands, stops and
\* attempts: each step is one step of it, or changes nothing it speaks of.
THEOREM DeliveryRefined == Spec => DeliveryKept
<1>1. Init => Promised /\ Delivery!DeliveryInit
  BY InitTyped, InitOwned, InitUnwritten, InitMaps DEF Promised, AnswerAwaited, Init, AtSafety, Sending
<1>2. Promised /\ [Next]_vars => Promised'
  BY NextTyped, NextOwned, NextUnwritten, NextAwaited DEF Promised
<1>3. Promised /\ [Next]_vars => [Delivery!DeliveryNext]_(Delivery!deliveryVars)
  BY NextMaps DEF Maps
<1> QED
  BY <1>1, <1>2, <1>3, PTL DEF Spec, DeliveryKept, Delivery!DeliverySpec
=============================================================================
