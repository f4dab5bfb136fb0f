------------------------ MODULE RectificationProofs ------------------------
(***************************************************************************)
(* Proofs about the table of stages, for any controller, any frames and    *)
(* any losses on the line: what one frame makes of the process, and that   *)
(* the mailbox only ever holds frames of the present process or of an      *)
(* earlier one.                                                            *)
(***************************************************************************)
EXTENDS UartReceiver, TLAPS

-----------------------------------------------------------------------------
(* What one frame makes of the process.                                    *)

\* At most the stages of S are shown as running.
RunningIn(p, S) == \A s \in Stages : p.states[s] = "RUNNING" => s \in S

\* OneStageRunning, of any process.
OneStage(p) ==
    \A s \in Stages : p.states[s] = "RUNNING" =>
        s = p.current \/ (p.current = "error" /\ s = p.previous)

\* What is running or collected belongs to the stages `visited`.
Within(p, visited) ==
    \A s \in KnownTypes : p.states[s] = "RUNNING" \/ p.volumes[s] > 0 => s \in visited

LEMMA StageOfFrame ==
  ASSUME NEW f \in Frames
  PROVE  StageOf(f.type) \in Stages \ {"empty"}
  BY DEF Frames, StageOf, Stages, KnownTypes

LEMMA Values ==
  /\ 0 \in Readings /\ NoVolumes \in Volumes /\ Idle \in [Stages -> ProcessStates]
  /\ {"empty", "error"} \subseteq Stages
  /\ {"IDLE", "RUNNING", "PAUSED", "FINISHED", "SKIPPED", "STOPPED", "PROCESS_ERROR"} \subseteq ProcessStates
  BY DEF Readings, Volumes, NoVolumes, Idle, ProcessStates, Stages

LEMMA ClearedSound ==
  ASSUME NEW p \in ProcessType
  PROVE  /\ Cleared(p) \in ProcessType
         /\ OneStage(p) => OneStage(Cleared(p))
         /\ Cleared(p).pid = p.pid /\ Cleared(p).states = p.states
         /\ Cleared(p).volumes = p.volumes
<1>1. Cleared(p) \in ProcessType
  BY Values DEF Cleared, ProcessType
<1>2. /\ Cleared(p).pid = p.pid /\ Cleared(p).states = p.states
      /\ Cleared(p).volumes = p.volumes
      /\ Cleared(p).current = p.current /\ Cleared(p).previous = p.previous
  BY Values DEF Cleared, ProcessType
<1> QED
  BY <1>1, <1>2 DEF OneStage

\* The pid decides: either it is the process of before, with its table and volumes, or the
\* table is empty, or no process is known any more.
LEMMA IdentifiedSound ==
  ASSUME NEW p \in ProcessType, NEW f \in Frames
  PROVE  LET q == Identified(p, f)
         IN  /\ q \in ProcessType
             /\ OneStage(p) => OneStage(q)
             /\ \/ q.pid = p.pid /\ q.states = p.states /\ q.volumes = p.volumes
                \/ q.pid = f.pid /\ q.states = Idle /\ q.volumes = NoVolumes
                \/ q.pid = NoPid
             /\ q.pid \in {f.pid, NoPid} \/ (f.pid = NoPid /\ f.type # "waiting")
<1> DEFINE q == Identified(p, f)
<1>0. f.pid \in Pids \cup {NoPid}
  BY DEF Frames
<1>1. CASE NewProcess(p, f)
  <2> DEFINE new == [p EXCEPT !.pid = f.pid, !.status = "RUNNING", !.started = TRUE, !.ended = FALSE,
                      !.volumes = NoVolumes, !.states = Idle, !.previous = "empty", !.base = 0]
  <2>0. ~ProcessOver(p, f) /\ ~Standby(p, f)
    BY <1>1 DEF NewProcess, ProcessOver, Standby
  <2>1. q = new
    BY <1>1, <2>0, Zenon DEF Identified
  <2>2. "RUNNING" \in ProcessStates /\ "empty" \in Stages
    BY Values
  <2>3. new \in ProcessType
    BY <1>0, <2>2, Values DEF ProcessType
  <2>4. new.pid = f.pid /\ new.states = Idle /\ new.volumes = NoVolumes
    BY <1>0, <2>2, Values DEF ProcessType
  <2>5. \A s \in Stages : q.states[s] # "RUNNING"
    BY <2>1, <2>4 DEF Idle
  <2> HIDE DEF new
  <2> QED
    BY <2>1, <2>3, <2>4, <2>5 DEF OneStage
<1>2. CASE ~NewProcess(p, f) /\ ProcessOver(p, f)
  <2> DEFINE over == [p EXCEPT !.pid = NoPid, !.status = "FINISHED", !.ended = TRUE]
  <2>0. ~Standby(p, f)
    BY <1>2 DEF ProcessOver, Standby
  <2>1. q = over
    BY <1>2, <2>0, Zenon DEF Identified
  <2>2. "FINISHED" \in ProcessStates
    BY Values
  <2>3. over \in ProcessType
    BY <2>2 DEF ProcessType
  <2>4. over.pid = NoPid /\ over.states = p.states /\ over.current = p.current
        /\ over.previous = p.previous
    BY DEF ProcessType
  <2> HIDE DEF over
  <2> QED
    BY <2>1, <2>3, <2>4 DEF OneStage
<1>3. CASE ~NewProcess(p, f) /\ ~ProcessOver(p, f) /\ Standby(p, f)
  <2> DEFINE standby == [p EXCEPT !.status = "IDLE", !.started = FALSE, !.ended = FALSE]
  <2>1. q = standby
    BY <1>3, Zenon DEF Identified
  <2>2. "IDLE" \in ProcessStates
    BY Values
  <2>3. standby \in ProcessType
    BY <2>2 DEF ProcessType
  <2>4. standby.pid = p.pid /\ standby.states = p.states /\ standby.current = p.current
        /\ standby.previous = p.previous /\ standby.volumes = p.volumes
    BY DEF ProcessType
  <2>5. p.pid = NoPid
    BY <1>3 DEF Standby
  <2> HIDE DEF standby
  <2> QED
    BY <2>1, <2>3, <2>4, <2>5 DEF OneStage
<1>4. CASE ~NewProcess(p, f) /\ ~ProcessOver(p, f) /\ ~Standby(p, f)
  <2>1. q = p
    BY <1>4, Zenon DEF Identified
  <2>2. f.pid = p.pid \/ (f.pid = NoPid /\ f.type # "waiting")
    BY <1>4 DEF NewProcess, ProcessOver, Standby
  <2> QED
    BY <2>1, <2>2
<1> QED
  BY <1>1, <1>2, <1>3, <1>4

LEMMA MovedSound ==
  ASSUME NEW p \in ProcessType, NEW stage \in Stages
  PROVE  LET q == Moved(p, stage)
         IN  /\ q \in ProcessType /\ q.current = stage
             /\ q.pid = p.pid /\ q.volumes = p.volumes
             /\ OneStage(p) => RunningIn(q, {q.current, q.previous})
             /\ OneStage(p) /\ stage = "error" => OneStage(q)
             /\ \A s \in Stages : q.states[s] = "RUNNING" => s = stage \/ p.states[s] = "RUNNING"
<1>1. CASE p.current = stage
  BY <1>1 DEF Moved, OneStage, RunningIn
<1>2. CASE p.current # stage
  <2> DEFINE q == Moved(p, stage)
             table == [p.states EXCEPT ![p.previous] = "FINISHED", ![stage] = "RUNNING"]
  <2>1. q = [p EXCEPT !.states = table, !.previous = p.current, !.current = stage]
    BY <1>2, Zenon DEF Moved
  <2>2. table \in [Stages -> ProcessStates]
    BY Values DEF ProcessType
  <2>3. ASSUME NEW s \in Stages, table[s] = "RUNNING"
        PROVE  s = stage \/ (s # p.previous /\ p.states[s] = "RUNNING")
    BY <2>3 DEF ProcessType
  <2> HIDE DEF table
  <2>4. q \in ProcessType
    BY <2>1, <2>2 DEF ProcessType
  <2>5. q.states = table /\ q.previous = p.current /\ q.current = stage /\ q.pid = p.pid
        /\ q.volumes = p.volumes
    BY <2>1, <2>2 DEF ProcessType
  <2>6. OneStage(p) => \A s \in Stages : table[s] = "RUNNING" => s = stage \/ s = p.current
    BY <2>3 DEF OneStage
  <2> QED
    BY <2>3, <2>4, <2>5, <2>6 DEF OneStage, RunningIn
<1> QED
  BY <1>1, <1>2

\* No event makes a stage run.
Keeps(p, r) ==
    /\ r \in ProcessType
    /\ r.current = p.current /\ r.previous = p.previous
    /\ r.pid = p.pid /\ r.volumes = p.volumes
    /\ \A s \in Stages : r.states[s] = "RUNNING" => p.states[s] = "RUNNING"

LEMMA StatusKeeps ==
  ASSUME NEW p \in ProcessType, NEW status \in ProcessStates
  PROVE  Keeps(p, [p EXCEPT !.status = status])
<1> DEFINE q == [p EXCEPT !.status = status]
<1>1. q \in ProcessType /\ q.current = p.current /\ q.previous = p.previous
      /\ q.pid = p.pid /\ q.volumes = p.volumes /\ q.states = p.states
  BY DEF ProcessType
<1> HIDE DEF q
<1>2. Keeps(p, q)
  BY <1>1 DEF Keeps
<1> QED
  BY <1>2 DEF q

LEMMA FinishedKeeps ==
  ASSUME NEW p \in ProcessType, NEW stage \in Stages
  PROVE  Keeps(p, [p EXCEPT !.states = [p.states EXCEPT ![stage] = "FINISHED"]])
<1> DEFINE table == [p.states EXCEPT ![stage] = "FINISHED"]
           q == [p EXCEPT !.states = table]
<1>1. table \in [Stages -> ProcessStates]
  BY Values DEF ProcessType
<1>2. \A s \in Stages : table[s] = "RUNNING" => p.states[s] = "RUNNING"
  BY DEF ProcessType
<1> HIDE DEF table
<1>3. q \in ProcessType /\ q.current = p.current /\ q.previous = p.previous
      /\ q.pid = p.pid /\ q.volumes = p.volumes /\ q.states = table
  BY <1>1 DEF ProcessType
<1> HIDE DEF q
<1>4. Keeps(p, q)
  BY <1>2, <1>3 DEF Keeps
<1> QED
  BY <1>4 DEF q, table

\* startEventHandler() looks at one kind of events after the other; no event is of two kinds.
LEMMA EventKinds ==
  ASSUME NEW event
  PROVE  /\ event \in Manual => event # "remote_stop" /\ event \notin SensorError
         /\ event \in SensorError => event # "remote_stop"
         /\ event \in Manual \cup SensorError \cup {"remote_stop"} => FinishedStage(event) \notin Stages
  BY DEF Manual, SensorError, FinishedStage, NoEvent, Stages, KnownTypes

LEMMA EventStartedKeeps ==
  ASSUME NEW p \in ProcessType, NEW event
  PROVE  Keeps(p, EventStarted(p, event))
<1>0. {"PAUSED", "STOPPED", "PROCESS_ERROR"} \subseteq ProcessStates
  BY Values
<1>1. CASE event \in Manual
  <2>1. EventStarted(p, event) = [p EXCEPT !.status = "PAUSED"]
    BY <1>1, EventKinds, Zenon DEF EventStarted
  <2> QED
    BY <1>0, <2>1, StatusKeeps
<1>2. CASE event \notin Manual /\ event = "remote_stop"
  <2>1. EventStarted(p, event) = [p EXCEPT !.status = "STOPPED"]
    BY <1>2, EventKinds, Zenon DEF EventStarted
  <2> QED
    BY <1>0, <2>1, StatusKeeps
<1>3. CASE event \notin Manual /\ event # "remote_stop" /\ event \in SensorError
  <2>1. EventStarted(p, event) = [p EXCEPT !.status = "PROCESS_ERROR"]
    BY <1>3, EventKinds, Zenon DEF EventStarted
  <2> QED
    BY <1>0, <2>1, StatusKeeps
<1>4. CASE /\ event \notin Manual /\ event # "remote_stop" /\ event \notin SensorError
           /\ FinishedStage(event) \in Stages
  <2>1. EventStarted(p, event) = [p EXCEPT !.states[FinishedStage(event)] = "FINISHED"]
    BY <1>4, Zenon DEF EventStarted
  <2> QED
    BY <1>4, <2>1, FinishedKeeps
<1>5. CASE /\ event \notin Manual /\ event # "remote_stop" /\ event \notin SensorError
           /\ FinishedStage(event) \notin Stages
  <2>1. EventStarted(p, event) = p
    BY <1>5, Zenon DEF EventStarted
  <2> QED
    BY <2>1 DEF Keeps
<1> QED
  BY <1>1, <1>2, <1>3, <1>4, <1>5

LEMMA EventEndedKeeps ==
  ASSUME NEW p \in ProcessType, NEW event
  PROVE  Keeps(p, EventEnded(p, event))
<1>0. "RUNNING" \in ProcessStates
  BY Values
<1>1. CASE event \in Manual \cup SensorError
  <2>1. EventEnded(p, event) = [p EXCEPT !.status = "RUNNING"]
    BY <1>1, Zenon DEF EventEnded
  <2> QED
    BY <1>0, <2>1, StatusKeeps
<1>2. CASE event \notin Manual \cup SensorError
  <2>1. EventEnded(p, event) = p
    BY <1>2, Zenon DEF EventEnded
  <2> QED
    BY <2>1 DEF Keeps
<1> QED
  BY <1>1, <1>2

\* The event and the event to be ended are noted without further effect.
LEMMA NotedKeeps ==
  ASSUME NEW p \in ProcessType, NEW r, Keeps(p, r),
         NEW event \in Events \cup {NoEvent}, NEW pending \in Events \cup {NoEvent}
  PROVE  Keeps(p, [r EXCEPT !.event = event, !.pending = pending])
         /\ Keeps(p, [r EXCEPT !.pending = pending])
<1>0. r \in ProcessType
  BY DEF Keeps
<1> DEFINE q == [r EXCEPT !.event = event, !.pending = pending]
           o == [r EXCEPT !.pending = pending]
<1>1. q \in ProcessType /\ q.current = r.current /\ q.previous = r.previous
      /\ q.pid = r.pid /\ q.volumes = r.volumes /\ q.states = r.states
  BY <1>0 DEF ProcessType
<1>2. o \in ProcessType /\ o.current = r.current /\ o.previous = r.previous
      /\ o.pid = r.pid /\ o.volumes = r.volumes /\ o.states = r.states
  BY <1>0 DEF ProcessType
<1> HIDE DEF q, o
<1>3. Keeps(p, q) /\ Keeps(p, o)
  BY <1>1, <1>2 DEF Keeps
<1> QED
  BY <1>3 DEF q, o

LEMMA NotedEvent ==
  ASSUME NEW p \in ProcessType, NEW r, Keeps(p, r), NEW event \in Events \cup {NoEvent}
  PROVE  Keeps(p, [r EXCEPT !.event = event, !.pending = event])
  BY NotedKeeps

LEMMA NotedEnd ==
  ASSUME NEW p \in ProcessType, NEW r, Keeps(p, r)
  PROVE  Keeps(p, [r EXCEPT !.pending = NoEvent])
<1>1. NoEvent \in Events \cup {NoEvent}
  OBVIOUS
<1> QED
  BY <1>1, NotedKeeps

LEMMA EventSound ==
  ASSUME NEW p \in ProcessType, NEW f \in Frames
  PROVE  Keeps(p, WithEvent(p, f))
<1>0. f.event \in Events \cup {NoEvent}
  BY DEF Frames
<1>1. CASE f.event # NoEvent
  <2>1. WithEvent(p, f) = [EventStarted(p, f.event) EXCEPT !.event = f.event, !.pending = f.event]
    BY <1>1, Zenon DEF WithEvent
  <2>2. Keeps(p, EventStarted(p, f.event))
    BY EventStartedKeeps
  <2>3. Keeps(p, [EventStarted(p, f.event) EXCEPT !.event = f.event, !.pending = f.event])
    BY <1>0, <2>2, NotedEvent
  <2> QED
    BY <2>1, <2>3, Zenon
<1>2. CASE f.event = NoEvent /\ p.pending # NoEvent
  <2>1. WithEvent(p, f) = [EventEnded(p, p.pending) EXCEPT !.pending = NoEvent]
    BY <1>2, Zenon DEF WithEvent
  <2>2. Keeps(p, EventEnded(p, p.pending))
    BY EventEndedKeeps
  <2>3. Keeps(p, [EventEnded(p, p.pending) EXCEPT !.pending = NoEvent])
    BY <2>2, NotedEnd
  <2> QED
    BY <2>1, <2>3, Zenon
<1>3. CASE f.event = NoEvent /\ p.pending = NoEvent
  <2>1. WithEvent(p, f) = p
    BY <1>3, Zenon DEF WithEvent
  <2> QED
    BY <2>1 DEF Keeps
<1> QED
  BY <1>1, <1>2, <1>3

LEMMA TabledSound ==
  ASSUME NEW p \in ProcessType
  PROVE  LET q == Tabled(p)
         IN  /\ q \in ProcessType /\ q.current = p.current
             /\ q.pid = p.pid /\ q.volumes = p.volumes
             /\ RunningIn(p, {p.current, p.previous}) => RunningIn(q, {q.current})
<1> DEFINE running == [p.states EXCEPT ![p.current] = "RUNNING"]
           left_ == LeftBehind(running[p.previous])
           table == [running EXCEPT ![p.previous] = left_]
           q == [p EXCEPT !.states = table]
<1>1. running \in [Stages -> ProcessStates] /\ p.previous \in Stages /\ p.current \in Stages
  BY Values DEF ProcessType
<1>2. left_ \in ProcessStates /\ left_ # "RUNNING"
  <2>1. running[p.previous] \in ProcessStates
    BY <1>1
  <2> HIDE DEF running
  <2> QED
    BY <2>1, Values DEF LeftBehind
<1>3. \A s \in Stages : running[s] = "RUNNING" => s = p.current \/ p.states[s] = "RUNNING"
  BY DEF ProcessType
<1> HIDE DEF left_
<1>4. table \in [Stages -> ProcessStates]
  BY <1>1, <1>2
<1>5. \A s \in Stages : table[s] = "RUNNING" => s # p.previous /\ running[s] = "RUNNING"
  BY <1>1, <1>2
<1>6. Tabled(p) = q
  BY Zenon DEF Tabled, q, table, running, left_
<1> HIDE DEF table, running
<1>7. q \in ProcessType /\ q.current = p.current /\ q.pid = p.pid /\ q.volumes = p.volumes
      /\ q.states = table
  BY <1>4 DEF ProcessType
<1> HIDE DEF q
<1> QED
  BY <1>3, <1>5, <1>6, <1>7 DEF RunningIn

LEMMA PressureSound ==
  ASSUME NEW p \in ProcessType, NEW pressure \in Nat
  PROVE  LET q == WithPressure(p, pressure)
         IN  /\ q \in ProcessType /\ q.current = p.current
             /\ q.pid = p.pid /\ q.volumes = p.volumes /\ q.states = p.states
<1> DEFINE Set(b, r) == [p EXCEPT !.base = b, !.relative = r]
           q == WithPressure(p, pressure)
<1>1. ASSUME NEW b \in Readings, NEW r \in Readings
      PROVE  /\ Set(b, r) \in ProcessType /\ Set(b, r).current = p.current
             /\ Set(b, r).pid = p.pid /\ Set(b, r).volumes = p.volumes
             /\ Set(b, r).states = p.states
  BY DEF ProcessType
<1>2. p.base \in Readings /\ p.relative \in Readings
  BY DEF ProcessType
<1>3. pressure \in Readings /\ pressure - p.base \in Readings
  BY <1>2 DEF Readings
<1>4. p = Set(p.base, p.relative) /\ \A r \in Readings : [p EXCEPT !.relative = r] = Set(p.base, r)
  BY DEF ProcessType
<1>5. \E b \in Readings, r \in Readings : q = Set(b, r)
  <2>1. CASE p.status # "RUNNING"
    <3>1. q = Set(0, 0)
      BY <2>1, Zenon DEF WithPressure
    <3> QED
      BY <3>1, Values
  <2>2. CASE p.status = "RUNNING" /\ p.base = 0 /\ pressure > 0
    <3>1. q = Set(pressure, 0)
      BY <2>2, Zenon DEF WithPressure
    <3> QED
      BY <3>1, <1>3, Values
  <2>3. CASE p.status = "RUNNING" /\ p.base # 0
    <3>1. q = [p EXCEPT !.relative = pressure - p.base]
      BY <2>3, Zenon DEF WithPressure
    <3> QED
      BY <3>1, <1>2, <1>3, <1>4
  <2>4. CASE p.status = "RUNNING" /\ p.base = 0 /\ ~(pressure > 0)
    <3>1. q = p
      BY <2>4, Zenon DEF WithPressure
    <3> QED
      BY <3>1, <1>2, <1>4
  <2> QED
    BY <2>1, <2>2, <2>3, <2>4
<1> HIDE DEF q, Set
<1> QED
  BY <1>1, <1>5 DEF q

LEMMA VolumeSound ==
  ASSUME NEW p \in ProcessType, NEW seconds \in Nat
  PROVE  LET q == WithVolume(p, seconds)
         IN  /\ q \in ProcessType /\ q.current = p.current
             /\ q.pid = p.pid /\ q.states = p.states
             /\ \A s \in Stages : q.volumes[s] = p.volumes[s] \/ s = p.current
<1>1. CASE Valve(p.current) = 0
  <2>1. WithVolume(p, seconds) = p
    BY <1>1 DEF WithVolume
  <2> QED
    BY <2>1
<1>2. CASE Valve(p.current) # 0
  <2> DEFINE bw == ValveBw[Valve(p.current)]
             product == bw * seconds
             volume == product \div 3600
             table == [p.volumes EXCEPT ![p.current] = volume]
             q == [p EXCEPT !.volumes = table]
  <2>1. Valve(p.current) \in 1..3
    BY <1>2 DEF Valve
  <2>2. bw \in Nat
    BY <2>1, ValveAssumption
  <2> HIDE DEF bw
  <2>3. product \in Nat
    BY <2>2
  <2> HIDE DEF product
  <2>4. volume \in Nat
    BY <2>3
  <2>5. WithVolume(p, seconds) = q
    BY <1>2 DEF WithVolume, q, table, volume, product, bw
  <2> HIDE DEF volume
  <2>6. p.volumes \in [Stages -> Nat]
    BY DEF ProcessType, Volumes
  <2>7. table \in [Stages -> Nat] /\ \A s \in Stages : table[s] = p.volumes[s] \/ s = p.current
    BY <2>4, <2>6
  <2> HIDE DEF table
  <2>8. table \in Volumes
    BY <2>7 DEF Volumes
  <2>9. /\ q \in ProcessType /\ q.current = p.current
        /\ q.pid = p.pid /\ q.states = p.states /\ q.volumes = table
    BY <2>8 DEF ProcessType
  <2> HIDE DEF q
  <2> QED
    BY <2>5, <2>7, <2>9
<1> QED
  BY <1>1, <1>2

\* One frame keeps the table sound.  Of a process that the frame or the table knew already, it
\* shows nothing but what the process has been through.
LEMMA UpdateSound ==
  ASSUME NEW p \in ProcessType, OneStage(p), NEW f \in Frames, NEW q \in Consumed(p, f, Pressures)
  PROVE  /\ q \in ProcessType /\ OneStage(q) /\ q.pid \in {p.pid, f.pid, NoPid}
         /\ \A visited :
              /\ q.pid # NoPid
              /\ q.pid = p.pid => Within(p, visited)
              /\ f.pid # NoPid /\ q.pid = f.pid /\ f.type \in KnownTypes => f.type \in visited
              /\ f.pid = NoPid /\ f.type \in KnownTypes => f.type = "waiting"
              => Within(q, visited)
<1> DEFINE c == Cleared(p)
           i == Identified(c, f)
           m == Moved(i, StageOf(f.type))
           e == WithEvent(m, f)
           t == Tabled(e)
<1>1. c \in ProcessType /\ OneStage(c) /\ c.pid = p.pid /\ c.states = p.states /\ c.volumes = p.volumes
  BY ClearedSound
<1>2. /\ i \in ProcessType /\ OneStage(i)
      /\ \/ i.pid = c.pid /\ i.states = c.states /\ i.volumes = c.volumes
         \/ i.pid = f.pid /\ i.states = Idle /\ i.volumes = NoVolumes
         \/ i.pid = NoPid
      /\ i.pid \in {f.pid, NoPid} \/ (f.pid = NoPid /\ f.type # "waiting")
  BY <1>1, IdentifiedSound
<1> HIDE DEF c
<1>3. StageOf(f.type) \in Stages
  BY StageOfFrame
<1>4. /\ m \in ProcessType /\ m.current = StageOf(f.type) /\ m.pid = i.pid /\ m.volumes = i.volumes
      /\ RunningIn(m, {m.current, m.previous})
      /\ StageOf(f.type) = "error" => OneStage(m)
      /\ \A s \in Stages : m.states[s] = "RUNNING" => s = StageOf(f.type) \/ i.states[s] = "RUNNING"
  BY <1>2, <1>3, MovedSound
<1> HIDE DEF i
<1>5. ASSUME NEW visited, i.pid # NoPid, i.pid = p.pid => Within(p, visited)
      PROVE  Within(i, visited)
  <2>1. CASE i.states = Idle /\ i.volumes = NoVolumes
    BY <2>1 DEF Within, Idle, NoVolumes, Stages
  <2>2. CASE i.pid = p.pid /\ i.states = p.states /\ i.volumes = p.volumes
    BY <1>5, <2>2 DEF Within
  <2> QED
    BY <1>1, <1>2, <1>5, <2>1, <2>2
<1>6. CASE q = p
  BY <1>6
<1>7. CASE q = m /\ StageOf(f.type) = "error"
  <2>1. ASSUME NEW visited, Within(i, visited)
        PROVE  Within(m, visited)
    BY <1>4, <1>7, <2>1 DEF Within, Stages, KnownTypes
  <2> HIDE DEF m
  <2> QED
    BY <1>1, <1>2, <1>4, <1>5, <1>7, <2>1
<1>8. CASE /\ StageOf(f.type) # "error" /\ f.type \in KnownTypes
           /\ \E pressure \in Pressures : q = WithVolume(WithPressure(t, pressure), f.seconds)
  <2>1. Keeps(m, e)
    BY <1>4, EventSound
  <2> HIDE DEF m
  <2>2. /\ e \in ProcessType /\ e.current = f.type /\ e.pid = i.pid /\ e.volumes = i.volumes
        /\ RunningIn(e, {e.current, e.previous})
    BY <1>4, <1>8, <2>1 DEF Keeps, RunningIn, StageOf
  <2>3. /\ t \in ProcessType /\ t.current = f.type /\ t.pid = i.pid /\ t.volumes = i.volumes
        /\ RunningIn(t, {f.type})
    BY <2>2, TabledSound
  <2> HIDE DEF e, t
  <2>4. PICK pressure \in Pressures : q = WithVolume(WithPressure(t, pressure), f.seconds)
    BY <1>8
  <2> DEFINE w == WithPressure(t, pressure)
  <2>5. /\ w \in ProcessType /\ w.current = f.type /\ w.pid = i.pid /\ w.volumes = i.volumes
        /\ w.states = t.states
    BY <2>3, PressureSound, ReceiverAssumption
  <2>6. f.seconds \in Nat
    BY DEF Frames
  <2>7. /\ q \in ProcessType /\ q.current = f.type /\ q.pid = i.pid /\ q.states = t.states
        /\ \A s \in Stages : q.volumes[s] = i.volumes[s] \/ s = f.type
    BY <2>4, <2>5, <2>6, VolumeSound
  <2> HIDE DEF w
  <2>8. OneStage(q)
    BY <2>3, <2>7 DEF OneStage, RunningIn
  <2>9. ASSUME NEW visited, Within(i, visited), f.type \in visited
        PROVE  Within(q, visited)
    BY <2>3, <2>7, <2>9 DEF Within, RunningIn, Stages
  <2> QED
    BY <1>1, <1>2, <1>5, <1>8, <2>7, <2>8, <2>9
<1> QED
  <2>1. f.type = "settings" => q = p
    BY DEF Consumed
  <2>2. f.type # "settings" /\ StageOf(f.type) = "error" => q = m
    BY DEF Consumed, m, i, c
  <2>3. f.type # "settings" /\ StageOf(f.type) # "error"
          => \E pressure \in Pressures : q = WithVolume(WithPressure(t, pressure), f.seconds)
    BY DEF Consumed, t, e, m, i, c
  <2>4. StageOf(f.type) # "error" => f.type \in KnownTypes
    BY DEF StageOf
  <2> QED
    BY <1>6, <1>7, <1>8, <2>1, <2>2, <2>3, <2>4, Zenon

-----------------------------------------------------------------------------
(* Types.                                                                  *)

\* A process runs in a stage of the order.
StageInOrder == Running => \E i \in 1..Len(StageOrder) : StageOrder[i] = ctrl.stage

\* One stage runs in the table, without which a frame does not keep the types.
TypeInv == TypeOK /\ StageInOrder /\ OneStageRunning

LEMMA Orders ==
  /\ StageOrder # << >> /\ Len(StageOrder) \in Nat \ {0}
  /\ \A i \in 1..Len(StageOrder) : StageOrder[i] \in KnownTypes \ {"waiting"}
  /\ Head(StageOrder) = StageOrder[1]
  BY ReceiverAssumption

LEMMA MessagesSound ==
  ASSUME TypeOK
  PROVE  /\ TelemetryMessage \in Messages /\ SettingsMessage \in Messages
         /\ NoMessage \in Messages /\ Message("answer") \in Messages /\ Message("log") \in Messages
<1>1. NoFrame \in Frames
  BY DEF NoFrame, Frames
<1>2. \A kind \in Kinds : Message(kind) \in Messages
  BY <1>1 DEF Message, Messages, NoSettings
<1>3. SettingsMessage \in Messages
  <2>1. ctrl.settings \in Int
    BY DEF TypeOK, CtrlType
  <2> QED
    BY <1>1, <2>1 DEF SettingsMessage, Message, Messages, Kinds
<1>4. TelemetryMessage.frame \in Frames
  <2>1. CASE ctrl.menu
    BY <2>1 DEF TelemetryMessage, NoFrame, Frames
  <2>2. CASE ~ctrl.menu
    <3>1. /\ ctrl.stage \in KnownTypes /\ ctrl.pid \in Pids \cup {NoPid}
          /\ ctrl.event \in Events \cup {NoEvent} /\ 3600 * ctrl.seconds \in Nat
      BY DEF TypeOK, CtrlType
    <3> QED
      BY <2>2, <3>1 DEF TelemetryMessage, Frames
  <2> QED
    BY <2>1, <2>2
<1>5. TelemetryMessage \in Messages
  <2>1. ctrl.changed \in BOOLEAN
    BY DEF TypeOK, CtrlType
  <2> QED
    BY <1>4, <2>1 DEF TelemetryMessage, Messages, NoSettings, Kinds
<1> QED
  BY <1>2, <1>3, <1>5 DEF NoMessage, Kinds

\* What the controller does to itself.
LEMMA ControllerTyped ==
  ASSUME TypeInv, Controller
  PROVE  ctrl' \in CtrlType /\ StageInOrder'
<1> USE DEF TypeInv, TypeOK
<1>1. CASE CtrlStarts
  <2>1. PICK pid \in Pids : ctrl' = [Enters(Head(StageOrder)) EXCEPT !.pid = pid, !.last = pid,
                                                    !.visited = {Head(StageOrder)}]
    BY <1>1 DEF CtrlStarts
  <2>2. Head(StageOrder) \in KnownTypes
    BY Orders
  <2>3. ctrl' \in CtrlType
    BY <2>1, <2>2 DEF Enters, CtrlType
  <2>4. ctrl'.stage = StageOrder[1]
    BY <2>1, <2>2, Orders DEF Enters, CtrlType
  <2> QED
    BY <2>3, <2>4, Orders DEF StageInOrder
<1>2. CASE CtrlNextStage
  <2>1. PICK i \in 1..Len(StageOrder) : StageOrder[i] = ctrl.stage
    BY <1>2 DEF CtrlNextStage, StageInOrder
  <2>2. Place \in 1..Len(StageOrder) /\ StageOrder[Place] = ctrl.stage
    BY <2>1 DEF Place
  <2>3. Place + 1 \in 1..Len(StageOrder)
    BY <1>2, <2>2, Orders DEF CtrlNextStage
  <2>4. StageOrder[Place + 1] \in KnownTypes
    BY <2>3, Orders
  <2>5. ctrl' = Enters(StageOrder[Place + 1])
    BY <1>2 DEF CtrlNextStage
  <2> HIDE DEF Place
  <2>6. ctrl' \in CtrlType /\ ctrl'.stage = StageOrder[Place + 1]
    BY <2>4, <2>5 DEF Enters, CtrlType
  <2> QED
    BY <2>3, <2>6 DEF StageInOrder
<1>3. CASE CtrlCollects
  BY <1>3 DEF CtrlCollects, CtrlType, StageInOrder, Running
<1>4. CASE CtrlEvent
  <2>1. PICK event \in (EventsSeen \cup {NoEvent}) : ctrl' = [ctrl EXCEPT !.event = event]
    BY <1>4 DEF CtrlEvent
  <2>2. event \in Events \cup {NoEvent}
    BY ReceiverAssumption
  <2> QED
    BY <2>1, <2>2 DEF CtrlType, StageInOrder, Running
<1>5. CASE CtrlStops
  <2>1. ctrl' \in CtrlType /\ ctrl'.pid = NoPid
    BY <1>5 DEF CtrlStops, CtrlType, KnownTypes
  <2> QED
    BY <2>1 DEF StageInOrder, Running
<1>6. CASE CtrlMenu
  BY <1>6 DEF CtrlMenu, CtrlType, StageInOrder, Running
<1>7. CASE CtrlButtons
  <2> DEFINE next == ctrl.settings + 1
  <2>1. next \in Nat
    BY DEF CtrlType
  <2>2. ctrl' = [ctrl EXCEPT !.settings = next, !.changed = TRUE]
    BY <1>7 DEF CtrlButtons
  <2> HIDE DEF next
  <2>3. ctrl' \in CtrlType /\ ctrl'.stage = ctrl.stage /\ ctrl'.pid = ctrl.pid
    BY <2>1, <2>2 DEF CtrlType
  <2> QED
    BY <2>3 DEF StageInOrder, Running
<1>8. CASE CtrlOff
  BY <1>8 DEF CtrlOff, CtrlType, StageInOrder, Running
<1>9. CASE CtrlOn
  BY <1>9 DEF CtrlOn, CtrlType, StageInOrder, Running
<1> QED
  BY <1>1, <1>2, <1>3, <1>4, <1>5, <1>6, <1>7, <1>8, <1>9 DEF Controller

LEMMA MessageFrames ==
  ASSUME NEW message \in Messages
  PROVE  message.frame \in Frames
  BY DEF Messages

LEMMA TypeInit == Init => TypeInv
<1> SUFFICES ASSUME Init PROVE TypeInv
  OBVIOUS
<1>1. NoMessage \in Messages
  <2>1. NoFrame \in Frames
    BY DEF NoFrame, Frames
  <2> QED
    BY <2>1 DEF NoMessage, Message, Messages, Kinds, NoSettings
<1>2. NoProcess \in ProcessType
  <2>1. "IDLE" \in ProcessStates /\ "empty" \in Stages /\ NoEvent \in Events \cup {NoEvent}
    BY Values
  <2> QED
    BY <2>1, Values DEF NoProcess, ProcessType
<1>3. ctrl \in CtrlType
  BY DEF Init, CtrlType, KnownTypes
<1>4. ~Running /\ OneStageRunning
  BY DEF Init, Running, OneStageRunning, NoProcess, Idle
<1>5. 0 \in 0..Threshold
  BY ReceiverAssumption
<1>6. rx \in [at: {"read", "stored"}, message: Messages] /\ mailbox \in Messages /\ proc \in ProcessType
  <2>1. rx = [at |-> "read", message |-> NoMessage] /\ mailbox = NoMessage /\ proc = NoProcess
    BY DEF Init
  <2> QED
    BY <1>1, <1>2, <2>1
<1>7. errors \in 0..Threshold
  BY <1>5 DEF Init
<1>11. /\ queue \in Seq(Commands) /\ Len(queue) <= QueueLength
       /\ worker \in [at: {"idle", "waits", "defers"}, command: Commands]
  BY ReceiverAssumption DEF Init, IdleWorker, Commands
<1>8. settings \in Int
  BY DEF Init, NoSettings
<1>9. lost \in BOOLEAN /\ fault \in BOOLEAN /\ bits \subseteq {"BIT0", "BIT10"}
  BY DEF Init
<1>10. TypeOK
  BY <1>3, <1>6, <1>7, <1>8, <1>9, <1>11 DEF Init, TypeOK
<1> QED
  BY <1>4, <1>10 DEF TypeInv, StageInOrder

\* What a line or a silence may count.
LEMMA CountedTyped ==
  ASSUME errors \in 0..Threshold
  PROVE  Counted \in 0..Threshold
  BY ReceiverAssumption DEF Counted

\* The queue keeps its length, whatever is pushed.
LEMMA PushedTyped ==
  ASSUME queue \in Seq(Commands), Len(queue) <= QueueLength, NEW commands \in Seq(Commands)
  PROVE  Pushed(commands) \in Seq(Commands) /\ Len(Pushed(commands)) <= QueueLength
<1> DEFINE all == queue \o commands
<1>1. all \in Seq(Commands) /\ QueueLength \in Nat
  BY ReceiverAssumption
<1> HIDE DEF all
<1>2. CASE Len(all) <= QueueLength
  BY <1>1, <1>2 DEF Pushed, all
<1>3. CASE ~(Len(all) <= QueueLength)
  <2>1. QueueLength \in 0..Len(all)
    BY <1>1, <1>3
  <2>2. SubSeq(all, 1, QueueLength) \in Seq(Commands) /\ Len(SubSeq(all, 1, QueueLength)) = QueueLength
    BY <1>1, <2>1
  <2> QED
    BY <1>1, <1>3, <2>2 DEF Pushed, all
<1> QED
  BY <1>2, <1>3

LEMMA PushesTyped == RecoveryPushes \o ButtonPushes \in Seq(Commands)
<1>1. << >> \in Seq(Commands)
  OBVIOUS
<1>2. "settings" \in Commands /\ "other" \in Commands
  BY DEF Commands
<1>3. <<"settings", "other">> \in Seq(Commands) /\ <<"settings">> \in Seq(Commands)
  BY <1>2
<1>4. RecoveryPushes \in Seq(Commands)
  BY <1>1, <1>3 DEF RecoveryPushes
<1>5. ButtonPushes \in Seq(Commands)
  BY <1>1, <1>3 DEF ButtonPushes
<1> HIDE DEF RecoveryPushes, ButtonPushes
<1> QED
  BY <1>4, <1>5

\* What the worker takes from the queue, and what it puts back.
LEMMA TakesTyped ==
  ASSUME queue \in Seq(Commands), Len(queue) <= QueueLength, Takes
  PROVE  /\ Head(queue) \in Commands
         /\ queue' \in Seq(Commands) /\ Len(queue') <= QueueLength
<1>1. queue # << >> /\ queue' = Tail(queue)
  BY DEF Takes
<1>2. Head(queue) \in Commands /\ Tail(queue) \in Seq(Commands) /\ Len(Tail(queue)) = Len(queue) - 1
  BY <1>1
<1> QED
  BY <1>1, <1>2, ReceiverAssumption

LEMMA AppendTyped ==
  ASSUME queue \in Seq(Commands), ~Full, NEW command \in Commands
  PROVE  Append(queue, command) \in Seq(Commands) /\ Len(Append(queue, command)) <= QueueLength
<1>1. Len(Append(queue, command)) = Len(queue) + 1 /\ Append(queue, command) \in Seq(Commands)
  OBVIOUS
<1> QED
  BY <1>1, ReceiverAssumption DEF Full

\* What the end of a line does to the receiver, whatever the line was.
LEMMA LineTyped ==
  ASSUME TypeOK, NEW message \in Messages, LineEnds(message)
  PROVE  /\ line' \in {"empty", "partial", "discarding"}
         /\ errors' \in 0..Threshold /\ lost' \in BOOLEAN /\ fault' \in BOOLEAN
         /\ rx' \in [at: {"read", "stored"}, message: Messages]
         /\ mailbox' \in {mailbox, message}
         /\ retry' \in {"none", "armed", "fired"} /\ session' \in {"none", "active", "draining"}
         /\ UNCHANGED <<skipped, bits, procVars, worker, queue, settings>>
<1> USE DEF TypeOK
<1>0. 0 \in 0..Threshold /\ Counted \in 0..Threshold
  BY CountedTyped, ReceiverAssumption
<1>1. CASE line = "empty" /\ Store(message)
  BY <1>0, <1>1 DEF LineEnds, Store
<1>2. CASE line = "partial" /\ BadLine
  BY <1>0, <1>2 DEF LineEnds, BadLine, ReportLoss
<1>3. CASE line = "discarding" /\ UNCHANGED <<errors, lost, fault, retry, rx, mailbox, session>>
  BY <1>3 DEF LineEnds
<1> QED
  BY <1>1, <1>2, <1>3 DEF LineEnds

LEMMA UpdateTyped ==
  ASSUME TypeInv, Update
  PROVE  proc' \in ProcessType /\ OneStageRunning'
<1>1. mailbox.frame \in Frames
  BY MessageFrames DEF TypeInv, TypeOK
<1>2. proc \in ProcessType /\ OneStage(proc)
  BY DEF TypeInv, TypeOK, OneStage, OneStageRunning
<1>3. proc' \in Consumed(proc, mailbox.frame, Pressures)
  BY DEF Update
<1>4. proc' \in ProcessType /\ OneStage(proc')
  BY <1>1, <1>2, <1>3, UpdateSound
<1> QED
  BY <1>4 DEF OneStage, OneStageRunning

LEMMA TypeStep == TypeInv /\ [Next]_vars => TypeInv'
<1> SUFFICES ASSUME TypeInv, [Next]_vars PROVE TypeInv'
  OBVIOUS
<1> USE DEF TypeInv, TypeOK, OneStageRunning
<1>0. /\ TelemetryMessage \in Messages /\ SettingsMessage \in Messages
      /\ NoMessage \in Messages /\ Message("answer") \in Messages /\ Message("log") \in Messages
  BY MessagesSound
<1>1. CASE Controller
  <2>1. ctrl' \in CtrlType /\ StageInOrder'
    BY <1>1, ControllerTyped
  <2> QED
    BY <1>1, <2>1 DEF Controller, rxVars, sharedVars, procVars, queueVars
<1>2. CASE Session
  BY <1>2 DEF Session, SessionBegins, SessionEnds, SessionCancelled, rxVars, sharedVars, procVars,
     queueVars, StageInOrder, Running
<1>3. CASE TelemetryArrives
  <2>1. LineEnds(TelemetryMessage) /\ UNCHANGED ctrl
    BY <1>3 DEF TelemetryArrives
  <2> QED
    BY <1>0, <2>1, LineTyped DEF procVars, StageInOrder, Running
<1>4. CASE AnswerArrives
  <2>1. PICK a \in ctrl.answers :
            /\ LineEnds(IF a = "settings" THEN SettingsMessage ELSE Message("answer"))
            /\ ctrl' = [ctrl EXCEPT !.answers = @ \ {a},
                                    !.changed = IF a = "settings" THEN FALSE ELSE @]
    BY <1>4 DEF AnswerArrives
  <2>2. ctrl' \in CtrlType /\ ctrl'.pid = ctrl.pid /\ ctrl'.stage = ctrl.stage
    BY <2>1 DEF CtrlType
  <2>3. \E message \in Messages : LineEnds(message)
    BY <1>0, <2>1
  <2>4. PICK message \in Messages : LineEnds(message)
    BY <2>3
  <2> QED
    BY <2>2, <2>4, LineTyped DEF procVars, StageInOrder, Running
<1>5. CASE LogFrameArrives
  <2>1. LineEnds(Message("log")) /\ UNCHANGED ctrl
    BY <1>5 DEF LogFrameArrives
  <2> QED
    BY <1>0, <2>1, LineTyped DEF procVars, StageInOrder, Running
<1>6. CASE Noise
  <2>1. line' \in {"empty", "partial", "discarding"}
    BY <1>6 DEF Noise
  <2> QED
    BY <1>6, <2>1 DEF Noise, sharedVars, procVars, queueVars, StageInOrder, Running
<1>7. CASE DropPartial
  BY <1>7 DEF DropPartial, sharedVars, procVars, queueVars, StageInOrder, Running
<1>8. CASE Silence
  <2>1. /\ errors' \in 0..Threshold /\ lost' \in BOOLEAN /\ fault' \in BOOLEAN
        /\ retry' \in {"none", "armed", "fired"}
    BY <1>8, CountedTyped DEF Silence, ReportLoss
  <2>2. UNCHANGED <<ctrl, line, rx, skipped, sharedVars, procVars, worker, queue, settings, session>>
    BY <1>8 DEF Silence
  <2> QED
    BY <2>1, <2>2 DEF sharedVars, procVars, StageInOrder, Running
<1>9. CASE Dispatch
  <2>1. RecoveryPushes \o ButtonPushes \in Seq(Commands)
    BY PushesTyped
  <2>2. queue' \in Seq(Commands) /\ Len(queue') <= QueueLength
    BY <1>9, <2>1, PushedTyped DEF Dispatch
  <2>3. bits' \subseteq {"BIT0", "BIT10"}
    BY <1>9 DEF Dispatch
  <2>4. (fault' = TRUE \/ fault' = FALSE) /\ skipped' \in {"no", "session", "full"}
    BY <1>9 DEF Dispatch
  <2> QED
    BY <1>0, <1>9, <2>2, <2>3, <2>4 DEF Dispatch, procVars, StageInOrder, Running
<1>10. CASE WakeUp
  BY <1>10 DEF WakeUp, rxVars, queueVars, StageInOrder, Running
<1>11. CASE Update
  BY <1>11, UpdateTyped DEF Update, rxVars, sharedVars, queueVars, StageInOrder, Running
<1>12. CASE Write
  <2>1. Head(queue) \in Commands /\ queue' \in Seq(Commands) /\ Len(queue') <= QueueLength
    BY <1>12, TakesTyped DEF Write
  <2>2. ctrl' \in CtrlType /\ ctrl'.pid = ctrl.pid /\ ctrl'.stage = ctrl.stage
    BY <1>12, <2>1 DEF Write, CtrlType, Commands
  <2>3. worker' \in [at: {"idle", "waits", "defers"}, command: Commands]
    BY <1>12, <2>1 DEF Write
  <2> QED
    BY <1>12, <2>1, <2>2, <2>3 DEF Write, rxVars, procVars, StageInOrder, Running
<1>18. CASE Defer
  <2>1. Head(queue) \in Commands /\ queue' \in Seq(Commands) /\ Len(queue') <= QueueLength
    BY <1>18, TakesTyped DEF Defer
  <2>2. worker' \in [at: {"idle", "waits", "defers"}, command: Commands]
    BY <1>18, <2>1 DEF Defer
  <2> QED
    BY <1>18, <2>1, <2>2 DEF Defer, rxVars, sharedVars, procVars, StageInOrder, Running
<1>19. CASE PutBack
  <2>1. worker.command \in Commands /\ IdleWorker \in [at: {"idle", "waits", "defers"}, command: Commands]
    BY DEF IdleWorker, Commands
  <2>2. queue' \in Seq(Commands) /\ Len(queue') <= QueueLength
    BY <1>19, <2>1, AppendTyped DEF PutBack
  <2> QED
    BY <1>19, <2>1, <2>2 DEF PutBack, rxVars, sharedVars, procVars, StageInOrder, Running
<1>20. CASE OtherCommand
  <2>1. queue' \in Seq(Commands) /\ Len(queue') <= QueueLength
    BY <1>20, AppendTyped DEF OtherCommand, Commands
  <2> QED
    BY <1>20, <2>1 DEF OtherCommand, rxVars, sharedVars, procVars, StageInOrder, Running
<1>13. CASE LoadSettings
  <2>1. mailbox.settings \in Int /\ IdleWorker \in [at: {"idle", "waits", "defers"}, command: Commands]
    BY DEF Messages, IdleWorker, Commands
  <2> QED
    BY <1>13, <2>1 DEF LoadSettings, rxVars, procVars, StageInOrder, Running
<1>14. CASE CommandEnds
  BY <1>14 DEF CommandEnds, IdleWorker, Commands, rxVars, sharedVars, procVars, StageInOrder, Running
<1>15. CASE RetryFires
  <2>1. <<"settings", "other">> \in Seq(Commands)
    BY DEF Commands
  <2>2. queue' \in Seq(Commands) /\ Len(queue') <= QueueLength
    BY <1>15, <2>1, PushedTyped DEF RetryFires
  <2> QED
    BY <1>15, <2>2 DEF RetryFires, rxVars, sharedVars, procVars, StageInOrder, Running
<1>16. CASE RetryForgotten
  BY <1>16 DEF RetryForgotten, rxVars, sharedVars, procVars, StageInOrder, Running
<1>17. CASE UNCHANGED vars
  BY <1>17 DEF vars, rxVars, sharedVars, procVars, queueVars, StageInOrder, Running
<1> QED
  BY <1>1, <1>2, <1>3, <1>4, <1>5, <1>6, <1>7, <1>8, <1>9, <1>10, <1>11, <1>12, <1>13, <1>14,
     <1>15, <1>16, <1>17, <1>18, <1>19, <1>20 DEF Next, Receiver, RectTelemetry, Worker, Retry

\* In the table of the firmware one stage runs, whatever frames are lost, repeated or
\* overwritten.
THEOREM OneStageRuns == Spec => []OneStageRunning
<1>1. TypeInv => OneStageRunning
  BY DEF TypeInv
<1> QED
  BY <1>1, TypeInit, TypeStep, PTL DEF Spec

\* Every member keeps its type, for any controller, order of stages and noise.
THEOREM UartTypeCorrect == Spec => []TypeOK
<1>1. TypeInv => TypeOK
  BY DEF TypeInv
<1> QED
  BY <1>1, TypeInit, TypeStep, PTL DEF Spec

-----------------------------------------------------------------------------
(* The table is of the process it names.                                   *)

\* The newest pid is the present one, and the stage is one of those it went through.
CtrlInv ==
    /\ Running => ctrl.last = ctrl.pid /\ ctrl.stage \in ctrl.visited
    /\ ~Running => ctrl.stage = "waiting"

\* No pid is known but one the controller gave out.
KnownPid(pid) == pid # NoPid => ctrl.last # NoPid /\ pid <= ctrl.last

\* A frame, however old, tells of an earlier process or of a stage the present one has
\* been in; without a pid it is standby.
FrameInv(f) ==
    /\ KnownPid(f.pid)
    /\ f.pid # NoPid /\ f.pid = ctrl.pid /\ f.type \in KnownTypes => f.type \in ctrl.visited
    /\ f.pid = NoPid /\ f.type \in KnownTypes => f.type = "waiting"

TableInv ==
    /\ CtrlInv /\ KnownPid(proc.pid) /\ FrameInv(mailbox.frame)
    /\ Running /\ proc.pid = ctrl.pid => Within(proc, ctrl.visited)

IInv == TypeInv /\ TableInv

\* The controller starts a process with a newer pid, or stays in the one it has and
\* forgets no stage of it.
CtrlGoesOn ==
    \/ /\ ~Running /\ Running' /\ ctrl'.pid \in Pids /\ ctrl'.last = ctrl'.pid
       /\ ctrl.last # NoPid => ctrl'.pid > ctrl.last
       /\ ctrl'.stage \in ctrl'.visited
    \/ /\ ctrl'.last = ctrl.last /\ ctrl'.pid = ctrl.pid /\ ctrl.visited \subseteq ctrl'.visited
       /\ ctrl'.stage = ctrl.stage \/ (Running /\ ctrl'.stage \in ctrl'.visited)
    \/ /\ ctrl'.last = ctrl.last /\ ctrl'.pid = NoPid /\ ctrl'.stage = "waiting"

LEMMA ControllerGoesOn ==
  ASSUME TypeInv, Controller
  PROVE  CtrlGoesOn
<1> USE DEF TypeInv, TypeOK
<1>1. CASE CtrlStarts
  <2>1. PICK pid \in Pids :
            /\ \A last \in {ctrl.last} \ {NoPid} : pid > last
            /\ ctrl' = [Enters(Head(StageOrder)) EXCEPT !.pid = pid, !.last = pid,
                                                    !.visited = {Head(StageOrder)}]
    BY <1>1 DEF CtrlStarts
  <2>2. Head(StageOrder) \in KnownTypes
    BY Orders
  <2>3. /\ ctrl'.pid = pid /\ ctrl'.last = pid /\ ctrl'.stage = Head(StageOrder)
        /\ ctrl'.visited = {Head(StageOrder)}
    BY <2>1, <2>2 DEF Enters, CtrlType
  <2>4. ~Running
    BY <1>1 DEF CtrlStarts
  <2> QED
    BY <2>1, <2>3, <2>4, NoPidAssumption DEF CtrlGoesOn, Running
<1>2. CASE CtrlNextStage
  <2> DEFINE stage == StageOrder[Place + 1]
  <2>1. ctrl' = Enters(stage) /\ Running
    BY <1>2 DEF CtrlNextStage
  <2> HIDE DEF stage
  <2>2. /\ ctrl'.pid = ctrl.pid /\ ctrl'.last = ctrl.last /\ ctrl'.stage = stage
        /\ ctrl'.visited = ctrl.visited \cup {stage}
    BY <2>1 DEF Enters, CtrlType
  <2> QED
    BY <2>1, <2>2 DEF CtrlGoesOn
<1>3. CASE CtrlCollects
  BY <1>3 DEF CtrlCollects, CtrlType, CtrlGoesOn
<1>4. CASE CtrlEvent
  BY <1>4 DEF CtrlEvent, CtrlType, CtrlGoesOn
<1>5. CASE CtrlStops
  BY <1>5 DEF CtrlStops, CtrlType, CtrlGoesOn
<1>6. CASE CtrlMenu
  BY <1>6 DEF CtrlMenu, CtrlType, CtrlGoesOn
<1>7. CASE CtrlButtons
  BY <1>7 DEF CtrlButtons, CtrlType, CtrlGoesOn
<1>8. CASE CtrlOff
  BY <1>8 DEF CtrlOff, CtrlType, CtrlGoesOn
<1>9. CASE CtrlOn
  BY <1>9 DEF CtrlOn, CtrlType, CtrlGoesOn
<1> QED
  BY <1>1, <1>2, <1>3, <1>4, <1>5, <1>6, <1>7, <1>8, <1>9 DEF Controller

\* What the receiver may find on the line keeps to FrameInv.
LEMMA FramesKnown ==
  ASSUME IInv
  PROVE  /\ FrameInv(TelemetryMessage.frame)
         /\ FrameInv(SettingsMessage.frame) /\ \A kind : FrameInv(Message(kind).frame)
<1>1. FrameInv(NoFrame)
  BY DEF FrameInv, KnownPid, NoFrame, KnownTypes
<1>2. \A kind : FrameInv(Message(kind).frame)
  BY <1>1 DEF Message
<1>3. SettingsMessage.frame = NoFrame
  BY DEF SettingsMessage, Message
<1>4. FrameInv(TelemetryMessage.frame)
  <2>1. CASE ctrl.menu
    <3>1. TelemetryMessage.frame.pid = NoPid /\ TelemetryMessage.frame.type = "settings"
      BY <2>1 DEF TelemetryMessage, NoFrame
    <3> QED
      BY <3>1 DEF FrameInv, KnownPid, KnownTypes
  <2>2. CASE ~ctrl.menu
    <3>1. TelemetryMessage.frame.pid = ctrl.pid /\ TelemetryMessage.frame.type = ctrl.stage
      BY <2>2 DEF TelemetryMessage
    <3>2. ctrl.pid # NoPid => ctrl.last = ctrl.pid /\ ctrl.pid \in Nat
      BY ReceiverAssumption DEF IInv, TypeInv, TypeOK, CtrlType, TableInv, CtrlInv, Running
    <3> QED
      BY <3>1, <3>2 DEF FrameInv, KnownPid, IInv, TableInv, CtrlInv, Running
  <2> QED
    BY <2>1, <2>2
<1> QED
  BY <1>1, <1>2, <1>3, <1>4

LEMMA TableInit == Init => TableInv
<1> SUFFICES ASSUME Init PROVE TableInv
  OBVIOUS
<1>1. ctrl.pid = NoPid /\ ctrl.stage = "waiting" /\ proc.pid = NoPid
  BY DEF Init, NoProcess
<1>2. mailbox.frame.pid = NoPid /\ mailbox.frame.type = "response"
  BY DEF Init, NoMessage, Message, NoFrame
<1> QED
  BY <1>1, <1>2 DEF TableInv, CtrlInv, KnownPid, FrameInv, Running, KnownTypes

\* The controller goes on, and what the firmware knows stays known.
LEMMA TableCtrl ==
  ASSUME IInv, TypeInv', CtrlGoesOn, UNCHANGED <<proc, mailbox>>
  PROVE  TableInv'
<1> DEFINE f == mailbox.frame
<1>1. \A pid \in Pids \cup {NoPid} : KnownPid(pid) => KnownPid(pid)'
  <2>1. CASE ctrl'.last = ctrl.last
    BY <2>1 DEF KnownPid
  <2>2. CASE ctrl'.pid \in Pids /\ ctrl'.last = ctrl'.pid /\ (ctrl.last # NoPid => ctrl'.pid > ctrl.last)
    <3>1. Pids \subseteq Nat /\ NoPid \notin Pids /\ ctrl.last \in Pids \cup {NoPid}
      BY ReceiverAssumption, NoPidAssumption DEF IInv, TypeInv, TypeOK, CtrlType
    <3>2. ASSUME NEW pid \in Pids, ctrl.last # NoPid, pid <= ctrl.last
          PROVE  ctrl'.last # NoPid /\ pid <= ctrl'.last
      <4>1. pid \in Nat /\ ctrl.last \in Nat /\ ctrl'.last \in Nat /\ ctrl'.last > ctrl.last
        BY <2>2, <3>1, <3>2
      <4>2. ctrl'.last # NoPid
        BY <2>2, <3>1
      <4> QED
        BY <3>2, <4>1, <4>2
    <3> QED
      BY <3>2 DEF KnownPid
  <2> QED
    BY <2>1, <2>2 DEF CtrlGoesOn
<1>2. /\ f \in Frames /\ f.pid \in Pids \cup {NoPid} /\ proc.pid \in Pids \cup {NoPid}
      /\ ctrl.last \in Pids \cup {NoPid} /\ Pids \subseteq Nat /\ NoPid \notin Pids
  BY ReceiverAssumption, NoPidAssumption DEF IInv, TypeInv, TypeOK, CtrlType, Messages, Frames, ProcessType
<1>3. CtrlInv'
  BY DEF CtrlGoesOn, IInv, TableInv, CtrlInv, Running
<1>4. KnownPid(proc.pid)' /\ KnownPid(mailbox.frame.pid)'
  BY <1>1, <1>2 DEF IInv, TableInv, FrameInv, KnownPid
<1>5. CASE /\ ~Running /\ Running' /\ ctrl'.pid \in Pids /\ ctrl'.last = ctrl'.pid
           /\ ctrl.last # NoPid => ctrl'.pid > ctrl.last
  <2>1. ASSUME NEW pid \in Pids \cup {NoPid}, KnownPid(pid)
        PROVE  pid # ctrl'.pid
    <3>1. CASE pid = NoPid
      BY <1>2, <1>5, <3>1
    <3>2. CASE pid \in Pids
      <4>1. ctrl.last # NoPid /\ pid <= ctrl.last /\ ctrl'.pid > ctrl.last
        BY <1>2, <1>5, <2>1, <3>2 DEF KnownPid
      <4>2. pid \in Nat /\ ctrl.last \in Nat /\ ctrl'.pid \in Nat
        BY <1>2, <1>5, <3>2, <4>1
      <4> QED
        BY <4>1, <4>2
    <3> QED
      BY <3>1, <3>2
  <2>2. proc.pid # ctrl'.pid /\ f.pid # ctrl'.pid
    BY <1>2, <2>1 DEF IInv, TableInv, FrameInv
  <2> QED
    BY <1>2, <1>3, <1>4, <1>5, <2>2 DEF IInv, TableInv, FrameInv, KnownPid
<1>6. CASE ctrl'.pid = ctrl.pid /\ ctrl.visited \subseteq ctrl'.visited
  BY <1>3, <1>4, <1>6 DEF IInv, TableInv, FrameInv, KnownPid, Within, Running
<1>7. CASE ctrl'.pid = NoPid
  BY <1>3, <1>4, <1>7 DEF IInv, TableInv, FrameInv, KnownPid, Running
<1> QED
  BY <1>5, <1>6, <1>7 DEF CtrlGoesOn

\* A frame the controller sends, or what it has left in the mailbox, is consumed.
LEMMA TableUpdate ==
  ASSUME IInv, Update
  PROVE  TableInv'
<1> DEFINE f == mailbox.frame
<1>1. f \in Frames /\ proc \in ProcessType /\ OneStage(proc)
  BY MessageFrames DEF IInv, TypeInv, TypeOK, OneStage, OneStageRunning
<1>2. proc' \in Consumed(proc, f, Pressures) /\ UNCHANGED <<ctrl, mailbox>>
  BY DEF Update, sharedVars
<1>3. KnownPid(proc.pid) /\ FrameInv(f) /\ CtrlInv
      /\ (Running /\ proc.pid = ctrl.pid => Within(proc, ctrl.visited))
  BY DEF IInv, TableInv
<1> HIDE DEF f
<1>4. /\ proc'.pid \in {proc.pid, f.pid, NoPid}
      /\ /\ proc'.pid # NoPid
         /\ proc'.pid = proc.pid => Within(proc, ctrl.visited)
         /\ f.pid # NoPid /\ proc'.pid = f.pid /\ f.type \in KnownTypes => f.type \in ctrl.visited
         /\ f.pid = NoPid /\ f.type \in KnownTypes => f.type = "waiting"
         => Within(proc', ctrl.visited)
  BY <1>1, <1>2, UpdateSound
<1>5. KnownPid(proc'.pid)
  BY <1>3, <1>4 DEF FrameInv, KnownPid
<1>6. ASSUME Running, proc'.pid = ctrl.pid
      PROVE  Within(proc', ctrl.visited)
  BY <1>3, <1>4, <1>6 DEF FrameInv, Running
<1>7. CtrlInv' /\ FrameInv(mailbox.frame)' /\ KnownPid(proc.pid)'
  BY <1>2, <1>3, <1>5 DEF CtrlInv, FrameInv, KnownPid, Running, f
<1>8. (Running /\ proc.pid = ctrl.pid => Within(proc, ctrl.visited))'
  BY <1>2, <1>6 DEF Running, Within
<1> QED
  BY <1>7, <1>8 DEF TableInv

\* A line that ends leaves the old frame in the mailbox, or the new one.
LEMMA TableLine ==
  ASSUME IInv, NEW message \in Messages, LineEnds(message), FrameInv(message.frame),
         ctrl'.pid = ctrl.pid, ctrl'.stage = ctrl.stage, ctrl'.last = ctrl.last,
         ctrl'.visited = ctrl.visited
  PROVE  TableInv'
<1>1. mailbox' \in {mailbox, message} /\ UNCHANGED proc
  BY LineTyped DEF IInv, TypeInv, procVars
<1>2. FrameInv(mailbox'.frame)
  BY <1>1 DEF IInv, TableInv
<1> QED
  BY <1>1, <1>2 DEF IInv, TableInv, CtrlInv, FrameInv, KnownPid, Within, Running

LEMMA TableStep == IInv /\ [Next]_vars => TableInv'
<1> SUFFICES ASSUME IInv, [Next]_vars PROVE TableInv'
  OBVIOUS
<1>0. TypeInv' /\ TypeInv
  BY TypeStep DEF IInv
<1>1. /\ TelemetryMessage \in Messages /\ SettingsMessage \in Messages
      /\ Message("answer") \in Messages /\ Message("log") \in Messages
  BY <1>0, MessagesSound DEF TypeInv
<1>2. ASSUME UNCHANGED <<proc, mailbox>>, ctrl'.pid = ctrl.pid, ctrl'.stage = ctrl.stage,
             ctrl'.last = ctrl.last, ctrl'.visited = ctrl.visited
      PROVE  TableInv'
  BY <1>2 DEF IInv, TableInv, CtrlInv, FrameInv, KnownPid, Within, Running
<1>3. CASE Controller
  BY <1>0, <1>3, ControllerGoesOn, TableCtrl DEF Controller, sharedVars, procVars
<1>4. CASE Session
  BY <1>2, <1>4 DEF Session, SessionBegins, SessionEnds, SessionCancelled, sharedVars, procVars
<1>5. CASE TelemetryArrives
  BY <1>1, <1>5, FramesKnown, TableLine DEF TelemetryArrives
<1>6. CASE AnswerArrives
  <2>1. PICK a \in ctrl.answers :
            /\ LineEnds(IF a = "settings" THEN SettingsMessage ELSE Message("answer"))
            /\ ctrl' = [ctrl EXCEPT !.answers = @ \ {a},
                                    !.changed = IF a = "settings" THEN FALSE ELSE @]
    BY <1>6 DEF AnswerArrives
  <2>2. /\ ctrl'.pid = ctrl.pid /\ ctrl'.stage = ctrl.stage /\ ctrl'.last = ctrl.last
        /\ ctrl'.visited = ctrl.visited
    BY <1>0, <2>1 DEF TypeInv, TypeOK, CtrlType
  <2>3. PICK message \in Messages : LineEnds(message) /\ FrameInv(message.frame)
    BY <1>1, <2>1, FramesKnown
  <2> QED
    BY <2>2, <2>3, TableLine
<1>7. CASE LogFrameArrives
  BY <1>1, <1>7, FramesKnown, TableLine DEF LogFrameArrives
<1>8. CASE Noise
  BY <1>2, <1>8 DEF Noise, sharedVars, procVars
<1>9. CASE DropPartial
  BY <1>2, <1>9 DEF DropPartial, sharedVars, procVars
<1>10. CASE Silence
  BY <1>2, <1>10 DEF Silence, sharedVars, procVars
<1>11. CASE Dispatch
  BY <1>2, <1>11 DEF Dispatch, procVars
<1>12. CASE WakeUp
  BY <1>2, <1>12 DEF WakeUp
<1>13. CASE Update
  BY <1>13, TableUpdate
<1>14. CASE Write
  <2>1. /\ ctrl'.pid = ctrl.pid /\ ctrl'.stage = ctrl.stage /\ ctrl'.last = ctrl.last
        /\ ctrl'.visited = ctrl.visited
    BY <1>0, <1>14 DEF Write, TypeInv, TypeOK, CtrlType
  <2> QED
    BY <1>2, <1>14, <2>1 DEF Write, procVars
<1>15. CASE OtherCommand \/ Defer \/ PutBack \/ LoadSettings \/ CommandEnds \/ RetryFires \/ RetryForgotten
  BY <1>2, <1>15 DEF OtherCommand, Defer, PutBack, LoadSettings, CommandEnds, RetryFires, RetryForgotten, sharedVars, procVars
<1>16. CASE UNCHANGED vars
  BY <1>2, <1>16 DEF vars, sharedVars, procVars
<1> QED
  BY <1>3, <1>4, <1>5, <1>6, <1>7, <1>8, <1>9, <1>10, <1>11, <1>12, <1>13, <1>14, <1>15, <1>16
  DEF Next, Receiver, RectTelemetry, Worker, Retry

\* The table of stages shows one stage as running, and nothing of an earlier process in
\* the present one, whatever frames are lost, repeated or overwritten in the mailbox.
THEOREM TableStaysSound == Spec => []TableSound
<1>1. Init => IInv
  BY TypeInit, TableInit DEF IInv
<1>2. IInv /\ [Next]_vars => IInv'
  BY TypeStep, TableStep DEF IInv
<1>3. IInv => TableSound
  BY DEF IInv, TypeInv, TableInv, TableSound, TableOfThisProcess, Within
<1> QED
  BY <1>1, <1>2, <1>3, PTL DEF Spec
=============================================================================
