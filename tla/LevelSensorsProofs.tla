------------------------- MODULE LevelSensorsProofs -------------------------
(***************************************************************************)
(* Proofs about the level sensors, for any number of them, any wiring, any *)
(* length of debouncing and any order of requests: the types, the count    *)
(* that decides about the pause, and the polarity of a calibrated sensor.  *)
(***************************************************************************)
EXTENDS LevelSensors, FiniteSetTheorems, TLAPS

-----------------------------------------------------------------------------
(* Lines, sensors, commands.                                               *)

LEMMA DrivenType ==
  ASSUME wiring \in [Slots -> Wirings], NEW s \in Slots
  PROVE  /\ Driven(s) \in 0..2
         /\ Read(s) \subseteq Bits
         /\ Reads(s) \subseteq Bits \cup {Failed}
         /\ Probe(s) \in [up: 0..2, down: 0..2]
<1>1. wiring[s] \in Wirings
  OBVIOUS
<1>2. Driven(s) \in 0..2
  BY <1>1 DEF Driven, Wirings
<1>3. Read(s) \subseteq Bits
  BY <1>2 DEF Read, Bits
<1>4. Probe(s) \in [up: 0..2, down: 0..2]
  BY <1>2 DEF Probe, NoProbe
<1> QED
  BY <1>2, <1>3, <1>4 DEF Reads, Failed

LEMMA FirstReadType ==
  ASSUME NEW sensor \in SensorType, NEW active \in BOOLEAN
  PROVE  /\ FirstRead(sensor, active) \in SensorType
         /\ FirstRead(sensor, active).there = sensor.there
         /\ FirstRead(sensor, active).activeLow = sensor.activeLow
<1>1. Debounce \in 0..Debounce
  BY LevelAssumption
<1> QED
  BY <1>1, Zenon DEF FirstRead, SensorType

LEMMA DebouncedType ==
  ASSUME NEW sensor \in SensorType, NEW active \in BOOLEAN
  PROVE  /\ Debounced(sensor, active) \in SensorType
         /\ Debounced(sensor, active).there = sensor.there
         /\ Debounced(sensor, active).activeLow = sensor.activeLow
<1>1. /\ 1 \in 0..Debounce
      /\ sensor.count < Debounce => sensor.count + 1 \in 0..Debounce
  BY LevelAssumption DEF SensorType
<1> QED
  BY <1>1, Zenon DEF Debounced, SensorType

LEMMA ReadValueType ==
  ASSUME NEW sensor \in SensorType, NEW raw \in Bits \cup {Failed}
  PROVE  /\ ReadValue(sensor, raw) \in SensorType
         /\ ReadValue(sensor, raw).there = sensor.there
         /\ ReadValue(sensor, raw).activeLow = sensor.activeLow
<1>1. Active(sensor.activeLow, raw) \in BOOLEAN
  BY DEF Active
<1> QED
  BY <1>1, FirstReadType, DebouncedType DEF ReadValue

LEMMA NewSensorType ==
  ASSUME NEW slot \in SlotType, NEW raw \in Bits \cup {Failed}
  PROVE  /\ NoSensor \in SensorType
         /\ Initialized(slot, raw) \in SensorType
         /\ Initialized(slot, raw).activeLow = slot.activeLow
<1>1. Debounce \in Nat \ {0}
  BY LevelAssumption
<1>2. NoSensor \in SensorType
  BY <1>1 DEF NoSensor, SensorType
<1> DEFINE fresh == [NoSensor EXCEPT !.there = TRUE, !.activeLow = slot.activeLow]
<1>3. fresh \in SensorType /\ fresh.activeLow = slot.activeLow
  BY <1>2 DEF SensorType, SlotType
<1> HIDE DEF fresh
<1>4. ReadValue(fresh, raw) \in SensorType /\ ReadValue(fresh, raw).activeLow = fresh.activeLow
  BY <1>3, ReadValueType
<1> QED
  BY <1>2, <1>3, <1>4 DEF Initialized, fresh

LEMMA CalibratedType ==
  ASSUME NEW sensor \in SensorType, NEW low \in BOOLEAN, NEW raw \in Bits \cup {Failed}
  PROVE  /\ Calibrated(sensor, low, raw) \in SensorType
         /\ Calibrated(sensor, low, raw).there = sensor.there
         /\ Calibrated(sensor, low, raw).activeLow = low
<1> DEFINE turned == [sensor EXCEPT !.activeLow = low]
<1>1. Active(low, raw) \in BOOLEAN
  BY DEF Active
<1>2. turned \in SensorType /\ turned.there = sensor.there /\ turned.activeLow = low
  BY DEF SensorType
<1>3. [sensor EXCEPT !.activeLow = low, !.valid = FALSE] \in SensorType
  BY DEF SensorType
<1>4. CASE raw = Failed
  BY <1>3, <1>4 DEF Calibrated, SensorType
<1>5. CASE raw # Failed
  <2> HIDE DEF turned
  <2> QED
    BY <1>1, <1>2, <1>5, FirstReadType DEF Calibrated, turned
<1> QED
  BY <1>4, <1>5

LEMMA PutType ==
  ASSUME NEW q \in Queues, NEW c \in Orders
  PROVE  Put(q, c) \in Queues
BY LevelAssumption DEF Put, Queues

LEMMA TakenType ==
  ASSUME NEW q \in Queues, q # <<>>
  PROVE  Head(q) \in Orders /\ Tail(q) \in Queues
<1>1. Len(q) \in Nat /\ Len(Tail(q)) = Len(q) - 1 /\ Tail(q) \in Seq(Orders) /\ Head(q) \in Orders
  BY DEF Queues
<1> QED
  BY <1>1, LevelAssumption DEF Queues

LEMMA SpendType ==
  ASSUME left \in Bounds, NEW what \in {"tides", "requests", "orders", "misses"}, Spend(what)
  PROVE  left' \in Bounds
BY DEF Spend, Bounds

LEMMA DoesType ==
  ASSUME NEW c, NEW state \in ProcessStates
  PROVE  Does(c, state) \in ProcessStates
BY DEF Does, ProcessStates

\* The probe of a step is kept for lines of the board only, and says 0 or 1.
ProbesKept ==
    \A s \in Slots : probes[s] = NoProbe \/ (~OnExpander(s) /\ probes[s] \in [up: Bits, down: Bits])

LEMMA ProbeOfBoard ==
  ASSUME wiring \in [Slots -> Wirings], NEW s \in Slots
  PROVE  Probe(s) = NoProbe \/ (~OnExpander(s) /\ Probe(s) \in [up: Bits, down: Bits])
<1>1. Driven(s) \in 0..2
  BY DrivenType
<1> QED
  BY <1>1 DEF Probe, Bits

LEMMA LevelsType ==
  ASSUME TypeOK, ProbesKept, NEW s \in Slots, NEW raw \in Read(s)
  PROVE  Levels(s, raw).dry \in Bits /\ Levels(s, raw).wet \in Bits
<1>1. raw \in Bits /\ config[s].dry \in Bits
  BY DrivenType DEF TypeOK, SlotType
<1>2. CASE probes[s] = NoProbe
  BY <1>1, <1>2 DEF Levels
<1>3. CASE probes[s] # NoProbe
  <2>1. ~OnExpander(s) /\ probes[s] \in [up: Bits, down: Bits]
    BY <1>3 DEF ProbesKept
  <2>2. Probe(s) \in [up: Bits, down: Bits]
    <3>1. Driven(s) \in 0..2
      BY DrivenType DEF TypeOK
    <3> QED
      BY <2>1, <3>1 DEF Probe, Bits
  <2> QED
    BY <1>1, <2>1, <2>2 DEF Levels
<1> QED
  BY <1>2, <1>3

-----------------------------------------------------------------------------
(* Types.                                                                  *)

TypeInv == TypeOK /\ ProbesKept

LEMMA TypeInit == Init => TypeInv
<1> SUFFICES ASSUME Init PROVE TypeInv
  OBVIOUS
<1>1. PICK setup \in Setups :
        /\ wiring = setup.wiring /\ options = setup.options /\ left = setup.left
        /\ config = [s \in Slots |-> [NewSlot EXCEPT !.enabled = s \in setup.used]]
  BY DEF Init
<1>2. wiring \in [Slots -> Wirings] /\ options \in Options /\ left \in Bounds
  BY <1>1, LevelAssumption
<1>3. config \in [Slots -> SlotType]
  <2>1. \A b \in BOOLEAN : [NewSlot EXCEPT !.enabled = b] \in SlotType
    BY DEF NewSlot, SlotType, Bits
  <2>2. \A s \in Slots : (s \in setup.used) \in BOOLEAN
    OBVIOUS
  <2>3. \A s \in Slots : [NewSlot EXCEPT !.enabled = s \in setup.used] \in SlotType
    BY <2>1, <2>2, Zenon
  <2> QED
    BY <1>1, <2>3, Zenon
<1>4. sensors \in [Slots -> SensorType]
  BY LevelAssumption DEF Init, NoSensor, SensorType
<1>5. /\ liquid \in [Slots -> BOOLEAN]
      /\ probes \in [Slots -> [up: 0..2, down: 0..2]]
      /\ taught \in [Slots -> SUBSET {"dry", "wet"}]
      /\ \A s \in Slots : probes[s] = NoProbe
  BY DEF Init, NoProbe
<1>6. commands \in Queues
  BY LevelAssumption DEF Init, Queues
<1>7. sub \in SubType
  BY DEF Init, Off, SubType
<1>8. TypeOK
  BY <1>2, <1>3, <1>4, <1>5, <1>6, <1>7 DEF TypeOK, Init, ProcessStates
<1> QED
  BY <1>5, <1>8 DEF TypeInv, ProbesKept

\* What a step reads, of the right type.
LEMMA PartsTyped ==
  ASSUME TypeInv
  PROVE  /\ wiring \in [Slots -> Wirings] /\ config \in [Slots -> SlotType]
         /\ sensors \in [Slots -> SensorType] /\ sub \in SubType
         /\ commands \in Queues /\ left \in Bounds /\ silent \subseteq Slots
         /\ ctrl \in ProcessStates /\ shown \in ProcessStates
         /\ \A s \in Slots : Reads(s) \subseteq Bits \cup {Failed} /\ Read(s) \subseteq Bits
BY DrivenType DEF TypeInv, TypeOK

\* A step that leaves lines and probes alone leaves them kept.
LEMMA ProbesStay ==
  ASSUME ProbesKept, UNCHANGED <<wiring, probes>>
  PROVE  ProbesKept'
BY DEF ProbesKept, OnExpander

LEMMA PollTyped ==
  ASSUME TypeInv, NEW s \in Slots, Poll(s)
  PROVE  TypeInv'
<1>0. /\ sensors \in [Slots -> SensorType] /\ sub \in SubType /\ commands \in Queues
      /\ left \in Bounds /\ silent \subseteq Slots
  BY PartsTyped
<1>1. PICK raw \in Reads(s) : PollReads(s, raw)
  BY DEF Poll
<1>2. sensors' \in [Slots -> SensorType]
  <2>1. sensors' = [sensors EXCEPT ![s] = ReadValue(sensors[s], raw)]
    BY <1>1 DEF PollReads
  <2>2. ReadValue(sensors[s], raw) \in SensorType
    BY <1>0, PartsTyped, ReadValueType
  <2> QED
    BY <1>0, <2>1, <2>2
<1>3. \A c \in {"stop", "pause", "resume"} : Put(commands, c) \in Queues
  BY <1>0, PutType DEF Orders
<1>4. ASSUME NEW seen, Snapshot(seen)
      PROVE  left' \in Bounds
  BY <1>0, <1>4, SpendType DEF Snapshot
<1>5. ASSUME NEW seen, Rises(seen)
      PROVE  sub' \in SubType /\ commands' \in Queues
  <2> DEFINE one == sub.alerts + 1
             owns == sub.owns \/ (options.trigger = "pause" /\ seen = "running")
  <2>1. one \in Nat /\ owns \in BOOLEAN
    BY <1>0 DEF SubType
  <2>2. sub' = [sub EXCEPT !.alerts = one, !.owns = owns]
    BY <1>5, Zenon DEF Rises
  <2>3. commands' \in {commands, Put(commands, "stop"), Put(commands, "pause")}
    BY <1>5, Zenon DEF Rises
  <2> HIDE DEF one, owns
  <2>4. sub' \in SubType
    BY <1>0, <2>1, <2>2 DEF SubType
  <2> QED
    BY <1>0, <1>3, <2>3, <2>4
<1>6. ASSUME NEW seen, Falls(seen)
      PROVE  sub' \in SubType /\ commands' \in Queues
  <2> DEFINE rest == IF sub.alerts > 0 THEN sub.alerts - 1 ELSE 0
             ends == rest = 0 /\ sub.owns
  <2>1. rest \in Nat /\ ends \in BOOLEAN /\ (sub.owns /\ ~ends) \in BOOLEAN
    BY <1>0 DEF SubType
  <2>2. /\ sub' = [sub EXCEPT !.alerts = rest, !.owns = @ /\ ~ends]
        /\ commands' = IF ends /\ seen = "paused" THEN Put(commands, "resume") ELSE commands
    BY <1>6, Zenon DEF Falls
  <2> HIDE DEF rest, ends
  <2>3. sub' \in SubType
    BY <1>0, <2>1, <2>2 DEF SubType
  <2> QED
    BY <1>0, <1>3, <2>2, <2>3
<1>7. sub' \in SubType /\ commands' \in Queues /\ left' \in Bounds /\ silent' \subseteq Slots
  BY <1>0, <1>1, <1>4, <1>5, <1>6 DEF PollReads
<1>8. ProbesKept'
  BY <1>1, ProbesStay DEF PollReads, physical, TypeInv
<1> QED
  BY <1>1, <1>2, <1>7, <1>8 DEF PollReads, TypeInv, TypeOK, physical

LEMMA WithoutLiquidTyped ==
  ASSUME TypeInv, NEW s \in Slots, WithoutLiquid(s)
  PROVE  TypeInv'
<1>0. wiring \in [Slots -> Wirings] /\ config \in [Slots -> SlotType] /\ left \in Bounds
  BY PartsTyped
<1>1. left' \in Bounds
  BY <1>0, SpendType DEF WithoutLiquid
<1>2. probes' = [probes EXCEPT ![s] = Probe(s)] /\ UNCHANGED wiring
  BY DEF WithoutLiquid, physical
<1>3. probes' \in [Slots -> [up: 0..2, down: 0..2]]
  BY <1>0, <1>2, DrivenType DEF TypeInv, TypeOK
<1>4. ProbesKept'
  BY <1>0, <1>2, ProbeOfBoard DEF TypeInv, TypeOK, ProbesKept, OnExpander
<1>5. config' \in [Slots -> SlotType]
  <2>1. \A raw \in Read(s) : raw \in Bits
    BY PartsTyped
  <2>2. CASE UNCHANGED config
    BY <1>0, <2>2
  <2>3. ASSUME NEW raw \in Read(s),
               config' = [config EXCEPT ![s].dry = raw, ![s].calibrated = FALSE]
        PROVE  config' \in [Slots -> SlotType]
    <3>1. config[s] \in SlotType /\ raw \in Bits
      BY <1>0, <2>1
    <3>2. [config[s] EXCEPT !.dry = raw, !.calibrated = FALSE] \in SlotType
      BY <3>1 DEF SlotType
    <3>3. config' = [config EXCEPT ![s] = [config[s] EXCEPT !.dry = raw, !.calibrated = FALSE]]
      BY <2>3, Zenon
    <3> QED
      BY <1>0, <3>2, <3>3
  <2> QED
    BY <2>2, <2>3, Zenon DEF WithoutLiquid
<1>6. taught' \in [Slots -> SUBSET {"dry", "wet"}]
  <2>1. \E told \in {{}, {"dry"}} : taught' = [taught EXCEPT ![s] = told]
    BY DEF WithoutLiquid
  <2> QED
    BY <2>1 DEF TypeInv, TypeOK
<1> QED
  BY <1>1, <1>3, <1>4, <1>5, <1>6 DEF WithoutLiquid, TypeInv, TypeOK, physical, processVars

\* What the second step writes: the levels it tells apart, in the slot and in the sensor.
LEMMA WithLiquidWrites ==
  ASSUME TypeInv, NEW s \in Slots, WithLiquid(s)
  PROVE  \E dry \in Bits, wet \in Bits, again \in Reads(s) :
            /\ config' = [config EXCEPT ![s].dry = dry, ![s].wet = wet,
                                        ![s].activeLow = (wet = 0), ![s].calibrated = TRUE]
            /\ sensors' = [sensors EXCEPT ![s] = Calibrated(sensors[s], wet = 0, again)]
            /\ silent' = IF Calibrated(sensors[s], wet = 0, again).filled # sensors[s].filled
                         THEN silent \cup {s} ELSE silent
            /\ \E raw \in Read(s) : wet = Levels(s, raw).wet /\ wet # Levels(s, raw).dry
<1>1. PICK raw \in Read(s), again \in Reads(s) :
        LET dry == Levels(s, raw).dry
            wet == Levels(s, raw).wet
        IN /\ config' = [config EXCEPT ![s].dry = dry, ![s].wet = wet,
                                       ![s].activeLow = (wet = 0), ![s].calibrated = TRUE]
           /\ sensors' = [sensors EXCEPT ![s] = Calibrated(sensors[s], wet = 0, again)]
           /\ silent' = IF Calibrated(sensors[s], wet = 0, again).filled # sensors[s].filled
                        THEN silent \cup {s} ELSE silent
           /\ wet # dry
  BY Zenon DEF WithLiquid, ActiveLow
<1>2. Levels(s, raw).dry \in Bits /\ Levels(s, raw).wet \in Bits
  BY LevelsType DEF TypeInv
<1> QED
  BY <1>1, <1>2, Zenon

LEMMA WithLiquidTyped ==
  ASSUME TypeInv, NEW s \in Slots, WithLiquid(s)
  PROVE  TypeInv'
<1>0. /\ config \in [Slots -> SlotType] /\ sensors \in [Slots -> SensorType]
      /\ left \in Bounds /\ silent \subseteq Slots
  BY PartsTyped
<1>1. left' \in Bounds
  BY <1>0, SpendType DEF WithLiquid
<1>2. PICK dry \in Bits, wet \in Bits, again \in Reads(s) :
        /\ config' = [config EXCEPT ![s].dry = dry, ![s].wet = wet,
                                    ![s].activeLow = (wet = 0), ![s].calibrated = TRUE]
        /\ sensors' = [sensors EXCEPT ![s] = Calibrated(sensors[s], wet = 0, again)]
        /\ silent' = IF Calibrated(sensors[s], wet = 0, again).filled # sensors[s].filled
                     THEN silent \cup {s} ELSE silent
        /\ \E raw \in Read(s) : wet = Levels(s, raw).wet /\ wet # Levels(s, raw).dry
  BY WithLiquidWrites, Zenon
<1> DEFINE low == wet = 0
<1>3. low \in BOOLEAN
  OBVIOUS
<1>4. config' \in [Slots -> SlotType]
  <2>1. config' = [config EXCEPT ![s] =
          [config[s] EXCEPT !.dry = dry, !.wet = wet, !.activeLow = low, !.calibrated = TRUE]]
    BY <1>2, Zenon
  <2>2. config[s] \in SlotType
    BY <1>0
  <2> HIDE DEF low
  <2>3. [config[s] EXCEPT !.dry = dry, !.wet = wet, !.activeLow = low, !.calibrated = TRUE] \in SlotType
    BY <1>3, <2>2 DEF SlotType
  <2> QED
    BY <1>0, <2>1, <2>3
<1>5. sensors' \in [Slots -> SensorType]
  <2>1. sensors' = [sensors EXCEPT ![s] = Calibrated(sensors[s], low, again)]
    BY <1>2, Zenon
  <2> HIDE DEF low
  <2>2. Calibrated(sensors[s], low, again) \in SensorType
    BY <1>0, <1>3, PartsTyped, CalibratedType
  <2> QED
    BY <1>0, <2>1, <2>2
<1>6. silent' \subseteq Slots
  BY <1>0, <1>2
<1>7. taught' \in [Slots -> SUBSET {"dry", "wet"}]
  BY DEF WithLiquid, TypeInv, TypeOK
<1>8. ProbesKept'
  BY ProbesStay DEF WithLiquid, physical, TypeInv
<1> QED
  BY <1>1, <1>4, <1>5, <1>6, <1>7, <1>8 DEF WithLiquid, TypeInv, TypeOK, physical, processVars

LEMMA AutocheckedType ==
  ASSUME NEW slot \in SlotType
  PROVE  Autochecked(slot) \in SlotType /\ Autochecked(slot).activeLow = slot.activeLow
<1>1. (slot.calibrated /\ ~(slot.enabled /\ slot.dry = slot.wet)) \in BOOLEAN
  BY DEF SlotType
<1> QED
  BY <1>1, Zenon DEF Autochecked, SlotType

\* A sensor comes to life with the polarity of its slot; one that lives stays as it is.
LEMMA EnableWrites ==
  ASSUME TypeInv, Enable
  PROVE  /\ config' \in [Slots -> SlotType]
         /\ \A s \in Slots : config'[s] = Autochecked(config[s])
         /\ sensors' \in [Slots -> SensorType]
         /\ \A s \in Slots :
              \/ sensors'[s] = sensors[s]
              \/ /\ ~sensors[s].there
                 /\ sensors'[s].activeLow = config'[s].activeLow
<1>0. config \in [Slots -> SlotType] /\ sensors \in [Slots -> SensorType]
  BY PartsTyped
<1>1. config' = [s \in Slots |-> Autochecked(config[s])]
  BY DEF Enable
<1>2. config' \in [Slots -> SlotType]
  BY <1>0, <1>1, AutocheckedType
<1>3. PICK raw \in [Slots -> Bits \cup {Failed}] :
        sensors' = [s \in Slots |->
          IF config'[s].enabled /\ ~sensors[s].there THEN Initialized(config'[s], raw[s])
          ELSE sensors[s]]
  BY DEF Enable
<1>4. \A s \in Slots : /\ Initialized(config'[s], raw[s]) \in SensorType
                       /\ Initialized(config'[s], raw[s]).activeLow = config'[s].activeLow
  BY <1>2, NewSensorType
<1> QED
  BY <1>0, <1>1, <1>2, <1>3, <1>4

LEMMA SwitchTyped ==
  ASSUME TypeInv, Enable \/ Disable \/ TaskEnds
  PROVE  TypeInv'
<1>0. sub \in SubType /\ left \in Bounds /\ silent \subseteq Slots
  BY PartsTyped
<1>1. CASE Enable
  <2>1. sub' = [sub EXCEPT !.on = TRUE, !.wasRunning = FALSE, !.stop = FALSE, !.tasks = @ + 1]
    BY <1>1 DEF Enable
  <2>2. sub' \in SubType
    <3>1. sub.tasks + 1 \in Nat
      BY <1>0 DEF SubType
    <3> QED
      BY <1>0, <2>1, <3>1, Zenon DEF SubType
  <2>3. ProbesKept'
    BY <1>1, ProbesStay DEF Enable, physical, TypeInv
  <2>4. silent' \subseteq Slots /\ due' \in {"none", "armed", "due"}
    BY <1>0, <1>1 DEF Enable
  <2> QED
    BY <1>1, <2>2, <2>3, <2>4, EnableWrites DEF Enable, TypeInv, TypeOK, physical, processVars
<1>2. CASE Disable
  <2>1. left' \in Bounds
    BY <1>0, <1>2, SpendType DEF Disable
  <2>2. sub' = [sub EXCEPT !.on = FALSE, !.stop = TRUE, !.alerts = 0, !.owns = FALSE,
                           !.wasRunning = FALSE]
    BY <1>2 DEF Disable
  <2>3. sub' \in SubType
    BY <1>0, <2>2 DEF SubType
  <2>4. ProbesKept'
    BY <1>2, ProbesStay DEF Disable, physical, TypeInv
  <2>5. silent' \subseteq Slots
    BY <1>0, <1>2 DEF Disable
  <2> QED
    BY <1>2, <2>1, <2>3, <2>4, <2>5 DEF Disable, TypeInv, TypeOK, physical, processVars
<1>3. CASE TaskEnds
  <2>1. sub.tasks > 0 /\ sub' = [sub EXCEPT !.tasks = @ - 1]
    BY <1>3 DEF TaskEnds
  <2>2. sub' \in SubType
    BY <1>0, <2>1 DEF SubType
  <2>3. ProbesKept'
    BY <1>3, ProbesStay DEF TaskEnds, physical, TypeInv
  <2> QED
    BY <1>3, <2>2, <2>3 DEF TaskEnds, TypeInv, TypeOK, physical, processVars, history
<1> QED
  BY <1>1, <1>2, <1>3

LEMMA RestartTyped ==
  ASSUME TypeInv, Restart
  PROVE  TypeInv'
<1>0. config \in [Slots -> SlotType] /\ left \in Bounds
  BY PartsTyped
<1>1. left' \in Bounds
  BY <1>0, SpendType DEF Restart
<1>2. config' \in [Slots -> SlotType]
  <2>1. \A slot \in SlotType : Loaded(slot) \in SlotType
    BY DEF Loaded, SlotType, Bits
  <2> QED
    BY <1>0, <2>1 DEF Restart
<1>3. sensors' \in [Slots -> SensorType]
  <2>1. NoSensor \in SensorType
    BY LevelAssumption DEF NoSensor, SensorType
  <2> QED
    BY <2>1 DEF Restart
<1>4. /\ probes' \in [Slots -> [up: 0..2, down: 0..2]]
      /\ taught' \in [Slots -> SUBSET {"dry", "wet"}]
      /\ silent' \subseteq Slots
  BY DEF Restart, NoProbe
<1>5. ProbesKept'
  BY DEF Restart, ProbesKept
<1>6. sub' \in SubType
  BY DEF Restart, Off, SubType
<1>7. commands' \in Queues
  BY LevelAssumption DEF Restart, Queues
<1> QED
  BY <1>1, <1>2, <1>3, <1>4, <1>5, <1>6, <1>7 DEF Restart, TypeInv, TypeOK, physical, ProcessStates

LEMMA RequestsTyped ==
  ASSUME TypeInv, PutOptions \/ \E s \in Slots : PutSlot(s) \/ LiquidMoves(s)
  PROVE  TypeInv'
<1>0. config \in [Slots -> SlotType] /\ left \in Bounds
  BY PartsTyped
<1>1. CASE PutOptions
  <2>1. left' \in Bounds /\ ProbesKept'
    BY <1>0, <1>1, SpendType, ProbesStay DEF PutOptions, physical, TypeInv
  <2> QED
    BY <1>1, <2>1 DEF PutOptions, TypeInv, TypeOK, physical, processVars, history
<1>2. ASSUME NEW s \in Slots, PutSlot(s)
      PROVE  TypeInv'
  <2>1. left' \in Bounds /\ ProbesKept'
    BY <1>0, <1>2, SpendType, ProbesStay DEF PutSlot, physical, TypeInv
  <2>2. config' \in [Slots -> SlotType]
    <3>1. config' = [config EXCEPT ![s].enabled = ~@, ![s].calibrated = FALSE, ![s].activeLow = TRUE]
      BY <1>2 DEF PutSlot
    <3>2. config[s] \in SlotType /\ (~config[s].enabled) \in BOOLEAN
      BY <1>0
    <3>3. [config[s] EXCEPT !.enabled = ~@, !.calibrated = FALSE, !.activeLow = TRUE] \in SlotType
      BY <3>2 DEF SlotType
    <3> QED
      BY <1>0, <3>1, <3>3
  <2> QED
    BY <1>2, <2>1, <2>2 DEF PutSlot, TypeInv, TypeOK, physical, processVars, history
<1>3. ASSUME NEW s \in Slots, LiquidMoves(s)
      PROVE  TypeInv'
  <2>1. left' \in Bounds /\ ProbesKept'
    BY <1>0, <1>3, SpendType, ProbesStay DEF LiquidMoves, levelVars, TypeInv
  <2>2. liquid' \in [Slots -> BOOLEAN]
    BY <1>3 DEF LiquidMoves, TypeInv, TypeOK
  <2> QED
    BY <1>3, <2>1, <2>2 DEF LiquidMoves, TypeInv, TypeOK, levelVars, processVars, history
<1> QED
  BY <1>1, <1>2, <1>3

LEMMA ProcessTyped ==
  ASSUME TypeInv, Watch \/ CtrlTakes \/ Telemetry \/ \E c \in UserCommands : UserAsks(c) \/ UserPresses(c)
  PROVE  TypeInv'
<1>0. /\ sub \in SubType /\ commands \in Queues /\ left \in Bounds
      /\ ctrl \in ProcessStates /\ shown \in ProcessStates
  BY PartsTyped
<1>1. CASE Watch
  <2>1. sub' = [sub EXCEPT !.wasRunning = (shown = "running")]
    BY <1>1 DEF Watch, SeenRunning
  <2>2. sub' \in SubType
    BY <1>0, <2>1 DEF SubType
  <2>3. ProbesKept'
    BY <1>1, ProbesStay DEF Watch, physical, TypeInv
  <2>4. due' \in {"none", "armed", "due"}
    BY <1>1 DEF Watch, TypeInv, TypeOK
  <2> QED
    BY <1>1, <2>2, <2>3, <2>4 DEF Watch, TypeInv, TypeOK, physical, processVars
<1>2. CASE CtrlTakes
  <2>1. ctrl' \in ProcessStates /\ commands' \in Queues /\ ProbesKept'
    BY <1>0, <1>2, TakenType, DoesType, ProbesStay DEF CtrlTakes, physical, levelVars, TypeInv
  <2> QED
    BY <1>2, <2>1 DEF CtrlTakes, TypeInv, TypeOK, physical, levelVars, history
<1>3. CASE Telemetry
  <2>1. due' \in {"none", "armed", "due"}
    BY <1>3 DEF Telemetry, TypeInv, TypeOK
  <2>2. ProbesKept'
    BY <1>3, ProbesStay DEF Telemetry, physical, levelVars, TypeInv
  <2> QED
    BY <1>0, <1>3, <2>1, <2>2 DEF Telemetry, TypeInv, TypeOK, physical, levelVars
<1>4. ASSUME NEW c \in UserCommands, UserAsks(c)
      PROVE  TypeInv'
  <2>1. commands' \in Queues /\ left' \in Bounds
    BY <1>0, <1>4, PutType, SpendType DEF UserAsks, Orders
  <2>2. ProbesKept'
    BY <1>4, ProbesStay DEF UserAsks, physical, levelVars, TypeInv
  <2> QED
    BY <1>4, <2>1, <2>2 DEF UserAsks, TypeInv, TypeOK, physical, levelVars, history
<1>5. ASSUME NEW c \in UserCommands, UserPresses(c)
      PROVE  TypeInv'
  <2>1. ctrl' \in ProcessStates /\ left' \in Bounds
    BY <1>0, <1>5, DoesType, SpendType DEF UserPresses
  <2>2. ProbesKept'
    BY <1>5, ProbesStay DEF UserPresses, physical, levelVars, TypeInv
  <2> QED
    BY <1>5, <2>1, <2>2 DEF UserPresses, TypeInv, TypeOK, physical, levelVars, history
<1> QED
  BY <1>1, <1>2, <1>3, <1>4, <1>5

LEMMA TypeStep == TypeInv /\ [Next]_vars => TypeInv'
<1> SUFFICES ASSUME TypeInv, [Next]_vars PROVE TypeInv'
  OBVIOUS
<1>1. CASE UNCHANGED vars
  BY <1>1 DEF vars, physical, levelVars, processVars, history, TypeInv, TypeOK, ProbesKept, OnExpander
<1>2. CASE Next
  BY <1>2, PollTyped, WithoutLiquidTyped, WithLiquidTyped, SwitchTyped, RestartTyped, RequestsTyped,
     ProcessTyped DEF Next
<1> QED
  BY <1>1, <1>2

\* Every variable keeps its type, the count of debouncing its bound and the queue of commands
\* its length, for any sensors, wiring and requests (Xkc25Subsystem.cpp, Xkc25Sensor.cpp).
THEOREM LevelTypeCorrect == Spec => []TypeOK
<1>1. TypeInv => TypeOK
  BY DEF TypeInv
<1> QED
  BY TypeInit, TypeStep, <1>1, PTL DEF Spec

-----------------------------------------------------------------------------
(* The count of the sensors that signal liquid.                            *)

Filled == {s \in Slots : sensors[s].filled}

\* Only a sensor that was brought to life says anything.
AbsentSilent == \A s \in Slots : ~sensors[s].there => ~sensors[s].filled

AlertInv == TypeInv /\ AbsentSilent /\ AlertsExact

LEMMA FilledFinite == IsFiniteSet(Filled) /\ IsFiniteSet(Filled') /\ Cardinality(Filled) \in Nat
BY LevelAssumption, FS_Subset, FS_CardinalityType DEF Filled

\* A step in which one sensor speaks anew moves the set by that sensor at most.
LEMMA OneSensorMoves ==
  ASSUME NEW s \in Slots, sensors \in [Slots -> SensorType], NEW next \in SensorType,
         sensors' = [sensors EXCEPT ![s] = next]
  PROVE  /\ next.filled = sensors[s].filled => Filled' = Filled
         /\ next.filled /\ ~sensors[s].filled =>
                Filled' = Filled \cup {s} /\ Cardinality(Filled') = Cardinality(Filled) + 1
         /\ ~next.filled /\ sensors[s].filled =>
                Filled' = Filled \ {s} /\ Cardinality(Filled') = Cardinality(Filled) - 1
                /\ Cardinality(Filled) > 0
<1>0. sensors[s].filled \in BOOLEAN /\ next.filled \in BOOLEAN
  BY DEF SensorType
<1>1. \A t \in Slots : sensors'[t] = IF t = s THEN next ELSE sensors[t]
  OBVIOUS
<1>2. next.filled = sensors[s].filled => Filled' = Filled
  BY <1>1 DEF Filled
<1>3. CASE next.filled /\ ~sensors[s].filled
  <2>1. Filled' = Filled \cup {s} /\ s \notin Filled
    BY <1>1, <1>3 DEF Filled
  <2>2. Cardinality(Filled \cup {s}) = Cardinality(Filled) + 1
    BY <2>1, FilledFinite, FS_AddElement
  <2> QED
    BY <1>2, <1>3, <2>1, <2>2
<1>4. CASE ~next.filled /\ sensors[s].filled
  <2>1. Filled' = Filled \ {s} /\ s \in Filled
    BY <1>1, <1>4 DEF Filled
  <2>2. Cardinality(Filled \ {s}) = Cardinality(Filled) - 1
    BY <2>1, FilledFinite, FS_RemoveElement
  <2>3. Cardinality(Filled \ {s}) \in Nat
    BY <2>1, FilledFinite, FS_CardinalityType
  <2>4. Cardinality(Filled) > 0
    BY <2>2, <2>3, FilledFinite
  <2> QED
    BY <1>2, <1>4, <2>1, <2>2, <2>4
<1> QED
  BY <1>0, <1>2, <1>3, <1>4

LEMMA AlertInit == Init => AlertInv
<1> SUFFICES ASSUME Init PROVE AlertInv
  OBVIOUS
<1>1. \A s \in Slots : sensors[s] = NoSensor
  BY DEF Init
<1>2. AbsentSilent /\ Filled = {}
  BY <1>1 DEF AbsentSilent, Filled, NoSensor
<1>3. Cardinality({s \in Slots : sensors[s].filled}) = 0
  BY <1>2, FS_EmptySet DEF Filled
<1>4. sub.alerts = 0
  BY DEF Init, Off
<1> QED
  BY <1>2, <1>3, <1>4, TypeInit DEF AlertInv, AlertsExact

LEMMA PollCounts ==
  ASSUME AlertInv, NEW s \in Slots, Poll(s)
  PROVE  AbsentSilent' /\ AlertsExact'
<1>0. TypeInv /\ sensors \in [Slots -> SensorType] /\ sub \in SubType
  BY PartsTyped DEF AlertInv
<1>1. PICK raw \in Reads(s) : PollReads(s, raw)
  BY DEF Poll
<1> DEFINE was == sensors[s]
           next == ReadValue(was, raw)
<1>2. next \in SensorType /\ next.there = was.there
  BY <1>0, PartsTyped, ReadValueType
<1>3. sensors' = [sensors EXCEPT ![s] = next] /\ was.there
  BY <1>1 DEF PollReads
<1>4. \/ /\ next.filled /\ ~was.filled /\ UNCHANGED silent
         /\ \E seen \in {shown, "unknown"} : Rises(seen)
      \/ /\ ~next.filled /\ was.filled /\ UNCHANGED silent
         /\ \E seen \in {shown, "unknown"} : Falls(seen)
      \/ /\ silent' = IF next.filled # was.filled THEN silent \cup {s} ELSE silent
         /\ UNCHANGED sub
  BY <1>1, Zenon DEF PollReads
<1> HIDE DEF next
<1>5. AbsentSilent'
  BY <1>0, <1>2, <1>3 DEF AbsentSilent, AlertInv
<1>6. silent = {} => sub.alerts = Cardinality(Filled)
  BY DEF AlertInv, AlertsExact, Filled
<1>7. sub.alerts \in Nat /\ Cardinality(Filled) \in Nat
  BY <1>0, FilledFinite DEF SubType
<1>8. silent' = {} => sub'.alerts = Cardinality(Filled')
  <2>1. CASE next.filled /\ ~was.filled /\ silent' = silent /\ sub'.alerts = sub.alerts + 1
    BY <1>0, <1>2, <1>3, <1>6, <1>7, <2>1, OneSensorMoves
  <2>2. CASE /\ ~next.filled /\ was.filled /\ silent' = silent
             /\ sub'.alerts = IF sub.alerts > 0 THEN sub.alerts - 1 ELSE 0
    BY <1>0, <1>2, <1>3, <1>6, <1>7, <2>2, OneSensorMoves
  <2>3. CASE silent' = (IF next.filled # was.filled THEN silent \cup {s} ELSE silent) /\ UNCHANGED sub
    BY <1>0, <1>2, <1>3, <1>6, <2>3, OneSensorMoves
  <2>4. ASSUME NEW seen, Rises(seen)
        PROVE  sub'.alerts = sub.alerts + 1
    <3> DEFINE one == sub.alerts + 1
               owns == sub.owns \/ (options.trigger = "pause" /\ seen = "running")
    <3>1. sub' = [sub EXCEPT !.alerts = one, !.owns = owns]
      BY <2>4, Zenon DEF Rises
    <3> HIDE DEF owns
    <3> QED
      BY <1>0, <3>1 DEF SubType
  <2>5. ASSUME NEW seen, Falls(seen)
        PROVE  sub'.alerts = IF sub.alerts > 0 THEN sub.alerts - 1 ELSE 0
    <3> DEFINE rest == IF sub.alerts > 0 THEN sub.alerts - 1 ELSE 0
               owns == sub.owns /\ ~(rest = 0 /\ sub.owns)
    <3>1. sub' = [sub EXCEPT !.alerts = rest, !.owns = owns]
      BY <2>5, Zenon DEF Falls
    <3> HIDE DEF owns
    <3> QED
      BY <1>0, <3>1 DEF SubType
  <2> QED
    BY <1>4, <2>1, <2>2, <2>3, <2>4, <2>5
<1> QED
  BY <1>5, <1>8 DEF AlertsExact, Filled

LEMMA WithLiquidCounts ==
  ASSUME AlertInv, NEW s \in Slots, WithLiquid(s)
  PROVE  AbsentSilent' /\ AlertsExact'
<1>0. TypeInv /\ sensors \in [Slots -> SensorType]
  BY PartsTyped DEF AlertInv
<1>1. PICK dry \in Bits, wet \in Bits, again \in Reads(s) :
        /\ config' = [config EXCEPT ![s].dry = dry, ![s].wet = wet,
                                    ![s].activeLow = (wet = 0), ![s].calibrated = TRUE]
        /\ sensors' = [sensors EXCEPT ![s] = Calibrated(sensors[s], wet = 0, again)]
        /\ silent' = IF Calibrated(sensors[s], wet = 0, again).filled # sensors[s].filled
                     THEN silent \cup {s} ELSE silent
        /\ \E raw \in Read(s) : wet = Levels(s, raw).wet /\ wet # Levels(s, raw).dry
  BY <1>0, WithLiquidWrites, Zenon
<1> DEFINE low == wet = 0
           next == Calibrated(sensors[s], low, again)
<1>2. low \in BOOLEAN
  OBVIOUS
<1>3. /\ sensors' = [sensors EXCEPT ![s] = next]
      /\ silent' = IF next.filled # sensors[s].filled THEN silent \cup {s} ELSE silent
  BY <1>1, Zenon
<1> HIDE DEF low
<1>4. next \in SensorType /\ next.there = sensors[s].there
  BY <1>0, <1>2, PartsTyped, CalibratedType
<1> HIDE DEF next
<1>5. sensors[s].there /\ UNCHANGED sub
  BY DEF WithLiquid
<1>6. AbsentSilent'
  BY <1>0, <1>3, <1>4, <1>5 DEF AbsentSilent, AlertInv
<1>7. silent' = {} => Filled' = Filled /\ silent = {}
  BY <1>0, <1>3, <1>4, OneSensorMoves
<1>8. silent' = {} => sub'.alerts = Cardinality(Filled')
  BY <1>5, <1>7 DEF AlertInv, AlertsExact, Filled
<1> QED
  BY <1>6, <1>8 DEF AlertsExact, Filled

LEMMA SwitchCounts ==
  ASSUME AlertInv, Enable \/ Disable \/ Restart
  PROVE  AbsentSilent' /\ AlertsExact'
<1>0. TypeInv /\ sensors \in [Slots -> SensorType] /\ sub \in SubType
  BY PartsTyped DEF AlertInv
<1>1. silent = {} => sub.alerts = Cardinality(Filled)
  BY DEF AlertInv, AlertsExact, Filled
<1>2. CASE Enable
  <2>1. sub' = [sub EXCEPT !.on = TRUE, !.wasRunning = FALSE, !.stop = FALSE, !.tasks = @ + 1]
    BY <1>2 DEF Enable
  <2>2. sub'.alerts = sub.alerts
    BY <1>0, <2>1, Zenon DEF SubType
  <2>3. silent' = silent \cup {s \in Slots : sensors'[s].filled /\ ~sensors[s].filled}
    BY <1>2 DEF Enable
  <2>4. \A s \in Slots : sensors'[s] = sensors[s] \/ (~sensors[s].there /\ sensors'[s].there)
    <3>1. \A slot \in SlotType, raw \in Bits \cup {Failed} : Initialized(slot, raw).there
      <4> SUFFICES ASSUME NEW slot \in SlotType, NEW raw \in Bits \cup {Failed}
                   PROVE  Initialized(slot, raw).there
        OBVIOUS
      <4> DEFINE fresh == [NoSensor EXCEPT !.there = TRUE, !.activeLow = slot.activeLow]
      <4>1. fresh \in SensorType /\ fresh.there
        BY NewSensorType DEF SensorType, SlotType
      <4> HIDE DEF fresh
      <4>2. ReadValue(fresh, raw).there = fresh.there
        BY <4>1, ReadValueType
      <4> QED
        BY <4>1, <4>2 DEF Initialized, fresh
    <3>2. PICK raw \in [Slots -> Bits \cup {Failed}] :
            sensors' = [s \in Slots |->
              IF config'[s].enabled /\ ~sensors[s].there THEN Initialized(config'[s], raw[s])
              ELSE sensors[s]]
      BY <1>2 DEF Enable
    <3> QED
      BY <1>0, <1>2, <3>1, <3>2, EnableWrites
  <2>5. AbsentSilent'
    BY <2>4 DEF AbsentSilent, AlertInv
  <2>6. silent' = {} => silent = {} /\ Filled' = Filled
    BY <2>3, <2>4 DEF Filled, AbsentSilent, AlertInv
  <2> QED
    BY <1>1, <2>2, <2>5, <2>6 DEF AlertsExact, Filled
<1>3. CASE Disable
  <2>1. /\ sub' = [sub EXCEPT !.on = FALSE, !.stop = TRUE, !.alerts = 0, !.owns = FALSE,
                              !.wasRunning = FALSE]
        /\ silent' = silent \cup {s \in Slots : sensors[s].filled}
        /\ UNCHANGED sensors
    BY <1>3 DEF Disable
  <2>2. sub'.alerts = 0
    BY <1>0, <2>1, Zenon DEF SubType
  <2>3. silent' = {} => Filled' = {}
    BY <2>1 DEF Filled
  <2>4. silent' = {} => Cardinality(Filled') = 0
    BY <2>3, FS_EmptySet
  <2> QED
    BY <2>1, <2>2, <2>4 DEF AlertsExact, AbsentSilent, AlertInv, Filled
<1>4. CASE Restart
  <2>1. sensors' = [s \in Slots |-> NoSensor] /\ sub'.alerts = 0
    BY <1>4 DEF Restart, Off
  <2>2. AbsentSilent' /\ Filled' = {}
    BY <2>1 DEF AbsentSilent, Filled, NoSensor
  <2>3. Cardinality(Filled') = 0
    BY <2>2, FS_EmptySet
  <2> QED
    BY <2>1, <2>2, <2>3 DEF AlertsExact, Filled
<1> QED
  BY <1>2, <1>3, <1>4

\* No other step touches a sensor, the count, or the history of silent changes.
LEMMA OthersCountNot ==
  ASSUME AlertInv,
         \/ Watch \/ CtrlTakes \/ Telemetry \/ PutOptions \/ TaskEnds
         \/ \E s \in Slots : WithoutLiquid(s) \/ PutSlot(s) \/ LiquidMoves(s)
         \/ \E c \in UserCommands : UserAsks(c) \/ UserPresses(c)
         \/ UNCHANGED vars
  PROVE  AbsentSilent' /\ AlertsExact'
<1>0. sub \in SubType
  BY PartsTyped DEF AlertInv
<1>1. UNCHANGED <<sensors, silent>>
  BY DEF Watch, CtrlTakes, Telemetry, PutOptions, TaskEnds, WithoutLiquid, PutSlot, LiquidMoves,
         UserAsks, UserPresses, vars, levelVars, history
<1>2. sub'.alerts = sub.alerts
  <2>1. CASE Watch
    <3>1. sub' = [sub EXCEPT !.wasRunning = SeenRunning(shown = "running")]
      BY <2>1, Zenon DEF Watch
    <3> QED
      BY <1>0, <3>1, Zenon DEF SubType
  <2>2. CASE TaskEnds
    <3>1. sub' = [sub EXCEPT !.tasks = @ - 1]
      BY <2>2 DEF TaskEnds
    <3> QED
      BY <1>0, <3>1, Zenon DEF SubType
  <2>3. CASE ~Watch /\ ~TaskEnds
    BY <2>3 DEF CtrlTakes, Telemetry, PutOptions, WithoutLiquid, PutSlot, LiquidMoves, UserAsks,
                UserPresses, vars, levelVars
  <2> QED
    BY <2>1, <2>2, <2>3
<1> QED
  BY <1>1, <1>2 DEF AlertInv, AlertsExact, AbsentSilent

LEMMA AlertStep == AlertInv /\ [Next]_vars => AlertInv'
<1> SUFFICES ASSUME AlertInv, [Next]_vars PROVE AlertInv'
  OBVIOUS
<1>1. TypeInv'
  BY TypeStep DEF AlertInv
<1>2. AbsentSilent' /\ AlertsExact'
  BY PollCounts, WithLiquidCounts, SwitchCounts, OthersCountNot DEF Next
<1> QED
  BY <1>1, <1>2 DEF AlertInv

\* However many sensors there are and however their events, the wizard, the switch and restarts
\* interleave: as long as no level was taken over without an event, _sensorsOnAlert is the number
\* of sensors that signal liquid (Xkc25Subsystem.cpp, onXkc25LevelChanged()).
THEOREM AlertsStayExact == Spec => []AlertsExact
<1>1. AlertInv => AlertsExact
  BY DEF AlertInv
<1> QED
  BY AlertInit, AlertStep, <1>1, PTL DEF Spec

-----------------------------------------------------------------------------
(* The polarity of a calibrated sensor.                                    *)

\* A living object of a calibrated slot works with the polarity of the slot.
SameFlag ==
    \A s \in Slots :
        config[s].calibrated /\ sensors[s].there => sensors[s].activeLow = config[s].activeLow

\* A slot that counts as calibrated after both states were shown holds the polarity of its line.
FlagRight ==
    \A s \in Slots :
        config[s].calibrated /\ Held(s) /\ taught[s] = {"dry", "wet"} =>
            config[s].activeLow = (wiring[s] # "pnp")

PolarityInv == TypeInv /\ SameFlag /\ FlagRight

\* With liquid in front of a line that holds its level, the level the second step keeps is the
\* one the line has with liquid, whichever of the two probes or the reading it comes from.
LEMMA WetLevel ==
  ASSUME TypeInv, NEW s \in Slots, Held(s), NEW raw \in Read(s)
  PROVE  Levels(s, raw).wet = Driven(s)
<1>1. Driven(s) \in Bits /\ raw = Driven(s)
  BY DEF Held, Driven, Read, Bits
<1>2. CASE probes[s] = NoProbe
  BY <1>1, <1>2 DEF Levels
<1>3. CASE probes[s] # NoProbe
  <2>1. ~OnExpander(s)
    BY <1>3 DEF TypeInv, ProbesKept
  <2>2. Probe(s) = [up |-> Driven(s), down |-> Driven(s)]
    BY <1>1, <2>1 DEF Probe, Bits
  <2> QED
    BY <1>1, <2>2 DEF Levels
<1> QED
  BY <1>2, <1>3

LEMMA PolarityInit == Init => PolarityInv
<1> SUFFICES ASSUME Init PROVE PolarityInv
  OBVIOUS
<1>1. \A s \in Slots : ~sensors[s].there /\ taught[s] = {}
  BY DEF Init, NoSensor
<1> QED
  BY <1>1, TypeInit DEF PolarityInv, SameFlag, FlagRight

LEMMA WithLiquidPolarity ==
  ASSUME PolarityInv, NEW s \in Slots, WithLiquid(s)
  PROVE  SameFlag' /\ FlagRight'
<1>0. /\ TypeInv /\ sensors \in [Slots -> SensorType] /\ config \in [Slots -> SlotType]
      /\ taught \in [Slots -> SUBSET {"dry", "wet"}]
  BY PartsTyped DEF PolarityInv, TypeInv, TypeOK
<1>1. PICK dry \in Bits, wet \in Bits, again \in Reads(s) :
        /\ config' = [config EXCEPT ![s].dry = dry, ![s].wet = wet,
                                    ![s].activeLow = (wet = 0), ![s].calibrated = TRUE]
        /\ sensors' = [sensors EXCEPT ![s] = Calibrated(sensors[s], wet = 0, again)]
        /\ silent' = IF Calibrated(sensors[s], wet = 0, again).filled # sensors[s].filled
                     THEN silent \cup {s} ELSE silent
        /\ \E raw \in Read(s) : wet = Levels(s, raw).wet /\ wet # Levels(s, raw).dry
  BY <1>0, WithLiquidWrites, Zenon
<1> DEFINE low == wet = 0
           next == Calibrated(sensors[s], low, again)
           slot == [config[s] EXCEPT !.dry = dry, !.wet = wet, !.activeLow = low, !.calibrated = TRUE]
<1>2. low \in BOOLEAN
  OBVIOUS
<1>3. sensors' = [sensors EXCEPT ![s] = next] /\ config' = [config EXCEPT ![s] = slot]
  BY <1>1, Zenon
<1>4. Held(s) /\ liquid[s] => low = (wiring[s] # "pnp")
  <2>1. Held(s) => wet = Driven(s)
    BY <1>0, <1>1, WetLevel
  <2> QED
    BY <2>1 DEF Held, Driven
<1> HIDE DEF low
<1>5. next.activeLow = low
  BY <1>0, <1>2, PartsTyped, CalibratedType
<1>6. slot.activeLow = low
  BY <1>0, <1>2 DEF SlotType
<1> HIDE DEF next, slot
<1>7. \A t \in Slots : /\ sensors'[t] = IF t = s THEN next ELSE sensors[t]
                       /\ config'[t] = IF t = s THEN slot ELSE config[t]
  BY <1>0, <1>3
<1>8. SameFlag'
  BY <1>5, <1>6, <1>7 DEF PolarityInv, SameFlag
<1>9. FlagRight'
  <2>1. /\ taught' = [taught EXCEPT ![s] = IF liquid[s] THEN @ \cup {"wet"} ELSE {}]
        /\ UNCHANGED wiring
    BY DEF WithLiquid, physical
  <2>2. \A t \in Slots : t # s => taught'[t] = taught[t]
    BY <1>0, <2>1
  <2>3. taught'[s] = {"dry", "wet"} => liquid[s]
    BY <1>0, <2>1
  <2> QED
    BY <1>4, <1>6, <1>7, <2>1, <2>2, <2>3 DEF PolarityInv, FlagRight, Held
<1> QED
  BY <1>8, <1>9

LEMMA VoidPolarity ==
  ASSUME PolarityInv, NEW s \in Slots, WithoutLiquid(s) \/ PutSlot(s)
  PROVE  SameFlag' /\ FlagRight'
<1>0. config \in [Slots -> SlotType] /\ taught \in [Slots -> SUBSET {"dry", "wet"}]
  BY PartsTyped DEF PolarityInv, TypeInv, TypeOK
<1>1. UNCHANGED <<sensors, wiring>>
  BY DEF WithoutLiquid, PutSlot, physical
<1>2. CASE WithoutLiquid(s)
  <2>1. \E told \in {{}, {"dry"}} : taught' = [taught EXCEPT ![s] = told]
    BY <1>2 DEF WithoutLiquid
  <2>2. taught'[s] # {"dry", "wet"} /\ \A t \in Slots : t # s => taught'[t] = taught[t]
    BY <1>0, <2>1
  <2>3. \A t \in Slots : (t = s /\ ~config'[t].calibrated) \/ config'[t] = config[t]
    <3>1. CASE UNCHANGED config
      BY <3>1
    <3>2. ASSUME NEW raw \in Read(s),
                 config' = [config EXCEPT ![s].dry = raw, ![s].calibrated = FALSE]
          PROVE  \A t \in Slots : (t = s /\ ~config'[t].calibrated) \/ config'[t] = config[t]
      <4> DEFINE slot == [config[s] EXCEPT !.dry = raw, !.calibrated = FALSE]
      <4>1. config' = [config EXCEPT ![s] = slot]
        BY <3>2, Zenon
      <4>2. ~slot.calibrated
        BY <1>0 DEF SlotType
      <4> HIDE DEF slot
      <4> QED
        BY <1>0, <4>1, <4>2
    <3> QED
      BY <1>2, <3>1, <3>2, Zenon DEF WithoutLiquid
  <2> QED
    BY <1>1, <2>2, <2>3 DEF PolarityInv, SameFlag, FlagRight, Held
<1>3. CASE PutSlot(s)
  <2> DEFINE slot == [config[s] EXCEPT !.enabled = ~@, !.calibrated = FALSE, !.activeLow = TRUE]
  <2>1. config' = [config EXCEPT ![s] = slot] /\ UNCHANGED taught
    BY <1>3, Zenon DEF PutSlot, history
  <2>2. ~slot.calibrated
    BY <1>0, Zenon DEF SlotType
  <2> HIDE DEF slot
  <2>3. \A t \in Slots : config'[t] = IF t = s THEN slot ELSE config[t]
    BY <1>0, <2>1
  <2> QED
    BY <1>1, <2>1, <2>2, <2>3 DEF PolarityInv, SameFlag, FlagRight, Held
<1> QED
  BY <1>2, <1>3

LEMMA PollPolarity ==
  ASSUME PolarityInv, NEW s \in Slots, Poll(s)
  PROVE  SameFlag' /\ FlagRight'
<1>0. TypeInv /\ sensors \in [Slots -> SensorType]
  BY PartsTyped DEF PolarityInv
<1>1. PICK raw \in Reads(s) : PollReads(s, raw)
  BY DEF Poll
<1> DEFINE next == ReadValue(sensors[s], raw)
<1>2. sensors' = [sensors EXCEPT ![s] = next] /\ UNCHANGED <<config, wiring, taught>>
  BY <1>1 DEF PollReads, physical
<1>3. next.there = sensors[s].there /\ next.activeLow = sensors[s].activeLow
  BY <1>0, PartsTyped, ReadValueType
<1> HIDE DEF next
<1>4. \A t \in Slots : /\ sensors'[t].there = sensors[t].there
                       /\ sensors'[t].activeLow = sensors[t].activeLow
  BY <1>0, <1>2, <1>3
<1> QED
  BY <1>2, <1>4 DEF PolarityInv, SameFlag, FlagRight, Held

LEMMA SwitchPolarity ==
  ASSUME PolarityInv, Enable \/ Restart
  PROVE  SameFlag' /\ FlagRight'
<1>0. TypeInv /\ config \in [Slots -> SlotType]
  BY PartsTyped DEF PolarityInv
<1>1. CASE Enable
  <2>1. UNCHANGED <<wiring, taught>>
    BY <1>1 DEF Enable, physical
  <2>2. \A s \in Slots : /\ config'[s].activeLow = config[s].activeLow
                         /\ config'[s].calibrated => config[s].calibrated
    <3>1. \A slot \in SlotType : Autochecked(slot).calibrated => slot.calibrated
      <4> SUFFICES ASSUME NEW slot \in SlotType PROVE Autochecked(slot).calibrated => slot.calibrated
        OBVIOUS
      <4> DEFINE still == slot.calibrated /\ ~(slot.enabled /\ slot.dry = slot.wet)
      <4>1. Autochecked(slot) = [slot EXCEPT !.calibrated = still]
        BY Zenon DEF Autochecked
      <4>2. still => slot.calibrated
        OBVIOUS
      <4> HIDE DEF still
      <4> QED
        BY <4>1, <4>2 DEF SlotType
    <3> QED
      BY <1>0, <1>1, <3>1, EnableWrites, AutocheckedType
  <2>3. \A s \in Slots :
          sensors'[s] = sensors[s] \/ (~sensors[s].there /\ sensors'[s].activeLow = config'[s].activeLow)
    BY <1>0, <1>1, EnableWrites
  <2> QED
    BY <2>1, <2>2, <2>3 DEF PolarityInv, SameFlag, FlagRight, Held
<1>2. CASE Restart
  <2>1. \A s \in Slots : ~sensors'[s].there /\ taught'[s] = {}
    BY <1>2 DEF Restart, NoSensor
  <2> QED
    BY <2>1 DEF SameFlag, FlagRight
<1> QED
  BY <1>1, <1>2

LEMMA PolarityStep == PolarityInv /\ [Next]_vars => PolarityInv'
<1> SUFFICES ASSUME PolarityInv, [Next]_vars PROVE PolarityInv'
  OBVIOUS
<1>1. TypeInv'
  BY TypeStep DEF PolarityInv
<1>2. ASSUME \/ Watch \/ CtrlTakes \/ Telemetry \/ PutOptions \/ TaskEnds \/ Disable
             \/ \E s \in Slots : LiquidMoves(s)
             \/ \E c \in UserCommands : UserAsks(c) \/ UserPresses(c)
             \/ UNCHANGED vars
      PROVE  SameFlag' /\ FlagRight'
  <2>1. UNCHANGED <<config, sensors, wiring, taught>>
    BY <1>2 DEF Watch, CtrlTakes, Telemetry, PutOptions, TaskEnds, Disable, LiquidMoves, UserAsks,
                UserPresses, vars, physical, levelVars, history
  <2> QED
    BY <2>1 DEF PolarityInv, SameFlag, FlagRight, Held
<1>3. SameFlag' /\ FlagRight'
  BY <1>2, PollPolarity, WithLiquidPolarity, VoidPolarity, SwitchPolarity DEF Next
<1> QED
  BY <1>1, <1>3 DEF PolarityInv

\* For every wiring and every order of the wizard's steps, refusals, restarts and changes of the
\* slot: what counts as calibrated after both states were shown has the polarity of its line, in
\* the configuration and in the running object (recordLevelWithoutLiquid, recordLevelWithLiquid).
THEOREM PolarityStaysRight == Spec => []PolarityRight
<1>1. PolarityInv => PolarityRight
  BY DEF PolarityInv, SameFlag, FlagRight, PolarityRight
<1> QED
  BY PolarityInit, PolarityStep, <1>1, PTL DEF Spec
=============================================================================
