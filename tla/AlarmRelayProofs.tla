-------------------------- MODULE AlarmRelayProofs --------------------------
(***************************************************************************)
(* Proofs about AlarmRelay, for any number of sensors, chips, clients and  *)
(* devices, and any number of failed writes.  A task's calls can nest      *)
(* without end (a flush reports a fault, its event recomputes the lines,   *)
(* which flushes again), so everything is said of a stack by its first     *)
(* frame and by what holds of the frames below, whatever their number.     *)
(***************************************************************************)
EXTENDS AlarmRelay, FiniteSetTheorems, SequenceTheorems, TLAPS

-----------------------------------------------------------------------------
(* Frames.                                                                 *)

\* A list of subscribers is what was subscribed at the time: a beginning of BootOrder.
Booted(to) ==
    /\ to \in Seq(Subscribers) /\ Len(to) \in 1..3
    /\ \A j \in 1..Len(to) : to[j] = BootOrder[j]

Is(f, proc, at) == f.proc = proc /\ f.at = at

\* What a frame can be.
FrameOK(f) ==
    /\ f \in Frames
    /\ \/ Is(f, "check", "lock")
       \/ Is(f, "check", "sensor") /\ f.i >= 1
       \/ Is(f, "update", "reset") /\ f.i >= 1 /\ Booted(f.to)
       \/ Is(f, "notify", "next") /\ Booted(f.to) /\ f.i < Len(f.to) /\ f.ev \in Events
       \/ Is(f, "event", "lock") /\ f.ev \in Events
       \/ Is(f, "force", "lock") \/ Is(f, "held", "unlock") \/ Is(f, "pins", "reset")
       \/ Is(f, "recompute", "lock") \/ Is(f, "recompute", "unlock")
       \/ Is(f, "recompute", "line") /\ f.i \in UserLines
       \/ Is(f, "recompute", "set") /\ f.i \in UserLines /\ f.res \in {"on", "off"}
       \/ Is(f, "flush", "lock")
       \/ Is(f, "flush", "write") /\ f.i >= 1
       \/ Is(f, "flush", "report") /\ f.i \in DOMAIN ChipOrder /\ f.res \in Results
       \/ Is(f, "flush", "bus") /\ f.i \in DOMAIN ChipOrder

\* What a frame can be while it waits for a call it has made.
Waits(f) ==
    \/ Is(f, "check", "sensor") \/ Is(f, "update", "reset") \/ Is(f, "held", "unlock")
    \/ Is(f, "notify", "next") /\ f.i >= 1
    \/ Is(f, "recompute", "unlock") \/ Is(f, "flush", "write") \/ Is(f, "flush", "bus")

Low(r) == \A p \in DOMAIN r : FrameOK(r[p]) /\ Waits(r[p])

StackOK(s) == s \in Seq(Frames) /\ (s # <<>> => FrameOK(Head(s)) /\ Low(Tail(s)))

\* How many frames of a stack hold a mutex; "update" counts the changes of thresholds
\* under way.
Marked(l, f) ==
    \/ l = "T" /\ Is(f, "check", "sensor")
    \/ l = "E" /\ (Is(f, "held", "unlock") \/ \E at \in {"line", "set", "unlock"} : Is(f, "recompute", at))
    \/ l = "C" /\ \E at \in {"write", "report", "bus"} : Is(f, "flush", at)
    \/ l = "update" /\ Is(f, "update", "reset")

Count(l, s) == Cardinality({p \in DOMAIN s : Marked(l, s[p])})

\* A flush that has not yet reached the chip, or is going to be made.
Unflushed(f, c) ==
    \/ Is(f, "recompute", "line") \/ Is(f, "recompute", "set") \/ Is(f, "flush", "lock")
    \/ Is(f, "flush", "write") /\ \E j \in DOMAIN ChipOrder : j >= f.i /\ ChipOrder[j] = c
    \/ /\ Is(f, "flush", "report") \/ Is(f, "flush", "bus")
       /\ \E j \in DOMAIN ChipOrder : j > f.i /\ ChipOrder[j] = c

Flushes(s, c) == \E p \in DOMAIN s : Unflushed(s[p], c)

\* What the first frame of a stack is about to do: tell the engine of a sensor; decide a
\* line; set it; report the result of a write.
TopIs(s, proc, at) == s # <<>> /\ Is(Head(s), proc, at)

Telling(s, src) ==
    /\ TopIs(s, "event", "lock") \/ (TopIs(s, "notify", "next") /\ Head(s).i = 0)
    /\ Head(s).ev.src = src

Deciding(s, line) ==
    \/ TopIs(s, "event", "lock") \/ (TopIs(s, "notify", "next") /\ Head(s).i = 0)
    \/ TopIs(s, "recompute", "lock")
    \/ TopIs(s, "recompute", "line") /\ Head(s).i <= line
    \/ TopIs(s, "recompute", "set") /\ Head(s).i < line

Setting(s, line) == TopIs(s, "recompute", "set") /\ Head(s).i = line

Reporting(s, c) == TopIs(s, "flush", "report") /\ ChipOrder[Head(s).i] = c

-----------------------------------------------------------------------------
(* The invariant.                                                          *)

StacksOK == stack \in [Tasks -> Seq(Frames)] /\ \A t \in Tasks : StackOK(stack[t])

\* A mutex is held by at most one task, as often as its frames say.
LocksOK ==
    /\ locks \in [Locks -> [owner: Tasks \cup {NoTask}, depth: Nat]]
    /\ \A l \in Locks :
        /\ (locks[l].owner = NoTask) = (locks[l].depth = 0)
        /\ \A t \in Tasks :
            Count(l, stack[t]) = IF locks[l].owner = t THEN locks[l].depth ELSE 0

\* Each source has one fault.
CodesOK ==
    /\ faults \in [FaultKeys -> FaultCodes \cup {"NONE"}]
    /\ \A k \in Chips \cup Devices : faults[k] \in {"NONE", "I2C_NACK"}
    /\ faults[Bus] \in {"NONE", "I2C_BUS_DOWN"}

MonitorOK ==
    /\ registered \subseteq Sensors
    /\ reading \in [Sensors -> Readings \cup {Invalid}]
    /\ thresholds \in [Sensors -> Settings \cup {NoSettings}]
    /\ level \in [Sensors -> Levels \cup {"unset"}]
    /\ Booted(subs)

EngineOK ==
    /\ manual \in [UserLines -> {"on", "off", "rules"}]
    /\ seen \in [Sensors -> Levels]
    /\ notif \in [timer: BOOLEAN, active: BOOLEAN, last: Events \cup {NoEvent}]
    /\ notif.timer = notif.active

PortsOK ==
    /\ coord \in [user: SUBSET UserLines, alarm: Levels]
    /\ out \in [Chips -> SUBSET Lines] /\ \A c \in Chips : out[c] \subseteq LinesOf(c)
    /\ written \in [Chips -> Results]

TypeInv == MonitorOK /\ EngineOK /\ PortsOK /\ CodesOK /\ StacksOK /\ LocksOK

Word(b) == IF b THEN "on" ELSE "off"

LineOK(line) ==
    \/ \E t \in Tasks : Deciding(stack[t], line)
    \/ /\ \A t \in Tasks : Setting(stack[t], line) => Head(stack[t]).res = Word(Decision(line))
       /\ \/ (line \in coord.user) = Decision(line)
          \/ \E t \in Tasks : Setting(stack[t], line)
LinesOK == \A line \in UserLines : ~FollowsPlant(line) => LineOK(line)

OutputsOK ==
    \A c \in Chips : written[c] = "OK" =>
        out[c] = Image(c) \/ \E t \in Tasks : Flushes(stack[t], c)

FaultsOK ==
    /\ \A c \in Chips :
        \/ \E t \in Tasks : Reporting(stack[t], c)
        \/ /\ written[c] = "OK" => faults[c] = "NONE"
           /\ written[c] = "I2C_NACK" => faults[c] = "I2C_NACK"
    /\ \A t \in Tasks, c \in Chips : Reporting(stack[t], c) => Head(stack[t]).res = written[c]

Updating == \E t \in Tasks : Count("update", stack[t]) > 0
AlarmsOK ==
    /\ \A s \in Sensors : level[s] \notin {"unset", "NORMAL"} =>
        \/ seen[s] = level[s]
        \/ \E t \in Tasks : Telling(stack[t], s) /\ Head(stack[t]).ev.level = level[s]
        \/ Updating
    /\ \A t \in Tasks, s \in Sensors : Telling(stack[t], s) =>
        level[s] \in {Head(stack[t]).ev.level, "unset"} /\ Count("T", stack[t]) > 0
    /\ \A t \in Tasks : TopIs(stack[t], "force", "lock") => Count("update", stack[t]) > 0

IInv == TypeInv /\ LinesOK /\ OutputsOK /\ FaultsOK /\ AlarmsOK

-----------------------------------------------------------------------------
(* Stacks: what a frame on top changes.                                    *)

LEMMA ConsFacts ==
  ASSUME NEW S, NEW f \in S, NEW r \in Seq(S)
  PROVE  /\ <<f>> \o r \in Seq(S) /\ <<f>> \o r # <<>>
         /\ Head(<<f>> \o r) = f /\ Tail(<<f>> \o r) = r
         /\ DOMAIN (<<f>> \o r) = 1..(Len(r) + 1) /\ DOMAIN r = 1..Len(r)
         /\ (<<f>> \o r)[1] = f
         /\ \A p \in DOMAIN r : (<<f>> \o r)[p + 1] = r[p]
<1> DEFINE s == <<f>> \o r
<1>1. /\ s \in Seq(S) /\ Len(s) = Len(r) + 1 /\ s[1] = f /\ Len(r) \in Nat
      /\ \A p \in 1..Len(r) : s[p + 1] = r[p]
  OBVIOUS
<1>2. s # <<>> /\ Head(s) = f /\ DOMAIN s = 1..(Len(r) + 1) /\ DOMAIN r = 1..Len(r)
  BY <1>1
<1>3. Tail(s) \in Seq(S) /\ Len(Tail(s)) = Len(r) /\ \A p \in 1..Len(r) : Tail(s)[p] = s[p + 1]
  BY <1>1, <1>2
<1>4. Tail(s) = r
  BY <1>1, <1>3, SeqEqual
<1> QED
  BY <1>1, <1>2, <1>4

LEMMA SplitFacts ==
  ASSUME NEW S, NEW s \in Seq(S), s # <<>>
  PROVE  Head(s) \in S /\ Tail(s) \in Seq(S) /\ s = <<Head(s)>> \o Tail(s)
<1>1. Head(s) \in S /\ Tail(s) \in Seq(S) /\ Len(s) = Len(Tail(s)) + 1 /\ Head(s) = s[1]
      /\ \A p \in 1..Len(Tail(s)) : Tail(s)[p] = s[p + 1]
  OBVIOUS
<1> DEFINE u == <<Head(s)>> \o Tail(s)
<1>2. u \in Seq(S) /\ Len(u) = Len(s) /\ \A p \in 1..Len(s) : u[p] = s[p]
  BY <1>1
<1>3. u = s
  BY <1>2, SeqEqual
<1> QED
  BY <1>1, <1>3

\* The count of a longer stack is that of the rest, and one if the first frame is marked.
LEMMA CountCons ==
  ASSUME NEW l, NEW f \in Frames, NEW r \in Seq(Frames)
  PROVE  /\ Count(l, r) \in Nat
         /\ Count(l, <<f>> \o r) = Count(l, r) + (IF Marked(l, f) THEN 1 ELSE 0)
<1> DEFINE s == <<f>> \o r
           A == {p \in DOMAIN r : Marked(l, r[p])}
           B == {p \in DOMAIN s : Marked(l, s[p])}
           B1 == B \ {1}
           shift == [p \in A |-> p + 1]
<1>1. /\ DOMAIN s = 1..(Len(r) + 1) /\ DOMAIN r = 1..Len(r) /\ s[1] = f /\ Len(r) \in Nat
      /\ \A p \in DOMAIN r : s[p + 1] = r[p]
  BY ConsFacts
<1> HIDE DEF s
<1>0. Count(l, s) = Cardinality(B) /\ Count(l, r) = Cardinality(A)
  BY DEF Count
<1>2. A \in SUBSET Nat /\ IsFiniteSet(A) /\ Cardinality(A) \in Nat
  <2>1. IsFiniteSet(1..Len(r))
    BY <1>1, FS_Interval
  <2>2. A \subseteq 1..Len(r)
    BY <1>1
  <2> QED
    BY <2>1, <2>2, FS_Subset, FS_CardinalityType
<1>3. shift \in [A -> B1]
  BY <1>1
<1>4. shift \in Bijection(A, B1)
  <2>1. \A p, q \in A : shift[p] = shift[q] => p = q
    BY <1>2
  <2>2. \A q \in B1 : \E p \in A : shift[p] = q
    <3> TAKE q \in B1
    <3>1. q - 1 \in DOMAIN r /\ s[(q - 1) + 1] = r[q - 1] /\ (q - 1) + 1 = q
      BY <1>1
    <3>2. q - 1 \in A
      BY <3>1
    <3> QED
      BY <3>1, <3>2
  <2> QED
    BY <1>3, <2>1, <2>2 DEF Bijection, Injection, Surjection, IsInjective
<1>5. IsFiniteSet(B1) /\ Cardinality(B1) = Cardinality(A)
  BY <1>2, <1>4, FS_Bijection DEF ExistsBijection
<1>6. Marked(l, f) => Cardinality(B) = Cardinality(A) + 1
  <2> SUFFICES ASSUME Marked(l, f)
               PROVE  Cardinality(B) = Cardinality(A) + 1
    OBVIOUS
  <2>1. B = B1 \cup {1} /\ 1 \notin B1
    BY <1>1
  <2> QED
    BY <1>5, <2>1, FS_AddElement
<1>7. ~Marked(l, f) => Cardinality(B) = Cardinality(A)
  <2> SUFFICES ASSUME ~Marked(l, f)
               PROVE  Cardinality(B) = Cardinality(A)
    OBVIOUS
  <2>1. B = B1
    BY <1>1
  <2> QED
    BY <1>5, <2>1
<1> HIDE DEF A, B
<1> QED
  BY <1>0, <1>2, <1>6, <1>7 DEF s

LEMMA CountEmpty == \A l : Count(l, <<>>) = 0
<1>1. \A l : {p \in DOMAIN <<>> : Marked(l, <<>>[p])} = {}
  OBVIOUS
<1> QED
  BY <1>1, FS_EmptySet DEF Count

LEMMA FlushesCons ==
  ASSUME NEW c, NEW f \in Frames, NEW r \in Seq(Frames)
  PROVE  Flushes(<<f>> \o r, c) <=> (Unflushed(f, c) \/ Flushes(r, c))
<1> DEFINE s == <<f>> \o r
<1>1. /\ DOMAIN s = 1..(Len(r) + 1) /\ DOMAIN r = 1..Len(r) /\ s[1] = f /\ Len(r) \in Nat
      /\ \A p \in DOMAIN r : s[p + 1] = r[p]
  BY ConsFacts
<1> HIDE DEF s
<1>2. Unflushed(f, c) => Flushes(s, c)
  BY <1>1 DEF Flushes
<1>3. Flushes(r, c) => Flushes(s, c)
  <2>1. \A p \in DOMAIN r : p + 1 \in DOMAIN s
    BY <1>1
  <2> QED
    BY <1>1, <2>1 DEF Flushes
<1>4. ASSUME NEW p \in DOMAIN s, Unflushed(s[p], c), ~Unflushed(f, c)
      PROVE  Flushes(r, c)
  <2>1. p # 1
    BY <1>1, <1>4
  <2>2. p - 1 \in DOMAIN r /\ (p - 1) + 1 = p
    BY <1>1, <2>1
  <2>3. s[p] = r[p - 1]
    BY <1>1, <2>2
  <2> QED
    BY <1>4, <2>2, <2>3 DEF Flushes
<1> QED
  BY <1>2, <1>3, <1>4 DEF Flushes, s

LEMMA LowCons ==
  ASSUME NEW f \in Frames, NEW r \in Seq(Frames)
  PROVE  Low(<<f>> \o r) <=> (FrameOK(f) /\ Waits(f) /\ Low(r))
<1> DEFINE s == <<f>> \o r
<1>1. /\ DOMAIN s = 1..(Len(r) + 1) /\ DOMAIN r = 1..Len(r) /\ s[1] = f /\ Len(r) \in Nat
      /\ \A p \in DOMAIN r : s[p + 1] = r[p]
  BY ConsFacts
<1> HIDE DEF s
<1>2. ASSUME Low(s)
      PROVE  FrameOK(f) /\ Waits(f) /\ Low(r)
  <2>1. 1 \in DOMAIN s /\ \A p \in DOMAIN r : p + 1 \in DOMAIN s
    BY <1>1
  <2> QED
    BY <1>1, <1>2, <2>1 DEF Low
<1>3. ASSUME FrameOK(f), Waits(f), Low(r)
      PROVE  Low(s)
  <2> SUFFICES ASSUME NEW p \in DOMAIN s, p # 1
               PROVE  FrameOK(s[p]) /\ Waits(s[p])
    BY <1>1, <1>3 DEF Low
  <2>1. p - 1 \in DOMAIN r /\ (p - 1) + 1 = p
    BY <1>1
  <2>2. s[p] = r[p - 1]
    BY <1>1, <2>1
  <2> QED
    BY <1>3, <2>1, <2>2 DEF Low
<1> QED
  BY <1>2, <1>3 DEF s

-----------------------------------------------------------------------------
\* What is known of a stack with the frame f on top of the frames r.
Weight(l, f) == IF Marked(l, f) THEN 1 ELSE 0
Topped(s, f, r) ==
    /\ s \in Seq(Frames) /\ s # <<>> /\ Head(s) = f /\ Tail(s) = r
    /\ f \in Frames /\ FrameOK(f) /\ r \in Seq(Frames) /\ Low(r)
    /\ \A l : Count(l, r) \in Nat /\ Count(l, s) = Count(l, r) + Weight(l, f)
    /\ \A c : Flushes(s, c) <=> (Unflushed(f, c) \/ Flushes(r, c))

LEMMA ToppedCons ==
  ASSUME NEW f, FrameOK(f), NEW r \in Seq(Frames), Low(r)
  PROVE  Topped(<<f>> \o r, f, r)
<1>1. f \in Frames
  BY DEF FrameOK
<1> DEFINE s == <<f>> \o r
<1>2. s \in Seq(Frames) /\ s # <<>> /\ Head(s) = f /\ Tail(s) = r
  BY <1>1, ConsFacts
<1>3. \A l : Count(l, r) \in Nat /\ Count(l, s) = Count(l, r) + Weight(l, f)
  BY <1>1, CountCons DEF Weight
<1>4. \A c : Flushes(s, c) <=> (Unflushed(f, c) \/ Flushes(r, c))
  BY <1>1, FlushesCons
<1> HIDE DEF s
<1>5. Topped(s, f, r)
  BY <1>1, <1>2, <1>3, <1>4 DEF Topped
<1> QED
  BY <1>5 DEF s

LEMMA StackTopped ==
  ASSUME NEW s, StackOK(s), s # <<>>
  PROVE  Topped(s, Head(s), Tail(s))
<1>1. s \in Seq(Frames) /\ FrameOK(Head(s)) /\ Low(Tail(s))
  BY DEF StackOK
<1>2. Tail(s) \in Seq(Frames) /\ s = <<Head(s)>> \o Tail(s)
  BY <1>1, SplitFacts
<1> DEFINE f == Head(s)
           r == Tail(s)
<1>3. s = <<f>> \o r /\ FrameOK(f) /\ Low(r) /\ r \in Seq(Frames)
  BY <1>1, <1>2
<1> HIDE DEF f, r
<1>4. Topped(s, f, r)
  BY <1>3, ToppedCons
<1> QED
  BY <1>4 DEF f, r

LEMMA ToppedStackOK ==
  ASSUME NEW s, NEW f, NEW r, Topped(s, f, r)
  PROVE  StackOK(s)
  BY DEF Topped, StackOK

LEMMA EmptyStackOK == /\ StackOK(<<>>) /\ Low(<<>>) /\ <<>> \in Seq(Frames)
                      /\ \A c : ~Flushes(<<>>, c)
<1>1. <<>> \in Seq(Frames) /\ DOMAIN <<>> = {}
  OBVIOUS
<1> QED
  BY <1>1 DEF StackOK, Low, Flushes

\* The frames below the first are a stack of their own, with a frame that waits on top.
LEMMA LowStackOK ==
  ASSUME NEW r \in Seq(Frames), Low(r)
  PROVE  StackOK(r) /\ (r # <<>> => Waits(Head(r)))
<1> SUFFICES ASSUME r # <<>>
             PROVE  StackOK(r) /\ Waits(Head(r))
  BY EmptyStackOK
<1>1. Head(r) \in Frames /\ Tail(r) \in Seq(Frames) /\ r = <<Head(r)>> \o Tail(r)
  BY SplitFacts
<1> DEFINE f == Head(r)
           q == Tail(r)
<1>2. f \in Frames /\ q \in Seq(Frames) /\ r = <<f>> \o q
  BY <1>1
<1> HIDE DEF f, q
<1>3. FrameOK(f) /\ Waits(f) /\ Low(q)
  BY <1>2, LowCons
<1> QED
  BY <1>3 DEF StackOK, f, q

LEMMA LowPush ==
  ASSUME NEW f, FrameOK(f), Waits(f), NEW r \in Seq(Frames), Low(r)
  PROVE  <<f>> \o r \in Seq(Frames) /\ Low(<<f>> \o r)
<1>1. f \in Frames
  BY DEF FrameOK
<1> QED
  BY <1>1, LowCons, ConsFacts

LEMMA TwoOnTop ==
  ASSUME NEW g \in Frames, NEW f \in Frames, NEW r \in Seq(Frames)
  PROVE  <<g, f>> \o r = <<g>> \o (<<f>> \o r)
<1>1. <<g>> \o (<<f>> \o r) = (<<g>> \o <<f>>) \o r
  <2>1. <<g>> \in Seq(Frames) /\ <<f>> \in Seq(Frames)
    OBVIOUS
  <2> QED
    BY <2>1, ConcatAssociative
<1>2. <<g>> \o <<f>> = <<g, f>>
  <2> DEFINE a == <<g>> \o <<f>>
             b == <<g, f>>
  <2>1. a \in Seq(Frames) /\ Len(a) = 2 /\ a[1] = g /\ a[2] = f
    OBVIOUS
  <2>2. b \in Seq(Frames) /\ Len(b) = 2 /\ b[1] = g /\ b[2] = f
    OBVIOUS
  <2> HIDE DEF a, b
  <2>3. a = b
    BY <2>1, <2>2, SeqEqual
  <2> QED
    BY <2>3 DEF a, b
<1> QED
  BY <1>1, <1>2

-----------------------------------------------------------------------------
(* Moves of one task.                                                      *)

Others(t) == \A u \in Tasks : u # t => stack'[u] = stack[u]

\* The task t ends the step with the frame f on top of r.
Moved(t, f, r) == Others(t) /\ StacksOK' /\ Topped(stack'[t], f, r)

LEMMA StackBecomes ==
  ASSUME StacksOK, NEW t \in Tasks, NEW s, StackOK(s), stack' = [stack EXCEPT ![t] = s]
  PROVE  Others(t) /\ StacksOK' /\ stack'[t] = s
  BY DEF StacksOK, Others, StackOK

LEMMA TopKnown ==
  ASSUME StacksOK, NEW t \in Tasks, ~Idle(t)
  PROVE  Topped(stack[t], Top(t), Tail(stack[t])) /\ FrameOK(Top(t))
<1>1. StackOK(stack[t]) /\ stack[t] # <<>>
  BY DEF StacksOK, Idle
<1>2. Topped(stack[t], Head(stack[t]), Tail(stack[t]))
  BY <1>1, StackTopped
<1> QED
  BY <1>2 DEF Top, Topped

LEMMA GotoMoves ==
  ASSUME StacksOK, NEW t \in Tasks, ~Idle(t), NEW f, FrameOK(f), Goto(t, f)
  PROVE  Moved(t, f, Tail(stack[t]))
<1> DEFINE r == Tail(stack[t])
<1>1. r \in Seq(Frames) /\ Low(r)
  BY TopKnown DEF Topped
<1>2. stack' = [stack EXCEPT ![t] = <<f>> \o r]
  BY DEF Goto
<1> HIDE DEF r
<1>3. Topped(<<f>> \o r, f, r)
  BY <1>1, ToppedCons
<1>4. StackOK(<<f>> \o r)
  BY <1>3, ToppedStackOK
<1>5. Others(t) /\ StacksOK' /\ stack'[t] = <<f>> \o r
  BY <1>2, <1>4, StackBecomes
<1> QED
  BY <1>3, <1>5 DEF Moved, r

\* A call, from the frames r on.
LEMMA PushMoves ==
  ASSUME StacksOK, NEW t \in Tasks, NEW r \in Seq(Frames), Low(r),
         NEW f, FrameOK(f), Waits(f), NEW g, FrameOK(g),
         stack' = [stack EXCEPT ![t] = <<g, f>> \o r]
  PROVE  Moved(t, g, <<f>> \o r) /\ Topped(<<f>> \o r, f, r)
<1> DEFINE q == <<f>> \o r
<1>1. Topped(q, f, r) /\ q \in Seq(Frames) /\ Low(q)
  BY ToppedCons, LowPush
<1>2. f \in Frames /\ g \in Frames
  BY DEF FrameOK
<1>3. stack' = [stack EXCEPT ![t] = <<g>> \o q]
  BY <1>2, TwoOnTop
<1> HIDE DEF q
<1>4. Topped(<<g>> \o q, g, q)
  BY <1>1, ToppedCons
<1>5. StackOK(<<g>> \o q)
  BY <1>4, ToppedStackOK
<1>6. Others(t) /\ StacksOK' /\ stack'[t] = <<g>> \o q
  BY <1>3, <1>5, StackBecomes
<1> QED
  BY <1>1, <1>4, <1>6 DEF Moved, q

LEMMA CallMoves ==
  ASSUME StacksOK, NEW t \in Tasks, ~Idle(t),
         NEW f, FrameOK(f), Waits(f), NEW g, FrameOK(g), Call(t, f, g)
  PROVE  /\ Moved(t, g, <<f>> \o Tail(stack[t]))
         /\ Topped(<<f>> \o Tail(stack[t]), f, Tail(stack[t]))
<1> DEFINE r == Tail(stack[t])
<1>1. r \in Seq(Frames) /\ Low(r)
  BY TopKnown DEF Topped
<1>2. stack' = [stack EXCEPT ![t] = <<g, f>> \o r]
  BY DEF Call
<1> HIDE DEF r
<1> QED
  BY <1>1, <1>2, PushMoves DEF r

LEMMA ReturnMoves ==
  ASSUME StacksOK, NEW t \in Tasks, ~Idle(t), stack' = [stack EXCEPT ![t] = Tail(stack[t])]
  PROVE  /\ Others(t) /\ StacksOK' /\ stack'[t] = Tail(stack[t])
         /\ stack'[t] # <<>> => Waits(Head(stack'[t]))
<1> DEFINE r == Tail(stack[t])
<1>1. r \in Seq(Frames) /\ Low(r)
  BY TopKnown DEF Topped
<1>2. stack' = [stack EXCEPT ![t] = r]
  OBVIOUS
<1> HIDE DEF r
<1>3. StackOK(r) /\ (r # <<>> => Waits(Head(r)))
  BY <1>1, LowStackOK
<1>4. Others(t) /\ StacksOK' /\ stack'[t] = r
  BY <1>2, <1>3, StackBecomes
<1> QED
  BY <1>3, <1>4 DEF r

LEMMA EnterMoves ==
  ASSUME StacksOK, NEW t \in Tasks, NEW f, FrameOK(f), stack' = [stack EXCEPT ![t] = <<f>>]
  PROVE  Moved(t, f, <<>>)
<1>1. f \in Frames
  BY DEF FrameOK
<1>2. <<f>> = <<f>> \o <<>>
  BY <1>1
<1>3. Topped(<<f>>, f, <<>>)
  BY <1>2, ToppedCons, EmptyStackOK
<1>4. StackOK(<<f>>)
  BY <1>3, ToppedStackOK
<1>5. Others(t) /\ StacksOK' /\ stack'[t] = <<f>>
  BY <1>4, StackBecomes
<1> QED
  BY <1>3, <1>5 DEF Moved

-----------------------------------------------------------------------------
(* The mutexes.                                                            *)

\* A task with a frame that holds the mutex is its owner; so no other task has one.
LEMMA HolderOwns ==
  ASSUME LocksOK, NEW l \in Locks, NEW t \in Tasks, Count(l, stack[t]) > 0
  PROVE  /\ locks[l].owner = t /\ locks[l].depth = Count(l, stack[t])
         /\ \A u \in Tasks : (Free(l, u) \/ Count(l, stack[u]) > 0) => u = t
<1>1. \A u \in Tasks : Count(l, stack[u]) = IF locks[l].owner = u THEN locks[l].depth ELSE 0
  BY DEF LocksOK
<1>2. locks[l].owner = t /\ locks[l].depth = Count(l, stack[t])
  BY <1>1
<1>3. t # NoTask
  BY TasksAssumption
<1> QED
  BY <1>1, <1>2, <1>3 DEF Free

LEMMA LocksSame ==
  ASSUME LocksOK, NEW t \in Tasks, Others(t), UNCHANGED locks,
         \A l \in Locks : Count(l, stack'[t]) = Count(l, stack[t])
  PROVE  LocksOK'
<1>1. \A l \in Locks, u \in Tasks : Count(l, stack'[u]) = Count(l, stack[u])
  BY DEF Others
<1> QED
  BY <1>1 DEF LocksOK

LEMMA LocksTaken ==
  ASSUME LocksOK, NEW t \in Tasks, Others(t), NEW k \in Locks, Acquire(k, t),
         Count(k, stack'[t]) = Count(k, stack[t]) + 1,
         \A l \in Locks : l # k => Count(l, stack'[t]) = Count(l, stack[t])
  PROVE  LocksOK'
<1>1. /\ locks \in [Locks -> [owner: Tasks \cup {NoTask}, depth: Nat]]
      /\ \A l \in Locks :
           /\ (locks[l].owner = NoTask) = (locks[l].depth = 0)
           /\ \A u \in Tasks :
                Count(l, stack[u]) = IF locks[l].owner = u THEN locks[l].depth ELSE 0
  BY DEF LocksOK
<1>2. locks[k].owner \in {NoTask, t} /\ t # NoTask
  BY TasksAssumption DEF Acquire, Free
<1>3. locks' = [locks EXCEPT ![k] = [owner |-> t, depth |-> locks[k].depth + 1]]
  BY DEF Acquire
<1>4. locks' \in [Locks -> [owner: Tasks \cup {NoTask}, depth: Nat]]
  BY <1>1, <1>3
<1>5. ASSUME NEW l \in Locks, l # k
      PROVE  /\ (locks'[l].owner = NoTask) = (locks'[l].depth = 0)
             /\ \A u \in Tasks :
                  Count(l, stack'[u]) = IF locks'[l].owner = u THEN locks'[l].depth ELSE 0
  <2>1. locks'[l] = locks[l]
    BY <1>1, <1>3, <1>5
  <2>2. \A u \in Tasks : Count(l, stack'[u]) = Count(l, stack[u])
    BY <1>5 DEF Others
  <2> QED
    BY <1>1, <2>1, <2>2
<1>6. /\ (locks'[k].owner = NoTask) = (locks'[k].depth = 0)
      /\ \A u \in Tasks :
           Count(k, stack'[u]) = IF locks'[k].owner = u THEN locks'[k].depth ELSE 0
  <2>1. locks'[k].owner = t /\ locks'[k].depth = locks[k].depth + 1 /\ locks[k].depth \in Nat
    BY <1>1, <1>3
  <2>2. Count(k, stack[t]) = locks[k].depth
    BY <1>1, <1>2
  <2>3. \A u \in Tasks : u # t => Count(k, stack'[u]) = 0
    <3>1. \A u \in Tasks : u # t => Count(k, stack'[u]) = Count(k, stack[u])
      BY DEF Others
    <3>2. \A u \in Tasks : u # t => locks[k].owner # u
      BY <1>2, TasksAssumption
    <3> QED
      BY <1>1, <3>1, <3>2
  <2> QED
    BY <1>2, <2>1, <2>2, <2>3
<1> QED
  BY <1>4, <1>5, <1>6 DEF LocksOK

LEMMA LocksGiven ==
  ASSUME LocksOK, NEW t \in Tasks, Others(t), NEW k \in Locks, Release(k, t),
         Count(k, stack'[t]) \in Nat, Count(k, stack[t]) = Count(k, stack'[t]) + 1,
         \A l \in Locks : l # k => Count(l, stack'[t]) = Count(l, stack[t])
  PROVE  LocksOK'
<1>1. /\ locks \in [Locks -> [owner: Tasks \cup {NoTask}, depth: Nat]]
      /\ \A l \in Locks :
           /\ (locks[l].owner = NoTask) = (locks[l].depth = 0)
           /\ \A u \in Tasks :
                Count(l, stack[u]) = IF locks[l].owner = u THEN locks[l].depth ELSE 0
  BY DEF LocksOK
<1>2. locks[k].owner = t /\ locks[k].depth = Count(k, stack'[t]) + 1 /\ t # NoTask
  <2>1. Count(k, stack[t]) > 0
    OBVIOUS
  <2>2. locks[k].owner = t /\ locks[k].depth = Count(k, stack[t])
    BY <2>1, HolderOwns
  <2> QED
    BY <2>2, TasksAssumption
<1> DEFINE d == Count(k, stack'[t])
<1>3. locks' = [locks EXCEPT ![k] = [owner |-> IF d = 0 THEN NoTask ELSE t, depth |-> d]]
  <2>1. locks' = [locks EXCEPT ![k] = [owner |-> IF locks[k].depth = 1 THEN NoTask ELSE t,
                                       depth |-> locks[k].depth - 1]]
    BY DEF Release
  <2>2. locks[k].depth - 1 = d /\ (locks[k].depth = 1 <=> d = 0)
    BY <1>2
  <2> QED
    BY <2>1, <2>2
<1> HIDE DEF d
<1>0. d \in Nat /\ d = Count(k, stack'[t])
  BY DEF d
<1>4. locks' \in [Locks -> [owner: Tasks \cup {NoTask}, depth: Nat]]
  BY <1>1, <1>3, <1>0
<1>5. ASSUME NEW l \in Locks, l # k
      PROVE  /\ (locks'[l].owner = NoTask) = (locks'[l].depth = 0)
             /\ \A u \in Tasks :
                  Count(l, stack'[u]) = IF locks'[l].owner = u THEN locks'[l].depth ELSE 0
  <2>1. locks'[l] = locks[l]
    BY <1>1, <1>3, <1>5
  <2>2. \A u \in Tasks : Count(l, stack'[u]) = Count(l, stack[u])
    BY <1>5 DEF Others
  <2> QED
    BY <1>1, <2>1, <2>2
<1>6. /\ (locks'[k].owner = NoTask) = (locks'[k].depth = 0)
      /\ \A u \in Tasks :
           Count(k, stack'[u]) = IF locks'[k].owner = u THEN locks'[k].depth ELSE 0
  <2>1. locks'[k] = [owner |-> IF d = 0 THEN NoTask ELSE t, depth |-> d]
    BY <1>1, <1>3
  <2>2. \A u \in Tasks : u # t => Count(k, stack'[u]) = 0
    <3>1. \A u \in Tasks : u # t => Count(k, stack'[u]) = Count(k, stack[u])
      BY DEF Others
    <3> QED
      BY <1>1, <1>2, <3>1
  <2>3. locks'[k].depth = d /\ locks'[k].owner = IF d = 0 THEN NoTask ELSE t
    BY <2>1
  <2> QED
    BY <1>0, <1>2, <2>2, <2>3, TasksAssumption
<1> QED
  BY <1>4, <1>5, <1>6 DEF LocksOK

\* The frames that hold no mutex.
Light(f) ==
    \/ Is(f, "check", "lock") \/ f.proc \in {"update", "notify", "event", "force", "pins"}
    \/ Is(f, "recompute", "lock") \/ Is(f, "flush", "lock")

LEMMA LightWeights ==
  ASSUME NEW f, Light(f)
  PROVE  /\ \A l \in Locks : Weight(l, f) = 0
         /\ f.proc # "update" => Weight("update", f) = 0
  BY DEF Light, Weight, Marked, Is, Locks

LEMMA HeldWeights ==
  ASSUME NEW f
  PROVE  /\ Is(f, "check", "sensor") => \A l \in Locks : Weight(l, f) = IF l = "T" THEN 1 ELSE 0
         /\ f.proc = "held" /\ f.at = "unlock" => \A l \in Locks : Weight(l, f) = IF l = "E" THEN 1 ELSE 0
         /\ f.proc = "recompute" /\ f.at \in {"line", "set", "unlock"} =>
              \A l \in Locks : Weight(l, f) = IF l = "E" THEN 1 ELSE 0
         /\ f.proc = "flush" /\ f.at \in {"write", "report", "bus"} =>
              \A l \in Locks : Weight(l, f) = IF l = "C" THEN 1 ELSE 0
         /\ f.proc # "update" => Weight("update", f) = 0
<1>1. Is(f, "check", "sensor") => \A l \in Locks : Weight(l, f) = IF l = "T" THEN 1 ELSE 0
  BY DEF Weight, Marked, Is, Locks
<1>2. f.proc = "held" /\ f.at = "unlock" => \A l \in Locks : Weight(l, f) = IF l = "E" THEN 1 ELSE 0
  BY DEF Weight, Marked, Is, Locks
<1>3. f.proc = "recompute" /\ f.at \in {"line", "set", "unlock"} =>
        \A l \in Locks : Weight(l, f) = IF l = "E" THEN 1 ELSE 0
  BY DEF Weight, Marked, Is, Locks
<1>4. f.proc = "flush" /\ f.at \in {"write", "report", "bus"} =>
        \A l \in Locks : Weight(l, f) = IF l = "C" THEN 1 ELSE 0
  BY DEF Weight, Marked, Is, Locks
<1>5. f.proc # "update" => Weight("update", f) = 0
  BY DEF Weight, Marked, Is
<1> QED
  BY <1>1, <1>2, <1>3, <1>4, <1>5

-----------------------------------------------------------------------------
(* The ways a task moves, and what they do to the mutexes.                 *)

Swaps(t, f) == Moved(t, f, Tail(stack[t]))
Calls(t, f, g) ==
    /\ Moved(t, g, <<f>> \o Tail(stack[t]))
    /\ Topped(<<f>> \o Tail(stack[t]), f, Tail(stack[t]))
Returns(t) ==
    /\ Others(t) /\ StacksOK' /\ stack'[t] = Tail(stack[t])
    /\ stack'[t] # <<>> => Waits(Head(stack'[t]))

LEMMA SwapCounted ==
  ASSUME StacksOK, NEW t \in Tasks, ~Idle(t), NEW f, Swaps(t, f)
  PROVE  /\ Others(t)
         /\ \A l : /\ Count(l, stack[t]) \in Nat /\ Count(l, stack'[t]) \in Nat
                   /\ Count(l, stack'[t]) = Count(l, stack[t]) + Weight(l, f) - Weight(l, Top(t))
<1> DEFINE r == Tail(stack[t])
<1>1. Topped(stack[t], Top(t), r) /\ Topped(stack'[t], f, r)
  BY TopKnown DEF Swaps, Moved
<1> HIDE DEF r
<1> QED
  BY <1>1 DEF Swaps, Moved, Topped, Weight

LEMMA CallCounted ==
  ASSUME StacksOK, NEW t \in Tasks, ~Idle(t), NEW f, NEW g, Calls(t, f, g)
  PROVE  /\ Others(t)
         /\ \A l : /\ Count(l, stack[t]) \in Nat /\ Count(l, stack'[t]) \in Nat
                   /\ Count(l, stack'[t]) = Count(l, stack[t]) + Weight(l, f) + Weight(l, g)
                                            - Weight(l, Top(t))
<1> DEFINE r == Tail(stack[t])
           q == <<f>> \o r
<1>1. Topped(stack[t], Top(t), r) /\ Topped(stack'[t], g, q) /\ Topped(q, f, r)
  BY TopKnown DEF Calls, Moved
<1> HIDE DEF r, q
<1>2. ASSUME NEW l
      PROVE  /\ Count(l, stack[t]) \in Nat /\ Count(l, stack'[t]) \in Nat
             /\ Count(l, stack'[t]) = Count(l, stack[t]) + Weight(l, f) + Weight(l, g)
                                      - Weight(l, Top(t))
  <2>1. Count(l, r) \in Nat /\ Count(l, stack[t]) = Count(l, r) + Weight(l, Top(t))
        /\ Count(l, q) = Count(l, r) + Weight(l, f) /\ Count(l, stack'[t]) = Count(l, q) + Weight(l, g)
    BY <1>1 DEF Topped
  <2>2. Weight(l, f) \in {0, 1} /\ Weight(l, g) \in {0, 1} /\ Weight(l, Top(t)) \in {0, 1}
    BY DEF Weight
  <2> QED
    BY <2>1, <2>2
<1> QED
  BY <1>2 DEF Calls, Moved

LEMMA ReturnCounted ==
  ASSUME StacksOK, NEW t \in Tasks, ~Idle(t), Returns(t)
  PROVE  /\ Others(t)
         /\ \A l : /\ Count(l, stack[t]) \in Nat /\ Count(l, stack'[t]) \in Nat
                   /\ Count(l, stack[t]) = Count(l, stack'[t]) + Weight(l, Top(t))
<1> DEFINE r == Tail(stack[t])
<1>1. Topped(stack[t], Top(t), r) /\ stack'[t] = r
  BY TopKnown DEF Returns
<1> HIDE DEF r
<1> QED
  BY <1>1 DEF Returns, Topped, Weight

\* The mutexes of a step that takes none and gives none back, takes k, or gives k back.
LEMMA SwapSame ==
  ASSUME StacksOK, LocksOK, NEW t \in Tasks, ~Idle(t), NEW f, Swaps(t, f), UNCHANGED locks,
         \A l \in Locks : Weight(l, f) = Weight(l, Top(t))
  PROVE  LocksOK'
<1>1. \A l \in Locks : Count(l, stack'[t]) = Count(l, stack[t])
  BY SwapCounted DEF Weight
<1> QED
  BY <1>1, LocksSame DEF Swaps, Moved

LEMMA CallSame ==
  ASSUME StacksOK, LocksOK, NEW t \in Tasks, ~Idle(t), NEW f, NEW g, Calls(t, f, g),
         UNCHANGED locks, \A l \in Locks : Weight(l, g) = 0 /\ Weight(l, f) = Weight(l, Top(t))
  PROVE  LocksOK'
<1>1. \A l \in Locks : Count(l, stack'[t]) = Count(l, stack[t])
  BY CallCounted DEF Weight
<1> QED
  BY <1>1, LocksSame DEF Calls, Moved

LEMMA ReturnSame ==
  ASSUME StacksOK, LocksOK, NEW t \in Tasks, ~Idle(t), Returns(t), UNCHANGED locks,
         \A l \in Locks : Weight(l, Top(t)) = 0
  PROVE  LocksOK'
<1>1. \A l \in Locks : Count(l, stack'[t]) = Count(l, stack[t])
  BY ReturnCounted DEF Weight
<1> QED
  BY <1>1, LocksSame DEF Returns

LEMMA SwapTakes ==
  ASSUME StacksOK, LocksOK, NEW t \in Tasks, ~Idle(t), NEW f, Swaps(t, f),
         NEW k \in Locks, Acquire(k, t),
         \A l \in Locks : Weight(l, Top(t)) = 0 /\ Weight(l, f) = IF l = k THEN 1 ELSE 0
  PROVE  LocksOK'
<1>1. /\ Count(k, stack'[t]) = Count(k, stack[t]) + 1
      /\ \A l \in Locks : l # k => Count(l, stack'[t]) = Count(l, stack[t])
  BY SwapCounted DEF Weight
<1> QED
  BY <1>1, LocksTaken DEF Swaps, Moved

LEMMA ReturnGives ==
  ASSUME StacksOK, LocksOK, NEW t \in Tasks, ~Idle(t), Returns(t),
         NEW k \in Locks, Release(k, t),
         \A l \in Locks : Weight(l, Top(t)) = IF l = k THEN 1 ELSE 0
  PROVE  LocksOK'
<1>1. /\ Count(k, stack[t]) = Count(k, stack'[t]) + 1 /\ Count(k, stack'[t]) \in Nat
      /\ \A l \in Locks : l # k => Count(l, stack'[t]) = Count(l, stack[t])
  BY ReturnCounted DEF Weight
<1> QED
  BY <1>1, LocksGiven DEF Returns

-----------------------------------------------------------------------------
(* Frames as the actions make them.                                        *)

LEMMA FrameNew ==
  \A proc \in Procedures, at \in Places : Frame(proc, at) \in Frames /\ Is(Frame(proc, at), proc, at)
<1>1. 0 \in Nat /\ NoEvent \in Events \cup {NoEvent} /\ <<>> \in Seq(Subscribers)
      /\ "" \in Results \cup {"", "on", "off"}
  OBVIOUS
<1> QED
  BY <1>1 DEF Frame, Frames, Is

LEMMA NewFrames ==
  /\ FrameOK(Frame("check", "lock")) /\ Is(Frame("check", "lock"), "check", "lock")
  /\ FrameOK(Frame("force", "lock")) /\ Is(Frame("force", "lock"), "force", "lock")
  /\ FrameOK(Frame("flush", "lock")) /\ Is(Frame("flush", "lock"), "flush", "lock")
  /\ FrameOK(Frame("pins", "reset")) /\ Is(Frame("pins", "reset"), "pins", "reset")
  /\ FrameOK(Frame("recompute", "lock")) /\ Is(Frame("recompute", "lock"), "recompute", "lock")
  /\ FrameOK(Frame("held", "unlock")) /\ Is(Frame("held", "unlock"), "held", "unlock")
<1>1. /\ {"check", "force", "flush", "pins", "recompute", "held"} \subseteq Procedures
      /\ {"lock", "reset", "unlock"} \subseteq Places
  BY DEF Procedures, Places
<1>2. \A proc \in {"check", "force", "flush", "pins", "recompute", "held"},
         at \in {"lock", "reset", "unlock"} :
        Frame(proc, at) \in Frames /\ Is(Frame(proc, at), proc, at)
  BY <1>1, FrameNew
<1> QED
  BY <1>2 DEF FrameOK

\* A frame at another place of its procedure.
LEMMA MovedFrames ==
  ASSUME NEW f \in Frames
  PROVE  /\ \A at \in Places : [f EXCEPT !.at = at] \in Frames
         /\ \A i \in Nat : [f EXCEPT !.i = i] \in Frames
         /\ \A at \in Places, i \in Nat : [f EXCEPT !.at = at, !.i = i] \in Frames
         /\ \A at \in Places, res \in Results \cup {"", "on", "off"} :
              /\ [f EXCEPT !.at = at, !.res = res] \in Frames
              /\ \A i \in Nat : [f EXCEPT !.at = at, !.i = i, !.res = res] \in Frames
  BY DEF Frames

LEMMA NotifyFrameOK ==
  ASSUME Booted(subs), NEW ev \in Events
  PROVE  /\ FrameOK(NotifyFrame(ev)) /\ Is(NotifyFrame(ev), "notify", "next")
         /\ NotifyFrame(ev).i = 0 /\ NotifyFrame(ev).ev = ev
<1> DEFINE n == NotifyFrame(ev)
           n0 == Frame("notify", "next")
<1>1. n0 \in Frames /\ Is(n0, "notify", "next") /\ n0.i = 0
  BY FrameNew DEF Procedures, Places, Frame
<1>2. n = [n0 EXCEPT !.ev = ev, !.to = subs]
  BY DEF NotifyFrame
<1>5. subs \in Seq(Subscribers) /\ 0 < Len(subs)
  BY DEF Booted
<1> HIDE DEF n, n0
<1>3. n \in Frames /\ Is(n, "notify", "next") /\ n.i = 0 /\ n.ev = ev /\ n.to = subs
  BY <1>1, <1>2, <1>5 DEF Frames, Is
<1>4. FrameOK(n)
  BY <1>3, <1>5 DEF FrameOK
<1> QED
  BY <1>3, <1>4 DEF n

-----------------------------------------------------------------------------
(* What each action does to the stack of its task and to the mutexes.      *)

LEMMA LightFacts ==
  ASSUME NEW f, Light(f)
  PROVE  \A l \in Locks : Weight(l, f) = 0
  BY LightWeights

LEMMA CheckBeginsEffect ==
  ASSUME StacksOK, LocksOK, NEW t \in Tasks, CheckBegins(t)
  PROVE  LocksOK' /\ \E f : Swaps(t, f) /\ Is(f, "check", "sensor")
<1> DEFINE g == Top(t)
           f == [g EXCEPT !.at = "sensor", !.i = 1]
<1>1. ~Idle(t) /\ Is(g, "check", "lock") /\ Acquire("T", t) /\ Goto(t, f)
  BY DEF CheckBegins, At, Is
<1>2. FrameOK(g) /\ g \in Frames
  BY <1>1, TopKnown DEF FrameOK
<1>3. FrameOK(f) /\ Is(f, "check", "sensor")
  <2>1. f \in Frames
    BY <1>2, MovedFrames DEF Places
  <2>2. Is(f, "check", "sensor") /\ f.i = 1
    BY <1>1, <1>2 DEF Is, Frames
  <2> QED
    BY <2>1, <2>2 DEF FrameOK
<1> HIDE DEF f
<1>4. Swaps(t, f)
  BY <1>1, <1>3, GotoMoves DEF Swaps
<1>5. \A l \in Locks : Weight(l, g) = 0 /\ Weight(l, f) = IF l = "T" THEN 1 ELSE 0
  BY <1>1, <1>3, LightWeights, HeldWeights DEF Light
<1>6. "T" \in Locks
  BY DEF Locks
<1>7. LocksOK'
  BY <1>1, <1>4, <1>5, <1>6, SwapTakes
<1> QED
  BY <1>3, <1>4, <1>7

\* An event about a sensor says the level that is now on the monitor's books.
LEMMA CheckSensorEffect ==
  ASSUME StacksOK, LocksOK, MonitorOK, NEW t \in Tasks, CheckSensor(t)
  PROVE  /\ LocksOK' /\ UNCHANGED <<registered, reading, thresholds, faults, subs>>
         /\ \E f : /\ Is(f, "check", "sensor")
                   /\ \/ Swaps(t, f) /\ \/ level' = level
                                        \/ \E s \in Sensors : level' = [level EXCEPT ![s] = "NORMAL"]
                      \/ \E g : \E s \in Sensors, lvl \in Levels :
                           /\ Calls(t, f, g) /\ Is(g, "notify", "next") /\ g.i = 0
                           /\ g.ev.src = s /\ g.ev.level = lvl /\ level' = [level EXCEPT ![s] = lvl]
<1> DEFINE g == Top(t)
           f == [g EXCEPT !.i = @ + 1]
           s == SensorOrder[g.i]
           new == IF reading[s] = Invalid THEN "CRITICAL" ELSE LevelOf(reading[s], thresholds[s])
           bound == IF reading[s] = Invalid THEN Failure ELSE Crossed(new, thresholds[s])
           ev == SensorEvent(s, new, bound)
<1>1. ~Idle(t) /\ Is(g, "check", "sensor") /\ g.i <= Len(SensorOrder)
  BY DEF CheckSensor, At, Is
<1>2. FrameOK(g) /\ g \in Frames
  BY <1>1, TopKnown DEF FrameOK
<1>3. g.i \in Nat /\ g.i >= 1
  BY <1>1, <1>2 DEF FrameOK, Is, Frames
<1>4. FrameOK(f) /\ Is(f, "check", "sensor") /\ Waits(f)
  <2>1. g.i + 1 \in Nat /\ g.i + 1 >= 1
    BY <1>3
  <2>2. f = [g EXCEPT !.i = g.i + 1]
    OBVIOUS
  <2>3. f \in Frames
    BY <1>2, <2>1, <2>2, MovedFrames
  <2>4. Is(f, "check", "sensor") /\ f.i = g.i + 1
    BY <1>1, <1>2, <2>2 DEF Is, Frames
  <2> QED
    BY <2>1, <2>3, <2>4 DEF FrameOK, Waits
<1>5. s \in Sensors
  BY <1>1, <1>3, ChipsAssumption
<1>6. \A l \in Locks : Weight(l, f) = Weight(l, g)
  BY <1>1, <1>4, HeldWeights
<1>7. CheckSensor(t) => UNCHANGED <<registered, reading, thresholds, faults, subs, locks>>
  BY DEF CheckSensor
<1>8. ASSUME Goto(t, f)
      PROVE  Swaps(t, f) /\ LocksOK'
  <2> HIDE DEF f
  <2>1. Swaps(t, f)
    BY <1>1, <1>4, <1>8, GotoMoves DEF Swaps
  <2> QED
    BY <1>1, <1>6, <1>7, <2>1, SwapSame
<1>9. ASSUME Call(t, f, NotifyFrame(ev)), Monitored(s)
      PROVE  /\ new \in Levels /\ Calls(t, f, NotifyFrame(ev)) /\ LocksOK'
             /\ Is(NotifyFrame(ev), "notify", "next") /\ NotifyFrame(ev).i = 0
             /\ NotifyFrame(ev).ev = ev
  <2>1. thresholds[s] \in [enabled: BOOLEAN, min: Int, dangerous: Int, critical: Int]
    BY <1>5, <1>9, ChipsAssumption DEF Monitored, MonitorOK, NoSettings
  <2>2. new \in Levels /\ bound \in Int
    <3>1. \A v, th : LevelOf(v, th) \in Levels
      BY DEF LevelOf, Levels
    <3>2. \A lvl : Crossed(lvl, thresholds[s]) \in Int
      BY <2>1 DEF Crossed
    <3>3. Failure \in Int
      BY DEF Failure, Invalid
    <3> QED
      BY <3>1, <3>2, <3>3 DEF Levels
  <2> HIDE DEF new, bound
  <2>3. ev \in Events
    BY <1>5, <2>2 DEF SensorEvent, Events
  <2> HIDE DEF ev, f
  <2>4. FrameOK(NotifyFrame(ev)) /\ Is(NotifyFrame(ev), "notify", "next")
        /\ NotifyFrame(ev).i = 0 /\ NotifyFrame(ev).ev = ev
    BY <2>3, NotifyFrameOK DEF MonitorOK
  <2>5. Calls(t, f, NotifyFrame(ev))
    BY <1>1, <1>4, <1>9, <2>4, CallMoves DEF Calls
  <2>6. \A l \in Locks : Weight(l, NotifyFrame(ev)) = 0
    BY <2>4, LightFacts DEF Light, Is
  <2>7. LocksOK'
    BY <1>1, <1>6, <1>7, <2>5, <2>6, CallSame
  <2> QED
    BY <2>2, <2>4, <2>5, <2>7
<1>10. ev.src = s /\ ev.level = new
  BY DEF SensorEvent
<1>11. \/ Goto(t, f) /\ (level' = level \/ level' = [level EXCEPT ![s] = "NORMAL"])
       \/ Call(t, f, NotifyFrame(ev)) /\ Monitored(s) /\ level' = [level EXCEPT ![s] = new]
  <2> HIDE DEF new, bound
  <2>1. CheckSensor(t) =>
          IF ~Monitored(s)
          THEN Goto(t, f) /\ UNCHANGED level
          ELSE IF reading[s] = Invalid /\ level[s] = "unset"
          THEN level' = [level EXCEPT ![s] = "NORMAL"] /\ Goto(t, f)
          ELSE /\ level' = IF new # Known(s) THEN [level EXCEPT ![s] = new] ELSE level
               /\ Report(t, f, new # Known(s), ev)
    BY DEF CheckSensor, new, bound
  <2> HIDE DEF f, ev, s
  <2> QED
    BY <2>1 DEF Report
<1> HIDE DEF new, f, ev, s, g
<1>12. CASE Goto(t, f) /\ (level' = level \/ level' = [level EXCEPT ![s] = "NORMAL"])
  BY <1>4, <1>5, <1>7, <1>8, <1>12
<1>13. CASE Call(t, f, NotifyFrame(ev)) /\ Monitored(s) /\ level' = [level EXCEPT ![s] = new]
  <2> DEFINE n == NotifyFrame(ev)
  <2>1. /\ Calls(t, f, n) /\ Is(n, "notify", "next") /\ n.i = 0 /\ n.ev.src = s /\ n.ev.level = new
        /\ new \in Levels /\ LocksOK'
    BY <1>9, <1>10, <1>13
  <2> HIDE DEF n
  <2> QED
    BY <1>4, <1>5, <1>7, <1>13, <2>1
<1> QED
  BY <1>11, <1>12, <1>13

LEMMA CheckEndsEffect ==
  ASSUME StacksOK, LocksOK, NEW t \in Tasks, CheckEnds(t)
  PROVE  LocksOK' /\ Returns(t)
<1>1. ~Idle(t) /\ Is(Top(t), "check", "sensor") /\ Release("T", t)
      /\ stack' = [stack EXCEPT ![t] = Tail(stack[t])]
  BY DEF CheckEnds, At, Is, Return
<1>2. Returns(t)
  BY <1>1, ReturnMoves DEF Returns
<1>3. \A l \in Locks : Weight(l, Top(t)) = IF l = "T" THEN 1 ELSE 0
  BY <1>1, HeldWeights
<1>4. "T" \in Locks
  BY DEF Locks
<1> QED
  BY <1>1, <1>2, <1>3, <1>4, ReturnGives

LEMMA ResetSubscriberEffect ==
  ASSUME StacksOK, LocksOK, NEW t \in Tasks, ResetSubscriber(t)
  PROVE  /\ LocksOK'
         /\ \E f : /\ Is(f, "update", "reset")
                   /\ \/ Swaps(t, f) /\ UNCHANGED coord
                      \/ UNCHANGED coord /\ \E g : Calls(t, f, g) /\ Is(g, "force", "lock")
                      \/ /\ Free("C", t) /\ coord' = [coord EXCEPT !.alarm = "NORMAL"]
                         /\ \E g : Calls(t, f, g) /\ Is(g, "flush", "lock")
         /\ \/ UNCHANGED notif
            \/ notif' = [timer |-> FALSE, active |-> FALSE, last |-> NoEvent]
<1> DEFINE g == Top(t)
           f == [g EXCEPT !.i = @ + 1]
<1>1. ~Idle(t) /\ Is(g, "update", "reset") /\ g.i <= Len(g.to) /\ UNCHANGED locks
  BY DEF ResetSubscriber, At, Is
<1>2. FrameOK(g) /\ g \in Frames
  BY <1>1, TopKnown DEF FrameOK
<1>3. g.i \in Nat /\ g.i >= 1 /\ Booted(g.to)
  BY <1>1, <1>2 DEF FrameOK, Is, Frames
<1>4. FrameOK(f) /\ Is(f, "update", "reset") /\ Waits(f)
  <2>1. g.i + 1 \in Nat /\ g.i + 1 >= 1
    BY <1>3
  <2>2. f = [g EXCEPT !.i = g.i + 1]
    OBVIOUS
  <2>3. f \in Frames
    BY <1>2, <2>1, <2>2, MovedFrames
  <2>4. Is(f, "update", "reset") /\ f.i = g.i + 1 /\ f.to = g.to
    BY <1>1, <1>2, <2>2 DEF Is, Frames
  <2> QED
    BY <1>3, <2>1, <2>3, <2>4 DEF FrameOK, Waits
<1>5. \A l \in Locks : Weight(l, f) = 0 /\ Weight(l, g) = 0
  BY <1>1, <1>4, LightFacts DEF Light, Is
<1>6. g.to[g.i] \in {"engine", "notif", "pinout"}
  BY <1>1, <1>3 DEF Booted, BootOrder
<1>7. \/ Call(t, f, Frame("force", "lock")) /\ UNCHANGED <<notif, coord>>
      \/ /\ notif' = [timer |-> FALSE, active |-> FALSE, last |-> NoEvent] /\ UNCHANGED coord
         /\ Goto(t, f)
      \/ /\ Free("C", t) /\ coord' = [coord EXCEPT !.alarm = "NORMAL"] /\ UNCHANGED notif
         /\ Call(t, f, Frame("flush", "lock"))
  <2>1. CASE g.to[g.i] = "engine"
    BY <2>1 DEF ResetSubscriber
  <2>2. CASE g.to[g.i] = "notif"
    BY <2>2 DEF ResetSubscriber
  <2>3. CASE g.to[g.i] = "pinout"
    BY <2>3 DEF ResetSubscriber
  <2> QED
    BY <1>6, <2>1, <2>2, <2>3
<1> HIDE DEF f
<1>8. ASSUME NEW h, FrameOK(h), Light(h), Call(t, f, h)
      PROVE  Calls(t, f, h) /\ LocksOK'
  <2>1. Calls(t, f, h)
    BY <1>1, <1>4, <1>8, CallMoves DEF Calls
  <2>2. \A l \in Locks : Weight(l, h) = 0
    BY <1>8, LightFacts
  <2> QED
    BY <1>1, <1>5, <2>1, <2>2, CallSame
<1>9. ASSUME Goto(t, f)
      PROVE  Swaps(t, f) /\ LocksOK'
  <2>1. Swaps(t, f)
    BY <1>1, <1>4, <1>9, GotoMoves DEF Swaps
  <2> QED
    BY <1>1, <1>5, <2>1, SwapSame
<1>10. /\ FrameOK(Frame("force", "lock")) /\ Light(Frame("force", "lock"))
       /\ FrameOK(Frame("flush", "lock")) /\ Light(Frame("flush", "lock"))
       /\ Is(Frame("force", "lock"), "force", "lock") /\ Is(Frame("flush", "lock"), "flush", "lock")
  BY NewFrames DEF Light, Is
<1> QED
  BY <1>4, <1>7, <1>8, <1>9, <1>10

LEMMA ForgetLevelsEffect ==
  ASSUME StacksOK, LocksOK, NEW t \in Tasks, ForgetLevels(t)
  PROVE  LocksOK' /\ \E f : Swaps(t, f) /\ Is(f, "check", "lock")
<1> DEFINE f == Frame("check", "lock")
<1>1. ~Idle(t) /\ Is(Top(t), "update", "reset") /\ UNCHANGED locks /\ Goto(t, f)
  BY DEF ForgetLevels, At, Is
<1>2. FrameOK(f) /\ Is(f, "check", "lock")
  BY NewFrames
<1> HIDE DEF f
<1>3. Swaps(t, f)
  BY <1>1, <1>2, GotoMoves DEF Swaps
<1>4. \A l \in Locks : Weight(l, Top(t)) = 0 /\ Weight(l, f) = 0
  BY <1>1, <1>2, LightFacts DEF Light, Is
<1> QED
  BY <1>1, <1>2, <1>3, <1>4, SwapSame

\* The engine is told first; a call is made from a list that has more subscribers, and
\* takes the place of the list when it is the last.
LEMMA NotifySubscriberEffect ==
  ASSUME StacksOK, LocksOK, NEW t \in Tasks, NotifySubscriber(t)
  PROVE  /\ LocksOK' /\ Is(Top(t), "notify", "next") /\ Top(t).ev \in Events /\ Top(t).i \in Nat
         /\ \/ /\ Top(t).i = 0 /\ UNCHANGED <<notif, coord>>
               /\ \E g : /\ Is(g, "event", "lock") /\ g.ev = Top(t).ev
                         /\ \/ Swaps(t, g)
                            \/ \E f : Calls(t, f, g) /\ Is(f, "notify", "next") /\ f.i >= 1
            \/ /\ Top(t).i >= 1 /\ UNCHANGED coord
               /\ UNCHANGED notif \/ notif' = Notified(Top(t).ev)
               /\ \/ Returns(t)
                  \/ \E f : Swaps(t, f) /\ Is(f, "notify", "next") /\ f.i >= 1
            \/ /\ Top(t).i >= 1 /\ UNCHANGED notif /\ Free("C", t)
               /\ coord' = [coord EXCEPT !.alarm = Top(t).ev.level]
               /\ \E g : /\ Is(g, "flush", "lock")
                         /\ \/ Swaps(t, g)
                            \/ \E f : Calls(t, f, g) /\ Is(f, "notify", "next") /\ f.i >= 1
<1> DEFINE h == Top(t)
           f == [h EXCEPT !.i = @ + 1]
           e == [Frame("event", "lock") EXCEPT !.ev = h.ev]
           fl == Frame("flush", "lock")
           r == Tail(stack[t])
           last == h.i + 1 = Len(h.to)
           rest == (IF last THEN <<>> ELSE <<f>>) \o r
           subscriber == h.to[h.i + 1]
<1>1. ~Idle(t) /\ Is(h, "notify", "next") /\ UNCHANGED locks
  BY DEF NotifySubscriber, At, Is
<1>2. FrameOK(h) /\ h \in Frames /\ r \in Seq(Frames) /\ Low(r)
  BY <1>1, TopKnown DEF FrameOK, Topped
<1>3. h.i \in Nat /\ Booted(h.to) /\ h.i < Len(h.to) /\ h.ev \in Events
  BY <1>1, <1>2 DEF FrameOK, Is, Frames
<1>4. ~last => FrameOK(f) /\ Waits(f)
  <2> SUFFICES ASSUME ~last
               PROVE  FrameOK(f) /\ Waits(f)
    OBVIOUS
  <2>1. h.i + 1 \in Nat /\ h.i + 1 < Len(h.to)
    BY <1>3 DEF Booted
  <2>2. f = [h EXCEPT !.i = h.i + 1]
    OBVIOUS
  <2>3. f \in Frames
    BY <1>2, <2>1, <2>2, MovedFrames
  <2>4. Is(f, "notify", "next") /\ f.i = h.i + 1 /\ f.to = h.to /\ f.ev = h.ev
    BY <1>1, <1>2, <2>2 DEF Is, Frames
  <2>5. f.i < Len(f.to) /\ Booted(f.to) /\ f.ev \in Events /\ f.i >= 1
    BY <1>3, <2>1, <2>4
  <2> QED
    BY <2>3, <2>4, <2>5 DEF FrameOK, Waits
<1>5. Is(f, "notify", "next") /\ f.i >= 1
  <2>1. f = [h EXCEPT !.i = h.i + 1] /\ h.i + 1 >= 1
    BY <1>3
  <2> QED
    BY <1>1, <1>2, <2>1 DEF Is, Frames
<1>6. FrameOK(e) /\ Is(e, "event", "lock") /\ e.ev = h.ev
  <2> DEFINE e0 == Frame("event", "lock")
  <2>1. e0 \in Frames /\ Is(e0, "event", "lock") /\ e = [e0 EXCEPT !.ev = h.ev]
    BY FrameNew DEF Procedures, Places
  <2> HIDE DEF e0
  <2>2. e \in Frames /\ Is(e, "event", "lock") /\ e.ev = h.ev
    BY <1>3, <2>1 DEF Frames, Is
  <2> HIDE DEF e
  <2> QED
    BY <1>3, <2>2 DEF FrameOK
<1>7. FrameOK(fl) /\ Is(fl, "flush", "lock")
  BY NewFrames
<1>8. subscriber \in {"engine", "notif", "pinout"} /\ (subscriber = "engine" <=> h.i = 0)
  <2>1. h.i + 1 \in 1..Len(h.to) /\ Len(h.to) \in 1..3
    BY <1>3 DEF Booted
  <2>2. subscriber = BootOrder[h.i + 1] /\ h.i + 1 \in 1..3
    BY <1>3, <2>1 DEF Booted
  <2> HIDE DEF subscriber
  <2>3. BootOrder[1] = "engine" /\ BootOrder[2] = "notif" /\ BootOrder[3] = "pinout"
    BY DEF BootOrder
  <2>4. h.i = 0 \/ h.i = 1 \/ h.i = 2
    BY <1>3, <2>2
  <2> QED
    BY <2>2, <2>3, <2>4
<1>9. \/ /\ subscriber = "engine" /\ stack' = [stack EXCEPT ![t] = <<e>> \o rest] /\ UNCHANGED <<notif, coord>>
      \/ /\ subscriber # "engine" /\ stack' = [stack EXCEPT ![t] = rest] /\ UNCHANGED coord
         /\ UNCHANGED notif \/ notif' = Notified(h.ev)
      \/ /\ subscriber # "engine" /\ stack' = [stack EXCEPT ![t] = <<fl>> \o rest] /\ UNCHANGED notif
         /\ Free("C", t) /\ coord' = [coord EXCEPT !.alarm = h.ev.level]
  <2>1. CASE subscriber = "engine"
    BY <2>1 DEF NotifySubscriber
  <2>2. CASE subscriber = "notif"
    BY <2>2 DEF NotifySubscriber
  <2>3. CASE subscriber = "pinout" /\ Hardware(h.ev)
    BY <2>3 DEF NotifySubscriber
  <2>4. CASE subscriber = "pinout" /\ ~Hardware(h.ev)
    BY <2>4 DEF NotifySubscriber
  <2> QED
    BY <1>8, <2>1, <2>2, <2>3, <2>4
<1>10. rest = IF last THEN r ELSE <<f>> \o r
  <2>1. <<>> \o r = r
    BY <1>2
  <2> HIDE DEF f, r, last
  <2> QED
    BY <2>1
<1> HIDE DEF f, e, fl, r, last, rest, subscriber
<1>11. \A l \in Locks : Weight(l, h) = 0 /\ Weight(l, f) = 0 /\ Weight(l, e) = 0 /\ Weight(l, fl) = 0
  BY <1>1, <1>5, <1>6, <1>7, LightFacts DEF Light, Is
<1>12. ASSUME NEW g, FrameOK(g), \A l \in Locks : Weight(l, g) = 0,
              stack' = [stack EXCEPT ![t] = <<g>> \o rest]
       PROVE  LocksOK' /\ (Swaps(t, g) \/ Calls(t, f, g))
  <2>1. CASE last
    <3>1. Goto(t, g)
      BY <1>10, <1>12, <2>1 DEF Goto, r
    <3>2. Swaps(t, g)
      BY <1>1, <1>12, <3>1, GotoMoves DEF Swaps
    <3> QED
      BY <1>1, <1>11, <1>12, <3>2, SwapSame
  <2>2. CASE ~last
    <3>1. f \in Frames /\ g \in Frames
      BY <1>4, <1>12, <2>2 DEF FrameOK
    <3>2. Call(t, f, g)
      BY <1>2, <1>10, <1>12, <2>2, <3>1, TwoOnTop DEF Call, r
    <3>3. Calls(t, f, g)
      BY <1>1, <1>4, <1>12, <2>2, <3>2, CallMoves DEF Calls
    <3> QED
      BY <1>1, <1>11, <1>12, <3>3, CallSame
  <2> QED
    BY <2>1, <2>2
<1>13. ASSUME stack' = [stack EXCEPT ![t] = rest]
       PROVE  LocksOK' /\ (Returns(t) \/ Swaps(t, f))
  <2>1. CASE last
    <3>1. Returns(t)
      BY <1>1, <1>10, <1>13, <2>1, ReturnMoves DEF Returns, r
    <3> QED
      BY <1>1, <1>11, <3>1, ReturnSame
  <2>2. CASE ~last
    <3>1. Goto(t, f)
      BY <1>10, <1>13, <2>2 DEF Goto, r
    <3>2. Swaps(t, f)
      BY <1>1, <1>4, <2>2, <3>1, GotoMoves DEF Swaps
    <3> QED
      BY <1>1, <1>11, <3>2, SwapSame
  <2> QED
    BY <2>1, <2>2
<1>14. subscriber # "engine" => h.i >= 1
  BY <1>3, <1>8
<1>15. CASE /\ subscriber = "engine" /\ stack' = [stack EXCEPT ![t] = <<e>> \o rest]
            /\ UNCHANGED <<notif, coord>>
  <2>1. LocksOK' /\ (Swaps(t, e) \/ Calls(t, f, e))
    BY <1>6, <1>11, <1>12, <1>15
  <2> QED
    BY <1>1, <1>3, <1>5, <1>6, <1>8, <1>15, <2>1
<1>16. CASE /\ subscriber # "engine" /\ stack' = [stack EXCEPT ![t] = rest] /\ UNCHANGED coord
            /\ UNCHANGED notif \/ notif' = Notified(h.ev)
  BY <1>1, <1>3, <1>5, <1>13, <1>14, <1>16
<1>17. CASE /\ subscriber # "engine" /\ stack' = [stack EXCEPT ![t] = <<fl>> \o rest]
            /\ UNCHANGED notif /\ Free("C", t) /\ coord' = [coord EXCEPT !.alarm = h.ev.level]
  <2>1. LocksOK' /\ (Swaps(t, fl) \/ Calls(t, f, fl))
    BY <1>7, <1>11, <1>12, <1>17
  <2> QED
    BY <1>1, <1>3, <1>5, <1>7, <1>14, <1>17, <2>1
<1> QED
  BY <1>9, <1>15, <1>16, <1>17

\* A frame that holds nothing takes the place of one that holds nothing.
LEMMA LightSwap ==
  ASSUME StacksOK, LocksOK, NEW t \in Tasks, ~Idle(t), Light(Top(t)), UNCHANGED locks,
         NEW f, FrameOK(f), Light(f), Goto(t, f)
  PROVE  LocksOK' /\ Swaps(t, f)
<1>1. Swaps(t, f)
  BY GotoMoves DEF Swaps
<1>2. \A l \in Locks : Weight(l, Top(t)) = 0 /\ Weight(l, f) = 0
  BY LightFacts
<1> QED
  BY <1>1, <1>2, SwapSame

LEMMA EngineEventEffect ==
  ASSUME StacksOK, LocksOK, NEW t \in Tasks, EngineEvent(t)
  PROVE  /\ LocksOK' /\ Is(Top(t), "event", "lock") /\ Top(t).ev \in Events
         /\ \E f : Swaps(t, f) /\ Is(f, "recompute", "lock")
<1> DEFINE f == Frame("recompute", "lock")
<1>1. ~Idle(t) /\ Is(Top(t), "event", "lock") /\ UNCHANGED locks /\ Goto(t, f)
  BY DEF EngineEvent, At, Is
<1>2. FrameOK(Top(t)) /\ FrameOK(f) /\ Is(f, "recompute", "lock")
  BY <1>1, TopKnown, NewFrames
<1>3. Top(t).ev \in Events
  BY <1>1, <1>2 DEF FrameOK, Is
<1> HIDE DEF f
<1>4. Light(Top(t)) /\ Light(f)
  BY <1>1, <1>2 DEF Light, Is
<1> QED
  BY <1>1, <1>2, <1>3, <1>4, LightSwap

\* The engine's mutex is held over a recomputation.
LEMMA HoldingEffect ==
  ASSUME StacksOK, LocksOK, NEW t \in Tasks, NEW from \in Seq(Frames), Low(from), Holding(t, from),
         \A l \in Locks : Count(l, stack[t]) = Count(l, from)
  PROVE  /\ LocksOK'
         /\ \E f, g : /\ Is(f, "held", "unlock") /\ Is(g, "recompute", "lock")
                      /\ Moved(t, g, <<f>> \o from) /\ Topped(<<f>> \o from, f, from)
<1> DEFINE f == Frame("held", "unlock")
           g == Frame("recompute", "lock")
           q == <<f>> \o from
<1>1. FrameOK(f) /\ Is(f, "held", "unlock") /\ FrameOK(g) /\ Is(g, "recompute", "lock") /\ Waits(f)
  BY NewFrames DEF Waits
<1>2. stack' = [stack EXCEPT ![t] = <<g, f>> \o from] /\ Acquire("E", t)
  BY DEF Holding
<1> HIDE DEF f, g
<1>3. Moved(t, g, q) /\ Topped(q, f, from)
  BY <1>1, <1>2, PushMoves
<1> HIDE DEF q
<1>4. \A l \in Locks : Weight(l, g) = 0
  BY <1>1, LightFacts DEF Light
<1>5. \A l \in Locks : Weight(l, f) = IF l = "E" THEN 1 ELSE 0
  BY <1>1, HeldWeights DEF Is
<1>6. \A l \in Locks : /\ Count(l, from) \in Nat
                       /\ Count(l, stack'[t]) = Count(l, from) + IF l = "E" THEN 1 ELSE 0
  BY <1>3, <1>4, <1>5 DEF Moved, Topped
<1>7. "E" \in Locks
  BY DEF Locks
<1>8. /\ Count("E", stack'[t]) = Count("E", stack[t]) + 1
      /\ \A l \in Locks : l # "E" => Count(l, stack'[t]) = Count(l, stack[t])
  BY <1>6, <1>7
<1>9. LocksOK'
  BY <1>2, <1>3, <1>7, <1>8, LocksTaken DEF Moved
<1> QED
  BY <1>1, <1>3, <1>9 DEF q

LEMMA ForceResetEffect ==
  ASSUME StacksOK, LocksOK, NEW t \in Tasks, ForceReset(t)
  PROVE  /\ LocksOK' /\ Is(Top(t), "force", "lock")
         /\ \E f, g : Calls(t, f, g) /\ Is(f, "held", "unlock") /\ Is(g, "recompute", "lock")
<1> DEFINE r == Tail(stack[t])
<1>1. ~Idle(t) /\ Is(Top(t), "force", "lock") /\ Holding(t, r)
  BY DEF ForceReset, At, Is
<1>2. Topped(stack[t], Top(t), r)
  BY <1>1, TopKnown
<1> HIDE DEF r
<1>3. \A l \in Locks : Weight(l, Top(t)) = 0
  BY <1>1, LightFacts DEF Light, Is
<1>4. \A l \in Locks : Count(l, stack[t]) = Count(l, r)
  BY <1>2, <1>3 DEF Topped
<1>5. r \in Seq(Frames) /\ Low(r)
  BY <1>2 DEF Topped
<1> QED
  BY <1>1, <1>4, <1>5, HoldingEffect DEF Calls, r

LEMMA EngineUnlockEffect ==
  ASSUME StacksOK, LocksOK, NEW t \in Tasks, EngineUnlock(t) \/ RecomputeEnds(t)
  PROVE  LocksOK' /\ Returns(t)
<1>1. ~Idle(t) /\ Release("E", t) /\ stack' = [stack EXCEPT ![t] = Tail(stack[t])]
      /\ (Is(Top(t), "held", "unlock") \/ Is(Top(t), "recompute", "unlock"))
  BY DEF EngineUnlock, RecomputeEnds, At, Is, Return
<1>2. Returns(t)
  BY <1>1, ReturnMoves DEF Returns
<1>3. \A l \in Locks : Weight(l, Top(t)) = IF l = "E" THEN 1 ELSE 0
  BY <1>1, HeldWeights DEF Is
<1>4. "E" \in Locks
  BY DEF Locks
<1> QED
  BY <1>1, <1>2, <1>3, <1>4, ReturnGives

\* Lines are numbers; the first that is not reserved is 2.
LEMMA LineFacts == /\ Lines \subseteq Nat /\ UserLines \subseteq Nat /\ 2 \in UserLines
                   /\ \A line \in UserLines : line + 1 \in Lines => line + 1 \in UserLines
                   /\ \A i \in Nat, line \in Lines : i < line => i + 1 \in Lines
<1>1. Len(ChipOrder) \in Nat /\ Len(ChipOrder) >= 1 /\ LinesPerChip \in Nat /\ LinesPerChip >= 3
  BY ChipsAssumption
<1> DEFINE n == Len(ChipOrder)
<1>2. n * LinesPerChip \in Nat /\ n * LinesPerChip >= 3
  <2>1. \A a, b \in Nat : a >= 1 /\ b >= 3 => a * b >= 3 /\ a * b \in Nat
    OBVIOUS
  <2> HIDE DEF n
  <2> QED
    BY <1>1, <2>1 DEF n
<1> DEFINE m == n * LinesPerChip
<1>3. Lines = 0..(m - 1) /\ m \in Nat /\ m >= 3
  BY <1>2 DEF Lines
<1> HIDE DEF m
<1>4. Lines \subseteq Nat /\ 2 \in Lines
  BY <1>3
<1>5. UserLines \subseteq Nat /\ 2 \in UserLines
  <2>1. UserLines \subseteq Lines
    BY DEF UserLines
  <2>2. ~Reserved(2)
    BY DEF Reserved
  <2>3. 2 \in UserLines
    BY <1>4, <2>2 DEF UserLines
  <2> QED
    BY <1>4, <2>1, <2>3
<1>6. ASSUME NEW line \in UserLines, line + 1 \in Lines
      PROVE  line + 1 \in UserLines
  <2>1. line \in Nat /\ line # 0 /\ line # 1
    BY <1>4 DEF UserLines, Reserved
  <2>2. line + 1 # 0 /\ line + 1 # 1
    BY <2>1
  <2> QED
    BY <1>6, <2>2 DEF UserLines, Reserved
<1>7. \A i \in Nat, line \in Lines : i < line => i + 1 \in Lines
  BY <1>3
<1> QED
  BY <1>4, <1>5, <1>6, <1>7

LEMMA RecomputeBeginsEffect ==
  ASSUME StacksOK, LocksOK, NEW t \in Tasks, RecomputeBegins(t)
  PROVE  /\ LocksOK' /\ Is(Top(t), "recompute", "lock")
         /\ \E f : Swaps(t, f) /\ Is(f, "recompute", "line") /\ f.i = 2
<1> DEFINE g == Top(t)
           f == [g EXCEPT !.at = "line", !.i = 2]
<1>1. ~Idle(t) /\ Is(g, "recompute", "lock") /\ Acquire("E", t) /\ Goto(t, f)
  BY DEF RecomputeBegins, At, Is
<1>2. FrameOK(g) /\ g \in Frames
  BY <1>1, TopKnown DEF FrameOK
<1>3. FrameOK(f) /\ Is(f, "recompute", "line") /\ f.i = 2
  <2>1. f \in Frames
    BY <1>2, MovedFrames DEF Places
  <2>2. Is(f, "recompute", "line") /\ f.i = 2
    BY <1>1, <1>2 DEF Is, Frames
  <2> HIDE DEF f
  <2> QED
    BY <2>1, <2>2, LineFacts DEF FrameOK
<1> HIDE DEF f
<1>4. Swaps(t, f)
  BY <1>1, <1>3, GotoMoves DEF Swaps
<1>5. \A l \in Locks : Weight(l, g) = 0
  BY <1>1, LightFacts DEF Light
<1>6. \A l \in Locks : Weight(l, f) = IF l = "E" THEN 1 ELSE 0
  BY <1>3, HeldWeights DEF Is
<1>7. "E" \in Locks
  BY DEF Locks
<1>8. LocksOK'
  BY <1>1, <1>4, <1>5, <1>6, <1>7, SwapTakes
<1> QED
  BY <1>1, <1>3, <1>4, <1>8

LEMMA DecideLineEffect ==
  ASSUME StacksOK, LocksOK, NEW t \in Tasks, DecideLine(t)
  PROVE  /\ LocksOK' /\ Is(Top(t), "recompute", "line") /\ Top(t).i \in UserLines
         /\ \E f : /\ Swaps(t, f) /\ Is(f, "recompute", "set") /\ f.i = Top(t).i
                   /\ f.res = Word(Decision(Top(t).i))
<1> DEFINE g == Top(t)
           w == Word(Decision(g.i))
           f == [g EXCEPT !.at = "set", !.res = w]
<1>1. ~Idle(t) /\ Is(g, "recompute", "line") /\ UNCHANGED locks /\ Goto(t, f)
  BY DEF DecideLine, At, Is, Word
<1>2. FrameOK(g) /\ g \in Frames
  BY <1>1, TopKnown DEF FrameOK
<1>3. g.i \in UserLines
  BY <1>1, <1>2 DEF FrameOK, Is
<1>4. w \in {"on", "off"}
  BY DEF Word
<1> HIDE DEF w
<1>5. FrameOK(f) /\ Is(f, "recompute", "set") /\ f.i = g.i /\ f.res = w
  <2>1. f \in Frames
    BY <1>2, <1>4, MovedFrames DEF Places
  <2>2. Is(f, "recompute", "set") /\ f.i = g.i /\ f.res = w
    BY <1>1, <1>2, <1>4 DEF Is, Frames
  <2> HIDE DEF f
  <2> QED
    BY <1>3, <1>4, <2>1, <2>2 DEF FrameOK
<1> HIDE DEF f
<1>6. Swaps(t, f)
  BY <1>1, <1>5, GotoMoves DEF Swaps
<1>7. \A l \in Locks : Weight(l, g) = Weight(l, f)
  BY <1>1, <1>5, HeldWeights DEF Is
<1>8. LocksOK'
  BY <1>1, <1>6, <1>7, SwapSame
<1> QED
  BY <1>1, <1>3, <1>5, <1>6, <1>8 DEF w

LEMMA SetUserLineEffect ==
  ASSUME StacksOK, LocksOK, NEW t \in Tasks, SetUserLine(t)
  PROVE  /\ LocksOK' /\ Is(Top(t), "recompute", "set") /\ Top(t).i \in UserLines
         /\ Top(t).res \in {"on", "off"} /\ Free("C", t)
         /\ coord' = [coord EXCEPT !.user = IF Top(t).res = "on" THEN @ \cup {Top(t).i} ELSE @ \ {Top(t).i}]
         /\ \/ /\ Top(t).i + 1 \in UserLines
               /\ \E f : Swaps(t, f) /\ Is(f, "recompute", "line") /\ f.i = Top(t).i + 1
            \/ /\ Top(t).i + 1 \notin Lines
               /\ \E f, g : Calls(t, f, g) /\ Is(f, "recompute", "unlock") /\ Is(g, "flush", "lock")
<1> DEFINE g == Top(t)
           f == [g EXCEPT !.at = "line", !.i = @ + 1, !.res = ""]
           u == [g EXCEPT !.at = "unlock"]
           fl == Frame("flush", "lock")
<1>1. /\ ~Idle(t) /\ Is(g, "recompute", "set") /\ UNCHANGED locks /\ Free("C", t)
      /\ coord' = [coord EXCEPT !.user = IF g.res = "on" THEN @ \cup {g.i} ELSE @ \ {g.i}]
      /\ IF g.i + 1 \in Lines THEN Goto(t, f) ELSE Call(t, u, fl)
  BY DEF SetUserLine, At, Is
<1>2. FrameOK(g) /\ g \in Frames
  BY <1>1, TopKnown DEF FrameOK
<1>3. g.i \in UserLines /\ g.res \in {"on", "off"} /\ g.i \in Nat /\ g.i + 1 \in Nat
  BY <1>1, <1>2, LineFacts DEF FrameOK, Is
<1>4. CASE g.i + 1 \in Lines
  <2>1. g.i + 1 \in UserLines
    BY <1>3, <1>4, LineFacts
  <2>2. f = [g EXCEPT !.at = "line", !.i = g.i + 1, !.res = ""]
    OBVIOUS
  <2>3. f \in Frames
    BY <1>2, <1>3, <2>2, MovedFrames DEF Places
  <2>4. Is(f, "recompute", "line") /\ f.i = g.i + 1
    BY <1>1, <1>2, <2>2 DEF Is, Frames
  <2>5. Goto(t, f)
    BY <1>1, <1>4
  <2> HIDE DEF f
  <2>6. FrameOK(f)
    BY <2>1, <2>3, <2>4 DEF FrameOK
  <2>7. Swaps(t, f)
    BY <1>1, <2>5, <2>6, GotoMoves DEF Swaps
  <2>8. \A l \in Locks : Weight(l, g) = Weight(l, f)
    BY <1>1, <2>4, HeldWeights DEF Is
  <2>9. LocksOK'
    BY <1>1, <2>7, <2>8, SwapSame
  <2> QED
    BY <1>1, <1>3, <2>1, <2>4, <2>7, <2>9
<1>5. CASE g.i + 1 \notin Lines
  <2>1. u \in Frames /\ Is(u, "recompute", "unlock")
    <3>1. u \in Frames
      BY <1>2, MovedFrames DEF Places
    <3>2. Is(u, "recompute", "unlock")
      BY <1>1, <1>2 DEF Is, Frames
    <3> QED
      BY <3>1, <3>2
  <2>2. Call(t, u, fl) /\ FrameOK(fl) /\ Is(fl, "flush", "lock")
    BY <1>1, <1>5, NewFrames
  <2> HIDE DEF u, fl
  <2>3. FrameOK(u) /\ Waits(u)
    BY <2>1 DEF FrameOK, Waits
  <2>4. Calls(t, u, fl)
    BY <1>1, <2>2, <2>3, CallMoves DEF Calls
  <2>5. \A l \in Locks : Weight(l, g) = Weight(l, u)
    BY <1>1, <2>1, HeldWeights DEF Is
  <2>6. \A l \in Locks : Weight(l, fl) = 0
    BY <2>2, LightFacts DEF Light
  <2>7. LocksOK'
    BY <1>1, <2>4, <2>5, <2>6, CallSame
  <2> QED
    BY <1>1, <1>3, <1>5, <2>1, <2>2, <2>4, <2>7
<1> QED
  BY <1>4, <1>5

LEMMA FlushBeginsEffect ==
  ASSUME StacksOK, LocksOK, NEW t \in Tasks, FlushBegins(t)
  PROVE  /\ LocksOK' /\ Is(Top(t), "flush", "lock")
         /\ \E f : Swaps(t, f) /\ Is(f, "flush", "write") /\ f.i = 1
<1> DEFINE g == Top(t)
           f == [g EXCEPT !.at = "write", !.i = 1]
<1>1. ~Idle(t) /\ Is(g, "flush", "lock") /\ Acquire("C", t) /\ Goto(t, f)
  BY DEF FlushBegins, At, Is
<1>2. FrameOK(g) /\ g \in Frames
  BY <1>1, TopKnown DEF FrameOK
<1>3. FrameOK(f) /\ Is(f, "flush", "write") /\ f.i = 1
  <2>1. f \in Frames
    BY <1>2, MovedFrames DEF Places
  <2>2. Is(f, "flush", "write") /\ f.i = 1
    BY <1>1, <1>2 DEF Is, Frames
  <2> HIDE DEF f
  <2> QED
    BY <2>1, <2>2 DEF FrameOK
<1> HIDE DEF f
<1>4. Swaps(t, f)
  BY <1>1, <1>3, GotoMoves DEF Swaps
<1>5. \A l \in Locks : Weight(l, g) = 0
  BY <1>1, LightFacts DEF Light
<1>6. \A l \in Locks : Weight(l, f) = IF l = "C" THEN 1 ELSE 0
  BY <1>3, HeldWeights DEF Is
<1>7. "C" \in Locks
  BY DEF Locks
<1>8. LocksOK'
  BY <1>1, <1>4, <1>5, <1>6, <1>7, SwapTakes
<1> QED
  BY <1>1, <1>3, <1>4, <1>8

LEMMA WriteChipEffect ==
  ASSUME StacksOK, LocksOK, NEW t \in Tasks, WriteChip(t)
  PROVE  /\ LocksOK' /\ Is(Top(t), "flush", "write")
         /\ Top(t).i \in DOMAIN ChipOrder /\ ChipOrder[Top(t).i] \in Chips
         /\ \E f : \E r \in Results :
              /\ Swaps(t, f) /\ Is(f, "flush", "report") /\ f.i = Top(t).i /\ f.res = r
              /\ written' = [written EXCEPT ![ChipOrder[Top(t).i]] = r]
              /\ out' = IF r = "OK" THEN [out EXCEPT ![ChipOrder[Top(t).i]] = Image(ChipOrder[Top(t).i])]
                        ELSE out
<1> DEFINE g == Top(t)
           f(r) == [g EXCEPT !.at = "report", !.res = r]
<1>1. ~Idle(t) /\ Is(g, "flush", "write") /\ g.i <= Len(ChipOrder) /\ UNCHANGED locks
  BY DEF WriteChip, At, Is
<1>2. FrameOK(g) /\ g \in Frames
  BY <1>1, TopKnown DEF FrameOK
<1>3. g.i \in DOMAIN ChipOrder /\ ChipOrder[g.i] \in Chips
  <2>1. g.i \in Nat /\ g.i >= 1
    BY <1>1, <1>2 DEF FrameOK, Is, Frames
  <2>2. ChipOrder \in Seq(Chips)
    BY ChipsAssumption
  <2> QED
    BY <1>1, <2>1, <2>2
<1>4. PICK r \in Results :
        /\ Goto(t, f(r)) /\ written' = [written EXCEPT ![ChipOrder[g.i]] = r]
        /\ out' = IF r = "OK" THEN [out EXCEPT ![ChipOrder[g.i]] = Image(ChipOrder[g.i])] ELSE out
  BY DEF WriteChip
<1> DEFINE h == f(r)
<1>5. FrameOK(h) /\ Is(h, "flush", "report") /\ h.i = g.i /\ h.res = r
  <2>1. h \in Frames
    BY <1>2, MovedFrames DEF Places
  <2>2. Is(h, "flush", "report") /\ h.i = g.i /\ h.res = r
    BY <1>1, <1>2 DEF Is, Frames
  <2> HIDE DEF h
  <2> QED
    BY <1>3, <2>1, <2>2 DEF FrameOK
<1>6. Goto(t, h)
  BY <1>4
<1> HIDE DEF f, h
<1>7. Swaps(t, h)
  BY <1>1, <1>5, <1>6, GotoMoves DEF Swaps
<1>8. \A l \in Locks : Weight(l, g) = Weight(l, h)
  BY <1>1, <1>5, HeldWeights DEF Is
<1>9. LocksOK'
  BY <1>1, <1>7, <1>8, SwapSame
<1> QED
  BY <1>1, <1>3, <1>4, <1>5, <1>7, <1>9

\* A report of the coordinator, which goes on with the frame h: an event if the fault changed.
Reported(t, h) ==
    \/ faults' = faults /\ Swaps(t, h)
    \/ \E n : Calls(t, h, n) /\ Is(n, "notify", "next") /\ n.i = 0 /\ n.ev.src \in FaultKeys

LEMMA ReportEffect ==
  ASSUME StacksOK, LocksOK, Booted(subs), NEW t \in Tasks, ~Idle(t), UNCHANGED locks,
         Top(t).proc = "flush", Top(t).at \in {"report", "bus"},
         NEW h, FrameOK(h), Waits(h), h.proc = "flush", h.at \in {"write", "bus"},
         NEW changed \in BOOLEAN, NEW ev \in Events, ev.src \in FaultKeys,
         Report(t, h, changed, ev), ~changed => faults' = faults
  PROVE  LocksOK' /\ Reported(t, h)
<1>1. \A l \in Locks : Weight(l, Top(t)) = Weight(l, h)
  BY HeldWeights
<1>2. CASE changed
  <2> DEFINE n == NotifyFrame(ev)
  <2>1. FrameOK(n) /\ Is(n, "notify", "next") /\ n.i = 0 /\ n.ev = ev
    BY NotifyFrameOK
  <2>2. Call(t, h, n)
    BY <1>2 DEF Report
  <2> HIDE DEF n
  <2>3. Calls(t, h, n)
    BY <2>1, <2>2, CallMoves DEF Calls
  <2>4. \A l \in Locks : Weight(l, n) = 0
    BY <2>1, LightFacts DEF Light, Is
  <2>5. LocksOK'
    BY <1>1, <2>3, <2>4, CallSame
  <2> QED
    BY <2>1, <2>3, <2>5 DEF Reported
<1>3. CASE ~changed
  <2>1. Goto(t, h)
    BY <1>3 DEF Report
  <2>2. Swaps(t, h)
    BY <2>1, GotoMoves DEF Swaps
  <2>3. LocksOK'
    BY <1>1, <2>2, SwapSame
  <2> QED
    BY <1>3, <2>2, <2>3 DEF Reported
<1> QED
  BY <1>2, <1>3

LEMMA KeysFacts ==
  /\ Chips \subseteq FaultKeys /\ Bus \in FaultKeys /\ Devices \subseteq FaultKeys
  /\ Bus \notin Chips /\ Bus \notin Devices /\ Chips \cap Devices = {} /\ Sensors \cap FaultKeys = {}
  /\ \A key \in FaultKeys, lvl \in Levels :
       FaultEvent(key, lvl) \in Events /\ FaultEvent(key, lvl).src = key
<1>1. \A key \in FaultKeys, lvl \in Levels :
       FaultEvent(key, lvl) \in Events /\ FaultEvent(key, lvl).src = key
  BY DEF FaultEvent, Events
<1> QED
  BY <1>1, ChipsAssumption

\* After the report of a write the loop goes on: to the bus if it was written, else to the
\* next chip.  A fault that is on its way to change is told.
LEMMA ReportChipEffect ==
  ASSUME StacksOK, LocksOK, CodesOK, Booted(subs), NEW t \in Tasks, ReportChip(t)
  PROVE  /\ LocksOK' /\ Is(Top(t), "flush", "report")
         /\ Top(t).i \in DOMAIN ChipOrder /\ ChipOrder[Top(t).i] \in Chips
         /\ \/ Top(t).res = "OK" /\ faults' = [faults EXCEPT ![ChipOrder[Top(t).i]] = "NONE"]
            \/ Top(t).res = "I2C_NACK" /\ faults' = [faults EXCEPT ![ChipOrder[Top(t).i]] = "I2C_NACK"]
            \/ Top(t).res = "I2C_BUS_DOWN" /\ faults' = [faults EXCEPT ![Bus] = "I2C_BUS_DOWN"]
         /\ \E h : /\ \/ Is(h, "flush", "bus") /\ h.i = Top(t).i
                      \/ Is(h, "flush", "write") /\ h.i = Top(t).i + 1
                   /\ Reported(t, h)
<1> DEFINE g == Top(t)
           chip == ChipOrder[g.i]
           bus == [g EXCEPT !.at = "bus"]
           next == [g EXCEPT !.at = "write", !.i = @ + 1, !.res = ""]
<1>1. ~Idle(t) /\ Is(g, "flush", "report") /\ UNCHANGED locks
  BY DEF ReportChip, At, Is
<1>2. FrameOK(g) /\ g \in Frames
  BY <1>1, TopKnown DEF FrameOK
<1>3. g.i \in DOMAIN ChipOrder /\ g.res \in Results
  BY <1>1, <1>2 DEF FrameOK, Is
<1>4. chip \in Chips /\ chip \in FaultKeys /\ Bus \in FaultKeys /\ g.i \in Nat /\ g.i >= 1
  <2>1. ChipOrder \in Seq(Chips)
    BY ChipsAssumption
  <2> QED
    BY <1>3, <2>1, KeysFacts
<1>5. FrameOK(bus) /\ Is(bus, "flush", "bus") /\ bus.i = g.i /\ Waits(bus)
  <2>1. bus \in Frames
    BY <1>2, MovedFrames DEF Places
  <2>2. Is(bus, "flush", "bus") /\ bus.i = g.i
    BY <1>1, <1>2 DEF Is, Frames
  <2> HIDE DEF bus
  <2> QED
    BY <1>3, <2>1, <2>2 DEF FrameOK, Waits
<1>6. FrameOK(next) /\ Is(next, "flush", "write") /\ next.i = g.i + 1 /\ Waits(next)
  <2>1. next = [g EXCEPT !.at = "write", !.i = g.i + 1, !.res = ""] /\ g.i + 1 \in Nat /\ g.i + 1 >= 1
    BY <1>4
  <2>2. next \in Frames
    BY <1>2, <2>1, MovedFrames DEF Places
  <2>3. Is(next, "flush", "write") /\ next.i = g.i + 1
    BY <1>1, <1>2, <2>1 DEF Is, Frames
  <2> HIDE DEF next
  <2> QED
    BY <2>1, <2>2, <2>3 DEF FrameOK, Waits
<1>7. /\ g.res = "OK" => Clear(t, bus, chip)
      /\ g.res = "I2C_NACK" => Raise(t, next, chip, "I2C_NACK")
      /\ g.res = "I2C_BUS_DOWN" => Raise(t, next, Bus, "I2C_BUS_DOWN")
  BY DEF ReportChip
<1>8. /\ faults \in [FaultKeys -> FaultCodes \cup {"NONE"}]
      /\ faults[chip] \in {"NONE", "I2C_NACK"} /\ faults[Bus] \in {"NONE", "I2C_BUS_DOWN"}
  BY <1>4 DEF CodesOK
<1>9. "CRITICAL" \in Levels /\ "NORMAL" \in Levels
  BY DEF Levels
<1> HIDE DEF bus, next, chip
<1>10. CASE g.res = "OK"
  <2> DEFINE ev == FaultEvent(chip, "NORMAL")
             changed == faults[chip] # "NONE"
  <2>1. faults' = [faults EXCEPT ![chip] = "NONE"] /\ Report(t, bus, changed, ev)
    BY <1>7, <1>10 DEF Clear
  <2>2. ev \in Events /\ ev.src \in FaultKeys /\ (~changed => faults' = faults)
    BY <1>4, <1>8, <1>9, <2>1, KeysFacts
  <2>3. changed \in BOOLEAN
    OBVIOUS
  <2> HIDE DEF ev, changed
  <2>4. LocksOK' /\ Reported(t, bus)
    BY <1>1, <1>5, <2>1, <2>2, <2>3, ReportEffect DEF Is
  <2> QED
    BY <1>1, <1>3, <1>4, <1>5, <1>10, <2>1, <2>2, <2>4 DEF chip
<1>11. CASE g.res = "I2C_NACK"
  <2> DEFINE ev == FaultEvent(chip, "CRITICAL")
             changed == faults[chip] = "NONE"
  <2>1. faults' = [faults EXCEPT ![chip] = "I2C_NACK"] /\ Report(t, next, changed, ev)
    BY <1>7, <1>11 DEF Raise
  <2>2. ev \in Events /\ ev.src \in FaultKeys /\ (~changed => faults' = faults)
    BY <1>4, <1>8, <1>9, <2>1, KeysFacts
  <2>3. changed \in BOOLEAN
    OBVIOUS
  <2> HIDE DEF ev, changed
  <2>4. LocksOK' /\ Reported(t, next)
    BY <1>1, <1>6, <2>1, <2>2, <2>3, ReportEffect DEF Is
  <2> QED
    BY <1>1, <1>3, <1>4, <1>6, <1>11, <2>1, <2>2, <2>4 DEF chip
<1>12. CASE g.res = "I2C_BUS_DOWN"
  <2> DEFINE ev == FaultEvent(Bus, "CRITICAL")
             changed == faults[Bus] = "NONE"
  <2>1. faults' = [faults EXCEPT ![Bus] = "I2C_BUS_DOWN"] /\ Report(t, next, changed, ev)
    BY <1>7, <1>12 DEF Raise
  <2>2. ev \in Events /\ ev.src \in FaultKeys /\ (~changed => faults' = faults)
    BY <1>4, <1>8, <1>9, <2>1, KeysFacts
  <2>3. changed \in BOOLEAN
    OBVIOUS
  <2> HIDE DEF ev, changed
  <2>4. LocksOK' /\ Reported(t, next)
    BY <1>1, <1>6, <2>1, <2>2, <2>3, ReportEffect DEF Is
  <2> QED
    BY <1>1, <1>3, <1>4, <1>6, <1>12, <2>1, <2>2, <2>4 DEF chip
<1> QED
  BY <1>3, <1>10, <1>11, <1>12 DEF Results

LEMMA ReportBusEffect ==
  ASSUME StacksOK, LocksOK, CodesOK, Booted(subs), NEW t \in Tasks, ReportBus(t)
  PROVE  /\ LocksOK' /\ Is(Top(t), "flush", "bus")
         /\ faults' = [faults EXCEPT ![Bus] = "NONE"]
         /\ \E h : /\ Is(h, "flush", "write") /\ h.i = Top(t).i + 1
                   /\ Reported(t, h)
<1> DEFINE g == Top(t)
           next == [g EXCEPT !.at = "write", !.i = @ + 1, !.res = ""]
           ev == FaultEvent(Bus, "NORMAL")
           changed == faults[Bus] # "NONE"
<1>1. /\ ~Idle(t) /\ Is(g, "flush", "bus") /\ UNCHANGED locks
      /\ faults' = [faults EXCEPT ![Bus] = "NONE"] /\ Report(t, next, changed, ev)
  BY DEF ReportBus, At, Is, Clear
<1>2. FrameOK(g) /\ g \in Frames
  BY <1>1, TopKnown DEF FrameOK
<1>3. g.i \in Nat
  BY <1>2 DEF Frames
<1>4. FrameOK(next) /\ Is(next, "flush", "write") /\ next.i = g.i + 1 /\ Waits(next)
  <2>1. next = [g EXCEPT !.at = "write", !.i = g.i + 1, !.res = ""] /\ g.i + 1 \in Nat /\ g.i + 1 >= 1
    BY <1>3
  <2>2. next \in Frames
    BY <1>2, <2>1, MovedFrames DEF Places
  <2>3. Is(next, "flush", "write") /\ next.i = g.i + 1
    BY <1>1, <1>2, <2>1 DEF Is, Frames
  <2> HIDE DEF next
  <2> QED
    BY <2>1, <2>2, <2>3 DEF FrameOK, Waits
<1>5. faults \in [FaultKeys -> FaultCodes \cup {"NONE"}] /\ Bus \in FaultKeys /\ "NORMAL" \in Levels
  BY KeysFacts DEF CodesOK, Levels
<1>6. ev \in Events /\ ev.src \in FaultKeys /\ (~changed => faults' = faults) /\ changed \in BOOLEAN
  BY <1>1, <1>5, KeysFacts
<1> HIDE DEF next, ev, changed
<1>7. LocksOK' /\ Reported(t, next)
  BY <1>1, <1>4, <1>6, ReportEffect DEF Is
<1> QED
  BY <1>1, <1>4, <1>6, <1>7

LEMMA FlushEndsEffect ==
  ASSUME StacksOK, LocksOK, NEW t \in Tasks, FlushEnds(t)
  PROVE  LocksOK' /\ Returns(t) /\ Is(Top(t), "flush", "write") /\ Top(t).i > Len(ChipOrder)
<1>1. ~Idle(t) /\ Release("C", t) /\ stack' = [stack EXCEPT ![t] = Tail(stack[t])]
      /\ Is(Top(t), "flush", "write") /\ Top(t).i > Len(ChipOrder)
  BY DEF FlushEnds, At, Is, Return
<1>2. Returns(t)
  BY <1>1, ReturnMoves DEF Returns
<1>3. \A l \in Locks : Weight(l, Top(t)) = IF l = "C" THEN 1 ELSE 0
  BY <1>1, HeldWeights DEF Is
<1>4. "C" \in Locks
  BY DEF Locks
<1> QED
  BY <1>1, <1>2, <1>3, <1>4, ReturnGives

LEMMA ResetPinsEffect ==
  ASSUME StacksOK, LocksOK, NEW t \in Tasks, ResetPins(t)
  PROVE  LocksOK' /\ Is(Top(t), "pins", "reset") /\ \E f : Swaps(t, f) /\ Is(f, "flush", "lock")
<1> DEFINE f == Frame("flush", "lock")
<1>1. ~Idle(t) /\ Is(Top(t), "pins", "reset") /\ UNCHANGED locks /\ Goto(t, f)
  BY DEF ResetPins, At, Is
<1>2. FrameOK(f) /\ Is(f, "flush", "lock")
  BY NewFrames
<1> HIDE DEF f
<1>3. Light(Top(t)) /\ Light(f)
  BY <1>1, <1>2 DEF Light, Is
<1> QED
  BY <1>1, <1>2, <1>3, LightSwap

-----------------------------------------------------------------------------
(* The types are inductive.                                                *)

LEMMA TypesFollow ==
  ASSUME TypeInv
  PROVE  TypeOK
<1>1. ToSet(subs) \subseteq Subscribers
  BY DEF TypeInv, MonitorOK, Booted, ToSet
<1>2. \A l \in Locks : (locks[l].owner = NoTask) = (locks[l].depth = 0)
  BY DEF TypeInv, LocksOK
<1>3. notif.last \in Events \cup {NoEvent} /\ notif.timer = notif.active
  BY DEF TypeInv, EngineOK
<1>4. coord.user \subseteq UserLines /\ coord.alarm \in Levels
  BY DEF TypeInv, PortsOK
<1> QED
  BY <1>1, <1>2, <1>3, <1>4 DEF TypeOK, TypeInv, MonitorOK, EngineOK, PortsOK, CodesOK, StacksOK

LEMMA InitTyped == Init => TypeInv
<1> SUFFICES ASSUME Init
             PROVE  TypeInv
  OBVIOUS
<1>1. MonitorOK
  <2>1. <<"engine">> \in Seq(Subscribers) /\ Len(<<"engine">>) = 1 /\ <<"engine">>[1] = BootOrder[1]
    BY DEF Subscribers, BootOrder
  <2>2. Booted(subs)
    BY <2>1 DEF Init, Booted
  <2> QED
    BY <2>2 DEF Init, MonitorOK
<1>2. EngineOK
  BY DEF Init, EngineOK, Levels
<1>3. PortsOK
  BY DEF Init, PortsOK, Levels, Results
<1>4. CodesOK
  BY KeysFacts DEF Init, CodesOK
<1>5. StacksOK
  BY EmptyStackOK DEF Init, StacksOK
<1>6. LocksOK
  <2>1. /\ locks = [l \in Locks |-> [owner |-> NoTask, depth |-> 0]]
        /\ \A t \in Tasks : stack[t] = <<>>
    BY DEF Init
  <2>2. \A l \in Locks, t \in Tasks : Count(l, stack[t]) = 0
    BY <2>1, CountEmpty
  <2>3. \A l \in Locks : locks[l].owner = NoTask /\ locks[l].depth = 0
    BY <2>1
  <2> QED
    BY <2>1, <2>2, <2>3 DEF LocksOK
<1> QED
  BY <1>1, <1>2, <1>3, <1>4, <1>5, <1>6 DEF TypeInv

LEMMA SwapsStacks ==
  ASSUME NEW t, NEW f
  PROVE  /\ Swaps(t, f) => StacksOK' /\ Others(t)
         /\ Returns(t) => StacksOK' /\ Others(t)
         /\ \A g : Calls(t, f, g) => StacksOK' /\ Others(t)
  BY DEF Swaps, Returns, Calls, Moved

\* Every step of a call leaves the stacks and the mutexes in order.
LEMMA InsideStacks ==
  ASSUME TypeInv, NEW t \in Tasks, Inside(t)
  PROVE  StacksOK' /\ LocksOK' /\ Others(t)
<1>0. StacksOK /\ LocksOK /\ MonitorOK /\ CodesOK /\ Booted(subs)
  BY DEF TypeInv, MonitorOK
<1>1. CASE CheckBegins(t)
  BY <1>0, <1>1, CheckBeginsEffect, SwapsStacks
<1>2. CASE CheckSensor(t)
  BY <1>0, <1>2, CheckSensorEffect, SwapsStacks
<1>3. CASE CheckEnds(t)
  BY <1>0, <1>3, CheckEndsEffect, SwapsStacks
<1>4. CASE ResetSubscriber(t)
  BY <1>0, <1>4, ResetSubscriberEffect, SwapsStacks
<1>5. CASE ForgetLevels(t)
  BY <1>0, <1>5, ForgetLevelsEffect, SwapsStacks
<1>6. CASE NotifySubscriber(t)
  BY <1>0, <1>6, NotifySubscriberEffect, SwapsStacks
<1>7. CASE EngineEvent(t)
  BY <1>0, <1>7, EngineEventEffect, SwapsStacks
<1>8. CASE ForceReset(t)
  BY <1>0, <1>8, ForceResetEffect, SwapsStacks
<1>9. CASE EngineUnlock(t) \/ RecomputeEnds(t)
  BY <1>0, <1>9, EngineUnlockEffect, SwapsStacks
<1>10. CASE RecomputeBegins(t)
  BY <1>0, <1>10, RecomputeBeginsEffect, SwapsStacks
<1>11. CASE DecideLine(t)
  BY <1>0, <1>11, DecideLineEffect, SwapsStacks
<1>12. CASE SetUserLine(t)
  BY <1>0, <1>12, SetUserLineEffect, SwapsStacks
<1>13. CASE FlushBegins(t)
  BY <1>0, <1>13, FlushBeginsEffect, SwapsStacks
<1>14. CASE WriteChip(t)
  BY <1>0, <1>14, WriteChipEffect, SwapsStacks
<1>15. CASE ReportChip(t)
  BY <1>0, <1>15, ReportChipEffect, SwapsStacks DEF Reported
<1>16. CASE ReportBus(t)
  BY <1>0, <1>16, ReportBusEffect, SwapsStacks DEF Reported
<1>17. CASE FlushEnds(t)
  BY <1>0, <1>17, FlushEndsEffect, SwapsStacks
<1>18. CASE ResetPins(t)
  BY <1>0, <1>18, ResetPinsEffect, SwapsStacks
<1> QED
  BY <1>1, <1>2, <1>3, <1>4, <1>5, <1>6, <1>7, <1>8, <1>9, <1>10, <1>11, <1>12, <1>13, <1>14,
     <1>15, <1>16, <1>17, <1>18 DEF Inside

\* The monitor's variables.
LEMMA InsideMonitor ==
  ASSUME TypeInv, NEW t \in Tasks, Inside(t)
  PROVE  MonitorOK' /\ CodesOK'
<1>0. StacksOK /\ LocksOK /\ MonitorOK /\ CodesOK /\ Booted(subs)
  BY DEF TypeInv, MonitorOK
<1>1. CASE UNCHANGED monitorVars
  BY <1>0, <1>1 DEF monitorVars, MonitorOK, CodesOK
<1>2. CASE CheckSensor(t)
  <2>1. /\ UNCHANGED <<registered, reading, thresholds, faults, subs>>
        /\ \/ level' = level
           \/ \E s \in Sensors, lvl \in Levels : level' = [level EXCEPT ![s] = lvl]
    BY <1>0, <1>2, CheckSensorEffect DEF Levels
  <2>2. level' \in [Sensors -> Levels \cup {"unset"}]
    BY <1>0, <2>1 DEF MonitorOK
  <2> QED
    BY <1>0, <2>1, <2>2 DEF MonitorOK, CodesOK
<1>3. CASE ForgetLevels(t)
  BY <1>0, <1>3 DEF ForgetLevels, MonitorOK, CodesOK
<1>4. CASE ReportChip(t)
  <2>1. UNCHANGED <<registered, reading, thresholds, level, subs>>
    BY <1>4 DEF ReportChip
  <2> DEFINE chip == ChipOrder[Top(t).i]
  <2>2. /\ chip \in Chips
        /\ \/ faults' = [faults EXCEPT ![chip] = "NONE"]
           \/ faults' = [faults EXCEPT ![chip] = "I2C_NACK"]
           \/ faults' = [faults EXCEPT ![Bus] = "I2C_BUS_DOWN"]
    BY <1>0, <1>4, ReportChipEffect
  <2> HIDE DEF chip
  <2>3. CodesOK'
    BY <1>0, <2>2, KeysFacts DEF CodesOK, FaultCodes
  <2> QED
    BY <1>0, <2>1, <2>3 DEF MonitorOK
<1>5. CASE ReportBus(t)
  <2>1. UNCHANGED <<registered, reading, thresholds, level, subs>>
        /\ faults' = [faults EXCEPT ![Bus] = "NONE"]
    BY <1>0, <1>5, ReportBusEffect DEF ReportBus
  <2> QED
    BY <1>0, <2>1, KeysFacts DEF CodesOK, MonitorOK
<1>6. Inside(t) => \/ UNCHANGED monitorVars \/ CheckSensor(t) \/ ForgetLevels(t)
                   \/ ReportChip(t) \/ ReportBus(t)
  BY DEF Inside, CheckBegins, CheckEnds, ResetSubscriber, NotifySubscriber, EngineEvent,
     ForceReset, EngineUnlock, RecomputeBegins, DecideLine, SetUserLine, RecomputeEnds,
     FlushBegins, WriteChip, FlushEnds, ResetPins, monitorVars
<1> QED
  BY <1>1, <1>2, <1>3, <1>4, <1>5, <1>6

LEMMA NotifFacts ==
  LET N == [timer: BOOLEAN, active: BOOLEAN, last: Events \cup {NoEvent}] IN
  /\ \A b \in BOOLEAN, e \in Events \cup {NoEvent} :
       LET n == [timer |-> b, active |-> b, last |-> e] IN n \in N /\ n.timer = n.active
  /\ \A n \in N : LET m == [n EXCEPT !.timer = FALSE, !.active = FALSE] IN m \in N /\ m.timer = m.active
<1> DEFINE E == Events \cup {NoEvent}
           N == [timer: BOOLEAN, active: BOOLEAN, last: E]
<1> HIDE DEF E
<1>1. ASSUME NEW b \in BOOLEAN, NEW e \in E
      PROVE  LET n == [timer |-> b, active |-> b, last |-> e] IN n \in N /\ n.timer = n.active
  OBVIOUS
<1>2. ASSUME NEW n \in N
      PROVE  LET m == [n EXCEPT !.timer = FALSE, !.active = FALSE] IN m \in N /\ m.timer = m.active
  <2> FALSE \in BOOLEAN
    OBVIOUS
  <2> QED
    OBVIOUS
<1> QED
  BY <1>1, <1>2 DEF E

\* The variables of the engine, the notifications and the ports.
LEMMA InsidePorts ==
  ASSUME TypeInv, NEW t \in Tasks, Inside(t)
  PROVE  EngineOK' /\ PortsOK'
<1>0. StacksOK /\ LocksOK /\ EngineOK /\ PortsOK
  BY DEF TypeInv
<1>1. CASE UNCHANGED <<engineVars, notif, portVars>>
  BY <1>0, <1>1 DEF engineVars, portVars, EngineOK, PortsOK, Image, LinesOf
<1>2. CASE ResetSubscriber(t)
  <2>1. UNCHANGED <<rules, manual, seen, out, written>>
    BY <1>2 DEF ResetSubscriber, engineVars
  <2>2. /\ notif' = notif \/ notif' = [timer |-> FALSE, active |-> FALSE, last |-> NoEvent]
        /\ coord' = coord \/ coord' = [coord EXCEPT !.alarm = "NORMAL"]
    BY <1>0, <1>2, ResetSubscriberEffect
  <2> DEFINE N == [timer: BOOLEAN, active: BOOLEAN, last: Events \cup {NoEvent}]
  <2>5. notif \in N /\ notif.timer = notif.active
    BY <1>0 DEF EngineOK
  <2>6. notif' \in N /\ notif'.timer = notif'.active
    <3>1. NoEvent \in Events \cup {NoEvent} /\ FALSE \in BOOLEAN
      OBVIOUS
    <3>2. [timer |-> FALSE, active |-> FALSE, last |-> NoEvent] \in N
      BY <3>1, NotifFacts
    <3> QED
      BY <2>2, <2>5, <3>2
  <2>3. EngineOK'
    BY <1>0, <2>1, <2>6 DEF EngineOK
  <2>4. coord' \in [user: SUBSET UserLines, alarm: Levels]
    BY <1>0, <2>2 DEF PortsOK, Levels
  <2> QED
    BY <1>0, <2>1, <2>3, <2>4 DEF PortsOK
<1>3. CASE NotifySubscriber(t)
  <2>1. UNCHANGED <<rules, manual, seen, out, written>>
    BY <1>3 DEF NotifySubscriber, engineVars
  <2> DEFINE ev == Top(t).ev
  <2>2. /\ notif' = notif \/ notif' = Notified(ev)
        /\ coord' = coord \/ coord' = [coord EXCEPT !.alarm = ev.level]
        /\ ev \in Events
    BY <1>0, <1>3, NotifySubscriberEffect
  <2> HIDE DEF ev
  <2>3. ev.level \in Levels
    BY <2>2 DEF Events
  <2>4. EngineOK'
    <3>1. \/ notif' = notif
          \/ notif' = [timer |-> TRUE, active |-> TRUE, last |-> ev]
          \/ notif' = [notif EXCEPT !.timer = FALSE, !.active = FALSE]
      BY <2>2 DEF Notified
    <3> DEFINE N == [timer: BOOLEAN, active: BOOLEAN, last: Events \cup {NoEvent}]
    <3>2. notif \in N /\ notif.timer = notif.active
      BY <1>0 DEF EngineOK
    <3>3. ev \in Events \cup {NoEvent} /\ TRUE \in BOOLEAN /\ FALSE \in BOOLEAN
      BY <2>2
    <3>4. notif' \in N /\ notif'.timer = notif'.active
      <4>1. CASE notif' = notif
        BY <3>2, <4>1
      <4>2. CASE notif' = [timer |-> TRUE, active |-> TRUE, last |-> ev]
        BY <3>3, <4>2, NotifFacts
      <4>3. CASE notif' = [notif EXCEPT !.timer = FALSE, !.active = FALSE]
        BY <3>2, <4>3, NotifFacts
      <4> QED
        BY <3>1, <4>1, <4>2, <4>3
    <3> QED
      BY <1>0, <2>1, <3>4 DEF EngineOK
  <2> QED
    BY <1>0, <2>1, <2>2, <2>3, <2>4 DEF PortsOK
<1>4. CASE EngineEvent(t)
  <2> DEFINE ev == Top(t).ev
  <2>1. /\ UNCHANGED <<rules, manual, notif, coord, out, written>> /\ ev \in Events
        /\ seen' = IF Hardware(ev) THEN seen ELSE [seen EXCEPT ![ev.src] = ev.level]
    BY <1>0, <1>4, EngineEventEffect DEF EngineEvent, portVars
  <2> HIDE DEF ev
  <2>2. ~Hardware(ev) => ev.src \in Sensors /\ ev.level \in Levels
    BY <2>1 DEF Hardware, Events
  <2> QED
    BY <1>0, <2>1, <2>2 DEF EngineOK, PortsOK
<1>5. CASE ForceReset(t)
  BY <1>0, <1>5 DEF ForceReset, EngineOK, PortsOK, portVars, Levels
<1>6. CASE SetUserLine(t)
  <2>1. UNCHANGED <<rules, manual, seen, notif, out, written>>
    BY <1>6 DEF SetUserLine, engineVars
  <2>2. /\ Top(t).i \in UserLines
        /\ coord' = [coord EXCEPT !.user = IF Top(t).res = "on" THEN @ \cup {Top(t).i} ELSE @ \ {Top(t).i}]
    BY <1>0, <1>6, SetUserLineEffect
  <2>3. coord' \in [user: SUBSET UserLines, alarm: Levels]
    BY <1>0, <2>2 DEF PortsOK
  <2> QED
    BY <1>0, <2>1, <2>3 DEF EngineOK, PortsOK
<1>7. CASE WriteChip(t)
  <2>1. UNCHANGED <<rules, manual, seen, notif, coord>>
    BY <1>7 DEF WriteChip, engineVars
  <2> DEFINE c == ChipOrder[Top(t).i]
  <2>2. PICK r \in Results : /\ written' = [written EXCEPT ![c] = r]
                             /\ out' = IF r = "OK" THEN [out EXCEPT ![c] = Image(c)] ELSE out
    BY <1>0, <1>7, WriteChipEffect
  <2>3. c \in Chips
    BY <1>0, <1>7, WriteChipEffect
  <2>4. Image(c) \subseteq LinesOf(c) /\ LinesOf(c) \subseteq Lines
    BY DEF Image, LinesOf
  <2> HIDE DEF c
  <2>5. out' \in [Chips -> SUBSET Lines] /\ \A d \in Chips : out'[d] \subseteq LinesOf(d)
    BY <1>0, <2>2, <2>3, <2>4 DEF PortsOK
  <2>6. written' \in [Chips -> Results]
    BY <1>0, <2>2, <2>3 DEF PortsOK
  <2> QED
    BY <1>0, <2>1, <2>5, <2>6 DEF EngineOK, PortsOK
<1>8. CASE ResetPins(t)
  BY <1>0, <1>8 DEF ResetPins, EngineOK, PortsOK, engineVars, Levels
<1>9. Inside(t) => \/ UNCHANGED <<engineVars, notif, portVars>> \/ ResetSubscriber(t)
                   \/ NotifySubscriber(t) \/ EngineEvent(t) \/ ForceReset(t) \/ SetUserLine(t)
                   \/ WriteChip(t) \/ ResetPins(t)
  BY DEF Inside, CheckBegins, CheckSensor, CheckEnds, ForgetLevels, EngineUnlock, RecomputeBegins,
     DecideLine, RecomputeEnds, FlushBegins, ReportChip, ReportBus, FlushEnds
<1> QED
  BY <1>1, <1>2, <1>3, <1>4, <1>5, <1>6, <1>7, <1>8, <1>9

-----------------------------------------------------------------------------
(* Steps that begin a call, or make none.                                  *)

Starts(t, f) == stack[t] = <<>> /\ Moved(t, f, <<>>)

LEMMA TaskFacts == Webs \subseteq Tasks /\ Devices \subseteq Tasks /\ "timer" \in Tasks /\ "boot" \in Tasks
  BY DEF Tasks

LEMMA StartEffect ==
  ASSUME StacksOK, LocksOK, NEW t \in Tasks, NEW f, FrameOK(f), Light(f),
         UNCHANGED locks, Idle(t), stack' = [stack EXCEPT ![t] = <<f>>]
  PROVE  LocksOK' /\ Starts(t, f)
<1>1. stack[t] = <<>>
  BY DEF Idle
<1>2. Moved(t, f, <<>>)
  BY EnterMoves
<1>3. \A l \in Locks : Weight(l, f) = 0
  BY LightFacts
<1>4. \A l \in Locks : Count(l, stack'[t]) = Count(l, stack[t])
  <2>1. \A l \in Locks : Count(l, <<>>) = 0 /\ Count(l, stack'[t]) = Count(l, <<>>) + Weight(l, f)
    BY <1>2, CountEmpty DEF Moved, Topped
  <2> QED
    BY <1>1, <1>3, <2>1
<1>5. LocksOK'
  BY <1>2, <1>4, LocksSame DEF Moved
<1> QED
  BY <1>1, <1>2, <1>5 DEF Starts

LEMMA UpdateThresholdsEffect ==
  ASSUME TypeInv, NEW w \in Webs, UpdateThresholds(w)
  PROVE  /\ LocksOK' /\ StacksOK' /\ Others(w) /\ w \in Tasks
         /\ stack' = stack \/ \E f : Starts(w, f) /\ Is(f, "update", "reset")
<1> DEFINE f0 == Frame("update", "reset")
           f == [f0 EXCEPT !.i = 1, !.to = subs]
<1>1. w \in Tasks /\ StacksOK /\ LocksOK /\ Booted(subs) /\ UNCHANGED locks /\ Idle(w)
  BY TaskFacts DEF TypeInv, MonitorOK, UpdateThresholds
<1>2. stack' = [stack EXCEPT ![w] = <<f>>] \/ stack' = [stack EXCEPT ![w] = <<>>]
  BY DEF UpdateThresholds
<1>3. f0 \in Frames /\ Is(f0, "update", "reset")
  BY FrameNew DEF Procedures, Places
<1>4. subs \in Seq(Subscribers)
  BY <1>1 DEF Booted
<1> HIDE DEF f0
<1>5. f \in Frames /\ Is(f, "update", "reset") /\ f.i = 1 /\ f.to = subs
  BY <1>3, <1>4 DEF Frames, Is
<1> HIDE DEF f
<1>6. FrameOK(f) /\ Light(f)
  BY <1>1, <1>5 DEF FrameOK, Light, Is
<1>7. CASE stack' = [stack EXCEPT ![w] = <<f>>]
  <2>1. LocksOK' /\ Starts(w, f)
    BY <1>1, <1>6, <1>7, StartEffect
  <2> QED
    BY <1>1, <1>5, <2>1 DEF Starts, Moved
<1>8. CASE stack' = [stack EXCEPT ![w] = <<>>]
  <2>1. stack' = stack
    BY <1>1, <1>8 DEF Idle, StacksOK
  <2> QED
    BY <1>1, <2>1 DEF LocksOK, StacksOK, Others
<1> QED
  BY <1>2, <1>7, <1>8

LEMMA WebHoldsEffect ==
  ASSUME TypeInv, NEW w \in Webs, Override(w) \/ LoadRules(w)
  PROVE  /\ LocksOK' /\ StacksOK' /\ Others(w) /\ w \in Tasks /\ stack[w] = <<>>
         /\ \E f, g : /\ Is(f, "held", "unlock") /\ Is(g, "recompute", "lock")
                      /\ Moved(w, g, <<f>> \o <<>>) /\ Topped(<<f>> \o <<>>, f, <<>>)
<1>1. /\ w \in Tasks /\ StacksOK /\ LocksOK /\ Holding(w, <<>>) /\ stack[w] = <<>>
  BY TaskFacts DEF TypeInv, Override, LoadRules, Idle
<1>2. \A l \in Locks : Count(l, stack[w]) = Count(l, <<>>)
  BY <1>1
<1>3. /\ LocksOK'
      /\ \E f, g : /\ Is(f, "held", "unlock") /\ Is(g, "recompute", "lock")
                   /\ Moved(w, g, <<f>> \o <<>>) /\ Topped(<<f>> \o <<>>, f, <<>>)
  BY <1>1, <1>2, HoldingEffect, EmptyStackOK
<1> QED
  BY <1>1, <1>3 DEF Moved

LEMMA DeviceEffect ==
  ASSUME TypeInv, NEW d \in Devices, Device(d)
  PROVE  /\ LocksOK' /\ d \in Tasks
         /\ \E n : Starts(d, n) /\ Is(n, "notify", "next") /\ n.i = 0 /\ n.ev.src \in FaultKeys
<1> DEFINE ev(lvl) == FaultEvent(d, lvl)
<1>1. d \in Tasks /\ StacksOK /\ LocksOK /\ Booted(subs) /\ UNCHANGED locks
  BY TaskFacts DEF TypeInv, MonitorOK, Device, DeviceFault, DeviceRecovers
<1>2. PICK lvl \in {"CRITICAL", "NORMAL"} : Enter(d, NotifyFrame(ev(lvl)))
  BY DEF Device, DeviceFault, DeviceRecovers
<1> DEFINE e == ev(lvl)
           n == NotifyFrame(e)
<1>3. e \in Events /\ e.src \in FaultKeys
  BY KeysFacts DEF Levels
<1>4. Enter(d, n)
  BY <1>2
<1> HIDE DEF e
<1>5. FrameOK(n) /\ Is(n, "notify", "next") /\ n.i = 0 /\ n.ev = e
  BY <1>1, <1>3, NotifyFrameOK
<1> HIDE DEF n
<1>6. Light(n)
  BY <1>5 DEF Light, Is
<1>7. LocksOK' /\ Starts(d, n)
  BY <1>1, <1>4, <1>5, <1>6, StartEffect DEF Enter
<1> QED
  BY <1>1, <1>3, <1>5, <1>7

LEMMA TimerEffect ==
  ASSUME TypeInv
  PROVE  /\ \A t \in Tasks : StartCheck(t) => LocksOK' /\ \E f : Starts(t, f) /\ Is(f, "check", "lock")
         /\ RulesTick => LocksOK' /\ \E f : Starts("timer", f) /\ Is(f, "recompute", "lock")
         /\ Subscribe => /\ LocksOK' /\ StacksOK' /\ Others("boot")
                         /\ stack' = stack \/ \E f : Starts("boot", f) /\ Is(f, "pins", "reset")
<1>1. StacksOK /\ LocksOK /\ "timer" \in Tasks /\ "boot" \in Tasks
  BY TaskFacts DEF TypeInv
<1>2. ASSUME NEW t \in Tasks, NEW f, FrameOK(f), Light(f), UNCHANGED locks, Enter(t, f)
      PROVE  LocksOK' /\ Starts(t, f)
  BY <1>1, <1>2, StartEffect DEF Enter
<1>3. ASSUME NEW t \in Tasks, StartCheck(t)
      PROVE  LocksOK' /\ \E f : Starts(t, f) /\ Is(f, "check", "lock")
  <2> DEFINE f == Frame("check", "lock")
  <2>1. FrameOK(f) /\ Is(f, "check", "lock") /\ Light(f) /\ UNCHANGED locks /\ Enter(t, f)
    BY <1>3, NewFrames DEF StartCheck, Light
  <2> HIDE DEF f
  <2> QED
    BY <1>2, <2>1
<1>4. ASSUME RulesTick
      PROVE  LocksOK' /\ \E f : Starts("timer", f) /\ Is(f, "recompute", "lock")
  <2> DEFINE f == Frame("recompute", "lock")
  <2>1. FrameOK(f) /\ Is(f, "recompute", "lock") /\ Light(f) /\ UNCHANGED locks /\ Enter("timer", f)
    BY <1>4, NewFrames DEF RulesTick, Light
  <2> HIDE DEF f
  <2> QED
    BY <1>1, <1>2, <2>1
<1>5. ASSUME Subscribe
      PROVE  /\ LocksOK' /\ StacksOK' /\ Others("boot")
             /\ stack' = stack \/ \E f : Starts("boot", f) /\ Is(f, "pins", "reset")
  <2> DEFINE f == Frame("pins", "reset")
  <2>1. FrameOK(f) /\ Is(f, "pins", "reset") /\ Light(f) /\ UNCHANGED locks
        /\ (stack' = stack \/ Enter("boot", f))
    BY <1>5, NewFrames DEF Subscribe, Light, Is, Enter
  <2> HIDE DEF f
  <2>2. CASE stack' = stack
    BY <1>1, <2>1, <2>2 DEF StacksOK, LocksOK, Others
  <2>3. CASE Enter("boot", f)
    <3>1. LocksOK' /\ Starts("boot", f)
      BY <1>1, <1>2, <2>1, <2>3
    <3> QED
      BY <2>1, <3>1 DEF Starts, Moved
  <2> QED
    BY <2>1, <2>2, <2>3
<1> QED
  BY <1>3, <1>4, <1>5

LEMMA OutsideTyped ==
  ASSUME TypeInv, Next, \A t \in Tasks : ~Inside(t)
  PROVE  TypeInv'
<1>0. StacksOK /\ LocksOK /\ MonitorOK /\ CodesOK /\ EngineOK /\ PortsOK
  BY DEF TypeInv
<1>1. ASSUME NEW w \in Webs, UpdateThresholds(w)
      PROVE  TypeInv'
  <2>1. LocksOK' /\ StacksOK'
    BY <1>1, UpdateThresholdsEffect
  <2>2. UNCHANGED <<registered, reading, level, faults, subs, engineVars, notif, portVars>>
    BY <1>1 DEF UpdateThresholds
  <2>3. PICK s \in Sensors, setting \in Settings : thresholds' = UpdatedThresholds(s, setting)
    BY <1>1 DEF UpdateThresholds
  <2>4. thresholds' \in [Sensors -> Settings \cup {NoSettings}]
    BY <1>0, <2>3 DEF UpdatedThresholds, MonitorOK
  <2>5. MonitorOK' /\ CodesOK'
    BY <1>0, <2>2, <2>4 DEF MonitorOK, CodesOK
  <2>6. EngineOK' /\ PortsOK'
    BY <1>0, <2>2 DEF EngineOK, PortsOK, engineVars, portVars
  <2> QED
    BY <2>1, <2>5, <2>6 DEF TypeInv
<1>2. ASSUME NEW w \in Webs, Override(w) \/ LoadRules(w)
      PROVE  TypeInv'
  <2>1. LocksOK' /\ StacksOK'
    BY <1>2, WebHoldsEffect
  <2>2. UNCHANGED <<monitorVars, seen, notif, portVars>>
        /\ (manual' = manual \/ manual' = [line \in UserLines |-> "rules"]
            \/ \E line \in UserLines, choice \in {"on", "off", "rules"} : manual' = [manual EXCEPT ![line] = choice])
    BY <1>2 DEF Override, LoadRules
  <2>3. manual' \in [UserLines -> {"on", "off", "rules"}]
    BY <1>0, <2>2 DEF EngineOK
  <2>4. EngineOK' /\ PortsOK'
    BY <1>0, <2>2, <2>3 DEF EngineOK, PortsOK, portVars
  <2>5. MonitorOK' /\ CodesOK'
    BY <1>0, <2>2 DEF MonitorOK, CodesOK, monitorVars
  <2> QED
    BY <2>1, <2>4, <2>5 DEF TypeInv
<1>3. ASSUME NEW d \in Devices, Device(d)
      PROVE  TypeInv'
  <2>1. LocksOK' /\ StacksOK'
    BY <1>3, DeviceEffect DEF Starts, Moved
  <2>2. /\ UNCHANGED <<registered, reading, thresholds, level, subs, engineVars, notif, portVars>>
        /\ \/ faults' = [faults EXCEPT ![d] = "I2C_NACK"]
           \/ faults' = [faults EXCEPT ![d] = "NONE"]
    BY <1>3 DEF Device, DeviceFault, DeviceRecovers
  <2>3. MonitorOK' /\ CodesOK'
    BY <1>0, <2>2, KeysFacts DEF MonitorOK, CodesOK, FaultCodes
  <2>4. EngineOK' /\ PortsOK'
    BY <1>0, <2>2 DEF EngineOK, PortsOK, engineVars, portVars
  <2> QED
    BY <2>1, <2>3, <2>4 DEF TypeInv
<1>4. ASSUME NEW t \in Tasks, StartCheck(t)
      PROVE  TypeInv'
  <2>1. LocksOK' /\ StacksOK'
    BY <1>4, TimerEffect DEF Starts, Moved
  <2>2. UNCHANGED <<monitorVars, engineVars, notif, portVars>>
    BY <1>4 DEF StartCheck
  <2> QED
    BY <1>0, <2>1, <2>2 DEF TypeInv, MonitorOK, CodesOK, EngineOK, PortsOK, monitorVars, engineVars, portVars
<1>5. ASSUME NEW s \in Sensors, Sense(s)
      PROVE  TypeInv'
  <2>1. /\ UNCHANGED <<thresholds, level, faults, subs, engineVars, notif, portVars, locks, stack>>
        /\ registered' = registered \cup {s}
        /\ \E v \in Readings \cup {Invalid} : reading' = [reading EXCEPT ![s] = v]
    BY <1>5 DEF Sense
  <2>2. MonitorOK' /\ CodesOK'
    BY <1>0, <2>1 DEF MonitorOK, CodesOK
  <2>3. EngineOK' /\ PortsOK'
    BY <1>0, <2>1 DEF EngineOK, PortsOK, engineVars, portVars
  <2>4. StacksOK' /\ LocksOK'
    BY <1>0, <2>1 DEF StacksOK, LocksOK
  <2> QED
    BY <2>2, <2>3, <2>4 DEF TypeInv
<1>6. ASSUME ReAlarm
      PROVE  TypeInv'
  <2>1. /\ UNCHANGED <<monitorVars, engineVars, portVars, locks, stack>>
        /\ notif' = [notif EXCEPT !.timer = FALSE, !.active = FALSE]
    BY <1>6 DEF ReAlarm
  <2> DEFINE N == [timer: BOOLEAN, active: BOOLEAN, last: Events \cup {NoEvent}]
  <2>2. notif \in N
    BY <1>0 DEF EngineOK
  <2>3. notif' \in N /\ notif'.timer = notif'.active
    BY <2>1, <2>2, NotifFacts
  <2>4. EngineOK'
    BY <1>0, <2>1, <2>3 DEF EngineOK, engineVars
  <2>5. MonitorOK' /\ CodesOK' /\ PortsOK'
    BY <1>0, <2>1 DEF MonitorOK, CodesOK, PortsOK, monitorVars, portVars
  <2>6. StacksOK' /\ LocksOK'
    BY <1>0, <2>1 DEF StacksOK, LocksOK
  <2> QED
    BY <2>4, <2>5, <2>6 DEF TypeInv
<1>7. ASSUME RulesTick
      PROVE  TypeInv'
  <2>1. LocksOK' /\ StacksOK'
    BY <1>7, TimerEffect DEF Starts, Moved
  <2>2. UNCHANGED <<monitorVars, engineVars, notif, portVars>>
    BY <1>7 DEF RulesTick
  <2> QED
    BY <1>0, <2>1, <2>2 DEF TypeInv, MonitorOK, CodesOK, EngineOK, PortsOK, monitorVars, engineVars, portVars
<1>8. ASSUME PlantChanges
      PROVE  TypeInv'
  <2>1. UNCHANGED <<monitorVars, engineVars, notif, portVars, locks, stack>>
    BY <1>8 DEF PlantChanges
  <2> QED
    BY <1>0, <2>1 DEF TypeInv, MonitorOK, CodesOK, EngineOK, PortsOK, StacksOK, LocksOK,
       monitorVars, engineVars, portVars
<1>9. ASSUME Subscribe
      PROVE  TypeInv'
  <2>1. LocksOK' /\ StacksOK'
    BY <1>9, TimerEffect
  <2> DEFINE new == BootOrder[Len(subs) + 1]
  <2>2. /\ UNCHANGED <<registered, reading, thresholds, level, faults, engineVars, notif, portVars>>
        /\ Len(subs) < 3 /\ subs' = Append(subs, new)
    BY <1>9 DEF Subscribe
  <2>3. Booted(subs')
    <3>1. /\ subs \in Seq(Subscribers) /\ Len(subs) \in 1..3
          /\ \A j \in 1..Len(subs) : subs[j] = BootOrder[j]
      BY <1>0 DEF MonitorOK, Booted
    <3>2. new \in Subscribers
      BY <2>2, <3>1 DEF BootOrder, Subscribers
    <3> HIDE DEF new
    <3>3. /\ subs' \in Seq(Subscribers) /\ Len(subs') = Len(subs) + 1
          /\ \A j \in 1..(Len(subs) + 1) : subs'[j] = IF j <= Len(subs) THEN subs[j] ELSE new
      BY <2>2, <3>1, <3>2
    <3>4. Len(subs') \in 1..3
      BY <2>2, <3>1, <3>3
    <3>5. ASSUME NEW j \in 1..Len(subs')
          PROVE  subs'[j] = BootOrder[j]
      BY <3>1, <3>3, <3>5 DEF new
    <3> QED
      BY <3>3, <3>4, <3>5 DEF Booted
  <2>4. MonitorOK' /\ CodesOK'
    BY <1>0, <2>2, <2>3 DEF MonitorOK, CodesOK
  <2>5. EngineOK' /\ PortsOK'
    BY <1>0, <2>2 DEF EngineOK, PortsOK, engineVars, portVars
  <2> QED
    BY <2>1, <2>4, <2>5 DEF TypeInv
<1> QED
  BY <1>1, <1>2, <1>3, <1>4, <1>5, <1>6, <1>7, <1>8, <1>9 DEF Next, Web

LEMMA NextTyped == TypeInv /\ [Next]_vars => TypeInv'
<1> SUFFICES ASSUME TypeInv, [Next]_vars
             PROVE  TypeInv'
  OBVIOUS
<1>1. CASE UNCHANGED vars
  BY <1>1 DEF TypeInv, MonitorOK, CodesOK, EngineOK, PortsOK, StacksOK, LocksOK, vars,
     monitorVars, engineVars, portVars
<1>2. ASSUME NEW t \in Tasks, Inside(t)
      PROVE  TypeInv'
  BY <1>2, InsideStacks, InsideMonitor, InsidePorts DEF TypeInv
<1>3. CASE Next /\ \A t \in Tasks : ~Inside(t)
  BY <1>3, OutsideTyped
<1> QED
  BY <1>1, <1>2, <1>3

\* The variables of the alarm path have their types, and a mutex an owner exactly while it
\* is held, however deep calls nest and whatever their order.
THEOREM AlarmTypeCorrect == Spec => []TypeOK
<1>1. Spec => []TypeInv
  BY InitTyped, NextTyped, PTL DEF Spec
<1>2. TypeInv => TypeOK
  BY TypesFollow
<1> QED
  BY <1>1, <1>2, PTL

-----------------------------------------------------------------------------
(* Outputs: what the coordinator holds is on the chips, or on its way.     *)

\* The frames that do not lead to a write of their own.
Dry(f) ==
    \/ f.proc \in {"check", "update", "notify", "event", "force", "held", "pins"}
    \/ Is(f, "recompute", "lock") \/ Is(f, "recompute", "unlock")

LEMMA DryFacts ==
  ASSUME NEW f
  PROVE  /\ Dry(f) => \A c : ~Unflushed(f, c)
         /\ Is(f, "flush", "lock") => \A c : Unflushed(f, c)
         /\ Is(f, "recompute", "line") \/ Is(f, "recompute", "set") => \A c : Unflushed(f, c)
  BY DEF Dry, Unflushed, Is

LEMMA SwapFlushes ==
  ASSUME StacksOK, NEW t \in Tasks, ~Idle(t), NEW f, Swaps(t, f), NEW c,
         Unflushed(Top(t), c) => Unflushed(f, c)
  PROVE  Others(t) /\ (Flushes(stack[t], c) => Flushes(stack'[t], c))
<1> DEFINE r == Tail(stack[t])
<1>1. Topped(stack[t], Top(t), r) /\ Topped(stack'[t], f, r) /\ Others(t)
  BY TopKnown DEF Swaps, Moved
<1> HIDE DEF r
<1> QED
  BY <1>1 DEF Topped

LEMMA CallFlushes ==
  ASSUME StacksOK, NEW t \in Tasks, ~Idle(t), NEW f, NEW g, Calls(t, f, g), NEW c,
         Unflushed(Top(t), c) => Unflushed(f, c) \/ Unflushed(g, c)
  PROVE  Others(t) /\ (Flushes(stack[t], c) => Flushes(stack'[t], c))
<1> DEFINE r == Tail(stack[t])
           q == <<f>> \o r
<1>1. Topped(stack[t], Top(t), r) /\ Topped(stack'[t], g, q) /\ Topped(q, f, r) /\ Others(t)
  BY TopKnown DEF Calls, Moved
<1> HIDE DEF r, q
<1>2. /\ Flushes(stack[t], c) <=> (Unflushed(Top(t), c) \/ Flushes(r, c))
      /\ Flushes(stack'[t], c) <=> (Unflushed(g, c) \/ Flushes(q, c))
      /\ Flushes(q, c) <=> (Unflushed(f, c) \/ Flushes(r, c))
  BY <1>1 DEF Topped
<1> QED
  BY <1>1, <1>2

LEMMA ReturnFlushes ==
  ASSUME StacksOK, NEW t \in Tasks, ~Idle(t), Returns(t), NEW c, ~Unflushed(Top(t), c)
  PROVE  Others(t) /\ (Flushes(stack[t], c) => Flushes(stack'[t], c))
<1> DEFINE r == Tail(stack[t])
<1>1. Topped(stack[t], Top(t), r) /\ stack'[t] = r /\ Others(t)
  BY TopKnown DEF Returns
<1> HIDE DEF r
<1> QED
  BY <1>1 DEF Topped

\* A flush that begins is one for every chip.
LEMMA TopFlushes ==
  ASSUME NEW t, NEW f, NEW c, Unflushed(f, c)
  PROVE  /\ Swaps(t, f) => Others(t) /\ Flushes(stack'[t], c)
         /\ \A g : Calls(t, g, f) => Others(t) /\ Flushes(stack'[t], c)
  BY DEF Swaps, Calls, Moved, Topped

LEMMA OutputsKept ==
  ASSUME OutputsOK, NEW t \in Tasks, Others(t), UNCHANGED <<coord, out, written>>,
         \A c \in Chips : Flushes(stack[t], c) => Flushes(stack'[t], c)
  PROVE  OutputsOK'
<1> SUFFICES ASSUME NEW c \in Chips, written'[c] = "OK"
             PROVE  out'[c] = Image(c)' \/ \E u \in Tasks : Flushes(stack'[u], c)
  BY DEF OutputsOK
<1>1. out[c] = Image(c) \/ \E u \in Tasks : Flushes(stack[u], c)
  BY DEF OutputsOK
<1>2. Image(c)' = Image(c) /\ out'[c] = out[c]
  BY DEF Image, LinesOf
<1>3. \A u \in Tasks : Flushes(stack[u], c) => Flushes(stack'[u], c)
  BY DEF Others
<1> QED
  BY <1>1, <1>2, <1>3

\* A call that begins, or a frame in place of a dry one, takes no flush away.
LEMMA OutputsDry ==
  ASSUME StacksOK, OutputsOK, NEW t \in Tasks, ~Idle(t), Dry(Top(t)),
         UNCHANGED <<coord, out, written>>,
         \/ Returns(t) \/ (\E f : Swaps(t, f)) \/ (\E f, g : Calls(t, f, g))
  PROVE  OutputsOK'
<1>1. \A c : ~Unflushed(Top(t), c)
  BY DryFacts
<1>2. Others(t) /\ \A c \in Chips : Flushes(stack[t], c) => Flushes(stack'[t], c)
  <2>1. CASE Returns(t)
    BY <1>1, <2>1, ReturnFlushes DEF Returns
  <2>2. ASSUME NEW f, Swaps(t, f)
        PROVE  Others(t) /\ \A c \in Chips : Flushes(stack[t], c) => Flushes(stack'[t], c)
    BY <1>1, <2>2, SwapFlushes DEF Swaps, Moved
  <2>3. ASSUME NEW f, NEW g, Calls(t, f, g)
        PROVE  Others(t) /\ \A c \in Chips : Flushes(stack[t], c) => Flushes(stack'[t], c)
    BY <1>1, <2>3, CallFlushes DEF Calls, Moved
  <2> QED
    BY <2>1, <2>2, <2>3
<1> QED
  BY <1>2, OutputsKept

LEMMA OutputsPending ==
  ASSUME NEW t \in Tasks, \A c \in Chips : Flushes(stack'[t], c)
  PROVE  OutputsOK'
  BY DEF OutputsOK

\* A step after which the task is about to flush every chip.
LEMMA OutputsFlushed ==
  ASSUME NEW t \in Tasks, NEW g,
         Is(g, "flush", "lock") \/ Is(g, "recompute", "line") \/ Is(g, "recompute", "set"),
         Swaps(t, g) \/ \E f : Calls(t, f, g)
  PROVE  OutputsOK'
<1>1. \A c : Unflushed(g, c)
  BY DryFacts
<1>2. \A c \in Chips : Flushes(stack'[t], c)
  BY <1>1, TopFlushes
<1> QED
  BY <1>2, OutputsPending

LEMMA InsideDry ==
  ASSUME NEW t \in Tasks
  PROVE  /\ CheckBegins(t) \/ CheckSensor(t) \/ CheckEnds(t) \/ ResetSubscriber(t)
            \/ ForgetLevels(t) \/ NotifySubscriber(t) \/ EngineEvent(t) \/ ForceReset(t)
            \/ EngineUnlock(t) \/ RecomputeBegins(t) \/ RecomputeEnds(t)
            => ~Idle(t) /\ Dry(Top(t)) /\ UNCHANGED <<out, written>>
         /\ CheckBegins(t) \/ CheckSensor(t) \/ CheckEnds(t)
            \/ ForgetLevels(t) \/ EngineEvent(t) \/ ForceReset(t)
            \/ EngineUnlock(t) \/ RecomputeBegins(t) \/ RecomputeEnds(t)
            => UNCHANGED coord
<1>1. CheckBegins(t) => ~Idle(t) /\ Dry(Top(t)) /\ UNCHANGED <<coord, out, written>>
  BY DEF CheckBegins, At, Dry, portVars
<1>2. CheckSensor(t) => ~Idle(t) /\ Dry(Top(t)) /\ UNCHANGED <<coord, out, written>>
  BY DEF CheckSensor, At, Dry, portVars
<1>3. CheckEnds(t) => ~Idle(t) /\ Dry(Top(t)) /\ UNCHANGED <<coord, out, written>>
  BY DEF CheckEnds, At, Dry, portVars
<1>4. ResetSubscriber(t) => ~Idle(t) /\ Dry(Top(t)) /\ UNCHANGED <<out, written>>
  BY DEF ResetSubscriber, At, Dry
<1>5. ForgetLevels(t) => ~Idle(t) /\ Dry(Top(t)) /\ UNCHANGED <<coord, out, written>>
  BY DEF ForgetLevels, At, Dry, portVars
<1>6. NotifySubscriber(t) => ~Idle(t) /\ Dry(Top(t)) /\ UNCHANGED <<out, written>>
  BY DEF NotifySubscriber, At, Dry
<1>7. EngineEvent(t) => ~Idle(t) /\ Dry(Top(t)) /\ UNCHANGED <<coord, out, written>>
  BY DEF EngineEvent, At, Dry, portVars
<1>8. ForceReset(t) => ~Idle(t) /\ Dry(Top(t)) /\ UNCHANGED <<coord, out, written>>
  BY DEF ForceReset, At, Dry, portVars
<1>9. EngineUnlock(t) => ~Idle(t) /\ Dry(Top(t)) /\ UNCHANGED <<coord, out, written>>
  BY DEF EngineUnlock, At, Dry, portVars
<1>10. RecomputeBegins(t) => ~Idle(t) /\ Dry(Top(t)) /\ UNCHANGED <<coord, out, written>>
  BY DEF RecomputeBegins, At, Dry, Is, portVars
<1>11. RecomputeEnds(t) => ~Idle(t) /\ Dry(Top(t)) /\ UNCHANGED <<coord, out, written>>
  BY DEF RecomputeEnds, At, Dry, Is, portVars
<1> QED
  BY <1>1, <1>2, <1>3, <1>4, <1>5, <1>6, <1>7, <1>8, <1>9, <1>10, <1>11

\* The writes go through the chips in their order.
LEMMA UnflushedAfter ==
  ASSUME NEW g, NEW f, NEW c, Unflushed(g, c), Is(f, "flush", "write"), g.i \in Nat,
         \/ Is(g, "flush", "report") \/ Is(g, "flush", "bus"), f.i = g.i + 1
  PROVE  Unflushed(f, c)
<1>1. PICK j \in DOMAIN ChipOrder : j > g.i /\ ChipOrder[j] = c
  BY DEF Unflushed, Is
<1>2. j \in Nat /\ j >= f.i
  <2>1. DOMAIN ChipOrder \subseteq Nat
    BY ChipsAssumption
  <2> QED
    BY <1>1, <2>1
<1> QED
  BY <1>1, <1>2 DEF Unflushed

LEMMA OutputsWritten ==
  ASSUME StacksOK, LocksOK, PortsOK, OutputsOK, NEW t \in Tasks, WriteChip(t)
  PROVE  OutputsOK'
<1> DEFINE g == Top(t)
           chip == ChipOrder[g.i]
<1>1. ~Idle(t) /\ UNCHANGED coord
  BY DEF WriteChip, At
<1>2. /\ Is(g, "flush", "write") /\ g.i \in DOMAIN ChipOrder /\ chip \in Chips
      /\ \E f : \E r \in Results :
           /\ Swaps(t, f) /\ Is(f, "flush", "report") /\ f.i = g.i
           /\ written' = [written EXCEPT ![chip] = r]
           /\ out' = IF r = "OK" THEN [out EXCEPT ![chip] = Image(chip)] ELSE out
  BY WriteChipEffect
<1>3. PICK f, r : /\ Swaps(t, f) /\ Is(f, "flush", "report") /\ f.i = g.i
                  /\ written' = [written EXCEPT ![chip] = r]
                  /\ out' = IF r = "OK" THEN [out EXCEPT ![chip] = Image(chip)] ELSE out
  BY <1>2
<1>4. written \in [Chips -> Results] /\ out \in [Chips -> SUBSET Lines]
  BY DEF PortsOK
<1>5. \A c : Image(c)' = Image(c)
  BY <1>1 DEF Image, LinesOf
<1> SUFFICES ASSUME NEW c \in Chips, written'[c] = "OK"
             PROVE  out'[c] = Image(c)' \/ \E u \in Tasks : Flushes(stack'[u], c)
  BY DEF OutputsOK
<1>6. CASE c = chip
  <2>1. r = "OK"
    BY <1>2, <1>3, <1>4, <1>6
  <2>2. out'[c] = Image(c)
    BY <1>2, <1>3, <1>4, <1>6, <2>1
  <2> QED
    BY <1>5, <2>2
<1>7. CASE c # chip
  <2>1. written[c] = "OK" /\ out'[c] = out[c]
    BY <1>2, <1>3, <1>4, <1>7
  <2>2. Unflushed(g, c) => Unflushed(f, c)
    <3>1. ASSUME NEW j \in DOMAIN ChipOrder, j >= g.i, ChipOrder[j] = c
          PROVE  j > f.i
      <4>1. j # g.i
        BY <1>7, <3>1
      <4>2. DOMAIN ChipOrder \subseteq Int
        BY ChipsAssumption
      <4> QED
        BY <1>2, <1>3, <3>1, <4>1, <4>2
    <3>2. Unflushed(g, c) => \E j \in DOMAIN ChipOrder : j >= g.i /\ ChipOrder[j] = c
      BY <1>2 DEF Unflushed, Is
    <3>3. (\E j \in DOMAIN ChipOrder : j > f.i /\ ChipOrder[j] = c) => Unflushed(f, c)
      BY <1>3 DEF Unflushed
    <3> QED
      BY <3>1, <3>2, <3>3
  <2> HIDE DEF g
  <2>3. Others(t) /\ (Flushes(stack[t], c) => Flushes(stack'[t], c))
    BY <1>1, <1>3, <2>2, SwapFlushes DEF g
  <2>4. \A u \in Tasks : Flushes(stack[u], c) => Flushes(stack'[u], c)
    BY <2>3 DEF Others
  <2> QED
    BY <1>5, <2>1, <2>4 DEF OutputsOK
<1> QED
  BY <1>6, <1>7

\* The coordinator goes on after its report.
LEMMA OutputsReported ==
  ASSUME StacksOK, OutputsOK, NEW t \in Tasks, ~Idle(t), UNCHANGED <<coord, out, written>>,
         NEW h, Reported(t, h), \A c \in Chips : Unflushed(Top(t), c) => Unflushed(h, c)
  PROVE  OutputsOK'
<1>1. Others(t) /\ \A c \in Chips : Flushes(stack[t], c) => Flushes(stack'[t], c)
  <2>1. CASE Swaps(t, h)
    BY <2>1, SwapFlushes DEF Swaps, Moved
  <2>2. ASSUME NEW n, Calls(t, h, n)
        PROVE  Others(t) /\ \A c \in Chips : Flushes(stack[t], c) => Flushes(stack'[t], c)
    BY <2>2, CallFlushes DEF Calls, Moved
  <2> QED
    BY <2>1, <2>2 DEF Reported
<1> QED
  BY <1>1, OutputsKept

LEMMA InsideOutputs ==
  ASSUME TypeInv, OutputsOK, NEW t \in Tasks, Inside(t)
  PROVE  OutputsOK'
<1>0. StacksOK /\ LocksOK /\ MonitorOK /\ CodesOK /\ PortsOK /\ Booted(subs)
  BY DEF TypeInv, MonitorOK
<1> DEFINE Move == Returns(t) \/ (\E f : Swaps(t, f)) \/ (\E f, g : Calls(t, f, g))
<1>1. CASE CheckBegins(t)
  BY <1>0, <1>1, CheckBeginsEffect, InsideDry, OutputsDry
<1>2. CASE CheckSensor(t)
  <2>1. Move
    BY <1>0, <1>2, CheckSensorEffect
  <2> QED
    BY <1>0, <1>2, <2>1, InsideDry, OutputsDry
<1>3. CASE CheckEnds(t)
  BY <1>0, <1>3, CheckEndsEffect, InsideDry, OutputsDry
<1>4. CASE ResetSubscriber(t)
  <2>1. \/ UNCHANGED coord /\ Move
        \/ \E f, g : Calls(t, f, g) /\ Is(g, "flush", "lock")
    BY <1>0, <1>4, ResetSubscriberEffect
  <2>2. CASE UNCHANGED coord /\ Move
    BY <1>0, <1>4, <2>2, InsideDry, OutputsDry
  <2>3. ASSUME NEW f, NEW g, Calls(t, f, g), Is(g, "flush", "lock")
        PROVE  OutputsOK'
    BY <2>3, OutputsFlushed
  <2> HIDE DEF Move
  <2> QED
    BY <2>1, <2>2, <2>3
<1>5. CASE ForgetLevels(t)
  BY <1>0, <1>5, ForgetLevelsEffect, InsideDry, OutputsDry
<1>6. CASE NotifySubscriber(t)
  <2>1. \/ UNCHANGED coord /\ Move
        \/ \E g : Is(g, "flush", "lock") /\ (Swaps(t, g) \/ \E f : Calls(t, f, g))
    BY <1>0, <1>6, NotifySubscriberEffect
  <2>2. CASE UNCHANGED coord /\ Move
    BY <1>0, <1>6, <2>2, InsideDry, OutputsDry
  <2>3. ASSUME NEW g, Is(g, "flush", "lock"), Swaps(t, g) \/ \E f : Calls(t, f, g)
        PROVE  OutputsOK'
    BY <2>3, OutputsFlushed
  <2> HIDE DEF Move
  <2> QED
    BY <2>1, <2>2, <2>3
<1>7. CASE EngineEvent(t)
  BY <1>0, <1>7, EngineEventEffect, InsideDry, OutputsDry
<1>8. CASE ForceReset(t)
  BY <1>0, <1>8, ForceResetEffect, InsideDry, OutputsDry
<1>9. CASE EngineUnlock(t) \/ RecomputeEnds(t)
  BY <1>0, <1>9, EngineUnlockEffect, InsideDry, OutputsDry
<1>10. CASE RecomputeBegins(t)
  BY <1>0, <1>10, RecomputeBeginsEffect, InsideDry, OutputsDry
<1>11. CASE DecideLine(t)
  BY <1>0, <1>11, DecideLineEffect, OutputsFlushed
<1>12. CASE SetUserLine(t)
  <2>1. \/ \E f : Swaps(t, f) /\ Is(f, "recompute", "line")
        \/ \E f, g : Calls(t, f, g) /\ Is(g, "flush", "lock")
    BY <1>0, <1>12, SetUserLineEffect
  <2> QED
    BY <2>1, OutputsFlushed
<1>13. CASE FlushBegins(t)
  <2>1. PICK f : Swaps(t, f) /\ Is(f, "flush", "write") /\ f.i = 1
    BY <1>0, <1>13, FlushBeginsEffect
  <2>2. ASSUME NEW c \in Chips
        PROVE  Unflushed(f, c)
    <3>1. PICK j \in DOMAIN ChipOrder : ChipOrder[j] = c
      BY <2>2 DEF Chips, ToSet
    <3>2. j >= f.i
      BY <2>1, <3>1, ChipsAssumption
    <3> QED
      BY <2>1, <3>1, <3>2 DEF Unflushed
  <2>3. \A c \in Chips : Flushes(stack'[t], c)
    BY <2>1, <2>2, TopFlushes
  <2> QED
    BY <2>3, OutputsPending
<1>14. CASE WriteChip(t)
  BY <1>0, <1>14, OutputsWritten
<1>15. CASE ReportChip(t)
  <2>1. ~Idle(t) /\ UNCHANGED <<coord, out, written>>
    BY <1>15 DEF ReportChip, At, portVars
  <2>2. Is(Top(t), "flush", "report") /\ Top(t).i \in DOMAIN ChipOrder
    BY <1>0, <1>15, ReportChipEffect
  <2>3. PICK h : /\ \/ Is(h, "flush", "bus") /\ h.i = Top(t).i
                    \/ Is(h, "flush", "write") /\ h.i = Top(t).i + 1
                 /\ Reported(t, h)
    BY <1>0, <1>15, ReportChipEffect
  <2>4. Top(t).i \in Nat
    BY <2>2, ChipsAssumption
  <2>5. ASSUME NEW c \in Chips, Unflushed(Top(t), c)
        PROVE  Unflushed(h, c)
    <3>1. CASE Is(h, "flush", "bus") /\ h.i = Top(t).i
      BY <2>2, <2>5, <3>1 DEF Unflushed, Is
    <3>2. CASE Is(h, "flush", "write") /\ h.i = Top(t).i + 1
      BY <2>2, <2>4, <2>5, <3>2, UnflushedAfter
    <3> QED
      BY <2>3, <3>1, <3>2
  <2> QED
    BY <1>0, <2>1, <2>3, <2>5, OutputsReported
<1>16. CASE ReportBus(t)
  <2>1. ~Idle(t) /\ UNCHANGED <<coord, out, written>>
    BY <1>16 DEF ReportBus, At, portVars
  <2>2. Is(Top(t), "flush", "bus") /\ FrameOK(Top(t))
    BY <1>0, <1>16, <2>1, ReportBusEffect, TopKnown
  <2>3. PICK h : Is(h, "flush", "write") /\ h.i = Top(t).i + 1 /\ Reported(t, h)
    BY <1>0, <1>16, ReportBusEffect
  <2>4. Top(t).i \in Nat
    BY <2>2 DEF FrameOK, Frames
  <2>5. \A c \in Chips : Unflushed(Top(t), c) => Unflushed(h, c)
    BY <2>2, <2>3, <2>4, UnflushedAfter
  <2> QED
    BY <1>0, <2>1, <2>3, <2>5, OutputsReported
<1>17. CASE FlushEnds(t)
  <2>1. ~Idle(t) /\ UNCHANGED <<coord, out, written>>
    BY <1>17 DEF FlushEnds, At, portVars
  <2>2. Returns(t) /\ Is(Top(t), "flush", "write") /\ Top(t).i > Len(ChipOrder)
    BY <1>0, <1>17, FlushEndsEffect
  <2>3. Top(t).i \in Nat
    BY <1>0, <2>1, TopKnown DEF FrameOK, Frames
  <2>4. \A c : ~Unflushed(Top(t), c)
    <3>1. \A j \in DOMAIN ChipOrder : ~(j >= Top(t).i)
      BY <2>2, <2>3, ChipsAssumption
    <3> QED
      BY <2>2, <3>1 DEF Unflushed, Is
  <2>5. Others(t) /\ \A c \in Chips : Flushes(stack[t], c) => Flushes(stack'[t], c)
    BY <1>0, <2>1, <2>2, <2>4, ReturnFlushes DEF Returns
  <2> QED
    BY <1>0, <2>1, <2>5, OutputsKept
<1>18. CASE ResetPins(t)
  BY <1>0, <1>18, ResetPinsEffect, OutputsFlushed
<1> QED
  BY <1>1, <1>2, <1>3, <1>4, <1>5, <1>6, <1>7, <1>8, <1>9, <1>10, <1>11, <1>12, <1>13, <1>14,
     <1>15, <1>16, <1>17, <1>18 DEF Inside

\* What the steps outside of calls leave alone.
LEMMA OutsideSame ==
  ASSUME TypeInv, Next, \A t \in Tasks : ~Inside(t)
  PROVE  /\ UNCHANGED <<level, coord, out, written>>
         /\ stack' # stack => \E t \in Tasks : stack[t] = <<>> /\ Others(t)
<1>1. UNCHANGED <<level, coord, out, written>>
  BY DEF Next, Web, Device, UpdateThresholds, Override, LoadRules, DeviceFault, DeviceRecovers,
     StartCheck, Sense, ReAlarm, RulesTick, PlantChanges, Subscribe, monitorVars, portVars
<1>2. ASSUME NEW w \in Webs, Web(w)
      PROVE  stack' # stack => \E t \in Tasks : stack[t] = <<>> /\ Others(t)
  <2>1. CASE UpdateThresholds(w)
    BY <1>2, <2>1, UpdateThresholdsEffect DEF Starts
  <2>2. CASE Override(w) \/ LoadRules(w)
    BY <1>2, <2>2, WebHoldsEffect
  <2> QED
    BY <1>2, <2>1, <2>2 DEF Web
<1>3. ASSUME NEW d \in Devices, Device(d)
      PROVE  \E t \in Tasks : stack[t] = <<>> /\ Others(t)
  BY <1>3, DeviceEffect DEF Starts, Moved
<1>4. ASSUME NEW t \in Tasks, StartCheck(t)
      PROVE  \E u \in Tasks : stack[u] = <<>> /\ Others(u)
  BY <1>4, TimerEffect DEF Starts, Moved
<1>5. CASE RulesTick
  BY <1>1, <1>5, TimerEffect, TaskFacts DEF Starts, Moved
<1>6. CASE Subscribe
  BY <1>1, <1>6, TimerEffect, TaskFacts DEF Starts, Moved
<1>7. CASE ReAlarm \/ PlantChanges \/ \E s \in Sensors : Sense(s)
  BY <1>1, <1>7 DEF ReAlarm, PlantChanges, Sense
<1> QED
  BY <1>1, <1>2, <1>3, <1>4, <1>5, <1>6, <1>7 DEF Next

LEMMA NextOutputs == TypeInv /\ OutputsOK /\ [Next]_vars => OutputsOK'
<1> SUFFICES ASSUME TypeInv, OutputsOK, [Next]_vars
             PROVE  OutputsOK'
  OBVIOUS
<1>1. CASE UNCHANGED vars
  BY <1>1 DEF OutputsOK, Image, LinesOf, vars, portVars
<1>2. ASSUME NEW t \in Tasks, Inside(t)
      PROVE  OutputsOK'
  BY <1>2, InsideOutputs
<1>3. CASE Next /\ \A t \in Tasks : ~Inside(t)
  <2>1. UNCHANGED <<coord, out, written>>
    BY <1>3, OutsideSame
  <2>2. CASE stack' = stack
    BY <2>1, <2>2 DEF OutputsOK, Image, LinesOf
  <2>3. ASSUME NEW t \in Tasks, stack[t] = <<>>, Others(t)
        PROVE  OutputsOK'
    BY <2>1, <2>3, EmptyStackOK, OutputsKept
  <2> QED
    BY <1>3, <2>2, <2>3, OutsideSame
<1> QED
  BY <1>1, <1>2, <1>3

-----------------------------------------------------------------------------
(* The table of faults says what the last write to each chip came to.      *)

\* The first frame after a move.
LEMMA TopAfter ==
  ASSUME NEW t, NEW f
  PROVE  /\ Swaps(t, f) => stack'[t] # <<>> /\ Head(stack'[t]) = f
         /\ Starts(t, f) => stack'[t] # <<>> /\ Head(stack'[t]) = f
         /\ \A g : Calls(t, g, f) => stack'[t] # <<>> /\ Head(stack'[t]) = f
         /\ Returns(t) => stack'[t] = <<>> \/ Waits(Head(stack'[t]))
  BY DEF Swaps, Starts, Calls, Returns, Moved, Topped

\* A first frame that holds a mutex makes its task the only owner.
LEMMA TopOwns ==
  ASSUME StacksOK, LocksOK, NEW l \in Locks, NEW t \in Tasks, ~Idle(t), Marked(l, Top(t))
  PROVE  Count(l, stack[t]) > 0 /\ \A u \in Tasks : (Free(l, u) \/ Count(l, stack[u]) > 0) => u = t
<1>1. Count(l, stack[t]) > 0
  BY TopKnown DEF Topped, Weight
<1> QED
  BY <1>1, HolderOwns

LEMMA MarkedFlush ==
  ASSUME NEW f, f.proc = "flush", f.at \in {"write", "report", "bus"}
  PROVE  Marked("C", f) /\ "C" \in Locks
  BY DEF Marked, Is, Locks

Mute(f) == ~Is(f, "flush", "report")

LEMMA MuteFacts ==
  ASSUME NEW s, s = <<>> \/ Mute(Head(s)) \/ Waits(Head(s))
  PROVE  \A c : ~Reporting(s, c)
  BY DEF Mute, Waits, Is, Reporting, TopIs

\* While a flush is at its chips, no other task reports.
LEMMA NobodyReports ==
  ASSUME StacksOK, LocksOK, NEW t \in Tasks, ~Idle(t), Top(t).proc = "flush",
         Top(t).at \in {"write", "report", "bus"}
  PROVE  \A u \in Tasks, c \in Chips : Reporting(stack[u], c) => u = t
<1> SUFFICES ASSUME NEW u \in Tasks, NEW c \in Chips, Reporting(stack[u], c)
             PROVE  u = t
  OBVIOUS
<1>1. ~Idle(u) /\ Top(u).proc = "flush" /\ Top(u).at = "report"
  BY DEF Reporting, TopIs, Is, Idle, Top
<1>2. Marked("C", Top(t)) /\ Marked("C", Top(u)) /\ "C" \in Locks
  BY <1>1, MarkedFlush
<1>3. Count("C", stack[u]) > 0
  BY <1>1, <1>2, TopOwns
<1> QED
  BY <1>2, <1>3, TopOwns

LEMMA FaultsKept ==
  ASSUME FaultsOK, NEW t \in Tasks, Others(t), UNCHANGED written,
         \A c \in Chips : faults'[c] = faults[c],
         \A c \in Chips : ~Reporting(stack[t], c) /\ ~Reporting(stack'[t], c)
  PROVE  FaultsOK'
<1>1. \A u \in Tasks, c \in Chips : /\ Reporting(stack'[u], c) <=> Reporting(stack[u], c)
                                    /\ Reporting(stack[u], c) => stack'[u] = stack[u]
  BY DEF Others
<1>2. \A u \in Tasks, c \in Chips : Reporting(stack'[u], c) => Head(stack'[u]).res = written'[c]
  BY <1>1 DEF FaultsOK
<1>3. ASSUME NEW c \in Chips
      PROVE  \/ \E u \in Tasks : Reporting(stack'[u], c)
             \/ /\ written'[c] = "OK" => faults'[c] = "NONE"
                /\ written'[c] = "I2C_NACK" => faults'[c] = "I2C_NACK"
  BY <1>1, <1>3 DEF FaultsOK
<1> QED
  BY <1>2, <1>3 DEF FaultsOK

LEMMA FaultsWritten ==
  ASSUME StacksOK, LocksOK, PortsOK, FaultsOK, NEW t \in Tasks, WriteChip(t)
  PROVE  FaultsOK'
<1> DEFINE g == Top(t)
           chip == ChipOrder[g.i]
<1>1. ~Idle(t) /\ UNCHANGED faults
  BY DEF WriteChip, At, monitorVars
<1>2. /\ Is(g, "flush", "write") /\ chip \in Chips
      /\ \E f : \E r \in Results :
           /\ Swaps(t, f) /\ Is(f, "flush", "report") /\ f.i = g.i /\ f.res = r
           /\ written' = [written EXCEPT ![chip] = r]
  BY WriteChipEffect
<1>3. PICK f, r : /\ r \in Results /\ Swaps(t, f) /\ Is(f, "flush", "report") /\ f.i = g.i /\ f.res = r
                  /\ written' = [written EXCEPT ![chip] = r]
  BY <1>2
<1>4. stack'[t] # <<>> /\ Head(stack'[t]) = f /\ Others(t)
  BY <1>3, TopAfter, SwapsStacks
<1>5. Reporting(stack'[t], chip) /\ \A c : Reporting(stack'[t], c) => c = chip
  BY <1>3, <1>4 DEF Reporting, TopIs
<1>6. \A u \in Tasks, c \in Chips : ~Reporting(stack[u], c)
  <2>1. \A u \in Tasks, c \in Chips : Reporting(stack[u], c) => u = t
    BY <1>1, <1>2, NobodyReports DEF Is
  <2>2. \A c : ~Reporting(stack[t], c)
    BY <1>2 DEF Reporting, TopIs, Is, Top
  <2> QED
    BY <2>1, <2>2
<1> HIDE DEF chip, g
<1>7. \A u \in Tasks, c \in Chips : Reporting(stack'[u], c) => u = t /\ c = chip
  BY <1>4, <1>5, <1>6 DEF Others
<1>8. written'[chip] = r /\ \A c \in Chips : c # chip => written'[c] = written[c]
  BY <1>2, <1>3 DEF PortsOK
<1>9. \A u \in Tasks, c \in Chips : Reporting(stack'[u], c) => Head(stack'[u]).res = written'[c]
  BY <1>3, <1>4, <1>7, <1>8
<1>10. ASSUME NEW c \in Chips
       PROVE  \/ \E u \in Tasks : Reporting(stack'[u], c)
              \/ /\ written'[c] = "OK" => faults'[c] = "NONE"
                 /\ written'[c] = "I2C_NACK" => faults'[c] = "I2C_NACK"
  <2>1. CASE c = chip
    BY <1>5, <2>1
  <2>2. CASE c # chip
    BY <1>1, <1>6, <1>8, <2>2 DEF FaultsOK
  <2> QED
    BY <2>1, <2>2
<1> QED
  BY <1>9, <1>10 DEF FaultsOK

LEMMA FaultsReported ==
  ASSUME StacksOK, LocksOK, CodesOK, FaultsOK, Booted(subs), NEW t \in Tasks, ReportChip(t)
  PROVE  FaultsOK'
<1> DEFINE g == Top(t)
           chip == ChipOrder[g.i]
<1>1. ~Idle(t) /\ UNCHANGED written
  BY DEF ReportChip, At, portVars
<1>2. /\ Is(g, "flush", "report") /\ chip \in Chips
      /\ \/ g.res = "OK" /\ faults' = [faults EXCEPT ![chip] = "NONE"]
         \/ g.res = "I2C_NACK" /\ faults' = [faults EXCEPT ![chip] = "I2C_NACK"]
         \/ g.res = "I2C_BUS_DOWN" /\ faults' = [faults EXCEPT ![Bus] = "I2C_BUS_DOWN"]
  BY ReportChipEffect
<1>3. PICK h : (Is(h, "flush", "bus") \/ Is(h, "flush", "write")) /\ Reported(t, h)
  BY ReportChipEffect
<1>4. Others(t) /\ stack'[t] # <<>> /\ Mute(Head(stack'[t]))
  <2>1. CASE Swaps(t, h)
    BY <1>3, <2>1, TopAfter, SwapsStacks DEF Mute, Is
  <2>2. ASSUME NEW n, Calls(t, h, n), Is(n, "notify", "next")
        PROVE  Others(t) /\ stack'[t] # <<>> /\ Mute(Head(stack'[t]))
    BY <2>2, TopAfter, SwapsStacks DEF Mute, Is
  <2> QED
    BY <1>3, <2>1, <2>2 DEF Reported
<1>5. \A u \in Tasks, c \in Chips : Reporting(stack[u], c) => u = t /\ c = chip
  <2>1. \A u \in Tasks, c \in Chips : Reporting(stack[u], c) => u = t
    BY <1>1, <1>2, NobodyReports DEF Is
  <2>2. \A c : Reporting(stack[t], c) => c = chip
    BY DEF Reporting, Top
  <2> QED
    BY <2>1, <2>2
<1>6. \A c : ~Reporting(stack'[t], c)
  BY <1>4, MuteFacts
<1>7. \A u \in Tasks, c \in Chips : ~Reporting(stack'[u], c)
  BY <1>4, <1>5, <1>6 DEF Others
<1>8. g.res = written[chip]
  <2>1. Reporting(stack[t], chip)
    BY <1>1, <1>2 DEF Reporting, TopIs, Top, Idle
  <2> QED
    BY <1>2, <2>1 DEF FaultsOK, Top
<1>9. chip \in FaultKeys /\ Bus \in FaultKeys /\ Bus \notin Chips /\ Chips \subseteq FaultKeys
      /\ DOMAIN faults = FaultKeys
  BY <1>2, KeysFacts DEF CodesOK
<1> HIDE DEF chip, g
<1>10. ASSUME NEW c \in Chips
       PROVE  /\ written'[c] = "OK" => faults'[c] = "NONE"
              /\ written'[c] = "I2C_NACK" => faults'[c] = "I2C_NACK"
  <2>1. CASE c = chip
    BY <1>1, <1>2, <1>8, <1>9, <2>1
  <2>2. CASE c # chip
    <3>1. faults'[c] = faults[c]
      BY <1>2, <1>9, <2>2
    <3> QED
      BY <1>1, <1>5, <2>2, <3>1 DEF FaultsOK
  <2> QED
    BY <2>1, <2>2
<1> QED
  BY <1>7, <1>10 DEF FaultsOK

\* The first frame does not report, before or after the step.
Silent(t) == Others(t) /\ \A c \in Chips : ~Reporting(stack[t], c) /\ ~Reporting(stack'[t], c)

LEMMA SilentMoves ==
  ASSUME NEW t \in Tasks, ~Idle(t), Mute(Top(t)),
         \/ Returns(t) \/ (\E f : Swaps(t, f) /\ Mute(f)) \/ (\E f, g : Calls(t, f, g) /\ Mute(g))
  PROVE  Silent(t)
<1>1. \A c : ~Reporting(stack[t], c)
  BY MuteFacts DEF Top
<1>2. CASE Returns(t)
  BY <1>1, <1>2, TopAfter, MuteFacts DEF Silent, Returns
<1>3. ASSUME NEW f, Swaps(t, f), Mute(f)
      PROVE  Silent(t)
  BY <1>1, <1>3, TopAfter, MuteFacts, SwapsStacks DEF Silent
<1>4. ASSUME NEW f, NEW g, Calls(t, f, g), Mute(g)
      PROVE  Silent(t)
  BY <1>1, <1>4, TopAfter, MuteFacts, SwapsStacks DEF Silent
<1> QED
  BY <1>2, <1>3, <1>4

LEMMA IsMute ==
  ASSUME NEW f
  PROVE  /\ f.proc # "flush" => Mute(f)
         /\ \A proc, at : Is(f, proc, at) /\ (proc # "flush" \/ at # "report") => Mute(f)
  BY DEF Mute, Is

LEMMA InsideSilent ==
  ASSUME TypeInv, NEW t \in Tasks, Inside(t), ~WriteChip(t), ~ReportChip(t)
  PROVE  Silent(t)
<1>0. StacksOK /\ LocksOK /\ MonitorOK /\ CodesOK /\ Booted(subs)
  BY DEF TypeInv, MonitorOK
<1> DEFINE Move == Returns(t) \/ (\E f : Swaps(t, f) /\ Mute(f)) \/ (\E f, g : Calls(t, f, g) /\ Mute(g))
<1>a. ASSUME Move, ~Idle(t), Mute(Top(t))
      PROVE  Silent(t)
  BY <1>a, SilentMoves
<1>1. CASE CheckBegins(t)
  <2>1. ~Idle(t) /\ Mute(Top(t))
    BY <1>1 DEF CheckBegins, At, Mute, Is
  <2>2. Move
    BY <1>0, <1>1, CheckBeginsEffect, IsMute
  <2> QED
    BY <1>a, <2>1, <2>2
<1>2. CASE CheckSensor(t)
  <2>1. ~Idle(t) /\ Mute(Top(t))
    BY <1>2 DEF CheckSensor, At, Mute, Is
  <2>2. Move
    BY <1>0, <1>2, CheckSensorEffect, IsMute
  <2> QED
    BY <1>a, <2>1, <2>2
<1>3. CASE CheckEnds(t)
  <2>1. ~Idle(t) /\ Mute(Top(t))
    BY <1>3 DEF CheckEnds, At, Mute, Is
  <2> QED
    BY <1>0, <1>3, <1>a, <2>1, CheckEndsEffect
<1>4. CASE ResetSubscriber(t)
  <2>1. ~Idle(t) /\ Mute(Top(t))
    BY <1>4 DEF ResetSubscriber, At, Mute, Is
  <2>2. Move
    BY <1>0, <1>4, ResetSubscriberEffect, IsMute
  <2> QED
    BY <1>a, <2>1, <2>2
<1>5. CASE ForgetLevels(t)
  <2>1. ~Idle(t) /\ Mute(Top(t))
    BY <1>5 DEF ForgetLevels, At, Mute, Is
  <2>2. Move
    BY <1>0, <1>5, ForgetLevelsEffect, IsMute
  <2> QED
    BY <1>a, <2>1, <2>2
<1>6. CASE NotifySubscriber(t)
  <2>1. ~Idle(t) /\ Mute(Top(t))
    BY <1>6 DEF NotifySubscriber, At, Mute, Is
  <2>2. Move
    BY <1>0, <1>6, NotifySubscriberEffect, IsMute
  <2> QED
    BY <1>a, <2>1, <2>2
<1>7. CASE EngineEvent(t)
  <2>1. ~Idle(t) /\ Mute(Top(t))
    BY <1>7 DEF EngineEvent, At, Mute, Is
  <2>2. Move
    BY <1>0, <1>7, EngineEventEffect, IsMute
  <2> QED
    BY <1>a, <2>1, <2>2
<1>8. CASE ForceReset(t)
  <2>1. ~Idle(t) /\ Mute(Top(t))
    BY <1>8 DEF ForceReset, At, Mute, Is
  <2>2. Move
    BY <1>0, <1>8, ForceResetEffect, IsMute
  <2> QED
    BY <1>a, <2>1, <2>2
<1>9. CASE EngineUnlock(t) \/ RecomputeEnds(t)
  <2>1. ~Idle(t) /\ Mute(Top(t))
    BY <1>9 DEF EngineUnlock, RecomputeEnds, At, Mute, Is
  <2> QED
    BY <1>0, <1>9, <1>a, <2>1, EngineUnlockEffect
<1>10. CASE RecomputeBegins(t)
  <2>1. ~Idle(t) /\ Mute(Top(t))
    BY <1>10 DEF RecomputeBegins, At, Mute, Is
  <2>2. Move
    BY <1>0, <1>10, RecomputeBeginsEffect, IsMute
  <2> QED
    BY <1>a, <2>1, <2>2
<1>11. CASE DecideLine(t)
  <2>1. ~Idle(t) /\ Mute(Top(t))
    BY <1>11 DEF DecideLine, At, Mute, Is
  <2>2. Move
    BY <1>0, <1>11, DecideLineEffect, IsMute
  <2> QED
    BY <1>a, <2>1, <2>2
<1>12. CASE SetUserLine(t)
  <2>1. ~Idle(t) /\ Mute(Top(t))
    BY <1>12 DEF SetUserLine, At, Mute, Is
  <2>2. Move
    BY <1>0, <1>12, SetUserLineEffect, IsMute
  <2> QED
    BY <1>a, <2>1, <2>2
<1>13. CASE FlushBegins(t)
  <2>1. ~Idle(t) /\ Mute(Top(t))
    BY <1>13 DEF FlushBegins, At, Mute, Is
  <2>2. Move
    BY <1>0, <1>13, FlushBeginsEffect, IsMute
  <2> QED
    BY <1>a, <2>1, <2>2
<1>14. CASE ReportBus(t)
  <2>1. ~Idle(t) /\ Mute(Top(t))
    BY <1>14 DEF ReportBus, At, Mute, Is
  <2>2. PICK h : Is(h, "flush", "write") /\ Reported(t, h)
    BY <1>0, <1>14, ReportBusEffect
  <2>3. Mute(h) /\ \A n : Is(n, "notify", "next") => Mute(n)
    BY <2>2, IsMute
  <2>4. Move
    BY <2>2, <2>3 DEF Reported
  <2> QED
    BY <1>a, <2>1, <2>4
<1>15. CASE FlushEnds(t)
  <2>1. ~Idle(t) /\ Mute(Top(t))
    BY <1>15 DEF FlushEnds, At, Mute, Is
  <2> QED
    BY <1>0, <1>15, <1>a, <2>1, FlushEndsEffect
<1>16. CASE ResetPins(t)
  <2>1. ~Idle(t) /\ Mute(Top(t))
    BY <1>16 DEF ResetPins, At, Mute, Is
  <2>2. Move
    BY <1>0, <1>16, ResetPinsEffect, IsMute
  <2> QED
    BY <1>a, <2>1, <2>2
<1> QED
  BY <1>1, <1>2, <1>3, <1>4, <1>5, <1>6, <1>7, <1>8, <1>9, <1>10, <1>11, <1>12, <1>13, <1>14,
     <1>15, <1>16 DEF Inside

LEMMA InsideCodes ==
  ASSUME TypeInv, NEW t \in Tasks, Inside(t), ~WriteChip(t), ~ReportChip(t)
  PROVE  UNCHANGED written /\ \A c \in Chips : faults'[c] = faults[c]
<1>1. UNCHANGED <<written, faults>> \/ ReportBus(t)
  BY DEF Inside, CheckBegins, CheckSensor, CheckEnds, ResetSubscriber, ForgetLevels,
     NotifySubscriber, EngineEvent, ForceReset, EngineUnlock, RecomputeBegins, DecideLine,
     SetUserLine, RecomputeEnds, FlushBegins, FlushEnds, ResetPins, monitorVars, portVars
<1>2. CASE ReportBus(t)
  <2>1. UNCHANGED written /\ faults' = [faults EXCEPT ![Bus] = "NONE"]
    BY <1>2 DEF ReportBus, Clear, portVars
  <2> QED
    BY <2>1, KeysFacts DEF TypeInv, CodesOK
<1> QED
  BY <1>1, <1>2

\* A call that begins with a frame that is not a report.
LEMMA StartsSilent ==
  ASSUME NEW t, NEW f, Starts(t, f), f.proc # "flush"
  PROVE  Silent(t)
<1>1. stack[t] = <<>> /\ stack'[t] # <<>> /\ Head(stack'[t]) = f /\ Others(t)
  BY TopAfter DEF Starts, Moved
<1>2. Mute(f)
  BY IsMute
<1> QED
  BY <1>1, <1>2, MuteFacts DEF Silent

LEMMA OutsideSilent ==
  ASSUME TypeInv, Next, \A t \in Tasks : ~Inside(t)
  PROVE  stack' = stack \/ \E t \in Tasks : Silent(t)
<1>1. ASSUME NEW w \in Webs, Web(w)
      PROVE  stack' = stack \/ \E t \in Tasks : Silent(t)
  <2>1. CASE UpdateThresholds(w)
    BY <2>1, UpdateThresholdsEffect, StartsSilent DEF Is
  <2>2. CASE Override(w) \/ LoadRules(w)
    <3>1. PICK f, g : w \in Tasks /\ stack[w] = <<>> /\ Is(g, "recompute", "lock") /\ Moved(w, g, <<f>> \o <<>>)
      BY <2>2, WebHoldsEffect
    <3>2. Others(w) /\ Head(stack'[w]) = g /\ Mute(g)
      BY <3>1, IsMute DEF Moved, Topped
    <3>3. Silent(w)
      BY <3>1, <3>2, MuteFacts DEF Silent
    <3> QED
      BY <3>1, <3>3
  <2> QED
    BY <1>1, <2>1, <2>2 DEF Web
<1>2. ASSUME NEW d \in Devices, Device(d)
      PROVE  \E t \in Tasks : Silent(t)
  BY <1>2, DeviceEffect, StartsSilent DEF Is
<1>3. ASSUME NEW t \in Tasks, StartCheck(t)
      PROVE  \E u \in Tasks : Silent(u)
  BY <1>3, TimerEffect, StartsSilent DEF Is
<1>4. CASE RulesTick
  BY <1>4, TimerEffect, TaskFacts, StartsSilent DEF Is
<1>5. CASE Subscribe
  BY <1>5, TimerEffect, TaskFacts, StartsSilent DEF Is
<1>6. CASE ReAlarm \/ PlantChanges \/ \E s \in Sensors : Sense(s)
  BY <1>6 DEF ReAlarm, PlantChanges, Sense
<1> QED
  BY <1>1, <1>2, <1>3, <1>4, <1>5, <1>6 DEF Next

LEMMA OutsideCodes ==
  ASSUME TypeInv, Next, \A t \in Tasks : ~Inside(t)
  PROVE  UNCHANGED written /\ \A c \in Chips : faults'[c] = faults[c]
<1>1. UNCHANGED <<written, faults>> \/ \E d \in Devices : Device(d)
  BY DEF Next, Web, UpdateThresholds, Override, LoadRules,
     StartCheck, Sense, ReAlarm, RulesTick, PlantChanges, Subscribe, monitorVars, portVars
<1>2. ASSUME NEW d \in Devices, Device(d)
      PROVE  UNCHANGED written /\ \A c \in Chips : faults'[c] = faults[c]
  <2>1. UNCHANGED written /\ \E code : faults' = [faults EXCEPT ![d] = code]
    BY <1>2 DEF Device, DeviceFault, DeviceRecovers, portVars
  <2>2. d \notin Chips
    BY KeysFacts
  <2> QED
    BY <2>1, <2>2, KeysFacts DEF TypeInv, CodesOK
<1> QED
  BY <1>1, <1>2

LEMMA NextFaults == TypeInv /\ FaultsOK /\ [Next]_vars => FaultsOK'
<1> SUFFICES ASSUME TypeInv, FaultsOK, [Next]_vars
             PROVE  FaultsOK'
  OBVIOUS
<1>0. StacksOK /\ LocksOK /\ PortsOK /\ CodesOK /\ Booted(subs)
  BY DEF TypeInv, MonitorOK
<1>1. CASE UNCHANGED vars
  BY <1>1 DEF FaultsOK, vars, portVars, monitorVars
<1>2. ASSUME NEW t \in Tasks, Inside(t)
      PROVE  FaultsOK'
  <2>1. CASE WriteChip(t)
    BY <1>0, <2>1, FaultsWritten
  <2>2. CASE ReportChip(t)
    BY <1>0, <2>2, FaultsReported
  <2>3. CASE ~WriteChip(t) /\ ~ReportChip(t)
    <3>1. Silent(t) /\ UNCHANGED written /\ \A c \in Chips : faults'[c] = faults[c]
      BY <1>2, <2>3, InsideSilent, InsideCodes
    <3> QED
      BY <3>1, FaultsKept DEF Silent
  <2> QED
    BY <2>1, <2>2, <2>3
<1>3. CASE Next /\ \A t \in Tasks : ~Inside(t)
  <2>1. UNCHANGED written /\ \A c \in Chips : faults'[c] = faults[c]
    BY <1>3, OutsideCodes
  <2>2. CASE stack' = stack
    BY <2>1, <2>2 DEF FaultsOK
  <2>3. ASSUME NEW t \in Tasks, Silent(t)
        PROVE  FaultsOK'
    BY <2>1, <2>3, FaultsKept DEF Silent
  <2> QED
    BY <1>3, <2>2, <2>3, OutsideSilent
<1> QED
  BY <1>1, <1>2, <1>3

-----------------------------------------------------------------------------
(* Lines: the coordinator holds what the rules say, or a task is going to  *)
(* decide the line.                                                        *)

\* A first frame that leads to no decision of its own, and one that leads to all of them.
Quiet(f) ==
    \/ f.proc \in {"check", "update", "force", "held", "flush", "pins"}
    \/ Is(f, "notify", "next") /\ f.i >= 1
    \/ Is(f, "recompute", "unlock")

Tells(f) ==
    \/ Is(f, "event", "lock") \/ (Is(f, "notify", "next") /\ f.i = 0)
    \/ Is(f, "recompute", "lock") \/ (Is(f, "recompute", "line") /\ f.i = 2)

LEMMA QuietFacts ==
  ASSUME NEW s, s = <<>> \/ Quiet(Head(s)) \/ Waits(Head(s))
  PROVE  \A line : ~Deciding(s, line) /\ ~Setting(s, line)
<1>1. CASE s = <<>>
  BY <1>1 DEF Deciding, Setting, TopIs
<1>2. CASE Waits(Head(s)) \/ Quiet(Head(s))
  <2> DEFINE f == Head(s)
  <2>1. \/ f.proc \in {"check", "update", "force", "held", "flush", "pins"}
        \/ Is(f, "notify", "next") /\ f.i >= 1
        \/ Is(f, "recompute", "unlock")
    BY <1>2 DEF Quiet, Waits, Is
  <2> QED
    BY <2>1 DEF Deciding, Setting, TopIs, Is
<1> QED
  BY <1>1, <1>2

LEMMA TellsFacts ==
  ASSUME NEW s, s # <<>>, Tells(Head(s))
  PROVE  \A line \in UserLines : Deciding(s, line)
<1>1. \A line \in UserLines : 2 <= line
  BY LineFacts DEF UserLines, Reserved
<1> QED
  BY <1>1 DEF Tells, Deciding, TopIs

LEMMA DecisionSame ==
  ASSUME UNCHANGED <<rules, manual, seen, faults, plant>>
  PROVE  \A line : Decision(line)' = Decision(line) /\ FollowsPlant(line)' = FollowsPlant(line)
  BY DEF Decision, FollowsPlant

LEMMA LineKept ==
  ASSUME NEW line, LineOK(line), NEW t \in Tasks, Others(t),
         ~Deciding(stack[t], line), ~Setting(stack[t], line), ~Setting(stack'[t], line),
         Decision(line)' = Decision(line), (line \in coord'.user) = (line \in coord.user)
  PROVE  LineOK(line)'
<1>1. \A u \in Tasks : /\ Deciding(stack[u], line) => Deciding(stack'[u], line)
                       /\ Setting(stack[u], line) => Setting(stack'[u], line)
                       /\ Setting(stack'[u], line) => Setting(stack[u], line) /\ stack'[u] = stack[u]
  BY DEF Others
<1>2. CASE \E u \in Tasks : Deciding(stack[u], line)
  BY <1>1, <1>2 DEF LineOK
<1>3. CASE ~\E u \in Tasks : Deciding(stack[u], line)
  <2>1. /\ \A u \in Tasks : Setting(stack[u], line) => Head(stack[u]).res = Word(Decision(line))
        /\ \/ (line \in coord.user) = Decision(line)
           \/ \E u \in Tasks : Setting(stack[u], line)
    BY <1>3 DEF LineOK
  <2>2. \A u \in Tasks : Setting(stack'[u], line) => Head(stack'[u]).res = Word(Decision(line)')
    BY <1>1, <2>1
  <2>3. \/ (line \in coord'.user) = Decision(line)'
        \/ \E u \in Tasks : Setting(stack'[u], line)
    BY <1>1, <2>1
  <2> QED
    BY <2>2, <2>3 DEF LineOK, Word
<1> QED
  BY <1>2, <1>3

Calm(t) ==
    /\ Others(t)
    /\ \A line : /\ ~Deciding(stack[t], line) /\ ~Setting(stack[t], line)
                 /\ ~Setting(stack'[t], line)

LEMMA LinesKept ==
  ASSUME LinesOK, NEW t \in Tasks, Calm(t), UNCHANGED <<rules, manual, seen, faults, plant>>,
         coord'.user = coord.user
  PROVE  LinesOK'
<1> SUFFICES ASSUME NEW line \in UserLines, ~FollowsPlant(line)'
             PROVE  LineOK(line)'
  BY DEF LinesOK, UserLines, Lines, Reserved
<1>1. LineOK(line) /\ Decision(line)' = Decision(line)
  BY DecisionSame DEF LinesOK
<1>2. (line \in coord'.user) = (line \in coord.user)
  OBVIOUS
<1> QED
  BY <1>1, <1>2, LineKept DEF Calm

LEMMA LinesDecided ==
  ASSUME NEW t \in Tasks, \A line \in UserLines : Deciding(stack'[t], line)
  PROVE  LinesOK'
  BY DEF LinesOK, LineOK, UserLines, Lines, Reserved

\* The task goes on to decide every line.
Announces(t) == \E g : Tells(g) /\ (Swaps(t, g) \/ \E f : Calls(t, f, g))

LEMMA LinesAnnounced ==
  ASSUME NEW t \in Tasks, Announces(t)
  PROVE  LinesOK'
<1>1. PICK g : Tells(g) /\ (Swaps(t, g) \/ \E f : Calls(t, f, g))
  BY DEF Announces
<1>2. stack'[t] # <<>> /\ Head(stack'[t]) = g
  BY <1>1, TopAfter
<1>3. \A line \in UserLines : Deciding(stack'[t], line)
  BY <1>1, <1>2, TellsFacts
<1> QED
  BY <1>3, LinesDecided

QuietMove(t) ==
    \/ Returns(t) \/ (\E f : Swaps(t, f) /\ Quiet(f)) \/ (\E f, g : Calls(t, f, g) /\ Quiet(g))

LEMMA CalmMoves ==
  ASSUME NEW t \in Tasks, ~Idle(t), Quiet(Top(t)) \/ Waits(Top(t)), QuietMove(t)
  PROVE  Calm(t)
<1>1. \A line : ~Deciding(stack[t], line) /\ ~Setting(stack[t], line)
  BY QuietFacts DEF Top
<1>2. CASE Returns(t)
  BY <1>1, <1>2, TopAfter, QuietFacts DEF Calm, Returns
<1>3. ASSUME NEW f, Swaps(t, f), Quiet(f)
      PROVE  Calm(t)
  BY <1>1, <1>3, TopAfter, QuietFacts, SwapsStacks DEF Calm
<1>4. ASSUME NEW f, NEW g, Calls(t, f, g), Quiet(g)
      PROVE  Calm(t)
  BY <1>1, <1>4, TopAfter, QuietFacts, SwapsStacks DEF Calm
<1> QED
  BY <1>2, <1>3, <1>4 DEF QuietMove

LEMMA IsQuiet ==
  ASSUME NEW f
  PROVE  /\ \A proc, at : proc \in {"check", "update", "force", "held", "flush", "pins"} /\ Is(f, proc, at)
                         => Quiet(f)
         /\ Is(f, "notify", "next") /\ f.i >= 1 => Quiet(f)
         /\ Is(f, "recompute", "unlock") => Quiet(f)
         /\ Is(f, "event", "lock") => Tells(f)
         /\ Is(f, "notify", "next") /\ f.i = 0 => Tells(f)
         /\ Is(f, "recompute", "lock") => Tells(f)
         /\ Is(f, "recompute", "line") /\ f.i = 2 => Tells(f)
  BY DEF Quiet, Tells, Is

\* Two tasks are never at a line of the loop at once.
LEMMA NobodySets ==
  ASSUME StacksOK, LocksOK, NEW t \in Tasks, ~Idle(t), Top(t).proc = "recompute",
         Top(t).at \in {"line", "set"}
  PROVE  \A u \in Tasks : \A line : Setting(stack[u], line) => u = t
<1> SUFFICES ASSUME NEW u \in Tasks, NEW line, Setting(stack[u], line)
             PROVE  u = t
  OBVIOUS
<1>1. ~Idle(u) /\ Top(u).proc = "recompute" /\ Top(u).at = "set"
  BY DEF Setting, TopIs, Is, Idle, Top
<1>2. Marked("E", Top(t)) /\ Marked("E", Top(u)) /\ "E" \in Locks
  BY <1>1 DEF Marked, Is, Locks
<1>3. Count("E", stack[u]) > 0
  BY <1>1, <1>2, TopOwns
<1> QED
  BY <1>2, <1>3, TopOwns

LEMMA LinesDecide ==
  ASSUME TypeInv, LinesOK, NEW t \in Tasks, DecideLine(t)
  PROVE  LinesOK'
<1> DEFINE g == Top(t)
<1>0. StacksOK /\ LocksOK
  BY DEF TypeInv
<1>1. ~Idle(t) /\ UNCHANGED <<rules, manual, seen, faults, plant, coord>>
  BY DEF DecideLine, At, monitorVars, engineVars, portVars
<1>2. /\ Is(g, "recompute", "line") /\ g.i \in UserLines
      /\ \E f : /\ Swaps(t, f) /\ Is(f, "recompute", "set") /\ f.i = g.i
                /\ f.res = Word(Decision(g.i))
  BY <1>0, DecideLineEffect
<1>3. PICK f : /\ Swaps(t, f) /\ Is(f, "recompute", "set") /\ f.i = g.i
               /\ f.res = Word(Decision(g.i))
  BY <1>2
<1>4. stack'[t] # <<>> /\ Head(stack'[t]) = f /\ Others(t)
  BY <1>3, TopAfter, SwapsStacks
<1>5. \A u \in Tasks : \A line : Setting(stack[u], line) => u = t
  BY <1>0, <1>1, <1>2, NobodySets DEF Is
<1>6. \A line : ~Setting(stack[t], line)
  BY <1>2 DEF Setting, TopIs, Is, Top
<1> SUFFICES ASSUME NEW line \in UserLines, ~FollowsPlant(line)'
             PROVE  LineOK(line)'
  BY DEF LinesOK, UserLines, Lines, Reserved
<1>7. LineOK(line) /\ Decision(line)' = Decision(line)
  BY <1>1, DecisionSame DEF LinesOK
<1>8. g.i \in Nat /\ line \in Nat
  BY <1>2, LineFacts
<1> HIDE DEF g
<1>9. CASE line > g.i
  <2>1. Deciding(stack'[t], line)
    BY <1>3, <1>4, <1>9 DEF Deciding, TopIs
  <2> QED
    BY <2>1 DEF LineOK
<1>10. CASE line = g.i
  <2>1. Setting(stack'[t], line)
    BY <1>3, <1>4, <1>10 DEF Setting, TopIs
  <2>2. \A u \in Tasks : Setting(stack'[u], line) => u = t
    BY <1>4, <1>5 DEF Others
  <2>3. \A u \in Tasks : Setting(stack'[u], line) => Head(stack'[u]).res = Word(Decision(line)')
    BY <1>3, <1>4, <1>7, <1>10, <2>2
  <2> QED
    BY <2>1, <2>3 DEF LineOK, Word
<1>11. CASE line < g.i
  <2>1. ~Deciding(stack[t], line)
    BY <1>2, <1>8, <1>11 DEF Deciding, TopIs, Is, Top, g
  <2>2. ~Setting(stack'[t], line)
    BY <1>3, <1>4, <1>8, <1>11 DEF Setting, TopIs
  <2>3. (line \in coord'.user) = (line \in coord.user)
    BY <1>1
  <2> QED
    BY <1>4, <1>6, <1>7, <2>1, <2>2, <2>3, LineKept
<1> QED
  BY <1>8, <1>9, <1>10, <1>11

LEMMA DecisionBoolean == \A line : Decision(line) \in BOOLEAN
  BY DEF Decision, Energised

LEMMA LinesSet ==
  ASSUME TypeInv, LinesOK, NEW t \in Tasks, SetUserLine(t)
  PROVE  LinesOK'
<1> DEFINE g == Top(t)
<1>0. StacksOK /\ LocksOK /\ PortsOK
  BY DEF TypeInv
<1>1. ~Idle(t) /\ UNCHANGED <<rules, manual, seen, faults, plant>>
  BY DEF SetUserLine, At, monitorVars, engineVars
<1>2. /\ Is(g, "recompute", "set") /\ g.i \in UserLines /\ g.res \in {"on", "off"}
      /\ coord' = [coord EXCEPT !.user = IF g.res = "on" THEN @ \cup {g.i} ELSE @ \ {g.i}]
      /\ \/ /\ g.i + 1 \in UserLines
            /\ \E f : Swaps(t, f) /\ Is(f, "recompute", "line") /\ f.i = g.i + 1
         \/ /\ g.i + 1 \notin Lines
            /\ \E f, h : Calls(t, f, h) /\ Is(h, "flush", "lock")
  BY <1>0, SetUserLineEffect
<1>3. coord'.user = IF g.res = "on" THEN coord.user \cup {g.i} ELSE coord.user \ {g.i}
  BY <1>0, <1>2 DEF PortsOK
<1>4. PICK f : /\ stack'[t] # <<>> /\ Head(stack'[t]) = f /\ Others(t)
               /\ \/ Is(f, "recompute", "line") /\ f.i = g.i + 1
                  \/ g.i + 1 \notin Lines /\ Is(f, "flush", "lock")
  BY <1>2, TopAfter, SwapsStacks
<1>5. \A u \in Tasks : \A line : Setting(stack[u], line) => u = t
  BY <1>0, <1>1, <1>2, NobodySets DEF Is
<1>6. \A line : ~Setting(stack'[t], line)
  BY <1>4 DEF Setting, TopIs, Is
<1> SUFFICES ASSUME NEW line \in UserLines, ~FollowsPlant(line)'
             PROVE  LineOK(line)'
  BY DEF LinesOK, UserLines, Lines, Reserved
<1>7. LineOK(line) /\ Decision(line)' = Decision(line)
  BY <1>1, DecisionSame DEF LinesOK
<1>8. g.i \in Nat /\ line \in Nat /\ line \in Lines
  BY <1>2, LineFacts DEF UserLines
<1>9. CASE line > g.i
  <2>1. g.i + 1 \in Lines
    BY <1>8, <1>9, LineFacts
  <2>2. Is(f, "recompute", "line") /\ f.i <= line
    BY <1>4, <1>8, <1>9, <2>1
  <2>3. Deciding(stack'[t], line)
    BY <1>4, <2>2 DEF Deciding, TopIs
  <2> QED
    BY <2>3 DEF LineOK
<1>10. CASE line = g.i
  <2>1. ~Deciding(stack[t], line)
    BY <1>2, <1>8, <1>10 DEF Deciding, TopIs, Is, Top
  <2>2. Setting(stack[t], line)
    BY <1>1, <1>2, <1>10 DEF Setting, TopIs, Top, Idle
  <2> HIDE DEF g
  <2>3. CASE \E u \in Tasks : Deciding(stack[u], line)
    <3>1. PICK u \in Tasks : Deciding(stack[u], line)
      BY <2>3
    <3>2. Deciding(stack'[u], line)
      BY <1>4, <2>1, <3>1 DEF Others
    <3> QED
      BY <3>2 DEF LineOK
  <2>4. CASE ~\E u \in Tasks : Deciding(stack[u], line)
    <3>1. g.res = Word(Decision(line))
      BY <1>7, <2>2, <2>4 DEF LineOK, g, Top
    <3>2. (line \in coord'.user) = Decision(line)'
      <4>1. Decision(line) \in BOOLEAN
        BY DecisionBoolean
      <4>2. line \in coord'.user <=> g.res = "on"
        BY <1>3, <1>10
      <4>3. (line \in coord'.user) <=> Decision(line)
        BY <3>1, <4>2 DEF Word
      <4> QED
        BY <1>7, <4>1, <4>3
    <3>3. \A u \in Tasks : ~Setting(stack'[u], line)
      BY <1>4, <1>5, <1>6 DEF Others
    <3> QED
      BY <3>2, <3>3 DEF LineOK
  <2> QED
    BY <2>3, <2>4
<1>11. CASE line < g.i
  <2>1. ~Deciding(stack[t], line) /\ ~Setting(stack[t], line)
    BY <1>2, <1>8, <1>11 DEF Deciding, Setting, TopIs, Is, Top
  <2>2. (line \in coord'.user) = (line \in coord.user)
    BY <1>3, <1>8, <1>11
  <2> QED
    BY <1>4, <1>6, <1>7, <2>1, <2>2, LineKept
<1> QED
  BY <1>8, <1>9, <1>10, <1>11

LEMMA InsideQuiet ==
  ASSUME TypeInv, NEW t \in Tasks, Inside(t), ~DecideLine(t), ~SetUserLine(t)
  PROVE  Announces(t) \/ (~Idle(t) /\ (Quiet(Top(t)) \/ Waits(Top(t))) /\ QuietMove(t) /\ faults' = faults)
<1>0. StacksOK /\ LocksOK /\ MonitorOK /\ CodesOK /\ Booted(subs)
  BY DEF TypeInv, MonitorOK
<1> DEFINE Calming == ~Idle(t) /\ (Quiet(Top(t)) \/ Waits(Top(t))) /\ QuietMove(t) /\ faults' = faults
<1>1. CASE CheckBegins(t)
  <2>1. ~Idle(t) /\ Quiet(Top(t)) /\ faults' = faults
    BY <1>1 DEF CheckBegins, At, Quiet, monitorVars
  <2>2. QuietMove(t)
    BY <1>0, <1>1, CheckBeginsEffect, IsQuiet DEF QuietMove
  <2> QED
    BY <2>1, <2>2
<1>2. CASE CheckSensor(t)
  <2>1. ~Idle(t) /\ Quiet(Top(t)) /\ faults' = faults
    BY <1>2 DEF CheckSensor, At, Quiet
  <2>2. QuietMove(t) \/ Announces(t)
    <3>1. \/ \E f : Is(f, "check", "sensor") /\ Swaps(t, f)
          \/ \E f, g : Calls(t, f, g) /\ Is(g, "notify", "next") /\ g.i = 0
      BY <1>0, <1>2, CheckSensorEffect
    <3> QED
      BY <3>1, IsQuiet DEF QuietMove, Announces
  <2> QED
    BY <2>1, <2>2
<1>3. CASE CheckEnds(t)
  <2>1. ~Idle(t) /\ Quiet(Top(t)) /\ faults' = faults
    BY <1>3 DEF CheckEnds, At, Quiet, monitorVars
  <2> QED
    BY <1>0, <1>3, <2>1, CheckEndsEffect DEF QuietMove
<1>4. CASE ResetSubscriber(t)
  <2>1. ~Idle(t) /\ Quiet(Top(t)) /\ faults' = faults
    BY <1>4 DEF ResetSubscriber, At, Quiet, monitorVars
  <2>2. QuietMove(t)
    BY <1>0, <1>4, ResetSubscriberEffect, IsQuiet DEF QuietMove
  <2> QED
    BY <2>1, <2>2
<1>5. CASE ForgetLevels(t)
  <2>1. ~Idle(t) /\ Quiet(Top(t)) /\ faults' = faults
    BY <1>5 DEF ForgetLevels, At, Quiet
  <2>2. QuietMove(t)
    BY <1>0, <1>5, ForgetLevelsEffect, IsQuiet DEF QuietMove
  <2> QED
    BY <2>1, <2>2
<1>6. CASE NotifySubscriber(t)
  <2>1. ~Idle(t) /\ faults' = faults
    BY <1>6 DEF NotifySubscriber, At, monitorVars
  <2>2. Is(Top(t), "notify", "next") /\ (Top(t).i >= 1 => Quiet(Top(t)))
    BY <1>0, <1>6, NotifySubscriberEffect, IsQuiet
  <2>3. \/ \E g : Is(g, "event", "lock") /\ (Swaps(t, g) \/ \E f : Calls(t, f, g))
        \/ Top(t).i >= 1 /\ (Returns(t) \/ \E f : Swaps(t, f) /\ Is(f, "notify", "next") /\ f.i >= 1)
        \/ Top(t).i >= 1 /\ \E g : Is(g, "flush", "lock") /\ (Swaps(t, g) \/ \E f : Calls(t, f, g))
    BY <1>0, <1>6, NotifySubscriberEffect
  <2>4. Announces(t) \/ (Top(t).i >= 1 /\ QuietMove(t))
    BY <2>3, IsQuiet DEF QuietMove, Announces
  <2> QED
    BY <2>1, <2>2, <2>4
<1>7. CASE EngineEvent(t)
  BY <1>0, <1>7, EngineEventEffect, IsQuiet DEF Announces
<1>8. CASE ForceReset(t)
  BY <1>0, <1>8, ForceResetEffect, IsQuiet DEF Announces
<1>9. CASE EngineUnlock(t) \/ RecomputeEnds(t)
  <2>1. ~Idle(t) /\ Quiet(Top(t)) /\ faults' = faults
    BY <1>9 DEF EngineUnlock, RecomputeEnds, At, Quiet, Is, monitorVars
  <2> QED
    BY <1>0, <1>9, <2>1, EngineUnlockEffect DEF QuietMove
<1>10. CASE RecomputeBegins(t)
  BY <1>0, <1>10, RecomputeBeginsEffect, IsQuiet DEF Announces
<1>11. CASE FlushBegins(t)
  <2>1. ~Idle(t) /\ Quiet(Top(t)) /\ faults' = faults
    BY <1>11 DEF FlushBegins, At, Quiet, monitorVars
  <2>2. QuietMove(t)
    BY <1>0, <1>11, FlushBeginsEffect, IsQuiet DEF QuietMove
  <2> QED
    BY <2>1, <2>2
<1>12. CASE WriteChip(t)
  <2>1. ~Idle(t) /\ Quiet(Top(t)) /\ faults' = faults
    BY <1>12 DEF WriteChip, At, Quiet, monitorVars
  <2>2. QuietMove(t)
    BY <1>0, <1>12, WriteChipEffect, IsQuiet DEF QuietMove
  <2> QED
    BY <2>1, <2>2
<1>13. CASE ReportChip(t) \/ ReportBus(t)
  <2>1. ~Idle(t) /\ Quiet(Top(t))
    BY <1>13 DEF ReportChip, ReportBus, At, Quiet
  <2>2. PICK h : (Is(h, "flush", "bus") \/ Is(h, "flush", "write")) /\ Reported(t, h)
    <3>1. CASE ReportChip(t)
      BY <1>0, <3>1, ReportChipEffect
    <3>2. CASE ReportBus(t)
      BY <1>0, <3>2, ReportBusEffect
    <3> QED
      BY <1>13, <3>1, <3>2
  <2>3. CASE faults' = faults /\ Swaps(t, h)
    BY <2>1, <2>2, <2>3, IsQuiet DEF QuietMove
  <2>4. ASSUME NEW n, Calls(t, h, n), Is(n, "notify", "next"), n.i = 0
        PROVE  Announces(t)
    BY <2>4, IsQuiet DEF Announces
  <2> QED
    BY <2>2, <2>3, <2>4 DEF Reported
<1>14. CASE FlushEnds(t)
  <2>1. ~Idle(t) /\ Quiet(Top(t)) /\ faults' = faults
    BY <1>14 DEF FlushEnds, At, Quiet, monitorVars
  <2> QED
    BY <1>0, <1>14, <2>1, FlushEndsEffect DEF QuietMove
<1>15. CASE ResetPins(t)
  <2>1. ~Idle(t) /\ Quiet(Top(t)) /\ faults' = faults
    BY <1>15 DEF ResetPins, At, Quiet, monitorVars
  <2>2. QuietMove(t)
    BY <1>0, <1>15, ResetPinsEffect, IsQuiet DEF QuietMove
  <2> QED
    BY <2>1, <2>2
<1> QED
  BY <1>1, <1>2, <1>3, <1>4, <1>5, <1>6, <1>7, <1>8, <1>9, <1>10, <1>11, <1>12, <1>13, <1>14,
     <1>15 DEF Inside

\* A step of a call that leads to no decision leaves the engine and the lines alone.
LEMMA InsideEngine ==
  ASSUME TypeInv, NEW t \in Tasks, Inside(t), ~DecideLine(t), ~SetUserLine(t), ~EngineEvent(t), ~ForceReset(t)
  PROVE  UNCHANGED <<rules, manual, seen, plant>> /\ coord'.user = coord.user
<1>0. StacksOK /\ LocksOK /\ coord \in [user: SUBSET UserLines, alarm: Levels]
  BY DEF TypeInv, PortsOK
<1>1. UNCHANGED <<rules, manual, seen, plant>>
  BY DEF Inside, CheckBegins, CheckSensor, CheckEnds, ResetSubscriber, ForgetLevels,
     NotifySubscriber, EngineUnlock, RecomputeBegins, RecomputeEnds, FlushBegins, WriteChip,
     ReportChip, ReportBus, FlushEnds, ResetPins, engineVars
<1>2. coord' = coord \/ \E lvl : coord' = [coord EXCEPT !.alarm = lvl]
  <2>1. CASE ResetSubscriber(t)
    BY <1>0, <2>1, ResetSubscriberEffect
  <2>2. CASE NotifySubscriber(t)
    BY <1>0, <2>2, NotifySubscriberEffect
  <2>3. CASE ResetPins(t)
    BY <2>3 DEF ResetPins
  <2>4. CASE ~ResetSubscriber(t) /\ ~NotifySubscriber(t) /\ ~ResetPins(t)
    BY <2>4 DEF Inside, CheckBegins, CheckSensor, CheckEnds, ForgetLevels,
       EngineUnlock, RecomputeBegins, RecomputeEnds, FlushBegins, WriteChip,
       ReportChip, ReportBus, FlushEnds, portVars
  <2> QED
    BY <2>1, <2>2, <2>3, <2>4
<1> QED
  BY <1>0, <1>1, <1>2

LEMMA InsideLines ==
  ASSUME TypeInv, LinesOK, NEW t \in Tasks, Inside(t)
  PROVE  LinesOK'
<1>1. CASE DecideLine(t)
  BY <1>1, LinesDecide
<1>2. CASE SetUserLine(t)
  BY <1>2, LinesSet
<1>3. CASE EngineEvent(t) \/ ForceReset(t)
  <2>1. Announces(t)
    BY <1>3, EngineEventEffect, ForceResetEffect, IsQuiet DEF Announces, TypeInv
  <2> QED
    BY <2>1, LinesAnnounced
<1>4. CASE ~DecideLine(t) /\ ~SetUserLine(t) /\ ~EngineEvent(t) /\ ~ForceReset(t)
  <2>1. UNCHANGED <<rules, manual, seen, plant>> /\ coord'.user = coord.user
    BY <1>4, InsideEngine
  <2>2. CASE Announces(t)
    BY <2>2, LinesAnnounced
  <2>3. CASE ~Idle(t) /\ (Quiet(Top(t)) \/ Waits(Top(t))) /\ QuietMove(t) /\ faults' = faults
    BY <2>1, <2>3, CalmMoves, LinesKept
  <2> QED
    BY <1>4, <2>2, <2>3, InsideQuiet
<1> QED
  BY <1>1, <1>2, <1>3, <1>4

\* A line whose rules look at alarms and faults only does not follow the plant.
LEMMA PlantApart ==
  ASSUME NEW line, ~FollowsPlant(line), UNCHANGED <<rules, manual, seen, faults>>
  PROVE  Decision(line)' = Decision(line) /\ ~FollowsPlant(line)'
<1> DEFINE A(stage, settings) == Applicable(rules, line, seen, faults, stage, settings)
<1>1. \A i \in DOMAIN rules : rules[i].target = line =>
        rules[i].cond.kind \in {"sensor_alarm", "hardware_fault"}
  BY DEF FollowsPlant
<1>2. ASSUME NEW i \in DOMAIN rules, rules[i].target = line, NEW stage1, NEW settings1,
             NEW stage2, NEW settings2
      PROVE  Matches(rules[i].cond, seen, faults, stage1, settings1)
             <=> Matches(rules[i].cond, seen, faults, stage2, settings2)
  <2>1. CASE rules[i].cond.kind = "sensor_alarm"
    BY <2>1 DEF Matches
  <2>2. CASE rules[i].cond.kind = "hardware_fault"
    BY <2>2 DEF Matches
  <2> QED
    BY <1>1, <1>2, <2>1, <2>2
<1>3. A(plant'.stage, plant'.settings) = A(plant.stage, plant.settings)
  BY <1>2 DEF Applicable
<1>4. Energised(rules, line, seen, faults, plant'.stage, plant'.settings)
      = Energised(rules, line, seen, faults, plant.stage, plant.settings)
  BY <1>3 DEF Energised
<1> QED
  BY <1>4 DEF Decision, FollowsPlant

\* A call that begins with a quiet frame, or with one that decides every line.
LEMMA StartsQuiet ==
  ASSUME NEW t \in Tasks, NEW f, Starts(t, f)
  PROVE  /\ Quiet(f) => Calm(t)
         /\ Tells(f) => LinesOK'
<1>1. stack[t] = <<>> /\ stack'[t] # <<>> /\ Head(stack'[t]) = f /\ Others(t)
  BY TopAfter DEF Starts, Moved
<1>2. Quiet(f) => Calm(t)
  BY <1>1, QuietFacts DEF Calm
<1>3. Tells(f) => LinesOK'
  BY <1>1, TellsFacts, LinesDecided
<1> QED
  BY <1>2, <1>3

LEMMA OutsideLines ==
  ASSUME TypeInv, LinesOK, Next, \A t \in Tasks : ~Inside(t)
  PROVE  LinesOK'
<1> DEFINE Engine == UNCHANGED <<rules, manual, seen, faults, plant>> /\ coord'.user = coord.user
<1>a. ASSUME Engine, stack' = stack
      PROVE  LinesOK'
  <2> SUFFICES ASSUME NEW line \in UserLines, ~FollowsPlant(line)'
               PROVE  LineOK(line)'
    BY DEF LinesOK, UserLines, Lines, Reserved
  <2>1. LineOK(line) /\ Decision(line)' = Decision(line)
    BY <1>a, DecisionSame DEF LinesOK
  <2> QED
    BY <1>a, <2>1 DEF LineOK, Word
<1>1. ASSUME NEW w \in Webs, UpdateThresholds(w)
      PROVE  LinesOK'
  <2>1. Engine
    BY <1>1 DEF UpdateThresholds, engineVars, portVars
  <2>2. ASSUME NEW f, Starts(w, f), Is(f, "update", "reset")
        PROVE  LinesOK'
    <3>1. w \in Tasks /\ Quiet(f)
      BY <2>2, TaskFacts, IsQuiet
    <3>2. Calm(w)
      BY <2>2, <3>1, StartsQuiet
    <3> QED
      BY <2>1, <3>1, <3>2, LinesKept
  <2> QED
    BY <1>1, <1>a, <2>1, <2>2, UpdateThresholdsEffect
<1>2. ASSUME NEW w \in Webs, Override(w) \/ LoadRules(w)
      PROVE  LinesOK'
  <2>1. PICK f, g : w \in Tasks /\ Is(g, "recompute", "lock") /\ Moved(w, g, <<f>> \o <<>>)
    BY <1>2, WebHoldsEffect
  <2>2. stack'[w] # <<>> /\ Head(stack'[w]) = g /\ Tells(g)
    BY <2>1, IsQuiet DEF Moved, Topped
  <2>3. \A line \in UserLines : Deciding(stack'[w], line)
    BY <2>2, TellsFacts
  <2> QED
    BY <2>1, <2>3, LinesDecided
<1>3. ASSUME NEW d \in Devices, Device(d)
      PROVE  LinesOK'
  BY <1>3, DeviceEffect, StartsQuiet, IsQuiet
<1>4. ASSUME NEW t \in Tasks, StartCheck(t)
      PROVE  LinesOK'
  <2>1. Engine
    BY <1>4 DEF StartCheck, engineVars, portVars, monitorVars
  <2>2. PICK f : Starts(t, f) /\ Is(f, "check", "lock")
    BY <1>4, TimerEffect
  <2>3. Calm(t)
    BY <2>2, StartsQuiet, IsQuiet
  <2> QED
    BY <2>1, <2>3, LinesKept
<1>5. CASE RulesTick
  BY <1>5, TimerEffect, TaskFacts, StartsQuiet, IsQuiet
<1>6. CASE Subscribe
  <2>1. Engine
    BY <1>6 DEF Subscribe, engineVars, portVars
  <2>2. ASSUME NEW f, Starts("boot", f), Is(f, "pins", "reset")
        PROVE  LinesOK'
    <3>1. Calm("boot")
      BY <2>2, TaskFacts, StartsQuiet, IsQuiet
    <3> QED
      BY <2>1, <3>1, TaskFacts, LinesKept
  <2> QED
    BY <1>6, <1>a, <2>1, <2>2, TimerEffect
<1>7. CASE ReAlarm \/ \E s \in Sensors : Sense(s)
  <2>1. Engine /\ stack' = stack
    BY <1>7 DEF ReAlarm, Sense, engineVars, portVars, monitorVars
  <2> QED
    BY <1>a, <2>1
<1>8. CASE PlantChanges
  <2>1. UNCHANGED <<rules, manual, seen, faults, stack, coord>>
    BY <1>8 DEF PlantChanges, engineVars, portVars, monitorVars
  <2> SUFFICES ASSUME NEW line \in UserLines, ~FollowsPlant(line)'
               PROVE  LineOK(line)'
    BY DEF LinesOK, UserLines, Lines, Reserved
  <2>2. ~FollowsPlant(line)
    BY <2>1 DEF FollowsPlant
  <2>3. LineOK(line) /\ Decision(line)' = Decision(line)
    BY <2>1, <2>2, PlantApart DEF LinesOK
  <2> QED
    BY <2>1, <2>3 DEF LineOK, Word
<1> QED
  BY <1>1, <1>2, <1>3, <1>4, <1>5, <1>6, <1>7, <1>8 DEF Next, Web

LEMMA NextLines == TypeInv /\ LinesOK /\ [Next]_vars => LinesOK'
<1> SUFFICES ASSUME TypeInv, LinesOK, [Next]_vars
             PROVE  LinesOK'
  OBVIOUS
<1>1. CASE UNCHANGED vars
  <2>1. UNCHANGED <<rules, manual, seen, faults, plant, coord, stack>>
    BY <1>1 DEF vars, engineVars, portVars, monitorVars
  <2> SUFFICES ASSUME NEW line \in UserLines, ~FollowsPlant(line)'
               PROVE  LineOK(line)'
    BY DEF LinesOK, UserLines, Lines, Reserved
  <2>2. LineOK(line) /\ Decision(line)' = Decision(line)
    BY <2>1, DecisionSame DEF LinesOK
  <2> QED
    BY <2>1, <2>2 DEF LineOK, Word
<1>2. ASSUME NEW t \in Tasks, Inside(t)
      PROVE  LinesOK'
  BY <1>2, InsideLines
<1>3. CASE Next /\ \A t \in Tasks : ~Inside(t)
  BY <1>3, OutsideLines
<1> QED
  BY <1>1, <1>2, <1>3

-----------------------------------------------------------------------------
(* Alarms: the engine knows what is on the monitor's books, or is going to *)
(* be told, or a change of thresholds will make the monitor look again.    *)

\* A first frame that neither tells the engine of a sensor nor makes it forget them.
Deaf(f) ==
    /\ f.proc # "event" /\ f.proc # "force"
    /\ Is(f, "notify", "next") => f.i # 0 \/ f.ev.src \notin Sensors

LEMMA DeafFacts ==
  ASSUME NEW s, s = <<>> \/ Deaf(Head(s)) \/ Waits(Head(s))
  PROVE  (\A src \in Sensors : ~Telling(s, src)) /\ ~TopIs(s, "force", "lock")
<1>1. CASE s = <<>>
  BY <1>1 DEF Telling, TopIs
<1>2. CASE Deaf(Head(s))
  BY <1>2 DEF Deaf, Telling, TopIs, Is
<1>3. CASE Waits(Head(s))
  BY <1>3 DEF Waits, Telling, TopIs, Is
<1> QED
  BY <1>1, <1>2, <1>3

LEMMA IsDeaf ==
  ASSUME NEW f
  PROVE  /\ \A proc, at : Is(f, proc, at) /\ proc \notin {"event", "force", "notify"} => Deaf(f)
         /\ Is(f, "notify", "next") /\ f.i >= 1 => Deaf(f)
         /\ Is(f, "notify", "next") /\ f.ev.src \in FaultKeys => Deaf(f)
  BY KeysFacts DEF Deaf, Is

AlarmKnown(s) ==
    level[s] \notin {"unset", "NORMAL"} =>
        \/ seen[s] = level[s]
        \/ \E t \in Tasks : Telling(stack[t], s) /\ Head(stack[t]).ev.level = level[s]
        \/ Updating
TellsTrue(t) ==
    /\ \A s \in Sensors : Telling(stack[t], s) =>
           level[s] \in {Head(stack[t]).ev.level, "unset"} /\ Count("T", stack[t]) > 0
    /\ TopIs(stack[t], "force", "lock") => Count("update", stack[t]) > 0

LEMMA AlarmParts == AlarmsOK <=> (\A s \in Sensors : AlarmKnown(s)) /\ (\A t \in Tasks : TellsTrue(t))
  BY DEF AlarmsOK, AlarmKnown, TellsTrue

LEMMA UpdatingKept ==
  ASSUME NEW t \in Tasks, Others(t), Count("update", stack[t]) > 0 => Count("update", stack'[t]) > 0
  PROVE  Updating => Updating'
  BY DEF Others, Updating

LEMMA AlarmsKept ==
  ASSUME AlarmsOK, NEW t \in Tasks, Others(t), UNCHANGED <<level, seen>>,
         Count("update", stack[t]) > 0 => Count("update", stack'[t]) > 0,
         \A s \in Sensors : ~Telling(stack[t], s) /\ ~Telling(stack'[t], s),
         TopIs(stack'[t], "force", "lock") => Count("update", stack'[t]) > 0
  PROVE  AlarmsOK'
<1>1. Updating => Updating'
  BY UpdatingKept
<1>2. ASSUME NEW u \in Tasks
      PROVE  TellsTrue(u)'
  <2>1. CASE u = t
    BY <2>1 DEF TellsTrue
  <2>2. CASE u # t
    <3>1. stack'[u] = stack[u] /\ TellsTrue(u)
      BY <2>2, AlarmParts DEF Others
    <3> QED
      BY <3>1 DEF TellsTrue
  <2> QED
    BY <2>1, <2>2
<1>3. ASSUME NEW s \in Sensors
      PROVE  AlarmKnown(s)'
  <2>1. AlarmKnown(s)
    BY AlarmParts
  <2>2. \A u \in Tasks : Telling(stack[u], s) => stack'[u] = stack[u]
    BY DEF Others
  <2> QED
    BY <1>1, <2>1, <2>2 DEF AlarmKnown
<1>4. (\A s \in Sensors : AlarmKnown(s)') /\ (\A u \in Tasks : TellsTrue(u)')
  BY <1>2, <1>3
<1> QED
  BY <1>4 DEF AlarmsOK, AlarmKnown, TellsTrue

LEMMA UpdateWeight ==
  ASSUME NEW f
  PROVE  /\ f.proc # "update" => Weight("update", f) = 0
         /\ Is(f, "update", "reset") => Weight("update", f) = 1
         /\ Weight("update", f) \in {0, 1}
  BY DEF Weight, Marked, Is

\* The changes of thresholds under way stay under way.
LEMMA UpdateCounts ==
  ASSUME StacksOK, NEW t \in Tasks, ~Idle(t)
  PROVE  /\ \A f : Swaps(t, f) /\ (Top(t).proc # "update" \/ Is(f, "update", "reset")) =>
                (Count("update", stack[t]) > 0 => Count("update", stack'[t]) > 0)
         /\ \A f, g : Calls(t, f, g) /\ (Top(t).proc # "update" \/ Is(f, "update", "reset")) =>
                (Count("update", stack[t]) > 0 => Count("update", stack'[t]) > 0)
         /\ Returns(t) /\ Top(t).proc # "update" =>
                (Count("update", stack[t]) > 0 => Count("update", stack'[t]) > 0)
<1> DEFINE a == Count("update", stack[t])
           b == Count("update", stack'[t])
<1>0. \A f : Weight("update", f) \in {0, 1}
  BY UpdateWeight
<1>1. ASSUME NEW f, Swaps(t, f), Top(t).proc # "update" \/ Is(f, "update", "reset")
      PROVE  a > 0 => b > 0
  <2>1. a \in Nat /\ b \in Nat /\ b = a + Weight("update", f) - Weight("update", Top(t))
    BY <1>1, SwapCounted
  <2>2. Weight("update", Top(t)) = 0 \/ Weight("update", f) = 1
    BY <1>1, UpdateWeight
  <2> HIDE DEF a, b
  <2> QED
    BY <1>0, <2>1, <2>2
<1>2. ASSUME NEW f, NEW g, Calls(t, f, g), Top(t).proc # "update" \/ Is(f, "update", "reset")
      PROVE  a > 0 => b > 0
  <2>1. a \in Nat /\ b \in Nat
        /\ b = a + Weight("update", f) + Weight("update", g) - Weight("update", Top(t))
    BY <1>2, CallCounted
  <2>2. Weight("update", Top(t)) = 0 \/ Weight("update", f) = 1
    BY <1>2, UpdateWeight
  <2> HIDE DEF a, b
  <2> QED
    BY <1>0, <2>1, <2>2
<1>3. ASSUME Returns(t), Top(t).proc # "update"
      PROVE  a > 0 => b > 0
  <2>1. a \in Nat /\ b \in Nat /\ a = b + Weight("update", Top(t))
    BY <1>3, ReturnCounted
  <2>2. Weight("update", Top(t)) = 0
    BY <1>3, UpdateWeight
  <2> HIDE DEF a, b
  <2> QED
    BY <2>1, <2>2
<1> QED
  BY <1>1, <1>2, <1>3

LEMMA AlarmsMoved ==
  ASSUME StacksOK, AlarmsOK, NEW t \in Tasks, ~Idle(t), UNCHANGED <<level, seen>>,
         Deaf(Top(t)), Top(t).proc # "update",
         \/ Returns(t) \/ (\E f : Swaps(t, f) /\ Deaf(f)) \/ (\E f, g : Calls(t, f, g) /\ Deaf(g))
  PROVE  AlarmsOK'
<1>1. \A s \in Sensors : ~Telling(stack[t], s)
  BY DeafFacts DEF Top
<1>2. /\ Others(t) /\ (Count("update", stack[t]) > 0 => Count("update", stack'[t]) > 0)
      /\ (\A s \in Sensors : ~Telling(stack'[t], s)) /\ ~TopIs(stack'[t], "force", "lock")
  <2>1. CASE Returns(t)
    BY <2>1, TopAfter, DeafFacts, UpdateCounts DEF Returns
  <2>2. ASSUME NEW f, Swaps(t, f), Deaf(f)
        PROVE  /\ Others(t) /\ (Count("update", stack[t]) > 0 => Count("update", stack'[t]) > 0)
               /\ (\A s \in Sensors : ~Telling(stack'[t], s)) /\ ~TopIs(stack'[t], "force", "lock")
    BY <2>2, TopAfter, DeafFacts, UpdateCounts, SwapsStacks
  <2>3. ASSUME NEW f, NEW g, Calls(t, f, g), Deaf(g)
        PROVE  /\ Others(t) /\ (Count("update", stack[t]) > 0 => Count("update", stack'[t]) > 0)
               /\ (\A s \in Sensors : ~Telling(stack'[t], s)) /\ ~TopIs(stack'[t], "force", "lock")
    BY <2>3, TopAfter, DeafFacts, UpdateCounts, SwapsStacks
  <2> QED
    BY <2>1, <2>2, <2>3
<1> QED
  BY <1>1, <1>2, AlarmsKept

\* During a check nobody tells the engine of a sensor: that takes the thresholds' mutex.
LEMMA NobodyTells ==
  ASSUME TypeInv, AlarmsOK, NEW t \in Tasks, ~Idle(t), Is(Top(t), "check", "sensor")
  PROVE  /\ \A u \in Tasks, s \in Sensors : ~Telling(stack[u], s)
         /\ Count("T", stack[t]) > 0
<1>1. Marked("T", Top(t)) /\ "T" \in Locks
  BY DEF Marked, Locks
<1>2. Count("T", stack[t]) > 0 /\ \A u \in Tasks : Count("T", stack[u]) > 0 => u = t
  BY <1>1, TopOwns DEF TypeInv
<1>3. \A u \in Tasks, s \in Sensors : Telling(stack[u], s) => u = t
  BY <1>2 DEF AlarmsOK
<1>4. Deaf(Top(t))
  BY IsDeaf
<1>5. \A s \in Sensors : ~Telling(stack[t], s)
  BY <1>4, DeafFacts DEF Top
<1> QED
  BY <1>2, <1>3, <1>5

LEMMA AlarmsChecked ==
  ASSUME TypeInv, AlarmsOK, NEW t \in Tasks, CheckSensor(t)
  PROVE  AlarmsOK'
<1>0. StacksOK /\ LocksOK /\ MonitorOK
  BY DEF TypeInv
<1>1. ~Idle(t) /\ Is(Top(t), "check", "sensor") /\ UNCHANGED seen
  BY DEF CheckSensor, At, Is, engineVars
<1>2. /\ \A u \in Tasks, s \in Sensors : ~Telling(stack[u], s)
      /\ Count("T", stack[t]) > 0
  BY <1>1, NobodyTells
<1>3. PICK f : /\ Is(f, "check", "sensor")
               /\ \/ Swaps(t, f) /\ \/ level' = level
                                    \/ \E s \in Sensors : level' = [level EXCEPT ![s] = "NORMAL"]
                  \/ \E g : \E s \in Sensors, lvl \in Levels :
                       /\ Calls(t, f, g) /\ Is(g, "notify", "next") /\ g.i = 0
                       /\ g.ev.src = s /\ g.ev.level = lvl /\ level' = [level EXCEPT ![s] = lvl]
  BY <1>0, CheckSensorEffect
<1>4. Top(t).proc # "update" /\ Deaf(Top(t)) /\ Deaf(f)
  BY <1>1, <1>3, IsDeaf DEF Is
<1>5. ASSUME Swaps(t, f), level' = level
      PROVE  AlarmsOK'
  BY <1>0, <1>1, <1>4, <1>5, AlarmsMoved
<1>6. ASSUME Swaps(t, f), NEW s \in Sensors, level' = [level EXCEPT ![s] = "NORMAL"]
      PROVE  AlarmsOK'
  <2>1. Others(t) /\ (Count("update", stack[t]) > 0 => Count("update", stack'[t]) > 0)
    BY <1>0, <1>1, <1>4, <1>6, UpdateCounts, SwapsStacks
  <2>2. (\A x \in Sensors : ~Telling(stack'[t], x)) /\ ~TopIs(stack'[t], "force", "lock")
    BY <1>4, <1>6, TopAfter, DeafFacts
  <2>3. Updating => Updating'
    BY <2>1, UpdatingKept
  <2>4. ASSUME NEW x \in Sensors
        PROVE  AlarmKnown(x)'
    <3>1. CASE x = s
      BY <1>0, <1>6, <3>1 DEF AlarmKnown, MonitorOK
    <3>2. CASE x # s
      <4>1. level'[x] = level[x] /\ AlarmKnown(x)
        BY <1>0, <1>6, <3>2, AlarmParts DEF MonitorOK
      <4> QED
        BY <1>1, <1>2, <2>3, <4>1 DEF AlarmKnown
    <3> QED
      BY <3>1, <3>2
  <2>5. ASSUME NEW u \in Tasks
        PROVE  TellsTrue(u)'
    <3>1. CASE u = t
      BY <2>2, <3>1 DEF TellsTrue
    <3>2. CASE u # t
      <4>1. stack'[u] = stack[u] /\ TellsTrue(u)
        BY <2>1, <3>2, AlarmParts DEF Others
      <4> QED
        BY <1>2, <4>1 DEF TellsTrue
    <3> QED
      BY <3>1, <3>2
  <2> QED
    BY <2>4, <2>5 DEF AlarmsOK, AlarmKnown, TellsTrue
<1>7. ASSUME NEW g, NEW s \in Sensors, NEW lvl \in Levels, Calls(t, f, g), Is(g, "notify", "next"),
             g.i = 0, g.ev.src = s, g.ev.level = lvl, level' = [level EXCEPT ![s] = lvl]
      PROVE  AlarmsOK'
  <2>1. Others(t) /\ (Count("update", stack[t]) > 0 => Count("update", stack'[t]) > 0)
    BY <1>0, <1>1, <1>4, <1>7, UpdateCounts, SwapsStacks
  <2>2. stack'[t] # <<>> /\ Head(stack'[t]) = g
    BY <1>7, TopAfter
  <2>3. Telling(stack'[t], s) /\ (\A x : Telling(stack'[t], x) => x = s) /\ ~TopIs(stack'[t], "force", "lock")
    BY <1>7, <2>2 DEF Telling, TopIs, Is
  <2>4. Count("T", stack'[t]) > 0
    <3>1. "T" \in Locks /\ Weight("T", f) = 1 /\ Weight("T", Top(t)) = 1
      BY <1>1, <1>3, HeldWeights DEF Locks
    <3>2. Weight("T", g) \in {0, 1}
      BY DEF Weight
    <3>3. /\ Count("T", stack[t]) \in Nat
          /\ Count("T", stack'[t]) = Count("T", stack[t]) + Weight("T", f) + Weight("T", g) - Weight("T", Top(t))
      BY <1>0, <1>1, <1>7, CallCounted
    <3> QED
      BY <1>2, <3>1, <3>2, <3>3
  <2>5. Updating => Updating'
    BY <2>1, UpdatingKept
  <2>6. level'[s] = lvl
    BY <1>0, <1>7 DEF MonitorOK
  <2>7. ASSUME NEW x \in Sensors
        PROVE  AlarmKnown(x)'
    <3>1. CASE x = s
      BY <1>7, <2>2, <2>3, <2>6, <3>1 DEF AlarmKnown
    <3>2. CASE x # s
      <4>1. level'[x] = level[x] /\ AlarmKnown(x)
        BY <1>0, <1>7, <3>2, AlarmParts DEF MonitorOK
      <4> QED
        BY <1>1, <1>2, <2>5, <4>1 DEF AlarmKnown
    <3> QED
      BY <3>1, <3>2
  <2>8. ASSUME NEW u \in Tasks
        PROVE  TellsTrue(u)'
    <3>1. CASE u = t
      BY <1>7, <2>2, <2>3, <2>4, <2>6, <3>1 DEF TellsTrue
    <3>2. CASE u # t
      <4>1. stack'[u] = stack[u] /\ TellsTrue(u)
        BY <2>1, <3>2, AlarmParts DEF Others
      <4> QED
        BY <1>2, <4>1 DEF TellsTrue
    <3> QED
      BY <3>1, <3>2
  <2> QED
    BY <2>7, <2>8 DEF AlarmsOK, AlarmKnown, TellsTrue
<1> QED
  BY <1>3, <1>5, <1>6, <1>7

LEMMA AlarmsReset ==
  ASSUME TypeInv, AlarmsOK, NEW t \in Tasks, ResetSubscriber(t)
  PROVE  AlarmsOK'
<1>0. StacksOK /\ LocksOK
  BY DEF TypeInv
<1>1. ~Idle(t) /\ Is(Top(t), "update", "reset") /\ UNCHANGED <<level, seen>>
  BY DEF ResetSubscriber, At, Is, engineVars, monitorVars
<1>2. PICK f : /\ Is(f, "update", "reset")
               /\ \/ Swaps(t, f)
                  \/ \E g : Calls(t, f, g) /\ (Is(g, "force", "lock") \/ Is(g, "flush", "lock"))
  BY <1>0, ResetSubscriberEffect
<1>3. Others(t) /\ (Count("update", stack[t]) > 0 => Count("update", stack'[t]) > 0)
  <2>1. CASE Swaps(t, f)
    BY <1>0, <1>1, <1>2, <2>1, UpdateCounts, SwapsStacks
  <2>2. ASSUME NEW g, Calls(t, f, g)
        PROVE  Others(t) /\ (Count("update", stack[t]) > 0 => Count("update", stack'[t]) > 0)
    BY <1>0, <1>1, <1>2, <2>2, UpdateCounts, SwapsStacks
  <2> QED
    BY <1>2, <2>1, <2>2
<1>4. Count("update", stack[t]) > 0
  <2>1. Weight("update", Top(t)) = 1
    BY <1>1, UpdateWeight
  <2> QED
    BY <1>0, <1>1, <2>1, TopKnown DEF Topped
<1>5. \A s \in Sensors : ~Telling(stack[t], s)
  BY <1>1, IsDeaf, DeafFacts DEF Top
<1>6. \A s \in Sensors : ~Telling(stack'[t], s)
  <2>1. PICK g : stack'[t] # <<>> /\ Head(stack'[t]) = g
                 /\ (Is(g, "update", "reset") \/ Is(g, "force", "lock") \/ Is(g, "flush", "lock"))
    BY <1>2, TopAfter
  <2> QED
    BY <2>1 DEF Telling, TopIs, Is
<1> QED
  BY <1>1, <1>3, <1>4, <1>5, <1>6, AlarmsKept

LEMMA AlarmsForgotten ==
  ASSUME TypeInv, AlarmsOK, NEW t \in Tasks, ForgetLevels(t)
  PROVE  AlarmsOK'
<1>1. StacksOK /\ LocksOK /\ level' = [s \in Sensors |-> "unset"]
  BY DEF ForgetLevels, TypeInv
<1>2. PICK f : Swaps(t, f) /\ Is(f, "check", "lock")
  BY <1>1, ForgetLevelsEffect
<1>3. Others(t) /\ (\A x \in Sensors : ~Telling(stack'[t], x)) /\ ~TopIs(stack'[t], "force", "lock")
  BY <1>2, IsDeaf, DeafFacts, TopAfter, SwapsStacks
<1>4. \A s \in Sensors : AlarmKnown(s)'
  BY <1>1 DEF AlarmKnown
<1>5. ASSUME NEW u \in Tasks
      PROVE  TellsTrue(u)'
  <2>1. CASE u = t
    BY <1>3, <2>1 DEF TellsTrue
  <2>2. CASE u # t
    <3>1. stack'[u] = stack[u] /\ TellsTrue(u)
      BY <1>3, <2>2, AlarmParts DEF Others
    <3> QED
      BY <1>1, <3>1 DEF TellsTrue
  <2> QED
    BY <2>1, <2>2
<1> QED
  BY <1>4, <1>5 DEF AlarmsOK, AlarmKnown, TellsTrue

\* The event goes from the list of subscribers to the engine.
LEMMA AlarmsPassed ==
  ASSUME TypeInv, AlarmsOK, NEW t \in Tasks, ~Idle(t), Is(Top(t), "notify", "next"), Top(t).i = 0,
         UNCHANGED <<level, seen>>, NEW g, Is(g, "event", "lock"), g.ev = Top(t).ev,
         Swaps(t, g) \/ \E f : Calls(t, f, g) /\ Is(f, "notify", "next")
  PROVE  AlarmsOK'
<1>0. StacksOK
  BY DEF TypeInv
<1>1. stack'[t] # <<>> /\ Head(stack'[t]) = g /\ Others(t)
  BY TopAfter, SwapsStacks
<1>2. \A s : Telling(stack'[t], s) <=> Telling(stack[t], s)
  BY <1>1 DEF Telling, TopIs, Is, Top, Idle
<1>3. Head(stack'[t]).ev = Head(stack[t]).ev
  BY <1>1 DEF Top
<1>4. /\ Count("T", stack'[t]) = Count("T", stack[t])
      /\ Count("update", stack[t]) > 0 => Count("update", stack'[t]) > 0
  <2>1. "T" \in Locks /\ Top(t).proc # "update" /\ Weight("T", Top(t)) = 0 /\ Weight("T", g) = 0
    BY LightFacts DEF Locks, Light, Is
  <2>2. CASE Swaps(t, g)
    <3>1. /\ Count("T", stack[t]) \in Nat
          /\ Count("T", stack'[t]) = Count("T", stack[t]) + Weight("T", g) - Weight("T", Top(t))
      BY <1>0, <2>2, SwapCounted
    <3>2. Count("update", stack[t]) > 0 => Count("update", stack'[t]) > 0
      BY <1>0, <2>1, <2>2, UpdateCounts
    <3> QED
      BY <2>1, <3>1, <3>2
  <2>3. ASSUME NEW f, Calls(t, f, g), Is(f, "notify", "next")
        PROVE  /\ Count("T", stack'[t]) = Count("T", stack[t])
               /\ Count("update", stack[t]) > 0 => Count("update", stack'[t]) > 0
    <3>1. Weight("T", f) = 0
      BY <2>1, <2>3, LightFacts DEF Light, Is
    <3>2. /\ Count("T", stack[t]) \in Nat
          /\ Count("T", stack'[t]) = Count("T", stack[t]) + Weight("T", f) + Weight("T", g) - Weight("T", Top(t))
      BY <1>0, <2>3, CallCounted
    <3>3. Count("update", stack[t]) > 0 => Count("update", stack'[t]) > 0
      BY <1>0, <2>1, <2>3, UpdateCounts
    <3> QED
      BY <2>1, <3>1, <3>2, <3>3
  <2> QED
    BY <2>2, <2>3
<1>5. Updating => Updating'
  BY <1>1, <1>4, UpdatingKept
<1>6. ~TopIs(stack'[t], "force", "lock")
  BY <1>1 DEF TopIs, Is
<1>7. ASSUME NEW u \in Tasks
      PROVE  TellsTrue(u)'
  <2>1. CASE u = t
    <3>1. TellsTrue(t)
      BY AlarmParts
    <3> QED
      BY <1>2, <1>3, <1>4, <1>6, <2>1, <3>1 DEF TellsTrue
  <2>2. CASE u # t
    <3>1. stack'[u] = stack[u] /\ TellsTrue(u)
      BY <1>1, <2>2, AlarmParts DEF Others
    <3> QED
      BY <3>1 DEF TellsTrue
  <2> QED
    BY <2>1, <2>2
<1>8. ASSUME NEW s \in Sensors
      PROVE  AlarmKnown(s)'
  <2>1. AlarmKnown(s)
    BY AlarmParts
  <2>2. \A u \in Tasks : Telling(stack[u], s) =>
           Telling(stack'[u], s) /\ Head(stack'[u]).ev = Head(stack[u]).ev
    BY <1>1, <1>2, <1>3 DEF Others
  <2> QED
    BY <1>5, <2>1, <2>2 DEF AlarmKnown
<1> QED
  BY <1>7, <1>8 DEF AlarmsOK, AlarmKnown, TellsTrue

\* The engine takes the level it is told.
LEMMA AlarmsHeard ==
  ASSUME TypeInv, AlarmsOK, NEW t \in Tasks, EngineEvent(t)
  PROVE  AlarmsOK'
<1> DEFINE ev == Top(t).ev
<1>0. StacksOK /\ LocksOK /\ EngineOK
  BY DEF TypeInv
<1>1. /\ ~Idle(t) /\ Is(Top(t), "event", "lock") /\ UNCHANGED level
      /\ seen' = IF Hardware(ev) THEN seen ELSE [seen EXCEPT ![ev.src] = ev.level]
  BY DEF EngineEvent, At, Is, monitorVars
<1>2. ev \in Events
  BY <1>0, EngineEventEffect
<1>3. PICK f : Swaps(t, f) /\ Is(f, "recompute", "lock")
  BY <1>0, EngineEventEffect
<1>4. /\ Others(t) /\ (\A x \in Sensors : ~Telling(stack'[t], x)) /\ ~TopIs(stack'[t], "force", "lock")
      /\ Count("update", stack[t]) > 0 => Count("update", stack'[t]) > 0
  <2>1. Top(t).proc # "update"
    BY <1>1 DEF Is
  <2>2. Count("update", stack[t]) > 0 => Count("update", stack'[t]) > 0
    BY <1>0, <1>1, <1>3, <2>1, UpdateCounts
  <2> QED
    BY <1>3, <2>2, IsDeaf, DeafFacts, TopAfter, SwapsStacks
<1>5. Updating => Updating'
  BY <1>4, UpdatingKept
<1>6. \A s \in Sensors : Telling(stack[t], s) => ev.src = s /\ Head(stack[t]).ev = ev
  BY DEF Telling, Top
<1>7. ASSUME NEW s \in Sensors
      PROVE  AlarmKnown(s)'
  <2>0. AlarmKnown(s)
    BY AlarmParts
  <2>1. CASE ~Hardware(ev) /\ ev.src = s
    <3>1. Telling(stack[t], s)
      BY <1>1, <2>1 DEF Telling, TopIs, Idle, Top
    <3>2. level[s] \in {ev.level, "unset"}
      BY <1>6, <3>1 DEF AlarmsOK
    <3>3. seen'[s] = ev.level
      BY <1>0, <1>1, <2>1 DEF EngineOK
    <3> QED
      BY <1>1, <3>2, <3>3 DEF AlarmKnown
  <2>2. CASE Hardware(ev) \/ ev.src # s
    <3>1. seen'[s] = seen[s]
      BY <1>0, <1>1, <2>2 DEF EngineOK
    <3>2. ~Telling(stack[t], s)
      <4>1. Hardware(ev) => ev.src \notin Sensors
        BY KeysFacts DEF Hardware
      <4> QED
        BY <1>6, <2>2, <4>1
    <3>3. \A u \in Tasks : Telling(stack[u], s) => stack'[u] = stack[u]
      BY <1>4, <3>2 DEF Others
    <3> QED
      BY <1>1, <1>5, <2>0, <3>1, <3>3 DEF AlarmKnown
  <2> QED
    BY <2>1, <2>2
<1>8. ASSUME NEW u \in Tasks
      PROVE  TellsTrue(u)'
  <2>1. CASE u = t
    BY <1>4, <2>1 DEF TellsTrue
  <2>2. CASE u # t
    <3>1. stack'[u] = stack[u] /\ TellsTrue(u)
      BY <1>4, <2>2, AlarmParts DEF Others
    <3> QED
      BY <1>1, <3>1 DEF TellsTrue
  <2> QED
    BY <2>1, <2>2
<1> QED
  BY <1>7, <1>8 DEF AlarmsOK, AlarmKnown, TellsTrue

\* The engine forgets its alarms only in the middle of a change of thresholds.
LEMMA AlarmsForced ==
  ASSUME TypeInv, AlarmsOK, NEW t \in Tasks, ForceReset(t)
  PROVE  AlarmsOK'
<1>0. StacksOK /\ LocksOK
  BY DEF TypeInv
<1>1. ~Idle(t) /\ Is(Top(t), "force", "lock") /\ UNCHANGED level
  BY DEF ForceReset, At, Is, monitorVars
<1>2. PICK f, g : Calls(t, f, g) /\ Is(f, "held", "unlock") /\ Is(g, "recompute", "lock")
  BY <1>0, ForceResetEffect
<1>3. Count("update", stack[t]) > 0
  BY <1>1 DEF AlarmsOK, TopIs, Top, Idle
<1>4. /\ Others(t) /\ (\A x \in Sensors : ~Telling(stack'[t], x)) /\ ~TopIs(stack'[t], "force", "lock")
      /\ Count("update", stack'[t]) > 0
  <2>1. Top(t).proc # "update"
    BY <1>1 DEF Is
  <2>2. Count("update", stack'[t]) > 0
    BY <1>0, <1>1, <1>2, <1>3, <2>1, UpdateCounts
  <2> QED
    BY <1>2, <2>2, IsDeaf, DeafFacts, TopAfter, SwapsStacks
<1>5. Updating'
  BY <1>4 DEF Updating
<1>6. \A s \in Sensors : AlarmKnown(s)'
  BY <1>5 DEF AlarmKnown
<1>7. ASSUME NEW u \in Tasks
      PROVE  TellsTrue(u)'
  <2>1. CASE u = t
    BY <1>4, <2>1 DEF TellsTrue
  <2>2. CASE u # t
    <3>1. stack'[u] = stack[u] /\ TellsTrue(u)
      BY <1>4, <2>2, AlarmParts DEF Others
    <3> QED
      BY <1>1, <3>1 DEF TellsTrue
  <2> QED
    BY <2>1, <2>2
<1> QED
  BY <1>6, <1>7 DEF AlarmsOK, AlarmKnown, TellsTrue

LEMMA AlarmsNotified ==
  ASSUME TypeInv, AlarmsOK, NEW t \in Tasks, NotifySubscriber(t)
  PROVE  AlarmsOK'
<1>0. StacksOK /\ LocksOK
  BY DEF TypeInv
<1>1. ~Idle(t) /\ UNCHANGED <<level, seen>>
  BY DEF NotifySubscriber, At, monitorVars, engineVars
<1>2. Is(Top(t), "notify", "next") /\ Top(t).i \in Nat
  BY <1>0, NotifySubscriberEffect
<1>3. \/ /\ Top(t).i = 0
         /\ \E g : /\ Is(g, "event", "lock") /\ g.ev = Top(t).ev
                   /\ Swaps(t, g) \/ \E f : Calls(t, f, g) /\ Is(f, "notify", "next")
      \/ /\ Top(t).i >= 1
         /\ \/ Returns(t) \/ \E f : Swaps(t, f) /\ Is(f, "notify", "next") /\ f.i >= 1
            \/ \E g : Is(g, "flush", "lock") /\ (Swaps(t, g) \/ \E f : Calls(t, f, g))
  BY <1>0, NotifySubscriberEffect
<1>4. ASSUME Top(t).i = 0, NEW g, Is(g, "event", "lock"), g.ev = Top(t).ev,
             Swaps(t, g) \/ \E f : Calls(t, f, g) /\ Is(f, "notify", "next")
      PROVE  AlarmsOK'
  BY <1>1, <1>2, <1>4, AlarmsPassed
<1>5. ASSUME Top(t).i >= 1,
             \/ Returns(t) \/ \E f : Swaps(t, f) /\ Is(f, "notify", "next") /\ f.i >= 1
             \/ \E g : Is(g, "flush", "lock") /\ (Swaps(t, g) \/ \E f : Calls(t, f, g))
      PROVE  AlarmsOK'
  <2>1. Deaf(Top(t)) /\ Top(t).proc # "update"
    BY <1>2, <1>5, IsDeaf DEF Is
  <2>2. \/ Returns(t) \/ (\E f : Swaps(t, f) /\ Deaf(f)) \/ (\E f, g : Calls(t, f, g) /\ Deaf(g))
    BY <1>5, IsDeaf
  <2> QED
    BY <1>0, <1>1, <2>1, <2>2, AlarmsMoved
<1> QED
  BY <1>3, <1>4, <1>5

\* The other steps of a call.
LEMMA AlarmsPassBy ==
  ASSUME TypeInv, AlarmsOK, NEW t \in Tasks, Inside(t), ~CheckSensor(t), ~ResetSubscriber(t),
         ~ForgetLevels(t), ~NotifySubscriber(t), ~EngineEvent(t), ~ForceReset(t)
  PROVE  AlarmsOK'
<1> DEFINE Move == Returns(t) \/ (\E f : Swaps(t, f) /\ Deaf(f)) \/ (\E f, g : Calls(t, f, g) /\ Deaf(g))
           Goal == ~Idle(t) /\ Deaf(Top(t)) /\ Top(t).proc # "update" /\ Move
<1>0. StacksOK /\ LocksOK /\ CodesOK /\ Booted(subs)
  BY DEF TypeInv, MonitorOK
<1>a. UNCHANGED <<level, seen>>
  BY DEF Inside, CheckBegins, CheckEnds, EngineUnlock, RecomputeBegins, DecideLine, SetUserLine,
     RecomputeEnds, FlushBegins, WriteChip, ReportChip, ReportBus, FlushEnds, ResetPins,
     engineVars, monitorVars
<1>b. ASSUME Goal
      PROVE  AlarmsOK'
  BY <1>0, <1>a, <1>b, AlarmsMoved
<1>c. ~Idle(t) /\ Top(t).proc \in {"check", "held", "recompute", "flush", "pins"}
  BY DEF Inside, CheckBegins, CheckEnds, EngineUnlock, RecomputeBegins, DecideLine, SetUserLine,
     RecomputeEnds, FlushBegins, WriteChip, ReportChip, ReportBus, FlushEnds, ResetPins, At
<1>d. Deaf(Top(t)) /\ Top(t).proc # "update"
  BY <1>c DEF Deaf, Is
<1>1. CASE CheckBegins(t)
  BY <1>0, <1>1, <1>b, <1>c, <1>d, CheckBeginsEffect, IsDeaf
<1>2. CASE CheckEnds(t)
  BY <1>0, <1>2, <1>b, <1>c, <1>d, CheckEndsEffect
<1>3. CASE EngineUnlock(t) \/ RecomputeEnds(t)
  BY <1>0, <1>3, <1>b, <1>c, <1>d, EngineUnlockEffect
<1>4. CASE RecomputeBegins(t)
  BY <1>0, <1>4, <1>b, <1>c, <1>d, RecomputeBeginsEffect, IsDeaf
<1>5. CASE DecideLine(t)
  <2>1. Move
    BY <1>0, <1>5, DecideLineEffect, IsDeaf
  <2> QED
    BY <1>b, <1>c, <1>d, <2>1
<1>6. CASE SetUserLine(t)
  <2>1. Move
    BY <1>0, <1>6, SetUserLineEffect, IsDeaf
  <2> QED
    BY <1>b, <1>c, <1>d, <2>1
<1>7. CASE FlushBegins(t)
  BY <1>0, <1>7, <1>b, <1>c, <1>d, FlushBeginsEffect, IsDeaf
<1>8. CASE WriteChip(t)
  <2>1. Move
    BY <1>0, <1>8, WriteChipEffect, IsDeaf
  <2> QED
    BY <1>b, <1>c, <1>d, <2>1
<1>9. CASE ReportChip(t) \/ ReportBus(t)
  <2>1. PICK h : (Is(h, "flush", "bus") \/ Is(h, "flush", "write")) /\ Reported(t, h)
    <3>1. CASE ReportChip(t)
      BY <1>0, <3>1, ReportChipEffect
    <3>2. CASE ReportBus(t)
      BY <1>0, <3>2, ReportBusEffect
    <3> QED
      BY <1>9, <3>1, <3>2
  <2>2. Deaf(h) /\ \A n : Is(n, "notify", "next") /\ n.ev.src \in FaultKeys => Deaf(n)
    BY <2>1, IsDeaf
  <2>3. Move
    BY <2>1, <2>2 DEF Reported
  <2> QED
    BY <1>b, <1>c, <1>d, <2>3
<1>10. CASE FlushEnds(t)
  BY <1>0, <1>10, <1>b, <1>c, <1>d, FlushEndsEffect
<1>11. CASE ResetPins(t)
  BY <1>0, <1>11, <1>b, <1>c, <1>d, ResetPinsEffect, IsDeaf
<1> QED
  BY <1>1, <1>2, <1>3, <1>4, <1>5, <1>6, <1>7, <1>8, <1>9, <1>10, <1>11 DEF Inside

\* A call that begins with a deaf frame.
LEMMA AlarmsStarted ==
  ASSUME AlarmsOK, NEW t \in Tasks, UNCHANGED <<level, seen>>, stack[t] = <<>>, Others(t),
         stack'[t] # <<>>, Deaf(Head(stack'[t]))
  PROVE  AlarmsOK'
<1>1. Count("update", stack[t]) = 0
  BY CountEmpty
<1>2. \A s \in Sensors : ~Telling(stack[t], s) /\ ~Telling(stack'[t], s)
  BY DeafFacts
<1>3. ~TopIs(stack'[t], "force", "lock")
  BY DeafFacts
<1> QED
  BY <1>1, <1>2, <1>3, AlarmsKept

LEMMA OutsideAlarms ==
  ASSUME TypeInv, AlarmsOK, Next, \A t \in Tasks : ~Inside(t)
  PROVE  AlarmsOK'
<1>0. UNCHANGED <<level, seen>>
  BY DEF Next, Web, Device, UpdateThresholds, Override, LoadRules, DeviceFault, DeviceRecovers,
     StartCheck, Sense, ReAlarm, RulesTick, PlantChanges, Subscribe, monitorVars, engineVars
<1>a. ASSUME stack' = stack
      PROVE  AlarmsOK'
  BY <1>0, <1>a DEF AlarmsOK, Updating
<1>b. ASSUME NEW t \in Tasks, NEW f, Starts(t, f), Deaf(f)
      PROVE  AlarmsOK'
  <2>1. stack[t] = <<>> /\ Others(t) /\ stack'[t] # <<>> /\ Head(stack'[t]) = f
    BY <1>b, TopAfter DEF Starts, Moved
  <2> QED
    BY <1>0, <1>b, <2>1, AlarmsStarted
<1>1. ASSUME NEW w \in Webs, Web(w)
      PROVE  AlarmsOK'
  <2>1. CASE UpdateThresholds(w)
    BY <1>a, <1>b, <2>1, UpdateThresholdsEffect, IsDeaf
  <2>2. CASE Override(w) \/ LoadRules(w)
    <3>1. PICK f, g : w \in Tasks /\ stack[w] = <<>> /\ Is(g, "recompute", "lock") /\ Moved(w, g, <<f>> \o <<>>)
      BY <2>2, WebHoldsEffect
    <3>2. Others(w) /\ stack'[w] # <<>> /\ Head(stack'[w]) = g /\ Deaf(g)
      BY <3>1, IsDeaf DEF Moved, Topped
    <3> QED
      BY <1>0, <3>1, <3>2, AlarmsStarted
  <2> QED
    BY <1>1, <2>1, <2>2 DEF Web
<1>2. ASSUME NEW d \in Devices, Device(d)
      PROVE  AlarmsOK'
  BY <1>2, <1>b, DeviceEffect, IsDeaf
<1>3. ASSUME NEW t \in Tasks, StartCheck(t)
      PROVE  AlarmsOK'
  BY <1>3, <1>b, TimerEffect, IsDeaf
<1>4. CASE RulesTick
  BY <1>4, <1>b, TimerEffect, TaskFacts, IsDeaf
<1>5. CASE Subscribe
  BY <1>5, <1>a, <1>b, TimerEffect, TaskFacts, IsDeaf
<1>6. CASE ReAlarm \/ PlantChanges \/ \E s \in Sensors : Sense(s)
  BY <1>6, <1>a DEF ReAlarm, PlantChanges, Sense
<1> QED
  BY <1>1, <1>2, <1>3, <1>4, <1>5, <1>6 DEF Next

LEMMA NextAlarms == TypeInv /\ AlarmsOK /\ [Next]_vars => AlarmsOK'
<1> SUFFICES ASSUME TypeInv, AlarmsOK, [Next]_vars
             PROVE  AlarmsOK'
  OBVIOUS
<1>1. CASE UNCHANGED vars
  BY <1>1 DEF AlarmsOK, Updating, vars, engineVars, monitorVars
<1>2. ASSUME NEW t \in Tasks, Inside(t)
      PROVE  AlarmsOK'
  BY <1>2, AlarmsChecked, AlarmsReset, AlarmsForgotten, AlarmsNotified, AlarmsHeard, AlarmsForced,
     AlarmsPassBy
<1>3. CASE Next /\ \A t \in Tasks : ~Inside(t)
  BY <1>3, OutsideAlarms
<1> QED
  BY <1>1, <1>2, <1>3

-----------------------------------------------------------------------------
(* Rules: what is read from a file, and what is written back.              *)

LEMMA LevelsRead == \A v : LevelFromInt(v) \in Levels
  BY DEF LevelFromInt, Levels

\* A rule that is kept was accepted, and is the rule parsed from its place in the file.
LEMMA KeptRules ==
  ASSUME NEW file, NEW i \in DOMAIN ParseRules(file)
  PROVE  /\ i \in DOMAIN file
         /\ Has(file[i], "condition") /\ Accepted(file[i].condition)
         /\ ParseRules(file)[i] = ParseRule(file[i])
  BY DEF ParseRules, RuleAccepted

LEMMA SsvcKinds ==
  ASSUME NEW json, SsvcAccepted(json)
  PROVE  /\ SsvcTest(json) \in {"bool", "int", "float"}
         /\ SsvcTest(json) = "bool" =>
              /\ ParseSsvcSetting(json) = [DefaultCondition EXCEPT !.key = json.key, !.kind = "ssvc_bool",
                                                                   !.bool = json.boolEquals]
              /\ ParseSsvcSetting(json).kind = "ssvc_bool"
         /\ SsvcTest(json) = "int" =>
              /\ ParseSsvcSetting(json) = [DefaultCondition EXCEPT !.key = json.key, !.kind = "ssvc_int",
                                                                   !.int = json.intEquals]
              /\ ParseSsvcSetting(json).kind = "ssvc_int"
         /\ SsvcTest(json) = "float" =>
              /\ ParseSsvcSetting(json) = [DefaultCondition EXCEPT !.key = json.key, !.kind = "ssvc_float",
                                                                   !.float = json.floatEquals]
              /\ ParseSsvcSetting(json).kind = "ssvc_float"
<1>1. SsvcTest(json) \in {"bool", "int", "float"}
  BY DEF SsvcTest, SsvcAccepted
<1>2. CASE SsvcTest(json) = "bool"
  <2>1. ParseSsvcSetting(json) = [DefaultCondition EXCEPT !.key = json.key, !.kind = "ssvc_bool",
                                                          !.bool = json.boolEquals]
    BY <1>2 DEF ParseSsvcSetting
  <2> QED
    BY <1>2, <2>1 DEF DefaultCondition
<1>3. CASE SsvcTest(json) = "int"
  <2>1. ParseSsvcSetting(json) = [DefaultCondition EXCEPT !.key = json.key, !.kind = "ssvc_int",
                                                          !.int = json.intEquals]
    BY <1>3 DEF ParseSsvcSetting
  <2> QED
    BY <1>3, <2>1 DEF DefaultCondition
<1>4. CASE SsvcTest(json) = "float"
  <2>1. ParseSsvcSetting(json) = [DefaultCondition EXCEPT !.key = json.key, !.kind = "ssvc_float",
                                                          !.float = json.floatEquals]
    BY <1>4 DEF ParseSsvcSetting
  <2> QED
    BY <1>4, <2>1 DEF DefaultCondition
<1> QED
  BY <1>1, <1>2, <1>3, <1>4

\* An accepted condition is of one of the four types, and its kind says which.
LEMMA ConditionKinds ==
  ASSUME NEW json, Accepted(json)
  PROVE  \/ ParseCondition(json) = ParseSensorAlarm(json) /\ ParseCondition(json).kind = "sensor_alarm"
         \/ ParseCondition(json) = ParseHardwareFault(json) /\ ParseCondition(json).kind = "hardware_fault"
         \/ ParseCondition(json) = ParseRectification(json) /\ ParseCondition(json).kind = "rectification"
         \/ /\ ParseCondition(json) = ParseSsvcSetting(json) /\ SsvcAccepted(json)
            /\ ParseCondition(json).kind \in {"ssvc_bool", "ssvc_int", "ssvc_float"}
<1> DEFINE type == TypeOfCondition(json)
<1>0. type \in {"sensor_alarm", "hardware_fault", "rectification", "ssvc_setting"}
  BY DEF Accepted
<1>1. CASE type = "sensor_alarm"
  BY <1>1 DEF ParseCondition, ParseSensorAlarm, DefaultCondition
<1>2. CASE type = "hardware_fault"
  BY <1>2 DEF ParseCondition, ParseHardwareFault, DefaultCondition
<1>3. CASE type = "rectification"
  BY <1>3 DEF ParseCondition, ParseRectification, DefaultCondition
<1>4. CASE type = "ssvc_setting"
  <2>1. SsvcAccepted(json) /\ ParseCondition(json) = ParseSsvcSetting(json)
    BY <1>4 DEF Accepted, ParseCondition
  <2>2. ParseSsvcSetting(json).kind \in {"ssvc_bool", "ssvc_int", "ssvc_float"}
    BY <2>1, SsvcKinds
  <2> QED
    BY <2>1, <2>2
<1> QED
  BY <1>0, <1>1, <1>2, <1>3, <1>4

LEMMA SensorAlarmFields ==
  ASSUME NEW json
  PROVE  /\ ParseSensorAlarm(json).want \subseteq {"MIN", "DANGEROUS", "CRITICAL"}
         /\ ParseSensorAlarm(json).names = Get(json, "sensorNameContains", Sensors)
<1>1. ParseSensorAlarm(json).want =
        IF Has(json, "levels") THEN {LevelFromInt(v) : v \in json.levels} \ {"NORMAL"}
                               ELSE {"DANGEROUS", "CRITICAL"}
  BY DEF ParseSensorAlarm, DefaultCondition
<1>2. {LevelFromInt(v) : v \in json.levels} \subseteq Levels
  BY LevelsRead
<1>3. ParseSensorAlarm(json).names = Get(json, "sensorNameContains", Sensors)
  BY DEF ParseSensorAlarm, DefaultCondition
<1> QED
  BY <1>1, <1>2, <1>3 DEF Levels

LEMMA HardwareFaultFields ==
  ASSUME NEW json
  PROVE  /\ ParseHardwareFault(json).roles = Get(json, "roleContains", FaultKeys)
         /\ ParseHardwareFault(json).code = Get(json, "code", AnyCode)
  BY DEF ParseHardwareFault, DefaultCondition

\* Without an alarm and without a fault no rule on alarms or faults matches.
LEMMA RestMatches ==
  ASSUME NEW file \in RuleFiles, NEW i \in DOMAIN ParseRules(file),
         NEW stage, NEW settings,
         NEW c, c = ParseRules(file)[i].cond, c.kind \in {"sensor_alarm", "hardware_fault"}
  PROVE  ~Matches(c, [s \in Sensors |-> "NORMAL"], [k \in FaultKeys |-> "NONE"], stage, settings)
<1> DEFINE json == file[i].condition
<1>1. i \in DOMAIN file /\ Has(file[i], "condition") /\ Accepted(json) /\ c = ParseCondition(json)
  <2>1. ParseRules(file)[i] = ParseRule(file[i])
    BY KeptRules
  <2>2. i \in DOMAIN file /\ Has(file[i], "condition") /\ Accepted(json)
    BY KeptRules
  <2>3. ParseRule(file[i]).cond = ParseCondition(json)
    BY DEF ParseRule
  <2> QED
    BY <2>1, <2>2, <2>3
<1>2. CASE c.kind = "sensor_alarm"
  <2>1. c = ParseSensorAlarm(json)
    BY <1>1, <1>2, ConditionKinds
  <2>2. c.want \subseteq {"MIN", "DANGEROUS", "CRITICAL"} /\ c.names = Get(json, "sensorNameContains", Sensors)
    BY <2>1, SensorAlarmFields
  <2>3. c.names \subseteq Sensors
    BY <1>1, <2>2, RulesAssumption DEF Get
  <2> QED
    BY <1>2, <2>2, <2>3 DEF Matches, MatchSensorAlarm
<1>3. CASE c.kind = "hardware_fault"
  <2>1. c = ParseHardwareFault(json)
    BY <1>1, <1>3, ConditionKinds
  <2>2. c.roles = Get(json, "roleContains", FaultKeys)
    BY <2>1, HardwareFaultFields
  <2>3. c.roles \subseteq FaultKeys
    BY <1>1, <2>2, RulesAssumption DEF Get
  <2> QED
    BY <1>3, <2>3 DEF Matches, MatchHardwareFault
<1> QED
  BY <1>2, <1>3

LEMMA InitLines == Init => LinesOK
<1> SUFFICES ASSUME Init, NEW line \in UserLines, ~FollowsPlant(line)
             PROVE  LineOK(line)
  BY DEF LinesOK
<1>1. PICK file \in RuleFiles : rules = ParseRules(file)
  BY DEF Init
<1>2. /\ seen = [s \in Sensors |-> "NORMAL"] /\ faults = [k \in FaultKeys |-> "NONE"]
      /\ manual[line] = "rules" /\ coord.user = {} /\ \A t \in Tasks : stack[t] = <<>>
  BY DEF Init
<1>3. Applicable(rules, line, seen, faults, plant.stage, plant.settings) = {}
  <2> SUFFICES ASSUME NEW i \in DOMAIN rules, rules[i].target = line
               PROVE  ~Matches(rules[i].cond, seen, faults, plant.stage, plant.settings)
    BY DEF Applicable
  <2>1. rules[i].cond.kind \in {"sensor_alarm", "hardware_fault"}
    BY DEF FollowsPlant
  <2> QED
    BY <1>1, <1>2, <2>1, RestMatches
<1>4. ~Decision(line)
  BY <1>2, <1>3 DEF Decision, Energised
<1>5. \A t \in Tasks : ~Setting(stack[t], line)
  BY <1>2 DEF Setting, TopIs
<1> QED
  BY <1>2, <1>4, <1>5, DecisionBoolean DEF LineOK

LEMMA InitRest == Init => OutputsOK /\ FaultsOK /\ AlarmsOK
<1> SUFFICES ASSUME Init
             PROVE  OutputsOK /\ FaultsOK /\ AlarmsOK
  OBVIOUS
<1>1. \A t \in Tasks : stack[t] = <<>>
  BY DEF Init
<1>2. OutputsOK
  <2>1. coord.user = {} /\ AlarmLines(coord.alarm) = {} /\ \A c \in Chips : out[c] = {}
    BY DEF Init, AlarmLines
  <2> QED
    BY <2>1 DEF OutputsOK, Image
<1>3. FaultsOK
  <2>1. \A c \in Chips : written[c] = "OK" /\ faults[c] = "NONE"
    BY KeysFacts DEF Init
  <2>2. \A t \in Tasks, c \in Chips : ~Reporting(stack[t], c)
    BY <1>1 DEF Reporting, TopIs
  <2> QED
    BY <2>1, <2>2 DEF FaultsOK
<1>4. AlarmsOK
  <2>1. \A s \in Sensors : level[s] = "unset"
    BY DEF Init
  <2>2. \A t \in Tasks, s \in Sensors : ~Telling(stack[t], s) /\ ~TopIs(stack[t], "force", "lock")
    BY <1>1 DEF Telling, TopIs
  <2>3. \A t \in Tasks : ~TopIs(stack[t], "force", "lock")
    BY <1>1 DEF TopIs
  <2> QED
    BY <2>1, <2>2, <2>3 DEF AlarmsOK
<1> QED
  BY <1>2, <1>3, <1>4

LEMMA InvInductive == Spec => []IInv
<1>1. Init => IInv
  BY InitTyped, InitLines, InitRest DEF IInv
<1>2. IInv /\ [Next]_vars => IInv'
  BY NextTyped, NextLines, NextOutputs, NextFaults, NextAlarms DEF IInv
<1> QED
  BY <1>1, <1>2, PTL DEF Spec

LEMMA InvRelays == IInv => RelaysRight
<1> SUFFICES ASSUME IInv
             PROVE  RelaysRight
  OBVIOUS
<1>1. LinesFollowRules
  <2> SUFFICES ASSUME AtRest, NEW line \in UserLines, ~FollowsPlant(line)
               PROVE  (line \in coord.user) = Decision(line)
    BY DEF LinesFollowRules
  <2>1. \A t \in Tasks : ~Deciding(stack[t], line) /\ ~Setting(stack[t], line)
    BY DEF AtRest, Idle, Deciding, Setting, TopIs
  <2> QED
    BY <2>1 DEF IInv, LinesOK, LineOK
<1>2. OutputsMatch
  <2> SUFFICES ASSUME AtRest, NEW c \in Chips, written[c] = "OK"
               PROVE  out[c] = Image(c)
    BY DEF OutputsMatch
  <2>1. \A t \in Tasks : ~Flushes(stack[t], c)
    BY DEF AtRest, Idle, Flushes
  <2> QED
    BY <2>1 DEF IInv, OutputsOK
<1>3. FaultTableTrue
  <2> SUFFICES ASSUME AtRest, NEW c \in Chips
               PROVE  /\ written[c] = "OK" => faults[c] = "NONE"
                      /\ written[c] = "I2C_NACK" => faults[c] = "I2C_NACK"
    BY DEF FaultTableTrue
  <2>1. \A t \in Tasks : ~Reporting(stack[t], c)
    BY DEF AtRest, Idle, Reporting, TopIs
  <2> QED
    BY <2>1 DEF IInv, FaultsOK
<1> QED
  BY <1>1, <1>2, <1>3 DEF RelaysRight

LEMMA InvAlarms == IInv => NoAlarmForgotten
<1> SUFFICES ASSUME IInv, AtRest, NEW s \in Sensors, level[s] \notin {"unset", "NORMAL"}
             PROVE  seen[s] = level[s]
  BY DEF NoAlarmForgotten
<1>1. \A t \in Tasks : stack[t] = <<>>
  BY DEF AtRest, Idle
<1>2. \A t \in Tasks : ~Telling(stack[t], s)
  BY <1>1 DEF Telling, TopIs
<1>3. \A t \in Tasks : Count("update", stack[t]) = 0
  BY <1>1, CountEmpty
<1>4. ~Updating
  BY <1>3 DEF Updating
<1> QED
  BY <1>2, <1>4 DEF IInv, AlarmsOK

\* Whenever no call is in progress, every line that rules on alarms and faults decide is set
\* as they say, every chip that took its last write shows what the coordinator holds, and the
\* table of faults says which chip did not, for any number of tasks, sensors, chips and failed
\* writes, though each of these is brought up to date by calls that nest inside one another.
THEOREM RelaysAreRight == Spec => []RelaysRight
  BY InvInductive, InvRelays, PTL

\* Whenever no call is in progress, an alarm in _last_alarm_states is known to the rule engine,
\* also after onThresholdsUpdated() made the engine and the monitor forget their alarms while
\* the timer's check was under way.
THEOREM AlarmsRemembered == Spec => []NoAlarmForgotten
  BY InvInductive, InvAlarms, PTL
-----------------------------------------------------------------------------
(* A profile saved and applied again.                                      *)

LEMMA LevelsSaved ==
  ASSUME NEW want, want \subseteq {"MIN", "DANGEROUS", "CRITICAL"}
  PROVE  {LevelFromInt(v) : v \in LevelList(want)} \ {"NORMAL"} = want
<1>1. LevelFromInt(1) = "MIN" /\ LevelFromInt(2) = "DANGEROUS" /\ LevelFromInt(3) = "CRITICAL"
  BY DEF LevelFromInt
<1>2. \A x \in want : \E v \in LevelList(want) : LevelFromInt(v) = x
  <2> SUFFICES ASSUME NEW x \in want
               PROVE  \E v \in LevelList(want) : LevelFromInt(v) = x
    OBVIOUS
  <2>1. CASE x = "MIN"
    BY <1>1, <2>1 DEF LevelList
  <2>2. CASE x = "DANGEROUS"
    BY <1>1, <2>2 DEF LevelList
  <2>3. CASE x = "CRITICAL"
    BY <1>1, <2>3 DEF LevelList
  <2> QED
    BY <2>1, <2>2, <2>3
<1>3. \A v \in LevelList(want) : LevelFromInt(v) \in want
  BY DEF LevelList
<1> QED
  BY <1>2, <1>3

LEMMA SensorAlarmSaved ==
  ASSUME NEW json, NEW c, c = ParseSensorAlarm(json)
  PROVE  /\ TypeOfCondition(SerializeCondition(c)) = "sensor_alarm"
         /\ ParseSensorAlarm(SerializeCondition(c)) = c
<1> DEFINE j == SerializeCondition(c)
<1>1. c.kind = "sensor_alarm" /\ c.want \subseteq {"MIN", "DANGEROUS", "CRITICAL"}
  BY SensorAlarmFields DEF ParseSensorAlarm, DefaultCondition
<1>2. j = Plus([type |-> "sensor_alarm", levels |-> LevelList(c.want)],
               Optional(c.names # Sensors, "sensorNameContains", c.names))
  BY <1>1 DEF SerializeCondition
<1>3. Has(j, "levels") /\ j.levels = LevelList(c.want) /\ Has(j, "type") /\ j.type = "sensor_alarm"
  BY <1>2 DEF Plus, Has
<1>4. Get(j, "sensorNameContains", Sensors) = c.names
  <2>1. CASE c.names = Sensors
    <3>1. DOMAIN Optional(FALSE, "sensorNameContains", c.names) = {}
      BY DEF Optional
    <3>2. "sensorNameContains" \notin DOMAIN j
      BY <1>2, <2>1, <3>1 DEF Plus
    <3> QED
      BY <2>1, <3>2 DEF Get, Has
  <2>2. CASE c.names # Sensors
    <3>1. Optional(TRUE, "sensorNameContains", c.names) = [f \in {"sensorNameContains"} |-> c.names]
      BY DEF Optional
    <3>2. "sensorNameContains" \in DOMAIN j /\ j.sensorNameContains = c.names
      BY <1>2, <2>2, <3>1 DEF Plus
    <3> QED
      BY <3>2 DEF Get, Has
  <2> QED
    BY <2>1, <2>2
<1> HIDE DEF j
<1>5. ParseSensorAlarm(j) = [DefaultCondition EXCEPT !.want = c.want, !.names = c.names]
  <2>1. {LevelFromInt(v) : v \in j.levels} \ {"NORMAL"} = c.want
    BY <1>1, <1>3, LevelsSaved
  <2> QED
    BY <1>3, <1>4, <2>1 DEF ParseSensorAlarm
<1>6. [DefaultCondition EXCEPT !.want = c.want, !.names = c.names] = c
  BY DEF ParseSensorAlarm, DefaultCondition
<1>7. TypeOfCondition(j) = "sensor_alarm"
  BY <1>3 DEF TypeOfCondition, Get
<1> QED
  BY <1>5, <1>6, <1>7 DEF j

LEMMA HardwareFaultSaved ==
  ASSUME NEW json, NEW c, c = ParseHardwareFault(json)
  PROVE  /\ TypeOfCondition(SerializeCondition(c)) = "hardware_fault"
         /\ ParseHardwareFault(SerializeCondition(c)) = c
<1> DEFINE j == SerializeCondition(c)
           k == Plus([type |-> "hardware_fault"], Optional(c.code # AnyCode, "code", c.code))
<1>1. c.kind = "hardware_fault"
  BY DEF ParseHardwareFault, DefaultCondition
<1>2. j = Plus(k, Optional(c.roles # FaultKeys, "roleContains", c.roles))
  BY <1>1 DEF SerializeCondition
<1>3. /\ Has(k, "type") /\ k.type = "hardware_fault" /\ "roleContains" \notin DOMAIN k
      /\ Get(k, "code", AnyCode) = c.code
  <2>1. CASE c.code = AnyCode
    <3>1. DOMAIN Optional(FALSE, "code", c.code) = {}
      BY DEF Optional
    <3> QED
      BY <2>1, <3>1 DEF Plus, Has, Get
  <2>2. CASE c.code # AnyCode
    <3>1. Optional(TRUE, "code", c.code) = [f \in {"code"} |-> c.code]
      BY DEF Optional
    <3> QED
      BY <2>2, <3>1 DEF Plus, Has, Get
  <2> QED
    BY <2>1, <2>2
<1>4. /\ Has(j, "type") /\ j.type = "hardware_fault"
      /\ Get(j, "code", AnyCode) = c.code /\ Get(j, "roleContains", FaultKeys) = c.roles
  <2> HIDE DEF j, k
  <2>1. CASE c.roles = FaultKeys
    <3>1. DOMAIN Optional(FALSE, "roleContains", c.roles) = {}
      BY DEF Optional
    <3>2. DOMAIN j = DOMAIN k /\ \A f \in DOMAIN k : j[f] = k[f]
      BY <1>2, <2>1, <3>1 DEF Plus
    <3> QED
      BY <1>3, <2>1, <3>2 DEF Has, Get
  <2>2. CASE c.roles # FaultKeys
    <3>1. Optional(TRUE, "roleContains", c.roles) = [f \in {"roleContains"} |-> c.roles]
      BY DEF Optional
    <3>2. DOMAIN j = DOMAIN k \cup {"roleContains"} /\ \A f \in DOMAIN k : j[f] = k[f]
      BY <1>2, <2>2, <3>1 DEF Plus
    <3>3. j.roleContains = c.roles
      BY <1>2, <1>3, <2>2, <3>1 DEF Plus
    <3> QED
      BY <1>3, <3>2, <3>3 DEF Has, Get
  <2> QED
    BY <2>1, <2>2
<1> HIDE DEF j
<1>5. ParseHardwareFault(j) = [DefaultCondition EXCEPT !.kind = "hardware_fault", !.code = c.code,
                                                       !.roles = c.roles]
  BY <1>4 DEF ParseHardwareFault
<1>6. [DefaultCondition EXCEPT !.kind = "hardware_fault", !.code = c.code, !.roles = c.roles] = c
  BY DEF ParseHardwareFault, DefaultCondition
<1>7. TypeOfCondition(j) = "hardware_fault"
  BY <1>4 DEF TypeOfCondition, Get
<1> QED
  BY <1>5, <1>6, <1>7 DEF j

LEMMA RectificationSaved ==
  ASSUME NEW json, NEW c, c = ParseRectification(json)
  PROVE  /\ TypeOfCondition(SerializeCondition(c)) = "rectification"
         /\ ParseRectification(SerializeCondition(c)) = c
<1> DEFINE j == SerializeCondition(c)
<1>1. c.kind = "rectification"
  BY DEF ParseRectification, DefaultCondition
<1>2. j = [type |-> "rectification", stageEquals |-> c.stage]
  BY <1>1 DEF SerializeCondition
<1>3. TypeOfCondition(j) = "rectification" /\ Get(j, "stageEquals", "") = c.stage
  BY <1>2 DEF TypeOfCondition, Get, Has
<1> HIDE DEF j
<1>4. ParseRectification(j) = [DefaultCondition EXCEPT !.kind = "rectification", !.stage = c.stage]
  BY <1>3 DEF ParseRectification
<1>5. [DefaultCondition EXCEPT !.kind = "rectification", !.stage = c.stage] = c
  BY DEF ParseRectification, DefaultCondition
<1> QED
  BY <1>3, <1>4, <1>5 DEF j

LEMMA SsvcSettingSaved ==
  ASSUME NEW json, SsvcAccepted(json), NEW c, c = ParseSsvcSetting(json)
  PROVE  /\ TypeOfCondition(SerializeCondition(c)) = "ssvc_setting"
         /\ SsvcAccepted(SerializeCondition(c))
         /\ ParseSsvcSetting(SerializeCondition(c)) = c
<1> DEFINE j == SerializeCondition(c)
<1>0. SsvcTest(json) \in {"bool", "int", "float"}
  BY SsvcKinds
<1>1. CASE SsvcTest(json) = "bool"
  <2>1. c.kind = "ssvc_bool" /\ c = [DefaultCondition EXCEPT !.key = json.key, !.kind = "ssvc_bool",
                                                             !.bool = json.boolEquals]
    BY <1>1, SsvcKinds
  <2>2. c.key = json.key /\ c.bool = json.boolEquals
    BY <2>1 DEF DefaultCondition
  <2>3. j = [type |-> "ssvc_setting", key |-> json.key, boolEquals |-> json.boolEquals]
    BY <2>1, <2>2 DEF SerializeCondition
  <2>4. /\ TypeOfCondition(j) = "ssvc_setting" /\ SsvcAccepted(j) /\ SsvcTest(j) = "bool"
        /\ j.key = json.key /\ j.boolEquals = json.boolEquals
    BY <2>3 DEF TypeOfCondition, Get, Has, SsvcAccepted, SsvcTest
  <2> HIDE DEF j
  <2>5. ParseSsvcSetting(j) = [DefaultCondition EXCEPT !.key = j.key, !.kind = "ssvc_bool",
                                                       !.bool = j.boolEquals]
    BY <2>4, SsvcKinds
  <2> QED
    BY <2>1, <2>4, <2>5 DEF j
<1>2. CASE SsvcTest(json) = "int"
  <2>1. c.kind = "ssvc_int" /\ c = [DefaultCondition EXCEPT !.key = json.key, !.kind = "ssvc_int",
                                                            !.int = json.intEquals]
    BY <1>2, SsvcKinds
  <2>2. c.key = json.key /\ c.int = json.intEquals
    BY <2>1 DEF DefaultCondition
  <2>3. j = [type |-> "ssvc_setting", key |-> json.key, intEquals |-> json.intEquals]
    BY <2>1, <2>2 DEF SerializeCondition
  <2>4. /\ TypeOfCondition(j) = "ssvc_setting" /\ SsvcAccepted(j) /\ SsvcTest(j) = "int"
        /\ j.key = json.key /\ j.intEquals = json.intEquals
    BY <2>3 DEF TypeOfCondition, Get, Has, SsvcAccepted, SsvcTest
  <2> HIDE DEF j
  <2>5. ParseSsvcSetting(j) = [DefaultCondition EXCEPT !.key = j.key, !.kind = "ssvc_int",
                                                       !.int = j.intEquals]
    BY <2>4, SsvcKinds
  <2> QED
    BY <2>1, <2>4, <2>5 DEF j
<1>3. CASE SsvcTest(json) = "float"
  <2>1. c.kind = "ssvc_float" /\ c = [DefaultCondition EXCEPT !.key = json.key, !.kind = "ssvc_float",
                                                              !.float = json.floatEquals]
    BY <1>3, SsvcKinds
  <2>2. c.key = json.key /\ c.float = json.floatEquals
    BY <2>1 DEF DefaultCondition
  <2>3. j = [type |-> "ssvc_setting", key |-> json.key, floatEquals |-> json.floatEquals]
    BY <2>1, <2>2 DEF SerializeCondition
  <2>4. /\ TypeOfCondition(j) = "ssvc_setting" /\ SsvcAccepted(j) /\ SsvcTest(j) = "float"
        /\ j.key = json.key /\ j.floatEquals = json.floatEquals
    BY <2>3 DEF TypeOfCondition, Get, Has, SsvcAccepted, SsvcTest
  <2> HIDE DEF j
  <2>5. ParseSsvcSetting(j) = [DefaultCondition EXCEPT !.key = j.key, !.kind = "ssvc_float",
                                                       !.float = j.floatEquals]
    BY <2>4, SsvcKinds
  <2> QED
    BY <2>1, <2>4, <2>5 DEF j
<1> QED
  BY <1>0, <1>1, <1>2, <1>3

\* What an accepted condition is written back as is accepted and is read as the same.
LEMMA ConditionSaved ==
  ASSUME NEW json, Accepted(json), NEW c, c = ParseCondition(json)
  PROVE  Accepted(SerializeCondition(c)) /\ ParseCondition(SerializeCondition(c)) = c
<1>1. CASE c = ParseSensorAlarm(json)
  <2>1. TypeOfCondition(SerializeCondition(c)) = "sensor_alarm" /\ ParseSensorAlarm(SerializeCondition(c)) = c
    BY <1>1, SensorAlarmSaved
  <2> QED
    BY <2>1 DEF Accepted, ParseCondition
<1>2. CASE c = ParseHardwareFault(json)
  <2>1. TypeOfCondition(SerializeCondition(c)) = "hardware_fault" /\ ParseHardwareFault(SerializeCondition(c)) = c
    BY <1>2, HardwareFaultSaved
  <2> QED
    BY <2>1 DEF Accepted, ParseCondition
<1>3. CASE c = ParseRectification(json)
  <2>1. TypeOfCondition(SerializeCondition(c)) = "rectification" /\ ParseRectification(SerializeCondition(c)) = c
    BY <1>3, RectificationSaved
  <2> QED
    BY <2>1 DEF Accepted, ParseCondition
<1>4. CASE c = ParseSsvcSetting(json) /\ SsvcAccepted(json)
  <2>1. /\ TypeOfCondition(SerializeCondition(c)) = "ssvc_setting" /\ SsvcAccepted(SerializeCondition(c))
        /\ ParseSsvcSetting(SerializeCondition(c)) = c
    BY <1>4, SsvcSettingSaved
  <2> QED
    BY <2>1 DEF Accepted, ParseCondition
<1> QED
  BY <1>1, <1>2, <1>3, <1>4, ConditionKinds

LEMMA RuleSaved ==
  ASSUME NEW json, Accepted(json.condition), NEW r, r = ParseRule(json)
  PROVE  RuleAccepted(SerializeRule(r)) /\ ParseRule(SerializeRule(r)) = r
<1> DEFINE s == SerializeRule(r)
<1>1. /\ "condition" \in DOMAIN s /\ s.condition = SerializeCondition(r.cond)
      /\ Get(s, "enabled", TRUE) = r.enabled /\ Get(s, "targetBit", 2) = r.target
      /\ Get(s, "actionEnergize", TRUE) = r.energize /\ Get(s, "priority", 0) = r.priority
  BY DEF SerializeRule, Get, Has
<1>2. r.cond = ParseCondition(json.condition)
  BY DEF ParseRule
<1> HIDE DEF s
<1>3. Accepted(s.condition) /\ ParseCondition(s.condition) = r.cond
  BY <1>1, <1>2, ConditionSaved
<1>4. r = [enabled |-> r.enabled, target |-> r.target, energize |-> r.energize,
           priority |-> r.priority, cond |-> r.cond]
  BY DEF ParseRule
<1>5. ParseRule(s) = r
  BY <1>1, <1>3, <1>4 DEF ParseRule
<1>6. RuleAccepted(s)
  BY <1>1, <1>3 DEF RuleAccepted, Has
<1> QED
  BY <1>5, <1>6 DEF s

\* Saving the rules that were read from any file, and reading them again, changes nothing.
LEMMA RulesSaved ==
  ASSUME NEW file
  PROVE  ParseRules(SerializeRules(ParseRules(file))) = ParseRules(file)
<1> DEFINE old == ParseRules(file)
           saved == SerializeRules(old)
<1>1. DOMAIN saved = DOMAIN old /\ \A i \in DOMAIN old : saved[i] = SerializeRule(old[i])
  BY DEF SerializeRules
<1>2. \A i \in DOMAIN old : RuleAccepted(SerializeRule(old[i])) /\ ParseRule(SerializeRule(old[i])) = old[i]
  BY KeptRules, RuleSaved
<1>3. old = [i \in DOMAIN old |-> old[i]]
  BY DEF ParseRules
<1> HIDE DEF old, saved
<1>4. {i \in DOMAIN saved : RuleAccepted(saved[i])} = DOMAIN old
  BY <1>1, <1>2
<1>5. ParseRules(saved) = [i \in DOMAIN old |-> ParseRule(saved[i])]
  BY <1>4 DEF ParseRules
<1>6. ParseRules(saved) = old
  BY <1>1, <1>2, <1>3, <1>5
<1> QED
  BY <1>6 DEF old, saved

FromFile == \E file \in RuleFiles : rules = ParseRules(file)

LEMMA InsideRules ==
  ASSUME NEW t \in Tasks, Inside(t)
  PROVE  rules' = rules
<1>1. CASE CheckBegins(t) \/ CheckSensor(t) \/ CheckEnds(t) \/ ResetSubscriber(t) \/ ForgetLevels(t)
  BY <1>1 DEF CheckBegins, CheckSensor, CheckEnds, ResetSubscriber, ForgetLevels, engineVars
<1>2. CASE NotifySubscriber(t) \/ EngineEvent(t) \/ ForceReset(t) \/ EngineUnlock(t)
  BY <1>2 DEF NotifySubscriber, EngineEvent, ForceReset, EngineUnlock, engineVars
<1>3. CASE RecomputeBegins(t) \/ DecideLine(t) \/ SetUserLine(t) \/ RecomputeEnds(t)
  BY <1>3 DEF RecomputeBegins, DecideLine, SetUserLine, RecomputeEnds, engineVars
<1>4. CASE FlushBegins(t) \/ WriteChip(t) \/ ReportChip(t) \/ ReportBus(t) \/ FlushEnds(t) \/ ResetPins(t)
  BY <1>4 DEF FlushBegins, WriteChip, ReportChip, ReportBus, FlushEnds, ResetPins, engineVars
<1> QED
  BY <1>1, <1>2, <1>3, <1>4 DEF Inside

LEMMA NextFromFile == FromFile /\ [Next]_vars => FromFile'
<1> SUFFICES ASSUME FromFile, [Next]_vars
             PROVE  FromFile'
  OBVIOUS
<1>1. rules' = rules => FromFile'
  BY DEF FromFile
<1>2. CASE UNCHANGED vars
  BY <1>1, <1>2 DEF vars, engineVars
<1>3. CASE \E t \in Tasks : Inside(t)
  BY <1>1, <1>3, InsideRules
<1>4. CASE \E w \in Webs : Web(w)
  BY <1>1, <1>4 DEF Web, UpdateThresholds, Override, LoadRules, engineVars, FromFile
<1>5. CASE \E d \in Devices : Device(d)
  BY <1>1, <1>5 DEF Device, DeviceFault, DeviceRecovers, engineVars
<1>6. CASE (\E t \in Tasks : StartCheck(t)) \/ \E s \in Sensors : Sense(s)
  BY <1>1, <1>6 DEF StartCheck, Sense, engineVars
<1>7. CASE ReAlarm \/ RulesTick \/ PlantChanges \/ Subscribe
  BY <1>1, <1>7 DEF ReAlarm, RulesTick, PlantChanges, Subscribe, engineVars
<1> QED
  BY <1>2, <1>3, <1>4, <1>5, <1>6, <1>7 DEF Next

\* onProfileSave() and onProfileApply(): the rules in use are those of an accepted file, and
\* what serializeToJson() writes of them is read back by loadRules() as the same rules, of
\* whatever kind, with and without their optional fields.
THEOREM RulesSurviveSaving == Spec => []SavedRulesSame
<1>1. Init => FromFile
  BY DEF Init, FromFile
<1>2. FromFile => SavedRulesSame
  BY RulesSaved DEF FromFile, SavedRulesSame
<1> QED
  BY <1>1, <1>2, NextFromFile, PTL DEF Spec
=============================================================================
