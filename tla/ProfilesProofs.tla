--------------------------- MODULE ProfilesProofs ---------------------------
(***************************************************************************)
(* Proofs about profiles and the settings of the controller, for any       *)
(* profiles, requests, crashes and failing writes, on any firmware:        *)
(*  - ProfilesTypeCorrect: types, and that whatever a SET holds, and       *)
(*    whatever the controller has, is in the range of its setting          *)
(*    (SettingsTyped, StoreTyped, OpTyped);                                *)
(*  - MirrorSafe: the mirror follows the controller (AnswerSound: an       *)
(*    answer that lies in the mailbox is what the controller has;          *)
(*    MirrorSound: a mirror that nothing under way loads again is right);  *)
(*  - ProfilesListed: no file is forgotten (FilesKnown: every file is on   *)
(*    the list but for the one that is being added);                       *)
(*  - StoreRefined: files and list are the store of ProfileStore.  Each of *)
(*    its actions is a lemma (StoreAdds, ...), and each action of Profiles *)
(*    has one that maps it (AddMaps, ...).                                 *)
(***************************************************************************)
EXTENDS Profiles, FiniteSetTheorems, SequenceTheorems, TLAPS

-----------------------------------------------------------------------------
(* Numbers in ascending order, and picked elements of a sequence.          *)

Rank(S, x) == Cardinality({y \in S : y <= x})

\* A smaller number of a finite set has a smaller rank.
LEMMA RankFacts ==
  ASSUME NEW S \in SUBSET Int, IsFiniteSet(S)
  PROVE  /\ Cardinality(S) \in Nat
         /\ \A x \in S : Rank(S, x) \in 1..Cardinality(S)
         /\ \A x, z \in S : x < z => Rank(S, x) < Rank(S, z)
<1> DEFINE Below(x) == {y \in S : y <= x}
<1>1. Cardinality(S) \in Nat
  BY FS_CardinalityType
<1>2. \A x \in S : /\ IsFiniteSet(Below(x)) /\ Cardinality(Below(x)) \in Nat
                   /\ Cardinality(Below(x)) <= Cardinality(S)
  <2> TAKE x \in S
  <2>1. Below(x) \subseteq S
    OBVIOUS
  <2> QED
    BY <2>1, FS_Subset, FS_CardinalityType
<1>3. \A x \in S : Cardinality(Below(x)) # 0
  <2> TAKE x \in S
  <2>1. x \in Below(x)
    OBVIOUS
  <2> QED
    BY <2>1, <1>2, FS_EmptySet
<1>4. \A x, z \in S : x < z => Cardinality(Below(x)) < Cardinality(Below(z))
  <2> SUFFICES ASSUME NEW x \in S, NEW z \in S, x < z
               PROVE  Cardinality(Below(x)) < Cardinality(Below(z))
    OBVIOUS
  <2>0. x \in Int /\ z \in Int /\ \A y \in S : y \in Int
    OBVIOUS
  <2>5. \A y \in S : y <= x => y <= z
    BY <2>0
  <2>6. ~(z <= x) /\ z <= z
    BY <2>0
  <2>1. Below(x) \subseteq Below(z) /\ z \in Below(z) /\ z \notin Below(x)
    BY <2>5, <2>6, Zenon
  <2>2. /\ Cardinality(Below(x)) <= Cardinality(Below(z))
        /\ Cardinality(Below(x)) = Cardinality(Below(z)) => Below(x) = Below(z)
    <3> HIDE DEF Below
    <3> QED
      BY <2>1, <1>2, FS_Subset
  <2>3. Below(x) # Below(z)
    BY <2>1
  <2>4. Cardinality(Below(x)) \in Nat /\ Cardinality(Below(z)) \in Nat
    BY <1>2
  <2> HIDE DEF Below
  <2> QED
    BY <2>2, <2>3, <2>4
<1> QED
  BY <1>1, <1>2, <1>3, <1>4 DEF Rank

\* Ascending lists every number of a finite set once, in order.
LEMMA AscendingFacts ==
  ASSUME NEW S \in SUBSET Int, IsFiniteSet(S)
  PROVE  /\ Cardinality(S) \in Nat
         /\ Ascending(S) \in [1..Cardinality(S) -> S]
         /\ \A x \in S : \E k \in 1..Cardinality(S) : Ascending(S)[k] = x
         /\ \A i, k \in 1..Cardinality(S) : i < k => Ascending(S)[i] < Ascending(S)[k]
<1> DEFINE n == Cardinality(S)
           f == [x \in S |-> Rank(S, x)]
<1>1. n \in Nat /\ f \in [S -> 1..n]
  BY RankFacts
<1>2. \A x, z \in S : f[x] = f[z] => x = z
  BY RankFacts
<1>3. f \in Injection(S, 1..n)
  <2> HIDE DEF f, n
  <2> QED
    BY <1>1, <1>2 DEF Injection, IsInjective
<1>4. IsFiniteSet(1..n) /\ Cardinality(1..n) = n
  BY <1>1, FS_Interval
<1>5. f \in Surjection(S, 1..n)
  BY <1>3, <1>4, FS_Injection
<1>6. \A k \in 1..n : \E x \in S : Rank(S, x) = k
  BY <1>5 DEF Surjection
<1>7. \A k \in 1..n : Ascending(S)[k] \in S /\ Rank(S, Ascending(S)[k]) = k
  BY <1>6 DEF Ascending, Rank
<1>8. Ascending(S) \in [1..n -> S]
  BY <1>7 DEF Ascending
<1>9. \A x \in S : Ascending(S)[Rank(S, x)] = x
  <2> TAKE x \in S
  <2>1. Rank(S, x) \in 1..n
    BY RankFacts
  <2> DEFINE z == Ascending(S)[Rank(S, x)]
  <2>2. z \in S /\ Rank(S, z) = Rank(S, x)
    BY <1>7, <2>1
  <2>3. f[z] = f[x]
    BY <2>2
  <2> HIDE DEF f, z
  <2> QED
    BY <1>2, <2>2, <2>3 DEF z
<1>10. \A i, k \in 1..n : i < k => Ascending(S)[i] < Ascending(S)[k]
  <2> SUFFICES ASSUME NEW i \in 1..n, NEW k \in 1..n, i < k
               PROVE  Ascending(S)[i] < Ascending(S)[k]
    OBVIOUS
  <2>1. Ascending(S)[i] \in Int /\ Ascending(S)[k] \in Int
    BY <1>7
  <2> DEFINE x == Ascending(S)[i]
             z == Ascending(S)[k]
  <2>3. x \in S /\ z \in S /\ Rank(S, x) = i /\ Rank(S, z) = k
    BY <1>7
  <2>4. z < x => Rank(S, z) < Rank(S, x)
    BY <2>3, RankFacts
  <2>2. ~(z < x) /\ x # z
    BY <2>3, <2>4, <1>1
  <2> QED
    BY <2>1, <2>2
<1> QED
  BY <1>1, <1>8, <1>9, <1>10, RankFacts

\* A function on 1..n is a sequence of length n.
LEMMA Sequenced ==
  ASSUME NEW S, NEW n \in Nat, NEW s, s = [k \in 1..n |-> s[k]], \A k \in 1..n : s[k] \in S
  PROVE  s \in Seq(S) /\ Len(s) = n /\ DOMAIN s = 1..n
<1>1. s \in [1..n -> S] /\ DOMAIN s = 1..n
  OBVIOUS
<1>2. s \in Seq(S)
  BY <1>1, IsASeq
<1>3. Len(s) \in Nat /\ 1..Len(s) = 1..n
  BY <1>1, <1>2, LenProperties
<1>4. Len(s) = n
  <2>1. Len(s) < n => n \in 1..n /\ n \notin 1..Len(s)
    BY <1>3
  <2>2. n < Len(s) => Len(s) \in 1..Len(s) /\ Len(s) \notin 1..n
    BY <1>3
  <2> QED
    BY <1>3, <2>1, <2>2
<1> QED
  BY <1>1, <1>2, <1>4

\* What is picked from a sequence are its elements at the places.
LEMMA PickedFacts ==
  ASSUME NEW T, NEW s \in Seq(T), NEW at \in SUBSET DOMAIN s
  PROVE  /\ Picked(s, at) \in Seq(T)
         /\ Len(Picked(s, at)) = Cardinality(at)
         /\ \A k \in DOMAIN Picked(s, at) : \E n \in at : Picked(s, at)[k] = s[n]
         /\ \A n \in at : \E k \in DOMAIN Picked(s, at) : Picked(s, at)[k] = s[n]
<1>1. at \in SUBSET Int /\ DOMAIN s = 1..Len(s) /\ Len(s) \in Nat
  BY LenProperties
<1>2. IsFiniteSet(at)
  <2>1. IsFiniteSet(1..Len(s))
    BY <1>1, FS_Interval
  <2> QED
    BY <2>1, <1>1, FS_Subset
<1> DEFINE n == Cardinality(at)
<1>3. /\ n \in Nat /\ Ascending(at) \in [1..n -> at]
      /\ \A x \in at : \E k \in 1..n : Ascending(at)[k] = x
  BY <1>1, <1>2, AscendingFacts
<1>4. \A k \in 1..n : Ascending(at)[k] \in at /\ s[Ascending(at)[k]] \in T
  BY <1>1, <1>3, ElementOfSeq
<1>5. Picked(s, at) = [k \in 1..n |-> s[Ascending(at)[k]]]
  BY DEF Picked
<1>6. Picked(s, at) \in Seq(T) /\ Len(Picked(s, at)) = n /\ DOMAIN Picked(s, at) = 1..n
  <2> DEFINE p == Picked(s, at)
  <2>1. p = [k \in 1..n |-> p[k]] /\ \A k \in 1..n : p[k] \in T
    BY <1>4, <1>5
  <2> HIDE DEF p, n
  <2>2. p \in Seq(T) /\ Len(p) = n /\ DOMAIN p = 1..n
    BY <1>3, <2>1, Sequenced
  <2> QED
    BY <2>2 DEF p
<1>7. \A k \in 1..n : Picked(s, at)[k] = s[Ascending(at)[k]]
  BY <1>5
<1>8. \A k \in DOMAIN Picked(s, at) : \E m \in at : Picked(s, at)[k] = s[m]
  BY <1>4, <1>6, <1>7
<1>9. \A m \in at : \E k \in DOMAIN Picked(s, at) : Picked(s, at)[k] = s[m]
  BY <1>3, <1>6, <1>7
<1> QED
  BY <1>6, <1>8, <1>9

-----------------------------------------------------------------------------
(* What the setters let through: every value sent is an allowed one.       *)

Ranged ==
    {"heads", "hearts", "late_heads", "tails", "parallel", "parallel_v1", "hyst", "decrement",
     "tank_mmhg", "heads_timer", "late_heads_timer", "hearts_timer", "start_delay", "tails_temp",
     "hearts_finish_temp", "formula_start_temp", "valve_bw", "release_speed", "release_timer",
     "heads_final"}

Speeds == {"heads", "hearts", "late_heads", "tails", "parallel", "parallel_v1"}

LEMMA RangedFacts ==
  /\ DOMAIN Ranges = Ranged
  /\ DOMAIN Allowed = {"formula", "predec", "extended_heads"}
  /\ \A f \in Speeds : Ranges[f] = Speed
  /\ \A f \in Ranged \ (Speeds \cup {"valve_bw"}) : Ranges[f] = << Ranges[f][1] >>
  /\ Ranges["valve_bw"] = <<UpTo(20000), UpTo(20000), UpTo(20000)>>
  BY DEF Ranges, Ranged, Allowed, Speeds

\* How long the ranges are, and what else a setting with a range may be.
LEMMA RangedLengths ==
  /\ DOMAIN Ranges = Ranged
  /\ \A f \in Speeds : Len(Ranges[f]) = 2
  /\ \A f \in Ranged \ (Speeds \cup {"valve_bw"}) : Len(Ranges[f]) = 1
  BY DEF Ranges, Ranged, Speeds, Speed

LEMMA RangedOnly ==
  ASSUME NEW f \in DOMAIN Ranges
  PROVE  f # "parallel_v3" /\ f \notin DOMAIN Allowed /\ f \notin Flags
  BY RangedFacts DEF Ranged, Flags

\* Every range is within the numbers that its parameter can pass.
LEMMA RangeFacts ==
  ASSUME NEW f \in DOMAIN Ranges
  PROVE  /\ Len(Ranges[f]) \in 1..3 /\ DOMAIN Ranges[f] = 1..Len(Ranges[f])
         /\ \A i \in 1..Len(Ranges[f]) :
              /\ Ranges[f][i][1] \in Nat /\ Ranges[f][i][2] \in Nat
              /\ Ranges[f][i][1] < Ranges[f][i][2] /\ Ranges[f][i][2] < Huge
              /\ f \in Bytes => Ranges[f][i][2] < 256
<1>1. CASE f \in Speeds
  <2>1. Ranges[f] = <<UpTo(999), UpTo(999)>> /\ f \notin Bytes
    BY <1>1, RangedFacts DEF Speed, Bytes, Speeds
  <2>2. Len(Ranges[f]) = 2 /\ DOMAIN Ranges[f] = 1..2
    BY <2>1
  <2>3. \A i \in 1..2 : Ranges[f][i] = <<0, 999>>
    BY <2>1 DEF UpTo
  <2> QED
    BY <2>1, <2>2, <2>3 DEF Huge
<1>2. CASE f = "valve_bw"
  BY <1>2, RangedFacts DEF UpTo, Huge, Bytes
<1>3. CASE f \in Ranged \ (Speeds \cup {"valve_bw"})
  <2>1. /\ Ranges[f][1][1] \in Nat /\ Ranges[f][1][2] \in Nat
        /\ Ranges[f][1][1] < Ranges[f][1][2]
        /\ Ranges[f][1][2] < Huge
        /\ f \in Bytes => Ranges[f][1][2] < 256
    BY <1>3 DEF Ranges, Ranged, Speeds, UpTo, Huge, Bytes
  <2>2. Len(Ranges[f]) = 1 /\ DOMAIN Ranges[f] = 1..1
    BY <1>3, RangedFacts
  <2> QED
    BY <2>1, <2>2
<1> QED
  BY <1>1, <1>2, <1>3, RangedFacts

LEMMA ArityFacts ==
  /\ \A f : Arity(f) \in 1..3
  /\ \A f \in DOMAIN Ranges : Arity(f) = Len(Ranges[f])
  /\ \A f \in Mirrored \ LeftAlone : Arity(f) = 1
<1>1. \A f : Arity(f) \in 1..3
  BY RangeFacts DEF Arity
<1>2. \A f \in DOMAIN Ranges : Arity(f) = Len(Ranges[f])
  BY DEF Arity
<1>3. \A f \in Mirrored \ LeftAlone : Arity(f) = 1
  <2> SUFFICES ASSUME NEW f \in Mirrored \ LeftAlone
               PROVE  Arity(f) = 1
    OBVIOUS
  <2>1. f # "s_speed" /\ f \notin Speeds \cup {"valve_bw"}
    BY RangedFacts DEF Mirrored, LeftAlone, Flags, Speeds, Ranged
  <2>2. f \in DOMAIN Ranges => Len(Ranges[f]) = 1
    BY <2>1, RangedFacts
  <2> QED
    BY <2>1, <2>2 DEF Arity
<1> QED
  BY <1>1, <1>2, <1>3

\* A value of the right shape is a function on the places of its setting.
LEMMA ShapedFacts ==
  ASSUME NEW f, NEW v, Shaped(f, v)
  PROVE  /\ v \in Seq(Int) /\ DOMAIN v = 1..Len(v) /\ Len(v) \in Nat
         /\ \A i \in DOMAIN v : v[i] \in Int
         /\ f # "parallel_v3" => Len(v) = Arity(f) /\ 1 \in DOMAIN v
<1>1. v \in Seq(Int)
  BY DEF Shaped
<1>2. DOMAIN v = 1..Len(v) /\ Len(v) \in Nat /\ \A i \in DOMAIN v : v[i] \in Int
  BY <1>1, LenProperties, ElementOfSeq
<1>3. f # "parallel_v3" => Len(v) = Arity(f) /\ Len(v) >= 1
  BY <1>1, ArityFacts DEF Shaped
<1> QED
  BY <1>1, <1>2, <1>3

\* A function on the places of a value, with integers as values, has its shape.
LEMMA Reshaped ==
  ASSUME NEW f, NEW v, Shaped(f, v), NEW u, u = [i \in DOMAIN v |-> u[i]],
         \A i \in DOMAIN v : u[i] \in Int
  PROVE  Shaped(f, u)
<1>1. /\ v \in Seq(Int) /\ DOMAIN v = 1..Len(v) /\ Len(v) \in Nat
      /\ f # "parallel_v3" => Len(v) = Arity(f)
  BY ShapedFacts
<1>2. u \in Seq(Int) /\ Len(u) = Len(v)
  BY <1>1, IsASeq, LenProperties
<1> QED
  BY <1>1, <1>2 DEF Shaped

LEMMA PassedFacts ==
  ASSUME NEW f, NEW n \in Int
  PROVE  /\ Passed(f, n) \in Int
         /\ n \in Nat /\ (f \in Bytes => n < 256) => Passed(f, n) = n
  BY DEF Passed, Huge, Bytes, Words

LEMMA PressedFacts ==
  ASSUME NEW range, range[1] \in Nat, range[2] \in Nat, range[1] < range[2], NEW n \in Int
  PROVE  Pressed(range, n) \in range[1]..range[2]
  BY DEF Pressed

\* What a setter makes of a value has its shape, and is allowed unless it is the old one.
LEMMA WrittenFacts ==
  ASSUME NEW f \in Mirrored \ Flags, NEW v, NEW old, Shaped(f, v), Shaped(f, old)
  PROVE  /\ Shaped(f, Written(f, v, old))
         /\ Written(f, v, old) # old => InRange(f, Written(f, v, old))
<1>1. CASE f \in DOMAIN Ranges
  <2> DEFINE c == Clamped(f, v)
  <2>1. f # "parallel_v3" /\ f \notin DOMAIN Allowed
    BY <1>1, RangedFacts DEF Ranged
  <2>2. DOMAIN v = 1..Len(Ranges[f]) /\ \A i \in DOMAIN v : v[i] \in Int
    BY <1>1, <2>1, ShapedFacts, ArityFacts
  <2>3. c = [i \in DOMAIN v |-> Pressed(Ranges[f][i], Passed(f, v[i]))]
    BY DEF Clamped
  <2>4. \A i \in DOMAIN v : c[i] \in Ranges[f][i][1]..Ranges[f][i][2]
    <3> TAKE i \in DOMAIN v
    <3>1. Passed(f, v[i]) \in Int
      BY <2>2, PassedFacts
    <3>2. /\ Ranges[f][i][1] \in Nat /\ Ranges[f][i][2] \in Nat
          /\ Ranges[f][i][1] < Ranges[f][i][2]
      BY <1>1, <2>2, RangeFacts
    <3>3. Pressed(Ranges[f][i], Passed(f, v[i])) \in Ranges[f][i][1]..Ranges[f][i][2]
      BY <3>1, <3>2, PressedFacts
    <3> QED
      BY <2>3, <3>3
  <2>5. \A i \in DOMAIN v : c[i] \in Int
    BY <1>1, <2>2, <2>4, RangeFacts
  <2>6. Shaped(f, c) /\ DOMAIN c = DOMAIN v
    <3>1. c = [i \in DOMAIN v |-> c[i]] /\ DOMAIN c = DOMAIN v
      BY <2>3
    <3> HIDE DEF c
    <3> QED
      BY <3>1, <2>5, Reshaped
  <2>7. Written(f, v, old) = c
    BY <1>1 DEF Written
  <2> HIDE DEF c
  <2> QED
    BY <1>1, <2>1, <2>4, <2>6, <2>7 DEF InRange
<1>2. CASE f \in DOMAIN Allowed
  <2>1. f \notin DOMAIN Ranges
    BY <1>2, RangedFacts DEF Ranged
  <2> QED
    BY <1>2, <2>1 DEF Written, InRange
<1>3. CASE f \notin DOMAIN Ranges /\ f \notin DOMAIN Allowed
  BY <1>3 DEF Written, InRange
<1> QED
  BY <1>1, <1>2, <1>3

\* What is read from JSON has the shape of the setting, and an allowed value is read as it is.
LEMMA ReadFacts ==
  ASSUME NEW f \in Mirrored, NEW v, Shaped(f, v)
  PROVE  /\ Shaped(f, Read(f, v))
         /\ InRange(f, v) => Read(f, v) = v
<1>1. /\ v \in Seq(Int) /\ DOMAIN v = 1..Len(v) /\ Len(v) \in Nat
      /\ \A i \in DOMAIN v : v[i] \in Int
      /\ f # "parallel_v3" => Len(v) = Arity(f) /\ 1 \in DOMAIN v
  BY ShapedFacts
<1> DEFINE one(n) == <<n>>
<1>2. ASSUME NEW n \in Int, f # "parallel_v3", Arity(f) = 1
      PROVE  Shaped(f, <<n>>)
  <2>1. <<n>> \in Seq(Int) /\ Len(<<n>>) = 1
    OBVIOUS
  <2> QED
    BY <1>2, <2>1 DEF Shaped
<1>3. CASE f \in Flags
  <2>1. f # "parallel_v3" /\ Arity(f) = 1
    BY <1>3, ArityFacts DEF Flags, Mirrored, LeftAlone
  <2>2. Shaped(f, <<IF v[1] # 0 THEN 1 ELSE 0>>)
    BY <1>2, <2>1
  <2>3. InRange(f, v) => v = <<0>> \/ v = <<1>>
    BY <1>3 DEF InRange
  <2> QED
    BY <1>3, <2>2, <2>3 DEF Read
<1>4. CASE f \notin Flags /\ Read(f, v) = <<0>>
           /\ (\/ f = "late_heads_timer" /\ v[1] < 0
               \/ f \in {"heads_timer", "start_delay"} /\ v[1] = Huge)
  <2>1. f # "parallel_v3" /\ Arity(f) = 1 /\ f \in DOMAIN Ranges
    <3>1. f \in Ranged \ (Speeds \cup {"valve_bw"}) /\ f # "parallel_v3"
      BY <1>4 DEF Ranged, Speeds
    <3>2. f \in DOMAIN Ranges /\ Len(Ranges[f]) = 1
      BY <3>1, RangedLengths
    <3> QED
      BY <3>1, <3>2, ArityFacts
  <2>2. ~InRange(f, v)
    <3>1. 1 \in DOMAIN v /\ v[1] \in Int /\ 1 \in 1..Len(Ranges[f])
      BY <1>1, <2>1, ArityFacts
    <3>3. Ranges[f][1][1] \in Nat /\ Ranges[f][1][2] \in Nat /\ Ranges[f][1][2] < Huge
      BY <2>1, <3>1, RangeFacts
    <3>4. v[1] < 0 \/ v[1] = Huge
      BY <1>4
    <3>2. v[1] \notin Ranges[f][1][1]..Ranges[f][1][2]
      BY <3>1, <3>3, <3>4 DEF Huge
    <3> QED
      BY <2>1, <3>1, <3>2 DEF InRange
  <2> QED
    BY <1>2, <1>4, <2>1, <2>2
<1>5. CASE f \notin Flags /\ Read(f, v) = [i \in DOMAIN v |-> Passed(f, v[i])]
  <2> DEFINE u == [i \in DOMAIN v |-> Passed(f, v[i])]
  <2>1. \A i \in DOMAIN v : u[i] \in Int
    BY <1>1, PassedFacts
  <2>2. Shaped(f, u)
    <3>1. u = [i \in DOMAIN v |-> u[i]]
      OBVIOUS
    <3> HIDE DEF u
    <3> QED
      BY <2>1, <3>1, Reshaped
  <2>3. ASSUME InRange(f, v)
        PROVE  u = v
    <3>1. CASE f \in DOMAIN Ranges
      <4>1. f # "parallel_v3" /\ DOMAIN v = 1..Len(Ranges[f])
        BY <1>1, <3>1, RangedOnly, ArityFacts
      <4>2. \A i \in DOMAIN v : v[i] \in Ranges[f][i][1]..Ranges[f][i][2]
        BY <2>3, <3>1 DEF InRange
      <4>3. \A i \in DOMAIN v : v[i] \in Nat /\ (f \in Bytes => v[i] < 256)
        <5> TAKE i \in DOMAIN v
        <5>1. i \in 1..Len(Ranges[f]) /\ v[i] \in Ranges[f][i][1]..Ranges[f][i][2]
          BY <4>1, <4>2
        <5>2. /\ Ranges[f][i][1] \in Nat /\ Ranges[f][i][2] \in Nat
              /\ f \in Bytes => Ranges[f][i][2] < 256
          BY <3>1, <5>1, RangeFacts
        <5> DEFINE low == Ranges[f][i][1]
                   high == Ranges[f][i][2]
                   value == v[i]
        <5>3. /\ value \in low..high /\ low \in Nat /\ high \in Nat
              /\ f \in Bytes => high < 256
          BY <5>1, <5>2
        <5> HIDE DEF low, high, value
        <5>4. value \in Nat /\ (f \in Bytes => value < 256)
          BY <5>3
        <5> QED
          BY <5>4 DEF value
      <4>4. \A i \in DOMAIN v : Passed(f, v[i]) = v[i]
        BY <1>1, <4>3, PassedFacts
      <4> QED
        BY <1>1, <4>4
    <3>2. CASE f \notin DOMAIN Ranges
      <4>1. f \notin Bytes /\ f \notin Words
        BY <3>2, RangedFacts DEF Bytes, Words, Ranged, Mirrored, Flags
      <4>2. \A i \in DOMAIN v : Passed(f, v[i]) = v[i]
        BY <4>1 DEF Passed
      <4> QED
        BY <1>1, <4>2
    <3> QED
      BY <3>1, <3>2
  <2> QED
    BY <1>5, <2>2, <2>3
<1>6. CASE f \notin Flags
  <2>1. CASE f = "late_heads_timer" /\ v[1] < 0
    <3>1. Read(f, v) = <<0>>
      BY <1>6, <2>1, Zenon DEF Read
    <3> QED
      BY <1>4, <1>6, <2>1, <3>1
  <2>2. CASE f \in {"heads_timer", "start_delay"} /\ v[1] = Huge
    <3>1. Read(f, v) = <<0>>
      BY <1>6, <2>2 DEF Read
    <3> QED
      BY <1>4, <1>6, <2>2, <3>1
  <2>3. CASE ~(f = "late_heads_timer" /\ v[1] < 0) /\ ~(f \in {"heads_timer", "start_delay"} /\ v[1] = Huge)
    <3>1. Read(f, v) = [i \in DOMAIN v |-> Passed(f, v[i])]
      BY <1>6, <2>3 DEF Read
    <3> QED
      BY <1>5, <1>6, <3>1
  <2> QED
    BY <2>1, <2>2, <2>3
<1> QED
  BY <1>3, <1>6

\* The defaults, and what the controller has at the start.
LEMMA DefaultFacts ==
  ASSUME NEW f \in Mirrored
  PROVE  /\ Shaped(f, Default(f)) /\ InRange(f, Factory(f))
         /\ f \notin LeftAlone => Shaped(f, <<0>>)
<1>1. \A n \in Int : f # "parallel_v3" /\ Arity(f) = 1 => Shaped(f, <<n>>)
  <2> SUFFICES ASSUME NEW n \in Int, f # "parallel_v3", Arity(f) = 1
               PROVE  Shaped(f, <<n>>)
    OBVIOUS
  <2>1. <<n>> \in Seq(Int) /\ Len(<<n>>) = 1
    OBVIOUS
  <2> QED
    BY <2>1 DEF Shaped
<1>2. f \notin LeftAlone => Shaped(f, <<0>>)
  BY <1>1, ArityFacts DEF LeftAlone
<1>3. Shaped(f, Default(f))
  <2>1. CASE f \in {"late_heads", "tails"}
    <3>1. Arity(f) = 2
      <4>1. f \in Ranged /\ Len(Ranges[f]) = 2
        BY <2>1, RangedLengths DEF Speeds, Ranged
      <4> QED
        BY <4>1, RangedLengths, ArityFacts
    <3>2. <<-10, -1>> \in Seq(Int) /\ Len(<<-10, -1>>) = 2
      OBVIOUS
    <3> QED
      BY <2>1, <3>1, <3>2 DEF Default, Shaped
  <2>2. CASE f \in {"release_speed", "heads_final", "release_timer"}
    <3>1. Arity(f) = 1
      <4>1. f \in Ranged /\ Len(Ranges[f]) = 1
        BY <2>2, RangedLengths DEF Speeds, Ranged
      <4> QED
        BY <4>1, RangedLengths, ArityFacts
    <3>2. Default(f) = <<-10>> \/ Default(f) = <<-1>>
      BY <2>2 DEF Default
    <3> QED
      BY <1>1, <2>2, <3>1, <3>2
  <2>3. CASE f \in DOMAIN Ranges \ {"late_heads", "tails", "release_speed", "heads_final", "release_timer"}
    <3>1. Default(f) = [i \in DOMAIN Ranges[f] |-> 0]
      BY <2>3 DEF Default
    <3>2. DOMAIN Ranges[f] = 1..Arity(f) /\ Arity(f) \in Nat
      BY <2>3, RangeFacts, ArityFacts
    <3>3. Default(f) \in Seq(Int) /\ Len(Default(f)) = Arity(f)
      BY <3>1, <3>2, IsASeq, LenProperties
    <3> QED
      BY <3>3 DEF Shaped
  <2>4. CASE f = "parallel_v3"
    <3>1. Default(f) = << >>
      BY <2>4, RangedFacts DEF Default, Ranged
    <3>2. << >> \in Seq(Int)
      OBVIOUS
    <3> QED
      BY <2>4, <3>1, <3>2 DEF Shaped
  <2>5. CASE f \notin DOMAIN Ranges /\ f # "parallel_v3"
    <3>1. Default(f) = <<0>> /\ Arity(f) = 1
      BY <2>5, RangedFacts DEF Default, Ranged, Arity, Mirrored, Flags
    <3> QED
      BY <1>1, <2>5, <3>1
  <2> QED
    BY <2>1, <2>2, <2>3, <2>4, <2>5
<1>4. InRange(f, Factory(f))
  <2>1. CASE f \in DOMAIN Ranges
    <3> DEFINE v == [i \in DOMAIN Ranges[f] |-> Ranges[f][i][1] + 1]
    <3>1. Factory(f) = v
      BY <2>1 DEF Factory
    <3>2. DOMAIN Ranges[f] = 1..Arity(f) /\ Arity(f) \in Nat
      BY <2>1, RangeFacts, ArityFacts
    <3>3. \A i \in DOMAIN v : v[i] \in Ranges[f][i][1]..Ranges[f][i][2] /\ v[i] \in Int
      BY <2>1, RangeFacts
    <3>4. v \in Seq(Int) /\ Len(v) = Arity(f)
      BY <3>2, <3>3, IsASeq, LenProperties
    <3>5. f \notin DOMAIN Allowed /\ f \notin Flags
      BY <2>1, RangedFacts DEF Ranged, Flags
    <3> HIDE DEF v
    <3> QED
      BY <3>1, <3>3, <3>4, <3>5 DEF InRange, Shaped
  <2>2. CASE f \notin DOMAIN Ranges
    <3>1. Factory(f) = Default(f)
      BY <2>2 DEF Factory
    <3>2. f # "parallel_v3" => Default(f) = <<0>>
      BY <2>2, RangedFacts DEF Default, Ranged
    <3>3. f = "parallel_v3" => f \notin Flags /\ f \notin DOMAIN Allowed
      BY RangedFacts DEF Flags
    <3>4. f \in DOMAIN Allowed => 0 \in Allowed[f]
      BY DEF Allowed
    <3> QED
      BY <1>3, <2>2, <3>1, <3>2, <3>3, <3>4 DEF InRange
  <2> QED
    BY <2>1, <2>2
<1> QED
  BY <1>2, <1>3, <1>4

\* The settings a profile is compared in.
LEMMA OrderFacts ==
  ASSUME NEW tails \in BOOLEAN
  PROVE  Order(tails) \in Seq(Mirrored \ Flags)
<1> DEFINE T == Mirrored \ Flags
           first == <<"heads", "hearts">>
           some == IF tails THEN <<"tails", "release_speed", "release_timer", "heads_final">>
                   ELSE <<"late_heads">>
           last == <<"heads_timer", "late_heads_timer", "hearts_timer", "start_delay", "valve_bw", "hyst",
             "decrement", "formula", "tank_mmhg", "hearts_finish_temp", "formula_start_temp",
             "parallel", "parallel_v1", "predec", "extended_heads", "parallel_v3">>
<1>1. Ranged \cup {"formula", "predec", "extended_heads", "parallel_v3"} \subseteq T
  BY RangedFacts, RangedOnly DEF Mirrored, Flags
<1> HIDE DEF T
<1>2. first \in Seq(T) /\ some \in Seq(T)
  BY <1>1 DEF Ranged
<1>3. last \in Seq(T)
  <2>1. last = [k \in 1..16 |-> last[k]] /\ Len(last) = 16
    OBVIOUS
  <2>2. \A k \in 1..16 : last[k] \in T
    BY <1>1 DEF Ranged
  <2> HIDE DEF last
  <2> QED
    BY <2>1, <2>2, IsASeq
<1>4. Order(tails) = first \o some \o last
  BY DEF Order
<1> HIDE DEF first, some, last
<1> QED
  BY <1>2, <1>3, <1>4, ConcatProperties DEF T

\* What a handler lets through has the shape of its setting.
LEMMA HandledFacts ==
  ASSUME NEW f \in Settable, NEW v \in Seq(Int), Handles(f, v)
  PROVE  /\ f \in Steps => InRange(f, Said(f, v))
         /\ f \notin Steps => Shaped(f, v) /\ f \in Mirrored \ Flags
<1>1. CASE f \in Steps
  <2>1. f # "parallel_v3" /\ f \notin DOMAIN Ranges /\ f \notin DOMAIN Allowed /\ f \notin Flags
    BY <1>1, RangedFacts DEF Steps, Ranged, Flags
  <2>2. Shaped(f, v)
    BY <2>1 DEF Handles, Shaped
  <2>3. DOMAIN v = 1..Len(v) /\ Len(v) = Arity(f) /\ 1 \in DOMAIN v /\ \A i \in DOMAIN v : v[i] \in Int
    BY <2>1, <2>2, ShapedFacts
  <2>4. CASE f = "tank_mmhg_act"
    <3>1. Arity(f) = 1
      BY <2>1, <2>4 DEF Arity
    <3> DEFINE u == [i \in {1} |-> Pressed(UpTo(500), v[1])]
    <3>2. DOMAIN v = {1}
      BY <2>3, <3>1
    <3>3. Pressed(UpTo(500), v[1]) \in Int
      BY <2>3 DEF Pressed, UpTo
    <3>4. u = [i \in DOMAIN v |-> u[i]] /\ \A i \in DOMAIN v : u[i] \in Int
      BY <3>2, <3>3
    <3>5. Shaped(f, u)
      <4> HIDE DEF u
      <4> QED
        BY <2>2, <3>4, Reshaped
    <3>6. Said(f, v) = u
      BY <2>4 DEF Said
    <3> HIDE DEF u
    <3> QED
      BY <1>1, <2>1, <3>5, <3>6 DEF InRange
  <2>5. CASE f # "tank_mmhg_act"
    <3> DEFINE u == [i \in DOMAIN v |-> Passed(f, v[i])]
    <3>1. \A i \in DOMAIN v : u[i] \in Int
      BY <2>3, PassedFacts
    <3>2. u = [i \in DOMAIN v |-> u[i]]
      OBVIOUS
    <3>3. Said(f, v) = u
      BY <2>5 DEF Said
    <3> HIDE DEF u
    <3>4. Shaped(f, u)
      BY <2>2, <3>1, <3>2, Reshaped
    <3> QED
      BY <1>1, <2>1, <3>3, <3>4 DEF InRange
  <2> QED
    BY <2>4, <2>5
<1>2. CASE f \notin Steps
  <2>1. f \in Mirrored \ Flags
    BY <1>2, RangedFacts DEF Settable, Mirrored, Ranged, Flags
  <2>2. Shaped(f, v)
    BY DEF Handles, Shaped
  <2> QED
    BY <1>2, <2>1, <2>2
<1> QED
  BY <1>1, <1>2

-----------------------------------------------------------------------------
(* The settings and the command queue.                                     *)

\* The commands of the queue: what a SET or an answer holds is allowed.
ValueSets == UNION {[D -> Seq(Int)] : D \in SUBSET (Fields \cup Steps)}
Values == {v \in ValueSets : \A f \in DOMAIN v : InRange(f, v[f])}
Commands == [kind: {"get", "version", "set"}, values: Values]

\* A profile, or another object, whose values have the shapes of their settings.
Json(json) == \A f \in Mirrored : f \in DOMAIN json => Shaped(f, json[f])

\* The queue r goes on from q.
Extends(q, r) == Len(q) <= Len(r) /\ \A i \in 1..Len(q) : r[i] = q[i]

MirrorTyped == mirror \in [Fields -> Seq(Int)] /\ \A f \in Fields : Shaped(f, mirror[f])
QueueTyped == queue \in Seq(Commands) /\ Len(queue) <= QueueLimit

SettingsTyped ==
    /\ firmware \in [tails: BOOLEAN, version: Seq(Nat)]
    /\ ctrl \in [Fields -> Seq(Int)] /\ \A f \in Fields : InRange(f, ctrl[f])
    /\ MirrorTyped /\ QueueTyped
    /\ caps \in [tails: BOOLEAN, api: Nat]
    /\ answer \in Values
    /\ timer \in {"none", "armed", "fired"} /\ unsure \in BOOLEAN
    /\ left \in Bounds

\* The answer is what the controller has, for the command at the head of the queue; without
\* one the mirror is right, unless something under way loads it again.
AnswerSound ==
    answer # Nothing =>
        /\ queue # << >> /\ queue[1].kind = "get"
        /\ ~unsure => answer = Report

MirrorSound ==
    answer = Nothing /\ ~unsure /\ ~ReadBack => \A f \in Reported : mirror[f] = ctrl[f]

SettingsInv == SettingsTyped /\ AnswerSound /\ MirrorSound

LEMMA MirroredFields == \A f \in Fields : f \in Mirrored
  BY SettingsAssumption

LEMMA ValuesFacts ==
  ASSUME NEW D \in SUBSET (Fields \cup Steps), NEW v, v = [f \in D |-> v[f]],
         \A f \in D : InRange(f, v[f])
  PROVE  v \in Values
<1>1. \A f \in D : v[f] \in Seq(Int)
  BY DEF InRange, Shaped
<1>2. v \in [D -> Seq(Int)]
  BY <1>1
<1> QED
  BY <1>2 DEF Values, ValueSets

LEMMA ValuesAre ==
  ASSUME NEW v \in Values
  PROVE  /\ DOMAIN v \in SUBSET (Fields \cup Steps) /\ v = [f \in DOMAIN v |-> v[f]]
         /\ \A f \in DOMAIN v : InRange(f, v[f]) /\ v[f] \in Seq(Int)
  BY DEF Values, ValueSets

LEMMA FilteredFacts ==
  ASSUME NEW v \in Values
  PROVE  Filtered(v) \in Values
<1> DEFINE D == {g \in DOMAIN v : Available(g, v[g], caps.api)}
           u == [f \in D |-> v[f]]
<1>1. D \in SUBSET (Fields \cup Steps) /\ \A f \in D : InRange(f, u[f])
  BY ValuesAre
<1>2. u = [f \in D |-> u[f]]
  OBVIOUS
<1>3. Filtered(v) = u
  BY DEF Filtered
<1> HIDE DEF D, u
<1> QED
  BY <1>1, <1>2, <1>3, ValuesFacts

LEMMA CommandFacts ==
  /\ Nothing \in Values /\ Get \in Commands /\ Version \in Commands
  /\ \A v \in Values : Set(v) \in Commands /\ Set(v).kind = "set"
  /\ Get.kind = "get"
<1>1. DOMAIN Nothing = {} /\ Nothing = [f \in {} |-> Nothing[f]]
  BY DEF Nothing
<1>2. Nothing \in Values
  BY <1>1, ValuesFacts
<1> QED
  BY <1>2 DEF Get, Version, Set, Commands

LEMMA PushedFacts ==
  ASSUME NEW q \in Seq(Commands), Len(q) <= QueueLimit, NEW c \in Commands
  PROVE  /\ Pushed(q, c) \in Seq(Commands) /\ Len(Pushed(q, c)) <= QueueLimit
         /\ Extends(q, Pushed(q, c))
         /\ Len(q) < QueueLimit => Pushed(q, c)[Len(Pushed(q, c))] = c
  BY SettingsAssumption DEF Pushed, Extends

LEMMA PushedSetFacts ==
  ASSUME NEW q \in Seq(Commands), Len(q) <= QueueLimit, NEW v \in Values
  PROVE  /\ PushedSet(q, v) \in Seq(Commands) /\ Len(PushedSet(q, v)) <= QueueLimit
         /\ Extends(q, PushedSet(q, v))
<1>1. CASE DOMAIN Filtered(v) = {}
  BY <1>1 DEF PushedSet, Extends
<1>2. CASE DOMAIN Filtered(v) # {}
  <2>1. Set(Filtered(v)) \in Commands
    BY FilteredFacts, CommandFacts
  <2>2. PushedSet(q, v) = Pushed(q, Set(Filtered(v)))
    BY <1>2 DEF PushedSet
  <2> QED
    BY <2>1, <2>2, PushedFacts
<1> QED
  BY <1>1, <1>2

LEMMA QueuedFacts ==
  ASSUME QueueTyped, NEW sets \in Seq(Values)
  PROVE  /\ Queued(sets) \in Seq(Commands) /\ Len(Queued(sets)) <= QueueLimit
         /\ Extends(queue, Queued(sets))
<1> DEFINE said == Picked(sets, {k \in DOMAIN sets : DOMAIN Filtered(sets[k]) # {}})
           room == QueueLimit - Len(queue)
           n == IF Len(said) < room THEN Len(said) ELSE room
           more == [k \in 1..n |-> Set(Filtered(said[k]))]
<1>1. said \in Seq(Values)
  BY PickedFacts
<1>2. room \in Nat /\ Len(queue) \in Nat /\ QueueLimit \in Nat
  BY SettingsAssumption DEF QueueTyped
<1>3. n \in Nat /\ n <= Len(said) /\ n <= room
  BY <1>1, <1>2
<1>4. \A k \in 1..n : said[k] \in Values
  BY <1>1, <1>3, ElementOfSeq
<1>5. \A k \in 1..n : Set(Filtered(said[k])) \in Commands
  BY <1>4, FilteredFacts, CommandFacts
<1>11. \A k \in 1..n : more[k] \in Commands
  BY <1>5
<1>12. more = [k \in 1..n |-> more[k]] /\ DOMAIN more = 1..n
  OBVIOUS
<1>7. Queued(sets) = queue \o more
  BY DEF Queued
<1> HIDE DEF said, room, n, more
<1>6. more \in Seq(Commands) /\ Len(more) = n
  BY <1>3, <1>11, <1>12, IsASeq, LenProperties
<1>8. queue \in Seq(Commands)
  BY DEF QueueTyped
<1>9. /\ queue \o more \in Seq(Commands) /\ Len(queue \o more) = Len(queue) + n
      /\ \A i \in 1..Len(queue) : (queue \o more)[i] = queue[i]
  <2>1. Len(queue \o more) = Len(queue) + Len(more)
    BY <1>6, <1>8, ConcatProperties
  <2>2. \A i \in 1..(Len(queue) + Len(more)) :
            (queue \o more)[i] = IF i <= Len(queue) THEN queue[i] ELSE more[i - Len(queue)]
    BY <1>6, <1>8, ConcatProperties
  <2>3. queue \o more \in Seq(Commands)
    BY <1>6, <1>8, ConcatProperties
  <2>4. \A i \in 1..Len(queue) : i \in 1..(Len(queue) + Len(more)) /\ i <= Len(queue)
    BY <1>2, <1>3, <1>6
  <2> QED
    BY <1>6, <2>1, <2>2, <2>3, <2>4
<1>10. Len(queue) + n <= QueueLimit
  BY <1>2, <1>3 DEF room
<1> QED
  BY <1>2, <1>3, <1>7, <1>9, <1>10 DEF Extends

\* What a profile changes: settings of the profile, each to an allowed value.
LEMMA ChangedFacts ==
  ASSUME MirrorTyped, caps.tails \in BOOLEAN, NEW json, Json(json)
  PROVE  /\ Changed(json) \in Seq(Fields)
         /\ \A n \in DOMAIN Changed(json) :
              LET f == Changed(json)[n]
              IN f \in Fields /\ InRange(f, New(json, f))
<1> DEFINE all == Order(caps.tails)
           places == {k \in DOMAIN all : /\ all[k] \in DOMAIN json \cap Fields
                                         /\ Applies(all[k], json[all[k]])
                                         /\ json[all[k]] # mirror[all[k]]}
           some == Compared(json)
           chosen == {k \in DOMAIN some : New(json, some[k]) # mirror[some[k]]}
           T == Mirrored \ Flags
<1>1. all \in Seq(T)
  BY OrderFacts
<1>2. some = Picked(all, places)
  BY DEF Compared
<1>3. some \in Seq(T) /\ \A k \in DOMAIN some : \E n \in places : some[k] = all[n]
  <2>1. places \in SUBSET DOMAIN all
    OBVIOUS
  <2> HIDE DEF all, some, T, places
  <2> QED
    BY <1>1, <1>2, <2>1, PickedFacts
<1>4. \A k \in DOMAIN some : some[k] \in T /\ some[k] \in DOMAIN json \cap Fields
  <2>1. \A k \in DOMAIN some : some[k] \in DOMAIN json \cap Fields
    BY <1>3
  <2> HIDE DEF all, some, T, places
  <2> QED
    BY <1>3, <2>1, ElementOfSeq, LenProperties
<1>5. Changed(json) = Picked(some, chosen)
  BY DEF Changed
<1>6. /\ Changed(json) \in Seq(T)
      /\ \A n \in DOMAIN Changed(json) : \E k \in chosen : Changed(json)[n] = some[k]
  <2>1. chosen \in SUBSET DOMAIN some
    OBVIOUS
  <2> HIDE DEF all, some, T, places, chosen
  <2> QED
    BY <1>3, <1>5, <2>1, PickedFacts
<1>7. ASSUME NEW n \in DOMAIN Changed(json)
      PROVE  Changed(json)[n] \in Fields /\ InRange(Changed(json)[n], New(json, Changed(json)[n]))
  <2>1. PICK k \in chosen : Changed(json)[n] = some[k]
    BY <1>6
  <2> DEFINE f == some[k]
  <2>2. f \in T /\ f \in DOMAIN json /\ f \in Fields /\ New(json, f) # mirror[f]
    BY <1>4
  <2> HIDE DEF f, some, all, places
  <2>3. Shaped(f, json[f]) /\ Shaped(f, mirror[f])
    BY <2>2 DEF Json, MirrorTyped
  <2>4. InRange(f, New(json, f))
    BY <2>2, <2>3, WrittenFacts DEF New
  <2> QED
    BY <2>1, <2>2, <2>4 DEF f
<1>8. Changed(json) \in Seq(Fields)
  <2>1. DOMAIN Changed(json) = 1..Len(Changed(json)) /\ Len(Changed(json)) \in Nat
    BY <1>6, LenProperties
  <2>2. Changed(json) = [n \in 1..Len(Changed(json)) |-> Changed(json)[n]]
    BY <1>6, <2>1
  <2> QED
    BY <1>7, <2>1, <2>2, IsASeq
<1> QED
  BY <1>7, <1>8

LEMMA ApplyFacts ==
  ASSUME MirrorTyped, QueueTyped, caps.tails \in BOOLEAN, NEW json, Json(json),
         ApplySettingsToController(json)
  PROVE  MirrorTyped' /\ QueueTyped' /\ Extends(queue, queue')
<1> DEFINE changed == Changed(json)
           batches == Batches(changed)
           sets == [k \in DOMAIN batches |-> [f \in batches[k] |-> New(json, f)]]
<1>1. /\ changed \in Seq(Fields)
      /\ \A n \in DOMAIN changed : changed[n] \in Fields /\ InRange(changed[n], New(json, changed[n]))
  BY ChangedFacts
<1>2. /\ mirror' = [f \in Fields |-> IF f \in ToSet(changed) THEN New(json, f) ELSE mirror[f]]
      /\ queue' = Queued(sets)
  BY DEF ApplySettingsToController
<1> HIDE DEF changed
<1>3. MirrorTyped'
  <2>1. \A f \in Fields : mirror'[f] \in Seq(Int) /\ Shaped(f, mirror'[f])
    <3> TAKE f \in Fields
    <3>1. CASE f \in ToSet(changed)
      <4>1. InRange(f, New(json, f))
        BY <1>1, <3>1 DEF ToSet
      <4> QED
        BY <1>2, <3>1, <4>1 DEF InRange, Shaped
    <3>2. CASE f \notin ToSet(changed)
      BY <1>2, <3>2 DEF MirrorTyped
    <3> QED
      BY <3>1, <3>2
  <2> QED
    BY <1>2, <2>1 DEF MirrorTyped
<1>4. sets \in Seq(Values)
  <2> DEFINE n == (Len(changed) + PerSet - 1) \div PerSet
  <2>1. batches = [k \in 1..n |-> {changed[m] : m \in {m \in DOMAIN changed : (m - 1) \div PerSet = k - 1}}]
    BY DEF Batches
  <2>2. n \in Nat
    <3>1. Len(changed) \in Nat /\ PerSet \in Nat \ {0}
      BY <1>1, SettingsAssumption
    <3> QED
      BY <3>1
  <2>3. \A k \in 1..n : sets[k] \in Values
    <3> TAKE k \in 1..n
    <3>1. \A f \in batches[k] : f \in Fields /\ InRange(f, New(json, f))
      BY <1>1, <2>1
    <3>2. sets[k] = [f \in batches[k] |-> New(json, f)]
      BY <2>1
    <3> HIDE DEF batches, sets
    <3>3. \A f \in batches[k] : InRange(f, sets[k][f])
      BY <3>1, <3>2
    <3>4. batches[k] \in SUBSET (Fields \cup Steps)
      BY <3>1
    <3>5. sets[k] = [f \in batches[k] |-> sets[k][f]]
      BY <3>2
    <3> QED
      BY <3>3, <3>4, <3>5, ValuesFacts
  <2>4. sets = [k \in 1..n |-> sets[k]]
    BY <2>1
  <2> HIDE DEF sets, n
  <2> QED
    BY <2>2, <2>3, <2>4, IsASeq
<1>5. QueueTyped' /\ Extends(queue, queue')
  <2> HIDE DEF sets
  <2> QED
    BY <1>2, <1>4, QueuedFacts DEF QueueTyped
<1> QED
  BY <1>3, <1>5

LEMMA UpdatedFacts ==
  ASSUME MirrorTyped, NEW json, Json(json)
  PROVE  /\ Updated(json) \in [Fields -> Seq(Int)]
         /\ \A f \in Fields : Shaped(f, Updated(json)[f])
<1>1. ASSUME NEW f \in Fields
      PROVE  Shaped(f, Updated(json)[f])
  <2>1. CASE f \in DOMAIN json
    BY <2>1, MirroredFields, ReadFacts DEF Updated, Json
  <2>2. CASE f \notin DOMAIN json /\ f \in LeftAlone
    BY <2>2 DEF Updated, MirrorTyped
  <2>3. CASE f \notin DOMAIN json /\ f \notin LeftAlone
    BY <2>3, MirroredFields, DefaultFacts DEF Updated
  <2> QED
    BY <2>1, <2>2, <2>3
<1>2. \A f \in Fields : Updated(json)[f] \in Seq(Int)
  BY <1>1 DEF Shaped
<1>3. Updated(json) = [f \in Fields |-> Updated(json)[f]]
  BY DEF Updated
<1> QED
  BY <1>1, <1>2, <1>3

LEMMA ValuesAreJson ==
  ASSUME NEW v \in Values
  PROVE  Json(v)
  BY ValuesAre DEF Json, InRange

LEMMA ReportFacts ==
  ASSUME SettingsTyped
  PROVE  /\ Report \in Values
         /\ \A f \in Reported : Updated(Report)[f] = ctrl[f]
<1>1. Reported \in SUBSET (Fields \cup Steps) /\ Reported \subseteq Fields
  BY DEF Reported
<1>2. /\ Report = [f \in Reported |-> Report[f]] /\ DOMAIN Report = Reported
      /\ \A f \in Reported : Report[f] = ctrl[f] /\ InRange(f, Report[f])
  BY <1>1 DEF Report, SettingsTyped
<1>3. Report \in Values
  BY <1>1, <1>2, ValuesFacts
<1>4. \A f \in Reported : Updated(Report)[f] = ctrl[f]
  <2> TAKE f \in Reported
  <2>1. f \in Fields /\ f \in DOMAIN Report /\ Report[f] = ctrl[f] /\ InRange(f, ctrl[f])
    BY <1>1, <1>2
  <2>2. Updated(Report)[f] = Read(f, ctrl[f])
    BY <2>1 DEF Updated
  <2>3. Read(f, ctrl[f]) = ctrl[f]
    BY <2>1, MirroredFields, ReadFacts DEF InRange
  <2> QED
    BY <2>2, <2>3
<1> QED
  BY <1>3, <1>4

-----------------------------------------------------------------------------
(* The worker, the timer, the users and the panel keep what is known of the settings. *)

BoundNames == {"requests", "puts", "panel", "misses", "crashes", "faults"}

LEMMA SpendFacts ==
  ASSUME left \in Bounds, NEW what \in BoundNames, Spend(what)
  PROVE  left' \in Bounds
<1>1. left[what] \in Nat /\ left[what] - 1 \in Nat
  BY DEF Bounds, BoundNames, Spend
<1> QED
  BY <1>1 DEF Bounds, BoundNames, Spend

LEMMA HeadAndTail ==
  ASSUME QueueTyped, queue # << >>
  PROVE  /\ Head(queue) = queue[1] /\ queue[1] \in Commands
         /\ Tail(queue) \in Seq(Commands) /\ Len(Tail(queue)) = Len(queue) - 1
         /\ \A i \in 1..Len(Tail(queue)) : Tail(queue)[i] = queue[i + 1]
<1>1. queue \in Seq(Commands)
  BY DEF QueueTyped
<1>2. /\ Tail(queue) \in Seq(Commands) /\ Len(Tail(queue)) = Len(queue) - 1
      /\ \A i \in 1..Len(Tail(queue)) : Tail(queue)[i] = queue[i + 1]
  BY <1>1, HeadTailProperties
<1>3. Head(queue) = queue[1] /\ 1 \in 1..Len(queue)
  BY <1>1, EmptySeq
<1> QED
  BY <1>1, <1>2, <1>3, ElementOfSeq

\* A queue without the command at its head is read back when the rest of it was.
LEMMA ServedFacts ==
  ASSUME QueueTyped, queue # << >>, queue' = Tail(queue)
  PROVE  /\ QueueTyped'
         /\ ReadBack /\ timer' = timer /\ queue[1].kind = "version" => ReadBack'
<1>1. /\ queue[1] \in Commands
      /\ queue' \in Seq(Commands) /\ Len(queue') = Len(queue) - 1
      /\ \A i \in 1..Len(queue') : queue'[i] = queue[i + 1]
      /\ Len(queue) \in Nat /\ Len(queue) <= QueueLimit
  BY HeadAndTail DEF QueueTyped
<1>2. QueueTyped'
  BY <1>1, SettingsAssumption DEF QueueTyped
<1>3. ASSUME ReadBack, timer' = timer, queue[1].kind = "version"
      PROVE  ReadBack'
  <2>1. CASE timer = "armed"
    BY <1>3, <2>1 DEF ReadBack
  <2>2. CASE timer # "armed"
    <3>1. PICK i \in 1..Len(queue) : queue[i].kind \in {"set", "get"}
      BY <1>3, <2>2 DEF ReadBack, QueueReads
    <3>2. i # 1 /\ i - 1 \in 1..Len(queue') /\ (i - 1) + 1 = i
      BY <1>1, <1>3, <3>1
    <3>3. queue'[i - 1] = queue[i]
      BY <1>1, <3>2
    <3> QED
      BY <3>1, <3>2, <3>3 DEF ReadBack, QueueReads
  <2> QED
    BY <2>1, <2>2
<1> QED
  BY <1>2, <1>3

LEMMA ExtendsFacts ==
  ASSUME QueueTyped, QueueTyped', Extends(queue, queue')
  PROVE  /\ timer' = timer /\ ReadBack => ReadBack'
         /\ queue # << >> => queue' # << >> /\ queue'[1] = queue[1]
<1>1. Len(queue) \in Nat /\ Len(queue') \in Nat /\ queue \in Seq(Commands) /\ queue' \in Seq(Commands)
  BY DEF QueueTyped
<1>2. timer' = timer /\ ReadBack => ReadBack'
  BY <1>1 DEF ReadBack, QueueReads, Extends
<1>3. queue # << >> => queue' # << >> /\ queue'[1] = queue[1]
  <2> HAVE queue # << >>
  <2>1. Len(queue) # 0
    BY <1>1, EmptySeq
  <2>2. 1 \in 1..Len(queue) /\ Len(queue') # 0
    BY <1>1, <2>1 DEF Extends
  <2> QED
    BY <1>1, <2>2, EmptySeq DEF Extends
<1> QED
  BY <1>2, <1>3

\* Writing the mirror and adding commands keeps the invariant: a mirror that was changed
\* without anything to load it again is unsure.
LEMMA WritesKeep ==
  ASSUME SettingsInv, MirrorTyped', QueueTyped', Extends(queue, queue'), MirrorWritten,
         UNCHANGED <<firmware, ctrl, caps, answer, timer>>, left' \in Bounds
  PROVE  SettingsInv'
<1>1. SettingsTyped'
  BY DEF SettingsInv, SettingsTyped, MirrorWritten
<1>2. Report' = Report /\ Reported' = Reported
  BY DEF Report, Reported
<1>3. AnswerSound'
  BY <1>2, ExtendsFacts DEF SettingsInv, SettingsTyped, AnswerSound, MirrorWritten
<1>4. MirrorSound'
  <2> SUFFICES ASSUME answer = Nothing, ~unsure', ~ReadBack'
               PROVE  \A f \in Reported : mirror'[f] = ctrl[f]
    BY <1>2 DEF MirrorSound
  <2>1. ~unsure /\ mirror' = mirror
    BY DEF MirrorWritten
  <2>2. ~ReadBack
    BY ExtendsFacts DEF SettingsInv, SettingsTyped
  <2> QED
    BY <2>1, <2>2 DEF SettingsInv, MirrorSound
<1> QED
  BY <1>1, <1>3, <1>4 DEF SettingsInv

LEMMA PutKeeps ==
  ASSUME SettingsInv, NEW f \in DOMAIN Inputs, NEW v \in Inputs[f], f \in Settable,
         NEW refused \in BOOLEAN, Put(f, v, refused)
  PROVE  SettingsInv'
<1> DEFINE new == IF f \in Steps THEN Said(f, v) ELSE Written(f, v, mirror[f])
           sends == Handles(f, v) /\ (f \in Steps \/ new # mirror[f])
           one == [g \in {f} |-> new]
           sets == IF sends THEN PushedSet(queue, one) ELSE queue
<1>1. /\ mirror' = IF sends /\ f \in Fields THEN [mirror EXCEPT ![f] = new] ELSE mirror
      /\ queue' = IF refused \/ ~Handles(f, v) THEN sets ELSE Pushed(sets, Get)
      /\ Spend("puts") /\ MirrorWritten
      /\ UNCHANGED <<firmware, ctrl, caps, answer, timer>>
  BY Zenon DEF Put
<1>2. f \in Fields \cup Steps /\ v \in Seq(Int)
  BY SettingsAssumption
<1>3. sends => InRange(f, new)
  <2>1. ASSUME Handles(f, v), f \in Steps
        PROVE  InRange(f, Said(f, v))
    BY <1>2, <2>1, HandledFacts
  <2>2. ASSUME Handles(f, v), f \notin Steps, Written(f, v, mirror[f]) # mirror[f]
        PROVE  InRange(f, Written(f, v, mirror[f]))
    <3>1. Shaped(f, v) /\ f \in Mirrored \ Flags /\ f \in Fields
      BY <1>2, <2>2, HandledFacts
    <3>2. Shaped(f, mirror[f])
      BY <3>1 DEF SettingsInv, SettingsTyped, MirrorTyped
    <3> QED
      BY <2>2, <3>1, <3>2, WrittenFacts
  <2> QED
    BY <2>1, <2>2, Zenon
<1> HIDE DEF new
<1>4. MirrorTyped'
  <2>1. MirrorTyped
    BY DEF SettingsInv, SettingsTyped
  <2>2. sends => new \in Seq(Int) /\ Shaped(f, new)
    BY <1>3 DEF InRange, Shaped
  <2> HIDE DEF sends
  <2> QED
    BY <1>1, <2>1, <2>2 DEF MirrorTyped
<1>5. sends => one \in Values
  <2> HAVE sends
  <2>1. InRange(f, one[f]) /\ one = [g \in {f} |-> one[g]] /\ {f} \in SUBSET (Fields \cup Steps)
    BY <1>2, <1>3
  <2>2. \A g \in {f} : InRange(g, one[g])
    BY <2>1
  <2> HIDE DEF one
  <2> QED
    BY <2>1, <2>2, ValuesFacts
<1>6. queue \in Seq(Commands) /\ Len(queue) <= QueueLimit /\ QueueLimit \in Nat
  BY SettingsAssumption DEF SettingsInv, SettingsTyped, QueueTyped
<1>7. sets \in Seq(Commands) /\ Len(sets) <= QueueLimit /\ Extends(queue, sets)
  <2> HIDE DEF one, sends
  <2>1. CASE sends
    BY <1>5, <1>6, <2>1, PushedSetFacts
  <2>2. CASE ~sends
    BY <1>6, <2>2 DEF Extends
  <2> QED
    BY <2>1, <2>2
<1> HIDE DEF sets
<1>8. QueueTyped' /\ Extends(queue, queue')
  <2>1. Get \in Commands
    BY CommandFacts
  <2>2. Pushed(sets, Get) \in Seq(Commands) /\ Len(Pushed(sets, Get)) <= QueueLimit
        /\ Extends(sets, Pushed(sets, Get))
    BY <1>7, <2>1, PushedFacts
  <2>3. Extends(queue, Pushed(sets, Get))
    BY <1>6, <1>7, <2>2 DEF Extends
  <2> QED
    BY <1>1, <1>7, <2>2, <2>3 DEF QueueTyped
<1>9. left' \in Bounds
  BY <1>1, SpendFacts DEF BoundNames, SettingsInv, SettingsTyped
<1> QED
  BY <1>1, <1>4, <1>8, <1>9, WritesKeep

LEMMA TakenFacts ==
  ASSUME SettingsTyped, NEW v \in Values
  PROVE  Taken(v) \in [Fields -> Seq(Int)] /\ \A f \in Fields : InRange(f, Taken(v)[f])
<1>1. \A f \in Fields : Taken(v)[f] \in Seq(Int) /\ InRange(f, Taken(v)[f])
  BY ValuesAre DEF Taken, SettingsTyped
<1>2. Taken(v) = [f \in Fields |-> Taken(v)[f]]
  BY DEF Taken
<1> QED
  BY <1>1, <1>2

LEMMA ServeSetKeeps ==
  ASSUME SettingsInv, ServeSet
  PROVE  SettingsInv'
<1>1. /\ SettingsTyped /\ QueueTyped /\ queue # << >> /\ queue[1].kind = "set"
      /\ queue' = Tail(queue) /\ queue[1] \in Commands /\ Head(queue) = queue[1]
  BY HeadAndTail DEF SettingsInv, SettingsTyped, ServeSet
<1>2. answer = Nothing /\ answer' = answer
  BY <1>1 DEF SettingsInv, AnswerSound, ServeSet
<1>3. queue[1].values \in Values
  BY <1>1 DEF Commands
<1>4. ctrl' = ctrl \/ ctrl' = Taken(queue[1].values)
  BY <1>1 DEF ServeSet
<1>5. ctrl' \in [Fields -> Seq(Int)] /\ \A f \in Fields : InRange(f, ctrl'[f])
  BY <1>1, <1>3, <1>4, TakenFacts DEF SettingsTyped
<1>6. /\ left' \in Bounds /\ timer' \in {"none", "armed", "fired"} /\ unsure' \in BOOLEAN
      /\ unsure' = FALSE => ReadBack'
  <2>1. \/ /\ timer' = IF timer = "fired" THEN "fired" ELSE "armed"
           /\ unsure' = (unsure \/ (timer = "fired" /\ ~QueueReads')) /\ UNCHANGED left
        \/ Spend("misses") /\ unsure' = TRUE /\ UNCHANGED timer
    BY DEF ServeSet, TimerAfterSet
  <2>2. unsure' \in BOOLEAN
    BY <1>1, <2>1, Zenon DEF SettingsTyped
  <2>3. unsure' = FALSE => ReadBack'
    BY <2>1, Zenon DEF ReadBack
  <2> QED
    BY <1>1, <2>1, <2>2, <2>3, SpendFacts DEF BoundNames, SettingsTyped
<1>7. SettingsTyped'
  BY <1>1, <1>5, <1>6, ServedFacts DEF SettingsTyped, MirrorTyped, ServeSet
<1>8. AnswerSound' /\ MirrorSound'
  BY <1>2, <1>6 DEF AnswerSound, MirrorSound
<1> QED
  BY <1>7, <1>8 DEF SettingsInv

LEMMA ServeGetKeeps ==
  ASSUME SettingsInv, ServeGet
  PROVE  SettingsInv'
<1>1. /\ SettingsTyped /\ queue # << >> /\ queue[1].kind = "get" /\ answer' = Report
      /\ UNCHANGED <<firmware, ctrl, mirror, caps, queue, timer, left>> /\ unsure' = FALSE
  BY HeadAndTail DEF SettingsInv, SettingsTyped, ServeGet
<1>2. Report' = Report /\ Reported' = Reported
  BY <1>1 DEF Report, Reported
<1>3. SettingsTyped'
  BY <1>1, ReportFacts DEF SettingsTyped, MirrorTyped, QueueTyped
<1>4. AnswerSound'
  BY <1>1, <1>2 DEF AnswerSound
<1>5. MirrorSound'
  <2>1. Report = Nothing => Reported = {}
    BY DEF Report, Nothing
  <2> QED
    BY <1>1, <1>2, <2>1 DEF MirrorSound
<1> QED
  BY <1>3, <1>4, <1>5 DEF SettingsInv

LEMMA LoadKeeps ==
  ASSUME SettingsInv, Load
  PROVE  SettingsInv'
<1>1. /\ SettingsTyped /\ QueueTyped /\ answer # Nothing /\ answer' = Nothing /\ queue' = Tail(queue)
      /\ queue # << >> /\ (~unsure => answer = Report)
      /\ UNCHANGED <<firmware, ctrl, caps, timer>>
  BY DEF SettingsInv, SettingsTyped, AnswerSound, Load
<1>2. Report' = Report /\ Reported' = Reported
  BY <1>1 DEF Report, Reported
<1>3. \/ mirror' = Updated(answer) /\ UNCHANGED <<left, unsure>>
      \/ mirror' = mirror /\ unsure' = TRUE /\ Spend("misses")
  BY DEF Load
<1>4. left' \in Bounds /\ unsure' \in BOOLEAN
  BY <1>1, <1>3, SpendFacts DEF SettingsTyped, BoundNames
<1>5. MirrorTyped'
  <2>1. MirrorTyped /\ Json(answer)
    BY <1>1, ValuesAreJson DEF SettingsTyped
  <2> QED
    BY <1>3, <2>1, UpdatedFacts DEF MirrorTyped
<1>6. SettingsTyped'
  BY <1>1, <1>4, <1>5, ServedFacts, CommandFacts DEF SettingsTyped
<1>7. AnswerSound'
  BY <1>1 DEF AnswerSound
<1>8. MirrorSound'
  BY <1>1, <1>2, <1>3, ReportFacts DEF MirrorSound
<1> QED
  BY <1>6, <1>7, <1>8 DEF SettingsInv

LEMMA ServeVersionKeeps ==
  ASSUME SettingsInv, ServeVersion
  PROVE  SettingsInv'
<1>1. /\ SettingsTyped /\ QueueTyped /\ queue # << >> /\ queue[1].kind = "version"
      /\ queue' = Tail(queue)
      /\ UNCHANGED <<firmware, ctrl, mirror, answer, timer, unsure>>
  BY HeadAndTail DEF SettingsInv, SettingsTyped, ServeVersion
<1>2. Report' = Report /\ Reported' = Reported
  BY <1>1 DEF Report, Reported
<1>3. answer = Nothing
  BY <1>1 DEF SettingsInv, AnswerSound
<1>4. left' \in Bounds
  BY <1>1, SpendFacts DEF ServeVersion, BoundNames, SettingsTyped
<1>5. caps' \in [tails: BOOLEAN, api: Nat]
  <2>1. firmware.tails \in BOOLEAN /\ firmware.version \in Seq(Nat)
    BY <1>1 DEF SettingsTyped
  <2>2. ApiCode(firmware.version) \in Nat
    BY <2>1 DEF ApiCode, Unknown
  <2> QED
    BY <1>1, <2>1, <2>2 DEF ServeVersion, SettingsTyped
<1>6. SettingsTyped'
  BY <1>1, <1>4, <1>5, ServedFacts DEF SettingsTyped, MirrorTyped
<1>7. AnswerSound' /\ MirrorSound'
  BY <1>1, <1>2, <1>3, ServedFacts DEF AnswerSound, MirrorSound, SettingsInv
<1> QED
  BY <1>6, <1>7 DEF SettingsInv

LEMMA TimerFiresKeeps ==
  ASSUME SettingsInv, TimerFires
  PROVE  SettingsInv'
<1>1. /\ SettingsTyped /\ QueueTyped /\ timer' = "fired" /\ queue' = Pushed(queue, Get)
      /\ unsure' = (unsure \/ ~ReadBack')
      /\ UNCHANGED <<firmware, ctrl, mirror, caps, answer, left>>
  BY DEF SettingsInv, SettingsTyped, TimerFires
<1>2. Report' = Report /\ Reported' = Reported
  BY <1>1 DEF Report, Reported
<1>3. QueueTyped' /\ Extends(queue, queue')
  BY <1>1, PushedFacts, CommandFacts DEF QueueTyped
<1>4. SettingsTyped'
  BY <1>1, <1>3 DEF SettingsTyped, MirrorTyped
<1>5. AnswerSound'
  BY <1>1, <1>2, <1>3, ExtendsFacts DEF SettingsInv, AnswerSound
<1>6. MirrorSound'
  BY <1>1 DEF MirrorSound
<1> QED
  BY <1>4, <1>5, <1>6 DEF SettingsInv

\* The handle is cleared when the callback has asked already: nothing it would still read.
LEMMA TimerForgottenKeeps ==
  ASSUME SettingsInv, TimerForgotten
  PROVE  SettingsInv'
<1>1. /\ SettingsTyped /\ timer = "fired" /\ timer' = "none"
      /\ UNCHANGED <<firmware, ctrl, mirror, caps, queue, answer, unsure, left>>
  BY DEF SettingsInv, TimerForgotten
<1>2. Report' = Report /\ Reported' = Reported /\ (ReadBack' <=> ReadBack)
  BY <1>1 DEF Report, Reported, ReadBack, QueueReads
<1>3. SettingsTyped'
  BY <1>1 DEF SettingsTyped, MirrorTyped, QueueTyped
<1>4. AnswerSound' /\ MirrorSound'
  BY <1>1, <1>2 DEF SettingsInv, AnswerSound, MirrorSound
<1> QED
  BY <1>3, <1>4 DEF SettingsInv

LEMMA PanelKeeps ==
  ASSUME SettingsInv, NEW f \in DOMAIN Inputs, NEW v \in Inputs[f], InRange(f, v), PanelChanges(f, v)
  PROVE  SettingsInv'
<1>1. /\ SettingsTyped /\ f \in Fields /\ ctrl' = [ctrl EXCEPT ![f] = v] /\ unsure' = TRUE
      /\ UNCHANGED <<firmware, mirror, caps, queue, answer, timer>> /\ Spend("panel")
  BY DEF SettingsInv, PanelChanges, Reported
<1>2. left' \in Bounds
  BY <1>1, SpendFacts DEF BoundNames, SettingsTyped
<1>3. ctrl' \in [Fields -> Seq(Int)] /\ \A g \in Fields : InRange(g, ctrl'[g])
  <2>1. v \in Seq(Int)
    BY DEF InRange, Shaped
  <2> QED
    BY <1>1, <2>1 DEF SettingsTyped
<1>4. SettingsTyped'
  BY <1>1, <1>2, <1>3 DEF SettingsTyped, MirrorTyped, QueueTyped
<1>5. AnswerSound' /\ MirrorSound'
  BY <1>1 DEF SettingsInv, AnswerSound, MirrorSound
<1> QED
  BY <1>4, <1>5 DEF SettingsInv

LEMMA StartFacts ==
  /\ Defaults \in [Fields -> Seq(Int)] /\ \A f \in Fields : Shaped(f, Defaults[f])
  /\ [f \in Fields |-> Factory(f)] \in [Fields -> Seq(Int)]
  /\ \A f \in Fields : InRange(f, Factory(f))
  /\ NoCaps \in [tails: BOOLEAN, api: Nat]
<1>1. \A f \in Fields : Shaped(f, Default(f)) /\ InRange(f, Factory(f))
  BY MirroredFields, DefaultFacts
<1>2. \A f \in Fields : Default(f) \in Seq(Int) /\ Factory(f) \in Seq(Int)
  BY <1>1 DEF InRange, Shaped
<1> QED
  BY <1>1, <1>2 DEF Defaults, NoCaps, Unknown

LEMMA ResetKeeps ==
  ASSUME SettingsInv, SettingsReset, left' \in Bounds
  PROVE  SettingsInv'
<1>3. QueueTyped' /\ MirrorTyped'
  BY StartFacts, SettingsAssumption DEF SettingsReset, MirrorTyped, QueueTyped
<1>1. SettingsTyped'
  BY <1>3, StartFacts, CommandFacts DEF SettingsInv, SettingsTyped, SettingsReset
<1>2. AnswerSound' /\ MirrorSound'
  BY DEF AnswerSound, MirrorSound, SettingsReset
<1> QED
  BY <1>1, <1>2 DEF SettingsInv

LEMMA InitSettings ==
  ASSUME SettingsInit, firmware \in [tails: BOOLEAN, version: Seq(Nat)], left \in Bounds
  PROVE  SettingsInv
<1>3. QueueTyped /\ MirrorTyped
  BY StartFacts, SettingsAssumption DEF SettingsInit, MirrorTyped, QueueTyped
<1>1. SettingsTyped
  BY <1>3, StartFacts, CommandFacts DEF SettingsTyped, SettingsInit
<1>2. AnswerSound /\ MirrorSound
  BY DEF AnswerSound, MirrorSound, SettingsInit
<1> QED
  BY <1>1, <1>2 DEF SettingsInv

-----------------------------------------------------------------------------
(* The files and the list.                                                 *)

FileTyped(c) ==
    /\ c = [state |-> c.state, has |-> c.has, json |-> c.json]
    /\ c.state \in {"none", "ok", "bad"} /\ c.has \in BOOLEAN /\ Json(c.json)

Entries == [id: Ids, on: BOOLEAN]

StoreTyped ==
    /\ files = [i \in Ids |-> files[i]] /\ \A i \in Ids : FileTyped(files[i])
    /\ meta \in [state: {"bad", "list"}, list: Seq(Entries)]
    /\ greeted \in BOOLEAN /\ damaged \in BOOLEAN

StepsOf(kind) ==
    CASE kind = "none" -> {0}
      [] kind = "boot" -> {1, 2, 3, 5, 6}
      [] kind = "content" -> {1, 2, 3, 4}
      [] kind = "activate" -> {1, 2, 3}
      [] OTHER -> {1, 2}

Kinds == {"none", "boot", "create", "copy", "save", "delete", "rename", "activate", "content"}

OpTyped ==
    /\ op = [kind |-> op.kind, step |-> op.step, id |-> op.id, new |-> op.new,
             body |-> op.body, patch |-> op.patch]
    /\ op.kind \in Kinds /\ op.step \in StepsOf(op.kind)
    /\ op.id \in Ids /\ op.new \in Ids /\ op.patch \in BOOLEAN /\ Json(op.body)
    /\ op.kind = "none" => op = Rest
    /\ op.kind = "boot" => op.id = 0

\* The file an operation has written and not listed yet.
Writing(i) == op.kind \in {"create", "copy"} /\ op.step = 2 /\ op.new = i

\* What the files have to do with the list: a start that found none has written the first one;
\* else every file is listed, but for the one that is being added, once the start is through
\* with the list and until a write fails.
FilesKnown ==
    /\ op.kind = "boot" /\ op.step \in {2, 3} => \A i \in Ids : Exists(i) => i = 0
    /\ op.kind = "boot" /\ op.step = 3 => 0 \in Listed(meta.list)
    /\ ~damaged /\ (op.kind = "boot" => op.step \in {5, 6}) =>
           \A i \in Ids : Exists(i) => i \in Listed(meta.list) \/ Writing(i)

StoreInv == StoreTyped /\ OpTyped /\ FilesKnown

\* The profiles of a list that carry the mark.
Marks(list) == {i \in Listed(list) : \E k \in 1..Len(list) : list[k] = Entry(i, TRUE)}

LEMMA IdsFacts == 0 \in Ids /\ Ids \subseteq Nat /\ IsFiniteSet(Ids)
<1>1. MaxId \in Nat
  BY ProfilesAssumption
<1>2. IsFiniteSet(0..MaxId)
  BY <1>1, FS_Interval
<1> QED
  BY <1>1, <1>2 DEF Ids

LEMMA ListFacts ==
  ASSUME NEW list \in Seq(Entries)
  PROVE  /\ DOMAIN list = 1..Len(list) /\ Len(list) \in Nat
         /\ \A k \in 1..Len(list) : /\ list[k] \in Entries /\ list[k].id \in Ids /\ list[k].on \in BOOLEAN
                                    /\ list[k] = Entry(list[k].id, list[k].on)
         /\ Listed(list) \subseteq Ids /\ Marks(list) \subseteq Listed(list)
         /\ IsFiniteSet(Listed(list))
         /\ \A k \in 1..Len(list) : list[k].on => list[k].id \in Marks(list)
         /\ \A i \in Marks(list) : \E k \in 1..Len(list) : list[k].id = i /\ list[k].on
<1>1. DOMAIN list = 1..Len(list) /\ Len(list) \in Nat /\ \A k \in 1..Len(list) : list[k] \in Entries
  BY LenProperties, ElementOfSeq
<1>2. \A k \in 1..Len(list) : /\ list[k].id \in Ids /\ list[k].on \in BOOLEAN
                              /\ list[k] = Entry(list[k].id, list[k].on)
  BY <1>1 DEF Entries, Entry
<1>3. Listed(list) \subseteq Ids /\ Marks(list) \subseteq Listed(list)
  BY <1>2 DEF Listed, Marks
<1>4. IsFiniteSet(Listed(list))
  BY <1>3, IdsFacts, FS_Subset
<1>5. ASSUME NEW k \in 1..Len(list), list[k].on
      PROVE  list[k].id \in Marks(list)
  <2>1. list[k] = Entry(list[k].id, TRUE)
    BY <1>2, <1>5
  <2> QED
    BY <2>1 DEF Marks, Listed
<1>6. ASSUME NEW i \in Marks(list)
      PROVE  \E k \in 1..Len(list) : list[k].id = i /\ list[k].on
  <2>1. PICK k \in 1..Len(list) : list[k] = Entry(i, TRUE)
    BY <1>6 DEF Marks
  <2>2. list[k].id = i /\ list[k].on
    BY <2>1 DEF Entry
  <2> QED
    BY <2>2
<1> QED
  BY <1>1, <1>2, <1>3, <1>4, <1>5, <1>6

\* Membership of a list and of its marks, in terms of its entries.
LEMMA ListMembers ==
  ASSUME NEW list \in Seq(Entries)
  PROVE  /\ \A i : i \in Listed(list) <=> \E k \in 1..Len(list) : list[k].id = i
         /\ \A i : i \in Marks(list) <=> \E k \in 1..Len(list) : list[k].id = i /\ list[k].on
<1>1. \A i : i \in Listed(list) <=> \E k \in 1..Len(list) : list[k].id = i
  BY DEF Listed
<1>2. \A i : i \in Marks(list) <=> \E k \in 1..Len(list) : list[k].id = i /\ list[k].on
  BY ListFacts
<1> QED
  BY <1>1, <1>2

LEMMA MaxFacts ==
  ASSUME NEW S \in SUBSET Int, IsFiniteSet(S), S # {}
  PROVE  /\ Max(S) \in S /\ \A x \in S : x <= Max(S)
         /\ \E x \in S : \A y \in S : x <= y
<1> DEFINE n == Cardinality(S)
           A == Ascending(S)
<1>1. /\ n \in Nat /\ A \in [1..n -> S]
      /\ \A x \in S : \E k \in 1..n : A[k] = x
      /\ \A i, k \in 1..n : i < k => A[i] < A[k]
  BY AscendingFacts
<1> HIDE DEF n, A
<1>2. n >= 1 /\ A[1] \in S /\ A[n] \in S
  <2>1. PICK x \in S : TRUE
    OBVIOUS
  <2>2. PICK k \in 1..n : A[k] = x
    BY <1>1, <2>1
  <2>3. n >= 1 /\ 1 \in 1..n /\ n \in 1..n
    BY <1>1, <2>2
  <2> QED
    BY <1>1, <2>3
<1>3. \A x \in S : x <= A[n] /\ A[1] <= x
  <2> TAKE x \in S
  <2>1. PICK k \in 1..n : A[k] = x
    BY <1>1
  <2>2. k = n \/ A[k] < A[n]
    BY <1>1, <1>2
  <2>3. k = 1 \/ A[1] < A[k]
    BY <1>1, <1>2
  <2>4. x \in Int /\ A[1] \in Int /\ A[n] \in Int
    BY <1>2
  <2> QED
    BY <2>1, <2>2, <2>3, <2>4
<1>4. \E x \in S : \A y \in S : x >= y
  <2>1. \A y \in S : A[n] >= y
    BY <1>2, <1>3
  <2> QED
    BY <1>2, <2>1
<1>5. Max(S) \in S /\ \A y \in S : Max(S) >= y
  BY <1>4 DEF Max
<1>6. \A y \in S : y <= Max(S)
  BY <1>5
<1> QED
  BY <1>2, <1>3, <1>5, <1>6

\* The number of a new profile is not on the list.
LEMMA NewIdFacts ==
  ASSUME StoreTyped
  PROVE  NewId \notin Listed(meta.list)
<1>1. meta.list \in Seq(Entries)
  BY DEF StoreTyped
<1>2. CASE meta.list = << >>
  BY <1>2 DEF Listed
<1>3. CASE meta.list # << >>
  <2> DEFINE S == Listed(meta.list)
  <2>1. S \in SUBSET Int /\ IsFiniteSet(S)
    <3>1. S \subseteq Ids /\ IsFiniteSet(S)
      BY <1>1, ListFacts
    <3> HIDE DEF S
    <3>2. \A x \in S : x \in Int
      BY <3>1, IdsFacts
    <3> QED
      BY <3>1, <3>2
  <2>2. S # {}
    <3>1. 1 \in 1..Len(meta.list)
      BY <1>1, <1>3, EmptySeq
    <3> QED
      BY <3>1 DEF Listed
  <2>3. \A x \in S : x <= Max(S)
    <3> HIDE DEF S
    <3> QED
      BY <2>1, <2>2, MaxFacts
  <2>4. Max(S) \in S
    <3> HIDE DEF S
    <3> QED
      BY <2>1, <2>2, MaxFacts
  <2>5. NewId = Max(S) + 1
    BY <1>3 DEF NewId
  <2> HIDE DEF S
  <2> QED
    BY <2>1, <2>3, <2>4, <2>5 DEF S
<1> QED
  BY <1>2, <1>3

\* The first marked entry is there when any is marked.
LEMMA ActiveFacts ==
  ASSUME NEW m, m.list \in Seq(Entries)
  PROVE  /\ Active(m) \subseteq Marks(m.list)
         /\ Active(m) = {} => Marks(m.list) = {}
<1> DEFINE list == m.list
           S == {k \in 1..Len(list) : list[k].on}
<1>1. Active(m) \subseteq Marks(list)
  BY DEF Active, Marks
<1>2. ASSUME NEW i \in Marks(list)
      PROVE  Active(m) # {}
  <2>1. S # {} /\ S \in SUBSET Int
    BY <1>2, ListFacts
  <2>2. IsFiniteSet(S)
    <3>1. IsFiniteSet(1..Len(list))
      BY FS_Interval, ListFacts
    <3> QED
      BY <3>1, FS_Subset
  <2>3. PICK k \in S : \A n \in S : k <= n
    <3> HIDE DEF S
    <3> QED
      BY <2>1, <2>2, MaxFacts
  <2>4. k \in 1..Len(list) /\ list[k] = Entry(list[k].id, TRUE)
    BY <2>3, ListFacts
  <2>5. \A n \in 1..(k - 1) : ~list[n].on
    BY <2>3, <2>4, ListFacts
  <2> QED
    BY <2>4, <2>5 DEF Active, Listed
<1> QED
  BY <1>1, <1>2

\* What the changes of the list do to the profiles on it and to the marks.
LEMMA AppendedFacts ==
  ASSUME meta \in [state: {"bad", "list"}, list: Seq(Entries)], NEW i \in Ids
  PROVE  /\ Appended(meta, i) \in [state: {"bad", "list"}, list: Seq(Entries)]
         /\ Listed(Appended(meta, i).list) = Listed(meta.list) \cup {i}
         /\ Marks(Appended(meta, i).list) = Marks(meta.list)
<1>1. CASE i \in Listed(meta.list)
  <2>1. Appended(meta, i) = meta
    BY <1>1 DEF Appended
  <2> QED
    BY <1>1, <2>1
<1>2. CASE i \notin Listed(meta.list)
  <2> DEFINE list == meta.list
             e == Entry(i, FALSE)
             more == Append(list, e)
  <2>1. Appended(meta, i) = Meta(more)
    BY <1>2 DEF Appended
  <2>2. list \in Seq(Entries) /\ e \in Entries
    BY DEF Entries, Entry
  <2>10. e.id = i /\ ~e.on
    BY DEF Entry
  <2>11. more = Append(list, e)
    OBVIOUS
  <2> HIDE DEF more, list, e
  <2>3. /\ more \in Seq(Entries) /\ Len(more) = Len(list) + 1 /\ Len(list) \in Nat
        /\ more[Len(list) + 1] = e
        /\ \A k \in 1..Len(list) : more[k] = list[k]
    <3>1. Len(list) \in Nat
      BY <2>2, LenProperties
    <3>2. /\ more \in Seq(Entries) /\ Len(more) = Len(list) + 1
          /\ more[Len(list) + 1] = e
      BY <2>2, <2>11, AppendProperties
    <3>3. \A k \in 1..Len(list) : more[k] = list[k]
      BY <2>2, <2>11, AppendProperties
    <3> QED
      BY <3>1, <3>2, <3>3
  <2>4. Meta(more).list = more /\ Meta(more) \in [state: {"bad", "list"}, list: Seq(Entries)]
    BY <2>3 DEF Meta
  <2>6. \A k \in 1..Len(more) : k \in 1..Len(list) \/ k = Len(list) + 1
    BY <2>3
  <2>7. 1..Len(list) \subseteq 1..Len(more) /\ Len(list) + 1 \in 1..Len(more)
    BY <2>3
  <2>8. Listed(more) = Listed(list) \cup {i}
    <3>1. \A j : (\E k \in 1..Len(more) : more[k].id = j)
                 <=> (\E k \in 1..Len(list) : list[k].id = j) \/ j = i
      BY <2>3, <2>6, <2>7, <2>10
    <3>2. \A j : j \in Listed(more) <=> \E k \in 1..Len(more) : more[k].id = j
      BY <2>3, ListMembers
    <3>3. \A j : j \in Listed(list) <=> \E k \in 1..Len(list) : list[k].id = j
      BY <2>2, ListMembers
    <3> QED
      BY <3>1, <3>2, <3>3
  <2>9. Marks(more) = Marks(list)
    <3>1. \A j : (\E k \in 1..Len(more) : more[k].id = j /\ more[k].on)
                 <=> (\E k \in 1..Len(list) : list[k].id = j /\ list[k].on)
      BY <2>3, <2>6, <2>7, <2>10
    <3>2. \A j : j \in Marks(more) <=> \E k \in 1..Len(more) : more[k].id = j /\ more[k].on
      BY <2>3, ListMembers
    <3>3. \A j : j \in Marks(list) <=> \E k \in 1..Len(list) : list[k].id = j /\ list[k].on
      BY <2>2, ListMembers
    <3> QED
      BY <3>1, <3>2, <3>3
  <2> QED
    BY <2>1, <2>4, <2>8, <2>9 DEF list
<1> QED
  BY <1>1, <1>2

LEMMA PickedList ==
  ASSUME NEW list \in Seq(Entries), NEW keep \in SUBSET Ids
  PROVE  LET kept == Picked(list, {k \in DOMAIN list : list[k].id \in keep})
         IN  /\ kept \in Seq(Entries)
             /\ Listed(kept) = Listed(list) \cap keep
             /\ Marks(kept) = Marks(list) \cap keep
<1> DEFINE at == {k \in DOMAIN list : list[k].id \in keep}
           kept == Picked(list, at)
<1>1. at \in SUBSET DOMAIN list
  OBVIOUS
<1>2. /\ kept \in Seq(Entries)
      /\ \A k \in DOMAIN kept : \E n \in at : kept[k] = list[n]
      /\ \A n \in at : \E k \in DOMAIN kept : kept[k] = list[n]
  <2>1. kept = Picked(list, at)
    OBVIOUS
  <2> HIDE DEF at, kept
  <2> QED
    BY <1>1, <2>1, PickedFacts
<1>3. DOMAIN kept = 1..Len(kept) /\ DOMAIN list = 1..Len(list)
  <2> HIDE DEF kept
  <2> QED
    BY <1>2, LenProperties
<1>4. \A k \in DOMAIN list : k \in at <=> list[k].id \in keep
  OBVIOUS
<1> HIDE DEF kept, at
<1>5. Listed(kept) = Listed(list) \cap keep
  <2>1. \A i : (\E k \in 1..Len(kept) : kept[k].id = i)
               <=> i \in keep /\ \E n \in 1..Len(list) : list[n].id = i
    <3>1. \A k \in 1..Len(kept) : \E n \in 1..Len(list) : kept[k] = list[n] /\ list[n].id \in keep
      BY <1>1, <1>2, <1>3, <1>4
    <3>2. \A n \in 1..Len(list) : list[n].id \in keep => \E k \in 1..Len(kept) : kept[k] = list[n]
      BY <1>1, <1>2, <1>3, <1>4
    <3> TAKE i
    <3>3. ASSUME NEW k \in 1..Len(kept), kept[k].id = i
          PROVE  i \in keep /\ \E n \in 1..Len(list) : list[n].id = i
      <4>1. PICK n \in 1..Len(list) : kept[k] = list[n] /\ list[n].id \in keep
        BY <3>1
      <4> QED
        BY <3>3, <4>1
    <3>4. ASSUME NEW n \in 1..Len(list), list[n].id = i, i \in keep
          PROVE  \E k \in 1..Len(kept) : kept[k].id = i
      <4>1. PICK k \in 1..Len(kept) : kept[k] = list[n]
        BY <3>2, <3>4
      <4> QED
        BY <3>4, <4>1
    <3> QED
      BY <3>3, <3>4, Zenon
  <2>2. \A i : i \in Listed(kept) <=> \E k \in 1..Len(kept) : kept[k].id = i
    BY <1>2, ListMembers
  <2>3. \A i : i \in Listed(list) <=> \E k \in 1..Len(list) : list[k].id = i
    BY ListMembers
  <2> QED
    BY <2>1, <2>2, <2>3
<1>6. Marks(kept) = Marks(list) \cap keep
  <2>1. \A i : (\E k \in 1..Len(kept) : kept[k].id = i /\ kept[k].on)
               <=> i \in keep /\ \E n \in 1..Len(list) : list[n].id = i /\ list[n].on
    <3>1. \A k \in 1..Len(kept) : \E n \in 1..Len(list) : kept[k] = list[n] /\ list[n].id \in keep
      BY <1>1, <1>2, <1>3, <1>4
    <3>2. \A n \in 1..Len(list) : list[n].id \in keep => \E k \in 1..Len(kept) : kept[k] = list[n]
      BY <1>1, <1>2, <1>3, <1>4
    <3> QED
      BY <3>1, <3>2
  <2>2. \A i : i \in Marks(kept) <=> \E k \in 1..Len(kept) : kept[k].id = i /\ kept[k].on
    BY <1>2, ListMembers
  <2>3. \A i : i \in Marks(list) <=> \E k \in 1..Len(list) : list[k].id = i /\ list[k].on
    BY ListMembers
  <2> QED
    BY <2>1, <2>2, <2>3
<1> QED
  BY <1>2, <1>5, <1>6 DEF kept, at

\* A list with the same profiles, whose marks are given place by place.
LEMMA RemarkedFacts ==
  ASSUME NEW list \in Seq(Entries), NEW new, new = [k \in 1..Len(list) |-> new[k]],
         \A k \in 1..Len(list) : new[k].id = list[k].id /\ new[k] \in Entries
  PROVE  /\ new \in Seq(Entries) /\ Len(new) = Len(list)
         /\ Listed(new) = Listed(list)
         /\ \A i : i \in Marks(new) <=> \E k \in 1..Len(list) : list[k].id = i /\ new[k].on
<1>1. Len(list) \in Nat
  BY LenProperties
<1>2. new \in Seq(Entries) /\ Len(new) = Len(list)
  BY <1>1, Sequenced
<1>3. Listed(new) = Listed(list)
  <2>1. \A i : i \in Listed(new) <=> \E k \in 1..Len(new) : new[k].id = i
    BY <1>2, ListMembers
  <2>2. \A i : i \in Listed(list) <=> \E k \in 1..Len(list) : list[k].id = i
    BY ListMembers
  <2> QED
    BY <1>2, <2>1, <2>2
<1>4. \A i : i \in Marks(new) <=> \E k \in 1..Len(list) : list[k].id = i /\ new[k].on
  BY <1>2, ListMembers
<1> QED
  BY <1>2, <1>3, <1>4

\* The list after a start: all files and no more, and the marks of profiles that are there.
LEMMA MendedFacts ==
  ASSUME StoreTyped
  PROVE  /\ Repaired \in Seq(Entries) /\ Mended \in Seq(Entries)
         /\ Listed(Repaired) = {i \in Ids : Exists(i)}
         /\ Listed(Mended) = {i \in Ids : Exists(i)}
         /\ Marks(meta.list) # {} => Marks(Mended) = Marks(meta.list) \cap {i \in Ids : Exists(i)}
<1> DEFINE there == {i \in Ids : Exists(i)}
           list == meta.list
           more == [k \in 1..Cardinality(Unlisted) |-> Entry(Ascending(Unlisted)[k], FALSE)]
<1>1. list \in Seq(Entries)
  BY DEF StoreTyped
<1>2. Kept \in Seq(Entries) /\ Listed(Kept) = Listed(list) \cap there /\ Marks(Kept) = Marks(list) \cap there
  <2>1. \A k \in DOMAIN list : Exists(list[k].id) <=> list[k].id \in there
    BY <1>1, ListFacts
  <2>2. Kept = Picked(list, {k \in DOMAIN list : list[k].id \in there})
    BY <2>1 DEF Kept
  <2> HIDE DEF list, there
  <2>3. there \in SUBSET Ids
    BY DEF there
  <2> QED
    BY <1>1, <2>2, <2>3, PickedList
<1>3. Unlisted \in SUBSET Ids /\ Unlisted \in SUBSET Int /\ IsFiniteSet(Unlisted)
  <2>1. Unlisted \in SUBSET Ids
    BY DEF Unlisted
  <2>2. IsFiniteSet(Unlisted)
    BY <2>1, IdsFacts, FS_Subset
  <2> QED
    BY <2>1, <2>2, IdsFacts
<1>4. /\ Cardinality(Unlisted) \in Nat
      /\ \A k \in 1..Cardinality(Unlisted) : Ascending(Unlisted)[k] \in Unlisted
      /\ \A x \in Unlisted : \E k \in 1..Cardinality(Unlisted) : Ascending(Unlisted)[k] = x
  BY <1>3, AscendingFacts
<1>5. \A k \in 1..Cardinality(Unlisted) : more[k] \in Entries /\ more[k] = Entry(Ascending(Unlisted)[k], FALSE)
  BY <1>3, <1>4 DEF Entries, Entry
<1>6. more \in Seq(Entries) /\ Len(more) = Cardinality(Unlisted)
  <2>1. more = [k \in 1..Cardinality(Unlisted) |-> more[k]]
    OBVIOUS
  <2> HIDE DEF more
  <2> QED
    BY <1>4, <1>5, <2>1, Sequenced
<1>7. Repaired = Kept \o more
  BY DEF Repaired
<1> HIDE DEF more, list, there
<1>8. /\ Repaired \in Seq(Entries)
      /\ Len(Repaired) = Len(Kept) + Len(more) /\ Len(Kept) \in Nat /\ Len(more) \in Nat
      /\ \A k \in 1..Len(Kept) + Len(more) :
             Repaired[k] = IF k <= Len(Kept) THEN Kept[k] ELSE more[k - Len(Kept)]
  <2>1. Kept \in Seq(Entries) /\ more \in Seq(Entries)
    BY <1>2, <1>6
  <2>2. Len(Kept) \in Nat /\ Len(more) \in Nat
    BY <2>1, LenProperties
  <2> QED
    BY <1>7, <2>1, <2>2, ConcatProperties
<1>9. /\ \A k \in 1..Len(Repaired) : \/ \E n \in 1..Len(Kept) : Repaired[k] = Kept[n]
                                     \/ \E n \in 1..Len(more) : Repaired[k] = more[n]
      /\ \A n \in 1..Len(Kept) : n \in 1..Len(Repaired) /\ Repaired[n] = Kept[n]
      /\ \A n \in 1..Len(more) : Len(Kept) + n \in 1..Len(Repaired) /\ Repaired[Len(Kept) + n] = more[n]
  <2>1. ASSUME NEW k \in 1..Len(Repaired)
        PROVE  \/ \E n \in 1..Len(Kept) : Repaired[k] = Kept[n]
               \/ \E n \in 1..Len(more) : Repaired[k] = more[n]
    <3>1. CASE k <= Len(Kept)
      BY <1>8, <3>1
    <3>2. CASE ~(k <= Len(Kept))
      <4>1. k - Len(Kept) \in 1..Len(more) /\ Repaired[k] = more[k - Len(Kept)]
        BY <1>8, <3>2
      <4> QED
        BY <4>1
    <3> QED
      BY <3>1, <3>2
  <2>2. ASSUME NEW n \in 1..Len(Kept)
        PROVE  n \in 1..Len(Repaired) /\ Repaired[n] = Kept[n]
    BY <1>8
  <2>3. ASSUME NEW n \in 1..Len(more)
        PROVE  Len(Kept) + n \in 1..Len(Repaired) /\ Repaired[Len(Kept) + n] = more[n]
    <3>1. /\ Len(Kept) + n \in 1..Len(Kept) + Len(more) /\ ~(Len(Kept) + n <= Len(Kept))
          /\ (Len(Kept) + n) - Len(Kept) = n
      BY <1>8
    <3> QED
      BY <1>8, <3>1
  <2> QED
    BY <2>1, <2>2, <2>3
<1>14. \A n \in 1..Len(more) : more[n].id = Ascending(Unlisted)[n] /\ ~more[n].on
  BY <1>5, <1>6 DEF Entry
<1>10. Listed(Repaired) = there
  <2>1. \A i : i \in Listed(Repaired) <=> i \in Listed(Kept) \/ \E n \in 1..Len(more) : more[n].id = i
    <3>1. \A i : i \in Listed(Repaired) <=> \E k \in 1..Len(Repaired) : Repaired[k].id = i
      BY <1>8, ListMembers
    <3>2. \A i : i \in Listed(Kept) <=> \E k \in 1..Len(Kept) : Kept[k].id = i
      BY <1>2, ListMembers
    <3>3. ASSUME NEW i, NEW k \in 1..Len(Repaired), Repaired[k].id = i
          PROVE  i \in Listed(Kept) \/ \E n \in 1..Len(more) : more[n].id = i
      BY <1>9, <3>2, <3>3
    <3>4. ASSUME NEW n \in 1..Len(Kept)
          PROVE  \E k \in 1..Len(Repaired) : Repaired[k].id = Kept[n].id
      BY <1>9
    <3>5. ASSUME NEW n \in 1..Len(more)
          PROVE  \E k \in 1..Len(Repaired) : Repaired[k].id = more[n].id
      BY <1>9
    <3> QED
      BY <3>1, <3>2, <3>3, <3>4, <3>5
  <2>2. \A i : (\E n \in 1..Len(more) : more[n].id = i) <=> i \in Unlisted
    BY <1>4, <1>6, <1>14
  <2>3. Unlisted = there \ Listed(Kept)
    BY DEF Unlisted, there
  <2> QED
    BY <1>2, <2>1, <2>2, <2>3
<1>11. Marks(Repaired) = Marks(list) \cap there
  <2>1. \A i : i \in Marks(Repaired) <=> i \in Marks(Kept)
    <3>1. \A i : i \in Marks(Repaired) <=> \E k \in 1..Len(Repaired) : Repaired[k].id = i /\ Repaired[k].on
      BY <1>8, ListMembers
    <3>2. \A i : i \in Marks(Kept) <=> \E k \in 1..Len(Kept) : Kept[k].id = i /\ Kept[k].on
      BY <1>2, ListMembers
    <3>3. ASSUME NEW i \in Marks(Repaired)
          PROVE  i \in Marks(Kept)
      <4>1. PICK k \in 1..Len(Repaired) : Repaired[k].id = i /\ Repaired[k].on
        BY <3>1
      <4>2. PICK n \in 1..Len(Kept) : Repaired[k] = Kept[n]
        BY <1>9, <1>14, <4>1
      <4> QED
        BY <3>2, <4>1, <4>2
    <3>4. ASSUME NEW i \in Marks(Kept)
          PROVE  i \in Marks(Repaired)
      <4>1. PICK n \in 1..Len(Kept) : Kept[n].id = i /\ Kept[n].on
        BY <3>2
      <4>2. n \in 1..Len(Repaired) /\ Repaired[n] = Kept[n]
        BY <1>9
      <4> QED
        BY <3>1, <4>1, <4>2
    <3> QED
      BY <3>3, <3>4
  <2> QED
    BY <1>2, <2>1
<1>12. CASE Repaired # << >> /\ Active(meta) = {}
  <2> DEFINE new == [Repaired EXCEPT ![1].on = TRUE]
  <2>1. Mended = new
    BY <1>12 DEF Mended, Marked
  <2>6. DOMAIN Repaired = 1..Len(Repaired) /\ \A k \in 1..Len(Repaired) : Repaired[k] \in Entries
    BY <1>8, LenProperties, ElementOfSeq
  <2>3. new = [k \in 1..Len(Repaired) |-> new[k]]
    BY <2>6
  <2>7. \A k \in 1..Len(Repaired) : new[k] = Repaired[k] \/ new[k] = [Repaired[k] EXCEPT !.on = TRUE]
    BY <2>6
  <2>2. \A k \in 1..Len(Repaired) : new[k].id = Repaired[k].id /\ new[k] \in Entries
    <3> HIDE DEF new
    <3> QED
      BY <2>6, <2>7 DEF Entries
  <2>4. new \in Seq(Entries) /\ Listed(new) = Listed(Repaired)
    <3> HIDE DEF new
    <3> QED
      BY <1>8, <2>2, <2>3, RemarkedFacts
  <2>5. Marks(list) = {}
    BY <1>1, <1>12, ActiveFacts DEF list
  <2> QED
    BY <1>8, <1>10, <2>1, <2>4, <2>5 DEF there, list
<1>13. CASE ~(Repaired # << >> /\ Active(meta) = {})
  <2>1. Mended = Repaired
    BY <1>13 DEF Mended
  <2> QED
    BY <1>8, <1>10, <1>11, <2>1 DEF there, list
<1> QED
  BY <1>12, <1>13

-----------------------------------------------------------------------------
(* Requests that write a file first.                                       *)

Inv == SettingsInv /\ StoreInv

\* The steps of the store leave the settings alone.
LEMMA StoringKeeps ==
  ASSUME SettingsInv, UNCHANGED settingsVars, left' \in Bounds
  PROVE  SettingsInv'
<1>1. UNCHANGED <<firmware, ctrl, mirror, caps, queue, answer, timer, unsure>>
  BY DEF settingsVars
<1>2. Report' = Report /\ Reported' = Reported /\ ReadBack' = ReadBack
  BY <1>1 DEF Report, Reported, ReadBack, QueueReads
<1>3. SettingsTyped'
  BY <1>1 DEF SettingsInv, SettingsTyped, MirrorTyped, QueueTyped
<1> QED
  BY <1>1, <1>2, <1>3 DEF SettingsInv, AnswerSound, MirrorSound

LEMMA FaultyFacts ==
  ASSUME left \in Bounds, Faulty
  PROVE  left' \in Bounds /\ damaged' = TRUE
  BY SpendFacts DEF Faulty, BoundNames

LEMMA FileFacts ==
  /\ FileTyped(NoFile) /\ FileTyped(Bad)
  /\ \A body : Json(body) => FileTyped(File(body))
  /\ \A body : File(body).state = "ok" /\ NoFile.state = "none" /\ Bad.state = "bad"
  /\ Json(Nothing)
<1>1. Json(Nothing)
  BY DEF Json, Nothing
<1> QED
  BY <1>1 DEF FileTyped, NoFile, Bad, File

LEMMA FilledFacts ==
  ASSUME MirrorTyped
  PROVE  Json(Filled)
  BY DEF Json, Filled, MirrorTyped

\* A file is written.
LEMMA WriteKeeps ==
  ASSUME StoreTyped, NEW i \in Ids, NEW c, FileTyped(c), files' = [files EXCEPT ![i] = c]
  PROVE  /\ files' = [j \in Ids |-> files'[j]] /\ \A j \in Ids : FileTyped(files'[j])
         /\ files'[i] = c /\ \A j \in Ids : j # i => files'[j] = files[j]
  BY DEF StoreTyped

\* A request goes on, or ends.
LEMMA RestTyped ==
  ASSUME op' = Rest
  PROVE  OpTyped'
  BY FileFacts, IdsFacts DEF OpTyped, Rest, Kinds, StepsOf

LEMMA GoesOn ==
  ASSUME OpTyped, op.kind # "none", NEW step \in StepsOf(op.kind), NEW new \in Ids,
         op' = [op EXCEPT !.step = step, !.new = new]
  PROVE  /\ OpTyped' /\ op'.kind = op.kind /\ op'.id = op.id /\ op'.step = step /\ op'.new = new
<1>1. /\ op'.kind = op.kind /\ op'.id = op.id /\ op'.step = step /\ op'.new = new
      /\ op'.body = op.body /\ op'.patch = op.patch
      /\ op' = [kind |-> op'.kind, step |-> op'.step, id |-> op'.id, new |-> op'.new,
                body |-> op'.body, patch |-> op'.patch]
  BY DEF OpTyped
<1> QED
  BY <1>1 DEF OpTyped

LEMMA StepsOn ==
  ASSUME OpTyped, op.kind # "none", NEW step \in StepsOf(op.kind), op' = [op EXCEPT !.step = step]
  PROVE  /\ OpTyped' /\ op'.kind = op.kind /\ op'.id = op.id /\ op'.step = step /\ op'.new = op.new
<1>1. op' = [op EXCEPT !.step = step, !.new = op.new] /\ op.new \in Ids
  BY DEF OpTyped
<1> QED
  BY <1>1, GoesOn

\* Every file is listed at rest, when a step that ends a request has lost none.
LEMMA RestKnown ==
  ASSUME op' = Rest, ~damaged' => \A i \in Ids : Exists(i)' => i \in Listed(meta'.list)
  PROVE  FilesKnown'
  BY DEF FilesKnown, Rest

LEMMA AskKeeps ==
  ASSUME Inv, NEW kind \in Kinds \ {"none", "boot"}, NEW i \in Ids, NEW body, Json(body),
         NEW patch \in BOOLEAN, Ask(kind, i, body, patch)
  PROVE  Inv'
<1>1. /\ op = Rest /\ Spend("requests")
      /\ op' = [kind |-> kind, step |-> 1, id |-> i, new |-> 0, body |-> body, patch |-> patch]
      /\ UNCHANGED <<settingsVars, files, meta, damaged, greeted>>
  BY DEF Ask, storeVars
<1>2. SettingsInv'
  BY <1>1, StoringKeeps, SpendFacts DEF Inv, SettingsInv, SettingsTyped, BoundNames
<1>3. OpTyped'
  BY <1>1, IdsFacts DEF OpTyped, Kinds, StepsOf
<1>4. StoreTyped' /\ FilesKnown'
  BY <1>1 DEF Inv, StoreInv, StoreTyped, FilesKnown, Writing, Rest, Kinds, Exists
<1> QED
  BY <1>2, <1>3, <1>4 DEF Inv, StoreInv

LEMMA CreateKeeps ==
  ASSUME Inv, Create \/ Copy \/ Save
  PROVE  Inv'
<1> DEFINE i == IF op.kind = "save" THEN op.id ELSE NewId
<1>1. /\ op.kind \in {"create", "copy", "save"} /\ op.step = 1 /\ i \in Ids
      /\ UNCHANGED <<settingsVars, greeted, meta>>
      /\ op.kind = "save" => i \in Listed(meta.list)
  BY DEF Create, Copy, Save, At, Storing, Inv, StoreInv, OpTyped
<1> DEFINE c == CASE op.kind = "create" -> File(IF op.patch THEN op.body ELSE Filled)
                  [] op.kind = "copy" -> files[op.id]
                  [] OTHER -> File(Filled)
<1>2. \/ WriteFile(i, c) /\ op' = [op EXCEPT !.step = 2, !.new = i]
      \/ \E d \in {files[i], NoFile, Bad} : Faulty /\ files' = [files EXCEPT ![i] = d] /\ op' = Rest
  BY DEF Create, Copy, Save, At, WriteFileFails
<1>3. FileTyped(c)
  <2>1. MirrorTyped /\ Json(op.body)
    BY DEF Inv, SettingsInv, SettingsTyped, StoreInv, OpTyped
  <2>2. op.id \in Ids /\ FileTyped(files[op.id])
    BY DEF Inv, StoreInv, OpTyped, StoreTyped
  <2>3. Json(Filled) /\ Json(IF op.patch THEN op.body ELSE Filled)
    BY <2>1, FilledFacts
  <2> QED
    BY <2>2, <2>3, FileFacts
<1> HIDE DEF i, c
<1>4. StoreTyped /\ left \in Bounds
  BY DEF Inv, StoreInv, SettingsInv, SettingsTyped
<1>5. ASSUME WriteFile(i, c), op' = [op EXCEPT !.step = 2, !.new = i]
      PROVE  Inv'
  <2>1. files' = [files EXCEPT ![i] = c] /\ UNCHANGED <<left, damaged>>
    BY <1>5 DEF WriteFile
  <2>2. SettingsInv'
    BY <1>1, <1>4, <2>1, StoringKeeps DEF Inv
  <2>3. StoreTyped'
    BY <1>1, <1>3, <1>4, <2>1, WriteKeeps DEF StoreTyped
  <2>4. OpTyped' /\ op'.kind = op.kind /\ op'.step = 2 /\ op'.new = i
    <3>1. 2 \in StepsOf(op.kind) /\ op.kind # "none" /\ OpTyped
      BY <1>1 DEF StepsOf, Inv, StoreInv
    <3> QED
      BY <1>1, <1>5, <3>1, GoesOn
  <2>5. FilesKnown'
    <3>1. op'.kind # "boot"
      BY <1>1, <2>4
    <3>2. ASSUME ~damaged', NEW j \in Ids, Exists(j)'
          PROVE  j \in Listed(meta'.list) \/ Writing(j)'
      <4>1. CASE j = i
        BY <1>1, <2>4, <4>1 DEF Writing
      <4>2. CASE j # i
        <5>1. Exists(j) /\ ~damaged /\ ~Writing(j)
          BY <1>1, <1>3, <1>4, <2>1, <3>2, <4>2, WriteKeeps DEF Exists, Writing
        <5> QED
          BY <1>1, <5>1 DEF Inv, StoreInv, FilesKnown
      <4> QED
        BY <4>1, <4>2
    <3> QED
      BY <3>1, <3>2 DEF FilesKnown
  <2> QED
    BY <2>2, <2>3, <2>4, <2>5 DEF Inv, StoreInv
<1>6. ASSUME NEW d \in {files[i], NoFile, Bad}, Faulty, files' = [files EXCEPT ![i] = d], op' = Rest
      PROVE  Inv'
  <2>1. left' \in Bounds /\ damaged' = TRUE
    BY <1>4, <1>6, FaultyFacts
  <2>2. SettingsInv'
    BY <1>1, <2>1, StoringKeeps DEF Inv
  <2>3. FileTyped(d)
    BY <1>1, <1>4, FileFacts DEF StoreTyped
  <2>4. StoreTyped'
    BY <1>1, <1>4, <1>6, <2>1, <2>3, WriteKeeps DEF StoreTyped
  <2> QED
    BY <1>6, <2>1, <2>2, <2>4, RestTyped, RestKnown DEF Inv, StoreInv
<1> QED
  BY <1>2, <1>5, <1>6

-----------------------------------------------------------------------------
(* The list after the file, and the file that goes.                        *)

Metas == [state: {"bad", "list"}, list: Seq(Entries)]

LEMMA MetaFacts ==
  /\ BadMeta \in Metas /\ BadMeta.list = << >>
  /\ \A list \in Seq(Entries) : Meta(list) \in Metas /\ Meta(list).list = list
  /\ << >> \in Seq(Entries) /\ Listed(<< >>) = {} /\ Marks(<< >>) = {}
<1>1. << >> \in Seq(Entries) /\ Listed(<< >>) = {} /\ Marks(<< >>) = {}
  BY DEF Listed, Marks
<1> QED
  BY <1>1 DEF Metas, BadMeta, Meta

\* After a write that failed, nothing is promised of the list.
LEMMA FailedKeeps ==
  ASSUME Inv, Storing, Faulty, meta' \in Metas,
         files' = [j \in Ids |-> files'[j]], \A j \in Ids : FileTyped(files'[j]),
         OpTyped', op'.kind = "boot" => op'.step = 5
  PROVE  Inv'
<1>1. left' \in Bounds /\ damaged' = TRUE
  BY FaultyFacts DEF Inv, SettingsInv, SettingsTyped
<1>2. SettingsInv'
  BY <1>1, StoringKeeps DEF Inv, Storing
<1>3. StoreTyped'
  BY <1>1 DEF StoreTyped, Storing, Metas, Inv, StoreInv
<1>4. FilesKnown'
  BY <1>1 DEF FilesKnown
<1> QED
  BY <1>2, <1>3, <1>4 DEF Inv, StoreInv

\* A write of the list, or a step that writes nothing.
LEMMA ListedKeeps ==
  ASSUME Inv, Storing, UNCHANGED <<left, files>>, meta' \in Metas, damaged' \in BOOLEAN,
         OpTyped', FilesKnown'
  PROVE  Inv'
<1>1. left \in Bounds
  BY DEF Inv, SettingsInv, SettingsTyped
<1>2. SettingsInv'
  BY <1>1, StoringKeeps DEF Inv, Storing
<1>3. StoreTyped'
  BY DEF StoreTyped, Storing, Metas, Inv, StoreInv
<1> QED
  BY <1>2, <1>3 DEF Inv, StoreInv

LEMMA MetaFails ==
  ASSUME Inv, Storing, WriteMetaFails, UNCHANGED files, OpTyped', op'.kind = "boot" => op'.step = 5
  PROVE  Inv'
<1>1. meta' \in Metas /\ Faulty
  BY MetaFacts DEF WriteMetaFails, Inv, StoreInv, StoreTyped, Metas
<1>2. files' = [j \in Ids |-> files'[j]] /\ \A j \in Ids : FileTyped(files'[j])
  BY DEF Inv, StoreInv, StoreTyped
<1> QED
  BY <1>1, <1>2, FailedKeeps

LEMMA ListKeeps ==
  ASSUME Inv, List
  PROVE  Inv'
<1>1. /\ op.kind \in {"create", "copy", "save"} /\ op.step = 2 /\ op' = Rest /\ Storing /\ UNCHANGED files
      /\ WriteMeta(Appended(meta, op.new)) \/ WriteMetaFails
  BY DEF List
<1>2. OpTyped' /\ op'.kind # "boot"
  BY <1>1, RestTyped DEF Rest
<1>3. CASE WriteMetaFails
  BY <1>1, <1>2, <1>3, MetaFails
<1>4. CASE WriteMeta(Appended(meta, op.new))
  <2>1. meta' = Appended(meta, op.new) /\ UNCHANGED <<left, damaged>>
    BY <1>4 DEF WriteMeta
  <2>2. meta \in Metas /\ op.new \in Ids /\ damaged \in BOOLEAN
    BY DEF Inv, StoreInv, StoreTyped, OpTyped, Metas
  <2>3. meta' \in Metas /\ Listed(meta'.list) = Listed(meta.list) \cup {op.new}
    BY <2>1, <2>2, AppendedFacts DEF Metas
  <2>4. ASSUME ~damaged', NEW i \in Ids, Exists(i)'
        PROVE  i \in Listed(meta'.list)
    <3>1. Exists(i) /\ ~damaged /\ op.kind # "boot"
      BY <1>1, <2>1, <2>4 DEF Exists
    <3>2. i \in Listed(meta.list) \/ Writing(i)
      BY <3>1 DEF Inv, StoreInv, FilesKnown
    <3> QED
      BY <2>3, <3>2 DEF Writing
  <2>5. FilesKnown'
    BY <1>1, <2>4, RestKnown
  <2> QED
    BY <1>1, <1>2, <2>1, <2>2, <2>3, <2>5, ListedKeeps
<1> QED
  BY <1>1, <1>3, <1>4

LEMMA DeleteKeeps ==
  ASSUME Inv, Delete
  PROVE  Inv'
<1>1. /\ op.kind = "delete" /\ op' = [op EXCEPT !.step = 2] /\ Storing /\ UNCHANGED <<meta, left, damaged>>
      /\ files' = [files EXCEPT ![op.id] = NoFile] /\ op.id \in Ids
  BY DEF Delete, At, Then, WriteFile, Inv, StoreInv, OpTyped
<1>2. OpTyped' /\ op'.kind = "delete"
  <2>1. 2 \in StepsOf(op.kind) /\ op.kind # "none" /\ OpTyped
    BY <1>1 DEF StepsOf, Inv, StoreInv
  <2> QED
    BY <1>1, <2>1, StepsOn
<1>3. StoreTyped /\ FileTyped(NoFile)
  BY FileFacts DEF Inv, StoreInv
<1>4. /\ files' = [j \in Ids |-> files'[j]] /\ \A j \in Ids : FileTyped(files'[j])
      /\ files'[op.id] = NoFile /\ \A j \in Ids : j # op.id => files'[j] = files[j]
  BY <1>1, <1>3, WriteKeeps
<1>5. SettingsInv'
  BY <1>1, StoringKeeps DEF Inv, Storing, SettingsInv, SettingsTyped
<1>6. StoreTyped'
  BY <1>1, <1>4 DEF Inv, StoreInv, StoreTyped, Storing
<1>7. FilesKnown'
  <2>1. ASSUME ~damaged', NEW i \in Ids, Exists(i)'
        PROVE  i \in Listed(meta'.list)
    <3>1. i # op.id /\ Exists(i) /\ ~damaged
      BY <1>1, <1>4, <2>1 DEF Exists, NoFile
    <3>2. i \in Listed(meta.list) \/ Writing(i)
      BY <1>1, <3>1 DEF Inv, StoreInv, FilesKnown
    <3> QED
      BY <1>1, <3>2 DEF Writing
  <2> QED
    BY <1>2, <2>1 DEF FilesKnown
<1> QED
  BY <1>2, <1>5, <1>6, <1>7 DEF Inv, StoreInv

\* The list without one profile.
LEMMA WithoutFacts ==
  ASSUME NEW l \in Seq(Entries), NEW i
  PROVE  LET new == Picked(l, {k \in DOMAIN l : l[k].id # i})
         IN  /\ new \in Seq(Entries) /\ Listed(new) = Listed(l) \ {i}
             /\ Marks(new) = Marks(l) \ {i}
<1> DEFINE keep == Ids \ {i}
           new == Picked(l, {k \in DOMAIN l : l[k].id # i})
           same == Picked(l, {k \in DOMAIN l : l[k].id \in keep})
<1>1. /\ Listed(l) \subseteq Ids /\ Marks(l) \subseteq Ids
      /\ \A k \in DOMAIN l : l[k].id \in Ids
  BY ListFacts
<1>2. new = same
  BY <1>1
<1>3. keep \in SUBSET Ids
  OBVIOUS
<1>4. /\ same \in Seq(Entries) /\ Listed(same) = Listed(l) \cap keep
      /\ Marks(same) = Marks(l) \cap keep
  <2> HIDE DEF keep
  <2> QED
    BY <1>3, PickedList
<1> HIDE DEF new, same
<1>5. /\ new \in Seq(Entries) /\ Listed(new) = Listed(l) \ {i}
      /\ Marks(new) = Marks(l) \ {i}
  BY <1>1, <1>2, <1>4
<1> QED
  BY <1>5 DEF new

LEMMA UnlistKeeps ==
  ASSUME Inv, Unlist
  PROVE  Inv'
<1> DEFINE list == Picked(meta.list, {k \in DOMAIN meta.list : meta.list[k].id # op.id})
<1>1. /\ op.kind = "delete" /\ ~Exists(op.id) /\ op' = Rest /\ Storing /\ UNCHANGED files
      /\ WriteMeta(Meta(list)) \/ WriteMetaFails
  BY DEF Unlist
<1>2. OpTyped' /\ op'.kind # "boot"
  BY <1>1, RestTyped DEF Rest
<1>3. CASE WriteMetaFails
  BY <1>1, <1>2, <1>3, MetaFails
<1>4. CASE WriteMeta(Meta(list))
  <2>1. list \in Seq(Entries) /\ Listed(list) = Listed(meta.list) \ {op.id}
    BY WithoutFacts DEF Inv, StoreInv, StoreTyped
  <2> HIDE DEF list
  <2>2. meta' = Meta(list) /\ UNCHANGED <<left, damaged>>
    BY <1>4 DEF WriteMeta
  <2>3. meta' \in Metas /\ meta'.list = list /\ damaged' \in BOOLEAN
    BY <2>1, <2>2, MetaFacts DEF Inv, StoreInv, StoreTyped
  <2>4. ASSUME ~damaged', NEW i \in Ids, Exists(i)'
        PROVE  i \in Listed(meta'.list)
    <3>1. Exists(i) /\ ~damaged /\ op.kind # "boot" /\ i # op.id
      BY <1>1, <2>2, <2>4 DEF Exists
    <3>2. i \in Listed(meta.list) \/ Writing(i)
      BY <3>1 DEF Inv, StoreInv, FilesKnown
    <3> QED
      BY <1>1, <2>1, <2>3, <3>1, <3>2 DEF Writing
  <2>5. FilesKnown'
    BY <1>1, <2>4, RestKnown
  <2> QED
    BY <1>1, <1>2, <2>2, <2>3, <2>5, ListedKeeps
<1> QED
  BY <1>1, <1>3, <1>4

-----------------------------------------------------------------------------
(* A name, the mark, the content.                                          *)

\* A list with the same profiles, and the operation goes on or ends.
LEMMA SameListed ==
  ASSUME Inv, op.kind \notin {"none", "boot", "create", "copy"}, op'.kind # "boot",
         UNCHANGED <<files, damaged>>, Listed(meta'.list) = Listed(meta.list)
  PROVE  FilesKnown'
<1>1. ASSUME ~damaged', NEW i \in Ids, Exists(i)'
      PROVE  i \in Listed(meta'.list)
  <2>1. Exists(i) /\ ~damaged
    BY <1>1 DEF Exists
  <2>2. i \in Listed(meta.list) \/ Writing(i)
    BY <2>1 DEF Inv, StoreInv, FilesKnown
  <2> QED
    BY <2>2 DEF Writing
<1> QED
  BY <1>1 DEF FilesKnown

LEMMA RenameKeeps ==
  ASSUME Inv, Rename
  PROVE  Inv'
<1>1. /\ op.kind = "rename" /\ Storing /\ UNCHANGED files
      /\ \/ WriteMeta(meta) /\ op' = [op EXCEPT !.step = 2]
         \/ WriteMetaFails /\ op' = Rest
  BY DEF Rename, At, Then
<1>2. CASE WriteMetaFails /\ op' = Rest
  BY <1>1, <1>2, RestTyped, MetaFails DEF Rest
<1>3. CASE WriteMeta(meta) /\ op' = [op EXCEPT !.step = 2]
  <2>1. OpTyped' /\ op'.kind = "rename"
    <3>1. 2 \in StepsOf(op.kind) /\ op.kind # "none" /\ OpTyped
      BY <1>1 DEF StepsOf, Inv, StoreInv
    <3> QED
      BY <1>1, <1>3, <3>1, StepsOn
  <2>2. UNCHANGED <<meta, left, damaged>> /\ meta' \in Metas /\ damaged' \in BOOLEAN
    BY <1>3 DEF WriteMeta, Inv, StoreInv, StoreTyped, Metas
  <2>3. FilesKnown'
    BY <1>1, <2>1, <2>2, SameListed
  <2> QED
    BY <1>1, <2>1, <2>2, <2>3, ListedKeeps
<1> QED
  BY <1>1, <1>2, <1>3

LEMMA RenameFileKeeps ==
  ASSUME Inv, RenameFile
  PROVE  Inv'
<1>1. /\ op.kind = "rename" /\ op' = Rest /\ Storing /\ UNCHANGED meta /\ OpTyped' /\ op'.kind # "boot"
      /\ op.id \in Ids /\ meta' \in Metas
  BY RestTyped DEF RenameFile, At, Rest, Inv, StoreInv, OpTyped, StoreTyped, Metas
<1>2. CASE WriteFileFails(op.id, {files[op.id], Bad})
  <2>1. PICK d \in {files[op.id], Bad} : Faulty /\ files' = [files EXCEPT ![op.id] = d]
    BY <1>2 DEF WriteFileFails
  <2>2. FileTyped(d) /\ StoreTyped
    BY <1>1, FileFacts DEF Inv, StoreInv, StoreTyped
  <2>3. files' = [j \in Ids |-> files'[j]] /\ \A j \in Ids : FileTyped(files'[j])
    BY <1>1, <2>1, <2>2, WriteKeeps
  <2> QED
    BY <1>1, <2>1, <2>3, FailedKeeps
<1>3. CASE UNCHANGED <<files, left, damaged>>
  <2>1. FilesKnown' /\ damaged' \in BOOLEAN
    BY <1>1, <1>3, SameListed DEF Inv, StoreInv, StoreTyped
  <2> QED
    BY <1>1, <1>3, <2>1, ListedKeeps
<1> QED
  BY <1>2, <1>3 DEF RenameFile

\* The list with the mark on one profile alone.
LEMMA ActivatedFacts ==
  ASSUME NEW list \in Seq(Entries), NEW i \in Listed(list)
  PROVE  LET new == [k \in 1..Len(list) |-> Entry(list[k].id, list[k].id = i)]
         IN  new \in Seq(Entries) /\ Listed(new) = Listed(list) /\ Marks(new) = {i}
<1> DEFINE new == [k \in 1..Len(list) |-> Entry(list[k].id, list[k].id = i)]
<1>1. \A k \in 1..Len(list) : new[k].id = list[k].id /\ new[k].on = (list[k].id = i) /\ new[k] \in Entries
  <2> TAKE k \in 1..Len(list)
  <2>1. list[k].id \in Ids /\ (list[k].id = i) \in BOOLEAN
    BY ListFacts
  <2>2. new[k] = Entry(list[k].id, list[k].id = i)
    BY Zenon
  <2> DEFINE b == list[k].id = i
  <2> HIDE DEF b, new
  <2>3. Entry(list[k].id, b).id = list[k].id /\ Entry(list[k].id, b).on = b
    BY DEF Entry
  <2>4. Entry(list[k].id, b) \in Entries
    BY <2>1 DEF Entry, Entries, b
  <2> QED
    BY <2>2, <2>3, <2>4 DEF b
<1>2. new = [k \in 1..Len(list) |-> new[k]]
  OBVIOUS
<1> HIDE DEF new
<1>3. /\ new \in Seq(Entries) /\ Listed(new) = Listed(list)
      /\ \A j : j \in Marks(new) <=> \E k \in 1..Len(list) : list[k].id = j /\ new[k].on
  BY <1>1, <1>2, RemarkedFacts
<1>4. \A j : j \in Marks(new) <=> j = i
  <2>1. \A j : j \in Listed(list) <=> \E k \in 1..Len(list) : list[k].id = j
    BY ListMembers
  <2>2. \A k \in 1..Len(list) : new[k].on <=> list[k].id = i
    BY <1>1
  <2>3. \E k \in 1..Len(list) : list[k].id = i
    BY <2>1
  <2> QED
    BY <1>3, <2>2, <2>3
<1>5. Marks(new) = {i}
  BY <1>4
<1> QED
  BY <1>3, <1>5 DEF new

LEMMA ActivateKeeps ==
  ASSUME Inv, Activate
  PROVE  Inv'
<1> DEFINE new == [k \in 1..Len(meta.list) |-> Entry(meta.list[k].id, meta.list[k].id = op.id)]
<1>1. /\ op.kind = "activate" /\ op.id \in Listed(meta.list) /\ Storing /\ UNCHANGED files
      /\ \/ WriteMeta(Meta(new)) /\ op' = [op EXCEPT !.step = 2]
         \/ WriteMetaFails /\ op' = Rest
  BY DEF Activate, At, Then
<1>2. CASE WriteMetaFails /\ op' = Rest
  BY <1>1, <1>2, RestTyped, MetaFails DEF Rest
<1>3. CASE WriteMeta(Meta(new)) /\ op' = [op EXCEPT !.step = 2]
  <2>1. OpTyped' /\ op'.kind = "activate"
    <3>1. 2 \in StepsOf(op.kind) /\ op.kind # "none" /\ OpTyped
      BY <1>1 DEF StepsOf, Inv, StoreInv
    <3> QED
      BY <1>1, <1>3, <3>1, StepsOn
  <2>2. meta.list \in Seq(Entries) /\ damaged \in BOOLEAN
    BY DEF Inv, StoreInv, StoreTyped
  <2>3. new \in Seq(Entries) /\ Listed(new) = Listed(meta.list)
    BY <1>1, <2>2, ActivatedFacts
  <2> HIDE DEF new
  <2>4. meta' = Meta(new) /\ UNCHANGED <<left, damaged>>
    BY <1>3 DEF WriteMeta
  <2>5. meta' \in Metas /\ meta'.list = new
    BY <2>3, <2>4, MetaFacts
  <2>6. FilesKnown'
    BY <1>1, <2>1, <2>3, <2>4, <2>5, SameListed
  <2> QED
    BY <1>1, <2>1, <2>2, <2>4, <2>5, <2>6, ListedKeeps
<1> QED
  BY <1>1, <1>2, <1>3

\* A file whose settings are replaced, or removed.
LEMMA PatchedFacts ==
  ASSUME NEW file, FileTyped(file), file.state = "ok", op.patch \in BOOLEAN, Json(op.body)
  PROVE  FileTyped(Patched(file)) /\ Patched(file).state = "ok"
<1> DEFINE d == [state |-> "ok", has |-> op.patch, json |-> op.body]
<1>1. file = [state |-> file.state, has |-> file.has, json |-> file.json]
  BY DEF FileTyped
<1>4. Patched(file) = [file EXCEPT !.has = op.patch, !.json = op.body]
  BY DEF Patched
<1>2. Patched(file) = d
  BY <1>1, <1>4
<1>3. FileTyped(d) /\ d.state = "ok"
  BY DEF FileTyped
<1> QED
  BY <1>2, <1>3

LEMMA ContentKeeps ==
  ASSUME Inv, Content
  PROVE  Inv'
<1> DEFINE c == Patched(files[op.id])
<1>1. /\ op.kind = "content" /\ Storing /\ UNCHANGED meta /\ files[op.id].state = "ok"
      /\ \/ WriteFile(op.id, c) /\ op' = Then(IF op.id \in Active(meta) THEN 2 ELSE 4)
         \/ WriteFileFails(op.id, {files[op.id], Bad}) /\ op' = Rest
  BY DEF Content, At, Unpatched
<1>2. /\ op.id \in Ids /\ meta' \in Metas /\ StoreTyped /\ OpTyped /\ left \in Bounds
      /\ op.patch \in BOOLEAN /\ Json(op.body)
  BY <1>1 DEF Inv, StoreInv, OpTyped, StoreTyped, Metas, SettingsInv, SettingsTyped
<1>3. FileTyped(files[op.id])
  BY <1>2 DEF StoreTyped
<1>4. FileTyped(c) /\ c.state = "ok"
  BY <1>1, <1>2, <1>3, PatchedFacts
<1> HIDE DEF c
<1>5. CASE WriteFileFails(op.id, {files[op.id], Bad}) /\ op' = Rest
  <2>1. PICK d \in {files[op.id], Bad} : Faulty /\ files' = [files EXCEPT ![op.id] = d]
    BY <1>5 DEF WriteFileFails
  <2>2. FileTyped(d)
    BY <1>3, FileFacts
  <2>3. files' = [j \in Ids |-> files'[j]] /\ \A j \in Ids : FileTyped(files'[j])
    BY <1>2, <2>1, <2>2, WriteKeeps
  <2>4. OpTyped' /\ op'.kind # "boot"
    BY <1>5, RestTyped DEF Rest
  <2> QED
    BY <1>1, <1>2, <2>1, <2>3, <2>4, FailedKeeps
<1>6. CASE WriteFile(op.id, c) /\ op' = Then(IF op.id \in Active(meta) THEN 2 ELSE 4)
  <2>1. files' = [files EXCEPT ![op.id] = c] /\ UNCHANGED <<left, damaged>>
    BY <1>6 DEF WriteFile
  <2>2. OpTyped' /\ op'.kind = "content"
    <3> DEFINE step == IF op.id \in Active(meta) THEN 2 ELSE 4
    <3>1. step \in StepsOf(op.kind) /\ op.kind # "none"
      BY <1>1 DEF StepsOf
    <3>2. op' = [op EXCEPT !.step = step]
      BY <1>6 DEF Then
    <3> HIDE DEF step
    <3> QED
      BY <1>1, <1>2, <3>1, <3>2, StepsOn
  <2>3. /\ files' = [j \in Ids |-> files'[j]] /\ \A j \in Ids : FileTyped(files'[j])
        /\ files'[op.id] = c /\ \A j \in Ids : j # op.id => files'[j] = files[j]
    BY <1>2, <1>4, <2>1, WriteKeeps
  <2>4. StoreTyped'
    BY <1>1, <1>2, <2>1, <2>3 DEF StoreTyped, Storing
  <2>5. SettingsInv'
    BY <1>1, <1>2, <2>1, StoringKeeps DEF Inv, Storing
  <2>6. ASSUME ~damaged', NEW i \in Ids, Exists(i)'
        PROVE  i \in Listed(meta'.list)
    <3>1. Exists(i) /\ ~damaged
      BY <1>1, <2>1, <2>3, <2>6 DEF Exists
    <3>2. i \in Listed(meta.list) \/ Writing(i)
      BY <1>1, <3>1 DEF Inv, StoreInv, FilesKnown
    <3> QED
      BY <1>1, <3>2 DEF Writing
  <2>7. FilesKnown'
    BY <2>2, <2>6 DEF FilesKnown
  <2> QED
    BY <2>2, <2>4, <2>5, <2>7 DEF Inv, StoreInv
<1> QED
  BY <1>1, <1>5, <1>6

LEMMA ReplyKeeps ==
  ASSUME Inv, Reply
  PROVE  Inv'
<1>1. /\ op' = Rest /\ UNCHANGED <<settingsVars, left, files, meta, damaged, greeted>> /\ Ended
  BY DEF Reply, storeVars
<1>2. op.kind # "boot" /\ \A i : ~Writing(i)
  BY <1>1 DEF Ended, At, Writing
<1>3. OpTyped' /\ SettingsInv' /\ StoreTyped'
  BY <1>1, RestTyped, StoringKeeps DEF Inv, StoreInv, StoreTyped, SettingsInv, SettingsTyped
<1>4. ASSUME ~damaged', NEW i \in Ids, Exists(i)'
      PROVE  i \in Listed(meta'.list)
  <2>1. Exists(i) /\ ~damaged
    BY <1>1, <1>4 DEF Exists
  <2> QED
    BY <1>1, <1>2, <2>1 DEF Inv, StoreInv, FilesKnown
<1> QED
  BY <1>1, <1>3, <1>4, RestKnown DEF Inv, StoreInv

-----------------------------------------------------------------------------
(* Profiles that are applied, and the start.                               *)

Applying == {"boot", "activate", "content"}

\* Profiles are applied after the list is in order.
LEMMA ApplyKnown ==
  ASSUME Inv, op.kind \in Applying, op.kind = "boot" => op.step \in {5, 6},
         UNCHANGED <<files, meta, damaged>>,
         \/ op' = Rest
         \/ op'.kind = op.kind /\ op'.step \in {3, 6} /\ (op.kind = "boot" => op'.step = 6)
  PROVE  FilesKnown'
<1>1. ASSUME ~damaged', NEW i \in Ids, Exists(i)'
      PROVE  i \in Listed(meta'.list)
  <2>1. Exists(i) /\ ~damaged
    BY <1>1 DEF Exists
  <2>2. i \in Listed(meta.list) \/ Writing(i)
    BY <2>1 DEF Inv, StoreInv, FilesKnown
  <2> QED
    BY <2>2 DEF Writing, Applying
<1> QED
  BY <1>1 DEF FilesKnown, Rest

LEMMA ApplySendKeeps ==
  ASSUME Inv, ApplySend
  PROVE  Inv'
<1>1. /\ op.kind \in Applying /\ op.step = ApplyStep /\ MirrorWritten
      /\ UNCHANGED <<firmware, ctrl, caps, answer, timer, left, files, meta, damaged, greeted>>
  BY DEF ApplySend, Applying, storeVars
<1>2. PICK i \in Applied :
          /\ ApplySettingsToController(files[i].json)
          /\ op' = [op EXCEPT !.step = @ + 1, !.body = files[i].json,
                             !.id = IF op.kind = "boot" THEN 0 ELSE @]
  BY DEF ApplySend
<1>3. /\ StoreTyped /\ OpTyped /\ SettingsInv /\ SettingsTyped /\ left \in Bounds
  BY DEF Inv, StoreInv, SettingsInv, SettingsTyped
<1>4. i \in Ids
  <2>1. CASE op.kind = "boot"
    <3>1. meta.list \in Seq(Entries)
      BY <1>3 DEF StoreTyped
    <3>2. Active(meta) \subseteq Ids
      BY <3>1, ActiveFacts, ListFacts
    <3> QED
      BY <1>2, <2>1, <3>2 DEF Applied
  <2>2. CASE op.kind # "boot"
    BY <1>2, <1>3, <2>2 DEF Applied, OpTyped
  <2> QED
    BY <2>1, <2>2
<1> DEFINE json == files[i].json
<1>5. Json(json)
  BY <1>3, <1>4 DEF StoreTyped, FileTyped
<1>12. op' = [op EXCEPT !.step = @ + 1, !.body = json, !.id = IF op.kind = "boot" THEN 0 ELSE @]
  BY <1>2
<1>13. ApplySettingsToController(json)
  BY <1>2
<1> HIDE DEF json
<1>6. SettingsInv'
  <2>1. MirrorTyped /\ QueueTyped /\ caps.tails \in BOOLEAN
    BY <1>3 DEF SettingsTyped
  <2>2. MirrorTyped' /\ QueueTyped' /\ Extends(queue, queue')
    BY <1>5, <1>13, <2>1, ApplyFacts
  <2> QED
    BY <1>1, <1>3, <2>2, WritesKeep
<1>7. StoreTyped'
  BY <1>1, <1>3 DEF StoreTyped
<1>8. /\ op'.kind = op.kind /\ op'.step = ApplyStep + 1 /\ op'.id = (IF op.kind = "boot" THEN 0 ELSE op.id)
      /\ op'.new = op.new /\ op'.body = json /\ op'.patch = op.patch
      /\ op' = [kind |-> op'.kind, step |-> op'.step, id |-> op'.id, new |-> op'.new,
                body |-> op'.body, patch |-> op'.patch]
  BY <1>1, <1>3, <1>12 DEF OpTyped
<1>9. op'.step \in StepsOf(op.kind) /\ op'.step \in {3, 6} /\ (op.kind = "boot" => op'.step = 6 /\ op.step = 5)
  BY <1>1, <1>8 DEF ApplyStep, StepsOf, Applying
<1>10. OpTyped'
  <2>1. op'.id \in Ids /\ (op.kind = "boot" => op'.id = 0) /\ op.kind # "none"
    BY <1>1, <1>3, <1>8, IdsFacts DEF OpTyped, Applying
  <2> QED
    BY <1>3, <1>5, <1>8, <1>9, <2>1 DEF OpTyped
<1>11. FilesKnown'
  BY <1>1, <1>8, <1>9, ApplyKnown
<1> QED
  BY <1>6, <1>7, <1>10, <1>11 DEF Inv, StoreInv

LEMMA ApplyStateKeeps ==
  ASSUME Inv, ApplyState
  PROVE  Inv'
<1>1. /\ op.kind \in Applying /\ op.step = ApplyStep + 1 /\ MirrorWritten /\ mirror' = Updated(op.body)
      /\ op' = Rest
      /\ UNCHANGED <<firmware, ctrl, caps, queue, answer, timer, left, files, meta, damaged, greeted>>
  BY DEF ApplyState, Applying, storeVars
<1>2. SettingsInv'
  <2>1. MirrorTyped /\ QueueTyped /\ Json(op.body) /\ left \in Bounds
    BY DEF Inv, SettingsInv, SettingsTyped, StoreInv, OpTyped
  <2>2. MirrorTyped'
    BY <1>1, <2>1, UpdatedFacts DEF MirrorTyped
  <2>3. QueueTyped' /\ Extends(queue, queue')
    BY <1>1, <2>1 DEF QueueTyped, Extends
  <2> QED
    BY <1>1, <2>1, <2>2, <2>3, WritesKeep DEF Inv
<1>3. op.kind = "boot" => op.step = 6
  <2>1. op.kind = "boot" => ApplyStep = 5
    BY DEF ApplyStep
  <2> QED
    BY <1>1, <2>1
<1>4. StoreTyped' /\ OpTyped'
  BY <1>1, RestTyped DEF Inv, StoreInv, StoreTyped
<1>5. FilesKnown'
  BY <1>1, <1>3, ApplyKnown
<1> QED
  BY <1>2, <1>4, <1>5 DEF Inv, StoreInv

LEMMA ApplyNothingKeeps ==
  ASSUME Inv, ApplyNothing
  PROVE  Inv'
<1>1. /\ op.kind \in Applying /\ op.step = ApplyStep /\ op' = Rest
      /\ UNCHANGED <<settingsVars, left, files, meta, damaged, greeted>>
  BY DEF ApplyNothing, Applying, storeVars
<1>2. SettingsInv'
  BY <1>1, StoringKeeps DEF Inv, SettingsInv, SettingsTyped
<1>3. op.kind = "boot" => op.step = 5
  BY <1>1 DEF ApplyStep
<1>4. StoreTyped' /\ OpTyped'
  BY <1>1, RestTyped DEF Inv, StoreInv, StoreTyped
<1>5. FilesKnown'
  BY <1>1, <1>3, ApplyKnown
<1> QED
  BY <1>2, <1>4, <1>5 DEF Inv, StoreInv

\* The start goes on.
LEMMA BootsOn ==
  ASSUME Inv, op.kind = "boot", NEW step \in {2, 3, 5}, op' = Then(step)
  PROVE  OpTyped' /\ op'.kind = "boot" /\ op'.step = step
<1>1. step \in StepsOf(op.kind) /\ op.kind # "none" /\ OpTyped /\ op' = [op EXCEPT !.step = step]
  BY DEF StepsOf, Inv, StoreInv, Then
<1> QED
  BY <1>1, StepsOn

LEMMA BootListKeeps ==
  ASSUME Inv, BootList
  PROVE  Inv'
<1>1. /\ op.kind = "boot" /\ op' = Then(5) /\ Storing /\ UNCHANGED files
      /\ \/ meta' = Meta(Mended) /\ UNCHANGED left /\ damaged' = FALSE
         \/ WriteMetaFails
  BY DEF BootList, At
<1>2. OpTyped' /\ op'.kind = "boot" /\ op'.step = 5
  BY <1>1, BootsOn
<1>3. CASE WriteMetaFails
  BY <1>1, <1>2, <1>3, MetaFails
<1>4. CASE meta' = Meta(Mended) /\ UNCHANGED left /\ damaged' = FALSE
  <2>1. StoreTyped
    BY DEF Inv, StoreInv
  <2>2. Mended \in Seq(Entries) /\ Listed(Mended) = {i \in Ids : Exists(i)}
    BY <2>1, MendedFacts
  <2>3. meta' \in Metas /\ meta'.list = Mended
    BY <1>4, <2>2, MetaFacts
  <2>4. \A i \in Ids : Exists(i)' => i \in Listed(meta'.list)
    BY <1>1, <2>2, <2>3 DEF Exists
  <2>5. FilesKnown'
    BY <1>2, <2>4 DEF FilesKnown
  <2> QED
    BY <1>1, <1>2, <1>4, <2>3, <2>5, ListedKeeps
<1> QED
  BY <1>1, <1>3, <1>4

\* A start that finds no file.
LEMMA NothingFound ==
  ASSUME StoreTyped, Repaired = << >>
  PROVE  \A i \in Ids : ~Exists(i)
<1>1. Listed(Repaired) = {i \in Ids : Exists(i)}
  BY MendedFacts
<1>2. Listed(Repaired) = {}
  BY MetaFacts
<1> QED
  BY <1>1, <1>2

LEMMA BootFoundKeeps ==
  ASSUME Inv, BootFound
  PROVE  Inv'
<1>1. /\ op.kind = "boot" /\ Repaired = << >> /\ Storing
      /\ \/ WriteFile(0, File(Filled)) /\ op' = Then(2) /\ UNCHANGED meta
         \/ WriteFileFails(0, {NoFile, Bad}) /\ op' = Then(5) /\ meta' = Meta(<< >>)
  BY DEF BootFound, At
<1>2. StoreTyped /\ 0 \in Ids /\ MirrorTyped /\ left \in Bounds
  BY IdsFacts DEF Inv, StoreInv, SettingsInv, SettingsTyped
<1>3. CASE WriteFile(0, File(Filled)) /\ op' = Then(2) /\ UNCHANGED meta
  <2>1. files' = [files EXCEPT ![0] = File(Filled)] /\ UNCHANGED <<left, damaged>>
    BY <1>3 DEF WriteFile
  <2>2. FileTyped(File(Filled))
    BY <1>2, FilledFacts, FileFacts
  <2>3. /\ files' = [j \in Ids |-> files'[j]] /\ \A j \in Ids : FileTyped(files'[j])
        /\ \A j \in Ids : j # 0 => files'[j] = files[j]
    BY <1>2, <2>1, <2>2, WriteKeeps
  <2>4. OpTyped' /\ op'.kind = "boot" /\ op'.step = 2
    BY <1>1, <1>3, BootsOn
  <2>5. StoreTyped'
    BY <1>1, <1>2, <1>3, <2>1, <2>3 DEF StoreTyped, Storing
  <2>6. SettingsInv'
    BY <1>1, <1>2, <2>1, StoringKeeps DEF Inv, Storing
  <2>7. \A i \in Ids : Exists(i)' => i = 0
    BY <1>1, <1>2, <2>3, NothingFound DEF Exists
  <2>8. FilesKnown'
    BY <2>4, <2>7 DEF FilesKnown
  <2> QED
    BY <2>4, <2>5, <2>6, <2>8 DEF Inv, StoreInv
<1>4. CASE WriteFileFails(0, {NoFile, Bad}) /\ op' = Then(5) /\ meta' = Meta(<< >>)
  <2>1. PICK d \in {NoFile, Bad} : Faulty /\ files' = [files EXCEPT ![0] = d]
    BY <1>4 DEF WriteFileFails
  <2>2. FileTyped(d)
    BY FileFacts
  <2>3. files' = [j \in Ids |-> files'[j]] /\ \A j \in Ids : FileTyped(files'[j])
    BY <1>2, <2>1, <2>2, WriteKeeps
  <2>4. OpTyped' /\ op'.kind = "boot" /\ op'.step = 5
    BY <1>1, <1>4, BootsOn
  <2>5. meta' \in Metas
    BY <1>4, MetaFacts
  <2> QED
    BY <1>1, <2>1, <2>3, <2>4, <2>5, FailedKeeps
<1> QED
  BY <1>1, <1>3, <1>4

LEMMA BootFoundListKeeps ==
  ASSUME Inv, BootFoundList
  PROVE  Inv'
<1>1. /\ op.kind = "boot" /\ op.step = 2 /\ Storing /\ UNCHANGED files
      /\ \/ WriteMeta(Appended(meta, 0)) /\ op' = Then(3)
         \/ Faulty /\ meta' \in {meta, BadMeta, Meta(<< >>)} /\ op' = Then(5)
  BY DEF BootFoundList, At
<1>2. meta \in Metas /\ 0 \in Ids /\ damaged \in BOOLEAN
  BY IdsFacts DEF Inv, StoreInv, StoreTyped, Metas
<1>3. CASE WriteMeta(Appended(meta, 0)) /\ op' = Then(3)
  <2>1. OpTyped' /\ op'.kind = "boot" /\ op'.step = 3
    BY <1>1, <1>3, BootsOn
  <2>2. meta' = Appended(meta, 0) /\ UNCHANGED <<left, damaged>>
    BY <1>3 DEF WriteMeta
  <2>3. meta' \in Metas /\ Listed(meta'.list) = Listed(meta.list) \cup {0}
    BY <1>2, <2>2, AppendedFacts DEF Metas
  <2>4. \A i \in Ids : Exists(i)' => i = 0
    BY <1>1 DEF Inv, StoreInv, FilesKnown, Exists
  <2>5. FilesKnown'
    BY <2>1, <2>3, <2>4 DEF FilesKnown
  <2> QED
    BY <1>1, <1>2, <2>1, <2>2, <2>3, <2>5, ListedKeeps
<1>4. CASE Faulty /\ meta' \in {meta, BadMeta, Meta(<< >>)} /\ op' = Then(5)
  <2>1. OpTyped' /\ op'.kind = "boot" /\ op'.step = 5
    BY <1>1, <1>4, BootsOn
  <2>2. meta' \in Metas
    BY <1>2, <1>4, MetaFacts
  <2>3. files' = [j \in Ids |-> files'[j]] /\ \A j \in Ids : FileTyped(files'[j])
    BY <1>1 DEF Inv, StoreInv, StoreTyped
  <2> QED
    BY <1>1, <1>4, <2>1, <2>2, <2>3, FailedKeeps
<1> QED
  BY <1>1, <1>3, <1>4

\* The first profile gets the mark: the list keeps its profiles, and its marks but for that one.
LEMMA FirstMarkedFacts ==
  ASSUME NEW m \in Metas
  PROVE  LET new == [m EXCEPT !.list = [k \in DOMAIN @ |-> Entry(@[k].id, @[k].on \/ @[k].id = 0)]]
         IN  /\ new \in Metas /\ Listed(new.list) = Listed(m.list)
             /\ Marks(new.list) = Marks(m.list) \cup ({0} \cap Listed(m.list))
<1> DEFINE list == m.list
           new == [k \in 1..Len(list) |-> Entry(list[k].id, list[k].on \/ list[k].id = 0)]
<1>1. list \in Seq(Entries) /\ DOMAIN list = 1..Len(list)
  BY LenProperties DEF Metas
<1>2. [m EXCEPT !.list = [k \in DOMAIN @ |-> Entry(@[k].id, @[k].on \/ @[k].id = 0)]] = [m EXCEPT !.list = new]
  BY <1>1
<1>3. \A k \in 1..Len(list) : /\ new[k].id = list[k].id /\ new[k] \in Entries
                              /\ new[k].on <=> list[k].on \/ list[k].id = 0
  <2> TAKE k \in 1..Len(list)
  <2> DEFINE b == list[k].on \/ list[k].id = 0
  <2>1. list[k].id \in Ids /\ b \in BOOLEAN
    BY <1>1, ListFacts
  <2>2. new[k] = Entry(list[k].id, b)
    BY Zenon
  <2> HIDE DEF b, new
  <2>3. Entry(list[k].id, b).id = list[k].id /\ Entry(list[k].id, b).on = b
    BY DEF Entry
  <2>4. Entry(list[k].id, b) \in Entries
    BY <2>1 DEF Entry, Entries
  <2> QED
    BY <2>2, <2>3, <2>4 DEF b
<1>4. new = [k \in 1..Len(list) |-> new[k]]
  OBVIOUS
<1> HIDE DEF new, list
<1>9. \A k \in 1..Len(list) : new[k].id = list[k].id /\ new[k] \in Entries
  BY <1>3
<1>5. /\ new \in Seq(Entries) /\ Listed(new) = Listed(list)
      /\ \A j : j \in Marks(new) <=> \E k \in 1..Len(list) : list[k].id = j /\ new[k].on
  BY <1>1, <1>4, <1>9, RemarkedFacts
<1>6. \A j : j \in Marks(new) <=> j \in Marks(list) \/ (j = 0 /\ j \in Listed(list))
  <2>1. \A j : j \in Listed(list) <=> \E k \in 1..Len(list) : list[k].id = j
    BY <1>1, ListMembers
  <2>2. \A j : j \in Marks(list) <=> \E k \in 1..Len(list) : list[k].id = j /\ list[k].on
    BY <1>1, ListMembers
  <2> QED
    BY <1>3, <1>5, <2>1, <2>2
<1>7. Marks(new) = Marks(list) \cup ({0} \cap Listed(list))
  BY <1>6
<1>8. [m EXCEPT !.list = new] \in Metas /\ [m EXCEPT !.list = new].list = new
  BY <1>5 DEF Metas
<1> QED
  BY <1>2, <1>5, <1>7, <1>8 DEF list

LEMMA BootFoundMarkKeeps ==
  ASSUME Inv, BootFoundMark
  PROVE  Inv'
<1> DEFINE new == [meta EXCEPT !.list = [k \in DOMAIN @ |-> Entry(@[k].id, @[k].on \/ @[k].id = 0)]]
<1>1. /\ op.kind = "boot" /\ op.step = 3 /\ op' = Then(5) /\ Storing /\ UNCHANGED files
      /\ \/ meta' = new /\ damaged' = FALSE /\ UNCHANGED left
         \/ WriteMetaFails
  BY DEF BootFoundMark, At
<1>2. OpTyped' /\ op'.kind = "boot" /\ op'.step = 5
  BY <1>1, BootsOn
<1>3. CASE WriteMetaFails
  BY <1>1, <1>2, <1>3, MetaFails
<1>4. CASE meta' = new /\ damaged' = FALSE /\ UNCHANGED left
  <2>1. meta \in Metas
    BY DEF Inv, StoreInv, StoreTyped, Metas
  <2>2. new \in Metas /\ Listed(new.list) = Listed(meta.list)
    BY <2>1, FirstMarkedFacts
  <2> HIDE DEF new
  <2>3. 0 \in Listed(meta'.list) /\ \A i \in Ids : Exists(i)' => i = 0
    BY <1>1, <1>4, <2>2 DEF Inv, StoreInv, FilesKnown, Exists
  <2>4. FilesKnown'
    BY <1>2, <2>3 DEF FilesKnown
  <2> QED
    BY <1>1, <1>2, <1>4, <2>2, <2>4, ListedKeeps
<1> QED
  BY <1>1, <1>3, <1>4

-----------------------------------------------------------------------------
(* Whatever happens; the invariant and what it implies.                    *)

\* What leaves the store and the operation alone.
LEMMA StoreStays ==
  ASSUME StoreInv, UNCHANGED <<files, meta, damaged, op>>, greeted' \in BOOLEAN
  PROVE  StoreInv'
<1>1. StoreTyped' /\ OpTyped'
  BY DEF StoreInv, StoreTyped, OpTyped
<1>2. FilesKnown'
  BY DEF StoreInv, FilesKnown, Exists, Writing
<1> QED
  BY <1>1, <1>2 DEF StoreInv

LEMMA GreetKeeps ==
  ASSUME Inv, Greet
  PROVE  Inv'
<1>1. /\ queue' = Pushed(Pushed(queue, Get), Version) /\ greeted' = TRUE
      /\ UNCHANGED <<firmware, ctrl, mirror, caps, answer, timer, unsure, left, files, meta, damaged, op>>
  BY DEF Greet, storeVars
<1>2. SettingsInv /\ MirrorTyped /\ QueueTyped /\ left \in Bounds /\ unsure \in BOOLEAN
  BY DEF Inv, SettingsInv, SettingsTyped
<1>3. QueueTyped' /\ Extends(queue, queue')
  <2> DEFINE q == Pushed(queue, Get)
  <2>1. q \in Seq(Commands) /\ Len(q) <= QueueLimit /\ Extends(queue, q)
    BY <1>2, PushedFacts, CommandFacts DEF QueueTyped
  <2>3. queue' = Pushed(q, Version)
    BY <1>1
  <2> HIDE DEF q
  <2>2. queue' \in Seq(Commands) /\ Len(queue') <= QueueLimit /\ Extends(q, queue')
    BY <2>1, <2>3, PushedFacts, CommandFacts
  <2>4. Extends(queue, queue')
    <3>1. Len(queue) \in Nat /\ Len(q) \in Nat /\ Len(queue') \in Nat
      BY <1>2, <2>1, <2>2 DEF QueueTyped
    <3> QED
      BY <2>1, <2>2, <3>1 DEF Extends
  <2> QED
    BY <2>2, <2>4 DEF QueueTyped
<1>4. MirrorTyped' /\ MirrorWritten
  BY <1>1, <1>2 DEF MirrorTyped, MirrorWritten
<1>5. SettingsInv'
  BY <1>1, <1>2, <1>3, <1>4, WritesKeep
<1>6. StoreInv'
  BY <1>1, StoreStays DEF Inv
<1> QED
  BY <1>5, <1>6 DEF Inv

LEMMA BootingFacts ==
  /\ Booting.kind = "boot" /\ Booting.step = 1 /\ Booting.id = 0 /\ Booting.new = 0
  /\ Booting.body = Nothing /\ Booting.patch = FALSE
  /\ Booting = [kind |-> Booting.kind, step |-> Booting.step, id |-> Booting.id,
                new |-> Booting.new, body |-> Booting.body, patch |-> Booting.patch]
<1>1. /\ Rest = [kind |-> Rest.kind, step |-> Rest.step, id |-> Rest.id, new |-> Rest.new,
                 body |-> Rest.body, patch |-> Rest.patch]
      /\ Rest.id = 0 /\ Rest.new = 0 /\ Rest.body = Nothing /\ Rest.patch = FALSE
  BY DEF Rest
<1>2. Booting = [Rest EXCEPT !.kind = "boot", !.step = 1]
  BY DEF Booting
<1> QED
  BY <1>1, <1>2

LEMMA CrashKeeps ==
  ASSUME Inv, Crash
  PROVE  Inv'
<1>1. /\ Spend("crashes") /\ SettingsReset /\ op' = Booting /\ greeted' = FALSE
      /\ UNCHANGED <<files, meta, damaged>>
  BY DEF Crash, storeVars
<1>2. left' \in Bounds
  BY <1>1, SpendFacts DEF Inv, SettingsInv, SettingsTyped, BoundNames
<1>3. SettingsInv'
  BY <1>1, <1>2, ResetKeeps DEF Inv
<1>4. OpTyped'
  <2>1. /\ op'.kind = "boot" /\ op'.step = 1 /\ op'.id = 0 /\ op'.new = 0
        /\ op'.body = Nothing /\ op'.patch = FALSE
        /\ op' = [kind |-> op'.kind, step |-> op'.step, id |-> op'.id, new |-> op'.new,
                  body |-> op'.body, patch |-> op'.patch]
    BY <1>1, BootingFacts
  <2>2. 0 \in Ids /\ Json(Nothing) /\ 1 \in StepsOf("boot") /\ "boot" \in Kinds
    BY IdsFacts, FileFacts DEF StepsOf, Kinds
  <2>3. op'.kind # "none" /\ op'.patch \in BOOLEAN /\ Json(op'.body) /\ op'.id \in Ids /\ op'.new \in Ids
    BY <2>1, <2>2
  <2>4. op'.kind \in Kinds /\ op'.step \in StepsOf(op'.kind)
    BY <2>1, <2>2
  <2> QED
    BY <2>1, <2>3, <2>4 DEF OpTyped
<1>5. StoreTyped'
  BY <1>1 DEF Inv, StoreInv, StoreTyped
<1>6. FilesKnown'
  <2>1. op'.kind = "boot" /\ op'.step = 1
    BY <1>1, BootingFacts
  <2> QED
    BY <2>1 DEF FilesKnown
<1> QED
  BY <1>6, <1>3, <1>4, <1>5 DEF Inv, StoreInv

LEMMA WorkerKeeps ==
  ASSUME Inv, Worker
  PROVE  Inv'
<1>1. SettingsInv'
  BY ServeSetKeeps, ServeGetKeeps, LoadKeeps, ServeVersionKeeps, TimerFiresKeeps, TimerForgottenKeeps
  DEF Inv, Worker
<1>2. StoreInv'
  BY StoreStays DEF Inv, StoreInv, StoreTyped, Worker, storeVars
<1> QED
  BY <1>1, <1>2 DEF Inv

LEMMA UsersKeep ==
  ASSUME Inv, Users
  PROVE  Inv'
<1>4. PICK f \in DOMAIN Inputs : \E v \in Inputs[f] :
          \/ f \in Settable /\ \E refused \in BOOLEAN : Put(f, v, refused)
          \/ InRange(f, v) /\ PanelChanges(f, v)
  BY DEF Users
<1>1. PICK v \in Inputs[f] :
          \/ f \in Settable /\ \E refused \in BOOLEAN : Put(f, v, refused)
          \/ InRange(f, v) /\ PanelChanges(f, v)
  BY <1>4
<1>2. SettingsInv'
  BY <1>1, PutKeeps, PanelKeeps DEF Inv
<1>3. StoreInv'
  BY StoreStays DEF Inv, StoreInv, StoreTyped, Users, storeVars
<1> QED
  BY <1>2, <1>3 DEF Inv

LEMMA RequestKeeps ==
  ASSUME Inv, Request
  PROVE  Inv'
<1>1. 0 \in Ids /\ Json(Nothing)
  BY IdsFacts, FileFacts
<1>2. \A body \in Bodies : Json(body)
  BY ProfilesAssumption DEF Json
<1>3. PICK kind \in Kinds \ {"none", "boot"}, i \in Ids, body \in Bodies \cup {Nothing}, patch \in BOOLEAN :
          Ask(kind, i, body, patch)
  BY <1>1 DEF Request, Kinds
<1> QED
  BY <1>1, <1>2, <1>3, AskKeeps

\* The list of a new store has its profiles, and the mark on the first.
LEMMA InitStore ==
  ASSUME Init
  PROVE  Inv
<1>1. PICK setup \in Setups, body \in Bodies :
          /\ firmware = [tails |-> setup.tails, version |-> setup.version]
          /\ left = setup.left
          /\ files = [i \in Ids |-> IF i \in setup.ids THEN File(body) ELSE NoFile]
          /\ meta = IF setup.ids = {} THEN BadMeta
                    ELSE Meta([k \in DOMAIN Ascending(setup.ids) |-> Entry(Ascending(setup.ids)[k], k = 1)])
  BY Zenon DEF Init
<1>2. /\ setup.tails \in BOOLEAN /\ setup.version \in Seq(Nat) /\ setup.left \in Bounds
      /\ setup.ids \in SUBSET Ids
  BY SettingsAssumption, ProfilesAssumption
<1>3. SettingsInv
  BY <1>1, <1>2, InitSettings DEF Init
<1>4. Json(body)
  BY ProfilesAssumption DEF Json
<1>5. meta \in Metas
  <2>1. CASE setup.ids = {}
    BY <1>1, <2>1, MetaFacts
  <2>2. CASE setup.ids # {}
    <3> DEFINE S == setup.ids
               A == Ascending(S)
               n == Cardinality(S)
               list == [k \in DOMAIN A |-> Entry(A[k], k = 1)]
    <3>1. S \in SUBSET Int /\ IsFiniteSet(S) /\ S \in SUBSET Ids
      <4>1. S \in SUBSET Ids
        BY <1>2
      <4> HIDE DEF S
      <4>2. IsFiniteSet(S)
        BY <4>1, IdsFacts, FS_Subset
      <4> QED
        BY <4>1, <4>2, IdsFacts
    <3>2. n \in Nat /\ A \in [1..n -> S]
      <4> HIDE DEF S
      <4> QED
        BY <3>1, AscendingFacts
    <3> HIDE DEF A, n
    <3>3. DOMAIN A = 1..n /\ \A k \in 1..n : A[k] \in Ids
      BY <3>1, <3>2
    <3>4. \A k \in 1..n : list[k] \in Entries
      <4> TAKE k \in 1..n
      <4> DEFINE b == k = 1
      <4>1. b \in BOOLEAN /\ A[k] \in Ids
        BY <3>3
      <4>2. list[k] = Entry(A[k], b)
        BY <3>3, Zenon
      <4> HIDE DEF b, list
      <4> QED
        BY <4>1, <4>2 DEF Entry, Entries
    <3>5. list = [k \in 1..n |-> list[k]]
      BY <3>3
    <3>6. meta = Meta(list)
      BY <1>1, <2>2 DEF A
    <3> HIDE DEF list
    <3>7. list \in Seq(Entries)
      BY <3>2, <3>4, <3>5, Sequenced
    <3> QED
      BY <3>6, <3>7, MetaFacts
  <2> QED
    BY <2>1, <2>2
<1>6. \A i \in Ids : FileTyped(files[i])
  BY <1>1, <1>4, FileFacts
<1>7. StoreTyped
  BY <1>1, <1>5, <1>6 DEF StoreTyped, Metas, Init
<1>8. OpTyped
  <2>1. op = Booting
    BY DEF Init
  <2>2. 0 \in Ids /\ Json(Nothing) /\ 1 \in StepsOf("boot") /\ "boot" \in Kinds
    BY IdsFacts, FileFacts DEF StepsOf, Kinds
  <2> QED
    BY <2>1, <2>2, BootingFacts DEF OpTyped
<1>9. FilesKnown
  BY BootingFacts DEF FilesKnown, Init
<1> QED
  BY <1>3, <1>7, <1>8, <1>9 DEF Inv, StoreInv

LEMMA StoredKeeps ==
  ASSUME Inv, Stored
  PROVE  Inv'
  BY CreateKeeps, ListKeeps, DeleteKeeps, UnlistKeeps, RenameKeeps, RenameFileKeeps, ActivateKeeps,
     ContentKeeps, ReplyKeeps, ApplySendKeeps, ApplyStateKeeps, ApplyNothingKeeps, BootListKeeps,
     BootFoundKeeps, BootFoundListKeeps, BootFoundMarkKeeps
     DEF Stored

LEMMA StutterKeeps ==
  ASSUME Inv, UNCHANGED vars
  PROVE  Inv'
<1>1. UNCHANGED <<settingsVars, left, files, meta, damaged, op, greeted>>
  BY DEF vars, storeVars
<1>2. SettingsInv'
  BY <1>1, StoringKeeps DEF Inv, SettingsInv, SettingsTyped
<1>3. StoreInv'
  BY <1>1, StoreStays DEF Inv, StoreInv, StoreTyped
<1> QED
  BY <1>2, <1>3 DEF Inv

\* What is known of the settings, the files, the list and the request holds from the start on,
\* through every interleaving of the web server, the worker, the users, crashes and writes that
\* fail.
THEOREM ProfilesInvariant == Spec => []Inv
<1>1. Init => Inv
  BY InitStore
<1>2. Inv /\ [Next]_vars => Inv'
  BY RequestKeeps, StoredKeeps, GreetKeeps, CrashKeeps, WorkerKeeps, UsersKeep, StutterKeeps DEF Next
<1> QED
  BY <1>1, <1>2, PTL DEF Spec

\* Types: among them that what a SET carries is in the range of its setting, whatever profile or
\* request it came from, and that the queue keeps to its limit (SsvcSettings.h, the setters).
THEOREM ProfilesTypeCorrect == Spec => []TypeOK
<1>1. Inv => TypeOK
  <2> SUFFICES ASSUME Inv
               PROVE  TypeOK
    OBVIOUS
  <2>1. SettingsTyped /\ StoreTyped /\ OpTyped
    BY DEF Inv, SettingsInv, StoreInv
  <2>2. SettingsTypeOK
    <3>1. \A i \in 1..Len(queue) : queue[i] \in Commands
      BY <2>1, ElementOfSeq DEF SettingsTyped, QueueTyped
    <3>2. \A i \in 1..Len(queue) :
              /\ queue[i].kind \in {"get", "version", "set"}
              /\ DOMAIN queue[i].values \subseteq Fields \cup Steps
              /\ \A f \in DOMAIN queue[i].values : InRange(f, queue[i].values[f])
      <4> TAKE i \in 1..Len(queue)
      <4>1. queue[i].kind \in {"get", "version", "set"} /\ queue[i].values \in Values
        BY <3>1 DEF Commands
      <4> QED
        BY <4>1, ValuesAre
    <3> QED
      BY <2>1, <3>2 DEF SettingsTyped, MirrorTyped, QueueTyped, SettingsTypeOK
  <2>3. \A i \in Ids : files[i].state \in {"none", "ok", "bad"} /\ files[i].has \in BOOLEAN
    BY <2>1 DEF StoreTyped, FileTyped
  <2>4. meta.state \in {"bad", "list"} /\ \A k \in 1..Len(meta.list) : meta.list[k] \in [id: Ids, on: BOOLEAN]
    BY <2>1, ElementOfSeq DEF StoreTyped, Entries
  <2>5. op.id \in Ids /\ op.new \in Ids /\ op.step \in 0..6
    BY <2>1 DEF OpTyped, StepsOf
  <2> QED
    BY <2>1, <2>2, <2>3, <2>4, <2>5 DEF TypeOK, StoreTyped
<1> QED
  BY <1>1, ProfilesInvariant, PTL

\* No profile with a file is missing on the list when the server is at rest, unless a write
\* failed since the last start (ProfileService.cpp:643 takes it for granted).
THEOREM ProfilesListed == Spec => []FilesListed
<1>1. Inv => FilesListed
  BY DEF Inv, StoreInv, FilesKnown, FilesListed, Writing, Rest
<1> QED
  BY <1>1, ProfilesInvariant, PTL

\* With nothing queued, timed or on its way the mirror shows what the controller has, unless it
\* was written to without a command that reads it back, an answer or the reread of a SET was
\* lost (the SET's reset met the reload timer while its callback was running), or the panel was
\* used.
THEOREM MirrorSafe == Spec => []MirrorFollows
<1>1. Inv => MirrorFollows
  <2> SUFFICES ASSUME Inv, Settled, ~unsure
               PROVE  \A f \in Reported : mirror[f] = ctrl[f]
    BY DEF MirrorFollows
  <2>1. answer = Nothing /\ timer # "armed" /\ queue = << >>
    BY DEF Settled
  <2>2. ~ReadBack
    BY <2>1 DEF ReadBack, QueueReads
  <2> QED
    BY <2>1, <2>2 DEF Inv, SettingsInv, MirrorSound
<1> QED
  BY <1>1, ProfilesInvariant, PTL

-----------------------------------------------------------------------------
(* The abstract store.                                                     *)

\* The store the files and the list stand for: its profiles, its marks and its request.
Profs == [i \in {j \in Ids : Exists(j)} |-> files[i]]
MarkedNow == {i \in Listed(meta.list) : \E k \in 1..Len(meta.list) : meta.list[k] = Entry(i, TRUE)}
Done == op.kind \notin {"none", "boot", "rename"} /\ op.step > 1
Asked == [kind |-> op.kind, id |-> op.id, done |-> Done]

AtRest == [kind |-> "none", id |-> 0, done |-> FALSE]
AtStart == [kind |-> "boot", id |-> 0, done |-> FALSE]
ProfsWith(i, c) == [j \in DOMAIN Profs \cup {i} |-> IF j = i THEN c ELSE Profs[j]]
ProfsWithout(i) == [j \in DOMAIN Profs \ {i} |-> Profs[j]]
Committed(kinds) ==
    /\ Asked.kind \in kinds /\ ~Asked.done
    /\ Asked' = [Asked EXCEPT !.done = TRUE] /\ UNCHANGED damaged

\* The actions of the store in terms of the three.
LEMMA StoreInits ==
  ASSUME DOMAIN Profs \subseteq Ids, MarkedNow \subseteq Ids, damaged = FALSE, Asked = AtStart
  PROVE  Store!StoreInit
  BY Zenon DEF Store!StoreInit, Profs, MarkedNow, Asked, Done, AtStart

LEMMA StoreAsks ==
  ASSUME NEW kind \in Kinds \ {"none", "boot"}, NEW i \in Ids, Asked = AtRest,
         Asked' = [kind |-> kind, id |-> i, done |-> FALSE],
         UNCHANGED <<Profs, MarkedNow, damaged>>
  PROVE  Store!StoreNext
<1>1. Store!Ask(kind, i)
  BY Zenon DEF Store!Ask, Store!Rest, Profs, MarkedNow, Asked, Done, AtRest
<1>2. kind \in {"create", "copy", "save", "content", "rename", "delete", "activate"}
  BY DEF Kinds
<1> QED
  BY <1>1, <1>2 DEF Store!StoreNext

LEMMA StoreAdds ==
  ASSUME Committed({"create", "copy"}), NEW i \in Ids, i \in DOMAIN Profs => damaged,
         DOMAIN Profs' = DOMAIN Profs \cup {i}, Profs' = ProfsWith(i, Profs'[i]),
         Asked.kind = "copy" => Profs'[i] = Profs[Asked.id], UNCHANGED MarkedNow
  PROVE  Store!StoreNext
<1>1. Store!Add
  BY Zenon DEF Store!Add, Store!Commit, Store!With, Committed, ProfsWith, Profs, MarkedNow, Asked, Done
<1> QED
  BY <1>1 DEF Store!StoreNext

LEMMA StoreChanges ==
  ASSUME Committed({"save", "content"}), Asked.id \in DOMAIN Profs, DOMAIN Profs' = DOMAIN Profs,
         Profs' = ProfsWith(Asked.id, Profs'[Asked.id]), UNCHANGED MarkedNow
  PROVE  Store!StoreNext
<1>1. Store!Change
  BY Zenon DEF Store!Change, Store!Commit, Store!With, Committed, ProfsWith, Profs, MarkedNow, Asked, Done
<1> QED
  BY <1>1 DEF Store!StoreNext

LEMMA StoreRemoves ==
  ASSUME Committed({"delete"}), Asked.id \in DOMAIN Profs, Profs' = ProfsWithout(Asked.id),
         UNCHANGED MarkedNow
  PROVE  Store!StoreNext
<1>1. Store!Remove
  BY Zenon DEF Store!Remove, Store!Commit, Store!Without, Committed, ProfsWithout, Profs, MarkedNow, Asked, Done
<1> QED
  BY <1>1 DEF Store!StoreNext

LEMMA StoreUnmarks ==
  ASSUME Asked.kind = "delete", MarkedNow' = MarkedNow \ {Asked.id}, Asked.id \notin DOMAIN Profs,
         Asked' = AtRest, UNCHANGED <<Profs, damaged>>
  PROVE  Store!StoreNext
<1>1. Asked' \in {Asked, AtRest}
  BY Zenon
<1>2. Store!Unmark
  BY <1>1, Zenon DEF Store!Unmark, Store!Rest, Profs, MarkedNow, Asked, Done, AtRest
<1> QED
  BY <1>2 DEF Store!StoreNext

LEMMA StoreActivates ==
  ASSUME Committed({"activate"}), MarkedNow' = {Asked.id}, UNCHANGED Profs
  PROVE  Store!StoreNext
<1>1. Store!Activate
  BY Zenon DEF Store!Activate, Store!Commit, Committed, Profs, MarkedNow, Asked, Done
<1> QED
  BY <1>1 DEF Store!StoreNext

LEMMA StoreReplies ==
  ASSUME Asked.kind # "boot", Asked' = AtRest, UNCHANGED <<Profs, MarkedNow, damaged>>
  PROVE  Store!StoreNext
<1>1. Store!Reply
  BY Zenon DEF Store!Reply, Store!Rest, Profs, MarkedNow, Asked, Done, AtRest
<1> QED
  BY <1>1 DEF Store!StoreNext

LEMMA StoreRestarts ==
  ASSUME Asked' = AtStart, UNCHANGED <<Profs, MarkedNow, damaged>>
  PROVE  Store!StoreNext
<1>1. Store!Restart
  BY Zenon DEF Store!Restart, Profs, MarkedNow, Asked, Done, AtStart
<1> QED
  BY <1>1 DEF Store!StoreNext

LEMMA StoreFound ==
  ASSUME Asked.kind = "boot", DOMAIN Profs = {}, DOMAIN Profs' = {0},
         UNCHANGED <<MarkedNow, Asked, damaged>>
  PROVE  Store!StoreNext
<1>1. Store!Found
  BY Zenon DEF Store!Found, Profs, MarkedNow, Asked, Done
<1> QED
  BY <1>1 DEF Store!StoreNext

LEMMA StoreBoots ==
  ASSUME Asked.kind = "boot",
         (MarkedNow' # MarkedNow /\ MarkedNow \cap DOMAIN Profs # {}) => MarkedNow' = MarkedNow \cap DOMAIN Profs,
         damaged' \in {damaged, FALSE}, Asked' \in {Asked, AtRest}, UNCHANGED Profs
  PROVE  Store!StoreNext
<1>1. Store!Boot
  BY Zenon DEF Store!Boot, Store!Rest, Profs, MarkedNow, Asked, Done, AtRest
<1> QED
  BY <1>1 DEF Store!StoreNext

LEMMA StoreDamages ==
  ASSUME damaged' = TRUE, Asked # AtRest, NEW i \in Ids,
         Profs' \in {Profs, ProfsWith(i, Bad), ProfsWithout(i)},
         i \in DOMAIN Profs => \/ Profs' = Profs \/ damaged
                               \/ Asked.kind \in {"save", "content", "rename"} /\ Asked.id = i,
         Asked' \in {Asked, AtRest}
  PROVE  Store!StoreNext
<1>1. Store!Damage
  BY Zenon DEF Store!Damage, Store!Rest, Store!With, Store!Without, ProfsWith, ProfsWithout,
     Profs, MarkedNow, Asked, Done, AtRest
<1> QED
  BY <1>1 DEF Store!StoreNext

LEMMA StoreStutters ==
  ASSUME UNCHANGED <<Profs, MarkedNow, Asked, damaged>>
  PROVE  UNCHANGED Store!storeVars
  BY Zenon DEF Store!storeVars, Profs, MarkedNow, Asked, Done

-----------------------------------------------------------------------------
(* What files and list say of it.                                          *)

LEMMA MarkedFacts == MarkedNow = Marks(meta.list)
  BY DEF MarkedNow, Marks

LEMMA MarkedNext == MarkedNow' = Marks(meta'.list)
  BY DEF MarkedNow, Marks, Listed, Entry

LEMMA ProfsFacts ==
  /\ DOMAIN Profs = {j \in Ids : Exists(j)} /\ \A j \in DOMAIN Profs : Profs[j] = files[j]
  /\ DOMAIN Profs' = {j \in Ids : Exists(j)'} /\ \A j \in DOMAIN Profs' : Profs'[j] = files'[j]
<1>1. DOMAIN Profs = {j \in Ids : Exists(j)} /\ \A j \in DOMAIN Profs : Profs[j] = files[j]
  BY DEF Profs
<1>2. DOMAIN Profs' = {j \in Ids : Exists(j)'} /\ \A j \in DOMAIN Profs' : Profs'[j] = files'[j]
  BY DEF Profs, Exists
<1> QED
  BY <1>1, <1>2

LEMMA SameFiles ==
  ASSUME UNCHANGED files
  PROVE  UNCHANGED Profs
  BY DEF Profs, Exists

LEMMA SameMeta ==
  ASSUME UNCHANGED meta
  PROVE  UNCHANGED MarkedNow
  BY DEF MarkedNow

\* A file that is written changes one profile, and one that is deleted takes it away.
LEMMA WrittenProfs ==
  ASSUME StoreTyped, NEW i \in Ids, NEW c, FileTyped(c), files' = [files EXCEPT ![i] = c]
  PROVE  /\ c.state # "none" => /\ Profs' = ProfsWith(i, c) /\ DOMAIN Profs' = DOMAIN Profs \cup {i}
                                /\ Profs'[i] = c
         /\ c.state = "none" => Profs' = ProfsWithout(i) /\ DOMAIN Profs' = DOMAIN Profs \ {i}
<1>1. \A j \in Ids : files'[j] = IF j = i THEN c ELSE files[j]
  BY DEF StoreTyped
<1>2. \A j \in Ids : Exists(j)' <=> IF j = i THEN c.state # "none" ELSE Exists(j)
  BY <1>1 DEF Exists
<1>3. Profs' = [j \in DOMAIN Profs' |-> Profs'[j]]
  BY DEF Profs
<1>4. ASSUME c.state # "none"
      PROVE  Profs' = ProfsWith(i, c) /\ DOMAIN Profs' = DOMAIN Profs \cup {i} /\ Profs'[i] = c
  <2>1. DOMAIN Profs' = DOMAIN Profs \cup {i}
    BY <1>2, <1>4, ProfsFacts
  <2>2. \A j \in DOMAIN Profs' : Profs'[j] = IF j = i THEN c ELSE Profs[j]
    BY <1>1, <2>1, ProfsFacts
  <2> QED
    BY <1>3, <2>1, <2>2 DEF ProfsWith
<1>5. ASSUME c.state = "none"
      PROVE  Profs' = ProfsWithout(i) /\ DOMAIN Profs' = DOMAIN Profs \ {i}
  <2>1. DOMAIN Profs' = DOMAIN Profs \ {i}
    BY <1>2, <1>5, ProfsFacts
  <2>2. \A j \in DOMAIN Profs' : Profs'[j] = Profs[j]
    BY <1>1, <2>1, ProfsFacts
  <2> QED
    BY <1>3, <2>1, <2>2 DEF ProfsWithout
<1> QED
  BY <1>4, <1>5

LEMMA AskedFacts ==
  /\ Asked.kind = op.kind /\ Asked.id = op.id /\ Asked.done = Done
  /\ Asked'.kind = op'.kind /\ Asked'.id = op'.id /\ Asked'.done = Done'
  /\ op.kind # "none" => Asked # AtRest
  BY DEF Asked, AtRest

LEMMA AskedAtRest ==
  ASSUME op = Rest
  PROVE  Asked = AtRest
<1>1. Done = FALSE
  BY DEF Done, Rest
<1> QED
  BY <1>1 DEF Asked, AtRest, Rest

LEMMA Ends ==
  ASSUME op' = Rest
  PROVE  Asked' = AtRest
<1>1. Done' = FALSE
  BY DEF Done, Rest
<1> QED
  BY <1>1 DEF Asked, AtRest, Rest

\* The operation does what it was asked for.
LEMMA Commits ==
  ASSUME op.kind \notin {"none", "boot", "rename"}, op.step = 1, UNCHANGED damaged,
         op'.kind = op.kind, op'.id = op.id, op'.step \in {2, 4}
  PROVE  Committed({op.kind})
<1>4. (op.kind \notin {"none", "boot", "rename"} /\ op.step > 1) = FALSE
  OBVIOUS
<1>5. (op'.kind \notin {"none", "boot", "rename"} /\ op'.step > 1) = TRUE
  OBVIOUS
<1>6. Done = FALSE
  BY <1>4 DEF Done
<1>7. Done' = TRUE
  BY <1>5 DEF Done
<1>1. Done = FALSE /\ Done' = TRUE
  BY <1>6, <1>7
<1>8. Asked = [kind |-> op.kind, id |-> op.id, done |-> Done]
  BY DEF Asked
<1> DEFINE yes == TRUE
<1>9. Asked' = [kind |-> op.kind, id |-> op.id, done |-> yes]
  BY <1>1, Zenon DEF Asked
<1> HIDE DEF yes
<1>10. Asked' = [Asked EXCEPT !.done = yes]
  BY <1>8, <1>9
<1>2. Asked' = [Asked EXCEPT !.done = TRUE]
  BY <1>10, Zenon DEF yes
<1>3. Asked.kind = op.kind /\ ~Asked.done
  BY <1>1, AskedFacts
<1> QED
  BY <1>2, <1>3 DEF Committed

LEMMA CommitsOf ==
  ASSUME NEW kinds, NEW kind \in kinds, Committed({kind})
  PROVE  Committed(kinds)
  BY DEF Committed

\* The request of the store when the operation goes on.
LEMMA Goes ==
  ASSUME op'.kind = op.kind, op'.id = op.id,
         op.kind \in {"boot", "rename"} \/ (op.step > 1 /\ op'.step > 1)
  PROVE  UNCHANGED Asked
<1>1. Done' <=> Done
  BY DEF Done
<1>2. Done' = Done
  BY <1>1, Zenon DEF Done
<1> QED
  BY <1>2 DEF Asked

-----------------------------------------------------------------------------
(* Every step is a step of the store, or none of its business.             *)

Maps == Store!StoreNext \/ UNCHANGED Store!storeVars

\* A write of the list fails.
LEMMA MetaFailMaps ==
  ASSUME Inv, WriteMetaFails \/ Faulty, UNCHANGED files, op.kind # "none",
         op' = Rest \/ UNCHANGED Asked
  PROVE  Store!StoreNext
<1>1. damaged' = TRUE /\ 0 \in Ids
  BY IdsFacts DEF WriteMetaFails, Faulty
<1>2. Asked # AtRest /\ Asked' \in {Asked, AtRest} /\ UNCHANGED Profs
  BY AskedFacts, Ends, SameFiles
<1> QED
  BY <1>1, <1>2, StoreDamages

\* A write of a file fails: the file is as it was, or it lost its content.
LEMMA FileFailMaps ==
  ASSUME Inv, NEW i \in Ids, Faulty, NEW d \in {files[i], NoFile, Bad},
         files' = [files EXCEPT ![i] = d], op.kind # "none",
         op' = Rest \/ UNCHANGED Asked,
         Exists(i) => \/ damaged
                      \/ op.kind \in {"save", "content", "rename"} /\ op.id = i
  PROVE  Store!StoreNext
<1>1. StoreTyped /\ FileTyped(d) /\ damaged' = TRUE
  BY FileFacts DEF Faulty, Inv, StoreInv, StoreTyped
<1>2. Profs' \in {Profs, ProfsWith(i, Bad), ProfsWithout(i)}
  <2>1. CASE d = files[i]
    <3>1. UNCHANGED files
      BY <1>1, <2>1 DEF StoreTyped
    <3> QED
      BY <3>1, SameFiles
  <2>2. CASE d = Bad
    BY <1>1, <2>2, WrittenProfs, FileFacts
  <2>3. CASE d = NoFile
    BY <1>1, <2>3, WrittenProfs, FileFacts
  <2> QED
    BY <2>1, <2>2, <2>3
<1>3. Asked # AtRest /\ Asked' \in {Asked, AtRest}
  BY AskedFacts, Ends
<1>4. i \in DOMAIN Profs => \/ Profs' = Profs \/ damaged
                            \/ Asked.kind \in {"save", "content", "rename"} /\ Asked.id = i
  BY ProfsFacts, AskedFacts
<1> QED
  BY <1>1, <1>2, <1>3, <1>4, StoreDamages

LEMMA AskMaps ==
  ASSUME Inv, NEW kind \in Kinds \ {"none", "boot"}, NEW i \in Ids, NEW body, NEW patch,
         Ask(kind, i, body, patch)
  PROVE  Store!StoreNext
<1>1. op = Rest /\ UNCHANGED <<files, meta, damaged>> /\ op'.kind = kind /\ op'.id = i /\ op'.step = 1
  BY DEF Ask, storeVars
<1>2. Asked = AtRest /\ UNCHANGED <<Profs, MarkedNow>>
  BY <1>1, AskedAtRest, SameFiles, SameMeta
<1>3. (op'.kind \notin {"none", "boot", "rename"} /\ op'.step > 1) = FALSE
  BY <1>1
<1>4. Done' = FALSE
  BY <1>3 DEF Done
<1>5. Asked' = [kind |-> kind, id |-> i, done |-> FALSE]
  BY <1>1, <1>4 DEF Asked
<1> QED
  BY <1>1, <1>2, <1>5, StoreAsks

\* A new number is the number of no profile, unless a write failed.
LEMMA NewIsNew ==
  ASSUME Inv, op.kind \in {"create", "copy"}, op.step = 1, NewId \in Ids, Exists(NewId)
  PROVE  damaged
<1>1. NewId \notin Listed(meta.list)
  BY NewIdFacts DEF Inv, StoreInv
<1> QED
  BY <1>1 DEF Inv, StoreInv, FilesKnown, Writing

LEMMA AddMaps ==
  ASSUME Inv, Create \/ Copy
  PROVE  Store!StoreNext
<1> DEFINE i == NewId
           c == IF op.kind = "create" THEN File(IF op.patch THEN op.body ELSE Filled) ELSE files[op.id]
<1>1. /\ op.kind \in {"create", "copy"} /\ op.step = 1 /\ i \in Ids /\ UNCHANGED meta
      /\ op.kind = "copy" => files[op.id].state = "ok"
  BY DEF Create, Copy, At, Storing
<1>2. \/ WriteFile(i, c) /\ op' = [op EXCEPT !.step = 2, !.new = i]
      \/ \E d \in {files[i], NoFile, Bad} : Faulty /\ files' = [files EXCEPT ![i] = d] /\ op' = Rest
  BY DEF Create, Copy, At, WriteFileFails
<1>3. FileTyped(c) /\ c.state = "ok" /\ (op.kind = "copy" => c = files[op.id])
  <2>1. CASE op.kind = "create"
    <3>1. Json(Filled) /\ Json(op.body)
      BY FilledFacts DEF Inv, SettingsInv, SettingsTyped, StoreInv, OpTyped
    <3> QED
      BY <2>1, <3>1, FileFacts
  <2>2. CASE op.kind = "copy"
    <3>1. op.id \in Ids /\ FileTyped(files[op.id])
      BY DEF Inv, StoreInv, OpTyped, StoreTyped
    <3> QED
      BY <1>1, <2>2, <3>1
  <2> QED
    BY <1>1, <2>1, <2>2
<1>4. Exists(i) => damaged
  BY <1>1, NewIsNew
<1> HIDE DEF i, c
<1>5. ASSUME WriteFile(i, c), op' = [op EXCEPT !.step = 2, !.new = i]
      PROVE  Store!StoreNext
  <2>1. files' = [files EXCEPT ![i] = c] /\ UNCHANGED damaged
    BY <1>5 DEF WriteFile
  <2>2. StoreTyped /\ OpTyped
    BY DEF Inv, StoreInv
  <2>3. Profs' = ProfsWith(i, c) /\ DOMAIN Profs' = DOMAIN Profs \cup {i} /\ Profs'[i] = c
    BY <1>1, <1>3, <2>1, <2>2, WrittenProfs
  <2>4. op'.kind = op.kind /\ op'.id = op.id /\ op'.step = 2
    BY <1>5, <2>2 DEF OpTyped
  <2>5. Committed({"create", "copy"})
    <3>1. Committed({op.kind})
      BY <1>1, <2>1, <2>4, Commits
    <3> QED
      BY <1>1, <3>1, CommitsOf
  <2>6. Asked.kind = "copy" => Profs'[i] = Profs[Asked.id]
    <3>1. op.kind = "copy" => op.id \in DOMAIN Profs
      BY <1>1, <2>2, ProfsFacts DEF Exists, OpTyped
    <3> QED
      BY <1>3, <2>3, <3>1, AskedFacts, ProfsFacts
  <2>7. i \in DOMAIN Profs => damaged
    BY <1>4, ProfsFacts
  <2>8. Profs' = ProfsWith(i, Profs'[i]) /\ UNCHANGED MarkedNow
    BY <1>1, <2>3, SameMeta
  <2> QED
    BY <1>1, <2>3, <2>5, <2>6, <2>7, <2>8, StoreAdds
<1>6. ASSUME NEW d \in {files[i], NoFile, Bad}, Faulty, files' = [files EXCEPT ![i] = d], op' = Rest
      PROVE  Store!StoreNext
  BY <1>1, <1>4, <1>6, FileFailMaps
<1> QED
  BY <1>2, <1>5, <1>6

\* The content of a profile is replaced.
LEMMA ChangeMaps ==
  ASSUME Inv, Save \/ Content
  PROVE  Store!StoreNext
<1> DEFINE i == op.id
           c == IF op.kind = "save" THEN File(Filled) ELSE Patched(files[i])
<1>1. /\ op.kind \in {"save", "content"} /\ op.step = 1 /\ UNCHANGED meta /\ Exists(i) /\ i \in Ids
      /\ op.kind = "content" => files[i].state = "ok"
  BY DEF Save, Content, At, Unpatched, Exists, Inv, StoreInv, OpTyped
<1>2. \/ /\ WriteFile(i, c) /\ \E step \in {2, 4} : \E new : op' = [op EXCEPT !.step = step, !.new = new]
      \/ \E d \in {files[i], NoFile, Bad} : Faulty /\ files' = [files EXCEPT ![i] = d] /\ op' = Rest
  <2>1. CASE Save
    BY <2>1 DEF Save, At, WriteFileFails
  <2>2. CASE Content
    <3> DEFINE step == IF i \in Active(meta) THEN 2 ELSE 4
    <3>1. \/ WriteFile(i, c) /\ op' = [op EXCEPT !.step = step]
          \/ WriteFileFails(i, {files[i], Bad}) /\ op' = Rest
      BY <2>2 DEF Content, At, Then
    <3>2. [op EXCEPT !.step = step] = [op EXCEPT !.step = step, !.new = op.new] /\ step \in {2, 4}
      BY DEF Inv, StoreInv, OpTyped
    <3> HIDE DEF step, c, i
    <3> QED
      BY <3>1, <3>2 DEF WriteFileFails
  <2> QED
    BY <2>1, <2>2
<1>3. FileTyped(c) /\ c.state = "ok"
  <2>1. CASE op.kind = "save"
    <3>1. Json(Filled)
      BY FilledFacts DEF Inv, SettingsInv, SettingsTyped
    <3> QED
      BY <2>1, <3>1, FileFacts
  <2>2. CASE op.kind = "content"
    <3>1. FileTyped(files[i]) /\ op.patch \in BOOLEAN /\ Json(op.body)
      BY <1>1 DEF Inv, StoreInv, OpTyped, StoreTyped
    <3>2. FileTyped(Patched(files[i])) /\ Patched(files[i]).state = "ok"
      BY <1>1, <2>2, <3>1, PatchedFacts
    <3> QED
      BY <2>2, <3>2
  <2> QED
    BY <1>1, <2>1, <2>2
<1>7. i = op.id
  OBVIOUS
<1> HIDE DEF i, c
<1>4. StoreTyped /\ OpTyped
  BY DEF Inv, StoreInv
<1>5. ASSUME WriteFile(i, c), NEW step \in {2, 4}, NEW new, op' = [op EXCEPT !.step = step, !.new = new]
      PROVE  Store!StoreNext
  <2>1. files' = [files EXCEPT ![i] = c] /\ UNCHANGED damaged
    BY <1>5 DEF WriteFile
  <2>2. Profs' = ProfsWith(i, c) /\ DOMAIN Profs' = DOMAIN Profs \cup {i} /\ Profs'[i] = c
    BY <1>1, <1>3, <1>4, <2>1, WrittenProfs
  <2>3. i \in DOMAIN Profs
    BY <1>1, ProfsFacts
  <2>4. op'.kind = op.kind /\ op'.id = op.id /\ op'.step \in {2, 4}
    BY <1>4, <1>5 DEF OpTyped
  <2>5. Committed({"save", "content"})
    <3>1. Committed({op.kind})
      BY <1>1, <2>1, <2>4, Commits
    <3> QED
      BY <1>1, <3>1, CommitsOf
  <2>6. Asked.id = i /\ UNCHANGED MarkedNow
    BY <1>1, <1>7, AskedFacts, SameMeta
  <2>7. DOMAIN Profs' = DOMAIN Profs
    BY <2>2, <2>3
  <2> QED
    BY <2>2, <2>3, <2>5, <2>6, <2>7, StoreChanges
<1>6. ASSUME NEW d \in {files[i], NoFile, Bad}, Faulty, files' = [files EXCEPT ![i] = d], op' = Rest
      PROVE  Store!StoreNext
  BY <1>1, <1>6, <1>7, FileFailMaps
<1> QED
  BY <1>2, <1>5, <1>6

LEMMA ListMaps ==
  ASSUME Inv, List
  PROVE  Store!StoreNext
<1>1. /\ op.kind \in {"create", "copy", "save"} /\ op' = Rest /\ UNCHANGED files
      /\ WriteMeta(Appended(meta, op.new)) \/ WriteMetaFails
  BY DEF List
<1>2. CASE WriteMetaFails
  BY <1>1, <1>2, MetaFailMaps
<1>3. CASE WriteMeta(Appended(meta, op.new))
  <2>1. meta \in Metas /\ op.new \in Ids
    BY DEF Inv, StoreInv, StoreTyped, OpTyped, Metas
  <2>2. Marks(meta'.list) = Marks(meta.list) /\ UNCHANGED damaged
    BY <1>3, <2>1, AppendedFacts DEF WriteMeta, Metas
  <2>3. UNCHANGED <<Profs, MarkedNow, damaged>> /\ Asked' = AtRest /\ Asked.kind # "boot"
    BY <1>1, <2>2, MarkedFacts, MarkedNext, SameFiles, Ends, AskedFacts
  <2> QED
    BY <2>3, StoreReplies
<1> QED
  BY <1>1, <1>2, <1>3

LEMMA DeleteMaps ==
  ASSUME Inv, Delete
  PROVE  Store!StoreNext
<1>1. /\ op.kind = "delete" /\ op.step = 1 /\ Exists(op.id) /\ op' = [op EXCEPT !.step = 2]
      /\ UNCHANGED <<meta, damaged>> /\ files' = [files EXCEPT ![op.id] = NoFile] /\ op.id \in Ids
  BY DEF Delete, At, Then, WriteFile, Inv, StoreInv, OpTyped
<1>2. StoreTyped /\ FileTyped(NoFile) /\ NoFile.state = "none" /\ OpTyped
  BY FileFacts DEF Inv, StoreInv
<1>7. op.id \in DOMAIN Profs
  BY <1>1, ProfsFacts
<1> DEFINE i == op.id
<1>8. i \in Ids /\ files' = [files EXCEPT ![i] = NoFile]
  BY <1>1
<1>3. Profs' = ProfsWithout(i)
  <2> HIDE DEF i
  <2> QED
    BY <1>2, <1>8, WrittenProfs
<1>4. op'.kind = op.kind /\ op'.id = op.id /\ op'.step = 2
  BY <1>1, <1>2 DEF OpTyped
<1>5. Committed({"delete"})
  BY <1>1, <1>4, Commits
<1>6. Asked.id = op.id /\ UNCHANGED MarkedNow
  BY <1>1, AskedFacts, SameMeta
<1> QED
  BY <1>3, <1>5, <1>6, <1>7, StoreRemoves

LEMMA UnlistMaps ==
  ASSUME Inv, Unlist
  PROVE  Store!StoreNext
<1> DEFINE list == Picked(meta.list, {k \in DOMAIN meta.list : meta.list[k].id # op.id})
<1>1. /\ op.kind = "delete" /\ ~Exists(op.id) /\ op' = Rest /\ UNCHANGED files
      /\ WriteMeta(Meta(list)) \/ WriteMetaFails
  BY DEF Unlist
<1>2. CASE WriteMetaFails
  BY <1>1, <1>2, MetaFailMaps
<1>3. CASE WriteMeta(Meta(list))
  <2>1. meta.list \in Seq(Entries)
    BY DEF Inv, StoreInv, StoreTyped
  <2>2. list \in Seq(Entries) /\ Marks(list) = Marks(meta.list) \ {op.id}
    BY <2>1, WithoutFacts
  <2> HIDE DEF list
  <2>3. meta'.list = list /\ UNCHANGED damaged
    BY <1>3, <2>2, MetaFacts DEF WriteMeta
  <2>4. MarkedNow' = MarkedNow \ {Asked.id}
    BY <2>2, <2>3, MarkedFacts, MarkedNext, AskedFacts
  <2>5. Asked.id \notin DOMAIN Profs /\ Asked.kind = "delete" /\ Asked' = AtRest /\ UNCHANGED Profs
    BY <1>1, ProfsFacts, AskedFacts, Ends, SameFiles
  <2> QED
    BY <2>3, <2>4, <2>5, StoreUnmarks
<1> QED
  BY <1>1, <1>2, <1>3

LEMMA RenameMaps ==
  ASSUME Inv, Rename \/ RenameFile
  PROVE  Maps
<1>1. op.kind = "rename" /\ op.id \in Ids
  BY DEF Rename, RenameFile, At, Inv, StoreInv, OpTyped
<1>2. CASE Rename
  <2>1. /\ UNCHANGED files
        /\ \/ WriteMeta(meta) /\ op' = [op EXCEPT !.step = 2]
           \/ WriteMetaFails /\ op' = Rest
    BY <1>2 DEF Rename, Then
  <2>2. CASE WriteMetaFails /\ op' = Rest
    BY <1>1, <2>1, <2>2, MetaFailMaps DEF Maps
  <2>3. CASE WriteMeta(meta) /\ op' = [op EXCEPT !.step = 2]
    <3>1. UNCHANGED <<meta, damaged>>
      BY <2>3 DEF WriteMeta
    <3>2. op'.kind = op.kind /\ op'.id = op.id
      BY <2>3 DEF Inv, StoreInv, OpTyped
    <3>3. UNCHANGED <<Profs, MarkedNow, Asked, damaged>>
      BY <1>1, <2>1, <3>1, <3>2, SameFiles, SameMeta, Goes
    <3> QED
      BY <3>3, StoreStutters DEF Maps
  <2> QED
    BY <2>1, <2>2, <2>3
<1>3. CASE RenameFile
  <2>1. op' = Rest /\ UNCHANGED meta
    BY <1>3 DEF RenameFile
  <2>2. CASE WriteFileFails(op.id, {files[op.id], Bad})
    <3>1. PICK d \in {files[op.id], Bad} : Faulty /\ files' = [files EXCEPT ![op.id] = d]
      BY <2>2 DEF WriteFileFails
    <3> QED
      BY <1>1, <2>1, <3>1, FileFailMaps DEF Maps
  <2>3. CASE UNCHANGED <<files, left, damaged>>
    <3>1. UNCHANGED <<Profs, MarkedNow, damaged>> /\ Asked' = AtRest /\ Asked.kind # "boot"
      BY <1>1, <2>1, <2>3, SameFiles, SameMeta, Ends, AskedFacts
    <3> QED
      BY <3>1, StoreReplies DEF Maps
  <2> QED
    BY <1>3, <2>2, <2>3 DEF RenameFile
<1> QED
  BY <1>2, <1>3

LEMMA ActivateMaps ==
  ASSUME Inv, Activate
  PROVE  Store!StoreNext
<1> DEFINE new == [k \in 1..Len(meta.list) |-> Entry(meta.list[k].id, meta.list[k].id = op.id)]
<1>1. /\ op.kind = "activate" /\ op.step = 1 /\ op.id \in Listed(meta.list) /\ UNCHANGED files
      /\ \/ WriteMeta(Meta(new)) /\ op' = [op EXCEPT !.step = 2]
         \/ WriteMetaFails /\ op' = Rest
  BY DEF Activate, At, Then
<1>2. CASE WriteMetaFails /\ op' = Rest
  BY <1>1, <1>2, MetaFailMaps
<1>3. CASE WriteMeta(Meta(new)) /\ op' = [op EXCEPT !.step = 2]
  <2>1. meta.list \in Seq(Entries) /\ OpTyped
    BY DEF Inv, StoreInv, StoreTyped
  <2>2. new \in Seq(Entries) /\ Marks(new) = {op.id}
    BY <1>1, <2>1, ActivatedFacts
  <2> HIDE DEF new
  <2>3. meta'.list = new /\ UNCHANGED damaged
    BY <1>3, <2>2, MetaFacts DEF WriteMeta
  <2>4. MarkedNow' = {Asked.id}
    BY <2>2, <2>3, MarkedNext, AskedFacts
  <2>5. op'.kind = op.kind /\ op'.id = op.id /\ op'.step = 2
    BY <1>3, <2>1 DEF OpTyped
  <2>6. Committed({"activate"})
    BY <1>1, <2>3, <2>5, Commits
  <2> QED
    BY <1>1, <2>4, <2>6, SameFiles, StoreActivates
<1> QED
  BY <1>1, <1>2, <1>3

LEMMA ReplyMaps ==
  ASSUME Inv, Reply
  PROVE  Store!StoreNext
<1>1. op' = Rest /\ UNCHANGED <<files, meta, damaged>> /\ op.kind # "boot"
  BY DEF Reply, storeVars, Ended, At
<1>2. UNCHANGED <<Profs, MarkedNow, damaged>> /\ Asked' = AtRest /\ Asked.kind # "boot"
  BY <1>1, SameFiles, SameMeta, Ends, AskedFacts
<1> QED
  BY <1>2, StoreReplies

\* The store is left alone by a profile that is applied, and the request ends with it.
LEMMA ApplyMaps ==
  ASSUME Inv, ApplySend \/ ApplyState \/ ApplyNothing
  PROVE  Maps
<1>1. op.kind \in Applying /\ UNCHANGED <<files, meta, damaged>>
  BY DEF ApplySend, ApplyState, ApplyNothing, Applying, storeVars
<1>2. UNCHANGED <<Profs, MarkedNow, damaged>>
  BY <1>1, SameFiles, SameMeta
<1>3. CASE ApplySend
  <2>1. /\ op.step = ApplyStep
        /\ \E i \in Applied :
               op' = [op EXCEPT !.step = @ + 1, !.body = files[i].json,
                               !.id = IF op.kind = "boot" THEN 0 ELSE @]
    BY <1>3 DEF ApplySend
  <2>2. OpTyped
    BY DEF Inv, StoreInv
  <2>3. op'.kind = op.kind /\ op'.step = op.step + 1 /\ op'.id = (IF op.kind = "boot" THEN 0 ELSE op.id)
    BY <2>1, <2>2 DEF OpTyped
  <2>4. op'.id = op.id
    BY <2>2, <2>3 DEF OpTyped
  <2>5. op.kind = "boot" \/ (op.step > 1 /\ op'.step > 1)
    BY <2>1, <2>3 DEF ApplyStep
  <2>6. UNCHANGED Asked
    BY <2>3, <2>4, <2>5, Goes
  <2> QED
    BY <1>2, <2>6, StoreStutters DEF Maps
<1>4. CASE ApplyState \/ ApplyNothing
  <2>1. op' = Rest
    BY <1>4 DEF ApplyState, ApplyNothing
  <2>2. Asked' = AtRest
    BY <2>1, Ends
  <2>3. CASE op.kind = "boot"
    <3>1. Asked.kind = "boot" /\ damaged' \in {damaged, FALSE} /\ Asked' \in {Asked, AtRest}
      BY <1>2, <2>2, <2>3, AskedFacts
    <3> QED
      BY <1>2, <3>1, StoreBoots DEF Maps
  <2>4. CASE op.kind # "boot"
    <3>1. Asked.kind # "boot"
      BY <2>4, AskedFacts
    <3> QED
      BY <1>2, <2>2, <3>1, StoreReplies DEF Maps
  <2> QED
    BY <2>3, <2>4
<1> QED
  BY <1>3, <1>4

\* The request of the store when the start goes on.
LEMMA BootGoes ==
  ASSUME Inv, op.kind = "boot", NEW step, op' = Then(step)
  PROVE  UNCHANGED Asked /\ Asked.kind = "boot"
<1>1. op'.kind = op.kind /\ op'.id = op.id
  BY DEF Then, Inv, StoreInv, OpTyped
<1> QED
  BY <1>1, Goes, AskedFacts

LEMMA BootListMaps ==
  ASSUME Inv, BootList
  PROVE  Store!StoreNext
<1>1. /\ op.kind = "boot" /\ op' = Then(5) /\ UNCHANGED files
      /\ \/ meta' = Meta(Mended) /\ damaged' = FALSE
         \/ WriteMetaFails
  BY DEF BootList, At
<1>2. UNCHANGED Asked /\ Asked.kind = "boot" /\ UNCHANGED Profs
  BY <1>1, BootGoes, SameFiles
<1>3. CASE WriteMetaFails
  BY <1>1, <1>2, <1>3, MetaFailMaps
<1>4. CASE meta' = Meta(Mended) /\ damaged' = FALSE
  <2>1. /\ Mended \in Seq(Entries)
        /\ Marks(meta.list) # {} => Marks(Mended) = Marks(meta.list) \cap {i \in Ids : Exists(i)}
    BY MendedFacts DEF Inv, StoreInv
  <2>2. meta'.list = Mended
    BY <1>4, <2>1, MetaFacts
  <2>3. MarkedNow \cap DOMAIN Profs # {} => MarkedNow' = MarkedNow \cap DOMAIN Profs
    BY <2>1, <2>2, MarkedFacts, MarkedNext, ProfsFacts
  <2>4. damaged' \in {damaged, FALSE} /\ Asked' \in {Asked, AtRest}
    BY <1>2, <1>4
  <2> QED
    BY <1>2, <2>3, <2>4, StoreBoots
<1> QED
  BY <1>1, <1>3, <1>4

LEMMA BootFoundMaps ==
  ASSUME Inv, BootFound
  PROVE  Store!StoreNext
<1>1. /\ op.kind = "boot" /\ Repaired = << >>
      /\ \/ WriteFile(0, File(Filled)) /\ op' = Then(2) /\ UNCHANGED meta
         \/ WriteFileFails(0, {NoFile, Bad}) /\ op' = Then(5)
  BY DEF BootFound, At
<1>2. StoreTyped /\ 0 \in Ids /\ MirrorTyped
  BY IdsFacts DEF Inv, StoreInv, SettingsInv, SettingsTyped
<1>3. DOMAIN Profs = {} /\ ~Exists(0)
  BY <1>1, <1>2, NothingFound, ProfsFacts
<1>4. UNCHANGED Asked /\ Asked.kind = "boot"
  BY <1>1, BootGoes
<1>5. CASE WriteFile(0, File(Filled)) /\ UNCHANGED meta
  <2> DEFINE c == File(Filled)
  <2>1. files' = [files EXCEPT ![0] = c] /\ UNCHANGED damaged
    BY <1>5 DEF WriteFile
  <2>2. FileTyped(c) /\ c.state = "ok"
    BY <1>2, FilledFacts, FileFacts
  <2> HIDE DEF c
  <2>4. DOMAIN Profs' = DOMAIN Profs \cup {0}
    BY <1>2, <2>1, <2>2, WrittenProfs
  <2>3. DOMAIN Profs' = {0}
    BY <1>3, <2>4
  <2> QED
    BY <1>3, <1>4, <1>5, <2>1, <2>3, SameMeta, StoreFound
<1>6. CASE WriteFileFails(0, {NoFile, Bad})
  <2>1. PICK d \in {NoFile, Bad} : Faulty /\ files' = [files EXCEPT ![0] = d]
    BY <1>6 DEF WriteFileFails
  <2> QED
    BY <1>1, <1>2, <1>3, <1>4, <2>1, FileFailMaps
<1> QED
  BY <1>1, <1>5, <1>6

LEMMA BootFoundListMaps ==
  ASSUME Inv, BootFoundList
  PROVE  Maps
<1>1. /\ op.kind = "boot" /\ op.step = 2 /\ UNCHANGED files
      /\ \/ WriteMeta(Appended(meta, 0)) /\ op' = Then(3)
         \/ Faulty /\ op' = Then(5)
  BY DEF BootFoundList, At
<1>2. UNCHANGED Asked
  BY <1>1, BootGoes
<1>3. CASE WriteMeta(Appended(meta, 0))
  <2>1. meta \in Metas /\ 0 \in Ids
    BY IdsFacts DEF Inv, StoreInv, StoreTyped, Metas
  <2>2. Marks(meta'.list) = Marks(meta.list) /\ UNCHANGED damaged
    BY <1>3, <2>1, AppendedFacts DEF WriteMeta, Metas
  <2>3. UNCHANGED <<Profs, MarkedNow, Asked, damaged>>
    BY <1>1, <1>2, <2>2, MarkedFacts, MarkedNext, SameFiles
  <2> QED
    BY <2>3, StoreStutters DEF Maps
<1>4. CASE Faulty
  BY <1>1, <1>2, <1>4, MetaFailMaps DEF Maps
<1> QED
  BY <1>1, <1>3, <1>4

LEMMA BootFoundMarkMaps ==
  ASSUME Inv, BootFoundMark
  PROVE  Store!StoreNext
<1> DEFINE new == [meta EXCEPT !.list = [k \in DOMAIN @ |-> Entry(@[k].id, @[k].on \/ @[k].id = 0)]]
<1>1. /\ op.kind = "boot" /\ op.step = 3 /\ op' = Then(5) /\ UNCHANGED files
      /\ \/ meta' = new /\ damaged' = FALSE
         \/ WriteMetaFails
  BY DEF BootFoundMark, At
<1>2. UNCHANGED Asked /\ Asked.kind = "boot" /\ UNCHANGED Profs
  BY <1>1, BootGoes, SameFiles
<1>3. CASE WriteMetaFails
  BY <1>1, <1>2, <1>3, MetaFailMaps
<1>4. CASE meta' = new /\ damaged' = FALSE
  <2>1. meta \in Metas
    BY DEF Inv, StoreInv, StoreTyped, Metas
  <2>2. Marks(new.list) = Marks(meta.list) \cup ({0} \cap Listed(meta.list))
    BY <2>1, FirstMarkedFacts
  <2> HIDE DEF new
  <2>3. MarkedNow' = MarkedNow \cup ({0} \cap Listed(meta.list))
    BY <1>4, <2>2, MarkedFacts, MarkedNext
  <2>4. \A i \in DOMAIN Profs : i = 0
    BY <1>1, ProfsFacts DEF Inv, StoreInv, FilesKnown
  <2>5. MarkedNow \cap DOMAIN Profs # {} => MarkedNow' = MarkedNow
    BY <2>3, <2>4
  <2>6. damaged' \in {damaged, FALSE} /\ Asked' \in {Asked, AtRest}
    BY <1>2, <1>4
  <2> QED
    BY <1>2, <2>5, <2>6, StoreBoots
<1> QED
  BY <1>1, <1>3, <1>4

LEMMA CrashMaps ==
  ASSUME Inv, Crash
  PROVE  Store!StoreNext
<1>1. op' = Booting /\ UNCHANGED <<files, meta, damaged>>
  BY DEF Crash, storeVars
<1>2. op'.kind = "boot" /\ op'.id = 0
  BY <1>1, BootingFacts
<1>3. (op'.kind \notin {"none", "boot", "rename"} /\ op'.step > 1) = FALSE
  BY <1>2
<1>4. Done' = FALSE
  BY <1>3 DEF Done
<1>5. Asked' = AtStart
  BY <1>2, <1>4 DEF Asked, AtStart
<1> QED
  BY <1>1, <1>5, SameFiles, SameMeta, StoreRestarts

LEMMA OthersMap ==
  ASSUME UNCHANGED <<files, meta, damaged, op>>
  PROVE  Maps
<1>1. UNCHANGED Asked
  BY DEF Asked, Done
<1> QED
  BY <1>1, SameFiles, SameMeta, StoreStutters DEF Maps

LEMMA RequestMaps ==
  ASSUME Inv, Request
  PROVE  Maps
<1>1. PICK kind \in Kinds \ {"none", "boot"}, i \in Ids, body \in Bodies \cup {Nothing}, patch \in BOOLEAN :
          Ask(kind, i, body, patch)
  BY IdsFacts DEF Request, Kinds
<1> QED
  BY <1>1, AskMaps DEF Maps

LEMMA InitMaps ==
  ASSUME Init
  PROVE  Store!StoreInit
<1>1. Inv
  BY InitStore
<1>2. DOMAIN Profs \subseteq Ids
  BY ProfsFacts
<1>3. MarkedNow \subseteq Ids
  <2>1. meta.list \in Seq(Entries)
    BY <1>1 DEF Inv, StoreInv, StoreTyped
  <2> QED
    BY <2>1, MarkedFacts, ListFacts
<1>4. op.kind = "boot" /\ op.id = 0
  BY BootingFacts DEF Init
<1>5. (op.kind \notin {"none", "boot", "rename"} /\ op.step > 1) = FALSE
  BY <1>4
<1>6. Done = FALSE
  BY <1>5 DEF Done
<1>7. Asked = AtStart /\ damaged = FALSE
  BY <1>4, <1>6 DEF Asked, AtStart, Init
<1> QED
  BY <1>2, <1>3, <1>7, StoreInits

\* The profiles are the store that is promised: every step of a request, of a start, or of a
\* crash between two writes is one step of ProfileStore, or changes nothing of it.
THEOREM StoreRefined == Spec => StoreKept
<1>1. Init => Store!StoreInit
  BY InitMaps
<1>2. Inv /\ [Next]_vars => [Store!StoreNext]_(Store!storeVars)
  <2> SUFFICES ASSUME Inv, [Next]_vars
               PROVE  Maps
    BY DEF Maps
  <2>1. CASE Request
    BY <2>1, RequestMaps
  <2>2. CASE Stored
    BY <2>2, AddMaps, ChangeMaps, ListMaps, DeleteMaps, UnlistMaps, RenameMaps, ActivateMaps,
       ReplyMaps, ApplyMaps, BootListMaps, BootFoundMaps, BootFoundListMaps, BootFoundMarkMaps
       DEF Stored, Maps
  <2>3. CASE Crash
    BY <2>3, CrashMaps DEF Maps
  <2>4. CASE Greet \/ Worker \/ Users \/ UNCHANGED vars
    <3>1. UNCHANGED <<files, meta, damaged, op>>
      BY <2>4 DEF Greet, Worker, Users, vars, storeVars
    <3> QED
      BY <3>1, OthersMap
  <2> QED
    BY <2>1, <2>2, <2>3, <2>4 DEF Next
<1> QED
  BY <1>1, <1>2, ProfilesInvariant, PTL DEF Spec, StoreKept, Store!StoreSpec
=============================================================================
