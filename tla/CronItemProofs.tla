---------------------------- MODULE CronItemProofs ----------------------------
(***************************************************************************)
(* What the parser makes of one item of a list: parse_field_item accepts    *)
(* exactly the well-formed items, and the values it sets are those the item *)
(* denotes.  The heart of it is the loop of set_field_range, which counts   *)
(* in an int that may wrap around and stops at the first value that is out  *)
(* of bounds.                                                               *)
(***************************************************************************)
EXTENDS CronParser, TLAPS, WellFoundedInduction

LEMMA LeastNatural ==
    ASSUME NEW T \in SUBSET Nat, T # {}
    PROVE  \E x \in T : \A y \in T : x <= y
<1>1. PICK x \in T : \A y \in T : ~(<<y, x>> \in OpToRel(<, Nat))
  BY NatLessThanWellFounded, WFMin, Zenon
<1>2. \A y \in T : ~(y < x)
  BY <1>1 DEF OpToRel
<1> QED BY <1>2

-----------------------------------------------------------------------------
(* Arithmetic.                                                              *)

LEMMA ModStep ==
    ASSUME NEW a \in Nat, NEW s \in Nat, s > 0, a >= s
    PROVE  (a - s) % s = 0 <=> a % s = 0
<1>1. ASSUME NEW b \in Nat, NEW n \in Int, b = s * n PROVE b % s = 0
  BY <1>1
<1>2. ASSUME NEW b \in Nat, b % s = 0 PROVE b = s * (b \div s) /\ b \div s \in Nat
  <2>1. b \div s \in Nat /\ b = s * (b \div s) + (b % s)
    OBVIOUS
  <2>2. s * (b \div s) \in Int
    BY <2>1
  <2> QED BY <1>2, <2>1, <2>2
<1>3. ASSUME a % s = 0 PROVE (a - s) % s = 0
  <2>1. PICK q \in Nat : a = s * q
    BY <1>2, <1>3
  <2>2. a - s = s * (q - 1) /\ q - 1 \in Int /\ a - s \in Nat
    BY <2>1
  <2> QED BY <1>1, <2>2
<1>4. ASSUME (a - s) % s = 0 PROVE a % s = 0
  <2>1. PICK q \in Nat : a - s = s * q
    BY <1>2, <1>4
  <2>2. a = s * (q + 1) /\ q + 1 \in Int
    BY <2>1
  <2> QED BY <1>1, <2>2
<1> QED BY <1>3, <1>4

LEMMA ModSmall ==
    ASSUME NEW a \in Nat, NEW s \in Nat, a < s
    PROVE  a % s = 0 <=> a = 0
OBVIOUS

LEMMA PlusValue ==
    ASSUME NEW v \in Nat, v <= IntMax, NEW s \in Nat, s <= IntMax
    PROVE  /\ v + s <= IntMax => Plus(v, s) = v + s
           /\ v + s > IntMax => Plus(v, s) \in Int /\ Plus(v, s) < 0 /\ Plus(v, s) >= -IntMax - 1
BY CronParserAssumption DEF Plus

-----------------------------------------------------------------------------
(* The progression from v in steps of s.                                    *)

Chain(v, finish, s) == {u \in v..finish : (u - v) % s = 0}

LEMMA ChainStep ==
    ASSUME NEW v \in Nat, NEW finish \in Nat, v <= finish, NEW s \in Nat, s > 0
    PROVE  /\ Chain(v, finish, s) = {v} \cup Chain(v + s, finish, s)
           /\ v + s > finish => Chain(v + s, finish, s) = {}
           /\ \A u \in Chain(v + s, finish, s) : u >= v + s /\ u <= finish /\ u \in Nat
<1>1. v \in Chain(v, finish, s)
  BY ModSmall DEF Chain
<1>2. ASSUME NEW u \in Nat, u > v, u < v + s PROVE (u - v) % s # 0
  BY <1>2, ModSmall
<1>3. ASSUME NEW u \in Nat, u >= v + s PROVE (u - v) % s = 0 <=> (u - (v + s)) % s = 0
  <2>1. u - v \in Nat /\ u - v >= s
    BY <1>3
  <2>2. ((u - v) - s) % s = 0 <=> (u - v) % s = 0
    BY <2>1, ModStep
  <2>3. (u - v) - s = u - (v + s)
    BY <1>3
  <2> QED BY <2>2, <2>3
<1>4. \A u : u \in Chain(v, finish, s) <=> u = v \/ u \in Chain(v + s, finish, s)
  <2> SUFFICES ASSUME NEW u
               PROVE  u \in Chain(v, finish, s) <=> u = v \/ u \in Chain(v + s, finish, s)
    OBVIOUS
  <2>1. u \in Chain(v, finish, s) <=> u \in Nat /\ u >= v /\ u <= finish /\ (u - v) % s = 0
    BY DEF Chain
  <2>2. u \in Chain(v + s, finish, s) <=>
           u \in Nat /\ u >= v + s /\ u <= finish /\ (u - (v + s)) % s = 0
    BY DEF Chain
  <2>3. CASE u \in Nat /\ u >= v + s
    BY <1>1, <1>3, <2>1, <2>2, <2>3
  <2>4. CASE u \in Nat /\ u > v /\ u < v + s
    BY <1>2, <2>1, <2>2, <2>4
  <2>5. CASE u = v
    BY <1>1, <2>5
  <2>6. CASE ~(u \in Nat /\ u >= v)
    BY <2>1, <2>2, <2>6
  <2> QED BY <2>3, <2>4, <2>5, <2>6
<1>5. Chain(v, finish, s) = {v} \cup Chain(v + s, finish, s)
  BY <1>4
<1>6. v + s > finish => Chain(v + s, finish, s) = {}
  BY DEF Chain
<1>7. \A u \in Chain(v + s, finish, s) : u >= v + s /\ u <= finish /\ u \in Nat
  BY DEF Chain
<1> QED BY <1>5, <1>6, <1>7


-----------------------------------------------------------------------------
(* The loop of set_field_range.                                             *)

Int32 == (-IntMax - 1)..IntMax

Loop(g, B, finish, s) ==
    g = [v \in Int32 |-> IF v > finish THEN {}
                         ELSE {v} \cup (IF v \in B THEN g[Plus(v, s)] ELSE {})]

(* The recursion is well founded, whatever wraps around: a function that    *)
(* satisfies it can be written down.                                        *)
LEMMA LoopExists ==
    ASSUME NEW lo \in Nat, NEW hi \in Nat, hi <= IntMax,
           NEW finish \in Nat, finish <= IntMax, NEW s \in Nat, s > 0, s <= IntMax
    PROVE  \E g : Loop(g, lo..hi, finish, s)
<1> DEFINE B    == lo..hi
           T(v) == {u \in Chain(v, finish, s) : u - s <= hi}
           W(v) == {w \in Int32 : w < 0 /\ \E u \in Chain(v, finish, s) : u <= hi /\ w = Plus(u, s)}
           g    == [v \in Int32 |-> IF v > finish THEN {}
                                    ELSE IF v \in B THEN T(v) \cup W(v) ELSE {v}]
<1>1. IntMax \in Nat
  BY CronParserAssumption
<1>2. ASSUME NEW v \in B, v <= finish
      PROVE  T(v) \cup W(v) = {v} \cup g[Plus(v, s)]
  <2>1. v \in Nat /\ v <= hi /\ v <= IntMax /\ v >= lo
    BY <1>1, <1>2
  <2>2. /\ Chain(v, finish, s) = {v} \cup Chain(v + s, finish, s)
        /\ v + s > finish => Chain(v + s, finish, s) = {}
        /\ \A u \in Chain(v + s, finish, s) : u >= v + s /\ u <= finish /\ u \in Nat
    BY <1>2, <2>1, ChainStep
  <2>3. /\ v + s <= IntMax => Plus(v, s) = v + s
        /\ v + s > IntMax => Plus(v, s) \in Int /\ Plus(v, s) < 0 /\ Plus(v, s) >= -IntMax - 1
    BY <2>1, PlusValue
  <2>4. CASE v + s > IntMax
    <3>1. Chain(v, finish, s) = {v}
      BY <1>1, <2>1, <2>2, <2>4
    <3>2. Plus(v, s) \in Int32 /\ Plus(v, s) < 0 /\ Plus(v, s) \notin B
      BY <1>1, <2>3, <2>4 DEF Int32
    <3>3. T(v) = {v} /\ W(v) = {Plus(v, s)}
      BY <2>1, <3>1, <3>2
    <3>4. g[Plus(v, s)] = {Plus(v, s)}
      BY <3>2 DEF Int32
    <3> QED BY <3>3, <3>4
  <2>5. CASE v + s <= IntMax
    <3> PICK n \in Nat : n = v + s
      BY <2>1
    <3>1. Plus(v, s) = n /\ n \in Int32
      BY <1>1, <2>1, <2>3, <2>5 DEF Int32
    <3>2. T(v) = {v} \cup T(n)
      BY <2>1, <2>2
    <3>3. W(v) = W(n)
      <4>1. Plus(v, s) >= 0
        BY <3>1
      <4>2. Chain(v, finish, s) = {v} \cup Chain(n, finish, s)
        BY <2>2
      <4>3. ASSUME NEW w \in Int32, w < 0
            PROVE  (\E u \in Chain(v, finish, s) : u <= hi /\ w = Plus(u, s))
                   <=> (\E u \in Chain(n, finish, s) : u <= hi /\ w = Plus(u, s))
        <5>1. w # Plus(v, s)
          BY <1>1, <3>1, <4>1, <4>3 DEF Int32
        <5> QED BY <4>2, <5>1, Zenon
      <4> QED BY <4>3
    <3>4. CASE n > finish
      <4>1. Chain(n, finish, s) = {}
        BY <2>2, <3>4
      <4>2. T(n) = {} /\ W(n) = {} /\ g[n] = {}
        BY <3>1, <3>4, <4>1
      <4> QED BY <3>1, <3>2, <3>3, <4>2
    <3>5. CASE n <= finish /\ n \in B
      <4>1. g[n] = T(n) \cup W(n)
        BY <3>1, <3>5
      <4> HIDE DEF T, W, g
      <4> QED BY <3>1, <3>2, <3>3, <4>1
    <3>6. CASE n <= finish /\ n \notin B
      <4>1. n > hi
        BY <2>1, <3>6
      <4>2. /\ Chain(n, finish, s) = {n} \cup Chain(n + s, finish, s)
            /\ \A u \in Chain(n + s, finish, s) : u >= n + s /\ u <= finish /\ u \in Nat
        BY <3>6, ChainStep
      <4>3. n - s <= hi
        BY <2>1
      <4>4. T(n) = {n}
        BY <4>1, <4>2, <4>3
      <4>5. W(n) = {}
        BY <4>1, <4>2
      <4>6. g[n] = {n}
        BY <3>1, <3>6
      <4> HIDE DEF T, W, g
      <4> QED BY <3>1, <3>2, <3>3, <4>4, <4>5, <4>6
    <3> HIDE DEF T, W, g, B
    <3> QED BY <3>4, <3>5, <3>6
  <2> QED BY <1>1, <2>1, <2>4, <2>5
<1>3. g = [v \in Int32 |-> IF v > finish THEN {}
                           ELSE {v} \cup (IF v \in B THEN g[Plus(v, s)] ELSE {})]
  <2>1. ASSUME NEW v \in Int32
        PROVE  g[v] = IF v > finish THEN {}
                      ELSE {v} \cup (IF v \in B THEN g[Plus(v, s)] ELSE {})
    <3>1. CASE v > finish
      BY <3>1
    <3>2. CASE ~(v > finish) /\ v \in B
      <4>1. v <= finish
        BY <1>1, <3>2 DEF Int32
      <4>2. g[v] = T(v) \cup W(v)
        BY <3>2
      <4>3. T(v) \cup W(v) = {v} \cup g[Plus(v, s)]
        BY <1>2, <3>2, <4>1
      <4> HIDE DEF g, T, W
      <4> QED BY <3>2, <4>2, <4>3
    <3>3. CASE ~(v > finish) /\ v \notin B
      BY <3>3
    <3> QED BY <3>1, <3>2, <3>3
  <2> DEFINE e(v) == IF v > finish THEN {}
                     ELSE {v} \cup (IF v \in B THEN g[Plus(v, s)] ELSE {})
             f(v) == IF v > finish THEN {} ELSE IF v \in B THEN T(v) \cup W(v) ELSE {v}
  <2>2. \A v \in Int32 : f(v) = e(v)
    <3>1. \A v \in Int32 : g[v] = f(v)
      BY DEF g
    <3> HIDE DEF g, f, T, W
    <3> QED BY <2>1, <3>1
  <2>3. g = [v \in Int32 |-> f(v)]
    OBVIOUS
  <2> HIDE DEF g, f, e
  <2>4. g = [v \in Int32 |-> e(v)]
    BY <2>2, <2>3
  <2> QED BY <2>4 DEF e
<1> HIDE DEF g
<1> QED BY <1>3 DEF Loop


(* All the progression is in bounds, and counting past its last value stays *)
(* within an int.                                                           *)
InRange(v, B, finish, s) ==
    /\ Chain(v, finish, s) \subseteq B
    /\ \A u \in Chain(v, finish, s) : finish - u < s => u + s <= IntMax

(* Whatever satisfies the recursion stays in bounds exactly when it should, *)
(* and has then visited the progression.                                    *)
LEMMA LoopMeans ==
    ASSUME NEW lo \in Nat, NEW hi \in Nat, hi <= IntMax,
           NEW finish \in Nat, finish <= IntMax, NEW s \in Nat, s > 0, s <= IntMax,
           NEW g, Loop(g, lo..hi, finish, s), NEW start \in Nat, start <= finish
    PROVE  /\ g[start] \subseteq lo..hi <=> InRange(start, lo..hi, finish, s)
           /\ g[start] \subseteq lo..hi => g[start] = Chain(start, finish, s)
<1> DEFINE B    == lo..hi
           P(v) == /\ g[v] \subseteq B <=> InRange(v, B, finish, s)
                   /\ g[v] \subseteq B => g[v] = Chain(v, finish, s)
<1>1. IntMax \in Nat
  BY CronParserAssumption
<1>2. \A v \in Int32 : g[v] = IF v > finish THEN {}
                              ELSE {v} \cup (IF v \in B THEN g[Plus(v, s)] ELSE {})
  BY DEF Loop
<1>3. ASSUME NEW v \in Nat, v <= finish, v + s <= finish => P(v + s)
      PROVE  P(v)
  <2>1. v \in Int32 /\ v <= IntMax
    BY <1>1, <1>3 DEF Int32
  <2>2. g[v] = {v} \cup (IF v \in B THEN g[Plus(v, s)] ELSE {})
    <3>1. ~(v > finish)
      BY <1>3
    <3> HIDE DEF B
    <3> QED BY <1>2, <2>1, <3>1
  <2>3. /\ Chain(v, finish, s) = {v} \cup Chain(v + s, finish, s)
        /\ v + s > finish => Chain(v + s, finish, s) = {}
    BY <1>3, ChainStep
  <2>4. /\ v + s <= IntMax => Plus(v, s) = v + s
        /\ v + s > IntMax => Plus(v, s) \in Int /\ Plus(v, s) < 0 /\ Plus(v, s) >= -IntMax - 1
    BY <2>1, PlusValue
  <2>5. CASE v \notin B
    BY <2>2, <2>3, <2>5 DEF InRange
  <2>6. CASE v \in B /\ v + s > IntMax
    <3>1. Plus(v, s) \in Int32 /\ Plus(v, s) \notin B /\ ~(Plus(v, s) > finish)
      BY <1>1, <2>4, <2>6 DEF Int32
    <3>2. Plus(v, s) \in g[v]
      BY <1>2, <2>2, <2>6, <3>1
    <3>3. ~(g[v] \subseteq B)
      BY <3>1, <3>2
    <3>4. v \in Chain(v, finish, s) /\ finish - v < s /\ ~(v + s <= IntMax)
      BY <1>1, <1>3, <2>3, <2>6
    <3>5. ~InRange(v, B, finish, s)
      BY <3>4 DEF InRange
    <3> HIDE DEF B
    <3> QED BY <3>3, <3>5
  <2>7. CASE v \in B /\ v + s <= IntMax /\ v + s > finish
    <3>1. v + s \in Int32
      BY <1>1, <1>3, <2>7 DEF Int32
    <3>2. g[v + s] = {}
      BY <1>2, <2>7, <3>1
    <3>3. g[v] = {v} /\ Chain(v, finish, s) = {v}
      BY <2>2, <2>3, <2>4, <2>7, <3>2
    <3> QED BY <2>7, <3>3 DEF InRange
  <2>8. CASE v \in B /\ v + s <= IntMax /\ v + s <= finish
    <3>1. g[v] = {v} \cup g[v + s]
      BY <2>2, <2>4, <2>8
    <3>2. InRange(v, B, finish, s) <=> InRange(v + s, B, finish, s)
      <4>1. ~(finish - v < s)
        BY <1>3, <2>8
      <4> HIDE DEF B
      <4> QED BY <2>3, <2>8, <4>1 DEF InRange
    <3>3. P(v + s)
      BY <1>3, <2>8
    <3> HIDE DEF B
    <3> QED BY <2>3, <2>8, <3>1, <3>2, <3>3
  <2> HIDE DEF P, B
  <2>9. v + s > IntMax \/ v + s <= IntMax
    BY <1>1, <1>3
  <2>10. v + s > finish \/ v + s <= finish
    BY <1>3
  <2> QED BY <2>5, <2>6, <2>7, <2>8, <2>9, <2>10
<1> HIDE DEF P
<1>4. ASSUME NEW v \in Nat, v <= finish PROVE P(v)
  <2> SUFFICES ASSUME ~P(v) PROVE FALSE
    OBVIOUS
  <2> DEFINE Bad == {n \in 0..finish : ~P(finish - n)}
  <2>1. finish - v \in Bad
    <3>1. finish - (finish - v) = v /\ finish - v \in 0..finish
      BY <1>4
    <3> QED BY <3>1
  <2>2. Bad \in SUBSET Nat /\ Bad # {}
    <3>1. \A n \in Bad : n \in Nat
      OBVIOUS
    <3> HIDE DEF Bad
    <3> QED BY <2>1, <3>1
  <2>3. PICK n \in Bad : \A m \in Bad : n <= m
    BY <2>2, LeastNatural
  <2> PICK w \in Nat : w = finish - n /\ w <= finish
    OBVIOUS
  <2>4. ~P(w)
    OBVIOUS
  <2>5. ASSUME w + s <= finish PROVE P(w + s)
    <3>1. n - s \in 0..finish /\ ~(n <= n - s)
      BY <2>5
    <3>2. finish - (n - s) = w + s
      OBVIOUS
    <3> QED BY <2>3, <3>1, <3>2
  <2> QED BY <1>3, <2>4, <2>5
<1>5. P(start)
  BY <1>4
<1> QED BY <1>5 DEF P


LEMMA TypeNames ==
    Types = {"CRON_MINUTE", "CRON_HOUR", "CRON_DOM", "CRON_M", "CRON_DOW"}
<1>1. DOMAIN FieldType = 1..5
  BY DEF FieldType
<1>2. 1..5 = {1, 2, 3, 4, 5}
  OBVIOUS
<1> QED BY <1>1, <1>2 DEF Types, Range, FieldType

LEMMA BoundsShape ==
    ASSUME NEW type \in Types
    PROVE  /\ get_bounds[type].min \in Nat /\ get_bounds[type].max \in Nat
           /\ get_bounds[type].min <= 1 /\ get_bounds[type].max >= 7 
           /\ get_bounds[type].max <= 59 /\ get_bounds[type].max <= IntMax
BY TypeNames, CronParserAssumption DEF get_bounds

(* An int the parser may hold.                                              *)
Small(n) == n \in Nat /\ n <= IntMax

LEMMA VisitedLoop ==
    ASSUME NEW type \in Types, NEW finish, Small(finish), NEW s, Small(s), s > 0,
           NEW start, Small(start), start <= finish
    PROVE  LET V == Visited(type, start, finish, s) IN
           /\ V \subseteq Bounds(type) <=> InRange(start, Bounds(type), finish, s)
           /\ V \subseteq Bounds(type) => V = Chain(start, finish, s)
<1> DEFINE from == CHOOSE g : Loop(g, Bounds(type), finish, s)
<1>1. Visited(type, start, finish, s) = from[start]
  BY DEF Visited, Loop, Int32
<1>2. \E g : Loop(g, Bounds(type), finish, s)
  BY BoundsShape, LoopExists DEF Small, Bounds
<1>3. Loop(from, Bounds(type), finish, s)
  BY <1>2
<1> HIDE DEF from
<1> DEFINE lo == get_bounds[type].min
           hi == get_bounds[type].max
<1>4. /\ from[start] \subseteq lo..hi <=> InRange(start, lo..hi, finish, s)
      /\ from[start] \subseteq lo..hi => from[start] = Chain(start, finish, s)
  <2>1. lo \in Nat /\ hi \in Nat /\ hi <= IntMax /\ Loop(from, lo..hi, finish, s)
    BY <1>3, BoundsShape DEF Bounds
  <2> HIDE DEF lo, hi
  <2> QED BY <2>1, LoopMeans DEF Small
<1> QED BY <1>1, <1>4 DEF Bounds

(* What set_field_range answers, and what it sets when it accepts.          *)
RangeAccepted(type, start, finish, s) ==
    s > 0 /\ start <= finish /\ InRange(start, Bounds(type), finish, s)

LEMMA RangeMeans ==
    ASSUME NEW type \in Types, NEW start, Small(start), NEW finish, Small(finish),
           NEW s, Small(s)
    PROVE  LET r == set_field_range(type, start, finish, s) IN
           /\ r.ok \in BOOLEAN
           /\ r.ok <=> RangeAccepted(type, start, finish, s)
           /\ r.ok => r.values = Chain(start, finish, s)
           /\ r.star = FALSE /\ r.last = FALSE
<1> DEFINE V == Visited(type, start, finish, s)
           r == set_field_range(type, start, finish, s)
<1>1. CASE s <= 0 \/ start > finish
  <2>1. r = Rejected
    BY <1>1 DEF set_field_range
  <2>2. ~RangeAccepted(type, start, finish, s)
    BY <1>1 DEF RangeAccepted, Small
  <2> HIDE DEF r
  <2> QED BY <2>1, <2>2 DEF Rejected, r
<1>2. CASE ~(s <= 0 \/ start > finish)
  <2>1. s > 0 /\ start <= finish
    BY <1>2 DEF Small
  <2>2. /\ V \subseteq Bounds(type) <=> InRange(start, Bounds(type), finish, s)
        /\ V \subseteq Bounds(type) => V = Chain(start, finish, s)
    BY <2>1, VisitedLoop
  <2>3. r = [Rejected EXCEPT !.ok = (V \subseteq Bounds(type)), !.values = V]
    BY <1>2 DEF set_field_range
  <2> HIDE DEF V, r
  <2>4. r.ok = (V \subseteq Bounds(type)) /\ r.values = V /\ r.star = FALSE /\ r.last = FALSE
    BY <2>3 DEF Rejected
  <2>5. r.ok \in BOOLEAN /\ (r.ok <=> RangeAccepted(type, start, finish, s))
    BY <2>1, <2>2, <2>4 DEF RangeAccepted
  <2> QED BY <2>2, <2>4, <2>5 DEF r
<1> QED BY <1>1, <1>2


-----------------------------------------------------------------------------
(* What a progression denotes.                                              *)

(* The ends and the steps of Progressions.                                  *)
Whole(type) == {"star"} \cup (IF type = "CRON_DOM" THEN {"last"} ELSE {})

RangeEnds(type, base) ==
    Numbers(type, base[1]) \X
        (Numbers(type, base[2]) \cup
            (IF type = "CRON_DOM" /\ base[2].kind = "last" THEN {31} ELSE {}))

ItemEnds(type, item) ==
    IF Len(item[1]) = 2 THEN RangeEnds(type, item[1])
    ELSE IF Len(item[1]) = 1 /\ item[1][1].kind \in Whole(type)
    THEN {<<get_bounds[type].min, get_bounds[type].max>>}
    ELSE IF Len(item[1]) = 1 /\ Len(item) = 1
    THEN {<<n, n>> : n \in Numbers(type, item[1][1])}
    ELSE {}

ItemSteps(item) ==
    IF Len(item) = 1 THEN {1}
    ELSE IF Len(item) = 2 THEN parse_integer(item[2]) \ {0}
    ELSE {}

LEMMA ProgressionsOf ==
    ASSUME NEW type, NEW item
    PROVE  Progressions(type, item) =
              {<<e[1], e[2], n>> : e \in ItemEnds(type, item), n \in ItemSteps(item)}
BY DEF Progressions, ItemEnds, ItemSteps, RangeEnds, Whole

LEMMA NoProgression ==
    ASSUME NEW type, NEW item, ItemEnds(type, item) = {} \/ ItemSteps(item) = {},
           ~IsLastDay(type, item)
    PROVE  ~WellFormed(type, item)
<1>1. Progressions(type, item) = {}
  BY ProgressionsOf
<1> QED BY <1>1 DEF WellFormed, Denotes

LEMMA OneProgression ==
    ASSUME NEW type \in Types, NEW item, ~IsLastDay(type, item),
           NEW a, Small(a), NEW b, Small(b), NEW n, Small(n), n > 0,
           ItemEnds(type, item) = {<<a, b>>}, ItemSteps(item) = {n}
    PROVE  /\ WellFormed(type, item) <=> RangeAccepted(type, a, b, n)
           /\ Denotes(type, item) = Chain(a, b, n)
<1> DEFINE p == <<a, b, n>>
<1>1. Progressions(type, item) = {p}
  <2>1. Progressions(type, item) = {<<e[1], e[2], m>> : e \in {<<a, b>>}, m \in {n}}
    BY ProgressionsOf
  <2>2. <<a, b>>[1] = a /\ <<a, b>>[2] = b
    OBVIOUS
  <2> QED BY <2>1, <2>2
<1>2. Members(p) = Chain(a, b, n)
  BY DEF Members, Chain
<1>3. Denotes(type, item) = Chain(a, b, n)
  BY <1>1, <1>2 DEF Denotes
<1>4. Chain(a, b, n) # {} <=> a <= b
  <2>1. a \in Nat /\ b \in Nat /\ n \in Nat
    BY DEF Small
  <2>2. CASE a <= b
    <3>1. Chain(a, b, n) = {a} \cup Chain(a + n, b, n)
      BY <2>1, <2>2, ChainStep
    <3> QED BY <2>2, <3>1
  <2>3. CASE ~(a <= b)
    BY <2>1, <2>3 DEF Chain
  <2> QED BY <2>2, <2>3
<1>5. (\A q \in Progressions(type, item) : \A v \in Members(q) : q[2] - v < q[3] => v + q[3] <= IntMax)
      <=> \A v \in Chain(a, b, n) : b - v < n => v + n <= IntMax
  <2>1. p[1] = a /\ p[2] = b /\ p[3] = n
    OBVIOUS
  <2> HIDE DEF p
  <2> QED BY <1>1, <1>2, <2>1
<1>6. WellFormed(type, item) <=> RangeAccepted(type, a, b, n)
  BY <1>3, <1>4, <1>5 DEF WellFormed, RangeAccepted, InRange
<1> QED BY <1>3, <1>6

(* What it takes for an answer of the parser to an item to be right.        *)
Right(r, type, item) ==
    /\ r.ok \in BOOLEAN
    /\ r.ok <=> WellFormed(type, item)
    /\ r.ok => r.values = Denotes(type, item)

LEMMA RejectedRight ==
    ASSUME NEW type, NEW item, ItemEnds(type, item) = {} \/ ItemSteps(item) = {},
           ~IsLastDay(type, item)
    PROVE  Right(Rejected, type, item)
BY NoProgression DEF Right, Rejected

LEMMA RangeRight ==
    ASSUME NEW type \in Types, NEW item, ~IsLastDay(type, item),
           NEW a, Small(a), NEW b, Small(b), NEW n, Small(n), n > 0,
           ItemEnds(type, item) = {<<a, b>>}, ItemSteps(item) = {n}
    PROVE  Right(set_field_range(type, a, b, n), type, item)
<1> DEFINE r == set_field_range(type, a, b, n)
<1>1. /\ r.ok \in BOOLEAN /\ (r.ok <=> RangeAccepted(type, a, b, n))
      /\ r.ok => r.values = Chain(a, b, n)
  BY RangeMeans
<1>2. /\ WellFormed(type, item) <=> RangeAccepted(type, a, b, n)
      /\ Denotes(type, item) = Chain(a, b, n)
  BY OneProgression
<1> HIDE DEF r
<1>3. Right(r, type, item)
  BY <1>1, <1>2 DEF Right
<1> QED BY <1>3 DEF r

-----------------------------------------------------------------------------
(* Words.                                                                   *)

Singleton(S) == \E n : Small(n) /\ S = {n}

LEMMA IntegerOf ==
    ASSUME NEW part \in Seq(Words)
    PROVE  parse_integer(part) = {} \/ Singleton(parse_integer(part))
<1>1. CASE IsWord(part, "num") /\ part[1].val <= IntMax
  <2>1. part[1] \in Words
    BY <1>1 DEF IsWord
  <2>2. part[1].val \in Nat
    BY <2>1 DEF Words
  <2>3. parse_integer(part) = {part[1].val} /\ Small(part[1].val)
    BY <1>1, <2>2 DEF parse_integer, Small
  <2> QED BY <2>3 DEF Singleton
<1>2. CASE ~(IsWord(part, "num") /\ part[1].val <= IntMax)
  BY <1>2 DEF parse_integer
<1> QED BY <1>1, <1>2

LEMMA ValueOfWord ==
    ASSUME NEW type, NEW part, Len(part) = 1
    PROVE  /\ parse_field_value(type, part) = Numbers(type, part[1])
           /\ parse_integer(part) = parse_integer(<<part[1]>>)
<1>1. \A k : IsWord(part, k) <=> IsWord(<<part[1]>>, k)
  BY DEF IsWord
<1>2. /\ parse_integer(part) = parse_integer(<<part[1]>>)
      /\ \A k : search_for_cron_name(k, part) = search_for_cron_name(k, <<part[1]>>)
  BY <1>1 DEF parse_integer, search_for_cron_name
<1> QED BY <1>2 DEF parse_field_value, Numbers

LEMMA NumbersOf ==
    ASSUME NEW type \in Types, NEW w \in Words
    PROVE  /\ Numbers(type, w) = {} \/ Singleton(Numbers(type, w))
           /\ w.kind \notin {"num", "month", "dow"} => Numbers(type, w) = {}
<1> DEFINE part == <<w>>
<1>1. IntMax \in Nat /\ IntMax > 60
  BY CronParserAssumption
<1>2. \A k : IsWord(part, k) <=> w.kind = k
  BY DEF IsWord
<1>3. parse_integer(part) = IF w.kind = "num" /\ w.val <= IntMax THEN {w.val} ELSE {}
  BY <1>2 DEF parse_integer
<1>4. \A k : search_for_cron_name(k, part) = IF w.kind = k THEN {w.val} ELSE {}
  BY <1>2 DEF search_for_cron_name
<1>5. w.val \in Nat
  BY DEF Words
<1>6. w.kind \in {"month", "dow"} => w.val <= IntMax
  BY <1>1 DEF Words
<1> DEFINE named == CASE type = "CRON_M"   -> search_for_cron_name("month", part)
                      [] type = "CRON_DOW" -> search_for_cron_name("dow", part)
                      [] OTHER             -> {}
<1>7. Numbers(type, w) = parse_integer(part) \cup named
  BY DEF Numbers, parse_field_value
<1>8. \/ named = {}
      \/ w.kind \in {"month", "dow"} /\ named = {w.val}
  BY <1>4
<1> HIDE DEF part, named
<1>9. \/ Numbers(type, w) = {}
      \/ Numbers(type, w) = {w.val} /\ w.kind \in {"num", "month", "dow"} /\ w.val <= IntMax
  BY <1>3, <1>6, <1>7, <1>8
<1> QED BY <1>5, <1>9 DEF Singleton, Small


-----------------------------------------------------------------------------
(* Items.                                                                   *)

Item == Parts(Parts(Words))

LEMMA PartShape ==
    ASSUME NEW part \in Parts(Words)
    PROVE  /\ part \in Seq(Words) /\ Len(part) \in Nat /\ Len(part) > 0
           /\ \A i \in 1..Len(part) : part[i] \in Words
BY DEF Parts

LEMMA ItemShape ==
    ASSUME NEW item \in Item
    PROVE  /\ item \in Seq(Parts(Words)) /\ Len(item) \in Nat /\ Len(item) > 0
           /\ \A i \in 1..Len(item) : item[i] \in Parts(Words)
<1> DEFINE S == Parts(Words)
<1>1. item \in Seq(S) \ {<<>>}
  BY DEF Item, Parts
<1> HIDE DEF S
<1>2. /\ item \in Seq(S) /\ Len(item) \in Nat /\ Len(item) > 0
      /\ \A i \in 1..Len(item) : item[i] \in S
  BY <1>1
<1> QED BY <1>2 DEF S

(* The word of an empty string is the one word of its kind.                 *)
LEMMA EmptyWords ==
    ASSUME NEW w \in Words
    PROVE  w.kind = "empty" <=> w = EmptyWord
BY DEF Words, EmptyWord, Word

(* parse_range reads the ends of a range as they are meant.                 *)
LEMMA RangeOf ==
    ASSUME NEW type \in Types, NEW part \in Parts(Words), Len(part) > 1
    PROVE  LET E == IF Len(part) = 2 THEN RangeEnds(type, part) ELSE {} IN
           /\ parse_range(type, part) = E
           /\ \/ E = {}
              \/ \E a, b : Small(a) /\ Small(b) /\ E = {<<a, b>>}
<1>1. CASE Len(part) # 2
  BY <1>1 DEF parse_range
<1>2. CASE Len(part) = 2
  <2> DEFINE A == Numbers(type, part[1])
             B == Numbers(type, part[2])
             L == IF type = "CRON_DOM" /\ part[2].kind = "last" THEN {31} ELSE {}
  <2>1. part \in Seq(Words) /\ part[1] \in Words /\ part[2] \in Words
    BY <1>2, PartShape
  <2>2. /\ A = {} \/ Singleton(A)
        /\ B = {} \/ Singleton(B)
        /\ part[1].kind \notin {"num", "month", "dow"} => A = {}
        /\ part[2].kind \notin {"num", "month", "dow"} => B = {}
    BY <2>1, NumbersOf
  <2>3. RangeEnds(type, part) = A \X (B \cup L)
    BY DEF RangeEnds
  <2>4. Small(31)
    BY CronParserAssumption DEF Small
  <2>5. B \cup L = {} \/ Singleton(B \cup L)
    <3>1. L = {} \/ (L = {31} /\ B = {})
      BY <2>2
    <3> HIDE DEF L, B
    <3>2. CASE L = {}
      BY <2>2, <3>2
    <3>3. CASE L = {31} /\ B = {}
      BY <2>4, <3>3 DEF Singleton
    <3> QED BY <3>1, <3>2, <3>3
  <2>6. \/ A \X (B \cup L) = {}
        \/ \E a, b : Small(a) /\ Small(b) /\ A \X (B \cup L) = {<<a, b>>}
    <3> DEFINE C == B \cup L
    <3>1. (A = {} \/ Singleton(A)) /\ (C = {} \/ Singleton(C))
      BY <2>2, <2>5
    <3> HIDE DEF A, C
    <3>2. CASE A = {} \/ C = {}
      BY <3>2 DEF C
    <3>3. CASE Singleton(A) /\ Singleton(C)
      <4>1. PICK a : Small(a) /\ A = {a}
        BY <3>3 DEF Singleton
      <4>2. PICK b : Small(b) /\ C = {b}
        BY <3>3 DEF Singleton
      <4>3. A \X C = {<<a, b>>}
        BY <4>1, <4>2
      <4> QED BY <4>1, <4>2, <4>3 DEF C
    <3> QED BY <3>1, <3>2, <3>3
  <2>7. parse_range(type, part) = A \X (B \cup L)
    <3>1. CASE has_empty_part(part, EmptyWord)
      <4>1. PICK i \in DOMAIN part : part[i] = EmptyWord
        BY <3>1 DEF has_empty_part, Range
      <4>2. i = 1 \/ i = 2
        BY <1>2, <2>1, <4>1
      <4>3. EmptyWord.kind = "empty"
        BY DEF EmptyWord, Word
      <4>4. A = {} \/ (B = {} /\ L = {})
        BY <2>2, <4>1, <4>2, <4>3
      <4>5. A \X (B \cup L) = {}
        <5> HIDE DEF A, B, L
        <5> QED BY <4>4
      <4> QED BY <3>1, <4>5 DEF parse_range
    <3>2. CASE ~has_empty_part(part, EmptyWord)
      <4>1. parse_range(type, part) =
               A \X (IF type = "CRON_DOM" /\ part[2].kind = "last" THEN {31} ELSE B)
        BY <1>2, <3>2 DEF parse_range, Numbers
      <4>2. B \cup L = IF type = "CRON_DOM" /\ part[2].kind = "last" THEN {31} ELSE B
        BY <2>2
      <4> QED BY <4>1, <4>2
    <3> QED BY <3>1, <3>2
  <2> HIDE DEF A, B, L
  <2> QED BY <1>2, <2>3, <2>6, <2>7
<1> QED BY <1>1, <1>2

LEMMA RangesRight ==
    ASSUME NEW type \in Types, NEW item \in Item, Len(item[1]) > 1,
           NEW n, Small(n), n > 0, ItemSteps(item) = {n}
    PROVE  Right(Ranges(type, item[1], n), type, item)
<1> DEFINE part == item[1]
           E == IF Len(part) = 2 THEN RangeEnds(type, part) ELSE {}
<1>1. part \in Parts(Words) /\ Len(part) \in Nat /\ Len(item[1]) # 1
  <2>1. part \in Parts(Words)
    BY ItemShape
  <2>2. Len(part) \in Nat
    BY <2>1, PartShape
  <2>3. \A k \in Nat : k > 1 => k # 1
    OBVIOUS
  <2> QED BY <2>1, <2>2, <2>3
<1>2. ~IsLastDay(type, item)
  BY <1>1 DEF IsLastDay, IsToken, IsWord
<1>3. ItemEnds(type, item) = E
  BY <1>1 DEF ItemEnds
<1>4. /\ parse_range(type, part) = E
      /\ E = {} \/ \E a, b : Small(a) /\ Small(b) /\ E = {<<a, b>>}
  BY <1>1, RangeOf
<1> HIDE DEF E, part
<1>5. CASE E = {}
  <2>1. Ranges(type, part, n) = Rejected
    BY <1>4, <1>5 DEF Ranges
  <2> QED BY <1>2, <1>3, <1>5, <2>1, RejectedRight DEF part
<1>6. CASE \E a, b : Small(a) /\ Small(b) /\ E = {<<a, b>>}
  <2>1. PICK a, b : Small(a) /\ Small(b) /\ E = {<<a, b>>}
    BY <1>6
  <2>2. (CHOOSE p \in parse_range(type, part) : TRUE) = <<a, b>>
    BY <1>4, <2>1
  <2>3. Ranges(type, part, n) = set_field_range(type, a, b, n)
    BY <1>4, <2>1, <2>2 DEF Ranges
  <2>4. Right(set_field_range(type, a, b, n), type, item)
    BY <1>2, <1>3, <2>1, RangeRight
  <2> QED BY <2>3, <2>4 DEF part
<1> QED BY <1>4, <1>5, <1>6

LEMMA WholeRight ==
    ASSUME NEW type \in Types, NEW item \in Item,
           Len(item[1]) = 1, item[1][1].kind \in Whole(type), ~IsLastDay(type, item),
           NEW n, Small(n), n > 0, ItemSteps(item) = {n}
    PROVE  Right(WholeRange(type, n), type, item)
<1>1. ItemEnds(type, item) = {<<get_bounds[type].min, get_bounds[type].max>>}
  BY DEF ItemEnds
<1>2. Small(get_bounds[type].min) /\ Small(get_bounds[type].max)
  BY BoundsShape, CronParserAssumption DEF Small
<1> QED BY <1>1, <1>2, RangeRight DEF WholeRange


LEMMA StepRight ==
    ASSUME NEW type \in Types, NEW item \in Item, Len(item) > 1
    PROVE  Right(StepItem(type, item), type, item)
<1> DEFINE refused == \/ has_empty_part(item, <<EmptyWord>>)
                      \/ Len(item) # 2
                      \/ parse_integer(item[2]) \subseteq {0}
<1>0. Len(item) \in Nat /\ Len(item) # 1 /\ item[1] \in Parts(Words)
  <2>1. \A k \in Nat : k > 1 => k # 1 /\ 1 \in 1..k
    OBVIOUS
  <2> QED BY <2>1, ItemShape
<1>1. ~IsLastDay(type, item)
  BY <1>0 DEF IsLastDay, IsToken
<1>2. ItemSteps(item) = IF Len(item) = 2 THEN parse_integer(item[2]) \ {0} ELSE {}
  BY <1>0 DEF ItemSteps
<1>3. item[1] \in Seq(Words) /\ Len(item[1]) \in Nat /\ Len(item[1]) > 0
      /\ item[1][1] \in Words
  BY <1>0, PartShape
<1>4. CASE refused
  <2>1. StepItem(type, item) = Rejected
    BY <1>4 DEF StepItem
  <2>2. ItemEnds(type, item) = {} \/ ItemSteps(item) = {}
    <3>1. CASE Len(item) # 2 \/ parse_integer(item[2]) \subseteq {0}
      BY <1>2, <3>1
    <3>2. CASE has_empty_part(item, <<EmptyWord>>) /\ Len(item) = 2
      <4>1. PICK i \in DOMAIN item : item[i] = <<EmptyWord>>
        BY <3>2 DEF has_empty_part, Range
      <4>2. i = 1 \/ i = 2
        BY <3>2, <4>1, ItemShape
      <4>3. EmptyWord.kind = "empty" /\ Len(<<EmptyWord>>) = 1 /\ <<EmptyWord>>[1] = EmptyWord
        BY DEF EmptyWord, Word
      <4>4. CASE i = 2
        <5>1. parse_integer(item[2]) = {}
          BY <4>1, <4>3, <4>4 DEF parse_integer, IsWord
        <5> QED BY <1>2, <5>1
      <4>5. CASE i = 1
        <5>1. Len(item[1]) = 1 /\ item[1][1].kind = "empty"
          BY <4>1, <4>3, <4>5
        <5>2. item[1][1].kind \notin Whole(type)
          BY <5>1 DEF Whole
        <5> QED BY <1>0, <5>1, <5>2 DEF ItemEnds
      <4> QED BY <4>2, <4>4, <4>5
    <3> QED BY <1>4, <3>1, <3>2
  <2> QED BY <1>1, <2>1, <2>2, RejectedRight
<1>5. CASE ~refused
  <2>1. Len(item) = 2 /\ item[2] \in Parts(Words)
    BY <1>5, ItemShape
  <2>2. item[2] \in Seq(Words)
    BY <2>1, PartShape
  <2>3. PICK n : Small(n) /\ parse_integer(item[2]) = {n}
    BY <1>5, <2>2, IntegerOf DEF Singleton
  <2>4. n # 0 /\ n > 0
    BY <1>5, <2>3 DEF Small
  <2>5. ItemSteps(item) = {n}
    BY <1>2, <2>1, <2>3, <2>4
  <2>6. (CHOOSE k \in parse_integer(item[2]) : TRUE) = n
    BY <2>3
  <2>7. StepItem(type, item) =
           IF \/ IsWord(item[1], "star")
              \/ type = "CRON_DOM" /\ IsWord(item[1], "last")
           THEN WholeRange(type, n)
           ELSE IF Len(item[1]) > 1 THEN Ranges(type, item[1], n)
           ELSE Rejected
    <3> DEFINE step == CHOOSE k \in parse_integer(item[2]) : TRUE
    <3>1. StepItem(type, item) =
             IF \/ IsWord(item[1], "star")
                \/ type = "CRON_DOM" /\ IsWord(item[1], "last")
             THEN WholeRange(type, step)
             ELSE IF Len(item[1]) > 1 THEN Ranges(type, item[1], step)
             ELSE Rejected
      BY <1>5, Zenon DEF StepItem
    <3> QED BY <2>6, <3>1
  <2>8. CASE IsWord(item[1], "star") \/ (type = "CRON_DOM" /\ IsWord(item[1], "last"))
    <3>1. Len(item[1]) = 1 /\ item[1][1].kind \in Whole(type)
      BY <2>8 DEF IsWord, Whole
    <3> QED BY <1>1, <2>3, <2>4, <2>5, <2>7, <2>8, <3>1, WholeRight
  <2>9. CASE ~(IsWord(item[1], "star") \/ (type = "CRON_DOM" /\ IsWord(item[1], "last")))
    <3>1. CASE Len(item[1]) > 1
      <4>1. Right(Ranges(type, item[1], n), type, item)
        BY <2>3, <2>4, <2>5, <3>1, RangesRight
      <4> QED BY <2>7, <2>9, <3>1, <4>1
    <3>2. CASE ~(Len(item[1]) > 1)
      <4>1. Len(item[1]) = 1
        <5>1. \A k \in Nat : k > 0 /\ ~(k > 1) => k = 1
          OBVIOUS
        <5> QED BY <1>3, <3>2, <5>1
      <4>2. item[1][1].kind \notin Whole(type)
        BY <2>9, <4>1 DEF IsWord, Whole
      <4>3. ItemEnds(type, item) = {}
        BY <1>0, <4>1, <4>2 DEF ItemEnds
      <4> QED BY <1>1, <2>7, <2>9, <3>2, <4>3, RejectedRight
    <3> QED BY <3>1, <3>2
  <2> QED BY <2>8, <2>9
<1> QED BY <1>4, <1>5

LEMMA ValueRight ==
    ASSUME NEW type \in Types, NEW item \in Item, Len(item) = 1, Len(item[1]) = 1,
           item[1][1].kind \notin Whole(type)
    PROVE  LET N == parse_field_value(type, item[1])
           IN Right([Rejected EXCEPT !.ok = N # {} /\ N \subseteq Bounds(type), !.values = N],
                    type, item)
<1> DEFINE N == parse_field_value(type, item[1])
           r == [Rejected EXCEPT !.ok = N # {} /\ N \subseteq Bounds(type), !.values = N]
<1>1. item[1] \in Parts(Words)
  BY ItemShape
<1>2. item[1][1] \in Words
  BY <1>1, PartShape
<1>3. N = Numbers(type, item[1][1]) /\ (N = {} \/ Singleton(N))
  BY <1>2, ValueOfWord, NumbersOf
<1>4. ~IsLastDay(type, item)
  BY DEF IsLastDay, IsToken, IsWord, Whole
<1>5. ItemSteps(item) = {1}
  BY DEF ItemSteps
<1>6. ItemEnds(type, item) = {<<n, n>> : n \in N}
  BY <1>3 DEF ItemEnds
<1> HIDE DEF N
<1>7. r.ok = (N # {} /\ N \subseteq Bounds(type)) /\ r.values = N
  BY DEF Rejected
<1> HIDE DEF r
<1>8. CASE N = {}
  <2>1. ItemEnds(type, item) = {}
    BY <1>6, <1>8
  <2>2. ~WellFormed(type, item)
    BY <1>4, <2>1, NoProgression
  <2> QED BY <1>7, <1>8, <2>2 DEF Right, r, N
<1>9. CASE Singleton(N)
  <2>1. PICK n : Small(n) /\ N = {n}
    BY <1>9 DEF Singleton
  <2>2. ItemEnds(type, item) = {<<n, n>>}
    BY <1>6, <2>1
  <2>3. Small(1) /\ 1 > 0
    BY CronParserAssumption DEF Small
  <2>4. /\ WellFormed(type, item) <=> RangeAccepted(type, n, n, 1)
        /\ Denotes(type, item) = Chain(n, n, 1)
    BY <1>4, <1>5, <2>1, <2>2, <2>3, OneProgression
  <2>5. n \in Nat /\ n <= n /\ n + 1 > n
    BY <2>1 DEF Small
  <2>6. Chain(n, n, 1) = {n}
    BY <2>3, <2>5, ChainStep
  <2>7. n \in Bounds(type) => n + 1 <= IntMax
    BY BoundsShape, CronParserAssumption, <2>5 DEF Bounds
  <2>8. RangeAccepted(type, n, n, 1) <=> n \in Bounds(type)
    BY <2>3, <2>5, <2>6, <2>7 DEF RangeAccepted, InRange
  <2>9. Right(r, type, item)
    BY <1>7, <2>1, <2>4, <2>6, <2>8 DEF Right
  <2> QED BY <2>9 DEF r, N
<1> QED BY <1>3, <1>8, <1>9


(* What the flags of an answer say.                                         *)
Flagged(r, type, item) ==
    /\ r.star <=> IsToken(item, "star")
    /\ r.last <=> IsLastDay(type, item)
    /\ r.star \in BOOLEAN /\ r.last \in BOOLEAN

Plain(r) == r.star = FALSE /\ r.last = FALSE

LEMMA PlainAnswers ==
    ASSUME NEW type, NEW item
    PROVE  /\ Plain(Rejected)
           /\ \A a, b, n : Plain(set_field_range(type, a, b, n))
           /\ \A part, n : Plain(Ranges(type, part, n)) /\ Plain(WholeRange(type, n))
           /\ Plain(StepItem(type, item))
<1>1. Plain(Rejected)
  BY DEF Plain, Rejected
<1>2. ASSUME NEW a, NEW b, NEW n PROVE Plain(set_field_range(type, a, b, n))
  <2> DEFINE V == Visited(type, a, b, n)
             r == [Rejected EXCEPT !.ok = (V \subseteq Bounds(type)), !.values = V]
  <2>1. Plain(r)
    <3> HIDE DEF V
    <3> QED BY DEF Plain, Rejected
  <2> HIDE DEF V
  <2> QED BY <1>1, <2>1 DEF set_field_range, V
<1>3. ASSUME NEW part, NEW n PROVE Plain(Ranges(type, part, n)) /\ Plain(WholeRange(type, n))
  BY <1>1, <1>2 DEF Ranges, WholeRange
<1>4. Plain(StepItem(type, item))
  BY <1>1, <1>3 DEF StepItem
<1> QED BY <1>1, <1>2, <1>3, <1>4

(* parse_field_item answers right: it accepts the well-formed items, sets   *)
(* what they denote, and marks the bare star and the last day.              *)
THEOREM ItemRight ==
    \A type \in Types : \A item \in Parts(Parts(Words)) :
        LET r == parse_field_item(type, item) IN
        /\ r.ok <=> WellFormed(type, item)
        /\ r.ok => r.values = Denotes(type, item)
        /\ r.star <=> IsToken(item, "star")
        /\ r.last <=> IsLastDay(type, item)
<1> SUFFICES ASSUME NEW type \in Types, NEW item \in Item
             PROVE  Right(parse_field_item(type, item), type, item)
                    /\ Flagged(parse_field_item(type, item), type, item)
  BY DEF Right, Flagged, Item
<1> DEFINE r == parse_field_item(type, item)
           N == parse_field_value(type, item[1])
           v == [Rejected EXCEPT !.ok = N # {} /\ N \subseteq Bounds(type), !.values = N]
           w == WholeRange(type, 1)
<1>1. /\ Len(item) \in Nat /\ Len(item) > 0
      /\ Len(item[1]) \in Nat /\ Len(item[1]) > 0 /\ item[1][1] \in Words
  <2>1. Len(item) \in Nat /\ Len(item) > 0 /\ \A i \in 1..Len(item) : item[i] \in Parts(Words)
    BY ItemShape
  <2>2. item[1] \in Parts(Words)
    BY <2>1
  <2>3. Len(item[1]) \in Nat /\ Len(item[1]) > 0 /\ \A i \in 1..Len(item[1]) : item[1][i] \in Words
    BY <2>2, PartShape
  <2> QED BY <2>1, <2>3
<1>2. \A k : IsToken(item, k) <=> Len(item) = 1 /\ Len(item[1]) = 1 /\ item[1][1].kind = k
  BY DEF IsToken, IsWord
<1>3. IsLastDay(type, item) <=> type = "CRON_DOM" /\ IsToken(item, "last")
  BY DEF IsLastDay
<1>4. Small(1) /\ 1 > 0 /\ (Len(item) = 1 => ItemSteps(item) = {1})
  BY CronParserAssumption DEF Small, ItemSteps
<1>5. ASSUME Len(item) = 1, Len(item[1]) = 1, item[1][1].kind \notin Whole(type),
             item[1][1].kind \notin {"num", "month", "dow"}
      PROVE  ItemEnds(type, item) = {}
  <2>1. Numbers(type, item[1][1]) = {}
    BY <1>1, <1>5, NumbersOf
  <2> QED BY <1>5, <2>1 DEF ItemEnds
<1> DEFINE Alone(k) == /\ IsToken(item, k) /\ ~(Len(item) > 1)
                       /\ ~(Len(item) = 1 /\ Len(item[1]) > 1)
                       /\ \A m \in {"empty", "last", "star"} \ {k} : ~IsToken(item, m)
<1>a. \A k \in {"empty", "last", "star"} : IsToken(item, k) => Alone(k)
  <2>1. ~(1 > 1)
    OBVIOUS
  <2> SUFFICES ASSUME NEW k \in {"empty", "last", "star"}, IsToken(item, k)
               PROVE  Alone(k)
    OBVIOUS
  <2>2. Len(item) = 1 /\ Len(item[1]) = 1 /\ item[1][1].kind = k
    BY <1>2
  <2>3. ~(Len(item) > 1) /\ ~(Len(item) = 1 /\ Len(item[1]) > 1)
    BY <2>1, <2>2
  <2>4. \A m \in {"empty", "last", "star"} \ {k} : ~IsToken(item, m)
    BY <1>2, <2>2
  <2> QED BY <2>3, <2>4
<1>b. \A k \in Nat : k > 1 => k # 1
  OBVIOUS
<1>6. CASE IsToken(item, "empty")
  <2>0. Alone("empty")
    BY <1>6, <1>a
  <2>1. r = Rejected
    BY <2>0 DEF parse_field_item
  <2>2. ItemEnds(type, item) = {}
    BY <1>2, <1>5, <1>6 DEF Whole
  <2>3. ~IsToken(item, "star") /\ ~IsLastDay(type, item)
    BY <1>2, <1>3, <1>6
  <2> HIDE DEF r
  <2>4. Right(r, type, item) /\ Flagged(r, type, item)
    BY <2>1, <2>2, <2>3, RejectedRight, PlainAnswers DEF Flagged, Plain
  <2> QED BY <2>4 DEF r
<1>7. CASE IsToken(item, "last") /\ type = "CRON_DOM"
  <2>0. Alone("last")
    BY <1>7, <1>a
  <2>1. r = [Rejected EXCEPT !.ok = TRUE, !.last = TRUE]
    BY <1>7, <2>0 DEF parse_field_item
  <2>2. ~IsToken(item, "star") /\ IsLastDay(type, item)
    BY <1>2, <1>3, <1>7
  <2>3. WellFormed(type, item) /\ Denotes(type, item) = {}
    BY <2>2 DEF WellFormed, Denotes
  <2> HIDE DEF r
  <2>4. r.ok = TRUE /\ r.last = TRUE /\ r.star = FALSE /\ r.values = {}
    BY <2>1 DEF Rejected
  <2>5. Right(r, type, item) /\ Flagged(r, type, item)
    BY <2>2, <2>3, <2>4 DEF Right, Flagged
  <2> QED BY <2>5 DEF r
<1>8. CASE IsToken(item, "last") /\ type # "CRON_DOM"
  <2>0. Alone("last")
    BY <1>8, <1>a
  <2>1. r = Rejected
    BY <1>8, <2>0 DEF parse_field_item
  <2>2. ItemEnds(type, item) = {}
    BY <1>2, <1>5, <1>8 DEF Whole
  <2>3. ~IsToken(item, "star") /\ ~IsLastDay(type, item)
    BY <1>2, <1>3, <1>8
  <2> HIDE DEF r
  <2>4. Right(r, type, item) /\ Flagged(r, type, item)
    BY <2>1, <2>2, <2>3, RejectedRight, PlainAnswers DEF Flagged, Plain
  <2> QED BY <2>4 DEF r
<1>9. CASE IsToken(item, "star")
  <2>0. Alone("star")
    BY <1>9, <1>a
  <2>1. r = [w EXCEPT !.star = TRUE]
    BY <2>0 DEF parse_field_item
  <2>2. ~IsLastDay(type, item)
    BY <1>2, <1>3, <1>9
  <2>3. Right(w, type, item)
    BY <1>2, <1>4, <1>9, <2>2, WholeRight DEF Whole
  <2>4. Plain(w)
    BY PlainAnswers
  <2>5. DOMAIN w = {"ok", "values", "star", "last"}
    BY DEF WholeRange, set_field_range, Rejected
  <2> HIDE DEF r, w
  <2>6. r.ok = w.ok /\ r.values = w.values /\ r.last = w.last /\ r.star = TRUE
    BY <2>1, <2>5
  <2>7. Right(r, type, item) /\ Flagged(r, type, item)
    BY <1>9, <2>2, <2>3, <2>4, <2>6 DEF Right, Flagged, Plain
  <2> QED BY <2>7 DEF r
<1>10. CASE Len(item) > 1
  <2>0. Len(item) # 1
    BY <1>1, <1>10, <1>b
  <2>1. r = StepItem(type, item)
    BY <1>2, <1>10, <2>0 DEF parse_field_item
  <2>2. ~IsToken(item, "star") /\ ~IsLastDay(type, item)
    BY <1>2, <1>3, <2>0
  <2> HIDE DEF r
  <2>3. Right(r, type, item) /\ Flagged(r, type, item)
    BY <1>10, <2>1, <2>2, StepRight, PlainAnswers DEF Flagged, Plain
  <2> QED BY <2>3 DEF r
<1>11. CASE Len(item) = 1 /\ Len(item[1]) > 1
  <2>0. Len(item[1]) # 1 /\ ~(Len(item) > 1)
    BY <1>1, <1>11, <1>b
  <2>1. r = Ranges(type, item[1], 1)
    BY <1>2, <1>11, <2>0 DEF parse_field_item
  <2>2. ~IsToken(item, "star") /\ ~IsLastDay(type, item)
    BY <1>2, <1>3, <2>0
  <2>3. Right(Ranges(type, item[1], 1), type, item)
    BY <1>4, <1>11, RangesRight
  <2> HIDE DEF r
  <2>4. Right(r, type, item) /\ Flagged(r, type, item)
    BY <2>1, <2>2, <2>3, PlainAnswers DEF Flagged, Plain
  <2> QED BY <2>4 DEF r
<1>12. CASE /\ Len(item) = 1 /\ Len(item[1]) = 1
            /\ item[1][1].kind \notin {"empty", "last", "star"}
  <2>0. ~(Len(item) > 1) /\ ~(Len(item[1]) > 1)
    BY <1>12
  <2>1. r = v
    BY <1>2, <1>12, <2>0 DEF parse_field_item
  <2>2. ~IsToken(item, "star") /\ ~IsLastDay(type, item)
    BY <1>2, <1>3, <1>12
  <2>3. Right(v, type, item)
    BY <1>12, ValueRight DEF Whole
  <2>4. Plain(v)
    <3> HIDE DEF N
    <3> QED BY DEF Plain, Rejected
  <2> HIDE DEF r, v
  <2>5. Right(r, type, item) /\ Flagged(r, type, item)
    BY <2>1, <2>2, <2>3, <2>4 DEF Flagged, Plain
  <2> QED BY <2>5 DEF r
<1> HIDE DEF r
<1>13. \/ Len(item) > 1
       \/ Len(item) = 1 /\ Len(item[1]) > 1
       \/ Len(item) = 1 /\ Len(item[1]) = 1
  <2>1. \A k \in Nat : k > 0 => k > 1 \/ k = 1
    OBVIOUS
  <2> QED BY <1>1, <2>1
<1>14. Right(r, type, item) /\ Flagged(r, type, item)
  BY <1>2, <1>6, <1>7, <1>8, <1>9, <1>10, <1>11, <1>12, <1>13 DEF r
<1> QED BY <1>14 DEF r
=============================================================================
