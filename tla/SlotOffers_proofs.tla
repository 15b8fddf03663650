------------------------- MODULE SlotOffers_proofs -------------------------
(***************************************************************************)
(* Proofs about SlotOffers: types and valid days however requests overlap, *)
(* and, while they do not, the places of a slot and what claims make of    *)
(* the agents' days, for any offers, days and claims.  The lemmas about    *)
(* numbers, blocks and overtime serve DayEdits_proofs too.                 *)
(***************************************************************************)
EXTENDS SlotOffers, TLAPS, FiniteSetTheorems

-----------------------------------------------------------------------------
(* Numbers *)

Less == {p \in Nat \X Nat : p[1] < p[2]}

LEMMA LessIsWellFounded == IsWellFoundedOn(Less, Nat)
<1>1. Less = OpToRel(<, Nat)
  BY DEF Less, OpToRel
<1> QED
  BY <1>1, NatLessThanWellFounded

(* Every set of numbers has a least one,                                   *)
LEMMA MinOfNats ==
    ASSUME NEW S \in SUBSET Nat, S # {}
    PROVE  Min(S) \in S /\ \A n \in S : Min(S) <= n
<1>1. PICK m \in S : \A n \in S : <<n, m>> \notin Less
  BY LessIsWellFounded, WFMin
<1>2. \A n \in S : m <= n
  <2> TAKE n \in S
  <2>1. <<n, m>> \in Nat \X Nat /\ ~(<<n, m>> \in Less)
    BY <1>1
  <2> QED
    BY <2>1 DEF Less
<1> QED
  BY <1>2 DEF Min

(* which is induction, for a set of numbers.                               *)
LEMMA NatSetInduction ==
    ASSUME NEW S \in SUBSET Nat, 0 \in S, \A n \in S : n + 1 \in S
    PROVE  S = Nat
<1> SUFFICES ASSUME Nat \ S # {} PROVE FALSE
  OBVIOUS
<1> DEFINE n == Min(Nat \ S)
<1>1. n \in Nat \ S /\ \A k \in Nat \ S : n <= k
  BY MinOfNats
<1> HIDE DEF n
<1>2. n - 1 \in S
  BY <1>1
<1> QED
  BY <1>1, <1>2

LEMMA MinOfTwo ==
    ASSUME NEW m \in Int, NEW n \in Int
    PROVE  Min({m, n}) = IF m <= n THEN m ELSE n
<1> DEFINE least == IF m <= n THEN m ELSE n
<1>1. least \in {m, n} /\ \A k \in {m, n} : least <= k
  OBVIOUS
<1>2. \A l \in {m, n} : (\A k \in {m, n} : l <= k) => l = least
  OBVIOUS
<1> QED
  BY <1>1, <1>2 DEF Min

LEMMA MaxOfTwo ==
    ASSUME NEW m \in Int, NEW n \in Int
    PROVE  Max({m, n}) = IF m >= n THEN m ELSE n
<1> DEFINE most == IF m >= n THEN m ELSE n
<1>1. most \in {m, n} /\ \A k \in {m, n} : most >= k
  OBVIOUS
<1>2. \A l \in {m, n} : (\A k \in {m, n} : l >= k) => l = most
  OBVIOUS
<1> QED
  BY <1>1, <1>2 DEF Max

-----------------------------------------------------------------------------
(* The overtime of a day in order *)

Starts(S) ==
    \A x \in S : x.start \in Int /\ x.end \in Int /\ 0 <= x.start /\ x.start < x.end /\ x.end <= DayMinutes

(* Blocks apart start at different minutes, and are finitely many.         *)
LEMMA ApartStarts ==
    ASSUME NEW S, Starts(S), Apart(S), NEW x \in S, NEW y \in S, x.start = y.start
    PROVE  x = y
BY DEF Starts, Apart

LEMMA ApartFinite ==
    ASSUME NEW S, Starts(S), Apart(S)
    PROVE  IsFiniteSet(S)
<1> DEFINE f == [x \in S |-> x.start]
<1>1. DayMinutes \in Nat
  BY LengthsAssumption
<1>2. f \in [S -> 0 .. DayMinutes]
  BY <1>1 DEF Starts
<1>3. f \in Injection(S, 0 .. DayMinutes)
  BY <1>2, ApartStarts DEF Injection, IsInjective
<1>4. IsFiniteSet(0 .. DayMinutes)
  BY <1>1, FS_Interval
<1> QED
  BY <1>3, <1>4, FS_Injection

Ascending(f, n) == \A i, j \in 1 .. n : i < j => f[i].start < f[j].start

(* Some block starts last.                                                 *)
LEMMA LastBlock ==
    ASSUME NEW S, Starts(S), S # {}
    PROVE  \E x \in S : \A y \in S : y.start <= x.start
<1> DEFINE T == {DayMinutes - x.start : x \in S}
<1>1. DayMinutes \in Nat
  BY LengthsAssumption
<1>2. T \in SUBSET Nat /\ T # {}
  BY <1>1 DEF Starts
<1>3. PICK x \in S : Min(T) = DayMinutes - x.start
  BY <1>2, MinOfNats
<1>4. \A y \in S : DayMinutes - x.start <= DayMinutes - y.start
  BY <1>2, <1>3, MinOfNats
<1>5. \A y \in S : y.start \in Int
  BY DEF Starts
<1> QED
  BY <1>1, <1>4, <1>5

(* Blocks apart can be put in order,                                       *)
LEMMA OrderExists ==
    ASSUME NEW S, Starts(S), Apart(S)
    PROVE  \E f \in [1 .. Cardinality(S) -> S] : Ascending(f, Cardinality(S))
<1> DEFINE Good(n) == \A T \in SUBSET S : Cardinality(T) = n =>
                          \E f \in [1 .. n -> T] : Ascending(f, n)
           G == {n \in Nat : Good(n)}
<1>1. IsFiniteSet(S) /\ \A T \in SUBSET S : IsFiniteSet(T) /\ Cardinality(T) \in Nat
  BY ApartFinite, FS_Subset, FS_CardinalityType
<1>2. 0 \in G
  <2> SUFFICES ASSUME NEW T \in SUBSET S, Cardinality(T) = 0
               PROVE  \E f \in [1 .. 0 -> T] : Ascending(f, 0)
    OBVIOUS
  <2> DEFINE f == [i \in 1 .. 0 |-> 0]
  <2>1. f \in [1 .. 0 -> T]
    OBVIOUS
  <2>2. Ascending(f, 0)
    <3> HIDE DEF f
    <3> QED
      BY DEF Ascending
  <2> QED
    BY <2>1, <2>2
<1>3. ASSUME NEW n \in G PROVE n + 1 \in G
  <2> SUFFICES ASSUME NEW T \in SUBSET S, Cardinality(T) = n + 1
               PROVE  \E f \in [1 .. n + 1 -> T] : Ascending(f, n + 1)
    BY <1>3
  <2>1. n \in Nat /\ Good(n)
    BY <1>3
  <2>2. T # {} /\ Starts(T)
    BY <2>1, FS_EmptySet DEF Starts
  <2>3. PICK x \in T : \A y \in T : y.start <= x.start
    BY <2>2, LastBlock
  <2>4. Cardinality(T \ {x}) = n
    BY <1>1, <2>1, <2>3, FS_RemoveElement
  <2>5. PICK f \in [1 .. n -> T \ {x}] : Ascending(f, n)
    BY <2>1, <2>4
  <2> DEFINE h == [i \in 1 .. n + 1 |-> IF i = n + 1 THEN x ELSE f[i]]
  <2>6. \A i \in 1 .. n : h[i] = f[i] /\ f[i] \in T \ {x}
    BY <2>1, <2>5
  <2>7. \A i \in 1 .. n : f[i].start < x.start
    <3> TAKE i \in 1 .. n
    <3>1. f[i] \in T /\ f[i] # x
      BY <2>6
    <3>2. f[i].start <= x.start /\ f[i].start # x.start
      BY <2>3, <3>1, ApartStarts
    <3>3. f[i].start \in Int /\ x.start \in Int
      BY <2>2, <3>1 DEF Starts
    <3> QED
      BY <3>2, <3>3
  <2>8. h \in [1 .. n + 1 -> T] /\ h[n + 1] = x
    BY <2>1, <2>3, <2>5
  <2>9. Ascending(h, n + 1)
    <3> SUFFICES ASSUME NEW i \in 1 .. n + 1, NEW j \in 1 .. n + 1, i < j
                 PROVE  h[i].start < h[j].start
      BY DEF Ascending
    <3>1. i \in 1 .. n /\ (j = n + 1 \/ j \in 1 .. n)
      BY <2>1
    <3> HIDE DEF h
    <3> QED
      BY <2>5, <2>6, <2>7, <2>8, <3>1 DEF Ascending
  <2> QED
    BY <2>8, <2>9
<1>4. G = Nat
  <2> HIDE DEF G
  <2>1. G \in SUBSET Nat
    BY DEF G
  <2> QED
    BY <1>2, <1>3, <2>1, NatSetInduction
<1> QED
  BY <1>1, <1>4

(* all of them.                                                            *)
LEMMA OrderIsComplete ==
    ASSUME NEW S, Starts(S), Apart(S)
    PROVE  /\ InOrder(S) \in [1 .. Cardinality(S) -> S]
           /\ Ascending(InOrder(S), Cardinality(S))
           /\ S = {InOrder(S)[i] : i \in 1 .. Cardinality(S)}
<1> DEFINE n == Cardinality(S)
           f == InOrder(S)
<1>1. f \in [1 .. n -> S] /\ Ascending(f, n)
  <2>1. InOrder(S) = CHOOSE g \in [1 .. Cardinality(S) -> S] : Ascending(g, Cardinality(S))
    BY DEF InOrder, Ascending
  <2> QED
    BY <2>1, OrderExists
<1>2. IsFiniteSet(S) /\ n \in Nat /\ IsFiniteSet(1 .. n) /\ Cardinality(1 .. n) = n
  BY ApartFinite, FS_CardinalityType, FS_Interval
<1> HIDE DEF n, f
<1>3. \A i, j \in 1 .. n : i < j => f[i] # f[j]
  <2> TAKE i, j \in 1 .. n
  <2>1. f[i] \in S /\ f[i].start \in Int
    BY <1>1 DEF Starts
  <2> QED
    BY <1>1, <2>1 DEF Ascending
<1>4. f \in Injection(1 .. n, S)
  <2>1. \A i, j \in 1 .. n : i = j \/ i < j \/ j < i
    BY <1>2
  <2>2. \A i, j \in 1 .. n : f[i] = f[j] => i = j
    BY <1>3, <2>1
  <2> QED
    BY <1>1, <2>2 DEF Injection, IsInjective
<1>5. f \in Surjection(1 .. n, S)
  BY <1>2, <1>4, FS_Injection DEF n
<1>6. \A x \in S : \E i \in 1 .. n : f[i] = x
  BY <1>5 DEF Surjection
<1> QED
  BY <1>1, <1>6 DEF n, f

-----------------------------------------------------------------------------
(* Overtime that is added *)

InBlock(x, m) == x.start <= m /\ m < x.end

BlocksOf(I, K) == [id : I, kind : K, start : Int, end : Int]

(* What the loop of withOvertimeAdded has after some blocks.               *)
States(I, K) == [merged : BlocksOf(I, K), rest : SUBSET BlocksOf(I, K)]

LEMMA AbsorbType ==
    ASSUME NEW I, NEW K, NEW s \in States(I, K), NEW o \in BlocksOf(I, K)
    PROVE  Absorb(s, o) \in States(I, K)
<1> DEFINE m == s.merged
<1>0. m \in BlocksOf(I, K) /\ s.rest \in SUBSET BlocksOf(I, K)
  BY DEF States
<1>1. Merged(m, o) \in BlocksOf(I, K)
  <2>1. {o.start, m.start, o.end, m.end} \subseteq Int
    BY <1>0 DEF BlocksOf
  <2>2. Min({o.start, m.start}) \in Int /\ Max({o.end, m.end}) \in Int
    BY <2>1, MinOfTwo, MaxOfTwo
  <2> QED
    BY <1>0, <2>2 DEF Merged, BlocksOf
<1>2. [s EXCEPT !.merged = Merged(@, o)] \in States(I, K)
  BY <1>1 DEF States
<1>3. [s EXCEPT !.rest = @ \cup {o}] \in States(I, K)
  BY DEF States
<1> QED
  BY <1>2, <1>3 DEF Absorb

(* One step of the loop loses no minute and adds none.                     *)
LEMMA AbsorbMinutes ==
    ASSUME NEW I, NEW K, NEW s \in States(I, K), NEW o \in BlocksOf(I, K), o.start < o.end, s.merged.start < s.merged.end
    PROVE  /\ Absorb(s, o).merged.start < Absorb(s, o).merged.end
           /\ \A m \in Int : Worked(Absorb(s, o).rest \cup {Absorb(s, o).merged}, m)
                                <=> Worked(s.rest \cup {s.merged}, m) \/ InBlock(o, m)
<1> DEFINE a == s.merged
           n == Merged(a, o)
<1>1. a \in BlocksOf(I, K) /\ {o.start, a.start, o.end, a.end} \subseteq Int
  BY DEF States, BlocksOf
<1>2. CASE Touches(a, o)
  <2>1. Absorb(s, o).rest = s.rest /\ Absorb(s, o).merged = n
    BY <1>2 DEF Absorb, States
  <2>2. /\ n.start = (IF o.start <= a.start THEN o.start ELSE a.start)
        /\ n.end = (IF o.end >= a.end THEN o.end ELSE a.end)
    BY <1>1, MinOfTwo, MaxOfTwo DEF Merged
  <2>3. o.end = a.start \/ o.start = a.end
    BY <1>2 DEF Touches
  <2> HIDE DEF a, n
  <2>4. n.start < n.end /\ \A m \in Int : InBlock(n, m) <=> InBlock(a, m) \/ InBlock(o, m)
    BY <1>1, <2>2, <2>3 DEF InBlock, a
  <2> QED
    BY <2>1, <2>4 DEF Worked, InBlock, a
<1>3. CASE ~Touches(a, o)
  <2>1. Absorb(s, o).rest = s.rest \cup {o} /\ Absorb(s, o).merged = a
    BY <1>3 DEF Absorb, States
  <2> QED
    BY <2>1 DEF Worked, InBlock
<1> QED
  BY <1>2, <1>3

(* The loop over n blocks, in the order f.                                 *)
Loop(s, f, n, x) ==
    s = [i \in 0 .. n |-> IF i = 0 THEN [merged |-> x, rest |-> {}]
                          ELSE Absorb(s[i - 1], f[i])]

LEMMA LoopStart ==
    ASSUME NEW n \in Nat, NEW f, NEW x, NEW s, Loop(s, f, n, x)
    PROVE  s[0] = [merged |-> x, rest |-> {}]
BY DEF Loop

LEMMA LoopStep ==
    ASSUME NEW n \in Nat, NEW f, NEW x, NEW s, Loop(s, f, n, x), NEW i \in 1 .. n
    PROVE  s[i] = Absorb(s[i - 1], f[i])
<1> DEFINE body(j) == IF j = 0 THEN [merged |-> x, rest |-> {}] ELSE Absorb(s[j - 1], f[j])
<1>1. s = [j \in 0 .. n |-> body(j)]
  BY DEF Loop
<1> HIDE DEF body
<1>2. s[i] = body(i)
  BY <1>1
<1> USE DEF body
<1>3. i # 0
  OBVIOUS
<1>4. body(i) = Absorb(s[i - 1], f[i])
  BY <1>3
<1> HIDE DEF body
<1> QED
  BY <1>2, <1>4

LEMMA LoopExists ==
    ASSUME NEW I, NEW K, NEW n \in Nat, NEW f \in [1 .. n -> BlocksOf(I, K)], NEW x \in BlocksOf(I, K)
    PROVE  \E s \in [0 .. n -> States(I, K)] : Loop(s, f, n, x)
<1> DEFINE G == {k \in Nat : k <= n => \E s \in [0 .. k -> States(I, K)] : Loop(s, f, k, x)}
<1>1. 0 \in G
  <2> DEFINE s == [i \in 0 .. 0 |-> [merged |-> x, rest |-> {}]]
  <2>1. s \in [0 .. 0 -> States(I, K)]
    BY DEF States
  <2>2. Loop(s, f, 0, x)
    BY DEF Loop
  <2> QED
    BY <2>1, <2>2
<1>2. ASSUME NEW k \in G PROVE k + 1 \in G
  <2> SUFFICES ASSUME k + 1 <= n
               PROVE  \E s \in [0 .. k + 1 -> States(I, K)] : Loop(s, f, k + 1, x)
    BY <1>2
  <2>1. k \in Nat /\ k + 1 \in 1 .. n
    BY <1>2
  <2>2. PICK s \in [0 .. k -> States(I, K)] : Loop(s, f, k, x)
    BY <1>2, <2>1
  <2> DEFINE next == Absorb(s[k], f[k + 1])
             t == [i \in 0 .. k + 1 |-> IF i = k + 1 THEN next ELSE s[i]]
             body(i) == IF i = 0 THEN [merged |-> x, rest |-> {}] ELSE Absorb(t[i - 1], f[i])
  <2>3. next \in States(I, K)
    BY <2>1, <2>2, AbsorbType
  <2>4. t \in [0 .. k + 1 -> States(I, K)]
    BY <2>1, <2>2, <2>3
  <2>5. \A i \in 0 .. k + 1 : t[i] = body(i)
    <3> TAKE i \in 0 .. k + 1
    <3>1. CASE i = 0
      BY <2>1, <2>2, <3>1, LoopStart
    <3>2. CASE i \in 1 .. k
      <4>1. t[i] = s[i] /\ t[i - 1] = s[i - 1]
        BY <2>1, <3>2
      <4>2. s[i] = Absorb(s[i - 1], f[i])
        BY <2>1, <2>2, <3>2, LoopStep
      <4>3. i # 0
        BY <3>2
      <4> HIDE DEF t
      <4>4. t[i] = Absorb(t[i - 1], f[i])
        BY <4>1, <4>2
      <4>5. body(i) = Absorb(t[i - 1], f[i])
        BY <4>3
      <4> HIDE DEF body
      <4> QED
        BY <4>4, <4>5
    <3>3. CASE i = k + 1
      <4>1. t[i] = next /\ t[i - 1] = s[k] /\ i # 0
        BY <2>1, <3>3
      <4> QED
        BY <3>3, <4>1
    <3> QED
      BY <2>1, <3>1, <3>2, <3>3
  <2>6. Loop(t, f, k + 1, x)
    <3>1. t = [i \in 0 .. k + 1 |-> body(i)]
      <4> HIDE DEF body
      <4> QED
        BY <2>4, <2>5
    <3> QED
      BY <3>1 DEF Loop
  <2> QED
    BY <2>4, <2>6
<1>3. G = Nat
  <2> HIDE DEF G
  <2>1. G \in SUBSET Nat
    BY DEF G
  <2> QED
    BY <1>1, <1>2, <2>1, NatSetInduction
<1> QED
  BY <1>3

(* After the loop, what was added and the blocks passed are there, minute  *)
(* by minute.                                                              *)
LEMMA LoopMinutes ==
    ASSUME NEW I, NEW K, NEW n \in Nat, NEW f \in [1 .. n -> BlocksOf(I, K)], NEW x \in BlocksOf(I, K), NEW s,
           \A i \in 1 .. n : f[i].start < f[i].end, x.start < x.end, Loop(s, f, n, x)
    PROVE  /\ s[n] \in States(I, K)
           /\ \A m \in Int : Worked(s[n].rest \cup {s[n].merged}, m)
                                <=> InBlock(x, m) \/ \E i \in 1 .. n : InBlock(f[i], m)
<1> DEFINE all(k) == s[k].rest \cup {s[k].merged}
           Good(k) == /\ s[k] \in States(I, K) /\ s[k].merged.start < s[k].merged.end
                      /\ \A m \in Int : Worked(all(k), m)
                                <=> InBlock(x, m) \/ \E i \in 1 .. k : InBlock(f[i], m)
           G == {k \in Nat : k <= n => Good(k)}
<1>1. 0 \in G
  <2>1. s[0] = [merged |-> x, rest |-> {}]
    BY LoopStart
  <2>2. s[0] \in States(I, K) /\ s[0].merged = x /\ all(0) = {x}
    BY <2>1 DEF States
  <2>3. \A m \in Int : Worked({x}, m) <=> InBlock(x, m)
    BY DEF Worked, InBlock
  <2>4. \A m \in Int : ~ \E i \in 1 .. 0 : InBlock(f[i], m)
    OBVIOUS
  <2>5. Good(0)
    BY <2>2, <2>3, <2>4
  <2> HIDE DEF Good
  <2> QED
    BY <2>5
<1> HIDE DEF Good
<1>2. ASSUME NEW k \in G PROVE k + 1 \in G
  <2> SUFFICES ASSUME k + 1 <= n PROVE Good(k + 1)
    BY <1>2
  <2>1. k \in Nat /\ k + 1 \in 1 .. n /\ Good(k)
    BY <1>2
  <2>2. s[k + 1] = Absorb(s[k], f[k + 1])
    <3>1. \A i \in 1 .. n : s[i] = Absorb(s[i - 1], f[i])
      BY LoopStep
    <3>2. (k + 1) - 1 = k
      BY <2>1
    <3> QED
      BY <2>1, <3>1, <3>2
  <2> USE DEF Good
  <2>3. f[k + 1] \in BlocksOf(I, K) /\ f[k + 1].start < f[k + 1].end
    BY <2>1
  <2>4. s[k + 1] \in States(I, K)
    BY <2>1, <2>2, <2>3, AbsorbType
  <2>5. /\ s[k + 1].merged.start < s[k + 1].merged.end
        /\ \A m \in Int : Worked(all(k + 1), m) <=> Worked(all(k), m) \/ InBlock(f[k + 1], m)
    <3>1. s[k] \in States(I, K) /\ s[k].merged.start < s[k].merged.end
      BY <2>1
    <3> DEFINE p == s[k]
               o == f[k + 1]
    <3>2. p \in States(I, K) /\ p.merged.start < p.merged.end
          /\ o \in BlocksOf(I, K) /\ o.start < o.end
      BY <2>3, <3>1
    <3> HIDE DEF Good, all, p, o
    <3>3. /\ Absorb(p, o).merged.start < Absorb(p, o).merged.end
          /\ \A m \in Int : Worked(Absorb(p, o).rest \cup {Absorb(p, o).merged}, m)
                                <=> Worked(p.rest \cup {p.merged}, m) \/ InBlock(o, m)
      BY <3>2, AbsorbMinutes
    <3> QED
      BY <2>2, <3>3 DEF all, p, o
  <2>6. \A i : i \in 1 .. k + 1 <=> i \in 1 .. k \/ i = k + 1
    BY <2>1
  <2> HIDE DEF all
  <2> QED
    BY <2>1, <2>4, <2>5, <2>6
<1>3. G = Nat
  <2> HIDE DEF G
  <2>1. G \in SUBSET Nat
    BY DEF G
  <2> QED
    BY <1>1, <1>2, <2>1, NatSetInduction
<1>4. Good(n)
  BY <1>3
<1> QED
  BY <1>4 DEF Good

(* withOvertimeAdded changes nothing but the overtime: it adds the minutes *)
(* of the block, and loses none.                                           *)
LEMMA WithOvertimeMinutes ==
    ASSUME NEW I, NEW K, NEW day, day.ot \in SUBSET BlocksOf(I, K), Starts(day.ot), Apart(day.ot),
           NEW x \in BlocksOf(I, K), x.start < x.end
    PROVE  \E ot \in SUBSET BlocksOf(I, K) :
              /\ WithOvertime(day, x) = [day EXCEPT !.ot = ot]
              /\ \A m \in Int : Worked(ot, m) <=> Worked(day.ot, m) \/ InBlock(x, m)
<1> DEFINE n == Cardinality(day.ot)
           f == InOrder(day.ot)
           s == CHOOSE t : Loop(t, f, n, x)
           ot == s[n].rest \cup {s[n].merged}
<1>1. n \in Nat
  BY ApartFinite, FS_CardinalityType
<1>2. f \in [1 .. n -> day.ot] /\ day.ot = {f[i] : i \in 1 .. n}
  BY OrderIsComplete
<1>3. f \in [1 .. n -> BlocksOf(I, K)] /\ \A i \in 1 .. n : f[i].start < f[i].end
  BY <1>2 DEF Starts
<1>4. WithOvertime(day, x) = [day EXCEPT !.ot = ot]
  BY DEF WithOvertime, Loop
<1>5. Loop(s, f, n, x)
  <2> HIDE DEF n, f
  <2>1. \E t : Loop(t, f, n, x)
    BY <1>1, <1>3, LoopExists
  <2> QED
    BY <2>1
<1> HIDE DEF n, f, s
<1>6. /\ s[n] \in States(I, K)
      /\ \A m \in Int : Worked(ot, m) <=> InBlock(x, m) \/ \E i \in 1 .. n : InBlock(f[i], m)
  BY <1>1, <1>3, <1>5, LoopMinutes
<1>7. ot \in SUBSET BlocksOf(I, K)
  BY <1>6 DEF States
<1>8. \A m \in Int : Worked(day.ot, m) <=> \E i \in 1 .. n : InBlock(f[i], m)
  BY <1>2 DEF Worked, InBlock
<1> HIDE DEF ot
<1> QED
  BY <1>4, <1>6, <1>7, <1>8

-----------------------------------------------------------------------------
(* Overtime that is given back *)

LeftOf(x, s) == [x EXCEPT !.end = s]
RightOf(x, s, e) ==
    [x EXCEPT !.start = e, !.id = IF x.start < s THEN <<@[1], @[2] + 1>> ELSE @]

LEMMA PiecesType ==
    ASSUME NEW x \in BlockRow, NEW s \in Int, NEW e \in Int
    PROVE  /\ LeftOf(x, s) \in BlockRow /\ RightOf(x, s, e) \in BlockRow
           /\ LeftOf(x, s).start = x.start /\ LeftOf(x, s).end = s
           /\ RightOf(x, s, e).start = e /\ RightOf(x, s, e).end = x.end
<1>1. x.id \in Int \X Nat /\ <<x.id[1], x.id[2] + 1>> \in Int \X Nat
  BY DEF BlockRow
<1> DEFINE id == IF x.start < s THEN <<x.id[1], x.id[2] + 1>> ELSE x.id
<1>2. id \in Int \X Nat
  BY <1>1
<1>3. RightOf(x, s, e) = [x EXCEPT !.start = e, !.id = id]
  BY DEF RightOf
<1> HIDE DEF id
<1> QED
  BY <1>2, <1>3 DEF LeftOf, BlockRow

(* _without_window takes the minutes of the window and no other.           *)
LEMMA WithoutWindowMinutes ==
    ASSUME NEW ot \in SUBSET BlockRow, NEW s \in Int, NEW e \in Int
    PROVE  /\ WithoutWindow(ot, s, e) \in SUBSET BlockRow
           /\ \A m \in Int : Worked(WithoutWindow(ot, s, e), m)
                                <=> Worked(ot, m) /\ ~(s <= m /\ m < e)
<1> DEFINE hit == {x \in ot : x.start < e /\ s < x.end}
           left == {LeftOf(x, s) : x \in {y \in hit : y.start < s}}
           right == {RightOf(x, s, e) : x \in {y \in hit : y.end > e}}
           W == WithoutWindow(ot, s, e)
<1>1. W = (ot \ hit) \cup left \cup right
  BY DEF WithoutWindow, LeftOf, RightOf
<1>2. left \in SUBSET BlockRow /\ right \in SUBSET BlockRow
  BY PiecesType
<1>3. \A x \in ot : x.start \in Int /\ x.end \in Int
  BY DEF BlockRow
<1>4. \A m \in Int : Worked(left, m) <=> \E x \in hit : x.start <= m /\ m < s
  <2> TAKE m \in Int
  <2>1. ASSUME Worked(left, m) PROVE \E x \in hit : x.start <= m /\ m < s
    <3>1. PICK x \in hit : x.start < s /\ InBlock(LeftOf(x, s), m)
      BY <2>1 DEF Worked, InBlock
    <3> QED
      BY <3>1, PiecesType DEF InBlock
  <2>2. ASSUME NEW x \in hit, x.start <= m, m < s PROVE Worked(left, m)
    <3>1. LeftOf(x, s) \in left
      BY <1>3, <2>2
    <3>2. LeftOf(x, s).start <= m /\ m < LeftOf(x, s).end
      BY <2>2, PiecesType
    <3> QED
      BY <3>1, <3>2 DEF Worked
  <2> QED
    BY <2>1, <2>2
<1>5. \A m \in Int : Worked(right, m) <=> \E x \in hit : e <= m /\ m < x.end
  <2> TAKE m \in Int
  <2>1. ASSUME Worked(right, m) PROVE \E x \in hit : e <= m /\ m < x.end
    <3>1. PICK x \in hit : x.end > e /\ InBlock(RightOf(x, s, e), m)
      BY <2>1 DEF Worked, InBlock
    <3> QED
      BY <3>1, PiecesType DEF InBlock
  <2>2. ASSUME NEW x \in hit, e <= m, m < x.end PROVE Worked(right, m)
    <3>1. RightOf(x, s, e) \in right
      BY <1>3, <2>2
    <3>2. RightOf(x, s, e).start <= m /\ m < RightOf(x, s, e).end
      BY <2>2, PiecesType
    <3> QED
      BY <3>1, <3>2 DEF Worked
  <2> QED
    BY <2>1, <2>2
<1>6. \A m : Worked(W, m) <=> Worked(ot \ hit, m) \/ Worked(left, m) \/ Worked(right, m)
  <2> HIDE DEF hit, left, right, W
  <2> QED
    BY <1>1 DEF Worked
<1>7. W \in SUBSET BlockRow
  BY <1>1, <1>2
<1>8. \A m \in Int : Worked(ot \ hit, m) \/ (\E x \in hit : x.start <= m /\ m < s)
                        \/ (\E x \in hit : e <= m /\ m < x.end)
                     <=> Worked(ot, m) /\ ~(s <= m /\ m < e)
  BY <1>3 DEF Worked
<1> HIDE DEF hit, left, right, W
<1> QED
  BY <1>4, <1>5, <1>6, <1>7, <1>8 DEF W

-----------------------------------------------------------------------------
(* The inductive invariants.  Of an agent's day only the overtime and the  *)
(* activities ever change, so what is valid in one version is in another.  *)

DayOf(a, day) ==
    /\ day \in Day /\ ValidDay(day)
    /\ day.start = FirstDays[a].start /\ day.end = FirstDays[a].end
    /\ day.channels = FirstDays[a].channels /\ day.breaks = FirstDays[a].breaks

Consistent(q) ==
    /\ q.seen # None /\ q.row # None => q.seen.id = q.row.id
    /\ q.agent # None =>
          /\ q.claim.offer = q.offer /\ q.claim.agent = q.agent
          /\ q.before = None => q.after = None
          /\ q.before # None => DayOf(q.agent, q.before) /\ DayOf(q.agent, q.after)

Made == {g \in Segs : claims[g] # None}

(* The claims of an offer that is deleted go with it, whoever overlaps.    *)
ClaimsHaveOffers == \A g \in Made : offers[claims[g].offer] # None

TypeInv ==
    /\ TypeOK
    /\ IsFiniteSet(Made)
    /\ ClaimsHaveOffers
    /\ \A a \in Agents : days[a] # None => DayOf(a, days[a])
    /\ \A c \in Clients : req[c] # None => Consistent(req[c])

(* One request at a time: what it has read is still so, and what it writes *)
(* leaves no more claims than places.                                      *)
Alone == \A x, y \in Clients : req[x] # None /\ req[y] # None => x = y

Fits(q) ==
    /\ q.seen = offers[q.offer]
    /\ q.agent = None =>
          IF q.row = None THEN FilledOf(q.offer) = {}
          ELSE Cardinality(FilledOf(q.offer)) <= q.row.capacity
    /\ q.agent # None =>
          /\ q.row = q.seen
          /\ IF q.claim.status = "filled" THEN claims[q.seg] = None /\ HasRoom(q.offer)
             ELSE /\ claims[q.seg] # None /\ claims[q.seg].status = "filled"
                  /\ q.claim = [claims[q.seg] EXCEPT !.status = "cancelled"]

SlotInv ==
    /\ TypeInv
    /\ Alone
    /\ CapacityRespected
    /\ \A c \in Clients : req[c] # None => Fits(req[c])

(* What a request does to the agent's day, minute by minute.               *)
Adds(q) ==
    /\ ~q.refused
    /\ IF Window[q.offer].kind = "ot"
       THEN /\ q.after.activities = q.before.activities
            /\ \A m \in Int :
                  /\ Worked(q.after.ot, m) <=> Worked(q.before.ot, m) \/ InBlock(q.claim, m)
                  /\ ~(Worked(q.before.ot, m) /\ InBlock(q.claim, m))
       ELSE /\ q.after.ot = q.before.ot
            /\ \E x \in q.after.activities :
                  x.id = <<q.seg, 0>> /\ q.after.activities = q.before.activities \cup {x}

TakesOut(q) ==
    IF Window[q.offer].kind = "ot"
    THEN /\ q.after.activities = q.before.activities
         /\ q.refused => q.after.ot = q.before.ot
         /\ ~q.refused => \A m \in Int :
               Worked(q.after.ot, m) <=> Worked(q.before.ot, m) /\ ~InBlock(q.claim, m)
    ELSE /\ ~q.refused /\ q.after.ot = q.before.ot
         /\ q.after.activities = {x \in q.before.activities : x.id # <<q.seg, 0>>}

Writes(q) ==
    q.agent # None =>
       /\ days[q.agent] \in {None, q.before}
       /\ q.before # None => IF q.claim.status = "filled" THEN Adds(q) ELSE TakesOut(q)

(* The day of an agent who has one, and the claims the agent holds: the    *)
(* time off is that of the claims, the overtime too, and no two claims are *)
(* for one minute, nor for one the agent worked at first.                  *)
OtClaims(a) ==
    {g \in Segs : claims[g] # None /\ claims[g].status = "filled" /\ claims[g].agent = a
                     /\ Window[claims[g].offer].kind = "ot"}

OffClaims(a) ==
    {g \in Segs : claims[g] # None /\ claims[g].status = "filled" /\ claims[g].agent = a
                     /\ Window[claims[g].offer].kind # "ot"}

Covered(a, m) == \E g \in OtClaims(a) : InBlock(claims[g], m)

Due(a, m) == Worked(FirstDays[a].ot, m) \/ Covered(a, m)

TimeOffIsClaimed(a) ==
    /\ FirstDays[a].activities \subseteq days[a].activities
    /\ {x.id : x \in days[a].activities \ FirstDays[a].activities}
          = {<<g, 0>> : g \in OffClaims(a)}

OvertimeIsDue(a) ==
    \A m \in Int : /\ Due(a, m) => Worked(days[a].ot, m)
                   /\ Worked(days[a].ot, m) /\ a \notin kept => Due(a, m)

ClaimsApart(a) ==
    \A g \in OtClaims(a), m \in Int : InBlock(claims[g], m) =>
       /\ ~Worked(FirstDays[a].ot, m)
       /\ \A h \in OtClaims(a) \ {g} : ~InBlock(claims[h], m)

DayInv ==
    /\ SlotInv
    /\ \A c \in Clients : req[c] # None => Writes(req[c])
    /\ \A a \in Agents : days[a] # None =>
          TimeOffIsClaimed(a) /\ OvertimeIsDue(a) /\ ClaimsApart(a)

-----------------------------------------------------------------------------
(* Days *)

(* What is valid in a layer of an agent's day is valid by itself.          *)
ValidIn(a, l, S) ==
    /\ Apart(S)
    /\ \A x \in S : /\ x.start < x.end /\ 0 <= x.start /\ x.end <= DayMinutes
                    /\ IF l \in Inner THEN Inside(x, FirstDays[a]) ELSE Outside(x, FirstDays[a])

SameFrame(a, day) ==
    /\ day \in Day
    /\ day.start = FirstDays[a].start /\ day.end = FirstDays[a].end
    /\ day.channels = FirstDays[a].channels /\ day.breaks = FirstDays[a].breaks

LEMMA ValidByLayer ==
    ASSUME NEW a \in Agents, NEW day, SameFrame(a, day)
    PROVE  ValidDay(day) <=> \A l \in Layers : ValidIn(a, l, day[l])
<1>1. ValidDay(FirstDays[a])
  BY SlotsAssumption
<1>2. \A x : /\ Inside(x, day) <=> Inside(x, FirstDays[a])
             /\ Outside(x, day) <=> Outside(x, FirstDays[a])
  BY DEF SameFrame, Inside, Outside
<1>3. /\ 0 <= day.start /\ day.end <= DayMinutes /\ day.end - day.start >= ShiftMin
  BY <1>1 DEF ValidDay, SameFrame
<1> QED
  BY <1>2, <1>3 DEF ValidDay, ValidIn

LEMMA DayByLayer ==
    ASSUME NEW a \in Agents, NEW day
    PROVE  DayOf(a, day) <=> /\ SameFrame(a, day)
                             /\ ValidIn(a, "ot", day.ot)
                             /\ ValidIn(a, "activities", day.activities)
<1> SUFFICES ASSUME SameFrame(a, day)
             PROVE  ValidDay(day) <=> /\ ValidIn(a, "ot", day.ot)
                                      /\ ValidIn(a, "activities", day.activities)
  BY DEF DayOf, SameFrame
<1>1. SameFrame(a, FirstDays[a]) /\ ValidDay(FirstDays[a])
  BY SlotsAssumption DEF SameFrame
<1>2. \A l \in Layers : ValidIn(a, l, FirstDays[a][l])
  BY <1>1, ValidByLayer
<1>3. Layers = {"channels", "breaks", "activities", "ot"}
  BY DEF Layers, Inner
<1>4. ValidIn(a, "channels", day.channels) /\ ValidIn(a, "breaks", day.breaks)
  BY <1>2, <1>3 DEF SameFrame
<1>5. ValidDay(day) <=> \A l \in Layers : ValidIn(a, l, day[l])
  BY ValidByLayer
<1> QED
  BY <1>3, <1>4, <1>5

LEMMA FirstDay ==
    ASSUME NEW a \in Agents
    PROVE  DayOf(a, FirstDays[a])
BY SlotsAssumption DEF DayOf

(* Overtime and activities of two versions of a day go together.           *)
LEMMA MixedDays ==
    ASSUME NEW a \in Agents, NEW d, NEW e, DayOf(a, d), DayOf(a, e),
           NEW ot \in {d.ot, e.ot}, NEW acts \in {d.activities, e.activities}
    PROVE  DayOf(a, [d EXCEPT !.ot = ot, !.activities = acts])
<1> DEFINE day == [d EXCEPT !.ot = ot, !.activities = acts]
<1>1. SameFrame(a, d) /\ SameFrame(a, e)
  BY DayByLayer
<1>2. ot \in SUBSET BlockRow /\ acts \in SUBSET BlockRow
  BY <1>1 DEF SameFrame, Day
<1>3. SameFrame(a, day) /\ day.ot = ot /\ day.activities = acts
  BY <1>1, <1>2 DEF SameFrame, Day
<1>4. ValidIn(a, "ot", ot) /\ ValidIn(a, "activities", acts)
  BY DayByLayer
<1> HIDE DEF day
<1>5. DayOf(a, day)
  BY <1>3, <1>4, DayByLayer
<1> QED
  BY <1>5 DEF day

LEMMA OvertimeStarts ==
    ASSUME NEW a \in Agents, NEW day, DayOf(a, day)
    PROVE  day \in Day /\ Starts(day.ot) /\ Apart(day.ot)
<1>1. day \in Day /\ ValidIn(a, "ot", day.ot)
  BY DayByLayer DEF SameFrame
<1> QED
  BY <1>1 DEF ValidIn, Starts, Day, BlockRow

-----------------------------------------------------------------------------
(* What a claim and its cancellation make of a day *)

SlotWindow == [kind : STRING, channel : STRING, start : Int, end : Int]

LEMMA PlacedBlock ==
    ASSUME NEW w \in SlotWindow, NEW day \in Day, NEW b \in Placed(w, day)
    PROVE  /\ b.kind \in STRING /\ b.start \in Int /\ b.end \in Int
           /\ b.start < b.end
           /\ w.kind = "ot" => Clashing(day.ot, b.start, b.end) = {}
<1>1. /\ w.kind \in STRING /\ w.channel \in STRING /\ w.start \in Int /\ w.end \in Int
      /\ day.start \in Int /\ day.end \in Int
  BY DEF SlotWindow, Day
<1>2. CASE w.kind = "ot"
  <2> DEFINE s == day.start
             e == day.end
             lo == IF (w.start >= s /\ w.start < e /\ e < w.end) \/ (w.start < s /\ w.end > e)
                   THEN e ELSE w.start
             hi == IF w.start < s /\ s < w.end /\ w.end <= e THEN s ELSE w.end
  <2>1. lo \in Int /\ hi \in Int
    BY <1>1
  <2>2. b \in Overtime(w, day)
    BY <1>2 DEF Placed
  <2>3. Overtime(w, day) = {x \in {Stretch(w.channel, lo, hi)} : CanAddOvertime(day, lo, hi)}
    BY DEF Overtime
  <2> HIDE DEF lo, hi
  <2>4. b = Stretch(w.channel, lo, hi) /\ CanAddOvertime(day, lo, hi)
    BY <2>2, <2>3
  <2>5. hi - lo >= OtMin /\ Clashing(day.ot, lo, hi) = {}
    BY <2>4 DEF CanAddOvertime
  <2>6. OtMin \in Nat \ {0}
    BY LengthsAssumption
  <2> QED
    BY <1>1, <2>1, <2>4, <2>5, <2>6 DEF Stretch
<1>3. CASE w.kind # "ot"
  <2> DEFINE lo == IF w.kind = "leave" THEN day.start ELSE Max({w.start, day.start})
             hi == IF w.kind = "leave" THEN day.end ELSE Min({w.end, day.end})
  <2>1. lo \in Int /\ hi \in Int
    BY <1>1, MinOfTwo, MaxOfTwo
  <2>2. b \in TimeOff(w, day)
    BY <1>3 DEF Placed
  <2>3. TimeOff(w, day) = {x \in {Stretch(w.kind, lo, hi)} : CanMark(day, "activities", lo, hi)}
    BY DEF TimeOff
  <2> HIDE DEF lo, hi
  <2>4. b = Stretch(w.kind, lo, hi) /\ CanMark(day, "activities", lo, hi)
    BY <2>2, <2>3
  <2>5. hi - lo >= AuxMin
    BY <2>4 DEF CanMark
  <2>6. AuxMin \in Nat \ {0}
    BY LengthsAssumption
  <2> QED
    BY <1>1, <1>3, <2>1, <2>4, <2>5, <2>6 DEF Stretch
<1> QED
  BY <1>2, <1>3

(* A claim adds its block, as overtime or as an activity, and nothing else *)
(* of the day changes.                                                     *)
LEMMA DayWithBlock ==
    ASSUME NEW w \in SlotWindow, NEW g \in Segs, NEW day \in Day, Starts(day.ot), Apart(day.ot),
           NEW b \in Placed(w, day), NEW d, d = WithBlock(w, day, b, g)
    PROVE  /\ d \in Day
           /\ d.start = day.start /\ d.end = day.end
           /\ d.channels = day.channels /\ d.breaks = day.breaks
           /\ IF w.kind = "ot"
              THEN /\ d.activities = day.activities
                   /\ \A m \in Int :
                         /\ Worked(d.ot, m) <=> Worked(day.ot, m) \/ InBlock(b, m)
                         /\ ~(Worked(day.ot, m) /\ InBlock(b, m))
              ELSE /\ d.ot = day.ot
                   /\ \E x \in d.activities :
                         x.id = <<g, 0>> /\ d.activities = day.activities \cup {x}
<1> DEFINE x == [id |-> <<g, 0>>, kind |-> b.kind, start |-> b.start, end |-> b.end]
<1>1. /\ b.kind \in STRING /\ b.start \in Int /\ b.end \in Int /\ b.start < b.end
      /\ w.kind = "ot" => Clashing(day.ot, b.start, b.end) = {}
  BY PlacedBlock
<1>2. g \in Nat
  BY SlotsAssumption
<1>3. /\ x \in BlockRow /\ x.start = b.start /\ x.end = b.end /\ x.start < x.end
      /\ x.id = <<g, 0>>
  BY <1>1, <1>2 DEF BlockRow
<1>4. WithBlock(w, day, b, g) = IF w.kind = "ot" THEN WithOvertime(day, x)
                                ELSE Mark(day, "activities", x)
  BY DEF WithBlock
<1> HIDE DEF x
<1>5. CASE w.kind = "ot"
  <2>1. /\ d \in Day /\ d = [day EXCEPT !.ot = d.ot]
        /\ \A m \in Int : Worked(d.ot, m) <=> Worked(day.ot, m) \/ InBlock(x, m)
    <3>1. BlockRow = BlocksOf(Int \X Nat, STRING)
      BY DEF BlockRow, BlocksOf
    <3>2. day.ot \in SUBSET BlocksOf(Int \X Nat, STRING) /\ d = WithOvertime(day, x)
      BY <1>4, <1>5, <3>1 DEF Day
    <3>3. PICK ot \in SUBSET BlockRow :
             /\ d = [day EXCEPT !.ot = ot]
             /\ \A m \in Int : Worked(ot, m) <=> Worked(day.ot, m) \/ InBlock(x, m)
      BY <1>3, <3>1, <3>2, WithOvertimeMinutes
    <3> QED
      BY <3>3 DEF Day
  <2>2. \A m \in Int : ~(Worked(day.ot, m) /\ InBlock(b, m))
    <3> SUFFICES ASSUME NEW m \in Int, Worked(day.ot, m), InBlock(b, m) PROVE FALSE
      OBVIOUS
    <3>1. PICK y \in day.ot : y.start <= m /\ m < y.end
      BY DEF Worked
    <3>2. y.start \in Int /\ y.end \in Int
      BY DEF Day, BlockRow
    <3>3. b.start < y.end /\ b.end > y.start
      BY <1>1, <3>1, <3>2 DEF InBlock
    <3> QED
      BY <1>1, <1>5, <3>3 DEF Clashing
  <2>3. /\ d.start = day.start /\ d.end = day.end /\ d.channels = day.channels
        /\ d.breaks = day.breaks /\ d.activities = day.activities
    BY <2>1 DEF Day
  <2>4. \A m : InBlock(x, m) <=> InBlock(b, m)
    BY <1>3 DEF InBlock
  <2> QED
    BY <1>5, <2>1, <2>2, <2>3, <2>4
<1>6. CASE w.kind # "ot"
  <2>1. d = [day EXCEPT !.activities = @ \cup {x}]
    BY <1>4, <1>6 DEF Mark
  <2>2. day.activities \cup {x} \in SUBSET BlockRow
    BY <1>3 DEF Day
  <2>3. /\ d \in Day /\ d.activities = day.activities \cup {x}
        /\ d.start = day.start /\ d.end = day.end
        /\ d.channels = day.channels /\ d.breaks = day.breaks /\ d.ot = day.ot
    BY <2>1, <2>2 DEF Day
  <2> QED
    BY <1>3, <1>6, <2>3
<1> QED
  BY <1>5, <1>6

(* A cancellation takes the window out of the overtime, or the activity.   *)
LEMMA DayWithoutClaim ==
    ASSUME NEW g \in Segs, claims[g] \in Claim, NEW day \in Day, NEW d, d = WithoutClaim(day, g)
    PROVE  /\ d \in Day
           /\ d.start = day.start /\ d.end = day.end
           /\ d.channels = day.channels /\ d.breaks = day.breaks
           /\ IF Window[claims[g].offer].kind = "ot"
              THEN /\ d.activities = day.activities
                   /\ \A m \in Int : Worked(d.ot, m) <=> Worked(day.ot, m) /\ ~InBlock(claims[g], m)
              ELSE /\ d.ot = day.ot
                   /\ d.activities = {x \in day.activities : x.id # <<g, 0>>}
<1> DEFINE c == claims[g]
           ot == WithoutWindow(day.ot, c.start, c.end)
           acts == {x \in day.activities : x.id # <<g, 0>>}
<1>1. d = IF Window[c.offer].kind = "ot" THEN [day EXCEPT !.ot = ot]
          ELSE [day EXCEPT !.activities = acts]
  BY DEF WithoutClaim
<1>2. /\ ot \in SUBSET BlockRow
      /\ \A m \in Int : Worked(ot, m) <=> Worked(day.ot, m) /\ ~InBlock(c, m)
  <2>1. c.start \in Int /\ c.end \in Int /\ day.ot \in SUBSET BlockRow
    BY DEF Claim, Day
  <2> HIDE DEF c
  <2> QED
    BY <2>1, WithoutWindowMinutes DEF InBlock
<1>3. acts \in SUBSET BlockRow
  BY DEF Day
<1> HIDE DEF ot, acts
<1>4. CASE Window[c.offer].kind = "ot"
  <2>1. d = [day EXCEPT !.ot = ot]
    BY <1>1, <1>4
  <2>2. /\ d \in Day /\ d.ot = ot /\ d.activities = day.activities
        /\ d.start = day.start /\ d.end = day.end
        /\ d.channels = day.channels /\ d.breaks = day.breaks
    BY <1>2, <2>1 DEF Day
  <2> QED
    BY <1>2, <1>4, <2>2
<1>5. CASE Window[c.offer].kind # "ot"
  <2>1. d = [day EXCEPT !.activities = acts]
    BY <1>1, <1>5
  <2>2. /\ d \in Day /\ d.ot = day.ot /\ d.activities = acts
        /\ d.start = day.start /\ d.end = day.end
        /\ d.channels = day.channels /\ d.breaks = day.breaks
    BY <1>3, <2>1 DEF Day
  <2> QED
    BY <1>5, <2>2 DEF acts
<1> QED
  BY <1>4, <1>5

(* which leaves a valid day when it is an activity.                        *)
LEMMA ActivityTakenOut ==
    ASSUME NEW a \in Agents, NEW day, DayOf(a, day), NEW g \in Segs, claims[g] \in Claim,
           Window[claims[g].offer].kind # "ot"
    PROVE  ValidDay(WithoutClaim(day, g))
<1> DEFINE d == WithoutClaim(day, g)
<1>1. SameFrame(a, day) /\ ValidIn(a, "ot", day.ot) /\ ValidIn(a, "activities", day.activities)
  BY DayByLayer
<1>2. /\ d \in Day /\ d.start = day.start /\ d.end = day.end
      /\ d.channels = day.channels /\ d.breaks = day.breaks
      /\ d.ot = day.ot /\ d.activities = {x \in day.activities : x.id # <<g, 0>>}
  BY <1>1, DayWithoutClaim DEF SameFrame
<1> HIDE DEF d
<1>3. SameFrame(a, d)
  BY <1>1, <1>2 DEF SameFrame
<1>4. ValidIn(a, "activities", d.activities)
  BY <1>1, <1>2 DEF ValidIn, Apart
<1>5. DayOf(a, d)
  BY <1>1, <1>2, <1>3, <1>4, DayByLayer
<1> QED
  BY <1>5 DEF DayOf, d

-----------------------------------------------------------------------------
(* Type correctness, however requests overlap *)

LEMMA TypeInitially == Init => TypeInv
<1> SUFFICES ASSUME Init PROVE TypeInv
  OBVIOUS
<1>1. Made = {}
  BY DEF Init, Made
<1>2. IsFiniteSet(Made) /\ ClaimsHaveOffers
  BY <1>1, FS_EmptySet DEF ClaimsHaveOffers
<1>3. \A a \in Agents : days[a] = FirstDays[a] /\ DayOf(a, days[a])
  BY FirstDay DEF Init
<1>4. days \in [Agents -> Day \cup {None}]
  BY SlotsAssumption DEF Init
<1>5. TypeOK
  BY <1>3, <1>4 DEF TypeOK, Init, DayOf
<1>6. \A c \in Clients : req[c] = None
  BY DEF Init
<1> QED
  BY <1>2, <1>3, <1>5, <1>6 DEF TypeInv

LEMMA RequestTypes ==
    ASSUME TypeInv, NEW c \in Clients, req[c] # None
    PROVE  /\ req[c] \in OfferRequest \cup DayRequest
           /\ req[c].agent = None => req[c] \in OfferRequest
           /\ req[c].agent # None => req[c] \in DayRequest
           /\ req[c].offer \in Offers /\ Consistent(req[c])
<1>1. req[c] \in OfferRequest \cup DayRequest
  BY DEF TypeInv, TypeOK
<1>2. \A q \in OfferRequest : q.agent = None /\ q.offer \in Offers
  BY DEF OfferRequest
<1>3. \A q \in DayRequest : q.agent # None /\ q.offer \in Offers
  BY SlotsAssumption DEF DayRequest
<1> QED
  BY <1>1, <1>2, <1>3 DEF TypeInv

LEMMA TypeBegin ==
    ASSUME TypeInv, NEW c \in Clients, NEW q \in OfferRequest \cup DayRequest, Consistent(q),
           Begin(c, q)
    PROVE  TypeInv'
<1>1. /\ req' = [req EXCEPT ![c] = q]
      /\ offers' = offers /\ claims' = claims /\ days' = days /\ kept' = kept
  BY DEF Begin
<1>2. TypeOK'
  BY <1>1 DEF TypeInv, TypeOK
<1>3. Made' = Made /\ ClaimsHaveOffers'
  BY <1>1 DEF TypeInv, Made, ClaimsHaveOffers
<1>4. \A x \in Clients : req'[x] # None => Consistent(req'[x])
  BY <1>1 DEF TypeInv, TypeOK
<1> QED
  BY <1>1, <1>2, <1>3, <1>4 DEF TypeInv

LEMMA OfferWriteType ==
    ASSUME TypeInv, NEW o \in Offers, NEW row \in Offer \cup {None},
           offers[o] # None /\ row # None => offers[o].id = row.id
    PROVE  OfferWrite(o, row) \in OfferRequest /\ Consistent(OfferWrite(o, row))
<1>1. offers[o] \in Offer \cup {None}
  BY DEF TypeInv, TypeOK
<1> QED
  BY <1>1 DEF OfferWrite, OfferRequest, Consistent

LEMMA DayWriteType ==
    ASSUME TypeInv, NEW o \in Offers, NEW a \in Agents, NEW g \in Segs, NEW claim \in Claim,
           claim.offer = o, claim.agent = a,
           NEW day, days[a] # None => SameFrame(a, day)
    PROVE  LET q == DayWrite(o, a, day, g, claim)
           IN  q \in DayRequest /\ q.agent # None /\ Consistent(q)
<1> DEFINE refused == days[a] # None /\ ~ValidDay(day)
           after == IF days[a] = None \/ refused THEN days[a] ELSE day
           q == DayWrite(o, a, day, g, claim)
<1>1. q = [offer |-> o, seen |-> offers[o], row |-> offers[o], agent |-> a, before |-> days[a],
           after |-> after, refused |-> refused, seg |-> g, claim |-> claim]
  BY DEF DayWrite
<1>2. offers[o] \in Offer \cup {None} /\ days[a] \in Day \cup {None}
  BY DEF TypeInv, TypeOK
<1>3. days[a] = None => after = None
  OBVIOUS
<1>4. days[a] # None => DayOf(a, days[a]) /\ DayOf(a, after)
  BY DEF TypeInv, DayOf, SameFrame
<1>5. after \in Day \cup {None}
  BY <1>2, <1>3, <1>4 DEF DayOf
<1>6. refused \in BOOLEAN
  OBVIOUS
<1> HIDE DEF refused, after, q
<1>7. q \in DayRequest
  BY <1>1, <1>2, <1>5, <1>6 DEF DayRequest
<1>8. Consistent(q)
  BY <1>1, <1>3, <1>4 DEF Consistent
<1>9. q.agent # None
  BY <1>1, SlotsAssumption
<1> QED
  BY <1>7, <1>8, <1>9 DEF q

(* A new offer's id is one that no request holds: each holds one at most.  *)
LEMMA FreeId ==
    ASSUME TypeInv, NEW c \in Clients, req[c] = None, NEW o \in Offers
    PROVE  Min(RowIds \ HeldIds(o)) \in RowIds
<1> DEFINE Rows(x) == {req[x].seen, req[x].row} \ {None}
           Busy == {x \in Clients : req[x] # None /\ req[x].offer = o /\ Rows(x) # {}}
           id == [x \in Busy |-> (CHOOSE r \in Rows(x) : TRUE).id]
           Held == HeldIds(o)
<1>1. Held = {r.id : r \in UNION {Rows(x) : x \in Busy}}
  <2> DEFINE all == (UNION {{req[x].seen, req[x].row} :
                               x \in {y \in Clients : req[y] # None /\ req[y].offer = o}}) \ {None}
             rows == UNION {Rows(x) : x \in Busy}
  <2>1. \A r : r \in all <=> \E x \in Clients : req[x] # None /\ req[x].offer = o /\ r \in Rows(x)
    OBVIOUS
  <2>2. \A r : r \in rows <=> \E x \in Clients : req[x] # None /\ req[x].offer = o /\ r \in Rows(x)
    OBVIOUS
  <2>3. Held = {r.id : r \in all}
    BY DEF HeldIds
  <2> HIDE DEF all, rows, Held
  <2>4. all = rows
    BY <2>1, <2>2
  <2> QED
    BY <2>3, <2>4 DEF rows
<1>2. \A x \in Busy : \A r \in Rows(x) : r.id = id[x]
  <2> TAKE x \in Busy
  <2>1. Consistent(req[x])
    BY DEF TypeInv
  <2>2. \A r, s \in Rows(x) : r.id = s.id
    BY <2>1 DEF Consistent
  <2>3. (CHOOSE r \in Rows(x) : TRUE) \in Rows(x)
    OBVIOUS
  <2> QED
    BY <2>2, <2>3
<1>3. \A x \in Busy : \E r \in Rows(x) : TRUE
  OBVIOUS
<1>4. id \in Surjection(Busy, Held)
  <2> HIDE DEF Rows, id, Busy, Held
  <2>1. \A x \in Busy : id[x] \in Held
    BY <1>1, <1>2, <1>3
  <2>2. \A h \in Held : \E x \in Busy : id[x] = h
    BY <1>1, <1>2
  <2>3. id = [x \in Busy |-> id[x]]
    BY DEF id
  <2>4. id \in [Busy -> Held]
    BY <2>1, <2>3
  <2> QED
    BY <2>2, <2>4 DEF Surjection
<1>5. IsFiniteSet(Clients) /\ IsFiniteSet(RowIds) /\ Cardinality(RowIds) >= Cardinality(Clients)
  BY SlotsAssumption
<1>6. Busy \subseteq Clients \ {c}
  OBVIOUS
<1> HIDE DEF Busy, id, Held
<1>7. /\ IsFiniteSet(Clients \ {c}) /\ Cardinality(Clients \ {c}) = Cardinality(Clients) - 1
  BY <1>5, FS_RemoveElement
<1>8. IsFiniteSet(Busy) /\ Cardinality(Busy) <= Cardinality(Clients \ {c})
  BY <1>6, <1>7, FS_Subset
<1>9. IsFiniteSet(Held) /\ Cardinality(Held) <= Cardinality(Busy)
  BY <1>4, <1>8, FS_Surjection
<1>10. RowIds \ Held # {}
  <2> SUFFICES ASSUME RowIds \subseteq Held PROVE FALSE
    OBVIOUS
  <2>1. Cardinality(RowIds) <= Cardinality(Held)
    BY <1>9, FS_Subset
  <2>2. /\ Cardinality(RowIds) \in Nat /\ Cardinality(Held) \in Nat
        /\ Cardinality(Busy) \in Nat /\ Cardinality(Clients) \in Nat
    BY <1>5, <1>8, <1>9, FS_CardinalityType
  <2> QED
    BY <1>5, <1>7, <1>8, <1>9, <2>1, <2>2
<1>11. RowIds \ Held \in SUBSET Nat
  BY SlotsAssumption
<1>12. Min(RowIds \ Held) \in RowIds \ Held
  BY <1>10, <1>11, MinOfNats
<1> QED
  BY <1>12 DEF Held

LEMMA FilledIsFinite ==
    ASSUME TypeInv, NEW o
    PROVE  IsFiniteSet(FilledOf(o)) /\ Cardinality(FilledOf(o)) \in Nat
<1>1. IsFiniteSet(Made) /\ FilledOf(o) \subseteq Made
  BY DEF TypeInv, FilledOf, Made
<1> QED
  BY <1>1, FS_Subset, FS_CardinalityType

LEMMA TypeUpsert ==
    ASSUME TypeInv, NEW c \in Clients, NEW o \in Offers, UpsertOffer(c, o)
    PROVE  TypeInv'
<1>1. PICK n \in Capacities[o], E \in Eligibles :
         Begin(c, OfferWrite(o, [capacity |-> Resized(o, n), status |-> "open", eligible |-> E,
            id |-> IF offers[o] = None THEN Min(RowIds \ HeldIds(o)) ELSE offers[o].id]))
  BY DEF UpsertOffer
<1> DEFINE id == IF offers[o] = None THEN Min(RowIds \ HeldIds(o)) ELSE offers[o].id
           row == [capacity |-> Resized(o, n), status |-> "open", eligible |-> E, id |-> id]
<1>2. offers[o] \in Offer \cup {None} /\ req[c] = None
  BY <1>1 DEF TypeInv, TypeOK, Begin
<1>3. id \in RowIds /\ (offers[o] # None => id = offers[o].id)
  BY <1>2, FreeId DEF Offer
<1>4. Resized(o, n) \in Nat
  <2>1. n \in Nat /\ Cardinality(FilledOf(o)) \in Nat
    BY SlotsAssumption, FilledIsFinite
  <2> QED
    BY <2>1, MaxOfTwo DEF Resized
<1>5. E \in SUBSET Agents
  BY SlotsAssumption
<1>6. Begin(c, OfferWrite(o, row))
  BY <1>1
<1> HIDE DEF id
<1>7. row \in Offer /\ (offers[o] # None => row.id = offers[o].id)
  BY <1>3, <1>4, <1>5 DEF Offer
<1> HIDE DEF row
<1>8. OfferWrite(o, row) \in OfferRequest /\ Consistent(OfferWrite(o, row))
  BY <1>7, OfferWriteType
<1> QED
  BY <1>6, <1>8, TypeBegin

LEMMA TypePatch ==
    ASSUME TypeInv, NEW c \in Clients, NEW o \in Offers, PatchOffer(c, o)
    PROVE  TypeInv'
<1>1. PICK n \in Capacities[o] \cup {offers[o].capacity}, st \in {"open", "closed"} :
         Begin(c, OfferWrite(o, [offers[o] EXCEPT !.capacity = n, !.status = st]))
  BY DEF PatchOffer
<1> DEFINE row == [offers[o] EXCEPT !.capacity = n, !.status = st]
<1>2. offers[o] \in Offer
  BY DEF TypeInv, TypeOK, PatchOffer
<1>3. n \in Nat
  BY <1>2, SlotsAssumption DEF Offer
<1>4. row \in Offer /\ row.id = offers[o].id
  BY <1>2, <1>3 DEF Offer
<1>5. Begin(c, OfferWrite(o, row))
  BY <1>1
<1> HIDE DEF row
<1>6. OfferWrite(o, row) \in OfferRequest /\ Consistent(OfferWrite(o, row))
  BY <1>4, OfferWriteType
<1> DEFINE q == OfferWrite(o, row)
<1>7. q \in OfferRequest \cup DayRequest /\ Consistent(q) /\ Begin(c, q)
  BY <1>5, <1>6
<1> HIDE DEF q
<1> QED
  BY <1>7, TypeBegin, Zenon

LEMMA TypeDelete ==
    ASSUME TypeInv, NEW c \in Clients, NEW o \in Offers, DeleteOffer(c, o)
    PROVE  TypeInv'
<1>1. Begin(c, OfferWrite(o, None))
  BY DEF DeleteOffer
<1>2. OfferWrite(o, None) \in OfferRequest /\ Consistent(OfferWrite(o, None))
  BY OfferWriteType
<1> QED
  BY <1>1, <1>2, TypeBegin

(* What a claim and a cancellation are about to write.                     *)
FilledClaim(o, a, b) ==
    [offer |-> o, agent |-> a, start |-> b.start, end |-> b.end, status |-> "filled"]

Cancelled(g) == [claims[g] EXCEPT !.status = "cancelled"]

LEMMA SlotWindows == \A o \in Offers : Window[o] \in SlotWindow
BY SlotsAssumption DEF SlotWindow

LEMMA ClaimRequest ==
    ASSUME TypeInv, NEW c \in Clients, NEW o \in Offers, NEW a \in Agents, ClaimSlot(c, o, a)
    PROVE  \E g \in Segs, b \in Placed(Window[o], days[a]) :
              /\ claims[g] = None
              /\ days[a] # None /\ DayOf(a, days[a])
              /\ ValidDay(WithBlock(Window[o], days[a], b, g))
              /\ FilledClaim(o, a, b) \in Claim
              /\ DayOf(a, WithBlock(Window[o], days[a], b, g))
              /\ Begin(c, DayWrite(o, a, WithBlock(Window[o], days[a], b, g), g,
                                   FilledClaim(o, a, b)))
<1>1. PICK g \in {x \in Segs : claims[x] = None /\ x \notin InFlight},
           b \in Placed(Window[o], days[a]) :
         /\ ValidDay(WithBlock(Window[o], days[a], b, g))
         /\ Begin(c, DayWrite(o, a, WithBlock(Window[o], days[a], b, g), g,
                [offer |-> o, agent |-> a, start |-> b.start, end |-> b.end, status |-> "filled"]))
  BY DEF ClaimSlot
<1>2. days[a] # None /\ DayOf(a, days[a])
  BY DEF TypeInv, ClaimSlot
<1>3. days[a] \in Day /\ Starts(days[a].ot) /\ Apart(days[a].ot)
  BY <1>2, OvertimeStarts
<1>4. b.start \in Int /\ b.end \in Int
  BY <1>3, SlotWindows, PlacedBlock
<1>5. FilledClaim(o, a, b) \in Claim
  BY <1>4 DEF FilledClaim, Claim
<1> DEFINE d == WithBlock(Window[o], days[a], b, g)
<1>6. /\ d \in Day /\ d.start = days[a].start /\ d.end = days[a].end
      /\ d.channels = days[a].channels /\ d.breaks = days[a].breaks
  BY <1>3, SlotWindows, DayWithBlock
<1>7. DayOf(a, d)
  <2> HIDE DEF d
  <2> QED
    BY <1>1, <1>2, <1>6 DEF DayOf, d
<1> QED
  BY <1>1, <1>2, <1>5, <1>7 DEF FilledClaim

LEMMA TypeClaim ==
    ASSUME TypeInv, NEW c \in Clients, NEW o \in Offers, NEW a \in Agents, ClaimSlot(c, o, a)
    PROVE  TypeInv'
<1>1. PICK g \in Segs, b \in Placed(Window[o], days[a]) :
              /\ FilledClaim(o, a, b) \in Claim
              /\ DayOf(a, WithBlock(Window[o], days[a], b, g))
              /\ Begin(c, DayWrite(o, a, WithBlock(Window[o], days[a], b, g), g,
                                   FilledClaim(o, a, b)))
  BY ClaimRequest
<1> DEFINE d == WithBlock(Window[o], days[a], b, g)
           claim == FilledClaim(o, a, b)
           q == DayWrite(o, a, d, g, claim)
<1>2. claim \in Claim /\ claim.offer = o /\ claim.agent = a
  BY <1>1 DEF FilledClaim
<1>3. SameFrame(a, d)
  BY <1>1, DayByLayer
<1>4. Begin(c, q)
  BY <1>1
<1> HIDE DEF d, claim
<1>5. q \in DayRequest /\ Consistent(q)
  BY <1>2, <1>3, DayWriteType
<1> QED
  BY <1>4, <1>5, TypeBegin

LEMMA CancelRequest ==
    ASSUME TypeInv, NEW c \in Clients, NEW g \in Segs, CancelClaim(c, g)
    PROVE  /\ claims[g] # None /\ claims[g] \in Claim /\ claims[g].status = "filled"
           /\ claims[g].agent \in Agents /\ claims[g].offer \in Offers
           /\ Cancelled(g) \in Claim
           /\ Cancelled(g).offer = claims[g].offer /\ Cancelled(g).agent = claims[g].agent
           /\ Cancelled(g).start = claims[g].start /\ Cancelled(g).end = claims[g].end
           /\ Cancelled(g).status = "cancelled"
           /\ LET a == claims[g].agent
              IN  Begin(c, DayWrite(claims[g].offer, a,
                              IF days[a] = None THEN None ELSE WithoutClaim(days[a], g),
                              g, Cancelled(g)))
<1>1. claims[g] # None /\ claims[g] \in Claim /\ claims[g].status = "filled"
  BY DEF CancelClaim, TypeInv, TypeOK
<1>2. LET a == claims[g].agent
      IN  Begin(c, DayWrite(claims[g].offer, a,
                      IF days[a] = None THEN None ELSE WithoutClaim(days[a], g),
                      g, Cancelled(g)))
  BY DEF CancelClaim, Cancelled
<1>3. /\ claims[g].agent \in Agents /\ claims[g].offer \in Offers
      /\ Cancelled(g) \in Claim
      /\ Cancelled(g).offer = claims[g].offer /\ Cancelled(g).agent = claims[g].agent
      /\ Cancelled(g).start = claims[g].start /\ Cancelled(g).end = claims[g].end
      /\ Cancelled(g).status = "cancelled"
  BY <1>1 DEF Claim, Cancelled
<1> QED
  BY <1>1, <1>2, <1>3

LEMMA TypeCancel ==
    ASSUME TypeInv, NEW c \in Clients, NEW g \in Segs, CancelClaim(c, g)
    PROVE  TypeInv'
<1> DEFINE a == claims[g].agent
           o == claims[g].offer
           d == IF days[a] = None THEN None ELSE WithoutClaim(days[a], g)
           q == DayWrite(o, a, d, g, Cancelled(g))
<1>1. /\ claims[g] \in Claim /\ a \in Agents /\ o \in Offers /\ Cancelled(g) \in Claim
      /\ Cancelled(g).offer = o /\ Cancelled(g).agent = a /\ Begin(c, q)
  BY CancelRequest
<1>2. days[a] # None => DayOf(a, days[a])
  BY <1>1 DEF TypeInv
<1>3. days[a] # None => SameFrame(a, d)
  <2> SUFFICES ASSUME days[a] # None PROVE SameFrame(a, WithoutClaim(days[a], g))
    OBVIOUS
  <2>1. SameFrame(a, days[a])
    BY <1>1, <1>2, DayByLayer
  <2> HIDE DEF a
  <2> QED
    BY <1>1, <2>1, DayWithoutClaim DEF SameFrame
<1> HIDE DEF a, o, d
<1>4. q \in DayRequest /\ Consistent(q)
  BY <1>1, <1>3, DayWriteType
<1> HIDE DEF q
<1> QED
  BY <1>1, <1>4, TypeBegin

(* What a commit makes of the offer and of the day.                        *)
LEMMA FlushedOfferType ==
    ASSUME TypeInv, NEW c \in Clients, req[c] # None, CanFlush(req[c])
    PROVE  FlushedOffer(req[c]) \in Offer \cup {None}
<1> DEFINE q == req[c]
<1>1. q.seen \in Offer \cup {None} /\ q.row \in Offer \cup {None} /\ q.offer \in Offers
  BY RequestTypes DEF OfferRequest, DayRequest
<1>2. offers[q.offer] \in Offer \cup {None}
  BY <1>1 DEF TypeInv, TypeOK
<1>3. q.row # q.seen /\ q.row # None /\ q.seen # None => offers[q.offer] # None
  BY DEF CanFlush, SameOffer
<1> SUFFICES FlushedOffer(q) \in Offer \cup {None}
  OBVIOUS
<1> HIDE DEF q
<1>4. CASE q.row = q.seen \/ q.row = None \/ q.seen = None
  BY <1>1, <1>2, <1>4 DEF FlushedOffer
<1>5. CASE ~(q.row = q.seen \/ q.row = None \/ q.seen = None)
  <2>1. q.seen \in Offer /\ q.row \in Offer /\ offers[q.offer] \in Offer
    BY <1>1, <1>2, <1>3, <1>5
  <2>2. /\ Net(q.seen.capacity, q.row.capacity, offers[q.offer].capacity) \in Nat
        /\ Net(q.seen.status, q.row.status, offers[q.offer].status) \in {"open", "closed"}
        /\ Net(q.seen.eligible, q.row.eligible, offers[q.offer].eligible) \in SUBSET Agents
    BY <2>1 DEF Net, Offer
  <2>3. q.row.id \in RowIds
    BY <2>1 DEF Offer
  <2> QED
    BY <1>5, <2>2, <2>3 DEF FlushedOffer, Offer
<1> QED
  BY <1>4, <1>5

LEMMA FlushedDayType ==
    ASSUME TypeInv, NEW c \in Clients, req[c] # None, req[c].agent # None, CanFlush(req[c]),
           days[req[c].agent] # None
    PROVE  /\ DayOf(req[c].agent, FlushedDay(req[c]))
           /\ days[req[c].agent] = req[c].before =>
                 /\ FlushedDay(req[c]).ot = req[c].after.ot
                 /\ FlushedDay(req[c]).activities = req[c].after.activities
<1> DEFINE q == req[c]
           a == q.agent
           d == days[a]
           ot == Net(q.before.ot, q.after.ot, d.ot)
           acts == Net(q.before.activities, q.after.activities, d.activities)
<1>1. a \in Agents /\ Consistent(q)
  BY RequestTypes DEF DayRequest
<1>2. DayOf(a, d)
  BY <1>1 DEF TypeInv
<1> HIDE DEF q
<1>3. CASE q.after = q.before
  <2>1. FlushedDay(q) = d
    BY <1>3 DEF FlushedDay
  <2> QED
    BY <1>2, <1>3, <2>1 DEF q
<1>4. CASE q.after # q.before
  <2>1. q.before # None /\ DayOf(a, q.after)
    BY <1>1, <1>4 DEF Consistent, q
  <2>2. ot \in {d.ot, q.after.ot} /\ acts \in {d.activities, q.after.activities}
    BY DEF Net
  <2>3. FlushedDay(q) = [d EXCEPT !.ot = ot, !.activities = acts]
    BY <1>4 DEF FlushedDay
  <2>4. d = q.before => ot = q.after.ot /\ acts = q.after.activities
    BY DEF Net
  <2> HIDE DEF a, d, ot, acts
  <2>5. DayOf(a, FlushedDay(q))
    <3>1. DayOf(a, [d EXCEPT !.ot = ot, !.activities = acts])
      BY <1>1, <1>2, <2>1, <2>2, MixedDays, Zenon
    <3> QED
      BY <2>3, <3>1, Zenon
  <2>6. FlushedDay(q).ot = ot /\ FlushedDay(q).activities = acts
    BY <1>2, <2>3 DEF DayOf, Day
  <2> QED
    BY <2>4, <2>5, <2>6 DEF q, a, d
<1> QED
  BY <1>3, <1>4 DEF q

(* The claims before those of a deleted offer go.                          *)
Written(q) == IF q.agent = None THEN claims ELSE [claims EXCEPT ![q.seg] = q.claim]

LEMMA CommitParts ==
    ASSUME NEW c \in Clients, Commit(c)
    PROVE  LET q == req[c]
           IN  /\ q # None /\ CanFlush(q)
               /\ offers' = [offers EXCEPT ![q.offer] = FlushedOffer(q)]
               /\ claims' = [g \in Segs |->
                     IF FlushedOffer(q) = None /\ Written(q)[g] # None /\ Written(q)[g].offer = q.offer
                     THEN None ELSE Written(q)[g]]
               /\ days' = IF q.agent = None THEN days ELSE [days EXCEPT ![q.agent] = FlushedDay(q)]
               /\ kept' = IF q.agent # None /\ q.refused THEN kept \cup {q.agent} ELSE kept
               /\ req' = [req EXCEPT ![c] = None]
BY DEF Commit, Written

LEMMA WrittenClaims ==
    ASSUME TypeInv, NEW c \in Clients, req[c] # None
    PROVE  /\ Written(req[c]) \in [Segs -> Claim \cup {None}]
           /\ req[c].agent = None => Written(req[c]) = claims
           /\ req[c].agent # None =>
                 /\ req[c].seg \in Segs /\ Written(req[c])[req[c].seg] = req[c].claim
                 /\ req[c].claim \in Claim /\ req[c].claim # None
                 /\ \A g \in Segs \ {req[c].seg} : Written(req[c])[g] = claims[g]
<1> DEFINE q == req[c]
<1>1. claims \in [Segs -> Claim \cup {None}]
  BY DEF TypeInv, TypeOK
<1>2. q.agent # None => q.seg \in Segs /\ q.claim \in Claim /\ q.claim # None
  BY RequestTypes, SlotsAssumption DEF DayRequest
<1> HIDE DEF q
<1>3. CASE q.agent = None
  BY <1>1, <1>3 DEF Written, q
<1>4. CASE q.agent # None
  <2>1. Written(q) = [claims EXCEPT ![q.seg] = q.claim]
    BY <1>4 DEF Written
  <2> QED
    BY <1>1, <1>2, <1>4, <2>1 DEF q
<1> QED
  BY <1>3, <1>4

LEMMA TypeCommit ==
    ASSUME TypeInv, NEW c \in Clients, Commit(c)
    PROVE  TypeInv'
<1> DEFINE q == req[c]
           row == FlushedOffer(q)
           W == Written(q)
<1>1. /\ q # None /\ CanFlush(q)
      /\ offers' = [offers EXCEPT ![q.offer] = row]
      /\ claims' = [g \in Segs |-> IF row = None /\ W[g] # None /\ W[g].offer = q.offer
                                   THEN None ELSE W[g]]
      /\ days' = IF q.agent = None THEN days ELSE [days EXCEPT ![q.agent] = FlushedDay(q)]
      /\ kept' = IF q.agent # None /\ q.refused THEN kept \cup {q.agent} ELSE kept
      /\ req' = [req EXCEPT ![c] = None]
  BY CommitParts
<1>2. /\ q.offer \in Offers /\ Consistent(q)
      /\ q.agent # None => q.agent \in Agents
  BY <1>1, RequestTypes DEF DayRequest
<1>3. row \in Offer \cup {None}
  BY <1>1, FlushedOfferType
<1>4. /\ W \in [Segs -> Claim \cup {None}]
      /\ q.agent = None => W = claims
      /\ q.agent # None => q.seg \in Segs /\ W[q.seg] = q.claim
                           /\ \A g \in Segs \ {q.seg} : W[g] = claims[g]
  BY <1>1, WrittenClaims
<1>5. q.agent # None /\ days[q.agent] # None => DayOf(q.agent, FlushedDay(q))
  BY <1>1, FlushedDayType
<1>6. q.agent # None /\ days[q.agent] = None => FlushedDay(q) = None
  BY <1>1 DEF CanFlush, FlushedDay
<1> HIDE DEF q, row, W
<1>7. offers' \in [Offers -> Offer \cup {None}]
  BY <1>1, <1>2, <1>3 DEF TypeInv, TypeOK
<1>8. claims' \in [Segs -> Claim \cup {None}]
  BY <1>1, <1>4
<1>9. \A a \in Agents : days'[a] # None => DayOf(a, days'[a])
  <2>1. CASE q.agent = None
    BY <1>1, <2>1 DEF TypeInv
  <2>2. CASE q.agent # None
    <3>1. days \in [Agents -> Day \cup {None}]
      BY DEF TypeInv, TypeOK
    <3>2. \A a \in Agents : days'[a] = IF a = q.agent THEN FlushedDay(q) ELSE days[a]
      BY <1>1, <2>2, <3>1
    <3> QED
      BY <1>2, <1>5, <1>6, <2>2, <3>2 DEF TypeInv
  <2> QED
    BY <2>1, <2>2
<1>10. days' \in [Agents -> Day \cup {None}]
  <2>1. days \in [Agents -> Day \cup {None}]
    BY DEF TypeInv, TypeOK
  <2>2. q.agent # None => FlushedDay(q) \in Day \cup {None}
    BY <1>5, <1>6 DEF DayOf
  <2> QED
    BY <1>1, <1>2, <2>1, <2>2
<1>11. /\ req' \in [Clients -> OfferRequest \cup DayRequest \cup {None}]
       /\ \A x \in Clients : req'[x] # None => req'[x] = req[x] /\ req[x] # None
  BY <1>1 DEF TypeInv, TypeOK
<1>12. kept' \subseteq Agents
  BY <1>1, <1>2 DEF TypeInv, TypeOK
<1>13. \A a \in Agents : days'[a] # None => ValidDay(days'[a])
  BY <1>9 DEF DayOf
<1>14. TypeOK'
  BY <1>7, <1>8, <1>10, <1>11, <1>12, <1>13 DEF TypeOK
<1>15. IsFiniteSet(Made')
  <2>1. CASE q.agent = None
    <3>1. Made' \subseteq Made
      BY <1>1, <1>4, <2>1 DEF Made
    <3> QED
      BY <3>1, FS_Subset DEF TypeInv
  <2>2. CASE q.agent # None
    <3>1. Made' \subseteq Made \cup {q.seg}
      BY <1>1, <1>4, <2>2 DEF Made
    <3>2. IsFiniteSet(Made \cup {q.seg})
      BY FS_AddElement DEF TypeInv
    <3> QED
      BY <3>1, <3>2, FS_Subset
  <2> QED
    BY <2>1, <2>2
<1>16. ClaimsHaveOffers'
  <2> SUFFICES ASSUME NEW g \in Segs, claims'[g] # None
               PROVE  offers'[claims'[g].offer] # None
    BY DEF ClaimsHaveOffers, Made
  <2>1. claims'[g] = W[g] /\ W[g] # None /\ (row = None => W[g].offer # q.offer)
    BY <1>1
  <2>2. W[g].offer \in Offers
    BY <1>4, <2>1 DEF Claim
  <2>3. offers'[W[g].offer] = IF W[g].offer = q.offer THEN row ELSE offers[W[g].offer]
    BY <1>1, <2>2 DEF TypeInv, TypeOK
  <2>4. W[g].offer # q.offer => claims[g] = W[g]
    BY <1>2, <1>4 DEF Consistent
  <2>5. W[g].offer # q.offer => offers[W[g].offer] # None
    BY <2>1, <2>4 DEF TypeInv, ClaimsHaveOffers, Made
  <2> QED
    BY <2>1, <2>3, <2>5
<1> QED
  BY <1>9, <1>11, <1>14, <1>15, <1>16 DEF TypeInv

LEMMA TypeRollBack ==
    ASSUME TypeInv, NEW c \in Clients, RollBack(c)
    PROVE  TypeInv'
<1>1. /\ req' = [req EXCEPT ![c] = None]
      /\ offers' = offers /\ claims' = claims /\ days' = days /\ kept' = kept
  BY DEF RollBack
<1>2. TypeOK'
  BY <1>1 DEF TypeInv, TypeOK
<1>3. Made' = Made /\ ClaimsHaveOffers'
  BY <1>1 DEF TypeInv, Made, ClaimsHaveOffers
<1>4. \A x \in Clients : req'[x] # None => Consistent(req'[x])
  BY <1>1 DEF TypeInv, TypeOK
<1> QED
  BY <1>1, <1>2, <1>3, <1>4 DEF TypeInv

LEMMA TypeReset ==
    ASSUME TypeInv, NEW a \in Agents, ResetDay(a)
    PROVE  TypeInv'
<1>1. /\ days' = [days EXCEPT ![a] = None]
      /\ offers' = offers /\ claims' = claims /\ req' = req /\ kept' = kept
  BY DEF ResetDay
<1>2. days' \in [Agents -> Day \cup {None}] /\ \A x \in Agents : days'[x] # None => days'[x] = days[x]
  BY <1>1 DEF TypeInv, TypeOK
<1>3. TypeOK'
  BY <1>1, <1>2 DEF TypeInv, TypeOK
<1>4. Made' = Made /\ ClaimsHaveOffers'
  BY <1>1 DEF TypeInv, Made, ClaimsHaveOffers
<1> QED
  BY <1>1, <1>2, <1>3, <1>4 DEF TypeInv

LEMMA TypeSame ==
    ASSUME TypeInv, UNCHANGED vars
    PROVE  TypeInv'
BY DEF TypeInv, TypeOK, Made, ClaimsHaveOffers, vars

LEMMA TypeStep == TypeInv /\ [Next]_vars => TypeInv'
<1> SUFFICES ASSUME TypeInv, [Next]_vars PROVE TypeInv'
  OBVIOUS
<1>1. CASE UNCHANGED vars
  BY <1>1, TypeSame
<1>2. CASE \E c \in Clients, o \in Offers : UpsertOffer(c, o) \/ PatchOffer(c, o) \/ DeleteOffer(c, o)
  BY <1>2, TypeUpsert, TypePatch, TypeDelete
<1>3. CASE \E c \in Clients, o \in Offers, a \in Agents : ClaimSlot(c, o, a)
  BY <1>3, TypeClaim
<1>4. CASE \E c \in Clients, g \in Segs : CancelClaim(c, g)
  BY <1>4, TypeCancel
<1>5. CASE \E c \in Clients : Commit(c) \/ RollBack(c)
  BY <1>5, TypeCommit, TypeRollBack
<1>6. CASE \E a \in Agents : ResetDay(a)
  BY <1>6, TypeReset
<1> QED
  BY <1>1, <1>2, <1>3, <1>4, <1>5, <1>6 DEF Next

LEMMA TypeInvariant == Spec => []TypeInv
<1> QED
  BY TypeInitially, TypeStep, PTL DEF Spec

(* However requests overlap, every row keeps its type, and what is stored  *)
(* for an agent is a valid day: merging overtime, cutting it and writing   *)
(* layers read at different times (offers.py, dayplan.py) never stores one *)
(* that validate_day would refuse.                                         *)
THEOREM TypeCorrect == Spec => []TypeOK
<1>1. TypeInv => TypeOK
  BY DEF TypeInv
<1> QED
  BY <1>1, TypeInvariant, PTL

(* No claim outlives its offer: deleting an offer takes along the claims   *)
(* that other requests have made meanwhile.                                *)
THEOREM NoClaimWithoutOffer == Spec => []ClaimsHaveOffers
<1>1. TypeInv => ClaimsHaveOffers
  BY DEF TypeInv
<1> QED
  BY <1>1, TypeInvariant, PTL

-----------------------------------------------------------------------------
(* Capacity, when requests do not overlap *)

LEMMA SlotsInitially == Init => SlotInv
<1> SUFFICES ASSUME Init PROVE SlotInv
  OBVIOUS
<1>1. CapacityRespected /\ \A c \in Clients : req[c] = None
  BY DEF Init, CapacityRespected
<1> QED
  BY <1>1, TypeInitially DEF SlotInv, Alone

LEMMA SlotsBegin ==
    ASSUME Overlap = FALSE, SlotInv, TypeInv', NEW c \in Clients, NEW q, Begin(c, q), Fits(q)
    PROVE  SlotInv'
<1>1. /\ req' = [req EXCEPT ![c] = q] /\ \A x \in Clients : req[x] = None
      /\ offers' = offers /\ claims' = claims
  BY DEF Begin
<1>2. \A x \in Clients : req'[x] # None => x = c /\ req'[x] = q
  BY <1>1 DEF SlotInv, TypeInv, TypeOK
<1>3. Alone'
  BY <1>2 DEF Alone
<1>4. \A o : FilledOf(o)' = FilledOf(o) /\ (HasRoom(o)' <=> HasRoom(o))
  BY <1>1 DEF FilledOf, HasRoom
<1>5. CapacityRespected'
  BY <1>1, <1>4 DEF CapacityRespected, SlotInv
<1>6. Fits(q)'
  BY <1>1, <1>4 DEF Fits
<1>7. \A x \in Clients : req'[x] # None => Fits(req[x])'
  BY <1>2, <1>6
<1> QED
  BY <1>3, <1>5, <1>7 DEF SlotInv

LEMMA UpsertFits ==
    ASSUME TypeInv, NEW c \in Clients, NEW o \in Offers, UpsertOffer(c, o)
    PROVE  \E q : Begin(c, q) /\ Fits(q) /\ q.agent = None
<1>1. PICK n \in Capacities[o], E \in Eligibles :
         Begin(c, OfferWrite(o, [capacity |-> Resized(o, n), status |-> "open", eligible |-> E,
            id |-> IF offers[o] = None THEN Min(RowIds \ HeldIds(o)) ELSE offers[o].id]))
  BY DEF UpsertOffer
<1> DEFINE id == IF offers[o] = None THEN Min(RowIds \ HeldIds(o)) ELSE offers[o].id
           row == [capacity |-> Resized(o, n), status |-> "open", eligible |-> E, id |-> id]
           q == OfferWrite(o, row)
<1>2. offers[o] \in Offer \cup {None} /\ req[c] = None
  BY <1>1 DEF TypeInv, TypeOK, Begin
<1>3. id \in RowIds
  BY <1>2, FreeId DEF Offer
<1>4. Resized(o, n) \in Nat /\ Cardinality(FilledOf(o)) <= Resized(o, n)
  <2>1. n \in Nat /\ Cardinality(FilledOf(o)) \in Nat
    BY SlotsAssumption, FilledIsFinite
  <2> QED
    BY <2>1, MaxOfTwo DEF Resized
<1>5. E \in SUBSET Agents
  BY SlotsAssumption
<1>6. Begin(c, q)
  BY <1>1
<1> HIDE DEF id
<1>7. row \in Offer /\ row.capacity = Resized(o, n)
  BY <1>3, <1>4, <1>5 DEF Offer
<1>8. row # None
  BY <1>7, SlotsAssumption
<1> HIDE DEF row
<1>9. Fits(q) /\ q.agent = None
  BY <1>4, <1>7, <1>8 DEF Fits, OfferWrite
<1> HIDE DEF q
<1> QED
  BY <1>6, <1>9

LEMMA PatchFits ==
    ASSUME SlotInv, NEW c \in Clients, NEW o \in Offers, PatchOffer(c, o)
    PROVE  \E q : Begin(c, q) /\ Fits(q) /\ q.agent = None
<1>1. PICK n \in Capacities[o] \cup {offers[o].capacity}, st \in {"open", "closed"} :
         /\ n = offers[o].capacity \/ n >= Cardinality(FilledOf(o))
         /\ Begin(c, OfferWrite(o, [offers[o] EXCEPT !.capacity = n, !.status = st]))
  BY DEF PatchOffer
<1> DEFINE row == [offers[o] EXCEPT !.capacity = n, !.status = st]
           q == OfferWrite(o, row)
<1>2. offers[o] \in Offer /\ Cardinality(FilledOf(o)) <= offers[o].capacity
  BY DEF SlotInv, TypeInv, TypeOK, PatchOffer, CapacityRespected
<1>3. n \in Nat /\ Cardinality(FilledOf(o)) \in Nat
  BY <1>2, FilledIsFinite, SlotsAssumption DEF Offer, SlotInv
<1>4. row \in Offer /\ row.capacity = n
  BY <1>2, <1>3 DEF Offer
<1>5. row # None
  BY <1>4, SlotsAssumption
<1>6. Begin(c, q) /\ Cardinality(FilledOf(o)) <= n
  BY <1>1, <1>2, <1>3
<1> HIDE DEF row
<1>7. Fits(q) /\ q.agent = None
  BY <1>4, <1>5, <1>6 DEF Fits, OfferWrite
<1> HIDE DEF q
<1> QED
  BY <1>6, <1>7, Zenon

LEMMA DeleteFits ==
    ASSUME NEW c \in Clients, NEW o \in Offers, DeleteOffer(c, o)
    PROVE  \E q : Begin(c, q) /\ Fits(q) /\ q.agent = None
<1> DEFINE q == OfferWrite(o, None)
<1>1. Begin(c, q) /\ Fits(q) /\ q.agent = None
  BY DEF DeleteOffer, Fits, OfferWrite
<1> QED
  BY <1>1

LEMMA ClaimFits ==
    ASSUME TypeInv, NEW c \in Clients, NEW o \in Offers, NEW a \in Agents, ClaimSlot(c, o, a),
           NEW g \in Segs, claims[g] = None, NEW b, NEW d
    PROVE  Fits(DayWrite(o, a, d, g, FilledClaim(o, a, b)))
<1>1. HasRoom(o)
  BY DEF ClaimSlot
<1>2. a # None
  BY SlotsAssumption
<1> QED
  BY <1>1, <1>2 DEF Fits, DayWrite, FilledClaim

LEMMA CancelFits ==
    ASSUME TypeInv, NEW c \in Clients, NEW g \in Segs, CancelClaim(c, g), NEW d
    PROVE  Fits(DayWrite(claims[g].offer, claims[g].agent, d, g, Cancelled(g)))
<1>1. /\ claims[g] # None /\ claims[g].status = "filled"
      /\ claims[g].agent \in Agents /\ Cancelled(g).status = "cancelled"
  BY CancelRequest
<1>2. claims[g].agent # None
  BY <1>1, SlotsAssumption
<1>3. Cancelled(g) = [claims[g] EXCEPT !.status = "cancelled"]
  BY DEF Cancelled
<1> QED
  BY <1>1, <1>2, <1>3 DEF Fits, DayWrite

(* Alone, a commit writes the offer as the request has it.                 *)
LEMMA OfferFlushedAlone ==
    ASSUME TypeInv, NEW c \in Clients, req[c] # None, CanFlush(req[c]), Fits(req[c])
    PROVE  IF req[c].row = None THEN FlushedOffer(req[c]) = None
           ELSE /\ FlushedOffer(req[c]) # None
                /\ FlushedOffer(req[c]).capacity = req[c].row.capacity
<1> DEFINE q == req[c]
<1>1. /\ q.seen \in Offer \cup {None} /\ q.row \in Offer \cup {None}
      /\ q.seen = offers[q.offer]
      /\ FlushedOffer(q) \in Offer \cup {None}
  BY RequestTypes, FlushedOfferType DEF OfferRequest, DayRequest, Fits
<1> SUFFICES IF q.row = None THEN FlushedOffer(q) = None
             ELSE FlushedOffer(q) # None /\ FlushedOffer(q).capacity = q.row.capacity
  OBVIOUS
<1> HIDE DEF q
<1>2. CASE q.row = q.seen
  BY <1>1, <1>2 DEF FlushedOffer
<1>3. CASE q.row # q.seen /\ q.row = None
  BY <1>1, <1>3 DEF FlushedOffer, SameOffer
<1>4. CASE q.row # q.seen /\ q.row # None /\ q.seen = None
  BY <1>1, <1>4 DEF FlushedOffer
<1>5. CASE q.row # q.seen /\ q.row # None /\ q.seen # None
  <2> DEFINE row == [id |-> q.row.id,
                     capacity |-> Net(q.seen.capacity, q.row.capacity, offers[q.offer].capacity),
                     status   |-> Net(q.seen.status, q.row.status, offers[q.offer].status),
                     eligible |-> Net(q.seen.eligible, q.row.eligible, offers[q.offer].eligible)]
  <2>1. FlushedOffer(q) = row
    BY <1>5 DEF FlushedOffer
  <2>2. q.seen \in Offer /\ q.row \in Offer
    BY <1>1, <1>5
  <2>3. row \in Offer
    BY <1>1, <2>2 DEF Net, Offer
  <2>4. row.capacity = q.row.capacity
    BY <1>1 DEF Net
  <2> QED
    BY <1>5, <2>1, <2>3, <2>4, SlotsAssumption
<1> QED
  BY <1>2, <1>3, <1>4, <1>5

(* Who holds the slots after a commit.                                     *)
LEMMA FilledAfterCommit ==
    ASSUME TypeInv, NEW c \in Clients, Commit(c), Fits(req[c]), NEW o \in Offers
    PROVE  FilledOf(o)' \subseteq
              FilledOf(o) \cup (IF req[c].agent # None /\ req[c].claim.status = "filled"
                                   /\ o = req[c].offer
                                THEN {req[c].seg} ELSE {})
<1> DEFINE q == req[c]
           W == Written(q)
<1>1. q # None /\ claims' = [g \in Segs |->
                     IF FlushedOffer(q) = None /\ W[g] # None /\ W[g].offer = q.offer
                     THEN None ELSE W[g]]
  BY CommitParts
<1>2. /\ q.agent = None => W = claims
      /\ q.agent # None => /\ q.seg \in Segs /\ W[q.seg] = q.claim
                           /\ \A g \in Segs \ {q.seg} : W[g] = claims[g]
      /\ q.agent # None => q.claim.offer = q.offer
  BY <1>1, WrittenClaims, RequestTypes DEF Consistent
<1> SUFFICES ASSUME NEW g \in FilledOf(o)', g \notin FilledOf(o)
             PROVE  q.agent # None /\ q.claim.status = "filled" /\ o = q.offer /\ g = q.seg
  OBVIOUS
<1> HIDE DEF q, W
<1>3. g \in Segs /\ claims'[g] # None /\ claims'[g].offer = o /\ claims'[g].status = "filled"
  BY DEF FilledOf
<1>4. claims'[g] = W[g]
  BY <1>1, <1>3
<1>5. W[g] # claims[g]
  BY <1>3, <1>4 DEF FilledOf
<1>6. q.agent # None /\ g = q.seg /\ W[g] = q.claim
  BY <1>2, <1>3, <1>5
<1> QED
  BY <1>2, <1>3, <1>4, <1>6

LEMMA OneMore ==
    ASSUME NEW S, IsFiniteSet(S), NEW x
    PROVE  IsFiniteSet(S \cup {x}) /\ Cardinality(S \cup {x}) <= Cardinality(S) + 1
<1>1. Cardinality(S) \in Nat
  BY FS_CardinalityType
<1>2. /\ IsFiniteSet(S \cup {x})
      /\ Cardinality(S \cup {x}) = IF x \in S THEN Cardinality(S) ELSE Cardinality(S) + 1
  BY FS_AddElement
<1> QED
  BY <1>1, <1>2

LEMMA SlotsCommit ==
    ASSUME SlotInv, TypeInv', NEW c \in Clients, Commit(c)
    PROVE  SlotInv'
<1> DEFINE q == req[c]
<1>1. /\ q # None /\ CanFlush(q)
      /\ offers' = [offers EXCEPT ![q.offer] = FlushedOffer(q)]
      /\ req' = [req EXCEPT ![c] = None]
  BY CommitParts
<1>2. TypeInv /\ Fits(q) /\ q.offer \in Offers
  BY <1>1, RequestTypes DEF SlotInv
<1>3. \A x \in Clients : req'[x] = None
  BY <1>1 DEF SlotInv, TypeInv, TypeOK, Alone
<1>4. IF q.row = None THEN FlushedOffer(q) = None
      ELSE FlushedOffer(q) # None /\ FlushedOffer(q).capacity = q.row.capacity
  BY <1>1, <1>2, OfferFlushedAlone
<1>5. CapacityRespected'
  <2> SUFFICES ASSUME NEW o \in Offers, offers'[o] # None
               PROVE  Cardinality(FilledOf(o)') <= offers'[o].capacity
    BY DEF CapacityRespected
  <2>1. /\ IsFiniteSet(FilledOf(o)) /\ Cardinality(FilledOf(o)) \in Nat
        /\ offers[o] # None => Cardinality(FilledOf(o)) <= offers[o].capacity
        /\ offers[o] # None => offers[o].capacity \in Nat
    BY <1>2, FilledIsFinite DEF SlotInv, CapacityRespected, TypeInv, TypeOK, Offer
  <2>2. offers'[o] = IF o = q.offer THEN FlushedOffer(q) ELSE offers[o]
    BY <1>1, <1>2 DEF TypeInv, TypeOK
  <2>3. FilledOf(o)' \subseteq
           FilledOf(o) \cup (IF q.agent # None /\ q.claim.status = "filled" /\ o = q.offer
                             THEN {q.seg} ELSE {})
    BY <1>2, FilledAfterCommit
  <2> HIDE DEF q
  <2>4. CASE q.agent # None /\ q.claim.status = "filled" /\ o = q.offer
    <3>1. FilledOf(o)' \subseteq FilledOf(o) \cup {q.seg}
      BY <2>3, <2>4
    <3>2. q.row = offers[o] /\ Cardinality(FilledOf(o)) < offers[o].capacity
      BY <1>2, <2>4 DEF Fits, HasRoom
    <3>3. offers'[o].capacity = offers[o].capacity /\ offers[o] # None
      BY <1>4, <2>2, <2>4, <3>2
    <3>4. /\ IsFiniteSet(FilledOf(o) \cup {q.seg})
          /\ Cardinality(FilledOf(o) \cup {q.seg}) <= Cardinality(FilledOf(o)) + 1
      BY <2>1, OneMore
    <3>5. /\ Cardinality(FilledOf(o)') <= Cardinality(FilledOf(o) \cup {q.seg})
          /\ Cardinality(FilledOf(o)') \in Nat /\ Cardinality(FilledOf(o) \cup {q.seg}) \in Nat
      BY <3>1, <3>4, FS_Subset, FS_CardinalityType
    <3> QED
      BY <2>1, <3>2, <3>3, <3>4, <3>5
  <2>5. CASE ~(q.agent # None /\ q.claim.status = "filled" /\ o = q.offer)
    <3>1. FilledOf(o)' \subseteq FilledOf(o)
      BY <2>3, <2>5
    <3>2. Cardinality(FilledOf(o)') <= Cardinality(FilledOf(o)) /\ Cardinality(FilledOf(o)') \in Nat
      BY <2>1, <3>1, FS_Subset, FS_CardinalityType
    <3>3. CASE o # q.offer
      BY <2>1, <2>2, <3>2, <3>3
    <3>4. CASE o = q.offer /\ q.agent = None
      <4>1. q.row # None /\ Cardinality(FilledOf(o)) <= q.row.capacity
        BY <1>2, <1>4, <2>2, <3>4 DEF Fits
      <4>2. offers'[o].capacity = q.row.capacity
        BY <1>4, <2>2, <3>4, <4>1
      <4>3. q.row.capacity \in Nat
        <5>1. offers'[o] \in Offer
          BY DEF TypeInv, TypeOK
        <5> QED
          BY <4>2, <5>1 DEF Offer
      <4> QED
        BY <2>1, <3>2, <4>1, <4>2, <4>3
    <3>5. CASE o = q.offer /\ q.agent # None
      <4>1. q.row = offers[o]
        BY <1>2, <3>5 DEF Fits
      <4>2. offers[o] # None /\ offers'[o].capacity = offers[o].capacity
        BY <1>4, <2>2, <3>5, <4>1
      <4> QED
        BY <2>1, <3>2, <4>2
    <3> QED
      BY <3>3, <3>4, <3>5
  <2> QED
    BY <2>4, <2>5
<1> QED
  BY <1>3, <1>5 DEF SlotInv, Alone

LEMMA SlotsRest ==
    ASSUME SlotInv, TypeInv',
           \/ \E c \in Clients : RollBack(c)
           \/ \E a \in Agents : ResetDay(a)
           \/ UNCHANGED vars
    PROVE  SlotInv'
<1>1. /\ offers' = offers /\ claims' = claims
      /\ \A x \in Clients : req'[x] # None => req'[x] = req[x]
  BY DEF RollBack, ResetDay, vars, SlotInv, TypeInv, TypeOK
<1>2. Alone'
  BY <1>1 DEF SlotInv, Alone
<1>3. \A o : FilledOf(o)' = FilledOf(o) /\ (HasRoom(o)' <=> HasRoom(o))
  BY <1>1 DEF FilledOf, HasRoom
<1>4. CapacityRespected'
  BY <1>1, <1>3 DEF CapacityRespected, SlotInv
<1>5. \A x \in Clients : req'[x] # None => Fits(req[x])'
  <2> SUFFICES ASSUME NEW x \in Clients, req'[x] # None PROVE Fits(req[x])'
    OBVIOUS
  <2>1. req'[x] = req[x] /\ Fits(req[x])
    BY <1>1 DEF SlotInv
  <2> QED
    BY <1>1, <1>3, <2>1 DEF Fits
<1> QED
  BY <1>2, <1>4, <1>5 DEF SlotInv

LEMMA SlotsStep == Overlap = FALSE /\ SlotInv /\ [Next]_vars => SlotInv'
<1> SUFFICES ASSUME Overlap = FALSE, SlotInv, [Next]_vars PROVE SlotInv'
  OBVIOUS
<1>1. TypeInv /\ TypeInv'
  BY TypeStep DEF SlotInv
<1>2. CASE \E c \in Clients, o \in Offers : UpsertOffer(c, o) \/ PatchOffer(c, o) \/ DeleteOffer(c, o)
  <2>1. \E c \in Clients : \E q : Begin(c, q) /\ Fits(q)
    BY <1>1, <1>2, UpsertFits, PatchFits, DeleteFits
  <2> QED
    BY <1>1, <2>1, SlotsBegin
<1>3. ASSUME NEW c \in Clients, NEW o \in Offers, NEW a \in Agents, ClaimSlot(c, o, a)
      PROVE  SlotInv'
  <2>1. \E q : Begin(c, q) /\ Fits(q)
    BY <1>1, <1>3, ClaimRequest, ClaimFits
  <2> QED
    BY <1>1, <2>1, SlotsBegin
<1>4. ASSUME NEW c \in Clients, NEW g \in Segs, CancelClaim(c, g)
      PROVE  SlotInv'
  <2>1. \E q : Begin(c, q) /\ Fits(q)
    BY <1>1, <1>4, CancelRequest, CancelFits
  <2> QED
    BY <1>1, <2>1, SlotsBegin
<1>5. ASSUME NEW c \in Clients, Commit(c) PROVE SlotInv'
  BY <1>1, <1>5, SlotsCommit
<1>6. CASE \/ \E c \in Clients : RollBack(c)
           \/ \E a \in Agents : ResetDay(a)
           \/ UNCHANGED vars
  BY <1>1, <1>6, SlotsRest
<1> QED
  BY <1>2, <1>3, <1>4, <1>5, <1>6 DEF Next

LEMMA SlotInvariant == ASSUME Overlap = FALSE PROVE Spec => []SlotInv
<1>1. SlotInv /\ [Next]_vars => SlotInv'
  BY SlotsStep
<1> QED
  BY <1>1, SlotsInitially, PTL DEF Spec

(* While requests do not overlap, no slot is held by more agents than it   *)
(* has places, through opening, resizing, closing, deleting, claiming and  *)
(* cancelling (offers.py), for any number of agents, offers and claims.    *)
LEMMA CapacityIsRespected == ASSUME Overlap = FALSE PROVE Spec => []CapacityRespected
<1>1. SlotInv => CapacityRespected
  BY DEF SlotInv
<1> QED
  BY <1>1, SlotInvariant, PTL

-----------------------------------------------------------------------------
(* Days and claims, when requests do not overlap *)

DayIsDue(a) == TimeOffIsClaimed(a) /\ OvertimeIsDue(a) /\ ClaimsApart(a)

LEMMA ClaimedKinds ==
    ASSUME NEW a
    PROVE  /\ ClaimedOf(a, TRUE) = OtClaims(a) /\ ClaimedOf(a, FALSE) = OffClaims(a)
           /\ \A m : ClaimedAt(a, m) <=> Covered(a, m)
<1>1. ClaimedOf(a, TRUE) = OtClaims(a)
  BY DEF ClaimedOf, OtClaims
<1>2. ClaimedOf(a, FALSE) = OffClaims(a)
  BY DEF ClaimedOf, OffClaims
<1> QED
  BY <1>1, <1>2 DEF ClaimedAt, Covered, InBlock

(* A day is left alone when its claims and its blocks are.                 *)
LEMMA DueUnchanged ==
    ASSUME NEW a, DayIsDue(a),
           OtClaims(a)' = OtClaims(a), OffClaims(a)' = OffClaims(a),
           \A g \in OtClaims(a) : claims'[g] = claims[g],
           days'[a].ot = days[a].ot, days'[a].activities = days[a].activities,
           a \in kept => a \in kept'
    PROVE  DayIsDue(a)'
<1>1. \A m : Covered(a, m)' <=> Covered(a, m)
  BY DEF Covered
<1>2. TimeOffIsClaimed(a)'
  BY DEF DayIsDue, TimeOffIsClaimed
<1>3. OvertimeIsDue(a)'
  BY <1>1 DEF DayIsDue, OvertimeIsDue, Due
<1>4. ClaimsApart(a)'
  BY DEF DayIsDue, ClaimsApart
<1> QED
  BY <1>2, <1>3, <1>4 DEF DayIsDue

LEMMA DaysInitially == Init => DayInv
<1> SUFFICES ASSUME Init PROVE DayInv
  OBVIOUS
<1>1. SlotInv /\ \A c \in Clients : req[c] = None
  BY SlotsInitially DEF Init
<1>2. ASSUME NEW a \in Agents
      PROVE  TimeOffIsClaimed(a) /\ OvertimeIsDue(a) /\ ClaimsApart(a)
  <2>1. days[a] = FirstDays[a]
    BY DEF Init
  <2>2. \A g \in Segs : claims[g] = None
    BY DEF Init
  <2>3. OtClaims(a) = {} /\ OffClaims(a) = {}
    BY <2>2 DEF OtClaims, OffClaims
  <2>4. TimeOffIsClaimed(a)
    <3>1. days[a].activities \ FirstDays[a].activities = {}
      BY <2>1
    <3> QED
      BY <2>1, <2>3, <3>1 DEF TimeOffIsClaimed
  <2>5. OvertimeIsDue(a)
    BY <2>1, <2>3 DEF OvertimeIsDue, Due, Covered
  <2>6. ClaimsApart(a)
    BY <2>3 DEF ClaimsApart
  <2> QED
    BY <2>4, <2>5, <2>6
<1> QED
  BY <1>1, <1>2 DEF DayInv

LEMMA DaysBegin ==
    ASSUME Overlap = FALSE, DayInv, SlotInv', NEW c \in Clients, NEW q, Begin(c, q), Writes(q)
    PROVE  DayInv'
<1>1. /\ req' = [req EXCEPT ![c] = q] /\ \A x \in Clients : req[x] = None
      /\ offers' = offers /\ claims' = claims /\ days' = days /\ kept' = kept
  BY DEF Begin
<1>2. \A x \in Clients : req'[x] # None => req'[x] = q
  BY <1>1 DEF DayInv, SlotInv, TypeInv, TypeOK
<1>3. Writes(q)'
  BY <1>1 DEF Writes, Adds, TakesOut
<1>4. \A x \in Clients : req'[x] # None => Writes(req[x])'
  BY <1>2, <1>3
<1>5. ASSUME NEW a \in Agents, days'[a] # None PROVE DayIsDue(a)'
  <2>1. DayIsDue(a)
    BY <1>1, <1>5 DEF DayInv, DayIsDue
  <2>2. OtClaims(a)' = OtClaims(a) /\ OffClaims(a)' = OffClaims(a)
    BY <1>1 DEF OtClaims, OffClaims
  <2> QED
    BY <1>1, <2>1, <2>2, DueUnchanged
<1> QED
  BY <1>4, <1>5 DEF DayInv, DayIsDue

(* A claim is about to add its block to the day it has read,               *)
LEMMA ClaimWrites ==
    ASSUME NEW o \in Offers, NEW a \in Agents, NEW g \in Segs, NEW b \in Placed(Window[o], days[a]),
           days[a] # None, DayOf(a, days[a]), ValidDay(WithBlock(Window[o], days[a], b, g))
    PROVE  Writes(DayWrite(o, a, WithBlock(Window[o], days[a], b, g), g, FilledClaim(o, a, b)))
<1> DEFINE d == WithBlock(Window[o], days[a], b, g)
           q == DayWrite(o, a, d, g, FilledClaim(o, a, b))
<1>1. /\ q.offer = o /\ q.agent = a /\ q.before = days[a] /\ q.after = d /\ q.refused = FALSE
      /\ q.seg = g /\ q.claim = FilledClaim(o, a, b)
  BY DEF DayWrite
<1>2. days[a] \in Day /\ Starts(days[a].ot) /\ Apart(days[a].ot)
  BY OvertimeStarts
<1>3. IF Window[o].kind = "ot"
      THEN /\ d.activities = days[a].activities
           /\ \A m \in Int :
                 /\ Worked(d.ot, m) <=> Worked(days[a].ot, m) \/ InBlock(b, m)
                 /\ ~(Worked(days[a].ot, m) /\ InBlock(b, m))
      ELSE /\ d.ot = days[a].ot
           /\ \E x \in d.activities :
                 x.id = <<g, 0>> /\ d.activities = days[a].activities \cup {x}
  BY <1>2, SlotWindows, DayWithBlock
<1>4. q.claim.status = "filled" /\ \A m : InBlock(q.claim, m) <=> InBlock(b, m)
  BY <1>1 DEF FilledClaim, InBlock
<1> SUFFICES Writes(q)
  OBVIOUS
<1> HIDE DEF d, q
<1>5. Adds(q)
  BY <1>1, <1>3, <1>4 DEF Adds
<1> QED
  BY <1>1, <1>4, <1>5 DEF Writes

(* and a cancellation to take it out.                                      *)
LEMMA CancelWrites ==
    ASSUME TypeInv, NEW c \in Clients, NEW g \in Segs, CancelClaim(c, g),
           NEW a, a = claims[g].agent
    PROVE  Writes(DayWrite(claims[g].offer, a,
                           IF days[a] = None THEN None ELSE WithoutClaim(days[a], g),
                           g, Cancelled(g)))
<1> DEFINE o == claims[g].offer
           d == IF days[a] = None THEN None ELSE WithoutClaim(days[a], g)
           q == DayWrite(o, a, d, g, Cancelled(g))
<1>1. /\ q.offer = o /\ q.agent = a /\ q.before = days[a]
      /\ q.refused = (days[a] # None /\ ~ValidDay(d))
      /\ q.after = IF days[a] = None \/ q.refused THEN days[a] ELSE d
      /\ q.seg = g /\ q.claim = Cancelled(g)
  BY DEF DayWrite
<1>2. /\ claims[g] \in Claim /\ a \in Agents /\ q.claim.status = "cancelled"
      /\ \A m : InBlock(q.claim, m) <=> InBlock(claims[g], m)
  <2>1. /\ claims[g] \in Claim /\ claims[g].agent \in Agents
        /\ Cancelled(g).start = claims[g].start /\ Cancelled(g).end = claims[g].end
        /\ Cancelled(g).status = "cancelled"
    BY CancelRequest
  <2> HIDE DEF q
  <2> QED
    BY <1>1, <2>1 DEF InBlock
<1> SUFFICES Writes(q)
  OBVIOUS
<1> HIDE DEF q
<1>3. CASE days[a] = None
  BY <1>1, <1>3 DEF Writes
<1>4. CASE days[a] # None
  <2>1. DayOf(a, days[a]) /\ days[a] \in Day
    BY <1>2, <1>4 DEF TypeInv, DayOf
  <2>2. d = WithoutClaim(days[a], g)
    BY <1>4
  <2>3. IF Window[o].kind = "ot"
        THEN /\ d.activities = days[a].activities
             /\ \A m \in Int : Worked(d.ot, m) <=> Worked(days[a].ot, m) /\ ~InBlock(claims[g], m)
        ELSE /\ d.ot = days[a].ot
             /\ d.activities = {x \in days[a].activities : x.id # <<g, 0>>}
    BY <1>2, <2>1, <2>2, DayWithoutClaim
  <2>4. Window[o].kind # "ot" => ValidDay(d)
    BY <1>2, <2>1, <2>2, ActivityTakenOut
  <2> HIDE DEF d, o
  <2>5. CASE q.refused
    <3>1. q.after = q.before /\ Window[q.offer].kind = "ot"
      BY <1>1, <2>4, <2>5
    <3>2. TakesOut(q)
      BY <2>5, <3>1 DEF TakesOut
    <3> QED
      BY <1>1, <1>2, <3>2 DEF Writes
  <2>6. CASE ~q.refused
    <3>1. q.after = d
      BY <1>1, <1>4, <2>6
    <3>2. TakesOut(q)
      BY <1>1, <1>2, <2>3, <2>6, <3>1 DEF TakesOut
    <3> QED
      BY <1>1, <1>2, <3>2 DEF Writes
  <2> QED
    BY <2>5, <2>6
<1> QED
  BY <1>3, <1>4

(* The claims after a commit, when it is alone: none is lost, and the one  *)
(* of the request is added, or no longer held.                             *)
LEMMA ClaimsAfterCommit ==
    ASSUME SlotInv, NEW c \in Clients, Commit(c), req[c].agent # None
    PROVE  LET q == req[c]
           IN  /\ q.seg \in Segs /\ claims'[q.seg] = q.claim
               /\ \A g \in Segs \ {q.seg} : claims'[g] = claims[g]
<1> DEFINE q == req[c]
           W == Written(q)
<1>1. /\ q # None /\ CanFlush(q)
      /\ claims' = [g \in Segs |->
                     IF FlushedOffer(q) = None /\ W[g] # None /\ W[g].offer = q.offer
                     THEN None ELSE W[g]]
  BY CommitParts
<1>2. TypeInv /\ Fits(q) /\ Consistent(q) /\ q.agent # None
  BY <1>1 DEF SlotInv, TypeInv
<1>3. /\ q.seg \in Segs /\ W[q.seg] = q.claim
      /\ \A g \in Segs \ {q.seg} : W[g] = claims[g]
  BY <1>1, <1>2, WrittenClaims
<1>4. IF q.row = None THEN FlushedOffer(q) = None ELSE FlushedOffer(q) # None
  BY <1>1, <1>2, OfferFlushedAlone
<1> HIDE DEF q, W
<1>5. offers[q.offer] # None
  <2>1. CASE q.claim.status = "filled"
    BY <1>1, <1>2, <2>1 DEF CanFlush, SameOffer
  <2>2. CASE q.claim.status # "filled"
    <3>1. claims[q.seg] # None /\ claims[q.seg] \in Claim
      BY <1>2, <1>3, <2>2 DEF Fits, TypeInv, TypeOK
    <3>2. q.claim.offer = claims[q.seg].offer
      BY <1>2, <2>2, <3>1 DEF Fits, Claim
    <3> QED
      BY <1>2, <1>3, <3>1, <3>2 DEF TypeInv, ClaimsHaveOffers, Made, Consistent
  <2> QED
    BY <2>1, <2>2
<1>6. FlushedOffer(q) # None
  BY <1>2, <1>4, <1>5 DEF Fits
<1>7. \A g \in Segs : claims'[g] = W[g]
  BY <1>1, <1>6
<1> QED
  BY <1>3, <1>7 DEF q

(* The day after a commit, when it is alone.                               *)
LEMMA DayAfterCommit ==
    ASSUME DayInv, NEW c \in Clients, Commit(c), req[c].agent # None, days'[req[c].agent] # None
    PROVE  LET q == req[c]
           IN  /\ days[q.agent] # None /\ days[q.agent] = q.before
               /\ days'[q.agent].ot = q.after.ot
               /\ days'[q.agent].activities = q.after.activities
<1> DEFINE q == req[c]
           a == q.agent
<1>1. /\ q # None /\ CanFlush(q) /\ q.agent # None
      /\ days' = [days EXCEPT ![a] = FlushedDay(q)]
  BY CommitParts
<1>2. TypeInv /\ a \in Agents /\ Consistent(q) /\ Writes(q)
  BY <1>1, RequestTypes DEF DayRequest, DayInv, SlotInv
<1>3. days'[a] = FlushedDay(q)
  BY <1>1, <1>2 DEF TypeInv, TypeOK
<1>4. days[a] # None
  <2> HIDE DEF q
  <2>1. CASE q.after = q.before
    BY <1>3, <2>1 DEF FlushedDay, q
  <2>2. CASE q.after # q.before
    BY <1>1, <2>2 DEF CanFlush
  <2> QED
    BY <2>1, <2>2
<1>5. days[a] = q.before
  BY <1>2, <1>4 DEF Writes
<1>6. FlushedDay(q).ot = q.after.ot /\ FlushedDay(q).activities = q.after.activities
  BY <1>1, <1>2, <1>4, <1>5, FlushedDayType
<1> QED
  BY <1>3, <1>4, <1>5, <1>6

(* Time off that is added or taken out.                                    *)
LEMMA TimeOffAdded ==
    ASSUME NEW a \in Agents, TimeOffIsClaimed(a), NEW g \in Segs, NEW x, x.id = <<g, 0>>,
           days'[a].activities = days[a].activities \cup {x},
           OffClaims(a)' = OffClaims(a) \cup {g}
    PROVE  TimeOffIsClaimed(a)'
<1> DEFINE first == FirstDays[a].activities
           old == days[a].activities
<1>1. x \notin first
  <2>1. \A y \in first : y.id[1] \notin Segs
    BY SlotsAssumption
  <2> QED
    BY <2>1
<1>2. first \subseteq old /\ {y.id : y \in old \ first} = {<<h, 0>> : h \in OffClaims(a)}
  BY DEF TimeOffIsClaimed
<1>3. days'[a].activities \ first = (old \ first) \cup {x}
  BY <1>1
<1> HIDE DEF first, old
<1>4. {y.id : y \in days'[a].activities \ first} = {y.id : y \in old \ first} \cup {<<g, 0>>}
  BY <1>3
<1>5. {<<h, 0>> : h \in OffClaims(a)'} = {<<h, 0>> : h \in OffClaims(a)} \cup {<<g, 0>>}
  OBVIOUS
<1>6. first \subseteq days'[a].activities
  BY <1>2 DEF old
<1> QED
  BY <1>2, <1>4, <1>5, <1>6 DEF TimeOffIsClaimed, first

LEMMA IdsWithout ==
    ASSUME NEW K, NEW g
    PROVE  {<<h, 0>> : h \in K \ {g}} = {<<h, 0>> : h \in K} \ {<<g, 0>>}
<1>1. \A h : <<h, 0>> = <<g, 0>> => h = g
  OBVIOUS
<1>2. \A x : x \in {<<h, 0>> : h \in K \ {g}} <=> \E h \in K : h # g /\ x = <<h, 0>>
  OBVIOUS
<1>3. \A x : x \in {<<h, 0>> : h \in K} \ {<<g, 0>>} <=> \E h \in K : h # g /\ x = <<h, 0>>
  BY <1>1
<1> QED
  BY <1>2, <1>3

LEMMA TimeOffTaken ==
    ASSUME NEW a \in Agents, TimeOffIsClaimed(a), NEW g \in Segs,
           days'[a].activities = {x \in days[a].activities : x.id # <<g, 0>>},
           OffClaims(a)' = OffClaims(a) \ {g}
    PROVE  TimeOffIsClaimed(a)'
<1> DEFINE first == FirstDays[a].activities
           old == days[a].activities
           new == days'[a].activities
<1>1. \A y \in first : y.id # <<g, 0>>
  <2>1. \A y \in first : y.id[1] \notin Segs
    BY SlotsAssumption
  <2> QED
    BY <2>1
<1>2. first \subseteq old /\ {y.id : y \in old \ first} = {<<h, 0>> : h \in OffClaims(a)}
  BY DEF TimeOffIsClaimed
<1>3. new \ first = {y \in old \ first : y.id # <<g, 0>>} /\ first \subseteq new
  BY <1>1, <1>2
<1> HIDE DEF first, old, new
<1>4. {y.id : y \in new \ first} = {y.id : y \in old \ first} \ {<<g, 0>>}
  BY <1>3
<1>5. {<<h, 0>> : h \in OffClaims(a)'} = {<<h, 0>> : h \in OffClaims(a)} \ {<<g, 0>>}
  BY IdsWithout
<1> QED
  BY <1>2, <1>3, <1>4, <1>5 DEF TimeOffIsClaimed, first, new

(* Overtime that is added or taken out.                                    *)
LEMMA OvertimeAdded ==
    ASSUME NEW a, OvertimeIsDue(a), ClaimsApart(a), NEW g, g \notin OtClaims(a),
           OtClaims(a)' = OtClaims(a) \cup {g},
           \A h \in OtClaims(a) : claims'[h] = claims[h],
           \A m \in Int : /\ Worked(days'[a].ot, m) <=> Worked(days[a].ot, m) \/ InBlock(claims'[g], m)
                          /\ ~(Worked(days[a].ot, m) /\ InBlock(claims'[g], m)),
           kept' = kept
    PROVE  OvertimeIsDue(a)' /\ ClaimsApart(a)'
<1>1. \A m \in Int : Covered(a, m)' <=> Covered(a, m) \/ InBlock(claims'[g], m)
  BY DEF Covered, InBlock
<1>2. OvertimeIsDue(a)'
  BY <1>1 DEF OvertimeIsDue, Due
<1>3. ClaimsApart(a)'
  <2> SUFFICES ASSUME NEW f \in OtClaims(a)', NEW m \in Int, InBlock(claims'[f], m)
               PROVE  /\ ~Worked(FirstDays[a].ot, m)
                      /\ \A h \in OtClaims(a)' \ {f} : ~InBlock(claims'[h], m)
    BY DEF ClaimsApart
  <2>1. CASE f = g
    <3>1. ~Due(a, m)
      BY <2>1 DEF OvertimeIsDue
    <3> QED
      BY <2>1, <3>1 DEF Due, Covered
  <2>2. CASE f # g
    <3>1. f \in OtClaims(a) /\ InBlock(claims[f], m)
      BY <2>2
    <3>2. /\ ~Worked(FirstDays[a].ot, m)
          /\ \A h \in OtClaims(a) \ {f} : ~InBlock(claims[h], m)
      BY <3>1 DEF ClaimsApart
    <3>3. Due(a, m)
      BY <3>1 DEF Due, Covered
    <3>4. ~InBlock(claims'[g], m)
      BY <3>3 DEF OvertimeIsDue
    <3> QED
      BY <3>2, <3>4
  <2> QED
    BY <2>1, <2>2
<1> QED
  BY <1>2, <1>3

LEMMA OvertimeTaken ==
    ASSUME NEW a, OvertimeIsDue(a), ClaimsApart(a), NEW g \in OtClaims(a),
           OtClaims(a)' = OtClaims(a) \ {g},
           \A h \in OtClaims(a) \ {g} : claims'[h] = claims[h],
           \/ /\ \A m \in Int : Worked(days'[a].ot, m)
                                   <=> Worked(days[a].ot, m) /\ ~InBlock(claims[g], m)
              /\ kept' = kept
           \/ days'[a].ot = days[a].ot /\ a \in kept'
    PROVE  OvertimeIsDue(a)' /\ ClaimsApart(a)'
<1>1. \A m : Covered(a, m)' <=> \E h \in OtClaims(a) \ {g} : InBlock(claims[h], m)
  BY DEF Covered
<1>2. \A m \in Int : InBlock(claims[g], m) =>
         ~Worked(FirstDays[a].ot, m) /\ ~(\E h \in OtClaims(a) \ {g} : InBlock(claims[h], m))
  BY DEF ClaimsApart
<1>3. \A m \in Int : Due(a, m)' <=> Due(a, m) /\ ~InBlock(claims[g], m)
  BY <1>1, <1>2 DEF Due, Covered
<1>4. OvertimeIsDue(a)'
  BY <1>3 DEF OvertimeIsDue
<1>5. ClaimsApart(a)'
  BY DEF ClaimsApart
<1> QED
  BY <1>4, <1>5

(* A commit of an offer leaves the claims that are held.                   *)
LEMMA OfferCommitDays ==
    ASSUME DayInv, NEW c \in Clients, Commit(c), req[c].agent = None,
           NEW a \in Agents, days'[a] # None
    PROVE  DayIsDue(a)'
<1> DEFINE q == req[c]
<1>1. /\ q # None /\ CanFlush(q)
      /\ claims' = [g \in Segs |->
                     IF FlushedOffer(q) = None /\ Written(q)[g] # None /\ Written(q)[g].offer = q.offer
                     THEN None ELSE Written(q)[g]]
      /\ days' = days /\ kept' = kept
  BY CommitParts
<1>2. TypeInv /\ Fits(q)
  BY <1>1 DEF DayInv, SlotInv
<1>3. Written(q) = claims
  BY DEF Written
<1>4. FlushedOffer(q) = None => FilledOf(q.offer) = {}
  BY <1>1, <1>2, OfferFlushedAlone DEF Fits
<1>5. DayIsDue(a)
  BY <1>1 DEF DayInv, DayIsDue
<1> HIDE DEF q
<1>6. \A g \in Segs : /\ claims'[g] # None => claims'[g] = claims[g]
                      /\ claims[g] # None /\ claims[g].status = "filled" => claims'[g] = claims[g]
  <2> TAKE g \in Segs
  <2>1. claims'[g] = IF FlushedOffer(q) = None /\ claims[g] # None /\ claims[g].offer = q.offer
                     THEN None ELSE claims[g]
    BY <1>1, <1>3
  <2> QED
    BY <1>4, <2>1 DEF FilledOf
<1>7. OtClaims(a)' = OtClaims(a) /\ OffClaims(a)' = OffClaims(a)
  BY <1>6 DEF OtClaims, OffClaims
<1>8. \A g \in OtClaims(a) : claims'[g] = claims[g]
  BY <1>6 DEF OtClaims
<1> QED
  BY <1>1, <1>5, <1>7, <1>8, DueUnchanged

(* What the request says of the claim it adds or cancels.                  *)
LEMMA RequestClaim ==
    ASSUME SlotInv, NEW c \in Clients, req[c] # None, req[c].agent # None
    PROVE  LET q == req[c]
           IN  /\ q.claim # None /\ q.claim.agent = q.agent /\ q.claim.offer = q.offer
               /\ q.claim.status = "filled" => claims[q.seg] = None
               /\ q.claim.status # "filled" =>
                     /\ claims[q.seg] # None /\ claims[q.seg].status = "filled"
                     /\ claims[q.seg].agent = q.agent /\ claims[q.seg].offer = q.offer
                     /\ \A m : InBlock(q.claim, m) <=> InBlock(claims[q.seg], m)
<1> DEFINE q == req[c]
           old == claims[q.seg]
<1>1. TypeInv /\ Fits(q) /\ Consistent(q) /\ q \in DayRequest
  BY RequestTypes DEF SlotInv
<1>2. q.claim # None /\ q.claim.agent = q.agent /\ q.claim.offer = q.offer /\ q.seg \in Segs
  BY <1>1, SlotsAssumption DEF DayRequest, Consistent
<1>3. old \in Claim \cup {None}
  BY <1>1, <1>2 DEF TypeInv, TypeOK
<1> HIDE DEF q
<1>4. CASE q.claim.status = "filled"
  BY <1>1, <1>2, <1>4 DEF Fits, q
<1>5. CASE q.claim.status # "filled"
  <2>1. /\ old # None /\ old.status = "filled"
        /\ q.claim = [old EXCEPT !.status = "cancelled"]
    BY <1>1, <1>2, <1>5 DEF Fits, q
  <2> HIDE DEF old
  <2>2. /\ q.claim.agent = old.agent /\ q.claim.offer = old.offer
        /\ q.claim.start = old.start /\ q.claim.end = old.end
    BY <1>3, <2>1 DEF Claim
  <2>3. \A m : InBlock(q.claim, m) <=> InBlock(old, m)
    BY <2>2 DEF InBlock
  <2> QED
    BY <1>2, <1>5, <2>1, <2>2, <2>3 DEF q, old
<1> QED
  BY <1>4, <1>5

(* Nor does a commit of another agent's claim change what an agent holds.  *)
LEMMA OtherAgentsDays ==
    ASSUME DayInv, NEW c \in Clients, Commit(c), req[c].agent # None,
           NEW a \in Agents, a # req[c].agent, days'[a] # None
    PROVE  DayIsDue(a)'
<1> DEFINE q == req[c]
<1>1. /\ q # None /\ days' = [days EXCEPT ![q.agent] = FlushedDay(q)]
      /\ a \in kept => a \in kept'
  BY CommitParts
<1>2. SlotInv /\ TypeInv
  BY DEF DayInv, SlotInv
<1>3. /\ q.seg \in Segs /\ claims'[q.seg] = q.claim
      /\ \A g \in Segs \ {q.seg} : claims'[g] = claims[g]
  BY <1>2, ClaimsAfterCommit
<1>4. /\ q.claim.agent = q.agent
      /\ claims[q.seg] = None \/ claims[q.seg].agent = q.agent
  BY <1>1, <1>2, RequestClaim
<1>5. days'[a] = days[a]
  BY <1>1, <1>2 DEF TypeInv, TypeOK
<1>6. DayIsDue(a)
  BY <1>5 DEF DayInv, DayIsDue
<1>7. ASSUME NEW g \in Segs, NEW k
      PROVE  /\ g \in OtClaims(a) \cup OffClaims(a) => claims'[g] = claims[g]
             /\ g \in OtClaims(a)' \cup OffClaims(a)' => claims'[g] = claims[g]
  BY <1>3, <1>4 DEF OtClaims, OffClaims
<1> HIDE DEF q
<1>8. OtClaims(a)' = OtClaims(a) /\ OffClaims(a)' = OffClaims(a)
  BY <1>7 DEF OtClaims, OffClaims
<1>9. \A g \in OtClaims(a) : claims'[g] = claims[g]
  BY <1>7 DEF OtClaims
<1> QED
  BY <1>1, <1>5, <1>6, <1>8, <1>9, DueUnchanged

LEMMA OneElement ==
    ASSUME NEW S, NEW T, NEW g, \A h : h # g => (h \in T <=> h \in S)
    PROVE  /\ (g \in S <=> g \in T) => T = S
           /\ g \in T => T = S \cup {g}
           /\ g \notin T => T = S \ {g}
OBVIOUS

LEMMA OneClaim ==
    ASSUME NEW a, NEW g,
           \A h : h # g => (h \in OtClaims(a)' <=> h \in OtClaims(a)),
           \A h : h # g => (h \in OffClaims(a)' <=> h \in OffClaims(a))
    PROVE  /\ (g \in OtClaims(a)' <=> g \in OtClaims(a)) => OtClaims(a)' = OtClaims(a)
           /\ (g \in OffClaims(a)' <=> g \in OffClaims(a)) => OffClaims(a)' = OffClaims(a)
           /\ g \in OtClaims(a)' => OtClaims(a)' = OtClaims(a) \cup {g}
           /\ g \notin OtClaims(a)' => OtClaims(a)' = OtClaims(a) \ {g}
           /\ g \in OffClaims(a)' => OffClaims(a)' = OffClaims(a) \cup {g}
           /\ g \notin OffClaims(a)' => OffClaims(a)' = OffClaims(a) \ {g}
<1>1. /\ (g \in OtClaims(a)' <=> g \in OtClaims(a)) => OtClaims(a)' = OtClaims(a)
      /\ g \in OtClaims(a)' => OtClaims(a)' = OtClaims(a) \cup {g}
      /\ g \notin OtClaims(a)' => OtClaims(a)' = OtClaims(a) \ {g}
  BY OneElement
<1>2. /\ (g \in OffClaims(a)' <=> g \in OffClaims(a)) => OffClaims(a)' = OffClaims(a)
      /\ g \in OffClaims(a)' => OffClaims(a)' = OffClaims(a) \cup {g}
      /\ g \notin OffClaims(a)' => OffClaims(a)' = OffClaims(a) \ {g}
  BY OneElement
<1> QED
  BY <1>1, <1>2

(* A claim that is added,                                                  *)
LEMMA ClaimCommitDays ==
    ASSUME DayInv, NEW c \in Clients, Commit(c), req[c].agent # None,
           req[c].claim.status = "filled", NEW a \in Agents, a = req[c].agent, days'[a] # None
    PROVE  DayIsDue(a)'
<1> DEFINE q == req[c]
           g == q.seg
<1>1. /\ q # None
      /\ kept' = IF q.agent # None /\ q.refused THEN kept \cup {q.agent} ELSE kept
  BY CommitParts
<1>2. SlotInv /\ TypeInv /\ Writes(q)
  BY <1>1 DEF DayInv, SlotInv
<1>3. /\ g \in Segs /\ claims'[g] = q.claim
      /\ \A h \in Segs \ {g} : claims'[h] = claims[h]
  BY <1>2, ClaimsAfterCommit
<1>4. /\ q.claim # None /\ q.claim.agent = a /\ q.claim.offer = q.offer
      /\ claims[g] = None
  BY <1>1, <1>2, RequestClaim
<1>5. /\ days[a] # None /\ days[a] = q.before
      /\ days'[a].ot = q.after.ot /\ days'[a].activities = q.after.activities
  BY DayAfterCommit
<1>6. TimeOffIsClaimed(a) /\ OvertimeIsDue(a) /\ ClaimsApart(a)
  BY <1>5 DEF DayInv
<1>7. Adds(q)
  BY <1>2, <1>5 DEF Writes
<1> HIDE DEF q, g
<1>8. kept' = kept
  BY <1>1, <1>7 DEF Adds
<1>9. g \notin OtClaims(a) \cup OffClaims(a) /\ \A h \in OtClaims(a) : claims'[h] = claims[h]
  BY <1>3, <1>4 DEF OtClaims, OffClaims
<1>10. /\ \A h : h # g => (h \in OtClaims(a)' <=> h \in OtClaims(a))
       /\ \A h : h # g => (h \in OffClaims(a)' <=> h \in OffClaims(a))
  BY <1>3 DEF OtClaims, OffClaims
<1>11. /\ g \in OtClaims(a)' <=> Window[q.offer].kind = "ot"
       /\ g \in OffClaims(a)' <=> Window[q.offer].kind # "ot"
  BY <1>3, <1>4 DEF OtClaims, OffClaims, q
<1>12. CASE Window[q.offer].kind = "ot"
  <2>1. /\ OtClaims(a)' = OtClaims(a) \cup {g}
        /\ OffClaims(a)' = OffClaims(a)
    <3>1. OtClaims(a)' = OtClaims(a) \cup {g}
      BY <1>9, <1>10, <1>11, <1>12, OneClaim
    <3>2. OffClaims(a)' = OffClaims(a)
      BY <1>9, <1>10, <1>11, <1>12, OneClaim
    <3> QED
      BY <3>1, <3>2
  <2>2. /\ days'[a].activities = days[a].activities
        /\ \A m \in Int :
              /\ Worked(days'[a].ot, m) <=> Worked(days[a].ot, m) \/ InBlock(claims'[g], m)
              /\ ~(Worked(days[a].ot, m) /\ InBlock(claims'[g], m))
    BY <1>3, <1>5, <1>7, <1>12 DEF Adds
  <2>3. OvertimeIsDue(a)' /\ ClaimsApart(a)'
    BY <1>6, <1>8, <1>9, <2>1, <2>2, OvertimeAdded
  <2>4. TimeOffIsClaimed(a)'
    BY <1>6, <2>1, <2>2 DEF TimeOffIsClaimed
  <2> QED
    BY <2>3, <2>4 DEF DayIsDue
<1>13. CASE Window[q.offer].kind # "ot"
  <2>1. /\ OffClaims(a)' = OffClaims(a) \cup {g}
        /\ OtClaims(a)' = OtClaims(a)
    <3>1. OffClaims(a)' = OffClaims(a) \cup {g}
      BY <1>9, <1>10, <1>11, <1>13, OneClaim
    <3>2. OtClaims(a)' = OtClaims(a)
      BY <1>9, <1>10, <1>11, <1>13, OneClaim
    <3> QED
      BY <3>1, <3>2
  <2>2. PICK x \in q.after.activities :
           /\ x.id = <<g, 0>> /\ q.after.activities = q.before.activities \cup {x}
           /\ q.after.ot = q.before.ot
    BY <1>7, <1>13 DEF Adds, g
  <2>3. TimeOffIsClaimed(a)'
    BY <1>3, <1>5, <1>6, <2>1, <2>2, TimeOffAdded
  <2>4. days'[a].ot = days[a].ot
    BY <1>5, <2>2
  <2>5. \A m : Covered(a, m)' <=> Covered(a, m)
    BY <1>9, <2>1 DEF Covered
  <2>6. OvertimeIsDue(a)'
    BY <1>6, <1>8, <2>4, <2>5 DEF OvertimeIsDue, Due
  <2>7. ClaimsApart(a)'
    BY <1>6, <1>9, <2>1 DEF ClaimsApart
  <2> QED
    BY <2>3, <2>6, <2>7 DEF DayIsDue
<1> QED
  BY <1>12, <1>13

(* and one that is taken out, or kept with the agent on record.            *)
LEMMA CancelCommitDays ==
    ASSUME DayInv, NEW c \in Clients, Commit(c), req[c].agent # None,
           req[c].claim.status # "filled", NEW a \in Agents, a = req[c].agent, days'[a] # None
    PROVE  DayIsDue(a)'
<1> DEFINE q == req[c]
           g == q.seg
<1>1. /\ q # None
      /\ kept' = IF q.agent # None /\ q.refused THEN kept \cup {q.agent} ELSE kept
  BY CommitParts
<1>2. SlotInv /\ TypeInv /\ Writes(q)
  BY <1>1 DEF DayInv, SlotInv
<1>3. /\ g \in Segs /\ claims'[g] = q.claim
      /\ \A h \in Segs \ {g} : claims'[h] = claims[h]
  BY <1>2, ClaimsAfterCommit
<1>4. /\ claims[g] # None /\ claims[g].status = "filled"
      /\ claims[g].agent = a /\ claims[g].offer = q.offer
      /\ \A m : InBlock(q.claim, m) <=> InBlock(claims[g], m)
  BY <1>1, <1>2, RequestClaim
<1>5. /\ days[a] # None /\ days[a] = q.before
      /\ days'[a].ot = q.after.ot /\ days'[a].activities = q.after.activities
  BY DayAfterCommit
<1>6. TimeOffIsClaimed(a) /\ OvertimeIsDue(a) /\ ClaimsApart(a)
  BY <1>5 DEF DayInv
<1>7. TakesOut(q)
  BY <1>2, <1>5 DEF Writes
<1> HIDE DEF q, g
<1>8. /\ g \notin OtClaims(a)' \cup OffClaims(a)'
      /\ \A h \in OtClaims(a) \ {g} : claims'[h] = claims[h]
  BY <1>3 DEF OtClaims, OffClaims, q
<1>9. /\ \A h : h # g => (h \in OtClaims(a)' <=> h \in OtClaims(a))
      /\ \A h : h # g => (h \in OffClaims(a)' <=> h \in OffClaims(a))
  BY <1>3 DEF OtClaims, OffClaims
<1>10. /\ g \in OtClaims(a) <=> Window[q.offer].kind = "ot"
       /\ g \in OffClaims(a) <=> Window[q.offer].kind # "ot"
  BY <1>3, <1>4 DEF OtClaims, OffClaims
<1>11. CASE Window[q.offer].kind = "ot"
  <2>1. /\ OtClaims(a)' = OtClaims(a) \ {g}
        /\ OffClaims(a)' = OffClaims(a) /\ g \in OtClaims(a)
    <3>1. OtClaims(a)' = OtClaims(a) \ {g}
      BY <1>8, <1>9, <1>10, <1>11, OneClaim
    <3>2. OffClaims(a)' = OffClaims(a)
      BY <1>8, <1>9, <1>10, <1>11, OneClaim
    <3> QED
      BY <3>1, <3>2, <1>8, <1>9, <1>10, <1>11
  <2>2. /\ days'[a].activities = days[a].activities
        /\ q.refused => days'[a].ot = days[a].ot /\ a \in kept'
        /\ ~q.refused => /\ kept' = kept
                         /\ \A m \in Int : Worked(days'[a].ot, m)
                                      <=> Worked(days[a].ot, m) /\ ~InBlock(claims[g], m)
    BY <1>1, <1>4, <1>5, <1>7, <1>11 DEF TakesOut, q
  <2>3. OvertimeIsDue(a)' /\ ClaimsApart(a)'
    BY <1>6, <1>8, <2>1, <2>2, OvertimeTaken
  <2>4. TimeOffIsClaimed(a)'
    BY <1>6, <2>1, <2>2 DEF TimeOffIsClaimed
  <2> QED
    BY <2>3, <2>4 DEF DayIsDue
<1>12. CASE Window[q.offer].kind # "ot"
  <2>1. /\ OffClaims(a)' = OffClaims(a) \ {g}
        /\ OtClaims(a)' = OtClaims(a)
    <3>1. OffClaims(a)' = OffClaims(a) \ {g}
      BY <1>8, <1>9, <1>10, <1>12, OneClaim
    <3>2. OtClaims(a)' = OtClaims(a)
      BY <1>8, <1>9, <1>10, <1>12, OneClaim
    <3> QED
      BY <3>1, <3>2
  <2>2. /\ ~q.refused /\ q.after.ot = q.before.ot
        /\ q.after.activities = {x \in q.before.activities : x.id # <<g, 0>>}
    BY <1>7, <1>12 DEF TakesOut, g
  <2>3. TimeOffIsClaimed(a)'
    BY <1>3, <1>5, <1>6, <2>1, <2>2, TimeOffTaken
  <2>4. days'[a].ot = days[a].ot /\ kept' = kept
    BY <1>1, <1>5, <2>2
  <2>5. \A h \in OtClaims(a) : claims'[h] = claims[h]
    BY <1>8, <2>1
  <2>6. \A m : Covered(a, m)' <=> Covered(a, m)
    BY <2>1, <2>5 DEF Covered
  <2>7. OvertimeIsDue(a)'
    BY <1>6, <2>4, <2>6 DEF OvertimeIsDue, Due
  <2>8. ClaimsApart(a)'
    BY <1>6, <2>1, <2>5 DEF ClaimsApart
  <2> QED
    BY <2>3, <2>7, <2>8 DEF DayIsDue
<1> QED
  BY <1>11, <1>12

LEMMA DaysCommit ==
    ASSUME DayInv, SlotInv', NEW c \in Clients, Commit(c)
    PROVE  DayInv'
<1>1. req' = [req EXCEPT ![c] = None] /\ req[c] # None
  BY CommitParts
<1>2. \A x \in Clients : req'[x] = None
  BY <1>1 DEF DayInv, SlotInv, TypeInv, TypeOK, Alone
<1>3. ASSUME NEW a \in Agents, days'[a] # None PROVE DayIsDue(a)'
  <2>1. CASE req[c].agent = None
    BY <1>3, <2>1, OfferCommitDays
  <2>2. CASE req[c].agent # None /\ a # req[c].agent
    BY <1>3, <2>2, OtherAgentsDays
  <2>3. CASE req[c].agent # None /\ a = req[c].agent /\ req[c].claim.status = "filled"
    BY <1>3, <2>3, ClaimCommitDays
  <2>4. CASE req[c].agent # None /\ a = req[c].agent /\ req[c].claim.status # "filled"
    BY <1>3, <2>4, CancelCommitDays
  <2> QED
    BY <2>1, <2>2, <2>3, <2>4
<1> QED
  BY <1>2, <1>3 DEF DayInv, DayIsDue

LEMMA DaysRest ==
    ASSUME DayInv, SlotInv',
           \/ \E c \in Clients : RollBack(c)
           \/ \E a \in Agents : ResetDay(a)
           \/ UNCHANGED vars
    PROVE  DayInv'
<1>1. /\ claims' = claims /\ kept' = kept
      /\ \A x \in Clients : req'[x] # None => req'[x] = req[x]
      /\ \A a \in Agents : days'[a] # None => days'[a] = days[a]
      /\ \A a \in Agents : days'[a] \in {None, days[a]}
  BY DEF RollBack, ResetDay, vars, DayInv, SlotInv, TypeInv, TypeOK
<1>2. ASSUME NEW x \in Clients, req'[x] # None PROVE Writes(req[x])'
  <2>1. req'[x] = req[x] /\ Writes(req[x]) /\ TypeInv /\ req[x] # None
    BY <1>1, <1>2 DEF DayInv, SlotInv
  <2> DEFINE q == req[x]
  <2>2. q.agent # None => q.agent \in Agents
    BY <2>1, RequestTypes DEF DayRequest
  <2>3. q.agent # None => days'[q.agent] \in {None, q.before}
    BY <1>1, <2>1, <2>2 DEF Writes
  <2> QED
    BY <2>1, <2>3 DEF Writes, Adds, TakesOut
<1>3. ASSUME NEW a \in Agents, days'[a] # None PROVE DayIsDue(a)'
  <2>1. DayIsDue(a) /\ days'[a] = days[a]
    BY <1>1, <1>3 DEF DayInv, DayIsDue
  <2>2. OtClaims(a)' = OtClaims(a) /\ OffClaims(a)' = OffClaims(a)
    BY <1>1 DEF OtClaims, OffClaims
  <2> QED
    BY <1>1, <2>1, <2>2, DueUnchanged
<1> QED
  BY <1>2, <1>3 DEF DayInv, DayIsDue

LEMMA DaysStep == Overlap = FALSE /\ DayInv /\ [Next]_vars => DayInv'
<1> SUFFICES ASSUME Overlap = FALSE, DayInv, [Next]_vars PROVE DayInv'
  OBVIOUS
<1>1. SlotInv /\ TypeInv /\ SlotInv'
  BY SlotsStep DEF DayInv, SlotInv
<1>2. CASE \E c \in Clients, o \in Offers : UpsertOffer(c, o) \/ PatchOffer(c, o) \/ DeleteOffer(c, o)
  <2>1. \E c \in Clients : \E q : Begin(c, q) /\ q.agent = None
    BY <1>1, <1>2, UpsertFits, PatchFits, DeleteFits
  <2>2. \E c \in Clients : \E q : Begin(c, q) /\ Writes(q)
    BY <2>1 DEF Writes
  <2> QED
    BY <1>1, <2>2, DaysBegin
<1>3. ASSUME NEW c \in Clients, NEW o \in Offers, NEW a \in Agents, ClaimSlot(c, o, a)
      PROVE  DayInv'
  <2>1. \E q : Begin(c, q) /\ Writes(q)
    BY <1>1, <1>3, ClaimRequest, ClaimWrites
  <2> QED
    BY <1>1, <2>1, DaysBegin
<1>4. ASSUME NEW c \in Clients, NEW g \in Segs, CancelClaim(c, g)
      PROVE  DayInv'
  <2>1. \E q : Begin(c, q) /\ Writes(q)
    BY <1>1, <1>4, CancelRequest, CancelWrites
  <2> QED
    BY <1>1, <2>1, DaysBegin
<1>5. ASSUME NEW c \in Clients, Commit(c) PROVE DayInv'
  BY <1>1, <1>5, DaysCommit
<1>6. CASE \/ \E c \in Clients : RollBack(c)
           \/ \E a \in Agents : ResetDay(a)
           \/ UNCHANGED vars
  BY <1>1, <1>6, DaysRest
<1> QED
  BY <1>2, <1>3, <1>4, <1>5, <1>6 DEF Next

LEMMA DayInvariant == ASSUME Overlap = FALSE PROVE Spec => []DayInv
<1>1. DayInv /\ [Next]_vars => DayInv'
  BY DaysStep
<1> QED
  BY <1>1, DaysInitially, PTL DEF Spec

LEMMA DaysAreDue == DayInv => DaysAreTheirClaims
<1> SUFFICES ASSUME DayInv, NEW a \in Agents, days[a] # None
             PROVE  /\ {x.id[1] : x \in days[a].activities \ FirstDays[a].activities}
                          = ClaimedOf(a, FALSE)
                    /\ \A m \in 0 .. DayMinutes - 1 :
                          LET due == Worked(FirstDays[a].ot, m) \/ ClaimedAt(a, m)
                          IN  /\ due => Worked(days[a].ot, m)
                              /\ Worked(days[a].ot, m) /\ a \notin kept => due
  BY DEF DaysAreTheirClaims
<1>1. TimeOffIsClaimed(a) /\ OvertimeIsDue(a)
  BY DEF DayInv
<1>2. DayMinutes \in Nat
  BY LengthsAssumption
<1>3. \A m \in 0 .. DayMinutes - 1 :
         LET due == Worked(FirstDays[a].ot, m) \/ ClaimedAt(a, m)
         IN  /\ due => Worked(days[a].ot, m)
             /\ Worked(days[a].ot, m) /\ a \notin kept => due
  <2> TAKE m \in 0 .. DayMinutes - 1
  <2>1. m \in Int
    BY <1>2
  <2>2. Due(a, m) <=> Worked(FirstDays[a].ot, m) \/ ClaimedAt(a, m)
    BY ClaimedKinds DEF Due
  <2>3. /\ Due(a, m) => Worked(days[a].ot, m)
        /\ Worked(days[a].ot, m) /\ a \notin kept => Due(a, m)
    BY <1>1, <2>1 DEF OvertimeIsDue
  <2> QED
    BY <2>2, <2>3
<1> DEFINE new == days[a].activities \ FirstDays[a].activities
<1>4. {x.id : x \in new} = {<<g, 0>> : g \in OffClaims(a)}
  BY <1>1 DEF TimeOffIsClaimed
<1> HIDE DEF new
<1>5. ASSUME NEW g PROVE g \in {x.id[1] : x \in new} <=> g \in OffClaims(a)
  <2>1. ASSUME NEW x \in new, x.id[1] = g PROVE g \in OffClaims(a)
    <3>1. x.id \in {<<h, 0>> : h \in OffClaims(a)}
      BY <1>4
    <3>2. PICK h \in OffClaims(a) : x.id = <<h, 0>>
      BY <3>1
    <3> QED
      BY <2>1, <3>2
  <2>2. ASSUME g \in OffClaims(a) PROVE \E x \in new : x.id[1] = g
    <3>1. <<g, 0>> \in {x.id : x \in new}
      BY <1>4, <2>2
    <3> QED
      BY <3>1
  <2> QED
    BY <2>1, <2>2
<1>6. {x.id[1] : x \in new} = OffClaims(a)
  BY <1>5
<1> QED
  BY <1>3, <1>6, ClaimedKinds DEF new

(* While requests do not overlap, an agent's day has the time off and the  *)
(* overtime of the claims the agent holds and of no other, minute by       *)
(* minute (offers.py:7-10), for any slots, however their overtime is       *)
(* merged with other overtime and cut out of it; only overtime that was    *)
(* given back while the server refused the day without it stays.           *)
THEOREM DaysFollowClaims == ASSUME Overlap = FALSE PROVE Spec => []DaysAreTheirClaims
BY DayInvariant, DaysAreDue, PTL

-----------------------------------------------------------------------------
(* Why a day is refused *)

(* The overtime of two claims in one block, given back the later one       *)
(* first, leaves two blocks with one id (offers.py:432), which             *)
(* validate_day refuses (dayplan.py:179): the second cancellation leaves   *)
(* the day as it is.                                                       *)
THEOREM CutTwiceClashes ==
    ASSUME NEW x \in BlockRow, NEW s \in Int, NEW e \in Int, NEW from \in Int, NEW to \in Int,
           x.start < s, s < e, e < from, from < to, to < x.end
    PROVE  ~Apart(WithoutWindow(WithoutWindow({x}, from, to), s, e))
<1> DEFINE W == WithoutWindow({x}, from, to)
           V == WithoutWindow(W, s, e)
           l == LeftOf(x, from)
           r == RightOf(x, from, to)
           k == RightOf(l, s, e)
<1>1. /\ l \in BlockRow /\ r \in BlockRow /\ k \in BlockRow
      /\ l.start = x.start /\ l.end = from /\ r.start = to /\ r.end = x.end
      /\ k.start = e /\ k.end = from
  <2>1. /\ l \in BlockRow /\ r \in BlockRow
        /\ l.start = x.start /\ l.end = from /\ r.start = to /\ r.end = x.end
    BY PiecesType
  <2> HIDE DEF l
  <2>2. k \in BlockRow /\ k.start = e /\ k.end = from
    BY <2>1, PiecesType
  <2> QED
    BY <2>1, <2>2
<1>2. x.start \in Int /\ x.end \in Int /\ x.start < from /\ x.start < to /\ from < x.end
  BY DEF BlockRow
<1>3. r.id = <<x.id[1], x.id[2] + 1>>
  BY <1>2 DEF RightOf, BlockRow
<1>4. l.id = x.id
  BY DEF LeftOf, BlockRow
<1>5. k.id = <<x.id[1], x.id[2] + 1>>
  <2>1. k.id = <<l.id[1], l.id[2] + 1>>
    <3> HIDE DEF l
    <3> QED
      BY <1>1, <1>2 DEF RightOf, BlockRow
  <2> QED
    BY <1>4, <2>1
<1>6. l \in W /\ r \in W
  <2>1. x \in {y \in {x} : y.start < to /\ from < y.end}
    BY <1>2
  <2> QED
    BY <1>2, <2>1 DEF WithoutWindow, LeftOf, RightOf
<1> HIDE DEF W, l, r
<1>7. k \in V
  <2>1. l \in {y \in W : y.start < e /\ s < y.end} /\ l.end > e
    BY <1>1, <1>2, <1>6
  <2> QED
    BY <2>1 DEF WithoutWindow, RightOf
<1>8. r \in V
  <2>1. r \notin {y \in W : y.start < e /\ s < y.end}
    BY <1>1
  <2> QED
    BY <1>6, <2>1 DEF WithoutWindow
<1> HIDE DEF k, V
<1>9. k # r /\ k.id = r.id
  BY <1>1, <1>3, <1>5
<1>10. ~Apart(V)
  BY <1>7, <1>8, <1>9 DEF Apart
<1> QED
  BY <1>10 DEF V, W
=============================================================================
