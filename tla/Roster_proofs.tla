---------------------------- MODULE Roster_proofs ----------------------------
(***************************************************************************)
(* Proofs about Roster.                                                    *)
(***************************************************************************)
EXTENDS Roster, TLAPS, FiniteSetTheorems

-----------------------------------------------------------------------------
(* Sequences *)

(* A finite set of numbers has, for each rank, one number of that rank.    *)
Rank(K, i) == Cardinality({j \in K : j < i})

LEMMA RankGrows ==
    ASSUME NEW K \in SUBSET Nat, IsFiniteSet(K), NEW i \in K, NEW h \in K, i < h
    PROVE  Rank(K, i) < Rank(K, h) /\ Rank(K, i) \in Nat /\ Rank(K, h) < Cardinality(K)
<1> DEFINE Below == {j \in K : j < i}
           Upto == Below \cup {i}
           Under == {j \in K : j < h}
<1>1. /\ IsFiniteSet(Below) /\ Cardinality(Below) \in Nat
      /\ IsFiniteSet(Under) /\ Cardinality(Under) \in Nat
  BY FS_Subset, FS_CardinalityType
<1>2. i \notin Below
  OBVIOUS
<1>3. Cardinality(Upto) = Cardinality(Below) + 1
  BY <1>1, <1>2, FS_AddElement
<1>4. Upto \subseteq Under
  <2> SUFFICES ASSUME NEW j \in Upto PROVE j \in Under
    OBVIOUS
  <2>1. j \in K /\ (j < i \/ j = i)
    OBVIOUS
  <2> QED
    BY <2>1
<1>5. Cardinality(Upto) <= Cardinality(Under)
  BY <1>1, <1>4, FS_Subset
<1>6. Under \subseteq K /\ h \in K /\ h \notin Under
  OBVIOUS
<1>7. Cardinality(K) \in Nat /\ Cardinality(Under) <= Cardinality(K) /\ Cardinality(Under) # Cardinality(K)
  BY <1>6, FS_Subset, FS_CardinalityType
<1> QED
  BY <1>1, <1>3, <1>5, <1>7 DEF Rank

LEMMA RankType ==
    ASSUME NEW K \in SUBSET Nat, IsFiniteSet(K), NEW i \in K
    PROVE  Rank(K, i) \in Nat /\ Rank(K, i) < Cardinality(K)
<1> DEFINE Below == {j \in K : j < i}
<1>1. Below \subseteq K /\ i \in K /\ i \notin Below
  OBVIOUS
<1>2. /\ Cardinality(Below) \in Nat /\ Cardinality(K) \in Nat
      /\ Cardinality(Below) <= Cardinality(K) /\ Cardinality(Below) # Cardinality(K)
  BY <1>1, FS_Subset, FS_CardinalityType
<1> QED
  BY <1>2 DEF Rank

LEMMA PlaceOfRank ==
    ASSUME NEW K \in SUBSET Nat, IsFiniteSet(K), NEW k \in 1 .. Cardinality(K)
    PROVE  Place(K, k) \in K /\ Rank(K, Place(K, k)) = k - 1
<1> DEFINE n == Cardinality(K)
           R == 0 .. n - 1
           f == [i \in K |-> Rank(K, i)]
<1>1. n \in Nat
  BY FS_CardinalityType
<1>2. f \in [K -> R]
  BY <1>1, RankType
<1>3. \A i, h \in K : f[i] = f[h] => i = h
  <2> SUFFICES ASSUME NEW i \in K, NEW h \in K, i # h PROVE f[i] # f[h]
    OBVIOUS
  <2>1. i < h \/ h < i
    OBVIOUS
  <2>2. ASSUME i < h PROVE Rank(K, i) < Rank(K, h) /\ Rank(K, i) \in Nat /\ Rank(K, h) \in Nat
    BY <2>2, RankGrows, RankType
  <2>3. ASSUME h < i PROVE Rank(K, h) < Rank(K, i) /\ Rank(K, h) \in Nat /\ Rank(K, i) \in Nat
    BY <2>3, RankGrows, RankType
  <2> QED
    BY <2>1, <2>2, <2>3
<1>4. f \in Injection(K, R)
  BY <1>2, <1>3 DEF Injection, IsInjective
<1>5. IsFiniteSet(R) /\ Cardinality(R) = n
  <2> HIDE DEF n
  <2>1. n - 1 \in Int /\ 0 \in Int
    BY <1>1
  <2>2. IsFiniteSet(R) /\ Cardinality(R) = IF 0 > n - 1 THEN 0 ELSE n - 1 - 0 + 1
    BY <2>1, FS_Interval
  <2> QED
    BY <1>1, <2>2
<1>6. f \in Surjection(K, R)
  BY <1>4, <1>5, FS_Injection
<1>7. k - 1 \in R
  BY <1>1
<1> HIDE DEF f, R
<1>8. PICK i \in K : f[i] = k - 1
  BY <1>6, <1>7 DEF Surjection
<1>9. Rank(K, i) = k - 1
  BY <1>8 DEF f
<1> QED
  BY <1>9 DEF Place, Rank

(* So Kept lists the items at the places of K, each place once.            *)
LEMMA KeptItems ==
    ASSUME NEW T, NEW seq \in Seq(T), NEW K \in SUBSET DOMAIN seq
    PROVE  /\ Kept(seq, K) \in Seq(T) /\ Cardinality(K) \in Nat
           /\ DOMAIN Kept(seq, K) = 1 .. Cardinality(K)
           /\ \A k \in 1 .. Cardinality(K) : Place(K, k) \in K /\ Kept(seq, K)[k] = seq[Place(K, k)]
           /\ \A k, l \in 1 .. Cardinality(K) : Place(K, k) = Place(K, l) => k = l
<1>1. IsFiniteSet(K) /\ Cardinality(K) \in Nat /\ K \in SUBSET Nat
  <2>1. DOMAIN seq = 1 .. Len(seq) /\ Len(seq) \in Nat
    OBVIOUS
  <2>2. IsFiniteSet(1 .. Len(seq))
    BY <2>1, FS_Interval
  <2>3. IsFiniteSet(K)
    BY <2>1, <2>2, FS_Subset
  <2> QED
    BY <2>1, <2>3, FS_CardinalityType
<1>2. \A k \in 1 .. Cardinality(K) : Place(K, k) \in K /\ Rank(K, Place(K, k)) = k - 1
  BY <1>1, PlaceOfRank
<1>3. \A k, l \in 1 .. Cardinality(K) : Place(K, k) = Place(K, l) => k = l
  BY <1>1, <1>2
<1>4. \A k \in 1 .. Cardinality(K) : seq[Place(K, k)] \in T
  BY <1>2
<1>5. Kept(seq, K) = [k \in 1 .. Cardinality(K) |-> seq[Place(K, k)]]
  BY DEF Kept
<1>6. Kept(seq, K) \in Seq(T)
  BY <1>1, <1>4, <1>5
<1> QED
  BY <1>1, <1>2, <1>3, <1>5, <1>6

(* A finite set is listed without repetition.                              *)
LEMMA ListedOnce ==
    ASSUME NEW S, IsFiniteSet(S)
    PROVE  /\ SetToSeq(S) \in Seq(S) /\ Len(SetToSeq(S)) = Cardinality(S)
           /\ \A i, j \in DOMAIN SetToSeq(S) : SetToSeq(S)[i] = SetToSeq(S)[j] => i = j
           /\ \A x \in S : \E i \in DOMAIN SetToSeq(S) : SetToSeq(S)[i] = x
<1> DEFINE n == Cardinality(S)
<1>1. n \in Nat /\ ExistsBijection(1 .. n, S)
  BY FS_CardinalityType
<1>2. PICK f : f \in Bijection(1 .. n, S)
  BY <1>1 DEF ExistsBijection
<1>3. f \in [1 .. n -> S] /\ IsInjective(f)
  BY <1>2 DEF Bijection, Injection
<1>4. SetToSeq(S) \in [1 .. n -> S] /\ IsInjective(SetToSeq(S))
  BY <1>3 DEF SetToSeq
<1>5. SetToSeq(S) \in Injection(1 .. n, S)
  BY <1>4 DEF Injection
<1>6. SetToSeq(S) \in Surjection(1 .. n, S)
  <2>1. IsFiniteSet(1 .. n) /\ Cardinality(1 .. n) = n
    BY <1>1, FS_Interval
  <2> QED
    BY <1>5, <2>1, FS_Injection
<1>7. SetToSeq(S) \in Seq(S) /\ Len(SetToSeq(S)) = n
  BY <1>1, <1>4
<1> QED
  BY <1>4, <1>6, <1>7 DEF IsInjective, Surjection

-----------------------------------------------------------------------------
(* The inductive invariants *)

(* The board lists the roster in its order; whoever has left is kept as    *)
(* they were; and only imports put somebody on the roster who has left, who*)
(* may then come back a second time.                                       *)
Listed(seq) == [i \in DOMAIN seq |-> seq[i].id]

Twice(seq, S) ==
    \A i, j \in DOMAIN seq : i # j /\ seq[i].id = seq[j].id => seq[i].id \in S

RosterInv ==
    /\ TypeOK
    /\ board = Listed(agents)
    /\ \A p \in DOMAIN former : former[p].id = p
    /\ Twice(agents, imported)
    /\ (Ids(agents) \cap DOMAIN former) \subseteq imported

(* A pattern is there only for a rule that is there, and is made from it.  *)
PatternInv ==
    /\ \A r \in DOMAIN patterns : rules[r] # 0 /\ (r \notin byHand => patterns[r] = rules[r])
    /\ PatternsFollowRules

-----------------------------------------------------------------------------
(* Lists of agents *)

LEMMA AgentItems ==
    ASSUME NEW s \in Seq(Agent), NEW i \in DOMAIN s
    PROVE  s[i] \in Agent /\ s[i].id \in People /\ s[i].rule \in Rules \cup {NoRule}
<1>1. s[i] \in Agent
  OBVIOUS
<1> QED
  BY <1>1 DEF Agent

LEMMA ListedType ==
    ASSUME NEW s \in Seq(Agent)
    PROVE  /\ Listed(s) \in Seq(People) /\ Len(Listed(s)) = Len(s) /\ Len(s) \in Nat
           /\ Ids(s) \subseteq People
<1>1. DOMAIN s = 1 .. Len(s) /\ Len(s) \in Nat
  OBVIOUS
<1>2. \A i \in 1 .. Len(s) : s[i].id \in People
  BY <1>1, AgentItems
<1>3. Listed(s) = [i \in 1 .. Len(s) |-> s[i].id]
  BY <1>1 DEF Listed
<1> QED
  BY <1>1, <1>2, <1>3 DEF Ids

LEMMA Joined ==
    ASSUME NEW u \in Seq(People), NEW v \in Seq(People)
    PROVE  u \o v = [i \in 1 .. Len(u) + Len(v) |-> IF i <= Len(u) THEN u[i] ELSE v[i - Len(u)]]
<1> DEFINE w == u \o v
           n == Len(u) + Len(v)
<1>1. w \in Seq(People) /\ Len(w) = n
  OBVIOUS
<1>2. \A i \in 1 .. n : w[i] = IF i <= Len(u) THEN u[i] ELSE v[i - Len(u)]
  OBVIOUS
<1> HIDE DEF w, n
<1>3. w = [i \in 1 .. n |-> w[i]]
  BY <1>1
<1>4. w = [i \in 1 .. n |-> IF i <= Len(u) THEN u[i] ELSE v[i - Len(u)]]
  BY <1>2, <1>3
<1> QED
  BY <1>4 DEF w, n

LEMMA JoinedItems ==
    ASSUME NEW T, NEW s \in Seq(T), NEW t \in Seq(T)
    PROVE  \A k \in DOMAIN (s \o t) : \/ \E i \in DOMAIN s : (s \o t)[k] = s[i]
                                      \/ \E i \in DOMAIN t : (s \o t)[k] = t[i]
<1>1. /\ Len(s) \in Nat /\ Len(t) \in Nat /\ DOMAIN s = 1 .. Len(s) /\ DOMAIN t = 1 .. Len(t)
      /\ DOMAIN (s \o t) = 1 .. Len(s) + Len(t)
  OBVIOUS
<1>2. \A k \in 1 .. Len(s) + Len(t) : (s \o t)[k] = IF k <= Len(s) THEN s[k] ELSE t[k - Len(s)]
  OBVIOUS
<1>3. \A k \in 1 .. Len(s) + Len(t) :
         (k <= Len(s) => k \in 1 .. Len(s)) /\ (~(k <= Len(s)) => k - Len(s) \in 1 .. Len(t))
  BY <1>1
<1> QED
  BY <1>1, <1>2, <1>3

LEMMA ListedJoined ==
    ASSUME NEW s \in Seq(Agent), NEW t \in Seq(Agent)
    PROVE  Listed(s) \o Listed(t) = Listed(s \o t) /\ Ids(s \o t) = Ids(s) \cup Ids(t)
<1> DEFINE m == Len(s)
           n == Len(t)
           st == s \o t
<1>1. /\ m \in Nat /\ n \in Nat /\ DOMAIN s = 1 .. m /\ DOMAIN t = 1 .. n
      /\ st \in Seq(Agent) /\ DOMAIN st = 1 .. m + n
  OBVIOUS
<1>2. \A i \in 1 .. m + n : st[i] = IF i <= m THEN s[i] ELSE t[i - m]
  OBVIOUS
<1>3. /\ Listed(s) \in Seq(People) /\ Len(Listed(s)) = m
      /\ Listed(t) \in Seq(People) /\ Len(Listed(t)) = n
  BY ListedType
<1>4. /\ \A i \in 1 .. m : Listed(s)[i] = s[i].id
      /\ \A i \in 1 .. n : Listed(t)[i] = t[i].id
  BY <1>1 DEF Listed
<1>5. Listed(s) \o Listed(t) = [i \in 1 .. m + n |-> IF i <= m THEN Listed(s)[i] ELSE Listed(t)[i - m]]
  <2>1. m \in Nat /\ n \in Nat
    BY <1>1
  <2> DEFINE u == Listed(s)
             v == Listed(t)
  <2>2. u \in Seq(People) /\ Len(u) = m /\ v \in Seq(People) /\ Len(v) = n
    BY <1>3
  <2> HIDE DEF m, n, u, v
  <2>3. u \o v = [i \in 1 .. m + n |-> IF i <= m THEN u[i] ELSE v[i - m]]
    <3>1. u \o v = [i \in 1 .. Len(u) + Len(v) |->
                       IF i <= Len(u) THEN u[i] ELSE v[i - Len(u)]]
      BY <2>2, Joined
    <3> QED
      BY <2>2, <3>1
  <2> QED
    BY <2>3 DEF u, v
<1>6. Listed(st) = [i \in 1 .. m + n |-> st[i].id]
  BY <1>1 DEF Listed
<1>7. \A i \in 1 .. m + n : (IF i <= m THEN Listed(s)[i] ELSE Listed(t)[i - m]) = st[i].id
  <2> TAKE i \in 1 .. m + n
  <2>1. CASE i <= m
    <3>1. i \in 1 .. m
      BY <1>1, <2>1
    <3> QED
      BY <1>2, <1>4, <2>1, <3>1
  <2>2. CASE ~(i <= m)
    <3>1. i - m \in 1 .. n
      BY <1>1, <2>2
    <3> QED
      BY <1>2, <1>4, <2>2, <3>1
  <2> QED
    BY <2>1, <2>2
<1>8. Listed(s) \o Listed(t) = Listed(st)
  BY <1>5, <1>6, <1>7
<1>9. Ids(st) \subseteq Ids(s) \cup Ids(t)
  <2> SUFFICES ASSUME NEW i \in 1 .. m + n PROVE st[i].id \in Ids(s) \cup Ids(t)
    BY <1>1 DEF Ids
  <2>1. CASE i <= m
    <3>1. i \in 1 .. m
      BY <1>1, <2>1
    <3> QED
      BY <1>1, <1>2, <2>1, <3>1 DEF Ids
  <2>2. CASE ~(i <= m)
    <3>1. i - m \in 1 .. n
      BY <1>1, <2>2
    <3> QED
      BY <1>1, <1>2, <2>2, <3>1 DEF Ids
  <2> QED
    BY <2>1, <2>2
<1>10. Ids(s) \subseteq Ids(st)
  <2> SUFFICES ASSUME NEW i \in 1 .. m PROVE s[i].id \in Ids(st)
    BY <1>1 DEF Ids
  <2>1. i \in 1 .. m + n /\ i <= m
    BY <1>1
  <2> QED
    BY <1>1, <1>2, <2>1 DEF Ids
<1>11. Ids(t) \subseteq Ids(st)
  <2> SUFFICES ASSUME NEW i \in 1 .. n PROVE t[i].id \in Ids(st)
    BY <1>1 DEF Ids
  <2>1. i + m \in 1 .. m + n /\ ~(i + m <= m) /\ i + m - m = i
    BY <1>1
  <2>2. st[i + m] = t[i + m - m]
    BY <1>2, <2>1
  <2>3. st[i + m] = t[i]
    BY <2>1, <2>2
  <2> QED
    BY <1>1, <2>1, <2>3 DEF Ids
<1> QED
  BY <1>8, <1>9, <1>10, <1>11

LEMMA TwiceJoined ==
    ASSUME NEW s \in Seq(Agent), NEW t \in Seq(Agent), NEW D,
           Twice(s, D), Twice(t, D), Ids(s) \cap Ids(t) \subseteq D
    PROVE  Twice(s \o t, D)
<1> DEFINE m == Len(s)
           n == Len(t)
           st == s \o t
<1>1. /\ m \in Nat /\ n \in Nat /\ DOMAIN s = 1 .. m /\ DOMAIN t = 1 .. n /\ DOMAIN st = 1 .. m + n
  OBVIOUS
<1>2. \A i \in 1 .. m + n : st[i] = IF i <= m THEN s[i] ELSE t[i - m]
  OBVIOUS
<1>3. \A i \in 1 .. m + n : (i <= m => i \in 1 .. m) /\ (~(i <= m) => i - m \in 1 .. n)
  BY <1>1
<1> HIDE DEF m, n, st
<1> SUFFICES ASSUME NEW i \in 1 .. m + n, NEW j \in 1 .. m + n, i # j, st[i].id = st[j].id
             PROVE  st[i].id \in D
  BY <1>1 DEF Twice, st
<1>4. CASE i <= m /\ j <= m
  BY <1>1, <1>2, <1>3, <1>4 DEF Twice
<1>5. CASE ~(i <= m) /\ ~(j <= m)
  <2>1. i - m # j - m
    BY <1>1
  <2> QED
    BY <1>1, <1>2, <1>3, <1>5, <2>1 DEF Twice
<1>6. CASE i <= m /\ ~(j <= m)
  BY <1>1, <1>2, <1>3, <1>6 DEF Ids
<1>7. CASE ~(i <= m) /\ j <= m
  BY <1>1, <1>2, <1>3, <1>7 DEF Ids
<1> QED
  BY <1>4, <1>5, <1>6, <1>7

(* The roster, and the board with it, without some people.                 *)
LEMMA ExceptItems ==
    ASSUME NEW s \in Seq(Agent), NEW S
    PROVE  /\ Except(s, S) \in Seq(Agent)
           /\ \A k \in DOMAIN Except(s, S) : \E i \in DOMAIN s : Except(s, S)[k] = s[i]
           /\ Ids(Except(s, S)) \subseteq Ids(s) \ S
           /\ OffBoard(Listed(s), S) = Listed(Except(s, S))
           /\ \A D : Twice(s, D) => Twice(Except(s, S), D)
<1> DEFINE K == {i \in DOMAIN s : s[i].id \notin S}
           e == Except(s, S)
           n == Cardinality(K)
<1>1. e = Kept(s, K)
  BY DEF Except
<1>2. K \in SUBSET DOMAIN s
  OBVIOUS
<1>3. /\ e \in Seq(Agent) /\ DOMAIN e = 1 .. n
      /\ \A k \in 1 .. n : Place(K, k) \in K /\ e[k] = s[Place(K, k)]
      /\ \A k, l \in 1 .. n : Place(K, k) = Place(K, l) => k = l
  <2> HIDE DEF e, K
  <2> QED
    BY <1>1, <1>2, KeptItems
<1>4. \A i \in K : i \in DOMAIN s /\ s[i].id \notin S
  OBVIOUS
<1>5. {i \in DOMAIN Listed(s) : Listed(s)[i] \notin S} = K
  BY DEF Listed
<1>6. OffBoard(Listed(s), S) = [k \in 1 .. n |-> Listed(s)[Place(K, k)]]
  BY <1>5 DEF OffBoard, Kept
<1> HIDE DEF e, n, K
<1>7. \A k \in 1 .. n : Listed(s)[Place(K, k)] = e[k].id
  BY <1>3, <1>4 DEF Listed
<1>8. OffBoard(Listed(s), S) = Listed(e)
  BY <1>3, <1>6, <1>7 DEF Listed
<1>9. \A k \in DOMAIN e : \E i \in DOMAIN s : e[k] = s[i]
  BY <1>3, <1>4
<1>10. Ids(e) \subseteq Ids(s) \ S
  BY <1>3, <1>4 DEF Ids
<1>11. ASSUME NEW D, Twice(s, D) PROVE Twice(e, D)
  BY <1>3, <1>4, <1>11 DEF Twice
<1> QED
  BY <1>3, <1>8, <1>9, <1>10, <1>11 DEF e

(* People listed once each.                                                *)
LEMMA PeopleItems ==
    ASSUME NEW F \in SUBSET Agent, \A x, y \in F : x.id = y.id => x = y
    PROVE  /\ SetToSeq(F) \in Seq(Agent)
           /\ \A i \in DOMAIN SetToSeq(F) : SetToSeq(F)[i] \in F
           /\ \A D : Twice(SetToSeq(F), D)
<1> DEFINE B == SetToSeq(F)
<1>1. IsFiniteSet(F)
  <2> DEFINE id == [x \in F |-> x.id]
  <2>1. id \in [F -> People] /\ \A x, y \in F : id[x] = id[y] => x = y
    BY DEF Agent
  <2>2. id \in Injection(F, People)
    BY <2>1 DEF Injection, IsInjective
  <2> QED
    BY <2>2, FS_Injection, ConstantsAssumption
<1>2. B \in Seq(F) /\ \A i, j \in DOMAIN B : B[i] = B[j] => i = j
  BY <1>1, ListedOnce
<1> HIDE DEF B
<1>3. \A i \in DOMAIN B : B[i] \in F
  BY <1>2
<1>4. B \in Seq(Agent)
  BY <1>2
<1>5. \A D : Twice(B, D)
  BY <1>2, <1>3 DEF Twice
<1> QED
  BY <1>3, <1>4, <1>5 DEF B

Newcomers(S) == SetToSeq({[id |-> p, rule |-> NoRule] : p \in S})

LEMMA NewcomersItems ==
    ASSUME NEW S \in SUBSET People
    PROVE  /\ Newcomers(S) \in Seq(Agent) /\ Ids(Newcomers(S)) \subseteq S
           /\ \A i \in DOMAIN Newcomers(S) : Newcomers(S)[i].rule = NoRule
           /\ \A D : Twice(Newcomers(S), D)
<1> DEFINE F == {[id |-> p, rule |-> NoRule] : p \in S}
           B == SetToSeq(F)
<1>1. /\ F \in SUBSET Agent /\ \A x, y \in F : x.id = y.id => x = y
      /\ \A x \in F : x.id \in S /\ x.rule = NoRule
  BY DEF Agent
<1>2. Newcomers(S) = B
  BY DEF Newcomers
<1> HIDE DEF F
<1>3. B \in Seq(Agent) /\ (\A i \in DOMAIN B : B[i] \in F) /\ \A D : Twice(B, D)
  BY <1>1, PeopleItems
<1> HIDE DEF B
<1>4. (\A i \in DOMAIN B : B[i].rule = NoRule) /\ Ids(B) \subseteq S
  BY <1>1, <1>3 DEF Ids
<1> QED
  BY <1>2, <1>3, <1>4

-----------------------------------------------------------------------------
(* People come and go *)

LEMMA LatestPlace ==
    ASSUME NEW s \in Seq(Agent), NEW p \in Ids(s)
    PROVE  \E i \in DOMAIN s : s[i].id = p /\ \A j \in DOMAIN s : s[j].id = p => j <= i
<1> DEFINE K == {i \in DOMAIN s : s[i].id = p}
           n == Cardinality(K)
<1>1. K \in SUBSET DOMAIN s /\ K # {}
  BY DEF Ids
<1>2. IsFiniteSet(K) /\ K \in SUBSET Nat /\ n \in Nat
  <2>1. DOMAIN s = 1 .. Len(s) /\ Len(s) \in Nat
    OBVIOUS
  <2>2. IsFiniteSet(1 .. Len(s))
    BY <2>1, FS_Interval
  <2> HIDE DEF K
  <2>3. IsFiniteSet(K)
    BY <1>1, <2>1, <2>2, FS_Subset
  <2> QED
    BY <1>1, <2>1, <2>3, FS_CardinalityType
<1>3. n # 0
  BY <1>1, <1>2, FS_EmptySet
<1>4. n \in 1 .. n
  BY <1>2, <1>3
<1> DEFINE i == Place(K, n)
<1>5. i \in K /\ Rank(K, i) = n - 1
  BY <1>2, <1>4, PlaceOfRank
<1>6. ASSUME NEW j \in K PROVE j <= i
  <2> SUFFICES ASSUME i < j PROVE FALSE
    BY <1>2, <1>5
  <2>1. Rank(K, i) < Rank(K, j)
    BY <1>2, <1>5, RankGrows
  <2>2. Rank(K, j) \in Nat /\ Rank(K, j) < n
    BY <1>2, RankType
  <2> QED
    BY <1>2, <1>5, <2>1, <2>2
<1> QED
  BY <1>5, <1>6

LEMMA FirstPlace ==
    ASSUME agents \in Seq(Agent), NEW p \in Ids(agents)
    PROVE  \E i \in DOMAIN agents : agents[i].id = p /\ First(p) = agents[i]
<1> DEFINE K == {i \in DOMAIN agents : agents[i].id = p}
           n == Cardinality(K)
<1>1. K \in SUBSET DOMAIN agents /\ K # {}
  BY DEF Ids
<1>2. IsFiniteSet(K) /\ K \in SUBSET Nat /\ n \in Nat
  <2>1. DOMAIN agents = 1 .. Len(agents) /\ Len(agents) \in Nat
    OBVIOUS
  <2>2. IsFiniteSet(1 .. Len(agents))
    BY <2>1, FS_Interval
  <2> HIDE DEF K
  <2>3. IsFiniteSet(K)
    BY <1>1, <2>1, <2>2, FS_Subset
  <2> QED
    BY <1>1, <2>1, <2>3, FS_CardinalityType
<1>3. n # 0
  BY <1>1, <1>2, FS_EmptySet
<1>4. 1 \in 1 .. n
  BY <1>2, <1>3
<1> DEFINE i == Place(K, 1)
<1>5. i \in K /\ Rank(K, i) = 0
  <2> HIDE DEF K, n
  <2>1. i \in K /\ Rank(K, i) = 1 - 1
    BY <1>2, <1>4, PlaceOfRank DEF n
  <2> QED
    BY <2>1
<1>6. ASSUME NEW j \in K PROVE i <= j
  <2> SUFFICES ASSUME j < i PROVE FALSE
    BY <1>2, <1>5
  <2>1. Rank(K, j) < Rank(K, i)
    BY <1>2, <1>5, RankGrows
  <2>2. Rank(K, j) \in Nat
    BY <1>2, RankType
  <2> QED
    BY <1>5, <2>1, <2>2
<1>7. \E k \in DOMAIN agents : agents[k].id = p /\ \A j \in DOMAIN agents : agents[j].id = p => k <= j
  BY <1>5, <1>6
<1> QED
  BY <1>7 DEF First

Leaving(end) == {p \in Ids(agents) : Terminated(end, p)}
Returning(end, past) == {p \in DOMAIN past : ~Terminated(end, p)}

(* What a settlement makes of the roster, whoever's last day was moved.    *)
LEMMA SettledRoster ==
    ASSUME RosterInv, NEW end, NEW past, Settled(end, past), DOMAIN past = DOMAIN former,
           \A p \in DOMAIN past : past[p] \in Agent /\ past[p].id = p
    PROVE  /\ agents' \in Seq(Agent) /\ board' = Listed(agents')
           /\ DOMAIN former' \subseteq People
           /\ \A p \in DOMAIN former' : former'[p] \in Agent /\ former'[p].id = p
           /\ Twice(agents', imported')
           /\ Ids(agents') \cap DOMAIN former' \subseteq imported'
           /\ imported' \subseteq People
           /\ stray \subseteq stray' /\ stray' \subseteq Rules \cup {NoRule}
           /\ \A k \in DOMAIN agents' : \/ \E i \in DOMAIN agents : agents'[k] = agents[i]
                                        \/ agents'[k].rule \in stray'
<1> DEFINE L == Leaving(end)
           R == Returning(end, past)
           B == SetToSeq({past[p] : p \in R})
           e == Except(agents, L)
<1>1. /\ TypeOK /\ agents \in Seq(Agent) /\ board = Listed(agents)
      /\ \A p \in DOMAIN past : past[p] \in Agent /\ past[p].id = p /\ p \in People
      /\ Twice(agents, imported) /\ Ids(agents) \cap DOMAIN past \subseteq imported
      /\ imported \subseteq People /\ stray \subseteq Rules \cup {NoRule}
  BY DEF RosterInv, TypeOK
<1>2. CASE L \cup R = {}
  <2>1. former' = past /\ UNCHANGED <<agents, board, imported, stray>>
    BY <1>2 DEF Settled, Leaving, Returning
  <2> QED
    BY <1>1, <2>1
<1>3. CASE L \cup R # {}
  <2>1. /\ L \subseteq Ids(agents) /\ R \subseteq DOMAIN past
        /\ L \cap R = {}
    BY DEF Leaving, Returning
  <2>2. /\ e \in Seq(Agent)
        /\ \A k \in DOMAIN e : \E i \in DOMAIN agents : e[k] = agents[i]
        /\ Ids(e) \subseteq Ids(agents) \ L /\ OffBoard(board, L) = Listed(e)
        /\ Twice(e, imported)
    BY <1>1, ExceptItems
  <2>3. /\ B \in Seq(Agent) /\ Ids(B) \subseteq R
        /\ \A i \in DOMAIN B : \E p \in R : B[i] = past[p]
        /\ Twice(B, imported')
    <3> DEFINE F == {past[p] : p \in R}
    <3>1. /\ F \in SUBSET Agent /\ \A x, y \in F : x.id = y.id => x = y
          /\ \A x \in F : x.id \in R /\ \E p \in R : x = past[p]
      BY <1>1, <2>1
    <3>2. B = SetToSeq(F)
      OBVIOUS
    <3> HIDE DEF F, B, R
    <3>3. B \in Seq(Agent) /\ (\A i \in DOMAIN B : B[i] \in F) /\ Twice(B, imported')
      BY <3>1, <3>2, PeopleItems
    <3>4. (\A i \in DOMAIN B : \E p \in R : B[i] = past[p]) /\ Ids(B) \subseteq R
      BY <3>1, <3>3 DEF Ids
    <3> QED
      BY <3>3, <3>4
  <2>4. /\ agents' = e \o B /\ board' = OffBoard(board, L) \o Listed(B)
        /\ DOMAIN former' = (DOMAIN past \ R) \cup L
        /\ \A p \in L : former'[p] =
              agents[CHOOSE i \in DOMAIN agents : agents[i].id = p
                        /\ \A j \in DOMAIN agents : agents[j].id = p => j <= i]
        /\ \A p \in (DOMAIN past \ R) \ L : former'[p] = past[p]
        /\ imported' = imported \ L
        /\ stray' = stray \cup {past[p].rule : p \in R}
    <3>1. L = Leaving(end) /\ R = Returning(end, past) /\ B = SetToSeq({past[p] : p \in R})
      OBVIOUS
    <3>2. e = Except(agents, L)
      OBVIOUS
    <3> HIDE DEF L, R, B, e
    <3> QED
      BY <1>3, <3>1, <3>2 DEF Settled, Leaving, Returning, Listed
  <2> HIDE DEF L, R, B, e
  <2>5. agents' \in Seq(Agent) /\ board' = Listed(agents') /\ Ids(agents') = Ids(e) \cup Ids(B)
    BY <2>2, <2>3, <2>4, ListedJoined
  <2>6. \A p \in L : former'[p] \in Agent /\ former'[p].id = p
    <3> TAKE p \in L
    <3>1. \E i \in DOMAIN agents : agents[i].id = p
              /\ \A j \in DOMAIN agents : agents[j].id = p => j <= i
      BY <1>1, <2>1, LatestPlace
    <3>2. PICK i \in DOMAIN agents : agents[i].id = p /\ former'[p] = agents[i]
      BY <2>4, <3>1
    <3> QED
      BY <1>1, <3>2, AgentItems
  <2>7. DOMAIN former' \subseteq People
    BY <1>1, <2>1, <2>4, ListedType
  <2>8. \A p \in DOMAIN former' : former'[p] \in Agent /\ former'[p].id = p
    BY <1>1, <2>4, <2>6
  <2>9. Twice(e, imported')
    <3>1. \A k \in DOMAIN e : e[k].id \notin L
      BY <2>2 DEF Ids
    <3> QED
      BY <2>2, <2>4, <3>1 DEF Twice
  <2>10. Twice(agents', imported')
    <3>1. Ids(e) \cap Ids(B) \subseteq imported'
      BY <1>1, <2>1, <2>2, <2>3, <2>4
    <3> QED
      BY <2>2, <2>3, <2>4, <2>9, <3>1, TwiceJoined
  <2>11. Ids(agents') \cap DOMAIN former' \subseteq imported'
    BY <1>1, <2>1, <2>2, <2>3, <2>4, <2>5
  <2>12. imported' \subseteq People /\ stray \subseteq stray' /\ stray' \subseteq Rules \cup {NoRule}
    <3>1. \A p \in R : past[p].rule \in Rules \cup {NoRule}
      BY <1>1, <2>1 DEF Agent
    <3> QED
      BY <1>1, <2>4, <3>1
  <2>13. \A k \in DOMAIN agents' : \/ \E i \in DOMAIN agents : agents'[k] = agents[i]
                                   \/ agents'[k].rule \in stray'
    <3>1. \A i \in DOMAIN B : B[i].rule \in stray'
      BY <2>3, <2>4
    <3>2. \A k \in DOMAIN (e \o B) : \/ \E i \in DOMAIN e : (e \o B)[k] = e[i]
                                     \/ \E i \in DOMAIN B : (e \o B)[k] = B[i]
      BY <2>2, <2>3, JoinedItems
    <3> TAKE k \in DOMAIN agents'
    <3>3. CASE \E i \in DOMAIN e : agents'[k] = e[i]
      BY <2>2, <3>3
    <3>4. CASE \E i \in DOMAIN B : agents'[k] = B[i]
      BY <3>1, <3>4
    <3> QED
      BY <2>4, <3>2, <3>3, <3>4
  <2> QED
    BY <2>5, <2>7, <2>8, <2>10, <2>11, <2>12, <2>13
<1> QED
  BY <1>2, <1>3

-----------------------------------------------------------------------------
(* The roster and the board under every action *)

(* People who only change their rules are listed as before.                *)
LEMMA SamePeople ==
    ASSUME NEW s \in Seq(Agent), NEW t \in Seq(Agent), DOMAIN t = DOMAIN s,
           \A i \in DOMAIN s : t[i].id = s[i].id, NEW D, Twice(s, D)
    PROVE  Listed(t) = Listed(s) /\ Ids(t) = Ids(s) /\ Twice(t, D)
<1>1. Listed(t) = Listed(s)
  BY DEF Listed
<1>2. Ids(t) = Ids(s)
  BY DEF Ids
<1>3. Twice(t, D)
  BY DEF Twice
<1> QED
  BY <1>1, <1>2, <1>3

LEMMA RosterInitially == Init => RosterInv
<1> SUFFICES ASSUME Init PROVE RosterInv
  OBVIOUS
<1>1. agents = Newcomers(Staff) /\ board = Listed(agents) /\ DOMAIN former = {}
  BY DEF Init, Newcomers, Listed
<1>2. agents \in Seq(Agent) /\ Ids(agents) \subseteq Staff /\ Twice(agents, imported)
  BY <1>1, NewcomersItems, ConstantsAssumption
<1>3. board \in Seq(People)
  BY <1>1, <1>2, ListedType
<1>4. TypeOK
  BY <1>1, <1>2, <1>3, ConstantsAssumption DEF Init, TypeOK
<1> QED
  BY <1>1, <1>2, <1>4 DEF RosterInv

(* The parts of RosterInv after a step.                                    *)
LEMMA RosterParts ==
    ASSUME /\ agents' \in Seq(Agent) /\ board' = Listed(agents')
           /\ ends' \in [People -> Nat \cup {Never}]
           /\ DOMAIN former' \subseteq People
           /\ \A p \in DOMAIN former' : former'[p] \in Agent /\ former'[p].id = p
           /\ rules' \in [Rules -> Nat] /\ DOMAIN patterns' \subseteq Rules
           /\ today' \in 1..LastDay /\ ops' \in Nat
           /\ imported' \subseteq People /\ byHand' \subseteq Rules
           /\ stray' \subseteq Rules \cup {NoRule}
           /\ Twice(agents', imported') /\ Ids(agents') \cap DOMAIN former' \subseteq imported'
    PROVE  RosterInv'
<1>1. board' \in Seq(People)
  BY ListedType
<1>2. TypeOK'
  BY <1>1 DEF TypeOK
<1> QED
  BY <1>2 DEF RosterInv, Ids

LEMMA RosterHave ==
    ASSUME RosterInv
    PROVE  /\ agents \in Seq(Agent) /\ board = Listed(agents)
           /\ ends \in [People -> Nat \cup {Never}]
           /\ DOMAIN former \subseteq People
           /\ \A p \in DOMAIN former : former[p] \in Agent /\ former[p].id = p
           /\ rules \in [Rules -> Nat] /\ DOMAIN patterns \subseteq Rules
           /\ today \in 1..LastDay /\ ops \in Nat
           /\ imported \subseteq People /\ byHand \subseteq Rules
           /\ stray \subseteq Rules \cup {NoRule}
           /\ Twice(agents, imported) /\ Ids(agents) \cap DOMAIN former \subseteq imported
BY DEF RosterInv, TypeOK

LEMMA RosterAdd ==
    ASSUME RosterInv, NEW p \in People, NEW r \in Rules \cup {NoRule}, AddAgent(p, r)
    PROVE  RosterInv'
<1> DEFINE x == [id |-> p, rule |-> r]
           t == <<x>>
<1>1. /\ agents' = Append(agents, x) /\ board' = Append(board, p)
      /\ p \notin Ids(agents) /\ p \notin DOMAIN former
      /\ UNCHANGED <<ends, former, rules, patterns, today, imported, stray, byHand>>
      /\ ops' = ops + 1
  BY DEF AddAgent, Counted, Known
<1>2. t \in Seq(Agent) /\ Ids(t) = {p} /\ Listed(t) = <<p>> /\ Twice(t, imported)
  <2>1. x \in Agent
    BY DEF Agent
  <2>2. t \in Seq(Agent) /\ DOMAIN t = {1} /\ t[1].id = p
    BY <2>1
  <2>3. Listed(t) = <<p>>
    BY DEF Listed
  <2> HIDE DEF t
  <2> QED
    BY <2>2, <2>3 DEF Ids, Twice
<1>3. agents' = agents \o t /\ board' = board \o <<p>>
  <2>1. x \in Agent
    BY DEF Agent
  <2>2. board \in Seq(People) /\ agents \in Seq(Agent)
    BY DEF RosterInv, TypeOK
  <2> HIDE DEF x
  <2>3. Append(agents, x) = agents \o t
    BY <2>1, <2>2
  <2>4. Append(board, p) = board \o <<p>>
    BY <2>2
  <2> QED
    BY <1>1, <2>3, <2>4
<1> HIDE DEF t, x
<1>4. /\ agents \in Seq(Agent) /\ board = Listed(agents) /\ Twice(agents, imported)
      /\ Ids(agents) \cap Ids(t) = {}
  BY <1>1, <1>2, RosterHave
<1>5. agents' \in Seq(Agent) /\ board' = Listed(agents') /\ Ids(agents') = Ids(agents) \cup {p}
  <2>1. agents \in Seq(Agent) /\ t \in Seq(Agent)
    BY <1>2, <1>4
  <2>2. Listed(agents) \o Listed(t) = Listed(agents \o t) /\ Ids(agents \o t) = Ids(agents) \cup Ids(t)
    BY <2>1, ListedJoined
  <2>3. agents \o t \in Seq(Agent)
    BY <2>1
  <2> QED
    BY <1>2, <1>3, <1>4, <2>2, <2>3
<1>6. Twice(agents', imported)
  <2>1. Twice(agents \o t, imported)
    BY <1>2, <1>4, TwiceJoined
  <2> QED
    BY <1>3, <2>1
<1> QED
  BY <1>1, <1>5, <1>6, RosterHave, RosterParts

LEMMA SavedItems ==
    ASSUME RosterInv, NEW p
    PROVE  /\ DOMAIN SavedFormer(p) = DOMAIN former
           /\ \A q \in DOMAIN SavedFormer(p) : SavedFormer(p)[q] \in Agent /\ SavedFormer(p)[q].id = q
<1>1. p \in Ids(agents) => First(p) \in Agent /\ First(p).id = p
  BY RosterHave, FirstPlace, AgentItems
<1> QED
  BY <1>1, RosterHave DEF SavedFormer

LEMMA RosterSettled ==
    ASSUME RosterInv, NEW end, NEW past, Settled(end, past), DOMAIN past = DOMAIN former,
           \A p \in DOMAIN past : past[p] \in Agent /\ past[p].id = p,
           ends' \in [People -> Nat \cup {Never}],
           UNCHANGED <<rules, patterns, today, byHand>>, ops' \in Nat
    PROVE  RosterInv'
BY SettledRoster, RosterHave, RosterParts

LEMMA RosterDelete ==
    ASSUME RosterInv, NEW p \in People, DeleteEmployee(p)
    PROVE  RosterInv'
<1>1. /\ agents' = Except(agents, {p}) /\ board' = OffBoard(board, {p})
      /\ ends' = [ends EXCEPT ![p] = Never]
      /\ DOMAIN former' = DOMAIN former \ {p}
      /\ \A q \in DOMAIN former' : former'[q] = former[q]
      /\ imported' = imported \ {p} /\ ops' = ops + 1
      /\ UNCHANGED <<rules, patterns, today, stray, byHand>>
  BY DEF DeleteEmployee, Counted
<1>2. /\ agents' \in Seq(Agent) /\ Ids(agents') \subseteq Ids(agents) \ {p}
      /\ board' = Listed(agents') /\ Twice(agents', imported)
  BY <1>1, RosterHave, ExceptItems
<1>3. Twice(agents', imported')
  BY <1>1, <1>2 DEF Twice, Ids
<1>4. ends' \in [People -> Nat \cup {Never}] /\ ops' \in Nat
  BY <1>1, RosterHave
<1>5. Ids(agents') \cap DOMAIN former' \subseteq imported'
  BY <1>1, <1>2, RosterHave
<1>6. \A q \in DOMAIN former' : former'[q] \in Agent /\ former'[q].id = q
  BY <1>1, RosterHave
<1>7. DOMAIN former' \subseteq People /\ imported' \subseteq People
  BY <1>1, RosterHave
<1> QED
  BY <1>1, <1>2, <1>3, <1>4, <1>5, <1>6, <1>7, RosterHave, RosterParts

LEMMA RosterImport ==
    ASSUME RosterInv, NEW S \in SUBSET People, SetAgents(S)
    PROVE  RosterInv'
<1>1. /\ agents' = Newcomers(S) /\ board' = Listed(agents')
      /\ imported' = S \cap DOMAIN former /\ ops' = ops + 1
      /\ UNCHANGED <<ends, former, rules, patterns, today, stray, byHand>>
  BY DEF SetAgents, Counted, Newcomers, Listed
<1>2. agents' \in Seq(Agent) /\ Ids(agents') \subseteq S /\ Twice(agents', imported')
  BY <1>1, NewcomersItems
<1> QED
  BY <1>1, <1>2, RosterHave, RosterParts

LEMMA RosterRuled ==
    ASSUME RosterInv, NEW t \in Seq(Agent), DOMAIN t = DOMAIN agents,
           \A i \in DOMAIN agents : t[i].id = agents[i].id,
           NEW rs \in [Rules -> Nat], Counted, Ruled(t, rs)
    PROVE  RosterInv'
<1>1. /\ agents' = t /\ rules' = rs /\ DOMAIN patterns' \subseteq Rules
      /\ byHand' = {} /\ stray' = {} /\ ops' = ops + 1
      /\ UNCHANGED <<board, ends, former, today, imported>>
  BY DEF Ruled, Counted, WithRulePatterns
<1>2. Listed(t) = board /\ Ids(t) = Ids(agents) /\ Twice(t, imported)
  BY SamePeople, RosterHave
<1> QED
  BY <1>1, <1>2, RosterHave, RosterParts

(* The actions that leave the people alone.                                *)
LEMMA RosterStays ==
    ASSUME RosterInv, UNCHANGED <<agents, board, ends, former, imported, stray>>,
           rules' \in [Rules -> Nat], DOMAIN patterns' \subseteq Rules, byHand' \subseteq Rules,
           today' \in 1..LastDay, ops' \in Nat
    PROVE  RosterInv'
BY RosterHave, RosterParts

LEMMA RosterMidnight == RosterInv /\ Midnight => RosterInv'
<1> SUFFICES ASSUME RosterInv, Midnight PROVE RosterInv'
  OBVIOUS
<1>1. today' \in 1..LastDay
  BY RosterHave, ConstantsAssumption DEF Midnight
<1>2. /\ UNCHANGED <<agents, board, ends, former, imported, stray>>
      /\ rules' = rules /\ patterns' = patterns /\ byHand' = byHand /\ ops' = ops
  BY DEF Midnight
<1> QED
  BY <1>1, <1>2, RosterHave, RosterStays

LEMMA RosterNewRule ==
    ASSUME RosterInv, NEW r \in Rules, AddWorkRule(r)
    PROVE  RosterInv'
<1>1. /\ UNCHANGED <<agents, board, ends, former, imported, stray>>
      /\ rules' = [rules EXCEPT ![r] = 1] /\ ops' = ops + 1
      /\ patterns' = patterns /\ byHand' = byHand /\ today' = today
  BY DEF AddWorkRule, Counted
<1>2. rules' \in [Rules -> Nat]
  BY <1>1, RosterHave
<1> QED
  BY <1>1, <1>2, RosterHave, RosterStays

LEMMA RosterByHand ==
    ASSUME RosterInv, NEW r \in Rules, ChangePatternByHand(r)
    PROVE  RosterInv'
<1>1. /\ UNCHANGED <<agents, board, ends, former, imported, stray>>
      /\ rules' = rules /\ byHand' = byHand \cup {r} /\ today' = today /\ ops' = ops + 1
      /\ patterns' \in {[patterns EXCEPT ![r] = 0], [q \in DOMAIN patterns \ {r} |-> patterns[q]]}
  BY DEF ChangePatternByHand, Counted
<1>2. DOMAIN patterns' \subseteq DOMAIN patterns
  BY <1>1
<1> QED
  BY <1>1, <1>2, RosterHave, RosterStays

(* Swapped patterns are patterns of the two on the roster.                 *)
LEMMA SwapItems ==
    ASSUME RosterInv, NEW p, NEW q, Swap(p, q)
    PROVE  /\ agents' \in Seq(Agent) /\ DOMAIN agents' = DOMAIN agents
           /\ \A k \in DOMAIN agents : agents'[k].id = agents[k].id
           /\ \A k \in DOMAIN agents : \E i \in DOMAIN agents : agents'[k].rule = agents[i].rule
<1>1. agents \in Seq(Agent) /\ DOMAIN agents = 1 .. Len(agents) /\ Len(agents) \in Nat
  BY RosterHave
<1>2. agents' = [i \in DOMAIN agents |->
               CASE agents[i].id = p -> [agents[i] EXCEPT !.rule = First(q).rule]
                 [] agents[i].id = q -> [agents[i] EXCEPT !.rule = First(p).rule]
                 [] OTHER -> agents[i]]
  BY DEF Swap
<1>3. /\ \E i \in DOMAIN agents : First(p) = agents[i]
      /\ \E i \in DOMAIN agents : First(q) = agents[i]
  BY <1>1, FirstPlace DEF Swap
<1>4. \A k \in DOMAIN agents : /\ agents'[k] \in Agent /\ agents'[k].id = agents[k].id
                               /\ \E i \in DOMAIN agents : agents'[k].rule = agents[i].rule
  <2> TAKE k \in DOMAIN agents
  <2>1. agents[k] \in Agent /\ First(p) \in Agent /\ First(q) \in Agent
    BY <1>1, <1>3
  <2>2. CASE agents[k].id = p
    <3>1. agents'[k] = [agents[k] EXCEPT !.rule = First(q).rule]
      BY <1>2, <2>2
    <3> QED
      BY <1>3, <2>1, <3>1 DEF Agent
  <2>3. CASE agents[k].id # p /\ agents[k].id = q
    <3>1. agents'[k] = [agents[k] EXCEPT !.rule = First(p).rule]
      BY <1>2, <2>3
    <3> QED
      BY <1>3, <2>1, <3>1 DEF Agent
  <2>4. CASE agents[k].id # p /\ agents[k].id # q
    <3>1. agents'[k] = agents[k]
      BY <1>2, <2>4
    <3> QED
      BY <2>1, <3>1
  <2> QED
    BY <2>2, <2>3, <2>4
<1>5. DOMAIN agents' = 1 .. Len(agents)
  BY <1>1, <1>2
<1>6. agents' = [k \in 1 .. Len(agents) |-> agents'[k]]
  BY <1>1, <1>2
<1>7. agents' \in Seq(Agent)
  BY <1>1, <1>4, <1>6
<1> QED
  BY <1>1, <1>4, <1>5, <1>7

LEMMA RosterSwap ==
    ASSUME RosterInv, NEW p, NEW q, Swap(p, q)
    PROVE  RosterInv'
<1>1. /\ UNCHANGED <<board, ends, former, rules, patterns, today, imported, stray, byHand>>
      /\ ops' = ops + 1
  BY DEF Swap, Counted
<1>2. /\ agents \in Seq(Agent) /\ Twice(agents, imported)
      /\ agents' \in Seq(Agent) /\ DOMAIN agents' = DOMAIN agents
      /\ \A k \in DOMAIN agents : agents'[k].id = agents[k].id
  BY RosterHave, SwapItems
<1>3. Listed(agents') = Listed(agents) /\ Ids(agents') = Ids(agents) /\ Twice(agents', imported)
  BY <1>2, SamePeople
<1> QED
  BY <1>1, <1>2, <1>3, RosterHave, RosterParts

LEMMA OnRuleItems ==
    ASSUME NEW s \in Seq(Agent), NEW S, NEW r \in Rules \cup {NoRule}
    PROVE  /\ OnRule(s, S, r) \in Seq(Agent) /\ DOMAIN OnRule(s, S, r) = DOMAIN s
           /\ \A i \in DOMAIN s : OnRule(s, S, r)[i].id = s[i].id
<1> DEFINE t == OnRule(s, S, r)
<1>1. t = [i \in DOMAIN s |-> IF s[i].id \in S THEN [s[i] EXCEPT !.rule = r] ELSE s[i]]
  BY DEF OnRule
<1>2. \A i \in DOMAIN s : t[i] \in Agent /\ t[i].id = s[i].id
  <2> HIDE DEF t
  <2> TAKE i \in DOMAIN s
  <2>1. s[i] \in Agent
    OBVIOUS
  <2> QED
    BY <1>1, <2>1 DEF Agent
<1>3. DOMAIN s = 1 .. Len(s) /\ Len(s) \in Nat
  OBVIOUS
<1> HIDE DEF t
<1>4. DOMAIN t = DOMAIN s /\ t = [i \in 1 .. Len(s) |-> t[i]]
  BY <1>1, <1>3
<1>5. t \in Seq(Agent)
  BY <1>2, <1>3, <1>4
<1> QED
  BY <1>2, <1>4, <1>5 DEF t

LEMMA OffRuleItems ==
    ASSUME NEW s \in Seq(Agent), NEW r
    PROVE  /\ OffRule(s, r) \in Seq(Agent) /\ DOMAIN OffRule(s, r) = DOMAIN s
           /\ \A i \in DOMAIN s : OffRule(s, r)[i].id = s[i].id
<1> DEFINE t == OffRule(s, r)
<1>1. t = [i \in DOMAIN s |-> IF s[i].rule = r THEN [s[i] EXCEPT !.rule = NoRule] ELSE s[i]]
  BY DEF OffRule
<1>2. \A i \in DOMAIN s : t[i] \in Agent /\ t[i].id = s[i].id
  <2> HIDE DEF t
  <2> TAKE i \in DOMAIN s
  <2>1. s[i] \in Agent
    OBVIOUS
  <2> QED
    BY <1>1, <2>1 DEF Agent
<1>3. DOMAIN s = 1 .. Len(s) /\ Len(s) \in Nat
  OBVIOUS
<1> HIDE DEF t
<1>4. DOMAIN t = DOMAIN s /\ t = [i \in 1 .. Len(s) |-> t[i]]
  BY <1>1, <1>3
<1>5. t \in Seq(Agent)
  BY <1>2, <1>3, <1>4
<1> QED
  BY <1>2, <1>4, <1>5 DEF t

(* Rules or their assignments change, and patterns are made anew.          *)
RulesChange ==
    \E t \in Seq(Agent), rs \in [Rules -> Nat] :
        /\ DOMAIN t = DOMAIN agents /\ \A i \in DOMAIN agents : t[i].id = agents[i].id
        /\ Counted /\ Ruled(t, rs)

LEMMA ChangeOnRule ==
    ASSUME RosterInv, NEW S, NEW r \in Rules \cup {NoRule}, NEW rs \in [Rules -> Nat],
           Counted, Ruled(OnRule(agents, S, r), rs)
    PROVE  RulesChange
<1> DEFINE t == OnRule(agents, S, r)
<1>1. agents \in Seq(Agent)
  BY RosterHave
<1>2. /\ t \in Seq(Agent) /\ DOMAIN t = DOMAIN agents
      /\ \A i \in DOMAIN agents : t[i].id = agents[i].id
  BY <1>1, OnRuleItems
<1>3. Counted /\ Ruled(t, rs)
  OBVIOUS
<1> HIDE DEF t
<1> QED
  BY <1>2, <1>3 DEF RulesChange

LEMMA RulesChanged ==
    ASSUME RosterInv,
           \/ \E r \in Rules : UpdateWorkRule(r) \/ RemoveWorkRule(r)
           \/ \E S \in SUBSET People, r \in Rules \cup {NoRule} : AssignWorkRule(S, r)
           \/ \E S \in SUBSET People, r \in Rules : ImportWorkRules(S, r)
           \/ \E S \in SUBSET People, r \in Rules \cup {NoRule}, q \in Rules, version \in 0..3 :
                  ApplyServerSettings(S, r, q, version)
    PROVE  RulesChange
<1>1. agents \in Seq(Agent) /\ rules \in [Rules -> Nat]
  BY RosterHave
<1>2. CASE \E r \in Rules : UpdateWorkRule(r)
  <2>1. PICK r \in Rules : UpdateWorkRule(r)
    BY <1>2
  <2>2. Updated(rules, r) \in [Rules -> Nat]
    BY <1>1 DEF Updated
  <2> QED
    BY <1>1, <2>1, <2>2 DEF UpdateWorkRule, RulesChange
<1>3. CASE \E r \in Rules : RemoveWorkRule(r)
  <2>1. PICK r \in Rules : RemoveWorkRule(r)
    BY <1>3
  <2>2. [rules EXCEPT ![r] = 0] \in [Rules -> Nat]
    BY <1>1
  <2>3. Counted /\ Ruled(OffRule(agents, r), [rules EXCEPT ![r] = 0])
    BY <2>1 DEF RemoveWorkRule
  <2> QED
    BY <1>1, <2>2, <2>3, OffRuleItems DEF RulesChange
<1>4. CASE \E S \in SUBSET People, r \in Rules \cup {NoRule} : AssignWorkRule(S, r)
  BY <1>1, <1>4, ChangeOnRule DEF AssignWorkRule
<1>5. CASE \E S \in SUBSET People, r \in Rules : ImportWorkRules(S, r)
  <2>1. PICK S \in SUBSET People, r \in Rules : ImportWorkRules(S, r)
    BY <1>5
  <2>2. [rules EXCEPT ![r] = @ + 1] \in [Rules -> Nat]
    BY <1>1
  <2>3. Counted /\ Ruled(OnRule(agents, S, r), [rules EXCEPT ![r] = @ + 1])
    BY <2>1 DEF ImportWorkRules
  <2> QED
    BY <2>2, <2>3, ChangeOnRule
<1>6. CASE \E S \in SUBSET People, r \in Rules \cup {NoRule}, q \in Rules, version \in 0..3 :
               ApplyServerSettings(S, r, q, version)
  <2>1. PICK S \in SUBSET People, r \in Rules \cup {NoRule}, q \in Rules, version \in 0..3 :
            ApplyServerSettings(S, r, q, version)
    BY <1>6
  <2>2. [rules EXCEPT ![q] = version] \in [Rules -> Nat]
    BY <1>1
  <2>3. Counted /\ Ruled(OnRule(agents, S, r), [rules EXCEPT ![q] = version])
    BY <2>1 DEF ApplyServerSettings
  <2> QED
    BY <2>2, <2>3, ChangeOnRule
<1> QED
  BY <1>2, <1>3, <1>4, <1>5, <1>6

LEMMA RosterStep == RosterInv /\ [Next]_vars => RosterInv'
<1> SUFFICES ASSUME RosterInv, [Next]_vars PROVE RosterInv'
  OBVIOUS
<1>1. CASE \E p \in People, r \in Rules \cup {NoRule} : AddAgent(p, r)
  BY <1>1, RosterAdd
<1>2. CASE \E p \in People, end \in {Never} \cup 0..LastDay : SaveEmployeeProfile(p, end)
  <2>1. PICK p \in People, end \in {Never} \cup 0..LastDay : SaveEmployeeProfile(p, end)
    BY <1>2
  <2>2. ends' \in [People -> Nat \cup {Never}] /\ ops' \in Nat
    <3>1. ends' = [ends EXCEPT ![p] = end] /\ ops' = ops + 1
      BY <2>1 DEF SaveEmployeeProfile, Counted
    <3>2. end \in Nat \cup {Never}
      BY ConstantsAssumption
    <3> QED
      BY <3>1, <3>2, RosterHave
  <2>3. Settled(ends', SavedFormer(p)) /\ UNCHANGED <<rules, patterns, today, byHand>>
    BY <2>1 DEF SaveEmployeeProfile
  <2> QED
    BY <2>2, <2>3, SavedItems, RosterSettled
<1>3. CASE SettleEmployment
  <2>1. Settled(ends, former) /\ UNCHANGED <<rules, patterns, today, byHand>>
    BY <1>3 DEF SettleEmployment
  <2>2. ends' \in [People -> Nat \cup {Never}] /\ ops' \in Nat
    BY <1>3, RosterHave DEF SettleEmployment
  <2> QED
    BY <2>1, <2>2, RosterHave, RosterSettled
<1>4. CASE Midnight
  BY <1>4, RosterMidnight
<1>5. CASE \E p \in People : DeleteEmployee(p)
  BY <1>5, RosterDelete
<1>6. CASE \E S \in (SUBSET People) \ {{}} : SetAgents(S)
  BY <1>6, RosterImport
<1>7. CASE \E r \in Rules : AddWorkRule(r)
  BY <1>7, RosterNewRule
<1>8. CASE RulesChange
  BY <1>8, RosterRuled DEF RulesChange
<1>9. CASE \E r \in Rules : ChangePatternByHand(r)
  BY <1>9, RosterByHand
<1>10. CASE \E p, q \in People : Swap(p, q)
  BY <1>10, RosterSwap
<1>11. CASE UNCHANGED vars
  <2>1. /\ UNCHANGED <<agents, board, ends, former, imported, stray>>
        /\ rules' = rules /\ patterns' = patterns /\ byHand' = byHand
        /\ today' = today /\ ops' = ops
    BY <1>11 DEF vars
  <2> QED
    BY <2>1, RosterHave, RosterStays
<1>12. CASE \/ \E r \in Rules : UpdateWorkRule(r) \/ RemoveWorkRule(r)
            \/ \E S \in SUBSET People, r \in Rules \cup {NoRule} : AssignWorkRule(S, r)
            \/ \E S \in SUBSET People, r \in Rules : ImportWorkRules(S, r)
            \/ \E S \in SUBSET People, r \in Rules \cup {NoRule}, q \in Rules, version \in 0..3 :
                   ApplyServerSettings(S, r, q, version)
  BY <1>8, <1>12, RulesChanged
<1> QED
  BY <1>1, <1>2, <1>3, <1>4, <1>5, <1>6, <1>7, <1>9, <1>10, <1>11, <1>12 DEF Next

-----------------------------------------------------------------------------
(* Patterns under every action *)

LEMMA PatternInitially == Init => PatternInv
<1> SUFFICES ASSUME Init PROVE PatternInv
  OBVIOUS
<1>1. agents = Newcomers(Staff) /\ DOMAIN patterns = {}
  BY DEF Init, Newcomers
<1>2. \A i \in DOMAIN agents : agents[i].rule = NoRule
  BY <1>1, NewcomersItems, ConstantsAssumption
<1> QED
  BY <1>1, <1>2 DEF PatternInv, PatternsFollowRules, OnARule

(* Where rules and patterns stay, it is enough that everybody on the roster*)
(* is on a rule somebody was on, or on none, or on one there is a pattern  *)
(* of, or has brought it back.                                             *)
LEMMA PatternStays ==
    ASSUME PatternInv,
           rules' = rules, patterns' = patterns, byHand' = byHand, stray \subseteq stray',
           \A k \in DOMAIN agents' :
               \/ \E i \in DOMAIN agents : agents'[k].rule = agents[i].rule
               \/ agents'[k].rule \in {NoRule} \cup DOMAIN patterns \cup stray'
    PROVE  PatternInv'
<1>1. \A r \in DOMAIN patterns : rules[r] # 0 /\ (r \notin byHand => patterns[r] = rules[r])
  BY DEF PatternInv
<1>2. \A i \in DOMAIN agents :
         agents[i].rule # NoRule /\ rules[agents[i].rule] # 0
         /\ agents[i].rule \notin byHand \cup stray
         => agents[i].rule \in DOMAIN patterns /\ patterns[agents[i].rule] = rules[agents[i].rule]
  BY DEF PatternInv, PatternsFollowRules, OnARule, Fresh
<1>3. ASSUME NEW k \in DOMAIN agents', agents'[k].rule # NoRule, rules[agents'[k].rule] # 0,
             agents'[k].rule \notin byHand \cup stray'
      PROVE  agents'[k].rule \in DOMAIN patterns /\ patterns[agents'[k].rule] = rules[agents'[k].rule]
  <2>1. CASE \E i \in DOMAIN agents : agents'[k].rule = agents[i].rule
    BY <1>2, <1>3, <2>1
  <2>2. CASE agents'[k].rule \in DOMAIN patterns
    BY <1>1, <1>3, <2>2
  <2> QED
    BY <1>3, <2>1, <2>2
<1> QED
  BY <1>1, <1>3 DEF PatternInv, PatternsFollowRules, OnARule, Fresh

LEMMA PatternMade ==
    ASSUME NEW t \in Seq(Agent), NEW rs \in [Rules -> Nat], Ruled(t, rs)
    PROVE  PatternInv'
<1> DEFINE K == {t[i].rule : i \in DOMAIN t} \cap {r \in Rules : rs[r] # 0}
<1>1. agents' = t /\ rules' = rs /\ patterns' = [r \in K |-> rs[r]] /\ byHand' = {} /\ stray' = {}
  BY DEF Ruled, WithRulePatterns
<1>2. \A r \in K : rs[r] # 0
  OBVIOUS
<1>3. \A i \in DOMAIN t : t[i].rule # NoRule /\ rs[t[i].rule] # 0 => t[i].rule \in K
  BY AgentItems
<1> HIDE DEF K
<1> QED
  BY <1>1, <1>2, <1>3 DEF PatternInv, PatternsFollowRules, OnARule, Fresh

LEMMA PatternNewRule ==
    ASSUME RosterInv, PatternInv, NEW r \in Rules, AddWorkRule(r)
    PROVE  PatternInv'
<1>1. /\ rules[r] = 0 /\ rules' = [rules EXCEPT ![r] = 1]
      /\ \A i \in DOMAIN agents : agents[i].rule # r
      /\ agents' = agents /\ patterns' = patterns /\ byHand' = byHand /\ stray' = stray
  BY DEF AddWorkRule, Unused
<1>2. rules \in [Rules -> Nat] /\ DOMAIN patterns \subseteq Rules
  BY RosterHave
<1>3. \A q : q # r => rules'[q] = rules[q]
  BY <1>1, <1>2
<1>4. r \notin DOMAIN patterns
  BY <1>1 DEF PatternInv
<1> QED
  BY <1>1, <1>3, <1>4 DEF PatternInv, PatternsFollowRules, OnARule, Fresh

LEMMA PatternByHand ==
    ASSUME PatternInv, NEW r \in Rules, ChangePatternByHand(r)
    PROVE  PatternInv'
<1>1. /\ rules' = rules /\ agents' = agents /\ stray' = stray /\ byHand' = byHand \cup {r}
      /\ r \in DOMAIN patterns
      /\ patterns' \in {[patterns EXCEPT ![r] = 0], [q \in DOMAIN patterns \ {r} |-> patterns[q]]}
  BY DEF ChangePatternByHand
<1>2. /\ DOMAIN patterns' \subseteq DOMAIN patterns
      /\ \A q \in DOMAIN patterns : q # r => q \in DOMAIN patterns' /\ patterns'[q] = patterns[q]
  BY <1>1
<1> QED
  BY <1>1, <1>2 DEF PatternInv, PatternsFollowRules, OnARule, Fresh

LEMMA PatternStep == RosterInv /\ PatternInv /\ [Next]_vars => PatternInv'
<1> SUFFICES ASSUME RosterInv, PatternInv, [Next]_vars PROVE PatternInv'
  OBVIOUS
<1> DEFINE Quiet == rules' = rules /\ patterns' = patterns /\ byHand' = byHand
<1>1. CASE \E p \in People, r \in Rules \cup {NoRule} : AddAgent(p, r)
  <2>1. PICK p \in People, r \in {NoRule} \cup DOMAIN patterns : AddAgent(p, r)
    BY <1>1 DEF AddAgent
  <2>2. Quiet /\ stray' = stray /\ agents' = Append(agents, [id |-> p, rule |-> r])
    BY <2>1 DEF AddAgent
  <2>3. agents \in Seq(Agent) /\ [id |-> p, rule |-> r] \in Agent
    BY RosterHave DEF Agent
  <2>4. \A k \in DOMAIN agents' : \/ \E i \in DOMAIN agents : agents'[k].rule = agents[i].rule
                                  \/ agents'[k].rule = r
    BY <2>2, <2>3
  <2> QED
    BY <2>2, <2>4, PatternStays
<1>2. ASSUME NEW end, NEW past, Settled(end, past), Quiet, DOMAIN past = DOMAIN former,
             \A p \in DOMAIN past : past[p] \in Agent /\ past[p].id = p
      PROVE  PatternInv'
  BY <1>2, SettledRoster, PatternStays
<1>3. CASE \E p \in People, end \in {Never} \cup 0..LastDay : SaveEmployeeProfile(p, end)
  BY <1>2, <1>3, SavedItems DEF SaveEmployeeProfile
<1>4. CASE SettleEmployment
  BY <1>2, <1>4, RosterHave DEF SettleEmployment
<1>5. CASE \E p \in People : DeleteEmployee(p)
  <2>1. PICK p \in People : agents' = Except(agents, {p}) /\ Quiet /\ stray' = stray
    BY <1>5 DEF DeleteEmployee
  <2>2. \A k \in DOMAIN agents' : \E i \in DOMAIN agents : agents'[k] = agents[i]
    BY <2>1, RosterHave, ExceptItems
  <2> QED
    BY <2>1, <2>2, PatternStays
<1>6. CASE \E S \in (SUBSET People) \ {{}} : SetAgents(S)
  <2>1. PICK S \in SUBSET People : agents' = Newcomers(S) /\ Quiet /\ stray' = stray
    BY <1>6 DEF SetAgents, Newcomers
  <2>2. \A k \in DOMAIN agents' : agents'[k].rule = NoRule
    BY <2>1, NewcomersItems
  <2> QED
    BY <2>1, <2>2, PatternStays
<1>7. CASE Midnight
  BY <1>7, PatternStays DEF Midnight
<1>8. CASE \E r \in Rules : AddWorkRule(r)
  BY <1>8, PatternNewRule
<1>9. CASE RulesChange
  BY <1>9, PatternMade DEF RulesChange
<1>10. CASE \E r \in Rules : ChangePatternByHand(r)
  BY <1>10, PatternByHand
<1>11. CASE \E p, q \in People : Swap(p, q)
  <2>1. PICK p \in People, q \in People : Swap(p, q)
    BY <1>11
  <2>2. Quiet /\ stray' = stray
    BY <2>1 DEF Swap
  <2> QED
    BY <2>1, <2>2, SwapItems, PatternStays
<1>12. CASE UNCHANGED vars
  BY <1>12, PatternStays DEF vars
<1>13. CASE \/ \E r \in Rules : UpdateWorkRule(r) \/ RemoveWorkRule(r)
            \/ \E S \in SUBSET People, r \in Rules \cup {NoRule} : AssignWorkRule(S, r)
            \/ \E S \in SUBSET People, r \in Rules : ImportWorkRules(S, r)
            \/ \E S \in SUBSET People, r \in Rules \cup {NoRule}, q \in Rules, version \in 0..3 :
                   ApplyServerSettings(S, r, q, version)
  BY <1>9, <1>13, RulesChanged
<1> QED
  BY <1>1, <1>3, <1>4, <1>5, <1>6, <1>7, <1>8, <1>10, <1>11, <1>12, <1>13 DEF Next

-----------------------------------------------------------------------------
(* Theorems *)

(* The types of all variables, through every hire, departure, import and   *)
(* rule change (wfm.ts:173-203, 659-974).                                  *)
THEOREM TypeCorrect == Spec => []TypeOK
<1>1. RosterInv => TypeOK
  BY DEF RosterInv
<1> QED
  BY <1>1, RosterInitially, RosterStep, PTL DEF Spec

(* The real-time board shows the roster and nobody else, however people    *)
(* leave, come back, are imported, hired and deleted; only an import of    *)
(* people who have left puts somebody on the roster twice, or leaves them  *)
(* among those who have left (wfm.ts:173-203, 659-742, 755-760).           *)
THEOREM BoardFollowsRoster == Spec => []BoardIsRoster
<1>1. RosterInv => BoardIsRoster
  <2> SUFFICES ASSUME RosterInv PROVE BoardIsRoster
    OBVIOUS
  <2>1. /\ agents \in Seq(Agent) /\ board = Listed(agents) /\ Twice(agents, imported)
        /\ Ids(agents) \cap DOMAIN former \subseteq imported
    BY RosterHave
  <2>2. Len(board) = Len(agents)
    BY <2>1, ListedType
  <2>3. {board[i] : i \in DOMAIN board} = Ids(agents)
    BY <2>1 DEF Listed, Ids
  <2> QED
    BY <2>1, <2>2, <2>3 DEF BoardIsRoster, Twice
<1> QED
  BY <1>1, RosterInitially, RosterStep, PTL DEF Spec

(* Whoever is on a work rule has a pattern made from that rule as it is    *)
(* now, whatever order rules are added, changed, removed, assigned,        *)
(* imported and loaded in; a pattern changed by hand, or a rule somebody   *)
(* came back on, waits for the next change of a rule (wfm.ts:295-305,      *)
(* 844-974).                                                               *)
THEOREM PatternsAreMade == Spec => []PatternsFollowRules
<1>1. PatternInv => PatternsFollowRules
  BY DEF PatternInv
<1>2. Init => RosterInv /\ PatternInv
  BY RosterInitially, PatternInitially
<1>3. (RosterInv /\ PatternInv) /\ [Next]_vars => (RosterInv /\ PatternInv)'
  BY RosterStep, PatternStep
<1> QED
  BY <1>1, <1>2, <1>3, PTL DEF Spec
=============================================================================
