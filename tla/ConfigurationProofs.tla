------------------------- MODULE ConfigurationProofs -------------------------
(***************************************************************************)
(* Proofs about Configuration, for every set of configurations and lists,  *)
(* every size of the tables and any number of calls.                       *)
(***************************************************************************)
EXTENDS Configuration, FiniteSetTheorems, TLAPS

----------------------------------------------------------------------------
(* Numbering.                                                              *)

\* A number comes after as many as are smaller, and that grows with the number.
LEMMA RankGrows ==
  ASSUME NEW S \in SUBSET Nat, IsFiniteSet(S)
  PROVE  /\ Cardinality(S) \in Nat
         /\ \A n \in S : Cardinality({m \in S : m < n}) \in 0..(Cardinality(S) - 1)
         /\ \A a, b \in S : a < b => Cardinality({m \in S : m < a})
                                       < Cardinality({m \in S : m < b})
<1> DEFINE Below(n) == {m \in S : m < n}
<1>1. Cardinality(S) \in Nat
  BY FS_CardinalityType
<1>2. \A n \in S : /\ IsFiniteSet(Below(n)) /\ Cardinality(Below(n)) \in Nat
                   /\ Cardinality(Below(n)) < Cardinality(S)
  <2> TAKE n \in S
  <2>1. Below(n) \in SUBSET S /\ Below(n) # S
    OBVIOUS
  <2>2. IsFiniteSet(Below(n)) /\ Cardinality(Below(n)) <= Cardinality(S)
        /\ Cardinality(Below(n)) # Cardinality(S)
    BY <2>1, FS_Subset
  <2>3. Cardinality(Below(n)) \in Nat
    BY <2>2, FS_CardinalityType
  <2> HIDE DEF Below
  <2> QED
    BY <1>1, <2>2, <2>3
<1>3. \A a, b \in S : a < b => Cardinality(Below(a)) < Cardinality(Below(b))
  <2> SUFFICES ASSUME NEW a \in S, NEW b \in S, a < b
               PROVE  Cardinality(Below(a)) < Cardinality(Below(b))
    OBVIOUS
  <2>1. a \in Nat /\ b \in Nat
    OBVIOUS
  <2>2. a \in Below(b) /\ a \notin Below(a)
    BY <2>1
  <2>3. \A m \in Below(a) : m \in Below(b)
    BY <2>1
  <2> HIDE DEF Below
  <2>4. Below(a) \in SUBSET Below(b) /\ Below(a) # Below(b)
    BY <2>2, <2>3
  <2>5. Cardinality(Below(a)) <= Cardinality(Below(b))
        /\ Cardinality(Below(a)) # Cardinality(Below(b))
    BY <1>2, <2>4, FS_Subset
  <2> QED
    BY <1>2, <2>5
<1> HIDE DEF Below
<1>4. \A n \in S : Cardinality(Below(n)) \in 0..(Cardinality(S) - 1)
  BY <1>1, <1>2
<1> QED
  BY <1>1, <1>3, <1>4 DEF Below

\* Each place from 1 on is taken by the number with that many before it.
LEMMA Ranks ==
  ASSUME NEW S \in SUBSET Nat, IsFiniteSet(S), NEW i \in 1..Cardinality(S)
  PROVE  \E n \in S : Cardinality({m \in S : m < n}) = i - 1
<1> DEFINE Below(n) == {m \in S : m < n}
           Places == 0..(Cardinality(S) - 1)
           rank == [n \in S |-> Cardinality(Below(n))]
<1>1. Cardinality(S) \in Nat
  BY FS_CardinalityType
<1>2. /\ \A n \in S : Cardinality(Below(n)) \in Places
      /\ \A a, b \in S : a < b => Cardinality(Below(a)) < Cardinality(Below(b))
  BY RankGrows
<1>3. \A a, b \in S : a < b => Cardinality(Below(a)) # Cardinality(Below(b))
  <2> HIDE DEF Below
  <2> QED
    BY <1>2
<1>4. IsFiniteSet(Places) /\ Cardinality(Places) = Cardinality(S)
  <2>1. Cardinality(S) - 1 \in Int /\ 0 \in Int
    BY <1>1
  <2>2. /\ IsFiniteSet(Places)
        /\ Cardinality(Places) = IF 0 > Cardinality(S) - 1 THEN 0
                                 ELSE Cardinality(S) - 1 - 0 + 1
    BY <2>1, FS_Interval
  <2> HIDE DEF Places
  <2> QED
    BY <1>1, <2>2
<1>5. rank \in [S -> Places]
  <2> HIDE DEF Below
  <2> QED
    BY <1>1, <1>2
<1>6. \A a, b \in S : rank[a] = rank[b] => a = b
  <2> SUFFICES ASSUME NEW a \in S, NEW b \in S, rank[a] = rank[b] PROVE a = b
    OBVIOUS
  <2>1. Cardinality(Below(a)) = Cardinality(Below(b))
    OBVIOUS
  <2>2. ~(a < b) /\ ~(b < a)
    BY <1>3, <2>1
  <2> QED
    BY <2>2
<1> HIDE DEF rank, Places
<1>7. rank \in Injection(S, Places)
  BY <1>5, <1>6 DEF Injection, IsInjective
<1>8. rank \in Surjection(S, Places)
  BY <1>4, <1>7, FS_Injection
<1>9. i - 1 \in Places
  BY <1>1 DEF Places
<1>10. \E n \in S : rank[n] = i - 1
  BY <1>8, <1>9 DEF Surjection
<1> QED
  BY <1>10 DEF rank

\* The number with all others before it is the greatest.
LEMMA Greatest ==
  ASSUME NEW S \in SUBSET Nat, IsFiniteSet(S), S # {}
  PROVE  \E n \in S : \A m \in S : m <= n
<1> DEFINE Below(n) == {m \in S : m < n}
           size == Cardinality(S)
<1>1. size \in Nat /\ size # 0
  BY FS_CardinalityType, FS_EmptySet
<1>2. PICK n \in S : Cardinality(Below(n)) = size - 1
  <2>1. size \in 1..size
    BY <1>1
  <2> QED
    BY <2>1, Ranks
<1>3. ASSUME NEW m \in S, n < m PROVE FALSE
  <2>1. /\ Cardinality(Below(m)) \in 0..(size - 1)
        /\ Cardinality(Below(n)) < Cardinality(Below(m))
    BY <1>3, RankGrows
  <2> HIDE DEF Below, size
  <2> QED
    BY <1>1, <1>2, <2>1
<1> QED
  BY <1>2, <1>3

\* Ascending lists each element of the set once.
LEMMA AscendingLists ==
  ASSUME NEW S \in SUBSET Nat, IsFiniteSet(S)
  PROVE  /\ Cardinality(S) \in Nat
         /\ Ascending(S) \in [1..Cardinality(S) -> S]
         /\ \A i, j \in 1..Cardinality(S) :
              Ascending(S)[i] = Ascending(S)[j] => i = j
<1>1. Cardinality(S) \in Nat
  BY FS_CardinalityType
<1> DEFINE Rank(n) == Cardinality({m \in S : m < n})
<1>2. \A i \in 1..Cardinality(S) : \E n \in S : Rank(n) = i - 1
  BY Ranks
<1>3. Ascending(S) = [i \in 1..Cardinality(S) |-> CHOOSE n \in S : Rank(n) = i - 1]
  BY DEF Ascending
<1> HIDE DEF Rank
<1>4. \A i \in 1..Cardinality(S) :
        Ascending(S)[i] \in S /\ Rank(Ascending(S)[i]) = i - 1
  BY <1>2, <1>3
<1>5. Ascending(S) \in [1..Cardinality(S) -> S]
  BY <1>3, <1>4
<1>6. \A i, j \in 1..Cardinality(S) :
        Ascending(S)[i] = Ascending(S)[j] => i = j
  BY <1>1, <1>4
<1> QED
  BY <1>1, <1>5, <1>6

\* The first n of an ascending list are the n smallest.
LEMMA AscendingTakesLeast ==
  ASSUME NEW S \in SUBSET Nat, IsFiniteSet(S), NEW n \in 0..Cardinality(S)
  PROVE  LET T == {Ascending(S)[i] : i \in 1..n}
         IN  /\ T \subseteq S
             /\ \A x \in S \ T : n < Cardinality(S) /\ \A m \in T : m < x
<1> DEFINE Rank(x) == Cardinality({m \in S : m < x})
           T == {Ascending(S)[i] : i \in 1..n}
<1>1. /\ Cardinality(S) \in Nat
      /\ \A x \in S : Rank(x) \in 0..(Cardinality(S) - 1)
      /\ \A x, y \in S : x < y => Rank(x) < Rank(y)
  BY RankGrows
<1>2. \A i \in 1..Cardinality(S) : \E x \in S : Rank(x) = i - 1
  BY Ranks
<1>3. Ascending(S) = [i \in 1..Cardinality(S) |-> CHOOSE x \in S : Rank(x) = i - 1]
  BY DEF Ascending
<1> HIDE DEF Rank
<1>4. \A i \in 1..Cardinality(S) :
        Ascending(S)[i] \in S /\ Rank(Ascending(S)[i]) = i - 1
  BY <1>2, <1>3
<1>5. \A i \in 1..n : i \in 1..Cardinality(S)
  BY <1>1
<1>6. T \subseteq S
  BY <1>4, <1>5
<1>7. ASSUME NEW x \in S \ T PROVE Rank(x) >= n
  <2> SUFFICES ASSUME Rank(x) < n PROVE FALSE
    BY <1>1
  <2> DEFINE i == Rank(x) + 1
  <2>1. i \in 1..n /\ Rank(x) = i - 1
    BY <1>1
  <2> HIDE DEF i
  <2>2. /\ Ascending(S)[i] \in S /\ Rank(Ascending(S)[i]) = Rank(x)
        /\ Ascending(S)[i] \in T
    BY <1>4, <1>5, <2>1
  <2>3. ~(Ascending(S)[i] < x) /\ ~(x < Ascending(S)[i])
    BY <1>1, <2>2
  <2>4. Ascending(S)[i] = x
    BY <2>2, <2>3
  <2> QED
    BY <2>2, <2>4
<1>8. ASSUME NEW x \in S \ T, NEW m \in T PROVE m < x
  <2>1. PICK i \in 1..n : m = Ascending(S)[i]
    OBVIOUS
  <2>2. m \in S /\ Rank(m) = i - 1 /\ i <= n
    BY <1>4, <1>5, <2>1
  <2>3. Rank(m) < Rank(x)
    BY <1>1, <1>7, <2>2
  <2>4. ~(x < m) /\ x # m
    BY <1>1, <2>2, <2>3
  <2> QED
    BY <2>2, <2>4
<1>9. \A x \in S \ T : n < Cardinality(S)
  BY <1>1, <1>7
<1> HIDE DEF T
<1> QED
  BY <1>6, <1>8, <1>9 DEF T

\* A function on an initial segment is a sequence.
LEMMA FunctionIsSeq ==
  ASSUME NEW T, NEW n \in Nat, NEW s \in [1..n -> T]
  PROVE  s \in Seq(T) /\ Len(s) = n
OBVIOUS

\* No value comes twice.
Distinct(s) == \A i, j \in DOMAIN s : s[i] = s[j] => i = j

\* A table of BitsFor many entries: its size, its type, and no number twice.
LEMMA TableIsDistinct ==
  ASSUME NEW S \in SUBSET (0..MaxNumber), NEW limit \in Nat \ {0}
  PROVE  LET n == Least(limit, Most(1, Cardinality(S)))
             s == Resize(Ascending(S), n)
         IN  /\ n \in 1..limit /\ s \in Seq(0..MaxNumber) /\ Len(s) = n
             /\ Distinct(s)
<1> DEFINE n == Least(limit, Most(1, Cardinality(S)))
           s == Resize(Ascending(S), n)
<1>1. S \in SUBSET Nat /\ IsFiniteSet(S)
  <2>1. MaxNumber \in Int /\ 0 \in Int
    BY BoundAssumption
  <2>2. IsFiniteSet(0..MaxNumber)
    BY <2>1, FS_Interval
  <2>3. IsFiniteSet(S)
    BY <2>2, FS_Subset
  <2> QED
    BY <2>3
<1>2. /\ Cardinality(S) \in Nat
      /\ Ascending(S) \in [1..Cardinality(S) -> S]
      /\ \A i, j \in 1..Cardinality(S) :
           Ascending(S)[i] = Ascending(S)[j] => i = j
  BY <1>1, AscendingLists
<1>3. n \in 1..limit /\ (Cardinality(S) > 0 => n <= Cardinality(S))
      /\ (Cardinality(S) = 0 => n = 1)
  BY <1>2 DEF Least, Most
<1> HIDE DEF n
<1>4. Len(Ascending(S)) = Cardinality(S)
  BY <1>2, FunctionIsSeq
<1>5. s = [i \in 1..n |-> IF i <= Cardinality(S) THEN Ascending(S)[i] ELSE 0]
  BY <1>4 DEF Resize
<1> HIDE DEF s
<1>6. \A i \in 1..n : s[i] \in 0..MaxNumber
  <2> TAKE i \in 1..n
  <2>1. CASE i <= Cardinality(S)
    <3>1. i \in 1..Cardinality(S)
      BY <1>2, <1>3, <2>1
    <3>2. Ascending(S)[i] \in S
      BY <1>2, <3>1
    <3> QED
      BY <1>5, <2>1, <3>2
  <2>2. CASE ~(i <= Cardinality(S))
    <3>1. s[i] = 0
      BY <1>5, <2>2
    <3> QED
      BY <3>1, BoundAssumption
  <2> QED
    BY <2>1, <2>2
<1>7. s \in Seq(0..MaxNumber) /\ Len(s) = n
  <2>1. n \in Nat
    BY <1>3
  <2>2. s \in [1..n -> 0..MaxNumber]
    BY <1>5, <1>6
  <2> QED
    BY <2>1, <2>2, FunctionIsSeq
<1>8. Distinct(s)
  <2>1. DOMAIN s = 1..n
    BY <1>5
  <2>2. CASE Cardinality(S) = 0
    BY <1>3, <2>1, <2>2 DEF Distinct
  <2>3. CASE Cardinality(S) # 0
    <3>1. n <= Cardinality(S)
      BY <1>2, <1>3, <2>3
    <3>2. \A i \in 1..n : s[i] = Ascending(S)[i] /\ i \in 1..Cardinality(S)
      BY <1>2, <1>3, <1>5, <3>1
    <3> QED
      BY <1>2, <2>1, <3>2 DEF Distinct
  <2> QED
    BY <2>2, <2>3
<1> QED
  BY <1>3, <1>7, <1>8 DEF n, s

\* In such a table number and index lead to each other.
LEMMA IndexIsInverse ==
  ASSUME NEW T, NEW s \in Seq(T), Distinct(s)
  PROVE  \A i \in DOMAIN s : NumberToIndex(s)[s[i]] = i
<1> TAKE i \in DOMAIN s
<1> DEFINE Is(j) == s[j] = s[i] /\ \A l \in DOMAIN s : s[l] = s[i] => l <= j
<1>1. DOMAIN s \subseteq Nat
  OBVIOUS
<1>2. Is(i)
  BY <1>1 DEF Distinct
<1>3. \A j \in DOMAIN s : Is(j) => j = i
  BY DEF Distinct
<1>4. s[i] \in Elements(s)
  BY DEF Elements
<1>5. NumberToIndex(s)[s[i]] = CHOOSE j \in DOMAIN s : Is(j)
  BY <1>4 DEF NumberToIndex
<1> HIDE DEF Is
<1> QED
  BY <1>2, <1>3, <1>5

----------------------------------------------------------------------------
(* Types.                                                                  *)

LEMMA SeqFacts ==
  ASSUME NEW T, NEW s \in Seq(T)
  PROVE  Len(s) \in Nat /\ DOMAIN s = 1..Len(s) /\ \A i \in DOMAIN s : s[i] \in T
OBVIOUS

LEMMA SeqWidens ==
  ASSUME NEW S, NEW T, S \subseteq T, NEW s \in Seq(S)
  PROVE  s \in Seq(T)
<1>1. Len(s) \in Nat /\ s \in [1..Len(s) -> S]
  OBVIOUS
<1>2. s \in [1..Len(s) -> T]
  BY <1>1
<1> QED
  BY <1>1, <1>2, FunctionIsSeq

LEMMA AppendType ==
  ASSUME NEW T, NEW s \in Seq(T), NEW x \in T
  PROVE  Append(s, x) \in Seq(T) /\ Len(Append(s, x)) = Len(s) + 1
OBVIOUS

LEMMA ElementsType ==
  ASSUME NEW T, NEW s \in Seq(T)
  PROVE  Elements(s) \subseteq T
BY DEF Elements

LEMMA LastPlace ==
  ASSUME NEW S, NEW s \in Seq(S), NEW e \in Elements(s)
  PROVE  \E j \in DOMAIN s : s[j] = e /\ \A l \in DOMAIN s : s[l] = e => l <= j
<1> DEFINE places == {j \in DOMAIN s : s[j] = e}
<1>1. DOMAIN s = 1..Len(s) /\ Len(s) \in Nat
  OBVIOUS
<1>2. IsFiniteSet(DOMAIN s)
  BY <1>1, FS_Interval
<1>3. places \in SUBSET Nat /\ IsFiniteSet(places)
  BY <1>1, <1>2, FS_Subset
<1>4. places # {}
  BY DEF Elements
<1>5. \E j \in places : \A l \in places : l <= j
  BY <1>3, <1>4, Greatest
<1> QED
  BY <1>5

LEMMA SwitchType ==
  ASSUME NEW c \in Configs, NEW s \in Elements(c.switches)
  PROVE  s.number \in Nat /\ s.board \in BoardNumbers
<1>1. c.switches \in Seq([number : Nat, board : BoardNumbers, button : BOOLEAN])
  BY ConfigAssumption DEF ConfigType
<1>2. s \in [number : Nat, board : BoardNumbers, button : BOOLEAN]
  BY <1>1, ElementsType
<1> QED
  BY <1>2

LEMMA OutputType ==
  ASSUME NEW c \in Configs, NEW o \in c.outputs
  PROVE  o.number \in Nat /\ o.board \in BoardNumbers
<1>1. c.outputs \in SUBSET [kind : {"coil", "lamp"}, number : Nat,
                            board : BoardNumbers]
  BY ConfigAssumption DEF ConfigType
<1> QED
  BY <1>1

LEMMA BoardType ==
  ASSUME NEW c \in Configs
  PROVE  /\ Len(c.boards) \in Nat
         /\ DOMAIN c.boards = 1..Len(c.boards)
         /\ \A i \in DOMAIN c.boards : /\ c.boards[i].number \in BoardNumbers
                                       /\ c.boards[i].polled \in BOOLEAN
<1>1. c.boards \in Seq([number : BoardNumbers, polled : BOOLEAN])
  BY ConfigAssumption DEF ConfigType
<1>2. /\ Len(c.boards) \in Nat
      /\ DOMAIN c.boards = 1..Len(c.boards)
      /\ \A i \in DOMAIN c.boards :
           c.boards[i] \in [number : BoardNumbers, polled : BOOLEAN]
  BY <1>1, SeqFacts
<1> QED
  BY <1>2

LEMMA GroupsType ==
  ASSUME NEW c \in Configs, ButtonsParse(c)
  PROVE  /\ "buttons" \in DOMAIN ParseSwitchGroups(c)
         /\ \A g \in DOMAIN ParseSwitchGroups(c) :
              ParseSwitchGroups(c)[g] \in SUBSET (0..MaxNumber)
<1>1. \A g \in DOMAIN c.named : c.named[g] \in SUBSET (0..MaxNumber)
  BY ConfigAssumption DEF ConfigType
<1>2. \A n \in Buttons(c) : n \in Nat
  BY SwitchType DEF Buttons
<1>3. Buttons(c) \in SUBSET (0..MaxNumber)
  BY <1>2, BoundAssumption DEF ButtonsParse
<1>4. ParseSwitchGroups(c) =
        [g \in DOMAIN c.named \cup {"buttons"} |->
           IF g \in DOMAIN c.named THEN c.named[g] ELSE Buttons(c)]
  BY DEF ParseSwitchGroups
<1>5. "buttons" \in DOMAIN ParseSwitchGroups(c)
  BY <1>4
<1>6. ASSUME NEW g \in DOMAIN ParseSwitchGroups(c)
      PROVE  ParseSwitchGroups(c)[g] \in SUBSET (0..MaxNumber)
  <2>1. CASE g \in DOMAIN c.named
    BY <1>1, <1>4, <2>1
  <2>2. CASE g \notin DOMAIN c.named
    BY <1>3, <1>4, <2>2
  <2> QED
    BY <2>1, <2>2
<1> QED
  BY <1>5, <1>6

\* The tables that Collect fills; what it collects fits 16 bits.
LEMMA CollectType ==
  ASSUME TypeOK, config \in Configs, NumbersParse, NEW k \in Kinds
  PROVE  Collected(k) \in SUBSET (0..MaxNumber)
<1>1. gameOn \in 0..MaxNumber
  BY BoundAssumption DEF TypeOK
<1>2. \A s \in Elements(config.switches) : s.number \in 0..MaxNumber
  BY SwitchType, BoundAssumption DEF NumbersParse
<1>3. \A o \in config.outputs : o.board \notin skips => o.number \in 0..MaxNumber
  BY OutputType, BoundAssumption DEF NumbersParse
<1>4. ASSUME NEW n \in Collected(k) PROVE n \in 0..MaxNumber
  <2>1. CASE k = "switch"
    BY <1>2, <2>1 DEF Collected
  <2>2. CASE k # "switch"
    <3>1. \/ \E o \in config.outputs : o.board \notin skips /\ n = o.number
          \/ n = gameOn
      BY <2>2 DEF Collected
    <3> QED
      BY <1>1, <1>3, <3>1
  <2> QED
    BY <2>1, <2>2
<1> QED
  BY <1>4

\* The body of TablesAgree.
TablesGood ==
  \A k \in Kinds :
    /\ numbers[k] \in Seq(0..MaxNumber)
    /\ Len(numbers[k]) = bits[k] /\ bits[k] \in 1..MaxBits[k]
    /\ Distinct(numbers[k])

LEMMA CollectTables ==
  ASSUME TypeOK, config \in Configs, NumbersParse, Collect
  PROVE  TablesGood' /\ numbers' \in [Kinds -> Seq(0..MaxNumber)]
         /\ bits' \in [Kinds -> Nat]
<1> DEFINE r == [k \in Kinds |-> BitsFor(k)]
<1>1. /\ numbers' = [k \in Kinds |-> Resize(Ascending(Collected(k)), r[k])]
      /\ bits' = IF IsValidRuntimeConfig(r) THEN r ELSE bits
  BY DEF Collect
<1>2. ASSUME NEW k \in Kinds
      PROVE  /\ r[k] \in 1..MaxBits[k] /\ numbers'[k] \in Seq(0..MaxNumber)
             /\ Len(numbers'[k]) = r[k] /\ Distinct(numbers'[k])
  <2>1. MaxBits[k] \in Nat \ {0}
    BY BoundAssumption
  <2>2. Collected(k) \in SUBSET (0..MaxNumber)
    BY CollectType
  <2>3. r[k] = Least(MaxBits[k], Most(1, Cardinality(Collected(k))))
    BY DEF BitsFor
  <2>4. numbers'[k] = Resize(Ascending(Collected(k)), r[k])
    BY <1>1
  <2> HIDE DEF r
  <2> QED
    BY <2>1, <2>2, <2>3, <2>4, TableIsDistinct
<1>3. IsValidRuntimeConfig(r)
  BY <1>2 DEF IsValidRuntimeConfig
<1>4. bits' = r
  BY <1>1, <1>3
<1>5. r \in [Kinds -> Nat]
  <2>1. \A k \in Kinds : r[k] \in Nat
    <3> TAKE k \in Kinds
    <3>1. MaxBits[k] \in Nat
      BY BoundAssumption
    <3> HIDE DEF r
    <3> QED
      BY <1>2, <3>1
  <2> QED
    BY <2>1
<1>6. numbers' \in [Kinds -> Seq(0..MaxNumber)]
  BY <1>1, <1>2
<1> QED
  BY <1>2, <1>4, <1>5, <1>6 DEF TablesGood

\* The masks hold indices of the table.
LEMMA MasksType ==
  ASSUME NEW sw \in Seq(0..MaxNumber), Distinct(sw), NEW lists
  PROVE  OwnershipMasks(sw, lists) \in [BoardNumbers -> SUBSET Nat]
<1>1. ASSUME NEW n \in Elements(sw) PROVE NumberToIndex(sw)[n] \in Nat
  <2>1. PICK i \in DOMAIN sw : n = sw[i]
    BY DEF Elements
  <2>2. NumberToIndex(sw)[sw[i]] = i
    BY IndexIsInverse
  <2>3. i \in Nat
    BY SeqFacts
  <2> QED
    BY <2>1, <2>2, <2>3
<1> DEFINE M(b) == {NumberToIndex(sw)[p.number] :
                     p \in {q \in lists : q.board = b /\ q.number \in Elements(sw)}}
<1>2. ASSUME NEW b \in BoardNumbers PROVE M(b) \in SUBSET Nat
  BY <1>1
<1>3. OwnershipMasks(sw, lists) =
        [b \in BoardNumbers |-> IF b >= MaxBoards THEN {} ELSE M(b)]
  BY DEF OwnershipMasks
<1> HIDE DEF M
<1> QED
  BY <1>2, <1>3

\* The type invariant, with what ConfigureBoard needs to know of the index.
TypeInv == TypeOK /\ index > 0

\* Starting Connect needs a configuration; it stays to the end.
PhaseInv == pc # "idle" => config \in Configs /\ Validates(config)

LEMMA InitType == Init => TypeInv /\ PhaseInv
<1> SUFFICES ASSUME Init PROVE TypeInv /\ PhaseInv
  OBVIOUS
<1>1. numbers \in [Kinds -> Seq(0..MaxNumber)]
  BY DEF Init, NoTables
<1>2. bits \in [Kinds -> Nat]
  BY BoundAssumption DEF Init
<1>3. /\ "buttons" \in DOMAIN groups
      /\ \A g \in DOMAIN groups : groups[g] \in SUBSET (0..MaxNumber)
  BY DEF Init
<1>4. \A b \in DOMAIN told : told[b] \in BoardNumbers \cup {None}
  BY DEF Init
<1>5. configured \in Seq(BoardNumbers) /\ switchBoards \in Seq(BoardNumbers)
  BY DEF Init
<1>6. chain \in Seq(0..(MaxBoards - 1)) /\ Len(chain) <= MaxBoards
  BY BoundAssumption DEF Init
<1>7. skips \in SkipLists /\ commSkips \in SkipLists
  BY ConfigAssumption DEF Init
<1>8. mask \in [BoardNumbers -> SUBSET Nat] /\ index \in Nat /\ gameOn \in 0..MaxByte
  BY DEF Init
<1>9. connects \in 0..MaxConnects /\ settings \in Configs \cup {None}
  BY BoundAssumption DEF Init
<1>10. /\ failed \in BOOLEAN /\ rejected \in BOOLEAN /\ finalized \in BOOLEAN
       /\ staleSkips \in BOOLEAN /\ port \in BOOLEAN
  BY DEF Init
<1>11. /\ byBoard \in SUBSET [board : BoardNumbers, number : 0..MaxNumber]
       /\ owner \in SUBSET [board : BoardNumbers, number : 0..MaxNumber]
       /\ buttons \in SUBSET (0..MaxNumber) /\ virtual \in SUBSET BoardNumbers
       /\ present \in SUBSET BoardNumbers /\ settled \in SUBSET BoardNumbers
  BY DEF Init
<1>12. pc = "idle" /\ config = None /\ index > 0
  BY DEF Init
<1>13. TypeOK
  BY <1>1, <1>2, <1>3, <1>4, <1>5, <1>6, <1>7, <1>8, <1>9, <1>10, <1>11, <1>12
     DEF TypeOK
<1> QED
  BY <1>12, <1>13 DEF TypeInv, PhaseInv

LEMMA SendType ==
  ASSUME TypeOK, NEW boards \in SUBSET BoardNumbers, Send(boards)
  PROVE  /\ present' \in SUBSET BoardNumbers /\ settled' \in SUBSET BoardNumbers
         /\ failed' \in BOOLEAN /\ rejected' \in BOOLEAN
<1>1. PICK acked \in SUBSET (boards \ commSkips), lost \in BOOLEAN,
           denied \in BOOLEAN :
        /\ present' = present \cup acked
        /\ failed' = (failed \/ lost)
        /\ rejected' = (rejected \/ denied)
        /\ settled' = IF pc = "boards" /\ ~lost /\ ~denied
                      THEN settled \cup acked ELSE settled
  BY DEF Send
<1>2. acked \subseteq BoardNumbers
  BY <1>1
<1>3. present' \in SUBSET BoardNumbers /\ settled' \in SUBSET BoardNumbers
  BY <1>1, <1>2 DEF TypeOK
<1>4. failed' \in BOOLEAN /\ rejected' \in BOOLEAN
  BY <1>1
<1> QED
  BY <1>3, <1>4

LEMMA FinalizeType ==
  ASSUME TypeOK, FinalizeConfiguredBoardPresence
  PROVE  /\ finalized' \in BOOLEAN /\ virtual' \in SUBSET BoardNumbers
         /\ owner' \in SUBSET [board : BoardNumbers, number : 0..MaxNumber]
<1>1. Elements(configured) \subseteq BoardNumbers
  BY ElementsType DEF TypeOK
<1>2. virtual' \in SUBSET BoardNumbers
  BY <1>1 DEF FinalizeConfiguredBoardPresence, TypeOK
<1>3. owner' \in SUBSET byBoard \/ owner' = owner
  BY DEF FinalizeConfiguredBoardPresence
<1> QED
  BY <1>2, <1>3 DEF FinalizeConfiguredBoardPresence, TypeOK

LEMMA NextTypeHost ==
  ASSUME TypeInv, PhaseInv,
         \/ \E c \in Configs : LoadConfiguration(c)
         \/ \E boards \in SkipLists : SetSkippedBoardsCsv(boards)
         \/ HostAsks \/ OpenFails \/ Open \/ Disconnect
  PROVE  TypeInv' /\ PhaseInv'
<1>1. CASE \E c \in Configs : LoadConfiguration(c)
  <2>1. PICK c \in Configs : LoadConfiguration(c)
    BY <1>1
  <2>2. /\ config' \in Configs \cup {None} /\ pc' = "idle"
        /\ settings' \in Configs \cup {None}
    BY <2>1 DEF LoadConfiguration, attempt, TypeInv, TypeOK
  <2>3. /\ "buttons" \in DOMAIN groups'
        /\ \A g \in DOMAIN groups' : groups'[g] \in SUBSET (0..MaxNumber)
    <3>1. CASE Validates(c) /\ ButtonsParse(c)
      <4>1. groups' = ParseSwitchGroups(c)
        BY <2>1, <3>1 DEF LoadConfiguration
      <4> QED
        BY <3>1, <4>1, GroupsType
    <3>2. CASE ~(Validates(c) /\ ButtonsParse(c))
      <4>1. groups' = groups
        BY <2>1, <3>2 DEF LoadConfiguration
      <4> QED
        BY <4>1 DEF TypeInv, TypeOK
    <3> QED
      BY <3>1, <3>2
  <2>4. UNCHANGED << skips, gameOn, tables, heard, virtuals, chain, serial, attempt >>
    BY <2>1 DEF LoadConfiguration
  <2> QED
    BY <2>2, <2>3, <2>4 DEF TypeInv, TypeOK, PhaseInv, tables, heard, virtuals,
       serial, attempt
<1>2. CASE \E boards \in SkipLists : SetSkippedBoardsCsv(boards)
  <2>1. skips' \in SkipLists
        /\ UNCHANGED << config, groups, settings, gameOn, tables, heard, virtuals,
                        chain, serial, attempt >>
    BY <1>2 DEF SetSkippedBoardsCsv
  <2> QED
    BY <2>1 DEF TypeInv, TypeOK, PhaseInv, tables, heard, virtuals, serial,
       attempt
<1>3. CASE HostAsks
  <2>1. /\ finalized' \in BOOLEAN /\ virtual' \in SUBSET BoardNumbers
        /\ owner' \in SUBSET [board : BoardNumbers, number : 0..MaxNumber]
    BY <1>3, FinalizeType DEF HostAsks, TypeInv
  <2>2. UNCHANGED << file, gameOn, tables, heard, chain, serial, attempt >>
    BY <1>3 DEF HostAsks
  <2> QED
    BY <2>1, <2>2 DEF TypeInv, TypeOK, PhaseInv, file, tables, heard, serial,
       attempt
<1>4. CASE OpenFails
  <2>1. /\ connects' \in 0..MaxConnects /\ port' = FALSE
        /\ UNCHANGED << file, gameOn, tables, heard, virtuals, chain, attempt >>
    BY <1>4, BoundAssumption DEF OpenFails, Connect, TypeInv, TypeOK
  <2> QED
    BY <2>1 DEF TypeInv, TypeOK, PhaseInv, file, tables, heard, virtuals, attempt
<1>5. CASE Open
  <2>1. connects' \in 0..MaxConnects /\ port' = TRUE
    BY <1>5, BoundAssumption DEF Open, Connect, TypeInv, TypeOK
  <2>2. /\ present' \in SUBSET BoardNumbers /\ settled' \in SUBSET BoardNumbers
        /\ failed' \in BOOLEAN /\ rejected' \in BOOLEAN /\ finalized' \in BOOLEAN
        /\ pc' \in {"idle", "boards"} /\ index' \in Nat /\ index' > 0
        /\ switchBoards' \in Seq(BoardNumbers)
        /\ \A b \in DOMAIN told' : told'[b] \in BoardNumbers \cup {None}
    <3>1. switchBoards' = << >> /\ told' = << >>
      BY <1>5 DEF Open
    <3>2. << >> \in Seq(BoardNumbers) /\ DOMAIN << >> = {}
      OBVIOUS
    <3>3. switchBoards' \in Seq(BoardNumbers)
      BY <3>1, <3>2
    <3>4. DOMAIN told' = {}
      BY <3>1, <3>2
    <3>5. /\ present' \in SUBSET BoardNumbers /\ settled' \in SUBSET BoardNumbers
          /\ failed' \in BOOLEAN /\ rejected' \in BOOLEAN
          /\ finalized' \in BOOLEAN /\ pc' \in {"idle", "boards"}
          /\ index' \in Nat /\ index' > 0
      <4>1. /\ present' = {} /\ settled' = {} /\ failed' = FALSE
            /\ rejected' = FALSE /\ finalized' = FALSE /\ index' = 1
            /\ pc' \in {"boards", "idle"}
        BY <1>5 DEF Open
      <4>2. index' \in Nat /\ index' > 0
        BY <4>1
      <4>3. /\ present' \in SUBSET BoardNumbers /\ settled' \in SUBSET BoardNumbers
            /\ pc' \in {"idle", "boards"}
        BY <4>1
      <4>4. failed' \in BOOLEAN /\ rejected' \in BOOLEAN /\ finalized' \in BOOLEAN
        BY <4>1, Zenon
      <4> QED
        BY <4>2, <4>3, <4>4
    <3>6. \A b \in DOMAIN told' : told'[b] \in BoardNumbers \cup {None}
      <4>1. ASSUME NEW b \in DOMAIN told' PROVE FALSE
        BY <3>4
      <4> QED
        BY <4>1
    <3> QED
      BY <3>3, <3>5, <3>6
  <2>3. staleSkips' \in BOOLEAN
    BY <1>5 DEF Open
  <2>4. UNCHANGED << file, gameOn, tables, virtual, owner, chain >>
    BY <1>5 DEF Open
  <2>5. config' \in Configs /\ Validates(config)' 
    BY <1>5 DEF Open, Connect, file, Validates, TypeInv, TypeOK
  <2>6. TypeOK'
    BY <2>1, <2>2, <2>3, <2>4 DEF TypeInv, TypeOK, file, tables
  <2> QED
    BY <2>1, <2>2, <2>5, <2>6 DEF TypeInv, PhaseInv
<1>6. CASE Disconnect
  <2>1. /\ port' = FALSE /\ pc' = "idle"
        /\ UNCHANGED << connects, file, gameOn, tables, heard, virtuals, chain,
                        index, switchBoards, told, staleSkips >>
    BY <1>6 DEF Disconnect, TypeInv, TypeOK
  <2> QED
    BY <2>1 DEF TypeInv, TypeOK, PhaseInv, file, tables, heard, virtuals
<1> QED
  BY <1>1, <1>2, <1>3, <1>4, <1>5, <1>6

LEMMA NextTypeBoards ==
  ASSUME TypeInv, PhaseInv, ConfigureBoard
  PROVE  TypeInv' /\ PhaseInv'
<1>1. /\ pc = "boards" /\ index <= Len(config.boards) /\ index' = index + 1
      /\ UNCHANGED << file, tables, virtuals, serial, pc, told, staleSkips >>
  BY DEF ConfigureBoard
<1>2. config \in Configs /\ index \in Nat
  BY <1>1 DEF PhaseInv, TypeInv, TypeOK
<1> DEFINE b == config.boards[index].number
<1>3. /\ present' \in SUBSET BoardNumbers /\ settled' \in SUBSET BoardNumbers
      /\ failed' \in BOOLEAN /\ rejected' \in BOOLEAN
      /\ gameOn' \in 0..MaxByte
      /\ chain' \in Seq(0..(MaxBoards - 1)) /\ Len(chain') <= MaxBoards
      /\ switchBoards' \in Seq(BoardNumbers)
  <2>1. CASE b \in skips
    <3>1. UNCHANGED << gameOn, heard, chain, switchBoards >>
      BY <2>1 DEF ConfigureBoard
    <3> QED
      BY <3>1 DEF heard, TypeInv, TypeOK
  <2>2. CASE b \notin skips
    <3>1. /\ Send({b}) /\ gameOn' = config.gameOn
          /\ IF config.boards[index].polled
             THEN /\ RegisterSwitchBoard(b)
                  /\ switchBoards' = Append(switchBoards, b)
             ELSE UNCHANGED << chain, switchBoards >>
      BY <2>2 DEF ConfigureBoard
    <3>2. b \in BoardNumbers /\ b \in Nat
      <4>1. index > 0
        BY DEF TypeInv
      <4>2. Len(config.boards) \in Nat /\ DOMAIN config.boards = 1..Len(config.boards)
        BY <1>2, BoardType
      <4>3. index \in DOMAIN config.boards
        BY <1>1, <1>2, <4>1, <4>2
      <4>4. b \in BoardNumbers
        BY <1>2, <4>3, BoardType
      <4>5. BoardNumbers \subseteq Nat
        BY ConfigAssumption, BoundAssumption
      <4> HIDE DEF b
      <4> QED
        BY <4>4, <4>5
    <3>3. /\ present' \in SUBSET BoardNumbers /\ settled' \in SUBSET BoardNumbers
          /\ failed' \in BOOLEAN /\ rejected' \in BOOLEAN
      BY <3>1, <3>2, SendType DEF TypeInv
    <3>4. gameOn' \in 0..MaxByte
      BY <1>2, <3>1, ConfigAssumption DEF ConfigType
    <3>5. chain' \in Seq(0..(MaxBoards - 1)) /\ Len(chain') <= MaxBoards
      <4>1. chain \in Seq(0..(MaxBoards - 1)) /\ Len(chain) <= MaxBoards
            /\ MaxBoards \in Nat
        BY BoundAssumption DEF TypeInv, TypeOK
      <4>2. \/ chain' = chain
            \/ /\ Len(chain) < MaxBoards /\ b < MaxBoards
               /\ chain' = Append(chain, b)
        BY <3>1 DEF RegisterSwitchBoard
      <4>3. b < MaxBoards => b \in 0..(MaxBoards - 1)
        BY <3>2, <4>1
      <4>4. Len(chain) \in Nat
        BY <4>1
      <4> HIDE DEF b
      <4>5. CASE chain' = chain
        BY <4>1, <4>5
      <4>6. CASE /\ Len(chain) < MaxBoards /\ b < MaxBoards
                 /\ chain' = Append(chain, b)
        <5>1. /\ Append(chain, b) \in Seq(0..(MaxBoards - 1))
              /\ Len(Append(chain, b)) = Len(chain) + 1
          BY <4>1, <4>3, <4>6, AppendType
        <5> QED
          BY <4>1, <4>4, <4>6, <5>1
      <4> QED
        BY <4>2, <4>5, <4>6
    <3>6. switchBoards' \in Seq(BoardNumbers)
      <4>1. switchBoards \in Seq(BoardNumbers)
        BY DEF TypeInv, TypeOK
      <4>2. switchBoards' = switchBoards \/ switchBoards' = Append(switchBoards, b)
        BY <3>1
      <4> HIDE DEF b
      <4> QED
        BY <3>2, <4>1, <4>2
    <3> QED
      BY <3>3, <3>4, <3>5, <3>6
  <2> QED
    BY <2>1, <2>2
<1> HIDE DEF b
<1>4. TypeOK'
  <2>1. index' \in Nat /\ pc' = pc
    BY <1>1, <1>2
  <2>2. UNCHANGED << file, tables, virtuals, serial, told, staleSkips >>
    BY <1>1
  <2> QED
    BY <1>3, <2>1, <2>2 DEF TypeInv, TypeOK, file, tables, virtuals, serial
<1>5. PhaseInv'
  BY <1>1 DEF PhaseInv, Validates, file
<1>6. index' > 0
  BY <1>1, <1>2 DEF TypeInv
<1> QED
  BY <1>1, <1>4, <1>5, <1>6 DEF TypeInv, serial

LEMMA NextTypeCollect ==
  ASSUME TypeInv, PhaseInv, Collect
  PROVE  TypeInv' /\ PhaseInv'
<1>1. /\ pc = "boards"
      /\ UNCHANGED << file, gameOn, heard, virtual, owner, chain, serial, index,
                      switchBoards, told, staleSkips >>
  BY DEF Collect
<1>2. config \in Configs /\ Validates(config)
  BY <1>1 DEF PhaseInv
<1>3. CASE ~NumbersParse
  <2>1. pc' = "idle" /\ UNCHANGED << tables, finalized >>
    BY <1>3 DEF Collect
  <2> QED
    BY <1>1, <2>1 DEF TypeInv, TypeOK, PhaseInv, file, tables, heard, serial
<1>4. CASE NumbersParse
  <2> DEFINE lists == {[board |-> s.board, number |-> s.number] :
                         s \in Elements(config.switches)}
  <2>1. /\ configured' = [i \in DOMAIN config.boards |-> config.boards[i].number]
        /\ byBoard' = lists
        /\ mask' = OwnershipMasks(numbers'["switch"], lists)
        /\ buttons' = Buttons(config)
        /\ commSkips' = skips /\ finalized' = FALSE /\ pc' = "devices"
    BY <1>4 DEF Collect
  <2>2. /\ TablesGood' /\ numbers' \in [Kinds -> Seq(0..MaxNumber)]
        /\ bits' \in [Kinds -> Nat]
    BY <1>2, <1>4, CollectTables DEF TypeInv
  <2>3. configured' \in Seq(BoardNumbers)
    <3>1. /\ Len(config.boards) \in Nat
          /\ configured' \in [1..Len(config.boards) -> BoardNumbers]
      BY <1>2, <2>1, BoardType
    <3> QED
      BY <3>1, FunctionIsSeq
  <2>4. \A s \in Elements(config.switches) :
          s.number \in 0..MaxNumber /\ s.board \in BoardNumbers
    BY <1>2, <1>4, SwitchType, BoundAssumption DEF NumbersParse
  <2>5. byBoard' \in SUBSET [board : BoardNumbers, number : 0..MaxNumber]
    BY <2>1, <2>4
  <2>6. buttons' \in SUBSET (0..MaxNumber)
    BY <2>1, <2>4 DEF Buttons
  <2> HIDE DEF lists
  <2>7. mask' \in [BoardNumbers -> SUBSET Nat]
    <3>1. numbers'["switch"] \in Seq(0..MaxNumber) /\ Distinct(numbers'["switch"])
      BY <2>2 DEF TablesGood, Kinds
    <3> QED
      BY <2>1, <3>1, MasksType
  <2>8. TypeOK'
    BY <1>1, <2>1, <2>2, <2>3, <2>5, <2>6, <2>7
       DEF TypeInv, TypeOK, file, heard, serial
  <2>9. PhaseInv' /\ index' > 0
    BY <1>1, <1>2 DEF PhaseInv, Validates, file, TypeInv
  <2> QED
    BY <2>8, <2>9 DEF TypeInv
<1> QED
  BY <1>3, <1>4

LEMMA NextTypeDevices ==
  ASSUME TypeInv, PhaseInv, ConfigureDevices
  PROVE  TypeInv' /\ PhaseInv'
<1>1. /\ pc = "devices" /\ Send(DeviceBoards) /\ pc' \in {"presence", "idle"}
      /\ UNCHANGED << file, gameOn, tables, virtuals, chain, serial, index,
                      switchBoards, told, staleSkips >>
  BY DEF ConfigureDevices
<1>2. config \in Configs /\ Validates(config)
  BY <1>1 DEF PhaseInv
<1>3. DeviceBoards \in SUBSET BoardNumbers
  BY <1>2, SwitchType, OutputType DEF DeviceBoards
<1>4. /\ present' \in SUBSET BoardNumbers /\ settled' \in SUBSET BoardNumbers
      /\ failed' \in BOOLEAN /\ rejected' \in BOOLEAN
  BY <1>1, <1>3, SendType DEF TypeInv
<1>5. TypeOK'
  BY <1>1, <1>4 DEF TypeInv, TypeOK, file, tables, virtuals, serial
<1> QED
  BY <1>1, <1>2, <1>5 DEF TypeInv, PhaseInv, Validates, file, serial

\* SetActiveSwitchBoards takes a beginning of the list that has no number from
\* MaxBoards on.
LEMMA ActiveType ==
  ASSUME NEW s \in Seq(Nat), SetActiveSwitchBoards(s)
  PROVE  chain' \in Seq(0..(MaxBoards - 1)) /\ Len(chain') <= MaxBoards
<1>1. PICK n \in 0..Least(MaxBoards, Len(s)) :
        (\A i \in 1..n : s[i] < MaxBoards) /\ chain' = SubSeq(s, 1, n)
  BY DEF SetActiveSwitchBoards
<1>2. MaxBoards \in Nat /\ Len(s) \in Nat
  BY BoundAssumption
<1>3. n \in Nat /\ n <= MaxBoards /\ n <= Len(s)
  BY <1>2 DEF Least
<1>4. \A i \in 1..n : s[i] \in 0..(MaxBoards - 1)
  <2> TAKE i \in 1..n
  <2>1. i \in 1..Len(s) /\ s[i] < MaxBoards
    BY <1>1, <1>2, <1>3
  <2>2. s[i] \in Nat
    BY <2>1
  <2> QED
    BY <1>2, <2>1, <2>2
<1>5. chain' = [i \in 1..n |-> s[i]]
  BY <1>1, <1>2, <1>3
<1>6. chain' \in [1..n -> 0..(MaxBoards - 1)]
  BY <1>4, <1>5
<1> QED
  BY <1>3, <1>6, FunctionIsSeq

LEMMA NextTypeChain ==
  ASSUME TypeInv, PhaseInv, SetUpChain
  PROVE  TypeInv' /\ PhaseInv'
<1> DEFINE heads == Elements(switchBoards) \cap present
           at(b) == CHOOSE j \in DOMAIN switchBoards :
                      /\ switchBoards[j] = b
                      /\ \A l \in DOMAIN switchBoards : switchBoards[l] = b => l <= j
<1>1. /\ pc = "presence" /\ pc' = "setup"
      /\ FinalizeConfiguredBoardPresence /\ SetActiveSwitchBoards(switchBoards)
      /\ Send(heads)
      /\ UNCHANGED << file, gameOn, tables, serial, index, switchBoards,
                      staleSkips >>
  BY DEF SetUpChain
<1>2. told' = [b \in heads |-> NextBoard(b)]
  BY DEF SetUpChain
<1>3. switchBoards \in Seq(BoardNumbers)
  BY DEF TypeInv, TypeOK
<1>4. heads \in SUBSET BoardNumbers
  BY <1>3, ElementsType
<1>5. /\ present' \in SUBSET BoardNumbers /\ settled' \in SUBSET BoardNumbers
      /\ failed' \in BOOLEAN /\ rejected' \in BOOLEAN
  BY <1>1, <1>4, SendType DEF TypeInv
<1>6. /\ finalized' \in BOOLEAN /\ virtual' \in SUBSET BoardNumbers
      /\ owner' \in SUBSET [board : BoardNumbers, number : 0..MaxNumber]
  BY <1>1, FinalizeType DEF TypeInv
<1>7. chain' \in Seq(0..(MaxBoards - 1)) /\ Len(chain') <= MaxBoards
  <2>1. BoardNumbers \subseteq Nat
    BY ConfigAssumption, BoundAssumption
  <2>2. switchBoards \in Seq(Nat)
    BY <1>3, <2>1, SeqWidens
  <2> QED
    BY <1>1, <2>2, ActiveType
<1>8. \A b \in DOMAIN told' : told'[b] \in BoardNumbers \cup {None}
  <2>1. ASSUME NEW b \in heads PROVE NextBoard(b) \in BoardNumbers \cup {None}
    <3>1. \E j \in DOMAIN switchBoards :
            /\ switchBoards[j] = b
            /\ \A l \in DOMAIN switchBoards : switchBoards[l] = b => l <= j
      BY <1>3, LastPlace
    <3>2. at(b) \in DOMAIN switchBoards
      BY <3>1
    <3>3. NextBoard(b) = IF at(b) < Len(switchBoards)
                         THEN switchBoards[at(b) + 1] ELSE None
      BY DEF NextBoard
    <3> HIDE DEF at
    <3>4. at(b) < Len(switchBoards) => switchBoards[at(b) + 1] \in BoardNumbers
      BY <1>3, <3>2
    <3> QED
      BY <3>3, <3>4
  <2> HIDE DEF heads
  <2> QED
    BY <1>2, <2>1
<1> HIDE DEF heads
<1>9. TypeOK'
  BY <1>1, <1>5, <1>6, <1>7, <1>8 DEF TypeInv, TypeOK, file, tables, serial
<1> QED
  BY <1>1, <1>9 DEF TypeInv, PhaseInv, Validates, file, serial

LEMMA NextTypeRest ==
  ASSUME TypeInv, PhaseInv, GiveUp \/ Start
  PROVE  TypeInv' /\ PhaseInv'
<1>1. /\ pc # "idle" /\ pc' \in {"idle", "running"}
      /\ UNCHANGED << file, gameOn, tables, heard, virtuals, chain, serial, index,
                      switchBoards, told, staleSkips >>
  BY DEF GiveUp, Start
<1>2. TypeOK'
  BY <1>1 DEF TypeInv, TypeOK, file, tables, heard, virtuals, serial
<1> QED
  BY <1>1, <1>2 DEF TypeInv, PhaseInv, Validates, file, serial

LEMMA NextType ==
  TypeInv /\ PhaseInv /\ [Next]_vars => TypeInv' /\ PhaseInv'
<1> SUFFICES ASSUME TypeInv, PhaseInv, [Next]_vars PROVE TypeInv' /\ PhaseInv'
  OBVIOUS
<1>1. CASE UNCHANGED vars
  <2>1. TypeOK' /\ index' > 0
    BY <1>1 DEF vars, TypeInv, TypeOK, file, tables, heard, virtuals, serial,
       attempt
  <2> QED
    BY <1>1, <2>1 DEF vars, TypeInv, PhaseInv, Validates, file, attempt
<1>2. CASE Next
  BY <1>2, NextTypeHost, NextTypeBoards, NextTypeCollect, NextTypeDevices,
     NextTypeChain, NextTypeRest DEF Next
<1> QED
  BY <1>1, <1>2

\* In every state a PPUC object reaches through loads, skip lists and Connects
\* the tables, lists and counters have their types and stay within the sizes
\* of their arrays.
THEOREM TypeCorrect == Spec => []TypeOK
<1>1. Init => TypeInv /\ PhaseInv
  BY InitType
<1>2. (TypeInv /\ PhaseInv) /\ [Next]_vars => (TypeInv /\ PhaseInv)'
  BY NextType
<1>3. TypeInv /\ PhaseInv => TypeOK
  BY DEF TypeInv
<1> QED
  BY <1>1, <1>2, <1>3, PTL DEF Spec

----------------------------------------------------------------------------
(* What a step keeps.                                                      *)

Late == {"devices", "presence", "setup", "running"}

\* The configuration and the list of skipped boards change between sessions.
LEMMA FileKept ==
  ASSUME [Next]_vars
  PROVE  \/ \E c \in Configs : LoadConfiguration(c)
         \/ \E boards \in SkipLists : SetSkippedBoardsCsv(boards)
         \/ UNCHANGED file
<1>1. CASE UNCHANGED vars
  BY <1>1 DEF vars
<1>2. CASE Next
  BY <1>2 DEF Next, HostAsks, OpenFails, Open, ConfigureBoard, Collect,
     ConfigureDevices, GiveUp, SetUpChain, Start, Disconnect
<1> QED
  BY <1>1, <1>2

\* Behind the board loop the tables stay as Collect left them.
LEMMA PhaseStep ==
  ASSUME [Next]_vars, pc' \in Late
  PROVE  \/ Collect /\ NumbersParse
         \/ pc \in Late /\ UNCHANGED << file, gameOn, tables >>
<1>1. CASE UNCHANGED vars
  BY <1>1 DEF vars, attempt
<1>2. CASE \/ \E c \in Configs : LoadConfiguration(c)
           \/ \E boards \in SkipLists : SetSkippedBoardsCsv(boards)
           \/ OpenFails \/ Open \/ Disconnect
  <2>1. pc' \in {"idle", "boards"}
    BY <1>2 DEF LoadConfiguration, SetSkippedBoardsCsv, OpenFails, Open, Connect,
       Disconnect, attempt
  <2> QED
    BY <2>1 DEF Late
<1>3. CASE ConfigureBoard
  BY <1>3 DEF ConfigureBoard, Late
<1>4. CASE HostAsks
  BY <1>4 DEF HostAsks, attempt
<1>5. CASE Collect
  BY <1>5 DEF Collect, Late
<1>6. CASE ConfigureDevices \/ GiveUp \/ SetUpChain \/ Start
  BY <1>6 DEF ConfigureDevices, GiveUp, SetUpChain, Start, Late
<1>7. CASE Next
  BY <1>2, <1>3, <1>4, <1>5, <1>6, <1>7 DEF Next
<1> QED
  BY <1>1, <1>7

\* What Collect leaves, for as long as the session is set up and runs.
CollectInv ==
  pc \in Late =>
    /\ TablesGood
    /\ buttons = Buttons(config) /\ ButtonsParse(config)

LEMMA CollectStep ==
  TypeInv /\ PhaseInv /\ CollectInv /\ [Next]_vars => CollectInv'
<1> SUFFICES ASSUME TypeInv, PhaseInv, CollectInv, [Next]_vars, pc' \in Late
             PROVE  TablesGood' /\ buttons' = Buttons(config')
                    /\ ButtonsParse(config')
  BY DEF CollectInv
<1>1. CASE Collect /\ NumbersParse
  <2>1. config' = config /\ buttons' = Buttons(config) /\ config \in Configs
    BY <1>1 DEF Collect, file, PhaseInv
  <2>2. TablesGood'
    BY <1>1, <2>1, CollectTables DEF TypeInv
  <2>3. ButtonsParse(config)
    BY <1>1 DEF NumbersParse, ButtonsParse, Buttons
  <2> QED
    BY <2>1, <2>2, <2>3
<1>2. CASE pc \in Late /\ UNCHANGED << file, gameOn, tables >>
  <2>1. config' = config /\ buttons' = buttons /\ numbers' = numbers
        /\ bits' = bits
    BY <1>2 DEF file, tables
  <2>2. TablesGood /\ buttons = Buttons(config) /\ ButtonsParse(config)
    BY <1>2 DEF CollectInv
  <2> QED
    BY <2>1, <2>2 DEF TablesGood
<1> QED
  BY <1>1, <1>2, PhaseStep

\* A configuration that was taken left its group of buttons, and its settings when
\* its GI mappings did parse.
LoadInv ==
  config # None /\ Validates(config) /\ ButtonsParse(config) =>
    /\ groups["buttons"] = Buttons(config)
    /\ config.giFits => settings = config

LEMMA LoadStep == LoadInv /\ [Next]_vars => LoadInv'
<1> SUFFICES ASSUME LoadInv, [Next]_vars,
                    config' # None, Validates(config'), ButtonsParse(config')
             PROVE  /\ groups'["buttons"] = Buttons(config')
                    /\ config'.giFits => settings' = config'
  BY DEF LoadInv
<1>1. CASE \E c \in Configs : LoadConfiguration(c)
  <2>1. PICK c \in Configs : LoadConfiguration(c)
    BY <1>1
  <2>2. /\ config' = c /\ groups' = ParseSwitchGroups(c)
        /\ c.giFits => settings' = c
    BY <2>1 DEF LoadConfiguration
  <2>3. "buttons" \notin DOMAIN c.named
    BY <2>2 DEF Validates
  <2> QED
    BY <2>2, <2>3 DEF ParseSwitchGroups
<1>2. CASE UNCHANGED << config, groups, settings >>
  BY <1>2 DEF LoadInv
<1>3. (\E boards \in SkipLists : SetSkippedBoardsCsv(boards))
        => UNCHANGED << config, groups, settings >>
  BY DEF SetSkippedBoardsCsv
<1> QED
  BY <1>1, <1>2, <1>3, FileKept DEF file

\* When a session runs, the host's group "buttons" and the switches that the
\* bus thread takes for buttons are the same, and serial device and platform are
\* those of the configuration if its GI mappings did parse.
THEOREM NothingIsStaleHolds == Spec => []NothingIsStale
<1> DEFINE I == TypeInv /\ PhaseInv /\ CollectInv /\ LoadInv
<1>1. Init => I
  <2>1. Init => CollectInv /\ LoadInv
    BY DEF Init, CollectInv, LoadInv, Late
  <2> QED
    BY <2>1, InitType
<1>2. I /\ [Next]_vars => I'
  BY NextType, CollectStep, LoadStep
<1>3. I => NothingIsStale
  <2>1. pc = "running" /\ I =>
          /\ config # None /\ Validates(config) /\ ButtonsParse(config)
          /\ buttons = Buttons(config)
    BY ConfigAssumption DEF PhaseInv, CollectInv, Late
  <2>2. pc = "running" /\ I =>
          /\ groups["buttons"] = Buttons(config)
          /\ config.giFits => settings = config
    BY <2>1, Zenon DEF LoadInv
  <2> QED
    BY <2>1, <2>2, Zenon DEF NothingIsStale, Running
<1> HIDE DEF I
<1> QED
  BY <1>1, <1>2, <1>3, PTL DEF Spec

\* When a session runs, the number tables have the sizes of the setup frame and
\* lead from index to number and back.
THEOREM TablesAgreeHolds == Spec => []TablesAgree
<1> DEFINE I == TypeInv /\ PhaseInv /\ CollectInv
<1>1. Init => I
  <2>1. Init => CollectInv
    BY DEF Init, CollectInv, Late
  <2> QED
    BY <2>1, InitType
<1>2. I /\ [Next]_vars => I'
  BY NextType, CollectStep
<1>3. I => TablesAgree
  <2> SUFFICES ASSUME CollectInv, pc = "running", NEW k \in Kinds
               PROVE  /\ Len(numbers[k]) = bits[k] /\ bits[k] \in 1..MaxBits[k]
                      /\ \A i \in DOMAIN numbers[k] :
                           NumberToIndex(numbers[k])[numbers[k][i]] = i
    BY DEF TablesAgree, Running
  <2>1. TablesGood
    BY DEF CollectInv, Late
  <2>2. /\ numbers[k] \in Seq(0..MaxNumber) /\ Distinct(numbers[k])
        /\ Len(numbers[k]) = bits[k] /\ bits[k] \in 1..MaxBits[k]
    BY <2>1 DEF TablesGood
  <2> QED
    BY <2>2, IndexIsInverse
<1> HIDE DEF I
<1> QED
  BY <1>1, <1>2, <1>3, PTL DEF Spec

----------------------------------------------------------------------------
(* Who takes part in a session.                                            *)

BoardsOf(c) == {b.number : b \in Elements(c.boards)}
ListsOf(c) == {[board |-> s.board, number |-> s.number] : s \in Elements(c.switches)}

\* The lists Collect leaves.
ListsInv ==
  pc \in Late =>
    /\ commSkips = skips
    /\ Elements(configured) = BoardsOf(config)
    /\ byBoard = ListsOf(config)
    /\ mask = OwnershipMasks(numbers["switch"], byBoard)

LEMMA ListsStep == ListsInv /\ [Next]_vars => ListsInv'
<1> SUFFICES ASSUME ListsInv, [Next]_vars, pc' \in Late
             PROVE  /\ commSkips' = skips'
                    /\ Elements(configured') = BoardsOf(config')
                    /\ byBoard' = ListsOf(config')
                    /\ mask' = OwnershipMasks(numbers'["switch"], byBoard')
  BY DEF ListsInv
<1>1. CASE Collect /\ NumbersParse
  <2>1. /\ configured' = [i \in DOMAIN config.boards |-> config.boards[i].number]
        /\ byBoard' = ListsOf(config)
        /\ mask' = OwnershipMasks(numbers'["switch"], ListsOf(config))
        /\ commSkips' = skips /\ config' = config /\ skips' = skips
    BY <1>1 DEF Collect, ListsOf, file
  <2>2. Elements(configured') = BoardsOf(config)
    BY <2>1 DEF Elements, BoardsOf
  <2> QED
    BY <2>1, <2>2
<1>2. CASE pc \in Late /\ UNCHANGED << file, gameOn, tables >>
  BY <1>2 DEF ListsInv, file, tables
<1> QED
  BY <1>1, <1>2, PhaseStep

\* What is known before the runtime starts, as long as nothing went wrong: the
\* boards that were passed are skipped or have their settings, and presence,
\* once it is settled, is that of the boards that are not skipped.
SettledInv ==
  pc # "idle" /\ ~failed /\ ~rejected /\ ~staleSkips =>
    /\ settled \subseteq present /\ present \cap skips = {}
    /\ pc = "boards" =>
         /\ commSkips \subseteq skips
         /\ \A i \in DOMAIN config.boards :
              i < index => config.boards[i].number \in skips \cup settled
    /\ pc \in Late => BoardsOf(config) \subseteq skips \cup settled
    /\ pc \in {"boards", "devices", "presence"} => ~finalized
    /\ pc \in {"setup", "running"} =>
         finalized /\ virtual = Elements(configured) \cap skips

\* The effect of frames when nothing goes wrong.
LEMMA CleanSend ==
  ASSUME NEW boards, Send(boards), ~failed', ~rejected'
  PROVE  /\ ~failed /\ ~rejected
         /\ present' = present \cup (boards \ commSkips)
         /\ settled' = IF pc = "boards" THEN settled \cup (boards \ commSkips)
                       ELSE settled
<1>1. PICK acked \in SUBSET (boards \ commSkips), lost \in BOOLEAN,
           denied \in BOOLEAN :
        /\ lost \/ denied \/ acked = boards \ commSkips
        /\ present' = present \cup acked
        /\ failed' = (failed \/ lost)
        /\ rejected' = (rejected \/ denied)
        /\ settled' = IF pc = "boards" /\ ~lost /\ ~denied
                      THEN settled \cup acked ELSE settled
  BY DEF Send
<1>2. ~failed /\ ~rejected /\ ~lost /\ ~denied
  BY <1>1
<1> QED
  BY <1>1, <1>2

LEMMA SettledBoards ==
  TypeInv /\ PhaseInv /\ SettledInv /\ ConfigureBoard => SettledInv'
<1> SUFFICES ASSUME TypeInv, PhaseInv, SettledInv, ConfigureBoard,
                    ~failed', ~rejected', ~staleSkips'
             PROVE  SettledInv'
  BY DEF SettledInv
<1> DEFINE b == config.boards[index].number
<1>1. /\ pc = "boards" /\ pc' = "boards" /\ index' = index + 1
      /\ config' = config /\ skips' = skips /\ commSkips' = commSkips
      /\ finalized' = finalized /\ staleSkips' = staleSkips
  BY DEF ConfigureBoard, file, tables, virtuals
<1>2. config \in Configs /\ index \in Nat
  BY <1>1 DEF PhaseInv, TypeInv, TypeOK
<1>3. /\ ~failed /\ ~rejected
      /\ b \in skips => settled' = settled /\ present' = present
      /\ b \notin skips => /\ present' = present \cup ({b} \ commSkips)
                           /\ settled' = settled \cup ({b} \ commSkips)
  <2>1. CASE b \in skips
    BY <2>1 DEF ConfigureBoard, heard
  <2>2. CASE b \notin skips
    <3>1. Send({b})
      BY <2>2 DEF ConfigureBoard
    <3> QED
      BY <1>1, <2>2, <3>1, CleanSend
  <2> QED
    BY <2>1, <2>2
<1>4. /\ settled \subseteq present /\ present \cap skips = {}
      /\ commSkips \subseteq skips /\ ~finalized
      /\ \A i \in DOMAIN config.boards :
           i < index => config.boards[i].number \in skips \cup settled
  BY <1>1, <1>3 DEF SettledInv
<1>5. settled' \subseteq present' /\ present' \cap skips = {}
      /\ settled \subseteq settled' /\ b \in skips \cup settled'
  BY <1>3, <1>4
<1>6. ASSUME NEW i \in DOMAIN config.boards, i < index'
      PROVE  config.boards[i].number \in skips \cup settled'
  <2>1. i \in Nat
    BY <1>2, BoardType
  <2>2. i < index \/ i = index
    BY <1>1, <1>2, <1>6, <2>1
  <2> QED
    BY <1>4, <1>5, <2>2
<1> HIDE DEF b
<1> QED
  BY <1>1, <1>4, <1>5, <1>6 DEF SettledInv, Late

LEMMA SettledStep ==
  TypeInv /\ PhaseInv /\ ListsInv /\ SettledInv /\ [Next]_vars => SettledInv'
<1> SUFFICES ASSUME TypeInv, PhaseInv, ListsInv, SettledInv, [Next]_vars,
                    pc' # "idle", ~failed', ~rejected', ~staleSkips'
             PROVE  SettledInv'
  BY DEF SettledInv
<1>1. CASE UNCHANGED vars
  BY <1>1 DEF vars, SettledInv, file, tables, heard, virtuals, attempt
<1>2. CASE Open
  <2>1. /\ pc' = "boards" /\ present' = {} /\ settled' = {} /\ ~finalized'
        /\ index' = 1 /\ skips' = skips /\ config' = config
        /\ config \in Configs
        /\ commSkips' = commSkips /\ commSkips \subseteq skips
    BY <1>2 DEF Open, Connect, file, tables, TypeInv, TypeOK
  <2>2. \A i \in DOMAIN config.boards : ~(i < 1)
    BY <2>1, BoardType
  <2> QED
    BY <2>1, <2>2 DEF SettledInv, Late
<1>3. CASE ConfigureBoard
  BY <1>3, SettledBoards
<1>4. CASE Collect
  <2>1. /\ pc = "boards" /\ index > Len(config.boards) /\ pc' = "devices"
        /\ config' = config /\ skips' = skips /\ ~finalized'
        /\ UNCHANGED << present, failed, rejected, settled, staleSkips >>
    BY <1>4 DEF Collect, file, heard
  <2>2. /\ settled \subseteq present /\ present \cap skips = {}
        /\ \A i \in DOMAIN config.boards :
             i < index => config.boards[i].number \in skips \cup settled
    BY <2>1 DEF SettledInv
  <2>3. config \in Configs /\ index \in Nat
    BY <2>1 DEF PhaseInv, TypeInv, TypeOK
  <2>4. \A i \in DOMAIN config.boards : i < index
    BY <2>1, <2>3, BoardType
  <2>5. BoardsOf(config) \subseteq skips \cup settled
    BY <2>2, <2>4 DEF BoardsOf, Elements
  <2> QED
    BY <2>1, <2>2, <2>5 DEF SettledInv
<1>5. CASE ConfigureDevices
  <2>1. /\ pc = "devices" /\ Send(DeviceBoards) /\ pc' = "presence"
        /\ config' = config /\ skips' = skips /\ finalized' = finalized
        /\ staleSkips' = staleSkips
    BY <1>5 DEF ConfigureDevices, file, virtuals
  <2>2. /\ ~failed /\ ~rejected /\ settled' = settled
        /\ present' = present \cup (DeviceBoards \ commSkips)
    BY <2>1, CleanSend
  <2>3. DeviceBoards \cap skips = {}
    BY DEF DeviceBoards
  <2>4. /\ settled \subseteq present /\ present \cap skips = {} /\ ~finalized
        /\ BoardsOf(config) \subseteq skips \cup settled
    BY <2>1, <2>2 DEF SettledInv, Late
  <2>5. settled' \subseteq present' /\ present' \cap skips = {}
    BY <2>2, <2>3, <2>4
  <2> QED
    BY <2>1, <2>2, <2>4, <2>5 DEF SettledInv
<1>6. CASE SetUpChain
  <2> DEFINE heads == Elements(switchBoards) \cap present
  <2>1. /\ pc = "presence" /\ Send(heads) /\ pc' = "setup"
        /\ config' = config /\ skips' = skips /\ configured' = configured
        /\ staleSkips' = staleSkips /\ finalized'
        /\ virtual' = IF finalized THEN virtual
                      ELSE Elements(configured) \ present
    BY <1>6 DEF SetUpChain, FinalizeConfiguredBoardPresence, file, tables
  <2>2. /\ ~failed /\ ~rejected /\ settled' = settled
        /\ present' = present \cup (heads \ commSkips)
    BY <2>1, CleanSend
  <2>3. /\ settled \subseteq present /\ present \cap skips = {} /\ ~finalized
        /\ BoardsOf(config) \subseteq skips \cup settled
    BY <2>1, <2>2 DEF SettledInv, Late
  <2>4. Elements(configured) = BoardsOf(config)
    BY <2>1 DEF ListsInv, Late
  <2>5. present' = present
    BY <2>2
  <2>6. virtual' = Elements(configured) \cap skips
    BY <2>1, <2>3, <2>4
  <2> HIDE DEF heads
  <2> QED
    BY <2>1, <2>2, <2>3, <2>5, <2>6 DEF SettledInv
<1>7. CASE GiveUp \/ Start
  <2>1. /\ pc = "setup" /\ pc' = "running"
        /\ UNCHANGED << file, tables, heard, virtuals, staleSkips >>
    BY <1>7 DEF GiveUp, Start
  <2>2. /\ settled \subseteq present /\ present \cap skips = {}
        /\ BoardsOf(config) \subseteq skips \cup settled
        /\ finalized /\ virtual = Elements(configured) \cap skips
    BY <2>1 DEF SettledInv, Late, heard
  <2> QED
    BY <2>1, <2>2 DEF SettledInv, file, tables, heard, virtuals
<1>8. CASE HostAsks
  <2>1. /\ pc = "running" /\ pc' = "running"
        /\ UNCHANGED << file, tables, heard, staleSkips >>
        /\ finalized' /\ (finalized => virtual' = virtual)
    BY <1>8 DEF HostAsks, FinalizeConfiguredBoardPresence, attempt
  <2>2. /\ settled \subseteq present /\ present \cap skips = {}
        /\ BoardsOf(config) \subseteq skips \cup settled
        /\ finalized /\ virtual = Elements(configured) \cap skips
    BY <2>1 DEF SettledInv, Late, heard
  <2> QED
    BY <2>1, <2>2 DEF SettledInv, file, tables, heard
<1>9. ~(\E c \in Configs : LoadConfiguration(c))
      /\ ~(\E boards \in SkipLists : SetSkippedBoardsCsv(boards))
      /\ ~OpenFails /\ ~Disconnect
  BY DEF LoadConfiguration, SetSkippedBoardsCsv, OpenFails, Connect, Disconnect,
     attempt
<1> QED
  BY <1>1, <1>2, <1>3, <1>4, <1>5, <1>6, <1>7, <1>8, <1>9 DEF Next

\* A session runs only when no acknowledgement failed.
CleanInv == pc = "running" => ~failed

LEMMA CleanStep == CleanInv /\ [Next]_vars => CleanInv'
<1> SUFFICES ASSUME CleanInv, [Next]_vars, pc' = "running" PROVE ~failed'
  BY DEF CleanInv
<1>1. CASE UNCHANGED << pc, failed >>
  BY <1>1 DEF CleanInv
<1>2. CASE HostAsks
  BY <1>2 DEF HostAsks, CleanInv, heard, attempt
<1>3. CASE Start
  BY <1>3 DEF Start, HadConfigurationFailure, heard
<1>4. ~(\E c \in Configs : LoadConfiguration(c))
      /\ ~(\E boards \in SkipLists : SetSkippedBoardsCsv(boards))
      /\ ~OpenFails /\ ~Open /\ ~Disconnect /\ ~ConfigureBoard /\ ~Collect
      /\ ~ConfigureDevices /\ ~GiveUp /\ ~SetUpChain
  BY DEF LoadConfiguration, SetSkippedBoardsCsv, OpenFails, Open, Connect,
     Disconnect, ConfigureBoard, Collect, ConfigureDevices, GiveUp, SetUpChain,
     attempt
<1> QED
  BY <1>1, <1>2, <1>3, <1>4 DEF Next, vars, heard, attempt

\* A session begins only with boards that took their settings, and the virtual
\* boards are the skipped ones, when the port took every frame and no board was
\* taken off the list of skipped boards.
THEOREM SettingsTakenHolds == Spec => []SettingsTaken
<1> DEFINE I == TypeInv /\ PhaseInv /\ ListsInv /\ SettledInv /\ CleanInv
<1>1. Init => I
  <2>1. Init => ListsInv /\ SettledInv /\ CleanInv
    BY DEF Init, ListsInv, SettledInv, CleanInv, Late
  <2> QED
    BY <2>1, InitType
<1>2. I /\ [Next]_vars => I'
  BY NextType, ListsStep, SettledStep, CleanStep
<1>3. I => SettingsTaken
  <2> SUFFICES ASSUME I, pc = "running", ~rejected, ~staleSkips
               PROVE  /\ Elements(configured) \ skips \subseteq settled
                      /\ virtual = Elements(configured) \cap skips
    BY DEF SettingsTaken, Running
  <2>1. Elements(configured) = BoardsOf(config)
    BY DEF ListsInv, Late
  <2>2. BoardsOf(config) \subseteq skips \cup settled
        /\ virtual = Elements(configured) \cap skips
    BY DEF SettledInv, CleanInv, Late
  <2> QED
    BY <2>1, <2>2
<1> HIDE DEF I
<1> QED
  BY <1>1, <1>2, <1>3, PTL DEF Spec

----------------------------------------------------------------------------
(* Who feeds a switch.                                                     *)

\* Once presence is settled, the absent boards are virtual, their numbers have an
\* owner, and no board comes to be present any more.
Served == {p \in byBoard : p.board \in Elements(configured) \ present}

OwnerInv ==
  /\ pc \in {"boards", "devices", "presence"} => ~finalized
  /\ pc \in {"setup", "running"} =>
       /\ finalized /\ virtual = Elements(configured) \ present
       /\ owner \subseteq Served
       /\ \A p \in Served :
            (\A q \in Served : q.number = p.number => q.board = p.board)
              => p \in owner

LEMMA OwnerStep == OwnerInv /\ [Next]_vars => OwnerInv'
<1> SUFFICES ASSUME OwnerInv, [Next]_vars, pc' # "idle" PROVE OwnerInv'
  BY DEF OwnerInv
<1>1. CASE UNCHANGED vars
  BY <1>1 DEF vars, OwnerInv, Served, tables, heard, virtuals, attempt
<1>2. CASE Open \/ Collect
  <2>1. ~finalized' /\ pc' \in {"boards", "devices"}
    BY <1>2 DEF Open, Collect
  <2> QED
    BY <2>1 DEF OwnerInv
<1>3. CASE ConfigureBoard \/ ConfigureDevices
  <2>1. /\ pc \in {"boards", "devices"} /\ pc' \in {"boards", "presence"}
        /\ finalized' = finalized
    BY <1>3 DEF ConfigureBoard, ConfigureDevices, virtuals
  <2> QED
    BY <2>1 DEF OwnerInv
<1>4. CASE SetUpChain
  <2> DEFINE heads == Elements(switchBoards) \cap present
  <2>1. /\ pc = "presence" /\ Send(heads) /\ pc' = "setup"
        /\ FinalizeConfiguredBoardPresence
        /\ byBoard' = byBoard /\ configured' = configured
    BY <1>4 DEF SetUpChain, tables
  <2>2. present' = present
    <3>1. PICK acked \in SUBSET (heads \ commSkips) : present' = present \cup acked
      BY <2>1 DEF Send
    <3> QED
      BY <3>1
  <2>3. ~finalized
    BY <2>1 DEF OwnerInv
  <2>4. /\ finalized' /\ virtual' = Elements(configured) \ present
        /\ owner' = {p \in Served :
                       \A q \in Served :
                         q.number = p.number /\ q.board # p.board
                           => Last(q.board) < Last(p.board)}
    BY <2>1, <2>3 DEF FinalizeConfiguredBoardPresence, Served
  <2>5. Served' = Served /\ Elements(configured)' = Elements(configured)
    BY <2>1, <2>2 DEF Served, Elements
  <2> HIDE DEF heads
  <2>6. owner' \subseteq Served
        /\ \A p \in Served :
             (\A q \in Served : q.number = p.number => q.board = p.board)
               => p \in owner'
    BY <2>4
  <2> QED
    BY <2>1, <2>2, <2>4, <2>5, <2>6 DEF OwnerInv
<1>5. CASE GiveUp \/ Start
  <2>1. /\ pc = "setup" /\ pc' = "running" /\ UNCHANGED << tables, heard, virtuals >>
    BY <1>5 DEF GiveUp, Start
  <2> QED
    BY <2>1 DEF OwnerInv, Served, tables, heard, virtuals
<1>6. CASE HostAsks
  <2>1. /\ pc = "running" /\ pc' = "running" /\ UNCHANGED << tables, heard >>
        /\ finalized' /\ (finalized => owner' = owner /\ virtual' = virtual)
    BY <1>6 DEF HostAsks, FinalizeConfiguredBoardPresence, attempt
  <2> QED
    BY <2>1 DEF OwnerInv, Served, tables, heard
<1>7. ~(\E c \in Configs : LoadConfiguration(c))
      /\ ~(\E boards \in SkipLists : SetSkippedBoardsCsv(boards))
      /\ ~OpenFails /\ ~Disconnect
  BY DEF LoadConfiguration, SetSkippedBoardsCsv, OpenFails, Connect, Disconnect,
     attempt
<1> QED
  BY <1>1, <1>2, <1>3, <1>4, <1>5, <1>6, <1>7 DEF Next

\* In a session the bits of a switch come from its own board alone, when that is
\* present and in the chain, and from the host when its board is virtual, and never
\* from both.
THEOREM SwitchSourcesHolds == Spec => []SwitchSources
<1> DEFINE I == TypeInv /\ PhaseInv /\ CollectInv /\ ListsInv /\ OwnerInv
<1>1. Init => I
  <2>1. Init => CollectInv /\ ListsInv /\ OwnerInv
    BY DEF Init, CollectInv, ListsInv, OwnerInv, Late
  <2> QED
    BY <2>1, InitType
<1>2. I /\ [Next]_vars => I'
  BY NextType, CollectStep, ListsStep, OwnerStep
<1>3. I => SwitchSources
  <2> SUFFICES ASSUME I, pc = "running",
                      NEW s \in Elements(config.switches),
                      \A t \in Elements(config.switches) :
                        t.number = s.number => t.board = s.board,
                      s.number \in Elements(numbers["switch"])
               PROVE  LET i == NumberToIndex(numbers["switch"])[s.number]
                          heads    == present \cap Elements(chain)
                          fromBus  == {b \in heads : i \in mask[b]}
                          fromHost == {p.board : p \in {q \in owner :
                                                         q.number = s.number}}
                      IN  /\ fromBus = {s.board} \cap heads
                          /\ fromHost = {s.board} \cap virtual
                          /\ fromBus = {} \/ fromHost = {}
    BY DEF SwitchSources, Running
  <2> DEFINE table == numbers["switch"]
             at(n) == NumberToIndex(table)[n]
             heads    == present \cap Elements(chain)
             fromBus  == {b \in heads : at(s.number) \in mask[b]}
             fromHost == {p.board : p \in {q \in owner : q.number = s.number}}
  <2>1. /\ byBoard = ListsOf(config) /\ mask = OwnershipMasks(table, byBoard)
        /\ config \in Configs
    BY DEF ListsInv, PhaseInv, Late
  <2>2. table \in Seq(0..MaxNumber) /\ Distinct(table)
    BY DEF CollectInv, TablesGood, Late, Kinds
  <2>3. \A n \in Elements(table) : n = table[at(n)]
    <3> TAKE n \in Elements(table)
    <3>1. PICK i \in DOMAIN table : n = table[i]
      BY DEF Elements
    <3>2. NumberToIndex(table)[table[i]] = i
      BY <2>2, IndexIsInverse
    <3> QED
      BY <3>1, <3>2
  <2>4. \A p \in byBoard : p.number = s.number => p.board = s.board
    BY <2>1 DEF ListsOf
  <2>5. [board |-> s.board, number |-> s.number] \in byBoard
    BY <2>1 DEF ListsOf
  <2>6. s.board \in BoardNumbers
    BY <2>1, SwitchType
  <2> HIDE DEF table, at
  <2>7. ASSUME NEW b \in heads
        PROVE  at(s.number) \in mask[b] <=> b = s.board
    <3>1. b \in BoardNumbers
      BY DEF TypeInv, TypeOK
    <3>2. mask[b] = IF b >= MaxBoards THEN {}
                    ELSE {at(p.number) :
                            p \in {q \in byBoard : /\ q.board = b
                                                   /\ q.number \in Elements(table)}}
      BY <2>1, <3>1 DEF OwnershipMasks, at
    <3>3. ASSUME at(s.number) \in mask[b] PROVE b = s.board
      <4>1. PICK p \in byBoard : /\ p.board = b /\ p.number \in Elements(table)
                                 /\ at(s.number) = at(p.number)
        BY <3>2, <3>3
      <4>2. s.number \in Elements(table)
        BY DEF table
      <4>3. p.number = s.number
        BY <2>3, <4>1, <4>2
      <4> QED
        BY <2>4, <4>1, <4>3
    <3>4. ASSUME b = s.board PROVE at(s.number) \in mask[b]
      <4>1. ~(b >= MaxBoards)
        <5>1. b \in 0..(MaxBoards - 1) /\ MaxBoards \in Nat
          BY BoundAssumption, ElementsType DEF TypeInv, TypeOK
        <5> QED
          BY <5>1
      <4>2. s.number \in Elements(table)
        BY DEF table
      <4> QED
        BY <2>5, <3>2, <3>4, <4>1, <4>2
    <3> QED
      BY <3>3, <3>4
  <2>8. \A p \in Served : p.number = s.number => p.board = s.board
    BY <2>4 DEF Served
  <2>9. /\ owner \subseteq Served /\ virtual = Elements(configured) \ present
        /\ \A p \in Served :
             (\A q \in Served : q.number = p.number => q.board = p.board)
               => p \in owner
    BY DEF OwnerInv
  <2>10. fromBus = {s.board} \cap heads
    BY <2>7
  <2>11. \A p \in owner : p.number = s.number => p.board = s.board /\ s.board \in virtual
    BY <2>8, <2>9 DEF Served
  <2>12. ASSUME s.board \in virtual
         PROVE  \E p \in owner : p.number = s.number /\ p.board = s.board
    <3>1. [board |-> s.board, number |-> s.number] \in Served
      BY <2>5, <2>9, <2>12 DEF Served
    <3> QED
      BY <2>8, <2>9, <3>1
  <2>13. fromHost = {s.board} \cap virtual
    BY <2>11, <2>12
  <2>14. heads \cap virtual = {}
    BY <2>9
  <2>15. fromBus = {} \/ fromHost = {}
    BY <2>10, <2>13, <2>14
  <2> QED
    BY <2>10, <2>13, <2>15 DEF at, table
<1> HIDE DEF I
<1> QED
  BY <1>1, <1>2, <1>3, PTL DEF Spec

----------------------------------------------------------------------------
(* What can be commanded.                                                  *)

\* The numbers of the tables, when the game-on solenoid is the configured one
\* (which it is as soon as a board is not skipped).
ServedInv ==
  /\ pc = "boards" =>
       \A i \in DOMAIN config.boards :
         i < index /\ config.boards[i].number \notin skips
           => gameOn = config.gameOn
  /\ pc \in Late =>
       /\ SomeBoardIsConfigured => gameOn = config.gameOn
       /\ NumbersParse
       /\ \A k \in Kinds :
            /\ bits[k] = BitsFor(k)
            /\ numbers[k] = Resize(Ascending(Collected(k)), bits[k])

LEMMA ServedBoards ==
  PhaseInv /\ TypeInv /\ ServedInv /\ [Next]_vars /\ pc' = "boards" => ServedInv'
<1> SUFFICES ASSUME PhaseInv, TypeInv, ServedInv, [Next]_vars, pc' = "boards",
                    NEW i \in DOMAIN config'.boards, i < index',
                    config'.boards[i].number \notin skips'
             PROVE  gameOn' = config'.gameOn
  BY DEF ServedInv, Late
<1>1. CASE UNCHANGED vars
  BY <1>1 DEF vars, file, attempt, ServedInv
<1>2. CASE Open
  <2>1. config' = config /\ index' = 1 /\ config \in Configs
    BY <1>2 DEF Open, Connect, file, TypeInv, TypeOK
  <2>2. i \in Nat /\ i > 0
    BY <2>1, BoardType
  <2> QED
    BY <2>1, <2>2
<1>3. CASE ConfigureBoard
  <2>1. /\ pc = "boards" /\ index' = index + 1 /\ config' = config
        /\ skips' = skips
        /\ config.boards[index].number \in skips => gameOn' = gameOn
        /\ config.boards[index].number \notin skips => gameOn' = config.gameOn
    BY <1>3 DEF ConfigureBoard, file
  <2>2. config \in Configs /\ index \in Nat
    BY <2>1 DEF PhaseInv, TypeInv, TypeOK
  <2>3. i \in Nat
    BY <2>1, <2>2, BoardType
  <2>4. i < index \/ i = index
    BY <2>1, <2>2, <2>3
  <2> QED
    BY <2>1, <2>4 DEF ServedInv
<1>4. ~(\E c \in Configs : LoadConfiguration(c))
      /\ ~(\E boards \in SkipLists : SetSkippedBoardsCsv(boards))
      /\ ~HostAsks /\ ~OpenFails /\ ~Disconnect /\ ~Collect
      /\ ~ConfigureDevices /\ ~GiveUp /\ ~SetUpChain /\ ~Start
  BY DEF LoadConfiguration, SetSkippedBoardsCsv, HostAsks, OpenFails, Connect,
     Disconnect, Collect, ConfigureDevices, GiveUp, SetUpChain, Start, attempt
<1> QED
  BY <1>1, <1>2, <1>3, <1>4 DEF Next

LEMMA ServedStep ==
  PhaseInv /\ TypeInv /\ ServedInv /\ [Next]_vars => ServedInv'
<1> SUFFICES ASSUME PhaseInv, TypeInv, ServedInv, [Next]_vars, pc' \in Late
             PROVE  ServedInv'
  BY ServedBoards DEF ServedInv
<1>1. CASE Collect /\ NumbersParse
  <2>1. /\ pc = "boards" /\ index > Len(config.boards) /\ pc' = "devices"
        /\ config' = config /\ skips' = skips /\ gameOn' = gameOn
    BY <1>1 DEF Collect, file
  <2>2. config \in Configs /\ index \in Nat
    BY <2>1 DEF PhaseInv, TypeInv, TypeOK
  <2>3. SomeBoardIsConfigured => gameOn = config.gameOn
    <3>1. \A i \in DOMAIN config.boards : i < index
      BY <2>1, <2>2, BoardType
    <3> QED
      BY <2>1, <3>1 DEF ServedInv, SomeBoardIsConfigured, Elements
  <2>4. \A k \in Kinds : /\ numbers'[k] = Resize(Ascending(Collected(k)), BitsFor(k))
                         /\ bits'[k] = BitsFor(k)
    <3> DEFINE r == [k \in Kinds |-> BitsFor(k)]
    <3>1. /\ numbers' = [k \in Kinds |-> Resize(Ascending(Collected(k)), r[k])]
          /\ bits' = IF IsValidRuntimeConfig(r) THEN r ELSE bits
      BY <1>1 DEF Collect
    <3>2. TablesGood'
      BY <1>1, <2>2, CollectTables DEF TypeInv
    <3>3. ASSUME NEW k \in Kinds PROVE r[k] \in 1..MaxBits[k]
      <4>1. Collected(k) \in SUBSET (0..MaxNumber) /\ MaxBits[k] \in Nat \ {0}
        BY <1>1, <2>2, CollectType, BoundAssumption DEF TypeInv
      <4>2. Least(MaxBits[k], Most(1, Cardinality(Collected(k)))) \in 1..MaxBits[k]
        BY <4>1, TableIsDistinct
      <4> QED
        BY <4>2 DEF BitsFor
    <3>4. IsValidRuntimeConfig(r)
      BY <3>3 DEF IsValidRuntimeConfig
    <3>5. numbers' = [k \in Kinds |-> Resize(Ascending(Collected(k)), BitsFor(k))]
          /\ bits' = [k \in Kinds |-> BitsFor(k)]
      BY <3>1, <3>4
    <3> QED
      BY <3>5
  <2>5. /\ \A k \in Kinds : Collected(k)' = Collected(k) /\ BitsFor(k)' = BitsFor(k)
        /\ NumbersParse' = NumbersParse
        /\ SomeBoardIsConfigured' = SomeBoardIsConfigured
    BY <2>1 DEF Collected, BitsFor, NumbersParse, SomeBoardIsConfigured
  <2> QED
    BY <1>1, <2>1, <2>3, <2>4, <2>5 DEF ServedInv
<1>2. CASE pc \in Late /\ UNCHANGED << file, gameOn, tables >>
  <2>1. /\ config' = config /\ skips' = skips /\ gameOn' = gameOn
        /\ numbers' = numbers /\ bits' = bits /\ pc \in Late /\ pc' # "boards"
    BY <1>2 DEF file, tables, Late
  <2>2. /\ \A k \in Kinds : Collected(k)' = Collected(k) /\ BitsFor(k)' = BitsFor(k)
        /\ NumbersParse' = NumbersParse
        /\ SomeBoardIsConfigured' = SomeBoardIsConfigured
    BY <2>1 DEF Collected, BitsFor, NumbersParse, SomeBoardIsConfigured
  <2> QED
    BY <2>1, <2>2 DEF ServedInv
<1> QED
  BY <1>1, <1>2, PhaseStep

\* In a session what is configured can be commanded, up to the size of the
\* tables, and nothing else.
THEOREM ConfiguredIsServedHolds == Spec => []ConfiguredIsServed
<1> DEFINE I == TypeInv /\ PhaseInv /\ ServedInv
<1>1. Init => I
  <2>1. Init => ServedInv
    BY DEF Init, ServedInv, Late
  <2> QED
    BY <2>1, InitType
<1>2. I /\ [Next]_vars => I'
  BY NextType, ServedStep
<1>3. I => ConfiguredIsServed
  <2> SUFFICES ASSUME I, pc = "running", SomeBoardIsConfigured, NEW k \in Kinds
               PROVE  LET served == Elements(numbers[k]) IN
                        /\ \/ served \subseteq Wanted(k)
                           \/ Wanted(k) = {} /\ served = {0}
                        /\ \A n \in Wanted(k) \ served :
                             /\ Len(numbers[k]) = MaxBits[k]
                             /\ \A m \in served : m < n
    BY DEF ConfiguredIsServed, Running
  <2> DEFINE S == Collected(k)
             b == bits[k]
             served == Elements(numbers[k])
  <2>1. /\ gameOn = config.gameOn /\ NumbersParse /\ config \in Configs
        /\ b = BitsFor(k) /\ numbers[k] = Resize(Ascending(S), b)
    BY DEF ServedInv, PhaseInv, Late
  <2>2. Wanted(k) = S
    BY <2>1 DEF Wanted, Collected
  <2>3. S \in SUBSET (0..MaxNumber)
    BY <2>1, CollectType DEF TypeInv
  <2>4. S \in SUBSET Nat /\ IsFiniteSet(S) /\ MaxBits[k] \in Nat \ {0}
    <3>1. IsFiniteSet(0..MaxNumber) /\ 0..MaxNumber \subseteq Nat
      BY FS_Interval, BoundAssumption
    <3> QED
      BY <2>3, <3>1, FS_Subset, BoundAssumption
  <2>5. b = Least(MaxBits[k], Most(1, Cardinality(S)))
    BY <2>1 DEF BitsFor
  <2> HIDE DEF S, b
  <2>6. /\ Cardinality(S) \in Nat
        /\ Ascending(S) \in [1..Cardinality(S) -> S]
    BY <2>4, AscendingLists
  <2>7. Len(Ascending(S)) = Cardinality(S)
    BY <2>6, FunctionIsSeq
  <2>8. numbers[k] = [i \in 1..b |-> IF i <= Cardinality(S)
                                     THEN Ascending(S)[i] ELSE 0]
    BY <2>1, <2>7 DEF Resize
  <2>9. b \in Nat /\ Len(numbers[k]) = b
    BY <2>4, <2>5, <2>6, <2>8 DEF Least, Most
  <2>10. CASE S = {}
    <3>1. Cardinality(S) = 0
      BY <2>10, FS_EmptySet
    <3>2. b = 1
      BY <2>4, <2>5, <3>1 DEF Least, Most
    <3>3. numbers[k] = [i \in 1..1 |-> 0]
      BY <2>8, <3>1, <3>2
    <3>4. served = {0}
      BY <3>3 DEF Elements
    <3> QED
      BY <2>2, <2>10, <3>4
  <2>11. CASE S # {}
    <3>1. Cardinality(S) > 0
      BY <2>4, <2>6, <2>11, FS_EmptySet
    <3>2. b \in 0..Cardinality(S) /\ (b < Cardinality(S) => b = MaxBits[k])
      BY <2>4, <2>5, <2>6, <3>1 DEF Least, Most
    <3>3. served = {Ascending(S)[i] : i \in 1..b}
      <4>1. \A i \in 1..b : numbers[k][i] = Ascending(S)[i]
        BY <2>6, <2>8, <3>2
      <4>2. DOMAIN numbers[k] = 1..b
        BY <2>8
      <4> QED
        BY <4>1, <4>2 DEF Elements
    <3>4. /\ served \subseteq S
          /\ \A x \in S \ served : b < Cardinality(S) /\ \A m \in served : m < x
      BY <2>4, <3>2, <3>3, AscendingTakesLeast
    <3> HIDE DEF served
    <3>5. /\ served \subseteq Wanted(k)
          /\ \A n \in Wanted(k) \ served :
               Len(numbers[k]) = MaxBits[k] /\ \A m \in served : m < n
      BY <2>2, <2>9, <3>2, <3>4
    <3> QED
      BY <3>5 DEF served
  <2> QED
    BY <2>10, <2>11
<1> HIDE DEF I
<1> QED
  BY <1>1, <1>2, <1>3, PTL DEF Spec

\* In a session index and number lead to each other in tables of the sizes of
\* the setup frame, and the tables are those of the configuration.
THEOREM NumbersAreServedHolds == Spec => []NumbersAreServed
<1>1. TablesAgree /\ ConfiguredIsServed => NumbersAreServed
  BY DEF NumbersAreServed
<1> QED
  BY <1>1, TablesAgreeHolds, ConfiguredIsServedHolds, PTL


----------------------------------------------------------------------------
(* The chain.                                                              *)

Chosen(i) == config.boards[i].polled /\ config.boards[i].number \notin skips

\* p collects the polled boards up to the n-th, as Polled does.  The loop over the
\* boards extends such a function by one place at a time, so that there is one
\* and each of them gives switchBoards.
Gathers(p, n) ==
  p = [i \in 0..n |->
         IF i = 0 THEN << >>
         ELSE IF config.boards[i].polled /\ config.boards[i].number \notin skips
              THEN Append(p[i - 1], config.boards[i].number)
              ELSE p[i - 1]]

GatherInv ==
  pc # "idle" =>
    /\ index \in 1..(Len(config.boards) + 1)
    /\ pc \in Late => index = Len(config.boards) + 1
    /\ \E p : Gathers(p, index - 1)
    /\ \A p : Gathers(p, index - 1) => p[index - 1] = switchBoards

\* What Polled computes is one of the functions of the invariant.
LEMMA PolledGathers ==
  ASSUME \E p : Gathers(p, Len(config.boards))
  PROVE  \E p : Gathers(p, Len(config.boards)) /\ Polled = p[Len(config.boards)]
<1> DEFINE polled == CHOOSE p : Gathers(p, Len(config.boards))
<1>1. Gathers(polled, Len(config.boards))
  OBVIOUS
<1>2. Polled = polled[Len(config.boards)]
  BY DEF Polled, Gathers
<1> QED
  BY <1>1, <1>2

\* The part of a function up to n, and one place more.
LEMMA GathersLess ==
  ASSUME NEW n \in Nat, NEW p, Gathers(p, n + 1)
  PROVE  /\ Gathers([i \in 0..n |-> p[i]], n)
         /\ p[n + 1] = IF Chosen(n + 1) THEN Append(p[n], config.boards[n + 1].number)
                                        ELSE p[n]
<1> DEFINE step(q, i) == IF config.boards[i].polled
                              /\ config.boards[i].number \notin skips
                         THEN Append(q, config.boards[i].number) ELSE q
           p0 == [i \in 0..n |-> p[i]]
<1>1. \A i \in 0..(n + 1) : p[i] = IF i = 0 THEN << >> ELSE step(p[i - 1], i)
  BY DEF Gathers
<1>2. ASSUME NEW i \in 0..n PROVE p0[i] = IF i = 0 THEN << >> ELSE step(p0[i - 1], i)
  <2>1. i \in 0..(n + 1) /\ p0[i] = p[i] /\ (i # 0 => p0[i - 1] = p[i - 1])
    OBVIOUS
  <2> HIDE DEF step, p0
  <2> QED
    BY <1>1, <2>1
<1>3. p0 = [i \in 0..n |-> p0[i]]
  OBVIOUS
<1>4. n + 1 \in 0..(n + 1) /\ n + 1 # 0 /\ (n + 1) - 1 = n
  OBVIOUS
<1>5. p[n + 1] = step(p[n], n + 1)
  <2> HIDE DEF step
  <2> QED
    BY <1>1, <1>4
<1> HIDE DEF p0
<1>6. p0 = [i \in 0..n |-> IF i = 0 THEN << >> ELSE step(p0[i - 1], i)]
  <2> HIDE DEF step
  <2> QED
    BY <1>2, <1>3
<1> QED
  BY <1>5, <1>6 DEF Gathers, Chosen, p0

LEMMA GathersMore ==
  ASSUME NEW n \in Nat, NEW p, Gathers(p, n)
  PROVE  \E q : Gathers(q, n + 1)
<1> DEFINE step(q, i) == IF config.boards[i].polled
                              /\ config.boards[i].number \notin skips
                         THEN Append(q, config.boards[i].number) ELSE q
           p1 == [i \in 0..(n + 1) |-> IF i = n + 1 THEN step(p[n], i) ELSE p[i]]
<1>1. \A i \in 0..n : p[i] = IF i = 0 THEN << >> ELSE step(p[i - 1], i)
  BY DEF Gathers
<1> HIDE DEF step
<1>2. ASSUME NEW i \in 0..(n + 1)
      PROVE  p1[i] = IF i = 0 THEN << >> ELSE step(p1[i - 1], i)
  <2>1. CASE i = n + 1
    <3>1. p1[i] = step(p[n], i) /\ i # 0 /\ p1[i - 1] = p[n]
      BY <2>1
    <3> HIDE DEF p1
    <3> QED
      BY <3>1
  <2>2. CASE i # n + 1
    <3>1. i \in 0..n /\ p1[i] = p[i] /\ (i # 0 => p1[i - 1] = p[i - 1])
      BY <2>2
    <3> HIDE DEF p1
    <3> QED
      BY <1>1, <3>1
  <2> QED
    BY <2>1, <2>2
<1>3. p1 = [i \in 0..(n + 1) |-> p1[i]]
  OBVIOUS
<1> HIDE DEF p1
<1>4. p1 = [i \in 0..(n + 1) |-> IF i = 0 THEN << >> ELSE step(p1[i - 1], i)]
  BY <1>2, <1>3
<1>5. Gathers(p1, n + 1)
  BY <1>4 DEF Gathers, step
<1> QED
  BY <1>5

\* The loop goes one board on.
LEMMA GatherBoards ==
  TypeInv /\ PhaseInv /\ GatherInv /\ ConfigureBoard => GatherInv'
<1> SUFFICES ASSUME TypeInv, PhaseInv, GatherInv, ConfigureBoard PROVE GatherInv'
  OBVIOUS
<1>1. /\ pc = "boards" /\ pc' = "boards" /\ index' = index + 1
      /\ index <= Len(config.boards) /\ config' = config /\ skips' = skips
      /\ switchBoards' = IF Chosen(index)
                         THEN Append(switchBoards, config.boards[index].number)
                         ELSE switchBoards
  BY DEF ConfigureBoard, Chosen, file
<1>2. /\ config \in Configs /\ Len(config.boards) \in Nat
      /\ index \in Nat /\ index > 0
  BY <1>1, BoardType DEF PhaseInv, TypeInv, TypeOK
<1> DEFINE n == index - 1
<1>3. n \in Nat /\ index = n + 1 /\ index' - 1 = n + 1
      /\ index' \in 1..(Len(config.boards) + 1)
  BY <1>1, <1>2
<1>4. /\ \E p : Gathers(p, n)
      /\ \A p : Gathers(p, n) => p[n] = switchBoards
  BY <1>1 DEF GatherInv
<1> HIDE DEF n
<1>5. \E p : Gathers(p, n + 1)
  BY <1>3, <1>4, GathersMore
<1>6. ASSUME NEW p, Gathers(p, n + 1) PROVE p[n + 1] = switchBoards'
  <2>1. /\ Gathers([i \in 0..n |-> p[i]], n)
        /\ p[n + 1] = IF Chosen(n + 1)
                      THEN Append(p[n], config.boards[n + 1].number) ELSE p[n]
    BY <1>3, <1>6, GathersLess
  <2>2. n \in 0..n
    BY <1>3
  <2>3. p[n] = switchBoards
    BY <1>4, <2>1, <2>2
  <2> QED
    BY <1>1, <1>3, <2>1, <2>3
<1>7. \A p : Gathers(p, index - 1)' <=> Gathers(p, n + 1)
  BY <1>1, <1>3 DEF Gathers
<1> QED
  BY <1>1, <1>3, <1>5, <1>6, <1>7 DEF GatherInv, Late

LEMMA GatherStep ==
  TypeInv /\ PhaseInv /\ GatherInv /\ [Next]_vars => GatherInv'
<1> SUFFICES ASSUME TypeInv, PhaseInv, GatherInv, [Next]_vars, pc' # "idle"
             PROVE  GatherInv'
  BY DEF GatherInv
<1>1. CASE Open
  <2>1. /\ pc' = "boards" /\ index' = 1 /\ switchBoards' = << >>
        /\ config' = config /\ config \in Configs /\ skips' = skips
    BY <1>1 DEF Open, Connect, file, TypeInv, TypeOK
  <2>2. 1 \in 1..(Len(config.boards) + 1)
    BY <2>1, BoardType
  <2>3. \A p : Gathers(p, index - 1)' <=> p = [i \in 0..0 |-> << >>]
    BY <2>1 DEF Gathers
  <2> DEFINE none == [i \in 0..0 |-> << >>]
  <2>4. none[0] = << >>
    OBVIOUS
  <2> HIDE DEF none
  <2>5. index' - 1 = 0
    BY <2>1
  <2>6. pc' \notin Late
    BY <2>1 DEF Late
  <2> QED
    BY <2>1, <2>2, <2>3, <2>4, <2>5, <2>6 DEF GatherInv, none
<1>2. CASE ConfigureBoard
  BY <1>2, GatherBoards
<1>3. CASE /\ UNCHANGED << config, skips, index, switchBoards >>
           /\ pc # "idle" /\ (pc' \in Late => pc \in Late \/ index > Len(config.boards))
  <2>1. /\ index \in 1..(Len(config.boards) + 1)
        /\ pc \in Late => index = Len(config.boards) + 1
        /\ \E p : Gathers(p, index - 1)
        /\ \A p : Gathers(p, index - 1) => p[index - 1] = switchBoards
    BY <1>3 DEF GatherInv
  <2>2. \A p : Gathers(p, index - 1)' <=> Gathers(p, index - 1)
    BY <1>3 DEF Gathers
  <2>3. config \in Configs /\ Len(config.boards) \in Nat
    BY <1>3, BoardType DEF PhaseInv
  <2>4. pc' \in Late => index = Len(config.boards) + 1
    BY <1>3, <2>1, <2>3
  <2> QED
    BY <1>3, <2>1, <2>2, <2>4 DEF GatherInv
<1>4. CASE Collect
  BY <1>3, <1>4 DEF Collect, file
<1>5. CASE ConfigureDevices
  BY <1>3, <1>5 DEF ConfigureDevices, file, Late
<1>6. CASE SetUpChain
  BY <1>3, <1>6 DEF SetUpChain, file, Late
<1>7. CASE GiveUp \/ Start
  BY <1>3, <1>7 DEF GiveUp, Start, file, Late
<1>8. CASE HostAsks
  BY <1>3, <1>8 DEF HostAsks, file, attempt, Late
<1>9. CASE UNCHANGED vars
  BY <1>3, <1>9 DEF vars, file, attempt
<1>10. ~(\E c \in Configs : LoadConfiguration(c))
       /\ ~(\E boards \in SkipLists : SetSkippedBoardsCsv(boards))
       /\ ~OpenFails /\ ~Disconnect
  BY DEF LoadConfiguration, SetSkippedBoardsCsv, OpenFails, Connect, Disconnect,
     attempt
<1> QED
  BY <1>1, <1>2, <1>4, <1>5, <1>6, <1>7, <1>8, <1>9, <1>10 DEF Next

\* What SetUpChain leaves of the polled boards: the chain, and what each of the
\* boards that are present was told.
ChainInv ==
  pc \in {"setup", "running"} =>
    /\ \E n \in 0..Least(MaxBoards, Len(switchBoards)) :
         /\ chain = SubSeq(switchBoards, 1, n)
         /\ \A m \in 0..Least(MaxBoards, Len(switchBoards)) :
              (\A i \in 1..m : switchBoards[i] < MaxBoards) => m <= n
    /\ told = [b \in Elements(switchBoards) \cap present |-> NextBoard(b)]

LEMMA ChainStep == ChainInv /\ [Next]_vars => ChainInv'
<1> SUFFICES ASSUME ChainInv, [Next]_vars, pc' \in {"setup", "running"}
             PROVE  ChainInv'
  BY DEF ChainInv
<1>1. CASE SetUpChain
  <2> DEFINE heads == Elements(switchBoards) \cap present
  <2>1. /\ SetActiveSwitchBoards(switchBoards) /\ Send(heads)
        /\ switchBoards' = switchBoards
        /\ told' = [b \in heads |-> NextBoard(b)]
    BY <1>1 DEF SetUpChain
  <2>2. present' = present
    <3>1. PICK acked \in SUBSET (heads \ commSkips) : present' = present \cup acked
      BY <2>1 DEF Send
    <3> QED
      BY <3>1
  <2>3. \E n \in 0..Least(MaxBoards, Len(switchBoards)) :
          /\ chain' = SubSeq(switchBoards, 1, n)
          /\ \A m \in 0..Least(MaxBoards, Len(switchBoards)) :
               (\A i \in 1..m : switchBoards[i] < MaxBoards) => m <= n
    BY <2>1 DEF SetActiveSwitchBoards
  <2>4. \A b : NextBoard(b)' = NextBoard(b)
    BY <2>1 DEF NextBoard
  <2>5. told' = [b \in Elements(switchBoards') \cap present' |-> NextBoard(b)']
    BY <2>1, <2>2, <2>4
  <2> HIDE DEF heads
  <2> QED
    BY <2>1, <2>3, <2>5 DEF ChainInv
<1>2. CASE pc \in {"setup", "running"} /\ UNCHANGED << chain, switchBoards, told, present >>
  <2>1. \A b : NextBoard(b)' = NextBoard(b)
    BY <1>2 DEF NextBoard
  <2>2. told' = [b \in Elements(switchBoards') \cap present' |-> NextBoard(b)']
    BY <1>2, <2>1 DEF ChainInv
  <2> QED
    BY <1>2, <2>2 DEF ChainInv
<1>3. CASE Start
  BY <1>2, <1>3 DEF Start, heard
<1>4. CASE HostAsks
  BY <1>2, <1>4 DEF HostAsks, heard, attempt
<1>5. CASE UNCHANGED vars
  BY <1>2, <1>5 DEF vars, heard, attempt
<1>6. ~(\E c \in Configs : LoadConfiguration(c))
      /\ ~(\E boards \in SkipLists : SetSkippedBoardsCsv(boards))
      /\ ~OpenFails /\ ~Open /\ ~Disconnect /\ ~ConfigureBoard /\ ~Collect
      /\ ~ConfigureDevices /\ ~GiveUp
  <2>1. ~(\E c \in Configs : LoadConfiguration(c))
        /\ ~(\E boards \in SkipLists : SetSkippedBoardsCsv(boards)) /\ ~OpenFails
    BY DEF LoadConfiguration, SetSkippedBoardsCsv, OpenFails, Connect, attempt
  <2>2. ~Open /\ ~Disconnect /\ ~ConfigureBoard /\ ~Collect
        /\ ~ConfigureDevices /\ ~GiveUp
    BY DEF Open, Disconnect, ConfigureBoard, Collect, ConfigureDevices, GiveUp
  <2> QED
    BY <2>1, <2>2
<1> QED
  BY <1>1, <1>3, <1>4, <1>5, <1>6 DEF Next

\* Different numbers below a bound are no more than the bound.
LEMMA FewBoards ==
  ASSUME NEW s \in Seq(Nat), NEW bound \in Nat, Distinct(s),
         \A i \in DOMAIN s : s[i] < bound
  PROVE  Len(s) <= bound
<1> DEFINE Places == 1..Len(s)
           Range0 == 0..(bound - 1)
<1>1. Len(s) \in Nat /\ DOMAIN s = Places /\ s = [i \in Places |-> s[i]]
      /\ \A i \in Places : s[i] \in Nat
  OBVIOUS
<1>2. \A i \in Places : s[i] \in Range0
  BY <1>1
<1>3. s \in [Places -> Range0]
  <2> HIDE DEF Range0
  <2> QED
    BY <1>1, <1>2
<1>4. s \in Injection(Places, Range0)
  BY <1>1, <1>3 DEF Distinct, Injection, IsInjective
<1>5. /\ IsFiniteSet(Places) /\ Cardinality(Places) = Len(s)
      /\ IsFiniteSet(Range0) /\ Cardinality(Range0) = bound
  <2>1. 1 \in Int /\ Len(s) \in Int /\ 0 \in Int /\ bound - 1 \in Int
    BY <1>1
  <2>2. /\ IsFiniteSet(Places)
        /\ Cardinality(Places) = IF 1 > Len(s) THEN 0 ELSE Len(s) - 1 + 1
        /\ IsFiniteSet(Range0)
        /\ Cardinality(Range0) = IF 0 > bound - 1 THEN 0 ELSE bound - 1 - 0 + 1
    BY <2>1, FS_Interval
  <2> HIDE DEF Places, Range0
  <2> QED
    BY <1>1, <2>2
<1> HIDE DEF Places, Range0
<1> QED
  BY <1>4, <1>5, FS_Injection

\* In a session the boards pass the turn on in the order in which the host expects
\* them: the polled boards of the configuration that are not skipped, whatever
\* failed attempts left behind (PPUC::Connect, SetActiveSwitchBoards).
THEOREM ChainAgreesHolds == Spec => []ChainAgrees
<1> DEFINE I == TypeInv /\ PhaseInv /\ GatherInv /\ ChainInv
<1>1. Init => I
  <2>1. Init => GatherInv /\ ChainInv
    BY DEF Init, GatherInv, ChainInv
  <2> QED
    BY <2>1, InitType
<1>2. I /\ [Next]_vars => I'
  BY NextType, GatherStep, ChainStep
<1>3. I => ChainAgrees
  <2> SUFFICES ASSUME I, pc = "running",
                      \A i \in DOMAIN Polled : Polled[i] < MaxBoards,
                      \A i, j \in DOMAIN Polled : Polled[i] = Polled[j] => i = j
               PROVE  /\ chain = Polled
                      /\ \A i \in DOMAIN chain :
                           chain[i] \in present =>
                             told[chain[i]] = IF i < Len(chain) THEN chain[i + 1]
                                                                ELSE None
    BY DEF ChainAgrees, Running
  <2> DEFINE B == switchBoards
             L == Len(switchBoards)
  <2>1. Polled = B
    <3>1. /\ config \in Configs /\ Len(config.boards) \in Nat
          /\ index = Len(config.boards) + 1
          /\ \E p : Gathers(p, index - 1)
          /\ \A p : Gathers(p, index - 1) => p[index - 1] = switchBoards
      BY BoardType DEF PhaseInv, GatherInv, Late
    <3>2. index - 1 = Len(config.boards)
      BY <3>1
    <3> QED
      BY <3>1, <3>2, PolledGathers
  <2>2. B \in Seq(Nat) /\ L \in Nat /\ DOMAIN B = 1..L
    <3>1. BoardNumbers \subseteq Nat
      BY ConfigAssumption, BoundAssumption
    <3>2. B \in Seq(BoardNumbers)
      BY DEF TypeInv, TypeOK
    <3>3. B \in Seq(Nat)
      BY <3>1, <3>2, SeqWidens
    <3> QED
      BY <3>3
  <2>3. L <= MaxBoards /\ Least(MaxBoards, L) = L
    <3>1. MaxBoards \in Nat
      BY BoundAssumption
    <3>2. Distinct(B) /\ \A i \in DOMAIN B : B[i] < MaxBoards
      BY <2>1 DEF Distinct
    <3>3. L <= MaxBoards
      BY <2>2, <3>1, <3>2, FewBoards
    <3> HIDE DEF B, L
    <3> QED
      BY <2>2, <3>1, <3>3 DEF Least
  <2>4. chain = B
    <3>1. PICK n \in 0..L :
            /\ chain = SubSeq(B, 1, n)
            /\ \A m \in 0..L : (\A i \in 1..m : B[i] < MaxBoards) => m <= n
      BY <2>3 DEF ChainInv
    <3>2. L \in 0..L /\ \A i \in 1..L : B[i] < MaxBoards
      BY <2>1, <2>2
    <3>3. L <= n
      BY <3>1, <3>2
    <3>4. n = L
      <4> HIDE DEF B, L
      <4> QED
        BY <2>2, <3>1, <3>3
    <3>5. SubSeq(B, 1, L) = B
      BY <2>2
    <3> QED
      BY <3>1, <3>4, <3>5
  <2>5. ASSUME NEW i \in DOMAIN B, B[i] \in present
        PROVE  told[B[i]] = IF i < L THEN B[i + 1] ELSE None
    <3> DEFINE at == CHOOSE j \in DOMAIN B : /\ B[j] = B[i]
                                             /\ \A l \in DOMAIN B : B[l] = B[i] => l <= j
    <3>1. \A j \in DOMAIN B : B[j] = B[i] => j = i
      BY <2>1
    <3>2. at = i
      BY <2>2, <3>1
    <3>3. B[i] \in Elements(B) \cap present
      BY <2>5 DEF Elements
    <3>4. told[B[i]] = IF at < L THEN B[at + 1] ELSE None
      BY <3>3 DEF ChainInv, NextBoard
    <3> QED
      BY <3>2, <3>4
  <2> QED
    BY <2>1, <2>4, <2>5
<1> HIDE DEF I
<1> QED
  BY <1>1, <1>2, <1>3, PTL DEF Spec
=============================================================================
