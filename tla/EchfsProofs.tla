----------------------------- MODULE EchfsProofs -----------------------------
(***************************************************************************)
(* Theorems about Echfs, for any number of blocks, directory entries,       *)
(* names, cached files, cached blocks and handles.                          *)
(***************************************************************************)
EXTENDS Echfs, FiniteSetTheorems, SequenceTheorems, WellFoundedInduction, TLAPS

(***************************************************************************)
(* Numbers and sets                                                         *)
(***************************************************************************)

(* A set of numbers that is not empty has a smallest member. *)
LEMMA Smallest ==
    ASSUME NEW S, S \subseteq Nat, S # {}
    PROVE  \E x \in S : \A y \in S : x <= y
<1> DEFINE Less == {ss \in Nat \X Nat : ss[1] < ss[2]}
<1>1. IsWellFoundedOn(Less, Nat) BY NatLessThanWellFounded, Zenon DEF OpToRel
<1>2. PICK x \in S : \A y \in S : ~ (<<y, x>> \in Less)
  <2> HIDE DEF Less
  <2> QED BY <1>1, WFMin
<1>3. ASSUME NEW y \in S PROVE x <= y
  <2>1. x \in Nat /\ y \in Nat /\ ~ (<<y, x>> \in Less) BY <1>2
  <2> QED BY <2>1
<1> QED BY <1>3

(* Min is the smallest member. *)
LEMMA MinIs ==
    ASSUME NEW S, S \subseteq Nat, S # {}
    PROVE  Min(S) \in S /\ \A y \in S : Min(S) <= y
BY Smallest DEF Min

(* Max is the largest member. *)
LEMMA MaxIs ==
    ASSUME NEW n \in Nat, NEW S, S \subseteq 0 .. n, S # {}
    PROVE  Max(S) \in S /\ \A y \in S : Max(S) >= y
<1> DEFINE T == {n - y : y \in S}
<1>1. T \subseteq Nat /\ T # {}
  <2>1. \A y \in S : n - y \in Nat OBVIOUS
  <2>2. PICK y : y \in S OBVIOUS
  <2>3. n - y \in T BY <2>2
  <2> QED BY <2>1, <2>3
<1>2. PICK x \in T : \A y \in T : x <= y
  <2> HIDE DEF T
  <2> QED BY <1>1, Smallest
<1>3. PICK m \in S : x = n - m BY <1>2
<1>4. \A y \in S : m >= y
  <2> SUFFICES ASSUME NEW y \in S PROVE m >= y OBVIOUS
  <2>1. n - y \in T OBVIOUS
  <2>2. n - m <= n - y BY <1>2, <1>3, <2>1
  <2> QED BY <2>2
<1> QED BY <1>4 DEF Max

(* What holds of 0 and of the successor of each number below m it holds of,
   holds up to m. *)
LEMMA UpTo ==
    ASSUME NEW m \in Nat, NEW S, 0 \in S, \A k \in 0 .. m - 1 : k \in S => k + 1 \in S
    PROVE  m \in S
<1> SUFFICES ASSUME m \notin S PROVE FALSE OBVIOUS
<1> DEFINE Rest == {k \in 0 .. m : k \notin S}
<1>1. PICK x \in Rest : \A y \in Rest : x <= y
  <2>1. Rest \subseteq Nat /\ Rest # {} OBVIOUS
  <2> HIDE DEF Rest
  <2> QED BY <2>1, Smallest
<1>2. x # 0 /\ x - 1 \in 0 .. m - 1 BY <1>1
<1>3. x - 1 \in S BY <1>1, <1>2
<1> QED BY <1>1, <1>2, <1>3

(* A function that is defined by recursion on numbers up to m exists. *)
Recurs(f, m, V, init, step) ==
    f \in [0 .. m -> V] /\ f[0] = init /\ \A k \in 0 .. m - 1 : f[k + 1] = step[<<k + 1, f[k]>>]

(* A function that is defined by recursion on 0 .. m exists. *)
LEMMA Recursion ==
    ASSUME NEW m \in Nat, NEW V, NEW init \in V, NEW step \in [Nat \X V -> V]
    PROVE  \E f : Recurs(f, m, V, init, step)
<1> DEFINE Fix(f, j) == /\ f \in [0 .. j -> V]
                        /\ f[0] = init
                        /\ \A k \in 0 .. j - 1 : f[k + 1] = step[<<k + 1, f[k]>>]
           S == {j \in Nat : \E f : Fix(f, j)}
<1>1. 0 \in S
  <2>1. Fix([k \in 0 .. 0 |-> init], 0) OBVIOUS
  <2> HIDE DEF Fix
  <2> QED BY <2>1
<1>2. ASSUME NEW j \in 0 .. m - 1, j \in S PROVE j + 1 \in S
  <2>1. PICK f : Fix(f, j) BY <1>2
  <2> DEFINE g == [k \in 0 .. j + 1 |-> IF k <= j THEN f[k] ELSE step[<<j + 1, f[j]>>]]
  <2>2. step[<<j + 1, f[j]>>] \in V BY <2>1
  <2>3. g \in [0 .. j + 1 -> V] BY <2>1, <2>2
  <2>4. g[0] = init BY <2>1
  <2>5. ASSUME NEW k \in 0 .. (j + 1) - 1 PROVE g[k + 1] = step[<<k + 1, g[k]>>]
    <3>1. CASE k = j BY <3>1
    <3>2. CASE k # j
      <4>1. k \in 0 .. j - 1 /\ k + 1 <= j /\ k <= j BY <3>2
      <4>2. f[k + 1] = step[<<k + 1, f[k]>>] BY <2>1, <4>1
      <4>3. g[k + 1] = f[k + 1] /\ g[k] = f[k] BY <4>1
      <4> HIDE DEF g
      <4> QED BY <4>2, <4>3
    <3> QED BY <3>1, <3>2
  <2>6. Fix(g, j + 1) BY <2>3, <2>4, <2>5
  <2> HIDE DEF Fix, g
  <2> QED BY <2>6
<1>3. m \in S
  <2> HIDE DEF S
  <2> QED BY <1>1, <1>2, UpTo
<1>4. PICK f : Fix(f, m) BY <1>3
<1> QED BY <1>4 DEF Recurs

(***************************************************************************)
(* Chains                                                                   *)
(***************************************************************************)

(* Sequence s is the chain that starts at b in table f, without repetition. *)
Follows(f, b, s) ==
    /\ s \in Seq(Blocks) /\ IsInjective(s)
    /\ b = IF s = <<>> THEN END_OF_CHAIN ELSE s[1]
    /\ \A k \in 1 .. Len(s) : f[s[k]] = IF k = Len(s) THEN END_OF_CHAIN ELSE s[k + 1]

(* The end of a chain is not a block. *)
LEMMA Ends == /\ END_OF_CHAIN \in Nat /\ END_OF_CHAIN \notin Blocks /\ END_OF_CHAIN # 0 /\ 0 \notin Blocks
              /\ NBlocks \in Nat /\ Blocks \subseteq Nat
BY EchfsAssumption DEF END_OF_CHAIN, Blocks

(* One step of the walk along a chain. *)
WalkOn(b, n, w) ==
    LET next == IF n = 1 THEN b ELSE IF w = <<>> THEN 0 ELSE fat[Last(w)]
    IN  IF next \in Blocks THEN Append(w, next) ELSE w

(* Chain unfolds to a walk of NBlocks steps. *)
LEMMA ChainUnfolds ==
    ASSUME NEW b
    PROVE  \E w \in [0 .. NBlocks -> Seq(Blocks)] :
               /\ Chain(b) = w[NBlocks] /\ w[0] = <<>>
               /\ \A k \in 0 .. NBlocks - 1 : w[k + 1] = WalkOn(b, k + 1, w[k])
<1> DEFINE step == [x \in Nat \X Seq(Blocks) |-> WalkOn(b, x[1], x[2])]
<1>1. step \in [Nat \X Seq(Blocks) -> Seq(Blocks)]
  <2>1. ASSUME NEW n \in Nat, NEW w \in Seq(Blocks) PROVE WalkOn(b, n, w) \in Seq(Blocks) BY DEF WalkOn
  <2> QED BY <2>1
<1>2. <<>> \in Seq(Blocks) /\ NBlocks \in Nat BY Ends
<1>3. PICK g \in [0 .. NBlocks -> Seq(Blocks)] :
           g[0] = <<>> /\ \A k \in 0 .. NBlocks - 1 : g[k + 1] = step[<<k + 1, g[k]>>]
  <2> DEFINE V == Seq(Blocks)
             none == <<>>
  <2>1. none \in V /\ step \in [Nat \X V -> V] BY <1>1
  <2> HIDE DEF step, V, none
  <2>2. \E f : Recurs(f, NBlocks, V, none, step) BY <1>2, <2>1, Recursion
  <2> QED BY <2>2 DEF Recurs, V, none
<1>4. g = [n \in 0 .. NBlocks |->
             IF n = 0 THEN <<>>
             ELSE LET next == IF n = 1 THEN b ELSE IF g[n - 1] = <<>> THEN 0 ELSE fat[Last(g[n - 1])]
                  IN  IF next \in Blocks THEN Append(g[n - 1], next) ELSE g[n - 1]]
  <2>1. ASSUME NEW k \in 0 .. NBlocks PROVE g[k] = IF k = 0 THEN <<>> ELSE WalkOn(b, k, g[k - 1])
    <3>1. CASE k = 0 BY <1>3, <3>1
    <3>2. CASE k # 0
      <4>1. k - 1 \in 0 .. NBlocks - 1 /\ (k - 1) + 1 = k /\ <<k, g[k - 1]>> \in Nat \X Seq(Blocks) BY <3>2, Ends
      <4>2. step[<<k, g[k - 1]>>] = WalkOn(b, k, g[k - 1]) BY <4>1
      <4> HIDE DEF step
      <4>3. g[(k - 1) + 1] = step[<<(k - 1) + 1, g[k - 1]>>] BY <1>3, <4>1
      <4> QED BY <3>2, <4>1, <4>2, <4>3
    <3> QED BY <3>1, <3>2
  <2> HIDE DEF step
  <2> QED BY <2>1 DEF WalkOn
<1> DEFINE walk[n \in 0 .. NBlocks] ==
               IF n = 0 THEN <<>>
               ELSE LET next == IF n = 1 THEN b ELSE IF walk[n - 1] = <<>> THEN 0 ELSE fat[Last(walk[n - 1])]
                    IN  IF next \in Blocks THEN Append(walk[n - 1], next) ELSE walk[n - 1]
<1>5. Chain(b) = walk[NBlocks] BY DEF Chain
<1>6. walk = [n \in 0 .. NBlocks |->
                IF n = 0 THEN <<>>
                ELSE LET next == IF n = 1 THEN b ELSE IF walk[n - 1] = <<>> THEN 0 ELSE fat[Last(walk[n - 1])]
                     IN  IF next \in Blocks THEN Append(walk[n - 1], next) ELSE walk[n - 1]]
      BY <1>4, Zenon
<1> HIDE DEF walk
<1>7. walk[0] = <<>> BY <1>2, <1>6
<1>8. \A k \in 0 .. NBlocks - 1 : walk[k + 1] = WalkOn(b, k + 1, walk[k])
  <2> SUFFICES ASSUME NEW k \in 0 .. NBlocks - 1 PROVE walk[k + 1] = WalkOn(b, k + 1, walk[k]) OBVIOUS
  <2>1. k + 1 \in 0 .. NBlocks /\ k + 1 # 0 /\ (k + 1) - 1 = k BY Ends
  <2> QED BY <1>6, <2>1 DEF WalkOn
<1>9. walk \in [0 .. NBlocks -> Seq(Blocks)]
  <2> DEFINE S == {k \in 0 .. NBlocks : walk[k] \in Seq(Blocks)}
  <2>1. 0 \in S BY <1>2, <1>7
  <2>2. ASSUME NEW k \in 0 .. NBlocks - 1, walk[k] \in Seq(Blocks) PROVE walk[k + 1] \in Seq(Blocks)
    <3>1. walk[k + 1] = WalkOn(b, k + 1, walk[k]) BY <1>8
    <3> QED BY <2>2, <3>1 DEF WalkOn
  <2>3. ASSUME NEW m \in 0 .. NBlocks PROVE m \in S
    <3>1. \A k \in 0 .. m - 1 : k \in S => k + 1 \in S BY <2>2, Ends
    <3> HIDE DEF S
    <3> QED BY <2>1, <3>1, UpTo
  <2>4. \A m \in 0 .. NBlocks : walk[m] \in Seq(Blocks) BY <2>3
  <2> QED BY <1>6, <2>4
<1> QED BY <1>5, <1>7, <1>8, <1>9

(* The walk finds the one chain there is. *)
LEMMA ChainIs ==
    ASSUME NEW b, NEW s, Follows(fat, b, s), Len(s) <= NBlocks
    PROVE  Chain(b) = s
<1>1. PICK w \in [0 .. NBlocks -> Seq(Blocks)] :
           /\ Chain(b) = w[NBlocks] /\ w[0] = <<>>
           /\ \A k \in 0 .. NBlocks - 1 : w[k + 1] = WalkOn(b, k + 1, w[k])
      BY ChainUnfolds
<1>2. s \in Seq(Blocks) /\ Len(s) \in Nat BY DEF Follows
<1>3. CASE s = <<>>
  <2> DEFINE S == {k \in 0 .. NBlocks : w[k] = <<>>}
  <2>1. 0 \in S BY <1>1, Ends
  <2>2. ASSUME NEW k \in 0 .. NBlocks - 1, w[k] = <<>> PROVE w[k + 1] = <<>>
    <3>1. w[k + 1] = WalkOn(b, k + 1, w[k]) BY <1>1
    <3> QED BY <1>3, <2>2, <3>1, Ends DEF WalkOn, Follows
  <2>3. \A k \in 0 .. NBlocks - 1 : k \in S => k + 1 \in S BY <2>2, Ends
  <2>4. NBlocks \in S
    <3> HIDE DEF S
    <3> QED BY <2>1, <2>3, Ends, UpTo
  <2> QED BY <1>1, <1>3, <2>4
<1>4. CASE s # <<>>
  <2> DEFINE P(k) == IF k <= Len(s) THEN Len(w[k]) = k /\ \A j \in 1 .. k : w[k][j] = s[j] ELSE w[k] = s
             S == {k \in 0 .. NBlocks : P(k)}
  <2>1. 0 \in S BY <1>1, <1>2, Ends
  <2>2. ASSUME NEW k \in 0 .. NBlocks - 1, P(k) PROVE P(k + 1)
    <3>1. w[k + 1] = WalkOn(b, k + 1, w[k]) /\ w[k] \in Seq(Blocks) /\ w[k + 1] \in Seq(Blocks) BY <1>1, Ends
    <3>2. CASE k < Len(s)
      <4> DEFINE next == IF k + 1 = 1 THEN b ELSE IF w[k] = <<>> THEN 0 ELSE fat[Last(w[k])]
      <4>1. Len(w[k]) = k /\ \A j \in 1 .. k : w[k][j] = s[j] BY <2>2, <3>2
      <4>2. next = s[k + 1]
        <5>1. CASE k = 0 BY <1>4, <5>1 DEF Follows
        <5>2. CASE k # 0
          <6>1. Last(w[k]) = s[k] /\ w[k] # <<>> BY <3>1, <4>1, <5>2 DEF Last
          <6>2. fat[s[k]] = s[k + 1] BY <1>2, <3>2, <5>2 DEF Follows
          <6> QED BY <5>2, <6>1, <6>2
        <5> QED BY <5>1, <5>2
      <4>3. s[k + 1] \in Blocks BY <1>2, <3>2
      <4>4. w[k + 1] = Append(w[k], s[k + 1])
        <5>1. WalkOn(b, k + 1, w[k]) = IF next \in Blocks THEN Append(w[k], next) ELSE w[k] BY DEF WalkOn
        <5> QED BY <3>1, <4>2, <4>3, <5>1
      <4>5. Len(w[k + 1]) = k + 1 /\ \A j \in 1 .. k + 1 : w[k + 1][j] = s[j]
        <5>1. Len(w[k + 1]) = k + 1 /\ w[k + 1][k + 1] = s[k + 1] BY <3>1, <4>1, <4>3, <4>4
        <5>2. \A j \in 1 .. k : w[k + 1][j] = w[k][j]
          <6>1. \A j \in 1 .. Len(w[k]) : Append(w[k], s[k + 1])[j] = w[k][j] BY <3>1, <4>3, AppendProperties
          <6> QED BY <4>1, <4>4, <6>1
        <5> QED BY <4>1, <5>1, <5>2
      <4> QED BY <1>2, <3>2, <4>5
    <3>3. CASE k >= Len(s)
      <4>1. w[k] = s
        <5>1. CASE k = Len(s) BY <1>2, <2>2, <3>1, <5>1
        <5> QED BY <1>2, <2>2, <3>3, <5>1
      <4>2. fat[Last(s)] = END_OF_CHAIN /\ k + 1 # 1
        <5>1. Len(s) \in 1 .. Len(s) BY <1>2, <1>4
        <5> QED BY <1>2, <3>3, <5>1 DEF Follows, Last
      <4>3. w[k + 1] = s BY <1>4, <3>1, <4>1, <4>2, Ends DEF WalkOn
      <4> QED BY <1>2, <3>3, <4>3
    <3> QED BY <1>2, <3>2, <3>3
  <2>3. \A k \in 0 .. NBlocks - 1 : k \in S => k + 1 \in S
    <3> HIDE DEF P
    <3> QED BY <2>2, Ends
  <2>4. NBlocks \in S
    <3> HIDE DEF S
    <3> QED BY <2>1, <2>3, Ends, UpTo
  <2>5. w[NBlocks] \in Seq(Blocks) BY <1>1, Ends
  <2>6. w[NBlocks] = s
    <3>1. CASE NBlocks = Len(s) BY <1>2, <2>4, <2>5, <3>1
    <3> QED BY <1>2, <2>4, <3>1, Ends
  <2> QED BY <1>1, <2>6
<1> QED BY <1>3, <1>4

(* A chain without repetition is not longer than the table. *)
LEMMA ShortEnough ==
    ASSUME NEW s \in Seq(Blocks), IsInjective(s)
    PROVE  Len(s) <= NBlocks /\ Len(s) \in Nat
<1>1. Len(s) \in Nat /\ s \in [1 .. Len(s) -> Blocks] /\ DOMAIN s = 1 .. Len(s) OBVIOUS
<1>2. IsFiniteSet(1 .. Len(s)) /\ Cardinality(1 .. Len(s)) = Len(s) BY <1>1, FS_Interval
<1>3. IsFiniteSet(Blocks) /\ Cardinality(Blocks) = NBlocks BY Ends, FS_Interval DEF Blocks
<1>4. CASE Len(s) > NBlocks
  <2>1. \E x, y \in 1 .. Len(s) : x # y /\ s[x] = s[y]
    <3> DEFINE D == 1 .. Len(s)
    <3>1. s \in [D -> Blocks] /\ IsFiniteSet(D) /\ Cardinality(Blocks) < Cardinality(D) BY <1>1, <1>2, <1>3, <1>4, Ends
    <3> HIDE DEF D
    <3>2. \E x, y \in D : x # y /\ s[x] = s[y] BY <1>3, <3>1, FS_PigeonHole
    <3> QED BY <3>2 DEF D
  <2> QED BY <1>1, <2>1 DEF IsInjective
<1> QED BY <1>1, <1>4, Ends

(* Chain finds the sequence that follows the table from b. *)
LEMMA ChainFound ==
    ASSUME NEW b, NEW s, Follows(fat, b, s)
    PROVE  Chain(b) = s
BY ChainIs, ShortEnough DEF Follows

(* A table and a chain after one more block. *)
OneMore(e) ==
    [fat |-> allocate_empty_block(e.fat, IF e.map = <<>> THEN 0 ELSE Last(e.map)),
     map |-> Append(e.map, Min(FreeBlocks(e.fat)))]

(* The blocks of table f are used, and those of s among them. *)
Tables == [Blocks -> 0 .. END_OF_CHAIN]
Chains == [fat : Tables, map : Seq(Blocks)]

(* One more block: the table and the chain stay well formed. *)
LEMMA OneMoreType ==
    ASSUME NEW e \in Chains, FreeBlocks(e.fat) # {}
    PROVE  OneMore(e) \in Chains /\ Min(FreeBlocks(e.fat)) \in FreeBlocks(e.fat)
<1>1. FreeBlocks(e.fat) \subseteq Nat /\ FreeBlocks(e.fat) \subseteq Blocks BY Ends DEF FreeBlocks
<1>2. Min(FreeBlocks(e.fat)) \in FreeBlocks(e.fat) BY <1>1, MinIs
<1>3. PICK i \in Blocks : i = Min(FreeBlocks(e.fat)) BY <1>1, <1>2
<1>4. e.fat \in [Blocks -> 0 .. END_OF_CHAIN] /\ e.map \in Seq(Blocks) BY DEF Chains, Tables
<1>5. Append(e.map, i) \in Seq(Blocks) BY <1>4
<1>6. \A prev : allocate_empty_block(e.fat, prev) \in Tables
      BY <1>3, <1>4, Ends DEF allocate_empty_block, Tables, Blocks, END_OF_CHAIN
<1> QED BY <1>2, <1>3, <1>5, <1>6 DEF OneMore, Chains

(* Appending k blocks is k times appending one. *)
Unfolds(x, map, k) ==
    /\ x \in [0 .. k -> Chains] /\ Extended(map, k) = x[k] /\ x[0] = [fat |-> fat, map |-> map]
    /\ \A n \in 0 .. k - 1 : x[n + 1] = OneMore(x[n]) /\ FreeBlocks(x[n].fat) # {}

(* Extended unfolds to k such steps, and each finds a free block. *)
LEMMA ExtendedUnfolds ==
    ASSUME fat \in Tables, NEW map \in Seq(Blocks), NEW k \in Nat, k <= Cardinality(FreeBlocks(fat)),
           map # <<>> => fat[Last(map)] # 0
    PROVE  \E x : Unfolds(x, map, k)
<1> DEFINE start == [fat |-> fat, map |-> map]
           more(e) == IF FreeBlocks(e.fat) = {} THEN e ELSE OneMore(e)
           step == [x \in Nat \X Chains |-> more(x[2])]
<1>1. step \in [Nat \X Chains -> Chains] BY OneMoreType
<1>2. start \in Chains BY DEF Chains
<1>3. PICK g : Recurs(g, k, Chains, start, step)
  <2> HIDE DEF step, start
  <2> QED BY <1>1, <1>2, Recursion
<1>4. g \in [0 .. k -> Chains] /\ g[0] = start BY <1>3 DEF Recurs
<1>5. ASSUME NEW n \in 0 .. k - 1 PROVE g[n + 1] = more(g[n])
  <2>1. g[n] \in Chains /\ n + 1 \in Nat BY <1>4
  <2>2. step[<<n + 1, g[n]>>] = more(g[n]) BY <2>1
  <2>3. g[n + 1] = step[<<n + 1, g[n]>>] BY <1>3 DEF Recurs
  <2> QED BY <2>2, <2>3
<1>6. \A n \in 0 .. k : IsFiniteSet(FreeBlocks(g[n].fat)) /\ Cardinality(FreeBlocks(g[n].fat)) \in Nat
  <2>1. \A f : IsFiniteSet(FreeBlocks(f)) /\ Cardinality(FreeBlocks(f)) \in Nat
    <3>1. IsFiniteSet(Blocks) BY Ends, FS_Interval DEF Blocks
    <3>2. \A f : FreeBlocks(f) \in SUBSET Blocks BY DEF FreeBlocks
    <3> QED BY <3>1, <3>2, FS_Subset, FS_CardinalityType
  <2> QED BY <2>1
<1>7. ASSUME NEW n \in 0 .. k - 1, Cardinality(FreeBlocks(g[n].fat)) = Cardinality(FreeBlocks(fat)) - n,
             g[n].map # <<>> => g[n].fat[Last(g[n].map)] # 0
      PROVE  /\ FreeBlocks(g[n].fat) # {}
             /\ Cardinality(FreeBlocks(g[n + 1].fat)) = Cardinality(FreeBlocks(fat)) - (n + 1)
             /\ g[n + 1].fat[Last(g[n + 1].map)] # 0
  <2>1. Cardinality(FreeBlocks(g[n].fat)) >= 1 /\ IsFiniteSet(FreeBlocks(g[n].fat))
    <3>1. Cardinality(FreeBlocks(g[0].fat)) \in Nat BY <1>6
    <3>2. g[0].fat = fat BY <1>4
    <3> QED BY <1>6, <1>7, <3>1, <3>2
  <2>2. FreeBlocks(g[n].fat) # {} BY <2>1, FS_EmptySet
  <2>3. g[n] \in Chains BY <1>4
  <2>4. PICK i : i = Min(FreeBlocks(g[n].fat)) /\ i \in FreeBlocks(g[n].fat) BY <2>2, <2>3, OneMoreType
  <2>5. g[n + 1] = OneMore(g[n]) BY <1>5, <2>2
  <2>6. FreeBlocks(g[n + 1].fat) = FreeBlocks(g[n].fat) \ {i} /\ g[n + 1].fat[Last(g[n + 1].map)] # 0
    <3>1. PICK f \in Tables, s \in Seq(Blocks) : f = g[n].fat /\ s = g[n].map BY <2>3 DEF Chains
    <3>2. PICK prev \in Nat : prev = IF s = <<>> THEN 0 ELSE Last(s)
      <4>1. s # <<>> => s[Len(s)] \in Blocks OBVIOUS
      <4> QED BY <4>1, Ends DEF Last
    <3>3. i \in Blocks /\ f[i] = 0 BY <2>4, <3>1 DEF FreeBlocks
    <3>4. g[n + 1].map = Append(s, i) /\ g[n + 1].fat = allocate_empty_block(f, prev) BY <2>4, <2>5, <3>1, <3>2 DEF OneMore
    <3>5. allocate_empty_block(f, prev) =
             [b \in Blocks |-> IF b = i THEN END_OF_CHAIN ELSE IF b = prev THEN i ELSE f[b]]
          BY <2>4, <3>1 DEF allocate_empty_block
    <3>6. Last(Append(s, i)) = i BY <3>3 DEF Last
    <3>7. prev \in Blocks => f[prev] # 0 BY <1>7, <3>1, <3>2, Ends
    <3>8. \A b \in Blocks : g[n + 1].fat[b] = 0 <=> f[b] = 0 /\ b # i BY <3>3, <3>4, <3>5, <3>7, Ends
    <3> QED BY <3>1, <3>3, <3>4, <3>5, <3>6, <3>8, Ends DEF FreeBlocks
  <2>7. Cardinality(FreeBlocks(g[n].fat) \ {i}) = Cardinality(FreeBlocks(g[n].fat)) - 1
        BY <2>1, <2>4, FS_RemoveElement
  <2>8. Cardinality(FreeBlocks(g[n].fat)) \in Nat /\ Cardinality(FreeBlocks(fat)) \in Int BY <1>4, <1>6
  <2> QED BY <1>7, <2>2, <2>6, <2>7, <2>8
<1>8. ASSUME NEW n \in 0 .. k
      PROVE  /\ Cardinality(FreeBlocks(g[n].fat)) = Cardinality(FreeBlocks(fat)) - n
             /\ g[n].map # <<>> => g[n].fat[Last(g[n].map)] # 0
  <2> DEFINE S == {j \in 0 .. k : /\ Cardinality(FreeBlocks(g[j].fat)) = Cardinality(FreeBlocks(fat)) - j
                                  /\ g[j].map # <<>> => g[j].fat[Last(g[j].map)] # 0}
  <2>1. 0 \in S
    <3>1. g[0].fat = fat /\ g[0].map = map BY <1>4
    <3>2. Cardinality(FreeBlocks(g[0].fat)) \in Nat BY <1>6
    <3> QED BY <3>1, <3>2
  <2>2. \A j \in 0 .. n - 1 : j \in S => j + 1 \in S BY <1>7
  <2>3. n \in S
    <3> HIDE DEF S
    <3> QED BY <2>1, <2>2, UpTo
  <2> QED BY <2>3
<1>9. \A n \in 0 .. k - 1 : g[n + 1] = OneMore(g[n]) /\ FreeBlocks(g[n].fat) # {}
  <2> SUFFICES ASSUME NEW n \in 0 .. k - 1 PROVE g[n + 1] = OneMore(g[n]) /\ FreeBlocks(g[n].fat) # {} OBVIOUS
  <2>1. FreeBlocks(g[n].fat) # {} BY <1>7, <1>8
  <2> QED BY <1>5, <2>1
<1> HIDE DEF step, more
<1> DEFINE Fix(f) == f = [n \in 0 .. k |->
                            IF n = 0 THEN [fat |-> fat, map |-> map]
                            ELSE LET e == f[n - 1]
                                     prev == IF e.map = <<>> THEN 0 ELSE Last(e.map)
                                 IN  [fat |-> allocate_empty_block(e.fat, prev),
                                      map |-> Append(e.map, Min(FreeBlocks(e.fat)))]]
<1>10. Fix(g)
  <2>1. ASSUME NEW n \in 0 .. k PROVE g[n] = IF n = 0 THEN [fat |-> fat, map |-> map] ELSE OneMore(g[n - 1])
    <3>1. CASE n = 0 BY <1>4, <3>1
    <3>2. CASE n # 0
      <4>1. n - 1 \in 0 .. k - 1 /\ (n - 1) + 1 = n BY <3>2
      <4>2. g[(n - 1) + 1] = OneMore(g[n - 1]) BY <1>9, <4>1
      <4> QED BY <3>2, <4>1, <4>2
    <3> QED BY <3>1, <3>2
  <2>2. g = [n \in 0 .. k |-> IF n = 0 THEN [fat |-> fat, map |-> map] ELSE OneMore(g[n - 1])] BY <1>4, <2>1
  <2> QED BY <2>2, Zenon DEF OneMore
<1> DEFINE ext == CHOOSE f : Fix(f)
<1>11. Extended(map, k) = ext[k] BY DEF Extended
<1>12. Fix(ext) 
  <2> HIDE DEF Fix
  <2> QED BY <1>10
<1> HIDE DEF ext
<1>13. ext \in [0 .. k -> Chains] /\ \A n \in 0 .. k : ext[n] = g[n]
  <2>1. ext = [n \in 0 .. k |-> IF n = 0 THEN [fat |-> fat, map |-> map] ELSE OneMore(ext[n - 1])]
        BY <1>12, Zenon DEF OneMore
  <2> HIDE DEF Fix
  <2> DEFINE S == {j \in 0 .. k : ext[j] = g[j]}
  <2>2. 0 \in S BY <1>4, <2>1
  <2>3. ASSUME NEW j \in 0 .. k - 1, ext[j] = g[j] PROVE ext[j + 1] = g[j + 1]
    <3>1. j + 1 \in 0 .. k /\ j + 1 # 0 /\ (j + 1) - 1 = j OBVIOUS
    <3>2. ext[j + 1] = OneMore(ext[j]) BY <2>1, <3>1
    <3> QED BY <1>9, <2>3, <3>2
  <2>4. ASSUME NEW n \in 0 .. k PROVE n \in S
    <3>1. \A j \in 0 .. n - 1 : j \in S => j + 1 \in S BY <2>3
    <3> HIDE DEF S
    <3> QED BY <2>2, <3>1, UpTo
  <2>5. \A n \in 0 .. k : ext[n] = g[n] BY <2>4
  <2> QED BY <1>4, <2>1, <2>5
<1>14. Extended(map, k) = g[k] BY <1>11, <1>13
<1>15. Unfolds(g, map, k) BY <1>4, <1>9, <1>14 DEF Unfolds
<1> QED BY <1>15

StartsAt(s) == IF s = <<>> THEN END_OF_CHAIN ELSE s[1]

(* Chain s of table f after it has grown by n blocks that were free. *)
Grown(f, s, n, e) ==
    /\ e \in Chains /\ Len(e.map) = Len(s) + n
    /\ \A j \in 1 .. Len(s) : e.map[j] = s[j]
    /\ \A j \in Len(s) + 1 .. Len(s) + n : f[e.map[j]] = 0
    /\ Follows(e.fat, StartsAt(e.map), e.map)
    /\ \A c \in Blocks : e.fat[c] = 0 <=> f[c] = 0 /\ c \notin ToSet(e.map)
    /\ \A c \in Blocks : f[c] # 0 /\ c \notin ToSet(s) => e.fat[c] = f[c]

(* A grown chain is well formed. *)
LEMMA GrownIn == \A f, s, n, e : Grown(f, s, n, e) => e \in Chains
BY DEF Grown

(* The members of a sequence. *)
LEMMA InSeq ==
    ASSUME NEW S, NEW s \in Seq(S)
    PROVE  /\ Len(s) \in Nat /\ ToSet(s) \subseteq S
           /\ \A c : c \in ToSet(s) <=> \E j \in 1 .. Len(s) : s[j] = c
           /\ \A j \in 1 .. Len(s) : s[j] \in S /\ s[j] \in ToSet(s)
<1>1. DOMAIN s = 1 .. Len(s) /\ Len(s) \in Nat OBVIOUS
<1>2. \A j \in 1 .. Len(s) : s[j] \in S OBVIOUS
<1> QED BY <1>1, <1>2 DEF ToSet

(* The blocks of a chain are in use. *)
LEMMA ChainUsed ==
    ASSUME NEW f, NEW b, NEW s, Follows(f, b, s), NEW c \in ToSet(s)
    PROVE  c \in Blocks /\ f[c] # 0
<1>1. s \in Seq(Blocks) BY DEF Follows
<1>2. PICK j \in 1 .. Len(s) : s[j] = c BY <1>1, InSeq
<1>3. c \in Blocks BY <1>1, <1>2
<1>4. f[c] = IF j = Len(s) THEN END_OF_CHAIN ELSE s[j + 1] BY <1>2 DEF Follows
<1>5. j # Len(s) => s[j + 1] \in Blocks
  <2>1. Len(s) \in Nat BY <1>1
  <2>2. j # Len(s) => j + 1 \in 1 .. Len(s) BY <2>1
  <2> QED BY <1>1, <2>2
<1> QED BY <1>3, <1>4, <1>5, Ends

(* One more block of a grown chain. *)
LEMMA GrownStep ==
    ASSUME NEW f \in Tables, NEW s \in Seq(Blocks), NEW n \in Nat, NEW e, Grown(f, s, n, e), FreeBlocks(e.fat) # {}
    PROVE  Grown(f, s, n + 1, OneMore(e))
<1>1. PICK g \in Tables, m \in Seq(Blocks) : g = e.fat /\ m = e.map BY DEF Grown, Chains
<1>2. PICK i \in Blocks : i = Min(FreeBlocks(g)) /\ g[i] = 0 /\ OneMore(e) \in Chains
  <2>1. OneMore(e) \in Chains /\ Min(FreeBlocks(e.fat)) \in FreeBlocks(e.fat) BY OneMoreType DEF Grown
  <2> QED BY <1>1, <2>1 DEF FreeBlocks
<1>3. Len(m) \in Nat /\ Len(s) \in Nat /\ Len(m) = Len(s) + n BY <1>1 DEF Grown
<1>4. f[i] = 0 /\ i \notin ToSet(m) /\ i \notin ToSet(s)
  <2>1. f[i] = 0 /\ i \notin ToSet(m) BY <1>1, <1>2 DEF Grown
  <2>2. ToSet(s) \subseteq ToSet(m)
    <3> SUFFICES ASSUME NEW c \in ToSet(s) PROVE c \in ToSet(m) OBVIOUS
    <3>1. PICK j \in 1 .. Len(s) : s[j] = c BY InSeq
    <3>2. j \in 1 .. Len(m) /\ m[j] = c BY <1>1, <1>3, <3>1 DEF Grown
    <3> QED BY <1>1, <3>2, InSeq
  <2> QED BY <2>1, <2>2
<1>5. PICK prev \in Nat : prev = IF m = <<>> THEN 0 ELSE Last(m)
  <2>1. m # <<>> => m[Len(m)] \in Blocks OBVIOUS
  <2> QED BY <2>1, Ends DEF Last
<1> DEFINE o == OneMore(e)
<1>6. o.map = Append(m, i) /\ o.fat = allocate_empty_block(g, prev) BY <1>1, <1>2, <1>5 DEF OneMore
<1>7. o.fat = [b \in Blocks |-> IF b = i THEN END_OF_CHAIN ELSE IF b = prev THEN i ELSE g[b]]
      BY <1>2, <1>6 DEF allocate_empty_block
<1>8. PICK om \in Seq(Blocks), of \in Tables : om = o.map /\ of = o.fat BY <1>2 DEF Chains
<1>9. o \in Chains BY <1>2
<1> HIDE DEF o
<1>10. Len(om) = Len(m) + 1 /\ om[Len(m) + 1] = i BY <1>6, <1>8
<1>11. \A j \in 1 .. Len(m) : om[j] = m[j]
  <2>1. \A j \in 1 .. Len(m) : Append(m, i)[j] = m[j] BY AppendProperties
  <2> QED BY <1>6, <1>8, <2>1
<1>12. \A c : c \in ToSet(om) <=> c \in ToSet(m) \/ c = i
  <2>1. ASSUME NEW c \in ToSet(om) PROVE c \in ToSet(m) \/ c = i
    <3>1. PICK j \in 1 .. Len(om) : om[j] = c BY InSeq
    <3>2. CASE j = Len(m) + 1 BY <1>10, <3>1, <3>2
    <3>3. CASE j # Len(m) + 1
      <4>1. j \in 1 .. Len(m) BY <1>3, <1>10, <3>3
      <4>2. m[j] = c BY <1>11, <3>1, <4>1
      <4> QED BY <4>1, <4>2, InSeq
    <3> QED BY <3>2, <3>3
  <2>2. ASSUME NEW c \in ToSet(m) PROVE c \in ToSet(om)
    <3>1. PICK j \in 1 .. Len(m) : m[j] = c BY InSeq
    <3>2. j \in 1 .. Len(om) /\ om[j] = c BY <1>3, <1>10, <1>11, <3>1
    <3> QED BY <3>2, InSeq
  <2>3. i \in ToSet(om)
    <3>1. Len(m) + 1 \in 1 .. Len(om) BY <1>3, <1>10
    <3> QED BY <1>10, <3>1, InSeq
  <2> QED BY <2>1, <2>2, <2>3
<1>13. /\ prev # 0 => prev \in ToSet(m) /\ prev = m[Len(m)] /\ Len(m) # 0
       /\ prev = 0 => m = <<>>
  <2>1. m # <<>> => Len(m) \in 1 .. Len(m) /\ m[Len(m)] \in Blocks BY <1>3
  <2> QED BY <1>5, <2>1, InSeq, Ends DEF Last
<1>14. \A c \in Blocks : c # i /\ c # prev => of[c] = g[c] BY <1>7, <1>8
<1>15. of[i] = END_OF_CHAIN /\ (prev \in Blocks => of[prev] = i)
  <2>1. prev \in Blocks => prev # i BY ONLY <1>4, <1>13, Ends
  <2> QED BY <1>7, <1>8, <2>1
<1>16. Follows(of, StartsAt(om), om)
  <2>1. Follows(g, StartsAt(m), m) BY <1>1 DEF Grown
  <2>2. IsInjective(om)
    <3> SUFFICES ASSUME NEW j \in 1 .. Len(om), NEW k \in 1 .. Len(om), om[j] = om[k] PROVE j = k
        BY DEF IsInjective
    <3>1. \A x \in 1 .. Len(om) : x \in 1 .. Len(m) \/ x = Len(m) + 1
      <4>1. Len(m) \in Nat /\ Len(om) = Len(m) + 1 BY <1>3, <1>10
      <4> QED BY ONLY <4>1
    <3>2. \A x \in 1 .. Len(m) : m[x] # i BY <1>4, InSeq
    <3>3. \A x, y \in 1 .. Len(m) : m[x] = m[y] => x = y BY <2>1 DEF Follows, IsInjective
    <3> QED BY <1>10, <1>11, <3>1, <3>2, <3>3
  <2>3. ASSUME NEW k \in 1 .. Len(om) PROVE of[om[k]] = IF k = Len(om) THEN END_OF_CHAIN ELSE om[k + 1]
    <3>1. CASE k = Len(m) + 1 BY <1>10, <1>15, <3>1
    <3>2. CASE k = Len(m)
      <4>1. m # <<>> /\ k \in 1 .. Len(m) BY <1>3, <3>2
      <4>2. prev = m[k] /\ prev \in Blocks BY <1>5, <3>2, <4>1 DEF Last
      <4> QED BY <1>10, <1>11, <1>15, <3>2, <4>1, <4>2
    <3>3. CASE k < Len(m)
      <4>1. k \in 1 .. Len(m) /\ k + 1 \in 1 .. Len(m) /\ Len(m) \in 1 .. Len(m) BY <1>3, <3>3
      <4>2. g[m[k]] = m[k + 1] BY <2>1, <3>3, <4>1 DEF Follows
      <4>3. m[k] # i /\ m[k] # prev /\ m[k] \in Blocks
        <5>1. m[k] # i BY <1>4, <4>1, InSeq
        <5>2. m[k] # m[Len(m)] BY <2>1, <3>3, <4>1 DEF Follows, IsInjective
        <5>3. m[k] \in Blocks BY <4>1
        <5> QED BY <1>13, <5>1, <5>2, <5>3, Ends
      <4>4. of[m[k]] = m[k + 1] BY <1>14, <4>2, <4>3
      <4> QED BY <1>3, <1>10, <1>11, <3>3, <4>1, <4>4
    <3> QED BY <1>3, <1>10, <3>1, <3>2, <3>3
  <2> QED BY <2>2, <2>3 DEF Follows, StartsAt
<1>17. \A c \in Blocks : of[c] = 0 <=> f[c] = 0 /\ c \notin ToSet(om)
  <2>1. \A c \in Blocks : g[c] = 0 <=> f[c] = 0 /\ c \notin ToSet(m) BY <1>1 DEF Grown
  <2> QED BY <1>12, <1>13, <1>14, <1>15, <2>1, Ends
<1>18. ASSUME NEW c \in Blocks, f[c] # 0, c \notin ToSet(s) PROVE of[c] = f[c]
  <2>1. g[c] = f[c] BY <1>1, <1>18 DEF Grown
  <2>2. c \notin ToSet(m)
    <3> SUFFICES ASSUME c \in ToSet(m) PROVE FALSE OBVIOUS
    <3>1. PICK j \in 1 .. Len(m) : m[j] = c BY InSeq
    <3>2. CASE j <= Len(s)
      <4>1. j \in 1 .. Len(s) /\ s[j] = c BY <1>1, <1>3, <3>1, <3>2 DEF Grown
      <4> QED BY <1>18, <4>1, InSeq
    <3>3. CASE j > Len(s)
      <4>1. f[m[j]] = 0 BY <1>1, <1>3, <3>1, <3>3 DEF Grown
      <4> QED BY <1>18, <3>1, <4>1
    <3> QED BY <1>3, <3>2, <3>3
  <2>3. c # prev /\ c # i BY <1>4, <1>13, <1>18, <2>2, Ends
  <2> QED BY <1>14, <2>1, <2>3
<1>19. \A j \in 1 .. Len(s) : om[j] = s[j] BY <1>1, <1>3, <1>11 DEF Grown
<1>20. ASSUME NEW j \in Len(s) + 1 .. Len(s) + (n + 1) PROVE f[om[j]] = 0
  <2>1. CASE j = Len(m) + 1 BY <1>4, <1>10, <2>1
  <2>2. CASE j # Len(m) + 1
    <3>1. j \in Len(s) + 1 .. Len(s) + n /\ j \in 1 .. Len(m)
          BY ONLY n \in Nat, j \in Len(s) + 1 .. Len(s) + (n + 1), <1>3, <2>2
    <3> QED BY <1>1, <1>11, <3>1 DEF Grown
  <2> QED BY <2>1, <2>2
<1>21. Len(om) = Len(s) + (n + 1) BY <1>3, <1>10
<1> QED BY <1>8, <1>9, <1>16, <1>17, <1>18, <1>19, <1>20, <1>21 DEF Grown, o

(* Extended grows the chain of a file by k blocks that were free. *)
LEMMA ExtendedIs ==
    ASSUME fat \in Tables, NEW map, Follows(fat, StartsAt(map), map), NEW k \in Nat, k <= Cardinality(FreeBlocks(fat))
    PROVE  Grown(fat, map, k, Extended(map, k))
<1>1. map \in Seq(Blocks) BY DEF Follows
<1>2. map # <<>> => fat[Last(map)] # 0
  <2>1. map # <<>> => Len(map) \in 1 .. Len(map) BY <1>1
  <2>2. map # <<>> => map[Len(map)] \in ToSet(map) BY <1>1, <2>1, InSeq
  <2>3. ASSUME map # <<>> PROVE fat[Last(map)] # 0
    <3>1. PICK c \in ToSet(map) : c = map[Len(map)] BY <2>2, <2>3
    <3>2. PICK b : b = StartsAt(map) OBVIOUS
    <3>3. Follows(fat, b, map) BY <3>2
    <3>4. fat[c] # 0 BY ONLY c \in ToSet(map), <3>3, ChainUsed
    <3> QED BY <3>1, <3>4 DEF Last
  <2> QED BY <2>3
<1>a. PICK x : Unfolds(x, map, k)
      BY ONLY fat \in Tables, k \in Nat, k <= Cardinality(FreeBlocks(fat)), <1>1, <1>2, ExtendedUnfolds
<1>3. /\ x \in [0 .. k -> Chains] /\ Extended(map, k) = x[k] /\ x[0] = [fat |-> fat, map |-> map]
      /\ \A n \in 0 .. k - 1 : x[n + 1] = OneMore(x[n]) /\ FreeBlocks(x[n].fat) # {}
      BY <1>a DEF Unfolds
<1> DEFINE S == {n \in 0 .. k : Grown(fat, map, n, x[n])}
<1>4. 0 \in S
  <2>1. PICK e : e = x[0] /\ e \in Chains BY <1>3
  <2>2. e.fat = fat /\ e.map = map BY <1>3, <2>1
  <2>3. Len(map) \in Nat BY <1>1
  <2>4. \A c \in Blocks : fat[c] = 0 => c \notin ToSet(map) BY ChainUsed
  <2>5. Grown(fat, map, 0, e) BY <2>1, <2>2, <2>3, <2>4 DEF Grown
  <2> QED BY <2>1, <2>5
<1>5. ASSUME NEW n \in 0 .. k - 1, n \in S PROVE n + 1 \in S
  <2>1. Grown(fat, map, n, x[n]) /\ FreeBlocks(x[n].fat) # {} /\ x[n + 1] = OneMore(x[n]) BY <1>3, <1>5
  <2>2. Grown(fat, map, n + 1, OneMore(x[n]))
    <3>1. PICK e : e = x[n] OBVIOUS
    <3>2. Grown(fat, map, n, e) /\ FreeBlocks(e.fat) # {} /\ n \in Nat BY <2>1, <3>1
    <3>3. Grown(fat, map, n + 1, OneMore(e)) BY ONLY fat \in Tables, <1>1, <3>2, GrownStep
    <3> QED BY <3>1, <3>3
  <2> QED BY <2>1, <2>2
<1>6. k \in S
  <2> HIDE DEF S
  <2> QED BY <1>4, <1>5, UpTo
<1> QED BY <1>3, <1>6

(* Every key of K has its chain, no block is in two and every block in use is
   in one. *)
Chained(K, M, P, f) ==
    /\ \A k \in K : Follows(f, P[k], M[k])
    /\ \A k, l \in K : k # l => ToSet(M[k]) \cap ToSet(M[l]) = {}
    /\ \A b \in Blocks : f[b] # 0 <=> \E k \in K : b \in ToSet(M[k])

(* A chain depends on its own blocks only. *)
LEMMA FollowsKept ==
    ASSUME NEW f, NEW g, NEW b, NEW s, Follows(f, b, s), \A c \in ToSet(s) : g[c] = f[c]
    PROVE  Follows(g, b, s)
<1>1. s \in Seq(Blocks) BY DEF Follows
<1>2. \A k \in 1 .. Len(s) : g[s[k]] = f[s[k]] BY <1>1, InSeq
<1> QED BY <1>2 DEF Follows

(* One chain is changed, added or removed, within its own and free blocks. *)
ChangesOne(K, M, P, f, L, N, Q, g, z) ==
    LET own == IF z \in K THEN ToSet(M[z]) ELSE {} IN
    /\ L \ {z} = K \ {z} /\ \A k \in K \ {z} : N[k] = M[k] /\ Q[k] = P[k]
    /\ \A b \in Blocks : f[b] # 0 /\ b \notin own => g[b] = f[b]
    /\ z \in L => Follows(g, Q[z], N[z]) /\ \A b \in ToSet(N[z]) : b \in own \/ f[b] = 0
    /\ \A b \in Blocks : b \in own \/ f[b] = 0 => (g[b] # 0 <=> z \in L /\ b \in ToSet(N[z]))

(* The chains stay sound when one of them changes. *)
LEMMA ChainChanged ==
    ASSUME NEW K, NEW M, NEW P, NEW f, Chained(K, M, P, f), NEW L, NEW N, NEW Q, NEW g, NEW z,
           ChangesOne(K, M, P, f, L, N, Q, g, z)
    PROVE  Chained(L, N, Q, g)
<1> DEFINE own == IF z \in K THEN ToSet(M[z]) ELSE {}
<1>a. L \ {z} = K \ {z} /\ \A k \in K \ {z} : N[k] = M[k] /\ Q[k] = P[k] BY DEF ChangesOne
<1>b. \A b \in Blocks : f[b] # 0 /\ b \notin own => g[b] = f[b] BY DEF ChangesOne
<1>c. z \in L => Follows(g, Q[z], N[z]) /\ \A b \in ToSet(N[z]) : b \in own \/ f[b] = 0 BY DEF ChangesOne
<1>d. \A b \in Blocks : b \in own \/ f[b] = 0 => (g[b] # 0 <=> z \in L /\ b \in ToSet(N[z])) BY DEF ChangesOne
<1> USE <1>a, <1>b, <1>c, <1>d
<1>1. ASSUME NEW k \in K \ {z}, NEW b \in ToSet(M[k]) PROVE b \in Blocks /\ f[b] # 0 /\ b \notin own
  <2>1. Follows(f, P[k], M[k]) BY DEF Chained
  <2>2. b \in Blocks /\ f[b] # 0 BY <2>1, ChainUsed
  <2>3. z \in K => ToSet(M[k]) \cap ToSet(M[z]) = {} BY DEF Chained
  <2> QED BY <2>2, <2>3
<1>2. ASSUME NEW k \in L PROVE Follows(g, Q[k], N[k])
  <2>1. CASE k = z BY <2>1
  <2>2. CASE k # z
    <3>1. k \in K \ {z} /\ N[k] = M[k] /\ Q[k] = P[k] BY <2>2
    <3>2. Follows(f, P[k], M[k]) BY <3>1 DEF Chained
    <3>3. \A b \in ToSet(M[k]) : g[b] = f[b] BY <1>1, <3>1
    <3>4. Follows(g, P[k], M[k]) BY <3>2, <3>3, FollowsKept
    <3> QED BY <3>1, <3>4
  <2> QED BY <2>1, <2>2
<1>3. ASSUME NEW k \in L, NEW l \in L, k # l PROVE ToSet(N[k]) \cap ToSet(N[l]) = {}
  <2>1. CASE k # z /\ l # z
    <3>1. k \in K /\ l \in K /\ N[k] = M[k] /\ N[l] = M[l] BY <2>1
    <3> QED BY <1>3, <3>1 DEF Chained
  <2>2. ASSUME NEW j \in L, j # z, z \in L PROVE ToSet(N[j]) \cap ToSet(N[z]) = {}
    <3>1. j \in K \ {z} /\ N[j] = M[j] BY <2>2
    <3> QED BY <1>1, <2>2, <3>1
  <2>3. CASE k = z BY <1>3, <2>2, <2>3
  <2>4. CASE l = z BY <1>3, <2>2, <2>4
  <2> QED BY <2>1, <2>3, <2>4
<1>4. ASSUME NEW b \in Blocks PROVE g[b] # 0 <=> \E k \in L : b \in ToSet(N[k])
  <2>1. CASE b \in own \/ f[b] = 0
    <3>1. \A k \in L \ {z} : b \notin ToSet(N[k])
      <4> SUFFICES ASSUME NEW k \in L \ {z}, b \in ToSet(N[k]) PROVE FALSE OBVIOUS
      <4>1. k \in K \ {z} /\ N[k] = M[k] OBVIOUS
      <4> QED BY <1>1, <2>1, <4>1
    <3> QED BY <2>1, <3>1
  <2>2. CASE ~(b \in own \/ f[b] = 0)
    <3>1. g[b] # 0 BY <2>2
    <3>2. PICK k \in K : b \in ToSet(M[k]) BY <2>2 DEF Chained
    <3>3. k # z BY <2>2, <3>2
    <3>4. k \in L /\ N[k] = M[k] BY <3>3
    <3> QED BY <3>1, <3>2, <3>4
  <2> QED BY <2>1, <2>2
<1> QED BY <1>2, <1>3, <1>4 DEF Chained

(* A chain is handed over from one key to another. *)
LEMMA ChainRenamed ==
    ASSUME NEW K, NEW M, NEW P, NEW f, Chained(K, M, P, f), NEW L, NEW N, NEW Q, NEW y \in K, NEW z, z \notin K,
           L = (K \ {y}) \cup {z}, \A k \in K \ {y} : N[k] = M[k] /\ Q[k] = P[k], N[z] = M[y], Q[z] = P[y]
    PROVE  Chained(L, N, Q, f)
<1>1. \A k \in L : Follows(f, Q[k], N[k]) BY DEF Chained
<1>2. ASSUME NEW k \in L, NEW l \in L, k # l PROVE ToSet(N[k]) \cap ToSet(N[l]) = {}
  <2> DEFINE old(x) == IF x = z THEN y ELSE x
  <2>1. \A x \in L : old(x) \in K /\ N[x] = M[old(x)] OBVIOUS
  <2>2. old(k) # old(l) BY <1>2
  <2> QED BY <2>1, <2>2 DEF Chained
<1>3. ASSUME NEW b \in Blocks PROVE f[b] # 0 <=> \E k \in L : b \in ToSet(N[k])
  <2>1. ASSUME NEW k \in K, b \in ToSet(M[k]) PROVE \E l \in L : b \in ToSet(N[l]) BY <2>1
  <2>2. ASSUME NEW l \in L, b \in ToSet(N[l]) PROVE \E k \in K : b \in ToSet(M[k]) BY <2>2
  <2> QED BY <2>1, <2>2 DEF Chained
<1> QED BY <1>1, <1>2, <1>3 DEF Chained

-----------------------------------------------------------------------------
(***************************************************************************)
(* The inductive invariant                                                  *)
(***************************************************************************)
AllNames == Names \cup {Root}

(* The files there are, open or not, and where their chains start. *)
Keys == ({"open"} \X FileObjects) \cup ({"disk"} \X OnlyOnDisk)
Starts == [k \in Keys |-> IF k[1] = "open" THEN files[k[2]].payload ELSE dir[k[2]].payload]

(* The chains in the table are those of the files, and open files know theirs. *)
BlocksSound ==
    \E M : /\ Chained(Keys, M, Starts, fat)
           /\ \A i \in FileObjects : M[<<"open", i>>] = files[i].alloc_map

(* Entry e of table d is the one of file f. *)
EntryOf(f, e, d) == e \in Entries /\ IsEntry(d[e]) /\ d[e].name = f.name /\ d[e].type = f.type

(* Nothing is cached of f, and it has no blocks: so are directories. *)
Blank(f) == ~f.changed_entry /\ ~f.changed_cache /\ f.alloc_map = <<>> /\ f.slots = [s \in Slots |-> NoSlot]

(* Object f, number i, fits the hash table cf and the directory table d. *)
ObjectSound(i, f, cf, d) ==
    /\ f.unlinked => f.type = "file" /\ f.refcount # 0 /\ f.name # Root
    /\ ~f.unlinked => cf[f.name] = i
    /\ f.not_found => f.type = "dir"
    /\ f.type = "dir" => Blank(f)
    /\ f.name = Root => f.type = "dir" /\ ~f.not_found
    /\ ~f.unlinked /\ f.name # Root /\ f.not_found => \A e \in Entries : IsEntry(d[e]) => d[e].name # f.name
    /\ ~f.unlinked /\ f.name # Root /\ ~f.not_found => EntryOf(f, f.entry, d)

ObjectsSound == \A i \in Objects : ObjectSound(i, files[i], cached_files, dir)

(* The hash table holds the object of each name, as long as it has the name. *)
NamesSound ==
    \A n \in AllNames : cached_files[n] # NULL =>
        files[cached_files[n]] # Freed /\ files[cached_files[n]].name = n /\ ~files[cached_files[n]].unlinked

(* Names are in the directory once, and nothing is behind the unused entries. *)
DirSound ==
    /\ \A d, e \in Entries : IsEntry(dir[d]) /\ IsEntry(dir[e]) /\ dir[d].name = dir[e].name => d = e
    /\ \A d, e \in Entries : d <= e /\ dir[e] # NULL => dir[d] # NULL

(* A handle is of the type of its file. *)
HandlesSound ==
    \A h \in Handles : handles[h] # NULL /\ files[handles[h].file] # Freed =>
        handles[h].type = files[handles[h].file].type /\ ~files[handles[h].file].not_found

(* Every descriptor of a file with a name is counted. *)
Refs(i) == {x \in Handles \X Nat : handles[x[1]] # NULL /\ handles[x[1]].file = i /\ x[2] \in 1 .. handles[x[1]].refcount}
RefsSound ==
    \A i \in Objects : ~files[i].unlinked => IsFiniteSet(Refs(i)) /\ Cardinality(Refs(i)) <= files[i].refcount

(* Files that echfs_sync has still to write keep their names. *)
ListSound == syncing # NULL => \A i \in syncing : i \in Objects /\ ~files[i].unlinked

FilesInv ==
    /\ TypeOK /\ BlocksSound /\ ObjectsSound /\ NamesSound /\ DirSound /\ HandlesSound /\ RefsSound /\ ListSound

(* An object is not a freed one. *)
LEMMA NotFreed ==
    /\ Freed \notin CachedFiles /\ \A f \in CachedFiles : f # Freed /\ f.name \in AllNames
    /\ NULL \notin AllNames
<1>1. NULL \notin AllNames BY NullAssumption DEF AllNames
<1>2. ASSUME NEW f \in CachedFiles PROVE f # Freed /\ f.name \in AllNames
  <2>1. f.name \in AllNames BY DEF CachedFiles, AllNames
  <2>2. Freed.name = NULL BY DEF Freed
  <2> QED BY <1>1, <2>1, <2>2
<1> QED BY <1>1, <1>2

(* An empty device on which nothing is open. *)
Empty ==
    /\ fat = [b \in Blocks |-> 0] /\ dir = [i \in Entries |-> NULL] /\ data = [b \in Blocks |-> NULL]
    /\ files = [i \in Files |-> Freed] /\ cached_files = [n \in Names \cup {Root} |-> NULL]
    /\ handles = [h \in Handles |-> NULL] /\ syncing = NULL /\ written = [i \in Files |-> Unwritten]

(* The invariant holds when nothing is open. *)
LEMMA EmptySound == Empty => FilesInv
<1> SUFFICES ASSUME Empty PROVE FilesInv OBVIOUS
<1> USE DEF Empty
<1>1. TypeOK
  <2>1. Unwritten \in [0 .. NBlocks -> Data \cup {NULL}] BY DEF Unwritten
  <2>2. fat \in [Blocks -> 0 .. END_OF_CHAIN] /\ data \in [Blocks -> Data \cup {NULL}] BY Ends
  <2>3. written \in [Files -> [0 .. NBlocks -> Data \cup {NULL}]] BY <2>1
  <2>4. dir \in [Entries -> DirEntries \cup {NULL, DELETED}] OBVIOUS
  <2>5. files \in [Files -> CachedFiles \cup {Freed}] OBVIOUS
  <2>6. handles \in [Handles -> OpenHandles \cup {NULL}] OBVIOUS
  <2>7. cached_files \in [Names \cup {Root} -> Files \cup {NULL}] /\ syncing \in (SUBSET Files) \cup {NULL} OBVIOUS
  <2> QED BY <2>2, <2>3, <2>4, <2>5, <2>6, <2>7 DEF TypeOK
<1>2. Objects = {} /\ FileObjects = {} BY DEF Objects, FileObjects
<1>3. OnlyOnDisk = {} BY DEF OnlyOnDisk, IsEntry
<1>4. Keys = {} BY <1>2, <1>3 DEF Keys
<1>5. BlocksSound BY <1>2, <1>4 DEF BlocksSound, Chained
<1>6. ObjectsSound /\ RefsSound BY <1>2 DEF ObjectsSound, RefsSound
<1>7. NamesSound BY DEF NamesSound, AllNames
<1>8. DirSound BY DEF DirSound, IsEntry
<1>9. HandlesSound BY DEF HandlesSound
<1>10. ListSound BY DEF ListSound
<1> QED BY <1>1, <1>5, <1>6, <1>7, <1>8, <1>9, <1>10 DEF FilesInv

(* A fault ends the model in such a state. *)
LEMMA FailsSound ==
    ASSUME NEW why, Fails(why)
    PROVE  FilesInv'
<1>1. Empty' BY DEF Fails, Empty
<1> QED BY <1>1, EmptySound, PTL

-----------------------------------------------------------------------------
(***************************************************************************)
(* What a step that changes one object leaves alone                         *)
(***************************************************************************)

(* All that a step changes is about object i and name n. *)
Around(n, i) ==
    /\ \A m \in AllNames \ {n} : cached_files'[m] = cached_files[m]
    /\ \A e \in Entries : dir'[e] # dir[e] => /\ ~IsEntry(dir[e]) \/ dir[e].name = n
                                              /\ ~IsEntry(dir'[e]) \/ dir'[e].name = n
    /\ \A j \in Files \ {i} : files'[j] = files[j]

(* The objects other than i stay sound when the hash table changes for the
   name of i, and the directory in an entry that is free or of that name. *)
LEMMA OthersSound ==
    ASSUME TypeOK, ObjectsSound, DirSound, NEW n \in AllNames, NEW i \in Files, cached_files[n] \in {NULL, i},
           Around(n, i), NEW j \in Objects, j # i
    PROVE  ObjectSound(j, files[j], cached_files', dir')
<1>1. PICK f \in CachedFiles : f = files[j] BY DEF TypeOK, Objects
<1>2. ObjectSound(j, f, cached_files, dir) BY <1>1 DEF ObjectsSound
<1>3. ~f.unlinked => f.name # n
  <2>1. NULL \notin Files BY NullAssumption
  <2> QED BY <1>2, <2>1 DEF ObjectSound, Objects
<1>4. f.name \in AllNames BY <1>1, NotFreed
<1>5. ~f.unlinked => cached_files'[f.name] = j BY <1>2, <1>3, <1>4 DEF ObjectSound, Around
<1>6. ASSUME ~f.unlinked, f.name # Root, f.not_found, NEW e \in Entries, IsEntry(dir'[e])
      PROVE  dir'[e].name # f.name
      BY <1>2, <1>3, <1>6 DEF ObjectSound, Around
<1>7. ASSUME ~f.unlinked, f.name # Root, ~f.not_found PROVE EntryOf(f, f.entry, dir')
  <2>1. EntryOf(f, f.entry, dir) BY <1>2, <1>7 DEF ObjectSound
  <2>2. PICK e \in Entries : e = f.entry /\ IsEntry(dir[e]) /\ dir[e].name # n BY <1>3, <1>7, <2>1 DEF EntryOf
  <2>3. dir'[e] = dir[e] BY <2>2 DEF Around
  <2> QED BY <2>1, <2>2, <2>3 DEF EntryOf
<1>8. ObjectSound(j, f, cached_files', dir') BY <1>2, <1>5, <1>6, <1>7 DEF ObjectSound
<1> QED BY <1>1, <1>8

(* The parts that concern objects, when object i changes and keeps or gets
   name n. *)
LEMMA ObjectsKept ==
    ASSUME TypeOK, ObjectsSound, DirSound, NEW n \in AllNames, NEW i \in Files, cached_files[n] \in {NULL, i}, Around(n, i),
           files'[i] # Freed => ObjectSound(i, files'[i], cached_files', dir')
    PROVE  ObjectsSound'
<1> SUFFICES ASSUME NEW j \in Files, files'[j] # Freed PROVE ObjectSound(j, files'[j], cached_files', dir')
    BY DEF ObjectsSound, Objects
<1>1. CASE j = i BY <1>1
<1>2. CASE j # i
  <2>1. j \in Objects /\ files'[j] = files[j] BY <1>2 DEF Objects, Around
  <2> QED BY <1>2, <2>1, OthersSound
<1> QED BY <1>1, <1>2

(* The names and the hash table, when i gets or keeps its name. *)
LEMMA NamesKept ==
    ASSUME TypeOK, NamesSound, NEW n \in AllNames, NEW i \in Files, cached_files[n] \in {NULL, i},
           files[i] = Freed \/ files[i].name = n,
           \A m \in AllNames \ {n} : cached_files'[m] = cached_files[m],
           cached_files'[n] \in {NULL, i},
           \A j \in Files \ {i} : files'[j] = files[j],
           cached_files'[n] = i => files'[i] # Freed /\ files'[i].name = n /\ ~files'[i].unlinked
    PROVE  NamesSound'
<1> SUFFICES ASSUME NEW m \in AllNames, cached_files'[m] # NULL
             PROVE  /\ files'[cached_files'[m]] # Freed /\ files'[cached_files'[m]].name = m
                    /\ ~files'[cached_files'[m]].unlinked
    BY DEF NamesSound
<1>1. CASE m = n BY <1>1
<1>2. CASE m # n
  <2>1. cached_files'[m] = cached_files[m] /\ cached_files[m] \in Files BY <1>2 DEF TypeOK, AllNames
  <2>2. files[cached_files[m]] # Freed /\ files[cached_files[m]].name = m /\ ~files[cached_files[m]].unlinked
        BY <2>1 DEF NamesSound
  <2>3. cached_files[m] # i BY <1>2, <2>2
  <2> QED BY <2>1, <2>2, <2>3
<1> QED BY <1>1, <1>2

(* Handles of other files, and those of a file that keeps its type. *)
LEMMA HandlesKept ==
    ASSUME TypeOK, HandlesSound, NEW i \in Files, \A j \in Files \ {i} : files'[j] = files[j],
           \A h \in Handles : handles'[h] # NULL /\ handles'[h].file # i =>
              handles[h] # NULL /\ handles[h].file = handles'[h].file /\ handles[h].type = handles'[h].type
              /\ handles[h].file \in Files,
           \A h \in Handles : handles'[h] # NULL /\ handles'[h].file = i /\ files'[i] # Freed =>
              handles'[h].type = files'[i].type /\ ~files'[i].not_found
    PROVE  HandlesSound'
<1> SUFFICES ASSUME NEW h \in Handles, handles'[h] # NULL, files'[handles'[h].file] # Freed
             PROVE  handles'[h].type = files'[handles'[h].file].type /\ ~files'[handles'[h].file].not_found
    BY DEF HandlesSound
<1>1. CASE handles'[h].file = i BY <1>1
<1>2. CASE handles'[h].file # i BY <1>2 DEF HandlesSound
<1> QED BY <1>1, <1>2

(* The chains, when object i and the blocks of its chain change. *)
LEMMA BlocksOne ==
    ASSUME BlocksSound, NEW i \in Files, \A j \in Files \ {i} : files'[j] = files[j],
           OnlyOnDisk' = OnlyOnDisk, \A e \in OnlyOnDisk : dir'[e].payload = dir[e].payload,
           NEW own, own = IF i \in FileObjects THEN ToSet(files[i].alloc_map) ELSE {},
           \A b \in Blocks : fat[b] # 0 /\ b \notin own => fat'[b] = fat[b],
           i \in FileObjects' => /\ Follows(fat', files'[i].payload, files'[i].alloc_map)
                                 /\ \A b \in ToSet(files'[i].alloc_map) : b \in own \/ fat[b] = 0,
           \A b \in Blocks : b \in own \/ fat[b] = 0 =>
              (fat'[b] # 0 <=> i \in FileObjects' /\ b \in ToSet(files'[i].alloc_map))
    PROVE  BlocksSound'
<1>1. PICK M : Chained(Keys, M, Starts, fat) /\ \A j \in FileObjects : M[<<"open", j>>] = files[j].alloc_map
      BY DEF BlocksSound
<1> DEFINE z == <<"open", i>>
           N == [k \in Keys' |-> IF k = z THEN files'[i].alloc_map ELSE M[k]]
<1>2. \A j \in Files \ {i} : j \in FileObjects' <=> j \in FileObjects BY DEF FileObjects, Objects
<1>3. FileObjects \subseteq Files /\ FileObjects' \subseteq Files BY DEF FileObjects, Objects
<1>4. Keys' \ {z} = Keys \ {z} BY <1>2, <1>3 DEF Keys
<1>5. z \in Keys <=> i \in FileObjects BY DEF Keys
<1>6. z \in Keys' <=> i \in FileObjects' BY DEF Keys
<1>7. ASSUME NEW k \in Keys \ {z} PROVE N[k] = M[k] /\ Starts'[k] = Starts[k]
  <2>1. k \in Keys' /\ k \in Keys /\ k # z BY <1>4
  <2>2. N[k] = M[k] BY <2>1
  <2>3. CASE k \in {"open"} \X FileObjects
    <3>1. PICK j \in FileObjects : k = <<"open", j>> BY <2>3
    <3>2. j \in Files \ {i} BY <1>3, <2>1, <3>1
    <3> QED BY <2>1, <2>2, <3>1, <3>2 DEF Starts
  <2>4. CASE k \in {"disk"} \X OnlyOnDisk
    <3>1. PICK e \in OnlyOnDisk : k = <<"disk", e>> BY <2>4
    <3> QED BY <2>1, <2>2, <3>1 DEF Starts
  <2> QED BY <2>1, <2>3, <2>4 DEF Keys
<1>8. i \in FileObjects' => N[z] = files'[i].alloc_map /\ Starts'[z] = files'[i].payload BY <1>6 DEF Starts
<1>9. own = IF z \in Keys THEN ToSet(M[z]) ELSE {} BY <1>1, <1>5
<1>10. z \in Keys' => Follows(fat', Starts'[z], N[z]) /\ \A b \in ToSet(N[z]) : b \in own \/ fat[b] = 0
       BY <1>6, <1>8
<1>11. \A b \in Blocks : b \in own \/ fat[b] = 0 => (fat'[b] # 0 <=> z \in Keys' /\ b \in ToSet(N[z]))
       BY <1>6, <1>8
<1>12. \A j \in FileObjects' : N[<<"open", j>>] = files'[j].alloc_map
  <2> SUFFICES ASSUME NEW j \in FileObjects' PROVE N[<<"open", j>>] = files'[j].alloc_map OBVIOUS
  <2>1. CASE j = i BY <1>8, <2>1
  <2>2. CASE j # i
    <3>1. j \in Files \ {i} /\ j \in FileObjects BY <1>2, <1>3, <2>2
    <3>2. <<"open", j>> \in Keys \ {z} BY <2>2, <3>1 DEF Keys
    <3> QED BY <1>1, <1>7, <3>1, <3>2
  <2> QED BY <2>1, <2>2
<1> HIDE DEF N, z
<1>13. Chained(Keys', N, Starts', fat')
  <2>1. PICK K, L, P, Q, f, g : K = Keys /\ L = Keys' /\ P = Starts /\ Q = Starts' /\ f = fat /\ g = fat' OBVIOUS
  <2>2. Chained(K, M, P, f) BY <1>1, <2>1
  <2>3. ChangesOne(K, M, P, f, L, N, Q, g, z) BY <1>4, <1>7, <1>9, <1>10, <1>11, <2>1 DEF ChangesOne
  <2>8. Chained(L, N, Q, g) BY ONLY <2>2, <2>3, ChainChanged
  <2> QED BY <2>1, <2>8
<1> QED BY <1>12, <1>13 DEF BlocksSound

(* The chain of an open file. *)
LEMMA OpenChain ==
    ASSUME BlocksSound, NEW i \in FileObjects
    PROVE  /\ Follows(fat, files[i].payload, files[i].alloc_map) /\ Chain(files[i].payload) = files[i].alloc_map
           /\ files[i].payload = StartsAt(files[i].alloc_map)
<1>1. PICK M : Chained(Keys, M, Starts, fat) /\ \A j \in FileObjects : M[<<"open", j>>] = files[j].alloc_map
      BY DEF BlocksSound
<1>2. <<"open", i>> \in Keys /\ Starts[<<"open", i>>] = files[i].payload BY DEF Keys, Starts
<1>3. Follows(fat, Starts[<<"open", i>>], M[<<"open", i>>]) BY <1>1, <1>2 DEF Chained
<1>4. Follows(fat, files[i].payload, files[i].alloc_map) BY <1>1, <1>2, <1>3
<1>5. Chain(files[i].payload) = files[i].alloc_map
  <2>1. PICK b, s : b = files[i].payload /\ s = files[i].alloc_map OBVIOUS
  <2> QED BY <1>4, <2>1, ChainFound
<1> QED BY <1>4, <1>5 DEF Follows, StartsAt

(* A file that is opened, with its chain or with a shorter one. *)
LEMMA BlocksOpened ==
    ASSUME BlocksSound, NEW i \in Files, files[i] = Freed, \A j \in Files \ {i} : files'[j] = files[j],
           NEW e \in OnlyOnDisk, OnlyOnDisk' = OnlyOnDisk \ {e}, \A d \in OnlyOnDisk : dir'[d].payload = dir[d].payload,
           i \in FileObjects', NEW own, own = ToSet(Chain(dir[e].payload)),
           \A b \in Blocks : fat[b] # 0 /\ b \notin own => fat'[b] = fat[b],
           Follows(fat', files'[i].payload, files'[i].alloc_map),
           \A b \in ToSet(files'[i].alloc_map) : b \in own \/ fat[b] = 0,
           \A b \in Blocks : b \in own \/ fat[b] = 0 => (fat'[b] # 0 <=> b \in ToSet(files'[i].alloc_map))
    PROVE  BlocksSound' /\ Follows(fat, dir[e].payload, Chain(dir[e].payload))
<1>1. PICK M : Chained(Keys, M, Starts, fat) /\ \A j \in FileObjects : M[<<"open", j>>] = files[j].alloc_map
      BY DEF BlocksSound
<1> DEFINE y == <<"disk", e>>
           z == <<"open", i>>
           N == [k \in Keys' |-> IF k = z THEN M[y] ELSE M[k]]
           R == [k \in Keys' |-> IF k = z THEN Starts[y] ELSE Starts[k]]
           O == [k \in Keys' |-> IF k = z THEN files'[i].alloc_map ELSE M[k]]
<1>2. y \in Keys /\ Starts[y] = dir[e].payload BY DEF Keys, Starts
<1>3. Follows(fat, dir[e].payload, M[y]) BY <1>1, <1>2 DEF Chained
<1>4. Chain(dir[e].payload) = M[y]
  <2>1. PICK b : b = dir[e].payload OBVIOUS
  <2>2. Chain(b) = M[y] BY <1>3, <2>1, ChainFound
  <2> QED BY <2>1, <2>2
<1>5. FileObjects \subseteq Files /\ FileObjects' \subseteq Files BY DEF FileObjects, Objects
<1>6. i \notin FileObjects /\ \A j \in Files \ {i} : j \in FileObjects' <=> j \in FileObjects BY DEF FileObjects, Objects
<1>7. z \notin Keys /\ Keys' = (Keys \ {y}) \cup {z} BY <1>5, <1>6 DEF Keys
<1>8. \A k \in Keys \ {y} : N[k] = M[k] /\ R[k] = Starts[k] BY <1>7
<1>9. N[z] = M[y] /\ R[z] = Starts[y] /\ O[z] = files'[i].alloc_map BY <1>7
<1>10. \A k \in Keys' \ {z} : O[k] = N[k] OBVIOUS
<1>11. ASSUME NEW k \in Keys' \ {z} PROVE Starts'[k] = R[k]
  <2>1. k \in Keys /\ k # y /\ R[k] = Starts[k] BY <1>7
  <2>3. CASE k \in {"open"} \X FileObjects
    <3>1. PICK j \in FileObjects : k = <<"open", j>> BY <2>3
    <3>2. j \in Files \ {i} BY <1>5, <1>6, <3>1
    <3> QED BY <2>1, <3>1, <3>2 DEF Starts
  <2>4. CASE k \in {"disk"} \X OnlyOnDisk
    <3>1. PICK d \in OnlyOnDisk : k = <<"disk", d>> BY <2>4
    <3> QED BY <2>1, <3>1 DEF Starts
  <2> QED BY <2>1, <2>3, <2>4 DEF Keys
<1>12. Starts'[z] = files'[i].payload BY <1>7 DEF Starts
<1>13. \A j \in FileObjects' : O[<<"open", j>>] = files'[j].alloc_map
  <2> SUFFICES ASSUME NEW j \in FileObjects' PROVE O[<<"open", j>>] = files'[j].alloc_map OBVIOUS
  <2>1. CASE j = i BY <1>9, <2>1
  <2>2. CASE j # i
    <3>1. j \in Files \ {i} /\ j \in FileObjects BY <1>5, <1>6, <2>2
    <3>2. <<"open", j>> \in Keys' /\ <<"open", j>> # z BY <2>2 DEF Keys
    <3> QED BY <1>1, <3>1, <3>2
  <2> QED BY <2>1, <2>2
<1>14. z \in Keys' BY <1>7
<1> HIDE DEF N, R, O, y, z
<1>15. Chained(Keys', O, Starts', fat')
  <2>1. PICK K, L, P, Q, f, g : K = Keys /\ L = Keys' /\ P = Starts /\ Q = Starts' /\ f = fat /\ g = fat' OBVIOUS
  <2>2. Chained(K, M, P, f) BY <1>1, <2>1
  <2>3. /\ y \in K /\ z \notin K /\ L = (K \ {y}) \cup {z} /\ \A k \in K \ {y} : N[k] = M[k] /\ R[k] = P[k]
        /\ N[z] = M[y] /\ R[z] = P[y]
        BY <1>2, <1>7, <1>8, <1>9, <2>1
  <2>4. Chained(L, N, R, f) BY ONLY <2>2, <2>3, ChainRenamed
  <2>5. ChangesOne(L, N, R, f, L, O, Q, g, z) BY <1>4, <1>9, <1>10, <1>11, <1>12, <1>14, <2>1 DEF ChangesOne
  <2>6. Chained(L, O, Q, g) BY ONLY <2>4, <2>5, ChainChanged
  <2> QED BY <2>1, <2>6
<1> QED BY <1>3, <1>4, <1>13, <1>15 DEF BlocksSound

-----------------------------------------------------------------------------
(***************************************************************************)
(* Structures                                                               *)
(***************************************************************************)
Content == Data \cup {NULL}

(* A new object is well formed. *)
LEMMA FileIs ==
    ASSUME NEW n \in AllNames, NEW type \in {"file", "dir"}, NEW not_found \in BOOLEAN, NEW entry \in Entries \cup {NULL},
           NEW payload \in Nat, NEW size \in Nat, NEW map \in Seq(Blocks)
    PROVE  File(n, type, not_found, entry, payload, size, map) \in CachedFiles
<1>1. NoSlot \in CachedBlocks BY DEF NoSlot, CachedBlocks
<1>2. [s \in Slots |-> NoSlot] \in [Slots -> CachedBlocks] BY <1>1
<1>3. 1 \in Slots /\ 1 \in 0 .. MaxRefs BY EchfsAssumption DEF Slots
<1> QED BY <1>2, <1>3 DEF File, CachedFiles, AllNames

(* The fields of a truncated file. *)
LEMMA Erases ==
    ASSUME NEW f \in CachedFiles
    PROVE  LET g == erase_file(f) IN
           /\ g \in CachedFiles /\ g.name = f.name /\ g.refcount = f.refcount /\ g.unlinked = f.unlinked
           /\ g.type = f.type /\ g.not_found = f.not_found /\ g.entry = f.entry
           /\ g.payload = END_OF_CHAIN /\ g.alloc_map = <<>> /\ g.size = 0 /\ g.changed_entry
           /\ ~g.changed_cache /\ g.slots = [s \in Slots |-> NoSlot]
<1>1. NoSlot \in CachedBlocks BY DEF NoSlot, CachedBlocks
<1>2. [s \in Slots |-> NoSlot] \in [Slots -> CachedBlocks] BY <1>1
<1>3. END_OF_CHAIN \in Nat /\ <<>> \in Seq(Blocks) BY Ends
<1> QED BY <1>2, <1>3 DEF erase_file, CachedFiles

(* The larger of two numbers. *)
LEMMA MaxOfTwo ==
    ASSUME NEW a \in Int, NEW b \in Int
    PROVE  Max({a, b}) = IF a >= b THEN a ELSE b
BY DEF Max

(* The slot a block is read into. *)
LEMMA TargetIs ==
    ASSUME NEW f \in CachedFiles
    PROVE  /\ Target(f) \in Slots
           /\ EmptySlots(f) # {} => f.slots[Target(f)].status = "NOTREADY"
           /\ EmptySlots(f) = {} => Target(f) = f.overwritten_slot
<1>1. EmptySlots(f) \subseteq Slots /\ Slots \subseteq Nat BY EchfsAssumption DEF EmptySlots, Slots
<1>2. EmptySlots(f) # {} => Min(EmptySlots(f)) \in EmptySlots(f) BY <1>1, MinIs
<1>3. f.overwritten_slot \in Slots BY DEF CachedFiles
<1> QED BY <1>1, <1>2, <1>3 DEF Target, EmptySlots

(* How many blocks a file lacks for position p. *)
LEMMA MissingIs ==
    ASSUME NEW f \in CachedFiles, NEW p \in Nat
    PROVE  /\ Missing(f, p) \in Nat /\ Len(f.alloc_map) \in Nat
           /\ Missing(f, p) = IF p + 1 <= Len(f.alloc_map) THEN 0 ELSE p + 1 - Len(f.alloc_map)
<1>1. f.alloc_map \in Seq(Blocks) BY DEF CachedFiles
<1>2. PICK l \in Nat : l = Len(f.alloc_map) BY <1>1
<1>3. Max({0, p + 1 - l}) = IF 0 >= p + 1 - l THEN 0 ELSE p + 1 - l BY MaxOfTwo
<1>4. Missing(f, p) = Max({0, p + 1 - l}) BY <1>2 DEF Missing
<1>5. Missing(f, p) = IF 0 >= p + 1 - l THEN 0 ELSE p + 1 - l BY <1>3, <1>4
<1> QED BY <1>2, <1>5

(* The device after an eviction is well formed. *)
LEMMA EvictedIs ==
    ASSUME data \in [Blocks -> Content], NEW f \in CachedFiles
    PROVE  Evicted(f) \in [Blocks -> Content]
<1>1. PICK t \in Slots : t = Target(f) BY TargetIs
<1>2. f.slots[t].val \in Content BY DEF CachedFiles, CachedBlocks, Content
<1> QED BY <1>1, <1>2 DEF Evicted, devfs_write

(* A chain to which nothing is appended. *)
LEMMA GrownNone ==
    ASSUME NEW f \in Tables, NEW s, Follows(f, StartsAt(s), s)
    PROVE  Grown(f, s, 0, [fat |-> f, map |-> s])
<1>1. s \in Seq(Blocks) BY DEF Follows
<1>2. Len(s) \in Nat BY <1>1
<1>3. \A c \in Blocks : f[c] = 0 => c \notin ToSet(s) BY ChainUsed
<1>4. [fat |-> f, map |-> s] \in Chains BY <1>1 DEF Chains
<1> QED BY <1>2, <1>3, <1>4 DEF Grown

(* What cache_block makes of the file, the table and the device. *)
LEMMA CacheBlockIs ==
    ASSUME fat \in Tables, data \in [Blocks -> Content], NEW f \in CachedFiles, Follows(fat, f.payload, f.alloc_map),
           NEW p \in Nat, Missing(f, p) <= Cardinality(FreeBlocks(fat))
    PROVE  LET c == cache_block(f, p)
               g == c.file
               e == Extended(f.alloc_map, Missing(f, p))
           IN  /\ Grown(fat, f.alloc_map, Missing(f, p), e) /\ p + 1 \in 1 .. Len(e.map)
               /\ g \in CachedFiles /\ g.name = f.name /\ g.refcount = f.refcount /\ g.unlinked = f.unlinked
               /\ g.type = f.type /\ g.not_found = f.not_found /\ g.entry = f.entry /\ g.size = f.size
               /\ g.changed_cache = f.changed_cache /\ g.changed_entry = (f.changed_entry \/ f.alloc_map = <<>>)
               /\ g.alloc_map = e.map /\ g.payload = StartsAt(e.map)
               /\ g.slots = [f.slots EXCEPT ![Target(f)] =
                                [status |-> "READY", block |-> p,
                                 val |-> devfs_read(Evicted(f), e.map[p + 1], f.slots[Target(f)].val)]]
               /\ c.fat = e.fat /\ c.data = Evicted(f) /\ c.data \in [Blocks -> Content]
<1>1. PICK map \in Seq(Blocks) : map = f.alloc_map BY DEF CachedFiles
<1>2. f.payload = StartsAt(map) BY <1>1 DEF Follows, StartsAt
<1>3. PICK k \in Nat : k = Missing(f, p) BY MissingIs
<1>4. PICK e : e = Extended(map, k) OBVIOUS
<1>5. Grown(fat, map, k, e) BY <1>1, <1>2, <1>3, <1>4, ExtendedIs
<1>6. e.map \in Seq(Blocks) /\ e.fat \in Tables /\ Len(e.map) = Len(map) + k BY <1>5 DEF Grown, Chains
<1>7. p + 1 \in 1 .. Len(e.map) /\ Len(map) \in Nat
  <2>1. Len(map) \in Nat /\ k = IF p + 1 <= Len(map) THEN 0 ELSE p + 1 - Len(map) BY <1>1, <1>3, MissingIs
  <2> QED BY <1>6, <2>1
<1>8. e.map[p + 1] \in Blocks BY <1>6, <1>7
<1>9. e.map # <<>> /\ e.map[1] \in Blocks BY <1>6, <1>7
<1>10. map # <<>> => e.map[1] = map[1]
  <2>1. map # <<>> => 1 \in 1 .. Len(map) BY <1>7
  <2> QED BY <1>5, <2>1 DEF Grown
<1>11. PICK t \in Slots : t = Target(f) BY TargetIs
<1>12. PICK dat \in [Blocks -> Content] : dat = Evicted(f) BY EvictedIs
<1>13. f.slots \in [Slots -> CachedBlocks] /\ f.slots[t].val \in Content BY DEF CachedFiles, CachedBlocks, Content
<1>14. PICK val \in Content : val = devfs_read(dat, e.map[p + 1], f.slots[t].val) BY <1>8, <1>13 DEF devfs_read
<1>15. PICK o \in Slots : o = IF EmptySlots(f) = {} THEN (t % NSlots) + 1 ELSE f.overwritten_slot
  <2>1. f.overwritten_slot \in Slots BY DEF CachedFiles
  <2>2. NSlots \in Nat \ {0} /\ t \in Nat BY EchfsAssumption DEF Slots
  <2>3. (t % NSlots) \in 0 .. NSlots - 1 BY <2>2
  <2> QED BY <2>1, <2>2, <2>3 DEF Slots
<1>16. PICK b \in Nat : b = IF map = <<>> THEN e.map[1] ELSE f.payload BY <1>9, Ends DEF CachedFiles
<1>17. b = StartsAt(e.map) BY <1>2, <1>9, <1>10, <1>16 DEF StartsAt
<1>18. PICK slot \in CachedBlocks : slot = [status |-> "READY", block |-> p, val |-> val] BY DEF CachedBlocks, Content
<1> DEFINE c == cache_block(f, p)
           g == [f EXCEPT !.alloc_map = e.map, !.payload = b,
                          !.changed_entry = @ \/ map = <<>>, !.overwritten_slot = o,
                          !.slots[t] = slot]
<1>19. c = [file |-> g, fat |-> e.fat, data |-> dat]
       BY <1>1, <1>3, <1>4, <1>11, <1>12, <1>14, <1>15, <1>16, <1>18 DEF cache_block
<1>20. /\ g \in CachedFiles /\ g.name = f.name /\ g.refcount = f.refcount /\ g.unlinked = f.unlinked
       /\ g.type = f.type /\ g.not_found = f.not_found /\ g.entry = f.entry /\ g.size = f.size
       /\ g.changed_cache = f.changed_cache /\ g.changed_entry = (f.changed_entry \/ map = <<>>)
       /\ g.alloc_map = e.map /\ g.payload = b /\ g.slots = [f.slots EXCEPT ![t] = slot]
  <2>1. [f.slots EXCEPT ![t] = slot] \in [Slots -> CachedBlocks] BY <1>13
  <2> QED BY <1>6, <2>1 DEF CachedFiles
<1> HIDE DEF g
<1>21. c.file = g /\ c.fat = e.fat /\ c.data = dat BY <1>19
<1> HIDE DEF c
<1> QED BY <1>1, <1>3, <1>4, <1>5, <1>7, <1>11, <1>12, <1>14, <1>17, <1>18, <1>20, <1>21 DEF c

-----------------------------------------------------------------------------
(***************************************************************************)
(* Directory, references and the parts together                             *)
(***************************************************************************)

(* The files that only the directory knows, when all that changes is about a
   name that is cached or has no file. *)
LEMMA DiskKept ==
    ASSUME TypeOK, TypeOK', NEW n \in AllNames, \A m \in AllNames \ {n} : cached_files'[m] = cached_files[m],
           \A e \in Entries : dir'[e] # dir[e] => /\ ~IsEntry(dir[e]) \/ dir[e].name = n
                                                  /\ ~IsEntry(dir'[e]) \/ dir'[e].name = n,
           cached_files[n] # NULL \/ \A e \in Entries : IsEntry(dir[e]) /\ dir[e].type = "file" => dir[e].name # n,
           cached_files'[n] # NULL \/ \A e \in Entries : IsEntry(dir'[e]) /\ dir'[e].type = "file" => dir'[e].name # n
    PROVE  OnlyOnDisk' = OnlyOnDisk /\ \A e \in OnlyOnDisk : dir'[e] = dir[e]
<1>1. ASSUME NEW e \in Entries, e \in OnlyOnDisk PROVE e \in OnlyOnDisk' /\ dir'[e] = dir[e]
  <2>1. IsEntry(dir[e]) /\ dir[e].type = "file" /\ cached_files[dir[e].name] = NULL BY <1>1 DEF OnlyOnDisk
  <2>2. dir[e] \in DirEntries BY <2>1 DEF TypeOK, IsEntry
  <2>3. dir[e].name \in AllNames \ {n} BY <2>1, <2>2 DEF DirEntries, AllNames
  <2>4. dir'[e] = dir[e] BY <2>1, <2>3
  <2> QED BY <2>1, <2>3, <2>4 DEF OnlyOnDisk
<1>2. ASSUME NEW e \in Entries, e \in OnlyOnDisk' PROVE e \in OnlyOnDisk
  <2>1. IsEntry(dir'[e]) /\ dir'[e].type = "file" /\ cached_files'[dir'[e].name] = NULL BY <1>2 DEF OnlyOnDisk, IsEntry
  <2>2. dir'[e] \in DirEntries BY <2>1 DEF TypeOK, IsEntry
  <2>3. dir'[e].name \in AllNames \ {n} BY <2>1, <2>2 DEF DirEntries, AllNames
  <2>4. dir'[e] = dir[e] BY <2>1, <2>3
  <2> QED BY <2>1, <2>3, <2>4 DEF OnlyOnDisk
<1>3. OnlyOnDisk \subseteq Entries /\ OnlyOnDisk' \subseteq Entries BY DEF OnlyOnDisk
<1> QED BY <1>1, <1>2, <1>3

(* References to objects that handle h has nothing to do with. *)
LEMMA RefsOther ==
    ASSUME NEW h \in Handles, \A x \in Handles \ {h} : handles'[x] = handles[x], NEW j,
           handles[h] = NULL \/ handles[h].file # j, handles'[h] = NULL \/ handles'[h].file # j
    PROVE  Refs(j)' = Refs(j)
<1>1. \A x \in Handles \X Nat : x \in Refs(j)' <=> x \in Refs(j) BY DEF Refs
<1> QED BY <1>1 DEF Refs

(* The counts, when one handle of file i changes, and the file with it. *)
LEMMA RefsKept ==
    ASSUME RefsSound, NEW i \in Files, \A j \in Files \ {i} : files'[j] = files[j],
           NEW h \in Handles, \A x \in Handles \ {h} : handles'[x] = handles[x],
           handles[h] = NULL \/ handles[h].file = i, handles'[h] = NULL \/ handles'[h].file = i,
           files'[i] # Freed /\ ~files'[i].unlinked => IsFiniteSet(Refs(i)') /\ Cardinality(Refs(i)') <= files'[i].refcount
    PROVE  RefsSound'
<1> SUFFICES ASSUME NEW j \in Files, files'[j] # Freed, ~files'[j].unlinked
             PROVE  IsFiniteSet(Refs(j)') /\ Cardinality(Refs(j)') <= files'[j].refcount
    BY DEF RefsSound, Objects
<1>1. CASE j = i BY <1>1
<1>2. CASE j # i
  <2>1. Refs(j)' = Refs(j) BY <1>2, RefsOther
  <2>2. IsFiniteSet(Refs(j)) /\ Cardinality(Refs(j)) <= files[j].refcount BY <1>2 DEF RefsSound, Objects
  <2> QED BY <1>2, <2>1, <2>2
<1> QED BY <1>1, <1>2

(* Handles that keep their file and their count. *)
LEMMA RefsSame ==
    ASSUME RefsSound,
           \A h \in Handles : handles'[h] # NULL <=> handles[h] # NULL,
           \A h \in Handles : handles[h] # NULL => handles'[h].file = handles[h].file /\ handles'[h].refcount = handles[h].refcount,
           \A j \in Files : files'[j] # Freed /\ ~files'[j].unlinked =>
              files[j] # Freed /\ ~files[j].unlinked /\ files'[j].refcount = files[j].refcount
    PROVE  RefsSound'
<1> SUFFICES ASSUME NEW j \in Files, files'[j] # Freed, ~files'[j].unlinked
             PROVE  IsFiniteSet(Refs(j)') /\ Cardinality(Refs(j)') <= files'[j].refcount
    BY DEF RefsSound, Objects
<1>1. \A x \in Handles \X Nat : x \in Refs(j)' <=> x \in Refs(j) BY DEF Refs
<1>2. Refs(j)' = Refs(j) BY <1>1 DEF Refs
<1>3. IsFiniteSet(Refs(j)) /\ Cardinality(Refs(j)) <= files[j].refcount BY DEF RefsSound, Objects
<1> QED BY <1>2, <1>3

(* Every object, entry and handle is of its type. *)
LEMMA Typed ==
    ASSUME TypeOK
    PROVE  /\ \A i \in Objects : i \in Files /\ files[i] \in CachedFiles
           /\ \A e \in Entries : IsEntry(dir[e]) => dir[e] \in DirEntries
           /\ \A h \in Handles : handles[h] # NULL => handles[h] \in OpenHandles /\ handles[h].file \in Files
           /\ fat \in Tables /\ data \in [Blocks -> Content]
BY DEF TypeOK, Objects, IsEntry, OpenHandles, Tables, Content

(* A step that changes object i and leaves its name and its kind alone. *)
LEMMA ObjectChanges ==
    ASSUME FilesInv, TypeOK', NEW i \in Objects, NEW f, f = files[i], NEW g, g = files'[i], g \in CachedFiles,
           \A j \in Files \ {i} : files'[j] = files[j], cached_files' = cached_files,
           g.name = f.name, g.unlinked = f.unlinked, g.type = f.type, g.not_found = f.not_found, g.entry = f.entry,
           g.type = "dir" => Blank(g), g.unlinked => g.refcount # 0,
           \A e \in Entries : dir'[e] # dir[e] =>
              /\ e = f.entry /\ ~f.unlinked /\ f.name # Root /\ ~f.not_found /\ dir'[e] \in DirEntries
              /\ dir'[e].name = f.name /\ dir'[e].type = f.type,
           \A h \in Handles : handles'[h] # NULL => handles[h] # NULL /\ handles'[h].file = handles[h].file
                                                   /\ handles'[h].type = handles[h].type,
           OnlyOnDisk' = OnlyOnDisk /\ (\A e \in OnlyOnDisk : dir'[e] = dir[e]) => BlocksSound',
           RefsSound', syncing' # NULL => \A j \in syncing' : syncing # NULL /\ j \in syncing
    PROVE  FilesInv'
<1> USE DEF FilesInv
<1>1. f \in CachedFiles /\ i \in Files /\ f # Freed /\ g # Freed BY Typed, NotFreed DEF Objects
<1>2. PICK n \in AllNames : n = f.name BY <1>1, NotFreed
<1>3. ObjectSound(i, f, cached_files, dir) BY DEF ObjectsSound
<1>4. f.unlinked => \A e \in Entries : dir'[e] = dir[e] OBVIOUS
<1>5. ~f.unlinked => cached_files[n] = i /\ cached_files'[n] = i BY <1>2, <1>3 DEF ObjectSound
<1>6. \A e \in Entries : dir'[e] # dir[e] => /\ ~IsEntry(dir[e]) \/ dir[e].name = n
                                             /\ ~IsEntry(dir'[e]) \/ dir'[e].name = n
      BY <1>2, <1>3 DEF ObjectSound, EntryOf
<1>7. ObjectSound(i, g, cached_files', dir')
  <2>1. ~f.unlinked /\ f.name # Root /\ ~f.not_found => EntryOf(f, f.entry, dir')
    <3> SUFFICES ASSUME ~f.unlinked, f.name # Root, ~f.not_found PROVE EntryOf(f, f.entry, dir') OBVIOUS
    <3>1. EntryOf(f, f.entry, dir) BY <1>3 DEF ObjectSound
    <3>2. CASE dir'[f.entry] = dir[f.entry] BY <3>1, <3>2 DEF EntryOf
    <3>3. CASE dir'[f.entry] # dir[f.entry] BY <3>1, <3>3, NullAssumption DEF EntryOf, IsEntry
    <3> QED BY <3>2, <3>3
  <2>2. ASSUME ~f.unlinked, f.name # Root, f.not_found PROVE \A e \in Entries : IsEntry(dir'[e]) => dir'[e].name # f.name
        BY <1>3, <2>2 DEF ObjectSound
  <2>3. ~g.unlinked /\ g.name # Root /\ ~g.not_found => EntryOf(g, g.entry, dir') BY <2>1 DEF EntryOf
  <2> QED BY <1>3, <2>2, <2>3 DEF ObjectSound
<1>8. ObjectsSound'
  <2> SUFFICES ASSUME NEW j \in Files, files'[j] # Freed PROVE ObjectSound(j, files'[j], cached_files', dir')
      BY DEF ObjectsSound, Objects
  <2>1. CASE j = i BY <1>7, <2>1
  <2>2. CASE j # i
    <3>1. j \in Objects /\ files'[j] = files[j] BY <2>2 DEF Objects
    <3>2. CASE ~f.unlinked
      <4>1. cached_files[n] \in {NULL, i} BY <1>5, <3>2
      <4>2. Around(n, i) BY <1>6 DEF Around
      <4> QED BY <1>1, <2>2, <3>1, <4>1, <4>2, OthersSound
    <3>3. CASE f.unlinked
      <4>1. dir' = dir BY <1>4, <3>3 DEF TypeOK
      <4> QED BY <3>1, <4>1 DEF ObjectsSound
    <3> QED BY <3>2, <3>3
  <2> QED BY <2>1, <2>2
<1>9. NamesSound'
  <2> SUFFICES ASSUME NEW m \in AllNames, cached_files[m] # NULL
               PROVE  /\ files'[cached_files[m]] # Freed /\ files'[cached_files[m]].name = m
                      /\ ~files'[cached_files[m]].unlinked
      BY DEF NamesSound
  <2>1. cached_files[m] \in Files BY DEF TypeOK, AllNames
  <2>2. files[cached_files[m]] # Freed /\ files[cached_files[m]].name = m /\ ~files[cached_files[m]].unlinked
        BY DEF NamesSound
  <2>3. CASE cached_files[m] = i BY <1>1, <2>2, <2>3
  <2>4. CASE cached_files[m] # i BY <2>1, <2>2, <2>4
  <2> QED BY <2>3, <2>4
<1>10. DirSound'
  <2>1. \A e \in Entries : /\ IsEntry(dir'[e]) <=> IsEntry(dir[e])
                           /\ IsEntry(dir[e]) => dir'[e].name = dir[e].name
                           /\ dir'[e] = NULL <=> dir[e] = NULL
    <3> SUFFICES ASSUME NEW e \in Entries, dir'[e] # dir[e]
                 PROVE  /\ IsEntry(dir'[e]) <=> IsEntry(dir[e])
                        /\ IsEntry(dir[e]) => dir'[e].name = dir[e].name
                        /\ dir'[e] = NULL <=> dir[e] = NULL
        OBVIOUS
    <3>1. EntryOf(f, e, dir) BY <1>3 DEF ObjectSound
    <3> QED BY <3>1, NullAssumption DEF EntryOf, IsEntry
  <2> QED BY <2>1 DEF DirSound
<1>11. HandlesSound'
  <2> SUFFICES ASSUME NEW h \in Handles, handles'[h] # NULL, files'[handles'[h].file] # Freed
               PROVE  handles'[h].type = files'[handles'[h].file].type /\ ~files'[handles'[h].file].not_found
      BY DEF HandlesSound
  <2>1. handles[h] # NULL /\ handles'[h].file = handles[h].file /\ handles[h].file \in Files
        /\ handles'[h].type = handles[h].type BY Typed
  <2>2. CASE handles[h].file = i BY <1>1, <2>1, <2>2 DEF HandlesSound
  <2>3. CASE handles[h].file # i BY <2>1, <2>3 DEF HandlesSound
  <2> QED BY <2>2, <2>3
<1>12. OnlyOnDisk' = OnlyOnDisk /\ \A e \in OnlyOnDisk : dir'[e] = dir[e]
  <2>1. CASE ~f.unlinked
    <3>1. cached_files[n] # NULL /\ cached_files'[n] # NULL BY <1>1, <1>5, <2>1, NullAssumption
    <3> QED BY <1>6, <3>1, DiskKept
  <2>2. CASE f.unlinked
    <3>1. dir' = dir BY <1>4, <2>2 DEF TypeOK
    <3> QED BY <3>1 DEF OnlyOnDisk
  <2> QED BY <2>1, <2>2
<1>13. ListSound'
  <2> SUFFICES ASSUME syncing' # NULL, NEW j \in syncing' PROVE j \in Objects' /\ ~files'[j].unlinked BY DEF ListSound
  <2>1. j \in Objects /\ ~files[j].unlinked BY DEF ListSound
  <2>2. CASE j = i BY <1>1, <2>1, <2>2 DEF Objects
  <2>3. CASE j # i BY <2>1, <2>3 DEF Objects
  <2> QED BY <2>2, <2>3
<1> QED BY <1>8, <1>9, <1>10, <1>11, <1>12, <1>13

-----------------------------------------------------------------------------
(***************************************************************************)
(* Steps that leave the directory alone                                     *)
(***************************************************************************)

(* A handle changes, not its file, type or count. *)
LEMMA HandleMoves ==
    ASSUME FilesInv, NEW h \in Handles, handles[h] # NULL, NEW v \in OpenHandles, handles' = [handles EXCEPT ![h] = v],
           v.file = handles[h].file, v.type = handles[h].type, v.refcount = handles[h].refcount,
           UNCHANGED <<fat, data, dir, files, cached_files, syncing, written>>
    PROVE  FilesInv'
<1> USE DEF FilesInv
<1>1. handles' \in [Handles -> OpenHandles \cup {NULL}] /\ v # NULL BY NullAssumption DEF TypeOK
<1>2. TypeOK' BY <1>1 DEF TypeOK
<1>3. Objects' = Objects /\ FileObjects' = FileObjects /\ OnlyOnDisk' = OnlyOnDisk /\ Keys' = Keys
      BY DEF Objects, FileObjects, OnlyOnDisk, Keys
<1>4. Starts' = Starts BY <1>3 DEF Starts
<1>5. BlocksSound' BY <1>3, <1>4 DEF BlocksSound
<1>6. ObjectsSound' /\ NamesSound' /\ DirSound' /\ ListSound' BY <1>3 DEF ObjectsSound, NamesSound, DirSound, ListSound
<1>7. \A x \in Handles : /\ handles'[x] # NULL <=> handles[x] # NULL
                         /\ handles[x] # NULL => /\ handles'[x].file = handles[x].file
                                                 /\ handles'[x].type = handles[x].type
                                                 /\ handles'[x].refcount = handles[x].refcount
      BY <1>1 DEF TypeOK
<1>8. RefsSound' BY <1>7, RefsSame
<1>9. HandlesSound' BY <1>7 DEF HandlesSound
<1> QED BY <1>2, <1>5, <1>6, <1>8, <1>9

(* echfs_lseek. *)
LEMMA LseekSound ==
    ASSUME FilesInv, NEW h \in Handles, NEW p \in Seeks, echfs_lseek(h, p)
    PROVE  FilesInv'
<1>1. handles[h] \in OpenHandles /\ handles[h] # NULL BY Typed DEF FilesInv, echfs_lseek, Uses
<1>2. p \in Nat BY EchfsAssumption
<1> DEFINE v == [handles[h] EXCEPT !.ptr = p]
<1>3. v \in OpenHandles /\ v.file = handles[h].file /\ v.type = handles[h].type /\ v.refcount = handles[h].refcount
      BY <1>1, <1>2 DEF OpenHandles
<1>4. handles' = [handles EXCEPT ![h] = v] BY DEF echfs_lseek
<1> HIDE DEF v
<1> QED BY <1>1, <1>3, <1>4, HandleMoves DEF echfs_lseek

(* echfs_readdir. *)
LEMMA ReaddirSound ==
    ASSUME FilesInv, NEW h \in Handles, echfs_readdir(h)
    PROVE  FilesInv'
<1>1. handles[h] \in OpenHandles /\ handles[h] # NULL BY Typed DEF FilesInv, echfs_readdir, Uses
<1>2. PICK S \in SUBSET Entries, T \in SUBSET Entries :
             S # {} /\ handles' = [handles EXCEPT ![h].ptr = IF T = {} THEN Max(S) ELSE Min(T)]
      BY DEF echfs_readdir
<1>3. Entries \subseteq Nat /\ NEntries \in Nat /\ S \subseteq 0 .. NEntries BY EchfsAssumption DEF Entries
<1>4. PICK p \in Nat : p = IF T = {} THEN Max(S) ELSE Min(T)
  <2>1. Max(S) \in Nat BY <1>2, <1>3, MaxIs
  <2>2. T # {} => Min(T) \in Nat BY <1>3, MinIs
  <2> QED BY <2>1, <2>2
<1> DEFINE v == [handles[h] EXCEPT !.ptr = p]
<1>5. v \in OpenHandles /\ v.file = handles[h].file /\ v.type = handles[h].type /\ v.refcount = handles[h].refcount
      BY <1>1, <1>4 DEF OpenHandles
<1>6. handles' = [handles EXCEPT ![h] = v] BY <1>2, <1>4
<1> HIDE DEF v
<1>7. UNCHANGED <<fat, data, dir, files, cached_files, syncing, written>> BY DEF echfs_readdir
<1> QED BY <1>1, <1>5, <1>6, <1>7, HandleMoves

(* A descriptor is closed, or one is added. *)
LEMMA RefsDrop ==
    ASSUME TypeOK, NEW h \in Handles, handles[h] # NULL, NEW i, i = handles[h].file, handles' = [handles EXCEPT ![h] = Dropped(h)],
           IsFiniteSet(Refs(i))
    PROVE  /\ IsFiniteSet(Refs(i)') /\ Cardinality(Refs(i)') = Cardinality(Refs(i)) - 1
           /\ Cardinality(Refs(i)) \in Nat \ {0}
<1>1. PICK r \in Nat \ {0} : r = handles[h].refcount BY Typed DEF OpenHandles
<1>2. handles[h] \in OpenHandles BY Typed
<1>3. /\ r = 1 => handles'[h] = NULL
      /\ r # 1 => handles'[h] # NULL /\ handles'[h].file = i /\ handles'[h].refcount = r - 1
  <2>1. handles'[h] = Dropped(h) BY DEF TypeOK
  <2>2. r # 1 => Dropped(h) \in OpenHandles /\ Dropped(h).file = i /\ Dropped(h).refcount = r - 1
        BY <1>1, <1>2 DEF Dropped, OpenHandles
  <2>3. r # 1 => Dropped(h) # NULL BY <2>2, NullAssumption
  <2> QED BY <1>1, <2>1, <2>2, <2>3 DEF Dropped
<1>4. \A x \in Handles \ {h} : handles'[x] = handles[x] BY DEF TypeOK
<1>5. <<h, r>> \in Refs(i) BY <1>1 DEF Refs
<1>6. \A x \in Handles \X Nat : x \in Refs(i)' <=> x \in Refs(i) /\ x # <<h, r>>
  <2> SUFFICES ASSUME NEW y \in Handles, NEW m \in Nat PROVE <<y, m>> \in Refs(i)' <=> <<y, m>> \in Refs(i) /\ <<y, m>> # <<h, r>>
      OBVIOUS
  <2>1. CASE y = h BY <1>1, <1>3, <2>1 DEF Refs
  <2>2. CASE y # h BY <1>4, <2>2 DEF Refs
  <2> QED BY <2>1, <2>2
<1>7. Refs(i)' = Refs(i) \ {<<h, r>>} BY <1>6 DEF Refs
<1>8. PICK R : R = Refs(i) OBVIOUS
<1>9. IsFiniteSet(R \ {<<h, r>>}) /\ Cardinality(R \ {<<h, r>>}) = Cardinality(R) - 1 BY <1>5, <1>8, FS_RemoveElement
<1>10. Cardinality(R) \in Nat /\ Cardinality(R) # 0 BY <1>5, <1>8, FS_CardinalityType, FS_EmptySet
<1> QED BY <1>7, <1>8, <1>9, <1>10

(* One descriptor more for a file. *)
LEMMA RefsAdd ==
    ASSUME NEW h \in Handles, NEW i, NEW r \in Nat, handles'[h] # NULL, handles'[h].file = i, handles'[h].refcount = r + 1,
           (handles[h] = NULL /\ r = 0) \/ (handles[h] # NULL /\ handles[h].file = i /\ handles[h].refcount = r),
           \A x \in Handles \ {h} : handles'[x] = handles[x], IsFiniteSet(Refs(i))
    PROVE  IsFiniteSet(Refs(i)') /\ Cardinality(Refs(i)') = Cardinality(Refs(i)) + 1
<1>1. <<h, r + 1>> \notin Refs(i) BY DEF Refs
<1>2. \A x \in Handles \X Nat : x \in Refs(i)' <=> x \in Refs(i) \/ x = <<h, r + 1>>
  <2> SUFFICES ASSUME NEW y \in Handles, NEW m \in Nat PROVE <<y, m>> \in Refs(i)' <=> <<y, m>> \in Refs(i) \/ <<y, m>> = <<h, r + 1>>
      OBVIOUS
  <2>1. CASE y = h BY <2>1 DEF Refs
  <2>2. CASE y # h BY <2>2 DEF Refs
  <2> QED BY <2>1, <2>2
<1>3. Refs(i)' = Refs(i) \cup {<<h, r + 1>>} BY <1>2 DEF Refs
<1>4. PICK R : R = Refs(i) OBVIOUS
<1> QED BY <1>1, <1>3, <1>4, FS_AddElement

(* The close of a handle whose file has been freed. *)
LEMMA CloseFreedSound ==
    ASSUME FilesInv, NEW h \in Handles, CloseFreed(h)
    PROVE  FilesInv'
<1> USE DEF FilesInv
<1>1. PICK i \in Files : i = handles[h].file /\ files[i] = Freed BY Typed DEF CloseFreed, Dangling
<1>2. handles[h] \in OpenHandles /\ handles[h] # NULL BY Typed DEF CloseFreed
<1>3. handles' = [handles EXCEPT ![h] = Dropped(h)] /\ UNCHANGED <<fat, data, dir, files, cached_files, syncing, written>>
      BY DEF CloseFreed
<1>4. Dropped(h) = NULL \/ (Dropped(h) \in OpenHandles /\ Dropped(h).file = i) BY <1>1, <1>2 DEF Dropped, OpenHandles
<1>5. TypeOK' BY <1>3, <1>4 DEF TypeOK
<1>6. handles'[h] = Dropped(h) /\ \A x \in Handles \ {h} : handles'[x] = handles[x] BY <1>3 DEF TypeOK
<1>7. Objects' = Objects /\ FileObjects' = FileObjects /\ OnlyOnDisk' = OnlyOnDisk /\ Keys' = Keys
      BY <1>3 DEF Objects, FileObjects, OnlyOnDisk, Keys
<1>8. Starts' = Starts BY <1>3, <1>7 DEF Starts
<1>9. BlocksSound' BY <1>3, <1>7, <1>8 DEF BlocksSound
<1>10. ObjectsSound' /\ NamesSound' /\ DirSound' /\ ListSound'
       BY <1>3, <1>7 DEF ObjectsSound, NamesSound, DirSound, ListSound
<1>11. RefsSound' BY <1>1, <1>3, <1>4, <1>6, RefsKept
<1>12. HandlesSound'
  <2> SUFFICES ASSUME NEW x \in Handles, handles'[x] # NULL, files[handles'[x].file] # Freed
               PROVE  handles'[x].type = files[handles'[x].file].type /\ ~files[handles'[x].file].not_found
      BY <1>3 DEF HandlesSound
  <2>1. x # h BY <1>1, <1>4, <1>6
  <2> QED BY <1>6, <2>1 DEF HandlesSound
<1> QED BY <1>5, <1>9, <1>10, <1>11, <1>12

(* The dump of the hash table holds objects with names. *)
LEMMA SyncBeginSound ==
    ASSUME FilesInv, SyncBegin
    PROVE  FilesInv'
<1> USE DEF FilesInv
<1>1. UNCHANGED <<fat, data, dir, files, cached_files, handles, written>> BY DEF SyncBegin
<1>2. DOMAIN cached_files = AllNames BY DEF TypeOK, AllNames
<1>3. \A i \in syncing' : \E n \in AllNames : i = cached_files[n] /\ i # NULL BY <1>2 DEF SyncBegin
<1>4. \A i \in syncing' : i \in Files /\ files[i] # Freed /\ ~files[i].unlinked
      BY <1>3 DEF NamesSound, TypeOK, AllNames
<1>5. syncing' \in SUBSET Files BY <1>4
<1>6. TypeOK' BY <1>1, <1>5 DEF TypeOK
<1>7. Objects' = Objects /\ FileObjects' = FileObjects /\ OnlyOnDisk' = OnlyOnDisk /\ Keys' = Keys
      BY <1>1 DEF Objects, FileObjects, OnlyOnDisk, Keys
<1>8. Starts' = Starts BY <1>1, <1>7 DEF Starts
<1>9. BlocksSound' BY <1>1, <1>7, <1>8 DEF BlocksSound
<1>10. ObjectsSound' /\ NamesSound' /\ DirSound' /\ HandlesSound'
       BY <1>1, <1>7 DEF ObjectsSound, NamesSound, DirSound, HandlesSound
<1>11. RefsSound' BY <1>1, RefsSame
<1>12. ListSound' BY <1>1, <1>4 DEF ListSound, Objects
<1> QED BY <1>6, <1>9, <1>10, <1>11, <1>12

(* Nothing about chains changes. *)
LEMMA BlocksQuiet ==
    ASSUME BlocksSound, NEW i \in Files, \A j \in Files \ {i} : files'[j] = files[j], fat' = fat,
           OnlyOnDisk' = OnlyOnDisk, \A e \in OnlyOnDisk : dir'[e].payload = dir[e].payload,
           i \in FileObjects' <=> i \in FileObjects,
           i \in FileObjects => files'[i].payload = files[i].payload /\ files'[i].alloc_map = files[i].alloc_map
    PROVE  BlocksSound'
<1>1. FileObjects' = FileObjects
  <2>1. \A j \in Files \ {i} : j \in FileObjects' <=> j \in FileObjects BY DEF FileObjects, Objects
  <2>2. FileObjects \subseteq Files /\ FileObjects' \subseteq Files BY DEF FileObjects, Objects
  <2> QED BY <2>1, <2>2
<1>2. Keys' = Keys BY <1>1 DEF Keys
<1>3. \A j \in FileObjects : files'[j].payload = files[j].payload /\ files'[j].alloc_map = files[j].alloc_map
      BY DEF FileObjects, Objects
<1>4. Starts' = Starts
  <2>1. \A k \in Keys : (IF k[1] = "open" THEN files'[k[2]].payload ELSE dir'[k[2]].payload)
                        = (IF k[1] = "open" THEN files[k[2]].payload ELSE dir[k[2]].payload)
        BY <1>3 DEF Keys
  <2> QED BY <1>2, <2>1 DEF Starts
<1> QED BY <1>1, <1>2, <1>3, <1>4 DEF BlocksSound

(* The table without a chain. *)
LEMMA UnchainedIs ==
    ASSUME fat \in Tables, data \in [Blocks -> Content], NEW f, Follows(fat, f.payload, f.alloc_map)
    PROVE  /\ Unchained(f) \in Tables /\ Forgotten(f) \in [Blocks -> Content]
           /\ \A b \in Blocks : Unchained(f)[b] = IF b \in ToSet(f.alloc_map) THEN 0 ELSE fat[b]
<1>1. Chain(f.payload) = f.alloc_map BY ChainFound
<1>2. f.payload = END_OF_CHAIN => ToSet(f.alloc_map) = {}
  <2>1. f.alloc_map \in Seq(Blocks) BY DEF Follows
  <2>2. f.alloc_map # <<>> => f.alloc_map[1] \in Blocks /\ f.payload = f.alloc_map[1] BY <2>1 DEF Follows
  <2>3. f.payload = END_OF_CHAIN => f.alloc_map = <<>> BY <2>2, Ends
  <2> QED BY <2>3 DEF ToSet
<1>3. \A b \in Blocks : Unchained(f)[b] = IF b \in ToSet(f.alloc_map) THEN 0 ELSE fat[b]
      BY <1>1, <1>2 DEF Unchained
<1>4. Unchained(f) \in Tables BY Ends DEF Unchained, Tables
<1>5. Forgotten(f) \in [Blocks -> Content] BY DEF Forgotten, Content
<1> QED BY <1>3, <1>4, <1>5

(* The record with another count. *)
LEMMA Counted ==
    ASSUME NEW f \in CachedFiles, NEW r \in 0 .. MaxRefs, NEW g, g = [f EXCEPT !.refcount = r]
    PROVE  /\ g \in CachedFiles /\ g.name = f.name /\ g.refcount = r /\ g.unlinked = f.unlinked /\ g.type = f.type
           /\ g.not_found = f.not_found /\ g.entry = f.entry /\ g.payload = f.payload /\ g.size = f.size
           /\ g.alloc_map = f.alloc_map /\ g.slots = f.slots /\ g.changed_entry = f.changed_entry
           /\ g.changed_cache = f.changed_cache
BY DEF CachedFiles

(* The count of an object with a name covers its handles. *)
LEMMA Referenced ==
    ASSUME FilesInv, NEW h \in Handles, handles[h] # NULL, files[handles[h].file] # Freed
    PROVE  LET i == handles[h].file IN
           /\ i \in Objects /\ files[i] \in CachedFiles /\ files[i].refcount \in 1 .. MaxRefs
           /\ ObjectSound(i, files[i], cached_files, dir)
<1> USE DEF FilesInv
<1>1. PICK i \in Objects : i = handles[h].file BY Typed DEF Objects
<1>2. files[i] \in CachedFiles /\ ObjectSound(i, files[i], cached_files, dir) BY Typed DEF ObjectsSound
<1>3. files[i].refcount \in 0 .. MaxRefs /\ MaxRefs \in Nat BY <1>2, EchfsAssumption DEF CachedFiles
<1>4. CASE files[i].unlinked BY <1>1, <1>2, <1>3, <1>4 DEF ObjectSound
<1>5. CASE ~files[i].unlinked
  <2>1. IsFiniteSet(Refs(i)) /\ Cardinality(Refs(i)) <= files[i].refcount BY <1>5 DEF RefsSound
  <2>2. handles[h].refcount \in Nat \ {0} BY Typed DEF OpenHandles
  <2>3. <<h, 1>> \in Refs(i) BY <1>1, <2>2 DEF Refs
  <2>4. Cardinality(Refs(i)) \in Nat /\ Cardinality(Refs(i)) # 0
    <3>1. PICK R : R = Refs(i) OBVIOUS
    <3>2. Cardinality(R) \in Nat /\ Cardinality(R) # 0 BY <2>1, <2>3, <3>1, FS_CardinalityType, FS_EmptySet
    <3> QED BY <3>1, <3>2
  <2> QED BY <1>1, <1>2, <1>3, <2>1, <2>4
<1> QED BY <1>4, <1>5

(* echfs_dup. *)
LEMMA DupSound ==
    ASSUME FilesInv, NEW h \in Handles, echfs_dup(h)
    PROVE  FilesInv'
<1> USE DEF FilesInv
<1>1. handles[h] # NULL /\ files[handles[h].file] # Freed /\ files[handles[h].file].refcount < MaxRefs
      BY DEF echfs_dup, Uses, Dangling
<1>2. PICK i \in Objects : i = handles[h].file /\ files[i].refcount \in 1 .. MaxRefs
                           /\ ObjectSound(i, files[i], cached_files, dir)
      BY <1>1, Referenced
<1>3. PICK f \in CachedFiles : f = files[i] BY Typed
<1>4. PICK r \in 0 .. MaxRefs : r = f.refcount + 1 /\ r # 0 BY <1>1, <1>2, <1>3, EchfsAssumption
<1>5. PICK g : g = [f EXCEPT !.refcount = r] OBVIOUS
<1>6. files' = [files EXCEPT ![i] = g] BY <1>2, <1>3, <1>4, <1>5 DEF echfs_dup
<1>7. i \in Files BY DEF Objects
<1>8. files'[i] = g /\ \A j \in Files \ {i} : files'[j] = files[j] BY <1>6, <1>7 DEF TypeOK
<1> DEFINE v == [handles[h] EXCEPT !.refcount = @ + 1]
<1>9. handles[h] \in OpenHandles BY <1>1, Typed
<1>10. v \in OpenHandles /\ v.file = i /\ v.type = handles[h].type /\ v.refcount = handles[h].refcount + 1
       BY <1>2, <1>9 DEF OpenHandles
<1>11. handles' = [handles EXCEPT ![h] = v] BY DEF echfs_dup
<1>12. v # NULL BY <1>10, NullAssumption
<1> HIDE DEF v
<1>13. handles'[h] = v /\ \A x \in Handles \ {h} : handles'[x] = handles[x] BY <1>11 DEF TypeOK
<1>14. UNCHANGED <<fat, data, dir, cached_files, syncing, written>> BY DEF echfs_dup
<1>15. g \in CachedFiles BY <1>5, Counted
<1>16. TypeOK' BY <1>6, <1>10, <1>11, <1>14, <1>15 DEF TypeOK
<1>17. RefsSound'
  <2>1. g # Freed /\ ~g.unlinked => IsFiniteSet(Refs(i)') /\ Cardinality(Refs(i)') <= g.refcount
    <3> SUFFICES ASSUME ~g.unlinked PROVE IsFiniteSet(Refs(i)') /\ Cardinality(Refs(i)') <= g.refcount OBVIOUS
    <3>1. ~f.unlinked /\ g.refcount = f.refcount + 1 BY <1>4, <1>5, Counted
    <3>2. IsFiniteSet(Refs(i)) /\ Cardinality(Refs(i)) <= f.refcount BY <1>3, <3>1 DEF RefsSound
    <3>3. PICK n \in Nat : n = handles[h].refcount BY <1>9 DEF OpenHandles
    <3>4. IsFiniteSet(Refs(i)') /\ Cardinality(Refs(i)') = Cardinality(Refs(i)) + 1
          BY <1>1, <1>2, <1>10, <1>12, <1>13, <3>2, <3>3, RefsAdd
    <3>5. Cardinality(Refs(i)) \in Nat /\ f.refcount \in Nat
      <4>1. PICK R : R = Refs(i) OBVIOUS
      <4> QED BY <1>2, <1>3, <3>2, <4>1, FS_CardinalityType
    <3> QED BY <3>1, <3>2, <3>4, <3>5
  <2> QED BY <1>2, <1>7, <1>8, <1>10, <1>13, <2>1, RefsKept
<1>18. \A x \in Handles : handles'[x] # NULL => handles[x] # NULL /\ handles'[x].file = handles[x].file
                                               /\ handles'[x].type = handles[x].type
       BY <1>1, <1>2, <1>10, <1>13
<1>19. /\ g.name = f.name /\ g.unlinked = f.unlinked /\ g.type = f.type /\ g.not_found = f.not_found
       /\ g.entry = f.entry /\ g.refcount # 0 /\ g.changed_entry = f.changed_entry /\ g.changed_cache = f.changed_cache
       /\ g.payload = f.payload /\ g.alloc_map = f.alloc_map /\ g.slots = f.slots
       BY <1>4, <1>5, Counted
<1>20. g.type = "dir" => Blank(g) BY <1>2, <1>3, <1>19 DEF ObjectSound, Blank
<1>21. OnlyOnDisk' = OnlyOnDisk /\ (\A e \in OnlyOnDisk : dir'[e] = dir[e]) => BlocksSound'
  <2> SUFFICES ASSUME OnlyOnDisk' = OnlyOnDisk PROVE BlocksSound' OBVIOUS
  <2>1. i \in FileObjects' <=> i \in FileObjects
        BY <1>3, <1>7, <1>8, <1>15, <1>19, NotFreed DEF FileObjects, Objects
  <2> QED BY <1>3, <1>7, <1>8, <1>14, <1>19, <2>1, BlocksQuiet
<1> QED BY <1>3, <1>8, <1>14, <1>15, <1>16, <1>17, <1>18, <1>19, <1>20, <1>21, ObjectChanges

(* The last reference to an object without a name goes. *)
LEMMA DeletedSound ==
    ASSUME FilesInv, NEW h \in Handles, handles[h] # NULL, NEW i \in Objects, i = handles[h].file, NEW f, f = files[i],
           f.unlinked, files' = [files EXCEPT ![i] = Freed], fat' = Unchained(f), data' = Forgotten(f),
           written' = [written EXCEPT ![i] = Unwritten], handles' = [handles EXCEPT ![h] = Dropped(h)],
           UNCHANGED <<dir, cached_files, syncing>>
    PROVE  FilesInv'
<1> USE DEF FilesInv
<1>1. f \in CachedFiles /\ i \in Files BY Typed
<1>2. ObjectSound(i, f, cached_files, dir) BY DEF ObjectsSound
<1>3. i \in FileObjects BY <1>2 DEF ObjectSound, FileObjects, CachedFiles
<1>4. Follows(fat, f.payload, f.alloc_map) BY <1>3, OpenChain
<1>5. /\ Unchained(f) \in Tables /\ Forgotten(f) \in [Blocks -> Content]
      /\ \A b \in Blocks : Unchained(f)[b] = IF b \in ToSet(f.alloc_map) THEN 0 ELSE fat[b]
      BY <1>4, Typed, UnchainedIs
<1>6. handles[h] \in OpenHandles BY Typed
<1>7. Dropped(h) = NULL \/ (Dropped(h) \in OpenHandles /\ Dropped(h).file = i) BY <1>6 DEF Dropped, OpenHandles
<1>8. handles'[h] = Dropped(h) /\ \A x \in Handles \ {h} : handles'[x] = handles[x] BY DEF TypeOK
<1>9. TypeOK'
  <2>1. Unwritten \in [0 .. NBlocks -> Data \cup {NULL}] BY DEF Unwritten
  <2>2. written' \in [Files -> [0 .. NBlocks -> Data \cup {NULL}]] BY <2>1 DEF TypeOK
  <2>3. files' \in [Files -> CachedFiles \cup {Freed}] BY DEF TypeOK
  <2>4. handles' \in [Handles -> OpenHandles \cup {NULL}] BY <1>7 DEF TypeOK
  <2> QED BY <1>5, <2>2, <2>3, <2>4 DEF TypeOK, Tables, Content
<1>10. files'[i] = Freed /\ \A j \in Files \ {i} : files'[j] = files[j] BY <1>1 DEF TypeOK
<1>11. i \notin Objects' /\ i \notin FileObjects' BY <1>10 DEF Objects, FileObjects
<1>12. OnlyOnDisk' = OnlyOnDisk BY DEF OnlyOnDisk
<1>13. BlocksSound'
  <2>1. \A b \in Blocks : fat'[b] = IF b \in ToSet(f.alloc_map) THEN 0 ELSE fat[b] BY <1>5
  <2>2. PICK own : own = ToSet(f.alloc_map) OBVIOUS
  <2>3. own = IF i \in FileObjects THEN ToSet(files[i].alloc_map) ELSE {} BY <1>3, <2>2
  <2>4. \A b \in Blocks : fat[b] # 0 /\ b \notin own => fat'[b] = fat[b] BY <2>1, <2>2
  <2>5. \A b \in Blocks : b \in own \/ fat[b] = 0 => fat'[b] = 0 BY <2>1, <2>2
  <2> QED BY <1>1, <1>10, <1>11, <1>12, <2>3, <2>4, <2>5, BlocksOne
<1>14. ObjectsSound'
  <2> SUFFICES ASSUME NEW j \in Files, files'[j] # Freed PROVE ObjectSound(j, files'[j], cached_files', dir')
      BY DEF ObjectsSound, Objects
  <2>1. j # i /\ files'[j] = files[j] BY <1>10
  <2> QED BY <2>1 DEF ObjectsSound, Objects
<1>15. NamesSound'
  <2> SUFFICES ASSUME NEW m \in AllNames, cached_files[m] # NULL
               PROVE  /\ files'[cached_files[m]] # Freed /\ files'[cached_files[m]].name = m
                      /\ ~files'[cached_files[m]].unlinked
      BY DEF NamesSound
  <2>1. cached_files[m] \in Files BY DEF TypeOK, AllNames
  <2>2. files[cached_files[m]] # Freed /\ files[cached_files[m]].name = m /\ ~files[cached_files[m]].unlinked
        BY DEF NamesSound
  <2>3. cached_files[m] # i BY <2>2
  <2> QED BY <1>10, <2>1, <2>2, <2>3
<1>16. DirSound' BY DEF DirSound
<1>17. HandlesSound'
  <2>1. \A x \in Handles : handles'[x] # NULL /\ handles'[x].file # i =>
              handles[x] # NULL /\ handles[x].file = handles'[x].file /\ handles[x].type = handles'[x].type
              /\ handles[x].file \in Files
        BY <1>7, <1>8, Typed
  <2> QED BY <1>1, <1>10, <2>1, HandlesKept
<1>18. RefsSound' BY <1>1, <1>7, <1>8, <1>10, RefsKept
<1>19. ListSound'
  <2> SUFFICES ASSUME syncing # NULL, NEW j \in syncing PROVE j \in Objects' /\ ~files'[j].unlinked BY DEF ListSound
  <2>1. j \in Objects /\ ~files[j].unlinked BY DEF ListSound
  <2>2. j # i BY <2>1
  <2> QED BY <1>10, <2>1, <2>2 DEF Objects
<1> QED BY <1>9, <1>13, <1>14, <1>15, <1>16, <1>17, <1>18, <1>19

(* echfs_close, with the last reference to a deleted file or not. *)
LEMMA CloseSound ==
    ASSUME FilesInv, NEW h \in Handles, echfs_close(h)
    PROVE  FilesInv'
<1> USE DEF FilesInv
<1>1. handles[h] # NULL /\ files[handles[h].file] # Freed BY DEF echfs_close, Dangling
<1>2. PICK i \in Objects : i = handles[h].file /\ files[i].refcount \in 1 .. MaxRefs
                           /\ ObjectSound(i, files[i], cached_files, dir)
      BY <1>1, Referenced
<1>3. PICK f \in CachedFiles : f = files[i] BY Typed
<1>4. Unreferenced(i) /\ handles' = [handles EXCEPT ![h] = Dropped(h)] /\ UNCHANGED <<dir, cached_files, syncing>>
      BY <1>2 DEF echfs_close
<1>5. CASE f.refcount = 1 /\ f.unlinked
  <2>1. files' = [files EXCEPT ![i] = Freed] /\ fat' = Unchained(f) /\ data' = Forgotten(f)
        /\ written' = [written EXCEPT ![i] = Unwritten]
        BY <1>3, <1>4, <1>5 DEF Unreferenced
  <2> QED BY <1>1, <1>2, <1>3, <1>4, <1>5, <2>1, DeletedSound
<1>6. CASE ~(f.refcount = 1 /\ f.unlinked)
  <2>1. PICK r \in 0 .. MaxRefs : r = f.refcount - 1 /\ f.refcount \in Nat /\ f.refcount # 0
    <3>1. f.refcount \in 1 .. MaxRefs /\ MaxRefs \in Nat BY <1>2, <1>3, EchfsAssumption
    <3>2. f.refcount - 1 \in 0 .. MaxRefs BY <3>1
    <3> QED BY <3>1, <3>2
  <2>2. PICK g : g = [f EXCEPT !.refcount = r] OBVIOUS
  <2>3. files' = [files EXCEPT ![i] = g] /\ UNCHANGED <<fat, data, written>>
        BY <1>3, <1>4, <1>6, <2>1, <2>2 DEF Unreferenced
  <2>4. i \in Files BY DEF Objects
  <2>5. files'[i] = g /\ \A j \in Files \ {i} : files'[j] = files[j] BY <2>3, <2>4 DEF TypeOK
  <2>6. handles[h] \in OpenHandles BY <1>1, Typed
  <2>7. Dropped(h) = NULL \/ (Dropped(h) \in OpenHandles /\ Dropped(h).file = i /\ Dropped(h).type = handles[h].type)
        BY <1>2, <2>6 DEF Dropped, OpenHandles
  <2>8. handles'[h] = Dropped(h) /\ \A x \in Handles \ {h} : handles'[x] = handles[x] BY <1>4 DEF TypeOK
  <2>9. g \in CachedFiles BY <2>2, Counted
  <2>10. TypeOK' BY <1>4, <2>3, <2>7, <2>9 DEF TypeOK
  <2>11. RefsSound'
    <3>1. g # Freed /\ ~g.unlinked => IsFiniteSet(Refs(i)') /\ Cardinality(Refs(i)') <= g.refcount
      <4> SUFFICES ASSUME ~g.unlinked PROVE IsFiniteSet(Refs(i)') /\ Cardinality(Refs(i)') <= g.refcount OBVIOUS
      <4>1. ~f.unlinked /\ g.refcount = f.refcount - 1 BY <2>1, <2>2, Counted
      <4>2. IsFiniteSet(Refs(i)) /\ Cardinality(Refs(i)) <= f.refcount BY <1>3, <4>1 DEF RefsSound
      <4>3. /\ IsFiniteSet(Refs(i)') /\ Cardinality(Refs(i)') = Cardinality(Refs(i)) - 1
            /\ Cardinality(Refs(i)) \in Nat \ {0}
            BY <1>1, <1>2, <1>4, <4>2, RefsDrop
      <4> QED BY <2>1, <4>1, <4>2, <4>3
    <3> QED BY <1>2, <2>4, <2>5, <2>7, <2>8, <3>1, RefsKept
  <2>12. \A x \in Handles : handles'[x] # NULL => handles[x] # NULL /\ handles'[x].file = handles[x].file
                                                 /\ handles'[x].type = handles[x].type
         BY <1>1, <1>2, <2>7, <2>8
  <2>13. /\ g.name = f.name /\ g.unlinked = f.unlinked /\ g.type = f.type /\ g.not_found = f.not_found
         /\ g.entry = f.entry /\ g.changed_entry = f.changed_entry /\ g.changed_cache = f.changed_cache
         /\ g.payload = f.payload /\ g.alloc_map = f.alloc_map /\ (g.unlinked => g.refcount # 0) /\ g.slots = f.slots
         BY <1>6, <2>1, <2>2, Counted
  <2>14. g.type = "dir" => Blank(g) BY <1>2, <1>3, <2>13 DEF ObjectSound, Blank
  <2>15. OnlyOnDisk' = OnlyOnDisk /\ (\A e \in OnlyOnDisk : dir'[e] = dir[e]) => BlocksSound'
    <3> SUFFICES ASSUME OnlyOnDisk' = OnlyOnDisk PROVE BlocksSound' OBVIOUS
    <3>1. i \in FileObjects' <=> i \in FileObjects
          BY <1>3, <2>4, <2>5, <2>9, <2>13, NotFreed DEF FileObjects, Objects
    <3> QED BY <1>3, <1>4, <2>3, <2>4, <2>5, <2>13, <3>1, BlocksQuiet
  <2> QED BY <1>3, <1>4, <2>5, <2>9, <2>10, <2>11, <2>12, <2>13, <2>14, <2>15, ObjectChanges
<1> QED BY <1>5, <1>6

-----------------------------------------------------------------------------
(***************************************************************************)
(* Reading and writing                                                      *)
(***************************************************************************)

(* A chain that has grown holds its old blocks and blocks that were free. *)
LEMMA GrownBlocks ==
    ASSUME NEW f, NEW s, NEW n \in Nat, NEW e, Grown(f, s, n, e), Follows(f, StartsAt(s), s)
    PROVE  /\ ToSet(s) \subseteq ToSet(e.map)
           /\ \A b \in ToSet(e.map) : b \in ToSet(s) \/ f[b] = 0
           /\ \A b \in Blocks : b \in ToSet(s) \/ f[b] = 0 => (e.fat[b] # 0 <=> b \in ToSet(e.map))
<1>1. PICK m \in Seq(Blocks) : m = e.map BY DEF Grown, Chains
<1>2. s \in Seq(Blocks) BY DEF Follows
<1>3. Len(m) = Len(s) + n /\ Len(s) \in Nat /\ Len(m) \in Nat BY <1>1, <1>2 DEF Grown
<1>4. ASSUME NEW b \in ToSet(s) PROVE b \in ToSet(m)
  <2>1. PICK j \in 1 .. Len(s) : s[j] = b BY <1>2, InSeq
  <2>2. j \in 1 .. Len(m) /\ m[j] = b BY <1>1, <1>3, <2>1 DEF Grown
  <2> QED BY <2>2, InSeq
<1>5. ASSUME NEW b \in ToSet(m) PROVE b \in ToSet(s) \/ f[b] = 0
  <2>1. PICK j \in 1 .. Len(m) : m[j] = b BY InSeq
  <2>2. CASE j <= Len(s)
    <3>1. j \in 1 .. Len(s) /\ s[j] = b BY <1>1, <1>3, <2>1, <2>2 DEF Grown
    <3> QED BY <1>2, <3>1, InSeq
  <2>3. CASE j > Len(s)
    <3>1. j \in Len(s) + 1 .. Len(s) + n BY <1>3, <2>1, <2>3
    <3>2. f[e.map[j]] = 0 BY <3>1 DEF Grown
    <3> QED BY <1>1, <2>1, <3>2
  <2> QED BY <1>3, <2>2, <2>3
<1>6. ASSUME NEW b \in Blocks, b \in ToSet(s) \/ f[b] = 0 PROVE e.fat[b] # 0 <=> b \in ToSet(m)
  <2>1. e.fat[b] = 0 <=> f[b] = 0 /\ b \notin ToSet(e.map) BY DEF Grown
  <2>2. b \in ToSet(s) => f[b] # 0 BY ChainUsed
  <2> QED BY <1>1, <1>4, <1>6, <2>1, <2>2
<1> QED BY <1>1, <1>4, <1>5, <1>6

(* The fields cache_block and a write leave alone. *)
SameFile(g, f) ==
    /\ g \in CachedFiles /\ g.name = f.name /\ g.refcount = f.refcount /\ g.unlinked = f.unlinked
    /\ g.type = f.type /\ g.not_found = f.not_found /\ g.entry = f.entry

(* An open file, its chain grown, is used through a handle. *)
LEMMA GrowSound ==
    ASSUME FilesInv, NEW i \in FileObjects, NEW f, f = files[i], NEW g, SameFile(g, f), files' = [files EXCEPT ![i] = g],
           NEW n \in Nat, NEW e, Grown(fat, f.alloc_map, n, e), g.alloc_map = e.map, g.payload = StartsAt(e.map),
           fat' = e.fat, data' \in [Blocks -> Content], written' \in [Files -> [0 .. NBlocks -> Data \cup {NULL}]],
           NEW h \in Handles, handles[h] # NULL, NEW v \in OpenHandles, handles' = [handles EXCEPT ![h] = v],
           v.file = handles[h].file, v.type = handles[h].type, v.refcount = handles[h].refcount,
           UNCHANGED <<dir, cached_files, syncing>>
    PROVE  FilesInv'
<1> USE DEF FilesInv
<1>1. i \in Objects /\ i \in Files /\ f \in CachedFiles /\ g \in CachedFiles /\ f.type = "file" /\ ~f.not_found
      BY Typed DEF FileObjects, SameFile
<1>2. files'[i] = g /\ \A j \in Files \ {i} : files'[j] = files[j] BY <1>1 DEF TypeOK
<1>3. v # NULL BY NullAssumption
<1>4. handles'[h] = v /\ \A x \in Handles \ {h} : handles'[x] = handles[x] BY DEF TypeOK
<1>5. TypeOK'
  <2>1. fat' \in Tables BY DEF Grown, Chains
  <2>2. handles' \in [Handles -> OpenHandles \cup {NULL}] BY DEF TypeOK
  <2>3. files' \in [Files -> CachedFiles \cup {Freed}] BY <1>1 DEF TypeOK
  <2> QED BY <2>1, <2>2, <2>3 DEF TypeOK, Tables, Content
<1>6. \A x \in Handles : /\ handles'[x] # NULL <=> handles[x] # NULL
                         /\ handles[x] # NULL => /\ handles'[x].file = handles[x].file
                                                 /\ handles'[x].type = handles[x].type
                                                 /\ handles'[x].refcount = handles[x].refcount
      BY <1>3, <1>4
<1>7. RefsSound'
  <2>1. \A j \in Files : files'[j] # Freed /\ ~files'[j].unlinked =>
              files[j] # Freed /\ ~files[j].unlinked /\ files'[j].refcount = files[j].refcount
        BY <1>1, <1>2 DEF SameFile, Objects
  <2> QED BY <1>6, <2>1, RefsSame
<1>8. ObjectSound(i, f, cached_files, dir) BY <1>1 DEF ObjectsSound
<1>9. g.unlinked => g.refcount # 0 BY <1>8 DEF ObjectSound, SameFile
<1>10. i \in FileObjects' BY <1>1, <1>2, NotFreed DEF FileObjects, Objects, SameFile
<1>11. OnlyOnDisk' = OnlyOnDisk /\ (\A x \in OnlyOnDisk : dir'[x] = dir[x]) => BlocksSound'
  <2> SUFFICES ASSUME OnlyOnDisk' = OnlyOnDisk PROVE BlocksSound' OBVIOUS
  <2>1. Follows(fat, StartsAt(f.alloc_map), f.alloc_map) BY OpenChain
  <2>2. PICK own : own = ToSet(f.alloc_map) OBVIOUS
  <2>3. own = IF i \in FileObjects THEN ToSet(files[i].alloc_map) ELSE {} BY <2>2
  <2>4. PICK m : m = e.map OBVIOUS
  <2>5. /\ \A b \in ToSet(m) : b \in own \/ fat[b] = 0
        /\ \A b \in Blocks : b \in own \/ fat[b] = 0 => (fat'[b] # 0 <=> b \in ToSet(m))
        BY <2>1, <2>2, <2>4, GrownBlocks
  <2>6. \A b \in Blocks : fat[b] # 0 /\ b \notin own => fat'[b] = fat[b] BY <2>2 DEF Grown
  <2>7. Follows(fat', g.payload, m) BY <2>4 DEF Grown
  <2>8. files'[i].alloc_map = m /\ files'[i].payload = g.payload BY <1>2, <2>4
  <2>9. /\ Follows(fat', files'[i].payload, files'[i].alloc_map)
        /\ \A b \in ToSet(files'[i].alloc_map) : b \in own \/ fat[b] = 0
        /\ \A b \in Blocks : b \in own \/ fat[b] = 0 =>
              (fat'[b] # 0 <=> i \in FileObjects' /\ b \in ToSet(files'[i].alloc_map))
        BY <1>10, <2>5, <2>7, <2>8
  <2>10. BlocksSound /\ OnlyOnDisk' = OnlyOnDisk /\ \A x \in OnlyOnDisk : dir'[x].payload = dir[x].payload OBVIOUS
  <2> QED BY ONLY <1>1, <1>2, <2>3, <2>6, <2>9, <2>10, BlocksOne
<1>12. g.type = "file" /\ "file" # "dir" BY <1>1 DEF SameFile
<1> QED BY <1>1, <1>2, <1>5, <1>6, <1>7, <1>9, <1>11, <1>12, ObjectChanges DEF SameFile

(* A block that is cached, or brought in. *)
LEMMA CachedIs ==
    ASSUME FilesInv, NEW i \in FileObjects, NEW f, f = files[i], NEW p \in Nat, ~TableFull(f, p), NEW c, c = Cached(f, p)
    PROVE  \E n \in Nat : \E e :
               /\ Grown(fat, f.alloc_map, n, e) /\ c.file.alloc_map = e.map /\ c.file.payload = StartsAt(e.map)
               /\ c.fat = e.fat /\ SameFile(c.file, f) /\ c.data \in [Blocks -> Content] /\ find_block(c.file, p) # {}
<1> USE DEF FilesInv
<1>1. f \in CachedFiles BY Typed DEF FileObjects
<1>2. Follows(fat, f.payload, f.alloc_map) /\ f.payload = StartsAt(f.alloc_map) BY OpenChain
<1>3. fat \in Tables /\ data \in [Blocks -> Content] BY Typed
<1>4. CASE find_block(f, p) # {}
  <2>1. c = [file |-> f, fat |-> fat, data |-> data] BY <1>4 DEF Cached
  <2>2. c.file = f /\ c.fat = fat /\ c.data = data BY <2>1
  <2>3. PICK s : s = f.alloc_map OBVIOUS
  <2>4. PICK e : e = [fat |-> fat, map |-> s] OBVIOUS
  <2>5. Grown(fat, s, 0, e) BY <1>2, <1>3, <2>3, <2>4, GrownNone
  <2>6. e.fat = fat /\ e.map = s BY <2>4
  <2>7. SameFile(f, f) BY <1>1 DEF SameFile
  <2> QED BY <1>2, <1>3, <1>4, <2>2, <2>3, <2>5, <2>6, <2>7
<1>5. CASE find_block(f, p) = {}
  <2>1. c = cache_block(f, p) BY <1>5 DEF Cached
  <2>2. PICK k \in Nat : k = Missing(f, p) BY <1>1, MissingIs
  <2>3. k <= Cardinality(FreeBlocks(fat))
    <3>1. IsFiniteSet(Blocks) BY Ends, FS_Interval DEF Blocks
    <3>2. PICK S \in SUBSET Blocks : S = FreeBlocks(fat) BY DEF FreeBlocks
    <3>3. Cardinality(S) \in Nat BY <3>1, FS_Subset, FS_CardinalityType
    <3>4. ~(k > Cardinality(S)) BY <1>5, <2>2, <3>2 DEF TableFull
    <3> QED BY <3>2, <3>3, <3>4
  <2>4. PICK e : e = Extended(f.alloc_map, k) OBVIOUS
  <2>5. PICK g, t, val : /\ g = c.file /\ t = Target(f)
                         /\ val = devfs_read(Evicted(f), e.map[p + 1], f.slots[t].val)
        OBVIOUS
  <2>6. /\ Grown(fat, f.alloc_map, k, e) /\ SameFile(g, f) /\ g.alloc_map = e.map /\ g.payload = StartsAt(e.map)
        /\ g.slots = [f.slots EXCEPT ![t] = [status |-> "READY", block |-> p, val |-> val]]
        /\ c.fat = e.fat /\ c.data \in [Blocks -> Content]
    <3>1. Missing(f, p) <= Cardinality(FreeBlocks(fat)) BY <2>2, <2>3
    <3>2. LET x == cache_block(f, p)
              y == x.file
              z == Extended(f.alloc_map, Missing(f, p))
          IN  /\ Grown(fat, f.alloc_map, Missing(f, p), z)
              /\ y \in CachedFiles /\ y.name = f.name /\ y.refcount = f.refcount /\ y.unlinked = f.unlinked
              /\ y.type = f.type /\ y.not_found = f.not_found /\ y.entry = f.entry
              /\ y.alloc_map = z.map /\ y.payload = StartsAt(z.map)
              /\ y.slots = [f.slots EXCEPT ![Target(f)] =
                               [status |-> "READY", block |-> p,
                                val |-> devfs_read(Evicted(f), z.map[p + 1], f.slots[Target(f)].val)]]
              /\ x.fat = z.fat /\ x.data = Evicted(f) /\ x.data \in [Blocks -> Content]
          BY ONLY <1>1, <1>2, <1>3, <3>1, CacheBlockIs
    <3> QED BY <2>1, <2>2, <2>4, <2>5, <3>2 DEF SameFile
  <2>7. t \in find_block(g, p)
    <3>1. t \in Slots /\ f.slots \in [Slots -> CachedBlocks] BY <1>1, <2>5, TargetIs DEF CachedFiles
    <3>2. g.slots[t] = [status |-> "READY", block |-> p, val |-> val] BY <2>6, <3>1
    <3> QED BY <3>1, <3>2 DEF find_block
  <2> QED BY <2>5, <2>6, <2>7
<1> QED BY <1>4, <1>5

(* The file a handle for files refers to. *)
LEMMA HandleFile ==
    ASSUME FilesInv, NEW h \in Handles, handles[h] # NULL, ~Dangling(h), handles[h].type = "file"
    PROVE  handles[h].file \in FileObjects /\ handles[h] \in OpenHandles
<1> USE DEF FilesInv
<1>1. handles[h] \in OpenHandles /\ handles[h].file \in Files BY Typed
<1>2. files[handles[h].file] # Freed BY DEF Dangling
<1>3. files[handles[h].file].type = "file" /\ ~files[handles[h].file].not_found BY <1>2 DEF HandlesSound
<1> QED BY <1>1, <1>2, <1>3 DEF FileObjects, Objects

(* echfs_read. *)
LEMMA ReadSound ==
    ASSUME FilesInv, NEW h \in Handles, echfs_read(h)
    PROVE  FilesInv'
<1> USE DEF FilesInv
<1>1. handles[h] # NULL /\ ~Dangling(h) /\ handles[h].type = "file" BY DEF echfs_read, Uses
<1>2. PICK i \in FileObjects : i = handles[h].file BY <1>1, HandleFile
<1>3. handles[h] \in OpenHandles BY <1>1, HandleFile
<1>4. PICK p \in Nat : p = handles[h].ptr BY <1>3 DEF OpenHandles
<1>5. PICK f, c : f = files[i] /\ c = Cached(f, p) OBVIOUS
<1>9. PICK seen \in Seen(h) :
         IF seen > handles[h].end THEN Fails("count_underflow")
         ELSE IF TableFull(f, p) THEN Fails("table_full")
         ELSE /\ files' = [files EXCEPT ![i] = c.file] /\ fat' = c.fat /\ data' = c.data
              /\ handles' = [handles EXCEPT ![h].ptr = @ + 1] /\ UNCHANGED <<dir, cached_files, syncing, written, fault>>
      BY <1>2, <1>4, <1>5 DEF echfs_read
<1>6. CASE seen > handles[h].end \/ TableFull(f, p)
  <2>1. Fails("count_underflow") \/ Fails("table_full") BY <1>6, <1>9
  <2> QED BY <2>1, FailsSound
<1>7. CASE ~(seen > handles[h].end \/ TableFull(f, p))
  <2> DEFINE v == [handles[h] EXCEPT !.ptr = @ + 1]
  <2>1. /\ files' = [files EXCEPT ![i] = c.file] /\ fat' = c.fat /\ data' = c.data
        /\ handles' = [handles EXCEPT ![h] = v] /\ UNCHANGED <<dir, cached_files, syncing, written>>
        BY <1>7, <1>9
  <2>2. v \in OpenHandles /\ v.file = handles[h].file /\ v.type = handles[h].type /\ v.refcount = handles[h].refcount
        BY <1>3 DEF OpenHandles
  <2> HIDE DEF v
  <2>3. PICK n \in Nat, e \in Chains :
               /\ Grown(fat, f.alloc_map, n, e) /\ c.file.alloc_map = e.map /\ c.file.payload = StartsAt(e.map)
               /\ c.fat = e.fat /\ SameFile(c.file, f) /\ c.data \in [Blocks -> Content]
        BY <1>5, <1>7, CachedIs, GrownIn
  <2>4. written' \in [Files -> [0 .. NBlocks -> Data \cup {NULL}]] BY <2>1 DEF TypeOK
  <2>5. PICK g : g = c.file OBVIOUS
  <2> QED BY <1>1, <1>5, <2>1, <2>2, <2>3, <2>4, <2>5, GrowSound
<1> QED BY <1>6, <1>7

(* What a write makes of a file whose block is cached, in slot s. *)
StoredAs(g, f, p, val, end, s) ==
    /\ SameFile(g, f) /\ g.alloc_map = f.alloc_map /\ g.payload = f.payload
    /\ s \in find_block(f, p) /\ s \in Slots
    /\ g.slots = [f.slots EXCEPT ![s] = [status |-> "DIRTY", block |-> p, val |-> val]]
    /\ g.changed_cache /\ g.size = (IF p + 1 > end THEN p + 1 ELSE f.size)
    /\ g.changed_entry = (f.changed_entry \/ p + 1 > end)

(* Stored is such a file. *)
LEMMA StoredIs ==
    ASSUME NEW f \in CachedFiles, NEW p \in Nat, NEW val \in Data, NEW end \in Nat, find_block(f, p) # {}
    PROVE  \E s : StoredAs(Stored(f, p, val, end), f, p, val, end, s)
<1>1. find_block(f, p) \subseteq Slots /\ Slots \subseteq Nat BY EchfsAssumption DEF find_block, Slots
<1>2. PICK s \in find_block(f, p) : s = Min(find_block(f, p)) /\ s \in Slots BY <1>1, MinIs
<1>3. f.slots \in [Slots -> CachedBlocks] BY DEF CachedFiles
<1>4. f.slots[s] \in CachedBlocks /\ f.slots[s].block = p BY <1>2, <1>3 DEF find_block
<1>5. PICK slot \in CachedBlocks : slot = [status |-> "DIRTY", block |-> p, val |-> val] BY DEF CachedBlocks
<1>6. [[f.slots[s] EXCEPT !.val = val] EXCEPT !.status = "DIRTY"] = slot
  <2>1. PICK st, o : f.slots[s] = [status |-> st, block |-> p, val |-> o] BY <1>4 DEF CachedBlocks
  <2>2. [[status |-> st, block |-> p, val |-> o] EXCEPT !.val = val] = [status |-> st, block |-> p, val |-> val] OBVIOUS
  <2>3. [[status |-> st, block |-> p, val |-> val] EXCEPT !.status = "DIRTY"] = [status |-> "DIRTY", block |-> p, val |-> val]
        OBVIOUS
  <2>4. PICK x : x = f.slots[s] OBVIOUS
  <2>5. [[x EXCEPT !.val = val] EXCEPT !.status = "DIRTY"] = slot BY ONLY <1>5, <2>1, <2>2, <2>3, <2>4
  <2> QED BY <2>4, <2>5
<1>7. PICK slots \in [Slots -> CachedBlocks] : slots = [f.slots EXCEPT ![s] = slot] BY <1>3
<1>8. PICK size \in Nat : size = IF p + 1 > end THEN p + 1 ELSE f.size BY DEF CachedFiles
<1> DEFINE g == [f EXCEPT !.slots = slots, !.changed_cache = TRUE, !.size = size, !.changed_entry = @ \/ p + 1 > end]
<1>9. Stored(f, p, val, end) = g BY <1>2, <1>3, <1>6, <1>7, <1>8, ZenonT(30) DEF Stored, CachedFiles
<1>10. /\ g \in CachedFiles /\ g.name = f.name /\ g.refcount = f.refcount /\ g.unlinked = f.unlinked
       /\ g.type = f.type /\ g.not_found = f.not_found /\ g.entry = f.entry /\ g.size = size
       /\ g.changed_cache /\ g.changed_entry = (f.changed_entry \/ p + 1 > end)
       /\ g.alloc_map = f.alloc_map /\ g.payload = f.payload /\ g.slots = slots
       BY DEF CachedFiles
<1> HIDE DEF g
<1>11. StoredAs(g, f, p, val, end, s) BY <1>2, <1>5, <1>7, <1>8, <1>10 DEF SameFile, StoredAs
<1> QED BY <1>9, <1>11

(* echfs_write. *)
LEMMA WriteSound ==
    ASSUME FilesInv, NEW h \in Handles, NEW val \in Data, echfs_write(h, val)
    PROVE  FilesInv'
<1> USE DEF FilesInv
<1>1. handles[h] # NULL /\ ~Dangling(h) /\ handles[h].type = "file" BY DEF echfs_write, Uses
<1>2. PICK i \in FileObjects : i = handles[h].file BY <1>1, HandleFile
<1>3. handles[h] \in OpenHandles BY <1>1, HandleFile
<1>4. PICK end \in Nat, p \in Nat : end = handles[h].end /\ p = IF "APPEND" \in handles[h].flags THEN end ELSE handles[h].ptr
      BY <1>3 DEF OpenHandles
<1>5. PICK f, c : f = files[i] /\ c = Cached(f, p) OBVIOUS
<1>6. CASE TableFull(f, p)
  <2>1. Fails("table_full") BY <1>2, <1>4, <1>5, <1>6 DEF echfs_write
  <2> QED BY <2>1, FailsSound
<1>7. CASE ~TableFull(f, p)
  <2>1. PICK last \in Nat : last = Max({end, p + 1}) BY MaxOfTwo
  <2> DEFINE v == [handles[h] EXCEPT !.ptr = p + 1, !.end = last]
  <2>2. PICK g : g = Stored(c.file, p, val, end) OBVIOUS
  <2>3. /\ files' = [files EXCEPT ![i] = g] /\ fat' = c.fat /\ data' = c.data
        /\ written' = [written EXCEPT ![i][p] = val] /\ UNCHANGED <<dir, cached_files, syncing>>
        BY <1>2, <1>4, <1>5, <1>7, <2>2 DEF echfs_write
  <2>4. handles' = [handles EXCEPT ![h] = v] BY <1>2, <1>4, <1>5, <1>7, <2>1 DEF echfs_write
  <2>5. v \in OpenHandles /\ v.file = handles[h].file /\ v.type = handles[h].type /\ v.refcount = handles[h].refcount
    <3>1. PICK x \in OpenHandles : x = handles[h] BY <1>3
    <3> DEFINE w == [x EXCEPT !.ptr = p + 1]
               u == [w EXCEPT !.end = last]
    <3>2. w \in OpenHandles /\ w.file = x.file /\ w.type = x.type /\ w.refcount = x.refcount BY DEF OpenHandles
    <3>3. v = u BY <3>1
    <3> HIDE DEF w
    <3>4. u \in OpenHandles /\ u.file = w.file /\ u.type = w.type /\ u.refcount = w.refcount BY <3>2 DEF OpenHandles
    <3> HIDE DEF u, v
    <3> QED BY <3>1, <3>2, <3>3, <3>4
  <2> HIDE DEF v
  <2>6. PICK n \in Nat, e \in Chains :
               /\ Grown(fat, f.alloc_map, n, e) /\ c.file.alloc_map = e.map /\ c.file.payload = StartsAt(e.map)
               /\ c.fat = e.fat /\ SameFile(c.file, f) /\ c.data \in [Blocks -> Content] /\ find_block(c.file, p) # {}
        BY <1>5, <1>7, CachedIs, GrownIn
  <2>7. SameFile(g, f) /\ g.alloc_map = e.map /\ g.payload = StartsAt(e.map)
    <3>1. PICK x \in CachedFiles : x = c.file BY <2>6 DEF SameFile
    <3>2. find_block(x, p) # {} /\ g = Stored(x, p, val, end) BY <2>2, <2>6, <3>1
    <3>3. \E s : StoredAs(g, x, p, val, end, s) BY <3>2, StoredIs
    <3>4. SameFile(g, x) /\ g.alloc_map = x.alloc_map /\ g.payload = x.payload BY ONLY <3>3 DEF StoredAs
    <3> QED BY <2>6, <3>1, <3>4 DEF SameFile
  <2>8. written' \in [Files -> [0 .. NBlocks -> Data \cup {NULL}]] BY <2>3 DEF TypeOK
  <2>9. Grown(fat, f.alloc_map, n, e) /\ fat' = e.fat /\ data' \in [Blocks -> Content] BY <2>3, <2>6
  <2>10. FilesInv OBVIOUS
  <2> HIDE DEF FilesInv
  <2>11. f = files[i] /\ handles[h] # NULL BY <1>1, <1>5
  <2>12. files' = [files EXCEPT ![i] = g] /\ UNCHANGED <<dir, cached_files, syncing>> BY <2>3
  <2>13. PICK u \in OpenHandles : /\ handles' = [handles EXCEPT ![h] = u]
           /\ u.file = handles[h].file /\ u.type = handles[h].type /\ u.refcount = handles[h].refcount BY <2>4, <2>5
  <2> QED BY ONLY <2>7, <2>8, <2>9, <2>10, <2>11, <2>12, <2>13, GrowSound
<1> QED BY <1>6, <1>7

-----------------------------------------------------------------------------
(***************************************************************************)
(* echfs_sync                                                               *)
(***************************************************************************)
(* The file after its blocks have been written. *)
Clean(f, blocks) ==
    [f EXCEPT !.changed_entry = @ /\ f.unlinked, !.changed_cache = @ /\ ~blocks,
              !.slots = [s \in Slots |-> IF blocks /\ @[s].status = "DIRTY" THEN [@[s] EXCEPT !.status = "READY"] ELSE @[s]]]

(* g is f after its blocks have been written. *)
CleanAs(g, f, blocks) ==
    /\ ~blocks => g.slots = f.slots
    /\ SameFile(g, f) /\ g.alloc_map = f.alloc_map /\ g.payload = f.payload /\ g.size = f.size
    /\ g.changed_entry = (f.changed_entry /\ f.unlinked) /\ g.changed_cache = (f.changed_cache /\ ~blocks)
    /\ \A s \in Slots : /\ g.slots[s].block = f.slots[s].block /\ g.slots[s].val = f.slots[s].val
                        /\ g.slots[s].status = IF blocks /\ f.slots[s].status = "DIRTY" THEN "READY" ELSE f.slots[s].status

(* Clean is such a file. *)
LEMMA CleanIs ==
    ASSUME NEW f \in CachedFiles, NEW blocks \in BOOLEAN
    PROVE  CleanAs(Clean(f, blocks), f, blocks)
<1>1. f.slots \in [Slots -> CachedBlocks] BY DEF CachedFiles
<1> DEFINE slot(s) == IF blocks /\ f.slots[s].status = "DIRTY" THEN [f.slots[s] EXCEPT !.status = "READY"] ELSE f.slots[s]
<1>2. ASSUME NEW s \in Slots
      PROVE  /\ slot(s) \in CachedBlocks /\ slot(s).block = f.slots[s].block /\ slot(s).val = f.slots[s].val
             /\ slot(s).status = IF blocks /\ f.slots[s].status = "DIRTY" THEN "READY" ELSE f.slots[s].status
  <2>1. f.slots[s] \in CachedBlocks BY <1>1
  <2> QED BY <2>1 DEF CachedBlocks
<1>3. PICK slots : slots = [s \in Slots |-> slot(s)] OBVIOUS
<1>4. slots \in [Slots -> CachedBlocks] BY <1>2, <1>3
<1>5. \A s \in Slots : slots[s] = slot(s) BY <1>3
<1> DEFINE g == [f EXCEPT !.changed_entry = @ /\ f.unlinked, !.changed_cache = @ /\ ~blocks, !.slots = slots]
<1>6. Clean(f, blocks) = g BY <1>3 DEF Clean, CachedFiles
<1>7. /\ g \in CachedFiles /\ g.name = f.name /\ g.refcount = f.refcount /\ g.unlinked = f.unlinked
      /\ g.type = f.type /\ g.not_found = f.not_found /\ g.entry = f.entry /\ g.size = f.size
      /\ g.changed_entry = (f.changed_entry /\ f.unlinked) /\ g.changed_cache = (f.changed_cache /\ ~blocks)
      /\ g.alloc_map = f.alloc_map /\ g.payload = f.payload /\ g.slots = slots
      BY <1>4 DEF CachedFiles
<1> HIDE DEF g, slot
<1>8. SameFile(g, f) BY <1>7 DEF SameFile
<1>9. ~blocks => slots = f.slots BY <1>1, <1>3 DEF slot
<1>10. CleanAs(g, f, blocks) BY <1>2, <1>5, <1>7, <1>8, <1>9 DEF CleanAs
<1> QED BY <1>6, <1>10

(* The device after a flush is well formed. *)
LEMMA FlushedIs ==
    ASSUME data \in [Blocks -> Content], NEW f \in CachedFiles
    PROVE  /\ Flushed(f) \in [Blocks -> Content]
           /\ \A b \in Blocks :
                 LET mine == {s \in Slots : f.slots[s].status = "DIRTY" /\ f.alloc_map[f.slots[s].block + 1] = b}
                 IN  /\ mine = {} => Flushed(f)[b] = data[b]
                     /\ mine # {} => \E s \in mine : Reaches(b) => Flushed(f)[b] = f.slots[s].val
<1> SUFFICES ASSUME NEW b \in Blocks
             PROVE  LET mine == {s \in Slots : f.slots[s].status = "DIRTY" /\ f.alloc_map[f.slots[s].block + 1] = b}
                    IN  /\ Flushed(f)[b] \in Content
                        /\ mine = {} => Flushed(f)[b] = data[b]
                        /\ mine # {} => \E s \in mine : Reaches(b) => Flushed(f)[b] = f.slots[s].val
    BY DEF Flushed
<1> DEFINE mine == {s \in Slots : f.slots[s].status = "DIRTY" /\ f.alloc_map[f.slots[s].block + 1] = b}
           dirty == {s \in Slots : f.slots[s].status = "DIRTY"}
<1>1. mine = {s \in dirty : f.alloc_map[f.slots[s].block + 1] = b} OBVIOUS
<1>2. Flushed(f)[b] = IF mine = {} THEN data[b] ELSE devfs_write(data, b, f.slots[Max(mine)].val)[b]
      BY <1>1 DEF Flushed
<1>3. mine \subseteq Slots OBVIOUS
<1>4. mine # {} => Max(mine) \in mine
  <2>1. NSlots \in Nat /\ mine \subseteq 0 .. NSlots BY EchfsAssumption DEF Slots
  <2> HIDE DEF mine
  <2> QED BY <2>1, MaxIs
<1> HIDE DEF mine, dirty
<1>5. \A x : devfs_write(data, b, x)[b] = IF Reaches(b) THEN x ELSE data[b] BY DEF devfs_write
<1>6. \A s \in Slots : f.slots[s].val \in Content BY DEF CachedFiles, CachedBlocks, Content
<1>7. CASE mine = {} BY <1>2, <1>7 DEF mine
<1>8. CASE mine # {}
  <2>1. PICK s \in mine : s = Max(mine) BY <1>4, <1>8
  <2>2. Flushed(f)[b] = IF Reaches(b) THEN f.slots[s].val ELSE data[b] BY <1>2, <1>5, <1>8, <2>1
  <2>3. Flushed(f)[b] \in Content BY <1>3, <1>6, <2>2
  <2> QED BY <1>8, <2>2, <2>3 DEF mine
<1> QED BY <1>7, <1>8

(* synchronise_cached_file. *)
LEMMA SynchroniseSound ==
    ASSUME FilesInv, NEW i \in Files, synchronise_cached_file(i)
    PROVE  FilesInv'
<1> USE DEF FilesInv
<1>1. syncing # NULL /\ i \in syncing BY DEF synchronise_cached_file
<1>2. i \in Objects /\ ~files[i].unlinked BY <1>1 DEF ListSound
<1>3. PICK f \in CachedFiles : f = files[i] BY <1>2, Typed
<1>4. PICK blocks \in BOOLEAN : blocks = (f.type = "file" /\ ~f.not_found /\ f.changed_cache) OBVIOUS
<1>5. PICK g : g = Clean(f, blocks) OBVIOUS
<1>6. CleanAs(g, f, blocks) BY <1>5, CleanIs
<1>7. files' = [files EXCEPT ![i] = g] BY <1>3, <1>4, <1>5 DEF synchronise_cached_file, Clean
<1>8. UNCHANGED <<fat, cached_files, handles, written>> BY DEF synchronise_cached_file
<1>9. ObjectSound(i, f, cached_files, dir) BY <1>2, <1>3 DEF ObjectsSound
<1>10. f.changed_entry => /\ f.name # Root /\ ~f.not_found /\ EntryOf(f, f.entry, dir)
       BY <1>2, <1>3, <1>9 DEF ObjectSound, CachedFiles, Blank
<1>11. /\ f.changed_entry => dir' = [dir EXCEPT ![f.entry] = Entry(f)]
       /\ ~f.changed_entry => dir' = dir
       BY <1>2, <1>3 DEF synchronise_cached_file
<1>12. f.changed_entry => Entry(f) \in DirEntries /\ Entry(f).name = f.name /\ Entry(f).type = f.type
       BY <1>10 DEF Entry, DirEntries, CachedFiles
<1>13. g \in CachedFiles /\ SameFile(g, f) BY <1>6 DEF CleanAs, SameFile
<1>14. TypeOK'
  <2>1. data' \in [Blocks -> Content] BY <1>3, <1>4, Typed, FlushedIs DEF synchronise_cached_file
  <2>2. dir' \in [Entries -> DirEntries \cup {NULL, DELETED}] BY <1>11, <1>12 DEF TypeOK
  <2>3. files' \in [Files -> CachedFiles \cup {Freed}] BY <1>7, <1>13 DEF TypeOK
  <2>4. syncing \in SUBSET Files BY <1>1 DEF TypeOK
  <2>5. syncing' \in (SUBSET Files) \cup {NULL} BY <2>4 DEF synchronise_cached_file
  <2> QED BY <1>8, <2>1, <2>2, <2>3, <2>5 DEF TypeOK, Content
<1>15. files'[i] = g /\ \A j \in Files \ {i} : files'[j] = files[j] BY <1>7 DEF TypeOK
<1>16. \A e \in Entries : dir'[e] # dir[e] =>
          /\ e = f.entry /\ ~f.unlinked /\ f.name # Root /\ ~f.not_found /\ dir'[e] \in DirEntries
          /\ dir'[e].name = f.name /\ dir'[e].type = f.type
       BY <1>2, <1>3, <1>10, <1>11, <1>12 DEF TypeOK
<1>17. RefsSound'
  <2>1. \A j \in Files : files'[j] # Freed /\ ~files'[j].unlinked =>
              files[j] # Freed /\ ~files[j].unlinked /\ files'[j].refcount = files[j].refcount
        BY <1>2, <1>3, <1>13, <1>15 DEF SameFile, Objects
  <2> QED BY <1>8, <2>1, RefsSame
<1>18. OnlyOnDisk' = OnlyOnDisk /\ (\A e \in OnlyOnDisk : dir'[e] = dir[e]) => BlocksSound'
  <2> SUFFICES ASSUME OnlyOnDisk' = OnlyOnDisk, \A e \in OnlyOnDisk : dir'[e] = dir[e] PROVE BlocksSound' OBVIOUS
  <2>1. i \in FileObjects' <=> i \in FileObjects
        BY <1>2, <1>3, <1>13, <1>15, NotFreed DEF FileObjects, Objects, SameFile
  <2>2. g.payload = f.payload /\ g.alloc_map = f.alloc_map BY <1>6 DEF CleanAs
  <2> QED BY <1>3, <1>8, <1>15, <2>1, <2>2, BlocksQuiet
<1>19. /\ g.type = "dir" => Blank(g)
       /\ g.unlinked => g.refcount # 0
  <2>1. /\ g.type = f.type /\ g.unlinked = f.unlinked
        /\ g.changed_entry = (f.changed_entry /\ f.unlinked) /\ g.changed_cache = (f.changed_cache /\ ~blocks)
        /\ g.alloc_map = f.alloc_map /\ (~blocks => g.slots = f.slots)
        BY <1>6 DEF CleanAs, SameFile
  <2> QED BY <1>2, <1>3, <1>4, <1>9, <2>1 DEF ObjectSound, Blank
<1>20. syncing' # NULL => \A j \in syncing' : syncing # NULL /\ j \in syncing BY <1>1 DEF synchronise_cached_file
<1>21. \A x \in Handles : handles'[x] # NULL => handles[x] # NULL /\ handles'[x].file = handles[x].file
                                               /\ handles'[x].type = handles[x].type
       BY <1>8
<1> QED BY <1>2, <1>3, <1>8, <1>13, <1>14, <1>15, <1>16, <1>17, <1>18, <1>19, <1>20, <1>21, ObjectChanges DEF SameFile

-----------------------------------------------------------------------------
(***************************************************************************)
(* Opening files                                                            *)
(***************************************************************************)

(* search finds the entry of a name if there is one. *)
LEMMA SearchIs ==
    ASSUME TypeOK, DirSound, NEW n, NEW e, e = search(n)
    PROVE  /\ e = NULL => \A d \in Entries : IsEntry(dir[d]) => dir[d].name # n
           /\ e # NULL => e \in Entries /\ IsEntry(dir[e]) /\ dir[e].name = n
<1> DEFINE found == {i \in Entries : Used(i) /\ IsEntry(dir[i]) /\ dir[i].name = n}
<1>1. e = IF found = {} THEN NULL ELSE Min(found) BY DEF search
<1>2. found \subseteq Entries OBVIOUS
<1>3. Entries \subseteq Nat /\ NULL \notin Entries BY EchfsAssumption, NullAssumption DEF Entries
<1>4. found # {} => Min(found) \in found
  <2> HIDE DEF found
  <2> QED BY <1>2, <1>3, MinIs
<1>5. ASSUME NEW d \in Entries, IsEntry(dir[d]), dir[d].name = n PROVE d \in found
  <2>1. dir[d] # NULL BY <1>5 DEF IsEntry
  <2>2. \A j \in 1 .. d : j \in Entries /\ j <= d BY EchfsAssumption DEF Entries
  <2>3. Used(d) BY <2>1, <2>2 DEF DirSound, Used
  <2> QED BY <1>5, <2>3
<1>6. CASE found = {} BY <1>1, <1>5, <1>6
<1>7. CASE found # {}
  <2>1. e \in found BY <1>1, <1>4, <1>7
  <2> QED BY <1>3, <2>1
<1> QED BY <1>6, <1>7

(* The chain of a file that only the directory knows. *)
LEMMA DiskChain ==
    ASSUME BlocksSound, NEW e \in OnlyOnDisk
    PROVE  Follows(fat, dir[e].payload, Chain(dir[e].payload))
<1>1. PICK M : Chained(Keys, M, Starts, fat) BY DEF BlocksSound
<1>2. <<"disk", e>> \in Keys /\ Starts[<<"disk", e>>] = dir[e].payload BY DEF Keys, Starts
<1>3. PICK b, s : b = dir[e].payload /\ s = M[<<"disk", e>>] OBVIOUS
<1>4. Follows(fat, b, s) BY <1>1, <1>2, <1>3 DEF Chained
<1>5. Chain(b) = s BY <1>4, ChainFound
<1> QED BY <1>3, <1>4, <1>5

(* The object cache_file finds, or makes, for name n. *)
Found(n, i, f) ==
    \/ /\ cached_files[n] = i /\ i \in Objects /\ files[i].refcount \in Nat /\ files[i].refcount < MaxRefs
       /\ f = [files[i] EXCEPT !.refcount = @ + 1]
    \/ /\ cached_files[n] = NULL /\ files[i] = Freed /\ f.refcount = 1
       /\ \A h \in Handles : handles[h] # NULL => handles[h].file # i
       /\ f.slots = [s \in Slots |-> NoSlot] /\ ~f.changed_entry /\ ~f.changed_cache
       /\ f.type = "file" => f.entry \in OnlyOnDisk /\ f.payload = dir[f.entry].payload /\ f.alloc_map = Chain(f.payload)
                             /\ f.size = dir[f.entry].size

(* What File makes of its arguments. *)
NewFile(f, n, type, not_found, entry, payload, size, map) ==
    /\ f \in CachedFiles /\ f.name = n /\ ~f.unlinked /\ f.refcount = 1 /\ f.type = type /\ f.not_found = not_found
    /\ f.entry = entry /\ f.payload = payload /\ f.size = size /\ f.alloc_map = map
    /\ f.slots = [s \in Slots |-> NoSlot] /\ ~f.changed_entry /\ ~f.changed_cache

(* File makes such an object. *)
LEMMA FileMade ==
    ASSUME NEW n \in AllNames, NEW type \in {"file", "dir"}, NEW not_found \in BOOLEAN, NEW entry \in Entries \cup {NULL},
           NEW payload \in Nat, NEW size \in Nat, NEW map \in Seq(Blocks), NEW f, f = File(n, type, not_found, entry, payload, size, map)
    PROVE  NewFile(f, n, type, not_found, entry, payload, size, map)
<1>1. f \in CachedFiles BY FileIs
<1> QED BY <1>1 DEF File, NewFile

(* Every object cache_file returns fits the structures. *)
LEMMA FoundIs ==
    ASSUME FilesInv, NEW n \in AllNames, CanCache(n), NEW c \in cache_file(n), NEW i, NEW f, i = c.id, f = c.file
    PROVE  /\ i \in Files /\ f \in CachedFiles /\ f.name = n /\ ~f.unlinked /\ f.refcount # 0 /\ Found(n, i, f)
           /\ ObjectSound(i, f, [cached_files EXCEPT ![n] = i], dir)
           /\ f.type = "file" => Follows(fat, f.payload, f.alloc_map)
<1> USE DEF FilesInv
<1>1. DOMAIN cached_files = AllNames BY DEF TypeOK, AllNames
<1>2. CASE cached_files[n] # NULL
  <2>1. c = [id |-> cached_files[n], file |-> [files[cached_files[n]] EXCEPT !.refcount = @ + 1]] BY <1>2 DEF cache_file
  <2>2. i = cached_files[n] /\ f = [files[i] EXCEPT !.refcount = @ + 1] BY <2>1
  <2>3. i \in Files BY <1>2, <2>2 DEF TypeOK, AllNames
  <2>4. files[i] # Freed /\ files[i].name = n /\ ~files[i].unlinked BY <1>2, <2>2 DEF NamesSound
  <2>5. i \in Objects BY <2>3, <2>4 DEF Objects
  <2>6. PICK o \in CachedFiles : o = files[i] BY <2>5, Typed
  <2>7. o.refcount < MaxRefs BY <1>2, <2>2, <2>6 DEF CanCache
  <2>8. PICK r \in 0 .. MaxRefs : r = o.refcount + 1 /\ r # 0 /\ o.refcount \in Nat
    <3>1. o.refcount \in 0 .. MaxRefs /\ MaxRefs \in Nat BY EchfsAssumption DEF CachedFiles
    <3>2. o.refcount + 1 \in 0 .. MaxRefs BY <2>7, <3>1
    <3> QED BY <3>1, <3>2
  <2>9. f = [o EXCEPT !.refcount = r] BY <2>2, <2>6, <2>8
  <2>10. /\ f \in CachedFiles /\ f.name = o.name /\ f.refcount = r /\ f.unlinked = o.unlinked /\ f.type = o.type
         /\ f.not_found = o.not_found /\ f.entry = o.entry /\ f.payload = o.payload /\ f.size = o.size
         /\ f.alloc_map = o.alloc_map /\ f.slots = o.slots /\ f.changed_entry = o.changed_entry
         /\ f.changed_cache = o.changed_cache
         BY <2>9, Counted
  <2>11. Found(n, i, f) BY <2>2, <2>5, <2>6, <2>7, <2>8 DEF Found
  <2>12. ObjectSound(i, o, cached_files, dir) BY <2>5, <2>6 DEF ObjectsSound
  <2>13. [cached_files EXCEPT ![n] = i] = cached_files BY <1>1, <2>2 DEF TypeOK
  <2>14. ObjectSound(i, f, cached_files, dir) BY <2>4, <2>6, <2>8, <2>10, <2>12 DEF ObjectSound, EntryOf, Blank
  <2>15. f.type = "file" => Follows(fat, f.payload, f.alloc_map)
    <3> SUFFICES ASSUME f.type = "file" PROVE Follows(fat, f.payload, f.alloc_map) OBVIOUS
    <3>1. ~o.not_found BY <2>10, <2>12 DEF ObjectSound
    <3>2. i \in FileObjects BY <2>5, <2>6, <2>10, <3>1 DEF FileObjects
    <3> QED BY <2>6, <2>10, <3>2, OpenChain
  <2> QED BY <2>3, <2>4, <2>6, <2>8, <2>10, <2>11, <2>13, <2>14, <2>15
<1>3. CASE cached_files[n] = NULL
  <2>1. PICK x \in FreeFiles : c = [id |-> x, file |-> path_resolver(n)] BY <1>3 DEF cache_file
  <2>2. i = x /\ f = path_resolver(n) BY <2>1
  <2>3. i \in Files /\ files[i] = Freed /\ \A h \in Handles : handles[h] # NULL => handles[h].file # i
        BY <2>2 DEF FreeFiles
  <2>4. PICK cf : cf = [cached_files EXCEPT ![n] = i] OBVIOUS
  <2>5. cf[n] = i BY <1>1, <2>4
  <2>7. <<>> \in Seq(Blocks) /\ NULL \in Entries \cup {NULL} /\ 0 \in Nat /\ "dir" \in {"file", "dir"} /\ "file" \in {"file", "dir"}
        OBVIOUS
  <2>a. PICK no \in BOOLEAN, yes \in BOOLEAN : no = FALSE /\ yes = TRUE OBVIOUS
  <2>b. PICK zero \in Nat : zero = 0 OBVIOUS
  <2>c. PICK none \in Seq(Blocks) : none = <<>> BY <2>7
  <2>d. PICK dtype \in {"file", "dir"}, ftype \in {"file", "dir"} : dtype = "dir" /\ ftype = "file" OBVIOUS
  <2>8. PICK e : e = search(n) OBVIOUS
  <2>9. /\ e = NULL => \A d \in Entries : IsEntry(dir[d]) => dir[d].name # n
        /\ e # NULL => e \in Entries /\ IsEntry(dir[e]) /\ dir[e].name = n /\ dir[e] \in DirEntries
        BY <2>8, SearchIs, Typed
  <2>10. CASE n = Root
    <3>1. f = File(n, "dir", FALSE, NULL, RootId, 0, <<>>) BY <2>2, <2>10 DEF path_resolver
    <3>2. /\ f \in CachedFiles /\ f.name = n /\ ~f.unlinked /\ f.refcount = 1 /\ f.type = "dir" /\ ~f.not_found
          /\ f.alloc_map = <<>> /\ f.slots = [s \in Slots |-> NoSlot] /\ ~f.changed_entry /\ ~f.changed_cache
      <4>1. f = File(n, dtype, no, NULL, zero, zero, none) BY <2>a, <2>b, <2>c, <2>d, <3>1 DEF RootId
      <4>5. NewFile(f, n, dtype, no, NULL, zero, zero, none) BY <2>7, <4>1, FileMade
      <4> QED BY ONLY <2>a, <2>b, <2>c, <2>d, <4>1, <4>5 DEF NewFile
    <3>3. Found(n, i, f) BY <1>3, <2>3, <3>2 DEF Found
    <3>4. ObjectSound(i, f, cf, dir) BY <2>5, <2>10, <3>2 DEF ObjectSound, Blank
    <3> QED BY <2>3, <2>4, <3>2, <3>3, <3>4
  <2>11. CASE n # Root /\ e = NULL
    <3>1. f = File(n, "dir", TRUE, NULL, 0, 0, <<>>) BY <2>2, <2>8, <2>11 DEF path_resolver
    <3>2. /\ f \in CachedFiles /\ f.name = n /\ ~f.unlinked /\ f.refcount = 1 /\ f.type = "dir" /\ f.not_found
          /\ f.alloc_map = <<>> /\ f.slots = [s \in Slots |-> NoSlot] /\ ~f.changed_entry /\ ~f.changed_cache
      <4>1. f = File(n, dtype, yes, NULL, zero, zero, none) BY <2>a, <2>b, <2>c, <2>d, <3>1
      <4>5. NewFile(f, n, dtype, yes, NULL, zero, zero, none) BY <2>7, <4>1, FileMade
      <4> QED BY ONLY <2>a, <2>b, <2>c, <2>d, <4>1, <4>5 DEF NewFile
    <3>3. Found(n, i, f) BY <1>3, <2>3, <3>2 DEF Found
    <3>4. ObjectSound(i, f, cf, dir) BY <2>5, <2>9, <2>11, <3>2 DEF ObjectSound, Blank
    <3> QED BY <2>3, <2>4, <3>2, <3>3, <3>4
  <2>12. CASE n # Root /\ e # NULL /\ dir[e].type = "dir"
    <3>1. f = File(n, "dir", FALSE, e, dir[e].payload, 0, <<>>) BY <2>2, <2>8, <2>12 DEF path_resolver
    <3>2. /\ f \in CachedFiles /\ f.name = n /\ ~f.unlinked /\ f.refcount = 1 /\ f.type = "dir" /\ ~f.not_found /\ f.entry = e
          /\ f.alloc_map = <<>> /\ f.slots = [s \in Slots |-> NoSlot] /\ ~f.changed_entry /\ ~f.changed_cache
      <4>1. PICK pl \in Nat : pl = dir[e].payload BY <2>9, <2>12 DEF DirEntries
      <4>2. f = File(n, dtype, no, e, pl, zero, none) BY <2>a, <2>b, <2>c, <2>d, <3>1, <4>1
      <4>3. e \in Entries \cup {NULL} BY <2>9, <2>12
      <4>5. NewFile(f, n, dtype, no, e, pl, zero, none) BY <2>7, <4>2, <4>3, FileMade
      <4> QED BY ONLY <2>a, <2>b, <2>c, <2>d, <4>2, <4>3, <4>5 DEF NewFile
    <3>3. Found(n, i, f) BY <1>3, <2>3, <3>2 DEF Found
    <3>4. ObjectSound(i, f, cf, dir) BY <2>5, <2>9, <2>12, <3>2 DEF ObjectSound, Blank, EntryOf
    <3> QED BY <2>3, <2>4, <3>2, <3>3, <3>4
  <2>13. CASE n # Root /\ e # NULL /\ dir[e].type # "dir"
    <3>1. PICK pl \in Nat, sz \in Nat : pl = dir[e].payload /\ sz = dir[e].size BY <2>9, <2>13 DEF DirEntries
    <3>2. f = File(n, "file", FALSE, e, pl, sz, Chain(pl)) BY <2>2, <2>8, <2>13, <3>1 DEF path_resolver
    <3>3. dir[e].type = "file" BY <2>9, <2>13 DEF DirEntries
    <3>4. e \in OnlyOnDisk BY <1>3, <2>9, <2>13, <3>3 DEF OnlyOnDisk
    <3>5. Follows(fat, pl, Chain(pl)) BY <3>1, <3>4, DiskChain
    <3>6. Chain(pl) \in Seq(Blocks) BY <3>5 DEF Follows
    <3>7. /\ f \in CachedFiles /\ f.name = n /\ ~f.unlinked /\ f.refcount = 1 /\ f.type = "file" /\ ~f.not_found /\ f.entry = e
          /\ f.payload = pl /\ f.size = sz /\ f.alloc_map = Chain(pl)
          /\ f.slots = [s \in Slots |-> NoSlot] /\ ~f.changed_entry /\ ~f.changed_cache
      <4>1. PICK map \in Seq(Blocks) : map = Chain(pl) BY <3>6
      <4>2. f = File(n, ftype, no, e, pl, sz, map) BY <2>a, <2>d, <3>2, <4>1
      <4>3. e \in Entries \cup {NULL} BY <2>9, <2>13
      <4>5. NewFile(f, n, ftype, no, e, pl, sz, map) BY <2>7, <4>1, <4>2, <4>3, FileMade
      <4> QED BY ONLY <2>a, <2>b, <2>c, <2>d, <4>1, <4>2, <4>3, <4>5 DEF NewFile
    <3>8. Found(n, i, f) BY <1>3, <2>3, <3>1, <3>4, <3>7 DEF Found
    <3>9. ObjectSound(i, f, cf, dir) BY <2>5, <2>9, <2>13, <3>3, <3>7 DEF ObjectSound, Blank, EntryOf
    <3> QED BY <2>3, <2>4, <3>5, <3>7, <3>8, <3>9
  <2> QED BY <2>10, <2>11, <2>12, <2>13
<1> QED BY <1>2, <1>3

(* The handle that open returns for object i, if it does. *)
HandleAdded(i, g) ==
    \/ handles' = handles
    \/ \E h \in Handles : /\ handles[h] = NULL /\ handles'[h] \in OpenHandles /\ handles'[h].file = i
                          /\ handles'[h].type = g.type /\ ~g.not_found /\ handles'[h].refcount = 1
                          /\ \A x \in Handles \ {h} : handles'[x] = handles[x]

(* The counts, after an open. *)
LEMMA RefsOpened ==
    ASSUME FilesInv, NEW n, NEW i \in Files, NEW f \in CachedFiles, Found(n, i, f), ~f.unlinked,
           NEW g, g.refcount = f.refcount, g.unlinked = f.unlinked, files'[i] = g, \A j \in Files \ {i} : files'[j] = files[j],
           i \in Objects => ~files[i].unlinked, HandleAdded(i, g)
    PROVE  RefsSound'
<1> USE DEF FilesInv
<1>1. PICK R : R = Refs(i) OBVIOUS
<1>2. PICK r \in Nat : f.refcount = r + 1 /\ IsFiniteSet(R) /\ Cardinality(R) <= r
  <2>1. CASE i \in Objects
    <3>1. files[i].refcount \in Nat /\ f = [files[i] EXCEPT !.refcount = @ + 1] BY <2>1 DEF Found, Objects
    <3>2. files[i] \in CachedFiles BY <2>1, Typed
    <3>3. f.refcount = files[i].refcount + 1 BY <3>1, <3>2 DEF CachedFiles
    <3>4. IsFiniteSet(Refs(i)) /\ Cardinality(Refs(i)) <= files[i].refcount BY <2>1 DEF RefsSound
    <3> QED BY <1>1, <3>1, <3>3, <3>4
  <2>2. CASE i \notin Objects
    <3>1. f.refcount = 1 /\ \A h \in Handles : handles[h] # NULL => handles[h].file # i BY <2>2 DEF Found, Objects
    <3>2. R = {} BY <1>1, <3>1 DEF Refs
    <3>3. IsFiniteSet(R) /\ Cardinality(R) = 0 BY <3>2, FS_EmptySet
    <3> QED BY <3>1, <3>3
  <2> QED BY <2>1, <2>2
<1>3. IsFiniteSet(Refs(i)') /\ Cardinality(Refs(i)') <= g.refcount
  <2>0. Cardinality(R) \in Nat BY <1>2, FS_CardinalityType
  <2>1. CASE handles' = handles
    <3>1. Refs(i)' = R BY <1>1, <2>1 DEF Refs
    <3> QED BY <1>2, <2>0, <3>1
  <2>2. CASE handles' # handles
    <3>1. PICK h \in Handles : /\ handles[h] = NULL /\ handles'[h] \in OpenHandles /\ handles'[h].file = i
                               /\ handles'[h].refcount = 1 /\ \A x \in Handles \ {h} : handles'[x] = handles[x]
          BY <2>2 DEF HandleAdded
    <3>2. PICK z \in Nat : z = 0 OBVIOUS
    <3>3. handles'[h] # NULL /\ handles'[h].refcount = z + 1 BY <3>1, <3>2, NullAssumption
    <3>4. IsFiniteSet(Refs(i)') /\ Cardinality(Refs(i)') = Cardinality(Refs(i)) + 1
      <4>1. (handles[h] = NULL /\ z = 0) \/ (handles[h] # NULL /\ handles[h].file = i /\ handles[h].refcount = z) BY <3>1, <3>2
      <4>2. IsFiniteSet(Refs(i)) BY <1>1, <1>2
      <4>3. handles'[h].file = i /\ \A x \in Handles \ {h} : handles'[x] = handles[x] BY <3>1
      <4> QED BY ONLY <3>3, <4>1, <4>2, <4>3, RefsAdd
    <3> QED BY <1>1, <1>2, <2>0, <3>4
  <2> QED BY <2>1, <2>2
<1> SUFFICES ASSUME NEW j \in Files, files'[j] # Freed, ~files'[j].unlinked
             PROVE  IsFiniteSet(Refs(j)') /\ Cardinality(Refs(j)') <= files'[j].refcount
    BY DEF RefsSound, Objects
<1>4. CASE j = i BY <1>3, <1>4
<1>5. CASE j # i
  <2>1. Refs(j)' = Refs(j)
    <3>1. CASE handles' = handles BY <3>1 DEF Refs
    <3>2. CASE handles' # handles
      <4>1. PICK h \in Handles : /\ handles[h] = NULL /\ handles'[h].file = i
                                 /\ \A x \in Handles \ {h} : handles'[x] = handles[x]
            BY <3>2 DEF HandleAdded
      <4> QED BY <1>5, <4>1, RefsOther
    <3> QED BY <3>1, <3>2
  <2>2. IsFiniteSet(Refs(j)) /\ Cardinality(Refs(j)) <= files[j].refcount BY <1>5 DEF RefsSound, Objects
  <2> QED BY <1>5, <2>1, <2>2
<1> QED BY <1>4, <1>5

(* The object of name n is opened: made, found, created or truncated. *)
LEMMA NameOpened ==
    ASSUME FilesInv, TypeOK', NEW n \in AllNames, NEW i \in Files, NEW f \in CachedFiles, Found(n, i, f), ~f.unlinked, f.name = n,
           NEW g \in CachedFiles, g.name = n, g.refcount = f.refcount, g.unlinked = f.unlinked,
           f.not_found \/ (g.type = f.type /\ g.not_found = f.not_found),
           files' = [files EXCEPT ![i] = g], cached_files' = [cached_files EXCEPT ![n] = i], syncing' = syncing,
           ObjectSound(i, g, cached_files', dir'), DirSound', BlocksSound', HandleAdded(i, g),
           \A e \in Entries : dir'[e] # dir[e] => /\ ~IsEntry(dir[e]) \/ dir[e].name = n
                                                  /\ ~IsEntry(dir'[e]) \/ dir'[e].name = n
    PROVE  FilesInv'
<1> USE DEF FilesInv
<1>1. files'[i] = g /\ \A j \in Files \ {i} : files'[j] = files[j] BY DEF TypeOK
<1>2. cached_files'[n] = i /\ \A m \in AllNames \ {n} : cached_files'[m] = cached_files[m] BY DEF TypeOK, AllNames
<1>3. cached_files[n] \in {NULL, i} BY DEF Found
<1>4. i \in Objects => /\ files[i] \in CachedFiles /\ files[i].name = f.name /\ files[i].unlinked = f.unlinked
                       /\ files[i].type = f.type /\ files[i].not_found = f.not_found
  <2> SUFFICES ASSUME i \in Objects PROVE /\ files[i] \in CachedFiles /\ files[i].name = f.name /\ files[i].unlinked = f.unlinked
                                          /\ files[i].type = f.type /\ files[i].not_found = f.not_found
      OBVIOUS
  <2>1. files[i] \in CachedFiles /\ f = [files[i] EXCEPT !.refcount = @ + 1] BY Typed DEF Found, Objects
  <2> QED BY <2>1 DEF CachedFiles
<1>5. g # Freed /\ ~g.unlinked BY NotFreed
<1>6. ObjectsSound'
  <2>1. files'[i] # Freed => ObjectSound(i, files'[i], cached_files', dir') BY <1>1
  <2>2. TypeOK /\ ObjectsSound /\ DirSound OBVIOUS
  <2>3. \A m \in AllNames \ {n} : cached_files'[m] = cached_files[m] BY <1>2
  <2>4. \A j \in Files \ {i} : files'[j] = files[j] BY <1>1
  <2>5. \A e \in Entries : dir'[e] # dir[e] => /\ ~IsEntry(dir[e]) \/ dir[e].name = n
                                               /\ ~IsEntry(dir'[e]) \/ dir'[e].name = n
        OBVIOUS
  <2>6. Around(n, i) BY <2>3, <2>4, <2>5 DEF Around
  <2> HIDE DEF FilesInv
  <2> QED BY <1>3, <2>1, <2>2, <2>6, ObjectsKept
<1>7. NamesSound'
  <2>1. files[i] = Freed \/ files[i].name = n BY <1>4 DEF Objects
  <2> QED BY <1>1, <1>2, <1>3, <1>5, <2>1, NamesKept
<1>8. RefsSound' BY <1>1, <1>4, RefsOpened
<1>9. HandlesSound'
  <2>1. ASSUME NEW h \in Handles, handles'[h] = handles[h], handles[h] # NULL, handles[h].file = i
        PROVE  handles[h].type = g.type /\ ~g.not_found
    <3>1. i \in Objects BY <2>1 DEF Found, Objects
    <3>2. handles[h].type = files[i].type /\ ~files[i].not_found BY <2>1, <3>1 DEF HandlesSound, Objects
    <3> QED BY <1>4, <3>1, <3>2
  <2>2. \A h \in Handles : handles'[h] # NULL =>
           (handles'[h] = handles[h] /\ handles[h].file \in Files) \/ (handles'[h].file = i /\ handles'[h].type = g.type /\ ~g.not_found)
        BY Typed DEF HandleAdded
  <2> SUFFICES ASSUME NEW h \in Handles, handles'[h] # NULL, files'[handles'[h].file] # Freed
               PROVE  handles'[h].type = files'[handles'[h].file].type /\ ~files'[handles'[h].file].not_found
      BY DEF HandlesSound
  <2>3. CASE handles'[h].file = i BY <1>1, <2>1, <2>2, <2>3
  <2>4. CASE handles'[h].file # i
    <3>1. handles'[h] = handles[h] /\ handles[h].file \in Files BY <2>2, <2>4
    <3> QED BY <1>1, <2>4, <3>1 DEF HandlesSound
  <2> QED BY <2>3, <2>4
<1>10. ListSound'
  <2> SUFFICES ASSUME syncing # NULL, NEW j \in syncing PROVE j \in Objects' /\ ~files'[j].unlinked BY DEF ListSound
  <2>1. j \in Objects /\ ~files[j].unlinked BY DEF ListSound
  <2>2. CASE j = i BY <1>1, <1>5, <2>1, <2>2 DEF Objects
  <2>3. CASE j # i BY <1>1, <2>1, <2>3 DEF Objects
  <2> QED BY <2>2, <2>3
<1> QED BY <1>6, <1>7, <1>8, <1>9, <1>10

(* A file that is opened, its chain kept or cut. *)
LEMMA OpenedBlocks ==
    ASSUME FilesInv, TypeOK', NEW n \in AllNames, NEW i \in Files, NEW f \in CachedFiles, Found(n, i, f), f.name = n, ~f.unlinked,
           f.type = "file", ObjectSound(i, f, cached_files', dir), NEW g \in CachedFiles, g.type = "file", ~g.not_found,
           files' = [files EXCEPT ![i] = g], cached_files' = [cached_files EXCEPT ![n] = i], dir' = dir,
           NEW own, own = ToSet(f.alloc_map), \A b \in Blocks : fat[b] # 0 /\ b \notin own => fat'[b] = fat[b],
           Follows(fat', g.payload, g.alloc_map), \A b \in ToSet(g.alloc_map) : b \in own \/ fat[b] = 0,
           \A b \in Blocks : b \in own \/ fat[b] = 0 => (fat'[b] # 0 <=> b \in ToSet(g.alloc_map))
    PROVE  BlocksSound'
<1> USE DEF FilesInv
<1>1. files'[i] = g /\ \A j \in Files \ {i} : files'[j] = files[j] BY DEF TypeOK
<1>2. cached_files'[n] = i /\ \A m \in AllNames \ {n} : cached_files'[m] = cached_files[m] BY DEF TypeOK, AllNames
<1>3. i # NULL BY NullAssumption
<1>4. i \in FileObjects' BY <1>1, NotFreed DEF FileObjects, Objects
<1>5. CASE i \in Objects
  <2>1. cached_files[n] = i /\ files[i] \in CachedFiles /\ f = [files[i] EXCEPT !.refcount = @ + 1] BY <1>5, Typed DEF Found, Objects
  <2>2. files[i].type = "file" /\ files[i].alloc_map = f.alloc_map /\ files[i].not_found = f.not_found BY <2>1 DEF CachedFiles
  <2>3. ~f.not_found BY DEF ObjectSound
  <2>4. i \in FileObjects BY <1>5, <2>2, <2>3 DEF FileObjects
  <2>5. OnlyOnDisk' = OnlyOnDisk BY <1>2, <1>3, <2>1, DiskKept
  <2>6. own = IF i \in FileObjects THEN ToSet(files[i].alloc_map) ELSE {} BY <2>2, <2>4
  <2> QED BY <1>1, <1>4, <2>5, <2>6, BlocksOne
<1>6. CASE i \notin Objects
  <2>1. /\ cached_files[n] = NULL /\ files[i] = Freed /\ f.entry \in OnlyOnDisk /\ f.payload = dir[f.entry].payload
        /\ f.alloc_map = Chain(f.payload)
        BY <1>6 DEF Found, Objects
  <2>2. PICK e \in Entries : e = f.entry /\ e \in OnlyOnDisk BY <2>1 DEF OnlyOnDisk
  <2>3. n # Root /\ ~f.not_found BY DEF ObjectSound
  <2>4. IsEntry(dir[e]) /\ dir[e].name = n BY <2>2, <2>3 DEF ObjectSound, EntryOf
  <2>5. \A d \in Entries : d # e /\ IsEntry(dir[d]) => dir[d].name # n /\ dir[d].name \in AllNames
        BY <2>4, Typed DEF DirSound, DirEntries, AllNames
  <2>6. OnlyOnDisk' = OnlyOnDisk \ {e}
    <3>1. \A d \in Entries : d # e => (d \in OnlyOnDisk' <=> d \in OnlyOnDisk) BY <1>2, <2>5 DEF OnlyOnDisk
    <3>2. e \notin OnlyOnDisk' BY <1>2, <1>3, <2>4 DEF OnlyOnDisk
    <3>3. OnlyOnDisk \subseteq Entries /\ OnlyOnDisk' \subseteq Entries BY DEF OnlyOnDisk
    <3> QED BY <3>1, <3>2, <3>3
  <2>7. own = ToSet(Chain(dir[e].payload)) BY <2>1, <2>2
  <2>8. Follows(fat', files'[i].payload, files'[i].alloc_map) BY <1>1
  <2>9. \A b \in ToSet(files'[i].alloc_map) : b \in own \/ fat[b] = 0 BY <1>1
  <2>10. \A b \in Blocks : b \in own \/ fat[b] = 0 => (fat'[b] # 0 <=> b \in ToSet(files'[i].alloc_map)) BY <1>1
  <2> QED BY <1>1, <1>4, <2>1, <2>2, <2>6, <2>7, <2>8, <2>9, <2>10, BlocksOpened
<1> QED BY <1>5, <1>6

(* The fields of an object that is given an entry. *)
MadeAs(g, f, type, e, b) ==
    /\ g \in CachedFiles /\ g.name = f.name /\ g.refcount = f.refcount /\ g.unlinked = f.unlinked /\ g.type = type
    /\ ~g.not_found /\ g.entry = e /\ g.payload = b /\ g.size = f.size /\ g.alloc_map = f.alloc_map
    /\ g.slots = f.slots /\ g.changed_entry = f.changed_entry /\ g.changed_cache = f.changed_cache

(* The object that open and mkdir make is such an object. *)
LEMMA MadeIs ==
    ASSUME NEW f \in CachedFiles, NEW type \in {"file", "dir"}, NEW e \in Entries, NEW b \in Nat
    PROVE  MadeAs([f EXCEPT !.type = type, !.not_found = FALSE, !.entry = e, !.payload = b], f, type, e, b)
BY DEF CachedFiles, MadeAs

(* The first entry that can be used. *)
LEMMA FreeEntryIs ==
    ASSUME find_free_entry # {}, NEW e, e = Min(find_free_entry)
    PROVE  e \in Entries /\ ~IsEntry(dir[e]) /\ \A d \in Entries : d < e => IsEntry(dir[d])
<1>1. find_free_entry \subseteq Entries /\ Entries \subseteq Nat BY EchfsAssumption DEF find_free_entry, Entries
<1>2. e \in find_free_entry /\ \A d \in find_free_entry : e <= d BY <1>1, MinIs
<1>3. \A d \in Entries : d < e => d \notin find_free_entry BY <1>1, <1>2
<1> QED BY <1>2, <1>3 DEF find_free_entry

(* A name without an entry gets one. *)
LEMMA CreatedSound ==
    ASSUME FilesInv, TypeOK', NEW n \in AllNames, NEW i \in Files, NEW f \in CachedFiles, Found(n, i, f), f.name = n, ~f.unlinked,
           f.not_found, ObjectSound(i, f, cached_files', dir), find_free_entry # {}, NEW e, e = Min(find_free_entry),
           NEW g \in CachedFiles, g.name = n, g.refcount = f.refcount, g.unlinked = f.unlinked, ~g.not_found, g.entry = e,
           g.alloc_map = f.alloc_map, g.slots = f.slots, g.changed_entry = f.changed_entry, g.changed_cache = f.changed_cache,
           g.type = "file" => g.payload = END_OF_CHAIN,
           files' = [files EXCEPT ![i] = g], cached_files' = [cached_files EXCEPT ![n] = i], dir' = [dir EXCEPT ![e] = Entry(g)],
           fat' = fat, HandleAdded(i, g), syncing' = syncing
    PROVE  FilesInv'
<1> USE DEF FilesInv
<1>1. e \in Entries /\ ~IsEntry(dir[e]) /\ \A d \in Entries : d < e => IsEntry(dir[d]) BY FreeEntryIs
<1>2. n # Root /\ f.type = "dir" /\ Blank(f) /\ \A d \in Entries : IsEntry(dir[d]) => dir[d].name # n BY DEF ObjectSound
<1>3. Entry(g) \in DirEntries /\ Entry(g).name = n /\ Entry(g).type = g.type /\ Entry(g).payload = g.payload
      BY <1>2 DEF Entry, DirEntries, CachedFiles, AllNames
<1>4. IsEntry(Entry(g)) /\ Entry(g) # NULL BY <1>3, NullAssumption DEF IsEntry
<1>5. dir'[e] = Entry(g) /\ \A d \in Entries \ {e} : dir'[d] = dir[d] BY <1>1 DEF TypeOK
<1>6. DirSound'
  <2>1. ASSUME NEW c \in Entries, NEW d \in Entries, IsEntry(dir'[c]), IsEntry(dir'[d]), dir'[c].name = dir'[d].name
        PROVE  c = d
        BY <1>2, <1>3, <1>5, <2>1 DEF DirSound
  <2>2. ASSUME NEW c \in Entries, NEW d \in Entries, c <= d, dir'[d] # NULL PROVE dir'[c] # NULL
    <3>1. CASE c = e BY <1>4, <1>5, <3>1
    <3>2. CASE c # e /\ d = e
      <4>1. c < e BY <2>2, <3>2, EchfsAssumption DEF Entries
      <4> QED BY <1>1, <1>5, <3>2, <4>1 DEF IsEntry
    <3>3. CASE c # e /\ d # e BY <1>5, <2>2, <3>3 DEF DirSound
    <3> QED BY <3>1, <3>2, <3>3
  <2> QED BY <2>1, <2>2 DEF DirSound, IsEntry
<1>7. files'[i] = g /\ \A j \in Files \ {i} : files'[j] = files[j] BY DEF TypeOK
<1>8. cached_files'[n] = i /\ \A m \in AllNames \ {n} : cached_files'[m] = cached_files[m] BY DEF TypeOK, AllNames
<1>9. EntryOf(g, e, dir') BY <1>1, <1>3, <1>4, <1>5 DEF EntryOf
<1>10. Blank(g) BY <1>2 DEF Blank
<1>11. ObjectSound(i, g, cached_files', dir') BY <1>2, <1>8, <1>9, <1>10 DEF ObjectSound
<1>12. \A d \in Entries : dir'[d] # dir[d] => /\ ~IsEntry(dir[d]) \/ dir[d].name = n
                                              /\ ~IsEntry(dir'[d]) \/ dir'[d].name = n
       BY <1>1, <1>3, <1>5
<1>13. OnlyOnDisk' = OnlyOnDisk /\ \A d \in OnlyOnDisk : dir'[d] = dir[d]
  <2>1. cached_files'[n] # NULL BY <1>8, NullAssumption
  <2> QED BY <1>2, <1>8, <1>12, <2>1, DiskKept
<1>14. i \notin FileObjects
  <2> SUFFICES ASSUME i \in FileObjects PROVE FALSE OBVIOUS
  <2>1. files[i] \in CachedFiles /\ ~files[i].not_found /\ i \in Objects BY Typed DEF FileObjects
  <2>2. f = [files[i] EXCEPT !.refcount = @ + 1] BY <2>1 DEF Found, Objects
  <2> QED BY <2>1, <2>2 DEF CachedFiles
<1>15. BlocksSound'
  <2>1. g.alloc_map = <<>> BY <1>10 DEF Blank
  <2>2. ToSet(g.alloc_map) = {} BY <2>1 DEF ToSet
  <2>3. i \in FileObjects' => Follows(fat', files'[i].payload, files'[i].alloc_map)
    <3> SUFFICES ASSUME i \in FileObjects' PROVE Follows(fat', g.payload, g.alloc_map) BY <1>7
    <3>1. g.payload = END_OF_CHAIN BY <1>7 DEF FileObjects
    <3> QED BY <2>1, <3>1 DEF Follows, IsInjective
  <2>4. \A b \in Blocks : fat[b] = 0 => (fat'[b] # 0 <=> i \in FileObjects' /\ b \in ToSet(files'[i].alloc_map)) BY <1>7, <2>2
  <2>5. \A b \in ToSet(files'[i].alloc_map) : b \in {} \/ fat[b] = 0 BY <1>7, <2>2
  <2>6. PICK own : own = {} OBVIOUS
  <2>7. own = IF i \in FileObjects THEN ToSet(files[i].alloc_map) ELSE {} BY <1>14, <2>6
  <2> QED BY <1>7, <1>13, <2>3, <2>4, <2>5, <2>6, <2>7, BlocksOne
<1> QED BY <1>6, <1>11, <1>12, <1>15, NameOpened

(* An object that is found, or made without an entry, stays as it is. *)
LEMMA FoundSound ==
    ASSUME FilesInv, TypeOK', NEW n \in AllNames, NEW i \in Files, NEW f \in CachedFiles, Found(n, i, f), f.name = n, ~f.unlinked,
           ObjectSound(i, f, cached_files', dir), f.type = "file" => Follows(fat, f.payload, f.alloc_map),
           files' = [files EXCEPT ![i] = f], cached_files' = [cached_files EXCEPT ![n] = i],
           UNCHANGED <<fat, dir, syncing>>, HandleAdded(i, f)
    PROVE  FilesInv'
<1> USE DEF FilesInv
<1>1. files'[i] = f /\ \A j \in Files \ {i} : files'[j] = files[j] BY DEF TypeOK
<1>2. cached_files'[n] = i /\ \A m \in AllNames \ {n} : cached_files'[m] = cached_files[m] BY DEF TypeOK, AllNames
<1>3. DirSound' BY DEF DirSound
<1>4. BlocksSound'
  <2>1. CASE f.type = "file"
    <3>1. ~f.not_found BY <2>1 DEF ObjectSound
    <3>2. PICK own : own = ToSet(f.alloc_map) OBVIOUS
    <3>3. Follows(fat', f.payload, f.alloc_map) BY <2>1
    <3>4. \A b \in Blocks : b \in own => fat'[b] # 0 BY <3>2, <3>3, ChainUsed
    <3> QED BY <2>1, <3>1, <3>2, <3>3, <3>4, OpenedBlocks
  <2>2. CASE f.type # "file"
    <3>1. f.type = "dir" BY <2>2 DEF CachedFiles
    <3>2. i \notin FileObjects' BY <1>1, <2>2 DEF FileObjects
    <3>3. i \notin FileObjects
      <4> SUFFICES ASSUME i \in FileObjects PROVE FALSE OBVIOUS
      <4>1. files[i] \in CachedFiles /\ files[i].type = "file" /\ i \in Objects BY Typed DEF FileObjects
      <4>2. f = [files[i] EXCEPT !.refcount = @ + 1] BY <4>1 DEF Found, Objects
      <4> QED BY <2>2, <4>1, <4>2 DEF CachedFiles
    <3>4. ASSUME NEW e \in Entries, IsEntry(dir[e]), dir[e].type = "file" PROVE dir[e].name # n
      <4>1. dir[e].name \in Names BY <3>4, Typed DEF DirEntries
      <4>2. CASE n = Root BY <4>1, <4>2, EchfsAssumption
      <4>3. CASE n # Root /\ f.not_found BY <3>4, <4>3 DEF ObjectSound
      <4>4. CASE n # Root /\ ~f.not_found
        <5>1. EntryOf(f, f.entry, dir) BY <4>4 DEF ObjectSound
        <5> QED BY <3>1, <3>4, <5>1 DEF EntryOf, DirSound
      <4> QED BY <4>2, <4>3, <4>4
    <3>5. OnlyOnDisk' = OnlyOnDisk
      <4>1. cached_files'[n] # NULL BY <1>2, NullAssumption
      <4> QED BY <1>2, <3>4, <4>1, DiskKept
    <3> QED BY <1>1, <3>2, <3>3, <3>5, BlocksQuiet
  <2> QED BY <2>1, <2>2
<1> QED BY <1>3, <1>4, NameOpened

(* A file that is found loses its blocks. *)
LEMMA TruncatedSound ==
    ASSUME FilesInv, TypeOK', NEW n \in AllNames, NEW i \in Files, NEW f \in CachedFiles, Found(n, i, f), f.name = n, ~f.unlinked,
           ObjectSound(i, f, cached_files', dir), f.type = "file", Follows(fat, f.payload, f.alloc_map),
           NEW g, g = erase_file(f), files' = [files EXCEPT ![i] = g], cached_files' = [cached_files EXCEPT ![n] = i],
           fat' = Unchained(f), UNCHANGED <<dir, syncing>>, HandleAdded(i, g)
    PROVE  FilesInv'
<1> USE DEF FilesInv
<1>1. /\ g \in CachedFiles /\ g.name = f.name /\ g.refcount = f.refcount /\ g.unlinked = f.unlinked
      /\ g.type = f.type /\ g.not_found = f.not_found /\ g.entry = f.entry
      /\ g.payload = END_OF_CHAIN /\ g.alloc_map = <<>>
      BY Erases
<1>2. DirSound' BY DEF DirSound
<1>3. ~f.not_found BY DEF ObjectSound
<1>4. \A b \in Blocks : fat'[b] = IF b \in ToSet(f.alloc_map) THEN 0 ELSE fat[b] BY Typed, UnchainedIs
<1>5. PICK own : own = ToSet(f.alloc_map) OBVIOUS
<1>6. ToSet(g.alloc_map) = {} BY <1>1 DEF ToSet
<1>7. Follows(fat', g.payload, g.alloc_map) BY <1>1 DEF Follows, IsInjective
<1>8. BlocksSound'
  <2>1. \A b \in Blocks : fat[b] # 0 /\ b \notin own => fat'[b] = fat[b] BY <1>4, <1>5
  <2>2. \A b \in Blocks : b \in own \/ fat[b] = 0 => (fat'[b] # 0 <=> b \in ToSet(g.alloc_map)) BY <1>4, <1>5, <1>6
  <2>3. \A b \in ToSet(g.alloc_map) : b \in own \/ fat[b] = 0 BY <1>6
  <2>4. g \in CachedFiles /\ g.type = "file" /\ ~g.not_found /\ dir' = dir BY <1>1, <1>3
  <2>5. FilesInv OBVIOUS
  <2> HIDE DEF FilesInv
  <2>6. /\ TypeOK' /\ n \in AllNames /\ i \in Files /\ f \in CachedFiles /\ Found(n, i, f) /\ f.name = n /\ ~f.unlinked
        /\ f.type = "file" /\ ObjectSound(i, f, cached_files', dir)
        /\ files' = [files EXCEPT ![i] = g] /\ cached_files' = [cached_files EXCEPT ![n] = i]
        OBVIOUS
  <2> QED BY ONLY <1>5, <1>7, <2>1, <2>2, <2>3, <2>4, <2>5, <2>6, OpenedBlocks
<1>9. ObjectSound(i, g, cached_files', dir') BY <1>1 DEF ObjectSound, EntryOf
<1> QED BY <1>1, <1>2, <1>8, <1>9, NameOpened

(* NewHandle adds such a handle. *)
LEMMA HandleMade ==
    ASSUME TypeOK, NEW h \in FreeHandles, NEW i \in Files, NEW g \in CachedFiles, ~g.not_found, NEW flags,
           NEW by \in {"program", "unlink"}, NewHandle(h, i, g, flags, by)
    PROVE  HandleAdded(i, g) /\ handles' \in [Handles -> OpenHandles \cup {NULL}]
<1>1. h \in Handles /\ handles[h] = NULL BY DEF FreeHandles
<1> DEFINE v == [file |-> i, type |-> g.type, ptr |-> 0, end |-> g.size, refcount |-> 1,
                 flags |-> flags \cap {"WRITE", "APPEND"}, by |-> by]
<1>2. handles' = [handles EXCEPT ![h] = v] BY DEF NewHandle
<1>3. v \in OpenHandles BY DEF OpenHandles, CachedFiles
<1>4. v.file = i /\ v.type = g.type /\ v.refcount = 1 OBVIOUS
<1> HIDE DEF v
<1>5. handles'[h] = v /\ \A x \in Handles \ {h} : handles'[x] = handles[x] BY <1>1, <1>2 DEF TypeOK
<1>6. HandleAdded(i, g) BY <1>1, <1>3, <1>4, <1>5 DEF HandleAdded
<1>7. handles' \in [Handles -> OpenHandles \cup {NULL}] BY <1>1, <1>2, <1>3 DEF TypeOK
<1> QED BY <1>6, <1>7

(* What open makes of the object f of name n that it has found. *)
Opens(n, flags, by, i, f) ==
    LET creates == f.not_found /\ "CREAT" \in flags
        truncates == ~f.not_found /\ "TRUNC" \in flags
        e == IF creates /\ find_free_entry # {} THEN Min(find_free_entry) ELSE 0
        made == [f EXCEPT !.type = "file", !.not_found = FALSE, !.entry = e, !.payload = END_OF_CHAIN]
        g == IF creates THEN made ELSE IF truncates THEN erase_file(f) ELSE f
    IN  /\ ~(truncates /\ f.type = "dir") /\ ~(creates /\ e = 0)
        /\ cached_files' = [cached_files EXCEPT ![n] = i]
        /\ files' = [files EXCEPT ![i] = g]
        /\ dir' = IF creates THEN [dir EXCEPT ![e] = Entry(made)] ELSE dir
        /\ fat' = IF truncates THEN Unchained(f) ELSE fat
        /\ data' = IF truncates THEN Forgotten(f) ELSE data
        /\ written' = IF truncates \/ cached_files[n] = NULL THEN [written EXCEPT ![i] = Unwritten] ELSE written
        /\ \/ UNCHANGED handles
           \/ ~g.not_found /\ \E h \in FreeHandles : NewHandle(h, i, g, flags, by)
        /\ UNCHANGED <<syncing, fault>>

(* An open fails or opens. *)
LEMMA OpenIs ==
    ASSUME NEW n, NEW flags, NEW by, Open(n, flags, by)
    PROVE  /\ CanCache(n)
           /\ \/ \E why : Fails(why)
              \/ \E c \in cache_file(n) : Opens(n, flags, by, c.id, c.file)
<1>1. CanCache(n) BY DEF Open
<1>2. ASSUME ~ \E why : Fails(why) PROVE \E c \in cache_file(n) : Opens(n, flags, by, c.id, c.file)
  <2>1. ~Fails("truncated_dir") /\ ~Fails("directory_full") BY <1>2
  <2> QED BY <2>1 DEF Open, Opens
<1> QED BY <1>1, <1>2

(* echfs_open, and the open of syscall_unlink. *)
LEMMA OpenSound ==
    ASSUME FilesInv, NEW n \in AllNames, NEW flags, NEW by \in {"program", "unlink"}, Open(n, flags, by)
    PROVE  FilesInv'
<1> USE DEF FilesInv
<1>1. CASE \E why : Fails(why) BY <1>1, FailsSound
<1>2. CASE \E c \in cache_file(n) : Opens(n, flags, by, c.id, c.file)
  <2>1. PICK c \in cache_file(n) : Opens(n, flags, by, c.id, c.file) BY <1>2
  <2>2. PICK i, f : i = c.id /\ f = c.file OBVIOUS
  <2>3. CanCache(n) /\ Opens(n, flags, by, i, f) BY <2>1, <2>2, OpenIs
  <2>4. /\ i \in Files /\ f \in CachedFiles /\ f.name = n /\ ~f.unlinked /\ Found(n, i, f)
        /\ ObjectSound(i, f, [cached_files EXCEPT ![n] = i], dir)
        /\ f.type = "file" => Follows(fat, f.payload, f.alloc_map)
        BY <2>2, <2>3, FoundIs
  <2>5. cached_files' = [cached_files EXCEPT ![n] = i] /\ syncing' = syncing BY <2>3 DEF Opens
  <2>6. ObjectSound(i, f, cached_files', dir) BY <2>4, <2>5
  <2>7. cached_files' \in [Names \cup {Root} -> Files \cup {NULL}] /\ syncing' \in (SUBSET Files) \cup {NULL}
        BY <2>4, <2>5 DEF TypeOK
  <2>8. written' \in [Files -> [0 .. NBlocks -> Data \cup {NULL}]]
    <3>1. Unwritten \in [0 .. NBlocks -> Data \cup {NULL}] BY DEF Unwritten
    <3>2. written' = [written EXCEPT ![i] = Unwritten] \/ written' = written BY <2>3 DEF Opens
    <3> QED BY <3>1, <3>2 DEF TypeOK
  <2>9. PICK g : /\ files' = [files EXCEPT ![i] = g]
                 /\ g = IF f.not_found /\ "CREAT" \in flags
                        THEN [f EXCEPT !.type = "file", !.not_found = FALSE,
                                       !.entry = IF find_free_entry # {} THEN Min(find_free_entry) ELSE 0, !.payload = END_OF_CHAIN]
                        ELSE IF ~f.not_found /\ "TRUNC" \in flags THEN erase_file(f) ELSE f
                 /\ handles' = handles \/ (~g.not_found /\ \E h \in FreeHandles : NewHandle(h, i, g, flags, by))
        BY <2>3 DEF Opens
  <2>10. ASSUME g \in CachedFiles PROVE /\ HandleAdded(i, g) /\ handles' \in [Handles -> OpenHandles \cup {NULL}]
                                        /\ files' \in [Files -> CachedFiles \cup {Freed}]
    <3>1. CASE handles' = handles BY <2>4, <2>9, <2>10, <3>1 DEF HandleAdded, TypeOK
    <3>2. CASE handles' # handles
      <4>1. PICK h \in FreeHandles : NewHandle(h, i, g, flags, by) BY <2>9, <3>2
      <4>2. HandleAdded(i, g) /\ handles' \in [Handles -> OpenHandles \cup {NULL}]
        <5>1. ~g.not_found BY <2>9, <3>2
        <5>2. TypeOK /\ i \in Files /\ g \in CachedFiles /\ by \in {"program", "unlink"} BY <2>4, <2>10
        <5> QED BY ONLY h \in FreeHandles, <4>1, <5>1, <5>2, HandleMade
      <4> QED BY <2>4, <2>9, <2>10, <4>2 DEF TypeOK
    <3> QED BY <3>1, <3>2
  <2>11. CASE f.not_found /\ "CREAT" \in flags
    <3>1. find_free_entry # {} BY <2>3, <2>11 DEF Opens
    <3>2. PICK e : e = Min(find_free_entry) OBVIOUS
    <3>3. e \in Entries BY <3>1, <3>2, FreeEntryIs
    <3>4. PICK b \in Nat : b = END_OF_CHAIN BY Ends
    <3>5. g = [f EXCEPT !.type = "file", !.not_found = FALSE, !.entry = e, !.payload = b] BY <2>9, <2>11, <3>1, <3>2, <3>4
    <3>6. /\ g \in CachedFiles /\ g.name = f.name /\ g.refcount = f.refcount /\ g.unlinked = f.unlinked /\ g.type = "file"
          /\ ~g.not_found /\ g.entry = e /\ g.payload = b /\ g.size = f.size /\ g.alloc_map = f.alloc_map
          /\ g.slots = f.slots /\ g.changed_entry = f.changed_entry /\ g.changed_cache = f.changed_cache
      <4>1. PICK type \in {"file", "dir"} : type = "file" OBVIOUS
      <4>2. g = [f EXCEPT !.type = type, !.not_found = FALSE, !.entry = e, !.payload = b] BY <3>5, <4>1
      <4>3. f \in CachedFiles BY <2>4
      <4>4. MadeAs(g, f, type, e, b) BY ONLY <3>3, <4>2, <4>3, MadeIs
      <4> QED BY ONLY <4>1, <4>4 DEF MadeAs
    <3>7. fat' = fat /\ data' = data /\ dir' = [dir EXCEPT ![e] = Entry(g)]
      <4>1. fat' = fat /\ data' = data BY <2>3, <2>11 DEF Opens
      <4>2. dir' = [dir EXCEPT ![e] = Entry([f EXCEPT !.type = "file", !.not_found = FALSE, !.entry = e, !.payload = b])]
            BY <2>3, <2>11, <3>1, <3>2, <3>4 DEF Opens
      <4> QED BY <3>5, <4>1, <4>2
    <3>8. n # Root BY <2>4, <2>11 DEF ObjectSound
    <3>9. Entry(g) \in DirEntries BY <2>4, <3>6, <3>8 DEF Entry, DirEntries, CachedFiles, AllNames
    <3>10. dir' \in [Entries -> DirEntries \cup {NULL, DELETED}] BY <3>3, <3>7, <3>9 DEF TypeOK
    <3>11. TypeOK' BY <2>7, <2>8, <2>10, <3>6, <3>7, <3>10 DEF TypeOK
    <3>12. f.not_found /\ HandleAdded(i, g) BY <2>10, <2>11, <3>6
    <3>13. FilesInv OBVIOUS
    <3> HIDE DEF FilesInv
    <3>14. files' = [files EXCEPT ![i] = g] /\ g.payload = END_OF_CHAIN /\ g.name = n BY <2>4, <2>9, <3>4, <3>6
    <3> QED BY ONLY <2>4, <2>5, <2>6, <3>1, <3>2, <3>6, <3>7, <3>11, <3>12, <3>13, <3>14, CreatedSound
  <2>12. CASE ~(f.not_found /\ "CREAT" \in flags) /\ ~f.not_found /\ "TRUNC" \in flags
    <3>1. g = erase_file(f) BY <2>9, <2>12
    <3>2. f.type = "file" BY <2>3, <2>4, <2>12 DEF Opens, CachedFiles
    <3>3. g \in CachedFiles BY <2>4, <3>1, Erases
    <3>4. fat' = Unchained(f) /\ data' = Forgotten(f) /\ dir' = dir BY <2>3, <2>12 DEF Opens
    <3>5. Unchained(f) \in Tables /\ Forgotten(f) \in [Blocks -> Content] BY <2>4, <3>2, Typed, UnchainedIs
    <3>6. TypeOK' BY <2>7, <2>8, <2>10, <3>3, <3>4, <3>5 DEF TypeOK, Tables, Content
    <3>7. HandleAdded(i, g) BY <2>10, <3>3
    <3>8. FilesInv OBVIOUS
    <3> HIDE DEF FilesInv
    <3> QED BY <2>4, <2>5, <2>6, <2>9, <3>1, <3>2, <3>4, <3>6, <3>7, <3>8, TruncatedSound
  <2>13. CASE ~(f.not_found /\ "CREAT" \in flags) /\ ~(~f.not_found /\ "TRUNC" \in flags)
    <3>1. g = f BY <2>9, <2>13
    <3>2. fat' = fat /\ data' = data /\ dir' = dir BY <2>3, <2>13 DEF Opens
    <3>3. TypeOK' BY <2>4, <2>7, <2>8, <2>10, <3>1, <3>2 DEF TypeOK
    <3>4. HandleAdded(i, f) BY <2>4, <2>10, <3>1
    <3>5. FilesInv OBVIOUS
    <3> HIDE DEF FilesInv
    <3> QED BY <2>4, <2>5, <2>6, <2>9, <3>1, <3>2, <3>3, <3>4, <3>5, FoundSound
  <2> QED BY <2>11, <2>12, <2>13
<1> QED BY <1>1, <1>2, OpenIs

(* The number of a new directory is a number. *)
LEMMA FreeIdIs == get_free_id \in Nat
<1> DEFINE next(i, x) == IF Used(i) /\ IsEntry(dir[i]) /\ dir[i].type = "dir" /\ dir[i].payload = x THEN x + 1 ELSE x
           step == [x \in Nat \X Nat |-> next(x[1], x[2])]
<1>0. NEntries \in Nat BY EchfsAssumption
<1>1. step \in [Nat \X Nat -> Nat] OBVIOUS
<1>2. PICK g \in [0 .. NEntries -> Nat] : g[0] = 1 /\ \A k \in 0 .. NEntries - 1 : g[k + 1] = step[<<k + 1, g[k]>>]
  <2>1. PICK one \in Nat : one = 1 OBVIOUS
  <2> HIDE DEF step
  <2>2. \E f : Recurs(f, NEntries, Nat, one, step) BY <1>0, <1>1, <2>1, Recursion
  <2> QED BY <2>1, <2>2 DEF Recurs
<1>3. \A k \in 0 .. NEntries - 1 : g[k + 1] = next(k + 1, g[k])
  <2> SUFFICES ASSUME NEW k \in 0 .. NEntries - 1 PROVE g[k + 1] = next(k + 1, g[k]) OBVIOUS
  <2>1. <<k + 1, g[k]>> \in Nat \X Nat BY <1>0, <1>2
  <2>2. step[<<k + 1, g[k]>>] = next(k + 1, g[k]) BY <2>1
  <2> HIDE DEF step, next
  <2> QED BY <1>2, <2>2
<1> HIDE DEF step
<1>4. g = [i \in 0 .. NEntries |->
             IF i = 0 THEN 1
             ELSE IF Used(i) /\ IsEntry(dir[i]) /\ dir[i].type = "dir" /\ dir[i].payload = g[i - 1]
                  THEN g[i - 1] + 1 ELSE g[i - 1]]
  <2>1. ASSUME NEW k \in 0 .. NEntries PROVE g[k] = IF k = 0 THEN 1 ELSE next(k, g[k - 1])
    <3>1. CASE k = 0 BY <1>2, <3>1
    <3>2. CASE k # 0
      <4>1. k - 1 \in 0 .. NEntries - 1 /\ (k - 1) + 1 = k BY <1>0, <3>2
      <4> HIDE DEF next
      <4>2. g[(k - 1) + 1] = next((k - 1) + 1, g[k - 1]) BY <1>3, <4>1
      <4> QED BY <3>2, <4>1, <4>2
    <3> QED BY <3>1, <3>2
  <2> QED BY <1>2, <2>1
<1> DEFINE scan[i \in 0 .. NEntries] ==
               IF i = 0 THEN 1
               ELSE IF Used(i) /\ IsEntry(dir[i]) /\ dir[i].type = "dir" /\ dir[i].payload = scan[i - 1]
                    THEN scan[i - 1] + 1 ELSE scan[i - 1]
<1>5. get_free_id = IF Used(NEntries) THEN RootId ELSE scan[NEntries] BY DEF get_free_id
<1>6. scan = [i \in 0 .. NEntries |->
                IF i = 0 THEN 1
                ELSE IF Used(i) /\ IsEntry(dir[i]) /\ dir[i].type = "dir" /\ dir[i].payload = scan[i - 1]
                     THEN scan[i - 1] + 1 ELSE scan[i - 1]]
      BY <1>4, Zenon
<1> HIDE DEF scan
<1> DEFINE S == {k \in 0 .. NEntries : scan[k] \in Nat}
<1>7. 0 \in S BY <1>0, <1>6
<1>8. ASSUME NEW k \in 0 .. NEntries - 1, scan[k] \in Nat PROVE scan[k + 1] \in Nat
  <2>1. k + 1 \in 0 .. NEntries /\ k + 1 # 0 /\ (k + 1) - 1 = k BY <1>0
  <2>2. scan[k + 1] = next(k + 1, scan[k]) BY <1>6, <2>1
  <2> QED BY <1>8, <2>2
<1>9. \A k \in 0 .. NEntries - 1 : k \in S => k + 1 \in S BY <1>0, <1>8
<1>10. NEntries \in S
  <2> HIDE DEF S
  <2> QED BY <1>0, <1>7, <1>9, UpTo
<1> QED BY <1>5, <1>10 DEF RootId

(* echfs_mkdir. *)
LEMMA MkdirSound ==
    ASSUME FilesInv, NEW n \in AllNames, echfs_mkdir(n)
    PROVE  FilesInv'
<1> USE DEF FilesInv
<1>1. CanCache(n) BY DEF echfs_mkdir
<1> DEFINE free == IF find_free_entry = {} THEN 0 ELSE Min(find_free_entry)
           made(f) == [f EXCEPT !.type = "dir", !.not_found = FALSE, !.entry = free, !.payload = get_free_id]
<1>2. PICK c \in cache_file(n) :
        IF c.file.not_found /\ free = 0 THEN Fails("directory_full")
        ELSE /\ cached_files' = [cached_files EXCEPT ![n] = c.id]
             /\ files' = [files EXCEPT ![c.id] = IF c.file.not_found THEN made(c.file) ELSE c.file]
             /\ dir' = IF c.file.not_found THEN [dir EXCEPT ![free] = Entry(made(c.file))] ELSE dir
             /\ written' = IF cached_files[n] = NULL THEN [written EXCEPT ![c.id] = Unwritten] ELSE written
             /\ UNCHANGED <<fat, data, handles, syncing>>
      BY DEF echfs_mkdir
<1>3. PICK i, f : i = c.id /\ f = c.file OBVIOUS
<1>4. CASE f.not_found /\ free = 0
  <2>1. Fails("directory_full") BY <1>2, <1>3, <1>4
  <2> QED BY <2>1, FailsSound
<1>5. CASE ~(f.not_found /\ free = 0)
  <2>1. /\ cached_files' = [cached_files EXCEPT ![n] = i]
        /\ files' = [files EXCEPT ![i] = IF f.not_found THEN made(f) ELSE f]
        /\ dir' = IF f.not_found THEN [dir EXCEPT ![free] = Entry(made(f))] ELSE dir
        /\ written' = IF cached_files[n] = NULL THEN [written EXCEPT ![i] = Unwritten] ELSE written
        /\ UNCHANGED <<fat, data, handles, syncing>>
        BY <1>2, <1>3, <1>5
  <2>2. /\ i \in Files /\ f \in CachedFiles /\ f.name = n /\ ~f.unlinked /\ Found(n, i, f)
        /\ ObjectSound(i, f, [cached_files EXCEPT ![n] = i], dir)
        /\ f.type = "file" => Follows(fat, f.payload, f.alloc_map)
        BY <1>1, <1>3, FoundIs
  <2>3. ObjectSound(i, f, cached_files', dir) BY <2>1, <2>2
  <2>4. cached_files' \in [Names \cup {Root} -> Files \cup {NULL}] BY <2>1, <2>2 DEF TypeOK
  <2>5. written' \in [Files -> [0 .. NBlocks -> Data \cup {NULL}]]
    <3>1. Unwritten \in [0 .. NBlocks -> Data \cup {NULL}] BY DEF Unwritten
    <3>2. written' = [written EXCEPT ![i] = Unwritten] \/ written' = written BY <2>1
    <3> QED BY <3>1, <3>2 DEF TypeOK
  <2>6. \A g : HandleAdded(i, g) BY <2>1 DEF HandleAdded
  <2>7. CASE ~f.not_found
    <3>1. files' = [files EXCEPT ![i] = f] /\ dir' = dir BY <2>1, <2>7
    <3> HIDE DEF made, free
    <3>a. files' \in [Files -> CachedFiles \cup {Freed}] BY <2>2, <3>1 DEF TypeOK
    <3>2. TypeOK' BY <2>1, <2>4, <2>5, <3>1, <3>a DEF TypeOK
    <3>3. FilesInv OBVIOUS
    <3> HIDE DEF FilesInv
    <3> QED BY <2>1, <2>2, <2>3, <2>6, <3>1, <3>2, <3>3, FoundSound
  <2>8. CASE f.not_found
    <3>1. find_free_entry # {} BY <1>5, <2>8
    <3>2. PICK e : e = Min(find_free_entry) OBVIOUS
    <3>3. e \in Entries /\ e = free BY <3>1, <3>2, FreeEntryIs
    <3>4. PICK b \in Nat : b = get_free_id BY FreeIdIs
    <3>5. PICK g : g = made(f) OBVIOUS
    <3>6. MadeAs(g, f, "dir", e, b)
      <4>1. PICK type \in {"file", "dir"} : type = "dir" OBVIOUS
      <4>2. g = [f EXCEPT !.type = type, !.not_found = FALSE, !.entry = e, !.payload = b] BY <3>3, <3>4, <3>5, <4>1
      <4>3. f \in CachedFiles BY <2>2
      <4>4. MadeAs(g, f, type, e, b) BY ONLY <3>3, <4>2, <4>3, MadeIs
      <4> QED BY <4>1, <4>4
    <3> HIDE DEF made, free
    <3>7. files' = [files EXCEPT ![i] = g] /\ dir' = [dir EXCEPT ![e] = Entry(g)] /\ fat' = fat /\ data' = data /\ syncing' = syncing
          BY <2>1, <2>8, <3>3, <3>5
    <3>8. n # Root BY <2>2, <2>8 DEF ObjectSound
    <3>9. Entry(g) \in DirEntries BY <2>2, <3>6, <3>8 DEF Entry, DirEntries, CachedFiles, AllNames, MadeAs
    <3>10. dir' \in [Entries -> DirEntries \cup {NULL, DELETED}] BY <3>3, <3>7, <3>9 DEF TypeOK
    <3>11. files' \in [Files -> CachedFiles \cup {Freed}] BY <2>2, <3>6, <3>7 DEF TypeOK, MadeAs
    <3>12. TypeOK' BY <2>1, <2>4, <2>5, <3>7, <3>10, <3>11 DEF TypeOK
    <3>13. HandleAdded(i, g) BY <2>6
    <3>14. FilesInv OBVIOUS
    <3>15. /\ g \in CachedFiles /\ g.name = n /\ g.refcount = f.refcount /\ g.unlinked = f.unlinked /\ g.type # "file"
           /\ ~g.not_found /\ g.entry = e /\ g.alloc_map = f.alloc_map
           /\ g.slots = f.slots /\ g.changed_entry = f.changed_entry /\ g.changed_cache = f.changed_cache
           BY <2>2, <3>6 DEF MadeAs
    <3>16. cached_files' = [cached_files EXCEPT ![n] = i] BY <2>1
    <3> HIDE DEF FilesInv
    <3> QED BY ONLY <2>2, <2>3, <2>8, <3>1, <3>2, <3>7, <3>12, <3>13, <3>14, <3>15, <3>16, CreatedSound
  <2> QED BY <2>7, <2>8
<1> QED BY <1>4, <1>5

-----------------------------------------------------------------------------
(***************************************************************************)
(* Unlinking files                                                          *)
(***************************************************************************)

(* The name of file i goes, and with it the file or not. *)
LEMMA NameGone ==
    ASSUME FilesInv, TypeOK', NEW i \in FileObjects, NEW f, f = files[i], ~f.unlinked, syncing' = NULL,
           dir' = [dir EXCEPT ![f.entry] = DELETED], cached_files' = [cached_files EXCEPT ![f.name] = NULL],
           NEW g, files' = [files EXCEPT ![i] = g], NEW h \in Handles, handles[h] # NULL, handles[h].file = i,
           NEW v \in OpenHandles, handles' = [handles EXCEPT ![h] = v], v.file = i, v.type = handles[h].type,
           \/ g = Freed /\ fat' = Unchained(f)
           \/ /\ g \in CachedFiles /\ g.unlinked /\ g.refcount # 0 /\ g.name = f.name /\ g.type = f.type
              /\ g.not_found = f.not_found /\ g.payload = f.payload /\ g.alloc_map = f.alloc_map /\ fat' = fat
    PROVE  FilesInv'
<1> USE DEF FilesInv
<1>1. i \in Files /\ i \in Objects /\ f \in CachedFiles /\ f.type = "file" /\ ~f.not_found BY Typed DEF FileObjects
<1>2. ObjectSound(i, f, cached_files, dir) BY <1>1 DEF ObjectsSound
<1>3. PICK n \in AllNames : n = f.name BY <1>1, NotFreed
<1>4. PICK e \in Entries : e = f.entry /\ EntryOf(f, e, dir) BY <1>1, <1>2 DEF ObjectSound, EntryOf
<1>5. n # Root /\ cached_files[n] = i BY <1>1, <1>2, <1>3 DEF ObjectSound
<1>6. cached_files'[n] = NULL /\ \A m \in AllNames \ {n} : cached_files'[m] = cached_files[m] BY <1>3 DEF TypeOK, AllNames
<1>7. dir'[e] = DELETED /\ \A d \in Entries \ {e} : dir'[d] = dir[d] BY <1>4 DEF TypeOK
<1>8. files'[i] = g /\ \A j \in Files \ {i} : files'[j] = files[j] BY <1>1 DEF TypeOK
<1>9. \A d \in Entries : dir'[d] # dir[d] => /\ ~IsEntry(dir[d]) \/ dir[d].name = n
                                             /\ ~IsEntry(dir'[d]) \/ dir'[d].name = n
      BY <1>3, <1>4, <1>7 DEF IsEntry, EntryOf
<1>10. \A d \in Entries : IsEntry(dir'[d]) => dir'[d].name # n BY <1>3, <1>4, <1>7 DEF IsEntry, EntryOf, DirSound
<1>11. OnlyOnDisk' = OnlyOnDisk /\ \A d \in OnlyOnDisk : dir'[d] = dir[d]
  <2>1. cached_files[n] # NULL BY <1>1, <1>5, NullAssumption
  <2> QED BY <1>6, <1>9, <1>10, <2>1, DiskKept
<1>12. DirSound'
  <2>1. ASSUME NEW c \in Entries, NEW d \in Entries, IsEntry(dir'[c]), IsEntry(dir'[d]), dir'[c].name = dir'[d].name
        PROVE  c = d
        BY <1>7, <2>1 DEF DirSound, IsEntry
  <2>2. ASSUME NEW c \in Entries, NEW d \in Entries, c <= d, dir'[d] # NULL PROVE dir'[c] # NULL
    <3>1. dir[e] # NULL /\ DELETED # NULL BY <1>4, NullAssumption DEF EntryOf, IsEntry
    <3> QED BY <1>7, <2>2, <3>1 DEF DirSound
  <2> QED BY <2>1, <2>2 DEF DirSound, IsEntry
<1>13. v # NULL /\ handles'[h] = v /\ \A x \in Handles \ {h} : handles'[x] = handles[x] BY NullAssumption DEF TypeOK
<1>14. handles[h].type = f.type BY <1>1 DEF HandlesSound, Objects
<1>15. g = Freed \/ (g # Freed /\ g.unlinked /\ g.type = f.type /\ g.not_found = f.not_found) BY NotFreed
<1>16. ObjectsSound'
  <2>1. g # Freed => ObjectSound(i, g, cached_files', dir')
        BY <1>1, <1>3, <1>5 DEF ObjectSound
  <2>2. cached_files[n] \in {NULL, i} BY <1>5
  <2>3. files'[i] # Freed => ObjectSound(i, files'[i], cached_files', dir') BY <1>8, <2>1
  <2>4. TypeOK /\ ObjectsSound /\ DirSound OBVIOUS
  <2>5. \A m \in AllNames \ {n} : cached_files'[m] = cached_files[m] BY <1>6
  <2>6. \A j \in Files \ {i} : files'[j] = files[j] BY <1>8
  <2>7. i \in Files /\ Around(n, i) BY <1>1, <1>9, <2>5, <2>6 DEF Around
  <2> HIDE DEF FilesInv
  <2> QED BY <2>2, <2>3, <2>4, <2>7, ObjectsKept
<1>17. NamesSound'
  <2>1. cached_files[n] \in {NULL, i} /\ cached_files'[n] \in {NULL, i} /\ cached_files'[n] # i
        BY <1>1, <1>5, <1>6, NullAssumption
  <2> QED BY <1>1, <1>3, <1>6, <1>8, <2>1, NamesKept
<1>18. HandlesSound'
  <2>1. \A x \in Handles : handles'[x] # NULL /\ handles'[x].file # i =>
              handles[x] # NULL /\ handles[x].file = handles'[x].file /\ handles[x].type = handles'[x].type
              /\ handles[x].file \in Files
        BY <1>13, Typed
  <2>2. \A x \in Handles : handles'[x] # NULL /\ handles'[x].file = i /\ g # Freed => handles'[x].type = g.type /\ ~g.not_found
    <3> SUFFICES ASSUME NEW x \in Handles, handles'[x] # NULL, handles'[x].file = i, g # Freed
                 PROVE  handles'[x].type = g.type /\ ~g.not_found
        OBVIOUS
    <3>1. CASE x = h BY <1>1, <1>13, <1>14, <1>15, <3>1
    <3>2. CASE x # h BY <1>1, <1>13, <1>15, <3>2 DEF HandlesSound, Objects
    <3> QED BY <3>1, <3>2
  <2> QED BY <1>1, <1>8, <2>1, <2>2, HandlesKept
<1>19. RefsSound' BY <1>1, <1>8, <1>13, <1>15, RefsKept
<1>20. ListSound' BY DEF ListSound
<1>21. BlocksSound'
  <2>1. CASE g = Freed /\ fat' = Unchained(f)
    <3>1. i \notin FileObjects' BY <1>8, <2>1 DEF FileObjects, Objects
    <3>2. Follows(fat, f.payload, f.alloc_map) BY OpenChain
    <3>3. \A b \in Blocks : fat'[b] = IF b \in ToSet(f.alloc_map) THEN 0 ELSE fat[b] BY <2>1, <3>2, Typed, UnchainedIs
    <3>4. PICK own : own = ToSet(f.alloc_map) OBVIOUS
    <3>5. own = IF i \in FileObjects THEN ToSet(files[i].alloc_map) ELSE {} BY <3>4
    <3>6. \A b \in Blocks : fat[b] # 0 /\ b \notin own => fat'[b] = fat[b] BY <3>3, <3>4
    <3>7. \A b \in Blocks : b \in own \/ fat[b] = 0 => fat'[b] = 0 BY <3>3, <3>4
    <3> QED BY <1>1, <1>8, <1>11, <3>1, <3>5, <3>6, <3>7, BlocksOne
  <2>2. CASE ~(g = Freed /\ fat' = Unchained(f))
    <3>1. i \in FileObjects' BY <1>1, <1>8, <2>2, NotFreed DEF FileObjects, Objects
    <3> QED BY <1>1, <1>8, <1>11, <2>2, <3>1, BlocksQuiet
  <2> QED BY <2>1, <2>2
<1> QED BY <1>12, <1>16, <1>17, <1>18, <1>19, <1>20, <1>21

(* echfs_unlink. *)
LEMMA UnlinkSound ==
    ASSUME FilesInv, NEW h \in Handles, echfs_unlink(h)
    PROVE  FilesInv'
<1> USE DEF FilesInv
<1>1. handles[h] # NULL /\ files[handles[h].file] # Freed BY DEF echfs_unlink, Dangling
<1>2. PICK i \in Objects : i = handles[h].file /\ files[i].refcount \in 1 .. MaxRefs
                           /\ ObjectSound(i, files[i], cached_files, dir)
      BY <1>1, Referenced
<1>3. PICK f \in CachedFiles : f = files[i] BY Typed
<1>4. handles[h] \in OpenHandles BY <1>1, Typed
<1> DEFINE v == [handles[h] EXCEPT !.by = "unlinked"]
<1>5. v \in OpenHandles /\ v.file = handles[h].file /\ v.type = handles[h].type /\ v.refcount = handles[h].refcount
      BY <1>4 DEF OpenHandles
<1>6. CASE f.type = "dir"
  <2>1. handles' = [handles EXCEPT ![h] = v] /\ UNCHANGED <<fat, data, dir, files, cached_files, syncing, written>>
        BY <1>2, <1>3, <1>6 DEF echfs_unlink
  <2> HIDE DEF v
  <2> QED BY <1>1, <1>5, <2>1, HandleMoves
<1>7. CASE f.type = "file" /\ (HtBusy \/ f.unlinked)
  <2>1. Fails("deadlock") \/ Fails("unlinked_twice") BY <1>2, <1>3, <1>7 DEF echfs_unlink
  <2> QED BY <2>1, FailsSound
<1>8. CASE f.type = "file" /\ ~HtBusy /\ ~f.unlinked
  <2>1. /\ dir' = [dir EXCEPT ![f.entry] = DELETED] /\ cached_files' = [cached_files EXCEPT ![f.name] = NULL]
        /\ IF f.refcount = 1
           THEN /\ files' = [files EXCEPT ![i] = Freed] /\ fat' = Unchained(f) /\ data' = Forgotten(f)
                /\ written' = [written EXCEPT ![i] = Unwritten]
           ELSE files' = [files EXCEPT ![i].unlinked = TRUE, ![i].refcount = @ - 1] /\ UNCHANGED <<fat, data, written>>
        /\ handles' = [handles EXCEPT ![h] = v] /\ syncing' = syncing
        BY <1>2, <1>3, <1>8 DEF echfs_unlink
  <2>2. syncing' = NULL BY <1>8, <2>1 DEF HtBusy
  <2> HIDE DEF v
  <2>3. i \in FileObjects /\ i \in Files BY <1>2, <1>3, <1>8 DEF FileObjects, ObjectSound, Objects
  <2>4. dir' \in [Entries -> DirEntries \cup {NULL, DELETED}] /\ cached_files' \in [Names \cup {Root} -> Files \cup {NULL}]
        BY <2>1 DEF TypeOK
  <2>5. handles' \in [Handles -> OpenHandles \cup {NULL}] BY <1>5, <2>1 DEF TypeOK
  <2>6. CASE f.refcount = 1
    <3>1. /\ files' = [files EXCEPT ![i] = Freed] /\ fat' = Unchained(f) /\ data' = Forgotten(f)
          /\ written' = [written EXCEPT ![i] = Unwritten]
          BY <2>1, <2>6
    <3>2. Follows(fat, f.payload, f.alloc_map) BY <1>3, <2>3, OpenChain
    <3>3. Unchained(f) \in Tables /\ Forgotten(f) \in [Blocks -> Content] BY <3>2, Typed, UnchainedIs
    <3>4. Unwritten \in [0 .. NBlocks -> Data \cup {NULL}] BY DEF Unwritten
    <3>5. written' \in [Files -> [0 .. NBlocks -> Data \cup {NULL}]] BY <3>1, <3>4 DEF TypeOK
    <3>6. files' \in [Files -> CachedFiles \cup {Freed}] BY <3>1 DEF TypeOK
    <3>7. TypeOK' BY <2>2, <2>4, <2>5, <3>1, <3>3, <3>5, <3>6 DEF TypeOK, Tables, Content
    <3>8. PICK g : g = Freed OBVIOUS
    <3>9. FilesInv OBVIOUS
    <3> HIDE DEF FilesInv
    <3> QED BY <1>1, <1>2, <1>3, <1>5, <1>8, <2>1, <2>2, <2>3, <3>1, <3>7, <3>8, <3>9, NameGone
  <2>7. CASE f.refcount # 1
    <3>1. PICK r \in 0 .. MaxRefs : r = f.refcount - 1 /\ r # 0
      <4>1. f.refcount \in 1 .. MaxRefs /\ MaxRefs \in Nat BY <1>2, <1>3, EchfsAssumption
      <4>2. f.refcount - 1 \in 0 .. MaxRefs /\ f.refcount - 1 # 0 BY <2>7, <4>1
      <4> QED BY <4>2
    <3> DEFINE g == [f EXCEPT !.unlinked = TRUE, !.refcount = r]
    <3>2. files' = [files EXCEPT ![i] = g] /\ UNCHANGED <<fat, data, written>> BY <1>3, <2>1, <2>7, <3>1
    <3>3. /\ g \in CachedFiles /\ g.unlinked /\ g.refcount = r /\ g.name = f.name /\ g.type = f.type
          /\ g.not_found = f.not_found /\ g.payload = f.payload /\ g.alloc_map = f.alloc_map
          BY DEF CachedFiles
    <3> HIDE DEF g
    <3>4. files' \in [Files -> CachedFiles \cup {Freed}] BY <3>2, <3>3 DEF TypeOK
    <3>5. TypeOK' BY <2>2, <2>4, <2>5, <3>2, <3>4 DEF TypeOK
    <3>6. PICK o \in CachedFiles :
               /\ files' = [files EXCEPT ![i] = o] /\ o.unlinked /\ o.refcount # 0 /\ o.name = f.name /\ o.type = f.type
               /\ o.not_found = f.not_found /\ o.payload = f.payload /\ o.alloc_map = f.alloc_map
          BY <3>1, <3>2, <3>3
    <3>7. PICK u \in OpenHandles : handles' = [handles EXCEPT ![h] = u] /\ u.file = i /\ u.type = handles[h].type
          BY <1>2, <1>5, <2>1
    <3>8. FilesInv OBVIOUS
    <3>9. /\ dir' = [dir EXCEPT ![f.entry] = DELETED] /\ cached_files' = [cached_files EXCEPT ![f.name] = NULL]
          /\ fat' = fat /\ ~f.unlinked /\ f = files[i] /\ handles[h] # NULL /\ handles[h].file = i
          BY <1>1, <1>2, <1>3, <1>8, <2>1, <3>2
    <3>10. h \in Handles /\ i \in FileObjects BY <2>3
    <3> HIDE DEF FilesInv
    <3> QED BY ONLY <2>2, <3>5, <3>6, <3>7, <3>8, <3>9, <3>10, NameGone
  <2> QED BY <2>6, <2>7
<1> QED BY <1>6, <1>7, <1>8 DEF CachedFiles

-----------------------------------------------------------------------------
(***************************************************************************)
(* The theorem                                                              *)
(***************************************************************************)

(* A mounted device with nothing open. *)
LEMMA InitSound == Init => FilesInv
<1> SUFFICES ASSUME Init PROVE FilesInv OBVIOUS
<1>1. CASE Empty BY <1>1, EmptySound
<1>2. CASE ~Empty
  <2>1. PICK n \in Names : dir = [i \in Entries |-> IF i = 1 THEN [name |-> n, type |-> "file", payload |-> 1, size |-> 2] ELSE NULL]
        BY <1>2 DEF Init, Empty
  <2>2. fat = [b \in Blocks |-> IF b = 1 THEN 2 ELSE IF b = 2 THEN END_OF_CHAIN ELSE 0] BY <1>2, <2>1 DEF Init, Empty
  <2>3. /\ data = [b \in Blocks |-> NULL] /\ files = [i \in Files |-> Freed] /\ cached_files = [m \in Names \cup {Root} |-> NULL]
        /\ handles = [h \in Handles |-> NULL] /\ syncing = NULL /\ written = [i \in Files |-> Unwritten]
        BY DEF Init
  <2>4. PICK d \in DirEntries : d.name = n /\ d.type = "file" /\ d.payload = 1 /\ dir = [i \in Entries |-> IF i = 1 THEN d ELSE NULL]
    <3>1. [name |-> n, type |-> "file", payload |-> 1, size |-> 2] \in DirEntries BY DEF DirEntries
    <3> QED BY <2>1, <3>1
  <2>5. 1 \in Entries /\ 1 \in Blocks /\ IsEntry(d) /\ ~IsEntry(NULL)
        BY EchfsAssumption, NullAssumption DEF Entries, Blocks, IsEntry
  <2>6. dir[1] = d /\ \A i \in Entries \ {1} : dir[i] = NULL BY <2>4, <2>5
  <2>7. TypeOK
    <3>1. Unwritten \in [0 .. NBlocks -> Data \cup {NULL}] BY DEF Unwritten
    <3>2. fat \in [Blocks -> 0 .. END_OF_CHAIN] BY <2>2, EchfsAssumption DEF END_OF_CHAIN, Blocks
    <3>3. data \in [Blocks -> Data \cup {NULL}] BY <2>3
    <3>4. dir \in [Entries -> DirEntries \cup {NULL, DELETED}] BY <2>4
    <3>5. files \in [Files -> CachedFiles \cup {Freed}] BY <2>3
    <3>6. cached_files \in [Names \cup {Root} -> Files \cup {NULL}] /\ syncing \in (SUBSET Files) \cup {NULL} BY <2>3
    <3>7. handles \in [Handles -> OpenHandles \cup {NULL}] BY <2>3
    <3>8. written \in [Files -> [0 .. NBlocks -> Data \cup {NULL}]] BY <2>3, <3>1
    <3> QED BY <3>2, <3>3, <3>4, <3>5, <3>6, <3>7, <3>8 DEF TypeOK
  <2>8. Objects = {} /\ FileObjects = {} BY <2>3 DEF Objects, FileObjects
  <2>9. OnlyOnDisk = {1} BY <2>3, <2>4, <2>5, <2>6 DEF OnlyOnDisk
  <2>10. Keys = {<<"disk", 1>>} BY <2>8, <2>9 DEF Keys
  <2>11. BlocksSound
    <3> DEFINE k == <<"disk", 1>>
    <3>1. Starts[k] = 1 BY <2>4, <2>6, <2>10 DEF Starts
    <3>2. PICK s \in Seq(Blocks) : Follows(fat, 1, s) /\ \A b \in Blocks : fat[b] # 0 <=> b \in ToSet(s)
      <4>1. CASE NBlocks = 1
        <5> DEFINE s == <<1>>
        <5>1. Blocks = {1} /\ END_OF_CHAIN = 2 BY <4>1 DEF Blocks, END_OF_CHAIN
        <5>2. s \in Seq(Blocks) /\ Len(s) = 1 /\ s[1] = 1 /\ ToSet(s) = {1} /\ s # <<>> BY <5>1 DEF ToSet
        <5>3. IsInjective(s) BY <5>2 DEF IsInjective
        <5>4. fat[1] = 2 BY <2>2, <2>5
        <5>5. Follows(fat, 1, s) BY <5>1, <5>2, <5>3, <5>4 DEF Follows
        <5>6. \A b \in Blocks : fat[b] # 0 <=> b \in ToSet(s) BY <5>1, <5>2, <5>4
        <5> HIDE DEF s
        <5> QED BY <5>2, <5>5, <5>6
      <4>2. CASE NBlocks # 1
        <5> DEFINE s == <<1, 2>>
        <5>1. 2 \in Blocks /\ 1 \in Blocks BY <4>2, EchfsAssumption DEF Blocks
        <5>2. s \in Seq(Blocks) /\ Len(s) = 2 /\ s[1] = 1 /\ s[2] = 2 /\ s # <<>> BY <5>1
        <5>3. IsInjective(s) /\ ToSet(s) = {1, 2} BY <5>2 DEF IsInjective, ToSet
        <5>4. fat[1] = 2 /\ fat[2] = END_OF_CHAIN /\ \A b \in Blocks \ {1, 2} : fat[b] = 0 BY <2>2, <5>1
        <5>5. Follows(fat, 1, s) BY <5>2, <5>3, <5>4 DEF Follows
        <5>6. \A b \in Blocks : fat[b] # 0 <=> b \in ToSet(s) BY <5>3, <5>4, Ends
        <5> HIDE DEF s
        <5> QED BY <5>2, <5>5, <5>6
      <4> QED BY <4>1, <4>2
    <3> DEFINE M == [x \in {k} |-> s]
    <3>3. Keys = {k} /\ M[k] = s BY <2>10
    <3>4. Follows(fat, Starts[k], M[k]) BY <3>1, <3>2, <3>3
    <3>5. \A b \in Blocks : fat[b] # 0 <=> b \in ToSet(M[k]) BY <3>2, <3>3
    <3> HIDE DEF M, k
    <3>6. Chained(Keys, M, Starts, fat) BY <3>3, <3>4, <3>5 DEF Chained
    <3> QED BY <2>8, <3>6 DEF BlocksSound
  <2>12. ObjectsSound /\ RefsSound BY <2>8 DEF ObjectsSound, RefsSound
  <2>13. NamesSound BY <2>3 DEF NamesSound, AllNames
  <2>14. DirSound
    <3>1. \A c \in Entries : dir[c] # NULL => c = 1 BY <2>6
    <3>2. \A c, e \in Entries : c <= e /\ e = 1 => c = 1 BY DEF Entries
    <3> QED BY <2>5, <3>1, <3>2 DEF DirSound, IsEntry
  <2>15. HandlesSound BY <2>3 DEF HandlesSound
  <2>16. ListSound BY <2>3 DEF ListSound
  <2> QED BY <2>7, <2>11, <2>12, <2>13, <2>14, <2>15, <2>16 DEF FilesInv
<1> QED BY <1>1, <1>2

(* Nothing changes. *)
LEMMA SameSound == FilesInv /\ UNCHANGED vars => FilesInv'
<1> SUFFICES ASSUME FilesInv, UNCHANGED vars PROVE FilesInv' OBVIOUS
<1> USE DEF FilesInv, vars
<1>1. Objects' = Objects BY DEF Objects
<1>2. FileObjects' = FileObjects BY <1>1 DEF FileObjects
<1>3. OnlyOnDisk' = OnlyOnDisk BY DEF OnlyOnDisk
<1>4. Keys' = Keys BY <1>2, <1>3 DEF Keys
<1>5. Starts' = Starts BY <1>4 DEF Starts
<1>6. TypeOK' BY DEF TypeOK
<1>7. BlocksSound' BY <1>2, <1>4, <1>5 DEF BlocksSound
<1>8. ObjectsSound' BY <1>1 DEF ObjectsSound
<1>9. NamesSound' /\ DirSound' /\ HandlesSound' BY DEF NamesSound, DirSound, HandlesSound
<1>10. RefsSound' /\ ListSound' BY <1>1 DEF RefsSound, ListSound, Refs
<1> QED BY <1>6, <1>7, <1>8, <1>9, <1>10

(* Every step keeps the invariant. *)
LEMMA NextSound == FilesInv /\ [Next]_vars => FilesInv'
<1> SUFFICES ASSUME FilesInv, [Next]_vars PROVE FilesInv' OBVIOUS
<1>1. CASE UNCHANGED vars BY <1>1, SameSound
<1>2. ASSUME NEW n \in Names \cup {Root}, NEW flags, echfs_open(n, flags) PROVE FilesInv'
  <2>1. PICK by \in {"program", "unlink"} : by = "program" OBVIOUS
  <2>2. Open(n, flags, by) BY <1>2, <2>1 DEF echfs_open
  <2> QED BY <2>2, OpenSound DEF AllNames
<1>3. ASSUME NEW n \in Names, UnlinkOpen(n) PROVE FilesInv'
  <2>1. PICK by \in {"program", "unlink"}, flags \in {{}} : by = "unlink" /\ flags = {} OBVIOUS
  <2>2. Open(n, flags, by) /\ n \in AllNames BY <1>3, <2>1 DEF UnlinkOpen, AllNames
  <2> QED BY <2>2, OpenSound
<1>4. CASE Deadlock
  <2>1. PICK why : why = "deadlock" OBVIOUS
  <2> QED BY <1>4, <2>1, FailsSound DEF Deadlock
<1>5. ASSUME NEW n \in Dirs, echfs_mkdir(n) PROVE FilesInv'
  <2>1. n \in AllNames BY EchfsAssumption DEF AllNames
  <2> QED BY <1>5, <2>1, MkdirSound
<1>6. ASSUME NEW h \in Handles, UseAfterFree(h) PROVE FilesInv'
  <2>1. PICK why : why = "use_after_free" OBVIOUS
  <2> QED BY <1>6, <2>1, FailsSound DEF UseAfterFree
<1>7. ASSUME NEW h \in Handles, \E val \in Data : echfs_write(h, val) PROVE FilesInv' BY <1>7, WriteSound
<1>8. ASSUME NEW h \in Handles, \E p \in Seeks : echfs_lseek(h, p) PROVE FilesInv' BY <1>8, LseekSound
<1>9. ASSUME NEW h \in Handles, echfs_read(h) PROVE FilesInv' BY <1>9, ReadSound
<1>10. ASSUME NEW h \in Handles, echfs_readdir(h) PROVE FilesInv' BY <1>10, ReaddirSound
<1>11. ASSUME NEW h \in Handles, echfs_dup(h) PROVE FilesInv' BY <1>11, DupSound
<1>12. ASSUME NEW h \in Handles, echfs_close(h) PROVE FilesInv' BY <1>12, CloseSound
<1>13. ASSUME NEW h \in Handles, CloseFreed(h) PROVE FilesInv' BY <1>13, CloseFreedSound
<1>14. ASSUME NEW h \in Handles, echfs_unlink(h) PROVE FilesInv' BY <1>14, UnlinkSound
<1>15. CASE SyncBegin BY <1>15, SyncBeginSound
<1>16. ASSUME NEW i \in Files, synchronise_cached_file(i) PROVE FilesInv' BY <1>16, SynchroniseSound
<1> QED BY <1>1, <1>2, <1>3, <1>4, <1>5, <1>6, <1>7, <1>8, <1>9, <1>10, <1>11, <1>12, <1>13, <1>14, <1>15, <1>16
        DEF Next

(* What the invariant says of the chains, and of the list of echfs_sync. *)
LEMMA InvChains == FilesInv => ChainsSound
<1> SUFFICES ASSUME FilesInv PROVE ChainsSound OBVIOUS
<1> DEFINE of(k) == IF k[1] = "open" THEN files[k[2]].alloc_map ELSE ChainOf(dir[k[2]].payload)
<1>1. PICK M : Chained(Keys, M, Starts, fat) /\ \A i \in FileObjects : M[<<"open", i>>] = files[i].alloc_map
      BY DEF FilesInv, BlocksSound
<1>2. \A b, s : Follows(fat, b, s) => ChainOf(b) = s
  <2> SUFFICES ASSUME NEW b, NEW s, Follows(fat, b, s) PROVE ChainOf(b) = s OBVIOUS
  <2>1. CASE b = END_OF_CHAIN
    <3>1. s # <<>> => s[1] \in Blocks
      <4>1. s \in Seq(Blocks) BY DEF Follows
      <4> QED BY <4>1
    <3> QED BY <2>1, <3>1, Ends DEF Follows, ChainOf
  <2>2. CASE b # END_OF_CHAIN BY <2>2, ChainFound DEF ChainOf
  <2> QED BY <2>1, <2>2
<1>3. ASSUME NEW i \in FileObjects PROVE <<"open", i>> \in Keys /\ of(<<"open", i>>) = M[<<"open", i>>]
      BY <1>1 DEF Keys
<1>4. ASSUME NEW i \in OnlyOnDisk PROVE <<"disk", i>> \in Keys /\ of(<<"disk", i>>) = M[<<"disk", i>>]
  <2>1. <<"disk", i>> \in Keys /\ Starts[<<"disk", i>>] = dir[i].payload BY DEF Keys, Starts
  <2>2. Follows(fat, Starts[<<"disk", i>>], M[<<"disk", i>>]) BY <1>1, <2>1 DEF Chained
  <2> QED BY <1>2, <2>1, <2>2
<1>5. ASSUME NEW k \in Keys PROVE of(k) = M[k] BY <1>3, <1>4 DEF Keys
<1>6. ASSUME NEW i \in FileObjects PROVE files[i].alloc_map = ChainOf(files[i].payload)
  <2>1. Follows(fat, files[i].payload, files[i].alloc_map) BY OpenChain DEF FilesInv
  <2> QED BY <1>2, <2>1
<1> HIDE DEF of
<1>7. \A k \in Keys : IsInjective(of(k)) BY <1>1, <1>5 DEF Chained, Follows
<1>8. \A k, l \in Keys : k # l => ToSet(of(k)) \cap ToSet(of(l)) = {} BY <1>1, <1>5 DEF Chained
<1>9. {b \in Blocks : fat[b] # 0} = UNION {ToSet(of(k)) : k \in Keys}
  <2>1. \A b \in Blocks : fat[b] # 0 <=> \E k \in Keys : b \in ToSet(of(k)) BY <1>1, <1>5 DEF Chained
  <2>2. \A k \in Keys : ToSet(of(k)) \subseteq Blocks
    <3> SUFFICES ASSUME NEW k \in Keys PROVE ToSet(M[k]) \subseteq Blocks BY <1>5
    <3>1. M[k] \in Seq(Blocks) BY <1>1 DEF Chained, Follows
    <3> QED BY <3>1, InSeq
  <2> QED BY <2>1, <2>2
<1> QED BY <1>6, <1>7, <1>8, <1>9 DEF ChainsSound, FilesInv, of, Keys

(* What the invariant says of the list of echfs_sync. *)
LEMMA InvSync == FilesInv => SyncSafe
BY DEF FilesInv, ListSound, SyncSafe, Objects

(* The allocation table of every filesystem is sound, and echfs_sync works on
   objects that are there, after any calls: for any number of blocks, entries,
   names, open files, cached blocks and handles, until the first fault.      *)
THEOREM ChainsAlwaysSound == Spec => [](ChainsSound /\ SyncSafe)
<1>1. Spec => []FilesInv BY InitSound, NextSound, PTL DEF Spec
<1> QED BY <1>1, InvChains, InvSync, PTL

-----------------------------------------------------------------------------
(***************************************************************************)
(* What was written                                                         *)
(***************************************************************************)

(* Slot s of f holds position p. *)
Holds(f, s, p) == f.slots[s].status # "NOTREADY" /\ f.slots[s].block = p

(* The slots of f hold blocks of its chain: as they are on the device dat, if
   they can be transferred, or marked.                                       *)
SlotsKept(f, dat) ==
    \A s \in Slots : f.slots[s].status # "NOTREADY" =>
        /\ f.slots[s].block < Len(f.alloc_map)
        /\ f.slots[s].status = "READY" /\ Reaches(f.alloc_map[f.slots[s].block + 1]) =>
               f.slots[s].val = dat[f.alloc_map[f.slots[s].block + 1]]
        /\ f.slots[s].status = "DIRTY" => f.changed_cache

(* No block is in two slots. *)
SlotsOnce(f) ==
    \A s, t \in Slots : f.slots[s].status # "NOTREADY" /\ Holds(f, t, f.slots[s].block) => s = t

(* What was written, w, is in the slot of the block, or else on the device. *)
InPlace(f, w, dat, p) ==
    /\ \A s \in Slots : Holds(f, s, p) => f.slots[s].val = w[p]
    /\ (\A s \in Slots : ~Holds(f, s, p)) => dat[f.alloc_map[p + 1]] = w[p]
WritesKept(f, w, dat) ==
    \A p \in 0 .. NBlocks : w[p] # NULL =>
        p < Len(f.alloc_map) /\ (Reaches(f.alloc_map[p + 1]) => InPlace(f, w, dat, p))

(* The entry on the device is that of f, unless it is marked. *)
EntryKept(f, d) == ~f.unlinked /\ ~f.changed_entry => d[f.entry] = Entry(f)

BlocksKept(f, w, dat) == SlotsKept(f, dat) /\ SlotsOnce(f) /\ WritesKept(f, w, dat)

DataSound ==
    /\ \A i \in FileObjects : BlocksKept(files[i], written[i], data) /\ EntryKept(files[i], dir)
    /\ \A i \in Files \ FileObjects : written[i] = Unwritten

DataInv == FilesInv /\ DataSound

(* A file with the same chain and slots, when its blocks are left alone. *)
SameBlocks(g, f) == g.slots = f.slots /\ g.alloc_map = f.alloc_map /\ g.changed_cache = f.changed_cache

(* What was written stays when the blocks on the device do. *)
LEMMA BlocksStay ==
    ASSUME NEW f \in CachedFiles, NEW g, SameBlocks(g, f), NEW w, NEW dat, NEW new, BlocksKept(f, w, dat),
           \A b \in ToSet(f.alloc_map) : new[b] = dat[b]
    PROVE  BlocksKept(g, w, new)
<1>1. f.alloc_map \in Seq(Blocks) /\ f.slots \in [Slots -> CachedBlocks] BY DEF CachedFiles
<1>2. PICK m \in Seq(Blocks) : m = f.alloc_map BY <1>1
<1>3. \A p \in Nat : p < Len(m) => new[m[p + 1]] = dat[m[p + 1]]
  <2> SUFFICES ASSUME NEW p \in Nat, p < Len(m) PROVE m[p + 1] \in ToSet(m) BY <1>2
  <2>1. p + 1 \in 1 .. Len(m) OBVIOUS
  <2> QED BY <2>1, InSeq
<1>4. SlotsKept(g, new)
  <2> SUFFICES ASSUME NEW s \in Slots, f.slots[s].status # "NOTREADY"
               PROVE  /\ f.slots[s].block < Len(m)
                      /\ f.slots[s].status = "READY" /\ Reaches(m[f.slots[s].block + 1]) =>
                             f.slots[s].val = new[m[f.slots[s].block + 1]]
                      /\ f.slots[s].status = "DIRTY" => f.changed_cache
      BY <1>2 DEF SlotsKept, SameBlocks
  <2>1. f.slots[s].block \in Nat BY <1>1 DEF CachedBlocks
  <2>2. /\ f.slots[s].block < Len(m)
        /\ f.slots[s].status = "READY" /\ Reaches(m[f.slots[s].block + 1]) =>
               f.slots[s].val = dat[m[f.slots[s].block + 1]]
        /\ f.slots[s].status = "DIRTY" => f.changed_cache
        BY <1>2 DEF BlocksKept, SlotsKept
  <2> QED BY <1>3, <2>1, <2>2
<1>5. SlotsOnce(g) BY DEF BlocksKept, SlotsOnce, SameBlocks, Holds
<1>6. WritesKept(g, w, new)
  <2> SUFFICES ASSUME NEW p \in 0 .. NBlocks, w[p] # NULL
               PROVE  /\ p < Len(m)
                      /\ Reaches(m[p + 1]) =>
                            /\ \A s \in Slots : Holds(f, s, p) => f.slots[s].val = w[p]
                            /\ (\A s \in Slots : ~Holds(f, s, p)) => new[m[p + 1]] = w[p]
      BY <1>2 DEF WritesKept, InPlace, SameBlocks, Holds
  <2>1. /\ p < Len(m)
        /\ Reaches(m[p + 1]) =>
              /\ \A s \in Slots : Holds(f, s, p) => f.slots[s].val = w[p]
              /\ (\A s \in Slots : ~Holds(f, s, p)) => dat[m[p + 1]] = w[p]
        BY <1>2 DEF BlocksKept, WritesKept, InPlace
  <2>2. p \in Nat OBVIOUS
  <2> QED BY <1>3, <2>1, <2>2
<1> QED BY <1>4, <1>5, <1>6 DEF BlocksKept

(* A file nothing was written to, with no slot in use. *)
LEMMA BlocksNew ==
    ASSUME NEW f, f.slots = [s \in Slots |-> NoSlot], NEW dat
    PROVE  BlocksKept(f, Unwritten, dat)
<1>1. \A s \in Slots : f.slots[s].status = "NOTREADY" BY DEF NoSlot
<1>2. \A p \in 0 .. NBlocks : Unwritten[p] = NULL BY DEF Unwritten
<1> QED BY <1>1, <1>2 DEF BlocksKept, SlotsKept, SlotsOnce, WritesKept

(* No block is in two open files. *)
LEMMA Apart ==
    ASSUME FilesInv, NEW i \in FileObjects, NEW j \in FileObjects, i # j
    PROVE  /\ ToSet(files[i].alloc_map) \cap ToSet(files[j].alloc_map) = {}
           /\ \A b \in ToSet(files[j].alloc_map) : b \in Blocks /\ fat[b] # 0
<1>1. PICK M : Chained(Keys, M, Starts, fat) /\ \A x \in FileObjects : M[<<"open", x>>] = files[x].alloc_map
      BY DEF FilesInv, BlocksSound
<1>2. <<"open", i>> \in Keys /\ <<"open", j>> \in Keys /\ <<"open", i>> # <<"open", j>> BY DEF Keys
<1>3. Follows(fat, files[j].payload, files[j].alloc_map) BY OpenChain DEF FilesInv
<1>4. PICK s, b : s = files[j].alloc_map /\ b = files[j].payload OBVIOUS
<1>5. \A x \in ToSet(s) : x \in Blocks /\ fat[x] # 0 BY <1>3, <1>4, ChainUsed
<1> QED BY <1>1, <1>2, <1>4, <1>5 DEF Chained

(* A step that changes only file i, its blocks and its entry. *)
LEMMA DataKept ==
    ASSUME FilesInv, DataSound, NEW i \in Files,
           \A j \in Files \ {i} : files'[j] = files[j] /\ written'[j] = written[j],
           \A j \in FileObjects \ {i} : \A b \in ToSet(files[j].alloc_map) : data'[b] = data[b],
           \A j \in FileObjects \ {i} : ~files[j].unlinked => dir'[files[j].entry] = dir[files[j].entry],
           i \in FileObjects' => BlocksKept(files'[i], written'[i], data') /\ EntryKept(files'[i], dir'),
           i \notin FileObjects' => written'[i] = Unwritten
    PROVE  DataSound'
<1>1. \A j \in Files \ {i} : j \in FileObjects' <=> j \in FileObjects BY DEF FileObjects, Objects
<1>2. ASSUME NEW j \in FileObjects' PROVE BlocksKept(files'[j], written'[j], data') /\ EntryKept(files'[j], dir')
  <2>1. CASE j = i BY <1>2, <2>1
  <2>2. CASE j # i
    <3>1. j \in Files /\ j \in FileObjects /\ files'[j] = files[j] /\ written'[j] = written[j]
          BY <1>1, <1>2, <2>2 DEF FileObjects, Objects
    <3>2. PICK f \in CachedFiles : f = files[j] BY <3>1, Typed DEF FilesInv, FileObjects
    <3>3. PICK w, dat, new : w = written[j] /\ dat = data /\ new = data' OBVIOUS
    <3>4. BlocksKept(f, w, dat) /\ EntryKept(f, dir) BY <3>1, <3>2, <3>3 DEF DataSound
    <3>5. SameBlocks(f, f) /\ \A b \in ToSet(f.alloc_map) : new[b] = dat[b] BY <2>2, <3>1, <3>2, <3>3 DEF SameBlocks
    <3>6. BlocksKept(f, w, new) BY ONLY <3>2, <3>4, <3>5, BlocksStay
    <3>7. EntryKept(f, dir') BY <2>2, <3>1, <3>2, <3>4 DEF EntryKept
    <3> QED BY <3>1, <3>2, <3>3, <3>6, <3>7
  <2> QED BY <2>1, <2>2
<1>3. ASSUME NEW j \in Files, j \notin FileObjects' PROVE written'[j] = Unwritten
      BY <1>1, <1>3 DEF DataSound
<1> QED BY <1>2, <1>3 DEF DataSound

(* The entries of the files other than i, when the directory changes in one
   that is free or has the name of i. *)
LEMMA EntriesKept ==
    ASSUME FilesInv, NEW n \in AllNames, NEW i \in Files, cached_files[n] \in {NULL, i}, NEW e \in Entries,
           \A d \in Entries \ {e} : dir'[d] = dir[d], ~IsEntry(dir[e]) \/ dir[e].name = n
    PROVE  \A j \in FileObjects \ {i} : ~files[j].unlinked => dir'[files[j].entry] = dir[files[j].entry]
<1> SUFFICES ASSUME NEW j \in FileObjects, j # i, ~files[j].unlinked PROVE dir'[files[j].entry] = dir[files[j].entry]
    OBVIOUS
<1>1. PICK f : f = files[j] OBVIOUS
<1>2. j \in Objects /\ j \in Files /\ f.type = "file" /\ ~f.not_found BY <1>1 DEF FileObjects, Objects
<1>3. ObjectSound(j, f, cached_files, dir) BY <1>1, <1>2 DEF FilesInv, ObjectsSound
<1>4. EntryOf(f, f.entry, dir) /\ cached_files[f.name] = j BY <1>1, <1>2, <1>3 DEF ObjectSound
<1>5. f.name # n BY <1>2, <1>4, NullAssumption
<1>6. PICK d \in Entries : d = f.entry /\ IsEntry(dir[d]) /\ dir[d].name # n BY <1>4, <1>5 DEF EntryOf
<1>7. d # e BY <1>6
<1> QED BY <1>1, <1>6, <1>7

(* The blocks of the files other than i, when those of i are freed. *)
LEMMA OthersForgotten ==
    ASSUME FilesInv, NEW i, NEW f, Follows(fat, f.payload, f.alloc_map),
           \A j \in FileObjects \ {i} : ToSet(f.alloc_map) \cap ToSet(files[j].alloc_map) = {}
    PROVE  \A j \in FileObjects \ {i} : \A b \in ToSet(files[j].alloc_map) : Forgotten(f)[b] = data[b]
<1> SUFFICES ASSUME NEW j \in FileObjects, j # i, NEW b \in ToSet(files[j].alloc_map) PROVE Forgotten(f)[b] = data[b]
    OBVIOUS
<1>1. b \in Blocks /\ fat[b] # 0
  <2>1. Follows(fat, files[j].payload, files[j].alloc_map) BY OpenChain DEF FilesInv
  <2>2. PICK s, x : s = files[j].alloc_map /\ x = files[j].payload OBVIOUS
  <2> QED BY <2>1, <2>2, ChainUsed
<1>2. b \notin ToSet(f.alloc_map) OBVIOUS
<1>3. Unchained(f)[b] = fat[b] BY <1>1, <1>2, Typed, UnchainedIs DEF FilesInv
<1> QED BY <1>1, <1>3 DEF Forgotten

(* Nothing happens to files. *)
LEMMA DataQuiet ==
    ASSUME DataSound, UNCHANGED <<data, dir, files, written>>
    PROVE  DataSound'
<1>1. FileObjects' = FileObjects BY DEF FileObjects, Objects
<1> QED BY <1>1 DEF DataSound

(* When nothing is open there is nothing to keep. *)
LEMMA DataEmpty == Empty => DataSound
<1> SUFFICES ASSUME Empty PROVE DataSound OBVIOUS
<1>1. FileObjects = {} BY DEF Empty, FileObjects, Objects
<1> QED BY <1>1 DEF DataSound, Empty

(* A fault ends the model in such a state. *)
LEMMA FailsData ==
    ASSUME NEW why, Fails(why)
    PROVE  DataSound'
<1>1. Empty' BY DEF Fails, Empty
<1> QED BY <1>1, DataEmpty, PTL

(* The fields that tell what a file holds. *)
SameContent(g, f) ==
    /\ SameBlocks(g, f) /\ g.name = f.name /\ g.type = f.type /\ g.not_found = f.not_found /\ g.entry = f.entry
    /\ g.payload = f.payload /\ g.size = f.size /\ g.changed_entry = f.changed_entry

(* An object is used that stays as it is, but for its count and its name. *)
LEMMA DataSame ==
    ASSUME FilesInv, DataSound, NEW i \in Objects, NEW g \in CachedFiles, SameContent(g, files[i]),
           g.unlinked \/ (~files[i].unlinked /\ dir' = dir),
           files' = [files EXCEPT ![i] = g], UNCHANGED <<data, written>>,
           \A j \in FileObjects \ {i} : ~files[j].unlinked => dir'[files[j].entry] = dir[files[j].entry]
    PROVE  DataSound'
<1>1. PICK f \in CachedFiles : f = files[i] BY Typed DEF FilesInv
<1>2. i \in Files /\ files'[i] = g /\ \A j \in Files \ {i} : files'[j] = files[j] BY DEF Objects, FilesInv, TypeOK
<1>3. i \in FileObjects' <=> i \in FileObjects BY <1>2, NotFreed DEF FileObjects, Objects, SameContent
<1>4. ASSUME i \in FileObjects' PROVE BlocksKept(g, written'[i], data') /\ EntryKept(g, dir')
  <2>1. PICK w, dat : w = written[i] /\ dat = data OBVIOUS
  <2>2. BlocksKept(f, w, dat) /\ EntryKept(f, dir) BY <1>1, <1>3, <1>4, <2>1 DEF DataSound
  <2>3. SameBlocks(g, f) BY <1>1 DEF SameContent
  <2>4. BlocksKept(g, w, dat) BY ONLY <1>1, <2>2, <2>3, BlocksStay
  <2>5. EntryKept(g, dir') BY <1>1, <2>2 DEF EntryKept, SameContent, Entry
  <2> QED BY <2>1, <2>4, <2>5
<1>5. i \notin FileObjects' => written'[i] = Unwritten BY <1>2, <1>3 DEF DataSound
<1>6. \A j \in Files \ {i} : files'[j] = files[j] /\ written'[j] = written[j] BY <1>2
<1>7. i \in FileObjects' => BlocksKept(files'[i], written'[i], data') /\ EntryKept(files'[i], dir') BY <1>2, <1>4
<1> QED BY <1>2, <1>5, <1>6, <1>7, DataKept

(* An object is freed, with the blocks of its file. *)
LEMMA DataFreed ==
    ASSUME FilesInv, DataSound, NEW i \in FileObjects, files' = [files EXCEPT ![i] = Freed], data' = Forgotten(files[i]),
           written' = [written EXCEPT ![i] = Unwritten],
           \A j \in FileObjects \ {i} : ~files[j].unlinked => dir'[files[j].entry] = dir[files[j].entry]
    PROVE  DataSound'
<1>1. i \in Files BY DEF FileObjects, Objects
<1>2. /\ files'[i] = Freed /\ written'[i] = Unwritten
      /\ \A j \in Files \ {i} : files'[j] = files[j] /\ written'[j] = written[j]
      BY <1>1 DEF FilesInv, TypeOK
<1>3. i \notin FileObjects' BY <1>2 DEF FileObjects, Objects
<1>4. Follows(fat, files[i].payload, files[i].alloc_map) BY OpenChain DEF FilesInv
<1>5. PICK f : f = files[i] OBVIOUS
<1>a. \A j \in FileObjects \ {i} : ToSet(f.alloc_map) \cap ToSet(files[j].alloc_map) = {} BY <1>5, Apart
<1>6. \A j \in FileObjects \ {i} : \A b \in ToSet(files[j].alloc_map) : Forgotten(f)[b] = data[b]
  <2>1. Follows(fat, f.payload, f.alloc_map) BY <1>4, <1>5
  <2> QED BY ONLY FilesInv, <1>a, <2>1, OthersForgotten
<1>7. \A j \in FileObjects \ {i} : \A b \in ToSet(files[j].alloc_map) : data'[b] = data[b] BY <1>5, <1>6
<1> QED BY <1>1, <1>2, <1>3, <1>7, DataKept

(* echfs_dup. *)
LEMMA DupData ==
    ASSUME FilesInv, DataSound, NEW h \in Handles, echfs_dup(h)
    PROVE  DataSound'
<1>1. handles[h] # NULL /\ files[handles[h].file] # Freed /\ files[handles[h].file].refcount < MaxRefs
      BY DEF echfs_dup, Uses, Dangling
<1>2. PICK i \in Objects : i = handles[h].file /\ files[i].refcount \in 1 .. MaxRefs BY <1>1, Referenced
<1>3. PICK f \in CachedFiles : f = files[i] BY Typed DEF FilesInv
<1>4. PICK r \in 0 .. MaxRefs : r = f.refcount + 1 BY <1>1, <1>2, <1>3, EchfsAssumption
<1>5. PICK g : g = [f EXCEPT !.refcount = r] OBVIOUS
<1>6. files' = [files EXCEPT ![i] = g] /\ UNCHANGED <<data, dir, written>> BY <1>2, <1>3, <1>4, <1>5 DEF echfs_dup
<1>7. g \in CachedFiles /\ SameContent(g, f) /\ g.unlinked = f.unlinked BY <1>5, Counted DEF SameContent, SameBlocks
<1> QED BY <1>3, <1>6, <1>7, DataSame

(* echfs_close. *)
LEMMA CloseData ==
    ASSUME FilesInv, DataSound, NEW h \in Handles, echfs_close(h)
    PROVE  DataSound'
<1>1. handles[h] # NULL /\ files[handles[h].file] # Freed BY DEF echfs_close, Dangling
<1>2. PICK i \in Objects : i = handles[h].file /\ files[i].refcount \in 1 .. MaxRefs
                           /\ ObjectSound(i, files[i], cached_files, dir)
      BY <1>1, Referenced
<1>3. PICK f \in CachedFiles : f = files[i] BY Typed DEF FilesInv
<1>4. Unreferenced(i) /\ dir' = dir BY <1>2 DEF echfs_close
<1>5. CASE f.refcount = 1 /\ f.unlinked
  <2>1. files' = [files EXCEPT ![i] = Freed] /\ data' = Forgotten(files[i]) /\ written' = [written EXCEPT ![i] = Unwritten]
        BY <1>3, <1>4, <1>5 DEF Unreferenced
  <2>2. i \in FileObjects BY <1>2, <1>3, <1>5 DEF FileObjects, ObjectSound
  <2> QED BY <1>4, <2>1, <2>2, DataFreed
<1>6. CASE ~(f.refcount = 1 /\ f.unlinked)
  <2>1. PICK r \in 0 .. MaxRefs : r = f.refcount - 1
    <3>1. f.refcount \in 1 .. MaxRefs /\ MaxRefs \in Nat BY <1>2, <1>3, EchfsAssumption
    <3>2. f.refcount - 1 \in 0 .. MaxRefs BY <3>1
    <3> QED BY <3>2
  <2>2. PICK g : g = [f EXCEPT !.refcount = r] OBVIOUS
  <2>3. files' = [files EXCEPT ![i] = g] /\ UNCHANGED <<data, written>>
        BY <1>3, <1>4, <1>6, <2>1, <2>2 DEF Unreferenced
  <2>4. g \in CachedFiles /\ SameContent(g, f) /\ g.unlinked = f.unlinked BY <2>2, Counted DEF SameContent, SameBlocks
  <2> QED BY <1>3, <1>4, <2>3, <2>4, DataSame
<1> QED BY <1>5, <1>6

(* echfs_unlink. *)
LEMMA UnlinkData ==
    ASSUME FilesInv, DataSound, NEW h \in Handles, echfs_unlink(h)
    PROVE  DataSound'
<1>1. handles[h] # NULL /\ files[handles[h].file] # Freed BY DEF echfs_unlink, Dangling
<1>2. PICK i \in Objects : i = handles[h].file /\ files[i].refcount \in 1 .. MaxRefs
                           /\ ObjectSound(i, files[i], cached_files, dir)
      BY <1>1, Referenced
<1>3. PICK f \in CachedFiles : f = files[i] BY Typed DEF FilesInv
<1>4. CASE f.type = "dir"
  <2>1. UNCHANGED <<data, dir, files, written>> BY <1>2, <1>3, <1>4 DEF echfs_unlink
  <2> QED BY <2>1, DataQuiet
<1>5. CASE f.type = "file" /\ (HtBusy \/ f.unlinked)
  <2>1. Fails("deadlock") \/ Fails("unlinked_twice") BY <1>2, <1>3, <1>5 DEF echfs_unlink
  <2> QED BY <2>1, FailsData
<1>6. CASE f.type = "file" /\ ~HtBusy /\ ~f.unlinked
  <2>1. /\ dir' = [dir EXCEPT ![f.entry] = DELETED]
        /\ IF f.refcount = 1
           THEN /\ files' = [files EXCEPT ![i] = Freed] /\ data' = Forgotten(f)
                /\ written' = [written EXCEPT ![i] = Unwritten]
           ELSE files' = [files EXCEPT ![i].unlinked = TRUE, ![i].refcount = @ - 1] /\ UNCHANGED <<data, written>>
        BY <1>2, <1>3, <1>6 DEF echfs_unlink
  <2>2. i \in FileObjects /\ i \in Files BY <1>2, <1>3, <1>6 DEF FileObjects, ObjectSound, Objects
  <2>3. \A j \in FileObjects \ {i} : ~files[j].unlinked => dir'[files[j].entry] = dir[files[j].entry]
    <3>1. PICK n \in AllNames : n = f.name BY <1>3, NotFreed
    <3>2. cached_files[n] = i /\ EntryOf(f, f.entry, dir)
          BY <1>2, <1>3, <1>6, <3>1 DEF ObjectSound
    <3>3. PICK e \in Entries : e = f.entry /\ dir[e].name = n BY <3>1, <3>2 DEF EntryOf
    <3>4. \A d \in Entries \ {e} : dir'[d] = dir[d] BY <2>1, <3>3 DEF FilesInv, TypeOK
    <3> QED BY <2>2, <3>2, <3>3, <3>4, EntriesKept
  <2>4. CASE f.refcount = 1
    <3>1. files' = [files EXCEPT ![i] = Freed] /\ data' = Forgotten(files[i]) /\ written' = [written EXCEPT ![i] = Unwritten]
          BY <1>3, <2>1, <2>4
    <3> QED BY ONLY FilesInv, DataSound, <2>2, <2>3, <3>1, DataFreed
  <2>5. CASE f.refcount # 1
    <3>1. PICK r \in 0 .. MaxRefs : r = f.refcount - 1
      <4>1. f.refcount \in 1 .. MaxRefs /\ MaxRefs \in Nat BY <1>2, <1>3, EchfsAssumption
      <4>2. f.refcount - 1 \in 0 .. MaxRefs BY <4>1
      <4> QED BY <4>2
    <3> DEFINE g == [f EXCEPT !.unlinked = TRUE, !.refcount = r]
    <3>2. files' = [files EXCEPT ![i] = g] /\ UNCHANGED <<data, written>> BY <1>3, <2>1, <2>5, <3>1
    <3>3. g \in CachedFiles /\ SameContent(g, f) /\ g.unlinked BY DEF CachedFiles, SameContent, SameBlocks
    <3> HIDE DEF g
    <3>4. PICK o \in CachedFiles : files' = [files EXCEPT ![i] = o] /\ SameContent(o, files[i]) /\ o.unlinked
          BY <1>3, <3>2, <3>3
    <3> QED BY ONLY FilesInv, DataSound, i \in Objects, <2>3, <3>2, <3>4, DataSame
  <2> QED BY <2>4, <2>5
<1> QED BY <1>4, <1>5, <1>6 DEF CachedFiles

(* Position p takes slot t, whose block is written first if it is dirty, and
   the chain grows to m. *)
Taken(f, t, p, m, dat, new, g, got) ==
    /\ IsInjective(f.alloc_map) /\ \A s \in Slots : ~Holds(f, s, p)
    /\ new = IF f.slots[t].status = "DIRTY" /\ Reaches(f.alloc_map[f.slots[t].block + 1])
             THEN [dat EXCEPT ![f.alloc_map[f.slots[t].block + 1]] = f.slots[t].val] ELSE dat
    /\ Len(f.alloc_map) <= Len(m) /\ \A j \in 1 .. Len(f.alloc_map) : m[j] = f.alloc_map[j]
    /\ p < Len(m) /\ g.alloc_map = m /\ g.changed_cache = f.changed_cache
    /\ g.slots = [f.slots EXCEPT ![t] = [status |-> "READY", block |-> p, val |-> got]]
    /\ Reaches(m[p + 1]) => got = new[m[p + 1]]

(* The evicted block goes to its place on the device, and nothing else changes. *)
LEMMA SlotTaken ==
    ASSUME NEW f \in CachedFiles, NEW t \in Slots, NEW p \in Nat, NEW m \in Seq(Blocks), NEW dat \in [Blocks -> Content],
           NEW new, NEW g, NEW got, Taken(f, t, p, m, dat, new, g, got), NEW w, BlocksKept(f, w, dat)
    PROVE  /\ BlocksKept(g, w, new) /\ \A b \in Blocks \ ToSet(f.alloc_map) : new[b] = dat[b]
           /\ Holds(g, t, p)
<1> USE DEF Taken
<1>1. PICK map \in Seq(Blocks) : map = f.alloc_map BY DEF CachedFiles
<1>2. f.slots \in [Slots -> CachedBlocks] /\ \A s \in Slots : f.slots[s].block \in Nat BY DEF CachedFiles, CachedBlocks
<1>3. PICK x \in Nat, v \in Content : x = f.slots[t].block /\ v = f.slots[t].val BY DEF CachedFiles, CachedBlocks, Content
<1>4. Len(map) \in Nat /\ Len(m) \in Nat /\ \A q \in Nat : q < Len(map) => q + 1 \in 1 .. Len(map) OBVIOUS
<1>5. g.slots[t] = [status |-> "READY", block |-> p, val |-> got] /\ \A s \in Slots \ {t} : g.slots[s] = f.slots[s]
      BY <1>2
<1>6. /\ Holds(g, t, p) /\ \A q : Holds(g, t, q) => q = p
      /\ g.slots[t].status = "READY" /\ (Reaches(m[p + 1]) => g.slots[t].val = new[m[p + 1]]) /\ g.slots[t].block = p
      BY <1>5 DEF Holds
<1>7. \A s \in Slots \ {t} : \A q : Holds(g, s, q) <=> Holds(f, s, q) BY <1>5 DEF Holds
<1>8. f.slots[t].status = "DIRTY" => x < Len(map) /\ map[x + 1] \in Blocks /\ Holds(f, t, x)
  <2> SUFFICES ASSUME f.slots[t].status = "DIRTY" PROVE x < Len(map) /\ map[x + 1] \in Blocks /\ Holds(f, t, x) OBVIOUS
  <2>1. x < Len(map) BY <1>1, <1>3 DEF BlocksKept, SlotsKept
  <2>2. x + 1 \in 1 .. Len(map) BY <1>4, <2>1
  <2> QED BY <1>3, <2>1, <2>2 DEF Holds
<1>9. ASSUME NEW q \in Nat, q < Len(map), f.slots[t].status = "DIRTY" => q # x
      PROVE  m[q + 1] = map[q + 1] /\ new[m[q + 1]] = dat[map[q + 1]]
  <2>1. q + 1 \in 1 .. Len(map) BY <1>4, <1>9
  <2>2. m[q + 1] = map[q + 1] BY <1>1, <2>1
  <2>3. CASE f.slots[t].status = "DIRTY"
    <3>1. x + 1 \in 1 .. Len(map) BY <1>4, <1>8, <2>3
    <3>2. map[q + 1] # map[x + 1] BY <1>1, <1>9, <2>1, <2>3, <3>1 DEF IsInjective
    <3> QED BY <1>1, <1>3, <2>2, <2>3, <3>2
  <2> QED BY <2>2, <2>3
<1>10. SlotsKept(g, new)
  <2> SUFFICES ASSUME NEW s \in Slots, g.slots[s].status # "NOTREADY"
               PROVE  /\ g.slots[s].block < Len(m)
                      /\ g.slots[s].status = "READY" /\ Reaches(m[g.slots[s].block + 1]) =>
                             g.slots[s].val = new[m[g.slots[s].block + 1]]
                      /\ g.slots[s].status = "DIRTY" => g.changed_cache
      BY DEF SlotsKept
  <2>1. CASE s = t BY <1>6, <2>1
  <2>2. CASE s # t
    <3>1. PICK q \in Nat : q = f.slots[s].block BY <1>2
    <3>2. g.slots[s] = f.slots[s] BY <1>5, <2>2
    <3>3. /\ q < Len(map)
          /\ f.slots[s].status = "READY" /\ Reaches(map[q + 1]) => f.slots[s].val = dat[map[q + 1]]
          /\ f.slots[s].status = "DIRTY" => f.changed_cache
          BY <1>1, <3>1, <3>2 DEF BlocksKept, SlotsKept
    <3>4. f.slots[t].status = "DIRTY" => q # x
      <4>1. SlotsOnce(f) BY DEF BlocksKept
      <4> QED BY <1>8, <2>2, <3>1, <3>2, <4>1 DEF SlotsOnce
    <3>5. m[q + 1] = map[q + 1] /\ new[m[q + 1]] = dat[map[q + 1]] BY <1>9, <3>3, <3>4
    <3>6. q < Len(m) BY <1>1, <1>4, <3>3
    <3>7. g.slots[s].status = "DIRTY" => g.changed_cache BY <3>2, <3>3
    <3>8. g.slots[s].block = q BY <3>1, <3>2
    <3>9. g.slots[s].status = "READY" /\ Reaches(m[q + 1]) => g.slots[s].val = new[m[q + 1]] BY ONLY <3>2, <3>3, <3>5
    <3> QED BY ONLY <3>6, <3>7, <3>8, <3>9
  <2> QED BY <2>1, <2>2
<1>11. SlotsOnce(g)
  <2> SUFFICES ASSUME NEW s \in Slots, NEW u \in Slots, g.slots[s].status # "NOTREADY", Holds(g, u, g.slots[s].block)
               PROVE  s = u
      BY DEF SlotsOnce
  <2>1. CASE s = t BY <1>6, <1>7, <2>1
  <2>2. CASE s # t /\ u = t
    <3>1. Holds(f, s, p) BY <1>5, <1>6, <2>2 DEF Holds
    <3> QED BY <3>1
  <2>3. CASE s # t /\ u # t
    <3>1. f.slots[s].status # "NOTREADY" /\ Holds(f, u, f.slots[s].block) BY <1>5, <1>7, <2>3
    <3> QED BY <3>1 DEF BlocksKept, SlotsOnce
  <2> QED BY <2>1, <2>2, <2>3
<1>12. WritesKept(g, w, new)
  <2> SUFFICES ASSUME NEW q \in 0 .. NBlocks, w[q] # NULL
               PROVE  q < Len(m) /\ (Reaches(m[q + 1]) => InPlace(g, w, new, q))
      BY DEF WritesKept
  <2>7. q < Len(map) /\ (Reaches(map[q + 1]) => InPlace(f, w, dat, q)) BY <1>1 DEF BlocksKept, WritesKept
  <2>2. q \in Nat OBVIOUS
  <2>3. q < Len(m) /\ m[q + 1] = map[q + 1]
    <3>1. q + 1 \in 1 .. Len(map) BY <1>4, <2>2, <2>7
    <3> QED BY <1>1, <1>4, <2>2, <2>7, <3>1
  <2> SUFFICES ASSUME Reaches(m[q + 1]) PROVE InPlace(g, w, new, q) BY <2>3
  <2>1. /\ q < Len(map)
        /\ \A s \in Slots : Holds(f, s, q) => f.slots[s].val = w[q]
        /\ (\A s \in Slots : ~Holds(f, s, q)) => dat[map[q + 1]] = w[q]
        BY <1>1, <2>3, <2>7 DEF InPlace
  <2>4. (\A s \in Slots : ~Holds(f, s, q)) => new[m[q + 1]] = w[q]
    <3> SUFFICES ASSUME \A s \in Slots : ~Holds(f, s, q) PROVE new[m[q + 1]] = w[q] OBVIOUS
    <3>1. f.slots[t].status = "DIRTY" => q # x BY <1>8
    <3> QED BY <1>9, <2>1, <2>2, <3>1
  <2>5. ASSUME NEW s \in Slots, Holds(g, s, q) PROVE g.slots[s].val = w[q]
    <3>1. CASE s = t
      <4>1. q = p BY <1>6, <2>5, <3>1
      <4> QED BY <1>6, <2>4, <3>1, <4>1
    <3>2. CASE s # t BY <1>5, <1>7, <2>1, <2>5, <3>2
    <3> QED BY <3>1, <3>2
  <2>6. ASSUME \A s \in Slots : ~Holds(g, s, q) PROVE new[m[q + 1]] = w[q]
    <3>1. \A s \in Slots \ {t} : ~Holds(f, s, q) BY <1>7, <2>6
    <3>2. CASE ~Holds(f, t, q) BY <2>4, <3>1, <3>2
    <3>3. CASE Holds(f, t, q)
      <4>1. q = x /\ v = w[q] /\ f.slots[t].status # "NOTREADY" BY <1>3, <2>1, <3>3 DEF Holds
      <4>2. q + 1 \in 1 .. Len(map) /\ m[q + 1] = map[q + 1] /\ map[q + 1] \in Blocks
        <5>1. q + 1 \in 1 .. Len(map) BY <1>4, <2>1, <2>2
        <5> QED BY <1>1, <5>1
      <4>3. CASE f.slots[t].status = "DIRTY"
        <5>1. new = [dat EXCEPT ![map[x + 1]] = v] BY <1>1, <1>3, <2>3, <4>1, <4>3
        <5> QED BY <4>1, <4>2, <5>1
      <4>4. CASE f.slots[t].status = "READY"
        <5>1. v = dat[map[x + 1]] BY <1>1, <1>3, <2>3, <4>1, <4>4 DEF BlocksKept, SlotsKept
        <5>2. new = dat BY <4>4
        <5> QED BY <4>1, <4>2, <5>1, <5>2
      <4> QED BY <1>2, <4>1, <4>3, <4>4 DEF CachedBlocks
    <3> QED BY <3>2, <3>3
  <2>8. g.alloc_map = m OBVIOUS
  <2> QED BY <2>5, <2>6, <2>8 DEF InPlace
<1>13. ASSUME NEW b \in Blocks, b \notin ToSet(map) PROVE new[b] = dat[b]
  <2>1. CASE f.slots[t].status = "DIRTY"
    <3>1. x + 1 \in 1 .. Len(map) BY <1>4, <1>8, <2>1
    <3>2. map[x + 1] \in ToSet(map) BY <3>1, InSeq
    <3> QED BY <1>1, <1>3, <1>13, <2>1, <3>2
  <2> QED BY <2>1
<1> QED BY <1>1, <1>6, <1>10, <1>11, <1>12, <1>13 DEF BlocksKept

(* File g is f after position p has been brought in, with device new; what was
   written, w, has stayed. *)
Brought(g, f, p, w, new) ==
    /\ SameFile(g, f) /\ g.size = f.size /\ BlocksKept(g, w, new) /\ find_block(g, p) # {}
    /\ ~g.changed_entry => ~f.changed_entry /\ g.payload = f.payload
    /\ \A b \in Blocks \ ToSet(f.alloc_map) : new[b] = data[b]

(* cache_block keeps what was written, with the block in a slot. *)
LEMMA CachedData ==
    ASSUME FilesInv, NEW i \in FileObjects, NEW f, f = files[i], NEW p \in Nat, ~TableFull(f, p), NEW c, c = Cached(f, p),
           NEW w, BlocksKept(f, w, data)
    PROVE  \E g \in CachedFiles : g = c.file /\ Brought(g, f, p, w, c.data)
<1>1. f \in CachedFiles BY Typed DEF FilesInv, FileObjects
<1>2. Follows(fat, f.payload, f.alloc_map) /\ f.payload = StartsAt(f.alloc_map) BY OpenChain DEF FilesInv
<1>3. fat \in Tables /\ data \in [Blocks -> Content] BY Typed DEF FilesInv
<1>4. CASE find_block(f, p) # {}
  <2>1. c = [file |-> f, fat |-> fat, data |-> data] BY <1>4 DEF Cached
  <2>2. c.file = f /\ c.data = data BY <2>1
  <2>3. SameFile(f, f) BY <1>1 DEF SameFile
  <2>4. Brought(f, f, p, w, data) BY <1>4, <2>3 DEF Brought
  <2> QED BY <1>1, <2>2, <2>4
<1>5. CASE find_block(f, p) = {}
  <2>1. c = cache_block(f, p) BY <1>5 DEF Cached
  <2>2. PICK k \in Nat : k = Missing(f, p) BY <1>1, MissingIs
  <2>3. k <= Cardinality(FreeBlocks(fat))
    <3>1. IsFiniteSet(Blocks) BY Ends, FS_Interval DEF Blocks
    <3>2. PICK S \in SUBSET Blocks : S = FreeBlocks(fat) BY DEF FreeBlocks
    <3>3. Cardinality(S) \in Nat BY <3>1, FS_Subset, FS_CardinalityType
    <3>4. ~(k > Cardinality(S)) BY <1>5, <2>2, <3>2 DEF TableFull
    <3> QED BY <3>2, <3>3, <3>4
  <2>4. PICK e : e = Extended(f.alloc_map, k) OBVIOUS
  <2>5. PICK g, t, val, dat, new : /\ g = c.file /\ t = Target(f) /\ val = devfs_read(Evicted(f), e.map[p + 1], f.slots[t].val)
                                   /\ dat = data /\ new = Evicted(f)
        OBVIOUS
  <2>6. /\ Grown(fat, f.alloc_map, k, e) /\ p + 1 \in 1 .. Len(e.map) /\ SameFile(g, f) /\ g.size = f.size
        /\ g.changed_cache = f.changed_cache /\ g.changed_entry = (f.changed_entry \/ f.alloc_map = <<>>)
        /\ g.alloc_map = e.map /\ g.payload = StartsAt(e.map)
        /\ g.slots = [f.slots EXCEPT ![t] = [status |-> "READY", block |-> p, val |-> val]] /\ c.data = new
    <3>1. Missing(f, p) <= Cardinality(FreeBlocks(fat)) BY <2>2, <2>3
    <3>2. LET x == cache_block(f, p)
              y == x.file
              z == Extended(f.alloc_map, Missing(f, p))
          IN  /\ Grown(fat, f.alloc_map, Missing(f, p), z) /\ p + 1 \in 1 .. Len(z.map)
              /\ y \in CachedFiles /\ y.name = f.name /\ y.refcount = f.refcount /\ y.unlinked = f.unlinked
              /\ y.type = f.type /\ y.not_found = f.not_found /\ y.entry = f.entry /\ y.size = f.size
              /\ y.changed_cache = f.changed_cache /\ y.changed_entry = (f.changed_entry \/ f.alloc_map = <<>>)
              /\ y.alloc_map = z.map /\ y.payload = StartsAt(z.map)
              /\ y.slots = [f.slots EXCEPT ![Target(f)] =
                               [status |-> "READY", block |-> p,
                                val |-> devfs_read(Evicted(f), z.map[p + 1], f.slots[Target(f)].val)]]
              /\ x.data = Evicted(f)
          BY ONLY <1>1, <1>2, <1>3, <3>1, CacheBlockIs
    <3> QED BY <2>1, <2>2, <2>4, <2>5, <3>2 DEF SameFile
  <2>7. PICK m \in Seq(Blocks), map \in Seq(Blocks) : m = e.map /\ map = f.alloc_map BY <1>1, <2>6 DEF Grown, Chains, CachedFiles
  <2>8. Len(m) = Len(map) + k /\ \A j \in 1 .. Len(map) : m[j] = map[j] BY <2>6, <2>7 DEF Grown
  <2>9. Len(map) <= Len(m) /\ p < Len(m) BY <2>6, <2>7, <2>8
  <2>10. IsInjective(map) BY <1>2, <2>7 DEF Follows
  <2>11. t \in Slots /\ \A s \in Slots : ~Holds(f, s, p) BY <1>1, <1>5, <2>5, TargetIs DEF find_block, Holds
  <2>13. Reaches(m[p + 1]) => val = new[m[p + 1]] BY <2>5, <2>7 DEF devfs_read
  <2>14. new = IF f.slots[t].status = "DIRTY" /\ Reaches(f.alloc_map[f.slots[t].block + 1])
               THEN [dat EXCEPT ![f.alloc_map[f.slots[t].block + 1]] = f.slots[t].val] ELSE dat
    <3>1. CASE f.slots[t].status = "DIRTY"
      <4>1. EmptySlots(f) = {} BY <1>1, <2>5, <3>1, TargetIs
      <4>2. PICK x \in Nat : x = f.slots[t].block BY <1>1, <2>11 DEF CachedFiles, CachedBlocks
      <4>3. x < Len(map) BY <2>7, <2>11, <3>1, <4>2 DEF BlocksKept, SlotsKept
      <4>4. x + 1 \in 1 .. Len(map) BY <4>3
      <4>5. PICK b \in Blocks : b = map[x + 1] BY <4>4
      <4>6. new = devfs_write(data, b, f.slots[t].val) BY <2>5, <2>7, <3>1, <4>1, <4>2, <4>5 DEF Evicted
      <4> QED BY <2>5, <2>7, <3>1, <4>2, <4>5, <4>6 DEF devfs_write
    <3>2. CASE f.slots[t].status # "DIRTY" BY <2>5, <3>2 DEF Evicted
    <3> QED BY <3>1, <3>2
  <2>15. /\ g.slots = [f.slots EXCEPT ![t] = [status |-> "READY", block |-> p, val |-> val]]
         /\ g.alloc_map = m /\ g.changed_cache = f.changed_cache
         BY <2>6, <2>7
  <2>16. dat \in [Blocks -> Content] /\ BlocksKept(f, w, dat) BY <1>3, <2>5
  <2>17. IsInjective(f.alloc_map) /\ Len(f.alloc_map) <= Len(m) /\ \A j \in 1 .. Len(f.alloc_map) : m[j] = f.alloc_map[j]
         BY <2>7, <2>8, <2>9, <2>10
  <2>22. Taken(f, t, p, m, dat, new, g, val) BY <2>9, <2>11, <2>13, <2>14, <2>15, <2>17 DEF Taken
  <2>18. /\ BlocksKept(g, w, new) /\ \A b \in Blocks \ ToSet(f.alloc_map) : new[b] = dat[b]
         /\ Holds(g, t, p)
         BY <1>1, <2>11, <2>16, <2>22, SlotTaken
  <2>19. ~g.changed_entry => ~f.changed_entry /\ g.payload = f.payload
    <3> SUFFICES ASSUME ~g.changed_entry PROVE ~f.changed_entry /\ g.payload = f.payload OBVIOUS
    <3>1. map # <<>> /\ ~f.changed_entry BY <2>6, <2>7
    <3>2. 1 \in 1 .. Len(map) /\ m # <<>> BY <2>8, <2>9, <3>1
    <3> QED BY <1>2, <2>6, <2>7, <2>8, <3>1, <3>2 DEF StartsAt
  <2>20. find_block(g, p) # {} BY <2>11, <2>18 DEF find_block, Holds
  <2>21. g \in CachedFiles BY <2>6 DEF SameFile
  <2>23. Brought(g, f, p, w, new) BY <2>5, <2>6, <2>18, <2>19, <2>20 DEF Brought
  <2> QED BY <2>5, <2>6, <2>21, <2>23
<1> QED BY <1>4, <1>5

(* A value is written into the slot of its block. *)
LEMMA StoredKept ==
    ASSUME NEW f \in CachedFiles, NEW p \in Nat, NEW val \in Data, NEW end \in Nat, NEW s, NEW g, StoredAs(g, f, p, val, end, s),
           NEW w \in [0 .. NBlocks -> Data \cup {NULL}], NEW dat, BlocksKept(f, w, dat),
           NEW u, u = [w EXCEPT ![p] = val]
    PROVE  BlocksKept(g, u, dat)
<1>1. s \in Slots /\ Holds(f, s, p) /\ g.alloc_map = f.alloc_map /\ g.changed_cache BY DEF StoredAs, find_block, Holds
<1>2. f.slots \in [Slots -> CachedBlocks] BY DEF CachedFiles
<1>3. g.slots[s] = [status |-> "DIRTY", block |-> p, val |-> val] /\ \A t \in Slots \ {s} : g.slots[t] = f.slots[t]
      BY <1>1, <1>2 DEF StoredAs
<1>4. g.slots[s].status = "DIRTY" /\ g.slots[s].block = p /\ g.slots[s].val = val BY <1>3
<1>5. \A t \in Slots : \A q : Holds(g, t, q) <=> Holds(f, t, q) BY <1>1, <1>3, <1>4 DEF Holds
<1>6. p < Len(f.alloc_map) BY <1>1 DEF BlocksKept, SlotsKept, Holds
<1>7. \A t \in Slots : Holds(f, t, p) => t = s BY <1>1 DEF BlocksKept, SlotsOnce, Holds
<1>8. SlotsKept(g, dat)
  <2> SUFFICES ASSUME NEW t \in Slots, g.slots[t].status # "NOTREADY"
               PROVE  /\ g.slots[t].block < Len(f.alloc_map)
                      /\ g.slots[t].status = "READY" /\ Reaches(f.alloc_map[g.slots[t].block + 1]) =>
                             g.slots[t].val = dat[f.alloc_map[g.slots[t].block + 1]]
                      /\ g.slots[t].status = "DIRTY" => g.changed_cache
      BY <1>1 DEF SlotsKept
  <2>1. CASE t = s BY <1>1, <1>4, <1>6, <2>1
  <2>2. CASE t # s
    <3>1. g.slots[t] = f.slots[t] BY <1>3, <2>2
    <3> QED BY <1>1, <3>1 DEF BlocksKept, SlotsKept
  <2> QED BY <2>1, <2>2
<1>9. SlotsOnce(g)
  <2> SUFFICES ASSUME NEW t \in Slots, NEW x \in Slots, g.slots[t].status # "NOTREADY", Holds(g, x, g.slots[t].block)
               PROVE  t = x
      BY DEF SlotsOnce
  <2>1. CASE t = s BY <1>4, <1>5, <1>7, <2>1
  <2>2. CASE t # s
    <3>1. f.slots[t].status # "NOTREADY" /\ Holds(f, x, f.slots[t].block) BY <1>3, <1>5, <2>2
    <3> QED BY <3>1 DEF BlocksKept, SlotsOnce
  <2> QED BY <2>1, <2>2
<1>10. WritesKept(g, u, dat)
  <2> SUFFICES ASSUME NEW q \in 0 .. NBlocks, u[q] # NULL
               PROVE  /\ q < Len(f.alloc_map)
                      /\ Reaches(f.alloc_map[q + 1]) =>
                            /\ \A t \in Slots : Holds(g, t, q) => g.slots[t].val = u[q]
                            /\ (\A t \in Slots : ~Holds(g, t, q)) => dat[f.alloc_map[q + 1]] = u[q]
      BY <1>1 DEF WritesKept, InPlace
  <2>1. CASE q = p
    <3>1. u[q] = val BY <2>1
    <3> QED BY <1>1, <1>4, <1>5, <1>6, <1>7, <2>1, <3>1
  <2>2. CASE q # p
    <3>1. u[q] = w[q] BY <2>2
    <3>2. /\ q < Len(f.alloc_map)
          /\ Reaches(f.alloc_map[q + 1]) =>
                /\ \A t \in Slots : Holds(f, t, q) => f.slots[t].val = w[q]
                /\ (\A t \in Slots : ~Holds(f, t, q)) => dat[f.alloc_map[q + 1]] = w[q]
          BY <3>1 DEF BlocksKept, WritesKept, InPlace
    <3>3. ASSUME Reaches(f.alloc_map[q + 1]), NEW t \in Slots, Holds(g, t, q) PROVE g.slots[t].val = u[q]
      <4>1. Holds(f, t, q) /\ t # s BY <1>1, <1>5, <2>2, <3>3 DEF Holds
      <4> QED BY <1>3, <3>1, <3>2, <3>3, <4>1
    <3> QED BY <1>5, <3>1, <3>2, <3>3
  <2> QED BY <2>1, <2>2
<1> QED BY <1>8, <1>9, <1>10 DEF BlocksKept

(* A file that is read or written: dat is the device after it. *)
LEMMA DataUsed ==
    ASSUME FilesInv, DataSound, NEW i \in FileObjects, NEW g \in CachedFiles, SameFile(g, files[i]),
           files' = [files EXCEPT ![i] = g], dir' = dir, NEW u, written' = [written EXCEPT ![i] = u], NEW dat, data' = dat,
           BlocksKept(g, u, dat), ~g.changed_entry => ~files[i].changed_entry /\ Entry(g) = Entry(files[i]),
           \A b \in Blocks \ ToSet(files[i].alloc_map) : dat[b] = data[b]
    PROVE  DataSound'
<1>1. i \in Files BY DEF FileObjects, Objects
<1>2. /\ files'[i] = g /\ written'[i] = u
      /\ \A j \in Files \ {i} : files'[j] = files[j] /\ written'[j] = written[j]
      BY <1>1 DEF FilesInv, TypeOK
<1>3. \A j \in FileObjects \ {i} : \A b \in ToSet(files[j].alloc_map) : data'[b] = data[b]
  <2> SUFFICES ASSUME NEW j \in FileObjects, j # i, NEW b \in ToSet(files[j].alloc_map) PROVE data'[b] = data[b] OBVIOUS
  <2>1. b \in Blocks /\ b \notin ToSet(files[i].alloc_map) BY Apart
  <2> QED BY <2>1
<1>4. EntryKept(files[i], dir) BY DEF DataSound
<1>5. EntryKept(g, dir') BY <1>4 DEF EntryKept, SameFile
<1>6. i \in FileObjects' BY <1>1, <1>2, NotFreed DEF FileObjects, Objects, SameFile
<1>7. i \in FileObjects' => BlocksKept(files'[i], written'[i], data') /\ EntryKept(files'[i], dir') BY <1>2, <1>5
<1> QED BY <1>1, <1>2, <1>3, <1>6, <1>7, DataKept

(* echfs_read. *)
LEMMA ReadData ==
    ASSUME FilesInv, DataSound, NEW h \in Handles, echfs_read(h)
    PROVE  DataSound'
<1>1. handles[h] # NULL /\ ~Dangling(h) /\ handles[h].type = "file" BY DEF echfs_read, Uses
<1>2. PICK i \in FileObjects : i = handles[h].file BY <1>1, HandleFile
<1>3. handles[h] \in OpenHandles BY <1>1, HandleFile
<1>4. PICK p \in Nat : p = handles[h].ptr BY <1>3 DEF OpenHandles
<1>5. PICK f, c : f = files[i] /\ c = Cached(f, p) OBVIOUS
<1>9. PICK seen \in Seen(h) :
         IF seen > handles[h].end THEN Fails("count_underflow")
         ELSE IF TableFull(f, p) THEN Fails("table_full")
         ELSE /\ files' = [files EXCEPT ![i] = c.file] /\ fat' = c.fat /\ data' = c.data
              /\ handles' = [handles EXCEPT ![h].ptr = @ + 1] /\ UNCHANGED <<dir, cached_files, syncing, written, fault>>
      BY <1>2, <1>4, <1>5 DEF echfs_read
<1>6. CASE seen > handles[h].end \/ TableFull(f, p)
  <2>1. Fails("count_underflow") \/ Fails("table_full") BY <1>6, <1>9
  <2> QED BY <2>1, FailsData
<1>7. CASE ~(seen > handles[h].end \/ TableFull(f, p))
  <2>1. files' = [files EXCEPT ![i] = c.file] /\ data' = c.data /\ dir' = dir /\ written' = written
        BY <1>7, <1>9
  <2>2. PICK w, dat : w = written[i] /\ dat = c.data OBVIOUS
  <2>3. BlocksKept(f, w, data) BY <1>5, <2>2 DEF DataSound
  <2>4. PICK g \in CachedFiles : g = c.file /\ Brought(g, f, p, w, c.data) BY <1>5, <1>7, <2>3, CachedData
  <2>5. written' = [written EXCEPT ![i] = w] /\ i \in Files BY <2>1, <2>2 DEF FilesInv, TypeOK, FileObjects, Objects
  <2>6. ~g.changed_entry => ~files[i].changed_entry /\ Entry(g) = Entry(files[i]) BY <1>5, <2>4 DEF Entry, SameFile, Brought
  <2>7. SameFile(g, files[i]) /\ BlocksKept(g, w, dat) /\ \A b \in Blocks \ ToSet(files[i].alloc_map) : dat[b] = data[b]
        BY <1>5, <2>2, <2>4 DEF Brought
  <2>8. files' = [files EXCEPT ![i] = g] /\ data' = dat /\ dir' = dir BY <2>1, <2>2, <2>4
  <2> QED BY ONLY FilesInv, DataSound, i \in FileObjects, g \in CachedFiles, <2>5, <2>6, <2>7, <2>8, DataUsed
<1> QED BY <1>6, <1>7

(* echfs_write. *)
LEMMA WriteData ==
    ASSUME FilesInv, DataSound, NEW h \in Handles, NEW val \in Data, echfs_write(h, val)
    PROVE  DataSound'
<1>1. handles[h] # NULL /\ ~Dangling(h) /\ handles[h].type = "file" BY DEF echfs_write, Uses
<1>2. PICK i \in FileObjects : i = handles[h].file BY <1>1, HandleFile
<1>3. handles[h] \in OpenHandles BY <1>1, HandleFile
<1>4. PICK end \in Nat, p \in Nat : end = handles[h].end /\ p = IF "APPEND" \in handles[h].flags THEN end ELSE handles[h].ptr
      BY <1>3 DEF OpenHandles
<1>5. PICK f, c : f = files[i] /\ c = Cached(f, p) OBVIOUS
<1>6. CASE TableFull(f, p)
  <2>1. Fails("table_full") BY <1>2, <1>4, <1>5, <1>6 DEF echfs_write
  <2> QED BY <2>1, FailsData
<1>7. CASE ~TableFull(f, p)
  <2>1. i \in Files BY DEF FileObjects, Objects
  <2>2. PICK g : g = Stored(c.file, p, val, end) OBVIOUS
  <2>3. files' = [files EXCEPT ![i] = g] /\ data' = c.data /\ dir' = dir /\ written' = [written EXCEPT ![i][p] = val]
        BY <1>2, <1>4, <1>5, <1>7, <2>2 DEF echfs_write
  <2>4. PICK w \in [0 .. NBlocks -> Data \cup {NULL}] : w = written[i] BY <2>1 DEF FilesInv, TypeOK
  <2>5. PICK dat, u : dat = c.data /\ u = [w EXCEPT ![p] = val] OBVIOUS
  <2>6. BlocksKept(f, w, data) BY <1>5, <2>4 DEF DataSound
  <2>7. PICK x \in CachedFiles : x = c.file /\ Brought(x, f, p, w, c.data) BY <1>5, <1>7, <2>6, CachedData
  <2>8. PICK s : StoredAs(g, x, p, val, end, s) BY <2>2, <2>7, StoredIs DEF Brought
  <2>9. BlocksKept(x, w, dat) BY <2>5, <2>7 DEF Brought
  <2>10. BlocksKept(g, u, dat) BY <2>5, <2>8, <2>9, StoredKept
  <2>11. SameFile(g, files[i]) /\ g \in CachedFiles
    <3>1. SameFile(g, x) BY <2>8 DEF StoredAs
    <3> QED BY <1>5, <2>7, <3>1 DEF SameFile, Brought
  <2>12. ~g.changed_entry => ~files[i].changed_entry /\ Entry(g) = Entry(files[i])
    <3>1. SameFile(g, f) BY <1>5, <2>11
    <3>2. ~g.changed_entry => ~x.changed_entry /\ g.payload = x.payload /\ g.size = x.size BY <2>8 DEF StoredAs
    <3> QED BY <1>5, <2>7, <3>1, <3>2 DEF Entry, SameFile, Brought
  <2>13. written' = [written EXCEPT ![i] = u] BY <2>3, <2>4, <2>5
  <2>14. \A b \in Blocks \ ToSet(files[i].alloc_map) : dat[b] = data[b] BY <1>5, <2>5, <2>7 DEF Brought
  <2>15. files' = [files EXCEPT ![i] = g] /\ data' = dat /\ dir' = dir BY <2>3, <2>5
  <2> QED BY ONLY FilesInv, DataSound, i \in FileObjects, <2>10, <2>11, <2>12, <2>13, <2>14, <2>15, DataUsed
<1> QED BY <1>6, <1>7

(* The dirty blocks of a file are written. *)
LEMMA FlushedKept ==
    ASSUME data \in [Blocks -> Content], NEW f \in CachedFiles, IsInjective(f.alloc_map), NEW w, BlocksKept(f, w, data),
           NEW new, new = Flushed(f), NEW blocks, blocks = TRUE, NEW g, CleanAs(g, f, blocks)
    PROVE  BlocksKept(g, w, new) /\ \A b \in Blocks \ ToSet(f.alloc_map) : new[b] = data[b]
<1>1. PICK map \in Seq(Blocks) : map = f.alloc_map BY DEF CachedFiles
<1>2. f.slots \in [Slots -> CachedBlocks] /\ \A s \in Slots : f.slots[s].block \in Nat BY DEF CachedFiles, CachedBlocks
<1>3. Len(map) \in Nat /\ \A q \in Nat : q < Len(map) => q + 1 \in 1 .. Len(map) OBVIOUS
<1> DEFINE mine(b) == {s \in Slots : f.slots[s].status = "DIRTY" /\ map[f.slots[s].block + 1] = b}
<1>4. ASSUME NEW b \in Blocks
      PROVE  /\ mine(b) = {} => new[b] = data[b]
             /\ mine(b) # {} => \E s \in mine(b) : Reaches(b) => new[b] = f.slots[s].val
      BY <1>1, FlushedIs
<1>5. ASSUME NEW s \in Slots, f.slots[s].status # "NOTREADY"
      PROVE  /\ f.slots[s].block < Len(map) /\ f.slots[s].block + 1 \in 1 .. Len(map)
             /\ map[f.slots[s].block + 1] \in Blocks /\ map[f.slots[s].block + 1] \in ToSet(map)
  <2>1. f.slots[s].block < Len(map) BY <1>1, <1>5 DEF BlocksKept, SlotsKept
  <2>2. f.slots[s].block + 1 \in 1 .. Len(map) BY <1>2, <1>3, <2>1
  <2> QED BY <2>1, <2>2, InSeq
<1>6. ASSUME NEW q \in Nat, q < Len(map), NEW t \in mine(map[q + 1]) PROVE Holds(f, t, q)
  <2>1. q + 1 \in 1 .. Len(map) BY <1>3, <1>6
  <2>2. f.slots[t].status = "DIRTY" /\ map[f.slots[t].block + 1] = map[q + 1] /\ t \in Slots BY <1>6
  <2>3. f.slots[t].block + 1 \in 1 .. Len(map) /\ f.slots[t].block \in Nat BY <1>2, <1>5, <2>2
  <2>4. f.slots[t].block + 1 = q + 1 BY <1>1, <2>1, <2>2, <2>3 DEF IsInjective
  <2> QED BY <2>2, <2>3, <2>4 DEF Holds
<1>7. ASSUME NEW q \in Nat, q < Len(map), \A s \in Slots : ~Holds(f, s, q) PROVE new[map[q + 1]] = data[map[q + 1]]
  <2>1. map[q + 1] \in Blocks BY <1>3, <1>7
  <2>2. mine(map[q + 1]) = {} BY <1>6, <1>7
  <2> QED BY <1>4, <2>1, <2>2
<1>8. ASSUME NEW s \in Slots, f.slots[s].status # "NOTREADY", Reaches(map[f.slots[s].block + 1])
      PROVE  new[map[f.slots[s].block + 1]] = f.slots[s].val
  <2>1. PICK q \in Nat : q = f.slots[s].block BY <1>2
  <2>2. q < Len(map) /\ map[q + 1] \in Blocks BY <1>5, <1>8, <2>1
  <2>3. \A t \in mine(map[q + 1]) : t = s
    <3> SUFFICES ASSUME NEW t \in mine(map[q + 1]) PROVE t = s OBVIOUS
    <3>1. Holds(f, t, q) /\ t \in Slots BY <1>6, <2>2
    <3> QED BY <1>8, <2>1, <3>1 DEF BlocksKept, SlotsOnce
  <2>4. CASE f.slots[s].status = "DIRTY"
    <3>1. s \in mine(map[q + 1]) BY <2>1, <2>4
    <3> QED BY <1>4, <1>8, <2>1, <2>2, <2>3, <3>1
  <2>5. CASE f.slots[s].status = "READY"
    <3>1. mine(map[q + 1]) = {} BY <2>3, <2>5
    <3>2. f.slots[s].val = data[map[q + 1]] BY <1>1, <1>8, <2>1, <2>5 DEF BlocksKept, SlotsKept
    <3> QED BY <1>4, <2>1, <2>2, <3>1, <3>2
  <2> QED BY <1>2, <1>8, <2>4, <2>5 DEF CachedBlocks
<1>9. ASSUME NEW b \in Blocks, b \notin ToSet(map) PROVE new[b] = data[b]
  <2>1. mine(b) = {} BY <1>5, <1>9
  <2> QED BY <1>4, <2>1
<1> HIDE DEF mine
<1>10. /\ g.alloc_map = map
       /\ \A s \in Slots : /\ g.slots[s].block = f.slots[s].block /\ g.slots[s].val = f.slots[s].val
                           /\ g.slots[s].status = IF f.slots[s].status = "DIRTY" THEN "READY" ELSE f.slots[s].status
       BY <1>1 DEF CleanAs
<1>11. \A s \in Slots : g.slots[s].status # "DIRTY" /\ (g.slots[s].status # "NOTREADY" <=> f.slots[s].status # "NOTREADY")
       BY <1>10
<1>12. \A s \in Slots : \A q : Holds(g, s, q) <=> Holds(f, s, q) BY <1>10, <1>11 DEF Holds
<1>13. SlotsKept(g, new)
  <2> SUFFICES ASSUME NEW s \in Slots, g.slots[s].status # "NOTREADY"
               PROVE  /\ g.slots[s].block < Len(map)
                      /\ Reaches(map[g.slots[s].block + 1]) => g.slots[s].val = new[map[g.slots[s].block + 1]]
      BY <1>10, <1>11 DEF SlotsKept
  <2>1. f.slots[s].status # "NOTREADY" BY <1>11
  <2> QED BY <1>5, <1>8, <1>10, <2>1
<1>14. SlotsOnce(g)
  <2>1. SlotsOnce(f) BY DEF BlocksKept
  <2> QED BY <1>10, <1>11, <1>12, <2>1 DEF SlotsOnce
<1>15. WritesKept(g, w, new)
  <2> SUFFICES ASSUME NEW q \in 0 .. NBlocks, w[q] # NULL
               PROVE  /\ q < Len(map)
                      /\ Reaches(map[q + 1]) =>
                            /\ \A s \in Slots : Holds(g, s, q) => g.slots[s].val = w[q]
                            /\ (\A s \in Slots : ~Holds(g, s, q)) => new[map[q + 1]] = w[q]
      BY <1>10 DEF WritesKept, InPlace
  <2>1. /\ q < Len(map) /\ q \in Nat
        /\ Reaches(map[q + 1]) =>
              /\ \A s \in Slots : Holds(f, s, q) => f.slots[s].val = w[q]
              /\ (\A s \in Slots : ~Holds(f, s, q)) => data[map[q + 1]] = w[q]
        BY <1>1 DEF BlocksKept, WritesKept, InPlace
  <2> QED BY <1>7, <1>10, <1>12, <2>1
<1> QED BY <1>1, <1>9, <1>13, <1>14, <1>15 DEF BlocksKept

(* synchronise_cached_file. *)
LEMMA SynchroniseData ==
    ASSUME FilesInv, DataSound, NEW i \in Files, synchronise_cached_file(i)
    PROVE  DataSound'
<1>1. syncing # NULL /\ i \in syncing BY DEF synchronise_cached_file
<1>2. i \in Objects /\ ~files[i].unlinked BY <1>1 DEF FilesInv, ListSound
<1>3. PICK f \in CachedFiles : f = files[i] BY <1>2, Typed DEF FilesInv
<1>4. PICK blocks \in BOOLEAN : blocks = (f.type = "file" /\ ~f.not_found /\ f.changed_cache) OBVIOUS
<1>5. PICK g : g = Clean(f, blocks) OBVIOUS
<1>6. CleanAs(g, f, blocks) BY <1>5, CleanIs
<1>7. files' = [files EXCEPT ![i] = g] BY <1>3, <1>4, <1>5 DEF synchronise_cached_file, Clean
<1>8. written' = written /\ data' = IF blocks THEN Flushed(f) ELSE data BY <1>3, <1>4 DEF synchronise_cached_file
<1>9. ObjectSound(i, f, cached_files, dir) BY <1>2, <1>3 DEF FilesInv, ObjectsSound
<1>10. f.changed_entry => f.type = "file" /\ f.name # Root /\ ~f.not_found /\ EntryOf(f, f.entry, dir)
       BY <1>2, <1>3, <1>9 DEF ObjectSound, CachedFiles, Blank
<1>11. /\ f.changed_entry => dir' = [dir EXCEPT ![f.entry] = Entry(f)]
       /\ ~f.changed_entry => dir' = dir
       BY <1>2, <1>3 DEF synchronise_cached_file
<1>12. SameFile(g, f) /\ g \in CachedFiles /\ g.alloc_map = f.alloc_map /\ Entry(g) = Entry(f) /\ g.entry = f.entry
       /\ ~g.changed_entry
       BY <1>2, <1>3, <1>6 DEF CleanAs, SameFile, Entry
<1>13. files'[i] = g /\ \A j \in Files \ {i} : files'[j] = files[j] /\ written'[j] = written[j]
       BY <1>7, <1>8 DEF FilesInv, TypeOK
<1>14. \A j \in FileObjects \ {i} : ~files[j].unlinked => dir'[files[j].entry] = dir[files[j].entry]
  <2>1. CASE ~f.changed_entry BY <1>11, <2>1
  <2>2. CASE f.changed_entry
    <3>1. PICK n \in AllNames : n = f.name BY NotFreed
    <3>2. cached_files[n] = i BY <1>2, <1>3, <1>9, <3>1 DEF ObjectSound
    <3>3. PICK e \in Entries : e = f.entry /\ dir[e].name = n BY <1>10, <2>2, <3>1 DEF EntryOf
    <3>4. \A d \in Entries \ {e} : dir'[d] = dir[d] BY <1>11, <2>2, <3>3 DEF FilesInv, TypeOK
    <3> QED BY <3>2, <3>3, <3>4, EntriesKept
  <2> QED BY <2>1, <2>2
<1>15. i \in FileObjects' <=> i \in FileObjects BY <1>2, <1>3, <1>12, <1>13, NotFreed DEF FileObjects, Objects, SameFile
<1>16. CASE i \notin FileObjects
  <2>1. ~blocks /\ data' = data BY <1>2, <1>3, <1>4, <1>8, <1>16 DEF FileObjects
  <2>2. written'[i] = Unwritten BY <1>8, <1>16 DEF DataSound
  <2> QED BY <1>13, <1>14, <1>15, <1>16, <2>1, <2>2, DataKept
<1>17. CASE i \in FileObjects
  <2>1. PICK w : w = written[i] OBVIOUS
  <2>2. BlocksKept(f, w, data) /\ EntryKept(f, dir) BY <1>3, <1>17, <2>1 DEF DataSound
  <2>3. PICK new : new = data' OBVIOUS
  <2>4. BlocksKept(g, w, new) /\ \A b \in Blocks \ ToSet(f.alloc_map) : new[b] = data[b]
    <3>1. CASE blocks
      <4>1. Follows(fat, f.payload, f.alloc_map) BY <1>3, <1>17, OpenChain DEF FilesInv
      <4>2. IsInjective(f.alloc_map) BY <4>1 DEF Follows
      <4>3. new = Flushed(f) /\ blocks = TRUE BY <1>8, <2>3, <3>1
      <4>4. data \in [Blocks -> Content] BY Typed DEF FilesInv
      <4> QED BY ONLY f \in CachedFiles, <1>6, <2>2, <4>2, <4>3, <4>4, FlushedKept
    <3>2. CASE ~blocks
      <4>1. SameBlocks(g, f) BY <1>6, <3>2 DEF CleanAs, SameBlocks, CachedFiles
      <4>2. new = data BY <1>8, <2>3, <3>2
      <4>3. PICK dat : dat = data OBVIOUS
      <4>4. BlocksKept(f, w, dat) /\ \A b \in ToSet(f.alloc_map) : new[b] = dat[b] BY <2>2, <4>2, <4>3
      <4>5. BlocksKept(g, w, new) BY ONLY f \in CachedFiles, <4>1, <4>4, BlocksStay
      <4> QED BY <4>2, <4>5
    <3> QED BY <3>1, <3>2
  <2>5. EntryKept(g, dir')
    <3>1. CASE f.changed_entry
      <4>1. f.entry \in Entries BY <1>10, <3>1 DEF EntryOf
      <4>2. dir'[f.entry] = Entry(f) BY <1>11, <3>1, <4>1 DEF FilesInv, TypeOK
      <4> QED BY <1>12, <4>2 DEF EntryKept
    <3>2. CASE ~f.changed_entry BY <1>2, <1>3, <1>11, <1>12, <2>2, <3>2 DEF EntryKept
    <3> QED BY <3>1, <3>2
  <2>6. \A j \in FileObjects \ {i} : \A b \in ToSet(files[j].alloc_map) : data'[b] = data[b]
    <3> SUFFICES ASSUME NEW j \in FileObjects, j # i, NEW b \in ToSet(files[j].alloc_map) PROVE data'[b] = data[b] OBVIOUS
    <3>1. b \in Blocks /\ b \notin ToSet(f.alloc_map) BY <1>3, <1>17, Apart
    <3> QED BY <2>3, <2>4, <3>1
  <2>7. BlocksKept(files'[i], written'[i], data') /\ EntryKept(files'[i], dir') BY <1>8, <1>13, <2>1, <2>3, <2>4, <2>5
  <2> QED BY <1>13, <1>14, <1>15, <1>17, <2>6, <2>7, DataKept
<1> QED BY <1>16, <1>17


(* What the object that cache_file finds, or makes, holds. *)
LEMMA FoundHolds ==
    ASSUME FilesInv, NEW n \in AllNames, NEW i \in Files, NEW f \in CachedFiles, Found(n, i, f)
    PROVE  /\ cached_files[n] \in {NULL, i}
           /\ i \in Objects => cached_files[n] = i /\ SameContent(f, files[i]) /\ f.unlinked = files[i].unlinked
           /\ i \notin Objects => cached_files[n] = NULL /\ i \notin FileObjects
<1>1. ASSUME i \in Objects PROVE cached_files[n] = i /\ SameContent(f, files[i]) /\ f.unlinked = files[i].unlinked
  <2>1. PICK o \in CachedFiles : o = files[i] BY <1>1, Typed DEF FilesInv
  <2>2. /\ cached_files[n] = i /\ o.refcount \in Nat /\ o.refcount < MaxRefs
        /\ f = [o EXCEPT !.refcount = @ + 1]
        BY <1>1, <2>1 DEF Found, Objects
  <2>3. PICK r \in 0 .. MaxRefs : r = o.refcount + 1 BY <2>2, EchfsAssumption
  <2>4. f = [o EXCEPT !.refcount = r] BY <2>2, <2>3
  <2>5. SameContent(f, o) /\ f.unlinked = o.unlinked BY <2>4, Counted DEF SameContent, SameBlocks
  <2> QED BY <2>1, <2>2, <2>5
<1>2. ASSUME i \notin Objects PROVE cached_files[n] = NULL /\ i \notin FileObjects
      BY <1>2 DEF Found, FileObjects
<1> QED BY <1>1, <1>2

(* Of a file that is found nothing else is open. *)
LEMMA FoundApart ==
    ASSUME FilesInv, NEW n \in AllNames, NEW i \in Files, NEW f \in CachedFiles, Found(n, i, f), f.type = "file", ~f.not_found
    PROVE  \A j \in FileObjects \ {i} : ToSet(f.alloc_map) \cap ToSet(files[j].alloc_map) = {}
<1> SUFFICES ASSUME NEW j \in FileObjects, j # i PROVE ToSet(f.alloc_map) \cap ToSet(files[j].alloc_map) = {}
    OBVIOUS
<1>1. CASE i \in Objects
  <2>1. SameContent(f, files[i]) BY <1>1, FoundHolds
  <2>2. i \in FileObjects /\ f.alloc_map = files[i].alloc_map BY <1>1, <2>1 DEF FileObjects, SameContent, SameBlocks
  <2> QED BY <2>2, Apart
<1>2. CASE i \notin Objects
  <2>1. f.entry \in OnlyOnDisk /\ f.payload = dir[f.entry].payload /\ f.alloc_map = Chain(f.payload)
        BY <1>2 DEF Found, Objects
  <2>2. PICK e \in OnlyOnDisk : e = f.entry BY <2>1
  <2>3. PICK M : Chained(Keys, M, Starts, fat) /\ \A x \in FileObjects : M[<<"open", x>>] = files[x].alloc_map
        BY DEF FilesInv, BlocksSound
  <2>4. <<"disk", e>> \in Keys /\ Starts[<<"disk", e>>] = f.payload /\ <<"open", j>> \in Keys /\ <<"disk", e>> # <<"open", j>>
        BY <2>1, <2>2 DEF Keys, Starts
  <2>5. PICK b, s : b = f.payload /\ s = M[<<"disk", e>>] OBVIOUS
  <2>6. Follows(fat, b, s) BY <2>3, <2>4, <2>5 DEF Chained
  <2>7. Chain(b) = s BY <2>6, ChainFound
  <2> QED BY <2>1, <2>3, <2>4, <2>5, <2>7 DEF Chained
<1> QED BY <1>1, <1>2

(* An object that is found, or made without an entry. *)
LEMMA FoundData ==
    ASSUME FilesInv, DataSound, NEW n \in AllNames, NEW i \in Files, NEW f \in CachedFiles, Found(n, i, f), f.name = n,
           ~f.unlinked, ObjectSound(i, f, cached_files', dir), files' = [files EXCEPT ![i] = f], UNCHANGED <<data, dir>>,
           written' = IF cached_files[n] = NULL THEN [written EXCEPT ![i] = Unwritten] ELSE written
    PROVE  DataSound'
<1>1. CASE i \in Objects
  <2>1. cached_files[n] = i /\ SameContent(f, files[i]) /\ f.unlinked = files[i].unlinked BY <1>1, FoundHolds
  <2>2. written' = written BY <2>1, NullAssumption
  <2> QED BY <1>1, <2>1, <2>2, DataSame
<1>2. CASE i \notin Objects
  <2>1. cached_files[n] = NULL /\ i \notin FileObjects BY <1>2, FoundHolds
  <2>2. /\ files'[i] = f /\ written'[i] = Unwritten
        /\ \A j \in Files \ {i} : files'[j] = files[j] /\ written'[j] = written[j]
        BY <2>1 DEF FilesInv, TypeOK
  <2>3. PICK new : new = data' OBVIOUS
  <2>4. f.slots = [s \in Slots |-> NoSlot] /\ ~f.changed_entry BY <1>2 DEF Found, Objects
  <2>5. BlocksKept(f, Unwritten, new) BY <2>4, BlocksNew
  <2>6. ASSUME f.type = "file" PROVE EntryKept(f, dir)
    <3>1. f.entry \in OnlyOnDisk /\ f.payload = dir[f.entry].payload /\ f.size = dir[f.entry].size
          BY <1>2, <2>6 DEF Found, Objects
    <3>2. EntryOf(f, f.entry, dir) BY <2>6 DEF ObjectSound
    <3>3. dir[f.entry] \in DirEntries BY <3>2, Typed DEF EntryOf, FilesInv
    <3>4. dir[f.entry].name = f.name /\ dir[f.entry].type = f.type BY <3>2 DEF EntryOf
    <3>5. PICK d \in DirEntries : d = dir[f.entry] BY <3>3
    <3>6. d = [name |-> d.name, type |-> d.type, payload |-> d.payload, size |-> d.size] BY DEF DirEntries
    <3>7. d = Entry(f) BY <3>1, <3>4, <3>5, <3>6 DEF Entry
    <3> QED BY <3>5, <3>7 DEF EntryKept
  <2>7. i \in FileObjects' => BlocksKept(files'[i], written'[i], data') /\ EntryKept(files'[i], dir')
        BY <2>2, <2>3, <2>5, <2>6 DEF FileObjects
  <2> QED BY <2>2, <2>7, DataKept
<1> QED BY <1>1, <1>2

(* A file that is created, or a directory: nothing was written to it. *)
LEMMA CreatedData ==
    ASSUME FilesInv, DataSound, NEW n \in AllNames, NEW i \in Files, NEW f \in CachedFiles, Found(n, i, f), f.name = n,
           f.not_found, ObjectSound(i, f, cached_files', dir), find_free_entry # {}, NEW e, e = Min(find_free_entry),
           NEW g \in CachedFiles, g.entry = e, g.slots = f.slots,
           files' = [files EXCEPT ![i] = g], dir' = [dir EXCEPT ![e] = Entry(g)], data' = data,
           written' = IF cached_files[n] = NULL THEN [written EXCEPT ![i] = Unwritten] ELSE written
    PROVE  DataSound'
<1>1. e \in Entries /\ ~IsEntry(dir[e]) BY FreeEntryIs
<1>2. f.slots = [s \in Slots |-> NoSlot] BY DEF ObjectSound, Blank
<1>3. i \notin FileObjects
  <2>1. CASE i \in Objects
    <3>1. SameContent(f, files[i]) BY <2>1, FoundHolds
    <3> QED BY <3>1 DEF SameContent, FileObjects
  <2> QED BY <2>1, FoundHolds
<1>4. written'[i] = Unwritten /\ \A j \in Files \ {i} : written'[j] = written[j]
      BY <1>3 DEF DataSound, FilesInv, TypeOK
<1>5. files'[i] = g /\ \A j \in Files \ {i} : files'[j] = files[j] BY DEF FilesInv, TypeOK
<1>6. dir'[e] = Entry(g) /\ \A d \in Entries \ {e} : dir'[d] = dir[d] BY <1>1 DEF FilesInv, TypeOK
<1>7. \A j \in FileObjects \ {i} : ~files[j].unlinked => dir'[files[j].entry] = dir[files[j].entry]
  <2>1. cached_files[n] \in {NULL, i} BY FoundHolds
  <2> QED BY <1>1, <1>6, <2>1, EntriesKept
<1>8. PICK new : new = data' OBVIOUS
<1>9. BlocksKept(g, Unwritten, new) BY <1>2, BlocksNew
<1>10. EntryKept(g, dir') BY <1>6 DEF EntryKept
<1>11. i \in FileObjects' => BlocksKept(files'[i], written'[i], data') /\ EntryKept(files'[i], dir')
       BY <1>4, <1>5, <1>8, <1>9, <1>10
<1> QED BY <1>4, <1>5, <1>7, <1>11, DataKept

(* A file that is truncated: its blocks are forgotten, and no others. *)
LEMMA TruncatedData ==
    ASSUME FilesInv, DataSound, NEW n \in AllNames, NEW i \in Files, NEW f \in CachedFiles, Found(n, i, f),
           f.type = "file", ~f.not_found, Follows(fat, f.payload, f.alloc_map), NEW g, g = erase_file(f),
           files' = [files EXCEPT ![i] = g], dir' = dir, data' = Forgotten(f), written' = [written EXCEPT ![i] = Unwritten]
    PROVE  DataSound'
<1>1. g \in CachedFiles /\ g.changed_entry /\ g.slots = [s \in Slots |-> NoSlot] BY Erases
<1>2. /\ files'[i] = g /\ written'[i] = Unwritten
      /\ \A j \in Files \ {i} : files'[j] = files[j] /\ written'[j] = written[j]
      BY DEF FilesInv, TypeOK
<1>3. \A j \in FileObjects \ {i} : ToSet(f.alloc_map) \cap ToSet(files[j].alloc_map) = {} BY FoundApart
<1>4. \A j \in FileObjects \ {i} : \A b \in ToSet(files[j].alloc_map) : Forgotten(f)[b] = data[b] BY <1>3, OthersForgotten
<1>5. \A j \in FileObjects \ {i} : \A b \in ToSet(files[j].alloc_map) : data'[b] = data[b] BY <1>4
<1>6. PICK new : new = data' OBVIOUS
<1>7. BlocksKept(g, Unwritten, new) BY <1>1, BlocksNew
<1>8. EntryKept(g, dir') BY <1>1 DEF EntryKept
<1>9. BlocksKept(files'[i], written'[i], data') /\ EntryKept(files'[i], dir') BY <1>2, <1>6, <1>7, <1>8
<1> QED BY <1>2, <1>5, <1>9, DataKept

(* echfs_open, and the open of syscall_unlink. *)
LEMMA OpenData ==
    ASSUME FilesInv, DataSound, NEW n \in AllNames, NEW flags, NEW by, Open(n, flags, by)
    PROVE  DataSound'
<1>1. CASE \E why : Fails(why) BY <1>1, FailsData
<1>2. CASE \E c \in cache_file(n) : Opens(n, flags, by, c.id, c.file)
  <2>1. PICK c \in cache_file(n) : Opens(n, flags, by, c.id, c.file) BY <1>2
  <2>2. PICK i, f : i = c.id /\ f = c.file OBVIOUS
  <2>3. CanCache(n) /\ Opens(n, flags, by, i, f) BY <2>1, <2>2, OpenIs
  <2>4. /\ i \in Files /\ f \in CachedFiles /\ f.name = n /\ ~f.unlinked /\ Found(n, i, f)
        /\ ObjectSound(i, f, [cached_files EXCEPT ![n] = i], dir)
        /\ f.type = "file" => Follows(fat, f.payload, f.alloc_map)
        BY <2>2, <2>3, FoundIs
  <2>5. cached_files' = [cached_files EXCEPT ![n] = i] BY <2>3 DEF Opens
  <2>6. ObjectSound(i, f, cached_files', dir) BY <2>4, <2>5
  <2>7. CASE f.not_found /\ "CREAT" \in flags
    <3>1. find_free_entry # {} BY <2>3, <2>7 DEF Opens
    <3>2. PICK e : e = Min(find_free_entry) OBVIOUS
    <3>3. e \in Entries BY <3>1, <3>2, FreeEntryIs
    <3>4. PICK b \in Nat : b = END_OF_CHAIN BY Ends
    <3>5. PICK type \in {"file", "dir"} : type = "file" OBVIOUS
    <3>6. PICK g : g = [f EXCEPT !.type = type, !.not_found = FALSE, !.entry = e, !.payload = b] OBVIOUS
    <3>7. MadeAs(g, f, type, e, b) BY ONLY <2>4, <3>3, <3>6, MadeIs
    <3>8. /\ files' = [files EXCEPT ![i] = g] /\ dir' = [dir EXCEPT ![e] = Entry(g)] /\ data' = data
          /\ written' = IF cached_files[n] = NULL THEN [written EXCEPT ![i] = Unwritten] ELSE written
          BY <2>3, <2>7, <3>1, <3>2, <3>4, <3>5, <3>6 DEF Opens
    <3>9. g \in CachedFiles /\ g.entry = e /\ g.slots = f.slots BY <3>7 DEF MadeAs
    <3>10. f.not_found BY <2>7
    <3> QED BY ONLY FilesInv, DataSound, n \in AllNames, <2>4, <2>6, <3>1, <3>2, <3>8, <3>9, <3>10, CreatedData
  <2>8. CASE ~f.not_found /\ "TRUNC" \in flags
    <3>1. PICK g : g = erase_file(f) OBVIOUS
    <3>2. f.type = "file" BY <2>3, <2>4, <2>8 DEF Opens, CachedFiles
    <3>3. /\ files' = [files EXCEPT ![i] = g] /\ dir' = dir /\ data' = Forgotten(f)
          /\ written' = [written EXCEPT ![i] = Unwritten]
          BY <2>3, <2>8, <3>1 DEF Opens
    <3>4. ~f.not_found BY <2>8
    <3> QED BY ONLY FilesInv, DataSound, n \in AllNames, <2>4, <3>1, <3>2, <3>3, <3>4, TruncatedData
  <2>9. CASE ~(f.not_found /\ "CREAT" \in flags) /\ ~(~f.not_found /\ "TRUNC" \in flags)
    <3>1. /\ files' = [files EXCEPT ![i] = f] /\ UNCHANGED <<data, dir>>
          /\ written' = IF cached_files[n] = NULL THEN [written EXCEPT ![i] = Unwritten] ELSE written
          BY <2>3, <2>9 DEF Opens
    <3> QED BY ONLY FilesInv, DataSound, n \in AllNames, <2>4, <2>6, <3>1, FoundData
  <2> QED BY <2>7, <2>8, <2>9
<1> QED BY <1>1, <1>2, OpenIs

(* echfs_mkdir. *)
LEMMA MkdirData ==
    ASSUME FilesInv, DataSound, NEW n \in AllNames, echfs_mkdir(n)
    PROVE  DataSound'
<1>1. CanCache(n) BY DEF echfs_mkdir
<1> DEFINE free == IF find_free_entry = {} THEN 0 ELSE Min(find_free_entry)
           made(f) == [f EXCEPT !.type = "dir", !.not_found = FALSE, !.entry = free, !.payload = get_free_id]
<1>2. PICK c \in cache_file(n) :
        IF c.file.not_found /\ free = 0 THEN Fails("directory_full")
        ELSE /\ cached_files' = [cached_files EXCEPT ![n] = c.id]
             /\ files' = [files EXCEPT ![c.id] = IF c.file.not_found THEN made(c.file) ELSE c.file]
             /\ dir' = IF c.file.not_found THEN [dir EXCEPT ![free] = Entry(made(c.file))] ELSE dir
             /\ written' = IF cached_files[n] = NULL THEN [written EXCEPT ![c.id] = Unwritten] ELSE written
             /\ data' = data
      BY DEF echfs_mkdir
<1>3. PICK i, f : i = c.id /\ f = c.file OBVIOUS
<1>4. CASE f.not_found /\ free = 0
  <2>1. Fails("directory_full") BY <1>2, <1>3, <1>4
  <2> QED BY <2>1, FailsData
<1>5. CASE ~(f.not_found /\ free = 0)
  <2>1. /\ cached_files' = [cached_files EXCEPT ![n] = i]
        /\ files' = [files EXCEPT ![i] = IF f.not_found THEN made(f) ELSE f]
        /\ dir' = IF f.not_found THEN [dir EXCEPT ![free] = Entry(made(f))] ELSE dir
        /\ written' = IF cached_files[n] = NULL THEN [written EXCEPT ![i] = Unwritten] ELSE written
        /\ data' = data
        BY <1>2, <1>3, <1>5
  <2>2. /\ i \in Files /\ f \in CachedFiles /\ f.name = n /\ ~f.unlinked /\ Found(n, i, f)
        /\ ObjectSound(i, f, [cached_files EXCEPT ![n] = i], dir)
        BY <1>1, <1>3, FoundIs
  <2>3. ObjectSound(i, f, cached_files', dir) BY <2>1, <2>2
  <2>4. CASE ~f.not_found
    <3>1. /\ files' = [files EXCEPT ![i] = f] /\ UNCHANGED <<data, dir>>
          /\ written' = IF cached_files[n] = NULL THEN [written EXCEPT ![i] = Unwritten] ELSE written
          BY <2>1, <2>4
    <3> QED BY ONLY FilesInv, DataSound, n \in AllNames, <2>2, <2>3, <3>1, FoundData
  <2>5. CASE f.not_found
    <3>1. find_free_entry # {} BY <1>5, <2>5
    <3>2. PICK e : e = Min(find_free_entry) OBVIOUS
    <3>3. e \in Entries /\ e = free BY <3>1, <3>2, FreeEntryIs
    <3>4. PICK b \in Nat : b = get_free_id BY FreeIdIs
    <3>5. PICK type \in {"file", "dir"} : type = "dir" OBVIOUS
    <3>6. PICK g : g = [f EXCEPT !.type = type, !.not_found = FALSE, !.entry = e, !.payload = b] OBVIOUS
    <3>7. MadeAs(g, f, type, e, b) BY ONLY <2>2, <3>3, <3>6, MadeIs
    <3>8. g = made(f) BY <3>3, <3>4, <3>5, <3>6
    <3> HIDE DEF made, free
    <3>9. /\ files' = [files EXCEPT ![i] = g] /\ dir' = [dir EXCEPT ![e] = Entry(g)] /\ data' = data
          /\ written' = IF cached_files[n] = NULL THEN [written EXCEPT ![i] = Unwritten] ELSE written
          BY <2>1, <2>5, <3>3, <3>8
    <3>10. g \in CachedFiles /\ g.entry = e /\ g.slots = f.slots BY <3>7 DEF MadeAs
    <3> QED BY ONLY FilesInv, DataSound, n \in AllNames, <2>2, <2>3, <2>5, <3>1, <3>2, <3>9, <3>10, CreatedData
  <2> QED BY <2>4, <2>5
<1> QED BY <1>4, <1>5

-----------------------------------------------------------------------------
(* Nothing is open at first. *)
LEMMA InitData == Init => DataSound
<1> SUFFICES ASSUME Init PROVE DataSound OBVIOUS
<1>1. FileObjects = {} BY DEF Init, FileObjects, Objects
<1>2. \A i \in Files : written[i] = Unwritten BY DEF Init
<1> QED BY <1>1, <1>2 DEF DataSound

(* Every step keeps what was written. *)
LEMMA NextData == FilesInv /\ DataSound /\ [Next]_vars => DataSound'
<1> SUFFICES ASSUME FilesInv, DataSound, [Next]_vars PROVE DataSound' OBVIOUS
<1>1. CASE UNCHANGED vars BY <1>1, DataQuiet DEF vars
<1>2. ASSUME NEW n \in Names \cup {Root}, NEW flags, echfs_open(n, flags) PROVE DataSound'
  <2>1. PICK by : by = "program" OBVIOUS
  <2>2. Open(n, flags, by) /\ n \in AllNames BY <1>2, <2>1 DEF echfs_open, AllNames
  <2> QED BY <2>2, OpenData
<1>3. ASSUME NEW n \in Names, UnlinkOpen(n) PROVE DataSound'
  <2>1. PICK by \in {"unlink"}, flags \in {{}} : by = "unlink" /\ flags = {} OBVIOUS
  <2>2. Open(n, flags, by) /\ n \in AllNames BY <1>3, <2>1 DEF UnlinkOpen, AllNames
  <2> QED BY <2>2, OpenData
<1>4. CASE Deadlock
  <2>1. PICK why : why = "deadlock" OBVIOUS
  <2> QED BY <1>4, <2>1, FailsData DEF Deadlock
<1>5. ASSUME NEW n \in Dirs, echfs_mkdir(n) PROVE DataSound'
  <2>1. n \in AllNames BY EchfsAssumption DEF AllNames
  <2> QED BY <1>5, <2>1, MkdirData
<1>6. ASSUME NEW h \in Handles, UseAfterFree(h) PROVE DataSound'
  <2>1. PICK why : why = "use_after_free" OBVIOUS
  <2> QED BY <1>6, <2>1, FailsData DEF UseAfterFree
<1>7. ASSUME NEW h \in Handles, NEW val \in Data, echfs_write(h, val) PROVE DataSound' BY <1>7, WriteData
<1>8. ASSUME NEW h \in Handles, \E p \in Seeks : echfs_lseek(h, p) PROVE DataSound' BY <1>8, DataQuiet DEF echfs_lseek
<1>9. ASSUME NEW h \in Handles, echfs_read(h) PROVE DataSound' BY <1>9, ReadData
<1>10. ASSUME NEW h \in Handles, echfs_readdir(h) PROVE DataSound' BY <1>10, DataQuiet DEF echfs_readdir
<1>11. ASSUME NEW h \in Handles, echfs_dup(h) PROVE DataSound' BY <1>11, DupData
<1>12. ASSUME NEW h \in Handles, echfs_close(h) PROVE DataSound' BY <1>12, CloseData
<1>13. ASSUME NEW h \in Handles, CloseFreed(h) PROVE DataSound' BY <1>13, DataQuiet DEF CloseFreed
<1>14. ASSUME NEW h \in Handles, echfs_unlink(h) PROVE DataSound' BY <1>14, UnlinkData
<1>15. CASE SyncBegin BY <1>15, DataQuiet DEF SyncBegin
<1>16. ASSUME NEW i \in Files, synchronise_cached_file(i) PROVE DataSound' BY <1>16, SynchroniseData
<1> QED BY <1>1, <1>2, <1>3, <1>4, <1>5, <1>6, <1>7, <1>8, <1>9, <1>10, <1>11, <1>12, <1>13, <1>14, <1>15, <1>16
        DEF Next

(* What the invariant says of the data a reader gets. *)
LEMMA InvWritten == FilesInv /\ DataSound => WrittenIsKept
<1> SUFFICES ASSUME FilesInv, DataSound, NEW i \in FileObjects, NEW p \in 0 .. NBlocks, written[i][p] # NULL
             PROVE  /\ p < Len(files[i].alloc_map)
                    /\ Reaches(files[i].alloc_map[p + 1]) => View(files[i], p) = written[i][p]
    BY DEF WrittenIsKept
<1>1. PICK f, w : f = files[i] /\ w = written[i] OBVIOUS
<1>2. WritesKept(f, w, data) BY <1>1 DEF DataSound, BlocksKept
<1>6. p < Len(f.alloc_map) BY <1>1, <1>2 DEF WritesKept
<1> SUFFICES ASSUME Reaches(f.alloc_map[p + 1]) PROVE View(f, p) = w[p] BY <1>1, <1>6
<1>3. /\ \A s \in Slots : Holds(f, s, p) => f.slots[s].val = w[p]
      /\ (\A s \in Slots : ~Holds(f, s, p)) => data[f.alloc_map[p + 1]] = w[p]
      BY <1>1, <1>2 DEF WritesKept, InPlace
<1>4. find_block(f, p) = {s \in Slots : Holds(f, s, p)} BY DEF find_block, Holds
<1>5. View(f, p) = w[p]
  <2>1. CASE find_block(f, p) = {} BY <1>3, <1>4, <2>1 DEF View
  <2>2. CASE find_block(f, p) # {}
    <3>1. PICK s : s = Min(find_block(f, p)) OBVIOUS
    <3>2. find_block(f, p) \subseteq Nat BY EchfsAssumption DEF find_block, Slots
    <3>3. s \in find_block(f, p) BY <2>2, <3>1, <3>2, MinIs
    <3> QED BY <1>3, <1>4, <2>2, <3>1, <3>3 DEF View
  <2> QED BY <2>1, <2>2
<1> QED BY <1>5

(* What the invariant says of a file that is not marked changed. *)
LEMMA InvSynced == FilesInv /\ DataSound => SyncedIsOnDisk
<1> SUFFICES ASSUME FilesInv, DataSound, NEW i \in FileObjects, NEW f, f = files[i]
             PROVE  /\ ~f.unlinked =>
                         /\ IsEntry(dir[f.entry]) /\ dir[f.entry].name = f.name
                         /\ ~f.changed_entry => dir[f.entry] = Entry(f)
                    /\ ~f.changed_cache =>
                         \A p \in 0 .. NBlocks :
                            written[i][p] # NULL /\ Reaches(f.alloc_map[p + 1]) => data[f.alloc_map[p + 1]] = written[i][p]
    BY DEF SyncedIsOnDisk
<1>1. i \in Objects /\ f.type = "file" /\ ~f.not_found BY DEF FileObjects
<1>2. ObjectSound(i, f, cached_files, dir) /\ f \in CachedFiles BY <1>1, Typed DEF FilesInv, ObjectsSound
<1>3. BlocksKept(f, written[i], data) /\ EntryKept(f, dir) BY DEF DataSound
<1>4. ASSUME ~f.unlinked PROVE EntryOf(f, f.entry, dir) /\ (~f.changed_entry => dir[f.entry] = Entry(f))
      BY <1>1, <1>2, <1>3, <1>4 DEF ObjectSound, EntryKept
<1>5. ASSUME ~f.changed_cache, NEW p \in 0 .. NBlocks, written[i][p] # NULL, Reaches(f.alloc_map[p + 1])
      PROVE  data[f.alloc_map[p + 1]] = written[i][p]
  <2>1. /\ \A s \in Slots : Holds(f, s, p) => f.slots[s].val = written[i][p]
        /\ (\A s \in Slots : ~Holds(f, s, p)) => data[f.alloc_map[p + 1]] = written[i][p]
        BY <1>3, <1>5 DEF BlocksKept, WritesKept, InPlace
  <2>2. ASSUME NEW s \in Slots, Holds(f, s, p) PROVE f.slots[s].val = data[f.alloc_map[p + 1]]
    <3>1. f.slots[s] \in CachedBlocks BY <1>2 DEF CachedFiles
    <3>2. f.slots[s].status \in {"READY", "DIRTY"} /\ f.slots[s].block = p BY <2>2, <3>1 DEF CachedBlocks, Holds
    <3>3. /\ f.slots[s].status = "READY" /\ Reaches(f.alloc_map[p + 1]) => f.slots[s].val = data[f.alloc_map[p + 1]]
          /\ f.slots[s].status = "DIRTY" => f.changed_cache
          BY <1>3, <3>2 DEF BlocksKept, SlotsKept
    <3> QED BY <1>5, <3>2, <3>3
  <2> QED BY <2>1, <2>2
<1> QED BY <1>4, <1>5 DEF EntryOf

(* What a program wrote stays in the file's block until the file is truncated,
   and echfs_sync forgets nothing and follows no freed pointer: for any number
   of slots, so also when blocks are evicted, wherever a sync falls between the
   calls of programs, and for a filesystem that fills its device, but for the
   contents of the device's last block.                                      *)
THEOREM WritesAlwaysKept == Spec => [](WrittenIsKept /\ SyncSound)
<1>1. Init => FilesInv /\ DataSound BY InitSound, InitData
<1>2. FilesInv /\ DataSound /\ [Next]_vars => FilesInv' /\ DataSound' BY NextSound, NextData
<1>3. FilesInv /\ DataSound => WrittenIsKept /\ SyncSound BY InvWritten, InvSynced, InvSync DEF SyncSound
<1> QED BY <1>1, <1>2, <1>3, PTL DEF Spec
=============================================================================
