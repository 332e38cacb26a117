------------------------- MODULE TaskCompilerProofs -------------------------
(***************************************************************************)
(* Theorems about TaskCompiler, for every task configuration, every device    *)
(* and every mapper: what a secret map keeps from the policy, that a compiled  *)
(* window tells the truth about the map the worker runs, and that every map    *)
(* is inverted, so that an address names one cell and a cell one address.     *)
(***************************************************************************)
EXTENDS TaskCompiler, FiniteSetTheorems, SequenceTheorems, WellFoundedInduction, TLAPS

-----------------------------------------------------------------------------
(* Powers, divisions, and functions defined by recursion.                     *)

(* A nonempty set of naturals has a least element.                           *)
LEMMA LeastNatural ==
  ASSUME NEW T, T \subseteq Nat, T # {}
  PROVE  \E x \in T : \A y \in T : x <= y
<1> DEFINE R == {ss \in Nat \X Nat : ss[1] < ss[2]}
<1>1. IsWellFoundedOn(R, Nat)
  BY NatLessThanWellFounded DEF OpToRel
<1>2. PICK x \in T : \A y \in T : ~(<<y, x>> \in R)
  <2> HIDE DEF R
  <2> QED BY <1>1, WFMin
<1>3. ASSUME NEW y \in T PROVE x <= y
  <2>1. x \in Nat /\ y \in Nat OBVIOUS
  <2>2. <<y, x>> \in Nat \X Nat BY <2>1
  <2>3. ~(y < x) BY <1>2, <2>2
  <2> QED BY <2>1, <2>3
<1> QED BY <1>3

(* Climbing from 0, one at a time.                                          *)
LEMMA Climb ==
  ASSUME NEW n \in Nat, NEW S, 0 \in S, \A k \in 0..n - 1 : k \in S => k + 1 \in S
  PROVE  \A k \in 0..n : k \in S
<1> DEFINE Bad == {k \in 0..n : k \notin S}
<1>1. SUFFICES ASSUME Bad # {} PROVE FALSE OBVIOUS
<1>2. Bad \subseteq Nat OBVIOUS
<1>3. PICK b \in Bad : \A y \in Bad : b <= y
  <2> HIDE DEF Bad
  <2> QED BY <1>1, <1>2, LeastNatural
<1>4. b \in 0..n /\ b \notin S /\ b # 0 BY <1>3
<1>5. b - 1 \in 0..n - 1 /\ b - 1 + 1 = b /\ b - 1 < b /\ b - 1 \in 0..n BY <1>4
<1>6. b - 1 \notin Bad BY <1>2, <1>3, <1>5
<1>7. b - 1 \in S BY <1>5, <1>6
<1> QED BY <1>4, <1>5, <1>7

(* A recursive function over 0..n exists.                                    *)
Runs(f, base, step, n) == f[0] = base /\ \A i \in 1..n : f[i] = step[i][f[i - 1]]

(* A recursion on functions has a solution, one step at a time.              *)
LEMMA Iterates ==
  ASSUME NEW V, NEW base \in V, NEW n \in Nat, NEW step \in [1..n -> [V -> V]]
  PROVE  \E f \in [0..n -> V] : Runs(f, base, step, n)
<1> DEFINE S == {k \in 0..n : \E f \in [0..k -> V] : Runs(f, base, step, k)}
<1>1. 0 \in S
  <2> DEFINE one == [i \in 0..0 |-> base]
  <2>1. one \in [0..0 -> V] /\ Runs(one, base, step, 0) BY DEF Runs
  <2> HIDE DEF one
  <2>2. \E f \in [0..0 -> V] : Runs(f, base, step, 0) BY <2>1
  <2> QED BY <2>2
<1>2. ASSUME NEW k \in 0..n - 1, k \in S PROVE k + 1 \in S
  <2>1. PICK f \in [0..k -> V] : Runs(f, base, step, k) BY <1>2
  <2> DEFINE g == [i \in 0..k + 1 |-> IF i <= k THEN f[i] ELSE step[k + 1][f[k]]]
  <2>2. k \in Nat /\ k + 1 \in 1..n /\ k + 1 \in 0..n BY <1>2
  <2>3. step[k + 1] \in [V -> V] /\ f[k] \in V BY <2>1, <2>2
  <2>4. step[k + 1][f[k]] \in V BY <2>3
  <2>5. g \in [0..k + 1 -> V] BY <2>1, <2>2, <2>4
  <2>6. \A i \in 0..k : g[i] = f[i] BY <2>2
  <2>7. g[k + 1] = step[k + 1][f[k]] BY <2>2
  <2> HIDE DEF g
  <2>8. Runs(g, base, step, k + 1)
    <3>1. g[0] = base BY <2>1, <2>2, <2>6 DEF Runs
    <3>2. ASSUME NEW i \in 1..k + 1 PROVE g[i] = step[i][g[i - 1]]
      <4>1. CASE i = k + 1
        <5>1. i - 1 = k /\ k \in 0..k BY <2>2, <4>1
        <5> QED BY <2>6, <2>7, <4>1, <5>1
      <4>2. CASE i # k + 1
        <5>1. i \in 1..k /\ i \in 0..k /\ i - 1 \in 0..k BY <2>2, <4>2
        <5> QED BY <2>1, <2>6, <5>1 DEF Runs
      <4> QED BY <4>1, <4>2
    <3> QED BY <3>1, <3>2 DEF Runs
  <2>9. \E h \in [0..k + 1 -> V] : Runs(h, base, step, k + 1) BY <2>5, <2>8
  <2> QED BY <2>2, <2>9
<1>3. n \in S
  <2>1. n \in 0..n OBVIOUS
  <2> HIDE DEF S
  <2> QED BY <1>1, <1>2, <2>1, Climb
<1> QED BY <1>3

(* The power of a sum is the product of the powers.                          *)
LEMMA PowerOfSum ==
  ASSUME NEW a \in Nat, NEW b \in Nat
  PROVE  2^a \in Nat /\ 2^(a + b) = 2^a * 2^b
<1> DEFINE low == 1..a
           high == a + 1..a + b
           Parts == (SUBSET low) \X (SUBSET high)
           f == [p \in Parts |-> p[1] \cup p[2]]
<1>1. IsFiniteSet(low) /\ Cardinality(low) = a /\ IsFiniteSet(high) /\ Cardinality(high) = b
  <2>1. IsFiniteSet(1..a) /\ Cardinality(1..a) = IF 1 > a THEN 0 ELSE a - 1 + 1 BY FS_Interval
  <2>2. IsFiniteSet(a + 1..a + b) /\ Cardinality(a + 1..a + b) = IF a + 1 > a + b THEN 0 ELSE a + b - (a + 1) + 1 BY FS_Interval
  <2> QED BY <2>1, <2>2
<1>2. low \cup high = 1..a + b /\ low \cap high = {} OBVIOUS
<1>3. IsFiniteSet(1..a + b) /\ Cardinality(1..a + b) = a + b
  <2>1. IsFiniteSet(1..a + b) /\ Cardinality(1..a + b) = IF 1 > a + b THEN 0 ELSE a + b - 1 + 1 BY FS_Interval
  <2> QED BY <2>1
<1> HIDE DEF low, high
<1>4. IsFiniteSet(SUBSET low) /\ Cardinality(SUBSET low) = 2^a BY <1>1, FS_SUBSET
<1>5. IsFiniteSet(SUBSET high) /\ Cardinality(SUBSET high) = 2^b BY <1>1, FS_SUBSET
<1>6. IsFiniteSet(SUBSET (1..a + b)) /\ Cardinality(SUBSET (1..a + b)) = 2^(a + b) BY <1>3, FS_SUBSET
<1>7. IsFiniteSet(Parts) /\ Cardinality(Parts) = 2^a * 2^b BY <1>4, <1>5, FS_Product
<1>8. f \in Bijection(Parts, SUBSET (1..a + b))
  <2>1. f \in [Parts -> SUBSET (1..a + b)] BY <1>2
  <2>2. ASSUME NEW p \in Parts, NEW q \in Parts, f[p] = f[q] PROVE p = q
    <3>1. p[1] \subseteq low /\ p[2] \subseteq high /\ q[1] \subseteq low /\ q[2] \subseteq high OBVIOUS
    <3>2. p[1] \cup p[2] = q[1] \cup q[2] BY <2>2
    <3>3. p[1] = q[1] /\ p[2] = q[2] BY <3>1, <3>2, <1>2
    <3> QED BY <3>3
  <2>3. ASSUME NEW s \in SUBSET (1..a + b) PROVE \E p \in Parts : f[p] = s
    <3>1. <<s \cap low, s \cap high>> \in Parts OBVIOUS
    <3>2. f[<<s \cap low, s \cap high>>] = s BY <3>1, <1>2
    <3> QED BY <3>1, <3>2
  <2> QED BY <2>1, <2>2, <2>3 DEF Bijection, Injection, Surjection, IsInjective
<1>9. Cardinality(SUBSET (1..a + b)) = Cardinality(Parts)
  <2> HIDE DEF f, Parts
  <2> DEFINE Whole == SUBSET (1..a + b)
  <2>1. IsFiniteSet(Parts) /\ f \in Bijection(Parts, Whole) BY <1>7, <1>8
  <2> HIDE DEF Whole
  <2>2. Cardinality(Whole) = Cardinality(Parts) BY <2>1, FS_Bijection DEF ExistsBijection
  <2> QED BY <2>2 DEF Whole
<1>10. 2^a \in Nat BY <1>4, FS_CardinalityType
<1> QED BY <1>6, <1>7, <1>9, <1>10

(* A power of two is positive and doubles at every step.                     *)
LEMMA PowerIsPositive ==
  ASSUME NEW a \in Nat
  PROVE  2^a \in Nat \ {0} /\ 2^(a + 1) = 2 * 2^a
<1>1. 2^a \in Nat /\ 2^(a + 1) = 2^a * 2^1 BY PowerOfSum
<1>2. 2^0 = 1 /\ 2^1 = 2 OBVIOUS
<1>3. Cardinality(SUBSET (1..a)) = 2^a /\ IsFiniteSet(SUBSET (1..a))
  <2>1. IsFiniteSet(1..a) /\ Cardinality(1..a) = IF 1 > a THEN 0 ELSE a - 1 + 1 BY FS_Interval
  <2>2. Cardinality(1..a) = a BY <2>1
  <2> QED BY <2>1, <2>2, FS_SUBSET
<1>4. 2^a # 0
  <2>1. {} \in SUBSET (1..a) OBVIOUS
  <2>2. SUBSET (1..a) # {} BY <2>1
  <2> QED BY <1>3, <2>2, FS_EmptySet
<1> QED BY <1>1, <1>2, <1>4

(* A larger exponent has a larger power.                                     *)
LEMMA PowerGrows ==
  ASSUME NEW a \in Nat, NEW b \in Nat, a < b
  PROVE  2^a < 2^b
<1>1. b - a - 1 \in Nat /\ b = a + (b - a - 1) + 1 OBVIOUS
<1>2. PICK c \in Nat : b = a + c + 1 BY <1>1
<1>3. 2^(a + c) = 2^a * 2^c /\ 2^(a + c + 1) = 2 * 2^(a + c) BY PowerOfSum, PowerIsPositive
<1>4. 2^a \in Nat \ {0} /\ 2^c \in Nat \ {0} BY PowerIsPositive
<1>5. ASSUME NEW x \in Nat \ {0}, NEW y \in Nat \ {0} PROVE x < 2 * (x * y) /\ x * y \in Nat
  <2>1. x * y >= x BY <1>5
  <2> QED BY <2>1
<1>6. 2^a < 2 * (2^a * 2^c) BY <1>4, <1>5
<1> QED BY <1>2, <1>3, <1>6

(* Quotient and remainder of a number given by them.                         *)
LEMMA Quotient ==
  ASSUME NEW d \in Nat \ {0}, NEW q \in Nat, NEW rest \in 0..d - 1
  PROVE  (q * d + rest) \div d = q /\ (q * d + rest) % d = rest
<1> DEFINE x == q * d + rest
           p == x \div d
           m == x % d
<1>1. x \in Nat
  <2>1. q * d \in Nat OBVIOUS
  <2> QED BY <2>1
<1>2. p \in Int /\ m \in 0..d - 1 /\ x = d * p + m
  <2> HIDE DEF x
  <2> QED BY <1>1
<1>3. x = d * q + rest OBVIOUS
<1> HIDE DEF x, p, m
<1>4. d * p + m = d * q + rest BY <1>2, <1>3
<1>5. ~(p > q)
  <2>1. SUFFICES ASSUME p > q PROVE FALSE OBVIOUS
  <2>2. p - q >= 1 /\ p - q \in Int BY <1>2, <2>1
  <2>3. d * (p - q) >= d BY <2>2
  <2>4. d * (p - q) = d * p - d * q BY <1>2
  <2> QED BY <2>3, <2>4, <1>4, <1>2
<1>6. ~(q > p)
  <2>1. SUFFICES ASSUME q > p PROVE FALSE OBVIOUS
  <2>2. q - p >= 1 /\ q - p \in Int BY <1>2, <2>1
  <2>3. d * (q - p) >= d BY <2>2
  <2>4. d * (q - p) = d * q - d * p BY <1>2
  <2> QED BY <2>3, <2>4, <1>4, <1>2
<1>7. p = q BY <1>5, <1>6, <1>2
<1>8. m = rest BY <1>7, <1>4, <1>2
<1> QED BY <1>7, <1>8 DEF p, m, x

-----------------------------------------------------------------------------
(* The layout of an address.                                                *)

(* The bits of the first levels of a list add up, one level at a time.        *)
LEMMA BitsAddUp ==
  ASSUME NEW dev, NEW levels, Len(levels) \in Nat, \A i \in 1..Len(levels) : width(dev, levels[i]) \in Nat
  PROVE  /\ bits_of(dev, levels, 0) = 0
         /\ \A i \in 0..Len(levels) : bits_of(dev, levels, i) \in Nat
         /\ \A i \in 1..Len(levels) : bits_of(dev, levels, i) = bits_of(dev, levels, i - 1) + width(dev, levels[i])
<1> DEFINE n    == Len(levels)
           w    == [i \in 1..n |-> width(dev, levels[i])]
           step == [i \in 1..n |-> [v \in Nat |-> v + w[i]]]
           sum  == CHOOSE f : f = [i \in 0..n |-> IF i = 0 THEN 0 ELSE f[i - 1] + width(dev, levels[i])]
<1>1. n \in Nat /\ w \in [1..n -> Nat] OBVIOUS
<1>2. \A i \in 1..n : w[i] = width(dev, levels[i]) OBVIOUS
<1>3. step \in [1..n -> [Nat -> Nat]]
  <2> HIDE DEF w, n
  <2> QED BY <1>1
<1>4. \A i \in 1..n, v \in Nat : step[i][v] = v + w[i]
  <2> HIDE DEF w, n
  <2> QED BY <1>1
<1>5. PICK f \in [0..n -> Nat] : Runs(f, 0, step, n)
  <2> HIDE DEF step, n
  <2> QED BY <1>1, <1>3, Iterates
<1>6. ASSUME NEW i \in 0..n PROVE f[i] = IF i = 0 THEN 0 ELSE f[i - 1] + width(dev, levels[i])
  <2>1. CASE i = 0 BY <1>5, <2>1 DEF Runs
  <2>2. CASE i # 0
    <3> HIDE DEF step, w, n
    <3>1. i \in 1..n /\ i - 1 \in 0..n BY <1>1, <2>2
    <3>2. f[i - 1] \in Nat /\ f[i] = step[i][f[i - 1]] BY <1>5, <3>1 DEF Runs
    <3> QED BY <1>2, <1>4, <2>2, <3>1, <3>2
  <2> QED BY <2>1, <2>2
<1>7. f = [i \in 0..n |-> IF i = 0 THEN 0 ELSE f[i - 1] + width(dev, levels[i])]
  <2> HIDE DEF step, w, n
  <2> QED BY <1>5, <1>6
<1>8. sum = [i \in 0..n |-> IF i = 0 THEN 0 ELSE sum[i - 1] + width(dev, levels[i])] BY <1>7
<1>9. \A i \in 0..n : bits_of(dev, levels, i) = sum[i] BY DEF bits_of
<1> HIDE DEF sum, step, w, n
<1>10. sum[0] = 0 /\ \A i \in 1..n : sum[i] = sum[i - 1] + width(dev, levels[i])
  <2>1. sum[0] = 0 BY <1>1, <1>8
  <2>2. ASSUME NEW i \in 1..n PROVE sum[i] = sum[i - 1] + width(dev, levels[i])
    <3>1. i \in 0..n /\ i # 0 BY <1>1
    <3> QED BY <1>8, <3>1
  <2> QED BY <2>1, <2>2
<1>11. \A i \in 0..n : sum[i] \in Nat
  <2> DEFINE S == {i \in 0..n : sum[i] \in Nat}
  <2>1. 0 \in S BY <1>1, <1>10
  <2>2. ASSUME NEW k \in 0..n - 1, k \in S PROVE k + 1 \in S
    <3>1. k + 1 \in 1..n /\ k + 1 - 1 = k /\ k + 1 \in 0..n BY <1>1
    <3>2. sum[k + 1] = sum[k] + width(dev, levels[k + 1]) BY <1>10, <3>1
    <3>3. width(dev, levels[k + 1]) \in Nat BY <1>1, <1>2, <3>1
    <3> QED BY <2>2, <3>1, <3>2, <3>3
  <2>3. \A i \in 0..n : i \in S
    <3> HIDE DEF S
    <3> QED BY <1>1, <2>1, <2>2, Climb
  <2> QED BY <2>3
<1>12. \A i \in 1..n : i \in 0..n /\ i - 1 \in 0..n BY <1>1
<1>13. bits_of(dev, levels, 0) = 0 BY <1>1, <1>9, <1>10
<1>14. \A i \in 0..n : bits_of(dev, levels, i) \in Nat BY <1>9, <1>11
<1>15. \A i \in 1..n : bits_of(dev, levels, i) = bits_of(dev, levels, i - 1) + width(dev, levels[i])
  BY <1>9, <1>10, <1>12
<1> QED BY <1>13, <1>14, <1>15 DEF n

Placement(dev) == <<"column">> \o below_row(dev) \o <<"row">>

(* A valid list of levels has one row, between the channel and the           *)
(* column.                                                                   *)
LEMMA RowIsBetween ==
  ASSUME NEW dev \in Infos, Sound(dev)
  PROVE  /\ Len(dev.level_names) \in Nat /\ row_index(dev) \in 2..Len(dev.level_names) - 1
         /\ dev.level_names[row_index(dev)] = "row"
         /\ dev.level_names[Len(dev.level_names)] = "column"
         /\ \A i, j \in 1..Len(dev.level_names) : dev.level_names[i] = dev.level_names[j] => i = j
<1> DEFINE names == dev.level_names
           n     == Len(names)
           R     == row_index(dev)
<1>1. names \in Seq(STRING) /\ n \in Nat /\ DOMAIN names = 1..n BY InfoAssumption
<1>2. names # <<>> /\ Head(names) = "channel" /\ Last(names) = "column" /\ IsInjective(names)
      /\ Cardinality({i \in DOMAIN names : names[i] = "row"}) = 1
  BY DEF Sound, validate_levels
<1>3. {i \in DOMAIN names : names[i] = "row"} # {}
  <2> DEFINE found == {i \in DOMAIN names : names[i] = "row"}
  <2>1. Cardinality(found) = 1 BY <1>2
  <2> HIDE DEF found
  <2>2. found # {} BY <2>1, FS_EmptySet
  <2> QED BY <2>2 DEF found
<1>4. R \in 1..n /\ names[R] = "row" BY <1>1, <1>3 DEF row_index
<1>5. n # 0 /\ names[1] = "channel" /\ names[n] = "column" BY <1>1, <1>2 DEF Last
<1>6. R # 1 /\ R # n BY <1>4, <1>5
<1>7. \A i, j \in 1..n : names[i] = names[j] => i = j BY <1>1, <1>2 DEF IsInjective
<1> QED BY <1>1, <1>4, <1>5, <1>6, <1>7

(* The fields of an address from the lowest: the column, the levels below    *)
(* the row, the row; each once.                                              *)
LEMMA PlacementIs ==
  ASSUME NEW dev \in Infos, Sound(dev)
  PROVE  /\ Len(Placement(dev)) = row_index(dev) /\ DOMAIN Placement(dev) = 1..row_index(dev)
         /\ Len(below_row(dev)) = row_index(dev) - 2
         /\ Placement(dev)[1] = "column" /\ Placement(dev)[row_index(dev)] = "row"
         /\ \A i \in 2..row_index(dev) - 1 : /\ Placement(dev)[i] = dev.level_names[i]
                                             /\ Placement(dev)[i] = below_row(dev)[i - 1]
         /\ \A i, j \in 1..row_index(dev) : Placement(dev)[i] = Placement(dev)[j] => i = j
<1> DEFINE names == dev.level_names
           n     == Len(names)
           R     == row_index(dev)
           S     == {names[i] : i \in 1..n}
           below == below_row(dev)
           P     == Placement(dev)
<1>1. n \in Nat /\ R \in 2..n - 1 /\ names[R] = "row" /\ names[n] = "column"
      /\ \A i, j \in 1..n : names[i] = names[j] => i = j
  BY RowIsBetween
<1>2. names \in Seq(S)
  <2>1. names \in Seq(STRING) BY InfoAssumption
  <2>2. names \in [1..n -> S] BY <2>1
  <2> HIDE DEF S, n
  <2> QED BY <1>1, <2>2, SeqDef
<1>3. "row" \in S /\ "column" \in S BY <1>1
<1>4. below = SubSeq(names, 2, R - 1) BY DEF below_row
<1> HIDE DEF S, below, P, R, n
<1>5. below \in Seq(S) /\ Len(below) = R - 2 /\ \A i \in 1..R - 2 : below[i] = names[i + 1]
  <2>1. 2 \in 1..n + 1 /\ R - 1 \in 0..n /\ 2 - 1 <= R - 1 BY <1>1
  <2>2. SubSeq(names, 2, R - 1) \in Seq(S) BY <1>1, <1>2, <2>1, SubSeqProperties DEF n
  <2>3. Len(SubSeq(names, 2, R - 1)) = R - 2 BY <1>1, <1>2, <2>1 DEF n
  <2>4. \A i \in 1..R - 2 : SubSeq(names, 2, R - 1)[i] = names[i + 1] BY <1>1, <1>2, <2>1 DEF n
  <2> QED BY <1>4, <2>2, <2>3, <2>4
<1>6. P = <<"column">> \o below \o <<"row">> BY DEF P, Placement, below
<1>7. <<"column">> \in Seq(S) /\ <<"row">> \in Seq(S) BY <1>3
<1>8. Len(P) = R /\ DOMAIN P = 1..R /\ P[1] = "column" /\ P[R] = "row"
      /\ \A i \in 2..R - 1 : P[i] = below[i - 1]
  <2> DEFINE front == <<"column">> \o below
  <2>1. front \in Seq(S) /\ Len(front) = R - 1 /\ front[1] = "column" /\ \A i \in 2..R - 1 : front[i] = below[i - 1]
    BY <1>1, <1>5, <1>7
  <2> HIDE DEF front
  <2>2. P = front \o <<"row">> BY <1>6 DEF front
  <2>3. Len(P) = R /\ DOMAIN P = 1..R BY <1>1, <1>7, <2>1, <2>2
  <2>4. \A i \in 1..R - 1 : P[i] = front[i] BY <1>1, <1>7, <2>1, <2>2
  <2>5. P[R] = "row" BY <1>1, <1>7, <2>1, <2>2
  <2> QED BY <1>1, <2>1, <2>3, <2>4, <2>5
<1>9. \A i \in 2..R - 1 : P[i] = names[i]
  <2>1. ASSUME NEW i \in 2..R - 1 PROVE P[i] = names[i]
    <3>1. i - 1 \in 1..R - 2 /\ i - 1 + 1 = i BY <1>1
    <3> QED BY <1>5, <1>8, <3>1
  <2> QED BY <2>1
<1>10. \A i \in 1..R : P[i] = names[IF i = 1 THEN n ELSE i] BY <1>1, <1>8, <1>9
<1>11. ASSUME NEW i \in 1..R, NEW j \in 1..R, P[i] = P[j] PROVE i = j
  <2>1. (IF i = 1 THEN n ELSE i) \in 1..n /\ (IF j = 1 THEN n ELSE j) \in 1..n BY <1>1
  <2>2. (IF i = 1 THEN n ELSE i) = (IF j = 1 THEN n ELSE j) BY <1>1, <1>10, <1>11, <2>1
  <2> QED BY <1>1, <2>2
<1> QED BY <1>5, <1>8, <1>9, <1>11 DEF R, P, below

(* A power of two has its logarithm, and a larger one has a larger.           *)
LEMMA LogIs ==
  ASSUME NEW n \in Nat, IsPowerOfTwo(n)
  PROVE  log2_exact(n) \in Nat /\ 2^log2_exact(n) = n
<1>1. \E k \in 0..n : 2^k = n BY DEF IsPowerOfTwo
<1>2. log2_exact(n) \in 0..n /\ 2^log2_exact(n) = n BY <1>1 DEF log2_exact
<1> QED BY <1>2

(* Logarithms of powers of two keep their order.                             *)
LEMMA LogGrows ==
  ASSUME NEW n \in Nat, NEW m \in Nat, IsPowerOfTwo(n), IsPowerOfTwo(m), m <= n
  PROVE  log2_exact(n) - log2_exact(m) \in Nat
<1> DEFINE a == log2_exact(n)
           b == log2_exact(m)
<1>1. a \in Nat /\ b \in Nat /\ 2^a = n /\ 2^b = m BY LogIs
<1> HIDE DEF a, b
<1>2. ~(a < b)
  <2>1. SUFFICES ASSUME a < b PROVE FALSE OBVIOUS
  <2>2. 2^a < 2^b BY <1>1, <2>1, PowerGrows
  <2> QED BY <1>1, <2>2
<1>3. a - b \in Nat BY <1>1, <1>2
<1> QED BY <1>3 DEF a, b

(* Every placed level has a width.                                           *)
LEMMA WidthsAre ==
  ASSUME NEW dev \in Infos, Sound(dev)
  PROVE  /\ \A i \in 1..row_index(dev) : width(dev, Placement(dev)[i]) \in Nat
         /\ log2_exact(dev.tx_bytes) \in Nat
<1> DEFINE names == dev.level_names
           sizes == dev.level_sizes
           n     == Len(names)
           R     == row_index(dev)
           P     == Placement(dev)
<1>1. n \in Nat /\ R \in 2..n - 1 /\ names[R] = "row" /\ names[n] = "column"
      /\ \A i, j \in 1..n : names[i] = names[j] => i = j
  BY RowIsBetween
<1>2. names \in Seq(STRING) /\ sizes \in Seq(Nat) /\ Len(sizes) = n /\ dev.tx_bytes \in Nat /\ dev.prefetch \in Nat
  BY InfoAssumption DEF Sound, validate_levels
<1>3. DOMAIN names = 1..n /\ \A i \in 1..n : sizes[i] \in Nat BY <1>2
<1>4. /\ IsPowerOfTwo(dev.tx_bytes) /\ IsPowerOfTwo(dev.prefetch)
      /\ \A i \in 2..n : IsPowerOfTwo(sizes[i])
      /\ level_size(dev, "column") >= dev.prefetch
  BY DEF Sound, Projectable
<1>5. ASSUME NEW i \in 1..n PROVE level_size(dev, names[i]) = sizes[i]
  <2> DEFINE at == CHOOSE j \in DOMAIN names : names[j] = names[i]
  <2>1. at \in DOMAIN names /\ names[at] = names[i] BY <1>3
  <2>2. at = i BY <1>1, <1>3, <2>1
  <2>3. level_size(dev, names[i]) = sizes[at] BY DEF level_size
  <2> QED BY <2>2, <2>3
<1>6. /\ P[1] = "column" /\ P[R] = "row" /\ \A i \in 2..R - 1 : P[i] = names[i] BY PlacementIs
<1>7. log2_exact(dev.tx_bytes) \in Nat BY <1>2, <1>4, LogIs
<1> HIDE DEF P, R, n
<1>8. ASSUME NEW i \in 2..R PROVE width(dev, P[i]) \in Nat
  <2>1. i \in 1..n /\ i \in 2..n /\ i # n /\ n \in 1..n BY <1>1
  <2>2. P[i] = names[i] BY <1>1, <1>6, <2>1
  <2>3. names[i] # "column" BY <1>1, <2>1
  <2>4. log2_exact(sizes[i]) \in Nat BY <1>3, <1>4, <2>1, LogIs
  <2>5. width(dev, P[i]) = log2_exact(sizes[i]) - 0 BY <1>5, <2>1, <2>2, <2>3 DEF width
  <2> QED BY <2>4, <2>5
<1>9. width(dev, P[1]) \in Nat
  <2>1. n \in 1..n /\ n \in 2..n BY <1>1
  <2>2. level_size(dev, "column") = sizes[n] BY <1>1, <1>5, <2>1
  <2>3. IsPowerOfTwo(sizes[n]) /\ sizes[n] \in Nat /\ dev.prefetch <= sizes[n] BY <1>2, <1>3, <1>4, <2>1, <2>2
  <2>4. log2_exact(sizes[n]) - log2_exact(dev.prefetch) \in Nat BY <1>2, <1>4, <2>3, LogGrows
  <2> QED BY <1>6, <2>2, <2>4 DEF width
<1>10. \A i \in 1..R : i = 1 \/ i \in 2..R BY <1>1
<1>11. \A i \in 1..R : width(dev, P[i]) \in Nat BY <1>8, <1>9, <1>10
<1> QED BY <1>7, <1>11 DEF P, R

(* Fields do not overlap, and the row is on top of them.                      *)
Layout(m) ==
  /\ {"row", "column"} \subseteq Fields(m) /\ "channel" \notin Fields(m)
  /\ \A f \in Fields(m) : m.widths[f] \in Nat /\ m.shifts[f] \in Nat
  /\ \A f \in Fields(m) \ {"row"} : m.shifts[f] + m.widths[f] <= m.shifts["row"]
  /\ \A f, g \in Fields(m) : f # g =>
       m.shifts[f] + m.widths[f] <= m.shifts[g] \/ m.shifts[g] + m.widths[g] <= m.shifts[f]
  /\ m.row_stride = 2^m.shifts["row"]
  /\ m.capacity = 2^(m.shifts["row"] + m.widths["row"])

(* Each begins where the one before it ends, the first above a transaction.    *)
Stack(m, P, R) ==
  /\ R \in Nat \ {0, 1} /\ DOMAIN P = 1..R /\ P[1] = "column" /\ P[R] = "row"
  /\ Fields(m) = {P[i] : i \in 1..R} /\ \A i, j \in 1..R : P[i] = P[j] => i = j
  /\ m.tx_offset \in Nat /\ m.shifts["column"] = m.tx_offset
  /\ \A i \in 1..R - 1 : m.shifts[P[i + 1]] = m.shifts[P[i]] + m.widths[P[i]]
  /\ \A i, j \in 1..R : i < j => m.shifts[P[i]] + m.widths[P[i]] <= m.shifts[P[j]]
Stacked(m) == Stack(m, m.placement, Len(m.placement))

(* The address mapper of every sound device has such a layout.               *)
LEMMA LayoutIs ==
  ASSUME NEW dev \in Infos, Sound(dev)
  PROVE  Layout(AddressMapper(dev)) /\ Stacked(AddressMapper(dev))
<1> DEFINE R  == row_index(dev)
           P  == Placement(dev)
           m  == AddressMapper(dev)
           tx == log2_exact(dev.tx_bytes)
           W(i) == width(dev, P[i])
           T(i) == bits_of(dev, P, i)
           position(f) == CHOOSE i \in DOMAIN P : P[i] = f
<1>1. /\ R \in Nat \ {0, 1} /\ Len(P) = R /\ DOMAIN P = 1..R
      /\ P[1] = "column" /\ P[R] = "row"
      /\ \A i, j \in 1..R : P[i] = P[j] => i = j
  BY RowIsBetween, PlacementIs
<1>2. tx \in Nat /\ \A i \in 1..R : W(i) \in Nat BY WidthsAre
<1>3. T(0) = 0 /\ (\A i \in 0..R : T(i) \in Nat) /\ \A i \in 1..R : T(i) = T(i - 1) + W(i)
  BY <1>1, <1>2, BitsAddUp
<1>4. ToSet(P) = {P[i] : i \in 1..R} BY <1>1 DEF ToSet
<1>5. \A i \in 1..R : position(P[i]) = i BY <1>1
<1>6. /\ m.widths = [f \in ToSet(P) |-> width(dev, f)]
      /\ m.shifts = [f \in ToSet(P) |-> tx + bits_of(dev, P, position(f) - 1)]
      /\ m.capacity = 2^(tx + bits_of(dev, P, Len(P)))
      /\ m.row_stride = row_stride(dev) /\ m.placement = P /\ m.tx_offset = tx
  BY DEF AddressMapper, Placement
<1>7. Fields(m) = {P[i] : i \in 1..R} BY <1>4, <1>6 DEF Fields
<1> HIDE DEF P, m, tx, R, position
<1>8. ASSUME NEW i \in 1..R PROVE m.widths[P[i]] = W(i) /\ m.shifts[P[i]] = tx + T(i - 1)
  <2>1. P[i] \in ToSet(P) BY <1>4
  <2> QED BY <1>5, <1>6, <2>1
<1> HIDE DEF W, T
<1>9. ASSUME NEW i \in 1..R PROVE W(i) \in Nat /\ T(i - 1) \in Nat /\ T(i) = T(i - 1) + W(i)
  <2>1. i - 1 \in 0..R BY <1>1
  <2> QED BY <1>2, <1>3, <2>1
<1>10. \A i \in 0..R : \A j \in 0..i : T(j) <= T(i)
  <2> DEFINE S == {i \in 0..R : \A j \in 0..i : T(j) <= T(i)}
  <2>1. 0 \in S BY <1>1, <1>3
  <2>2. ASSUME NEW k \in 0..R - 1, k \in S PROVE k + 1 \in S
    <3>1. k + 1 \in 1..R /\ k + 1 - 1 = k /\ k + 1 \in 0..R /\ k \in 0..R BY <1>1
    <3>2. T(k + 1) = T(k) + W(k + 1) /\ W(k + 1) \in Nat /\ T(k) \in Nat BY <1>9, <3>1
    <3>3. ASSUME NEW j \in 0..k + 1 PROVE T(j) <= T(k + 1)
      <4>1. CASE j = k + 1 BY <3>2, <4>1
      <4>2. CASE j # k + 1
        <5>1. j \in 0..k /\ j \in 0..R BY <1>1, <3>1, <4>2
        <5>2. T(j) <= T(k) /\ T(j) \in Nat BY <1>3, <2>2, <5>1
        <5> QED BY <3>2, <5>2
      <4> QED BY <4>1, <4>2
    <3> QED BY <3>1, <3>3
  <2>3. \A i \in 0..R : i \in S
    <3> HIDE DEF S
    <3> QED BY <1>1, <2>1, <2>2, Climb
  <2> QED BY <2>3
<1>11. ASSUME NEW i \in 1..R, NEW j \in 1..R, i < j
       PROVE  m.shifts[P[i]] + m.widths[P[i]] <= m.shifts[P[j]]
  <2>1. i \in 0..j - 1 /\ j - 1 \in 0..R /\ i \in 0..R BY <1>1, <1>11
  <2>2. T(i) <= T(j - 1) /\ T(i) \in Nat /\ T(j - 1) \in Nat BY <1>3, <1>10, <2>1
  <2>3. m.shifts[P[i]] + m.widths[P[i]] = tx + T(i) BY <1>2, <1>8, <1>9
  <2> QED BY <1>2, <1>8, <2>2, <2>3
<1>12. m.row_stride = 2^m.shifts["row"]
  <2> DEFINE below == below_row(dev)
             U(i)  == bits_of(dev, below, i)
  <2>1. Len(below) = R - 2 /\ \A i \in 2..R - 1 : P[i] = below[i - 1] BY PlacementIs DEF P, R
  <2>2. R - 2 \in Nat BY <1>1
  <2> HIDE DEF below
  <2>3. \A i \in 1..R - 2 : i + 1 \in 2..R - 1 /\ i + 1 \in 1..R /\ i + 1 - 1 = i BY <1>1
  <2>4. \A i \in 1..R - 2 : width(dev, below[i]) = W(i + 1) /\ W(i + 1) \in Nat BY <1>2, <2>1, <2>3 DEF W
  <2>5. U(0) = 0 /\ (\A i \in 0..R - 2 : U(i) \in Nat) /\ \A i \in 1..R - 2 : U(i) = U(i - 1) + width(dev, below[i])
    <3>1. Len(below) \in Nat /\ \A i \in 1..Len(below) : width(dev, below[i]) \in Nat BY <2>1, <2>2, <2>4
    <3>2. /\ U(0) = 0 /\ (\A i \in 0..Len(below) : U(i) \in Nat)
          /\ \A i \in 1..Len(below) : U(i) = U(i - 1) + width(dev, below[i])
      BY <3>1, BitsAddUp
    <3> QED BY <2>1, <3>2
  <2> HIDE DEF U
  <2>6. \A i \in 0..R - 2 : T(i + 1) = W(1) + U(i)
    <3> DEFINE S == {i \in 0..R - 2 : T(i + 1) = W(1) + U(i)}
    <3>1. 0 \in S
      <4>1. 1 \in 1..R /\ 0 \in 0..R - 2 BY <1>1
      <4>2. T(0 + 1) = W(1) + U(0) BY <1>3, <1>9, <2>5, <4>1
      <4> QED BY <4>1, <4>2
    <3>2. ASSUME NEW k \in 0..R - 2 - 1, k \in S PROVE k + 1 \in S
      <4>1. k + 1 \in 1..R - 2 /\ k + 1 \in 0..R - 2 /\ k + 1 - 1 = k /\ k + 1 + 1 \in 1..R /\ k + 1 + 1 - 1 = k + 1
            /\ k \in 0..R - 2 /\ 1 \in 1..R
        BY <1>1, <2>2
      <4>2. U(k + 1) = U(k) + W(k + 1 + 1) BY <2>4, <2>5, <4>1
      <4>3. T(k + 1 + 1) = T(k + 1) + W(k + 1 + 1) BY <1>9, <4>1
      <4>4. T(k + 1) = W(1) + U(k) BY <3>2
      <4>5. W(1) \in Nat /\ U(k) \in Nat /\ W(k + 1 + 1) \in Nat BY <1>9, <2>5, <4>1
      <4>6. T(k + 1 + 1) = W(1) + U(k + 1) BY <4>2, <4>3, <4>4, <4>5
      <4> QED BY <4>1, <4>6
    <3>3. \A i \in 0..R - 2 : i \in S
      <4> HIDE DEF S
      <4> QED BY <2>2, <3>1, <3>2, Climb
    <3> QED BY <3>3
  <2>7. R - 2 \in 0..R - 2 /\ R - 2 + 1 = R - 1 /\ 1 \in 1..R BY <1>1, <2>2
  <2>8. T(R - 1) = W(1) + U(R - 2) BY <2>6, <2>7
  <2>9. row_stride(dev) = 2^(tx + W(1) + U(R - 2)) BY <1>1, <2>1 DEF row_stride, below, U, W, tx
  <2>10. R \in 1..R BY <1>1
  <2>11. m.shifts["row"] = tx + T(R - 1) BY <1>1, <1>8, <2>10
  <2>12. tx + W(1) + U(R - 2) = tx + T(R - 1) BY <1>2, <1>9, <2>5, <2>7, <2>8
  <2> QED BY <1>6, <2>9, <2>11, <2>12
<1>13. m.capacity = 2^(m.shifts["row"] + m.widths["row"])
  <2>1. R \in 1..R BY <1>1
  <2>2. m.shifts["row"] + m.widths["row"] = tx + T(R)
    <3>1. m.shifts["row"] = tx + T(R - 1) /\ m.widths["row"] = W(R) BY <1>1, <1>8, <2>1
    <3>2. T(R) = T(R - 1) + W(R) /\ T(R - 1) \in Nat /\ W(R) \in Nat BY <1>9, <2>1
    <3> QED BY <1>2, <3>1, <3>2
  <2>3. m.capacity = 2^(tx + T(R)) BY <1>1, <1>6 DEF T
  <2> QED BY <2>2, <2>3
<1>14. \A f \in Fields(m) : \E i \in 1..R : f = P[i] BY <1>7
<1>15. \A f \in Fields(m) : m.widths[f] \in Nat /\ m.shifts[f] \in Nat BY <1>2, <1>8, <1>9, <1>14
<1>16. ASSUME NEW f \in Fields(m), NEW g \in Fields(m), f # g
       PROVE  m.shifts[f] + m.widths[f] <= m.shifts[g] \/ m.shifts[g] + m.widths[g] <= m.shifts[f]
  <2>1. PICK i \in 1..R : f = P[i] BY <1>14
  <2>2. PICK j \in 1..R : g = P[j] BY <1>14
  <2>3. i < j \/ j < i BY <1>1, <1>16, <2>1, <2>2
  <2> QED BY <1>11, <2>1, <2>2, <2>3
<1>17. ASSUME NEW f \in Fields(m) \ {"row"} PROVE m.shifts[f] + m.widths[f] <= m.shifts["row"]
  <2>1. PICK i \in 1..R : f = P[i] BY <1>14
  <2>2. i # R /\ R \in 1..R /\ i < R BY <1>1, <2>1
  <2> QED BY <1>1, <1>11, <2>1, <2>2
<1>18. {"row", "column"} \subseteq Fields(m)
  <2>1. 1 \in 1..R /\ R \in 1..R BY <1>1
  <2> QED BY <1>1, <1>7, <2>1
<1>19. "channel" \notin Fields(m)
  <2> DEFINE names == dev.level_names
             n     == Len(names)
  <2>1. n \in Nat /\ R \in 2..n - 1 /\ names[R] = "row" /\ \A i, j \in 1..n : names[i] = names[j] => i = j
    BY RowIsBetween DEF R
  <2>2. names[1] = "channel" BY InfoAssumption DEF Sound, validate_levels
  <2>3. \A i \in 2..R - 1 : P[i] = names[i] BY PlacementIs DEF P, R
  <2> HIDE DEF names, n
  <2>4. ASSUME NEW i \in 1..R PROVE P[i] # "channel"
    <3>1. CASE i = 1 \/ i = R BY <1>1, <3>1
    <3>2. CASE i \in 2..R - 1
      <4>1. i \in 1..n /\ 1 \in 1..n /\ i # 1 BY <2>1, <3>2
      <4> QED BY <2>1, <2>2, <2>3, <3>2, <4>1
    <3> QED BY <1>1, <3>1, <3>2
  <2> QED BY <1>14, <2>4
<1>20. Layout(m) BY <1>12, <1>13, <1>15, <1>16, <1>17, <1>18, <1>19 DEF Layout
<1>21. Stacked(m)
  <2>1. m.shifts["column"] = tx
    <3>1. 1 \in 1..R /\ 1 - 1 = 0 BY <1>1
    <3> QED BY <1>1, <1>2, <1>3, <1>8, <3>1 DEF T
  <2>2. ASSUME NEW i \in 1..R - 1 PROVE m.shifts[P[i + 1]] = m.shifts[P[i]] + m.widths[P[i]]
    <3>1. PICK e \in 1..R : e = i + 1 /\ e - 1 = i
      <4>1. i + 1 \in 1..R /\ i + 1 - 1 = i BY <1>1
      <4> QED BY <4>1
    <3>2. i \in 1..R BY <1>1
    <3>3. m.shifts[P[e]] = tx + T(i) BY <1>8, <3>1
    <3>4. m.shifts[P[i]] = tx + T(i - 1) /\ m.widths[P[i]] = W(i) BY <1>8, <3>2
    <3> QED BY <1>2, <1>9, <3>1, <3>2, <3>3, <3>4
  <2>3. m.tx_offset = tx /\ m.placement = P /\ Len(m.placement) = R BY <1>1, <1>6
  <2>4. Stack(m, P, R) BY <1>1, <1>2, <1>7, <1>11, <2>1, <2>2, <2>3 DEF Stack
  <2> QED BY <2>3, <2>4 DEF Stacked
<1> QED BY <1>20, <1>21 DEF m

-----------------------------------------------------------------------------
(* Fields of a number.                                                      *)

(* Multiples of a unit, below a limit.                                       *)
LEMMA Below ==
  ASSUME NEW a \in Nat \ {0}, NEW b \in Nat \ {0}, NEW v \in 0..b - 1, NEW low \in 0..a - 1
  PROVE  v * a + low \in 0..a * b - 1 /\ a * b \in Nat \ {0}
<1>1. v * a \in Nat /\ a * b \in Nat /\ a * b >= a OBVIOUS
<1>2. (b - 1 - v) * a >= 0 OBVIOUS
<1>3. (b - 1 - v) * a = a * b - a - v * a OBVIOUS
<1> QED BY <1>1, <1>2, <1>3

(* Two fields under a third.                                                 *)
Packed(x, row, s, v2, s2, v1, s1) == x = row * 2^s + v2 * 2^s2 + v1 * 2^s1

Apart(s, s2, w2, s1, w1) ==
  /\ s \in Nat /\ s2 \in Nat /\ w2 \in Nat /\ s1 \in Nat /\ w1 \in Nat
  /\ s1 + w1 <= s2 /\ s2 + w2 <= s

Unpacks(x, row, s, v2, s2, w2, v1, s1, w1) ==
  /\ (x \div 2^s1) % 2^w1 = v1
  /\ (x \div 2^s2) % 2^w2 = v2
  /\ x \div 2^s = row /\ x - row * 2^s \in 0..2^s - 1 /\ x \in Nat

(* Each of two fields under a third is read back.                            *)
LEMMA TwoFields ==
  ASSUME NEW s, NEW s2, NEW w2, NEW s1, NEW w1, Apart(s, s2, w2, s1, w1),
         NEW v1 \in 0..2^w1 - 1, NEW v2 \in 0..2^w2 - 1, NEW row \in Nat, NEW x,
         Packed(x, row, s, v2, s2, v1, s1)
  PROVE  Unpacks(x, row, s, v2, s2, w2, v1, s1, w1)
<1>0. /\ s \in Nat /\ s2 \in Nat /\ w2 \in Nat /\ s1 \in Nat /\ w1 \in Nat
      /\ s1 + w1 <= s2 /\ s2 + w2 <= s
  BY DEF Apart
<1> DEFINE A == 2^s1
           B == 2^w1
           C == 2^(s2 - (s1 + w1))
           D == 2^w2
           E == 2^(s - (s2 + w2))
           U == 2^s2
           V == 2^s
<1>1. A \in Nat \ {0} /\ B \in Nat \ {0} /\ D \in Nat \ {0} /\ U \in Nat \ {0} /\ V \in Nat \ {0} BY <1>0, PowerIsPositive
<1>2. s2 - (s1 + w1) \in Nat /\ s - (s2 + w2) \in Nat BY <1>0
<1>3. C \in Nat \ {0} /\ E \in Nat \ {0} BY <1>2, PowerIsPositive
<1>4. U = A * B * C
  <2>1. 2^(s1 + w1) = A * B BY <1>0, PowerOfSum
  <2>2. s1 + w1 \in Nat /\ s2 = (s1 + w1) + (s2 - (s1 + w1)) BY <1>0
  <2>3. 2^((s1 + w1) + (s2 - (s1 + w1))) = 2^(s1 + w1) * C BY <1>2, <2>2, PowerOfSum
  <2> QED BY <2>1, <2>2, <2>3
<1>5. V = U * D * E
  <2>1. 2^(s2 + w2) = U * D BY <1>0, PowerOfSum
  <2>2. s2 + w2 \in Nat /\ s = (s2 + w2) + (s - (s2 + w2)) BY <1>0
  <2>3. 2^((s2 + w2) + (s - (s2 + w2))) = 2^(s2 + w2) * E BY <1>2, <2>2, PowerOfSum
  <2> QED BY <2>1, <2>2, <2>3
<1>6. v1 \in 0..B - 1 /\ v2 \in 0..D - 1 /\ x = row * V + v2 * U + v1 * A BY DEF Packed
<1> HIDE DEF A, B, C, D, E, U, V
<1>7. v1 \in Nat /\ v2 \in Nat BY <1>1, <1>6
<1>8. v1 * A \in 0..U - 1
  <2>1. 0 \in 0..A - 1 BY <1>1
  <2>2. v1 * A + 0 \in 0..A * B - 1 /\ A * B \in Nat \ {0} BY <1>1, <1>6, <2>1, Below
  <2>3. A * B * C >= A * B BY <1>3, <2>2
  <2>4. v1 * A \in Nat BY <1>1, <1>7
  <2> QED BY <1>1, <1>4, <2>2, <2>3, <2>4
<1>9. v2 * U + v1 * A \in 0..V - 1
  <2>1. v2 * U + v1 * A \in 0..U * D - 1 /\ U * D \in Nat \ {0} BY <1>1, <1>6, <1>8, Below
  <2>2. U * D * E >= U * D BY <1>3, <2>1
  <2> QED BY <1>1, <1>5, <2>1, <2>2
<1>10. (x \div A) % B = v1
  <2> DEFINE high == row * C * D * E + v2 * C
  <2>1. high \in Nat
    <3>1. C * D \in Nat BY <1>1, <1>3
    <3>2. C * D * E \in Nat BY <1>3, <3>1
    <3>3. row * C * D * E = row * (C * D * E) BY <1>1, <1>3
    <3>4. row * (C * D * E) \in Nat BY <3>2
    <3>5. v2 * C \in Nat BY <1>3, <1>7
    <3> QED BY <3>3, <3>4, <3>5
  <2>2. x = (high * B + v1) * A + 0
    <3>1. x = row * (A * B * C * D * E) + v2 * (A * B * C) + v1 * A BY <1>4, <1>5, <1>6
    <3>2. row * (A * B * C * D * E) + v2 * (A * B * C) + v1 * A = ((row * C * D * E + v2 * C) * B + v1) * A
      BY <1>1, <1>3, <1>7
    <3>3. ((row * C * D * E + v2 * C) * B + v1) * A \in Int
      <4> HIDE DEF high
      <4>1. (high * B + v1) * A \in Int BY <1>1, <1>7, <2>1
      <4> QED BY <4>1 DEF high
    <3> QED BY <3>1, <3>2, <3>3
  <2>3. 0 \in 0..A - 1 BY <1>1
  <2> HIDE DEF high
  <2> DEFINE y == high * B + v1
  <2>4. y \in Nat
    <3>1. high * B \in Nat BY <1>1, <2>1
    <3> QED BY <1>7, <3>1
  <2>5. y % B = v1 BY <1>1, <1>6, <2>1, Quotient
  <2>6. x = y * A + 0 BY <2>2
  <2> HIDE DEF y
  <2>7. x \div A = y BY <1>1, <2>3, <2>4, <2>6, Quotient
  <2> QED BY <2>5, <2>7
<1>11. (x \div U) % D = v2
  <2> DEFINE high == row * E
  <2>1. high \in Nat BY <1>3
  <2>2. x = (high * D + v2) * U + v1 * A
    <3>1. row * (U * D * E) + v2 * U = (row * E * D + v2) * U BY <1>1, <1>3, <1>7
    <3> QED BY <1>5, <1>6, <3>1
  <2> HIDE DEF high
  <2> DEFINE y == high * D + v2
  <2>3. y \in Nat
    <3>1. high * D \in Nat BY <1>1, <2>1
    <3> QED BY <1>7, <3>1
  <2>4. y % D = v2 BY <1>1, <1>6, <2>1, Quotient
  <2>5. x = y * U + v1 * A BY <2>2
  <2> HIDE DEF y
  <2>6. x \div U = y BY <1>1, <1>8, <2>3, <2>5, Quotient
  <2> QED BY <2>4, <2>6
<1>12. x = row * V + (v2 * U + v1 * A) /\ row * V \in Nat
  <2>1. row * V \in Nat /\ v2 * U \in Nat /\ v1 * A \in Nat BY <1>1, <1>7
  <2> QED BY <1>6, <2>1
<1>13. x \div V = row BY <1>1, <1>9, <1>12, Quotient
<1>14. x - row * V \in 0..V - 1 /\ x \in Nat BY <1>1, <1>9, <1>12
<1> QED BY <1>10, <1>11, <1>13, <1>14 DEF Unpacks, A, B, D, U, V

(* A number below the divisor is its own remainder.                          *)
LEMMA SmallRest ==
  ASSUME NEW d \in Nat \ {0}, NEW v \in 0..d - 1
  PROVE  v % d = v
<1>1. v = 0 * d + v BY SMT
<1>2. (0 * d + v) % d = v BY Quotient
<1> QED BY <1>1, <1>2

-----------------------------------------------------------------------------
(* Bits of a number.                                                         *)

(* A quotient is what its number is made of, above a rest.                    *)
LEMMA Division ==
  ASSUME NEW d \in Nat \ {0}, NEW x \in Nat
  PROVE  x \div d \in Nat /\ x % d \in 0..d - 1 /\ x = (x \div d) * d + (x % d)
<1>1. x \div d \in Int /\ x % d \in 0..d - 1 /\ x = d * (x \div d) + (x % d) OBVIOUS
<1> DEFINE q == x \div d
           m == x % d
<1> HIDE DEF q, m
<1>2. q \in Int /\ m \in 0..d - 1 /\ x = d * q + m BY <1>1 DEF q, m
<1>3. ~(q < 0)
  <2>1. SUFFICES ASSUME q < 0 PROVE FALSE OBVIOUS
  <2>2. -1 - q >= 0 /\ -1 - q \in Nat BY <1>2, <2>1
  <2>3. d * (-1 - q) >= 0 BY <2>2
  <2>4. d * (-1 - q) = 0 - d - d * q BY <1>2
  <2> QED BY <1>2, <2>3, <2>4
<1>4. q \in Nat BY <1>2, <1>3
<1>5. d * q = q * d BY <1>2
<1>6. x = q * d + m BY <1>2, <1>5
<1> QED BY <1>2, <1>4, <1>6 DEF q, m

(* Dividing twice.                                                           *)
LEMMA DivideTwice ==
  ASSUME NEW a \in Nat \ {0}, NEW b \in Nat \ {0}, NEW x \in Nat
  PROVE  (x \div a) \div b = x \div (a * b)
<1> DEFINE y == x \div a
           q == y \div b
           m == x % a
           s == y % b
<1>1. y \in Nat /\ m \in 0..a - 1 /\ x = y * a + m BY Division
<1>2. q \in Nat /\ s \in 0..b - 1 /\ y = q * b + s
  <2> HIDE DEF y
  <2> QED BY <1>1, Division
<1> HIDE DEF y, q, m, s
<1>3. a * b \in Nat \ {0} OBVIOUS
<1>4. s * a + m \in 0..a * b - 1
  <2>1. s * a \in Nat /\ s * a + m \in Nat BY <1>1, <1>2
  <2>2. (b - 1 - s) * a >= 0 BY <1>2
  <2>3. (b - 1 - s) * a = a * b - a - s * a BY <1>2
  <2>4. a * b \in Nat /\ a * b - a - s * a >= 0 BY <2>2, <2>3
  <2> QED BY <1>1, <2>1, <2>4
<1>5. x = q * (a * b) + (s * a + m)
  <2>1. y * a = (q * b + s) * a BY <1>2
  <2>2. (q * b + s) * a = q * (a * b) + s * a BY <1>2
  <2>3. q * (a * b) \in Nat /\ s * a \in Nat BY <1>2
  <2> QED BY <1>1, <2>1, <2>2, <2>3
<1> DEFINE c    == a * b
           rest == s * a + m
<1> HIDE DEF c, rest
<1>6. c \in Nat \ {0} /\ rest \in 0..c - 1 /\ x = q * c + rest BY <1>3, <1>4, <1>5 DEF c, rest
<1>7. (q * c + rest) \div c = q BY <1>2, <1>6, Quotient
<1>8. x \div c = q BY <1>6, <1>7
<1> QED BY <1>8 DEF c, q, y

(* Bits of a quotient by a power.                                            *)
LEMMA BitsOfQuotient ==
  ASSUME NEW x \in Nat, NEW k \in Nat, NEW p \in Nat
  PROVE  x \div 2^k \in Nat /\ (Bit(x \div 2^k, p) <=> Bit(x, k + p))
<1>1. 2^k \in Nat \ {0} /\ 2^p \in Nat \ {0} /\ 2^(k + p) = 2^k * 2^p BY PowerIsPositive, PowerOfSum
<1>2. (x \div 2^k) \div 2^p = x \div (2^k * 2^p) BY <1>1, DivideTwice
<1>3. x \div 2^k \in Nat BY <1>1, Division
<1> QED BY <1>1, <1>2, <1>3 DEF Bit

(* A small number has no high bits, and one without its top bit is smaller.    *)
LEMMA NoHighBits ==
  ASSUME NEW k \in Nat, NEW x \in 0..2^k - 1, NEW p \in Nat, k <= p
  PROVE  ~Bit(x, p)
<1>1. 2^k \in Nat \ {0} /\ 2^p \in Nat \ {0} BY PowerIsPositive
<1>2. 2^k <= 2^p
  <2>1. CASE k = p BY <1>1, <2>1
  <2>2. CASE k # p BY <1>1, <2>2, PowerGrows
  <2> QED BY <2>1, <2>2
<1>3. x \in 0..2^p - 1 BY <1>1, <1>2
<1>4. x = 0 * 2^p + x BY <1>1, <1>3
<1>5. (0 * 2^p + x) \div 2^p = 0 BY <1>1, <1>3, Quotient
<1>6. x \div 2^p = 0 BY <1>4, <1>5
<1>7. 0 % 2 = 0 OBVIOUS
<1>8. (x \div 2^p) % 2 = 0 BY <1>6, <1>7
<1> QED BY <1>8 DEF Bit

(* A number has the top bit when it is at least its power.                   *)
LEMMA TopBit ==
  ASSUME NEW k \in Nat, NEW x \in 0..2^(k + 1) - 1
  PROVE  Bit(x, k) <=> x >= 2^k
<1>1. 2^k \in Nat \ {0} /\ 2^(k + 1) = 2 * 2^k BY PowerIsPositive
<1> DEFINE d == 2^k
           q == x \div d
           m == x % d
<1>2. x \in Nat BY <1>1
<1>3. q \in Nat /\ m \in 0..d - 1 /\ x = q * d + m BY <1>1, <1>2, Division
<1>4. d \in Nat \ {0} /\ x < 2 * d BY <1>1
<1>5. Bit(x, k) <=> q % 2 = 1 BY DEF Bit
<1> HIDE DEF d, q, m
<1>6. q \in {0, 1}
  <2>1. SUFFICES ASSUME q >= 2 PROVE FALSE BY <1>3
  <2>2. (q - 2) * d >= 0 BY <1>3, <1>4, <2>1
  <2>3. (q - 2) * d = q * d - 2 * d BY <1>3, <1>4
  <2> QED BY <1>3, <1>4, <2>2, <2>3
<1>7. CASE q = 0
  <2>1. q % 2 = 0 /\ x = m BY <1>3, <1>4, <1>7
  <2> QED BY <1>3, <1>4, <1>5, <2>1 DEF d
<1>8. CASE q = 1
  <2>1. q % 2 = 1 /\ x = d + m BY <1>3, <1>4, <1>8
  <2> QED BY <1>3, <1>4, <1>5, <2>1 DEF d
<1> QED BY <1>6, <1>7, <1>8

(* Bits of two numbers put together.                                         *)
LEMMA BitsOfSum ==
  ASSUME NEW h \in Nat, NEW k \in Nat, NEW l \in 0..2^k - 1, NEW p \in Nat
  PROVE  /\ h * 2^k + l \in Nat
         /\ p < k => (Bit(h * 2^k + l, p) <=> Bit(l, p))
         /\ p >= k => (Bit(h * 2^k + l, p) <=> Bit(h, p - k))
<1> DEFINE x == h * 2^k + l
<1>1. 2^k \in Nat \ {0} /\ x \in Nat
  <2>1. 2^k \in Nat \ {0} BY PowerIsPositive
  <2>2. h * 2^k \in Nat BY <2>1
  <2> QED BY <2>1, <2>2
<1>2. ASSUME p >= k PROVE Bit(x, p) <=> Bit(h, p - k)
  <2>1. x \div 2^k = h BY <1>1, Quotient
  <2>2. p - k \in Nat /\ k + (p - k) = p BY <1>2
  <2> HIDE DEF x
  <2>3. Bit(x \div 2^k, p - k) <=> Bit(x, k + (p - k)) BY <1>1, <2>2, BitsOfQuotient
  <2> QED BY <2>1, <2>2, <2>3
<1>3. ASSUME p < k PROVE Bit(x, p) <=> Bit(l, p)
  <2> DEFINE d == 2^p
             c == 2^(k - p - 1)
             q == l \div d
             m == l % d
  <2>1. k - p - 1 \in Nat /\ k = p + (k - p - 1) + 1 BY <1>3
  <2>2. d \in Nat \ {0} /\ c \in Nat \ {0} BY <2>1, PowerIsPositive
  <2>3. 2^k = 2 * (d * c)
    <3>1. PICK e \in Nat : e = k - p - 1 BY <2>1
    <3>2. PICK g \in Nat : g = p + e BY <3>1
    <3>3. 2^g = 2^p * 2^e BY <3>2, PowerOfSum
    <3>4. 2^(g + 1) = 2 * 2^g BY PowerIsPositive
    <3>5. k = g + 1 BY <2>1, <3>1, <3>2
    <3> QED BY <3>1, <3>3, <3>4, <3>5
  <2>4. l \in Nat BY <1>1
  <2>5. q \in Nat /\ m \in 0..d - 1 /\ l = q * d + m BY <2>2, <2>4, Division
  <2>6. Bit(l, p) <=> q % 2 = 1 BY DEF Bit
  <2>7. Bit(x, p) <=> (x \div d) % 2 = 1 BY DEF Bit
  <2>8. x = h * (2 * (d * c)) + l BY <2>3
  <2> HIDE DEF x, d, c, q, m
  <2>9. h * (2 * (d * c)) = (2 * (h * c)) * d BY <2>2
  <2> DEFINE g == h * c
  <2>10. g \in Nat BY <2>2
  <2>11. x = (2 * g) * d + l BY <2>8, <2>9
  <2> HIDE DEF g
  <2>12. (2 * g + q) * d = (2 * g) * d + q * d BY <2>2, <2>5, <2>10
  <2>13. x = (2 * g + q) * d + m
    <3>1. (2 * g) * d \in Nat /\ q * d \in Nat BY <2>2, <2>5, <2>10
    <3> QED BY <2>5, <2>11, <2>12, <3>1
  <2>14. PICK u \in Nat : u = 2 * g + q BY <2>5, <2>10
  <2>15. (u * d + m) \div d = u BY <2>2, <2>5, Quotient
  <2>16. x \div d = u BY <2>13, <2>14, <2>15
  <2>17. u % 2 = q % 2 BY <2>5, <2>10, <2>14
  <2> QED BY <2>6, <2>7, <2>16, <2>17
<1> QED BY <1>1, <1>2, <1>3 DEF x

(* Bits of a remainder by a power.                                           *)
LEMMA BitsOfRest ==
  ASSUME NEW x \in Nat, NEW k \in Nat, NEW p \in Nat
  PROVE  x % 2^k \in 0..2^k - 1 /\ (Bit(x % 2^k, p) <=> p < k /\ Bit(x, p))
<1> DEFINE q == x \div 2^k
           m == x % 2^k
<1>1. 2^k \in Nat \ {0} BY PowerIsPositive
<1>2. q \in Nat /\ m \in 0..2^k - 1 /\ x = q * 2^k + m BY <1>1, Division
<1> HIDE DEF q, m
<1>3. p < k => (Bit(x, p) <=> Bit(m, p)) BY <1>2, BitsOfSum
<1>4. p >= k => ~Bit(m, p) BY <1>2, NoHighBits
<1> QED BY <1>2, <1>3, <1>4 DEF m

(* Numbers with the same bits are the same.                                  *)
SameBits(a, b, n) == \A p \in 0..n - 1 : Bit(a, p) <=> Bit(b, p)

(* Two numbers below a power are the same when their bits are.               *)
LEMMA BitsTell ==
  ASSUME NEW n \in Nat, NEW a \in 0..2^n - 1, NEW b \in 0..2^n - 1, SameBits(a, b, n)
  PROVE  a = b
<1> DEFINE S == {k \in 0..n : \A x, y \in 0..2^k - 1 : SameBits(x, y, k) => x = y}
<1>1. 0 \in S
  <2>1. 2^0 = 1 /\ 0 \in 0..n OBVIOUS
  <2> QED BY <2>1
<1>2. ASSUME NEW k \in 0..n - 1, k \in S PROVE k + 1 \in S
  <2>1. k \in Nat /\ k + 1 \in 0..n BY <1>2
  <2>2. 2^k \in Nat \ {0} /\ 2^(k + 1) = 2 * 2^k BY <2>1, PowerIsPositive
  <2>3. ASSUME NEW x \in 0..2^(k + 1) - 1, Bit(x, k)
        PROVE  x - 2^k \in 0..2^k - 1 /\ SameBits(x, x - 2^k, k)
    <3>1. x >= 2^k BY <2>1, <2>3, TopBit
    <3>2. x - 2^k \in 0..2^k - 1 /\ x = 1 * 2^k + (x - 2^k) BY <2>2, <3>1
    <3>3. PICK l \in 0..2^k - 1 : l = x - 2^k BY <3>2
    <3>4. ASSUME NEW p \in 0..k - 1 PROVE Bit(x, p) <=> Bit(l, p)
      <4>1. p \in Nat /\ p < k BY <2>1
      <4>2. Bit(1 * 2^k + l, p) <=> Bit(l, p) BY <2>1, <4>1, BitsOfSum
      <4> QED BY <3>2, <3>3, <4>2
    <3> QED BY <3>2, <3>3, <3>4 DEF SameBits
  <2>4. ASSUME NEW x \in 0..2^(k + 1) - 1, NEW y \in 0..2^(k + 1) - 1, SameBits(x, y, k + 1) PROVE x = y
    <3>1. k \in 0..k + 1 - 1 /\ 0..k - 1 \subseteq 0..k + 1 - 1 BY <2>1
    <3>2. (Bit(x, k) <=> Bit(y, k)) /\ SameBits(x, y, k) BY <2>4, <3>1 DEF SameBits
    <3>3. CASE Bit(x, k)
      <4>1. x - 2^k \in 0..2^k - 1 /\ y - 2^k \in 0..2^k - 1 /\ SameBits(x, x - 2^k, k) /\ SameBits(y, y - 2^k, k)
        BY <2>3, <3>2, <3>3
      <4>2. SameBits(x - 2^k, y - 2^k, k) BY <3>2, <4>1 DEF SameBits
      <4>3. x - 2^k = y - 2^k BY <1>2, <4>1, <4>2
      <4> QED BY <2>2, <4>3
    <3>4. CASE ~Bit(x, k)
      <4>1. ~(x >= 2^k) /\ ~(y >= 2^k) BY <2>1, <3>2, <3>4, TopBit
      <4>2. x \in 0..2^k - 1 /\ y \in 0..2^k - 1 BY <2>2, <4>1
      <4> QED BY <1>2, <3>2, <4>2
    <3> QED BY <3>3, <3>4
  <2> QED BY <2>1, <2>4
<1>3. n \in S
  <2>1. n \in 0..n OBVIOUS
  <2> HIDE DEF S
  <2> QED BY <1>1, <1>2, <2>1, Climb
<1> QED BY <1>3

(* Zero has no bits.                                                         *)
LEMMA NoBitsOfZero ==
  ASSUME NEW p \in Nat
  PROVE  ~Bit(0, p)
<1>1. PICK z \in Nat : z = 0 OBVIOUS
<1>2. z \in 0..2^p - 1 BY <1>1, PowerIsPositive
<1>3. ~Bit(z, p) BY <1>2, NoHighBits
<1> QED BY <1>1, <1>3

(* A power of two has one bit.                                               *)
LEMMA BitsOfPower ==
  ASSUME NEW j \in Nat, NEW p \in Nat
  PROVE  Bit(2^j, p) <=> p = j
<1>1. 2^j \in Nat \ {0} /\ 2^(j + 1) = 2 * 2^j BY PowerIsPositive
<1>2. 2^j \in 0..2^(j + 1) - 1 BY <1>1
<1>3. Bit(2^j, j) BY <1>1, <1>2, TopBit
<1>4. p > j => ~Bit(2^j, p)
  <2>1. PICK k \in Nat : k = j + 1 OBVIOUS
  <2> QED BY <1>2, <2>1, NoHighBits
<1>5. ASSUME p < j PROVE ~Bit(2^j, p)
  <2>1. PICK e \in Nat : j = p + e + 1
    <3>1. j - p - 1 \in Nat /\ j = p + (j - p - 1) + 1 BY <1>5
    <3> QED BY <3>1
  <2>2. PICK g \in Nat : g = p + e OBVIOUS
  <2>3. 2^g = 2^p * 2^e BY <2>2, PowerOfSum
  <2>4. 2^(g + 1) = 2 * 2^g /\ 2^p \in Nat \ {0} /\ 2^e \in Nat \ {0} BY PowerIsPositive
  <2> DEFINE d == 2^p
             c == 2 * 2^e
  <2>5. d \in Nat \ {0} /\ c \in Nat /\ c % 2 = 0 BY <2>4
  <2>6. 2^j = c * d + 0
    <3>1. 2^j = 2 * (2^p * 2^e) BY <2>1, <2>2, <2>3, <2>4
    <3> QED BY <2>4, <3>1
  <2> HIDE DEF c, d
  <2>7. 0 \in 0..d - 1 BY <2>5
  <2>8. (c * d + 0) \div d = c BY <2>5, <2>7, Quotient
  <2>9. 2^j \div d = c BY <2>6, <2>8
  <2>10. Bit(2^j, p) <=> (2^j \div d) % 2 = 1 BY DEF Bit, d
  <2> QED BY <2>5, <2>9, <2>10
<1> QED BY <1>3, <1>4, <1>5

(* Two bits fields of a number, the higher one above the lower one.            *)
LEMMA RestIsBelow ==
  ASSUME NEW n \in Nat, NEW s \in 0..n, NEW x \in 0..2^n - 1
  PROVE  x \div 2^s \in 0..2^(n - s) - 1 /\ x % 2^s \in 0..2^s - 1 /\ x = (x \div 2^s) * 2^s + (x % 2^s)
<1> DEFINE d == 2^s
           c == 2^(n - s)
           q == x \div d
           m == x % d
<1>1. n - s \in Nat /\ s + (n - s) = n BY DEF Nat
<1>2. d \in Nat \ {0} /\ c \in Nat \ {0} BY <1>1, PowerIsPositive
<1>3. 2^n = d * c
  <2>1. PICK e \in Nat : e = n - s BY <1>1
  <2>2. 2^(s + e) = 2^s * 2^e BY PowerOfSum
  <2> QED BY <1>1, <2>1, <2>2
<1>4. x \in Nat /\ x < d * c BY <1>2, <1>3
<1>5. q \in Nat /\ m \in 0..d - 1 /\ x = q * d + m BY <1>2, <1>4, Division
<1> HIDE DEF d, c, q, m
<1>6. ~(q >= c)
  <2>1. SUFFICES ASSUME q >= c PROVE FALSE OBVIOUS
  <2>2. (q - c) * d >= 0 BY <1>2, <1>5, <2>1
  <2>3. (q - c) * d = q * d - d * c BY <1>2, <1>5
  <2>4. q * d \in Nat /\ d * c \in Nat BY <1>2, <1>5
  <2> QED BY <1>4, <1>5, <2>2, <2>3, <2>4
<1>7. q \in 0..c - 1 BY <1>2, <1>5, <1>6
<1> QED BY <1>5, <1>7 DEF d, c, q, m

(* What two fields make is within the bits of both.                          *)
LEMMA SumIsWithin ==
  ASSUME NEW s \in Nat, NEW e \in Nat, NEW h \in 0..2^e - 1, NEW l \in 0..2^s - 1
  PROVE  h * 2^s + l \in 0..2^(s + e) - 1
<1> DEFINE d == 2^s
           c == 2^e
<1>1. d \in Nat \ {0} /\ c \in Nat \ {0} /\ 2^(s + e) = d * c BY PowerIsPositive, PowerOfSum
<1>2. h \in 0..c - 1 /\ l \in 0..d - 1 OBVIOUS
<1> HIDE DEF d, c
<1>3. (c - 1 - h) * d >= 0 BY <1>1, <1>2
<1>4. (c - 1 - h) * d = d * c - d - h * d BY <1>1, <1>2
<1>5. h * d \in Nat /\ d * c \in Nat BY <1>1, <1>2
<1>6. h * d + l \in 0..d * c - 1 BY <1>1, <1>2, <1>3, <1>4, <1>5
<1> QED BY <1>1, <1>6 DEF d, c

(* A value put at a place where a word has no bits.                           *)
Vacant(word, s, w) == \A j \in 0..w - 1 : ~Bit(word, s + j)
Holds(word, s, w, v) == \A j \in 0..w - 1 : Bit(word, s + j) <=> Bit(v, j)

Added(n, word, s, w, v, y) ==
  /\ y \in 0..2^n - 1 /\ Holds(y, s, w, v)
  /\ \A p \in Nat : p \notin s..s + w - 1 => (Bit(y, p) <=> Bit(word, p))

(* A word with a vacant field has that field once it is added.               *)
LEMMA FieldIsAdded ==
  ASSUME NEW n \in Nat, NEW word \in 0..2^n - 1, NEW s \in Nat, NEW w \in Nat, s + w <= n,
         NEW v \in 0..2^w - 1, Vacant(word, s, w), NEW y, y = word + v * 2^s
  PROVE  Added(n, word, s, w, v, y)
<1> DEFINE q   == word \div 2^s
           lo  == word % 2^s
           hi  == q \div 2^w
           mid == q % 2^w
<1>1. PICK e \in Nat : e = n - s BY DEF Nat
<1>2. PICK t \in Nat : t = e - w
  <2>1. e - w \in Nat BY <1>1
  <2> QED BY <2>1
<1>3. s \in 0..n /\ w \in 0..e /\ n = s + e /\ e = w + t BY <1>1, <1>2
<1>4. q \in 0..2^e - 1 /\ lo \in 0..2^s - 1 /\ word = q * 2^s + lo BY <1>1, <1>3, RestIsBelow
<1> HIDE DEF q, lo
<1>5. hi \in 0..2^t - 1 /\ mid \in 0..2^w - 1 /\ q = hi * 2^w + mid BY <1>2, <1>3, <1>4, RestIsBelow
<1>6. /\ 2^e \in Nat \ {0} /\ 2^t \in Nat \ {0} /\ 2^s \in Nat \ {0} /\ 2^w \in Nat \ {0}
      /\ q \in Nat /\ hi \in Nat /\ lo \in Nat
  <2>1. 2^e \in Nat \ {0} /\ 2^t \in Nat \ {0} /\ 2^s \in Nat \ {0} /\ 2^w \in Nat \ {0} BY PowerIsPositive
  <2> QED BY <1>4, <1>5, <2>1
<1>7. mid = 0
  <2>1. ASSUME NEW j \in 0..w - 1 PROVE ~Bit(mid, j)
    <3>1. j \in Nat /\ j < w OBVIOUS
    <3>2. Bit(mid, j) => Bit(q, j) BY <1>6, <3>1, BitsOfRest
    <3>3. PICK p \in Nat : p = s + j /\ p >= s BY <3>1
    <3>4. Bit(q * 2^s + lo, p) <=> Bit(q, p - s) BY <1>4, <1>6, <3>1, <3>3, BitsOfSum
    <3>5. p - s = j BY <3>1, <3>3
    <3>6. Bit(word, s + j) <=> Bit(q, j) BY <1>4, <3>3, <3>4, <3>5
    <3> QED BY <3>2, <3>6 DEF Vacant
  <2>2. SameBits(mid, 0, w)
    <3>1. \A j \in 0..w - 1 : ~Bit(0, j) BY NoBitsOfZero
    <3> QED BY <2>1, <3>1 DEF SameBits
  <2>3. 0 \in 0..2^w - 1 BY <1>6
  <2> HIDE DEF mid
  <2> QED BY <1>5, <2>2, <2>3, BitsTell
<1> HIDE DEF hi, mid
<1>8. PICK u \in 0..2^e - 1 : u = hi * 2^w + v
  <2>1. hi * 2^w + v \in 0..2^(w + t) - 1 BY <1>5, SumIsWithin
  <2> QED BY <1>3, <2>1
<1>9. y = u * 2^s + lo
  <2> DEFINE d == 2^s
             c == 2^w
  <2>1. d \in Nat /\ c \in Nat /\ v \in Nat BY <1>6
  <2>2. word = q * d + lo /\ q = hi * c + 0 /\ u = hi * c + v /\ y = word + v * d BY <1>4, <1>5, <1>7, <1>8
  <2> HIDE DEF d, c
  <2>3. hi * c \in Nat BY <1>6, <2>1
  <2>4. PICK g \in Nat : g = hi * c BY <2>3
  <2>5. (g + v) * d = g * d + v * d /\ g * d \in Nat /\ v * d \in Nat BY <2>1, <2>4
  <2>6. y = (g + v) * d + lo BY <1>6, <2>2, <2>4, <2>5
  <2> QED BY <2>2, <2>4, <2>6 DEF d
<1>10. y \in 0..2^n - 1
  <2>1. u * 2^s + lo \in 0..2^(s + e) - 1 BY <1>4, SumIsWithin
  <2> QED BY <1>3, <1>9, <2>1
<1>11. u \in Nat BY <1>6
<1>12. ASSUME NEW p \in Nat, p >= s
       PROVE  /\ p - s < w => (Bit(y, p) <=> Bit(v, p - s))
              /\ p - s >= w => (Bit(y, p) <=> Bit(word, p))
  <2>1. PICK j \in Nat : j = p - s BY <1>12
  <2>2. Bit(u * 2^s + lo, p) <=> Bit(u, p - s) BY <1>4, <1>11, <1>12, BitsOfSum
  <2>3. Bit(q * 2^s + lo, p) <=> Bit(q, p - s) BY <1>4, <1>6, <1>12, BitsOfSum
  <2>4. j < w => (Bit(hi * 2^w + v, j) <=> Bit(v, j)) BY <1>6, BitsOfSum
  <2>5. j >= w => (Bit(hi * 2^w + v, j) <=> Bit(hi, j - w)) BY <1>6, BitsOfSum
  <2>6. j >= w => (Bit(hi * 2^w + mid, j) <=> Bit(hi, j - w)) BY <1>5, <1>6, BitsOfSum
  <2>7. Bit(y, p) <=> Bit(u, j) BY <1>9, <2>1, <2>2
  <2>8. Bit(word, p) <=> Bit(q, j) BY <1>4, <2>1, <2>3
  <2>9. j < w => (Bit(u, j) <=> Bit(v, j)) BY <1>8, <2>4
  <2>10. j >= w => (Bit(u, j) <=> Bit(q, j)) BY <1>5, <1>8, <2>5, <2>6
  <2> QED BY <2>1, <2>7, <2>8, <2>9, <2>10
<1>13. ASSUME NEW p \in Nat, p < s PROVE Bit(y, p) <=> Bit(word, p)
  <2>1. Bit(u * 2^s + lo, p) <=> Bit(lo, p) BY <1>4, <1>11, <1>13, BitsOfSum
  <2>2. Bit(q * 2^s + lo, p) <=> Bit(lo, p) BY <1>4, <1>6, <1>13, BitsOfSum
  <2> QED BY <1>4, <1>9, <2>1, <2>2
<1>14. Holds(y, s, w, v)
  <2>1. ASSUME NEW j \in 0..w - 1 PROVE Bit(y, s + j) <=> Bit(v, j)
    <3>1. PICK p \in Nat : p = s + j OBVIOUS
    <3>2. p >= s /\ p - s = j /\ p - s < w BY <3>1
    <3> QED BY <1>12, <3>1, <3>2
  <2> QED BY <2>1 DEF Holds
<1>15. ASSUME NEW p \in Nat, p \notin s..s + w - 1 PROVE Bit(y, p) <=> Bit(word, p)
  <2>1. CASE p < s BY <1>13, <2>1
  <2>2. CASE p >= s
    <3>1. p - s >= w BY <1>15, <2>2
    <3> QED BY <1>12, <2>2, <3>1
  <2> QED BY <2>1, <2>2
<1> QED BY <1>10, <1>14, <1>15 DEF Added

-----------------------------------------------------------------------------
(* Exclusive or of words.                                                    *)

Words(n) == 0..2^n - 1

(* Words are numbers, zero among them, and a wider word may be a narrower one. *)
LEMMA WordsAre ==
  ASSUME NEW n \in Nat
  PROVE  Words(n) \subseteq Nat /\ 0 \in Words(n) /\ \A k \in 0..n : Words(k) \subseteq Words(n)
<1>1. 2^n \in Nat \ {0} BY PowerIsPositive
<1>2. ASSUME NEW k \in 0..n PROVE 2^k <= 2^n /\ 2^k \in Nat
  <2>1. CASE k = n BY <1>1, <2>1
  <2>2. CASE k # n
    <3>1. k \in Nat /\ k < n BY <2>2
    <3> QED BY <1>1, <3>1, PowerGrows, PowerIsPositive
  <2> QED BY <2>1, <2>2
<1> QED BY <1>1, <1>2 DEF Words

(* Exclusive or, bit by bit.                                                 *)
LEMMA XorBits ==
  ASSUME NEW n \in Nat, XorOn(n), NEW a \in Words(n), NEW b \in Words(n)
  PROVE  BitXor(a, b) \in Words(n) /\ \A p \in 0..n - 1 : Bit(BitXor(a, b), p) <=> ~(Bit(a, p) <=> Bit(b, p))
BY DEF XorOn, Words

(* The laws of a group in which every word is its own inverse.                *)
LEMMA XorLaws ==
  ASSUME NEW n \in Nat, XorOn(n), NEW a \in Words(n), NEW b \in Words(n)
  PROVE  /\ BitXor(a, b) \in Words(n) /\ BitXor(a, b) = BitXor(b, a) /\ BitXor(a, 0) = a /\ BitXor(0, a) = a
         /\ BitXor(a, a) = 0 /\ BitXor(BitXor(a, b), b) = a
         /\ \A c \in Words(n) : BitXor(BitXor(a, b), c) = BitXor(a, BitXor(b, c))
<1>1. 0 \in Words(n) BY WordsAre
<1>2. \A x, y \in Words(n) : BitXor(x, y) \in Words(n) BY XorBits
<1>3. \A x, y \in Words(n) : \A p \in 0..n - 1 : Bit(BitXor(x, y), p) <=> ~(Bit(x, p) <=> Bit(y, p)) BY XorBits
<1>4. \A p \in 0..n - 1 : ~Bit(0, p) BY NoBitsOfZero
<1>5. \A x, y \in Words(n) : SameBits(x, y, n) => x = y BY BitsTell DEF Words
<1>6. SameBits(BitXor(a, b), BitXor(b, a), n) BY <1>3 DEF SameBits
<1>7. SameBits(BitXor(a, 0), a, n) /\ SameBits(BitXor(0, a), a, n) BY <1>1, <1>3, <1>4 DEF SameBits
<1>8. SameBits(BitXor(a, a), 0, n) BY <1>3, <1>4 DEF SameBits
<1>9. SameBits(BitXor(BitXor(a, b), b), a, n) BY <1>2, <1>3 DEF SameBits
<1>10. ASSUME NEW c \in Words(n) PROVE BitXor(BitXor(a, b), c) = BitXor(a, BitXor(b, c))
  <2>1. SameBits(BitXor(BitXor(a, b), c), BitXor(a, BitXor(b, c)), n) BY <1>2, <1>3 DEF SameBits
  <2> QED BY <1>2, <1>5, <2>1
<1> QED BY <1>1, <1>2, <1>5, <1>6, <1>7, <1>8, <1>9, <1>10

(* A narrower word has no bits above its width.                               *)
LEMMA BitsAreWithin ==
  ASSUME NEW n \in Nat, NEW k \in 0..n, NEW x \in Words(n), \A p \in 0..n - 1 : p >= k => ~Bit(x, p)
  PROVE  x \in Words(k)
<1>1. k \in Nat /\ x \in Nat BY WordsAre
<1> DEFINE m == x % 2^k
<1>2. m \in Words(k) /\ \A p \in Nat : Bit(m, p) <=> p < k /\ Bit(x, p) BY <1>1, BitsOfRest DEF Words
<1>3. m \in Words(n) BY <1>2, WordsAre
<1> HIDE DEF m
<1>4. SameBits(m, x, n)
  <2>1. \A p \in 0..n - 1 : p \in Nat /\ (p < k \/ p >= k) BY <1>1
  <2> QED BY <1>2, <2>1 DEF SameBits
<1>5. m = x BY <1>3, <1>4, BitsTell DEF Words
<1> QED BY <1>2, <1>5

(* Exclusive or keeps the width of its arguments.                             *)
LEMMA XorNarrows ==
  ASSUME NEW n \in Nat, XorOn(n), NEW k \in 0..n
  PROVE  XorOn(k)
<1>1. k \in Nat /\ Words(k) \subseteq Words(n) /\ 0..k - 1 \subseteq 0..n - 1 BY WordsAre
<1>2. ASSUME NEW a \in Words(k), NEW b \in Words(k)
      PROVE  BitXor(a, b) \in Words(k) /\ \A p \in 0..k - 1 : Bit(BitXor(a, b), p) <=> ~(Bit(a, p) <=> Bit(b, p))
  <2>1. BitXor(a, b) \in Words(n) /\ \A p \in 0..n - 1 : Bit(BitXor(a, b), p) <=> ~(Bit(a, p) <=> Bit(b, p))
    BY <1>1, XorBits
  <2>2. \A p \in 0..n - 1 : p \in Nat /\ (p >= k => ~Bit(a, p) /\ ~Bit(b, p)) BY <1>1, NoHighBits DEF Words
  <2>3. \A p \in 0..n - 1 : p >= k => ~Bit(BitXor(a, b), p) BY <2>1, <2>2
  <2> QED BY <1>1, <2>1, <2>3, BitsAreWithin
<1> QED BY <1>2 DEF XorOn, Words

(* On the words of a bank field, BitXor is a group's.                         *)
XorOver(D) ==
  \A a, b \in D : BitXor(a, b) \in D /\ BitXor(BitXor(a, b), b) = a /\ BitXor(a, b) = BitXor(b, a)

(* So it is on the words of every width within an address.                    *)
LEMMA XorIsOver ==
  ASSUME NEW n \in Nat, XorOn(n), NEW k \in 0..n
  PROVE  XorOver(0..2^k - 1)
<1>1. k \in Nat /\ XorOn(k) BY XorNarrows
<1> QED BY <1>1, XorLaws DEF XorOver, Words

-----------------------------------------------------------------------------
(* Elimination over GF(2).                                                   *)

BasisRows(n) == [vector : Words(n), address_bits : Words(n)]

(* Reducing a row is meeting the basis at one bit after the other.            *)
LEMMA ReducedIs ==
  ASSUME NEW n \in Nat, XorOn(n), NEW basis \in [0..n - 1 -> BasisRows(n)], NEW row \in BasisRows(n)
  PROVE  /\ Cardinality(DOMAIN basis) = n /\ reduced(basis, row, 0) = row
         /\ \A k \in 0..n : reduced(basis, row, k) \in BasisRows(n)
         /\ \A k \in 1..n : reduced(basis, row, k) = Met(basis, reduced(basis, row, k - 1), n - k)
<1> DEFINE V     == BasisRows(n)
           bits  == Cardinality(DOMAIN basis)
           step  == [i \in 1..n |-> [v \in V |-> Met(basis, v, n - i)]]
           after == CHOOSE f : f = [i \in 0..bits |-> IF i = 0 THEN row ELSE Met(basis, f[i - 1], bits - i)]
<1>1. bits = n
  <2>1. Cardinality(0..n - 1) = n
    <3>1. Cardinality(0..n - 1) = IF 0 > n - 1 THEN 0 ELSE n - 1 - 0 + 1 BY FS_Interval
    <3> QED BY <3>1
  <2> QED BY <2>1
<1>2. ASSUME NEW v \in V, NEW p \in 0..n - 1 PROVE Met(basis, v, p) \in V
  <2>1. basis[p] \in V OBVIOUS
  <2>2. BitXor(v.vector, basis[p].vector) \in Words(n) /\ BitXor(v.address_bits, basis[p].address_bits) \in Words(n)
    BY <2>1, XorBits DEF BasisRows
  <2> QED BY <2>2 DEF Met, BasisRows
<1>3. \A i \in 1..n : n - i \in 0..n - 1 OBVIOUS
<1>4. step \in [1..n -> [V -> V]] /\ \A i \in 1..n, v \in V : step[i][v] = Met(basis, v, n - i)
  <2> HIDE DEF V
  <2> QED BY <1>2, <1>3
<1>5. PICK f \in [0..n -> V] : Runs(f, row, step, n)
  <2> HIDE DEF step
  <2> QED BY <1>4, Iterates
<1>6. ASSUME NEW i \in 0..n PROVE f[i] = IF i = 0 THEN row ELSE Met(basis, f[i - 1], n - i)
  <2>1. CASE i = 0 BY <1>5, <2>1 DEF Runs
  <2>2. CASE i # 0
    <3> HIDE DEF step, V
    <3>1. i \in 1..n /\ i - 1 \in 0..n BY <2>2
    <3>2. f[i - 1] \in V /\ f[i] = step[i][f[i - 1]] BY <1>5, <3>1 DEF Runs
    <3> QED BY <1>4, <2>2, <3>1, <3>2
  <2> QED BY <2>1, <2>2
<1>7. f = [i \in 0..bits |-> IF i = 0 THEN row ELSE Met(basis, f[i - 1], bits - i)]
  <2> HIDE DEF step, V, bits
  <2> QED BY <1>1, <1>5, <1>6
<1>8. after = [i \in 0..bits |-> IF i = 0 THEN row ELSE Met(basis, after[i - 1], bits - i)] BY <1>7
<1>9. \A i : reduced(basis, row, i) = after[i] BY DEF reduced
<1> HIDE DEF after, step, bits
<1>10. after[0] = row BY <1>1, <1>8
<1>11. ASSUME NEW i \in 1..n PROVE after[i] = Met(basis, after[i - 1], n - i)
  <2>1. i \in 0..n /\ i # 0 OBVIOUS
  <2> QED BY <1>1, <1>8, <2>1
<1>12. \A i \in 0..n : after[i] \in V
  <2> DEFINE S == {i \in 0..n : after[i] \in V}
  <2>1. 0 \in S BY <1>10
  <2>2. ASSUME NEW k \in 0..n - 1, k \in S PROVE k + 1 \in S
    <3> HIDE DEF V
    <3>1. k + 1 \in 1..n /\ k + 1 - 1 = k /\ k + 1 \in 0..n OBVIOUS
    <3>2. after[k + 1] = Met(basis, after[k], n - (k + 1)) BY <1>11, <3>1
    <3>3. after[k + 1] \in V BY <1>2, <1>3, <2>2, <3>1, <3>2
    <3> QED BY <3>1, <3>3
  <2>3. \A i \in 0..n : i \in S
    <3> HIDE DEF S
    <3> QED BY <2>1, <2>2, Climb
  <2> QED BY <2>3
<1> QED BY <1>1, <1>9, <1>10, <1>11, <1>12 DEF bits

(* A map of words that keeps sums, and sends nothing else to zero.            *)
Additive(L, n) ==
  /\ L \in [Words(n) -> Words(n)]
  /\ \A a, b \in Words(n) : L[BitXor(a, b)] = BitXor(L[a], L[b])
  /\ \A a \in Words(n) : L[a] = 0 => a = 0

(* A basis of the images of the words below 2^j: the row in use at a place has  *)
(* its highest bit there, and names the word it is the image of.              *)
GoodRow(L, row, p, j) ==
  /\ row.vector = L[row.address_bits] /\ Bit(row.vector, p) /\ row.vector \in Words(p + 1)
  /\ row.address_bits \in Words(j)
GoodBasis(L, n, basis, j) ==
  /\ basis \in [0..n - 1 -> BasisRows(n)]
  /\ \A p \in 0..n - 1 : basis[p] # Unused => GoodRow(L, basis[p], p, j)

(* No place the row needs, down to the k-th from the top, is unused.           *)
NoneFree(n, basis, row, k) ==
  \A i \in 0..k - 1 : Bit(reduced(basis, row, i).vector, n - 1 - i) => basis[n - 1 - i] # Unused

(* Meeting a basis row keeps the difference between a vector and the image of    *)
(* its address bits, and the address bits above the basis.                    *)
LEMMA MeetingKeeps ==
  ASSUME NEW n \in Nat, XorOn(n), NEW L, Additive(L, n), NEW j \in 0..n, NEW basis, GoodBasis(L, n, basis, j),
         NEW row \in BasisRows(n), NEW p \in 0..n - 1
  PROVE  LET met == Met(basis, row, p)
         IN /\ met \in BasisRows(n)
            /\ BitXor(met.vector, L[met.address_bits]) = BitXor(row.vector, L[row.address_bits])
            /\ \A q \in j..n - 1 : Bit(met.address_bits, q) <=> Bit(row.address_bits, q)
            /\ row.vector \in Words(p + 1) /\ (Bit(row.vector, p) => basis[p] # Unused) => met.vector \in Words(p)
<1> DEFINE met == Met(basis, row, p)
           v == row.vector
           a == row.address_bits
           u == basis[p].vector
           b == basis[p].address_bits
<1>1. v \in Words(n) /\ a \in Words(n) /\ u \in Words(n) /\ b \in Words(n) /\ basis[p] \in BasisRows(n)
  BY DEF GoodBasis, BasisRows
<1>2. p \in Nat /\ p \in 0..n /\ p + 1 \in 0..n /\ j \in Nat OBVIOUS
<1>3. L[a] \in Words(n) /\ L[b] \in Words(n) BY <1>1 DEF Additive
<1>4. CASE ~(Bit(v, p) /\ basis[p] # Unused)
  <2>1. met = row BY <1>4 DEF Met
  <2>2. ASSUME v \in Words(p + 1), Bit(v, p) => basis[p] # Unused PROVE v \in Words(p)
    <3>1. ~Bit(v, p) BY <1>4, <2>2
    <3>2. \A q \in 0..n - 1 : q >= p => ~Bit(v, q)
      <4>1. ASSUME NEW q \in 0..n - 1, q > p PROVE ~Bit(v, q)
        <5>1. PICK k \in Nat : k = p + 1 BY <1>2
        <5>2. q \in Nat /\ k <= q /\ v \in 0..2^k - 1 BY <2>2, <4>1, <5>1 DEF Words
        <5> QED BY <5>2, NoHighBits
      <4> QED BY <3>1, <4>1
    <3> QED BY <1>1, <1>2, <3>2, BitsAreWithin
  <2> QED BY <2>1, <2>2
<1>5. CASE Bit(v, p) /\ basis[p] # Unused
  <2>1. met = [vector |-> BitXor(v, u), address_bits |-> BitXor(a, b)] BY <1>5 DEF Met
  <2>2. u = L[b] /\ Bit(u, p) /\ u \in Words(p + 1) /\ b \in Words(j) BY <1>5 DEF GoodBasis, GoodRow
  <2>3. BitXor(v, u) \in Words(n) /\ BitXor(a, b) \in Words(n) BY <1>1, XorBits
  <2>4. met \in BasisRows(n) BY <2>1, <2>3 DEF BasisRows
  <2>5. BitXor(BitXor(v, u), L[BitXor(a, b)]) = BitXor(v, L[a])
    <3>1. L[BitXor(a, b)] = BitXor(L[a], u) /\ L[a] \in Words(n) BY <1>1, <1>3, <2>2 DEF Additive
    <3>2. BitXor(L[a], u) = BitXor(u, L[a]) BY <1>1, <1>3, XorLaws
    <3>3. BitXor(u, L[a]) \in Words(n) BY <1>1, <1>3, XorBits
    <3>4. BitXor(BitXor(v, u), BitXor(u, L[a])) = BitXor(BitXor(BitXor(v, u), u), L[a]) BY <1>1, <1>3, <2>3, XorLaws
    <3>5. BitXor(BitXor(v, u), u) = v BY <1>1, XorLaws
    <3> QED BY <3>1, <3>2, <3>4, <3>5
  <2>6. ASSUME NEW q \in j..n - 1 PROVE Bit(BitXor(a, b), q) <=> Bit(a, q)
    <3>1. q \in 0..n - 1 /\ q \in Nat /\ j <= q BY <1>2
    <3>2. ~Bit(b, q) BY <1>2, <2>2, <3>1, NoHighBits DEF Words
    <3> QED BY <1>1, <3>1, <3>2, XorBits
  <2>7. ASSUME v \in Words(p + 1) PROVE BitXor(v, u) \in Words(p)
    <3>1. ASSUME NEW q \in 0..n - 1, q >= p PROVE ~Bit(BitXor(v, u), q)
      <4>1. Bit(BitXor(v, u), q) <=> ~(Bit(v, q) <=> Bit(u, q)) BY <1>1, XorBits
      <4>2. CASE q = p BY <1>5, <2>2, <4>1, <4>2
      <4>3. CASE q # p
        <5>1. PICK k \in Nat : k = p + 1 BY <1>2
        <5>2. q \in Nat /\ k <= q /\ v \in 0..2^k - 1 /\ u \in 0..2^k - 1
          BY <2>2, <2>7, <3>1, <4>3, <5>1 DEF Words
        <5>3. ~Bit(v, q) /\ ~Bit(u, q) BY <5>1, <5>2, NoHighBits
        <5> QED BY <4>1, <5>3
      <4> QED BY <4>2, <4>3
    <3> QED BY <1>2, <2>3, <3>1, BitsAreWithin
  <2> QED BY <2>1, <2>4, <2>5, <2>6, <2>7
<1> QED BY <1>4, <1>5

(* What k meetings make of a row.                                            *)
Kept(L, n, j, row, rest, k) ==
  /\ rest \in BasisRows(n)
  /\ BitXor(rest.vector, L[rest.address_bits]) = BitXor(row.vector, L[row.address_bits])
  /\ \A q \in j..n - 1 : Bit(rest.address_bits, q) <=> Bit(row.address_bits, q)
  /\ rest.vector \in Words(n - k)

(* A row that needs no unused place loses its bits one after the other.        *)
LEMMA ReducingKeeps ==
  ASSUME NEW n \in Nat, XorOn(n), NEW L, Additive(L, n), NEW j \in 0..n, NEW basis, GoodBasis(L, n, basis, j),
         NEW row \in BasisRows(n), NEW k \in 0..n, NoneFree(n, basis, row, k)
  PROVE  Kept(L, n, j, row, reduced(basis, row, k), k)
<1> DEFINE S == {i \in 0..k : Kept(L, n, j, row, reduced(basis, row, i), i)}
<1>1. basis \in [0..n - 1 -> BasisRows(n)] BY DEF GoodBasis
<1>2. /\ reduced(basis, row, 0) = row
      /\ \A i \in 0..n : reduced(basis, row, i) \in BasisRows(n)
      /\ \A i \in 1..n : reduced(basis, row, i) = Met(basis, reduced(basis, row, i - 1), n - i)
  BY <1>1, ReducedIs
<1>3. 0 \in S
  <2>1. row.vector \in Words(n) /\ n - 0 = n /\ 0 \in 0..k BY DEF BasisRows
  <2> QED BY <1>2, <2>1 DEF Kept
<1>4. ASSUME NEW i \in 0..k - 1, i \in S PROVE i + 1 \in S
  <2> DEFINE p == n - 1 - i
             was == reduced(basis, row, i)
             met == reduced(basis, row, i + 1)
  <2>1. i \in 0..n /\ i + 1 \in 1..n /\ i + 1 - 1 = i /\ p \in 0..n - 1 /\ n - (i + 1) = p /\ n - i = p + 1
        /\ i + 1 \in 0..k
    OBVIOUS
  <2>2. met = Met(basis, was, p) BY <1>2, <2>1
  <2>3. Kept(L, n, j, row, was, i) BY <1>4
  <2>4. was.vector \in Words(p + 1) BY <2>1, <2>3 DEF Kept
  <2>5. Bit(was.vector, p) => basis[p] # Unused BY DEF NoneFree
  <2>6. was \in BasisRows(n) BY <2>3 DEF Kept
  <2> HIDE DEF p, was, met
  <2>7. /\ met \in BasisRows(n)
        /\ BitXor(met.vector, L[met.address_bits]) = BitXor(was.vector, L[was.address_bits])
        /\ \A q \in j..n - 1 : Bit(met.address_bits, q) <=> Bit(was.address_bits, q)
        /\ met.vector \in Words(p)
    BY <2>1, <2>2, <2>4, <2>5, <2>6, MeetingKeeps
  <2>8. Kept(L, n, j, row, met, i + 1) BY <2>1, <2>3, <2>7 DEF Kept
  <2> QED BY <2>1, <2>8 DEF met
<1>5. \A i \in 0..k : i \in S
  <2> HIDE DEF S
  <2> QED BY <1>3, <1>4, Climb
<1>6. k \in 0..k OBVIOUS
<1> QED BY <1>5, <1>6

(* A word without bits is zero.                                              *)
LEMMA OnlyZero == Words(0) = {0}
<1>1. 2^0 = 1 OBVIOUS
<1>2. 0..2^0 - 1 = {0} BY <1>1
<1> QED BY <1>2 DEF Words

(* A nonempty set of places has a highest one.                                *)
LEMMA HighestPlace ==
  ASSUME NEW n \in Nat, NEW T, T \subseteq 0..n - 1, T # {}
  PROVE  Max(T) \in T /\ \A q \in T : q <= Max(T)
<1> DEFINE R == {n - 1 - q : q \in T}
<1>1. R \subseteq Nat /\ R # {}
  <2>1. \A q \in T : n - 1 - q \in Nat OBVIOUS
  <2> QED BY <2>1
<1>2. PICK x \in R : \A y \in R : x <= y
  <2> HIDE DEF R
  <2> QED BY <1>1, LeastNatural
<1>3. PICK p \in T : x = n - 1 - p BY <1>2
<1>4. ASSUME NEW q \in T PROVE p >= q
  <2>1. n - 1 - q \in R /\ q \in 0..n - 1 /\ p \in 0..n - 1 BY <1>4, <1>3
  <2>2. x <= n - 1 - q BY <1>2, <2>1
  <2> QED BY <1>3, <2>1, <2>2
<1>5. Max(T) \in T /\ \A q \in T : Max(T) >= q BY <1>3, <1>4 DEF Max
<1> QED BY <1>5

Used(n, basis) == {p \in 0..n - 1 : basis[p] # Unused}

ImageRow(L, j) == [vector |-> L[2^j], address_bits |-> 2^j]
Grown(L, n, basis, new, j) ==
  /\ GoodBasis(L, n, new, j + 1)
  /\ \E p \in 0..n - 1 : p \notin Used(n, basis) /\ Used(n, new) = Used(n, basis) \cup {p}

(* The image of a new address bit always takes a new place: were it a sum of     *)
(* the images in the basis, two words would have one image.                   *)
LEMMA InsertFills ==
  ASSUME NEW n \in Nat, XorOn(n), NEW L, Additive(L, n), NEW j \in 0..n - 1, NEW basis, GoodBasis(L, n, basis, j),
         NEW row, row = ImageRow(L, j)
  PROVE  Grown(L, n, basis, insert(basis, row), j)
<1>0. row = [vector |-> L[2^j], address_bits |-> 2^j] BY DEF ImageRow
<1>1. basis \in [0..n - 1 -> BasisRows(n)] /\ j \in 0..n /\ j \in Nat /\ j + 1 \in 0..n BY DEF GoodBasis
<1>2. 2^j \in Words(n) /\ 2^j \in Words(j + 1)
  <2>1. PICK k \in Nat : k = j + 1 BY <1>1
  <2>2. k \in 0..n /\ 2^j \in Nat \ {0} /\ 2^k = 2 * 2^j BY <1>1, <2>1, PowerIsPositive
  <2>3. 2^j \in Words(k) BY <2>2 DEF Words
  <2> QED BY <2>1, <2>2, <2>3, WordsAre
<1>3. L[2^j] \in Words(n) BY <1>2 DEF Additive
<1>4. row \in BasisRows(n) BY <1>0, <1>2, <1>3 DEF BasisRows
<1>5. BitXor(row.vector, L[row.address_bits]) = 0 BY <1>0, <1>3, XorLaws
<1>6. /\ Cardinality(DOMAIN basis) = n
      /\ \A k \in 0..n : reduced(basis, row, k) \in BasisRows(n)
  BY <1>1, <1>4, ReducedIs
<1>7. ASSUME NEW k \in 0..n, NoneFree(n, basis, row, k)
      PROVE  LET rest == reduced(basis, row, k)
             IN /\ rest.vector = L[rest.address_bits] /\ rest.vector \in Words(n - k) /\ Bit(rest.address_bits, j)
                /\ rest \in BasisRows(n) /\ rest.address_bits \in Words(j + 1)
  <2> DEFINE rest == reduced(basis, row, k)
  <2>1. Kept(L, n, j, row, rest, k) BY <1>1, <1>4, <1>7, ReducingKeeps
  <2> HIDE DEF rest
  <2>2. /\ rest \in BasisRows(n) /\ BitXor(rest.vector, L[rest.address_bits]) = 0 /\ rest.vector \in Words(n - k)
        /\ \A q \in j..n - 1 : Bit(rest.address_bits, q) <=> Bit(2^j, q)
    BY <1>0, <1>5, <2>1 DEF Kept
  <2>3. rest.vector \in Words(n) /\ rest.address_bits \in Words(n) BY <2>2 DEF BasisRows
  <2>4. L[rest.address_bits] \in Words(n) BY <2>3 DEF Additive
  <2>5. rest.vector = L[rest.address_bits]
    <3>1. BitXor(BitXor(rest.vector, L[rest.address_bits]), L[rest.address_bits]) = rest.vector BY <2>3, <2>4, XorLaws
    <3>2. BitXor(0, L[rest.address_bits]) = L[rest.address_bits] BY <2>4, XorLaws
    <3> QED BY <2>2, <3>1, <3>2
  <2>6. ASSUME NEW q \in j..n - 1 PROVE Bit(rest.address_bits, q) <=> q = j
    <3>1. q \in Nat BY <1>1
    <3> QED BY <1>1, <2>2, <3>1, BitsOfPower
  <2>7. Bit(rest.address_bits, j) BY <2>6
  <2>8. \A q \in 0..n - 1 : q >= j + 1 => ~Bit(rest.address_bits, q) BY <1>1, <2>6
  <2>9. rest.address_bits \in Words(j + 1)
    <3>1. PICK e \in 0..n : e = j + 1 BY <1>1
    <3> QED BY <2>3, <2>8, <3>1, BitsAreWithin
  <2> QED BY <2>2, <2>5, <2>7, <2>9 DEF rest
<1> DEFINE F == Free(basis, row)
           p == Max(F)
           new == Reaching(basis, row, p)
<1>8. F = {q \in 0..n - 1 : Bit(reduced(basis, row, n - 1 - q).vector, q) /\ basis[q] = Unused}
  BY <1>1, <1>6 DEF Free, Reaching
<1>9. F # {}
  <2>1. SUFFICES ASSUME F = {} PROVE FALSE OBVIOUS
  <2>2. NoneFree(n, basis, row, n)
    <3> SUFFICES ASSUME NEW i \in 0..n - 1, Bit(reduced(basis, row, i).vector, n - 1 - i)
                 PROVE  basis[n - 1 - i] # Unused
      BY DEF NoneFree
    <3>1. n - 1 - i \in 0..n - 1 /\ n - 1 - (n - 1 - i) = i OBVIOUS
    <3> HIDE DEF F
    <3> QED BY <1>8, <2>1, <3>1
  <2>3. n \in 0..n /\ n - n = 0 OBVIOUS
  <2> DEFINE rest == reduced(basis, row, n)
  <2>4. rest.vector = L[rest.address_bits] /\ rest.vector \in Words(0) /\ Bit(rest.address_bits, j)
        /\ rest \in BasisRows(n)
    BY <1>7, <2>2, <2>3
  <2> HIDE DEF rest
  <2>5. rest.address_bits \in Words(n) /\ L[rest.address_bits] = 0 BY <2>4, OnlyZero DEF BasisRows
  <2>6. rest.address_bits = 0 BY <2>5 DEF Additive
  <2> QED BY <1>1, <2>4, <2>6, NoBitsOfZero
<1>10. p \in F /\ \A q \in F : q <= p
  <2>1. F \subseteq 0..n - 1 BY <1>8
  <2> HIDE DEF F
  <2> QED BY <1>9, <2>1, HighestPlace
<1>11. insert(basis, row) = [basis EXCEPT ![p] = new] BY <1>9 DEF insert
<1> HIDE DEF p
<1>12. p \in 0..n - 1 /\ basis[p] = Unused /\ new = reduced(basis, row, n - 1 - p) /\ Bit(new.vector, p)
  BY <1>6, <1>8, <1>10 DEF Reaching
<1>13. NoneFree(n, basis, row, n - 1 - p)
  <2> SUFFICES ASSUME NEW i \in 0..n - 1 - p - 1, Bit(reduced(basis, row, i).vector, n - 1 - i)
               PROVE  basis[n - 1 - i] # Unused
    BY DEF NoneFree
  <2>1. n - 1 - i \in 0..n - 1 /\ n - 1 - (n - 1 - i) = i /\ ~(n - 1 - i <= p) BY <1>12
  <2>2. n - 1 - i \notin F
    <3> HIDE DEF F
    <3> QED BY <1>10, <2>1
  <2> HIDE DEF F
  <2> QED BY <1>8, <2>1, <2>2
<1>14. GoodRow(L, new, p, j + 1) /\ new \in BasisRows(n)
  <2>1. PICK k \in 0..n : k = n - 1 - p /\ n - k = p + 1 BY <1>12
  <2>2. new = reduced(basis, row, k) /\ NoneFree(n, basis, row, k) BY <1>12, <1>13, <2>1
  <2>3. new.vector = L[new.address_bits] /\ new.vector \in Words(n - k) /\ new \in BasisRows(n)
        /\ new.address_bits \in Words(j + 1)
    BY <1>7, <2>2
  <2> HIDE DEF new
  <2> QED BY <1>12, <2>1, <2>3 DEF GoodRow
<1>15. new # Unused
  <2>1. ASSUME new = Unused PROVE FALSE
    <3>1. Bit(0, p) /\ p \in Nat BY <1>12, <2>1 DEF Unused
    <3> QED BY <3>1, NoBitsOfZero
  <2> QED BY <2>1
<1> DEFINE b == insert(basis, row)
<1> HIDE DEF new, F
<1>16. b = [basis EXCEPT ![p] = new] /\ b[p] = new /\ \A q \in 0..n - 1 : q # p => b[q] = basis[q] BY <1>1, <1>11, <1>12
<1> HIDE DEF b
<1>17. GoodBasis(L, n, b, j + 1)
  <2>1. b \in [0..n - 1 -> BasisRows(n)] BY <1>1, <1>14, <1>16
  <2>2. ASSUME NEW q \in 0..n - 1, b[q] # Unused PROVE GoodRow(L, b[q], q, j + 1)
    <3>1. CASE q = p BY <1>14, <1>16, <3>1
    <3>2. CASE q # p
      <4>1. b[q] = basis[q] /\ GoodRow(L, basis[q], q, j) BY <1>16, <2>2, <3>2 DEF GoodBasis
      <4>2. Words(j) \subseteq Words(j + 1)
        <5>1. PICK e \in Nat : e = j + 1 BY <1>1
        <5> QED BY <1>1, <5>1, WordsAre
      <4> QED BY <4>1, <4>2 DEF GoodRow
    <3> QED BY <3>1, <3>2
  <2> QED BY <2>1, <2>2 DEF GoodBasis
<1>18. p \notin Used(n, basis) /\ Used(n, b) = Used(n, basis) \cup {p} BY <1>12, <1>15, <1>16 DEF Used
<1> QED BY <1>12, <1>17, <1>18 DEF b, Grown

(* An insertion with no place free changes nothing.                          *)
LEMMA InsertStays ==
  ASSUME NEW n \in Nat, XorOn(n), NEW basis \in [0..n - 1 -> BasisRows(n)], NEW row \in BasisRows(n)
  PROVE  insert(basis, row) \in [0..n - 1 -> BasisRows(n)]
<1> DEFINE F == Free(basis, row)
           p == Max(F)
<1>1. Cardinality(DOMAIN basis) = n /\ \A k \in 0..n : reduced(basis, row, k) \in BasisRows(n) BY ReducedIs
<1>2. F \subseteq 0..n - 1 BY DEF Free
<1>3. CASE F = {} BY <1>3 DEF insert
<1>4. CASE F # {}
  <2>1. p \in 0..n - 1
    <3> HIDE DEF F
    <3> QED BY <1>2, <1>4, HighestPlace
  <2>2. Reaching(basis, row, p) \in BasisRows(n)
    <3> HIDE DEF p
    <3>1. n - 1 - p \in 0..n BY <2>1
    <3> QED BY <1>1, <3>1 DEF Reaching
  <2>3. insert(basis, row) = [basis EXCEPT ![p] = Reaching(basis, row, p)] BY <1>4 DEF insert
  <2> HIDE DEF p
  <2> QED BY <2>1, <2>2, <2>3
<1> QED BY <1>3, <1>4

ProbedRow(m, choice, j) ==
  [vector |-> BitXor(probe(m, choice, 2^j), probe(m, choice, 0)), address_bits |-> 2^j]

Built(n, m, choice) ==
  \E after \in [0..n -> [0..n - 1 -> BasisRows(n)]] :
    /\ Basis(m, choice, n) = after[n] /\ after[0] = [p \in 0..n - 1 |-> Unused]
    /\ \A j \in 1..n : after[j] = insert(after[j - 1], ProbedRow(m, choice, j - 1))

(* The basis grows by one address bit at a time.                              *)
LEMMA BasisIs ==
  ASSUME NEW n \in Nat, XorOn(n), NEW m, AddrBits(m) = n, NEW choice,
         \A j \in 0..n - 1 : ProbedRow(m, choice, j) \in BasisRows(n)
  PROVE  Built(n, m, choice)
<1> DEFINE V     == [0..n - 1 -> BasisRows(n)]
           none  == [p \in 0..n - 1 |-> Unused]
           row(j) == ProbedRow(m, choice, j)
           step  == [i \in 1..n |-> [v \in V |-> insert(v, row(i - 1))]]
           after == CHOOSE f : f = [j \in 0..n |-> IF j = 0 THEN [p \in 0..AddrBits(m) - 1 |-> Unused]
                                                     ELSE insert(f[j - 1], row(j - 1))]
<1>1. none \in V
  <2>1. Unused \in BasisRows(n)
    <3>1. 0 \in Words(n) BY WordsAre
    <3> QED BY <3>1 DEF Unused, BasisRows
  <2> QED BY <2>1
<1>2. ASSUME NEW v \in V, NEW i \in 1..n PROVE insert(v, row(i - 1)) \in V
  <2>1. i - 1 \in 0..n - 1 OBVIOUS
  <2>2. row(i - 1) \in BasisRows(n) BY <2>1
  <2> HIDE DEF row
  <2> QED BY <2>2, InsertStays
<1> HIDE DEF row, V, none
<1>3. step \in [1..n -> [V -> V]] /\ \A i \in 1..n, v \in V : step[i][v] = insert(v, row(i - 1))
  BY <1>2
<1>4. PICK f \in [0..n -> V] : Runs(f, none, step, n)
  <2> HIDE DEF step
  <2> QED BY <1>1, <1>3, Iterates
<1>5. ASSUME NEW i \in 0..n PROVE f[i] = IF i = 0 THEN none ELSE insert(f[i - 1], row(i - 1))
  <2>1. CASE i = 0 BY <1>4, <2>1 DEF Runs
  <2>2. CASE i # 0
    <3> HIDE DEF step
    <3>1. i \in 1..n /\ i - 1 \in 0..n BY <2>2
    <3>2. f[i - 1] \in V /\ f[i] = step[i][f[i - 1]] BY <1>4, <3>1 DEF Runs
    <3> QED BY <1>3, <2>2, <3>1, <3>2
  <2> QED BY <2>1, <2>2
<1>6. none = [p \in 0..AddrBits(m) - 1 |-> Unused] BY DEF none
<1>7. f = [j \in 0..n |-> IF j = 0 THEN [p \in 0..AddrBits(m) - 1 |-> Unused] ELSE insert(f[j - 1], row(j - 1))]
  <2> HIDE DEF step
  <2>1. f = [j \in 0..n |-> IF j = 0 THEN none ELSE insert(f[j - 1], row(j - 1))] BY <1>4, <1>5
  <2> QED BY <1>6, <2>1
<1>8. after = [j \in 0..n |-> IF j = 0 THEN [p \in 0..AddrBits(m) - 1 |-> Unused] ELSE insert(after[j - 1], row(j - 1))]
  BY <1>7
<1>9. Basis(m, choice, n) = after[n] BY DEF Basis, row, ProbedRow
<1> HIDE DEF after
<1>10. after[0] = none /\ \A i \in 1..n : after[i] = insert(after[i - 1], row(i - 1))
  <2>1. after[0] = none BY <1>6, <1>8
  <2>2. ASSUME NEW i \in 1..n PROVE after[i] = insert(after[i - 1], row(i - 1))
    <3>1. i \in 0..n /\ i # 0 OBVIOUS
    <3> QED BY <1>8, <3>1
  <2> QED BY <2>1, <2>2
<1>11. \A i \in 0..n : after[i] \in V
  <2> DEFINE S == {i \in 0..n : after[i] \in V}
  <2>1. 0 \in S BY <1>1, <1>10
  <2>2. ASSUME NEW k \in 0..n - 1, k \in S PROVE k + 1 \in S
    <3>1. PICK e \in 1..n : e = k + 1 /\ e - 1 = k /\ e \in 0..n
      <4>1. k + 1 \in 1..n /\ k + 1 - 1 = k /\ k + 1 \in 0..n OBVIOUS
      <4> QED BY <4>1
    <3>2. after[e] = insert(after[e - 1], row(e - 1)) BY <1>10
    <3>3. after[e - 1] \in V BY <2>2, <3>1
    <3>4. after[e] \in V BY <1>2, <3>2, <3>3
    <3> QED BY <3>1, <3>4
  <2>3. \A i \in 0..n : i \in S
    <3> HIDE DEF S
    <3> QED BY <2>1, <2>2, Climb
  <2> QED BY <2>3
<1>12. after \in [0..n -> V] BY <1>8, <1>11
<1> QED BY <1>9, <1>10, <1>12 DEF V, none, row, Built

(* A mapper's probes are the images of the address bits.                      *)
Probes(L, n, m, choice) ==
  /\ AddrBits(m) = n
  /\ \A a \in Words(n) : L[a] = BitXor(probe(m, choice, a), probe(m, choice, 0))

(* At the end every place is in use.                                         *)
LEMMA BasisFills ==
  ASSUME NEW n \in Nat, XorOn(n), NEW L, Additive(L, n), NEW m, NEW choice, Probes(L, n, m, choice)
  PROVE  GoodBasis(L, n, Basis(m, choice, n), n) /\ Used(n, Basis(m, choice, n)) = 0..n - 1
<1>1. ASSUME NEW j \in 0..n - 1
      PROVE  ProbedRow(m, choice, j) = [vector |-> L[2^j], address_bits |-> 2^j] /\ ProbedRow(m, choice, j) \in BasisRows(n)
  <2>1. 2^j \in Words(n)
    <3>1. j \in Nat /\ j < n OBVIOUS
    <3>2. 2^j < 2^n /\ 2^j \in Nat /\ 2^n \in Nat BY <3>1, PowerGrows, PowerIsPositive
    <3> QED BY <3>2 DEF Words
  <2>2. L[2^j] \in Words(n) BY <2>1 DEF Additive
  <2>3. L[2^j] = BitXor(probe(m, choice, 2^j), probe(m, choice, 0)) BY <2>1 DEF Probes
  <2> QED BY <2>1, <2>2, <2>3 DEF ProbedRow, BasisRows
<1>2. AddrBits(m) = n BY DEF Probes
<1>3. PICK after \in [0..n -> [0..n - 1 -> BasisRows(n)]] :
        /\ Basis(m, choice, n) = after[n] /\ after[0] = [p \in 0..n - 1 |-> Unused]
        /\ \A j \in 1..n : after[j] = insert(after[j - 1], ProbedRow(m, choice, j - 1))
  <2>1. \A j \in 0..n - 1 : ProbedRow(m, choice, j) \in BasisRows(n) BY <1>1
  <2>2. Built(n, m, choice) BY <1>2, <2>1, BasisIs
  <2> QED BY <2>2 DEF Built
<1> DEFINE S == {j \in 0..n : GoodBasis(L, n, after[j], j) /\ Cardinality(Used(n, after[j])) = j}
<1>4. 0 \in S
  <2>1. \A p \in 0..n - 1 : after[0][p] = Unused BY <1>3
  <2>2. Used(n, after[0]) = {} BY <2>1 DEF Used
  <2>3. GoodBasis(L, n, after[0], 0) BY <1>3, <2>1 DEF GoodBasis
  <2>4. Cardinality(Used(n, after[0])) = 0 BY <2>2, FS_EmptySet
  <2> QED BY <2>3, <2>4
<1>5. ASSUME NEW j \in 0..n - 1, j \in S PROVE j + 1 \in S
  <2>1. j + 1 \in 1..n /\ j + 1 - 1 = j /\ j + 1 \in 0..n /\ j \in 0..n OBVIOUS
  <2>2. after[j + 1] = insert(after[j], ProbedRow(m, choice, j)) BY <1>3, <2>1
  <2>3. GoodBasis(L, n, after[j], j) /\ Cardinality(Used(n, after[j])) = j BY <1>5
  <2> DEFINE old == after[j]
             new == after[j + 1]
  <2> HIDE DEF old, new
  <2>4. Grown(L, n, old, new, j)
    <3>1. PICK row : row = ProbedRow(m, choice, j) OBVIOUS
    <3>2. row = ImageRow(L, j) BY <1>1, <3>1 DEF ImageRow
    <3>3. new = insert(old, row) /\ GoodBasis(L, n, old, j) BY <2>2, <2>3, <3>1 DEF old, new
    <3> QED BY <3>2, <3>3, InsertFills
  <2>5. PICK p \in 0..n - 1 : p \notin Used(n, old) /\ Used(n, new) = Used(n, old) \cup {p} BY <2>4 DEF Grown
  <2>6. IsFiniteSet(Used(n, old))
    <3>1. Used(n, old) \subseteq 0..n - 1 /\ IsFiniteSet(0..n - 1) BY FS_Interval DEF Used
    <3> QED BY <3>1, FS_Subset
  <2>7. Cardinality(Used(n, new)) = j + 1 BY <2>3, <2>5, <2>6, FS_AddElement DEF old
  <2> QED BY <2>1, <2>4, <2>7 DEF new, Grown
<1>6. \A j \in 0..n : j \in S
  <2> HIDE DEF S
  <2> QED BY <1>4, <1>5, Climb
<1>7. n \in S BY <1>6
<1>8. GoodBasis(L, n, Basis(m, choice, n), n) /\ Cardinality(Used(n, Basis(m, choice, n))) = n BY <1>3, <1>7
<1>9. Used(n, Basis(m, choice, n)) = 0..n - 1
  <2> DEFINE U == Used(n, Basis(m, choice, n))
  <2>1. U \subseteq 0..n - 1 BY DEF Used
  <2>2. IsFiniteSet(0..n - 1) /\ Cardinality(0..n - 1) = n
    <3>1. Cardinality(0..n - 1) = (IF 0 > n - 1 THEN 0 ELSE n - 1 - 0 + 1) /\ IsFiniteSet(0..n - 1) BY FS_Interval
    <3> QED BY <3>1
  <2>3. Cardinality(U) = n BY <1>8
  <2> HIDE DEF U
  <2>4. U = 0..n - 1 BY <2>1, <2>2, <2>3, FS_Subset
  <2> QED BY <2>4 DEF U
<1> QED BY <1>8, <1>9

(* So the inverter solves for the word of any image.                          *)
LEMMA Solves ==
  ASSUME NEW n \in Nat, XorOn(n), NEW L, Additive(L, n), NEW m, NEW choice, Probes(L, n, m, choice), NEW word \in Words(n)
  PROVE  solve(Basis(m, choice, n), L[word]) = [solvable |-> TRUE, address_bits |-> word]
<1> DEFINE basis == Basis(m, choice, n)
           row   == [vector |-> L[word], address_bits |-> 0]
           rest  == reduced(basis, row, n)
<1>1. GoodBasis(L, n, basis, n) /\ Used(n, basis) = 0..n - 1 BY BasisFills
<1>2. 0 \in Words(n) /\ L[word] \in Words(n) /\ L[0] \in Words(n) BY WordsAre DEF Additive
<1>3. row \in BasisRows(n) BY <1>2 DEF BasisRows
<1>4. L[0] = 0
  <2>1. BitXor(0, 0) = 0 BY <1>2, XorLaws
  <2>2. L[BitXor(0, 0)] = BitXor(L[0], L[0]) BY <1>2 DEF Additive
  <2>3. BitXor(L[0], L[0]) = 0 BY <1>2, XorLaws
  <2> QED BY <2>1, <2>2, <2>3
<1> HIDE DEF basis
<1>5. NoneFree(n, basis, row, n)
  <2>1. ASSUME NEW i \in 0..n - 1 PROVE basis[n - 1 - i] # Unused
    <3>1. n - 1 - i \in 0..n - 1 OBVIOUS
    <3> QED BY <1>1, <3>1 DEF Used
  <2> QED BY <2>1 DEF NoneFree
<1>6. Kept(L, n, n, row, rest, n)
  <2>1. n \in 0..n OBVIOUS
  <2> HIDE DEF row
  <2> QED BY <1>1, <1>3, <1>5, <2>1, ReducingKeeps
<1>7. Cardinality(DOMAIN basis) = n BY <1>1, <1>3, ReducedIs DEF GoodBasis
<1>8. solve(basis, L[word]) = [solvable |-> rest.vector = 0, address_bits |-> rest.address_bits] BY <1>7 DEF solve
<1> HIDE DEF rest
<1>9. rest \in BasisRows(n) /\ BitXor(rest.vector, L[rest.address_bits]) = L[word] /\ rest.vector = 0
  <2>1. n - n = 0 OBVIOUS
  <2>2. rest \in BasisRows(n) /\ rest.vector \in Words(n - n)
        /\ BitXor(rest.vector, L[rest.address_bits]) = BitXor(row.vector, L[row.address_bits])
    BY <1>6 DEF Kept
  <2>3. BitXor(row.vector, L[row.address_bits]) = L[word] BY <1>2, <1>4, XorLaws
  <2> QED BY <2>1, <2>2, <2>3, OnlyZero
<1>10. rest.address_bits \in Words(n) /\ L[rest.address_bits] = L[word]
  <2>1. rest.address_bits \in Words(n) BY <1>9 DEF BasisRows
  <2>2. L[rest.address_bits] \in Words(n) BY <2>1 DEF Additive
  <2> QED BY <1>9, <2>1, <2>2, XorLaws
<1>11. rest.address_bits = word
  <2> DEFINE a == rest.address_bits
  <2> HIDE DEF a
  <2>1. a \in Words(n) /\ L[a] = L[word] BY <1>10 DEF a
  <2>2. BitXor(a, word) \in Words(n) BY <2>1, XorBits
  <2>3. L[BitXor(a, word)] = BitXor(L[word], L[word]) BY <2>1 DEF Additive
  <2>4. BitXor(L[word], L[word]) = 0 BY <1>2, XorLaws
  <2>5. BitXor(a, word) = 0 BY <2>2, <2>3, <2>4 DEF Additive
  <2>6. BitXor(BitXor(a, word), word) = a /\ BitXor(0, word) = word BY <2>1, XorLaws
  <2> QED BY <2>5, <2>6 DEF a
<1> QED BY <1>8, <1>9, <1>11 DEF basis

-----------------------------------------------------------------------------
(* Fields joined in a word.                                                  *)

AddsUp(coords, P, places, R) ==
  /\ joined(coords, P, places, 0) = 0
  /\ \A i \in 0..R : joined(coords, P, places, i) \in Nat
  /\ \A i \in 1..R :
       joined(coords, P, places, i) = joined(coords, P, places, i - 1) + coord_int(coords, P[i]) * 2^places[P[i]]

(* Joining adds one field after the other.                                   *)
LEMMA JoinedIs ==
  ASSUME NEW coords, NEW P, NEW places, Len(P) \in Nat,
         \A i \in 1..Len(P) : coord_int(coords, P[i]) \in Nat /\ places[P[i]] \in Nat
  PROVE  AddsUp(coords, P, places, Len(P))
<1> DEFINE n    == Len(P)
           term(i) == coord_int(coords, P[i]) * 2^places[P[i]]
           step == [i \in 1..n |-> [v \in Nat |-> v + term(i)]]
           word == CHOOSE f : f = [i \in 0..n |-> IF i = 0 THEN 0 ELSE f[i - 1] + coord_int(coords, P[i]) * 2^places[P[i]]]
<1>1. n \in Nat OBVIOUS
<1>2. \A i \in 1..n : term(i) \in Nat
  <2>1. ASSUME NEW i \in 1..n PROVE term(i) \in Nat
    <3>1. coord_int(coords, P[i]) \in Nat /\ 2^places[P[i]] \in Nat BY PowerIsPositive
    <3> QED BY <3>1
  <2> QED BY <2>1
<1>3. \A i : term(i) = coord_int(coords, P[i]) * 2^places[P[i]] OBVIOUS
<1> HIDE DEF term, n
<1>4. step \in [1..n -> [Nat -> Nat]] /\ \A i \in 1..n, v \in Nat : step[i][v] = v + term(i) BY <1>2
<1>5. PICK f \in [0..n -> Nat] : Runs(f, 0, step, n)
  <2> HIDE DEF step
  <2> QED BY <1>1, <1>4, Iterates
<1>6. ASSUME NEW i \in 0..n PROVE f[i] = IF i = 0 THEN 0 ELSE f[i - 1] + coord_int(coords, P[i]) * 2^places[P[i]]
  <2>1. CASE i = 0 BY <1>5, <2>1 DEF Runs
  <2>2. CASE i # 0
    <3> HIDE DEF step
    <3>1. i \in 1..n /\ i - 1 \in 0..n BY <1>1, <2>2
    <3>2. f[i - 1] \in Nat /\ f[i] = step[i][f[i - 1]] BY <1>5, <3>1 DEF Runs
    <3> QED BY <1>3, <1>4, <2>2, <3>1, <3>2
  <2> QED BY <2>1, <2>2
<1>7. f = [i \in 0..n |-> IF i = 0 THEN 0 ELSE f[i - 1] + coord_int(coords, P[i]) * 2^places[P[i]]]
  <2> HIDE DEF step
  <2> QED BY <1>5, <1>6
<1>8. word = [i \in 0..n |-> IF i = 0 THEN 0 ELSE word[i - 1] + coord_int(coords, P[i]) * 2^places[P[i]]] BY <1>7
<1>9. \A i : joined(coords, P, places, i) = word[i] BY DEF joined, n
<1> HIDE DEF word, step
<1>10. word[0] = 0 /\ \A i \in 1..n : word[i] = word[i - 1] + term(i)
  <2>1. word[0] = 0 BY <1>1, <1>8
  <2>2. ASSUME NEW i \in 1..n PROVE word[i] = word[i - 1] + term(i)
    <3>1. i \in 0..n /\ i # 0 BY <1>1
    <3> QED BY <1>3, <1>8, <3>1
  <2> QED BY <2>1, <2>2
<1>11. \A i \in 0..n : word[i] \in Nat
  <2> DEFINE S == {i \in 0..n : word[i] \in Nat}
  <2>1. 0 \in S BY <1>1, <1>10
  <2>2. ASSUME NEW k \in 0..n - 1, k \in S PROVE k + 1 \in S
    <3>1. PICK e \in 1..n : e = k + 1 /\ e - 1 = k /\ e \in 0..n
      <4>1. k + 1 \in 1..n /\ k + 1 - 1 = k /\ k + 1 \in 0..n BY <1>1
      <4> QED BY <4>1
    <3>2. word[e] = word[k] + term(e) /\ term(e) \in Nat /\ word[k] \in Nat BY <1>2, <1>10, <2>2, <3>1
    <3> QED BY <3>1, <3>2
  <2>3. \A i \in 0..n : i \in S
    <3> HIDE DEF S
    <3> QED BY <1>1, <2>1, <2>2, Climb
  <2> QED BY <2>3
<1> QED BY <1>3, <1>9, <1>10, <1>11 DEF AddsUp, n

(* Fields that have their own places below the N-th bit, and values that fit.   *)
HasPlaces(widths, P, places, N) ==
  /\ \A i \in 1..Len(P) :
       places[P[i]] \in Nat /\ widths[P[i]] \in Nat /\ places[P[i]] + widths[P[i]] <= N
  /\ \A i, j \in 1..Len(P) : i < j =>
       places[P[i]] + widths[P[i]] <= places[P[j]] \/ places[P[j]] + widths[P[j]] <= places[P[i]]
Fit(coords, widths, P) == \A i \in 1..Len(P) : coord_int(coords, P[i]) \in Words(widths[P[i]])

At(widths, places, f) == places[f]..places[f] + widths[f] - 1

(* The first k of them are in the word, and nothing else is.                   *)
Laid(word, coords, widths, P, places, N, k) ==
  /\ word \in Words(N)
  /\ \A i \in 1..k : Holds(word, places[P[i]], widths[P[i]], coord_int(coords, P[i]))
  /\ \A p \in Nat : (\A i \in 1..k : p \notin At(widths, places, P[i])) => ~Bit(word, p)

(* Fields that fit, joined in a word, lie each at its place.                 *)
LEMMA JoinBits ==
  ASSUME NEW N \in Nat, NEW coords, NEW widths, NEW P, NEW places, Len(P) \in Nat,
         HasPlaces(widths, P, places, N), Fit(coords, widths, P)
  PROVE  \A k \in 0..Len(P) : Laid(joined(coords, P, places, k), coords, widths, P, places, N, k)
<1> DEFINE n    == Len(P)
           word(k) == joined(coords, P, places, k)
           S    == {k \in 0..n : Laid(word(k), coords, widths, P, places, N, k)}
<1>1. n \in Nat /\ \A i \in 1..n : /\ places[P[i]] \in Nat /\ widths[P[i]] \in Nat /\ places[P[i]] + widths[P[i]] <= N
                                   /\ coord_int(coords, P[i]) \in Words(widths[P[i]])
  BY DEF HasPlaces, Fit
<1>2. \A i \in 1..n : coord_int(coords, P[i]) \in Nat BY <1>1, WordsAre
<1>3. AddsUp(coords, P, places, n) BY <1>1, <1>2, JoinedIs
<1>4. 0 \in S
  <2>1. word(0) = 0 /\ 0 \in Words(N) BY <1>3, WordsAre DEF AddsUp
  <2>2. \A p \in Nat : ~Bit(0, p) BY NoBitsOfZero
  <2> QED BY <1>1, <2>1, <2>2 DEF Laid
<1>5. ASSUME NEW k \in 0..n - 1, k \in S PROVE k + 1 \in S
  <2>1. PICK e \in 1..n : e = k + 1 /\ e - 1 = k /\ e \in 0..n
    <3>1. k + 1 \in 1..n /\ k + 1 - 1 = k /\ k + 1 \in 0..n BY <1>1
    <3> QED BY <3>1
  <2> DEFINE s == places[P[e]]
             w == widths[P[e]]
             v == coord_int(coords, P[e])
             x == word(k)
             y == word(e)
  <2>2. s \in Nat /\ w \in Nat /\ s + w <= N /\ v \in 0..2^w - 1 BY <1>1 DEF Words
  <2>3. y = x + v * 2^s BY <1>3, <2>1 DEF AddsUp
  <2>4. Laid(x, coords, widths, P, places, N, k) BY <1>5
  <2>5. x \in 0..2^N - 1 BY <2>4 DEF Laid, Words
  <2>6. ASSUME NEW i \in 1..k, NEW p \in Nat
        PROVE  ~(p \in At(widths, places, P[i]) /\ p \in s..s + w - 1)
    <3>1. i \in 1..n /\ i < e BY <1>1, <2>1
    <3>2. places[P[i]] + widths[P[i]] <= s \/ s + w <= places[P[i]] BY <3>1 DEF HasPlaces
    <3>3. places[P[i]] \in Nat /\ widths[P[i]] \in Nat BY <1>1, <3>1
    <3> HIDE DEF s, w
    <3> QED BY <2>2, <3>2, <3>3 DEF At
  <2> HIDE DEF s, w, v, x, y
  <2>7. Vacant(x, s, w)
    <3>1. ASSUME NEW j \in 0..w - 1 PROVE ~Bit(x, s + j)
      <4>1. PICK p \in Nat : p = s + j /\ p \in s..s + w - 1
        <5>1. s + j \in Nat /\ s + j \in s..s + w - 1 BY <2>2
        <5> QED BY <5>1
      <4>2. \A i \in 1..k : p \notin At(widths, places, P[i]) BY <2>6, <4>1
      <4> QED BY <2>4, <4>1, <4>2 DEF Laid
    <3> QED BY <3>1 DEF Vacant
  <2>8. /\ y \in 0..2^N - 1 /\ Holds(y, s, w, v)
        /\ \A p \in Nat : p \notin s..s + w - 1 => (Bit(y, p) <=> Bit(x, p))
    <3>1. Added(N, x, s, w, v, y) BY <2>2, <2>3, <2>5, <2>7, FieldIsAdded
    <3> QED BY <3>1 DEF Added
  <2>9. ASSUME NEW i \in 1..e PROVE Holds(y, places[P[i]], widths[P[i]], coord_int(coords, P[i]))
    <3>1. CASE i = e BY <2>8, <3>1 DEF s, w, v
    <3>2. CASE i # e
      <4>1. i \in 1..k /\ i \in 1..n BY <1>1, <2>1, <3>2
      <4>2. places[P[i]] \in Nat /\ widths[P[i]] \in Nat BY <1>1, <4>1
      <4>3. Holds(x, places[P[i]], widths[P[i]], coord_int(coords, P[i])) BY <2>4, <4>1 DEF Laid
      <4>4. ASSUME NEW j \in 0..widths[P[i]] - 1
            PROVE  Bit(y, places[P[i]] + j) <=> Bit(x, places[P[i]] + j)
        <5>1. PICK p \in Nat : p = places[P[i]] + j /\ p \in At(widths, places, P[i])
          <6>1. places[P[i]] + j \in Nat /\ places[P[i]] + j \in places[P[i]]..places[P[i]] + widths[P[i]] - 1 BY <4>2
          <6> QED BY <6>1 DEF At
        <5>2. p \notin s..s + w - 1 BY <2>6, <4>1, <5>1
        <5> QED BY <2>8, <5>1, <5>2
      <4> QED BY <4>3, <4>4 DEF Holds
    <3> QED BY <3>1, <3>2
  <2>10. ASSUME NEW p \in Nat, \A i \in 1..e : p \notin At(widths, places, P[i]) PROVE ~Bit(y, p)
    <3>1. e \in 1..e /\ 1..k \subseteq 1..e BY <1>1, <2>1
    <3>2. p \notin s..s + w - 1 BY <2>10, <3>1 DEF At, s, w
    <3>3. ~Bit(x, p) BY <2>4, <2>10, <3>1 DEF Laid
    <3> QED BY <2>8, <3>2, <3>3
  <2>11. Laid(y, coords, widths, P, places, N, e) BY <2>8, <2>9, <2>10 DEF Laid, Words
  <2> QED BY <2>1, <2>11 DEF y
<1>6. \A k \in 0..n : k \in S
  <2> HIDE DEF S
  <2> QED BY <1>1, <1>4, <1>5, Climb
<1> QED BY <1>6

(* Where a field's bits are, its value is.                                    *)
LEMMA HeldIs ==
  ASSUME NEW word \in Nat, NEW s \in Nat, NEW w \in Nat, NEW v \in Words(w), Holds(word, s, w, v)
  PROVE  (word \div 2^s) % 2^w = v
<1> DEFINE q == word \div 2^s
           m == q % 2^w
<1>1. q \in Nat /\ \A j \in Nat : Bit(q, j) <=> Bit(word, s + j) BY BitsOfQuotient
<1> HIDE DEF q
<1>2. m \in 0..2^w - 1 /\ \A j \in Nat : Bit(m, j) <=> j < w /\ Bit(q, j) BY <1>1, BitsOfRest
<1> HIDE DEF m
<1>3. SameBits(m, v, w)
  <2>1. ASSUME NEW j \in 0..w - 1 PROVE Bit(m, j) <=> Bit(v, j)
    <3>1. j \in Nat /\ j < w OBVIOUS
    <3> QED BY <1>1, <1>2, <3>1 DEF Holds
  <2> QED BY <2>1 DEF SameBits
<1>4. m = v BY <1>2, <1>3, BitsTell DEF Words
<1> QED BY <1>4 DEF m, q

-----------------------------------------------------------------------------
(* The fields of an address.                                                 *)

FieldOf(x, s, w) == (x \div 2^s) % 2^w

(* A field of a sum of words is the sum of their fields.                       *)
LEMMA FieldOfXor ==
  ASSUME NEW n \in Nat, XorOn(n), NEW a \in Words(n), NEW b \in Words(n), NEW s \in Nat, NEW w \in 0..n
  PROVE  /\ FieldOf(a, s, w) \in Words(w)
         /\ FieldOf(BitXor(a, b), s, w) = BitXor(FieldOf(a, s, w), FieldOf(b, s, w))
<1>1. w \in Nat /\ XorOn(w) /\ BitXor(a, b) \in Words(n) BY XorNarrows, XorBits
<1>2. ASSUME NEW x \in Words(n)
      PROVE  FieldOf(x, s, w) \in Words(w) /\ \A j \in 0..w - 1 : Bit(FieldOf(x, s, w), j) <=> Bit(x, s + j)
  <2> DEFINE q == x \div 2^s
  <2>1. x \in Nat BY WordsAre
  <2>2. q \in Nat /\ \A j \in Nat : Bit(q, j) <=> Bit(x, s + j) BY <2>1, BitsOfQuotient
  <2> HIDE DEF q
  <2>3. q % 2^w \in 0..2^w - 1 /\ \A j \in Nat : Bit(q % 2^w, j) <=> j < w /\ Bit(q, j) BY <1>1, <2>2, BitsOfRest
  <2>4. FieldOf(x, s, w) = q % 2^w BY DEF FieldOf, q
  <2>5. \A j \in 0..w - 1 : j \in Nat /\ j < w BY <1>1
  <2> QED BY <2>2, <2>3, <2>4, <2>5 DEF Words
<1> DEFINE l == FieldOf(BitXor(a, b), s, w)
           c == FieldOf(a, s, w)
           d == FieldOf(b, s, w)
           r0 == BitXor(c, d)
<1>3. c \in Words(w) /\ d \in Words(w) /\ l \in Words(w) BY <1>1, <1>2
<1> HIDE DEF l, c, d
<1>4. r0 \in Words(w) /\ \A j \in 0..w - 1 : Bit(r0, j) <=> ~(Bit(c, j) <=> Bit(d, j)) BY <1>1, <1>3, XorBits
<1>5. ASSUME NEW j \in 0..w - 1 PROVE Bit(l, j) <=> Bit(r0, j)
  <2>1. PICK p \in Nat : p = s + j
    <3>1. s + j \in Nat BY <1>1
    <3> QED BY <3>1
  <2>2. (Bit(l, j) <=> Bit(BitXor(a, b), p)) /\ (Bit(c, j) <=> Bit(a, p)) /\ (Bit(d, j) <=> Bit(b, p))
    BY <1>1, <1>2, <2>1 DEF l, c, d
  <2>3. Bit(BitXor(a, b), p) <=> ~(Bit(a, p) <=> Bit(b, p))
    <3>1. CASE p < n
      <4>1. p \in 0..n - 1 BY <3>1
      <4> QED BY <4>1, XorBits
    <3>2. CASE ~(p < n)
      <4>1. n <= p BY <3>2
      <4>2. ~Bit(a, p) /\ ~Bit(b, p) /\ ~Bit(BitXor(a, b), p) BY <1>1, <4>1, NoHighBits DEF Words
      <4> QED BY <4>2
    <3> QED BY <3>1, <3>2
  <2> QED BY <1>4, <2>2, <2>3
<1>6. SameBits(l, r0, w) BY <1>5 DEF SameBits
<1>7. l = r0 BY <1>1, <1>3, <1>4, <1>6, BitsTell DEF Words
<1> QED BY <1>3, <1>7 DEF l, c, d

(* A rest with one more field.                                               *)
LEMMA RestGrows ==
  ASSUME NEW x \in Nat, NEW s \in Nat, NEW w \in Nat
  PROVE  x % 2^(s + w) = (x % 2^s) + FieldOf(x, s, w) * 2^s
<1> DEFINE d == 2^s
           c == 2^w
           q == x \div d
           m == x % d
           h == q \div c
           l == q % c
<1>1. d \in Nat \ {0} /\ c \in Nat \ {0} /\ 2^(s + w) = d * c BY PowerIsPositive, PowerOfSum
<1>2. q \in Nat /\ m \in 0..d - 1 /\ x = q * d + m BY <1>1, Division
<1>3. h \in Nat /\ l \in 0..c - 1 /\ q = h * c + l
  <2> HIDE DEF q
  <2> QED BY <1>1, <1>2, Division
<1>4. l * d + m \in 0..2^(s + w) - 1
  <2>1. l \in 0..2^w - 1 /\ m \in 0..2^s - 1 BY <1>2, <1>3
  <2> HIDE DEF l, m
  <2>2. l * 2^s + m \in 0..2^(s + w) - 1 BY <2>1, SumIsWithin
  <2> QED BY <2>2
<1>5. FieldOf(x, s, w) = l BY DEF FieldOf
<1> HIDE DEF q, m, h, l
<1>6. x % 2^(s + w) = l * d + m
  <2> DEFINE e    == 2^(s + w)
             rest == l * d + m
  <2>1. e = d * c /\ e \in Nat \ {0} /\ rest \in 0..e - 1
    <3>1. d * c \in Nat \ {0}
      <4> HIDE DEF d, c
      <4> QED BY <1>1
    <3> QED BY <1>1, <1>4, <3>1
  <2>2. x = h * e + rest
    <3> HIDE DEF d, c, e
    <3>1. h * (d * c) = (h * c) * d BY <1>1, <1>3
    <3>2. (h * c + l) * d = (h * c) * d + l * d BY <1>1, <1>3
    <3>3. h * c \in Nat /\ l * d \in Nat /\ (h * c) * d \in Nat
      <4>1. h * c \in Nat /\ l \in Nat BY <1>1, <1>3
      <4> QED BY <1>1, <4>1
    <3> QED BY <1>2, <1>3, <2>1, <3>1, <3>2, <3>3
  <2> HIDE DEF e, rest
  <2>3. x % e = rest BY <1>3, <2>1, <2>2, Quotient
  <2> QED BY <2>3 DEF e, rest
<1>7. l * d \in Nat /\ m \in Nat
  <2>1. l \in Nat BY <1>1, <1>3
  <2> HIDE DEF d, c
  <2> QED BY <1>1, <1>2, <2>1
<1> QED BY <1>5, <1>6, <1>7 DEF m

(* Every field has its place among the address bits, and in a packed word.      *)
Placed(m, n) ==
  /\ n \in Nat /\ n = AddrBits(m) /\ m.tx_offset \in Nat /\ Len(m.placement) \in Nat
  /\ Fields(m) = {m.placement[i] : i \in 1..Len(m.placement)}
  /\ \A f \in Fields(m) : /\ m.shifts[f] \in Nat /\ m.shifts[f] - m.tx_offset \in Nat
                          /\ m.widths[f] \in 0..n /\ f # "channel"
  /\ HasPlaces(m.widths, m.placement, m.shifts, n + m.tx_offset)
  /\ HasPlaces(m.widths, m.placement, packed_at(m), n)
  /\ m.shifts["row"] + m.widths["row"] = n + m.tx_offset
  /\ m.capacity = 2^(n + m.tx_offset)

(* A mapper with such a layout has its fields so placed.                     *)
LEMMA PlacedIs ==
  ASSUME NEW m, Layout(m), Stacked(m)
  PROVE  Placed(m, AddrBits(m))
<1> DEFINE P  == m.placement
           R  == Len(P)
           tx == m.tx_offset
           n  == AddrBits(m)
           s(i) == m.shifts[P[i]]
           w(i) == m.widths[P[i]]
<1>1. /\ R \in Nat \ {0, 1} /\ DOMAIN P = 1..R /\ P[1] = "column" /\ P[R] = "row"
      /\ Fields(m) = {P[i] : i \in 1..R} /\ \A i, j \in 1..R : P[i] = P[j] => i = j
      /\ tx \in Nat /\ m.shifts["column"] = tx
      /\ \A i, j \in 1..R : i < j => s(i) + w(i) <= s(j)
  BY DEF Stacked, Stack
<1>2. \A f \in Fields(m) : m.widths[f] \in Nat /\ m.shifts[f] \in Nat /\ f # "channel" BY DEF Layout
<1>3. 1 \in 1..R /\ R \in 1..R /\ 1 < R BY <1>1
<1>4. \A i \in 1..R : P[i] \in Fields(m) /\ s(i) \in Nat /\ w(i) \in Nat BY <1>1, <1>2
<1>5. s(1) = tx /\ n = s(R) + w(R) - tx BY <1>1 DEF AddrBits
<1>6. \A i \in 1..R : i # 1 => tx + w(1) <= s(i) BY <1>1, <1>3, <1>5
<1>7. \A i \in 1..R : i # R => s(i) + w(i) <= s(R) BY <1>1, <1>3
<1>8. m.shifts["row"] = s(R) /\ m.widths["row"] = w(R) /\ m.widths["column"] = w(1) BY <1>1
<1>9. m.capacity = 2^(m.shifts["row"] + m.widths["row"]) BY DEF Layout
<1>10. \A i \in 1..R : packed_at(m)[P[i]] = IF i = 1 THEN n - w(1) ELSE s(i) - tx - w(1)
  <2>1. ASSUME NEW i \in 1..R PROVE packed_at(m)[P[i]] = IF i = 1 THEN n - w(1) ELSE s(i) - tx - w(1)
    <3>1. P[i] = "column" <=> i = 1 BY <1>1, <1>3
    <3>2. packed_at(m)[P[i]] = IF P[i] = "column" THEN n - m.widths[P[i]] ELSE m.shifts[P[i]] - tx - m.widths["column"]
      BY <1>4 DEF packed_at
    <3> QED BY <1>8, <3>1, <3>2
  <2> QED BY <2>1
<1>11. s(R) \in Nat /\ w(R) \in Nat /\ w(1) \in Nat /\ tx + w(1) <= s(R) BY <1>3, <1>4, <1>6
<1> HIDE DEF P, R, tx, n, s, w
<1>12. n \in Nat /\ n + tx = s(R) + w(R) BY <1>1, <1>5, <1>11
<1>13. ASSUME NEW i \in 1..R
       PROVE  s(i) - tx \in Nat /\ w(i) \in 0..n /\ s(i) + w(i) <= n + tx
  <2>1. CASE i = 1 BY <1>1, <1>5, <1>11, <1>12, <2>1
  <2>2. CASE i = R BY <1>1, <1>11, <1>12, <2>2
  <2>3. CASE i # 1 /\ i # R BY <1>1, <1>4, <1>6, <1>7, <1>11, <1>12, <2>3
  <2> QED BY <2>1, <2>2, <2>3
<1>14. HasPlaces(m.widths, P, m.shifts, n + tx)
  <2>1. \A i \in 1..R : m.shifts[P[i]] \in Nat /\ m.widths[P[i]] \in Nat /\ m.shifts[P[i]] + m.widths[P[i]] <= n + tx
    BY <1>4, <1>13 DEF s, w
  <2>2. \A i, j \in 1..R : i < j => m.shifts[P[i]] + m.widths[P[i]] <= m.shifts[P[j]] BY <1>1 DEF s, w
  <2> QED BY <2>1, <2>2 DEF HasPlaces, R
<1>15. HasPlaces(m.widths, P, packed_at(m), n)
  <2> DEFINE pk == packed_at(m)
  <2>1. \A i \in 1..R : pk[P[i]] = IF i = 1 THEN n - w(1) ELSE s(i) - tx - w(1) BY <1>10
  <2> HIDE DEF pk
  <2>2. ASSUME NEW i \in 1..R PROVE pk[P[i]] \in Nat /\ w(i) \in Nat /\ pk[P[i]] + w(i) <= n
    <3>1. CASE i = 1 BY <1>1, <1>3, <1>11, <1>12, <1>13, <2>1, <3>1
    <3>2. CASE i # 1
      <4>1. pk[P[i]] = s(i) - tx - w(1) /\ tx + w(1) <= s(i) BY <1>6, <2>1, <3>2
      <4>2. s(i) \in Nat /\ w(i) \in Nat /\ s(i) + w(i) <= n + tx BY <1>4, <1>13
      <4> QED BY <1>1, <1>11, <1>12, <4>1, <4>2
    <3> QED BY <3>1, <3>2
  <2>3. ASSUME NEW i \in 1..R, NEW j \in 1..R, i < j
        PROVE  pk[P[i]] + w(i) <= pk[P[j]] \/ pk[P[j]] + w(j) <= pk[P[i]]
    <3>1. j # 1 /\ pk[P[j]] = s(j) - tx - w(1) BY <1>1, <2>1, <2>3
    <3>2. s(j) \in Nat /\ w(j) \in Nat /\ s(j) + w(j) <= n + tx BY <1>4, <1>13
    <3>3. CASE i = 1
      <4>1. pk[P[i]] = n - w(1) BY <2>1, <3>3
      <4> QED BY <1>1, <1>11, <1>12, <3>1, <3>2, <4>1
    <3>4. CASE i # 1
      <4>1. pk[P[i]] = s(i) - tx - w(1) /\ s(i) + w(i) <= s(j) /\ s(i) \in Nat /\ w(i) \in Nat
        BY <1>1, <1>4, <2>1, <2>3, <3>4
      <4> QED BY <1>1, <1>11, <3>1, <3>2, <4>1
    <3> QED BY <3>3, <3>4
  <2> QED BY <2>2, <2>3 DEF HasPlaces, R, w, pk
<1>16. \A f \in Fields(m) : m.shifts[f] - tx \in Nat /\ m.widths[f] \in 0..n /\ f # "channel"
  <2>1. ASSUME NEW f \in Fields(m) PROVE m.shifts[f] - tx \in Nat /\ m.widths[f] \in 0..n /\ f # "channel"
    <3>1. PICK i \in 1..R : f = P[i] BY <1>1
    <3> QED BY <1>2, <1>13, <3>1 DEF s, w
  <2> QED BY <2>1
<1>17. \A f \in Fields(m) : m.shifts[f] \in Nat BY <1>2
<1>18. m.shifts["row"] + m.widths["row"] = n + tx BY <1>8, <1>12
<1> QED BY <1>1, <1>9, <1>12, <1>14, <1>15, <1>16, <1>17, <1>18 DEF Placed, P, R, tx, n

FieldIn(m, a, f) == FieldOf(a, m.shifts[f] - m.tx_offset, m.widths[f])

(* The public mapper's coordinates of a word of address bits.                  *)
LEMMA DecodedIs ==
  ASSUME NEW m, NEW n, Placed(m, n), NEW a \in Words(n)
  PROVE  /\ a * 2^m.tx_offset \in Nat
         /\ \A f \in Fields(m) : /\ decode(m, a * 2^m.tx_offset)[f] = FieldIn(m, a, f)
                                 /\ FieldIn(m, a, f) \in Words(m.widths[f])
<1> DEFINE tx == m.tx_offset
           x  == a * 2^tx
<1>1. n \in Nat /\ tx \in Nat /\ a \in Nat BY WordsAre DEF Placed
<1>2. 2^tx \in Nat \ {0} BY <1>1, PowerIsPositive
<1>3. x \in Nat
  <2> HIDE DEF tx
  <2> QED BY <1>1, <1>2
<1>4. x \div 2^tx = a
  <2>1. 0 \in 0..2^tx - 1 /\ x = a * 2^tx + 0
    <3> HIDE DEF tx
    <3> QED BY <1>1, <1>2
  <2>2. (a * 2^tx + 0) \div 2^tx = a BY <1>1, <1>2, <2>1, Quotient
  <2> QED BY <2>1, <2>2
<1>5. ASSUME NEW f \in Fields(m)
      PROVE  decode(m, x)[f] = FieldIn(m, a, f) /\ FieldIn(m, a, f) \in Words(m.widths[f])
  <2> DEFINE s == m.shifts[f]
             w == m.widths[f]
  <2>1. s \in Nat /\ s - tx \in Nat /\ w \in 0..n /\ f # "channel" BY DEF Placed
  <2>2. PICK e \in Nat : e = s - tx /\ s = tx + e BY <1>1, <2>1
  <2>3. decode(m, x)[f] = (x \div 2^s) % 2^w BY <2>1 DEF decode
  <2> HIDE DEF x, tx, s, w
  <2>4. 2^s = 2^tx * 2^e /\ 2^e \in Nat \ {0} BY <1>1, <2>2, PowerOfSum, PowerIsPositive
  <2>5. (x \div 2^tx) \div 2^e = x \div (2^tx * 2^e) BY <1>2, <1>3, <2>4, DivideTwice
  <2>6. x \div 2^s = a \div 2^e BY <1>4, <2>4, <2>5
  <2>7. FieldIn(m, a, f) = (a \div 2^e) % 2^w BY <2>2 DEF FieldIn, FieldOf, s, w, tx
  <2>8. a \div 2^e \in Nat /\ w \in Nat
    <3>1. PICK d \in Nat \ {0} : d = 2^e BY <2>4
    <3>2. a \div d \in Nat BY <1>1, <3>1, Division
    <3> QED BY <1>1, <2>1, <3>1, <3>2
  <2>9. (a \div 2^e) % 2^w \in 0..2^w - 1 BY <2>8, BitsOfRest
  <2> QED BY <2>3, <2>6, <2>7, <2>9 DEF w, Words
<1> QED BY <1>3, <1>5

(* Joined again, they are the address.                                       *)
LEMMA JoinedRestores ==
  ASSUME NEW m, NEW n, Placed(m, n), Stacked(m), NEW a \in Words(n)
  PROVE  joined(decode(m, a * 2^m.tx_offset), m.placement, m.shifts, Len(m.placement)) = a * 2^m.tx_offset
<1> DEFINE P  == m.placement
           R  == Len(P)
           tx == m.tx_offset
           x  == a * 2^tx
           at == decode(m, x)
           s(i) == m.shifts[P[i]]
           w(i) == m.widths[P[i]]
           top(k) == IF k = 0 THEN tx ELSE s(k) + w(k)
           S  == {k \in 0..R : joined(at, P, m.shifts, k) = x % 2^top(k)}
<1>1. /\ R \in Nat \ {0, 1} /\ P[1] = "column" /\ P[R] = "row"
      /\ Fields(m) = {P[i] : i \in 1..R} /\ tx \in Nat /\ m.shifts["column"] = tx
      /\ \A i \in 1..R - 1 : m.shifts[P[i + 1]] = m.shifts[P[i]] + m.widths[P[i]]
  BY DEF Stacked, Stack
<1>2. n \in Nat /\ x \in Nat /\ a \in 0..2^n - 1 /\ a \in Nat
  <2>1. n \in Nat BY DEF Placed
  <2> QED BY <2>1, DecodedIs, WordsAre DEF Words
<1>3. ASSUME NEW i \in 1..R
      PROVE  s(i) \in Nat /\ w(i) \in Nat /\ coord_int(at, P[i]) = FieldOf(x, s(i), w(i)) /\ coord_int(at, P[i]) \in Nat
  <2>1. P[i] \in Fields(m) BY <1>1
  <2>2. s(i) \in Nat /\ w(i) \in 0..n /\ P[i] # "channel" BY <2>1 DEF Placed
  <2>3. at[P[i]] = FieldOf(x, s(i), w(i)) /\ P[i] \in DOMAIN at BY <2>1, <2>2 DEF decode, FieldOf
  <2>4. w(i) \in Nat /\ at[P[i]] \in Words(w(i)) BY <1>2, <2>1, <2>2, DecodedIs
  <2>5. at[P[i]] \in Nat BY <2>4, WordsAre
  <2> QED BY <2>2, <2>3, <2>4, <2>5 DEF coord_int
<1>4. AddsUp(at, P, m.shifts, R)
  <2>1. \A i \in 1..R : coord_int(at, P[i]) \in Nat /\ m.shifts[P[i]] \in Nat BY <1>3
  <2> HIDE DEF P, at
  <2> QED BY <1>1, <2>1, JoinedIs DEF R
<1>5. \A k \in 1..R : s(k) = top(k - 1)
  <2>1. ASSUME NEW k \in 1..R PROVE s(k) = top(k - 1)
    <3>1. CASE k = 1 BY <1>1, <3>1
    <3>2. CASE k # 1
      <4>1. PICK i \in 1..R - 1 : i = k - 1 /\ i + 1 = k /\ i # 0
        <5>1. k - 1 \in 1..R - 1 /\ k - 1 + 1 = k BY <1>1, <3>2
        <5> QED BY <5>1
      <4> QED BY <1>1, <4>1
    <3> QED BY <3>1, <3>2
  <2> QED BY <2>1
<1>6. n + tx = s(R) + w(R) BY <1>1 DEF Placed
<1>7. x % 2^tx = 0
  <2>1. 2^tx \in Nat \ {0} BY <1>1, PowerIsPositive
  <2>2. 0 \in 0..2^tx - 1 /\ x = a * 2^tx + 0
    <3> HIDE DEF tx
    <3> QED BY <1>2, <2>1
  <2>3. (a * 2^tx + 0) % 2^tx = 0 BY <1>2, <2>1, <2>2, Quotient
  <2> QED BY <2>2, <2>3
<1>8. x \in 0..2^(n + tx) - 1
  <2>1. PICK z \in Nat : z = 0 OBVIOUS
  <2>2. z \in 0..2^tx - 1 BY <1>1, <2>1, PowerIsPositive
  <2> HIDE DEF tx
  <2>3. a * 2^tx + z \in 0..2^(tx + n) - 1 BY <1>1, <1>2, <2>2, SumIsWithin
  <2>4. a * 2^tx + z = x /\ tx + n = n + tx BY <1>1, <1>2, <2>1 DEF x
  <2> QED BY <2>3, <2>4
<1>9. 1 # 0 /\ R # 0 /\ R \in 0..R BY <1>1
<1> HIDE DEF s, w, x, at
<1>10. 0 \in S BY <1>1, <1>4, <1>7 DEF AddsUp
<1>11. ASSUME NEW k \in 0..R - 1, k \in S PROVE k + 1 \in S
  <2>1. PICK e \in 1..R : e = k + 1 /\ e - 1 = k /\ e \in 0..R /\ e # 0
    <3>1. k + 1 \in 1..R /\ k + 1 - 1 = k /\ k + 1 \in 0..R /\ k + 1 # 0 BY <1>1
    <3> QED BY <3>1
  <2>2. joined(at, P, m.shifts, e) = joined(at, P, m.shifts, k) + coord_int(at, P[e]) * 2^m.shifts[P[e]]
    BY <1>4, <2>1 DEF AddsUp
  <2>3. joined(at, P, m.shifts, k) = x % 2^s(e) BY <1>5, <1>11, <2>1
  <2>4. x % 2^(s(e) + w(e)) = (x % 2^s(e)) + FieldOf(x, s(e), w(e)) * 2^s(e)
    <3>1. PICK se \in Nat : se = s(e) BY <1>3
    <3>2. PICK we \in Nat : we = w(e) BY <1>3
    <3> QED BY <1>2, <3>1, <3>2, RestGrows
  <2>5. coord_int(at, P[e]) = FieldOf(x, s(e), w(e)) /\ m.shifts[P[e]] = s(e) BY <1>3 DEF s
  <2>6. joined(at, P, m.shifts, e) = x % 2^top(e) BY <2>1, <2>2, <2>3, <2>4, <2>5
  <2> QED BY <2>1, <2>6
<1>12. \A k \in 0..R : k \in S
  <2> HIDE DEF S
  <2> QED BY <1>1, <1>10, <1>11, Climb
<1>13. joined(at, P, m.shifts, R) = x % 2^(n + tx) BY <1>6, <1>9, <1>12
<1>14. x % 2^(n + tx) = x
  <2>1. PICK g \in Nat : g = n + tx BY <1>1, <1>2
  <2>2. 2^g \in Nat \ {0} BY PowerIsPositive
  <2>3. x \in 0..2^g - 1 BY <1>8, <2>1
  <2> QED BY <2>1, <2>2, <2>3, SmallRest
<1> QED BY <1>13, <1>14 DEF x, at

-----------------------------------------------------------------------------
(* What a mapper opens, field by field, and what the inverter probes.          *)

Folds(choice, f) == choice # Public /\ f \in {"bank", "bankgroup"}
FoldKey(m, choice, a, f) == FieldOf(FieldIn(m, a, "row"), IF f = "bank" THEN 0 ELSE choice, m.widths[f])
Opened(m, choice, a, f) ==
  IF Folds(choice, f) THEN BitXor(FieldIn(m, a, f), FoldKey(m, choice, a, f)) ELSE FieldIn(m, a, f)

(* The mapper of a worker that plays.                                        *)
Inverts(m, n, choice) ==
  /\ Placed(m, n) /\ XorOn(n) /\ {"row", "bank"} \subseteq Fields(m) /\ choice \in Nat \cup {Public}

(* The coordinates of an address are what the mapper opens.                  *)
LEMMA OpenedIs ==
  ASSUME NEW m, NEW n, NEW choice, Inverts(m, n, choice), NEW a \in Words(n)
  PROVE  LET at == worker_decode(m, choice, a * 2^m.tx_offset)
         IN /\ DOMAIN at = Fields(m) \cup {"channel"}
            /\ \A f \in Fields(m) : at[f] = Opened(m, choice, a, f) /\ coord_int(at, f) = Opened(m, choice, a, f)
<1> DEFINE x    == a * 2^m.tx_offset
           at   == worker_decode(m, choice, x)
           base == decode(m, x)
           key(s, w) == (base["row"] \div 2^s) % 2^w
           kb   == base["row"] % 2^m.widths["bank"]
           folded == [base EXCEPT !["bank"] = BitXor(@, kb)]
<1>1. Placed(m, n) /\ {"row", "bank"} \subseteq Fields(m) /\ n \in Nat BY DEF Inverts, Placed
<1>2. \A f \in Fields(m) : base[f] = FieldIn(m, a, f) /\ FieldIn(m, a, f) \in Words(m.widths[f]) BY <1>1, DecodedIs
<1>3. DOMAIN base = Fields(m) \cup {"channel"} /\ base = [f \in Fields(m) \cup {"channel"} |-> base[f]] BY DEF decode
<1>4. kb = FoldKey(m, choice, a, "bank")
  <2>1. base["row"] = FieldIn(m, a, "row") /\ m.widths["row"] \in Nat BY <1>1, <1>2 DEF Placed
  <2>2. base["row"] \in Nat BY <1>1, <1>2, <2>1, WordsAre
  <2>3. base["row"] \div 2^0 = base["row"]
    <3>1. 2^0 = 1 OBVIOUS
    <3>2. PICK v \in Nat : v = base["row"] BY <2>2
    <3>3. 0 \in 0..1 - 1 /\ v = v * 1 + 0 BY <3>2
    <3>4. (v * 1 + 0) \div 1 = v BY <3>3, Quotient
    <3> QED BY <3>1, <3>2, <3>3, <3>4
  <2> HIDE DEF base
  <2> QED BY <2>1, <2>3 DEF FoldKey, FieldOf
<1>5. "bankgroup" \in Fields(m) => key(choice, m.widths["bankgroup"]) = FoldKey(m, choice, a, "bankgroup")
  <2>1. base["row"] = FieldIn(m, a, "row") BY <1>1, <1>2
  <2> HIDE DEF base
  <2> QED BY <2>1 DEF FoldKey, FieldOf
<1> HIDE DEF base
<1>6. DOMAIN at = Fields(m) \cup {"channel"} /\ \A f \in Fields(m) : at[f] = Opened(m, choice, a, f)
  <2>1. CASE choice = Public
    <3>1. at = base BY <2>1 DEF worker_decode, base
    <3> QED BY <1>2, <1>3, <2>1, <3>1 DEF Opened, Folds
  <2>2. CASE choice # Public
    <3>1. at = IF "bankgroup" \in Fields(m)
               THEN [folded EXCEPT !["bankgroup"] = BitXor(@, key(choice, m.widths["bankgroup"]))] ELSE folded
      BY <2>2 DEF worker_decode, RowXOR, base
    <3>2. folded = [base EXCEPT !["bank"] = BitXor(@, FoldKey(m, choice, a, "bank"))] BY <1>4
    <3>3. DOMAIN folded = Fields(m) \cup {"channel"} /\ folded["bank"] = Opened(m, choice, a, "bank")
          /\ \A f \in Fields(m) \ {"bank"} : folded[f] = FieldIn(m, a, f)
      BY <1>1, <1>2, <1>3, <2>2, <3>2 DEF Opened, Folds
    <3> HIDE DEF folded, at, key
    <3>4. CASE "bankgroup" \in Fields(m)
      <4>1. at = [folded EXCEPT !["bankgroup"] = BitXor(@, FoldKey(m, choice, a, "bankgroup"))] BY <1>5, <3>1, <3>4
      <4>2. DOMAIN at = Fields(m) \cup {"channel"} BY <3>3, <4>1
      <4>3. at["bankgroup"] = Opened(m, choice, a, "bankgroup") BY <2>2, <3>3, <3>4, <4>1 DEF Opened, Folds
      <4>4. \A f \in Fields(m) \ {"bankgroup"} : at[f] = folded[f] BY <3>3, <4>1
      <4>5. \A f \in Fields(m) \ {"bankgroup"} : at[f] = Opened(m, choice, a, f)
        BY <3>3, <4>4 DEF Opened, Folds
      <4> QED BY <4>2, <4>3, <4>5
    <3>5. CASE "bankgroup" \notin Fields(m)
      <4>1. at = folded BY <3>1, <3>5
      <4> QED BY <3>3, <3>5, <4>1 DEF Opened, Folds
    <3> QED BY <3>4, <3>5
  <2> QED BY <2>1, <2>2
<1> HIDE DEF at
<1>7. \A f \in Fields(m) : coord_int(at, f) = at[f] BY <1>6 DEF coord_int
<1> QED BY <1>6, <1>7 DEF at, x

(* Two sums with two more words.                                             *)
LEMMA XorSwap ==
  ASSUME NEW n \in Nat, XorOn(n), NEW a \in Words(n), NEW b \in Words(n), NEW c \in Words(n), NEW d \in Words(n)
  PROVE  BitXor(BitXor(a, b), BitXor(c, d)) = BitXor(BitXor(a, c), BitXor(b, d))
<1>1. \A x, y \in Words(n) : BitXor(x, y) \in Words(n) BY XorBits
<1>2. \A x, y, z \in Words(n) : BitXor(BitXor(x, y), z) = BitXor(x, BitXor(y, z)) BY XorLaws
<1>3. BitXor(b, c) = BitXor(c, b) BY XorLaws
<1>4. BitXor(BitXor(a, b), BitXor(c, d)) = BitXor(a, BitXor(BitXor(b, c), d)) BY <1>1, <1>2
<1>5. BitXor(BitXor(a, c), BitXor(b, d)) = BitXor(a, BitXor(BitXor(c, b), d)) BY <1>1, <1>2
<1> QED BY <1>3, <1>4, <1>5

(* What is opened by a sum of words is the sum of what they open.             *)
LEMMA OpenedAdds ==
  ASSUME NEW m, NEW n, NEW choice, Inverts(m, n, choice), NEW a \in Words(n), NEW b \in Words(n), NEW f \in Fields(m)
  PROVE  /\ Opened(m, choice, a, f) \in Words(m.widths[f])
         /\ Opened(m, choice, BitXor(a, b), f) = BitXor(Opened(m, choice, a, f), Opened(m, choice, b, f))
<1> DEFINE w == m.widths[f]
           c == BitXor(a, b)
<1>1. /\ n \in Nat /\ XorOn(n) /\ {"row", "bank"} \subseteq Fields(m)
      /\ \A g \in Fields(m) : m.shifts[g] - m.tx_offset \in Nat /\ m.widths[g] \in 0..n
  BY DEF Inverts, Placed
<1>2. w \in 0..n /\ w \in Nat BY <1>1
<1>3. XorOn(w) BY <1>1, <1>2, XorNarrows
<1>4. ASSUME NEW g \in Fields(m)
      PROVE  /\ FieldIn(m, a, g) \in Words(m.widths[g]) /\ FieldIn(m, b, g) \in Words(m.widths[g])
             /\ FieldIn(m, c, g) = BitXor(FieldIn(m, a, g), FieldIn(m, b, g))
             /\ FieldIn(m, a, g) \in Words(n) /\ FieldIn(m, b, g) \in Words(n)
  <2>1. m.shifts[g] - m.tx_offset \in Nat /\ m.widths[g] \in 0..n BY <1>1
  <2>2. PICK s \in Nat : s = m.shifts[g] - m.tx_offset BY <2>1
  <2>3. FieldOf(a, s, m.widths[g]) \in Words(m.widths[g]) /\ FieldOf(b, s, m.widths[g]) \in Words(m.widths[g])
        /\ FieldOf(c, s, m.widths[g]) = BitXor(FieldOf(a, s, m.widths[g]), FieldOf(b, s, m.widths[g]))
    BY <1>1, <2>1, FieldOfXor
  <2>4. Words(m.widths[g]) \subseteq Words(n) BY <1>1, <2>1, WordsAre
  <2> QED BY <2>2, <2>3, <2>4 DEF FieldIn
<1>5. ASSUME Folds(choice, f)
      PROVE  /\ FoldKey(m, choice, a, f) \in Words(w) /\ FoldKey(m, choice, b, f) \in Words(w)
             /\ FoldKey(m, choice, c, f) = BitXor(FoldKey(m, choice, a, f), FoldKey(m, choice, b, f))
  <2> DEFINE s == IF f = "bank" THEN 0 ELSE choice
             x == FieldIn(m, a, "row")
             y == FieldIn(m, b, "row")
  <2>1. s \in Nat BY <1>5 DEF Inverts, Folds
  <2>2. x \in Words(n) /\ y \in Words(n) /\ FieldIn(m, c, "row") = BitXor(x, y) BY <1>1, <1>4
  <2>3. FieldOf(BitXor(x, y), s, w) = BitXor(FieldOf(x, s, w), FieldOf(y, s, w))
        /\ FieldOf(x, s, w) \in Words(w) /\ FieldOf(y, s, w) \in Words(w)
    <3> HIDE DEF s, w, x, y
    <3> QED BY <1>1, <1>2, <2>1, <2>2, FieldOfXor
  <2> QED BY <2>2, <2>3 DEF FoldKey
<1> HIDE DEF w, c
<1>6. CASE Folds(choice, f)
  <2> DEFINE x == FieldIn(m, a, f)
             y == FieldIn(m, b, f)
             k == FoldKey(m, choice, a, f)
             l == FoldKey(m, choice, b, f)
  <2>1. x \in Words(w) /\ y \in Words(w) /\ k \in Words(w) /\ l \in Words(w) BY <1>4, <1>5, <1>6 DEF w
  <2>2. BitXor(x, k) \in Words(w) BY <1>2, <1>3, <2>1, XorBits
  <2>3. BitXor(BitXor(x, y), BitXor(k, l)) = BitXor(BitXor(x, k), BitXor(y, l)) BY <1>2, <1>3, <2>1, XorSwap
  <2>4. FieldIn(m, c, f) = BitXor(x, y) /\ FoldKey(m, choice, c, f) = BitXor(k, l) BY <1>4, <1>5, <1>6
  <2> QED BY <1>6, <2>2, <2>3, <2>4 DEF Opened, w, c
<1>7. CASE ~Folds(choice, f) BY <1>4, <1>7 DEF Opened, c
<1> QED BY <1>6, <1>7

(* A probe holds every opened field, and nothing else.                        *)
LEMMA ProbeHolds ==
  ASSUME NEW m, NEW n, NEW choice, Inverts(m, n, choice), NEW a \in Words(n)
  PROVE  LET word == probe(m, choice, a)
             places == packed_at(m)
         IN /\ word \in Words(n)
            /\ \A f \in Fields(m) : Holds(word, places[f], m.widths[f], Opened(m, choice, a, f))
            /\ \A p \in Nat : (\A f \in Fields(m) : p \notin At(m.widths, places, f)) => ~Bit(word, p)
<1> DEFINE P  == m.placement
           at == worker_decode(m, choice, a * 2^m.tx_offset)
           places == packed_at(m)
           word == probe(m, choice, a)
<1>1. /\ n \in Nat /\ Len(P) \in Nat /\ Fields(m) = {P[i] : i \in 1..Len(P)} /\ HasPlaces(m.widths, P, places, n)
  BY DEF Inverts, Placed
<1>2. \A f \in Fields(m) : coord_int(at, f) = Opened(m, choice, a, f) BY OpenedIs
<1>3. \A f \in Fields(m) : coord_int(at, f) \in Words(m.widths[f]) BY <1>2, OpenedAdds
<1>4. word = joined(at, P, places, Len(P)) BY DEF probe, pack
<1> HIDE DEF P, at, places, word
<1>5. Fit(at, m.widths, P) BY <1>1, <1>3 DEF Fit
<1>6. Len(P) \in 0..Len(P) BY <1>1
<1>7. Laid(word, at, m.widths, P, places, n, Len(P)) BY <1>1, <1>4, <1>5, <1>6, JoinBits
<1>8. ASSUME NEW f \in Fields(m) PROVE Holds(word, places[f], m.widths[f], Opened(m, choice, a, f))
  <2>1. PICK i \in 1..Len(P) : f = P[i] BY <1>1
  <2> QED BY <1>2, <1>7, <2>1 DEF Laid
<1>9. ASSUME NEW p \in Nat, \A f \in Fields(m) : p \notin At(m.widths, places, f) PROVE ~Bit(word, p)
  BY <1>1, <1>7, <1>9 DEF Laid
<1>10. word \in Words(n) BY <1>7 DEF Laid
<1> QED BY <1>8, <1>9, <1>10 DEF word, places

(* The probe of a sum is the sum of the probes.                               *)
LEMMA ProbeAdds ==
  ASSUME NEW m, NEW n, NEW choice, Inverts(m, n, choice), NEW a \in Words(n), NEW b \in Words(n)
  PROVE  probe(m, choice, BitXor(a, b)) = BitXor(probe(m, choice, a), probe(m, choice, b))
<1> DEFINE c      == BitXor(a, b)
           places == packed_at(m)
           x      == probe(m, choice, a)
           y      == probe(m, choice, b)
           z      == probe(m, choice, c)
<1>1. n \in Nat /\ XorOn(n) BY DEF Inverts, Placed
<1>2. c \in Words(n) BY <1>1, XorBits
<1>3. /\ x \in Words(n) /\ y \in Words(n) /\ z \in Words(n)
      /\ \A f \in Fields(m) : /\ Holds(x, places[f], m.widths[f], Opened(m, choice, a, f))
                              /\ Holds(y, places[f], m.widths[f], Opened(m, choice, b, f))
                              /\ Holds(z, places[f], m.widths[f], Opened(m, choice, c, f))
      /\ \A p \in Nat : (\A f \in Fields(m) : p \notin At(m.widths, places, f)) => ~Bit(x, p) /\ ~Bit(y, p) /\ ~Bit(z, p)
  <2> HIDE DEF c
  <2> QED BY <1>2, ProbeHolds
<1>4. \A f \in Fields(m) : /\ Opened(m, choice, a, f) \in Words(m.widths[f]) /\ Opened(m, choice, b, f) \in Words(m.widths[f])
                           /\ Opened(m, choice, c, f) = BitXor(Opened(m, choice, a, f), Opened(m, choice, b, f))
  BY OpenedAdds
<1>5. \A f \in Fields(m) : places[f] \in Nat /\ m.widths[f] \in Nat /\ m.widths[f] \in 0..n
  <2>1. ASSUME NEW f \in Fields(m) PROVE places[f] \in Nat /\ m.widths[f] \in Nat /\ m.widths[f] \in 0..n
    <3>1. PICK i \in 1..Len(m.placement) : f = m.placement[i] BY DEF Inverts, Placed
    <3>2. HasPlaces(m.widths, m.placement, places, n) BY DEF Inverts, Placed
    <3>3. m.widths[f] \in 0..n BY DEF Inverts, Placed
    <3> QED BY <3>1, <3>2, <3>3 DEF HasPlaces
  <2> QED BY <2>1
<1> HIDE DEF c, x, y, z, places
<1>6. ASSUME NEW p \in 0..n - 1 PROVE Bit(z, p) <=> ~(Bit(x, p) <=> Bit(y, p))
  <2>1. p \in Nat BY <1>1
  <2>2. CASE \A f \in Fields(m) : p \notin At(m.widths, places, f) BY <1>3, <2>1, <2>2
  <2>3. CASE ~\A f \in Fields(m) : p \notin At(m.widths, places, f)
    <3>1. PICK f \in Fields(m) : p \in At(m.widths, places, f) BY <2>3
    <3>2. places[f] \in Nat /\ m.widths[f] \in Nat BY <1>5
    <3>3. PICK j \in 0..m.widths[f] - 1 : p = places[f] + j
      <4>1. p - places[f] \in 0..m.widths[f] - 1 /\ p = places[f] + (p - places[f]) BY <2>1, <3>1, <3>2 DEF At
      <4> QED BY <4>1
    <3>4. /\ Bit(x, p) <=> Bit(Opened(m, choice, a, f), j)
          /\ Bit(y, p) <=> Bit(Opened(m, choice, b, f), j)
          /\ Bit(z, p) <=> Bit(Opened(m, choice, c, f), j)
      BY <1>3, <3>3 DEF Holds
    <3>5. XorOn(m.widths[f]) BY <1>1, <1>5, XorNarrows
    <3>6. Bit(Opened(m, choice, c, f), j) <=> ~(Bit(Opened(m, choice, a, f), j) <=> Bit(Opened(m, choice, b, f), j))
      BY <1>4, <3>2, <3>5, XorBits
    <3> QED BY <3>4, <3>6
  <2> QED BY <2>2, <2>3
<1>7. BitXor(x, y) \in Words(n) /\ \A p \in 0..n - 1 : Bit(BitXor(x, y), p) <=> ~(Bit(x, p) <=> Bit(y, p))
  BY <1>1, <1>3, XorBits
<1>8. SameBits(z, BitXor(x, y), n) BY <1>6, <1>7 DEF SameBits
<1>9. z = BitXor(x, y) BY <1>1, <1>3, <1>7, <1>8, BitsTell DEF Words
<1> QED BY <1>9 DEF c, x, y, z

(* A probe tells what was probed.                                            *)
LEMMA ProbeTells ==
  ASSUME NEW m, NEW n, NEW choice, Inverts(m, n, choice), Stacked(m), NEW a \in Words(n), NEW b \in Words(n),
         probe(m, choice, a) = probe(m, choice, b)
  PROVE  a = b
<1> DEFINE tx == m.tx_offset
           base(x) == decode(m, x * 2^tx)
<1>1. /\ n \in Nat /\ XorOn(n) /\ {"row", "bank"} \subseteq Fields(m) /\ tx \in Nat /\ Placed(m, n)
      /\ \A f \in Fields(m) : m.widths[f] \in 0..n
  BY DEF Inverts, Placed
<1>2. ASSUME NEW f \in Fields(m) PROVE Opened(m, choice, a, f) = Opened(m, choice, b, f)
  <2> DEFINE s == packed_at(m)[f]
             w == m.widths[f]
             x == probe(m, choice, a)
             y == probe(m, choice, b)
  <2>1. s \in Nat /\ w \in Nat
    <3>1. PICK i \in 1..Len(m.placement) : f = m.placement[i] BY DEF Inverts, Placed
    <3>2. HasPlaces(m.widths, m.placement, packed_at(m), n) BY DEF Inverts, Placed
    <3> QED BY <3>1, <3>2 DEF HasPlaces
  <2>2. /\ Holds(x, s, w, Opened(m, choice, a, f)) /\ Holds(y, s, w, Opened(m, choice, b, f))
        /\ x \in Words(n) /\ y \in Words(n)
    BY ProbeHolds
  <2>3. Opened(m, choice, a, f) \in Words(w) /\ Opened(m, choice, b, f) \in Words(w) BY OpenedAdds
  <2>4. x \in Nat /\ y \in Nat BY <1>1, <2>2, WordsAre
  <2> HIDE DEF s, w, x, y
  <2>5. (x \div 2^s) % 2^w = Opened(m, choice, a, f) BY <2>1, <2>2, <2>3, <2>4, HeldIs
  <2>6. (y \div 2^s) % 2^w = Opened(m, choice, b, f) BY <2>1, <2>2, <2>3, <2>4, HeldIs
  <2> QED BY <2>5, <2>6 DEF x, y
<1>3. FieldIn(m, a, "row") = FieldIn(m, b, "row")
  <2>1. ~Folds(choice, "row") BY DEF Folds
  <2> QED BY <1>1, <1>2, <2>1 DEF Opened
<1>4. ASSUME NEW f \in Fields(m) PROVE FieldIn(m, a, f) = FieldIn(m, b, f)
  <2> DEFINE w == m.widths[f]
             k == FoldKey(m, choice, a, f)
             x == FieldIn(m, a, f)
             y == FieldIn(m, b, f)
  <2>1. CASE ~Folds(choice, f) BY <1>2, <2>1 DEF Opened
  <2>2. CASE Folds(choice, f)
    <3>1. k = FoldKey(m, choice, b, f) BY <1>3 DEF FoldKey
    <3>2. BitXor(x, k) = BitXor(y, k) BY <1>2, <2>2, <3>1 DEF Opened
    <3>3. x \in Words(w) /\ y \in Words(w) BY <1>1, DecodedIs
    <3>4. w \in Nat /\ XorOn(w) BY <1>1, XorNarrows
    <3>5. k \in Words(w)
      <4>1. FieldIn(m, a, "row") \in Words(m.widths["row"]) /\ m.widths["row"] \in 0..n BY <1>1, DecodedIs
      <4>2. FieldIn(m, a, "row") \in Words(n) BY <1>1, <4>1, WordsAre
      <4>3. (IF f = "bank" THEN 0 ELSE choice) \in Nat BY <2>2 DEF Inverts, Folds
      <4>4. w \in 0..n BY <1>1
      <4>5. PICK s \in Nat : s = IF f = "bank" THEN 0 ELSE choice BY <4>3
      <4>6. k = FieldOf(FieldIn(m, a, "row"), s, w) BY <4>5 DEF FoldKey
      <4> HIDE DEF k, w
      <4>7. FieldOf(FieldIn(m, a, "row"), s, w) \in Words(w) BY <1>1, <4>2, <4>4, FieldOfXor
      <4> QED BY <4>6, <4>7
    <3> HIDE DEF k, x, y, w
    <3>6. BitXor(BitXor(x, k), k) = x /\ BitXor(BitXor(y, k), k) = y BY <3>3, <3>4, <3>5, XorLaws
    <3>7. x = y BY <3>2, <3>6
    <3> QED BY <3>7 DEF x, y
  <2> QED BY <2>1, <2>2
<1>5. base(a) = base(b)
  <2>1. \A f \in Fields(m) : base(a)[f] = base(b)[f] BY <1>1, <1>4, DecodedIs
  <2>2. \A x : base(x) = [f \in Fields(m) \cup {"channel"} |-> IF f = "channel" THEN 0 ELSE base(x)[f]]
    BY DEF decode
  <2> HIDE DEF base
  <2> QED BY <2>1, <2>2
<1>6. a * 2^tx = b * 2^tx
  <2>1. joined(base(a), m.placement, m.shifts, Len(m.placement)) = a * 2^tx BY <1>1, JoinedRestores
  <2>2. joined(base(b), m.placement, m.shifts, Len(m.placement)) = b * 2^tx BY <1>1, JoinedRestores
  <2> HIDE DEF base
  <2> QED BY <1>5, <2>1, <2>2
<1>7. a \in Nat /\ b \in Nat /\ 2^tx \in Nat \ {0} BY <1>1, WordsAre, PowerIsPositive
<1> DEFINE d == 2^tx
<1> HIDE DEF d, tx
<1>8. a * d = b * d /\ d \in Nat \ {0} BY <1>6, <1>7 DEF d
<1>9. a = (a * d) \div d /\ b = (b * d) \div d
  <2>1. PICK z \in 0..d - 1 : z = 0 BY <1>8
  <2>2. \A q \in Nat : (q * d + z) \div d = q BY <1>8, Quotient
  <2>3. \A q \in Nat : q * d + z = q * d BY <1>8, <2>1
  <2> QED BY <1>7, <2>2, <2>3
<1> QED BY <1>8, <1>9

(* So the probes are the images of a map that can be inverted.                *)
LEMMA ProbesAre ==
  ASSUME NEW m, NEW n, NEW choice, Inverts(m, n, choice), Stacked(m)
  PROVE  /\ probe(m, choice, 0) = 0
         /\ LET L == [a \in Words(n) |-> probe(m, choice, a)] IN Additive(L, n) /\ Probes(L, n, m, choice)
<1> DEFINE L == [a \in Words(n) |-> probe(m, choice, a)]
<1>1. n \in Nat /\ XorOn(n) /\ n = AddrBits(m) BY DEF Inverts, Placed
<1>2. 0 \in Words(n) BY <1>1, WordsAre
<1>3. \A a \in Words(n) : probe(m, choice, a) \in Words(n) BY ProbeHolds
<1>4. \A a, b \in Words(n) : probe(m, choice, BitXor(a, b)) = BitXor(probe(m, choice, a), probe(m, choice, b))
  BY ProbeAdds
<1>5. probe(m, choice, 0) = 0
  <2>1. BitXor(0, 0) = 0 BY <1>1, <1>2, XorLaws
  <2>2. probe(m, choice, BitXor(0, 0)) = BitXor(probe(m, choice, 0), probe(m, choice, 0)) BY <1>2, <1>4
  <2>3. BitXor(probe(m, choice, 0), probe(m, choice, 0)) = 0 BY <1>1, <1>2, <1>3, XorLaws
  <2> QED BY <2>1, <2>2, <2>3
<1>6. \A a, b \in Words(n) : BitXor(a, b) \in Words(n) BY <1>1, XorBits
<1>7. \A a \in Words(n) : probe(m, choice, a) = 0 => a = 0 BY <1>2, <1>5, ProbeTells
<1>8. Additive(L, n) BY <1>3, <1>4, <1>6, <1>7 DEF Additive
<1>9. \A a \in Words(n) : BitXor(probe(m, choice, a), 0) = probe(m, choice, a) BY <1>1, <1>3, XorLaws
<1>10. Probes(L, n, m, choice) BY <1>1, <1>5, <1>9 DEF Probes
<1> QED BY <1>5, <1>8, <1>10

-----------------------------------------------------------------------------
(* Banks under a secret mapper.                                              *)

(* The worker runs a secret mapper that it could start.                       *)
Scattered ==
  /\ Layout(mapper) /\ "bank" \in Fields(mapper) /\ mapper.widths["bank"] > 0 /\ active \in Nat
  /\ \A f \in {"bank", "bankgroup"} \cap Fields(mapper) : XorOver(0..2^mapper.widths[f] - 1)

(* A row's slots, by the bank they would have under the public mapper.         *)
BankGroups == 0..2^Width(mapper, "bankgroup") - 1
BankNumbers == 0..2^Width(mapper, "bank") - 1
Slot(row, bg, bank) == row * row_bytes + bg * 2^shift_of("bankgroup") + bank * 2^shift_of("bank")

(* A slot is an address of its row, and the public mapper reads its          *)
(* fields back.                                                              *)
LEMMA SlotIs ==
  ASSUME Scattered, NEW row \in 0..row_count - 1, NEW bg \in BankGroups, NEW bank \in BankNumbers
  PROVE  /\ Slot(row, bg, bank) \in 0..mapper.capacity - 1
         /\ Slot(row, bg, bank) \div 2^mapper.shifts["row"] = row
         /\ decode(mapper, Slot(row, bg, bank))["row"] = row
         /\ decode(mapper, Slot(row, bg, bank))["bank"] = bank
         /\ "bankgroup" \in Fields(mapper) => decode(mapper, Slot(row, bg, bank))["bankgroup"] = bg
<1> DEFINE x  == Slot(row, bg, bank)
           s  == mapper.shifts["row"]
           w  == mapper.widths["row"]
           sb == mapper.shifts["bank"]
           wb == mapper.widths["bank"]
           sg == mapper.shifts["bankgroup"]
           wg == mapper.widths["bankgroup"]
           grouped == "bankgroup" \in Fields(mapper)
<1>1. /\ s \in Nat /\ w \in Nat /\ sb \in Nat /\ wb \in Nat /\ sb + wb <= s
      /\ row_bytes = 2^s /\ mapper.capacity = 2^(s + w) /\ row_count = 2^w
      /\ {"row", "bank"} \subseteq Fields(mapper) /\ "channel" \notin Fields(mapper)
      /\ shift_of("bank") = sb /\ Width(mapper, "bank") = wb
  BY DEF Scattered, Layout, row_bytes, row_count, shift_of, Width
<1>2. grouped => sg \in Nat /\ wg \in Nat /\ sg + wg <= s /\ (sb + wb <= sg \/ sg + wg <= sb)
                 /\ shift_of("bankgroup") = sg /\ Width(mapper, "bankgroup") = wg
  BY DEF Scattered, Layout, shift_of, Width
<1>3. ~grouped => shift_of("bankgroup") = 0 /\ Width(mapper, "bankgroup") = 0 BY DEF shift_of, Width
<1>4. row \in 0..2^w - 1 /\ bank \in 0..2^wb - 1 /\ (grouped => bg \in 0..2^wg - 1)
  BY <1>1, <1>2 DEF BankGroups, BankNumbers
<1>5. row \in Nat /\ 2^s \in Nat \ {0} /\ 2^w \in Nat \ {0} /\ 2^sb \in Nat \ {0}
  <2>1. 2^s \in Nat \ {0} /\ 2^w \in Nat \ {0} /\ 2^sb \in Nat \ {0} BY <1>1, PowerIsPositive
  <2>2. row \in Nat BY <1>4
  <2> QED BY <2>1, <2>2
<1> HIDE DEF s, w, sb, wb, sg, wg
<1>6. ASSUME grouped /\ sb + wb <= sg
      PROVE  /\ (x \div 2^sb) % 2^wb = bank /\ (grouped => (x \div 2^sg) % 2^wg = bg)
             /\ x \div 2^s = row /\ x - row * 2^s \in 0..2^s - 1 /\ x \in Nat
  <2>1. Packed(x, row, s, bg, sg, bank, sb) BY <1>1, <1>2, <1>6 DEF Packed, Slot
  <2> HIDE DEF x
  <2>2. Unpacks(x, row, s, bg, sg, wg, bank, sb, wb)
    <3>1. Apart(s, sg, wg, sb, wb) BY <1>1, <1>2, <1>6 DEF Apart
    <3>2. bank \in 0..2^wb - 1 /\ bg \in 0..2^wg - 1 BY <1>4, <1>6
    <3> QED BY <1>5, <2>1, <3>1, <3>2, TwoFields
  <2> QED BY <2>2 DEF Unpacks
<1>7. ASSUME grouped /\ sg + wg <= sb
      PROVE  /\ (x \div 2^sb) % 2^wb = bank /\ (grouped => (x \div 2^sg) % 2^wg = bg)
             /\ x \div 2^s = row /\ x - row * 2^s \in 0..2^s - 1 /\ x \in Nat
  <2>1. Packed(x, row, s, bank, sb, bg, sg)
    <3>1. 2^sg \in Nat \ {0} BY <1>2, <1>7, PowerIsPositive
    <3>2. x = row * 2^s + bg * 2^sg + bank * 2^sb BY <1>1, <1>2, <1>7 DEF Slot
    <3>3. row * 2^s \in Nat /\ bg * 2^sg \in Nat /\ bank * 2^sb \in Nat
      <4>1. bg \in Nat /\ bank \in Nat BY <1>4, <1>7
      <4> QED BY <1>5, <3>1, <4>1
    <3> QED BY <3>2, <3>3 DEF Packed
  <2> HIDE DEF x
  <2>2. Unpacks(x, row, s, bank, sb, wb, bg, sg, wg)
    <3>1. Apart(s, sb, wb, sg, wg) BY <1>1, <1>2, <1>7 DEF Apart
    <3>2. bank \in 0..2^wb - 1 /\ bg \in 0..2^wg - 1 BY <1>4, <1>7
    <3> QED BY <1>5, <2>1, <3>1, <3>2, TwoFields
  <2> QED BY <2>2 DEF Unpacks
<1>8. ASSUME ~grouped
      PROVE  /\ (x \div 2^sb) % 2^wb = bank /\ (grouped => (x \div 2^sg) % 2^wg = bg)
             /\ x \div 2^s = row /\ x - row * 2^s \in 0..2^s - 1 /\ x \in Nat
  <2>1. bg = 0
    <3>1. 2^0 = 1 OBVIOUS
    <3>2. bg \in 0..2^0 - 1 BY <1>3, <1>8 DEF BankGroups
    <3> QED BY <3>1, <3>2
  <2>2. Packed(x, row, s, 0, s, bank, sb)
    <3>1. x = row * 2^s + 0 * 2^0 + bank * 2^sb BY <1>1, <1>3, <1>8, <2>1 DEF Slot
    <3>2. 0 * 2^0 = 0 /\ 0 * 2^s = 0 BY <1>5
    <3> QED BY <3>1, <3>2 DEF Packed
  <2>3. 0 \in 0..2^0 - 1 /\ s + 0 <= s /\ 0 \in Nat
    <3>1. 2^0 = 1 OBVIOUS
    <3> QED BY <1>1, <3>1
  <2> HIDE DEF x
  <2>4. Unpacks(x, row, s, 0, s, 0, bank, sb, wb)
    <3>1. Apart(s, s, 0, sb, wb) BY <1>1, <2>3 DEF Apart
    <3> QED BY <1>4, <1>5, <2>2, <2>3, <3>1, TwoFields
  <2> QED BY <1>8, <2>4 DEF Unpacks
<1>9. /\ (x \div 2^sb) % 2^wb = bank /\ (grouped => (x \div 2^sg) % 2^wg = bg)
      /\ x \div 2^s = row /\ x - row * 2^s \in 0..2^s - 1 /\ x \in Nat
  BY <1>2, <1>6, <1>7, <1>8
<1> HIDE DEF x
<1>10. x \in 0..2^(s + w) - 1
  <2> DEFINE low == x - row * 2^s
             A   == 2^s
             B   == 2^w
  <2>1. 2^(s + w) = A * B BY <1>1, PowerOfSum
  <2>2. row * A \in Nat /\ A \in Nat \ {0} /\ B \in Nat \ {0} /\ row \in 0..B - 1 BY <1>4, <1>5
  <2>3. low \in 0..A - 1 BY <1>9
  <2>4. x = row * A + low BY <1>9, <2>2
  <2> HIDE DEF low, A, B
  <2>5. row * A + low \in 0..A * B - 1 BY <2>2, <2>3, Below
  <2> QED BY <2>1, <2>4, <2>5
<1>11. /\ decode(mapper, x)["row"] = (x \div 2^s) % 2^w
       /\ decode(mapper, x)["bank"] = (x \div 2^sb) % 2^wb
       /\ grouped => decode(mapper, x)["bankgroup"] = (x \div 2^sg) % 2^wg
  BY <1>1 DEF decode, s, w, sb, wb, sg, wg, grouped
<1>12. row % 2^w = row BY <1>4, <1>5, SmallRest
<1> QED BY <1>1, <1>9, <1>10, <1>11, <1>12 DEF x, s, w, sb, wb, sg, wg

(* Where the secret mapper opens a slot.                                     *)
FoldedGroup(row, bg) ==
  IF "bankgroup" \in Fields(mapper) THEN BitXor(bg, (row \div 2^active) % 2^mapper.widths["bankgroup"]) ELSE 0
FoldedBank(row, bank) == BitXor(bank, row % 2^mapper.widths["bank"])

(* The secret mapper opens it in the same row, in the folded bank.           *)
LEMMA OpensAt ==
  ASSUME Scattered, NEW row \in 0..row_count - 1, NEW bg \in BankGroups, NEW bank \in BankNumbers
  PROVE  /\ Bank(Slot(row, bg, bank)) = <<FoldedGroup(row, bg), FoldedBank(row, bank)>>
         /\ Decoded(Slot(row, bg, bank))["row"] = row
<1> DEFINE x == Slot(row, bg, bank)
           base == decode(mapper, x)
           wb == mapper.widths["bank"]
           folded == [base EXCEPT !["bank"] = BitXor(@, base["row"] % 2^wb)]
           grouped == "bankgroup" \in Fields(mapper)
           key == (base["row"] \div 2^active) % 2^mapper.widths["bankgroup"]
<1>1. base["row"] = row /\ base["bank"] = bank /\ (grouped => base["bankgroup"] = bg) BY SlotIs
<1>2. DOMAIN base = Fields(mapper) \cup {"channel"} BY DEF decode
<1>3. {"row", "bank"} \subseteq Fields(mapper) /\ active # Public BY DEF Scattered, Layout, Public
<1>4. Decoded(x) = IF grouped THEN [folded EXCEPT !["bankgroup"] = BitXor(@, key)] ELSE folded
  BY <1>3 DEF Decoded, worker_decode, RowXOR
<1> HIDE DEF x, base
<1>5. folded["row"] = row /\ folded["bank"] = FoldedBank(row, bank) /\ DOMAIN folded = DOMAIN base
      /\ (grouped => folded["bankgroup"] = bg)
  BY <1>1, <1>2, <1>3 DEF FoldedBank
<1> HIDE DEF folded
<1>6. CASE grouped
  <2>1. Decoded(x) = [folded EXCEPT !["bankgroup"] = BitXor(@, key)] BY <1>4, <1>6
  <2>2. Decoded(x)["row"] = row /\ Decoded(x)["bank"] = FoldedBank(row, bank)
        /\ Decoded(x)["bankgroup"] = BitXor(bg, key) /\ "bankgroup" \in DOMAIN Decoded(x)
    BY <1>2, <1>3, <1>5, <1>6, <2>1
  <2>3. BitXor(bg, key) = FoldedGroup(row, bg) BY <1>1, <1>6 DEF FoldedGroup
  <2> QED BY <2>2, <2>3 DEF Bank, bankgroup, x
<1>7. CASE ~grouped
  <2>1. Decoded(x) = folded BY <1>4, <1>7
  <2>2. "bankgroup" \notin DOMAIN Decoded(x) BY <1>2, <1>5, <1>7, <2>1
  <2>3. FoldedGroup(row, bg) = 0 BY <1>7 DEF FoldedGroup
  <2> QED BY <1>5, <2>1, <2>2, <2>3 DEF Bank, bankgroup, x
<1> QED BY <1>6, <1>7

(* A key of the row permutes the banks of a field.                            *)
Permutes(D, key) ==
  /\ \A a \in D : BitXor(a, key) \in D
  /\ \A a, b \in D : BitXor(a, key) = BitXor(b, key) => a = b
  /\ \A b \in D : \E a \in D : BitXor(a, key) = b

(* Exclusive or with a key permutes the words of a field.                    *)
LEMMA KeyPermutes ==
  ASSUME NEW D, NEW key \in D, XorOver(D)
  PROVE  Permutes(D, key)
<1>1. \A a \in D : BitXor(a, key) \in D /\ BitXor(BitXor(a, key), key) = a BY DEF XorOver
<1> QED BY <1>1 DEF Permutes

Grid == BankGroups \X BankNumbers

(* So a row permutes the bankgroups, and the banks.                          *)
LEMMA FoldPermutes ==
  ASSUME Scattered, NEW row \in 0..row_count - 1
  PROVE  /\ \A bg \in BankGroups : FoldedGroup(row, bg) \in BankGroups
         /\ \A bg, bg2 \in BankGroups : FoldedGroup(row, bg) = FoldedGroup(row, bg2) => bg = bg2
         /\ \A g \in BankGroups : \E bg \in BankGroups : FoldedGroup(row, bg) = g
         /\ \A bank \in BankNumbers : FoldedBank(row, bank) \in BankNumbers
         /\ \A bank, bank2 \in BankNumbers : FoldedBank(row, bank) = FoldedBank(row, bank2) => bank = bank2
         /\ \A b \in BankNumbers : \E bank \in BankNumbers : FoldedBank(row, bank) = b
<1> DEFINE wb == mapper.widths["bank"]
           wg == mapper.widths["bankgroup"]
           grouped == "bankgroup" \in Fields(mapper)
<1>1. wb \in Nat /\ (grouped => wg \in Nat) /\ mapper.widths["row"] \in Nat /\ active \in Nat
      /\ "bank" \in Fields(mapper)
  BY DEF Scattered, Layout
<1>2. row \in Nat /\ 2^wb \in Nat \ {0} /\ 2^active \in Nat \ {0}
  <2>1. 2^mapper.widths["row"] \in Nat \ {0} BY <1>1, PowerIsPositive
  <2> QED BY <1>1, <2>1, PowerIsPositive DEF row_count
<1> DEFINE kb == row % 2^wb
           kg == (row \div 2^active) % 2^wg
<1>3. BankNumbers = 0..2^wb - 1 BY <1>1 DEF BankNumbers, Width
<1>4. kb \in 0..2^wb - 1
  <2> DEFINE d == 2^wb
  <2>1. d \in Nat \ {0} BY <1>2
  <2> HIDE DEF d
  <2>2. row % d \in 0..d - 1 BY <1>2, <2>1
  <2> QED BY <2>2 DEF d
<1>5. /\ \A bank \in BankNumbers : FoldedBank(row, bank) \in BankNumbers
      /\ \A bank, bank2 \in BankNumbers : FoldedBank(row, bank) = FoldedBank(row, bank2) => bank = bank2
      /\ \A b \in BankNumbers : \E bank \in BankNumbers : FoldedBank(row, bank) = b
  <2>1. \A bank : FoldedBank(row, bank) = BitXor(bank, kb) BY DEF FoldedBank
  <2> HIDE DEF kb
  <2>2. XorOver(BankNumbers) BY <1>1, <1>3 DEF Scattered
  <2>3. Permutes(BankNumbers, kb) BY <1>3, <1>4, <2>2, KeyPermutes
  <2> QED BY <2>1, <2>3 DEF Permutes
<1>6. /\ \A bg \in BankGroups : FoldedGroup(row, bg) \in BankGroups
      /\ \A bg, bg2 \in BankGroups : FoldedGroup(row, bg) = FoldedGroup(row, bg2) => bg = bg2
      /\ \A g \in BankGroups : \E bg \in BankGroups : FoldedGroup(row, bg) = g
  <2>1. CASE grouped
    <3>1. BankGroups = 0..2^wg - 1 /\ \A bg : FoldedGroup(row, bg) = BitXor(bg, kg)
      BY <2>1 DEF BankGroups, Width, FoldedGroup
    <3>2. kg \in 0..2^wg - 1
      <4> DEFINE d == 2^wg
                 e == 2^active
                 q == row \div e
      <4>1. d \in Nat \ {0} /\ e \in Nat \ {0} BY <1>1, <1>2, <2>1, PowerIsPositive
      <4> HIDE DEF d, e
      <4>2. q \in Nat BY <1>2, <4>1
      <4> HIDE DEF q
      <4>3. q % d \in 0..d - 1 BY <4>1, <4>2
      <4> QED BY <4>3 DEF d, e, q
    <3> HIDE DEF kg
    <3>3. XorOver(BankGroups) BY <1>1, <2>1, <3>1 DEF Scattered
    <3>4. Permutes(BankGroups, kg) BY <3>1, <3>2, <3>3, KeyPermutes
    <3> QED BY <3>1, <3>4 DEF Permutes
  <2>2. CASE ~grouped
    <3>1. \A bg : FoldedGroup(row, bg) = 0 BY <2>2 DEF FoldedGroup
    <3>2. BankGroups = {0}
      <4>1. Width(mapper, "bankgroup") = 0 BY <2>2 DEF Width
      <4>2. 2^0 = 1 OBVIOUS
      <4>3. BankGroups = 0..2^0 - 1 BY <4>1 DEF BankGroups
      <4> QED BY <4>2, <4>3
    <3> QED BY <3>1, <3>2
  <2> QED BY <2>1, <2>2
<1> QED BY <1>5, <1>6

(* A row has one slot in every bank of the device.                            *)
LEMMA SlotsAre ==
  ASSUME Scattered, NEW row \in 0..row_count - 1
  PROVE  /\ \A addr \in Slots(row) : /\ addr \in 0..mapper.capacity - 1 /\ Bank(addr) \in Grid
                                     /\ Decoded(addr)["row"] = row
         /\ \A a, b \in Slots(row) : Bank(a) = Bank(b) => a = b
         /\ \A at \in Grid : \E addr \in Slots(row) : Bank(addr) = at
<1>1. Slots(row) = {Slot(row, bg, bank) : bg \in BankGroups, bank \in BankNumbers}
  BY DEF Slots, Slot, BankGroups, BankNumbers
<1>2. \A addr \in Slots(row) : \E bg \in BankGroups, bank \in BankNumbers : addr = Slot(row, bg, bank) BY <1>1
<1>3. \A bg \in BankGroups, bank \in BankNumbers :
        /\ Slot(row, bg, bank) \in 0..mapper.capacity - 1
        /\ Bank(Slot(row, bg, bank)) = <<FoldedGroup(row, bg), FoldedBank(row, bank)>>
        /\ Decoded(Slot(row, bg, bank))["row"] = row
  BY SlotIs, OpensAt
<1>4. \A bg \in BankGroups, bank \in BankNumbers : FoldedGroup(row, bg) \in BankGroups /\ FoldedBank(row, bank) \in BankNumbers
  BY FoldPermutes
<1>5. ASSUME NEW addr \in Slots(row)
      PROVE  addr \in 0..mapper.capacity - 1 /\ Bank(addr) \in Grid /\ Decoded(addr)["row"] = row
  <2>1. PICK bg \in BankGroups, bank \in BankNumbers : addr = Slot(row, bg, bank) BY <1>2
  <2> QED BY <2>1, <1>3, <1>4 DEF Grid
<1>6. ASSUME NEW a \in Slots(row), NEW b \in Slots(row), Bank(a) = Bank(b) PROVE a = b
  <2>1. PICK bg \in BankGroups, bank \in BankNumbers : a = Slot(row, bg, bank) BY <1>2
  <2>2. PICK bg2 \in BankGroups, bank2 \in BankNumbers : b = Slot(row, bg2, bank2) BY <1>2
  <2>3. <<FoldedGroup(row, bg), FoldedBank(row, bank)>> = <<FoldedGroup(row, bg2), FoldedBank(row, bank2)>>
    BY <1>3, <1>6, <2>1, <2>2
  <2>4. FoldedGroup(row, bg) = FoldedGroup(row, bg2) /\ FoldedBank(row, bank) = FoldedBank(row, bank2) BY <2>3
  <2>5. bg = bg2 /\ bank = bank2 BY <2>4, FoldPermutes
  <2> QED BY <2>1, <2>2, <2>5
<1>7. ASSUME NEW at \in Grid PROVE \E addr \in Slots(row) : Bank(addr) = at
  <2>1. PICK g \in BankGroups, b \in BankNumbers : at = <<g, b>> BY DEF Grid
  <2>2. PICK bg \in BankGroups : FoldedGroup(row, bg) = g BY FoldPermutes
  <2>3. PICK bank \in BankNumbers : FoldedBank(row, bank) = b BY FoldPermutes
  <2>4. Slot(row, bg, bank) \in Slots(row) BY <1>1
  <2>5. Bank(Slot(row, bg, bank)) = at BY <1>3, <2>1, <2>2, <2>3
  <2> QED BY <2>4, <2>5
<1> QED BY <1>5, <1>6, <1>7

(* There are at least two banks.                                             *)
LEMMA BanksAre ==
  ASSUME Scattered
  PROVE  n_banks \in Nat /\ n_banks >= 2 /\ IsFiniteSet(Grid) /\ Cardinality(Grid) = n_banks /\ 0 \in BankGroups /\ 0 \in BankNumbers
<1> DEFINE G == 2^Width(mapper, "bankgroup")
           B == 2^Width(mapper, "bank")
<1>1. Width(mapper, "bank") \in Nat /\ Width(mapper, "bank") > 0 /\ Width(mapper, "bankgroup") \in Nat BY DEF Scattered, Layout, Width
<1>2. G \in Nat \ {0} BY <1>1, PowerIsPositive
<1>3. B \in Nat /\ B >= 2
  <2>1. Width(mapper, "bank") - 1 \in Nat BY <1>1
  <2>2. PICK k \in Nat : Width(mapper, "bank") = k + 1 BY <1>1, <2>1
  <2>3. 2^k \in Nat \ {0} /\ 2^(k + 1) = 2 * 2^k BY PowerIsPositive
  <2> QED BY <2>2, <2>3
<1>4. BankGroups = 0..G - 1 /\ BankNumbers = 0..B - 1 /\ n_banks = G * B BY DEF BankGroups, BankNumbers, n_banks, BanksOf
<1> HIDE DEF G, B
<1>5. G * B \in Nat /\ G * B >= B BY <1>2, <1>3
<1>6. IsFiniteSet(BankGroups) /\ Cardinality(BankGroups) = G
  <2>1. IsFiniteSet(0..G - 1) /\ Cardinality(0..G - 1) = IF 0 > G - 1 THEN 0 ELSE G - 1 - 0 + 1 BY <1>2, FS_Interval
  <2> QED BY <1>2, <1>4, <2>1
<1>7. IsFiniteSet(BankNumbers) /\ Cardinality(BankNumbers) = B
  <2>1. IsFiniteSet(0..B - 1) /\ Cardinality(0..B - 1) = IF 0 > B - 1 THEN 0 ELSE B - 1 - 0 + 1 BY <1>3, FS_Interval
  <2> QED BY <1>3, <1>4, <2>1
<1>8. IsFiniteSet(Grid) /\ Cardinality(Grid) = G * B BY <1>6, <1>7, FS_Product DEF Grid
<1> QED BY <1>2, <1>3, <1>4, <1>5, <1>8

(* A row has as many slots as the device has banks.                          *)
LEMMA SlotsCount ==
  ASSUME Scattered, NEW row \in 0..row_count - 1
  PROVE  IsFiniteSet(Slots(row)) /\ Cardinality(Slots(row)) = n_banks
<1> DEFINE f == [at \in Grid |-> CHOOSE addr \in Slots(row) : Bank(addr) = at]
<1>1. \A at \in Grid : f[at] \in Slots(row) /\ Bank(f[at]) = at BY SlotsAre
<1>2. f \in [Grid -> Slots(row)] BY <1>1
<1> HIDE DEF f
<1>3. f \in Bijection(Grid, Slots(row))
  <2>1. \A at, at2 \in Grid : f[at] = f[at2] => at = at2 BY <1>1
  <2>2. \A addr \in Slots(row) : \E at \in Grid : f[at] = addr
    <3> SUFFICES ASSUME NEW addr \in Slots(row) PROVE \E at \in Grid : f[at] = addr OBVIOUS
    <3>1. Bank(addr) \in Grid BY SlotsAre
    <3>2. f[Bank(addr)] = addr BY <1>1, <3>1, SlotsAre
    <3> QED BY <3>1, <3>2
  <2> QED BY <1>2, <2>1, <2>2 DEF Bijection, Injection, Surjection, IsInjective
<1>4. IsFiniteSet(Grid) /\ Cardinality(Grid) = n_banks BY BanksAre
<1>5. ExistsBijection(Grid, Slots(row)) BY <1>3 DEF ExistsBijection
<1> QED BY <1>4, <1>5, FS_Bijection

-----------------------------------------------------------------------------
(* The victim's bank.                                                        *)

(* The target's address is its row's first slot, and its victim is in a      *)
(* bank of the device.                                                       *)
LEMMA TargetIs ==
  ASSUME Scattered, target_row \in 0..row_count - 1
  PROVE  /\ target_addr = Slot(target_row, 0, 0) /\ target_addr \in Slots(target_row) /\ victim_bank \in Grid
<1>1. 0 \in BankGroups /\ 0 \in BankNumbers BY BanksAre
<1>2. target_addr = Slot(target_row, 0, 0)
  <2>1. shift_of("bankgroup") \in Nat /\ shift_of("bank") \in Nat /\ mapper.shifts["row"] \in Nat /\ mapper.widths["row"] \in Nat
    BY DEF Scattered, Layout, shift_of
  <2>2. 2^shift_of("bankgroup") \in Nat /\ 2^shift_of("bank") \in Nat /\ row_bytes \in Nat /\ row_count \in Nat
    BY <2>1, PowerIsPositive DEF row_bytes, row_count, Scattered, Layout
  <2>3. target_row * row_bytes \in Nat BY <2>2
  <2> QED BY <2>2, <2>3 DEF target_addr, Slot
<1>3. target_addr \in Slots(target_row) BY <1>1, <1>2 DEF Slots, Slot, BankGroups, BankNumbers
<1>4. Bank(target_addr) \in Grid BY <1>3, SlotsAre
<1> QED BY <1>2, <1>3, <1>4 DEF victim_bank

(* A row has one slot in the victim's bank, the others are elsewhere.          *)
LEMMA InVictimBankIs ==
  ASSUME Scattered, target_row \in 0..row_count - 1, NEW row \in 0..row_count - 1
  PROVE  /\ InVictimBank(row) \in Slots(row) /\ Bank(InVictimBank(row)) = victim_bank
         /\ \A addr \in Slots(row) : Bank(addr) = victim_bank => addr = InVictimBank(row)
         /\ IsFiniteSet(Others(row)) /\ Cardinality(Others(row)) = n_banks - 1
<1>1. victim_bank \in Grid BY TargetIs
<1>2. \E addr \in Slots(row) : Bank(addr) = victim_bank BY <1>1, SlotsAre
<1>3. InVictimBank(row) \in Slots(row) /\ Bank(InVictimBank(row)) = victim_bank BY <1>2 DEF InVictimBank
<1>4. \A addr \in Slots(row) : Bank(addr) = victim_bank => addr = InVictimBank(row) BY <1>3, SlotsAre
<1>5. Others(row) = Slots(row) \ {InVictimBank(row)} BY <1>3, <1>4 DEF Others
<1>6. IsFiniteSet(Slots(row)) /\ Cardinality(Slots(row)) = n_banks BY SlotsCount
<1>7. IsFiniteSet(Others(row)) /\ Cardinality(Others(row)) = n_banks - 1
  <2> DEFINE all == Slots(row)
             at  == InVictimBank(row)
  <2> HIDE DEF all, at
  <2>1. IsFiniteSet(all) /\ at \in all BY <1>3, <1>6 DEF all, at
  <2>2. IsFiniteSet(all \ {at}) /\ Cardinality(all \ {at}) = Cardinality(all) - 1 BY <2>1, FS_RemoveElement
  <2> QED BY <1>5, <1>6, <2>2 DEF all, at
<1> QED BY <1>3, <1>4, <1>7

(* One row stride away from the target is another bank.                       *)
LEMMA StrideLeavesBank ==
  ASSUME Scattered, target_row \in 0..row_count - 1, NEW row \in 0..row_count - 1,
         row = target_row + 1 \/ row = target_row - 1
  PROVE  Bank(Slot(row, 0, 0)) # victim_bank
<1> DEFINE B == 2^mapper.widths["bank"]
<1>1. 0 \in BankGroups /\ 0 \in BankNumbers BY BanksAre
<1>2. victim_bank = <<FoldedGroup(target_row, 0), FoldedBank(target_row, 0)>> BY <1>1, TargetIs, OpensAt DEF victim_bank
<1>3. Bank(Slot(row, 0, 0)) = <<FoldedGroup(row, 0), FoldedBank(row, 0)>> BY <1>1, OpensAt
<1>4. mapper.widths["bank"] \in Nat /\ mapper.widths["bank"] > 0 /\ mapper.widths["row"] \in Nat BY DEF Scattered, Layout
<1>5. PICK h \in Nat : B = 2 * h /\ h > 0
  <2>1. mapper.widths["bank"] - 1 \in Nat BY <1>4
  <2>2. PICK k \in Nat : mapper.widths["bank"] = k + 1 BY <1>4, <2>1
  <2>3. 2^k \in Nat \ {0} /\ 2^(k + 1) = 2 * 2^k BY PowerIsPositive
  <2> QED BY <2>2, <2>3
<1>6. target_row \in Nat /\ row \in Nat
  <2>1. 2^mapper.widths["row"] \in Nat BY <1>4, PowerIsPositive
  <2> QED BY <2>1 DEF row_count
<1>7. BankNumbers = 0..B - 1 /\ FoldedBank(target_row, 0) = BitXor(0, target_row % B) /\ FoldedBank(row, 0) = BitXor(0, row % B)
  BY DEF BankNumbers, Width, FoldedBank, Scattered
<1> HIDE DEF B
<1>8. target_row % B # row % B
  <2>1. SUFFICES ASSUME target_row % B = row % B PROVE FALSE OBVIOUS
  <2>2. B \in Nat \ {0} BY <1>5
  <2>3. PICK p \in Int : target_row = B * p + (target_row % B)
    <3>1. target_row \div B \in Int /\ target_row = B * (target_row \div B) + (target_row % B) BY <1>6, <2>2
    <3> QED BY <3>1
  <2>4. PICK q \in Int : row = B * q + (row % B)
    <3>1. row \div B \in Int /\ row = B * (row \div B) + (row % B) BY <1>6, <2>2
    <3> QED BY <3>1
  <2>5. row % B \in Int BY <1>6, <2>2
  <2>6. row - target_row = B * q - B * p BY <2>1, <2>2, <2>3, <2>4, <2>5
  <2>7. B * q - B * p = 2 * (h * q - h * p) BY <1>5
  <2>8. h * q - h * p \in Int BY <1>5
  <2>9. row - target_row = 1 \/ row - target_row = -1 BY <1>6
  <2> QED BY <2>6, <2>7, <2>8, <2>9
<1>9. target_row % B \in BankNumbers /\ row % B \in BankNumbers BY <1>5, <1>6, <1>7
<1>10. \A a, b \in BankNumbers : BitXor(0, a) = BitXor(0, b) => a = b
  <2>1. \A a, b \in BankNumbers : BitXor(BitXor(a, b), b) = a /\ BitXor(a, b) = BitXor(b, a)
    BY <1>7 DEF Scattered, XorOver, B
  <2> QED BY <1>1, <2>1
<1>11. FoldedBank(target_row, 0) # FoldedBank(row, 0) BY <1>7, <1>8, <1>9, <1>10
<1> QED BY <1>2, <1>3, <1>11

-----------------------------------------------------------------------------
(* Counting candidates.                                                      *)

(* A set and its image under a one-to-one map onto it count alike.           *)
LEMMA ImageCount ==
  ASSUME NEW S, IsFiniteSet(S), NEW T, NEW f \in [S -> T], \A x, y \in S : f[x] = f[y] => x = y,
         \A v \in T : \E x \in S : f[x] = v
  PROVE  IsFiniteSet(T) /\ Cardinality(T) = Cardinality(S)
<1>1. f \in Bijection(S, T) BY DEF Bijection, Injection, Surjection, IsInjective
<1>2. ExistsBijection(S, T) BY <1>1 DEF ExistsBijection
<1> QED BY <1>2, FS_Bijection

(* Marking addresses with a role keeps their number.                         *)
LEMMA AsCount ==
  ASSUME NEW role, NEW addrs, IsFiniteSet(addrs)
  PROVE  IsFiniteSet(As(role, addrs)) /\ Cardinality(As(role, addrs)) = Cardinality(addrs)
<1> DEFINE f == [addr \in addrs |-> [addr |-> addr, role |-> role]]
           all == As(role, addrs)
<1>1. f \in [addrs -> all] BY DEF As
<1>2. \A a, b \in addrs : f[a] = f[b] => a = b
  <2> SUFFICES ASSUME NEW a \in addrs, NEW b \in addrs, f[a] = f[b] PROVE a = b OBVIOUS
  <2>1. f[a].addr = a /\ f[b].addr = b OBVIOUS
  <2> QED BY <2>1
<1>3. \A c \in all : \E a \in addrs : f[a] = c BY DEF As
<1> HIDE DEF f, all
<1>4. IsFiniteSet(all) /\ Cardinality(all) = Cardinality(addrs) BY <1>1, <1>2, <1>3, ImageCount
<1> QED BY <1>4 DEF all

(* Apart, two sets count together.                                           *)
LEMMA ApartCount ==
  ASSUME NEW S, NEW U, IsFiniteSet(S), IsFiniteSet(U), S \cap U = {}
  PROVE  IsFiniteSet(S \cup U) /\ Cardinality(S \cup U) = Cardinality(S) + Cardinality(U)
<1>1. IsFiniteSet(S \cup U) /\ Cardinality(S \cup U) = Cardinality(S) + Cardinality(U) - Cardinality(S \cap U)
  BY FS_Union
<1>2. Cardinality(S \cap U) = 0 BY FS_EmptySet
<1>3. Cardinality(S) \in Nat /\ Cardinality(U) \in Nat BY FS_CardinalityType
<1> QED BY <1>1, <1>2, <1>3

(* What kSubset returns.                                                     *)
LEMMA PartIs ==
  ASSUME NEW S, IsFiniteSet(S), NEW k, NEW part \in kSubset(k, S)
  PROVE  part \subseteq S /\ IsFiniteSet(part) /\ Cardinality(part) = k /\ k \in Nat
<1>1. part \subseteq S /\ Cardinality(part) = k BY DEF kSubset
<1>2. IsFiniteSet(part) BY <1>1, FS_Subset
<1> QED BY <1>1, <1>2, FS_CardinalityType

-----------------------------------------------------------------------------
(* The window a secret family is compiled for.                                *)

Playing ==
  /\ Scattered /\ HasRoom(mapper)
  /\ target_row \in 1..row_count - 3 /\ spec.difficulty \in DOMAIN BAND_CANDIDATES

Half == (n_decoy + 1) \div 2

(* The numbers of a window, and the room the device has for it               *)
(* (RoomAssumption).                                                         *)
LEMMA Numbers ==
  ASSUME Playing
  PROVE  /\ row_count \in Nat /\ n_decoy \in Nat /\ BAND_CANDIDATES[spec.difficulty] = n_decoy + 2
         /\ FAR_ROW_MARGIN \in Nat \ {0}
         /\ n_banks \in Nat /\ n_banks >= 2
         /\ Half \in Nat /\ 2 * Half <= n_decoy + 1 /\ Half + 2 * FAR_ROW_MARGIN + 1 <= row_count
         /\ \A k \in 0..Half : k * (n_banks - 1) < Half => (k + 1) * (FAR_ROW_MARGIN + 1) + FAR_ROW_MARGIN < row_count
         /\ target_row \in Nat /\ target_row - 1 \in 0..row_count - 1 /\ target_row + 1 \in 0..row_count - 1
         /\ target_row \in 0..row_count - 1
<1> DEFINE wide == BAND_CANDIDATES[spec.difficulty]
<1>1. wide \in Nat /\ wide >= 2 /\ FAR_ROW_MARGIN \in Nat \ {0} BY MarginsAssumption DEF Playing
<1>2. n_decoy = wide - 2 BY DEF n_decoy
<1> HIDE DEF wide
<1>3. n_decoy \in Nat /\ wide = n_decoy + 2 /\ n_decoy + 1 = wide - 1 BY <1>1, <1>2
<1>4. Half = (wide - 1) \div 2 BY <1>3 DEF Half
<1>5. Half \in Nat /\ 2 * Half <= n_decoy + 1 BY <1>3 DEF Half
<1>6. mapper.widths["row"] \in Nat BY DEF Playing, Scattered, Layout
<1>7. row_count \in Nat BY <1>6, PowerIsPositive DEF row_count
<1>8. n_banks \in Nat /\ n_banks >= 2 BY BanksAre DEF Playing
<1>9. /\ Half + 2 * FAR_ROW_MARGIN + 1 <= row_count
      /\ \A k \in 0..Half : k * (n_banks - 1) < Half => (k + 1) * (FAR_ROW_MARGIN + 1) + FAR_ROW_MARGIN < row_count
  BY <1>4 DEF Playing, HasRoom, row_count, n_banks, wide
<1>10. /\ target_row \in Nat /\ target_row - 1 \in 0..row_count - 1 /\ target_row + 1 \in 0..row_count - 1
       /\ target_row \in 0..row_count - 1
  BY <1>7 DEF Playing
<1> QED BY <1>1, <1>3, <1>5, <1>7, <1>8, <1>9, <1>10 DEF wide

(* Enough rows are far from the target.                                       *)
LEMMA FarPoolIs ==
  ASSUME Playing
  PROVE  IsFiniteSet(far_pool) /\ Cardinality(far_pool) \in Nat /\ Cardinality(far_pool) >= Half
         /\ far_pool \subseteq 0..row_count - 1
<1> DEFINE F == FAR_ROW_MARGIN
           R == row_count
           t == target_row
           all == 0..R - 1
           near == t - F..t + F
<1>1. R \in Nat /\ F \in Nat \ {0} /\ t \in Nat /\ t \in 0..R - 1 /\ Half \in Nat /\ Half + 2 * F + 1 <= R BY Numbers
<1>2. IsFiniteSet(all) /\ Cardinality(all) = R
  <2>1. IsFiniteSet(0..R - 1) /\ Cardinality(0..R - 1) = IF 0 > R - 1 THEN 0 ELSE R - 1 - 0 + 1 BY <1>1, FS_Interval
  <2> QED BY <1>1, <2>1
<1>3. IsFiniteSet(near) /\ Cardinality(near) = 2 * F + 1
  <2> DEFINE a == t - F
             b == t + F
  <2>1. a \in Int /\ b \in Int /\ b - a + 1 = 2 * F + 1 /\ ~(a > b) BY <1>1
  <2> HIDE DEF a, b
  <2>2. IsFiniteSet(a..b) /\ Cardinality(a..b) = IF a > b THEN 0 ELSE b - a + 1 BY <2>1, FS_Interval
  <2> QED BY <2>1, <2>2 DEF a, b
<1>4. far_pool = all \ near BY <1>1 DEF far_pool, Distance
<1> HIDE DEF all, near
<1>5. IsFiniteSet(all \ near) /\ Cardinality(all \ near) = Cardinality(all) - Cardinality(all \cap near)
  BY <1>2, FS_Difference
<1>6. Cardinality(all \cap near) <= 2 * F + 1 /\ Cardinality(all \cap near) \in Nat
  <2>1. IsFiniteSet(all \cap near) /\ Cardinality(all \cap near) <= Cardinality(near)
    <3>1. all \cap near \subseteq near OBVIOUS
    <3> QED BY <1>3, <3>1, FS_Subset
  <2> QED BY <1>3, <2>1, FS_CardinalityType
<1>7. far_pool \subseteq 0..R - 1 BY DEF far_pool
<1> QED BY <1>1, <1>2, <1>4, <1>5, <1>6, <1>7

(* How far up from the target a row is, round the device.                     *)
Offset(row) == IF row >= target_row THEN row - target_row ELSE row - target_row + row_count

RowOf(c) == Decoded(c.addr)["row"]

(* What a candidate is: an aggressor, a row of the victim's bank far from it,  *)
(* or a row of another bank.                                                 *)
Chosen(c) ==
  /\ c = [addr |-> c.addr, role |-> c.role]
  /\ RowOf(c) \in 0..row_count - 1 /\ c.addr \in Slots(RowOf(c))
  /\ \/ c \in Aggressors
     \/ c.role = "same_bank_far" /\ Bank(c.addr) = victim_bank /\ Distance(RowOf(c)) > FAR_ROW_MARGIN
     \/ c.role = "different_bank" /\ Bank(c.addr) # victim_bank

(* What the victim's bank is, restated for a window.                          *)
LEMMA VictimSlots ==
  ASSUME Playing, NEW row \in 0..row_count - 1
  PROVE  /\ InVictimBank(row) \in Slots(row) /\ Bank(InVictimBank(row)) = victim_bank
         /\ Decoded(InVictimBank(row))["row"] = row
         /\ \A addr \in Slots(row) : Decoded(addr)["row"] = row /\ (Bank(addr) = victim_bank => addr = InVictimBank(row))
         /\ IsFiniteSet(Others(row)) /\ Cardinality(Others(row)) = n_banks - 1
<1>1. Scattered /\ target_row \in 0..row_count - 1 BY Numbers DEF Playing
<1> QED BY <1>1, InVictimBankIs, SlotsAre

(* Rows have as many slots in the victim's bank as there are rows.           *)
LEMMA VictimSlotsCount ==
  ASSUME Playing, NEW rows, rows \subseteq 0..row_count - 1, IsFiniteSet(rows), NEW role
  PROVE  LET marked == As(role, {InVictimBank(row) : row \in rows})
         IN IsFiniteSet(marked) /\ Cardinality(marked) = Cardinality(rows)
<1> DEFINE f == [row \in rows |-> InVictimBank(row)]
           T == {InVictimBank(row) : row \in rows}
<1>1. f \in [rows -> T] OBVIOUS
<1>2. \A x, y \in rows : f[x] = f[y] => x = y BY VictimSlots
<1>3. \A addr \in T : \E row \in rows : f[row] = addr OBVIOUS
<1> HIDE DEF f, T
<1>4. IsFiniteSet(T) /\ Cardinality(T) = Cardinality(rows) BY <1>1, <1>2, <1>3, ImageCount
<1>5. IsFiniteSet(As(role, T)) /\ Cardinality(As(role, T)) = Cardinality(rows) BY <1>4, AsCount
<1> QED BY <1>5 DEF T

(* The two aggressors.                                                      *)
LEMMA AggressorsAre ==
  ASSUME Playing
  PROVE  /\ IsFiniteSet(Aggressors) /\ Cardinality(Aggressors) = 2
         /\ \A c \in Aggressors : /\ c = [addr |-> c.addr, role |-> "aggressor"] /\ c.role = "aggressor"
                                  /\ RowOf(c) \in {target_row - 1, target_row + 1} /\ c.addr = InVictimBank(RowOf(c))
                                  /\ Chosen(c)
<1> DEFINE up == target_row + 1
           down == target_row - 1
           rows == {up, down}
<1>1. up \in 0..row_count - 1 /\ down \in 0..row_count - 1 /\ up # down BY Numbers
<1>2. IsFiniteSet(rows) /\ Cardinality(rows) = 2
  <2> HIDE DEF up, down
  <2>1. IsFiniteSet({up}) /\ Cardinality({up}) = 1 BY FS_Singleton
  <2>2. IsFiniteSet({up} \cup {down}) /\ Cardinality({up} \cup {down}) = Cardinality({up}) + 1
    BY <1>1, <2>1, FS_AddElement
  <2>3. {up} \cup {down} = rows OBVIOUS
  <2> QED BY <2>1, <2>2, <2>3
<1>3. Aggressors = As("aggressor", {InVictimBank(row) : row \in rows})
  <2>1. {InVictimBank(row) : row \in rows} = {InVictimBank(up), InVictimBank(down)} OBVIOUS
  <2> QED BY <2>1 DEF Aggressors
<1>4. rows \subseteq 0..row_count - 1 BY <1>1
<1>5. IsFiniteSet(Aggressors) /\ Cardinality(Aggressors) = 2
  <2> HIDE DEF rows
  <2> QED BY <1>2, <1>3, <1>4, VictimSlotsCount
<1>6. ASSUME NEW c \in Aggressors
      PROVE  /\ c = [addr |-> c.addr, role |-> "aggressor"] /\ c.role = "aggressor"
             /\ RowOf(c) \in rows /\ c.addr = InVictimBank(RowOf(c))
             /\ Chosen(c)
  <2>1. PICK row \in rows : c = [addr |-> InVictimBank(row), role |-> "aggressor"] BY <1>3 DEF As
  <2>2. c.addr = InVictimBank(row) /\ c.role = "aggressor" /\ c = [addr |-> c.addr, role |-> "aggressor"]
        /\ c = [addr |-> c.addr, role |-> c.role]
    BY <2>1
  <2>3. row \in 0..row_count - 1 BY <1>4
  <2>4. RowOf(c) = row /\ c.addr \in Slots(row) BY <2>2, <2>3, VictimSlots DEF RowOf
  <2> QED BY <2>2, <2>3, <2>4 DEF Chosen
<1> QED BY <1>5, <1>6

(* A far row's slot in the victim's bank is a candidate of that role.        *)
LEMMA FarIsChosen ==
  ASSUME Playing, NEW row \in far_pool, NEW c, c = [addr |-> InVictimBank(row), role |-> "same_bank_far"]
  PROVE  Chosen(c) /\ c.role = "same_bank_far"
<1>1. row \in 0..row_count - 1 /\ Distance(row) > FAR_ROW_MARGIN BY DEF far_pool
<1>2. c.addr = InVictimBank(row) /\ c.role = "same_bank_far" /\ c = [addr |-> c.addr, role |-> c.role] OBVIOUS
<1>3. RowOf(c) = row /\ c.addr \in Slots(row) /\ Bank(c.addr) = victim_bank BY <1>1, <1>2, VictimSlots DEF RowOf
<1> QED BY <1>1, <1>2, <1>3 DEF Chosen

(* Any other slot of a row is a candidate of another bank.                   *)
LEMMA OtherIsChosen ==
  ASSUME Playing, NEW row \in 0..row_count - 1, NEW addr \in Others(row),
         NEW c, c = [addr |-> addr, role |-> "different_bank"]
  PROVE  Chosen(c) /\ c.role = "different_bank" /\ RowOf(c) = row
<1>1. addr \in Slots(row) /\ Bank(addr) # victim_bank BY DEF Others
<1>2. c.addr = addr /\ c.role = "different_bank" /\ c = [addr |-> c.addr, role |-> c.role] OBVIOUS
<1>3. RowOf(c) = row BY <1>1, <1>2, VictimSlots DEF RowOf
<1> QED BY <1>1, <1>2, <1>3 DEF Chosen

(* A candidate's address tells its role.                                      *)
LEMMA AddressTellsRole ==
  ASSUME Playing, NEW c, NEW d, Chosen(c), Chosen(d), c.addr = d.addr
  PROVE  c = d
<1>1. ASSUME NEW e, Chosen(e)
      PROVE  /\ e \in Aggressors => e.role = "aggressor" /\ Bank(e.addr) = victim_bank
                                    /\ Distance(RowOf(e)) <= FAR_ROW_MARGIN
             /\ e = [addr |-> e.addr, role |-> e.role]
  <2>1. ASSUME e \in Aggressors
        PROVE  e.role = "aggressor" /\ Bank(e.addr) = victim_bank /\ Distance(RowOf(e)) <= FAR_ROW_MARGIN
    <3>1. e.role = "aggressor" /\ RowOf(e) \in {target_row - 1, target_row + 1} /\ e.addr = InVictimBank(RowOf(e))
      BY <2>1, AggressorsAre
    <3>2. RowOf(e) \in 0..row_count - 1 BY <1>1 DEF Chosen
    <3>3. Bank(e.addr) = victim_bank BY <3>1, <3>2, VictimSlots
    <3>4. Distance(RowOf(e)) = 1 BY <3>1, Numbers DEF Distance
    <3>5. 1 <= FAR_ROW_MARGIN BY Numbers
    <3> QED BY <3>1, <3>3, <3>4, <3>5
  <2> QED BY <1>1, <2>1 DEF Chosen
<1>2. RowOf(c) = RowOf(d) BY DEF RowOf
<1>3. Distance(RowOf(c)) \in Int /\ FAR_ROW_MARGIN \in Int
  <2>1. RowOf(c) \in Int /\ target_row \in Int BY Numbers DEF Chosen
  <2> QED BY <2>1, Numbers DEF Distance
<1>4. c.role = d.role
  <2>1. \/ c.role = "aggressor" /\ Bank(c.addr) = victim_bank /\ Distance(RowOf(c)) <= FAR_ROW_MARGIN
        \/ c.role = "same_bank_far" /\ Bank(c.addr) = victim_bank /\ Distance(RowOf(c)) > FAR_ROW_MARGIN
        \/ c.role = "different_bank" /\ Bank(c.addr) # victim_bank
    BY <1>1 DEF Chosen
  <2>2. \/ d.role = "aggressor" /\ Bank(d.addr) = victim_bank /\ Distance(RowOf(d)) <= FAR_ROW_MARGIN
        \/ d.role = "same_bank_far" /\ Bank(d.addr) = victim_bank /\ Distance(RowOf(d)) > FAR_ROW_MARGIN
        \/ d.role = "different_bank" /\ Bank(d.addr) # victim_bank
    BY <1>1 DEF Chosen
  <2> QED BY <1>2, <1>3, <2>1, <2>2
<1> QED BY <1>1, <1>4

(* A full window of such candidates tells the truth.                          *)
LEMMA FullWindow ==
  ASSUME Playing, Aggressors \subseteq cands, \A c \in cands : Chosen(c), IsFiniteSet(cands),
         Cardinality(cands) = n_decoy + 2
  PROVE  WindowIsTrue
<1> DEFINE addrs == {c.addr : c \in cands}
<1>1. IsFiniteSet(addrs) /\ Cardinality(addrs) = Cardinality(cands)
  <2> DEFINE f == [c \in cands |-> c.addr]
  <2>1. f \in [cands -> addrs] OBVIOUS
  <2>2. \A c, d \in cands : f[c] = f[d] => c = d BY AddressTellsRole
  <2>3. \A a \in addrs : \E c \in cands : f[c] = a OBVIOUS
  <2> HIDE DEF f, addrs
  <2> QED BY <2>1, <2>2, <2>3, ImageCount
<1>2. Cardinality(addrs) = BAND_CANDIDATES[spec.difficulty] BY <1>1, Numbers
<1>3. ASSUME NEW c \in cands
      PROVE  /\ Neighbour(c.addr) <=> c \in Aggressors
             /\ c \in Aggressors <=> c.role = "aggressor"
             /\ c.role = "different_bank" <=> Bank(c.addr) # victim_bank
             /\ c.addr # target_addr
  <2>1. Chosen(c) /\ RowOf(c) \in 0..row_count - 1 /\ c.addr \in Slots(RowOf(c)) BY DEF Chosen
  <2>2. FAR_ROW_MARGIN \in Nat \ {0} /\ target_row \in Nat /\ RowOf(c) \in Int
    BY <2>1, Numbers
  <2>3. target_row \in 0..row_count - 1 /\ Scattered BY Numbers DEF Playing
  <2>4. Decoded(target_addr)["row"] = target_row /\ Bank(target_addr) = victim_bank
    BY <2>3, TargetIs, SlotsAre DEF victim_bank
  <2>5. Decoded(c.addr)["row"] = RowOf(c) BY DEF RowOf
  <2>6. CASE c \in Aggressors
    <3>1. c.role = "aggressor" /\ RowOf(c) \in {target_row - 1, target_row + 1} /\ c.addr = InVictimBank(RowOf(c))
      BY <2>6, AggressorsAre
    <3>2. Bank(c.addr) = victim_bank BY <2>1, <3>1, VictimSlots
    <3>3. Distance(RowOf(c)) = 1 /\ RowOf(c) # target_row BY <2>2, <3>1 DEF Distance
    <3> QED BY <2>4, <2>5, <2>6, <3>1, <3>2, <3>3 DEF Neighbour
  <2>7. CASE c.role = "same_bank_far" /\ Bank(c.addr) = victim_bank /\ Distance(RowOf(c)) > FAR_ROW_MARGIN
    <3>1. c \notin Aggressors BY <2>7, AggressorsAre
    <3>2. RowOf(c) # target_row /\ Distance(RowOf(c)) # 1 BY <2>2, <2>7 DEF Distance
    <3> QED BY <2>4, <2>5, <2>7, <3>1, <3>2 DEF Neighbour
  <2>8. CASE c.role = "different_bank" /\ Bank(c.addr) # victim_bank
    <3>1. c \notin Aggressors BY <2>8, AggressorsAre
    <3> QED BY <2>4, <2>8, <3>1 DEF Neighbour
  <2> QED BY <2>1, <2>6, <2>7, <2>8 DEF Chosen
<1>4. Cardinality({a \in addrs : Neighbour(a)}) = 2
  <2> DEFINE near == {a \in addrs : Neighbour(a)}
             f == [c \in Aggressors |-> c.addr]
  <2>1. f \in [Aggressors -> near] BY <1>3
  <2>2. \A c, d \in Aggressors : f[c] = f[d] => c = d BY AddressTellsRole
  <2>3. \A a \in near : \E c \in Aggressors : f[c] = a
    <3> SUFFICES ASSUME NEW a \in near PROVE \E c \in Aggressors : f[c] = a OBVIOUS
    <3>1. PICK c \in cands : c.addr = a OBVIOUS
    <3>2. c \in Aggressors BY <1>3, <3>1
    <3> QED BY <3>1, <3>2
  <2>4. IsFiniteSet(Aggressors) /\ Cardinality(Aggressors) = 2 BY AggressorsAre
  <2> HIDE DEF f, near
  <2>5. Cardinality(near) = 2 BY <2>1, <2>2, <2>3, <2>4, ImageCount
  <2> QED BY <2>5 DEF near
<1>5. ~Neighbour(target_addr + row_bytes) /\ ~Neighbour(target_addr - row_bytes)
  <2>1. target_row \in Nat /\ target_row - 1 \in 0..row_count - 1 /\ target_row + 1 \in 0..row_count - 1
        /\ target_row \in 0..row_count - 1
    BY Numbers
  <2>2. row_bytes \in Nat /\ 2^shift_of("bankgroup") \in Nat /\ 2^shift_of("bank") \in Nat
    <3>1. mapper.shifts["row"] \in Nat /\ row_bytes = 2^mapper.shifts["row"]
          /\ shift_of("bankgroup") \in Nat /\ shift_of("bank") \in Nat
      BY DEF Playing, Scattered, Layout, row_bytes, shift_of
    <3> QED BY <3>1, PowerIsPositive
  <2>3. target_addr + row_bytes = Slot(target_row + 1, 0, 0) /\ target_addr - row_bytes = Slot(target_row - 1, 0, 0)
    <3>1. (target_row + 1) * row_bytes = target_row * row_bytes + row_bytes
          /\ (target_row - 1) * row_bytes = target_row * row_bytes - row_bytes
          /\ target_row * row_bytes \in Nat
      BY <2>1, <2>2
    <3> QED BY <2>2, <3>1 DEF Slot, target_addr
  <2>4. Bank(target_addr + row_bytes) # victim_bank /\ Bank(target_addr - row_bytes) # victim_bank
    BY <2>1, <2>3, StrideLeavesBank DEF Playing
  <2> QED BY <2>4 DEF Neighbour
<1> QED BY <1>1, <1>2, <1>3, <1>4, <1>5 DEF WindowIsTrue

(* The task a reset has accepted is the one it was given, parsed and admitted;  *)
(* a secret mapper runs only for a family that asks for one.                  *)
Compiling == phase \notin {"config", "refused"}
AdmittedInv ==
  /\ info \in Infos
  /\ phase \in {"config", "worker"} => active = Public
  /\ Compiling => Admits(config) /\ spec = Parsed(config)
  /\ Compiling /\ active # Public => fam.secret

(* What is admitted of a secret family names no physical address.             *)
LEMMA SecretIsLogical ==
  ASSUME AdmittedInv, Compiling, fam.secret
  PROVE  spec.disclosure.mapping = "logical_only" /\ spec.disclosure.victim # "exact"
<1>1. Admits(config) /\ spec = Parsed(config) BY DEF AdmittedInv
<1>2. spec.family = family_of(config) /\ spec.disclosure = disclosure_of(config) BY <1>1 DEF Parsed
<1>3. validate_family_disclosure(FAMILIES[family_of(config)], disclosure_of(config)) BY <1>1 DEF Admits
<1> QED BY <1>2, <1>3 DEF validate_family_disclosure, fam

(* A logical-only disclosure lets no coordinate through.                      *)
LEMMA LogicalHidesCoordinates ==
  ASSUME NEW d, d.mapping = "logical_only"
  PROVE  allowed_forms(d) \subseteq {"logical", "handle"} /\ ~expose_coords(d)
<1>1. direct_forms(d) = {"logical"} BY DEF direct_forms
<1> QED BY <1>1 DEF allowed_forms, expose_coords

(* Without coordinates, what is traced are a command's own keys.              *)
LEMMA TraceHidesLevels ==
  ASSUME AdmittedInv, NEW d, ~expose_coords(d)
  PROVE  project_trace(d, PUBLIC_EVENT_KEYS \cup Levels) \cap Levels = {}
<1>1. Levels \cap PUBLIC_EVENT_KEYS = {} BY InfoAssumption DEF AdmittedInv, Levels
<1>2. project_trace(d, PUBLIC_EVENT_KEYS \cup Levels) \subseteq PUBLIC_EVENT_KEYS BY DEF project_trace
<1> QED BY <1>1, <1>2

-----------------------------------------------------------------------------
(* Every step keeps the invariant.                                          *)

(* A worker that starts, under the mapper its family asks for, keeps it.       *)
LEMMA StartKeeps ==
  ASSUME AdmittedInv, NEW choice, StartWorker(choice), choice # Public => fam.secret
  PROVE  AdmittedInv'
<1>1. phase = "worker" /\ phase' \in {"target", "refused"} /\ active' = choice /\ config' = config /\ info' = info
      /\ spec' = spec
  BY DEF StartWorker
<1>2. Admits(config)' = Admits(config) /\ Parsed(config)' = Parsed(config)
  BY <1>1 DEF Admits, Parsed
<1>3. fam' = fam BY <1>1 DEF fam
<1> QED BY <1>1, <1>2, <1>3 DEF AdmittedInv, Compiling

(* A step that leaves the task and the mapper alone keeps it.                 *)
LEMMA LaterKeeps ==
  ASSUME AdmittedInv, Compiling, phase # "worker", phase' \notin {"config", "worker", "refused"},
         UNCHANGED <<config, info, spec, active>>
  PROVE  AdmittedInv'
<1>1. config' = config /\ info' = info /\ spec' = spec /\ active' = active OBVIOUS
<1>2. Admits(config)' = Admits(config) /\ Parsed(config)' = Parsed(config) BY <1>1
<1>3. fam' = fam BY <1>1 DEF fam
<1> QED BY <1>1, <1>2, <1>3 DEF AdmittedInv, Compiling

(* The invariant holds throughout a reset.                                   *)
THEOREM Admitted == Spec => []AdmittedInv
<1>1. Init => AdmittedInv BY DEF Init, AdmittedInv, Compiling
<1>2. AdmittedInv /\ [Next]_vars => AdmittedInv'
  <2> SUFFICES ASSUME AdmittedInv, [Next]_vars PROVE AdmittedInv' OBVIOUS
  <2>1. CASE Parse
    <3>1. phase' = "worker" /\ Admits(config) /\ spec' = Parsed(config) /\ config' = config /\ info' = info
          /\ active' = active /\ phase = "config"
      BY <2>1 DEF Parse
    <3> QED BY <3>1 DEF AdmittedInv, Compiling
  <2>2. CASE Reject BY <2>2 DEF Reject, AdmittedInv, Compiling
  <2>3. CASE StartPublic BY <2>3, StartKeeps DEF StartPublic
  <2>4. CASE select_secret_mapper BY <2>4, StartKeeps DEF select_secret_mapper
  <2>5. CASE SampleTarget BY <2>5, LaterKeeps DEF SampleTarget, Compiling
  <2>6. CASE SweepNear BY <2>6, LaterKeeps DEF SweepNear, Compiling
  <2>7. CASE NumericNear BY <2>7, LaterKeeps DEF NumericNear, Compiling
  <2>8. CASE FarSameBank BY <2>8, LaterKeeps DEF FarSameBank, Compiling
  <2>9. CASE DifferentBank BY <2>9, LaterKeeps DEF DifferentBank, Compiling
  <2>10. CASE Register BY <2>10, LaterKeeps DEF Register, Compiling
  <2>11. CASE UNCHANGED vars
    <3>1. config' = config /\ info' = info /\ spec' = spec /\ active' = active /\ phase' = phase
      BY <2>11 DEF vars
    <3>2. Admits(config)' = Admits(config) /\ Parsed(config)' = Parsed(config) BY <3>1
    <3>3. fam' = fam BY <3>1 DEF fam
    <3> QED BY <3>1, <3>2, <3>3 DEF AdmittedInv, Compiling
  <2> QED BY <2>1, <2>2, <2>3, <2>4, <2>5, <2>6, <2>7, <2>8, <2>9, <2>10, <2>11 DEF Next, Over
<1> QED BY <1>1, <1>2, PTL DEF Spec

(* Under a secret mapper nothing that reaches the policy holds a coordinate,   *)
(* whatever the configuration overrides, and a traced command never holds one  *)
(* that the disclosure withholds (_validate_family_disclosure,                *)
(* Disclosure.project_trace, project_feedback, _public_disturbance).           *)
THEOREM SecretIsKept == Spec => []SecretStaysHidden
<1>1. AdmittedInv => SecretStaysHidden
  <2> SUFFICES ASSUME AdmittedInv, phase = "live"
               PROVE  LET traced == project_trace(spec.disclosure, PUBLIC_EVENT_KEYS \cup Levels)
                          told == project_feedback(spec.disclosure, {"trace_tail", "public_flips", "new_public_flips",
                                                                     "oracle_refreshes"})
                      IN /\ ~expose_coords(spec.disclosure) => traced \cap Levels = {} /\ "public_flips" \notin told
                         /\ active # Public =>
                              /\ allowed_forms(spec.disclosure) \subseteq {"logical", "handle"}
                              /\ traced \cap Levels = {}
                              /\ ~PublishesCoordinates /\ ~PublishesTargetRow
    BY DEF SecretStaysHidden
  <2> DEFINE d == spec.disclosure
             traced == project_trace(d, PUBLIC_EVENT_KEYS \cup Levels)
             told == project_feedback(d, {"trace_tail", "public_flips", "new_public_flips", "oracle_refreshes"})
  <2>1. ~expose_coords(d) => traced \cap Levels = {} BY TraceHidesLevels
  <2>2. ~expose_coords(d) => "public_flips" \notin told BY DEF project_feedback
  <2>3. ASSUME active # Public
        PROVE  /\ allowed_forms(d) \subseteq {"logical", "handle"} /\ traced \cap Levels = {}
               /\ ~PublishesCoordinates /\ ~PublishesTargetRow
    <3>1. Compiling BY DEF Compiling
    <3>2. fam.secret BY <2>3, <3>1 DEF AdmittedInv
    <3>3. d.mapping = "logical_only" /\ d.victim # "exact" BY <3>1, <3>2, SecretIsLogical
    <3>4. allowed_forms(d) \subseteq {"logical", "handle"} /\ ~expose_coords(d) BY <3>3, LogicalHidesCoordinates
    <3> QED BY <2>1, <3>3, <3>4 DEF PublishesCoordinates, PublishesTargetRow, expose_victim
  <2> QED BY <2>1, <2>2, <2>3
<1> QED BY <1>1, Admitted, PTL

-----------------------------------------------------------------------------
(* The walk over the rows of the other banks.                                 *)

(* The remainder of a number that went round at most once.                   *)
LEMMA Around ==
  ASSUME NEW R \in Nat, NEW x \in Nat, x < 2 * R
  PROVE  x % R = IF x < R THEN x ELSE x - R
<1>1. R \in Nat \ {0} OBVIOUS
<1>2. CASE x < R
  <2>1. x \in 0..R - 1 BY <1>2
  <2> QED BY <1>1, <1>2, <2>1, SmallRest
<1>3. CASE ~(x < R)
  <2> DEFINE rest == x - R
  <2>1. rest \in 0..R - 1 /\ x = 1 * R + rest BY <1>3
  <2> HIDE DEF rest
  <2>2. (1 * R + rest) % R = rest BY <1>1, <2>1, Quotient
  <2> QED BY <1>3, <2>1, <2>2 DEF rest
<1> QED BY <1>2, <1>3

(* A step of the walk that does not come round moves on, and stays away      *)
(* from the target.                                                          *)
LEMMA Advance ==
  ASSUME Playing, NEW row \in 0..row_count - 1, Offset(row) + 2 * FAR_ROW_MARGIN + 1 < row_count
  PROVE  LET next == (row + FAR_ROW_MARGIN + 1) % row_count
         IN /\ next \in 0..row_count - 1 /\ Offset(next) = Offset(row) + FAR_ROW_MARGIN + 1
            /\ Distance(next) > FAR_ROW_MARGIN
<1> DEFINE F == FAR_ROW_MARGIN
           R == row_count
           t == target_row
           x == row + F + 1
<1>1. R \in Nat /\ F \in Nat \ {0} /\ t \in 0..R - 1 /\ row \in 0..R - 1 BY Numbers
<1>2. Offset(row) = IF row >= t THEN row - t ELSE row - t + R BY DEF Offset
<1>3. Offset(row) + 2 * F + 1 < R OBVIOUS
<1>4. \A n : Offset(n) = IF n >= t THEN n - t ELSE n - t + R BY DEF Offset
<1>5. \A n : Distance(n) = IF n > t THEN n - t ELSE t - n BY DEF Distance
<1> HIDE DEF F, R, t
<1>6. x \in Nat /\ x < 2 * R BY <1>1, <1>2, <1>3
<1>7. x % R = IF x < R THEN x ELSE x - R
  <2> HIDE DEF x
  <2> QED BY <1>1, <1>6, Around
<1>8. x % R \in 0..R - 1 /\ Offset(x % R) = Offset(row) + F + 1 /\ Distance(x % R) > F
  <2>1. CASE x < R
    <3>1. x % R = x BY <1>7, <2>1
    <3>2. Offset(x) = Offset(row) + F + 1 BY <1>1, <1>2, <1>3, <1>4, <2>1
    <3>3. Distance(x) > F BY <1>1, <1>2, <1>3, <1>5, <2>1
    <3> QED BY <1>6, <2>1, <3>1, <3>2, <3>3, <1>1
  <2>2. CASE ~(x < R)
    <3>1. x % R = x - R BY <1>7, <2>2
    <3>2. Offset(x - R) = Offset(row) + F + 1 BY <1>1, <1>2, <1>3, <1>4, <2>2
    <3>3. Distance(x - R) > F BY <1>1, <1>2, <1>3, <1>5, <2>2
    <3> QED BY <1>1, <1>6, <2>2, <3>1, <3>2, <3>3
  <2> QED BY <2>1, <2>2
<1> QED BY <1>8 DEF F, R

-----------------------------------------------------------------------------
(* The invariant.                                                           *)

Started == phase \notin {"config", "worker", "refused"}
Sampled == phase \in {"near", "far", "different", "live"}
Windowed == phase \in {"far", "different", "live"} /\ fam.secret

(* The mapper is the one of the worker's device.                             *)
StartedInv ==
  Started => /\ Sound(info) /\ mapper = AddressMapper(info)
             /\ active # Public => MapperStarts(mapper, active)
             /\ fam.secret => active # Public

(* Every target has a row below it and two above.                             *)
TargetInv == Sampled => target_row \in 0..row_count - 1 /\ target_row \in 1..row_count - 3

EmptyInv ==
  /\ phase \in {"config", "worker", "target", "near", "refused"} \/ ~fam.secret =>
       cands = {} /\ need = [far |-> 0, diff |-> 0] /\ made = 0
  /\ phase \in {"near", "far"} => fam.secret
  /\ phase = "live" => made = need.diff

(* A window is the two aggressors and decoys, and what it still wants.         *)
Begun ==
  /\ Aggressors \subseteq cands /\ \A c \in cands : Chosen(c)
  /\ IsFiniteSet(cands) /\ need.far \in 0..Half /\ need.diff \in 0..Half /\ made \in 0..need.diff

(* Before the far decoys, those of other banks are next to the target.         *)
NearInv ==
  /\ made = 0 /\ Cardinality(cands) + need.far + need.diff = n_decoy + 2
  /\ \A c \in cands : c.role = "different_bank" => Offset(RowOf(c)) \in {1, row_count - 1}
  /\ \A c \in cands : c.role # "same_bank_far"

(* After them, every row the walk comes to is a new one.                       *)
WalkInv ==
  /\ Cardinality(cands) + need.diff - made = n_decoy + 2
  /\ phase = "different" /\ made < need.diff =>
       /\ r \in 0..row_count - 1
       /\ \E k \in 0..made : made = k * (n_banks - 1) /\ Offset(r) = (k + 1) * (FAR_ROW_MARGIN + 1)
       /\ \A c \in cands : c.role = "different_bank" => Offset(RowOf(c)) < Offset(r) \/ Offset(RowOf(c)) = row_count - 1

WindowInv == Windowed => Begun /\ (phase = "far" => NearInv) /\ (phase # "far" => WalkInv)

Phases == {"config", "worker", "target", "near", "far", "different", "live", "refused"}

(* With a secret family the mapper is one the lemmas are about.               *)
LEMMA Plays ==
  ASSUME AdmittedInv, StartedInv, active \in SecretOffsets \cup {Public}, Started, fam.secret,
         target_row \in 1..row_count - 3
  PROVE  Playing
<1>1. Sound(info) /\ info \in Infos /\ mapper = AddressMapper(info) /\ MapperStarts(mapper, active) /\ active \in Nat
  BY MarginsAssumption DEF StartedInv, AdmittedInv
<1>2. Layout(mapper) BY <1>1, LayoutIs
<1>3. "bank" \in Fields(mapper) /\ mapper.widths["bank"] > 0 BY <1>1 DEF MapperStarts
<1>4. \A f \in {"bank", "bankgroup"} \cap Fields(mapper) : XorOver(0..2^mapper.widths[f] - 1)
  <2> DEFINE n == AddrBits(mapper)
  <2>1. XorOn(n) BY <1>1, XorAssumption
  <2>2. Placed(mapper, n) BY <1>1, LayoutIs, PlacedIs
  <2>3. n \in Nat /\ \A f \in Fields(mapper) : mapper.widths[f] \in 0..n BY <2>2 DEF Placed
  <2> HIDE DEF n
  <2> QED BY <2>1, <2>3, XorIsOver
<1>5. HasRoom(mapper) BY <1>1, RoomAssumption
<1>6. spec.difficulty \in DOMAIN BAND_CANDIDATES
  <2>1. Admits(config) /\ spec = Parsed(config) BY DEF AdmittedInv, Compiling, Started
  <2>2. spec.difficulty = difficulty_of(config) BY <2>1 DEF Parsed
  <2> QED BY <2>1, <2>2 DEF Admits
<1> QED BY <1>1, <1>2, <1>3, <1>4, <1>5, <1>6 DEF Playing, Scattered

(* The secret families have a known target.                                   *)
LEMMA SecretIsKnown ==
  ASSUME NEW family \in DOMAIN FAMILIES
  PROVE  /\ FAMILIES[family].secret \in BOOLEAN
         /\ FAMILIES[family].secret => FAMILIES[family].kind = "known"
<1>1. /\ DOMAIN FAMILIES = {"known_target_anybit", "target_row", "target_cell", "pattern_target", "mitigation_aware",
                            "any_flip", "hidden_target", "hidden_adjacency", "unknown_adjacency", "bounded_sweep",
                            "low_disclosure", "profile_generalization"}
  BY DEF FAMILIES
<1>2. \A o, m, a, v, f, k : Family(o, m, a, v, f, k, FALSE).secret = FALSE BY DEF Family
<1>3. \A o, k : Exact(o, k).secret = FALSE BY <1>2 DEF Exact
<1>4. \A o, m, a, v, f, k : FamilyOnly(Family(o, m, a, v, f, k, FALSE)).secret = FALSE BY DEF FamilyOnly, Family
<1>5. CASE family \in {"known_target_anybit", "target_row", "target_cell", "pattern_target", "mitigation_aware"}
  <2>1. \E o, k : FAMILIES[family] = Exact(o, k) BY <1>5 DEF FAMILIES
  <2> QED BY <1>3, <2>1
<1>6. /\ FAMILIES["any_flip"].secret = FALSE /\ FAMILIES["hidden_target"].secret = FALSE
      /\ FAMILIES["unknown_adjacency"].secret = FALSE
  BY <1>2 DEF FAMILIES
<1>7. FAMILIES["low_disclosure"].secret = FALSE /\ FAMILIES["profile_generalization"].secret = FALSE BY <1>4 DEF FAMILIES
<1>8. FAMILIES["hidden_adjacency"].secret = TRUE /\ FAMILIES["hidden_adjacency"].kind = "known"
  <2>1. FAMILIES["hidden_adjacency"] = Family("target_row_flip", "logical_only", "candidate_set", "logical_addr", "full_trace",
                                              "known", TRUE)
    BY DEF FAMILIES
  <2> QED BY <2>1 DEF Family
<1>9. FAMILIES["bounded_sweep"].secret = TRUE /\ FAMILIES["bounded_sweep"].kind = "known"
  <2>1. FAMILIES["bounded_sweep"] = Family("target_row_flip", "logical_only", "candidate_set", "row_handle", "full_trace",
                                           "known", TRUE)
    BY DEF FAMILIES
  <2> QED BY <2>1 DEF Family
<1> QED BY <1>1, <1>5, <1>6, <1>7, <1>8, <1>9

(* A step that leaves the device and the target alone leaves what a candidate  *)
(* is alone.                                                                *)
LEMMA SameWindow ==
  ASSUME spec' = spec, mapper' = mapper, active' = active, target_row' = target_row, NEW c, NEW row
  PROVE  /\ Aggressors' = Aggressors /\ Chosen(c)' = Chosen(c)
         /\ Offset(row)' = Offset(row) /\ Offset(RowOf(c))' = Offset(RowOf(c))
         /\ n_decoy' = n_decoy /\ Half' = Half /\ n_banks' = n_banks /\ row_count' = row_count /\ fam' = fam
<1>1. row_count' = row_count /\ row_bytes' = row_bytes BY DEF row_count, row_bytes
<1>2. Aggressors' = Aggressors
  BY DEF Aggressors, InVictimBank, Slots, Bank, victim_bank, Decoded, target_addr, row_bytes, shift_of
<1>3. RowOf(c)' = RowOf(c) BY DEF RowOf, Decoded
<1>4. Slots(RowOf(c))' = Slots(RowOf(c)) BY <1>3 DEF Slots, row_bytes, shift_of
<1>5. Bank(c.addr)' = Bank(c.addr) /\ victim_bank' = victim_bank BY DEF Bank, Decoded, victim_bank, target_addr, row_bytes
<1>6. Distance(RowOf(c))' = Distance(RowOf(c)) BY <1>3 DEF Distance
<1>7. Chosen(c)' = Chosen(c) BY <1>1, <1>2, <1>3, <1>4, <1>5, <1>6 DEF Chosen
<1>8. Offset(row)' = Offset(row) BY <1>1 DEF Offset
<1>9. n_decoy' = n_decoy /\ n_banks' = n_banks /\ fam' = fam BY DEF n_decoy, n_banks, fam
<1>10. Half' = Half BY <1>9 DEF Half
<1>11. Offset(RowOf(c))' = Offset(RowOf(c)) BY <1>1, <1>3 DEF Offset
<1> QED BY <1>1, <1>2, <1>7, <1>8, <1>9, <1>10, <1>11

-----------------------------------------------------------------------------
(* The steps that choose candidates.                                        *)

(* What a rest is split into is no more than half of the decoys.             *)
LEMMA Halves ==
  ASSUME NEW n \in Nat, NEW rest \in 0..n
  PROVE  rest \div 2 \in 0..(n + 1) \div 2 /\ rest - rest \div 2 \in 0..(n + 1) \div 2
         /\ rest \div 2 + (rest - rest \div 2) = rest
OBVIOUS

(* The sweep begins a window with the two aggressors and the banks next      *)
(* to the target.                                                            *)
LEMMA NearSweep ==
  ASSUME Playing, EmptyInv, SweepNear
  PROVE  Begun' /\ NearInv'
<1> DEFINE n == n_decoy
           diff == n \div 2
<1>1. /\ phase = "near" /\ cands' = Aggressors /\ phase' = "far" /\ made' = made
      /\ spec' = spec /\ mapper' = mapper /\ active' = active /\ target_row' = target_row
  BY DEF SweepNear
<1>2. n \in Nat /\ Half = (n + 1) \div 2 /\ n_banks > 1 BY Numbers DEF Half
<1>3. need' = [far |-> n - diff, diff |-> diff] BY <1>2 DEF SweepNear
<1>4. made = 0 BY <1>1 DEF EmptyInv
<1>5. Aggressors' = Aggressors /\ n_decoy' = n_decoy /\ Half' = Half BY <1>1, SameWindow
<1>6. \A c : Chosen(c)' = Chosen(c) BY <1>1, SameWindow
<1> HIDE DEF n
<1>7. n - diff \in 0..Half /\ diff \in 0..Half /\ n - diff + diff = n BY <1>2
<1> HIDE DEF diff
<1>8. need'.far = n - diff /\ need'.diff = diff BY <1>3
<1>9. IsFiniteSet(Aggressors) /\ Cardinality(Aggressors) = 2 BY AggressorsAre
<1>10. \A c \in Aggressors : Chosen(c) /\ c.role = "aggressor" BY AggressorsAre
<1>11. Begun'
  <2>1. Aggressors' \subseteq cands' BY <1>1, <1>5
  <2>2. \A c \in cands' : Chosen(c)' BY <1>1, <1>6, <1>10
  <2>3. IsFiniteSet(cands') /\ made' = 0 BY <1>1, <1>4, <1>9
  <2>4. need'.far \in 0..Half' /\ need'.diff \in 0..Half' /\ made' \in 0..need'.diff BY <1>5, <1>7, <1>8, <2>3
  <2> QED BY <2>1, <2>2, <2>3, <2>4 DEF Begun
<1>12. NearInv'
  <2>1. made' = 0 BY <1>1, <1>4
  <2>2. Cardinality(cands') + need'.far + need'.diff = n_decoy' + 2 BY <1>1, <1>2, <1>5, <1>7, <1>8, <1>9 DEF n, diff
  <2>3. \A c \in cands' : c.role = "aggressor" BY <1>1, <1>10
  <2> QED BY <2>1, <2>2, <2>3 DEF NearInv
<1> QED BY <1>11, <1>12

(* The other banks of a row hold no aggressor.                               *)
LEMMA OthersCount ==
  ASSUME Playing, NEW addrs, IsFiniteSet(addrs), NEW rows \in SUBSET (0..row_count - 1),
         \A addr \in addrs : \E row \in rows : addr \in Others(row)
  PROVE  LET marked == As("different_bank", addrs)
         IN /\ IsFiniteSet(marked) /\ Cardinality(marked) = Cardinality(addrs)
            /\ \A c \in marked : Chosen(c) /\ c.role = "different_bank" /\ RowOf(c) \in rows
<1> DEFINE marked == As("different_bank", addrs)
<1>1. IsFiniteSet(marked) /\ Cardinality(marked) = Cardinality(addrs) BY AsCount
<1>2. ASSUME NEW c \in marked PROVE Chosen(c) /\ c.role = "different_bank" /\ RowOf(c) \in rows
  <2>1. PICK addr \in addrs : c = [addr |-> addr, role |-> "different_bank"] BY DEF As
  <2>2. PICK row \in rows : addr \in Others(row) BY <2>1
  <2>3. row \in 0..row_count - 1 BY <2>2
  <2> QED BY <2>1, <2>2, <2>3, OtherIsChosen
<1> QED BY <1>1, <1>2

(* So does the numeric window.                                               *)
LEMMA NearNumeric ==
  ASSUME Playing, EmptyInv, NumericNear
  PROVE  Begun' /\ NearInv'
<1> DEFINE n == n_decoy
           shell == Least(n, 2 * (n_banks - 1))
           rest == n - shell
           far == rest \div 2
           up == target_row + 1
           down == target_row - 1
           R == row_count
<1>1. /\ phase = "near" /\ phase' = "far" /\ made' = made
      /\ spec' = spec /\ mapper' = mapper /\ active' = active /\ target_row' = target_row
  BY DEF NumericNear
<1>2. n \in Nat /\ Half = (n + 1) \div 2 /\ n_banks \in Nat /\ n_banks > 1 BY Numbers DEF Half
<1>3. need' = [far |-> far, diff |-> rest - far] BY <1>2 DEF NumericNear
<1>4. PICK below \in kSubset((shell + 1) \div 2, Others(down)), above \in kSubset(shell \div 2, Others(up)) :
        cands' = Aggressors \cup As("different_bank", below \cup above)
  BY <1>2 DEF NumericNear
<1>5. made = 0 BY <1>1 DEF EmptyInv
<1>6. Aggressors' = Aggressors /\ n_decoy' = n_decoy /\ Half' = Half /\ row_count' = row_count BY <1>1, SameWindow
<1>7. \A c : Chosen(c)' = Chosen(c) /\ Offset(RowOf(c))' = Offset(RowOf(c))
  BY <1>1, SameWindow
<1>8. down \in 0..R - 1 /\ up \in 0..R - 1 /\ up # down /\ target_row \in Nat BY Numbers
<1>9. /\ IsFiniteSet(Others(down)) /\ IsFiniteSet(Others(up))
      /\ \A addr \in Others(down) : Decoded(addr)["row"] = down
      /\ \A addr \in Others(up) : Decoded(addr)["row"] = up
  BY <1>8, VictimSlots DEF Others
<1>10. Offset(down) = R - 1 /\ Offset(up) = 1 BY <1>8, Numbers DEF Offset
<1> HIDE DEF n, up, down, R
<1>11. shell \in 0..n BY <1>2 DEF Least
<1> DEFINE lower == (shell + 1) \div 2
           upper == shell \div 2
<1>12. lower \in Nat /\ upper \in Nat /\ lower + upper = shell BY <1>2, <1>11
<1>13. rest \in Nat /\ far \in 0..Half /\ rest - far \in 0..Half /\ far + (rest - far) = rest /\ rest + shell = n
  <2>1. rest \in 0..n /\ rest + shell = n
    <3> HIDE DEF shell
    <3> QED BY <1>2, <1>11
  <2> HIDE DEF rest, shell
  <2> QED BY <1>2, <2>1, Halves
<1> DEFINE addrs == below \cup above
           marked == As("different_bank", addrs)
<1>14. /\ below \subseteq Others(down) /\ IsFiniteSet(below) /\ Cardinality(below) = lower
       /\ above \subseteq Others(up) /\ IsFiniteSet(above) /\ Cardinality(above) = upper
  BY <1>4, <1>9, PartIs
<1> HIDE DEF shell, rest, far, lower, upper
<1>15. IsFiniteSet(addrs) /\ Cardinality(addrs) = shell
  <2>1. below \cap above = {} BY <1>8, <1>9, <1>14
  <2> QED BY <1>12, <1>14, <2>1, ApartCount
<1>16. /\ IsFiniteSet(marked) /\ Cardinality(marked) = shell
       /\ \A c \in marked : Chosen(c) /\ c.role = "different_bank" /\ RowOf(c) \in {up, down}
  <2> DEFINE rows == {up, down}
  <2>1. rows \in SUBSET (0..row_count - 1) BY <1>8 DEF R
  <2>2. \A addr \in addrs : \E row \in rows : addr \in Others(row) BY <1>14
  <2> HIDE DEF rows, addrs
  <2>3. /\ IsFiniteSet(marked) /\ Cardinality(marked) = Cardinality(addrs)
        /\ \A c \in marked : Chosen(c) /\ c.role = "different_bank" /\ RowOf(c) \in rows
    BY <1>15, <2>1, <2>2, OthersCount
  <2> QED BY <1>15, <2>3 DEF rows
<1>17. IsFiniteSet(Aggressors) /\ Cardinality(Aggressors) = 2 /\ \A c \in Aggressors : Chosen(c) /\ c.role = "aggressor"
  BY AggressorsAre
<1>18. cands' = Aggressors \cup marked BY <1>4
<1> HIDE DEF marked, addrs
<1>19. IsFiniteSet(cands') /\ Cardinality(cands') = 2 + shell
  <2>1. Aggressors \cap marked = {} BY <1>16, <1>17
  <2> QED BY <1>16, <1>17, <1>18, <2>1, ApartCount
<1>20. need'.far = far /\ need'.diff = rest - far BY <1>3 DEF far, rest
<1>21. Begun'
  <2>1. Aggressors' \subseteq cands' BY <1>6, <1>18
  <2>2. \A c \in cands' : Chosen(c)' BY <1>7, <1>16, <1>17, <1>18
  <2>3. made' = 0 BY <1>1, <1>5
  <2>4. need'.far \in 0..Half' /\ need'.diff \in 0..Half' /\ made' \in 0..need'.diff BY <1>6, <1>13, <1>20, <2>3
  <2> QED BY <1>19, <2>1, <2>2, <2>4 DEF Begun
<1>22. NearInv'
  <2>1. made' = 0 BY <1>1, <1>5
  <2>2. Cardinality(cands') + need'.far + need'.diff = n_decoy' + 2
    <3>1. far \in Int /\ rest \in Int /\ shell \in Int /\ n \in Int BY <1>2, <1>11, <1>13
    <3>2. n_decoy' = n BY <1>6 DEF n
    <3> QED BY <1>13, <1>19, <1>20, <3>1, <3>2
  <2>3. \A c \in cands' : c.role = "different_bank" => Offset(RowOf(c))' \in {1, row_count' - 1}
    <3> SUFFICES ASSUME NEW c \in cands', c.role = "different_bank" PROVE Offset(RowOf(c))' \in {1, row_count' - 1}
      OBVIOUS
    <3>1. c \in marked BY <1>17, <1>18
    <3>2. RowOf(c) \in {up, down} BY <1>16, <3>1
    <3>3. Offset(RowOf(c))' = Offset(RowOf(c)) BY <1>7
    <3> QED BY <1>6, <1>10, <3>2, <3>3 DEF R
  <2>4. \A c \in cands' : c.role # "same_bank_far" BY <1>16, <1>17, <1>18
  <2> QED BY <2>1, <2>2, <2>3, <2>4 DEF NearInv
<1> QED BY <1>21, <1>22

(* The far decoys leave the walk at the first row beyond the margin.         *)
LEMMA FarSteps ==
  ASSUME Playing, Begun, NearInv, FarSameBank
  PROVE  Begun' /\ WalkInv'
<1> DEFINE F == FAR_ROW_MARGIN
           R == row_count
<1>1. /\ phase' = "different" /\ need' = need /\ made' = made /\ r' = FirstRow
      /\ spec' = spec /\ mapper' = mapper /\ active' = active /\ target_row' = target_row
  BY DEF FarSameBank
<1>2. PICK rows \in kSubset(Least(need.far, Cardinality(far_pool)), far_pool) :
        cands' = cands \cup As("same_bank_far", {InVictimBank(row) : row \in rows})
  BY DEF FarSameBank
<1>3. /\ made = 0 /\ Cardinality(cands) + need.far + need.diff = n_decoy + 2
      /\ need.far \in 0..Half /\ need.diff \in 0..Half /\ IsFiniteSet(cands)
      /\ Aggressors \subseteq cands /\ \A c \in cands : Chosen(c) /\ c.role # "same_bank_far"
      /\ \A c \in cands : c.role = "different_bank" => Offset(RowOf(c)) \in {1, row_count - 1}
  BY DEF Begun, NearInv
<1>4. Half \in Nat /\ n_decoy \in Nat BY Numbers
<1>5. IsFiniteSet(far_pool) /\ Least(need.far, Cardinality(far_pool)) = need.far /\ far_pool \subseteq 0..row_count - 1
  BY <1>3, <1>4, FarPoolIs DEF Least
<1>6. rows \subseteq far_pool /\ IsFiniteSet(rows) /\ Cardinality(rows) = need.far BY <1>2, <1>5, PartIs
<1> DEFINE marked == As("same_bank_far", {InVictimBank(row) : row \in rows})
<1>7. IsFiniteSet(marked) /\ Cardinality(marked) = need.far BY <1>5, <1>6, VictimSlotsCount
<1>8. \A c \in marked : Chosen(c) /\ c.role = "same_bank_far"
  <2> SUFFICES ASSUME NEW c \in marked PROVE Chosen(c) /\ c.role = "same_bank_far" OBVIOUS
  <2>1. PICK row \in rows : c = [addr |-> InVictimBank(row), role |-> "same_bank_far"] BY DEF As
  <2> QED BY <1>6, <2>1, FarIsChosen
<1>9. cands' = cands \cup marked BY <1>2
<1> HIDE DEF marked
<1>10. IsFiniteSet(cands') /\ Cardinality(cands') = Cardinality(cands) + need.far
  <2>1. cands \cap marked = {} BY <1>3, <1>8
  <2> QED BY <1>3, <1>7, <1>9, <2>1, ApartCount
<1>11. /\ Aggressors' = Aggressors /\ n_decoy' = n_decoy /\ Half' = Half /\ row_count' = row_count /\ n_banks' = n_banks
       /\ \A row : Offset(row)' = Offset(row)
       /\ \A c : Chosen(c)' = Chosen(c) /\ Offset(RowOf(c))' = Offset(RowOf(c))
  BY <1>1, SameWindow
<1>12. Begun'
  <2>1. Aggressors' \subseteq cands' BY <1>3, <1>9, <1>11
  <2>2. \A c \in cands' : Chosen(c)' BY <1>3, <1>8, <1>9, <1>11
  <2>3. need'.far \in 0..Half' /\ need'.diff \in 0..Half' /\ made' \in 0..need'.diff BY <1>1, <1>3, <1>4, <1>11
  <2> QED BY <1>10, <2>1, <2>2, <2>3 DEF Begun
<1>13. Cardinality(cands') + need'.diff - made' = n_decoy' + 2
  <2>1. Cardinality(cands) \in Nat BY <1>3, FS_CardinalityType
  <2> QED BY <1>1, <1>3, <1>10, <1>11, <2>1
<1>14. ASSUME made' < need'.diff
       PROVE  /\ r' \in 0..R' - 1
              /\ \E k \in 0..made' : made' = k * (n_banks' - 1) /\ Offset(r)' = (k + 1) * (F + 1)
              /\ \A c \in cands' : c.role = "different_bank" => Offset(RowOf(c))' < Offset(r)' \/ Offset(RowOf(c))' = R' - 1
  <2>1. R \in Nat /\ F \in Nat \ {0} /\ target_row \in 0..R - 1 /\ n_banks \in Nat /\ target_row \in Nat
        /\ \A k \in 0..Half : k * (n_banks - 1) < Half => (k + 1) * (F + 1) + F < R
    BY Numbers
  <2>2. 0 \in 0..Half /\ 0 * (n_banks - 1) < Half BY <1>1, <1>3, <1>4, <1>14, <2>1
  <2>3. (0 + 1) * (F + 1) + F < R BY <2>1, <2>2
  <2>4. Offset(target_row) = 0 BY <2>1 DEF Offset
  <2>5. Offset(target_row) + 2 * F + 1 < R BY <2>1, <2>3, <2>4
  <2>6. r' \in 0..R - 1 /\ Offset(r') = F + 1
    <3>1. LET next == (target_row + F + 1) % R
          IN next \in 0..R - 1 /\ Offset(next) = Offset(target_row) + F + 1
      BY <2>1, <2>5, Advance
    <3> QED BY <1>1, <2>1, <2>4, <3>1 DEF FirstRow
  <2>7. Offset(r)' = F + 1
    <3>1. Offset(r)' = IF r' >= target_row' THEN r' - target_row' ELSE r' - target_row' + row_count' BY DEF Offset
    <3>2. Offset(r') = IF r' >= target_row THEN r' - target_row ELSE r' - target_row + row_count BY DEF Offset
    <3> QED BY <1>1, <1>11, <2>6, <3>1, <3>2
  <2>8. \A c \in cands' : c.role = "different_bank" => Offset(RowOf(c))' \in {1, R - 1} BY <1>3, <1>8, <1>9, <1>11
  <2>9. 0 \in 0..made' /\ made' = 0 * (n_banks' - 1) /\ F + 1 = (0 + 1) * (F + 1) BY <1>1, <1>3, <1>11, <2>1
  <2> QED BY <1>11, <2>1, <2>6, <2>7, <2>8, <2>9
<1> QED BY <1>12, <1>13, <1>14 DEF WalkInv

(* A step of the walk takes rows of other banks that no step took before.    *)
LEMMA OtherBanksStep ==
  ASSUME Playing, Begun, WalkInv, DifferentBank
  PROVE  Begun' /\ WalkInv'
<1> DEFINE F == FAR_ROW_MARGIN
           R == row_count
           B == n_banks - 1
           take == Least(need.diff - made, Cardinality(Others(r)))
<1>1. /\ phase = "different" /\ made < need.diff /\ phase' = phase /\ need' = need /\ r' = NextRow(r) /\ made' = made + take
      /\ spec' = spec /\ mapper' = mapper /\ active' = active /\ target_row' = target_row
  BY DEF DifferentBank
<1>2. PICK addrs \in kSubset(take, Others(r)) : cands' = cands \cup As("different_bank", addrs) BY DEF DifferentBank
<1>3. /\ Cardinality(cands) + need.diff - made = n_decoy + 2
      /\ need.far \in 0..Half /\ need.diff \in 0..Half /\ made \in 0..need.diff /\ IsFiniteSet(cands)
      /\ Aggressors \subseteq cands /\ \A c \in cands : Chosen(c)
  BY DEF Begun, WalkInv
<1>4. /\ r \in 0..R - 1
      /\ \A c \in cands : c.role = "different_bank" => Offset(RowOf(c)) < Offset(r) \/ Offset(RowOf(c)) = R - 1
  BY <1>1 DEF WalkInv
<1>5. PICK k \in 0..made : made = k * B /\ Offset(r) = (k + 1) * (F + 1) BY <1>1 DEF WalkInv
<1>6. /\ R \in Nat /\ F \in Nat \ {0} /\ target_row \in Nat /\ n_banks \in Nat /\ B \in Nat \ {0} /\ Half \in Nat
      /\ n_decoy \in Nat
      /\ \A i \in 0..Half : i * B < Half => (i + 1) * (F + 1) + F < R
  BY Numbers
<1>7. IsFiniteSet(Others(r)) /\ Cardinality(Others(r)) = B BY <1>4, VictimSlots
<1> HIDE DEF B
<1>8. take \in 1..B /\ take <= need.diff - made /\ (take < need.diff - made => take = B)
  BY <1>1, <1>3, <1>6, <1>7 DEF Least
<1> HIDE DEF take
<1>9. addrs \subseteq Others(r) /\ IsFiniteSet(addrs) /\ Cardinality(addrs) = take BY <1>2, <1>7, PartIs
<1> DEFINE marked == As("different_bank", addrs)
<1>10. /\ IsFiniteSet(marked) /\ Cardinality(marked) = take
       /\ \A c \in marked : Chosen(c) /\ c.role = "different_bank" /\ RowOf(c) = r
  <2> DEFINE rows == {r}
  <2>1. rows \in SUBSET (0..row_count - 1) BY <1>4
  <2>2. \A addr \in addrs : \E row \in rows : addr \in Others(row) BY <1>9
  <2> HIDE DEF rows
  <2>3. /\ IsFiniteSet(marked) /\ Cardinality(marked) = Cardinality(addrs)
        /\ \A c \in marked : Chosen(c) /\ c.role = "different_bank" /\ RowOf(c) \in rows
    BY <1>9, <2>1, <2>2, OthersCount
  <2> QED BY <1>9, <2>3 DEF rows
<1>11. cands' = cands \cup marked BY <1>2
<1> HIDE DEF marked
<1>12. k \in 0..Half /\ k * B < Half /\ (k + 1) * (F + 1) + F < R
  <2>1. k \in 0..Half BY <1>1, <1>3, <1>6
  <2>2. k * B < Half BY <1>1, <1>3, <1>5, <1>6
  <2> QED BY <1>6, <2>1, <2>2
<1>13. Offset(r) \in Nat /\ Offset(r) < R - 1 BY <1>5, <1>6, <1>12
<1>14. IsFiniteSet(cands') /\ Cardinality(cands') = Cardinality(cands) + take
  <2>1. cands \cap marked = {}
    <3> SUFFICES ASSUME NEW c \in cands, c \in marked PROVE FALSE OBVIOUS
    <3>1. c.role = "different_bank" /\ RowOf(c) = r BY <1>10
    <3>2. Offset(r) < Offset(r) \/ Offset(r) = R - 1 BY <1>4, <3>1
    <3> QED BY <1>6, <1>13, <3>2
  <2> QED BY <1>3, <1>10, <1>11, <2>1, ApartCount
<1>15. /\ Aggressors' = Aggressors /\ n_decoy' = n_decoy /\ Half' = Half /\ R' = R /\ n_banks' = n_banks
       /\ \A c : Chosen(c)' = Chosen(c) /\ Offset(RowOf(c))' = Offset(RowOf(c))
  BY <1>1, SameWindow
<1>16. Begun'
  <2>1. Aggressors' \subseteq cands' BY <1>3, <1>11, <1>15
  <2>2. \A c \in cands' : Chosen(c)' BY <1>3, <1>10, <1>11, <1>15
  <2>3. need'.far \in 0..Half' /\ need'.diff \in 0..Half' /\ made' \in 0..need'.diff
    BY <1>1, <1>3, <1>6, <1>8, <1>15
  <2> QED BY <1>14, <2>1, <2>2, <2>3 DEF Begun
<1>17. Cardinality(cands') + need'.diff - made' = n_decoy' + 2
  <2>1. Cardinality(cands) \in Nat BY <1>3, FS_CardinalityType
  <2> QED BY <1>1, <1>3, <1>6, <1>8, <1>14, <1>15, <2>1
<1>18. ASSUME made' < need'.diff
       PROVE  /\ r' \in 0..R' - 1
              /\ \E i \in 0..made' : made' = i * (n_banks' - 1) /\ Offset(r)' = (i + 1) * (F + 1)
              /\ \A c \in cands' : c.role = "different_bank" => Offset(RowOf(c))' < Offset(r)' \/ Offset(RowOf(c))' = R' - 1
  <2>1. take = B /\ made' = made + B /\ made + B < need.diff BY <1>1, <1>3, <1>6, <1>8, <1>18
  <2>2. made' = (k + 1) * B
    <3>1. (k + 1) * B = k * B + B BY <1>6
    <3> QED BY <1>5, <2>1, <3>1
  <2>3. k + 1 \in 0..made' /\ k + 1 \in 0..Half
    <3>1. k + 1 <= made' BY <1>3, <1>6, <2>1
    <3> QED BY <1>3, <1>6, <2>1, <3>1
  <2>4. (k + 1) * B < Half BY <1>3, <1>6, <2>1, <2>2
  <2>5. (k + 1 + 1) * (F + 1) + F < R BY <1>6, <2>3, <2>4
  <2>6. (k + 1 + 1) * (F + 1) = Offset(r) + F + 1
    <3>1. (k + 1 + 1) * (F + 1) = (k + 1) * (F + 1) + (F + 1) BY <1>6
    <3> QED BY <1>5, <1>6, <1>13, <3>1
  <2>7. Offset(r) + 2 * F + 1 < R BY <1>6, <1>13, <2>5, <2>6
  <2>8. r' \in 0..R - 1 /\ Offset(r') = Offset(r) + F + 1
    <3> DEFINE next == (r + F + 1) % R
    <3>1. next \in 0..R - 1 /\ Offset(next) = Offset(r) + F + 1 /\ Distance(next) > F BY <1>4, <2>7, Advance
    <3> HIDE DEF next
    <3>2. NextRow(r) = IF Distance(next) <= F THEN (next + F + 1) % R ELSE next BY DEF NextRow, next
    <3>3. Distance(next) \in Int BY <1>6, <3>1 DEF Distance
    <3>4. NextRow(r) = next BY <1>6, <3>1, <3>2, <3>3
    <3> QED BY <1>1, <3>1, <3>4
  <2>9. Offset(r)' = Offset(r) + F + 1
    <3>1. Offset(r)' = IF r' >= target_row' THEN r' - target_row' ELSE r' - target_row' + row_count' BY DEF Offset
    <3>2. Offset(r') = IF r' >= target_row THEN r' - target_row ELSE r' - target_row + row_count BY DEF Offset
    <3> QED BY <1>1, <1>15, <2>8, <3>1, <3>2
  <2>10. \A c \in cands' : c.role = "different_bank" => Offset(RowOf(c))' < Offset(r)' \/ Offset(RowOf(c))' = R' - 1
    <3> SUFFICES ASSUME NEW c \in cands', c.role = "different_bank"
                 PROVE  Offset(RowOf(c))' < Offset(r)' \/ Offset(RowOf(c))' = R' - 1
      OBVIOUS
    <3>1. Offset(RowOf(c))' = Offset(RowOf(c)) BY <1>15
    <3>2. CASE c \in marked
      <4>1. Offset(RowOf(c)) = Offset(r) BY <1>10, <3>2
      <4> QED BY <1>6, <1>13, <2>9, <3>1, <4>1
    <3>3. CASE c \in cands
      <4>1. Offset(RowOf(c)) < Offset(r) \/ Offset(RowOf(c)) = R - 1 BY <1>4, <3>3
      <4>2. RowOf(c) \in 0..R - 1 BY <1>3, <3>3 DEF Chosen
      <4>3. Offset(RowOf(c)) \in Int BY <1>6, <4>2 DEF Offset
      <4> QED BY <1>6, <1>13, <1>15, <2>9, <3>1, <4>1, <4>3
    <3> QED BY <1>11, <3>2, <3>3
  <2>11. \E i \in 0..made' : made' = i * (n_banks' - 1) /\ Offset(r)' = (i + 1) * (F + 1)
    <3>1. made' = (k + 1) * (n_banks' - 1) BY <1>15, <2>2 DEF B
    <3> QED BY <2>3, <2>6, <2>9, <3>1
  <2> QED BY <1>15, <2>8, <2>10, <2>11
<1> QED BY <1>16, <1>17, <1>18 DEF WalkInv

-----------------------------------------------------------------------------
(* The invariant holds.                                                     *)

CompilerInv ==
  /\ phase \in Phases /\ active \in SecretOffsets \cup {Public}
  /\ StartedInv /\ TargetInv /\ EmptyInv /\ WindowInv

(* A secret family discloses a known target.                                 *)
LEMMA FamilyIs ==
  ASSUME AdmittedInv, Compiling
  PROVE  fam.secret \in BOOLEAN /\ (fam.secret => fam.kind = "known")
<1>1. spec.family \in DOMAIN FAMILIES BY DEF AdmittedInv, Admits, Parsed
<1> QED BY <1>1, SecretIsKnown DEF fam

(* A worker that starts keeps the invariant.                                 *)
LEMMA StartKeepsAll ==
  ASSUME AdmittedInv, AdmittedInv', CompilerInv, NEW choice \in SecretOffsets \cup {Public}, StartWorker(choice),
         fam.secret => choice # Public
  PROVE  CompilerInv'
<1>1. /\ phase = "worker" /\ active' = choice /\ phase' \in {"target", "refused"} /\ info' = info /\ spec' = spec
      /\ cands' = cands /\ need' = need /\ made' = made
      /\ phase' = "target" => Starts(choice) /\ mapper' = AddressMapper(info)
  BY DEF StartWorker, Unsampled
<1>2. fam' = fam BY <1>1 DEF fam
<1>3. StartedInv'
  <2> SUFFICES ASSUME Started'
               PROVE  /\ Sound(info') /\ mapper' = AddressMapper(info')
                      /\ active' # Public => MapperStarts(mapper', active')
                      /\ fam'.secret => active' # Public
    BY DEF StartedInv
  <2>1. phase' = "target" BY <1>1 DEF Started
  <2>2. Sound(info) /\ (choice # Public => MapperStarts(AddressMapper(info), choice)) BY <1>1, <2>1 DEF Starts
  <2> QED BY <1>1, <1>2, <2>1, <2>2
<1>4. TargetInv' BY <1>1 DEF TargetInv, Sampled
<1>5. EmptyInv' BY <1>1 DEF CompilerInv, EmptyInv
<1>6. WindowInv' BY <1>1 DEF WindowInv, Windowed
<1>7. phase' \in Phases /\ active' \in SecretOffsets \cup {Public} BY <1>1 DEF Phases
<1> QED BY <1>3, <1>4, <1>5, <1>6, <1>7 DEF CompilerInv

(* So does the choice of a target.                                           *)
LEMMA SampleKeepsAll ==
  ASSUME AdmittedInv, CompilerInv, SampleTarget
  PROVE  CompilerInv'
<1>1. /\ phase = "target" /\ target_row' \in TargetRows /\ phase' = IF fam.secret THEN "near" ELSE "different"
      /\ info' = info /\ spec' = spec /\ mapper' = mapper /\ active' = active
      /\ cands' = cands /\ need' = need /\ made' = made
  BY DEF SampleTarget
<1>2. fam' = fam /\ row_count' = row_count BY <1>1 DEF fam, row_count
<1>3. Compiling /\ Started BY <1>1 DEF Compiling, Started
<1>4. fam.secret \in BOOLEAN /\ (fam.secret => fam.kind = "known") BY <1>3, FamilyIs
<1>5. StartedInv' BY <1>1, <1>2, <1>3 DEF CompilerInv, StartedInv, Started
<1>6. TargetInv'
  <2> DEFINE R == row_count
  <2>1. Sound(info) /\ info \in Infos /\ mapper = AddressMapper(info) BY <1>3 DEF CompilerInv, StartedInv, AdmittedInv
  <2>2. HasRoom(mapper) /\ Layout(mapper) BY <2>1, RoomAssumption, LayoutIs
  <2>3. R \in Nat
    <3>1. mapper.widths["row"] \in Nat BY <2>2 DEF Layout
    <3> QED BY <3>1, PowerIsPositive DEF row_count
  <2>4. RESERVED_KNOWN_ROW + 4 <= R /\ SAMPLED_MARGIN + 2 < R BY <2>2 DEF HasRoom, row_count
  <2>5. RESERVED_KNOWN_ROW \in Nat /\ SAMPLED_MARGIN \in Nat \ {0, 1} BY MarginsAssumption
  <2> HIDE DEF R
  <2>6. fam.kind = "known" => target_row' \in 1..R - 3
    <3> SUFFICES ASSUME fam.kind = "known" PROVE target_row' \in 1..R - 3 OBVIOUS
    <3>1. target_row' \in RESERVED_KNOWN_ROW + 1..
                            (IF R - 2 > RESERVED_KNOWN_ROW + 2 THEN R - 2 ELSE RESERVED_KNOWN_ROW + 2) - 1
      BY <1>1 DEF TargetRows, R
    <3> QED BY <2>3, <2>4, <2>5, <3>1
  <2>7. fam.kind # "known" => target_row' \in 1..R - 3
    <3> SUFFICES ASSUME fam.kind # "known" PROVE target_row' \in 1..R - 3 OBVIOUS
    <3>1. target_row' \in SAMPLED_MARGIN..
                            (IF R - SAMPLED_MARGIN > SAMPLED_MARGIN + 1 THEN R - SAMPLED_MARGIN ELSE SAMPLED_MARGIN + 1) - 1
      BY <1>1 DEF TargetRows, R
    <3> QED BY <2>3, <2>4, <2>5, <3>1
  <2>8. target_row' \in 0..R - 1 /\ target_row' \in 1..R - 3 BY <2>3, <2>6, <2>7
  <2> QED BY <1>2, <2>8 DEF TargetInv, R
<1>7. EmptyInv' BY <1>1, <1>2, <1>4 DEF CompilerInv, EmptyInv
<1>8. WindowInv' BY <1>1, <1>2 DEF WindowInv, Windowed
<1>9. phase' \in Phases /\ active' \in SecretOffsets \cup {Public} BY <1>1 DEF CompilerInv, Phases
<1> QED BY <1>5, <1>6, <1>7, <1>8, <1>9 DEF CompilerInv

(* The steps of a window.                                                    *)
LEMMA WindowKeepsAll ==
  ASSUME AdmittedInv, CompilerInv, SweepNear \/ NumericNear \/ FarSameBank \/ DifferentBank
  PROVE  CompilerInv'
<1>1. /\ phase \in {"near", "far", "different"} /\ phase' \in {"far", "different"} /\ (phase = "different" => made < need.diff)
      /\ info' = info /\ spec' = spec /\ mapper' = mapper /\ active' = active /\ target_row' = target_row
  BY DEF SweepNear, NumericNear, FarSameBank, DifferentBank
<1>2. fam' = fam /\ row_count' = row_count BY <1>1 DEF fam, row_count
<1>3. Started /\ Compiling /\ Sampled BY <1>1 DEF Started, Compiling, Sampled
<1>4. fam.secret
  <2>1. CASE phase = "different"
    <3>1. SUFFICES ASSUME ~fam.secret PROVE FALSE OBVIOUS
    <3>2. need = [far |-> 0, diff |-> 0] /\ made = 0 BY <3>1 DEF CompilerInv, EmptyInv
    <3>3. ~(made < need.diff) BY <3>2
    <3> QED BY <1>1, <2>1, <3>3
  <2>2. CASE phase \in {"near", "far"} BY <2>2 DEF CompilerInv, EmptyInv
  <2> QED BY <1>1, <2>1, <2>2
<1>5. target_row \in 1..row_count - 3 BY <1>3, <1>4 DEF CompilerInv, TargetInv
<1>6. Playing BY <1>3, <1>4, <1>5, Plays DEF CompilerInv
<1>7. StartedInv' BY <1>1, <1>2, <1>3 DEF CompilerInv, StartedInv, Started
<1>8. TargetInv' BY <1>1, <1>2, <1>3 DEF CompilerInv, TargetInv, Sampled
<1>9. EmptyInv' BY <1>1, <1>2, <1>4 DEF EmptyInv
<1>10. phase' \in Phases /\ active' \in SecretOffsets \cup {Public} BY <1>1 DEF CompilerInv, Phases
<1>11. /\ EmptyInv
       /\ phase = "far" => Begun /\ NearInv
       /\ phase = "different" => Begun /\ WalkInv
  BY <1>4 DEF CompilerInv, WindowInv, Windowed
<1>12. CASE SweepNear
  <2>1. phase' = "far" BY <1>12 DEF SweepNear
  <2>2. Begun' /\ NearInv' BY <1>6, <1>11, <1>12, NearSweep
  <2> QED BY <1>7, <1>8, <1>9, <1>10, <2>1, <2>2 DEF CompilerInv, WindowInv
<1>13. CASE NumericNear
  <2>1. phase' = "far" BY <1>13 DEF NumericNear
  <2>2. Begun' /\ NearInv' BY <1>6, <1>11, <1>13, NearNumeric
  <2> QED BY <1>7, <1>8, <1>9, <1>10, <2>1, <2>2 DEF CompilerInv, WindowInv
<1>14. CASE FarSameBank
  <2>1. phase = "far" /\ phase' = "different" BY <1>14 DEF FarSameBank
  <2>2. Begun' /\ WalkInv' BY <1>6, <1>11, <1>14, <2>1, FarSteps
  <2> QED BY <1>7, <1>8, <1>9, <1>10, <2>1, <2>2 DEF CompilerInv, WindowInv
<1>15. CASE DifferentBank
  <2>1. phase = "different" /\ phase' = "different" BY <1>15 DEF DifferentBank
  <2>2. Begun' /\ WalkInv' BY <1>6, <1>11, <1>15, <2>1, OtherBanksStep
  <2> QED BY <1>7, <1>8, <1>9, <1>10, <2>1, <2>2 DEF CompilerInv, WindowInv
<1> QED BY <1>12, <1>13, <1>14, <1>15

(* A step that chooses nothing more.                                          *)
LEMMA RestKeepsAll ==
  ASSUME CompilerInv,
         UNCHANGED <<info, spec, mapper, active, target_row, cands, need, made, r>>,
         phase' = phase \/ (phase = "different" /\ made >= need.diff /\ phase' = "live" /\ AdmittedInv)
  PROVE  CompilerInv'
<1>1. /\ info' = info /\ spec' = spec /\ mapper' = mapper /\ active' = active /\ target_row' = target_row
      /\ cands' = cands /\ need' = need /\ made' = made /\ r' = r
  OBVIOUS
<1>2. /\ Aggressors' = Aggressors /\ n_decoy' = n_decoy /\ Half' = Half /\ row_count' = row_count /\ n_banks' = n_banks
      /\ fam' = fam
      /\ \A row : Offset(row)' = Offset(row)
      /\ \A c : Chosen(c)' = Chosen(c) /\ Offset(RowOf(c))' = Offset(RowOf(c))
  BY <1>1, SameWindow
<1>3. Begun' = Begun BY <1>1, <1>2 DEF Begun
<1>4. NearInv' = NearInv BY <1>1, <1>2 DEF NearInv
<1>5. Offset(r)' = Offset(r) BY <1>1, <1>2 DEF Offset
<1>6. CASE phase' = phase
  <2>1. WalkInv' = WalkInv BY <1>1, <1>2, <1>5, <1>6 DEF WalkInv
  <2>2. StartedInv' /\ TargetInv' /\ EmptyInv' BY <1>1, <1>2, <1>6 DEF CompilerInv, StartedInv, Started, TargetInv, Sampled, EmptyInv
  <2>3. WindowInv' BY <1>2, <1>3, <1>4, <1>6, <2>1 DEF CompilerInv, WindowInv, Windowed
  <2> QED BY <1>1, <1>6, <2>2, <2>3 DEF CompilerInv
<1>7. CASE phase = "different" /\ made >= need.diff /\ phase' = "live" /\ AdmittedInv
  <2>1. fam.secret \in BOOLEAN BY <1>7, FamilyIs DEF Compiling
  <2>2. made = need.diff
    <3>1. CASE fam.secret
      <4>1. made \in 0..need.diff /\ need.diff \in 0..Half BY <1>7, <3>1 DEF CompilerInv, WindowInv, Windowed, Begun
      <4> QED BY <1>7, <4>1
    <3>2. CASE ~fam.secret BY <3>2 DEF CompilerInv, EmptyInv
    <3> QED BY <3>1, <3>2
  <2>3. StartedInv' /\ TargetInv'
    BY <1>1, <1>2, <1>7 DEF CompilerInv, StartedInv, Started, TargetInv, Sampled
  <2>4. EmptyInv' BY <1>1, <1>2, <1>7, <2>2 DEF CompilerInv, EmptyInv
  <2>5. WindowInv'
    <3> SUFFICES ASSUME Windowed' PROVE Begun' /\ WalkInv' BY <1>7 DEF WindowInv
    <3>1. Windowed BY <1>2, <1>7 DEF Windowed
    <3>2. Begun /\ WalkInv BY <1>7, <3>1 DEF CompilerInv, WindowInv
    <3>3. WalkInv' BY <1>1, <1>2, <1>7, <3>2 DEF WalkInv
    <3> QED BY <1>3, <3>2, <3>3
  <2>6. phase' \in Phases /\ active' \in SecretOffsets \cup {Public} BY <1>1, <1>7 DEF CompilerInv, Phases
  <2> QED BY <2>3, <2>4, <2>5, <2>6 DEF CompilerInv
<1> QED BY <1>6, <1>7

(* Throughout a reset the window holds what the lemmas say of it: started on    *)
(* a sound device, a target with room on both sides, and candidates that are    *)
(* counted and true (TaskSpec.compile, _build_candidates).                    *)
THEOREM Compiles == Spec => []CompilerInv
<1>1. Init => CompilerInv
  BY DEF Init, CompilerInv, Phases, StartedInv, Started, TargetInv, Sampled, EmptyInv, WindowInv, Windowed
<1>2. AdmittedInv /\ AdmittedInv' /\ CompilerInv /\ [Next]_vars => CompilerInv'
  <2> SUFFICES ASSUME AdmittedInv, AdmittedInv', CompilerInv, [Next]_vars PROVE CompilerInv' OBVIOUS
  <2>1. CASE Parse
    <3>1. phase' = "worker" /\ phase = "config" /\ active' = active /\ cands' = cands /\ need' = need /\ made' = made
      BY <2>1 DEF Parse, Unsampled
    <3> QED BY <3>1 DEF CompilerInv, Phases, StartedInv, Started, TargetInv, Sampled, EmptyInv, WindowInv, Windowed
  <2>2. CASE Reject
    <3>1. phase' = "refused" /\ phase = "config" /\ active' = active /\ cands' = cands /\ need' = need /\ made' = made
      BY <2>2 DEF Reject, Unsampled
    <3> QED BY <3>1 DEF CompilerInv, Phases, StartedInv, Started, TargetInv, Sampled, EmptyInv, WindowInv, Windowed
  <2>3. CASE StartPublic BY <2>3, StartKeepsAll DEF StartPublic
  <2>4. CASE select_secret_mapper
    <3>1. PICK offset \in SecretOffsets : StartWorker(offset) BY <2>4 DEF select_secret_mapper
    <3>2. offset # Public BY MarginsAssumption DEF Public
    <3> QED BY <3>1, <3>2, StartKeepsAll
  <2>5. CASE SampleTarget BY <2>5, SampleKeepsAll
  <2>6. CASE SweepNear \/ NumericNear \/ FarSameBank \/ DifferentBank BY <2>6, WindowKeepsAll
  <2>7. CASE Register BY <2>7, RestKeepsAll DEF Register
  <2>8. CASE UNCHANGED vars BY <2>8, RestKeepsAll DEF vars
  <2> QED BY <2>1, <2>2, <2>3, <2>4, <2>5, <2>6, <2>7, <2>8 DEF Next, Over
<1> QED BY <1>1, <1>2, Admitted, PTL DEF Spec

(* Every candidate is an address of the device, and a reset ends with a target  *)
(* row of the device and every decoy it wanted (TaskSpec.compile,             *)
(* _build_candidates, _build_numeric_candidates).                             *)
THEOREM TypeCorrect == Spec => []TypeOK
<1>1. AdmittedInv /\ CompilerInv => TypeOK
  <2> SUFFICES ASSUME AdmittedInv, CompilerInv PROVE TypeOK OBVIOUS
  <2>1. phase \in Phases /\ active \in SecretOffsets \cup {Public} BY DEF CompilerInv
  <2>2. phase = "live" => target_row \in 0..row_count - 1 /\ made = need.diff
    BY DEF CompilerInv, TargetInv, Sampled, EmptyInv
  <2>3. ASSUME NEW c \in cands
        PROVE  c.addr \in 0..mapper.capacity - 1 /\ c.role \in {"aggressor", "same_bank_far", "different_bank"}
    <3>1. phase \in {"far", "different", "live"} /\ fam.secret BY <2>1 DEF CompilerInv, EmptyInv, Phases
    <3>2. Chosen(c) /\ target_row \in 1..row_count - 3
      BY <3>1 DEF CompilerInv, WindowInv, Windowed, Begun, TargetInv, Sampled
    <3>3. Playing BY <3>1, <3>2, Plays DEF CompilerInv, Started
    <3>4. c.addr \in 0..mapper.capacity - 1 BY <3>2, <3>3, SlotsAre DEF Chosen, Playing
    <3>5. c.role \in {"aggressor", "same_bank_far", "different_bank"} BY <3>2, <3>3, AggressorsAre DEF Chosen
    <3> QED BY <3>4, <3>5
  <2> QED BY <2>1, <2>2, <2>3 DEF TypeOK, Phases
<1> QED BY <1>1, Admitted, Compiles, PTL

(* A compiled window tells the truth about the mapper the worker runs: as many  *)
(* different addresses as the band asks for, the two of them next to the       *)
(* victim in its bank and no other marked aggressor, and the addresses a row    *)
(* stride away in other banks (TaskSpec._build_candidates,                    *)
(* _build_numeric_candidates).                                               *)
THEOREM WindowTellsTruth == Spec => []WindowIsTrue
<1>1. AdmittedInv /\ CompilerInv => WindowIsTrue
  <2> SUFFICES ASSUME AdmittedInv, CompilerInv, phase = "live", fam.secret PROVE WindowIsTrue BY DEF WindowIsTrue
  <2>1. target_row \in 1..row_count - 3 BY DEF CompilerInv, TargetInv, Sampled
  <2>2. Playing BY <2>1, Plays DEF CompilerInv, Started
  <2>3. Begun /\ WalkInv /\ made = need.diff BY DEF CompilerInv, WindowInv, Windowed, EmptyInv
  <2>4. Cardinality(cands) = n_decoy + 2
    <3>1. Half \in Nat BY <2>2, Numbers
    <3>2. need.diff \in 0..Half /\ IsFiniteSet(cands) BY <2>3 DEF Begun
    <3>3. Cardinality(cands) \in Nat BY <3>2, FS_CardinalityType
    <3> QED BY <2>3, <3>1, <3>2, <3>3 DEF WalkInv
  <2> QED BY <2>2, <2>3, <2>4, FullWindow DEF Begun
<1> QED BY <1>1, Admitted, Compiles, PTL

-----------------------------------------------------------------------------
(* Round trips.                                                              *)

(* Under any mapper the worker runs, the inverter takes what an address opens  *)
(* back to the address.                                                      *)
LEMMA WorkerRestores ==
  ASSUME NEW m, NEW n, NEW choice, Inverts(m, n, choice), Stacked(m), n \in 1..63, NEW a \in Words(n)
  PROVE  LET addr == a * 2^m.tx_offset
         IN worker_encode(m, choice, AddrInverter(m, choice), worker_decode(m, choice, addr)) = addr
<1> DEFINE addr == a * 2^m.tx_offset
           at   == worker_decode(m, choice, addr)
           L    == [x \in Words(n) |-> probe(m, choice, x)]
           inverter == AddrInverter(m, choice)
<1>1. n \in Nat /\ XorOn(n) /\ n = AddrBits(m) BY DEF Inverts, Placed
<1>2. probe(m, choice, 0) = 0 /\ Additive(L, n) /\ Probes(L, n, m, choice) BY ProbesAre
<1>3. inverter.ready /\ inverter.basis = Basis(m, choice, n) /\ inverter.constant = 0 BY <1>1, <1>2 DEF AddrInverter
<1>4. L[a] = probe(m, choice, a) /\ probe(m, choice, a) = pack(m, at) BY DEF probe
<1>5. BitXor(pack(m, at), 0) = pack(m, at)
  <2>1. probe(m, choice, a) \in Words(n) BY ProbeHolds
  <2> HIDE DEF at
  <2> QED BY <1>1, <1>4, <2>1, XorLaws
<1> HIDE DEF L
<1>6. solve(Basis(m, choice, n), L[a]) = [solvable |-> TRUE, address_bits |-> a] BY <1>1, <1>2, Solves
<1> HIDE DEF inverter
<1>7. solve(inverter.basis, BitXor(pack(m, at), inverter.constant)) = [solvable |-> TRUE, address_bits |-> a]
  BY <1>3, <1>4, <1>5, <1>6
<1>8. \A f \in Fields(m) : at[f] \in 0..2^m.widths[f] - 1
  <2>1. \A f \in Fields(m) : at[f] = Opened(m, choice, a, f) BY OpenedIs
  <2>2. \A f \in Fields(m) : Opened(m, choice, a, f) \in Words(m.widths[f]) BY OpenedAdds
  <2> QED BY <2>1, <2>2 DEF Words
<1>9. worker_encode(m, choice, inverter, at) = addr
  <2>1. worker_decode(m, choice, a * 2^m.tx_offset) = at OBVIOUS
  <2> HIDE DEF at
  <2> QED BY <1>3, <1>7, <1>8, <2>1 DEF worker_encode
<1> QED BY <1>9 DEF inverter

(* So does the Python projection of the public mapper.                        *)
LEMMA EncodeRestores ==
  ASSUME NEW m, NEW n, Placed(m, n), Stacked(m), NEW a \in Words(n)
  PROVE  LET addr == a * 2^m.tx_offset IN encode(m, decode(m, addr)) = addr
<1> DEFINE addr == a * 2^m.tx_offset
           at   == decode(m, addr)
<1>1. joined(at, m.placement, m.shifts, Len(m.placement)) = addr BY JoinedRestores
<1>2. \A f \in Fields(m) : at[f] \in 0..2^m.widths[f] - 1 BY DecodedIs DEF Words
<1>3. DOMAIN at = Fields(m) \cup {"channel"} /\ at["channel"] = 0 BY DEF decode
<1> HIDE DEF at, addr
<1>4. \A f \in Fields(m) : coord_int(at, f) \in 0..2^m.widths[f] - 1 BY <1>2, <1>3 DEF coord_int
<1>5. coord_int(at, "channel") = 0 BY <1>3 DEF coord_int
<1>6. encode(m, at) = addr BY <1>1, <1>4, <1>5 DEF encode
<1> QED BY <1>6 DEF at, addr

(* What it makes of coordinates is an address with these coordinates.          *)
LEMMA EncodeIs ==
  ASSUME NEW m, NEW n, Placed(m, n), NEW coords, encode(m, coords) # BadSchema
  PROVE  /\ encode(m, coords) \in 0..m.capacity - 1
         /\ \A f \in Fields(m) \cup {"channel"} : decode(m, encode(m, coords))[f] = coord_int(coords, f)
<1> DEFINE P    == m.placement
           word == joined(coords, P, m.shifts, Len(P))
           N    == n + m.tx_offset
<1>1. /\ n \in Nat /\ m.tx_offset \in Nat /\ Len(P) \in Nat /\ Fields(m) = {P[i] : i \in 1..Len(P)}
      /\ \A f \in Fields(m) : m.shifts[f] \in Nat /\ m.widths[f] \in Nat /\ f # "channel"
      /\ HasPlaces(m.widths, P, m.shifts, N) /\ m.capacity = 2^N
  <2>1. n \in Nat /\ \A f \in Fields(m) : m.widths[f] \in 0..n BY DEF Placed
  <2>2. \A f \in Fields(m) : m.widths[f] \in Nat BY <2>1
  <2> QED BY <2>2 DEF Placed
<1>2. /\ \A f \in Fields(m) : coord_int(coords, f) \in 0..2^m.widths[f] - 1
      /\ coord_int(coords, "channel") = 0 /\ encode(m, coords) = word
  BY DEF encode
<1>3. N \in Nat BY <1>1
<1>4. Fit(coords, m.widths, P) BY <1>1, <1>2 DEF Fit, Words
<1> HIDE DEF P, N, word
<1>5. Laid(word, coords, m.widths, P, m.shifts, N, Len(P))
  <2>1. Len(P) \in 0..Len(P) BY <1>1
  <2> QED BY <1>1, <1>3, <1>4, <2>1, JoinBits DEF word
<1>6. word \in Words(N) BY <1>5 DEF Laid
<1>7. word \in Nat BY <1>3, <1>6, WordsAre
<1>8. ASSUME NEW f \in Fields(m) PROVE decode(m, word)[f] = coord_int(coords, f)
  <2>1. PICK i \in 1..Len(P) : f = P[i] BY <1>1
  <2>2. Holds(word, m.shifts[f], m.widths[f], coord_int(coords, f)) BY <1>5, <2>1 DEF Laid
  <2>3. m.shifts[f] \in Nat /\ m.widths[f] \in Nat /\ coord_int(coords, f) \in Words(m.widths[f])
    BY <1>1, <1>2 DEF Words
  <2>4. (word \div 2^m.shifts[f]) % 2^m.widths[f] = coord_int(coords, f) BY <1>7, <2>2, <2>3, HeldIs
  <2> QED BY <1>1, <2>4 DEF decode
<1>9. decode(m, word)["channel"] = 0 BY DEF decode
<1> QED BY <1>1, <1>2, <1>6, <1>8, <1>9 DEF Words

(* A row of the device begins at an address of it.                           *)
LEMMA RowBegins ==
  ASSUME NEW row \in 0..row_count - 1, Layout(mapper)
  PROVE  row * row_bytes \in 0..mapper.capacity - 1
<1> DEFINE s == mapper.shifts["row"]
           w == mapper.widths["row"]
<1>1. s \in Nat /\ w \in Nat /\ row_bytes = 2^s /\ row_count = 2^w /\ mapper.capacity = 2^(s + w)
  BY DEF Layout, row_bytes, row_count
<1>2. row \in 0..2^w - 1 /\ 2^s \in Nat \ {0} /\ 2^w \in Nat BY <1>1, PowerIsPositive
<1>3. PICK z \in Nat : z = 0 OBVIOUS
<1>4. z \in 0..2^s - 1 BY <1>2, <1>3
<1> HIDE DEF s, w
<1>5. row * 2^s + z \in 0..2^(s + w) - 1 BY <1>1, <1>2, <1>4, SumIsWithin
<1>6. row * 2^s + z = row * 2^s
  <2>1. row \in Nat BY <1>2
  <2> QED BY <1>2, <1>3, <2>1
<1> QED BY <1>1, <1>5, <1>6

(* A reset that has its worker has a mapper that the lemmas are about.         *)
LEMMA MapperInverts ==
  ASSUME AdmittedInv, CompilerInv, Started
  PROVE  Inverts(mapper, AddrBits(mapper), active) /\ Layout(mapper) /\ Stacked(mapper) /\ AddrBits(mapper) \in 1..63
<1>1. Sound(info) /\ info \in Infos /\ mapper = AddressMapper(info) BY DEF CompilerInv, StartedInv, AdmittedInv
<1>2. Layout(mapper) /\ Stacked(mapper) BY <1>1, LayoutIs
<1>3. Placed(mapper, AddrBits(mapper)) BY <1>2, PlacedIs
<1>4. XorOn(AddrBits(mapper)) /\ "bank" \in Fields(mapper) BY <1>1, XorAssumption, BankAssumption
<1>5. active \in Nat \cup {Public} BY MarginsAssumption DEF CompilerInv
<1>6. "row" \in Fields(mapper) BY <1>2 DEF Layout
<1>7. AddrBits(mapper) \in 1..63
  <2>1. AddrBits(mapper) \in Nat /\ AddrBits(mapper) < 64 BY <1>1, <1>3, WordAssumption DEF Placed
  <2>2. mapper.widths["row"] \in 0..AddrBits(mapper) BY <1>3, <1>6 DEF Placed
  <2>3. mapper.widths["row"] # 0
    <3>1. RESERVED_KNOWN_ROW + 4 <= 2^mapper.widths["row"] BY <1>1, RoomAssumption DEF HasRoom
    <3>2. RESERVED_KNOWN_ROW + 4 > 1 BY MarginsAssumption
    <3>3. 2^0 = 1 OBVIOUS
    <3>4. SUFFICES ASSUME mapper.widths["row"] = 0 PROVE FALSE OBVIOUS
    <3>5. 2^mapper.widths["row"] = 1 BY <3>3, <3>4
    <3> QED BY <3>1, <3>2, <3>5, MarginsAssumption
  <2> QED BY <2>1, <2>2, <2>3
<1> QED BY <1>2, <1>3, <1>4, <1>5, <1>6, <1>7 DEF Inverts

(* What an address opens is in its row, under any mapper.                     *)
LEMMA RowIsKept ==
  ASSUME NEW m, NEW n, NEW choice, Inverts(m, n, choice), NEW a \in Words(n), m.row_stride = 2^m.shifts["row"]
  PROVE  worker_decode(m, choice, a * 2^m.tx_offset)["row"] = (a * 2^m.tx_offset) \div m.row_stride
<1> DEFINE addr == a * 2^m.tx_offset
           s    == m.shifts["row"]
           w    == m.widths["row"]
           N    == n + m.tx_offset
<1>1. /\ Placed(m, n) /\ "row" \in Fields(m) /\ n \in Nat /\ m.tx_offset \in Nat
      /\ s \in Nat /\ w \in Nat /\ s + w = N
  <2>1. Placed(m, n) /\ "row" \in Fields(m) /\ n \in Nat /\ m.tx_offset \in Nat /\ s + w = N BY DEF Inverts, Placed
  <2>2. s \in Nat /\ w \in 0..n BY <2>1 DEF Placed
  <2> QED BY <2>1, <2>2
<1>2. worker_decode(m, choice, addr)["row"] = decode(m, addr)["row"]
  <2>1. worker_decode(m, choice, addr)["row"] = Opened(m, choice, a, "row") BY <1>1, OpenedIs
  <2>2. Opened(m, choice, a, "row") = FieldIn(m, a, "row") BY DEF Opened, Folds
  <2>3. decode(m, addr)["row"] = FieldIn(m, a, "row") BY <1>1, DecodedIs
  <2> QED BY <2>1, <2>2, <2>3
<1>3. decode(m, addr)["row"] = (addr \div 2^s) % 2^w BY <1>1 DEF decode
<1>4. addr \in 0..2^N - 1
  <2>1. PICK z \in Nat : z = 0 OBVIOUS
  <2>2. z \in 0..2^m.tx_offset - 1
    <3>1. 2^m.tx_offset \in Nat \ {0} BY <1>1, PowerIsPositive
    <3> QED BY <2>1, <3>1
  <2>3. a \in 0..2^n - 1 /\ a \in Nat BY <1>1, WordsAre DEF Words
  <2>4. a * 2^m.tx_offset + z \in 0..2^(m.tx_offset + n) - 1 BY <1>1, <2>2, <2>3, SumIsWithin
  <2>5. m.tx_offset + n = N BY <1>1
  <2>6. 2^m.tx_offset \in Nat BY <1>1, PowerIsPositive
  <2>7. a * 2^m.tx_offset \in Nat BY <2>3, <2>6
  <2>8. a * 2^m.tx_offset + z = a * 2^m.tx_offset BY <2>1, <2>7
  <2> QED BY <2>4, <2>5, <2>8
<1> HIDE DEF addr, N, s, w
<1>5. N \in Nat /\ s \in 0..N /\ w = N - s BY <1>1 DEF N
<1>6. addr \div 2^s \in 0..2^w - 1
  <2>1. addr \div 2^s \in 0..2^(N - s) - 1 BY <1>4, <1>5, RestIsBelow
  <2> QED BY <1>5, <2>1
<1>7. 2^w \in Nat \ {0} BY <1>1, PowerIsPositive
<1>8. (addr \div 2^s) % 2^w = addr \div 2^s BY <1>6, <1>7, SmallRest
<1>9. m.row_stride = 2^s BY DEF s
<1> QED BY <1>2, <1>3, <1>8, <1>9 DEF addr

(* A transaction's addresses are the multiples of its size.                  *)
LEMMA TransactionsAre ==
  ASSUME NEW n \in Nat, NEW tx \in Nat
  PROVE  2^(n + tx) \div 2^tx = 2^n
<1>1. 2^(n + tx) = 2^n * 2^tx BY PowerOfSum
<1>2. 2^n \in Nat \ {0} /\ 2^tx \in Nat \ {0} BY PowerIsPositive
<1>3. PICK z \in Nat : z = 0 OBVIOUS
<1>4. z \in 0..2^tx - 1 BY <1>2, <1>3
<1>5. (2^n * 2^tx + z) \div 2^tx = 2^n BY <1>2, <1>4, Quotient
<1>6. 2^n * 2^tx + z = 2^n * 2^tx
  <2>1. 2^n * 2^tx \in Nat BY <1>2
  <2> QED BY <1>3, <2>1
<1> QED BY <1>1, <1>5, <1>6

(* Before a target is sampled, every address of the device comes back.         *)
LEMMA EveryAddressRestores ==
  ASSUME AdmittedInv, CompilerInv, phase = "target", NEW i \in 0..mapper.capacity \div 2^mapper.tx_offset - 1
  PROVE  LET inverter == AddrInverter(mapper, active)
             addr == i * 2^mapper.tx_offset
         IN /\ worker_encode(mapper, active, inverter, Decoded(addr)) = addr
            /\ active = Public => encode(mapper, Decoded(addr)) = addr
            /\ Decoded(addr)["row"] = addr \div row_bytes
<1> DEFINE n    == AddrBits(mapper)
           addr == i * 2^mapper.tx_offset
<1>1. Inverts(mapper, n, active) /\ Layout(mapper) /\ Stacked(mapper) /\ n \in 1..63 BY MapperInverts DEF Started
<1>2. Placed(mapper, n) /\ n \in Nat /\ mapper.tx_offset \in Nat /\ mapper.capacity = 2^(n + mapper.tx_offset)
  BY <1>1 DEF Inverts, Placed
<1> HIDE DEF n
<1>3. i \in Words(n)
  <2>1. 2^(n + mapper.tx_offset) \div 2^mapper.tx_offset = 2^n BY <1>2, TransactionsAre
  <2> QED BY <1>2, <2>1 DEF Words
<1>4. worker_encode(mapper, active, AddrInverter(mapper, active), Decoded(addr)) = addr
  BY <1>1, <1>3, WorkerRestores DEF Decoded
<1>5. active = Public => encode(mapper, Decoded(addr)) = addr
  BY <1>1, <1>2, <1>3, EncodeRestores DEF Decoded, worker_decode
<1>6. Decoded(addr)["row"] = addr \div row_bytes
  BY <1>1, <1>3, RowIsKept DEF Decoded, row_bytes, Layout
<1> QED BY <1>4, <1>5, <1>6

(* The target and the rows a candidate set names are addresses of the device.  *)
LEMMA RowsAreThere ==
  ASSUME AdmittedInv, CompilerInv, phase = "live"
  PROVE  {target_addr, target_addr - row_bytes, target_addr + row_bytes, target_addr + 2 * row_bytes}
           \subseteq 0..mapper.capacity - 1
<1>1. Layout(mapper) BY MapperInverts DEF Started
<1>2. row_bytes \in Nat
  <2>1. mapper.shifts["row"] \in Nat /\ mapper.row_stride = 2^mapper.shifts["row"] BY <1>1 DEF Layout
  <2> QED BY <2>1, PowerIsPositive DEF row_bytes
<1>3. target_row \in 1..row_count - 3 /\ row_count \in Nat
  <2>1. target_row \in 1..row_count - 3 BY DEF CompilerInv, TargetInv, Sampled
  <2>2. mapper.widths["row"] \in Nat BY <1>1 DEF Layout
  <2> QED BY <2>1, <2>2, PowerIsPositive DEF row_count
<1>4. ASSUME NEW row \in {target_row - 1, target_row, target_row + 1, target_row + 2}
      PROVE  row * row_bytes \in 0..mapper.capacity - 1
  <2>1. row \in 0..row_count - 1 BY <1>3
  <2> QED BY <1>1, <2>1, RowBegins
<1>5. /\ (target_row - 1) * row_bytes = target_addr - row_bytes /\ target_row * row_bytes = target_addr
      /\ (target_row + 1) * row_bytes = target_addr + row_bytes
      /\ (target_row + 2) * row_bytes = target_addr + 2 * row_bytes
  <2>1. target_row \in Nat BY <1>3
  <2> HIDE DEF row_bytes
  <2> QED BY <1>2, <2>1 DEF target_addr
<1> QED BY <1>4, <1>5

-----------------------------------------------------------------------------
(* Handles.                                                                  *)

(* A live episode has the handles that Register mints.                       *)
MintedInv ==
  phase = "live" => handles = CandidateHandles \cup (IF Handled(spec.disclosure) THEN {target_addr} ELSE {})

(* A handle of a live episode is one that the reset minted, for a candidate or  *)
(* for the target, and nothing mints one later (TaskSpec.compile,            *)
(* _register_handles).                                                        *)
THEOREM Minted == Spec => []MintedInv
<1>1. Init => MintedInv BY DEF Init, MintedInv
<1>2. MintedInv /\ [Next]_vars => MintedInv'
  <2> SUFFICES ASSUME MintedInv, [Next]_vars, phase' = "live"
               PROVE  handles' = (CandidateHandles \cup (IF Handled(spec.disclosure) THEN {target_addr} ELSE {}))'
    BY DEF MintedInv
  <2>1. CASE Register
    <3>1. /\ handles' = CandidateHandles \cup (IF Handled(spec.disclosure) THEN {target_addr} ELSE {})
          /\ spec' = spec /\ cands' = cands /\ mapper' = mapper /\ target_row' = target_row
      BY <2>1 DEF Register
    <3>2. row_bytes' = row_bytes /\ target_addr' = target_addr BY <3>1 DEF row_bytes, target_addr
    <3>3. CandidateHandles' = CandidateHandles BY <3>1, <3>2 DEF CandidateHandles
    <3> QED BY <3>1, <3>2, <3>3
  <2>2. CASE UNCHANGED vars
    <3>1. phase = "live" /\ handles' = handles /\ spec' = spec /\ cands' = cands /\ mapper' = mapper /\ target_row' = target_row
      BY <2>2 DEF vars
    <3>2. row_bytes' = row_bytes /\ target_addr' = target_addr BY <3>1 DEF row_bytes, target_addr
    <3>3. CandidateHandles' = CandidateHandles BY <3>1, <3>2 DEF CandidateHandles
    <3> QED BY <3>1, <3>2, <3>3 DEF MintedInv
  <2>3. ~(\/ Parse \/ Reject \/ StartPublic \/ select_secret_mapper \/ SampleTarget
          \/ SweepNear \/ NumericNear \/ FarSameBank \/ DifferentBank)
    BY DEF Parse, Reject, StartPublic, select_secret_mapper, StartWorker, SampleTarget, SweepNear, NumericNear,
           FarSameBank, DifferentBank
  <2> QED BY <2>1, <2>2, <2>3 DEF Next, Over
<1> QED BY <1>1, <1>2, PTL DEF Spec

(* What the task publishes or mints is an address of the device.              *)
LEMMA PublishedAreThere ==
  ASSUME AdmittedInv, CompilerInv, TypeOK, MintedInv, phase = "live"
  PROVE  PublishedAddrs \cup handles \subseteq 0..mapper.capacity - 1
<1>1. {c.addr : c \in cands} \subseteq 0..mapper.capacity - 1 BY DEF TypeOK
<1>2. {target_addr, target_addr - row_bytes, target_addr + row_bytes, target_addr + 2 * row_bytes}
        \subseteq 0..mapper.capacity - 1
  BY RowsAreThere
<1>3. CandidateHandles \subseteq 0..mapper.capacity - 1 BY <1>1, <1>2 DEF CandidateHandles
<1>4. handles \subseteq 0..mapper.capacity - 1 BY <1>2, <1>3 DEF MintedInv
<1>5. NumericCandidates \subseteq 0..mapper.capacity - 1 BY <1>1 DEF NumericCandidates
<1>6. PublishedAddrs \subseteq 0..mapper.capacity - 1 BY <1>2, <1>5 DEF PublishedAddrs
<1> QED BY <1>4, <1>6

(* A policy that may name coordinates has a worker under the public mapper.     *)
LEMMA PhysicalIsPublic ==
  ASSUME AdmittedInv, phase = "live", "physical" \in allowed_forms(spec.disclosure)
  PROVE  active = Public
<1>1. spec.disclosure.mapping # "logical_only" BY LogicalHidesCoordinates
<1>2. Compiling BY DEF Compiling
<1>3. ~fam.secret BY <1>1, <1>2, SecretIsLogical
<1> QED BY <1>2, <1>3 DEF AdmittedInv

(* An admitted form is an address, and coordinates are the ones it opens.       *)
LEMMA FormsAreThere ==
  ASSUME AdmittedInv, CompilerInv, TypeOK, MintedInv, phase = "live", NEW form \in Forms,
         to_linear(mapper, spec.disclosure, handles, form) \notin {BadSchema, NotDisclosed}
  PROVE  LET linear == to_linear(mapper, spec.disclosure, handles, form)
         IN /\ linear \in 0..mapper.capacity - 1
            /\ form.kind = "physical" => \A f \in DOMAIN form.coords : Decoded(linear)[f] = form.coords[f]
<1> DEFINE linear == to_linear(mapper, spec.disclosure, handles, form)
<1>1. form.kind \in allowed_forms(spec.disclosure) BY DEF to_linear
<1>2. form.kind \in {"logical", "physical", "handle"} BY DEF Forms
<1>3. CASE form.kind = "logical"
  <2>1. linear = check_logical_addr(mapper, form.addr) BY <1>1, <1>3 DEF to_linear
  <2> QED BY <1>3, <2>1 DEF check_logical_addr
<1>4. CASE form.kind = "handle"
  <2>1. linear = IF form.addr \in handles THEN form.addr ELSE NotDisclosed BY <1>1, <1>4 DEF to_linear
  <2>2. linear \in handles BY <2>1
  <2> QED BY <1>4, <2>2, PublishedAreThere
<1>5. CASE form.kind = "physical"
  <2> DEFINE n == AddrBits(mapper)
             coords == form.coords
  <2>1. linear = encode(mapper, coords) /\ encode(mapper, coords) # BadSchema BY <1>1, <1>5 DEF to_linear
  <2>2. Inverts(mapper, n, active) BY MapperInverts DEF Started
  <2>3. Placed(mapper, n) /\ {"row", "bank"} \subseteq Fields(mapper) BY <2>2 DEF Inverts
  <2>4. "column" \in Fields(mapper)
    <3>1. Layout(mapper) BY MapperInverts DEF Started
    <3> QED BY <3>1 DEF Layout
  <2>5. active = Public BY <1>1, <1>5, PhysicalIsPublic
  <2>6. DOMAIN coords \subseteq Fields(mapper) \cup {"channel"}
    <3>1. coords \in [{"row", "bank"} -> Rows] \cup [{"row", "column", "channel"} -> {0, 1, 2}] BY <1>5 DEF Forms
    <3> QED BY <2>3, <2>4, <3>1
  <2> HIDE DEF n, coords, linear
  <2>7. /\ linear \in 0..mapper.capacity - 1
        /\ \A f \in Fields(mapper) \cup {"channel"} : decode(mapper, linear)[f] = coord_int(coords, f)
    BY <2>1, <2>3, EncodeIs
  <2>8. \A f \in DOMAIN coords : Decoded(linear)[f] = coords[f]
    BY <2>5, <2>6, <2>7 DEF Decoded, worker_decode, coord_int
  <2> QED BY <2>7, <2>8 DEF coords, linear
<1> QED BY <1>2, <1>3, <1>4, <1>5

(* Every mapper is one to one over the device and inverted by the recorder,    *)
(* and in a live episode every form a disclosure admits, and every address a     *)
(* task publishes or mints a handle for, is an address of the device, opened at *)
(* the coordinates a policy named (AddrInverter::encode, AddressMapper.encode, *)
(* AddressResolver.to_linear).                                               *)
THEOREM RoundTrips == Spec => []AddressesRoundTrip
<1>1. AdmittedInv /\ CompilerInv /\ TypeOK /\ MintedInv => AddressesRoundTrip
  BY EveryAddressRestores, PublishedAreThere, FormsAreThere DEF AddressesRoundTrip
<1> QED BY <1>1, Admitted, Compiles, TypeCorrect, Minted, PTL
=============================================================================
