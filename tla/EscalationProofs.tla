-------------------------- MODULE EscalationProofs --------------------------
(***************************************************************************)
(* The three promises of the escalation ladder, for every ladder, cooldown, *)
(* check interval and gap.  The starts of an offender's latest bans lie at  *)
(* most one longest ban, check, outage and gap apart (Chain), so the window *)
(* that BanCountByIP counts holds as many of them as fit into the cooldown  *)
(* at that spacing.                                                         *)
(***************************************************************************)
EXTENDS Escalation, FiniteSetTheorems, TLAPS

Top == Len(cfg.durations)
Latest == bans[Len(bans)]
Stay == Longest(cfg) + CheckInterval(cfg) + Outage

TypeOK ==
    /\ cfg \in Configs /\ Validate(cfg)
    /\ now \in 0..MaxTime /\ bans \in Seq(Nat) /\ streak \in 0..Len(bans)
    /\ last \in [auto : BOOLEAN, count : Nat, open : BOOLEAN, exp : Nat, end : Nat]

(* Every ban started by now, and before the latest one ended.               *)
StartsFirst ==
    /\ \A k \in DOMAIN bans : bans[k] <= now /\ (~last.open => bans[k] <= last.end)
    /\ last.open \/ last.auto => bans # <<>>

(* An automatic ban lasts no longer than the longest rung, a check and an   *)
(* outage.                                                                  *)
StaysShort ==
    /\ last.open => now <= last.exp + CheckInterval(cfg) + Outage
    /\ last.auto /\ last.open => last.exp <= Latest + Longest(cfg)
    /\ last.auto /\ ~last.open => last.end <= Latest + Stay

(* The bans of a streak follow one another closely.                         *)
Chain ==
    /\ streak > 0 => last.auto
    /\ \A j \in 0..(streak - 1) : bans[Len(bans) - j] >= Latest - j * (Stay + Gap)

(* The count has kept up with as much of the streak as the window holds.    *)
Climbs == \A k \in 1..streak : (k - 1) * (Stay + Gap) <= cfg.cooldown => last.count >= k

IInv == TypeOK /\ StartsFirst /\ StaysShort /\ Chain /\ Climbs
----------------------------------------------------------------------------
(* Arithmetic: extrema of finite sets, and products.                        *)

LEMMA Least ==
    ASSUME NEW T \in SUBSET Nat, T # {}
    PROVE  \E x \in T : \A y \in T : x <= y
<1> DEFINE R == OpToRel(<, Nat)
<1>1. IsWellFoundedOn(R, Nat)
  BY NatLessThanWellFounded
<1>2. PICK x \in T : \A y \in T : ~(<<y, x>> \in R)
  <2> HIDE DEF R
  <2>1. QED
    BY <1>1, WFMin
<1>3. \A y \in T : ~(y < x)
  BY <1>2 DEF OpToRel
<1>4. QED
  BY <1>3

(* A non-empty list of numbers has a greatest one: otherwise take its       *)
(* shortest prefix without one.                                             *)
LEMMA Greatest ==
    ASSUME NEW n \in Nat \ {0}, NEW g \in [1..n -> Int]
    PROVE  \E m \in 1..n : \A k \in 1..n : g[k] <= g[m]
<1> DEFINE Has(j) == \E m \in 1..j : \A k \in 1..j : g[k] <= g[m]
           T == {j \in 1..n : ~Has(j)}
<1>1. SUFFICES ASSUME T # {}
               PROVE  FALSE
  <2>1. n \in T \/ Has(n)
    OBVIOUS
  <2>2. QED
    BY <1>1, <2>1
<1>2. PICK x \in T : \A y \in T : x <= y
  <2>1. T \in SUBSET Nat
    OBVIOUS
  <2> HIDE DEF T
  <2>2. QED
    BY <1>1, <2>1, Least
<1>3. x # 1
  <2>1. Has(1)
    OBVIOUS
  <2>2. QED
    BY <1>2, <2>1
<1>4. PICK m \in 1..(x - 1) : \A k \in 1..(x - 1) : g[k] <= g[m]
  <2>1. x \in Int /\ x - 1 \in 1..n /\ ~(x <= x - 1)
    BY <1>3
  <2>2. x - 1 \notin T
    <3> HIDE DEF T
    <3>1. QED
      BY <1>2, <2>1
  <2>3. QED
    BY <2>1, <2>2
<1>5. \A k \in 1..x : k = x \/ k \in 1..(x - 1)
  OBVIOUS
<1>6. CASE g[x] <= g[m]
  <2>1. \A k \in 1..x : g[k] <= g[m]
    BY <1>4, <1>5, <1>6
  <2>2. Has(x)
    BY <2>1, <1>4
  <2>3. QED
    BY <2>2
<1>7. CASE ~(g[x] <= g[m])
  <2>1. \A k \in 1..x : g[k] <= g[x]
    BY <1>4, <1>5, <1>7
  <2>2. Has(x)
    BY <2>1
  <2>3. QED
    BY <2>2
<1>8. QED
  BY <1>6, <1>7

LEMMA MinPair ==
    ASSUME NEW a \in Int, NEW b \in Int
    PROVE  Min({a, b}) = IF a <= b THEN a ELSE b
<1> DEFINE m == IF a <= b THEN a ELSE b
<1>1. m \in {a, b} /\ \A y \in {a, b} : m <= y
  OBVIOUS
<1>2. Min({a, b}) \in {a, b} /\ \A y \in {a, b} : Min({a, b}) <= y
  BY <1>1 DEF Min
<1>3. QED
  BY <1>1, <1>2

LEMMA Products ==
    ASSUME NEW a \in Nat, NEW b \in Nat, a <= b, NEW d \in Nat
    PROVE  a * d \in Nat /\ (a + 1) * d = a * d + d /\ a * d <= b * d
<1>1. PICK e \in Nat : b = a + e
  <2>1. b - a \in Nat /\ b = a + (b - a)
    OBVIOUS
  <2>2. QED
    BY <2>1
<1>2. e * d \in Nat /\ b * d = a * d + e * d /\ a * d \in Nat /\ (a + 1) * d = a * d + d
  BY <1>1, SMTT(30)
<1>3. QED
  BY <1>2

----------------------------------------------------------------------------
(* The configuration and the two operators that read it.                    *)

LEMMA ConfigFacts ==
    ASSUME TypeOK
    PROVE  /\ cfg.durations \in Seq(Int) /\ Top \in Nat \ {0} /\ DOMAIN cfg.durations = 1..Top
           /\ cfg.cooldown \in Int /\ CheckInterval(cfg) \in Nat
           /\ Gap \in Nat /\ Outage \in Nat /\ MaxTime \in Nat /\ Never \in Nat /\ Never > MaxTime
           /\ \A k \in 1..Top : cfg.durations[k] \in Nat
<1>1. cfg \in [durations : Seq(Int), cooldown : Int, check_interval : Nat]
  BY EscalationAssumption DEF TypeOK
<1>2. cfg.durations \in Seq(Int) /\ cfg.durations # <<>>
  BY <1>1 DEF TypeOK, Validate
<1>3. Top \in Nat \ {0} /\ DOMAIN cfg.durations = 1..Top
  BY <1>2 DEF Top
<1>4. \A k \in 1..Top : cfg.durations[k] \in Nat
  <2>1. \A k \in 1..Top : cfg.durations[k] \in Int
    BY <1>2 DEF Top
  <2>2. \A k \in 1..Top : cfg.durations[k] >= 0
    BY <1>3 DEF TypeOK, Validate
  <2>3. QED
    BY <2>1, <2>2
<1>5. CheckInterval(cfg) \in Nat /\ cfg.cooldown \in Int
  BY <1>1 DEF CheckInterval
<1>6. Gap \in Nat /\ Outage \in Nat /\ MaxTime \in Nat
  BY EscalationAssumption
<1>7. QED
  BY <1>2, <1>3, <1>4, <1>5, <1>6 DEF Never

LEMMA LongestFacts ==
    ASSUME TypeOK
    PROVE  /\ Longest(cfg) \in Nat
           /\ \A k \in 1..Top : Lasts(cfg.durations[k]) <= Longest(cfg)
<1> DEFINE g == [k \in 1..Top |-> Lasts(cfg.durations[k])]
           S == {Lasts(cfg.durations[k]) : k \in DOMAIN cfg.durations}
<1>1. \A k \in 1..Top : Lasts(cfg.durations[k]) \in Nat
  BY ConfigFacts DEF Lasts
<1>2. g \in [1..Top -> Int] /\ Top \in Nat \ {0}
  BY <1>1, ConfigFacts
<1>3. PICK m \in 1..Top : \A k \in 1..Top : g[k] <= g[m]
  <2> HIDE DEF g
  <2>1. QED
    BY <1>2, Greatest
<1>4. S = {Lasts(cfg.durations[k]) : k \in 1..Top}
  BY ConfigFacts
<1>5. g[m] \in S /\ \A y \in S : g[m] >= y
  BY <1>1, <1>3, <1>4
<1>6. Max(S) \in S /\ \A y \in S : Max(S) >= y
  <2> HIDE DEF S, g
  <2>1. QED
    BY <1>5 DEF Max
<1>7. Longest(cfg) = Max(S)
  BY DEF Longest
<1>8. \A y \in S : y \in Nat
  BY <1>1, <1>4
<1>9. \A k \in 1..Top : Lasts(cfg.durations[k]) \in S
  BY <1>4
<1>10. QED
  <2> HIDE DEF S, g
  <2>1. Longest(cfg) \in Nat
    BY <1>6, <1>7, <1>8
  <2>2. \A k \in 1..Top : Longest(cfg) >= Lasts(cfg.durations[k])
    BY <1>6, <1>7, <1>9
  <2>3. QED
    BY <1>1, <2>1, <2>2

(* The ladder always has a rung, whatever the count.                        *)
LEMMA RungExists ==
    ASSUME TypeOK, NEW prior \in Nat
    PROVE  \E k \in 1..Top : DurationForCount(prior) = cfg.durations[k]
<1>1. Min({prior + 1, Top}) = IF prior + 1 <= Top THEN prior + 1 ELSE Top
  BY ConfigFacts, MinPair
<1>2. Min({prior + 1, Top}) \in 1..Top
  BY <1>1, ConfigFacts
<1>3. QED
  BY <1>2 DEF DurationForCount, Top

(* What BanCountByIP returns: none if every row is older than the window,   *)
(* and at least m if the latest m rows are inside.                          *)
LEMMA CountFacts ==
    ASSUME TypeOK, NEW since \in Int
    PROVE  /\ BanCountByIP(since) \in Nat
           /\ (\A k \in DOMAIN bans : bans[k] < since) => BanCountByIP(since) = 0
           /\ \A m \in 0..Len(bans) :
                (\A j \in 0..(m - 1) : bans[Len(bans) - j] >= since) => BanCountByIP(since) >= m
<1> DEFINE n == Len(bans)
           S == {k \in DOMAIN bans : bans[k] >= since}
<1>1. n \in Nat /\ DOMAIN bans = 1..n /\ \A k \in 1..n : bans[k] \in Nat
  BY DEF TypeOK
<1>2. IsFiniteSet(S)
  <2>1. IsFiniteSet(1..n) /\ S \subseteq 1..n
    BY <1>1, FS_Interval
  <2>2. QED
    BY <2>1, FS_Subset
<1>3. BanCountByIP(since) = Cardinality(S)
  BY DEF BanCountByIP
<1>4. Cardinality(S) \in Nat
  BY <1>2, FS_CardinalityType
<1>5. ASSUME \A k \in DOMAIN bans : bans[k] < since
      PROVE  BanCountByIP(since) = 0
  <2>1. S = {}
    BY <1>1, <1>5
  <2>2. QED
    BY <1>3, <2>1, FS_EmptySet
<1>6. ASSUME NEW m \in 0..n, \A j \in 0..(m - 1) : bans[n - j] >= since
      PROVE  BanCountByIP(since) >= m
  <2> DEFINE I == (n - m + 1)..n
  <2>1. ASSUME NEW k \in I
        PROVE  k \in S
    <3>1. n - k \in 0..(m - 1) /\ n - (n - k) = k /\ k \in 1..n
      BY <1>1
    <3>2. bans[n - (n - k)] >= since
      BY <1>6, <3>1
    <3>3. QED
      BY <1>1, <3>1, <3>2
  <2>2. IsFiniteSet(I) /\ Cardinality(I) = m
    <3>1. n - m + 1 \in Int /\ n \in Int
      BY <1>1
    <3>2. Cardinality(I) = IF n - m + 1 > n THEN 0 ELSE n - (n - m + 1) + 1
      BY <3>1, FS_Interval
    <3>3. IsFiniteSet(I)
      BY <3>1, FS_Interval
    <3>4. QED
      BY <1>1, <3>2, <3>3
  <2>3. I \subseteq S
    BY <2>1
  <2>4. Cardinality(I) <= Cardinality(S)
    <3> HIDE DEF I, S
    <3>1. QED
      BY <1>2, <2>3, FS_Subset
  <2>5. QED
    BY <1>3, <2>2, <2>4
<1>7. QED
  BY <1>3, <1>4, <1>5, <1>6

----------------------------------------------------------------------------
(* A new row.                                                               *)

LEMMA AppendFacts ==
    ASSUME TypeOK, NEW a \in BOOLEAN, NEW d \in Nat, NEW n \in Nat, CreateBan(a, d, n)
    PROVE  /\ bans' \in Seq(Nat) /\ Len(bans') = Len(bans) + 1 /\ bans'[Len(bans')] = now
           /\ \A k \in 1..Len(bans) : bans'[k] = bans[k]
           /\ last' \in [auto : BOOLEAN, count : Nat, open : BOOLEAN, exp : Nat, end : Nat]
           /\ last'.open /\ last'.auto = a /\ last'.count = n
           /\ last'.exp = IF d > 0 THEN now + d ELSE Never
<1>1. now \in Nat /\ bans \in Seq(Nat) /\ bans' = Append(bans, now)
  BY ConfigFacts DEF TypeOK, CreateBan
<1>2. last' = [auto |-> a, count |-> n, open |-> TRUE, exp |-> IF d > 0 THEN now + d ELSE Never, end |-> Never]
  BY DEF CreateBan
<1>3. (IF d > 0 THEN now + d ELSE Never) \in Nat /\ Never \in Nat
  BY <1>1, ConfigFacts
<1>4. bans' \in Seq(Nat) /\ Len(bans') = Len(bans) + 1 /\ bans'[Len(bans')] = now
  BY <1>1
<1>5. \A k \in 1..Len(bans) : bans'[k] = bans[k]
  BY <1>1
<1>6. QED
  BY <1>2, <1>3, <1>4, <1>5

(* Starts and the length of the new ban, for either kind of ban.            *)
LEMMA CreateStays ==
    ASSUME IInv, NEW a \in BOOLEAN, NEW d \in Nat, NEW n \in Nat, CreateBan(a, d, n),
           UNCHANGED <<cfg, now>>, a => Lasts(d) <= Longest(cfg)
    PROVE  StartsFirst' /\ StaysShort'
<1>1. TypeOK
  BY DEF IInv
<1>2. now \in Nat /\ now <= MaxTime /\ Len(bans) \in Nat /\ bans \in Seq(Nat)
  BY <1>1, ConfigFacts DEF TypeOK
<1>3. /\ bans' \in Seq(Nat) /\ Len(bans') = Len(bans) + 1 /\ bans'[Len(bans')] = now
      /\ \A k \in 1..Len(bans) : bans'[k] = bans[k]
      /\ last'.open /\ last'.auto = a
      /\ last'.exp = IF d > 0 THEN now + d ELSE Never
  BY <1>1, AppendFacts
<1>4. \A k \in 1..Len(bans) : bans[k] <= now
  BY <1>2 DEF IInv, StartsFirst
<1>5. \A k \in 1..Len(bans') : bans'[k] <= now
  <2>1. \A k \in 1..Len(bans') : k \in 1..Len(bans) \/ k = Len(bans')
    BY <1>2, <1>3
  <2>2. \A k \in 1..Len(bans) : bans'[k] <= now
    BY <1>3, <1>4
  <2>3. bans'[Len(bans')] <= now
    BY <1>2, <1>3
  <2>4. QED
    BY <2>1, <2>2, <2>3, Zenon
<1>6. StartsFirst'
  <2>1. bans' # <<>> /\ DOMAIN bans' = 1..Len(bans')
    BY <1>2, <1>3
  <2>2. \A k \in DOMAIN bans' : bans'[k] <= now'
    BY <1>5, <2>1
  <2>3. QED
    BY <1>3, <2>1, <2>2, Zenon DEF StartsFirst
<1>7. CheckInterval(cfg) \in Nat /\ CheckInterval(cfg)' = CheckInterval(cfg) /\ Longest(cfg)' = Longest(cfg)
  BY <1>1, ConfigFacts DEF CheckInterval, Longest
<1>8. now <= last'.exp + CheckInterval(cfg) + Outage
  BY <1>1, <1>2, <1>3, <1>7, ConfigFacts
<1>9. a => last'.exp <= now + Longest(cfg)
  <2>1. Longest(cfg) \in Nat
    BY <1>1, LongestFacts
  <2>2. Never \in Nat
    BY <1>1, ConfigFacts
  <2>3. QED
    BY <1>2, <1>3, <2>1, <2>2 DEF Lasts
<1>10. StaysShort'
  BY <1>3, <1>7, <1>8, <1>9 DEF StaysShort, Latest
<1>11. QED
  BY <1>6, <1>10

(* A persistent offender's next ban starts at most Stay + Gap after the     *)
(* latest.                                                                  *)
LEMMA NextInChain ==
    ASSUME IInv, Free, streak > 0, now - last.end <= Gap
    PROVE  Latest \in Nat /\ now <= Latest + (Stay + Gap) /\ Stay + Gap \in Nat
<1>1. TypeOK
  BY DEF IInv
<1>2. Len(bans) \in Nat /\ Len(bans) > 0 /\ last.auto /\ ~last.open
  BY <1>1 DEF IInv, Chain, Free, TypeOK
<1>3. Latest \in Nat
  BY <1>1, <1>2 DEF Latest, TypeOK
<1>4. Stay \in Nat /\ Gap \in Nat /\ now \in Nat /\ last.end \in Nat
  BY <1>1, ConfigFacts, LongestFacts DEF Stay, TypeOK
<1>5. last.end <= Latest + Stay
  BY <1>2 DEF IInv, StaysShort
<1>6. QED
  BY <1>3, <1>4, <1>5

----------------------------------------------------------------------------
(* The actions.                                                             *)

(* The chain grows by the new ban: what was j bans back is now j + 1 back.  *)
LEMMA ChainGrows ==
    ASSUME IInv, Free, now - last.end <= Gap,
           bans' = Append(bans, now), UNCHANGED cfg, NEW j \in 1..streak
    PROVE  bans'[Len(bans') - j] >= now - j * (Stay + Gap)
<1> DEFINE D == Stay + Gap
<1>1. Len(bans) \in Nat /\ bans \in Seq(Nat) /\ streak \in Nat /\ streak <= Len(bans) /\ now \in Nat
  BY ConfigFacts DEF IInv, TypeOK
<1>2. Latest \in Nat /\ now <= Latest + D /\ D \in Nat
  BY <1>1, NextInChain
<1>3. j - 1 \in 0..(streak - 1) /\ j - 1 \in Nat /\ (j - 1) + 1 = j
  BY <1>1
<1>4. bans[Len(bans) - (j - 1)] >= Latest - (j - 1) * D
  BY <1>3 DEF IInv, Chain
<1>5. (j - 1) * D \in Nat /\ j * D = (j - 1) * D + D
  <2>1. (j - 1) * D \in Nat /\ ((j - 1) + 1) * D = (j - 1) * D + D
    BY <1>2, <1>3, Products
  <2>2. QED
    BY <1>3, <2>1
<1>6. bans'[Len(bans') - j] = bans[Len(bans) - (j - 1)] /\ bans[Len(bans) - (j - 1)] \in Nat
  BY <1>1
<1>7. QED
  <2> DEFINE x == (j - 1) * D
             y == j * D
             b == bans[Len(bans) - (j - 1)]
  <2>1. b >= Latest - x /\ x \in Nat /\ y = x + D /\ b \in Nat
    BY <1>4, <1>5, <1>6
  <2> HIDE DEF x, y, b, D
  <2>2. b >= now - y
    BY <1>1, <1>2, <2>1
  <2>3. QED
    BY <1>6, <2>2 DEF y, b, D

(* The window holds the latest m bans of the streak when the cooldown is    *)
(* m spacings long.                                                         *)
LEMMA WindowHolds ==
    ASSUME IInv, Free, streak > 0, now - last.end <= Gap,
           NEW m \in 0..streak, m * (Stay + Gap) <= cfg.cooldown
    PROVE  BanCountByIP(now - cfg.cooldown) >= m
<1> DEFINE D == Stay + Gap
           since == now - cfg.cooldown
<1>0. TypeOK
  BY DEF IInv
<1>1. Len(bans) \in Nat /\ bans \in Seq(Nat) /\ streak \in Nat /\ streak <= Len(bans) /\ now \in Nat
  BY <1>0, ConfigFacts DEF TypeOK
<1>2. Latest \in Nat /\ now <= Latest + D /\ D \in Nat
  BY NextInChain
<1>3. cfg.cooldown \in Int /\ m \in 0..Len(bans) /\ since \in Int
  <2>1. cfg.cooldown \in Int
    BY <1>0, ConfigFacts
  <2>2. QED
    BY <1>1, <2>1
<1>5. ASSUME NEW j \in 0..(m - 1)
      PROVE  bans[Len(bans) - j] >= since
  <2>1. j \in Nat /\ j \in 0..(streak - 1) /\ j + 1 \in Nat /\ m \in Nat /\ j + 1 <= m
    BY <1>1, <1>3
  <2>2. bans[Len(bans) - j] >= Latest - j * D
    BY <2>1 DEF IInv, Chain
  <2>3. bans[Len(bans) - j] \in Nat
    BY <1>1, <2>1
  <2>4. j * D \in Nat /\ (j + 1) * D = j * D + D
    <3>1. j <= j
      BY <2>1
    <3>2. QED
      BY <1>2, <2>1, <3>1, Products
  <2>5. (j + 1) * D <= m * D
    BY <1>2, <2>1, Products
  <2>6. m * D \in Nat
    <3>1. m <= m
      BY <2>1
    <3>2. QED
      BY <1>2, <2>1, <3>1, Products
  <2>7. QED
    <3> DEFINE x == j * D
               y == (j + 1) * D
               z == m * D
               b == bans[Len(bans) - j]
    <3>1. b >= Latest - x /\ b \in Nat /\ x \in Nat /\ y = x + D /\ y <= z /\ z \in Nat /\ cfg.cooldown >= z
      BY <1>3, <2>2, <2>3, <2>4, <2>5, <2>6
    <3> HIDE DEF x, y, z, b, D
    <3>2. b >= now - cfg.cooldown
      BY <1>1, <1>2, <1>3, <3>1
    <3>3. QED
      BY <3>2 DEF b
<1>6. QED
  <2> HIDE DEF since
  <2>1. BanCountByIP(since) >= m
    BY <1>0, <1>3, <1>5, CountFacts
  <2>2. QED
    BY <2>1 DEF since

LEMMA EvaluateInv ==
    ASSUME IInv, Evaluate
    PROVE  IInv'
<1>0. TypeOK
  BY DEF IInv
<1>1. PICK fails \in BOOLEAN :
        LET prior == IF fails THEN 0 ELSE BanCountByIP(now - cfg.cooldown)
        IN  /\ CreateBan(TRUE, DurationForCount(prior), prior + 1)
            /\ streak' = IF fails THEN 0 ELSE IF bans # <<>> /\ now - last.end <= Gap THEN streak + 1 ELSE 1
  BY DEF Evaluate
<1> DEFINE prior == IF fails THEN 0 ELSE BanCountByIP(now - cfg.cooldown)
           d == DurationForCount(prior)
<1>2. CreateBan(TRUE, d, prior + 1) /\ UNCHANGED <<cfg, now>> /\ Free
  BY <1>1 DEF Evaluate
<1>3. prior \in Nat
  <2>1. now - cfg.cooldown \in Int
    BY <1>0, ConfigFacts DEF TypeOK
  <2>2. QED
    BY <1>0, <2>1, CountFacts
<1>4. d \in Nat /\ Lasts(d) <= Longest(cfg)
  <2>1. PICK k \in 1..Top : d = cfg.durations[k]
    BY <1>0, <1>3, RungExists
  <2>2. QED
    BY <1>0, <2>1, ConfigFacts, LongestFacts
<1>5. streak' = IF fails THEN 0 ELSE IF bans # <<>> /\ now - last.end <= Gap THEN streak + 1 ELSE 1
  BY <1>1
<1>6. prior = IF fails THEN 0 ELSE BanCountByIP(now - cfg.cooldown)
  OBVIOUS
<1> HIDE DEF prior, d
<1>7. StartsFirst' /\ StaysShort'
  <2>1. prior + 1 \in Nat
    BY <1>3
  <2>2. QED
    BY <1>2, <1>4, <2>1, CreateStays
<1>8. /\ bans' \in Seq(Nat) /\ Len(bans') = Len(bans) + 1 /\ bans'[Len(bans')] = now
      /\ last' \in [auto : BOOLEAN, count : Nat, open : BOOLEAN, exp : Nat, end : Nat]
      /\ last'.auto /\ last'.count = prior + 1
  <2>1. prior + 1 \in Nat
    BY <1>3
  <2>2. QED
    BY <1>0, <1>2, <1>4, <2>1, AppendFacts
<1>9. streak \in 0..Len(bans) /\ Len(bans) \in Nat /\ now \in Nat /\ now \in 0..MaxTime
  BY <1>0, ConfigFacts DEF TypeOK
<1>10. streak' \in 0..Len(bans')
  BY <1>5, <1>8, <1>9
<1>11. TypeOK'
  <2>1. cfg' \in Configs /\ Validate(cfg)' /\ now' \in 0..MaxTime
    BY <1>2, <1>0, <1>9 DEF TypeOK, Validate
  <2>2. QED
    BY <1>8, <1>10, <2>1 DEF TypeOK
<1>12. Chain'
  <2>1. ASSUME NEW j \in 0..(streak' - 1)
        PROVE  bans'[Len(bans') - j] >= now - j * (Stay + Gap)
    <3>1. CASE j = 0
      <4>1. Len(bans') - j = Len(bans') /\ 0 * (Stay + Gap) = 0
        <5>1. Stay + Gap \in Nat
          BY <1>0, ConfigFacts, LongestFacts DEF Stay
        <5>2. QED
          BY <1>8, <1>9, <3>1, <5>1
      <4>2. QED
        BY <1>8, <1>9, <3>1, <4>1
    <3>2. CASE j # 0
      <4>1. ~fails /\ now - last.end <= Gap /\ streak' = streak + 1
        BY <1>5, <1>9, <2>1, <3>2
      <4>2. j \in 1..streak
        BY <1>9, <2>1, <3>2, <4>1
      <4>3. bans' = Append(bans, now)
        BY <1>2 DEF CreateBan
      <4>4. QED
        BY <1>2, <4>1, <4>2, <4>3, ChainGrows
    <3>3. QED
      BY <3>1, <3>2
  <2>2. (Stay + Gap)' = Stay + Gap /\ Latest' = now
    BY <1>2, <1>8 DEF Stay, Longest, CheckInterval, Latest
  <2>3. \A j \in 0..(streak' - 1) : bans'[Len(bans') - j] >= Latest' - j * (Stay + Gap)'
    BY <2>1, <2>2
  <2>4. QED
    BY <1>8, <2>3 DEF Chain
<1>13. Climbs'
  <2>1. SUFFICES ASSUME NEW k \in 1..streak', (k - 1) * (Stay + Gap) <= cfg.cooldown
                 PROVE  last'.count >= k
    BY <1>2 DEF Climbs, Stay, Longest, CheckInterval
  <2>2. ~fails
    BY <1>5, <2>1
  <2>3. CASE k = 1
    BY <1>3, <1>8, <2>3
  <2>4. CASE k # 1
    <3>1. now - last.end <= Gap /\ streak' = streak + 1 /\ streak > 0
      BY <1>5, <1>9, <2>1, <2>2, <2>4
    <3>2. k - 1 \in 0..streak /\ k \in Nat
      BY <1>9, <2>1, <3>1
    <3>3. prior >= k - 1
      BY <1>2, <1>6, <2>1, <2>2, <3>1, <3>2, WindowHolds
    <3>4. QED
      BY <1>3, <1>8, <3>2, <3>3
  <2>5. QED
    BY <2>3, <2>4
<1>14. QED
  BY <1>7, <1>11, <1>12, <1>13 DEF IInv

LEMMA ManualBanInv ==
    ASSUME IInv, ManualBan
    PROVE  IInv'
<1>0. TypeOK
  BY DEF IInv
<1>1. PICK d \in 0..1 : CreateBan(FALSE, d, 1)
  BY DEF ManualBan
<1>2. d \in Nat /\ UNCHANGED <<cfg, now>> /\ streak' = 0
  BY DEF ManualBan
<1>3. StartsFirst' /\ StaysShort'
  BY <1>1, <1>2, CreateStays
<1>4. /\ bans' \in Seq(Nat) /\ Len(bans') = Len(bans) + 1
      /\ last' \in [auto : BOOLEAN, count : Nat, open : BOOLEAN, exp : Nat, end : Nat]
  BY <1>0, <1>1, <1>2, AppendFacts
<1>5. TypeOK'
  <2>1. cfg' \in Configs /\ Validate(cfg)' /\ now' \in 0..MaxTime
    BY <1>0, <1>2 DEF TypeOK, Validate
  <2>2. streak' \in 0..Len(bans')
    BY <1>0, <1>2, <1>4 DEF TypeOK
  <2>3. QED
    BY <1>4, <2>1, <2>2 DEF TypeOK
<1>6. Chain' /\ Climbs'
  BY <1>2 DEF Chain, Climbs
<1>7. QED
  BY <1>3, <1>5, <1>6 DEF IInv

(* An automatic ban that ends, by the ticker or by an operator, ends within *)
(* its longest stay.                                                        *)
LEMMA CloseInv ==
    ASSUME IInv, last.open, Close, UNCHANGED <<cfg, now, bans, streak>>
    PROVE  IInv'
<1>0. TypeOK
  BY DEF IInv
<1>1. now \in Nat /\ Never \in Nat /\ last \in [auto : BOOLEAN, count : Nat, open : BOOLEAN, exp : Nat, end : Nat]
  BY <1>0, ConfigFacts DEF TypeOK
<1>2. /\ last' \in [auto : BOOLEAN, count : Nat, open : BOOLEAN, exp : Nat, end : Nat]
      /\ last'.open = FALSE /\ last'.end = now /\ last'.auto = last.auto /\ last'.count = last.count
  BY <1>1 DEF Close
<1>3. TypeOK'
  BY <1>0, <1>2 DEF TypeOK, Validate
<1>4. StartsFirst'
  BY <1>2 DEF IInv, StartsFirst
<1>5. StaysShort'
  <2>1. ASSUME last.auto
        PROVE  now <= Latest + Stay
    <3>1. now <= last.exp + CheckInterval(cfg) + Outage /\ last.exp <= Latest + Longest(cfg)
      BY <2>1 DEF IInv, StaysShort
    <3>2. bans # <<>> /\ bans \in Seq(Nat)
      BY <1>0, <2>1 DEF IInv, StartsFirst, TypeOK
    <3>3. Latest \in Nat
      BY <3>2 DEF Latest
    <3>4. Longest(cfg) \in Nat /\ CheckInterval(cfg) \in Nat /\ Outage \in Nat /\ last.exp \in Nat
      BY <1>0, ConfigFacts, LongestFacts DEF TypeOK
    <3>5. QED
      BY <1>1, <3>1, <3>3, <3>4 DEF Stay
  <2>2. Latest' = Latest /\ Stay' = Stay
    BY DEF Latest, Stay, Longest, CheckInterval
  <2>3. QED
    BY <1>2, <2>1, <2>2 DEF StaysShort
<1>6. Chain' /\ Climbs'
  <2>1. Latest' = Latest /\ Stay' = Stay /\ Top' = Top
    BY DEF Latest, Stay, Top, Longest, CheckInterval
  <2>2. QED
    BY <1>2, <2>1 DEF IInv, Chain, Climbs
<1>7. QED
  BY <1>3, <1>4, <1>5, <1>6 DEF IInv

LEMMA TickInv ==
    ASSUME IInv, Tick
    PROVE  IInv'
<1>0. TypeOK
  BY DEF IInv
<1>1. now \in Nat /\ now < MaxTime /\ MaxTime \in Nat /\ now' = now + 1 /\ UNCHANGED <<cfg, bans, last, streak>>
  BY <1>0, ConfigFacts DEF Tick, TypeOK
<1>2. TypeOK'
  <2>1. now' \in 0..MaxTime
    BY <1>1
  <2>2. QED
    BY <1>0, <1>1, <2>1 DEF TypeOK, Validate
<1>3. StartsFirst'
  <2>1. \A k \in DOMAIN bans : bans[k] \in Nat
    BY <1>0 DEF TypeOK
  <2>2. \A k \in DOMAIN bans : bans[k] <= now + 1
    BY <1>1, <2>1 DEF IInv, StartsFirst
  <2>3. QED
    BY <1>1, <2>2, Zenon DEF IInv, StartsFirst
<1>4. Latest' = Latest /\ Stay' = Stay /\ Top' = Top
      /\ Longest(cfg)' = Longest(cfg) /\ CheckInterval(cfg)' = CheckInterval(cfg)
  BY <1>1 DEF Latest, Stay, Top, Longest, CheckInterval
<1>5. StaysShort'
  <2>1. last.exp \in Nat /\ CheckInterval(cfg) \in Nat /\ Outage \in Nat
    BY <1>0, ConfigFacts DEF TypeOK
  <2>2. now + 1 <= last.exp + CheckInterval(cfg) + Outage
    BY <1>1, <2>1 DEF Tick
  <2>3. QED
    BY <1>1, <1>4, <2>2 DEF IInv, StaysShort
<1>6. Chain' /\ Climbs'
  BY <1>1, <1>4 DEF IInv, Chain, Climbs
<1>7. QED
  BY <1>2, <1>3, <1>5, <1>6 DEF IInv

LEMMA InitInv == Init => IInv
<1> SUFFICES ASSUME Init
             PROVE  IInv
  OBVIOUS
<1>1. MaxTime \in Nat /\ now = 0 /\ bans = <<>> /\ last = NoBan /\ streak = 0
  BY EscalationAssumption DEF Init
<1>2. Never \in Nat
  BY <1>1 DEF Never
<1>3. TypeOK
  BY <1>1, <1>2 DEF Init, TypeOK, NoBan
<1>4. StartsFirst /\ StaysShort
  BY <1>1 DEF StartsFirst, StaysShort, NoBan
<1>5. Chain /\ Climbs
  BY <1>1 DEF Chain, Climbs
<1>6. QED
  BY <1>3, <1>4, <1>5 DEF IInv

LEMMA NextInv == IInv /\ [Next]_vars => IInv'
<1> SUFFICES ASSUME IInv, [Next]_vars
             PROVE  IInv'
  OBVIOUS
<1>1. CASE UNCHANGED vars
  BY <1>1 DEF vars, IInv, TypeOK, Validate, StartsFirst, StaysShort, Chain, Climbs, Latest, Stay, Top,
              Longest, CheckInterval
<1>2. CASE Evaluate
  BY <1>2, EvaluateInv
<1>3. CASE ManualBan
  BY <1>3, ManualBanInv
<1>4. CASE Expire \/ DeleteBan
  BY <1>4, CloseInv DEF Expire, DeleteBan
<1>5. CASE Tick
  BY <1>5, TickInv
<1>6. QED
  BY <1>1, <1>2, <1>3, <1>4, <1>5 DEF Next

----------------------------------------------------------------------------
(* The invariant the three results rest on: rows start in order, a streak's *)
(* bans are chained, and the count has kept up with the streak.             *)
THEOREM Inductive == Spec => []IInv
BY InitInv, NextInv, PTL DEF Spec

(* An offender that returns within Gap of the end of every ban reaches rung *)
(* k with its k-th ban and never falls below it, for every ladder, every    *)
(* cooldown and every rung whose k - 1 earlier bans fit into the cooldown   *)
(* (engine.go durationForCount, store.go BanCountByIP).                     *)
THEOREM OffendersClimb == Spec => []PersistentClimbs
<1>1. IInv => PersistentClimbs
  <2> SUFFICES ASSUME IInv, NEW k \in 1..Top, k <= streak, (k - 1) * Spacing(cfg) <= cfg.cooldown
               PROVE  Rung >= k
    BY DEF PersistentClimbs, Top
  <2>1. streak \in Nat /\ last.count \in Nat /\ Top \in Nat /\ k \in 1..streak
    BY ConfigFacts DEF IInv, TypeOK
  <2>2. Spacing(cfg) = Stay + Gap
    BY DEF Spacing, Stay
  <2>3. last.count >= k
    BY <2>1, <2>2 DEF IInv, Climbs
  <2>4. Rung = IF last.count <= Top THEN last.count ELSE Top
    BY <2>1, MinPair DEF Rung, Top
  <2>5. QED
    BY <2>1, <2>3, <2>4
<1>2. QED
  BY <1>1, Inductive, PTL

(* No automatic ban outlasts the longest rung by more than one check and    *)
(* one outage, for every ladder without a permanent rung (engine.go         *)
(* Evaluate, daemon.go runBanExpiry).                                       *)
THEOREM BansEnd == Spec => []NoLockout
<1>1. IInv => NoLockout
  <2> SUFFICES ASSUME IInv, last.open, last.auto
               PROVE  now <= bans[Len(bans)] + Longest(cfg) + CheckInterval(cfg) + Outage
    BY DEF NoLockout
  <2>1. now <= last.exp + CheckInterval(cfg) + Outage /\ last.exp <= Latest + Longest(cfg)
    BY DEF IInv, StaysShort
  <2>2. bans # <<>> /\ bans \in Seq(Nat) /\ now \in Nat /\ last.exp \in Nat
    BY ConfigFacts DEF IInv, StartsFirst, TypeOK
  <2>3. Latest \in Nat
    BY <2>2 DEF Latest
  <2>4. Longest(cfg) \in Nat /\ CheckInterval(cfg) \in Nat /\ Outage \in Nat
    BY ConfigFacts, LongestFacts DEF IInv
  <2>5. now <= Latest + Longest(cfg) + CheckInterval(cfg) + Outage
    BY <2>1, <2>2, <2>3, <2>4
  <2>6. QED
    BY <2>5 DEF Latest
<1>2. QED
  BY <1>1, Inductive, PTL

(* An address that stayed clear for longer than the cooldown starts over on *)
(* the first rung: every row it has started before its latest ban ended     *)
(* (engine.go Evaluate, store.go BanCountByIP).                             *)
THEOREM CleanForgiven == Spec => CleanIsForgiven
<1>1. IInv /\ [Next]_vars =>
        [(Evaluate /\ bans # <<>> /\ now - last.end > cfg.cooldown) => last'.count = 1]_vars
  <2> SUFFICES ASSUME IInv, Evaluate, bans # <<>>, now - last.end > cfg.cooldown
               PROVE  last'.count = 1
    OBVIOUS
  <2>0. TypeOK
    BY DEF IInv
  <2> DEFINE since == now - cfg.cooldown
  <2>1. now \in Int /\ cfg.cooldown \in Int /\ last.end \in Nat /\ since \in Int
    BY <2>0, ConfigFacts DEF TypeOK
  <2>2. \A k \in DOMAIN bans : bans[k] \in Nat /\ bans[k] <= last.end
    BY <2>0 DEF IInv, StartsFirst, TypeOK, Evaluate, Free
  <2>3. \A k \in DOMAIN bans : bans[k] < since
    BY <2>1, <2>2
  <2>4. BanCountByIP(since) = 0
    <3> HIDE DEF since
    <3>1. QED
      BY <2>0, <2>1, <2>3, CountFacts
  <2>5. QED
    BY <2>4 DEF Evaluate, CreateBan
<1>2. QED
  BY <1>1, Inductive, PTL DEF Spec, CleanIsForgiven
=============================================================================
