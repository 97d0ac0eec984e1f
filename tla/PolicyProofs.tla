---------------------------- MODULE PolicyProofs ----------------------------
(* What is proved of the pure parts of a trade: the risk rule, and the      *)
(* moving-average crossover, for every series of closes and every pair of   *)
(* windows.                                                                 *)
EXTENDS RiskPolicy, StrategyEngine, SequenceTheorems, WellFoundedInduction, TLAPS

-----------------------------------------------------------------------------
(* The risk rule.                                                          *)

\* The two checks of validate_trade bound a live order for every account value:
\* what the capital check lets through at or below zero, the drawdown check,
\* measured from a positive paper equity, does not.
THEOREM ApprovalMeansWithinLimits ==
    ASSUME NEW action, NEW quantity \in Int, NEW price \in Int, NEW net \in Int,
           RiskApproves(action, quantity, price, LiveSnapshot(net))
    PROVE  WithinLimits(quantity, price, net)
  <1> USE SettingsAreNumbers, LimitsAreLimits DEF BPS
  <1> DEFINE highest == HighestEquity(net)
             notional == quantity * price
  <1>1. ~CapitalAtRiskExceeded(quantity, price, net) /\ ~DrawdownExceeded(LiveSnapshot(net))
    BY DEF RiskApproves, LiveSnapshot
  <1>2. highest \in Int /\ highest > 0 /\ highest >= net /\ highest >= PaperAccountEquity
    BY DEF HighestEquity
  <1>3. (highest - net) * BPS <= MaxDrawdownBps * highest
    BY <1>1, <1>2 DEF DrawdownExceeded, LiveSnapshot
  <1>4. net > 0
    <2> SUFFICES ASSUME net <= 0 PROVE FALSE
      OBVIOUS
    <2>1. highest * BPS <= (highest - net) * BPS
      BY <1>2
    <2>2. MaxDrawdownBps * highest < BPS * highest
      BY <1>2
    <2> HIDE DEF highest
    <2> QED BY <1>2, <1>3, <2>1, <2>2
  <1>5. notional * BPS <= MaxCapitalAtRiskBps * net
    BY <1>1, <1>4 DEF CapitalAtRiskExceeded
  <1>6. (PaperAccountEquity - net) * BPS <= MaxDrawdownBps * PaperAccountEquity
    <2>1. CASE highest = PaperAccountEquity
      BY <1>3, <2>1
    <2>2. CASE highest # PaperAccountEquity
      BY <1>3, <2>2 DEF HighestEquity
    <2> QED BY <2>1, <2>2
  <1> QED
    BY <1>4, <1>5, <1>6 DEF WithinLimits

-----------------------------------------------------------------------------
(* Sums of closes.  A fact about every number is proved by looking at the    *)
(* least number for which it fails.                                          *)

\* A set of natural numbers has a least one.
LEMMA LeastNumber ==
    ASSUME NEW S \in SUBSET Nat, S # {}
    PROVE  \E m \in S : \A k \in S : m =< k
  <1>1. PICK m \in S : \A k \in S : ~(<<k, m>> \in OpToRel(<, Nat))
    BY WFMin, NatLessThanWellFounded, Zenon
  <1>2. ASSUME NEW k \in S, k < m
        PROVE  FALSE
    <2>1. <<k, m>> \in Nat \X Nat /\ <<k, m>>[1] < <<k, m>>[2]
      BY <1>2
    <2>2. <<k, m>> \in OpToRel(<, Nat)
      BY <2>1 DEF OpToRel
    <2> QED BY <1>1, <2>2
  <1> QED BY <1>2

\* f holds the sums of the first closes, for up to n of them.
RunningSums(f, closes, n) ==
    f = [i \in 0..n |-> IF i = 0 THEN 0 ELSE f[i - 1] + closes[i]]

LEMMA RunningSumsExist ==
    ASSUME NEW closes \in Seq(Int), NEW n \in 0..Len(closes)
    PROVE  \E f : RunningSums(f, closes, n)
  <1> DEFINE bad == {k \in 0..Len(closes) : ~ \E f : RunningSums(f, closes, k)}
  <1> SUFFICES ASSUME bad # {} PROVE FALSE
    OBVIOUS
  <1>1. Len(closes) \in Nat /\ bad \in SUBSET Nat
    OBVIOUS
  <1>2. PICK m \in bad : \A k \in bad : m =< k
    BY <1>1, LeastNumber
  <1>3. m \in 0..Len(closes) /\ ~ \E f : RunningSums(f, closes, m)
    BY <1>2
  <1>4. m # 0
    <2>1. RunningSums([i \in 0..0 |-> 0], closes, 0)
      BY DEF RunningSums
    <2> QED BY <1>3, <2>1
  <1>5. m - 1 \in 0..Len(closes) /\ m - 1 \notin bad
    <2>1. m - 1 \in 0..Len(closes) /\ ~(m =< m - 1)
      BY <1>1, <1>3, <1>4
    <2> HIDE DEF bad
    <2> QED BY <1>2, <2>1
  <1>6. PICK f : RunningSums(f, closes, m - 1)
    BY <1>5
  <1> DEFINE g == [i \in 0..m |-> IF i = m THEN f[m - 1] + closes[m] ELSE f[i]]
  <1>7. \A i \in 0..m : g[i] = IF i = 0 THEN 0 ELSE g[i - 1] + closes[i]
    <2> SUFFICES ASSUME NEW i \in 0..m
                 PROVE  g[i] = IF i = 0 THEN 0 ELSE g[i - 1] + closes[i]
      OBVIOUS
    <2>1. CASE i = m
      BY <1>1, <1>3, <1>4, <2>1
    <2>2. CASE i # m
      <3>1. i \in 0..(m - 1) /\ g[i] = f[i]
        BY <1>1, <1>3, <2>2
      <3>2. f[i] = IF i = 0 THEN 0 ELSE f[i - 1] + closes[i]
        BY <1>6, <3>1 DEF RunningSums
      <3>3. i # 0 => g[i - 1] = f[i - 1]
        BY <1>1, <1>3, <3>1
      <3> QED BY <3>1, <3>2, <3>3
    <2> QED BY <2>1, <2>2
  <1>8. RunningSums(g, closes, m)
    BY <1>7 DEF RunningSums
  <1> QED BY <1>3, <1>8

LEMMA RunningSumsAreIntegers ==
    ASSUME NEW closes \in Seq(Int), NEW f, RunningSums(f, closes, Len(closes))
    PROVE  \A i \in 0..Len(closes) : f[i] \in Int
  <1> DEFINE bad == {i \in 0..Len(closes) : f[i] \notin Int}
  <1> SUFFICES ASSUME bad # {} PROVE FALSE
    OBVIOUS
  <1>1. Len(closes) \in Nat /\ bad \in SUBSET Nat
    OBVIOUS
  <1>2. PICK m \in bad : \A k \in bad : m =< k
    BY <1>1, LeastNumber
  <1>3. m \in 0..Len(closes) /\ f[m] \notin Int
    BY <1>2
  <1>4. m # 0
    BY <1>1, <1>3 DEF RunningSums
  <1>5. f[m] = f[m - 1] + closes[m]
    BY <1>1, <1>3, <1>4 DEF RunningSums
  <1>6. f[m - 1] \in Int /\ closes[m] \in Int
    BY <1>1, <1>2, <1>3, <1>4
  <1> QED BY <1>3, <1>5, <1>6

\* Total is the last of the running sums, whichever function holds them.
LEMMA TotalIsLastSum ==
    ASSUME NEW closes \in Seq(Int)
    PROVE  \E f : RunningSums(f, closes, Len(closes)) /\ Total(closes) = f[Len(closes)]
  <1>1. Len(closes) \in 0..Len(closes)
    OBVIOUS
  <1>2. \E f : RunningSums(f, closes, Len(closes))
    BY <1>1, RunningSumsExist
  <1>3. Total(closes)
          = (CHOOSE f : RunningSums(f, closes, Len(closes)))[Len(closes)]
    BY Zenon DEF Total, RunningSums
  <1> QED BY <1>2, <1>3, Zenon

\* The total of a stretch of closes is the difference of two running sums.
LEMMA TotalOfStretch ==
    ASSUME NEW closes \in Seq(Int), NEW f, RunningSums(f, closes, Len(closes)),
           NEW a \in 0..Len(closes), NEW b \in a..Len(closes)
    PROVE  Total(SubSeq(closes, a + 1, b)) = f[b] - f[a]
  <1> DEFINE part == SubSeq(closes, a + 1, b)
  <1>0. Len(closes) \in Nat /\ a \in Nat /\ b \in Nat /\ a =< b /\ b =< Len(closes)
    OBVIOUS
  <1>1. /\ part \in Seq(Int) /\ Len(part) = b - a
        /\ \A i \in 1..(b - a) : part[i] = closes[a + i]
    <2>1. \A i \in (a + 1)..b : closes[i] \in Int
      BY <1>0
    <2>2. /\ part \in Seq(Int)
          /\ Len(part) = IF a + 1 <= b THEN b - (a + 1) + 1 ELSE 0
          /\ \A i \in 1..(b - (a + 1) + 1) : part[i] = closes[(a + 1) + i - 1]
      BY <1>0, <2>1, SubSeqProperties
    <2> HIDE DEF part
    <2> QED BY <1>0, <2>2
  <1> HIDE DEF part
  <1>2. PICK g : RunningSums(g, part, Len(part)) /\ Total(part) = g[Len(part)]
    BY <1>1, TotalIsLastSum
  <1>3. \A i \in 0..Len(closes) : f[i] \in Int
    BY RunningSumsAreIntegers
  <1> DEFINE bad == {i \in 0..(b - a) : g[i] # f[a + i] - f[a]}
  <1>4. bad = {}
    <2> SUFFICES ASSUME bad # {} PROVE FALSE
      OBVIOUS
    <2>1. bad \in SUBSET Nat
      BY <1>0
    <2>2. PICK m \in bad : \A k \in bad : m =< k
      BY <2>1, LeastNumber
    <2>3. m \in 0..(b - a) /\ g[m] # f[a + m] - f[a]
      BY <2>2
    <2>4. m # 0
      <3>1. g[0] = 0
        BY <1>0, <1>1, <1>2 DEF RunningSums
      <3>2. f[a] \in Int
        BY <1>3
      <3> QED BY <2>3, <1>0, <3>1, <3>2
    <2>5. g[m] = g[m - 1] + part[m] /\ part[m] = closes[a + m]
      <3>1. m \in 1..(b - a) /\ m \in 0..Len(part)
        BY <1>0, <1>1, <2>3, <2>4
      <3>2. g[m] = g[m - 1] + part[m]
        BY <1>2, <2>4, <3>1 DEF RunningSums
      <3> QED BY <1>1, <3>1, <3>2
    <2>6. g[m - 1] = f[a + m - 1] - f[a]
      <3>1. m - 1 \in 0..(b - a) /\ m - 1 \notin bad
        BY <1>0, <2>2, <2>3, <2>4
      <3>2. g[m - 1] = f[a + (m - 1)] - f[a]
        BY <3>1
      <3> QED BY <1>0, <2>3, <3>2
    <2>7. a + m \in 1..Len(closes) /\ a + m - 1 \in 0..Len(closes)
      BY <1>0, <2>3, <2>4
    <2>8. f[a + m] = f[a + m - 1] + closes[a + m]
      <3>1. \A j \in 0..Len(closes) : f[j] = IF j = 0 THEN 0 ELSE f[j - 1] + closes[j]
        BY Zenon DEF RunningSums
      <3> QED BY <1>0, <2>7, <3>1
    <2>9. f[a + m - 1] \in Int /\ f[a] \in Int /\ closes[a + m] \in Int
      BY <1>3, <2>7, <1>0
    <2>10. g[m] = (f[a + m - 1] - f[a]) + closes[a + m]
      BY <2>5, <2>6
    <2> HIDE DEF bad
    <2>11. (f[a + m - 1] - f[a]) + closes[a + m] = (f[a + m - 1] + closes[a + m]) - f[a]
      BY <2>9
    <2>12. g[m] = f[a + m] - f[a]
      BY <2>8, <2>10, <2>11
    <2> QED BY <2>3, <2>12
  <1>5. g[b - a] = f[a + (b - a)] - f[a]
    BY <1>0, <1>4
  <1> QED BY <1>0, <1>1, <1>2, <1>5 DEF part

-----------------------------------------------------------------------------
\* The engine and the market agree: it says BUY exactly when the closes of the
\* short window stand above those before them in the long window, SELL when
\* below, HOLD when level.  The engine compares the short average with one that
\* contains it; that this comes to the same is what is proved.
THEOREM CrossoverReadsTheEdge ==
    ASSUME NEW closes \in Seq(Int), NEW windows,
           windows.short \in Nat \ {0}, windows.long \in Nat, Evaluable(closes, windows)
    PROVE  /\ Crossover(closes, windows) = "BUY" <=> Edge(closes, windows) > 0
           /\ Crossover(closes, windows) = "SELL" <=> Edge(closes, windows) < 0
           /\ Edge(closes, windows) \in Int
  <1> DEFINE n == Len(closes)
             short == windows.short
             long == windows.long
             recent == Total(SubSeq(closes, n - short + 1, n))
             earlier == Total(SubSeq(closes, n - long + 1, n - short))
             whole == Total(SubSeq(closes, n - long + 1, n))
  <1>1. n \in Nat /\ short \in Nat \ {0} /\ long \in Nat /\ short < long /\ long =< n
    BY DEF Evaluable
  <1>2. PICK f : RunningSums(f, closes, n)
    BY <1>1, RunningSumsExist
  <1> DEFINE a == n - long
             b == n - short
  <1>3. /\ a \in 0..n /\ b \in 0..n /\ n \in a..n /\ n \in b..n /\ b \in a..n
    BY <1>1
  <1>4. f[a] \in Int /\ f[b] \in Int /\ f[n] \in Int
    BY <1>1, <1>2, <1>3, RunningSumsAreIntegers
  <1>5. recent = f[n] - f[b]
    BY <1>2, <1>3, TotalOfStretch
  <1>6. earlier = f[b] - f[a]
    BY <1>2, <1>3, TotalOfStretch
  <1>7. whole = f[n] - f[a]
    BY <1>2, <1>3, TotalOfStretch
  <1>8. Edge(closes, windows) = recent * (long - short) - earlier * short
    BY DEF Edge
  <1>9. Crossover(closes, windows) =
            IF recent * long > whole * short THEN "BUY"
            ELSE IF recent * long < whole * short THEN "SELL" ELSE "HOLD"
    BY DEF Crossover, Latest
  <1> HIDE DEF n, short, long, recent, earlier, whole, a, b
  <1>10. recent \in Int /\ earlier \in Int /\ whole = earlier + recent
    BY <1>4, <1>5, <1>6, <1>7
  <1>11. recent * (long - short) - earlier * short = recent * long - whole * short
    BY <1>1, <1>10
  <1>12. recent * long \in Int /\ whole * short \in Int
    BY <1>1, <1>10
  <1> QED
    BY <1>8, <1>9, <1>11, <1>12
=============================================================================
