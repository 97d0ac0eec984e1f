---------------------------- MODULE StrategyEngine ----------------------------
(***************************************************************************)
(* The moving-average crossover of app/services/strategy_engine.py and the  *)
(* demo series of app/services/market_data_service.py.  Closes are integers *)
(* and averages are compared multiplied out, as fractions: a float rounds   *)
(* equal fractions to equal averages as long as the sums are exact.         *)
(***************************************************************************)
EXTENDS Integers, Sequences, SequencesExt

CONSTANT DemoStep  \* what a demo series rises by with each bar

Total(closes) ==
    LET sum[i \in 0..Len(closes)] == IF i = 0 THEN 0 ELSE sum[i - 1] + closes[i]
    IN  sum[Len(closes)]

\* Mutant: the slice takes the oldest closes.
Oldest(closes, n) == SubSeq(closes, 1, n)

\* closes[-n:]
Latest(closes, n) == SubSeq(closes, Len(closes) - n + 1, Len(closes))

\* What the engine accepts; anything else is a StrategyError.
Evaluable(closes, windows) ==
    /\ windows.long > windows.short
    /\ Len(closes) >= windows.long

\* evaluate_moving_average_crossover: the short average against the long one.
Crossover(closes, windows) ==
    LET short == Total(Latest(closes, windows.short)) * windows.long
        long  == Total(Latest(closes, windows.long)) * windows.short
    IN  IF short > long THEN "BUY" ELSE IF short < long THEN "SELL" ELSE "HOLD"

\* _build_synthetic_bars.
SyntheticBars(base, limit) == [i \in 1..limit |-> base + (i - 1) * DemoStep]

\* What the closes say without the engine: the average of the short window less
\* that of the bars before it, both in the long window, in some positive unit.
Edge(closes, windows) ==
    LET n == Len(closes)
        recent  == SubSeq(closes, n - windows.short + 1, n)
        earlier == SubSeq(closes, n - windows.long + 1, n - windows.short)
    IN  Total(recent) * (windows.long - windows.short) - Total(earlier) * windows.short
=============================================================================
