----------------------------- MODULE RiskPolicy -----------------------------
(***************************************************************************)
(* The account snapshot of app/services/portfolio_service.py and the risk  *)
(* rule of app/services/risk_manager.py, as operators.  Money is in whole  *)
(* currency units and percentages in basis points, so that the divisions   *)
(* of the code become comparisons of products and stay exact.              *)
(***************************************************************************)
EXTENDS Integers

CONSTANTS
    MaxCapitalAtRiskBps,  \* settings.max_capital_at_risk_pct
    MaxDrawdownBps,       \* settings.max_drawdown_pct
    PaperAccountEquity    \* settings.paper_account_equity

BPS == 10000

ASSUME SettingsAreNumbers ==
    /\ MaxCapitalAtRiskBps \in Int
    /\ MaxDrawdownBps \in Int
    /\ PaperAccountEquity \in Int

\* Settings.py accepts any number.  These are the values for which the two
\* checks of validate_trade amount to a limit: without them an account worth
\* nothing passes both.
ASSUME LimitsAreLimits ==
    /\ MaxCapitalAtRiskBps >= 0
    /\ MaxDrawdownBps < BPS
    /\ PaperAccountEquity > 0

\* A snapshot is where the figures come from and the net liquidation value.
Sources == {"paper", "ibkr"}
PaperSnapshot == [source |-> "paper", net |-> PaperAccountEquity]
LiveSnapshot(net) == [source |-> "ibkr", net |-> net]

\* highest_equity: the larger of the account's value and the paper setting.
HighestEquity(net) == IF net > PaperAccountEquity THEN net ELSE PaperAccountEquity

\* drawdown_pct > max_drawdown_pct, with drawdown_pct the relative distance
\* from the highest equity: 0 for a paper snapshot and when that highest
\* equity is 0, never below 0.
DrawdownExceeded(snapshot) ==
    LET highest == HighestEquity(snapshot.net)
        lost    == highest - snapshot.net
    IN  IF snapshot.source = "paper" \/ highest = 0
        THEN 0 > MaxDrawdownBps
        ELSE \/ 0 > MaxDrawdownBps
             \/ highest > 0 /\ lost * BPS > MaxDrawdownBps * highest

\* capital_at_risk_pct > max_capital_at_risk_pct.  The code divides by the
\* account equity: 0 is special-cased, a negative equity flips the comparison.
CapitalAtRiskExceeded(quantity, price, equity) ==
    LET notional == quantity * price
        limit    == MaxCapitalAtRiskBps * equity
    IN  \/ equity > 0 /\ notional * BPS > limit
        \/ equity = 0 /\ 0 > MaxCapitalAtRiskBps
        \/ equity < 0 /\ notional * BPS < limit

\* Mutants: the drawdown check, or the HOLD check, is dropped.
RiskApprovesAnyDrawdown(action, quantity, price, snapshot) ==
    /\ action # "HOLD"
    /\ ~CapitalAtRiskExceeded(quantity, price, snapshot.net)

RiskApprovesHold(action, quantity, price, snapshot) ==
    /\ ~CapitalAtRiskExceeded(quantity, price, snapshot.net)
    /\ ~DrawdownExceeded(snapshot)

\* validate_trade returns True (any other outcome raises RiskViolationError).
RiskApproves(action, quantity, price, snapshot) ==
    /\ action # "HOLD"
    /\ ~CapitalAtRiskExceeded(quantity, price, snapshot.net)
    /\ ~DrawdownExceeded(snapshot)

\* What a trader means by the two limits: the account is worth something, the
\* order costs at most the agreed share of it, and the account has not fallen
\* further than agreed from the equity the platform was set up with.
WithinLimits(quantity, price, net) ==
    /\ net > 0
    /\ quantity * price * BPS <= MaxCapitalAtRiskBps * net
    /\ (PaperAccountEquity - net) * BPS <= MaxDrawdownBps * PaperAccountEquity
=============================================================================
