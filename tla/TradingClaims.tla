---------------------------- MODULE TradingClaims ----------------------------
(* What docstrings of the repository say about the trading tables, stated as *)
(* properties that process_signal turns out not to have.                     *)
EXTENDS MCTrading

\* TradeOrderRepository keeps orders "so operations teams can inspect every
\* submission attempt": once the request is over, an order that went to the
\* broker has its row.
EverySubmissionAttemptRecorded ==
    \A r \in Requests :
        pc[r] \in {"done", "failed"} /\ placed[r] > 0 => orders[r] # None

\* What the orders of a symbol add up to, and what its position row says.
NetOrdered(s) ==
    MapThenSumSet(LAMBDA r : IF orders[r].action = "BUY"
                             THEN request[r].quantity ELSE -request[r].quantity,
                  {r \in Requests : request[r].symbol = s /\ orders[r] # None})
Exposure(row) ==
    IF row = None THEN 0 ELSE IF row.side = "LONG" THEN row.quantity ELSE -row.quantity

\* The positions table is "the platform's internal view of symbol exposure":
\* between requests, a row is the net of the symbol's recorded orders.
PositionIsNetExposure ==
    (\A r \in Requests : pc[r] \in Ended \cup {"idle"}) =>
        \A s \in Symbols : Exposure(positions[s]) = NetOrdered(s)
=============================================================================
