----------------------------- MODULE MCMarketMaker -----------------------------
(* Values for model checking MarketMaker.  Spread and level spread are those  *)
(* of market_maker/src/config.ts and strategy/marketMaker.ts.                 *)
EXTENDS MarketMaker

CONSTANTS c1, c2, r1, r2

\* SOL-USDT-PERP in ticks of 0.01: the bid of 15030 is above the ask of 15000.
MCReference == {15000, 15030}

\* Two bids at one price.
MCRestOrder == {r1, r2}
MCRestAt    == (r1 :> <<"buy", 1>>) @@ (r2 :> <<"buy", 1>>)

ASSUME Fine == FineTick

\* A behaviour has orders placed over REST, or more than one quote.
MCNext == Next /\ (Len(made') > 1 => rest'.open \union rest'.shown = {})

MCSpec == Init /\ [][MCNext]_vars /\ WF_vars(Shutdown)
=============================================================================
