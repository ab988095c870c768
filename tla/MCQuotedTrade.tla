----------------------------- MODULE MCQuotedTrade -----------------------------
(* Usable ticks -8..8 in words of two, a price scale of 64 and a gate scale   *)
(* of 10, so that every division rounds.  The pools have one range, two with  *)
(* a gap between them, two that overlap, and two far apart; every price is a  *)
(* state of each, and so is every tick just crossed downwards.                *)
EXTENDS QuotedTrade

MCPrices == {<<0, 1>>, <<1, 1>>, <<3, 2>>, <<5, 3>>}
MCAmounts == 0..50

MCMinTick == -8
MCMaxTick == 8
Ratios == <<43, 46, 48, 50, 53, 55, 58, 61, 64, 67, 71, 74, 78, 82, 86, 90, 95>>
MCRatio == [t \in MCMinTick..MCMaxTick |-> Ratios[t + 9]]

\* Positions <<lower tick, upper tick, liquidity>>.
Layouts == {{<<-6, 6, 40>>},
            {<<-6, -2, 40>>, <<2, 6, 60>>},
            {<<-4, 0, 70>>, <<-2, 4, 30>>},
            {<<-6, -4, 64>>, <<4, 6, 64>>}}
NetsOf(layout) ==
    [t \in {p[1] : p \in layout} \cup {p[2] : p \in layout} |->
        MapThenSumSet(LAMBDA r : IF r[1] = t THEN r[3] ELSE -r[3],
                      {r \in layout : t \in {r[1], r[2]}})]
PoolAt(layout, p, tick, feePips) ==
    LET nets == NetsOf(layout)
    IN  [sqrtP |-> p, tick |-> tick, fee |-> feePips, nets |-> nets,
         liquidity |-> MapThenSumSet(LAMBDA t : nets[t], {t \in DOMAIN nets : t <= tick})]

MCPools ==
    {PoolAt(layout, p, TickAt(p), feePips) :
        layout \in Layouts, p \in 46..90, feePips \in {0, 3}} \cup
    {PoolAt(layout, MCRatio[tick + 1], tick, feePips) :
        layout \in Layouts, tick \in {-7, -5, -3, -1, 1, 3, 5}, feePips \in {0, 3}}
MCInputs == {1, 3, 9, 17, 40}
=============================================================================
