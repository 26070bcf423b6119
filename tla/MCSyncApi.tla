----------------------------- MODULE MCSyncApi ------------------------------
(***************************************************************************)
(* Replies of every shape the parsers tell apart, and markets with one and *)
(* with two exchanges, one without a price of ETH.                         *)
(***************************************************************************)
EXTENDS SyncApi, TLC

MCCoins == {"usdt", "eth", "btc", "ht", "bhp"}

Good(total, frozen) ==
  [NoReply EXCEPT !.form = "object", !.code = <<200>>, !.data = "object",
                  !.complete = TRUE, !.balance = total, !.froze_amount = frozen]
Error(code) ==
  [NoReply EXCEPT !.form = "object", !.error = "object", !.error_code = code]

MCReplies ==
  {Good(7, 2), Good(1, 2), [Good(0, 0) EXCEPT !.complete = FALSE],
   [Good(5, 0) EXCEPT !.code = <<500>>], [Good(5, 0) EXCEPT !.code = <<0>>],
   [Good(5, 0) EXCEPT !.data = "other"], Error(<<401>>), Error(<<0>>), Error(<<>>),
   [Error(<<>>) EXCEPT !.error = "other"],
   [Good(5, 0) EXCEPT !.error = "object", !.error_code = <<200>>],
   [NoReply EXCEPT !.form = "array"], NoReply}

Quotes(exchange) ==
  [NoMarket EXCEPT !.form = "object", !.exchange = exchange, !.ok = TRUE, !.usdt_cny = 7]

MCMarkets ==
  {Quotes(<<(<<"btc", "usdt">> :> 50) @@ (<<"eth", "usdt">> :> 20) @@ (<<"ht", "eth">> :> 2)
            @@ (<<"bhp", "btc">> :> 3)>>),
   Quotes(<<(<<"eth", "usdt">> :> 20) @@ (<<"ht", "btc">> :> 1),
            (<<"eth", "usdt">> :> 21) @@ (<<"btc", "usdt">> :> 60) @@ (<<"ht", "eth">> :> 3)>>),
   Quotes(<<(<<"btc", "usdt">> :> 50) @@ (<<"ht", "eth">> :> 2) @@ (<<"ht", "btc">> :> 1)>>),
   [Quotes(<<>>) EXCEPT !.ok = FALSE], [NoMarket EXCEPT !.form = "array"], NoMarket}

=============================================================================
