----------------------------- MODULE MCAsyncApi -----------------------------
(***************************************************************************)
(* Replies each parser accepts, replies it does not, and lines of GateIO   *)
(* that, like its tickers, have "result": "true" and a "last" or not.      *)
(***************************************************************************)
EXTENDS AsyncApi

Good(type, name) ==
  [NoReply EXCEPT !.http = TRUE, !.form = "object", !.code = 200, !.data = type,
                  !.member = name]

MCReplies ==
  {Good("object", "balance"), Good("array", "none"), NoReply}

Ticker(result, last) ==
  [NoReply EXCEPT !.http = TRUE, !.form = "object", !.result = result, !.last = last]

MCTickers == {Ticker(TRUE, 7), Ticker(FALSE, 0)}

MCLines == {[Ticker(TRUE, 0) EXCEPT !.data = "array"], NoReply}

=============================================================================
