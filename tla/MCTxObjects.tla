---------------------------- MODULE MCTxObjects ----------------------------
(***************************************************************************)
(* Two good orders and a bad one for each coin; for TRON one of each way   *)
(* and type that is read, and orders whose builders fail or throw.         *)
(***************************************************************************)
EXTENDS TxObjects

MCEosOrders ==
  {EosOrder(TRUE, <<"a">>, <<>>), EosOrder(TRUE, <<"b">>, <<{<<"b">>}>>),
   EosOrder(FALSE, <<>>, <<>>)}

MCEthOrders == {EthOrder(TRUE, "a"), EthOrder(TRUE, "b"), EthOrder(FALSE, "none")}

Request(token, addresses, block_id) ==
  [token |-> token, contract |-> <<"contract">>, addresses |-> addresses,
   block_id |-> block_id, from |-> <<"from">>, to |-> <<"to">>, amount |-> 5]

Partly(texts, type, value) ==
  TrxOrder(TRUE, "transaction",
    [texts |-> texts, type |-> type, value |-> value, ref_block |-> <<"block">>, expiration |-> 9,
     fee_limit |-> 3, timestamp |-> 8])

FromJson(type, value) == Partly(Texts, type, value)
Trigger ==
  [owner_address |-> <<"from">>, contract_address |-> <<"contract">>, call_value |-> 4,
   data |-> <<"data">>]

MCTrxOrders ==
  {TrxOrder(TRUE, "token", Request(token, TRUE, <<"block">>)) : token \in {"TRX", "coin"}}
  \cup {TrxOrder(TRUE, "contract", Request("none", addresses, <<"block">>)) :
          addresses \in BOOLEAN}
  \cup {TrxOrder(TRUE, "token", Request("TRX", TRUE, <<>>)),
        TrxOrder(FALSE, "token", Request("TRX", TRUE, <<>>)),
        FromJson("TransferContract",
                 [owner_address |-> <<"from">>, to_address |-> <<"to">>, amount |-> 5]),
        FromJson("TransferContract", [owner_address |-> <<"from">>, amount |-> 5]),
        FromJson("TriggerSmartContract", Trigger),
        Partly({}, "TriggerSmartContract", Trigger),
        Partly({"type"}, "TriggerSmartContract", Trigger),
        Partly({"type"}, "VoteWitnessContract", Trigger),
        FromJson("FreezeBalanceContract",
                 [owner_address |-> <<"from">>, frozen_balance |-> 5, frozen_duration |-> 3,
                  resource |-> 1, receiver_address |-> <<"to">>])}

=============================================================================
