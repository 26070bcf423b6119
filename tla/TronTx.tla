------------------------------- MODULE TronTx -------------------------------
(***************************************************************************)
(* The unsigned transactions of TronApi.cpp and the JSON they are shown    *)
(* as.  A contract is a protocol buffer (Tron/Transaction.proto): its      *)
(* fields are known by number and kind, and a field of no bytes or of the  *)
(* number 0 is not there.  Bytes are a sequence of what they stand for.    *)
(***************************************************************************)
EXTENDS Integers, Sequences

Bytes(n) == <<n, "bytes">>
Varint(n) == <<n, "varint">>

\* The messages of Transaction.proto, and their fields.
Schema ==
  [TransferContract |->
     [owner_address |-> Bytes(1), to_address |-> Bytes(2), amount |-> Varint(3)],
   TransferAssetContract |->
     [asset_name |-> Bytes(1), owner_address |-> Bytes(2), to_address |-> Bytes(3),
      amount |-> Varint(4)],
   TriggerSmartContract |->
     [owner_address |-> Bytes(1), contract_address |-> Bytes(2), call_value |-> Varint(3),
      data |-> Bytes(4)],
   FreezeBalanceContract |->
     [owner_address |-> Bytes(1), frozen_balance |-> Varint(2), frozen_duration |-> Varint(3),
      resource |-> Varint(10), receiver_address |-> Bytes(15)],
   UnfreezeBalanceContract |->
     [owner_address |-> Bytes(1), resource |-> Varint(10), receiver_address |-> Bytes(15)]]

Fields(type) == DOMAIN Schema[type]
Default(kind) == IF kind = "bytes" THEN <<>> ELSE 0

\* SerializeToArray and ParseFromArray; a field unknown to a type is passed over.
Serialize(type, value) ==
  LET set == {f \in DOMAIN value : value[f] # Default(Schema[type][f][2])}
  IN  {<<Schema[type][f], value[f]>> : f \in set}

Parse(type, message) ==
  [f \in Fields(type) |->
     IF \E m \in message : m[1] = Schema[type][f]
     THEN (CHOOSE m \in message : m[1] = Schema[type][f])[2]
     ELSE Default(Schema[type][f][2])]

Raw(frame, fee_limit, type, value) ==
  [ref_block |-> frame.ref_block, expiration |-> frame.expiration, fee_limit |-> fee_limit,
   timestamp |-> frame.timestamp, type |-> type, parameter |-> Serialize(type, value)]

(***************************************************************************)
(* The builders return "" or a transaction, {} or a set of one; Throws     *)
(* says whether they throw.                                                *)
(***************************************************************************)
FeeLimit == 1000000
Now == 1000       \* the clock
OneHour == 3600
Frame(block_id) ==
  [ref_block |-> block_id, expiration |-> Now + OneHour, timestamp |-> Now]

make_unsigned_tx_trc10(r) ==
  IF ~r.addresses THEN {}
  ELSE LET transfer == [owner_address |-> r.from, to_address |-> r.to, amount |-> r.amount]
       IN  {IF r.token = "TRX" THEN Raw(Frame(r.block_id), 0, "TransferContract", transfer)
            ELSE Raw(Frame(r.block_id), 0, "TransferAssetContract",
                     [f \in Fields("TransferAssetContract") |->
                        IF f = "asset_name" THEN <<r.token>> ELSE transfer[f]])}

make_unsigned_tx_trc20(r) ==
  IF ~r.addresses THEN {}
  ELSE {Raw(Frame(r.block_id), FeeLimit, "TriggerSmartContract",
            [owner_address |-> r.from, contract_address |-> r.contract,
             data |-> <<"transfer(address,uint256)", r.to, r.amount>>])}

\* What the builders from JSON read of each type of contract.
Reads ==
  [TransferContract |-> Fields("TransferContract"),
   TriggerSmartContract |-> Fields("TriggerSmartContract"),
   FreezeBalanceContract |-> Fields("FreezeBalanceContract") \ {"receiver_address"},
   UnfreezeBalanceContract |-> Fields("UnfreezeBalanceContract") \ {"receiver_address"}]

\* The texts beside the value, and those of the value that are read.
Texts == {"type", "ref_block_bytes", "ref_block_hash", "type_url"}
TextsOf(type) == {f \in Reads[type] : Schema[type][f][2] = "bytes"}

\* A text that is not there is "", of which the quotation marks are cut off.  The type
\* is read first, and the rest only for a type that is known.
JsonThrows(j) ==
  \/ "type" \notin j.texts
  \/ /\ j.type \in DOMAIN Reads
     /\ ~(Texts \subseteq j.texts /\ TextsOf(j.type) \subseteq DOMAIN j.value)

make_unsigned_tx_from_json(j) ==
  IF j.type \notin DOMAIN Reads THEN {}
  ELSE {Raw(j, j.fee_limit, j.type, [f \in Reads[j.type] \cap DOMAIN j.value |-> j.value[f]])}

Json(raw, fee_limit, value) ==
  [texts |-> Texts, type |-> raw.type, value |-> value, ref_block |-> raw.ref_block,
   expiration |-> raw.expiration, fee_limit |-> fee_limit, timestamp |-> raw.timestamp]

\* trx10_to_json writes no fee limit.
trx10_to_json(token, raw) ==
  Json(raw, 0, Parse(IF token = "TRX" THEN "TransferContract" ELSE "TransferAssetContract",
                     raw.parameter))

\* Slip: no fee limit here either.
trx20_to_json_free(raw) == Json(raw, 0, Parse("TriggerSmartContract", raw.parameter))

\* trx20_to_json reads every contract as the call of a smart contract.
trx20_to_json(raw) ==
  Json(raw, raw.fee_limit, Parse("TriggerSmartContract", raw.parameter))

=============================================================================
