------------------------------ MODULE MCHeaderApi ------------------------------
(* HeaderApi on small headers: two legal spellings of one name, with        *)
(* another legal name or with a name only a file can hold.                 *)
EXTENDS HeaderApi

MCCanon == [n \in Names |-> IF n = "GAIN" THEN "gain" ELSE n]

Batch(names, values) == [names |-> names, values |-> values]

MCSetBatches ==
  { Batch(<<"GAIN", "DATE">>, <<"1", "2">>),
    Batch(<<"GAIN", "gain">>, <<"1", "2">>),
    Batch(<<"gain">>, <<"2">>) }
MCRemoveBatches == { <<"DATE", "gain">>, <<"GAIN", "gain">>, << >> }

MCIllegalSetBatches == { Batch(<<"gain", "B@D">>, <<"2", "1">>), Batch(<<"gain">>, <<"2">>) }
MCIllegalRemoveBatches == { <<"B@D", "gain">> }
===============================================================================
