----------------------------- MODULE MCConvert -----------------------------
(* Messages for Convert: two services, three fields, one value that must be  *)
(* quoted, one that does not convert, messages with and without a new        *)
(* symbol, one message that does not unpack, one of a symbol that is         *)
(* filtered out and one of a service not configured.                         *)
EXTENDS Convert

Message1 == [service |-> "IDN", symbol |-> "X", renamed |-> FALSE, unpacks |-> TRUE,
             fields |-> [BID |-> "1", ASK |-> "1,5"]]
Message2 == [service |-> "IDN", symbol |-> "Y", renamed |-> TRUE, unpacks |-> TRUE,
             fields |-> [BID |-> "n/a", LAST |-> "2"]]
Message3 == [service |-> "ELEKTRON", symbol |-> "X", renamed |-> TRUE, unpacks |-> TRUE,
             fields |-> [BID |-> "3"]]
Message4 == [service |-> "IDN", symbol |-> "X", renamed |-> FALSE, unpacks |-> FALSE,
             fields |-> [TIME |-> "4"]]
Message5 == [service |-> "IDN", symbol |-> "Z", renamed |-> TRUE, unpacks |-> TRUE,
             fields |-> [TIME |-> "5"]]
Message6 == [service |-> "OTHER", symbol |-> "X", renamed |-> FALSE, unpacks |-> TRUE,
             fields |-> [BID |-> "6"]]

SixMessages == {Message1, Message2, Message3, Message4, Message5, Message6}

BothServices == {"IDN", "ELEKTRON"}
OwnFiles == [s \in BothServices |-> IF s = "IDN" THEN "IDN.csv" ELSE "ELEKTRON.csv"]

XAndY == {"X", "Y"}
Quotable == {"1,5"}
=============================================================================
