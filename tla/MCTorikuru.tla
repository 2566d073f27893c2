----------------------------- MODULE MCTorikuru -----------------------------
(* Values for the constants of Torikuru that a configuration file cannot     *)
(* write: symbol lists and the protocol of each session.                     *)
EXTENDS Torikuru, TLC

CONSTANTS s1, s2

OneSymbol == <<"A">>
TwoSymbols == <<"A", "B">>
RepeatedSymbol == <<"A", "B", "A">>

AllSsled == [s \in Sessions |-> "SSLED"]
AllRssl == [s \in Sessions |-> "RSSL"]
Mixed == s1 :> "SSLED" @@ s2 :> "RSSL"

BothFormats == BOOLEAN
OnlyMarketfeed == {TRUE}
=============================================================================
