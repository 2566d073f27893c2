----------------------------- MODULE UrlValues -----------------------------
(***************************************************************************)
(* What the parts of a URL hold: the number of a port, and the keys and    *)
(* values of a query.                                                      *)
(***************************************************************************)
EXTENDS UrlParse, Numbers

PORT_UNSPECIFIED == -1
PORT_INVALID == -2

kMaxDigits == 5

\* Bug: leading zeros count as digits.
SignificantDigits_All(spec, port) == port

SignificantDigits(spec, port) ==
  MakeRange(Min({i \in port.begin .. EndOf(port) - 1 : CharAt(spec, i) # "0"} \cup {EndOf(port)}),
            EndOf(port))

ParsePort(spec, port) ==
  LET digits == Part(spec, SignificantDigits(spec, port))
  IN  IF ~IsNonempty(port) THEN PORT_UNSPECIFIED
      ELSE IF \/ Len(digits) > kMaxDigits
              \/ \E i \in DOMAIN digits : digits[i] \notin DOMAIN DigitValue
              \/ atoi(digits) > 65535
      THEN PORT_INVALID
      ELSE atoi(digits)

\* Bug: the separator is looked for behind the first symbol of the value.
NextPair_Behind(spec, from, end) ==
  LET amp == FirstOf(spec, from + 1, end, {"&"})
  IN  IF amp < end THEN amp + 1 ELSE end

\* Where the next pair begins, behind the & if there is one.
NextPair(spec, from, end) ==
  LET amp == FirstOf(spec, from, end, {"&"})
  IN  IF amp < end THEN amp + 1 ELSE amp

\* The first pair of a query and what is left of it; for a query that is not
\* empty.
ExtractQueryKeyValue(spec, query) ==
  LET end == EndOf(query)
      sep == FirstOf(spec, query.begin, end, {"&", "="})
      from == IF sep < end /\ CharAt(spec, sep) = "=" THEN sep + 1 ELSE sep
  IN  [key |-> MakeRange(query.begin, sep),
       value |-> MakeRange(from, FirstOf(spec, from, end, {"&"})),
       query |-> MakeRange(NextPair(spec, from, end), end)]

\* The loop of torikuru_t::Init over the pairs, as the sequence of them.
RECURSIVE QueryPairs(_, _)
QueryPairs(spec, query) ==
  IF ~IsNonempty(query) THEN <<>>
  ELSE LET first == ExtractQueryKeyValue(spec, query)
       IN  <<[key |-> first.key, value |-> first.value]>> \o QueryPairs(spec, first.query)
=============================================================================
