------------------------------ MODULE MCInputs ------------------------------
(***************************************************************************)
(* What the user types.  Every short text over a few symbols is given to   *)
(* the algorithm it is meant for: it grows from one of the seeds of its    *)
(* subject, a symbol at a time.  The seeds hold what a longer text begins  *)
(* with, so that the parts at the end of a URL are reached as well as      *)
(* those at its beginning.  And lists of up to three session URLs, in the  *)
(* parts the parser finds, become RFA's configuration.                     *)
(***************************************************************************)
EXTENDS RfaConfig, TextPromises

http == <<"a", ":", "/", "/">>

SomeSymbols ==
  [url |-> {"a", ":", "/", "@", "?", "#", "[", "]", ";", " "},
   port |-> {"0", "3", "5", "6", "a"},
   query |-> {"a", "b", "&", "="},
   split |-> {"a", "b", ",", " "},
   pairs |-> {"a", "1", "=", ",", " "},
   format |-> {"a", "0", "1", "2", "$"},
   glob |-> {"a", "b", "/", "\\", "*", "?", "="},
   vmodule |-> {"a", "/", "*", "=", "1", "-", ","},
   file |-> {"a", "-", "i", ".", "/"},
   print |-> {1, 1022, 1024, 8 * 1024 * 1024, 24 * 1024 * 1024 - 1}]

SomeSeeds ==
  [url |-> {<<>>, <<"\\">>, http, http \o <<"a", ":">>, http \o <<"a", "@", "[">>,
            http \o <<"a", ":", "a", "@", "a", "/">>, http \o <<"a", "/", "a">>},
   port |-> {<<>>}, query |-> {<<>>}, split |-> {<<>>}, pairs |-> {<<>>}, format |-> {<<>>},
   glob |-> {<<>>, <<"*", "a">>, <<"a", "?", "*", "=">>},
   vmodule |-> {<<>>, <<"a", "=", "1", ",">>},
   file |-> {<<>>, <<"a">> \o InlSuffix, <<"a", ".", "a", "/", "a">> \o InlSuffix},
   print |-> {<<>>}]

SomeGrowth ==
  [url |-> 4, port |-> 6, query |-> 6, split |-> 6, pairs |-> 6, format |-> 6, glob |-> 5,
   vmodule |-> 5, file |-> 5, print |-> 3]

\* Lists of session URLs: both protocols and an unsupported one, services given,
\* shared or absent, and optional parts.
Services == {"IDN", "ELEKTRON"}

NoQuery == <<>>
Dacs == <<[key |-> "position", value |-> "net"], [key |-> "application-id", value |-> "256"],
          [key |-> "application-id", value |-> "257"]>>
OnlyPosition == <<[key |-> "position", value |-> "net"]>>

Ssled(service, host, port, query) ==
  [protocol |-> "SSLED", user |-> "user1", host |-> host, port |-> port, service |-> service,
   query |-> query]
Rssl(service, host, port) ==
  [protocol |-> "RSSL", user |-> Absent, host |-> host, port |-> port, service |-> service,
   query |-> NoQuery]

\* Ten digits, and what may become of them.
Overlong10 == [i \in 1 .. 10 |-> "9"]
AnyPorts == {0, -1}

SomeUrls ==
  {Ssled(x, "ads1", <<"8", "1", "0", "1">>, Dacs) : x \in Services}
    \cup {Ssled("IDN", Absent, Absent, OnlyPosition), Ssled(Absent, "ads2", <<"0", "9", "a">>, NoQuery)}
    \cup {Ssled("ELEKTRON", "ads3", <<"a">>, NoQuery), Ssled("ELEKTRON", "ads3", Overlong10, NoQuery)}
    \cup {Rssl("IDN", "ads2", <<"1", "4", "0", "0", "2">>), Rssl("ELEKTRON", "ads3", Absent)}
    \cup {[Rssl("IDN", "ads1", Absent) EXCEPT !.protocol = "HTTP"]}

Users == {"user1", "user2", Absent}

SomeLogNames == {"user2", Absent}

\* Every string of the URLs, of LOGNAME, and of the defaults.
SomeTexts ==
  Services \cup Users \cup {"", "localhost", "ads1", "ads2", "ads3"}
    \cup {"RSSL", "SSLED", "HTTP", "position", "application-id", "net", "256", "257"}

UpToThree == BoundedSeq(SomeUrls, 3)

-----------------------------------------------------------------------------
NoUrls == pc = "urls" /\ urls = << >>

\* Either a text or a list of session URLs is looked at.
InputsInit ==
  /\ Init
  /\ \/ subject = "connections" /\ text = << >> /\ grown = 0
     \/ Begin /\ NoUrls /\ log_name = Absent

TypedOut == grown = MaxGrowth[subject] /\ UNCHANGED textVars

InputsNext ==
  \/ subject # "connections" /\ (Typing \/ TypedOut) /\ UNCHANGED vars
  \/ subject = "connections" /\ Next /\ UNCHANGED textVars

InputsSpec == InputsInit /\ [][InputsNext]_<<vars, textVars>>

-----------------------------------------------------------------------------
\* ParsePort reads a decimal number up to 65535, however many zeros it begins
\* with.
PortIsNumber ==
  subject = "port" => U!ParsePort(text, U!Component(0, Len(text))) = PortOf(text)

\* The loop of torikuru_t::Init over ExtractQueryKeyValue finds the pairs of
\* the query, and ends.
QueryIsPairs ==
  subject = "query" =>
    LET pairs == U!QueryPairs(text, U!Component(0, Len(text)))
    IN  [i \in DOMAIN pairs |->
           [key |-> U!Part(text, pairs[i].key), value |-> U!Part(text, pairs[i].value)]]
          = PairsOf(text)

\* SplitString is the inverse of JoinString and trims each part, and
\* SplitStringUsingSubstr agrees with it; the words of SplitStringAlongWhitespace
\* (the symbols of a capture) are the runs between spaces.
SplitIsInverse ==
  subject = "split" =>
    LET parts == SplitStringDontTrim(text, ",")
    IN  /\ IsSplit(text, ",", parts)
        /\ SplitString(text, ",") = [k \in DOMAIN parts |-> TrimWhitespace(parts[k])]
        /\ SplitStringUsingSubstr(text, <<",">>) = SplitString(text, ",")
        /\ SplitStringAlongWhitespace(text) = WordsOf(text)

\* SplitStringIntoKeyValuePairs keeps the keys and values as written, those
\* that lack one too, and says so.
PairsAsWritten ==
  subject = "pairs" =>
    LET result == SplitStringIntoKeyValuePairs(text, "=", ",")
    IN  /\ result.pairs = PairListOf(text)
        /\ result.ok = \A i \in DOMAIN result.pairs : result.pairs[i].value # <<>>

Parameters == <<<<"x">>, <<"y", "z">>>>

\* No placeholder is $0, which the code's own DCHECK calls invalid.
NoZero == \A i \in DOMAIN text : Numbered(text, i) => text[i + 1] # "0"

\* No placeholder has a digit behind its own.
OneDigitEach ==
  \A i \in DOMAIN text : Numbered(text, i) /\ i + 1 < Len(text) => text[i + 2] \notin Digits

\* Every placeholder $1..$9 of a format, such as the service in an output path,
\* is replaced by its parameter, every run of $ by one less, and the rest stays;
\* the offsets tell where the parameters have come to stand, in their order.
\* A digit behind one is left out: string_util.hh:129-132 makes it a digit of
\* the text, and the loop at string_util.cc:174 a digit of the placeholder.
PlaceholdersReplaced ==
  subject = "format" /\ NoZero /\ OneDigitEach =>
    LET result == ReplaceStringPlaceholders(text, Parameters)
    IN  /\ result.text = FormatOf(text, Parameters)
        /\ OffsetsPointAt(text, Parameters, result)

\* The matching of --vmodule patterns is that of globs.
GlobIsCut ==
  subject = "glob" /\ Cardinality({i \in DOMAIN text : text[i] = "="}) = 1 =>
    LET cut == SplitStringDontTrim(text, "=")
    IN  MatchVlogPattern(cut[2], cut[1]) = GlobMatches(cut[2], cut[1])

SourceFiles == {<<"a">>, <<"a", "/", "a">>, <<"1", "/", "a", ".", "1">>}

\* A source file logs at the level of the first pattern of --vmodule that
\* matches it, the path if the pattern has a slash and its module if not, and
\* at that of --v if none does.  Its module is its name without directory,
\* extension and -inl, wherever there are dots and dashes.
LevelAsAsked ==
  /\ subject = "vmodule" =>
       \A file \in SourceFiles : \A v \in {<<>>, <<"2">>} :
         GetVlogLevel(VmoduleLevels(text), MinLogLevel(v, 0), file)
           = LevelOf(PairListOf(text), atoi(v), file)
  /\ subject = "file" => IsModuleOf(GetModule(text), text)

\* StringPrintf gives all of an output or nothing, also at the sizes at which
\* its buffer grows and where it gives up.
PrintedWhole ==
  subject = "print" =>
    LET need == FoldLeft(+, 0, text)
    IN  \A kind \in {"counts", "overflows", "fails"} :
          IsPrinted(need, kind, StringAppendV(need, kind))
=============================================================================
