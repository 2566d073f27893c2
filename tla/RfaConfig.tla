----------------------------- MODULE RfaConfig -----------------------------
(***************************************************************************)
(* From --session URLs to RFA's configuration.  torikuru_t::Init turns     *)
(* each URL into a session_config_t, filling in defaults and naming its    *)
(* RFA session, connection and consumer after the service; rfa_t::Init     *)
(* then writes the entries of every session into one staging database and  *)
(* merges it into the live one.  Sessions of the same service share their  *)
(* names, and so write the same entries.                                   *)
(*                                                                         *)
(* A URL is what the parser finds in it: parts that may be absent, and     *)
(* the key-value pairs of its query.  The port is the text it is written   *)
(* as, since an SSLED session makes a number of it.  The protocol's case   *)
(* is ignored.                                                             *)
(***************************************************************************)
EXTENDS Numbers

CONSTANTS
  Texts,      \* strings, the parts and entries being some
  Names,      \* service names, after which sessions and connections are named
  UrlLists,   \* the lists of URLs a command line may give
  LogNames,   \* values of the environment variable LOGNAME, Absent if unset
  Absent,     \* a part that is not there
  UndefinedPorts,  \* what atoi may make of a port of too many digits
  RfaMayFail  \* the dictionary may be missing, RFA may refuse the database

Query == Seq([key : Texts, value : Texts])

Port == Seq(STRING)

Url == [protocol : Texts, user : Texts, host : Texts, port : Port \cup {Absent},
        service : Names \cup {Absent}, query : Query]

ASSUME UrlAssumption ==
  /\ Names \subseteq Texts /\ {"", "localhost"} \subseteq Texts
  /\ UrlLists \subseteq Seq(Url)
  /\ LogNames \subseteq Texts
  /\ UndefinedPorts \subseteq Int
  /\ RfaMayFail \in BOOLEAN

Session == [protocol : Texts, user : Texts, server : Texts, port : Port,
            service : Names \cup {""}, application : Texts, position : Texts]

VARIABLES
  pc,        \* "urls", "staging", "merge", "merged", "failed", "crashed"
  log_name,  \* LOGNAME
  given,     \* the URLs of the command line
  urls,      \* those still to be parsed
  sessions,  \* config_.sessions
  staged,    \* sessions written to the staging database
  staging    \* entries: <<name, key>> -> value, Unset where there is none

vars == <<pc, log_name, given, urls, sessions, staged, staging>>

Keys == {"connectionList", "serverList", "connectionType", "rsslPort", "portNumber", "userName"}

Paths == (Names \cup {""}) \X Keys

Unset == <<>>

\* An RSSL port is written as text, an SSLED one as a long integer.
EntriesOf(key) ==
  IF key = "rsslPort" THEN Port ELSE IF key = "portNumber" THEN Seq(Int) ELSE Seq(Texts)

Supported == {"RSSL", "SSLED"}

TypeOK ==
  /\ pc \in {"urls", "staging", "merge", "merged", "failed", "crashed"}
  /\ log_name \in LogNames
  /\ {given, urls} \subseteq Seq(Url)
  /\ sessions \in Seq(Session)
  /\ staged \in 0 .. Len(sessions)
  /\ DOMAIN staging = Paths
  /\ \A p \in Paths : staging[p] \in EntriesOf(p[2])

-----------------------------------------------------------------------------
\* torikuru_t::Init: one session_config_t for each URL.

\* Bug: an absent part is copied.
Given_Kept(part, default) == part

Given(part, default) == IF part = Absent THEN default ELSE part

\* A key that is given twice has its last value.
Valued(query, key) ==
  LET hits == {i \in DOMAIN query : query[i].key = key}
  IN  IF hits = {} THEN ""
      ELSE query[CHOOSE i \in hits : \A j \in hits : j <= i].value

SessionOf(url) ==
  [protocol |-> Given(url.protocol, ""),
   user |-> Given(url.user, log_name),
   server |-> Given(url.host, "localhost"),
   port |-> Given(url.port, <<>>),
   service |-> Given(url.service, ""),
   application |-> Valued(url.query, "application-id"),
   position |-> Valued(url.query, "position")]

\* std::string::assign of getenv's null pointer is undefined: the end.
NoUser(url) == url.user = Absent /\ log_name = Absent

Init ==
  /\ pc = "urls"
  /\ log_name \in LogNames
  /\ given \in UrlLists
  /\ urls = given
  /\ sessions = <<>>
  /\ staged = 0
  /\ staging = [p \in Paths |-> Unset]

ParseUrl ==
  /\ pc = "urls" /\ urls # <<>>
  /\ ~NoUser(Head(urls))
  /\ sessions' = Append(sessions, SessionOf(Head(urls)))
  /\ urls' = Tail(urls)
  /\ UNCHANGED <<pc, log_name, given, staged, staging>>

NoUserCrash ==
  /\ pc = "urls" /\ urls # <<>>
  /\ NoUser(Head(urls))
  /\ pc' = "crashed"
  /\ UNCHANGED <<log_name, given, urls, sessions, staged, staging>>

AllParsed ==
  /\ pc = "urls" /\ urls = <<>>
  /\ pc' = "staging"
  /\ UNCHANGED <<log_name, given, urls, sessions, staged, staging>>

-----------------------------------------------------------------------------
\* rfa_t::Init: the entries of a session.

\* Bug: the boilerplate names lack the service.
NameOf_Boilerplate(s) == ""

\* session_name, connection_name and consumer_name.
NameOf(s) == s.service

PortKey(s) == IF s.protocol = "RSSL" THEN "rsslPort" ELSE "portNumber"

Written(s) ==
  {"connectionList", "serverList", "connectionType"}
    \cup (IF s.port = <<>> THEN {} ELSE {PortKey(s)})
    \cup (IF s.protocol = "SSLED" THEN {"userName"} ELSE {})

\* The user name of an SSLED connection, its parts joined by "+": a position
\* is only given after an application id.
DacsUser(s) ==
  IF s.application = "" THEN <<s.user>>
  ELSE IF s.position = "" THEN <<s.user, s.application>>
  ELSE <<s.user, s.application, s.position>>

\* setLong takes what atoi makes of the text of the port.
PortNumbers(port) == IF Overlong(port) THEN UndefinedPorts ELSE {atoi(port)}

Entry(s, key, number) ==
  CASE key = "connectionList" -> <<NameOf(s)>>
    [] key = "serverList" -> <<s.server>>
    [] key = "connectionType" -> <<s.protocol>>
    [] key = "rsslPort" -> s.port
    [] key = "portNumber" -> <<number>>
    [] key = "userName" -> DacsUser(s)

Current == sessions[staged + 1]

StageSession ==
  /\ pc = "staging" /\ staged < Len(sessions)
  /\ Current.protocol \in Supported
  /\ \E number \in PortNumbers(Current.port) :
       staging' = [p \in Paths |-> IF p[1] = NameOf(Current) /\ p[2] \in Written(Current)
                                   THEN Entry(Current, p[2], number) ELSE staging[p]]
  /\ staged' = staged + 1
  /\ UNCHANGED <<pc, log_name, given, urls, sessions>>

Unsupported ==
  /\ pc = "staging" /\ staged < Len(sessions)
  /\ Current.protocol \notin Supported
  /\ pc' = "failed"
  /\ UNCHANGED <<log_name, given, urls, sessions, staged, staging>>

\* The market feed dictionary is read when a session is SSLED.
DictionaryFails ==
  /\ pc = "staging" /\ staged = Len(sessions)
  /\ RfaMayFail
  /\ \E i \in DOMAIN sessions : sessions[i].protocol = "SSLED"
  /\ pc' = "failed"
  /\ UNCHANGED <<log_name, given, urls, sessions, staged, staging>>

AllStaged ==
  /\ pc = "staging" /\ staged = Len(sessions)
  /\ pc' = "merge"
  /\ UNCHANGED <<log_name, given, urls, sessions, staged, staging>>

Merge ==
  /\ pc = "merge"
  /\ \/ pc' = "merged"
     \/ RfaMayFail /\ pc' = "failed"
  /\ UNCHANGED <<log_name, given, urls, sessions, staged, staging>>

Ended == pc \in {"merged", "failed", "crashed"} /\ UNCHANGED vars

Next ==
  \/ ParseUrl \/ NoUserCrash \/ AllParsed
  \/ StageSession \/ Unsupported \/ DictionaryFails \/ AllStaged \/ Merge \/ Ended

Spec == Init /\ [][Next]_vars

-----------------------------------------------------------------------------
\* Properties.

\* The service a URL is for, and whether it says anything about an entry: of
\* the port only when it has one, for the protocol it is given with.
ServiceOf(url) == IF url.service = Absent THEN "" ELSE url.service

Says(url, key) ==
  \/ key \in {"connectionList", "serverList", "connectionType"}
  \/ key = "userName" /\ url.protocol = "SSLED"
  \/ /\ url.port \notin {Absent, <<>>}
     /\ \/ key = "rsslPort" /\ url.protocol = "RSSL"
        \/ key = "portNumber" /\ url.protocol = "SSLED"

\* The digits a port begins with are a number, when they fit an int; a port
\* that begins with something else is 0.
PortAsGiven(port, entry) ==
  \E k \in 0 .. Len(port) :
    /\ \A i \in 1 .. k : port[i] \in Digits
    /\ k < Len(port) => port[k + 1] \notin Digits
    /\ k = 0 /\ port[1] \notin {" ", "+", "-"} => entry = <<0>>
    /\ k \in 1 .. 9 => Len(entry) = 1 /\ Numeral(entry[1], SubSeq(port, 1, k))

\* The value of the last pair with this key, "" if there is none.
IsLastValue(query, key, value) ==
  \/ value = "" /\ \A i \in DOMAIN query : query[i].key # key
  \/ \E i \in DOMAIN query :
       /\ query[i].key = key /\ query[i].value = value
       /\ \A j \in DOMAIN query : j > i => query[j].key # key

\* The user, and behind it an application id that is given, and behind that a
\* position that is given.
UserAsGiven(url, entry) ==
  /\ entry # <<>> /\ entry[1] = (IF url.user = Absent THEN log_name ELSE url.user)
  /\ IsLastValue(url.query, "application-id", IF Len(entry) = 1 THEN "" ELSE entry[2])
  /\ Len(entry) > 1 =>
       /\ entry[2] # ""
       /\ IsLastValue(url.query, "position", IF Len(entry) = 2 THEN "" ELSE entry[3])
  /\ Len(entry) > 2 => Len(entry) = 3 /\ entry[3] # ""

AsGiven(url, key, entry) ==
  /\ key = "connectionList" => entry = <<ServiceOf(url)>>
  /\ key = "serverList" => entry = <<IF url.host = Absent THEN "localhost" ELSE url.host>>
  /\ key = "connectionType" => entry = <<url.protocol>>
  /\ key = "rsslPort" => entry = url.port
  /\ key = "portNumber" => PortAsGiven(url.port, entry)
  /\ key = "userName" => UserAsGiven(url, entry)

\* Of all URLs given for a service, the last one that says anything about an
\* entry has its say, and an entry none says anything about is left to RFA: a
\* later URL never loses its own entries to an earlier one of its service or to
\* one of another service, while what it leaves out is what an earlier one of
\* its service said.  Ports of SSLED are numbers of their digits.
ConnectsAsGiven ==
  pc = "merged" =>
    \A name \in Names \cup {""}, key \in Keys :
      LET about == {i \in DOMAIN given : ServiceOf(given[i]) = name /\ Says(given[i], key)}
          entry == staging[<<name, key>>]
      IN  \/ about = {} /\ entry = Unset
          \/ \E i \in about : (\A j \in about : j <= i) /\ AsGiven(given[i], key, entry)

\* The loop invariants behind ConnectsAsGiven: of torikuru_t::Init, a session
\* for each URL in its order; of rfa_t::Init, each entry by its last writer.
Parsing ==
  /\ Len(sessions) + Len(urls) = Len(given)
  /\ \A i \in DOMAIN sessions : sessions[i] = SessionOf(given[i])
  /\ \A i \in DOMAIN urls : urls[i] = given[Len(sessions) + i]
  /\ pc \in {"staging", "merge", "merged"} => urls = <<>>
  /\ pc = "urls" => staged = 0

WritesTo(i, name, key) ==
  i <= staged /\ sessions[i].service = name /\ key \in Written(sessions[i])

StagedBy(i, name, key) ==
  /\ WritesTo(i, name, key)
  /\ \A j \in DOMAIN sessions : WritesTo(j, name, key) => j <= i
  /\ \E number \in PortNumbers(sessions[i].port) :
       staging[<<name, key>>] = Entry(sessions[i], key, number)

StagedSoFar ==
  \A name \in Names \cup {""}, key \in Keys :
    \/ /\ staging[<<name, key>>] = Unset
       /\ \A i \in DOMAIN sessions : ~WritesTo(i, name, key)
    \/ \E i \in DOMAIN sessions : StagedBy(i, name, key)

ConfigInvariant ==
  /\ Parsing
  /\ StagedSoFar
  /\ \A i \in DOMAIN sessions : i <= staged => sessions[i].protocol \in Supported
  /\ pc \in {"merge", "merged"} => staged = Len(sessions)
=============================================================================
