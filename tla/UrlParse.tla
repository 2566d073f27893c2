------------------------------ MODULE UrlParse ------------------------------
(***************************************************************************)
(* The URL parser, googleurl/url_parse: where the parts of a URL begin and *)
(* how long they are.  A URL is a sequence of symbols: the characters the  *)
(* parser looks for stand for themselves, and any other symbol for         *)
(* characters it does not tell apart.  Offsets count from 0, as in the     *)
(* code; a part that is not there has length -1.                           *)
(***************************************************************************)
EXTENDS Integers, Sequences, FiniteSetsExt

\* Component().
None == [begin |-> 0, len |-> -1]

Component(begin, len) == [begin |-> begin, len |-> len]

MakeRange(begin, end) == Component(begin, end - begin)

EndOf(c) == c.begin + c.len

IsValid(c) == c.len # -1

IsNonempty(c) == c.len > 0

\* The symbol at an offset, and the symbols of a component.
CharAt(spec, i) == spec[i + 1]

Part(spec, c) == IF IsNonempty(c) THEN SubSeq(spec, c.begin + 1, EndOf(c)) ELSE <<>>

\* The offsets of [from, to) at which one of chars stands, the first and the
\* last of them; "to" and -1 when there is none.
Hits(spec, from, to, chars) == {i \in from .. to - 1 : CharAt(spec, i) \in chars}

FirstOf(spec, from, to, chars) == Min(Hits(spec, from, to, chars) \cup {to})

LastOf(spec, from, to, chars) == Max(Hits(spec, from, to, chars) \cup {-1})

Slashes == {"/", "\\"}

\* A space, standing for every control character as well.
Blanks == {" "}

AuthorityTerminators == Slashes \cup {"?", "#"}

\* "len" is the offset at which what is left ends.
TrimURL(spec) ==
  LET kept == {i \in 0 .. Len(spec) - 1 : CharAt(spec, i) \notin Blanks}
  IN  IF kept = {} THEN [begin |-> Len(spec), len |-> Len(spec)]
      ELSE [begin |-> Min(kept), len |-> Max(kept) + 1]

CountConsecutiveSlashes(spec, from, len) ==
  Min({i \in from .. len - 1 : CharAt(spec, i) \notin Slashes} \cup {len}) - from

FindNextAuthorityTerminator(spec, from, len) == FirstOf(spec, from, len, AuthorityTerminators)

-----------------------------------------------------------------------------
\* What lies between scheme and path.

ParseUserInfo(spec, user) ==
  LET colon == FirstOf(spec, user.begin, EndOf(user), {":"})
  IN  IF colon < EndOf(user)
      THEN [username |-> MakeRange(user.begin, colon), password |-> MakeRange(colon + 1, EndOf(user))]
      ELSE [username |-> user, password |-> None]

\* The offset a colon must be beyond to separate the port: an address may
\* stand in brackets, the closing one of which may be missing.
Ipv6Terminator(spec, server) ==
  LET closing == LastOf(spec, server.begin, EndOf(server), {"]"})
  IN  IF closing >= 0 THEN closing
      ELSE IF CharAt(spec, server.begin) = "[" THEN EndOf(server) ELSE -1

ParseServerInfo(spec, server) ==
  LET colon == LastOf(spec, server.begin, EndOf(server), {":"})
  IN  IF server.len = 0 THEN [host |-> None, port |-> None]
      ELSE IF colon > Ipv6Terminator(spec, server)
      THEN [host |-> IF colon = server.begin THEN None ELSE MakeRange(server.begin, colon),
            port |-> MakeRange(colon + 1, EndOf(server))]
      ELSE [host |-> server, port |-> None]

\* Bug: the first @ ends the user information.
UserInfoEnd_First(spec, auth) ==
  LET at == FirstOf(spec, auth.begin, EndOf(auth), {"@"})
  IN  IF at = EndOf(auth) THEN -1 ELSE at

\* The last @, -1 if there is none.
UserInfoEnd(spec, auth) == LastOf(spec, auth.begin, EndOf(auth), {"@"})

ParseAuthority(spec, auth) ==
  LET at == UserInfoEnd(spec, auth)
      info == IF at >= 0 THEN ParseUserInfo(spec, MakeRange(auth.begin, at))
              ELSE [username |-> None, password |-> None]
      server == ParseServerInfo(spec, IF at >= 0 THEN MakeRange(at + 1, EndOf(auth)) ELSE auth)
  IN  [username |-> info.username, password |-> info.password,
       host |-> server.host, port |-> server.port]

-----------------------------------------------------------------------------
\* What follows.

\* The ? of the query, or the end: one behind the first # belongs to the
\* reference.
QueryMark(spec, path) ==
  LET mark == FirstOf(spec, path.begin, EndOf(path), {"?", "#"})
  IN  IF mark < EndOf(path) /\ CharAt(spec, mark) = "?" THEN mark ELSE EndOf(path)

ParsePath(spec, path) ==
  LET end == EndOf(path)
      hash == FirstOf(spec, path.begin, end, {"#"})
      mark == QueryMark(spec, path)
      fileEnd == Min({hash, mark})
  IN  IF ~IsValid(path) THEN [path |-> None, query |-> None, ref |-> None]
      ELSE [path |-> IF fileEnd = path.begin THEN None ELSE MakeRange(path.begin, fileEnd),
            query |-> IF mark < end THEN MakeRange(mark + 1, hash) ELSE None,
            ref |-> IF hash < end THEN MakeRange(hash + 1, end) ELSE None]

\* Everything in front of the first colon, blanks aside.  None stands for
\* the result false.
ExtractScheme(spec, len) ==
  LET begin == Min({i \in 0 .. len - 1 : CharAt(spec, i) \notin Blanks} \cup {len})
      colon == FirstOf(spec, begin, len, {":"})
  IN  IF colon < len THEN MakeRange(begin, colon) ELSE None

ParseAfterScheme(spec, len, after) ==
  LET begin == after + CountConsecutiveSlashes(spec, after, len)
      end == FindNextAuthorityTerminator(spec, begin, len)
      auth == ParseAuthority(spec, MakeRange(begin, end))
      rest == ParsePath(spec, IF end = len THEN None ELSE MakeRange(end, len))
  IN  [username |-> auth.username, password |-> auth.password, host |-> auth.host,
       port |-> auth.port, path |-> rest.path, query |-> rest.query, ref |-> rest.ref]

Parsed(scheme, rest) ==
  [scheme |-> scheme, username |-> rest.username, password |-> rest.password,
   host |-> rest.host, port |-> rest.port, path |-> rest.path, query |-> rest.query,
   ref |-> rest.ref]

ParseStandardURL(spec) ==
  LET range == TrimURL(spec)
      scheme == ExtractScheme(spec, range.len)
      after == IF IsValid(scheme) THEN EndOf(scheme) + 1 ELSE range.begin
  IN  Parsed(scheme, ParseAfterScheme(spec, range.len, after))

\* A scheme and a path, whatever the path holds.
ParsePathURL(spec) ==
  LET range == TrimURL(spec)
      scheme == ExtractScheme(spec, range.len)
      begin == IF IsValid(scheme) THEN EndOf(scheme) + 1 ELSE range.begin
      nothing == [username |-> None, password |-> None, host |-> None, port |-> None,
                  path |-> None, query |-> None, ref |-> None]
  IN  Parsed(scheme, IF begin = range.len THEN nothing
                     ELSE [nothing EXCEPT !.path = MakeRange(begin, range.len)])

\* A scheme, a path and a query that may hold # as well.
ParseMailtoURL(spec) ==
  LET whole == ParsePathURL(spec)
      end == EndOf(whole.path)
      mark == FirstOf(spec, whole.path.begin, end, {"?"})
      path == MakeRange(whole.path.begin, mark)
  IN  IF ~IsValid(whole.path) \/ mark = end THEN whole
      ELSE [whole EXCEPT !.path = IF path.len = 0 THEN None ELSE path,
                         !.query = MakeRange(mark + 1, end)]

\* What begins the parameters of a path.
ParameterMark == ";"

\* Between the last slash and the parameter behind the last semicolon.
ExtractFileName(spec, path) ==
  LET semicolon == LastOf(spec, path.begin + 1, EndOf(path), {ParameterMark})
      end == IF semicolon >= 0 THEN semicolon ELSE EndOf(path)
      slash == LastOf(spec, path.begin, end, Slashes)
  IN  IF ~IsNonempty(path) THEN None
      ELSE MakeRange(IF slash >= 0 THEN slash + 1 ELSE path.begin, end)

-----------------------------------------------------------------------------
\* How a parsed URL is laid out.

ComponentTypes == <<"scheme", "username", "password", "host", "port", "path", "query", "ref">>

\* The components whose delimiter in front may be asked for.
Delimited == {"port", "query", "ref"}

\* Bug: the password is taken to have no delimiter behind it.
Advance_NoAt(type) == IF type \in {"scheme", "username"} THEN 1 ELSE 0

\* The delimiter behind a component, as far as the layout knows of it.
Advance(type) == IF type \in {"scheme", "username", "password"} THEN 1 ELSE 0

\* CountCharactersBefore: the component itself, else the next one there is,
\* else the end of the last.
CountCharactersBefore(parsed, type, includeDelimiter) ==
  LET at == CHOOSE i \in DOMAIN ComponentTypes : ComponentTypes[i] = type
      there == {i \in DOMAIN ComponentTypes : IsValid(parsed[ComponentTypes[i]])}
      next == {i \in there : i >= at /\ i > 1}
      before == {i \in there : i < at}
      here == ComponentTypes[Min(next)]
      last == ComponentTypes[Max(before)]
  IN  IF type = "scheme" THEN parsed.scheme.begin
      ELSE IF next # {}
      THEN parsed[here].begin
             - (IF here \in Delimited /\ (here # type \/ includeDelimiter) THEN 1 ELSE 0)
      ELSE IF before = {} THEN 0 ELSE EndOf(parsed[last]) + Advance(last)

\* Length.
LengthOf(parsed) ==
  IF IsValid(parsed.ref) THEN EndOf(parsed.ref) ELSE CountCharactersBefore(parsed, "ref", FALSE)
=============================================================================
