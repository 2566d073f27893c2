------------------------------ MODULE UrlText ------------------------------
(***************************************************************************)
(* What the user types grows by one symbol at a time.  Whatever it is, the *)
(* parser promises of a URL that it is the concatenation of its parts.     *)
(***************************************************************************)
EXTENDS UrlParse

CONSTANTS
  Symbols,    \* subject -> symbols a text about it may have
  Seeds,      \* subject -> texts to begin with
  MaxGrowth   \* subject -> symbols a text grows by

ASSUME TextAssumption ==
  /\ Symbols["url"] \subseteq STRING
  /\ Seeds["url"] \subseteq Seq(STRING)

VARIABLES
  subject,   \* what the text is: "url" if it is a URL
  text,
  grown      \* symbols typed behind the seed

textVars == <<subject, text, grown>>

Begin ==
  /\ subject \in DOMAIN Seeds
  /\ text \in Seeds[subject]
  /\ grown = 0

Type(c) ==
  /\ grown < MaxGrowth[subject]
  /\ text' = Append(text, c)
  /\ grown' = grown + 1
  /\ UNCHANGED subject

Typing == \E c \in Symbols[subject] : Type(c)

TextSpec == Begin /\ [][Typing]_textVars

-----------------------------------------------------------------------------
\* Promises.

\* All ways to read s as the concatenation of two parts.
Prefix(s, k) == SubSeq(s, 1, k)
Suffix(s, k) == SubSeq(s, k + 1, Len(s))

Has(s, chars) == \E i \in DOMAIN s : s[i] \in chars

\* A URL without the blanks around it.
Trimmed(s) ==
  LET kept == {i \in DOMAIN s : s[i] \notin Blanks}
  IN  IF kept = {} THEN <<>> ELSE SubSeq(s, Min(kept), Max(kept))

\* The part with what separates it from its neighbours, if it is there.
Around(spec, c, before, after) ==
  IF IsValid(c) THEN before \o Part(spec, c) \o after ELSE <<>>

\* scheme : slashes username : password @ host : port path ? query # ref
UrlOfParts(spec, p, slashes) ==
  Around(spec, p.scheme, <<>>, <<":">>) \o slashes
    \o Around(spec, p.username, <<>>, <<>>) \o Around(spec, p.password, <<":">>, <<>>)
    \o (IF IsValid(p.username) THEN <<"@">> ELSE <<>>)
    \o Around(spec, p.host, <<>>, <<>>) \o Around(spec, p.port, <<":">>, <<>>)
    \o Around(spec, p.path, <<>>, <<>>)
    \o Around(spec, p.query, <<"?">>, <<>>) \o Around(spec, p.ref, <<"#">>, <<>>)

\* A colon of the host is one of an address in brackets, or of one whose bracket
\* is missing.
ColonInBrackets(host) ==
  \/ \E i \in DOMAIN host : host[i] = "]" /\ ~Has(Suffix(host, i), {":"})
  \/ Head(host) = "[" /\ ~Has(host, {"]"})

\* No part holds what would have ended it.
PartsEndInTime(spec, p) ==
  LET authority == {p.username, p.password, p.host, p.port}
      T(c) == Part(spec, c)
  IN  /\ ~Has(T(p.scheme), {":"})
      /\ \A c \in authority : ~Has(T(c), AuthorityTerminators)
      /\ ~Has(T(p.username), {":"})
      /\ ~Has(T(p.host) \o T(p.port), {"@"})
      /\ ~Has(T(p.port), {":", "]"})
      /\ Has(T(p.host), {":"}) /\ ~IsValid(p.port) => ColonInBrackets(T(p.host))
      /\ ~Has(T(p.path), {"?", "#"})
      /\ IsNonempty(p.path) => Head(T(p.path)) \in Slashes
      /\ ~Has(T(p.query), {"#"})

\* Nothing of a URL is lost, doubled or put in the wrong part.
IsUrlOf(spec, p) ==
  /\ PartsEndInTime(spec, p)
  /\ \E n \in 0 .. Len(spec) :
       \E i \in 0 .. Len(spec) - n :
         LET slashes == SubSeq(spec, i + 1, i + n)
         IN  /\ \A k \in DOMAIN slashes : slashes[k] \in Slashes
             /\ UrlOfParts(spec, p, slashes) = Trimmed(spec)

\* The other two parsers keep the rest as it is, slashes and all.
IsPathUrlOf(spec, p) ==
  /\ UrlOfParts(spec, p, <<>>) = Trimmed(spec)
  /\ {p.username, p.password, p.host, p.port, p.ref} = {None}
  /\ ~Has(Part(spec, p.scheme), {":"})

IsMailtoUrlOf(spec, p) == IsPathUrlOf(spec, p) /\ ~Has(Part(spec, p.path), {"?"})

\* directory, name and parameters of a path; a semicolon it begins with is
\* part of the name.
IsFileNameOf(spec, path, name) ==
  LET given == Part(spec, path)
  IN  IF given = <<>> THEN name = None
      ELSE \E i \in 0 .. Len(given) : \E j \in i .. Len(given) :
             LET directory == Prefix(given, i)
                 parameters == Suffix(given, j)
             IN  /\ j > 0
                 /\ name = Component(path.begin + i, j - i)
                 /\ directory = <<>> \/ directory[i] \in Slashes
                 /\ ~Has(SubSeq(given, i + 1, j), Slashes)
                 /\ IF parameters = <<>> THEN ~Has(Tail(given), {ParameterMark})
                    ELSE Head(parameters) = ParameterMark /\ ~Has(Tail(parameters), {ParameterMark})

-----------------------------------------------------------------------------
\* Properties.

\* The parts that ParseStandardURL, ParsePathURL and ParseMailtoURL find make
\* up the URL again, whatever colons, at signs and slashes it holds, and none
\* of them holds a character that would have ended it; ExtractFileName cuts
\* the file name, a symbol list for the capture, out of a path.  Of several #
\* the first begins the reference, and parameters are no part of a file name,
\* as the comments within url_parse.cc have it (lines 207 and 499-503).  This
\* is where url_parse.h says otherwise: that the last # begins the reference
\* (line 193), and that the file name goes to the end of the path (line 306).
UrlPartsCompose ==
  subject = "url" =>
    /\ IsUrlOf(text, ParseStandardURL(text))
    /\ IsPathUrlOf(text, ParsePathURL(text))
    /\ IsMailtoUrlOf(text, ParseMailtoURL(text))
    /\ LET path == ParsePathURL(text).path
       IN  IsFileNameOf(text, path, ExtractFileName(text, path))

\* Nothing but slashes ends a URL behind its last part.
EndsInSlashes(parsed) ==
  \A c \in {"username", "password", "host", "port", "path", "query", "ref"} :
    ~IsValid(parsed[c])

\* Parsed::CountCharactersBefore finds every part where it begins, and the
\* places of those that are not there between their neighbours; Length is that
\* of the URL unless it ends with the slashes behind its scheme.
UrlLaidOut ==
  subject = "url" =>
    LET p == ParseStandardURL(text)
        types == ComponentTypes
    IN  /\ \A c \in {types[i] : i \in DOMAIN types} :
             IsValid(p[c]) =>
               /\ CountCharactersBefore(p, c, FALSE) = p[c].begin
               /\ CountCharactersBefore(p, c, TRUE)
                    = p[c].begin - (IF c \in Delimited THEN 1 ELSE 0)
        /\ \A i, j \in DOMAIN types : \A flag \in BOOLEAN :
             i < j => CountCharactersBefore(p, types[i], flag)
                        <= CountCharactersBefore(p, types[j], flag)
        /\ EndsInSlashes(p) \/ LengthOf(p) = TrimURL(text).len
=============================================================================
