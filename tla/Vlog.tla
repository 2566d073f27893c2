-------------------------------- MODULE Vlog --------------------------------
(***************************************************************************)
(* Verbose logging levels, chromium/vlog: the switch --v sets the level of *)
(* every source file, and --vmodule overrides it for the files its         *)
(* patterns match.  Strings are those of Strings.                          *)
(***************************************************************************)
EXTENDS Strings

kDefaultVlogLevel == 0

SlashChars == {"/", "\\"}

\* A pattern with a slash is matched with the whole path.
MatchTarget(pattern) ==
  IF find_first_of(pattern, SlashChars, 0) # npos THEN "file" ELSE "module"

VmodulePattern(pattern, level) ==
  [pattern |-> pattern, vlog_level |-> level, match_target |-> MatchTarget(pattern)]

\* The patterns of --vmodule, in their order, those without a level at 0.
VmoduleLevels(vmoduleSwitch) ==
  LET pairs == SplitStringIntoKeyValuePairs(vmoduleSwitch, "=", ",").pairs
  IN  [i \in DOMAIN pairs |-> VmodulePattern(pairs[i].key, atoi(pairs[i].value))]

\* VlogInfo: a severity is the negative of a verbosity.
MinLogLevel(vSwitch, minLogLevel) == IF vSwitch = <<>> THEN minLogLevel ELSE -atoi(vSwitch)

\* Bug: everything behind the first dot of the name is the extension.
Extension_First(name) == find_first_of(name, {"."}, 0)

\* Where the extension begins.
Extension(name) == rfind(name, <<".">>, npos)

InlSuffix == <<"-", "i", "n", "l">>

\* The name of a file without directory, extension and -inl.
GetModule(file) ==
  LET slash == find_last_of(file, SlashChars, npos)
      name == IF slash # npos THEN remove_prefix(file, slash + 1) ELSE file
      module == substr(name, 0, Extension(name))
  IN  IF ends_with(module, InlSuffix) THEN remove_suffix(module, Len(InlSuffix)) ELSE module

-----------------------------------------------------------------------------
SymbolMatches(p, s) == p = "?" \/ p = s \/ {p, s} \subseteq SlashChars

\* Bug: a star stands for at least one character.
AfterStar_One(s) == {remove_prefix(s, k) : k \in 1 .. Len(s) - 1}

\* What is left of s when a star in front of a pattern has taken its part:
\* the pattern needs one character at least.
AfterStar(s) == {remove_prefix(s, k) : k \in 0 .. Len(s) - 1}

RECURSIVE MatchVlogPattern(_, _)
MatchVlogPattern(string, pattern) ==
  LET n == Least(Least(Len(pattern), Len(string)), find_first_of(pattern, {"*"}, 0))
      s == remove_prefix(string, n)
      p == remove_prefix(pattern, n)
      rest == remove_prefix(p, RunLength(p, {"*"}))
  IN  /\ \A i \in 1 .. n : SymbolMatches(pattern[i], string[i])
      /\ IF p = <<>> THEN s = <<>>
         ELSE \/ rest = <<>>
              \/ \E t \in AfterStar(s) : MatchVlogPattern(t, rest)

\* Bug: the last pattern that matches has the say.
GetVlogLevel_Last(levels, minLogLevel, file) ==
  LET target == [file |-> file, module |-> GetModule(file)]
      hits == {i \in DOMAIN levels :
                 MatchVlogPattern(target[levels[i].match_target], levels[i].pattern)}
  IN  IF hits = {} THEN -minLogLevel ELSE levels[Max(hits)].vlog_level

\* The first pattern that matches has the say.
GetVlogLevel(levels, minLogLevel, file) ==
  LET target == [file |-> file, module |-> GetModule(file)]
      hits == {i \in DOMAIN levels :
                 MatchVlogPattern(target[levels[i].match_target], levels[i].pattern)}
  IN  IF hits = {} THEN -minLogLevel ELSE levels[Min(hits)].vlog_level
=============================================================================
