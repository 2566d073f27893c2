---------------------------- MODULE CommandLine ----------------------------
(***************************************************************************)
(* The command line of the process, chromium/command_line: argv_ keeps the *)
(* program, the switches and the arguments in this order, begin_args_ is   *)
(* where the arguments begin, and switches_ maps the names of the switches *)
(* to their values.  Strings are those of Strings.                         *)
(***************************************************************************)
EXTENDS Strings

CONSTANTS
  Argvs,      \* vectors given to Init and InitFromArgv, and of other command lines
  Switches,   \* names given to AppendSwitch, with a prefix or without
  Values,     \* values of these switches
  Arguments,  \* values given to AppendArg
  Wrappers,   \* commands given to PrependWrapper
  MaxCalls    \* bound on the calls

VARIABLES
  current,    \* current_process_commandline_: NULL or an object
  earlier,    \* history: switches_ when the object was last initialised
  wrapped,    \* history: words PrependWrapper has put in front of the program
  calls       \* calls made so far

vars == <<current, earlier, wrapped, calls>>

kSwitchTerminator == <<"-", "-">>

\* The longer prefix is looked for first.
kSwitchPrefixes == <<<<"-", "-">>, <<"-">>>>

GetSwitchPrefixLength(string) ==
  LET prefixes == {i \in DOMAIN kSwitchPrefixes : IsPrefix(kSwitchPrefixes[i], string)}
  IN  IF prefixes = {} THEN 0 ELSE Len(kSwitchPrefixes[Min(prefixes)])

IsSwitch(string) == GetSwitchPrefixLength(string) # 0

\* A switch, prefix and all, and its value, behind the first =.
SwitchOf(string) ==
  LET equals == find(string, <<"=">>, 0)
  IN  [string |-> substr(string, 0, equals),
       value |-> IF equals = npos THEN <<>> ELSE substr(string, equals + 1, npos)]

Object(argv, begin, switches) == [argv |-> argv, begin_args |-> begin, switches |-> switches]

\* An object has a program at least, if only an empty one.
NULL == Object(<< >>, 0, << >>)

NO_PROGRAM == Object(<< <<>> >>, 1, << >>)

-----------------------------------------------------------------------------
\* Operations of an object.

\* A switch goes behind the last one, in front of all arguments.
AppendSwitchNative(cl, switch, value) ==
  LET prefix == GetSwitchPrefixLength(switch)
      key == remove_prefix(switch, prefix)
      combined == (IF prefix = 0 THEN kSwitchPrefixes[1] ELSE <<>>) \o switch
                    \o (IF value = <<>> THEN <<>> ELSE <<"=">> \o value)
  IN  Object(InsertAt(cl.argv, cl.begin_args + 1, combined), cl.begin_args + 1,
             [k \in DOMAIN cl.switches \cup {key} |-> IF k = key THEN value ELSE cl.switches[k]])

AppendArgNative(cl, value) == [cl EXCEPT !.argv = Append(@, value)]

\* All but the program of a vector; what stands behind a terminator, and the
\* terminator itself, are arguments.
AppendSwitchesAndArguments(cl, argv) ==
  LET args == [i \in 1 .. Len(argv) - 1 |-> TrimWhitespace(argv[i + 1])]
      parsed == SelectInSeq(args, LAMBDA a : a = kSwitchTerminator)
      Step(acc, i) ==
        IF IsSwitch(args[i]) /\ (parsed = 0 \/ i < parsed)
        THEN AppendSwitchNative(acc, SwitchOf(args[i]).string, SwitchOf(args[i]).value)
        ELSE AppendArgNative(acc, args[i])
  IN  FoldLeft(Step, cl, [i \in DOMAIN args |-> i])

\* switches_ keeps what it has.
InitFromArgv(cl, argv) ==
  AppendSwitchesAndArguments(Object(NO_PROGRAM.argv, NO_PROGRAM.begin_args, cl.switches), argv)

AppendArguments(cl, other) == AppendSwitchesAndArguments(cl, other.argv)

HasSwitch(cl, key) == key \in DOMAIN cl.switches

GetSwitchValueNative(cl, key) == IF HasSwitch(cl, key) THEN cl.switches[key] ELSE <<>>

CopySwitchesFrom(cl, source, keys) ==
  LET given == SelectSeq(keys, LAMBDA k : HasSwitch(source, k))
  IN  FoldLeft(LAMBDA acc, k : AppendSwitchNative(acc, k, GetSwitchValueNative(source, k)),
               cl, given)

\* The arguments without the first terminator.
GetArgs(cl) ==
  LET args == SubSeq(cl.argv, cl.begin_args + 1, Len(cl.argv))
      terminator == SelectInSeq(args, LAMBDA a : a = kSwitchTerminator)
  IN  IF terminator = 0 THEN args ELSE RemoveAt(args, terminator)

\* Bug: begin_args_ stays where it is.
PrependWrapper_Unmoved(cl, wrapper) ==
  IF wrapper = <<>> THEN cl
  ELSE [cl EXCEPT !.argv = SplitString(wrapper, " ") \o @]

PrependWrapper(cl, wrapper) ==
  IF wrapper = <<>> THEN cl
  ELSE LET words == SplitString(wrapper, " ")
       IN  [cl EXCEPT !.argv = words \o @, !.begin_args = @ + Len(words)]

\* The words of the string as it is: a blank in front is an empty program.
ParseFromString(cl, string) ==
  IF TrimWhitespace(string) = <<>> THEN cl ELSE InitFromArgv(cl, SplitString(string, " "))

\* A switch without a value loses its =.
Written(arg, parsing) ==
  LET s == SwitchOf(arg)
  IN  IF parsing /\ IsSwitch(arg)
      THEN s.string \o (IF s.value = <<>> THEN <<>> ELSE <<"=">> \o s.value)
      ELSE arg

GetCommandLineString(cl) ==
  LET Parsing(i) == \A j \in 2 .. i : cl.argv[j] # kSwitchTerminator
  IN  JoinString([i \in DOMAIN cl.argv |->
                    IF i = 1 THEN cl.argv[i] ELSE Written(cl.argv[i], Parsing(i))], <<" ">>)

-----------------------------------------------------------------------------
\* The command line of the process.

Init ==
  /\ current = NULL
  /\ earlier = << >>
  /\ wrapped = 0
  /\ calls = 0

Called == calls < MaxCalls /\ calls' = calls + 1

\* CommandLine::Init: a second call changes nothing.
InitProcess(argv) ==
  /\ Called
  /\ IF current # NULL THEN UNCHANGED current
     ELSE current' = InitFromArgv(NO_PROGRAM, argv)
  /\ UNCHANGED <<earlier, wrapped>>

Reset ==
  /\ Called /\ current # NULL
  /\ current' = NULL
  /\ earlier' = << >>
  /\ wrapped' = 0

\* The object is initialised once more.
Reinitialise(argv) ==
  /\ Called /\ current # NULL
  /\ current' = InitFromArgv(current, argv)
  /\ earlier' = current.switches
  /\ wrapped' = 0

Change(cl) ==
  /\ Called /\ current # NULL
  /\ current' = cl
  /\ UNCHANGED <<earlier, wrapped>>

Extend ==
  \/ \E s \in Switches, v \in Values : Change(AppendSwitchNative(current, s, v))
  \/ \E a \in Arguments : Change(AppendArgNative(current, a))
  \/ \E argv \in Argvs : Change(AppendArguments(current, InitFromArgv(NO_PROGRAM, argv)))

Copy(keys) ==
  \E argv \in Argvs : Change(CopySwitchesFrom(current, InitFromArgv(NO_PROGRAM, argv), keys))

Wrap(wrapper) ==
  /\ Called /\ current # NULL
  /\ current' = PrependWrapper(current, wrapper)
  /\ wrapped' = wrapped + Len(current'.argv) - Len(current.argv)
  /\ UNCHANGED earlier

Next ==
  \/ \E argv \in Argvs : InitProcess(argv) \/ Reinitialise(argv)
  \/ Reset
  \/ Extend
  \/ Copy(SetToSeq(Switches))
  \/ \E wrapper \in Wrappers : Wrap(wrapper)

Spec == Init /\ [][Next]_vars

-----------------------------------------------------------------------------
\* Properties.

\* Arguments another process will not take for switches: none in front of a
\* terminator looks like one.
ArgumentsArePlain(cl) ==
  LET args == SubSeq(cl.argv, cl.begin_args + 1, Len(cl.argv))
  IN  \A i \in DOMAIN args :
        IsSwitch(args[i]) => \E j \in 1 .. i : args[j] = kSwitchTerminator

SameLine(cl, read) ==
  /\ GetArgs(read) = GetArgs(cl)
  /\ cl.switches = read.switches @@ earlier

\* The object without what is wrapped around its program, and its words.
Line == [current EXCEPT !.argv = SubSeq(@, wrapped + 1, Len(@))]

Words == {Line.argv[i] : i \in DOMAIN Line.argv}

Blankless(word) == \A i \in DOMAIN word : word[i] # " "

\* argv_ and switches_ tell the same: however words have been appended, copied
\* and wrapped, a process started with argv_ behind the wrapper finds the
\* switches, at their last values, and the arguments in their order, and so
\* does one that is given the command line string.  What is read is trimmed
\* and what is printed is not quoted, although command_line.hh:99-100 says so of
\* AppendArg: the first is so if no word begins or ends with a blank, the second
\* if none has a blank in it.  Only switches of before a repeated InitFromArgv
\* are known to switches_ alone.
ReadsBack ==
  current # NULL /\ ArgumentsArePlain(current) =>
    /\ (\A w \in Words : TrimWhitespace(w) = w) =>
         SameLine(current, InitFromArgv(NO_PROGRAM, Line.argv))
    /\ (\A w \in Words : Blankless(w)) =>
         SameLine(current, ParseFromString(NO_PROGRAM, GetCommandLineString(Line)))
=============================================================================
