----------------------------- MODULE MCRuntime -----------------------------
(***************************************************************************)
(* The parts of the runtime library under src/chromium, each on a small    *)
(* instance, apart from the histograms, which MCHistogram has.  They share *)
(* nothing but the process, so a behaviour is one of a single part, while  *)
(* the others stay as they begin.  The recorder is extended, the other     *)
(* parts are instances.                                                    *)
(***************************************************************************)
EXTENDS StatisticsRecorder

CONSTANT Parts   \* the parts whose behaviours are looked at

VARIABLES
  part,
  traits, instance_, dead_, alive, constructed, exits, getting, value,
  current, earlier, wrapped, calls,
  min_log_level, logging_destination, log_file_name, log_file, log_message_handler,
  is_initialized, lock_log_file, holder, logging, redirection, message, fatal, inits, messages,
  previous_, next_, instances, reported, objects

-----------------------------------------------------------------------------
\* Singletons: three first callers, both traits, two exits.
Callers == {1, 2, 3}

Singletons == INSTANCE Singleton WITH
  Threads <- Callers, Traits <- {"Default", "StaticMemory"}, MaxExits <- 2,
  made <- constructed, pc <- getting

\* Command lines: switches with both prefixes, with and without values, blanks
\* around them and in values and arguments, a terminator, a name that is all
\* dashes.
Argvs ==
  {<< <<"p">>, <<"b">> >>,
   << <<"p">>, <<"-", "a">>, <<"b">> >>,
   << <<"p">>, <<"-", "-", "b", "=", "1">>, <<" ", "-", "c", "=">>, <<"-", "-">>, <<"-", "a">> >>,
   << <<>>, <<"-">>, <<>>, <<"-", "-", "-", "a", "=", "=">> >>}

CommandLines == INSTANCE CommandLine WITH
  Argvs <- Argvs,
  Switches <- {<<"a">>, <<"-", "b">>},
  Values <- {<<>>, <<"1">>, <<"=", " ", "2">>},
  Arguments <- {<<"b">>, <<"b", " ", "b">>, <<"b", " ">>, <<"-", "-">>, <<"-", "a">>},
  Wrappers <- {<<>>, <<"g">>, <<"g", " ", "-", "-", "a">>},
  MaxCalls <- 4

\* The recorder: two names with equal ranges, a third whose checksum collides.
TwoRanges == [a |-> "x", b |-> "x", c |-> "y"]
OneChecksum == [x |-> 7, y |-> 7]

\* Log messages: the main thread and another.
Loggers == {"main", "other"}

Logs == INSTANCE Logging WITH
  Threads <- Loggers, main <- "main", Files <- {"file"}, MinLevels <- {3},
  VerboseLevels <- {1}, Handlers <- {"handles"}, MaxInits <- 2, MaxMessages <- 2,
  pc <- logging

\* Leak tracking: three addresses for four objects.
Leaks == INSTANCE LeakTracker WITH Addresses <- 1 .. 3, root_ <- 0, MaxObjects <- 4

-----------------------------------------------------------------------------
\* The parts that stay as they begin do so in one way.
RuntimeInit ==
  /\ part \in Parts
  /\ Singletons!Init /\ (part # "singletons" => traits = "Default")
  /\ CommandLines!Init
  /\ Init /\ (part # "recorder" => name = [t \in Threads |-> "a"])
  /\ Logs!Init
  /\ Leaks!Init

singletonVars == <<traits, instance_, dead_, alive, constructed, exits, getting, value>>
commandLineVars == <<current, earlier, wrapped, calls>>
logVars ==
  <<min_log_level, logging_destination, log_file_name, log_file, log_message_handler,
    is_initialized, lock_log_file, holder, logging, redirection, message, fatal, inits, messages>>
leakVars == <<previous_, next_, instances, reported, objects>>

RuntimeNext ==
  /\ UNCHANGED part
  /\ \/ /\ part = "singletons" /\ Singletons!Next
        /\ UNCHANGED <<commandLineVars, vars, logVars, leakVars>>
     \/ /\ part = "command line" /\ CommandLines!Next
        /\ UNCHANGED <<singletonVars, vars, logVars, leakVars>>
     \/ /\ part = "recorder" /\ Next
        /\ UNCHANGED <<singletonVars, commandLineVars, logVars, leakVars>>
     \/ /\ part = "logging" /\ Logs!Next
        /\ UNCHANGED <<singletonVars, commandLineVars, vars, leakVars>>
     \/ /\ part = "leaks" /\ Leaks!Next
        /\ UNCHANGED <<singletonVars, commandLineVars, vars, logVars>>

runtimeVars == <<part, singletonVars, commandLineVars, vars, logVars, leakVars>>

RuntimeSpec == RuntimeInit /\ [][RuntimeNext]_runtimeVars

\* Threads inside a singleton's get() are scheduled.
FairSpec == RuntimeSpec /\ Singletons!Fairness

-----------------------------------------------------------------------------
\* Properties: those of the parts, with OneHistogramPerName of the recorder.

\* However first callers of a singleton race, there is one object at most, and
\* every caller has it.
OneInstance == Singletons!OneInstance

\* A caller of a singleton gets its answer, unless the object is gone for good.
CallersServed == Singletons!CallersServed

\* What is appended, copied and wrapped is what the command line reads back as,
\* if its blanks allow it.
ReadsBack == part = "command line" => CommandLines!ReadsBack

\* A message no handler has taken reaches stderr and the file it is meant for.
MessagesArrive == Logs!MessagesArrive

\* The list of the leak tracker holds the live objects.
ListHoldsTheLive == Leaks!ListHoldsTheLive
=============================================================================
