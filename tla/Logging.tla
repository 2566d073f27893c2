------------------------------ MODULE Logging ------------------------------
(***************************************************************************)
(* Log messages, chromium/logging.  A message is written out by the        *)
(* destructor of its LogMessage: the handler is asked first, then it goes  *)
(* to stderr, then, under LoggingLock, to the log file.  The destination   *)
(* is read without the lock, and InitLogging may be called a second time   *)
(* to redirect logging while messages are under way.                       *)
(***************************************************************************)
EXTENDS Integers, FiniteSets

CONSTANTS
  Threads,        \* threads that log
  main,           \* the one that initialises logging
  Files,          \* names of log files
  MinLevels,      \* levels given to SetMinLogLevel
  VerboseLevels,  \* levels given to --v
  Handlers,       \* log message handlers: "prints" and "handles"
  MaxInits,       \* bound on the calls of InitLogging: two, says its comment
  MaxMessages     \* bound on the messages

VARIABLES
  min_log_level,
  logging_destination,
  log_file_name,
  log_file,             \* the open file, or NULL
  log_message_handler,  \* NULL, "prints" or "handles"
  is_initialized, lock_log_file,  \* of LoggingLock
  holder,               \* lock -> thread that holds it, or Nobody
  pc,                   \* thread -> where it is
  redirection,          \* the arguments of InitLogging
  message,              \* thread -> its last message and what became of it
  fatal,                \* history: threads that have logged a FATAL message
  inits, messages       \* calls so far

configuration == <<min_log_level, log_message_handler>>
target == <<logging_destination, log_file_name>>
locking == <<is_initialized, lock_log_file>>
counts == <<inits, messages>>
vars == <<configuration, target, locking, log_file, holder, pc, redirection, message, fatal, counts>>

NULL == "NULL"
Nobody == "nobody"

LOG_VERBOSE == -1
LOG_INFO == 0
LOG_ERROR == 2
LOG_FATAL == 3

kAlwaysPrintErrorLevel == LOG_ERROR

Destinations == {"NONE", "FILE", "SYSTEM", "BOTH"}
ToFile(destination) == destination \in {"FILE", "BOTH"}
ToSystem(destination) == destination \in {"SYSTEM", "BOTH"}

GetDefaultLogFile == "debug.log"

NoRedirection == [destination |-> "NONE", file |-> NULL]

Message(severity) ==
  [severity |-> severity, destination |-> logging_destination, steady |-> TRUE,
   handled |-> FALSE, stderr |-> FALSE, opened |-> TRUE, file |-> NULL]

Init ==
  /\ min_log_level = 0
  /\ logging_destination = "SYSTEM"
  /\ log_file_name = NULL /\ log_file = NULL
  /\ log_message_handler = NULL
  /\ is_initialized = FALSE /\ lock_log_file = TRUE
  /\ holder = [lock \in {"log_mutex", "log_lock"} |-> Nobody]
  /\ pc = [t \in Threads |-> "idle"]
  /\ redirection = NoRedirection
  /\ message = [t \in Threads |-> [Message(LOG_INFO) EXCEPT !.handled = TRUE]]
  /\ fatal = {}
  /\ inits = 0 /\ messages = 0

-----------------------------------------------------------------------------
\* Which messages are written.

Greater(a, b) == IF a > b THEN a ELSE b
Least(a, b) == IF a < b THEN a ELSE b

LOG_IS_ON(severity) == severity >= min_log_level

GetVlogVerbosity == Greater(-1, LOG_INFO - min_log_level)

VLOG_IS_ON(verboselevel) == verboselevel <= GetVlogVerbosity

-----------------------------------------------------------------------------
\* LoggingLock.

Mutex == IF lock_log_file THEN "log_mutex" ELSE "log_lock"

\* LoggingLock::Init: only the first call counts.
InitLock(lock_log) ==
  /\ is_initialized' = TRUE
  /\ lock_log_file' = IF is_initialized THEN lock_log_file ELSE lock_log

\* Bug: the lock is marked, but nobody waits for it.
LockLogging_Unguarded(t) == holder' = [holder EXCEPT ![Mutex] = t]

LockLogging(t) ==
  /\ holder[Mutex] = Nobody
  /\ holder' = [holder EXCEPT ![Mutex] = t]

UnlockLogging == holder' = [holder EXCEPT ![Mutex] = Nobody]

\* InitializeLogFileHandle: TRUE, too, when there is no file to be opened.
\* opens is whether fopen succeeds.
InitializeLogFileHandle(opens) ==
  IF log_file # NULL THEN UNCHANGED <<log_file, log_file_name>>
  ELSE /\ log_file_name' = IF log_file_name = NULL THEN GetDefaultLogFile ELSE log_file_name
       /\ log_file' = IF ToFile(logging_destination) /\ opens THEN log_file_name' ELSE NULL

HandleInitialized(opens) == log_file # NULL \/ ~ToFile(logging_destination) \/ opens

-----------------------------------------------------------------------------
\* A message.

Go(t, from, to) == pc[t] = from /\ pc' = [pc EXCEPT ![t] = to]

\* LoggingLock::Init is to be called by the main thread before any logging of
\* others; main.cc does so first of all.
MayLog(t) == t = main \/ (inits > 0 /\ is_initialized)

LogMessage(t, severity) ==
  /\ MayLog(t) /\ messages < MaxMessages
  /\ Go(t, "idle", "handler")
  /\ message' = [message EXCEPT ![t] = Message(severity)]
  /\ messages' = messages + 1
  /\ UNCHANGED <<configuration, target, locking, log_file, holder, redirection, fatal, inits>>

\* The macros: a failed CHECK is always logged, a failed DCHECK is one at FATAL
\* or at ERROR, as the build has it.
LOG(t, severity) == LOG_IS_ON(severity) /\ LogMessage(t, severity)
VLOG(t) == VLOG_IS_ON(-LOG_VERBOSE) /\ LogMessage(t, LOG_VERBOSE)
CHECK(t) == LogMessage(t, LOG_FATAL)
DCHECK(t) == CHECK(t) \/ LOG(t, LOG_ERROR)

\* The end of ~LogMessage: whatever the severity, the thread goes on.
Finish(t, from, m) ==
  /\ Go(t, from, "idle")
  /\ message' = [message EXCEPT ![t] = m]
  /\ fatal' = IF m.severity = LOG_FATAL THEN fatal \cup {t} ELSE fatal

\* "First dibs on the message."
Handle(t) ==
  /\ IF log_message_handler = "handles"
     THEN Finish(t, "handler", [message[t] EXCEPT !.handled = TRUE])
     ELSE Go(t, "handler", "stderr") /\ UNCHANGED <<message, fatal>>
  /\ UNCHANGED <<configuration, target, locking, log_file, holder, redirection, counts>>

\* fprintf to stderr, and LoggingLock::Init.
PrintToStderr(t) ==
  /\ Go(t, "stderr", "destination")
  /\ message' = [message EXCEPT ![t].stderr =
                   ToSystem(logging_destination) \/ message[t].severity >= kAlwaysPrintErrorLevel]
  /\ InitLock(TRUE)
  /\ UNCHANGED <<configuration, target, log_file, holder, redirection, fatal, counts>>

\* The destination is read once more.
Choose(t) ==
  /\ IF ToFile(logging_destination)
     THEN Go(t, "destination", "lock") /\ UNCHANGED <<message, fatal>>
     ELSE Finish(t, "destination", message[t])
  /\ UNCHANGED <<configuration, target, locking, log_file, holder, redirection, counts>>

Lock(t) ==
  /\ Go(t, "lock", "open")
  /\ LockLogging(t)
  /\ UNCHANGED <<configuration, target, locking, log_file, redirection, message, fatal, counts>>

Open(t) ==
  /\ \E opens \in BOOLEAN :
       /\ InitializeLogFileHandle(opens)
       /\ Go(t, "open", IF HandleInitialized(opens) THEN "write" ELSE "unlock")
       /\ message' = [message EXCEPT ![t].opened = HandleInitialized(opens)]
  /\ UNCHANGED <<configuration, logging_destination, locking, holder, redirection, fatal, counts>>

Write(t) ==
  /\ Go(t, "write", "unlock")
  /\ message' = [message EXCEPT ![t].file = log_file]
  /\ UNCHANGED <<configuration, target, locking, log_file, holder, redirection, fatal, counts>>

Unlock(t) ==
  /\ UnlockLogging
  /\ Finish(t, "unlock", message[t])
  /\ UNCHANGED <<configuration, target, locking, log_file, redirection, counts>>

Log(t) ==
  \/ \E severity \in {LOG_INFO, LOG_FATAL} : LOG(t, severity)
  \/ VLOG(t) \/ DCHECK(t)
  \/ Handle(t) \/ PrintToStderr(t) \/ Choose(t) \/ Lock(t) \/ Open(t) \/ Write(t) \/ Unlock(t)

-----------------------------------------------------------------------------
\* InitLogging, and what else the main thread sets.

\* Up to LoggingLock::Init.  --v sets the level, with no lower bound.
InitLogging(destination, file, lock_log) ==
  /\ inits < MaxInits /\ inits' = inits + 1
  /\ Go(main, "idle", "lock for redirection")
  /\ redirection' = [destination |-> destination, file |-> file]
  /\ \E level \in VerboseLevels : min_log_level' \in {-level, min_log_level}
  /\ InitLock(lock_log)
  /\ UNCHANGED <<log_message_handler, target, log_file, holder, message, fatal, messages>>

LockToRedirect ==
  /\ Go(main, "lock for redirection", "redirect")
  /\ LockLogging(main)
  /\ UNCHANGED <<configuration, target, locking, log_file, redirection, message, fatal, counts>>

\* The old file is closed, and the options are set; DELETE_OLD_LOG_FILE matters
\* to none of the properties.
Redirect ==
  /\ Go(main, "redirect", IF ToFile(redirection.destination) THEN "reopen" ELSE "redirected")
  /\ log_file' = NULL
  /\ logging_destination' = redirection.destination
  /\ log_file_name' = IF ToFile(redirection.destination) THEN redirection.file ELSE log_file_name
  /\ message' = [t \in Threads |-> [message[t] EXCEPT !.steady = (pc[t] = "idle" /\ @)]]
  /\ UNCHANGED <<configuration, locking, holder, redirection, fatal, counts>>

Reopen ==
  /\ Go(main, "reopen", "redirected")
  /\ \E opens \in BOOLEAN : InitializeLogFileHandle(opens)
  /\ UNCHANGED <<configuration, logging_destination, locking, holder, redirection, message, fatal, counts>>

UnlockRedirected ==
  /\ Go(main, "redirected", "idle")
  /\ UnlockLogging
  /\ redirection' = NoRedirection
  /\ UNCHANGED <<configuration, target, locking, log_file, message, fatal, counts>>

SetMinLogLevel(level) ==
  /\ pc[main] = "idle" /\ inits = 1
  /\ min_log_level' = Least(LOG_ERROR, level)
  /\ UNCHANGED <<log_message_handler, target, locking, log_file, holder,
                 pc, redirection, message, fatal, counts>>

\* Right behind InitLogging, as in main.cc.
SetLogMessageHandler(handler) ==
  /\ pc[main] = "idle" /\ inits = 1 /\ messages = 0
  /\ log_message_handler' = handler
  /\ UNCHANGED <<min_log_level, target, locking, log_file, holder,
                 pc, redirection, message, fatal, counts>>

Next ==
  \/ \E t \in Threads : Log(t)
  \/ \E destination \in Destinations, file \in Files, lock_log \in BOOLEAN :
       InitLogging(destination, file, lock_log)
  \/ LockToRedirect \/ Redirect \/ Reopen \/ UnlockRedirected
  \/ \E level \in MinLevels : SetMinLogLevel(level)
  \/ \E handler \in Handlers : SetLogMessageHandler(handler)

Spec == Init /\ [][Next]_vars

-----------------------------------------------------------------------------
\* Properties.

\* The messages whose destructor has returned, as far as the threads remember.
Ended(t) == pc[t] = "idle" /\ ~message[t].handled

\* A message no handler has taken is never lost: from ERROR on it is on stderr,
\* and one that is not overtaken by a redirection is on stderr and in the file
\* just as its destination asks, unless the file cannot be opened.  A message
\* is only ever written to an open file, unless logging to files has been
\* switched off between the look at the destination and the lock.
MessagesArrive ==
  \A t \in Threads :
    LET m == message[t]
    IN  /\ pc[t] = "write" => log_file # NULL \/ ~ToFile(logging_destination)
        /\ Ended(t) /\ m.severity >= LOG_ERROR => m.stderr
        /\ Ended(t) /\ m.steady =>
             /\ m.stderr <=> ToSystem(m.destination) \/ m.severity >= LOG_ERROR
             /\ m.file # NULL <=> ToFile(m.destination) /\ m.opened

\* What logging.hh says of a FATAL message, and of CHECK: the program ends when
\* it has been logged, so no thread that has logged one logs anything again.
FatalEnds == \A t \in fatal : pc[t] = "idle"
=============================================================================
