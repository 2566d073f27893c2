---------------------------- MODULE LoggingProofs ----------------------------
(***************************************************************************)
(* However many threads log while the main thread redirects logging, for   *)
(* any handlers, files and levels: a message arrives where its destination *)
(* says unless it is overtaken, and no thread writes to a closed file.     *)
(***************************************************************************)
EXTENDS Logging, TLAPS

\* Where a message is under way, where InitLogging is, and where the lock is
\* held.
Underway == {"handler", "stderr", "destination", "lock", "open", "write", "unlock"}
Redirecting == {"lock for redirection", "redirect", "reopen", "redirected"}
Locked == {"open", "write", "unlock", "redirect", "reopen", "redirected"}

FileNames == Files \cup {NULL, GetDefaultLogFile}

Messages ==
  [severity : {LOG_VERBOSE, LOG_INFO, LOG_ERROR, LOG_FATAL}, destination : Destinations,
   steady : BOOLEAN, handled : BOOLEAN, stderr : BOOLEAN, opened : BOOLEAN, file : FileNames]

TypeOK ==
  /\ logging_destination \in Destinations
  /\ log_file_name \in FileNames /\ log_file \in FileNames
  /\ is_initialized \in BOOLEAN /\ lock_log_file \in BOOLEAN
  /\ holder \in [{"log_mutex", "log_lock"} -> Threads \cup {Nobody}]
  /\ pc \in [Threads -> {"idle"} \cup Underway \cup Redirecting]
  /\ redirection \in [destination : Destinations, file : FileNames]
  /\ message \in [Threads -> Messages]

\* One thread at a time is behind the lock, which is chosen before anybody
\* asks for it.
Exclusive ==
  /\ \A t \in Threads : pc[t] \in Locked => holder[Mutex] = t
  /\ \A t \in Threads : pc[t] \in Redirecting => t = main
  /\ ~is_initialized => \A t \in Threads : pc[t] \in {"idle", "handler", "stderr"}

\* The message has been on stderr if it is to be ...
Printed(m) ==
  /\ m.severity >= LOG_ERROR => m.stderr
  /\ m.steady => (m.stderr <=> ToSystem(m.destination) \/ m.severity >= LOG_ERROR)

\* ... and is in the file.
Filed(m) == m.steady => (m.file # NULL <=> ToFile(m.destination) /\ m.opened)

\* What a thread's message has come to, by where the thread is.
Follows(t) ==
  LET m == message[t]
  IN  /\ pc[t] \in Underway => ~m.handled /\ (m.steady => m.destination = logging_destination)
      /\ pc[t] \in Underway \ {"unlock"} => m.file = NULL /\ m.opened
      /\ pc[t] \in {"destination", "lock", "open", "write", "unlock"} => Printed(m)
      /\ pc[t] \in {"lock", "open", "write"} => (m.steady => ToFile(m.destination))
      /\ pc[t] = "write" => log_file # NULL \/ ~ToFile(logging_destination)
      /\ pc[t] = "unlock" => Filed(m)
      /\ pc[t] \in {"idle"} \cup Redirecting => m.handled \/ (Printed(m) /\ Filed(m))

LoggingInvariant == TypeOK /\ Exclusive /\ \A t \in Threads : Follows(t)

-----------------------------------------------------------------------------
\* Lemmas.

\* Before the first message.
LEMMA InitInvariant == Init => LoggingInvariant
<1> SUFFICES ASSUME Init PROVE LoggingInvariant
  OBVIOUS
<1>1. \A t \in Threads :
        /\ pc[t] = "idle"
        /\ message[t] = [severity |-> LOG_INFO, destination |-> logging_destination,
                         steady |-> TRUE, handled |-> TRUE, stderr |-> FALSE, opened |-> TRUE,
                         file |-> NULL]
  BY DEF Init, Message
<1>2. TypeOK
  BY <1>1 DEF Init, TypeOK, Messages, FileNames, Destinations, NoRedirection, Message, LOG_INFO
<1>3. Exclusive
  BY <1>1 DEF Exclusive, Locked, Redirecting
<1>4. ASSUME NEW t \in Threads PROVE Follows(t)
  <2>1. pc[t] = "idle" /\ message[t].handled = TRUE
    BY <1>1
  <2>2. "idle" \notin Underway
    BY DEF Underway
  <2>3. message[t].handled
    BY <2>1, Zenon
  <2>4. QED
    BY <2>1, <2>2, <2>3 DEF Follows
<1>5. QED
  BY <1>2, <1>3, <1>4 DEF LoggingInvariant

\* A thread whose place and message stay, as do the destination and, while it
\* writes, the file.
LEMMA Untouched ==
  ASSUME LoggingInvariant, NEW t \in Threads,
         pc'[t] = pc[t], message'[t] = message[t], UNCHANGED logging_destination,
         pc[t] = "write" => UNCHANGED log_file
  PROVE  Follows(t)'
<1>1. Follows(t)
  BY DEF LoggingInvariant
<1>2. QED
  BY <1>1 DEF Follows

\* A thread that goes on without asking for the lock or letting go of it.
LEMMA StillExclusive ==
  ASSUME LoggingInvariant, NEW t \in Threads, NEW to, pc' = [pc EXCEPT ![t] = to],
         UNCHANGED <<holder, locking>>,
         to \in Locked => pc[t] \in Locked,
         to \in Redirecting => t = main,
         to \in {"idle", "handler", "stderr"} \/ is_initialized
  PROVE  Exclusive'
<1>1. Exclusive /\ pc \in [Threads -> {"idle"} \cup Underway \cup Redirecting]
  BY DEF LoggingInvariant, TypeOK
<1>2. \A u \in Threads : pc'[u] = IF u = t THEN to ELSE pc[u]
  BY <1>1
<1>3. Mutex' = Mutex
  BY DEF Mutex, locking
<1>4. QED
  BY <1>1, <1>2, <1>3 DEF Exclusive, locking

\* A thread that gets the lock: nobody has it.
LEMMA ExclusiveBehindLock ==
  ASSUME LoggingInvariant, Nobody \notin Threads, NEW t \in Threads, NEW to,
         pc' = [pc EXCEPT ![t] = to], LockLogging(t), UNCHANGED locking,
         to \in Redirecting => t = main, is_initialized
  PROVE  Exclusive'
<1>1. /\ Exclusive /\ pc \in [Threads -> {"idle"} \cup Underway \cup Redirecting]
      /\ holder \in [{"log_mutex", "log_lock"} -> Threads \cup {Nobody}]
  BY DEF LoggingInvariant, TypeOK
<1>2. \A u \in Threads : pc'[u] = IF u = t THEN to ELSE pc[u]
  BY <1>1
<1>3. Mutex' = Mutex /\ Mutex \in {"log_mutex", "log_lock"}
  BY DEF Mutex, locking
<1>4. holder[Mutex] = Nobody /\ holder'[Mutex] = t
  BY <1>1, <1>3 DEF LockLogging
<1>5. \A u \in Threads : pc[u] \notin Locked
  BY <1>1, <1>4 DEF Exclusive
<1>6. QED
  BY <1>1, <1>2, <1>3, <1>4, <1>5 DEF Exclusive, locking

\* A thread that lets go of the lock: nobody else was behind it.
LEMMA ExclusiveUnlocked ==
  ASSUME LoggingInvariant, NEW t \in Threads, pc[t] \in Locked, pc' = [pc EXCEPT ![t] = "idle"],
         UNCHANGED locking
  PROVE  Exclusive'
<1>1. Exclusive /\ pc \in [Threads -> {"idle"} \cup Underway \cup Redirecting]
  BY DEF LoggingInvariant, TypeOK
<1>2. \A u \in Threads : pc'[u] = IF u = t THEN "idle" ELSE pc[u]
  BY <1>1
<1>3. \A u \in Threads : u # t => pc[u] \notin Locked
  BY <1>1 DEF Exclusive
<1>4. "idle" \notin Locked /\ "idle" \notin Redirecting
  BY DEF Locked, Redirecting
<1>5. UNCHANGED is_initialized
  BY DEF locking
<1>6. \A u \in Threads : pc'[u] \notin Locked
  BY <1>2, <1>3, <1>4
<1>7. QED
  BY <1>1, <1>2, <1>4, <1>5, <1>6 DEF Exclusive

\* The lock is initialised when nobody is behind it or asks for it.
LEMMA ExclusiveInitialised ==
  ASSUME LoggingInvariant, NEW t \in Threads, NEW to, pc' = [pc EXCEPT ![t] = to],
         NEW choice \in BOOLEAN, InitLock(choice), UNCHANGED holder,
         to \notin Locked, to \in Redirecting => t = main
  PROVE  Exclusive'
<1>1. Exclusive /\ pc \in [Threads -> {"idle"} \cup Underway \cup Redirecting]
  BY DEF LoggingInvariant, TypeOK
<1>2. \A u \in Threads : pc'[u] = IF u = t THEN to ELSE pc[u]
  BY <1>1
<1>3. is_initialized'
  BY DEF InitLock
<1>4. CASE is_initialized
  <2>1. Mutex' = Mutex
    BY <1>4 DEF InitLock, Mutex
  <2>2. QED
    BY <1>1, <1>2, <1>3, <2>1 DEF Exclusive
<1>5. CASE ~is_initialized
  <2>1. \A u \in Threads : pc'[u] \notin Locked
    BY <1>1, <1>2, <1>5 DEF Exclusive, Locked
  <2>2. QED
    BY <1>1, <1>2, <1>3, <2>1 DEF Exclusive
<1>6. QED
  BY <1>4, <1>5

\* Who is behind the lock is there alone.
LEMMA Alone ==
  ASSUME LoggingInvariant, NEW t \in Threads, pc[t] \in Locked, NEW u \in Threads, u # t
  PROVE  pc[u] \notin Locked
BY DEF LoggingInvariant, Exclusive

\* An open file has a name.
LEMMA Opens ==
  ASSUME TypeOK, NEW opens \in BOOLEAN, InitializeLogFileHandle(opens)
  PROVE  /\ log_file' \in FileNames /\ log_file_name' \in FileNames
         /\ HandleInitialized(opens) => log_file' # NULL \/ ~ToFile(logging_destination)
<1>1. log_file \in FileNames /\ log_file_name \in FileNames
  BY DEF TypeOK
<1>2. GetDefaultLogFile # NULL
  BY DEF GetDefaultLogFile, NULL
<1>3. CASE log_file # NULL
  BY <1>1, <1>3 DEF InitializeLogFileHandle
<1>4. CASE log_file = NULL
  <2>1. /\ log_file_name' = IF log_file_name = NULL THEN GetDefaultLogFile ELSE log_file_name
        /\ log_file' = IF ToFile(logging_destination) /\ opens THEN log_file_name' ELSE NULL
    BY <1>4 DEF InitializeLogFileHandle
  <2>2. log_file_name' \in FileNames /\ log_file_name' # NULL
    BY <1>1, <1>2, <2>1 DEF FileNames
  <2>3. log_file' \in FileNames
    BY <2>1, <2>2 DEF FileNames
  <2>4. QED
    BY <1>4, <2>1, <2>2, <2>3 DEF HandleInitialized
<1>5. QED
  BY <1>3, <1>4

\* A step of one thread, which leaves the others, the destination and a file
\* that is being written to alone.
LEMMA OneThread ==
  ASSUME LoggingInvariant, NEW t \in Threads, TypeOK', Exclusive', Follows(t)',
         \A u \in Threads : u # t => pc'[u] = pc[u] /\ message'[u] = message[u],
         UNCHANGED logging_destination,
         \A u \in Threads : u # t /\ pc[u] = "write" => UNCHANGED log_file
  PROVE  LoggingInvariant'
<1>1. ASSUME NEW u \in Threads PROVE Follows(u)'
  <2>1. CASE u # t
    BY <2>1, Untouched
  <2>2. QED
    BY <2>1
<1>2. QED
  BY <1>1 DEF LoggingInvariant

-----------------------------------------------------------------------------
\* One lemma for each action.

LEMMA LogMessageInvariant ==
  ASSUME LoggingInvariant, NEW t \in Threads,
         NEW severity \in {LOG_VERBOSE, LOG_INFO, LOG_ERROR, LOG_FATAL}, LogMessage(t, severity)
  PROVE  LoggingInvariant'
<1>1. TypeOK /\ pc' = [pc EXCEPT ![t] = "handler"]
  BY DEF LoggingInvariant, LogMessage, Go
<1>2. /\ message' = [message EXCEPT ![t] = Message(severity)]
      /\ UNCHANGED <<target, locking, log_file, holder, redirection>>
  BY DEF LogMessage
<1>3. Message(severity) \in Messages
  BY <1>1 DEF TypeOK, Messages, Message, FileNames
<1>4. TypeOK'
  BY <1>1, <1>2, <1>3 DEF TypeOK, Underway, target, locking
<1>5. Exclusive'
  <2>1. "handler" \notin Locked /\ "handler" \notin Redirecting
    BY DEF Locked, Redirecting
  <2>2. QED
    BY <1>1, <1>2, <2>1, StillExclusive
<1>6. pc'[t] = "handler" /\ message'[t] = Message(severity)
  BY <1>1, <1>2 DEF TypeOK
<1>7. Follows(t)'
  BY <1>2, <1>6 DEF Follows, Message, Underway, Redirecting, target
<1>8. QED
  BY <1>1, <1>2, <1>4, <1>5, <1>7, OneThread DEF TypeOK, target

LEMMA HandleInvariant ==
  ASSUME LoggingInvariant, NEW t \in Threads, Handle(t)
  PROVE  LoggingInvariant'
<1>1. /\ TypeOK /\ Follows(t) /\ pc[t] = "handler" /\ message[t] \in Messages
      /\ UNCHANGED <<target, locking, log_file, holder, redirection>>
  BY DEF LoggingInvariant, TypeOK, Handle, Finish, Go
<1>2. CASE log_message_handler = "handles"
  <2>1. /\ pc' = [pc EXCEPT ![t] = "idle"]
        /\ message' = [message EXCEPT ![t] = [message[t] EXCEPT !.handled = TRUE]]
    BY <1>2 DEF Handle, Finish, Go
  <2>2. [message[t] EXCEPT !.handled = TRUE] \in Messages
    BY <1>1 DEF Messages
  <2>3. TypeOK'
    BY <1>1, <2>1, <2>2 DEF TypeOK, target, locking
  <2>4. Exclusive'
    <3>1. "idle" \notin Locked /\ "idle" \notin Redirecting
      BY DEF Locked, Redirecting
    <3>2. QED
      BY <1>1, <2>1, <3>1, StillExclusive
  <2>5. pc'[t] = "idle" /\ message'[t].handled = TRUE
    BY <1>1, <2>1 DEF TypeOK, Messages
  <2>6. message'[t].handled
    BY <2>5, Zenon
  <2>7. Follows(t)'
    BY <2>5, <2>6 DEF Follows, Underway
  <2>8. QED
    BY <1>1, <2>1, <2>3, <2>4, <2>7, OneThread DEF TypeOK, target
<1>3. CASE log_message_handler # "handles"
  <2>1. pc' = [pc EXCEPT ![t] = "stderr"] /\ message' = message
    BY <1>3 DEF Handle, Go
  <2>2. TypeOK'
    BY <1>1, <2>1 DEF TypeOK, target, locking, Underway
  <2>3. Exclusive'
    <3>1. "stderr" \notin Locked /\ "stderr" \notin Redirecting
      BY DEF Locked, Redirecting
    <3>2. QED
      BY <1>1, <2>1, <3>1, StillExclusive
  <2>4. pc'[t] = "stderr"
    BY <1>1, <2>1 DEF TypeOK
  <2>5. Follows(t)'
    BY <1>1, <2>1, <2>4 DEF Follows, Underway, Redirecting, target
  <2>6. QED
    BY <1>1, <2>1, <2>2, <2>3, <2>5, OneThread DEF TypeOK, target
<1>4. QED
  BY <1>2, <1>3

\* From here on LoggingLock is initialised.
LEMMA PrintInvariant ==
  ASSUME LoggingInvariant, NEW t \in Threads, PrintToStderr(t)
  PROVE  LoggingInvariant'
<1> DEFINE printed == ToSystem(logging_destination) \/ message[t].severity >= kAlwaysPrintErrorLevel
<1>1. /\ TypeOK /\ Follows(t) /\ pc[t] = "stderr" /\ message[t] \in Messages
      /\ InitLock(TRUE) /\ UNCHANGED <<target, log_file, holder, redirection>>
      /\ pc' = [pc EXCEPT ![t] = "destination"]
  BY DEF LoggingInvariant, TypeOK, PrintToStderr, Go
<1>2. message' = [message EXCEPT ![t] = [message[t] EXCEPT !.stderr = printed]]
  BY DEF PrintToStderr
<1>3. printed \in BOOLEAN /\ printed = (ToSystem(logging_destination) \/ message[t].severity >= LOG_ERROR)
  BY DEF ToSystem, kAlwaysPrintErrorLevel
<1> HIDE DEF printed
<1>4. [message[t] EXCEPT !.stderr = printed] \in Messages
  BY <1>1, <1>3 DEF Messages
<1>5. TypeOK'
  BY <1>1, <1>2, <1>4 DEF TypeOK, target, InitLock, Underway
<1>6. Exclusive'
  <2>1. "destination" \notin Locked /\ "destination" \notin Redirecting
    BY DEF Locked, Redirecting
  <2>2. QED
    BY <1>1, <2>1, ExclusiveInitialised
<1>7. pc'[t] = "destination" /\ message'[t] = [message[t] EXCEPT !.stderr = printed]
  BY <1>1, <1>2 DEF TypeOK
<1>8. /\ message'[t].stderr = printed
      /\ message'[t].severity = message[t].severity /\ message'[t].steady = message[t].steady
      /\ message'[t].destination = message[t].destination
      /\ message'[t].handled = message[t].handled /\ message'[t].opened = message[t].opened
      /\ message'[t].file = message[t].file
  BY <1>1, <1>7 DEF Messages
<1>9. /\ ~message[t].handled /\ (message[t].steady => message[t].destination = logging_destination)
      /\ message[t].file = NULL /\ message[t].opened
  BY <1>1 DEF Follows, Underway
<1>10. Printed(message'[t])
  BY <1>3, <1>8, <1>9 DEF Printed, ToSystem
<1>11. Follows(t)'
  BY <1>1, <1>7, <1>8, <1>9, <1>10 DEF Follows, Underway, Redirecting, target
<1>12. QED
  BY <1>1, <1>2, <1>5, <1>6, <1>11, OneThread DEF TypeOK, target

LEMMA ChooseInvariant ==
  ASSUME LoggingInvariant, NEW t \in Threads, Choose(t)
  PROVE  LoggingInvariant'
<1>1. /\ TypeOK /\ Exclusive /\ Follows(t) /\ pc[t] = "destination" /\ message[t] \in Messages
      /\ UNCHANGED <<target, locking, log_file, holder, redirection>>
  BY DEF LoggingInvariant, TypeOK, Choose, Finish, Go
<1>2. is_initialized
  BY <1>1 DEF Exclusive
<1>3. message' = message
  BY <1>1 DEF Choose, Finish, TypeOK
<1>4. /\ ~message[t].handled /\ (message[t].steady => message[t].destination = logging_destination)
      /\ message[t].file = NULL /\ message[t].opened /\ Printed(message[t])
  BY <1>1 DEF Follows, Underway
<1>5. CASE ToFile(logging_destination)
  <2>1. pc' = [pc EXCEPT ![t] = "lock"]
    BY <1>5 DEF Choose, Go
  <2>2. TypeOK'
    BY <1>1, <1>3, <2>1 DEF TypeOK, target, locking, Underway
  <2>3. Exclusive'
    <3>1. "lock" \notin Locked /\ "lock" \notin Redirecting
      BY DEF Locked, Redirecting
    <3>2. QED
      BY <1>1, <1>2, <2>1, <3>1, StillExclusive
  <2>4. pc'[t] = "lock"
    BY <1>1, <2>1 DEF TypeOK
  <2>5. Follows(t)'
    BY <1>1, <1>3, <1>4, <1>5, <2>4 DEF Follows, Underway, Redirecting, target
  <2>6. QED
    BY <1>1, <1>3, <2>1, <2>2, <2>3, <2>5, OneThread DEF TypeOK, target
<1>6. CASE ~ToFile(logging_destination)
  <2>1. pc' = [pc EXCEPT ![t] = "idle"]
    BY <1>6 DEF Choose, Finish, Go
  <2>2. TypeOK'
    BY <1>1, <1>3, <2>1 DEF TypeOK, target, locking
  <2>3. Exclusive'
    <3>1. "idle" \notin Locked /\ "idle" \notin Redirecting
      BY DEF Locked, Redirecting
    <3>2. QED
      BY <1>1, <2>1, <3>1, StillExclusive
  <2>4. pc'[t] = "idle"
    BY <1>1, <2>1 DEF TypeOK
  <2>5. Filed(message[t])
    BY <1>4, <1>6 DEF Filed
  <2>6. Follows(t)'
    BY <1>1, <1>3, <1>4, <2>4, <2>5 DEF Follows, Underway, Redirecting
  <2>7. QED
    BY <1>1, <1>3, <2>1, <2>2, <2>3, <2>6, OneThread DEF TypeOK, target
<1>7. QED
  BY <1>5, <1>6

LEMMA LockInvariant ==
  ASSUME LoggingInvariant, Nobody \notin Threads, NEW t \in Threads, Lock(t)
  PROVE  LoggingInvariant'
<1>1. /\ TypeOK /\ Exclusive /\ Follows(t) /\ pc[t] = "lock" /\ LockLogging(t)
      /\ UNCHANGED <<target, locking, log_file, redirection, message>>
      /\ pc' = [pc EXCEPT ![t] = "open"]
  BY DEF LoggingInvariant, Lock, Go
<1>2. is_initialized
  BY <1>1 DEF Exclusive
<1>3. TypeOK'
  BY <1>1 DEF TypeOK, target, locking, Underway, LockLogging
<1>4. Exclusive'
  <2>1. "open" \notin Redirecting
    BY DEF Redirecting
  <2>2. QED
    BY <1>1, <1>2, <2>1, ExclusiveBehindLock
<1>5. pc'[t] = "open"
  BY <1>1 DEF TypeOK
<1>6. Follows(t)'
  BY <1>1, <1>5 DEF Follows, Underway, Redirecting, target
<1>7. QED
  BY <1>1, <1>3, <1>4, <1>6, OneThread DEF TypeOK, target

LEMMA OpenInvariant ==
  ASSUME LoggingInvariant, NEW t \in Threads, Open(t)
  PROVE  LoggingInvariant'
<1>1. PICK opens \in BOOLEAN :
        /\ InitializeLogFileHandle(opens)
        /\ Go(t, "open", IF HandleInitialized(opens) THEN "write" ELSE "unlock")
        /\ message' = [message EXCEPT ![t].opened = HandleInitialized(opens)]
  BY DEF Open
<1> DEFINE opened == HandleInitialized(opens)
           to == IF opened THEN "write" ELSE "unlock"
<1>2. /\ TypeOK /\ Exclusive /\ Follows(t) /\ pc[t] = "open" /\ message[t] \in Messages
      /\ UNCHANGED <<logging_destination, locking, holder, redirection>>
      /\ pc' = [pc EXCEPT ![t] = to]
      /\ message' = [message EXCEPT ![t] = [message[t] EXCEPT !.opened = opened]]
  BY <1>1 DEF LoggingInvariant, TypeOK, Open, Go
<1>3. /\ log_file' \in FileNames /\ log_file_name' \in FileNames
      /\ opened => log_file' # NULL \/ ~ToFile(logging_destination)
  BY <1>1, <1>2, Opens
<1>4. opened \in BOOLEAN /\ is_initialized
  BY <1>2 DEF HandleInitialized, Exclusive
<1>5. to \in {"write", "unlock"} /\ (to = "write" <=> opened)
  OBVIOUS
<1> HIDE DEF opened, to
<1>6. [message[t] EXCEPT !.opened = opened] \in Messages
  BY <1>2, <1>4 DEF Messages
<1>7. TypeOK'
  BY <1>2, <1>3, <1>5, <1>6 DEF TypeOK, locking, Underway
<1>8. Exclusive'
  <2>1. "open" \in Locked /\ to \notin Redirecting
    BY <1>5 DEF Locked, Redirecting
  <2>2. QED
    BY <1>2, <1>4, <2>1, StillExclusive
<1>9. pc'[t] = to /\ message'[t] = [message[t] EXCEPT !.opened = opened]
  BY <1>2 DEF TypeOK
<1>10. /\ message'[t].stderr = message[t].stderr /\ message'[t].opened = opened
       /\ message'[t].severity = message[t].severity /\ message'[t].steady = message[t].steady
       /\ message'[t].destination = message[t].destination
       /\ message'[t].handled = message[t].handled /\ message'[t].file = message[t].file
  BY <1>2, <1>9 DEF Messages
<1>11. /\ ~message[t].handled /\ (message[t].steady => message[t].destination = logging_destination)
       /\ message[t].file = NULL /\ Printed(message[t])
       /\ (message[t].steady => ToFile(message[t].destination))
  BY <1>2 DEF Follows, Underway
<1>12. Printed(message'[t])
  BY <1>10, <1>11 DEF Printed
<1>13. ~opened => Filed(message'[t])
  BY <1>10, <1>11 DEF Filed
<1>14. Follows(t)'
  BY <1>2, <1>3, <1>5, <1>9, <1>10, <1>11, <1>12, <1>13 DEF Follows, Underway, Redirecting
<1>15. \A u \in Threads : u # t => pc[u] # "write"
  BY <1>2, Alone DEF Locked
<1>16. QED
  BY <1>2, <1>7, <1>8, <1>14, <1>15, OneThread DEF TypeOK

LEMMA WriteInvariant ==
  ASSUME LoggingInvariant, NEW t \in Threads, Write(t)
  PROVE  LoggingInvariant'
<1>1. /\ TypeOK /\ Exclusive /\ Follows(t) /\ pc[t] = "write" /\ message[t] \in Messages
      /\ UNCHANGED <<target, locking, log_file, holder, redirection>>
      /\ pc' = [pc EXCEPT ![t] = "unlock"]
      /\ message' = [message EXCEPT ![t] = [message[t] EXCEPT !.file = log_file]]
  BY DEF LoggingInvariant, TypeOK, Write, Go
<1>2. is_initialized /\ log_file \in FileNames
  BY <1>1 DEF Exclusive, TypeOK
<1>3. [message[t] EXCEPT !.file = log_file] \in Messages
  BY <1>1, <1>2 DEF Messages
<1>4. TypeOK'
  BY <1>1, <1>3 DEF TypeOK, target, locking, Underway
<1>5. Exclusive'
  <2>1. "write" \in Locked /\ "unlock" \notin Redirecting
    BY DEF Locked, Redirecting
  <2>2. QED
    BY <1>1, <1>2, <2>1, StillExclusive
<1>6. pc'[t] = "unlock" /\ message'[t] = [message[t] EXCEPT !.file = log_file]
  BY <1>1 DEF TypeOK
<1>7. /\ message'[t].stderr = message[t].stderr /\ message'[t].opened = message[t].opened
      /\ message'[t].severity = message[t].severity /\ message'[t].steady = message[t].steady
      /\ message'[t].destination = message[t].destination
      /\ message'[t].handled = message[t].handled /\ message'[t].file = log_file
  BY <1>1, <1>6 DEF Messages
<1>8. /\ ~message[t].handled /\ (message[t].steady => message[t].destination = logging_destination)
      /\ message[t].opened /\ Printed(message[t])
      /\ (message[t].steady => ToFile(message[t].destination))
      /\ log_file # NULL \/ ~ToFile(logging_destination)
  BY <1>1 DEF Follows, Underway
<1>9. Printed(message'[t])
  BY <1>7, <1>8 DEF Printed
<1>10. Filed(message'[t])
  BY <1>7, <1>8 DEF Filed
<1>11. Follows(t)'
  BY <1>1, <1>6, <1>7, <1>8, <1>9, <1>10 DEF Follows, Underway, Redirecting, target
<1>12. QED
  BY <1>1, <1>4, <1>5, <1>11, OneThread DEF TypeOK, target

LEMMA UnlockInvariant ==
  ASSUME LoggingInvariant, NEW t \in Threads, Unlock(t)
  PROVE  LoggingInvariant'
<1>1. /\ TypeOK /\ Follows(t) /\ pc[t] = "unlock" /\ UnlockLogging
      /\ UNCHANGED <<target, locking, log_file, redirection>>
      /\ pc' = [pc EXCEPT ![t] = "idle"]
      /\ message' = message
  BY DEF LoggingInvariant, TypeOK, Unlock, Finish, Go
<1>2. TypeOK'
  BY <1>1 DEF TypeOK, target, locking, UnlockLogging
<1>3. Exclusive'
  BY <1>1, ExclusiveUnlocked DEF Locked
<1>4. pc'[t] = "idle"
  BY <1>1 DEF TypeOK
<1>5. Printed(message[t]) /\ Filed(message[t])
  BY <1>1 DEF Follows
<1>6. Follows(t)'
  BY <1>1, <1>4, <1>5 DEF Follows, Underway, Redirecting
<1>7. QED
  BY <1>1, <1>2, <1>3, <1>6, OneThread DEF TypeOK, target

LEMMA InitLoggingInvariant ==
  ASSUME LoggingInvariant, main \in Threads, NEW destination \in Destinations, NEW file \in Files,
         NEW lock_log \in BOOLEAN, InitLogging(destination, file, lock_log)
  PROVE  LoggingInvariant'
<1>1. /\ TypeOK /\ Follows(main) /\ pc[main] = "idle" /\ InitLock(lock_log)
      /\ UNCHANGED <<target, log_file, holder, message>>
      /\ pc' = [pc EXCEPT ![main] = "lock for redirection"]
      /\ redirection' = [destination |-> destination, file |-> file]
  BY DEF LoggingInvariant, InitLogging, Go
<1>2. TypeOK'
  BY <1>1 DEF TypeOK, target, InitLock, Redirecting, FileNames
<1>3. Exclusive'
  <2>1. "lock for redirection" \notin Locked
    BY DEF Locked
  <2>2. pc' = [pc EXCEPT ![main] = "lock for redirection"] /\ UNCHANGED holder
    BY <1>1
  <2>3. QED
    BY <1>1, <2>1, <2>2, ExclusiveInitialised
<1>4. pc'[main] = "lock for redirection"
  BY <1>1 DEF TypeOK
<1>5. Follows(main)'
  BY <1>1, <1>4 DEF Follows, Underway, Redirecting
<1>6. QED
  BY <1>1, <1>2, <1>3, <1>5, OneThread DEF TypeOK, target

LEMMA LockToRedirectInvariant ==
  ASSUME LoggingInvariant, Nobody \notin Threads, main \in Threads, LockToRedirect
  PROVE  LoggingInvariant'
<1>1. /\ TypeOK /\ Exclusive /\ Follows(main) /\ pc[main] = "lock for redirection"
      /\ LockLogging(main)
      /\ UNCHANGED <<target, locking, log_file, redirection, message>>
      /\ pc' = [pc EXCEPT ![main] = "redirect"]
  BY DEF LoggingInvariant, LockToRedirect, Go
<1>2. is_initialized
  BY <1>1 DEF Exclusive
<1>3. TypeOK'
  BY <1>1 DEF TypeOK, target, locking, Redirecting, LockLogging
<1>4. Exclusive'
  BY <1>1, <1>2, ExclusiveBehindLock
<1>5. pc'[main] = "redirect"
  BY <1>1 DEF TypeOK
<1>6. Follows(main)'
  BY <1>1, <1>5 DEF Follows, Underway, Redirecting
<1>7. QED
  BY <1>1, <1>3, <1>4, <1>6, OneThread DEF TypeOK, target

\* Whoever has a message under way is overtaken.
LEMMA RedirectInvariant ==
  ASSUME LoggingInvariant, main \in Threads, Redirect
  PROVE  LoggingInvariant'
<1> DEFINE to == IF ToFile(redirection.destination) THEN "reopen" ELSE "redirected"
<1>1. /\ TypeOK /\ Exclusive /\ pc[main] = "redirect"
      /\ UNCHANGED <<locking, holder, redirection>>
      /\ pc' = [pc EXCEPT ![main] = to]
  BY DEF LoggingInvariant, Redirect, Go
<1>2. /\ log_file' = NULL /\ logging_destination' = redirection.destination
      /\ log_file_name' = IF ToFile(redirection.destination) THEN redirection.file ELSE log_file_name
      /\ message' = [t \in Threads |-> [message[t] EXCEPT !.steady = (pc[t] = "idle" /\ @)]]
  BY DEF Redirect
<1>3. to \in {"reopen", "redirected"}
  OBVIOUS
<1> HIDE DEF to
<1>4. to \in Redirecting /\ to \in Locked /\ "redirect" \in Locked /\ "write" \in Locked
  BY <1>3 DEF Redirecting, Locked
<1>5. \A t \in Threads : message[t] \in Messages
  BY <1>1 DEF TypeOK
<1>6. \A t \in Threads : (pc[t] = "idle" /\ message[t].steady) \in BOOLEAN
  OBVIOUS
<1>7. message' \in [Threads -> Messages]
  BY <1>2, <1>5, <1>6 DEF Messages
<1>8. TypeOK'
  <2>1. redirection.destination \in Destinations /\ redirection.file \in FileNames
    BY <1>1 DEF TypeOK
  <2>2. logging_destination' \in Destinations /\ log_file_name' \in FileNames /\ log_file' \in FileNames
    BY <1>1, <1>2, <2>1 DEF TypeOK, FileNames
  <2>3. pc' \in [Threads -> {"idle"} \cup Underway \cup Redirecting]
    BY <1>1, <1>4 DEF TypeOK
  <2>4. QED
    BY <1>1, <1>7, <2>2, <2>3 DEF TypeOK, locking
<1>9. Exclusive'
  <2>1. to \notin {"idle", "handler", "stderr"} /\ is_initialized
    BY <1>1, <1>3 DEF Exclusive
  <2>2. QED
    BY <1>1, <1>4, <2>1, StillExclusive
<1>10. ASSUME NEW t \in Threads PROVE Follows(t)'
  <2>1. message'[t] = [message[t] EXCEPT !.steady = (pc[t] = "idle" /\ @)]
    BY <1>2
  <2>2. /\ message'[t].stderr = message[t].stderr /\ message'[t].opened = message[t].opened
        /\ message'[t].severity = message[t].severity
        /\ message'[t].destination = message[t].destination
        /\ message'[t].handled = message[t].handled /\ message'[t].file = message[t].file
    BY <1>5, <2>1 DEF Messages
  <2>3. message'[t].steady = (pc[t] = "idle" /\ message[t].steady)
    BY <1>5, <2>1 DEF Messages
  <2>4. Follows(t)
    BY DEF LoggingInvariant
  <2>5. Printed(message[t]) => Printed(message'[t])
    BY <2>2, <2>3 DEF Printed
  <2>6. Filed(message[t]) => Filed(message'[t])
    BY <2>2, <2>3 DEF Filed
  <2>7. CASE t = main
    <3>1. pc'[t] = to
      BY <1>1, <2>7 DEF TypeOK
    <3>2. message[t].handled \/ (Printed(message[t]) /\ Filed(message[t]))
      BY <1>1, <2>4, <2>7 DEF Follows, Redirecting
    <3>3. message'[t].handled \/ (Printed(message'[t]) /\ Filed(message'[t]))
      BY <2>2, <2>5, <2>6, <3>2
    <3>4. to \notin Underway /\ to # "write" /\ to # "unlock" /\ to # "idle"
      BY <1>3 DEF Underway
    <3>5. QED
      BY <1>3, <3>1, <3>3, <3>4 DEF Follows, Underway
  <2>8. CASE t # main
    <3>1. pc'[t] = pc[t] /\ pc[t] # "write"
      BY <1>1, <1>4, <2>8, Alone DEF TypeOK
    <3>2. CASE pc[t] = "idle"
      <4>1. message'[t].handled \/ (Printed(message'[t]) /\ Filed(message'[t]))
        BY <2>2, <2>4, <2>5, <2>6, <3>2 DEF Follows
      <4>2. QED
        BY <3>1, <3>2, <4>1 DEF Follows, Underway
    <3>3. CASE pc[t] # "idle"
      <4>1. ~message'[t].steady
        BY <2>3, <3>3
      <4>2. pc[t] \notin Redirecting
        BY <1>1, <2>8 DEF Exclusive
      <4>3. Filed(message'[t])
        BY <4>1 DEF Filed
      <4>4. QED
        BY <2>2, <2>4, <2>5, <3>1, <3>3, <4>1, <4>2, <4>3 DEF Follows
    <3>4. QED
      BY <3>2, <3>3
  <2>9. QED
    BY <2>7, <2>8
<1>11. QED
  BY <1>8, <1>9, <1>10 DEF LoggingInvariant

LEMMA ReopenInvariant ==
  ASSUME LoggingInvariant, main \in Threads, Reopen
  PROVE  LoggingInvariant'
<1>1. /\ TypeOK /\ Exclusive /\ Follows(main) /\ pc[main] = "reopen"
      /\ UNCHANGED <<logging_destination, locking, holder, redirection, message>>
      /\ pc' = [pc EXCEPT ![main] = "redirected"]
  BY DEF LoggingInvariant, Reopen, Go
<1>2. PICK opens \in BOOLEAN : InitializeLogFileHandle(opens)
  BY DEF Reopen
<1>3. log_file' \in FileNames /\ log_file_name' \in FileNames
  BY <1>1, <1>2, Opens
<1>4. TypeOK'
  BY <1>1, <1>3 DEF TypeOK, locking, Redirecting
<1>5. Exclusive'
  <2>1. "reopen" \in Locked /\ is_initialized
    BY <1>1 DEF Locked, Exclusive
  <2>2. QED
    BY <1>1, <2>1, StillExclusive
<1>6. pc'[main] = "redirected"
  BY <1>1 DEF TypeOK
<1>7. Follows(main)'
  BY <1>1, <1>6 DEF Follows, Underway, Redirecting
<1>8. \A u \in Threads : u # main => pc[u] # "write"
  BY <1>1, Alone DEF Locked
<1>9. QED
  BY <1>1, <1>4, <1>5, <1>7, <1>8, OneThread DEF TypeOK

LEMMA UnlockRedirectedInvariant ==
  ASSUME LoggingInvariant, main \in Threads, UnlockRedirected
  PROVE  LoggingInvariant'
<1>1. /\ TypeOK /\ Follows(main) /\ pc[main] = "redirected" /\ UnlockLogging
      /\ UNCHANGED <<target, locking, log_file, message>>
      /\ pc' = [pc EXCEPT ![main] = "idle"] /\ redirection' = NoRedirection
  BY DEF LoggingInvariant, UnlockRedirected, Go
<1>2. NoRedirection \in [destination : Destinations, file : FileNames]
  BY DEF NoRedirection, Destinations, FileNames
<1>3. TypeOK'
  BY <1>1, <1>2 DEF TypeOK, target, locking, UnlockLogging
<1>4. Exclusive'
  BY <1>1, ExclusiveUnlocked DEF Locked
<1>5. pc'[main] = "idle"
  BY <1>1 DEF TypeOK
<1>6. Follows(main)'
  BY <1>1, <1>5 DEF Follows, Underway, Redirecting
<1>7. QED
  BY <1>1, <1>3, <1>4, <1>6, OneThread DEF TypeOK, target

\* Levels, handlers and stuttering steps: all that the invariant is about stays.
LEMMA QuietInvariant ==
  ASSUME LoggingInvariant,
         UNCHANGED <<target, locking, log_file, holder, pc, redirection, message>>
  PROVE  LoggingInvariant'
<1>1. UNCHANGED <<logging_destination, log_file_name, is_initialized, lock_log_file>>
  BY DEF target, locking
<1>2. TypeOK'
  BY <1>1 DEF LoggingInvariant, TypeOK
<1>3. Exclusive'
  BY <1>1 DEF LoggingInvariant, Exclusive, Mutex
<1>4. \A t \in Threads : Follows(t)'
  BY <1>1, Untouched
<1>5. QED
  BY <1>2, <1>3, <1>4 DEF LoggingInvariant

LEMMA StepInvariant ==
  ASSUME LoggingInvariant, main \in Threads, Nobody \notin Threads, [Next]_vars
  PROVE  LoggingInvariant'
<1>1. ASSUME NEW t \in Threads, Log(t) PROVE LoggingInvariant'
  <2>1. ASSUME \/ \E severity \in {LOG_INFO, LOG_FATAL} : LOG(t, severity)
               \/ VLOG(t) \/ DCHECK(t)
        PROVE  \E severity \in {LOG_VERBOSE, LOG_INFO, LOG_ERROR, LOG_FATAL} : LogMessage(t, severity)
    BY <2>1 DEF LOG, VLOG, DCHECK, CHECK
  <2>2. QED
    BY <1>1, <2>1, LogMessageInvariant, HandleInvariant, PrintInvariant, ChooseInvariant,
       LockInvariant, OpenInvariant, WriteInvariant, UnlockInvariant DEF Log
<1>2. CASE \E destination \in Destinations, file \in Files, lock_log \in BOOLEAN :
             InitLogging(destination, file, lock_log)
  BY <1>2, InitLoggingInvariant
<1>3. CASE LockToRedirect \/ Redirect \/ Reopen \/ UnlockRedirected
  BY <1>3, LockToRedirectInvariant, RedirectInvariant, ReopenInvariant, UnlockRedirectedInvariant
<1>4. CASE \/ \E level \in MinLevels : SetMinLogLevel(level)
           \/ \E handler \in Handlers : SetLogMessageHandler(handler)
  <2>1. UNCHANGED <<target, locking, log_file, holder, pc, redirection, message>>
    BY <1>4 DEF SetMinLogLevel, SetLogMessageHandler
  <2>2. QED
    BY <2>1, QuietInvariant
<1>5. CASE UNCHANGED vars
  <2>1. UNCHANGED <<target, locking, log_file, holder, pc, redirection, message>>
    BY <1>5 DEF vars
  <2>2. QED
    BY <2>1, QuietInvariant
<1>6. QED
  BY <1>1, <1>2, <1>3, <1>4, <1>5 DEF Next

\* What has become of the messages is what was to become of them.
LEMMA InvariantIsEnough ==
  ASSUME LoggingInvariant
  PROVE  MessagesArrive
<1> SUFFICES ASSUME NEW t \in Threads
             PROVE  /\ pc[t] = "write" => log_file # NULL \/ ~ToFile(logging_destination)
                    /\ Ended(t) => /\ message[t].severity >= LOG_ERROR => message[t].stderr
                                   /\ message[t].steady =>
                                        /\ message[t].stderr <=> \/ ToSystem(message[t].destination)
                                                                 \/ message[t].severity >= LOG_ERROR
                                        /\ message[t].file # NULL <=>
                                             ToFile(message[t].destination) /\ message[t].opened
  BY DEF MessagesArrive
<1>1. Follows(t)
  BY DEF LoggingInvariant
<1>2. pc[t] = "write" => log_file # NULL \/ ~ToFile(logging_destination)
  BY <1>1 DEF Follows
<1>3. Ended(t) => Printed(message[t]) /\ Filed(message[t])
  BY <1>1 DEF Follows, Ended
<1>4. QED
  BY <1>2, <1>3 DEF Printed, Filed

-----------------------------------------------------------------------------
\* Whatever the threads, the handlers, the files and the levels, and however
\* often logging is redirected while messages are under way: a message that
\* ~LogMessage has let go of is on stderr from ERROR on, is where its
\* destination says unless InitLogging has overtaken it, and is never written
\* to a file that InitLogging has closed.  Two threads never hold LoggingLock
\* at once although either of two mutexes may serve.  main must be one of the
\* threads and the mark of a free lock none of them.
THEOREM MessagesReachTheirFile ==
  ASSUME main \in Threads, Nobody \notin Threads
  PROVE  Spec => []MessagesArrive
<1>1. LoggingInvariant /\ [Next]_vars => LoggingInvariant'
  BY StepInvariant
<1>2. QED
  BY <1>1, InitInvariant, InvariantIsEnough, PTL DEF Spec
=============================================================================
