# Torikuru in TLA+

Torikuru records market data from the Reuters Foundation API (RFA) and exports
what it recorded as CSV. It has two modes. A *capture* subscribes to a list of
symbols on one or more sessions and archives the messages it receives, until a
time limit or, with `--terminate-on-sync`, until every symbol has answered. An
*extraction* reads such an archive and writes one CSV file per service.

This directory holds TLA+ models of the program, TLC configurations that check
them on small instances, and proofs for the TLA+ proof system of the properties
that matter most. Paths below are relative to the repository.

## Inventory

| Part | Source | State | Operations | Modelled by |
|---|---|---|---|---|
| Consumer, one per session | `src/consumer.cc` | `directory_`, item streams (`item_handle`, `refresh_received`, `is_closed`), `refresh_count_`, `in_sync_`, `is_muted_` | `CreateItemStream`, `Resubscribe`, the event handlers, login handling, destructor | `Consumer` |
| Capture application | `src/torikuru.cc` | `consumers_`, `streams_`, `consumers_in_sync_`, the event queue | `Init`, `MainLoop`, the `on_sync` lambda, `Clear` | `Torikuru`, `CaptureContract` |
| Capture file | `src/torikuru.cc`, `src/consumer.cc` | coded, gzip and file stream, file | open, write a frame, flush, close | `Archive` |
| Extraction | `src/torikuru.cc` (`Convert`) | `fid_map`, `service_map`, two passes over the file | collect fields, write headers, write rows | `Convert` |
| Lifecycle | `src/torikuru.cc`, `src/consumer.cc`, `src/rfa.cc`, `src/rfa_logging.cc` | shared and unique pointers to everything RFA lends | acquire, fail, unwind, clear | `Lifecycle` |
| Session configuration | `src/torikuru.cc`, `src/rfa.cc`, `src/config.hh` | `config_.sessions`, the staging database | parse a URL, stage a session, merge | `RfaConfig`, `Numbers` |
| URL parser | `src/googleurl/` | none | `ParseStandardURL`, `ParsePathURL`, `ParseMailtoURL`, `ParsePort`, `ExtractFileName`, `ExtractQueryKeyValue`, `CountCharactersBefore` | `UrlParse`, `UrlValues` |
| Strings | `src/chromium/string_*.cc`, `stringprintf.cc` | none | searches, splitting, joining, trimming, placeholders, the buffer of `StringPrintf` | `Strings` |
| Verbose levels | `src/chromium/vlog.cc` | pattern list | `--v`, `--vmodule`, `GetVlogLevel`, `MatchVlogPattern` | `Vlog` |
| Command line | `src/chromium/command_line.cc` | `argv_`, `begin_args_`, `switches_` of the process | init, reset, append, copy, wrap, parse, print | `CommandLine` |
| Singletons | `src/chromium/memory/` | one word per singleton | `get`, exit, `Resurrect` | `Singleton` |
| Histograms | `src/chromium/metrics/` | ranges and samples of each, the recorder's two maps under a lock | the factories, `Add`, `SnapshotSample`, `WriteAscii`, `FindCorruption`, registration | `Buckets`, `Histogram`, `StatisticsRecorder` |
| Logging | `src/chromium/logging.cc`, `logging.hh` | level, destination, file, `LoggingLock` | the macros, `~LogMessage`, `InitLogging` | `Logging` |
| Leak tracking | `src/chromium/debug/leak_tracker.hh`, `linked_list.hh` | a circular list per class | construct, destroy, count, check | `LeakTracker` |
| Platform wrappers, RFA printing, entry point | `src/chromium/synchronization/`, `debug/stack_trace*`, `file_util*`, `win/`, `src/rfaostream.hh`, `src/error.cc`, `src/main.cc` | none | - | not modelled |

How they interact. `main` constructs `torikuru_t` and calls `Run`. `Init` fills
`config_` from the switches (session URLs among them), hands it to `rfa_t`,
creates the event queue, the log provider, the output file and a consumer per
session, adds a stream per symbol and session, and calls `Resubscribe` on every
consumer. RFA then posts events from its own threads into the event queue.
`MainLoop` dispatches them one at a time into `consumer_t::processEvent`, in the
one thread the program has. A consumer that has counted as many answers as its
directory has entries calls `on_sync`, which deactivates the queue once all
consumers have. `Clear` flushes the file and releases everything. The archive
joins the two modes: `Convert` of a later process reads what `Clear` (or a
killed capture) left. The library under `src/chromium` and `src/googleurl` came from
Chromium: `Init` of `torikuru_t` uses its parser, its command line and its strings,
everything logs, and `Clear` ends with the leak check. The singletons and
histograms come with it; nothing of the program uses a histogram.

What is hard in it:

* Answers are counted in `refresh_count_`, apart from the streams that give
  them. Each stream must count once whether it answers with an image, a close,
  or both, in any order, with events queued before it was unregistered still to
  come. The comparison with the directory's size is for equality.
* RFA holds raw pointers to the item streams. Handles are kept after they are
  released. Requests are made from `Init` and again at every login.
* Anything RFA is asked for may be refused, with an exception or a null result,
  and destructors and `Clear` release what there is in an order RFA prescribes.
* A capture may die at any byte of its file, or run out of disk without noticing.
* The extraction reads the file twice and relies on both readings to agree.
* Sessions share names when they share a service.
* What the user types goes through hand-written parsers full of offsets: URLs, port
  numbers, query pairs, switches, lists, placeholders, patterns.
* The library promises to be used by threads without giving them locks: singletons
  spin on a word, samples are added and copied as they are, log messages look at
  their destination before they take the lock, two threads register one histogram.

## Modules

**`Consumer`** has the state of all consumers and the operations of `consumer_t`,
each parameterised by the session. Item streams are known by their *slot*, the
position of their symbol in the list: a symbol listed twice is two objects, of
which only one gets into the directory. `interest` is RFA's side of a handle:
`none`, `open`, `final` (RFA has posted the closing event), `cancelled`
(unregistered), and two states no run should reach, `doubled` (registered
again, the old handle lost) and `misused` (released when already dead).
`OnMarketDataItemEvent` is one operation with all the handler does, its `goto`s
included: `ClosesNow`, `FirstImage`, `Skipped`, `Rejected`, `EndsSnapshot`,
`Recorded` and `ReachesSync` name its branches. `answered` is a history variable:
the slots that were sent a refresh or a close.

**`Torikuru`** composes the consumers with `torikuru_t` and the event queue: the
three loops of `Init`, `MainLoop` with one `Dispatch...` action per kind of event,
the `on_sync` lambda in the same step as the event that calls it, and `Clear`. RFA
and the feed are the environment: `PostItem` and `PostLogin` post any event for
any open stream at any time from the request on, while `Init` is still
running included. `LateEvents` says whether RFA still delivers what it had queued
for a stream that was unregistered meanwhile; both answers are checked.
`RequestsMayFail` makes requests end in null handles or exceptions.

**`CaptureContract`** is the abstract specification, what `--terminate-on-sync`
promises: answers are collected, the one that completes them ends the capture,
and only a failure or the time limit ends it before that. `Torikuru` refines it
with `answered` mapped to pairs of session and symbol, and `CaptureOutcome` to
its outcome.

**`Archive`** has the capture file, in units that stand for the bytes of a frame
(a varint size and a message). The three streams are one buffer whose prefix
may reach the file at any time; `Close` drains it, `Killed` loses it, `DiskFills`
makes all later writes vanish, as no caller looks at their results.

**`Convert`** extends it with the extraction, one action per iteration of each
pass. Of the units of a message the first `RequiredUnits` are its required fields, and
those up to `BufferUnits` end with the packed buffer when a new symbol follows. So a message
that the file cuts between two fields still parses, as in the code (`Parsed`), and one
that is cut behind its buffer is exported without its new symbol (`Exports`); that
`TibMsg::UnPack` refuses the empty buffer of one cut in front of it is assumed of RFA.
`columns` is any order of the collected names, as an `unordered_set` gives
them. `Put` writes at the position of a service's own stream.
Writing through the null stream of a service that no session names, or to a
cell outside a row, ends in `crashed`.

**`Lifecycle`** has, for any number of sessions, what is acquired (`Program`, in the
order of `Init`), what each resource needs while it lives (`Needs`), and the order the
destructors and `Clear` release it in (`ReleaseOrder`). Both orders are sequences of
groups, with a group for each consumer; `First` finds the next part to ask for or to
let go. Any acquisition RFA has a say in may be refused. `failed` is the owner
of what was: a consumer that fails is unwound before `Init` returns false; the rest is
released by `Clear`. `hollow` are shared pointers that hold null together with a
deleter, which is called all the same.

**`RfaConfig`** goes from the parts of a URL to `session_config_t` and on to the
staging entries, one action per URL and per session. A port is a text in the URL and in an
RSSL entry; the entry of an SSLED session is the number `std::atoi` makes of it
(**`Numbers`**, which `Strings` uses too), 0 if it begins with no digits, what comes
before the rest if it does, and any of `UndefinedPorts` when more than nine digits may not fit
an `int`. The program does not use `ParsePort` of its URL parser for this. A crash for an unset
`LOGNAME`, an unsupported protocol, a missing dictionary and a refused merge are
its other ends. Entries that are the same for every run (logger, entitlements)
are left out.

**`UrlParse`**, **`UrlValues`** (ports and query pairs) and **`Strings`** are pure: a text is a
sequence of symbols, offsets count from 0
and `npos` is what the code has, so that every bound and every off-by-one is
there. **`Vlog`** extends `Strings` with levels by module. **`UrlText`** lets a text grow by
one symbol at a time and says what the parts of a URL are for, and **`TextPromises`** extends
it with what the others are for, without loops or offsets: a URL is its parts put together with their
separators, splitting is the inverse of joining, a placeholder becomes its parameter
and everything else stays, a glob is cut into pieces that match.
**`MCInputs`** gives symbols and seeds to it and
has the lists of session URLs that `RfaConfig` starts from: what the user types.

**`CommandLine`** extends `Strings` with the object of the process and one action per
operation. `ReadsBack` compares its three views: a process started with the vector,
or with the printed line, has to find the switches and arguments again. What is read is trimmed and
what is printed is not quoted, so it asks this of words without outer blanks for the vector,
and of words without any blank for the line.

**`Singleton`** has `get()` with one action per access to `instance_`, so that first
callers interleave at each of them, and `OnExit` and `Resurrect`, which the code
allows when nobody is inside. `OnExit` is an over-approximation here: this copy of `get()` no
longer registers it with an exit manager, so the program calls it nowhere.

**`Buckets`** has the shapes of the four kinds of histogram, the binary search, the rows
of `WriteAscii` and `FindCorruption`. Logarithms and roots are exact: `NextStart` is the
integer the code rounds to, found by comparing powers. **`Histogram`** extends it
with threads: each `+=` on the sample set is a load and a store, and a snapshot
copies one word after the other. **`StatisticsRecorder`** has `FactoryGet`, the macro's
static pointer and the two maps, with one action per critical section.

**`Logging`** has the way of a message through its destructor, one action for each look
at shared state, with `LoggingLock` around the file, and the second `InitLogging`,
which its comment allows, by the main thread meanwhile. `steady` is a history
variable of a message: logging was not redirected while it was under way.

**`LeakTracker`** has the pointers of the circular list. `instances`, a history variable,
is the sequence they should stand for. `Lifecycle` takes the result of the leak
check for granted; here it is the walk.

**`MCRuntime`** puts the parts of the library but the histograms side by side, as they are in
the process; they share no state, so a behaviour is one of a single part. It extends the
recorder and has instances of the others; its properties `OneInstance` and `MessagesArrive`
are those of `Singleton` and `Logging`. **`MCHistogram`** has the shapes of histograms, and
lets a second thread race, and snapshots be taken, on those of few words only.

`MCTorikuru`, `MCConvert` and `MCLifecycle` only define values for constants.

Definitions whose names end in an underscore and a word, such as `OnSync_First`, are plausible mistakes kept beside the definition they deviate
from; replacing the one by the other must break a property, which shows that
the property is sensitive to that code.

## Runs

| Configuration | Shows | Bounds |
|---|---|---|
| `Snapshot` | two sessions of two symbols, RFA delivering or dropping what it had queued for an unregistered stream: the capture ends with the last answer and not before, holds an image of every symbol the feed did not close, releases no handle twice, implements `CaptureContract`, and under fairness ends once all is answered | 2 events per stream, 2 in the queue |
| `Registration` | both protocols, all message types, a repeated symbol, refusals, exceptions, a time limit, logins lost and regained: no dangling closure, no lost handle, one stream per symbol; the archive has every counted image and update once; each consumer reports sync once | 2 logins, 2 events per stream |
| `Export` | captures closed, killed or out of disk at any unit, exported through a filter: what either pass parses is a recorded message at its place, and a cut one that is exported lacks its new symbol only; the CSVs hold a prefix of the last capture, all of it if it was closed and had room; no cell falls outside its row; conversions end | 2 captures of 2 records, 6 messages, frames of 5 units: 2 of size, 1 of required fields, 2 more for the buffer and the new symbol |
| `Failures` | an RSSL and an SSLED session, each acquisition refused in turn: users go before what they use, nothing is left at the end, the `CHECK`s of `Clear` hold | exact: the program is finite |
| `Inputs` | URLs, ports, queries, lists, pairs, formats, patterns, source files and printed lengths: each algorithm gives what its promise says; lists of session URLs: each entry of each service is as the last URL for it that says anything about it has it, SSLED ports as numbers | texts of 3 to 6 symbols, from seeds of up to 9, over the symbols the algorithm tells apart; up to 3 of 9 URLs, with ports of no digits, of digits and a rest, and of ten digits; `LOGNAME` set or not |
| `Histograms` | `Histogram`: ranges rise to the end, each sample of one thread is counted in its bucket, rows show every bucket; a snapshot without a lock counts hardly more than was added, and is called corrupt only when overtaken | every shape over 8 samples, 2 samples on each; a second thread and a snapshot on 2 shapes of few words |
| `Runtime` | singletons, command lines, histograms being registered, log messages and tracked objects: see the properties of `MCRuntime` | 3 callers and 2 exits; 4 calls on a command line, with and without blanks in their words; 2 threads, 3 names and 3 objects; 2 loggers, 2 messages and 2 initialisations; 4 objects at 3 addresses |

Why the bounds are enough. A stream's part in the sync count is decided by its
first image and its first close; a second event of either kind is the one that
could be miscounted, so two events per stream reach every branch, and each of them
comes before and behind the unregistration. Sync needs two consumers to tell "all" from
"the first", and two symbols to tell an answered directory from an answered
stream. A queue of two lets an event of one stream overtake the
unregistration of another, and an event of the same stream wait behind it. Two logins are what it takes to resubscribe after a loss. One capture
after another shows what truncation leaves; the second record shows a frame
boundary in the middle of the file; sizes of two units let a file end inside a
frame's size as well as inside its message, and messages of three units let it end behind
the required fields, behind the buffer, or nowhere that parses. Of three sessions two can share a
service while the third has its own. Nine digits always fit an `int`, and ten may not.

A text algorithm looks at one character and its neighbours; the seeds bring it
into each of its states (an authority with a user, an open bracket, a path), and a
few symbols more go through every way on from there, empty parts and repeated
separators included. The lengths of `StringPrintf` lie on both sides of each size
its buffer takes. A singleton needs a creator, a waiter and a late caller, and a
second exit to be dead for good. Two threads are enough for a race to register,
and a third name for a checksum that collides. The snapshot race needs one word
that is copied before and one after the addition in between. Of the log, a
second message shows the state the first has left. Three addresses give a node
with two neighbours, and the fourth object is one at a used address.

Five runs show where the code does otherwise than it says:

* `EarlyFinish`: `--disable-refresh` with `--terminate-on-sync`. The first image counts
  without marking its stream closed, a close then counts the stream again, and the
  capture ends while another symbol is still unanswered (`src/consumer.cc:676`, `688`).
* `RsslNeverFinishes`: RSSL refreshes take no part in the count (`src/consumer.cc:546`), so
  an RSSL capture with `--terminate-on-sync` never ends by itself.
* `DoubleRelease`: a snapshot image that is not Marketfeed is unregistered twice in
  one event (`src/consumer.cc:693`, `762`).
* `NullHandles`: a null result of RFA is given to a `shared_ptr` with a deleter before it
  is tested, and the deleter runs on null (`src/consumer.cc:115`, `133`, `240`,
  `src/torikuru.cc:218`), so `Run` may not return its error code.
* `FatalGoesOn`: a FATAL message, and so a failed `CHECK`, is to terminate the program
  (`src/chromium/logging.hh:82`); its destructor (`src/chromium/logging.cc:393`) returns.

In the library a header and the code it declares disagree, too. These cases
take an unusual URL, output path or argument and have no run of their own; the models
follow the code, and the properties are stated within what both agree on, or by the
comments of the code itself:

* Of several hash signs of a URL the last is to begin the reference
  (`src/googleurl/url_parse.h:193`), and its file name is to go to the end of the path
  (`src/googleurl/url_parse.h:305`). In the code the first hash sign does
  (`src/googleurl/url_parse.cc:207`), and the file name ends at the last semicolon
  (`src/googleurl/url_parse.cc:499`). `UrlPartsCompose` has the rules of `url_parse.cc`.
* The table at `src/googleurl/url_parse.h:147` counts 5 characters before an absent user name or
  password, and `CountCharactersBefore` counts 7. `UrlLaidOut` asks for order only there.
* There are to be nine placeholders, `$1` to `$9` (`src/chromium/string_util.hh:129`), and `$0` is
  invalid (the `DCHECK` at `src/chromium/string_util.cc:165`). In the code all digits behind a `$` are its
  number (`src/chromium/string_util.cc:174`), so `$11` is not the first parameter with a 1 behind it, and
  nothing takes the place of `$0`. `PlaceholdersReplaced` is about placeholders of one digit that is not 0.
* An appended argument is to be quoted (`src/chromium/command_line.hh:99`). No word is, so
  one with a blank is two of the printed line (`src/chromium/command_line.cc:232`). `ReadsBack` asks
  for the printed line only where no word has a blank.

Met on the way, and not given a run of their own: `Init` requests RSSL items
before the login is answered (`src/torikuru.cc:284`), while `src/consumer.hh:93` has
handles valid from login success on; `--disable-update`, "Retrieve initial image
only.", archives corrections, renames and later images; the log says a capture
appends to its file where it truncates it (`src/torikuru.cc:233`);
`--disable-refresh`, "Record updates only.", drops the first image of a stream and
archives the next (`src/consumer.cc:687`); `InitializeLogFileHandle` says its file can be used
(`src/chromium/logging.cc:229`) when logging to files was switched off meanwhile and there is
none, which `MessagesArrive` leaves out; `--v` with a number below -2 silences errors,
unlike `SetMinLogLevel`; `InitFromArgv` neither stores the program nor forgets earlier
switches; `AppendArguments` ignores `include_program`. In static memory, a `get()` after exit
swaps the marker in and out again, so a caller that waits may meet it each time.

## Fairness

`Torikuru!FairSpec` assumes weak fairness of the program's own steps taken together:
one thread that nothing in the program blocks, since `dispatch(100)` returns after
a tenth of a second. Nothing is assumed of RFA or the feed, so `AnsweredCaptureEnds`
starts from the state in which all answers have been dispatched. `Convert!FairSpec`
assumes that the reading loops go on; a capture need not ever be converted.
`Lifecycle!FairSpec` takes the main loop to end, which is the other modules' business.
`Singleton!Fairness` schedules a thread that is inside `get()`: it constructs or yields,
and waits for nothing but another such thread. `CallersServed` excepts a singleton
in static memory after an exit, for the reason above.

## Proofs

`CaptureProofs` proves, for every set of sessions, list of symbols, assignment of
protocols, setting of the switches and bound:

* `TypeCorrect`: `Spec => []TypeOK`.
* `SnapshotCorrect`: under `SnapshotMode`, `Spec => []SnapshotInvariant`.
* `NeverFinishesEarly`: under `SnapshotMode`, `Spec => []FinishOnlyWhenAnswered`.

`SnapshotMode` says that `--terminate-on-sync` is given, `--disable-refresh` is not, and
that RFA does not send an image as the event that closes its stream. The first two
are the documented snapshot mode (`EarlyFinish` shows why the second is needed); the
third is a fact about RFA that the code relies on, as such an event would count twice.

`FinishOnlyWhenAnswered` is not inductive: it says nothing of the counters. The
invariant that is has these parts, in the order they need one another:

1. `Phases`: nothing is dispatched before the loop, and all consumers exist in it.
2. `OnlyListed`: only streams of the directory are registered, queued for or closed.
3. `CloseIsLast`: a queued closing event is the last of its stream.
4. `ClosedIsQuiet`: a stream that closed before its first image has no event left.
5. `CountsClosed`: `refresh_count_` is the number of closed streams, all of them
   answered; a stream that had an image is closed.
6. `SyncIsComplete`: a consumer in sync has closed its directory, and a deactivated
   queue means all consumers are in sync.

The step that matters is the market data event (`MarketDataStep`). `GainIsClosing`
shows that it adds one to the count exactly if it closes a stream: 3 and 4 exclude
an image after a close, 5 excludes a close counted after an image. The rest is
one lemma per action, each showing what the action leaves alone. TLC checks
the invariant itself in `Snapshot`.

`SessionProofs` proves, for every list of URLs, service names and values of `LOGNAME`,
`TypeCorrect` and `SessionsConnectAsGiven` (`Spec => []ConnectsAsGiven`). The property compares the
database with the URLs alone: which of them says anything about an entry, and which is the last
to. Its inductive invariant, `ConfigInvariant`, has the loop invariants of the two loops:
`Parsing`, of `torikuru_t::Init`, a session for each URL in its order; and `StagedSoFar`, of
`rfa_t::Init`, each entry as its last writer among the staged sessions left it, `Unset` where
none has written it. That only staged sessions of a supported protocol write ties the writers to the URLs
that say something (`WrittenIsSaid`). `EntryAsGiven` compares entry and URL key by key: `UserSaid` for
the user name, with `ValuedIsLast` for the last pair of a query key, and `PortRead` for the port.
The latter says that what `atoi` returns is the number whose decimal digits the port begins with:
`RunIs` finds where the digits end, `NumberRead` unfolds the reading from first to last digit, and
`NumberWritten` shows that dividing the result by ten gives the digits back from the
last to the first, by `AllNumbers`, which follows from the well-foundedness of the
naturals and takes the place of the library's induction.

`UrlsCompose` (`TextSpec => []UrlPartsCompose`) is its result on the URL parser, for a text of any
length over any symbols. Every part is a stretch between two offsets (`Inside`), and `FirstOfIs`
and `LastOfIs` say of a search where it stops and which characters it has passed: so
a part is free of what would have ended it (`InsideHasNot`). Neighbouring stretches join
(`Joined`), first within user information, server, authority and path, one lemma for each
function of the parser, then over the whole trimmed URL (`StandardUrlComposes`,
`PathUrlComposes`, `MailtoUrlComposes`). That no symbol is lost holds by these joins whatever
the URL holds; only that the last bracket and the last at sign are searched backwards
makes the colons and at signs end up in the right part. `FileNameIs` does the same for the file name.

`UrlsLaidOut` (`TextSpec => []UrlLaidOut`) is the other: `CountCharactersBefore` and `Length` never look
at the text, only at the parts there are. The lemmas `SchemeLaid`, `AuthorityLaid`,
`PathLaid` and `StandardUrlLaid` find nine offsets at which a URL is cut (`Laid`): a part that is
there stands between two of them with exactly the delimiters the layout knows of, and from the
password on one that is not there takes no place. `CountIs` says which part `CountCharactersBefore` goes
by, the next one there is or else the last; the cuts then put its answers
in order (`CountsRise`), at the part if it is there (`FoundWhereItBegins`), and at the end of the URL
(`LengthIs`), except for slashes that nothing follows, which no part stands for.

`ObjectProofs` is about singletons and tracked objects. It proves `SingletonCorrect`
(`Spec => []OneInstance`) for any number of callers, both traits and any number of exits. `OneInstance` speaks of objects and answers, not of
the word; `SpinlockInvariant` adds that the marker is there exactly while one thread
constructs, that a pointer in the word is the object alive, and that a thread waits
for an empty word only when the object is gone for good. The invariant then
follows access by access.

`ListIsOfTheLive` (`Spec => []ListHoldsTheLive`) is its result on the leak tracker, for any finite
set of addresses without the root and any sequence of constructions and destructions,
at addresses used again too. `ListInvariant` has that the live objects are distinct, that
`next_` leads from each to the one that follows, and `previous_` back. It survives an
insertion or a removal at any place, which touches the pointers of two neighbours. That the walk
then meets the live objects and comes back to the root (`WalkMeetsList`) is
an induction over what is left of the list.

For every capture, whatever the protocols, the symbols, the switches, the refusals and
the logins, it also proves:

* `RegisteredOnce`, `ClosuresAlive` and `SymbolsListedOnce`: `OneRegistration`,
  `NoDanglingClosure` and `OneStreamPerSymbol`. The invariant is `Handles` (a
  registration has its handle, a handle its entry in the directory, an entry its stream
  until `Clear`; queued events have a registration) with `Listing` (one entry for each symbol
  offered so far). Each has its step per action; the one that matters is
  `HandlesRequested`: a second `Resubscribe` asks only for streams without a handle, and these
  are the ones without a registration.
* `CallsOnSyncOnce`: `OnSyncOncePerConsumer`, which is inductive together with `TypeOK`; the
  cardinality of `in_sync` grows by one because the branch requires `~in_sync_`.
* `ArchiveComplete`: `ArchiveMatchesCounts`, which by its own definition speaks of feeds of
  Marketfeed data. It is inductive together with `Archiving`: what is
  queued is Marketfeed, and a handle is given back only with the first image.
* `ReleasedOnce`: `HandleReleasedOnce`, when all messages are Marketfeed (`Marketfeed = {TRUE}`).
  The run `DoubleRelease` shows that the hypothesis is needed.

For snapshot captures:

* `NeverFinishesLate`: `FinishOnceAnswered`, under `SnapshotMode` and with SSLED sessions only
  (`SSLEDSessions = Sessions`; the run `RsslNeverFinishes` is what happens with another).
  `SnapshotInvariant` bounds the counters from above; `Closing` is the other
  direction: what is answered is closed, a consumer that has closed its directory is in
  sync, and the last of them has deactivated the queue.
* `SnapshotIsWhole`: `SnapshotHoldsImages`, under `SnapshotMode` and `Marketfeed = {TRUE}`, from
  all of these invariants together.
* `KeepsContract`: `ImplementsContract`, under the hypotheses of `NeverFinishesLate`. The mapping
  is that of `Torikuru`. `ContractMarketData` has the only step that may collect
  an answer: it is `Contract!Answer` for an image or a close and a stutter for any other event, and
  its answer completes the contract's set exactly when the step ends the capture
  (`WantedIsComplete` goes from pairs of session and symbol to slots of the directory, which is
  where repeated symbols come in).

`LifecycleProofs` proves, for any number of sessions of either protocol, `UsersReleasedFirst`,
`AllIsReleased` and `SharersAreGone` (the properties `UsersGoFirst`, `NothingLeaks`, `ChecksHold`),
and `CrashNeedsNull`: with `NullResults = FALSE` no run crashes. The invariant
(`LifecycleInvariant`) is small; the work is in the two orders. `ProgramPlace` and
`ReleasePlace` give each part its place in closed form, `OrdersFit` shows that what a part needs
comes before it in the one and behind it in the other, and `AskedInPlace`, `ReleasedInPlace`,
`AllAsked` and `AllReleased` that the sequences of the code have exactly these places. `First`
exists by the well-foundedness of the naturals, twice.

`ConvertProofs` proves, for files of any length, frames of any size, any records and filters:

* `ReadsWhatWasRecorded` (`ReadsRecorded`): a message that either pass parses is one that was
  recorded, at its place, however the capture ended. It is whole unless the file ends within it, which takes a kill
  or a full disk (`CutNeedsFailure`); then what is there is the beginning of its frame
  (`FrameCut`), and if it is exported only its new symbol is missing. `ArchiveInvariant` says
  that the file is a prefix of the frames written (`PrefixOf`), and with the buffers
  all of them until the disk is full; `Boundary` that a pass stands between frames.
* `NoCellOutsideItsRow` (`CellsFitRows`): the first pass has collected the fields of every message
  the second writes (`Covers`). The hypothesis is that no field is named like one of
  the four fixed columns: the code enters such a field into `fid_map` without a column, and the
  property does fail (`src/torikuru.cc:429`). Fields of the dictionary are in capitals.
* `CrashNeedsForeignService`: then a conversion ends early only for a message of a service that no
  session is configured for.
* `ExportIsTheCapture` (`ExportFollowsCapture`): each CSV has the header and, in order, the rows of what the
  file holds, every value under the name of its field. It needs three hypotheses: no field is
  named like a fixed column, as above; the names of fields, services and symbols have no comma,
  since the code puts quotes around values only; and no two services share an output file
  (`OwnOutputs`), which `$1` in the output path is for. The invariant follows the second pass message by
  message; that what it writes is the selection of the records by service and filter is an
  induction over the file.

`RecorderProofs` proves `SharesOneHistogram` (`OneHistogramPerName`) for any threads, names, ranges
and colliding checksums, with a recorder that is constructed and destructed meanwhile.
`RecorderInvariant` has the types; `InUse`: threads and static pointers have
histograms that are not deleted; `RangesAlive`: no histogram has freed ranges; `Registry`: what
the two maps hold while the recorder is active, and that a thread which is about to
store has what the map has; `Tentative`: a histogram that is not registered is known to its
thread alone, which is why deleting it is safe.

`LoggingProofs` proves `MessagesReachTheirFile` (`MessagesArrive`) for any threads, handlers, files and
levels and any number of redirections, from `main` being one of the threads and `Nobody`
none. `LoggingInvariant` has the types; `Exclusive`: whoever is behind the lock holds the mutex
that `LoggingLock` uses, which is chosen before anybody asks for it, so the open file is its
holder's; and for each thread `Follows`: what has come of its message by where it is.

`HistogramProofs` proves of histograms, for any shapes, samples and threads:

* `EverySampleIsCounted` (`EverySampleHasItsBucket`): the binary search ends at the bucket around each
  sample, and what one thread adds, sample by sample or in sets, is exactly in the buckets, the sum
  and the redundant count when it is done.
* `SnapshotsAreBarelyOvertaken` (`SnapshotsBarelyRace`): whatever additions come between two words of a copy, no
  bucket counts more samples than were given; with one sampler a snapshot is never called low, is
  called high only if more than one sample came meanwhile, and is not corrupt if none did.
* `RowsAreComplete` (`RowsAddUp`): the printed rows account for every bucket, their contexts are true, and no
  bar leaves the line.

`HistogramAssumptions` are that ranges rise strictly from 0 to the end, by the declared
ends, that samples are integers, and that threads are finitely many. The first is what the
factories are to see to, and they do: `LinearRangesRise`, `CustomRangesRise`,
`ExponentialRangesRise` and the lemma `BooleanRangesRise` prove it of every shape they make of arguments
they admit. For equal widths this is that rounding moves no two starts together; for exponential
ones, that a start leaves a sample for each bucket to come: by the inequality of
Bernoulli, the rounded root is never beyond that point, so the last step ends at the
largest sample. These roots are exact, where the code has logarithms in `double`s.

The invariant (`HistogramInvariant`) has four parts. `Calls`: what each call has still to add is a list of
additions that are `Due`, at most one per word, the redundant count in front of the bucket
when there are several samples. `NoneTooMany`: a bucket, a loaded value and a copied word, with what the calls under way
still owe it (`Units`), are within what was given; lost updates only make them
smaller. `AllCounted`, of a sole sampler: with what is left, nothing is lost.
`BarelyOvertaken`, of the same: the copied words are not above the current ones, the copied
part completed by the current one has at least what was settled, and once the redundant count
is copied the buckets have at most one sample more. The search, totals, powers and rows are recursive functions; `AllNumbers`,
which follows from the well-foundedness of the naturals, takes the place of the library's
induction, and `IterationExists` shows that what is computed step by step exists.

Proofs and runs fit together: a listed theorem states a property of a run, except that those of
`SingletonCorrect`, `ListIsOfTheLive` and `MessagesReachTheirFile` are checked in an instance,
and that `SessionProofs!TypeCorrect`, `CrashNeedsNull`, `CrashNeedsForeignService` and the
theorems about ranges are proved only. `UrlsCompose` and `UrlsLaidOut` are about `TextSpec`,
which `Inputs` runs together with the lists of URLs. Assumptions on constants are the `ASSUME`s of the modules, which TLC evaluates.

Only model-checked:

* Liveness (`AnsweredCaptureEnds`, `ConversionEnds`, `CallersServed`), which needs fairness.
* The texts of `Inputs` other than URLs (what `ParsePort` makes of ports, query pairs, lists and
  the rest), and `ReadsBack`: algorithms and
  promises both go through recursive operators and folds, of the
  model and of the community modules, which the provers cannot expand.

## Not modelled

* Bytes and formats: compression, protobuf encoding, Marketfeed decoding, the text
  of rows, log lines, statistics counters, activity times.
* Wall-clock time: a time limit may elapse at any moment.
* Several services exported to one file, for want of `$1` in `--output-path`: their
  streams overwrite each other at byte positions lines do not show.
* Message loss inside RFA: it gives no guarantee to check against; a feed that
  never answers is a behaviour of the model.
* In the library: the text of log messages and histograms, the CRC of ranges (any
  function that may collide stands for it), `SampleSet::Subtract` and flags, which
  nothing uses, Windows branches, weak memory orders (`Singleton` and
  `StatisticsRecorder` take an atomic access as one step of a sequentially
  consistent memory; the barriers of the code are there to make it so).
* Platform wrappers, printing of RFA objects (tables from constants to text), build
  files, scripts.

## Plan

What is left is liveness and the text algorithms, for the reasons above.
