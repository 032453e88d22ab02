# TLA+ models of contested-srv

contested-srv is a multi-threaded C++ server: mobile clients send JSON requests
over HTTP, and the server keeps users, contests of two pictures, votes and
friends in a MySQL database. This directory holds TLA+ modules translated from
its source, the TLC configurations that check them, and proofs checked by TLAPS.
Line numbers are those of `src/source/` unless a header is named.

## 1. Inventory

| Part | Source | State | Operations | Interacts with |
|---|---|---|---|---|
| Startup, shutdown | `srv_main.cpp` | step of `srv_main()` | read the configuration, make the shared objects, start 4 kinds of thread, wait for a signal, stop / interrupt / join, delete | all threads, by flags, interruptions and joins |
| HTTP server | `server.cpp` | acceptor, `new_connection_`, thread pool | `run`, `stop`, `handle_accept` | connections; its threads are the io_service's |
| Connection | `connection.cpp` | socket, request, reply, parser, one `SRV_DB` | `start`, `handle_read`, `handle_write` | parser, handler; kept alive by `shared_ptr`s |
| Request parser | `request_parser.cpp` | `readHeader`, `contentLength`, `readAmount`, `jsonRequest` | `parser` per read | called by `handle_read` |
| Request handler | `request_handler.cpp` | none | test the session, authenticate, test parameters, dispatch, reply | `SRV_DB`, cached lists of `Config` |
| Database access | `srv_db.cpp` | session, `connectionStatus`; tables users, contest, images, voted, friends | one method per request | MySQL: every statement commits by itself |
| Pollers | `srv_randcontst.cpp`, `srv_topcontst.cpp` | flag `running` | `run` (fetch a list, store it, sleep), `stop` | own `SRV_DB`, lists in `Config` |
| Logger | `logger.cpp` | `messageList`, `running`, file | `sendMsg`, `run`, `stop` | every thread sends to it |
| Configuration | `config.cpp` | settings; two cached lists with mutexes | read once by `srv_main()`; get / set lists | pollers write, handler reads |
| Replies | `reply.cpp` | none | stock and JSON replies | handler |
| Unused | `mime_types.cpp`, `SRV_DB::deleteUser`, `getContestPermission`, `closeDriver` | | | nobody calls them |

What is hard here: every request is several SQL statements without a
transaction, on a session of its own, beside those of other threads; a statement
may fail with or without effect; the process may die between two of them;
the decisions of `updateImage()` rest on rows read long before; handlers of one
connection run on changing threads; the shutdown is a protocol of flags, an
interruption and joins that meets the threads anywhere; the logger must neither
lose nor reorder messages. What makes each part correct:

* **Votes**: a user counts once per contest, and no fault counts a vote twice.
* **Entries**: what a contest shows in a slot is one upload of that slot's user;
  nobody loses a slot that is theirs; a reader never sees one user's name beside another's picture.
* **Accounts**: a name is one row; a request acts for who gave the password, or, when it has the empty
  password and a name nobody had, for whoever took the name since.
* **Friends**: a removal ends a friendship; nobody asks against their will.
* **Logger**: in order, complete while nothing fails; a message is given up with a long list, at the end, or by a write that failed unnoticed.
* **Lifecycle**: the server runs as its file says; nothing is deleted under a live thread; a signal ends
  the process; the stored lists come back after an outage where the code can bring them back.
* **HTTP**: one thread in a connection at a time; each request that was read is answered;
  connections and their sessions go away.
* **Parser**: true, false and indeterminate mean what its header file says.
* **Handler and replies**: but for creating an account, nothing is asked of the database without the user's own
  password, or the empty one for a name nobody has; each reply is one document, and tells what the operation returned.

`PROJECT.json` lists these parts, the hazards at their lines, and the
properties that are about them.

## 2. Modules

| Module | Models | Uses |
|---|---|---|
| `BallotBox` | abstract specification of voting | |
| `Voting` | `SRV_DB::vote()` | instantiates `BallotBox` |
| `Gallery` | abstract specification of contests and entries | |
| `ContestEntries` | `createContest()`, `updateImage()`, `insertImage()`; the functions that show contests and images | instantiates `Gallery` |
| `Accounts` | `createUser()`, `authenticateUser()`, `getUserID()` | |
| `Friends` | the four operations on friends | |
| `Logger` | class `Logger` and its stop by `srv_main()` | |
| `Configuration` | `Config`'s constructor and `readConfigFile()`, as a function of the lines | |
| `Lifecycle` | `srv_main()`, pollers and the lists they store, `server::run()`, the logger's thread | extends `Configuration` |
| `HttpServer` | `server`, `connection`, the phases of `handle_request()` | |
| `RequestParser` | `request_parser::parser()` | |
| `Exchange` | one request: `handle_read()`, `handle_request()`, the replies | extends `RequestParser` |
| `MC...` | symmetry sets and values for TLC | the module named |
| `...Proofs` | theorems and proofs | the module named |

### The database modules

A **worker** is an HTTP thread that serves a request. `work[w].pc` names the SQL
statement that is next, the other fields are the locals of the method, and
`reply` is the answer given last. One statement is one action. Calls between
two statements (`checkString()`, a test of a local) belong to the action of the
statement they precede or follow. `Fault` is the budget of failures: each of the actions
of statements has a disjunct in which the statement throws, without effect or after its
effect, and the method's `catch` block decides what comes next. `Crash` empties
all workers and leaves the tables. A request has passed `authenticateUser()` before it reaches
the operation; `Accounts` is about that. In the other modules a request is one of a user who has an account.
A name that nobody has passes as well, with the empty password; `getUserID()` finds nobody for it, and every
operation that asks whom it acts for then answers with a refusal and changes no table.

* `Voting`: `InsertVoted`, `UpdateScore`, `SelectScores` are the three
  statements of `vote()` (1103-1112), `CatchSelect` is its `catch` block, which takes
  every exception for a second vote. The schema is not in the repository; the
  unique key of `voted` is implied by the comment at 114, a foreign key is not,
  so `schema` is a variable that may have either value at the start and never changes.
* `ContestEntries`: rows of `contest` and `images` are sequences, their key is the
  index. `lastId[w]` is `LAST_INSERT_ID()` of the session. An image is a record of
  its owner and of the upload it belongs to. For an unknown contest the
  locals of `updateImage()` are not initialized: `CheckSlot` lets the test
  go either way. `AnyContestId` says whether requests name such contests: the proofs hold for
  both values, the runs are for requests that name contests which exist (see section 3). `Lock` is the permission -2, which the code tests and never sets.
  A reader's `Select` takes its rows; each `ShowEntry` then looks up one image and one name, in any order and
  while other workers write. `shown` is the entry looked up last, `Unread` the text that stands for an
  image whose statement failed.
  `Gallery` is what `createContest()` and `updateImage()` promise together, without tables and sessions: whoever passed
  the test of a place holds an admission; one picture is made for it, and is hung there with its own thumbnail and
  name in one step, or lost with the admission. The mapping looks up in `images` what the columns of a row name. That an admission outlives
  the row it was given on is part of the gallery, since the UPDATE does not repeat the test (`entries_takeover`).
* `Accounts`: `Folded` is what MySQL's collation makes of a name, `NameUnique`
  whether the table has a key on it. `NameRead` and `PasswordRead` are the texts that the loops over a result leave, empty
  when there was no row, and are compared with the request's own (`NameTaken`, `Verified`): the empty name always
  exists (124-138), and the empty password fits a name nobody has (196-206). `row` is a history field, the row whose password was
  compared, for the property `ActsAsAuthenticated`.
* `Friends`: `fresh` is a history variable for the property `RemoveTakesBoth`.

### The threads

* `Logger`: `pc` is the place in `run()`, `main` the end of `srv_main()`.
  `LockFree` is `msgMute`. A message is its number. A write fails in two ways: `WriteFails` is a file that does not open, which
  `writeMsg()` reports; `WriteLost` is one that fails behind that (a full disk), which it takes for success (211-221).
* `Configuration`: a line is what stands before and behind its `=`; texts are told apart by what
  `stoi()` and the comparisons make of them. `ReadConfig` folds `ReadLine` over the file. A malformed line ends the reading, whose
  exception is caught; a number that is none throws another exception, which is not. `Meant` says
  the same without reading line by line, and is what the property compares with.
* `Lifecycle`: `main` counts the steps of `srv_main()` from the configuration (`Initialize`)
  to the end of the block (140), where the server object is destroyed. `HTTPThreads` chooses how
  many of `Workers` there are; the constructor sets no default, so without a line for it any number may come out. Workers
  that were not chosen count as done. A poller has a `session`, opened again only if there never was one,
  and its `list` in `Config` is one of nothing, contests, or one of the two error texts. A poller's
  update and the logger's pass are one step each: the locks of `Config` make a store or a read of a list one step.
  A stop of the io_service lets a thread leave `run()` between two handlers. An exception in an update leaves the thread and ends the process.
  `DatabaseDown` breaks all open sessions.
* `HttpServer`: `stage[c]` names the operation that is outstanding on a connection or
  `made`, `idle` (no operation, a handler or the server holds it) and `gone`.
  `handle_accept()` is `Accept`, `Start`, `Renew`, `Arm`, because from the read
  that `start()` begins other threads may run this connection's handlers;
  `handle_read()` is `Read`, `Parse` and the three phases of `handle_request()`. `Ended` counts the
  references to the object. `session` says whether its `SRV_DB` has a session and whether it still works.
* `RequestParser`: the text is a sequence of tokens, a header line or one
  character of the rest; a read takes any number of the tokens that are left.
* `Exchange`: behind the parser's steps (`ReadMore`), `phase` is where the request is: read, handled, verified, in
  its operation, sent. What the parser accepts is the text of some call, and JSON is external, so `Accept`
  takes any call: its name is `known` or not, its password the user's own, the empty one or another, and `Authenticated` says
  which `authenticateUser()` lets through; a parameter is told apart by what `empty()` and `stoi()` make of it. `Required` and
  `Converted` are the tests of each branch of `handle_request()`, `Returned` what each operation may return (the
  operations themselves are in the database modules), `Caught` its `catch` block. A reply is its status, the documents
  in it and the length it announces. `Lose` stands for every statement that fails, `Store` for a poller.
  `Forget` sets the parser's variables back once the call is known.

## 3. Runs

Passing runs.

| Run | Shows | Bounds |
|---|---|---|
| `voting` | `NoOverCount`, `NoBallotLost`, `CarriersDistinct`, `ScoresMeanVoted`, refinement `BallotBoxSpec`; with and without a foreign key | 2 users, 2 workers, 2 contests, 2 faults |
| `entries` | `EntryWhole`, `ViewWhole`, `KeyIsOwn`, `CreatorKeepsSlot` | 2 users, 2 workers, 3 requests that insert rows (one contest and two uploads, two contests and one, three contests), 1 fault |
| `logger` | `FileInOrder`, `NothingLost`, `DropsOnlyLongList`, `SentIsLogged` | 4 messages and the last one, a limit of 2 instead of 200, 3 faults |
| `lifecycle` | `StartsAsConfigured`; `NoUseAfterDelete`, `LogOutlivesThreads` for a signal at any moment; `PromptShutdown`; `ListsRecover` | at most 2 HTTP threads, 1 fault or outage, files of up to 3 of 8 lines |
| `accounts` | `ActsAsAuthenticated`, `AnswersTrue` with a key that ignores case | 4 names and 3 passwords, one of each empty, 2 addresses, 2 workers, 3 rows, 1 fault |
| `friends` | `RemoveTakesBoth`, `RequestIsWanted` | 2 users, 2 workers, 1 fault |
| `http_server` | `AcceptAlone`, `ConnectionUsedAlone`, `NothingLeaked`, `ClientsServed` | 2 threads, 3 connections, 1 fault |
| `exchange` | `TrueIsBody`, `GoodAnswered` of the parser; `ActsVerified`, `OneDocument`, `RefusedRightly`, `ReturnedIsTold` of the handler | 26 requests of up to 5 header lines and 8 characters, every division into reads; 15 kinds of call, 5 of user and password, 4 parameters of 3 kinds |

Two workers and two users are enough for the races: each of them is between two requests, and every
statement of the one can stand between any two of the other. Three of a kind are used where a
third matters: three requests, so that two uploads race for one contest or two keys are
read while a third row is inserted; three connections, so that one is closed while another
is accepted and a third is made. One fault is enough for each single failure;
`voting` has two, so that a failed statement and a crash can meet, and `logger` three, so that the list can
exceed its limit between failing writes. Three lines of a file are enough for one that counts, one that
replaces it and one that ends the reading, in each order. Of each bound the module names the constant. The
logger's limit of 200 is a constant because only the order of the
lengths matters. Runs with `CHECK_DEADLOCK FALSE` are those whose system may
stop: the process ends, the connection waits for a client, the request is answered.

Two assumptions bear weight. `accounts` assumes a unique key on `users.user_name`; without it the code
alone keeps no name unique (two requests both find it free, and names that differ in case are the same
to the database and different to `compare()`). `entries` assumes that uploads name contests that
exist. Without that, `EntryWhole` still holds and is proved, but `CreatorKeepsSlot` does not: an upload may pass the test on locals that
were never assigned, and write the row of a contest that is created meanwhile.

Runs that find the code at odds with a comment or a declaration (`findings` in
`PROJECT.json` quotes them):

| Run | Property | What happens |
|---|---|---|
| `entries_takeover` | `SecondSlotKept` | two uploads pass the test of a free slot, the later UPDATE takes it over |
| `lifecycle_early` | `ShutdownCompletes` | `run()` forgets a `stop()` that came before it; the join waits for ever |
| `http_server_destroy` | `DestroyedAutomatically` | destroying a connection without session ends the process |
| `parser_tribool` | `TriboolMeans` | a good request whose header comes in two reads is refused after the first |

`lifecycle` shows the condition under which the end works (`PromptShutdown`: the threads have
begun `run()`). The parser has two more ways to miss `TriboolMeans`: the last character of a body that comes
late is not waited for, because the empty line was counted with the body, and a body of
several lines is waited for although it is there, because newlines were not;
`GoodAnswered` states where neither can happen.

Other behaviours are in the models without a run that shows them: any user may take the free slot
of a contest made for an invited one (`Allowed`); a name that nobody has is authenticated by the empty password, and
acts for an account created before `getUserID()` (`Verified`, `Authenticated`; the properties name the case); the empty name
cannot be registered, for it is told to exist (`NameTaken`); a message whose write fails unnoticed is dropped from a short list (`WriteLost`); an upload for an unknown contest is answered with
success (`UpdateEntry`); the last message of `srv_main()` may miss the flush (`SendLast` after `FlushDone`);
one failed accept is the last one (`Accept`); a poller whose session is lost stores "1003" for ever
(`Reopened`), which is why `ListsRecover` speaks of the others; a file that says `HTTPThreads=0`, or says
nothing, may start a server that serves nobody (`Threading`).

### Fairness

Safety needs none. `Logger` assumes that the operating system runs the logging
thread (`LogThread`) and nothing of the senders. `HttpServer` assumes that a
thread that has begun a handler goes on with it (`Run(w)`), and not that a client
sends or takes anything or that the database comes back. `Lifecycle` has two
assumptions: `PromptSpec` runs all threads and lets handlers and the logger's
half second end, but does *not* let a poller's sixty seconds pass, so that
`PromptShutdown` shows that the interruption cuts them short; `ListsRecover` names the sixty seconds, and a database that stays up, as its own conditions; `FairSpec` adds the seconds, and
`ShutdownCompletes` is violated even under this stronger assumption. The signal is never assumed to
come.

### Left out of the models

Names, texts and pictures are members of small sets; so are permissions and
slots out of range, one value for all. An empty address is not among those of `Accounts`, since
`handle_request()` refuses it (`request_handler.cpp` 40). A line that a failed write left torn counts as lost in `Logger`. Faults and counters are bounded. `Friends` keeps the
table as a set, since its queries ask for distinct rows and a DELETE takes all
copies. In `RequestParser` a header line is not cut in the middle, no body contains one, and the JSON
reader is external: it accepts a text that begins with the object and has all of it. In `Exchange` nothing is lost or stored after
the reply was sent, and the parser starts each exchange afresh, since a connection serves one request.

## 4. Proofs

TLAPS proves the following for all values of the constants, from the named
assumptions in the modules (`VotingAssumption`, ...), which only say that bounds
are naturals, that the users and workers of `Voting` are finite sets, that special values are not users,
that configuration files and requests are sequences, and of requests what their tokens are for: a header line
is none of the characters that bodies are made of, and a number that `stoi()` accepts fits a `size_t` or its negative.

* `VotingProofs`: `TypeCorrect`; `CarriersCorrect`; `NeverOverCounted`; `NoneLost`;
  `ScoresMeanSpent`; `ImplementsBallotBox`. The invariants are inductive together with `TypeOK`. The argument
  for the two counts is about three numbers of a contest, its points, the workers before
  its UPDATE and its voters: an INSERT adds one worker and one voter (`InsertCounts`), an
  UPDATE moves one from the workers to the points (`UpdateCounts`), everything else only
  takes workers away (`QuietCounts`). That a carrier's ballot is its own is
  `CarriersDistinct`, without which two workers would be one pending ballot in
  the refinement. `NoneLost` needs besides that ballots are for contests that exist (`BallotsForContests`),
  and `ScoresMeanSpent` that every worker past its INSERT has its ballot in the table (`PastSpent`).
* `EntriesProofs`: `TypeCorrect`; `EntriesWhole`; `ViewsWhole`; `CreatorStays`; `KeysOwn`; `ImplementsGallery`. `EntryWhole` is not inductive:
  the UPDATE writes ids that were read two statements before. The strengthening
  `UploadsOK` says of every worker past an INSERT that the ids it holds,
  or the `LAST_INSERT_ID()` it is about to read, are rows of its own upload; rows of `images` never change (`ImagesKept`).
  For readers the same kept rows are what counts: every row a reader still has to show names an image
  of the user beside it, however old the row is (`TakenOwn`, `ReadOK`).
  `CreatorStays` and `KeysOwn` assume that requests name contests that exist (`~AnyContestId`), for
  the test of `updateImage()` would otherwise read locals it never assigned. Their invariants say that
  an upload on its way into a slot was let in by the row it read (`Entrants`), and
  whose contest a session's `LAST_INSERT_ID()` is (`KeysOK`).
  `ImplementsGallery` rests on the invariants above: `EntryWhole` with `ImagesKept` keeps what hangs the same while others
  insert images (`HungKept`), `UploadsOK` makes what an UPDATE hangs the picture of its admission, and there is one lemma per
  step of a request (`Opens`, `Admits`, `Makes`, `KeysStay`, `Hangs`, `OthersLose`). No run has `GallerySpec` among its
  properties, because the mapping makes the run `entries` several times longer than it is; added to `ContestEntries.cfg` with
  `MaxFaults = 0`, or with `MaxRequests = 2`, TLC finds it to hold in two minutes.
* `LoggerProofs`: `TypeCorrect`; `LogInOrder`; `NoneLost`; `OnlyLongListDropped`. File and list together
  are strictly increasing and bounded by `sent`; a step pushes at the end, moves the head over or loses it (`PopKeeps`), or clears one of the
  two; which of these may drop a message is `MayDrop`;
  while nothing fails they are exactly the messages from 1 to `sent` (`Whole`).
* `LifecycleProofs`: `TypeCorrect`; `NoneUsedAfterDelete`; `LogEndsLast`. The
  inductive invariant adds to the types that a joined thread is done
  (`JoinedDone`), that a finished server has no live thread (`ServerDone`), that nothing runs
  before the configuration was read (`Unstarted`), and
  that the logging thread leaves its loop only after its stop (`LogRuns`).
  `StartsRight` is `StartsAsConfigured` for files of every length: `ReadConfigMeans` shows by induction
  over the lines that what `readConfigFile()` leaves is what the file says, setting by setting up to the first
  line that throws (`LineMeans` is the step), and `Unread` that the file is opened and read before a thread starts.
* `AccountsProofs`: `TypeCorrect`; `ActsForOneself`; `AnswersCorrect`, the last two with a unique key on names. The invariant adds the key of
  the table (`Unique`) and that a request between its two lookups has the row of its name whose
  password was compared with its own, or had none and the empty password (`Known`); rows are only added. That a query has a last row
  is by the well-foundedness of the order on the naturals.
  What was answered stays true because rows stay (`Truth`), and two
  requests cannot both own a name because the key admits one (`OneEach`).
* `ExchangeProofs`: `AsksVerified`; `OneDocumentSent`; `RefusalsRight`; `ReturnedTold`. The invariant says of a request in its operation
  that its password was compared and its parameters tested, and of everything before the answer that the reply is still empty; without
  the second part the results would be appended to something.
  Of the parser, `TypeCorrect` (with the handler's variables), `TrueOnlyBody` and `GoodOnesAnswered`, for requests of
  every length and every division into reads. None of the three is inductive, for they do not say what was kept.
  The invariant `Parsing` does: nothing before the first read is accepted (`Untaken`), and afterwards what follows
  the first `k` lines, without its newlines as far as the first read went and as it came behind that, where `k` is at most
  the lines of the header and exactly these once a good request's header was in the first read (`Taken`, `TakenFrom`); the
  counter is the size of it and the answer follows from the counter. `FirstKeeps` rests on what `getline()` makes of a text
  (`SplitConcat`, `RestOfLines`) and on a header having at least as many lines as fields (`FieldsBound`); `LaterKeeps` only
  adds. `ParsingBody`: what was kept begins inside the header or at the body, no token of the header is an
  opening brace, and the JSON reader begins at the first character that is not blank. `ParsingGood`: the empty line leaves
  one character that is counted too much, and each newline of the body is one too few.
* `HttpProofs`: `TypeCorrect`; `AcceptedAlone`; `UsedAlone`; `NoneLeaked`. The invariant says that
  the thread in `handle_accept()` is alone in it and no accept is outstanding (`Acceptor`), that the server's connection is there
  and is the only one not started (`Held`), that the handler of a read is alone with its connection, on
  which nothing is outstanding (`Handlers`), and who else keeps a connection (`Kept`).
  The sets `Accepting` and `Handling(c)` are shown to have at most one member before anything is said of their size.
* `FriendsProofs`: `TypeCorrect`; `RemovalTakesBoth`; `RequestsWanted`. The invariant `WorkerOK`
  follows each request: between its two DELETEs a removal knows that the first row is gone or newer than itself.
  `RequestsWanted` is an action property: each step that makes one ask is one of the three that may.

Some of these proofs need induction over data. The library's induction theorems take an operator and cannot be
instantiated here, but well-foundedness of a relation is stated for sets: `Induction` (a set that has 0 and, with n, n + 1)
follows from it, and `SeqInduction` (a set of sequences closed under `Append`) from that. The folds of the community
modules are unfolded once (`FoldExists`, `FoldReaches`) into runs from one element to the next; `Without`, `Split`,
`FlattenSeq` and `ReadConfig` get their laws from there. `LifecycleProofs` and `ExchangeProofs` each have what they need of it.

Every invariant and action property of the passing runs is proved. Only model-checked: the liveness properties
(`SentIsLogged`, `PromptShutdown`, `ListsRecover`, `ClientsServed`) and everything that rests on ENABLED, which are
out of the prover's reach.

## 5. Not modelled

* Formatting: JSON, HTML pages, header texts, log texts. Where a conversion decides
  something (`empty()`, `stoi()`, the cast of a code, `Content-Length`) it is modelled by what it does.
* The fork of the daemon beyond its success or failure, and the signal mask.
* Unused code: `deleteUser`, `getContestPermission`, `closeDriver`, `readParameters` and the
  two-argument constructor of `Config`, `mime_types.cpp`.
* Hazards that no property covers, since no text of the repository says what should be: uploads
  to unknown contests (580), the order of the tests in `updateImage()` (587), the list of
  requests of which only the last is kept (921), a start on a port that is taken (`srv_main.cpp` 100), an exception in a
  poller's update (1236), an accept that fails (`server.cpp` 65), and a peer that is gone before `start()` (`connection.cpp` 41).
  The models have each of them.

## 6. Plan

Done, in this order: voting with its abstract specification, entries, logger,
lifecycle, accounts, friends, HTTP server, parser; then readers of contests, the pollers' lists and sessions,
request dispatch and replies, the configuration; proofs of eight of them, last of what the
parser and the reader of the configuration file compute for every input.

Next:

1. `Lifecycle` refined by `Logger`: its logging thread is an abstraction of that one.
2. An abstract specification of accounts (a map from names to identities).

## 7. Running

    tlc -workers 2 -config Voting.cfg MCVoting
    tlapm VotingProofs.tla

`PROJECT.json` names the module and the configuration of each run, a mutant of a
definition for every property of a passing run, and the source lines of every definition.
