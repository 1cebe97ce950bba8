# Verification of spbstu-wallet

TLA+ models of the wallet's backend, its Android client and its HTTP utilities,
the TLC runs that check them on small instances, and TLAPS proofs of what matters
most for instances of any size.

    tlc -config MCLedgerLoads.cfg MCLedgerLoads # a run: module and cfg of PROJECT.json
    tlapm LedgerProofs.tla                      # the proofs of a module

`PROJECT.json` lists components, runs, the mutant that breaks each property,
the source lines of every definition, findings, hazards and theorems.

## 1. The system

A wallet application for receipts, expenses and their division among the
"characters" of a household. Mobile and desktop clients recognise QR codes of
receipts and call a gRPC server, which keeps everything in PostgreSQL.

| component | state | operations | interacts with |
|---|---|---|---|
| `FinanceServiceImpl` (`backend/service`) | none of its own but the shared `db_` | 18 RPCs, each a sequence of database transactions | gRPC threads call it; it calls `IDatabase` |
| `PsqlDatabase`, `PsqlTransaction` (`utils/database/postgres`) | one `pqxx::connection`; the registered transaction | connect, makeTransaction, executeQuery, commit, abort, destructor | libpqxx, PostgreSQL |
| schema (`docs/service/db.sql`) | 12 tables | keys, foreign keys, SERIAL ids, functions `add_*` | the service's SQL |
| server (`backend/main.cpp`) | the process | connect once, `BuildAndStart`, `Wait` | gRPC's thread pool |
| receipt parsing, OFD clients (`backend/receipt`) | none | parse QR strings and JSON, one HTTP request | not yet called by the service, except `parseQRDataFromString` |
| `CurlHttpClient` (`utils/http/client`) | libcurl's process-wide initialisation; initial headers | get, post, put, del | the OFD client, tests |
| `TestHttpServer` (`utils/http/server`) | an accept thread, a canned response, the last request | constructor, setResponse, getters, destructor | tests |
| `SqliteDatabase`, mocks (`utils/database`) | a file | the same interface | tests |
| `Singleton`, strings, config (`utils`) | one static pointer | get, set | - |
| `MainLoop` (`platforms/common`) | static: last result, response, busy, mutex, camera shown | `draw` per picture, a detached recognition thread | camera sink, receipt client, buttons |
| camera (`platforms/common/camera`, `CameraHelper.kt`) | sink with the last frame; executor, provider, analysis | open, close, start, picture | the Java main thread, CameraX |
| Android activity (`platforms/android`) | window initialised, logger, Java life cycle | `run`, init, shutdown, life-cycle events | native_app_glue, `MainLoop` |
| SDL activity (`platforms/sdl`) | window | the same loop | does not compile |

What makes it hard:

* **Threads over one connection.** Handlers run concurrently, but a connection
  carries one transaction at a time and nothing queues for it:
  `makeTransaction()` throws while another transaction is registered.
* **Check, then write.** A handler looks up who owns a row in one transaction
  and writes in a later one, so other handlers write in between.
* **Results nobody looks at.** `executeQuery` answers `nullopt` for a failed
  statement, after which PostgreSQL fails the rest of the transaction and turns
  its COMMIT into a ROLLBACK. Several handlers do not look.
* **A destructor that commits**, also when a scope is left by an exception, and
  that ends the process when the connection is gone.
* **No reconnection**, and a connection that may never have been opened.
* **Four threads in the client**: the native thread that draws and calls the
  server, a detached recognition thread, the Java main thread, which waits for
  the native one, and the camera's executor. They share frames, file-scope
  variables, one logger, and requests that are finished in a later task.
* **A server thread that only the response orders** with the test that reads and
  writes its members, and calls that end without one.

What makes it correct, per component: a transaction is atomic, isolated and
always given back (wrapper); what concurrent calls do to the tables is what a
store of whole, individually checked operations could do, wallets stay apart,
acknowledged creates, updates and deletes are done, or an update was refused
for a named cause and changed nothing, calls come to an end (service); a token
leads into its own wallet only (registration); the rows that are read were the
caller's and add up (reads);
a scan is stored whole or not at all (receipts); a frame does not change under
its reader, a scan is sent once, the camera is on if it was opened last, nothing
is drawn without a window, nobody waits for ever (client); a call that returns
got its response and is the one recorded, and the server stops (HTTP).

## 2. The modules

    DbSession          abstract database session: the promise of IDatabase
      |- PsqlConnection     the pqxx wrapper statement by statement, implements it
      |    |- PsqlRaces     two overlapping makeTransaction() calls
      |- RpcThreads         worker threads, replies, crashes, over a session
           |- Accounts      Authenticate, authenticateUser, the two list calls
           |- Receipts      ProcessQRCode, GetReceipts, GetReceiptDetails
           |- Ledger        the ten writing handlers   (with WalletTables)
                |- Reads    GetTransactions, GetTransactionDetails, GetStatistics
    WalletTables       the four ledger tables
      |- LedgerStore        abstract specification: whole operations
    MainLoop           draw() and the recognition thread
    CameraHelper       opening and closing of the camera
      |- Client             composes both with the activity's life cycle
    TestHttpServer     the accept thread
    CurlHttpClient     libcurl's initialisation, headers
      |- Http               composes both with the thread of a test
    *Proofs            theorems about the module of the same name (LedgerProofs:
                       about LedgerStore, too)
    MC*                constants of the runs

**DbSession** has `link` (process and connection: down, null, open, broken),
`owner` (whose transaction is registered) and `db`. `Acquire` and `Refused` are
the outcomes of `makeTransaction()`; `Release` ends a transaction; `Terminate`
and `InDoubt` are a destructor whose COMMIT throws; `NullDereference` is
`*conn_` on the null pointer that a failed `connect()` leaves.

**PsqlConnection** has one action per call of `PsqlDatabase` and
`PsqlTransaction` and outcome. A statement is a member of a small set, and the
database is the set of statements that took effect: this is what lets
`AllOrNothing` say which statements of whom were committed.

**RpcThreads** gives every thread a program counter `pc` (the database
transaction its handler is at), its request, and `reply`, the response that left
in the last step. A handler's step is either `makeTransaction()` or *all* the
statements of one transaction up to its end. Merging those is justified by
`PsqlConnection`: while a thread owns the connection no other thread's statement
reaches the database, and `SessionRefinement` proves that the contents change
only in the step that ends the transaction; the three `UsesSession` theorems
prove that the service takes no step that this session does not have. Where the code writes
`db_->makeTransaction()->executeQuery(q)`, the transaction is a temporary and
ends with the full expression, before the result is looked at.

**WalletTables / Ledger.** A table is a function from ids to columns. `info`
stands for the columns no other row depends on (type, amount, time, comment,
receipt). Foreign keys and UNIQUE constraints are conditions under which a
statement fails. Ids come from sequences that never go back, not even on
rollback; a request may name any id. `valid` says whether a request passes the
handler's own field checks. `LedgerStore` is the abstract specification: one
atomic, self-checking operation at a time.

A request names columns in one statement only, its last. What PostgreSQL says of
them is part of the request: `RefusedName` is a name over VARCHAR(100),
`RefusedInfo` stands for every refusal of the other columns at the moment of the
statement: the receipt is not in `receipts` (`db.sql:99`), a text cannot be read,
a column does not exist. The last is what happens to every `UpdateTransaction`
on a database made by `db.sql`, which calls `tr_time` what the UPDATE calls
`timestamp`. A foreign key to a category is not folded in like this, because other
calls create and delete categories; receipts are never deleted. A statement that
is refused draws from its sequence in the model, which costs at most an id.

**Accounts.** The token made for a device is the device; `db` is `users` and
`users_data`. The three transactions of `Authenticate` are three stages.
`Refusable` are the stages whose statement PostgreSQL may refuse on a healthy
connection. A refused SELECT counts as a device that is not known, a refused
`add_user` is answered SERVER_ERROR, and a refused INSERT of the link is not
noticed: the token is answered, and the next `Authenticate` of the device adds
another user with the same token. With `db.sql` as it is, without
`users_data.device_id`, this is what always happens.

**Reads** adds the readers to `Ledger`'s writers. `GetTransactions` and
`GetStatistics` ask everything in one transaction, `GetTransactionDetails` asks
four times in four. Sums are exact in SQL, parsed into 32 bits (`Int32`: what
does not fit becomes 0) and added with wrap-around. Kept of the filters: the
category. Left out: dates (with them the chart by day, built like the one by
category), OFFSET and the order of a page. A receipt that details show is the one
`receipt_id` names; the code does not tie it to the user, so `DetailsAreOwn` is
about the row and the characters of its splits.

**Receipts.** The one handler with many statements per transaction: which
statement fails decides what is answered (`ScanFails`, `ScanIsLost`,
`ScanSucceeds`), and the database gets everything or nothing.

**MainLoop / CameraHelper / Client.** A frame is a heap object with shared owners
(`Owned`: the sink, the `draw()` in progress, the recognition thread); a freed
one may be allocated again, so `shown`, a weak pointer, can be told from a live
one. `draw()` is cut where another thread can see the difference: at its locks,
at the call to the server, at the buttons. The recognition thread is one action
per lock and one for the copy of the frame. `crash` is what ended the process: the
null executor of a listener that runs after a close, or the null logger that
`spdlog::shutdown()` leaves. `tasks` is the queue of the Java main thread; `cmd`
the one command it waits for. `Relaunch` is a second `android_main()` in the
process whose statics stay.

**TestHttpServer / CurlHttpClient / Http.** The server's thread is at one place of
`run()`; a connection is its request and whether the client still has it open. A
request is its number, the class of its body (none, text, text that ends with a
newline, longer than one `recv`) and where each header comes from. `result` is
how the last call ended; the thread of a test is `test`.

### What is taken as given

* Calls into libpqxx do not overlap in time. Nothing in the repository ensures
  it; `PsqlRaces` shows what happens otherwise (finding *races*). All other
  results hold for executions without such an overlap.
* The functions `add_user`, `add_transaction`, `add_transaction_split`,
  `add_user_character`, `add_category`, `add_receipt`... are not in the
  repository. They insert one row under the constraints of `db.sql`;
  `add_receipt` returns an existing receipt; whether `link_receipt_to_user`
  fails on an existing link is left open.
* Keys and foreign keys are those of `db.sql`, column names those of the
  service's queries. The two disagree: `users_data.device_id`,
  `transactions.timestamp`, `receipt_items.sum` are not in `db.sql`. `Accounts`
  and the writers of `Ledger` cover both a newer schema and this one (`Refusable`,
  `RefusedInfo`); the SELECTs of `Reads` and of the receipt details are modelled
  on a schema that has the columns they name.
* Statements read committed data and PostgreSQL is correct.
* native_app_glue waits in the Java main thread until a command is processed, and
  in `onDestroy()` until `android_main()` has returned; CameraX hands a bound
  analyzer one picture at a time, and only to a started activity.
* JNI calls succeed (`JNIExecutor` answers -1 otherwise, which nobody looks at),
  and EGL is initialised.
* The 100 ms that `TestHttpServer`'s constructor sleeps are enough for its thread
  to reach the loop or to return (`WaitForStart`). Nothing else ensures it: when
  they are not, the destructor never returns (the mutant of `ServerStops`).
* curl_global_init and curl_global_cleanup count against each other, and
  curl_easy_init initialises what is not, as libcurl documents.

## 3. Runs

| run | instance | shows |
|---|---|---|
| `psql` | 3 threads, 3 statements | `AllOrNothing`, `ViewIsOwners`, `ConnectionIsFreed`, and that the wrapper implements `DbSession` |
| `ledger` | 2 threads, 2 users, 2 transactions, 2 splits, 3 characters, 2 categories; three workloads | wallets stay apart, checked rows keep their owner, implements `LedgerStore`, creates and deletes are done, updates are done or left as they were for a named cause, calls advance; `IInv` is the invariant the proofs use |
| `accounts` | 2 threads, 2 devices, 2 users, every statement may be refused | tokens are own and known, every call ends |
| `reads` | 2 threads, writers and readers, pages of 3, 32-bit bound of 4 | details are own; pages, the charts by category and the one by character add up, overflow included; queries advance |
| `receipts` | 2 threads, 2 users, 2 receipts | scans are whole, receipts have owners |
| `client` | 2 frames, 2 camera tasks, 1 analyzer; two workloads | frames are stable, one call per scan, the picture is current, the camera follows its buttons, draws into a window; commands are processed, recognitions end |
| `http` | 1 response beside the default, 2 headers, 3 calls, 2 clients; two workloads | calls are served, tests do not race, libcurl is up, the server stops |
| `races`, `update`, `main`, `contention`, `lost` | as above | each shows that the code does not do what one line of the repository says |

Bounds. Two threads are enough for "another handler in between": a handler
never waits for a second one, and what a third thread could do between two steps
the second can do, too. Two users are needed for one wallet to reach another,
two rows for a new one beside an old one, and the sequences end early enough for
the failing `add_*` to happen. The initial databases of `MCLedger` save the steps
that would build them up; each is a state the program reaches. Threads are
symmetric except in the runs with liveness. `MaxInt = 4` in `reads` makes the sum
of two amounts overflow, and `PageSize = 3` leaves room for two rows on a page
that is not full: u1's second transaction, and its split, take the sums of her page,
of her categories and of her character past the bound. Both users have a divided
expense, so that the query by character has somebody else's rows to leave out.
`Writes` in `MCReads` keeps the requests that change what the readers see.
`contention` runs on a connection that does not break and on statements that are
not refused (`CalmSpec`, `Refusable = {}`), so that its trace can only be about
another thread holding the connection.

A workload is an initial state and a restriction of what clients or users do,
chosen in the first step; the modules themselves are not restricted. `ledger`
(`MCLedgerLoads`): transactions and splits of two users, characters beside
splits, shared categories beside transactions, refused columns and names in each of the
last two; what a workload does not use has a sequence past its bound. `client`: the user at the buttons while the
activity stays, or the activity's whole life cycle without buttons; the proofs
cover both at once. `http`: one client whose calls differ in their bodies, or two
clients whose calls differ in their headers.

In `client` a picture that finds no free frame waits: two frames are a new one
in the sink and an old one that is read, drawn or shown. `MaxTasks = 2` lets a
close and an open wait behind each other and behind a listener. In `http` three
calls are one that fails, one that is answered late and one that follows.

Deadlock is checked in every run but `client` and `http`, whose systems really
stop: after a crash, or when activity, servers and clients have come to their
bounds.

Fairness. `psql` assumes that a handler's scope ends (`WF` of `LeaveScope`),
`accounts` that every thread of the pool is run (`WF` of `Step` per thread):
handlers contain no loop over calls and wait for nothing but the database's
answer. Nothing is assumed of clients, of the connection or of restarts. That the
thread which is refused gets an answer, rather than its turn, is what
`CallsEnd` and its mutant (a refused call that retries) are about: weak fairness
alone would not give it its turn.

`client` assumes that the native thread, the recognition thread, tasks of the
Java main thread, the camera's provider and the executor go on when they can;
that includes that the server answers or the call fails. Users, the system's
life-cycle events and the camera need not do anything. The mutex needs no
strong fairness: the loop keeps it only for a call, which needs a result that a
waiting recognition thread has not stored yet, and that thread is only followed by
another one that the loop starts.
`http` assumes that the server's thread runs and `join()` returns; tests need not
go on.

### Findings

* **races** Two threads that construct `pqxx::work` at the same time on the
  shared, unlocked connection end up in one database transaction
  (`psql_database.cpp:60` against `i_database.h:25`).
* **update** `UpdateTransaction` answers success for an UPDATE that failed
  (`service.cpp:793` against `service.proto:33`), because its category or its
  receipt is not there. No interleaving is needed: the result is not looked at.
  `UpdateSplit`, `ManageCharacter` and `ManageCategory` do the same;
  `UpdatesAreDoneOrOvertaken` names all causes.
* **main** The main character can be deleted, by a rename between check and
  delete (`service.cpp:1245`).
* **contention** A good token is refused as UNAUTHORIZED while another thread
  holds the connection (`service.cpp:116` against `service.proto:15`).
  `GetTransactionDetails` answers NOT_FOUND for the same reason.
* **lost** `ProcessQRCode` answers a receipt that was rolled back
  (`service.cpp:240` against `receipt.proto:9`).

Also seen, without a run of their own: `GetReceiptDetails` can only answer
SERVER_ERROR for an existing receipt, since `getVariantValue<uint64_t>` always
throws; two calls of a new device may add two users; `Authenticate` answers a token
also when the INSERT that links the device failed (`service.cpp:159`); details of a
transaction may combine a row with the splits of a later moment; a transaction
may name anybody's receipt (`service.cpp:698`, `779`), whose date, sum and retailer
`GetTransactionDetails` then shows.

In the client: a close between `openCamera()` and its listener ends the process by
`cameraExecutor!!`, although the comment at `CameraHelper.kt:38` says the executor
is restored; a picture after TERM_WINDOW, and a second launch in one process, log
through spdlog's null default logger; after "Turn on" a recognition started before,
or the old frame still in the sink, sends the scanned code again; an executor is never shut down when the
activity is destroyed; the client fills `user_id`, `timestamp` and reads `receipt`
fields of an older protocol.

In the utilities: a call that failed leaves the server's thread in data that the
test may touch; a body of more than what fits into one `recv()` is cut and may
cost the response; the newline at the end of a body is not recorded; a client
destroyed beside older ones cleans libcurl up under them. The OFD client formats a
sum with the stream's six digits, so that kopecks are lost from 10000 on.

## 4. Proofs

For any finite or infinite set of threads, users, names and statements:

* `PsqlConnectionProofs`: `InductiveInvariant` (`IInv`), `Invariance` (types, one
  live transaction, and the open transaction holds what its owner was told),
  `Atomicity` (`AllOrNothing`), `SessionRefinement` (`ImplementsSession`).
* `LedgerProofs`: `StoreInvariance`, the store keeps its tables consistent;
  `InductiveInvariant` (`IInv`), `TypeCorrectness`, `Isolation`
  (`SplitsStayInOneWallet`), `ChecksHold` (`CheckedRowsKeepTheirOwner`),
  `StoreRefinement` (`ImplementsStore`), `DeletionTheorem`
  (`DeletesAreComplete`), `CreationTheorem` (`CreatesAreStored`), `UpdateTheorem`
  (`UpdatesAreDoneOrOvertaken`), `Progress` (`CallsAdvance`), `UsesSession`.
* `ReadsProofs`: `ReadersInvariant` (`ReadInv`), `DetailsTheorem`
  (`DetailsAreOwn`), `PagesTheorem` (`PagesAddUp`), `ChartsTheorem`
  (`ChartsAddUp`), `CharactersTheorem` (`CharactersAddUp`), and of `ReadSpec`:
  `ReadersKeepTheStore` (`ImplementsStore`), `ReadersProgress`
  (`ReadersAdvance`), `ReadersUseSession`.
* `AccountsProofs`: `InductiveInvariant`, `TokenOwnership` (`TokensAreOwn`),
  `KnownTokens` (`TokensAreKnown`), `UsesSession`.
* `ReceiptsProofs`: `InductiveInvariant`, `ReceiptsHaveOwnersTheorem`,
  `ScansAreWholeTheorem`.
* `ClientProofs`: `InductiveInvariant` (`ClientIInv`) and, from it,
  `DrawsIntoWindowTheorem`, `CameraFollowsRequestsTheorem`,
  `FrameIsStableTheorem`, `OneCallPerScanTheorem`, `PictureIsCurrentTheorem`.
* `HttpProofs`: `HttpInvariance` (`HttpIInv`) and, from it, `NoRaces`
  (`TestsDoNotRace`), `LibraryStaysUp` (`LibraryIsUp`), `CallsAreServedTheorem`.
* `WalletTablesProofs`: lemmas about inserting, updating and deleting rows.

The argument for the ledger. That splits stay in one wallet is not inductive:
`CreateSplit` inserts what two earlier transactions checked. The strengthening
says what each handler still knows (`CheckedRowsKeepTheirOwner`): a row it has
checked is gone or still the caller's. That survives other handlers' steps
because no statement changes the owner of a row, and because ids are never used
again (`Issued`: every id in use is below its sequence, and a checked id too), so
a deleted row cannot come back as somebody else's. `RequestsAreComplete` and
`HolderIsBusy` tie requests to stages, `CategoriesExist` is the foreign key that
renames and deletes must keep. `IInv` is their conjunction; the refinement
follows step by step, each write mapping to one operation of `LedgerStore` or,
when a statement fails or a commit is lost, to a stutter.

The argument for deletes, creates and updates. An answer OK is given only in the
step that commits; the lemma about that write says what it did to its row, and
`IInv` that the request names one (`RequestsAreComplete`) and that no other row
hangs on it (`CheckedRowsKeepTheirOwner`, `CategoriesExist`). An update whose
result nobody looks at goes to the right row, because a row that is still there
is the caller's, which is all that `WHERE id AND user_id` asks. It is then done as
a whole, or it was refused and the row is as it was; and it is refused only for
what `UpdatesAreDoneOrOvertaken` names: a category or receipt that is not there
(the finding of `update`), a name that is taken or too long, a column.

The argument for tokens. `KnownTokens` does not rest on the link: `Authenticate`
answers either the token of a row it has just found, which by `TokensAreOwn` is the
device's, or the one of the user that its own `add_user` returned and that nothing
deletes. The link is only needed for the next `Authenticate` to find that user.

The argument for the end of calls. `StepsLeft` counts the stages that a handler
has left, twice, and one for the connection. `OwnStepIsNearer` shows that every
step of a call makes it smaller, a refusal and a crash included, `OthersSteps`
that what another thread does leaves it as it is or ends the process. So between
two arrivals or changes of the connection there are only finitely many steps.
With the fairness of `accounts` that is the end of every call; without it, it is
what can be proved of it: that no handler waits, loops or tries again.

The argument for the readers. `GetTransactionDetails` asks for the owner once and
reads by id three times. `ReadInv` adds to `IInv` that until its last read the
transaction is gone or still the caller's: the fact about `CheckedTxn` that the
writers rely on, carried through the reading stages. A row that is there is then
the caller's, and by `OneWallet` so are the characters of its splits. A reading
step changes neither tables nor sequences; every other step is one of `Ledger`, so
its lemmas apply, and `Ledger`'s types name the stages of both.

The argument for sums. SQL's SUM is `SumFunctionOnSet` of the community modules,
a fold: the value at S of a recursive function, chosen with CHOOSE, on the
subsets of S. `SumExists` builds that function in stages of growing cardinality
and `SumsAgree` shows that two of them agree where both are defined; both go by
the least counterexample (`NatSetInduction` and `SubsetInduction`, from the
library's `NatLessThanWellFounded` and `FS_StrictSubsetOrderingWellFounded`), a
form of induction that takes a set and not an operator and that the provers
therefore can use. From it follow the unfolding of a sum at any element, its type,
and `SumOfParts`: the sums of the parts of a partition add up to the sum of the
whole, the parts being the groups of a GROUP BY. `Fits` then says when
`stoi` and 32-bit wrap-around change nothing. `PagesTheorem` and `ChartsTheorem`
are this with the queries of one transaction. `CharactersTheorem` needs the
invariant, too: the query joins splits and characters and never asks whose the
transactions are, and only `OneWallet` makes its rows the caller's expenses.

The argument for receipts. `ReceiptsHaveOwners` needs that a new id is not in use
(`ReferencesHold`), that every request in progress is one a client can make
(`RequestsAreComplete`), and that the holder of the connection has a call. Every
step either leaves the database alone, or is the whole effect of one scan, or
the loading of items: the lemma `NextEffect`, from which the three theorems follow.

The argument for the client. That a frame is stable follows from `ReadsUpright`
(a frame that was to be upright is, when reading starts) and `BusyIsWorker` (there
is one reader); one call per scan from `ResponseHidesCamera`, which survives a late
result because a stored result is only looked at with the picture shown. The
picture is current because `ShownIsPast`: a texture of another frame than the one
drawn belongs to a frame that left the sink. The camera follows its requests
because executor and binding are set and dropped together except while a listener
waits.

The argument for HTTP. A response that came back is the witness that the server
has done everything else: `InboxIsAnswer` says so, and needs that only the
youngest connection is open (`OneIsOpen`), that a failed call closes its own, and
that what the server does with a closed one reaches nobody. `LeftByFailure` is the
same fact for the time after the call.

The assumptions are the named ASSUMEs: the null thread, user, device, frame,
request and default response are not members of the sets they stand beside, the
bounds are naturals, the main name is a name, and the initial database is
consistent.

Model-checked only: liveness (`ConnectionIsFreed`, `CallsEnd`,
`CommandsAreProcessed`, `RecognitionEnds`, `ServerStops`), which the prover does not
reach, since it has no rules for fairness and ENABLED. `Receipts` has no
`UsesSession`: the items of a receipt reach the database through another session.

## 5. The plan, and what is not modelled

Done, in this order, each before what is built on it: session, wrapper, races,
store, ledger, accounts, reads, receipts; then main loop, camera, client; HTTP
server and client; and the proofs.

Left, in order of worth: the parsing rules of `parseQRDataFromString` as an
operator over small parameter sets; the overlap of `makeTransaction()` calls
(`PsqlRaces`) below the service instead of beside it.

Not modelled:

* **SDL activity.** `sdl/main.cpp` passes one argument to `MainLoop`'s constructor,
  which takes two, so it does not compile; `NullCamera` has no sink to ask for a
  frame; its quit event sets the running flag to true (`sdl_main_activity.cpp:211`).
* **QR and item parsing, OFD clients.** Pure text and JSON; not called by the
  service, except `parseQRDataFromString`, whose outcome is a choice in `Receipts`.
* **SQLite and mocks.** Tests only; each SQLite statement commits itself, commit
  and abort do nothing.
* **Singleton.** One static pointer and one test of it. Nothing in it locks, but
  `main.cpp:23` has the sink made before the camera's thread can ask for it.
* **Small steps.** `CameraHelper.startCamera` when `bindToLifecycle` throws out of
  the listener; a `recv()` of the test server that returns a part of a short request;
  the crash of a listener that runs after a close is in the model, but no property
  forbids it, since the code has it.
* **Rendering, EGL, ImGui, soft keyboard, JNI plumbing; SQL text and formatting;
  floating point** (a receipt's sum in kopecks is a truncated product of a
  double); **dates and time zones; configuration and build files.**
* `ReceiptDatabase` is unfinished and unused.
