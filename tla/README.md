# A TLA+ model of datly

datly turns SQL views into REST endpoints. A *view* is a query with a schema; a
*relation* nests another view under the rows of a view. A *route* ties a URI to a
root view; a *router* is a file of routes; the *gateway* loads routers and the
resources they depend on from a file system, reloads what changes, and serves
requests. This directory holds the specification of the parts that carry state
or run concurrently, the configurations that model-check them with TLC, and
theorems checked by TLAPS. `PROJECT.json` maps every definition to the lines it
models and lists the runs, findings, hazards and theorems.

## The system

| Component | Source | State | Operations |
|---|---|---|---|
| Reader | `reader/service.go`, `view/collector.go` | one collector per view (rows, positions, wait group), the error list, the wait group of `Read` | `Read`, `readAll` (a goroutine per relation), `exhaustRead` (batches), visitors, `Fetched`, `MergeData` |
| Gateway sync | `gateway/service.go`, `gateway/session.go` | the published router, the resource index, the change session | poll for changes, load resources and routers in goroutines over channels, publish |
| Response cache | `router/router.go`, `router/cache` | entries in a file system | look up, validate, put, expire |
| DB pool | `view/pool.go`, `view/connector.go` | a registry of `*sql.DB` by configuration | open, ping, reopen |
| Warm-up | `warmup/cache.go`, `view/cache.go` | channels of cache entries | enumerate combinations of parameter values, index their queries |
| Routing | `router/matcher.go`, `gateway/router.go` | a trie of routes, one of prefixes, one of keys | match, check subnet and keys, dispatch |
| Selectors and parameters | `router/selectors.go`, `router/parameters.go`, `router/errors.go`, `router/criteria` | for one request: a selector per view, the errors its goroutines share | populate fields, criteria, limit, offset, page, order; find, require, convert and store parameters; rank the status of errors |
| Query building | `reader/sql.go`, `reader/metadata`, `view/template.go`, `template` | none that outlives a call | evaluate a template, add columns, criteria and pagination, collect the arguments |
| Executor | `executor`, `router/executor.go` | a transaction | split and execute the statements, commit or roll back |
| Sequencer | `executor/sequencer` | the database's next identifier of each table | count the empty ids of a payload, reserve a block, give its ids |
| Generated write rules | `cmd/prepare*.go` | the tables | for POST, PUT and PATCH: read current rows, allocate, link children, insert or update |
| View and resource initialisation | `view/view.go`, `view/resource.go`, `router/route.go` | views, connectors, parameters, types, schemas, which refer to each other by name and share what they point to | merge resources, resolve references, inherit, detect columns, initialise relations, templates, caches and routes |
| Marshalling | `router/marshal/json`, `converter`, `view/collector.go` | for each route, the marshallers of the types that interfaces held | write rows and errors, read bodies with the flags of what was sent, convert parameters, build trees |
| OpenAPI | `router/openapi3.go` | the schemas and parameters a document shares | describe the routes |
| Command line (the rest), template functions, authorisation, runtime adapters, logging | | none that outlives a call | generated files, calls to libraries and external services |

How they meet: the gateway publishes a router, whose handlers run concurrently
with each other and with the next poll. A handler builds selectors from the
request, asks the response cache, and otherwise has the reader fill the rows of the
root view; the reader asks the pool for connections. Warm-up runs the reader's
query builder and the pool, but not the reader. The executor replaces the reader
for routes that write.

What is hard: the reader's goroutines share collectors without locks and rely on
three kinds of wait groups; the change detection keeps half-finished work between
polls while files change and loads fail; the goroutine that writes the response
cache shares a buffer with the handler, and files with other handlers; the
warm-up's channels are read an exact number of times; connections are replaced
while they are in use.

What makes them correct, by component:

- Reader: a narrowed relation is read after its parent; the result is the join of
  the rows, whatever the interleaving, strategy and batch size; `Read` returns when
  nothing is left running, with an error if any query failed.
- Gateway sync: a change that was reported once is published in the end, however
  often a poll fails, and never replaces something newer; `Close` stops it.
- Response cache: a hit is an entry of the same selectors, with its data; the
  client gets one response; every handler ends.
- Pool: one connection per configuration, always there for a caller.
- Warm-up: every combination once, errors reported, no goroutine left behind.
- Routing: the route matched is the one whose pattern fits; prefixes and keys apply
  to every path below them.
- Selectors: a request can narrow what a view allows and never widen it.
  What fails is reported for every view, with the status of the highest priority.
- Query building: the arguments of a statement are the values of its question marks,
  in their order; a cache is looked up by one query whatever the parents.
- Executor: all statements or none.
- Sequencer and write rules: no id twice, none reserved in vain, none replaced; children
  belong to the record they are in; what a body leaves out is kept; a PATCH updates
  what is there and inserts the rest; what is answered is what is stored.
- Initialisation: ends, whatever the order of the declarations; a view inherits only what
  it does not set; structs, columns, holders and indexes agree in the end, though they are
  shared and made at different moments; what is ready does not change.
- Marshalling: what is excluded or was not asked for is never written, at whatever depth
  and whatever was answered before; a tree holds each row once; what was sent is what is
  read, with the right flags.
- OpenAPI: the document says what the routes take and answer.

## Modules

| Module | Models | Composition |
|---|---|---|
| `Reader` | `Service.Read` and everything it starts | |
| `ReadOnce` | the abstract read: one step that fails or delivers the join | implemented by `Reader` (`ImplementsReadOnce`) |
| `GatewaySync` | the change detection of the gateway | |
| `ResponseCache` | handlers of one route, the cache they share | the reader is one step of it |
| `DbPool` | connectors, the registry, the goroutines that ping | |
| `Warmup` | `PopulateCache` | EXTENDS `DbPool`: its readers are the pool's callers |
| `Routing` | `Matcher` and the gateway's router | |
| `Statement`, `Criteria` | SQL as tokens; the parser of criteria | |
| `Selectors` | `selectorsBuilder`, a goroutine per view, and its errors | EXTENDS `Criteria` |
| `Query` | templates and `Builder.Build` | EXTENDS `Statement` |
| `Executor` | `executor.Executor` | EXTENDS `Query` |
| `Request` | one request from the gateway to its answer | EXTENDS `Routing`, `Selectors`, `Executor` |
| `Sequencer` | the walker over a payload, `Service.Next` | |
| `WriteRules` | the statements that generated rules make of a payload | EXTENDS `Sequencer` |
| `WriteRequest` | concurrent requests to generated rules, the tables and sequences they share | EXTENDS `WriteRules` |
| `ViewInit` | `View.Init` and everything it calls, on a heap | |
| `Startup` | the steps a router resource takes from its declaration to ready | EXTENDS `ViewInit` |
| `Payload` | marshallers, the decoder, trees, conversion | |
| `Document` | the document of a set of routes: what is described where, and what refers to it | |
| `OpenApi` | the schemas of types and the parameters of views that are described | EXTENDS `Payload`, `Document` |
| `Exchange` | routes that answer one request after another, and their document | EXTENDS `OpenApi` |
| `ReaderProofs`, `GatewaySyncProofs`, `ResponseCacheProofs`, `WarmupProofs` | theorems; `WarmupProofs` also about `DbPool` | |
| `QueryProofs` | lemmas on folds, SQL, criteria, selectors and the goroutines that build them, on templates, the keywords in them, queries and statements | |
| `RequestProofs` | lemmas on routing, the theorem on matching, theorems about `Request` | EXTENDS `QueryProofs` |
| `WriteProofs` | lemmas on ids, statements and rows, theorems about `WriteRequest` | |
| `DocumentProofs` | lemmas on folds and on what is described twice, theorems about `Document` | |
| `MC*` | instances for TLC | |

### Reader

One program counter per view stands for the goroutine of `readAll` that reads it;
`ReadDone` and `ReadFails` are `Read` itself. A collector is its rows (`dest`), the
relation values `held` for each holder row, the positions that `indexPositions`
writes, and its wait group `wg`. `Enter` is the start of `readAll`, which
starts a goroutine for every relation; `Gather`/`GatherAll` read the parent's rows
for placeholders, `OpenBatch`, `FetchRow`, `CloseBatch` are a query and its visitor
row by row; `EmitFetched`, `JoinRelations`, `Return`, `Leave`, `LeaveGroup` the
ends of `readAll` and of the functions it defers, and `ReadMerges` merges the
rows of `read_all` relations from the leaves up. Rows are model values with one
key each to the parent and to the children; a row that is appended but not yet
scanned has the key `ZeroKey`. Left out: limits and offsets, composite keys,
codecs, the meta query, SQL caches, metrics. A batch is assumed to hold at least
one placeholder (`BatchAssumption`); a `Batch` given without `Parent` is zero in the
code and would loop for ever. A column without a field in the parent (`Unmapped`)
has its positions written by the relation, in one step of the model. The code writes them
without a lock (`indexPositions`): when such a relation has a sibling, the sibling reads the
map, or writes it too, at the same time, and the Go runtime may end the process. That race is
not in the model: for trees with such a sibling its runs and theorems are about the reads in
which the accesses do not meet. In the run the relation has none.

### GatewaySync

Files have a version and a kind (good, unreadable, failing to initialise). The
resource trackers are external: each reports the difference between the files it
saw last and the files now. `Poll` starts a poll; `NotifyResources`,
`LoadResource`, `ResourcesLoaded`, `NotifyRoutes`, `LoadCached`, `LoadNew`,
`LoadFails`, `RoutesFailed` and `Publish` follow `createRouterIfNeeded`; `Write`,
`WriteSql`, `Remove` are the environment, at any time: the SQL file of a rule may be written
after the rule is gone. The state a failed poll leaves is the
session: routers and resources already loaded, and what is still to be loaded.
The code attributes a SQL file to the published routers that use it. So a change of SQL is lost
when its rule waits in the session, loaded and not published (`SqlOverlooked`); and one of a rule
that was removed while it is still published makes the session load it again and forget the
removal. `overlooked` is a history variable: it has the rules this happened to, until they are
reported again, and is all that `NothingLost` and `Converges` except.
Left out: which resources a router copied, the deletion of resources (which
nothing handles), secrets. Retries never end in the code, as nothing fills
`FailureCounter`, and so it is in the model.

### ResponseCache

A handler goes through `Refuse` or `Exists`, `Open`, `Validate`, then `WriteHit` or
`Read`/`ReadFails` and `WriteResponse`. `PutTakes` takes what the buffer of the
response holds, `PutCreates`, `PutWritesMeta` and `PutWritesResponse` write the
file, `PutFails` is an error of the storage. `debug` (`DATLY_DEBUG`) is chosen
initially; with it the put precedes the response. With `PartialVisible` a file is
seen while it is written: its first line and the response behind it are two writes, on the
descriptor of their writer. `writers` are those that hold a descriptor of the file since it was
truncated. What the only writer writes comes one after the other (`Alone`); two
writers can leave the first line of one with the response of the other, a first line that cannot be read,
or a response that is bytes of both (`WithMeta`, `WithResponse`); what is written to a
deleted file is lost. A buffer that is half
copied counts as empty, and a hit is written with the content length of an empty
entry, of which net/http delivers nothing. Left out: redirects, CORS, audit, formats.

### DbPool and Warmup

`AskDB`, `ResolveDB`, `ConnectDB` are `Connector.DB`: a read of `db` without the
mutex; then, with it, the registration and the connection. A key stands for
a configuration, a driver and a DSN; registration and the opening of a connection
are one step, as they are under the registry's mutex. `Wakes`, `PingAnswered`,
`PingFails`, `Reopens`, `PingsNew` are the goroutine of a connection. A connection that
cannot be opened is nil, and the goroutine that pings it ends the process. `BadDsn` are the keys
whose connection *may* not be opened, `MayBeSilent` those whose database may leave a ping without an answer.

In `Warmup`, `AppendSelector` is one iteration of the enumeration of a case,
`Generated` and `GenerateFails` the end of a view's, `Notify` its reception,
`Collect` the reception of an entry on the unbuffered channel, `ReadDB` and `Index`
a goroutine that reads an entry. A goroutine that sends and the loop that receives
are one step; `sending` holds the entries whose goroutines wait to send.

### Request

A request is a record: its path, method, keys, and a function from *locations* (kind,
namespace, name) to the value found there and whether it converts to what is wanted.
`HandleRequest` is the gateway's `handle`, which answers at once what it refuses,
does not find or answers itself. `CreateSelectors` starts the goroutines of `Selectors`;
`Select` is any step of theirs; `SelectorsFail` writes what they failed with. Then
`ReadView` makes the three queries of each view (for some keys of parents, in
any batch of them), or `StartExec` and `Execute` execute. Every handler of an error
writes and ends (`Write`). How rows are read and how responses are cached is in
`Reader` and `ResponseCache`; here a read is `ReadView`, `WriteResponse` and
`ReadFailed`.

`Routing` has no trie: a node is the sequence of segments that leads to it, so its
children are what the templates have after it, and `Through` is the path that
`Node.Match` walks, which does not go back. `AsRelative` drops a last segment of one
character (`Relative`): a path that ends in one is found by a parameter only, and a
template that ends in one makes `Node.Add` panic, which `TemplatesAdded` excludes.
What routing should do is stated without nodes: a template `Fits` a path, and one
`Hides` another where the first segment they differ in is that of the path.
`Preferred` are the routes that fit and are not hidden by one that fits; `Reachable`
those that are not hidden at all. `RoutedRight` compares what the gateway
finds with both.

In `Selectors` a goroutine is at `populate`, `params` (with `at`, the parameter),
`validate`, `status` and `error` (the two critical sections of `Errors`) or `done`.
`PopulateSelector` is a fold over what can be asked for, as the code asks. The order of
errors is that of the goroutines; `Normalize` is `normalizeErr`, a step for each error in
that order, and adds the status of the nested ones.

`Query` has a template as a sequence of items, and SQL as a sequence of tokens in
which each `?` carries the value it was written for: that is what lets `Aligned` compare
the arguments with the question marks. `Evaluate` is velty as far as templates use
it: parameters, assignments and loops. `Discovered`, `Tail_` and `ExpandToken` are
where criteria and pagination are placed and replaced.

`Executor` cuts the SQL at semicolons; its statements use up one list of arguments.

### WriteRequest

A rule is the sequence of its views, each before those it holds, with the path of fields that leads to
it. A payload is the sequence of its records as a walker comes to them, each with its view and the
record it is `in` (0 at the top), its row, and the fields the body had (`has`). So what the code does by
calling itself for records below records is a fold over a sequence here. In `Sequencer`, `CountEmpty`, `Leaf`
and `Allocate` are the three walks, `NextIds` is `Service.Next` with what it reserves and what it gives, so
that the two can be compared. `WriteRules` has `InputType`, the type the command line makes of tables and
keys, and `Statements`, which goes through a payload as the generated template does: set the foreign key,
insert or update, go on below. `CurrentRows` is what the hints of a PATCH read, `index` the keys
of it for each view. `ReadCurrent`, `AllocateIds`, `Render` and `Execute` are the steps of a request in
which another can interfere; what a database does (`Applied`: keys, foreign keys) is external. Assumed are a
schema (`SchemaAssumption`: tables have keys, foreign keys refer to keys and are given no ids, sequences start at `FirstId`, above
the rows that are there) and requests to rules of the form the command line makes, with bodies that were
read into their types (`RequestsAssumption`); TLC evaluates both.

### Startup

`heap` holds what is declared, by identity: views, relations, columns, schemas, parameters, connectors, caches.
Several of them may be what two views point to, which is where order matters. The settings of a view are one function
(`set`), as inheritance treats them alike. Operators of `ViewInit` take a heap to a heap;
`Fail` puts an error in it, after which `Then` and `Each` do nothing, as the code returns.
`stuck` is the query that waits for a connection that never comes. `Merge`,
`ResourceInit`, `InitNextView`, `InitNextRoute` and `AddLoggers` are the loops of
`Resource.Init`, a step each. One goroutine does all of it: the interleaving here is that of declarations.

### Exchange

Types are trees of records (`kind`: number, text, ptr, slice, struct, iface, index), values of Go have
`go`, those of JSON have `json`. A key is a word in a style (`UpperCamel`, `LowerCamel`, `Underscore`, or the
`Tag` of a field), which is what comparisons of keys tell apart. A marshaller is its id, its path and its
type; those of interfaces are made when a type is met first and kept, and `known` has for
each route the paths they were made with. `Answer`, `Refuse`, `Receive` and `TakeParam` are exchanges
of a client with a route; the last one is in `last` until it is delivered (`Deliver`). Numbers wrap at
`WordBits`. `Describe` makes the document, `doc`, by the one action of `Document` (`GenerateSpec`): schemas and parameters lie in places of a heap, as the generator shares them by pointer
and turns into references the ones it meets again; `index` are its two maps by name (`None` once a name has moved), `common` the
components. A reference is the section its path names and a name in it (`Ref`); `Components` are the sections that the
document has, so that `Found` tells whether one leads anywhere as it is written: those to schemas, whose path says `schema`, do not, and
what they mean is what their name has in the components. Names may be shared by anything: `Clear` and `OnItsOwn`
tell the names of parameters that one may be taken for another under. `Document` takes as constants what needs
walks over types and views: the schema of a type (`SchemaOf`) and the parameters of a route (`ParamsOf`), which the run has from `OpenApi`.

`MetBy` walks through the rows a route may read and gives the paths that each type of a value of an interface is met at;
where a type is met at several (`MetTwice`), an answer may be written as at one of them, and `AnswersRepeat` allows just that.
`Said` and `Undocumented` are what the generator does not know of marshalling: tags, and that an embedded struct adds nothing to
a path. `LowerRows` are the rows below the roots of a tree, which are written without a path.

## Runs

| Run | Instance | What it shows |
|---|---|---|
| `reader_matched` | root r, relations a (Many, with c below it) and b (One), all narrowed; r and b may fail; c on a column without a field; batches of one for b and c | types, waiting, the join (`RowsJoined`), wait groups and nothing left behind (`WaitGroups`) |
| `reader_mixed` | a below r reads all, c below it is narrowed by the fields; failures | the read implements `ReadOnce`, with its liveness |
| `reader_skips_wait` (violation) | a narrowed view with a relation below a `read_all` root | the inner relation does not wait |
| `sync_changes` | two rules, a resource, a rule and the resource may be removed, two versions, one write of a SQL file at any time, one failure of a listing | no reported change is lost (`SyncSound`) but for SQL of `overlooked` rules; what is served is never replaced by something older or by part of it; polls converge |
| `sync_hangs` (violation) | a rule is removed | the poll and `Close` hang |
| `cache_hits` | three requests, two of the same selectors, the third with the same hash; failures of the read, refusals, storage errors; expiry; up to three writers of one file | a hit is on a first line written for the same selectors, and with one writer the response is its own; what one writer stored in debug mode is whole (`CacheSound`); answers; termination |
| `warmup` | four views (two parameters, a meta query, a case that fails, a query and a connection that may fail), three connectors, two connections; warm-ups that end with errors and without | every combination once, or an error (`WarmupSound`), exact counts, shared connections (`PoolSound`), termination |
| `request` | three views read by four routes (one that is guarded by a key, one that nothing reaches with the prefix), one view saved by a fifth, one that a parameter is read from; requests that differ in at most two of some thirty respects from a good GET or a good POST | routing, the status of errors, what a request can ask for (`SelectorsSound`), aligned arguments and shared lookups (`QueriesSound`), transactions, one answer |
| `write` | two requests at once, each any of 16 POSTs, PUTs and PATCHes of a view and the one below it, two rows and one child in the tables, a sequence that goes up by two | ids (`IdsSound`), links, updates and inserts, columns and rows that are kept (`RowsKept`), what is answered; liveness |
| `sequencer_hangs` (violation) | the same | a request whose first record has no child spins for ever |
| `startup` | 1076 declarations in five families: views that refer to each other in three orders; resources merged with others; routes of every style with parameters of several kinds; codecs, self references and columns taken from types; pools of one to six connections, of drivers that tell what is nullable and that do not | views (`ViewsComplete`), structs (`StructsFit`), routes and merges (`RoutesApply`), nothing ready changes, every declaration ends ready or refused, or waits for ever on a pool that is too small for its views (`Started`) |
| `payload` | 233 sets of routes: rows with relations, tags and embedded structs, values of interfaces (of one type in several fields, too), trees in every order of their rows, in envelopes and not, bodies in every style of keys, routes that share a document, its schemas and the names of their parameters | answers (`RowsAnswered`, `AnswersRepeat`), each of the schema the document has for it, bodies and numbers (`BodiesRead`), the document (`DocumentTrue`) |

A property in parentheses is a conjunction of named ones, each of them about one hazard; its
mutants break each of them in turn.

Bounds. A relation needs two parent rows to be cut into batches, a sibling to
interleave with and a relation below it to wait for it: that is the tree of three
levels with two rows each. Change detection needs two rules (one that fails while
the other is loaded) and two versions of each. The cache needs two
requests of the same selectors, one of others, and a clock of two units with a time
to live of less than one. The carry of the enumeration needs two parameters of two
values; the pool two connectors on one connection and one reopening. Every bound is
a constant named `Max...`. Two differences in a request are what it takes for two
views to fail with different status, for a page to meet an offset, and for a parameter
to fail beside a selector; a batch of one and one of two parents are what tells the
limit of a relation; a parameter's view with up to two rows has none, one and too
many. The views of parameters are one deep. A write needs two requests for the same tables and
records at two levels, with and without ids; a block of ids more than one, and an
increment that is not one; the database a row with a child and one without. References go wrong
by order with a view that refers to one that refers to a third. A marshaller that is kept is met a second time
after another exchange, so the sets of rows hold every pair of values of interfaces; a
tree needs a chain of three to climb more than once, and four rows for a circle beside it. `WordBits`
is 6, with parameters of 4 bits, and numbers on both sides of each bound.

Deadlock is checked where the system never stops; the reader, the cache and the
warm-up end, and the polls stop when closed, so their configurations turn it off.

Fairness of `Request`: a handler and the goroutines it starts run until it has
answered. The formula is written without `ENABLED`, whose evaluation over the guards of
`Serve` takes TLC too long; "not answered" stands for it, and the absence of deadlock,
which the run checks, shows that a step is possible then.

Fairness of `WriteRequest` and `Startup` (`Moves`): weak fairness of the goroutine that serves a request, or
loads a resource, stated by the variables its steps move. In `WriteRequest` a request whose walker
loops is not made to end: `Answered` is about the others (`Walkable`) and says that the one that spins does not keep them
from their reads, ids and transactions. `Exchange` has no liveness: an exchange is a step.

Fairness of the others. Every goroutine that can run is scheduled, and queries, loads and storage
calls end: weak fairness of the steps of each goroutine. A tracker that has
something to report is polled again (`WF` of `Poll`: `detectChanges` sleeps and
loops). Nothing is assumed of the environment: files need not change, pings
need not be answered. `Converges` says that if the files are usable from some
moment on, and the poll has not hung, what is served is what they say (of a rule in `overlooked`: but for
its SQL).

## Findings

1. `reader_skips_wait`: a narrowed view below a `read_all` view sets its own wait group
   from its parent's strategy, so the relations below it do not wait.
2. `sync_hangs`: a poll that has something to publish and no router to load waits on
   its channel for ever.
3. `sequencer_hangs`: over a slice, `leaf` looks at the first item again and again when that
   has no leaf.

Other disagreements met while modelling. The models have them; the properties are stated so as
not to hide them, and the instances of passing runs keep clear of some.

- Reader: a placeholder occurs once per parent row and the list is cut by position
  (`reader/service.go:186`), so rows of a key in two batches are appended twice.
- Gateway: a router enters the session before it is initialised (`gateway/service.go:468`), and when that fails the
  next poll publishes it. A change of SQL is looked up in the published routers only
  (`gateway/service.go:346`): it is lost for a rule that waits in the session, and for a rule that was removed it
  revokes the removal, after which polls fail until the rule is back.
- Response cache: the meta data of an entry does not reach the response
  (`router/cache/cache.go:178`), which is sent with content length 0.
- Selectors: a limit is compared with the maximum only from above
  (`router/selectors.go:268`), so a negative one is taken.
- Write rules: a child that a PATCH inserts is given no foreign key; with a
  compound key the index keeps the last column only (`cmd/prepare_patch.go:151`); a One relation that is nil on the
  path of an allocation panics; `int64Ptr` misspells `*uint64`. An error of the response's body after the
  commit answers 400.
- Initialisation: a route's view without a name takes columns another one excludes, as the columns
  are kept by name (`view/view.go:471`); a chain of three connectors in a bad order is ready without a driver; rows
  of column detection are not closed, so that a start waits for ever when `MaxOpenConns` leaves no connection over
  (`Exhausted`, the case `Started` exempts); of routes
  that share a related view the last one's namespaces and codecs win; `mergeProviders` does not see the
  resource's own providers; `mergeTypes` forgets its own types without parameters; a cache with a warm-up cannot be inherited;
  a field of a type declared by the name of another is always an error.
- Response cache: two writers of one file are not kept apart, and a request can be answered by a
  first line that is its own with a response that is not (`router/cache/cache.go:103`, `181`): `CacheSound` says of the
  response only what holds for the only writer of a file.
- Marshalling: items that are not structs have no path, so the lower rows of a tree in an envelope
  escape what its route excludes; two fields of interfaces with values of one type share the path of the first, so
  an answer depends on what was answered before (`marshal.go:483`);
  rows in a circle of parents are in no answer; a key of a compound word under `Underscore` counts as sent, at the root, only
  by its Go name; the default of a nil time is not quoted; fields of interfaces in bodies are dropped; a
  nil in one panics; numbers of parameters wrap at their width without an error.
- OpenAPI: references say `#/components/schema/` where the section is `schemas` (`openapi3.go:173`), so none to a schema is found;
  schemas and parameters are told by name only, so all POST bodies share the first one's, and so do routes of one view with
  other exclusions; a parameter that is looked for by the name another is kept under can refer to nothing, or to
  the other; fields with a tag have their Go names (`openapi3.go:253`, where `marshal.go:256` has the tag's), and the fields of an embedded struct are
  excluded by a path with its name (`openapi3.go:232`; answers know them by one without, `marshal.go:227`); of routes with one URI and
  method the last is described; PUT and PATCH are not.

## Theorems

Checked by TLAPS for every value of the constants that satisfies the modules'
assumptions.

- `ReaderProofs!TypeCorrect`, `CountersSafe`, `ReadLeavesNothing` (both: `WaitGroupsSafe`),
  `NarrowedReadsFetched`. The inductive invariant says what each wait group counts:
  the group of `Read` the goroutines that have not left it, the relation group of a view
  its relations that have not left, and a collector's group whether the collector
  was released. `CountersNeverNegative` is not inductive without it, as `Fetched`
  runs twice; `ReadsFetchedParent` needs that a released collector has all
  its rows. `NarrowedReadsFetched` assumes that no narrowed view with relations
  hangs below a `read_all` view: without that it is false (`reader_skips_wait`).
- `ReaderProofs!ReadJoinsRows`, `ReadIsAtomic`: a read that succeeds has, below each row, the rows
  of the relation with its key, each as often as they should be there (`RowsJoined`), and a read in all its
  steps is the one step of `ReadOnce` (`OneAnswer`, the safety of the abstract specification), in
  any interleaving of the goroutines. `JoinInv` is about a read that has no error yet, view by view (`ViewOK`):
  the placeholders are the keys of the fetched parent rows, each once, and those before `from`
  were queried (`BatchesOK`); what is fetched and what the running query has yet to deliver are
  the rows with those keys, none twice (`RowsOK`); while a relation is put in place row by row, each
  holder has the fetched rows of its key (`HolderOK`, `HeldOK`). It needs `AllSpawned` (no
  relation is forgotten), `PastWait` (nobody reads placeholders before the parent is fetched) and
  `HoldsUntilFetched`. `ReadIsAtomic` further needs that the answer cannot change once it is
  given (`Answer`). Both assume `MatchedBelowMatched`, as `NarrowedReadsFetched` does, and `KeysFit`: that no row of
  a narrowed view is delivered twice. That is so when its parents differ in their keys or one batch holds
  all of them (`reader/service.go` cuts placeholders into batches and does not look whether one
  repeats in a later batch), and for a One relation without relations a repeated row replaces itself.
- `GatewaySyncProofs!ServesForward`, `ChangesNotLost`, `TypeCorrect`. What is served is
  replaced only at the end of a poll, from what the poll collected, so `ServedForward`
  needs that whatever is on its way there is not older than what is served: `ForwardInv`
  orders the published router of a rule, the one the poll has, the one the session has
  and the file on disk, each covered by the next (`FilesGrow`: a file only gets later
  versions), and has a router missing from the poll only if its rule was seen removed.
  It assumes nothing. `ChangesNotLost` is by `SyncInv`: what a
  tracker saw was there and is covered by what is there now (`SeenVersions`), what the
  session holds is what was reported and not yet published (`SessionAccurate`), a poll
  that has its resources or routers has all of them (`ResultComplete`,
  `RoutersComplete`), and resources have no SQL (`NoSqlOfResources`). It assumes nothing about
  when files or SQL are written: a change of SQL the code does lose is of a rule in `overlooked`,
  and the theorem says that no other is, and no change of a rule itself.

- `RequestProofs!MatchingIsRight`, `ServedByTheRightRoute`. A node is reached
  exactly when its template fits and nothing hides it (`ReachedIffPreferred`); of two
  templates that fit, the first segment they differ in makes one preferred
  (`OneIsPreferred`); dropping a last segment of one character changes neither
  (`FitsRelative`, `HidesRelative`), as no template ends in one. Both assume that no
  template is a parameter alone: `/{id}` does not serve `/5`, of which nothing remains.
- `RequestProofs!CommittedAllOrNothing`. The invariant `ExecInv` is that what an open
  transaction wrote, while no statement failed, is all that was executed, and that
  nothing but `ExecDone` answers a request that executes with success.
- `RequestProofs!NoErrorIsLost`, `MostImportantStatus`, `RequiredIsThere`. `ErrorsInv`
  relates where each goroutine is to what failed and to the errors; `StatusInv` has
  the status as the most important of the codes set so far, by goroutines and by
  `Normalize`, which is what makes their order irrelevant; `RequiredInv` has the values
  of the parameters before the one a goroutine is at. They hold for any number of
  views and parameters; that the selectors are for views of the route rests on
  `RouteIsFound`, and so on routing.
- `RequestProofs!SelectedWithinLimits` (`SelectorsSound`). A selector is a fold over what can be asked for,
  criteria are one over lexemes. `FoldRuns` makes of a fold a run of states, about which
  one reasons step by step: `CriteriaParsed` (each piece that is written names
  filterable columns and brings an argument for each of its question marks), `PopulateKeeps`,
  `SelectorIsSound` (a selector stays within `SelectorsFor` its view; a page comes last, so that the
  offset is its own). `SelectedInv` carries this through the goroutines, with what it takes for
  the next steps: values that are set are values, codes are numbers. `StatementsInv`,
  `AskingInv` and `ErrorsAreFew` are the rest of the types.
- `RequestProofs!QueriesAreRight` (`QueriesSound`). `Over(T)` are the pieces written with the tokens of T that have
  an argument for each question mark. `TemplateEvaluated` keeps evaluation within them, through
  assignments and loops; `SourceEvaluated` finds a source that is not evaluated
  among them; `DiscoveredKeeps` lets discovery add keywords only. `ExpandedRight` is the
  core: an expansion whose arguments are there (`Supplies`) never fails, takes one for each question
  mark, puts those of a keyword where its text is (`Expansion`), and is the same when nothing is
  replaced differently (`Replaces`). From it follow `QueryBuilt` (with the keys of the batch one
  after another among the arguments, `Within`, and a cache key in which the parents are nowhere,
  `MockedAlike`), `MetaBuilt`, and `StatementsRight`: a statement uses up what
  its question marks stand for, and the commands a template is cut into stand for all of
  them (`Cutting`), so the last one ends with the last argument.

The last two assume of the constants what the code has: names and what literals convert to are
`Value`s and a route's views are views (`ConfTyped`, `RouteViews`); what a request gives that converts is
a number, a list of names, lexemes, or values (`RequestConverted`; conversion itself is
abstracted to whether it succeeds); the keys of parents are values (`ValuesAssumption`). And of templates
(`TemplatesWritten`): they use parameters of their view or variables set before, the meta has a
place for its query, a source that is not evaluated has no variables, and $COLUMN_IN is not in a
loop. TLC evaluates all of them on the run `request`.

- `WriteProofs!RequestsServed`: the invariant the other theorems on writing rest on. `Served` says of each
  request that its payload is its body with other values in the rows (`Alike`), that before the template is
  evaluated only fields that are given ids differ (`AsAsked`), and that afterwards there is a statement
  for each record, an insert or an update of what the record is now (`MadeAt`), with the foreign keys of the record it is in
  (`LinkedAt`); and of the tables that a key has one row. `Allocate`, `Statements` and `Run` are folds: `FoldRuns` makes
  of each a run of states, along which one reasons by `Inductive`: `AllocateIs` (as many ids are given as were
  counted empty, each once), `StatementsAre` (each record by what the record above it has become),
  `TransactionIs` (a transaction that succeeds goes from rows to rows, statement by statement, `Stepped`).
- `WriteProofs!IdsAreSound`, `ChildrenAreLinked`. `Ids` adds that what was given lies between
  `FirstId` and the sequence (`Numbered`): without it nothing keeps a block that is reserved from ids
  another request holds. They hold for any increment, depth of records, and number of requests.
- `WriteProofs!AnswersAreStored`, `RowsAreKept`. A transaction is followed statement by statement: what
  is inserted stays while only inserts follow (`RowStays`), and a column keeps its value if each
  update of its row leaves it (`ValueStays`): because it finds the row by it (a key of the owner), or because the
  record that sets it had it in the body.
- `WriteProofs!KnownAreUpdated`, `PatchesAreDone`. `Lookups` says that the index of a view a patch has come to has the keys
  of the body that were there at the start, and no keys without a row; it is kept as rows are never deleted
  (`KeysGoOn`). An insert of a patch has a key that the index did not have, or was given, and so
  is of no row that was there; an update at the top of a patch finds a row. Both assume
  `OneColumnKeys`: the index is of the last column of a key (`cmd/prepare_patch.go:151`), and they are false
  for keys of two columns.
- `ResponseCacheProofs!CacheIsSound`, `AnswersOnce`. In `CacheInv` every first line, stored or opened,
  was written by a put that had taken its response, for the selectors it names; its writer is one of the
  file's, and with no other writer the response is that writer's (`EntriesSound`). Where a handler is tells what it knows of the cache and
  whether its put began (`Position`), without which an answer could be counted twice;
  when debugging the buffer is whole until it is taken (`Buffered`).
- `WarmupProofs!WarmupIsSound`, `CollectorIsExact`. Combinations come in lexicographic
  order, so what a case has produced is what comes before the one it is at (`EnumInv`,
  `FollowingIsNext`): that makes each come once and the last end it. `CollectInv` has the
  expected size as the number of the entries of the views that were announced, and what was received
  as those that no longer wait (`Pending`, the meta queries of waiting entries included).
  They assume finitely many entries, and no bound on parameters or values.
- `DocumentProofs!NothingIsDangling`, `DocumentDescribes` (`DocumentTrue`). They assume nothing of names: what is described
  under one is what belongs there, or another one of that name. A parameter is looked for by its name in the request and
  kept by its own, so a name is lost (`Lost`) when one is looked for by it and another kept under it: what moves to the
  components under it may be anything. A place that no lost name leads to keeps what it has, whatever is placed later
  (`Held`, `Grows`), though it may move to the components: so it is enough to know of each place what it had when it was
  made. `PartSound` is what keeps that so: a name that is not lost is found in the
  place that was described first, no other name in the same one, or else in the components; and whatever is in a place
  is what a name may mean. `AddSound`, `MoveSound`, `AgainSound` and `PlaceSound` say
  this of each thing the generator does, `AllConverted` of all parameters of a route, `PathsGenerated` of all routes, by
  `FoldRuns`. No name of a schema is lost, as it is looked for and kept under one.
- `WarmupProofs!PoolIsSound`. `PoolInv`: a connector that is known is registered, a registered
  key whose DSN is sound has a connection, and a caller connects only by a known connector;
  `Room` is the bound of the model, `MaxOpen`.

Only model-checked: liveness (`Answered`, `Converges`, `Served`, `Ends`, `Started`, and the liveness of
`ImplementsReadOnce`), which the proof system does not cover; and `ViewInit`, `Startup`, `Payload`, `OpenApi` and
`Exchange`, which walk over graphs of views and trees of types with `RECURSIVE` operators that the proof system
does not take: `ViewsComplete`, `StructsFit`, `RoutesApply`, `RowsAnswered` (and in it that a body is of the schema the document
has for it), `AnswersRepeat` and `BodiesRead` hold on the instances of their runs.

## Not modelled

- Reader: limits, composite keys, codecs, the meta query, SQL caches, metrics.
- Gateway: the singleton, secrets, the copies of resources in routers; the map of a session that goroutines of
  a poll read and write without a lock.
- Responses: redirects, CORS, audit, CSV, the encoder of errors without an envelope.
- Pool: the Aerospike clients and `ResetDBPool`, which nothing calls.
- Initialisation: summary templates, stored columns, the struct types that reflection builds, warm-up declarations.
- Write rules: the files the command line writes and the text of their templates; the rest of the command
  line translates SQL with hints to rules, by a parser that is a library, and does not run with the service.
- Template functions run in velty, a library; authorisation calls external services; runtime
  adapters and logging only pass on what they are given.

## Plan

The next steps.

1. In `Reader`: the meta query and limits of relations.
2. `RoutesApply` and `RowsAnswered`, once what `Startup` and `Payload` walk is a sequence, as payloads of writes are.
