# Formal models of the vastrum application library

This directory holds TLA+ models of the TypeScript code under `src/`. They are
checked with TLC on small instances and proved with TLAPS for every value of
the constants.

## The system

- **application-lib** (`src/application-lib/src`) is the library an
  application is written against.
  - `typeReflector.ts`: the `@Column(type)` decorator writes each column
    twice. It goes to `MetadataStorage` (per class: tableID, columns,
    columnToIDMapping and two counters) and to `TypeReflector` (per
    prototype: the property list of a `TypeMetaClass`).
  - `dblib.ts`: `Repository` (constructor, query, insert, update,
    createTable) and the query builder `TypedQuery` (where, orderBy, limit,
    offset, get, clone).
    - insert and update encode the columns in MetadataStorage's order.
    - get decodes each returned row through `Deserialize`, in TypeReflector's
      order.
  - `serializer.ts`: the positional codec (`encode`, `decode`,
    `Deserialize`).
  - `index.ts`: the wire records sent to the host: `DatabaseQuery`,
    `WhereOperation`, `SortingOperation`, the insert, update and
    create-table entries.
- **The storage host** executes those records. It is not in this repository
  and is modelled from the specification (section 6):
  - every column is TEXT;
  - where tests string equality;
  - sorting is in TEXT order;
  - limit 0 means no limit;
  - update selects on column 0.
- **apps/forum** is an application built on the library. It has three
  repositories, Post, Post_Reply and Category. Its handlers are `deploy`,
  `create_post` and `create_post_reply`; they chain query, update and insert
  calls and register static routes.
- **web-client** renders a site's routes. It runs an asynchronous page fetch
  and a periodic re-render.
- **compiler** generates bindings at build time.

Everything in the application runs on one thread. A class body's decorators
run one after another in source order, before any code that uses the class.
Handlers run one at a time.

## Modules

| module | models | state | actions |
|---|---|---|---|
| `Registry` | `typeReflector.ts` | `entities`, `entitiesAmount` (MetadataStorage), `reflector` (TypeReflector.meta), `classState`/`pos` (how far each class body has run) | `BeginClass` (a class body starts), `Decorate` (one `@Column`: addColumn then register), `Lookup` (getEntityMetadata from a Repository constructor) |
| `Codec` | `serializer.ts` encode/decode, `Number()`, `toString()` | none; operators only | none |
| `Wire` | the column loops of insert/update, `Deserialize`, and the storage host's query and update | none; operators shared by `Orm` and `Forum` | none |
| `Orm` | `dblib.ts`, `index.ts`, the host | Registry's state, plus `repos`, `builders`, `whereArr`/`sortArr` (the arrays builders reference), `tables` (host), and the history variables `ghost`, `expected`, `lastMsg`, `lastResult` | `Declare`, `NewRepository`, `Query`, `Where`, `OrderBy`, `Limit`, `Offset`, `Get`, `Insert`, `Update`, `CreateTable` |
| `Forum` | `apps/forum/src/index.ts` over the library and the host | `tables` (host), `pages` (the routes postcatalogue, postsjson, repliesjson), `postPages` (post/<id>), `blockTime` | `Deploy`, `CreatePost`, `CreatePostReply` (each a whole handler, including monotonic_post_id and the re-rendering of routes at its end), `NewBlock` |
| `AbstractForum` | what the forum promises its users | `board`: posts in order, each with id, title, content and reply contents | `MakePost`, `MakeReply` |
| `WebClient` | `web-client/src/App.tsx`, `siteview.tsx`, `nojsembedd.js` | `route`, `siteID` (App), `page` (pageData), `fetches` (async fetch tasks), `calls` (make_call tasks), `timers`, `applied` (the host's transactions per site), `hist`/`hidx` (browser history), `backFrom` | `Navigate` (link click), `Traverse` (Back/Forward and popstate), `Transact` (button click), `CallEnds`, `TimerFires`, `ServerAnswers`, `FetchReturn` |
| `Compiler` | `compiler/compiler.ts` parse_public_interface | `Funcs` (the input file), `pc`, `fi`/`pi` (loop positions), `iface` (publicInterface), `ci`/`seen` (collision loop) | `SkipFunction`, `CheckParam`, `PushFunction`, `EndFunctions`, `CheckCollision`, `Generate` |
| `RegistryProofs`, `OrmProofs`, `WebClientProofs`, `CompilerProofs` | the proofs | | |
| `MCRegistry`, `MCOrm`, `MCForum`, `MCWebClient`, `MCCompiler` | the TLC instances | | |

How the parts interact, and how the modules compose them:

- `Orm` composes the registry (`EXTENDS Registry`) with the builder, the
  repository and the host: a repository reads the registry, a builder's
  `get()` sends a query to the host and decodes rows through TypeReflector.
- `Forum` is the application on top: each handler chains the library calls
  (query, update, insert, get) through the `Wire` operators, on the host's
  tables. The registry is taken as declared: the three classes in the order
  Post, Post_Reply, Category and the repositories with ids 0, 1, 2, which is
  the one order in which `table_routing`'s mismatch does not arise.
- `WebClient` is the browser side. It talks to the host through `get_page`
  and `make_call`; the host's content is abstracted to the number of
  transactions it has applied to a site, which is what a page shows.

Modelling choices:

- **Strings.** A wire string is a sequence of one-character strings.
  - `ToDecimal` is `Number.prototype.toString`. `Number` parses a numeral and
    returns NaN for anything else.
  - `encode` and `decode` are modelled by what they do, so a shifted or
    mistyped column shows up as a different value.
- **Builders.** A `TypedQuery` holds references to its where and sort arrays.
  - `query()` allocates fresh arrays.
  - `clone()` copies the references, exactly as `dblib.ts:114-115` does.
  - `Where` and `OrderBy` therefore push onto the array shared by the whole
    chain.
- **The host.** A call the host cannot perform changes nothing: an unknown
  table, a wrong width, or a table that already exists.
  - A query answer is any ordering the sort clauses allow, since ties come
    back in any order.
  - Offset and limit are then applied to that ordering.
- **Repository constructions** follow the program's list `RepoPlan`. The
  forum's list is Post as 0, Reply as 1, Category as 2.
- **Forum handlers** are atomic: the runtime runs one call at a time and every
  library call is synchronous. `get()[0]` being undefined throws before the
  handler's first write, so it is a guard. The `parent_post_id` argument
  arrives as the string the page's `data-args` holds; `where()` and `encode()`
  both turn it into that same string, so it is modelled as the number.
- **Host faults** (`HostFaults`). A handler's last insert may fail at the
  host; the handler throws, and the writes before it stay, since nothing in
  the repository or the specification rolls them back.
- **The web client.** A React state update and the effects it triggers are
  one step. An `await` ends a step: the host's answer to `get_page` and the
  continuation that sets the page are separate steps, so fetch tasks finish
  in any order. Setting the route to its current value renders nothing.
  `Math.random()` for the nonce is a fresh value each time.
- **The compiler.** keccak256 is the constant `Selector`, onto two values so
  that distinct signatures collide. A parameter is the record
  `getParameterTypes` returns.

## Runs

| run | cfg | result | shows |
|---|---|---|---|
| registry | `MCRegistry.cfg` | pass (228 states) | `DeclarationOrderStable`, `ColumnIndexSound`, `UniqueTableIDs` and the action property `MetadataKept` (no step drops an entry, changes its tableID or rewrites its columns) hold over all interleavings of 4 classes, including one with no columns |
| orm_round_trip | `MCOrm.cfg` | pass (about 253k states) | `RoundTrip`: every entity `get()` returns equals what was last written into that row, through inserts, updates and where/orderBy/limit/offset queries. `QueryFieldsInRange`: every clause a builder would send names a column below `number_of_fields`. The action property `QueryOnlyGrows`: no step changes the table, width or counts of an existing builder's query, and its clauses only gain entries at the end |
| builder_immutability | `MCOrmBuilderImmutable.cfg` | violation | deriving two builders from one query lets each see the other's clauses |
| forum | `MCForum.cfg` | pass (523 states) | the forum implements `AbstractForum` (`ForumRefinesAbstract`, which includes that post ids are fresh); `replies_length` equals the stored replies; every route a handler re-renders shows the tables as stored (`PagesFresh`) |
| forum_host_faults | `MCForumFaults.cfg` | pass (4442 states) | with failing inserts, the refinement still holds and no post has more stored replies than its `replies_length` (`ReplyCountCovers`): a failed insert leaves the count ahead, never behind |
| forum_posts_json | `MCForumPostsJsonFresh.cfg` | violation | a reply changes its post, but `postsjson` is not re-saved |
| forum_reply_keys | `MCForumReplyKeysUnique.cfg` | violation | the first replies of two posts share the primary key 1 |
| web_client | `MCWebClient.cfg` | pass (18641 states) | the browser location is App's route in every state (`HistoryMatchesRoute`) |
| web_stale_fetch | `MCWebPageShowsRoute.cfg` | violation | an earlier route's fetch finishing last leaves its page shown |
| web_history_forward | `MCWebForwardKept.cfg` | violation | Back drops the entry Forward should return to |
| web_refresh_after_transaction | `MCWebTransactionShown.cfg` | violation (liveness) | make_call slower than the 4000 ms timer: the page never shows the transaction |
| compiler | `MCCompiler.cfg` | pass (103941 states) | parse_public_interface agrees with the reference on every file of up to two functions with up to two parameters |

Further counterexamples. These cfgs are kept beside the runs. Each makes
TLC find its one property violated:

| cfg | property | shows |
|---|---|---|
| `MCRegistryDup.cfg` | `ColumnsMatchIndex` | a property decorated twice breaks the specification's invariant that the number of columns equals the number of indexed properties |
| `MCOrmTableRouting.cfg` | `TableRouting` | with the forum's tableIDs (Post 0, Reply 1) and Reply decorated first, createTable and insert address different tables |
| `MCForumFaultCount.cfg` | `ReplyCountMatches` | a failed reply insert after the parent's update leaves `replies_length` one too high |
| `MCForumCatalogueByActivity.cfg` | `CatalogueByActivity` | TEXT sorting lists activity at 9 above activity at 10. With 10-digit unix-second block times this stays latent until the digit count changes |
| `MCCompilerTypes.cfg` | `SupportedTypesOnly` | a parameter typed `constructor`, a key of `Object.prototype`, passes the supported-type check |

Bounds:

- `MCRegistry` has four classes, with 3, 2, 2 and 0 columns and three
  different types.
- `MCOrm` has two classes that share the property names `id` and `title`, so
  the column index of one class could be confused with the other's.
  - The numbers are {2, 10}: their numerals differ in length, so TEXT order
    and numeric order disagree.
  - There is one text value.
  - Two builders are enough for a where or orderBy chained on a query.
    They are also enough to violate `BuilderImmutable`: after
    `q = repo.query()` and `q.where(id, 2)`, the new builder shares q's
    where array, so `q.get()` also filters. TLC stops there, before any
    orderBy.
  - There are two rows per table and one clause per array.
- `MCForum`: two posts and two replies, so that two posts can each get a
  first reply (the key clash) and one post can get two. The block times are
  9 and 10, whose numerals differ in length. One text value: contents and
  titles are carried through unchanged, and no property compares two of them.
  The limits 100 and 10000 of the forum's queries are far above these bounds
  and never bite.
- `MCWebClient`: three paths (the root "", the default catalogue and a post),
  one site, four fetch tasks and one transaction. Four tasks allow the
  initial fetch, a navigation, a Back and a refetch to overlap. The liveness
  run uses two tasks: the initial fetch must finish before a page exists, so
  the only refetch left is the timer's, and the run isolates the timer race
  from the out-of-order fetches of `web_stale_fetch`.
- `MCCompiler`: every file of at most two functions (exported or not, two
  names) with at most two parameters drawn from seven kinds. The kinds are
  u64, string[], number, an optional u64, `constructor`, a tuple and a rest
  u64[]. Together they reach every check of the loop.

Fairness:

- `Registry`, `Orm`, `Forum` and `Compiler` assume none and check no
  liveness. Every step is a call by the program or a user, who may stop at
  any point. So the forum's runs do not check deadlock: once the bounds are
  reached, the server simply receives no more calls.
- `WebClient` assumes weak fairness of the steps the browser and the host
  take on their own: the host answers every request (`ServerAnswers`), the
  event loop runs every continuation (`FetchReturn`), every timer fires, and
  every make_call settles. Clicks are not fair: a user need not click.
  `TransactionShown` is a property of exactly those behaviours in which the
  user stops clicking.

Each property of a passing run has a mutant in `PROJECT.json`: a plausible
bug that TLC then catches.

## Proofs

`RegistryProofs` proves, for every set of classes and property names and
every list of decorators, `RegSpec => []IInv`. IInv is the conjunction of:

- `RegTypeOK`;
- `DeclProgress`: pos is within the declarations, at 0 for an undeclared
  class and at the end for a declared one;
- `DeclarationOrderStable`;
- `ColumnIndexSound`;
- `UniqueTableIDs`.

Why the strengthening is needed:

- `DeclarationOrderStable` alone is not inductive. `Decorate` reads
  `Decls[c][pos[c]+1]`, which needs `pos[c] < Len(Decls[c])` while a class is
  being declared. That fact is `DeclProgress`.
- `UniqueTableIDs` carries its own strengthening: every existing id is below
  `entitiesAmount`, so the id a new entry takes is fresh.

The step proof has one lemma per action: `BeginClassIInv`, `DecorateIInv`,
`LookupIInv`. They rest on these lemmas:

- what `getEntityMetadata` returns (`MetadataOfFacts`);
- `addColumn` keeping the index sound (`AddColumnFacts`, `AddColumnSound`);
- a prefix extended by the next element (`AppendPrefix`, `FirstPrefix`);
- storing an entry under the id lookup gives (`StoreKeepsTableIDsUnique`).

The theorems `RegTypeCorrect`, `DeclarationOrderStableTheorem`,
`ColumnIndexSoundTheorem` and `UniqueTableIDsTheorem` follow from it.

The assumptions are `DeclsAssumption` and `NoneAssumption`. The absent value
`None` is neither a property, a number, a sequence of columns nor a metadata
record. Each class has a finite list of columns.

`MetadataKeptTheorem` proves the action property `MetadataKept`:
`RegSpec => [][A]_regVars`, where A says every existing entry keeps its
tableID and its columns as a prefix. The per-step fact is
`MetadataKeptStep`, which follows from `IInv`:
- `BeginClass` leaves the entries alone.
- `Lookup` stores back the entry it found.
- `Decorate` stores `AddColumn` of the entry. That keeps the tableID and
  appends one column, which needs `DeclProgress` (a class being declared
  has a decorator left). `KeptByColumn` turns this into the prefix fact.
The theorem combines the step fact with `[]IInv` by PTL.

`WebClientProofs` proves `HistoryMatchesRouteTheorem`: `Spec =>
[]HistoryMatchesRoute`, for every set of paths and every bound.
- The invariant is strengthened to `HistInv`: the route is a path, the
  history is a sequence of paths, and `hidx` is within it.
- The one lemma about sequences, `PushFacts`, says what pushState leaves:
  the entries up to the current one, then the new one, which is current.
- There is one lemma per kind of step. `Navigate` pushes the new route.
  `Traverse` either only moves the index (the entry is the route) or makes
  the entry the route and pushes it after itself. The other steps leave all
  three alone.
- The proof needs only `WebAssumption`: the default route is a path.

`WebClientProofs` also proves `WebTypeCorrect`: `Spec => []WebTypeOK`.
This is type correctness only: the history index stays inside the
history and every task keeps its fields. It says nothing about where a
page or a call's site comes from; `CallsNameSite` does.
`WebTypeOK` alone is not inductive, for two reasons.
- `FetchReturn` copies a fetch's version into the page. The version must
  be a number by then, so the invariant `WInv` adds `AnsweredVersions`:
  a fetch that is no longer "sent" carries a number.
- `Transact` records `siteID` in the new call, and `CallEnds` indexes
  `applied` with it. So `WInv` adds `SiteShown` (a shown page comes with
  the site id of its route, since `FetchReturn` sets both) and
  `CallSites` (every call names a site, never `Empty`).
`CallsNameSite` states the last two conjuncts on their own: make_call is
never called without a site. This holds only up to the render window
listed under "Not modelled".
There is one lemma per action, and `StartFetchWInv` covers the fetch
effect that `Navigate`, `Traverse` and `TimerFires` share.
`ServerAnswers` sets the state and the version of one task in one EXCEPT.
The proof splits it into two EXCEPTs, one field each.

`CompilerProofs` proves `CompileMatchesReferenceTheorem`:
`Spec => []CompileMatchesReference`. It holds for every list of source
files and every selector function, under `CompilerAssumption` (the
inputs are lists of function records). The loops are compared with a
definition over the whole file. The inductive invariant `CInv` says what
each loop has covered so far:
- `CleanBefore(fi, pi)`: no parameter before the loop's position is
  rejected. When `CheckParam` throws, the failing parameter is
  therefore the first bad one in source order, which is what
  `ReferenceOutcome` chooses (`FirstBad`).
- `Pushed(fi)`: publicInterface holds the exported functions before
  `fi`, in order, each with its selector. It is stated with an
  increasing witness map `g`, so it needs no recursion.
- `DistinctBefore(ci)` and `seen` being the selectors of the entries
  before `ci`. With these, "hash collision" is thrown exactly when two
  entries share a selector.
- Per value of `pc`, the facts that link the phases. For example, in
  the collision phase `fi` is past the last function and nothing was
  rejected.
No induction over data is needed. Each loop iteration extends these
facts by one position, and `CInvCorrect` reads the outcome off them
when the loops stop.

`OrmProofs` proves two properties of the query builder, for every program:
every set of classes and decorators, every list `RepoPlan` of Repository
constructions, and every bound.

- `QueryFieldsInRangeTheorem`: `Spec => []QueryFieldsInRange`. Every clause
  a builder's `get()` would send has a `field_id` below the
  `number_of_fields` it sends.
- `QueryOnlyGrowsTheorem`: `Spec => QueryOnlyGrows`. No step takes anything
  back from the query an existing builder would send: its table, width,
  limit and offset stay, and its clauses only gain entries at the end.
  Because of the shared arrays, a builder's clauses can still grow through
  another builder of its chain; `builder_immutability` shows that.

Neither theorem touches the codec, so neither needs the recursive
`ToDecimal`. `Where` takes its argument from `WhereStrings`, but only as
a set.

The inductive invariant is `OInv`:

- `IInv`, the registry's invariant. Every database step is a registry
  step or leaves the registry alone: `Declare` is `BeginClass` or
  `Decorate`, and `NewRepository` contains a `Lookup`. So `NextIInv`
  carries it over.
- `ReposDeclared`: every repository's class is declared and has an entry.
  A declaration step therefore concerns another class
  (`DeclareKeepsRepos`). A Repository constructor's lookup returns the
  existing entry (`NewRepositoryKeepsRepos`). So the metadata a
  repository reads never changes.
- `BuildersShaped`: a builder's `wref` and `sref` are equal. They name an
  earlier builder of the same repository: the one `query()` made for its
  chain, whose arrays it shares.
- `ArraysInRange`: arrays not yet allocated are empty. The clauses in an
  allocated array name columns of its builder's class.

Why the strengthening is needed:

- `QueryFieldsInRange` alone is not inductive. `where()` pushes onto the
  array of the chain's first builder, and the step must know that this
  builder belongs to the same repository (`BuildersShaped`).
- It must also know that the metadata will not change afterwards
  (`ReposDeclared` with `IInv`).
- `query()` allocates position `Len(builders)+1`. That array is empty only
  because of `ArraysInRange`'s first clause.

The lemmas behind the proof:

- one per action: `QueryOInv`, `WhereOInv`, `OrderByOInv`,
  `LimitOffsetOInv`, `DeclareOInv`, `NewRepositoryOInv`, and `FrameOInv`
  for get, insert, update and createTable;
- `CloneOInv`, which covers the append that every chained call does;
- `ColumnIdInRange`: a `columnToIDMapping` entry is below
  `amountOfColumns`. It follows from the registry's `ColumnIndexSound`.

`QueryOnlyGrowsTheorem` rests on `BuilderStep`: a step keeps every
existing builder, its repository and that repository's metadata, and
pushes at most one clause onto each of its arrays (`Extends`). It is
combined with `[]OInv` by PTL.

Only model-checked:

- `Orm`'s `TypeOK` and `RoundTrip`, and the `Forum` properties, refinement
  included. They are about rows and decoded values, built with the
  recursive functions `ToDecimal` and `Number` (a recursive function is
  opaque to the prover). Facts such as decode
  inverting encode (`Number(ToDecimal[n]) = n`) need induction over data,
  which is beyond the installed provers.
- The properties TLC finds violated: `PageShowsRoute`, `ForwardKept`,
  `TransactionShown` (liveness) and `SupportedTypesOnly`. A violated
  property has nothing to prove. In any case, liveness under fairness
  and ENABLED are beyond the prover, so `TransactionShown` would stay
  with TLC even if it held.

## Not modelled, and why

- The templates (`post.tsx`, `post_catalogue.tsx`, `utilities.ts`) are
  pure HTML rendering with no state. The web client lets a shown page offer
  any link and any transaction, which covers every page they render.
- `generate_interface_code`, file reading and writing, and the compiler's
  CLI are text generation and I/O.
- The iframe markup and the script injection on load are left out. A page
  being shown stands for the injected script being there.
- The generated declarations, the built `dist/` copy and the bundler
  configuration have no behaviour of their own.
- `Serialize`, `registerInternal` and `sortProperty` are never called.
- Numbers above 2^53 losing precision in `Number()` are out of TLC's reach.
- The window between React's commit and its passive effects, in which the
  message handler still holds the previous `site_id`, is not modelled.
