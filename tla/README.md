# siphon-http in TLA+

siphon-http is an HTTP server and client for scripts of the siphon SIP server:
Rust (axum, hyper, reqwest, rustls) around handlers written in Python. This
directory models what it does concurrently and across failures, checks the
models with TLC and proves the central properties with TLAPS. Paths below are
relative to the repository.

## The system

| Part | State | Operations | What is hard |
|---|---|---|---|
| **Request dispatch** `src/dispatch.rs` | one executor job, at most one `drive` coroutine and one reply channel per request | `answer`, `start`, `hand_off`, `drive`, `ResponseSink` | three actors, none of which waits for the others; timeouts above (router) and below (asyncio); stages that suspend, raise, panic, swallow cancellation |
| **Admission guard** `src/admission.rs` | whatever the embedding counts | `admit`, `respond`, drop | every way out of a request must give back what was taken |
| **Router** `src/runtime.rs`, `python/http.py` | routes registered by the script, snapshotted at startup | `route`, `read_routes`, `build_router`, `guarded`, `route_gate`, `match_route`, `dispatch` | the order of the layers; several handlers on one path; options as scripts write them, malformed ones among them |
| **Startup** `src/runtime.rs` | sockets, bound and then listening | `spawn_with`, `unknown_route_listeners`, `bind_listener`, `serve` | binding and listening are two steps with script code between them |
| **TLS reload** `src/runtime.rs` | the configuration new connections get, the stamps of the last look | `reload_listener`, `build_server_config` | files are replaced one by one while they are read one by one |
| **Outbound pools** `src/outbound.rs`, `src/client.rs` | a registry of pools by name; each pool's client and stamps; the entries of the first task | `set_named_clients`, `HttpClient::named`, `Client::from_named`, `HttpClient::pooled`, `Pool::client`, `Client::pool` | two ways to look a name up; a lock around the first build, none around a rebuild |
| **Connection facts** `src/connection.rs` | listener and TLS session of a connection | `PlainAcceptor`, `TlsAcceptor` | reloads while handshakes are under way, sessions that are resumed |
| **Certificate names** `src/x509.rs` | none | `names` | bounds of a DER walk; text that is compared must not be ambiguous |
| **Parsing** `src/parse.rs` | none | `extract_path_params`, `parse_query`, `urldecode` | escapes at the end of the text, bytes over 127 |
| **Configuration** `src/config.rs` | none after loading | `HttpConfig::parse`, `Dscp`, `listener_name` | names that must be unique, next to addresses that stand for names |
| **Objects, install, facade** `src/request.rs`, `src/response.rs`, `src/install.rs`, `python/http.py` | none that changes | constructors, getters, decorators | |

The parts meet as follows. `install` gives a `spawn_with` to siphon, which
runs it once with the script's handlers. It reads the handlers, builds the
router, binds every listener, runs the startup hooks and then serves each
listener in a task of its own; a TLS listener with `reload_seconds` has a
reload task beside it. A request enters through a listener's acceptor, goes
through guard, timeout, body limit and route gate, and `dispatch` hands it to
siphon's Python executor as a job. The job runs middlewares and handler until
one decides, or until an `async def` that can suspend takes over on siphon's
asyncio pool; the reply returns through a oneshot channel. Scripts and Rust
code send requests of their own through pools that are shared by name.

## The modules

| Module | Models | Run by |
|---|---|---|
| `RequestDispatch` | guard, layers, job and coroutine of every request | `MCRequestDispatch` |
| `RequestChain` | what all of that promises of one request, sequentially | refinement, below |
| `Routing` | `@http.route`, `read_routes`, `build_router`, the match of a path, and then `RouteMatch` | `MCRouting` |
| `RouteMatch` | `match_route`, as the loop it is | `MCRouting` |
| `Startup` | the names in a configuration, `spawn_with`, `bind_listener`, `serve` up to listening | `MCStartup` |
| `TlsReload` | a listener's TLS files from bind to reload | `MCListener`; itself for a finding |
| `Connections` | one listener's connections, handshakes and sessions across configurations | itself |
| `Listener` | both of them: files, reload task and connections of one TLS listener | `MCListener` |
| `ClientPools` | the pool of one name, looked up, built and rebuilt | `MCClientPools` |
| `RequestTarget` | `parse.rs`, `client_addr` and `joined_headers` as functions | `MCRequestFacts` |
| `CertificateNames` | `x509.rs` as functions | `MCRequestFacts` |
| `RequestFacts` | an issuer, a client, and what the script reads of what they sent | `MCRequestFacts` |
| `…Proofs` | theorems about the module of that name | TLAPS |

A definition named `X_Something` beside a definition `X` is a mutant: `X` as a
plausible bug would have it. No specification uses one; each shows that a
property notices such a bug.

### RequestDispatch

`task` is where the axum task of a request stands: `new` (not sent), `refusing`
and `admitted` (inside `guard`), `reading` (`collect_body`), `job` (awaiting
`try_run`), `reply` (awaiting the channel), `answered`, `gone`. `busy` is the
counter of the `Limit` guard the docs of `admission.rs` show. `job` and `queue`
are siphon's executor as `try_run` uses it, `co` is `drive`, `sink` is
`ResponseSink` with its channel (`open`, a reply, or `dropped`), `deadline`
the `asyncio.timeout` of `drive`. `at` is `index` in `start` and in `drive`;
`calls` and `verdict` are history: how often each stage's function was called
and how it ended.

- `pool` says whether the embedding gave siphon an asyncio pool. Both are
  checked: it is chosen with the kinds of the stages.
- A stage's `kind` is `sync`, `inline` (an `async def` that
  `run_coroutine_inline` finishes on the spot) or `suspend`. Kinds are fixed
  at startup, as `spawn_with` snapshots the handlers.
- `HandOff` is the whole of `hand_off`: the coroutine the stage returned, sink,
  channel and timeout. `HandOffFails` is its error path, with both coroutines
  closed. Without a pool the job stays `running` until `drive` ends
  (`DriveEnds`).
- `Settle` is the end of a stage in `drive`: another stage, `sink.respond`,
  `sink.raised`, or an exception that is no `Exception` and leaves the sink
  dropped.
- `DeadlineRaises` and `DeadlineSwallowed` are the two things a suspended
  stage can do with the cancellation of `asyncio.timeout`. A stage that does
  not suspend is not interrupted: the loop runs timers only between steps.
- `RequestTimeout` and `Disconnect` end the task at any of its awaits and leave
  job and coroutine to run on, as dropping an axum future does.

Headers, bodies, status numbers and the Python objects are abstracted to an
answer's kind and the stage that made it.

`RequestChain` knows nothing of threads, queues and coroutines: stages end in
order, each once; a request is answered at most once, with the decision of a
stage, or by the server before any stage ran, or by the server when no stage
decided, or by the timeout. `RequestDispatch!ChainSpec` says that the detailed
system implements it.

### RouteMatch

One action per way through the loop's body (`Skip`, `Take`, `Pass`) and one
for its end. The request's listener may be unknown, as for a request with no
`ConnectionInfo`.

### Routing

`Routing` extends `RouteMatch` by what comes before the loop. `Register` is a
call of the decorator with arguments as a script may write them: methods in any
case, none, or no methods; listeners missing, as a list (an empty one too) or
as a bare string; values that are no text. `SkipRoute` and `AddRoute` read one
registration each, as `read_routes` and `build_router` do in their order;
`Built` is the check of the listener names. `Arrive` is axum's match of the path
to a template: `Covering` lists, for each path, the templates that match it in
matchit's order of preference, and the one that is taken is the first that
has handlers, whether or not those serve the request's listener. `Match` is a
step of the loop. One request stands for all: the router no longer changes when
requests come.

### Startup

A listener's socket goes `none`, `bound` (or `failed`), `listening` (or
`down`). `Means` gives the ports (socket addresses) a listen value may come to
be bound to: one, or with port 0 any the kernel picks (`Free`). Sockets are bound
with `SO_REUSEADDR`; the model follows Linux, where two such sockets may be bound
to a port they ask for as long as none listens, and a picked port is nobody
else's when it is picked. `at` is the port of each. Strangers are other
processes doing the same. `LoadConfig` is the check of
`HttpConfig::parse` for two listeners of one name, where an address stands for
the name of an entry without one; `UnknownListeners` the check of the names
that routes ask for. `LoadFails` and `ReadFails` stand for every way the
configuration is refused and `spawn_with` exits before it binds.

### TlsReload

Each file is its version; a replacement is one step (a rename) that changes
contents and modification time, to a value the file never had. Every stat and
every read of the listener is a step of its own. A set of files loads when all
are there and the key belongs to the certificate. `MissNext` is a read that
fails though the file is there, as when the process has too many files open;
`missed` remembers that the last load had one.

### Connections

`Accept` is `PlainAcceptor`, or the beginning of `TlsAcceptor`, whose handshake
takes the configuration of the moment in `Begin` and ends in `Verify` or
`Resume`. Both end in `Open`, which reads the session's certificate. `Load` is
one step to a newer configuration, which vouches for any set of clients; number
0 is none yet, so a TLS listener takes nobody before the first. How a
configuration comes about is `TlsReload`'s. rustls keeps sessions in a storage
that belongs to a configuration, and `build_server_config` makes a new one for
each load.

### Listener

`Listener` is `TlsReload` and `Connections` side by side, as they are in
`BoundListener::serve`: the reload task, the operator and the connections
interleave freely and share the `RustlsConfig` alone. `Configure` is the step
they have in common, the end of a load: files that load make a configuration,
and whom it vouches for is what the version of `client_ca` says that was read
with the pair. `ConnectionsStep` has every action of a connection, with
connections taken once the hooks are over. The module is the refinement mapping
too: what it does is what `TlsReload` does and what `Connections` does.

### ClientPools

Rust code asks for a name in the configuration it has (`HttpClient::named`), a
script in that of the first server task (`Client::from_named`): `Resolve` and
`NotConfigured` are both, `SetNamedClients` is a task that starts. The callers
choose their entries, and so does each task. A setting reloads or does not
(`Reloading`).

The TLS files are one version, of which some do not load. `Lock` to `Insert`
is `pooled` under the registry's mutex, `Look` the critical section of
`Pool::client`, `Rebuild` and `Store` the build and the write after it, which
hold no lock. `due` is the elapsed period. Any build may fail though the files
would load (`BuildFails`, `RebuildMisses`).

### RequestTarget, CertificateNames, RequestFacts

The functions have the names of the code. Text of a target is a sequence of
character numbers, a certificate a sequence of octets. The text of a name, which
a script compares subjects by, is the sequence of its octets in UTF-8: numbers,
so that what stands in it can be reasoned about, which it could not in a TLA+
string. Strings in a certificate are valid UTF-8 here, and UTF-16 without
surrogates; `String::from_utf8_lossy` makes the replacement character of all
else, and then different values do read alike. `RequestFacts` puts the other end before them: `Send`
writes a path and a query, escaping any characters it likes and those it must,
`Handshake` reads a certificate an issuer encoded, `request_from_parts` the
rest. So the reference the functions are checked against is what was meant.

## Runs

| Run | Asks | Instance |
|---|---|---|
| `dispatch_safety` | order of stages, no second call, the answer is the decision, no leaked count, a thread held exactly while its coroutine runs, and that `RequestDispatch` implements `RequestChain` | 2 requests, 2 middlewares, limit 1, 1 thread, queue of 1, with and without a pool |
| `dispatch_liveness` | no Python code can keep a client; queued jobs are run; coroutines end | 2 requests, 1 middleware, limit 2, 1 thread, queue of 2, with and without a pool |
| `startup` | hooks before connections, fatal binds, when a name means one socket, a listener for every name a route asks for, listeners settle | 2 listeners, 2 ports, a listen value for each and one with port 0, 2 names of which one is a listen value, 2 hooks |
| `connections` | a certificate was verified by the handshake's configuration, resumed sessions included; who was dropped stays out until a reload takes them back | 1 client, 2 connections at a time, 4 configurations, with and without TLS and `client_ca` |
| `listener` | no mixed pair, only forward, changes are picked up, with reads that fail at any time; and a client dropped from `client_ca` is let in no more, however it happens that its files were replaced while they were read | 3 files, each replaced once, key and `client_ca` removed at any time; 1 client, 1 connection at a time |
| `pools` | one pool per name, of the right settings, whichever task or caller brought them, one rebuild per change, changes are picked up, with builds that fail at any time | 3 callers of which 2 are scripts, 2 tasks, 2 settings of which one reloads, 4 versions, the first and the third do not load |
| `request_facts` | path parameters, query, client address and certificate names are what was meant; two subjects read the same exactly when they have the same contents | some 900 requests and certificates, every way to write them |
| `routing` | a request is served by the function the script registered for it, in the script's words; 404 and 405 are true; a misspelled listener stops the process; `match_route` alone is right | scripts of up to 3 of 15 calls of the decorator, 2 templates of which one covers the other, 3 paths, 3 methods, 2 listeners and 1 that does not exist |

The bounds are small and still hold the cases that matter. Two requests are
enough for one to outlive its client in the executor while the other is
admitted, queued or refused; two middlewares and a handler put the hand-off
first, in the middle and last, with a stage before and after it. A queue of one
and one thread make the queue full. Two listeners are one that fails beside one
that does not, two that share a port, and two that get one each for port 0. Two versions of three files are a
whole rotation with every read between its steps; the certificate itself is not
removed in `listener`, since a set without it loads no more and no less than
one without its key, and `MaxLoads` never binds there (the states are the same
with 6 and with 8). Four configurations are one that vouches for a client, one
that drops it, one that still does not and one that takes it back; in
`Connections` clients know nothing of each other, so one is enough, and two
connections are one whose session the other resumes. Three callers are two that
race and one that comes late; two tasks are one whose clients are dropped.
Three registrations are one that is skipped, or hides another, between two. The
values of `MCRequestFacts` are the characters that mean something where they
stand, alone and next to others, and certificates short and long enough for
lengths of one, two and three octets. Its subjects are pairs that only an escape,
a type, or the kind of a value tells apart, and an INTEGER and a BIT STRING of
the same octets, which nothing does. Theorems below lift most of these bounds.

No run uses symmetry, so invariants and temporal properties share runs.
Deadlock is checked in the dispatch runs, whose only final states are `Quiet`,
and in the pool and connection runs. `Startup`, `Listener`, `Routing` and
`RequestFacts` really stop (a process that exited or serves, a listener whose
files do not load at bind, a router that has its answer, a request that was
read), so their runs do not look for it.

### Disagreements between code and text

Four runs are expected to fail; each states what a document or a comment says.

| Run | Said | What happens |
|---|---|---|
| `dispatch_respond_finding` | `admission.rs:78-80`: `respond` is not called when the handler timed out | the guard is outside the timeout and is shown the 504 |
| `startup_twins_finding` | `config.rs:335-336`: two unnamed entries with one address are left to fail at bind | both are bound; the second fails to listen, after the hooks |
| `tls_startup_finding` | `configuration.md:87`: a changed file is picked up | not if it changed between bind and the first look |
| `pools_race_finding` | `config.rs:219-221`: the pool is built from the files as they are now | two overlapping rebuilds may store in the wrong order; it takes a build slower than `reload_seconds` |

What follows from `startup_twins_finding`: a port conflict within one
configuration does not stop a process with routes. The check of `bind` fails
only where a socket listens already; a conflict of two entries (unnamed, or of
two names) comes up at `listen`, and there it is logged and the rest is served,
with routes restricted to that listener out of reach. That is also less than
`runtime.rs:684-686` says ("surfaces a port conflict at startup") and than
`configuration.md:65-68` means ("instead of running with routes nobody can
reach"). `RoutesHoldEveryBind` and `WantedListenersAreHeld` are therefore about
sockets that were bound, and count one that is `down` since. With port 0 two
unnamed entries listen both, on a port each and under one name, though
`config.rs:332-333` has names exclude "two listeners of one name";
`NameIsOneListener` says that this is the only such case.

Two more statements are not met and have no run, because the step that does not
meet them is one definition:

- `configuration.md:56` and `config.rs:62`: a body over the cap gets 413. One
  without a `Content-Length` fails while it is read and gets 400 "bad body"
  (`runtime.rs:588`; `BodyFails` in `RequestDispatch`).
- `x509.rs:223`: an attribute value is written as RFC 4514 2.4 has it. That has
  `#` and the BER encoding, tag and length included; the code writes the content
  alone, so values of two types with the same content read alike (INTEGER 384 and
  a BIT STRING of seven bits may both be `#0180`). `SubjectTellsItsContents` is an
  equivalence so that it says this too: types and octets are told, tags are
  not. For subjects whose values are strings the text tells all there is.

What the models have and no property forbids, since no text promises
otherwise:

- A stranger may take the port of a listener that was bound before it comes to
  `listen`, after the hooks. The code logs that and serves the rest, routes or
  not; `Startup` has such a listener as `down`. The configuration reference
  speaks of listeners that cannot bind.
- Files replaced between the first build of a pool and its first stamps have
  the stamps of the new and the pool of the old, and nothing looks again. That
  is the window of `tls_startup_finding` in another place;
  `ClientPools!ChangePickedUp` is about changes the stamps have not seen.
- `extract_path_params` trims every leading slash of the path, so a catch-all at
  the top, as in `/{*rest}`, loses the slashes its value begins with; and
  `urldecode` makes a plus sign in a path a space, though RFC 3986 lets a
  client send it as it is. `MCRequestFacts` has no such slash, and its client
  escapes the plus sign. Text that is not ASCII becomes one character per
  octet; the instance has none. A piece of a template that is a parameter with a
  prefix or suffix, as `user_{name}`, which matchit takes, yields no parameter
  (`parse.rs:22-34` looks for whole pieces); templates here have none.
- A load that could not read a file that is there is not tried again until a
  file changes: the stamps are taken before it. The listener keeps serving the
  configuration of before, and the pool its client, after what may have been one
  moment without descriptors. The log has the error.
- A reload leaves open connections alone, also those of a client it dropped.
- The most specific template with handlers takes the path, restricted or not:
  a restricted `/a` hides a `/{x}` that serves everywhere, and `/a` is then 404
  on the other listeners. The guard sees such a request, as that of any route,
  and may answer with its refusal before the route's 404 is known.
- `listeners=[]` takes a function off every listener without a word. `methods`
  as a bare string is read letter by letter, where `listeners` is not.
- `http.Client("api")` at the top level of a script runs before `spawn_with` set
  the names, and is unknown (`NotConfigured`); the caller may come again. The
  names are those of the first task; the trusted proxies, which are set once
  too, are the union of all listeners'.

One more statement of a document is not met, and no run shows it, because the
parts of a set of files are below the grain of `ClientPools`:
`configuration.md:160` lets `clients.<name>.cert` be a combined PEM, and
`client.rs:229` leaves a `cert` without `key` out, so that the client connects
without a certificate.

## Fairness

- `AxumFairness`: tokio polls a ready task, so refusals and route checks
  proceed, and the timer of the timeout layer fires. `ClientAnswered` needs no
  more, and in particular nothing of Python.
- `PythonFairness`, a premise of `JobsDrain` and `CoroutineEnds`: executor
  threads take jobs, code that cannot suspend returns, the asyncio loops run
  ready coroutines and timers. A suspended coroutine need never resume, and
  fairness does not say it does; `DriveReturn` is fair only for stages that
  cannot suspend.
- `Listener`, `TlsReload` and `Startup`: the process's own next step is taken;
  hooks end, the timer fires. The operator, clients and other processes may
  stop at any point; `DropTakesEffect` and `ChangePickedUp` have the operator's
  last state as a premise.
- `Routing` and `Connections` state none: they have no liveness properties.
- `ClientPools!FairSpec`: callers go on sending and the period goes on passing.
  `ChangePickedUp` has `Alone` as a premise: no two rebuilds overlap.
  `pools_race_finding` is what happens without it.
- Every property about changes that are picked up has as a premise that from
  some point on the last load is not one that missed a file (`~missed`,
  `~Missed`). Misses may come in any number before.

## Proofs

All theorems hold for every value of the constants that satisfies the named
assumptions: finitely many requests, natural numbers where counts are meant,
sentinels (`NoOne`, `NotBuilt`, `Unknown`) that are nobody's name. Those about
the dispatch hold with a pool and without one.

**RequestDispatchProofs.**
- `AdmissionIsAccounted`. `AdmissionAccounting` is not inductive alone: the
  invariant `CountInv` says that `busy` is the cardinality of one set
  (`Counted`) and that those inside are at most the limit. `CountStep`
  summarises all actions as staying, entering or leaving; each is then a fact
  about adding one element to a finite set or removing one.
- `TypesHold`. That `busy` is a natural number follows from `CountInv`: it goes
  down only for an element of a finite set.
- `StagesInOrder` and `StagesOnce`. Two invariants. `PlaceInv`: the queue holds
  each queued request once, a job exists only of a submitted request, a
  coroutine only of a started job; without it one request could have two jobs.
  `StageInv`: before `at` every verdict is None, after it nothing was called,
  at it nothing was called while the stage is `Fresh`. `Fresh` is what the
  hand-off must get right: it is false from the call in the job on, until
  `drive` comes to another stage. `StageStep` summarises what any action does
  to the stages, so that job and coroutine are treated alike.
- `AnswersAreDecisions` and `JobsSpanCoroutines`. `RequestInv` says of each
  request, on its own, where its decision is. `ChainInv`: what has been decided
  was decided by the stage at `at`, and nothing while somebody runs that stage.
  `DecisionInv`: the decision is in the job's outcome when no coroutine was
  made, and else in the sink, with an outcome that sends the task there.
  `TaskInv`: the task waits at that place, and a request answered otherwise than
  by the timeout never had a job, or nobody runs it any more. The last is what
  excludes a decision that comes after the server's own answer, and the property
  does not imply it. `OneRequest` and `SameKeeps` reduce a step to the request
  it is about. `JobsSpanCoroutines` is read off `DecisionInv`.
- `DispatchImplementsChain`. `waiting` is mapped to the requests without an
  answer. A stage that is judged, by the job or by `drive`, is `StageEnds`
  (`StageMaps`, from `StageInv`); a task that finishes is `Deliver`, `Reject`,
  `Fail` or `Expire`, and which of them is what `DecisionInv` knows
  (`DecisionMaps`); a task that is dropped is `Abandon`; guard, queue, hand-off,
  wake-ups and deadlines are stutters.

**RoutingProofs.** `MatchHolds` and `RestrictionsHold` from the invariant of the
loop in `match_route`: no route passed so far takes the request, and `onThis`
tells whether one of them exists on the listener. Any number of routes.
`RequestsAreServedAsRegistered` says in the script's terms what `MatchIsRight`
says in the loop's. `RouterInv` is between them: under each template the router
has the proper registrations read so far, in their order, each with its scope,
and none else. `ReadableIsProper` and `ScopeMeaning` are the two facts about
arguments: what the code takes is what was written as text, and a scope is on
the listeners and takes the methods that were named. Any script, templates,
paths and listeners; `Covering` may be any order.

**TlsReloadProofs.** `PairsMatch` and `ReloadsGoForward` from `ReloadInv`: the
disk has the newest version of a file or none, and during a load what was read
so far is missing or no older than what is served. `OnlyForward` is a property
of steps and follows from the invariant and `Serving`, which says that the
configuration changes only by a complete load. Any number of replacements.

**ClientPoolsProofs.** `PoolsAreConfigured` and `PoolsAreBuiltOnce` from
`RegistryInv` (who looks up or builds holds the lock, who builds found no
pool) and `NameInv` (the first task's entry stays, and a script past its lookup
has it); `RebuildsAreSingle` from `StampInv` (stamps only grow, and a caller
rebuilds on stamps that were new when it looked). Any callers and versions.

**StartupProofs.** Theorems from `StartInv`: what each phase has
established (`PhaseInv`) and what a socket's state says of the process
(`SocketInv`), and that sockets have ports their listen values mean, of which
no two listen on one (`PortInv`). `NamesAreSingle` needs all three: names differ
unless two entries are unnamed, those have one listen value, and if both listen
they do so on two ports, which a listen value with a port of its own does not
have. Any listeners, addresses, ports, names and hooks, any other processes.

**ConnectionsProofs.** `PeersAreVerified` from an invariant about the sessions:
a configuration has sessions only of clients it vouches for, and an open
connection is of one that its configuration verified; `LoadedInv` says that
handshakes, sessions and connections are of configurations that were loaded.
`DroppedStayOut` is a property of the future: `Dropped` implies a state
predicate `Shut` that every step keeps unless the client is back
(`DroppedIsShut`, `ShutStays`), and who is back stays so (`BackStays`). Any
clients, connections, reloads.

**ListenerProofs.** Every step of the composition is a step of `TlsReload` or
leaves the files alone (`FilesFollow`), and likewise of `Connections`
(`ConnectionsFollow`). The first gives the composition `ReloadInv` and
`ListenerPairsMatch`; the second is the refinement
`ListenerImplementsConnections`, through which `ListenerPeersAreVerified` comes
from the proofs of the part. `ListenerTrustsWhatItServes` relates both: its
invariant says that the roots in force are those of the `client_ca` served.
`ListenerImplementsTlsReload` is the other refinement, without the fairness.

**RequestFactsProofs.** `ParamsAreReadBack`, `QueryIsReadBack`, `ClientAgrees`
and `CertificateIsReadBack`, from `Reading`: what was sent is a way to write
what was meant, the script is given what `request_from_parts` reads from it, and
the names are those read off what was issued. That reading undoes writing is
then a fact about recursive functions, for texts of any length:
- Induction is over the *set* of numbers of which something holds
  (`Induction`, from the least number that is outside), so that it needs no
  operator as a parameter; `Growing` is the same for sequences. A recursive
  function is a `CHOOSE`, so each is first shown to have a solution
  (`Recursion`, `DecodesExist`, `OneOfEachIsPicked`) and then to have one only
  (`Agreement`, `DecodesSuffix`).
- `SplitJoin`: pieces without a delimiter are split where they were joined, and
  only the last may have one; `JoinSplit`: joining undoes splitting, which a
  catch-all needs.
- `DecodeLiteral`, `DecodeEscape`: what `urldecode` makes of a text is what it
  makes of its front, followed by what it makes of the rest. `SpelledIsRead`:
  a text is read back however its characters were escaped, whatever follows.
- `QueryIsRead` and `ParamsAreRead` join these: no piece has a delimiter of its
  own (`WrittenInKey`, `WrittenInPath`...), hence each is found, and then read.
- `FlattenFirst`, for `ClientAgrees`: the first entry of the first line is the
  first of all.
- `EncodedReads`: whatever follows an encoded element, `element` reads its tag
  and content and leaves what follows; the length may have one to four octets.
  `ElementsAre`: `elements` is what its definition says; it calls itself with
  the rest of its input, so the induction is over lengths (`RightExists`,
  `RightAgree`). `PartsAreRead` joins them: what is encoded one after the other
  is read one after the other.
- `EachReads` lifts this by one level, from how contents are read to how their
  sequence is. It is used for attributes, the parts of a name
  (`AttributesAreRead`, `NameReads`) and extensions (`ExtensionsAreRead`).
- `CertificateHasParts`: a certificate is its version, the six fields, and a
  unique identifier and extensions or not (`Row`, `Trails`), all short enough to
  be read because the whole is; `FieldsAreRead` finds the names in them.
- A tag has one octet, and a certificate is shorter than 2^24 octets, as in a
  TLS handshake; then a length has at most four octets, one fewer than `element`
  takes, and its number does not overflow.

`ContentsAreTold`, in the same module, is about the text of names:
`SubjectTellsItsContents` for every certificate, and any number of subjects a
script knows. By `CertificateIsReadBack` the text is that of the name issued. That
the same contents have the same text is read off the definitions
(`SameNameText`); what remains is that different contents have different texts
(`NameTold`), though a value may contain any character a name is written with.
- The idea throughout is `Told(C, D)`: a word of `C` followed by something of `D`
  is no other word of `C` followed by something else of `D`. It is shown of each
  way to write a piece, from the smallest up. `WordsTold`: sequences of words
  are told when each word is and no end of the text looks like a word (`Coded`);
  `JoinTold`: so are pieces with a separator between them, if what follows a
  piece is the separator or an end.
- `EscapedTold`: the code's escapes are such words, and what may follow them (plus,
  comma, the end) is none of them unescaped. This is where a forgotten escape
  breaks the proof; the mutant of the run forgets the backslash's own.
- `HexTold`: a value that is no string is `#` and pairs of digits; `NotHex`: a
  string's text never begins with `#`, since `escape` marks one in front.
- `DecimalIs`, `DecimalTold`: a number is its digits, without zeros in front,
  and a number is told by what is no digit behind it.
- `ReadTold`, `ArcsTold`: reading an identifier seven bits at a time loses
  nothing, if no number begins with zeros and the last octet ends one;
  `AllArcsTold`: nor does splitting the first number in two, since 0 and 1 leave
  less than 40 to the second. `DottedTold` writes them down.
- `TypeTold`: the short names begin with a letter and the rest with a digit; no
  dotted text is that of an attribute with a short name.
- `AttributeTold`, `PartTold`, `NameTold` put these together with `=`, `+` and `,`;
  `ContentsAreSame` and the lemmas behind it say in terms of `Contents` what is
  told: of a value that is no string the octets, without their tag.

It holds for `DistinguishedNames`, what X.690 and X.501 make of a name: an
identifier ends, no number in it has zeros in front or more than nine octets
(63 bits; `dotted` computes in 64 and drops the bits that do not fit, so two
longer numbers may read alike), and no part is empty.
`SubjectsAssumption` says so of the subjects a script compares with. A certificate
with another subject is read all the same, and `CertificateReadsBack` covers it.

They hold under `ExchangesAssumption`: texts are ASCII; names of a route differ,
a catch-all ends it, no literal is empty or has a slash, as matchit has it; no
parameter is empty, since matchit would not have matched; and the value of a
catch-all at the top of the path does not begin with a slash, which the code
would trim. `IsCertificate` says of a certificate what the last point above
says. Escapes and literals may be mixed in any way the other end may mix them.

Type correctness is a theorem of every module with variables but
`RequestFacts` and `RequestChain`.

Every safety property of the passing runs is a theorem. Only model-checked is
liveness, `ChangePickedUp` and `DropTakesEffect` among it: fairness is out of the
prover's reach. What is bounded in the proofs too is named above: the lengths of
a certificate and of the numbers in an identifier.

## Assumptions about what is outside

- siphon's executor runs each accepted job once, in order, on a bounded number
  of threads, and reports a full queue and a panic as an error; its pool either
  takes a coroutine and runs it once or refuses it.
- A replaced file has a modification time it never had. Files replaced within
  the file system's time granularity, or with restored times, are outside the
  model.
- `stat` of a file that is there succeeds; reading it may fail.
- rustls keeps the sessions of a `ServerConfig` in a storage of its own, resumes
  none of another, and gives a resumed connection the certificates its session
  was made with, without verifying them again. A handshake uses the
  configuration it began with.
- A configuration comes through `HttpConfig::parse`. One built in code skips the
  check of its names.
- matchit prefers the most specific of the templates that match a path, and
  axum answers 404 when none does. A template matchit refuses, or that conflicts
  with another, makes `Router::route` panic; scripts here have none.
- `listen` on a port another socket listens on fails; `bind` with `SO_REUSEADDR`
  to a port that is asked for succeeds as long as nobody listens; for port 0 the
  kernel picks one that no socket is bound to (Linux). Sockets conflict on equal
  ports: that a wildcard address conflicts with those it covers (`0.0.0.0:80`
  and `127.0.0.1:80`) is left out.

## Not modelled

Header and body contents, HTTP/1 and HTTP/2 framing, keep-alive and connection
draining (hyper's), the TLS protocol (rustls's), `http.on_shutdown` (never
called), script reload (handlers are snapshotted once), tests, examples,
benches and deployment files. Of outbound requests: the exchange is reqwest's
(redirects, timeouts, connections), and what `HttpClient::request` does around
it is one attempt whose every failure is returned; a client a script builds
inline is fixed and shared with nobody. Of the configuration: parsing, defaults
and environment variables are the libraries', and DSCP names are a table.

## Plan

In this order.

1. *Done:* the core: `RequestDispatch` with its abstraction, `TlsReload`,
   `ClientPools`, `Startup`, `RouteMatch`.
2. *Done:* `Connections`; listener names in `Startup`; the pure functions of
   `parse.rs` and `x509.rs` in `RequestFacts`.
3. *Done:* route options in `Routing`; connections and reload composed in
   `Listener`; named clients and tasks in `ClientPools`; reads that fail; the
   theorems above.
4. *Done:* the decision and its way to the client, and the refinement of
   `RequestChain`, proved; what is read from a path, a query and the headers,
   proved for texts of any length; what the text of a name tells of it, proved
   for names of any length.
5. *Bounds:* larger instances of the dispatch (a queue of two with two
   middlewares), TLS files replaced more than once.
