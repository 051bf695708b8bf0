# A TLA+ development of CosmoGuard

CosmoGuard (`src/`) is a firewall and cache in front of a Cosmos node. It matches
every request against the rules of a configuration file, answers from a cache where a
rule says so, forwards what is allowed, and lets thousands of WebSocket clients share
a few connections to the node. This directory models it in TLA+: the proxies for HTTP
and gRPC, the JSON-RPC handler, the WebSocket path with its broker and its connections
to the node, and the reload of the configuration under traffic. It checks the models
with TLC on small instances; every safety property and refinement of the passing runs is
also proved with TLAPS, for all values of the constants.

## 1. The system

Paths are under `src/pkg/cosmoguard/` unless they start with another directory.

| component | files | state | operations |
|---|---|---|---|
| WebSocket broker | `ws_broker.go` | `upstreamSubMux`, per-client goroutines | `HandleSubscription` (subscribe, unsubscribe, unsubscribe_all), `HandleRequest`, `onSubscriptionMessage`, `onClientDisconnect` |
| subscription manager | `ws_subscriptions.go`, `ws_utils.go` | `paramToID`, `idToParam`, `clientSubscriptions` | add and remove a subscription, subscribe and unsubscribe a client, look-ups |
| upstream pool | `ws_upstream_pool.go`, `ws_upstream.go` | `subscriptionID`, `subscriptionParam`, `subscriptionConn`, `connIdx`, `subMux` | `MakeRequest`, `Subscribe`, `Unsubscribe`, `getConnection` |
| connection managers | `ws_upstream_cosmos.go`, `ws_upstream_eth.go` | `client`, `respMap`, `subByParam`, `subByID` | `Run`, `makeRequestWithID`, `MakeRequest`, `Subscribe`, `Unsubscribe`, `reSubmitSubscriptions`, `resetAll` |
| WebSocket client wrapper | `ws_jsonrpc_client.go` | connection, `closed`, `onDisconnect` | `ReceiveMsg`, `SendMsg`, `Close` |
| id generator | `../util/id_gen.go` | ids in use | `ID`, `Release` |
| JSON-RPC handler | `jsonrpc_handler.go`, `jsonrpc_utils.go` | rules, `rulesMutex`, cache | `handleHttpSingle`, `handleHttpBatch`, `SetRules` |
| WebSocket proxy | `ws_proxy.go` | rules, `rulesMutex`, the handler's cache | `HandleConnection`, `handleRequest`, `SetRules` |
| response cache | `../cache/` | entries with a TTL | `Set`, `Get`, `Has` in memory or in Redis |
| rules | `rules.go` | compiled globs | `Compile`, `Match` |
| configuration, hot reload | `config.go`, `cosmoguard.go` | `cfg`, watcher | `ReadConfigFromFile`, `WatchConfigFile`, `applyRules`, `Run` |
| HTTP proxy (LCD, RPC, EVM) | `http_proxy.go`, `http_utils.go` | rules, default action, `rulesMutex`, cache | `ServeHTTP` with `allow`, `deny`, `cacheHit`, `cacheMiss`; `SetRules` |
| gRPC proxy | `grpc_proxy.go` | rules, default action, `rulesMutex` | director `Handle`, `SetRules` |
| rest | `options.go`, `version.go`, `src/cmd/`, `../util/hash.go`, `slice.go` | none | options, flags, one-line helpers |

**How they interact.** A client connection is served by one goroutine
(`HandleConnection`): it reads a message, `handleRequest` decides it under the read
lock of the rules, looks in the cache, and hands it to the broker. The broker changes
the subscription manager and calls the pool, which picks a connection manager. A
manager has one goroutine `Run`, the only reader of its connection; a request is sent
by the goroutine that makes it, which then waits on a channel in `respMap` for `Run`.
Notifications go from `Run` by callback to `onSubscriptionMessage`, which starts one
goroutine per subscribed client. `ReceiveMsg` and the end of `HandleConnection` call
`Close`, which calls back into the broker (`onClientDisconnect`). HTTP requests take
the handler's path to the same cache. An `HttpProxy` serves everything that is not an
endpoint of a handler, with a cache of its own; the gRPC proxy decides about a call and
leaves the stream to its library. The watcher replaces the rules of all proxies, one
after the other, each under its write lock.

**What is hard.** Maps in four objects describe the same subscriptions and are updated
one after the other; `upstreamSubMux` covers some of the steps only, and is held during
calls to the node that may fail. Clients disconnect at any time, with a callback that
may run up to three times. Connections break with requests outstanding; answers race
timeouts; `Run` waits for goroutines and goroutines for `Run`. Rules change under
running requests with nested write locks; an HTTP request keeps the read lock until the
node has answered, a batch drops it half way, a gRPC stream outlives it, and a reload
waits for all of them in turn. The
cache is shared by three paths with different ideas of what to store. The list of
hazards, each at its line and with the properties aimed at it, is in `PROJECT.json`.

**What makes each component correct.** Broker and manager: the maps agree outside the
critical section, a client that was told it is subscribed is served (until an Eth
connection is reset), an upstream subscription lives as long as it has clients, requests
end. Connections: a response
reaches the goroutine that asked, every request returns, the manager goes on reading.
JSON-RPC: decisions are those of the rules in force, replies match requests, the cache
holds what a rule wants. HTTP and gRPC proxies: they are firewalls, nothing reaches the
node or comes out of the cache that the rules in force do not allow. Reload: the proxies
end up with the file, although traffic goes on.

## 2. Modules

    SubscriptionService     abstract: what the broker promises
    WsBroker                broker, subscription manager, pool, client goroutines
      WsBrokerProofs
    WsProxy                 WsBroker behind handleRequest, its rules and its cache
      WsProxyProofs         (uses WsBrokerProofs)
    UpstreamConn            one connection manager, its callers, link and node
      UpstreamConnProofs
    JsonRpcHandler          the three JSON-RPC paths, the rule locks, the cache
      JsonRpcHandlerProofs
    AccessRules             what a list of rules says about a request
    Firewall                abstract: what a proxy promises about its rules
    HttpProxy               ServeHTTP, its cache and its lock
      HttpProxyProofs
    GrpcProxy               the director and the streams it lets through
      GrpcProxyProofs
    ProxyRules              the rules that a configuration may have
    ConfigFile              the file and what ReadConfigFromFile makes of it
    ConfigReload            watcher, loadConfig, applyRules
      ConfigReloadProofs
    CosmoGuard              ConfigReload with HttpProxy and GrpcProxy serving requests
      CosmoGuardProofs      (uses the proofs of the three)
    MC*.tla, MC*.cfg        instances for TLC

Definitions named in a comment as a *mutant* are plausible bugs, never used by `Next`;
each property has one that it must detect (`PROJECT.json`, "mutants").

### WsBroker

A client is a process with a program counter: its goroutine serves one request after
another. The steps are the calls of `addSubscription`, `removeSubscription` and
`removeAllSubscriptions` in their order: `AddLock, AddUpstream, AddRegister, AddJoin`;
`RmCheck, RmLeave, RmLock, RmUpstream, RmForget`; `AllLock, (AllLeave, AllEmpty,
AllUpstream, AllForget)*, AllDone`, with an action of its own for each error path
(`...Failed`, `RmNotSubscribed`, `RmStillUsed`). A method of the subscription manager
takes its two locks together and is one step. A pool call is one step which succeeds or
fails: `pool.subMux` is only taken inside `upstreamSubMux`. `Disconnect`, `ConnClose`,
`ConnCloseFailed` and `ConnAbandoned` are the up to three calls of `Close`, of
`ReceiveMsg` (two) and of the deferred call. `Broadcast` is `onSubscriptionMessage`,
`Send` one of its goroutines. `ResetAll` is what the broker does not see of an Eth
reconnect. `Eth` switches between the two kinds: only Eth clients unsubscribe by id.

Abstractions: the pool's round robin is any connection that does not have the query;
an upstream id is drawn from those not in use (by the generator from 2^31, by a node
as a random id); a reply that cannot be written is followed by the disconnect.

`told` is the set of queries a client got the reply "subscribed" for and has not since
asked to leave; `failed` the ids for which the node did not confirm an unsubscribe;
`lost` the ids of the pool that an Eth connection has forgotten by `resetAll`. The code
then re-submits the subscriptions of the map it has just emptied, that is, none
(`ws_upstream_eth.go:257-279`): the node has nothing open and the connection forwards
nothing, while pool, broker and clients know nothing of it. `ToldIsServed` and
`PoolConnAgree` name this loss and claim that it is the only one; Cosmos loses nothing.

### SubscriptionService

Queries that are open upstream and their holders; a client joins only an open query,
and a query is shut down only when it has no holder. `ImplementsService` maps `open` to
the queries the pool has an id for and `holders` to the clients of the broker's id.

### UpstreamConn

`Run` (variable `run`: connect, reset, resubmit, read, deliver) and the goroutines in
`makeRequestWithID` (`step`: put, send, sent, select, then got or expired). Everyone
who subscribes or unsubscribes does so under `pool.subMux` and is the one process
`Sub`; `Run` is itself in `makeRequestWithID` while it re-submits (`submitting`). A
channel is named after the goroutine that made it; when the goroutine returns, what is
left of it is renamed to `Orphan`, for nobody receives from it any more. `Deliver` is
the rendezvous on the unbuffered channel and the `close` after it. `Select` reads
`respMap` a second time, as the code does. `crashed` records the two panics the code can
reach: a send on a closed channel, and the WebSocket library's limit of reads on a
failed connection. External: the link (up, ended normally, ended with a close code
`ReceiveMsg` does not expect), the node (answers in any order, refuses, ignores,
notifies) and the messages between. The two managers differ where `Eth` is mentioned.

### JsonRpcHandler

A worker serves a single HTTP request, a batch, or a WebSocket message. `RLock, Decide,
Has, Get, Upstream, Store, Reply` follow the handlers; `HoldsRead` says where the read
lock is held: to the end for single and WebSocket requests, until forwarding for a
batch. `SetRules, SetHandler, SetWebSocket` are the nested write locks; a waiting
writer keeps new readers out, as `sync.RWMutex` does. A *key* stands for method and
parameters, a rule for the set of keys it matches. Differences between the paths are
kept: which rules end the search, when the cache is asked, whether `enable` is looked
at, what an error from the cache does. Upstream is external: the node answers pending
requests in their order, or the reply is not JSON-RPC (a message with nothing in it,
as `ParseJsonRpcMessage` makes of it), or it breaks off. `Expire` ends any entry at any
time.

Handlers may panic, and net/http recovers. `UpstreamPanics`: the reverse proxy aborts
when the node's answer breaks off, and a single request whose answer is an array has
nothing to look at (`jsonrpc_handler.go:334`). `DecidePanics`: `Match` reads past the end
of short params (`rules.go:163`), or an element of a batch is null. A single request gives
its lock back by a deferred call (state "aborted"); a batch that panics between lines 378
and 486 has no such call and holds the read lock for ever ("leaked"). `Stuck` is what is
left when a `SetRules` waits for that lock and every goroutine waits behind it.

### AccessRules and ProxyRules

The loop over the rules that `ServeHTTP`, `Handle` and `handleRequest` have in common:
the first rule that matches and whose action is `allow` or `deny` decides, else the
default action. (`JsonRpcHandler` has an operator of its own, for a batch treats unknown
actions in another way.) A rule stands for the set of keys that it matches.
`ProxyRules` declares the rules of a configuration for the reader and the proxies.

### Firewall

Requests are asked for, decided by what is allowed at that moment, and end; what is
allowed changes. With `Held` it does not change while a request that was decided is being
served. `HttpProxy` implements it with `Held`, `GrpcProxy` without: its lock is released
when the director returns.

### HttpProxy and GrpcProxy

One process per request. `RLock, MatchRule, Default, Has, CacheHit, Forward, Store,
Return` follow `ServeHTTP`; the list and the default action are read at two places, and
`Readers` says how long the lock is held: to the end. `CacheHit` reads the cache a second
time and writes nothing if the entry has gone (net/http then sends an empty 200).
`ForwardAborted` is the panic of the reverse proxy when the node's answer breaks off.
`Waiting` says where a request depends on its node or its client, for no deadline is set.
Requests to an endpoint go to its handler, and no rule of this proxy is asked. In
`GrpcProxy` the decision is `RLock, MatchRule, Default`, reflection is always forwarded,
and a stream lasts as long as its two ends like. `SetRules` is two steps in both: from
the first on a waiting writer keeps new readers out; the second, `Install`, has the lock.

### WsProxy

Subscription requests on their whole way: `handleRequest` asks rules and cache, and
calls `HandleSubscription` of `WsBroker` (`Broker == INSTANCE WsBroker`), all under the
read lock of the rules. A client is at a `stage` of handleRequest and, inside the
broker, at a `pc`. Responses are written under that lock too (`Written`, `Reply`,
`ReplyFails`), and a write has no deadline: the stages "write" and "reply" may last for
ever. `Panics` is a panic of `Match`, after which the deferred calls unlock the rules and
close the client. `unsubscribe_all` that fails upstream returns an error and no response
is sent. Replies are cached like any other: a cached "subscribed" is sent without asking
the broker. `knows` is what the broker's last answer told a client about a query; it is
unknown while the client is waiting, after a refusal, and after an answer from the cache.
Connections are Cosmos ones, notifications are left to `WsBroker`: neither changes what a
request reads. An empty list of params, on which `getSubscriptionParam` panics, ends the
connection like `Disconnect`.

### ConfigFile and ConfigReload

The goroutine of `Run`: `LoadConfig`, `ApplyRules` once per proxy, `Watch`, `Event`.
`ReadConfigFromFile` sorts first (`sort.Slice`: equal priorities in any order) and sets
defaults last, of the rules' priorities and of the default action, as the code does. EVM
proxies exist if the first file read had `enableEvm`. `WatchFails` is an error of the
watcher, when it is made or later: `Run` returns it, and the process ends. The editor
writes the file at once or in two steps. One list of rules and one default action stand
for those of all sections, which are read alike.

### CosmoGuard

`ConfigReload`, `HttpProxy` for LCD and `GrpcProxy` in one state space. `ApplyRules` of
these two sections is two steps: `SetRules` is called (`CallLcd`, `CallGrpc`) and returns
when it has got the lock (`ReturnLcd`, `ReturnGrpc`), together with `Install` of the
proxy; the other sections get their rules in one step (`ApplyOthers`), which is not fair:
a request of theirs that waits for ever, or a lock that a batch has leaked, keeps it from
happening. Traffic starts after the first
`applyRules` and ends when `Run` returns, for main then ends the process.

## 3. Runs

Passing runs:

| run | instance | shows |
|---|---|---|
| `broker_cosmos` | 3 clients, 1 query, 2 ids, 2 connections, Cosmos | all maps agree, subscribers are served, idle subscriptions are accounted for, closed clients forgotten; implements `SubscriptionService` |
| `broker_eth` | 2 clients, 2 queries, 2 ids, 2 connections, Eth | subscribers lose their service by `resetAll` and by nothing else, and the loss is what pool and manager differ in; leftovers of closed clients with unsubscribe by id; a notification reaches only clients of its query when ids are reused |
| `ws_session` | 2 clients, 1 query, 1 id, 2 rule sets, cache, fairness | what the broker has answered stays true under rules, cache, failures and the other client; every request, every `Close` and every `SetRules` ends, if clients read what is written to them |
| `conn_cosmos` | 1 caller, `Sub`, `Run`, 4 ids | no shared channel, dead leftovers, manager and pool agree over reconnects |
| `conn_eth` | 1 caller, `Sub`, `Run`, 2 request ids, 1 node id, fairness | also no send on a closed channel, requests end, the manager reads again after a reconnect |
| `rpc` | 2 workers, 2 keys, batches of up to 2, 2 rule sets | decisions, cache contents and replies under reloads |
| `rpc_live` | 2 workers, 1 key, failing cache, fairness | single requests are answered or break off, and `SetRules` returns, if no request waits for ever for node or client and no batch has panicked |
| `guard` | 3 configurations, 1 save in up to two writes, 1 HTTP and 1 gRPC request at a time, fairness | the proxies settle on the file, and the LCD proxy then serves only what the file allows; a change is applied unless a request keeps its lock for ever; decisions and cache follow the rules installed; both proxies implement `Firewall` |

Runs that end in a counterexample; each is a finding in `PROJECT.json`:

| run | what TLC finds |
|---|---|
| `conn_resubmit` | A Cosmos manager with a subscription never reads again after a reconnect: `Run` waits in `reSubmitSubscriptions` for a response that only `Run` could read, times out, closes the new connection, and starts over. |
| `rpc_leak` | A batch panics while its requests are looked at (a null element, or params shorter than a rule's): its read lock is never given back (`jsonrpc_handler.go:378` and 486), and the next `SetRules` waits for ever, all requests of the handler behind it. |
| `reload_priority` | A rule without priority is sorted as 0 and becomes 1000 afterwards: it stands before a rule with priority 10. |
| `reload_running` | A save during which the file is absent or unreadable for a moment ends the process. |

**Bounds.** Three clients are one more than a race for the last place in a subscription
needs: one leaves, one joins, and one that closes. Two ids suffice for a query to get
another id than before, and in `broker_eth` for an id to move from one query to another.
`MaxSending` bounds the goroutines that have not sent yet; `Broadcast` only reads the
subscription maps, so more of them reach no further map states. In `conn_*`, one caller
and `Sub` are enough for two requests outstanding at once with `Run` between them;
`MaxInbox = 1` lets the node be one message ahead of `Run`, and 4 ids (Cosmos ids stay
in use as long as their subscription) or 2 (Eth) let requests overlap with leftovers of
earlier ones. Batches of two have every combination of denied, cached and pending around
a position; two rule sets that disagree on a key are what a reload needs; a third worker
would only repeat one of the three paths. In `guard`, a save in two writes changes the
file twice, and what the first leaves may itself be a configuration: the second write
falls into each phase of the reload that the first has started, and both into the first
start. One HTTP goroutine serves one request after another: `SetRules` waits for the
one, and the next arrives while it waits. Two saves with traffic are beyond TLC.
`ws_session` has one id, for what happens to ids is the business of the `broker_*` runs;
two clients are what waiting for each other takes. Symmetry is used for safety only.

**Deadlock** is checked in every run. `Terminated` (all connections of clients have
ended), `Stopped` (the process has ended or the editor has stopped), `Stuck` (a leaked
lock, see `JsonRpcHandler`) and the stutter after a crash are the only ways to stop.

**Fairness** and why the code justifies it:

- Goroutines that can run do (weak fairness on the steps of each).
- `upstreamSubMux`: strong fairness on the steps that take it. A Go mutex is handed to
  the first in the queue once it has waited 1 ms. (`WsProxy` states both as strong
  fairness of a client's goroutine: its other steps stay enabled until they are taken.)
- `rulesMutex`: strong fairness on the steps that take the read lock. `Unlock` of a
  `sync.RWMutex` lets all readers in that waited, before the next writer.
- A request to the node ends: `makeRequestWithID` has a timeout. In `UpstreamConn` only
  that is assumed: nothing on the node's part is fair, and `Connect` stands for the
  attempt that succeeds (`Run` dials every 5 s).
- Nothing is assumed of what no deadline bounds: the node's answer to an HTTP request,
  and every write to a client. Where a lock depends on them, the property says so as a
  hypothesis: infinitely often no client is being written to (`[]<>~Writing(c)`, in
  `SetRulesReturns` and, of the client itself, in `RequestsEnd` of `WsProxy`), no request
  waits for node or client (`[]<>~Waiting(w)`, in `SingleAnswered` and `ChangesApply`,
  and `ReadersMoveOn` in `SetRulesReturns` of `JsonRpcHandler`). A client that does not
  read keeps the read lock, and with it `SetRules` and the reload of all proxies: the
  properties do not deny it. Writes of the reverse proxy and the cached answers of the
  HTTP proxy are covered by `Waiting`.
- `CosmoGuard`: the editor ends what it has begun. `SetRules` of the proxies whose
  requests are not in the model has no fairness, and `ChangesApply` assumes that each of
  them returns (`[]<>~OthersTurn`); that it need not is `rpc_leak`. Nothing is assumed of
  gRPC streams: no lock waits for them.

## 4. Proofs

Each component has a module of proofs, which TLAPS checks to the last leaf. They hold
for all sets of clients, goroutines, queries, ids, connections, keys and rules, for
batches of any length and files of any contents. The assumptions are those that the
modules declare, and TLC evaluates them in every run: the markers of absent values are
not elements, bounds are numbers, rule sets and files have their types, and the set of
rules has with each rule the one with the default priority.

The properties of a passing run that no theorem states are the liveness properties.

| theorem | states | run |
|---|---|---|
| **WsBrokerProofs** `TypeCorrect`, `MapsAgree`, `PoolAgrees`, `ConnectionsAgree` | `[]TypeOK`, `[]IndexConsistent`, `[]BrokerPoolAgree`, `[]PoolConnAgree` | `broker_cosmos`, `broker_eth` |
| `SubscribedIsServed`, `IdleIsAccounted`, `ClosedIsForgotten` | `[]ToldIsServed`, `[]NoIdleUpstream`, `[]ClosedHoldsLeftovers` | same |
| `BroadcastIsExact`, `ServiceImplemented` | `BroadcastReachesSubscribers`, `ImplementsService` | same |
| **WsProxyProofs** `BrokerImplemented` | the broker behind the proxy is a `WsBroker` | |
| `TypeCorrect`, `AnswersTrue` | `[]TypeOK`, `[]AnswersAreTrue` | `ws_session` |
| **UpstreamConnProofs** `TypeCorrect`, `ConnectionMatchesPool`, `ReceiverIsCaller` | `[]TypeOK`, `[]ConnMatchesPool`, `[]NoSharedChannel` | `conn_cosmos`, `conn_eth` |
| `LeftoversNeverAnswered`, `ClosedChannelUnused` | `[]LeftoversAreDead`, `[]NoClosedSend` | same |
| **JsonRpcHandlerProofs** `TypeCorrect`, `DecisionsStand`, `CacheWanted`, `ResponsesInPlace` | `[]TypeOK`, `[]DecisionsInForce`, `[]CachedIsWanted`, `[]RepliesMatch` | `rpc` |
| **HttpProxyProofs** `DecidedUnderRules`, `CacheFollowsRules`, `FirewallImplemented` | the three properties for the proxy alone | |
| **GrpcProxyProofs** `FirewallImplemented` | the refinement for the proxy alone | |
| **ConfigReloadProofs** `SettlesOnFile` | the property for the reload alone | |
| **CosmoGuardProofs** `ReloadImplemented`, `LcdImplemented`, `GrpcImplemented` | the composition implements each of its parts | |
| `TypeCorrect`, `SettlesOnFile`, `DecidedUnderRules`, `SettledPasses` | `[]TypeOK`, `[]SettledOnFile`, `[]ServedUnderRules`, `[]SettledTraffic` | `guard` |
| `CacheFollowsRules`, `LcdFirewall`, `GrpcFirewall` | `StoredAsRuled`, `LcdImplementsFirewall`, `GrpcImplementsFirewall` | `guard` |

Every component's module also has `Invariance`, `Spec => []IndInv`. Few of the
properties are inductive as they stand; what `IndInv` adds is what the code relies on
without saying so. TLC has checked each of them on small instances as well.

**WsBroker.** That a subscriber keeps its place depends on the goroutine in `RmUpstream`
having seen the subscription empty *and* nobody having joined since, which depends on
the mutex, which depends on where goroutines are. `IndInv` adds `LocalTypes` (locals are
assigned where they are used), `MutexOwner` (a goroutine is in the critical section
exactly if it owns the mutex), `OwnerKnows` (what the owner has read is still true) and
`Leaving` (a client on its way out was not told otherwise, and `todo` has all that is
left of it). One lemma per part shows that `[Next]_vars` preserves it. `AnswerIsFresh`
is of interest by itself: the pool's shortcut for a query it already has is never taken
from the broker, because the broker asks under the mutex only for what it does not have.
The refinement maps `AddUpstream` to `Open`, `AddJoin` to `Join`, `RmLeave` and
`AllLeave` to `Leave` (or a stutter), `RmUpstream` and `AllUpstream` to `ShutDown`,
and every other step to a stutter. `OthersStay` and `OwnStep` say what one client's step
may do to the maps as seen by another, and what each own step does; `WsProxyProofs`
is built on them.

**WsProxy.** `BrokerP == INSTANCE WsBrokerProofs` brings the broker's invariant and
lemmas; every step of the composition is a step of that broker or none
(`BrokerImplemented`). On top of it `Place` says that handleRequest, the read loop and
the broker are in step about each client's goroutine, `Progress` what has been done so
far of what the request asked, and `Knowledge` that the client knows nothing about what
it is waiting for, and that what it knows otherwise is true. `AnswersTrue` needs the
broker's `ToldIsServed` and that no other client's step takes one out of a subscription.

**UpstreamConn.** The steps are put into eight kinds by what they do to ids, channels
and messages (`Kinds`: a request begins, ends with an outcome, or goes on; Run delivers
or does something else; the link is lost; the node speaks or ignores), and each part of
`IndInv` is shown for the kinds. `Unique` keeps ids apart, including that of a
subscription being re-submitted, which only Run uses; `Channels` ties an entry of
`respMap` to the goroutine of its request; `Unsent` says that neither the node nor a
message knows an id before it is sent. Both rest on the draw: `NewID` is the generator's
check of the ids it has given out, and the assumption that a draw from 2^31 does not
hit, by chance, an id that has been given back while the node or a message still uses
it. `RunPlace` has the fact behind the finding of `conn_resubmit`: Run never gets a
response to its own re-submission. `OneResponse` is the argument for the Eth manager, by
counting: a request is pending, answered in a message, being delivered, or done, and
only one of these; a second send on its channel would take a second response. Cosmos has
no such argument, because a notification has the id of its request; there the model,
like the code, can reach the panic.

**JsonRpcHandler.** `Serving` is said of each goroutine: its locals are there where they
are used, its decision is that of the rules whose lock it holds, an item to be stored is
wanted by the rules it was decided under, and responses are at the places of their
requests. The lemmas `RankType`, `RankIncreases` and `RankOnto` (numbering the members
of a finite set) are what `Set`, `GetFinal` and the node's answer to a batch rest on;
that the reply has the responses in order is proved from them for every length.

**HttpProxy, GrpcProxy.** The invariant is what a goroutine has found out, said of the
rules that are installed, for as long as it holds the read lock; `Install`, the only
step that changes them, waits for all of these. `LeastIndex` says that the first matching
rule is the same however it is looked for. In the refinement, `MatchRule` and `Default`
(and reflection, in gRPC) are `Decide`, `Return` is `End`, `Install` is `Change`; in gRPC
a stream may still be open then, and `Held` is false.

**ConfigReload.** `Handing` says that a proxy has the rules of `cfg` or is on the list of
those to be given them, `CfgCurrent` that `cfg` is what is in the file unless a
notification is pending or a change was missed before `watcher.Add`. Nothing is proved of
the order of the rules: that they are in the order of their priorities is false, which is
the finding of `reload_priority`.

**CosmoGuard.** It is not proved from an invariant of its own: the composition is shown
to implement each part (`CallLcd` and `CallGrpc` only begin a `SetRules`, `ReturnLcd` and
`ReturnGrpc` are the part's `Install` and the reload's `ApplyRules` at once), and the
theorems of the parts, instantiated (`ReloadP`, `LcdP`, `GrpcP`), carry over.
`SettledPasses` takes two parts together: what the reload says of the installed rules,
and what the proxy says of requests under them.

Only model-checked: the liveness properties `RequestsEnd`, `SetRulesReturns`,
`ReadsAgain`, `SingleAnswered` and `ChangesApply`, because the prover has no rules for
fairness and ENABLED that would carry them. The properties of the runs that expect a
violation are false and have no theorem.

## 5. What is not modelled

- Data races on Go maps: `Run` reads `respMap` and `subByID` without the locks that
  writers take. Map accesses are atomic steps in the model; a runtime that detects the
  race ends the process.
- The id generator's window between `Load` and `Store`, and the wrap of `connIdx` after
  2^32 requests, where `getConnection` indexes with -1. Both are listed hazards.
- Reloads with requests in the JSON-RPC handlers and in more than one HTTP proxy:
  `CosmoGuard` has traffic in the first two of the proxies, `JsonRpcHandler` and
  `WsProxy` have `SetRules` of their own against theirs.
- The opposite order of two notifications to one client, for which nothing is promised.
- A response is cached under a hash, of method, URL and body set side by side without
  separators (`getRequestHash`) or of a JSON-RPC message (`Hash`): the models use the
  key itself, that is, they assume that two requests with different keys do not share a
  hash.
- A write of CosmoGuard to the node that blocks. Writes to clients may block in
  `WsProxy`, `JsonRpcHandler` and `HttpProxy`; the goroutines of notifications hold no
  lock.
- The default of `cache.enable`: `CONFIG.md:102` says `false`, and the single and
  WebSocket paths of JSON-RPC cache whatever a rule with a cache section answers
  (`jsonrpc_handler.go:184`, `ws_proxy.go:189`). The model has what the code does, and
  `CachedIsWanted` takes a cache section as the wish to cache. The same holds for the
  default of `action` (`CONFIG.md:98`): a rule without one is skipped.
- Glob compilation, comparison of parameters, JSON, framing, hashing, TTL values,
  metrics, logging: no property is about them. Command line and options have no
  behaviour beyond set-up.

## 6. Plan

In order of importance:

1. Theorems that go beyond the runs: that the broker's answer and the cache together
   keep what `WsProxy` promises with notifications and Eth connections switched on, and
   that a Cosmos manager that never gets a notification before its caller has returned
   does not panic either (`NoClosedSend` under that hypothesis).
2. Composition of `WsBroker` with the connection managers' interface that
   `UpstreamConn` implements (what a pool call may answer and leave behind), as a
   refinement proved from `ConnectionMatchesPool`.
3. Small modules for the id generator (two goroutines between `Load` and `Store`) and
   the round robin with a counter of scaled width.
