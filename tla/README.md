# A TLA+ model of godiam

godiam is a Diameter (RFC 6733) stack in Go: a peer state machine, a server that keeps a table of peers, a
router that relays between them, and extensions that hook into the router, some of which make it a Diameter
Edge Agent (DEA). This directory models its concurrent core and the decisions of the edge agent, checks them
with TLC on small instances and proves the central invariants with TLAPS for every value of the constants.

    cd tla
    tlc -workers 2 -config peer.cfg MCPeer                   # any run of PROJECT.json
    tlapm PeerFSM_proofs.tla                                 # any *_proofs module

`PROJECT.json` lists the components, the runs, the mutants that show each property can fail, the map from
definitions to source lines, the findings, the hazards and the theorems. A definition `MutX` is the mutant of
`X`: a plausible mistake in the code, used by no specification.

## 1. Inventory

| component | state | operations | interacts with | what is hard |
|---|---|---|---|---|
| Peer state machine `core/peer/state_machine.go`, `peer.go`, `cer_cea.go`, `watchdog.go` | `state`, `iConn`, `rConn`, `pendingCER`, two timers, `eventChan` | one handler per state; `Start`, `StartWithConnection`, `InjectRConnCER`, `Disconnect`, `Stop` | dialers, read loops, writers and timers post events; `OnStateChange`, `OnMessage` call back into the server | simultaneous connect, late dials, stale events, timers that have fired, a full channel |
| Send path `core/peer/writer.go`, `Peer.Send`, `writeLoop` | lock-free ring, token channel, `started`/`done`, `sendChan`, `connDone` | `Send`, `Push`, `PopBatch`, `flushBatch`, `Start`, `Stop` | producers are router goroutines; cycles begin and end with the state machine | lock-free claims, wrap of `head-tail`, lost wake-ups, writers that outlive their connection |
| Pending requests `peer.go`, `processInboundMessage` | `pending` by hop-by-hop ID | `trackPending`, `popPending`, `clearPending` | router, send path | answers after a reconnect, untracked requests |
| Server and peer table `core/server/server.go` | `peers` by identity, listeners | `acceptLoop`, `handleConnection`, `connectToPeer`, callbacks, `Stop`, `GetPeer`, `Peers` | peers, router lookup, edge registry, extensions | several objects of one identity, `Stop` racing with handshakes |
| Admission `core/server/zones.go` | none | `admitPeer`, `allowedByZonePolicy`, certificate identity | accept policy of an inbound peer | a decision over zone, partner, realm and binding |
| Edge registry and configuration `core/edge/registry.go`, `core/config/edge.go` | static indexes, `boundPeers` | defaults, validation, `BindPeer`, `UnbindPeer`, lookups | admission, `dea_*` extensions | bindings that come and go under the messages |
| Router and relay `core/routing/router.go` | routes, handlers, `prevHopByHop` | `RouteIn`, `RouteOutWithExclusion`, `dispatch`, registration, `FailoverPeer`, sweep | peers, extensions | answers racing with failed sends, exclusion and retry, leaks |
| Sessions `core/session` | maps by ID and by application, timers | `Register`, `Remove`, `SetTimeout`, `RefreshTimeout`, `Terminate`, `CloseAll` | applications | timer against refresh and terminate, callbacks under a lock |
| Extension manager `core/extension`, requests of `admin_api` | state per extension, `initOrder` | `Enable`, `Disable`, restart, `Reconfigure`, `StopAll` | router registration, `Server.Stop` | lock released around the extension's own code |
| Topology hiding `dea_topohide` | pseudonyms, forward index, LRU lists | hide, restore; `PutPseudonym`, `Pseudonym`, `RealHost`, sweep, eviction | router handlers | indexes and totals that must agree; partners found through bindings that may be gone |
| Rate limiting `dea_ratelimit` | token buckets in shards | `Allow`, `enforce`, sweep | router handler | refill with a clock read before the lock |
| Session binding `rt_session_bind` | binding per session | `Get`, `Set`, `Touch`, `Cleanup` | router handlers | three critical sections per attempt; eviction and expiry |
| Screening `dea_screening`, edge routing `dea_route` | none | one decision per message | router, registry | rule order, whose policy applies, foreign candidates |
| Scoring `rt_ereg`, `rt_load_balance`, `rt_randomize`, `rt_ignore_dh` | none | one rewriting of the candidates per message | router | the choice is made anew in every round of the exclusion loop |
| Codec, dictionary, transport, log, applications, commands | none that is shared | encoding, parsing, I/O | all | boundaries of lengths |

What makes each correct:

- *Peer*: every wait is bounded by a timer; an election has the CER it will answer; one connection survives it
  and the open state uses that one; a lost connection is noticed; a persistent peer comes back; `Stop` returns.
- *Send path*: no accepted message is overwritten, reordered, handed over twice or forgotten; `Stop` returns.
- *Table*: an entry is a live peer of that identity; stopping stops everyone.
- *Router*: an answer goes back to where its request came from, unless its way back was lost; a request is put on
  one connection at most; RouteIn ends and forgets no request that is not for this node.
- *Sessions*: the two indexes agree, each registration is reported closed once, calls return, timers end sessions.
- *Extensions*: `Init` and `Stop` alternate, `Stop` runs after the last handler, shutdown is in reverse order.
- *Stores*: indexes agree, caps hold, one partner's or session's load does not cost another what it is
  entitled to.
- *Edge agent*: a request is judged by the partner its connection was admitted as; it reaches no foreign partner;
  what a partner receives, request or answer, does not name internal hosts.

## 2. Modules

| module | models | lines of TLA+ come from |
|---|---|---|
| `PeerFSM` | one `Peer`, its goroutines and the remote end | `state_machine.go`, `peer.go`, `cer_cea.go`, `watchdog.go` |
| `WriterQueue` | the send path of one `Peer` | `writer.go`, `Peer.Send`, `writeLoop` |
| `BoundedFifo` | what the ring promises | the abstract specification `WriterQueue` refines |
| `PeerTable` | the server's table, the callbacks, `Server.Stop` | `server.go`, `registry.go` |
| `RouteTable` | candidates, scores and the handlers that change them, as operators | `router.go`, `setupRouting`, `rt_ereg`, `rt_load_balance`, `rt_randomize` |
| `RelayRouter` | `RouteIn` on several goroutines, relay transactions, pending requests | `router.go`, `peer.go`, `state_machine.go`, `server.go`, `rt_ignore_dh` |
| `SessionManager` | sessions, their manager, timers and callbacks | `session.go`, `manager.go` |
| `ExtensionManager` | the manager under admin requests, shutdown and traffic | `extension/manager.go`, `admin_api.go`, handler registration in `router.go` |
| `Clock` | the wall clock the three stores read | `time.Now` |
| `PseudonymStore`, `RateLimiter`, `SessionBind` | the stores of three extensions and their callers | `dea_topohide`, `dea_ratelimit`, `rt_session_bind` |
| `EdgeRegistry` | names and realms, configuration defaults and validation, lookups | `config/edge.go`, `edge/registry.go` |
| `EdgePolicy` | admission, screening, partner routing and hiding, as operators | `zones.go`, `dea_screening`, `dea_route`, `dea_topohide` |
| `EdgeAgent` | the composition: connections and one request or answer through all of these | `server.go`, `router.go` and the `dea_*` handlers |
| `MC*` | instances and symmetry sets for TLC | |
| `*_proofs` | theorems and their lemmas | |

`RelayRouter` and `EdgeAgent` both build on `RouteTable`; `EdgeAgent` also on `EdgePolicy`, which builds on
`EdgeRegistry`. `MCExtensions` puts the extension manager beside the three stores, `MCServer` the session
manager beside the peer table, `MCPeer` the ring beside the state machine of its peer.

**PeerFSM.** A handler runs on the state machine goroutine and is one action, named after its state and event;
the two open states share theirs (`OpenRcv(s)`, `OpenStop(s)`, ...), since the code repeats them per side. The
one place where a handler waits for another goroutine, the send of Win-Election in `performElection`, is the
separate action `PostWinElection` with `pc = "elect"` in between. Everything that feeds `eventChan` is a
counter of goroutines at a given point (`dialing`, `acks`, `rdTop`, `rdOn`, `rdPost`, `timeouts`, `starts`), so
a Timeout or a Peer-Disc can be in flight while the machine goes on. Messages are reduced to what
`classifyMessageI/R` tell apart; whether `processCER` and `processCEA` accept is a choice. A connection is up,
dead (the remote left) or closed; a write to a dead one may or may not fail.

**WriterQueue.** Every load, store and compare-and-swap on a shared field is one action. The counters are
natural numbers, but the fullness test `Full` keeps the behaviour of `uint64`: a head older than the tail counts
as full. `head & mask` is `head % ringBufferSize`. Connection cycles come and go beneath the producers
(`LinkUp`, `LinkDown`), each with a `writeLoop` that starts and stops the one writer. `Pop` and `IsEmpty` are
called only by tests and are left out.

**PeerTable.** A `Peer` is reduced to the states its callback and `Server.Stop` distinguish. `OnStateChange`
runs on the peer's goroutine and takes two locks one after the other, so it is two actions (`CallbackDelete`,
`CallbackUnbind`), and nothing else of that peer happens before they are over. Whether a peer is admitted is a
free choice (`EdgePolicy` has the decision). `PeerFSM` is the detailed form of one object; the two meet in
`setState`.

**RelayRouter.** A peer's goroutine handles one message at a time and `job[o]` is where it is; each access to
shared state (`prevHopByHop`, the hop-by-hop counter, the pending table, `Send`, the server's table) is a
step, so two goroutines interleave as in the code. Every relayed request keeps its identifiers: the pending
entry, the transaction and the wire hold what the code holds, and remote nodes answer with right or wrong
ones, at any time and any number of times, or send the request back. An answer whose transaction or previous
hop is gone is routed on by its application like a request (`LoadTxn`, `SendBack`, then `Choice` and
`SendOk`); `strayed` and `severed` remember which answers were, and which requests had lost their way back.
The routing extensions are operators of `RouteTable` applied to the candidates in each round of the exclusion
loop; a random choice or an equal load is a set of outcomes.

**SessionManager.** A locked section is one action. `Terminate` runs the callbacks it copied under the lock
after releasing it; what is left of a call is in `call[t]`. `time.AfterFunc` is a timer that is running, has
fired and waits for the session's lock (`fired`), or is stopped; `Stop` of a timer does not reach a fired one.

**ExtensionManager.** `Init`, `Reconfigure` and `Stop` of an extension are steps between two critical sections.
RouteIn holds the router's read lock over all of its handlers, which is `Reading`; registering and removing
handlers needs it to be free.

**Stores.** An operation under the store's lock is one action; where the caller does two of them (`mask`:
lookup, then insertion; an attempt of `rt_session_bind`: lookup, touch, bind; `Allow`: clock, then bucket) it is
several. Tokens are counted in parts of a token, time in ticks. Map iteration order is a free choice.

**EdgeAgent.** One message is in RouteIn at a time, while connections are accepted, listed, lost and unbound
between its steps (the interleavings of RouteIn itself are `RelayRouter`'s). An answer is hidden for the
previous hop that `RelayOrigin` finds, and sent to the one that `LoadAndDelete` finds a moment later: either
look may find the transaction swept (`Found`). Without a previous hop the answer, masked or not, goes through
the routing of a request. A name is the sequence of its labels from the root, so realm membership and
wildcards are computed and not assumed. `Config` is what `ApplyEdgeDefaults` makes of the raw configurations
and `ValidateEdge` lets through. `PseudonymStore` is the detailed form of `store`, which here may forget an
entry at any time.

## 3. Runs

| run | instance | shows |
|---|---|---|
| `peer` | state machine: 3 connections, channel of 2, dialled or accepted, dials and inbound CERs, no timing assumption; ring: 2 producers, 3 messages each, 2 slots, batch of 2 | `TypeOK`, `OpenHasConn`, `NoDualConn`, `IOpenNegotiated`, `SuspectReturns`; `WqTypeOK`, `SlotExclusive`, `NoLostWakeup`, `RefinesFifo` |
| `peer_collision` | 2 connections, a persistent peer that dials and is dialled again and again, no timing assumption | `WaitIsTimed`, `ElectionHasCER` |
| `peer_outbound_live` | 1 connection at a time, a persistent dialler, disconnects and stops, `Timely`, fairness | `SingleAttempt`, `SuspectRecovers`, `HandshakeEnds`, `LostConnReleased` |
| `writer_cycles` | 2 producers, ring of 2, batch of 1, 2 cycles, failing writes, fairness | `WriteOnce`, `WriterStopReturns` |
| `server` | table: an outbound and an inbound object, 2 identities; sessions: 2 callers, 2 session objects with one Session-Id, one of them registered twice, 2 timer arms; fairness | `TypeOK`, `NoDanglingPeer`, `ServerStopReturns`, `InboundEnds`; `CloseOnce`, `CallsReturn`, `Expires` |
| `relay` | 2 connected peers (one reconnects) and one that never is; 3 requests: relayed out, relayed in, for this node; 2 hop-by-hop identifiers; without and with all four routing extensions | `AnswerToOrigin`, `AtMostOnce`, `OnlyUnservedForgotten`, `RelayEnds` |
| `extensions` | manager: 3 extensions (one not stoppable, one reconfigurable), 2 admin callers, 5 requests, shutdown, 1 router goroutine; stores: 2 goroutines, clock to 3, caps of 2 and 3 | `InitStopAlternate`, `QuietStop`, `ReverseOrder`; `StoreAgrees`, `NoisyPays`; `RateBound`; `SessionKept` |
| `edge` | 2 partners with stateful and static hiding, an internal and an external zone, 3 configurations (with transit, with a mis-zoned peer), 3 objects, 2 requests | `Judged`, `RightPartner`, `Hidden` |
| `peer_retry` | as `peer_outbound_live` | a violation of `PersistentPeerRetries`, as the next three see section 4 |
| `peer_late_dial` | as `peer_outbound_live`, without `Timely` | a violation of `ClosedNoIConn` |
| `relay_unserved` | as `relay`, with no handler | a violation of `NobodyForgotten` |
| `edge_unbound` | as `edge`, with peers that connect again | a violation of `AllHidden` |

`extensions` is one run for four parts that share nothing but the clock, `server` and `peer` for two each that
share nothing: an initial state picks the part that moves, so nothing is multiplied and every property is about
the part that moves. Fairness asks nothing of the part that does not, since none of its fair steps is enabled
at first.

**Bounds.** Two connections let a dial and an inbound connection meet and an event of one outlive it; a third
is the rejected extra one. The peer of `peer` is not persistent. A dial of a persistent one that outlives its
attempt (`peer_late_dial`) meets a later attempt or an accepted connection, and then breaks `NoDualConn`,
`IOpenNegotiated` and `SuspectReturns` as well; TLC shows each within seconds when `Persistent` is TRUE. What
holds for that peer all the same is in `peer_collision`, what holds when it only dials and its timers outlast
its dials in the theorems. A channel of one or two events is always full and empty in turn, which 256 would
hide. `MaxInFlight = 1` bounds fired timers and dials not yet delivered. On the ring, two slots and three
messages per producer make the indices lap, and two cycles let a writer and a message outlive their
connection. One inbound and one outbound object that may have the same identity give an old object and its
successor. In `relay`, two identifiers (one of which is 0, which `Send` does not track) wrap, `MaxOpens = 2`
lets an answer arrive after a reconnect, and each request has a candidate that is not connected, so the
exclusion loop turns; one object per identity keeps hop-by-hop identifiers of one identity apart (section 4
says what happens without). In the sessions of `server`, one object registered again under its Session-Id
after another had it is the case where the callback of an earlier registration meets a later one. In
`extensions`, five requests reach a failed stop, a second enable and the duplicate in `initOrder` it leaves;
the store caps are smaller than the pseudonyms and sessions that arrive; the clock passes every time to live.
In `edge`, two requests suffice for a pseudonym to be handed out and sent back, and three objects for an
internal peer, a partner and a foreign one.

**Assumptions of the runs.** `relay` has one handler that serves the applications of the requests for this
node, and relaying is on. `server` sets no `onTerminate` on a registered session (`LateCallback = FALSE`).
`extensions` shuts down after the last admin request (`Quiesce = TRUE`), and the stoppable extensions register
their handlers under their own name (`Owned`). `Refills`: a bucket is full again before the sweep drops it,
with the age of two clock readings (that of the last use and that of the first one afterwards) taken off the
idle time. `edge` lets an identity connect once (`Reconnect = FALSE`), each peer comes to one zone
(`OneZone`), partners are outside and apart from each other and from the operator (`PartnersOutside`,
`RealmsApart`, `OursInside`), answers name no destination (`PlainAnswers`), and `Judged` and `RightPartner`
speak of partners whose screening enforces. Sections 4 and 5 say what the code does where one of these is
dropped; each was found by giving the constant, or the configuration, another value.

**Timely.** With `Timely`, a dial does not outlive the `ConnectTimeout` timer and the `ReconnectInterval`
outlasts what is in flight. The code does not guarantee either (each address and the TLS handshake has a
timeout of its own), so the runs that do not need it, and the theorems, do without; `SingleAttempt` holds with it,
and TLC refutes it when it is dropped: a late dial then meets the next attempt. `peer_late_dial` shows what else a
late dial meets, the state Closed.

**Deadlock** is not checked: a peer that is Zombie, an idle sender, a stopped server and a node without
messages legitimately do nothing, and bounded histories end.

**Fairness.** Goroutines that can run do (weak fairness of each: `RouteIn(o)` in the relay, `Step(t)` of a
session call); a send on a channel that is full now and then is strongly fair, because Go serves blocked senders
in order; armed timers fire and their functions get the lock they wait for; the random choice of `select` takes
a closed `done` in the end (strong fairness of `WriterExit`). `FireReconnect` is strongly fair because `Timely`
lets it wait for quiet moments. Nothing is assumed of the remote end, of producers, of the application or of
administrators.

## 4. Findings

Four runs end in a violation: what a document, a comment or a test says of the program, the code does not do.

- `peer_retry`: a CER that cannot be sent (`state_machine.go:164`), or a CEA that is refused, ends in Closed
  without `scheduleReconnect`, so a persistent peer stays down (against
  `state_machine_collision_test.go:582`).
- `peer_late_dial`: a dial that outlives the `ConnectTimeout` timer sets `iConn` in Closed
  (`state_machine.go:775`), where its Conn-Ack is ignored; Closed has "no transport connection" (`peer.go:25`).
- `relay_unserved`: a request for this node without a handler is said to be answered with 3007 (the
  repository's `README.md:290`). `dispatch` returns a DispatchError with that code (`router.go:762`), which
  `handleRoutingError` logs and does not answer (`server.go:519`). `OnlyUnservedForgotten`, in `relay`, says
  that this is the only such request.
- `edge_unbound`: a peer admitted by its realm is known to topology hiding by the binding of its host.
  `handlePostRoute` looks that up before the router looks up the connection (`dea_topohide.go:220`), and
  deleting the table's entry and unbinding are two steps of a former connection's callback
  (`server.go:275-278`). In between the peer connects, or connects again, and is sent an internal Origin-Host,
  against `dea-reference.md:321`. `Hidden`, in `edge`, says for which peers the hiding does hold.

Observations that the modules reproduce, most of them seen by giving a constant its other value. None is part
of a passing run.

*Peer, send path and table*

- `performElection` posts Win-Election to the channel only its own goroutine reads (`state_machine.go:727`);
  when that is full the machine waits for itself, deaf to the cancelled context, and so does `Stop`
  (`peer.go:549`). The channel holds 256 events (`peer.go:314`), so it takes a burst of them in one election;
  TLC finds the wait with a channel of one, two connections and `MayStop`.
- A dial that succeeds after `Stop` leaves a connection that nobody closes (`state_machine.go:775`):
  `LostConnReleased` speaks of the time while the machine runs.
- After a full batch the rest of the ring has no token and waits for the next Push (`writer.go:214`).
- The callback of an object that leaves deletes the entry of the object that replaced it (`server.go:275`,
  `:386`).
- A CER refused in Closed leaves `rConn` set (`state_machine.go:128`), so later ones are refused as duplicates.
- I-Rcv-Non-CEA is never produced: a message other than a CEA in Wait-I-CEA is dropped (`state_machine.go:986`).
- Peer-Disc names no connection and can close the one that replaced it (`state_machine.go:593`).
- `head-tail` wraps when the loaded head is older than the tail: `Push` refuses although there is room
  (`writer.go:47`); `SlotExclusive` depends on this refusal.
- `Server.Stop` misses peers that are still in their handshake (`server.go:416`).
- A binding made in the accept policy survives a CEA that could not be sent (`server.go:225`).

*Router*

- The error of `rt_deny_by_size` is not answered either.
- `popPending` comes before the End-to-End comparison, so a wrong answer consumes the entry; `Send` enters a
  request in the pending table before it knows that its queue takes it, and leaves it there when it does not.
- An answer that has lost its way back reaches a peer that never sent its request; `AnswerToOrigin` allows
  this only once the sender's connection has closed or the transaction is gone. It may leave on an external
  zone: the comment at `dea_topohide.go:254` (such an answer "is not being forwarded to a partner at all")
  holds for the peers of partners (`AnswersAvoidPartners`, section 5), not for an external peer that
  `allow_identities` admits.
- Hop-by-hop identifiers restart with every accepted `Peer` object while `relayKey` uses the identity
  (`router.go:97-107`): with a second object of the same identity, or when 2^32 identifiers wrap while a request
  is pending, an answer can reach the wrong origin.
- `FailoverPeer`, `StartRelaySweep` and `rt_busypeers.TrackRequest` have no caller outside the tests.
- With `rt_ignore_dh` on a relay, a request for this node is routed and not dispatched.
- `rt_redirect` keys its cache by the Destination-Realm of an answer, which answers do not normally have.

*Sessions*

- A session that timed out stays in the manager's maps; a fired timer disconnects a session that was refreshed
  just before; `SetOnTerminate` after `Register` replaces the manager's own callback, so `Terminate` no longer
  removes the session; the callback of an earlier registration removes a later session of the same ID; a
  callback of `onSessionCreate` that uses the manager waits for the lock its caller holds.

*Extensions*

- `Server.Stop` concurrent with admin requests may stop an extension twice or leave it running; handlers that
  are registered under another owner's name survive `Disable`; `StopAll` removes no handlers; two overlapping
  `Reconfigure` calls may store the configuration that is not applied.
- Two goroutines that miss in `mask` give one host two pseudonyms; the older may be left without a forward
  entry. An insertion may evict itself on a tie. A pseudonym is found by host and session, not by partner.
- A bucket whose rate refills less than its burst in ten minutes is full again after the idle sweep; a reading
  older than the last one sets `lastUsed` back, and a bucket made anew after the sweep is filled as of a reading
  from before it, so the idle time may fall short at both ends: with one delay taken off it and not two, TLC
  refutes `RateBound`.
- The default boost of `rt_session_bind` (80) cannot lift a realm route (100) over an application route (200),
  and an attempt that fails has already rebound the session. Its `Stop` closes a channel, and panics when called
  twice.

*Edge agent*

- `allow_identities` of an external zone admits peers of no partner; `validateEdge` compares identities as
  written while the registry folds their case.
- `partnerFor` falls back on the binding table (`dea_screening.go:187`), which is kept by identity: a host that an
  external zone admits without a partner has its requests judged as those of the partner that the same host was
  admitted as on another external zone. `validateEdge` lets a configured peer without a partner end on an
  external default zone. Without `OneZone` TLC refutes `Judged` in ten steps.
- Without any candidate from the route table the outgoing handlers are not called, so a partner's own peers
  are not used (`router.go:174-177`, against `dea-reference.md:346`).
- Hiding is done for the next hop before it is looked up, and stays when the next one is tried. Error answers
  made here carry the node's identity.

## 5. Proofs

All leaves are checked by TLAPS (SMT, Zenon, LS4); nothing is assumed beyond the named `ASSUME`s of the modules.

- **PeerFSM_proofs**: `Invariance`, and from it `TypeCorrect`, `WaitsAreTimed`, `ElectionKeepsCER`, for every
  set of connections, capacity, role and timing. The invariant `Inv` is the conjunction of the three: the
  last two are inductive together with the types, because the events that end a wait or an election also reset
  what they speak of. Lemmas say what the building blocks (`ErrorCleanup`, `Retire`, `Abandon`, `Post`, a
  popped event) preserve; the step lemma has one case per handler and per goroutine step.
  A second invariant, `AttemptInv`, follows one attempt to connect through timers, goroutines and the queue:
  there is one at most (`OneAttempt`), the state is one that expects it (`Placed`), a first Start is handled first
  (`Kinds`), no old Timeout meets a new attempt (`Calm`), and which connections the peer has while it dials and
  in each state (`Dialled`, `Connected`). From it follow `OpenHasItsConn`, `OneConnSurvives`, `OpenIsNegotiated`,
  `OneAttemptAtATime` and, as an action property, `SuspectReturnsHome`. They need `SingleTry`: the peer is not
  persistent, or it only dials out and its timers outlast its dials. Otherwise a late dial can meet the
  next attempt: `ClosedNoIConn` is then false (`peer_late_dial`), and the invariant behind the others is lost.
- **WriterQueue_proofs**: `RingInvariance`, and from it `RingTypeCorrect` and `RingIsExclusive`, for every ring
  size, batch size and number of producers and cycles. `SlotExclusive` alone is not inductive. `RingInv` adds
  that the indices in use span at most the ring (`Window`), that a claim lies in that window and a producer
  about to compare-and-swap has seen room (`Loaded`), that claims are distinct, that the slots of unclaimed
  indices are free, what a claimed slot and the slot being left hold, that a ready slot is not nil, and that
  only one `writerLoop` runs (`Lifecycle`). The arithmetic (two indices less than a ring apart have different
  slots; one lap apart, the same) is proved first, from division with remainder.
  `WakeupIsKept` adds who still owes the token (`Wakes`). `WrittenOnce` adds the `Fate` of a message: it is in
  one place of the ring or of the fallback channel, the batch, the claims and the written ones are apart, and
  what a producer has yet to send is nowhere. `RingIsFifo` is the refinement of `BoundedFifo`: with `Filled`
  and `Contents` (the abstract queue is what lies between tail and head), a successful compare-and-swap is
  `Accept`, the step of PopBatch that leaves a slot is `Take`, and every other step stutters.
- **PeerTable_proofs**: `TableInvariance`, and from it `TableTypeCorrect` and `EntriesAreLive`, for every number
  of objects and identities. `CallbackMatches` is the strengthening: which callback may be pending in which
  state, and that an open object knows its identity.
- **ExtensionManager_proofs**: `ManagerSafe`, and from it `ManagerAlternates` and `ManagerQuiet`, for any number
  of extensions, admin requests and routing goroutines, when Server.Stop comes after the last request
  (`Quiesce`). `InitStopAlternate` is not inductive: between a request's steps nothing in it says who may go on.
  `ManagerInv` adds what a request under way knows of its extension (`Claims`), that the states initializing
  and stopping act as a lock held by exactly one request (`Exclusive`, `Claimed`), and that the shutdown finds
  no request at work (`Alone`). `QuietStop` is then inductive relative to it, for extensions that register
  their handlers under their own name (`CanStop \subseteq Owned`). `ManagerStopsInOrder` adds `OrderInv`: what is
  active is listed in `initOrder` (`Recorded`), the list of StopAll is a prefix of `initOrder` from its end, and
  what lies behind it is stopped or cannot be (`Descending`). That `RemoveFirst` keeps the other entries and that
  a non-empty set of positions has a last one are lemmas.
- **RelayRouter_proofs**: for any number of peers, requests, routes and goroutines. `RelayInvariance` says
  that a request has one bearer (`OneBearer`): the goroutine that first routes it, one connection it was put
  on, or the goroutine that carries its answer, and never two of them. `RelaysAtMostOnce` follows, and, with
  the counts of refused answers, `ForgetsOnlyUnserved`, for every set of applications served.
  `AnswersFindOrigin` assumes one `Peer` object per identity (`OneObject`) and that no object has used up its
  2^32 identifiers (`[]NotWrapped`); its invariant says that every identifier in use was given out by the
  object it is used with (`Bounded`), that pending entry, transaction and job that share one belong to the
  same request (`Traced`), and that an answer on its way still has its transaction, or its request has lost
  its way back (`Guided`), so that only such an answer is routed on. Section 4 has what happens without the
  two.
- **SessionManager_proofs**: `SessionSafe` and `SessionsCloseOnce`, for any number of sessions, identifiers and
  callers. `SessionInv` adds to the agreement of the two indexes (`Indexed`) that every registration is still
  there, about to be reported by exactly one caller, or reported (`Counted`), with finite-set cardinalities.
- **Stores_proofs**: `BoundSessionsStay`, for every capacity, time to live and boost: eviction takes the
  oldest binding, so if it takes a session's own, as many others as the store holds have been used since
  (`BindInv`). `BucketsHold`, for every set of rules with `Refills`: the invariant `Budget` says, for every
  earlier grant, what the bucket may still hold in terms of the time since; a bucket that was dropped and made
  anew is full, which is why the idle time must suffice to fill one. For the pseudonym store, `IndexesAgree`
  and `NoisyPartnerPays`, for every number of partners, hosts, routing goroutines and every cap. `StoreInv` is
  `Sound` (each partner's list holds its own entries, each once; `total` counts them; an alias leads to its
  newest pseudonym; nothing is numbered beyond what was allocated) and `Capped`. Removing entries, touching
  and adding one keep `Sound` (`RemoveSound`, `TouchSound`, `AddSound`); eviction then restores `Capped`, and
  takes from the longest list, which is why a smaller partner loses nothing (`GlobalEvicted`). What a filtered
  list holds (`WithoutKeeps`) is proved by counting ranks, without induction over the list.
- **EdgeAgent_proofs**: for every valid configuration, any peers and any messages, however often peers
  reconnect. `ExternalIsJudged`, given `OneZone`. The invariant `EdgeInv` says that only a host whose realm
  belongs to a partner of its own zone is ever bound (`Bindings`), that an external connection has a partner
  or a host that can never be bound (`Assigned`), and what is known of the message at each step of RouteIn
  (`JobJudged`, `LastJudged`). A connection keeps its zone and partner, so what was judged stays judged while
  bindings come and go. `PartnersGetTheirOwn` and `NetworkStaysHidden` add `SiteInv`, under `PartnersOutside`:
  the table leads to open connections of the right host (`Links`), a host is bound to the partner that owns
  its realm (`Claims`), a peer the configuration lists is external if and only if a partner lists it, and has
  that partner (`Places`), a connection admitted by its realm that is the only one of its host has the partner
  its host is bound to (`Holds`), and what is stored and on its way is whole (`Data`). On top of it, for
  `RightPartner` and given `RealmsApart`: a request that an enforced policy let through keeps its origin, so
  `dea_route` takes it for the partner that `dea_screening` judged it as (`OriginOwner`), and a partner's peer
  is chosen only for a destination of that partner (`HopOwner`). For `Hidden` and given `OursInside`: hiding
  leaves no host of the operator in what it covers (`HideCleans`), and a message that was masked for one hop
  and then goes to another has the one outward realm (`MaskedRealm`). `Clean` says what the next hop may see
  (`Veiled`): the partner that lists it, and the one its connection was admitted as by realm (`ByRealm`),
  which by `Holds` is the one that hiding took it for. For listed peers it is stated of hosts and not of
  connections, so that it survives a connection that is replaced between the choice of a hop and the send.
  `PlainAnswers` (an answer has no Destination-Host and no Destination-Realm, as in RFC 6733) keeps an answer
  that is routed on away from the peers of partners (`AnswersAvoidPartners`): nothing hides it again. The
  registry's side (one owner per listed peer, a name stands for one partner, the owner of a realm has a
  pattern that matches it) is proved from `ValidateEdge`. The hypotheses are `ASSUME`s of `MCEdgeAgent`, so
  TLC evaluates them on the configurations of the run.

Every safety property that a passing run checks is stated by a theorem. Only model-checked: liveness (fairness and
ENABLED are beyond the prover).

The theorems about the edge agent have hypotheses on the configuration that `validateEdge` does not enforce.
Each is needed: TLC refutes the property on a configuration that breaks it. `PartnersOutside`: the answers
that go to a partner on an internal zone are hidden (`answerPartner` does not ask for the zone) and the
requests are not. `RealmsApart`: where the realms of two partners overlap, a request from a peer of one with
the Origin-Host of a host bound to the other counts as the other's, and passes between them without
`allow_transit`. `OursInside`: a host that the registry does not take for internal is not masked; and a
request masked for a host that then loses its binding goes on to the partner of its realm with the outward
realm of the first. `PlainAnswers`: an answer with the Destination-Realm of a partner that has lost its way
back is routed to that partner as it is.

## 6. Plan

1. Name what the edge agent promises (the three theorems) as one abstract specification that it refines.
2. Compose `PeerTable` with `RelayRouter`, so that several objects of one identity route messages at once.
3. An abstract relay (an answer returns to its origin at most once) that `RelayRouter` refines.
4. `Codec`: lengths and padding of AVPs and headers as operators.

## 7. Not modelled

Transport, TLS loading, logging, metrics, HTTP and command lines are I/O. The dictionary and the type tables
are data. The message codec works on bytes and has no state; messages here are records of the AVPs a property
tells apart. Applications (`app_*`) answer one request at a time. `rt_busypeers` is never armed; `rt_redirect`,
`rt_rewrite`, `rt_hide_oh` and `rt_deny_by_size` rewrite, refuse or score one message without shared state that
another reads. `Registry.Reload`, and with it the rescaling of a bucket, has no caller outside the tests.
Parsing and defaults of plain configuration values, statistics counters, wording and formatting are left out
everywhere.

Simplifications inside the modules, each of which leaves out an outcome or a detail that no property tells apart:

- `TakeHop` joins the choice of the next hop, the table lookup and `NextHopByHopID` (`router.go:676-698`).
  Between the lookup and the identifier the object may close, which `SendErr` then covers; the counter is
  atomic.
- In `AdmitPeer` some entry of `peers` has to match, where `zones.go:282-299` decides on the first one of that
  identity. The two differ only for an identity that is listed twice.
- `WriteFails` is the report of the writer (`writer.go:269-288`), which samples the side when it reports and
  drops the report when the channel is full. The one of `writeLoop` (`state_machine.go:1065`), on the fallback
  path, waits for room with a side sampled before; a report for a side that has changed since is one of the
  queued Peer-Disc events that the machine meets late anyway.
- `DialFail` stands for every way a dial fails; why the TLS configuration cannot be loaded is left out.
- `Best` of `SessionBind` knows one score per peer, where the code boosts the first matching candidate.
- `PutPseudo` draws fresh pseudonyms, so the branch that overwrites an entry (`store.go:184`) is never taken.
- `Unbind` of `EdgeAgent` applies to accepted and to dialled connections, though the callback of `connectToPeer`
  does not unbind: a dialled peer is listed, and a listed host is never bound.
