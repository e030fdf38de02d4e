# A verification of interactions.py

interactions.py is a Python library for Discord bots.  A bot keeps a WebSocket
to Discord's *gateway*, from which it gets its events, and calls Discord's REST
API.  Everything runs on one asyncio event loop: there are no threads, and a
task gives way to another only where it awaits.  What is hard is therefore
what several tasks, timers and the network may do *between two awaits* of one
of them.

This directory models the parts of the library where that matters, checks
them with TLC on small instances and proves the main results with TLAPS for
every value of the constants.

## Inventory

Paths are relative to `src/interactions`.

| Component | State | Operations | Interacts with |
|---|---|---|---|
| **Gateway connection** `api/gateway/client.py`, `heartbeat.py` | the WebSocket, `sequence`, `session_id`, `resume_url`, the heartbeat task, `reconnect_lock`, the events `__closed`, `__heartbeat_event`, `ready`, `_closing_lock`, the bytes of a message and the zlib decompressor | `run`, `_reconnect`, `__receive_packet`, `_handle_stream`, `run_heartbeat`, `_send_packet`, `close` | Discord (frames both ways), dispatch and cache (each event), the bot's own tasks (packets), the client (start, stop) |
| **Client start and stop** `client/bot.py` `_login`, `_stop`, `_logout`, `start` | `_closing_lock`, the HTTP session | start, ready, stop, clean-up | the gateway connection, HTTP |
| **HTTP requests and rate limits** `api/http/request.py`, `limiter.py`, `route.py` | a `Limiter` (lock, `reset_after`) per route or bucket, the bucket of each endpoint, the global Limiter, timers of the event loop | `request` | Discord (answers, 429s, buckets), every other component that calls the API |
| **Gateway rate limit** `api/gateway/ratelimit.py` | a lock, `remaining`, `current_limit` | `block` | `_send_packet` of the connection |
| **Cache** `api/cache.py`, `utils/dict_caches.py`, `api/gateway/processors/` | a `Storage` of objects per type, of bounded size; sets of ids per guild | `add`, `get`, `merge`, `pop`, `_create_event`, `_update_event`, `_delete_event`, one processor per gateway event | gateway events write it, HTTP answers write it, models and `get()` read it |
| **Dispatch** `api/dispatch.py`, `Client.wait_for` | listeners per event, futures per event | `register`, `dispatch`, `add`, `wait_for` | the connection dispatches; extensions and commands register |
| **Commands and their synchronisation** `client/bot.py` `__sync`, `__compare_sync`, `client/models/command.py` | declared commands, the commands Discord has, listener of each | `command`, `__resolve_commands`, `__sync` | HTTP, dispatch, extensions |
| **Extensions** `client/bot.py` `Extension`, `load`, `remove`, `reload` | `_extensions`, what each registered | load, remove, reload, `teardown` | dispatch, commands |
| **Interaction context** `client/context.py` | `responded`, `deferred`, the message | `send`, `edit`, `defer`, `popup`, autodefer | HTTP |
| **Paging and lookup** `api/models/channel.py`, `guild.py` iterators, `utils/get.py` | a page, the position in it | `__anext__`, `get` | HTTP, cache |
| **API models** `api/models/` | attributes of an object, often the very object that is cached | a request per method, and what becomes of its answer; `update` | HTTP, cache |
| **HTTP end points** `api/http/*.py` | none | one request per method | HTTP |
| **Permissions, utilities** `api/models/channel.py`, `member.py`, `utils/`, `ext/` | plain data | computations, (de)serialisation | |

What makes each of them correct, and which behaviours are hard:

* *Gateway connection*: three tasks may rebuild the connection or use it while
  another rebuilds it; frames in flight are lost with it; Discord may answer
  RESUME with INVALID_SESSION; heartbeats time out.  The bot must see each
  event of its session once and in order, nothing may be read from or written to
  a connection that has not been identified, the heartbeat must survive every
  reconnection, and a lost connection must come back.
* *HTTP*: requests of a route take turns on a lock that a timer may free under
  them; every way out of `request()` must free it; a 429 must keep others out.
* *Gateway rate limit*: no more than so many packets per minute, however the
  callers are timed; nobody waits for ever.
* *Cache*: what guilds list is what the storages hold, whatever was evicted or
  deleted twice; events of objects that are not cached must not end the client.
* *Dispatch*: a waiter sees the first event that passes its check; no event is
  lost between two rounds of the loop of `wait_for`.
* *Extensions and commands*: after a remove, nothing of the extension is left;
  a reload does not race the tear-down of what it replaces; after a
  synchronisation Discord has exactly the declared commands.
* *Context*: an interaction gets one initial response.
* *API models*: what a method keeps of its answer is what the cache would hold had
  the event come first; an answer may be older than the events.
* *Paging*: every item once, in order.

## Modules

| Module | What it is |
|---|---|
| `Gateway` | the connection manager with the tasks that share it, Discord and the network; its properties |
| `EventStream` | the abstract specification of the connection: what the bot sees of its session |
| `GatewayInvariants` | the inductive invariant of `Gateway`, checked by TLC and used by the proofs |
| `GatewayProofs` | types, the lock, the gate, packets and the heartbeat |
| `GatewayStreamProofs` | the events in flight, RESUME, and that `Gateway` implements `EventStream` |
| `MCGateway` | the sets of faults its runs admit |
| `HttpRequest` | `request()` with the locks and timers of the Limiters, and Discord |
| `HttpProofs` | types and locks of `HttpRequest` |
| `RateLimit`, `RateLimitProofs`, `MCRateLimit` | `block()` under `reconnect_lock`, with the clock; the quota, and how long a heartbeat waits; three tasks and a heartbeat |
| `MCHttpRequest` | three requests to two endpoints of one bucket |
| `Cache` | a `Storage`, its guild's list, the processors and Discord's events |
| `Endpoints` | what each method of `HTTPClient` does to objects that are cached |
| `Objects` (extends `Cache`, `Endpoints`) | a call of a model's method: request, answer, and the ways to keep it |
| `Methods` (extends `Objects`), `MCMethods` | every method of the models as an action; the properties of the cache |
| `CacheProofs` | the properties of the cache, proved of `Methods` |
| `Paging`, `PagingProofs`, `MCPaging` | the asynchronous iterators and the methods that read page by page; their proofs |
| `Registry` | the client's lists of its commands, and `__resolve_commands()` |
| `CommandSync` (extends `Registry`) | `__sync()` |
| `Extensions` (extends `CommandSync`), `MCExtensions` | load, remove, reload and teardown; the start of the client; the properties of all three |
| `ExtensionsProofs` | types; that the lists of commands, handlers and listeners agree; that a synchronisation leaves Discord with what is registered |
| `Dispatch` | the futures of an event, and `wait_for()` |
| `Context` | the methods of a context, and Discord's side of an interaction |
| `Interaction` (extends `Dispatch`, `Context`), `MCInteraction` | an event or an interaction from its dispatch to the end of its command, with autodefer |
| `InteractionProofs` | futures, waiters, contexts and the command's wrapper: every safety property of `Interaction` |

### Gateway

A step is what a task does between two awaits.  `pc` says where each task is
suspended: `"main"` is `run()`, with the `_receive` task it waits for and
`_handle_stream()`, which never run at the same time; `"hb"` is the task of
`run_heartbeat()`; `Users` are the tasks of the bot that send packets.

| Variables | In the code |
|---|---|
| `owner` | `reconnect_lock` |
| `closed`, `hbEvent`, `ack`, `ready`, `closing` | the events `__closed`, `__heartbeat_event`, `__heartbeater.event`, `ready`, `_closing_lock` |
| `client`, `shaken`, `up` | `_client` is not None; IDENTIFY or RESUME went out on it; its transport is alive |
| `inbox`, `buffer` | frames in flight; the bytes `__receive_packet()` keeps between reads, and whether they are of this connection |
| `session_id`, `sequence` | the attributes of those names (`resume_url` is set and cleared with `session_id`) |
| `handled` | history: the last event given to the bot |
| `srvSession`, `srvLast`, `attached`, `hbPending` | Discord: the live session, its last event, whether this connection gets its events, a heartbeat to acknowledge |
| `budget` | bound on disturbances |

`Run*` is `run()` up to its loop; `CallReconnect`, `Rc*` are `_reconnect()`, of
`main` or of `hb`, awaiting the lock, the close of the old WebSocket, the
connection with HELLO and the handshake; `PassGate`, `Take`, `Receive*` are
`__receive_packet()`; `Handle*` are the branches of `_handle_stream()`; `Hb*` are
`run_heartbeat()` and `_manage_heartbeat()`; `Call`, `SendLock`, `Send` are
`_send_packet()`; `Stop`, `RunReturns`, `LoginHandler`, `Logout` are the client's.

Abstracted: the content of events (a processor may raise: `BAD_EVENT`), packets of
the bot (they are alike), the rate limit of packets, the text of frames (a frame is
its opcode or close code and its `s`), times (a heartbeat is due at any time).
A message that Discord sends in several frames is `PART` followed by the rest, so that
a connection can be lost in the middle.  Whether `send_str()` suspends during the
handshake is the constant `HandshakeYields`: aiohttp suspends it only when the
transport's buffer is full.

### HttpRequest

`pc` says where each request is: `wait` for the lock, `flight` when it has been
sent, `sleep` and `rested` in the sleep of a 429, `backoff` in that of a
connection reset.  `locked`, `waiters` are the lock of each Limiter, which asyncio
serves in order; `release_lock()` frees it whoever holds it.  `soon` and `later` count
the timers that will call it: at once, or after a refill of the bucket.
Time is kept only as that order.  `left` and `answer` are Discord's; `fired` is a
history variable for the properties.

Abstracted: bodies and headers other than the limits; which error an answer is;
the major parameters of a route, the same for all requests of an instance.

### RateLimit

`remaining` and `current_limit` are those of `WSRateLimit`; `now` is `time()`, in
units of its own resolution.  `_send_packet()` calls `block()` with
`reconnect_lock`, so that one task at most is in it and its own lock is never
waited for; `queue` is that of `reconnect_lock`.  `Pass`, `Sleep`, `PassAtEnd` are
the three ways through `delay`: a packet that is counted, a sleep, and the very
tick at which the window ends, where `delay` is 0.0 and nothing is counted.
Computing and sending take no time; a sleep may end one tick late.  `opened` and
`used` are history: when the window was opened and what went out since.  That
`time()` may be set back is left out.

### Cache, Endpoints, Objects, Methods

A behaviour follows the objects of one `kind` in one guild: thirteen kinds, each with
its processors and methods.  `store` is the Storage (a sequence: the entry to be
evicted next comes first), `listed` the guild's set of ids, `discord` the objects as
Discord has them, `events` the dispatches on their way, `calls` the method that each
task is in.  An object is a version, which every change replaces, and one list
attribute, of Discord's object the set of its items, of an entry how often each item is in the
list (once, or more often).  `refs` are the
tasks that hold the very Python object of an entry: `modify()` updates that one,
whatever has become of the entry.  `gid` says whether the object knows its guild, which
`remove_*` need.  `raised` ends the behaviour, as a processor that raises ends `run()`.

Each processor is an action named after its event; each method of a model one named
after class and method.  A method takes three steps: `Begin`, `Serve` (Discord acts on
the request and sends its events), `Keep` (the answer is stored as the method does
it: merged and listed, merged only, put, the caller's object updated, popped, forgotten).
Between them anything may happen.

`merge()` (`api/cache.py:51`) never replaces a list that is not empty: it appends the values that are not in it
(`Joined`).  Ids of roles and features are compared by value; overwrites, tags, embeds and reactions by
identity, so that a merge has each of them twice (objects with an id of their own are compared by that id,
`IDMixin`).  A merge goes through the `__slots__` of the new object, which has those of its own class only: a cached
thread is not changed by it (`Merged`).  A role that a method gives is appended even when its event has come
first; one that it takes is removed once, or not there, which raises ValueError (`Removed`).

Two histories keep apart where the code itself leaves the cache other than Discord, until an event puts it right.
`astray` has the ids for which an answer older than the last event, a lost session, a change made before Discord
agreed or a merge over a thread have left an entry wrong: nothing is claimed of them.  `grown` has those into whose list a
merge or a role given twice has put more than Discord has: the version is claimed of them, and that no item is missing.
Everything is claimed of the others.

Discord (`Appear`, `Change`, `Vanish`, `Serve`) is modelled from how the code uses it:
an event for each change, in the order of the changes, and an answer that shows the
object as it was when the request was served.  `Endpoints` is a thin table over some 2700 lines of `api/http/*.py`: each
method there builds a Route and a body, and all that the cache can tell of it is what the request does to the objects.

### Paging

`method` is one of the three iterations and of the four methods that return a list.
`objects`, `object_count`, `stop`, `edge` (`before` or `after`) and `obj` are the
iterator's; `at` says where `__anext__()` is; `list` is Discord's list, which may change
between two requests; `stayed` is history.  An IndexError on an empty page becomes the
end of the iteration, as `__anext__()` makes it; a KeyError or a TypeError ends the
method (`raised`).  Messages of all pages but the first are looked up in the cache, where any of them may be or not
be: what is yielded for one that is not there is None (`found`, `Hidden`), which is not counted as `Obtained`.
Ids stand for snowflakes, pages of 4 and 3 for those of 100 and 50.

### Registry, CommandSync, Extensions

`commands`, `coros` and `handlers` are `_commands`, `__command_coroutines` and the
listeners `command_<name>`.  A command is its name, the version of its data (`BadData`
does not pass `__check_command()`) and the instance that registered it.  `pool` is
`__global_commands` and `__guild_commands`, shared by all synchronisations; each of
`syncs` is a task that reads a place (`get`, `got`), compares, and overwrites it (`put`,
`done`).  Requests for one place take turns, by the lock of their endpoint; overwrites
are served in the order of their tickets.  Comparing keeps the code's positions where they decide
something: of a name that is in a list twice the first is replaced or deleted (`First`), as the loops and
`index()` of `__sync()` do.  What is appended comes in any order (`SetToSeq`): an overwrite does not depend
on it.  `insts` are the instances of the extension's
class, `teardowns` the tasks that `remove()` has created and that have not run, `file` the
version in the file, which `Edit` changes.  `phase` is `_ready()` and the login after it: a bad command that was declared
before raises out of `_ready()`, which then neither synchronises nor logs in (`ended`); otherwise the login follows the
client's own synchronisation, `first`, unless that has raised.
Ghosts: `loadedLate`, `overlapped`, `failed`, `shut`, `loadFailed`.  Discord keeps a list per
place, refuses a list with a name twice, and may deny access to a guild.

### Dispatch, Context, Interaction

`extra` is `extra_events` of one event, `fut` the future of each waiter, with its result,
`Undone` or `Cancelled`; `waiter` is each call of `wait_for()`: waiting, in an awaited check,
between the cancellation of its future and `TimeoutError`, or over; `timed` if it was given a timeout (the default
is none), which starts anew with every future.  Whether the future that has timed out is removed from the list depends on the
version of Python: `TimedOut` does either.  The check is any set of events
(`passes`).  A waiter that was cancelled leaves its future in the list until the next
dispatch, as the code does.  `missed` is history: what was dispatched while a waiter
had no future.

`ctx` has the attributes of a context that decide what it sends (`responded`, `deferred`,
`callback`, `message`); `calls` is the method that each task is in, up to its request,
Discord's serving of it and the answer; `discord` is external: it takes one initial response, a
deferred response shows "thinking" until the first followup replaces it, and the
interaction expires.  `ephemeral` is left out, `populate()` changes nothing,
`disable_all_components()` is an `edit()`.  Histories: `clear` and `blurred` say whether an initial
response overlapped the call or had failed before it.

`Interaction` puts them together: a dispatch gives the event to the waiters first, then starts the
command's wrapper, which runs the coroutine (`inner`), in a task of its own if `autodefer()`
decorates it; then the subcommand, or the error callback and `StopCommand`.  The coroutine, the error
callback and a waiter that has got the interaction may each call any method of the context.

## Runs

| Run | Instance | Shows |
|---|---|---|
| `gw_safety` | one user task, every fault, two of them in a behaviour, sessions of two events, two frames in flight, `HandshakeYields` | `TypeOK` and the inductive `Inv`; `GateOpensOnSession`, `PacketsFollowHandshake`; `EventsInOrder`: whatever RESUME replays, no event is lost or repeated; `IsEventStream`: the refinement (about 500 000 states) |
| `gw_live` | two user tasks, two disturbances a client means to recover from, handshakes that do not suspend | `HeartbeatSurvives`; under fairness `Recovers`, `BeatsForever`, and `IsFairEventStream`: every event of the session reaches the bot |
| `gw_missed_ack` | ACKs may be late | a missed ACK ends all reading (finding) |
| `rate_limit` | four tasks and the heartbeat, two packets per window of three ticks | `WindowQuota`: from the packet that opens a window no more than `max` go out within `per_second`; `WindowsApart`; `HeartbeatDelay`: a heartbeat that finds no more than `max + 1` packets before it waits for one sleep of `block()` at most (about 297 000 states) |
| `http_safety` | three requests, two endpoints of one bucket of two requests per refill; resets and cancellations | `TypeOK` with the bound of five tries; `LockInUse`; `ExclusiveUntilTimer` |
| `http_live` | the same with one request per refill, and errors that free the lock | `EveryRequestEnds` under fairness |
| `cache` | two tasks race for one channel, and for one role; a guild, a role and a member that change twice, of each other kind but messages two objects with room for one in the Storage; one call at a time; two items, lists of one and of none, for the guild also of the other; lost sessions and refusals | `TypeOK`: the Storage keeps its limit; `Settled`: at rest the cache has Discord's version and misses no item of its list, and has that very list where nothing is `grown`, but for what is `astray`; `ListedHeld`: what the guild lists is cached and alive; `NeverBack`: an older version comes back only by a late answer, or while the next event is on its way (about 625 000 states) |
| `paging` | lists of up to eight objects (two pages and a remainder) that change once; maxima around the page sizes; checks that reject runs of objects; caches that lack messages | `PagesJoin`: in order, and nothing that stayed is left out before the last one yielded, though None may stand in its place; `LosesFew`: what an iteration without a check loses at its end, and where None may come (messages behind the first page only); `Unchecked`, and `TypeOK` with the maximum; under fairness `Ends` (about 719 000 states) |
| `paging_flatten` | no checks, no maximum, all messages cached | objects are lost when the last page is full (finding) |
| `bot` | three synchronisations, two instances, one refused request or closed guild, good and bad data, before the start too | `RegistryAgrees`; `Synced`: a synchronisation that overlaps none and does not raise gives Discord what is registered, whatever earlier ones have left; under fairness `Settles` (about 487 000 states) |
| `bot_reload` | no refusals, good data | a reloaded extension is left without its command (finding) |
| `interaction` | two waiters and two events, one and three; an interaction with three calls of methods and a fault, or with a waiter that responds beside the command | `FuturesAgree`, `ReturnsFirst`; `RespondedAnswered`, `RefusedOnlyRaced`, `SendShows`; under fairness `WaitEnds`: a waiter that has an event its check takes ends, and one with a timeout unless events keep coming; `AutodeferAnswers`: a decorated command that goes on is answered, or its interaction has expired (about 444 000 states) |

**Bounds.**  `MaxFaults = 2` lets a second disturbance strike while the client
recovers from the first, which is where the interleavings are; a third finds the
client in a state it has already been in.  `MaxSeq = 2` and `MaxInbox = 2` are
READY and one event, in flight together: enough to lose one, replay it and tell a
repetition from a gap.  One user task suffices for the properties about the lock,
as users differ in nothing and never wait for one another; `gw_live` has two, so
that fairness of the lock matters.  In `rate_limit` one task that sleeps and two that follow it, which fill a window,
are the most for which a heartbeat waits for one sleep only; with the fourth before it too it may
wait for two, which is why `HeartbeatDelay` looks at what the heartbeat finds before it (`ahead`); the code
does not bound how many tasks send. `MaxTime` lets three windows go by.  Three requests are the fewest that break the locks (one holds, one has the
timer armed, one is let in); with `Limit = 1` every second request meets a 429,
`Limit = 2` also has answers that leave something of the bucket.  The theorems
hold without these bounds, which are constants of the modules.

In `cache` two calls interleave with events about one object, which is where an answer can be older
than an event: a channel, which has the most methods, and a role, which changes twice.  A guild and a member have lists
that methods and merges change by value, which takes two changes to grow and to be put right; a message and a channel lists
that are merged by identity, the one of which is emptied as well; the other kinds need
eviction (two objects, room for one) and one change.  `Limit = 1` makes every second object
evict the first; `ListedHeld` looks at behaviours in which nothing was evicted, with this limit those of
one object (the theorem has any limit).  In `paging` eight objects are a
page of four, one of three and a remainder, so that both boundaries, an empty last
page and runs of rejected objects over a boundary occur; one change can hit every one of
them.  In `bot` three synchronisations are the first and two that overlap after
it; two instances are a load and a reload.  In `interaction` three calls are a deferral, a
response and one that overlaps them; two waiters share the list with one another, and
three events let one waiter miss one between two that it sees.

Deadlock is not checked: clients log out, requests, calls and commands end, so that the system
stops; `paging` says so explicitly (`Ended`) and has deadlock checked.

**Fairness.**  `Gateway`: weak fairness of each task's steps (asyncio runs every
task that is ready; timers expire), strong fairness of taking `reconnect_lock`
(asyncio locks serve waiters in order; which one is next is left open), and
Discord's READY and ACKs.  Nothing is assumed of events, faults, users or stops.
`HttpRequest`: weak fairness of each request's steps and timers, of Discord's
answers and of refills; none of arrivals being cancelled or of faults.  `Paging`: weak fairness of
the method's own steps: Discord answers and the caller asks for the next object; none of
changes.  `Extensions`: weak fairness of `Run`, the steps of
synchronisations, teardowns and the start; none of what users do or of refusals.  `Interaction`:
weak fairness of the wrapper, of each waiter's step (an awaited check comes to its end, a timeout expires, if the call
was given one), of Discord's serving and answering each task; none of dispatches, of the coroutines' calls or ends, of cancellations, faults or the
expiry.

## Findings

Each of the first three is a run whose property is a comment or docstring of the code, and a
counterexample of the model that can be followed line by line.

1. *Missed ACK* (`api/gateway/client.py:421`, run `gw_missed_ack`).  The heartbeat task calls
   `_reconnect()`, which cancels the heartbeat task: itself.  The cancellation strikes at the next
   await, so that the old connection is closed and none replaces it.
2. *Last page* (`api/models/channel.py:218`, run `paging_flatten`).  When a page is the last and full, the next
   is empty; the IndexError ends the iteration, and the object that has been popped is lost with those that
   remain: `history().flatten()` of a channel with 100 messages returns 95.
3. *Reload* (`client/bot.py:2276`, run `bot_reload`).  `remove()` creates the teardown as a task, `load()`
   passes over a command that is still declared, the teardown then removes it by name.

The models contain the following too, as the code does it; the properties account for them, and no run
is about one of them alone.

*Gateway* (`api/gateway/client.py`): every reconnection clears `ready`, only READY sets it (336, 406);
the buffer of `_receive` outlives its connection, the decompressor does not, and `zlib.error` is
raised outside the `try` (454, 516); `run_heartbeat()` takes an error on a lost transport for a stop
and sets `_closing_lock` (230); a connection lost before READY is resumed at the URL `None?v=10...`
(428); `_login()` waits for `self._websocket.__heartbeat_event`, which Python mangles to a
name that does not exist (`client/bot.py:758`).

*HTTP* (`api/http/request.py`): the lock that is to keep requests back from a route that is limited (127), a bucket
that is exhausted (219) or under the global limit (204) is freed at once, or never taken.

*Cache*: `guild_member_remove` and others remove ids that may not be there, and the
KeyError ends `run()` (`api/cache.py:268`); `merge()` cannot empty a list (65), appends to one that has changed instead
of replacing it (74), and does not change a cached thread at all, as `Thread` has no `__slots__` of its own (64);
`add_member_role()` has a role twice whose event came first, and `remove_member_role()` raises ValueError then
(`api/models/guild.py:677`, 709; `member.py:349`, 390); an answer older than the last event brings the old version back
(`api/models/guild.py:888`); `create_tag()` changes the cached channel before Discord has agreed (`channel.py:1698`);
emojis and stickers are stored under their guild's id; THREAD_LIST_SYNC is not handled.

*Paging*: `history()` looks the messages of its later pages up in the cache, and yields None for those that are not there
(`api/models/channel.py:226`); in the loop that skips rejected objects an asynchronous check is not awaited (250), and the
comparison with the maximum is the wrong way round, so that the iteration ends early (243); when a page is full
`get_all_members()` raises KeyError (`api/models/guild.py:2456`) and `get_full_audit_logs()` TypeError (2811).

*Waiting*: `timeout` of `wait_for()` is "How long to wait for the event before raising an error"
(`client/bot.py`), but it starts anew after every event that does not pass (1914), and before Python 3.11
`except TimeoutError` does not catch what asyncio raises: the future then stays in the list until the next dispatch (1919).

*Commands*: two synchronisations that overlap may raise IndexError or keep the older list
(`client/bot.py:908`).

*Contexts*: a `send()` during a deferral, or after one that failed, repeats the deferral and loses its message
(`client/context.py:445`); the message of a command that races `autodefer()` may be lost in the same
way; `popup()` and the `edit()` of a component do not look at `responded` (600).

Read and not modelled, because they fail at every call and have no state: `wait_for_modal()` with a list of strings
appends to the list it iterates over (`client/bot.py:2101`); a `default_scope` that is combined with a list gets
the None of `list.extend()` (867); `dispatch()` renames arguments in the dictionary that the next listener gets
(`api/dispatch.py:42`).

## Proofs

Every safety property of the passing runs, invariant or action property, is a theorem.  The theorems hold for all values of
the constants that satisfy the named assumptions:

| Assumption | Says |
|---|---|
| `GatewayAssumption`, `HttpAssumption`, `RateAssumption` | the names of tasks are distinct, faults are known ones, each endpoint has a bucket, bounds are natural numbers |
| `CacheAssumption` | of each kind there is an object, the Storage has room for one, the lists consist of items |
| `PagingAssumption` | the sizes of pages are positive and in the order of the code's 100 and 50, `Infinity` is above what can be counted |
| `RegistryAssumption`, `ExtensionsAssumption` | the two commands have different names, each is global or for guilds of the bot, which are a list; the file's first version is one of its versions |
| `SyncAssumption` | what Discord has in a place at the start is finite and has each name once; Discord refuses an overwrite that would change that |
| `MaxEventsAssumption`, `InteractionAssumption` | the tasks are the wrapper, the coroutine and the waiters |

A proof has the same form everywhere: an invariant `Inv` whose conjuncts are named for what they are about, a
lemma per action (and, under it, a step per conjunct the action can disturb), and the properties from `Inv`.

**Gateway.**  The properties are not inductive.  `Inv` adds what they rest on:
`LockInv` (`reconnect_lock` is held exactly in the stages between `RcLock` and the end
of the handshake, or of a send), `StartInv` (before the loop of `run()` there is
neither session nor packet, although the lock is not taken there), `GateInv` (the gate
is shut in every stage of a rebuild, and a connection that is not identified is one
that a handshake still holds), `SessionInv`, and `InboxInv`.  The last is the heart
of the order of events: the frames in flight *continue* what the client has
handled (`Continues`: each numbered frame is the successor of one before it or of
`Base`) and, while Discord still sends to this connection, *reach* its last event
(`Reaches`).  A lost tail keeps the first; RESUME re-establishes the second, because
`sequence = handled`.

* `TypeCorrect`, `GateSafe`, `HandshakeFirst` (`GatewayProofs`): types, no read from
  and no packet to an unidentified connection.
* `HeartbeatSafe`: if handshakes do not suspend, a client that may read has a heartbeat
  task that was not told to end.  The assumption is needed: with a handshake that
  suspends, the event that ends the old task is set after the new one has started.
  Its invariant is `BeatInv`.
* `Invariant`, `InOrder` (`GatewayStreamProofs`): `[]Inv`, and from it that
  every step gives the bot at most the next event of its session.
* `Implements`: each step of `Gateway` is a step of `EventStream` or a stutter, under the
  mapping `live <- Live`, `session <- session_id`, `seen <- handled`, `backlog` the
  events Discord has recorded and the bot has not seen.

**HttpRequest.**  `TypeCorrect` contains the bound of five tries.  For the locks,
`LockSteps` shows that every step, seen from the locks, is one of four: nobody takes
or frees one (`Stays`), a request takes a free one (`Enters`), its holder frees it
(`Leaves`), a timer frees it (`Frees`).  `LocksInUse` and `Exclusive` follow from the
four alone.

**RateLimit.**  `LimitInv` says that what is left and what went out make up the
window until `current_limit + Period`, that nobody who sleeps wakes up before, and
that `current_limit` is never before `opened`.  `QuotaKept` and `WindowsKeepApart`
follow, for any tasks and any limit; `TypeCorrect` holds that one task at most
sleeps.

`HeartbeatWaits` is about time, and about a heartbeat that finds at most `max + 1` packets before it:
with more, a second sleep is possible, and no task is kept from sending.  `HeartbeatInv` says of a heartbeat that has been in the queue for some time
that those before it are at most as many as fill a window, and that either the window that was full when it
came is not over (`SleepInv`), or all those before it fit into the one that is open, so that they go at
once.  That they are so few is `AheadInv`: nobody overtakes in the queue of the lock, and one task at most sleeps.

**Interaction.**  `IInv` has four parts, each kept by a step that finds all of them.

* `ContextInv` follows every request under way: what it is about depends on the method and the kind of
  context (`AboutInv`), and where a method is about to set `responded`, Discord has accepted a response
  (`AnsweredInv`): an initial one that was served with success, the request for the original response after it,
  the edit of a component, which is accepted only when there is an original message.  Hence `Responds`: a
  context that says it has responded has, whatever its tasks do at once and whatever fails.
* `CommandInv`: which task may be in a call goes with where the wrapper and the coroutine are.
* `RaceInv`: if Discord has got an initial response that the context does not know of, a call that sent it is
  still under way, or one has failed (`blurred`); a call that began without any such (`clear`) therefore meets
  an interaction that is open.  Hence `RefusesOnlyRaced` and `SendsShow`.
* `WaitInv`: `extra_events` has the futures that are pending, each once, and those cancelled that no dispatch
  has removed yet; every event since the call of `wait_for()` that passes the check is the one the waiter
  holds, a later one, or in `missed`.  Hence `FuturesListed` and `FirstReturned`.

**Cache.**  The invariant relates Discord, what is on its way, and the cache:

* `World`: of the dispatches on their way about an object the last says what is so, and none is of a version
  still to come; `Noted`: where nothing is on its way, what was told last is so;
* `Stored`: the Storage keeps its limit, has each key once, and no version that is still to come;
* `Fresh`, `Listed`: an entry is `Current` (Discord's version, no item missing, and exactly the list unless it has
  `grown`), or a dispatch about it is on its way, or it is `astray`; and as much of what the guild lists, while there
  is room for all.  What a merge makes of a list is `JoinedIs`: all that is in the new one, and exactly that unless
  `Grows` says otherwise;
* `Called`: an answer shows its objects as they were when it was served, and a method keeps the answer of
  the request that goes with it (`Fits`; this is where the tables of the methods enter).

`CacheNeverBack` is an action property: every step from `Inv` is `Safe`, which is `Inv'` and that no entry is
replaced by an older one.  A processor and a `Keep` put their objects one by one (`Each`, a recursive
function): what holds of one `Put` is carried through them by an invariant of the recursion.

**Paging.**  `OrderInv`: what has been yielded, popped and fetched follow each other up to `edge`;
`CoverInv`: up to `edge` nothing that stayed is left out but what the check rejects; `CountInv`: `object_count`
bounds what has been asked for and not rejected; `CheckInv`: an object that is rejected and yielded all the same
follows one that was rejected too; `LoseInv`: without a check, whatever was asked for has come or Discord has no
more; `NoneInv`: without a check, None is only for messages, behind the first page, which was full if another one is still
to be read.  From them `PagesAreJoined`, `OnlyUnchecked`, `FewAreLost` and `TypeCorrect`, with the maximum.

**Extensions.**  `OwnerInv`: either the command of the extension is not declared, and every instance that has
registered it is torn down, or it is declared by one that is not, the only such; `__command_coroutines` and the
handlers are those of `_commands`, or lack that command because its data were bad.  `ListenerInv`: each instance
that is not torn down listens, once.  A teardown by name hits the right command because of the second part, which
is what `RegistriesAgree` rests on.

`SyncInv` is about the synchronisations, and claims nothing from when two overlap or one raises until the next begins
alone, whatever these have left in the pool and at Discord.  While it claims something
one at most is under way (`SoleInv`), and it is in one of two phases.  `Reading`: of each place whose answer
has come and that is not closed, the pool has what Discord has, and `check` its names; nobody else writes
either.  `Writing`: each place that is open is `Due` at its turn.  It is clean, and Discord has what is
registered for it, or the pool has that and the place is still to be overwritten, or it is being overwritten
with just that.  A change of
`__command_coroutines` meanwhile sets `loadedLate`, which suspends the claim until the next comparison.  Once none
is under way, Discord has what is registered (`Settled`), and `SyncedAtRest` follows.

Between the phases lies the comparison, one step.  `ComparedIs` is what it makes of a list that has
each name once: the registered commands, and clean only if it was these already.  It rests on `CompareIs`
(replace what differs, append what is missing, delete what no command has taken: as sets, that is what is wanted)
and on `WithoutIs`, what the deletion leaves.  That one is a recursive function over the list.  Induction cannot
be instantiated here, so the proof takes the least position at which the claim fails (`Climb`), and refutes it.  `OverwriteIs`
finds the next place that is not clean; the places before it need nothing.

**Only model-checked.**  Liveness (`Recovers`, `BeatsForever`, `IsFairEventStream`, `EveryRequestEnds`, `Ends`,
`Settles`, `WaitEnds`, `AutodeferAnswers`) needs fairness, which is out of the prover's reach.
The runs that end in a finding state what does not hold.

## Not modelled, and the plan

1. `Permissions`: `Channel.get_permissions_for()`, `Member.get_guild_permissions()` and
   `has_permissions()` against a reference definition of Discord's rules.
2. Listeners other than commands: `dispatch()` starts each as a task, with its arguments converted.

Left out for good: attributes and payloads of the models, the (de)serialisation in
`utils/attrs_utils.py`, processors that only wrap an event's data, the option parsing of the command
decorators, `start()`, which runs the coroutines that are modelled, `ext` (versions, a base
class): sequential conversions of data with no state to go
wrong.  Voice is not supported by the library.
