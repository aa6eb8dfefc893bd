# int3rceptor: a verification development

int3rceptor is an intercepting HTTP proxy with two front ends: a Rust workspace
(`core`, `api`, `cli`), a Vue interface (`ui`) and a Vue desktop program
(`desktop`).  This directory holds TLA+ models of the parts whose behaviour depends
on the order in which tasks, requests, answers, timers and crashes come, the TLC
instances that check them, and TLAPS proofs of what they keep for every value of
their constants.  Paths below are relative to `src/int3rceptor/`.

## How the system hangs together

```
 browser / desktop                    API server                     proxy tasks
 UseWebSocket <------ LiveFeed <--- broadcast <--- PushAnnounce --- Proxy (one task per
 pages, tabs, stores --HTTP--> ApiGuards,                            connection) --> Rules,
                               RateLimiter --> handlers              Scope, Scanner, Metrics
                                                 |                        |
                        Project, Intruder, Scanner, WsCapture     Capture (deque + SQLite)
```

All of the server is one process with a multi-threaded runtime.  Its components are
shared objects behind locks and atomics; no lock is held across two of them, and few
across two fields of one.  The front ends are single-threaded, but every `await` lets
other handlers in, and answers come in any order.

## Components and modules

| Component | State and operations | Modules | Theorems |
| --- | --- | --- | --- |
| Traffic capture and storage (`core/src/capture.rs`, `storage.rs`) | deque, id counter, channel, SQLite table; push, clear, load at start | `Capture`, abstract `TrafficLog` | `CaptureProofs` |
| Projects (`core/src/project.rs`, handlers of `api/src/routes.rs`) | file, info, scope, the table; save, load, new | `Project` extends `Capture` | `ProjectProofs` |
| Intruder (`core/src/intruder.rs`) | flag, results, a driver and workers per attack; start, stop, clear | `Intruder`, abstract `AttackSession` | `IntruderProofs` |
| Attack payloads (`core/src/intruder.rs:166`) | pure: the requests of an attack | `Payloads` | `IntruderProofs` |
| Scanner (`core/src/scanner/mod.rs`) | flag, findings, two counters; active and passive scans | `Scanner` | `ScannerProofs` |
| Proxy (`core/src/proxy.rs`) | per connection the request it is at; rules, scope, counters, captures | `Proxy` | `ProxyProofs` |
| Rules (`core/src/rules.rs`) | list of rules; rewriting of messages | `Rules` | `ServerProofs` |
| Metrics (`core/src/metrics.rs`) | independent atomics; record, reset | `Metrics`, `Durations` | `ServerProofs` |
| Rate limiter (`core/src/security.rs`, used by `api/src/auth.rs`) | global bucket, a bucket per address; check, cleanup | `RateLimiter` | `ServerProofs` |
| API guards (`api/src/ip_filter.rs`, `audit.rs`, `security_routes.rs`) | filter lists kept twice, log file; edits, rotation | `ApiGuards` | `ServerProofs` |
| Captured frames (`core/src/websocket.rs`) | connections, frames with two limits; register, capture, clear | `WsCapture` | `ServerProofs` |
| Live feed, server (`api/src/websocket.rs`) | a receiver per browser on a channel of bounded size | `LiveFeed` | `ServerProofs` |
| Live feed, browser (`ui/src/composables/useWebSocket.ts`) | socket, flags, two timers, promises | `UseWebSocket` | `PagesProofs` |
| Dashboard polling (`ui/src/composables/dashboard/`) | interval, request, retries | `Polling` | `PagesProofs` |
| Toasts (`useNotifications.ts`) | list and timers | `Notifications` | `PagesProofs`, `UiProofs` |
| Proxy switch (`useProxyControl.ts`) | belief about the proxy, one operation, status calls | `ProxyControl` | `PagesProofs` |
| Pages of attack, scan, traffic and frames | intervals, selections, answers under way | `AttackPage`, `ScanPage`, `TrafficView`, `FramesView` | `PagesProofs`, `UiProofs` |
| Requests page (`ui/src/App.vue`) | list, filter, clear | `RequestsPage` | `UiProofs` |
| Tabs of transactions and of frames | event socket, lists, selections | `EventSocket`, `TrafficTab`, `WebSocketTab` | `UiProofs` |
| Tabs of scope, rules and repeater | edits, saves, local storage | `ScopeTab`, `RulesTab`, `RepeaterTab` | `UiProofs` |

`MCCapture`, `MCProject`, `MCIntruder`, `MCScanner` and `MCPayloads` instantiate one
module each; `Proxy` and `UseWebSocket` have only constants that a `.cfg` can give.
`MCParts` and `MCUi` each run many modules as a *sum*: the parts share no state, so
the first state chooses one and only that one moves.  TLC then explores the states
of each part and not their product, while `MCParts` still takes `Capture` by
`INSTANCE` under the keys that `MCCapture` does not use.  `PartsInit` and `UiInit` fix
the initial choices of the parts that stay still, to which nothing refers.

Definitions whose comment begins with *Mutant* are faulty variants of the definition
that follows: no action uses them, and each shows that a property would notice that
fault.

## What is hard, and what makes a component correct

**Capture.**  Nothing spans the counter, the deque, the channel and the table: tasks
interleave between them, a clear falls into a push, an insert fails and is only
logged, a crash comes anywhere; a start whose query fails, on a row of another key, a
database that is locked or a disk that is not there, says nothing and counts from one
again over a full table.  *Correct:* one entry per id in memory, what is stored was
announced, what is cleared stays away; under one key one exchange per id, and a table
that is only added to, but for the rows that were there at a start that read none.

**Projects.**  Saving, loading and making anew take many steps while pushes go on; a
load may fail half way; a crash leaves a torn file; the loader writes ids the counter
is not told of.  *Correct:* a load that succeeds restores the file and nothing beside
it but what was captured meanwhile, and pushes replace no row that a start has read.

**Intruder and scanner.**  One flag does for all attacks, and one for all scans; it is
read before a permit and a delay are awaited and not after; a panic leaves it up.
*Correct:* no request
is answered twice, the concurrency is respected, a stop lets at most one more request
out, everything ends or panics, and the list of findings and the counter agree.

**Proxy.**  Rules and scope change between the steps of a request, the client may hang
up at any `await`, and the counters are set to zero one after the other under way.
*Correct:* what is captured is what the server was sent and the client was answered; the
counters add up but for what the last reset met.

**Rules.**  Each rule sees the message as the one before left it, and bodies are
decoded lossily.  *Correct:* `Content-Length` fits the body, and nothing is rewritten
in which no target occurs.

**Metrics.**  Four stores make a duration and a reset.  *Correct:* the maximum is the
maximum since its reset; the histogram holds what was counted.

**Limiter and guards.**  Two locks make a check, three an edit of the filter, which
takes what is no address; a header cannot tell a part of a second; a log is rotated while
entries come, and a rotation or a write may fail.  *Correct:* the number let through is
bounded from any moment, waiting a second longer than told is enough, the filter enforces
the addresses of what it returns, and the log files together hold every entry that was
written once and in order.

**Frames and feed.**  Two limits, ids from the length of the list, receivers that lag.
*Correct:* the newest frames stay; without a lag a browser gets all, once, in order.

**Front ends.**  Answers cross, timers outlive the variable that held them, pages are
left with requests under way.  *Correct:* one connection and no other, nothing goes
on unseen but in the ways the code has, what is shown answers what was last asked,
stored history is kept, and everything comes to rest.

## How the models correspond to the code

The comment of every module says what a step is; the points that need an explanation:

* **`Capture`.**  An exchange is the number of the push that made it.  `PushAllocate`
  (`fetch_add`), `PushMemory` (the critical section), `PushAnnounce`, `PushPersist`
  (may fail) are the steps of `push`; `ClearMemory`, `ClearStorage` those of `clear`;
  `Restart(k)` is a crash or shutdown anywhere, then `with_storage` under key `k`; `Load`
  is its query, any error of which leaves no entries and the counter at one
  (`capture.rs:96`).  `unread` is history: the rows that were there at such a start, which
  pushes may replace.  `TrafficLog` sees the table as a function that is extended under unused ids, or
  emptied; its `Forget` is such a start, after which the rows of that time are anybody's.
* **`Project`.**  `SaveBegin`/`SaveEnd` are the truncation and the write; `LoadScope`,
  `LoadInfo`, `LoadClear`, `LoadInsert` (a row at a time), `LoadEnd` follow
  `project_load`; `NewInfo` to `NewScope` follow `project_new`, whose lock on the info
  holds `LoadInfo` up.  Every step of `Capture` interleaves.
* **`Intruder`, `Scanner`.**  A driver's program counter and a set of workers or tests
  per attack or scan.  `Panic` of the intruder is an overflow in `generate_requests`
  or a semaphore asked for more than `MaxPermits`; `Begin` of the scanner has the latter,
  and `Judge` the cut of the evidence within a character (`scanner/mod.rs:264`), which
  ends one test.  These are builds that unwind: a release build aborts (`Cargo.toml:43`),
  which ends the process and with it the behaviour.  The scanner's driver reads the flag
  in `Check` and lowers it in `Leave`, after the loop.  `AttackSession` has attacks, answers
  and the flag only.
* **`Payloads`.**  A text is a sequence of tokens, a position's name its marker.  A job
  (kind, positions, payloads and the build that runs it) is judged against a definition
  by sets.  Where the combinations do not fit into a word of `WordSize`, a debug build
  panics and a release build wraps and sends a part: `AttackIsComplete` says both.  The template is a constant: any
  text of markers and other tokens.
* **`Proxy`.**  `conn` is what a connection is (new, open, waiting for an upgrade,
  closed), `inFlight` the step its request is at.  A message carries the set of rules that
  were in force when they were applied.  Hanging up is possible wherever the task waits.
  Connections are served without upgrades (`proxy.rs:153`), so CONNECT is answered and
  captured and then the connection ends: no tunnel and no TLS follows, and `accept_tls`
  and `tunnel` are never past their first `await`.  That is HTTP/1; a client of the
  server's HTTP/2 is not modelled.  `Statuses` has one that no class counts
  (`metrics.rs:141`).  `ResetTotal` to `ResetRest` are `Metrics::reset`, and `straddled`,
  `abandoned` and `classless` are history: the requests that the sums do not have.
* **`Rules`.**  The read lock covers all rules of a message, so edits fall between
  messages, and a rule is only chosen when a message meets it.  A body is a sequence
  of characters, among them a byte that is not UTF-8 and what decoding makes of it.
* **`Metrics`, `Durations`.**  Counters are functions of a record that `Proxy` applies;
  a duration is recorded by `Drop` (the sum), `Count`, `Compare`/`Load`/`Swap` (the
  compare-and-swap loop) and `CountBucket`, beside the four stores of a reset.
* **`RateLimiter`.**  `CheckGlobal` and `CheckBucket` are the two critical sections,
  `Tick` is the clock.  `watch`, `passed`, `allowed` and `promised` belong to an observer;
  `promised` is what the header says, whole seconds of the interval (`auth.rs:124`), which
  is none of 600 ms, so the property adds a `Second`.
* **`ApiGuards`.**  A handler writes sets, configuration and log entry in three steps
  under three locks.  A configuration is any of `Posted`, checked by nobody: entries that
  are no addresses (`Garbage`) stay in its lists and are left out of the sets, and a mode
  that is none blocks like a blocklist.  `GuardsInit` has the default or what `main.rs`
  reads.  `Write` may meet no open file or fail; both lose the entry.  Names of archives
  are taken as different; the single removals have no caller.
* **`WsCapture`.**  `TakeId` and `Push` are the two critical sections of a capture.  A
  connection is registered once, as ids are random.
* **`LiveFeed`.**  The channel is its last `ChannelSize` exchanges; `Lag` is the error a
  slow receiver gets once.
* **`UseWebSocket`.**  JavaScript runs a task at a time, so a handler is a step.  A
  timer may fire at any time after it was set; `strays` counts timers that no variable
  holds any more.
* **Pages and tabs.**  A request is asked, handled by the server at some moment and
  answered later, or fails; requests under way are a sequence or a set from which any may
  be answered next.  The server's part of `RequestsPage` is that of
  `capture.rs`: a clear whose DELETE failed is answered as done, and a query that failed as
  one that found nothing.  Variables such as `left`, `doubt`, `misread`, `crossed`, `lostEdit` and
  `unstored` are history: they say that one of the ways has happened in which the code
  loses track, and the properties name them.

## Runs

| Run | What it asks | Result |
| --- | --- | --- |
| `capture_log` | One key, three pushers, a clear, failing inserts, two crashes, starts that cannot read | holds: `GetAndListAgree`, `MemoryIsKeyed`, `StoredWasAnnounced`, `ClearedStaysCleared`, refinement `LogSpec` |
| `capture_reload` | Does eviction take the oldest after a restart | violated: `EvictsOldest` |
| `project_load` | Save and load beside pushes, clear, new project, errors, a crash | holds: `LoadRestores`, `PushReplacesNothing` |
| `project_new` | Is a new project empty | violated: `NewProjectStartsEmpty` |
| `intruder` | Attacks stopped, restarted and cleared at any time, some of which panic | holds: `ResultsDistinct`, `ConcurrencyBound`, `OneMoreAfterStop`, `IdleMeansFinished`, refinement `SessionSpec`, liveness `AttacksEnd` |
| `intruder_restart` | One attack at a time, after a stop | violated: `OneAttackAtATime` |
| `scanner` | Two scans, a passive scan, stop, clear, panics | holds: `ScanBound`, `CountersAgree`, liveness `ScansEnd` |
| `scanner_flag` | Does the flag tell that a scan is under way | violated: `RunningIsTold` |
| `parts` | The nine parts of the server listed below | holds: 14 properties |
| `proxy_connect` | Is a connection there to be used whose CONNECT was answered with 200 | violated: `TunnelLasts` |
| `ui` | The fourteen parts of the front ends listed below | holds: 10 properties |
| `socket_lost` | Is a lost connection of the feed replaced | violated: `ReconnectsAfterLoss` |

**`parts`.**  *Limiter*: `AllowedIsBounded` (from any moment, a full bucket, one token
per interval and one more), `RetryAfterHolds` (a second more than the header says is enough).
*Durations*: `MaximumIsKept`, `DurationsAgree` (once nothing is under way and no reset
met a timer).  *Guards*: `ConfigIsEnforced` (of what parses, and unless the last
edits overlapped; blocked loopback passes where loopback is allowed), `AuditKeepsEntries`
(all that was written, and no entry meets a closed file but after a failed rotation).  *Frames*:
`NewestStay`.  *Proxy*: `ExchangeIsRecorded`, `MetricsAddUp` (but for the requests
that the last reset met).  *Capture* with a key and
without, in turn: `CaptureHolds`.  *Payloads*: `AttackIsComplete`.  *Feed*:
`FeedIsComplete`.  *Rules*: `MessageIsSound`.  `PartsOK` is the type invariant.

**`ui`.**  *Socket*: `OneConnection`, `ConnectedIsOpen`, `CleanupIsFinal`.  *Toasts*:
`ToastsAreTimed`.  *Switch*: `FlagIsRight`.  `FeedsAreTracked` says of all pages that
whatever keeps them up to date is held by the variable that ends it, but for the ways
each page loses it; `ShownIsAsked` that what is shown answers the last question if
that answer came last, where the code gives answers in any other order no
protection (`App.vue:203`, `TrafficView.vue:94`, `ScopeTab.vue:77`); a clear that the server could
not do brings its rows back; `HistoryIsKept` is about the repeater; `Settles` is liveness:
feeds, dashboard and toasts come to rest.  `UiOK` is the type invariant.

`ConnectedIsOpen` goes one way only: the flag may be down while the feed is live, when
the close event of a former socket comes late (`useWebSocket.ts:368`).

### Bounds, and why they are enough

Every bound is a constant of its module and guards one action.

* `capture_*`, and *capture* of `parts`: with a capacity of 2 every push after the
  second evicts and a restart loads less than the table; pushers overtake each other
  between any two steps; two restarts let a second key read what the first wrote, and
  come back.  One key and none are the only pair for which the reader decides whether a
  row can be read.  With `StorageMayFail` any insert, DELETE and start may fail.  `capture_log` has one key because its refinement is about one; the
  theorems about memory and clears hold for any keys.
* `project_*`: one client per handler, two pushers, two exchanges, a page of two rows:
  a save, a crash and a load of the older file fit in.  The cut of a file at 500 rows is
  in the model (`ExportLimit`), but needs more exchanges than these runs have.
* `intruder`, `scanner`: two attacks or scans are what one flag can confuse; 3 requests
  under a concurrency of 2 (2 targets under 1) make a driver wait for a permit; sizes
  and concurrencies of zero are there, and one above `MaxPermits`, which is 2 or 1 in
  place of the 2^61 - 1 of the library.  `scanner` has a first scan
  of two targets, a second of at most one, one passive scan and one clear.
* `parts`: two tasks per part meet at every step.  *Limiter*: two tokens per four units
  make an interval of two, so that refills lose a unit at times; five units are a window
  and what follows, a second is one and a half intervals, and `max_age` is the
  least that is sound.  *Durations*: 0, 500 us
  and 3 ms fall into different buckets.  *Frames*: limits of 3 and 2 with four frames
  and two connections make both bite, in either order.  *Proxy*: two connections, two
  requests and one edit of the rules or the scope, or one reset in its four steps, which
  falls before, between or after the steps of both.  *Guards*: lists with an address, a
  loopback address and an entry that is none.
  *Payloads*: a template with both markers; up to three payloads at two positions and
  a word of 8 overflow (3^2 > 8).  *Feed*: a channel of 2 and five exchanges let a browser lag twice.
  *Rules*: bodies of two characters and three rules a message.
* `ui`: two attempts and four sockets let attempts run out while a socket, its
  replacement and their late events overlap; elsewhere at most two requests of a
  kind are under way at once, which is what can cross, with one or two more to follow.
* `proxy_connect`, `socket_lost` and the other violations need no more than a
  connection, a request or a restart or two.

Symmetry is used where tasks and addresses are exchanged as a whole (`parts`,
`project_load`); both check invariants and step properties only.
`CHECK_DEADLOCK FALSE` is set everywhere: a proxy nobody talks to and a component
that is gone do stop, and the bounds stop the rest.

### Fairness

`Capture`, `Project` and all of `parts` state safety only: a process may crash for ever
and nobody need send a request.  `Intruder` and `Scanner` assume that the runtime polls
every task that can go on and that a connection ends in an answer or an error (weak
fairness per driver, and on the set of workers).  Requests have no timeout
(`core/src/connection_pool.rs:22`), so a server that holds a connection for ever is
outside that assumption.  `UseWebSocket` assumes that timers fire, that the interval of a
promise runs and that a socket being closed closes; `Polling` that retry timers fire
and that a request ends; `Notifications` that the timer of each toast fires.  Nothing is
assumed of users or of what a server answers.

## What the violated runs show

* **After a restart the newest entries are evicted** (`core/src/capture.rs:98`): the
  loaded rows go in oldest first at the end from which `push` evicts.
* **A new project keeps the old traffic** (`core/src/project.rs:183`): only the table is
  emptied, an error of that is ignored, and memory keeps everything.
* **Two attacks at once** (`core/src/intruder.rs:156`): stop lowers the flag while the
  driver waits; the next start raises it and both go on.
* **The scanner's flag is down while targets are tested**
  (`core/src/scanner/mod.rs:178`), and those targets, which read it, are abandoned.
* **CONNECT is answered and the connection ends** (`core/src/proxy.rs:153`): connections are
  served without upgrades, so the tasks that were to accept TLS or to copy bytes get an
  error (lines 404 and 457), against the "Full HTTP/HTTPS proxy with TLS MITM" of
  `README.md:55`.
* **A lost live feed is not replaced** (`ui/src/composables/useWebSocket.ts:368`):
  `onclose` leaves the closed socket in `ws`, and `connect()` returns because of it.

One disagreement has no run of its own, as `AttackIsComplete` states what the code does: a
test calls a pitchfork "min(payloads, positions) iterations" (`core/src/intruder.rs:418`) and
its kind "Multiple payload sets" (line 46), while the code makes a request of each payload
of the one list there is (line 238), two of two payloads and one position.  The estimate of
`IntruderTab.vue:273` agrees with the code.

## Proofs

TLAPS checks every theorem from the initial predicate, the step relation and the named
assumptions of the modules, for every value of the constants.  Bounds are constants
too, so nothing depends on the sizes TLC used.  The assumptions ask for numbers that are
natural or positive, for `OneKey` where a theorem names it, for the interval of the
limiter (below), that a semaphore has a permit at all, and for what makes the constants stand for what they model: that no rule
is one of the marks for an exchange without rules (`RuleNames`), that a scope may be empty
and may lose its blank patterns (`ScopeTabAssumption`), that "nothing selected" is no
transaction, peer or frame.

A property over sequences or sums that a fold would hide from the provers is written with
a recursive function (`Without` of `Notifications`, `Held` of `Durations`, `Filled` of `Payloads`); what the
recursion computes is shown by taking the least number for which it would not.

**`CaptureProofs`.**  `MemoryIsKeyed` is not inductive: a push that overtakes another
must not meet its id.  `IdInv` adds that ids in flight are distinct, below the counter
and not yet in memory.  `AnnounceInv` adds that a push about to store has announced;
`GoneInv` generalises what a clear must remove to sets of past exchanges on which no
push works and which memory does not hold.  Under the hypothesis `OneKey`, `StoreInv`
adds that no row has an id in flight or still to be handed out, but for the rows in
`unread`, those of a start that could not read the table; `StorageIsALog` (the refinement,
whose abstract log has the same exception), `IdsUnused` and `AgreeInv` follow.  Without
`OneKey` these are false, and without the exception too, for the first push after a
start that read nothing replaces the row of id 1.

**`ProjectProofs`.**  `FilesInv` says what a file and a loader may hold; `ReloadInv` that
every exchange of the file is in the table already or still to be inserted unless the
table was wiped since, so that the answer 200 means what it says.  For the pushes,
`SpentInv`: the rows, and the files this process has written, hold only ids that no push
will store any more, until a file of an earlier process is loaded; `unread` is excepted
as before.

**`IntruderProofs`.**  `WorkInv` bounds workers and results of an attack by its driver's
position, so nothing is spawned twice; `FiniteInv` lets `ConcurrencyBound` count;
`LateInv` says where a driver is after its late worker; `SoloInv` is about states before
any stop.  `IsASession` maps each step to one of `AttackSession` or a stutter.

For `AttackIsComplete` of `Payloads` there is nothing to strengthen; the work is in what the
code's loops over lists compute.  Replacing one marker is a map of tokens to texts; two
such maps one after the other are one (`MappedTwice`), and as payloads hold no markers a
later replacement leaves what an earlier one put (`PutStep`).  So filling in the positions
one by one is replacing all markers at once (`Filling`).  For a cluster bomb, the indices
that give a choice of payloads are built digit by digit, and are less than the number of
combinations (`DigitsReach`).

**`ScannerProofs`.**  `BoundInv` joins the types, `PayloadsLeft` (a payload under way
is one of the payloads), `Fresh` (a scan not yet started has no tests) and the
finiteness of the tests with `ScanBound`: a permit is taken before the test that it
pays for exists, and a test moves or ends without becoming two.  For `CountersAgree` a
ledger keeps the books at every step: the counter is behind the list by what active scans
have yet to count, and ahead of it by what a passive scan has counted and has yet to list.

**`ProxyProofs`.**  `RecordInv` says what a request under way has left so far (no answer
and no capture, but with a scan if it is about to be captured), that no two connections
are at the same one, and that requests to come have left nothing: `ExchangeIsRecorded`
speaks of those that are over.  `BooksInv` counts connections and requests under way as
finite sets, which each step enlarges or lessens by one as it changes a counter; while a
reset is under way, what has been set to zero counts no more than the requests that the
reset met (`straddled`), which is what the sums miss when it is through.

**`ServerProofs`.**

* *Limiter.*  The bound is an account: the tokens taken since `watch` and those still in
  the bucket are paid for by the full bucket and whole intervals up to
  `last_refill`, not up to now.  A bucket that is dropped leaves an account that may
  begin with a full one, which needs that a bucket fills up within `max_age`; the
  assumption is `max_age >= window >= max_requests > 0`, that is 300 s, 60 s and 100
  requests in the code.
* *Durations.*  `MaximumInv` adds `SwapsRaise`: a timer about to swap holds more
  than the maximum it saw.  A swap succeeds only if that is the maximum still, so it
  raises it; one that fails looks again.  `BalanceInv` needs no sum over timers:
  any number that is above the maximum and above all that is still to be compared with it,
  times what is counted or will be, is above the sum.
* *Guards.*  `Alone`: if the last edit to begin met no other, it is the only
  one under way, and what it has written so far is what it was sent.  `OpenInv`: only a
  rotation that failed leaves the log without an open file.
* *Frames.*  Frames stand in the order of their capture, whichever of them is removed, and
  no connection has more than its limit; `NewestStay`, a property of steps, says which
  frames a capture may remove.
* *Feed.*  `Served`: what a browser has, what is being sent to it and what it skipped make
  up what was announced since it subscribed, up to its cursor.
* *Rules.*  `RulesInv` carries the property through each rule of a message.
* `PartsInv` joins these with `IdInv`, `AnnounceInv` and `GoneInv` of the capture, for the
  composition.

**`PagesProofs` and `UiProofs`.**  Each part of the front ends has an invariant of its
own.  `LinkInv` of the socket joins its three properties: a connected flag that goes with
an open socket in `ws` makes the next `connect()` refuse, which keeps the connection
single.  `FlagInv` of the switch adds `Begun`: without doubt a start found the proxy
stopped and a stop found it running, for the page and for the server, until the
server has done it, so that going back to the former value is right.  The others
say which timer, interval or request under way belongs to which variable, that requests
are numbered in the order they were asked, and that one whose answer is still to come
either asks what the page asked last or will be followed by one that does.  `UiInv` joins
the fourteen.  TLC has checked it on the instance of `ui` before it was proved.

**Only model-checked.**  All liveness (`AttacksEnd`, `ScansEnd`, `Settles`), because
fairness is out of the prover's reach.  Every invariant and every property of steps that
a passing run checks is a theorem.

## Not modelled, and why

| Part | Reason |
| --- | --- |
| Plugins (`core/src/plugin/`) | The registry stays empty: the default configuration has no plugins, `reload` needs a configured name, and an upload (`routes.rs:66`) hands over a path that contains the plugin directory, which `load_plugin` joins to it again.  Hooks are in `Proxy` as steps without effect |
| Tokens and audit buffer of `core/src/security.rs`, `api/src/session.rs` | No caller |
| Request tokens (`api/src/csrf.rs`) | A table of texts with an age, written once and read once per request under one lock |
| TLS, certificates, encryption | Libraries.  Which rows a key opens is in `Capture`; no tunnel is ever established (`proxy_connect`).  `CertManager` makes a new authority at each start although it finds its files (`cert_manager.rs:71`), which is one statement and no protocol |
| Scope matching, filters, searches, formats, encoders, comparer, integrations | Functions of texts without state; the scope is a set of hosts |
| Two processes on one database | The API server and the CLI can be started on one file; each would count ids on its own.  Nothing in the code or its documents provides for it |
| Licence, telemetry, arguments of the CLI, website | A check at start, reports to an outside service, text |
| Settings, plugins and sitemap pages, icons, the report generator of `desktop` | Templates, styles and forms over one request |
| Channel subscriptions, backoff and jitter of `useWebSocket.ts` | Callbacks of the component; delays are any delays |
| Messages of `useWebSocket.ts:208` | `parseMessage` drops what has no timestamp, which is every message that the server sends, and `App.vue` watches a `latest` that is not returned.  So nothing arrives, which `RequestsPage` follows |

The front ends' files are mostly templates and styles, and the handlers of the API
mostly one call and a format; the models map the code that has behaviour, about a
tenth of all lines.

Known limits inside modelled parts: HTTP/2 clients of the proxy and of the API are left
out; a load or a new project, which replace scope and rules, is in `Project` and not among the
edits that `ScopeTab` and `RulesTab` meet; the texts of findings and results are
left out; a second click on *Add* in the rules tab adds the rule again, which
`RulesTab` has as a step and no property forbids; `ProjectTypeOK` states the types
of `Project` and holds on the instance of `project_load`, which does not list it.

## Running

In this directory: `tlc -config parts.cfg MCParts` (likewise the other runs; `socket_lost`
and `proxy_connect` take `UseWebSocket` and `Proxy`), `tlapm CaptureProofs.tla` (likewise the
other `*Proofs`).  The longest runs, `parts` and `project_load`, take a few minutes.
