# A formal model of Alex101

Alex101 is a Mineflayer bot that a browser drives. A **bot worker** (Node.js,
`apps/bot-worker`) owns one Minecraft session; a **dashboard** (Next.js,
`apps/dashboard`) is a page that opens a WebSocket to the worker, asks for the
control lock, and forwards keys. This directory holds TLA+ modules of the parts
where ordering, timeouts and lost steps decide whether the program is right, the
TLC configurations that check them on small instances, and proofs, checked by
TLAPS, that hold for every value of the constants.

`PROJECT.json` is the machine-readable index: components, runs, the source lines
behind every definition (`map`), the deliberate mutations each property must
detect (`mutants`), findings, hazards and theorems.

## 1. The system: components, state, interactions

Paths are relative to `apps/bot-worker/src` unless they start with `dashboard`.

| Component | State | Operations | Talks to | What makes it correct |
| --- | --- | --- | --- | --- |
| Control lock (`ControlSessionManager.ts`) | `current`, a 1 s check timer; the store's `controllerId`, `lastHeartbeat`, `movement` | acquire, release, heartbeat, checkHeartbeat, releaseAllMovement | gateway calls it, it patches the store | one holder; no takeover; a silent holder loses it in time; nobody loses it without a cause; a lost lock stops the bot |
| Bot lifecycle (`MinecraftBotManager.ts`) | `bot`, `backoff {attempt, timer, stopped}`, keep-alive timers, listeners on each Mineflayer bot | connect, disconnect, attempt, handleDisconnect, destroyBot, scheduleReconnect | Mineflayer events, gateway commands, auth, viewer, store | one live bot; a stopped bot stays stopped; a lost bot comes back; permanent rejections do not |
| Movement (`applyControl`, `emergencyStop`, nudges) | Mineflayer's control states, the store's `movement` | movement, clear-movement, emergency-stop, nudge | gateway, bot, store | what the user released is released |
| Realtime gateway (`RealtimeGateway.ts`) | connected clients with their `controllerId` | hello, heartbeat, gated and ungated commands, broadcast every 100 ms | dashboards, lock, bot, pathfinder, settings | gated commands need the lock; a close gives it up |
| State store (`BotStateStore.ts`) | the snapshot shown to dashboards, a chat ring | patches, resetRuntime | everyone writes, gateway reads | agrees with the managers it describes |
| Error classification (`errorClassifier.ts`) | none | classifyError, isPermanent | lifecycle | the first pattern that matches wins |
| Navigation (`PathfinderController.ts`) | `current` goal, follow interval, status in the store | goto, followPlayer, cancel, lookAt | gateway, bot, store | a stop reaches every goal and interval; the status says what happens; a goto on CALCULATING has somebody to report its end |
| Viewer (`ViewerManager.ts`) | `active` server | start, stop | spawn listener | one server, unless closing one fails; what is shown as ready shows the current bot |
| In-game login (`runInGameAuth`, `handleAuthPrompt`) | a timer per spawn and per /register | /login, /register | spawn and chat listeners, game server | a player with a password is logged in |
| Settings (`ConfigManager.ts`, `SettingsPanel.tsx`) | the file, `current`, the form, copies captured by listeners and timers | load, update, connect, reconnect, set-settings | gateway, lifecycle, boot | a restart finds the server; the panel shows what is live |
| Logs (`LogManager.ts`) | ring of 1000, listeners | log, subscribe, redact | everyone | bounded, newest kept |
| Microsoft auth (`AuthManager.ts`) | token cache | authenticate | attempt | an attempt waits for it |
| Worker process (`index.ts`) | none of its own | AUTO_CONNECT, HTTP routes, shutdown | lifecycle, gateway | stops the bot before it exits |
| Dashboard page (`dashboard/components/Dashboard.tsx`, `ControlPad`, `MobileOverlay`) | `wsRef`, `isController`, `movementKeysRef`, timers | keys, buttons, focus, heartbeat each 1.5 s, reconnect | worker over the WebSocket | what it stops pressing stops |
| Connections of a page (`openWebSocket`) | `wsRef`, `connected`, `viewerUrl`, a timer per closed socket | token, open, close, retry | token route, gateway | a page keeps trying; a usable socket has its heartbeat |
| Login, tokens (`dashboard/app/api`) | a session cookie, attempts per address | login, logout, token, snapshot, keepalive | page, worker | only a signed-in page gets a token |
| Shared clamps (`packages/shared`) | none | clampYaw, clampPitch, normalizeHotbarSlot | page, lifecycle | range and idempotence |
| Panels, inventory and entity readers, deployment | projections | forms, reads | | no protocol of their own |

How they interact: a page fetches a token, opens a WebSocket, says *hello* and
becomes controller if the lock is free. Its commands reach the gateway in order,
which checks the lock and calls the bot manager. The store collects what the
managers report; a snapshot of it goes to every page ten times a second, and a
page believes it has control when the snapshot names it. Mineflayer events
(`spawn`, `kicked`, `error`, `end`) run listeners of the bot manager, which
await, and other events run in between.

### What is hard

* **Interleaving at awaits.** `attempt()` waits for a login and an import,
  `destroyBot()` for `end` or 4 s, the spawn listener for the viewer; each reads
  `this.bot` or `backoff` before the wait and acts on it after.
* **One loss, two handlers.** A kick quits the bot, whose `end` is handled again.
* **Two states for one thing.** The store's movement and the bot's keys; the
  store's controller and the manager's; the page's flag and both.
* **Time.** A dead-man timeout, a backoff, a fallback, nudges that release a key
  later.
* **Unreliable connections.** A close seen late, a message never sent, a new
  connection before the old one is gone; several retries that share one
  reference.
* **Steps that fail half-way.** A `stop()` or a `close()` that throws and is
  caught, after which the code forgets what goes on.
* **Captured copies.** Options, bots and URLs that a closure keeps while the
  state it was taken from moves on.
* **Crashes.** A settings file written in place.

`PROJECT.json` lists each hazard at its line with the properties that cover it.

## 2. The plan

In this order, the most important behaviour first:

1. `ControlSession` and `DeadmanLease`: who controls the bot.
2. `BotLifecycle` and `BotSlot`: whether there is a bot.
3. `Dashboard`: the page composed with the worker.
4. `ReconnectPolicy`: when a lost bot is tried again.
5. `Navigation`: goals that overlap at the import of the pathfinder.
6. `PageSocket`: how a page opens, replaces and retries its connection, below
   `Dashboard`, which assumes one socket at a time; signing in and out.
7. `Spawned`: viewer, keep-alive loop and in-game login of a bot that may be lost
   and replaced meanwhile, beside `BotLifecycle`.
8. `Settings`: the options, their copies and the file, across crashes.
9. `Rings` and `Feed`: chat from the game to the page; `Bounds`: the clamps.
10. Proofs for all of them: every safety invariant a passing run checks is a
    theorem.

Left: the fixed window of the login limiter; more action properties as theorems.

## 3. Modules and the code

### ControlSession (the lock and the held keys)

A connection is an element of `Conns`, a page a `controllerId` in `Browsers`.
`current` is the manager's field, `controllerId`, `heartbeatSeen` and `movement`
are the store's, `controlState` is what Mineflayer really holds down. The two
movements are separate variables because the code keeps them separately: a
timeout, a close and a respawn empty only the first.

| Action | Code |
| --- | --- |
| `Open`, `Hello`, `SocketClose` | connection, hello and close handlers of the gateway, `acquire` and `release` included |
| `Heartbeat`, `Movement`, `EmergencyStop`, `Disconnect` | the gated messages and the whole of what they call |
| `FinishDisconnect` | `disconnect()` after its wait: `resetRuntime()` |
| `CheckHeartbeat`, `Tick` | the 1 s interval; the clock |
| `BotCreated`, `BotReady`, `BotLost`, `BotRespawned` | a bot as this component sees it: `loading` until Mineflayer has injected its plugins (until then `setControlState` throws and is caught); a second attempt may create the next bot over the first, whose keys nobody can reach then |
| `NudgeStart`, `NudgeEnd` | the post-spawn nudge and the idle watchdog |

`silence` counts ticks since the holder's last acquire or heartbeat. A
re-acquire by the holder refreshes nothing, as in the code.

### DeadmanLease (what the lock promises)

Grant, renew, drop, elapse: an owner that falls silent loses the lease within
`Deadline` ticks. `ControlSession` implements it under `owner <- current`,
`age <- silence`, `Deadline <- HeartbeatTimeout + CheckPeriod`.

### BotLifecycle (the bot)

Every handler is split at its awaits. `Drained` is the rule of the event loop:
continuations that are resolved run before the next event. `closing[b]` is a
`destroyBot()` that waits and why; `callPc[c]` an `attempt()` that waits;
`timerOpts[t]` a pending reconnect timer, `timer` the handle the code remembers,
which may name another one. `Resume` is `destroyBot()` after `end` or 4 s with
the rest of its caller; `End` runs the `end` listener and resolves the wait;
`HandleDisconnect` runs to its end when there is no bot left to wait for.
Commands: `Connect`, `Disconnect`. The reasons are those of `classifyError`;
every `end` counts as `LOST_CONNECTION` (its texts differ, none is permanent).
`ScheduleReconnect` leaves the shown state alone when the manager is stopped or
the options have no autoReconnect, as the code returns without a patch. So OFFLINE
may stay where an error was, and SPAWNED may be shown with no bot listening when a
`spawn` arrives while `disconnect()` waits. `NoLimbo` names that exception
(`stopped`); `Watched` is a bot whose end will still be noticed, or which
`disconnect()` is destroying.

### BotSlot (what the manager promises of its one bot)

Take, give up, fall silent, finish: the current bot is given up with a
`destroyBot()` of its own or replaced by another attempt's, a reason stays with
its bot until the wait is over, a bot that is being destroyed is not taken again.
`BotLifecycle` implements it under `current <- bot`, `heard <- listening`,
`leaving <- closing`. This is what `ControlSession` and `Navigation` build on when
they speak of *the* bot.

### ReconnectPolicy (reasons, counter and delays)

A text is the set of patterns that match it. `ClassifyError` is the codes, the
early *closed* line and then `Rules`, the first of which applies; `Kick` adds the
pattern that the prefix `KICKED` brings. `AfterDestroy` resets or counts,
`ScheduleReconnect` chooses the delay and takes a slot in `left`, the time until
each timer is due. `Lose` is `handleDisconnect` up to its wait, `EndOfClosing`
and `ErrorOfClosing` the later handlers of a bot that is being destroyed,
`Destroyed` the rest of the first. The wait itself takes no time, since 4 s is less than every delay (5 s at least), and no
timer fires during it: those interleavings are `BotLifecycle`'s. `Room` keeps a
loss back until the instance has a timer for every handler it may start.

### Dashboard (the page composed with the worker)

`Dashboard` extends `ControlSession` and adds a page: its socket `ws`, a FIFO
`inbox` for each connection, at most one snapshot under way, the flag
`isController`, what the user's fingers hold (`held`), and what the page knows
as pressed: `tracked` keyboard codes (`movementKeysRef`) and `buttons`. A page
action sends (`Send` drops silently without an open socket); a `Read...` action
takes the first message and performs the `ControlSession` action it stands for.
Either end may see a close before the other.

`held` is the user's fingers, which decide what a key or button can do next.

`KeysToBe`, the keys the bot will hold, is stated and not computed: a key is down
after a queue of messages when it was down before, or a message presses it, and
no later message drops it (`KeysAfter`). The prover cannot reason by induction
about a function that walks through the queue; it can about this.

### Navigation (goals)

A goal is named after the command that asked for it; the name also stands for
the handle the pathfinder returns and for the follow interval. `Goto` and
`FollowPlayer` run up to the import, `Resume` is the rest: a goal (`GoalCreated`);
a handle that is kept although its `once` throws, whose goal walks unheard
(`GoalUnheard`, `deaf`, `EndsUnheard`); a refusal that is caught; or a follow whose
constructor throws outside the `try`. `Calm` is the event loop: once the module is
loaded, a resumed import runs before the next handler. `Arrived`, `PathUpdate` and
`Stopped` are the listeners, modelled as the controller uses these events.
`PathUpdate` with *success* means a path was found: the code shows ARRIVED and
drops the handle while the bot walks on. `stop()` may take effect now, later or
throw (`Halted`): the exception is caught and the handle dropped all the same.
`forgotten` is a history of the goals the controller let go while they walked, in
one of these two ways. `Cancel` is called by the browser, an emergency
stop and a respawn; `Disconnect` and `ResetRuntime` are the two halves of
`disconnect()`. A goal stays with
the bot it was asked of: `replaced` are those of bots that another attempt has
replaced, which walk on when the current bot is lost, and are still reached by
`cancel()`. `sequential` is a history: no goal was asked for while another
waited for the import or had yet to stop. Nothing in the repository loads the
pathfinder plugin into a bot (`setupBot` has no caller either), so in the present
build every `goto` takes the refusal; the other paths are the code as written.

### PageSocket (a page's connections)

`openWebSocket()` goes through a token request, a socket and, once that closes, a
timer that calls it again: a *chain*. The effect starts another chain whenever
`viewerUrl` changes, and all chains share `wsRef`, `connected` and `authError`.
The URL reaches every socket that is open, before its hello too.
`seen` is the `viewerUrl` a chain's closures captured, `authorized` the gateway's
answer to its hello, `fresh` whether the token would still be accepted.
`SocketCloses` is `onclose`, which forgets whatever socket `wsRef` names;
the flag can then be up for another socket while `wsRef` is null.
`OpenDashboard`, `LogIn`, `SignOut`, `SignedOut` are the user and the cookie: the
dashboard page redirects without a valid one, the token route refuses.

### Spawned (a bot that has spawned)

A viewer server is named after the bot whose spawn listener started it; `views`
is the bot it shows, which is `this.bot` when the listener ran. A listener waits
for `stop()` of the old viewer, then for the import; `AfterViewer` is the rest of
it. `Destroy`, `Destroyed` and `OrphanEnds` are what `BotLifecycle` describes in
detail, reduced to what they do to the viewer and the loop. `ViewerStopped` has both
ends of `stop()`: the server has closed, or it has no `close()` or `close()` gave an
error, which is caught. Either way the code forgets it; `unclosed` is the history of
the servers that still run after that. The game server (`account`, `authed`) is
modelled from the phrases `handleAuthPrompt` looks for. A `Prompt` is any line that
contains one, of the server or of a player, before the spawn or after it; what the
bot answers before its spawn may not reach the server. `Gone` forgets the timers of
a session that is over, whose messages reach nobody.
`orderly` is a history: every spawn listener was through before its bot was lost,
and every bot was destroyed before the next was created.

### Settings (options and their copies)

A record stands for the persisted settings: `target` (all that only a connect
sets, the password included) and `auto`. `Update` is memory first, then a file that
is truncated and written: it may stay as it was or be torn, and `Load` gives the
defaults for such a file. `bot`, `closing`, `replaced`, `attempts` and `timers` are
the options that listeners, waits, attempts and reconnect timers have captured. A
bot in `closing` has its own options (`own`) and those of the `handleDisconnect`
that waits for it (`then`, null after `disconnect()`). Its listeners stay attached
during the wait, as do those of a bot in `replaced`, over which a second attempt
created its own. `Lose` is an event of any of them: it destroys whatever bot is
current and retries with the options of the bot that reported it.
`Boot` is `main()`
with or without AUTO_CONNECT, `Crash` the end of the process. `orderly` says that
every accepted `connect()` found no bot that still listens, no wait, attempt or
timer left.

### Rings, Feed, Bounds (chat, and the clamps)

`Rings` has the buffers as operators on sequences: `Newest` (`slice(-n)`),
`Pushed` (push, then shift), `Logged` (shift, then push). `Feed` puts them
together: the store's ring, the gateway's push to every open socket
(authenticated or not), the welcome, and what the page makes of it, with an old
connection beside a new one. `source` is a history: the one socket that has fed
what the page shows. `Bounds` has the clamps in tenths of a degree, `%` with the
sign of JavaScript, and the two ends of the mouse look. `clampYaw` returns both
-180 and 180; the title of the test in `packages/shared/test` says (-180, 180].

## 4. Runs

| Run | Kind | Question |
| --- | --- | --- |
| `control` | pass | two browsers, three connections: the store never shows another controller than the manager's, the holder is connected, a silent one loses the lock in `HeartbeatTimeout + CheckPeriod`, nobody in control means no key shown, no loss without a cause; the session implements the lease with its liveness |
| `control_timeout_keys` | violation | *all movement is cleared on a timeout*: only the store's is |
| `lifecycle_safety` | pass | the current bot is alive, the timer handle is pending, a shown state that promises progress is backed (SPAWNED after a disconnect excepted), a stopped and drained manager stays quiet; the manager implements the slot for one bot |
| `lifecycle_live` | pass | `destroyBot()` completes; a lost bot with autoReconnect is tried again |
| `lifecycle_permanent` | violation | *auto-reconnect is disabled for permanent rejections*: the `end` of the kicked session schedules one |
| `dashboard_safety` | pass | while the page keeps its connection and its control, the bot will hold no key (a nudge aside) that the page does not know as pressed, once what was sent has arrived |
| `policy_safety` | pass | conflicts alone never raise the counter past 3; delays stay within their bounds (part of the types) |
| `navigation` | pass | while goals do not overlap, `cancel()` reaches every interval and every goal the controller did not let go on a found path or a failed `stop()`, and the panel shows no other walking goal as finished; a goto on CALCULATING waits for the import, is heard, or is dead with its bot, overlapping or not |
| `page_socket` | pass | a page without a usable socket shows an error or has an attempt under way; a usable socket has its heartbeat and the connected flag; the flag stands for some socket that is not closed yet |
| `spawned` | pass | in orderly runs the viewer shown as ready shows the current bot and no viewer is left behind but one that would not close; in all runs a spawn that waits for a viewer ends in the keep-alive loop, and a spawned player with a password sends its login; in orderly runs a player the server knows is logged in |
| `settings` | pass | unless a connect came while something older was left or the last write failed, a restart finds the server of whatever is live, retries of earlier bots included; the panel shows what is live |
| `feed` | pass | a page fed by one connection misses no line and doubles none; the ring holds the newest lines |

Each violation is a place where the code and one of its documents, comments or
messages disagree; `findings` quotes both.

Seven more such places were met, and are described here without a run:

* `MinecraftBotManager` says it owns the live instance; two attempts during the
  first import of mineflayer both create a bot (`attempt`, line 240).
* `destroyBot` waits to *give the proxy server time to fully release our previous
  session* (line 574); a `connect()` during the wait finds no bot and creates the
  next one at once.
* The log line *proxy already connected, waiting longer* (line 171): the `end` of
  the same session schedules a second, shorter timer, which connects first.
* README.md:310, *release all keys*: a key released while the page is
  disconnected is never reported, and the bot holds it after the reconnect.
* README.md:39-41, *focus / visibility loss clears every key*: not one held by an
  on-screen button.
* README.md:312, *the EMERGENCY STOP button clears all bot motion*: a goal whose
  path was found has been let go (`PathfinderController.ts:69-71`), as has one whose
  `stop()` threw; `cancel()` then stops nothing and the bot walks on. The
  invariant that a walking goal is the current one fails in five steps; `OneGoal`
  says that these are the only two ways.
* The comment above `startKeepAliveLoop` (line 476) says it keeps the socket warm;
  a spawn listener that comes through after the next bot's moves the one loop to
  its own bot, and the current one has none. `LoopStarts` is what remains true.

Where the code lets two things race and no document says which wins, the property
leaves the race out, by name (`orderly`, `sequential`, `disturbed`), and the hazard's
note in `PROJECT.json` says so. The widest of them: `disconnect()` keeps the
listeners of its bot for up to 4 s, so the end of that bot, after a `connect()` to
another server, destroys the new bot and retries the old server.

### Bounds and why they are enough

* `control`: ticks of 500 ms make the 3.5 s timeout and the 1 s check 7 and 2;
  the clock stops at `MaxSilence = 10`, beyond every silence the bound allows
  (9). Three connections let a page have an old and a new one while another page
  is connected. `MaxResets = 1`: the end of a disconnect only resets the store, a
  second one pending repeats it. One key, Jump, is enough: keys are independent,
  and Jump is the one the nudges touch. No symmetry, since liveness is checked.
* Lifecycle: two bots, two timers, two attempts are the least with which each can
  be mixed up with another. `Room` keeps an event that may need a timer back
  until there is one for every handler in flight; it postpones losses, it hides no
  order among those in flight. A bot nothing refers to stands for the next one,
  so the number of sessions in a run is not bounded. `MaxAttempt` saturates:
  nothing in that module depends on the count.
* `dashboard_safety`: a code and a button for one key are the least with which
  a release can concern a key still held elsewhere and with which a key can be
  known to one of the two sets only; two messages in a queue are the least that
  can be in the wrong order (three were tried too, with the same result). The timeout is compressed to 0
  ticks with a check each tick, so that it strikes at every point.
* `navigation`: three commands let two goals overlap while a third one stops;
  names are reused, so runs have any number of goals.
* `page_socket`: three chains are a socket, the one that replaces it and the
  timer of an older one. Chains that ended are reused.
* `spawned`: two bots, the lost one and the next; names are reused when nothing
  refers to them.
* `settings`: two servers, one of them the default; two captured options beside
  the bot, those of closing and replaced bots included: the least with which a
  timer and an attempt, or a closing bot and a retry, disagree (`MaxPending`).
  Equal options that are captured twice count as one.
* `feed`: the ring holds 3, a welcome 2, the page 3 (200, 50 and 200 in the code;
  what matters is that a welcome is shorter than the ring and that all overflow),
  five lines (`MaxLines`), an old and a new connection.
* Policy: one unit is 1.5 s, so the delays keep their proportions (base 1, cap
  40, least 3, extras 20 and 10; the jitter of 0.5 s is rounded up to 0 or 1).
  `MaxAttempt = 7` is where the base delay has reached its cap. Three timers:
  one left over from an earlier loss and two from the present one.

### Fairness

`ControlSession.FairSpec` assumes that the interval timer keeps running (weak
fairness of `Tick` and `CheckHeartbeat`); nothing is assumed of browsers, which
may fall silent. `BotLifecycle.FairSpec` assumes that Node.js finishes an import,
fires a due timer and runs a resolved continuation: weak fairness of the import,
strong fairness of `Resume` and `TimerFires`, because a timer has to wait while
microtasks run and is not lost by it. The server owes no `spawn` and no `end`
(the 4 s fallback is what `DestroyCompletes` rests on), the Microsoft login no
answer. `Spawned.FairSpec` assumes that a started import returns and that login timers fire,
and nothing else: neither that a bot ends nor that the wait for it does. `close()`
of a viewer may be held up by a page that keeps its connection, so the three
liveness properties are conditional on a listener that does not wait for it for
ever (`[]<>(waiting[b] # "stop")`). The other modules are checked for safety only.

`CHECK_DEADLOCK` is on everywhere.

## 5. Proofs

Every safety invariant of the passing runs is a theorem, and so are the action
properties and the refinements, of the lease its safety part. All hold for any sets of
browsers, connections, bots, timers, options, texts and keys and any timeout or
capacity, under the named assumptions of each module (`ControlAssumption`,
`LifecycleAssumption`, `PolicyAssumption`, `NullAssumption`,
`DashboardAssumption`, `NavigationAssumption`, `PageSocketAssumption`,
`SpawnedAssumption`, `SettingsAssumption`, `FeedAssumption`: numbers are naturals
and capacities at least 1, null values are not elements, the clock's bound lies
beyond the timeout). Every inductive invariant named below was checked by TLC on
the run's instance before it was proved.

* **DashboardProofs**, the control session. `LockInv` is the conjunction of types,
  `StoreNamesHolder`, `HolderHasSocket`, `DeadmanBound` and
  `UnattendedShowsNoMovement`; it is inductive as it stands, because they lean
  on each other: a close releases the lock its connection names, so the holder
  keeps a connection; the bound needs the clock at 0 while the lock is free.
  From it `LockLoss` (an action property) and `LeaseRefinement` (every step is
  a step of the lease or a stutter).
* **DashboardProofs**, the page. `PageRefinement`: the composition implements
  `ControlSession`. The only invariant it needs is that what is under way was
  sent by the page (`LinkTyped`), so that a movement names a key. `PageLock`
  carries the theorems of the lock over. `KeysFollow` is the theorem the module
  is for. `KeysFollowPage` speaks of the keys after the messages under way, and
  is not inductive: it says nothing of what else might be under way. `DashInv`
  adds that a bot that is not live holds no key and, while the page keeps its
  connection and its control, `Calm`: nobody else holds the lock, the only open
  connection and the only queue are the page's (`CalmLock`); a page that is
  shown as controller knows every key that will be down, and one that is not has
  no press under way and its bot holds none but a nudged Jump (`CalmKeys`). Its lemmas
  are about `KeysAfter`: what appending a message does to it (`KeysSent`), what
  reading one does (`KeysRead`: nothing, it only moves to the bot), that it is
  monotone in the keys already down, and that a queue without a press only takes
  away. One step per action of the page and of the worker.
* **DashboardProofs**, the clamps, for every number of tenths: whole turns only
  are taken off, page and worker clamp alike, a slot asked for is one of nine.
* **BotLifecycleProofs.** `LifeInv` is types, `CurrentBotAlive`,
  `TimerHandlePending`, `NoLimbo`. That the current bot is alive needs that
  destroying makes it not current; that SPAWNED has a listener needs that only
  `disconnect()` can be overtaken by a spawn; that a promising state is backed needs both,
  for a timer that fires for nothing because there is a bot, which is then watched. One lemma for each
  helper (`ScheduleEffect`, `AfterDestroyEffect`, `StartEffect`,
  `HandleDisconnectEffect`) and one step per action. `StaysQuiet` is an action
  property: once stopped and drained, only `Connect` starts anything.
  `SlotRefinement`: every step is a step of `BotSlot` or a stutter; that the end
  of an older `destroyBot()` leaves the current bot alone, and that no reason is
  overwritten, is where `CurrentBotAlive` is needed.
* **ReconnectPolicyProofs.** `ConflictsBounded`: the counter is at most 2 between
  losses and the `end` of a bot that is being destroyed adds one at most, before
  the kick resets it; `Settled` says so and is inductive. `TypeCorrect` includes
  the bound on delays: no exponent matters, since the base delay is the smaller
  of the power and the cap.
* **NavigationProofs.** `NavInv` adds to the properties what they rest on: while
  goals do not overlap, a command that waits for the import finds no handle, no
  interval and nothing that walks (`ImportAlone`), and a goal that stops has no
  successor (`StopsAlone`), so a late *stopped* cannot clear another goal's handle;
  and, overlapping or not, a goto on CALCULATING has a live or dead handle that took
  its listeners, or a goto at the end of the queue (`GotoBacked`). A goal in
  `forgotten` walks unknown to the controller; a command given meanwhile overlaps
  with it and ends `sequential`.
* **PageSocketProofs.** `SocketInv` replaces `NeverStranded`, which is not
  inductive, by `KeepsTrying`: with `wsRef` null, a token request, a timer, an
  error or the effect is outstanding. That needs `RefIsSocket` (what `wsRef` names
  is not closed), and `AwayIsUnmounted` for the pages without a dashboard.
* **SpawnedProofs.** `SpawnedInv` says that the current bot is open and, in
  orderly runs, that there is one session (`OneSession`), that a listener that
  waits is the current bot's (`ListenerIsCurrent`), that what is shown belongs to
  a bot that has spawned, that nothing is shown between two bots, and that a
  server which runs is the active one or one that would not close.
  `ReadyShowsCurrent` and `OneViewer` follow.
* **SettingsProofs.** `SettingsInv` says that in orderly runs everything live, bots
  being destroyed or replaced and the handlers that wait for them included, has the
  options that memory, panel and, unless a write failed, file agree on; every
  capture copies from one that agrees. What a loss does to the set of captured
  options, whichever bot reports it, is a lemma of its own (`LossEffect`).
* **FeedProofs.** The rings for every capacity and any length of history: pushing
  keeps the newest lines, and the newest of the newest are the newest, which is
  what a welcome relies on. `FeedInv` then says, of every open connection, that
  the lines under way behind a welcome run up to the last one said, that the
  welcome ends where they begin (`WelcomeUpToDate`), that no second one follows
  (`OneWelcome`), and once it has arrived the same of what the page shows
  (`SourceUpToDate`). `NoGap` follows: what is shown
  and what arrives are consecutive and end with the last line said.

Only model-checked: liveness under fairness (`SilentHolderExpires`,
`DestroyCompletes`, `LossIsRetried`, `LoopStarts`, `LoginSent`, `KnownPlayerLogsIn`, the fair
part of `ImplementsLease`), which is out of the prover's reach, and the two
violations, which are counterexamples.

## 6. What is left out, and why

* In the modules: the telemetry of the bot (no decision depends on it); origins,
  JSON and the shape of messages; repeated normalisation of a bot that has ended; the
  token cache of the Microsoft login, which only shortens a wait; an
  `await import` that rejects (a broken installation).
* A page's `controllerId` is the same on all its connections and different from
  every other page's (`makeId`).
* Keys typed into a text field are ignored by the page: `KeyDown` may do nothing.
* The login limiter: each address has a counter that is read and updated without
  a wait in between, and no document states a bound over a sliding window.
* `log` events: no listener subscribes to the log, so a page's logs stay as its
  last welcome brought them; only the ring is modelled.
* The components the plan still lists are `not_modelled` or `partly` in
  `PROJECT.json`. Panels, inventory and entity readers, password hashing, cookies,
  HTTP routes that only read, probes and hosting files are not planned: rendering,
  projections, cryptography and configuration.
