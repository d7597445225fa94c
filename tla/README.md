# Temstream: models, checks and proofs

This directory holds TLA+ models of temstream, the TLC configurations that
check them on small instances and TLAPS proofs of their main theorems. The
models are translated from the code, never from its documents. `PROJECT.json`
maps every definition to the lines it stands for and lists runs, mutants,
theorems and hazards.

    tlc -config registry.cfg MCDeviceRegistry.tla    # model-check one run
    tlapm DeviceRegistry_proofs.tla                  # check one file of proofs

## 1. The system

Temstream is a remote desktop: *Sunshine* runs on each machine and streams its
screen, *moonlight-qt* and *moonlight-android* show it, and a *backend* (Go,
gin, gorm, SQLite) knows the machines, the users and who owns what. Sunshine
and the clients come from upstream projects; the backend, Sunshine's backend
client, the configuration tool and the login of the clients are temstream's
own. Of Sunshine we model what its threads do to each other: pairing, launch
and sessions, tasks, input.

| Part | State | Operations | Talks to |
|---|---|---|---|
| Backend, devices: `backend/core/monitor.go`, `api/devices_api` | table `devices` | TCP keepalive, register, pin; REST announce, update, delete; monitor every 20 s | Sunshine over TCP, administrators over REST |
| Backend, users and ownership: `api/user_api`, part of `devices_api` | tables `users`, `binds` | add, edit, delete, register and bind, bind, distribute, recycle, passwords, client login | front end, tool, clients over REST; shares the SQLite file with the devices |
| Backend, sessions: `api/utils/helper.go`, `routers/enter.go` | table `tokens` | login, check of the cookie, logout | every REST call of the front end |
| Backend, licence and hosts: `api/utils` | files, commands | daily licence counter, shell commands | the operating system |
| Sunshine, backend client: `Sunshine/src/backend_client.cpp` | globals under `g_mutex`, `sunshine_server.ini` | start, stop, registration, heartbeat, PIN polling | backend over TCP |
| Configuration tool: `Sunshine/config_tool_python` | its copy of `sunshine_server.ini` | open, save | the file, backend over REST |
| Sunshine, pairing: `nvhttp.cpp` | `map_id_sess`, paired clients, certificate chain, state file | four phases of a pairing, PIN, unpair, save, load | clients over HTTP(S), backend for the PIN, configuration page |
| Sunshine, launch and streams: `rtsp.cpp`, `stream.cpp`, `nvhttp.cpp` | pending launch, session slots, broadcast context | launch, handshake, start, stop, join, expiry | clients over RTSP and UDP |
| Sunshine, tasks: `task_pool.h`, `thread_pool.h` | queue, timer list, workers | push, delay, cancel, pop, stop | input and every thread that puts work off |
| Sunshine, input: `input.cpp` | input queue, pressed keys and buttons, gamepads and their ids, timers by address | queue, batch, press, release, repeat, plug, unplug, reset | control thread of a stream, task pool, OS |
| Sunshine, media and services | devices, encoders, ports | capture, encode, UPnP, web pages | drivers, network |
| Clients: `moonlight-qt`, `moonlight-android` | known hosts, a session, frames | poll, pair, launch, decode, pace | Sunshine, backend for login and PIN |
| Front end: `front/` | none that outlives a page | REST calls | backend |

### What is hard, and what makes each part correct

**Devices.** gin and the TCP server run every request in a goroutine. A handler
reads a row (`First`), edits its private copy and writes *all* columns back
(`Save`), without a transaction, and gorm's `Save` *inserts* the row when it is
gone. The monitor does the same with all rows at once. Correct means: one row
per `device_id`, no row that mixes two machines, a PIN given only to its
machine, silence ends Offline, heartbeats end Online.

**Users and ownership.** Nearly every handler is check-then-act over two or
three tables. Correct means: one owner per device; a device changes hands only
on a claim of the new owner; nobody is told he owns what he does not; an
account that was disabled stays disabled when a password is changed.

**Sessions.** Two first logins store two rows; `First` reads one of them.
Correct means: a token that was replaced or logged out never works again.

**Identity of a machine.** Sunshine reads the file once, draws what is missing
and rewrites the file, truncating it first, once for each setting; the tool
rewrites it from a copy as old as its window. Correct means: the backend is
told one identity for ever.

**Backend client.** Three detached threads, one of them the main thread, share
globals; registration is tried once; `recv` never times out. The backend answers
whatever contains "pin", in any case, as a request for the PIN. Correct means:
the PIN and the password arrive whenever a path exists, whatever was missed.

**Pairing.** HTTP, HTTPS and configuration threads share the pairing sessions,
the list of clients and the file without a lock, and because every client sends
the same uniqueid they share *one* session. Correct means: who is listed has
given the PIN in that very attempt; who was told "paired" stays paired; a
client whose request waits is answered, unless no PIN comes or the path to the
backend is cut while the HTTP thread waits for one.

**Launch and streams.** A launch waits for its client under a timer that may
already be queued when it is cancelled; sessions are stopped by five kinds of
threads and joined under a lock. Correct means: nobody works on a session that
was freed, the counter of running sessions is right, launches and sessions end.

**Tasks.** A hand-sorted list and a condition variable. Correct means: no
wake-up is lost, tasks start in order and never early, every task runs.

**Input.** Packets are batched by nine rules while more arrive; timers are known
by addresses that are used again; `reset()` runs beside the worker; gamepads of a
session that has ended live on in its timers; the left, the right and the plain
key of a modifier share one flag. Correct means: nothing is lost or passes what
it must not pass, the OS holds down what the client holds down, a repeating key
can always be stopped, no gamepad's id is lost or given to two.

## 2. Modules

| Module | What it is |
|---|---|
| `DeviceRegistry`, `MCDeviceRegistry` | the `devices` table, every handler that writes it, the monitor |
| `DeviceRegistry_proofs` | theorems `Correct`, `Typed`, `Ownership`, `OwnPin`; of `BackendClient`, `ClientTyped`, `Dialogues`, `Answered`, `StatusTold` |
| `UserBinds`, `MCUserBinds` | the `users` and `binds` tables and their handlers |
| `DeviceOwner` | the ownership the backend promises, without tables or statements |
| `UserBinds_proofs` | theorems `OwnerUnique`, `Implements` (refinement of `DeviceOwner`), `NoFalseSuccess`, `DisabledStays`, `Typed` |
| `TokenSession`, `MCTokenSession`, `TokenSession_proofs` | the `tokens` table; theorems `NoReturn`, `Typed` |
| `DeviceIdentity`, `MCDeviceIdentity`, `DeviceIdentity_proofs` | `sunshine_server.ini`, Sunshine's start and the tool; theorems `Identity`, `Typed` |
| `BackendClient`, `MCBackendClient` | Sunshine's three threads and the backend as they see it |
| `Pairing`, `MCPairing`, `Pairing_proofs` | pairing, unpairing and the state file; theorems `Typing`, `OnlyProvedListed`, `PairedStays` |
| `StreamSession`, `MCStreamSession`, `StreamSession_proofs` | from a launch to the end of its stream; theorems `Typed`, `NeverFreedInUse`, `CountKept` |
| `ThreadPool`, `MCThreadPool` | the task pool and its workers |
| `TaskSchedule` | what users of the pool rely on, without threads or lists |
| `ThreadPool_proofs` | theorems `NothingSleepsThrough`, `KeepsSchedule` (refinement of `TaskSchedule`), `Typed` |
| `InputQueue`, `MCInputQueue` | the queue of a stream's input packets and its batching |
| `Input`, `MCInput`, `Input_proofs` | keyboard, mouse buttons and gamepads over the pool's timers; theorems `TimersFound`, `PadsFound`, `HeldAsClient`, `QuietAfterReset`, `Typed`; of `InputQueue`, `QueueComplete`, `QueueOrder`, `QueueServed`, `QueueTyped` |

Two files of proofs speak of two components that meet: the registry with the
client at the other end of its connections, the queue with the devices behind it.
They extend both, so `BackendClient` and `InputQueue` have names of their own for
what every module has (`ClientSpec`, `QueueSpec`, `ClientTypeOK`, ...).

### How state and actions correspond to the code

*DeviceRegistry.* `devices` is the table, a function from primary keys to rows.
`conns[c]` is the goroutine behind a connection or request: `at` names the SQL
statement it runs next, `row` and `copy` are the `device` local, `answer` is what it
has written to the connection. Every statement is an action of its own:
`KeepaliveById`, `KeepaliveByIp`, `KeepaliveSave` are `handleKeepalive` statement by
statement, and so for register, pin, announce, delete and update. `sweep` is the
slice `CheckAllDevice` has fetched, and `SweepRow` one turn of its loop; copies that
are not Online are never written and are left out. `Restart` loses goroutines and
slice and keeps the table. Values are abstracted to the machine they come from, so a
row that mixes two machines is visible as such. The primary key also stands for the
PIN, which is drawn with the row and never changes. `last_active_time` is an age
that saturates above `Timeout`; `Tick` makes rows and private copies older, so that
a late `Save` sets the age *back*. `PinArrives` goes straight to the lookup by
address: `parseMessage` cuts the identifier off (`monitor.go:78`) and `handlePin`
never finds its prefix (`monitor.go:378`). `parseMessage` looks for "pin" in the
whole message first: what one of `PinSpeakers` sends, with these letters in its
password or its hostname, may take the same way (`HeardAsPin`), whatever it asks.
Such a heartbeat makes the machine Online and refreshes nothing else. The `username`
of `parseMessage` is always empty, so the bind of `monitor.go:518` is never created
and has no action.

*UserBinds.* `users` and `binds` are the tables, `devices` the keys of rows with
an address, `reqs[q]` the goroutine of a request, as above. The first `SELECT` of
a handler is merged with the arrival of its request, which nothing can observe.
`Refused` is the unique index on `binds.device_id`; claims report its error and
`DistributeDevice` does not look at it. `DeviceStored` stands for all that
`DeviceRegistry` may do to the set of devices, late re-insertion included. The
administrator's own account, which `PasswordModify` and the backend's start write
and `RegisterAndBind` refuses, is left out: it is not among `Names`, although
`BindExistingUser` takes its name like any other's. `UserAdd` may open a disabled
account, and `UserUpdateSelfPassword` takes the one its cookie names, be it
disabled or gone.

*TokenSession.* `tokens` is the table, `reqs` the goroutines, `ended` a history of
the values that were current and were replaced or logged out. `Check` and `Touch`
are the two statements of `CheckAccessToken`, `Login` with `CreateToken` or
`UpdateToken` those of `UpdateOrCreateToken`.

*DeviceIdentity.* `file` is the two lines that matter, `main` is `start()` at
each of its steps for each of the two settings, `tool` the tool with the copy
it loaded. `OpenFile` and `SaveTool` are the truncations: whoever reads or dies
in between meets an empty file. `sent` and `spoilt` are history. One more writer is
left out: `parseServerConfig` (`nvhttp.cpp:1457`) puts a file of defaults, without
identity, where a pairing finds none at `config/` below the working directory.
`start()` has written one by then, and only a pairing in the first moments of a
first start could meet the two at once.

*BackendClient.* `main` is the main thread, in `start()` while `registering`, with
the file as `get_config_string` cached it; `threads` are the three exchanges with
the backend; `g` are the globals. `Letter` reads the globals at the moment of
sending and falls back on the cache. A message has the `kind` of the thread that
asks and the `type` the backend takes it for (`Parsed`): a PIN request wherever one
of `PinWords` is in it, whose answer its thread hears. Of the backend there is the row of this
machine and the messages it has accepted; an exchange under way is a message
with `to` set. `Cut` is a path that dies after the send: the message may still
be served and the thread waits in `recv` for ever. `BackendDies` resets what is
open. `NoReply` is the empty string, which is an empty answer and a connection that
failed alike. `OneDialogue`, `NoneRefused` and `StatusStep` are for the proofs.

*Pairing.* `sess` is the one entry of `map_id_sess`: moonlight-qt
(`app/backend/nvhttp.cpp:497`) and moonlight-android (`NvHTTP.java:205`) send a
constant uniqueid. `thread` are the HTTP and the configuration thread, each
between two steps at which the other may run; the HTTPS thread's `Verify` empties
`add_cert` into `cert_chain`. A request carries the facts the cryptography
proves: which attempt's key it is made with and which challenge it knows.
`GetServerCert` answers nothing until a PIN comes; `FetchPin` is the blocking
request to the backend as it ends, `CutFetch` one whose path is cut after the
question: `recv` has no timeout (`nvhttp.cpp:1797`), and the HTTP thread is not seen
again before the program ends. The backend's PIN and that of the configuration
page (`SavePin`) both end in
`EnterPin` or `SecondPin`. The latter frees the session it goes on to use; what
is left there makes it return (`Dangle`) or the program dies (`Crash`).
`SaveState` reads and truncates, `WriteState` writes, `LoadState` and
`AssignList` are the two halves of the reload in `unpair_client`. `GiveUp` leaves
the request of a client that gave up on its way. `granted`, `told`, `spoilt` are
history.

*StreamSession.* `event` is `launch_event` with its timer and the handlers of it
that are already queued; `https`, `rtsp` and `control` are program counters of
the three threads, `clear` that of the one `clear()` that holds the slots' lock.
`ses[l]` is the `session_t` of a launch, with its two media threads counted in
`live`. `Insert` to `Count` is ANNOUNCE up to its answer, step by step, since
`stop()`, `clear()` and the control thread come in between. `Pass` is one turn of
the control thread over `_sessions`; `Connect` is `get_session()` and the view of
`session_clear()`, `Pop` its pop. `Kill` is the watchdog of `join()`, after which
the service starts Sunshine again. Of the connections of a client only those of
ANNOUNCE and PLAY are taken; the others change nothing. `handle_accept` hands the
pending launch to whoever connects (`rtsp.cpp:459`). `Accept` refuses a client that
is handed another one's: its RTSP messages are encrypted with the key of its own
launch (moonlight's `Connection.c:530` always asks for that) and do not decrypt
(`rtsp.cpp:219`). Clients that do not encrypt, and that send ANNOUNCE twice, are
not modelled.

*ThreadPool.* `tasks` and `timers` are the queue and the vector, `pc[w]` the
worker's place in `_main`: `Loop` is `pop()`, `Check` the second look under `_lock`
and the wait, `Drain` "Execute remaining tasks". `fate` is history. Pushing and
going to sleep hold `_lock`, so each is one step. `delay()` and `pop(id)` have no
caller and no action.

*InputQueue.* `queue` is `input_queue`; `Receive` and `Push` are the two steps of
`passthrough()`, which hold no common lock; the worker takes a packet, tries each
later one (`Batch`) under the lock and sends after it let go of it. Each entry
keeps the numbers of the packets it stands for, `out` is what was sent, and
`received` and `kinds` are what the client sends. `Verdict` is the nine `batch()`
rules, the inverted overflow test of `MoveVerdict` included.

*Input.* `timers[a]` is the delayed task at address `a`; `timeout` and `repeat_id`
keep addresses after their tasks are gone, as the code does, and a new task may
get an address again. `mouse_press` and `key_press` are shared by all sessions,
`timeout` and `shift` belong to one. `Reset` is `reset()` on the thread that joins
the session, while the worker may be running the timer it cancels. `os` is what
the operating system was told to hold down. `Shifts` are the keys that set and clear
the flag of one modifier; `Shift` is the one a synthetic press uses, and stands for
the plain and the left key, which are one for the OS. `crossed` is history: two of
them were down and one was released. `gamepads[s]` are those of session
`s`, which outlive it in `Held` timers; `mask` is `gamepadMask`, and `frees` the
`free_gamepad()` tasks that `~gamepad_t` pushes. Of a gamepad's state there is
BACK, the one button with control of its own: `State` is the packet, `Update` its
second half, `RunBack` the timer that makes BACK HOME. `held` is history: what
the client last said of BACK.

Where two of these meet, each is modelled as the other sees it: `UserBinds` has
the devices as a set that `DeviceRegistry` may change at will, `BackendClient` has
the backend as one row, `InputQueue` and `Input` have the pool as tasks in order
and timers in any order, which `KeepsSchedule` justifies, `StreamSession` has
the pairing as done.

## 3. Runs

Every run ends in little more than two minutes with two workers. A run without liveness
properties needs no fairness.

| Run | Bounds | What it shows |
|---|---|---|
| `registry` | 2 machines, one goroutine each, 2 rows, full and bare messages, 1 restart, a table that is empty or has a row from before `device_id`; m2 may move between two addresses | `UniqueDeviceId`, `RowsOwned`, `PinIsOwn` under every message and announcement, with the monitor beside them |
| `registry_live` | 1 machine switched off and on at will, 3 goroutines, one of them an administrator's | `SilentGoesOffline`, `HeartbeatKeepsOnline` |
| `binds` | 2 accounts, 2 bind keys, 1 device, 1 password, 3 requests: two for claims and account changes, one for the administrator; restarts | `OneOwner`, `SuccessMeansOwner`, `DisabledStaysDisabled` and the refinement `OwnershipIsKept` while claims race distribution, recycling, deletion and account changes |
| `tokens` | 1 user, 4 values, 3 rows, 3 requests, life 0, restarts | `NoSessionReturns` across races, expiry and restarts |
| `identity` | 3 starts, 3 ids, 2 passwords | `IdentityKept` with deaths at every step and a tool that opens, saves and ends at will |
| `client` | 2 starts, 2 PINs, 3 passwords and 2 hostnames, one of each with "pin" in it | `PinGetsThrough`, `PasswordArrives`; a diverted heartbeat or registration among the rest |
| `pairing` | 2 clients, one of which tries twice, 2 PINs, one mistyped; 1 request on the configuration page, 1 death of the program, a cut path at any question | `ListedProved`, `PairedIsKept`, `CertAnswered` |
| `session` | 2 launches | `Owned`, `Counted` |
| `session_live` | 1 launch | `LaunchEnds`, `SessionEnds` |
| `pool` | 3 tasks, 2 workers (the program starts one), delays 0 and 2, time up to 2 | `NoLostWakeUp`, `EveryTaskRuns` and the refinement `InOrder` of `TaskSchedule` |
| `queue` | 4 packets of one of seven kinds of devices, mixed with keys | `NothingLost`, `OrderKept`, `AllReachOs` |
| `input` | 5 packets, 2 sessions, 4 addresses; two keys of one modifier, a key that may be part of a shortcut and a mouse, or 2 gamepads and 2 ids | `TimersKnown`, `Mirrored`, `PadsKept`, `PutOffEnds` |

Each component has its `TypeOK` in one of its runs.

**Why the bounds are enough.** A race over a row takes two parties, and the rows
mix only two machines' values; a third party (administrator, monitor) is what
puts a stale copy between them. Each goroutine slot is used again and again, so
two or three *at once* are bounded, not two or three in all. Row keys come back
once nobody holds them, which is no restriction the code lacks: UUIDs are never
reused, and a key that nobody holds cannot be told from a new one.
`Timeout = 0` leaves two ages, silent and not, which is all the code compares.
In `binds` every race is about the one device; `OneOwner` and the refinement speak
of devices one by one. In `tokens` three rows of one user need three first logins
at once, and every statement names its user. Two starts of `BackendClient` give
messages of a dead process served after those of the next one, and three passwords
are two that are stored and one that is diverted between them; three of
`DeviceIdentity` give a death in each rewrite and a start after both. In `pairing`
two attempts of one client and one of another are what it takes for a request
of a given-up attempt to meet the session of the second and of another client;
one request on the page is a PIN, an unpairing or an erasure beside the HTTP
thread. In `session` two launches are one that is pending or starting while the
other stops. `pool` has a pushed task behind
another one and a timer between two; `queue` four packets for a first packet,
one that is passed, one that passes it and one that ends the batch; `input` five
packets for press, release, press within the 10 ms of one timer, with the
session's end in between, for two Shifts of which one is released before a
letter is pressed and the other one released, or for a gamepad that is plugged, holds BACK, goes and
comes again while another one takes its id. Desk and gamepads share the worker and
the addresses and nothing else, so a client of `input` uses one or the other; the
theorems hold for any mix. `session`, `identity` and `tokens` use symmetry of
launches, of ids and passwords, of values: nothing orders or names them, and
the runs check no liveness. Where a theorem below covers a property it holds for
all bounds.

Deadlock is checked except where a run comes to an end: the pool is joined, and
the packets of `queue` and `input` and the attempts of `pairing` are used up. Where
it is checked it says little: clients, the administrator and the watchdog of
`join()` can nearly always take a step, so threads that wait for each other
would hardly show. In `session` it is `SessionEnds` and `LaunchEnds` that speak of
waiting.

**Assumptions.** `RowsOwned` and `PinIsOwn` are stated for machines with addresses
and hostnames of their own (`Separated`: disjoint `Home` sets, distinct
`HostName`). With a shared address the code gives one machine's row to another
one; that is how it finds rows, and it is listed as a hazard. The table an
older backend leaves behind holds only rows of one machine each. Failed writes
(SQLITE_BUSY, a full disk) are not modelled. `PairedIsKept` excepts what `spoilt`
names: a pairing that meets an unpairing, and a death inside a save, both of
which the code gets wrong (section 5). `Mirrored` is checked without
keybindings (the default ones map 0x10, 0x11 and 0x12, plain modifiers that
clients do not send, to the left ones) and excepts the Shift of a client that held
two and let go of one (`crossed`); `PasswordArrives` is about passwords in which the
backend sees no "pin"; and `LeftIsReleased` (a part of `PutOffEnds`) within one session. An
update of a gamepad with the id −1 (section 5) is taken to hit no device.

**Fairness.**
- `registry_live`: goroutines that have started are scheduled (WF on each
  handler), the ticker fires and its loop goes on, time passes (WF), and a
  machine that is on sends heartbeats whenever it can (SF on `KeepaliveArrives`:
  Sunshine's loop sends one every 20 s, and a free goroutine is there again and
  again).
- `client`: threads are scheduled and sleeps end, and the backend serves what it
  has accepted (WF). Nothing is assumed of starts, deaths, cuts or of the
  backend coming back: the premise `Reaches` says when a path exists.
- `pairing`: WF on the HTTP and on the configuration thread. A connection that
  fails or is closed ends the question to the backend; a path that is cut does not.
  So `CutFetch` may end it for ever at any time, and `CertAnswered` excepts a client
  from then on: one HTTP thread serves all.
- `pool`: WF on each worker, on time and on `main()` joining the pool it stopped.
- `queue`: WF on the control thread's push and on the worker.
- `input`: WF on the worker and on the thread in `reset()`, SF on each timer, since
  the pool takes the soonest first and a repeating key only sets later ones.
- `session_live`: WF on each thread. SF on the RTSP thread's steps that need the
  lock of the slots (the HTTPS thread holds it for one `clear()` at a time) and on
  `TimerDue` (the io_context runs due timers between handlers). The watchdog of
  `join()` is relied upon only where nothing else ends the join: `stop()` came
  before the state was RUNNING, or the control thread had left its loop.

## 4. Proofs

Each proof stands in a module beside its model and has the shape `Init => IInv`,
`IInv /\ [Next]_vars => IInv'`, `IInv => Property`, with one lemma or step per
action. The strengthened invariants were checked by TLC before they were
proved. `Typed` (in `Pairing_proofs`: `Typing`) is the `TypeOK` of each module.

- `Correct` (DeviceRegistry): typing and `UniqueDeviceId` for all sets of machines,
  rows, goroutines and for every number of restarts. What carries it is that
  every write goes through the index (`Saved`, `Created`); the invariant also
  says what each program counter has in its locals.
- `Ownership`, `OwnPin` (DeviceRegistry): `RowsOwned` and `PinIsOwn`, assuming
  `Separated` and a legacy table of owned rows. The properties are not inductive:
  a stale copy written back must be owned too, by the *same* machine as the row
  that stands at its key by then. `Holders` says so of each goroutine that holds
  a row, `OneOwner` of the table, the copies and the slice of the monitor
  together, and `Placed` that keys held by anybody are never given out again.
- `OwnerUnique` and `Implements` (UserBinds): one bind per device, and every step of the
  handlers is a step of `DeviceOwner` under the mapping at the end of
  `UserBinds`. The invariant is that a goroutine that holds the key of a bind
  holds the bind of *its* device (`HeldRows`, `HoldersAgree`), which is true because keys
  are not reused and no handler changes the device of a bind: a late `Save` or
  `Delete` hits its own device or nothing.
- `NoFalseSuccess`, `DisabledStays` (UserBinds): the action properties. An answer
  "OK" to a claim is given in the very step that stores or finds the bind
  (`ClaimAnswered`), and of all writes to a user only that of `UserUpdate` may
  enable (`EnabledByUpdate`): the three password handlers hand `Updates()` a password
  and at most the name, and it writes no other column. So it does not matter that
  two of them do not look whether the account is enabled, nor how old what they
  read is.
- `NoReturn` (TokenSession): racing logins leave several rows of one user, and a row
  that is not the first may hold a value that has ended. Such a row stays behind
  a smaller one (`Behind`), because rows of a user are only deleted all at once,
  a value is stored once (`OneRow`, `Known`) and one still to be stored is new (`New`).
- `Identity` (DeviceIdentity): the invariant speaks of the file as it is once a save
  that has begun is over (`Settled`). Unless a save of the tool spoilt it, that file
  agrees with what `start()` has in hand (`Remembered`), and what the backend
  was told is in it, with a password, and is not being rewritten (`Told`).
- `OnlyProvedListed` (Pairing): whoever is listed, saved or let in had the PIN of
  its user granted to a session it opened itself. `Carried` follows the proof
  from the key through challenge, hash and secret: what a request knows was
  made with the session's key, and a hash kept in the session is one its sender
  could only make with that key.
- `PairedStays` (Pairing): while `spoilt` is false, one thread at a time works on list
  and file (`Alone`), each copy a thread holds is the list it was taken from
  (`Copied`), whoever was told "paired" is listed (`ToldListed`), and one about to be
  told is already on its way through list and file (`Nearly`).
- `NeverFreedInUse`, `CountKept` (StreamSession): for any number of launches. `Fresh`
  says what a session is before each step of its start, `Ended` what is gone
  when `join()` returns, `Lock` and `Asked` who is in `clear()` and why; `Owned`
  follows because a session leaves the slots only joined, and it is joined only
  when the control thread has dropped it. `Balance` is the counter with the
  starts not yet counted and the joins not yet erased.
- `NothingSleepsThrough` (ThreadPool): `NoLostWakeUp` for any number of tasks, workers
  and delays. A worker goes to sleep only under the lock and after a second
  look, and whoever adds work wakes one up; a sleeper's deadline is no later
  than the last timer of the list.
- `KeepsSchedule` (ThreadPool): every behaviour of the pool is one of `TaskSchedule`.
  The invariant is that the vector is sorted, latest first, and that a task is
  in one place only, the one its `fate` says.
- `TimersFound` (Input): a repetition in the pool is under `repeat_id`, and one that
  runs is alone (`Alone`), since a packet is handled only while no timer runs; a
  timer of BACK is under its gamepad's `back_timeout_id`, because one is set only
  when BACK was up, and while one waits BACK is down (`BackHeld`, `BackAlone`).
- `PadsFound` (Input): `PadsKept` for any number of gamepads, ids and sessions. All
  that changes one gamepad keeps, takes or gives back its id (`OneChanged`), and
  what the OS shows is of an id that is taken (`PadFacts`).
- `HeldAsClient` (Input): `Mirrored`, assuming no keybindings (`Plain`). A repetition
  that lets go of a modifier by itself began when the flag was down, and pressing
  a modifier cancels it (`Synthetic`). The flag covers every modifier held
  (`Flagged`), also when a session ends, until one of two is released: from then on,
  and only then, such a repetition may let go of the one left.
- `QuietAfterReset` (Input): an action property. When the task of `reset()` has run
  nothing is held as far as the client goes (`AtRest`), and no step before the next
  session presses a key, a button or BACK, whatever timers are left.
- `QueueOrder`, `QueueComplete` (InputQueue): for any packets in any number. The invariant
  (`LineInv`) speaks of the *line*: what is sent, the batch at hand and what waits, in
  this order. Each of its items stands for packets like itself (`Standing`), every
  packet received is in one of them (`Everyone`) and in no two (`Once`), and wherever
  an item overtook a packet, it may pass it (`InOrder`). `OrderKept` alone is not
  inductive: what the batch will absorb next depends on what the iterator has
  left behind, and all of that may be passed by what follows (`PassedOver`), since
  a rule that says "skip" looks at nothing but what `Alike` packets agree on
  (`SkipMayPass`, `AlikePass`). What it shows is the order within a gamepad, a
  screen and a pointer: the rules do let one gamepad's update, or a finger that
  moves on its pad, pass a press or a finger of another gamepad (section 5). `Joins`
  and `Batches` are the step as an operation on lines.
- `QueueTyped` (InputQueue): sums of 16-bit deltas are cut to 16 bits (`WrapRange`), assuming
  that what the client sends is 16 bits wide (`MotionAssumption`), as the packets
  are declared.
- `QueueServed` (InputQueue): at most as many packets wait as there are tasks to take
  them, the packet not yet pushed included: the batching may leave a task with
  nothing to do, never a packet without a task.
- `Dialogues`, `Answered`, `ClientTyped`, `StatusTold` (BackendClient): a message under way belongs
  to the thread of its kind, which waits for it, and two never belong to one
  (`OneDialogue`); with `Alive` and `Whole`, that the globals name the machine exactly
  from `start()` to `stop()`, every registration is complete (`Letters`). So a
  thread hears an answer to its own question, the backend never has to refuse,
  and `connected` is what section 5 says of it. Where identities or hostnames may
  contain "pin" (`PinWords`), the answer to any question may be a PIN, and nothing
  else is added.

Constants are assumed as the modules say: keys are naturals (an order for
`First`), null values are none of the others, the set of launches is finite.

**Model-checked only.** All liveness (`SilentGoesOffline`, `HeartbeatKeepsOnline`,
`PinGetsThrough`, `PasswordArrives`, `CertAnswered`, `LaunchEnds`, `SessionEnds`,
`EveryTaskRuns`, `AllReachOs`, `PutOffEnds`), which like `ENABLED`
is beyond the prover. Of some of them the safety behind them is proved:
`NothingSleepsThrough` is that of `EveryTaskRuns`, `QueueServed` of `AllReachOs`,
`TimersFound` and `QuietAfterReset` of `PutOffEnds`, and `Dialogues` with `Answered` is
what makes the fairness of `client` one the code can keep. Every invariant and
action property of the runs is proved.
Induction over data and recursive operators are beyond it as well; the modules
have none.

## 5. Disagreements between the code and its comments

These were found while modelling. Where a definition is named it states what
the comment says; no run lists it, since the code breaks it: adding it to the
run of its module shows the counterexample.

Backend and identity
- `OfflineOnlyWhenSilent` (DeviceRegistry): a device is marked Offline right
  after a heartbeat, by a sweep that fetched it before (`monitor.go:570`), although
  `monitor.go:564` says after 3 minutes of silence.
- `OnlyCreateInserts` (DeviceRegistry): a late `Save` (`monitor.go:371`) brings a deleted
  device back, although `device_info.go:108` says the row is cleared.
- `OkMeansStored` (DeviceRegistry): OK is sent (`monitor.go:500`) before anything is
  stored, and a restart in between stores nothing.
- `IdentityStable` (DeviceIdentity): a save of an old window of the tool
  (`main_window.py:496`) makes the machine a new one (`backend_client.cpp:7`).
- `AnyPasswordArrives` (BackendClient): `monitor.go:362` stores the password of every
  heartbeat. One with "pin" in it, in any case, never gets there: `parseMessage`
  (`monitor.go:74`) takes the heartbeat for a PIN request. Likewise a machine whose
  hostname contains "pin" is never registered.
- `StatusStep` (BackendClient, theorem `StatusTold`): "backend connection status"
  (`confighttp.cpp:1087`) is true from a registration that is answered OK, which only
  a machine without a row is, to the next heartbeat: `handleKeepalive` writes no
  answer (`monitor.go:339`) and `doKeepalive` wants one (`backend_client.cpp:578`).
  With "pin" in the password it is the other way round: the PIN that answers the
  heartbeat is taken for its success.
- Names of users are not unique: looked up and created in two statements without
  an index (`user_info.go:607`; comment at 176). A bind may outlive its user or its
  device. A login whose row a logout deletes loses its token (`helper.go:217`).

Pairing
- `pin()` uses `sess` after it moved it into the map (`nvhttp.cpp:711`), so the PIN goes to
  the first session there is, although comments at 710 and 841 speak of the right
  one. It is harmless only because all clients send one uniqueid.
- A PIN given on the page while the request to the backend is outstanding
  makes the second `pin()` free the session and write to it (`nvhttp.cpp:890`).
- A pairing that meets an unpairing may be lost from the list or the file
  (`nvhttp.cpp:592`, 1450), and the certificate of an unpaired client that
  still waits in `add_cert` joins the chain at the next handshake.
- A death in `save_state` leaves a file that cannot be read, which holds no client
  and which no later save writes again (`nvhttp.cpp:275`–301).
- An empty PIN from the backend leaves the first request unanswered.
- A path to the backend that is cut after the question leaves the HTTP thread in
  `recv` (`nvhttp.cpp:1797`), and no client is served until Sunshine is restarted.

Streams, tasks, input
- `OwnTaken` (StreamSession): `session_clear` may take another client's launch
  (`rtsp.cpp:526`), although `rtsp.cpp:518` says the ID should always match.
- A launch raised while one is pending is dropped and yet answered 200
  (`rtsp.cpp:494`). A `/cancel` that comes while a session starts throws in `join()`,
  and the app is not ended. `raised_timer` is used by three threads.
- `TaskPool::delay` to an earlier time leaves the list of timers unsorted
  (`task_pool.h:172`). Nobody calls it.
- The launch that is pending is handed to whoever connects (`rtsp.cpp:459`); a client
  that does not encrypt would be served with another one's launch.
- `FingersStay` (InputQueue): "Don't batch beyond state changing events"
  (`input.cpp:1395`), but a finger that moves passes one that comes or goes on
  another gamepad (`input.cpp:1391`); likewise updates of gamepads pass each other
  with their presses (`input.cpp:1295`).
- `SumsKept` (MCInputQueue): the overflow test is inverted (`input.cpp:1212`, comment at
  1211): small movements are never batched, and 30000 + 30000 becomes -5536.
- `KeysMirrored` (Input): a synthetic modifier is for keys that need one "not current
  pressed" (`input.cpp:730`). Left and right Shift set one flag (`input.cpp:637`): hold
  both, release one, and the next key that asks for Shift presses and releases
  one of its own (`input.cpp:683`–699): if the left one is the one still held, the OS
  lets go of it.
- `KeysReleased` (Input): with a keybinding a mapped key stays down after `reset()`,
  which releases the client's name for it (`input.cpp:1605`, comment `stream.cpp:1919`).
- `reset()` cancels the delayed release of the left button by its id
  (`input.cpp:1589`), and the button may stay down; `LeftIsReleased` excepts it. It
  keeps ids of tasks that are gone, whose addresses later tasks may get; and a
  right press while such an id stands becomes a whole click (`input.cpp:584`).
- `HomeIsHeld` (Input): a gamepad that is unplugged leaves its BACK timer behind
  (`input.cpp:1111`), which then presses HOME on a gamepad with the id −1, or on the
  one plugged in its place, and makes that one ignore its next BACK (1164); an id
  is checked everywhere else (1117, comment at 1115).

## 6. What remains

1. Composition of `BackendClient` with `DeviceRegistry`, in place of its one-row
   backend: the state space of the two together is out of reach at the bounds
   at which each is interesting, so it would need an abstract backend first.
2. The safety behind the other liveness properties, first that no cycle of
   waiting threads arises in `StreamSession` and `Pairing`.
3. The poller of hosts and the frame pacer of moonlight-qt.

## 7. Not modelled

Video, audio, encoders and platform code: drivers decide their behaviour, and
the code is for the most part upstream's. The web pages, the front end and the
user interface of the tool: no state that another part reads, but for the
identity file. The clients: mostly upstream code; the requests they make are
modelled where they are served. Licence and shell helpers: one actor and
external commands. Read-only handlers (lists, counts, status). The end of the
program in `StreamSession`, and the contents of RTSP and control messages.
Data races on the lists of `Pairing` other than the freed session: the steps are
as fine as the statements, a torn vector is not a value. Vendored code.
