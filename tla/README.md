# A TLA+ model of WebPad

WebPad (`src/`) is a Rust server that turns a phone's browser into an Xbox 360
controller: the browser opens a WebSocket, logs in with a password, and the server plugs
a virtual controller into the ViGEmBus driver for as long as the connection lives. This
directory holds TLA+ modules translated from that code, the TLC configurations that
check them, and TLAPS proofs about them. Line numbers below refer to the files under
`src/`.

## 1. Inventory

| Component | Source | State it keeps | Operations |
|---|---|---|---|
| WebSocket handler | `src/web/handler.rs` 34-606 | per connection: `authenticated`, `session_token`, `unauth_permit`, `controller_id`, `rumble_rx`, `last_gamepad_update` | `ws_upgrade`, `acquire_connection_permits`, `handle_socket`, `handle_auth_request` |
| Session store | `src/auth.rs` 10-65 | `sessions` (one mutex) | `create_session`, `validate_token`, `remove_session` |
| IP failure table | `src/auth.rs` 67-160 | per address `failures`, `last_failure`, `backoff_until` (one mutex) | `record_failure`, `reset_ip`, `should_disconnect`, `check_backoff` (no caller) |
| Connection limiter | `src/web/server.rs` 51-95 | two semaphores | `try_acquire_total`, `try_acquire_unauth`, dropping a permit |
| Gamepad manager | `src/gamepad/manager.rs` | map of controllers, `next_id`, `shutdown` flag, a notification thread and a rumble channel per controller | `create_controller`, `update_state`, `destroy_controller`, `shutdown` |
| Protocol-sniffing server | `src/web/server.rs` 108-260 | listener, shutdown receiver | `run_server`, `handle_connection` |
| Startup | `src/main.rs` | configuration, TLS acceptor, UPnP client | `main`, `build_tls_acceptor` |
| Configuration | `src/config.rs` | the TOML file | `load_or_create`, `save`, `ensure_password` |
| Port mapping | `src/upnp/mapper.rs` | client, `port`, `active` | `new`, `probe`, `procure_mapping`, `update_port`, `deactivate` |
| Password hashing | `src/password.rs` | none | `hash_password`, `verify_password` |
| Web client | `src/web/handler.rs` 979-2017 (JavaScript) | socket, login flag, reconnect and heartbeat timers, touch state, layouts and their copy in localStorage | `connect`, `scheduleReconnect`, `startHeartbeat`, password dialog, touch and mouse handlers, `LayoutManager`, edit mode |

How they interact: `main` builds the shared `AppState` and runs the server. Every
request runs as its own task on a multi-threaded runtime. Tasks share the session set,
the failure table, the semaphores and the controller map, each behind its own lock or
atomic; nothing is held across two of them. The manager runs driver calls on blocking
threads, and one thread per controller pushes rumble events into a bounded channel that
the connection's loop reads. The client talks to its connection by WebSocket messages
only.

What is hard here: interleavings of two or more requests between any two accesses to
shared state; permits that are taken in two steps and given back on many paths; values
read and used later (the token, the failure count, the shutdown flag); two connections
that share a session; connections of one address that share a failure count; timers that
race with messages and with sends that block; a crash while the configuration is
written; and the client's stale callbacks. `PROJECT.json` lists these under `hazards`,
each at its line.

What makes each component correct:

- handler: permits are conserved; strangers (open connections that nobody has logged in)
  and controllers are bounded; sessions and controllers have owners and vanish with
  them; every connection that ends releases all it had;
- failure table: an address that has used up its failures gets no further guesses in
  beyond those already under way; its failures are forgotten by a login or after their
  own expiry only;
- manager: a destroyed controller is unplugged and its thread gone; after shutdown no
  controller is left; an update only reaches a controller that is plugged in; the rumble
  channel never blocks the driver thread;
- server: every client that has sent its first bytes gets an answer; plain HTTP is
  redirected exactly if TLS is on;
- startup and configuration: the password survives restarts, what the migrations repair
  is not served but by the word of the command line, exactly one password opens the
  server;
- client: it reconnects and logs in again, holds few sockets, and sends the release of
  everything it has pressed;
- layouts: the active one exists and is on the screen, what was saved survives a reload,
  and editing puts no control out of reach.

## 2. Modules

### WsHandler - the core

One action is the code of one task from one access to shared state up to the next. A
slot (`Conn`) is a place for one request at a time and is used again after it is idle;
`pc[c]` is where its task is.

| `pc` | Code | Leaves by |
|---|---|---|
| `idle` | no request | `ValidateToken` |
| `checkIp` | handler.rs 77 | `CheckIp` |
| `acquireTotal`, `acquireUnauth` | handler.rs 161-187 | `AcquireTotal`, `RefuseTotal`, `AcquireUnauth`, `RefuseUnauth` |
| `upgrade`, `abandon` | handler.rs 86-92 | `StartSocket`, `UpgradeFails`, `Abandon` |
| `create` | handler.rs 321, 380 | `CreateController`, `CreateFails` |
| `loop` | handler.rs 348 | `AuthSucceeds`, `AuthFails`, `StartUpdate`, `ClientLeaves`, `HeartbeatTimeout` |
| `removeOld`, `newSession`, `sendSuccess` | handler.rs 561-571, 378-384 | `RemoveOldSession`, `CreateSession`, `SendAuthSuccess` |
| `checkMax`, `backoff` | handler.rs 578-602 | `CheckMax`, `Backoff` |
| `update` | handler.rs 398 | `FinishUpdate` |
| `sendClose` | handler.rs 374, 455 | `SendClose` |
| `destroy`, `removeSession`, `dropUnauth`, `dropTotal` | handler.rs 461-469 and the drop of the parameters | `DestroyController`, `RemoveSession`, `DropUnauth`, `DropTotal` |

Abstractions. A session token and a controller id that nothing refers to any more may be
used again, since no step can tell it from a fresh one; this keeps the state finite
without a bound on the length of a behaviour. The failure count saturates one above the
limit, since only `failures >= max_failures` is ever asked. Time is left out: `Age`
marks an address whose entry `retain` would drop (300 s since its last failure and its
backoff over), and a heartbeat timeout may happen in any round of the loop. Whether a
password is right, the driver plugs a controller in, or a protocol switch succeeds is a
free choice. Messages that `handle_socket` ignores change nothing. After the end of
`handle_socket` its locals are reset, and `wasAuth` is cleared when its last use is
over, so that equal situations are equal states.

The handler is modelled from the moment it is called. `run_server` (server.rs 185, 210)
serves the router without connect info and its HTTP/1 connections without upgrades, so
the extractor of the peer address (handler.rs 57) rejects every `/ws` request of the
program as it is built; the tests that open sockets are `#[ignore]`d
(`tests/web_test.rs` 95, 142, 189). What is said here of the handler holds under a host
that supplies the address and the upgraded socket.

Operators named `Bug...` are mutants: each is the definition after it with one plausible
mistake. They are used by no specification; checking a property with a mutant in place
shows that the property notices the mistake.

### WsService - the abstract service

Three sets: connections that are served, those that are logged in, and those that drive
a controller, with the limits the configuration promises. WsHandler implements it under
the mapping `Service`: a connection counts as served from `StartSocket` to
`RemoveSession`.

### WsHandlerStrikes and WsHandlerFailures

WsHandler with a history variable that watches wrong passwords: those a slot got in
after its address was locked, and those one connection sent.

### GamepadManager

The manager by itself. A task is one connection, `pc[t]` the step of the call it is in:
`plugging`, `readying`, `insert` are `create_controller` (manager.rs 112-162), `lookup`
and `updating` are `update_state` (167-191), `unplug` and `join` are
`destroy_controller` (198-220). A closer is one call of `shutdown` (227-252). Each
access to the map and each blocking driver call is a step of its own. A target stays
plugged in as long as something refers to it (`Plugged`): that is how `Arc` works, so an
update under way keeps a controller plugged in that was taken out of the map.
Notification threads are those of the vigem_client library: the driver hands them an
event (`Event`), they pass it on (`TrySend`, manager.rs 139-146) and end when the target
is unplugged (`ThreadEnds`). The code's channels hold 16 events.

A connection uses its own controller only, one call at a time, as the handler does.
WsHandler's one-step create and destroy stand for whole calls here: ControllerLife is
the abstract service behind both, in which an id is plugged in once, in one step, and
unplugged once. The mapping `Life` counts a controller as plugged in as long as its
target has a reference, and an id as spent once the driver has answered.

### FailureTable and SocketClock

SocketClock adds time to a part of WsHandler: the heartbeat timeout that every round of
`select!` sets up anew (handler.rs 348-457), the sleep after a wrong password (596-605),
sends that wait for a client that does not read, and the entries of the failure table
with `last_failure` and `backoff_until` (auth.rs 78-144). One message is one step here;
the steps in between are WsHandler's. `Tick` is one unit of time and waits for every
task that is due, so that a timer that has fired is served at once; what the code does
between two ticks takes no time. Clocks count down, or up to the last value anything is
compared with, so that time has no bound. Failures are counted exactly, up to
`MaxCount`, where the model stops: past the limit they are those of connections resumed
with a token (`Resume`), which `should_disconnect` does not keep out. `hold`, the time
until `backoff_until`, is read by `retain` only: `check_backoff` has no caller.
`SaturatingMul` and `SaturatingPow2` are the u64 arithmetic of auth.rs 130-136 with the
largest number a constant.

FailureTable says what a reader of the table may rely on, with time left out and without
saying how an entry is stored: a failure adds one to its address, another address keeps
its count or has expired and is forgotten, a login forgets its own address only, and
entries expire alone or together. SocketClock implements it; its mapping reads "expired"
off the clocks. (WsHandler's table without clocks would do so by the shape of its
actions, so nothing is claimed there.)

### Startup and ServerFront

Startup is one process at a time from the first line of `main` to the accept loop, with
the file `webpad.toml` it shares with earlier and later ones. `pc` is the place in
`main` or in the call it is in; `Config::save` has two halves (`Truncate`, `WriteOut`)
since `std::fs::write` has, and `resume` is the place it returns to.

| Actions | Code |
|---|---|
| `Load`, `CreateDefault`, `LoadFails`, `MigrateTls`, `MigratePort` | config.rs 161-208 |
| `Truncate`, `WriteOut`, `SaveFails` | config.rs 212-217 and its callers |
| `Override` (`EnsurePassword` included), `HashConfig` | main.rs 47-74, config.rs 220-224 |
| `NewMapper`, `Probe`, `CtrlC` | main.rs and upnp/mapper.rs |
| `BuildTlsAcceptor` | main.rs `build_tls_acceptor` |
| `Listen`, `BindFails` | `run_server` up to the accept loop |
| `Edit`, `Start`, `Crash` | the user and the operating system |

`8443` stands for all ports except the old default 8080, the only one the code tells
apart. A password is any string: nothing in `config.rs` or `main.rs` trims one, and a
padded one is a different one. `portGiven` remembers that this start has `--port` on its
command line. Hashing is ideal; its format is kept because `verify_password` dispatches
on it. `owed` is a history variable: the password of the last process that came up with
a saved file, until the user or an unreadable file changes it.

ServerFront EXTENDS Startup with clients that dial (`Dial`), the bytes that have arrived
of each (`Deliver`), the accept loop (`Accept`, `AcceptFails`) and `handle_connection`
(`HangUp`, `Sniff`, `Finish`; server.rs 162-216). `EnableTls` is the argument `main`
really passes.

### WebClient

The page and the server's end of its sockets, one action per callback: timers
(`Connect`, `ConnectThrows`, `Tick`, `PongOverdue`), socket events (`OnOpen`,
`OnMessage`, `OnClose`, `Refused`, `Unreachable`), the dialog (`ShowDialog`, `Submit`)
and the animation frame (`GameLoop`). Browser callbacks run one after the other, so a
whole callback is one step. Messages travel in order in two queues per socket.

The server's side is WsHandler as the page meets it. `Admitted` is `ws_upgrade` for a
request without a token: the address is not locked and both kinds of permits are left;
otherwise it is `Refused`, as often as it asks. `Serve` takes one message,
`WrongPassword` and `RightPassword` count and forget the failures of the address, which
is the page's alone. `LinkLost` cuts a socket off without either side being told: the
page finds out by an error of its socket or by missing pongs, the server's end keeps its
permits until its heartbeat timeout. If the page gives the socket up first, that end
becomes an orphan (`Discard`) and holds its permits until `OrphanEnds`. `Forgotten` is
the expiry of the address's failures. The only thing bounded by `MaxLosses` is bad luck:
lost links, throwing constructors, an unreachable server, a heartbeat timeout of a
socket that is in use.

What is typed into the dialog is trimmed by the page (handler.rs 1105) and compared
untrimmed by the server. `secret` says how the configured password begins and ends: a
plain one can be entered, a padded one cannot (every attempt is a wrong password), and
for a blank one nothing is sent. `beat` counts heartbeat intervals without a pong; 12 s
are over at the third or fourth tick, depending on when the last pong came. The
reconnect delay has no length: the timer is set or not.

### Layouts and TouchInput

Layouts is `LayoutManager` (handler.rs 1511-1614), its callers in the settings
(1616-1767) and edit mode (1769-1955). One control stands for all and one axis for both;
a geometry is its left edge and its width. `Imports` are the geometries that files give
the control - any place and any size, since `importLayout` checks none - and `NoEntry`
is a layout that does not mention it. `Saves` is the sequence of `save` calls of one
handler, any of which localStorage may refuse; `Reload` is the page loaded anew from
what the last good save wrote.

TouchInput EXTENDS Layouts with fingers and the mouse: a button takes every pointer, a
`Tracked` control (trigger, d-pad, stick) the one finger whose identifier it remembers
(handler.rs 1216-1510). Its handlers return at once in edit mode, the releases included;
the listeners that follow the mouse do not.

### MC modules

`MCWsHandler`, `MCWsHandlerStrikes`, `MCWsHandlerFailures`, `MCSocketClock` and
`MCTouchInput` only name model values, the map from slots to addresses, and the
symmetry; the other modules need none. No run with a liveness property uses symmetry.

### Proof modules

`WsHandlerProofs` holds the inductive invariant and the safety theorems,
`WsHandlerRefinement` the proof that WsHandler implements WsService,
`WsHandlerStrikesProofs` the one about strikes. `GamepadManagerProofs` holds the
invariant and the theorems of the manager, its implementation of ControllerLife
included. `SocketClockProofs`, `StartupProofs`, `WebClientProofs` and `TouchInputProofs`
(Layouts too) hold those of the clock, the start, the page's connection and its
controls.

## 3. What TLC checks

| Run | Instance | Shows |
|---|---|---|
| `handler_safety` | 3 slots, 2 of them behind one address; 2 total permits, 1 unauthenticated permit; limit of 1 failure | the type invariant, the seven state invariants below, `OneStrikeWhenLocked`, and the refinement of WsService, over 471 545 states |
| `handler_liveness` | 3 slots, one address, 1 permit of each kind, limit of 2 failures | `CleanupCompletes` and `RequestAdvances` under fairness |
| `handler_resume` | 2 slots | a counterexample to `ActiveTokenIsValid` |
| `handler_failures` | 2 slots, limit of 2 failures | a counterexample to `ClosedForOwnFailures` |
| `gamepad_manager` | 2 connections, 2 shutdowns, 2 ids, channels of 1 event | the six properties of the manager below, over 59 913 states |
| `gamepad_closed` | the same | a counterexample to `ClosedIsEmpty` |
| `socket_clock` | 3 connections, 2 of them behind one address; timeout 1, window 3, limit 3, counts up to 4; sleeps of 3 and 4, numbers up to 5 | `SilentClosed`, `SleepDoubles` and the refinement of FailureTable, over 1 125 509 states |
| `server_front` | 2 passwords and the empty one, 2 faults, 1 TLS and 1 HTTP client | the four properties of start and server below, over 126 000 states |
| `server_redirect` | 1 password and the empty one, no fault | a counterexample to `RedirectsIfTls` |
| `web_client` | 3 socket names, 3 total and 2 unauthenticated permits, limit of 2 failures, queues of 2, 3 losses | the four properties of the page's connection below, over 314 885 states |
| `web_client_relogin` | the same, 1 loss | a counterexample to `LoginComesBack` |
| `touch_input` | 2 layouts, an area of 2 with margin 1, controls of 2 at least, widths up to 3, 1 refused save; files that put the control in its place, out of the area and too small, or leave it out; 1 button, 1 tracked control, 2 fingers and the mouse | the six properties of layouts and controls below, over 228 912 states |

- `PermitsConserved`: what is left of each semaphore and what is owned add up.
- `StrangersBounded`: no more open connections without a login than
  `max_unauth_connections`, although flag and permit change in different steps.
- `PermitFollowsLogin`: in the loop, the unauthenticated permit is held exactly without
  a login.
- `SessionsOwned`: a session lives no longer than its connections.
- `ControllersOwned`, `ControllersBounded`: each controller has one owner, and there are
  never more than `max_connections`; this rests on the order of the cleanup.
- `LocalsFollowPlace`: the strengthening that the proofs use, checked as well.
- `OneStrikeWhenLocked`: after an address reaches `max_auth_failures`, a slot gets at
  most one more wrong password in over all its requests without a login, until the
  address is forgotten.
- `ThreadsAccounted`: the handle of a live notification thread is always with a call
  that will join it, or in the map.
- `ControllersAccounted`: an entry of the map has one owner, a live thread, and is in no
  shutdown's hands.
- `DestroyReturns`, `ShutdownReturns`: both calls return, although updates hold targets,
  threads hold events and the rumble channel may be full.
- `ImplementsLife`: the calls, each several steps, add up to one plug-in and one unplug
  of each controller; an update that still refers to a target delays the unplug, and
  nothing revives a controller that is gone.
- `SilentClosed`: a connection on which neither client nor game does anything is closed
  within the heartbeat timeout and one backoff sleep. The timer is set up anew in every
  round and the sleep lies outside of it; the two do not add up to more. A send that
  waits for the client has no limit in the code and is left out.
- `SleepDoubles`: a connection goes on after a wrong password only below the limit, and
  then sleeps `base * 2^(failures - 1)`, cut off at the maximum, with the failures of
  the whole address counted; saturation never turns it into anything else. Only this
  connection sleeps: the others of the address are not held up, whatever `auth.rs` 69-70
  and `handler.rs` 597-599 say.
- `ImplementsFailureTable`: an entry leaves the table when its address logs in, or when
  another address fails after it has expired, never before its own `backoff_until` -
  also when that is later than the window.
- `PasswordKept`: a password that was served from a saved file is served again by the
  next process, through migrations, failed saves and crashes outside a save. A crash
  inside a save is where the code does lose it (the torn file is replaced by the
  defaults), and is excused.
- `MigrationSettles`: the first migration can create what the second repairs; still
  `load_or_create` returns a configuration that needs neither, and `main` serves TLS on
  port 8080 only if this very start was given `--port`.
- `OnePasswordOpens`: exactly the configured password opens a running server, also when
  the file or `--password` holds an empty one.
- `ClientAnswered`: a client whose bytes have arrived gets its answer, or the process
  ends; another client that says nothing does not hold it up.
- `OneWayForward`: the page has a socket of its own or the reconnect timer, never both
  and never neither.
- `TwoSocketsAtMost`: the browser holds at most one socket of the page beside the one in
  use. In the server more ends may be alive, as orphans.
- `FramesAccepted`: every frame the page sends reaches a connection that is logged in.
  It holds only because the dialog appears once: `connect` does not reset
  `authenticated`, so a page that could log in a second time might send frames to the
  connection of a stranger.
- `FirstLogin`: with a password that can be entered, a user who keeps entering it gets
  in or has locked the address by wrong ones, although the button stays disabled after a
  message that was dropped and the page's own orphans may use up the permits.
- `ActiveExists`: the active layout exists, in memory and in localStorage.
- `ScreenShowsActive`: outside edit mode a control stands where the active layout puts
  it. Of one the layout does not mention nothing is claimed: a cancelled drag stays
  there.
- `SurvivesReload`: nothing is lost by closing the page, unless localStorage refused the
  last save.
- `StaysInReach`: drags and resizes keep a control's left edge and a piece of it of the
  minimal size in the design area, and never make it smaller than that. A control that
  is out of reach stands exactly where some file put it, and a smaller one has the width
  some file gave it.
- `NothingStuck`: a control is pressed only while something holds it, and waits for no
  finger that has gone, unless its release fell into edit mode.
- `MultiTouchSafe`: a second finger does not disturb a control that follows one; a
  button that a finger holds is let go only by a finger that goes up from that very
  button.

Bounds. Three slots are two that race for the last permit and one that ends or shares
the address meanwhile; with 2 total permits and 1 unauthenticated permit each of the two
refusals happens, alone and racing with a release. There are as many tokens and
controller ids as connections can hold at a time (in `handler_liveness`, with one
permit, one controller), so a fresh one is always available. Two addresses are needed
for one to expire while the other fails. One failure locks in the safety run, to keep it
small: the limit only enters through `ShouldDisconnect`. Deadlock is checked in every
run of the handler; the manager stops when its ids are used up and nothing is under way.
For the manager, two connections and two ids give each pair of overlapping calls; the
second shutdown may find the map empty or hold what was inserted after the first. A
channel of one event is full or empty.

In `socket_clock` two connections share an address and a third brings a second entry to
expire. The first sleep is as long as the window of 3, the second, of 4, is longer, so
an entry must outlive the window; the timeout of 1 is shorter than either. The largest
number is 5: the product of the second failure (6) overflows, and both it and 5 are
above the maximum of 4, so an uncapped or wrapping product is told apart from it. With a
limit of 3 and counts up to 4 the last failure is one beyond the limit, of a resumed
connection. In `server_front` two faults are a failed save and a crash, or two of one
kind; the two clients tell the four answers apart, one of them silent while the other is
served. In `web_client` three sockets are one more than the page can have, three losses
break the second connection while the first is still closing, and leave enough orphans
to use up both unauthenticated permits; a queue of two holds a message and the next one,
and a goodbye beyond. A limit of two failures lets one wrong password be followed by a
right one and the second lock the page out. All three kinds of passwords are initial
states. In `touch_input` the default layout and one other are created, deleted, imported
and reloaded in any order, and edits start from what a file says as well. The smallest
control fills the area, one that was widened is wider than it, and one that a file made
too small has room to move; area, margin and width let a resize run over either edge and
past the width of the area; two fingers and the mouse meet on one control. None of these
systems may stop, so deadlock is checked in all of them.

Fairness. `FairSpec` assumes of each slot that the runtime keeps running its task and
that a driver call returns (`Progress`), that a protocol switch ends (`HandshakeEnds`),
and that a client takes what it is sent or its socket fails (`ClientReads`). The last
one is an assumption about the client: the code sets no limit on a send. Nothing is
assumed of the client's messages, and no fairness is put on `HeartbeatTimeout`. For the
manager, `FairSpec` assumes that a call that has begun is continued, and that a
notification thread delivers what it has and ends after its target is unplugged; no
connection has to begin a call or to read its rumble channel. For the server, `FairSpec`
assumes that the runtime runs the accept loop and the task of a connection whose bytes
have arrived; no byte has to arrive. For the page, it assumes that its timers fire, that
the browser reports what happens to a socket, that the server answers requests, reads
what it is sent and times its dead ends out (`OrphanEnds`), and that a user in front of
the dialog enters the right password again and again (strong fairness: an attempt may
find no open socket). Nothing is assumed of other addresses: `Forgotten` may never
happen. TouchInput and SocketClock have safety properties only.

### Findings

- `handler_resume`: a token is documented as the way to resume after a broken connection
  (`docs/CODE_WIKI.md` 269-272). When two connections hold one token - the resumed one
  and the broken one that has not timed out yet - whichever re-authenticates or ends
  first removes the session of both (`handler.rs` 561-563, 467-469), and the remaining
  one is logged in with a token that no longer resumes anything.
- `handler_failures`: `max_auth_failures` is documented per connection (`src/config.rs`
  34, `README.md` 162); the code counts per address, so a connection can be closed at
  its own first wrong password.
- `gamepad_closed`: `shutdown` is documented to destroy all controllers
  (`src/gamepad/manager.rs` 222-224), but `create_controller` looks at the flag only
  before its driver calls: one that is under way inserts its controller after the map
  was taken. In this program only tests call `shutdown`.
- `server_redirect`: `run_server` is documented to redirect plain HTTP if TLS is enabled
  (`server.rs` 119, 124); `main` passes `enable_upnp` there (`main.rs` 168). By default
  plain HTTP is served on the TLS port; with UPnP on and TLS off every request is
  redirected to an https address that nobody answers.
- `web_client_relogin`: automatic reconnection with session tokens is documented
  (`README.md` 148, 163; `docs/CODE_WIKI.md` 270-272). The page never sends a token
  (`handler.rs` 1133), forgets it on close (1139), and shows the password dialog only
  once (2002-2008): after a lost connection it connects again and stays a stranger until
  it is reloaded.

Seen while modelling, without a run of their own:

- `auth.rs` 69-70 and `handler.rs` 597-599 have every connection of an address wait
  after a failure. Nothing calls `check_backoff` (`auth.rs` 104), so only the connection
  that failed sleeps (`SleepDoubles`).
- A password with blanks at its ends can be configured but not entered: the page trims
  what is typed (`handler.rs` 1105), nothing else does, and each attempt counts as a
  failure.
- A page whose link breaks again and again dials every second or so while its dead ends
  hold their permits for 30 s: it can fill `max_unauth_connections` by itself and is
  refused until they time out (`Refused`, `OrphanEnds`).
- A cancelled drag of a control that an imported layout leaves out stays on the screen
  (`applyLayout`, `handler.rs` 1555), and an imported layout may put a control out of
  reach or make it too small to be used.
- Of two fingers on one button the first to go up lets it go (`handler.rs` 1227); a
  control whose release falls into edit mode stays pressed, or waits for a finger that
  has gone, until it is used again (`missed` in `NothingStuck`).
- `--port 8080` with TLS is served, saved, and migrated to 8443 at the next start
  without it.
- `PortMapper::new` asks for a mapping before `enable_upnp` is looked at, and a server
  that cannot bind ends without `deactivate`.
- A `ClientHello` of which only one byte has arrived is taken for HTTP (`server.rs`
  179).

## 4. What is proved

By TLAPS, for every value of the constants: every invariant, action property and
refinement that a passing run checks. TLC checked the properties first, on the instances
above.

WsHandler, for every finite set of slots and all limits:

- `TypeCorrect`: `Spec => []TypeOK`, an invariant on its own;
- the inductive invariant `IInv = TypeOK /\ LocalsFollowPlace /\ PermitsConserved /\
  SessionsOwned /\ ControllersOwned`. `LocalsFollowPlace` carries the argument:
  `ReleaseUnauth` gives a permit back only if the local says there is one, so
  conservation needs to know at which places a task may have one; that a session has an
  owner needs to know that a task at `newSession` holds no token, and so on;
- `LocalsAreInLine`, `PermitsAreConserved`, `SessionsHaveOwners`,
  `ControllersHaveOwners`, each a conjunct of `IInv`;
- `PermitsFollowLogins`; `StrangersAreBounded`: strangers own unauthenticated permits,
  and these are counted; `ControllersAreBounded`: the owners of controllers are mapped
  onto the controllers and own total permits;
- `Implementation`: `Spec => ImplementsService`. Each step is an abstract step or a
  stutter; the limits in `Open` are those of the state after the step;
- `LockedAddressesGetOneStrike`, from `StrikesInv`: a slot that has had its strike is
  `Spent`, that is logged in, let in with a token, on its way out, or outside. As long
  as its address is locked it stays so, because the way back in leads past `CheckIp`;
  and no spent slot can fail again without a login. That a task about to look at the
  table is one that has just failed is `LocalsFollowPlace` once more.

GamepadManager, for every number of connections, shutdowns, ids and every channel
capacity:

- `NoThreadIsLeaked`, `EveryControllerHasOneOwner`, `TypesHold`, from the invariant
  `IInv` of `GamepadManagerProofs`. Beyond the two properties it says that an id has one
  owner, that a task about to insert has a live thread (its own reference keeps the
  target plugged in), and that what a shutdown took out of the map never comes back;
- `Implementation`: `Spec => ImplementsLife`. A call plugs in or unplugs at most its own
  controller, since ids have one owner; a shutdown unplugs one at a time, for which it
  must be known to hold no target before it takes the map (`HoldsNothingYet`), or taking
  it would lose several at once.

SocketClock, for any number of connections, all timeouts, waits and any width of the
arithmetic:

- `SilenceIsBounded`, from `SilenceInv`. `SilentClosed` is not inductive: in the loop
  the silence goes on from what the sleep left, so the invariant bounds it place by
  place - `silence + nap <= MaxBackoff` in the sleep, `silence <= waited + MaxBackoff`
  in the loop, where `waited` is under the timeout;
- `SleepsDouble`. `BackoffValue` computes what the saturating arithmetic yields: as long
  as nothing saturates it is the product, and a product that does saturate is above the
  maximum already, so the cut at the maximum hides it (`SaturationIsHarmless`). Of the
  power of two it needs only that it is a positive natural (`PowerOfTwo`, from the size
  of a power set);
- `Implementation`: `Spec => ImplementsFailureTable`. A tick is `Expire` for the set of
  entries that expire with it, a failure is `Fail`, a login `Reset`;
- `TypesHold`: the clocks stop counting where nothing is compared with them.

Startup and ServerFront, for all passwords, clients and any number of faults:

- `MigrationsSettle` and `OnePasswordSuffices`, from `PlaceInv`, the former with
  `AskedInv`: after the override, what the second migration repairs is there only with
  `portGiven`. A save comes back to three different places, so the invariant speaks of
  the place and of `resume` together: a save that returns to `override` has settled both
  migrations, one that returns to `hash` has a password;
- `RestartsKeepThePassword`, from `PlaceInv` and `KeptInv`: while a password is owed,
  there is a file; the file has it if it can be loaded at all, and so does the
  configuration once it was loaded. That `Listen` may owe it needs to know that a
  successful save is the last thing that happened to the file;
- `TypesHold`, with the same case split on the places.

WebClient, for any number of sockets and losses and queues of any length:

- `PageKeepsItsWay`: `OneWayForward` is inductive on its own. Whatever forgets the
  socket sets the timer, and the timer is set only where there is no socket, so
  `connect`, which clears it, leaves with a socket;
- `FramesReachLogins` and `PageHoldsTwoSockets`, from `LinesInv`. Up to the one login of
  a page every socket that is not free is the page's own (`BeforeLogin`); from then on,
  as long as heartbeats run, it is the only one, and its connection is logged in
  (`AfterLogin`). A line that still carries the password, or its `auth_success`, is
  closing or the only line, and one that carries `auth_success` or a frame leads to a
  login (`LineOk`). Of the sockets the page has lost sight of, one at most still lives
  (`OneStray`): with the page's own that makes two;
- `TypesHold`.

Layouts and TouchInput, for any layouts, sizes, controls, fingers and refused saves:

- `ActiveLayoutExists`, `ScreenIsWhatLayoutSays`, `NothingLost` and
  `OnlyFilesPutOutOfReach`, from `PageInv`. What is on the screen now comes from a
  layout stored long ago, so the reach of one geometry is not inductive: the invariant
  says of all layouts, in memory and in localStorage, that they are good data (the
  default and the active one exist, and every geometry in them can be taken hold of or
  comes from a file), and `SavesKeeps` carries this through each sequence of saves any
  of which may be refused;
- `OnlyEditModeLeavesStuck`, from `InputInv`: a tracked control that is pressed follows
  a finger that is down on it, or the mouse while its listeners are there. A control
  whose release fell into edit mode is the exception the property names;
- `OtherFingersDisturbOnlyButtons`, step by step from the types;
- `TypesHold`.

Assumptions, each an `ASSUME` that TLC evaluates in every run. `Conn` is finite, `IpOf`
maps it to `IP`, the limits are naturals (zero included; the bounds on ids and channels,
the two timeouts and the largest number as the code needs them), and `None` is neither a
token nor an id nor a socket. The empty password is a password; a missing or torn file
is no configuration. No client dials in two protocols. A control fits into the design
area, no control is of two kinds, what files say of it are geometries, and the marks for
a layout that was never made and for one without the control are none
(`EntryAssumption`). The page's mark for "no pong awaited" is no number of missed
intervals.

Only model-checked. The liveness properties (`CleanupCompletes`, `RequestAdvances`,
`DestroyReturns`, `ShutdownReturns`, `ClientAnswered`, `FirstLogin`): fairness rests on
ENABLED, which the prover does not handle. The five properties that the code violates
are counterexamples, which only TLC gives.

## 5. Plan

1. The converse of the history variable: that RecordStrikes restricts no behaviour of
   WsHandler is by construction (`strikes'` is a function of the step), and not stated.
2. Lemmas the liveness arguments rest on: at every cleanup place some step of the
   connection can be taken, as a safety invariant (the disjunction of the guards).
3. A refinement from SocketClock's one-step messages to WsHandler's places.

## 6. Not modelled

- TLS, HTTP, Argon2 and SHA-256 (libraries), random numbers, logging, and the constant
  security headers of `server.rs`.
- `validate_origin`: a pure function of two strings.
- The 8 ms rate limit on updates (handler.rs 390-396): the page sends the whole state
  with every frame, so a dropped update is repaired by the next one.
- `src/protocol.rs` and the gamepad types: plain data and its serialisation. The
  contents of updates and of rumble events are left out with them.
- `update_port`, `port` and `is_active` of the port mapper: no caller outside tests.
- HTML and CSS; of the page the values of triggers and sticks, orientation and scaling,
  colours and names of layouts, the FPS display and vibration.
- `check_backoff` (auth.rs 104): no caller.
- Two tabs that share one localStorage, and a layout switched in the middle of one drag
  (a drag is one step of Layouts).
