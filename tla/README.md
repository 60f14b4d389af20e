# A verification project for vpsctl

vpsctl is a web panel for one Linux server: a Go program that authenticates its
users, shows system metrics, manages files, containers and services, and opens a
shell in the browser. This directory holds TLA+ models of its code, the TLC runs
that check them on small instances, and proofs, checked by TLAPS, that hold for
every value of the constants. Every definition is translated from the code;
`PROJECT.json` lists, under `map`, the lines each one stands for.

## 1. The system

| Component | Code | State | Operations | What makes it hard |
|---|---|---|---|---|
| User manager | `internal/auth/auth.go` | accounts under `m.mu`; `users.json`, `users.json.tmp` | Authenticate, RegisterUser, SetTOTPSecret, VerifyTOTP, ChangePassword, EnsureBootstrap, load, save | stops and failed writes between memory, temporary file and file; lockout over time and restarts |
| Sessions | `internal/handlers/auth_handler.go`, JWT part of `auth.go` | `RefreshStore`, a map without a lock; JWTs held by clients only | Login, Refresh, Logout | handlers interleave on the map; a logout meets logins and refreshes half-way |
| Rate limiter | `internal/middleware/middleware.go` | a counter and a window start per client | allow | the clock is read before the lock; window boundaries |
| Terminal sessions | `internal/terminal/terminal.go` | pty, shell, two goroutines, a `done` channel, a WebSocket | ServeHTTP | who ends first, blocking reads and writes, clean-up |
| Request middlewares, router | `internal/middleware`, `internal/handlers/router.go` | none after start | match, check, dispatch, log | order of routes, matchers and chains |
| System metrics | `internal/handlers/system_handler.go` | last CPU times (no lock), bounded history, UID cache | Metrics, MetricsHistory, Processes | data race, unsigned differences, /proc parsing |
| File manager | `internal/handlers/file_handler.go` | the file system | List, Read, Write, Upload, Download, Delete, Mkdir, Rename | path resolution; check and use; writes that are not atomic |
| Configuration | `internal/config/config.go` | none after start | Load, applyEnv, validate | which source has the last word, and on what |
| Docker and service handlers | `docker_handler.go`, `service_handler.go` | none | one external command per request | output of a command that failed |
| Browser | `web/static/js` | page router, login state, terminal page, file page, polling pages | navigate, connect, load, save | events and answers that arrive late or in another order |
| Installer | `scripts/install.sh` | files, a user, a systemd unit | install, upgrade, uninstall | stopping half-way |

How they interact. A request passes the router, then - unless it is a login or a
refresh - the IP whitelist, the JWT check and the rate limiter, and reaches a
handler. The session handlers call the user manager and keep refresh tokens of their
own. The terminal handler turns its request into a WebSocket and lives as long as
the session. The file, docker and service handlers work on the server itself. The
browser pages call the handlers with `fetch` and a WebSocket and share only the page
router and the login state. The main program that wires them together is not part of
the repository.

What makes each part correct, in one line each:

* User manager: what a client was told is done is never lost, undone or served
  stale; the file is always whole; enrolment is enforced; the lockout limits
  guessing.
* Sessions: a token works until it expires or is revoked, and not after that.
* Rate limiter: at most so many requests per client and time, and no request refused
  without cause.
* Terminal: a session ends once, and when it ends no goroutine, shell, connection or
  master is left; a shell never outlives its request.
* Metrics: percentages are percentages; the history is bounded and in order.
* Router, middlewares, configuration: whatever the route, a protected handler runs
  only with an accepted token and within the limit; every route is reached.
* Files: what an answer says of the file system was so, whatever other requests do
  between two system calls; a file is never a mixture of old and new.
* Browser: what the user sees and acts on belongs to the page and the path shown;
  nothing outlives its page.

## 2. Modules

| Module | Models | Used by |
|---|---|---|
| `CrashStore` | abstract: a store in memory, saved whole, that forgets what was not saved | `AuthManager` (refinement) |
| `AuthManager` | the user manager, its file and the process | runs `AuthCrash`, `AuthLockout` |
| `AuthManagerProofs`, `AuthLockoutProofs` | theorems about it; the second about the lockout | |
| `AuthSessions`, `MCAuthSessions` | login, refresh, logout on the unlocked map | run `Sessions` |
| `AuthSessionsProofs` | theorems about it | |
| `RateLimiter`, `MCRateLimiter` | `allow` with concurrent requests | runs `RateLimiter`, `SlidingWindow` |
| `RateLimiterProofs` | theorems about it | |
| `Terminal` | one terminal session | `TerminalRequest`, runs `TerminalShellExit`, `TerminalUnblock` |
| `TerminalProofs` | theorems about it | |
| `BoundedLog` | abstract: a log that shows the newest items | `SystemHandler` (refinement) |
| `SystemHandler`, `MCSystemHandler` | metrics and process requests over shared variables | runs `SystemHandler`, `ProcessFields` |
| `SystemHandlerProofs` | theorems about it | |
| `RequestPath` | configuration, routes and middlewares | `TerminalRequest`, run `VerbRoutes` |
| `RequestPathProofs` | theorems about it | |
| `TerminalRequest` | composes the two: a session behind the router | run `TerminalRequest` |
| `FileManager`, `MCFiles` | the file handlers, system call by system call | run `Files` |
| `FileManagerProofs` | theorems about it | |

Definitions introduced by "A plausible slip" (`...Late`, `...Once`, `Unchecked...`
and the like) are not part of any specification. Each is a changed form of the
definition that follows it; put in its place, it makes the property named in
`PROJECT.json` fail, which shows that the property depends on that code.

### AuthManager

State: `users` is `m.users`; `disk` and `tmp` are the two files as the images they
hold; `op` is the operation that holds `m.mu`, with its step; `phase` is the life of
the process. An operation is one action that takes the lock and changes memory, then
`WriteTmp`, `Rename` and `Return`. The lock is held through all of them, so other
callers wait and one `op` is enough; what interleaves is time, failures of the two
file operations, and `Crash`, which is possible in every state. `Start` is
`NewManager`: `load`, and the bootstrap of the default admin, saved by the same
steps, when no user was found. `Authenticate` reads the clock twice, for the test of
the lock and, after the password and the code were checked, for a new one; time may
pass in between. A rename is atomic; a write that fails or is cut short leaves the
temporary file as it was or partial (`NoFile`, as its content is never read).

An account's password and secret are numbered by how often they were replaced, so
"not undone" can be said as "not smaller". bcrypt and TOTP validation are inputs: a
password or code is right or wrong. `LastLogin` and `Role` influence no decision and
are left out.

Properties. `AckedIsDurable` and `AckedIsLive` relate the file and the memory to the
history `acked` of what callers were told; `VerifiedIsEnforced` relates the three
TOTP fields in memory and on disk; `LockoutBounds` compares the times of the wrong
attempts that were answered since the last right one (`strikes`): of any
`MaxAttempts` + 1 in a row the last comes a lockout or more after the first.
`Authenticate` ignores the error of saving its counter: `unsaved` is the history of
whose strikes are in no users file, and only for those accounts does a stop begin
`strikes` anew. `StoreSpec` is the refinement of `CrashStore`. They cover the
reverse of the obvious too: a failed save leaves the change in force in memory until
a restart, and that is allowed.

### AuthSessions

State: `store` is `RefreshStore`; `calls` are the handlers with the step each is at;
`handed` and `jwts` are what clients hold. A map access has a beginning and an end.
Two that overlap, one of them writing, are a data race in Go: the model then lets
the access take effect or be lost, or ends the process, which are the outcomes a
build can show short of corrupting the map. `raced` records that it has happened,
and both safety properties are claims up to that moment: the code does nothing to
prevent the race, and no weaker condition would be true. `LogoutRevokes` says when a
logout has cut off the tokens handed out before it; `HandedTokensWork` that nothing
else does.

### RateLimiter

`Arrive` reads the clock, `Open`, `Accept` and `Refuse` are the rest of `allow`
under its mutex, so a request may decide with an old reading. `granted` is the
history of all that was ever let through, with the window it was counted in, its
reading of the clock and the time of the decision. `WindowBound` counts every grant
of a window, however old the reading and however late the decision; `BurstBound` and
`RefusalsAreEarned` speak of requests that decided in the tick of their reading, as
the history does not say when a stalled one was meant to be counted.

### Terminal

The steps of the handler and both goroutines, the pty, the shell and the browser.
`startPTY` makes two attempts (`attempt`), each of which opens a master
(`OpenMaster`) and a slave (`OpenSlave`) and starts the shell (`StartShell`), and
closes what it has opened when a later part fails. `slave` is the server's own
handle of the slave side: the code never closes it after a success, and the garbage
collector does so some time after the handler has returned (`Collect`). Two facts of
the platform decide the outcome and are modelled as such: `Fd()` makes the master a
blocking file, whose `Close` does not interrupt a `Read` or `Write` under way; and
the slave side stays open in the server, so no `Read` fails because the shell has
exited.

Properties. `DoneSignalsTheEnd` and `ReturnsClean` say how a session ends - with
nothing of a failed attempt left, and of a good one at most that handle -, the two
liveness properties that it does, and `OnlyTheShellIsAwaited` what it is that an end
which does not come is waiting for: the goroutines never wait on each other in a
ring.

### SystemHandler

State: `kernel` is `/proc/stat`, counting; `last` is `lastCPUTime`; `buffer` is the
history; `uidCache` is the map of that name; `calls` is what each goroutine has in
hand. `readCPU` is a data race in Go: it is modelled as loads and stores of single
fields, in any order, with those of other requests in between, which is what the
hardware does with aligned words. `Metrics` is `Sample`, `Load`, `Store`,
`ReadMemory`, `ReadDisks` and `Add`; `Processes` is `ReadStat` and the three ways
through `userForUID`. One of the columns of `/proc/stat` stands for all of them.
Numbers are modulo `Modulus`, as `uint64` is; `reading` is what the last step
computed. `/proc/meminfo`, `statfs` and the names of processes are inputs: sizes in
any relation to each other - memory that is free and not available, or available and
neither free nor cached, any reserve for root -, and texts of up to `MaxName` of the
three characters that the parsing tells apart.

Properties. A single racing request may show any share of the CPU, so no property
says it does not: `QuietSharesAreSane` says what is left of the promise when a
request met no other one and found `last` stored whole (`whole`), however many raced
before. It assumes, as `Tick` does, that no column of `/proc/stat` goes back, which
proc(5) does not promise for iowait. `MemoryAddsUp` and `DiskAddsUp` say for which
answers of the kernel used and free make the whole, and when a difference wraps
round. `CutNamesShiftNumbers` says that a bracket in a name cuts it and shifts the
numbers of its row against those of every other row; which fields they are meant to
be is the finding of `ProcessFields`. `SettledNamesStay` says that a cached user
stays once nobody is looking it up; which of two racing lookups wins, it leaves
open, as the code does. `HistorySpec` is the refinement of `BoundedLog`.

### RequestPath

A panel reads a configuration (`Load`) and then serves one request after another
(`Serve`, `Finish`). `conf` is what it loaded, `served` the request and how far it
got: the handler it reached, or the status of the middleware that stopped it. A
setting in the file or the environment is missing, good, out of range, or does not
parse (for `jwt_secret`, a `[]byte`, no text in the file does). The route table is
the one of `Router`, row by row in its order. Matching is the documented behaviour
of gorilla/mux, among it that the variables of a request are not set while routes
are tried. What can be asked for are all paths that fit a row, with names that other
rows use. The address of a client is what `clientIP` makes of it: the first of
`X-Forwarded-For`, from whatever peer. The validity of a token and the verdict of
the rate limiter are inputs, as `AuthSessions` and `RateLimiter` model them.

Properties. `ProtectedNeedToken` crosses the route table, the chains and both places
of a token. `OnlyVerbsAreUnserved` says of every pair of rows that neither hides the
other, and that the two rows with a verb are never reached; `VerbsAreServed`, what
the repository says of those two, is violated. No property is about who passes the
whitelist: as the address is the client's own word, none that the repository states
would hold.

### TerminalRequest

The two before it together: a request for `/api/terminal` that passes every
middleware is one session of `Terminal`, and is being served until `ServeHTTP`
returns (`Leave`). Steps of a session happen only while its request is served
(`During`); the garbage collector's do at any time. `ShellsHaveRequests` connects
them: as long as there is a shell, the request that started it is there, with its
token. All properties of `Terminal` are checked here, under its fairness
(`PanelFairness`).

### FileManager

State: `tree` maps paths to inodes and `data` inodes to content, so an open file
stays itself when its path is renamed or removed; `ops` is what each handler is
doing. A handler and the library functions it calls are cut into the system calls
that another request can come between: the look at a path (`Stat`) and its opening
(`Open`, `OpenDir`), the entries of a directory and one `Lstat` for each (`ReadDir`,
`Info`), each block read or written, each `mkdir` and the `Lstat` after one that
failed (`Ascend`, `Check`), the look at the target of a rename and the rename.
`os.RemoveAll` first tries the path itself (`RemoveEntry`), then opens the parent,
unlinks the entry, opens it as a directory if it is one, and goes on so below it.
What it reads of a directory, and when, is over-approximated: while it is in there,
any entry of a directory it has opened - also one added meanwhile, and wherever the
directory has been moved - may be removed or opened next (`RemoveChild`), one that
resists may be passed over, and the final removal of the directory may come at any
time (`RemoveSelf`), too early included. Still one step are the `unlink` and `rmdir`
inside `os.Remove`, the open and `fstat` of `http.ServeFile`, and the two `Lstat`s
of `os.Rename`.

`Begin` and `Refuse` are `resolve`; an upload joins its two path elements before
that, which removes every ".." but those that lead above the start of a path without
a root (`Target`). `BaseDir` is "/", the default of `config.go` line 41, which no
request can remove; with another base a delete of it would succeed. A write may fail
after any block. The fields `always`, `ever`, `made` and `alone` are the history of
what a request could have seen since it began; the properties compare the answer
with it. `TypeOK` includes that the tree stays a tree: no entry without its
directory, none in a file, none twice.

## 3. Runs

| Run | Instance | Shows |
|---|---|---|
| `AuthCrash` | 2 accounts, one password change and one secret each, limit 1, file faults, crashes anywhere, clock still | `TypeOK`, `AckedIsDurable`, `AckedIsLive`, refinement `StoreSpec` |
| `AuthLockout` | 1 account, 2 attempts, lockout of 2 ticks, 4 ticks, 2 secrets, crashes and file faults anywhere | `LockoutBounds`, `VerifiedIsEnforced` |
| `Sessions` | 2 concurrent requests, 2 logins, 2 ticks, restarts | `TypeOK`, `LogoutRevokes`, `HandedTokensWork` |
| `RateLimiter` | 2 requests, 2 clients, limit 2, window 2 ticks, clock up to 3 | `TypeOK`, `BurstBound`, `WindowBound`, `RefusalsAreEarned` |
| `TerminalRequest` | every request under every configuration of 2 settings, 2 addresses; 1 session, pty buffers of 1 chunk | `RequestTypeOK`, `ProtectedNeedToken`, `ShellsHaveRequests`, `TypeOK`, `DoneSignalsTheEnd`, `ReturnsClean`, `OnlyTheShellIsAwaited`, `DisconnectIsNoticed`, `TeardownCompletes` |
| `SystemHandler` | 2 requests at a time, 3 in all, history of 2, modulus 8, 2 ticks, sizes up to 2 | `TypeOK`, `QuietSharesAreSane`, `MemoryAddsUp`, `DiskAddsUp`, `CutNamesShiftNumbers`, `SettledNamesStay`, refinement `HistorySpec` |
| `Files` | 2 requests at a time, 3 in all, 7 paths, 5 inodes, writes of 2 blocks | `TypeOK`, `WritesAreAllOrPrefix`, `ReadsAreWhole`, `ListingsAreTrue`, `DeletesAreComplete`, `MadeDirectoriesExist` |
| `SlidingWindow` | 1 client | finding: the window is fixed, not sliding |
| `TerminalShellExit` | 1 session | finding: the exit of the shell is not noticed |
| `TerminalUnblock` | 1 session | finding: closing the master does not unblock a reader |
| `VerbRoutes` | 1 setting, 1 client, every request | finding: two routes serve nobody |
| `ProcessFields` | 1 request, names of up to 2 characters | finding: a row's numbers are other fields |

Why the bounds are enough. The properties of the user manager speak of one account
at a time; the second one is there so that a save of one carries the other's state
along, which a third would only repeat, and one change of each kind is enough to
have an older and a newer image. `AuthCrash` keeps the clock still because no
durability depends on it; its view leaves the history of strikes and a temporary
file that nobody will read out of the fingerprint, as no property of that run reads
them. `AuthLockout` runs for two lockouts, so that one starts, ends and starts
again, and with two secrets, so that one replaces another that was verified. Of the
strikes the newest `MaxAttempts` + 1 are kept (`Latest`): an older one has been
compared with all that `LockoutBounds` compares it with. `Sessions` has two handlers
because each property relates two requests, a third being served after one of the
two is done; handlers are interchangeable (symmetry). Its two ticks let both kinds
of token expire. `RateLimiter` spans two windows, so that a burst can straddle a
boundary and a reading be older than a whole window; requests and clients are
interchangeable. In `TerminalRequest` one chunk is enough for an empty and a full
buffer. `RateLimiter`, `AuthManager` and `AuthSessions` have ticks bounded by
`Horizon`, and `AuthSessions` logins by `MaxLogins`; `AuthManager` bounds the
replacements of a password and a secret by `MaxPassword` and `MaxSecret`. In
`SystemHandler` two requests race in `readCPU` and a third finds what they left, in
a history (`HistorySize`) it overflows; `MaxRequests`, `MaxTicks` and `MaxSize`
bound the requests of `Metrics`, the CPU time and the sizes, and `Modulus` leaves
room for numbers that wrap round; names of up to two characters (`MaxName`) have a
bracket and something before or after it. In `Files` a first request shapes the tree
and two more interleave on it: each property relates one answer to what one other
request did meanwhile. The files of two blocks are longer than `MaxRead` by as much
as `Read` can tell; `Blocks` and `MaxRequests` bound the writes and the requests,
`Nodes` the inodes, which are used again. `TerminalRequest` has a setting that must
parse and one that is checked, an address in the one network a whitelist names and a
text that is none; it serves requests one at a time, as none depends on another,
until one has had a session. A session stops when it has returned, and a program
whose configuration does not load stops too, so those runs do not check deadlock.

Fairness is used for `Terminal` and `TerminalRequest` only. Each of the three
goroutines takes a step when it can - Go schedules every runnable goroutine - and
the kernel hangs up the shell of a destroyed terminal, which then exits.
`TalkativeSpec` adds a shell that reads its input and prints now and then. Nothing
in the code makes a shell do so; it is the assumption under which disconnects are
noticed and sessions are cleaned up, and `TerminalUnblock` shows what happens
without it.

## 4. Proofs

`tlapm` checks every theorem to its last leaf. They hold for any sets of names,
clients and requests and any positive limits, under the named assumptions on
constants in the modules (TLC evaluates those too).

* `AuthManagerProofs`. The inductive invariant `Inv` joins the type invariant, what
  is known of the operation under way (when it stands between write and rename the
  temporary file holds exactly `users`; when it is about to answer without an error
  the file does), that memory is never behind the file, and that the file is never
  behind `acked`. The second is the point of the proof: durability alone is not
  inductive, because the rename installs `tmp`, about which it says nothing. A lemma
  reduces all requests to "one account is replaced by one at least as new" or
  "refused", so the case split of the main proof is by step, not by request.
  `IsACrashStore` maps every action to a step of `CrashStore` or a stutter.
* `AuthLockoutProofs`. `LockoutBounds` speaks of times, the code keeps a counter and
  the end of a lock, and a restart reads both from the file. What joins them
  (`Covers`) is that all strikes but the last `failed` ones were made a whole
  lockout before `lockedUntil`, for the account in memory, the attempt being saved
  included, and for the one in the file. When the counter starts anew at
  `MaxAttempts` it covers all; when a strike is let through by a lock that has run
  out, it is that far from the one `MaxAttempts` before it. A save changes no
  account but the one that is struck, and leaves one that `KeepsLock` or strikes it
  (`LockStep`). A save that fails leaves the account in the file behind, and the
  invariant then claims of the file nothing for that account (`unsaved`) until a
  rename brings every account up to date; what it claims of the memory stays. A stop
  in between begins the account's history anew: without that the property is false,
  as `Authenticate` drops the error and the restart forgets the strike.
* `RateLimiterProofs`. The invariant says, per client, that windows start a whole
  window length or more apart, that the requests let through in one window are
  numbered without repetition up to its counter, that each was let through after its
  window started and on a reading before its end - of all requests ever let through
  -, and that a running window has let through every number up to its counter or the
  limit. `WindowsAreBounded` counts by the numbers; `BurstsAreBounded` shows that
  the recent prompt requests belong to two windows at most; `Refusals` finds the
  requests that earned a refusal.
* `AuthSessionsProofs`. The invariant says, of the time before a conflict, where
  each token a client holds or is about to hold is: in the store or swept, and not
  in the store when revoked; and that a logout between its deletion and its answer
  has already swept what it will revoke.
* `TerminalProofs`. The invariant ties the handler's step to the state of the
  master, the connection and the goroutines: `Join` passes only when both have
  ended, so that nobody holds the closed master, and it is destroyed. That a closed
  master is there exactly as long as somebody is inside a call on it (`HeldOpen`)
  also leaves the shell as the only thing that the end of a session may be waiting
  for (`NoOtherWait`). Of the slave it is known that it is open only while an
  attempt is under way or after one that started a shell (`OnlyTheSlaveIsLeft`).
* `SystemHandlerProofs`. `CPUInv` is the core: at most one request in `readCPU` has
  been there alone (`Solitary`); whatever was read of `/proc/stat` is behind it, and
  so is `last` when one request stored it whole (`Behind`); and a request alone
  finds `last` as it was when it came, and leaves it as what it read (`Undisturbed`,
  `StoresAll`). From `Grows` - no column gains more than the total - follows that
  the share is at most the whole, by lemmas about differences modulo `Modulus` that
  the memory and disk theorems use as well. None of this is inductive without the
  others: a share is sane because of a store two requests earlier. `HistoryInv` says
  the buffer is the newest part of the log, and `TrimmedIsNewest` that cutting after
  each snapshot or once at the end is the same, which makes every step an `Add` of
  `BoundedLog` or a stutter. `CutNamesTell` holds for names of any length: a text
  always has a first bracket, its own or the one the kernel adds (`NamesEnd`), and a
  name is cut exactly when words of it are left over for the fields
  (`SurplusOfCutNames`).
* `RequestPathProofs`. The table is finite, so `TableIsSound` goes through its rows
  once: every handler is public or its row is below `/api`. A handler runs only when
  every middleware of its chain called the next (`HandlerRuns`), so for a row below
  `/api` all its checks passed; the invariant adds that nothing is answered before a
  configuration runs. `RoutesAreServed` reads the table the other way: the position
  of a route without a verb can be told from any path that fits it (`Place`,
  `OneRoute`), so no two of them fit the same path, whatever the method and the
  names in it - among them names that other rows spell out - and the order of
  registration decides nothing.
* `FileManagerProofs`. All properties of the run, for any requests, paths, inodes
  and sizes. The invariant (`Sound`) says of every operation under way what its
  answer will rest on, and two facts carry it through the steps of the others: an
  inode that is open and holds a file goes on doing so (`Spares`), and an entry that
  stays where it is stays in the same directory (`Steady`). The second is what a
  delete needs: it removes a name from the parent directory it opened, and only
  because nothing can be renamed over a directory that is not empty is that still
  the directory its path stands in. Both rest on the shape of the tree (`Stored`),
  which a rename rebuilds: `MovedIsStored` shows that it keeps every entry in a
  directory, under one path, and `Childless` that a directory without children has
  nothing below it. `CleanStaysBelow` says of paths of any length that `Clean`
  returns some of the names it is given, without "." and "..": that the function it
  is defined by exists, and what it returns, both by the least length for which it
  would not be so (`UpTo`).

Checked by TLC only: all liveness (`DisconnectIsNoticed`, `TeardownCompletes`),
which is out of the prover's reach. `OnlyTheShellIsAwaited` is what can be proved of
it: it states the conditions under which a goroutine waits as predicates
(`HandlerWaits`, `ReaderWaits`, `WriterWaits`), as the prover does not know
`ENABLED`. The composition `TerminalRequest` is checked by TLC only
(`ShellsHaveRequests`); the theorems are about its two parts.

## 5. Findings

The five violation runs each show the program doing something other than a line of
the repository says; `PROJECT.json` quotes it:

* `SlidingWindow`: the limiter's window is fixed, and around a boundary twice the
  limit passes.
* `TerminalShellExit`, `TerminalUnblock`: the handler is not told that the shell has
  exited, and closing the master interrupts no read.
* `VerbRoutes`: no container and no service can be started, stopped or restarted.
* `ProcessFields`: the CPU times and the start time of a process are three other
  numbers.

Met while modelling, described by the models and checked by no run:

* `src/README.md` line 236 says that logout invalidates the token: it revokes the
  refresh tokens - everybody's -, while the JWT is accepted until it expires.
* `src/configs/config.example.yaml` lines 13 to 15 say that an empty `jwt_secret` is
  generated. A text in that place, the empty one included, is no `[]byte` to the
  YAML decoder, so such a file does not load (`Loads`).
* Line 20 of it says that only the listed addresses may access the panel. The
  address is the first of `X-Forwarded-For` whoever sends it (`ClientIP`), and
  login, refresh, health and the static files are outside the list (`Chain`). A
  `VPSCTL_ALLOWED_IPS` of separators only empties the list of the file, and with it
  the whitelist is off (`AllowedIPs`).
* Two requests in `readCPU` at the same time may show a share above the whole CPU,
  and so may the first one after a failed reading (`QuietSharesAreSane`).
* A write or an upload that fails leaves the part it has written under the final
  name (`WritesAreAllOrPrefix`).
* The slave side of a pty is closed by the garbage collector only (`ReturnsClean`).
* The unlocked refresh store, the swallowed save error of `Authenticate`, and that
  an unverified TOTP secret is demanded from an account that requires TOTP.

## 6. Not modelled

* The docker and service handlers: each runs a command and reshapes what it printed,
  or reports that it failed; none has a state or a second step that depends on
  others. `RequestPath` has their routes.
* The status that a handler answers once it runs, and with it what the log's status
  recorder shows. `RequestPath` ends at the handler; the outcomes of the session,
  file and terminal handlers are in their own modules.
* That only listed addresses reach a handler: see the findings above.
* The browser pages (`web/static/js`): another program in another language. Their
  races of events, timers and late answers are listed as hazards. The file page's
  editor is not among them: it asks for `/files/content`, which has no route.
* The installer: shell commands one after another, repeated by hand after a failure.
* Symbolic links in the file manager: `resolve` follows them, and so do the system
  calls, at different times; a tree with links needs another model of paths.
* In `system_handler.go`: which mounts are listed, the sort and the cut to 20
  processes, `Info`, `Network` and uptime. Each maps one text to another and keeps
  nothing.
* The descriptor number that `setWinSize` uses after it may have been closed; the
  descriptor table is not part of `Terminal`.
* The growth of `RefreshStore` and of the limiter's map is visible in the models but
  nothing bounds it.
