# Verification of miredo's supervisor, signal bridge, worker and tunnel device

This directory holds TLA+ models of the process and signal structure of
`src/src/miredo.cpp` and of the tun device object of
`src/src/ipv6-tunnel.cpp`, the TLC configurations that check them, and TLAPS
proofs about them. `PROJECT.json` lists the components, the runs, the
mutants, the map from every definition to the source lines it translates,
the findings, the hazards and the theorems.

## The system

`miredo()` is a supervisor loop. Each *generation* runs these steps:

1. `InitSignals()` creates the self-pipe `signalfd`, clears `should_exit`
   and `should_reload`, and installs `exit_handler` (INT, QUIT, TERM) and
   `reload_handler` (HUP).
2. The configuration is parsed.
3. `fork()` starts the worker. The worker closes its copy of the pipe's
   write end with `asyncsafe_close()`, then runs `miredo_run()`, which sets
   up the tunnel, the privileged helper and the relay or server, and enters
   the `select()` loop of `teredo_server_relay()`.
4. The supervisor waits for the worker in `while (waitpid(...) == -1);`.
5. `DeinitSignals()` tears down the bridge.
6. The supervisor decides, in this order: exit on `should_exit`, restart on
   `should_reload`, return the child's exit code, or restart if the child
   died by a signal.

A handler tests its flag and `signalfd[1]`, writes the signal number into
the pipe, and then records the flag. The byte wakes the worker's `select()`,
because the read end was inherited across `fork()`. Handlers are installed
with an empty `sa_mask` and without `SA_RESTART`. So handlers for different
signals nest, and each handled signal makes `select()` and `waitpid()`
return `EINTR`.

## Modules

| module | models |
|---|---|
| `Supervisor.tla` | Both processes, the handlers, the pipe, fork and reaping, the decision. Constants: `ExitSigs`, `ReloadSigs`, `MaxSignals`, `MaxCrashes`. |
| `MC_Supervisor.tla` | Model values SIGINT, SIGTERM (exit) and SIGHUP (reload). |
| `SupervisorProofs.tla` | TLAPS proofs: type correctness, `HandlerWritesOpenPipe`, `WorkerReaped`, `ExitIsFinal`. |
| `TunnelDevice.tla` | The contract of the tunnel device (spec.md 4.1), written from the spec: what each operation may do to the handle, the interface's flags, MTU and addresses, and the frame handed to the caller. |
| `IPv6Tunnel.tla` | The `IPv6Tunnel` object: its methods, its descriptors and the kernel interface they configure. Refines `TunnelDevice`. |
| `MC_IPv6Tunnel.tla` | Boundary inputs: MTUs, prefix lengths, packet and read lengths. |
| `IPv6TunnelProofs.tla` | TLAPS proofs: type correctness, `HandleOwnsInterface`, `FailedCallReleasesSockets`, the refinement. |
| `MiredoRun.tla` | `miredo_run()`: the worker's setup and teardown, composed with an `IPv6Tunnel` instance and the privileged helper process. |
| `MC_MiredoRun.tla` | The instance TLC runs. |
| `MiredoRunProofs.tla` | TLAPS proofs: type correctness, `ServeOnlyWhenReady`, `TeardownReleases`. |

### State and actions

- **Program counters.** `spc` is the supervisor's place in one generation:
  `pipe, reset, parse, fork, wait, deinit1, deinit2, decide, done`.
  `wpc` is the worker's place: `close1, close2, setup, select, process`,
  or `none`/`exited` when there is no worker.
- **Handler activations.** `stack[p]` holds the handler activations of
  process `p`, innermost last. Each frame records its signal and whether
  the handler is before its test (`check`) or has passed it (`write`).
  - A process's own code runs only while its stack is empty (`Running`).
  - `Kill(s, T)` delivers `s` to the supervisor, the worker, or the process
    group. A signal is blocked only while a handler for *that* signal runs
    (`CanReceive`), as an empty `sa_mask` gives.
  - A delivery to a process blocked in `select()`/`waitpid()` sets its
    `intr` flag, which models EINTR.
- **Handler steps.** `handler_check` is line 100/111: it returns when the
  flag is set or `signalfd[1] == -1`. `handler_write` is lines 103-104 and
  114-115. The write reaches the pipe only if the descriptor is still open
  (`wrOpen`). Otherwise it fails with EBADF.
- **`asyncsafe_close()`** is two steps: `wrSet := FALSE` (`fd = -1`), then
  `wrOpen := FALSE` (`close`). A handler can run between them.
- **`fork()`** copies the supervisor's flags, `wrSet` and `wrOpen` to the
  worker.
- **`WaitPid`** returns only once the worker has exited. `WaitPidEINTR` is
  an interrupted call that is retried.
- **`Decide`** is the if/else-if chain of lines 634-664.
- **The worker.** It either fails its setup (exit 1), or loops between
  `Select` and `ProcessTick`. `Select` breaks on `select() < 0` (EINTR) or
  when the pipe is ready. `others \in 0..1` is the number of tunnel or UDP
  descriptors that are also ready. `WorkerKilled` is a death by an
  uncaught signal (SIGKILL, SIGSEGV).
- **Before the handlers are installed.** A signal kills the supervisor
  (`KillUninstalled`).
- **Bookkeeping.** `gen` counts generations. `sent` and `crashes` are
  bounded by the constants. `handled` counts the handler writes of the
  current generation. `exitSent` records that a terminal signal was sent.

## Runs

All runs use `MaxSignals = 3` and `MaxCrashes = 1`, with two exit signals
and one reload signal. These bounds cover the interesting cases:

- handlers of two different signals nested;
- a signal arriving during `InitSignals()` of a second generation, after a
  crash;
- an exit signal after a reload;
- a signal to the worker alone while another is pending at the supervisor.

Symmetry between SIGINT and SIGTERM is not used: the state space is small
(130k states, 35 s).

- **`supervisor_core`** (pass). Checks:
  - `TypeOK`.
  - `HandlerWritesOpenPipe`: no handler that has passed its test writes
    into a closed descriptor.
  - `WorkerReaped`: outside `waitpid()` there is no live worker.
  - `ExitIsFinal`: after the supervisor records `should_exit`, no new
    generation starts.
  - `RequestEndsGeneration`: a request recorded by the supervisor leads to
    the end of its generation.

  Every property is broken by a mutant of the code, listed in
  `PROJECT.json`:
  - a plain `close()` instead of `asyncsafe_close()`;
  - a single `waitpid()` instead of the retry loop;
  - reload tested before exit;
  - `maxfd > 1` instead of `maxfd >= 1`;
  - `should_x = 1` instead of the signal number.
- **`nested_exit_handlers`** (violation, `FlagsSetOnce`). SIGINT's handler
  is preempted by SIGTERM's after its test. `should_exit` is then set twice
  and two bytes are written. The comment at line 83 ("We block all
  signals") and spec.md say a second signal of a class is dropped.
- **`exit_and_reload_together`** (violation, `AtMostOneFlag`). A HUP and
  then a TERM set both flags. spec.md says at most one is observed.
- **`signal_lost_at_init`** (violation, `CaughtSignalHonoured`). After a
  worker crash, a signal handled between `pipe()` (line 440) and
  `should_exit = 0` (line 445) is erased.
  - A TERM there is lost when the next worker fails its setup: the daemon
    returns -1.
  - A HUP there wakes the next worker, which exits 0, so the daemon stops
    instead of reloading.
- **`worker_only_reload`** (violation, `CleanExitNeedsExitSignal`). A HUP
  sent to the worker's pid interrupts its `select()`. The worker exits 0
  and the supervisor returns 0, although no exit signal was sent.

### Fairness

`Spec` has weak fairness on each process, counting its own code together
with its handlers:

- `WF_vars(Supervisor \/ Handlers("sup"))`
- `WF_vars(Worker \/ Handlers("wrk"))`

The kernel schedules every runnable process, and a running handler always
completes. No fairness is assumed for the environment: signals and crashes
may or may not happen. `ProcessTick`/`Select` may loop forever, which is a
worker that is never asked to stop. Deadlock checking is on, and the only
final state is `spc = "done"`, where `Terminated` stutters.

## Proofs (`SupervisorProofs.tla`, checked by `tlapm`)

The proofs rest on two assumptions, stated in `Supervisor.tla`:

- `SigAssumption`: the two signal sets are non-empty and disjoint, and do
  not contain 0.
- `BoundAssumption`: both bounds are naturals.

The theorems:

- **`TypeCorrect`: `Spec => []TypeOK`.** `TypeOK` is split into its
  Boolean part (proved with Zenon) and the rest (proved with SMT). There is
  one step per action. Lemmas `PopFrame`, `MarkFrame` and `PushFrame`
  establish that popping, marking and pushing a handler frame keep a
  sequence of frames.
- **`HandlerWritesOpenPipeHolds`** and **`WorkerReapedHolds`**. Both follow
  from the inductive invariant `IInv == TypeOK /\ IRest`, where `IRest`
  conjoins:
  - `WritesOK`: a frame past its test implies an open descriptor.
  - `SetOpen`: a set `signalfd[1]` is open. This holds because
    `asyncsafe_close()` clears before it closes.
  - `UnsetBeforeClose`: between the two steps of `asyncsafe_close()` the
    descriptor is already cleared.
  - `ChildClean`: with no worker, the worker has no handler frames. So the
    child that `fork()` creates starts with none, although it inherits an
    open descriptor.
  - `WorkerReaped`.
  - `InstalledAfterReset`: once past `InitSignals()` the handlers are
    installed. This is needed because a signal before `sigaction()` kills
    the supervisor, which must then have no child.

  The argument:
  - A handler can pass its test only while the descriptor is set, and
    hence open.
  - The process that closes the descriptor has no handler running, since
    its code runs only with an empty stack, and its descriptor is already
    cleared.
  - A frame pushed later fails its test.

  `IInv` was model-checked as an invariant before it was proved.
  `NextIRest` has one step per action, and its lemmas cover the deliveries,
  the handler steps, the end of the worker and the steps that change
  nothing relevant.

- **`ExitIsFinalHolds`: `Spec => ExitIsFinal`.** This is an action
  property. Lemma `GenChangesOnlyInDecide` shows that a step changing
  `gen` is a `Decide` step taken while the exit flag is clear. With the
  flag set, outside the pipe and reset steps, no step can start a new
  generation. No invariant is needed: the lemma is about one step.

Liveness (`RequestEndsGeneration`) is checked by TLC only. TLAPS cannot
reason about fairness or ENABLED. The violation runs' properties are
false, so they have no theorem.

## The tunnel device (`IPv6Tunnel.tla`, `TunnelDevice.tla`)

`IPv6Tunnel` wraps a Linux tun descriptor. The worker creates one object
in `miredo_run()`, sets its MTU, and reads and writes packets through it in
the event loop. The object is used by one thread, so each method is one
atomic action of the model. A system call's outcome is a nondeterministic
Boolean (`\E ok \in BOOLEAN`).

### State

| variable | code |
|---|---|
| `obj` | the object's lifetime: `none` before the constructor, `live`, `gone` after the destructor |
| `fd` | the member `fd` (`-1` when invalid) |
| `fds` | the descriptors the object has opened and not closed: `fd` and the ioctl sockets of `socket_udp6()` |
| `iface`, `flags`, `mtu`, `addrs` | the kernel's interface: whether it exists, its `IFF_*` flags, its MTU, the prefix lengths of its addresses |
| `pbuf`, `plen` | the first 4 bytes of the member `pbuf` (the tun header) and `plen` |
| `rx` | the frame the driver delivered last (length, header) |
| `last`, `calls` | the last method, its argument and result; the number of calls (bounded by `MaxCalls`) |

- **Descriptors.** A new descriptor is the lowest free slot of
  `0 .. MaxFds-1`, as POSIX requires. When none is free, `open()` and
  `socket()` fail (EMFILE).
- **`IFF_RUNNING`** is left out. `SetState(true)` sets it, but the kernel
  ignores it for tun devices. The spec's statement that `SetState(false)`
  clears it is therefore not observable.
- **Addresses** are reduced to their prefix length. That is the only
  argument the method tests.
- **`RegisterReadSet`** and `select()` readiness are folded into
  `ReceivePacket`: the read is attempted only on a ready descriptor.
- **`ReadInto`** overwrites only as many header bytes as `read()` returned.
  The rest of `pbuf` keeps the previous frame's bytes or, before the first
  read, the uninitialised memory of the object (`junk`).

### Actions

One action per method, with the code's early returns as `Refuse`:

- `IPv6Tunnel_ctor`: `open()`, then `TUNSETIFF`; on a TUNSETIFF failure the
  descriptor is closed and `fd = -1`.
- `IPv6Tunnel_dtor`: `close(fd)` removes the interface.
- `SetState(up)`: socket, SIOCGIFFLAGS, the flag arithmetic (`StateFlags`),
  SIOCSIFFLAGS, with `close(reqfd)` on every path.
- `SetAddress(pl)`: the prefix-length guard, socket, interface index,
  SIOCSIFADDR.
- `SetMTU(m)`: the 1280/65535 guards, socket, SIOCSIFMTU. It closes the
  socket only on failure.
- `ReceivePacket`: readiness, `read()`, the ethertype test.
- `SendPacket(n)`: the 65535 limit and one `write()` of header and payload copied into a buffer.

### Refinement

`TunnelDevice` states the contract of spec.md 4.1, independently of
descriptors and sockets:

- an operation on a valid handle either fails and changes nothing, or has
  exactly its documented effect;
- an operation on an invalid handle fails;
- `ReceivePacket` hands over a frame exactly when it is at least 4 octets
  long and its ethertype is IPv6.

`IPv6Tunnel` instantiates it with a refinement mapping:
- `handle <- handleBar`, from `obj` and `fd`;
- `up <- upBar`, the `IFF_UP` flag;
- `shape <- shapeBar`, point-to-point with NOARP and without multicast and
  broadcast.

The other variables map to themselves. The leaked sockets are invisible to
the contract, so the refinement holds despite the leak.

### Runs

`MaxFds = 3` and `MaxCalls = 4`, so that three successful `SetMTU` calls
exhaust the table and later calls meet EMFILE. This only exercises the
EMFILE paths. `miredo_run()` calls `SetMTU` once per worker process, so
the leak cannot fill a real descriptor table. The inputs are the
boundaries of each guard:
- MTUs 1279, 1280, 65535, 65536;
- prefix lengths -1, 64, 129;
- send lengths 65535, 65536;
- read lengths 4 and 1284 (or 2 and 4 for the short-read run).

- **`tunnel_object`** (pass, 4919 states). Checks:
  - `TypeOK`;
  - `HandleOwnsInterface`: the interface exists exactly while the handle is
    valid, and a valid handle's descriptor is open;
  - `FailedCallReleasesSockets`: a call that returns -1 opens no descriptor
    that stays open;
  - `ImplementsTunnelDevice`: `T!ASpec` under the mapping.

  The mutants:
  - `fd` kept after the failed TUNSETIFF;
  - no `close(reqfd)` after a failed SIOCGIFFLAGS;
  - `mtu > 65536` as the upper guard;
  - no test of `read()`'s error result.
- **`setmtu_socket_leak`** (violation, `RequestSocketsReleased`). After
  the constructor, `SetMTU(1280)` succeeds and the object holds a second
  descriptor. Line 241 returns without `close(reqfd)`. spec.md 5 says
  ioctl sockets are acquired, used and released within one operation.
  `miredo_run()` calls `SetMTU` before it forks the privileged helper, so
  the helper inherits the socket too.
- **`short_frame_accepted`** (violation, `AcceptedFrameIsIPv6`). A read of
  2 bytes, while `pbuf` still holds an IPv6 header (from the previous frame,
  or from uninitialised memory), returns 0. Line 267 never checks `len >= 4`.
  spec.md 4.1 says such a frame yields Empty. The Linux driver always
  writes the 4-byte header, so this needs a driver that does not.

## Proofs (`IPv6TunnelProofs.tla`)

The only assumption is `TunnelAssumption` in `IPv6Tunnel.tla`:
`MaxFds >= 1`, `MaxCalls` is a natural, and the input sets are sets of
integers (the lengths are naturals).

The inductive invariant is `IInv == TypeOK /\ HandleOwnsInterface /\
NoInterface`. `NoInterface` says that without a valid handle there is no
interface, no flags, MTU 0 and no address. It is what the refinement
needs: the abstract state of an invalid handle is down, default-shaped,
with MTU 0 and no address, and a failed constructor leaves the interface
variables as they were, which must therefore already be empty. `IInv` was model-checked
before it was proved.

The lemmas:
- `LowestIsLeast` and `NewFdFree`: a new descriptor is free. They use the
  well-foundedness of `<` on the naturals.
- `ReadIntoBytes` and `ReadIntoWhole`: a read keeps `pbuf` a 4-byte header,
  and a read of at least 4 bytes replaces it whole.
- One lemma per action for `IInv`. Cases lemmas (`SetMTUCases`,
  `ReceiveCases` and so on) split a method into its refusal and its
  success, so that later steps need no Boolean witnesses.

The theorems:
- `TunnelTypeCorrect`, `HandleOwnsInterfaceHolds`: `Spec => []Inv`, from
  `IInv`.
- `FailedCallReleasesSocketsHolds`: from `NextRelease`. Every refused call
  leaves `fds` unchanged, and each failed ioctl path closes what it opened.
- `TunnelRefinesDevice`: `DriverFrames => (Spec => ImplementsTunnelDevice)`.
  `InitRefines` maps the initial state. `NextRefines` maps every step
  under `IInv` to a step of `ANext` or a stutter, with one lemma per method.
  The hypothesis `DriverFrames` (every read returns at least 4 bytes) is
  needed: without it `short_frame_accepted` is a counterexample.

## The worker's setup and teardown (`MiredoRun.tla`)

`miredo_run()` is the body of the worker. The module composes three
things:
- its steps;
- the `IPv6Tunnel` object it creates, through the actions of
  `IPv6Tunnel.tla` on the same variables (`Tun == INSTANCE IPv6Tunnel`);
- the privileged helper it forks in client mode.

`wpc` is the worker's place: one value per block between two decisions,
and two return points (`failed` at line 253, `done` at line 430). The
build is the full one: client, relay and server code compiled in.

| action | lines | what it does |
|---|---|---|
| `InitNonce` | 224-227 | the nonce generator in client mode |
| `CreateTunnel` | 242 | `Tun!IPv6Tunnel_ctor` |
| `SetTunnelMTU` | 249-254 | `!tunnel`, else `Tun!SetMTU(1280)`; either failure returns -1 |
| `PrivSetup` | 265-289 | client: fork the helper, which inherits the worker's open descriptors; otherwise the routing setup. A failure goes to `abort`. |
| `SetUid` | 291-302 | `setuid()`; a failure goes to `abort` |
| `ServerSetup`, `RelaySetup` | 304-406 | constructor throws (NULL), constructed but not bound (`!*x`), or ready |
| `Serve` | 408-409 | `retval = 0`, then the event loop (one step here; `Supervisor.tla` models the loop) |
| `Teardown` | 411-425 | close the helper socket, delete relay and server, `DeinitNonceGenerator()` |
| `WaitHelper`, `WaitEINTR` | 427-428 | `wait(NULL)` returns with the helper reaped, or fails with EINTR when a caught signal arrives |
| `Return` | 253, 430 | the tunnel object is destroyed at scope exit (`Tun!IPv6Tunnel_dtor`) |
| `HelperExit` | spec.md 4.3 | the helper exits on EOF of its socket (its code is not in `src/`) |

The configuration (`mode`, whether a server address is set) is chosen in
`Init`. The relay, the server, `miredo_privileged_process()` and the routing
methods are not in `src/`, so only their outcomes are chosen.

**Fairness.** `WF_vars(Worker)` and `WF_vars(HelperExit)`: both are
processes the kernel schedules. The signal that interrupts `wait()` is
environment and is not forced. Deadlock checking is off for this run: once
`miredo_run()` has returned, the worker process exits, so the model may stop.

**Runs** (`MaxFds = 3`, `MaxCalls = 2`, `MaxSignals = 1`; 814 states;
every mode with and without a server address, every outcome of every step):

- **`worker_setup_teardown`** (pass). Checks:
  - `TypeOK`;
  - `ServeOnlyWhenReady`: the loop starts only with a valid tunnel at MTU
    1280, privileges dropped, the helper running in client mode, and every
    relay and server the configuration asks for built and bound;
  - `TeardownReleases`: at the main return, the relay and server are
    deleted, the nonce generator is released and the tunnel is destroyed;
  - `WorkerReturns`: `miredo_run()` always returns;
  - `HelperExits`: a forked helper always exits.

  The mutants:
  - the success code written as 1;
  - the `!*relay` test dropped;
  - the relay not deleted;
  - `close(fd)` left out. Worker and helper then wait for each other; this
    breaks both liveness properties.
- **`helper_not_reaped`** (violation, `HelperReapedAtReturn`). A caught
  signal during `wait(NULL)` (line 428) makes it fail with EINTR. The
  result is not tested, so `miredo_run()` returns with the helper still
  running. spec.md 4.4 says the worker waits for the helper to exit.
  Unlike the supervisor's `waitpid()` (line 631), this wait is not
  retried.
- **`helper_inherits_leaked_socket`** (violation,
  `HelperInheritsOnlyTunnel`). The socket leaked by `SetMTU(1280)` is open
  when the helper is forked, so the privileged helper holds it too.
  spec.md 5 says worker and helper share only the control socket and their
  tunnel handles.

**Proof** (`MiredoRunProofs.tla`). `ServeOnlyWhenReadyHolds:
Spec => []ServeOnlyWhenReady`, for every bound. The inductive invariant
`RInv` attaches to each place of the setup what has been established
there:
- from the success of `SetMTU` on, the tunnel is live, valid and at MTU
  1280;
- after `setuid()`, the uid is the unprivileged one;
- after the fork, the helper runs while its socket is open, and the socket
  is closed only in the teardown;
- after each constructor, its object is ready.

Lemma `SetMTUSuccess` states what a `SetMTU` call returning 0 leaves
behind. `NextRInv` has one step per action. `RInv` was model-checked
before it was proved.

Two more theorems are proved in the same module, for every bound.

- **`MiredoRunTypeCorrect: Spec => []TypeOK`.** The helper's inherited
  descriptors are typed as slots of the descriptor table. That holds only
  because the tunnel module keeps `fds` inside the table. So the
  inductive invariant is `TypeOK /\ TP!IInv`, where `TP` instantiates
  `IPv6TunnelProofs` as `MiredoRun` instantiates the tunnel (MTU 1280
  only).
  - Lemma `TunnelActions` identifies the tunnel actions the worker takes
    with those of `TP`.
  - `NextTunIInv` then reuses `CtorIInv`, `SetMTUIInv` and `DtorIInv`
    from the tunnel proofs.
  - The tunnel proofs assume `TunnelAssumption`, so `RunAssumption`
    states `MaxFds \in Nat \ {0}` and `MaxCalls \in Nat`: the
    descriptor table has a slot.
- **`TeardownReleasesHolds: Spec => []TeardownReleases`.** The inductive
  invariant `TInv` states three facts.
  - The nonce generator is initialised only in client mode. This is what
    lets the teardown's `DeinitNonceGenerator()`, called in client mode
    only, release it.
  - From `wait` on, the relay and the server are deleted and the nonce
    generator is released.
  - At `done`, the tunnel object is destroyed.

  `TP!IInv` and `TInv` were model-checked on the `worker_setup_teardown`
  instance before they were proved.

`WorkerReturns` and `HelperExits` are liveness properties under the
fairness of the two processes, so they stay with TLC.

The early return at line 253 skips `DeinitNonceGenerator()`. The worker
exits right after, so `TeardownReleases` states the release only for the
main exit.

## Not modelled (and why)

- **Inside `miredo_run()`.**
  - One tick of the event loop is a single step in `MiredoRun.tla`.
    `Supervisor.tla` models the loop's `select()` and break test, but not
    the relay's and server's processing, whose code is not in `src/`.
  - `miredo_run()` calls `BringUp`, `AddAddress`, `AddRoute` and a
    three-argument `ReceivePacket`, none of which `ipv6-tunnel.cpp` defines.
    The two files come from different versions of the API. The routing
    setup is therefore an outcome, not a call to `IPv6Tunnel` actions, and
    the tunnel's `ReceivePacket` is not composed with the loop.
  - The tunnel interface outlives the worker while an unreaped helper still
    holds its duplicate descriptor. `IPv6Tunnel` has one owner of the
    interface, so a reload racing with that helper (a new `TUNSETIFF` on a
    busy name) is not modelled.
- **`SendPacket`'s error log.** The test `(int)len == -1` (line 293) is
  never true after `len += 4`, so a failed `write()` is logged as a short
  write. Only the log line differs, and that is not modelled.
- **A concurrent change of the interface flags** between SIOCGIFFLAGS and
  SIOCSIFFLAGS. The model has one owner of the interface, and the kernel
  offers no compare-and-set.
- **Code outside this repository's `src/`.** The privileged helper,
  `TeredoRelay`, `TeredoServer` and `MiredoConf` are not in `src/` and are
  not modelled.
