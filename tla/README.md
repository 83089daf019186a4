# Formal models of YourSSH

YourSSH is an SSH client (a Flutter application in Dart, with forks of
dartssh2, xterm and flutter_pty, and an RDP engine in Rust).  This directory
holds TLA+ models of its connection core and of the services around it, the TLC
configurations that check them on small instances, and proofs that TLAPS checks
for every instance.  Paths below are relative to
`app/lib/` unless they start with `docs/` or `packages/`.

The application's own code runs on **one Dart event loop**: two activities
interleave only where one of them awaits.  (Threads exist at two places, the
native pseudo-terminal and the RDP engine; both talk to the loop through a queue
of messages, and `LocalShell` and `RdpTab` model them step by step.)  What goes
wrong in such code is almost never a single step.  It is a value read before an
await and used after it, two activations that await the same thing, an
activation that outlives the object it works for, or a callback that arrives
for something replaced long ago.  The models therefore take *the code between
two awaits* as one action and keep every suspended activation in the state.

    tlc -workers 2 -config PortForward_attended.cfg MCPortForward.tla
    tlc -workers 2 -config Services.cfg MCServices.tla
    tlapm PortForward_proofs.tla

## 1. Inventory

| Component | State | Operations | What is hard |
|---|---|---|---|
| **Port-forward runtime** `services/port_forward_service.dart` | `_tunnels`, `_watchers`, `_acquiring`, an `_ActiveTunnel` per start | start, stop, stopForHost, autoStartAll, `_onDropped` with its retry loop | stop against a start or a retry in flight; drops against starts; one watcher per host; one dial shared by all |
| **Connection pool, jump chains** `services/ssh_service.dart` | `_clients`, `_jumpClients`, `_jumpInflight`, `_hostToJump` | connect, dialChain, `_ensureHop`, ensureClient, disconnect, openTunnelSocket | concurrent connects over shared bastions; reference counts across awaits; partial failure of a chain |
| **Sessions and tabs** `providers/session_provider.dart` | `_sessions`, `_activeSessionId`, reconnect and countdown timers | connect, closeSession, auto-reconnect, pin, reorder | a tab closed while its connect is in flight; timers against manual retries; the last tab of a host closes the shared client |
| **Shells, exec, SFTP** `services/ssh_service.dart` | `_shells`, `_shellToHost`, listing cache | openShell, exec, openSftp | end of a shell against disconnect |
| **Local shells** `services/local_shell_service.dart`, `packages/flutter_pty` | status and pty of a tab; per pty a child, two threads, a mutex | openShell, restartShell, write, ack | a write blocks the UI thread; exit against late output; restarts |
| **RDP** `models/rdp_session.dart`, `services/rdp_tunnel_proxy.dart`, `packages/yourssh_rdp` | session status, event stream, command queue, one-shot proxy, image | connect, engine events, certificate dialog, decode, close | close against every await; late dialogs; the real reason of an end |
| **Cloud sync** `services/sync_service.dart` | `_syncing`, pending flag, last push time, one remote row | push, pull, retry timer | changes made while a push runs; pull against an unsent change |
| **Recording** `services/recording_service.dart`, `providers/recording_provider.dart` | two sets of active recordings | start, write, flush, stop | stop while start awaits the file system |
| **Sharing** `services/share_session_service.dart` | output buffer, chunk accumulator, control owner | join, snapshot, grant, end | chunks of two snapshots; broadcasts meant for one guest |
| **Transfers** `providers/sftp_transfer_provider.dart`, its panel and the batch loops of `widgets/dual_panel_sftp_screen.dart` | items, one cancel flag, an auto-hide timer | startBatch, cancel, clear | a new batch clears the flag that cancels the old one |
| **Host keys** `providers/known_hosts_provider.dart`, the dialogs of `screens/main_screen.dart` | known hosts, one pending challenge and one dialog per protocol | verifyHostKey, challengeRdpCert, answer | two challenges at once, late answers |
| **Shell-integration handshake** `services/ssh_service.dart` openShell, `services/injection_gate.dart` | readiness, four timers, the gate | launchInjection, feed, flush | lines typed into the wrong reader; timeouts; the user types meanwhile |
| **Plugin engine** `packages/yourssh_script_engine` | hooks, loaded plugins, error counts | load, fire, unregister | double load; hooks changed while fired |
| **Health monitor**, **external edit** | in-flight set; a timer per opened file | tick; poll | slow probes, uploads that overlap saves |
| **Storage, settings, audit, hosts, keys** | persisted lists | load, change, save | read-modify-write only |
| **UI**, vendored libraries | | | left aside |

How they interact.  `main.dart` wires the forwards to the pool with callbacks:
`acquireTransport` is `ensureClient` (283) and `onHostDeleted` is `stopForHost`
(291).  `ensureClient` shares one client per host in `_clients`.  Terminal
sessions, however, call `connect` directly, which always dials and *replaces*
`_clients[host]` (ssh_service 260); closing a host's last tab closes the client
under everyone else (session_provider 564).  RDP registers hosts in the
jump-chain table without dialling a hop (906).  The pool is the shared state on
which all the other components meet, and so the plan starts there.

What makes each component correct, in short: forwards - a running rule is
connected or being reconnected, a stopped one holds nothing; pool - a hop has
one connection, closed by its last user and by nobody before; sessions - every
client belongs to a tab or a consumer and goes with the last; sync - no local
change is lost; recording - what is recorded is shown as recording; transfers -
a cancelled batch ends; host keys - an answer reaches the connection it is for.

## 2. Plan

Written in this order, the most shared state first.  `M_proofs` holds the
theorems about `M`.

1. `PortForward`, `MCPortForward`, `PortForward_proofs`.
2. `JumpChain`, `MCJumpChain`, `JumpChain_proofs`, and `HopPool`, the abstract
   reference-counted pool that `JumpChain` implements.
3. The services around the core, each a module of its own: `CloudSync`,
   `LocalShell`, `Sessions`, `TabList`, `RdpTab`, `HostKeys`, `Transfers`,
   `Handshake`.  `MCServices` puts them into one run.  `Dart` declares `None`.
   `Tabs_proofs` holds the theorems about `Sessions` and `TabList`,
   `Shells_proofs` those about `LocalShell` and `Handshake`; `CloudSync_proofs`,
   `RdpTab_proofs`, `HostKeys_proofs` and `Transfers_proofs` those about one each.

Left: the chunked snapshots of session sharing; the loader of the plugin
engine; `Sessions` with its hosts composed with the pool; an abstract life of a
port-forward rule that `PortForward` implements outside the refuted runs.

## 3. PortForward

Every `start()` makes one `_ActiveTunnel`, so an element of `Tunnels` names both
the object and the `start()` that made it.

| In the model | In the code |
|---|---|
| `clients`, `live`, `used` | `SshService._clients`; clients whose connection is up; clients ever dialled |
| `tunnels`, `watchers`, `acquiring` | `_tunnels`, `_watchers`, the keys of `_acquiring` |
| `rule`, `stopping`, `link`, `bound`, `remote` | fields of `_ActiveTunnel`: `rule`, `stopping`, `transport`, `localServer`/`socks`, `remote` |
| `starting`, `disposing`, `teardown`, `loops` | suspended `start()`, `stop()`, `stopForHost()`, `_onDropped()` |
| `status` | `PortForward.status` |
| `Start`, `StartOpened`, `StartFailed`, `StartDisposed` | `start()`, cut at its awaits (129, 130, 135) |
| `Stop`, `StopDisposed`, `HostDeleted`, `StopNextOfHost` | `stop()`, `stopForHost()` |
| `OnDropped`, `LoopClose`, `LoopWake`, `LoopRelink`, `LoopOpen`, ... `LoopDone` | `_onDropped()` line by line |
| `DialOk`, `DialFailed` | the shared future of `_acquire`: resumes all who joined it |
| `Drop`, `ForeignConnect` | a connection ends; a terminal session calls `connect()` |

*Microtasks.*  A continuation that needs no I/O runs before any socket, timer
or user event.  `Settled` says that none is left, and guards every action that
an event starts.  Without it TLC finds interleavings that no Dart program has.

*A watcher is a client.*  `acquireTransport` wraps the same client in a new
transport each time, so `_watch` registers a new watcher for a client that is
already watched.  Only the last one registered passes the test of line 282, and
all of one client fire together: keeping the client is enough.

*Opening.*  A bind fails when the port is taken, by another rule's object or by
some other program (`MayFail` is always possible for local and dynamic rules).
A remote forward is a round trip: the server may refuse it, refuses a second
one on the same connection, and never answers on a connection that has closed.

### Properties

- `NoTunnelForgotten` - every tunnel in `_tunnels` is on a live connection that
  is watched, or a drop of its host is about to be handled, or a loop or its own
  `start()` has still to deal with it.  This is what `_watch`, `_onDropped` and
  the sharing of dials have to achieve together.
- `OneClientPerHost` - all users of a host are on one live client; none is
  dialled while one is up; none is leaked.
- `KeepsPort` - a local rule that is up keeps its port through every outage.
- `StoppedStaysQuiet` - a tunnel that was stopped while no open of it was in
  flight is never opened again, although a loop may have it on its list.
- `BrokenHeals` - a tunnel on a dead connection does not stay so.
- `StopReleases` - refuted: see below.

### Runs

| Run | Instance | Result |
|---|---|---|
| `attended` | a local and a remote rule, 2 starts, 3 connections, 2 loops, no terminal connect; 1.2M states | the type invariant, `NoTunnelForgotten`, `OneClientPerHost`, `KeepsPort`, `StoppedStaysQuiet` hold |
| `recovery` | one dynamic rule, 2 starts, 3 connections, 1 terminal connect, fairness; 179k states | `BrokenHeals` holds |
| `remote_hang` | one remote rule, 1 start, fairness | `BrokenHeals` violated |
| `second_client` | a local and a dynamic rule, 3 connections, 1 terminal connect | `NoTunnelForgotten` violated |
| `stop_while_starting` | one local rule, 2 starts | `StopReleases` violated |

*Bounds.*  `Tunnels` bounds the calls of `start()`: two give two rules of one
host, or a rule that is stopped and started again while activations of its first
life are still there.  `Transports` bounds the dials: with three, a second drop
can follow a reconnect.  One connection is kept in reserve (`Drop` needs
`used # Transports`, and `ForeignConnect` leaves it alone) so that running out of
connections is never what blocks a reconnect.  `NoTunnelForgotten` and
`OneClientPerHost` are about forwards that connect by themselves (`MaxForeign` is
0); that `KeepsPort` and `StoppedStaysQuiet` also hold beside terminal sessions
is proved (section 6).  Two `Loops` are two overlapping `_onDropped()` of one
host.  One host is enough: `_watchers` and `_acquiring` are keyed by host and no
step touches two of them.  Deadlock is not checked, since the system may rest
when nobody uses it and since the bounds run out.

*Fairness* (`recovery`, `remote_hang`).  Weak fairness for the continuations of
each start, host and loop: the event loop runs what is ready, a bind and a timer
complete.  Strong fairness for `DialOk`: a host that is dialled again and again
answers in the end; without that the retry loop rightly goes on for ever.
Nothing is assumed of users, drops and deletions.

### What the refuted runs show

- `stop_while_starting`: `start()` looks at nothing after its awaits.  A stop
  during the dial removes the tunnel; the start then opens the listener and
  reports active.  No map has the tunnel any more, so nothing can close it.
- `second_client`: with two live clients of one host (a terminal connect
  replaced the first), a later start replaces the watcher.  The drop of the
  first connection is then superseded, and its rules stay active on it.
- `remote_hang`: a connection that closes between the request for a remote
  forward and its reply leaves the request waiting for ever, and with it the
  start or the retry loop and every other tunnel of that loop.

## 4. JumpChain

A hop is cached under the prefix of its chain.  The state is the four maps of
`SshService`, one record for each running `connect()` (`calls`: where it is in
its chain, its previous hop, its `openedHere`), and the clients: which are up,
what each one rides (`over`) and which prefix it was dialled for (`hopOf`).
`DialHop` is the loop of `dialChain` up to the await in `_ensureHop`, including
the eviction of a dead hop and joining a dial in flight; `HopDialled` and
`HopFailed` resume all who wait for it; `ConnectFailed` and `TargetFailed` are
the two catch clauses; `ChainReady` is `_retargetJumpChain`; `Disconnect` and
`OpenTunnelSocket` complete the users of `_hostToJump`.

- `OneClientPerPrefix` - a prefix never has two connections that are up.
- `NoHopLeaked` - a hop that is up is in the cache and registered for a host or
  held by a connect that has not ended.
- `RegisteredHopsSurvive` - while a host keeps a prefix registered, no other
  call replaces or closes its hop.
- `ConnectEnds` - every connect ends, one that joined a dial too.
- `ImplementsHopPool` - every behaviour is one of `HopPool`, where a hop is up or
  not and a host wants a set of hops.  `up` is the set of prefixes whose cached
  client is live, `wants` is `_hostToJump`.  In the abstract pool a hop that a
  host goes on wanting comes down only when the network fails, and one that the
  last host stops wanting comes down in that very step.
- `FailureSparesOthers` - refuted: of two connects that share a bastion and part
  behind it, the one whose second hop fails closes the bastion under the other.
  It counts a dial it only joined as its own, and the other is not registered
  before its chain is complete.

`jump_edited` (310k states): two calls over three clients, on four hosts.  `b` is
reached through the bastion `a`; `y` through both, but it may have been edited to
`b` alone or to a cyclic chain (a synced payload); `a` is connected to as a host
of its own too, and the RDP host `w` takes `a` or `b` as its bastion.  Dials and
authentications end with a client or an error (SSH timeouts): `Fairness` says of
each connect that it goes on if it can do so again and again - strong fairness,
because other activations may run in between.  `jump_shared_failure`: two
chains that part behind the bastion; the refuted property.  Two calls are enough
for every pairwise race on a prefix; three clients give a bastion, a second hop
or replacement, and a target.

## 5. The services

Eight modules that share no state.  `MCServices` runs them side by side: a
behaviour chooses one of them as its `focus`, the others stay in one initial
state, so that their state spaces add up instead of multiplying.  Nothing a
service out of focus does is fair or possible, hence the properties of all of
them can be checked in one run.

**CloudSync** - one device in full, other devices as writers of the row.  Times
are compared in one place only, so the row carries the result of that
comparison (`fresh`).  Each push and pull past the test of `_syncing` is a
record in `transfers`, cut at its awaits; a snapshot of the list travels with
it.  An upload may land and its answer be lost.  `stored` is the list on disk and
`writes` the saves on their way there; an edit (`Edit`) comes to its push
(`Edited`) only when its save has landed.  `Restart` may happen in every state:
flag and configuration are kept, the list is the one on disk, and whatever was
suspended is gone.  `synced` and `uncovered` are history; `uncovered` says what
happened to the present list that no retry covers, an overlap or a restart.
`OneTransfer`; `ForgottenOnlyByOverlapOrRestart` - an edit that no transfer
overlapped is pushed or flagged, whatever fails, unless the app stopped during a
transfer or between a change of the hosts and the save and push that follow it;
`PendingIsPushed` - a flagged push gets through; `EditsAreRetried`, which says
that only a restart can make the device forget, is refuted in the run
`sync_lost`.

**LocalShell** - a tab, its ptys, and for each pty the child, the read thread
(`read_loop`) and the thread that waits for the exit, with the mutex of the ack
mode and the message queue of the isolate.  `writing` is the UI thread inside
`pty_write`; every other action of that thread needs `UiFree`.
`OneShellPerTab`, `OneChunkUnacked`, and `WriteReturns`: while its child lives,
a write returns, because the read thread drains the output without the UI
thread.  The exceptions in its statement are real: in ack mode (which the
library offers and the app leaves off) all three can wait for each other, and
after the exit of the child nobody reads, while the parent keeps the slave side
open.

**Sessions** - the SSH tabs of one host and the recordings of some of them.
`activity` is where a `_doConnect` is, `timer` the reconnect timers,
`registered` the tab whose client is in `_clients`.  A tab that is closed while
it dials goes on dialling.  `StatusBacked`, `ClientHasTab` (with `leftBehind`
naming the one case in which a client outlives all tabs), `RedMeansRecording`.

**TabList** - the strip as a sequence, with pins and the stored pins of hosts.
`Where(s, S)` is Dart's `where().toList()`, a recursive function over the
positions (`Kept`), and `RemoveAt` and `Insert` are `removeAt` and `insert` with
positions from 1.  `PinnedFirst`: pinned tabs are left of the others and none is
listed twice; `SiblingsAgree`: all tabs of a host show its stored pin.

**RdpTab** - one tab with `RdpClient`, the engine, the proxy and the image.  The
engine posts into `events`; `closing` cuts `RdpSession.close()` at its awaits.
`TerminalStays`, `CollapseIsNamed`, `NoPatchForgotten`, `ChannelCloses` (a
channel that opens after the stop does not stay open), and `ClosedEngineEnds`: the
engine of a closed tab dies with its tunnel, also one that is stuck in its
handshake or reads no command.  A direct tab has no tunnel to tear down: its
engine is ended by the command alone.  `FlaggedIsTornDown`, about the command of a
tab that was closed before the engine's id arrived, is refuted in `rdp_orphaned`.

**HostKeys** - calls that verify a key, a pending challenge and a dialog for
each protocol.  `OnKnownHostsChanged`, the listener of the main screen, is part
of every action that notifies.  `AskedIsReachable`: no challenge waits unseen;
`PinsAreTrusted`: an answer pins nothing but what its dialog asked.

**Transfers** - the list, the flag, the loop of each batch and the panel, which
hides and clears 3 s after all is done.  `ShownTransferIsLive`;
`CancelledBatchStops` is refuted in the run `cancel_forgotten`.

**Handshake** - the invisible injection of shell integration: three kinds of
remote shell, two queues between client and shell, and the timers of
`openShell`.  What each reader does with a line is the environment; when the
client writes one is the code.  `ReadByWhomMeant`: the bootstrap is read by a
line editor and the payload by the `read -rs` that waits for it, with three
exceptions: the user types while the gate holds (`inside`), the shell answers
after the 2 s (`late`), or the settle timer, which tests nothing but the
client's own state, fires while the initial command or output of the shell is
still on its way (`raced`).  `NeverTypesIntoVim`, the promise that the third one
breaks, is refuted in `settle_race`.

| Run | Instance | Result |
|---|---|---|
| `services` | see below; 164k states | 28 properties hold |
| `sync_lost` | three lists, of one host or none | `EditsAreRetried` violated |
| `cancel_forgotten` | two batches of two items | `CancelledBatchStops` violated |
| `settle_race` | as in `services` | `NeverTypesIntoVim` violated |
| `rdp_orphaned` | as in `services` | `FlaggedIsTornDown` violated |

*Bounds.*  Lists: the empty one and that of one host, so that an edit cuts
`loadAllPasswords` short and another one undoes it; `sync_lost` has two of equal
size beside it, so that an edit may also leave the push alone, and the theorems
hold for any lists.  Two saves on their way to disk: that of an edit and that of a
pull.  One local tab with two ptys: a restart beside
the old shell's threads.  Two SSH tabs of a host, two attempts, two recording
starts in flight of one tab: all pairs of dial, timer, close, start and stop.
Three tabs of two hosts or of none: two siblings and a stranger.  Two calls, one
endpoint of each protocol, two keys: a challenge that overtakes another; the
list of known hosts starts empty, and imports and first connects fill it.  Two
batches of two items: one cancelled, one started after.  Two probes, one line of
the user, five pieces of output in flight: a second probe is the first that
follows a probe, and output is bounded because no property counts it.

*Fairness.*  `SyncFairness`: requests end, the timer ticks (strong, since a pull at
every focus may always be in its way), saves reach the disk, and from some time on
the network is up and the app stays up - without that the retry rightly goes on
for ever.
`ShellFairness`: the read thread runs, a child that can write does, and one that
is not stuck in output comes to read.  `RdpFairness`: the engine starts,
`openTunnel`, decodes and the awaits of `close()` end (5 s), destroyed sockets are
noticed.  That a handshake ends or that the engine reads its commands is not
assumed: the connect stage has no timeout, and `close()` itself counts with a
transport that is stuck.  Users, servers and the exit of children are never fair.

### What the refuted runs show

- `sync_lost`: a second push during the first only sets the pending flag; the
  first clears it when it succeeds.  The edit is neither in the row nor flagged,
  until the next edit.
- `cancel_forgotten`: cancelling marks the items skipped, so nothing is
  transferring; the next batch (or the Close button, or the auto-hide) resets
  the flag before the cancelled loop has looked at it, and that loop goes on.
- `settle_race`: the shell shows its prompt, then reads the initial command, which
  starts a full-screen program.  The prompt has armed the settle timer; if what
  the program prints needs more than 250 ms to the client, the bootstrap is
  typed into the program.
- `rdp_orphaned`: `disconnect()` flags the intent because the id is not known, and
  `close()` at once cancels the subscription that would bring it.  The engine of a
  direct tab goes on, connects, and stays connected without a tab.

## 6. Proofs

TLAPS proves, for any value of the constants:

| Module | Theorems, each `Spec => []P` or `Spec => P` |
|---|---|
| `PortForward_proofs` | `TypeCorrect` (`TypeOK`), `PortKept` (`KeepsPort`), `StoppedIsQuiet` (`StoppedStaysQuiet`); for `MaxForeign = 0` also `TunnelsAttended` (`NoTunnelForgotten`) and `OneClient` (`OneClientPerHost`) |
| `JumpChain_proofs` | `TypeCorrect` (`TypeOK`), `HopsNotLeaked` (`NoHopLeaked`), `OneClientEach` (`OneClientPerPrefix`), `RegisteredSurvive` (`RegisteredHopsSurvive`), `ChainsArePool` (`ImplementsHopPool`) |
| `Tabs_proofs` | `SessionsTypeCorrect`, `StatusIsBacked` (`StatusBacked`), `ClientNotLeaked` (`ClientHasTab`), `IndicatorTrue` (`RedMeansRecording`); `StripTypeCorrect`, `PinnedStayFirst` (`PinnedFirst`), `SiblingsStayInSync` (`SiblingsAgree`) |
| `Shells_proofs` | `ShellTypeCorrect`, `OneShellEach` (`OneShellPerTab`), `ChunksAcknowledged` (`OneChunkUnacked`); `HandshakeTypeCorrect`, `InjectionReadByWhomMeant` (`ReadByWhomMeant`) |
| `CloudSync_proofs` | `SyncTypeCorrect`, `TransfersTakeTurns` (`OneTransfer`), `OnlyOverlapOrRestartForgets` (`ForgottenOnlyByOverlapOrRestart`) |
| `RdpTab_proofs` | `RdpTypeCorrect`, `CollapseNeverMisnamed` (`CollapseIsNamed`), `PatchesDecoded` (`NoPatchForgotten`), `TerminalIsFinal` (`TerminalStays`) |
| `HostKeys_proofs` | `HostKeysTypeCorrect`, `AskedAlwaysReachable` (`AskedIsReachable`), `PinsAlwaysTrusted` (`PinsAreTrusted`) |
| `Transfers_proofs` | `TransfersTypeCorrect`, `ShownAreLive` (`ShownTransferIsLive`), `OnlyUnlistedGoOn` (`ListedBatchStops`) |

So every safety property that a passing run checks, invariant or action
property, is also proved for every value of the constants; `TunnelsAttended` and
`OneClient` under the hypothesis that their run makes too.

The assumptions on the constants are the named ones in the modules
(`PortForwardAssumption`, `SyncAssumption`, ...): `None` is none of the objects,
bounds are numbers, host lists are finite.  `MaxForeign = 0` - no terminal
session connects to the host on its own - is a hypothesis of the two theorems
because without it they are false: that is the `second_client` run.  They say
exactly how far the design of the runtime goes: it is right as long as
`ensureClient` is the only way to a client.

*Ports.*  `PortKept` and `StoppedIsQuiet` need no such hypothesis.  `PortsInv`
says that a tunnel which was stopped, or whose open failed and which is being
disposed of, is off the map (`OffTheMap`).  Nothing puts an object back on the
map, so no registered tunnel is ever disposed of (`KeepsPort`), and no activation
that looks at the map opens a stopped one.  It rests on `OwnObjects`: only
objects that a `start()` made are opened, stopped or disposed of, and the map
gives each rule an object of its own.

*Forgotten tunnels.*  `NoTunnelForgotten` is not inductive.  A loop that finishes
sets the watcher of the host to *its* client, and a start does the same; either
would strand the tunnels that are on another live client.  So one has to know
that there is no other: `OneClientPerHost`.  That in turn needs that a host is
only dialled while its client is down, that whatever an activation refers to was
dialled (`ReferencesOK`), and that a loop works only on tunnels of its host
(`LoopsOK`).  A start that fails, or that is overtaken by a loop, needs
`StartsOK`: what a start holds is what its tunnel is linked to, and no loop
holds another connection for that tunnel.  `ObjectsOK` ties the map to the
objects.  `Inv` is their conjunction with `TypeOK` and `NoTunnelForgotten`;
`InitInv` and `InvStep` prove it inductive, one lemma per action or group of
actions that do the same to `Inv` (`UnregisterKeepsInv` for steps that only take
tunnels off the map, `LoopMoveKeepsInv` for loop steps that keep their
connection, `GivingUpKeepsInv` for starts and dials that fail).

*Jump chains.*  `ChainInv` adds to the type: what a connect opened is part of the
chain it dials (`TargetsKnown`); a client is cached for one prefix only, and a
prefix that is being dialled has no live one (`CacheSound`); a dial in flight has
a connect that waits for it, and a live hop is the cached one of its prefix and
is registered for a host or among the `openedHere` of a connect that still
builds its chain (`HopsAttended`).  Leaks, duplicates and the refinement
follow.  For the refinement each action is one `Dial`, `Change` or `Lose` of
`HopPool` or a stutter: `NeededByOther` is `OnlyFor` seen from the other side,
and a failed connect closes hops that no host wants.

*Services.*  `TabsInv` (Sessions): a timer and a dial exclude each other and
belong to what the tab shows, and a client outlives its tabs only if its own was
left behind.  `SyncInv`: a transfer is alone, `_syncing` says so, the last save on
its way, or else the disk, has the list as it is (`OnDisk`, which is why a restart
with nothing suspended changes nothing), and unless something overlapped or was
cut off, a push carries the list as it is, and a list that was not synced is about
to be pushed, flagged or about to be replaced (`Covered`).
`RdpInv`: the end is the last event of an engine (`EndIsLast`), a collapse is
noticed before the end is handled (`CollapseNoticed`), a patch has its decode
(`PatchNoticed`).  `ShellInv`: unused ptys are clean, a tab refers to its own
pty, an exit is posted once, at most one pty of a tab lives, and the mutex
counts the chunks.  `KeysInv`: a challenge knows what it asks, has no verdict
before it is resolved, and a positive verdict is the user's.

*Tab strip.*  `StripInv` adds to the properties only that pinned tabs are
listed; the work is in the lemmas about lists.  `WhereKeepsOrder`: `where()`
gives the selected tabs, each once, in their old order.  It is an induction over
the positions of a list, done through the least element of a set of
counterexamples (`UpTo`, from the well-foundedness of `<`), which needs no
theorem with an operator as parameter.  `SortedIsOrdered` follows,
and `PinnedCount`: in an ordered list the pinned tabs are the first `n`, with
`n` their number, which is what the clamps of `reorderSessionItem` count on.
`MovedFrom` says where each position of the list comes from after a tab was
moved, and `MovedIsOrdered` that a move within the clamps keeps the order.

*Handshake.*  `ReadByWhomMeant` follows from what the client can know of the
shell.  Before the injection: while a program runs, the last output on its way
is the program's, so the settle timer is never on when all output has arrived
(`ProgramIsSeen`), and only a modern shell ever reports its line editor
(`MarksAreModern`).  A timer that fires with nothing on its way therefore writes
to a line editor, and one that fires earlier has set `raced`.  While the gate
holds, unless the user typed, the answer is late or the timer was early, the handshake is in one of four stages: the bootstrap is on its
way, the read waits, the payload is on its way, or the shell is done (`InTurn`).

*Transfers.*  The flag is up as long as the loop of a cancelled batch could go on
with an item that is listed (`FlagStaysUp`), and nothing is in progress under a
flag that is up (`FlagStopsAll`), so that a new batch takes the flag down only
together with the list.  Hence `ListedBatchStops`, and the refuted
`CancelledBatchStops` fails in one way only: the cancelled items left the list
before their loop came back.

*Only model-checked*: liveness (`BrokenHeals`, `ConnectEnds`, `PendingIsPushed`,
`WriteReturns`, `ChannelCloses`, `ClosedEngineEnds`).  It needs fairness and
`ENABLED`, which are out of the prover's reach.

## 7. Not modelled

- *Port forwards, pool*: piped connections and their counter (so a connection
  accepted before a stop and connected after it is not seen), the list of rules
  and its persistence, authentication, agent proxies, `testConnection`.
- *CloudSync*: `disableAndDelete`, a regenerated code, clocks that disagree, the
  save of the passwords beside that of the hosts, an upload that lands after a
  restart, an edit at the very await between two passwords other than by its
  effect (the iteration fails).
- *Sessions*: unlimited attempts, several hosts at once, whether a client is
  still up (a shell may be refused or end at any time), a second flush of one tab.
- *LocalShell*: resizing, the Windows implementation.
- *RdpTab*: the error tab of a failed setup, the load of the native library,
  the reconnect offered after a trusted mismatch, clipboard and input.
- *HostKeys*: an entry that occurs twice in the stored list, the load at startup
  after the first connect.
- *Transfers*: bytes, overwriting, the worker pool of bulk actions.
- *Handshake*: output of a program that looks like a prompt, sentinels split
  across chunks, the shell that closes meanwhile, output longer than the hold.
- *Components left out*: session sharing, the plugin engine, health monitor,
  external editing, storage and settings, peer-to-peer sync and tool panels; the
  reasons are in `PROJECT.json`.

Nearly all of the code modelled here is Dart, with some Rust and the C of
`flutter_pty`.  Most C files of the repository are the vendored QuickJS runtime,
which the application only calls; none of its lines are modelled.
