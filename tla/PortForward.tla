---------------------------- MODULE PortForward ----------------------------
(***************************************************************************)
(* The runtime of port-forward rules: PortForwardService, as main.dart     *)
(* wires it to SshService (acquireTransport = ensureClient) and to         *)
(* HostProvider (onHostDeleted = stopForHost).                             *)
(*                                                                         *)
(* The service runs on one Dart event loop.  An action is the code between *)
(* two awaits; activations that wait at an await are part of the state:    *)
(*   - a start() that awaits the dial, the open, or its own dispose;       *)
(*   - a stop() that awaits dispose;                                       *)
(*   - an _onDropped() that closes, sleeps, dials, re-opens or disposes;   *)
(*   - a stopForHost() that still has rules to stop.                       *)
(* Every start() makes one _ActiveTunnel object, so a Tunnels element also *)
(* names the start() activation that created it.                           *)
(***************************************************************************)
EXTENDS Naturals

CONSTANTS
  Rules,       (* port-forward rules (PortForward.id)                      *)
  Hosts,       (* saved hosts                                              *)
  HostOf,      (* the host a rule tunnels through                          *)
  Kind,        (* "local", "remote" or "dynamic"                           *)
  Tunnels,     (* _ActiveTunnel objects; bounds the number of start()s     *)
  Transports,  (* SSH clients; bounds the number of dials                  *)
  Loops,       (* _onDropped() activations that may run at the same time   *)
  MaxForeign,  (* bound on connects made by terminal sessions              *)
  None         (* Dart null                                                *)

Kinds    == {"local", "remote", "dynamic"}
Statuses == {"idle", "connecting", "active", "reconnecting", "error"}

ASSUME PortForwardAssumption ==
  /\ HostOf \in [Rules -> Hosts]
  /\ Kind \in [Rules -> Kinds]
  /\ MaxForeign \in Nat
  /\ None \notin Rules \cup Hosts \cup Tunnels \cup Transports

VARIABLES
  clients,    (* SshService._clients                                       *)
  live,       (* transports whose connection is up                         *)
  used,       (* transports dialled so far                                 *)
  foreign,    (* connects made by terminal sessions so far                 *)
  known,      (* hosts HostProvider still has                              *)
  tunnels,    (* _tunnels                                                  *)
  watchers,   (* _watchers, a watcher being the transport it watches       *)
  acquiring,  (* _acquiring: the hosts with a dial in flight               *)
  rule,       (* _ActiveTunnel.rule; None for an object not created yet    *)
  stopping,   (* _ActiveTunnel.stopping                                    *)
  link,       (* _ActiveTunnel.transport                                   *)
  bound,      (* tunnels that hold their local port (localServer or socks) *)
  remote,     (* _ActiveTunnel.remote: the transport the listener is on    *)
  starting,   (* the start() activation of each tunnel                     *)
  disposing,  (* tunnels whose stop() awaits dispose                       *)
  teardown,   (* rules a stopForHost() has still to stop                   *)
  loops,      (* the _onDropped() activations                              *)
  status      (* PortForward.status as the provider shows it               *)

netVars  == <<clients, live, used, foreign, known>>
mapVars  == <<tunnels, watchers, acquiring>>
objVars  == <<rule, stopping, link, bound, remote>>
actVars  == <<starting, disposing, teardown, loops>>
vars     == <<netVars, mapVars, objVars, actVars, status>>

(***************************************************************************)
(* Activations.                                                            *)
(***************************************************************************)
StartPhases == {"none", "acquire", "open", "dispose", "done"}
LoopPhases  == {"idle", "close", "delay", "acquire", "reopen", "open", "dispose"}

Activation == [phase : StartPhases, via : Transports \cup {None}]
Loop == [phase    : LoopPhases,
         host     : Hosts \cup {None},
         affected : SUBSET Tunnels,
         todo     : SUBSET Tunnels,
         cur      : Tunnels \cup {None},
         via      : Transports \cup {None}]

Ended    == [phase |-> "done", via |-> None]
IdleLoop == [phase |-> "idle", host |-> None, affected |-> {}, todo |-> {},
             cur |-> None, via |-> None]

(* A running loop works for a host, an open is the open of a tunnel.       *)
WellFormed(loop) ==
  /\ loop.phase # "idle" => loop.host # None
  /\ loop.phase \in {"open", "dispose"} => loop.cur # None

TypeOK ==
  /\ clients   \in [Hosts -> Transports \cup {None}]
  /\ live      \subseteq used
  /\ used      \subseteq Transports
  /\ foreign   \in 0..MaxForeign
  /\ known     \subseteq Hosts
  /\ tunnels   \in [Rules -> Tunnels \cup {None}]
  /\ watchers  \in [Hosts -> Transports \cup {None}]
  /\ acquiring \subseteq Hosts
  /\ rule      \in [Tunnels -> Rules \cup {None}]
  /\ stopping  \subseteq Tunnels
  /\ link      \in [Tunnels -> Transports \cup {None}]
  /\ bound     \subseteq Tunnels
  /\ remote    \in [Tunnels -> Transports \cup {None}]
  /\ starting  \in [Tunnels -> Activation]
  /\ disposing \subseteq Tunnels
  /\ teardown  \in [Hosts -> SUBSET Rules]
  /\ loops     \in [Loops -> Loop]
  /\ \A l \in Loops : WellFormed(loops[l])
  /\ status    \in [Rules -> Statuses]

Init ==
  /\ clients   = [h \in Hosts |-> None]
  /\ live      = {}
  /\ used      = {}
  /\ foreign   = 0
  /\ known     = Hosts
  /\ tunnels   = [r \in Rules |-> None]
  /\ watchers  = [h \in Hosts |-> None]
  /\ acquiring = {}
  /\ rule      = [t \in Tunnels |-> None]
  /\ stopping  = {}
  /\ link      = [t \in Tunnels |-> None]
  /\ bound     = {}
  /\ remote    = [t \in Tunnels |-> None]
  /\ starting  = [t \in Tunnels |-> [phase |-> "none", via |-> None]]
  /\ disposing = {}
  /\ teardown  = [h \in Hosts |-> {}]
  /\ loops     = [l \in Loops |-> IdleLoop]
  /\ status    = [r \in Rules |-> "idle"]

(* A new object.  Which one does not matter: they are all alike.           *)
Fresh(S) == CHOOSE x \in S : TRUE

Created == {t \in Tunnels : rule[t] # None}
Host(t) == HostOf[rule[t]]
KindOf(t) == Kind[rule[t]]

(* identical(_tunnels[t.rule.id], t)                                       *)
Registered(t) == t \in Created /\ tunnels[rule[t]] = t

(* Mutant of HasLiveClient: connect() is called where ensureClient() is.   *)
AlwaysDials(h) == FALSE

(* What ensureClient returns without dialling.                             *)
HasLiveClient(h) == clients[h] \in live

(***************************************************************************)
(* The microtask queue.  The callback on a completed `done` future, the    *)
(* closing of tunnels that hold no SOCKS server, and the next stop() of a  *)
(* stopForHost() need no I/O: they run before any socket, timer or user    *)
(* event is delivered.                                                     *)
(***************************************************************************)
DropPending(h) == watchers[h] # None /\ watchers[h] \notin live

Settled ==
  /\ \A h \in Hosts : ~DropPending(h)
  /\ \A h \in Hosts : teardown[h] # {} => \E t \in disposing : Host(t) = h
  /\ \A l \in Loops : loops[l].phase = "close"
                        => \E t \in loops[l].affected : KindOf(t) = "dynamic"

(***************************************************************************)
(* Opening.  A bind fails when the port is held, by this program or by     *)
(* another one.  A remote forward is a round trip: the server accepts it   *)
(* once per connection, may refuse it, and never answers on a connection   *)
(* that closed after the request was sent (the waiter is not completed).   *)
(***************************************************************************)
HoldsPort(r) == \E u \in bound : rule[u] = r

ListensRemotely(r, c) == \E u \in Created : rule[u] = r /\ remote[u] = c

MayOpen(t, c) ==
  IF KindOf(t) = "remote"
  THEN c \in live /\ ~ListensRemotely(rule[t], c)
  ELSE ~HoldsPort(rule[t])

MayFail(t, c) == KindOf(t) = "remote" => c \in live

Open(t, c) ==
  IF KindOf(t) = "remote"
  THEN remote' = [remote EXCEPT ![t] = c] /\ UNCHANGED bound
  ELSE bound' = bound \cup {t} /\ UNCHANGED remote

(* Mutant of CloseSshSide: it closes the local listener too, as dispose.   *)
CloseBothSides(t) ==
  /\ remote' = [remote EXCEPT ![t] = None]
  /\ bound'  = bound \ {t}

CloseSshSide(t) ==
  /\ remote' = [remote EXCEPT ![t] = None]
  /\ bound'  = IF KindOf(t) = "dynamic" THEN bound \ {t} ELSE bound

Dispose(t) ==
  /\ remote' = [remote EXCEPT ![t] = None]
  /\ bound'  = bound \ {t}

Watch(h, c) == watchers' = [watchers EXCEPT ![h] = c]

SetStatus(r, s) == status' = [status EXCEPT ![r] = s]

(* An activation gets to its next await.                                   *)
StartGoesTo(t, p) == starting' = [starting EXCEPT ![t] = [@ EXCEPT !.phase = p]]

LoopBecomes(l, loop) == loops' = [loops EXCEPT ![l] = loop]

(***************************************************************************)
(* start()                                                                 *)
(***************************************************************************)
StartUnknownHost(r) ==
  /\ Settled
  /\ tunnels[r] = None
  /\ HostOf[r] \notin known
  /\ SetStatus(r, "error")
  /\ UNCHANGED <<netVars, mapVars, objVars, actVars>>

Start(r) ==
  /\ Settled
  /\ tunnels[r] = None
  /\ HostOf[r] \in known
  /\ Tunnels # Created
  /\ LET t == Fresh(Tunnels \ Created)
         h == HostOf[r]
     IN
       /\ tunnels' = [tunnels EXCEPT ![r] = t]
       /\ rule'    = [rule EXCEPT ![t] = r]
       /\ IF h \notin acquiring /\ HasLiveClient(h)
          THEN /\ link'     = [link EXCEPT ![t] = clients[h]]
               /\ starting' = [starting EXCEPT ![t] =
                                 [phase |-> "open", via |-> clients[h]]]
               /\ UNCHANGED acquiring
          ELSE /\ StartGoesTo(t, "acquire")
               /\ acquiring' = acquiring \cup {h}
               /\ UNCHANGED link
  /\ SetStatus(r, "connecting")
  /\ UNCHANGED <<netVars, watchers, stopping, bound, remote, disposing,
                 teardown, loops>>

StartOpened(t) ==
  /\ Settled
  /\ starting[t].phase = "open"
  /\ MayOpen(t, starting[t].via)
  /\ Open(t, starting[t].via)
  /\ Watch(Host(t), starting[t].via)
  /\ starting' = [starting EXCEPT ![t] = Ended]
  /\ SetStatus(rule[t], "active")
  /\ UNCHANGED <<netVars, tunnels, acquiring, rule, stopping, link, disposing,
                 teardown, loops>>

StartFailed(t) ==
  /\ Settled
  /\ starting[t].phase = "open"
  /\ MayFail(t, starting[t].via)
  /\ tunnels'  = [tunnels EXCEPT ![rule[t]] = None]
  /\ StartGoesTo(t, "dispose")
  /\ UNCHANGED <<netVars, watchers, acquiring, objVars, disposing, teardown,
                 loops, status>>

StartDisposed(t) ==
  /\ Settled
  /\ starting[t].phase = "dispose"
  /\ Dispose(t)
  /\ starting' = [starting EXCEPT ![t] = Ended]
  /\ SetStatus(rule[t], "error")
  /\ UNCHANGED <<netVars, mapVars, rule, stopping, link, disposing, teardown,
                 loops>>

(***************************************************************************)
(* stop(), stopForHost()                                                   *)
(***************************************************************************)
(* Mutant of BeginStop: "if (t == null) return" is dropped.                *)
BeginStopUnchecked(r) ==
  /\ tunnels'   = [tunnels EXCEPT ![r] = None]
  /\ stopping'  = stopping \cup {tunnels[r]}
  /\ disposing' = disposing \cup {tunnels[r]}

BeginStop(r) ==
  /\ tunnels'   = [tunnels EXCEPT ![r] = None]
  /\ stopping'  = stopping \cup ({tunnels[r]} \ {None})
  /\ disposing' = disposing \cup ({tunnels[r]} \ {None})

Stop(r) ==
  /\ Settled
  /\ tunnels[r] # None
  /\ BeginStop(r)
  /\ UNCHANGED <<netVars, watchers, acquiring, rule, link, bound, remote,
                 starting, teardown, loops, status>>

StopDisposed(t) ==
  /\ Settled
  /\ t \in disposing
  /\ Dispose(t)
  /\ disposing' = disposing \ {t}
  /\ SetStatus(rule[t], "idle")
  /\ UNCHANGED <<netVars, mapVars, rule, stopping, link, starting, teardown,
                 loops>>

HostDeleted(h) ==
  /\ Settled
  /\ h \in known
  /\ known'    = known \ {h}
  /\ teardown' = [teardown EXCEPT ![h] =
                    {r \in Rules : HostOf[r] = h /\ tunnels[r] # None}]
  /\ UNCHANGED <<clients, live, used, foreign, mapVars, objVars, starting,
                 disposing, loops, status>>

StopNextOfHost(h) ==
  /\ \A t \in disposing : Host(t) # h
  /\ \E r \in teardown[h] :
       /\ teardown' = [teardown EXCEPT ![h] = @ \ {r}]
       /\ BeginStop(r)
  /\ UNCHANGED <<netVars, watchers, acquiring, rule, link, bound, remote,
                 starting, loops, status>>

(***************************************************************************)
(* ensureClient(), one dial per host: its outcome resumes every start()    *)
(* and every reconnect loop that joined it through _acquiring.             *)
(***************************************************************************)
(* Mutant of RetryLater: return where the code has continue.               *)
GiveUp(loop) == IdleLoop

RetryLater(loop) == [loop EXCEPT !.phase = "delay"]

AwaitsDial(t, h) == starting[t].phase = "acquire" /\ Host(t) = h

DialOk(h) ==
  /\ Settled
  /\ h \in acquiring
  /\ acquiring' = acquiring \ {h}
  /\ used # Transports
  /\ LET c == Fresh(Transports \ used) IN
       /\ used'     = used \cup {c}
       /\ live'     = live \cup {c}
       /\ clients'  = [clients EXCEPT ![h] = c]
       /\ link'     = [t \in Tunnels |-> IF AwaitsDial(t, h) THEN c ELSE link[t]]
       /\ starting' = [t \in Tunnels |->
                         IF AwaitsDial(t, h) THEN [phase |-> "open", via |-> c]
                                             ELSE starting[t]]
       /\ loops' = [l \in Loops |->
                      IF loops[l].phase = "acquire" /\ loops[l].host = h
                      THEN [loops[l] EXCEPT !.phase = "reopen", !.via = c]
                      ELSE loops[l]]
  /\ UNCHANGED <<foreign, known, tunnels, watchers, rule, stopping, bound,
                 remote, disposing, teardown, status>>

DialFailed(h) ==
  /\ Settled
  /\ h \in acquiring
  /\ acquiring' = acquiring \ {h}
  /\ tunnels'   = [r \in Rules |->
                     IF \E t \in Created : rule[t] = r /\ AwaitsDial(t, h)
                     THEN None ELSE tunnels[r]]
  /\ starting'  = [t \in Tunnels |->
                     IF AwaitsDial(t, h) THEN [starting[t] EXCEPT !.phase = "dispose"]
                                         ELSE starting[t]]
  /\ loops' = [l \in Loops |->
                 IF loops[l].phase = "acquire" /\ loops[l].host = h
                 THEN RetryLater(loops[l]) ELSE loops[l]]
  /\ UNCHANGED <<netVars, watchers, objVars, disposing, teardown, status>>

(***************************************************************************)
(* _onDropped(): the callback, the reconnect loop.                         *)
(***************************************************************************)
Affected(h) == {t \in Tunnels : Registered(t) /\ Host(t) = h /\ t \notin stopping}

IdleLoops == {l \in Loops : loops[l].phase = "idle"}

OnDropped(h) ==
  /\ DropPending(h)
  /\ watchers' = [watchers EXCEPT ![h] = None]
  /\ IF Affected(h) = {}
     THEN UNCHANGED loops
     ELSE /\ IdleLoops # {}
          /\ LoopBecomes(Fresh(IdleLoops),
                 [IdleLoop EXCEPT !.phase = "close", !.host = h,
                                  !.affected = Affected(h), !.todo = Affected(h)])
  /\ UNCHANGED <<netVars, tunnels, acquiring, objVars, starting, disposing,
                 teardown, status>>

LoopClose(l) ==
  /\ loops[l].phase = "close"
  /\ \E t \in loops[l].todo :
       /\ CloseSshSide(t)
       /\ SetStatus(rule[t], "reconnecting")
       /\ LoopBecomes(l, [loops[l] EXCEPT
                             !.todo  = @ \ {t},
                             !.phase = IF loops[l].todo = {t} THEN "delay" ELSE "close"])
  /\ UNCHANGED <<netVars, mapVars, rule, stopping, link, starting, disposing,
                 teardown>>

LoopWake(l) ==
  LET h         == loops[l].host
      remaining == {t \in loops[l].affected : Registered(t)}
  IN
  /\ Settled
  /\ loops[l].phase = "delay"
  /\ CASE remaining = {} ->
            LoopBecomes(l, IdleLoop) /\ UNCHANGED acquiring
       [] remaining # {} /\ h \notin acquiring /\ HasLiveClient(h) ->
            /\ LoopBecomes(l, [loops[l] EXCEPT !.phase = "reopen", !.todo = remaining,
                                               !.via = clients[h]])
            /\ UNCHANGED acquiring
       [] OTHER ->
            /\ LoopBecomes(l, [loops[l] EXCEPT !.phase = "acquire", !.todo = remaining])
            /\ acquiring' = acquiring \cup {h}
  /\ UNCHANGED <<netVars, tunnels, watchers, objVars, starting, disposing,
                 teardown, status>>

(* Mutant of StillRunning: the check of line 309 is dropped.               *)
AllTodo(l) == loops[l].todo

StillRunning(l) == {t \in loops[l].todo : Registered(t)}

(* A tunnel stopped meanwhile is skipped.                                  *)
LoopSkip(l) ==
  /\ Settled
  /\ loops[l].phase = "reopen"
  /\ \E t \in loops[l].todo \ StillRunning(l) :
       LoopBecomes(l, [loops[l] EXCEPT !.todo = @ \ {t}])
  /\ UNCHANGED <<netVars, mapVars, objVars, starting, disposing, teardown, status>>

(* A local tunnel is still bound from before the drop: nothing to await.   *)
LoopRelink(l) ==
  /\ Settled
  /\ loops[l].phase = "reopen"
  /\ \E t \in StillRunning(l) :
       /\ KindOf(t) = "local" /\ t \in bound
       /\ link'  = [link EXCEPT ![t] = loops[l].via]
       /\ LoopBecomes(l, [loops[l] EXCEPT !.todo = @ \ {t}])
       /\ SetStatus(rule[t], "active")
  /\ UNCHANGED <<netVars, mapVars, rule, stopping, bound, remote, starting,
                 disposing, teardown>>

(* Sending on a closed transport throws: the open fails at once.           *)
LoopOpen(l) ==
  /\ Settled
  /\ loops[l].phase = "reopen"
  /\ \E t \in StillRunning(l) :
       LET c      == loops[l].via
           throws == KindOf(t) = "remote" /\ c \notin live
       IN
       /\ ~(KindOf(t) = "local" /\ t \in bound)
       /\ link'    = [link EXCEPT ![t] = c]
       /\ LoopBecomes(l, [loops[l] EXCEPT
                             !.todo = @ \ {t}, !.cur = t,
                             !.phase = IF throws THEN "dispose" ELSE "open"])
       /\ tunnels' = IF throws THEN [tunnels EXCEPT ![rule[t]] = None] ELSE tunnels
  /\ UNCHANGED <<netVars, watchers, acquiring, rule, stopping, bound, remote,
                 starting, disposing, teardown, status>>

LoopOpened(l) ==
  LET t == loops[l].cur IN
  /\ Settled
  /\ loops[l].phase = "open"
  /\ MayOpen(t, loops[l].via)
  /\ Open(t, loops[l].via)
  /\ LoopBecomes(l, [loops[l] EXCEPT !.phase = "reopen", !.cur = None])
  /\ SetStatus(rule[t], "active")
  /\ UNCHANGED <<netVars, mapVars, rule, stopping, link, starting, disposing,
                 teardown>>

LoopOpenFailed(l) ==
  LET t == loops[l].cur IN
  /\ Settled
  /\ loops[l].phase = "open"
  /\ MayFail(t, loops[l].via)
  /\ tunnels' = [tunnels EXCEPT ![rule[t]] = None]
  /\ LoopBecomes(l, [loops[l] EXCEPT !.phase = "dispose"])
  /\ UNCHANGED <<netVars, watchers, acquiring, objVars, starting, disposing,
                 teardown, status>>

LoopDisposed(l) ==
  LET t == loops[l].cur IN
  /\ Settled
  /\ loops[l].phase = "dispose"
  /\ Dispose(t)
  /\ LoopBecomes(l, [loops[l] EXCEPT !.phase = "reopen", !.cur = None])
  /\ SetStatus(rule[t], "error")
  /\ UNCHANGED <<netVars, mapVars, rule, stopping, link, starting, disposing,
                 teardown>>

(* Mutant of LoopDone: the new transport is not watched.                   *)
LoopDoneUnwatched(l) ==
  /\ Settled
  /\ loops[l].phase = "reopen"
  /\ loops[l].todo = {}
  /\ LoopBecomes(l, IdleLoop)
  /\ UNCHANGED <<netVars, mapVars, objVars, starting, disposing, teardown,
                 status>>

LoopDone(l) ==
  /\ Settled
  /\ loops[l].phase = "reopen"
  /\ loops[l].todo = {}
  /\ Watch(loops[l].host, loops[l].via)
  /\ LoopBecomes(l, IdleLoop)
  /\ UNCHANGED <<netVars, tunnels, acquiring, objVars, starting, disposing,
                 teardown, status>>

(***************************************************************************)
(* The environment.                                                        *)
(***************************************************************************)

(* A connection ends: network failure, keep-alive timeout, disconnect().   *)
(* One transport is kept in reserve so that a dial can always follow.      *)
Drop(c) ==
  /\ Settled
  /\ c \in live
  /\ used # Transports
  /\ live' = live \ {c}
  /\ UNCHANGED <<clients, used, foreign, known, mapVars, objVars, actVars, status>>

(* SessionProvider._doConnect: SshService.connect always dials, and        *)
(* overwrites _clients[host.id]; the client it replaces stays up.  It does *)
(* not take the transport in reserve.                                      *)
ForeignConnect(h) ==
  /\ Settled
  /\ foreign < MaxForeign
  /\ foreign' = foreign + 1
  /\ \E c \in Transports \ used : used \cup {c} # Transports
  /\ LET c == Fresh(Transports \ used) IN
       /\ used'    = used \cup {c}
       /\ live'    = live \cup {c}
       /\ clients' = [clients EXCEPT ![h] = c]
  /\ UNCHANGED <<known, mapVars, objVars, actVars, status>>

User    == \/ \E r \in Rules : StartUnknownHost(r) \/ Start(r) \/ Stop(r)
           \/ \E h \in Hosts : HostDeleted(h) \/ ForeignConnect(h)
Network == \/ \E c \in Transports : Drop(c)
           \/ \E h \in Hosts : DialOk(h) \/ DialFailed(h)
StartStep(t) == StartOpened(t) \/ StartFailed(t) \/ StartDisposed(t) \/ StopDisposed(t)
HostStep(h)  == StopNextOfHost(h) \/ OnDropped(h)
LoopStep(l)  == \/ LoopClose(l) \/ LoopWake(l) \/ LoopSkip(l) \/ LoopRelink(l)
                \/ LoopOpen(l) \/ LoopOpened(l) \/ LoopOpenFailed(l)
                \/ LoopDisposed(l) \/ LoopDone(l)

Next == \/ User
        \/ Network
        \/ \E t \in Tunnels : StartStep(t)
        \/ \E h \in Hosts : HostStep(h)
        \/ \E l \in Loops : LoopStep(l)

Spec == Init /\ [][Next]_vars

(***************************************************************************)
(* Fairness: the event loop runs every ready continuation, binds and timers*)
(* complete, and a host that is dialled again and again answers in the end.*)
(* A user or a network event never has to happen.                          *)
(***************************************************************************)
Fairness ==
  /\ \A t \in Tunnels : WF_vars(StartStep(t))
  /\ \A h \in Hosts : WF_vars(HostStep(h)) /\ SF_vars(DialOk(h))
  /\ \A l \in Loops : WF_vars(LoopStep(l))

FairSpec == Spec /\ Fairness

(***************************************************************************)
(* Properties.                                                             *)
(***************************************************************************)

(* A start() or a loop is between sending the open of t and its outcome.   *)
Opening(t) == \/ starting[t].phase \in {"acquire", "open"}
              \/ \E l \in Loops : loops[l].phase = "open" /\ loops[l].cur = t

(* A loop that has t to re-open, or that gave t the transport which it     *)
(* will watch when it is done.                                             *)
LoopCares(l, t) ==
  \/ loops[l].phase \in {"close", "delay"} /\ t \in loops[l].affected
  \/ loops[l].phase = "acquire" /\ t \in loops[l].todo
  \/ /\ loops[l].phase \in {"reopen", "open", "dispose"}
     /\ t \in loops[l].todo \/ link[t] = loops[l].via

(* _onDropped, _watch: no running tunnel is forgotten.  Its connection is  *)
(* up and watched, or a drop of its host is about to be handled, or a      *)
(* reconnect loop or its own start() still has to deal with it.            *)
Attended(t) ==
  \/ link[t] \in live /\ watchers[Host(t)] = link[t]
  \/ DropPending(Host(t))
  \/ starting[t].phase \in {"acquire", "open"}
  \/ \E l \in Loops : loops[l].host = Host(t) /\ LoopCares(l, t)

NoTunnelForgotten == \A t \in Tunnels : Registered(t) => Attended(t)

(* _acquire, ensureClient: the tunnels of a host share one connection: its *)
(* watcher, its tunnels, its loops and ensureClient never hold two that    *)
(* are up, none is dialled while one is up, and no client is leaked.       *)
OneClientPerHost ==
  /\ \A c \in live : \E h \in Hosts : clients[h] = c
  /\ \A h \in acquiring : clients[h] \notin live
  /\ \A h \in Hosts : watchers[h] \in live => watchers[h] = clients[h]
  /\ \A t \in Created :
       /\ link[t] \in live => link[t] = clients[Host(t)]
       /\ starting[t].via \in live => starting[t].via = clients[Host(t)]
  /\ \A l \in Loops : loops[l].via \in live => loops[l].via = clients[loops[l].host]

(* closeSshSide versus dispose: once a local rule is up, its port is bound *)
(* for as long as the rule runs, through drops and reconnects.             *)
KeepsPort ==
  \A t \in Tunnels :
    Registered(t) /\ KindOf(t) = "local" /\ starting[t].phase = "done"
      => t \in bound

(* stop() during a reconnect: a tunnel that was stopped while no open of   *)
(* it was in flight is never opened again.                                 *)
StoppedStaysQuiet ==
  [][\A t \in stopping :
       ~Opening(t) /\ t \notin bound => ~Opening(t)' /\ t \notin bound']_vars

(* _onDropped: a rule whose connection dropped is re-established, fails    *)
(* with an error or is stopped; it does not wait for ever.                 *)
Broken(t) == Registered(t) /\ link[t] # None /\ link[t] \notin live

BrokenHeals == \A t \in Tunnels : Broken(t) ~> ~Broken(t)

(* stop(): "closes the listener / SOCKS server / remote forward": a tunnel *)
(* that is no longer registered, and that nothing works on, holds no port  *)
(* and no remote listener.                                                 *)
Busy(t) == \/ Opening(t) \/ t \in disposing \/ starting[t].phase = "dispose"
           \/ \E l \in Loops : loops[l].phase = "dispose" /\ loops[l].cur = t

StopReleases ==
  \A t \in Created :
    ~Registered(t) /\ ~Busy(t) => t \notin bound /\ remote[t] \notin live
=============================================================================
