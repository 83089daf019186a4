------------------------- MODULE PortForward_proofs --------------------------
(***************************************************************************)
(* Theorems about PortForward, for any rules, hosts, tunnels, transports   *)
(* and reconnect loops: types, the local ports, and that no tunnel is      *)
(* forgotten.                                                              *)
(***************************************************************************)
EXTENDS PortForward, TLAPS

(* Fresh picks an element of its set: the next unused id exists.           *)
LEMMA FreshIsMember == ASSUME NEW S, S # {} PROVE Fresh(S) \in S
  BY DEF Fresh

(* The loop phases the typing steps below speak of.                        *)
LEMMA PhaseNames ==
  {"idle", "close", "delay", "acquire", "reopen", "open", "dispose"} \subseteq LoopPhases
  BY DEF LoopPhases

(* A loop that has not started, or has ended, is well typed.               *)
LEMMA IdleLoopTyped == IdleLoop \in Loop /\ WellFormed(IdleLoop)
  BY PhaseNames DEF IdleLoop, Loop, WellFormed

(* Every field of a reconnect loop of a typed state has its type.          *)
LEMMA LoopTyped ==
  ASSUME TypeOK, NEW l \in Loops
  PROVE  /\ loops[l] \in Loop /\ WellFormed(loops[l])
         /\ loops[l].via \in Transports \cup {None}
         /\ loops[l].affected \subseteq Tunnels
         /\ loops[l].todo \subseteq Tunnels
         /\ loops[l].phase # "idle" => loops[l].host \in Hosts
         /\ loops[l].phase \in {"open", "dispose"} => loops[l].cur \in Tunnels
  BY DEF TypeOK, Loop, WellFormed

(* Replacing one loop by a well-formed one keeps all loops well formed.    *)
LEMMA LoopStaysTyped ==
  ASSUME TypeOK, NEW l \in Loops, NEW loop \in Loop, WellFormed(loop),
         LoopBecomes(l, loop)
  PROVE  loops' \in [Loops -> Loop] /\ \A k \in Loops : WellFormed(loops'[k])
  BY DEF TypeOK, LoopBecomes

(* Every step of the service, the user or the network keeps the types.     *)
LEMMA TypeStep == TypeOK /\ [Next]_vars => TypeOK'
<1> USE PortForwardAssumption
<1> SUFFICES ASSUME TypeOK, [Next]_vars PROVE TypeOK'
  OBVIOUS
<1> USE DEF netVars, mapVars, objVars, actVars, Statuses
<1>1. ASSUME NEW r \in Rules, StartUnknownHost(r) PROVE TypeOK'
  BY <1>1 DEF StartUnknownHost, SetStatus, TypeOK
<1>2. ASSUME NEW r \in Rules, Start(r) PROVE TypeOK'
  <2> DEFINE t == Fresh(Tunnels \ Created)
             h == HostOf[r]
  <2>1. t \in Tunnels /\ h \in Hosts
    <3>1. Tunnels \ Created # {}
      BY <1>2 DEF Start, Created, TypeOK
    <3>2. t \in Tunnels \ Created
      BY <3>1, FreshIsMember
    <3> QED
      BY <3>2 DEF TypeOK
  <2> HIDE DEF t
  <2>2. tunnels' = [tunnels EXCEPT ![r] = t] /\ rule' = [rule EXCEPT ![t] = r]
        /\ status' = [status EXCEPT ![r] = "connecting"]
        /\ UNCHANGED <<netVars, watchers, stopping, bound, remote, disposing,
                       teardown, loops>>
    BY <1>2 DEF Start, SetStatus, t, TypeOK
  <2>3. CASE h \notin acquiring /\ HasLiveClient(h)
    <3>1. link' = [link EXCEPT ![t] = clients[h]] /\ acquiring' = acquiring
          /\ starting' = [starting EXCEPT ![t] = [phase |-> "open", via |-> clients[h]]]
      BY <1>2, <2>3 DEF Start, t, TypeOK
    <3>2. [phase |-> "open", via |-> clients[h]] \in Activation
      BY <2>1 DEF Activation, StartPhases, TypeOK
    <3> QED
      BY <2>1, <2>2, <3>1, <3>2 DEF TypeOK
  <2>4. CASE ~(h \notin acquiring /\ HasLiveClient(h))
    <3>1. link' = link /\ acquiring' = acquiring \cup {h}
          /\ starting' = [starting EXCEPT ![t] = [@ EXCEPT !.phase = "acquire"]]
      BY <1>2, <2>4 DEF Start, StartGoesTo, t, TypeOK
    <3>2. [starting[t] EXCEPT !.phase = "acquire"] \in Activation
      BY <2>1 DEF Activation, StartPhases, TypeOK
    <3> QED
      BY <2>1, <2>2, <3>1, <3>2 DEF TypeOK
  <2> QED
    BY <2>3, <2>4 DEF TypeOK
<1>3. ASSUME NEW r \in Rules, Stop(r) PROVE TypeOK'
  BY <1>3 DEF Stop, BeginStop, TypeOK
<1>4. ASSUME NEW h \in Hosts, HostDeleted(h) PROVE TypeOK'
  BY <1>4 DEF HostDeleted, TypeOK
<1>5. ASSUME NEW h \in Hosts, ForeignConnect(h) PROVE TypeOK'
  <2> DEFINE c == Fresh(Transports \ used)
  <2>1. c \in Transports
    <3>1. Transports \ used # {}
      BY <1>5 DEF ForeignConnect, TypeOK
    <3> QED
      BY <3>1, FreshIsMember
  <2> HIDE DEF c
  <2>2. foreign' \in 0..MaxForeign
    BY <1>5 DEF ForeignConnect, TypeOK
  <2> QED
    BY <1>5, <2>1, <2>2 DEF ForeignConnect, c, TypeOK
<1>6. ASSUME NEW c \in Transports, Drop(c) PROVE TypeOK'
  BY <1>6 DEF Drop, TypeOK
<1>7. ASSUME NEW h \in Hosts, DialOk(h) PROVE TypeOK'
  <2> DEFINE c == Fresh(Transports \ used)
  <2>1. c \in Transports
    <3>1. Transports \ used # {}
      BY <1>7 DEF DialOk, TypeOK
    <3> QED
      BY <3>1, FreshIsMember
  <2> HIDE DEF c
  <2>2. [phase |-> "open", via |-> c] \in Activation
    BY <2>1 DEF Activation, StartPhases, TypeOK
  <2>3. ASSUME NEW l \in Loops, loops[l].phase = "acquire"
        PROVE  LET loop == [loops[l] EXCEPT !.phase = "reopen", !.via = c]
               IN  loop \in Loop /\ WellFormed(loop)
    BY LoopTyped, <2>1, <2>3, PhaseNames DEF Loop, WellFormed
  <2>4. starting' \in [Tunnels -> Activation] /\ link' \in [Tunnels -> Transports \cup {None}]
    BY <1>7, <2>1, <2>2 DEF DialOk, c, TypeOK
  <2>5. loops' \in [Loops -> Loop] /\ \A l \in Loops : WellFormed(loops'[l])
    BY <1>7, <2>3 DEF DialOk, c, TypeOK
  <2> QED
    BY <1>7, <2>1, <2>4, <2>5 DEF DialOk, c, TypeOK
<1>8. ASSUME NEW h \in Hosts, DialFailed(h) PROVE TypeOK'
  <2>1. ASSUME NEW t \in Tunnels
        PROVE [starting[t] EXCEPT !.phase = "dispose"] \in Activation
    BY DEF Activation, StartPhases, TypeOK
  <2>2. ASSUME NEW l \in Loops, loops[l].phase = "acquire"
        PROVE  RetryLater(loops[l]) \in Loop /\ WellFormed(RetryLater(loops[l]))
    BY LoopTyped, <2>2, PhaseNames DEF RetryLater, Loop, WellFormed
  <2>3. starting' \in [Tunnels -> Activation] /\ tunnels' \in [Rules -> Tunnels \cup {None}]
    BY <1>8, <2>1 DEF DialFailed, TypeOK
  <2>4. loops' \in [Loops -> Loop] /\ \A l \in Loops : WellFormed(loops'[l])
    BY <1>8, <2>2 DEF DialFailed, TypeOK
  <2> QED
    BY <1>8, <2>3, <2>4 DEF DialFailed, TypeOK
<1>9. ASSUME NEW t \in Tunnels, StartOpened(t) PROVE TypeOK'
  <2>1. Ended \in Activation
    BY DEF Ended, Activation, StartPhases, TypeOK
  <2>2. starting[t].via \in Transports \cup {None}
    BY DEF Activation, TypeOK
  <2>3. remote' \in [Tunnels -> Transports \cup {None}] /\ bound' \subseteq Tunnels
    BY <1>9, <2>2 DEF StartOpened, Open, TypeOK
  <2> QED
    BY <1>9, <2>1, <2>2, <2>3 DEF StartOpened, SetStatus, Watch, TypeOK
<1>10. ASSUME NEW t \in Tunnels, StartFailed(t) PROVE TypeOK'
  <2>1. [starting[t] EXCEPT !.phase = "dispose"] \in Activation
    BY DEF Activation, StartPhases, TypeOK
  <2> QED
    BY <1>10, <2>1 DEF StartFailed, StartGoesTo, TypeOK
<1>11. ASSUME NEW t \in Tunnels, StartDisposed(t) PROVE TypeOK'
  <2>1. Ended \in Activation
    BY DEF Ended, Activation, StartPhases, TypeOK
  <2> QED
    BY <1>11, <2>1 DEF StartDisposed, Dispose, SetStatus, TypeOK
<1>12. ASSUME NEW t \in Tunnels, StopDisposed(t) PROVE TypeOK'
  BY <1>12 DEF StopDisposed, Dispose, SetStatus, TypeOK
<1>13. ASSUME NEW h \in Hosts, StopNextOfHost(h) PROVE TypeOK'
  BY <1>13 DEF StopNextOfHost, BeginStop, TypeOK
<1>14. ASSUME NEW h \in Hosts, OnDropped(h) PROVE TypeOK'
  <2> DEFINE loop == [IdleLoop EXCEPT !.phase = "close", !.host = h,
                        !.affected = Affected(h), !.todo = Affected(h)]
  <2>1. loop \in Loop /\ WellFormed(loop)
    BY LoopTyped, PhaseNames DEF IdleLoop, Loop, WellFormed, Affected
  <2>2. CASE loops' = loops
    BY <1>14, <2>2 DEF OnDropped, TypeOK
  <2>3. CASE IdleLoops # {} /\ LoopBecomes(Fresh(IdleLoops), loop)
    <3>1. Fresh(IdleLoops) \in IdleLoops
      BY <2>3, FreshIsMember
    <3>2. Fresh(IdleLoops) \in Loops
      BY <3>1 DEF IdleLoops, TypeOK
    <3>3. loops' \in [Loops -> Loop] /\ \A k \in Loops : WellFormed(loops'[k])
      BY <2>1, <2>3, <3>2, LoopStaysTyped
    <3> QED
      BY <1>14, <3>3 DEF OnDropped, TypeOK
  <2> QED
    BY <1>14, <2>2, <2>3 DEF OnDropped, TypeOK
<1>15. ASSUME NEW l \in Loops, LoopClose(l) PROVE TypeOK'
  <2>1. PICK t \in loops[l].todo :
          /\ CloseSshSide(t)
          /\ SetStatus(rule[t], "reconnecting")
          /\ LoopBecomes(l, [loops[l] EXCEPT
                !.todo  = @ \ {t},
                !.phase = IF loops[l].todo = {t} THEN "delay" ELSE "close"])
    BY <1>15 DEF LoopClose, TypeOK
  <2> DEFINE loop == [loops[l] EXCEPT !.todo = @ \ {t},
                        !.phase = IF loops[l].todo = {t} THEN "delay" ELSE "close"]
  <2>2. loop \in Loop /\ WellFormed(loop)
    BY <1>15, LoopTyped, PhaseNames DEF LoopClose, Loop, WellFormed
  <2>3. loops' \in [Loops -> Loop] /\ \A k \in Loops : WellFormed(loops'[k])
    BY <2>1, <2>2, LoopStaysTyped
  <2> QED
    BY <1>15, <2>1, <2>3 DEF LoopClose, CloseSshSide, SetStatus, TypeOK
<1>16. ASSUME NEW l \in Loops, LoopWake(l) PROVE TypeOK'
  <2> DEFINE h         == loops[l].host
             remaining == {t \in loops[l].affected : Registered(t)}
             again     == [loops[l] EXCEPT !.phase = "reopen", !.todo = remaining,
                                           !.via = clients[h]]
             dial      == [loops[l] EXCEPT !.phase = "acquire", !.todo = remaining]
  <2>1. h \in Hosts /\ loops[l].phase = "delay"
    BY <1>16, LoopTyped DEF LoopWake
  <2>2. clients[h] \in Transports \cup {None}
    BY <2>1 DEF TypeOK
  <2> HIDE DEF h
  <2>3. again \in Loop /\ WellFormed(again)
    BY <2>1, <2>2, LoopTyped, PhaseNames DEF Loop, WellFormed
  <2>4. dial \in Loop /\ WellFormed(dial)
    BY <2>1, LoopTyped, PhaseNames DEF Loop, WellFormed
  <2>5. /\ acquiring' \subseteq Hosts
        /\ \E loop \in {IdleLoop, again, dial} : LoopBecomes(l, loop)
    BY <1>16, <2>1 DEF LoopWake, TypeOK, h
  <2> HIDE DEF again, dial
  <2>6. loops' \in [Loops -> Loop] /\ \A k \in Loops : WellFormed(loops'[k])
    BY <2>3, <2>4, <2>5, IdleLoopTyped, LoopStaysTyped
  <2> QED
    BY <1>16, <2>5, <2>6 DEF LoopWake, TypeOK
<1>17. ASSUME NEW l \in Loops, LoopSkip(l) PROVE TypeOK'
  <2>1. PICK t \in loops[l].todo :
          LoopBecomes(l, [loops[l] EXCEPT !.todo = @ \ {t}])
    BY <1>17 DEF LoopSkip, TypeOK
  <2> DEFINE loop == [loops[l] EXCEPT !.todo = @ \ {t}]
  <2>2. loop \in Loop /\ WellFormed(loop)
    BY LoopTyped DEF Loop, WellFormed
  <2>3. loops' \in [Loops -> Loop] /\ \A k \in Loops : WellFormed(loops'[k])
    BY <2>1, <2>2, LoopStaysTyped
  <2> QED
    BY <1>17, <2>3 DEF LoopSkip, TypeOK
<1>18. ASSUME NEW l \in Loops, LoopRelink(l) PROVE TypeOK'
  <2>1. PICK t \in loops[l].todo :
          /\ link' = [link EXCEPT ![t] = loops[l].via]
          /\ LoopBecomes(l, [loops[l] EXCEPT !.todo = @ \ {t}])
          /\ SetStatus(rule[t], "active")
    BY <1>18 DEF LoopRelink, StillRunning, TypeOK
  <2> DEFINE loop == [loops[l] EXCEPT !.todo = @ \ {t}]
  <2>2. loop \in Loop /\ WellFormed(loop)
    BY LoopTyped DEF Loop, WellFormed
  <2>3. loops' \in [Loops -> Loop] /\ \A k \in Loops : WellFormed(loops'[k])
    BY <2>1, <2>2, LoopStaysTyped
  <2>4. loops[l].via \in Transports \cup {None}
    BY LoopTyped
  <2>5. link' \in [Tunnels -> Transports \cup {None}]
    BY <2>1, <2>4 DEF TypeOK
  <2> QED
    BY <1>18, <2>1, <2>3, <2>5 DEF LoopRelink, SetStatus, TypeOK
<1>19. ASSUME NEW l \in Loops, LoopOpen(l) PROVE TypeOK'
  <2>1. PICK t \in loops[l].todo, p \in {"open", "dispose"} :
          /\ link' = [link EXCEPT ![t] = loops[l].via]
          /\ LoopBecomes(l, [loops[l] EXCEPT !.todo = @ \ {t}, !.cur = t, !.phase = p])
          /\ \/ tunnels' = [tunnels EXCEPT ![rule[t]] = None]
             \/ tunnels' = tunnels
    BY <1>19 DEF LoopOpen, StillRunning, TypeOK
  <2> DEFINE loop == [loops[l] EXCEPT !.todo = @ \ {t}, !.cur = t, !.phase = p]
  <2>2. t \in Tunnels /\ loops[l].host # None /\ loops[l].via \in Transports \cup {None}
    BY <1>19, LoopTyped DEF LoopOpen
  <2>3. loop \in Loop /\ WellFormed(loop)
    BY LoopTyped, <2>2, PhaseNames DEF Loop, WellFormed
  <2>4. loops' \in [Loops -> Loop] /\ \A k \in Loops : WellFormed(loops'[k])
    BY <2>1, <2>3, LoopStaysTyped
  <2>5. link' \in [Tunnels -> Transports \cup {None}]
    BY <2>1, <2>2 DEF TypeOK
  <2> QED
    BY <1>19, <2>1, <2>4, <2>5 DEF LoopOpen, TypeOK
<1>20. ASSUME NEW l \in Loops, LoopOpened(l) PROVE TypeOK'
  <2> DEFINE loop == [loops[l] EXCEPT !.phase = "reopen", !.cur = None]
  <2>1. loop \in Loop /\ WellFormed(loop)
    BY <1>20, LoopTyped, PhaseNames DEF LoopOpened, Loop, WellFormed
  <2>2. loops' \in [Loops -> Loop] /\ \A k \in Loops : WellFormed(loops'[k])
    BY <1>20, <2>1, LoopStaysTyped DEF LoopOpened
  <2>3. loops[l].cur \in Tunnels /\ loops[l].via \in Transports \cup {None}
    BY <1>20, LoopTyped DEF LoopOpened
  <2>4. remote' \in [Tunnels -> Transports \cup {None}] /\ bound' \subseteq Tunnels
    BY <1>20, <2>3 DEF LoopOpened, Open, TypeOK
  <2> QED
    BY <1>20, <2>2, <2>4 DEF LoopOpened, SetStatus, TypeOK
<1>21. ASSUME NEW l \in Loops, LoopOpenFailed(l) PROVE TypeOK'
  <2> DEFINE loop == [loops[l] EXCEPT !.phase = "dispose"]
  <2>1. loop \in Loop /\ WellFormed(loop)
    BY LoopTyped, <1>21, PhaseNames DEF LoopOpenFailed, Loop, WellFormed
  <2>2. loops' \in [Loops -> Loop] /\ \A k \in Loops : WellFormed(loops'[k])
    BY <1>21, <2>1, LoopStaysTyped DEF LoopOpenFailed
  <2> QED
    BY <1>21, <2>2 DEF LoopOpenFailed, TypeOK
<1>22. ASSUME NEW l \in Loops, LoopDisposed(l) PROVE TypeOK'
  <2> DEFINE loop == [loops[l] EXCEPT !.phase = "reopen", !.cur = None]
  <2>1. loop \in Loop /\ WellFormed(loop)
    BY <1>22, LoopTyped, PhaseNames DEF LoopDisposed, Loop, WellFormed
  <2>2. loops' \in [Loops -> Loop] /\ \A k \in Loops : WellFormed(loops'[k])
    BY <1>22, <2>1, LoopStaysTyped DEF LoopDisposed
  <2> QED
    BY <1>22, <2>2 DEF LoopDisposed, Dispose, SetStatus, TypeOK
<1>23. ASSUME NEW l \in Loops, LoopDone(l) PROVE TypeOK'
  <2>1. loops' \in [Loops -> Loop] /\ \A k \in Loops : WellFormed(loops'[k])
    BY <1>23, IdleLoopTyped, LoopStaysTyped DEF LoopDone
  <2>2. watchers' \in [Hosts -> Transports \cup {None}]
    <3>1. loops[l].via \in Transports \cup {None}
      BY LoopTyped
    <3> QED
      BY <1>23, <3>1 DEF LoopDone, Watch, TypeOK
  <2> QED
    BY <1>23, <2>1, <2>2 DEF LoopDone, TypeOK
<1>24. CASE UNCHANGED vars
  BY <1>24 DEF vars, TypeOK
<1> QED
  BY <1>1, <1>2, <1>3, <1>4, <1>5, <1>6, <1>7, <1>8, <1>9, <1>10, <1>11, <1>12,
     <1>13, <1>14, <1>15, <1>16, <1>17, <1>18, <1>19, <1>20, <1>21, <1>22, <1>23,
     <1>24 DEF Next, User, Network, StartStep, HostStep, LoopStep

(* The service starts well typed: no rule is active, no host connected.    *)
LEMMA InitTyped == Init => TypeOK
  BY PortForwardAssumption, IdleLoopTyped
  DEF Init, TypeOK, Activation, StartPhases, Loop, LoopPhases, IdleLoop, Statuses

(* Only rules, tunnels, hosts and transports that exist appear in the      *)
(* state, and every activation is in one of its phases: whatever           *)
(* PortForwardService does, for any number of rules, drops and dials.      *)
THEOREM TypeCorrect == Spec => []TypeOK
<1>1. Init => TypeOK
  BY InitTyped
<1>2. TypeOK /\ [Next]_vars => TypeOK'
  BY TypeStep
<1>3. QED
  BY <1>1, <1>2, PTL DEF Spec

(***************************************************************************)
(* The local ports: what is not on the map is stopped or given up, and is  *)
(* never put back, so that only what is registered holds a port.           *)
(***************************************************************************)
(* _tunnels maps a rule to an object of its own; only created objects are  *)
(* started, re-opened, stopped or disposed.                                *)
OwnObjects ==
  /\ stopping \subseteq Created
  /\ disposing \subseteq stopping
  /\ \A t \in Tunnels \ Created : starting[t].phase = "none"
  /\ \A l \in Loops : loops[l].phase \in {"open", "dispose"} => loops[l].cur \in Created
  /\ \A r \in Rules : tunnels[r] # None => rule[tunnels[r]] = r

(* A start() or a loop whose open of t failed disposes of t.               *)
GivenUp(t) ==
  \/ starting[t].phase = "dispose"
  \/ \E l \in Loops : loops[l].phase = "dispose" /\ loops[l].cur = t

(* What is stopped or given up is off the map, and stays off it.           *)
OffTheMap == \A t \in Tunnels : t \in stopping \/ GivenUp(t) => ~Registered(t)

PortsInv == TypeOK /\ OwnObjects /\ OffTheMap /\ KeepsPort

(* At the start there are no objects.                                      *)
LEMMA InitPorts == Init => PortsInv
<1> SUFFICES ASSUME Init PROVE PortsInv
  OBVIOUS
<1> USE PortForwardAssumption
<1>1. TypeOK
  BY InitTyped
<1>2. Created = {}
  BY DEF Init, Created
<1>3. \A l \in Loops : loops[l].phase = "idle"
  BY DEF Init, IdleLoop
<1>4. OwnObjects
  BY <1>2, <1>3 DEF Init, OwnObjects
<1>5. OffTheMap /\ KeepsPort
  BY <1>2 DEF OffTheMap, KeepsPort, Registered
<1> QED
  BY <1>1, <1>4, <1>5 DEF PortsInv

(* A step that creates no object and moves no loop into an open or a       *)
(* dispose: it may take objects off the map, and must do so with those it  *)
(* stops or gives up, and it closes no port of an object that stays.       *)
TakesOff ==
  /\ rule' = rule
  /\ \A r \in Rules : tunnels'[r] \in {tunnels[r], None}
  /\ stopping' \subseteq Created /\ disposing' \subseteq stopping'
  /\ \A t \in Tunnels \ Created : starting'[t].phase = "none"
  /\ \A l \in Loops : loops'[l].phase \in {"open", "dispose"} => loops'[l].cur \in Created
  /\ \A t \in Created : Registered(t)' =>
       /\ t \notin stopping' /\ ~GivenUp(t)'
       /\ starting'[t].phase = "done" /\ KindOf(t) = "local" =>
            \/ t \in bound'
            \/ starting[t].phase = "done" /\ (t \in bound => t \in bound')

LEMMA TakesOffKeepsPorts == PortsInv /\ TypeOK' /\ TakesOff => PortsInv'
<1> SUFFICES ASSUME PortsInv, TypeOK', TakesOff PROVE PortsInv'
  OBVIOUS
<1> USE PortForwardAssumption
<1>1. Created' = Created /\ \A t \in Created : KindOf(t)' = KindOf(t)
  BY DEF TakesOff, Created, KindOf
<1>2. OwnObjects'
  BY <1>1 DEF TakesOff, PortsInv, OwnObjects
<1>3. \A t \in Tunnels : Registered(t)' => t \in Created /\ Registered(t)
  BY <1>1 DEF TakesOff, Registered, TypeOK, Created
<1>4. OffTheMap'
  BY <1>3 DEF TakesOff, OffTheMap
<1>5. KeepsPort'
  BY <1>1, <1>3 DEF TakesOff, PortsInv, KeepsPort
<1> QED
  BY <1>2, <1>4, <1>5 DEF PortsInv

(* Who is on the map is neither stopped nor given up.                      *)
LEMMA RegisteredRuns ==
  ASSUME PortsInv, NEW t \in Created, Registered(t)
  PROVE  t \notin stopping /\ t \notin disposing /\ ~GivenUp(t)
  BY DEF PortsInv, OffTheMap, OwnObjects, Created

(* A loop that is replaced: the others stay as they are.                   *)
LEMMA LoopReplaced ==
  ASSUME TypeOK, NEW l \in Loops, NEW loop, LoopBecomes(l, loop)
  PROVE  loops'[l] = loop /\ \A k \in Loops \ {l} : loops'[k] = loops[k]
  BY DEF TypeOK, LoopBecomes

(* The steps of a loop that do not begin or give up an open.               *)
LoopGoesOn(l) ==
  \/ LoopClose(l) \/ LoopWake(l) \/ LoopSkip(l) \/ LoopRelink(l)
  \/ LoopOpened(l) \/ LoopDisposed(l) \/ LoopDone(l)

LEMMA LoopGoesOnMoves ==
  ASSUME TypeOK, NEW l \in Loops, LoopGoesOn(l)
  PROVE  /\ UNCHANGED <<tunnels, rule, stopping, disposing, starting>>
         /\ \A k \in Loops \ {l} : loops'[k] = loops[k]
         /\ loops'[l].phase \notin {"open", "dispose"}
<1> USE DEF netVars, mapVars, objVars, actVars
<1>1. UNCHANGED <<tunnels, rule, stopping, disposing, starting>>
  BY DEF LoopGoesOn, LoopClose, LoopWake, LoopSkip, LoopRelink, LoopOpened,
         LoopDisposed, LoopDone
<1>2. \E loop : LoopBecomes(l, loop) /\ loop.phase \notin {"open", "dispose"}
  <2>1. loops[l] \in Loop
    BY LoopTyped
  <2>2. CASE LoopClose(l)
    <3>1. PICK t \in loops[l].todo :
            LoopBecomes(l, [loops[l] EXCEPT
                  !.todo  = @ \ {t},
                  !.phase = IF loops[l].todo = {t} THEN "delay" ELSE "close"])
      BY <2>2 DEF LoopClose
    <3>2. [loops[l] EXCEPT !.todo  = @ \ {t},
                           !.phase = IF loops[l].todo = {t} THEN "delay" ELSE "close"].phase
            \in {"delay", "close"}
      BY <2>1 DEF Loop
    <3> QED
      BY <3>1, <3>2
  <2>3. CASE LoopWake(l)
    <3> DEFINE remaining == {t \in loops[l].affected : Registered(t)}
               again == [loops[l] EXCEPT !.phase = "reopen", !.todo = remaining,
                                         !.via = clients[loops[l].host]]
               dial  == [loops[l] EXCEPT !.phase = "acquire", !.todo = remaining]
    <3>1. \E loop \in {IdleLoop, again, dial} : LoopBecomes(l, loop)
      BY <2>3 DEF LoopWake
    <3>2. /\ again.phase = "reopen" /\ dial.phase = "acquire"
          /\ IdleLoop.phase = "idle"
      BY <2>1 DEF Loop, IdleLoop
    <3> QED
      BY <3>1, <3>2
  <2>4. CASE LoopSkip(l) \/ LoopRelink(l)
    <3>1. PICK t \in loops[l].todo : LoopBecomes(l, [loops[l] EXCEPT !.todo = @ \ {t}])
      BY <2>4 DEF LoopSkip, LoopRelink, StillRunning
    <3>2. [loops[l] EXCEPT !.todo = @ \ {t}].phase = "reopen"
      BY <2>1, <2>4 DEF Loop, LoopSkip, LoopRelink
    <3> QED
      BY <3>1, <3>2
  <2>5. CASE LoopOpened(l) \/ LoopDisposed(l)
    <3>1. LoopBecomes(l, [loops[l] EXCEPT !.phase = "reopen", !.cur = None])
      BY <2>5 DEF LoopOpened, LoopDisposed
    <3>2. [loops[l] EXCEPT !.phase = "reopen", !.cur = None].phase = "reopen"
      BY <2>1 DEF Loop
    <3> QED
      BY <3>1, <3>2
  <2>6. CASE LoopDone(l)
    BY <2>6 DEF LoopDone, IdleLoop
  <2> QED
    BY <2>2, <2>3, <2>4, <2>5, <2>6 DEF LoopGoesOn
<1> QED
  BY <1>1, <1>2, LoopReplaced

(* start() makes one new object and puts it on the map.                    *)
LEMMA StartCreates ==
  ASSUME TypeOK, NEW r \in Rules, Start(r)
  PROVE  \E n \in Tunnels \ Created :
           /\ tunnels' = [tunnels EXCEPT ![r] = n] /\ rule' = [rule EXCEPT ![n] = r]
           /\ \A t \in Tunnels \ {n} : starting'[t] = starting[t]
           /\ starting'[n].phase \in {"acquire", "open"}
           /\ UNCHANGED <<stopping, bound, disposing, loops>>
<1> DEFINE n == Fresh(Tunnels \ Created)
           h == HostOf[r]
<1>1. n \in Tunnels \ Created
  <2>1. Tunnels \ Created # {}
    BY DEF Start, Created
  <2> QED
    BY <2>1, FreshIsMember
<1>2. \/ starting' = [starting EXCEPT ![n] = [phase |-> "open", via |-> clients[h]]]
      \/ starting' = [starting EXCEPT ![n] = [@ EXCEPT !.phase = "acquire"]]
  BY DEF Start, StartGoesTo
<1>3. /\ tunnels' = [tunnels EXCEPT ![r] = n] /\ rule' = [rule EXCEPT ![n] = r]
      /\ UNCHANGED <<stopping, bound, disposing, loops>>
  BY DEF Start
<1> HIDE DEF n
<1>4. starting \in [Tunnels -> Activation]
  BY DEF TypeOK
<1>5. /\ \A t \in Tunnels \ {n} : starting'[t] = starting[t]
      /\ starting'[n].phase \in {"acquire", "open"}
  BY <1>1, <1>2, <1>4 DEF Activation
<1> QED
  BY <1>1, <1>3, <1>5

(* _onDropped moves at most one loop, to its first phase.                  *)
LEMMA OnDroppedLoops ==
  ASSUME TypeOK, NEW h \in Hosts, OnDropped(h), NEW l \in Loops
  PROVE  loops'[l] = loops[l] \/ loops'[l].phase = "close"
<1> DEFINE loop == [IdleLoop EXCEPT !.phase = "close", !.host = h,
                      !.affected = Affected(h), !.todo = Affected(h)]
<1>1. loop.phase = "close"
  BY DEF IdleLoop
<1>2. loops' = loops \/ (IdleLoops # {} /\ LoopBecomes(Fresh(IdleLoops), loop))
  BY DEF OnDropped
<1>3. IdleLoops # {} => Fresh(IdleLoops) \in Loops
  <2> SUFFICES ASSUME IdleLoops # {} PROVE Fresh(IdleLoops) \in Loops
    OBVIOUS
  <2>1. Fresh(IdleLoops) \in IdleLoops
    BY FreshIsMember
  <2> QED
    BY <2>1 DEF IdleLoops
<1> HIDE DEF loop
<1> QED
  BY <1>1, <1>2, <1>3, LoopReplaced

(* A loop opens what is registered; an open that throws takes it off.      *)
LEMMA LoopOpenMoves ==
  ASSUME TypeOK, NEW l \in Loops, LoopOpen(l)
  PROVE  \E t \in StillRunning(l), p \in {"open", "dispose"} :
           /\ loops'[l].phase = p /\ loops'[l].cur = t
           /\ \A k \in Loops \ {l} : loops'[k] = loops[k]
           /\ \/ p = "dispose" /\ tunnels' = [tunnels EXCEPT ![rule[t]] = None]
              \/ p = "open" /\ tunnels' = tunnels
<1>1. PICK t \in StillRunning(l), p \in {"open", "dispose"} :
        /\ LoopBecomes(l, [loops[l] EXCEPT !.todo = @ \ {t}, !.cur = t, !.phase = p])
        /\ \/ p = "dispose" /\ tunnels' = [tunnels EXCEPT ![rule[t]] = None]
           \/ p = "open" /\ tunnels' = tunnels
  BY DEF LoopOpen
<1> DEFINE loop == [loops[l] EXCEPT !.todo = @ \ {t}, !.cur = t, !.phase = p]
<1>2. loop.phase = p /\ loop.cur = t
  BY LoopTyped DEF Loop
<1> HIDE DEF loop
<1>3. loops'[l] = loop /\ \A k \in Loops \ {l} : loops'[k] = loops[k]
  BY <1>1, LoopReplaced DEF loop
<1> QED
  BY <1>1, <1>2, <1>3

(* Every step keeps a running local rule's port, and what is stopped off   *)
(* the map.                                                                *)
LEMMA PortsStep == PortsInv /\ [Next]_vars => PortsInv'
<1> USE PortForwardAssumption
<1> SUFFICES ASSUME PortsInv, [Next]_vars PROVE PortsInv'
  OBVIOUS
<1>0. TypeOK /\ TypeOK'
  BY TypeStep DEF PortsInv
<1>a. ASSUME TakesOff PROVE PortsInv'
  BY <1>0, <1>a, TakesOffKeepsPorts
<1> USE DEF netVars, mapVars, objVars, actVars
<1>1. ASSUME NEW r \in Rules, StartUnknownHost(r) PROVE TakesOff
  BY <1>1, RegisteredRuns DEF StartUnknownHost, TakesOff, PortsInv, OwnObjects, Registered, GivenUp, Created
<1>2. ASSUME NEW r \in Rules, Start(r) PROVE PortsInv'
  <2>1. PICK n \in Tunnels \ Created :
          /\ tunnels' = [tunnels EXCEPT ![r] = n] /\ rule' = [rule EXCEPT ![n] = r]
          /\ \A t \in Tunnels \ {n} : starting'[t] = starting[t]
          /\ starting'[n].phase \in {"acquire", "open"}
          /\ UNCHANGED <<stopping, bound, disposing, loops>>
    BY <1>0, <1>2, StartCreates
  <2>2. tunnels[r] = None
    BY <1>2 DEF Start
  <2>4. /\ Created' = Created \cup {n}
        /\ \A t \in Created : rule'[t] = rule[t] /\ KindOf(t)' = KindOf(t)
    BY <1>0, <2>1 DEF Created, KindOf, TypeOK
  <2>5. OwnObjects'
    BY <1>0, <2>1, <2>2, <2>4 DEF PortsInv, OwnObjects, TypeOK, Created
  <2>6. ASSUME NEW t \in Tunnels, Registered(t)', t # n
        PROVE  t \in Created /\ Registered(t)
    <3>1. t \in Created /\ rule'[t] = rule[t]
      BY <2>4, <2>6 DEF Registered
    <3>2. rule[t] # r
      BY <1>0, <2>1, <2>6, <3>1 DEF Registered, TypeOK
    <3>3. rule[t] \in Rules /\ tunnels'[rule[t]] = tunnels[rule[t]]
      BY <1>0, <2>1, <3>1, <3>2 DEF TypeOK, Created
    <3> QED
      BY <2>6, <3>1, <3>3 DEF Registered
  <2>7. n \notin stopping /\ ~GivenUp(n)'
    <3>1. \A l \in Loops : loops'[l].phase = "dispose" => loops'[l].cur # n
      BY <2>1 DEF PortsInv, OwnObjects
    <3> QED
      BY <2>1, <3>1 DEF PortsInv, OwnObjects, GivenUp
  <2>8. ASSUME NEW t \in Tunnels, Registered(t)'
        PROVE  t \notin stopping' /\ ~GivenUp(t)'
    <3>1. CASE t = n
      BY <2>1, <2>7, <3>1
    <3>2. CASE t # n
      <4>1. t \in Created /\ Registered(t)
        BY <2>6, <2>8, <3>2
      <4> QED
        BY <2>1, <3>2, <4>1, RegisteredRuns DEF GivenUp
    <3> QED
      BY <3>1, <3>2
  <2>9. KeepsPort'
    BY <2>1, <2>4, <2>6 DEF PortsInv, KeepsPort
  <2> QED
    BY <1>0, <2>5, <2>8, <2>9 DEF PortsInv, OffTheMap
<1>3. ASSUME NEW r \in Rules, Stop(r) PROVE TakesOff
  BY <1>0, <1>3, RegisteredRuns DEF Stop, BeginStop, TakesOff, PortsInv, OwnObjects, Registered, GivenUp, Created, TypeOK
<1>4. ASSUME NEW h \in Hosts, HostDeleted(h) PROVE TakesOff
  BY <1>4, RegisteredRuns DEF HostDeleted, TakesOff, PortsInv, OwnObjects, Registered, GivenUp, Created
<1>5. ASSUME NEW h \in Hosts, ForeignConnect(h) PROVE TakesOff
  BY <1>5, RegisteredRuns DEF ForeignConnect, TakesOff, PortsInv, OwnObjects, Registered, GivenUp, Created
<1>6. ASSUME NEW c \in Transports, Drop(c) PROVE TakesOff
  BY <1>6, RegisteredRuns DEF Drop, TakesOff, PortsInv, OwnObjects, Registered, GivenUp, Created
<1>7. ASSUME NEW h \in Hosts, DialOk(h) PROVE TakesOff
  <2>1. UNCHANGED <<tunnels, rule, stopping, bound, disposing>>
    BY <1>7 DEF DialOk
  <2>2. \A t \in Tunnels : \/ starting'[t] = starting[t]
                           \/ starting[t].phase = "acquire" /\ starting'[t].phase = "open"
    BY <1>7 DEF DialOk, AwaitsDial
  <2>3. \A l \in Loops : loops'[l] = loops[l] \/ loops'[l].phase = "reopen"
    BY <1>0, <1>7, LoopTyped DEF DialOk, Loop
  <2> QED
    BY <2>1, <2>2, <2>3, RegisteredRuns DEF TakesOff, PortsInv, OwnObjects, Registered, GivenUp, Created
<1>8. ASSUME NEW h \in Hosts, DialFailed(h) PROVE TakesOff
  BY <1>0, <1>8, RegisteredRuns DEF DialFailed, RetryLater, TakesOff, PortsInv, OwnObjects, Registered, GivenUp, Created, AwaitsDial, TypeOK
<1>9. ASSUME NEW t \in Tunnels, StartOpened(t) PROVE TakesOff
  BY <1>0, <1>9, RegisteredRuns DEF StartOpened, Open, Ended, TakesOff, PortsInv, OwnObjects, Registered, GivenUp, Created, KindOf, TypeOK
<1>10. ASSUME NEW t \in Tunnels, StartFailed(t) PROVE TakesOff
  BY <1>0, <1>10, RegisteredRuns DEF StartFailed, StartGoesTo, TakesOff, PortsInv, OwnObjects, Registered, GivenUp, Created, KindOf, TypeOK
<1>11. ASSUME NEW t \in Tunnels, StartDisposed(t) PROVE TakesOff
  BY <1>0, <1>11, RegisteredRuns DEF StartDisposed, Dispose, Ended, TakesOff, PortsInv, OwnObjects, Registered, GivenUp, Created, KindOf, TypeOK
<1>12. ASSUME NEW t \in Tunnels, StopDisposed(t) PROVE TakesOff
  BY <1>0, <1>12, RegisteredRuns DEF StopDisposed, Dispose, TakesOff, PortsInv, OwnObjects, Registered, GivenUp, Created, KindOf, TypeOK
<1>13. ASSUME NEW h \in Hosts, StopNextOfHost(h) PROVE TakesOff
  BY <1>0, <1>13, RegisteredRuns DEF StopNextOfHost, BeginStop, TakesOff, PortsInv, OwnObjects, Registered, GivenUp, Created, TypeOK
<1>14. ASSUME NEW h \in Hosts, OnDropped(h) PROVE TakesOff
  <2>1. UNCHANGED <<tunnels, rule, stopping, bound, disposing, starting>>
    BY <1>14 DEF OnDropped
  <2>2. \A l \in Loops : loops'[l] = loops[l] \/ loops'[l].phase = "close"
    BY <1>0, <1>14, OnDroppedLoops
  <2> QED
    BY <2>1, <2>2, RegisteredRuns DEF TakesOff, PortsInv, OwnObjects, Registered, GivenUp, Created
<1>15. ASSUME NEW l \in Loops, LoopGoesOn(l) PROVE TakesOff
  <2>1. ASSUME NEW t \in Created, Registered(t), KindOf(t) = "local", t \in bound
        PROVE  t \in bound'
    <3>1. CASE LoopClose(l)
      BY <2>1, <3>1 DEF LoopClose, CloseSshSide
    <3>2. CASE LoopDisposed(l)
      <4>1. t # loops[l].cur
        BY <2>1, <3>2, RegisteredRuns DEF LoopDisposed, GivenUp
      <4> QED
        BY <2>1, <3>2, <4>1 DEF LoopDisposed, Dispose
    <3>3. CASE LoopWake(l) \/ LoopSkip(l) \/ LoopRelink(l) \/ LoopOpened(l) \/ LoopDone(l)
      BY <2>1, <3>3 DEF LoopWake, LoopSkip, LoopRelink, LoopOpened, Open, LoopDone
    <3> QED
      BY <1>15, <3>1, <3>2, <3>3 DEF LoopGoesOn
  <2> QED
    BY <1>0, <1>15, <2>1, LoopGoesOnMoves, RegisteredRuns
    DEF TakesOff, PortsInv, OwnObjects, Registered, GivenUp, Created
<1>16. ASSUME NEW l \in Loops, LoopOpen(l) PROVE TakesOff
  <2>1. PICK t \in StillRunning(l), p \in {"open", "dispose"} :
          /\ loops'[l].phase = p /\ loops'[l].cur = t
          /\ \A k \in Loops \ {l} : loops'[k] = loops[k]
          /\ \/ p = "dispose" /\ tunnels' = [tunnels EXCEPT ![rule[t]] = None]
             \/ p = "open" /\ tunnels' = tunnels
    BY <1>0, <1>16, LoopOpenMoves
  <2>2. t \in Created /\ Registered(t) /\ rule[t] \in Rules
    BY <1>0, <2>1, LoopTyped DEF StillRunning, Registered, Created, TypeOK
  <2>4. UNCHANGED <<rule, stopping, bound, disposing, starting>>
    BY <1>16 DEF LoopOpen
  <2>5. \A u \in Created : Registered(u)' => Registered(u) /\ (p = "dispose" => u # t)
    BY <1>0, <2>1, <2>2, <2>4 DEF Registered, Created, TypeOK
  <2>6. \A u \in Created : Registered(u)' => ~GivenUp(u)'
    BY <2>1, <2>4, <2>5, RegisteredRuns DEF GivenUp
  <2>7. \A k \in Loops : loops'[k].phase \in {"open", "dispose"} => loops'[k].cur \in Created
    BY <2>1, <2>2 DEF PortsInv, OwnObjects
  <2>8. \A r \in Rules : tunnels'[r] \in {tunnels[r], None}
    BY <1>0, <2>1 DEF TypeOK
  <2> QED
    BY <2>4, <2>5, <2>6, <2>7, <2>8, RegisteredRuns DEF TakesOff, PortsInv, OwnObjects
<1>17. ASSUME NEW l \in Loops, LoopOpenFailed(l) PROVE TakesOff
  <2> DEFINE t == loops[l].cur
  <2>1. t \in Created /\ rule[t] \in Rules
    BY <1>0, <1>17 DEF LoopOpenFailed, PortsInv, OwnObjects, Created, TypeOK
  <2>2. /\ loops'[l].phase = "dispose" /\ loops'[l].cur = t
        /\ \A k \in Loops \ {l} : loops'[k] = loops[k]
    BY <1>0, <1>17, LoopTyped, LoopReplaced DEF LoopOpenFailed, Loop
  <2>3. /\ UNCHANGED <<rule, stopping, bound, disposing, starting>>
        /\ tunnels' = [tunnels EXCEPT ![rule[t]] = None]
    BY <1>17 DEF LoopOpenFailed
  <2> HIDE DEF t
  <2>4. \A u \in Created : Registered(u)' => Registered(u) /\ u # t
    BY <1>0, <2>1, <2>3 DEF Registered, Created, TypeOK
  <2>5. \A u \in Created : Registered(u)' => ~GivenUp(u)'
    BY <2>2, <2>3, <2>4, RegisteredRuns DEF GivenUp
  <2>6. \A k \in Loops : loops'[k].phase \in {"open", "dispose"} => loops'[k].cur \in Created
    BY <2>1, <2>2 DEF PortsInv, OwnObjects
  <2>7. \A r \in Rules : tunnels'[r] \in {tunnels[r], None}
    BY <1>0, <2>3 DEF TypeOK
  <2> QED
    BY <2>3, <2>4, <2>5, <2>6, <2>7, RegisteredRuns DEF TakesOff, PortsInv, OwnObjects
<1>18. ASSUME UNCHANGED vars PROVE TakesOff
  BY <1>18, RegisteredRuns DEF vars, TakesOff, PortsInv, OwnObjects, Registered, GivenUp, Created
<1> QED
  BY <1>a, <1>1, <1>2, <1>3, <1>4, <1>5, <1>6, <1>7, <1>8, <1>9, <1>10, <1>11, <1>12,
     <1>13, <1>14, <1>15, <1>16, <1>17, <1>18
  DEF Next, User, Network, StartStep, HostStep, LoopStep, LoopGoesOn
(* Once a local rule is up, its port stays bound for as long as the rule   *)
(* runs, through every drop, reconnect and stop of other rules.            *)
THEOREM PortKept == Spec => []KeepsPort
<1>1. Init => PortsInv
  BY InitPorts
<1>2. PortsInv /\ [Next]_vars => PortsInv'
  BY PortsStep
<1>3. PortsInv => KeepsPort
  BY DEF PortsInv
<1> QED
  BY <1>1, <1>2, <1>3, PTL DEF Spec

(* No step opens what is stopped and is not being opened.                  *)
LEMMA QuietStep ==
  ASSUME PortsInv, [Next]_vars, NEW t \in stopping, ~Opening(t), t \notin bound
  PROVE  ~Opening(t)' /\ t \notin bound'
<1> USE PortForwardAssumption
<1>0. TypeOK /\ TypeOK' /\ t \in Created /\ ~Registered(t) /\ t \in Tunnels
  BY TypeStep DEF PortsInv, OwnObjects, OffTheMap, Created
<1> DEFINE Quiet == ~Opening(t)' /\ t \notin bound'
<1> USE DEF netVars, mapVars, objVars, actVars
<1>a. ASSUME starting' = starting, loops' = loops, bound' \subseteq bound
      PROVE  Quiet
  BY <1>a DEF Opening
<1>1. ASSUME NEW r \in Rules, StartUnknownHost(r) \/ Stop(r) PROVE Quiet
  BY <1>1, <1>a DEF StartUnknownHost, Stop
<1>2. ASSUME NEW r \in Rules, Start(r) PROVE Quiet
  <2>1. starting'[t] = starting[t] /\ UNCHANGED <<bound, loops>>
    BY <1>0, <1>2, StartCreates
  <2> QED
    BY <2>1 DEF Opening
<1>3. ASSUME NEW h \in Hosts, HostDeleted(h) \/ ForeignConnect(h) \/ StopNextOfHost(h)
      PROVE  Quiet
  BY <1>3, <1>a DEF HostDeleted, ForeignConnect, StopNextOfHost
<1>4. ASSUME NEW c \in Transports, Drop(c) PROVE Quiet
  BY <1>4, <1>a DEF Drop
<1>5. ASSUME NEW h \in Hosts, DialOk(h) PROVE Quiet
  <2>1. starting'[t] = starting[t] /\ bound' = bound
    BY <1>0, <1>5 DEF DialOk, AwaitsDial, Opening
  <2>2. \A l \in Loops : loops'[l] = loops[l] \/ loops'[l].phase = "reopen"
    BY <1>0, <1>5, LoopTyped DEF DialOk, Loop
  <2> QED
    BY <2>1, <2>2 DEF Opening
<1>6. ASSUME NEW h \in Hosts, DialFailed(h) PROVE Quiet
  <2>1. starting'[t] = starting[t] /\ bound' = bound
    BY <1>0, <1>6 DEF DialFailed, AwaitsDial, Opening
  <2>2. \A l \in Loops : loops'[l] = loops[l] \/ loops'[l].phase = "delay"
    BY <1>0, <1>6, LoopTyped DEF DialFailed, RetryLater, Loop
  <2> QED
    BY <2>1, <2>2 DEF Opening
<1>7. ASSUME NEW u \in Tunnels, StartOpened(u) PROVE Quiet
  BY <1>0, <1>7 DEF StartOpened, Open, Opening, TypeOK
<1>8. ASSUME NEW u \in Tunnels, StartFailed(u) PROVE Quiet
  BY <1>0, <1>8 DEF StartFailed, StartGoesTo, Opening, TypeOK, Activation
<1>9. ASSUME NEW u \in Tunnels, StartDisposed(u) PROVE Quiet
  BY <1>0, <1>9 DEF StartDisposed, Dispose, Ended, Opening, TypeOK
<1>10. ASSUME NEW u \in Tunnels, StopDisposed(u) PROVE Quiet
  BY <1>10, <1>a DEF StopDisposed, Dispose
<1>11. ASSUME NEW h \in Hosts, OnDropped(h) PROVE Quiet
  <2>1. \A l \in Loops : loops'[l] = loops[l] \/ loops'[l].phase = "close"
    BY <1>0, <1>11, OnDroppedLoops
  <2> QED
    BY <1>11, <2>1 DEF OnDropped, Opening
<1>12. ASSUME NEW l \in Loops, LoopStep(l) PROVE Quiet
  <2>1. starting' = starting
    BY <1>12 DEF LoopStep, LoopClose, LoopWake, LoopSkip, LoopRelink, LoopOpen,
                 LoopOpened, LoopOpenFailed, LoopDisposed, LoopDone
  <2>2. CASE LoopOpen(l)
    <3>1. PICK u \in StillRunning(l) :
            loops'[l].cur = u /\ \A k \in Loops \ {l} : loops'[k] = loops[k]
      BY <1>0, <2>2, LoopOpenMoves
    <3>2. u # t
      BY <1>0, <3>1 DEF StillRunning
    <3> QED
      BY <2>1, <2>2, <3>1, <3>2 DEF LoopOpen, Opening
  <2>3. CASE LoopOpenFailed(l)
    <3>1. loops'[l].phase = "dispose" /\ \A k \in Loops \ {l} : loops'[k] = loops[k]
      BY <1>0, <2>3, LoopTyped, LoopReplaced DEF LoopOpenFailed, Loop
    <3> QED
      BY <2>1, <2>3, <3>1 DEF LoopOpenFailed, Opening
  <2>4. CASE LoopGoesOn(l)
    <3>1. \/ bound' \subseteq bound
          \/ LoopOpened(l) /\ bound' \subseteq bound \cup {loops[l].cur}
      BY <2>4 DEF LoopGoesOn, LoopClose, CloseSshSide, LoopWake, LoopSkip, LoopRelink,
                  LoopOpened, Open, LoopDisposed, Dispose, LoopDone
    <3>2. t \notin bound'
      BY <3>1 DEF LoopOpened, Opening
    <3> QED
      BY <1>0, <2>1, <2>4, <3>2, LoopGoesOnMoves DEF Opening
  <2> QED
    BY <1>12, <2>2, <2>3, <2>4 DEF LoopStep, LoopGoesOn
<1>13. ASSUME UNCHANGED vars PROVE Quiet
  BY <1>13, <1>a DEF vars
<1> QED
  BY <1>1, <1>2, <1>3, <1>4, <1>5, <1>6, <1>7, <1>8, <1>9, <1>10, <1>11, <1>12,
     <1>13 DEF Next, User, Network, StartStep, HostStep

(* A tunnel that was stopped while nobody was opening it never holds a     *)
(* port again, whatever reconnect loop or start() still knows it.          *)
THEOREM StoppedIsQuiet == Spec => StoppedStaysQuiet
<1>1. Init => PortsInv
  BY InitPorts
<1>2. PortsInv /\ [Next]_vars => PortsInv'
  BY PortsStep
<1>3. PortsInv /\ [Next]_vars =>
        [\A t \in stopping :
           ~Opening(t) /\ t \notin bound => ~Opening(t)' /\ t \notin bound']_vars
  BY QuietStep
<1> QED
  BY <1>1, <1>2, <1>3, PTL DEF Spec, StoppedStaysQuiet

(***************************************************************************)
(* The inductive invariant behind NoTunnelForgotten, when terminal         *)
(* sessions make no connects of their own (MaxForeign = 0).                *)
(***************************************************************************)

(* A registered tunnel belongs to its rule and is not stopping; a tunnel   *)
(* that no start() created yet is in nobody's hands.                       *)
ObjectsOK ==
  /\ stopping \subseteq Created
  /\ \A t \in Tunnels \ Created :
       starting[t].phase = "none" /\ starting[t].via = None /\ link[t] = None
  /\ \A r \in Rules : tunnels[r] # None =>
       rule[tunnels[r]] = r /\ tunnels[r] \notin stopping

HasTransport(l) == loops[l].phase \in {"reopen", "open", "dispose"}

LoopsOK ==
  \A l \in Loops :
    /\ loops[l].affected \subseteq Created
    /\ loops[l].todo \subseteq loops[l].affected
    /\ \A t \in loops[l].affected : Host(t) = loops[l].host
    /\ HasTransport(l) => loops[l].via # None

(* Every transport somebody refers to was dialled.                         *)
ReferencesOK ==
  /\ \A h \in Hosts : {clients[h], watchers[h]} \subseteq used \cup {None}
  /\ \A t \in Tunnels : {link[t], starting[t].via} \subseteq used \cup {None}
  /\ \A l \in Loops : loops[l].via \in used \cup {None}

(* A start() that has its transport up has linked its tunnel to it, and no *)
(* reconnect loop has another transport for that tunnel.                   *)
StartsOK ==
  \A t \in Tunnels :
    /\ starting[t].phase = "open" => starting[t].via # None
    /\ starting[t].phase = "open" /\ starting[t].via \in live =>
         /\ link[t] = starting[t].via
         /\ \A l \in Loops : t \in loops[l].affected /\ HasTransport(l)
                               => loops[l].via = starting[t].via
    /\ starting[t].phase = "acquire" =>
         /\ Host(t) \in acquiring
         /\ \A l \in Loops : t \in loops[l].affected => ~HasTransport(l)

Inv == /\ TypeOK /\ ObjectsOK /\ LoopsOK /\ ReferencesOK
       /\ OneClientPerHost /\ StartsOK /\ NoTunnelForgotten

(* Steps that only take tunnels off the map.                               *)
LEMMA UnregisterKeepsInv ==
  ASSUME Inv, TypeOK',
         UNCHANGED <<clients, live, used, watchers, acquiring, rule, link, starting, loops>>,
         \A r \in Rules : tunnels'[r] \in {tunnels[r], None},
         stopping' \subseteq Created,
         \A r \in Rules : tunnels'[r] \in stopping' => tunnels'[r] \in stopping
  PROVE  Inv'
<1> USE PortForwardAssumption
<1>1. Created' = Created /\ \A t \in Tunnels : Host(t)' = Host(t)
  BY DEF Created, Host
<1>2. ObjectsOK'
  <2>1. \A t \in Tunnels \ Created :
          starting'[t].phase = "none" /\ starting'[t].via = None /\ link'[t] = None
    BY DEF Inv, ObjectsOK
  <2>2. ASSUME NEW r \in Rules, tunnels'[r] # None
        PROVE  rule'[tunnels'[r]] = r /\ tunnels'[r] \notin stopping'
    BY <2>2 DEF Inv, ObjectsOK
  <2> QED
    BY <1>1, <2>1, <2>2 DEF ObjectsOK
<1>3. LoopsOK'
  BY <1>1 DEF Inv, LoopsOK, HasTransport, Created, Host
<1>4. ReferencesOK'
  BY DEF Inv, ReferencesOK
<1>5. OneClientPerHost'
  BY <1>1 DEF Inv, OneClientPerHost, TypeOK, Created
<1>6. StartsOK'
  BY <1>1 DEF Inv, StartsOK, HasTransport
<1>7. NoTunnelForgotten'
  <2> SUFFICES ASSUME NEW t \in Tunnels, Registered(t)' PROVE Attended(t)'
    BY DEF NoTunnelForgotten
  <2>1. Registered(t)
    BY <1>1 DEF Registered, TypeOK, Created
  <2>2. Attended(t)
    BY <2>1 DEF Inv, NoTunnelForgotten
  <2> QED
    BY <1>1, <2>2 DEF Attended, DropPending, LoopCares, Host
<1> QED
  BY <1>2, <1>3, <1>4, <1>5, <1>6, <1>7 DEF Inv

(* A step of a reconnect loop that goes on with the transport it has.      *)
LoopMoves(l) ==
  /\ UNCHANGED <<clients, live, used, watchers, acquiring, rule, stopping, starting>>
  /\ \A r \in Rules : tunnels'[r] \in {tunnels[r], None}
  /\ \A k \in Loops \ {l} : loops'[k] = loops[k]
  /\ loops'[l].host = loops[l].host
  /\ loops'[l].via = loops[l].via
  /\ loops'[l].affected = loops[l].affected
  /\ loops'[l].todo \subseteq loops[l].affected
  /\ HasTransport(l)' => HasTransport(l)
  /\ \A t \in Tunnels :
       \/ link'[t] = link[t]
       \/ /\ t \in loops[l].affected /\ link'[t] = loops[l].via
          /\ HasTransport(l) /\ HasTransport(l)'
  /\ \A t \in Tunnels : Registered(t)' /\ LoopCares(l, t) => LoopCares(l, t)'

(* A step that only moves one loop and keeps what it attends to keeps Inv. *)
LEMMA LoopMoveKeepsInv ==
  ASSUME Inv, TypeOK', NEW l \in Loops, LoopMoves(l)
  PROVE  Inv'
<1> USE PortForwardAssumption DEF LoopMoves
<1>1. Created' = Created
  BY DEF Created
<1>2. ObjectsOK'
  <2>1. ASSUME NEW t \in Tunnels \ Created
        PROVE  starting'[t].phase = "none" /\ starting'[t].via = None /\ link'[t] = None
    BY DEF Inv, ObjectsOK, LoopsOK
  <2>2. ASSUME NEW r \in Rules, tunnels'[r] # None
        PROVE  rule'[tunnels'[r]] = r /\ tunnels'[r] \notin stopping'
    BY <2>2 DEF Inv, ObjectsOK
  <2>3. stopping' \subseteq Created'
    BY <1>1 DEF Inv, ObjectsOK
  <2> QED
    BY <1>1, <2>1, <2>2, <2>3 DEF ObjectsOK
<1>3. LoopsOK'
  BY <1>1 DEF Inv, LoopsOK, HasTransport, Created, Host
<1>4. ReferencesOK'
  BY DEF Inv, ReferencesOK
<1>5. OneClientPerHost'
  BY <1>1 DEF Inv, OneClientPerHost, LoopsOK, TypeOK, Created, Host
<1>6. StartsOK'
  BY <1>1 DEF Inv, StartsOK, HasTransport, Host
<1>7. NoTunnelForgotten'
  <2> SUFFICES ASSUME NEW t \in Tunnels, Registered(t)' PROVE Attended(t)'
    BY DEF NoTunnelForgotten
  <2>1. Registered(t)
    BY <1>1 DEF Registered, TypeOK, Created
  <2>2. Attended(t)
    BY <2>1 DEF Inv, NoTunnelForgotten
  <2>3. CASE link'[t] # link[t]
    <3>1. loops'[l].host = Host(t)' /\ LoopCares(l, t)'
      BY <2>3 DEF Inv, LoopsOK, Host, LoopCares, HasTransport
    <3> QED
      BY <3>1 DEF Attended
  <2>4. CASE link'[t] = link[t] /\ \E k \in Loops : loops[k].host = Host(t) /\ LoopCares(k, t)
    <3>1. PICK k \in Loops : loops[k].host = Host(t) /\ LoopCares(k, t)
      BY <2>4
    <3>2. loops'[k].host = Host(t)' /\ LoopCares(k, t)'
      BY <2>4, <3>1 DEF Host, LoopCares
    <3> QED
      BY <3>2 DEF Attended
  <2>5. CASE /\ link'[t] = link[t]
             /\ ~ \E k \in Loops : loops[k].host = Host(t) /\ LoopCares(k, t)
    BY <2>2, <2>5 DEF Attended, DropPending, Host
  <2> QED
    BY <2>3, <2>4, <2>5
<1> QED
  BY <1>2, <1>3, <1>4, <1>5, <1>6, <1>7 DEF Inv

(* The steps of _runReconnectLoop within an attempt, reopening included.   *)
LEMMA LoopMovesKeepInv ==
  ASSUME Inv, TypeOK', NEW l \in Loops,
         \/ LoopClose(l) \/ LoopSkip(l) \/ LoopRelink(l) \/ LoopOpen(l)
         \/ LoopOpened(l) \/ LoopOpenFailed(l) \/ LoopDisposed(l)
  PROVE  Inv'
<1> USE PortForwardAssumption DEF netVars, mapVars, objVars, actVars
<1>1. /\ TypeOK
      /\ loops[l] \in Loop
      /\ loops[l].todo \subseteq loops[l].affected
      /\ loops[l].affected \subseteq Tunnels
  BY LoopTyped DEF Inv, LoopsOK
<1>2. ASSUME NEW loop, LoopBecomes(l, loop)
      PROVE  loops'[l] = loop /\ \A k \in Loops \ {l} : loops'[k] = loops[k]
  BY <1>1, <1>2 DEF TypeOK, LoopBecomes
<1>3. CASE LoopClose(l)
  <2>1. PICK t \in loops[l].todo :
          LoopBecomes(l, [loops[l] EXCEPT
                            !.todo  = @ \ {t},
                            !.phase = IF loops[l].todo = {t} THEN "delay" ELSE "close"])
    BY <1>3 DEF LoopClose
  <2> DEFINE loop == [loops[l] EXCEPT !.todo  = @ \ {t},
                       !.phase = IF loops[l].todo = {t} THEN "delay" ELSE "close"]
  <2>2. /\ loop.host = loops[l].host /\ loop.via = loops[l].via
        /\ loop.affected = loops[l].affected
        /\ loop.todo \subseteq loops[l].affected
        /\ loop.phase \in {"close", "delay"}
    BY <1>1 DEF Loop
  <2> HIDE DEF loop
  <2>3. loops'[l] = loop /\ \A k \in Loops \ {l} : loops'[k] = loops[k]
    BY <1>2, <2>1 DEF loop
  <2>4. LoopMoves(l)
    BY <1>3, <2>2, <2>3 DEF LoopMoves, LoopClose, LoopCares, HasTransport
  <2> QED
    BY <2>4, LoopMoveKeepsInv
<1>4. CASE LoopSkip(l)
  <2>1. PICK t \in loops[l].todo :
          ~Registered(t) /\ LoopBecomes(l, [loops[l] EXCEPT !.todo = @ \ {t}])
    BY <1>4 DEF LoopSkip, StillRunning
  <2> DEFINE loop == [loops[l] EXCEPT !.todo = @ \ {t}]
  <2>2. /\ loop.host = loops[l].host /\ loop.via = loops[l].via
        /\ loop.affected = loops[l].affected
        /\ loop.todo = loops[l].todo \ {t} /\ loop.phase = "reopen"
    BY <1>1, <1>4 DEF Loop, LoopSkip
  <2> HIDE DEF loop
  <2>3. loops'[l] = loop /\ \A k \in Loops \ {l} : loops'[k] = loops[k]
    BY <1>2, <2>1 DEF loop
  <2>4. \A u \in Tunnels : Registered(u)' => Registered(u)
    BY <1>4 DEF LoopSkip, Registered, Created
  <2>5. LoopMoves(l)
    BY <1>1, <1>4, <2>1, <2>2, <2>3, <2>4 DEF LoopMoves, LoopSkip, LoopCares, HasTransport
  <2> QED
    BY <2>5, LoopMoveKeepsInv
<1>5. CASE LoopRelink(l)
  <2>1. PICK t \in loops[l].todo :
          /\ link' = [link EXCEPT ![t] = loops[l].via]
          /\ LoopBecomes(l, [loops[l] EXCEPT !.todo = @ \ {t}])
    BY <1>5 DEF LoopRelink, StillRunning
  <2> DEFINE loop == [loops[l] EXCEPT !.todo = @ \ {t}]
  <2>2. /\ loop.host = loops[l].host /\ loop.via = loops[l].via
        /\ loop.affected = loops[l].affected
        /\ loop.todo = loops[l].todo \ {t} /\ loop.phase = "reopen"
        /\ loops[l].phase = "reopen"
    BY <1>1, <1>5 DEF Loop, LoopRelink
  <2> HIDE DEF loop
  <2>3. loops'[l] = loop /\ \A k \in Loops \ {l} : loops'[k] = loops[k]
    BY <1>2, <2>1 DEF loop
  <2>4. \A u \in Tunnels : link'[u] = IF u = t THEN loops[l].via ELSE link[u]
    BY <1>1, <2>1 DEF TypeOK
  <2>5. LoopMoves(l)
    BY <1>1, <1>5, <2>1, <2>2, <2>3, <2>4 DEF LoopMoves, LoopRelink, LoopCares, HasTransport
  <2> QED
    BY <2>5, LoopMoveKeepsInv
<1>6. CASE LoopOpen(l)
  <2>1. PICK t \in loops[l].todo, p \in {"open", "dispose"} :
          /\ link' = [link EXCEPT ![t] = loops[l].via]
          /\ LoopBecomes(l, [loops[l] EXCEPT !.todo = @ \ {t}, !.cur = t, !.phase = p])
          /\ \/ tunnels' = [tunnels EXCEPT ![rule[t]] = None]
             \/ tunnels' = tunnels
    BY <1>6 DEF LoopOpen, StillRunning
  <2> DEFINE loop == [loops[l] EXCEPT !.todo = @ \ {t}, !.cur = t, !.phase = p]
  <2>2. /\ loop.host = loops[l].host /\ loop.via = loops[l].via
        /\ loop.affected = loops[l].affected
        /\ loop.todo = loops[l].todo \ {t} /\ loop.phase = p
        /\ loops[l].phase = "reopen"
    BY <1>1, <1>6 DEF Loop, LoopOpen
  <2> HIDE DEF loop
  <2>3. loops'[l] = loop /\ \A k \in Loops \ {l} : loops'[k] = loops[k]
    BY <1>2, <2>1 DEF loop
  <2>4. /\ \A u \in Tunnels : link'[u] = IF u = t THEN loops[l].via ELSE link[u]
        /\ \A r \in Rules : tunnels'[r] \in {tunnels[r], None}
    BY <1>1, <2>1 DEF TypeOK
  <2>5. LoopMoves(l)
    <3>1. /\ UNCHANGED <<clients, live, used, watchers, acquiring, rule, stopping, starting>>
          /\ t \in loops[l].todo /\ loops[l].todo \subseteq loops[l].affected
      BY <1>1, <1>6, <2>1 DEF LoopOpen, netVars, ObjectsOK, LoopsOK, Inv
    <3>2. HasTransport(l) /\ HasTransport(l)'
      BY <2>1, <2>2, <2>3 DEF HasTransport
    <3>3. ASSUME NEW u \in Tunnels, LoopCares(l, u) PROVE LoopCares(l, u)'
      BY <2>1, <2>2, <2>3, <2>4, <3>3 DEF LoopCares
    <3> QED
      BY <2>2, <2>3, <2>4, <3>1, <3>2, <3>3 DEF LoopMoves
  <2> QED
    BY <2>5, LoopMoveKeepsInv
<1>7. CASE LoopOpened(l)
  <2> DEFINE loop == [loops[l] EXCEPT !.phase = "reopen", !.cur = None]
  <2>1. /\ loop.host = loops[l].host /\ loop.via = loops[l].via
        /\ loop.affected = loops[l].affected
        /\ loop.todo = loops[l].todo /\ loop.phase = "reopen"
        /\ loops[l].phase = "open"
    BY <1>1, <1>7 DEF Loop, LoopOpened
  <2> HIDE DEF loop
  <2>2. loops'[l] = loop /\ \A k \in Loops \ {l} : loops'[k] = loops[k]
    BY <1>2, <1>7 DEF LoopOpened, loop
  <2>3. \A r \in Rules : tunnels'[r] \in {tunnels[r], None}
    BY <1>1, <1>7 DEF LoopOpened, TypeOK
  <2>4. LoopMoves(l)
    BY <1>1, <1>7, <2>1, <2>2, <2>3 DEF LoopMoves, LoopOpened, LoopCares, HasTransport
  <2> QED
    BY <2>4, LoopMoveKeepsInv
<1>8. CASE LoopOpenFailed(l)
  <2> DEFINE loop == [loops[l] EXCEPT !.phase = "dispose"]
  <2>1. /\ loop.host = loops[l].host /\ loop.via = loops[l].via
        /\ loop.affected = loops[l].affected
        /\ loop.todo = loops[l].todo /\ loop.phase = "dispose"
        /\ loops[l].phase = "open"
    BY <1>1, <1>8 DEF Loop, LoopOpenFailed
  <2> HIDE DEF loop
  <2>2. loops'[l] = loop /\ \A k \in Loops \ {l} : loops'[k] = loops[k]
    BY <1>2, <1>8 DEF LoopOpenFailed, loop
  <2>3. \A r \in Rules : tunnels'[r] \in {tunnels[r], None}
    BY <1>1, <1>8 DEF LoopOpenFailed, TypeOK
  <2>4. LoopMoves(l)
    BY <1>1, <1>8, <2>1, <2>2, <2>3 DEF LoopMoves, LoopOpenFailed, LoopCares, HasTransport
  <2> QED
    BY <2>4, LoopMoveKeepsInv
<1>9. CASE LoopDisposed(l)
  <2> DEFINE loop == [loops[l] EXCEPT !.phase = "reopen", !.cur = None]
  <2>1. /\ loop.host = loops[l].host /\ loop.via = loops[l].via
        /\ loop.affected = loops[l].affected
        /\ loop.todo = loops[l].todo /\ loop.phase = "reopen"
        /\ loops[l].phase = "dispose"
    BY <1>1, <1>9 DEF Loop, LoopDisposed
  <2> HIDE DEF loop
  <2>2. loops'[l] = loop /\ \A k \in Loops \ {l} : loops'[k] = loops[k]
    BY <1>2, <1>9 DEF LoopDisposed, loop
  <2>3. \A r \in Rules : tunnels'[r] \in {tunnels[r], None}
    BY <1>1, <1>9 DEF LoopDisposed, TypeOK
  <2>4. LoopMoves(l)
    BY <1>1, <1>9, <2>1, <2>2, <2>3 DEF LoopMoves, LoopDisposed, LoopCares, HasTransport
  <2> QED
    BY <2>4, LoopMoveKeepsInv
<1> QED
  BY <1>3, <1>4, <1>5, <1>6, <1>7, <1>8, <1>9

(* The backoff delay ends: the loop drops what was stopped, or dials.      *)
LEMMA LoopWakeKeepsInv ==
  ASSUME Inv, TypeOK', NEW l \in Loops, LoopWake(l)
  PROVE  Inv'
<1> USE PortForwardAssumption DEF netVars, mapVars, objVars, actVars
<1> DEFINE h         == loops[l].host
           remaining == {t \in loops[l].affected : Registered(t)}
           again     == [loops[l] EXCEPT !.phase = "reopen", !.todo = remaining,
                                         !.via = clients[h]]
           dial      == [loops[l] EXCEPT !.phase = "acquire", !.todo = remaining]
<1>1. /\ TypeOK
      /\ loops[l] \in Loop /\ h \in Hosts
      /\ loops[l].phase = "delay"
      /\ loops[l].affected \subseteq Tunnels
  BY LoopTyped DEF Inv, LoopWake
<1>2. ASSUME NEW loop, LoopBecomes(l, loop)
      PROVE  loops'[l] = loop /\ \A k \in Loops \ {l} : loops'[k] = loops[k]
  BY <1>1, <1>2 DEF TypeOK, LoopBecomes
<1>3. /\ UNCHANGED <<clients, live, used, tunnels, watchers, rule, stopping, link, starting>>
      /\ Created' = Created
      /\ \A t \in Tunnels : Registered(t)' = Registered(t)
  BY DEF LoopWake, Created, Registered
<1>4. ASSUME NEW loop, LoopBecomes(l, loop),
             loop.affected \subseteq loops[l].affected,
             loop.todo \subseteq loop.affected,
             loop.affected # {} => loop.host = h,
             loop.phase \in {"reopen", "open", "dispose"} =>
               /\ loop.phase = "reopen" /\ loop.via = clients[h] /\ loop.host = h
               /\ h \notin acquiring /\ HasLiveClient(h),
             loop.via \in used \cup {None},
             loop.via \in live => loop.via = clients[loop.host],
             \/ acquiring' = acquiring
             \/ acquiring' = acquiring \cup {h} /\ clients[h] \notin live,
             \A t \in remaining : LoopCares(l, t)' /\ loop.host = h
      PROVE  Inv'
  <2> HIDE DEF h, remaining
  <2>1. loops'[l] = loop /\ \A k \in Loops \ {l} : loops'[k] = loops[k]
    BY <1>2, <1>4
  <2>2. ObjectsOK'
    BY <1>3 DEF Inv, ObjectsOK
  <2>3. LoopsOK'
    <3>1. ASSUME NEW k \in Loops
          PROVE  /\ loops'[k].affected \subseteq Created
                 /\ loops'[k].todo \subseteq loops'[k].affected
                 /\ \A t \in loops'[k].affected : Host(t) = loops'[k].host
                 /\ HasTransport(k)' => loops'[k].via # None
      <4>1. CASE k = l
        BY <1>1, <1>4, <2>1, <4>1 DEF Inv, LoopsOK, HasTransport, HasLiveClient, h, TypeOK
      <4>2. CASE k # l
        BY <2>1, <4>2 DEF Inv, LoopsOK, HasTransport
      <4> QED
        BY <4>1, <4>2
    <3> QED
      BY <1>3, <3>1 DEF LoopsOK, Host
  <2>4. ReferencesOK'
    BY <1>3, <1>4, <2>1 DEF Inv, ReferencesOK
  <2>5. OneClientPerHost'
    BY <1>3, <1>4, <2>1 DEF Inv, OneClientPerHost, Host
  <2>6. StartsOK'
    <3>1. ASSUME NEW t \in Tunnels
          PROVE  /\ starting[t].phase = "open" => starting[t].via # None
                 /\ starting[t].phase = "open" /\ starting[t].via \in live =>
                      /\ link[t] = starting[t].via
                      /\ \A k \in Loops : t \in loops'[k].affected /\ HasTransport(k)'
                                            => loops'[k].via = starting[t].via
                 /\ starting[t].phase = "acquire" =>
                      /\ Host(t) \in acquiring'
                      /\ \A k \in Loops : t \in loops'[k].affected => ~HasTransport(k)'
      <4>1. t \in loops[l].affected => Host(t) = h /\ t \in Created
        BY DEF Inv, LoopsOK, h
      <4>2. starting[t].phase = "open" /\ starting[t].via \in live /\ Host(t) = h /\ t \in Created
              => starting[t].via = clients[h]
        BY DEF Inv, OneClientPerHost
      <4> QED
        BY <1>4, <2>1, <4>1, <4>2 DEF Inv, StartsOK, HasTransport
    <3> QED
      BY <1>3, <3>1 DEF StartsOK, Host
  <2>7. NoTunnelForgotten'
    <3> SUFFICES ASSUME NEW t \in Tunnels, Registered(t)' PROVE Attended(t)'
      BY DEF NoTunnelForgotten
    <3>1. Registered(t) /\ Attended(t)
      BY <1>3 DEF Inv, NoTunnelForgotten
    <3>2. CASE \E k \in Loops \ {l} : loops[k].host = Host(t) /\ LoopCares(k, t)
      BY <1>3, <2>1, <3>2 DEF Attended, LoopCares, Host
    <3>3. CASE loops[l].host = Host(t) /\ LoopCares(l, t)
      <4>1. t \in remaining
        BY <1>1, <3>1, <3>3 DEF LoopCares, remaining
      <4>2. LoopCares(l, t)' /\ loops'[l].host = Host(t)'
        BY <1>3, <1>4, <2>1, <3>3, <4>1 DEF Host, h
      <4> QED
        BY <4>2 DEF Attended
    <3>4. CASE ~ \E k \in Loops : loops[k].host = Host(t) /\ LoopCares(k, t)
      BY <1>3, <3>1, <3>4 DEF Attended, DropPending, Host
    <3> QED
      BY <3>2, <3>3, <3>4
  <2> QED
    BY <2>2, <2>3, <2>4, <2>5, <2>6, <2>7 DEF Inv
<1>5. CASE remaining = {} /\ LoopBecomes(l, IdleLoop) /\ UNCHANGED acquiring
  <2>1. /\ IdleLoop.affected = {} /\ IdleLoop.todo = {} /\ IdleLoop.phase = "idle"
        /\ IdleLoop.via = None /\ None \notin live
    BY <1>1 DEF IdleLoop, TypeOK
  <2> QED
    BY <1>4, <1>5, <2>1
<1>6. CASE /\ h \notin acquiring /\ HasLiveClient(h)
           /\ LoopBecomes(l, again) /\ UNCHANGED acquiring
  <2>1. /\ again.affected = loops[l].affected /\ again.todo = remaining
        /\ again.host = h /\ again.phase = "reopen" /\ again.via = clients[h]
    BY <1>1 DEF Loop
  <2>2. loops'[l] = again
    BY <1>2, <1>6
  <2>3. again.via \in used \cup {None}
    BY <1>1, <2>1 DEF Inv, ReferencesOK
  <2> HIDE DEF again, h
  <2>4. \A t \in remaining : LoopCares(l, t)'
    BY <2>1, <2>2 DEF LoopCares
  <2> HIDE DEF remaining
  <2>5. remaining \subseteq loops[l].affected
    BY DEF remaining
  <2> QED
    BY <1>4, <1>6, <2>1, <2>3, <2>4, <2>5
<1>7. CASE /\ ~(h \notin acquiring /\ HasLiveClient(h))
           /\ LoopBecomes(l, dial) /\ acquiring' = acquiring \cup {h}
  <2>1. /\ dial.affected = loops[l].affected /\ dial.todo = remaining
        /\ dial.host = h /\ dial.phase = "acquire" /\ dial.via = loops[l].via
    BY <1>1 DEF Loop
  <2>2. loops'[l] = dial
    BY <1>2, <1>7
  <2>3. /\ dial.via \in used \cup {None}
        /\ dial.via \in live => dial.via = clients[h]
        /\ clients[h] \notin live
    BY <1>1, <1>7, <2>1 DEF Inv, ReferencesOK, OneClientPerHost, HasLiveClient
  <2> HIDE DEF dial, h
  <2>4. \A t \in remaining : LoopCares(l, t)'
    BY <2>1, <2>2 DEF LoopCares
  <2> HIDE DEF remaining
  <2>5. remaining \subseteq loops[l].affected
    BY DEF remaining
  <2> QED
    BY <1>4, <1>7, <2>1, <2>3, <2>4, <2>5
<1> QED
  BY <1>5, <1>6, <1>7 DEF LoopWake

(* A loop with nothing left to reopen watches the connection and ends.     *)
LEMMA LoopDoneKeepsInv ==
  ASSUME Inv, TypeOK', NEW l \in Loops, LoopDone(l)
  PROVE  Inv'
<1> USE PortForwardAssumption DEF netVars, mapVars, objVars, actVars
<1> DEFINE h == loops[l].host
           c == loops[l].via
<1>1. /\ TypeOK
      /\ loops[l] \in Loop /\ h \in Hosts /\ c # None
      /\ loops[l].phase = "reopen" /\ loops[l].todo = {}
      /\ None \notin live
  BY LoopTyped DEF Inv, LoopDone, LoopsOK, HasTransport, TypeOK
<1>2. /\ UNCHANGED <<clients, live, used, tunnels, acquiring, rule, stopping, link, starting>>
      /\ Created' = Created
      /\ \A t \in Tunnels : Registered(t)' = Registered(t)
      /\ \A g \in Hosts : ~DropPending(g)
  BY DEF LoopDone, Created, Registered, Settled
<1>3. /\ loops'[l] = IdleLoop /\ \A k \in Loops \ {l} : loops'[k] = loops[k]
      /\ watchers'[h] = c /\ \A g \in Hosts \ {h} : watchers'[g] = watchers[g]
  BY <1>1 DEF LoopDone, LoopBecomes, Watch, TypeOK
<1>4. /\ IdleLoop.affected = {} /\ IdleLoop.todo = {} /\ IdleLoop.phase = "idle"
      /\ IdleLoop.via = None
  BY DEF IdleLoop
<1>5. ObjectsOK'
  BY <1>2 DEF Inv, ObjectsOK
<1>6. LoopsOK'
  <2>1. ASSUME NEW k \in Loops
        PROVE  /\ loops'[k].affected \subseteq Created
               /\ loops'[k].todo \subseteq loops'[k].affected
               /\ \A t \in loops'[k].affected : Host(t) = loops'[k].host
               /\ HasTransport(k)' => loops'[k].via # None
    BY <1>3, <1>4 DEF Inv, LoopsOK, HasTransport
  <2> QED
    BY <1>2, <2>1 DEF LoopsOK, Host
<1>7. ReferencesOK'
  BY <1>1, <1>2, <1>3, <1>4 DEF Inv, ReferencesOK
<1>8. OneClientPerHost'
  BY <1>1, <1>2, <1>3, <1>4 DEF Inv, OneClientPerHost, Host
<1>9. StartsOK'
  BY <1>2, <1>3, <1>4 DEF Inv, StartsOK, HasTransport, Host
<1>10. NoTunnelForgotten'
  <2> SUFFICES ASSUME NEW t \in Tunnels, Registered(t)' PROVE Attended(t)'
    BY DEF NoTunnelForgotten
  <2>1. Registered(t) /\ Attended(t) /\ Host(t)' = Host(t) /\ Host(t) \in Hosts /\ t \in Created
    BY <1>1, <1>2 DEF Inv, NoTunnelForgotten, Registered, Created, Host, TypeOK
  <2> HIDE DEF h, c
  <2>2. CASE Host(t) = h
    <3>1. CASE c \notin live
      <4>1. DropPending(Host(t))'
        BY <1>1, <1>2, <1>3, <2>1, <2>2, <3>1 DEF DropPending
      <4> QED
        BY <4>1 DEF Attended
    <3>2. CASE c \in live /\ link[t] = c
      BY <1>2, <1>3, <2>1, <2>2, <3>2 DEF Attended
    <3>3. CASE c \in live /\ link[t] # c
      <4>1. c = clients[h] /\ (link[t] \in live => link[t] = clients[h])
        BY <2>1, <2>2, <3>3 DEF Inv, OneClientPerHost, h, c
      <4>2. link[t] \notin live /\ ~LoopCares(l, t)
        BY <1>1, <3>3, <4>1 DEF LoopCares, c
      <4>3. \/ starting[t].phase \in {"acquire", "open"}
            \/ \E k \in Loops \ {l} : loops[k].host = Host(t) /\ LoopCares(k, t)
        BY <1>2, <2>1, <4>2 DEF Attended
      <4> QED
        BY <1>2, <1>3, <2>1, <4>3 DEF Attended, LoopCares
    <3> QED
      BY <3>1, <3>2, <3>3
  <2>3. CASE Host(t) # h
    BY <1>2, <1>3, <2>1, <2>3 DEF Attended, LoopCares, DropPending, h
  <2> QED
    BY <2>2, <2>3
<1> QED
  BY <1>5, <1>6, <1>7, <1>8, <1>9, <1>10 DEF Inv

(* The watcher of a host sees its drop and hands the tunnels to a loop.    *)
LEMMA OnDroppedKeepsInv ==
  ASSUME Inv, TypeOK', NEW h \in Hosts, OnDropped(h)
  PROVE  Inv'
<1> USE PortForwardAssumption DEF netVars, mapVars, objVars, actVars
<1> DEFINE loop == [IdleLoop EXCEPT !.phase = "close", !.host = h,
                      !.affected = Affected(h), !.todo = Affected(h)]
<1>1. TypeOK /\ None \notin live
  BY DEF Inv, TypeOK
<1>2. /\ UNCHANGED <<clients, live, used, tunnels, acquiring, rule, stopping, link, starting>>
      /\ Created' = Created
      /\ \A t \in Tunnels : Registered(t)' = Registered(t)
  BY DEF OnDropped, Created, Registered
<1>3. watchers'[h] = None /\ \A g \in Hosts \ {h} : watchers'[g] = watchers[g]
  BY <1>1 DEF OnDropped, TypeOK
<1>4. /\ loop.phase = "close" /\ loop.host = h /\ loop.affected = Affected(h)
      /\ loop.todo = Affected(h) /\ loop.via = None
  BY DEF IdleLoop
<1>5. ObjectsOK'
  BY <1>2 DEF Inv, ObjectsOK
<1> HIDE DEF loop
<1>6. \A k \in Loops : loops'[k] = loops[k] \/ loops'[k] = loop
  BY <1>1 DEF OnDropped, LoopBecomes, TypeOK, loop
<1>7. LoopsOK'
  <2>1. ASSUME NEW k \in Loops
        PROVE  /\ loops'[k].affected \subseteq Created
               /\ loops'[k].todo \subseteq loops'[k].affected
               /\ \A t \in loops'[k].affected : Host(t) = loops'[k].host
               /\ HasTransport(k)' => loops'[k].via # None
    <3>1. CASE loops'[k] = loops[k]
      BY <3>1 DEF Inv, LoopsOK, HasTransport
    <3>2. CASE loops'[k] = loop
      BY <1>4, <3>2 DEF HasTransport, Affected, Registered
    <3> QED
      BY <1>6, <3>1, <3>2
  <2> QED
    BY <1>2, <2>1 DEF LoopsOK, Host
<1>8. ReferencesOK'
  BY <1>1, <1>2, <1>3, <1>4, <1>6 DEF Inv, ReferencesOK
<1>9. OneClientPerHost'
  BY <1>1, <1>2, <1>3, <1>4, <1>6 DEF Inv, OneClientPerHost, Host
<1>10. StartsOK'
  BY <1>2, <1>4, <1>6 DEF Inv, StartsOK, HasTransport, Host
<1>11. NoTunnelForgotten'
  <2> SUFFICES ASSUME NEW t \in Tunnels, Registered(t)' PROVE Attended(t)'
    BY DEF NoTunnelForgotten
  <2>1. Registered(t) /\ Attended(t) /\ Host(t)' = Host(t) /\ Host(t) \in Hosts /\ t \in Created
    BY <1>1, <1>2 DEF Inv, NoTunnelForgotten, Registered, Created, Host, TypeOK
  <2>2. CASE Host(t) = h
    <3>1. t \in Affected(h)
      <4>1. t \notin stopping
        BY <1>1, <2>1 DEF Inv, ObjectsOK, Registered, Created, TypeOK
      <4> QED
        BY <2>1, <2>2, <4>1 DEF Affected
    <3>2. IdleLoops # {} /\ LoopBecomes(Fresh(IdleLoops), loop)
      BY <3>1 DEF OnDropped, loop
    <3>3. Fresh(IdleLoops) \in IdleLoops
      BY <3>2, FreshIsMember
    <3>4. PICK l \in Loops : loops'[l] = loop
      BY <1>1, <3>2, <3>3 DEF LoopBecomes, IdleLoops, TypeOK
    <3>5. LoopCares(l, t)' /\ loops'[l].host = Host(t)'
      BY <1>4, <2>1, <2>2, <3>1, <3>4 DEF LoopCares
    <3> QED
      BY <3>5 DEF Attended
  <2>3. CASE Host(t) # h
    <3>1. ASSUME NEW k \in Loops, LoopCares(k, t) PROVE loops'[k] = loops[k]
      <4>1. CASE IdleLoops # {} /\ LoopBecomes(Fresh(IdleLoops), loop)
        <5>1. Fresh(IdleLoops) \in IdleLoops
          BY <4>1, FreshIsMember
        <5>2. k # Fresh(IdleLoops)
          BY <3>1, <5>1 DEF IdleLoops, LoopCares
        <5> QED
          BY <1>1, <4>1, <5>2 DEF LoopBecomes, TypeOK
      <4>2. CASE loops' = loops
        BY <4>2
      <4> QED
        BY <4>1, <4>2 DEF OnDropped, loop
    <3> QED
      BY <1>2, <1>3, <2>1, <2>3, <3>1 DEF Attended, LoopCares, DropPending
  <2> QED
    BY <2>2, <2>3
<1> QED
  BY <1>5, <1>7, <1>8, <1>9, <1>10, <1>11 DEF Inv

(* start() registers a new tunnel and takes or dials the connection.       *)
LEMMA StartKeepsInv ==
  ASSUME Inv, TypeOK', NEW r \in Rules, Start(r)
  PROVE  Inv'
<1> USE PortForwardAssumption DEF netVars, mapVars, objVars, actVars
<1> DEFINE n == Fresh(Tunnels \ Created)
           h == HostOf[r]
<1>1. TypeOK /\ None \notin live /\ h \in Hosts
  BY DEF Inv, TypeOK
<1>2. n \in Tunnels \ Created
  <2>1. Tunnels \ Created # {}
    BY DEF Start, Created
  <2> QED
    BY <2>1, FreshIsMember
<1> HIDE DEF n
<1>3. /\ UNCHANGED <<clients, live, used, watchers, stopping, loops>>
      /\ tunnels' = [tunnels EXCEPT ![r] = n] /\ rule' = [rule EXCEPT ![n] = r]
      /\ tunnels[r] = None
  BY DEF Start, n
<1>4. /\ Created' = Created \cup {n} /\ n \notin Created /\ n \in Tunnels
      /\ \A t \in Created : rule'[t] = rule[t] /\ Host(t)' = Host(t)
      /\ rule'[n] = r
  <2>1. \A t \in Tunnels : rule'[t] = IF t = n THEN r ELSE rule[t]
    BY <1>1, <1>2, <1>3 DEF TypeOK
  <2>2. n \in Tunnels /\ n \notin Created /\ r # None
    BY <1>2
  <2>3. Created' = Created \cup {n}
    BY <2>1, <2>2 DEF Created
  <2> QED
    BY <2>1, <2>2, <2>3 DEF Created, Host
<1>5. /\ \A t \in Tunnels \ {n} : starting'[t] = starting[t] /\ link'[t] = link[t]
      /\ \/ /\ starting'[n].phase = "open" /\ starting'[n].via = clients[h]
            /\ link'[n] = clients[h] /\ clients[h] \in live
            /\ acquiring' = acquiring
         \/ /\ starting'[n].phase = "acquire" /\ starting'[n].via = None /\ link'[n] = None
            /\ acquiring' = acquiring \cup {h}
            /\ h \notin acquiring => clients[h] \notin live
  <2>1. starting[n].via = None /\ link[n] = None /\ starting[n] \in Activation
    BY <1>1, <1>2 DEF Inv, ObjectsOK, TypeOK
  <2>2. CASE h \notin acquiring /\ HasLiveClient(h)
    <3>1. /\ starting' = [starting EXCEPT ![n] = [phase |-> "open", via |-> clients[h]]]
          /\ link' = [link EXCEPT ![n] = clients[h]] /\ acquiring' = acquiring
      BY <2>2 DEF Start, n
    <3> QED
      BY <1>1, <1>2, <2>2, <3>1 DEF TypeOK, HasLiveClient
  <2>3. CASE ~(h \notin acquiring /\ HasLiveClient(h))
    <3>1. /\ starting' = [starting EXCEPT ![n] = [@ EXCEPT !.phase = "acquire"]]
          /\ link' = link /\ acquiring' = acquiring \cup {h}
      BY <2>3 DEF Start, StartGoesTo, n
    <3>2. starting'[n] = [starting[n] EXCEPT !.phase = "acquire"]
      BY <1>1, <1>2, <3>1 DEF TypeOK
    <3>3. starting'[n].phase = "acquire" /\ starting'[n].via = None
      BY <2>1, <3>2 DEF Activation
    <3> QED
      BY <1>1, <2>1, <2>3, <3>1, <3>3 DEF HasLiveClient, TypeOK
  <2> QED
    BY <2>2, <2>3
<1>6. \A q \in Rules : tunnels'[q] = IF q = r THEN n ELSE tunnels[q]
  BY <1>1, <1>3 DEF TypeOK
<1>7. ObjectsOK'
  <2>1. stopping' \subseteq Created'
    BY <1>3, <1>4 DEF Inv, ObjectsOK
  <2>2. ASSUME NEW t \in Tunnels, t \notin Created'
        PROVE  starting'[t].phase = "none" /\ starting'[t].via = None /\ link'[t] = None
    BY <1>4, <1>5, <2>2 DEF Inv, ObjectsOK
  <2>3. ASSUME NEW q \in Rules, tunnels'[q] # None
        PROVE  rule'[tunnels'[q]] = q /\ tunnels'[q] \notin stopping'
    <3>1. CASE q = r
      BY <1>1, <1>2, <1>3, <1>4, <1>6, <3>1 DEF Inv, ObjectsOK, TypeOK
    <3>2. CASE q # r
      <4>1. tunnels[q] # None /\ tunnels[q] \in Tunnels
        BY <1>1, <1>6, <2>3, <3>2 DEF TypeOK
      <4>2. rule[tunnels[q]] = q /\ tunnels[q] \notin stopping
        BY <4>1 DEF Inv, ObjectsOK
      <4>3. tunnels[q] \in Created
        BY <4>1, <4>2 DEF Created
      <4> QED
        BY <1>3, <1>4, <1>6, <3>2, <4>2, <4>3
    <3> QED
      BY <3>1, <3>2
  <2> QED
    BY <2>1, <2>2, <2>3 DEF ObjectsOK
<1>8. LoopsOK'
  BY <1>3, <1>4 DEF Inv, LoopsOK, HasTransport
<1>9. ReferencesOK'
  <2>1. ASSUME NEW t \in Tunnels PROVE {link'[t], starting'[t].via} \subseteq used \cup {None}
    BY <1>1, <1>5 DEF Inv, ReferencesOK
  <2> QED
    BY <1>3, <2>1 DEF Inv, ReferencesOK
<1>10. OneClientPerHost'
  <2>1. \A g \in acquiring' : clients[g] \notin live
    BY <1>5 DEF Inv, OneClientPerHost
  <2>2. ASSUME NEW t \in Created'
        PROVE  /\ link'[t] \in live => link'[t] = clients[Host(t)']
               /\ starting'[t].via \in live => starting'[t].via = clients[Host(t)']
    <3>1. CASE t = n
      BY <1>1, <1>4, <1>5, <3>1 DEF Host
    <3>2. CASE t # n
      <4>1. t \in Created /\ t \in Tunnels
        BY <1>4, <2>2, <3>2 DEF Created
      <4> QED
        BY <1>4, <1>5, <3>2, <4>1 DEF Inv, OneClientPerHost
    <3> QED
      BY <3>1, <3>2
  <2> QED
    BY <1>3, <2>1, <2>2 DEF Inv, OneClientPerHost
<1>11. StartsOK'
  <2>1. ASSUME NEW t \in Tunnels
        PROVE  /\ starting'[t].phase = "open" => starting'[t].via # None
               /\ starting'[t].phase = "open" /\ starting'[t].via \in live =>
                    /\ link'[t] = starting'[t].via
                    /\ \A l \in Loops : t \in loops[l].affected /\ HasTransport(l)
                                          => loops[l].via = starting'[t].via
               /\ starting'[t].phase = "acquire" =>
                    /\ Host(t)' \in acquiring'
                    /\ \A l \in Loops : t \in loops[l].affected => ~HasTransport(l)
    <3>1. CASE t = n
      <4>1. \A l \in Loops : n \notin loops[l].affected
        BY <1>4 DEF Inv, LoopsOK
      <4> QED
        BY <1>1, <1>4, <1>5, <3>1, <4>1 DEF Host
    <3>2. CASE t # n /\ t \in Created
      BY <1>4, <1>5, <3>2 DEF Inv, StartsOK
    <3>3. CASE t # n /\ t \notin Created
      BY <1>5, <3>3 DEF Inv, ObjectsOK
    <3> QED
      BY <3>1, <3>2, <3>3
  <2> QED
    BY <1>3, <2>1 DEF StartsOK, HasTransport
<1>12. NoTunnelForgotten'
  <2> SUFFICES ASSUME NEW t \in Tunnels, Registered(t)' PROVE Attended(t)'
    BY DEF NoTunnelForgotten
  <2>1. CASE t = n
    BY <1>5, <2>1 DEF Attended
  <2>2. CASE t # n
    <3>1. t \in Created
      BY <1>4, <2>2 DEF Registered
    <3>2. rule[t] \in Rules
      BY <1>1, <3>1 DEF Created, TypeOK
    <3>3. tunnels[rule[t]] = t
      BY <1>4, <1>6, <2>2, <3>1, <3>2 DEF Registered
    <3>4. Registered(t) /\ Attended(t)
      BY <3>1, <3>3 DEF Inv, NoTunnelForgotten, Registered
    <3> QED
      BY <1>3, <1>4, <1>5, <2>2, <3>1, <3>4 DEF Attended, LoopCares, DropPending
  <2> QED
    BY <2>1, <2>2
<1> QED
  BY <1>7, <1>8, <1>9, <1>10, <1>11, <1>12 DEF Inv

(* start() resumes after open(): it watches the connection and ends.       *)
LEMMA StartOpenedKeepsInv ==
  ASSUME Inv, TypeOK', NEW t \in Tunnels, StartOpened(t)
  PROVE  Inv'
<1> USE PortForwardAssumption DEF netVars, mapVars, objVars, actVars
<1> DEFINE h == Host(t)
           c == starting[t].via
<1>1. /\ TypeOK /\ None \notin live
      /\ starting[t].phase = "open" /\ c # None
      /\ t \in Created /\ h \in Hosts
  <2>1. TypeOK /\ None \notin live /\ starting[t].phase = "open" /\ c # None
    BY DEF Inv, StartOpened, StartsOK, TypeOK
  <2>2. t \in Created
    BY <2>1 DEF Inv, ObjectsOK
  <2> QED
    BY <2>1, <2>2 DEF Created, Host, TypeOK
<1>2. /\ UNCHANGED <<clients, live, used, tunnels, acquiring, rule, stopping, link, loops>>
      /\ Created' = Created
      /\ \A u \in Tunnels : Registered(u)' = Registered(u)
      /\ \A g \in Hosts : ~DropPending(g)
  BY DEF StartOpened, Created, Registered, Settled
<1>3. /\ watchers'[h] = c /\ \A g \in Hosts \ {h} : watchers'[g] = watchers[g]
      /\ starting'[t] = Ended /\ \A u \in Tunnels \ {t} : starting'[u] = starting[u]
      /\ Ended.phase = "done" /\ Ended.via = None
  BY <1>1 DEF StartOpened, Watch, TypeOK, Ended
<1>4. ObjectsOK'
  <2>1. ASSUME NEW u \in Tunnels, u \notin Created
        PROVE  starting'[u].phase = "none" /\ starting'[u].via = None /\ link'[u] = None
    BY <1>1, <1>2, <1>3, <2>1 DEF Inv, ObjectsOK
  <2> QED
    BY <1>2, <2>1 DEF Inv, ObjectsOK
<1>5. LoopsOK'
  BY <1>2 DEF Inv, LoopsOK, HasTransport, Host
<1>6. ReferencesOK'
  <2>1. c \in used \cup {None}
    BY DEF Inv, ReferencesOK
  <2> QED
    BY <1>1, <1>2, <1>3, <2>1 DEF Inv, ReferencesOK
<1>7. OneClientPerHost'
  <2>1. c \in live => c = clients[h]
    BY <1>1 DEF Inv, OneClientPerHost
  <2>2. \A g \in Hosts : watchers'[g] \in live => watchers'[g] = clients[g]
    BY <1>3, <2>1 DEF Inv, OneClientPerHost
  <2>3. ASSUME NEW u \in Created
        PROVE  starting'[u].via \in live => starting'[u].via = clients[Host(u)]
    BY <1>1, <1>3 DEF Inv, OneClientPerHost, Created
  <2> QED
    BY <1>2, <2>2, <2>3 DEF Inv, OneClientPerHost, Host
<1>8. StartsOK'
  <2>1. ASSUME NEW u \in Tunnels
        PROVE  /\ starting'[u].phase = "open" => starting'[u].via # None
               /\ starting'[u].phase = "open" /\ starting'[u].via \in live =>
                    /\ link[u] = starting'[u].via
                    /\ \A l \in Loops : u \in loops[l].affected /\ HasTransport(l)
                                          => loops[l].via = starting'[u].via
               /\ starting'[u].phase = "acquire" =>
                    /\ Host(u) \in acquiring
                    /\ \A l \in Loops : u \in loops[l].affected => ~HasTransport(l)
    BY <1>3 DEF Inv, StartsOK
  <2> QED
    BY <1>2, <2>1 DEF StartsOK, HasTransport, Host
<1>9. NoTunnelForgotten'
  <2> SUFFICES ASSUME NEW u \in Tunnels, Registered(u)' PROVE Attended(u)'
    BY DEF NoTunnelForgotten
  <2>1. Registered(u) /\ Attended(u) /\ Host(u)' = Host(u) /\ Host(u) \in Hosts /\ u \in Created
    BY <1>1, <1>2 DEF Inv, NoTunnelForgotten, Registered, Created, Host, TypeOK
  <2>2. CASE Host(u) = h /\ c \notin live
    <3>1. DropPending(Host(u))'
      BY <1>1, <1>2, <1>3, <2>1, <2>2 DEF DropPending
    <3> QED
      BY <3>1 DEF Attended
  <2>3. CASE u = t /\ c \in live
    <3>1. link[t] = c
      BY <1>1, <2>3 DEF Inv, StartsOK
    <3> QED
      BY <1>2, <1>3, <2>1, <2>3, <3>1 DEF Attended
  <2>4. CASE u # t /\ Host(u) = h /\ c \in live
    <3>1. link[u] \in live => link[u] = c
      <4>1. link[u] \in live => link[u] = clients[h]
        BY <2>1, <2>4 DEF Inv, OneClientPerHost
      <4>2. c = clients[h]
        BY <1>1, <2>4 DEF Inv, OneClientPerHost
      <4> QED
        BY <4>1, <4>2
    <3> QED
      BY <1>2, <1>3, <2>1, <2>4, <3>1 DEF Attended, LoopCares
  <2>5. CASE u # t /\ Host(u) # h
    BY <1>2, <1>3, <2>1, <2>5 DEF Attended, LoopCares, DropPending
  <2> QED
    BY <2>2, <2>3, <2>4, <2>5
<1> QED
  BY <1>4, <1>5, <1>6, <1>7, <1>8, <1>9 DEF Inv

(* Steps in which a start() goes on to its end and a loop to its next try. *)
Pending(t) == starting[t].phase \in {"acquire", "open"}

GivesUp ==
  /\ UNCHANGED <<clients, live, used, watchers, rule, stopping, link>>
  /\ \A r \in Rules : tunnels'[r] \in {tunnels[r], None}
  /\ acquiring' \subseteq acquiring
  /\ \A t \in Tunnels :
       \/ starting'[t] = starting[t]
       \/ /\ t \in Created /\ starting'[t].phase \in {"dispose", "done"}
          /\ starting'[t].via \in {starting[t].via, None}
          /\ Pending(t) => ~Registered(t)'
  /\ \A t \in Tunnels : starting'[t].phase = "acquire" => Host(t) \in acquiring'
  /\ \A l \in Loops :
       \/ loops'[l] = loops[l]
       \/ /\ loops[l].phase = "acquire" /\ loops'[l].phase = "delay"
          /\ loops'[l].host = loops[l].host /\ loops'[l].via = loops[l].via
          /\ loops'[l].affected = loops[l].affected /\ loops'[l].todo = loops[l].todo

(* An activation gives up: its tunnel leaves the map, unless replaced.     *)
LEMMA GivingUpKeepsInv ==
  ASSUME Inv, TypeOK', GivesUp
  PROVE  Inv'
<1> USE PortForwardAssumption DEF GivesUp
<1>1. TypeOK /\ None \notin live /\ Created' = Created
  BY DEF Inv, TypeOK, Created
<1>2. ObjectsOK'
  <2>1. ASSUME NEW t \in Tunnels, t \notin Created
        PROVE  starting'[t].phase = "none" /\ starting'[t].via = None /\ link'[t] = None
    BY <2>1 DEF Inv, ObjectsOK
  <2>2. ASSUME NEW r \in Rules, tunnels'[r] # None
        PROVE  rule'[tunnels'[r]] = r /\ tunnels'[r] \notin stopping'
    BY <2>2 DEF Inv, ObjectsOK
  <2>3. stopping' \subseteq Created'
    BY <1>1 DEF Inv, ObjectsOK
  <2> QED
    BY <1>1, <2>1, <2>2, <2>3 DEF ObjectsOK
<1>3. LoopsOK'
  <2>1. ASSUME NEW k \in Loops
        PROVE  /\ loops'[k].affected \subseteq Created
               /\ loops'[k].todo \subseteq loops'[k].affected
               /\ \A t \in loops'[k].affected : Host(t) = loops'[k].host
               /\ HasTransport(k)' => loops'[k].via # None
    BY DEF Inv, LoopsOK, HasTransport
  <2> QED
    BY <1>1, <2>1 DEF LoopsOK, Host
<1>4. ReferencesOK'
  BY DEF Inv, ReferencesOK
<1>5. OneClientPerHost'
  <2>1. ASSUME NEW t \in Created
        PROVE  starting'[t].via \in live => starting'[t].via = clients[Host(t)]
    BY <1>1 DEF Inv, OneClientPerHost, Created
  <2>2. ASSUME NEW l \in Loops
        PROVE  loops'[l].via \in live => loops'[l].via = clients[loops'[l].host]
    BY DEF Inv, OneClientPerHost
  <2> QED
    BY <1>1, <2>1, <2>2 DEF Inv, OneClientPerHost, Host
<1>6. StartsOK'
  <2>1. ASSUME NEW t \in Tunnels
        PROVE  /\ starting'[t].phase = "open" => starting'[t].via # None
               /\ starting'[t].phase = "open" /\ starting'[t].via \in live =>
                    /\ link[t] = starting'[t].via
                    /\ \A l \in Loops : t \in loops'[l].affected /\ HasTransport(l)'
                                          => loops'[l].via = starting'[t].via
               /\ starting'[t].phase = "acquire" =>
                    /\ Host(t) \in acquiring'
                    /\ \A l \in Loops : t \in loops'[l].affected => ~HasTransport(l)'
    BY DEF Inv, StartsOK, HasTransport
  <2> QED
    BY <2>1 DEF StartsOK, Host
<1>7. NoTunnelForgotten'
  <2> SUFFICES ASSUME NEW t \in Tunnels, Registered(t)' PROVE Attended(t)'
    BY DEF NoTunnelForgotten
  <2>1. Registered(t)
    BY <1>1 DEF Registered, TypeOK, Created
  <2>2. Attended(t)
    BY <2>1 DEF Inv, NoTunnelForgotten
  <2>3. CASE starting[t].phase \in {"acquire", "open"}
    BY <2>3 DEF Attended, Pending
  <2>4. CASE \E l \in Loops : loops[l].host = Host(t) /\ LoopCares(l, t)
    <3>1. PICK l \in Loops : loops[l].host = Host(t) /\ LoopCares(l, t)
      BY <2>4
    <3>2. loops'[l].host = Host(t)' /\ LoopCares(l, t)'
      BY <3>1 DEF Inv, LoopsOK, LoopCares, Host
    <3> QED
      BY <3>2 DEF Attended
  <2>5. CASE /\ starting[t].phase \notin {"acquire", "open"}
             /\ ~ \E l \in Loops : loops[l].host = Host(t) /\ LoopCares(l, t)
    BY <2>2, <2>5 DEF Attended, DropPending, Host
  <2> QED
    BY <2>3, <2>4, <2>5
<1> QED
  BY <1>2, <1>3, <1>4, <1>5, <1>6, <1>7 DEF Inv

(* The two other ends of start(): open() threw, or disposal finished.      *)
LEMMA StartEndsKeepInv ==
  ASSUME Inv, TypeOK', NEW t \in Tunnels, StartFailed(t) \/ StartDisposed(t)
  PROVE  Inv'
<1> USE PortForwardAssumption DEF netVars, mapVars, objVars, actVars
<1>1. /\ TypeOK /\ starting[t] \in Activation
      /\ t \in Created
      /\ \A u \in Tunnels : starting[u].phase = "acquire" => Host(u) \in acquiring
  BY DEF Inv, TypeOK, ObjectsOK, StartsOK, StartFailed, StartDisposed
<1>2. CASE StartFailed(t)
  <2>1. /\ starting'[t].phase = "dispose" /\ starting'[t].via = starting[t].via
        /\ \A u \in Tunnels \ {t} : starting'[u] = starting[u]
    <3>1. /\ starting'[t] = [starting[t] EXCEPT !.phase = "dispose"]
          /\ \A u \in Tunnels \ {t} : starting'[u] = starting[u]
      BY <1>1, <1>2 DEF StartFailed, StartGoesTo, TypeOK
    <3> QED
      BY <1>1, <3>1 DEF Activation
  <2>2. /\ \A r \in Rules : tunnels'[r] \in {tunnels[r], None}
        /\ ~Registered(t)'
    <3>1. rule[t] \in Rules /\ t # None
      BY <1>1 DEF Created, TypeOK
    <3> QED
      BY <1>1, <1>2, <3>1 DEF StartFailed, Registered, TypeOK
  <2>3. GivesUp
    BY <1>1, <1>2, <2>1, <2>2 DEF GivesUp, StartFailed
  <2> QED
    BY <2>3, GivingUpKeepsInv
<1>3. CASE StartDisposed(t)
  <2>1. /\ starting'[t].phase = "done" /\ starting'[t].via = None
        /\ \A u \in Tunnels \ {t} : starting'[u] = starting[u]
        /\ ~Pending(t)
    BY <1>1, <1>3 DEF StartDisposed, TypeOK, Ended, Pending
  <2>2. GivesUp
    BY <1>1, <1>3, <2>1 DEF GivesUp, StartDisposed
  <2> QED
    BY <2>2, GivingUpKeepsInv
<1> QED
  BY <1>2, <1>3

(* A dial fails for everyone who awaits it, starts and loops alike.        *)
LEMMA DialFailedKeepsInv ==
  ASSUME Inv, TypeOK', NEW h \in Hosts, DialFailed(h)
  PROVE  Inv'
<1> USE PortForwardAssumption DEF netVars, mapVars, objVars, actVars
<1>1. /\ TypeOK
      /\ \A t \in Tunnels : AwaitsDial(t, h) => t \in Created
      /\ \A t \in Tunnels : starting[t].phase = "acquire" => Host(t) \in acquiring
  BY DEF Inv, ObjectsOK, StartsOK, AwaitsDial
<1>2. \A r \in Rules :
        tunnels'[r] = IF \E t \in Created : rule[t] = r /\ AwaitsDial(t, h)
                      THEN None ELSE tunnels[r]
  BY DEF DialFailed
<1>3. \A t \in Tunnels :
        IF AwaitsDial(t, h)
        THEN starting'[t].phase = "dispose" /\ starting'[t].via = starting[t].via
        ELSE starting'[t] = starting[t]
  <2> SUFFICES ASSUME NEW t \in Tunnels
               PROVE  IF AwaitsDial(t, h)
                      THEN starting'[t].phase = "dispose" /\ starting'[t].via = starting[t].via
                      ELSE starting'[t] = starting[t]
    OBVIOUS
  <2>1. starting[t] \in Activation
    BY <1>1 DEF TypeOK
  <2>2. starting'[t] = IF AwaitsDial(t, h) THEN [starting[t] EXCEPT !.phase = "dispose"]
                                           ELSE starting[t]
    BY DEF DialFailed
  <2> QED
    BY <2>1, <2>2 DEF Activation
<1>4. \A t \in Tunnels : AwaitsDial(t, h) => ~Registered(t)'
  <2> SUFFICES ASSUME NEW t \in Tunnels, AwaitsDial(t, h) PROVE ~Registered(t)'
    OBVIOUS
  <2>1. t \in Created /\ rule[t] \in Rules /\ rule'[t] = rule[t]
    BY <1>1 DEF Created, TypeOK, DialFailed
  <2>2. tunnels'[rule[t]] = None
    BY <1>2, <2>1
  <2> QED
    BY <2>1, <2>2 DEF Registered
<1>5. \A l \in Loops :
        \/ loops'[l] = loops[l]
        \/ /\ loops[l].phase = "acquire" /\ loops'[l].phase = "delay"
           /\ loops'[l].host = loops[l].host /\ loops'[l].via = loops[l].via
           /\ loops'[l].affected = loops[l].affected /\ loops'[l].todo = loops[l].todo
  <2> SUFFICES ASSUME NEW l \in Loops, loops'[l] # loops[l]
               PROVE  /\ loops[l].phase = "acquire" /\ loops'[l].phase = "delay"
                      /\ loops'[l].host = loops[l].host /\ loops'[l].via = loops[l].via
                      /\ loops'[l].affected = loops[l].affected
                      /\ loops'[l].todo = loops[l].todo
    OBVIOUS
  <2>1. loops[l] \in Loop
    BY <1>1, LoopTyped
  <2>2. loops[l].phase = "acquire" /\ loops'[l] = [loops[l] EXCEPT !.phase = "delay"]
    BY DEF DialFailed, RetryLater
  <2> QED
    BY <2>1, <2>2 DEF Loop
<1>6. \A t \in Tunnels : starting'[t].phase = "acquire" => Host(t) \in acquiring'
  BY <1>1, <1>3 DEF DialFailed, AwaitsDial
<1>7. GivesUp
  BY <1>1, <1>2, <1>3, <1>4, <1>5, <1>6 DEF GivesUp, DialFailed
<1> QED
  BY <1>7, GivingUpKeepsInv

(* A connection drops while starts and loops hold it.                      *)
LEMMA DropKeepsInv ==
  ASSUME Inv, TypeOK', NEW c \in Transports, Drop(c)
  PROVE  Inv'
<1> USE PortForwardAssumption DEF netVars, mapVars, objVars, actVars
<1>1. /\ TypeOK /\ live' = live \ {c} /\ Created' = Created
      /\ UNCHANGED <<clients, used, tunnels, watchers, acquiring, rule, stopping, link,
                     starting, loops>>
      /\ \A h \in Hosts : ~DropPending(h)
      /\ \A t \in Tunnels : Registered(t)' = Registered(t) /\ Host(t)' = Host(t)
  BY DEF Inv, Drop, Settled, Created, Registered, Host
<1>2. ObjectsOK'
  BY <1>1 DEF Inv, ObjectsOK
<1>3. LoopsOK'
  BY <1>1 DEF Inv, LoopsOK, HasTransport, Host
<1>4. ReferencesOK'
  BY <1>1 DEF Inv, ReferencesOK
<1>5. OneClientPerHost'
  BY <1>1 DEF Inv, OneClientPerHost, Host
<1>6. StartsOK'
  BY <1>1 DEF Inv, StartsOK, HasTransport
<1>7. NoTunnelForgotten'
  <2> SUFFICES ASSUME NEW t \in Tunnels, Registered(t)' PROVE Attended(t)'
    BY DEF NoTunnelForgotten
  <2>1. Registered(t) /\ Attended(t) /\ Host(t) \in Hosts
    BY <1>1 DEF Inv, NoTunnelForgotten, Registered, Created, Host, TypeOK
  <2>2. CASE link[t] \in live /\ watchers[Host(t)] = link[t] /\ link[t] = c
    BY <1>1, <2>1, <2>2 DEF Attended, DropPending
  <2>3. CASE ~(link[t] \in live /\ watchers[Host(t)] = link[t] /\ link[t] = c)
    BY <1>1, <2>1, <2>3 DEF Attended, LoopCares
  <2> QED
    BY <2>2, <2>3
<1> QED
  BY <1>2, <1>3, <1>4, <1>5, <1>6, <1>7 DEF Inv

(* A dial succeeds: the host gets its client and a watcher for it.         *)
LEMMA DialOkKeepsInv ==
  ASSUME Inv, TypeOK', NEW h \in Hosts, DialOk(h)
  PROVE  Inv'
<1> USE PortForwardAssumption DEF netVars, mapVars, objVars, actVars
<1> DEFINE c == Fresh(Transports \ used)
           Joined(l) == loops[l].phase = "acquire" /\ loops[l].host = h
<1>1. c \in Transports \ used
  <2>1. Transports \ used # {}
    BY DEF DialOk, Inv, TypeOK
  <2> QED
    BY <2>1, FreshIsMember
<1> HIDE DEF c
<1>2. /\ TypeOK /\ c # None /\ c \notin live /\ Created' = Created
      /\ h \in acquiring /\ clients[h] \notin live
      /\ UNCHANGED <<tunnels, watchers, rule, stopping>>
      /\ acquiring' = acquiring \ {h} /\ used' = used \cup {c} /\ live' = live \cup {c}
      /\ \A g \in Hosts : ~DropPending(g)
      /\ \A t \in Tunnels : Registered(t)' = Registered(t) /\ Host(t)' = Host(t)
  BY <1>1 DEF Inv, DialOk, Settled, Created, Registered, Host, OneClientPerHost, TypeOK, c
<1>3. /\ clients'[h] = c /\ \A g \in Hosts \ {h} : clients'[g] = clients[g]
      /\ \A g \in Hosts : clients[g] # c /\ watchers[g] # c
      /\ \A t \in Tunnels : link[t] # c /\ starting[t].via # c
      /\ \A l \in Loops : loops[l].via # c
  <2>1. clients' = [clients EXCEPT ![h] = c]
    BY DEF DialOk, c
  <2>2. clients'[h] = c /\ \A g \in Hosts \ {h} : clients'[g] = clients[g]
    BY <1>2, <2>1 DEF TypeOK
  <2>3. ReferencesOK /\ c \notin used \cup {None}
    BY <1>1, <1>2 DEF Inv
  <2>4. \A g \in Hosts : clients[g] # c /\ watchers[g] # c
    BY <2>3 DEF ReferencesOK
  <2>5. \A t \in Tunnels : link[t] # c /\ starting[t].via # c
    BY <2>3 DEF ReferencesOK
  <2>6. \A l \in Loops : loops[l].via # c
    BY <2>3 DEF ReferencesOK
  <2> QED
    BY <2>2, <2>4, <2>5, <2>6
<1>4. \A t \in Tunnels :
        IF AwaitsDial(t, h)
        THEN /\ link'[t] = c /\ starting'[t].phase = "open" /\ starting'[t].via = c
             /\ t \in Created /\ Host(t) = h /\ starting[t].phase = "acquire"
        ELSE link'[t] = link[t] /\ starting'[t] = starting[t]
  BY DEF Inv, ObjectsOK, AwaitsDial, DialOk, c
<1>5. \A l \in Loops :
        IF Joined(l)
        THEN /\ loops'[l].phase = "reopen" /\ loops'[l].via = c /\ loops'[l].host = h
             /\ loops'[l].affected = loops[l].affected /\ loops'[l].todo = loops[l].todo
        ELSE loops'[l] = loops[l]
  <2> SUFFICES ASSUME NEW l \in Loops
               PROVE  IF Joined(l)
                      THEN /\ loops'[l].phase = "reopen" /\ loops'[l].via = c
                           /\ loops'[l].host = h
                           /\ loops'[l].affected = loops[l].affected
                           /\ loops'[l].todo = loops[l].todo
                      ELSE loops'[l] = loops[l]
    OBVIOUS
  <2>1. loops[l] \in Loop
    BY <1>2, LoopTyped
  <2>2. loops'[l] = IF Joined(l) THEN [loops[l] EXCEPT !.phase = "reopen", !.via = c]
                                 ELSE loops[l]
    BY DEF DialOk, c
  <2> HIDE DEF Joined
  <2>3. CASE Joined(l)
    <3>1. loops[l].host = h
      BY <2>3 DEF Joined
    <3> QED
      BY <2>1, <2>2, <2>3, <3>1 DEF Loop
  <2> QED
    BY <2>2, <2>3
<1>6. ObjectsOK'
  BY <1>2, <1>4 DEF Inv, ObjectsOK
<1>7. LoopsOK'
  <2>1. ASSUME NEW k \in Loops
        PROVE  /\ loops'[k].affected \subseteq Created
               /\ loops'[k].todo \subseteq loops'[k].affected
               /\ \A t \in loops'[k].affected : Host(t) = loops'[k].host
               /\ HasTransport(k)' => loops'[k].via # None
    BY <1>2, <1>5 DEF Inv, LoopsOK, HasTransport
  <2> QED
    BY <1>2, <2>1 DEF LoopsOK, Created
<1>8. ReferencesOK'
  <2>1. \A g \in Hosts : {clients'[g], watchers'[g]} \subseteq used' \cup {None}
    BY <1>2, <1>3 DEF Inv, ReferencesOK
  <2>2. \A t \in Tunnels : {link'[t], starting'[t].via} \subseteq used' \cup {None}
    BY <1>2, <1>4 DEF Inv, ReferencesOK
  <2>3. \A l \in Loops : loops'[l].via \in used' \cup {None}
    BY <1>2, <1>5 DEF Inv, ReferencesOK
  <2> QED
    BY <2>1, <2>2, <2>3 DEF ReferencesOK
<1>9. OneClientPerHost'
  <2>1. \A g \in acquiring' : clients'[g] \notin live'
    BY <1>2, <1>3 DEF Inv, OneClientPerHost, TypeOK
  <2>2. \A g \in Hosts : watchers'[g] \in live' => watchers'[g] = clients'[g]
    BY <1>2, <1>3 DEF Inv, OneClientPerHost
  <2>3. ASSUME NEW t \in Created
        PROVE  /\ link'[t] \in live' => link'[t] = clients'[Host(t)]
               /\ starting'[t].via \in live' => starting'[t].via = clients'[Host(t)]
    <3>1. t \in Tunnels /\ Host(t) \in Hosts
      BY <1>2 DEF Created, Host, TypeOK
    <3>2. CASE AwaitsDial(t, h)
      BY <1>3, <1>4, <3>1, <3>2
    <3>3. CASE ~AwaitsDial(t, h)
      BY <1>2, <1>3, <1>4, <3>1, <3>3 DEF Inv, OneClientPerHost
    <3> QED
      BY <3>2, <3>3
  <2>4. ASSUME NEW l \in Loops
        PROVE  loops'[l].via \in live' => loops'[l].via = clients'[loops'[l].host]
    <3>1. CASE Joined(l)
      BY <1>3, <1>5, <3>1
    <3>2. CASE ~Joined(l) /\ loops[l].host \in Hosts
      BY <1>2, <1>3, <1>5, <3>2 DEF Inv, OneClientPerHost
    <3>3. CASE ~Joined(l) /\ loops[l].host \notin Hosts
      <4>1. clients' = [clients EXCEPT ![h] = c]
        BY DEF DialOk, c
      <4>2. loops[l].via \in live => loops[l].via = clients[loops[l].host]
        BY DEF Inv, OneClientPerHost
      <4>3. loops[l].host = None \/ loops[l].host \in Hosts
        BY <1>2 DEF TypeOK, Loop
      <4> QED
        BY <1>2, <1>3, <1>5, <3>3, <4>1, <4>2, <4>3 DEF TypeOK
    <3> QED
      BY <3>1, <3>2, <3>3
  <2>5. ASSUME NEW d \in live' PROVE \E g \in Hosts : clients'[g] = d
    <3>1. CASE d = c
      BY <1>3, <3>1
    <3>2. CASE d \in live
      <4>1. PICK g \in Hosts : clients[g] = d
        BY <3>2 DEF Inv, OneClientPerHost
      <4>2. g # h
        BY <1>2, <3>2, <4>1
      <4> QED
        BY <1>3, <4>1, <4>2
    <3> QED
      BY <1>2, <3>1, <3>2
  <2> QED
    BY <1>2, <2>1, <2>2, <2>3, <2>4, <2>5 DEF OneClientPerHost, Created
<1>10. StartsOK'
  <2>1. ASSUME NEW t \in Tunnels
        PROVE  /\ starting'[t].phase = "open" => starting'[t].via # None
               /\ starting'[t].phase = "open" /\ starting'[t].via \in live' =>
                    /\ link'[t] = starting'[t].via
                    /\ \A l \in Loops : t \in loops'[l].affected /\ HasTransport(l)'
                                          => loops'[l].via = starting'[t].via
               /\ starting'[t].phase = "acquire" =>
                    /\ Host(t) \in acquiring'
                    /\ \A l \in Loops : t \in loops'[l].affected => ~HasTransport(l)'
    <3>1. \A l \in Loops : t \in loops[l].affected => loops[l].host = Host(t) /\ t \in Created
      BY DEF Inv, LoopsOK
    <3>2. CASE AwaitsDial(t, h)
      <4>1. /\ link'[t] = c /\ starting'[t].phase = "open" /\ starting'[t].via = c
            /\ starting[t].phase = "acquire"
        BY <1>4, <3>2
      <4>2. \A l \in Loops : t \in loops[l].affected => ~HasTransport(l)
        BY <4>1 DEF Inv, StartsOK
      <4> QED
        BY <1>2, <1>5, <4>1, <4>2 DEF HasTransport
    <3>3. CASE ~AwaitsDial(t, h)
      <4>1. link'[t] = link[t] /\ starting'[t] = starting[t]
        BY <1>4, <3>3
      <4>2. starting[t].phase = "acquire" => Host(t) # h
        BY <3>3 DEF AwaitsDial
      <4>3. \A l \in Loops : Joined(l) /\ t \in loops[l].affected
               => Host(t) = h /\ starting[t].via \notin live
        BY <1>2, <3>1 DEF Inv, OneClientPerHost
      <4> QED
        BY <1>2, <1>3, <1>5, <4>1, <4>2, <4>3 DEF Inv, StartsOK, HasTransport
    <3> QED
      BY <3>2, <3>3
  <2> QED
    BY <1>2, <2>1 DEF StartsOK
<1>11. NoTunnelForgotten'
  <2> SUFFICES ASSUME NEW t \in Tunnels, Registered(t)' PROVE Attended(t)'
    BY DEF NoTunnelForgotten
  <2>1. Registered(t) /\ Attended(t) /\ Host(t) \in Hosts /\ Host(t)' = Host(t)
    BY <1>2 DEF Inv, NoTunnelForgotten, Registered, Created, Host, TypeOK
  <2>2. CASE AwaitsDial(t, h)
    BY <1>4, <2>2 DEF Attended
  <2>3. CASE ~AwaitsDial(t, h) /\ \E l \in Loops : loops[l].host = Host(t) /\ LoopCares(l, t)
    <3>1. PICK l \in Loops : loops[l].host = Host(t) /\ LoopCares(l, t)
      BY <2>3
    <3>2. loops'[l].host = Host(t) /\ LoopCares(l, t)'
      BY <1>4, <1>5, <2>3, <3>1 DEF LoopCares
    <3> QED
      BY <2>1, <3>2 DEF Attended
  <2>4. CASE /\ ~AwaitsDial(t, h)
             /\ ~ \E l \in Loops : loops[l].host = Host(t) /\ LoopCares(l, t)
    BY <1>2, <1>4, <2>1, <2>4 DEF Attended
  <2> QED
    BY <2>2, <2>3, <2>4
<1> QED
  BY <1>6, <1>7, <1>8, <1>9, <1>10, <1>11 DEF Inv

(* The steps of a user and of stop(), which only unregister tunnels.       *)
LEMMA StopsKeepInv ==
  ASSUME Inv, TypeOK',
         \/ \E r \in Rules : StartUnknownHost(r) \/ Stop(r)
         \/ \E h \in Hosts : HostDeleted(h) \/ StopNextOfHost(h)
         \/ \E t \in Tunnels : StopDisposed(t)
         \/ UNCHANGED vars
  PROVE  Inv'
<1> USE PortForwardAssumption DEF netVars, mapVars, objVars, actVars
<1>1. TypeOK /\ stopping \subseteq Created
  BY DEF Inv, ObjectsOK
<1>2. UNCHANGED <<clients, live, used, watchers, acquiring, rule, link, starting, loops>>
  BY DEF StartUnknownHost, Stop, HostDeleted, StopNextOfHost, StopDisposed, vars
<1>3. CASE tunnels' = tunnels /\ stopping' = stopping
  BY <1>1, <1>2, <1>3, UnregisterKeepsInv
<1>4. ASSUME NEW r \in Rules, BeginStop(r) PROVE Inv'
  <2>1. \A q \in Rules : tunnels'[q] = IF q = r THEN None ELSE tunnels[q]
    BY <1>1, <1>4 DEF BeginStop, TypeOK
  <2>2. stopping' = stopping \cup ({tunnels[r]} \ {None})
    BY <1>4 DEF BeginStop
  <2>3. tunnels[r] # None => tunnels[r] \in Created /\ rule[tunnels[r]] = r
    BY <1>1 DEF Inv, ObjectsOK, TypeOK, Created
  <2>4. stopping' \subseteq Created
    BY <1>1, <2>2, <2>3
  <2>5. ASSUME NEW q \in Rules, tunnels'[q] \in stopping'
        PROVE  tunnels'[q] \in stopping
    <3>1. q # r /\ tunnels'[q] = tunnels[q] /\ tunnels[q] # None
      BY <1>1, <2>1, <2>4, <2>5 DEF Created, TypeOK
    <3>2. rule[tunnels[q]] = q
      BY <3>1 DEF Inv, ObjectsOK
    <3> QED
      BY <2>2, <2>3, <2>5, <3>1, <3>2
  <2> QED
    BY <1>2, <2>1, <2>4, <2>5, UnregisterKeepsInv
<1>5. CASE \E r \in Rules : StartUnknownHost(r)
  BY <1>3, <1>5 DEF StartUnknownHost
<1>6. CASE \E r \in Rules : Stop(r)
  BY <1>4, <1>6 DEF Stop
<1>7. CASE \E h \in Hosts : HostDeleted(h)
  BY <1>3, <1>7 DEF HostDeleted
<1>8. CASE \E h \in Hosts : StopNextOfHost(h)
  <2>1. PICK h \in Hosts : \E r \in teardown[h] : BeginStop(r)
    BY <1>8 DEF StopNextOfHost
  <2>2. teardown[h] \subseteq Rules
    BY <1>1 DEF TypeOK
  <2> QED
    BY <1>4, <2>1, <2>2
<1>9. CASE \E t \in Tunnels : StopDisposed(t)
  BY <1>3, <1>9 DEF StopDisposed
<1>10. CASE UNCHANGED vars
  BY <1>3, <1>10 DEF vars
<1> QED
  BY <1>5, <1>6, <1>7, <1>8, <1>9, <1>10

(* Nothing is registered, dialled or connected at first.                   *)
LEMMA InitInv == Init => Inv
<1> SUFFICES ASSUME Init PROVE Inv
  OBVIOUS
<1> USE PortForwardAssumption
<1>1. TypeOK
  BY InitTyped
<1>2. Created = {} /\ \A t \in Tunnels : ~Registered(t)
  BY DEF Init, Created, Registered
<1>3. ObjectsOK
  BY <1>2 DEF Init, ObjectsOK
<1>4. \A l \in Loops : /\ loops[l].affected = {} /\ loops[l].todo = {}
                       /\ loops[l].via = None /\ ~HasTransport(l)
  BY DEF Init, IdleLoop, HasTransport
<1>5. LoopsOK
  BY <1>4 DEF LoopsOK
<1>6. ReferencesOK
  BY <1>4 DEF Init, ReferencesOK
<1>7. OneClientPerHost
  BY <1>2, <1>4 DEF Init, OneClientPerHost
<1>8. StartsOK
  BY DEF Init, StartsOK
<1>9. NoTunnelForgotten
  BY <1>2 DEF NoTunnelForgotten
<1> QED
  BY <1>1, <1>3, <1>5, <1>6, <1>7, <1>8, <1>9 DEF Inv

(* Every step keeps Inv when only the service itself connects hosts.       *)
LEMMA InvStep ==
  ASSUME MaxForeign = 0, Inv, [Next]_vars
  PROVE  Inv'
<1>1. TypeOK'
  BY TypeStep DEF Inv
<1>2. \A h \in Hosts : ~ForeignConnect(h)
  BY DEF ForeignConnect, Inv, TypeOK
<1>3. CASE \E r \in Rules : StartUnknownHost(r) \/ Stop(r)
  BY <1>1, <1>3, StopsKeepInv
<1>4. CASE \E r \in Rules : Start(r)
  BY <1>1, <1>4, StartKeepsInv
<1>5. CASE \E h \in Hosts : HostDeleted(h) \/ StopNextOfHost(h)
  BY <1>1, <1>5, StopsKeepInv
<1>6. CASE \E c \in Transports : Drop(c)
  BY <1>1, <1>6, DropKeepsInv
<1>7. CASE \E h \in Hosts : DialOk(h)
  BY <1>1, <1>7, DialOkKeepsInv
<1>8. CASE \E h \in Hosts : DialFailed(h)
  BY <1>1, <1>8, DialFailedKeepsInv
<1>9. CASE \E t \in Tunnels : StartOpened(t)
  BY <1>1, <1>9, StartOpenedKeepsInv
<1>10. CASE \E t \in Tunnels : StartFailed(t) \/ StartDisposed(t)
  BY <1>1, <1>10, StartEndsKeepInv
<1>11. CASE \E t \in Tunnels : StopDisposed(t)
  BY <1>1, <1>11, StopsKeepInv
<1>12. CASE \E h \in Hosts : OnDropped(h)
  BY <1>1, <1>12, OnDroppedKeepsInv
<1>13. CASE \E l \in Loops : LoopWake(l)
  BY <1>1, <1>13, LoopWakeKeepsInv
<1>14. CASE \E l \in Loops : LoopDone(l)
  BY <1>1, <1>14, LoopDoneKeepsInv
<1>15. CASE \E l \in Loops : \/ LoopClose(l) \/ LoopSkip(l) \/ LoopRelink(l)
                             \/ LoopOpen(l) \/ LoopOpened(l) \/ LoopOpenFailed(l)
                             \/ LoopDisposed(l)
  BY <1>1, <1>15, LoopMovesKeepInv
<1>16. CASE UNCHANGED vars
  BY <1>1, <1>16, StopsKeepInv
<1> QED
  BY <1>2, <1>3, <1>4, <1>5, <1>6, <1>7, <1>8, <1>9, <1>10, <1>11, <1>12, <1>13,
     <1>14, <1>15, <1>16 DEF Next, User, Network, StartStep, HostStep, LoopStep

(* As long as nobody but the forwards connects to a host, no running       *)
(* tunnel is ever forgotten: start(), stop(), stopForHost() and any number *)
(* of reconnect loops may interleave with drops and dials as they like,    *)
(* and every tunnel in _tunnels is still on a watched live connection or   *)
(* in the hands of the watcher, of a loop or of its own start().           *)
THEOREM TunnelsAttended ==
  ASSUME MaxForeign = 0
  PROVE  Spec => []NoTunnelForgotten
<1>1. Init => Inv
  BY InitInv
<1>2. Inv /\ [Next]_vars => Inv'
  BY InvStep
<1>3. Inv => NoTunnelForgotten
  BY DEF Inv
<1> QED
  BY <1>1, <1>2, <1>3, PTL DEF Spec

(* Under the same condition no client is leaked and the pool never splits: *)
(* the tunnels of a host, its watcher, its loops and ensureClient never    *)
(* hold two live connections, and no dial starts while one is up.          *)
THEOREM OneClient ==
  ASSUME MaxForeign = 0
  PROVE  Spec => []OneClientPerHost
<1>1. Init => Inv
  BY InitInv
<1>2. Inv /\ [Next]_vars => Inv'
  BY InvStep
<1>3. Inv => OneClientPerHost
  BY DEF Inv
<1> QED
  BY <1>1, <1>2, <1>3, PTL DEF Spec
=============================================================================
