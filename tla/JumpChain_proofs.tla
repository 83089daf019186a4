-------------------------- MODULE JumpChain_proofs --------------------------
(***************************************************************************)
(* Theorems about JumpChain, for any hosts, chains, connects and clients:  *)
(* types, no hop leaked, no hop twice, and the pool that HopPool promises. *)
(***************************************************************************)
EXTENDS JumpChain, TLAPS

(* A new client is one that was not used before.                           *)
LEMMA FreshIsNew ==
  ASSUME TypeOK, used # Clients
  PROVE  FreshClient \in Clients \ used
  BY DEF FreshClient, TypeOK

(* The prefix a connect is to reach next is a prefix of its chain.         *)
LEMMA NextPrefix ==
  ASSUME TypeOK, NEW k \in Calls, calls[k].pos <= Len(calls[k].chain)
  PROVE  /\ Prefix(calls[k].chain, calls[k].pos) \in PrefixesOf(calls[k].chain)
         /\ Prefix(calls[k].chain, calls[k].pos) \in Prefixes
<1> DEFINE call == calls[k]
<1>1. call \in Call
  BY DEF TypeOK
<1>2. call.chain \in Chains \cup {<<>>} /\ call.pos \in Nat /\ call.pos >= 1
  BY <1>1 DEF Call
<1>3. call.chain \in Seq(Hosts)
  BY <1>2, JumpChainAssumption DEF Chains
<1>4. call.pos \in 1..Len(call.chain)
  BY <1>2, <1>3
<1>5. Prefix(call.chain, call.pos) \in PrefixesOf(call.chain)
  BY <1>4 DEF PrefixesOf
<1>6. call.chain \in Chains
  BY <1>2, <1>4
<1> QED
  BY <1>5, <1>6 DEF Prefixes

(* The prefixes of the chain of a connect are prefixes.                    *)
LEMMA ChainPrefixes ==
  ASSUME TypeOK, NEW k \in Calls
  PROVE  PrefixesOf(calls[k].chain) \subseteq Prefixes
<1>1. calls[k].chain \in Chains \cup {<<>>}
  BY DEF TypeOK, Call
<1>2. CASE calls[k].chain \in Chains
  BY <1>2 DEF Prefixes
<1>3. CASE calls[k].chain = <<>>
  BY <1>3 DEF PrefixesOf
<1> QED
  BY <1>1, <1>2, <1>3

(* Closing hops leaves a typed cache and closes clients only.              *)
LEMMA CloseHopsTyped ==
  ASSUME TypeOK, NEW S, CloseHops(S)
  PROVE  /\ jumpClients' \in [Prefixes -> Clients \cup {None}]
         /\ live' \subseteq live
  BY DEF CloseHops, TypeOK

(* A connect that is not running is one.                                   *)
LEMMA IdleCallTyped == IdleCall \in Call
  BY DEF IdleCall, Call, Phases

(* A connect that goes on to the next hop of its chain stays typed.        *)
LEMMA CallMovesOn ==
  ASSUME NEW call \in Call, NEW c \in Clients \cup {None}
  PROVE  /\ [call EXCEPT !.prev = c, !.pos = @ + 1] \in Call
         /\ [call EXCEPT !.prev = c, !.pos = @ + 1].phase = call.phase
<1> DEFINE n == call.pos + 1
<1>1. n \in Nat \ {0}
  BY DEF Call
<1> HIDE DEF n
<1>2. [call EXCEPT !.prev = c, !.pos = n] \in Call
      /\ [call EXCEPT !.prev = c, !.pos = n].phase = call.phase
  BY <1>1 DEF Call
<1> QED
  BY <1>2 DEF n

(* A step in which one connect becomes a call that awaits no hop.          *)
LEMMA OneCallTyped ==
  ASSUME TypeOK, NEW k \in Calls, NEW call \in Call,
         calls' = [calls EXCEPT ![k] = call], inflight' = inflight,
         call.phase # "hop"
  PROVE  /\ calls' \in [Calls -> Call]
         /\ \A j \in Calls : calls'[j].phase = "hop"
              => Prefix(calls'[j].chain, calls'[j].pos) \in inflight'
  BY DEF TypeOK

(* Every step of connect(), disconnect(), openTunnelSocket() and of the    *)
(* network keeps the types.                                                *)
LEMMA TypeStep == TypeOK /\ [Next]_vars => TypeOK'
<1> USE JumpChainAssumption DEF svcVars, netVars
<1> SUFFICES ASSUME TypeOK, [Next]_vars PROVE TypeOK'
  OBVIOUS
<1>1. ASSUME NEW k \in Calls, NEW h \in Hosts, NEW ch \in ChainsOf[h],
             Connect(k, h, ch)
      PROVE  TypeOK'
  <2> DEFINE phase == CASE ch = <<>>      -> "target"
                        [] Cyclic(h, ch) -> "failed"
                        [] OTHER         -> "walk"
             call == [IdleCall EXCEPT !.target = h, !.chain = ch, !.phase = phase]
  <2>1. phase \in {"target", "failed", "walk"} /\ ch \in Chains
    BY DEF Chains
  <2>2. calls' = [calls EXCEPT ![k] = call]
    BY <1>1 DEF Connect
  <2> HIDE DEF phase
  <2>3. call \in Call /\ call.phase # "hop"
    BY <2>1, IdleCallTyped DEF Call, Phases
  <2> HIDE DEF call
  <2> QED
    BY <1>1, <2>2, <2>3, OneCallTyped DEF Connect, TypeOK
<1>2. ASSUME NEW k \in Calls, ReuseHop(k) PROVE TypeOK'
  <2> DEFINE call == [calls[k] EXCEPT
                        !.prev = jumpClients[Prefix(calls[k].chain, calls[k].pos)],
                        !.pos  = @ + 1]
  <2>1. jumpClients[Prefix(calls[k].chain, calls[k].pos)] \in Clients \cup {None}
    BY <1>2, NextPrefix DEF ReuseHop, TypeOK
  <2>2. calls[k] \in Call /\ calls[k].phase = "walk"
    BY <1>2 DEF ReuseHop, TypeOK
  <2>3. call \in Call /\ call.phase # "hop"
    BY <2>1, <2>2, CallMovesOn
  <2>4. calls' = [calls EXCEPT ![k] = call]
    BY <1>2, <2>2 DEF ReuseHop, TypeOK
  <2> HIDE DEF call
  <2> QED
    BY <1>2, <2>3, <2>4, OneCallTyped DEF ReuseHop, TypeOK
<1>3. ASSUME NEW k \in Calls, DialHop(k) PROVE TypeOK'
  <2> DEFINE p == Prefix(calls[k].chain, calls[k].pos)
             call == [calls[k] EXCEPT !.phase = "hop"]
  <2>1. p \in Prefixes
    BY <1>3, NextPrefix DEF DialHop
  <2>2. calls[k] \in Call
    BY DEF TypeOK
  <2>3. call \in Call /\ Prefix(call.chain, call.pos) = p
        /\ calls[k].prev \in Clients \cup {None}
    BY <2>2 DEF Call, Phases
  <2>4. /\ inflight' = inflight \cup {p}
        /\ jumpClients' = [jumpClients EXCEPT ![p] = None]
        /\ dialOver' \in {dialOver, [dialOver EXCEPT ![p] = calls[k].prev]}
        /\ calls' = [calls EXCEPT ![k] = call]
        /\ UNCHANGED <<clients, hostToJump, live, used, over, hopOf>>
    BY <1>3 DEF DialHop
  <2> HIDE DEF p, call
  <2>5. dialOver' \in [Prefixes -> Clients \cup {None}]
    BY <2>3, <2>4 DEF TypeOK
  <2>6. calls' \in [Calls -> Call]
    BY <2>3, <2>4 DEF TypeOK
  <2>7. \A j \in Calls : calls'[j].phase = "hop"
              => Prefix(calls'[j].chain, calls'[j].pos) \in inflight'
    BY <2>3, <2>4 DEF TypeOK
  <2> QED
    BY <2>1, <2>4, <2>5, <2>6, <2>7 DEF TypeOK
<1>4. ASSUME NEW k \in Calls, ChainReady(k) PROVE TypeOK'
  <2> DEFINE h == calls[k].target
             keys == PrefixesOf(calls[k].chain)
             call == [calls[k] EXCEPT !.phase = "target"]
  <2>1. call \in Call /\ call.phase # "hop"
    BY DEF TypeOK, Call, Phases
  <2>2. keys \subseteq Prefixes
    BY ChainPrefixes
  <2>3. /\ CloseHops(Dropped(h, keys))
        /\ hostToJump' = [hostToJump EXCEPT ![h] = keys]
        /\ calls' = [calls EXCEPT ![k] = call]
        /\ UNCHANGED <<clients, inflight, used, over, hopOf, dialOver>>
    BY <1>4 DEF ChainReady
  <2> HIDE DEF h, keys, call
  <2>4. hostToJump' \in [Hosts -> SUBSET Prefixes]
    BY <2>2, <2>3 DEF TypeOK
  <2> QED
    BY <2>1, <2>3, <2>4, OneCallTyped, CloseHopsTyped DEF TypeOK
<1>5. ASSUME NEW k \in Calls, ConnectFailed(k) \/ TargetFailed(k) PROVE TypeOK'
  <2> DEFINE h == calls[k].target
  <2>1. PICK S : /\ CloseHops(S)
                 /\ hostToJump' = [hostToJump EXCEPT ![h] = {}]
                 /\ calls' = [calls EXCEPT ![k] = IdleCall]
                 /\ UNCHANGED <<clients, inflight, used, over, hopOf, dialOver>>
    BY <1>5 DEF ConnectFailed, TargetFailed
  <2> HIDE DEF h
  <2>2. hostToJump' \in [Hosts -> SUBSET Prefixes]
    BY <2>1 DEF TypeOK
  <2>3. IdleCall.phase # "hop"
    BY DEF IdleCall
  <2> QED
    BY <2>1, <2>2, <2>3, IdleCallTyped, OneCallTyped, CloseHopsTyped DEF TypeOK
<1>6. ASSUME NEW k \in Calls, TargetConnected(k) PROVE TypeOK'
  <2> DEFINE h == calls[k].target
             c == FreshClient
  <2>1. c \in Clients
    BY <1>6, FreshIsNew DEF TargetConnected
  <2>2. calls[k].prev \in Clients \cup {None}
    BY DEF TypeOK, Call
  <2>3. /\ used' = used \cup {c} /\ live' = live \cup {c}
        /\ over' = [over EXCEPT ![c] = calls[k].prev]
        /\ clients' = [clients EXCEPT ![h] = c]
        /\ calls' = [calls EXCEPT ![k] = IdleCall]
        /\ UNCHANGED <<jumpClients, inflight, hostToJump, hopOf, dialOver>>
    BY <1>6 DEF TargetConnected
  <2>4. IdleCall.phase # "hop"
    BY DEF IdleCall
  <2> HIDE DEF h, c
  <2> QED
    BY <2>1, <2>2, <2>3, <2>4, IdleCallTyped, OneCallTyped DEF TypeOK
<1>7. ASSUME NEW p \in Prefixes, HopDialled(p) PROVE TypeOK'
  <2> DEFINE c == FreshClient
             Resumed(k) == [calls[k] EXCEPT !.phase = "walk", !.prev = c,
                              !.pos = @ + 1, !.opened = @ \cup {p}]
  <2>1. c \in Clients
    BY <1>7, FreshIsNew DEF HopDialled
  <2>2. \A k \in Calls : Resumed(k) \in Call /\ Resumed(k).phase = "walk"
    <3> SUFFICES ASSUME NEW k \in Calls
                 PROVE  Resumed(k) \in Call /\ Resumed(k).phase = "walk"
      OBVIOUS
    <3> DEFINE n == calls[k].pos + 1
               S == calls[k].opened \cup {p}
    <3>1. calls[k] \in Call /\ S \in SUBSET Prefixes /\ n \in Nat \ {0}
      BY DEF TypeOK, Call
    <3>2. Resumed(k) = [calls[k] EXCEPT !.phase = "walk", !.prev = c, !.pos = n,
                                        !.opened = S]
      OBVIOUS
    <3> HIDE DEF c, n, S, Resumed
    <3> QED
      BY <2>1, <3>1, <3>2 DEF Call, Phases
  <2>3. /\ dialOver[p] \in Clients \cup {None}
        /\ used' = used \cup {c} /\ live' = live \cup {c}
        /\ over' = [over EXCEPT ![c] = dialOver[p]]
        /\ hopOf' = [hopOf EXCEPT ![c] = p]
        /\ jumpClients' = [jumpClients EXCEPT ![p] = c]
        /\ calls' = [k \in Calls |-> IF AwaitsHop(k, p) THEN Resumed(k) ELSE calls[k]]
        /\ inflight' = inflight \ {p}
        /\ dialOver' = [dialOver EXCEPT ![p] = None]
        /\ UNCHANGED <<clients, hostToJump>>
    BY <1>7 DEF HopDialled, TypeOK
  <2> HIDE DEF c, Resumed
  <2>4. calls' \in [Calls -> Call]
    BY <2>2, <2>3 DEF TypeOK
  <2>5. \A j \in Calls : calls'[j].phase = "hop"
              => Prefix(calls'[j].chain, calls'[j].pos) \in inflight'
    BY <2>2, <2>3 DEF TypeOK, AwaitsHop
  <2> QED
    BY <2>1, <2>3, <2>4, <2>5 DEF TypeOK
<1>8. ASSUME NEW p \in Prefixes, HopFailed(p) PROVE TypeOK'
  <2> DEFINE Failed(k) == [calls[k] EXCEPT !.phase = "failed"]
  <2>1. \A k \in Calls : Failed(k) \in Call /\ Failed(k).phase = "failed"
    BY DEF TypeOK, Call, Phases
  <2>2. /\ inflight' = inflight \ {p}
        /\ dialOver' = [dialOver EXCEPT ![p] = None]
        /\ calls' = [k \in Calls |-> IF AwaitsHop(k, p) THEN Failed(k) ELSE calls[k]]
        /\ UNCHANGED <<clients, jumpClients, hostToJump, live, used, over, hopOf>>
    BY <1>8 DEF HopFailed
  <2> HIDE DEF Failed
  <2>3. calls' \in [Calls -> Call]
    BY <2>1, <2>2 DEF TypeOK
  <2>4. \A j \in Calls : calls'[j].phase = "hop"
              => Prefix(calls'[j].chain, calls'[j].pos) \in inflight'
    BY <2>1, <2>2 DEF TypeOK, AwaitsHop
  <2> QED
    BY <2>2, <2>3, <2>4 DEF TypeOK
<1>9. ASSUME NEW h \in Hosts, Disconnect(h) PROVE TypeOK'
  BY <1>9 DEF Disconnect, TypeOK
<1>10. ASSUME NEW h \in RdpHosts, NEW b \in Hosts, OpenTunnelSocket(h, b)
       PROVE  TypeOK'
  <2>1. <<b>> \in {<<g>> : g \in Hosts}
    OBVIOUS
  <2>2. {<<b>>} \subseteq Prefixes
    BY <2>1 DEF Prefixes
  <2> QED
    BY <1>10, <2>2, CloseHopsTyped DEF OpenTunnelSocket, TypeOK
<1>11. ASSUME NEW c \in Clients, Drop(c) PROVE TypeOK'
  BY <1>11 DEF Drop, TypeOK
<1>12. CASE UNCHANGED vars
  BY <1>12 DEF vars, TypeOK
<1> QED
  BY <1>1, <1>2, <1>3, <1>4, <1>5, <1>6, <1>7, <1>8, <1>9, <1>10, <1>11, <1>12
     DEF Next, ConnectStep

(* The caches, the connects and the clients of SshService keep their       *)
(* types, and a connect that awaits a hop awaits a dial that is in flight. *)
THEOREM TypeCorrect == Spec => []TypeOK
<1>1. Init => TypeOK
  BY JumpChainAssumption, IdleCallTyped DEF Init, TypeOK, IdleCall
<1> QED
  BY <1>1, TypeStep, PTL DEF Spec
(***************************************************************************)
(* The inductive invariant.  HopsAttended is NoHopLeaked with what makes   *)
(* it inductive: a hop held by a connect is held by one that still has to  *)
(* build its chain, a dial in flight has such a connect, and what a        *)
(* connect opened is part of its chain, so that it is registered with it.  *)
(***************************************************************************)
Building(k) == calls[k].phase \in {"walk", "hop", "failed"}

TargetsKnown ==
  \A k \in Calls :
    /\ calls[k].phase # "idle" => calls[k].target \in Hosts
    /\ calls[k].phase = "hop" => calls[k].pos <= Len(calls[k].chain)
    /\ calls[k].opened \subseteq PrefixesOf(calls[k].chain)

CacheSound ==
  /\ \A p \in Prefixes : jumpClients[p] # None => jumpClients[p] \in used
  /\ \A p, q \in Prefixes :
       jumpClients[p] # None /\ jumpClients[p] = jumpClients[q] => p = q
  /\ \A h \in Hosts : clients[h] # None =>
       clients[h] \in used /\ \A p \in Prefixes : jumpClients[p] # clients[h]
  /\ \A p \in inflight : jumpClients[p] \notin live

HeldFirmly(p) == \/ \E h \in Hosts : p \in hostToJump[h]
                 \/ \E k \in Calls : Building(k) /\ p \in calls[k].opened

HopsAttended ==
  /\ \A c \in Clients \ used : hopOf[c] = None
  /\ \A p \in inflight : \E k \in Calls : AwaitsHop(k, p)
  /\ \A c \in live : hopOf[c] # None => jumpClients[hopOf[c]] = c
                                     /\ HeldFirmly(hopOf[c])

ChainInv == TypeOK /\ TargetsKnown /\ CacheSound /\ HopsAttended

(* It has no chain and opened no hop.                                      *)
LEMMA IdleCallFields ==
  /\ IdleCall.phase = "idle" /\ IdleCall.opened = {} /\ IdleCall.chain = <<>>
  BY DEF IdleCall

(* What a step leaves of the connects it does not touch.                   *)
LEMMA OneCallChanges ==
  ASSUME TypeOK, NEW k \in Calls, NEW call, calls' = [calls EXCEPT ![k] = call]
  PROVE  /\ calls'[k] = call
         /\ \A j \in Calls \ {k} : calls'[j] = calls[j]
  BY DEF TypeOK

(* The connect after each of its steps, as far as the invariant looks.     *)
KeepsChain(k) == /\ calls'[k].target = calls[k].target
                 /\ calls'[k].chain  = calls[k].chain
KeepsOthers(k) == \A j \in Calls \ {k} : calls'[j] = calls[j]

(* A new connect walks its chain, if there is one without a cycle.         *)
LEMMA AfterConnect ==
  ASSUME TypeOK, NEW k \in Calls, NEW h \in Hosts, NEW ch \in ChainsOf[h],
         Connect(k, h, ch)
  PROVE  /\ calls[k].phase = "idle" /\ KeepsOthers(k)
         /\ calls'[k].phase # "hop" /\ calls'[k].target = h /\ calls'[k].opened = {}
<1> DEFINE phase == CASE ch = <<>>      -> "target"
                      [] Cyclic(h, ch) -> "failed"
                      [] OTHER         -> "walk"
           call == [IdleCall EXCEPT !.target = h, !.chain = ch, !.phase = phase]
<1>1. phase # "hop" /\ calls[k].phase = "idle" /\ calls' = [calls EXCEPT ![k] = call]
  BY DEF Connect
<1> HIDE DEF phase
<1>2. call.target = h /\ call.phase # "hop" /\ call.opened = {}
  BY <1>1, IdleCallTyped, IdleCallFields DEF Call
<1> HIDE DEF call
<1> QED
  BY <1>1, <1>2, OneCallChanges DEF KeepsOthers

(* A hop that is up is taken over, without becoming the own of the call.   *)
LEMMA AfterReuse ==
  ASSUME TypeOK, NEW k \in Calls, ReuseHop(k)
  PROVE  /\ calls[k].phase = "walk" /\ KeepsOthers(k)
         /\ calls'[k].phase = "walk" /\ calls'[k].opened = calls[k].opened
         /\ KeepsChain(k)
<1> DEFINE call == [calls[k] EXCEPT
                      !.prev = jumpClients[Prefix(calls[k].chain, calls[k].pos)],
                      !.pos  = @ + 1]
<1>1. calls[k] \in Call /\ calls[k].phase = "walk"
  BY DEF ReuseHop, TypeOK
<1>2. calls' = [calls EXCEPT ![k] = call]
  BY <1>1 DEF ReuseHop, TypeOK
<1>3. /\ call.phase = "walk" /\ call.target = calls[k].target
      /\ call.opened = calls[k].opened /\ call.chain = calls[k].chain
  BY <1>1 DEF Call
<1> HIDE DEF call
<1> QED
  BY <1>1, <1>2, <1>3, OneCallChanges DEF KeepsOthers, KeepsChain

(* A hop that is not up is awaited, by whoever dials it.                   *)
LEMMA AfterDial ==
  ASSUME TypeOK, NEW k \in Calls, DialHop(k)
  PROVE  /\ calls[k].phase = "walk" /\ KeepsOthers(k)
         /\ calls[k].pos <= Len(calls[k].chain)
         /\ calls'[k].phase = "hop" /\ calls'[k].opened = calls[k].opened
         /\ calls'[k].pos = calls[k].pos /\ KeepsChain(k)
<1> DEFINE call == [calls[k] EXCEPT !.phase = "hop"]
<1>1. calls' = [calls EXCEPT ![k] = call] /\ calls[k] \in Call
      /\ calls[k].phase = "walk" /\ calls[k].pos <= Len(calls[k].chain)
  BY DEF DialHop, TypeOK
<1>2. /\ call.phase = "hop" /\ call.pos = calls[k].pos
      /\ call.target = calls[k].target
      /\ call.opened = calls[k].opened /\ call.chain = calls[k].chain
  BY <1>1 DEF Call
<1> HIDE DEF call
<1> QED
  BY <1>1, <1>2, OneCallChanges DEF KeepsOthers, KeepsChain

(* A connect whose last hop is up goes on to its target.                   *)
LEMMA AfterReady ==
  ASSUME TypeOK, NEW k \in Calls, ChainReady(k)
  PROVE  /\ calls[k].phase = "walk" /\ KeepsOthers(k)
         /\ calls'[k].phase = "target" /\ calls'[k].opened = calls[k].opened
         /\ KeepsChain(k)
<1> DEFINE call == [calls[k] EXCEPT !.phase = "target"]
<1>1. calls' = [calls EXCEPT ![k] = call] /\ calls[k] \in Call
      /\ calls[k].phase = "walk"
  BY DEF ChainReady, TypeOK
<1>2. /\ call.phase = "target" /\ call.target = calls[k].target
      /\ call.opened = calls[k].opened /\ call.chain = calls[k].chain
  BY <1>1 DEF Call
<1> HIDE DEF call
<1> QED
  BY <1>1, <1>2, OneCallChanges DEF KeepsOthers, KeepsChain

(* A connect that ends, one way or the other, is idle again.               *)
LEMMA AfterEnd ==
  ASSUME TypeOK, NEW k \in Calls,
         ConnectFailed(k) \/ TargetFailed(k) \/ TargetConnected(k)
  PROVE  /\ calls[k].phase \in {"failed", "target"} /\ KeepsOthers(k)
         /\ calls'[k].phase = "idle" /\ calls'[k].opened = {}
<1>1. calls' = [calls EXCEPT ![k] = IdleCall] /\ calls[k].phase \in {"failed", "target"}
  BY DEF ConnectFailed, TargetFailed, TargetConnected
<1> QED
  BY <1>1, OneCallChanges, IdleCallFields DEF KeepsOthers

(* Every connect that awaits p goes on, or fails; the others are as before. *)
LEMMA AfterHopDialled ==
  ASSUME TypeOK, NEW p \in Prefixes, HopDialled(p), NEW k \in Calls
  PROVE  /\ ~AwaitsHop(k, p) => calls'[k] = calls[k]
         /\ AwaitsHop(k, p) => /\ calls[k].phase = "hop"
                               /\ calls'[k].phase = "walk" /\ KeepsChain(k)
                               /\ calls'[k].opened = calls[k].opened \cup {p}
<1>1. ASSUME AwaitsHop(k, p)
      PROVE  /\ calls'[k].phase = "walk" /\ KeepsChain(k)
             /\ calls'[k].opened = calls[k].opened \cup {p}
  <2> DEFINE n == calls[k].pos + 1
             S == calls[k].opened \cup {p}
  <2>1. calls'[k] = [calls[k] EXCEPT !.phase = "walk", !.prev = FreshClient,
                       !.pos = n, !.opened = S]
    BY <1>1 DEF HopDialled
  <2>2. calls[k] \in Call
    BY DEF TypeOK
  <2> HIDE DEF n, S
  <2>3. /\ calls'[k].phase = "walk" /\ calls'[k].target = calls[k].target
        /\ calls'[k].opened = S /\ calls'[k].chain = calls[k].chain
    BY <2>1, <2>2 DEF Call
  <2> QED
    BY <2>3 DEF S, KeepsChain
<1> QED
  BY <1>1 DEF HopDialled, AwaitsHop

(* A failed dial fails every connect that awaits it.                       *)
LEMMA AfterHopFailed ==
  ASSUME TypeOK, NEW p \in Prefixes, HopFailed(p), NEW k \in Calls
  PROVE  /\ ~AwaitsHop(k, p) => calls'[k] = calls[k]
         /\ AwaitsHop(k, p) => /\ calls[k].phase = "hop"
                               /\ calls'[k].phase = "failed" /\ KeepsChain(k)
                               /\ calls'[k].opened = calls[k].opened
<1>1. ASSUME AwaitsHop(k, p)
      PROVE  /\ calls'[k].phase = "failed" /\ KeepsChain(k)
             /\ calls'[k].opened = calls[k].opened
  <2>1. calls'[k] = [calls[k] EXCEPT !.phase = "failed"]
    BY <1>1 DEF HopFailed
  <2>2. calls[k] \in Call
    BY DEF TypeOK
  <2> QED
    BY <2>1, <2>2 DEF Call, KeepsChain
<1> QED
  BY <1>1 DEF HopFailed, AwaitsHop

(* A connect in progress knows its target, awaits a hop of its chain, and  *)
(* opened hops of its chain only.                                          *)
LEMMA TargetsStep ==
  ASSUME TypeOK, TargetsKnown, [Next]_vars
  PROVE  TargetsKnown'
<1> USE DEF svcVars, netVars, KeepsChain, KeepsOthers
<1>1. ASSUME NEW k \in Calls, NEW h \in Hosts, NEW ch \in ChainsOf[h],
             Connect(k, h, ch)
      PROVE  TargetsKnown'
  BY <1>1, AfterConnect DEF TargetsKnown
<1>2. ASSUME NEW k \in Calls, ReuseHop(k) PROVE TargetsKnown'
  BY <1>2, AfterReuse DEF TargetsKnown
<1>3. ASSUME NEW k \in Calls, DialHop(k) PROVE TargetsKnown'
  BY <1>3, AfterDial DEF TargetsKnown
<1>4. ASSUME NEW k \in Calls, ChainReady(k) PROVE TargetsKnown'
  BY <1>4, AfterReady DEF TargetsKnown
<1>5. ASSUME NEW k \in Calls,
             ConnectFailed(k) \/ TargetFailed(k) \/ TargetConnected(k)
      PROVE  TargetsKnown'
  BY <1>5, AfterEnd DEF TargetsKnown
<1>6. ASSUME NEW p \in Prefixes, HopDialled(p) PROVE TargetsKnown'
  <2>1. ASSUME NEW k \in Calls, AwaitsHop(k, p) PROVE p \in PrefixesOf(calls[k].chain)
    BY <2>1, NextPrefix DEF AwaitsHop, TargetsKnown
  <2> QED
    BY <1>6, <2>1, AfterHopDialled DEF TargetsKnown
<1>7. ASSUME NEW p \in Prefixes, HopFailed(p) PROVE TargetsKnown'
  BY <1>7, AfterHopFailed DEF TargetsKnown
<1>8. ASSUME UNCHANGED calls PROVE TargetsKnown'
  BY <1>8 DEF TargetsKnown
<1> QED
  BY <1>1, <1>2, <1>3, <1>4, <1>5, <1>6, <1>7, <1>8
     DEF Next, ConnectStep, Disconnect, OpenTunnelSocket, Drop, vars

(* Closing the hops of a set S takes down the hops of S and no other.      *)
LEMMA CloseHopsEffect ==
  ASSUME TypeOK, CacheSound, NEW S \in SUBSET Prefixes, CloseHops(S)
  PROVE  /\ \A p \in Prefixes : p \in S => jumpClients'[p] = None
         /\ \A p \in Prefixes \ S : jumpClients'[p] = jumpClients[p]
         /\ \A p \in Prefixes : jumpClients'[p] \in live'
                                  <=> jumpClients[p] \in live /\ p \notin S
         /\ live' = live \ {jumpClients[p] : p \in S}
<1> USE JumpChainAssumption
<1>1. /\ \A p \in Prefixes : p \in S => jumpClients'[p] = None
      /\ \A p \in Prefixes \ S : jumpClients'[p] = jumpClients[p]
      /\ live' = live \ {jumpClients[p] : p \in S}
  BY DEF CloseHops
<1>2. None \notin live
  BY DEF TypeOK
<1>3. ASSUME NEW p \in Prefixes \ S, jumpClients[p] \in live
      PROVE  jumpClients[p] \in live'
  BY <1>1, <1>2, <1>3 DEF CacheSound
<1> QED
  BY <1>1, <1>2, <1>3

(* The hops the code closes are prefixes.                                  *)
LEMMA ClosedArePrefixes ==
  ASSUME TypeOK
  PROVE  /\ \A h \in Hosts : Released(h) \in SUBSET Prefixes
         /\ \A keys : \A h \in Hosts : Dropped(h, keys) \in SUBSET Prefixes
         /\ \A k \in Calls : Abandoned(k) \in SUBSET Prefixes
<1>1. \A h \in Hosts : hostToJump[h] \subseteq Prefixes
  BY DEF TypeOK
<1>2. \A k \in Calls : calls[k].opened \subseteq Prefixes
  BY DEF TypeOK, Call
<1> QED
  BY <1>1, <1>2 DEF Released, Dropped, Abandoned

(***************************************************************************)
(* Every step that closes hops changes the chain of one host h to the hops *)
(* of keys, and closes the hops only h had registered and does not keep,   *)
(* and some that no host has registered.                                   *)
(***************************************************************************)
Retargets(h, keys, S) ==
  /\ h \in Hosts /\ keys \in SUBSET Prefixes /\ S \in SUBSET Prefixes
  /\ hostToJump' = [hostToJump EXCEPT ![h] = keys]
  /\ Dropped(h, keys) \subseteq S
  /\ \A p \in S \ Dropped(h, keys) : \A g \in Hosts : p \notin hostToJump[g]

(* The catch clause of the chain closes what the call opened, and what     *)
(* only its host had registered.                                           *)
LEMMA AfterConnectFailed ==
  ASSUME TypeOK, TargetsKnown, NEW k \in Calls, ConnectFailed(k)
  PROVE  /\ Retargets(calls[k].target, {}, Abandoned(k) \cup Released(calls[k].target))
         /\ CloseHops(Abandoned(k) \cup Released(calls[k].target))
<1> DEFINE h == calls[k].target
<1>1. h \in Hosts /\ CloseHops(Abandoned(k) \cup Released(h))
      /\ hostToJump' = [hostToJump EXCEPT ![h] = {}]
  BY DEF TargetsKnown, ConnectFailed
<1> HIDE DEF h
<1>2. Dropped(h, {}) = Released(h)
  BY DEF Dropped, Released
<1>3. Abandoned(k) \cup Released(h) \in SUBSET Prefixes
  BY <1>1, ClosedArePrefixes
<1>4. \A p \in Abandoned(k) : \A g \in Hosts : p \notin hostToJump[g]
  BY DEF Abandoned
<1>5. Retargets(h, {}, Abandoned(k) \cup Released(h))
  BY <1>1, <1>2, <1>3, <1>4 DEF Retargets
<1> QED
  BY <1>1, <1>5 DEF h

(* The catch clause of connect() closes what only its host had registered. *)
LEMMA AfterTargetFailed ==
  ASSUME TypeOK, TargetsKnown, NEW k \in Calls, TargetFailed(k)
  PROVE  /\ Retargets(calls[k].target, {}, Released(calls[k].target))
         /\ CloseHops(Released(calls[k].target))
<1> DEFINE h == calls[k].target
<1>1. h \in Hosts /\ CloseHops(Released(h))
      /\ hostToJump' = [hostToJump EXCEPT ![h] = {}]
  BY DEF TargetsKnown, TargetFailed
<1> HIDE DEF h
<1>2. Dropped(h, {}) = Released(h)
  BY DEF Dropped, Released
<1>3. Retargets(h, {}, Released(h))
  BY <1>1, <1>2, ClosedArePrefixes DEF Retargets
<1> QED
  BY <1>1, <1>3 DEF h

(* The new chain of a host is registered, hops of its last one are dropped *)
(* unless another host needs them.                                         *)
LEMMA AfterChainReady ==
  ASSUME TypeOK, TargetsKnown, NEW k \in Calls, ChainReady(k)
  PROVE  LET h    == calls[k].target
             keys == PrefixesOf(calls[k].chain)
         IN  Retargets(h, keys, Dropped(h, keys)) /\ CloseHops(Dropped(h, keys))
<1> DEFINE h == calls[k].target
           keys == PrefixesOf(calls[k].chain)
<1>1. h \in Hosts /\ CloseHops(Dropped(h, keys))
      /\ hostToJump' = [hostToJump EXCEPT ![h] = keys]
  BY DEF TargetsKnown, ChainReady
<1>2. keys \in SUBSET Prefixes
  BY ChainPrefixes
<1> HIDE DEF h, keys
<1>3. Retargets(h, keys, Dropped(h, keys))
  BY <1>1, <1>2, ClosedArePrefixes DEF Retargets
<1> QED
  BY <1>1, <1>3 DEF h, keys

(* The tunnel of an RDP host registers its bastion.                        *)
LEMMA AfterOpenTunnel ==
  ASSUME TypeOK, NEW h \in RdpHosts, NEW b \in Hosts, OpenTunnelSocket(h, b)
  PROVE  Retargets(h, {<<b>>}, Dropped(h, {<<b>>})) /\ CloseHops(Dropped(h, {<<b>>}))
<1>1. h \in Hosts /\ <<b>> \in {<<g>> : g \in Hosts}
  BY JumpChainAssumption
<1>2. {<<b>>} \in SUBSET Prefixes
  BY <1>1 DEF Prefixes
<1> QED
  BY <1>1, <1>2, ClosedArePrefixes DEF OpenTunnelSocket, Retargets

(***************************************************************************)
(* The cache: one prefix per client, no cached target, and no dial for a   *)
(* hop that is up.                                                         *)
(***************************************************************************)
LEMMA CacheAfterClose ==
  ASSUME TypeOK, CacheSound, NEW S \in SUBSET Prefixes, CloseHops(S),
         UNCHANGED <<clients, inflight, used>>
  PROVE  CacheSound'
<1> USE CloseHopsEffect
<1>1. \A p \in Prefixes : jumpClients'[p] # None => jumpClients'[p] = jumpClients[p]
  OBVIOUS
<1>2. \A p \in inflight : p \in Prefixes
  BY DEF TypeOK
<1>3. \A h \in Hosts : clients[h] # None => \A p \in Prefixes : jumpClients'[p] # clients[h]
  BY <1>1 DEF CacheSound
<1>4. \A p \in Prefixes : jumpClients'[p] # None => jumpClients'[p] \in used
  BY <1>1 DEF CacheSound
<1>5. \A p, q \in Prefixes :
        jumpClients'[p] # None /\ jumpClients'[p] = jumpClients'[q] => p = q
  BY <1>1 DEF CacheSound
<1>6. \A p \in inflight : jumpClients'[p] \notin live'
  BY <1>2 DEF CacheSound
<1> QED
  BY <1>3, <1>4, <1>5, <1>6 DEF CacheSound

(* Every step keeps the cache of hops sound.                               *)
LEMMA CacheStep ==
  ASSUME TypeOK, TargetsKnown, CacheSound, [Next]_vars
  PROVE  CacheSound'
<1> USE JumpChainAssumption DEF svcVars, netVars
<1>1. ASSUME NEW k \in Calls, NEW h \in Hosts, NEW ch \in ChainsOf[h],
             Connect(k, h, ch)
      PROVE  CacheSound'
  BY <1>1 DEF Connect, CacheSound
<1>2. ASSUME NEW k \in Calls, ReuseHop(k) PROVE CacheSound'
  BY <1>2 DEF ReuseHop, CacheSound
<1>3. ASSUME NEW k \in Calls, DialHop(k) PROVE CacheSound'
  <2> DEFINE p == Prefix(calls[k].chain, calls[k].pos)
  <2>1. p \in Prefixes
    BY <1>3, NextPrefix DEF DialHop
  <2>2. /\ jumpClients[p] \notin live /\ inflight' = inflight \cup {p}
        /\ jumpClients' = [jumpClients EXCEPT ![p] = None]
        /\ UNCHANGED <<clients, live, used>>
    BY <1>3 DEF DialHop
  <2> HIDE DEF p
  <2>3. \A q \in Prefixes : /\ q # p => jumpClients'[q] = jumpClients[q]
                            /\ q = p => jumpClients'[q] = None
    BY <2>1, <2>2 DEF TypeOK
  <2>4. None \notin live /\ inflight \subseteq Prefixes
    BY DEF TypeOK
  <2> QED
    BY <2>1, <2>2, <2>3, <2>4 DEF CacheSound
<1>4. ASSUME NEW p \in Prefixes, HopDialled(p) PROVE CacheSound'
  <2> DEFINE c == FreshClient
  <2>1. c \in Clients /\ c \notin used
    BY <1>4, FreshIsNew DEF HopDialled
  <2>2. /\ used' = used \cup {c} /\ live' = live \cup {c}
        /\ inflight' = inflight \ {p} /\ clients' = clients
        /\ jumpClients' = [jumpClients EXCEPT ![p] = c]
    BY <1>4 DEF HopDialled
  <2> HIDE DEF c
  <2>3. \A q \in Prefixes : /\ q # p => jumpClients'[q] = jumpClients[q]
                            /\ q = p => jumpClients'[q] = c
    BY <2>2 DEF TypeOK
  <2>4. inflight \subseteq Prefixes
    BY DEF TypeOK
  <2>5. \A q \in Prefixes : jumpClients[q] # c
    BY <2>1 DEF CacheSound
  <2>6. \A h \in Hosts : clients[h] # c
    BY <2>1 DEF CacheSound
  <2> QED
    BY <2>1, <2>2, <2>3, <2>4, <2>5, <2>6 DEF CacheSound
<1>5. ASSUME NEW p \in Prefixes, HopFailed(p) PROVE CacheSound'
  BY <1>5 DEF HopFailed, CacheSound
<1>6. ASSUME NEW k \in Calls, ConnectFailed(k) PROVE CacheSound'
  <2>1. UNCHANGED <<clients, inflight, used>>
    BY <1>6 DEF ConnectFailed
  <2> QED
    BY <1>6, <2>1, AfterConnectFailed, CacheAfterClose DEF Retargets
<1>7. ASSUME NEW k \in Calls, ChainReady(k) PROVE CacheSound'
  <2>1. UNCHANGED <<clients, inflight, used>>
    BY <1>7 DEF ChainReady
  <2> QED
    BY <1>7, <2>1, AfterChainReady, CacheAfterClose DEF Retargets
<1>8. ASSUME NEW k \in Calls, TargetFailed(k) PROVE CacheSound'
  <2>1. UNCHANGED <<clients, inflight, used>>
    BY <1>8 DEF TargetFailed
  <2> QED
    BY <1>8, <2>1, AfterTargetFailed, CacheAfterClose DEF Retargets
<1>9. ASSUME NEW h \in RdpHosts, NEW b \in Hosts, OpenTunnelSocket(h, b)
      PROVE  CacheSound'
  <2>1. UNCHANGED <<clients, inflight, used>>
    BY <1>9 DEF OpenTunnelSocket
  <2> QED
    BY <1>9, <2>1, AfterOpenTunnel, CacheAfterClose DEF Retargets
<1>10. ASSUME NEW k \in Calls, TargetConnected(k) PROVE CacheSound'
  <2> DEFINE c == FreshClient
             h == calls[k].target
  <2>1. c \in Clients /\ c \notin used
    BY <1>10, FreshIsNew DEF TargetConnected
  <2>2. /\ used' = used \cup {c} /\ live' = live \cup {c}
        /\ inflight' = inflight /\ jumpClients' = jumpClients
        /\ clients' = [clients EXCEPT ![h] = c]
    BY <1>10 DEF TargetConnected
  <2> HIDE DEF c, h
  <2>3. \A g \in Hosts : clients'[g] \in {clients[g], c}
    BY <2>2 DEF TypeOK
  <2>4. inflight \subseteq Prefixes
    BY DEF TypeOK
  <2>5. \A q \in Prefixes : jumpClients[q] # c
    BY <2>1 DEF CacheSound
  <2> QED
    BY <2>1, <2>2, <2>3, <2>4, <2>5 DEF CacheSound
<1>11. ASSUME NEW h \in Hosts, Disconnect(h) PROVE CacheSound'
  <2>1. /\ \A g \in Hosts : clients'[g] \in {clients[g], None}
        /\ \A p \in Prefixes : jumpClients'[p] \in {jumpClients[p], None}
        /\ live' \subseteq live /\ UNCHANGED <<inflight, used>>
    BY <1>11 DEF Disconnect, TypeOK
  <2>2. None \notin live /\ inflight \subseteq Prefixes
    BY DEF TypeOK
  <2> QED
    BY <2>1, <2>2 DEF CacheSound
<1>12. ASSUME NEW c \in Clients, Drop(c) PROVE CacheSound'
  BY <1>12 DEF Drop, CacheSound
<1>13. CASE UNCHANGED vars
  BY <1>13 DEF vars, CacheSound
<1> QED
  BY <1>1, <1>2, <1>3, <1>4, <1>5, <1>6, <1>7, <1>8, <1>9, <1>10, <1>11, <1>12, <1>13
     DEF Next, ConnectStep

(***************************************************************************)
(* No hop leaks.                                                           *)
(***************************************************************************)
(* A dial in flight keeps a connect that awaits it.                        *)
LEMMA AwaitedStep ==
  ASSUME TypeOK, \A p \in inflight : \E k \in Calls : AwaitsHop(k, p), [Next]_vars
  PROVE  \A p \in inflight' : \E k \in Calls : AwaitsHop(k, p)'
<1> USE DEF svcVars, netVars
<1> DEFINE P == \A p \in inflight' : \E k \in Calls : AwaitsHop(k, p)'
<1>1. ASSUME NEW k \in Calls, calls[k].phase # "hop", KeepsOthers(k), inflight' = inflight
      PROVE  P
  BY <1>1 DEF KeepsOthers, AwaitsHop
<1>2. ASSUME NEW k \in Calls, NEW h \in Hosts, NEW ch \in ChainsOf[h],
             Connect(k, h, ch)
      PROVE  P
  BY <1>1, <1>2, AfterConnect DEF Connect
<1>3. ASSUME NEW k \in Calls, ReuseHop(k) PROVE P
  BY <1>1, <1>3, AfterReuse DEF ReuseHop
<1>4. ASSUME NEW k \in Calls, DialHop(k) PROVE P
  <2>0. PICK p : p = Prefix(calls[k].chain, calls[k].pos)
    OBVIOUS
  <2>1. inflight' = inflight \cup {p}
    BY <1>4, <2>0 DEF DialHop
  <2>2. AwaitsHop(k, p)'
    BY <1>4, <2>0, AfterDial DEF AwaitsHop, KeepsChain
  <2>3. \A q \in inflight : \E j \in Calls \ {k} : AwaitsHop(j, q)'
    BY <1>4, AfterDial DEF AwaitsHop, KeepsOthers
  <2> QED
    BY <2>1, <2>2, <2>3
<1>5. ASSUME NEW k \in Calls, ChainReady(k) PROVE P
  BY <1>1, <1>5, AfterReady DEF ChainReady
<1>6. ASSUME NEW k \in Calls,
             ConnectFailed(k) \/ TargetFailed(k) \/ TargetConnected(k)
      PROVE  P
  <2>1. inflight' = inflight
    BY <1>6 DEF ConnectFailed, TargetFailed, TargetConnected
  <2> QED
    BY <1>1, <1>6, <2>1, AfterEnd
<1>7. ASSUME NEW p \in Prefixes, HopDialled(p) PROVE P
  <2>1. inflight' = inflight \ {p}
    BY <1>7 DEF HopDialled
  <2>2. \A k \in Calls, q \in inflight' : AwaitsHop(k, q) => AwaitsHop(k, q)'
    BY <1>7, <2>1, AfterHopDialled DEF AwaitsHop
  <2> QED
    BY <2>1, <2>2
<1>8. ASSUME NEW p \in Prefixes, HopFailed(p) PROVE P
  <2>1. inflight' = inflight \ {p}
    BY <1>8 DEF HopFailed
  <2>2. \A k \in Calls, q \in inflight' : AwaitsHop(k, q) => AwaitsHop(k, q)'
    BY <1>8, <2>1, AfterHopFailed DEF AwaitsHop
  <2> QED
    BY <2>1, <2>2
<1>9. ASSUME UNCHANGED <<calls, inflight>> PROVE P
  BY <1>9 DEF AwaitsHop
<1> QED
  BY <1>2, <1>3, <1>4, <1>5, <1>6, <1>7, <1>8, <1>9
     DEF Next, ConnectStep, Disconnect, OpenTunnelSocket, Drop, vars

(* A client that was never dialled is no hop.                              *)
LEMMA UnusedStep ==
  ASSUME TypeOK, \A c \in Clients \ used : hopOf[c] = None, [Next]_vars
  PROVE  \A c \in Clients \ used' : hopOf'[c] = None
<1>1. ASSUME NEW p \in Prefixes, HopDialled(p)
      PROVE  \A c \in Clients \ used' : hopOf'[c] = None
  BY <1>1 DEF HopDialled, TypeOK
<1>2. (~\E p \in Prefixes : HopDialled(p)) => used \subseteq used' /\ hopOf' = hopOf
  BY DEF Next, ConnectStep, Connect, ReuseHop, DialHop, ChainReady, ConnectFailed,
         TargetConnected, TargetFailed, HopFailed, Disconnect, OpenTunnelSocket, Drop,
         vars, svcVars, netVars
<1> QED
  BY <1>1, <1>2

HopsHeld == \A c \in live : hopOf[c] # None => jumpClients[hopOf[c]] = c
                                             /\ HeldFirmly(hopOf[c])

(* Closing hops leaves no hop behind, if the hops that connects opened and *)
(* no longer hold are registered.                                          *)
LEMMA HeldAfterClose ==
  ASSUME TypeOK, CacheSound, HopsHeld, hopOf' = hopOf,
         NEW h, NEW keys, NEW S, Retargets(h, keys, S), CloseHops(S),
         \A p \in Prefixes \ S : \A k \in Calls :
           jumpClients[p] \in live /\ Building(k) /\ p \in calls[k].opened
             => HeldFirmly(p)' \/ \E g \in Hosts : p \in hostToJump[g]
  PROVE  HopsHeld'
<1> SUFFICES ASSUME NEW c \in live', NEW p, p = hopOf[c], p # None
             PROVE  jumpClients'[p] = c /\ HeldFirmly(p)'
  BY DEF HopsHeld
<1>1. S \in SUBSET Prefixes /\ h \in Hosts
  BY DEF Retargets
<1>2. live' = live \ {jumpClients[q] : q \in S}
      /\ \A q \in Prefixes \ S : jumpClients'[q] = jumpClients[q]
  BY <1>1, CloseHopsEffect
<1>3. c \in live /\ p \in Prefixes /\ jumpClients[p] = c /\ HeldFirmly(p)
  BY <1>2 DEF HopsHeld, TypeOK
<1>4. p \notin S
  BY <1>2, <1>3
<1>5. ASSUME NEW g \in Hosts, p \in hostToJump[g] PROVE HeldFirmly(p)'
  <2>1. CASE g # h
    BY <1>5, <2>1 DEF Retargets, HeldFirmly, TypeOK
  <2>2. CASE g = h /\ p \in keys
    BY <2>2 DEF Retargets, HeldFirmly, TypeOK
  <2>3. CASE g = h /\ p \notin keys
    <3>1. PICK f \in Hosts \ {h} : p \in hostToJump[f]
      BY <1>4, <1>5, <2>3 DEF Retargets, Dropped, NeededByOther
    <3> QED
      BY <3>1 DEF Retargets, HeldFirmly, TypeOK
  <2> QED
    BY <2>1, <2>2, <2>3
<1>6. HeldFirmly(p)'
  BY <1>3, <1>4, <1>5 DEF HeldFirmly
<1> QED
  BY <1>2, <1>3, <1>4, <1>6

(* Every step leaves each hop that is up registered, or being built upon.  *)
LEMMA HeldStep ==
  ASSUME TypeOK, TargetsKnown, CacheSound, HopsAttended, [Next]_vars
  PROVE  HopsHeld'
<1> USE JumpChainAssumption DEF svcVars, netVars
<1>0. HopsHeld
  BY DEF HopsAttended, HopsHeld
<1>1. ASSUME NEW k \in Calls, NEW h \in Hosts, NEW ch \in ChainsOf[h],
             Connect(k, h, ch)
      PROVE  HopsHeld'
  <2>1. UNCHANGED <<jumpClients, hostToJump, live, hopOf>>
    BY <1>1 DEF Connect
  <2>2. \A p : HeldFirmly(p) => HeldFirmly(p)'
    BY <1>1, <2>1, AfterConnect DEF HeldFirmly, Building, KeepsOthers
  <2> QED
    BY <1>0, <2>1, <2>2 DEF HopsHeld
<1>2. ASSUME NEW k \in Calls, ReuseHop(k) PROVE HopsHeld'
  <2>1. UNCHANGED <<jumpClients, hostToJump, live, hopOf>>
    BY <1>2 DEF ReuseHop
  <2>2. \A p : HeldFirmly(p) => HeldFirmly(p)'
    BY <1>2, <2>1, AfterReuse DEF HeldFirmly, Building, KeepsOthers
  <2> QED
    BY <1>0, <2>1, <2>2 DEF HopsHeld
<1>3. ASSUME NEW k \in Calls, DialHop(k) PROVE HopsHeld'
  <2> DEFINE q == Prefix(calls[k].chain, calls[k].pos)
  <2>1. /\ jumpClients[q] \notin live
        /\ jumpClients' = [jumpClients EXCEPT ![q] = None]
        /\ UNCHANGED <<hostToJump, live, hopOf>>
    BY <1>3 DEF DialHop
  <2> HIDE DEF q
  <2>2. \A p : HeldFirmly(p) => HeldFirmly(p)'
    BY <1>3, <2>1, AfterDial DEF HeldFirmly, Building, KeepsOthers
  <2>3. \A p \in Prefixes : p # q => jumpClients'[p] = jumpClients[p]
    BY <2>1 DEF TypeOK
  <2>4. \A c \in live : hopOf[c] \in Prefixes \cup {None}
    BY DEF TypeOK
  <2> QED
    BY <1>0, <2>1, <2>2, <2>3, <2>4 DEF HopsHeld
<1>4. ASSUME NEW p \in Prefixes, HopDialled(p) PROVE HopsHeld'
  <2> DEFINE c == FreshClient
  <2>1. c \in Clients /\ c \notin used
    BY <1>4, FreshIsNew DEF HopDialled
  <2>2. /\ live' = live \cup {c} /\ hopOf' = [hopOf EXCEPT ![c] = p]
        /\ jumpClients' = [jumpClients EXCEPT ![p] = c]
        /\ hostToJump' = hostToJump /\ p \in inflight
    BY <1>4 DEF HopDialled
  <2> HIDE DEF c
  <2>3. PICK k \in Calls : AwaitsHop(k, p)
    BY <2>2 DEF HopsAttended
  <2>4. HeldFirmly(p)'
    BY <1>4, <2>3, AfterHopDialled DEF HeldFirmly, Building
  <2>5. \A q : HeldFirmly(q) => HeldFirmly(q)'
    BY <1>4, <2>2, AfterHopDialled DEF HeldFirmly, Building
  <2>6. jumpClients'[p] = c /\ \A q \in Prefixes \ {p} : jumpClients'[q] = jumpClients[q]
    BY <2>2 DEF TypeOK
  <2>7. hopOf'[c] = p /\ \A d \in live : hopOf'[d] = hopOf[d]
                                        /\ hopOf[d] \in Prefixes \cup {None}
    BY <2>1, <2>2 DEF TypeOK
  <2>8. \A d \in live : hopOf[d] # None => hopOf[d] # p
    BY <1>0, <2>2 DEF CacheSound, HopsHeld
  <2> QED
    BY <1>0, <2>2, <2>4, <2>5, <2>6, <2>7, <2>8 DEF HopsHeld
<1>5. ASSUME NEW p \in Prefixes, HopFailed(p) PROVE HopsHeld'
  <2>1. UNCHANGED <<jumpClients, hostToJump, live, hopOf>>
    BY <1>5 DEF HopFailed
  <2>2. \A q : HeldFirmly(q) => HeldFirmly(q)'
    BY <1>5, <2>1, AfterHopFailed DEF HeldFirmly, Building
  <2> QED
    BY <1>0, <2>1, <2>2 DEF HopsHeld
<1>6. ASSUME NEW k \in Calls, ConnectFailed(k) PROVE HopsHeld'
  <2> DEFINE h == calls[k].target
             S == Abandoned(k) \cup Released(h)
  <2>1. hopOf' = hopOf /\ inflight' = inflight /\ Retargets(h, {}, S) /\ CloseHops(S)
    BY <1>6, AfterConnectFailed DEF ConnectFailed
  <2>2. ASSUME NEW p \in Prefixes \ S, NEW j \in Calls,
               jumpClients[p] \in live, Building(j), p \in calls[j].opened
        PROVE  HeldFirmly(p)' \/ \E g \in Hosts : p \in hostToJump[g]
    <3>1. CASE j = k
      <4>1. p \notin inflight
        BY <2>2 DEF CacheSound
      <4> QED
        BY <2>2, <3>1, <4>1 DEF Abandoned
    <3>2. CASE j # k
      BY <1>6, <2>2, <3>2, AfterEnd DEF HeldFirmly, Building, KeepsOthers
    <3> QED
      BY <3>1, <3>2
  <2> HIDE DEF h, S
  <2> QED
    BY <1>0, <2>1, <2>2, HeldAfterClose
<1>7. ASSUME NEW k \in Calls, ChainReady(k) PROVE HopsHeld'
  <2> DEFINE h == calls[k].target
             keys == PrefixesOf(calls[k].chain)
             S == Dropped(h, keys)
  <2>1. hopOf' = hopOf /\ Retargets(h, keys, S) /\ CloseHops(S)
    BY <1>7, AfterChainReady DEF ChainReady
  <2>2. ASSUME NEW p \in Prefixes \ S, NEW j \in Calls,
               jumpClients[p] \in live, Building(j), p \in calls[j].opened
        PROVE  HeldFirmly(p)' \/ \E g \in Hosts : p \in hostToJump[g]
    <3>1. CASE j = k
      <4>1. p \in keys
        BY <2>2, <3>1 DEF TargetsKnown
      <4> HIDE DEF h, keys, S
      <4>2. h \in Hosts /\ p \in hostToJump'[h]
        BY <2>1, <4>1 DEF Retargets, TypeOK
      <4> QED
        BY <4>2 DEF HeldFirmly
    <3>2. CASE j # k
      BY <1>7, <2>2, <3>2, AfterReady DEF HeldFirmly, Building, KeepsOthers
    <3> QED
      BY <3>1, <3>2
  <2> HIDE DEF h, keys, S
  <2> QED
    BY <1>0, <2>1, <2>2, HeldAfterClose
<1>8. ASSUME NEW k \in Calls, TargetFailed(k) PROVE HopsHeld'
  <2> DEFINE h == calls[k].target
             S == Released(h)
  <2>1. hopOf' = hopOf /\ Retargets(h, {}, S) /\ CloseHops(S)
    BY <1>8, AfterTargetFailed DEF TargetFailed
  <2>2. ASSUME NEW p \in Prefixes \ S, NEW j \in Calls,
               jumpClients[p] \in live, Building(j), p \in calls[j].opened
        PROVE  HeldFirmly(p)' \/ \E g \in Hosts : p \in hostToJump[g]
    <3>1. j # k
      BY <1>8, <2>2 DEF TargetFailed, Building
    <3> QED
      BY <1>8, <2>2, <3>1, AfterEnd DEF HeldFirmly, Building, KeepsOthers
  <2> HIDE DEF h, S
  <2> QED
    BY <1>0, <2>1, <2>2, HeldAfterClose
<1>9. ASSUME NEW h \in RdpHosts, NEW b \in Hosts, OpenTunnelSocket(h, b)
      PROVE  HopsHeld'
  <2> DEFINE S == Dropped(h, {<<b>>})
  <2>1. hopOf' = hopOf /\ calls' = calls /\ Retargets(h, {<<b>>}, S) /\ CloseHops(S)
    BY <1>9, AfterOpenTunnel DEF OpenTunnelSocket
  <2> HIDE DEF S
  <2>2. \A p \in Prefixes \ S : \A j \in Calls :
          Building(j) /\ p \in calls[j].opened => HeldFirmly(p)'
    BY <2>1 DEF HeldFirmly, Building
  <2> QED
    BY <1>0, <2>1, <2>2, HeldAfterClose
<1>10. ASSUME NEW k \in Calls, TargetConnected(k) PROVE HopsHeld'
  <2> DEFINE c == FreshClient
  <2>1. c \in Clients /\ c \notin used
    BY <1>10, FreshIsNew DEF TargetConnected
  <2>2. /\ live' = live \cup {c} /\ ~Building(k)
        /\ UNCHANGED <<jumpClients, hostToJump, hopOf>>
    BY <1>10 DEF TargetConnected, Building
  <2> HIDE DEF c
  <2>3. \A p : HeldFirmly(p) => HeldFirmly(p)'
    BY <1>10, <2>2, AfterEnd DEF HeldFirmly, Building, KeepsOthers
  <2>4. hopOf[c] = None
    BY <2>1 DEF HopsAttended
  <2> QED
    BY <1>0, <2>2, <2>3, <2>4 DEF HopsHeld
<1>11. ASSUME NEW h \in Hosts, Disconnect(h) PROVE HopsHeld'
  <2> DEFINE S == Released(h)
  <2>1. /\ hostToJump' = [hostToJump EXCEPT ![h] = {}]
        /\ jumpClients' = [p \in Prefixes |-> IF p \in S THEN None ELSE jumpClients[p]]
        /\ live' = live \ ({clients[h]} \cup {jumpClients[p] : p \in S})
        /\ hopOf' = hopOf /\ calls' = calls
    BY <1>11 DEF Disconnect
  <2>2. ASSUME NEW p \in hostToJump[h] \ S
        PROVE  \E g \in Hosts \ {h} : p \in hostToJump[g]
    BY <2>2 DEF Released, NeededByOther
  <2> HIDE DEF S
  <2>3. \A p : p \notin S /\ HeldFirmly(p) => HeldFirmly(p)'
    BY <2>1, <2>2 DEF HeldFirmly, Building, TypeOK
  <2> SUFFICES ASSUME NEW c \in live', hopOf[c] # None
               PROVE  jumpClients'[hopOf[c]] = c /\ HeldFirmly(hopOf[c])'
    BY <2>1 DEF HopsHeld
  <2>4. c \in live /\ hopOf[c] \in Prefixes /\ jumpClients[hopOf[c]] = c
        /\ HeldFirmly(hopOf[c])
    BY <1>0, <2>1 DEF HopsHeld, TypeOK
  <2>5. hopOf[c] \notin S
    BY <2>1, <2>4
  <2> QED
    BY <2>1, <2>3, <2>4, <2>5
<1>12. ASSUME NEW c \in Clients, Drop(c) PROVE HopsHeld'
  BY <1>0, <1>12 DEF Drop, HopsHeld, HeldFirmly, Building
<1>13. CASE UNCHANGED vars
  BY <1>0, <1>13 DEF vars, HopsHeld, HeldFirmly, Building
<1> QED
  BY <1>1, <1>2, <1>3, <1>4, <1>5, <1>6, <1>7, <1>8, <1>9, <1>10, <1>11, <1>12, <1>13
     DEF Next, ConnectStep

(* The inductive invariant holds at first,                                 *)
LEMMA InvInit == Init => ChainInv
<1> SUFFICES ASSUME Init PROVE ChainInv
  OBVIOUS
<1> USE JumpChainAssumption
<1>1. TypeOK
  BY IdleCallTyped, IdleCallFields DEF Init, TypeOK
<1>2. TargetsKnown
  BY IdleCallFields DEF Init, TargetsKnown
<1>3. CacheSound
  BY DEF Init, CacheSound
<1>4. HopsAttended
  BY DEF Init, HopsAttended
<1> QED
  BY <1>1, <1>2, <1>3, <1>4 DEF ChainInv

(* is kept by every step,                                                  *)
LEMMA InvStep == ChainInv /\ [Next]_vars => ChainInv'
<1> SUFFICES ASSUME ChainInv, [Next]_vars PROVE ChainInv'
  OBVIOUS
<1> USE DEF ChainInv
<1>1. TypeOK' /\ TargetsKnown' /\ CacheSound'
  BY TypeStep, TargetsStep, CacheStep
<1>2. HopsAttended'
  <2>1. \A c \in Clients \ used' : hopOf'[c] = None
    BY UnusedStep DEF HopsAttended
  <2>2. \A p \in inflight' : \E k \in Calls : AwaitsHop(k, p)'
    BY AwaitedStep DEF HopsAttended
  <2>3. HopsHeld'
    BY HeldStep
  <2> QED
    BY <2>1, <2>2, <2>3 DEF HopsAttended, HopsHeld
<1> QED
  BY <1>1, <1>2

(* and so holds in every reachable state.                                  *)
LEMMA Invariance == Spec => []ChainInv
  BY InvInit, InvStep, PTL DEF Spec

(* dialChain, _teardownJumpChain: no bastion stays connected that no host  *)
(* has registered and no connect in progress has opened.                   *)
THEOREM HopsNotLeaked == Spec => []NoHopLeaked
<1>1. ChainInv => NoHopLeaked
  BY DEF ChainInv, HopsAttended, HeldFirmly, NoHopLeaked, Held
<1> QED
  BY <1>1, Invariance, PTL

(* _ensureHop: two sessions through one bastion never have two connections *)
(* to it.                                                                  *)
THEOREM OneClientEach == Spec => []OneClientPerPrefix
<1>1. ChainInv => OneClientPerPrefix
  BY DEF ChainInv, HopsAttended, OneClientPerPrefix
<1> QED
  BY <1>1, Invariance, PTL

(***************************************************************************)
(* What a step does to the pool of hops, and that this is what HopPool     *)
(* allows.                                                                 *)
(***************************************************************************)
Up == {p \in Prefixes : jumpClients[p] \in live}

(* A host that registers other hops, or none, changes what it wants.       *)
LEMMA RetargetIsChange ==
  ASSUME TypeOK, CacheSound, NEW h, NEW keys, NEW S,
         Retargets(h, keys, S), CloseHops(S)
  PROVE  Pool!Change(h, keys)
<1>1. S \in SUBSET Prefixes /\ h \in Hosts
  BY DEF Retargets
<1>2. Up' = Up \ S
  BY <1>1, CloseHopsEffect DEF Up
<1>3. Dropped(h, keys) = Pool!OnlyFor(h) \ keys
  BY DEF Dropped, NeededByOther, Pool!OnlyFor
<1> DEFINE idle == Up \cap (S \ Dropped(h, keys))
<1>4. idle \in SUBSET Pool!Unwanted
  BY DEF Retargets, Pool!Unwanted, Up
<1>5. Up' = (Up \ Dropped(h, keys)) \ idle
  BY <1>2 DEF Retargets
<1> HIDE DEF idle
<1>6. hostToJump' = [hostToJump EXCEPT ![h] = keys]
  BY DEF Retargets
<1> QED
  BY <1>3, <1>4, <1>5, <1>6 DEF Pool!Change, Up

(* Every step is one of the pool, or leaves the pool as it is.             *)
LEMMA PoolStep ==
  ASSUME TypeOK, TargetsKnown, CacheSound, [Next]_vars
  PROVE  [Pool!Next]_<<Up, hostToJump>>
<1> USE JumpChainAssumption DEF svcVars, netVars
<1> DEFINE P == [Pool!Next]_<<Up, hostToJump>>
<1>1. ASSUME NEW h \in Hosts, NEW keys \in SUBSET Prefixes, Pool!Change(h, keys) PROVE P
  BY <1>1 DEF Pool!Next
<1>2. ASSUME UNCHANGED <<jumpClients, live, hostToJump>> PROVE P
  BY <1>2 DEF Up
<1>3. ASSUME NEW k \in Calls, DialHop(k) PROVE P
  <2> DEFINE q == Prefix(calls[k].chain, calls[k].pos)
  <2>1. /\ jumpClients[q] \notin live
        /\ jumpClients' = [jumpClients EXCEPT ![q] = None]
        /\ UNCHANGED <<hostToJump, live>>
    BY <1>3 DEF DialHop
  <2> HIDE DEF q
  <2>2. None \notin live
    BY DEF TypeOK
  <2>3. \A p \in Prefixes : jumpClients'[p] \in live' <=> jumpClients[p] \in live
    BY <2>1, <2>2 DEF TypeOK
  <2>4. Up' = Up
    BY <2>3 DEF Up
  <2> QED
    BY <2>1, <2>4
<1>4. ASSUME NEW p \in Prefixes, HopDialled(p) PROVE P
  <2> DEFINE c == FreshClient
  <2>1. c \in Clients /\ c \notin used
    BY <1>4, FreshIsNew DEF HopDialled
  <2>2. /\ live' = live \cup {c} /\ hostToJump' = hostToJump /\ p \in inflight
        /\ jumpClients' = [jumpClients EXCEPT ![p] = c]
    BY <1>4 DEF HopDialled
  <2> HIDE DEF c
  <2>3. \A q \in Prefixes : jumpClients[q] # c
    BY <2>1 DEF CacheSound
  <2>4. jumpClients'[p] \in live' /\ \A q \in Prefixes \ {p} :
          jumpClients'[q] \in live' <=> jumpClients[q] \in live
    BY <2>2, <2>3 DEF TypeOK
  <2>5. Up' = Up \cup {p} /\ p \notin Up
    BY <2>2, <2>4 DEF Up, CacheSound
  <2>6. Pool!Dial(p)
    BY <2>2, <2>5 DEF Pool!Dial, Up
  <2> QED
    BY <2>6 DEF Pool!Next
<1>5. ASSUME NEW k \in Calls, ConnectFailed(k) PROVE P
  <2> DEFINE h == calls[k].target
             keys == {}
             S == Abandoned(k) \cup Released(h)
  <2>1. Retargets(h, keys, S) /\ CloseHops(S)
    BY <1>5, AfterConnectFailed
  <2> HIDE DEF h, keys, S
  <2> QED
    BY <1>1, <2>1, RetargetIsChange DEF Retargets
<1>6. ASSUME NEW k \in Calls, ChainReady(k) PROVE P
  <2> DEFINE h == calls[k].target
             keys == PrefixesOf(calls[k].chain)
             S == Dropped(h, keys)
  <2>1. Retargets(h, keys, S) /\ CloseHops(S)
    BY <1>6, AfterChainReady
  <2> HIDE DEF h, keys, S
  <2> QED
    BY <1>1, <2>1, RetargetIsChange DEF Retargets
<1>7. ASSUME NEW k \in Calls, TargetFailed(k) PROVE P
  <2> DEFINE h == calls[k].target
             keys == {}
             S == Released(h)
  <2>1. Retargets(h, keys, S) /\ CloseHops(S)
    BY <1>7, AfterTargetFailed
  <2> HIDE DEF h, keys, S
  <2> QED
    BY <1>1, <2>1, RetargetIsChange DEF Retargets
<1>8. ASSUME NEW h \in RdpHosts, NEW b \in Hosts, OpenTunnelSocket(h, b) PROVE P
  <2> DEFINE keys == {<<b>>}
             S == Dropped(h, keys)
  <2>1. Retargets(h, keys, S) /\ CloseHops(S)
    BY <1>8, AfterOpenTunnel
  <2> HIDE DEF keys, S
  <2> QED
    BY <1>1, <2>1, RetargetIsChange DEF Retargets
<1>9. ASSUME NEW k \in Calls, TargetConnected(k) PROVE P
  <2>1. FreshClient \notin used /\ live' = live \cup {FreshClient}
        /\ UNCHANGED <<jumpClients, hostToJump>>
    BY <1>9, FreshIsNew DEF TargetConnected
  <2>2. None # FreshClient
    BY <1>9, FreshIsNew DEF TargetConnected
  <2>3. \A p \in Prefixes : jumpClients[p] # FreshClient
    BY <2>1, <2>2 DEF CacheSound
  <2>4. Up' = Up
    BY <2>1, <2>3 DEF Up
  <2> QED
    BY <2>1, <2>4
<1>10. ASSUME NEW h \in Hosts, Disconnect(h) PROVE P
  <2> DEFINE S == Released(h)
  <2>1. /\ hostToJump' = [hostToJump EXCEPT ![h] = {}]
        /\ jumpClients' = [p \in Prefixes |-> IF p \in S THEN None ELSE jumpClients[p]]
        /\ live' = live \ ({clients[h]} \cup {jumpClients[p] : p \in S})
        /\ S \in SUBSET Prefixes
    BY <1>10, ClosedArePrefixes DEF Disconnect
  <2>2. S = Pool!OnlyFor(h) \ {}
    BY DEF Released, NeededByOther, Pool!OnlyFor
  <2> HIDE DEF S
  <2>3. None \notin live
    BY DEF TypeOK
  <2>4. ASSUME NEW p \in Prefixes \ S, jumpClients[p] \in live
        PROVE  jumpClients[p] \in live'
    BY <2>1, <2>3, <2>4 DEF CacheSound
  <2>5. \A p \in Prefixes : jumpClients'[p] \in live' <=> jumpClients[p] \in live /\ p \notin S
    BY <2>1, <2>3, <2>4
  <2>6. Up' = (Up \ S) \ {}
    BY <2>5 DEF Up
  <2>7. Pool!Change(h, {})
    BY <2>1, <2>2, <2>6 DEF Pool!Change, Pool!Unwanted, Up
  <2> QED
    BY <1>1, <2>7
<1>11. ASSUME NEW c \in Clients, Drop(c) PROVE P
  <2>1. live' = live \ {c} /\ c \in live /\ UNCHANGED <<jumpClients, hostToJump>>
    BY <1>11 DEF Drop
  <2>2. CASE \E p \in Prefixes : jumpClients[p] = c
    <3>1. PICK p \in Prefixes : jumpClients[p] = c
      BY <2>2
    <3>2. \A q \in Prefixes : jumpClients[q] = c => q = p
      BY <3>1 DEF CacheSound
    <3>3. Up' = Up \ {p}
      BY <2>1, <3>1, <3>2 DEF Up
    <3>4. Pool!Lose(p)
      BY <2>1, <3>3 DEF Pool!Lose, Up
    <3> QED
      BY <3>4 DEF Pool!Next
  <2>3. CASE \A p \in Prefixes : jumpClients[p] # c
    BY <2>1, <2>3 DEF Up
  <2> QED
    BY <2>2, <2>3
<1> QED
  BY <1>2, <1>3, <1>4, <1>5, <1>6, <1>7, <1>8, <1>9, <1>10, <1>11
     DEF Next, ConnectStep, Connect, ReuseHop, HopFailed, vars

(* The hops of SshService are a reference-counted pool: a hop goes down    *)
(* only with the network, or when no host has it registered any more, and  *)
(* then at once.                                                           *)
THEOREM ChainsArePool == Spec => ImplementsHopPool
<1>1. Init => Pool!Init
  <2> SUFFICES ASSUME Init PROVE Up = {} /\ hostToJump = [h \in Hosts |-> {}]
    BY DEF Pool!Init, Up
  <2> QED
    BY DEF Init, Up
<1>2. ChainInv /\ [Next]_vars => [Pool!Next]_(Pool!poolVars)
  BY PoolStep DEF ChainInv, Pool!poolVars, Up
<1> QED
  BY <1>1, <1>2, Invariance, PTL DEF Spec, ImplementsHopPool, Pool!Spec

(* A hop that is up and stays registered for a host stays up.              *)
Survives == \A h \in Hosts, p \in Prefixes :
              p \in hostToJump[h] /\ p \in hostToJump'[h] /\ jumpClients[p] \in live
                => jumpClients'[p] = jumpClients[p]

(* The hops that are closed on a change of chain are needed by no host.    *)
LEMMA RetargetSpares ==
  ASSUME TypeOK, CacheSound, NEW h, NEW keys, NEW S,
         Retargets(h, keys, S), CloseHops(S)
  PROVE  Survives
<1> SUFFICES ASSUME NEW g \in Hosts, NEW p \in Prefixes,
                    p \in hostToJump[g], p \in hostToJump'[g]
             PROVE  jumpClients'[p] = jumpClients[p]
  BY DEF Survives
<1>1. S \in SUBSET Prefixes /\ h \in Hosts
  BY DEF Retargets
<1>2. p \notin Dropped(h, keys)
  BY <1>1 DEF Retargets, Dropped, NeededByOther, TypeOK
<1>3. p \notin S
  BY <1>2 DEF Retargets
<1> QED
  BY <1>1, <1>3, CloseHopsEffect

(* "A mid-chain failure closes only the clients [...] that no surviving    *)
(* target references": no step takes a hop that is up from a host that     *)
(* keeps it registered.                                                    *)
THEOREM RegisteredSurvive == Spec => RegisteredHopsSurvive
<1> USE JumpChainAssumption
<1>1. ASSUME ChainInv, Next PROVE Survives
  <2> USE <1>1 DEF ChainInv, svcVars, netVars
  <2>1. ASSUME UNCHANGED jumpClients PROVE Survives
    BY <2>1 DEF Survives
  <2>2. ASSUME NEW k \in Calls, DialHop(k) PROVE Survives
    BY <2>2 DEF DialHop, Survives, TypeOK
  <2>3. ASSUME NEW p \in Prefixes, HopDialled(p) PROVE Survives
    <3>1. jumpClients' = [jumpClients EXCEPT ![p] = FreshClient] /\ p \in inflight
      BY <2>3 DEF HopDialled
    <3> QED
      BY <3>1 DEF Survives, TypeOK, CacheSound
  <2>4. ASSUME NEW k \in Calls, ConnectFailed(k) PROVE Survives
    BY <2>4, AfterConnectFailed, RetargetSpares
  <2>5. ASSUME NEW k \in Calls, ChainReady(k) PROVE Survives
    BY <2>5, AfterChainReady, RetargetSpares
  <2>6. ASSUME NEW k \in Calls, TargetFailed(k) PROVE Survives
    BY <2>6, AfterTargetFailed, RetargetSpares
  <2>7. ASSUME NEW h \in RdpHosts, NEW b \in Hosts, OpenTunnelSocket(h, b) PROVE Survives
    BY <2>7, AfterOpenTunnel, RetargetSpares
  <2>8. ASSUME NEW h \in Hosts, Disconnect(h) PROVE Survives
    BY <2>8 DEF Disconnect, Released, NeededByOther, Survives, TypeOK
  <2> QED
    BY <2>1, <2>2, <2>3, <2>4, <2>5, <2>6, <2>7, <2>8
       DEF Next, ConnectStep, Connect, ReuseHop, HopFailed, TargetConnected, Drop
<1>2. ChainInv /\ [Next]_vars => [Survives]_vars
  BY <1>1
<1> QED
  BY <1>2, Invariance, PTL DEF Spec, RegisteredHopsSurvive, Survives
=============================================================================
