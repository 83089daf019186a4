----------------------------- MODULE JumpChain -----------------------------
(***************************************************************************)
(* Bastion hops in SshService: connect() with a jump chain, dialChain(),   *)
(* _ensureHop(), _retargetJumpChain(), _teardownJumpChain(), disconnect()  *)
(* and openTunnelSocket().                                                 *)
(*                                                                         *)
(* A hop is cached under its chain prefix: <<a, b>> (the code's "a>b") is  *)
(* b reached through a, another client than <<b>>.  Several connects run   *)
(* at the same time and share hops; a hop is closed when the app thinks    *)
(* nobody needs it.  As in the code, an action is the run of one           *)
(* continuation between two awaits.                                        *)
(***************************************************************************)
EXTENDS Naturals, Sequences

CONSTANTS
  Hosts,     (* saved hosts, targets and bastions                          *)
  ChainsOf,  (* the jumpHostIds a host may have (edited, synced, imported) *)
  RdpHosts,  (* hosts reached with openTunnelSocket(), from a bastion      *)
  Calls,     (* connect() activations that may run at the same time        *)
  Clients,   (* SSH clients; bounds the number of dials                    *)
  None       (* Dart null                                                  *)

ASSUME JumpChainAssumption ==
  /\ ChainsOf \in [Hosts -> SUBSET Seq(Hosts)]
  /\ RdpHosts \subseteq Hosts
  /\ None \notin Clients /\ None \notin Hosts

(* chain.take(i).join('>')                                                 *)
Prefix(chain, i) == SubSeq(chain, 1, i)
PrefixesOf(chain) == {Prefix(chain, i) : i \in 1..Len(chain)}

Chains == UNION {ChainsOf[h] : h \in Hosts}
Prefixes == (UNION {PrefixesOf(ch) : ch \in Chains}) \cup {<<h>> : h \in Hosts}

VARIABLES
  clients,      (* _clients                                                *)
  jumpClients,  (* _jumpClients                                            *)
  inflight,     (* _jumpInflight: the prefixes being dialled               *)
  hostToJump,   (* _hostToJump, {} for an absent entry                     *)
  calls,        (* the connect() activations                               *)
  live,         (* clients whose connection is up                          *)
  used,         (* clients created so far                                  *)
  over,         (* the client whose channel a client rides, None if direct *)
  hopOf,        (* the prefix a hop client was dialled for                 *)
  dialOver      (* what the dial of a prefix rides                         *)

svcVars == <<clients, jumpClients, inflight, hostToJump>>
netVars == <<live, used, over, hopOf, dialOver>>
vars    == <<svcVars, calls, netVars>>

(* idle -> walk -> (hop -> walk)* -> target -> idle; failed on an error.   *)
Phases == {"idle", "walk", "hop", "failed", "target"}
Call == [phase  : Phases,
         target : Hosts \cup {None},
         chain  : Chains \cup {<<>>},
         pos    : Nat \ {0},
         prev   : Clients \cup {None},
         opened : SUBSET Prefixes]

IdleCall == [phase |-> "idle", target |-> None, chain |-> <<>>, pos |-> 1,
             prev |-> None, opened |-> {}]

TypeOK ==
  /\ clients     \in [Hosts -> Clients \cup {None}]
  /\ jumpClients \in [Prefixes -> Clients \cup {None}]
  /\ inflight    \subseteq Prefixes
  /\ hostToJump  \in [Hosts -> SUBSET Prefixes]
  /\ calls       \in [Calls -> Call]
  /\ live        \subseteq used
  /\ used        \subseteq Clients
  /\ over        \in [Clients -> Clients \cup {None}]
  /\ hopOf       \in [Clients -> Prefixes \cup {None}]
  /\ dialOver    \in [Prefixes -> Clients \cup {None}]
  /\ \A k \in Calls : calls[k].phase = "hop"
       => Prefix(calls[k].chain, calls[k].pos) \in inflight

Init ==
  /\ clients     = [h \in Hosts |-> None]
  /\ jumpClients = [p \in Prefixes |-> None]
  /\ inflight    = {}
  /\ hostToJump  = [h \in Hosts |-> {}]
  /\ calls       = [k \in Calls |-> IdleCall]
  /\ live        = {}
  /\ used        = {}
  /\ over        = [c \in Clients |-> None]
  /\ hopOf       = [c \in Clients |-> None]
  /\ dialOver    = [p \in Prefixes |-> None]

(* A new client.  Which one does not matter: they are all alike.           *)
FreshClient == CHOOSE c \in Clients \ used : TRUE

(* Continuations that need no I/O run before any socket or user event.     *)
Settled == \A k \in Calls : calls[k].phase \notin {"walk", "failed"}

Cyclic(h, chain) ==
  \/ \E i \in 1..Len(chain) : chain[i] = h
  \/ \E i, j \in 1..Len(chain) : i # j /\ chain[i] = chain[j]

(* _hostToJump.values.any((ks) => ks.contains(prefix)), h's own left aside *)
NeededByOther(p, h) == \E g \in Hosts \ {h} : p \in hostToJump[g]

(* _jumpClients.remove(prefix)?.close() for every prefix of S              *)
CloseHops(S) ==
  /\ jumpClients' = [p \in Prefixes |-> IF p \in S THEN None ELSE jumpClients[p]]
  /\ live'        = live \ {jumpClients[p] : p \in S}

(* _teardownJumpChain                                                      *)
ReleasedUnguarded(h) == hostToJump[h]  (* mutant: no look at other hosts *)

Released(h) == {p \in hostToJump[h] : ~NeededByOther(p, h)}

(* _retargetJumpChain                                                      *)
DroppedUnguarded(h, keys) == hostToJump[h] \ keys  (* mutant *)

Dropped(h, keys) == {p \in hostToJump[h] \ keys : ~NeededByOther(p, h)}

(* Mutant of Abandoned: dialChain without its catch clause.                *)
NothingAbandoned(k) == {}

(* The catch clause of dialChain.                                          *)
Abandoned(k) == {p \in calls[k].opened :
                   p \notin inflight /\ \A g \in Hosts : p \notin hostToJump[g]}

(***************************************************************************)
(* connect()                                                               *)
(***************************************************************************)
Connect(k, h, chain) ==
  /\ Settled
  /\ calls[k].phase = "idle"
  /\ calls' = [calls EXCEPT ![k] =
                 [IdleCall EXCEPT !.target = h, !.chain = chain,
                    !.phase = CASE chain = <<>>     -> "target"
                                [] Cyclic(h, chain) -> "failed"
                                [] OTHER            -> "walk"]]
  /\ UNCHANGED <<svcVars, netVars>>

(* dialChain: a live cached hop is reused.                                 *)
ReuseHop(k) ==
  LET call == calls[k]
      p    == Prefix(call.chain, call.pos)
  IN
  /\ call.phase = "walk" /\ call.pos <= Len(call.chain)
  /\ jumpClients[p] \in live
  /\ calls' = [calls EXCEPT ![k].prev = jumpClients[p], ![k].pos = @ + 1]
  /\ UNCHANGED <<svcVars, netVars>>

(* Mutant of DialHop: the cached client is not looked at.                  *)
DialHopAnyway(k) ==
  LET call == calls[k]
      p    == Prefix(call.chain, call.pos)
  IN
  /\ call.phase = "walk" /\ call.pos <= Len(call.chain)
  /\ inflight' = inflight \cup {p}
  /\ dialOver' = [dialOver EXCEPT ![p] = call.prev]
  /\ calls'    = [calls EXCEPT ![k].phase = "hop"]
  /\ UNCHANGED <<clients, jumpClients, hostToJump, live, used, over, hopOf>>

(* dialChain, _ensureHop: a dead cached hop is evicted; a dial in flight   *)
(* is joined; otherwise this call dials, over the previous hop.            *)
DialHop(k) ==
  LET call == calls[k]
      p    == Prefix(call.chain, call.pos)
  IN
  /\ call.phase = "walk" /\ call.pos <= Len(call.chain)
  /\ jumpClients[p] \notin live
  /\ jumpClients' = [jumpClients EXCEPT ![p] = None]
  /\ inflight'    = inflight \cup {p}
  /\ dialOver'    = IF p \in inflight THEN dialOver
                    ELSE [dialOver EXCEPT ![p] = call.prev]
  /\ calls'       = [calls EXCEPT ![k].phase = "hop"]
  /\ UNCHANGED <<clients, hostToJump, live, used, over, hopOf>>

AwaitsHop(k, p) ==
  calls[k].phase = "hop" /\ Prefix(calls[k].chain, calls[k].pos) = p

(* The dial resumes the call that made it and every call that joined it.   *)
HopDialled(p) ==
  /\ Settled
  /\ p \in inflight
  /\ dialOver[p] \in live \cup {None}
  /\ used # Clients
  /\ LET c == FreshClient IN
       /\ used'        = used \cup {c}
       /\ live'        = live \cup {c}
       /\ over'        = [over EXCEPT ![c] = dialOver[p]]
       /\ hopOf'       = [hopOf EXCEPT ![c] = p]
       /\ jumpClients' = [jumpClients EXCEPT ![p] = c]
       /\ calls'       = [k \in Calls |->
            IF AwaitsHop(k, p)
            THEN [calls[k] EXCEPT !.phase = "walk", !.prev = c, !.pos = @ + 1,
                                  !.opened = @ \cup {p}]
            ELSE calls[k]]
  /\ inflight' = inflight \ {p}
  /\ dialOver' = [dialOver EXCEPT ![p] = None]
  /\ UNCHANGED <<clients, hostToJump>>

(* Mutant of HopFailed: a call that joined the dial is not resumed.        *)
HopFailedForOne(p) ==
  /\ Settled
  /\ p \in inflight
  /\ inflight' = inflight \ {p}
  /\ dialOver' = [dialOver EXCEPT ![p] = None]
  /\ \E k \in Calls : AwaitsHop(k, p)
                     /\ calls' = [calls EXCEPT ![k].phase = "failed"]
  /\ UNCHANGED <<clients, jumpClients, hostToJump, live, used, over, hopOf>>

HopFailed(p) ==
  /\ Settled
  /\ p \in inflight
  /\ inflight' = inflight \ {p}
  /\ dialOver' = [dialOver EXCEPT ![p] = None]
  /\ calls'    = [k \in Calls |-> IF AwaitsHop(k, p)
                                  THEN [calls[k] EXCEPT !.phase = "failed"]
                                  ELSE calls[k]]
  /\ UNCHANGED <<clients, jumpClients, hostToJump, live, used, over, hopOf>>

(* The catch clauses of dialChain and, around it, of connect.              *)
ConnectFailed(k) ==
  LET h == calls[k].target IN
  /\ calls[k].phase = "failed"
  /\ CloseHops(Abandoned(k) \cup Released(h))
  /\ hostToJump' = [hostToJump EXCEPT ![h] = {}]
  /\ calls'      = [calls EXCEPT ![k] = IdleCall]
  /\ UNCHANGED <<clients, inflight, used, over, hopOf, dialOver>>

(* The last hop is there: only now is the chain registered for the target. *)
ChainReady(k) ==
  LET h    == calls[k].target
      keys == PrefixesOf(calls[k].chain)
  IN
  /\ calls[k].phase = "walk" /\ calls[k].pos > Len(calls[k].chain)
  /\ CloseHops(Dropped(h, keys))
  /\ hostToJump' = [hostToJump EXCEPT ![h] = keys]
  /\ calls'      = [calls EXCEPT ![k].phase = "target"]
  /\ UNCHANGED <<clients, inflight, used, over, hopOf, dialOver>>

(* The new client replaces the one of an earlier session, which stays up.  *)
TargetConnected(k) ==
  LET h == calls[k].target
      c == FreshClient
  IN
  /\ Settled
  /\ calls[k].phase = "target"
  /\ calls[k].prev \in live \cup {None}
  /\ used # Clients
  /\ used'    = used \cup {c}
  /\ live'    = live \cup {c}
  /\ over'    = [over EXCEPT ![c] = calls[k].prev]
  /\ clients' = [clients EXCEPT ![h] = c]
  /\ calls'   = [calls EXCEPT ![k] = IdleCall]
  /\ UNCHANGED <<jumpClients, inflight, hostToJump, hopOf, dialOver>>

TargetFailed(k) ==
  LET h == calls[k].target IN
  /\ Settled
  /\ calls[k].phase = "target"
  /\ CloseHops(Released(h))
  /\ hostToJump' = [hostToJump EXCEPT ![h] = {}]
  /\ calls'      = [calls EXCEPT ![k] = IdleCall]
  /\ UNCHANGED <<clients, inflight, used, over, hopOf, dialOver>>

(***************************************************************************)
(* disconnect(), openTunnelSocket(), the network                           *)
(***************************************************************************)
Disconnect(h) ==
  /\ Settled
  /\ clients'     = [clients EXCEPT ![h] = None]
  /\ hostToJump'  = [hostToJump EXCEPT ![h] = {}]
  /\ jumpClients' = [p \in Prefixes |->
                       IF p \in Released(h) THEN None ELSE jumpClients[p]]
  /\ live'        = live \ ({clients[h]} \cup {jumpClients[p] : p \in Released(h)})
  /\ UNCHANGED <<inflight, calls, used, over, hopOf, dialOver>>

OpenTunnelSocket(h, bastion) ==
  /\ Settled
  /\ clients[bastion] \in live
  /\ CloseHops(Dropped(h, {<<bastion>>}))
  /\ hostToJump' = [hostToJump EXCEPT ![h] = {<<bastion>>}]
  /\ UNCHANGED <<clients, inflight, calls, used, over, hopOf, dialOver>>

(* Network failure; also how a client whose carrier closed gets to end.    *)
Drop(c) ==
  /\ Settled
  /\ c \in live
  /\ live' = live \ {c}
  /\ UNCHANGED <<svcVars, calls, used, over, hopOf, dialOver>>

ConnectStep(k) == \/ ReuseHop(k) \/ DialHop(k) \/ ChainReady(k) \/ ConnectFailed(k)
                  \/ TargetConnected(k) \/ TargetFailed(k)

Next ==
  \/ \E k \in Calls, h \in Hosts : \E ch \in ChainsOf[h] : Connect(k, h, ch)
  \/ \E k \in Calls : ConnectStep(k)
  \/ \E p \in Prefixes : HopDialled(p) \/ HopFailed(p)
  \/ \E h \in Hosts : Disconnect(h)
  \/ \E h \in RdpHosts, b \in Hosts : OpenTunnelSocket(h, b)
  \/ \E c \in Clients : Drop(c)

Spec == Init /\ [][Next]_vars

(* A dial and an authentication end, with a client or an error, whatever   *)
(* the other activations do: what a connect waits for is often, not        *)
(* always, next in line.                                                   *)
DialEnds(p) == HopDialled(p) \/ HopFailed(p)

GoesOn(k) ==
  \/ ConnectStep(k)
  \/ calls[k].phase = "hop" /\ DialEnds(Prefix(calls[k].chain, calls[k].pos))

Fairness == \A k \in Calls : SF_vars(GoesOn(k))

FairSpec == Spec /\ Fairness

(***************************************************************************)
(* Properties.                                                             *)
(***************************************************************************)

(* _ensureHop: "two sessions through the same bastion don't open           *)
(* duplicate connections", whatever the order of dials, failures, drops    *)
(* and teardowns: a prefix has at most one client that is up.              *)
OneClientPerPrefix ==
  \A c, d \in live : hopOf[c] # None /\ hopOf[c] = hopOf[d] => c = d

(* dialChain's catch, _teardownJumpChain: a hop that is up is registered   *)
(* for a target or was opened by a connect that has not ended, so the last *)
(* one of them to go closes it.                                            *)
Held(p) == \/ \E h \in Hosts : p \in hostToJump[h]
           \/ \E k \in Calls : p \in calls[k].opened

NoHopLeaked == \A c \in live : hopOf[c] # None =>
                 /\ jumpClients[hopOf[c]] = c
                 /\ Held(hopOf[c])

(* "A mid-chain failure closes only the clients [...] that no surviving    *)
(* target references": no failure, teardown or re-target of one host       *)
(* closes a hop that another host has registered and keeps.                *)
RegisteredHopsSurvive ==
  [][\A h \in Hosts, p \in Prefixes :
       p \in hostToJump[h] /\ p \in hostToJump'[h] /\ jumpClients[p] \in live
         => jumpClients'[p] = jumpClients[p]]_vars

(* The hops are a reference-counted pool: dials, reuse, failures, edits    *)
(* and teardowns interleaved as they may be, a hop goes down only with the *)
(* network or because no host has it registered, and then at once.         *)
Pool == INSTANCE HopPool WITH
  Hops  <- Prefixes,
  Users <- Hosts,
  up    <- {p \in Prefixes : jumpClients[p] \in live},
  wants <- hostToJump

ImplementsHopPool == Pool!Spec

(* Every connect() ends.                                                   *)
ConnectEnds == \A k \in Calls : calls[k].phase # "idle" ~> calls[k].phase = "idle"

(* dialChain: "a mid-chain failure closes only the clients THIS call       *)
(* opened and that no surviving target references": the hop from which     *)
(* another connect goes on stays up.                                       *)
FailureSparesOthers ==
  [][\A k \in Calls : calls[k].phase = "failed" /\ calls'[k] = IdleCall
       => \A j \in Calls \ {k} : calls[j].phase # "failed" /\ calls[j].prev \in live
            => calls[j].prev \in live']_vars
=============================================================================
