---------------------------- MODULE RdpTab_proofs ----------------------------
(***************************************************************************)
(* Theorems about RdpTab: however the events of the engine, the collapse   *)
(* of the tunnel, the dialog, the decodes and the close interleave.        *)
(***************************************************************************)
EXTENDS RdpTab, TLAPS

(* The end of the engine is the last that is heard of it.                  *)
EndIsLast ==
  /\ rdpStatus = "none" => engine = "none" /\ events = <<>>
  /\ message = "reason" => engine = "ended"
  /\ \A i \in 1..Len(events) :
       events[i] \in Terminal => engine = "ended" /\ i = Len(events)

(* A collapse of the tunnel was told to the session before its reason can  *)
(* matter: _notifyClosed is silent only after the stop of the proxy.       *)
CollapseNoticed ==
  /\ collapsed => tunnelClosed /\ message # "reason"
  /\ closing = "open" => ~stopped

(* A patch that the running decode does not have has set the flag.         *)
PatchNoticed ==
  closing = "open" => /\ decode = "old" => dirtyAgain
                      /\ stale => decode # "idle"

RdpInv == RdpTypeOK /\ EndIsLast /\ CollapseNoticed /\ PatchNoticed

(* What the engine posts waits behind what is there already.               *)
LEMMA Posts ==
  ASSUME RdpInv, engine # "ended", NEW e \in RdpEvents,
         NEW es \in {<<e>>, <<"mismatch", "error">>},
         PostAll(es), UNCHANGED listening
  PROVE  /\ events' \in Seq(RdpEvents) /\ (~listening' => events' = <<>>)
         /\ \A i \in 1..Len(events') : events'[i] \in Terminal =>
              i = Len(events') /\ (e \in Terminal \/ es = <<"mismatch", "error">>)
<1>0. /\ events \in Seq(RdpEvents)
      /\ \A i \in 1..Len(events) : events[i] \notin Terminal
      /\ ~listening => events = <<>>
  BY DEF RdpInv, RdpTypeOK, EndIsLast
<1>1. CASE events' = events
  BY <1>0, <1>1
<1>2. CASE events' = events \o <<e>> /\ es = <<e>> /\ listening
  <2>1. /\ events' \in Seq(RdpEvents) /\ Len(events') = Len(events) + 1
        /\ \A i \in 1..Len(events) : events'[i] = events[i]
        /\ events'[Len(events) + 1] = e
    BY <1>0, <1>2
  <2>2. \A i \in 1..Len(events') : i \in 1..Len(events) \/ i = Len(events) + 1
    BY <1>0, <2>1
  <2> QED
    BY <1>0, <1>2, <2>1, <2>2
<1>3. CASE /\ events' = events \o <<"mismatch", "error">> /\ listening
           /\ es = <<"mismatch", "error">>
  <2>1. /\ events' \in Seq(RdpEvents) /\ Len(events') = Len(events) + 2
        /\ \A i \in 1..Len(events) : events'[i] = events[i]
        /\ events'[Len(events) + 1] = "mismatch"
    BY <1>0, <1>3 DEF RdpEvents
  <2>2. \A i \in 1..Len(events') :
          i \in 1..Len(events) \/ i = Len(events) + 1 \/ i = Len(events) + 2
    BY <1>0, <2>1
  <2>3. "mismatch" \notin Terminal
    BY DEF Terminal
  <2> QED
    BY <1>0, <1>3, <2>1, <2>2, <2>3
<1>4. events' = events \/ (listening /\ events' = events \o es)
  BY DEF PostAll
<1> QED
  BY <1>1, <1>2, <1>3, <1>4

(* What is handled leaves the rest as it was, and the end leaves nothing.  *)
LEMMA Handled ==
  ASSUME RdpInv, NEW e, Handle(e)
  PROVE  /\ events' \in Seq(RdpEvents) /\ listening
         /\ e \in Terminal => engine = "ended" /\ events' = <<>>
         /\ \A i \in 1..Len(events') :
              events'[i] \in Terminal => engine = "ended" /\ i = Len(events')
<1>1. events \in Seq(RdpEvents) /\ events # <<>> /\ events' = Tail(events)
  BY DEF RdpInv, RdpTypeOK, Handle
<1>2. /\ events' \in Seq(RdpEvents) /\ Len(events') = Len(events) - 1
      /\ \A i \in 1..Len(events') : events'[i] = events[i + 1]
  BY <1>1
<1>3. events[1] = e /\ Len(events) \in Nat \ {0} /\ Len(events') \in Nat /\ listening
  BY <1>1, <1>2 DEF Handle
<1>4. \A i \in 1..Len(events') : i + 1 \in 1..Len(events)
  BY <1>2, <1>3
<1>5. \A i \in 1..Len(events) :
        events[i] \in Terminal => engine = "ended" /\ i = Len(events)
  BY DEF RdpInv, EndIsLast
<1>6. ASSUME e \in Terminal PROVE engine = "ended" /\ events' = <<>>
  <2>1. 1 \in 1..Len(events)
    BY <1>3
  <2>2. engine = "ended" /\ Len(events) = 1
    BY <1>3, <1>5, <1>6, <2>1
  <2> QED
    BY <1>2, <2>2
<1>7. ASSUME NEW i \in 1..Len(events'), events'[i] \in Terminal
      PROVE  engine = "ended" /\ i = Len(events')
  <2>1. i + 1 \in 1..Len(events) /\ events[i + 1] \in Terminal
    BY <1>2, <1>4, <1>7
  <2>2. engine = "ended" /\ i + 1 = Len(events)
    BY <1>5, <2>1
  <2> QED
    BY <1>2, <1>3, <2>2
<1> QED
  BY <1>2, <1>3, <1>6, <1>7

(* The threads of the engine keep the invariant.                           *)
LEMMA EngineKeeps ==
  ASSUME RdpInv,
         \/ EngineStarts \/ EngineConnects \/ EngineRefuses \/ EngineFails
         \/ ServerEnds \/ EngineObeys \/ EnginePaints
  PROVE  RdpInv'
<1>1. ASSUME NEW stage \in {"handshake", "active", "ended"}, NEW e \in RdpEvents,
             NEW es \in {<<e>>, <<"mismatch", "error">>}, EngineTo(stage, es),
             engine \notin {"none", "ended"},
             e \in Terminal \/ es = <<"mismatch", "error">> => stage = "ended"
      PROVE  RdpInv'
  <2>1. PostAll(es) /\ engine' = stage /\ rdpStatus # "none"
    BY <1>1 DEF EngineTo, RdpInv, EndIsLast
  <2>2. /\ events' \in Seq(RdpEvents) /\ (~listening' => events' = <<>>)
        /\ \A i \in 1..Len(events') :
             events'[i] \in Terminal => stage = "ended" /\ i = Len(events')
    BY <1>1, <2>1, Posts DEF EngineTo, clientVars
  <2>3. RdpTypeOK'
    BY <1>1, <2>1, <2>2
    DEF EngineTo, RdpInv, RdpTypeOK, tabVarsR, proxyVars, imageVars, Terminal
  <2> QED
    BY <1>1, <2>1, <2>2, <2>3
    DEF EngineTo, RdpInv, EndIsLast, CollapseNoticed, PatchNoticed, tabVarsR,
        proxyVars, imageVars
<1> USE DEF RdpEvents, Terminal
<1>2. CASE EngineStarts
  BY <1>1, <1>2 DEF EngineStarts
<1>3. CASE EngineConnects
  BY <1>1, <1>3 DEF EngineConnects
<1>4. CASE EngineRefuses
  BY <1>1, <1>4 DEF EngineRefuses
<1>5. CASE EngineFails
  BY <1>1, <1>5 DEF EngineFails
<1>6. CASE ServerEnds
  BY <1>1, <1>6 DEF ServerEnds
<1>7. CASE EngineObeys
  BY <1>1, <1>7 DEF EngineObeys
<1>8. CASE EnginePaints
  BY <1>1, <1>8 DEF EnginePaints
<1> QED
  BY <1>2, <1>3, <1>4, <1>5, <1>6, <1>7, <1>8

(* The handlers of the event stream keep the invariant.                    *)
LEMMA HandlersKeep ==
  ASSUME RdpInv,
         \/ OnStarted \/ OnConnected \/ OnCertMismatch \/ OnFrameUpdate
         \/ \E e \in Terminal : OnEnd(e)
  PROVE  RdpInv'
<1> USE DEF tabVarsR, engineVars, proxyVars, imageVars
<1>0. PICK e : Handle(e) /\ (OnEnd(e) \/ e \notin Terminal)
  BY DEF OnStarted, OnConnected, OnCertMismatch, OnFrameUpdate, OnEnd, Terminal
<1>1. /\ events' \in Seq(RdpEvents) /\ listening
      /\ \A i \in 1..Len(events') :
           events'[i] \in Terminal => engine = "ended" /\ i = Len(events')
  BY <1>0, Handled
<1>2. rdpStatus # "none"
  BY <1>0 DEF Handle, RdpInv, EndIsLast
<1> HIDE DEF RdpInv
<1>3. CASE OnStarted
  BY <1>1, <1>2, <1>3
  DEF OnStarted, RdpInv, RdpTypeOK, EndIsLast, CollapseNoticed, PatchNoticed
<1>4. CASE OnConnected
  BY <1>1, <1>2, <1>4
  DEF OnConnected, RdpInv, RdpTypeOK, EndIsLast, CollapseNoticed, PatchNoticed
<1>5. CASE OnCertMismatch
  BY <1>1, <1>2, <1>5
  DEF OnCertMismatch, Reports, RdpInv, RdpTypeOK, EndIsLast, CollapseNoticed,
      PatchNoticed, Terminal
<1>6. CASE OnFrameUpdate
  <2>1. RdpTypeOK'
    <3>1. dirtyAgain' \in BOOLEAN /\ stale' \in BOOLEAN
      BY <1>6, Zenon DEF OnFrameUpdate, Patch, RdpInv, RdpTypeOK
    <3> QED
      BY <1>1, <1>6, <3>1 DEF OnFrameUpdate, Patch, RdpInv, RdpTypeOK
  <2>2. EndIsLast' /\ CollapseNoticed'
    BY <1>1, <1>2, <1>6 DEF OnFrameUpdate, RdpInv, EndIsLast, CollapseNoticed
  <2>3. PatchNoticed'
    BY <1>6 DEF OnFrameUpdate, Patch, RdpInv, PatchNoticed
  <2> QED
    BY <2>1, <2>2, <2>3 DEF RdpInv
<1>7. ASSUME NEW f \in Terminal, OnEnd(f) PROVE RdpInv'
  <2>1. engine = "ended" /\ events' \in Seq(RdpEvents) /\ events' = <<>>
    BY <1>7, Handled DEF OnEnd
  <2>2. RdpTypeOK'
    <3>1. rdpStatus' \in {"none", "connecting", "connected"} \cup Terminal
      BY <1>7 DEF OnEnd, Reports, RdpInv, RdpTypeOK
    <3>2. message' \in {"none", "certificate", "reason", "tunnel"}
      BY <1>7, Zenon DEF OnEnd, Reports, RdpInv, RdpTypeOK
    <3>3. sessionId' \in BOOLEAN /\ listening' \in BOOLEAN
      BY <1>7 DEF OnEnd
    <3> QED
      BY <1>7, <2>1, <3>1, <3>2, <3>3 DEF OnEnd, RdpInv, RdpTypeOK
  <2>3. EndIsLast'
    BY <1>2, <1>7, <2>1 DEF OnEnd, Reports, RdpInv, EndIsLast, Terminal
  <2>4. CollapseNoticed' /\ PatchNoticed'
    BY <1>7 DEF OnEnd, Reports, RdpInv, CollapseNoticed, PatchNoticed
  <2> QED
    BY <2>2, <2>3, <2>4 DEF RdpInv
<1> QED
  BY <1>3, <1>4, <1>5, <1>6, <1>7

(* The proxy, which may be told of its end by the SSH side first.          *)
LEMMA ProxyKeeps ==
  ASSUME RdpInv,
         ProxyAccepts \/ TunnelOpens \/ TunnelRefused \/ EngineSideEnds \/ SshSideEnds
  PROVE  RdpInv'
<1> USE DEF tabVarsR, clientVars, engineVars, imageVars
<1>1. CASE ProxyAccepts
  BY <1>1
  DEF ProxyAccepts, RdpInv, RdpTypeOK, EndIsLast, CollapseNoticed, PatchNoticed
<1>2. CASE TunnelOpens
  BY <1>2
  DEF TunnelOpens, RdpInv, RdpTypeOK, EndIsLast, CollapseNoticed, PatchNoticed
<1>3. CASE TunnelRefused \/ EngineSideEnds \/ SshSideEnds
  <2> USE DEF TunnelRefused, EngineSideEnds, SshSideEnds, PipeEnded, NotifyClosed
  <2>1. tunnelClosed' \in BOOLEAN /\ collapsed' \in BOOLEAN /\ channel' \in BOOLEAN
    BY <1>3, Zenon DEF RdpInv, RdpTypeOK
  <2>2. RdpTypeOK'
    BY <1>3, <2>1 DEF RdpInv, RdpTypeOK
  <2>3. collapsed' => tunnelClosed' /\ message' # "reason"
    BY <1>3, Zenon DEF RdpInv, EndIsLast, CollapseNoticed
  <2>4. EndIsLast' /\ PatchNoticed' /\ (closing' = "open" => ~stopped')
    BY <1>3 DEF RdpInv, EndIsLast, CollapseNoticed, PatchNoticed
  <2> QED
    BY <2>2, <2>3, <2>4 DEF RdpInv, CollapseNoticed
<1> QED
  BY <1>1, <1>2, <1>3

(* The user, who opens, answers and closes, and the end of a decode.       *)
LEMMA TabKeeps ==
  ASSUME RdpInv,
         \/ ConnectRdp \/ CloseRdp \/ CloseDisposes \/ CloseEnds
         \/ \E ok \in BOOLEAN : CertAnswered(ok)
         \/ DecodeDone
  PROVE  RdpInv'
<1> USE DEF tabVarsR, clientVars, engineVars, proxyVars, imageVars
<1>1. CASE ConnectRdp
  BY <1>1
  DEF ConnectRdp, RdpInv, RdpTypeOK, EndIsLast, CollapseNoticed, PatchNoticed
<1>2. CASE CloseRdp
  <2>1. command' \in BOOLEAN /\ disconnectRequested' \in BOOLEAN /\ stopped' \in BOOLEAN
    BY <1>2, Zenon DEF CloseRdp, Disconnecting, Disposed, RdpInv, RdpTypeOK
  <2>2. closing' \in {"open", "awaiting", "stopping", "closed"}
    BY <1>2 DEF CloseRdp, Disposed
  <2>3. events' \in Seq(RdpEvents) /\ listening' \in BOOLEAN /\ (~listening' => events' = <<>>)
    <3>1. CASE sessionId
      BY <1>2, <3>1 DEF CloseRdp, RdpInv, RdpTypeOK
    <3>2. CASE ~sessionId
      <4>1. events' = <<>> /\ listening' = FALSE
        BY <1>2, <3>2 DEF CloseRdp, Disposed
      <4>2. events' \in Seq(RdpEvents)
        BY <4>1
      <4> QED
        BY <4>1, <4>2
    <3> QED
      BY <3>1, <3>2
  <2>4. RdpTypeOK'
    BY <1>2, <2>1, <2>2, <2>3 DEF CloseRdp, RdpInv, RdpTypeOK
  <2>5. EndIsLast' /\ CollapseNoticed' /\ PatchNoticed'
    BY <1>2
    DEF CloseRdp, Disposed, RdpInv, EndIsLast, CollapseNoticed, PatchNoticed
  <2> QED
    BY <2>4, <2>5 DEF RdpInv
<1>3. CASE CloseDisposes
  <2>1. events' = <<>> /\ listening' \in BOOLEAN /\ closing' = "stopping"
    BY <1>3 DEF CloseDisposes, Disposed
  <2>2. events' \in Seq(RdpEvents) /\ closing' \in {"open", "awaiting", "stopping", "closed"}
    BY <2>1
  <2>3. stopped' \in BOOLEAN
    BY <1>3 DEF CloseDisposes, Disposed, RdpInv, RdpTypeOK
  <2>4. RdpTypeOK'
    BY <1>3, <2>1, <2>2, <2>3 DEF CloseDisposes, RdpInv, RdpTypeOK
  <2>5. EndIsLast' /\ CollapseNoticed' /\ PatchNoticed'
    BY <1>3, <2>1
    DEF CloseDisposes, RdpInv, EndIsLast, CollapseNoticed, PatchNoticed
  <2> QED
    BY <2>4, <2>5 DEF RdpInv
<1>6. CASE CloseEnds
  <2>1. channel' \in BOOLEAN /\ closing' \in {"open", "awaiting", "stopping", "closed"}
    BY <1>6 DEF CloseEnds
  <2>2. RdpTypeOK'
    BY <1>6, <2>1 DEF CloseEnds, RdpInv, RdpTypeOK
  <2>3. EndIsLast' /\ CollapseNoticed' /\ PatchNoticed'
    BY <1>6 DEF CloseEnds, RdpInv, EndIsLast, CollapseNoticed, PatchNoticed
  <2> QED
    BY <2>2, <2>3 DEF RdpInv
<1>4. ASSUME NEW ok \in BOOLEAN, CertAnswered(ok) PROVE RdpInv'
  <2>1. command' \in BOOLEAN /\ disconnectRequested' \in BOOLEAN
    BY <1>4, Zenon DEF CertAnswered, Disconnecting, RdpInv, RdpTypeOK
  <2>2. /\ rdpStatus' \in {rdpStatus, "connected", "error"}
        /\ message' \in {message, "certificate"}
        /\ rdpStatus' = "none" => rdpStatus = "none"
    BY <1>4 DEF CertAnswered
  <2>3. RdpTypeOK'
    <3>1. /\ rdpStatus' \in {"none", "connecting", "connected"} \cup Terminal
          /\ message' \in {"none", "certificate", "reason", "tunnel"}
      BY <2>2 DEF RdpInv, RdpTypeOK, Terminal
    <3>2. asking' \in BOOLEAN
      BY <1>4 DEF CertAnswered
    <3> QED
      BY <1>4, <2>1, <3>1, <3>2 DEF CertAnswered, RdpInv, RdpTypeOK
  <2>4. EndIsLast' /\ CollapseNoticed' /\ PatchNoticed'
    BY <1>4, <2>2
    DEF CertAnswered, RdpInv, EndIsLast, CollapseNoticed, PatchNoticed
  <2> QED
    BY <2>3, <2>4 DEF RdpInv
<1>5. CASE DecodeDone
  <2>1. stale' \in BOOLEAN /\ dirtyAgain' \in BOOLEAN
    BY <1>5, Zenon DEF DecodeDone, RdpInv, RdpTypeOK
  <2>2. RdpTypeOK' /\ EndIsLast' /\ CollapseNoticed'
    BY <1>5, <2>1 DEF DecodeDone, RdpInv, RdpTypeOK, EndIsLast, CollapseNoticed
  <2>3. PatchNoticed'
    BY <1>5 DEF DecodeDone, RdpInv, RdpTypeOK, PatchNoticed
  <2> QED
    BY <2>2, <2>3 DEF RdpInv
<1> QED
  BY <1>1, <1>2, <1>3, <1>4, <1>5, <1>6

(* RdpInv holds in every reachable state.                                  *)
LEMMA RdpInvariant == RdpSpec => []RdpInv
<1>1. RdpInit => RdpInv
  <2> SUFFICES ASSUME RdpInit PROVE RdpInv
    OBVIOUS
  <2>0. events \in Seq(RdpEvents)
    BY DEF RdpInit
  <2>1. RdpTypeOK
    BY <2>0 DEF RdpInit, RdpTypeOK
  <2>2. EndIsLast /\ CollapseNoticed /\ PatchNoticed
    BY DEF RdpInit, EndIsLast, CollapseNoticed, PatchNoticed
  <2> QED
    BY <2>1, <2>2 DEF RdpInv
<1>2. RdpInv /\ [RdpNext]_rdpVars => RdpInv'
  <2> SUFFICES ASSUME RdpInv, [RdpNext]_rdpVars PROVE RdpInv'
    OBVIOUS
  <2>1. CASE UNCHANGED rdpVars
    BY <2>1
    DEF rdpVars, tabVarsR, clientVars, engineVars, proxyVars, imageVars, RdpInv,
        RdpTypeOK, EndIsLast, CollapseNoticed, PatchNoticed
  <2> QED
    BY <2>1, EngineKeeps, HandlersKeep, ProxyKeeps, TabKeeps DEF RdpNext
<1> QED
  BY <1>1, <1>2, PTL DEF RdpSpec

(* Every variable keeps its type, and a cancelled stream holds no event.   *)
THEOREM RdpTypeCorrect == RdpSpec => []RdpTypeOK
<1>1. RdpInv => RdpTypeOK
  BY DEF RdpInv
<1> QED
  BY <1>1, RdpInvariant, PTL

(* markTunnelClosed: "so the disconnect message names the real cause": if  *)
(* the SSH side of the tunnel ended while the engine and the tab went on,  *)
(* the tab never shows the reason the engine gives.                        *)
THEOREM CollapseNeverMisnamed == RdpSpec => []CollapseIsNamed
<1>1. RdpInv => CollapseIsNamed
  BY DEF RdpInv, CollapseNoticed, CollapseIsNamed
<1> QED
  BY <1>1, RdpInvariant, PTL

(* _scheduleDecode: a patch that arrives during a decode is picked up by a *)
(* follow-up: no patch of an open tab is left undecoded.                   *)
THEOREM PatchesDecoded == RdpSpec => []NoPatchForgotten
<1>1. RdpInv => NoPatchForgotten
  BY DEF RdpInv, PatchNoticed, NoPatchForgotten
<1> QED
  BY <1>1, RdpInvariant, PTL

(* _onEvent: "Never overwrite a terminal status back to connected": an     *)
(* answer to the certificate dialog, however late, leaves an ended tab as  *)
(* it is.                                                                  *)
THEOREM TerminalIsFinal == RdpSpec => TerminalStays
<1>1. [RdpNext]_rdpVars /\ rdpStatus \in Terminal => rdpStatus' \in Terminal
  <2> SUFFICES ASSUME [RdpNext]_rdpVars, rdpStatus \in Terminal
               PROVE  rdpStatus' \in Terminal
    OBVIOUS
  <2> USE DEF Terminal
  <2>1. CASE \E ok \in BOOLEAN : CertAnswered(ok)
    BY <2>1 DEF CertAnswered
  <2>2. CASE OnCertMismatch \/ \E e \in Terminal : OnEnd(e)
    BY <2>2 DEF OnCertMismatch, OnEnd, Reports
  <2>3. CASE ConnectRdp
    BY <2>3 DEF ConnectRdp
  <2>4. CASE OnStarted \/ OnConnected \/ OnFrameUpdate \/ DecodeDone
    BY <2>4 DEF OnStarted, OnConnected, OnFrameUpdate, DecodeDone, tabVarsR
  <2>5. CASE CloseRdp \/ CloseDisposes \/ CloseEnds
    BY <2>5 DEF CloseRdp, CloseDisposes, CloseEnds, tabVarsR
  <2>6. CASE ProxyAccepts \/ TunnelOpens \/ TunnelRefused \/ EngineSideEnds
             \/ SshSideEnds
    BY <2>6
    DEF ProxyAccepts, TunnelOpens, TunnelRefused, EngineSideEnds, SshSideEnds, tabVarsR
  <2>7. CASE EngineStarts \/ EngineConnects \/ EngineRefuses \/ EngineFails
             \/ ServerEnds \/ EngineObeys \/ EnginePaints
    BY <2>7
    DEF EngineStarts, EngineConnects, EngineRefuses, EngineFails, ServerEnds,
        EngineObeys, EnginePaints, EngineTo, tabVarsR
  <2>8. CASE UNCHANGED rdpVars
    BY <2>8 DEF rdpVars, tabVarsR
  <2> QED
    BY <2>1, <2>2, <2>3, <2>4, <2>5, <2>6, <2>7, <2>8 DEF RdpNext
<1>2. [RdpNext]_rdpVars
        => [(rdpStatus \in Terminal) => (rdpStatus' \in Terminal)]_rdpVars
  BY <1>1
<1> QED
  BY <1>2, PTL DEF RdpSpec, TerminalStays
=============================================================================
