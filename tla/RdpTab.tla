------------------------------- MODULE RdpTab -------------------------------
(***************************************************************************)
(* One RDP tab, from connectRdp to closeSession: RdpSession, its RdpClient *)
(* with the event stream of the Rust engine (rdp_connect, run_session) and *)
(* the command queue of the engine, and, if the host has a bastion, the    *)
(* RdpTunnelProxy between the engine's socket and an SSH channel.          *)
(*                                                                         *)
(* The engine runs on its own threads.  It posts events to the isolate in  *)
(* order and reads its commands only when the connection is up.            *)
(***************************************************************************)
EXTENDS Dart, Naturals, Sequences

VARIABLES
  tunnelled,  (* the host has a jumpHostId                                 *)
  rdpStatus,  (* RdpSession.status; "none" before connectRdp               *)
  message,    (* what lastMessage is about                                 *)
  closing,    (* where RdpSession.close() is                               *)
  asking,     (* certCheckCallback is awaited                              *)
  sessionId,  (* RdpClient._sessionId is set                               *)
  disconnectRequested, (* _disconnectRequested                             *)
  listening,  (* RdpClient._sub is set                                     *)
  events,     (* posted by the engine, not yet handled by the isolate      *)
  engine,     (* the Rust session                                          *)
  command,    (* SessionCmd::Disconnect is in its queue                    *)
  pipe,       (* where the one connection of the proxy is                  *)
  channel,    (* the SSH channel under the proxy is open                   *)
  stopped,    (* RdpTunnelProxy._stopped                                   *)
  tunnelClosed, (* RdpSession._tunnelClosed                                *)
  collapsed,  (* history: the SSH side ended while engine and tab went on  *)
  decode,     (* _decodeLoop: with a buffer of all patches, or an old one  *)
  dirtyAgain, (* _dirtyAgain                                               *)
  stale       (* the framebuffer has patches that image does not show      *)

tabVarsR    == <<tunnelled, rdpStatus, message, asking>>
clientVars  == <<sessionId, disconnectRequested, listening, events>>
engineVars  == <<engine, command>>
proxyVars   == <<pipe, channel, stopped, tunnelClosed, collapsed>>
imageVars   == <<decode, dirtyAgain, stale>>
rdpVars     == <<tabVarsR, closing, clientVars, engineVars, proxyVars, imageVars>>

RdpEvents == {"started", "connected", "mismatch", "frame", "disconnected", "error"}
Terminal  == {"disconnected", "error"}

RdpTypeOK ==
  /\ tunnelled \in BOOLEAN
  /\ rdpStatus \in {"none", "connecting", "connected"} \cup Terminal
  /\ message   \in {"none", "certificate", "reason", "tunnel"}
  /\ closing   \in {"open", "awaiting", "stopping", "closed"}
  /\ asking    \in BOOLEAN
  /\ sessionId \in BOOLEAN /\ disconnectRequested \in BOOLEAN /\ listening \in BOOLEAN
  /\ events    \in Seq(RdpEvents) /\ (~listening => events = <<>>)
  /\ engine    \in {"none", "starting", "handshake", "active", "ended"}
  /\ command   \in BOOLEAN
  /\ pipe      \in {"waiting", "opening", "piping", "ended"}
  /\ channel   \in BOOLEAN /\ stopped \in BOOLEAN
  /\ tunnelClosed \in BOOLEAN /\ collapsed \in BOOLEAN
  /\ decode    \in {"idle", "all", "old"}
  /\ dirtyAgain \in BOOLEAN /\ stale \in BOOLEAN

RdpInit ==
  /\ tunnelled \in BOOLEAN
  /\ rdpStatus = "none" /\ message = "none"
  /\ closing   = "open" /\ asking = FALSE
  /\ sessionId = FALSE /\ disconnectRequested = FALSE /\ listening = FALSE
  /\ events    = <<>>
  /\ engine    = "none" /\ command = FALSE
  /\ pipe      = "waiting" /\ channel = FALSE /\ stopped = FALSE
  /\ tunnelClosed = FALSE /\ collapsed = FALSE
  /\ decode    = "idle" /\ dirtyAgain = FALSE /\ stale = FALSE

(* sink.add: dropped when Dart has cancelled; frames in a row are merged.  *)
PostAlways(es) == events' = events \o es  (* mutant: to a cancelled stream *)

PostAll(es) ==
  events' = CASE ~listening -> events
              [] es = <<"frame">> /\ events # <<>> /\ events[Len(events)] = "frame" -> events
              [] OTHER -> events \o es

(* connectRdp: the proxy listens, client.connect() calls rdp_connect.      *)
ConnectRdp ==
  /\ rdpStatus = "none"
  /\ rdpStatus' = "connecting"
  /\ engine'    = "starting"
  /\ listening' = TRUE
  /\ UNCHANGED <<tunnelled, message, asking, closing, sessionId, disconnectRequested,
                 events, command, proxyVars, imageVars>>

(* RdpClient.disconnect up to its await.                                   *)
Disconnecting ==
  /\ command' = (command \/ (sessionId /\ engine # "ended"))
  /\ disconnectRequested' = (disconnectRequested \/ ~sessionId)

(***************************************************************************)
(* The engine                                                              *)
(***************************************************************************)
EngineTo(stage, es) ==
  /\ engine' = stage
  /\ PostAll(es)
  /\ UNCHANGED <<tabVarsR, closing, sessionId, disconnectRequested, listening,
                 command, proxyVars, imageVars>>

(* Its connection ends at an SSH channel, or at a socket that is destroyed *)
(* by the proxy, which no longer accepts once it is stopped.               *)
Reachable == ~tunnelled \/ (pipe = "piping" /\ channel)
Broken    == tunnelled /\ (pipe = "ended" \/ closing = "closed")

EngineStarts   == engine = "starting" /\ EngineTo("handshake", <<"started">>)
EngineConnects == engine = "handshake" /\ Reachable /\ EngineTo("active", <<"connected">>)
EngineRefuses  == engine = "handshake" /\ Reachable
                    /\ EngineTo("ended", <<"mismatch", "error">>)
EngineFails    == engine \in {"handshake", "active"} /\ EngineTo("ended", <<"error">>)
ServerEnds     == engine = "active" /\ Reachable /\ EngineTo("ended", <<"disconnected">>)
EngineObeys    == engine = "active" /\ command /\ EngineTo("ended", <<"disconnected">>)
EnginePaints   == engine = "active" /\ Reachable /\ EngineTo("active", <<"frame">>)

(***************************************************************************)
(* RdpTunnelProxy: one connection, of the engine                           *)
(***************************************************************************)
SilentlyClosed == UNCHANGED tunnelClosed  (* mutant: no onClosed *)

NotifyClosed == tunnelClosed' = (tunnelClosed \/ ~stopped)

ProxyAccepts ==
  /\ tunnelled /\ engine = "handshake" /\ pipe = "waiting" /\ ~stopped
  /\ pipe' = "opening"
  /\ UNCHANGED <<tabVarsR, closing, clientVars, engineVars, channel, stopped,
                 tunnelClosed, collapsed, imageVars>>

(* openTunnel answers, before or after a stop that did not wait for it.    *)
TunnelOpens ==
  /\ pipe = "opening"
  /\ pipe' = "piping" /\ channel' = TRUE
  /\ UNCHANGED <<tabVarsR, closing, clientVars, engineVars, stopped, tunnelClosed,
                 collapsed, imageVars>>

TunnelRefused ==
  /\ pipe = "opening"
  /\ pipe' = "ended"
  /\ NotifyClosed
  /\ collapsed' = (collapsed \/ (engine # "ended" /\ closing = "open"))
  /\ UNCHANGED <<tabVarsR, closing, clientVars, engineVars, channel, stopped, imageVars>>

(* _pipeEnded                                                              *)
PipeEndedHalf ==  (* mutant: only the local socket is closed *)
  /\ pipe' = "ended"
  /\ NotifyClosed
  /\ UNCHANGED channel

PipeEnded ==
  /\ pipe' = "ended"
  /\ NotifyClosed
  /\ channel' = FALSE

(* onDone of the engine's socket, also of one destroyed before the listen. *)
EngineSideEnds ==
  /\ pipe = "piping" /\ (engine = "ended" \/ closing = "closed")
  /\ PipeEnded
  /\ UNCHANGED <<tabVarsR, closing, clientVars, engineVars, stopped, collapsed, imageVars>>

SshSideEnds ==
  /\ pipe = "piping"
  /\ PipeEnded
  /\ collapsed' = (collapsed \/ (engine # "ended" /\ closing = "open"))
  /\ UNCHANGED <<tabVarsR, closing, clientVars, engineVars, stopped, imageVars>>

(***************************************************************************)
(* The event stream in the isolate: RdpClient, then RdpSession._onEvent,   *)
(* whose own subscription close() cancels first                            *)
(***************************************************************************)
Handle(e) == listening /\ events # <<>> /\ Head(events) = e /\ events' = Tail(events)

OnStarted ==
  /\ Handle("started")
  /\ sessionId' = TRUE
  /\ command'   = (command \/ (disconnectRequested /\ engine # "ended"))
  /\ UNCHANGED <<tabVarsR, closing, disconnectRequested, listening, engine, proxyVars,
                 imageVars>>

OnConnected ==
  /\ Handle("connected")
  /\ asking' = (asking \/ closing = "open")
  /\ UNCHANGED <<tunnelled, rdpStatus, message, closing, sessionId,
                 disconnectRequested, listening, engineVars, proxyVars, imageVars>>

Reports(status, msg) ==
  IF closing = "open" THEN rdpStatus' = status /\ message' = msg
                      ELSE UNCHANGED <<rdpStatus, message>>

OnCertMismatch ==
  /\ Handle("mismatch")
  /\ Reports("error", "certificate")
  /\ UNCHANGED <<tunnelled, asking, closing, sessionId, disconnectRequested, listening,
                 engineVars, proxyVars, imageVars>>

(* _patch, _scheduleDecode                                                 *)
PatchUnnoticed ==  (* mutant: _dirtyAgain is not set *)
  /\ stale'  = TRUE
  /\ decode' = IF decode = "idle" THEN "all" ELSE "old"
  /\ UNCHANGED dirtyAgain

Patch ==
  /\ stale'  = TRUE
  /\ decode' = IF decode = "idle" THEN "all" ELSE "old"
  /\ dirtyAgain' = (decode # "idle")

OnFrameUpdate ==
  /\ Handle("frame")
  /\ IF closing = "open" THEN Patch ELSE UNCHANGED imageVars
  /\ UNCHANGED <<tabVarsR, closing, sessionId, disconnectRequested, listening,
                 engineVars, proxyVars>>

(* RdpClient._finish, then Disconnected or Error in _onEvent.              *)
OnEnd(e) ==
  /\ Handle(e)
  /\ sessionId' = FALSE /\ listening' = FALSE
  /\ Reports(e, IF tunnelClosed THEN "tunnel" ELSE "reason")
  /\ UNCHANGED <<tunnelled, asking, closing, disconnectRequested, engineVars,
                 proxyVars, imageVars>>

(* The dialog is answered, perhaps minutes later.                          *)
CertAnsweredLate(ok) ==  (* mutant: no look at the status *)
  /\ asking
  /\ asking'    = FALSE
  /\ rdpStatus' = IF ok THEN "connected" ELSE "error"
  /\ message'   = IF ok THEN message ELSE "certificate"
  /\ IF ok THEN UNCHANGED <<command, disconnectRequested>> ELSE Disconnecting
  /\ UNCHANGED <<tunnelled, closing, sessionId, listening, events, engine, proxyVars,
                 imageVars>>

CertAnswered(ok) ==
  /\ asking
  /\ asking' = FALSE
  /\ IF closing # "open" \/ rdpStatus # "connecting"
     THEN UNCHANGED <<rdpStatus, message, command, disconnectRequested>>
     ELSE IF ok
     THEN rdpStatus' = "connected" /\ UNCHANGED <<message, command, disconnectRequested>>
     ELSE rdpStatus' = "error" /\ message' = "certificate" /\ Disconnecting
  /\ UNCHANGED <<tunnelled, closing, sessionId, listening, events, engine, proxyVars,
                 imageVars>>

(* The decoded image is shown, unless the tab was closed.                  *)
DecodeDone ==
  /\ decode # "idle"
  /\ decode' = IF closing = "open" /\ dirtyAgain THEN "all" ELSE "idle"
  /\ stale'  = (closing # "open" \/ decode = "old")
  /\ dirtyAgain' = (dirtyAgain /\ closing # "open")
  /\ UNCHANGED <<tabVarsR, closing, clientVars, engineVars, proxyVars>>

(***************************************************************************)
(* closeSession, RdpSession.close                                          *)
(***************************************************************************)
(* client.dispose() and the first line of the proxy's stop().              *)
Disposed ==
  /\ closing'   = "stopping"
  /\ listening' = FALSE
  /\ events'    = <<>>
  /\ stopped'   = tunnelled

(* Nothing is awaited when the session id is not known.                    *)
CloseRdp ==
  /\ rdpStatus # "none" /\ closing = "open"
  /\ Disconnecting
  /\ IF sessionId
     THEN closing' = "awaiting" /\ UNCHANGED <<listening, events, stopped>>
     ELSE Disposed
  /\ UNCHANGED <<tabVarsR, sessionId, engine, pipe, channel, tunnelClosed, collapsed,
                 imageVars>>

(* The end of the engine was handled, or 5 s are over.                     *)
CloseDisposesWhenDone ==  (* mutant: no timeout *)
  /\ closing = "awaiting" /\ ~sessionId
  /\ Disposed
  /\ UNCHANGED <<tabVarsR, sessionId, disconnectRequested, engineVars, pipe, channel,
                 tunnelClosed, collapsed, imageVars>>

CloseDisposes ==
  /\ closing = "awaiting"
  /\ Disposed
  /\ UNCHANGED <<tabVarsR, sessionId, disconnectRequested, engineVars, pipe, channel,
                 tunnelClosed, collapsed, imageVars>>

(* The server socket of the proxy is closed, then both ends of the pipe.   *)
CloseEnds ==
  /\ closing = "stopping"
  /\ closing' = "closed"
  /\ channel' = FALSE
  /\ UNCHANGED <<tabVarsR, clientVars, engineVars, pipe, stopped, tunnelClosed,
                 collapsed, imageVars>>

RdpNext ==
  \/ ConnectRdp \/ CloseRdp \/ CloseDisposes \/ CloseEnds
  \/ EngineStarts \/ EngineConnects \/ EngineRefuses \/ EngineFails
  \/ ServerEnds \/ EngineObeys \/ EnginePaints
  \/ ProxyAccepts \/ TunnelOpens \/ TunnelRefused \/ EngineSideEnds \/ SshSideEnds
  \/ OnStarted \/ OnConnected \/ OnCertMismatch \/ OnFrameUpdate
  \/ \E e \in Terminal : OnEnd(e)
  \/ \E ok \in BOOLEAN : CertAnswered(ok)
  \/ DecodeDone

RdpSpec == RdpInit /\ [][RdpNext]_rdpVars

(* The engine gets to run, and notices a socket that is destroyed; so does *)
(* the proxy; openTunnel and a decode end, as do the awaits of close().    *)
(* Nothing makes a handshake end, nor an engine read its commands: there   *)
(* is no timeout, "a wedged transport can stall the graceful disconnect    *)
(* indefinitely".                                                          *)
RdpFairness ==
  /\ WF_rdpVars(EngineStarts)
  /\ WF_rdpVars(Broken /\ EngineFails)
  /\ WF_rdpVars(TunnelOpens \/ TunnelRefused)
  /\ WF_rdpVars(EngineSideEnds)
  /\ WF_rdpVars(DecodeDone)
  /\ WF_rdpVars(CloseDisposes) /\ WF_rdpVars(CloseEnds)

(***************************************************************************)
(* Properties.                                                             *)
(***************************************************************************)

(* _onEvent: "The dialog can stay open for minutes [...] Never overwrite a *)
(* terminal status back to connected."                                     *)
TerminalStays ==
  [][(rdpStatus \in Terminal) => (rdpStatus' \in Terminal)]_rdpVars

(* markTunnelClosed: "so the disconnect message names the real cause": an  *)
(* SSH side that collapsed is never reported as anything else.             *)
CollapseIsNamed == collapsed => message # "reason"

(* RdpTunnelProxy.stop: a channel that is opened for a tab while or after  *)
(* the tab is closed does not stay open.                                   *)
ChannelCloses == stopped ~> []~channel

(* _scheduleDecode: "patches landing while a decode is running set a flag  *)
(* and a single follow-up decode picks them all up": no patch of an open   *)
(* tab waits for a decode that does not come.                              *)
NoPatchForgotten == stale /\ closing = "open" => decode # "idle"

(* RdpSession.close: "A wedged transport can stall the graceful disconnect *)
(* indefinitely - never let that block tunnel teardown below", "Rust side  *)
(* will die with the tunnel": once its tab is closed, the engine behind a  *)
(* bastion ends, though it reads no command and its handshake never does.  *)
ClosedEngineEnds == tunnelled /\ closing # "open" ~> engine = "ended"

(* RdpClient.disconnect: "flag the intent so the session is torn down as   *)
(* soon as its id arrives (instead of orphaning the Rust loop)": when a    *)
(* flagged engine is up, the command is in its queue, or the event that    *)
(* brings its id can still arrive, or its tunnel is torn down.             *)
FlaggedIsTornDown ==
  disconnectRequested /\ engine = "active" => command \/ listening \/ tunnelled
=============================================================================
