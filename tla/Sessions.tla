------------------------------ MODULE Sessions ------------------------------
(***************************************************************************)
(* The SSH tabs of one host: SessionProvider (connect, _doConnect,         *)
(* _scheduleReconnect, closeSession) over SshService (connect, openShell,  *)
(* disconnect, disconnectSession), with the recording of a tab             *)
(* (RecordingProvider, RecordingService) that a connect may start and the  *)
(* end of a shell stops.                                                   *)
(*                                                                         *)
(* Every dial makes a client of its own, which replaces the registered one *)
(* of the host.  A client is named after the tab that dialled it.  Whether *)
(* it is still up is left open: a shell may be refused or end at any time. *)
(***************************************************************************)
EXTENDS Dart, Naturals, FiniteSets

CONSTANTS
  SshTabs,      (* SshSession objects                                      *)
  RecordedTabs, (* the tabs whose recording is followed                    *)
  MaxAttempts,  (* the setting reconnectAttempts; 0, no limit, is left out *)
  MaxStarts     (* bound on startRecording calls of a tab in flight        *)

ASSUME SessionsAssumption ==
  /\ MaxAttempts \in Nat \ {0}
  /\ MaxStarts \in Nat
  /\ RecordedTabs \subseteq SshTabs

VARIABLES
  tab,        (* SshSession.status; "none" before, "closed" after          *)
  activity,   (* where the _doConnect of the tab is                        *)
  attempt,    (* its attempt argument                                      *)
  timer,      (* tabs with a running timer in _reconnectTimers             *)
  registered, (* _clients[host]: the tab that dialled it, or None          *)
  leftBehind, (* history: tabs closed while their connect was in flight    *)
  recording,  (* RecordingService._active                                  *)
  indicator,  (* RecordingProvider._activeIds                              *)
  starts,     (* startRecording calls that await the directory             *)
  stops       (* tabs whose provider stopRecording awaits the flush        *)

connVars    == <<tab, activity, attempt, timer, registered, leftBehind>>
recVars     == <<recording, indicator, starts, stops>>
sessionVars == <<connVars, recVars>>

SessionsTypeOK ==
  /\ tab        \in [SshTabs -> {"none", "connecting", "connected", "disconnected",
                                 "error", "closed"}]
  /\ activity   \in [SshTabs -> {"none", "dialling", "opening", "shell"}]
  /\ attempt    \in [SshTabs -> 1..MaxAttempts]
  /\ timer      \subseteq SshTabs
  /\ registered \in SshTabs \cup {None}
  /\ leftBehind \subseteq SshTabs
  /\ recording  \subseteq SshTabs
  /\ indicator  \subseteq SshTabs
  /\ starts     \in [SshTabs -> 0..MaxStarts]
  /\ stops      \subseteq SshTabs

SessionsInit ==
  /\ tab        = [s \in SshTabs |-> "none"]
  /\ activity   = [s \in SshTabs |-> "none"]
  /\ attempt    = [s \in SshTabs |-> 1]
  /\ timer      = {}
  /\ registered = None
  /\ leftBehind = {}
  /\ recording  = {}
  /\ indicator  = {}
  /\ starts     = [s \in SshTabs |-> 0]
  /\ stops      = {}

(* _sessions.contains(session)                                             *)
Tracked(s) == tab[s] \notin {"none", "closed"}

Becomes(s, status) ==
  tab' = IF Tracked(s) THEN [tab EXCEPT ![s] = status] ELSE tab

(* RecordingProvider.startRecording and what it starts in the service.     *)
StartRecording(s) ==
  /\ indicator' = indicator \cup {s}
  /\ starts' = IF s \in indicator \/ s \in recording THEN starts
               ELSE [starts EXCEPT ![s] = @ + 1]
  /\ UNCHANGED <<recording, stops>>

(* stopRecording in the service, with its onRecordingStopped callback.     *)
StopQuietly(s) ==  (* mutant: the provider is not told *)
  /\ recording' = recording \ {s}
  /\ UNCHANGED indicator

StopInService(s) ==
  /\ recording' = recording \ {s}
  /\ indicator' = IF s \in recording THEN indicator \ {s} ELSE indicator

(***************************************************************************)
(* Connecting and reconnecting                                             *)
(***************************************************************************)
Dialling(s, a) ==
  /\ activity' = [activity EXCEPT ![s] = "dialling"]
  /\ attempt'  = [attempt EXCEPT ![s] = a]

ConnectTab(s) ==
  /\ tab[s] = "none"
  /\ tab' = [tab EXCEPT ![s] = "connecting"]
  /\ Dialling(s, 1)
  /\ UNCHANGED <<timer, registered, leftBehind, recVars>>

ScheduleReconnect(s, a) ==
  /\ Becomes(s, "connecting")
  /\ timer'    = timer \cup {s}
  /\ activity' = [activity EXCEPT ![s] = "none"]
  /\ attempt'  = [attempt EXCEPT ![s] = a]

TimerFires(s) ==
  /\ s \in timer
  /\ timer' = timer \ {s}
  /\ IF Tracked(s) THEN Dialling(s, attempt[s]) ELSE UNCHANGED <<activity, attempt>>
  /\ UNCHANGED <<tab, registered, leftBehind, recVars>>

EndsWith(s, status) ==
  /\ Becomes(s, status)
  /\ activity' = [activity EXCEPT ![s] = "none"]
  /\ UNCHANGED <<attempt, timer>>

(* The catch clause of _doConnect.  retry: auto-reconnect is on, a setting *)
(* that may change at any time, and the error is not one of configuration. *)
ConnectThrewUnchecked(s, retry) ==  (* mutant: closed tabs are retried *)
  /\ IF retry /\ attempt[s] < MaxAttempts
     THEN ScheduleReconnect(s, attempt[s] + 1)
     ELSE EndsWith(s, "error")
  /\ UNCHANGED <<registered, leftBehind, recVars>>

ConnectThrewForever(s, retry) ==  (* mutant: one attempt too many *)
  /\ IF Tracked(s) /\ retry /\ attempt[s] <= MaxAttempts
     THEN ScheduleReconnect(s, attempt[s] + 1)
     ELSE EndsWith(s, "error")
  /\ UNCHANGED <<registered, leftBehind, recVars>>

ConnectThrew(s, retry) ==
  /\ IF Tracked(s) /\ retry /\ attempt[s] < MaxAttempts
     THEN ScheduleReconnect(s, attempt[s] + 1)
     ELSE EndsWith(s, "error")
  /\ UNCHANGED <<registered, leftBehind, recVars>>

(* The client is registered, whoever still wants it; then the recording of *)
(* a host with autoRecord is started and the shell is opened.              *)
DialSucceeds(s, autoRecord) ==
  /\ activity[s] = "dialling"
  /\ registered' = s
  /\ Becomes(s, "connected")
  /\ activity'   = [activity EXCEPT ![s] = "opening"]
  /\ autoRecord => s \in RecordedTabs /\ starts[s] < MaxStarts
  /\ IF autoRecord THEN StartRecording(s) ELSE UNCHANGED recVars
  /\ UNCHANGED <<attempt, timer, leftBehind>>

DialFails(s, retry) == activity[s] = "dialling" /\ ConnectThrew(s, retry)

ShellOpens(s) ==
  /\ activity[s] = "opening"
  /\ activity' = [activity EXCEPT ![s] = "shell"]
  /\ UNCHANGED <<tab, attempt, timer, registered, leftBehind, recVars>>

ShellRefused(s, retry) == activity[s] = "opening" /\ ConnectThrew(s, retry)

(* onDone of the shell: _onShellClosed, then the rest of _doConnect.       *)
ShellEnds(s, retry) ==
  /\ activity[s] = "shell"
  /\ IF Tracked(s) /\ retry
     THEN ScheduleReconnect(s, 1)
     ELSE EndsWith(s, "disconnected")
  /\ StopInService(s)
  /\ UNCHANGED <<registered, leftBehind, starts, stops>>

(***************************************************************************)
(* closeSession; the last tab of the host takes the client along           *)
(***************************************************************************)
LastTabCountsItself(s) == FALSE  (* mutant: looks before the tab is removed *)

LastTab(s) == \A r \in SshTabs \ {s} : ~Tracked(r)

CloseSshTab(s) ==
  /\ Tracked(s)
  /\ tab'   = [tab EXCEPT ![s] = "closed"]
  /\ timer' = timer \ {s}
  /\ registered' = IF LastTab(s) THEN None ELSE registered
  /\ leftBehind' = IF activity[s] = "dialling" THEN leftBehind \cup {s} ELSE leftBehind
  /\ UNCHANGED <<activity, attempt, recVars>>

(***************************************************************************)
(* Recording                                                               *)
(***************************************************************************)
UserStartsRecording(s) ==
  /\ Tracked(s) /\ s \in RecordedTabs \ indicator
  /\ starts[s] < MaxStarts
  /\ StartRecording(s)
  /\ UNCHANGED connVars

(* The directory is there and the file is open; or that failed.            *)
RecordingStarted(s) ==
  /\ starts[s] > 0
  /\ starts'    = [starts EXCEPT ![s] = @ - 1]
  /\ recording' = recording \cup {s}
  /\ UNCHANGED <<connVars, indicator, stops>>

RecordingNotStarted(s) ==
  /\ starts[s] > 0
  /\ starts'    = [starts EXCEPT ![s] = @ - 1]
  /\ indicator' = indicator \ {s}
  /\ UNCHANGED <<connVars, recording, stops>>

(* RecordingProvider.stopRecording: the service's part, then, after the    *)
(* flush if there was something to stop, the provider's own.  One flush of *)
(* a tab at a time is followed.                                            *)
UserStopsRecording(s) ==
  /\ s \in indicator /\ s \notin stops
  /\ recording' = recording \ {s}
  /\ indicator' = indicator \ {s}
  /\ stops'     = IF s \in recording THEN stops \cup {s} ELSE stops
  /\ UNCHANGED <<connVars, starts>>

RecordingFlushed(s) ==
  /\ s \in stops
  /\ stops'     = stops \ {s}
  /\ indicator' = indicator \ {s}
  /\ UNCHANGED <<connVars, recording, starts>>

DoConnectStep(s) ==
  \/ \E autoRecord \in BOOLEAN : DialSucceeds(s, autoRecord)
  \/ \E retry \in BOOLEAN : DialFails(s, retry) \/ ShellRefused(s, retry)
  \/ ShellOpens(s)

SessionsNext ==
  \/ \E s \in SshTabs :
       \/ ConnectTab(s) \/ DoConnectStep(s) \/ TimerFires(s)
       \/ \E retry \in BOOLEAN : ShellEnds(s, retry)
       \/ CloseSshTab(s)
       \/ UserStartsRecording(s) \/ RecordingStarted(s) \/ RecordingNotStarted(s)
       \/ UserStopsRecording(s) \/ RecordingFlushed(s)

SessionsSpec == SessionsInit /\ [][SessionsNext]_sessionVars

(***************************************************************************)
(* Properties.                                                             *)
(***************************************************************************)

(* What a tab shows is backed by something that will change it: a tab      *)
(* "connecting" has a dial in flight or a timer, never both, a tab         *)
(* "connected" has its shell or is opening it, nothing runs behind the     *)
(* back of a tab that shows an end, and no timer dials for a closed tab.   *)
StatusBacked ==
  \A s \in SshTabs :
    /\ tab[s] = "connecting" => (s \in timer) # (activity[s] = "dialling")
    /\ tab[s] = "connected"  => activity[s] \in {"opening", "shell"} /\ s \notin timer
    /\ tab[s] \in {"disconnected", "error"} => activity[s] = "none" /\ s \notin timer
    /\ tab[s] = "closed" => s \notin timer

(* "If no more sessions for this host remain, tear down the SSH client":   *)
(* the registered client of a host without tabs is one whose tab was       *)
(* closed while the connect was in flight, and no other.                   *)
ClientHasTab ==
  (registered # None /\ \A s \in SshTabs : ~Tracked(s)) => registered \in leftBehind

(* "Without this the provider's REC indicator stays red while writeOutput  *)
(* silently no-ops": a red indicator has a recording, or one that starts,  *)
(* however starts, stops, failures and ends of shells interleave.          *)
RedMeansRecording ==
  \A s \in SshTabs : s \in indicator => s \in recording \/ starts[s] > 0
=============================================================================
