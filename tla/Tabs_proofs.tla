----------------------------- MODULE Tabs_proofs -----------------------------
(***************************************************************************)
(* Theorems about Sessions, for any tabs and any number of attempts, and   *)
(* about TabList, for any number of tabs and hosts: the two halves of      *)
(* SessionProvider.                                                        *)
(***************************************************************************)
EXTENDS Sessions, TabList, Integers, WellFoundedInduction, TLAPS

(***************************************************************************)
(* Types                                                                   *)
(***************************************************************************)
Activities == {"none", "dialling", "opening", "shell"}
TabStates  == {"none", "connecting", "connected", "disconnected", "error", "closed"}

(* A tab that is tracked takes the new status, any other keeps its own.    *)
LEMMA BecomesTyped ==
  ASSUME tab \in [SshTabs -> TabStates], NEW s \in SshTabs, NEW status \in TabStates,
         Becomes(s, status)
  PROVE  tab' \in [SshTabs -> TabStates]
  BY DEF Becomes

(* Both ways out of the catch clause of _doConnect keep the types.         *)
LEMMA ThrewTyped ==
  ASSUME SessionsTypeOK, NEW s \in SshTabs, NEW retry \in BOOLEAN, ConnectThrew(s, retry)
  PROVE  SessionsTypeOK'
<1> USE SessionsAssumption DEF recVars
<1>1. CASE Tracked(s) /\ retry /\ attempt[s] < MaxAttempts
  <2>1. attempt[s] + 1 \in 1..MaxAttempts
    BY <1>1 DEF SessionsTypeOK
  <2>2. tab' \in [SshTabs -> TabStates]
    BY <1>1, BecomesTyped DEF ConnectThrew, ScheduleReconnect, SessionsTypeOK, TabStates
  <2> DEFINE n == attempt[s] + 1
  <2>3. /\ timer' = timer \cup {s} /\ activity' = [activity EXCEPT ![s] = "none"]
        /\ attempt' = [attempt EXCEPT ![s] = n]
        /\ UNCHANGED <<registered, leftBehind, recording, indicator, starts, stops>>
    BY <1>1 DEF ConnectThrew, ScheduleReconnect
  <2> HIDE DEF n
  <2>4. attempt' \in [SshTabs -> 1..MaxAttempts]
    BY <2>1, <2>3 DEF SessionsTypeOK, n
  <2> QED
    BY <2>2, <2>3, <2>4 DEF SessionsTypeOK, TabStates
<1>2. CASE ~(Tracked(s) /\ retry /\ attempt[s] < MaxAttempts)
  <2>1. tab' \in [SshTabs -> TabStates]
    BY <1>2, BecomesTyped DEF ConnectThrew, EndsWith, SessionsTypeOK, TabStates
  <2> QED
    BY <1>2, <2>1 DEF ConnectThrew, EndsWith, SessionsTypeOK, TabStates
<1> QED
  BY <1>1, <1>2

(* Every step keeps the types.                                             *)
LEMMA SessionsTypeStep == SessionsTypeOK /\ [SessionsNext]_sessionVars => SessionsTypeOK'
<1> USE SessionsAssumption DEF connVars, recVars
<1> SUFFICES ASSUME SessionsTypeOK, [SessionsNext]_sessionVars PROVE SessionsTypeOK'
  OBVIOUS
<1>1. ASSUME NEW s \in SshTabs, ConnectTab(s) PROVE SessionsTypeOK'
  BY <1>1 DEF ConnectTab, Dialling, SessionsTypeOK
<1>2. ASSUME NEW s \in SshTabs, NEW auto \in BOOLEAN, DialSucceeds(s, auto)
      PROVE  SessionsTypeOK'
  <2>1. tab' \in [SshTabs -> TabStates]
    BY <1>2, BecomesTyped DEF DialSucceeds, SessionsTypeOK, TabStates
  <2>2. /\ recording' \subseteq SshTabs /\ indicator' \subseteq SshTabs
        /\ starts' \in [SshTabs -> 0..MaxStarts] /\ stops' \subseteq SshTabs
    BY <1>2 DEF DialSucceeds, StartRecording, SessionsTypeOK
  <2> QED
    BY <1>2, <2>1, <2>2 DEF DialSucceeds, SessionsTypeOK, TabStates
<1>3. ASSUME NEW s \in SshTabs, NEW retry \in BOOLEAN,
             DialFails(s, retry) \/ ShellRefused(s, retry)
      PROVE  SessionsTypeOK'
  BY <1>3, ThrewTyped DEF DialFails, ShellRefused
<1>4. ASSUME NEW s \in SshTabs, ShellOpens(s) PROVE SessionsTypeOK'
  BY <1>4 DEF ShellOpens, SessionsTypeOK
<1>5. ASSUME NEW s \in SshTabs, TimerFires(s) PROVE SessionsTypeOK'
  BY <1>5 DEF TimerFires, Dialling, SessionsTypeOK
<1>6. ASSUME NEW s \in SshTabs, NEW retry \in BOOLEAN, ShellEnds(s, retry)
      PROVE  SessionsTypeOK'
  <2>1. tab' \in [SshTabs -> TabStates]
    BY <1>6, BecomesTyped
       DEF ShellEnds, ScheduleReconnect, EndsWith, SessionsTypeOK, TabStates
  <2>2. /\ activity' \in [SshTabs -> Activities]
        /\ attempt' \in [SshTabs -> 1..MaxAttempts] /\ timer' \subseteq SshTabs
    BY <1>6 DEF ShellEnds, ScheduleReconnect, EndsWith, SessionsTypeOK, Activities
  <2>3. recording' \subseteq SshTabs /\ indicator' \subseteq SshTabs
    BY <1>6 DEF ShellEnds, StopInService, SessionsTypeOK
  <2> QED
    BY <1>6, <2>1, <2>2, <2>3 DEF ShellEnds, SessionsTypeOK, TabStates, Activities
<1>7. ASSUME NEW s \in SshTabs, CloseSshTab(s) PROVE SessionsTypeOK'
  BY <1>7 DEF CloseSshTab, SessionsTypeOK
<1>8. ASSUME NEW s \in SshTabs, UserStartsRecording(s) PROVE SessionsTypeOK'
  BY <1>8 DEF UserStartsRecording, StartRecording, SessionsTypeOK
<1>9. ASSUME NEW s \in SshTabs, RecordingStarted(s) \/ RecordingNotStarted(s)
      PROVE  SessionsTypeOK'
  <2>1. starts' = [starts EXCEPT ![s] = starts[s] - 1] /\ starts[s] > 0
    BY <1>9 DEF RecordingStarted, RecordingNotStarted
  <2>2. starts' \in [SshTabs -> 0..MaxStarts]
    BY <2>1 DEF SessionsTypeOK
  <2> QED
    BY <1>9, <2>2 DEF RecordingStarted, RecordingNotStarted, SessionsTypeOK
<1>10. ASSUME NEW s \in SshTabs, UserStopsRecording(s) \/ RecordingFlushed(s)
       PROVE  SessionsTypeOK'
  BY <1>10 DEF UserStopsRecording, RecordingFlushed, SessionsTypeOK
<1>11. CASE UNCHANGED sessionVars
  BY <1>11 DEF sessionVars, SessionsTypeOK
<1> QED
  BY <1>1, <1>2, <1>3, <1>4, <1>5, <1>6, <1>7, <1>8, <1>9, <1>10, <1>11
     DEF SessionsNext, DoConnectStep

(* The tabs of a host, their connects, timers and recordings keep their    *)
(* types; in particular no connect is made beyond the allowed attempts.    *)
THEOREM SessionsTypeCorrect == SessionsSpec => []SessionsTypeOK
<1>1. SessionsInit => SessionsTypeOK
  BY SessionsAssumption DEF SessionsInit, SessionsTypeOK
<1> QED
  BY <1>1, SessionsTypeStep, PTL DEF SessionsSpec

(***************************************************************************)
(* What a tab shows                                                        *)
(***************************************************************************)
(* The inductive form of StatusBacked and ClientHasTab: a timer and a      *)
(* connect of a tab exclude each other, and a connect that goes on behind  *)
(* a closed tab is on record.                                              *)
TabBacked(s) ==
  /\ tab[s] = "none" => activity[s] = "none" /\ s \notin timer
  /\ tab[s] = "connecting" =>
       \/ s \in timer /\ activity[s] = "none"
       \/ s \notin timer /\ activity[s] = "dialling"
  /\ tab[s] = "connected" => activity[s] \in {"opening", "shell"} /\ s \notin timer
  /\ tab[s] \in {"disconnected", "error"} => activity[s] = "none" /\ s \notin timer
  /\ tab[s] = "closed" =>
       /\ s \notin timer
       /\ activity[s] = "dialling" => s \in leftBehind

ClientBacked ==
  registered # None =>
    \/ \E s \in SshTabs : Tracked(s)
    \/ registered \in leftBehind

TabsInv == SessionsTypeOK /\ (\A s \in SshTabs : TabBacked(s)) /\ ClientBacked

(* A step of one tab leaves the others as they are.                        *)
LEMMA OthersBacked ==
  ASSUME NEW s \in SshTabs, \A r \in SshTabs : TabBacked(r),
         \A r \in SshTabs \ {s} : /\ tab'[r] = tab[r] /\ activity'[r] = activity[r]
                                  /\ r \in timer' <=> r \in timer
                                  /\ r \in leftBehind => r \in leftBehind',
         TabBacked(s)'
  PROVE  \A r \in SshTabs : TabBacked(r)'
  BY DEF TabBacked

(* The catch clause of _doConnect: a tab that is still there gets a timer  *)
(* or an error, one that is gone gets nothing.                             *)
LEMMA ThrewBacked ==
  ASSUME TabsInv, NEW s \in SshTabs, NEW retry \in BOOLEAN,
         activity[s] \in {"dialling", "opening"}, ConnectThrew(s, retry)
  PROVE  TabsInv'
<1> USE DEF recVars, TabsInv
<1>1. SessionsTypeOK'
  BY ThrewTyped
<1>2. /\ \A r \in SshTabs \ {s} : /\ tab'[r] = tab[r] /\ activity'[r] = activity[r]
                                  /\ r \in timer' <=> r \in timer
      /\ activity'[s] = "none"
      /\ registered' = registered /\ leftBehind' = leftBehind
  BY DEF ConnectThrew, ScheduleReconnect, EndsWith, Becomes, SessionsTypeOK
<1>3. CASE tab[s] = "closed"
  <2>1. tab'[s] = "closed" /\ timer' = timer
    BY <1>3 DEF ConnectThrew, EndsWith, Becomes, Tracked
  <2> QED
    BY <1>1, <1>2, <1>3, <2>1, OthersBacked DEF TabBacked, ClientBacked, Tracked
<1>4. CASE tab[s] # "closed"
  <2>1. Tracked(s) /\ s \notin timer
    BY <1>4 DEF TabBacked, Tracked, SessionsTypeOK
  <2>2. \/ tab'[s] = "connecting" /\ s \in timer'
        \/ tab'[s] = "error" /\ timer' = timer
    BY <2>1 DEF ConnectThrew, ScheduleReconnect, EndsWith, Becomes, SessionsTypeOK
  <2>3. TabBacked(s)'
    BY <1>2, <2>1, <2>2 DEF TabBacked
  <2>4. Tracked(s)'
    BY <2>2 DEF Tracked
  <2> QED
    BY <1>1, <1>2, <2>3, <2>4, OthersBacked DEF ClientBacked
<1> QED
  BY <1>3, <1>4

(* Every step keeps the tabs backed and the clients owned.                 *)
LEMMA TabsStep == TabsInv /\ [SessionsNext]_sessionVars => TabsInv'
<1> USE DEF connVars, recVars, TabsInv
<1> SUFFICES ASSUME TabsInv, [SessionsNext]_sessionVars PROVE TabsInv'
  OBVIOUS
<1>0. SessionsTypeOK'
  BY SessionsTypeStep
<1>1. ASSUME NEW s \in SshTabs, ConnectTab(s) PROVE TabsInv'
  <2>1. TabBacked(s)' /\ Tracked(s)'
    BY <1>1 DEF ConnectTab, Dialling, TabBacked, Tracked, SessionsTypeOK
  <2> QED
    BY <1>0, <1>1, <2>1, OthersBacked DEF ConnectTab, Dialling, ClientBacked, SessionsTypeOK
<1>2. ASSUME NEW s \in SshTabs, NEW auto \in BOOLEAN, DialSucceeds(s, auto)
      PROVE  TabsInv'
  <2>1. /\ activity[s] = "dialling" /\ activity' = [activity EXCEPT ![s] = "opening"]
        /\ registered' = s /\ Becomes(s, "connected")
        /\ UNCHANGED <<timer, leftBehind>>
    BY <1>2 DEF DialSucceeds
  <2>2. CASE tab[s] = "closed"
    <3>1. tab' = tab /\ s \in leftBehind
      BY <2>1, <2>2 DEF Becomes, Tracked, TabBacked
    <3> QED
      BY <1>0, <2>1, <2>2, <3>1, OthersBacked DEF TabBacked, ClientBacked, SessionsTypeOK
  <2>3. CASE tab[s] # "closed"
    <3>1. tab[s] = "connecting" /\ s \notin timer
      BY <2>1, <2>3 DEF TabBacked, SessionsTypeOK
    <3>2. tab' = [tab EXCEPT ![s] = "connected"]
      BY <2>1, <3>1 DEF Becomes, Tracked
    <3>3. TabBacked(s)' /\ Tracked(s)'
      BY <2>1, <3>1, <3>2 DEF TabBacked, Tracked, SessionsTypeOK
    <3> QED
      BY <1>0, <2>1, <3>2, <3>3, OthersBacked DEF ClientBacked, SessionsTypeOK
  <2> QED
    BY <2>2, <2>3
<1>3. ASSUME NEW s \in SshTabs, NEW retry \in BOOLEAN,
             DialFails(s, retry) \/ ShellRefused(s, retry)
      PROVE  TabsInv'
  BY <1>3, ThrewBacked DEF DialFails, ShellRefused
<1>4. ASSUME NEW s \in SshTabs, ShellOpens(s) PROVE TabsInv'
  <2>1. TabBacked(s)'
    BY <1>4 DEF ShellOpens, TabBacked, SessionsTypeOK
  <2> QED
    BY <1>0, <1>4, <2>1, OthersBacked DEF ShellOpens, ClientBacked, Tracked, SessionsTypeOK
<1>5. ASSUME NEW s \in SshTabs, TimerFires(s) PROVE TabsInv'
  <2>1. tab[s] = "connecting"
    BY <1>5 DEF TimerFires, TabBacked, SessionsTypeOK
  <2>2. timer' = timer \ {s} /\ activity' = [activity EXCEPT ![s] = "dialling"]
        /\ UNCHANGED <<tab, registered, leftBehind>>
    BY <1>5, <2>1 DEF TimerFires, Dialling, Tracked
  <2>3. TabBacked(s)'
    BY <2>1, <2>2 DEF TabBacked, SessionsTypeOK
  <2> QED
    BY <1>0, <2>2, <2>3, OthersBacked DEF ClientBacked, Tracked, SessionsTypeOK
<1>6. ASSUME NEW s \in SshTabs, NEW retry \in BOOLEAN, ShellEnds(s, retry)
      PROVE  TabsInv'
  <2>1. /\ \A r \in SshTabs \ {s} : /\ tab'[r] = tab[r] /\ activity'[r] = activity[r]
                                    /\ r \in timer' <=> r \in timer
        /\ activity'[s] = "none" /\ activity[s] = "shell"
        /\ registered' = registered /\ leftBehind' = leftBehind
    BY <1>6 DEF ShellEnds, ScheduleReconnect, EndsWith, Becomes, SessionsTypeOK
  <2>2. CASE tab[s] = "closed"
    <3>1. tab'[s] = "closed" /\ timer' = timer
      BY <1>6, <2>2 DEF ShellEnds, EndsWith, Becomes, Tracked
    <3> QED
      BY <1>0, <2>1, <2>2, <3>1, OthersBacked DEF TabBacked, ClientBacked, Tracked
  <2>3. CASE tab[s] # "closed"
    <3>1. Tracked(s) /\ s \notin timer
      BY <2>1, <2>3 DEF TabBacked, Tracked, SessionsTypeOK
    <3>2. \/ tab'[s] = "connecting" /\ s \in timer'
          \/ tab'[s] = "disconnected" /\ timer' = timer
      BY <1>6, <3>1 DEF ShellEnds, ScheduleReconnect, EndsWith, Becomes, SessionsTypeOK
    <3>3. TabBacked(s)' /\ Tracked(s)'
      BY <2>1, <3>1, <3>2 DEF TabBacked, Tracked
    <3> QED
      BY <1>0, <2>1, <3>3, OthersBacked DEF ClientBacked
  <2> QED
    BY <2>2, <2>3
<1>7. ASSUME NEW s \in SshTabs, CloseSshTab(s) PROVE TabsInv'
  <2>1. /\ tab' = [tab EXCEPT ![s] = "closed"] /\ timer' = timer \ {s}
        /\ activity' = activity
        /\ leftBehind' = IF activity[s] = "dialling" THEN leftBehind \cup {s} ELSE leftBehind
        /\ registered' = IF LastTab(s) THEN None ELSE registered
    BY <1>7 DEF CloseSshTab
  <2>2. TabBacked(s)'
    BY <2>1 DEF TabBacked, SessionsTypeOK
  <2>3. ClientBacked'
    BY <2>1 DEF ClientBacked, LastTab, Tracked, SessionsTypeOK
  <2> QED
    BY <1>0, <2>1, <2>2, <2>3, OthersBacked DEF SessionsTypeOK
<1>8. ASSUME UNCHANGED connVars PROVE TabsInv'
  BY <1>0, <1>8 DEF TabBacked, ClientBacked, Tracked
<1> QED
  BY <1>1, <1>2, <1>3, <1>4, <1>5, <1>6, <1>7, <1>8
     DEF SessionsNext, DoConnectStep, UserStartsRecording, RecordingStarted,
         RecordingNotStarted, UserStopsRecording, RecordingFlushed, sessionVars

(* TabsInv holds in every reachable state.                                 *)
LEMMA TabsInvariant == SessionsSpec => []TabsInv
<1>1. SessionsInit => TabsInv
  BY SessionsAssumption
     DEF SessionsInit, SessionsTypeOK, TabBacked, ClientBacked, TabsInv
<1> QED
  BY <1>1, TabsStep, PTL DEF SessionsSpec

(* _doConnect, _scheduleReconnect, closeSession: whatever races, a tab     *)
(* that shows "connecting" has exactly one of a dial and a timer, and no   *)
(* timer dials for a tab that shows an end or is closed.                   *)
THEOREM StatusIsBacked == SessionsSpec => []StatusBacked
<1>1. TabsInv => StatusBacked
  BY DEF TabsInv, TabBacked, StatusBacked
<1> QED
  BY <1>1, TabsInvariant, PTL

(* closeSession: the client of a host without tabs is closed, except one   *)
(* whose tab was closed while its connect was in flight.                   *)
THEOREM ClientNotLeaked == SessionsSpec => []ClientHasTab
<1>1. TabsInv => ClientHasTab
  BY DEF TabsInv, ClientBacked, ClientHasTab
<1> QED
  BY <1>1, TabsInvariant, PTL

(***************************************************************************)
(* Recording                                                               *)
(***************************************************************************)
LEMMA RecordingStep ==
  SessionsTypeOK /\ RedMeansRecording /\ [SessionsNext]_sessionVars => RedMeansRecording'
<1> USE DEF connVars, recVars
<1> SUFFICES ASSUME SessionsTypeOK, RedMeansRecording, [SessionsNext]_sessionVars
             PROVE  RedMeansRecording'
  OBVIOUS
<1>1. ASSUME NEW s \in SshTabs, StartRecording(s) PROVE RedMeansRecording'
  <2>1. \A r \in SshTabs : starts'[r] \in {starts[r], starts[r] + 1}
    BY <1>1 DEF StartRecording, SessionsTypeOK
  <2>2. \A r \in SshTabs : starts[r] \in Nat
    BY DEF SessionsTypeOK
  <2>3. \A r \in SshTabs : starts[r] > 0 => starts'[r] > 0
    BY <2>1, <2>2
  <2>4. s \in indicator \/ s \in recording \/ starts'[s] > 0
    BY <1>1, <2>2 DEF StartRecording, SessionsTypeOK
  <2> QED
    BY <1>1, <2>3, <2>4 DEF StartRecording, RedMeansRecording
<1>2. ASSUME NEW s \in SshTabs, StopInService(s), starts' = starts
      PROVE  RedMeansRecording'
  BY <1>2 DEF StopInService, RedMeansRecording
<1>3. ASSUME NEW s \in SshTabs, RecordingStarted(s) \/ RecordingNotStarted(s)
      PROVE  RedMeansRecording'
  <2>1. \A r \in SshTabs \ {s} : starts'[r] = starts[r]
    BY <1>3 DEF RecordingStarted, RecordingNotStarted, SessionsTypeOK
  <2> QED
    BY <1>3, <2>1 DEF RecordingStarted, RecordingNotStarted, RedMeansRecording
<1>4. ASSUME NEW s \in SshTabs, UserStopsRecording(s) \/ RecordingFlushed(s)
      PROVE  RedMeansRecording'
  BY <1>4 DEF UserStopsRecording, RecordingFlushed, RedMeansRecording
<1>5. ASSUME UNCHANGED recVars PROVE RedMeansRecording'
  BY <1>5 DEF RedMeansRecording
<1>6. ASSUME NEW s \in SshTabs, NEW auto \in BOOLEAN, DialSucceeds(s, auto)
      PROVE  RedMeansRecording'
  BY <1>1, <1>5, <1>6 DEF DialSucceeds
<1>7. ASSUME NEW s \in SshTabs, NEW retry \in BOOLEAN, ShellEnds(s, retry)
      PROVE  RedMeansRecording'
  BY <1>2, <1>7 DEF ShellEnds
<1>8. ASSUME NEW s \in SshTabs, UserStartsRecording(s) PROVE RedMeansRecording'
  BY <1>1, <1>8 DEF UserStartsRecording
<1> QED
  BY <1>3, <1>4, <1>5, <1>6, <1>7, <1>8
     DEF SessionsNext, DoConnectStep, ConnectTab, DialFails, ShellRefused, ConnectThrew,
         ShellOpens, TimerFires, CloseSshTab, sessionVars

(* RecordingProvider: "Without this the provider's REC indicator stays red *)
(* while writeOutput silently no-ops": the indicator of a tab is red only  *)
(* while the tab is recorded or about to be.                               *)
THEOREM IndicatorTrue == SessionsSpec => []RedMeansRecording
<1>1. SessionsInit => RedMeansRecording
  BY DEF SessionsInit, RedMeansRecording
<1> QED
  BY <1>1, RecordingStep, SessionsTypeCorrect, PTL DEF SessionsSpec

(***************************************************************************)
(* Induction over the positions of a list, with the set G of the positions *)
(* for which a statement holds in the place of the statement.              *)
(***************************************************************************)
LEMMA NatIsWellFounded == IsWellFoundedOn({ss \in Nat \X Nat : ss[1] < ss[2]}, Nat)
  BY NatLessThanWellFounded DEF OpToRel

LEMMA UpTo ==
  ASSUME NEW n \in Nat, NEW G, 0 \in G, \A i \in 1..n : i - 1 \in G => i \in G
  PROVE  \A i \in 0..n : i \in G
<1> DEFINE R   == {ss \in Nat \X Nat : ss[1] < ss[2]}
           Bad == (0..n) \ G
<1> SUFFICES ASSUME Bad # {} PROVE FALSE
  OBVIOUS
<1>1. Bad \subseteq Nat /\ IsWellFoundedOn(R, Nat)
  BY NatIsWellFounded
<1> HIDE DEF R
<1>2. PICK m \in Bad : \A k \in Bad : <<k, m>> \notin R
  <2> HIDE DEF Bad
  <2> QED
    BY <1>1, WFMin
<1>3. m \in 1..n
  OBVIOUS
<1>4. m - 1 \notin Bad
  <2> SUFFICES ASSUME m - 1 \in Bad PROVE FALSE
    OBVIOUS
  <2>1. <<m - 1, m>> \in Nat \X Nat /\ m - 1 < m
    BY <1>3
  <2>2. <<m - 1, m>> \in R
    BY <2>1 DEF R
  <2> HIDE DEF Bad
  <2> QED
    BY <1>2, <2>2
<1> QED
  BY <1>3, <1>4

(***************************************************************************)
(* The lists that where() gives.                                           *)
(***************************************************************************)
(* Kept is defined: each of its values follows from the one before.        *)
LEMMA KeptSteps ==
  ASSUME NEW T, NEW s \in Seq(T), NEW S
  PROVE  /\ Kept(s, S)[0] = <<>>
         /\ \A i \in 1..Len(s) :
              Kept(s, S)[i] = IF s[i] \in S THEN Append(Kept(s, S)[i - 1], s[i])
                                            ELSE Kept(s, S)[i - 1]
<1> DEFINE Nxt(g, i) == IF i = 0 THEN <<>>
                        ELSE IF s[i] \in S THEN Append(g[i - 1], s[i]) ELSE g[i - 1]
           Is(g, n) == g = [i \in 0..n |-> Nxt(g, i)]
           G == {n \in 0..Len(s) : \E g : Is(g, n)}
<1>1. Len(s) \in Nat
  OBVIOUS
<1>2. 0 \in G
  <2>1. Is([i \in 0..0 |-> <<>>], 0)
    OBVIOUS
  <2> HIDE DEF Is
  <2> QED
    BY <1>1, <2>1
<1>3. ASSUME NEW m \in 1..Len(s), m - 1 \in G PROVE m \in G
  <2> HIDE DEF Is
  <2>1. PICK g : Is(g, m - 1)
    BY <1>3
  <2> DEFINE h == [i \in 0..m |-> IF i < m THEN g[i] ELSE Nxt(g, m)]
  <2>2. ASSUME NEW i \in 0..m PROVE h[i] = Nxt(h, i)
    <3>1. i # 0 => i - 1 \in 0..m /\ i - 1 < m /\ h[i - 1] = g[i - 1]
      OBVIOUS
    <3>2. Nxt(h, i) = Nxt(g, i)
      BY <3>1
    <3>3. i < m => g[i] = Nxt(g, i)
      <4> SUFFICES ASSUME i < m PROVE g[i] = Nxt(g, i)
        OBVIOUS
      <4>1. i \in 0..(m - 1)
        OBVIOUS
      <4> HIDE DEF Nxt
      <4> QED
        BY <2>1, <4>1 DEF Is
    <3> QED
      BY <3>2, <3>3
  <2> HIDE DEF Nxt
  <2>3. Is(h, m)
    BY <2>2 DEF Is
  <2> HIDE DEF h
  <2> QED
    BY <1>1, <2>3
<1>4. PICK f : Is(f, Len(s))
  <2> HIDE DEF G
  <2>1. \A i \in 1..Len(s) : i - 1 \in G => i \in G
    BY <1>3
  <2>2. \A i \in 0..Len(s) : i \in G
    BY <1>1, <1>2, <2>1, UpTo
  <2>3. Len(s) \in G
    BY <1>1, <2>2
  <2> QED
    BY <2>3 DEF G
<1> DEFINE K == Kept(s, S)
<1>5. K = [i \in 0..Len(s) |-> Nxt(K, i)]
  <2>1. K = CHOOSE g : g = [i \in 0..Len(s) |-> Nxt(g, i)]
    BY DEF Kept
  <2> HIDE DEF K, Nxt
  <2> QED
    BY <1>4, <2>1 DEF Is
<1> HIDE DEF K
<1>6. \A i \in 0..Len(s) : K[i] = Nxt(K, i)
  <2> HIDE DEF Nxt
  <2> QED
    BY <1>5
<1> QED
  BY <1>1, <1>6 DEF K

(* where() gives the listed elements of S, in the order of the list.       *)
Selects(s, S, i, z) ==
  /\ \A j \in 1..Len(z) : z[j] \in S /\ \E p \in 1..i : s[p] = z[j]
  /\ \A p \in 1..i : s[p] \in S => \E j \in 1..Len(z) : z[j] = s[p]
  /\ \A j, k \in 1..Len(z) : j < k =>
       \E p, q \in 1..i : p < q /\ s[p] = z[j] /\ s[q] = z[k]

LEMMA KeptSelects ==
  ASSUME NEW T, NEW s \in Seq(T), NEW S, NEW i \in 0..Len(s)
  PROVE  Kept(s, S)[i] \in Seq(T) /\ Selects(s, S, i, Kept(s, S)[i])
<1> DEFINE K == Kept(s, S)
           G == {n \in 0..Len(s) : K[n] \in Seq(T) /\ Selects(s, S, n, K[n])}
<1>0. Len(s) \in Nat
  OBVIOUS
<1>1. K[0] = <<>> /\ \A n \in 1..Len(s) :
        K[n] = IF s[n] \in S THEN Append(K[n - 1], s[n]) ELSE K[n - 1]
  BY KeptSteps
<1> HIDE DEF K
<1>2. 0 \in G
  <2>1. <<>> \in Seq(T) /\ Selects(s, S, 0, <<>>)
    BY DEF Selects
  <2>2. K[0] \in Seq(T) /\ Selects(s, S, 0, K[0])
    BY <1>1, <2>1
  <2> QED
    BY <1>0, <2>2
<1>3. ASSUME NEW n \in 1..Len(s), n - 1 \in G PROVE n \in G
  <2> DEFINE y == K[n - 1]
             z == K[n]
  <2>1. /\ y \in Seq(T) /\ Selects(s, S, n - 1, y)
        /\ s[n] \in T /\ n \in Nat \ {0}
    BY <1>3
  <2>2. z = IF s[n] \in S THEN Append(y, s[n]) ELSE y
    BY <1>1
  <2> HIDE DEF y, z
  <2>3. CASE s[n] \notin S
    <3>1. z = y
      BY <2>2, <2>3
    <3>2. Selects(s, S, n, y)
      BY <2>1, <2>3 DEF Selects
    <3> QED
      BY <2>1, <3>1, <3>2 DEF z
  <2>4. CASE s[n] \in S
    <3>1. /\ z \in Seq(T) /\ Len(z) = Len(y) + 1 /\ z[Len(z)] = s[n]
          /\ \A j \in 1..Len(y) : z[j] = y[j]
      BY <2>1, <2>2, <2>4
    <3>2. ASSUME NEW j \in 1..Len(z)
          PROVE  z[j] \in S /\ \E p \in 1..n : s[p] = z[j]
      <4>1. CASE j = Len(z)
        BY <2>1, <2>4, <3>1, <4>1
      <4>2. CASE j # Len(z)
        <5>1. j \in 1..Len(y) /\ z[j] = y[j]
          BY <2>1, <3>1, <4>2
        <5>2. y[j] \in S /\ \E p \in 1..(n - 1) : s[p] = y[j]
          BY <2>1, <5>1 DEF Selects
        <5>3. \A p \in 1..(n - 1) : p \in 1..n
          BY <2>1
        <5> QED
          BY <5>1, <5>2, <5>3
      <4> QED
        BY <4>1, <4>2
    <3>3. ASSUME NEW p \in 1..n, s[p] \in S
          PROVE  \E j \in 1..Len(z) : z[j] = s[p]
      <4>1. CASE p = n
        BY <2>1, <3>1, <4>1
      <4>2. CASE p # n
        <5>1. p \in 1..(n - 1)
          BY <2>1, <4>2
        <5>2. PICK j \in 1..Len(y) : y[j] = s[p]
          BY <2>1, <3>3, <5>1 DEF Selects
        <5>3. j \in 1..Len(z) /\ z[j] = s[p]
          BY <2>1, <3>1, <5>2
        <5> QED
          BY <5>3
      <4> QED
        BY <4>1, <4>2
    <3>4. ASSUME NEW j \in 1..Len(z), NEW k \in 1..Len(z), j < k
          PROVE  \E p, q \in 1..n : p < q /\ s[p] = z[j] /\ s[q] = z[k]
      <4>1. j \in 1..Len(y) /\ z[j] = y[j]
        BY <2>1, <3>1, <3>4
      <4>2. CASE k = Len(z)
        <5>1. PICK p \in 1..(n - 1) : s[p] = y[j]
          BY <2>1, <4>1 DEF Selects
        <5>2. p \in 1..n /\ n \in 1..n /\ p < n
          BY <2>1
        <5>3. s[p] = z[j] /\ s[n] = z[k]
          BY <3>1, <4>1, <4>2, <5>1
        <5> QED
          BY <5>2, <5>3
      <4>3. CASE k # Len(z)
        <5>1. k \in 1..Len(y) /\ z[k] = y[k]
          BY <2>1, <3>1, <4>3
        <5>2. PICK p \in 1..(n - 1), q \in 1..(n - 1) : p < q /\ s[p] = y[j] /\ s[q] = y[k]
          BY <2>1, <3>4, <4>1, <5>1 DEF Selects
        <5>3. p \in 1..n /\ q \in 1..n
          BY <2>1
        <5> QED
          BY <4>1, <5>1, <5>2, <5>3
      <4> QED
        BY <4>2, <4>3
    <3>5. Selects(s, S, n, z)
      BY <3>2, <3>3, <3>4 DEF Selects
    <3> QED
      BY <3>1, <3>5 DEF z
  <2> QED
    BY <2>3, <2>4
<1>4. \A n \in 0..Len(s) : n \in G
  <2> HIDE DEF G
  <2>1. \A n \in 1..Len(s) : n - 1 \in G => n \in G
    BY <1>3
  <2> QED
    BY <1>0, <1>2, <2>1, UpTo
<1> QED
  BY <1>4 DEF K

LEMMA WhereSelects ==
  ASSUME NEW T, NEW s \in Seq(T), NEW S
  PROVE  Where(s, S) \in Seq(T) /\ Selects(s, S, Len(s), Where(s, S))
<1>1. Len(s) \in 0..Len(s)
  OBVIOUS
<1> QED
  BY <1>1, KeptSelects DEF Where

(***************************************************************************)
(* Lists with their pinned tabs first and no tab twice.                    *)
(***************************************************************************)
Image(s) == {s[i] : i \in 1..Len(s)}

Distinct(s) == \A i, j \in 1..Len(s) : i < j => s[i] # s[j]

LeftIn(s, P) == \A i, j \in 1..Len(s) : i < j => (s[j] \in P => s[i] \in P)

(* Taking tabs out leaves the order of the others.                         *)
LEMMA WhereKeepsOrder ==
  ASSUME NEW T, NEW s \in Seq(T), NEW S, NEW P, Distinct(s)
  PROVE  /\ Where(s, S) \in Seq(T) /\ Image(Where(s, S)) = Image(s) \cap S
         /\ Distinct(Where(s, S))
         /\ LeftIn(s, P) => LeftIn(Where(s, S), P)
<1> DEFINE z == Where(s, S)
<1>1. z \in Seq(T) /\ Selects(s, S, Len(s), z)
  BY WhereSelects
<1> HIDE DEF z
<1>2. Image(z) \subseteq Image(s) \cap S
  BY <1>1 DEF Selects, Image
<1>3. Image(s) \cap S \subseteq Image(z)
  BY <1>1 DEF Selects, Image
<1>4. Distinct(z)
  BY <1>1 DEF Selects, Distinct
<1>5. LeftIn(s, P) => LeftIn(z, P)
  BY <1>1 DEF Selects, LeftIn
<1> QED
  BY <1>1, <1>2, <1>3, <1>4, <1>5 DEF z

(* _sortSessions shows the same tabs, the pinned ones first.               *)
LEMMA SortedIsOrdered ==
  ASSUME NEW s \in Seq(TabIds), NEW P, Distinct(s)
  PROVE  /\ Sorted(s, P) \in Seq(TabIds) /\ Image(Sorted(s, P)) = Image(s)
         /\ Distinct(Sorted(s, P)) /\ LeftIn(Sorted(s, P), P)
<1> DEFINE a == Where(s, P)
           b == Where(s, TabIds \ P)
           z == Sorted(s, P)
<1>1. /\ a \in Seq(TabIds) /\ Image(a) = Image(s) \cap P /\ Distinct(a)
      /\ b \in Seq(TabIds) /\ Image(b) = Image(s) \cap (TabIds \ P) /\ Distinct(b)
  BY WhereKeepsOrder
<1>2. z = a \o b
  BY DEF Sorted
<1> HIDE DEF a, b, z
<1>3. /\ z \in Seq(TabIds) /\ Len(z) = Len(a) + Len(b)
      /\ \A i \in 1..Len(a) : z[i] = a[i]
      /\ \A i \in 1..Len(z) : i > Len(a) => i - Len(a) \in 1..Len(b) /\ z[i] = b[i - Len(a)]
      /\ Len(a) \in Nat /\ Len(b) \in Nat
  BY <1>1, <1>2
<1>4. ASSUME NEW i \in 1..Len(z) PROVE i <= Len(a) <=> z[i] \in P
  <2>1. CASE i <= Len(a)
    <3>1. i \in 1..Len(a) /\ z[i] = a[i]
      BY <1>3, <2>1
    <3>2. a[i] \in Image(a)
      BY <3>1 DEF Image
    <3> QED
      BY <1>1, <2>1, <3>1, <3>2
  <2>2. CASE i > Len(a)
    <3>1. i - Len(a) \in 1..Len(b) /\ z[i] = b[i - Len(a)]
      BY <1>3, <2>2
    <3>2. b[i - Len(a)] \in Image(b)
      BY <3>1 DEF Image
    <3> QED
      BY <1>1, <1>3, <2>2, <3>1, <3>2
  <2> QED
    BY <1>3, <2>1, <2>2
<1>5. LeftIn(z, P)
  BY <1>3, <1>4 DEF LeftIn
<1>6. Distinct(z)
  <2> SUFFICES ASSUME NEW i \in 1..Len(z), NEW j \in 1..Len(z), i < j PROVE z[i] # z[j]
    BY DEF Distinct
  <2>1. CASE j <= Len(a)
    <3>1. i \in 1..Len(a) /\ j \in 1..Len(a)
      BY <1>3, <2>1
    <3> QED
      BY <1>1, <1>3, <3>1 DEF Distinct
  <2>2. CASE i > Len(a)
    <3> DEFINE k == i - Len(a)
               l == j - Len(a)
    <3>1. k \in 1..Len(b) /\ l \in 1..Len(b) /\ k < l /\ z[i] = b[k] /\ z[j] = b[l]
      BY <1>3, <2>2
    <3> HIDE DEF k, l
    <3> QED
      BY <1>1, <3>1 DEF Distinct
  <2>3. CASE i <= Len(a) /\ j > Len(a)
    BY <1>3, <1>4, <2>3
  <2> QED
    BY <1>3, <2>1, <2>2, <2>3
<1>7. Image(z) = Image(a) \cup Image(b)
  <2>1. Image(z) \subseteq Image(a) \cup Image(b)
    BY <1>3 DEF Image
  <2>2. Image(a) \subseteq Image(z)
    BY <1>3 DEF Image
  <2>3. Image(b) \subseteq Image(z)
    <3> SUFFICES ASSUME NEW k \in 1..Len(b) PROVE b[k] \in Image(z)
      BY DEF Image
    <3>1. k + Len(a) \in 1..Len(z) /\ k + Len(a) > Len(a) /\ (k + Len(a)) - Len(a) = k
      BY <1>3
    <3>2. z[k + Len(a)] = b[k]
      BY <1>3, <3>1
    <3> QED
      BY <3>1, <3>2 DEF Image
  <2> QED
    BY <2>1, <2>2, <2>3
<1>8. Image(s) \subseteq TabIds
  BY DEF Image
<1> QED
  BY <1>1, <1>3, <1>5, <1>6, <1>7, <1>8 DEF z

(* When the pinned tabs are first, their number is the place of the last.  *)
LEMMA PinnedCount ==
  ASSUME NEW T, NEW s \in Seq(T), NEW P, LeftIn(s, P)
  PROVE  /\ Len(Where(s, P)) \in 0..Len(s)
         /\ \A j \in 1..Len(s) : s[j] \in P <=> j <= Len(Where(s, P))
<1> DEFINE K == Kept(s, P)
           G == {n \in 0..Len(s) :
                   /\ K[n] \in Seq(T) /\ Len(K[n]) <= n
                   /\ n > 0 /\ s[n] \in P => Len(K[n]) = n
                   /\ \A j \in 1..n : s[j] \in P <=> j <= Len(K[n])}
<1>0. Len(s) \in Nat
  OBVIOUS
<1>1. K[0] = <<>> /\ \A n \in 1..Len(s) :
        K[n] = IF s[n] \in P THEN Append(K[n - 1], s[n]) ELSE K[n - 1]
  BY KeptSteps
<1> HIDE DEF K
<1>2. 0 \in G
  <2>1. K[0] \in Seq(T) /\ Len(K[0]) = 0
    BY <1>1
  <2> QED
    BY <1>0, <2>1
<1>3. ASSUME NEW n \in 1..Len(s), n - 1 \in G PROVE n \in G
  <2> DEFINE y == K[n - 1]
             z == K[n]
  <2>1. /\ y \in Seq(T) /\ Len(y) <= n - 1 /\ s[n] \in T /\ n \in Nat \ {0}
        /\ n - 1 > 0 /\ s[n - 1] \in P => Len(y) = n - 1
        /\ \A j \in 1..(n - 1) : s[j] \in P <=> j <= Len(y)
    BY <1>3
  <2>2. z = IF s[n] \in P THEN Append(y, s[n]) ELSE y
    BY <1>1
  <2> HIDE DEF y, z
  <2>3. CASE s[n] \notin P
    BY <2>1, <2>2, <2>3 DEF z
  <2>4. CASE s[n] \in P
    <3>1. n - 1 > 0 => s[n - 1] \in P
      BY <2>1, <2>4, <1>0 DEF LeftIn
    <3>2. Len(y) = n - 1
      BY <2>1, <3>1
    <3>3. z \in Seq(T) /\ Len(z) = n
      BY <2>1, <2>2, <2>4, <3>2
    <3>4. \A j \in 1..n : s[j] \in P
      BY <2>1, <2>4, <3>2
    <3> QED
      BY <2>1, <3>3, <3>4 DEF z
  <2> QED
    BY <2>3, <2>4
<1>4. \A n \in 0..Len(s) : n \in G
  <2> HIDE DEF G
  <2>1. \A n \in 1..Len(s) : n - 1 \in G => n \in G
    BY <1>3
  <2> QED
    BY <1>0, <1>2, <2>1, UpTo
<1>5. Len(s) \in G
  BY <1>0, <1>4
<1> QED
  BY <1>0, <1>5 DEF K, Where

(* Where the tab at place k of the reordered list was before.              *)
From(i, m, k) == IF k = m THEN i
                 ELSE IF k < m THEN (IF k < i THEN k ELSE k + 1)
                               ELSE (IF k - 1 < i THEN k - 1 ELSE k)

(* The places of two lists, one after the other.                           *)
LEMMA Joined ==
  ASSUME NEW T, NEW a \in Seq(T), NEW b \in Seq(T)
  PROVE  /\ a \o b \in Seq(T) /\ Len(a \o b) = Len(a) + Len(b)
         /\ \A k \in 1..(Len(a) + Len(b)) :
              (a \o b)[k] = IF k <= Len(a) THEN a[k] ELSE b[k - Len(a)]
  OBVIOUS

(* removeAt and insert take tab i to place m and shift those between.      *)
Moved(s, i, m) == Insert(RemoveAt(s, i), m, s[i])

LEMMA MovedFrom ==
  ASSUME NEW T, NEW s \in Seq(T), NEW i \in 1..Len(s), NEW m \in 1..Len(s)
  PROVE  /\ Moved(s, i, m) \in Seq(T) /\ Len(Moved(s, i, m)) = Len(s)
         /\ \A k \in 1..Len(s) :
              From(i, m, k) \in 1..Len(s) /\ Moved(s, i, m)[k] = s[From(i, m, k)]
<1> DEFINE r == RemoveAt(s, i)
           z == Moved(s, i, m)
<1>0. Len(s) \in Nat /\ s[i] \in T
  OBVIOUS
<1>1. /\ r \in Seq(T) /\ Len(r) = Len(s) - 1
      /\ \A k \in 1..Len(r) : r[k] = IF k < i THEN s[k] ELSE s[k + 1]
  <2> DEFINE a == SubSeq(s, 1, i - 1)
             b == SubSeq(s, i + 1, Len(s))
  <2>1. a \in Seq(T) /\ Len(a) = i - 1 /\ \A k \in 1..(i - 1) : a[k] = s[k]
    BY <1>0
  <2>2. b \in Seq(T) /\ Len(b) = Len(s) - i /\ \A k \in 1..Len(b) : b[k] = s[k + i]
    BY <1>0
  <2>3. r = a \o b
    BY DEF RemoveAt
  <2> HIDE DEF a, b, r
  <2>4. /\ r \in Seq(T) /\ Len(r) = Len(s) - 1
        /\ \A k \in 1..(Len(s) - 1) : r[k] = IF k <= i - 1 THEN a[k] ELSE b[k - (i - 1)]
    <3>1. /\ a \o b \in Seq(T) /\ Len(a \o b) = Len(a) + Len(b)
          /\ \A k \in 1..(Len(a) + Len(b)) :
               (a \o b)[k] = IF k <= Len(a) THEN a[k] ELSE b[k - Len(a)]
      BY <2>1, <2>2, Joined
    <3>2. Len(a) = i - 1 /\ Len(a) + Len(b) = Len(s) - 1
      BY <1>0, <2>1, <2>2
    <3> QED
      BY <2>3, <3>1, <3>2
  <2>5. ASSUME NEW k \in 1..(Len(s) - 1) PROVE r[k] = IF k < i THEN s[k] ELSE s[k + 1]
    <3>1. CASE k < i
      BY <1>0, <2>1, <2>4, <3>1
    <3>2. CASE k >= i
      <4>1. k - (i - 1) \in 1..Len(b) /\ (k - (i - 1)) + i = k + 1
        BY <1>0, <2>2, <3>2
      <4> QED
        BY <1>0, <2>2, <2>4, <3>2, <4>1
    <3> QED
      BY <1>0, <3>1, <3>2
  <2> QED
    BY <2>4, <2>5
<1> HIDE DEF r
<1>2. /\ z \in Seq(T) /\ Len(z) = Len(s)
      /\ \A k \in 1..Len(s) : z[k] = IF k = m THEN s[i] ELSE IF k < m THEN r[k] ELSE r[k - 1]
  <2> DEFINE a == SubSeq(r, 1, m - 1)
             b == SubSeq(r, m, Len(r))
             c == a \o <<s[i]>>
  <2>1. a \in Seq(T) /\ Len(a) = m - 1 /\ \A k \in 1..(m - 1) : a[k] = r[k]
    BY <1>0, <1>1
  <2>2. b \in Seq(T) /\ Len(b) = Len(s) - m /\ \A k \in 1..Len(b) : b[k] = r[k + m - 1]
    BY <1>0, <1>1
  <2> HIDE DEF a, b
  <2>3. c \in Seq(T) /\ Len(c) = m /\ c[m] = s[i] /\ \A k \in 1..(m - 1) : c[k] = a[k]
    BY <1>0, <2>1
  <2>4. z = c \o b
    BY DEF Moved, Insert, a, b, r
  <2> HIDE DEF c, z
  <2>5. /\ z \in Seq(T) /\ Len(z) = Len(s)
        /\ \A k \in 1..Len(s) : z[k] = IF k <= m THEN c[k] ELSE b[k - m]
    <3>1. /\ c \o b \in Seq(T) /\ Len(c \o b) = Len(c) + Len(b)
          /\ \A k \in 1..(Len(c) + Len(b)) :
               (c \o b)[k] = IF k <= Len(c) THEN c[k] ELSE b[k - Len(c)]
      BY <2>2, <2>3, Joined
    <3>2. Len(c) = m /\ Len(c) + Len(b) = Len(s)
      BY <1>0, <2>2, <2>3
    <3> QED
      BY <2>4, <3>1, <3>2
  <2>6. ASSUME NEW k \in 1..Len(s)
        PROVE  z[k] = IF k = m THEN s[i] ELSE IF k < m THEN r[k] ELSE r[k - 1]
    <3>1. CASE k <= m
      BY <1>0, <2>1, <2>3, <2>5, <3>1
    <3>2. CASE k > m
      <4>1. k - m \in 1..Len(b) /\ (k - m) + m - 1 = k - 1
        BY <1>0, <2>2, <3>2
      <4> QED
        BY <1>0, <2>2, <2>5, <3>2, <4>1
    <3> QED
      BY <1>0, <3>1, <3>2
  <2> QED
    BY <2>5, <2>6
<1> HIDE DEF z
<1>3. ASSUME NEW k \in 1..Len(s)
      PROVE  From(i, m, k) \in 1..Len(s) /\ z[k] = s[From(i, m, k)]
  <2>1. From(i, m, k) \in 1..Len(s)
    BY <1>0 DEF From
  <2>2. CASE k = m
    BY <1>2, <2>2 DEF From
  <2>3. CASE k < m
    <3>1. k \in 1..Len(r)
      BY <1>0, <1>1, <2>3
    <3> QED
      BY <1>0, <1>1, <1>2, <2>3, <3>1 DEF From
  <2>4. CASE k > m
    <3>1. k - 1 \in 1..Len(r) /\ (k - 1) + 1 = k
      BY <1>0, <1>1, <2>4
    <3> QED
      BY <1>0, <1>1, <1>2, <2>4, <3>1 DEF From
  <2> QED
    BY <1>0, <2>1, <2>2, <2>3, <2>4
<1> QED
  BY <1>2, <1>3 DEF z

(* A move within the pinned tabs, or within the others, keeps the order.   *)
LEMMA MovedIsOrdered ==
  ASSUME NEW T, NEW s \in Seq(T), NEW P, Distinct(s), LeftIn(s, P),
         NEW i \in 1..Len(s), NEW m \in 1..Len(s), s[i] \in P <=> s[m] \in P
  PROVE  /\ Moved(s, i, m) \in Seq(T) /\ Image(Moved(s, i, m)) = Image(s)
         /\ Distinct(Moved(s, i, m)) /\ LeftIn(Moved(s, i, m), P)
<1> DEFINE z == Moved(s, i, m)
           c == Len(Where(s, P))
<1>0. Len(s) \in Nat
  OBVIOUS
<1>1. /\ z \in Seq(T) /\ Len(z) = Len(s)
      /\ \A k \in 1..Len(s) : From(i, m, k) \in 1..Len(s) /\ z[k] = s[From(i, m, k)]
  BY MovedFrom
<1>2. c \in Nat /\ \A j \in 1..Len(s) : s[j] \in P <=> j <= c
  BY PinnedCount
<1> HIDE DEF z, c
<1>3. i <= c <=> m <= c
  BY <1>2
<1>4. \A k \in 1..Len(s) : From(i, m, k) <= c <=> k <= c
  BY <1>0, <1>2, <1>3 DEF From
<1>5. \A k \in 1..Len(s) : z[k] \in P <=> k <= c
  BY <1>1, <1>2, <1>4
<1>6. LeftIn(z, P)
  BY <1>0, <1>1, <1>2, <1>5 DEF LeftIn
<1>7. \A j, k \in 1..Len(s) : j < k => From(i, m, j) # From(i, m, k)
  BY <1>0 DEF From
<1>8. Distinct(z)
  <2> SUFFICES ASSUME NEW j \in 1..Len(s), NEW k \in 1..Len(s), j < k PROVE z[j] # z[k]
    BY <1>1 DEF Distinct
  <2> DEFINE p == From(i, m, j)
             q == From(i, m, k)
  <2>1. p \in 1..Len(s) /\ q \in 1..Len(s) /\ p # q /\ z[j] = s[p] /\ z[k] = s[q]
    BY <1>1, <1>7
  <2> HIDE DEF p, q
  <2> QED
    BY <1>0, <2>1 DEF Distinct
<1>9. Image(z) = Image(s)
  <2>1. Image(z) \subseteq Image(s)
    BY <1>1 DEF Image
  <2>2. ASSUME NEW q \in 1..Len(s) PROVE \E k \in 1..Len(s) : From(i, m, k) = q
    <3> DEFINE k == IF q = i THEN m
                    ELSE LET d == IF q < i THEN q ELSE q - 1
                         IN  IF d < m THEN d ELSE d + 1
    <3>1. k \in 1..Len(s) /\ From(i, m, k) = q
      BY <1>0 DEF From
    <3> HIDE DEF k
    <3> QED
      BY <3>1
  <2>3. Image(s) \subseteq Image(z)
    <3> SUFFICES ASSUME NEW q \in 1..Len(s) PROVE s[q] \in Image(z)
      BY DEF Image
    <3>1. PICK k \in 1..Len(s) : From(i, m, k) = q
      BY <2>2
    <3> QED
      BY <1>1, <3>1 DEF Image
  <2> QED
    BY <2>1, <2>3
<1> QED
  BY <1>1, <1>6, <1>8, <1>9 DEF z

(***************************************************************************)
(* The inductive invariant of the tab strip.                               *)
(***************************************************************************)
StripInv ==
  /\ StripTypeOK /\ PinnedFirst /\ SiblingsAgree
  /\ pinned \subseteq Listed

LEMMA PinnedFirstIs == PinnedFirst <=> Distinct(sessions) /\ LeftIn(sessions, pinned)
  BY DEF PinnedFirst, Distinct, LeftIn

LEMMA ListedIs == Listed = Image(sessions)
  BY DEF Listed, Image

(* The strip starts empty.                                                 *)
LEMMA InitStrip == StripInit => StripInv
<1> SUFFICES ASSUME StripInit PROVE StripInv
  OBVIOUS
<1>1. sessions = <<>> /\ Len(sessions) = 0
  BY DEF StripInit
<1>2. Listed = {}
  BY <1>1 DEF Listed
<1>3. StripTypeOK
  BY <1>1 DEF StripInit, StripTypeOK
<1>4. PinnedFirst
  BY <1>1 DEF PinnedFirst
<1>5. SiblingsAgree /\ pinned \subseteq Listed
  BY <1>2 DEF StripInit, SiblingsAgree
<1> QED
  BY <1>3, <1>4, <1>5 DEF StripInv

(***************************************************************************)
(* Every operation keeps the invariant.                                    *)
(***************************************************************************)
(* A tab appended to the list is its last one.                             *)
LEMMA AppendOrdered ==
  ASSUME NEW T, NEW s \in Seq(T), NEW t \in T, t \notin Image(s), NEW P, Distinct(s)
  PROVE  /\ Append(s, t) \in Seq(T) /\ Image(Append(s, t)) = Image(s) \cup {t}
         /\ Distinct(Append(s, t))
         /\ (LeftIn(s, P) /\ t \notin P) => LeftIn(Append(s, t), P)
<1> DEFINE z == Append(s, t)
<1>1. /\ z \in Seq(T) /\ Len(z) = Len(s) + 1 /\ z[Len(s) + 1] = t /\ Len(s) \in Nat
      /\ \A i \in 1..Len(s) : z[i] = s[i]
  OBVIOUS
<1> HIDE DEF z
<1>2. Image(z) \subseteq Image(s) \cup {t}
  BY <1>1 DEF Image
<1>3. Image(s) \cup {t} \subseteq Image(z)
  <2>1. Len(s) + 1 \in 1..Len(z) /\ \A i \in 1..Len(s) : i \in 1..Len(z)
    BY <1>1
  <2> QED
    BY <1>1, <2>1 DEF Image
<1>4. Distinct(z)
  BY <1>1 DEF Distinct, Image
<1>5. (LeftIn(s, P) /\ t \notin P) => LeftIn(z, P)
  BY <1>1 DEF LeftIn
<1> QED
  BY <1>1, <1>2, <1>3, <1>4, <1>5 DEF z

(* connect, connectRdp, newLocalSession, addWatchSession.                  *)
LEMMA OpenKeepsStrip ==
  ASSUME StripInv, NEW h \in TabHosts \cup {None}, OpenTab(h)
  PROVE  StripInv'
<1> USE TabListAssumption
<1> DEFINE t == NewId
           s == Append(sessions, t)
<1>1. StripTypeOK /\ PinnedFirst /\ SiblingsAgree /\ pinned \subseteq Listed
  BY DEF StripInv
<1>2. Listed \subseteq TabIds
  BY <1>1 DEF StripTypeOK, Listed
<1>3. t \in TabIds /\ t \notin Listed
  BY <1>2 DEF OpenTab, Opened, NewId
<1>4. /\ sessions' = IF h \in savedPin THEN Sorted(s, pinned \cup {t}) ELSE s
      /\ hostOf' = [hostOf EXCEPT ![t] = h]
      /\ pinned' = IF h \in savedPin THEN pinned \cup {t} ELSE pinned
      /\ savedPin' = savedPin
  BY DEF OpenTab, Opened
<1> HIDE DEF t, s
<1>5. Distinct(sessions) /\ LeftIn(sessions, pinned) /\ sessions \in Seq(TabIds)
  BY <1>1, PinnedFirstIs DEF StripTypeOK
<1>6. /\ s \in Seq(TabIds) /\ Image(s) = Listed \cup {t} /\ Distinct(s)
      /\ h \notin savedPin => LeftIn(s, pinned)
  BY <1>1, <1>3, <1>5, AppendOrdered, ListedIs DEF s
<1>7. /\ sessions' \in Seq(TabIds) /\ Image(sessions') = Listed \cup {t}
      /\ Distinct(sessions') /\ LeftIn(sessions', pinned')
  <2>1. CASE h \in savedPin
    BY <1>4, <1>6, <2>1, SortedIsOrdered
  <2>2. CASE h \notin savedPin
    BY <1>4, <1>6, <2>2
  <2> QED
    BY <2>1, <2>2
<1>8. Listed' = Listed \cup {t}
  BY <1>7 DEF Listed, Image
<1>9. StripTypeOK'
  BY <1>1, <1>3, <1>4, <1>7 DEF StripTypeOK
<1>10. PinnedFirst'
  BY <1>7 DEF PinnedFirst, Distinct, LeftIn
<1>11. SiblingsAgree'
  <2> SUFFICES ASSUME NEW u \in Listed', hostOf'[u] # None
               PROVE  u \in pinned' <=> hostOf'[u] \in savedPin'
    BY DEF SiblingsAgree
  <2>1. CASE u = t
    BY <1>1, <1>3, <1>4, <2>1 DEF StripTypeOK
  <2>2. CASE u # t
    <3>1. u \in Listed /\ hostOf'[u] = hostOf[u]
      BY <1>1, <1>4, <1>8, <2>2 DEF StripTypeOK
    <3>2. u \in pinned <=> hostOf[u] \in savedPin
      BY <1>1, <3>1 DEF SiblingsAgree
    <3> QED
      BY <1>4, <2>2, <3>1, <3>2
  <2> QED
    BY <2>1, <2>2
<1>12. pinned' \subseteq Listed'
  BY <1>1, <1>4, <1>8
<1> QED
  BY <1>9, <1>10, <1>11, <1>12 DEF StripInv

(* closeSession, removeWatchSession.                                       *)
LEMMA CloseKeepsStrip ==
  ASSUME StripInv, NEW t \in TabIds, CloseListed(t)
  PROVE  StripInv'
<1>1. StripTypeOK /\ PinnedFirst /\ SiblingsAgree /\ pinned \subseteq Listed
  BY DEF StripInv
<1>2. /\ sessions' = Where(sessions, TabIds \ {t})
      /\ hostOf' = [hostOf EXCEPT ![t] = None]
      /\ pinned' = pinned \ {t} /\ savedPin' = savedPin
  BY DEF CloseListed
<1>3. Distinct(sessions) /\ LeftIn(sessions, pinned) /\ sessions \in Seq(TabIds)
  BY <1>1, PinnedFirstIs DEF StripTypeOK
<1>4. /\ sessions' \in Seq(TabIds) /\ Image(sessions') = Image(sessions) \cap (TabIds \ {t})
      /\ Distinct(sessions') /\ LeftIn(sessions', pinned)
  BY <1>2, <1>3, WhereKeepsOrder
<1>5. Listed' = Listed \ {t}
  <2>1. Listed \subseteq TabIds
    BY <1>1 DEF StripTypeOK, Listed
  <2> QED
    BY <1>4, <2>1 DEF Listed, Image
<1>6. LeftIn(sessions', pinned')
  <2>1. \A i \in 1..Len(sessions') : sessions'[i] # t
    BY <1>5 DEF Listed
  <2> QED
    BY <1>2, <1>4, <2>1 DEF LeftIn
<1>7. StripTypeOK'
  BY <1>1, <1>2, <1>4 DEF StripTypeOK
<1>8. PinnedFirst'
  BY <1>4, <1>6 DEF PinnedFirst, Distinct, LeftIn
<1>9. SiblingsAgree'
  BY <1>1, <1>2, <1>5 DEF SiblingsAgree, StripTypeOK
<1>10. pinned' \subseteq Listed'
  BY <1>1, <1>2, <1>5
<1> QED
  BY <1>7, <1>8, <1>9, <1>10 DEF StripInv

(* togglePin: the tabs of the host change together with the stored pin.    *)
LEMMA ToggleKeepsStrip ==
  ASSUME StripInv, NEW t \in TabIds, TogglePin(t)
  PROVE  StripInv'
<1> USE TabListAssumption
<1>1. StripTypeOK /\ PinnedFirst /\ SiblingsAgree /\ pinned \subseteq Listed
  BY DEF StripInv
<1>2. /\ t \in Listed
      /\ pinned' = IF t \in pinned THEN pinned \ Siblings(t) ELSE pinned \cup Siblings(t)
      /\ savedPin' = CASE hostOf[t] = None -> savedPin
                       [] t \in pinned     -> savedPin \ {hostOf[t]}
                       [] OTHER            -> savedPin \cup {hostOf[t]}
      /\ sessions' = Sorted(sessions, pinned')
      /\ hostOf' = hostOf
  BY DEF TogglePin
<1>3. Siblings(t) \subseteq Listed
  BY DEF Siblings
<1>4. Distinct(sessions) /\ sessions \in Seq(TabIds)
  BY <1>1, PinnedFirstIs DEF StripTypeOK
<1>5. /\ sessions' \in Seq(TabIds) /\ Image(sessions') = Image(sessions)
      /\ Distinct(sessions') /\ LeftIn(sessions', pinned')
  BY <1>2, <1>4, SortedIsOrdered
<1>6. Listed' = Listed /\ Listed \subseteq TabIds
  <2>1. Listed' = Listed
    BY <1>5 DEF Listed, Image
  <2>2. Listed \subseteq TabIds
    BY <1>4 DEF Listed
  <2> QED
    BY <2>1, <2>2
<1>7. pinned' \subseteq Listed'
  BY <1>1, <1>2, <1>3, <1>6
<1>8. hostOf[t] \in TabHosts \cup {None}
  BY <1>1 DEF StripTypeOK
<1>9. StripTypeOK'
  <2>1. savedPin' \subseteq TabHosts
    BY <1>1, <1>2, <1>8 DEF StripTypeOK
  <2> QED
    BY <1>1, <1>2, <1>5, <1>6, <1>7, <2>1 DEF StripTypeOK
<1>10. PinnedFirst'
  BY <1>5 DEF PinnedFirst, Distinct, LeftIn
<1>11. SiblingsAgree'
  <2> SUFFICES ASSUME NEW u \in Listed, hostOf[u] # None
               PROVE  u \in pinned' <=> hostOf[u] \in savedPin'
    BY <1>2, <1>6 DEF SiblingsAgree
  <2>1. u \in pinned <=> hostOf[u] \in savedPin
    BY <1>1 DEF SiblingsAgree
  <2>2. CASE hostOf[u] = hostOf[t]
    <3>1. u \in Siblings(t)
      BY <2>2 DEF Siblings
    <3>2. CASE t \in pinned
      BY <1>2, <2>2, <3>1, <3>2
    <3>3. CASE t \notin pinned
      BY <1>2, <2>2, <3>1, <3>3
    <3> QED
      BY <3>2, <3>3
  <2>3. CASE hostOf[u] # hostOf[t]
    <3>1. u \notin Siblings(t)
      BY <2>3 DEF Siblings
    <3>2. u \in pinned' <=> u \in pinned
      BY <1>2, <3>1
    <3>3. hostOf[u] \in savedPin' <=> hostOf[u] \in savedPin
      BY <1>2, <2>3
    <3> QED
      BY <2>1, <3>2, <3>3
  <2> QED
    BY <2>2, <2>3
<1> QED
  BY <1>7, <1>9, <1>10, <1>11 DEF StripInv

(* reorderSessionItem: the clamps keep a tab on its side of the last pin.  *)
LEMMA ReorderKeepsStrip ==
  ASSUME StripInv, NEW i \in 1..Len(sessions), NEW n \in 1..Len(sessions), Reorder(i, n)
  PROVE  StripInv'
<1> DEFINE t == sessions[i]
           m == Allowed(t, n)
           c == Len(Where(sessions, pinned))
<1>1. StripTypeOK /\ PinnedFirst /\ SiblingsAgree /\ pinned \subseteq Listed
  BY DEF StripInv
<1>2. /\ sessions' = Moved(sessions, i, m)
      /\ hostOf' = hostOf /\ pinned' = pinned /\ savedPin' = savedPin
  BY DEF Reorder, Moved
<1>3. Distinct(sessions) /\ LeftIn(sessions, pinned) /\ sessions \in Seq(TabIds)
  BY <1>1, PinnedFirstIs DEF StripTypeOK
<1>4. /\ c \in 0..Len(sessions) /\ Len(sessions) \in Nat
      /\ \A j \in 1..Len(sessions) : sessions[j] \in pinned <=> j <= c
  BY <1>3, PinnedCount
<1>5. m = IF t \in pinned THEN Clamp(n, 1, c) ELSE Clamp(n, c + 1, Len(sessions))
  BY DEF Allowed
<1> HIDE DEF m, c
<1>6. m \in 1..Len(sessions) /\ (sessions[i] \in pinned <=> sessions[m] \in pinned)
  <2>1. t \in pinned <=> i <= c
    BY <1>4
  <2>2. m \in 1..Len(sessions) /\ (i <= c <=> m <= c)
    BY <1>4, <1>5, <2>1 DEF Clamp
  <2> QED
    BY <1>4, <2>1, <2>2
<1>7. /\ sessions' \in Seq(TabIds) /\ Image(sessions') = Image(sessions)
      /\ Distinct(sessions') /\ LeftIn(sessions', pinned')
  BY <1>2, <1>3, <1>6, MovedIsOrdered
<1>8. Listed' = Listed
  BY <1>7 DEF Listed, Image
<1>9. StripTypeOK'
  BY <1>1, <1>2, <1>7 DEF StripTypeOK
<1>10. PinnedFirst'
  BY <1>7 DEF PinnedFirst, Distinct, LeftIn
<1>11. SiblingsAgree'
  BY <1>1, <1>2, <1>8 DEF SiblingsAgree
<1> QED
  BY <1>1, <1>2, <1>8, <1>9, <1>10, <1>11 DEF StripInv

LEMMA StripStep == StripInv /\ [StripNext]_stripVars => StripInv'
<1> SUFFICES ASSUME StripInv, [StripNext]_stripVars PROVE StripInv'
  OBVIOUS
<1>1. ASSUME NEW h \in TabHosts \cup {None}, OpenTab(h) PROVE StripInv'
  BY <1>1, OpenKeepsStrip
<1>2. ASSUME NEW t \in TabIds, CloseListed(t) PROVE StripInv'
  BY <1>2, CloseKeepsStrip
<1>3. ASSUME NEW t \in TabIds, TogglePin(t) PROVE StripInv'
  BY <1>3, ToggleKeepsStrip
<1>4. ASSUME NEW i \in 1..Len(sessions), NEW n \in 1..Len(sessions), Reorder(i, n)
      PROVE  StripInv'
  BY <1>4, ReorderKeepsStrip
<1>5. CASE UNCHANGED stripVars
  BY <1>5 DEF stripVars, StripInv, StripTypeOK, PinnedFirst, SiblingsAgree, Listed
<1> QED
  BY <1>1, <1>2, <1>3, <1>4, <1>5 DEF StripNext

LEMMA StripInvariant == StripSpec => []StripInv
  BY InitStrip, StripStep, PTL DEF StripSpec

(* StripTypeOK: no operation lists anything but a session, leaves a pin on *)
(* a session that is not one, or stores a pin for a host there is not.     *)
THEOREM StripTypeCorrect == StripSpec => []StripTypeOK
<1>1. StripInv => StripTypeOK
  BY DEF StripInv
<1> QED
  BY <1>1, StripInvariant, PTL

(* PinnedFirst: pinned tabs stay left of the others, and no tab is shown   *)
(* twice, whatever is opened, restored, dragged, pinned or closed.         *)
THEOREM PinnedStayFirst == StripSpec => []PinnedFirst
<1>1. StripInv => PinnedFirst
  BY DEF StripInv
<1> QED
  BY <1>1, StripInvariant, PTL

(* SiblingsAgree: every tab of a host shows the pin that is stored for it. *)
THEOREM SiblingsStayInSync == StripSpec => []SiblingsAgree
<1>1. StripInv => SiblingsAgree
  BY DEF StripInv
<1> QED
  BY <1>1, StripInvariant, PTL
=============================================================================
