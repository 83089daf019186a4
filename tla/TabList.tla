------------------------------ MODULE TabList ------------------------------
(***************************************************************************)
(* The tab strip: the list _sessions of SessionProvider with the pins of   *)
(* its tabs, and the pins that TabMetadataService stores for each host.    *)
(* Labels and colours are kept like pins, but order nothing: left out.     *)
(* The stored record is cached by SharedPreferences, so that loading it    *)
(* and saving it take no time another user event could use.                *)
(***************************************************************************)
EXTENDS Dart, Naturals, Sequences

CONSTANTS
  TabIds,   (* session ids; bounds the number of open tabs                 *)
  TabHosts  (* saved hosts; a tab of no host is a local or a watched one   *)

ASSUME TabListAssumption == None \notin TabHosts

VARIABLES
  sessions, (* SessionProvider._sessions                                   *)
  hostOf,   (* _metadataHostId of a tab                                    *)
  pinned,   (* the tabs with isPinned                                      *)
  savedPin  (* the hosts stored as pinned                                  *)

stripVars == <<sessions, hostOf, pinned, savedPin>>

Listed == {sessions[i] : i \in 1..Len(sessions)}

StripTypeOK ==
  /\ sessions \in Seq(TabIds)
  /\ hostOf   \in [TabIds -> TabHosts \cup {None}]
  /\ pinned   \subseteq TabIds
  /\ savedPin \subseteq TabHosts

StripInit ==
  /\ sessions = <<>>
  /\ hostOf   = [t \in TabIds |-> None]
  /\ pinned   = {}
  /\ savedPin \in SUBSET TabHosts

(* _sessions.where((t) => t in S): the first i tabs give kept[i].          *)
Kept(s, S) ==
  LET kept[i \in 0..Len(s)] == IF i = 0 THEN <<>>
                               ELSE IF s[i] \in S THEN Append(kept[i - 1], s[i])
                                                  ELSE kept[i - 1]
  IN  kept

Where(s, S) == Kept(s, S)[Len(s)]

(* _sortSessions                                                           *)
Sorted(s, pins) == Where(s, pins) \o Where(s, TabIds \ pins)

(* connect, connectRdp, newLocalSession, addWatchSession; ids are alike.   *)
NewId == CHOOSE t \in TabIds : t \notin Listed

Opened(h, order) ==
  /\ Listed # TabIds
  /\ sessions' = order
  /\ hostOf' = [hostOf EXCEPT ![NewId] = h]
  /\ pinned' = IF h \in savedPin THEN pinned \cup {NewId} ELSE pinned
  /\ UNCHANGED savedPin

OpenTabUnsorted(h) ==  (* mutant: a stored pin does not sort *)
  Opened(h, Append(sessions, NewId))

OpenTab(h) ==
  Opened(h, IF h \in savedPin THEN Sorted(Append(sessions, NewId), pinned \cup {NewId})
                              ELSE Append(sessions, NewId))

(* closeSession, removeWatchSession                                        *)
CloseListed(t) ==
  /\ t \in Listed
  /\ sessions' = Where(sessions, TabIds \ {t})
  /\ hostOf'   = [hostOf EXCEPT ![t] = None]
  /\ pinned'   = pinned \ {t}
  /\ UNCHANGED savedPin

(* togglePin, _persistTabMetadata: the other tabs of the host follow.      *)
MirrorNone(t) == {t}  (* mutant of Siblings *)

Siblings(t) == {u \in Listed : u = t \/ (hostOf[t] # None /\ hostOf[u] = hostOf[t])}

TogglePinSavesAll(t) ==  (* mutant: a local tab is saved as well *)
  /\ t \in Listed
  /\ pinned'   = IF t \in pinned THEN pinned \ Siblings(t) ELSE pinned \cup Siblings(t)
  /\ savedPin' = IF t \in pinned THEN savedPin \ {hostOf[t]} ELSE savedPin \cup {hostOf[t]}
  /\ sessions' = Sorted(sessions, pinned')
  /\ UNCHANGED hostOf

TogglePin(t) ==
  /\ t \in Listed
  /\ pinned'   = IF t \in pinned THEN pinned \ Siblings(t) ELSE pinned \cup Siblings(t)
  /\ savedPin' = CASE hostOf[t] = None -> savedPin
                   [] t \in pinned     -> savedPin \ {hostOf[t]}
                   [] OTHER            -> savedPin \cup {hostOf[t]}
  /\ sessions' = Sorted(sessions, pinned')
  /\ UNCHANGED hostOf

Clamp(n, lo, hi) == IF n < lo THEN lo ELSE IF n > hi THEN hi ELSE n

(* reorderSessionItem; indices from 1.                                     *)
Allowed(t, n) ==
  LET pins == Len(Where(sessions, pinned))
  IN  IF t \in pinned THEN Clamp(n, 1, pins) ELSE Clamp(n, pins + 1, Len(sessions))

RemoveAt(s, i)    == SubSeq(s, 1, i - 1) \o SubSeq(s, i + 1, Len(s))
Insert(s, n, t)   == SubSeq(s, 1, n - 1) \o <<t>> \o SubSeq(s, n, Len(s))

Reorder(i, n) ==
  /\ i \in 1..Len(sessions)
  /\ sessions' = Insert(RemoveAt(sessions, i), Allowed(sessions[i], n), sessions[i])
  /\ UNCHANGED <<hostOf, pinned, savedPin>>

StripNext ==
  \/ \E h \in TabHosts \cup {None} : OpenTab(h)
  \/ \E t \in TabIds : CloseListed(t) \/ TogglePin(t)
  \/ \E i, n \in 1..Len(sessions) : Reorder(i, n)

StripSpec == StripInit /\ [][StripNext]_stripVars

(***************************************************************************)
(* Properties.                                                             *)
(***************************************************************************)

(* _sortSessions, the clamps of reorderSessionItem: pinned tabs are left   *)
(* of the others, whatever was opened, restored, dragged, pinned or        *)
(* closed; and no tab is shown twice.                                      *)
PinnedFirst ==
  \A i, j \in 1..Len(sessions) : i < j =>
    /\ sessions[i] # sessions[j]
    /\ sessions[j] \in pinned => sessions[i] \in pinned

(* _persistTabMetadata: "keeping the live sessions in sync avoids them     *)
(* silently diverging and then stomping each other's persisted record":    *)
(* all tabs of a host show the stored pin.                                 *)
SiblingsAgree ==
  \A t \in Listed : hostOf[t] # None => (t \in pinned <=> hostOf[t] \in savedPin)
=============================================================================
