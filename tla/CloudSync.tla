----------------------------- MODULE CloudSync -----------------------------
(***************************************************************************)
(* Cloud sync of the host list: SyncService (push, pull, the retry timer), *)
(* called by HostProvider.onMutation, by the window focus and by Settings. *)
(*                                                                         *)
(* One device is modelled in full.  The other devices of the user only     *)
(* write the shared row.  A time is compared by the code in one place      *)
(* (shouldPullRemote), so instead of times the row carries the result:     *)
(* whether its updated_at is after this device's last_push_at.  The clocks *)
(* of the devices agree.                                                   *)
(***************************************************************************)
EXTENDS Dart, Naturals, Sequences, FiniteSets

CONSTANTS
  Lists,     (* the values of the host list, sets of hosts                 *)
  MaxWrites  (* bound: host lists on their way to disk                     *)

ASSUME SyncAssumption == /\ \A l \in Lists : IsFiniteSet(l)
                         /\ MaxWrites \in Nat \ {0}

VARIABLES
  hostList,    (* HostProvider._hosts                                      *)
  saving,      (* an edit of _hosts that has not come to its push yet      *)
  stored,      (* the hosts on disk, which the next start loads            *)
  writes,      (* saveHosts calls on their way to disk, in order           *)
  syncOn,      (* SyncProvider.enabled: url, key and sync code are set     *)
  pendingPush, (* the stored flag sync_pending_push                        *)
  syncing,     (* _syncing                                                 *)
  transfers,   (* the push() and pull() activations past the _syncing test *)
  row,         (* the row of the sync code in Supabase, None if absent     *)
  synced,      (* history: the list last uploaded or pulled, None if none  *)
  uncovered    (* history: what happened since hostList was last synced    *)
               (* that no retry covers, a subset of Losses                 *)

hostVars == <<hostList, saving, stored, writes>>

syncVars == <<hostVars, syncOn, pendingPush, syncing, transfers, row, synced,
              uncovered>>

(* overlap: an edit was made, or came to its push, during a transfer;      *)
(* restart: the app stopped during a transfer, or between a change of the  *)
(* hosts and the end of what was to follow it (their save, their push).    *)
Losses == {"overlap", "restart"}

(* push: passwords -> upload; pull: check -> fetch -> apply.               *)
Transfer == [phase    : {"passwords", "upload", "check", "fetch", "apply"},
             list     : Lists \cup {None},
             readable : BOOLEAN,   (* encrypted with the code of the row   *)
             fresh    : BOOLEAN,   (* stamped after last_push_at           *)
             landed   : BOOLEAN]   (* the row is written, no answer yet    *)

Write == [list : Lists, by : {"edit", "pull"}]

Row == [list : Lists, readable : BOOLEAN, fresh : BOOLEAN]

SyncTypeOK ==
  /\ hostList    \in Lists
  /\ saving      \in BOOLEAN
  /\ stored      \in Lists
  /\ writes      \in Seq(Write)
  /\ syncOn      \in BOOLEAN
  /\ pendingPush \in BOOLEAN
  /\ syncing     \in BOOLEAN
  /\ transfers   \in SUBSET Transfer
  /\ row         \in Row \cup {None}
  /\ synced      \in Lists \cup {None}
  /\ uncovered   \subseteq Losses

(* Another device may have made the row before this one joins.             *)
SyncInit ==
  /\ hostList    \in Lists
  /\ saving      = FALSE
  /\ stored      = hostList
  /\ writes      = <<>>
  /\ syncOn      = FALSE
  /\ pendingPush = FALSE
  /\ syncing     = FALSE
  /\ transfers   = {}
  /\ row         \in {None} \cup
                     {[list |-> l, readable |-> TRUE, fresh |-> TRUE] : l \in Lists}
  /\ synced      = None
  /\ uncovered   = {}

NewTransfer(phase, list) ==
  [phase |-> phase, list |-> list, readable |-> TRUE, fresh |-> TRUE,
   landed |-> FALSE]

Step(t, u) == transfers' = (transfers \ {t}) \cup {u}

(* finally { _syncing = false; }                                           *)
EndsStuck(t) == transfers' = transfers \ {t} /\ UNCHANGED syncing  (* mutant *)

Ends(t) == transfers' = transfers \ {t} /\ syncing' = FALSE

(* push() up to its first await, configured.  hosts is a snapshot.         *)
PushAnyway ==  (* mutant: no test of _syncing *)
  /\ transfers' = transfers \cup {NewTransfer("passwords", hostList)}
  /\ syncing'   = TRUE
  /\ UNCHANGED pendingPush

PushOrFlag ==
  \/ /\ syncing
     /\ pendingPush' = TRUE
     /\ UNCHANGED <<syncing, transfers>>
  \/ /\ ~syncing
     /\ transfers' = transfers \cup {NewTransfer("passwords", hostList)}
     /\ syncing'   = TRUE
     /\ UNCHANGED pendingPush

Push == IF syncOn THEN PushOrFlag ELSE UNCHANGED <<pendingPush, syncing, transfers>>

(* saveHosts: the list is encoded at the call and written later.           *)
Save(l, by) == /\ Len(writes) < MaxWrites
               /\ writes' = Append(writes, [list |-> l, by |-> by])
               /\ UNCHANGED stored

WriteLands ==
  /\ writes # <<>>
  /\ stored' = Head(writes).list
  /\ writes' = Tail(writes)
  /\ UNCHANGED <<hostList, saving, syncOn, pendingPush, syncing, transfers,
                 row, synced, uncovered>>

(* addHost, updateHost, deleteHost: the list, then saveHosts, then push.   *)
EditOverlaps == IF transfers = {} THEN uncovered ELSE uncovered \cup {"overlap"}

Edit(l) ==
  /\ ~saving /\ l # hostList
  /\ hostList' = l
  /\ saving'   = TRUE
  /\ Save(l, "edit")
  /\ uncovered' = EditOverlaps
  /\ UNCHANGED <<syncOn, pendingPush, syncing, transfers, row, synced>>

(* The awaited saveHosts has returned; so have those of the passwords.     *)
EditStored == \A i \in DOMAIN writes : writes[i].by # "edit"

Edited ==
  /\ saving /\ EditStored
  /\ saving' = FALSE
  /\ Push
  /\ uncovered' = EditOverlaps
  /\ UNCHANGED <<hostList, stored, writes, syncOn, row, synced>>

(* A sync code is entered or generated in Settings: _saveCode, _pushNow.   *)
Join ==
  /\ ~syncOn
  /\ syncOn' = TRUE
  /\ PushOrFlag
  /\ UNCHANGED <<hostVars, row, synced, uncovered>>

(* _disconnect in Settings: clearSupabaseConfig.  A transfer goes on.      *)
Leave ==
  /\ syncOn
  /\ syncOn' = FALSE
  /\ UNCHANGED <<hostVars, pendingPush, syncing, transfers, row, synced,
                 uncovered>>

(* A tick of the 30 s timer; while a transfer runs it only flags again.    *)
RetryTick ==
  /\ pendingPush
  /\ Push
  /\ UNCHANGED <<hostVars, syncOn, row, synced, uncovered>>

(***************************************************************************)
(* The rest of push()                                                      *)
(***************************************************************************)
(* loadAllPasswords iterates over _hosts itself, an await for each host: a *)
(* list that got longer or shorter meanwhile ends it with an error.        *)
SameLength(t) == Cardinality(hostList) = Cardinality(t.list)

(* The row was chosen before loadPasswords, the key is chosen after it.    *)
PasswordsLoaded(t) ==
  /\ t.phase = "passwords" /\ SameLength(t)
  /\ Step(t, [t EXCEPT !.phase = "upload", !.readable = syncOn])
  /\ UNCHANGED <<hostVars, syncOn, pendingPush, syncing, row, synced,
                 uncovered>>

(* The catch clause of push().                                             *)
PushFailedUnflagged(t) ==  (* mutant: the failure is only shown *)
  /\ Ends(t)
  /\ UNCHANGED <<hostVars, syncOn, pendingPush, row, synced, uncovered>>

PushFailed(t) ==
  /\ Ends(t)
  /\ pendingPush' = TRUE
  /\ UNCHANGED <<hostVars, syncOn, row, synced, uncovered>>

PasswordsFailed(t) == t.phase = "passwords" /\ ~SameLength(t) /\ PushFailed(t)

UploadLands(t) ==
  /\ t.phase = "upload" /\ ~t.landed
  /\ row' = [list |-> t.list, readable |-> t.readable, fresh |-> t.fresh]
  /\ Step(t, [t EXCEPT !.landed = TRUE])
  /\ UNCHANGED <<hostVars, syncOn, pendingPush, syncing, synced, uncovered>>

(* The row was stamped before last_push_at is, whoever wrote it last.      *)
UploadAcked(t) ==
  /\ t.phase = "upload" /\ t.landed
  /\ transfers' = {[u EXCEPT !.fresh = FALSE] : u \in transfers \ {t}}
  /\ syncing'   = FALSE
  /\ row'       = IF row = None THEN None ELSE [row EXCEPT !.fresh = FALSE]
  /\ pendingPush' = FALSE
  /\ synced'    = t.list
  /\ uncovered' = IF t.list = hostList THEN {} ELSE uncovered
  /\ UNCHANGED <<hostVars, syncOn>>

(* The request is lost, or its answer is.                                  *)
UploadFailed(t) == t.phase = "upload" /\ PushFailed(t)

(***************************************************************************)
(* pull()                                                                  *)
(***************************************************************************)
WindowFocus ==
  /\ syncOn /\ ~syncing
  /\ transfers' = transfers \cup {NewTransfer("check", None)}
  /\ syncing'   = TRUE
  /\ UNCHANGED <<hostVars, syncOn, pendingPush, row, synced, uncovered>>

(* fetchUpdatedAt, shouldPullRemote.                                       *)
CheckedAppliesAtOnce(t) ==  (* mutant: the payload is not fetched *)
  /\ t.phase = "check"
  /\ IF row # None /\ row.fresh
     THEN Step(t, [t EXCEPT !.phase = "apply"]) /\ UNCHANGED syncing
     ELSE Ends(t)
  /\ UNCHANGED <<hostVars, syncOn, pendingPush, row, synced, uncovered>>

Checked(t) ==
  /\ t.phase = "check"
  /\ IF row # None /\ row.fresh
     THEN Step(t, [t EXCEPT !.phase = "fetch"]) /\ UNCHANGED syncing
     ELSE Ends(t)
  /\ UNCHANGED <<hostVars, syncOn, pendingPush, row, synced, uncovered>>

(* fetchPayload, decrypt; the flag is cleared with the payload in hand.    *)
Fetched(t) ==
  /\ t.phase = "fetch" /\ row # None /\ row.readable /\ syncOn
  /\ Step(t, [t EXCEPT !.phase = "apply", !.list = row.list])
  /\ pendingPush' = FALSE
  /\ UNCHANGED <<hostVars, syncOn, syncing, row, synced, uncovered>>

PullFailed(t) ==
  /\ t.phase \in {"check", "fetch"}
  /\ Ends(t)
  /\ UNCHANGED <<hostVars, syncOn, pendingPush, row, synced, uncovered>>

(* pull() returns and its caller runs HostProvider.replaceAll, and does    *)
(* not wait for the end of it.                                             *)
Applied(t) ==
  /\ t.phase = "apply"
  /\ Ends(t)
  /\ hostList'  = t.list
  /\ Save(t.list, "pull")
  /\ synced'    = t.list
  /\ uncovered' = {}
  /\ UNCHANGED <<saving, syncOn, pendingPush, row>>

(***************************************************************************)
(* The environment                                                         *)
(***************************************************************************)
(* Another device writes the row; its request may have been stamped before *)
(* this device's last push and land after it.                              *)
OtherDevicePushes(l, fresh) ==
  /\ row' = [list |-> l, readable |-> TRUE, fresh |-> fresh \/ synced = None]
  /\ UNCHANGED <<hostVars, syncOn, pendingPush, syncing,
                 transfers, synced, uncovered>>

(* The app quits or crashes, at any point, and starts again: the flag,     *)
(* last_push_at and the config are stored, the hosts are what was written  *)
(* of them, the rest is lost.                                              *)
Restart ==
  /\ hostList'  = stored
  /\ writes'    = <<>>
  /\ saving'    = FALSE
  /\ transfers' = {}
  /\ syncing'   = FALSE
  /\ uncovered' = IF transfers = {} /\ ~saving /\ writes = <<>>
                  THEN uncovered ELSE uncovered \cup {"restart"}
  /\ UNCHANGED <<stored, syncOn, pendingPush, row, synced>>

PushStep(t) == \/ PasswordsLoaded(t) \/ PasswordsFailed(t)
               \/ UploadLands(t) \/ UploadAcked(t) \/ UploadFailed(t)

PullStep(t) == Checked(t) \/ Fetched(t) \/ PullFailed(t) \/ Applied(t)

SyncNext ==
  \/ \E l \in Lists : Edit(l)
  \/ WriteLands \/ Edited \/ Join \/ Leave \/ RetryTick \/ WindowFocus \/ Restart
  \/ \E t \in transfers : PushStep(t) \/ PullStep(t)
  \/ \E l \in Lists, fresh \in BOOLEAN : OtherDevicePushes(l, fresh)

SyncSpec == SyncInit /\ [][SyncNext]_syncVars

(* Requests end; the timer ticks every 30 s, so also between two transfers *)
(* (a pull at every focus of the window may always run); and from some     *)
(* time on the network is up, no edit cuts loadAllPasswords short and the  *)
(* app stays up.                                                           *)
NoPushFails ==
  <>[][/\ ~Restart
       /\ ~\E t \in transfers : PasswordsFailed(t) \/ UploadFailed(t)]_syncVars

SyncFairness ==
  /\ SF_syncVars(RetryTick /\ ~syncing)
  /\ WF_syncVars(WriteLands) /\ WF_syncVars(Edited)
  /\ WF_syncVars(\E t \in transfers : PushStep(t) \/ PullStep(t))
  /\ NoPushFails

(***************************************************************************)
(* Properties.                                                             *)
(***************************************************************************)

(* push, pull: "Another push is in flight": one transfer at a time, so an  *)
(* upload never lands over a later one; and whatever way a transfer ends,  *)
(* the next one may start.                                                 *)
OneTransfer == /\ Cardinality(transfers) <= 1
               /\ syncing = (transfers # {})

(* An edit is forgotten when the device rests with a list that it neither  *)
(* uploaded nor pulled, and nothing is flagged for the retry timer.        *)
Forgotten == /\ syncOn /\ synced # None
             /\ transfers = {} /\ ~saving /\ ~pendingPush
             /\ hostList # synced

(* "Push: fires automatically on every host mutation; retries every 30 s   *)
(* on failure": what one transfer at a time, failing at any point, cannot  *)
(* lose.  An edit is forgotten only if it overlapped a transfer, or if the *)
(* app stopped during a transfer or between a change of the hosts and the  *)
(* save and push that were to follow it.                                   *)
ForgottenOnlyByOverlapOrRestart == Forgotten => uncovered # {}

(* "flag a retry so we don't silently drop this mutation. The 30s retry    *)
(* timer will pick it up": while the app stays up, no edit is forgotten.   *)
EditsAreRetried == Forgotten => "restart" \in uncovered

(* "retries every 30 s on failure": a flagged push gets through.           *)
PendingIsPushed == pendingPush ~> ~pendingPush \/ ~syncOn
=============================================================================
