-------------------------- MODULE CloudSync_proofs --------------------------
(***************************************************************************)
(* Theorems about CloudSync, for any values of the host list.              *)
(***************************************************************************)
EXTENDS CloudSync, TLAPS, FiniteSetTheorems, SequenceTheorems

Pushing(t) == t.phase \in {"passwords", "upload"}

(* A transfer that is to upload or to apply a list has one.                *)
TransfersListed ==
  \A t \in transfers : Pushing(t) \/ t.phase = "apply" => t.list \in Lists

(* _syncing is true exactly while there is a transfer, and there is one.   *)
Alone == /\ syncing = (transfers # {})
         /\ \A t, u \in transfers : t = u

(* What is written last is the list as it is: with nothing left to write,  *)
(* a restart loads the list it had.                                        *)
OnDisk == hostList = IF writes = <<>> THEN stored ELSE writes[Len(writes)].list

(* Why an edit cannot be forgotten without a loss: a push in flight        *)
(* carries the list as it is, and a list that was not synced is about to   *)
(* be pushed, flagged, on its way, or about to be replaced.                *)
Covered ==
  uncovered = {} =>
    /\ \A t \in transfers : Pushing(t) => t.list = hostList
    /\ synced # None /\ hostList # synced =>
         \/ ~syncOn \/ saving \/ pendingPush
         \/ \E t \in transfers : Pushing(t) \/ t.phase = "apply"

SyncInv == SyncTypeOK /\ TransfersListed /\ Alone /\ OnDisk /\ Covered

(* The end of the one transfer leaves none.                                *)
LEMMA LastEnds ==
  ASSUME Alone, NEW t \in transfers, Ends(t)
  PROVE  transfers = {t} /\ transfers' = {} /\ syncing' = FALSE
  BY DEF Alone, Ends

(* push() either flags a retry or becomes the one transfer, with the list  *)
(* as it is.                                                               *)
LEMMA PushAlone ==
  ASSUME Alone, PushOrFlag
  PROVE  \/ pendingPush' = TRUE /\ UNCHANGED <<syncing, transfers>>
         \/ /\ transfers' = {NewTransfer("passwords", hostList)} /\ syncing' = TRUE
            /\ pendingPush' = pendingPush
  BY DEF Alone, PushOrFlag

(* A transfer starts in its phase, with the list it is given.              *)
LEMMA NewTransferTyped ==
  ASSUME NEW phase \in {"passwords", "check"}, NEW list \in Lists \cup {None}
  PROVE  /\ NewTransfer(phase, list) \in Transfer
         /\ NewTransfer(phase, list).phase = phase
         /\ NewTransfer(phase, list).list = list
  BY DEF NewTransfer, Transfer

(* saveHosts of the list as it is makes it the last to be written.         *)
LEMMA SaveKeeps ==
  ASSUME SyncTypeOK, NEW l \in Lists, NEW by \in {"edit", "pull"},
         Save(l, by), hostList' = l
  PROVE  stored' \in Lists /\ writes' \in Seq(Write) /\ OnDisk'
<1>1. [list |-> l, by |-> by] \in Write
  BY DEF Write
<1>2. writes' \in Seq(Write) /\ writes' # <<>> /\ writes'[Len(writes')].list = l
  BY <1>1 DEF SyncTypeOK, Save
<1> QED
  BY <1>2 DEF SyncTypeOK, Save, OnDisk

(* A list that reaches the disk leaves the last one last.                  *)
LEMMA WriteLandsKeeps ==
  ASSUME SyncInv, WriteLands
  PROVE  SyncInv'
<1> USE DEF SyncInv
<1>1. /\ writes \in Seq(Write) /\ writes # <<>>
      /\ stored' = Head(writes).list /\ writes' = Tail(writes)
  BY DEF WriteLands, SyncTypeOK
<1>2. /\ Head(writes) \in Write /\ writes' \in Seq(Write)
      /\ Len(writes') = Len(writes) - 1
      /\ \A i \in 1..Len(writes') : writes'[i] = writes[i + 1]
  BY <1>1, HeadTailProperties
<1>4. stored' \in Lists
  BY <1>1, <1>2 DEF Write
<1>5. Len(writes) \in Nat \ {0} /\ Head(writes) = writes[1]
  BY <1>1
<1>3. OnDisk'
  <2>1. hostList' = writes[Len(writes)].list
    BY <1>1 DEF OnDisk, WriteLands
  <2>2. CASE Len(writes) = 1
    BY <1>1, <1>2, <1>5, <2>1, <2>2 DEF OnDisk
  <2>3. CASE Len(writes) # 1
    <3>1. writes' # <<>> /\ writes'[Len(writes')] = writes[Len(writes)]
      BY <1>2, <1>5, <2>3
    <3> QED
      BY <2>1, <3>1 DEF OnDisk
  <2> QED
    BY <2>2, <2>3
<1> QED
  BY <1>2, <1>3, <1>4
  DEF WriteLands, SyncTypeOK, TransfersListed, Alone, Covered

(* A state with no transfer, or one, of the right kind.                    *)
LEMMA NoTransfer ==
  ASSUME transfers = {}, syncing = FALSE
  PROVE  /\ TransfersListed /\ Alone
         /\ Covered <=> (uncovered = {} /\ synced # None /\ hostList # synced
                           => ~syncOn \/ saving \/ pendingPush)
  BY DEF TransfersListed, Alone, Covered

(* What the invariant says of a state with one transfer.                   *)
LEMMA OneTransferOnly ==
  ASSUME NEW t, transfers = {t}, syncing = TRUE
  PROVE  /\ TransfersListed <=> (Pushing(t) \/ t.phase = "apply" => t.list \in Lists)
         /\ Alone
         /\ Covered <=> (uncovered = {} =>
              /\ Pushing(t) => t.list = hostList
              /\ synced # None /\ hostList # synced =>
                   ~syncOn \/ saving \/ pendingPush \/ Pushing(t) \/ t.phase = "apply")
  BY DEF TransfersListed, Alone, Covered

(* A call of push() keeps the invariant, if an edit it pushes counts as    *)
(* overlapping a transfer that is there already.                           *)
LEMMA PushKeeps ==
  ASSUME SyncInv, PushOrFlag \/ (Push /\ UNCHANGED syncOn),
         saving' \in BOOLEAN, syncOn' \in BOOLEAN,
         UNCHANGED <<hostList, stored, writes, row, synced>>,
         uncovered' \subseteq Losses, uncovered \subseteq uncovered'
  PROVE  SyncInv'
<1> USE DEF SyncInv
<1>1. CASE PushOrFlag /\ pendingPush' = TRUE /\ UNCHANGED <<syncing, transfers>>
  BY <1>1 DEF SyncTypeOK, TransfersListed, Alone, OnDisk, Covered
<1>2. CASE /\ transfers' = {NewTransfer("passwords", hostList)} /\ syncing' = TRUE
           /\ pendingPush' = pendingPush
  <2> DEFINE t == NewTransfer("passwords", hostList)
  <2>1. t \in Transfer /\ t.phase = "passwords" /\ t.list = hostList /\ hostList \in Lists
    BY NewTransferTyped DEF SyncTypeOK
  <2> HIDE DEF t
  <2>2. SyncTypeOK'
    BY <1>2, <2>1 DEF SyncTypeOK, t
  <2> QED
    BY <1>2, <2>1, <2>2 DEF TransfersListed, Alone, OnDisk, Covered, Pushing, t
<1>3. CASE ~syncOn /\ Push /\ UNCHANGED syncOn
  BY <1>3 DEF Push, SyncTypeOK, TransfersListed, Alone, OnDisk, Covered
<1> QED
  BY <1>1, <1>2, <1>3, PushAlone DEF Push

(* A transfer that goes on to its next phase stays the only one.           *)
LEMMA GoesOn ==
  ASSUME SyncInv, NEW t \in transfers, NEW u \in Transfer, Step(t, u),
         Pushing(u) \/ u.phase = "apply" => u.list \in Lists,
         UNCHANGED <<hostVars, syncOn, syncing, synced, uncovered>>,
         row' \in Row \cup {None}, pendingPush' \in BOOLEAN,
         Pushing(u) => Pushing(t) /\ u.list = t.list,
         Pushing(t) \/ t.phase = "apply" => Pushing(u) \/ u.phase = "apply",
         pendingPush' = pendingPush \/ u.phase = "apply"
  PROVE  SyncInv'
<1> USE DEF SyncInv
<1>1. transfers' = {u} /\ transfers = {t} /\ syncing = TRUE
  BY DEF Alone, Step
<1>2. SyncTypeOK'
  BY <1>1 DEF SyncTypeOK, hostVars
<1> QED
  BY <1>1, <1>2
  DEF TransfersListed, Alone, OnDisk, Covered, SyncTypeOK, hostVars

(* After the end of a transfer nothing is in flight, and the list is saved *)
(* as one says: flagged, synced, or as it was.                             *)
LEMMA AfterTheEnd ==
  ASSUME SyncInv, NEW t \in transfers, Ends(t),
         hostList' \in Lists, synced' \in Lists \cup {None},
         pendingPush' \in BOOLEAN, uncovered' \subseteq Losses,
         row' \in Row \cup {None},
         UNCHANGED <<saving, syncOn>>,
         stored' \in Lists, writes' \in Seq(Write), OnDisk',
         \/ pendingPush' = TRUE
         \/ uncovered' = {} => hostList' = synced'
         \/ /\ t.phase \in {"check", "fetch"}
            /\ UNCHANGED <<hostList, synced, pendingPush, uncovered>>
  PROVE  SyncInv'
<1> USE DEF SyncInv
<1>1. transfers' = {} /\ syncing' = FALSE /\ transfers = {t}
  BY LastEnds
<1>2. SyncTypeOK'
  BY <1>1 DEF SyncTypeOK
<1> QED
  BY <1>1, <1>2 DEF TransfersListed, Alone, OnDisk, Covered, Pushing

(* The user, the timer and the other devices.                              *)
LEMMA CallersKeep ==
  ASSUME SyncInv,
         \/ \E l \in Lists : Edit(l)
         \/ WriteLands \/ Edited \/ Join \/ Leave \/ RetryTick \/ WindowFocus \/ Restart
         \/ \E l \in Lists, fresh \in BOOLEAN : OtherDevicePushes(l, fresh)
  PROVE  SyncInv'
<1> USE DEF SyncInv
<1>1. CASE \E l \in Lists : Edit(l)
  <2> PICK l \in Lists : Edit(l)
    BY <1>1
  <2>1. stored' \in Lists /\ writes' \in Seq(Write) /\ OnDisk'
    BY SaveKeeps DEF Edit
  <2> QED
    BY <2>1
    DEF Edit, EditOverlaps, Losses, SyncTypeOK, TransfersListed, Alone, Covered
<1>2. CASE Edited
  BY <1>2, PushKeeps DEF Edited, EditOverlaps, Losses, SyncTypeOK
<1>3. CASE Join
  BY <1>3, PushKeeps DEF Join, hostVars, SyncTypeOK
<1>4. CASE Leave
  BY <1>4
  DEF Leave, hostVars, SyncTypeOK, TransfersListed, Alone, OnDisk, Covered
<1>5. CASE RetryTick
  BY <1>5, PushKeeps DEF RetryTick, hostVars, SyncTypeOK
<1>6. CASE WindowFocus
  <2> PICK t : t = NewTransfer("check", None)
    OBVIOUS
  <2>1. t \in Transfer /\ t.phase = "check"
    BY NewTransferTyped
  <2>2. transfers' = {t} /\ syncing' = TRUE /\ transfers = {}
    BY <1>6 DEF WindowFocus, hostVars, Alone
  <2> QED
    BY <1>6, <2>1, <2>2
    DEF WindowFocus, hostVars, SyncTypeOK, TransfersListed, Alone, OnDisk,
        Covered, Pushing
<1>7. CASE Restart
  <2>1. SyncTypeOK' /\ TransfersListed' /\ Alone' /\ OnDisk'
    BY <1>7, EmptySeq
    DEF Restart, Losses, SyncTypeOK, TransfersListed, Alone, OnDisk
  <2>2. CASE transfers = {} /\ ~saving /\ writes = <<>>
    <3>1. hostList' = hostList
      BY <1>7, <2>2 DEF Restart, OnDisk
    <3> QED
      BY <1>7, <2>1, <2>2, <3>1 DEF Restart, Covered
  <2>3. CASE ~(transfers = {} /\ ~saving /\ writes = <<>>)
    <3>1. uncovered' # {}
      BY <1>7, <2>3 DEF Restart
    <3> QED
      BY <2>1, <3>1 DEF Covered
  <2> QED
    BY <2>2, <2>3
<1>8. CASE \E l \in Lists, fresh \in BOOLEAN : OtherDevicePushes(l, fresh)
  BY <1>8
  DEF OtherDevicePushes, hostVars, SyncTypeOK, Row, TransfersListed, Alone,
      OnDisk, Covered
<1>9. CASE WriteLands
  BY <1>9, WriteLandsKeeps
<1> QED
  BY <1>1, <1>2, <1>3, <1>4, <1>5, <1>6, <1>7, <1>8, <1>9

(* The steps of a push.                                                    *)
LEMMA PushStepKeeps ==
  ASSUME SyncInv, NEW t \in transfers, PushStep(t)
  PROVE  SyncInv'
<1>0. t \in Transfer
  BY DEF SyncInv, SyncTypeOK
<1>1. CASE PasswordsLoaded(t)
  <2> PICK u : u = [t EXCEPT !.phase = "upload", !.readable = syncOn]
    OBVIOUS
  <2>1. u \in Transfer /\ u.phase = "upload" /\ u.list = t.list
    BY <1>0 DEF Transfer, SyncInv, SyncTypeOK
  <2>2. Step(t, u) /\ t.phase = "passwords"
    BY <1>1 DEF PasswordsLoaded
  <2>3. t.list \in Lists
    BY <2>2 DEF SyncInv, TransfersListed, Pushing
  <2> QED
    BY <1>1, <2>1, <2>2, <2>3, GoesOn
    DEF PasswordsLoaded, hostVars, SyncInv, SyncTypeOK, Pushing
<1>2. CASE PasswordsFailed(t) \/ UploadFailed(t)
  BY <1>2, AfterTheEnd
  DEF PasswordsFailed, UploadFailed, PushFailed, hostVars, OnDisk, SyncInv,
      SyncTypeOK
<1>3. CASE UploadLands(t)
  <2> PICK u : u = [t EXCEPT !.landed = TRUE]
    OBVIOUS
  <2>1. u \in Transfer /\ u.phase = t.phase /\ u.list = t.list
    BY <1>0 DEF Transfer
  <2>2. Step(t, u) /\ t.phase = "upload"
    BY <1>3 DEF UploadLands
  <2>3. t.list \in Lists
    BY <2>2 DEF SyncInv, TransfersListed, Pushing
  <2>4. row' \in Row
    BY <1>0, <1>3, <2>3 DEF UploadLands, hostVars, Row, Transfer
  <2> QED
    BY <1>3, <2>1, <2>2, <2>3, <2>4, GoesOn
    DEF UploadLands, hostVars, SyncInv, SyncTypeOK, Pushing
<1>4. CASE UploadAcked(t)
  <2>1. t.list \in Lists
    BY <1>4 DEF UploadAcked, hostVars, SyncInv, TransfersListed, Pushing
  <2>2. transfers = {t}
    BY DEF SyncInv, Alone
  <2>3. Ends(t)
    BY <1>4, <2>2 DEF UploadAcked, hostVars, Ends
  <2>4. row' \in Row \cup {None}
    BY <1>4 DEF UploadAcked, hostVars, SyncInv, SyncTypeOK, Row
  <2>5. uncovered' = {} => hostList' = synced'
    BY <1>4 DEF UploadAcked, hostVars, SyncInv, Covered, Pushing
  <2> QED
    BY <1>4, <2>1, <2>3, <2>4, <2>5, AfterTheEnd
    DEF UploadAcked, hostVars, OnDisk, SyncInv, SyncTypeOK
<1> QED
  BY <1>1, <1>2, <1>3, <1>4 DEF PushStep

(* The steps of a pull.                                                    *)
LEMMA PullStepKeeps ==
  ASSUME SyncInv, NEW t \in transfers, PullStep(t)
  PROVE  SyncInv'
<1>0. t \in Transfer
  BY DEF SyncInv, SyncTypeOK
<1>1. CASE Checked(t) /\ ~Ends(t)
  <2> PICK u : u = [t EXCEPT !.phase = "fetch"]
    OBVIOUS
  <2>1. u \in Transfer /\ u.phase = "fetch"
    BY <1>0 DEF Transfer
  <2>2. Step(t, u) /\ t.phase = "check" /\ UNCHANGED syncing
    BY <1>1 DEF Checked
  <2> QED
    BY <1>1, <2>1, <2>2, GoesOn
    DEF Checked, hostVars, SyncInv, SyncTypeOK, Pushing
<1>2. CASE Checked(t) /\ Ends(t)
  BY <1>2, AfterTheEnd DEF Checked, hostVars, OnDisk, SyncInv, SyncTypeOK
<1>3. CASE Fetched(t)
  <2> PICK u : u = [t EXCEPT !.phase = "apply", !.list = row.list]
    OBVIOUS
  <2>1. row \in Row /\ row.list \in Lists
    BY <1>3 DEF Fetched, hostVars, SyncInv, SyncTypeOK, Row
  <2>2. u \in Transfer /\ u.phase = "apply" /\ u.list = row.list
    BY <1>0, <2>1 DEF Transfer
  <2>3. Step(t, u) /\ t.phase = "fetch"
    BY <1>3 DEF Fetched
  <2> QED
    BY <1>3, <2>1, <2>2, <2>3, GoesOn
    DEF Fetched, hostVars, SyncInv, SyncTypeOK, Pushing
<1>4. CASE PullFailed(t)
  BY <1>4, AfterTheEnd DEF PullFailed, hostVars, OnDisk, SyncInv, SyncTypeOK
<1>5. CASE Applied(t)
  <2>1. t.list \in Lists
    BY <1>5 DEF Applied, SyncInv, TransfersListed
  <2>2. stored' \in Lists /\ writes' \in Seq(Write) /\ OnDisk'
    BY <1>5, <2>1, SaveKeeps DEF Applied, SyncInv
  <2> QED
    BY <1>5, <2>1, <2>2, AfterTheEnd DEF Applied, SyncInv, SyncTypeOK
<1> QED
  BY <1>1, <1>2, <1>3, <1>4, <1>5 DEF PullStep

(* SyncInv holds in every reachable state.                                 *)
LEMMA SyncInvariant == SyncSpec => []SyncInv
<1>1. SyncInit => SyncInv
  <2> SUFFICES ASSUME SyncInit PROVE SyncInv
    OBVIOUS
  <2>1. row \in Row \cup {None}
    <3>1. \/ row = None
          \/ \E l \in Lists : row = [list |-> l, readable |-> TRUE, fresh |-> TRUE]
      BY Zenon DEF SyncInit
    <3>2. \A l \in Lists : [list |-> l, readable |-> TRUE, fresh |-> TRUE] \in Row
      BY DEF Row
    <3> QED
      BY <3>1, <3>2
  <2>2. SyncTypeOK
    BY <2>1, EmptySeq DEF SyncInit, SyncTypeOK
  <2> QED
    BY <2>2 DEF SyncInit, SyncInv, TransfersListed, Alone, OnDisk, Covered
<1>2. SyncInv /\ [SyncNext]_syncVars => SyncInv'
  <2> SUFFICES ASSUME SyncInv, [SyncNext]_syncVars PROVE SyncInv'
    OBVIOUS
  <2>1. CASE UNCHANGED syncVars
    BY <2>1
    DEF syncVars, hostVars, SyncInv, SyncTypeOK, TransfersListed, Alone, OnDisk,
        Covered
  <2>2. CASE \E t \in transfers : PushStep(t) \/ PullStep(t)
    BY <2>2, PushStepKeeps, PullStepKeeps
  <2> QED
    BY <2>1, <2>2, CallersKeep DEF SyncNext
<1> QED
  BY <1>1, <1>2, PTL DEF SyncSpec

(* Every variable keeps its type, whatever is edited, pushed and pulled.   *)
THEOREM SyncTypeCorrect == SyncSpec => []SyncTypeOK
<1>1. SyncInv => SyncTypeOK
  BY DEF SyncInv
<1> QED
  BY <1>1, SyncInvariant, PTL

(* push, pull: one transfer at a time, and _syncing is true exactly while  *)
(* there is one: whatever way it ends, the next may start.                 *)
THEOREM TransfersTakeTurns == SyncSpec => []OneTransfer
<1>1. SyncInv => OneTransfer
  <2> SUFFICES ASSUME SyncInv PROVE OneTransfer
    OBVIOUS
  <2>1. CASE transfers = {}
    BY <2>1, FS_EmptySet DEF SyncInv, Alone, OneTransfer
  <2>2. CASE transfers # {}
    <3>1. PICK t : t \in transfers
      BY <2>2
    <3>2. transfers = {t}
      BY <3>1 DEF SyncInv, Alone
    <3>3. Cardinality({t}) = 1
      BY FS_Singleton
    <3> QED
      BY <2>2, <3>2, <3>3 DEF SyncInv, Alone, OneTransfer
  <2> QED
    BY <2>1, <2>2
<1> QED
  BY <1>1, SyncInvariant, PTL

(* "Push: fires automatically on every host mutation; retries every 30 s   *)
(* on failure": a device that rests with a list it neither uploaded nor    *)
(* pulled, and no retry flagged, got there by an edit during a transfer,   *)
(* or by a stop of the app during a transfer or between a change of the    *)
(* hosts and the save and the push that were to follow it.                 *)
THEOREM OnlyOverlapOrRestartForgets == SyncSpec => []ForgottenOnlyByOverlapOrRestart
<1>1. SyncInv => ForgottenOnlyByOverlapOrRestart
  BY DEF SyncInv, Covered, Forgotten, ForgottenOnlyByOverlapOrRestart
<1> QED
  BY <1>1, SyncInvariant, PTL
=============================================================================
