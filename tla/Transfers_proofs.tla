-------------------------- MODULE Transfers_proofs --------------------------
(***************************************************************************)
(* Proofs about Transfers, for any number of batches of any size.          *)
(***************************************************************************)
EXTENDS Transfers, TLAPS

Unlisted(b) == \A i \in 1..Size : status[<<b, i>>] = "absent"

(* While a batch that the user cancelled is still listed, its loop stays   *)
(* at the item it awaited then.  CancelledBatchStops, which says so of an  *)
(* unlisted batch too, is refuted by a run.                                *)
ListedBatchStops ==
  \A b \in Batches : cancelledAt[b] # 0 /\ ~Unlisted(b) => at[b] = cancelledAt[b]

(***************************************************************************)
(* The inductive invariant.  The flag is up as long as a cancelled loop    *)
(* could go on with an item that is listed; and a flag that is up means    *)
(* that nothing is in progress, so that a batch started now takes it down  *)
(* only together with the whole list.                                      *)
(***************************************************************************)
FlagStopsAll == cancelled => ~IsTransferring

LoopsCounted ==
  \A b \in Batches :
    /\ loop[b] = "none" => at[b] = 0 /\ cancelledAt[b] = 0 /\ Unlisted(b)
    /\ loop[b] # "none" => at[b] \in 1..Size

FlagStaysUp ==
  \A b \in Batches :
    cancelledAt[b] # 0 /\ ~Unlisted(b) /\ loop[b] = "running" => cancelled

TransfersInv ==
  /\ TransfersTypeOK /\ ShownTransferIsLive /\ ListedBatchStops
  /\ FlagStopsAll /\ LoopsCounted /\ FlagStaysUp

(* Nothing is listed and no loop runs.                                     *)
LEMMA InitTransfers == TransfersInit => TransfersInv
<1> USE TransfersAssumption
<1> SUFFICES ASSUME TransfersInit PROVE TransfersInv
  OBVIOUS
<1>1. \A b \in Batches, i \in 1..Size : <<b, i>> \in Items /\ status[<<b, i>>] = "absent"
  BY DEF TransfersInit, Items
<1>2. TransfersTypeOK
  <2>1. 0 \in 0..Size
    OBVIOUS
  <2>2. status \in [Items -> {"absent", "pending", "inProgress", "done", "skipped"}]
    BY DEF TransfersInit
  <2>3. /\ loop \in [Batches -> {"none", "running", "ended", "failed"}]
        /\ at \in [Batches -> 0..Size] /\ cancelledAt \in [Batches -> 0..Size]
    BY <2>1 DEF TransfersInit
  <2> QED
    BY <2>2, <2>3 DEF TransfersInit, TransfersTypeOK
<1>3. ShownTransferIsLive
  BY <1>1 DEF ShownTransferIsLive
<1>4. FlagStopsAll /\ LoopsCounted /\ FlagStaysUp /\ ListedBatchStops
  BY <1>1 DEF TransfersInit, FlagStopsAll, LoopsCounted, FlagStaysUp, ListedBatchStops,
              Unlisted
<1> QED
  BY <1>2, <1>3, <1>4 DEF TransfersInv

(* startBatch: a list with nothing in progress is replaced, and only then  *)
(* can the flag have been up.                                              *)
LEMMA StartBatchKeeps ==
  ASSUME TransfersInv, NEW b \in Batches, StartBatch(b)
  PROVE  TransfersInv'
<1> USE TransfersAssumption
<1>1. /\ TransfersTypeOK /\ ShownTransferIsLive /\ ListedBatchStops
      /\ FlagStopsAll /\ LoopsCounted /\ FlagStaysUp
  BY DEF TransfersInv
<1>2. /\ loop[b] = "none"
      /\ loop' = [loop EXCEPT ![b] = "running"]
      /\ at' = [at EXCEPT ![b] = 1]
      /\ cancelled' = FALSE
      /\ unbuilt' = TRUE
      /\ autoHide' = autoHide /\ cancelledAt' = cancelledAt
  BY <1>1 DEF StartBatch, FlagStopsAll, TransfersTypeOK
<1>3. status' = [i \in Items |-> CASE i = <<b, 1>>  -> "inProgress"
                                   [] i \in Of(b) \ {<<b, 1>>} -> "pending"
                                   [] OTHER -> IF IsTransferring THEN status[i] ELSE "absent"]
  BY DEF StartBatch
<1>4. \A c \in Batches, i \in 1..Size :
        /\ <<c, i>> \in Items
        /\ <<c, i>> \in Of(b) <=> c = b
        /\ <<c, i>> = <<b, 1>> <=> (c = b /\ i = 1)
  BY DEF Items, Of
<1>5. /\ status'[<<b, 1>>] = "inProgress"
      /\ \A i \in 1..Size : i # 1 => status'[<<b, i>>] = "pending"
      /\ \A c \in Batches, i \in 1..Size : c # b =>
           status'[<<c, i>>] = IF IsTransferring THEN status[<<c, i>>] ELSE "absent"
  <2> HIDE DEF Items, Of
  <2> QED
    BY <1>3, <1>4
<1>6. status' \in [Items -> {"absent", "pending", "inProgress", "done", "skipped"}]
  <2>1. ASSUME NEW i \in Items
        PROVE  status'[i] \in {"absent", "pending", "inProgress", "done", "skipped"}
    <3>1. PICK c \in Batches, k \in 1..Size : i = <<c, k>>
      BY DEF Items
    <3>2. status[<<c, k>>] \in {"absent", "pending", "inProgress", "done", "skipped"}
      BY <1>1, <1>4 DEF TransfersTypeOK
    <3> QED
      BY <1>5, <3>1, <3>2
  <2> HIDE DEF Items
  <2>2. status' = [i \in Items |-> status'[i]]
    BY <1>3
  <2> QED
    BY <2>1, <2>2
<1>7. TransfersTypeOK'
  <2>1. /\ loop' \in [Batches -> {"none", "running", "ended", "failed"}]
        /\ at' \in [Batches -> 0..Size]
    BY <1>1, <1>2 DEF TransfersTypeOK
  <2> QED
    BY <1>1, <1>2, <1>6, <2>1 DEF TransfersTypeOK
<1>8. at[b] = 0 /\ cancelledAt[b] = 0
  BY <1>1, <1>2 DEF LoopsCounted
<1>9. ShownTransferIsLive'
  <2> SUFFICES ASSUME NEW c \in Batches, NEW i \in 1..Size, status'[<<c, i>>] = "inProgress"
               PROVE  at'[c] = i /\ loop'[c] \in {"running", "failed"} /\ cancelledAt'[c] = 0
    BY DEF ShownTransferIsLive
  <2>1. CASE c = b
    BY <1>1, <1>2, <1>5, <1>8, <2>1 DEF TransfersTypeOK
  <2>2. CASE c # b
    BY <1>1, <1>2, <1>5, <2>2 DEF ShownTransferIsLive, TransfersTypeOK
  <2> QED
    BY <2>1, <2>2
<1>10. \A c \in Batches : c # b /\ ~Unlisted(c)' => IsTransferring /\ ~Unlisted(c)
  BY <1>5 DEF Unlisted
<1>11. ListedBatchStops'
  BY <1>1, <1>2, <1>8, <1>10 DEF ListedBatchStops, TransfersTypeOK
<1>12. FlagStopsAll'
  BY <1>2 DEF FlagStopsAll
<1>13. LoopsCounted'
  <2> SUFFICES ASSUME NEW c \in Batches
               PROVE  /\ loop'[c] = "none" =>
                           at'[c] = 0 /\ cancelledAt'[c] = 0 /\ Unlisted(c)'
                      /\ loop'[c] # "none" => at'[c] \in 1..Size
    BY DEF LoopsCounted
  <2>1. CASE c = b
    BY <1>1, <1>2, <2>1 DEF TransfersTypeOK
  <2>2. CASE c # b
    <3>1. loop'[c] = loop[c] /\ at'[c] = at[c] /\ cancelledAt'[c] = cancelledAt[c]
      BY <1>1, <1>2, <2>2 DEF TransfersTypeOK
    <3>2. Unlisted(c) => Unlisted(c)'
      BY <1>10, <2>2
    <3> QED
      BY <1>1, <3>1, <3>2 DEF LoopsCounted
  <2> QED
    BY <2>1, <2>2
<1>14. FlagStaysUp'
  <2> SUFFICES ASSUME NEW c \in Batches, cancelledAt'[c] # 0, ~Unlisted(c)',
                      loop'[c] = "running"
               PROVE  FALSE
    BY DEF FlagStaysUp
  <2>1. c # b
    BY <1>2, <1>8
  <2>2. IsTransferring /\ ~Unlisted(c) /\ loop[c] = "running" /\ cancelledAt[c] # 0
    BY <1>1, <1>2, <1>10, <2>1 DEF TransfersTypeOK
  <2> QED
    BY <1>1, <2>2 DEF FlagStaysUp, FlagStopsAll
<1> QED
  BY <1>7, <1>9, <1>11, <1>12, <1>13, <1>14 DEF TransfersInv

(* What an update leaves of the other items.                               *)
LEMMA Updates ==
  ASSUME NEW s \in [Items -> {"absent", "pending", "inProgress", "done", "skipped"}],
         NEW i \in Items, NEW new \in {"inProgress", "done"}
  PROVE  /\ Update(s, i, new) \in
              [Items -> {"absent", "pending", "inProgress", "done", "skipped"}]
         /\ \A j \in Items : Update(s, i, new)[j] =
              IF j = i /\ s[i] # "absent" THEN new ELSE s[j]
  BY DEF Update

(* The loop: only what is listed is marked, and only while the flag is     *)
(* down does it go on.                                                     *)
LEMMA ItemDoneKeeps ==
  ASSUME TransfersInv, NEW b \in Batches, ItemDone(b)
  PROVE  TransfersInv'
<1> USE TransfersAssumption
<1> DEFINE i == <<b, at[b]>>
           n == <<b, at[b] + 1>>
           done == Update(status, i, "done")
<1>1. /\ TransfersTypeOK /\ ShownTransferIsLive /\ ListedBatchStops
      /\ FlagStopsAll /\ LoopsCounted /\ FlagStaysUp
  BY DEF TransfersInv
<1>2. /\ loop[b] = "running"
      /\ GoesOn(b) => /\ at' = [at EXCEPT ![b] = @ + 1]
                      /\ status' = Update(done, n, "inProgress")
                      /\ loop' = loop
      /\ ~GoesOn(b) => /\ loop' = [loop EXCEPT ![b] = "ended"]
                       /\ status' = done /\ at' = at
      /\ unbuilt' = (unbuilt \/ status' # status)
      /\ cancelled' = cancelled /\ autoHide' = autoHide /\ cancelledAt' = cancelledAt
  BY DEF ItemDone
<1>3. at[b] \in 1..Size /\ i \in Items
  BY <1>1, <1>2 DEF LoopsCounted, Items
<1>4. /\ done \in [Items -> {"absent", "pending", "inProgress", "done", "skipped"}]
      /\ \A j \in Items : done[j] = IF j = i /\ status[i] # "absent" THEN "done" ELSE status[j]
  BY <1>1, <1>3, Updates DEF TransfersTypeOK
<1>5. GoesOn(b) => at[b] + 1 \in 1..Size /\ n \in Items /\ ~cancelled
  BY <1>3 DEF GoesOn, Items
<1> HIDE DEF done
<1>6. /\ status' \in [Items -> {"absent", "pending", "inProgress", "done", "skipped"}]
      /\ GoesOn(b) => \A j \in Items :
           status'[j] = IF j = n /\ done[n] # "absent" THEN "inProgress" ELSE done[j]
  <2>1. CASE GoesOn(b)
    <3>1. status' = Update(done, n, "inProgress") /\ n \in Items
      BY <1>2, <1>5, <2>1 DEF done
    <3> HIDE DEF n
    <3> QED
      BY <1>4, <3>1, Updates
  <2>2. CASE ~GoesOn(b)
    BY <1>2, <1>4, <2>2 DEF done
  <2> QED
    BY <2>1, <2>2
<1>7. \A j \in Items : status'[j] = "absent" <=> status[j] = "absent"
  <2> SUFFICES ASSUME NEW j \in Items PROVE status'[j] = "absent" <=> status[j] = "absent"
    OBVIOUS
  <2> HIDE DEF i, n
  <2>1. done[j] = "absent" <=> status[j] = "absent"
    BY <1>3, <1>4
  <2> QED
    BY <1>2, <1>5, <1>6, <2>1
<1>8. \A c \in Batches, k \in 1..Size : <<c, k>> \in Items
  BY DEF Items
<1>9. \A c \in Batches : Unlisted(c)' <=> Unlisted(c)
  BY <1>7, <1>8 DEF Unlisted
<1>10. ASSUME NEW c \in Batches, NEW k \in 1..Size, status'[<<c, k>>] = "inProgress"
       PROVE  \/ /\ c # b /\ status[<<c, k>>] = "inProgress"
              \/ /\ c = b /\ GoesOn(b) /\ k = at[b] + 1 /\ ~Unlisted(b)
  <2> DEFINE j == <<c, k>>
  <2>1. j \in Items
    BY <1>8
  <2>2. CASE GoesOn(b) /\ j = n /\ done[n] # "absent"
    <3>1. c = b /\ k = at[b] + 1
      BY <2>2
    <3>2. status'[<<b, k>>] # "absent"
      BY <1>10, <3>1
    <3> QED
      BY <1>9, <2>2, <3>1, <3>2 DEF Unlisted
  <2>3. CASE ~(GoesOn(b) /\ j = n /\ done[n] # "absent")
    <3> HIDE DEF i, n
    <3>1. done[j] = "inProgress"
      BY <1>2, <1>6, <1>10, <2>1, <2>3
    <3>2. status[j] = "inProgress" /\ j # i
      BY <1>3, <1>4, <2>1, <3>1
    <3>3. at[c] = k
      BY <1>1, <3>2 DEF ShownTransferIsLive
    <3>4. c # b
      BY <3>2, <3>3 DEF i
    <3> QED
      BY <3>2, <3>4
  <2> QED
    BY <2>2, <2>3
<1>11. ~Unlisted(b) /\ GoesOn(b) => cancelledAt[b] = 0
  BY <1>1, <1>2, <1>5 DEF FlagStaysUp
<1>12. TransfersTypeOK'
  BY <1>1, <1>2, <1>5, <1>6 DEF TransfersTypeOK
<1>13. ShownTransferIsLive'
  <2> SUFFICES ASSUME NEW c \in Batches, NEW k \in 1..Size, status'[<<c, k>>] = "inProgress"
               PROVE  at'[c] = k /\ loop'[c] \in {"running", "failed"} /\ cancelledAt'[c] = 0
    BY DEF ShownTransferIsLive
  <2>1. CASE c # b
    <3>1. at[c] = k /\ loop[c] \in {"running", "failed"} /\ cancelledAt[c] = 0
      BY <1>1, <1>10, <2>1 DEF ShownTransferIsLive
    <3> QED
      BY <1>1, <1>2, <2>1, <3>1 DEF TransfersTypeOK
  <2>2. CASE c = b
    <3>1. GoesOn(b) /\ k = at[b] + 1 /\ ~Unlisted(b)
      BY <1>10, <2>2
    <3> QED
      BY <1>1, <1>2, <1>11, <2>2, <3>1 DEF TransfersTypeOK
  <2> QED
    BY <2>1, <2>2
<1>14. ListedBatchStops'
  <2> SUFFICES ASSUME NEW c \in Batches, cancelledAt[c] # 0, ~Unlisted(c)
               PROVE  at'[c] = cancelledAt[c]
    BY <1>2, <1>9 DEF ListedBatchStops
  <2>1. at[c] = cancelledAt[c]
    BY <1>1 DEF ListedBatchStops
  <2>2. at'[c] = at[c]
    BY <1>1, <1>2, <1>11 DEF TransfersTypeOK
  <2> QED
    BY <2>1, <2>2
<1>15. FlagStopsAll'
  <2> SUFFICES ASSUME cancelled, NEW x \in Items, status'[x] = "inProgress" PROVE FALSE
    BY <1>2 DEF FlagStopsAll, IsTransferring
  <2>1. PICK c \in Batches, k \in 1..Size : x = <<c, k>>
    BY DEF Items
  <2>2. status[<<c, k>>] = "inProgress"
    BY <1>5, <1>10, <2>1
  <2> QED
    BY <1>1, <1>8, <2>2 DEF FlagStopsAll, IsTransferring
<1>16. LoopsCounted'
  <2> SUFFICES ASSUME NEW c \in Batches
               PROVE  /\ loop'[c] = "none" =>
                           at'[c] = 0 /\ cancelledAt'[c] = 0 /\ Unlisted(c)'
                      /\ loop'[c] # "none" => at'[c] \in 1..Size
    BY DEF LoopsCounted
  <2>1. CASE c = b
    BY <1>1, <1>2, <1>3, <1>5, <2>1 DEF TransfersTypeOK
  <2>2. CASE c # b
    <3>1. loop'[c] = loop[c] /\ at'[c] = at[c]
      BY <1>1, <1>2, <2>2 DEF TransfersTypeOK
    <3> QED
      BY <1>1, <1>2, <1>9, <3>1 DEF LoopsCounted
  <2> QED
    BY <2>1, <2>2
<1>17. FlagStaysUp'
  <2> SUFFICES ASSUME NEW c \in Batches, cancelledAt[c] # 0, ~Unlisted(c),
                      loop'[c] = "running"
               PROVE  cancelled
    BY <1>2, <1>9 DEF FlagStaysUp
  <2>1. loop[c] = "running"
    BY <1>1, <1>2 DEF TransfersTypeOK
  <2> QED
    BY <1>1, <2>1 DEF FlagStaysUp
<1> QED
  BY <1>12, <1>13, <1>14, <1>15, <1>16, <1>17 DEF TransfersInv

(* cancel(): the flag goes up and nothing is left in progress.             *)
LEMMA CancelKeeps ==
  ASSUME TransfersInv, Cancel
  PROVE  TransfersInv'
<1> USE TransfersAssumption
<1>1. /\ TransfersTypeOK /\ ShownTransferIsLive /\ ListedBatchStops
      /\ FlagStopsAll /\ LoopsCounted /\ FlagStaysUp
  BY DEF TransfersInv
<1>2. /\ cancelled' = TRUE /\ unbuilt' = TRUE
      /\ status' = [i \in Items |-> IF status[i] \in {"pending", "inProgress"}
                                    THEN "skipped" ELSE status[i]]
      /\ cancelledAt' = [b \in Batches |-> IF loop[b] = "running" /\ cancelledAt[b] = 0
                                           THEN at[b] ELSE cancelledAt[b]]
      /\ loop' = loop /\ at' = at /\ autoHide' = autoHide
  BY DEF Cancel
<1>3. \A c \in Batches, k \in 1..Size : <<c, k>> \in Items
  BY DEF Items
<1>4. \A i \in Items : /\ status'[i] # "inProgress"
                       /\ status'[i] = "absent" <=> status[i] = "absent"
  BY <1>1, <1>2 DEF TransfersTypeOK
<1>5. \A c \in Batches : Unlisted(c)' <=> Unlisted(c)
  BY <1>3, <1>4 DEF Unlisted
<1>6. TransfersTypeOK'
  <2>1. status' \in [Items -> {"absent", "pending", "inProgress", "done", "skipped"}]
    BY <1>1, <1>2 DEF TransfersTypeOK
  <2> QED
    BY <1>1, <1>2, <2>1 DEF TransfersTypeOK
<1>7. ShownTransferIsLive' /\ FlagStopsAll'
  BY <1>3, <1>4 DEF ShownTransferIsLive, FlagStopsAll, IsTransferring
<1>8. ListedBatchStops'
  BY <1>1, <1>2, <1>5 DEF ListedBatchStops
<1>9. LoopsCounted' /\ FlagStaysUp'
  BY <1>1, <1>2, <1>5 DEF LoopsCounted, FlagStaysUp
<1> QED
  BY <1>6, <1>7, <1>8, <1>9 DEF TransfersInv

(* clear(): nothing is left that could be shown wrongly.                   *)
LEMMA ClearKeeps ==
  ASSUME TransfersInv, Clear, autoHide' \in BOOLEAN
  PROVE  TransfersInv'
<1> USE TransfersAssumption
<1>1. /\ TransfersTypeOK /\ ShownTransferIsLive /\ ListedBatchStops
      /\ FlagStopsAll /\ LoopsCounted /\ FlagStaysUp
  BY DEF TransfersInv
<1>2. /\ status' = [i \in Items |-> "absent"]
      /\ cancelled' = FALSE /\ unbuilt' = TRUE
      /\ loop' = loop /\ at' = at /\ cancelledAt' = cancelledAt
  BY DEF Clear
<1>3. \A c \in Batches, k \in 1..Size : status'[<<c, k>>] = "absent"
  BY <1>2 DEF Items
<1>4. \A c \in Batches : Unlisted(c)'
  BY <1>3 DEF Unlisted
<1>5. TransfersTypeOK'
  BY <1>1, <1>2 DEF TransfersTypeOK
<1>6. ShownTransferIsLive' /\ FlagStopsAll'
  BY <1>2, <1>3 DEF ShownTransferIsLive, FlagStopsAll
<1>7. ListedBatchStops' /\ LoopsCounted' /\ FlagStaysUp'
  BY <1>1, <1>2, <1>4 DEF ListedBatchStops, LoopsCounted, FlagStaysUp
<1> QED
  BY <1>5, <1>6, <1>7 DEF TransfersInv

LEMMA TransfersStep == TransfersInv /\ [TransfersNext]_transferVars => TransfersInv'
<1> SUFFICES ASSUME TransfersInv, [TransfersNext]_transferVars PROVE TransfersInv'
  OBVIOUS
<1>1. TransfersTypeOK
  BY DEF TransfersInv
<1>2. ASSUME NEW b \in Batches, StartBatch(b) PROVE TransfersInv'
  BY <1>2, StartBatchKeeps
<1>3. ASSUME NEW b \in Batches, ItemDone(b) PROVE TransfersInv'
  BY <1>3, ItemDoneKeeps
<1>4. ASSUME NEW b \in Batches, ItemFails(b) PROVE TransfersInv'
  <2>1. /\ loop[b] = "running" /\ loop' = [loop EXCEPT ![b] = "failed"]
        /\ UNCHANGED <<status, cancelled, at, unbuilt, autoHide, cancelledAt>>
    BY <1>4 DEF ItemFails
  <2>2. \A c \in Batches : Unlisted(c)' <=> Unlisted(c)
    BY <2>1 DEF Unlisted
  <2>3. \A c \in Batches : loop'[c] = IF c = b THEN "failed" ELSE loop[c]
    BY <1>1, <2>1 DEF TransfersTypeOK
  <2>4. TransfersTypeOK'
    BY <1>1, <2>1 DEF TransfersTypeOK
  <2>5. ShownTransferIsLive' /\ FlagStopsAll'
    BY <2>1, <2>3 DEF TransfersInv, ShownTransferIsLive, FlagStopsAll, IsTransferring
  <2>6. ListedBatchStops' /\ LoopsCounted' /\ FlagStaysUp'
    BY <2>1, <2>2, <2>3 DEF TransfersInv, ListedBatchStops, LoopsCounted, FlagStaysUp
  <2> QED
    BY <2>4, <2>5, <2>6 DEF TransfersInv
<1>5. CASE Cancel
  BY <1>5, CancelKeeps
<1>6. CASE ClosePanel
  BY <1>1, <1>6, ClearKeeps DEF ClosePanel, TransfersTypeOK
<1>7. CASE HideFires
  BY <1>7, ClearKeeps DEF HideFires
<1>8. ASSUME UNCHANGED <<status, cancelled, loop, at, cancelledAt>>,
             unbuilt' \in BOOLEAN, autoHide' \in BOOLEAN
      PROVE  TransfersInv'
  <2>1. TransfersTypeOK'
    BY <1>1, <1>8 DEF TransfersTypeOK
  <2>2. \A c \in Batches : Unlisted(c)' <=> Unlisted(c)
    BY <1>8 DEF Unlisted
  <2>3. ShownTransferIsLive' /\ FlagStopsAll'
    BY <1>8 DEF TransfersInv, ShownTransferIsLive, FlagStopsAll, IsTransferring
  <2>4. ListedBatchStops' /\ LoopsCounted' /\ FlagStaysUp'
    BY <1>8, <2>2 DEF TransfersInv, ListedBatchStops, LoopsCounted, FlagStaysUp
  <2> QED
    BY <2>1, <2>3, <2>4 DEF TransfersInv
<1>9. CASE PanelBuilt
  BY <1>8, <1>9 DEF PanelBuilt
<1>10. CASE UNCHANGED transferVars
  BY <1>1, <1>8, <1>10 DEF transferVars, TransfersTypeOK
<1> QED
  BY <1>2, <1>3, <1>4, <1>5, <1>6, <1>7, <1>9, <1>10 DEF TransfersNext

LEMMA TransfersInvariant == TransfersSpec => []TransfersInv
  BY InitTransfers, TransfersStep, PTL DEF TransfersSpec

(* TransfersTypeOK: no loop awaits an item beyond its batch.               *)
THEOREM TransfersTypeCorrect == TransfersSpec => []TransfersTypeOK
<1>1. TransfersInv => TransfersTypeOK
  BY DEF TransfersInv
<1> QED
  BY <1>1, TransfersInvariant, PTL

(* ShownTransferIsLive: what the panel shows as in progress is what a loop *)
(* awaits or failed at, and is never of a batch that was cancelled.        *)
THEOREM ShownAreLive == TransfersSpec => []ShownTransferIsLive
<1>1. TransfersInv => ShownTransferIsLive
  BY DEF TransfersInv
<1> QED
  BY <1>1, TransfersInvariant, PTL

(* A cancelled batch goes on only after its items left the list: the way   *)
(* in which CancelledBatchStops fails is the only one.                     *)
THEOREM OnlyUnlistedGoOn == TransfersSpec => []ListedBatchStops
<1>1. TransfersInv => ListedBatchStops
  BY DEF TransfersInv
<1> QED
  BY <1>1, TransfersInvariant, PTL
=============================================================================
