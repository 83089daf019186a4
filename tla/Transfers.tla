----------------------------- MODULE Transfers -----------------------------
(***************************************************************************)
(* File transfers of the two-panel SFTP screen: SftpTransferProvider, the  *)
(* loops of the screen that work through a batch (_localToLocal, _upload,  *)
(* _download, _relay), and SftpTransferPanel, which hides by itself.       *)
(*                                                                         *)
(* A loop awaits one item at a time and looks at the cancel flag between   *)
(* items; a folder also looks between its files and then ends like an item *)
(* that is done.  An item is <<batch, index>>.                             *)
(***************************************************************************)
EXTENDS Naturals

CONSTANTS
  Batches,  (* selections that are copied                                  *)
  Size      (* the items of each                                           *)

ASSUME TransfersAssumption == Size \in Nat \ {0}

VARIABLES
  status,     (* SftpTransferItem.status, "absent" when not in _items      *)
  cancelled,  (* _cancelled, one flag for all                              *)
  loop,       (* the loop of a batch                                       *)
  at,         (* the index of the item it awaits or ended with             *)
  unbuilt,    (* the panel has not been rebuilt since a notification       *)
  autoHide,   (* the panel's timer runs                                    *)
  cancelledAt (* history: the index at which the user cancelled a running  *)
              (* batch, 0 if not                                           *)

transferVars == <<status, cancelled, loop, at, unbuilt, autoHide, cancelledAt>>

Items == Batches \X (1..Size)
Of(b) == {b} \X (1..Size)

TransfersTypeOK ==
  /\ status      \in [Items -> {"absent", "pending", "inProgress", "done", "skipped"}]
  /\ cancelled   \in BOOLEAN
  /\ loop        \in [Batches -> {"none", "running", "ended", "failed"}]
  /\ at          \in [Batches -> 0..Size]
  /\ unbuilt     \in BOOLEAN
  /\ autoHide    \in BOOLEAN
  /\ cancelledAt \in [Batches -> 0..Size]

TransfersInit ==
  /\ status      = [i \in Items |-> "absent"]
  /\ cancelled   = FALSE
  /\ loop        = [b \in Batches |-> "none"]
  /\ at          = [b \in Batches |-> 0]
  /\ unbuilt     = FALSE
  /\ autoHide    = FALSE
  /\ cancelledAt = [b \in Batches |-> 0]

IsTransferring == \E i \in Items : status[i] = "inProgress"
Unfinished     == \E i \in Items : status[i] \in {"pending", "inProgress"}
Empty          == \A i \in Items : status[i] = "absent"

(* updateItem finds the items of the list only.                            *)
Update(s, i, new) == [s EXCEPT ![i] = IF @ = "absent" THEN @ ELSE new]

(* startBatch, then the loop up to its first await.  The flag is never set *)
(* here: what is appended to is transferring, so it was not cancelled.     *)
StartBatchAppends(b) ==  (* mutant: a new batch never replaces the list *)
  /\ loop[b] = "none"
  /\ status' = [i \in Items |-> CASE i = <<b, 1>>  -> "inProgress"
                                  [] i \in Of(b) \ {<<b, 1>>} -> "pending"
                                  [] OTHER         -> status[i]]
  /\ loop'      = [loop EXCEPT ![b] = "running"]
  /\ at'        = [at EXCEPT ![b] = 1]
  /\ cancelled' = (cancelled /\ IsTransferring)
  /\ unbuilt'   = TRUE
  /\ UNCHANGED <<autoHide, cancelledAt>>

StartBatch(b) ==
  /\ loop[b] = "none"
  /\ status' = [i \in Items |-> CASE i = <<b, 1>>  -> "inProgress"
                                  [] i \in Of(b) \ {<<b, 1>>} -> "pending"
                                  [] OTHER -> IF IsTransferring THEN status[i] ELSE "absent"]
  /\ loop'      = [loop EXCEPT ![b] = "running"]
  /\ at'        = [at EXCEPT ![b] = 1]
  /\ cancelled' = (cancelled /\ IsTransferring)
  /\ unbuilt'   = TRUE
  /\ UNCHANGED <<autoHide, cancelledAt>>

(* The awaited copy returns: the item is done, and the loop goes on to the *)
(* next item, unless the flag is set.                                      *)
GoesOnTooFar(b) == ~cancelled /\ at[b] <= Size  (* mutant: one too many *)

GoesOn(b) == ~cancelled /\ at[b] < Size

ItemDone(b) ==
  LET done == Update(status, <<b, at[b]>>, "done") IN
    /\ loop[b] = "running"
    /\ IF GoesOn(b)
       THEN /\ at'     = [at EXCEPT ![b] = @ + 1]
            /\ status' = Update(done, <<b, at[b] + 1>>, "inProgress")
            /\ UNCHANGED loop
       ELSE /\ loop'   = [loop EXCEPT ![b] = "ended"]
            /\ status' = done
            /\ UNCHANGED at
    /\ unbuilt' = (unbuilt \/ status' # status)
    /\ UNCHANGED <<cancelled, autoHide, cancelledAt>>

(* The catch clauses show an error and leave the item as it is.            *)
ItemFails(b) ==
  /\ loop[b] = "running"
  /\ loop' = [loop EXCEPT ![b] = "failed"]
  /\ UNCHANGED <<status, cancelled, at, unbuilt, autoHide, cancelledAt>>

(***************************************************************************)
(* The panel                                                               *)
(***************************************************************************)
(* cancel(): "Cancels every running batch".                                *)
Cancel ==
  /\ Unfinished
  /\ cancelled' = TRUE
  /\ status'    = [i \in Items |-> IF status[i] \in {"pending", "inProgress"}
                                   THEN "skipped" ELSE status[i]]
  /\ cancelledAt' = [b \in Batches |-> IF loop[b] = "running" /\ cancelledAt[b] = 0
                                       THEN at[b] ELSE cancelledAt[b]]
  /\ unbuilt' = TRUE
  /\ UNCHANGED <<loop, at, autoHide>>

Clear ==
  /\ status'    = [i \in Items |-> "absent"]
  /\ cancelled' = FALSE
  /\ unbuilt'   = TRUE
  /\ UNCHANGED <<loop, at, cancelledAt>>

(* The Close button of a panel with nothing left to do.                    *)
ClosePanel == ~Empty /\ ~Unfinished /\ Clear /\ UNCHANGED autoHide

(* build(); no item ever gets the status error.                            *)
PanelBuilt ==
  /\ unbuilt
  /\ unbuilt'  = FALSE
  /\ autoHide' = (~Empty /\ ~Unfinished)
  /\ UNCHANGED <<status, cancelled, loop, at, cancelledAt>>

(* 3 s after the panel was built with nothing left to do; a batch that     *)
(* starts just now is cleared as well.                                     *)
HideFires == autoHide /\ autoHide' = FALSE /\ Clear

TransfersNext ==
  \/ \E b \in Batches : StartBatch(b) \/ ItemDone(b) \/ ItemFails(b)
  \/ Cancel \/ ClosePanel \/ PanelBuilt \/ HideFires

TransfersSpec == TransfersInit /\ [][TransfersNext]_transferVars

(***************************************************************************)
(* Properties.                                                             *)
(***************************************************************************)

(* "Unfinished items are marked skipped so [isTransferring] cannot stay    *)
(* latched after the transfer loops break": what is shown as in progress   *)
(* is what its loop awaits, or what a loop failed at, and is never of a    *)
(* batch that the user cancelled while it ran.                             *)
ShownTransferIsLive ==
  \A b \in Batches, i \in 1..Size : status[<<b, i>>] = "inProgress" =>
    at[b] = i /\ loop[b] \in {"running", "failed"} /\ cancelledAt[b] = 0

(* "Cancels every running batch": a batch that is cancelled starts no      *)
(* further item.                                                           *)
CancelledBatchStops ==
  \A b \in Batches : cancelledAt[b] # 0 => at[b] = cancelledAt[b]
=============================================================================
