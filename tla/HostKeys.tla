------------------------------ MODULE HostKeys ------------------------------
(***************************************************************************)
(* Trust on first use: KnownHostsProvider.verifyHostKey for SSH keys and   *)
(* challengeRdpCert for RDP certificates, the challenges they wait for     *)
(* (TofuChallenge) and the two dialogs of MainScreen that answer them.     *)
(*                                                                         *)
(* The provider has one place for a pending challenge of each protocol,    *)
(* the screen shows one dialog of each.  A challenge is named after the    *)
(* call that waits for it.                                                 *)
(***************************************************************************)
EXTENDS Dart

CONSTANTS
  Calls,         (* calls of verifyHostKey and of the RDP check            *)
  SshEndpoints,  (* host, port and key type                                *)
  RdpEndpoints,  (* host and port                                          *)
  Keys           (* fingerprints                                           *)

ASSUME HostKeysAssumption ==
  /\ None \notin Calls \cup Keys
  /\ SshEndpoints \cap RdpEndpoints = {}

Endpoints == SshEndpoints \cup RdpEndpoints
Protocols == {"ssh", "rdp"}
ProtocolOf(e) == IF e \in SshEndpoints THEN "ssh" ELSE "rdp"

VARIABLES
  fingerprint, (* _hosts: the fingerprint of an endpoint, or None          *)
  asked,       (* what a call was asked to verify                         *)
  stage,       (* where it is; "asking" is a challenge not resolved yet   *)
  verdict,     (* what it returns, as far as it is known                  *)
  pending,     (* _pendingChallenge, _pendingRdpChallenge                 *)
  dialog,      (* the challenge whose dialog is on the screen, or None    *)
  recheck,     (* the microtask that a closed dialog leaves               *)
  trusted      (* history: what the user said to trust                    *)

keyVars == <<fingerprint, asked, stage, verdict, pending, dialog, recheck, trusted>>

HostKeysTypeOK ==
  /\ fingerprint \in [Endpoints -> Keys \cup {None}]
  /\ asked   \in [Calls -> (Endpoints \X Keys) \cup {None}]
  /\ stage   \in [Calls -> {"idle", "asking", "answered", "saving", "done"}]
  /\ verdict \in [Calls -> BOOLEAN]
  /\ pending \in [Protocols -> Calls \cup {None}]
  /\ dialog  \in [Protocols -> Calls \cup {None}]
  /\ recheck \in BOOLEAN
  /\ trusted \subseteq Endpoints \X Keys

(* The list of another run of the app is loaded.                           *)
HostKeysInit ==
  /\ fingerprint \in [Endpoints -> Keys \cup {None}]
  /\ asked   = [c \in Calls |-> None]
  /\ stage   = [c \in Calls |-> "idle"]
  /\ verdict = [c \in Calls |-> FALSE]
  /\ pending = [q \in Protocols |-> None]
  /\ dialog  = [q \in Protocols |-> None]
  /\ recheck = FALSE
  /\ trusted = {}

Asking(c) == c # None /\ stage[c] = "asking"

(* _onKnownHostsChanged, the listener, sees the state after the change.    *)
OnKnownHostsChanged ==
  dialog' = [q \in Protocols |->
               IF dialog[q] = None /\ pending'[q] # None
                    /\ stage'[pending'[q]] = "asking"
               THEN pending'[q] ELSE dialog[q]]

(***************************************************************************)
(* The calls                                                               *)
(***************************************************************************)
(* An SSH endpoint that is not known is pinned without a question.         *)
VerifyFirst(c, e, k) ==
  /\ stage[c] = "idle" /\ e \in SshEndpoints /\ fingerprint[e] = None
  /\ fingerprint' = [fingerprint EXCEPT ![e] = k]
  /\ asked'   = [asked EXCEPT ![c] = <<e, k>>]
  /\ stage'   = [stage EXCEPT ![c] = "saving"]
  /\ verdict' = [verdict EXCEPT ![c] = TRUE]
  /\ UNCHANGED <<pending, dialog, recheck, trusted>>

VerifyKnown(c, e, k) ==
  /\ stage[c] = "idle" /\ fingerprint[e] = k
  /\ asked'   = [asked EXCEPT ![c] = <<e, k>>]
  /\ stage'   = [stage EXCEPT ![c] = "done"]
  /\ verdict' = [verdict EXCEPT ![c] = TRUE]
  /\ UNCHANGED <<fingerprint, pending, dialog, recheck, trusted>>

(* A changed key, or an RDP certificate that is new or did not match the   *)
(* pin the engine was given, whatever the pin is by now.  The pending      *)
(* challenge of the protocol, if it still asks, is rejected for this one.  *)
Challenge(c, e, k) ==
  /\ stage[c] = "idle"
  /\ e \in RdpEndpoints \/ fingerprint[e] \notin {None, k}
  /\ asked'   = [asked EXCEPT ![c] = <<e, k>>]
  /\ stage'   = [d \in Calls |->
                   IF d = c THEN "asking"
                   ELSE IF d = pending[ProtocolOf(e)] /\ Asking(d) THEN "answered"
                   ELSE stage[d]]
  /\ pending' = [pending EXCEPT ![ProtocolOf(e)] = c]
  /\ OnKnownHostsChanged
  /\ UNCHANGED <<fingerprint, verdict, recheck, trusted>>

(* A resolved call goes on: the slot is cleared if it still is its own,    *)
(* and what is trusted replaces the entry of the endpoint.                 *)
ResumeClearsAny(c) ==  (* mutant: no look at whose challenge is pending *)
  LET e == asked[c][1] IN
    /\ stage[c] = "answered"
    /\ pending' = [pending EXCEPT ![ProtocolOf(e)] = None]
    /\ stage' = [stage EXCEPT ![c] = IF verdict[c] THEN "saving" ELSE "done"]
    /\ IF verdict[c]
       THEN fingerprint' = [fingerprint EXCEPT ![e] = asked[c][2]] /\ UNCHANGED dialog
       ELSE OnKnownHostsChanged /\ UNCHANGED fingerprint
    /\ UNCHANGED <<asked, verdict, recheck, trusted>>

Resume(c) ==
  LET e == asked[c][1]
      q == ProtocolOf(e)
  IN
    /\ stage[c] = "answered"
    /\ pending' = [pending EXCEPT ![q] = IF @ = c THEN None ELSE @]
    /\ stage' = [stage EXCEPT ![c] = IF verdict[c] THEN "saving" ELSE "done"]
    /\ IF verdict[c]
       THEN fingerprint' = [fingerprint EXCEPT ![e] = asked[c][2]] /\ UNCHANGED dialog
       ELSE OnKnownHostsChanged /\ UNCHANGED fingerprint
    /\ UNCHANGED <<asked, verdict, recheck, trusted>>

Saved(c) ==
  /\ stage[c] = "saving"
  /\ stage' = [stage EXCEPT ![c] = "done"]
  /\ UNCHANGED <<fingerprint, asked, verdict, pending, recheck, trusted>>
  /\ OnKnownHostsChanged

(***************************************************************************)
(* The challenges and their dialogs                                        *)
(***************************************************************************)
(* The two minutes are over; the dialog stays.                             *)
ChallengeExpires(c) ==
  /\ Asking(c)
  /\ stage' = [stage EXCEPT ![c] = "answered"]
  /\ UNCHANGED <<fingerprint, asked, verdict, pending, dialog, recheck, trusted>>

(* trusted ?? false: a dialog that is dismissed has no answer.             *)
OrNull(answer) == answer  (* mutant of OrFalse *)

OrFalse(answer) == answer = TRUE

(* The answer goes to the challenge the dialog was made for, and is        *)
(* ignored when that one is resolved already.                              *)
Resolve(c, ok) ==
  /\ stage'   = IF Asking(c) THEN [stage EXCEPT ![c] = "answered"] ELSE stage
  /\ verdict' = IF Asking(c) THEN [verdict EXCEPT ![c] = ok] ELSE verdict

DialogAnswersPending(q, answer) ==  (* mutant: the answer goes to what is pending *)
  /\ dialog[q] # None
  /\ Resolve(pending[q], OrFalse(answer))
  /\ trusted' = IF answer = TRUE THEN trusted \cup {asked[dialog[q]]} ELSE trusted
  /\ dialog'  = [dialog EXCEPT ![q] = None]
  /\ recheck' = TRUE
  /\ UNCHANGED <<fingerprint, asked, pending>>

DialogAnswered(q, answer) ==
  /\ dialog[q] # None
  /\ Resolve(dialog[q], OrFalse(answer))
  /\ trusted' = IF answer = TRUE THEN trusted \cup {asked[dialog[q]]} ELSE trusted
  /\ dialog'  = [dialog EXCEPT ![q] = None]
  /\ recheck' = TRUE
  /\ UNCHANGED <<fingerprint, asked, pending>>

Recheck ==
  /\ recheck
  /\ recheck' = FALSE
  /\ UNCHANGED <<fingerprint, asked, stage, verdict, pending, trusted>>
  /\ OnKnownHostsChanged

(***************************************************************************)
(* The list of known hosts on the screen                                   *)
(***************************************************************************)
RemoveEntry(e) ==
  /\ fingerprint[e] # None
  /\ fingerprint' = [fingerprint EXCEPT ![e] = None]
  /\ UNCHANGED <<asked, stage, verdict, pending, dialog, recheck, trusted>>

(* importHosts skips the endpoints that have an entry.                     *)
ImportEntry(e, k) ==
  /\ e \in SshEndpoints /\ fingerprint[e] = None
  /\ fingerprint' = [fingerprint EXCEPT ![e] = k]
  /\ UNCHANGED <<asked, stage, verdict, pending, dialog, recheck, trusted>>

(* What notifies and changes nothing more: the save of an edited list, and *)
(* load, at every opening of the screen, which reads what was saved.       *)
ListTold ==
  /\ UNCHANGED <<fingerprint, asked, stage, verdict, pending, recheck, trusted>>
  /\ OnKnownHostsChanged

HostKeysNext ==
  \/ \E c \in Calls, e \in Endpoints, k \in Keys :
       VerifyFirst(c, e, k) \/ VerifyKnown(c, e, k) \/ Challenge(c, e, k)
  \/ \E c \in Calls : Resume(c) \/ Saved(c) \/ ChallengeExpires(c)
  \/ \E q \in Protocols, answer \in BOOLEAN \cup {None} : DialogAnswered(q, answer)
  \/ Recheck \/ ListTold
  \/ \E e \in Endpoints, k \in Keys : RemoveEntry(e) \/ ImportEntry(e, k)

HostKeysSpec == HostKeysInit /\ [][HostKeysNext]_keyVars

(***************************************************************************)
(* Properties.                                                             *)
(***************************************************************************)

(* "reject it so the prior caller doesn't hang forever" and "A challenge   *)
(* raised while this dialog was open was skipped by the guard above -      *)
(* re-check, or it would silently time out": a challenge that still asks   *)
(* is the pending one of its protocol, and is on the screen, or behind a   *)
(* dialog or a microtask after which it is looked for again.               *)
AskedIsReachable ==
  \A c \in Calls : Asking(c) =>
    LET q == ProtocolOf(asked[c][1]) IN
      pending[q] = c /\ (dialog[q] # None \/ recheck)

(* A pinned fingerprint is replaced only by one the user trusted for that  *)
(* very endpoint, whichever dialogs were overtaken, expired or answered    *)
(* late in between.                                                        *)
PinsAreTrusted ==
  [][\A e \in Endpoints :
       fingerprint[e] # None /\ fingerprint'[e] \notin {fingerprint[e], None}
         => <<e, fingerprint'[e]>> \in trusted]_keyVars
=============================================================================
