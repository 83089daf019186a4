--------------------------- MODULE HostKeys_proofs ---------------------------
(***************************************************************************)
(* Theorems about HostKeys, for any calls, endpoints and fingerprints.     *)
(***************************************************************************)
EXTENDS HostKeys, TLAPS

(***************************************************************************)
(* The inductive invariant: what a call was asked is known from the moment *)
(* it waits, a verdict is only ever given by a resolved challenge, and a   *)
(* positive verdict that was not acted on yet is what the user said.       *)
(***************************************************************************)
AskedKnown ==
  /\ \A c \in Calls : stage[c] # "idle" => asked[c] \in Endpoints \X Keys
  /\ \A q \in Protocols : pending[q] # None => stage[pending[q]] # "idle"
  /\ \A q \in Protocols : dialog[q] # None => stage[dialog[q]] # "idle"

NoVerdictYet == \A c \in Calls : stage[c] \in {"idle", "asking"} => verdict[c] = FALSE

VerdictIsUsers ==
  \A c \in Calls : stage[c] = "answered" /\ verdict[c] = TRUE => asked[c] \in trusted

KeysInv == HostKeysTypeOK /\ AskedKnown /\ AskedIsReachable /\ NoVerdictYet /\ VerdictIsUsers

(* An endpoint has one of the two protocols.                               *)
LEMMA ProtocolTyped == \A e : ProtocolOf(e) \in Protocols
  BY DEF ProtocolOf, Protocols

(* The listener keeps a dialog that is shown, and shows what is pending if *)
(* none is: afterwards no challenge that asks is without a dialog.         *)
LEMMA ListenerShows ==
  ASSUME HostKeysTypeOK, OnKnownHostsChanged,
         pending' \in [Protocols -> Calls \cup {None}]
  PROVE  /\ dialog' \in [Protocols -> Calls \cup {None}]
         /\ \A q \in Protocols :
              pending'[q] # None /\ stage'[pending'[q]] = "asking" => dialog'[q] # None
         /\ \A q \in Protocols : dialog'[q] \in {dialog[q], pending'[q]}
  BY DEF OnKnownHostsChanged, HostKeysTypeOK

(* The invariant holds at the start: nobody was asked anything.            *)
LEMMA KeysInit == HostKeysInit => KeysInv
  BY HostKeysAssumption
     DEF HostKeysInit, KeysInv, HostKeysTypeOK, AskedKnown, AskedIsReachable, Asking,
         NoVerdictYet, VerdictIsUsers

(* A call of an endpoint that is not known pins it.                        *)
LEMMA FirstStep ==
  ASSUME KeysInv, NEW c \in Calls, NEW e \in Endpoints, NEW k \in Keys,
         VerifyFirst(c, e, k)
  PROVE  KeysInv'
<1> USE DEF KeysInv, HostKeysTypeOK, VerifyFirst
<1>1. HostKeysTypeOK'
  OBVIOUS
<1>2. AskedKnown'
  BY DEF AskedKnown
<1>3. AskedIsReachable'
  BY DEF AskedIsReachable, Asking
<1>4. NoVerdictYet' /\ VerdictIsUsers'
  BY DEF NoVerdictYet, VerdictIsUsers
<1> QED
  BY <1>1, <1>2, <1>3, <1>4

(* So does a call that meets the pinned fingerprint.                       *)
LEMMA KnownStep ==
  ASSUME KeysInv, NEW c \in Calls, NEW e \in Endpoints, NEW k \in Keys,
         VerifyKnown(c, e, k)
  PROVE  KeysInv'
<1> USE DEF KeysInv, HostKeysTypeOK, VerifyKnown
<1>1. HostKeysTypeOK'
  OBVIOUS
<1>2. AskedKnown'
  BY DEF AskedKnown
<1>3. AskedIsReachable'
  BY DEF AskedIsReachable, Asking
<1>4. NoVerdictYet' /\ VerdictIsUsers'
  BY DEF NoVerdictYet, VerdictIsUsers
<1> QED
  BY <1>1, <1>2, <1>3, <1>4

(* A challenge takes the slot of its protocol; the one it takes it from,   *)
(* the only one of that protocol that could still ask, is rejected.        *)
LEMMA ChallengeStep ==
  ASSUME KeysInv, NEW c \in Calls, NEW e \in Endpoints, NEW k \in Keys,
         Challenge(c, e, k)
  PROVE  KeysInv'
<1> USE DEF KeysInv
<1> DEFINE p == ProtocolOf(e)
<1>1. p \in Protocols
  BY ProtocolTyped
<1>2. /\ asked' = [asked EXCEPT ![c] = <<e, k>>]
      /\ pending' = [pending EXCEPT ![p] = c]
      /\ stage[c] = "idle"
      /\ UNCHANGED <<fingerprint, verdict, recheck, trusted>>
  BY DEF Challenge
<1>3. /\ stage' \in [Calls -> {"idle", "asking", "answered", "saving", "done"}]
      /\ stage'[c] = "asking"
      /\ \A d \in Calls \ {c} : d = pending[p] /\ stage[d] = "asking" => stage'[d] = "answered"
      /\ \A d \in Calls \ {c} : ~(d = pending[p] /\ stage[d] = "asking") => stage'[d] = stage[d]
  <2>1. stage' = [d \in Calls |->
                   IF d = c THEN "asking"
                   ELSE IF d = pending[p] /\ Asking(d) THEN "answered" ELSE stage[d]]
    BY DEF Challenge
  <2>2. \A d \in Calls : Asking(d) <=> stage[d] = "asking"
    BY HostKeysAssumption DEF Asking
  <2>3. \A d \in Calls : stage[d] \in {"idle", "asking", "answered", "saving", "done"}
    BY DEF HostKeysTypeOK
  <2>4. stage' \in [Calls -> {"idle", "asking", "answered", "saving", "done"}]
    BY <2>1, <2>3
  <2>5. stage'[c] = "asking"
    BY <2>1
  <2>6. \A d \in Calls \ {c} : d = pending[p] /\ stage[d] = "asking" => stage'[d] = "answered"
    BY <2>1, <2>2
  <2>7. \A d \in Calls \ {c} : ~(d = pending[p] /\ stage[d] = "asking") => stage'[d] = stage[d]
    BY <2>1, <2>2
  <2> QED
    BY <2>4, <2>5, <2>6, <2>7
<1>4. HostKeysTypeOK'
  <2>1. <<e, k>> \in Endpoints \X Keys
    OBVIOUS
  <2>2. asked' \in [Calls -> (Endpoints \X Keys) \cup {None}]
    BY <2>1, <1>2 DEF HostKeysTypeOK
  <2>3. pending' \in [Protocols -> Calls \cup {None}]
    BY <1>1, <1>2 DEF HostKeysTypeOK
  <2>4. OnKnownHostsChanged
    BY DEF Challenge
  <2>5. dialog' \in [Protocols -> Calls \cup {None}]
    BY <2>3, <2>4 DEF HostKeysTypeOK, OnKnownHostsChanged
  <2> QED
    BY <2>2, <2>3, <2>5, <1>2, <1>3 DEF HostKeysTypeOK
<1>5. AskedKnown'
  BY <1>1, <1>2, <1>3, ListenerShows, HostKeysAssumption
     DEF AskedKnown, HostKeysTypeOK, Challenge
<1>6. AskedIsReachable'
  <2> SUFFICES ASSUME NEW d \in Calls, Asking(d)'
               PROVE  /\ pending'[ProtocolOf(asked'[d][1])] = d
                      /\ dialog'[ProtocolOf(asked'[d][1])] # None
    BY DEF AskedIsReachable
  <2> DEFINE r == ProtocolOf(asked'[d][1])
  <2>1. r \in Protocols
    BY ProtocolTyped
  <2>2. pending'[r] = d
    <3>1. CASE d = c
      BY <3>1, <1>1, <1>2 DEF HostKeysTypeOK
    <3>2. CASE d # c
      <4>1. stage[d] = "asking" /\ d # pending[p] /\ asked'[d] = asked[d]
        BY <3>2, <1>2, <1>3 DEF Asking, HostKeysTypeOK
      <4>2. pending[r] = d
        BY <4>1, HostKeysAssumption DEF AskedIsReachable, Asking
      <4> QED
        BY <4>1, <4>2, <2>1, <1>1, <1>2 DEF HostKeysTypeOK
    <3> QED
      BY <3>1, <3>2
  <2>3. dialog'[r] # None
    BY <2>1, <2>2, <1>4, ListenerShows, HostKeysAssumption DEF Asking, HostKeysTypeOK, Challenge
  <2> QED
    BY <2>2, <2>3
<1>7. NoVerdictYet'
  BY <1>2, <1>3 DEF NoVerdictYet
<1>8. VerdictIsUsers'
  BY <1>2, <1>3 DEF VerdictIsUsers, NoVerdictYet, HostKeysTypeOK
<1> QED
  BY <1>4, <1>5, <1>6, <1>7, <1>8

(* A resolved call goes on; no other call loses its place.                 *)
LEMMA ResumeStep ==
  ASSUME KeysInv, NEW c \in Calls, Resume(c)
  PROVE  KeysInv'
<1> USE DEF KeysInv
<1> DEFINE e == asked[c][1]
           p == ProtocolOf(e)
<1>1. /\ p \in Protocols /\ e \in Endpoints /\ asked[c][2] \in Keys
      /\ stage[c] = "answered"
  BY ProtocolTyped DEF AskedKnown, Resume
<1>2. /\ pending' = [pending EXCEPT ![p] = IF @ = c THEN None ELSE @]
      /\ stage' = [stage EXCEPT ![c] = IF verdict[c] THEN "saving" ELSE "done"]
      /\ UNCHANGED <<asked, verdict, recheck, trusted>>
  BY DEF Resume
<1>3. \/ dialog' = dialog /\ fingerprint' = [fingerprint EXCEPT ![e] = asked[c][2]]
      \/ OnKnownHostsChanged /\ fingerprint' = fingerprint
  BY DEF Resume
<1>4. pending' \in [Protocols -> Calls \cup {None}]
  BY <1>1, <1>2 DEF HostKeysTypeOK
<1>5. HostKeysTypeOK'
  BY <1>1, <1>2, <1>3, <1>4, ListenerShows DEF HostKeysTypeOK
<1>6. AskedKnown'
  BY <1>1, <1>2, <1>3, <1>4, ListenerShows, HostKeysAssumption DEF AskedKnown, HostKeysTypeOK
<1>7. AskedIsReachable'
  <2> SUFFICES ASSUME NEW d \in Calls, Asking(d)'
               PROVE  /\ pending'[ProtocolOf(asked'[d][1])] = d
                      /\ dialog'[ProtocolOf(asked'[d][1])] # None \/ recheck'
    BY DEF AskedIsReachable
  <2> DEFINE r == ProtocolOf(asked[d][1])
  <2>1. r \in Protocols
    BY ProtocolTyped
  <2>2. d # c /\ stage[d] = "asking"
    BY <1>2 DEF Asking, HostKeysTypeOK
  <2>3. pending[r] = d /\ (dialog[r] # None \/ recheck)
    BY <2>2, HostKeysAssumption DEF AskedIsReachable, Asking
  <2>4. pending'[r] = d
    BY <2>1, <2>2, <2>3, <1>1, <1>2 DEF HostKeysTypeOK
  <2>5. dialog'[r] # None \/ recheck'
    BY <2>1, <2>3, <2>4, <1>2, <1>3, <1>4, ListenerShows, HostKeysAssumption DEF Asking
  <2> QED
    BY <2>4, <2>5, <1>2
<1>8. NoVerdictYet' /\ VerdictIsUsers'
  BY <1>2 DEF NoVerdictYet, VerdictIsUsers, HostKeysTypeOK
<1> QED
  BY <1>5, <1>6, <1>7, <1>8

(* What leaves calls and slots alone and tells the listener.               *)
LEMMA ToldStep ==
  ASSUME KeysInv, fingerprint' \in [Endpoints -> Keys \cup {None}],
         stage' = stage \/ \E c \in Calls : stage[c] = "saving"
                             /\ stage' = [stage EXCEPT ![c] = "done"],
         recheck' \in {recheck, FALSE}, UNCHANGED <<asked, verdict, pending, trusted>>,
         OnKnownHostsChanged
  PROVE  KeysInv'
<1> USE DEF KeysInv
<1>1. /\ stage' \in [Calls -> {"idle", "asking", "answered", "saving", "done"}]
      /\ \A c \in Calls : stage'[c] # stage[c] => stage[c] = "saving" /\ stage'[c] = "done"
  BY DEF HostKeysTypeOK
<1>2. pending' \in [Protocols -> Calls \cup {None}]
  BY DEF HostKeysTypeOK
<1>3. HostKeysTypeOK'
  BY <1>1, <1>2, ListenerShows DEF HostKeysTypeOK
<1>4. AskedKnown'
  BY <1>1, <1>2, ListenerShows, HostKeysAssumption DEF AskedKnown, HostKeysTypeOK
<1>5. AskedIsReachable'
  <2> SUFFICES ASSUME NEW d \in Calls, Asking(d)'
               PROVE  /\ pending'[ProtocolOf(asked'[d][1])] = d
                      /\ dialog'[ProtocolOf(asked'[d][1])] # None
    BY DEF AskedIsReachable
  <2>1. Asking(d)
    BY <1>1 DEF Asking
  <2>2. pending[ProtocolOf(asked[d][1])] = d /\ ProtocolOf(asked[d][1]) \in Protocols
    BY <2>1, ProtocolTyped DEF AskedIsReachable
  <2> QED
    BY <2>2, <1>2, ListenerShows DEF Asking
<1>6. NoVerdictYet' /\ VerdictIsUsers'
  BY <1>1 DEF NoVerdictYet, VerdictIsUsers
<1> QED
  BY <1>3, <1>4, <1>5, <1>6

(* What changes an entry of the list and nothing else.                     *)
LEMMA EntryStep ==
  ASSUME KeysInv, fingerprint' \in [Endpoints -> Keys \cup {None}],
         UNCHANGED <<asked, stage, verdict, pending, dialog, recheck, trusted>>
  PROVE  KeysInv'
  BY DEF KeysInv, HostKeysTypeOK, AskedKnown, AskedIsReachable, Asking, NoVerdictYet,
         VerdictIsUsers

(* The two minutes of a challenge are over.                                *)
LEMMA ExpiresStep ==
  ASSUME KeysInv, NEW c \in Calls, ChallengeExpires(c)
  PROVE  KeysInv'
<1> USE DEF KeysInv, ChallengeExpires
<1>1. HostKeysTypeOK'
  BY DEF HostKeysTypeOK
<1>2. AskedKnown'
  BY DEF AskedKnown, HostKeysTypeOK, Asking
<1>3. AskedIsReachable'
  BY DEF AskedIsReachable, HostKeysTypeOK, Asking
<1>4. NoVerdictYet' /\ VerdictIsUsers'
  BY DEF NoVerdictYet, VerdictIsUsers, HostKeysTypeOK, Asking
<1> QED
  BY <1>1, <1>2, <1>3, <1>4

(* An answer resolves the challenge of its dialog, if that still asks, and *)
(* leaves a microtask for a challenge that waited behind the dialog.       *)
LEMMA AnsweredStep ==
  ASSUME KeysInv, NEW q \in Protocols, NEW answer \in BOOLEAN \cup {None},
         DialogAnswered(q, answer)
  PROVE  KeysInv'
<1> USE DEF KeysInv
<1> DEFINE d == dialog[q]
           ok == answer = TRUE
<1>1. d \in Calls /\ asked[d] \in Endpoints \X Keys
  BY DEF DialogAnswered, HostKeysTypeOK, AskedKnown
<1>2. /\ dialog' = [dialog EXCEPT ![q] = None] /\ recheck' = TRUE
      /\ UNCHANGED <<fingerprint, asked, pending>>
      /\ trusted' = IF ok THEN trusted \cup {asked[d]} ELSE trusted
  BY DEF DialogAnswered
<1>3. /\ stage' = IF Asking(d) THEN [stage EXCEPT ![d] = "answered"] ELSE stage
      /\ verdict' = IF Asking(d) THEN [verdict EXCEPT ![d] = ok] ELSE verdict
  BY DEF DialogAnswered, Resolve, OrFalse
<1>4. HostKeysTypeOK'
  BY <1>1, <1>2, <1>3 DEF HostKeysTypeOK
<1>5. /\ \A c \in Calls : stage'[c] = stage[c] \/ (stage[c] = "asking" /\ stage'[c] = "answered" /\ c = d)
      /\ \A c \in Calls : c # d => verdict'[c] = verdict[c]
  BY <1>1, <1>3 DEF HostKeysTypeOK, Asking
<1>6. AskedKnown'
  BY <1>2, <1>5 DEF AskedKnown, HostKeysTypeOK
<1>7. AskedIsReachable'
  BY <1>2, <1>5 DEF AskedIsReachable, Asking
<1>8. NoVerdictYet'
  BY <1>1, <1>3, <1>5 DEF NoVerdictYet, HostKeysTypeOK, Asking
<1>9. VerdictIsUsers'
  <2> SUFFICES ASSUME NEW c \in Calls, stage'[c] = "answered", verdict'[c] = TRUE
               PROVE  asked[c] \in trusted'
    BY <1>2 DEF VerdictIsUsers
  <2>1. CASE c = d /\ Asking(d)
    <3>1. verdict'[c] = ok
      BY <2>1, <1>1, <1>3 DEF HostKeysTypeOK
    <3> QED
      BY <3>1, <2>1, <1>2
  <2>2. CASE ~(c = d /\ Asking(d))
    <3>1. stage[c] = "answered" /\ verdict[c] = TRUE
      BY <2>2, <1>1, <1>3 DEF HostKeysTypeOK
    <3> QED
      BY <3>1, <1>2 DEF VerdictIsUsers
  <2> QED
    BY <2>1, <2>2
<1> QED
  BY <1>4, <1>6, <1>7, <1>8, <1>9

(* Every step keeps the invariant.                                         *)
LEMMA KeysStep == KeysInv /\ [HostKeysNext]_keyVars => KeysInv'
<1> SUFFICES ASSUME KeysInv, [HostKeysNext]_keyVars PROVE KeysInv'
  OBVIOUS
<1>1. ASSUME NEW c \in Calls, NEW e \in Endpoints, NEW k \in Keys,
             VerifyFirst(c, e, k) \/ VerifyKnown(c, e, k) \/ Challenge(c, e, k)
      PROVE  KeysInv'
  BY <1>1, FirstStep, KnownStep, ChallengeStep
<1>2. ASSUME NEW c \in Calls, Resume(c) PROVE KeysInv'
  BY <1>2, ResumeStep
<1>3. ASSUME NEW c \in Calls, Saved(c) PROVE KeysInv'
  BY <1>3, ToldStep DEF Saved, KeysInv, HostKeysTypeOK
<1>4. ASSUME NEW c \in Calls, ChallengeExpires(c) PROVE KeysInv'
  BY <1>4, ExpiresStep
<1>5. ASSUME NEW q \in Protocols, NEW answer \in BOOLEAN \cup {None},
             DialogAnswered(q, answer)
      PROVE  KeysInv'
  BY <1>5, AnsweredStep
<1>6. CASE Recheck \/ ListTold
  BY <1>6, ToldStep DEF Recheck, ListTold, KeysInv, HostKeysTypeOK
<1>7. ASSUME NEW e \in Endpoints, NEW k \in Keys, RemoveEntry(e) \/ ImportEntry(e, k)
      PROVE  KeysInv'
  <2>1. fingerprint' \in [Endpoints -> Keys \cup {None}]
    BY <1>7 DEF RemoveEntry, ImportEntry, KeysInv, HostKeysTypeOK
  <2> QED
    BY <1>7, <2>1, EntryStep DEF RemoveEntry, ImportEntry
<1>8. CASE UNCHANGED keyVars
  BY <1>8 DEF keyVars, KeysInv, HostKeysTypeOK, AskedKnown, AskedIsReachable, Asking,
              NoVerdictYet, VerdictIsUsers
<1> QED
  BY <1>1, <1>2, <1>3, <1>4, <1>5, <1>6, <1>7, <1>8 DEF HostKeysNext

(* The invariant always holds.                                            *)
LEMMA KeysAlways == HostKeysSpec => []KeysInv
  BY KeysInit, KeysStep, PTL DEF HostKeysSpec

(***************************************************************************)
(* The theorems                                                            *)
(***************************************************************************)
(* Entries, calls, challenges and dialogs keep their types; in particular  *)
(* a dialog that is dismissed gives a verdict like any other.              *)
THEOREM HostKeysTypeCorrect == HostKeysSpec => []HostKeysTypeOK
  BY KeysAlways, PTL DEF KeysInv

(* verifyHostKey, challengeRdpCert, _onKnownHostsChanged: no call waits    *)
(* for a challenge that nobody can be shown any more.                      *)
THEOREM AskedAlwaysReachable == HostKeysSpec => []AskedIsReachable
  BY KeysAlways, PTL DEF KeysInv

(* An entry is replaced only by what the user trusted for that endpoint.   *)
THEOREM PinsAlwaysTrusted == HostKeysSpec => PinsAreTrusted
<1> DEFINE Kept == \A e \in Endpoints :
                     fingerprint[e] # None /\ fingerprint'[e] \notin {fingerprint[e], None}
                       => <<e, fingerprint'[e]>> \in trusted
<1>1. KeysInv /\ [HostKeysNext]_keyVars => [Kept]_keyVars
  <2> SUFFICES ASSUME KeysInv, [HostKeysNext]_keyVars, NEW x \in Endpoints,
                      fingerprint[x] # None, fingerprint'[x] \notin {fingerprint[x], None}
               PROVE  <<x, fingerprint'[x]>> \in trusted
    OBVIOUS
  <2>1. ~UNCHANGED fingerprint
    OBVIOUS
  <2>2. ASSUME NEW c \in Calls, Resume(c) PROVE <<x, fingerprint'[x]>> \in trusted
    <3>1. /\ stage[c] = "answered" /\ verdict[c] = TRUE
          /\ fingerprint' = [fingerprint EXCEPT ![asked[c][1]] = asked[c][2]]
      BY <2>1, <2>2 DEF Resume, KeysInv, HostKeysTypeOK
    <3>2. asked[c] \in trusted /\ asked[c] \in Endpoints \X Keys
      BY <3>1 DEF KeysInv, VerdictIsUsers, AskedKnown
    <3>3. x = asked[c][1] /\ fingerprint'[x] = asked[c][2]
      BY <3>1, <3>2 DEF KeysInv, HostKeysTypeOK
    <3> QED
      BY <3>2, <3>3
  <2>3. ASSUME NEW c \in Calls, NEW e \in Endpoints, NEW k \in Keys,
               VerifyFirst(c, e, k) \/ VerifyKnown(c, e, k) \/ Challenge(c, e, k)
        PROVE  FALSE
    BY <2>1, <2>3 DEF VerifyFirst, VerifyKnown, Challenge, KeysInv, HostKeysTypeOK
  <2>4. ASSUME NEW e \in Endpoints, NEW k \in Keys, RemoveEntry(e) \/ ImportEntry(e, k)
        PROVE  FALSE
    BY <2>4 DEF RemoveEntry, ImportEntry, KeysInv, HostKeysTypeOK
  <2> QED
    BY <2>1, <2>2, <2>3, <2>4
       DEF HostKeysNext, Saved, ChallengeExpires, DialogAnswered, Recheck, ListTold, keyVars
<1> QED
  BY <1>1, KeysAlways, PTL DEF HostKeysSpec, PinsAreTrusted
=============================================================================
