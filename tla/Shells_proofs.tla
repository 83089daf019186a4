---------------------------- MODULE Shells_proofs ----------------------------
(***************************************************************************)
(* Theorems about LocalShell, for any number of tabs and ptys, and about   *)
(* Handshake, for any number of probes and any amount of input and of      *)
(* output on its way.                                                      *)
(***************************************************************************)
EXTENDS LocalShell, Handshake, TLAPS

Data(p) == <<p, "data">>
Exit(p) == <<p, "exit">>

InMail(m) == \E i \in 1..Len(mail) : mail[i] = m
Once(m)   == \A i, j \in 1..Len(mail) : mail[i] = m /\ mail[j] = m => i = j

(* A pty that no tab has spawned is untouched.                             *)
UnusedClean ==
  \A p \in Ptys : owner[p] = None =>
    /\ proc[p] = "none" /\ reader[p] = "off" /\ unacked[p] = 0
    /\ p \notin portOpen /\ p \notin locked /\ ~InMail(Data(p))

(* A tab without a shell has spawned none, one with a shell spawned it.    *)
TabsKnown ==
  \A t \in Tabs :
    /\ tabStatus[t] = "none" => \A p \in Ptys : owner[p] # t
    /\ tabStatus[t] \in {"running", "exited"}
         => tabPty[t] \in Ptys /\ owner[tabPty[t]] = t

(* The ports of a pty are open until the one message with the exit code is *)
(* handled, and it is posted when the child is gone.                       *)
ExitOnce ==
  \A p \in Ptys :
    /\ proc[p] \in {"alive", "zombie"} => p \in portOpen
    /\ InMail(Exit(p)) => proc[p] = "reaped" /\ p \in portOpen
    /\ Once(Exit(p))

(* What is still connected to an open tab is its shell.                    *)
OneLive ==
  \A t \in Tabs : Open(t) =>
    \A p \in Ptys : owner[p] = t /\ (p \in portOpen \/ proc[p] = "alive")
                      => p = tabPty[t] /\ tabStatus[t] = "running"

(* In ack mode the mutex is taken from the read to the acknowledgement, by *)
(* one chunk.                                                              *)
Acked ==
  ackRead => \A p \in Ptys :
    /\ reader[p] \in {"read", "post"}
         => p \in locked /\ unacked[p] = 0 /\ ~InMail(Data(p))
    /\ p \notin locked => unacked[p] = 0 /\ ~InMail(Data(p))
    /\ unacked[p] <= 1
    /\ Once(Data(p))

ShellInv ==
  ShellTypeOK /\ UnusedClean /\ TabsKnown /\ ExitOnce /\ OneLive /\ Acked

(* Messages are told apart by their pty and by what they say.              *)
LEMMA MessagesDiffer ==
  \A p, q : /\ Exit(p) = Exit(q) <=> p = q
            /\ Data(p) = Data(q) <=> p = q
            /\ Exit(p) # Data(q)
  BY DEF Exit, Data

(* A message that is posted comes after the others.                        *)
LEMMA PostedLast ==
  ASSUME mail \in Seq(Messages), NEW m \in Messages, mail' = Append(mail, m)
  PROVE  /\ mail' \in Seq(Messages)
         /\ \A n : InMail(n)' <=> InMail(n) \/ n = m
         /\ \A n : Once(n) /\ (n # m \/ ~InMail(n)) => Once(n)'
<1>1. /\ mail' \in Seq(Messages) /\ Len(mail') = Len(mail) + 1 /\ Len(mail) \in Nat
      /\ \A i \in 1..Len(mail) : mail'[i] = mail[i]
      /\ mail'[Len(mail) + 1] = m
  OBVIOUS
<1>2. \A i : i \in 1..Len(mail') <=> i \in 1..Len(mail) \/ i = Len(mail) + 1
  BY <1>1
<1>3. \A n : InMail(n)' <=> InMail(n) \/ n = m
  BY <1>1, <1>2 DEF InMail
<1>4. ASSUME NEW n, Once(n), n # m \/ ~InMail(n) PROVE Once(n)'
  BY <1>1, <1>2, <1>4 DEF Once, InMail
<1> QED
  BY <1>1, <1>3, <1>4

(* A message that is handled was there, and the others stay.               *)
LEMMA HandledFirst ==
  ASSUME mail \in Seq(Messages), mail # <<>>, mail' = Tail(mail)
  PROVE  /\ mail' \in Seq(Messages) /\ Head(mail) \in Messages
         /\ InMail(Head(mail))
         /\ \A n : InMail(n)' => InMail(n)
         /\ \A n : Once(n) => Once(n)'
         /\ \A n : n = Head(mail) /\ Once(n) => ~InMail(n)'
<1>1. /\ mail' \in Seq(Messages) /\ Len(mail) \in Nat \ {0}
      /\ Len(mail') = Len(mail) - 1
      /\ \A i \in 1..Len(mail') : mail'[i] = mail[i + 1]
      /\ Head(mail) = mail[1] /\ mail[1] \in Messages
  OBVIOUS
<1>2. \A i \in 1..Len(mail') : i + 1 \in 1..Len(mail) /\ i + 1 # 1 /\ i \in Nat
  BY <1>1
<1>3. 1 \in 1..Len(mail)
  BY <1>1
<1>4. InMail(Head(mail)) /\ \A n : InMail(n)' => InMail(n)
  BY <1>1, <1>2, <1>3 DEF InMail
<1>5. ASSUME NEW n, Once(n) PROVE Once(n)'
  <2> SUFFICES ASSUME NEW i \in 1..Len(mail'), NEW j \in 1..Len(mail'),
                      mail'[i] = n, mail'[j] = n
               PROVE  i = j
    BY DEF Once
  <2>1. i + 1 = j + 1
    BY <1>1, <1>2, <1>5 DEF Once
  <2> QED
    BY <1>2, <2>1
<1>6. ASSUME NEW n, n = Head(mail), Once(n), InMail(n)' PROVE FALSE
  <2>1. PICK i \in 1..Len(mail') : mail'[i] = n
    BY <1>6 DEF InMail
  <2> QED
    BY <1>1, <1>2, <1>3, <1>6, <2>1 DEF Once
<1> QED
  BY <1>1, <1>4, <1>5, <1>6

(* The steps that leave the mail, the owners and the tabs alone: the child *)
(* and the write.                                                          *)
LEMMA ChildKeeps ==
  ASSUME ShellInv,
         \/ WriteGoesOn
         \/ \E t \in Tabs : WriteInput(t)
         \/ \E p \in Ptys : ChildReads(p) \/ ChildTurnsToOutput(p) \/ ChildEmits(p)
  PROVE  ShellInv'
<1> USE DEF ShellInv, tabVars, childVars
<1>1. UNCHANGED <<ackRead, tabStatus, tabPty, owner, proc, reader, locked, unacked, mail,
                  portOpen>>
  BY DEF WriteGoesOn, WriteInput, ChildReads, ChildTurnsToOutput, ChildEmits
<1>2. UnusedClean' /\ TabsKnown' /\ ExitOnce' /\ OneLive' /\ Acked'
  BY <1>1 DEF UnusedClean, TabsKnown, ExitOnce, OneLive, Acked, InMail, Once, Open
<1>3. emitting' \subseteq Ptys
  BY DEF ShellTypeOK, WriteGoesOn, WriteInput, ChildReads, ChildTurnsToOutput, ChildEmits
<1>4. output' \in [Ptys -> 0..1]
  BY DEF ShellTypeOK, WriteGoesOn, WriteInput, ChildReads, ChildTurnsToOutput, ChildEmits
<1>5. CASE WriteGoesOn
  <2>1. PICK w \in [pty : Ptys, left : 1..2] : w = writing
    BY <1>5 DEF WriteGoesOn, ShellTypeOK
  <2>2. input' = [input EXCEPT ![w.pty] = 1]
    BY <1>5, <2>1 DEF WriteGoesOn
  <2>3. input' \in [Ptys -> 0..1]
    BY <2>1, <2>2 DEF ShellTypeOK
  <2>4. writing' \in [pty : Ptys, left : 1..2] \cup {None}
    BY <1>5, <2>1 DEF WriteGoesOn
  <2> QED
    BY <1>1, <1>2, <1>3, <1>4, <2>3, <2>4 DEF ShellTypeOK
<1>6. ASSUME NEW t \in Tabs, WriteInput(t) PROVE ShellInv'
  <2>1. tabPty[t] \in Ptys
    BY <1>6 DEF WriteInput, TabsKnown
  <2>2. writing' \in [pty : Ptys, left : 1..2] /\ input' = input
    BY <1>6, <2>1 DEF WriteInput
  <2> QED
    BY <1>1, <1>2, <1>3, <1>4, <2>2 DEF ShellTypeOK
<1>7. ASSUME NEW p \in Ptys, ChildReads(p) \/ ChildTurnsToOutput(p) \/ ChildEmits(p)
      PROVE  ShellInv'
  <2>1. writing' = writing /\ input' \in [Ptys -> 0..1]
    BY <1>7 DEF ShellTypeOK, ChildReads, ChildTurnsToOutput, ChildEmits
  <2> QED
    BY <1>1, <1>2, <1>3, <1>4, <2>1 DEF ShellTypeOK
<1> QED
  BY <1>5, <1>6, <1>7

(* The child exits, by itself or hit by the close of its tab.              *)
LEMMA ExitKeeps ==
  ASSUME ShellInv, NEW p \in Ptys, ChildExits(p)
  PROVE  ShellInv'
<1> USE DEF ShellInv, tabVars
<1>1. UNCHANGED <<ackRead, tabStatus, tabPty, owner, emitting, input, output, reader,
                  locked, unacked, mail, portOpen, writing>>
  BY DEF ChildExits
<1>2. /\ proc' \in [Ptys -> {"none", "alive", "zombie", "reaped"}]
      /\ proc[p] = "alive" /\ proc'[p] = "zombie"
      /\ \A q \in Ptys \ {p} : proc'[q] = proc[q]
  BY DEF ChildExits, ShellTypeOK
<1>3. ShellTypeOK'
  BY <1>1, <1>2 DEF ShellTypeOK
<1>4. UnusedClean' /\ TabsKnown' /\ Acked'
  BY <1>1, <1>2 DEF UnusedClean, TabsKnown, Acked, InMail, Once
<1>5. ExitOnce'
  BY <1>1, <1>2 DEF ExitOnce, InMail, Once
<1>6. OneLive'
  BY <1>1, <1>2 DEF OneLive, Open
<1> QED
  BY <1>3, <1>4, <1>5, <1>6

(* The read thread: it reads on with the mutex in ack mode.                *)
LEMMA ReaderKeeps ==
  ASSUME ShellInv, NEW p \in Ptys, ReaderStep(p)
  PROVE  ShellInv'
<1> USE DEF ShellInv, tabVars, childVars
<1>0. owner[p] # None
  BY DEF UnusedClean, ReaderStep, ReaderLocks, ReaderReads, ReaderPosts
<1>1. CASE ReaderLocks(p)
  <2>1. UNCHANGED <<ackRead, tabStatus, tabPty, owner, proc, emitting, input, output,
                    unacked, mail, portOpen, writing>>
    BY <1>1 DEF ReaderLocks
  <2>2. /\ reader' \in [Ptys -> {"off", "lock", "read", "post"}] /\ reader'[p] = "read"
        /\ \A q \in Ptys \ {p} : reader'[q] = reader[q]
    BY <1>1 DEF ReaderLocks, ShellTypeOK
  <2>3. locked' \subseteq locked \cup {p} /\ locked \subseteq locked'
        /\ (ackRead => p \in locked' /\ p \notin locked)
    BY <1>1 DEF ReaderLocks
  <2>4. ShellTypeOK'
    BY <2>1, <2>2, <2>3 DEF ShellTypeOK
  <2>5. UnusedClean'
    BY <1>0, <2>1, <2>2, <2>3 DEF UnusedClean, InMail
  <2>6. TabsKnown' /\ ExitOnce' /\ OneLive'
    BY <2>1 DEF TabsKnown, ExitOnce, OneLive, Open, InMail, Once
  <2>7. Acked'
    BY <2>1, <2>2, <2>3 DEF Acked, InMail, Once
  <2> QED
    BY <2>4, <2>5, <2>6, <2>7
<1>2. CASE ReaderReads(p)
  <2>1. UNCHANGED <<ackRead, tabStatus, tabPty, owner, proc, emitting, input, locked,
                    unacked, mail, portOpen, writing>>
    BY <1>2 DEF ReaderReads
  <2>2. /\ reader' \in [Ptys -> {"off", "lock", "read", "post"}]
        /\ reader[p] = "read" /\ reader'[p] = "post"
        /\ \A q \in Ptys \ {p} : reader'[q] = reader[q]
        /\ output' \in [Ptys -> 0..1]
    BY <1>2 DEF ReaderReads, ShellTypeOK
  <2>3. ShellTypeOK'
    BY <2>1, <2>2 DEF ShellTypeOK
  <2>4. UnusedClean' /\ TabsKnown' /\ ExitOnce' /\ OneLive'
    BY <1>0, <2>1, <2>2 DEF UnusedClean, TabsKnown, ExitOnce, OneLive, Open, InMail, Once
  <2>5. Acked'
    BY <2>1, <2>2 DEF Acked, InMail, Once
  <2> QED
    BY <2>3, <2>4, <2>5
<1>3. CASE ReaderPosts(p)
  <2>1. UNCHANGED <<ackRead, tabStatus, tabPty, owner, proc, emitting, input, output,
                    locked, portOpen, writing>>
    BY <1>3 DEF ReaderPosts
  <2>2. /\ reader' \in [Ptys -> {"off", "lock", "read", "post"}]
        /\ reader[p] = "post" /\ reader'[p] = "lock"
        /\ \A q \in Ptys \ {p} : reader'[q] = reader[q]
    BY <1>3 DEF ReaderPosts, ShellTypeOK
  <2>3. /\ unacked' \in [Ptys -> 0..2]
        /\ ackRead => unacked'[p] <= unacked[p] + 1
        /\ \A q \in Ptys \ {p} : unacked'[q] = unacked[q]
        /\ ~ackRead => unacked' = unacked
    <3>1. CASE p \in portOpen /\ ackRead /\ unacked[p] < 2
      <4>1. unacked' = [unacked EXCEPT ![p] = unacked[p] + 1] /\ unacked[p] \in 0..1
        BY <1>3, <3>1 DEF ReaderPosts, ShellTypeOK
      <4> QED
        BY <3>1, <4>1 DEF ShellTypeOK
    <3>2. CASE ~(p \in portOpen /\ ackRead /\ unacked[p] < 2)
      <4>1. unacked' = unacked /\ unacked[p] \in 0..2
        BY <1>3, <3>2 DEF ReaderPosts, ShellTypeOK
      <4> QED
        BY <4>1 DEF ShellTypeOK
    <3> QED
      BY <3>1, <3>2
  <2>4. mail' = mail \/ mail' = Append(mail, Data(p))
    BY <1>3 DEF ReaderPosts, Posted, Data
  <2>5. Data(p) \in Messages
    BY DEF Data, Messages
  <2>6. /\ mail' \in Seq(Messages)
        /\ \A n : InMail(n) => InMail(n)'
        /\ \A n : InMail(n)' => InMail(n) \/ n = Data(p)
        /\ \A n : Once(n) /\ (n # Data(p) \/ ~InMail(n)) => Once(n)'
    <3>1. CASE mail' = mail
      BY <3>1 DEF ShellTypeOK, InMail, Once
    <3>2. CASE mail' = Append(mail, Data(p))
      BY <2>5, <3>2, PostedLast DEF ShellTypeOK
    <3> QED
      BY <2>4, <3>1, <3>2
  <2>7. ShellTypeOK'
    BY <2>1, <2>2, <2>3, <2>6 DEF ShellTypeOK
  <2>8. UnusedClean'
    BY <1>0, <2>1, <2>2, <2>3, <2>6, MessagesDiffer DEF UnusedClean
  <2>9. TabsKnown' /\ OneLive'
    BY <2>1 DEF TabsKnown, OneLive, Open
  <2>10. ExitOnce'
    BY <2>1, <2>6, MessagesDiffer DEF ExitOnce
  <2>11. Acked'
    <3> SUFFICES ASSUME ackRead', NEW q \in Ptys
                 PROVE  /\ reader'[q] \in {"read", "post"}
                             => q \in locked' /\ unacked'[q] = 0 /\ ~InMail(Data(q))'
                        /\ q \notin locked' => unacked'[q] = 0 /\ ~InMail(Data(q))'
                        /\ unacked'[q] <= 1
                        /\ Once(Data(q))'
      BY DEF Acked
    <3>1. CASE q # p
      BY <2>1, <2>2, <2>3, <2>6, <3>1, MessagesDiffer DEF Acked
    <3>2. CASE q = p
      BY <2>1, <2>2, <2>3, <2>6, <3>2 DEF Acked, ShellTypeOK
    <3> QED
      BY <3>1, <3>2
  <2> QED
    BY <2>7, <2>8, <2>9, <2>10, <2>11
<1> QED
  BY <1>1, <1>2, <1>3 DEF ReaderStep

(* The wait thread posts the exit code of a child that is gone, once.      *)
LEMMA WaiterKeeps ==
  ASSUME ShellInv, NEW p \in Ptys, WaiterPosts(p)
  PROVE  ShellInv'
<1> USE DEF ShellInv, tabVars
<1>1. UNCHANGED <<ackRead, tabStatus, tabPty, owner, emitting, input, output, reader,
                  locked, unacked, portOpen, writing>>
  BY DEF WaiterPosts
<1>2. /\ proc' \in [Ptys -> {"none", "alive", "zombie", "reaped"}]
      /\ proc[p] = "zombie" /\ proc'[p] = "reaped"
      /\ \A q \in Ptys \ {p} : proc'[q] = proc[q]
  BY DEF WaiterPosts, ShellTypeOK
<1>3. /\ mail' \in Seq(Messages)
      /\ \A n : InMail(n)' <=> InMail(n) \/ n = Exit(p)
      /\ \A n : Once(n) /\ (n # Exit(p) \/ ~InMail(n)) => Once(n)'
  <2>1. mail' = Append(mail, Exit(p)) /\ Exit(p) \in Messages
    BY DEF WaiterPosts, Exit, Messages
  <2> QED
    BY <2>1, PostedLast DEF ShellTypeOK
<1>4. ShellTypeOK'
  BY <1>1, <1>2, <1>3 DEF ShellTypeOK
<1>5. UnusedClean'
  BY <1>1, <1>2, <1>3, MessagesDiffer DEF UnusedClean
<1>6. TabsKnown' /\ OneLive'
  BY <1>1, <1>2 DEF TabsKnown, OneLive, Open
<1>7. ExitOnce'
  BY <1>1, <1>2, <1>3, MessagesDiffer DEF ExitOnce
<1>8. Acked'
  BY <1>1, <1>3, MessagesDiffer DEF Acked
<1> QED
  BY <1>4, <1>5, <1>6, <1>7, <1>8

(* A chunk is shown and, in ack mode, acknowledged.                        *)
LEMMA OutputKeeps ==
  ASSUME ShellInv, DeliverOutput
  PROVE  ShellInv'
<1> USE DEF ShellInv, tabVars, childVars
<1>1. UNCHANGED <<ackRead, tabStatus, tabPty, owner, proc, emitting, input, output,
                  reader, portOpen, writing>>
  BY DEF DeliverOutput
<1>2. PICK p : p \in Ptys /\ Head(mail) = Data(p) /\ p = Head(mail)[1]
  <2>1. Head(mail) \in Messages /\ Head(mail)[2] = "data"
    BY HandledFirst DEF DeliverOutput, ShellTypeOK
  <2> QED
    BY <2>1 DEF Messages, Data
<1>3. /\ mail' \in Seq(Messages) /\ InMail(Data(p))
      /\ \A n : InMail(n)' => InMail(n)
      /\ \A n : Once(n) => Once(n)'
      /\ Once(Data(p)) => ~InMail(Data(p))'
  BY <1>2, HandledFirst DEF DeliverOutput, ShellTypeOK
<1>4. \/ locked' = locked /\ unacked' = unacked
      \/ /\ ackRead
         /\ locked' = locked \ {p}
         /\ unacked' = [unacked EXCEPT ![p] = 0]
  BY <1>2 DEF DeliverOutput
<1>5. /\ locked' \subseteq locked /\ unacked' \in [Ptys -> 0..2]
      /\ \A q \in Ptys \ {p} : unacked'[q] = unacked[q] /\ (q \in locked' <=> q \in locked)
      /\ \/ unacked'[p] = unacked[p] /\ (p \in locked' <=> p \in locked)
         \/ unacked'[p] = 0 /\ ackRead
  BY <1>2, <1>4 DEF ShellTypeOK
<1>6. ShellTypeOK'
  BY <1>1, <1>3, <1>5 DEF ShellTypeOK
<1>7. UnusedClean'
  BY <1>1, <1>3, <1>5 DEF UnusedClean
<1>8. TabsKnown' /\ OneLive'
  BY <1>1 DEF TabsKnown, OneLive, Open
<1>9. ExitOnce'
  BY <1>1, <1>3 DEF ExitOnce
<1>10. Acked'
  <2> SUFFICES ASSUME ackRead', NEW q \in Ptys
               PROVE  /\ reader'[q] \in {"read", "post"}
                           => q \in locked' /\ unacked'[q] = 0 /\ ~InMail(Data(q))'
                      /\ q \notin locked' => unacked'[q] = 0 /\ ~InMail(Data(q))'
                      /\ unacked'[q] <= 1
                      /\ Once(Data(q))'
    BY DEF Acked
  <2>1. CASE q # p
    BY <1>1, <1>3, <1>5, <2>1 DEF Acked
  <2>2. CASE q = p
    <3>1. reader[p] \notin {"read", "post"} /\ ~InMail(Data(p))'
      BY <1>1, <1>2, <1>3 DEF Acked
    <3>2. /\ p \notin locked => unacked[p] = 0
          /\ unacked[p] <= 1 /\ Once(Data(p))
      BY <1>1, <1>2 DEF Acked
    <3> QED
      BY <1>1, <1>3, <1>5, <2>2, <3>1, <3>2
  <2> QED
    BY <2>1, <2>2
<1> QED
  BY <1>6, <1>7, <1>8, <1>9, <1>10

(* The exit code is handled: it is that of the shell of an open tab.       *)
LEMMA ExitHandled ==
  ASSUME ShellInv, NEW p \in Ptys, DeliverExit(p)
  PROVE  ShellInv'
<1> USE DEF ShellInv, childVars
<1>1. UNCHANGED <<ackRead, tabPty, owner, proc, emitting, input, output, reader, locked,
                  unacked, writing>>
  BY DEF DeliverExit
<1>2. Head(mail) = Exit(p)
  BY DEF DeliverExit, Exit
<1>3. /\ mail' \in Seq(Messages) /\ InMail(Exit(p))
      /\ \A n : InMail(n)' => InMail(n)
      /\ \A n : Once(n) => Once(n)'
      /\ ~InMail(Exit(p))'
  BY <1>2, HandledFirst DEF DeliverExit, ShellTypeOK, ExitOnce
<1>4. proc[p] = "reaped" /\ p \in portOpen /\ portOpen' = portOpen \ {p}
  BY <1>3 DEF ExitOnce, DeliverExit
<1>5. owner[p] \in Tabs
  BY <1>4 DEF UnusedClean, ShellTypeOK
<1>6. PICK t \in Tabs : t = owner[p]
  BY <1>5
<1>7. /\ tabStatus' \in [Tabs -> {"none", "running", "exited", "error", "closed"}]
      /\ \A v \in Tabs \ {t} : tabStatus'[v] = tabStatus[v]
      /\ tabStatus'[t] = IF tabStatus[t] = "closed" THEN "closed" ELSE "exited"
  BY <1>6 DEF DeliverExit, ShellTypeOK
<1>8. tabStatus[t] # "closed" => tabStatus[t] = "running" /\ tabPty[t] = p
  <2>1. tabStatus[t] # "none"
    BY <1>6 DEF TabsKnown
  <2>2. tabStatus[t] \in {"none", "running", "exited", "error", "closed"}
    BY DEF ShellTypeOK
  <2> QED
    BY <1>4, <1>6, <2>1, <2>2 DEF OneLive, Open
<1>9. ShellTypeOK'
  BY <1>1, <1>3, <1>4, <1>7 DEF ShellTypeOK
<1>10. UnusedClean'
  BY <1>1, <1>3, <1>4 DEF UnusedClean
<1>11. TabsKnown'
  BY <1>1, <1>6, <1>7, <1>8 DEF TabsKnown
<1>12. ExitOnce'
  BY <1>1, <1>3, <1>4, MessagesDiffer DEF ExitOnce
<1>13. OneLive'
  <2> SUFFICES ASSUME NEW v \in Tabs, Open(v)', NEW q \in Ptys, owner[q] = v,
                      q \in portOpen' \/ proc[q] = "alive"
               PROVE  q = tabPty[v] /\ tabStatus'[v] = "running"
    BY <1>1 DEF OneLive
  <2>1. q # p /\ (q \in portOpen \/ proc[q] = "alive")
    BY <1>4
  <2>2. CASE v # t
    BY <1>7, <2>1, <2>2 DEF OneLive, Open
  <2>3. CASE v = t
    <3>1. tabStatus[t] # "closed"
      BY <1>7, <2>3 DEF Open
    <3>2. Open(t) /\ tabPty[t] = p
      BY <1>8, <3>1 DEF Open
    <3> QED
      BY <2>1, <2>3, <3>2 DEF OneLive
  <2> QED
    BY <2>2, <2>3
<1>14. Acked'
  BY <1>1, <1>3 DEF Acked
<1> QED
  BY <1>9, <1>10, <1>11, <1>12, <1>13, <1>14

(* openShell and restartShell find no shell that is still connected.       *)
LEMMA NothingLive ==
  ASSUME ShellInv, NEW t \in Tabs, tabStatus[t] \in {"none", "exited", "error"}
  PROVE  \A p \in Ptys : owner[p] = t => p \notin portOpen /\ proc[p] \notin {"alive", "zombie"}
<1>1. CASE tabStatus[t] = "none"
  BY <1>1 DEF ShellInv, TabsKnown
<1>2. CASE tabStatus[t] \in {"exited", "error"}
  BY <1>2 DEF ShellInv, OneLive, ExitOnce, Open
<1> QED
  BY <1>1, <1>2

(* A spawned pty is new, and the only one that its tab is connected to.    *)
LEMMA SpawnKeeps ==
  ASSUME ShellInv, NEW t \in Tabs, tabStatus[t] \in {"none", "exited", "error"}, Spawn(t)
  PROVE  ShellInv'
<1> USE DEF ShellInv
<1>1. UNCHANGED <<ackRead, emitting, input, output, locked, unacked, mail, writing>>
  BY DEF Spawn
<1>2. PICK p \in Ptys :
        /\ owner[p] = None
        /\ owner'     = [owner EXCEPT ![p] = t]
        /\ tabPty'    = [tabPty EXCEPT ![t] = p]
        /\ tabStatus' = [tabStatus EXCEPT ![t] = "running"]
        /\ proc'      = [proc EXCEPT ![p] = "alive"]
        /\ reader'    = [reader EXCEPT ![p] = "lock"]
        /\ portOpen'  = portOpen \cup {p}
  BY DEF Spawn
<1>3. /\ owner' \in [Ptys -> Tabs \cup {None}] /\ owner'[p] = t
      /\ \A q \in Ptys \ {p} : owner'[q] = owner[q]
  BY <1>2 DEF ShellTypeOK
<1>4. /\ tabPty' \in [Tabs -> Ptys \cup {None}] /\ tabPty'[t] = p
      /\ tabStatus' \in [Tabs -> {"none", "running", "exited", "error", "closed"}]
      /\ tabStatus'[t] = "running"
      /\ \A v \in Tabs \ {t} : tabPty'[v] = tabPty[v] /\ tabStatus'[v] = tabStatus[v]
  BY <1>2 DEF ShellTypeOK
<1>5. /\ proc' \in [Ptys -> {"none", "alive", "zombie", "reaped"}] /\ proc'[p] = "alive"
      /\ reader' \in [Ptys -> {"off", "lock", "read", "post"}] /\ reader'[p] = "lock"
      /\ \A q \in Ptys \ {p} : proc'[q] = proc[q] /\ reader'[q] = reader[q]
  BY <1>2 DEF ShellTypeOK
<1>6. t # None /\ portOpen' = portOpen \cup {p} /\ proc[p] = "none" /\ owner[p] = None
  BY <1>2, ShellAssumption DEF UnusedClean
<1>7. ShellTypeOK'
  BY <1>1, <1>3, <1>4, <1>5, <1>6 DEF ShellTypeOK
<1>8. UnusedClean'
  BY <1>1, <1>3, <1>5, <1>6 DEF UnusedClean, InMail
<1>9. TabsKnown'
  <2> SUFFICES ASSUME NEW v \in Tabs
               PROVE  /\ tabStatus'[v] = "none" => \A q \in Ptys : owner'[q] # v
                      /\ tabStatus'[v] \in {"running", "exited"}
                           => tabPty'[v] \in Ptys /\ owner'[tabPty'[v]] = v
    BY DEF TabsKnown
  <2>1. CASE v = t
    BY <1>3, <1>4, <2>1
  <2>2. CASE v # t
    BY <1>3, <1>4, <1>6, <2>2, ShellAssumption DEF TabsKnown
  <2> QED
    BY <2>1, <2>2
<1>10. ExitOnce'
  BY <1>1, <1>5, <1>6 DEF ExitOnce, InMail, Once
<1>11. OneLive'
  <2> SUFFICES ASSUME NEW v \in Tabs, Open(v)', NEW q \in Ptys, owner'[q] = v,
                      q \in portOpen' \/ proc'[q] = "alive"
               PROVE  q = tabPty'[v] /\ tabStatus'[v] = "running"
    BY DEF OneLive
  <2>1. CASE q = p
    BY <1>3, <1>4, <2>1
  <2>2. CASE q # p
    <3>1. owner[q] = v /\ (q \in portOpen \/ proc[q] = "alive")
      BY <1>3, <1>5, <1>6, <2>2
    <3>2. v # t
      BY <3>1, NothingLive
    <3> QED
      BY <1>4, <3>1, <3>2 DEF OneLive, Open
  <2> QED
    BY <2>1, <2>2
<1>12. Acked'
  BY <1>1, <1>5, <1>6 DEF Acked, InMail, Once
<1> QED
  BY <1>7, <1>8, <1>9, <1>10, <1>11, <1>12

(* A shell that cannot be spawned.                                         *)
LEMMA SpawnFailsKeeps ==
  ASSUME ShellInv, NEW t \in Tabs, tabStatus[t] \in {"none", "exited", "error"},
         SpawnFails(t)
  PROVE  ShellInv'
<1> USE DEF ShellInv, childVars
<1>1. UNCHANGED <<ackRead, tabPty, owner, proc, emitting, input, output, reader, locked,
                  unacked, mail, portOpen, writing>>
  BY DEF SpawnFails
<1>2. /\ tabStatus' \in [Tabs -> {"none", "running", "exited", "error", "closed"}]
      /\ tabStatus'[t] = "error"
      /\ \A v \in Tabs \ {t} : tabStatus'[v] = tabStatus[v]
  BY DEF SpawnFails, ShellTypeOK
<1>3. ShellTypeOK'
  BY <1>1, <1>2 DEF ShellTypeOK
<1>4. UnusedClean' /\ ExitOnce' /\ Acked'
  BY <1>1 DEF UnusedClean, ExitOnce, Acked, InMail, Once
<1>5. TabsKnown'
  BY <1>1, <1>2 DEF TabsKnown
<1>6. OneLive'
  BY <1>1, <1>2, NothingLive DEF OneLive, Open
<1> QED
  BY <1>3, <1>4, <1>5, <1>6

(* A tab that is closed, whose shell gets a SIGTERM or is gone.            *)
LEMMA CloseKeeps ==
  ASSUME ShellInv, NEW t \in Tabs, CloseShellTab(t)
  PROVE  ShellInv'
<1> USE DEF ShellInv
<1>1. UNCHANGED <<ackRead, tabPty, owner, emitting, input, output, reader, locked,
                  unacked, mail, portOpen, writing>>
  BY DEF CloseShellTab
<1>2. /\ tabStatus' \in [Tabs -> {"none", "running", "exited", "error", "closed"}]
      /\ tabStatus'[t] = "closed"
      /\ \A v \in Tabs \ {t} : tabStatus'[v] = tabStatus[v]
  BY DEF CloseShellTab, ShellTypeOK
<1>3. \/ proc' = proc
      \/ /\ tabPty[t] \in Ptys /\ proc[tabPty[t]] = "alive"
         /\ proc' = [proc EXCEPT ![tabPty[t]] = "zombie"]
  BY DEF CloseShellTab, ShellTypeOK
<1>4. /\ proc' \in [Ptys -> {"none", "alive", "zombie", "reaped"}]
      /\ \A p \in Ptys : \/ proc'[p] = proc[p]
                         \/ proc[p] = "alive" /\ proc'[p] = "zombie"
  BY <1>3 DEF ShellTypeOK
<1>5. ShellTypeOK'
  BY <1>1, <1>2, <1>4 DEF ShellTypeOK
<1>6. UnusedClean' /\ ExitOnce' /\ Acked'
  BY <1>1, <1>4 DEF UnusedClean, ExitOnce, Acked, InMail, Once
<1>7. TabsKnown'
  BY <1>1, <1>2 DEF TabsKnown
<1>8. OneLive'
  BY <1>1, <1>2, <1>4 DEF OneLive, Open
<1> QED
  BY <1>5, <1>6, <1>7, <1>8

(* ShellInv holds in every reachable state.                                *)
LEMMA ShellInvariant == ShellSpec => []ShellInv
<1>1. ShellInit => ShellInv
  <2> SUFFICES ASSUME ShellInit PROVE ShellInv
    OBVIOUS
  <2>1. mail = <<>> /\ mail \in Seq(Messages) /\ \A m : ~InMail(m) /\ Once(m)
    BY DEF ShellInit, InMail, Once
  <2>2. ShellTypeOK
    BY <2>1 DEF ShellInit, ShellTypeOK
  <2>3. UnusedClean /\ TabsKnown /\ ExitOnce /\ OneLive /\ Acked
    BY <2>1, ShellAssumption
    DEF ShellInit, UnusedClean, TabsKnown, ExitOnce, OneLive, Acked, Open
  <2> QED
    BY <2>2, <2>3 DEF ShellInv
<1>2. ShellInv /\ [ShellNext]_shellVars => ShellInv'
  <2> SUFFICES ASSUME ShellInv, [ShellNext]_shellVars PROVE ShellInv'
    OBVIOUS
  <2>1. CASE UNCHANGED shellVars
    <3>1. UNCHANGED <<ackRead, tabStatus, tabPty, owner, proc, emitting, input, output,
                      reader, locked, unacked, mail, portOpen, writing>>
      BY <2>1 DEF shellVars, tabVars, childVars
    <3> QED
      BY <3>1
      DEF ShellInv, ShellTypeOK, UnusedClean, TabsKnown, ExitOnce, OneLive, Acked,
          InMail, Once, Open
  <2>2. ASSUME NEW t \in Tabs,
               OpenShell(t) \/ RestartShell(t) \/ CloseShellTab(t) \/ WriteInput(t)
        PROVE  ShellInv'
    BY <2>2, SpawnKeeps, SpawnFailsKeeps, CloseKeeps, ChildKeeps DEF OpenShell, RestartShell
  <2>3. CASE WriteGoesOn \/ Deliver
    BY <2>3, ChildKeeps, OutputKeeps, ExitHandled DEF Deliver
  <2>4. ASSUME NEW p \in Ptys,
               \/ ReaderStep(p) \/ WaiterPosts(p) \/ ChildReads(p)
               \/ ChildTurnsToOutput(p) \/ ChildEmits(p) \/ ChildExits(p)
        PROVE  ShellInv'
    BY <2>4, ReaderKeeps, WaiterKeeps, ChildKeeps, ExitKeeps
  <2> QED
    BY <2>1, <2>2, <2>3, <2>4 DEF ShellNext
<1> QED
  BY <1>1, <1>2, PTL DEF ShellSpec

(* Every variable keeps its type, however the threads interleave.          *)
THEOREM ShellTypeCorrect == ShellSpec => []ShellTypeOK
<1>1. ShellInv => ShellTypeOK
  BY DEF ShellInv
<1> QED
  BY <1>1, ShellInvariant, PTL

(* restartShell, _onExitCode: a tab never has two connected shells, and    *)
(* one that shows "exited" has none that lives.                            *)
THEOREM OneShellEach == ShellSpec => []OneShellPerTab
<1>1. ShellInv => OneShellPerTab
  <2> SUFFICES ASSUME ShellInv, NEW t \in Tabs, Open(t), tabStatus[t] = "exited"
               PROVE  proc[tabPty[t]] # "alive"
    BY DEF OneShellPerTab, ShellInv, OneLive
  <2>1. tabPty[t] \in Ptys /\ owner[tabPty[t]] = t
    BY DEF ShellInv, TabsKnown
  <2> QED
    BY <2>1 DEF ShellInv, OneLive
<1> QED
  BY <1>1, ShellInvariant, PTL

(* Pty.start with ackRead: "should wait for a call to [Pty.ackRead] before *)
(* sending the next data".                                                 *)
THEOREM ChunksAcknowledged == ShellSpec => []OneChunkUnacked
<1>1. ShellInv => OneChunkUnacked
  BY DEF ShellInv, Acked, OneChunkUnacked
<1> QED
  BY <1>1, ShellInvariant, PTL

In(s) == {s[i] : i \in 1..Len(s)}

(***************************************************************************)
(* The inductive invariant.                                                *)
(***************************************************************************)
(* Before the injection the client has written nothing of it, and what the *)
(* user typed has called it off.                                           *)
BeforeGate ==
  gate = "none" =>
    /\ In(toShell) \subseteq {"command", "newline", "user"}
    /\ "user" \in In(toShell) => aborted
    /\ shell # "reading" /\ ~payload /\ misread = {}
    /\ In(toApp) \cap {"RDY", "DONE"} = {}

(* Only the line editor of a modern shell toggles bracketed paste.         *)
MarksAreModern ==
  kind # "modern" => ready = "never" /\ In(toApp) \cap {"on", "off"} = {}

(* What has been said of the line editor ends with its being off.          *)
OnIsOver ==
  \/ ready # "on" /\ "on" \notin In(toApp)
  \/ \E i \in 1..Len(toApp) :
       toApp[i] = "off" /\ \A j \in 1..Len(toApp) : j > i => toApp[j] # "on"

(* While a program runs, the last output the client gets is the program's, *)
(* and that output does not start the settle timer, or stops it.           *)
ProgramIsSeen ==
  Undecided /\ shell \in {"command", "fullscreen"} =>
    /\ OnIsOver
    /\ toApp = <<>> => ~settling
    /\ toApp # <<>> => toApp[Len(toApp)] \in {"text", "alt"}

(* The four stages while the gate holds: the bootstrap line is on its way  *)
(* behind newlines; the read waits for the payload; the payload is on its  *)
(* way; the shell is done.                                                 *)
Bootstrapping ==
  /\ shell \in {"booting", "editing"} /\ ~payload
  /\ toShell # <<>> /\ toShell[Len(toShell)] = "bootstrap"
  /\ \A i \in 1..Len(toShell) : i < Len(toShell) => toShell[i] = "newline"
  /\ In(toApp) \cap {"RDY", "DONE"} = {}

Awaited == shell = "reading" /\ toShell = <<>> /\ ~payload /\ "DONE" \notin In(toApp)

Sent ==
  /\ shell = "reading" /\ toShell = <<"payload">> /\ payload
  /\ "DONE" \notin In(toApp)

Answered == shell = "editing" /\ toShell = <<>> /\ (payload \/ "RDY" \notin In(toApp))

InTurn ==
  ~inside /\ ~late /\ ~raced =>
    /\ misread = {}
    /\ gate = "holding" => Bootstrapping \/ Awaited \/ Sent \/ Answered
    /\ gate = "open"    => shell # "reading" /\ In(toShell) \cap {"bootstrap", "payload"} = {}

HandshakeInv ==
  HandshakeTypeOK /\ BeforeGate /\ MarksAreModern /\ ProgramIsSeen /\ InTurn

(***************************************************************************)
(* Lines and output on their way.                                          *)
(***************************************************************************)
LEMMA Alone ==
  ASSUME NEW T, NEW x \in T
  PROVE  <<x>> \in Seq(T) /\ In(<<x>>) = {x}
  BY DEF In

LEMMA Pair ==
  ASSUME NEW T, NEW x \in T, NEW y \in T
  PROVE  <<x, y>> \in Seq(T) /\ In(<<x, y>>) = {x, y}
  BY DEF In

LEMMA Appended ==
  ASSUME NEW T, NEW s \in Seq(T), NEW t \in T
  PROVE  /\ Append(s, t) \in Seq(T) /\ In(Append(s, t)) = In(s) \cup {t}
         /\ Append(s, t) # <<>> /\ Append(s, t)[Len(Append(s, t))] = t
         /\ \A i \in 1..Len(Append(s, t)) : i < Len(Append(s, t)) =>
              i \in 1..Len(s) /\ Append(s, t)[i] = s[i]
<1> DEFINE z == Append(s, t)
<1>1. /\ z \in Seq(T) /\ Len(z) = Len(s) + 1 /\ z[Len(s) + 1] = t /\ Len(s) \in Nat
      /\ \A i \in 1..Len(s) : z[i] = s[i]
  OBVIOUS
<1>2. z # <<>>
  BY <1>1
<1> HIDE DEF z
<1>3. In(z) \subseteq In(s) \cup {t}
  BY <1>1 DEF In
<1>4. In(s) \cup {t} \subseteq In(z)
  <2>1. Len(s) + 1 \in 1..Len(z) /\ \A i \in 1..Len(s) : i \in 1..Len(z)
    BY <1>1
  <2> QED
    BY <1>1, <2>1 DEF In
<1> QED
  BY <1>1, <1>2, <1>3, <1>4 DEF z

LEMMA TakenFirst ==
  ASSUME NEW T, NEW s \in Seq(T), s # <<>>
  PROVE  /\ Tail(s) \in Seq(T) /\ Head(s) \in T /\ Head(s) = s[1]
         /\ Len(Tail(s)) = Len(s) - 1 /\ Len(s) \in Nat \ {0}
         /\ \A i \in 1..(Len(s) - 1) : Tail(s)[i] = s[i + 1]
         /\ In(s) = {Head(s)} \cup In(Tail(s))
         /\ Len(s) = 1 => Tail(s) = <<>>
         /\ Len(s) # 1 => Tail(s) # <<>>
<1> DEFINE z == Tail(s)
<1>1. /\ z \in Seq(T) /\ Head(s) \in T /\ Head(s) = s[1]
      /\ Len(z) = Len(s) - 1 /\ Len(s) \in Nat \ {0}
      /\ \A i \in 1..(Len(s) - 1) : z[i] = s[i + 1]
  OBVIOUS
<1> HIDE DEF z
<1>2. /\ Len(s) = 1 => z = <<>>
      /\ Len(s) # 1 => z # <<>>
  <2>1. Len(z) = 0 => z = <<>>
    BY <1>1
  <2>2. Len(<<>>) = 0
    OBVIOUS
  <2> QED
    BY <1>1, <2>1, <2>2
<1>3. In(s) \subseteq {s[1]} \cup In(z)
  <2> SUFFICES ASSUME NEW i \in 1..Len(s), i # 1 PROVE s[i] \in In(z)
    BY DEF In
  <2>1. i - 1 \in 1..Len(z) /\ z[i - 1] = s[i]
    BY <1>1
  <2> QED
    BY <2>1 DEF In
<1>4. {s[1]} \cup In(z) \subseteq In(s)
  <2>1. 1 \in 1..Len(s) /\ \A i \in 1..Len(z) : i + 1 \in 1..Len(s) /\ z[i] = s[i + 1]
    BY <1>1
  <2> QED
    BY <2>1 DEF In
<1> QED
  BY <1>1, <1>2, <1>3, <1>4 DEF z

LEMMA Followed ==
  ASSUME NEW T, NEW s \in Seq(T), NEW t \in Seq(T)
  PROVE  /\ s \o t \in Seq(T) /\ In(s \o t) = In(s) \cup In(t)
         /\ Len(s \o t) = Len(s) + Len(t) /\ Len(s) \in Nat /\ Len(t) \in Nat
         /\ \A i \in 1..Len(s) : (s \o t)[i] = s[i]
         /\ \A i \in 1..Len(t) : (s \o t)[Len(s) + i] = t[i]
<1> DEFINE z == s \o t
<1>1. /\ z \in Seq(T) /\ Len(z) = Len(s) + Len(t) /\ Len(s) \in Nat /\ Len(t) \in Nat
      /\ \A i \in 1..Len(s) : z[i] = s[i]
      /\ \A i \in 1..Len(z) : i > Len(s) => z[i] = t[i - Len(s)]
  OBVIOUS
<1> HIDE DEF z
<1>2. ASSUME NEW i \in 1..Len(t) PROVE Len(s) + i \in 1..Len(z) /\ z[Len(s) + i] = t[i]
  <2>1. Len(s) + i \in 1..Len(z) /\ Len(s) + i > Len(s) /\ (Len(s) + i) - Len(s) = i
    BY <1>1
  <2> QED
    BY <1>1, <2>1
<1>3. In(z) \subseteq In(s) \cup In(t)
  <2> SUFFICES ASSUME NEW i \in 1..Len(z) PROVE z[i] \in In(s) \cup In(t)
    BY DEF In
  <2>1. CASE i <= Len(s)
    <3>1. i \in 1..Len(s) /\ z[i] = s[i]
      BY <1>1, <2>1
    <3> QED
      BY <3>1 DEF In
  <2>2. CASE i > Len(s)
    <3>1. i - Len(s) \in 1..Len(t) /\ z[i] = t[i - Len(s)]
      BY <1>1, <2>2
    <3> QED
      BY <3>1 DEF In
  <2> QED
    BY <1>1, <2>1, <2>2
<1>4. In(s) \cup In(t) \subseteq In(z)
  <2>1. \A i \in 1..Len(s) : i \in 1..Len(z) /\ z[i] = s[i]
    BY <1>1
  <2>2. In(s) \subseteq In(z)
    BY <2>1 DEF In
  <2>3. In(t) \subseteq In(z)
    BY <1>2 DEF In
  <2> QED
    BY <2>2, <2>3
<1> QED
  BY <1>1, <1>2, <1>3, <1>4 DEF z

LEMMA FollowedBy ==
  ASSUME NEW T, NEW s \in Seq(T), NEW t \in Seq(T), NEW z, z = s \o t
  PROVE  /\ z \in Seq(T) /\ In(z) = In(s) \cup In(t)
         /\ Len(z) = Len(s) + Len(t) /\ Len(s) \in Nat /\ Len(t) \in Nat
         /\ \A i \in 1..Len(s) : z[i] = s[i]
         /\ \A i \in 1..Len(t) : z[Len(s) + i] = t[i]
  BY Followed

(* What the shell prints around a command line.                            *)
LEMMA Printable ==
  /\ Prompt \in Seq(Output) /\ Leaves \in Seq(Output)
  /\ In(Prompt) \subseteq {"on", "prompt"} /\ In(Leaves) \subseteq {"off"}
  /\ kind # "modern" => "on" \notin In(Prompt) /\ In(Leaves) = {}
<1>1. "on" \in Output /\ "off" \in Output /\ "prompt" \in Output
  BY DEF Output
<1>2. /\ <<"on", "prompt">> \in Seq(Output) /\ In(<<"on", "prompt">>) = {"on", "prompt"}
      /\ <<"prompt">> \in Seq(Output) /\ In(<<"prompt">>) = {"prompt"}
      /\ <<"off">> \in Seq(Output) /\ In(<<"off">>) = {"off"}
      /\ <<>> \in Seq(Output) /\ In(<<>>) = {}
  <2>1. <<"on", "prompt">> \in Seq(Output) /\ In(<<"on", "prompt">>) = {"on", "prompt"}
    BY <1>1, Pair
  <2>2. <<"prompt">> \in Seq(Output) /\ In(<<"prompt">>) = {"prompt"}
    BY <1>1, Alone
  <2>3. <<"off">> \in Seq(Output) /\ In(<<"off">>) = {"off"}
    BY <1>1, Alone
  <2>4. <<>> \in Seq(Output) /\ In(<<>>) = {}
    BY DEF In
  <2> QED
    BY <2>1, <2>2, <2>3, <2>4
<1> QED
  BY <1>2 DEF Prompt, Leaves

(***************************************************************************)
(* The steps of the remote shell.                                          *)
(***************************************************************************)
(* What every step of the shell does: it prints.                           *)
LEMMA ShellMoves ==
  ASSUME HandshakeInv,
         NEW who \in {"booting", "editing", "command", "fullscreen", "reading"},
         NEW out \in Seq(Output), ShellTo(who, out),
         kind # "modern" => In(out) \cap {"on", "off"} = {},
         toShell' \in Seq(Lines), misread' \subseteq Lines
  PROVE  /\ HandshakeTypeOK' /\ MarksAreModern'
         /\ shell' = who /\ toApp' = toApp \o out
         /\ toApp' \in Seq(Output) /\ In(toApp') = In(toApp) \cup In(out)
         /\ UNCHANGED <<kind, timers, gateVars, typed, inside, late, raced>>
<1>1. HandshakeTypeOK /\ MarksAreModern
  BY DEF HandshakeInv
<1>2. /\ shell' = who /\ toApp' = toApp \o out
      /\ UNCHANGED <<kind, timers, gateVars, typed, inside, late, raced>>
  BY DEF ShellTo, Prints
<1>3. toApp' \in Seq(Output) /\ In(toApp') = In(toApp) \cup In(out)
  BY <1>1, <1>2, Followed DEF HandshakeTypeOK
<1>4. HandshakeTypeOK'
  BY <1>1, <1>2, <1>3 DEF HandshakeTypeOK, timers, gateVars
<1>5. MarksAreModern'
  BY <1>1, <1>2, <1>3 DEF MarksAreModern, timers
<1> QED
  BY <1>2, <1>3, <1>4, <1>5

(* A line that is taken from those on their way.                           *)
LEMMA LineTaken ==
  ASSUME HandshakeTypeOK, NEW line, Takes(line)
  PROVE  /\ toShell # <<>> /\ toShell \in Seq(Lines) /\ toShell' \in Seq(Lines)
         /\ In(toShell) = {line} \cup In(toShell')
         /\ line = Head(toShell) /\ line \in Lines
         /\ toShell' = Tail(toShell)
<1>1. toShell # <<>> /\ line = Head(toShell) /\ toShell' = Tail(toShell)
      /\ toShell \in Seq(Lines)
  BY DEF Takes, HandshakeTypeOK
<1> QED
  BY <1>1, TakenFirst

(* Of a bootstrap behind newlines only the newlines are taken first.       *)
LEMMA BootstrapTaken ==
  ASSUME HandshakeTypeOK, Bootstrapping, NEW line, Takes(line)
  PROVE  /\ line \in {"newline", "bootstrap"}
         /\ line = "bootstrap" => toShell' = <<>>
         /\ line = "newline" =>
              /\ toShell' # <<>> /\ toShell'[Len(toShell')] = "bootstrap"
              /\ \A i \in 1..Len(toShell') : i < Len(toShell') => toShell'[i] = "newline"
<1>1. /\ toShell # <<>> /\ toShell \in Seq(Lines)
      /\ line = Head(toShell) /\ toShell' = Tail(toShell)
  BY LineTaken
<1>2. /\ line = toShell[1] /\ Len(toShell') = Len(toShell) - 1
      /\ Len(toShell) \in Nat \ {0}
      /\ \A i \in 1..(Len(toShell) - 1) : toShell'[i] = toShell[i + 1]
      /\ Len(toShell) = 1 => toShell' = <<>>
      /\ Len(toShell) # 1 => toShell' # <<>>
  BY <1>1, TakenFirst
<1>3. /\ toShell[Len(toShell)] = "bootstrap"
      /\ \A i \in 1..Len(toShell) : i < Len(toShell) => toShell[i] = "newline"
  BY DEF Bootstrapping
<1>4. CASE Len(toShell) = 1
  BY <1>2, <1>3, <1>4
<1>5. CASE Len(toShell) # 1
  BY <1>2, <1>3, <1>5
<1> QED
  BY <1>4, <1>5

(* What the invariant says of the stages, for a step from such a state.    *)
LEMMA InTurnFacts ==
  ASSUME HandshakeInv, ~inside, ~late, ~raced
  PROVE  /\ misread = {}
         /\ gate \in {"none", "holding", "open"}
         /\ gate = "holding" => Bootstrapping \/ Awaited \/ Sent \/ Answered
         /\ gate = "open" =>
              shell # "reading" /\ In(toShell) \cap {"bootstrap", "payload"} = {}
  BY DEF HandshakeInv, InTurn, HandshakeTypeOK

(* The login banner.                                                       *)
LEMMA BannerKeeps ==
  ASSUME HandshakeInv, NEW out \in {"text", "prompt"}, Banner(out)
  PROVE  HandshakeInv'
<1>1. shell = "booting" /\ ShellTo("booting", <<out>>) /\ UNCHANGED <<toShell, misread>>
  BY DEF Banner
<1>2. <<out>> \in Seq(Output) /\ In(<<out>>) = {out}
  <2>1. out \in Output
    BY DEF Output
  <2> QED
    BY <2>1, Alone
<1>3. toShell \in Seq(Lines) /\ misread \subseteq Lines
  BY DEF HandshakeInv, HandshakeTypeOK
<1>4. /\ HandshakeTypeOK' /\ MarksAreModern' /\ shell' = "booting"
      /\ In(toApp') = In(toApp) \cup {out}
      /\ UNCHANGED <<kind, timers, gateVars, typed, inside, late, raced>>
  BY <1>1, <1>2, <1>3, ShellMoves
<1>5. BeforeGate'
  BY <1>1, <1>4 DEF HandshakeInv, BeforeGate, gateVars
<1>6. ProgramIsSeen'
  BY <1>4 DEF ProgramIsSeen
<1>7. InTurn'
  <2> SUFFICES ASSUME ~inside, ~late, ~raced PROVE InTurn'
    BY <1>4 DEF InTurn
  <2>1. gate = "holding" => Bootstrapping
    BY <1>1, InTurnFacts DEF Awaited, Sent, Answered
  <2>2. gate = "holding" => Bootstrapping'
    BY <1>1, <1>4, <2>1 DEF Bootstrapping, gateVars
  <2> QED
    BY <1>1, <1>4, <2>2, InTurnFacts DEF InTurn, gateVars
<1> QED
  BY <1>4, <1>5, <1>6, <1>7 DEF HandshakeInv

(* The line editor starts, or a program ends.                              *)
LEMMA EditorStartsKeeps ==
  ASSUME HandshakeInv, EditorStarts
  PROVE  HandshakeInv'
<1>1. /\ shell \in {"booting", "command", "fullscreen"}
      /\ ShellTo("editing", Prompt) /\ UNCHANGED <<toShell, misread>>
  BY DEF EditorStarts
<1>2. toShell \in Seq(Lines) /\ misread \subseteq Lines
  BY DEF HandshakeInv, HandshakeTypeOK
<1>3. /\ HandshakeTypeOK' /\ MarksAreModern' /\ shell' = "editing"
      /\ In(toApp') = In(toApp) \cup In(Prompt)
      /\ UNCHANGED <<kind, timers, gateVars, typed, inside, late, raced>>
  BY <1>1, <1>2, Printable, ShellMoves
<1>4. BeforeGate'
  BY <1>1, <1>3, Printable DEF HandshakeInv, BeforeGate, gateVars
<1>5. ProgramIsSeen'
  BY <1>3 DEF ProgramIsSeen
<1>6. InTurn'
  <2> SUFFICES ASSUME ~inside, ~late, ~raced PROVE InTurn'
    BY <1>3 DEF InTurn
  <2>1. gate = "holding" => Bootstrapping
    BY <1>1, InTurnFacts DEF Awaited, Sent, Answered
  <2>2. gate = "holding" => Bootstrapping'
    BY <1>1, <1>3, <2>1, Printable DEF Bootstrapping, gateVars
  <2> QED
    BY <1>1, <1>3, <2>2, InTurnFacts DEF InTurn, gateVars
<1> QED
  BY <1>3, <1>4, <1>5, <1>6 DEF HandshakeInv

(* A newline at the prompt.                                                *)
LEMMA EditorAnswersKeeps ==
  ASSUME HandshakeInv, EditorAnswers
  PROVE  HandshakeInv'
<1> DEFINE out == Leaves \o Prompt
<1>1. /\ shell = "editing" /\ Takes("newline")
      /\ ShellTo("editing", out) /\ UNCHANGED misread
  BY DEF EditorAnswers
<1>2. out \in Seq(Output) /\ In(out) = In(Leaves) \cup In(Prompt)
  BY Printable, Followed
<1>3. /\ toShell' \in Seq(Lines) /\ In(toShell) = {"newline"} \cup In(toShell')
      /\ toShell # <<>> /\ misread' \subseteq Lines
  BY <1>1, LineTaken DEF HandshakeInv, HandshakeTypeOK
<1> HIDE DEF out
<1>4. /\ HandshakeTypeOK' /\ MarksAreModern' /\ shell' = "editing"
      /\ In(toApp') = In(toApp) \cup In(out)
      /\ UNCHANGED <<kind, timers, gateVars, typed, inside, late, raced>>
  BY <1>1, <1>2, <1>3, Printable, ShellMoves
<1>5. In(out) \cap {"RDY", "DONE"} = {}
  BY <1>2, Printable
<1>6. BeforeGate'
  BY <1>1, <1>3, <1>4, <1>5 DEF HandshakeInv, BeforeGate, gateVars
<1>7. ProgramIsSeen'
  BY <1>4 DEF ProgramIsSeen
<1>8. InTurn'
  <2> SUFFICES ASSUME ~inside, ~late, ~raced PROVE InTurn'
    BY <1>4 DEF InTurn
  <2>1. gate = "holding" => Bootstrapping
    BY <1>1, <1>3, InTurnFacts DEF Awaited, Sent, Answered
  <2>2. gate = "holding" => Bootstrapping'
    <3> SUFFICES ASSUME gate = "holding" PROVE Bootstrapping'
      OBVIOUS
    <3>1. /\ toShell' # <<>> /\ toShell'[Len(toShell')] = "bootstrap"
          /\ \A i \in 1..Len(toShell') : i < Len(toShell') => toShell'[i] = "newline"
      BY <1>1, <2>1, BootstrapTaken DEF HandshakeInv
    <3> QED
      BY <1>4, <1>5, <2>1, <3>1 DEF Bootstrapping, gateVars
  <2> QED
    BY <1>1, <1>3, <1>4, <2>2, InTurnFacts DEF InTurn, gateVars
<1> QED
  BY <1>4, <1>6, <1>7, <1>8 DEF HandshakeInv

(* The bootstrap at the prompt: bash and zsh go on to read the payload.    *)
LEMMA EditorBootstrapsKeeps ==
  ASSUME HandshakeInv, EditorBootstraps
  PROVE  HandshakeInv'
<1> DEFINE who == IF kind = "other" THEN "editing" ELSE "reading"
           out == IF kind = "other" THEN (Leaves \o <<"DONE">>) \o Prompt
                                    ELSE Leaves \o <<"RDY">>
<1>1. /\ shell = "editing" /\ Takes("bootstrap")
      /\ ShellTo(who, out) /\ UNCHANGED misread
  BY DEF EditorBootstraps
<1>2. /\ out \in Seq(Output)
      /\ In(out) = IF kind = "other" THEN In(Leaves) \cup {"DONE"} \cup In(Prompt)
                                     ELSE In(Leaves) \cup {"RDY"}
  <2>1. /\ <<"DONE">> \in Seq(Output) /\ In(<<"DONE">>) = {"DONE"}
        /\ <<"RDY">> \in Seq(Output) /\ In(<<"RDY">>) = {"RDY"}
    <3>1. "DONE" \in Output /\ "RDY" \in Output
      BY DEF Output
    <3>2. <<"DONE">> \in Seq(Output) /\ In(<<"DONE">>) = {"DONE"}
      BY <3>1, Alone
    <3>3. <<"RDY">> \in Seq(Output) /\ In(<<"RDY">>) = {"RDY"}
      BY <3>1, Alone
    <3> QED
      BY <3>2, <3>3
  <2>2. /\ Leaves \o <<"DONE">> \in Seq(Output)
        /\ In(Leaves \o <<"DONE">>) = In(Leaves) \cup {"DONE"}
        /\ Leaves \o <<"RDY">> \in Seq(Output)
        /\ In(Leaves \o <<"RDY">>) = In(Leaves) \cup {"RDY"}
    <3> DEFINE d == <<"DONE">>
               r == <<"RDY">>
    <3>1. d \in Seq(Output) /\ In(d) = {"DONE"} /\ r \in Seq(Output) /\ In(r) = {"RDY"}
      BY <2>1
    <3> HIDE DEF d, r
    <3>2. Leaves \o d \in Seq(Output) /\ In(Leaves \o d) = In(Leaves) \cup In(d)
      BY <3>1, Printable, Followed
    <3>3. Leaves \o r \in Seq(Output) /\ In(Leaves \o r) = In(Leaves) \cup In(r)
      BY <3>1, Printable, Followed
    <3> QED
      BY <3>1, <3>2, <3>3 DEF d, r
  <2>3. /\ (Leaves \o <<"DONE">>) \o Prompt \in Seq(Output)
        /\ In((Leaves \o <<"DONE">>) \o Prompt) = In(Leaves \o <<"DONE">>) \cup In(Prompt)
    <3> DEFINE d == Leaves \o <<"DONE">>
    <3>1. d \in Seq(Output)
      BY <2>2
    <3> HIDE DEF d
    <3>2. d \o Prompt \in Seq(Output) /\ In(d \o Prompt) = In(d) \cup In(Prompt)
      BY <3>1, Printable, Followed
    <3> QED
      BY <3>2 DEF d
  <2> QED
    BY <2>2, <2>3
<1>3. /\ toShell' \in Seq(Lines) /\ In(toShell) = {"bootstrap"} \cup In(toShell')
      /\ toShell # <<>> /\ misread' \subseteq Lines
  BY <1>1, LineTaken DEF HandshakeInv, HandshakeTypeOK
<1>4. who \in {"booting", "editing", "command", "fullscreen", "reading"}
  OBVIOUS
<1> HIDE DEF out, who
<1>5. kind # "modern" => In(out) \cap {"on", "off"} = {}
  BY <1>2, Printable
<1>6. /\ HandshakeTypeOK' /\ MarksAreModern' /\ shell' = who
      /\ In(toApp') = In(toApp) \cup In(out)
      /\ UNCHANGED <<kind, timers, gateVars, typed, inside, late, raced>>
  BY <1>1, <1>2, <1>3, <1>4, <1>5, ShellMoves
<1>7. gate # "none"
  BY <1>3 DEF HandshakeInv, BeforeGate
<1>8. BeforeGate'
  BY <1>6, <1>7 DEF BeforeGate, gateVars
<1>9. ProgramIsSeen'
  BY <1>6 DEF ProgramIsSeen, who
<1>10. InTurn'
  <2> SUFFICES ASSUME ~inside, ~late, ~raced PROVE InTurn'
    BY <1>6 DEF InTurn
  <2>1. gate = "holding"
    BY <1>3, <1>7, InTurnFacts
  <2>2. Bootstrapping
    BY <1>1, <1>3, <2>1, InTurnFacts DEF Awaited, Sent, Answered
  <2>3. toShell' = <<>>
    BY <1>1, <2>2, BootstrapTaken DEF HandshakeInv
  <2>4. Awaited' \/ Answered'
    BY <1>2, <1>6, <2>2, <2>3, Printable DEF Bootstrapping, Awaited, Answered, who, gateVars
  <2> QED
    BY <1>1, <1>6, <2>1, <2>4, InTurnFacts DEF InTurn, gateVars
<1> QED
  BY <1>6, <1>8, <1>9, <1>10 DEF HandshakeInv

(* The payload at the prompt: its read was answered by another line.       *)
LEMMA EditorEchoesKeeps ==
  ASSUME HandshakeInv, EditorEchoes
  PROVE  HandshakeInv'
<1> DEFINE out == <<"text", "DONE">> \o Prompt
<1>1. /\ shell = "editing" /\ Takes("payload")
      /\ ShellTo("editing", out) /\ misread' = misread \cup {"payload"}
  BY DEF EditorEchoes, Misread
<1>2. out \in Seq(Output) /\ In(out) = {"text", "DONE"} \cup In(Prompt)
  <2>1. <<"text", "DONE">> \in Seq(Output) /\ In(<<"text", "DONE">>) = {"text", "DONE"}
    <3>1. "text" \in Output /\ "DONE" \in Output
      BY DEF Output
    <3> QED
      BY <3>1, Pair
  <2> DEFINE d == <<"text", "DONE">>
  <2>2. d \in Seq(Output) /\ In(d) = {"text", "DONE"}
    BY <2>1
  <2> HIDE DEF d
  <2>3. d \o Prompt \in Seq(Output) /\ In(d \o Prompt) = In(d) \cup In(Prompt)
    BY <2>2, Printable, Followed
  <2> QED
    BY <2>2, <2>3 DEF d
<1>3. /\ toShell' \in Seq(Lines) /\ In(toShell) = {"payload"} \cup In(toShell')
      /\ toShell # <<>> /\ misread' \subseteq Lines
  BY <1>1, LineTaken DEF HandshakeInv, HandshakeTypeOK, Lines
<1> HIDE DEF out
<1>4. /\ HandshakeTypeOK' /\ MarksAreModern' /\ shell' = "editing"
      /\ UNCHANGED <<kind, timers, gateVars, typed, inside, late, raced>>
  BY <1>1, <1>2, <1>3, Printable, ShellMoves
<1>5. gate # "none"
  BY <1>3 DEF HandshakeInv, BeforeGate
<1>6. BeforeGate' /\ ProgramIsSeen'
  BY <1>4, <1>5 DEF BeforeGate, ProgramIsSeen, gateVars
<1>7. inside \/ late \/ raced
  <2> SUFFICES ASSUME ~inside, ~late, ~raced PROVE FALSE
    OBVIOUS
  <2>1. gate = "holding"
    BY <1>3, <1>5, InTurnFacts
  <2>2. Bootstrapping
    BY <1>1, <1>3, <2>1, InTurnFacts DEF Awaited, Sent, Answered
  <2> QED
    BY <1>1, <2>2, BootstrapTaken DEF HandshakeInv
<1> QED
  BY <1>4, <1>6, <1>7 DEF HandshakeInv, InTurn

(* read -rs takes the payload, as long as nobody types in between.         *)
LEMMA ReadTakesKeeps ==
  ASSUME HandshakeInv, NEW line \in Lines, ReadTakes(line)
  PROVE  HandshakeInv'
<1> DEFINE d == IF line = "payload" THEN <<"DONE">> ELSE <<>>
           out == d \o Prompt
<1>1. /\ shell = "reading" /\ Takes(line) /\ ShellTo("editing", out)
      /\ misread' = IF line = "payload" THEN misread ELSE misread \cup {line}
  BY DEF ReadTakes, Misread
<1>2. d \in Seq(Output) /\ In(d) \subseteq {"DONE"}
  <2>1. <<"DONE">> \in Seq(Output) /\ In(<<"DONE">>) = {"DONE"}
    <3>1. "DONE" \in Output
      BY DEF Output
    <3> QED
      BY <3>1, Alone
  <2>2. <<>> \in Seq(Output) /\ In(<<>>) = {}
    BY DEF In
  <2> QED
    BY <2>1, <2>2
<1> HIDE DEF d
<1>3. out \in Seq(Output) /\ In(out) = In(d) \cup In(Prompt)
  BY <1>2, Printable, Followed
<1> HIDE DEF out
<1>4. /\ toShell # <<>> /\ toShell \in Seq(Lines) /\ toShell' \in Seq(Lines)
      /\ line = Head(toShell) /\ toShell' = Tail(toShell)
      /\ misread' \subseteq Lines
  BY <1>1, LineTaken DEF HandshakeInv, HandshakeTypeOK
<1>5. /\ HandshakeTypeOK' /\ MarksAreModern' /\ shell' = "editing"
      /\ UNCHANGED <<kind, timers, gateVars, typed, inside, late, raced>>
  BY <1>1, <1>2, <1>3, <1>4, Printable, ShellMoves
<1>6. gate # "none"
  BY <1>1 DEF HandshakeInv, BeforeGate
<1>7. BeforeGate' /\ ProgramIsSeen'
  BY <1>5, <1>6 DEF BeforeGate, ProgramIsSeen, gateVars
<1>8. InTurn'
  <2> SUFFICES ASSUME ~inside, ~late, ~raced PROVE InTurn'
    BY <1>5 DEF InTurn
  <2>1. gate = "holding"
    BY <1>1, <1>6, InTurnFacts
  <2>2. Sent
    BY <1>1, <1>4, <2>1, InTurnFacts DEF Bootstrapping, Awaited, Answered
  <2>3. line = "payload" /\ toShell' = <<>>
    BY <1>4, <2>2 DEF Sent
  <2>4. Answered'
    BY <1>5, <2>2, <2>3 DEF Sent, Answered, gateVars
  <2> QED
    BY <1>1, <1>5, <2>1, <2>3, <2>4, InTurnFacts DEF InTurn, gateVars
<1> QED
  BY <1>5, <1>7, <1>8 DEF HandshakeInv

(* Output that follows does not say that the editor is on again.           *)
LEMMA OnStaysOver ==
  ASSUME HandshakeTypeOK, OnIsOver, NEW out \in Seq(Output), "on" \notin In(out),
         toApp' = toApp \o out, ready' = ready
  PROVE  OnIsOver'
<1>1. /\ toApp \in Seq(Output)
      /\ In(toApp') = In(toApp) \cup In(out) /\ Len(toApp') = Len(toApp) + Len(out)
      /\ Len(toApp) \in Nat /\ Len(out) \in Nat
      /\ \A i \in 1..Len(toApp) : toApp'[i] = toApp[i]
      /\ \A i \in 1..Len(out) : toApp'[Len(toApp) + i] = out[i]
  BY Followed DEF HandshakeTypeOK
<1>2. CASE ready # "on" /\ "on" \notin In(toApp)
  BY <1>1, <1>2 DEF OnIsOver
<1>3. CASE \E i \in 1..Len(toApp) :
             toApp[i] = "off" /\ \A j \in 1..Len(toApp) : j > i => toApp[j] # "on"
  <2>1. PICK i \in 1..Len(toApp) :
          toApp[i] = "off" /\ \A j \in 1..Len(toApp) : j > i => toApp[j] # "on"
    BY <1>3
  <2>2. i \in 1..Len(toApp') /\ toApp'[i] = "off"
    BY <1>1, <2>1
  <2>3. ASSUME NEW j \in 1..Len(toApp'), j > i PROVE toApp'[j] # "on"
    <3>1. CASE j <= Len(toApp)
      BY <1>1, <2>1, <2>3, <3>1
    <3>2. CASE j > Len(toApp)
      <4> DEFINE k == j - Len(toApp)
      <4>1. k \in 1..Len(out) /\ Len(toApp) + k = j
        BY <1>1, <3>2
      <4> HIDE DEF k
      <4>2. toApp'[j] = out[k]
        BY <1>1, <4>1
      <4>3. out[k] \in In(out)
        BY <4>1 DEF In
      <4> QED
        BY <4>2, <4>3
    <3> QED
      BY <1>1, <3>1, <3>2
  <2> QED
    BY <2>2, <2>3 DEF OnIsOver
<1> QED
  BY <1>2, <1>3 DEF OnIsOver

(* A program reads what was not meant for a line editor only.              *)
LEMMA ProgramReadsKeeps ==
  ASSUME HandshakeInv, NEW line \in Lines, ProgramReads(line)
  PROVE  HandshakeInv'
<1> DEFINE out == <<"text">>
<1>1. /\ shell \in {"command", "fullscreen"} /\ Takes(line) /\ ShellTo(shell, out)
      /\ misread' = IF line \in {"user", "newline", "snippet", "command"} THEN misread
                    ELSE misread \cup {line}
  BY DEF ProgramReads, Misread
<1>2. out \in Seq(Output) /\ In(out) = {"text"} /\ Len(out) = 1 /\ out[1] = "text"
  <2>1. "text" \in Output
    BY DEF Output
  <2>2. out \in Seq(Output) /\ In(out) = {"text"}
    BY <2>1, Alone
  <2> QED
    BY <2>2
<1> HIDE DEF out
<1>3. /\ toShell' \in Seq(Lines) /\ In(toShell) = {line} \cup In(toShell')
      /\ toShell # <<>> /\ misread' \subseteq Lines
  BY <1>1, LineTaken DEF HandshakeInv, HandshakeTypeOK
<1>4. /\ HandshakeTypeOK' /\ MarksAreModern' /\ shell' = shell
      /\ toApp' = toApp \o out /\ In(toApp') = In(toApp) \cup {"text"}
      /\ UNCHANGED <<kind, timers, gateVars, typed, inside, late, raced>>
  BY <1>1, <1>2, <1>3, ShellMoves
<1>5. BeforeGate'
  BY <1>1, <1>3, <1>4 DEF HandshakeInv, BeforeGate, gateVars
<1>6. ProgramIsSeen'
  <2> SUFFICES ASSUME Undecided PROVE ProgramIsSeen'
    BY <1>4 DEF ProgramIsSeen, Undecided, gateVars
  <2>1. OnIsOver
    BY <1>1 DEF HandshakeInv, ProgramIsSeen
  <2>2. OnIsOver'
    BY <1>2, <1>4, <2>1, OnStaysOver DEF HandshakeInv, timers
  <2>3. /\ Len(toApp') = Len(toApp) + 1 /\ toApp'[Len(toApp) + 1] = "text"
        /\ Len(toApp) \in Nat /\ toApp' \in Seq(Output)
    <3>1. toApp \in Seq(Output)
      BY DEF HandshakeInv, HandshakeTypeOK
    <3>2. /\ Len(toApp') = Len(toApp) + Len(out) /\ Len(toApp) \in Nat
          /\ toApp' \in Seq(Output)
          /\ \A i \in 1..Len(out) : toApp'[Len(toApp) + i] = out[i]
      <4>1. out \in Seq(Output) /\ toApp' = toApp \o out
        BY <1>2, <1>4
      <4> QED
        BY <3>1, <4>1, FollowedBy
    <3> QED
      BY <1>2, <3>2
  <2>4. toApp' # <<>>
    BY <2>3
  <2> QED
    BY <2>2, <2>3, <2>4 DEF ProgramIsSeen
<1>7. InTurn'
  <2> SUFFICES ASSUME ~inside, ~late, ~raced PROVE InTurn'
    BY <1>4 DEF InTurn
  <2>1. gate # "holding"
    BY <1>1, InTurnFacts DEF Bootstrapping, Awaited, Sent, Answered
  <2>2. line \in {"user", "newline", "snippet", "command"}
    BY <1>3, <2>1, InTurnFacts DEF HandshakeInv, BeforeGate, Lines
  <2> QED
    BY <1>1, <1>3, <1>4, <2>1, <2>2, InTurnFacts DEF InTurn, gateVars
<1> QED
  BY <1>4, <1>5, <1>6, <1>7 DEF HandshakeInv

(* A command line at the prompt: the editor goes off, the program prints.  *)
LEMMA EditorRunsKeeps ==
  ASSUME HandshakeInv, NEW line \in Lines, NEW who \in {"command", "fullscreen"},
         EditorRuns(line, who)
  PROVE  HandshakeInv'
<1> DEFINE d == IF who = "fullscreen" THEN <<"alt">> ELSE <<"text">>
           out == Leaves \o d
<1>1. /\ shell = "editing" /\ Takes(line) /\ line \in {"command", "snippet", "user"}
      /\ ShellTo(who, out) /\ UNCHANGED misread
  BY DEF EditorRuns
<1>2. d \in Seq(Output) /\ In(d) \subseteq {"alt", "text"} /\ Len(d) = 1 /\ d[1] \in {"alt", "text"}
  <2>1. "text" \in Output /\ "alt" \in Output
    BY DEF Output
  <2>2. <<"text">> \in Seq(Output) /\ In(<<"text">>) = {"text"}
    BY <2>1, Alone
  <2>3. <<"alt">> \in Seq(Output) /\ In(<<"alt">>) = {"alt"}
    BY <2>1, Alone
  <2> QED
    BY <2>2, <2>3
<1> HIDE DEF d
<1>3. /\ out \in Seq(Output) /\ In(out) = In(Leaves) \cup In(d)
      /\ Len(out) = Len(Leaves) + 1 /\ out[Len(Leaves) + 1] = d[1]
      /\ Len(Leaves) \in Nat
      /\ \A i \in 1..Len(Leaves) : out[i] = Leaves[i]
  <2>1. out = Leaves \o d /\ Leaves \in Seq(Output) /\ d \in Seq(Output)
    BY <1>2, Printable
  <2> HIDE DEF out
  <2>2. out \in Seq(Output)
    BY <2>1
  <2>3. In(out) = In(Leaves) \cup In(d)
    BY <2>1, Followed
  <2>4. Len(out) = Len(Leaves) + Len(d) /\ Len(Leaves) \in Nat
    BY <2>1
  <2>5. \A i \in 1..Len(d) : out[Len(Leaves) + i] = d[i]
    BY <2>1, FollowedBy
  <2>6. \A i \in 1..Len(Leaves) : out[i] = Leaves[i]
    BY <2>1, FollowedBy
  <2> QED
    BY <1>2, <2>2, <2>3, <2>4, <2>5, <2>6
<1>4. kind = "modern" => Len(Leaves) = 1 /\ Leaves[1] = "off"
  BY DEF Leaves
<1> HIDE DEF out
<1>5. /\ toShell' \in Seq(Lines) /\ In(toShell) = {line} \cup In(toShell')
      /\ toShell # <<>> /\ misread' \subseteq Lines
  BY <1>1, LineTaken DEF HandshakeInv, HandshakeTypeOK
<1>6. /\ HandshakeTypeOK' /\ MarksAreModern' /\ shell' = who
      /\ toApp' = toApp \o out /\ In(toApp') = In(toApp) \cup In(out)
      /\ UNCHANGED <<kind, timers, gateVars, typed, inside, late, raced>>
  BY <1>1, <1>2, <1>3, <1>5, Printable, ShellMoves
<1>7. BeforeGate'
  BY <1>1, <1>2, <1>3, <1>5, <1>6, Printable DEF HandshakeInv, BeforeGate, gateVars
<1>8. /\ Len(toApp') = Len(toApp) + Len(out) /\ Len(toApp) \in Nat
      /\ toApp' \in Seq(Output)
      /\ \A i \in 1..Len(out) : toApp'[Len(toApp) + i] = out[i]
  <2>1. toApp \in Seq(Output)
    BY DEF HandshakeInv, HandshakeTypeOK
  <2>2. out \in Seq(Output) /\ toApp' = toApp \o out
    BY <1>3, <1>6
  <2> QED
    BY <2>1, <2>2, FollowedBy
<1>9. OnIsOver'
  <2>1. CASE kind = "modern"
    <3> DEFINE i == Len(toApp) + 1
    <3>1. Len(out) = 2 /\ out[1] = "off" /\ out[2] # "on"
      <4>1. Len(Leaves) = 1 /\ Leaves[1] = "off" /\ 1 \in 1..Len(Leaves)
        BY <1>4, <2>1
      <4>2. out[1] = Leaves[1] /\ out[2] = d[1] /\ Len(out) = 2
        BY <1>3, <4>1
      <4> QED
        BY <1>2, <4>1, <4>2
    <3>2. 1 \in 1..Len(out) /\ 2 \in 1..Len(out)
      BY <3>1
    <3>3. toApp'[Len(toApp) + 1] = "off" /\ toApp'[Len(toApp) + 2] # "on"
      BY <1>8, <3>1, <3>2
    <3>4. i \in 1..Len(toApp') /\ toApp'[i] = "off"
      BY <1>8, <3>1, <3>3
    <3>5. \A j \in 1..Len(toApp') : j > i => toApp'[j] # "on"
      <4> SUFFICES ASSUME NEW j \in 1..Len(toApp'), j > i PROVE toApp'[j] # "on"
        OBVIOUS
      <4>1. j = Len(toApp) + 2
        BY <1>8, <3>1
      <4> QED
        BY <3>3, <4>1
    <3> QED
      BY <3>4, <3>5 DEF OnIsOver
  <2>2. CASE kind # "modern"
    BY <1>2, <1>3, <1>6, <2>2, Printable DEF HandshakeInv, MarksAreModern, OnIsOver, timers
  <2> QED
    BY <2>1, <2>2
<1>10. ProgramIsSeen'
  <2>1. /\ Len(out) \in 1..Len(out) /\ out[Len(out)] \in {"alt", "text"}
        /\ Len(toApp') = Len(toApp) + Len(out)
    BY <1>2, <1>3, <1>8
  <2>2. toApp'[Len(toApp')] \in {"alt", "text"} /\ Len(toApp') # 0
    BY <1>8, <2>1
  <2>3. toApp' # <<>>
    BY <2>2
  <2> QED
    BY <1>9, <2>2, <2>3 DEF ProgramIsSeen
<1>11. InTurn'
  <2> SUFFICES ASSUME ~inside, ~late, ~raced PROVE InTurn'
    BY <1>6 DEF InTurn
  <2>1. gate # "holding"
    <3> SUFFICES ASSUME gate = "holding" PROVE FALSE
      OBVIOUS
    <3>1. Bootstrapping
      BY <1>1, <1>5, InTurnFacts DEF Awaited, Sent, Answered
    <3> QED
      BY <1>1, <3>1, BootstrapTaken DEF HandshakeInv
  <2> QED
    BY <1>1, <1>5, <1>6, <2>1, InTurnFacts DEF InTurn, gateVars
<1> QED
  BY <1>6, <1>7, <1>10, <1>11 DEF HandshakeInv

(***************************************************************************)
(* The steps of the client.                                                *)
(***************************************************************************)
(* Unless the sign of readiness was out of date, the bootstrap is written  *)
(* behind newlines only, and is not read by a program: one that runs has   *)
(* stopped the settle timer.                                               *)
LEMMA SettleFiresKeeps ==
  ASSUME HandshakeInv, SettleFires
  PROVE  HandshakeInv'
<1>1. /\ settling /\ gate = "none" /\ ~aborted
      /\ gate' = "holding" /\ toShell' = Append(toShell, "bootstrap")
      /\ settling' = FALSE /\ quiet' = FALSE /\ probing' = FALSE
      /\ UNCHANGED <<shellSide, toApp, ready, probesLeft, aborted, payload, snippet,
                     typed, misread, inside, late>>
      /\ raced' = (raced \/ OutOfDate)
  BY DEF SettleFires, Undecided, Launches, Writes
<1>2. toShell \in Seq(Lines) /\ "bootstrap" \in Lines
  BY DEF HandshakeInv, HandshakeTypeOK, Lines
<1>3. /\ toShell' \in Seq(Lines) /\ toShell' # <<>>
      /\ toShell'[Len(toShell')] = "bootstrap"
      /\ \A i \in 1..Len(toShell') : i < Len(toShell') =>
           i \in 1..Len(toShell) /\ toShell'[i] = toShell[i]
  BY <1>1, <1>2, Appended
<1>4. HandshakeTypeOK'
  BY <1>1, <1>3 DEF HandshakeInv, HandshakeTypeOK, OutOfDate, shellSide
<1>5. BeforeGate' /\ MarksAreModern' /\ ProgramIsSeen'
  BY <1>1 DEF HandshakeInv, BeforeGate, MarksAreModern, ProgramIsSeen, Undecided, shellSide
<1>6. ASSUME ~raced'
      PROVE  Bootstrapping'
  <2>0. toApp = <<>> /\ \A i \in 1..Len(toShell) : toShell[i] # "command"
    <3>1. ~OutOfDate
      BY <1>1, <1>6, Zenon
    <3>2. DOMAIN toShell = 1..Len(toShell)
      BY <1>2
    <3> QED
      BY <3>1, <3>2 DEF OutOfDate
  <2>1. \A i \in 1..Len(toShell) : toShell[i] = "newline"
    BY <1>1, <2>0 DEF HandshakeInv, BeforeGate, In
  <2>2. shell \in {"booting", "editing"}
    BY <1>1, <2>0 DEF HandshakeInv, HandshakeTypeOK, BeforeGate, ProgramIsSeen, Undecided
  <2>3. In(toApp) = {} /\ ~payload
    BY <1>1, <2>0 DEF HandshakeInv, BeforeGate, In
  <2>4. toApp' = toApp /\ payload' = payload /\ shell' = shell
    BY <1>1 DEF shellSide
  <2>5. \A i \in 1..Len(toShell') : i < Len(toShell') => toShell'[i] = "newline"
    BY <1>3, <2>1
  <2> QED
    BY <1>3, <2>2, <2>3, <2>4, <2>5 DEF Bootstrapping
<1>7. InTurn'
  <2>1. misread' = {}
    BY <1>1 DEF HandshakeInv, BeforeGate
  <2> QED
    BY <1>1, <1>6, <2>1 DEF InTurn
<1> QED
  BY <1>4, <1>5, <1>7 DEF HandshakeInv

(* A step of the timers that writes at most a newline, and not while the   *)
(* gate holds.                                                             *)
LEMMA TimerKeeps ==
  ASSUME HandshakeInv,
         toShell' = toShell \/ (gate = "none" /\ toShell' = Append(toShell, "newline")),
         quiet' \in BOOLEAN, probing' \in BOOLEAN, probesLeft' \in 0..MaxProbes,
         aborted' \in BOOLEAN, aborted => aborted',
         UNCHANGED <<shellSide, toApp, ready, settling, gate, payload, snippet, typed, history>>
  PROVE  HandshakeInv'
<1>1. toShell \in Seq(Lines) /\ "newline" \in Lines
  BY DEF HandshakeInv, HandshakeTypeOK, Lines
<1>2. /\ toShell' \in Seq(Lines)
      /\ gate # "none" => toShell' = toShell
      /\ In(toShell') \subseteq In(toShell) \cup {"newline"}
  <2>1. CASE toShell' = toShell
    BY <1>1, <2>1
  <2>2. CASE gate = "none" /\ toShell' = Append(toShell, "newline")
    BY <1>1, <2>2, Appended
  <2> QED
    BY <2>1, <2>2
<1>3. HandshakeTypeOK'
  BY <1>2 DEF HandshakeInv, HandshakeTypeOK, shellSide, history
<1>4. BeforeGate' /\ MarksAreModern'
  BY <1>2 DEF HandshakeInv, BeforeGate, MarksAreModern, shellSide, history
<1>5. ProgramIsSeen'
  BY DEF HandshakeInv, ProgramIsSeen, OnIsOver, Undecided, shellSide
<1>6. InTurn'
  <2> SUFFICES ASSUME ~inside, ~late, ~raced PROVE InTurn'
    BY DEF InTurn, history
  <2>1. CASE gate = "none"
    BY <2>1, InTurnFacts DEF InTurn, history
  <2>2. CASE gate # "none"
    BY <1>2, <2>2, InTurnFacts
       DEF InTurn, Bootstrapping, Awaited, Sent, Answered, shellSide, history
  <2> QED
    BY <2>1, <2>2
<1> QED
  BY <1>3, <1>4, <1>5, <1>6 DEF HandshakeInv

LEMMA QuietFiresKeeps ==
  ASSUME HandshakeInv, QuietFires
  PROVE  HandshakeInv'
<1> USE HandshakeAssumption
<1>1. probesLeft \in 0..MaxProbes /\ aborted \in BOOLEAN /\ probing \in BOOLEAN
  BY DEF HandshakeInv, HandshakeTypeOK
<1>2. /\ quiet' = FALSE
      /\ UNCHANGED <<shellSide, toApp, ready, settling, gate, payload, snippet, typed, history>>
  BY DEF QuietFires
<1>3. CASE ~Undecided \/ ready # "never"
  BY <1>1, <1>2, <1>3, TimerKeeps DEF QuietFires
<1>4. CASE Undecided /\ ready = "never" /\ probesLeft = 0
  <2>1. aborted' = TRUE /\ UNCHANGED <<toShell, probing, probesLeft>>
    BY <1>4 DEF QuietFires
  <2> QED
    BY <1>1, <1>2, <2>1, TimerKeeps
<1>5. CASE Undecided /\ ready = "never" /\ probesLeft # 0
  <2>1. /\ probesLeft' = probesLeft - 1 /\ probing' = TRUE
        /\ toShell' = Append(toShell, "newline") /\ aborted' = aborted
    BY <1>5 DEF QuietFires, Writes
  <2>2. gate = "none" /\ probesLeft' \in 0..MaxProbes
    BY <1>1, <1>5, <2>1 DEF Undecided
  <2> QED
    BY <1>1, <1>2, <2>1, <2>2, TimerKeeps
<1> QED
  BY <1>3, <1>4, <1>5

LEMMA ProbeWindowKeeps ==
  ASSUME HandshakeInv, ProbeWindowEnds
  PROVE  HandshakeInv'
<1>1. /\ probesLeft \in 0..MaxProbes /\ aborted \in BOOLEAN /\ quiet \in BOOLEAN
  BY DEF HandshakeInv, HandshakeTypeOK
<1>2. /\ probing' = FALSE /\ quiet' \in BOOLEAN
      /\ UNCHANGED <<shellSide, toShell, toApp, ready, settling, probesLeft, gateVars,
                     typed, history>>
  BY <1>1 DEF ProbeWindowEnds, Undecided
<1> QED
  BY <1>1, <1>2, TimerKeeps DEF gateVars

(* After the timeout nothing is promised of what is read.                  *)
LEMMA DoneTimerKeeps ==
  ASSUME HandshakeInv, DoneTimerFires
  PROVE  HandshakeInv'
<1>1. /\ gate' = "open" /\ late' = TRUE
      /\ UNCHANGED <<shellSide, toShell, toApp, timers, aborted, payload, snippet, typed,
                     misread, inside, raced>>
  BY DEF DoneTimerFires
<1>2. HandshakeTypeOK'
  BY <1>1 DEF HandshakeInv, HandshakeTypeOK, shellSide, timers
<1>3. BeforeGate' /\ ProgramIsSeen' /\ InTurn'
  BY <1>1 DEF BeforeGate, ProgramIsSeen, Undecided, InTurn
<1>4. MarksAreModern'
  BY <1>1 DEF HandshakeInv, MarksAreModern, shellSide, timers
<1> QED
  BY <1>2, <1>3, <1>4 DEF HandshakeInv

(* The first of the output on its way.                                     *)
LEMMA OutputReceived ==
  ASSUME HandshakeTypeOK, NEW out, Receives(out)
  PROVE  /\ out \in Output /\ toApp \in Seq(Output) /\ toApp' \in Seq(Output)
         /\ In(toApp) = {out} \cup In(toApp')
         /\ toApp # <<>> /\ out = toApp[1]
         /\ Len(toApp) \in Nat \ {0} /\ Len(toApp') = Len(toApp) - 1
         /\ \A i \in 1..(Len(toApp) - 1) : toApp'[i] = toApp[i + 1]
         /\ Len(toApp) = 1 => toApp' = <<>>
         /\ Len(toApp) # 1 => toApp' # <<>>
<1>1. toApp # <<>> /\ out = Head(toApp) /\ toApp' = Tail(toApp) /\ toApp \in Seq(Output)
  BY DEF Receives, HandshakeTypeOK
<1> QED
  BY <1>1, TakenFirst

(* onChunk: the last output of a program leaves the settle timer stopped.  *)
LEMMA ReadinessSeenKeeps ==
  ASSUME HandshakeInv, NEW out \in Output, ReadinessSeen(out)
  PROVE  HandshakeInv'
<1>1. /\ gate = "none" /\ ~aborted /\ out # "alt" /\ Receives(out)
      /\ ready' = IF out \in {"on", "off"} THEN out ELSE ready
      /\ settling' = (ready' = "on" \/ (probing /\ ready' = "never" /\ out = "prompt"))
      /\ quiet' = (quiet \/ (ready' = "never" /\ ~probing))
      /\ UNCHANGED <<shellSide, toShell, probing, probesLeft, gateVars, typed, history>>
  BY DEF ReadinessSeen, Undecided
<1>2. /\ toApp \in Seq(Output) /\ toApp' \in Seq(Output)
      /\ In(toApp) = {out} \cup In(toApp')
      /\ toApp # <<>> /\ out = toApp[1]
      /\ Len(toApp) \in Nat \ {0} /\ Len(toApp') = Len(toApp) - 1
      /\ \A i \in 1..(Len(toApp) - 1) : toApp'[i] = toApp[i + 1]
      /\ Len(toApp) = 1 => toApp' = <<>>
      /\ Len(toApp) # 1 => toApp' # <<>>
  BY <1>1, OutputReceived DEF HandshakeInv
<1>3. HandshakeTypeOK'
  <2>1. /\ ready' \in {"never", "on", "off"} /\ settling' \in BOOLEAN /\ quiet' \in BOOLEAN
    BY <1>1 DEF HandshakeInv, HandshakeTypeOK
  <2> QED
    BY <1>1, <1>2, <2>1 DEF HandshakeInv, HandshakeTypeOK, shellSide, gateVars, history
<1>4. BeforeGate' /\ MarksAreModern'
  BY <1>1, <1>2 DEF HandshakeInv, BeforeGate, MarksAreModern, shellSide, gateVars, history
<1>5. InTurn'
  <2>1. gate' = "none" /\ misread' = {}
    BY <1>1 DEF HandshakeInv, BeforeGate, gateVars, history
  <2> QED
    BY <2>1 DEF InTurn
<1>6. ProgramIsSeen'
  <2> SUFFICES ASSUME shell \in {"command", "fullscreen"} PROVE ProgramIsSeen'
    BY <1>1 DEF ProgramIsSeen, shellSide
  <2>1. OnIsOver /\ toApp[Len(toApp)] \in {"text", "alt"}
    BY <1>1, <1>2 DEF HandshakeInv, ProgramIsSeen, Undecided
  <2>2. OnIsOver'
    <3>1. CASE ready # "on" /\ "on" \notin In(toApp)
      BY <1>1, <1>2, <3>1 DEF OnIsOver
    <3>2. CASE \E i \in 1..Len(toApp) :
                 toApp[i] = "off" /\ \A j \in 1..Len(toApp) : j > i => toApp[j] # "on"
      <4>1. PICK i \in 1..Len(toApp) :
              toApp[i] = "off" /\ \A j \in 1..Len(toApp) : j > i => toApp[j] # "on"
        BY <3>2
      <4>2. \A j \in 1..Len(toApp') : j + 1 \in 1..Len(toApp) /\ toApp'[j] = toApp[j + 1]
        BY <1>2
      <4>3. CASE i = 1
        <5>1. ready' = "off"
          BY <1>1, <1>2, <4>1, <4>3
        <5>2. \A j \in 1..Len(toApp') : toApp'[j] # "on"
          BY <1>2, <4>1, <4>2, <4>3
        <5>3. "on" \notin In(toApp')
          BY <5>2 DEF In
        <5> QED
          BY <5>1, <5>3 DEF OnIsOver
      <4>4. CASE i # 1
        <5> DEFINE k == i - 1
        <5>1. k \in 1..Len(toApp') /\ k + 1 = i
          BY <1>2, <4>4
        <5> HIDE DEF k
        <5>2. toApp'[k] = "off"
          BY <4>1, <4>2, <5>1
        <5>3. \A j \in 1..Len(toApp') : j > k => toApp'[j] # "on"
          BY <1>2, <4>1, <4>2, <5>1
        <5> QED
          BY <5>1, <5>2, <5>3 DEF OnIsOver
      <4> QED
        BY <4>3, <4>4
    <3> QED
      BY <2>1, <3>1, <3>2 DEF OnIsOver
  <2>3. toApp' = <<>> => ~settling'
    <3> SUFFICES ASSUME toApp' = <<>> PROVE ~settling'
      OBVIOUS
    <3>1. out = "text"
      BY <1>1, <1>2, <2>1
    <3>2. ready' # "on"
      BY <2>2 DEF OnIsOver
    <3> QED
      BY <1>1, <3>1, <3>2
  <2>4. toApp' # <<>> => toApp'[Len(toApp')] \in {"text", "alt"}
    <3> SUFFICES ASSUME toApp' # <<>> PROVE toApp'[Len(toApp')] \in {"text", "alt"}
      OBVIOUS
    <3>1. Len(toApp) - 1 \in 1..(Len(toApp) - 1) /\ (Len(toApp) - 1) + 1 = Len(toApp)
      BY <1>2
    <3>2. toApp'[Len(toApp) - 1] = toApp[(Len(toApp) - 1) + 1]
      BY <1>2, <3>1
    <3> QED
      BY <1>2, <2>1, <3>1, <3>2
  <2> QED
    BY <2>2, <2>3, <2>4 DEF ProgramIsSeen
<1> QED
  BY <1>3, <1>4, <1>5, <1>6 DEF HandshakeInv

(* A full-screen program took the screen first: there is no injection.     *)
LEMMA ScreenTakenKeeps ==
  ASSUME HandshakeInv, ScreenTaken
  PROVE  HandshakeInv'
<1>1. /\ gate = "none" /\ aborted' = TRUE /\ Receives("alt")
      /\ settling' = FALSE /\ quiet' = FALSE /\ probing' = FALSE
      /\ UNCHANGED <<ready, probesLeft>>
      /\ UNCHANGED <<shellSide, toShell, gate, payload, snippet, typed, history>>
  BY DEF ScreenTaken, Undecided, Aborts, TimersCancelled
<1>2. toApp' \in Seq(Output) /\ In(toApp') \subseteq In(toApp)
  BY <1>1, OutputReceived DEF HandshakeInv
<1>3. HandshakeTypeOK'
  BY <1>1, <1>2 DEF HandshakeInv, HandshakeTypeOK, shellSide, history
<1>4. BeforeGate' /\ MarksAreModern'
  BY <1>1, <1>2 DEF HandshakeInv, BeforeGate, MarksAreModern, shellSide, history
<1>5. ProgramIsSeen'
  BY <1>1 DEF ProgramIsSeen, Undecided
<1>6. InTurn'
  BY <1>1 DEF HandshakeInv, BeforeGate, InTurn, history
<1> QED
  BY <1>3, <1>4, <1>5, <1>6 DEF HandshakeInv

(* RDY: the read waits, and the payload goes out once.                     *)
LEMMA ReadySeenKeeps ==
  ASSUME HandshakeInv, ReadySeen
  PROVE  HandshakeInv'
<1>1. /\ gate = "holding" /\ Receives("RDY")
      /\ payload => payload' = payload /\ toShell' = toShell
      /\ ~payload => payload' = TRUE /\ toShell' = Append(toShell, "payload")
      /\ UNCHANGED <<shellSide, timers, aborted, gate, snippet, typed, history>>
  BY DEF ReadySeen, Writes
<1>2. toApp' \in Seq(Output) /\ In(toApp) = {"RDY"} \cup In(toApp')
  BY <1>1, OutputReceived DEF HandshakeInv
<1>3. toShell \in Seq(Lines) /\ "payload" \in Lines
  BY DEF HandshakeInv, HandshakeTypeOK, Lines
<1>4. toShell' \in Seq(Lines)
  BY <1>1, <1>3, Appended
<1>5. payload' \in BOOLEAN
  BY <1>1 DEF HandshakeInv, HandshakeTypeOK
<1>6. HandshakeTypeOK'
  BY <1>1, <1>2, <1>4, <1>5
     DEF HandshakeInv, HandshakeTypeOK, shellSide, timers, history
<1>7. BeforeGate' /\ MarksAreModern' /\ ProgramIsSeen'
  BY <1>1, <1>2 DEF HandshakeInv, BeforeGate, MarksAreModern, ProgramIsSeen, Undecided,
                    shellSide, timers
<1>8. InTurn'
  <2> SUFFICES ASSUME ~inside, ~late, ~raced PROVE InTurn'
    BY <1>1 DEF InTurn, history
  <2>1. Awaited \/ Sent \/ Answered
    BY <1>1, <1>2, InTurnFacts DEF Bootstrapping
  <2>2. CASE Awaited
    <3>1. toShell' = <<"payload">> /\ payload'
      BY <1>1, <2>2 DEF Awaited
    <3>2. Sent'
      BY <1>1, <1>2, <2>2, <3>1 DEF Awaited, Sent, shellSide
    <3> QED
      BY <1>1, <3>2, InTurnFacts DEF InTurn, history
  <2>3. CASE Sent
    <3>1. Sent'
      BY <1>1, <1>2, <2>3 DEF Sent, shellSide
    <3> QED
      BY <1>1, <3>1, InTurnFacts DEF InTurn, history
  <2>4. CASE Answered
    <3>1. Answered'
      BY <1>1, <1>2, <2>4 DEF Answered, shellSide
    <3> QED
      BY <1>1, <3>1, InTurnFacts DEF InTurn, history
  <2> QED
    BY <2>1, <2>2, <2>3, <2>4
<1> QED
  BY <1>6, <1>7, <1>8 DEF HandshakeInv

(* DONE: nothing of the handshake is on its way any more.                  *)
LEMMA DoneSeenKeeps ==
  ASSUME HandshakeInv, DoneSeen
  PROVE  HandshakeInv'
<1>1. /\ gate = "holding" /\ Receives("DONE") /\ gate' = "open" /\ snippet' = TRUE
      /\ toShell' = Append(toShell, "snippet") \/ toShell' = toShell
      /\ UNCHANGED <<shellSide, timers, aborted, payload, typed, history>>
  BY DEF DoneSeen, Writes
<1>2. toApp' \in Seq(Output) /\ In(toApp) = {"DONE"} \cup In(toApp')
  BY <1>1, OutputReceived DEF HandshakeInv
<1>3. toShell \in Seq(Lines) /\ "snippet" \in Lines
  BY DEF HandshakeInv, HandshakeTypeOK, Lines
<1>4. toShell' \in Seq(Lines) /\ In(toShell') \subseteq In(toShell) \cup {"snippet"}
  <2>1. CASE toShell' = Append(toShell, "snippet")
    BY <1>3, <2>1, Appended
  <2>2. CASE toShell' = toShell
    BY <1>3, <2>2
  <2> QED
    BY <1>1, <2>1, <2>2
<1>5. HandshakeTypeOK'
  BY <1>1, <1>2, <1>4 DEF HandshakeInv, HandshakeTypeOK, shellSide, timers, history
<1>6. BeforeGate' /\ MarksAreModern' /\ ProgramIsSeen'
  BY <1>1, <1>2 DEF HandshakeInv, BeforeGate, MarksAreModern, ProgramIsSeen, Undecided,
                    shellSide, timers
<1>7. InTurn'
  <2> SUFFICES ASSUME ~inside, ~late, ~raced PROVE InTurn'
    BY <1>1 DEF InTurn, history
  <2>1. Answered
    BY <1>1, <1>2, InTurnFacts DEF Bootstrapping, Awaited, Sent
  <2>2. shell = "editing" /\ In(toShell) = {}
    BY <2>1 DEF Answered, In
  <2> QED
    BY <1>1, <1>4, <2>2, InTurnFacts DEF InTurn, shellSide, history
<1> QED
  BY <1>5, <1>6, <1>7 DEF HandshakeInv

(* All other output is shown or withheld, and answered by nothing.         *)
LEMMA OtherwiseKeeps ==
  ASSUME HandshakeInv, NEW out \in Output, Otherwise(out)
  PROVE  HandshakeInv'
<1>1. /\ ~Undecided /\ Receives(out)
      /\ UNCHANGED <<shellSide, toShell, timers, gateVars, typed, history>>
  BY DEF Otherwise
<1>2. toApp' \in Seq(Output) /\ In(toApp') \subseteq In(toApp)
  BY <1>1, OutputReceived DEF HandshakeInv
<1>3. HandshakeTypeOK'
  BY <1>1, <1>2 DEF HandshakeInv, HandshakeTypeOK, shellSide, timers, gateVars, history
<1>4. BeforeGate' /\ MarksAreModern'
  BY <1>1, <1>2 DEF HandshakeInv, BeforeGate, MarksAreModern, shellSide, timers, gateVars,
                    history
<1>5. ProgramIsSeen'
  BY <1>1 DEF ProgramIsSeen, Undecided, gateVars
<1>6. InTurn'
  <2> SUFFICES ASSUME ~inside, ~late, ~raced PROVE InTurn'
    BY <1>1 DEF InTurn, history
  <2>1. /\ Bootstrapping => Bootstrapping'
        /\ Awaited => Awaited'
        /\ Sent => Sent'
        /\ Answered => Answered'
    BY <1>1, <1>2 DEF Bootstrapping, Awaited, Sent, Answered, shellSide, gateVars
  <2> QED
    BY <1>1, <2>1, InTurnFacts DEF InTurn, shellSide, gateVars, history
<1> QED
  BY <1>3, <1>4, <1>5, <1>6 DEF HandshakeInv

(* A keystroke before the handshake calls it off; one while the gate holds *)
(* is the user's who typed inside.                                         *)
LEMMA UserTypesKeeps ==
  ASSUME HandshakeInv, UserTypes
  PROVE  HandshakeInv'
<1> USE HandshakeAssumption
<1>1. /\ typed < MaxInput /\ typed' = typed + 1
      /\ toShell' = Append(toShell, "user")
      /\ inside' = (inside \/ gate = "holding")
      /\ Undecided => /\ aborted' = TRUE
                      /\ settling' = FALSE /\ quiet' = FALSE /\ probing' = FALSE
                      /\ ready' = ready /\ probesLeft' = probesLeft
      /\ ~Undecided => UNCHANGED <<aborted, timers>>
      /\ UNCHANGED <<shellSide, toApp, gate, payload, snippet, misread, late, raced>>
  BY DEF UserTypes, Writes, Aborts, TimersCancelled
<1>2. toShell \in Seq(Lines) /\ "user" \in Lines
  BY DEF HandshakeInv, HandshakeTypeOK, Lines
<1>3. toShell' \in Seq(Lines) /\ In(toShell') = In(toShell) \cup {"user"}
  BY <1>1, <1>2, Appended
<1>4. /\ settling' \in BOOLEAN /\ quiet' \in BOOLEAN /\ probing' \in BOOLEAN
      /\ ready' = ready /\ probesLeft' = probesLeft /\ aborted' \in BOOLEAN
      /\ inside' \in BOOLEAN
  <2>1. CASE Undecided
    BY <1>1, <2>1 DEF HandshakeInv, HandshakeTypeOK
  <2>2. CASE ~Undecided
    BY <1>1, <2>2 DEF HandshakeInv, HandshakeTypeOK, timers
  <2> QED
    BY <2>1, <2>2
<1>5. typed' \in 0..MaxInput
  BY <1>1 DEF HandshakeInv, HandshakeTypeOK
<1>6. HandshakeTypeOK'
  BY <1>1, <1>3, <1>4, <1>5 DEF HandshakeInv, HandshakeTypeOK, shellSide
<1>7. gate = "none" => aborted'
  BY <1>1 DEF Undecided
<1>8. BeforeGate'
  BY <1>1, <1>3, <1>7 DEF HandshakeInv, BeforeGate, shellSide
<1>9. MarksAreModern'
  BY <1>1, <1>4 DEF HandshakeInv, MarksAreModern, shellSide
<1>10. ProgramIsSeen'
  BY <1>1, <1>7 DEF ProgramIsSeen, Undecided
<1>11. InTurn'
  <2> SUFFICES ASSUME ~inside, ~late, ~raced, gate # "holding" PROVE InTurn'
    BY <1>1 DEF InTurn
  <2> QED
    BY <1>1, <1>3, InTurnFacts DEF InTurn, shellSide
<1> QED
  BY <1>6, <1>8, <1>9, <1>10, <1>11 DEF HandshakeInv

(***************************************************************************)
(* The theorems.                                                           *)
(***************************************************************************)
LEMMA InitHandshake == HandshakeInit => HandshakeInv
<1> USE HandshakeAssumption
<1> SUFFICES ASSUME HandshakeInit PROVE HandshakeInv
  OBVIOUS
<1>1. /\ <<>> \in Seq(Lines) /\ <<>> \in Seq(Output) /\ In(<<>>) = {}
  BY DEF In
<1>2. <<"command">> \in Seq(Lines) /\ In(<<"command">>) = {"command"}
  <2>1. "command" \in Lines
    BY DEF Lines
  <2> QED
    BY <2>1, Alone
<1>3. toShell \in Seq(Lines) /\ In(toShell) \subseteq {"command"} /\ toApp = <<>>
  BY <1>1, <1>2 DEF HandshakeInit
<1>4. HandshakeTypeOK
  <2>1. toShell \in Seq(Lines) /\ toApp \in Seq(Output)
    BY <1>1, <1>3
  <2>2. probesLeft \in 0..MaxProbes /\ typed \in 0..MaxInput /\ misread \subseteq Lines
    BY DEF HandshakeInit
  <2>3. /\ kind \in {"modern", "old", "other"} /\ shell = "booting" /\ ready = "never"
        /\ gate = "none" /\ settling = FALSE /\ quiet = TRUE /\ probing = FALSE
        /\ aborted = FALSE /\ payload = FALSE /\ snippet = FALSE
        /\ inside = FALSE /\ late = FALSE /\ raced = FALSE
    BY DEF HandshakeInit
  <2> QED
    BY <2>1, <2>2, <2>3 DEF HandshakeTypeOK
<1>5. BeforeGate /\ MarksAreModern
  BY <1>1, <1>3 DEF HandshakeInit, BeforeGate, MarksAreModern
<1>6. ProgramIsSeen /\ InTurn
  BY DEF HandshakeInit, ProgramIsSeen, InTurn
<1> QED
  BY <1>4, <1>5, <1>6 DEF HandshakeInv

LEMMA HandshakeStep == HandshakeInv /\ [HandshakeNext]_handshakeVars => HandshakeInv'
<1> SUFFICES ASSUME HandshakeInv, [HandshakeNext]_handshakeVars PROVE HandshakeInv'
  OBVIOUS
<1>1. CASE Banner("text") \/ Banner("prompt")
  BY <1>1, BannerKeeps
<1>2. CASE EditorStarts
  BY <1>2, EditorStartsKeeps
<1>3. CASE EditorAnswers
  BY <1>3, EditorAnswersKeeps
<1>4. CASE EditorBootstraps
  BY <1>4, EditorBootstrapsKeeps
<1>5. CASE EditorEchoes
  BY <1>5, EditorEchoesKeeps
<1>6. ASSUME NEW line \in Lines, ReadTakes(line) PROVE HandshakeInv'
  BY <1>6, ReadTakesKeeps
<1>7. ASSUME NEW line \in Lines, ProgramReads(line) PROVE HandshakeInv'
  BY <1>7, ProgramReadsKeeps
<1>8. ASSUME NEW line \in Lines, EditorRuns(line, "command") \/ EditorRuns(line, "fullscreen")
      PROVE  HandshakeInv'
  BY <1>8, EditorRunsKeeps
<1>9. CASE SettleFires
  BY <1>9, SettleFiresKeeps
<1>10. CASE QuietFires
  BY <1>10, QuietFiresKeeps
<1>11. CASE ProbeWindowEnds
  BY <1>11, ProbeWindowKeeps
<1>12. CASE DoneTimerFires
  BY <1>12, DoneTimerKeeps
<1>13. ASSUME NEW out \in Output, ReadinessSeen(out) PROVE HandshakeInv'
  BY <1>13, ReadinessSeenKeeps
<1>14. ASSUME NEW out \in Output, Otherwise(out) PROVE HandshakeInv'
  BY <1>14, OtherwiseKeeps
<1>15. CASE ScreenTaken
  BY <1>15, ScreenTakenKeeps
<1>16. CASE ReadySeen
  BY <1>16, ReadySeenKeeps
<1>17. CASE DoneSeen
  BY <1>17, DoneSeenKeeps
<1>18. CASE UserTypes
  BY <1>18, UserTypesKeeps
<1>19. CASE UNCHANGED handshakeVars
  <2>1. /\ quiet \in BOOLEAN /\ probing \in BOOLEAN /\ probesLeft \in 0..MaxProbes
        /\ aborted \in BOOLEAN
    BY DEF HandshakeInv, HandshakeTypeOK
  <2>2. /\ UNCHANGED <<toShell, quiet, probing, probesLeft, aborted>>
        /\ UNCHANGED <<shellSide, toApp, ready, settling, gate, payload, snippet, typed,
                       history>>
    BY <1>19 DEF handshakeVars, timers, gateVars
  <2> QED
    BY <2>1, <2>2, TimerKeeps
<1> QED
  BY <1>1, <1>2, <1>3, <1>4, <1>5, <1>6, <1>7, <1>8, <1>9, <1>10, <1>11, <1>12, <1>13,
     <1>14, <1>15, <1>16, <1>17, <1>18, <1>19 DEF HandshakeNext

LEMMA HandshakeInvariant == HandshakeSpec => []HandshakeInv
  BY InitHandshake, HandshakeStep, PTL DEF HandshakeSpec

(* HandshakeTypeOK: in particular no probe is sent without one left.       *)
THEOREM HandshakeTypeCorrect == HandshakeSpec => []HandshakeTypeOK
<1>1. HandshakeInv => HandshakeTypeOK
  BY DEF HandshakeInv
<1> QED
  BY <1>1, HandshakeInvariant, PTL

(* ReadByWhomMeant: a bootstrap line is read by a line editor and its      *)
(* payload by the read it started, unless the user typed while the gate    *)
(* held, the gate was opened by its timeout, or the settle timer fired     *)
(* with the initial command or output still on its way.                    *)
THEOREM InjectionReadByWhomMeant == HandshakeSpec => []ReadByWhomMeant
<1>1. HandshakeInv => ReadByWhomMeant
  BY DEF HandshakeInv, InTurn, ReadByWhomMeant
<1> QED
  BY <1>1, HandshakeInvariant, PTL
=============================================================================
