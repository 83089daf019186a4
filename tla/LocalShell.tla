----------------------------- MODULE LocalShell -----------------------------
(***************************************************************************)
(* Local terminals: LocalShellService on the Dart side, flutter_pty below  *)
(* it.  Each pty has a child process and two native threads: one reads the *)
(* pty and posts chunks to the isolate, one waits for the exit of the      *)
(* child and posts its code.  All that is posted waits in one queue of the *)
(* isolate, in order.                                                      *)
(*                                                                         *)
(* The isolate also is the UI thread, and pty_write blocks it while the    *)
(* kernel takes no more input.  The parent keeps the slave side open       *)
(* (pty_forkpty): a read never ends and a write never fails when the child *)
(* is gone.  Input and output are counted in units of a kernel buffer that *)
(* holds one; a write takes two.                                           *)
(***************************************************************************)
EXTENDS Dart, Naturals, Sequences, FiniteSets

CONSTANTS
  Tabs,  (* LocalSession objects                                           *)
  Ptys   (* Pty objects; bounds the number of spawns                       *)

ASSUME ShellAssumption == None \notin Tabs \cup Ptys

VARIABLES
  ackRead,   (* PtyOptions.ackRead, the same for all; the app leaves it off *)
  tabStatus, (* LocalSession.status; "none" before, "closed" after         *)
  tabPty,    (* LocalSession._pty                                          *)
  owner,     (* the session whose _spawnPty made the pty, None if unused   *)
  proc,      (* the child process                                          *)
  emitting,  (* children that must write output before they read again     *)
  input,     (* units of input the child has not read                      *)
  output,    (* units of output the read thread has not read               *)
  reader,    (* read_loop                                                  *)
  locked,    (* PtyHandle.mutex                                            *)
  unacked,   (* chunks posted for which no pty_ack_read was called         *)
  mail,      (* the message queue of the isolate                           *)
  portOpen,  (* _stdoutPort and _exitPort                                  *)
  writing    (* the pty_write that blocks the UI thread, or None           *)

tabVars   == <<tabStatus, tabPty, owner>>
childVars == <<proc, emitting, input, output>>
shellVars == <<ackRead, tabVars, childVars, reader, locked, unacked, mail,
               portOpen, writing>>

Messages == Ptys \X {"data", "exit"}

ShellTypeOK ==
  /\ ackRead   \in BOOLEAN
  /\ tabStatus \in [Tabs -> {"none", "running", "exited", "error", "closed"}]
  /\ tabPty    \in [Tabs -> Ptys \cup {None}]
  /\ owner     \in [Ptys -> Tabs \cup {None}]
  /\ proc      \in [Ptys -> {"none", "alive", "zombie", "reaped"}]
  /\ emitting  \subseteq Ptys
  /\ input     \in [Ptys -> 0..1]
  /\ output    \in [Ptys -> 0..1]
  /\ reader    \in [Ptys -> {"off", "lock", "read", "post"}]
  /\ locked    \subseteq Ptys
  /\ unacked   \in [Ptys -> 0..2]
  /\ mail      \in Seq(Messages)
  /\ portOpen  \subseteq Ptys
  /\ writing   \in [pty : Ptys, left : 1..2] \cup {None}

ShellInit ==
  /\ ackRead   \in BOOLEAN
  /\ tabStatus = [t \in Tabs |-> "none"]
  /\ tabPty    = [t \in Tabs |-> None]
  /\ owner     = [p \in Ptys |-> None]
  /\ proc      = [p \in Ptys |-> "none"]
  /\ emitting  = {}
  /\ input     = [p \in Ptys |-> 0]
  /\ output    = [p \in Ptys |-> 0]
  /\ reader    = [p \in Ptys |-> "off"]
  /\ locked    = {}
  /\ unacked   = [p \in Ptys |-> 0]
  /\ mail      = <<>>
  /\ portOpen  = {}
  /\ writing   = None

UiFree == writing = None

(* The queue, two data messages of one pty in a row counted as one.        *)
Posted(m) == IF mail # <<>> /\ mail[Len(mail)] = m THEN mail ELSE Append(mail, m)

(***************************************************************************)
(* The UI thread: LocalShellService and Pty                                *)
(***************************************************************************)
(* _spawnPty, Pty.start, pty_create: both threads run from here.  A child  *)
(* whose execvp fails is a process like any other for the parent.          *)
Spawn(t) ==
  LET unused == {q \in Ptys : owner[q] = None}
      p      == CHOOSE q \in unused : TRUE
  IN
    /\ unused # {}
    /\ owner'     = [owner EXCEPT ![p] = t]
    /\ tabPty'    = [tabPty EXCEPT ![t] = p]
    /\ tabStatus' = [tabStatus EXCEPT ![t] = "running"]
    /\ proc'      = [proc EXCEPT ![p] = "alive"]
    /\ reader'    = [reader EXCEPT ![p] = "lock"]
    /\ portOpen'  = portOpen \cup {p}
    /\ UNCHANGED <<ackRead, emitting, input, output, locked, unacked, mail, writing>>

SpawnFailsSilently(t) ==  (* mutant: the exception is swallowed *)
  /\ tabStatus' = [tabStatus EXCEPT ![t] = "running"]
  /\ UNCHANGED <<ackRead, tabPty, owner, childVars, reader, locked, unacked, mail,
                 portOpen, writing>>

(* pty_forkpty fails: pty_create returns NULL and Pty.start throws.        *)
SpawnFails(t) ==
  /\ tabStatus' = [tabStatus EXCEPT ![t] = "error"]
  /\ UNCHANGED <<ackRead, tabPty, owner, childVars, reader, locked, unacked, mail,
                 portOpen, writing>>

OpenShell(t) ==
  /\ UiFree /\ tabStatus[t] = "none"
  /\ Spawn(t) \/ SpawnFails(t)

RestartAnyShell(t) ==  (* mutant: no look at the status *)
  /\ UiFree /\ tabStatus[t] \in {"running", "exited", "error"}
  /\ Spawn(t) \/ SpawnFails(t)

RestartShell(t) ==
  /\ UiFree /\ tabStatus[t] \in {"exited", "error"}
  /\ Spawn(t) \/ SpawnFails(t)

(* closeSession: SIGTERM, which a shell may ignore.                        *)
CloseShellTab(t) ==
  /\ UiFree /\ tabStatus[t] \in {"running", "exited", "error"}
  /\ tabStatus' = [tabStatus EXCEPT ![t] = "closed"]
  /\ \/ /\ tabPty[t] # None /\ proc[tabPty[t]] = "alive"
        /\ proc' = [proc EXCEPT ![tabPty[t]] = "zombie"]
     \/ UNCHANGED proc
  /\ UNCHANGED <<ackRead, tabPty, owner, emitting, input, output, reader, locked,
                 unacked, mail, portOpen, writing>>

(* terminal.onOutput, Pty.write, pty_write.                                *)
WriteInput(t) ==
  /\ UiFree /\ tabStatus[t] = "running"
  /\ writing' = [pty |-> tabPty[t], left |-> 2]
  /\ UNCHANGED <<ackRead, tabVars, childVars, reader, locked, unacked, mail, portOpen>>

WriteGoesOn ==
  /\ writing # None
  /\ input[writing.pty] = 0
  /\ input'   = [input EXCEPT ![writing.pty] = 1]
  /\ writing' = IF writing.left = 1 THEN None ELSE [writing EXCEPT !.left = 1]
  /\ UNCHANGED <<ackRead, tabVars, proc, emitting, output, reader, locked, unacked,
                 mail, portOpen>>

(* A chunk reaches the terminal; in ack mode it is acknowledged then.      *)
DeliverOutput ==
  /\ UiFree /\ mail # <<>> /\ Head(mail)[2] = "data"
  /\ LET p == Head(mail)[1] IN
       IF ackRead /\ p \in portOpen
       THEN /\ locked'  = locked \ {p}
            /\ unacked' = [unacked EXCEPT ![p] = 0]
       ELSE UNCHANGED <<locked, unacked>>
  /\ mail' = Tail(mail)
  /\ UNCHANGED <<ackRead, tabVars, childVars, reader, portOpen, writing>>

(* _onExitCode, then the exitCode handler of _spawnPty.                    *)
DeliverExit(p) ==
  /\ UiFree /\ mail # <<>> /\ Head(mail) = <<p, "exit">>
  /\ portOpen'  = portOpen \ {p}
  /\ tabStatus' = IF tabStatus[owner[p]] = "closed" THEN tabStatus
                  ELSE [tabStatus EXCEPT ![owner[p]] = "exited"]
  /\ mail' = Tail(mail)
  /\ UNCHANGED <<ackRead, tabPty, owner, childVars, reader, locked, unacked, writing>>

(***************************************************************************)
(* The native threads                                                      *)
(***************************************************************************)
(* read_loop: in ack mode the mutex is free again after pty_ack_read.      *)
ReaderGoesOn(p) ==  (* mutant: no lock in ack mode *)
  /\ reader[p] = "lock"
  /\ reader' = [reader EXCEPT ![p] = "read"]
  /\ UNCHANGED <<ackRead, tabVars, childVars, locked, unacked, mail, portOpen, writing>>

ReaderAlwaysLocks(p) ==  (* mutant: the ack mode for every pty *)
  /\ reader[p] = "lock"
  /\ p \notin locked
  /\ locked' = locked \cup {p}
  /\ reader' = [reader EXCEPT ![p] = "read"]
  /\ UNCHANGED <<ackRead, tabVars, childVars, unacked, mail, portOpen, writing>>

ReaderLocks(p) ==
  /\ reader[p] = "lock"
  /\ ackRead => p \notin locked
  /\ locked' = IF ackRead THEN locked \cup {p} ELSE locked
  /\ reader' = [reader EXCEPT ![p] = "read"]
  /\ UNCHANGED <<ackRead, tabVars, childVars, unacked, mail, portOpen, writing>>

ReaderReads(p) ==
  /\ reader[p] = "read" /\ output[p] = 1
  /\ output' = [output EXCEPT ![p] = 0]
  /\ reader' = [reader EXCEPT ![p] = "post"]
  /\ UNCHANGED <<ackRead, tabVars, proc, emitting, input, locked, unacked, mail,
                 portOpen, writing>>

ReaderPosts(p) ==
  /\ reader[p] = "post"
  /\ IF p \in portOpen
     THEN /\ mail'    = Posted(<<p, "data">>)
          /\ unacked' = IF ackRead /\ unacked[p] < 2
                        THEN [unacked EXCEPT ![p] = @ + 1] ELSE unacked
     ELSE UNCHANGED <<mail, unacked>>
  /\ reader' = [reader EXCEPT ![p] = "lock"]
  /\ UNCHANGED <<ackRead, tabVars, childVars, locked, portOpen, writing>>

(* wait_exit_thread: waitpid, then the exit code is posted.                *)
WaiterPosts(p) ==
  /\ proc[p] = "zombie"
  /\ proc' = [proc EXCEPT ![p] = "reaped"]
  /\ mail' = Append(mail, <<p, "exit">>)
  /\ UNCHANGED <<ackRead, tabVars, emitting, input, output, reader, locked, unacked,
                 portOpen, writing>>

(***************************************************************************)
(* The child process                                                       *)
(***************************************************************************)
ChildReads(p) ==
  /\ proc[p] = "alive" /\ p \notin emitting /\ input[p] = 1
  /\ input' = [input EXCEPT ![p] = 0]
  /\ UNCHANGED <<ackRead, tabVars, proc, emitting, output, reader, locked, unacked,
                 mail, portOpen, writing>>

ChildTurnsToOutput(p) ==
  /\ proc[p] = "alive" /\ p \notin emitting
  /\ emitting' = emitting \cup {p}
  /\ UNCHANGED <<ackRead, tabVars, proc, input, output, reader, locked, unacked,
                 mail, portOpen, writing>>

ChildEmits(p) ==
  /\ proc[p] = "alive" /\ p \in emitting /\ output[p] = 0
  /\ emitting' = emitting \ {p}
  /\ output'   = [output EXCEPT ![p] = 1]
  /\ UNCHANGED <<ackRead, tabVars, proc, input, reader, locked, unacked, mail,
                 portOpen, writing>>

ChildExits(p) ==
  /\ proc[p] = "alive"
  /\ proc' = [proc EXCEPT ![p] = "zombie"]
  /\ UNCHANGED <<ackRead, tabVars, emitting, input, output, reader, locked, unacked,
                 mail, portOpen, writing>>

ReaderStep(p) == ReaderLocks(p) \/ ReaderReads(p) \/ ReaderPosts(p)
Deliver == DeliverOutput \/ \E p \in Ptys : DeliverExit(p)

ShellNext ==
  \/ \E t \in Tabs : OpenShell(t) \/ RestartShell(t) \/ CloseShellTab(t) \/ WriteInput(t)
  \/ WriteGoesOn \/ Deliver
  \/ \E p \in Ptys : \/ ReaderStep(p) \/ WaiterPosts(p) \/ ChildReads(p)
                     \/ ChildTurnsToOutput(p) \/ ChildEmits(p) \/ ChildExits(p)

ShellSpec == ShellInit /\ [][ShellNext]_shellVars

(* The read thread runs on its own; a live child that can write its output *)
(* does, and one that is not stuck in output comes to read its input.      *)
ShellFairness ==
  /\ WF_shellVars(WriteGoesOn)
  /\ \A p \in Ptys : /\ WF_shellVars(ReaderStep(p))
                     /\ WF_shellVars(ChildEmits(p))
                     /\ SF_shellVars(ChildReads(p))

(***************************************************************************)
(* Properties.                                                             *)
(***************************************************************************)
Open(t) == tabStatus[t] \in {"running", "exited", "error"}

(* restartShell spawns only when the last shell is gone, and _onExitCode   *)
(* closes the ports of the one that went: a tab never has two live shells, *)
(* late output of the last one cannot reach the screen of the next, and    *)
(* "exited" is never shown of a tab whose shell lives.                     *)
OneShellPerTab ==
  \A t \in Tabs : Open(t) =>
    /\ tabStatus[t] = "exited" => proc[tabPty[t]] # "alive"
    /\ \A p \in Ptys : owner[p] = t /\ (p \in portOpen \/ proc[p] = "alive")
                         => p = tabPty[t] /\ tabStatus[t] = "running"

(* Pty.start: "should wait for a call to [Pty.ackRead] before sending the  *)
(* next data": at most one chunk is unacknowledged.                        *)
OneChunkUnacked == ackRead => \A p \in Ptys : unacked[p] <= 1

Dead(p) == proc[p] \in {"zombie", "reaped"}

(* pty_write blocks the UI thread.  It returns while the child lives: the  *)
(* reader drains the output without the help of the UI thread, so the      *)
(* child gets on.  In ack mode it needs that help and all three may wait   *)
(* for each other for ever; after the exit of the child nobody reads.      *)
WriteReturns ==
  writing # None ~> \/ writing = None
                    \/ ackRead
                    \/ Dead(writing.pty)
=============================================================================
