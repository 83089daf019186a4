----------------------------- MODULE Handshake -----------------------------
(***************************************************************************)
(* The invisible injection of shell integration and session templates:     *)
(* what SshService.openShell writes into a shell by itself, when, and who  *)
(* reads it.  InjectionReadiness says when the shell's line editor reads,  *)
(* InjectionGate withholds the output between the bootstrap line and DONE. *)
(*                                                                         *)
(* The remote shell is of the environment.  It is "modern" (bash or zsh    *)
(* that toggles bracketed paste), "old" (bash without it) or "other" (no   *)
(* bash or zsh: the bootstrap answers DONE at once).  Lines and output     *)
(* travel in order.  Output is cut down to what the client looks for.      *)
(***************************************************************************)
EXTENDS Naturals, Sequences

CONSTANTS
  MaxProbes,  (* probesLeft of openShell                                   *)
  MaxInput,   (* bound on the lines the user types                         *)
  MaxOutput   (* bound on output in flight                                 *)

ASSUME HandshakeAssumption ==
  /\ MaxProbes \in Nat /\ MaxInput \in Nat /\ MaxOutput \in Nat \ {0}

VARIABLES
  kind,     (* of the shell                                                *)
  shell,    (* who reads the tty: nobody yet, the line editor, a command,  *)
            (* a full-screen program, or the read of the bootstrap         *)
  toShell,  (* lines the client wrote                                      *)
  toApp,    (* output on its way to the client                             *)
  ready,    (* InjectionReadiness: "never", "on", "off"                    *)
  settling, (* settleTimer runs                                            *)
  quiet,    (* quietTimer runs                                             *)
  probing,  (* awaitingProbe; probeWindowTimer runs                        *)
  probesLeft,
  aborted,  (* injectionAborted                                            *)
  gate,     (* InjectionGate, "none" before launchInjection                *)
  payload,  (* _payloadSent                                                *)
  snippet,  (* snippetSent                                                 *)
  typed,    (* lines the user typed                                        *)
  misread,  (* history: what was read by another than it was meant for     *)
  inside,   (* history: the user typed while the gate was holding          *)
  late,     (* history: the gate was opened by its timeout                 *)
  raced     (* history: the bootstrap was written with the initial command *)
            (* not read yet, or with output still on its way               *)

shellSide  == <<kind, shell>>
timers     == <<ready, settling, quiet, probing, probesLeft>>
gateVars   == <<aborted, gate, payload, snippet>>
history    == <<misread, inside, late, raced>>
handshakeVars == <<shellSide, toShell, toApp, timers, gateVars, typed, history>>

Lines  == {"command", "newline", "bootstrap", "payload", "snippet", "user"}
Output == {"text", "on", "off", "alt", "prompt", "RDY", "DONE"}

HandshakeTypeOK ==
  /\ kind       \in {"modern", "old", "other"}
  /\ shell      \in {"booting", "editing", "command", "fullscreen", "reading"}
  /\ toShell    \in Seq(Lines)
  /\ toApp      \in Seq(Output)
  /\ ready      \in {"never", "on", "off"}
  /\ settling   \in BOOLEAN /\ quiet \in BOOLEAN /\ probing \in BOOLEAN
  /\ probesLeft \in 0..MaxProbes
  /\ aborted    \in BOOLEAN
  /\ gate       \in {"none", "holding", "open"}
  /\ payload    \in BOOLEAN /\ snippet \in BOOLEAN
  /\ typed      \in 0..MaxInput
  /\ misread    \subseteq Lines
  /\ inside     \in BOOLEAN /\ late \in BOOLEAN /\ raced \in BOOLEAN

(* openShell has written the initial command, if there is one (or tmux),   *)
(* and armed the quiet timer.                                              *)
HandshakeInit ==
  /\ kind       \in {"modern", "old", "other"}
  /\ shell      = "booting"
  /\ toShell    \in {<<>>, <<"command">>}
  /\ toApp      = <<>>
  /\ ready      = "never"
  /\ settling   = FALSE /\ quiet = TRUE /\ probing = FALSE
  /\ probesLeft = MaxProbes
  /\ aborted    = FALSE
  /\ gate       = "none"
  /\ payload    = FALSE /\ snippet = FALSE
  /\ typed      = 0
  /\ misread    = {}
  /\ inside     = FALSE /\ late = FALSE /\ raced = FALSE

Undecided == gate = "none" /\ ~aborted

(***************************************************************************)
(* The remote shell                                                        *)
(***************************************************************************)
Prints(out) ==
  /\ toApp' = toApp \o out
  /\ Len(toApp') <= MaxOutput

Prompt == IF kind = "modern" THEN <<"on", "prompt">> ELSE <<"prompt">>
Leaves == IF kind = "modern" THEN <<"off">> ELSE <<>>

ShellTo(who, out) ==
  /\ shell' = who
  /\ Prints(out)
  /\ UNCHANGED <<kind, timers, gateVars, typed, inside, late, raced>>

(* The login banner, perhaps with a prompt that is painted long before the *)
(* line editor reads; the editor starts; a program ends by itself.         *)
Banner(out) ==
  /\ shell = "booting"
  /\ ShellTo("booting", <<out>>)
  /\ UNCHANGED <<toShell, misread>>

EditorStarts ==
  /\ shell \in {"booting", "command", "fullscreen"}
  /\ ShellTo("editing", Prompt)
  /\ UNCHANGED <<toShell, misread>>

(* Who may read a line it was not meant for.                               *)
Misread(line) == misread' = misread \cup {line}

Takes(line) == toShell # <<>> /\ Head(toShell) = line /\ toShell' = Tail(toShell)

(* A command may be one that takes the screen.                             *)
EditorRuns(line, who) ==
  /\ shell = "editing" /\ Takes(line)
  /\ line \in {"command", "snippet", "user"}
  /\ ShellTo(who, Leaves \o IF who = "fullscreen" THEN <<"alt">> ELSE <<"text">>)
  /\ UNCHANGED misread

EditorAnswers ==
  /\ shell = "editing" /\ Takes("newline")
  /\ ShellTo("editing", Leaves \o Prompt)
  /\ UNCHANGED misread

EditorBootstraps ==
  /\ shell = "editing" /\ Takes("bootstrap")
  /\ IF kind = "other" THEN ShellTo("editing", Leaves \o <<"DONE">> \o Prompt)
                       ELSE ShellTo("reading", Leaves \o <<"RDY">>)
  /\ UNCHANGED misread

(* The payload is echoed and run at a prompt, as if it had been typed.     *)
EditorEchoes ==
  /\ shell = "editing" /\ Takes("payload")
  /\ ShellTo("editing", <<"text", "DONE">> \o Prompt)
  /\ Misread("payload")

(* read -rs takes one line, whatever it is; only the payload prints DONE.  *)
ReadTakes(line) ==
  /\ shell = "reading" /\ Takes(line)
  /\ ShellTo("editing", (IF line = "payload" THEN <<"DONE">> ELSE <<>>) \o Prompt)
  /\ IF line = "payload" THEN UNCHANGED misread ELSE Misread(line)

(* A running program reads what comes; what the user types is meant for it,*)
(* and a bare newline does not matter to it.  Its output does not look     *)
(* like a prompt.                                                          *)
ProgramReads(line) ==
  /\ shell \in {"command", "fullscreen"} /\ Takes(line)
  /\ ShellTo(shell, <<"text">>)
  /\ IF line \in {"user", "newline", "snippet", "command"} THEN UNCHANGED misread
     ELSE Misread(line)

(***************************************************************************)
(* The client: timers                                                      *)
(***************************************************************************)
Writes(line) == toShell' = Append(toShell, line)

(* launchInjection, once the redraw burst has settled.                     *)
Launches ==
  /\ gate' = "holding"
  /\ Writes("bootstrap")
  /\ settling' = FALSE /\ quiet' = FALSE /\ probing' = FALSE
  /\ UNCHANGED <<shellSide, toApp, ready, probesLeft, aborted, payload, snippet,
                 typed, misread, inside, late>>

(* What the client cannot see when the timer fires: the last sign of       *)
(* readiness may be out of date.                                           *)
OutOfDate == toApp # <<>> \/ \E i \in DOMAIN toShell : toShell[i] = "command"

(* 250 ms after the last sign of readiness, whatever is still on its way.  *)
SettleFires ==
  /\ settling /\ Undecided
  /\ Launches
  /\ raced' = (raced \/ OutOfDate)

(* A bare newline after 1.2 s of silence, 2.5 s after the first output at  *)
(* the earliest, which is left open; without probes left, give up.         *)
QuietFiresAlways ==  (* mutant: no look at the gate, the probes or readiness *)
  /\ quiet
  /\ quiet' = FALSE
  /\ probesLeft' = probesLeft - 1
  /\ probing' = TRUE /\ Writes("newline")
  /\ UNCHANGED <<shellSide, toApp, ready, settling, gateVars, typed, history>>

QuietFires ==
  /\ quiet
  /\ quiet' = FALSE
  /\ CASE ~Undecided \/ ready # "never" -> UNCHANGED <<toShell, probing, probesLeft, aborted>>
       [] Undecided /\ ready = "never" /\ probesLeft = 0 ->
            aborted' = TRUE /\ UNCHANGED <<toShell, probing, probesLeft>>
       [] OTHER -> /\ probesLeft' = probesLeft - 1
                   /\ probing' = TRUE /\ Writes("newline")
                   /\ UNCHANGED aborted
  /\ UNCHANGED <<shellSide, toApp, ready, settling, gate, payload, snippet, typed, history>>

ProbeWindowEnds ==
  /\ probing
  /\ probing' = FALSE
  /\ quiet' = (quiet \/ (Undecided /\ ready = "never"))
  /\ UNCHANGED <<shellSide, toShell, toApp, ready, settling, probesLeft, gateVars,
                 typed, history>>

(* The 2 s for the answer are over: what is withheld is shown.             *)
DoneTimerFires ==
  /\ gate = "holding"
  /\ gate' = "open"
  /\ late' = TRUE
  /\ UNCHANGED <<shellSide, toShell, toApp, timers, aborted, payload, snippet, typed,
                 misread, inside, raced>>

(***************************************************************************)
(* The client: output and input                                            *)
(***************************************************************************)
Receives(out) == toApp # <<>> /\ Head(toApp) = out /\ toApp' = Tail(toApp)

(* cancelReadinessTimers                                                   *)
TimersCancelled == settling' = FALSE /\ quiet' = FALSE /\ probing' = FALSE

Aborts ==
  /\ aborted' = TRUE
  /\ TimersCancelled
  /\ UNCHANGED <<ready, probesLeft>>

(* onChunk, and what openShell makes of it before the injection.           *)
ReadinessSeen(out) ==
  /\ Undecided /\ out # "alt" /\ Receives(out)
  /\ ready' = IF out \in {"on", "off"} THEN out ELSE ready
  /\ settling' = (ready' = "on" \/ (probing /\ ready' = "never" /\ out = "prompt"))
  /\ quiet' = (quiet \/ (ready' = "never" /\ ~probing))
  /\ UNCHANGED <<shellSide, toShell, probing, probesLeft, gateVars, typed, history>>

ScreenTaken ==
  /\ Undecided /\ Receives("alt")
  /\ Aborts
  /\ UNCHANGED <<shellSide, toShell, gate, payload, snippet, typed, history>>

(* InjectionGate.feed: RDY sends the payload once, DONE ends the hold.     *)
ReadySeen ==
  /\ gate = "holding" /\ Receives("RDY")
  /\ IF payload THEN UNCHANGED <<payload, toShell>>
     ELSE payload' = TRUE /\ Writes("payload")
  /\ UNCHANGED <<shellSide, timers, aborted, gate, snippet, typed, history>>

(* The startup snippet is typed here, if the host has one.                 *)
DoneSeen ==
  /\ gate = "holding" /\ Receives("DONE")
  /\ gate' = "open"
  /\ snippet' = TRUE
  /\ Writes("snippet") \/ UNCHANGED toShell
  /\ UNCHANGED <<shellSide, timers, aborted, payload, typed, history>>

Otherwise(out) ==
  /\ ~Undecided /\ Receives(out)
  /\ gate = "holding" => out \notin {"RDY", "DONE"}
  /\ UNCHANGED <<shellSide, toShell, timers, gateVars, typed, history>>

(* terminal.onOutput: a keystroke before the handshake cancels it.         *)
UserTypesOn ==  (* mutant: it does not *)
  /\ typed < MaxInput
  /\ typed' = typed + 1
  /\ Writes("user")
  /\ inside' = (inside \/ gate = "holding")
  /\ UNCHANGED <<shellSide, toApp, timers, gateVars, misread, late, raced>>

UserTypes ==
  /\ typed < MaxInput
  /\ typed' = typed + 1
  /\ Writes("user")
  /\ inside' = (inside \/ gate = "holding")
  /\ IF Undecided THEN Aborts ELSE UNCHANGED <<aborted, timers>>
  /\ UNCHANGED <<shellSide, toApp, gate, payload, snippet, misread, late, raced>>

HandshakeNext ==
  \/ Banner("text") \/ Banner("prompt") \/ EditorStarts \/ EditorAnswers \/ EditorBootstraps \/ EditorEchoes
  \/ \E line \in Lines : \/ ReadTakes(line) \/ ProgramReads(line)
                         \/ EditorRuns(line, "command") \/ EditorRuns(line, "fullscreen")
  \/ SettleFires \/ QuietFires \/ ProbeWindowEnds \/ DoneTimerFires
  \/ \E out \in Output : ReadinessSeen(out) \/ Otherwise(out)
  \/ ScreenTaken \/ ReadySeen \/ DoneSeen \/ UserTypes

HandshakeSpec == HandshakeInit /\ [][HandshakeNext]_handshakeVars

(***************************************************************************)
(* Properties.                                                             *)
(***************************************************************************)

(* "Sent only after RDY is seen, while read -rs is consuming stdin - never *)
(* echoed": every line is read by the one it was written for: the          *)
(* bootstrap by a line editor, the payload by the read of the bootstrap,   *)
(* and nothing else by that read.  The handshake loses this only when the  *)
(* user types while the gate holds; when the answer comes after the 2 s    *)
(* (the read stays and swallows the next line of the user); or when the    *)
(* 250 ms of the settle timer are over before the initial command was read *)
(* or before the output that told of it arrived.                           *)
ReadByWhomMeant == misread # {} => inside \/ late \/ raced

(* "Full-screen app / user typing before handshake: Injection aborted -    *)
(* never types into vim or a half-typed command line": no bootstrap is on  *)
(* its way to a shell that a full-screen program has.                      *)
NeverTypesIntoVim ==
  shell = "fullscreen" => \A i \in DOMAIN toShell : toShell[i] # "bootstrap"
=============================================================================
