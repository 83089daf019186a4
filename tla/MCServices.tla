----------------------------- MODULE MCServices -----------------------------
(* Small instances for TLC of the services that do not touch each other,   *)
(* side by side in one run: a behaviour has one of them in focus and       *)
(* leaves the others as they start, so that the state spaces add up and    *)
(* do not multiply.                                                        *)
EXTENDS CloudSync, LocalShell, Sessions, TabList, RdpTab,
        HostKeys, Transfers, Handshake

VARIABLE focus

servicesVars == <<focus, syncVars, shellVars, sessionVars, stripVars, rdpVars,
                  keyVars, transferVars, handshakeVars>>

ServicesInit ==
  /\ focus \in {"sync", "shell", "sessions", "strip", "rdp", "keys", "files",
               "handshake"}
  /\ SyncInit     /\ (focus # "sync" => hostList = {} /\ row = None)
  /\ ShellInit    /\ (focus # "shell" => ~ackRead)
  /\ SessionsInit
  /\ StripInit    /\ (focus # "strip" => savedPin = {})
  /\ RdpInit      /\ (focus # "rdp" => ~tunnelled)
  /\ HostKeysInit /\ fingerprint = [e \in Endpoints |-> None]
  /\ TransfersInit
  /\ HandshakeInit /\ (focus # "handshake" => kind = "other" /\ toShell = <<>>)

ServicesNext ==
  /\ UNCHANGED focus
  /\ \/ /\ focus = "sync" /\ SyncNext
        /\ UNCHANGED <<shellVars, sessionVars, stripVars, rdpVars,
                      keyVars, transferVars, handshakeVars>>
     \/ /\ focus = "shell" /\ ShellNext
        /\ UNCHANGED <<syncVars, sessionVars, stripVars, rdpVars,
                      keyVars, transferVars, handshakeVars>>
     \/ /\ focus = "sessions" /\ SessionsNext
        /\ UNCHANGED <<syncVars, shellVars, stripVars, rdpVars,
                      keyVars, transferVars, handshakeVars>>
     \/ /\ focus = "strip" /\ StripNext
        /\ UNCHANGED <<syncVars, shellVars, sessionVars, rdpVars,
                      keyVars, transferVars, handshakeVars>>
     \/ /\ focus = "rdp" /\ RdpNext
        /\ UNCHANGED <<syncVars, shellVars, sessionVars, stripVars,
                      keyVars, transferVars, handshakeVars>>
     \/ /\ focus = "keys" /\ HostKeysNext
        /\ UNCHANGED <<syncVars, shellVars, sessionVars, stripVars,
                      rdpVars, transferVars, handshakeVars>>
     \/ /\ focus = "files" /\ TransfersNext
        /\ UNCHANGED <<syncVars, shellVars, sessionVars, stripVars,
                      rdpVars, keyVars, handshakeVars>>
     \/ /\ focus = "handshake" /\ HandshakeNext
        /\ UNCHANGED <<syncVars, shellVars, sessionVars, stripVars,
                      rdpVars, keyVars, transferVars>>

(* No service out of focus ever has a fair step to take.                   *)
ServicesSpec ==
  /\ ServicesInit /\ [][ServicesNext]_servicesVars
  /\ SyncFairness /\ ShellFairness /\ RdpFairness
=============================================================================
