SPECIFICATION ServicesSpec
CONSTANTS
  None = None
  Lists = {{}, {i1}}
  MaxWrites = 2
  Tabs = {l1}
  Ptys = {p1, p2}
  SshTabs = {s1, s2}
  RecordedTabs = {s1}
  MaxAttempts = 2
  MaxStarts = 2
  TabIds = {t1, t2, t3}
  TabHosts = {h1, h2}
  Calls = {c1, c2}
  SshEndpoints = {e1}
  RdpEndpoints = {r1}
  Keys = {k1, k2}
  Batches = {b1, b2}
  Size = 2
  MaxProbes = 2
  MaxInput = 1
  MaxOutput = 5
INVARIANTS
  SyncTypeOK OneTransfer ForgottenOnlyByOverlapOrRestart
  ShellTypeOK OneShellPerTab OneChunkUnacked
  SessionsTypeOK StatusBacked ClientHasTab RedMeansRecording
  StripTypeOK PinnedFirst SiblingsAgree
  RdpTypeOK CollapseIsNamed NoPatchForgotten
  HostKeysTypeOK AskedIsReachable
  TransfersTypeOK ShownTransferIsLive
  HandshakeTypeOK ReadByWhomMeant
PROPERTIES
  PendingIsPushed WriteReturns
  TerminalStays ChannelCloses ClosedEngineEnds
  PinsAreTrusted
CHECK_DEADLOCK FALSE
