SPECIFICATION Spec
CONSTANTS
  a1 = a1 a2 = a2 b1 = b1 w1 = w1 z1 = z1 n1 = n1
  f1 = f1 x1 = x1 k1 = k1 t1 = t1 u1 = u1 e1 = e1
  open = open quic = quic late = late
  Datagram <- MCDatagram
  Kind <- MCKind
  Text <- MCText
  Crypto <- MCCrypto
  CleanLen <- MCCleanLen
  HelloHead = 2
  SniEnds = {4, 7}
  HelloLen = 6
  UDP_MAX_REASM = 6
  MAX_DEFRAG_PIECES = 4
  Profile = {open, quic, late}
  AnyProto = {open}
  SkipNoSni = {quic}
  HasLists = {quic}
  AutoList = {quic}
  Fakes = {open, quic}
  FakesKnown = {late}
  Alters <- MCAlters
  Start <- MCStart
  Cutoff <- MCCutoff
  LimitMode = "d"
  RetransThreshold = 3
  CountCap = 3
  NoProfile = NoProfile
INVARIANTS
  HeldIsPartOfHello
PROPERTIES
  HelloIsOneRequest
  ImplementsRelay
