SPECIFICATION LiveSpec
CONSTANTS
  a1 = a1 a2 = a2 b1 = b1 b2 = b2 c1 = c1
  e1 = e1 f1 = f1 g1 = g1 h1 = h1 k1 = k1 x1 = x1
  Packet = {a1, a2, b1, b2, c1, e1, f1, g1, h1, k1, x1}
  SeqOf <- MCSeqOf
  LenOf <- MCLenOf
  RecordLen <- MCRecordLen
  HttpAt <- MCHttpAt
  HostEnd = 2
  TCP_MAX_REASM = 5
  AbandonWindow = 4
  DesyncStart = 0
  DesyncCutoff = 17
  LimitMode = "s"
  PartialFake = FALSE
  SkipNoSni = TRUE
  HostlistsEmpty = FALSE
  AnyProto = TRUE
  CountCap = 2
INVARIANTS
  TypeOK
  HeldIsAccountedFor
  ReassembledIsHeld
  SessionIsOpen
PROPERTIES
  InOrderUnlessGap
  OffsetsRightUnlessGap
  ReplayIsFinalizedUnlessGap
  ImplementsRelay
  HeldIsReleased
