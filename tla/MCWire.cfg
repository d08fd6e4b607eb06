SPECIFICATION Spec
CONSTANTS
  Mod = 256
  Magic <- MCMagic
  Byte = 4
  QueryLen = 40
  SIG = 20
  VER = 21
  NONC = 22
  DELE = 23
  PATH = 24
  RADI = 25
  PUBK = 26
  MIDP = 27
  SREP = 28
  MINT = 29
  ROOT = 30
  CERT = 31
  MAXT = 32
  INDX = 33
  PAD = 34
  SigSize = 8
  PubkSize = 4
  ShortNode = 4
  LongNode = 8
  ContextCert <- MCContextCert
  ContextResp <- MCContextResp
  Hash <- MCHash
  DayWord = 1024
  Epoch = 3
  DayLen = 20
  RootKey <- MCRootKey
  DeleKey <- MCDeleKey
  DeleFrom = 5124
  DeleUntil = 6148
  Radius = 9
  Version = 60
  BuildKeys = {21, 22, 33}
  Trees <- MCTrees
  Midpoints = {5123, 5124, 5125, 6148}
  MaxTags = 3
  MaxWords = 1
  OutLens = {36, 40, 52, 64}
  DamagedWords = {0, 1, 4, 21, 200, 255}
  MaxFaults = 1
INVARIANTS
  InBounds
  RoundTrip
  SameBytes
  QueryServed
  NoStrayAccess
  SameVerdict
  ReplyTaken
  AcceptedIsSigned
