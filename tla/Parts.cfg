CONSTANTS
  c1 = c1
  c2 = c2
  c3 = c3
  Conn = {c1, c2, c3}
  m1 = m1
  m2 = m2
  REAL_METHODS = {m1, m2}
  MAX_CONNECTIONS = 2
  AUTO_MAX_FAILURES = 1
  AUTO_MAX_ATTEMPTS = 2
  None = None
  Methods = {"wrong_seq", "split_seq", "fragmented", "padding", "delayed_retry", "double_sni"}
  DataLens = {1, 2, 3, 4, 5, 6, 7, 10, 11, 23}
  Extras = {1, 4}
  SeqSpace = 64
  IdentMod = 8
  HeaderLen = 2
  SynSeqs = {0, 5, 62, 63}
  Idents = {0, 6, 7}
  MAX_EPS = 3
  MAX_EXTRA = 1
  KEEP = 2
  FILE_EPS = 1
  KEYS = {1, 2, 3}
  BOARD_CAP = 2
  MAX_RESULTS = 5
  IPs = {"ip1", "ip2", "ip3", "188.114.98.0"}
  Hosts = {"sni1", "sni2", "sni3", "auth.vercel.com"}
  SUPPORTED_METHODS = {"auto", "wrong_seq"}
  OtherTexts = {"bad", "other"}
  FILES <- SmallFiles
  FULLS <- SmallFulls
  Names = {"a", "b", "c", "d", "e"}
  ASKED <- SmallAsked
  PROFILES <- Profiles
  SNI_LENS <- SomeSnis
  APPS = {1, 20, 21, 300}
  SNIS <- SmallSnis
  IDS <- SmallIds
  PADS <- SmallPads
  PNS = {0, 62}
SPECIFICATION PSpec
SYMMETRY Symmetry
CHECK_DEADLOCK FALSE
INVARIANTS
  NoSlotLost
  Credited
  OneBrokenSave
  EditsReachDisk
  BackendReadsWhole
  OldSpace
  FlagEarned
  LengthTrue
  HelloReadBack
  TemplateRoundTrip
  QuicRoundTrip
  ListsClean
  SampleUsable
  ValidIsRunnable
  ReadAlike
  BoardExact
PROPERTIES
  IdentFresh
