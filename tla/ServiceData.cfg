\* Buffers of two entries of up to three bytes; indices of three bits.
SPECIFICATION Spec
CONSTANTS
  Bytes = {0, 1, 2, 3}
  Eq = 2
  Bad = {3}
  Repl = Repl
  NoValue = NoValue
  MaxEntry = 3
  MaxEntries = 2
  Dot = Dot
  n = n  m = m  http = http  tcp = tcp  local = local  corp = corp
  Tokens = {n, m, http, tcp, local, corp, Dot}
  Names <- MCNames
  Types <- MCTypes
  Domains <- MCDomains
  Width = 3
  Unset = Unset
INVARIANTS
  FramingLimits
  NoBytesLeak
  PlatformsAgree
  NeverWidened
  BrowsesWhatWasAnnounced
  EventsNameService
  ProbeReachesService
