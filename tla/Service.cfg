CONSTANTS
  UINT64_MAX = 15
  Chars = {0, 1, 5, 6, 10, 11, 12, 13}
  MaxLen = 5
  NumVhosts = 2
  Port <- MCPort
  Conns = {c1, c2}
  Contexts = {x1, x2, x3, x4}
  NULL = NULL
  Owner = Owner
  SniMax = 4
  MaxReloads = 2
SPECIFICATION ServiceSpec
INVARIANTS
  DescriptorsClosed BodyAsAnnounced  ParsesTheGrammar
  HeapExact AccessAsConfigured HeadersByPrecedence NoWildcardWithCredentials
   MemoryIsOwn PathAsMeant ContextAlive ReloadExact 
PROPERTY LoadIsAtomic
CHECK_DEADLOCK FALSE
