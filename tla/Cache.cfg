SPECIFICATION Spec
CONSTANTS
  a = a
  p = p
  c1 = c1
  c2 = c2
  c3 = c3
  Nobody = Nobody
  None = None
  Keys <- MCKeys
  Plain <- MCPlain
  Namespaces <- MCNamespaces
  Callers <- MCCallers
  MaxEntries = 1
  MaxVersion = 3
  MaxGenerations = 2
INVARIANT CapHolds
INVARIANT CacheInvariant
SYMMETRY CallerSymmetry
