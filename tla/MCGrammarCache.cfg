SPECIFICATION CacheSpec
CONSTANTS
  Threads = {t1, t2, t3}
  Interpretations = {string, tree}
INVARIANTS
  CacheTypeOK
  OneAnswer
