CONSTANTS
  ada = ada ann = ann bob = bob mail = mail dav = dav t1 = t1 t2 = t2 NoRun = NoRun
  s1 = s1 s2 = s2 s3 = s3 a1 = a1 b1 = b1 empty = empty None = None
  Connectors = {mail, dav}
  Owners = {ann}
  OwnerOf <- LiveOwnerOf
  Pushes = {}
  Threads = {t1, t2}
  Stubborn = {t1}
  Concurrency = 2
  Edited = {}
  MaxRemote = 1
SPECIFICATION LivenessSpec
CHECK_DEADLOCK FALSE
PROPERTIES WorkIsServed ContactsAreIndexed SyncsKeepUp CursorsGoForward BookedScanRuns
