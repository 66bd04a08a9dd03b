CONSTANTS
  ann = ann bob = bob cy = cy w1 = w1 w2 = w2 mail = mail dav = dav mbox = mbox gbox = gbox eve = eve
  t1 = t1 t2 = t2 s1 = s1 s2 = s2 s3 = s3 s4 = s4 p1 = p1 p2 = p2 p3 = p3 b1 = b1 b2 = b2
  c1 = c1 c2 = c2 k1 = k1 k2 = k2 e1 = e1 e2 = e2 r1 = r1 i1 = i1 i2 = i2 u1 = u1 u2 = u2 u3 = u3
  m1 = m1 m2 = m2 m3 = m3 f1 = f1 f2 = f2
  a1 = a1 a2 = a2 q1 = q1 q2 = q2
  Checked = {"ingest"}
  None = None NoRun = NoRun NoIngest = NoIngest NoJob = NoJob Nowhere = Nowhere
  Callers = {ann, bob, cy}
  Works = {w1, w2}
  Connectors = {mail, dav}
  Owners = {ann}
  OwnerOf <- MCOwnerOf
  Pushes = {dav}
  Threads = {t1, t2}
  Stubborn = {t1}
  Concurrency = 2
  Edited = {dav}
  MaxRemote = 0
  Mailboxes = {mbox, gbox}
  First = {mbox, gbox}
  Mails = 3
  From <- MCFrom
  Anew = {mbox}
  Reached <- MCReached
  Deleted <- MCDeleted
  People = {eve}
  GhostThreshold = 2
  Accounts = {ann, bob, cy}
  Scans = {s1, s2, s3, s4}
  Users = {ann, bob}
  Persons = {p1, p2, p3}
  BelongsTo <- MCBelongsTo
  Batches = {b1, b2}
  MaxJobs = 2
  MaxVersion = 1
  Contacts = {c1, c2}
  Keys = {k1, k2}
  LivesAt <- MCLivesAt
  Placed = {c1}
  Searched = {k1}
  Embeddings = {e1, e2}
  Rerankings = {r1}
  Items = {i1, i2}
  Windows = {u1, u2, u3}
  NoWindow = NoWindow
  Twins = {m1, m2, m3}
  Facts = {f1, f2}
  Notes = {f2}
  FirstRows <- MCFirstRows
  Sure <- MCSure
  Likely <- MCLikely
  Waiting <- MCLikely
  Arrivals = {m1, m2}
  Touched = {2}
  MaxSteps = 20
  MaxMerges = 2
  MaxRows = 4
  MaxChanges = 2
  Asks = {a1, a2}
  Questions = {q1, q2}
  Wording <- MCWording
  MaxEdits = 2
  NoFlight = NoFlight
  Nobody = Nobody NoRow = NoRow NoEntry = NoEntry NoCheck = NoCheck
SPECIFICATION ServicesSpec
CHECK_DEADLOCK FALSE
PROPERTIES IgnoredForGood
