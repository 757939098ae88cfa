SPECIFICATION MCFairSpec
CONSTANTS
  Nil = Nil
  Absent = Absent
  g = g
  r = r
  t1 = t1
  t2 = t2
  mk = mk
  mb = mb
  mf = mf
  mvf = mvf
  mkf = mkf
  u1 = u1
  c1 = c1
  c2 = c2
  c3 = c3
  c4 = c4
  d1 = d1
  p1 = p1
  f1 = f1
  f2 = f2
  m = m
  th = th
  s1 = s1
  s2 = s2
  fx = fx
  i1 = i1
  MainThread = m
  Globals = g
  Registry = r
  Programs <- SmallPrograms
  Tables = {g, r, t1}
  LClosures = {}
  CClosures = {}
  UpVals = {}
  Threads = {m}
  Userdata = {}
  Strings = {s1, s2, fx}
  Protos = {}
  Fixed = {fx}
  Indices = {i1}
  Keys = {i1, s1}
  StackSize = 1
  Held = {t1, s1, s2, fx}
  Written = {t1, g}
  Metas = {}
  Envs = {}
  WeakKeyMt = {}
  WeakValueMt = {}
  FinalizerMt = {}
  NBuckets = 2
  Bucket <- Buckets
  Rank <- AnyOrder
PROPERTIES
  FreesGarbageOnly
  MarkingEnds
  GarbageCollected
