SPECIFICATION MCSpec
CONSTANTS
  Nil = Nil
  Absent = Absent
  g = g
  r = r
  t1 = t1
  t2 = t2
  mk = mk
  mb = mb
  mf = mf
  mvf = mvf
  mkf = mkf
  u1 = u1
  c1 = c1
  c2 = c2
  c3 = c3
  c4 = c4
  d1 = d1
  p1 = p1
  f1 = f1
  f2 = f2
  m = m
  th = th
  s1 = s1
  s2 = s2
  fx = fx
  i1 = i1
  MainThread = m
  Globals = g
  Registry = r
  Programs <- FunctionPrograms
  Tables = {g, r, t1}
  LClosures = {c1, c2, c3, c4}
  CClosures = {d1}
  UpVals = {p1}
  Threads = {m, th}
  Userdata = {}
  Strings = {s1}
  Protos = {f1, f2}
  Fixed = {}
  Indices = {i1}
  Keys = {i1}
  StackSize = 2
  Held = {c1, c2, c3, c4, th, d1, t1}
  Written = {}
  Metas = {}
  Envs = {t1}
  WeakKeyMt = {}
  WeakValueMt = {}
  FinalizerMt = {}
  NBuckets = 1
  Bucket <- Buckets
  Rank <- FixedFirst
SYMMETRY TwoClosures
INVARIANTS
  NoDangling
  SweptWithThreads
