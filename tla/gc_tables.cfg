SPECIFICATION MCSpec
CONSTANTS
  Nil = Nil
  Absent = Absent
  g = g
  r = r
  t1 = t1
  t2 = t2
  mk = mk
  mb = mb
  mf = mf
  mvf = mvf
  mkf = mkf
  u1 = u1
  c1 = c1
  c2 = c2
  c3 = c3
  c4 = c4
  d1 = d1
  p1 = p1
  f1 = f1
  f2 = f2
  m = m
  th = th
  s1 = s1
  s2 = s2
  fx = fx
  i1 = i1
  MainThread = m
  Globals = g
  Registry = r
  Programs <- TablePrograms
  Tables = {g, r, t1, t2, mk, mb}
  LClosures = {}
  CClosures = {}
  UpVals = {}
  Threads = {m}
  Userdata = {}
  Strings = {s1}
  Protos = {}
  Fixed = {}
  Indices = {i1}
  Keys = {i1, t1, t2, s1}
  StackSize = 2
  Held = {t1, t2, s1, mk, mb}
  Written = {g, t1, t2}
  Metas = {mk, mb}
  Envs = {}
  WeakKeyMt = {mk, mb}
  WeakValueMt = {mb}
  FinalizerMt = {}
  NBuckets = 1
  Bucket <- Buckets
  Rank <- AnyOrder
INVARIANTS
  TypeOK
  NoDangling
  TriColor
  GrayLists
