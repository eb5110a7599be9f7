SPECIFICATION Spec
CONSTANTS
  o1 = o1
  o2 = o2
  k1 = k1
  k2 = k2
  good = good
  ambiguous = ambiguous
  unsafe = unsafe
  r1 = r1
  r2 = r2
  Orgs = {o1, o2}
  Keys = {k1, k2}
  NoKey = NoKey
  Specs = {good, ambiguous, unsafe}
  Ambiguous = {ambiguous}
  Unsafe = {unsafe}
  Releases = {r1, r2}
  Handlers = {h1}
  Requests <- MCCommand
  MaxLinks = 3
PROPERTY CommandSigns
