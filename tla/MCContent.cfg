SPECIFICATION Spec
CONSTANTS
  p1 = p1
  p2 = p2
  x1 = x1
  x2 = x2
  b1 = b1
  h1 = h1
  h2 = h2
  a1 = a1
  u1 = u1
  u2 = u2
  u3 = u3
  i1 = i1
  i2 = i2
  none = none
  Posts = {p1}
  Texts = {x1, x2}
  Batches = {b1}
  Handlers = {h1, h2}
  Assets = {a1}
  Uploads = {u1, u2, u3}
  Images = {i1, i2}
  MaxUploads = 2
SYMMETRY Symmetry
INVARIANTS
  ReadyIsIntact
  UploadsCounted
PROPERTIES
  ReadyStays
