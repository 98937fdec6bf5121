\* Fold level 2; keys with empty parts, two of them in front, and keys that
\* are folders of others or share folders.
CONSTANTS
  e = e
  u = u
  v = v
  w = w
  Parts = {e, u, v, w}
  Empty = e
  KeyNames <- MixedKeys
  MaxFold = 2
SPECIFICATION TreeSpec
INVARIANTS CountsExact PathsPresent InnerNodesUsed IndexFaithful
