CONSTANTS
  s1 = s1
  s2 = s2
  s3 = s3
  Slaves = {s1, s2, s3}
  Master = bond
  Zero = zero
  Lists <- MCLists
  MTUs = {1500, 9000}
SPECIFICATION Spec
INVARIANTS
  StatusTells
  OneAddress
  AddressKnown
  Restored
