CONSTANTS
  c1 = c1
  c2 = c2
  s1 = s1
  s2 = s2
  Company = {c1, c2}
  Slug = {s1, s2}
  NoCompany = NoCompany
  NoSlug = NoSlug
  NamedAs = {"confirmed", "named", "wrong_company"}
  InactiveAfter = 2
  MaxFailures = 2
  Handled = {s1}
  Overlap = TRUE
  Guesses <- MCGuesses
SPECIFICATION Spec
SYMMETRY CompanySymmetry
INVARIANTS
  InactiveHasFailed
  PolledIsVouchedFor
PROPERTIES
  SettledStands
  PinStands
  OwnerStands
