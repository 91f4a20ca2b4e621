SPECIFICATION AccountsSpec
CONSTANTS
  o1 = o1
  o2 = o2
  s1 = s1
  s2 = s2
  People = {o1, o2, s1, s2}
  Role <- TheirRoles
  Registered = {o1, o2, s1}
  FirstAddress <- TheirAddresses
  Emails = {"a1", "a2", "a3", "a4"}
  Identities = {i1}
  Clerks = {r1, r2}
  Historied = {o1}
  Edits <- SomeEdits
  NoOne = NoOne
  NoEmail = NoEmail
  NoIdentity = NoIdentity
CHECK_DEADLOCK FALSE
INVARIANTS
  OwnerRemains
