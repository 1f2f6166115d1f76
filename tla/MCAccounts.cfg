SPECIFICATION MCSpec
CONSTANTS
  None = None
  alice = alice
  bob = bob
  ea = ea
  eb = eb
  ga = ga
  gb = gb
  gx = gx
  x1 = x1
  x2 = x2
  r1 = r1
  r2 = r2
  People = {alice, bob}
  Emails = {ea, eb}
  Googles = {ga, gb, gx}
  OwnerOf <- MCOwnerOf
  EmailOf <- MCEmailOf
  Verified = {ga, gb}
  Requests = {r1, r2}
  Changes <- MCChanges
  Addresses = {x1, x2}
  Reserved = {x2}
  FirstUsers <- MCUsers
  FirstMerchants <- MCMerchants
  FirstTokens <- MCTokens
  Whitelists <- MCWhitelists
  MaxFacts = 6
  MaxUsers = 3
  MaxMerchants = 2
  MaxTokens = 2
  MaxAddresses = 1
INVARIANTS SessionsAreOwn OneUserPerGoogleAccount SeesOwnOnly
PROPERTIES TenantsAreIsolated
CHECK_DEADLOCK FALSE
SYMMETRY Perms
