\* A user and the platform with two games and two slugs; three accounts; one user's
\* avatar; a prefix of two files; one slug's player data.  Two
\* requests at a time, three about the avatar.
CONSTANTS
  Uploader = {u1}
  Platform = Platform
  Slug = {s1, s2}
  External = External
  MaxGames = 2
  Clerk = {h1, h2}
  NoSlug = NoSlug
  MaxAccounts = 3
  MaxNumber = 7
  Desk = {h1, h2}
  Picture = {s1, s2}
  Elsewhere = Elsewhere
  Session = {h1, h2, h3}
  File = {f1, f2}
  Content = {s1, s2}
  Absent = Absent
  Changer = {h1, h2}
  DataKey = {d1, d2, d3}
  NoKey = NoKey
  MaxKeys = 2
  MaxValue = 2
  MaxTotal = 3
  Package <- Packages
  MaxIds = 2
  MaxTickets = 1
  Client = {h1, h2}
SPECIFICATION CatalogueSpec
SYMMETRY Symmetry
INVARIANTS CatalogueTypeOK AccountsInv AvatarInv MirrorInv PlayerDataInv
PROPERTIES AtomicUnlessOvertaken OwnersDoNotPublish
\* The instance stops when its bounds on games and accounts are reached.
CHECK_DEADLOCK FALSE
