\* One creator and one player (who may be suspended) with a game; a moderator and
\* a player who discuss a game; two reports.  Two requests of each kind at a time.
CONSTANTS
  player = player
  creator = creator
  game = game
  Person = {player, creator}
  Title = {game}
  Creator <- CreatorOf
  Suspendable = {player}
  Visitor = {h1, h2}
  Nobody = Nobody
  Untitled = Untitled
  Member = {player, creator}
  Moderator = {creator}
  Fan = {player}
  Exhibit = {game}
  MaxPosts = 3
  MaxRows = 3
  Caller = {h1, h2}
  NoMember = NoMember
  NoExhibit = NoExhibit
  Report = {r1, r2}
  Handler = {h1, h2}
  MaxDecisions = 3
  MaxAppeals = 2
  NoReport = NoReport
SPECIFICATION SocialSpec
SYMMETRY Symmetry
INVARIANTS SocialTypeOK CommunityInv ThreadInv AppealInv EveryDecisionIsTold
PROPERTIES BlockHolds QuietWhileHidden
\* The instance stops when its bounds on decisions and appeals are reached.
CHECK_DEADLOCK FALSE
