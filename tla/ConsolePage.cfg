SPECIFICATION MCSpec
CONSTANTS
  Users = {u1, u2}
  TextFields = {"name"}
  ListFields = {"groups"}
  RoleFields = {"clientRoles"}
  Texts = {Empty, plain, other, padded}
  Clean <- MCClean
  Lists <- MCLists
  RoleMaps <- MCRoleMaps
  Can = {"configuration", "users", "credentials", "write", "delete", "revoke", "federation", "register"}
  MaxCalls = 1
  Empty = Empty
  Nothing = Nothing
  edited = u1
  plain = plain
  other = other
  padded = padded
INVARIANTS PageFollowsRoute NothingUnconfirmed EditsSurvive
PROPERTIES LoadingEnds
CHECK_DEADLOCK FALSE
