SPECIFICATION Spec
CONSTANTS
  Lines <- MCLines
  Organization <- MCOrganization
  RegisteredAt <- MCRegisteredAt
  Org = "org"
  Members = {"u1", "u2"}
  Times = {3}
  MaxTime = 3
  PageSize = 1
  RecentLimit = 1
  Since = 2
  MaxSaves = 3
 
PROPERTIES PagesComplete CardsTrue
CHECK_DEADLOCK FALSE
