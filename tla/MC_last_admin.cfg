SPECIFICATION UsersSpec
CHECK_DEADLOCK FALSE
CONSTANTS
  Users = {"a", "b"}
  AdminCalls = {1}
  MaxCalls = 5
INVARIANT LastAdminProtected
