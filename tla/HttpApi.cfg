SPECIFICATION MCSpec
CONSTANTS
  Users = {1, 2}
  Root = 1
  Passwords = {"a", "b"}
  Seed = "a"
  Garbled = "g"
  Privileges = {"Query", "Load", "Unload", "Update", "Backup", "Restore", "Export", "Admin"}
  Lists = {{"Update"}}
  Tokens = {"t"}
  Nobody = 0
  MaxBorn = 2
  Workers = {w1, w2}
  Names = {n}
  Items = {x}
  Handles = {1, 2, 3}
  Tids = {5}
  None = None
INVARIANTS
  TransactionsAreKept
  UsersAreSound
PROPERTIES
  StateLockIsReleased
