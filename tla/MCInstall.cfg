\* Two transactions, five roles, two interruptions and one foreign object.
CONSTANTS
  Roles = 5
  Directories = 3
  Retention = {3}
  Standard = {1}
  TransactionsRoot = 3
  Parent <- MCParent
  Transactions = {t1, t2}
  None = None
  Foreign = Foreign
  MaxStops = 2
  MaxForeign = 1

SPECIFICATION Spec
INVARIANTS  JournalFollowsDisk InstalledIsKept UndoneIsExact
 
