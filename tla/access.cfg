\* One account: its codes, its doors or its roles in a behaviour.
SPECIFICATION MCSpec
CONSTANTS
  MaxFailed = 2
  MaxTries = 2
  MaxSends = 2
  RecoveryCodes = {r1}
  Chats = {c1}
  Nothing = Nothing
  MaxTokens = 2
  MaxStep = 2
  Roles = {o1, o2}
  Defaults = {o1}
  Teams = {t1, t2}
  Estate = Estate
SYMMETRY MCPerms
INVARIANTS AccessTypeOK  
 
CHECK_DEADLOCK FALSE
