SPECIFICATION Spec
CONSTANTS
  c1 = c1
  c2 = c2
  c3 = c3
  own = own
  other = other
  NoRoom = NoRoom
  Conns <- TwoConns
  Secrets <- Passwords
  SecretOf <- AllOwn
  Deleters <- NoPasswords
  Frames <- NoDelete
  CliOrder = TRUE
  Mortal <- NoConns
  Vanishing <- NoConns
  IdleTimeout = 1
  UpgradeLimit = 1
  Grace = 3
  Ttl = 1
INVARIANTS OnlineWhileAttached
