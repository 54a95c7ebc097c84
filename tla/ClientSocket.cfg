SPECIFICATION SocketSpec
CONSTANTS
  Sockets = {s1, s2}
  Boots = {b1, b2}
  NoSocket = NoSocket
  MaxFaults = 2
  QuickRedial = FALSE
INVARIANT OneSocket
PROPERTY AllowedConnects
PROPERTY RevokedDisconnects
PROPERTY ListenerFollows
CHECK_DEADLOCK FALSE
