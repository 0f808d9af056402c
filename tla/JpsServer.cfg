\* A stream, a session whose fallback loop may start it, and two controllers with two calls
\* each: enough for a close to race a drain and a registration, and for a handler insertion to
\* race an open.
SPECIFICATION FairSpec
CONSTANTS
  None = None
  Streams = {s1}
  Sessions = {q1}
  Controllers = {c1, c2}
  HasClosedHandler = FALSE
  MaxOps = 2
INVARIANTS ConnectionsCounted OpenWhileRegistering
PROPERTIES HandlersOnlyWhenClosed ImplementsLifecycle Drains ConnectionsEnd
