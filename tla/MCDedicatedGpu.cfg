\* Once a stream is abandoned everyone may wait for its lock for ever: the
\* system does stop there.
CONSTANTS
  i1 = i1
  q1 = q1
  q2 = q2
  s1 = s1
  s2 = s2
  Image = {i1}
  Chat = {q1, q2}
  Stream = {s1, s2}
  NoCaller = NoCaller
SPECIFICATION LockSpec
CHECK_DEADLOCK FALSE
INVARIANTS
  LockCoversService
PROPERTIES
  ClientsServed
