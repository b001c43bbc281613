SPECIFICATION RewriteSpec
CONSTANTS
  Commands = {c1}
  Archives <- SmallArchiveSet
  Ops <- SmallOps
  Passwords <- SmallPasswords
\* the commands end
CHECK_DEADLOCK FALSE
INVARIANT
  NoPanic
