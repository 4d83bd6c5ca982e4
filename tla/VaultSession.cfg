\* One command that writes at a time, next to any number of loads.
CONSTANTS
  Procs = {p1, p2, p3}
  Passwords = {w1, w2}
  Inodes = {i1, i2, i3, i4}
  NoFile = none
  Exclusive = TRUE
SPECIFICATION Spec
SYMMETRY Alike
INVARIANTS VaultTypeOK
PROPERTIES IsCell ReadsCurrent
