SPECIFICATION Spec
CONSTANTS
  Tabs = {t1, t2}
  Users = {alice, bob}
  NoUser = NoUser
  MaxLogins = 2
SYMMETRY Symmetry
INVARIANTS TypeOK ActsAsShown
