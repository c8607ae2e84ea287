SPECIFICATION Spec
CONSTANTS
  UserNames = {root, ann}
  GroupNames = {wheel, staff}
  MaxId = 1
  FirstDynamicId = 1
  MaxUsers = 2
  MaxGroups = 2
  Passwords = {pw1, pw2}
  NoPassword = NoPassword
  FlagChoices = {{}}
  CapChoices = {{}, {"account-admin"}}
  Absent = Absent
SYMMETRY Symmetry
INVARIANTS TypeOK Unique PrimaryGroupsExist NoOrphanMembers MembersDistinct
PROPERTIES PlainUserPowers
