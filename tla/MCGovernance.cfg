\* Three requests of any of three users, in any of their organizations.
SPECIFICATION Spec
CONSTANTS
  ann = ann
  bob = bob
  Platform = Platform
  Root = Root
  acme = acme
  Users = {Platform, ann, bob}
  Organizations = {Root, acme, o3}
  AdminProfile = AdminProfile
  ManagerProfile = ManagerProfile
  LoginProfile = LoginProfile
  editor = editor
  viewer = viewer
  Drafts = {editor, viewer, p3}
  Owners <- MCOwners
  Authored <- MCAuthored
  Joined <- MCJoined
  LoginGrants <- MCLoginGrants
  ManagerGrants <- MCManagerGrants
  Documents <- MCDocuments
  Patches <- MCPatches
  Stored <- MCStored
  Global = Global
  Unset = Unset
  Null = Null
  k = k
  l = l
  v = v
  Requests = {r1, r2, r3}
SYMMETRY Alike
CHECK_DEADLOCK FALSE
INVARIANTS
  TypeOK
  NobodyOutgrows
  OwnersKeepTheirCeiling
  PatchesStick
PROPERTIES
  OtherOrganizationsUntouched
  NobodyElevatesItself
