\* Three requests with any job on one company with a free seat, and provisioning.
SPECIFICATION Spec
CONSTANTS
  r1 = r1
  r2 = r2
  r3 = r3
  acme = acme
  root = root
  boss = boss
  vice = vice
  emp = emp
  temp = temp
  Request = {r1, r2, r3}
  Job <- Jobs
  Email <- Mail
  Password = {"old", "new"}
  FirstUsers <- StartUsers
  FirstLicences <- StartLicences
  FirstSessions <- StartSessions
  MayExpire = {vice}
  NoTenant = NoTenant
  NoLicence = NoLicence
  NoJob = NoJob
  NoOne = NoOne
SYMMETRY Symmetric
INVARIANTS
  TypeOK
  RevokedStaysOut
  OldPasswordEndsSessions
  SeatsKept
  AdminRemains
  UsersHavePolicy
CHECK_DEADLOCK FALSE
