------------------------------- MODULE Governance -------------------------------
(***************************************************************************)
(* The administration of organizations: who participates in which, on     *)
(* which profile, and the requests that change either.                    *)
(*                                                                         *)
(* A request reads its caller in AuthGuard, its participation in           *)
(* OrganizationGuard, the row it is about in the service, and writes at    *)
(* last: four steps, and nothing locked between them.  What a profile      *)
(* concedes is a set of grants, so that Resolve is an intersection and     *)
(* IsWithin an inclusion; module Permissions is about how far that is so.  *)
(***************************************************************************)
EXTENDS Naturals

CONSTANTS
  Users, Organizations, Requests,
  AdminProfile, ManagerProfile, LoginProfile,
  Drafts,              \* ids of the profiles that organizations write for themselves
  Root, Platform,      \* the organization and the user of the seed
  Owners,              \* other organizations and their owners: <<organization, user, ceiling>>
  Authored,            \* what their owners have written: <<profile, organization, grants>>
  Joined,              \* who is in by hand: <<user, organization, profile>>
  LoginGrants, ManagerGrants,
  Documents, Patches,  \* the grants, and the metadata, that payloads ask for
  Stored,              \* the metadata rows were created with
  Global, Unset, Null  \* no organization, a field left out, a key to delete

\* The routes under /core that write, each with the grant its guard asks for.
OrganizationRoutes == {
  <<"Switch", "as::organizations::switch::UPDATE">>,
  <<"CreateForUser", "as::organizations::CREATE">>,
  <<"UpdateForCaller", "as::organizations::UPDATE">>,
  <<"UpdateParticipant", "as::organizations::participants::UPDATE">>}
ProfileRoutes == {
  <<"CreateProfile", "as::profiles::CREATE">>,
  <<"UpdateProfile", "as::profiles::UPDATE">>}
UserPoolRoutes == {<<"UpdateUserPool", "as::users_pool::UPDATE">>}
AppRoutes == {<<"UpdateApp", "as::apps::UPDATE">>}
UserRoutes == {
  <<"UpdateUser", "as::users::UPDATE">>,
  <<"UpdateSelf", "as::users::me::UPDATE">>}

Routes == OrganizationRoutes \union ProfileRoutes \union UserPoolRoutes \union AppRoutes \union UserRoutes
Grants == {route[2] : route \in Routes}

\* The Admin row that an organization is born with.
OrganizationAdmin(o) == <<"Admin", o>>
Admins == {OrganizationAdmin(o) : o \in Organizations}
Seeded == {AdminProfile, ManagerProfile, LoginProfile}
Profiles == Seeded \union Admins \union Drafts

\* Rows with a metadata column; one pool and one app, which Root owns.
Row(table, id) == <<table, id>>
Pool == Row("users_pool", Root)
App == Row("apps", Root)
Rows == {Row("users", u) : u \in Users} \union {Row("organizations", o) : o \in Organizations}
          \union {Row("profiles", p) : p \in Profiles} \union {Pool, App}

Keys == UNION {DOMAIN patch : patch \in Patches \union {Stored}}
Values == (UNION {{patch[k] : k \in DOMAIN patch} : patch \in Patches \union {Stored}}) \ {Null}
Metadata == UNION {[K -> Values] : K \in SUBSET Keys}

Ceilings == {<<Root, Platform, AdminProfile>>} \union Owners
Participations ==
  {<<Platform, Root, AdminProfile>>}
    \union {<<owned[2], owned[1], OrganizationAdmin(owned[1])>> : owned \in Owners}
    \union Joined

ASSUME IdsAssumption ==
  /\ Root \in Organizations /\ Platform \in Users /\ Global \notin Organizations
  /\ AdminProfile \notin {ManagerProfile, LoginProfile} /\ ManagerProfile # LoginProfile
  /\ Seeded \intersect (Admins \union Drafts) = {}
  /\ Admins \intersect Drafts = {}
  /\ Unset \notin Profiles /\ Unset \notin Patches /\ Unset \notin Documents
ASSUME SeedAssumption ==
  /\ LoginGrants \subseteq ManagerGrants /\ ManagerGrants \subseteq Grants
  /\ Documents \subseteq SUBSET Grants
  /\ Stored \in Metadata
\* One owner and one ceiling each, one participation each, on visible profiles.
ASSUME InitAssumption ==
  /\ Owners \subseteq (Organizations \ {Root}) \X Users \X {ManagerProfile, LoginProfile}
  /\ Joined \subseteq Users \X {c[1] : c \in Ceilings} \X Profiles
  /\ \A c, d \in Ceilings : c[1] = d[1] => c = d
  /\ \A p, q \in Participations : p[1] = q[1] /\ p[2] = q[2] => p = q
  /\ Authored \subseteq Drafts \X {c[1] : c \in Ceilings} \X SUBSET Grants
  /\ \A a, b \in Authored : a[1] = b[1] => a = b
  /\ \A p \in Joined : p[3] = LoginProfile \/ \E a \in Authored : a[1] = p[3] /\ a[2] = p[2]

VARIABLES
  organizations,   \* organizations: their owner and their ceiling
  participants,    \* participants: the profile of a user in an organization
  profiles,        \* profiles: their scope and their document
  current,         \* users.current_organization_id
  defaultProfile,  \* users_pool.default_profile_id
  metadata,        \* the column of that name, in every table
  requests,        \* the handlers
  handed,          \* history: what an owner let its organization concede
  intended,        \* history: the metadata, had its patches come one by one
  raced            \* history: rows a patch was written to that it had read before
                   \* another one was

tables == <<organizations, participants, profiles, current, defaultProfile, metadata>>
history == <<handed, intended, raced>>
vars == <<tables, requests, history>>

-----------------------------------------------------------------------------
(* Documents *)

\* What a document opens: its grants, and what its api half spells out.
Granted(p) == profiles[p].grants \union profiles[p].api

Held(u, o) == Granted(organizations[o].ceiling) \intersect Granted(participants[u, o])

\* A lookup by id alone.
Found(p, o) == p \in DOMAIN profiles

VisibleTo(p, o) == p \in DOMAIN profiles /\ profiles[p].scope \in {Global, o}

\* Merges of a patch: its keys win, and null removes.
MergeJsonPatch(stored, patch) ==
  [k \in {k \in DOMAIN stored \union DOMAIN patch : k \in DOMAIN patch => patch[k] # Null} |->
     IF k \in DOMAIN patch THEN patch[k] ELSE stored[k]]

-----------------------------------------------------------------------------
(* Init: the seed, and the organizations and participations of CONSTANTS *)

SeededProfile(p) ==
  IF p = AdminProfile THEN [scope |-> Root, grants |-> Grants, api |-> Grants]
  ELSE IF p = ManagerProfile THEN [scope |-> Root, grants |-> ManagerGrants, api |-> {}]
  ELSE [scope |-> Global, grants |-> LoginGrants, api |-> {}]

Init ==
  /\ organizations =
       [o \in {c[1] : c \in Ceilings} |->
          LET c == CHOOSE c \in Ceilings : c[1] = o IN [owner |-> c[2], ceiling |-> c[3]]]
  /\ participants =
       [m \in {<<p[1], p[2]>> : p \in Participations} |->
          (CHOOSE p \in Participations : <<p[1], p[2]>> = m)[3]]
  /\ profiles =
       [p \in Seeded \union {OrganizationAdmin(owned[1]) : owned \in Owners}
                 \union {a[1] : a \in Authored} |->
          IF p \in Seeded THEN SeededProfile(p)
          ELSE IF p \in Admins THEN [scope |-> p[2], grants |-> Grants, api |-> {}]
          ELSE LET a == CHOOSE a \in Authored : a[1] = p
               IN  [scope |-> a[2], grants |-> a[3], api |-> {}]]
  /\ current \in [Users -> Organizations]
  /\ \A u \in Users : <<u, current[u]>> \in DOMAIN participants
  /\ defaultProfile = LoginProfile
  /\ metadata = [row \in Rows |-> Stored]
  /\ requests = [r \in Requests |-> [pc |-> "arrived"]]
  /\ handed =
       [o \in Organizations |->
          LoginGrants \union UNION {profiles[p[3]].grants : p \in {p \in Joined : p[2] = o}}]
  /\ intended = metadata
  /\ raced = {}

-----------------------------------------------------------------------------
(* The guards *)

Goes(r, h) == requests' = [requests EXCEPT ![r] = h]
Ends(r) == Goes(r, [pc |-> "answered"])

\* AuthGuard loads the user, its current organization and the ceiling of that.
AuthGuard(r) ==
  /\ requests[r].pc = "arrived"
  /\ \E u \in Users :
       LET o == current[u]
       IN  Goes(r, [pc |-> "authenticated", user |-> u, org |-> o,
                    ceiling |-> Granted(organizations[o].ceiling),
                    seen |-> [row \in {Row("users", u), Row("organizations", o)} |-> metadata[row]]])
  /\ UNCHANGED <<tables, history>>

\* OrganizationGuard loads the participation and its profile.
OrganizationGuard(r) ==
  LET h == requests[r]
  IN  /\ h.pc = "authenticated"
      /\ <<h.user, h.org>> \in DOMAIN participants
      /\ LET own == participants[h.user, h.org]
         IN  Goes(r, [pc |-> "authorized", user |-> h.user, org |-> h.org, ceiling |-> h.ceiling,
                      seen |-> h.seen, own |-> own, held |-> h.ceiling \intersect Granted(own)])
      /\ UNCHANGED <<tables, history>>

\* PermissionsGuard lets an operation through.
Permitted(h, op) == h.pc = "authorized" /\ \E route \in Routes : route[1] = op /\ route[2] \in h.held

\* The service reads what it needs and is about to write w.
Decides(r, op, w) ==
  LET h == requests[r]
  IN  /\ Permitted(h, op)
      /\ Goes(r, [pc |-> "writing", op |-> op, user |-> h.user, org |-> h.org, own |-> h.own,
                  held |-> h.held, write |-> w])
      /\ UNCHANGED <<tables, history>>

-----------------------------------------------------------------------------
(* The services: what is read, compared and refused before the write *)

\* The comparison with the organization of the caller instead of the caller.
WithinCeiling(h, grants) == grants \subseteq h.ceiling

\* Whatever a caller hands out is compared with what it held in its guards.
WithinHeld(h, grants) == grants \subseteq h.held

\* PUT /core/organizations/switch
Switch(r) ==
  \E o \in DOMAIN organizations :
    /\ Permitted(requests[r], "Switch")
    /\ <<requests[r].user, o>> \in DOMAIN participants
    /\ Decides(r, "Switch", [to |-> o])

\* The profile that is asked for has to fit the caller's organization, not the caller;
\* the default of the pool is taken as it is.
ResolveCeiling(h, p) ==
  p = defaultProfile \/ (VisibleTo(p, h.org) /\ Granted(p) \subseteq h.ceiling)

\* POST /core/organizations
CreateForUser(r) ==
  \E p \in DOMAIN profiles :
    /\ Permitted(requests[r], "CreateForUser")
    /\ ResolveCeiling(requests[r], p)
    /\ Decides(r, "CreateForUser", [ceiling |-> p])

\* PUT /core/organizations/:id, on the metadata AuthGuard has loaded.
UpdateForCaller(r) ==
  /\ Permitted(requests[r], "UpdateForCaller")
  /\ \E patch \in Patches :
       LET row == Row("organizations", requests[r].org)
       IN  Decides(r, "UpdateForCaller", [row |-> row, patch |-> patch, seen |-> requests[r].seen[row]])

\* Neither the caller itself, nor the owner.
Movable(h, u) == u \notin {h.user, organizations[h.org].owner} /\ <<u, h.org>> \in DOMAIN participants

\* PUT /core/organizations/:id/participants/:participant_id
UpdateParticipant(r) ==
  LET h == requests[r]
  IN  /\ Permitted(h, "UpdateParticipant")
      /\ \E u \in Users, p \in DOMAIN profiles :
           /\ Movable(h, u)
           /\ VisibleTo(p, h.org)
           /\ WithinHeld(h, Granted(p))
           /\ Decides(r, "UpdateParticipant", [user |-> u, profile |-> p])

\* POST /core/profiles
CreateProfile(r) ==
  \E grants \in Documents :
    /\ Permitted(requests[r], "CreateProfile")
    /\ WithinHeld(requests[r], grants)
    /\ Decides(r, "CreateProfile", [grants |-> grants])

\* Neither a global row, nor the Admin row, nor the row the caller is on.
Writable(h, p) == profiles[p].scope # Global /\ p \notin Admins \union {h.own}

\* A document written whole, from the payload.
Forgotten(p) == {}

\* The half of a document that the endpoint does not speak of.
CarriedOver(p) == profiles[p].api

\* PUT /core/profiles/:id
UpdateProfile(r) ==
  LET h == requests[r]
  IN  /\ Permitted(h, "UpdateProfile")
      /\ \E p \in DOMAIN profiles, patch \in Patches \union {Unset},
            grants \in Documents \union {Unset} :
           /\ VisibleTo(p, h.org)
           /\ Writable(h, p)
           /\ grants # Unset => WithinHeld(h, grants)
           /\ grants # Unset \/ patch # Unset
           /\ Decides(r, "UpdateProfile",
                      [profile |-> p, grants |-> grants, api |-> CarriedOver(p),
                       patch |-> patch, seen |-> metadata[Row("profiles", p)]])

\* The profile new accounts are limited by.
ResolveDefaultProfile(h, p) == VisibleTo(p, h.org) /\ WithinHeld(h, Granted(p))

\* PUT /core/users_pool/:id, by the organization of the pool.
UpdateUserPool(r) ==
  LET h == requests[r]
  IN  /\ Permitted(h, "UpdateUserPool") /\ h.org = Root
      /\ \E p \in DOMAIN profiles \union {Unset}, patch \in Patches \union {Unset} :
           /\ p # Unset => ResolveDefaultProfile(h, p)
           /\ p # Unset \/ patch # Unset
           /\ Decides(r, "UpdateUserPool", [profile |-> p, patch |-> patch, seen |-> metadata[Pool]])

\* PUT /core/apps/:id, by the organization of the app.
UpdateApp(r) ==
  /\ Permitted(requests[r], "UpdateApp") /\ requests[r].org = Root
  /\ \E patch \in Patches :
       Decides(r, "UpdateApp", [row |-> App, patch |-> patch, seen |-> metadata[App]])

\* PUT /core/users/:id, by the organization of the user's pool.
UpdateUser(r) ==
  /\ Permitted(requests[r], "UpdateUser") /\ requests[r].org = Root
  /\ \E u \in Users, patch \in Patches :
       LET row == Row("users", u)
       IN  Decides(r, "UpdateUser", [row |-> row, patch |-> patch, seen |-> metadata[row]])

\* PUT /core/users/me, on the metadata AuthGuard has loaded.
UpdateSelf(r) ==
  /\ Permitted(requests[r], "UpdateSelf")
  /\ \E patch \in Patches :
       LET row == Row("users", requests[r].user)
       IN  Decides(r, "UpdateSelf", [row |-> row, patch |-> patch, seen |-> requests[r].seen[row]])

-----------------------------------------------------------------------------
(* The writes: one statement, or one transaction *)

Writes(r, ops) == requests[r].pc = "writing" /\ requests[r].op \in ops /\ Ends(r)

\* The row is saved whole, with the metadata it was read with.
SaveRow(row, w) ==
  /\ metadata' = [metadata EXCEPT ![row] =
                    IF w.patch = Unset THEN w.seen ELSE MergeJsonPatch(w.seen, w.patch)]
  /\ intended' = IF w.patch = Unset THEN intended
                 ELSE [intended EXCEPT ![row] = MergeJsonPatch(@, w.patch)]
  /\ raced' = IF w.patch = Unset \/ metadata[row] = w.seen THEN raced ELSE raced \union {row}

\* The column is written with what was merged in memory.
WritePatch(row, w) ==
  IF w.patch = Unset THEN UNCHANGED <<metadata, intended, raced>>
  ELSE /\ metadata' = [metadata EXCEPT ![row] = MergeJsonPatch(w.seen, w.patch)]
       /\ intended' = [intended EXCEPT ![row] = MergeJsonPatch(@, w.patch)]
       /\ raced' = IF metadata[row] = w.seen THEN raced ELSE raced \union {row}

HandsOut(h, grants) ==
  handed' = IF organizations[h.org].owner # h.user THEN handed
            ELSE [handed EXCEPT ![h.org] = @ \union grants]

WriteCurrent(r) ==
  /\ Writes(r, {"Switch"})
  /\ current' = [current EXCEPT ![requests[r].user] = requests[r].write.to]
  /\ UNCHANGED <<organizations, participants, profiles, defaultProfile, metadata, history>>

\* The Admin row is left for later.
WriteWithoutAdmin(r) ==
  LET h == requests[r]
  IN  /\ Writes(r, {"CreateForUser"})
      /\ \E o \in Organizations \ DOMAIN organizations :
           /\ organizations' =
                [x \in DOMAIN organizations \union {o} |->
                   IF x = o THEN [owner |-> h.user, ceiling |-> h.write.ceiling] ELSE organizations[x]]
           /\ participants' =
                [m \in DOMAIN participants \union {<<h.user, o>>} |->
                   IF m = <<h.user, o>> THEN OrganizationAdmin(o) ELSE participants[m]]
      /\ UNCHANGED <<profiles, current, defaultProfile, metadata, history>>

\* The organization, its Admin row and the participation of its owner commit together.
WriteOrganization(r) ==
  LET h == requests[r]
  IN  /\ Writes(r, {"CreateForUser"})
      /\ \E o \in Organizations \ DOMAIN organizations :
           /\ organizations' =
                [x \in DOMAIN organizations \union {o} |->
                   IF x = o THEN [owner |-> h.user, ceiling |-> h.write.ceiling] ELSE organizations[x]]
           /\ profiles' =
                [p \in DOMAIN profiles \union {OrganizationAdmin(o)} |->
                   IF p = OrganizationAdmin(o) THEN [scope |-> o, grants |-> Grants, api |-> {}]
                   ELSE profiles[p]]
           /\ participants' =
                [m \in DOMAIN participants \union {<<h.user, o>>} |->
                   IF m = <<h.user, o>> THEN OrganizationAdmin(o) ELSE participants[m]]
      /\ UNCHANGED <<current, defaultProfile, metadata, history>>

WriteParticipant(r) ==
  LET h == requests[r]
  IN  /\ Writes(r, {"UpdateParticipant"})
      /\ participants' = [participants EXCEPT ![<<h.write.user, h.org>>] = h.write.profile]
      /\ HandsOut(h, Granted(h.write.profile))
      /\ UNCHANGED <<organizations, profiles, current, defaultProfile, metadata, intended, raced>>

WriteNewProfile(r) ==
  LET h == requests[r]
  IN  /\ Writes(r, {"CreateProfile"})
      /\ \E p \in Drafts \ DOMAIN profiles :
           profiles' = [q \in DOMAIN profiles \union {p} |->
                          IF q = p THEN [scope |-> h.org, grants |-> h.write.grants, api |-> {}]
                          ELSE profiles[q]]
      /\ HandsOut(h, h.write.grants)
      /\ UNCHANGED <<organizations, participants, current, defaultProfile, metadata, intended, raced>>

WriteProfile(r) ==
  LET h == requests[r]
      w == h.write
  IN  /\ Writes(r, {"UpdateProfile"})
      /\ IF w.grants = Unset THEN UNCHANGED <<profiles, handed>>
         ELSE /\ profiles' = [profiles EXCEPT ![w.profile].grants = w.grants, ![w.profile].api = w.api]
              /\ HandsOut(h, w.grants \union w.api)
      /\ WritePatch(Row("profiles", w.profile), w)
      /\ UNCHANGED <<organizations, participants, current, defaultProfile>>

WriteUserPool(r) ==
  LET h == requests[r]
      w == h.write
  IN  /\ Writes(r, {"UpdateUserPool"})
      /\ IF w.profile = Unset THEN UNCHANGED <<defaultProfile, handed>>
         ELSE defaultProfile' = w.profile /\ HandsOut(h, Granted(w.profile))
      /\ WritePatch(Pool, w)
      /\ UNCHANGED <<organizations, participants, profiles, current>>

WriteMetadata(r) ==
  /\ Writes(r, {"UpdateForCaller", "UpdateApp", "UpdateUser", "UpdateSelf"})
  /\ WritePatch(requests[r].write.row, requests[r].write)
  /\ UNCHANGED <<organizations, participants, profiles, current, defaultProfile, handed>>

\* A refusal, an error or a crash: no handler has anything to undo.
Fail(r) == requests[r].pc # "answered" /\ Ends(r) /\ UNCHANGED <<tables, history>>

Service(r) ==
  \/ Switch(r) \/ CreateForUser(r) \/ UpdateForCaller(r) \/ UpdateParticipant(r)
  \/ CreateProfile(r) \/ UpdateProfile(r)
  \/ UpdateUserPool(r) \/ UpdateApp(r) \/ UpdateUser(r) \/ UpdateSelf(r)

Write(r) ==
  \/ WriteCurrent(r) \/ WriteOrganization(r) \/ WriteParticipant(r) \/ WriteNewProfile(r)
  \/ WriteProfile(r) \/ WriteUserPool(r) \/ WriteMetadata(r)

Next == \E r \in Requests : AuthGuard(r) \/ OrganizationGuard(r) \/ Service(r) \/ Write(r) \/ Fail(r)

Spec == Init /\ [][Next]_vars

-----------------------------------------------------------------------------
(* Properties *)

\* Types, and that nothing names a row that is not there: an owner participates in
\* its organization, a user in its current one, every ceiling and default exists.
TypeOK ==
  /\ organizations \in [DOMAIN organizations -> [owner : Users, ceiling : DOMAIN profiles]]
  /\ DOMAIN organizations \subseteq Organizations
  /\ participants \in [DOMAIN participants -> DOMAIN profiles]
  /\ DOMAIN participants \subseteq Users \X DOMAIN organizations
  /\ \A o \in DOMAIN organizations : <<organizations[o].owner, o>> \in DOMAIN participants
  /\ profiles \in [DOMAIN profiles ->
                     [scope : DOMAIN organizations \union {Global},
                      grants : SUBSET Grants, api : SUBSET Grants]]
  /\ DOMAIN profiles \subseteq Profiles
  /\ current \in [Users -> Organizations]
  /\ \A u \in Users : <<u, current[u]>> \in DOMAIN participants
  /\ defaultProfile \in DOMAIN profiles
  /\ metadata \in [Rows -> Metadata]
  /\ handed \in [Organizations -> SUBSET Grants]
  /\ raced \subseteq Rows

\* "What stops two narrow participants from promoting each other" (UpdateParticipant):
\* whatever the members of an organization do to each other's profiles and to the
\* default of its pool, at once or in turns, none of them comes to hold more than its
\* owner has handed out to some of them.
NobodyOutgrows ==
  /\ \A m \in DOMAIN participants :
       m[1] # organizations[m[2]].owner => Granted(participants[m]) \subseteq handed[m[2]]
  /\ Granted(defaultProfile) \subseteq handed[Root]

\* "Nobody can lock everyone out of it": whatever the members rewrite, the owner of an
\* organization holds all of its ceiling, and the seeded organization is limited by
\* nothing, though its ceiling is a row its own members may edit.
OwnersKeepTheirCeiling ==
  /\ \A o \in DOMAIN organizations :
       Held(organizations[o].owner, o) = Granted(organizations[o].ceiling)
  /\ Granted(organizations[Root].ceiling) = Grants

\* "Would authorize the write with powers held elsewhere": a request may reach another
\* organization through its ceiling, and never through what its participants are on.
OtherOrganizationsUntouched ==
  [][\A r \in Requests :
       Write(r) =>
         \A m \in DOMAIN participants :
           m[2] # requests[r].org =>
             /\ participants'[m] = participants[m]
             /\ Granted(participants[m])' = Granted(participants[m])]_vars

\* "Closes self elevation" (writable): by its own write a member never comes to hold,
\* in any organization that was there, more than it has or had in its guards.
NobodyElevatesItself ==
  [][\A r \in Requests :
       Write(r) =>
         \A m \in DOMAIN participants :
           m[1] = requests[r].user =>
             Held(m[1], m[2])' \subseteq Held(m[1], m[2]) \union requests[r].held]_vars

\* "The request wins on the keys it names" and on no other: a row no two patches have
\* raced for holds what the patches make of it one by one.  Neither an edit of its
\* other columns nor a write to another row undoes a patch.
PatchesStick == \A row \in Rows \ raced : metadata[row] = intended[row]
=============================================================================
