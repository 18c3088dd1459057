---------------------------- MODULE GovernanceProofs ----------------------------
(* Proofs about Governance, for any users, organizations, profiles and requests. *)
EXTENDS Governance, TLAPS

-----------------------------------------------------------------------------
(* What the tables keep *)

\* The row that the owner of an organization participates with.
OwnersRow(o) == IF o = Root THEN AdminProfile ELSE OrganizationAdmin(o)

OrganizationsOK ==
  /\ organizations \in [DOMAIN organizations -> [owner : Users, ceiling : DOMAIN profiles]]
  /\ DOMAIN organizations \subseteq Organizations
  /\ Root \in DOMAIN organizations /\ organizations[Root].ceiling = AdminProfile

ParticipantsOK ==
  /\ participants \in [DOMAIN participants -> DOMAIN profiles]
  /\ DOMAIN participants \subseteq Users \X DOMAIN organizations
  /\ \A m \in DOMAIN participants : profiles[participants[m]].scope \in {Global, m[2]}
  /\ \A o \in DOMAIN organizations :
       /\ <<organizations[o].owner, o>> \in DOMAIN participants
       /\ participants[<<organizations[o].owner, o>>] = OwnersRow(o)

ProfilesOK ==
  /\ profiles \in [DOMAIN profiles ->
                     [scope : DOMAIN organizations \union {Global},
                      grants : SUBSET Grants, api : SUBSET Grants]]
  /\ DOMAIN profiles \subseteq Profiles /\ AdminProfile \in DOMAIN profiles
  /\ \A p \in DOMAIN profiles : profiles[p].api = IF p = AdminProfile THEN Grants ELSE {}
  /\ \A o \in Organizations : OrganizationAdmin(o) \in DOMAIN profiles =>
       o \in DOMAIN organizations /\ profiles[OrganizationAdmin(o)].grants = Grants

PlacesOK ==
  /\ current \in [Users -> Organizations]
  /\ \A u \in Users : <<u, current[u]>> \in DOMAIN participants
  /\ defaultProfile \in DOMAIN profiles /\ profiles[defaultProfile].scope \in {Global, Root}

MetadataOK ==
  /\ metadata \in [Rows -> Metadata] /\ intended \in [Rows -> Metadata] /\ raced \subseteq Rows
  /\ PatchesStick

HandedOK == handed \in [Organizations -> SUBSET Grants]

Books ==
  OrganizationsOK /\ ParticipantsOK /\ ProfilesOK /\ PlacesOK /\ MetadataOK /\ HandedOK /\ NobodyOutgrows

-----------------------------------------------------------------------------
(* What a request knows, from its reads to its write *)

Who(h) == h.user \in Users /\ h.org \in DOMAIN organizations

KnowsCaller(h) ==
  h.pc \in {"authenticated", "authorized"} =>
    /\ Who(h) /\ h.ceiling \subseteq Grants
    /\ h.seen[Row("users", h.user)] \in Metadata /\ h.seen[Row("organizations", h.org)] \in Metadata

\* Whoever does not own the organization holds what was handed out in it.
KnowsHeld(h) ==
  h.pc \in {"authorized", "writing"} =>
    /\ Who(h) /\ h.held \subseteq Grants
    /\ organizations[h.org].owner # h.user => h.held \subseteq handed[h.org]

\* A row it may put somebody on.
Fitting(h, p) ==
  /\ p \in DOMAIN profiles /\ profiles[p].scope \in {Global, h.org}
  /\ organizations[h.org].owner # h.user => Granted(p) \subseteq handed[h.org]

KnowsMove(h) ==
  /\ h.write.user \notin {h.user, organizations[h.org].owner}
  /\ <<h.write.user, h.org>> \in DOMAIN participants
  /\ Fitting(h, h.write.profile)

KnowsPatch(w) == w.patch \in Patches \union {Unset} /\ w.seen \in Metadata

KnowsEdit(h) ==
  LET p == h.write.profile
  IN  /\ p \in DOMAIN profiles \ Admins /\ profiles[p].scope = h.org
      /\ h.write.grants # Unset => h.write.grants \subseteq h.held
      /\ h.write.api = profiles[p].api
      /\ KnowsPatch(h.write)

KnowsDefault(h) ==
  /\ h.org = Root /\ KnowsPatch(h.write)
  /\ h.write.profile # Unset => Fitting(h, h.write.profile)

MetadataOps == {"UpdateForCaller", "UpdateApp", "UpdateUser", "UpdateSelf"}

KnowsWrite(h) ==
  h.pc = "writing" =>
    /\ h.op = "Switch" => h.write.to \in Organizations /\ <<h.user, h.write.to>> \in DOMAIN participants
    /\ h.op = "CreateForUser" => h.write.ceiling \in DOMAIN profiles
    /\ h.op = "UpdateParticipant" => KnowsMove(h)
    /\ h.op = "CreateProfile" => h.write.grants \subseteq h.held
    /\ h.op = "UpdateProfile" => KnowsEdit(h)
    /\ h.op = "UpdateUserPool" => KnowsDefault(h)
    /\ h.op \in MetadataOps => h.write.row \in Rows /\ KnowsPatch(h.write)

Knows(h) == KnowsCaller(h) /\ KnowsHeld(h) /\ KnowsWrite(h)

RequestsKnow == DOMAIN requests = Requests /\ \A r \in Requests : Knows(requests[r])

IInv == Books /\ RequestsKnow

-----------------------------------------------------------------------------
(* What every step leaves as it is *)

\* Rows are only added, their scopes and owners stay, and what an organization was
\* handed bounds the same rows as before.
Grows ==
  /\ DOMAIN organizations \subseteq DOMAIN organizations'
  /\ \A o \in DOMAIN organizations : organizations'[o] = organizations[o]
  /\ DOMAIN participants \subseteq DOMAIN participants'
  /\ DOMAIN profiles \subseteq DOMAIN profiles'
  /\ \A p \in DOMAIN profiles : profiles'[p].scope = profiles[p].scope /\ profiles'[p].api = profiles[p].api
  /\ \A o \in DOMAIN organizations : handed[o] \subseteq handed'[o]
  /\ \A o \in DOMAIN organizations, p \in DOMAIN profiles :
       profiles[p].scope \in {Global, o} /\ Granted(p) \subseteq handed[o] => Granted(p)' \subseteq handed'[o]

LEMMA FittingStays ==
  ASSUME Grows, NEW h, Who(h), NEW p, Fitting(h, p)
  PROVE  Fitting(h, p)'
BY DEF Grows, Fitting, Who

LEMMA HeldStays ==
  ASSUME Grows, NEW h, KnowsHeld(h)
  PROVE  KnowsHeld(h)'
<1> SUFFICES ASSUME h.pc \in {"authorized", "writing"}
             PROVE  /\ Who(h)' /\ h.held \subseteq Grants
                    /\ (organizations'[h.org].owner # h.user => h.held \subseteq handed'[h.org])
  BY DEF KnowsHeld
<1> QED
  BY DEF KnowsHeld, Who, Grows

LEMMA KnowledgeStays ==
  ASSUME Grows, NEW h, Knows(h)
  PROVE  Knows(h)'
<1>1. KnowsCaller(h)'
  BY DEF Knows, KnowsCaller, Who, Grows
<1>2. KnowsHeld(h)'
  BY HeldStays DEF Knows
<1>3. KnowsWrite(h)'
  <2> SUFFICES ASSUME h.pc = "writing"
               PROVE  KnowsWrite(h)'
    BY DEF KnowsWrite
  <2>1. Who(h)
    BY DEF Knows, KnowsHeld
  <2>2. ASSUME KnowsMove(h)
        PROVE  KnowsMove(h)'
    <3>1. Fitting(h, h.write.profile)'
      BY <2>1, <2>2, FittingStays DEF KnowsMove
    <3>2. organizations'[h.org].owner = organizations[h.org].owner /\ DOMAIN participants \subseteq DOMAIN participants'
      BY <2>1 DEF Who, Grows
    <3> QED
      BY <2>2, <3>1, <3>2 DEF KnowsMove
  <2>3. ASSUME KnowsEdit(h)
        PROVE  KnowsEdit(h)'
    BY <2>3 DEF KnowsEdit, KnowsPatch, Grows
  <2>4. ASSUME KnowsDefault(h)
        PROVE  KnowsDefault(h)'
    <3>1. h.write.profile # Unset => Fitting(h, h.write.profile)'
      BY <2>1, <2>4, FittingStays DEF KnowsDefault
    <3> QED
      BY <2>4, <3>1 DEF KnowsDefault, KnowsPatch
  <2>5. DOMAIN participants \subseteq DOMAIN participants' /\ DOMAIN profiles \subseteq DOMAIN profiles'
    BY DEF Grows
  <2> QED
    BY <2>2, <2>3, <2>4, <2>5 DEF Knows, KnowsWrite, KnowsPatch
<1> QED
  BY <1>1, <1>2, <1>3 DEF Knows

LEMMA RequestsStay ==
  ASSUME RequestsKnow, Grows, NEW r \in Requests, NEW h, Goes(r, h), Knows(h)'
  PROVE  RequestsKnow'
<1>1. ASSUME NEW q \in Requests
      PROVE  Knows(requests[q])'
  <2>1. CASE q = r
    <3>1. requests'[q] = h
      BY <2>1 DEF Goes, RequestsKnow
    <3> QED
      BY <3>1 DEF Knows, KnowsCaller, KnowsHeld, KnowsWrite, Who, KnowsMove, KnowsEdit, KnowsDefault, Fitting, KnowsPatch
  <2>2. CASE q # r
    <3>1. PICK g : g = requests[q]
      OBVIOUS
    <3>2. requests'[q] = g /\ Knows(g)
      BY <2>2, <3>1 DEF Goes, RequestsKnow
    <3>3. Knows(g)'
      BY <3>2, KnowledgeStays
    <3> QED
      BY <3>2, <3>3 DEF Knows, KnowsCaller, KnowsHeld, KnowsWrite, Who, KnowsMove, KnowsEdit, KnowsDefault, Fitting, KnowsPatch
  <2> QED
    BY <2>1, <2>2
<1> QED
  BY <1>1 DEF RequestsKnow, Goes

\* A request that has been answered knows nothing.
LEMMA EndsStay ==
  ASSUME RequestsKnow, Grows, NEW r \in Requests, Ends(r)
  PROVE  RequestsKnow'
<1> DEFINE h == [pc |-> "answered"]
<1>1. h.pc = "answered"
  OBVIOUS
<1> HIDE DEF h
<1>2. Knows(h)'
  BY <1>1 DEF Knows, KnowsCaller, KnowsHeld, KnowsWrite
<1>3. Goes(r, h)
  BY DEF Ends, h
<1> QED
  BY <1>2, <1>3, RequestsStay

LEMMA NothingGrows ==
  ASSUME UNCHANGED <<tables, history>>
  PROVE  Grows /\ (Books => Books')
<1>1. Grows
  BY DEF Grows, Granted, tables, history
<1>2. Books => Books'
  BY DEF tables, history, Books, OrganizationsOK, ParticipantsOK, ProfilesOK, PlacesOK, MetadataOK, HandedOK,
         NobodyOutgrows, PatchesStick, Granted, OwnersRow
<1> QED
  BY <1>1, <1>2

-----------------------------------------------------------------------------
(* The reads *)

LEMMA HeldIsGrants ==
  ASSUME ProfilesOK, NEW p \in DOMAIN profiles
  PROVE  /\ Granted(p) \subseteq Grants
         /\ profiles[p].scope \in DOMAIN organizations \union {Global}
         /\ p = AdminProfile => Granted(p) = Grants
         /\ p # AdminProfile => Granted(p) = profiles[p].grants
<1>1. profiles[p] \in [scope : DOMAIN organizations \union {Global},
                       grants : SUBSET Grants, api : SUBSET Grants]
  BY DEF ProfilesOK
<1>2. profiles[p].api = IF p = AdminProfile THEN Grants ELSE {}
  BY DEF ProfilesOK
<1> QED
  BY <1>1, <1>2 DEF Granted

\* A step of a request that changes nothing but what it knows.
LEMMA ReadStep ==
  ASSUME IInv, NEW r \in Requests, NEW h, Goes(r, h), Knows(h), UNCHANGED <<tables, history>>
  PROVE  IInv'
<1>1. Grows /\ Books'
  BY NothingGrows DEF IInv
<1>2. Knows(h)'
  BY <1>1, KnowledgeStays
<1> QED
  BY <1>1, <1>2, RequestsStay DEF IInv

LEMMA AuthGuardStep ==
  ASSUME IInv, NEW r \in Requests, AuthGuard(r)
  PROVE  IInv'
<1>1. Books /\ RequestsKnow /\ UNCHANGED <<tables, history>>
  BY DEF IInv, AuthGuard
<1>2. PICK u \in Users :
        Goes(r, [pc |-> "authenticated", user |-> u, org |-> current[u],
                 ceiling |-> Granted(organizations[current[u]].ceiling),
                 seen |-> [row \in {Row("users", u), Row("organizations", current[u])} |-> metadata[row]]])
  BY DEF AuthGuard
<1>3. PICK o, ceiling, seen :
        /\ o = current[u] /\ ceiling = Granted(organizations[o].ceiling)
        /\ seen = [row \in {Row("users", u), Row("organizations", o)} |-> metadata[row]]
  OBVIOUS
<1>4. o \in DOMAIN organizations /\ o \in Organizations
  BY <1>1, <1>3 DEF Books, PlacesOK, ParticipantsOK, OrganizationsOK
<1>5. ceiling \subseteq Grants
  <2>1. organizations[o].ceiling \in DOMAIN profiles
    BY <1>1, <1>4 DEF Books, OrganizationsOK
  <2> QED
    BY <1>1, <1>3, <2>1, HeldIsGrants DEF Books
<1>6. seen[Row("users", u)] \in Metadata /\ seen[Row("organizations", o)] \in Metadata
  <2>1. Row("users", u) \in Rows /\ Row("organizations", o) \in Rows
    BY <1>4 DEF Rows
  <2>2. metadata[Row("users", u)] \in Metadata /\ metadata[Row("organizations", o)] \in Metadata
    BY <1>1, <2>1 DEF Books, MetadataOK
  <2> QED
    BY <1>3, <2>2
<1> DEFINE h == [pc |-> "authenticated", user |-> u, org |-> o, ceiling |-> ceiling, seen |-> seen]
<1>7. /\ h.pc = "authenticated" /\ h.user = u /\ h.org = o /\ h.ceiling = ceiling /\ h.seen = seen
  OBVIOUS
<1>8. Goes(r, h)
  BY <1>2, <1>3
<1> HIDE DEF h
<1>9. Knows(h)
  BY <1>4, <1>5, <1>6, <1>7 DEF Knows, KnowsCaller, KnowsHeld, KnowsWrite, Who
<1> QED
  BY <1>1, <1>8, <1>9, ReadStep

\* Whoever participates without owning holds no more than was handed out.
LEMMA MembersHold ==
  ASSUME Books, NEW u, NEW o, <<u, o>> \in DOMAIN participants
  PROVE  /\ participants[<<u, o>>] \in DOMAIN profiles
         /\ organizations[o].owner # u => Granted(participants[<<u, o>>]) \subseteq handed[o]
<1> DEFINE m == <<u, o>>
<1>1. m[1] = u /\ m[2] = o /\ m \in DOMAIN participants
  OBVIOUS
<1> HIDE DEF m
<1>2. participants[m] \in DOMAIN profiles
  BY <1>1 DEF Books, ParticipantsOK
<1>3. organizations[o].owner # u => Granted(participants[m]) \subseteq handed[o]
  BY <1>1 DEF Books, NobodyOutgrows
<1> QED
  BY <1>2, <1>3 DEF m

LEMMA OrganizationGuardStep ==
  ASSUME IInv, NEW r \in Requests, OrganizationGuard(r)
  PROVE  IInv'
<1>1. Books /\ RequestsKnow /\ UNCHANGED <<tables, history>>
  BY DEF IInv, OrganizationGuard
<1>2. PICK g : g = requests[r]
  OBVIOUS
<1>3. Knows(g) /\ g.pc = "authenticated" /\ <<g.user, g.org>> \in DOMAIN participants
  BY <1>1, <1>2 DEF OrganizationGuard, RequestsKnow
<1>4. PICK own, held : own = participants[<<g.user, g.org>>] /\ held = g.ceiling \intersect Granted(own)
  OBVIOUS
<1> DEFINE h == [pc |-> "authorized", user |-> g.user, org |-> g.org, ceiling |-> g.ceiling,
                 seen |-> g.seen, own |-> own, held |-> held]
<1>5. Goes(r, h)
  BY <1>2, <1>4 DEF OrganizationGuard
<1>6. /\ h.pc = "authorized" /\ h.user = g.user /\ h.org = g.org /\ h.ceiling = g.ceiling
      /\ h.seen = g.seen /\ h.held = held
  OBVIOUS
<1> HIDE DEF h
<1>7. /\ Who(g) /\ g.ceiling \subseteq Grants
      /\ g.seen[Row("users", g.user)] \in Metadata /\ g.seen[Row("organizations", g.org)] \in Metadata
  BY <1>3 DEF Knows, KnowsCaller
<1>8. held \subseteq g.ceiling /\ held \subseteq Granted(own)
  BY <1>4
<1>9. organizations[g.org].owner # g.user => held \subseteq handed[g.org]
  BY <1>1, <1>3, <1>4, <1>8, MembersHold
<1>10. Knows(h)
  BY <1>6, <1>7, <1>8, <1>9 DEF Knows, KnowsCaller, KnowsHeld, KnowsWrite, Who
<1> QED
  BY <1>1, <1>5, <1>10, ReadStep

\* What a service is about to write is all that has to be shown of its decision.
LEMMA DecidesStep ==
  ASSUME IInv, NEW r \in Requests, NEW op, NEW w, Decides(r, op, w),
         NEW g, g = requests[r],
         NEW h, h = [pc |-> "writing", op |-> op, user |-> g.user, org |-> g.org, own |-> g.own,
                     held |-> g.held, write |-> w],
         KnowsWrite(h)
  PROVE  IInv'
<1>1. Books /\ RequestsKnow /\ UNCHANGED <<tables, history>> /\ Goes(r, h) /\ g.pc = "authorized"
  BY DEF IInv, Decides, Permitted
<1>2. Knows(g)
  BY <1>1 DEF RequestsKnow
<1>3. h.pc = "writing" /\ h.user = g.user /\ h.org = g.org /\ h.held = g.held
  OBVIOUS
<1>4. Knows(h)
  BY <1>1, <1>2, <1>3 DEF Knows, KnowsCaller, KnowsHeld, Who
<1> QED
  BY <1>1, <1>4, ReadStep

-----------------------------------------------------------------------------
(* The decisions *)

\* What a request has learnt of its caller when it decides.
LEMMA Caller ==
  ASSUME IInv, NEW r \in Requests, NEW g, g = requests[r], NEW op, Permitted(g, op)
  PROVE  /\ g.user \in Users /\ g.org \in DOMAIN organizations /\ g.org \in Organizations
         /\ g.held \subseteq Grants
         /\ organizations[g.org].owner # g.user => g.held \subseteq handed[g.org]
         /\ g.seen[Row("users", g.user)] \in Metadata /\ g.seen[Row("organizations", g.org)] \in Metadata
<1>1. Knows(g) /\ g.pc = "authorized"
  BY DEF IInv, RequestsKnow, Permitted
<1>2. DOMAIN organizations \subseteq Organizations
  BY DEF IInv, Books, OrganizationsOK
<1> QED
  BY <1>1, <1>2 DEF Knows, KnowsCaller, KnowsHeld, Who

\* The request that has decided.
Decided(g, op, w) ==
  [pc |-> "writing", op |-> op, user |-> g.user, org |-> g.org, own |-> g.own, held |-> g.held, write |-> w]

LEMMA DecidedIs ==
  ASSUME NEW g, NEW op, NEW w
  PROVE  /\ Decided(g, op, w).pc = "writing" /\ Decided(g, op, w).op = op /\ Decided(g, op, w).write = w
         /\ Decided(g, op, w).user = g.user /\ Decided(g, op, w).org = g.org /\ Decided(g, op, w).held = g.held
BY DEF Decided

LEMMA SwitchStep ==
  ASSUME IInv, NEW r \in Requests, Switch(r)
  PROVE  IInv'
<1>1. PICK g : g = requests[r]
  OBVIOUS
<1>2. PICK o \in DOMAIN organizations :
        Permitted(g, "Switch") /\ <<g.user, o>> \in DOMAIN participants /\ Decides(r, "Switch", [to |-> o])
  BY <1>1 DEF Switch
<1>3. PICK h : h = Decided(g, "Switch", [to |-> o])
  OBVIOUS
<1>4. h.op = "Switch" /\ h.write.to = o /\ h.user = g.user
  BY <1>3, DecidedIs
<1>5. o \in Organizations
  BY DEF IInv, Books, OrganizationsOK
<1>6. KnowsWrite(h)
  BY <1>2, <1>4, <1>5 DEF KnowsWrite, MetadataOps
<1> QED
  BY <1>1, <1>2, <1>3, <1>6, DecidesStep DEF Decided

LEMMA CreateForUserStep ==
  ASSUME IInv, NEW r \in Requests, CreateForUser(r)
  PROVE  IInv'
<1>1. PICK g : g = requests[r]
  OBVIOUS
<1>2. PICK p \in DOMAIN profiles : Decides(r, "CreateForUser", [ceiling |-> p])
  BY <1>1 DEF CreateForUser
<1>3. PICK h : h = Decided(g, "CreateForUser", [ceiling |-> p])
  OBVIOUS
<1>4. h.op = "CreateForUser" /\ h.write.ceiling = p
  BY <1>3, DecidedIs
<1>5. KnowsWrite(h)
  BY <1>2, <1>4 DEF KnowsWrite, MetadataOps
<1> QED
  BY <1>1, <1>2, <1>3, <1>5, DecidesStep DEF Decided

LEMMA UpdateParticipantStep ==
  ASSUME IInv, NEW r \in Requests, UpdateParticipant(r)
  PROVE  IInv'
<1>1. PICK g : g = requests[r]
  OBVIOUS
<1>2. PICK u \in Users, p \in DOMAIN profiles :
        /\ Permitted(g, "UpdateParticipant") /\ Movable(g, u) /\ VisibleTo(p, g.org) /\ WithinHeld(g, Granted(p))
        /\ Decides(r, "UpdateParticipant", [user |-> u, profile |-> p])
  BY <1>1 DEF UpdateParticipant
<1>3. PICK h : h = Decided(g, "UpdateParticipant", [user |-> u, profile |-> p])
  OBVIOUS
<1>4. /\ h.op = "UpdateParticipant" /\ h.write.user = u /\ h.write.profile = p
      /\ h.user = g.user /\ h.org = g.org
  BY <1>3, DecidedIs
<1>5. organizations[g.org].owner # g.user => Granted(p) \subseteq handed[g.org]
  <2>1. organizations[g.org].owner # g.user => g.held \subseteq handed[g.org]
    BY <1>1, <1>2, Caller
  <2> QED
    BY <1>2, <2>1 DEF WithinHeld
<1>6. Fitting(h, p)
  BY <1>2, <1>4, <1>5 DEF Fitting, VisibleTo
<1>7. KnowsMove(h)
  BY <1>2, <1>4, <1>6 DEF KnowsMove, Movable
<1>8. KnowsWrite(h)
  BY <1>4, <1>7 DEF KnowsWrite, MetadataOps
<1> QED
  BY <1>1, <1>2, <1>3, <1>8, DecidesStep DEF Decided

LEMMA CreateProfileStep ==
  ASSUME IInv, NEW r \in Requests, CreateProfile(r)
  PROVE  IInv'
<1>1. PICK g : g = requests[r]
  OBVIOUS
<1>2. PICK grants \in Documents :
        WithinHeld(g, grants) /\ Decides(r, "CreateProfile", [grants |-> grants])
  BY <1>1 DEF CreateProfile
<1>3. PICK h : h = Decided(g, "CreateProfile", [grants |-> grants])
  OBVIOUS
<1>4. h.op = "CreateProfile" /\ h.write.grants = grants /\ h.held = g.held
  BY <1>3, DecidedIs
<1>5. KnowsWrite(h)
  BY <1>2, <1>4 DEF KnowsWrite, MetadataOps, WithinHeld
<1> QED
  BY <1>1, <1>2, <1>3, <1>5, DecidesStep DEF Decided

LEMMA UpdateProfileStep ==
  ASSUME IInv, NEW r \in Requests, UpdateProfile(r)
  PROVE  IInv'
<1>1. PICK g : g = requests[r]
  OBVIOUS
<1>2. PICK p \in DOMAIN profiles, patch \in Patches \union {Unset}, grants \in Documents \union {Unset} :
        /\ VisibleTo(p, g.org) /\ Writable(g, p) /\ (grants # Unset => WithinHeld(g, grants))
        /\ Decides(r, "UpdateProfile",
                   [profile |-> p, grants |-> grants, api |-> CarriedOver(p),
                    patch |-> patch, seen |-> metadata[Row("profiles", p)]])
  BY <1>1 DEF UpdateProfile
<1>3. PICK w : w = [profile |-> p, grants |-> grants, api |-> CarriedOver(p),
                    patch |-> patch, seen |-> metadata[Row("profiles", p)]]
  OBVIOUS
<1>4. /\ w.profile = p /\ w.grants = grants /\ w.api = profiles[p].api /\ w.patch = patch
      /\ w.seen = metadata[Row("profiles", p)]
  BY <1>3 DEF CarriedOver
<1>5. PICK h : h = Decided(g, "UpdateProfile", w)
  OBVIOUS
<1>6. h.op = "UpdateProfile" /\ h.write = w /\ h.org = g.org /\ h.held = g.held
  BY <1>5, DecidedIs
<1>7. metadata[Row("profiles", p)] \in Metadata
  <2>1. Row("profiles", p) \in Rows
    BY DEF IInv, Books, ProfilesOK, Rows
  <2> QED
    BY <2>1 DEF IInv, Books, MetadataOK
<1>8. p \in DOMAIN profiles \ Admins /\ profiles[p].scope = g.org
  BY <1>2 DEF Writable, VisibleTo
<1>9. KnowsEdit(h)
  BY <1>2, <1>4, <1>6, <1>7, <1>8 DEF KnowsEdit, KnowsPatch, WithinHeld
<1>10. KnowsWrite(h)
  BY <1>6, <1>9 DEF KnowsWrite, MetadataOps
<1>11. Decides(r, "UpdateProfile", w)
  BY <1>2, <1>3
<1> QED
  BY <1>1, <1>5, <1>10, <1>11, DecidesStep DEF Decided

LEMMA UpdateUserPoolStep ==
  ASSUME IInv, NEW r \in Requests, UpdateUserPool(r)
  PROVE  IInv'
<1>1. PICK g : g = requests[r]
  OBVIOUS
<1>2. PICK p \in DOMAIN profiles \union {Unset}, patch \in Patches \union {Unset} :
        /\ Permitted(g, "UpdateUserPool") /\ g.org = Root
        /\ (p # Unset => ResolveDefaultProfile(g, p))
        /\ Decides(r, "UpdateUserPool", [profile |-> p, patch |-> patch, seen |-> metadata[Pool]])
  BY <1>1 DEF UpdateUserPool
<1>3. PICK w : w = [profile |-> p, patch |-> patch, seen |-> metadata[Pool]]
  OBVIOUS
<1>4. w.profile = p /\ w.patch = patch /\ w.seen = metadata[Pool]
  BY <1>3
<1>5. PICK h : h = Decided(g, "UpdateUserPool", w)
  OBVIOUS
<1>6. h.op = "UpdateUserPool" /\ h.write = w /\ h.org = g.org /\ h.user = g.user
  BY <1>5, DecidedIs
<1>7. metadata[Pool] \in Metadata
  <2>1. Pool \in Rows
    BY DEF Rows
  <2> QED
    BY <2>1 DEF IInv, Books, MetadataOK
<1>8. organizations[g.org].owner # g.user => g.held \subseteq handed[g.org]
  BY <1>1, <1>2, Caller
<1>9. p # Unset => Fitting(h, p)
  BY <1>2, <1>6, <1>8 DEF Fitting, ResolveDefaultProfile, VisibleTo, WithinHeld
<1>10. KnowsDefault(h)
  BY <1>2, <1>4, <1>6, <1>7, <1>9 DEF KnowsDefault, KnowsPatch
<1>11. KnowsWrite(h)
  BY <1>6, <1>10 DEF KnowsWrite, MetadataOps
<1>12. Decides(r, "UpdateUserPool", w)
  BY <1>2, <1>3
<1> QED
  BY <1>1, <1>5, <1>11, <1>12, DecidesStep DEF Decided

\* The four that write metadata alone.
LEMMA PatchStep ==
  ASSUME IInv, NEW r \in Requests, NEW op \in MetadataOps, NEW row \in Rows, NEW patch \in Patches,
         NEW seen \in Metadata, Decides(r, op, [row |-> row, patch |-> patch, seen |-> seen])
  PROVE  IInv'
<1>1. PICK g : g = requests[r]
  OBVIOUS
<1>2. PICK w : w = [row |-> row, patch |-> patch, seen |-> seen]
  OBVIOUS
<1>3. w.row = row /\ w.patch = patch /\ w.seen = seen
  BY <1>2
<1>4. PICK h : h = Decided(g, op, w)
  OBVIOUS
<1>5. h.op = op /\ h.write = w
  BY <1>4, DecidedIs
<1>6. KnowsWrite(h)
  BY <1>3, <1>5 DEF KnowsWrite, MetadataOps, KnowsPatch
<1> QED
  BY <1>1, <1>2, <1>4, <1>6, DecidesStep DEF Decided

LEMMA MetadataDecisionsStep ==
  ASSUME IInv, NEW r \in Requests, UpdateForCaller(r) \/ UpdateApp(r) \/ UpdateUser(r) \/ UpdateSelf(r)
  PROVE  IInv'
<1>1. PICK g : g = requests[r]
  OBVIOUS
<1>2. metadata \in [Rows -> Metadata]
  BY DEF IInv, Books, MetadataOK
<1>3. CASE UpdateForCaller(r)
  <2>1. PICK patch \in Patches :
          /\ Permitted(g, "UpdateForCaller")
          /\ Decides(r, "UpdateForCaller", [row |-> Row("organizations", g.org), patch |-> patch,
                                            seen |-> g.seen[Row("organizations", g.org)]])
    BY <1>1, <1>3 DEF UpdateForCaller
  <2>2. g.org \in Organizations /\ g.seen[Row("organizations", g.org)] \in Metadata
    BY <1>1, <2>1, Caller
  <2>3. Row("organizations", g.org) \in Rows
    BY <2>2 DEF Rows
  <2> QED
    BY <2>1, <2>2, <2>3, PatchStep DEF MetadataOps
<1>4. CASE UpdateApp(r)
  <2>1. PICK patch \in Patches : Decides(r, "UpdateApp", [row |-> App, patch |-> patch, seen |-> metadata[App]])
    BY <1>4 DEF UpdateApp
  <2>2. App \in Rows
    BY DEF Rows
  <2> QED
    BY <1>2, <2>1, <2>2, PatchStep DEF MetadataOps
<1>5. CASE UpdateUser(r)
  <2>1. PICK u \in Users, patch \in Patches :
          Decides(r, "UpdateUser", [row |-> Row("users", u), patch |-> patch, seen |-> metadata[Row("users", u)]])
    BY <1>5 DEF UpdateUser
  <2>2. Row("users", u) \in Rows
    BY DEF Rows
  <2> QED
    BY <1>2, <2>1, <2>2, PatchStep DEF MetadataOps
<1>6. CASE UpdateSelf(r)
  <2>1. PICK patch \in Patches :
          /\ Permitted(g, "UpdateSelf")
          /\ Decides(r, "UpdateSelf", [row |-> Row("users", g.user), patch |-> patch,
                                       seen |-> g.seen[Row("users", g.user)]])
    BY <1>1, <1>6 DEF UpdateSelf
  <2>2. g.user \in Users /\ g.seen[Row("users", g.user)] \in Metadata
    BY <1>1, <2>1, Caller
  <2>3. Row("users", g.user) \in Rows
    BY <2>2 DEF Rows
  <2> QED
    BY <2>1, <2>2, <2>3, PatchStep DEF MetadataOps
<1> QED
  BY <1>3, <1>4, <1>5, <1>6

LEMMA ServiceStep ==
  ASSUME IInv, NEW r \in Requests, Service(r)
  PROVE  IInv'
BY SwitchStep, CreateForUserStep, UpdateParticipantStep, CreateProfileStep, UpdateProfileStep,
   UpdateUserPoolStep, MetadataDecisionsStep DEF Service

-----------------------------------------------------------------------------
(* The writes *)

\* The request that writes, and what it knows.
LEMMA Writer ==
  ASSUME IInv, NEW r \in Requests, NEW g, g = requests[r], NEW ops, Writes(r, ops)
  PROVE  /\ g.pc = "writing" /\ g.op \in ops /\ Ends(r)
         /\ g.user \in Users /\ g.org \in DOMAIN organizations /\ g.org \in Organizations
         /\ g.held \subseteq Grants
         /\ organizations[g.org].owner # g.user => g.held \subseteq handed[g.org]
         /\ KnowsWrite(g) /\ Books /\ RequestsKnow
<1>1. Knows(g) /\ g.pc = "writing" /\ g.op \in ops /\ Ends(r)
  BY DEF IInv, RequestsKnow, Writes
<1>2. DOMAIN organizations \subseteq Organizations
  BY DEF IInv, Books, OrganizationsOK
<1> QED
  BY <1>1, <1>2 DEF Knows, KnowsHeld, Who, IInv

LEMMA HandedGrows ==
  ASSUME HandedOK, NEW g, g.org \in Organizations, NEW grants, grants \subseteq Grants, HandsOut(g, grants)
  PROVE  /\ HandedOK' /\ \A o \in Organizations : handed[o] \subseteq handed'[o]
         /\ organizations[g.org].owner = g.user => grants \subseteq handed'[g.org]
BY DEF HandedOK, HandsOut

\* A participation that stays keeps to what was handed out.
LEMMA BoundStays ==
  ASSUME Books, Grows, NEW m \in DOMAIN participants, participants'[m] = participants[m]
  PROVE  /\ m[2] \in DOMAIN organizations /\ organizations'[m[2]] = organizations[m[2]]
         /\ m[1] # organizations[m[2]].owner => Granted(participants[m])' \subseteq handed'[m[2]]
         /\ participants[m] \in DOMAIN profiles /\ profiles'[participants[m]].scope \in {Global, m[2]}
<1>1. participants[m] \in DOMAIN profiles /\ profiles[participants[m]].scope \in {Global, m[2]}
      /\ m[2] \in DOMAIN organizations
  BY DEF Books, ParticipantsOK
<1>2. m[1] # organizations[m[2]].owner => Granted(participants[m]) \subseteq handed[m[2]]
  BY DEF Books, NobodyOutgrows
<1>3. PICK p : p = participants[m]
  OBVIOUS
<1>4. /\ profiles'[p].scope = profiles[p].scope
      /\ Granted(p) \subseteq handed[m[2]] => Granted(p)' \subseteq handed'[m[2]]
  BY <1>1, <1>3 DEF Grows
<1>5. Granted(participants[m])' = Granted(p)'
  BY <1>3 DEF Granted
<1>6. organizations'[m[2]] = organizations[m[2]]
  BY <1>1 DEF Grows
<1> QED
  BY <1>1, <1>2, <1>3, <1>4, <1>5, <1>6

LEMMA DefaultStays ==
  ASSUME Books, Grows, defaultProfile' = defaultProfile
  PROVE  /\ defaultProfile' \in DOMAIN profiles' /\ profiles'[defaultProfile'].scope \in {Global, Root}
         /\ Granted(defaultProfile)' \subseteq handed'[Root]
<1>1. /\ defaultProfile \in DOMAIN profiles /\ profiles[defaultProfile].scope \in {Global, Root}
      /\ Granted(defaultProfile) \subseteq handed[Root] /\ Root \in DOMAIN organizations
  BY DEF Books, PlacesOK, NobodyOutgrows, OrganizationsOK
<1>2. PICK p : p = defaultProfile
  OBVIOUS
<1>3. p \in DOMAIN profiles' /\ profiles'[p].scope = profiles[p].scope /\ Granted(p)' \subseteq handed'[Root]
  BY <1>1, <1>2 DEF Grows
<1> QED
  BY <1>1, <1>2, <1>3 DEF Granted

\* The participations of a step that moves nobody and adds none.
LEMMA ParticipationsStay ==
  ASSUME Books, Grows, participants' = participants, organizations' = organizations
  PROVE  /\ ParticipantsOK'
         /\ \A m \in DOMAIN participants' :
              m[1] # organizations'[m[2]].owner => Granted(participants[m])' \subseteq handed'[m[2]]
<1>1. DOMAIN profiles \subseteq DOMAIN profiles'
  BY DEF Grows
<1>2. \A m \in DOMAIN participants : profiles'[participants[m]].scope \in {Global, m[2]}
  BY BoundStays
<1>3. ParticipantsOK'
  BY <1>1, <1>2 DEF Books, ParticipantsOK, OwnersRow
<1>4. \A m \in DOMAIN participants' :
        m[1] # organizations'[m[2]].owner => Granted(participants[m])' \subseteq handed'[m[2]]
  BY BoundStays
<1> QED
  BY <1>3, <1>4

LEMMA MetadataStays ==
  ASSUME MetadataOK, UNCHANGED <<metadata, intended, raced>>
  PROVE  MetadataOK'
BY DEF MetadataOK, PatchesStick

LEMMA MergeTyped ==
  ASSUME NEW stored \in Metadata, NEW patch \in Patches
  PROVE  MergeJsonPatch(stored, patch) \in Metadata
<1> DEFINE K == {k \in DOMAIN stored \union DOMAIN patch : k \in DOMAIN patch => patch[k] # Null}
           f == MergeJsonPatch(stored, patch)
<1>1. DOMAIN stored \subseteq Keys /\ \A k \in DOMAIN stored : stored[k] \in Values
  BY DEF Metadata
<1>2. DOMAIN patch \subseteq Keys /\ \A k \in DOMAIN patch : patch[k] # Null => patch[k] \in Values
  BY DEF Keys, Values
<1>3. f = [k \in K |-> IF k \in DOMAIN patch THEN patch[k] ELSE stored[k]]
  BY DEF MergeJsonPatch
<1>4. K \in SUBSET Keys
  BY <1>1, <1>2
<1>5. f \in [K -> Values]
  BY <1>1, <1>2, <1>3
<1> QED
  BY <1>4, <1>5 DEF Metadata

LEMMA PatchWritten ==
  ASSUME MetadataOK, NEW row \in Rows, NEW w, KnowsPatch(w), WritePatch(row, w)
  PROVE  MetadataOK'
<1>1. CASE w.patch = Unset
  BY <1>1, MetadataStays DEF WritePatch
<1>2. CASE w.patch # Unset
  <2>1. w.patch \in Patches /\ w.seen \in Metadata
    BY <1>2 DEF KnowsPatch
  <2>2. /\ metadata' = [metadata EXCEPT ![row] = MergeJsonPatch(w.seen, w.patch)]
        /\ intended' = [intended EXCEPT ![row] = MergeJsonPatch(intended[row], w.patch)]
        /\ raced' = IF metadata[row] = w.seen THEN raced ELSE raced \union {row}
    BY <1>2 DEF WritePatch
  <2>3. metadata \in [Rows -> Metadata] /\ intended \in [Rows -> Metadata] /\ raced \subseteq Rows
    BY DEF MetadataOK
  <2>4. MergeJsonPatch(w.seen, w.patch) \in Metadata /\ MergeJsonPatch(intended[row], w.patch) \in Metadata
    BY <2>1, <2>3, MergeTyped
  <2>5. metadata' \in [Rows -> Metadata] /\ intended' \in [Rows -> Metadata] /\ raced' \subseteq Rows
    BY <2>2, <2>3, <2>4
  <2>6. ASSUME NEW x \in Rows \ raced'
        PROVE  metadata'[x] = intended'[x]
    <3>1. x \notin raced
      BY <2>2, <2>6
    <3>2. metadata[x] = intended[x]
      BY <3>1 DEF MetadataOK, PatchesStick
    <3>3. CASE x = row
      <4>1. metadata[row] = w.seen
        BY <2>2, <2>6, <3>3
      <4> QED
        BY <2>2, <2>3, <3>2, <3>3, <4>1
    <3>4. CASE x # row
      BY <2>2, <2>3, <3>2, <3>4
    <3> QED
      BY <3>3, <3>4
  <2> QED
    BY <2>5, <2>6 DEF MetadataOK, PatchesStick
<1> QED
  BY <1>1, <1>2

LEMMA WriteCurrentStep ==
  ASSUME IInv, NEW r \in Requests, WriteCurrent(r)
  PROVE  Books' /\ Grows
<1>1. PICK g : g = requests[r]
  OBVIOUS
<1>2. g.op = "Switch" /\ KnowsWrite(g) /\ Books /\ g.pc = "writing" /\ g.user \in Users
  BY <1>1, Writer DEF WriteCurrent
<1>3. g.write.to \in Organizations /\ <<g.user, g.write.to>> \in DOMAIN participants
  BY <1>2 DEF KnowsWrite
<1>4. /\ current' = [current EXCEPT ![g.user] = g.write.to]
      /\ UNCHANGED <<organizations, participants, profiles, defaultProfile, metadata, history>>
  BY <1>1 DEF WriteCurrent
<1>5. Grows
  BY <1>4 DEF Grows, Granted, history
<1>6. PlacesOK'
  BY <1>2, <1>3, <1>4 DEF Books, PlacesOK
<1>7. OrganizationsOK' /\ ParticipantsOK' /\ ProfilesOK' /\ HandedOK' /\ NobodyOutgrows'
  BY <1>2, <1>4 DEF Books, OrganizationsOK, ParticipantsOK, ProfilesOK, HandedOK, NobodyOutgrows, OwnersRow,
                    Granted, history
<1>8. MetadataOK'
  BY <1>2, <1>4, MetadataStays DEF Books, history
<1> QED
  BY <1>5, <1>6, <1>7, <1>8 DEF Books

LEMMA WriteMetadataStep ==
  ASSUME IInv, NEW r \in Requests, WriteMetadata(r)
  PROVE  Books' /\ Grows
<1>1. PICK g : g = requests[r]
  OBVIOUS
<1>2. g.op \in MetadataOps /\ KnowsWrite(g) /\ Books /\ g.pc = "writing"
  BY <1>1, Writer DEF WriteMetadata, MetadataOps
<1>3. g.write.row \in Rows /\ KnowsPatch(g.write)
  BY <1>2 DEF KnowsWrite
<1>4. /\ WritePatch(g.write.row, g.write)
      /\ UNCHANGED <<organizations, participants, profiles, current, defaultProfile, handed>>
  BY <1>1 DEF WriteMetadata
<1>5. MetadataOK'
  BY <1>2, <1>3, <1>4, PatchWritten DEF Books
<1>6. Grows
  BY <1>4 DEF Grows, Granted
<1>7. OrganizationsOK' /\ ParticipantsOK' /\ ProfilesOK' /\ PlacesOK' /\ HandedOK' /\ NobodyOutgrows'
  BY <1>2, <1>4 DEF Books, OrganizationsOK, ParticipantsOK, ProfilesOK, PlacesOK, HandedOK, NobodyOutgrows,
                    OwnersRow, Granted
<1> QED
  BY <1>5, <1>6, <1>7 DEF Books

LEMMA WriteUserPoolStep ==
  ASSUME IInv, NEW r \in Requests, WriteUserPool(r)
  PROVE  Books' /\ Grows
<1>1. PICK g, w : g = requests[r] /\ w = g.write
  OBVIOUS
<1>2. g.op = "UpdateUserPool" /\ KnowsWrite(g) /\ Books /\ g.pc = "writing" /\ g.org \in Organizations
  BY <1>1, Writer DEF WriteUserPool
<1>3. g.org = Root /\ KnowsPatch(w) /\ (w.profile # Unset => Fitting(g, w.profile))
  BY <1>1, <1>2 DEF KnowsWrite, KnowsDefault
<1>4. /\ IF w.profile = Unset THEN UNCHANGED <<defaultProfile, handed>>
         ELSE defaultProfile' = w.profile /\ HandsOut(g, Granted(w.profile))
      /\ WritePatch(Pool, w)
      /\ UNCHANGED <<organizations, participants, profiles, current>>
  BY <1>1 DEF WriteUserPool
<1>5. MetadataOK'
  <2>1. Pool \in Rows
    BY DEF Rows
  <2> QED
    BY <1>2, <1>3, <1>4, <2>1, PatchWritten DEF Books
<1>6. \A p : Granted(p)' = Granted(p)
  BY <1>4 DEF Granted
<1>7. /\ HandedOK' /\ \A o \in Organizations : handed[o] \subseteq handed'[o]
      /\ w.profile # Unset => Granted(w.profile) \subseteq handed'[Root]
  <2>1. CASE w.profile = Unset
    BY <1>2, <1>4, <2>1 DEF Books, HandedOK
  <2>2. CASE w.profile # Unset
    <3>1. Fitting(g, w.profile) /\ HandsOut(g, Granted(w.profile))
      BY <1>3, <1>4, <2>2
    <3>2. PICK grants : grants = Granted(w.profile)
      OBVIOUS
    <3>3. grants \subseteq Grants
      BY <1>2, <3>1, <3>2, HeldIsGrants DEF Books, Fitting
    <3>4. /\ HandedOK' /\ \A o \in Organizations : handed[o] \subseteq handed'[o]
          /\ organizations[g.org].owner = g.user => grants \subseteq handed'[g.org]
      BY <1>2, <3>1, <3>2, <3>3, HandedGrows DEF Books
    <3> QED
      BY <1>2, <1>3, <3>1, <3>2, <3>4 DEF Fitting
  <2> QED
    BY <2>1, <2>2
<1>8. Grows
  <2>1. DOMAIN organizations \subseteq Organizations
    BY <1>2 DEF Books, OrganizationsOK
  <2> QED
    BY <1>4, <1>6, <1>7, <2>1 DEF Grows
<1>9. OrganizationsOK' /\ ProfilesOK'
  BY <1>2, <1>4 DEF Books, OrganizationsOK, ProfilesOK
<1>10. /\ ParticipantsOK'
       /\ \A m \in DOMAIN participants' :
            m[1] # organizations'[m[2]].owner => Granted(participants[m])' \subseteq handed'[m[2]]
  BY <1>2, <1>4, <1>8, ParticipationsStay
<1>11. /\ defaultProfile' \in DOMAIN profiles' /\ profiles'[defaultProfile'].scope \in {Global, Root}
       /\ Granted(defaultProfile)' \subseteq handed'[Root]
  <2>1. CASE w.profile = Unset
    BY <1>2, <1>4, <1>8, <2>1, DefaultStays
  <2>2. CASE w.profile # Unset
    <3>1. defaultProfile' = w.profile /\ Granted(defaultProfile)' = Granted(w.profile)
      BY <1>4, <2>2 DEF Granted
    <3> QED
      BY <1>3, <1>4, <1>7, <2>2, <3>1 DEF Fitting
  <2> QED
    BY <2>1, <2>2
<1>12. PlacesOK' /\ NobodyOutgrows'
  BY <1>2, <1>4, <1>10, <1>11 DEF Books, PlacesOK, NobodyOutgrows
<1> QED
  BY <1>5, <1>7, <1>8, <1>9, <1>10, <1>12 DEF Books

LEMMA WriteParticipantStep ==
  ASSUME IInv, NEW r \in Requests, WriteParticipant(r)
  PROVE  Books' /\ Grows
<1>1. PICK g, u, p : g = requests[r] /\ u = g.write.user /\ p = g.write.profile
  OBVIOUS
<1>2. /\ g.op = "UpdateParticipant" /\ KnowsWrite(g) /\ Books /\ g.pc = "writing"
      /\ g.org \in Organizations /\ g.org \in DOMAIN organizations
  BY <1>1, Writer DEF WriteParticipant
<1>3. u # organizations[g.org].owner /\ <<u, g.org>> \in DOMAIN participants /\ Fitting(g, p)
  BY <1>1, <1>2 DEF KnowsWrite, KnowsMove
<1>4. PICK moved, grants : moved = <<u, g.org>> /\ grants = Granted(p)
  OBVIOUS
<1>5. /\ participants' = [participants EXCEPT ![moved] = p] /\ HandsOut(g, grants)
      /\ UNCHANGED <<organizations, profiles, current, defaultProfile, metadata, intended, raced>>
  BY <1>1, <1>4 DEF WriteParticipant
<1>6. moved \in DOMAIN participants /\ moved[1] = u /\ moved[2] = g.org
  BY <1>3, <1>4
<1>7. MetadataOK'
  BY <1>2, <1>5, MetadataStays DEF Books
<1>8. \A q : Granted(q)' = Granted(q)
  BY <1>5 DEF Granted
<1>9. /\ HandedOK' /\ \A o \in Organizations : handed[o] \subseteq handed'[o]
      /\ grants \subseteq handed'[g.org]
  <2>1. grants \subseteq Grants
    BY <1>2, <1>3, <1>4, HeldIsGrants DEF Books, Fitting
  <2>2. /\ HandedOK' /\ \A o \in Organizations : handed[o] \subseteq handed'[o]
        /\ organizations[g.org].owner = g.user => grants \subseteq handed'[g.org]
    BY <1>2, <1>5, <2>1, HandedGrows DEF Books
  <2> QED
    BY <1>2, <1>3, <1>4, <2>2 DEF Fitting
<1>10. DOMAIN participants' = DOMAIN participants
  BY <1>5
<1>11. Grows
  <2>1. DOMAIN organizations \subseteq Organizations
    BY <1>2 DEF Books, OrganizationsOK
  <2> QED
    BY <1>5, <1>8, <1>9, <1>10, <2>1 DEF Grows
<1>12. OrganizationsOK' /\ ProfilesOK'
  BY <1>2, <1>5 DEF Books, OrganizationsOK, ProfilesOK
<1>13. participants'[moved] = p /\ \A m \in DOMAIN participants : m # moved => participants'[m] = participants[m]
  BY <1>5, <1>6
<1>14. ASSUME NEW m \in DOMAIN participants
       PROVE  /\ participants'[m] \in DOMAIN profiles /\ profiles[participants'[m]].scope \in {Global, m[2]}
              /\ m[1] # organizations[m[2]].owner => Granted(participants'[m]) \subseteq handed'[m[2]]
  <2>1. CASE m = moved
    BY <1>3, <1>4, <1>6, <1>9, <1>13, <2>1 DEF Fitting
  <2>2. CASE m # moved
    <3>1. participants'[m] = participants[m]
      BY <1>13, <2>2
    <3>2. /\ m[1] # organizations[m[2]].owner => Granted(participants[m])' \subseteq handed'[m[2]]
          /\ participants[m] \in DOMAIN profiles /\ profiles'[participants[m]].scope \in {Global, m[2]}
      BY <1>2, <1>11, <3>1, BoundStays
    <3>3. Granted(participants[m])' = Granted(participants'[m])
      BY <1>5 DEF Granted
    <3> QED
      BY <1>5, <3>1, <3>2, <3>3
  <2> QED
    BY <2>1, <2>2
<1>15. ASSUME NEW o \in DOMAIN organizations
       PROVE  /\ <<organizations[o].owner, o>> \in DOMAIN participants
              /\ participants'[<<organizations[o].owner, o>>] = OwnersRow(o)
  <2>1. /\ <<organizations[o].owner, o>> \in DOMAIN participants
        /\ participants[<<organizations[o].owner, o>>] = OwnersRow(o)
    BY <1>2 DEF Books, ParticipantsOK
  <2>2. <<organizations[o].owner, o>> # moved
    BY <1>3, <1>4
  <2> QED
    BY <1>13, <2>1, <2>2
<1>16. ParticipantsOK'
  <2>1. participants' \in [DOMAIN participants' -> DOMAIN profiles']
    BY <1>2, <1>3, <1>5 DEF Books, ParticipantsOK, Fitting
  <2> QED
    BY <1>2, <1>5, <1>10, <1>14, <1>15, <2>1 DEF Books, ParticipantsOK, OwnersRow
<1>17. PlacesOK'
  BY <1>2, <1>5, <1>10 DEF Books, PlacesOK
<1>18. NobodyOutgrows'
  <2>1. \A m \in DOMAIN participants' :
          m[1] # organizations'[m[2]].owner => Granted(participants[m])' \subseteq handed'[m[2]]
    <3>1. \A m : Granted(participants[m])' = Granted(participants'[m])
      BY <1>5 DEF Granted
    <3> QED
      BY <1>5, <1>10, <1>14, <3>1
  <2>2. Granted(defaultProfile)' \subseteq handed'[Root]
    BY <1>2, <1>5, <1>11, DefaultStays
  <2> QED
    BY <2>1, <2>2 DEF NobodyOutgrows
<1> QED
  BY <1>7, <1>9, <1>11, <1>12, <1>16, <1>17, <1>18 DEF Books

LEMMA WriteNewProfileStep ==
  ASSUME IInv, NEW r \in Requests, WriteNewProfile(r)
  PROVE  Books' /\ Grows
<1>1. PICK g, grants : g = requests[r] /\ grants = g.write.grants
  OBVIOUS
<1>2. /\ g.op = "CreateProfile" /\ KnowsWrite(g) /\ Books /\ g.pc = "writing"
      /\ g.org \in Organizations /\ g.org \in DOMAIN organizations /\ g.held \subseteq Grants
  BY <1>1, Writer DEF WriteNewProfile
<1>3. grants \subseteq Grants
  BY <1>1, <1>2 DEF KnowsWrite
<1>4. PICK p \in Drafts \ DOMAIN profiles :
        profiles' = [q \in DOMAIN profiles \union {p} |->
                       IF q = p THEN [scope |-> g.org, grants |-> grants, api |-> {}] ELSE profiles[q]]
  BY <1>1 DEF WriteNewProfile
<1>5. /\ HandsOut(g, grants)
      /\ UNCHANGED <<organizations, participants, current, defaultProfile, metadata, intended, raced>>
  BY <1>1 DEF WriteNewProfile
<1>6. /\ DOMAIN profiles' = DOMAIN profiles \union {p}
      /\ profiles'[p] = [scope |-> g.org, grants |-> grants, api |-> {}]
      /\ \A q \in DOMAIN profiles : profiles'[q] = profiles[q] /\ q # p
  BY <1>4
<1>7. HandedOK' /\ \A o \in Organizations : handed[o] \subseteq handed'[o]
  BY <1>2, <1>3, <1>5, HandedGrows DEF Books
<1>8. \A q \in DOMAIN profiles : Granted(q)' = Granted(q)
  BY <1>6 DEF Granted
<1>9. Grows
  <2>1. DOMAIN organizations \subseteq Organizations
    BY <1>2 DEF Books, OrganizationsOK
  <2>2. \A o \in DOMAIN organizations, q \in DOMAIN profiles :
          Granted(q) \subseteq handed[o] => Granted(q)' \subseteq handed'[o]
    BY <1>7, <1>8, <2>1
  <2> QED
    BY <1>5, <1>6, <1>7, <2>1, <2>2 DEF Grows
<1>10. OrganizationsOK'
  BY <1>2, <1>5, <1>6 DEF Books, OrganizationsOK
<1>11. ProfilesOK'
  <2>1. /\ profiles'[p].api = {} /\ profiles'[p].scope = g.org
        /\ profiles'[p] \in [scope : DOMAIN organizations \union {Global}, grants : SUBSET Grants, api : SUBSET Grants]
    BY <1>2, <1>3, <1>6
  <2>2. p # AdminProfile /\ p \notin Admins /\ p \in Profiles
    BY <1>4, IdsAssumption DEF Seeded, Profiles
  <2>3. \A o \in Organizations : OrganizationAdmin(o) # p
    BY <2>2 DEF Admins
  <2>4. profiles' \in [DOMAIN profiles' ->
                         [scope : DOMAIN organizations \union {Global}, grants : SUBSET Grants, api : SUBSET Grants]]
    BY <1>2, <1>4, <1>6, <2>1 DEF Books, ProfilesOK
  <2> HIDE DEF OrganizationAdmin, Profiles
  <2>5. \A q \in DOMAIN profiles' : profiles'[q].api = IF q = AdminProfile THEN Grants ELSE {}
    BY <1>2, <1>6, <2>1, <2>2 DEF Books, ProfilesOK
  <2>6. \A o \in Organizations : OrganizationAdmin(o) \in DOMAIN profiles' =>
          o \in DOMAIN organizations /\ profiles'[OrganizationAdmin(o)].grants = Grants
    BY <1>2, <1>6, <2>3 DEF Books, ProfilesOK
  <2>7. DOMAIN profiles' \subseteq Profiles /\ AdminProfile \in DOMAIN profiles'
    BY <1>2, <1>6, <2>2 DEF Books, ProfilesOK
  <2> QED
    BY <1>5, <2>4, <2>5, <2>6, <2>7 DEF ProfilesOK
<1>12. /\ ParticipantsOK'
       /\ \A m \in DOMAIN participants' :
            m[1] # organizations'[m[2]].owner => Granted(participants[m])' \subseteq handed'[m[2]]
  BY <1>2, <1>5, <1>9, ParticipationsStay
<1>13. PlacesOK' /\ NobodyOutgrows'
  <2>1. /\ defaultProfile' \in DOMAIN profiles' /\ profiles'[defaultProfile'].scope \in {Global, Root}
        /\ Granted(defaultProfile)' \subseteq handed'[Root]
    BY <1>2, <1>5, <1>9, DefaultStays
  <2> QED
    BY <1>2, <1>5, <1>12, <2>1 DEF Books, PlacesOK, NobodyOutgrows
<1>14. MetadataOK'
  BY <1>2, <1>5, MetadataStays DEF Books
<1> QED
  BY <1>7, <1>9, <1>10, <1>11, <1>12, <1>13, <1>14 DEF Books

\* The row that is edited, and all others.
LEMMA EditedProfile ==
  ASSUME ProfilesOK, NEW p \in DOMAIN profiles, NEW grants, grants \subseteq Grants,
         NEW api, api = profiles[p].api,
         profiles' = [profiles EXCEPT ![p].grants = grants, ![p].api = api]
  PROVE  /\ DOMAIN profiles' = DOMAIN profiles
         /\ \A q \in DOMAIN profiles : q # p => profiles'[q] = profiles[q]
         /\ profiles'[p].scope = profiles[p].scope /\ profiles'[p].grants = grants /\ profiles'[p].api = api
         /\ profiles'[p] \in [scope : DOMAIN organizations \union {Global},
                              grants : SUBSET Grants, api : SUBSET Grants]
<1>1. profiles[p] \in [scope : DOMAIN organizations \union {Global}, grants : SUBSET Grants, api : SUBSET Grants]
  BY DEF ProfilesOK
<1>2. DOMAIN profiles' = DOMAIN profiles /\ \A q \in DOMAIN profiles : q # p => profiles'[q] = profiles[q]
  OBVIOUS
<1>3. profiles'[p] = [profiles[p] EXCEPT !.grants = grants, !.api = api]
  BY DEF ProfilesOK
<1>4. api \subseteq Grants
  BY <1>1
<1>5. PICK s : s = profiles[p]
  OBVIOUS
<1>6. /\ [s EXCEPT !.grants = grants, !.api = api].scope = s.scope
      /\ [s EXCEPT !.grants = grants, !.api = api].grants = grants
      /\ [s EXCEPT !.grants = grants, !.api = api].api = api
      /\ [s EXCEPT !.grants = grants, !.api = api] \in
           [scope : DOMAIN organizations \union {Global}, grants : SUBSET Grants, api : SUBSET Grants]
  BY <1>1, <1>4, <1>5
<1> QED
  BY <1>2, <1>3, <1>5, <1>6

LEMMA WriteProfileStep ==
  ASSUME IInv, NEW r \in Requests, WriteProfile(r)
  PROVE  Books' /\ Grows
<1>1. PICK g, w, p : g = requests[r] /\ w = g.write /\ p = w.profile
  OBVIOUS
<1>2. /\ g.op = "UpdateProfile" /\ KnowsWrite(g) /\ Books /\ g.pc = "writing"
      /\ g.org \in Organizations /\ g.org \in DOMAIN organizations /\ g.held \subseteq Grants
      /\ organizations[g.org].owner # g.user => g.held \subseteq handed[g.org]
  BY <1>1, Writer DEF WriteProfile
<1>3. /\ p \in DOMAIN profiles \ Admins /\ profiles[p].scope = g.org /\ KnowsPatch(w)
      /\ w.grants # Unset => w.grants \subseteq g.held
      /\ w.api = profiles[p].api
  BY <1>1, <1>2 DEF KnowsWrite, KnowsEdit
<1>4. /\ IF w.grants = Unset THEN UNCHANGED <<profiles, handed>>
         ELSE /\ profiles' = [profiles EXCEPT ![p].grants = w.grants, ![p].api = w.api]
              /\ HandsOut(g, w.grants \union w.api)
      /\ WritePatch(Row("profiles", p), w)
      /\ UNCHANGED <<organizations, participants, current, defaultProfile>>
  BY <1>1 DEF WriteProfile
<1>5. MetadataOK'
  <2>1. Row("profiles", p) \in Rows
    BY <1>2, <1>3 DEF Books, ProfilesOK, Rows
  <2> QED
    BY <1>2, <1>3, <1>4, <2>1, PatchWritten DEF Books
<1>6. ProfilesOK' /\ HandedOK' /\ Grows
  <2>1. CASE w.grants = Unset
    BY <1>2, <1>4, <2>1 DEF Books, ProfilesOK, HandedOK, Grows, Granted
  <2>2. CASE w.grants # Unset
    <3>1. PICK grants, api : grants = w.grants /\ api = w.api
      OBVIOUS
    <3>2. grants \subseteq Grants /\ api \subseteq Grants
      <4>1. profiles[p].api \subseteq Grants
        BY <1>2, <1>3 DEF Books, ProfilesOK
      <4> QED
        BY <1>2, <1>3, <2>2, <3>1, <4>1
    <3>3. /\ DOMAIN profiles' = DOMAIN profiles
          /\ \A q \in DOMAIN profiles : q # p => profiles'[q] = profiles[q]
          /\ profiles'[p].scope = profiles[p].scope /\ profiles'[p].grants = grants /\ profiles'[p].api = api
          /\ profiles'[p] \in [scope : DOMAIN organizations \union {Global},
                               grants : SUBSET Grants, api : SUBSET Grants]
      <4>1. /\ ProfilesOK /\ p \in DOMAIN profiles /\ api = profiles[p].api
            /\ profiles' = [profiles EXCEPT ![p].grants = grants, ![p].api = api]
        BY <1>2, <1>3, <1>4, <2>2, <3>1 DEF Books
      <4> QED
        BY <3>2, <4>1, EditedProfile
    <3>4. PICK given : given = grants \union api
      OBVIOUS
    <3>5. /\ HandedOK' /\ \A o \in Organizations : handed[o] \subseteq handed'[o]
          /\ organizations[g.org].owner = g.user => given \subseteq handed'[g.org]
      BY <1>2, <1>4, <2>2, <3>1, <3>2, <3>4, HandedGrows DEF Books
    <3>6. /\ p = AdminProfile => api = Grants
          /\ p # AdminProfile => api = {}
      BY <1>2, <1>3, <3>1 DEF Books, ProfilesOK
    <3>7. Granted(p)' = given
      BY <3>3, <3>4 DEF Granted
    <3>8. DOMAIN organizations \subseteq Organizations
      BY <1>2 DEF Books, OrganizationsOK
    <3>9. ASSUME NEW o \in DOMAIN organizations, NEW q \in DOMAIN profiles,
                 profiles[q].scope \in {Global, o}, Granted(q) \subseteq handed[o]
          PROVE  Granted(q)' \subseteq handed'[o]
      <4>1. CASE q # p
        <5>1. Granted(q)' = Granted(q)
          BY <3>3, <4>1 DEF Granted
        <5> QED
          BY <3>5, <3>8, <3>9, <5>1
      <4>2. CASE q = p
        <5>1. o = g.org
          BY <1>2, <1>3, <3>9, <4>2, IdsAssumption
        <5>2. CASE organizations[g.org].owner = g.user
          BY <3>5, <3>7, <4>2, <5>1, <5>2
        <5>3. CASE organizations[g.org].owner # g.user /\ p = AdminProfile
          <6>1. Granted(p) = Grants
            BY <1>2, <1>3, <5>3, HeldIsGrants DEF Books
          <6>2. given \subseteq Granted(p)
            BY <3>2, <3>4, <6>1
          <6> QED
            BY <1>2, <3>5, <3>7, <3>9, <4>2, <5>1, <6>2
        <5>4. CASE organizations[g.org].owner # g.user /\ p # AdminProfile
          <6>1. given \subseteq handed[g.org]
            BY <1>2, <1>3, <2>2, <3>1, <3>4, <3>6, <5>4
          <6> QED
            BY <1>2, <3>5, <3>7, <4>2, <5>1, <6>1
        <5> QED
          BY <5>2, <5>3, <5>4
      <4> QED
        BY <4>1, <4>2
    <3>10. Grows
      BY <1>4, <1>3, <3>1, <3>3, <3>5, <3>8, <3>9 DEF Grows
    <3>11. ProfilesOK'
      <4>1. profiles' \in [DOMAIN profiles' ->
                             [scope : DOMAIN organizations \union {Global}, grants : SUBSET Grants, api : SUBSET Grants]]
        <5>1. \A q \in DOMAIN profiles : profiles'[q] \in
                [scope : DOMAIN organizations \union {Global}, grants : SUBSET Grants, api : SUBSET Grants]
          BY <1>2, <3>3 DEF Books, ProfilesOK
        <5>2. profiles' = [q \in DOMAIN profiles |-> profiles'[q]]
          BY <1>2, <1>4, <2>2 DEF Books, ProfilesOK
        <5> QED
          BY <3>3, <5>1, <5>2
      <4>2. \A q \in DOMAIN profiles' : profiles'[q].api = IF q = AdminProfile THEN Grants ELSE {}
        BY <1>2, <1>3, <3>1, <3>3 DEF Books, ProfilesOK
      <4>3. \A o \in Organizations : OrganizationAdmin(o) # p
        BY <1>3 DEF Admins
      <4> HIDE DEF OrganizationAdmin
      <4>4. \A o \in Organizations : OrganizationAdmin(o) \in DOMAIN profiles' =>
              o \in DOMAIN organizations /\ profiles'[OrganizationAdmin(o)].grants = Grants
        BY <1>2, <3>3, <4>3 DEF Books, ProfilesOK
      <4> QED
        BY <1>2, <1>4, <3>3, <4>1, <4>2, <4>4 DEF Books, ProfilesOK
    <3> QED
      BY <3>5, <3>10, <3>11
  <2> QED
    BY <2>1, <2>2
<1>7. /\ ParticipantsOK'
      /\ \A m \in DOMAIN participants' :
           m[1] # organizations'[m[2]].owner => Granted(participants[m])' \subseteq handed'[m[2]]
  BY <1>2, <1>4, <1>6, ParticipationsStay
<1>8. PlacesOK' /\ NobodyOutgrows'
  <2>1. /\ defaultProfile' \in DOMAIN profiles' /\ profiles'[defaultProfile'].scope \in {Global, Root}
        /\ Granted(defaultProfile)' \subseteq handed'[Root]
    BY <1>2, <1>4, <1>6, DefaultStays
  <2> QED
    BY <1>2, <1>4, <1>7, <2>1 DEF Books, PlacesOK, NobodyOutgrows
<1>9. OrganizationsOK'
  BY <1>2, <1>4, <1>6 DEF Books, OrganizationsOK, Grows
<1> QED
  BY <1>5, <1>6, <1>7, <1>8, <1>9 DEF Books

LEMMA WriteOrganizationStep ==
  ASSUME IInv, NEW r \in Requests, WriteOrganization(r)
  PROVE  Books' /\ Grows
<1>1. PICK g, u : g = requests[r] /\ u = g.user
  OBVIOUS
<1>2. g.op = "CreateForUser" /\ KnowsWrite(g) /\ Books /\ g.pc = "writing" /\ u \in Users
  BY <1>1, Writer DEF WriteOrganization
<1>3. PICK c : c = g.write.ceiling
  OBVIOUS
<1>4. c \in DOMAIN profiles
  BY <1>2, <1>3 DEF KnowsWrite
<1>5. PICK o \in Organizations \ DOMAIN organizations :
        /\ organizations' =
             [x \in DOMAIN organizations \union {o} |->
                IF x = o THEN [owner |-> u, ceiling |-> c] ELSE organizations[x]]
        /\ profiles' =
             [p \in DOMAIN profiles \union {OrganizationAdmin(o)} |->
                IF p = OrganizationAdmin(o) THEN [scope |-> o, grants |-> Grants, api |-> {}] ELSE profiles[p]]
        /\ participants' =
             [m \in DOMAIN participants \union {<<u, o>>} |->
                IF m = <<u, o>> THEN OrganizationAdmin(o) ELSE participants[m]]
  BY <1>1, <1>3 DEF WriteOrganization
<1>6. UNCHANGED <<current, defaultProfile, metadata, history>>
  BY DEF WriteOrganization
<1>7. PICK a, born : a = OrganizationAdmin(o) /\ born = <<u, o>>
  OBVIOUS
<1>8. born[1] = u /\ born[2] = o
  BY <1>7
<1>9. /\ a \notin DOMAIN profiles /\ a # AdminProfile /\ a \in Profiles
      /\ \A x \in Organizations : OrganizationAdmin(x) = a => x = o
  <2>1. a \in Admins /\ a \notin Seeded
    BY <1>7, IdsAssumption DEF Admins
  <2>2. \A x \in Organizations : OrganizationAdmin(x) = a => x = o
    BY <1>7 DEF OrganizationAdmin
  <2> QED
    BY <1>2, <1>5, <1>7, <2>1, <2>2 DEF Books, ProfilesOK, Profiles, Seeded
<1>10. o # Root /\ born \notin DOMAIN participants
  <2>1. \A m \in DOMAIN participants : m[2] \in DOMAIN organizations
    BY <1>2 DEF Books, ParticipantsOK
  <2> QED
    BY <1>2, <1>5, <1>8, <2>1 DEF Books, OrganizationsOK
<1>11. /\ DOMAIN organizations' = DOMAIN organizations \union {o}
       /\ organizations'[o] = [owner |-> u, ceiling |-> c]
       /\ \A x \in DOMAIN organizations : organizations'[x] = organizations[x] /\ x # o
  BY <1>5
<1>12. /\ DOMAIN profiles' = DOMAIN profiles \union {a}
       /\ profiles'[a] = [scope |-> o, grants |-> Grants, api |-> {}]
       /\ \A p \in DOMAIN profiles : profiles'[p] = profiles[p] /\ p # a
  BY <1>5, <1>7, <1>9
<1>13. /\ DOMAIN participants' = DOMAIN participants \union {born}
       /\ participants'[born] = a
       /\ \A m \in DOMAIN participants : participants'[m] = participants[m] /\ m # born
  BY <1>5, <1>7, <1>10
<1>14. Grows
  <2>1. \A p \in DOMAIN profiles : Granted(p)' = Granted(p)
    BY <1>12 DEF Granted
  <2> QED
    BY <1>6, <1>11, <1>12, <1>13, <2>1 DEF Grows, history
<1>15. OrganizationsOK'
  <2>1. organizations'[o] \in [owner : Users, ceiling : DOMAIN profiles']
    BY <1>2, <1>4, <1>11, <1>12
  <2>2. \A x \in DOMAIN organizations : organizations'[x] \in [owner : Users, ceiling : DOMAIN profiles']
    BY <1>2, <1>11, <1>12 DEF Books, OrganizationsOK
  <2>3. organizations' = [x \in DOMAIN organizations' |-> organizations'[x]]
    BY <1>5, <1>11
  <2>4. organizations' \in [DOMAIN organizations' -> [owner : Users, ceiling : DOMAIN profiles']]
    BY <1>11, <2>1, <2>2, <2>3
  <2>5. DOMAIN organizations' \subseteq Organizations /\ Root \in DOMAIN organizations'
        /\ organizations'[Root].ceiling = AdminProfile
    BY <1>2, <1>5, <1>11 DEF Books, OrganizationsOK
  <2> QED
    BY <2>4, <2>5 DEF OrganizationsOK
<1>16. ProfilesOK'
  <2> DEFINE Documents2 == [scope : DOMAIN organizations' \union {Global}, grants : SUBSET Grants, api : SUBSET Grants]
  <2>1. /\ profiles'[a] \in Documents2 /\ profiles'[a].api = {} /\ profiles'[a].grants = Grants
    BY <1>11, <1>12
  <2>2. \A p \in DOMAIN profiles : profiles'[p] \in Documents2
    BY <1>2, <1>11, <1>12 DEF Books, ProfilesOK
  <2>3. profiles' = [p \in DOMAIN profiles' |-> profiles'[p]]
    BY <1>5, <1>7, <1>12
  <2>4. profiles' \in [DOMAIN profiles' -> Documents2]
    <3> HIDE DEF Documents2
    <3> QED
      BY <1>12, <2>1, <2>2, <2>3
  <2>5. \A p \in DOMAIN profiles' : profiles'[p].api = IF p = AdminProfile THEN Grants ELSE {}
    BY <1>2, <1>9, <1>12, <2>1 DEF Books, ProfilesOK
  <2> HIDE DEF OrganizationAdmin
  <2>6. \A x \in Organizations : OrganizationAdmin(x) \in DOMAIN profiles' =>
          x \in DOMAIN organizations' /\ profiles'[OrganizationAdmin(x)].grants = Grants
    BY <1>2, <1>9, <1>11, <1>12, <2>1 DEF Books, ProfilesOK
  <2>7. DOMAIN profiles' \subseteq Profiles /\ AdminProfile \in DOMAIN profiles'
    BY <1>2, <1>9, <1>12 DEF Books, ProfilesOK
  <2> QED
    BY <2>4, <2>5, <2>6, <2>7 DEF ProfilesOK
<1>17. ASSUME NEW m \in DOMAIN participants
       PROVE  /\ participants'[m] \in DOMAIN profiles' /\ profiles'[participants'[m]].scope \in {Global, m[2]}
              /\ m \in Users \X DOMAIN organizations'
              /\ m[1] # organizations'[m[2]].owner => Granted(participants[m])' \subseteq handed'[m[2]]
  <2>1. participants'[m] = participants[m]
    BY <1>13
  <2>2. /\ organizations'[m[2]] = organizations[m[2]]
        /\ m[1] # organizations[m[2]].owner => Granted(participants[m])' \subseteq handed'[m[2]]
        /\ participants[m] \in DOMAIN profiles /\ profiles'[participants[m]].scope \in {Global, m[2]}
    BY <1>2, <1>14, <2>1, BoundStays
  <2>3. m \in Users \X DOMAIN organizations
    BY <1>2 DEF Books, ParticipantsOK
  <2> QED
    BY <1>11, <1>12, <2>1, <2>2, <2>3
<1>18. /\ participants'[born] \in DOMAIN profiles' /\ profiles'[participants'[born]].scope \in {Global, born[2]}
       /\ born \in Users \X DOMAIN organizations' /\ born[1] = organizations'[born[2]].owner
  BY <1>2, <1>7, <1>8, <1>11, <1>12, <1>13
<1>19. ParticipantsOK'
  <2>1. participants' = [m \in DOMAIN participants' |-> participants'[m]]
    BY <1>5, <1>7, <1>13
  <2>2. participants' \in [DOMAIN participants' -> DOMAIN profiles']
    BY <1>13, <1>17, <1>18, <2>1
  <2>3. DOMAIN participants' \subseteq Users \X DOMAIN organizations'
    BY <1>13, <1>17, <1>18
  <2>4. \A m \in DOMAIN participants' : profiles'[participants'[m]].scope \in {Global, m[2]}
    BY <1>13, <1>17, <1>18
  <2>5. ASSUME NEW x \in DOMAIN organizations'
        PROVE  /\ <<organizations'[x].owner, x>> \in DOMAIN participants'
               /\ participants'[<<organizations'[x].owner, x>>] = OwnersRow(x)
    <3>1. CASE x = o
      BY <1>7, <1>10, <1>11, <1>13, <3>1 DEF OwnersRow
    <3>2. CASE x # o
      <4>1. x \in DOMAIN organizations /\ organizations'[x] = organizations[x]
        BY <1>11, <3>2
      <4>2. /\ <<organizations[x].owner, x>> \in DOMAIN participants
            /\ participants[<<organizations[x].owner, x>>] = OwnersRow(x)
        BY <1>2, <4>1 DEF Books, ParticipantsOK
      <4> QED
        BY <1>13, <4>1, <4>2
    <3> QED
      BY <3>1, <3>2
  <2> QED
    BY <2>2, <2>3, <2>4, <2>5 DEF ParticipantsOK, OwnersRow
<1>20. PlacesOK' /\ NobodyOutgrows'
  <2>1. /\ defaultProfile' \in DOMAIN profiles' /\ profiles'[defaultProfile'].scope \in {Global, Root}
        /\ Granted(defaultProfile)' \subseteq handed'[Root]
    BY <1>2, <1>6, <1>14, DefaultStays
  <2>2. \A m \in DOMAIN participants' :
          m[1] # organizations'[m[2]].owner => Granted(participants[m])' \subseteq handed'[m[2]]
    BY <1>13, <1>17, <1>18
  <2>3. NobodyOutgrows'
    BY <2>1, <2>2 DEF NobodyOutgrows
  <2>4. PlacesOK'
    BY <1>2, <1>6, <1>13, <2>1 DEF Books, PlacesOK
  <2> QED
    BY <2>3, <2>4
<1>21. MetadataOK' /\ HandedOK'
  BY <1>2, <1>6, MetadataStays DEF Books, HandedOK, history
<1> QED
  BY <1>14, <1>15, <1>16, <1>19, <1>20, <1>21 DEF Books

LEMMA WriteStep ==
  ASSUME IInv, NEW r \in Requests, Write(r)
  PROVE  IInv'
<1>1. Books' /\ Grows
  BY WriteCurrentStep, WriteOrganizationStep, WriteParticipantStep, WriteNewProfileStep, WriteProfileStep,
     WriteUserPoolStep, WriteMetadataStep DEF Write
<1>2. Ends(r)
  BY DEF Write, Writes, WriteCurrent, WriteOrganization, WriteParticipant, WriteNewProfile, WriteProfile,
         WriteUserPool, WriteMetadata
<1> QED
  BY <1>1, <1>2, EndsStay DEF IInv

LEMMA FailStep ==
  ASSUME IInv, NEW r \in Requests, Fail(r)
  PROVE  IInv'
<1>1. Grows /\ Books' /\ Ends(r)
  BY NothingGrows DEF Fail, IInv
<1> QED
  BY <1>1, EndsStay DEF IInv

LEMMA IInvStep == IInv /\ [Next]_vars => IInv'
<1> SUFFICES ASSUME IInv, [Next]_vars PROVE IInv'
  OBVIOUS
<1>1. CASE UNCHANGED vars
  <2>1. UNCHANGED <<tables, history>> /\ requests' = requests
    BY <1>1 DEF vars
  <2>2. Grows /\ Books'
    BY <2>1, NothingGrows DEF IInv
  <2>3. ASSUME NEW q \in Requests
        PROVE  Knows(requests[q])'
    <3>1. PICK g : g = requests[q]
      OBVIOUS
    <3>2. Knows(g)'
      BY <2>2, <3>1, KnowledgeStays DEF IInv, RequestsKnow
    <3> QED
      BY <2>1, <3>1, <3>2 DEF Knows, KnowsCaller, KnowsHeld, KnowsWrite, Who, KnowsMove, KnowsEdit, KnowsDefault,
                              Fitting, KnowsPatch
  <2> QED
    BY <2>1, <2>2, <2>3 DEF IInv, RequestsKnow
<1>2. CASE Next
  BY <1>2, AuthGuardStep, OrganizationGuardStep, ServiceStep, WriteStep, FailStep DEF Next
<1> QED
  BY <1>1, <1>2

-----------------------------------------------------------------------------
(* The initial state *)

LEMMA CeilingsAre ==
  ASSUME Init
  PROVE  /\ \A o \in DOMAIN organizations : \E c \in Ceilings : c[1] = o
         /\ \A c \in Ceilings :
              /\ c[1] \in Organizations /\ c[2] \in Users /\ c[3] \in Seeded
              /\ c[1] \in DOMAIN organizations
              /\ organizations[c[1]] = [owner |-> c[2], ceiling |-> c[3]]
         /\ Root \in DOMAIN organizations
         /\ organizations[Root] = [owner |-> Platform, ceiling |-> AdminProfile]
<1>1. DOMAIN organizations = {c[1] : c \in Ceilings}
  BY DEF Init
<1>2. ASSUME NEW c \in Ceilings
      PROVE  /\ c[1] \in Organizations /\ c[2] \in Users /\ c[3] \in Seeded
             /\ c[1] \in DOMAIN organizations
             /\ organizations[c[1]] = [owner |-> c[2], ceiling |-> c[3]]
  <2>1. c[1] \in Organizations /\ c[2] \in Users /\ c[3] \in Seeded
    BY IdsAssumption, InitAssumption DEF Ceilings, Seeded
  <2> DEFINE chosen == CHOOSE d \in Ceilings : d[1] = c[1]
  <2>2. chosen \in Ceilings /\ chosen[1] = c[1]
    OBVIOUS
  <2>3. chosen = c
    BY <2>2, InitAssumption
  <2>4. organizations[c[1]] = [owner |-> chosen[2], ceiling |-> chosen[3]]
    BY DEF Init
  <2> HIDE DEF chosen
  <2> QED
    BY <1>1, <2>1, <2>3, <2>4
<1>3. Root \in DOMAIN organizations
      /\ organizations[Root] = [owner |-> Platform, ceiling |-> AdminProfile]
  <2>1. PICK c : c = <<Root, Platform, AdminProfile>>
    OBVIOUS
  <2>2. c \in Ceilings
    BY <2>1 DEF Ceilings
  <2> QED
    BY <1>2, <2>1, <2>2
<1> QED
  BY <1>1, <1>2, <1>3

LEMMA ProfilesAre ==
  ASSUME Init
  PROVE  /\ \A p \in DOMAIN profiles :
              \/ p \in Seeded
              \/ \E owned \in Owners : p = OrganizationAdmin(owned[1])
              \/ \E a \in Authored : p = a[1]
         /\ Seeded \subseteq DOMAIN profiles
         /\ profiles[AdminProfile] = [scope |-> Root, grants |-> Grants, api |-> Grants]
         /\ profiles[ManagerProfile] = [scope |-> Root, grants |-> ManagerGrants, api |-> {}]
         /\ profiles[LoginProfile] = [scope |-> Global, grants |-> LoginGrants, api |-> {}]
         /\ \A owned \in Owners :
              /\ OrganizationAdmin(owned[1]) \in DOMAIN profiles
              /\ profiles[OrganizationAdmin(owned[1])] = [scope |-> owned[1], grants |-> Grants, api |-> {}]
         /\ \A a \in Authored :
              /\ a[1] \in DOMAIN profiles
              /\ profiles[a[1]] = [scope |-> a[2], grants |-> a[3], api |-> {}]
<1> DEFINE P == Seeded \union {OrganizationAdmin(owned[1]) : owned \in Owners} \union {a[1] : a \in Authored}
           Chosen(p) == CHOOSE a \in Authored : a[1] = p
<1>1. profiles =
        [p \in P |->
          IF p \in Seeded THEN SeededProfile(p)
          ELSE IF p \in Admins THEN [scope |-> p[2], grants |-> Grants, api |-> {}]
          ELSE [scope |-> Chosen(p)[2], grants |-> Chosen(p)[3], api |-> {}]]
  BY DEF Init
<1>2. AdminProfile \in P /\ ManagerProfile \in P /\ LoginProfile \in P /\ Seeded \subseteq P
      /\ (\A p \in P :
            \/ p \in Seeded
            \/ \E owned \in Owners : p = OrganizationAdmin(owned[1])
            \/ \E a \in Authored : p = a[1])
      /\ AdminProfile # ManagerProfile /\ AdminProfile # LoginProfile /\ ManagerProfile # LoginProfile
      /\ \A p \in Admins \union Drafts : p \notin Seeded
  BY IdsAssumption DEF Seeded
<1>3. ASSUME NEW owned \in Owners
      PROVE  /\ OrganizationAdmin(owned[1]) \in P /\ OrganizationAdmin(owned[1]) \in Admins
             /\ OrganizationAdmin(owned[1])[2] = owned[1]
  BY InitAssumption DEF Admins, OrganizationAdmin
<1>4. ASSUME NEW a \in Authored
      PROVE  a[1] \in P /\ a[1] \notin Admins /\ a[1] \in Drafts /\ Chosen(a[1]) = a
  BY InitAssumption, IdsAssumption
<1> HIDE DEF P, Chosen
<1>5. profiles[AdminProfile] = [scope |-> Root, grants |-> Grants, api |-> Grants]
  BY <1>1, <1>2 DEF Seeded, SeededProfile
<1>6. profiles[ManagerProfile] = [scope |-> Root, grants |-> ManagerGrants, api |-> {}]
  BY <1>1, <1>2 DEF Seeded, SeededProfile
<1>7. profiles[LoginProfile] = [scope |-> Global, grants |-> LoginGrants, api |-> {}]
  BY <1>1, <1>2 DEF Seeded, SeededProfile
<1>8. ASSUME NEW owned \in Owners
      PROVE  /\ OrganizationAdmin(owned[1]) \in DOMAIN profiles
             /\ profiles[OrganizationAdmin(owned[1])] = [scope |-> owned[1], grants |-> Grants, api |-> {}]
  <2>1. PICK p : p = OrganizationAdmin(owned[1])
    OBVIOUS
  <2>2. p \in P /\ p \in Admins /\ p[2] = owned[1] /\ p \notin Seeded
    BY <1>2, <1>3, <2>1
  <2>3. profiles[p] = [scope |-> p[2], grants |-> Grants, api |-> {}]
    BY <1>1, <2>2
  <2> QED
    BY <1>1, <2>1, <2>2, <2>3
<1>9. ASSUME NEW a \in Authored
      PROVE  /\ a[1] \in DOMAIN profiles
             /\ profiles[a[1]] = [scope |-> a[2], grants |-> a[3], api |-> {}]
  <2>1. PICK p : p = a[1]
    OBVIOUS
  <2>2. /\ p \in P /\ p \notin Admins /\ p \notin Seeded /\ Chosen(p) = a
    BY <1>2, <1>4, <2>1
  <2>3. profiles[p] = [scope |-> Chosen(p)[2], grants |-> Chosen(p)[3], api |-> {}]
    BY <1>1, <2>2
  <2> QED
    BY <1>1, <2>1, <2>2, <2>3
<1>10. DOMAIN profiles = P
  BY <1>1
<1> QED
  BY <1>2, <1>5, <1>6, <1>7, <1>8, <1>9, <1>10

\* The seed of a row, an owner of CONSTANTS, or somebody who was let in.
LEMMA ParticipantsAre ==
  ASSUME Init
  PROVE  /\ \A m \in DOMAIN participants : \E p \in Participations : m = <<p[1], p[2]>>
         /\ \A p \in Participations :
              <<p[1], p[2]>> \in DOMAIN participants /\ participants[<<p[1], p[2]>>] = p[3]
<1>1. DOMAIN participants = {<<p[1], p[2]>> : p \in Participations}
  BY DEF Init
<1>2. ASSUME NEW p \in Participations
      PROVE  <<p[1], p[2]>> \in DOMAIN participants /\ participants[<<p[1], p[2]>>] = p[3]
  <2>1. PICK m : m = <<p[1], p[2]>>
    OBVIOUS
  <2> DEFINE chosen == CHOOSE q \in Participations : <<q[1], q[2]>> = m
  <2>2. chosen \in Participations /\ <<chosen[1], chosen[2]>> = m
    BY <2>1
  <2>3. participants[m] = chosen[3]
    BY <2>1 DEF Init
  <2> HIDE DEF chosen
  <2>4. chosen[1] = p[1] /\ chosen[2] = p[2]
    BY <2>1, <2>2
  <2>5. chosen = p
    BY <2>2, <2>4, InitAssumption
  <2> QED
    BY <1>1, <2>1, <2>3, <2>5
<1> QED
  BY <1>1, <1>2

\* What a participation of the start rests on, whoever's it is.
LEMMA ParticipationsRest ==
  ASSUME Init, ProfilesOK, NEW p \in Participations
  PROVE  /\ p[1] \in Users /\ p[2] \in DOMAIN organizations
         /\ p[3] \in DOMAIN profiles /\ profiles[p[3]].scope \in {Global, p[2]}
         /\ organizations[p[2]].owner = p[1] \/ Granted(p[3]) \subseteq handed[p[2]]
<1>1. CASE p = <<Platform, Root, AdminProfile>>
  <2>1. organizations[Root].owner = Platform /\ profiles[AdminProfile].scope = Root
    BY CeilingsAre, ProfilesAre
  <2>2. Root \in DOMAIN organizations /\ AdminProfile \in DOMAIN profiles
    BY CeilingsAre, ProfilesAre DEF Ceilings, Seeded
  <2> QED
    BY <1>1, <2>1, <2>2, IdsAssumption
<1>2. ASSUME NEW owned \in Owners, p = <<owned[2], owned[1], OrganizationAdmin(owned[1])>>
      PROVE  /\ p[1] \in Users /\ p[2] \in DOMAIN organizations
             /\ p[3] \in DOMAIN profiles /\ profiles[p[3]].scope = p[2]
             /\ organizations[p[2]].owner = p[1]
  <2>1. PICK a : a = OrganizationAdmin(owned[1])
    OBVIOUS
  <2>5. /\ OrganizationAdmin(owned[1]) \in DOMAIN profiles
        /\ profiles[OrganizationAdmin(owned[1])] = [scope |-> owned[1], grants |-> Grants, api |-> {}]
    BY ProfilesAre, Zenon
  <2>2. a \in DOMAIN profiles /\ profiles[a].scope = owned[1]
    BY <2>1, <2>5
  <2>3. owned \in Ceilings
    BY DEF Ceilings
  <2>6. /\ owned[1] \in DOMAIN organizations /\ owned[2] \in Users
        /\ organizations[owned[1]] = [owner |-> owned[2], ceiling |-> owned[3]]
    BY <2>3, CeilingsAre, Zenon
  <2>4. owned[1] \in DOMAIN organizations /\ owned[2] \in Users /\ organizations[owned[1]].owner = owned[2]
    BY <2>6
  <2> QED
    BY <1>2, <2>1, <2>2, <2>4
<1>3. ASSUME p \in Joined
      PROVE  /\ p[1] \in Users /\ p[2] \in DOMAIN organizations
             /\ p[3] \in DOMAIN profiles /\ profiles[p[3]].scope \in {Global, p[2]}
             /\ Granted(p[3]) \subseteq handed[p[2]]
  <2>1. p[1] \in Users /\ p[2] \in DOMAIN organizations /\ p[2] \in Organizations
    <3>1. p[1] \in Users /\ p[2] \in {c[1] : c \in Ceilings}
      BY <1>3, InitAssumption
    <3>2. PICK c \in Ceilings : p[2] = c[1]
      BY <3>1
    <3>3. c[1] \in Organizations /\ c[1] \in DOMAIN organizations
      BY CeilingsAre, Zenon
    <3> QED
      BY <3>1, <3>2, <3>3
  <2>2. handed[p[2]] = LoginGrants \union UNION {profiles[q[3]].grants : q \in {q \in Joined : q[2] = p[2]}}
    BY <2>1 DEF Init
  <2>3. profiles[p[3]].grants \subseteq handed[p[2]]
    BY <1>3, <2>2
  <2>4. CASE p[3] = LoginProfile
    <3>1. p[3] \in DOMAIN profiles /\ profiles[p[3]].scope = Global /\ profiles[p[3]].api = {}
      BY <2>4, ProfilesAre DEF Seeded
    <3> QED
      BY <2>1, <2>3, <3>1 DEF Granted
  <2>5. ASSUME NEW a \in Authored, a[1] = p[3], a[2] = p[2]
        PROVE  /\ p[3] \in DOMAIN profiles /\ profiles[p[3]].scope = p[2]
               /\ Granted(p[3]) \subseteq handed[p[2]]
    <3>1. p[3] \in DOMAIN profiles /\ profiles[p[3]] = [scope |-> a[2], grants |-> a[3], api |-> {}]
      BY <2>5, ProfilesAre
    <3> QED
      BY <2>3, <2>5, <3>1 DEF Granted
  <2> QED
    BY <1>3, <2>1, <2>4, <2>5, InitAssumption
<1> QED
  BY <1>1, <1>2, <1>3 DEF Participations

LEMMA InitProfiles ==
  ASSUME Init
  PROVE  ProfilesOK
<1>1. ASSUME NEW p \in DOMAIN profiles
      PROVE  /\ p \in Profiles
             /\ profiles[p] \in [scope : DOMAIN organizations \union {Global},
                                 grants : SUBSET Grants, api : SUBSET Grants]
             /\ profiles[p].api = IF p = AdminProfile THEN Grants ELSE {}
             /\ p \in Admins => p[2] \in DOMAIN organizations /\ profiles[p].grants = Grants
  <2>1. CASE p \in Seeded
    <3>1. p \in Profiles /\ p \notin Admins
      BY <2>1, IdsAssumption DEF Profiles
    <3>2. Root \in DOMAIN organizations
      BY CeilingsAre DEF Ceilings
    <3>3. AdminProfile # ManagerProfile /\ AdminProfile # LoginProfile
      BY IdsAssumption
    <3>4. /\ profiles[AdminProfile] = [scope |-> Root, grants |-> Grants, api |-> Grants]
          /\ profiles[ManagerProfile] = [scope |-> Root, grants |-> ManagerGrants, api |-> {}]
          /\ profiles[LoginProfile] = [scope |-> Global, grants |-> LoginGrants, api |-> {}]
      BY ProfilesAre, Zenon
    <3>5. ManagerGrants \subseteq Grants /\ LoginGrants \subseteq Grants
      BY SeedAssumption
    <3>6. p = AdminProfile \/ p = ManagerProfile \/ p = LoginProfile
      BY <2>1 DEF Seeded
    <3>7. profiles[p] \in [scope : DOMAIN organizations \union {Global}, grants : SUBSET Grants, api : SUBSET Grants]
      BY <3>2, <3>4, <3>5, <3>6
    <3>8. profiles[p].api = IF p = AdminProfile THEN Grants ELSE {}
      BY <3>3, <3>4, <3>6
    <3> QED
      BY <3>1, <3>7, <3>8
  <2>2. ASSUME NEW owned \in Owners, p = OrganizationAdmin(owned[1])
        PROVE  /\ p \in Admins /\ p[2] = owned[1] /\ p[2] \in DOMAIN organizations /\ p # AdminProfile
               /\ profiles[p] = [scope |-> owned[1], grants |-> Grants, api |-> {}]
    <3>1. p \in Admins /\ p[2] = owned[1]
      BY <2>2, InitAssumption DEF Admins, OrganizationAdmin
    <3>2. owned[1] \in DOMAIN organizations
      BY CeilingsAre DEF Ceilings
    <3>3. p # AdminProfile
      BY <3>1, IdsAssumption DEF Seeded
    <3> QED
      BY <2>2, <3>1, <3>2, <3>3, ProfilesAre
  <2>3. ASSUME NEW a \in Authored, p = a[1]
        PROVE  /\ p \in Drafts /\ p \notin Admins /\ p # AdminProfile
               /\ a[2] \in DOMAIN organizations /\ a[3] \subseteq Grants
               /\ profiles[p] = [scope |-> a[2], grants |-> a[3], api |-> {}]
    <3>1. p \in Drafts /\ a[2] \in DOMAIN organizations /\ a[3] \subseteq Grants
      <4>1. p \in Drafts /\ a[2] \in {c[1] : c \in Ceilings} /\ a[3] \subseteq Grants
        BY <2>3, InitAssumption
      <4>2. PICK c \in Ceilings : a[2] = c[1]
        BY <4>1
      <4>3. c[1] \in DOMAIN organizations
        BY CeilingsAre, Zenon
      <4> QED
        BY <4>1, <4>2, <4>3
    <3>2. p \notin Admins /\ p # AdminProfile
      BY <3>1, IdsAssumption DEF Seeded
    <3> QED
      BY <2>3, <3>1, <3>2, ProfilesAre
  <2>4. p \in Seeded \/ (\E owned \in Owners : p = OrganizationAdmin(owned[1])) \/ \E a \in Authored : p = a[1]
    BY ProfilesAre
  <2>5. CASE \E owned \in Owners : p = OrganizationAdmin(owned[1])
    <3>1. PICK owned \in Owners : p = OrganizationAdmin(owned[1])
      BY <2>5
    <3>2. /\ p \in Admins /\ p[2] = owned[1] /\ p[2] \in DOMAIN organizations /\ p # AdminProfile
          /\ profiles[p] = [scope |-> owned[1], grants |-> Grants, api |-> {}]
      BY <2>2, <3>1, Zenon
    <3> QED
      BY <3>2 DEF Profiles
  <2>6. CASE \E a \in Authored : p = a[1]
    <3>1. PICK a \in Authored : p = a[1]
      BY <2>6
    <3>2. /\ p \in Drafts /\ p \notin Admins /\ p # AdminProfile
          /\ a[2] \in DOMAIN organizations /\ a[3] \subseteq Grants
          /\ profiles[p] = [scope |-> a[2], grants |-> a[3], api |-> {}]
      BY <2>3, <3>1, Zenon
    <3> QED
      BY <3>2 DEF Profiles
  <2> QED
    BY <2>1, <2>4, <2>5, <2>6
<1>2. profiles \in [DOMAIN profiles ->
                     [scope : DOMAIN organizations \union {Global},
                      grants : SUBSET Grants, api : SUBSET Grants]]
  <2>1. profiles = [p \in DOMAIN profiles |-> profiles[p]]
    BY DEF Init
  <2> QED
    BY <1>1, <2>1
<1>3. AdminProfile \in DOMAIN profiles
  BY ProfilesAre DEF Seeded
<1>4. ASSUME NEW o \in Organizations, OrganizationAdmin(o) \in DOMAIN profiles
      PROVE  o \in DOMAIN organizations /\ profiles[OrganizationAdmin(o)].grants = Grants
  <2>1. PICK p : p = OrganizationAdmin(o)
    OBVIOUS
  <2>2. p \in Admins /\ p[2] = o
    BY <2>1 DEF Admins, OrganizationAdmin
  <2> QED
    BY <1>1, <1>4, <2>1, <2>2
<1> QED
  BY <1>1, <1>2, <1>3, <1>4 DEF ProfilesOK

LEMMA InitOrganizations ==
  ASSUME Init
  PROVE  OrganizationsOK
<1>1. ASSUME NEW o \in DOMAIN organizations
      PROVE  o \in Organizations /\ organizations[o] \in [owner : Users, ceiling : DOMAIN profiles]
  <2>1. PICK c \in Ceilings : c[1] = o
    BY CeilingsAre
  <2>2. c[3] \in DOMAIN profiles
    BY CeilingsAre, ProfilesAre
  <2>3. /\ c[1] \in Organizations /\ c[2] \in Users
        /\ organizations[c[1]] = [owner |-> c[2], ceiling |-> c[3]]
    BY CeilingsAre, Zenon
  <2> QED
    BY <2>1, <2>2, <2>3
<1>2. organizations \in [DOMAIN organizations -> [owner : Users, ceiling : DOMAIN profiles]]
  BY <1>1 DEF Init
<1>3. Root \in DOMAIN organizations /\ organizations[Root].ceiling = AdminProfile
  BY CeilingsAre DEF Ceilings
<1> QED
  BY <1>1, <1>2, <1>3 DEF OrganizationsOK

LEMMA InitParticipants ==
  ASSUME Init, ProfilesOK, OrganizationsOK
  PROVE  /\ ParticipantsOK
         /\ \A m \in DOMAIN participants :
              m[1] # organizations[m[2]].owner => Granted(participants[m]) \subseteq handed[m[2]]
<1>1. ASSUME NEW m \in DOMAIN participants
      PROVE  /\ m \in Users \X DOMAIN organizations
             /\ participants[m] \in DOMAIN profiles /\ profiles[participants[m]].scope \in {Global, m[2]}
             /\ m[1] # organizations[m[2]].owner => Granted(participants[m]) \subseteq handed[m[2]]
  <2>1. PICK p \in Participations : m = <<p[1], p[2]>>
    BY ParticipantsAre
  <2>2. participants[m] = p[3]
    BY <2>1, ParticipantsAre
  <2>3. m \in Users \X DOMAIN organizations /\ m[1] = p[1] /\ m[2] = p[2]
    BY <2>1, ParticipationsRest
  <2>4. p[3] \in DOMAIN profiles /\ profiles[p[3]].scope \in {Global, p[2]}
        /\ (organizations[p[2]].owner = p[1] \/ Granted(p[3]) \subseteq handed[p[2]])
    BY ParticipationsRest
  <2> QED
    BY <2>2, <2>3, <2>4 DEF Granted
<1>2. participants \in [DOMAIN participants -> DOMAIN profiles]
  BY <1>1 DEF Init
<1>3. ASSUME NEW o \in DOMAIN organizations
      PROVE  /\ <<organizations[o].owner, o>> \in DOMAIN participants
             /\ participants[<<organizations[o].owner, o>>] = OwnersRow(o)
  <2>1. PICK c \in Ceilings : c[1] = o
    BY CeilingsAre
  <2>7. organizations[c[1]] = [owner |-> c[2], ceiling |-> c[3]]
    BY CeilingsAre, Zenon
  <2>2. organizations[o].owner = c[2]
    BY <2>1, <2>7
  <2>3. PICK row : row = OwnersRow(o)
    OBVIOUS
  <2>4. PICK p : p = <<c[2], o, row>>
    OBVIOUS
  <2>5. p \in Participations
    <3>1. CASE c = <<Root, Platform, AdminProfile>>
      BY <2>1, <2>3, <2>4, <3>1 DEF OwnersRow, Participations
    <3>2. CASE c \in Owners
      <4>1. o # Root
        BY <2>1, <3>2, InitAssumption
      <4> QED
        BY <2>1, <2>3, <2>4, <3>2, <4>1 DEF OwnersRow, Participations
    <3> QED
      BY <3>1, <3>2 DEF Ceilings
  <2>6. <<p[1], p[2]>> \in DOMAIN participants /\ participants[<<p[1], p[2]>>] = p[3]
    BY <2>5, ParticipantsAre
  <2> QED
    BY <2>2, <2>3, <2>4, <2>6
<1> QED
  BY <1>1, <1>2, <1>3 DEF ParticipantsOK

LEMMA IInvInit == Init => IInv
<1> SUFFICES ASSUME Init
             PROVE  IInv
  OBVIOUS
<1>1. ProfilesOK /\ OrganizationsOK
  BY InitProfiles, InitOrganizations
<1>2. ParticipantsOK
      /\ \A m \in DOMAIN participants :
           m[1] # organizations[m[2]].owner => Granted(participants[m]) \subseteq handed[m[2]]
  BY <1>1, InitParticipants
<1>3. LoginProfile \in DOMAIN profiles
      /\ profiles[LoginProfile] = [scope |-> Global, grants |-> LoginGrants, api |-> {}]
  BY ProfilesAre DEF Seeded
<1>4. PlacesOK
  BY <1>3 DEF Init, PlacesOK
<1>5. MetadataOK
  BY SeedAssumption DEF Init, MetadataOK, PatchesStick
<1>6. HandedOK
  <2>1. ASSUME NEW o \in Organizations
        PROVE  handed[o] \subseteq Grants /\ LoginGrants \subseteq handed[o]
    <3>1. handed[o] = LoginGrants \union UNION {profiles[q[3]].grants : q \in {q \in Joined : q[2] = o}}
      BY DEF Init
    <3>2. ASSUME NEW q \in Joined
          PROVE  profiles[q[3]].grants \subseteq Grants
      <4>1. q \in Participations
        BY DEF Participations
      <4>2. q[3] \in DOMAIN profiles
        BY <1>1, <4>1, ParticipationsRest
      <4> QED
        BY <1>1, <4>2 DEF ProfilesOK
    <3> QED
      BY <3>1, <3>2, SeedAssumption
  <2> QED
    BY <2>1 DEF HandedOK, Init
<1>7. Granted(defaultProfile) \subseteq handed[Root]
  <2>1. handed[Root] = LoginGrants \union UNION {profiles[q[3]].grants : q \in {q \in Joined : q[2] = Root}}
    BY IdsAssumption DEF Init
  <2>3. defaultProfile = LoginProfile
    BY DEF Init
  <2>2. Granted(defaultProfile) = LoginGrants
    BY <1>3, <2>3 DEF Granted
  <2> QED
    BY <2>1, <2>2
<1>8. RequestsKnow
  BY DEF Init, RequestsKnow, Knows, KnowsCaller, KnowsHeld, KnowsWrite
<1> QED
  BY <1>1, <1>2, <1>4, <1>5, <1>6, <1>7, <1>8 DEF IInv, Books, NobodyOutgrows

-----------------------------------------------------------------------------
(* What a write changes *)

\* A row that concedes something else is a row of the organization of the request, and
\* concedes no more than the request held.
LEMMA ProfilesTouched ==
  ASSUME IInv, NEW r \in Requests, Write(r), NEW p \in DOMAIN profiles
  PROVE  \/ Granted(p)' = Granted(p)
         \/ profiles[p].scope = requests[r].org /\ Granted(p)' \subseteq requests[r].held
<1>1. PICK g : g = requests[r]
  OBVIOUS
<1>2. CASE WriteProfile(r)
  <2>1. PICK w, q : w = g.write /\ q = w.profile
    OBVIOUS
  <2>2. g.op = "UpdateProfile" /\ KnowsWrite(g) /\ Books /\ g.pc = "writing" /\ g.held \subseteq Grants
    BY <1>1, <1>2, Writer DEF WriteProfile
  <2>3. /\ q \in DOMAIN profiles \ Admins /\ profiles[q].scope = g.org /\ w.api = profiles[q].api
        /\ w.grants # Unset => w.grants \subseteq g.held
    BY <2>1, <2>2 DEF KnowsWrite, KnowsEdit
  <2>4. CASE w.grants = Unset
    BY <1>1, <1>2, <2>1, <2>4 DEF WriteProfile, Granted
  <2>5. CASE w.grants # Unset
    <3>1. PICK grants, api : grants = w.grants /\ api = w.api
      OBVIOUS
    <3>2. profiles' = [profiles EXCEPT ![q].grants = grants, ![q].api = api]
      BY <1>1, <1>2, <2>1, <2>5, <3>1 DEF WriteProfile
    <3>3. ProfilesOK /\ q \in DOMAIN profiles /\ grants \subseteq Grants /\ api = profiles[q].api
      BY <2>2, <2>3, <2>5, <3>1 DEF Books
    <3>4. /\ p # q => profiles'[p] = profiles[p]
          /\ profiles'[q].grants = grants /\ profiles'[q].api = api
      BY <3>2, <3>3, EditedProfile
    <3>5. CASE p # q
      BY <3>4, <3>5 DEF Granted
    <3>6. CASE p = q /\ p = AdminProfile
      <4>1. api = Grants /\ Granted(p) = Grants
        BY <3>3, <3>6, HeldIsGrants DEF ProfilesOK
      <4>2. Granted(p)' = grants \union api
        BY <3>4, <3>6 DEF Granted
      <4> QED
        BY <3>3, <4>1, <4>2
    <3>7. CASE p = q /\ p # AdminProfile
      <4>1. api = {}
        BY <3>3, <3>7 DEF ProfilesOK
      <4>2. Granted(p)' = grants \union api
        BY <3>4, <3>7 DEF Granted
      <4> QED
        BY <1>1, <2>3, <2>5, <3>1, <3>7, <4>1, <4>2
    <3> QED
      BY <3>5, <3>6, <3>7
  <2> QED
    BY <2>4, <2>5
<1>3. CASE WriteOrganization(r)
  <2>1. PICK o \in Organizations \ DOMAIN organizations :
          profiles' = [x \in DOMAIN profiles \union {OrganizationAdmin(o)} |->
                         IF x = OrganizationAdmin(o) THEN [scope |-> o, grants |-> Grants, api |-> {}]
                         ELSE profiles[x]]
    BY <1>3 DEF WriteOrganization
  <2>2. PICK a : a = OrganizationAdmin(o)
    OBVIOUS
  <2>3. a \notin DOMAIN profiles
    BY <2>1, <2>2 DEF IInv, Books, ProfilesOK
  <2>4. profiles'[p] = profiles[p]
    BY <2>1, <2>2, <2>3
  <2> QED
    BY <2>4 DEF Granted
<1>4. CASE WriteNewProfile(r)
  <2>1. PICK grants : grants = requests[r].write.grants
    OBVIOUS
  <2>2. PICK q \in Drafts \ DOMAIN profiles :
          profiles' = [x \in DOMAIN profiles \union {q} |->
                         IF x = q THEN [scope |-> requests[r].org, grants |-> grants, api |-> {}]
                         ELSE profiles[x]]
    BY <1>4, <2>1 DEF WriteNewProfile
  <2>3. profiles'[p] = profiles[p]
    BY <2>2
  <2> QED
    BY <2>3 DEF Granted
<1>5. CASE WriteCurrent(r) \/ WriteParticipant(r) \/ WriteUserPool(r) \/ WriteMetadata(r)
  <2>1. profiles' = profiles
    BY <1>5 DEF WriteCurrent, WriteParticipant, WriteUserPool, WriteMetadata
  <2> QED
    BY <2>1 DEF Granted
<1> QED
  BY <1>2, <1>3, <1>4, <1>5 DEF Write

\* A participation that changes is one in the organization of the request, and of
\* somebody else.
LEMMA ParticipationsTouched ==
  ASSUME IInv, NEW r \in Requests, Write(r), NEW m \in DOMAIN participants
  PROVE  \/ participants'[m] = participants[m]
         \/ m[1] # requests[r].user /\ m[2] = requests[r].org
<1>1. CASE WriteParticipant(r)
  <2>1. PICK g, moved, p : g = requests[r] /\ moved = <<g.write.user, g.org>> /\ p = g.write.profile
    OBVIOUS
  <2>2. g.op = "UpdateParticipant" /\ KnowsWrite(g) /\ g.pc = "writing"
    BY <1>1, <2>1, Writer DEF WriteParticipant
  <2>3. g.write.user # g.user
    BY <2>2 DEF KnowsWrite, KnowsMove
  <2>4. participants' = [participants EXCEPT ![moved] = p]
    BY <1>1, <2>1 DEF WriteParticipant
  <2>5. moved[1] = g.write.user /\ moved[2] = g.org
    BY <2>1
  <2> QED
    BY <2>1, <2>3, <2>4, <2>5
<1>2. CASE WriteOrganization(r)
  <2>1. PICK u : u = requests[r].user
    OBVIOUS
  <2>2. PICK o \in Organizations \ DOMAIN organizations :
          participants' = [x \in DOMAIN participants \union {<<u, o>>} |->
                             IF x = <<u, o>> THEN OrganizationAdmin(o) ELSE participants[x]]
    BY <1>2, <2>1 DEF WriteOrganization
  <2>3. PICK born : born = <<u, o>>
    OBVIOUS
  <2>4. born \notin DOMAIN participants
    BY <2>2, <2>3 DEF IInv, Books, ParticipantsOK
  <2> QED
    BY <2>2, <2>3, <2>4
<1>3. CASE WriteCurrent(r) \/ WriteNewProfile(r) \/ WriteProfile(r) \/ WriteUserPool(r) \/ WriteMetadata(r)
  BY <1>3 DEF WriteCurrent, WriteNewProfile, WriteProfile, WriteUserPool, WriteMetadata
<1> QED
  BY <1>1, <1>2, <1>3 DEF Write

LEMMA OwnersHold == Books => OwnersKeepTheirCeiling
<1> SUFFICES ASSUME Books PROVE OwnersKeepTheirCeiling
  OBVIOUS
<1>1. ASSUME NEW o \in DOMAIN organizations
      PROVE  Held(organizations[o].owner, o) = Granted(organizations[o].ceiling)
  <2>1. PICK m, row, c : m = <<organizations[o].owner, o>> /\ row = participants[m] /\ c = organizations[o].ceiling
    OBVIOUS
  <2>2. o \in Organizations /\ c \in DOMAIN profiles
    BY <2>1 DEF Books, OrganizationsOK
  <2>3. row \in DOMAIN profiles /\ row = OwnersRow(o)
    BY <2>1 DEF Books, ParticipantsOK
  <2>4. Granted(row) = Grants
    <3>1. CASE o = Root
      BY <2>3, <3>1, HeldIsGrants DEF Books, OwnersRow
    <3>2. CASE o # Root
      <4>1. row = OrganizationAdmin(o) /\ row \in Admins
        BY <2>2, <2>3, <3>2 DEF OwnersRow, Admins
      <4>2. profiles[row].grants = Grants
        BY <2>2, <2>3, <4>1 DEF Books, ProfilesOK
      <4>3. row # AdminProfile
        BY <4>1, IdsAssumption DEF Seeded
      <4> QED
        BY <2>3, <4>2, <4>3, HeldIsGrants DEF Books
    <3> QED
      BY <3>1, <3>2
  <2>5. Granted(c) \subseteq Grants
    BY <2>2, HeldIsGrants DEF Books
  <2>6. Held(organizations[o].owner, o) = Granted(c) \intersect Granted(row)
    BY <2>1 DEF Held
  <2> QED
    BY <2>1, <2>4, <2>5, <2>6
<1>2. Granted(organizations[Root].ceiling) = Grants
  <2>1. organizations[Root].ceiling = AdminProfile /\ AdminProfile \in DOMAIN profiles
    BY DEF Books, OrganizationsOK, ProfilesOK
  <2>2. Granted(AdminProfile) = Grants
    BY <2>1, HeldIsGrants DEF Books
  <2> QED
    BY <2>1, <2>2
<1> QED
  BY <1>1, <1>2 DEF OwnersKeepTheirCeiling

-----------------------------------------------------------------------------
(* The theorems *)

LEMMA IInvKept == Spec => []IInv
BY IInvInit, IInvStep, PTL DEF Spec

\* Whatever is changed or added, nothing names a row that is not there: every ceiling,
\* participation and default is a profile, and every user is somewhere it participates.
THEOREM TypeCorrect == Spec => []TypeOK
<1>1. IInv => TypeOK
  BY DEF IInv, Books, OrganizationsOK, ParticipantsOK, ProfilesOK, PlacesOK, MetadataOK, HandedOK, TypeOK
<1> QED
  BY <1>1, IInvKept, PTL

\* However many members promote each other, edit their profiles or change the default of
\* the pool, at once and on reads that are stale, what any of them holds was handed out
\* by the owner of the organization (UpdateParticipant, profile.service and WithinHeld).
THEOREM OnlyWhatWasHandedOut == Spec => []NobodyOutgrows
<1>1. IInv => NobodyOutgrows
  BY DEF IInv, Books
<1> QED
  BY <1>1, IInvKept, PTL

\* The owner of an organization is never locked out of it (Movable, writable).
THEOREM OwnersAreNotLockedOut == Spec => []OwnersKeepTheirCeiling
<1>1. IInv => OwnersKeepTheirCeiling
  BY OwnersHold DEF IInv
<1> QED
  BY <1>1, IInvKept, PTL

\* A patch is lost to another patch of its row that raced with it, and to nothing else
\* (MergeJsonPatch and the updates of five services).
THEOREM PatchesAreKept == Spec => []PatchesStick
<1>1. IInv => PatchesStick
  BY DEF IInv, Books, MetadataOK
<1> QED
  BY <1>1, IInvKept, PTL

\* A write in one organization leaves what the participations of every other one rest on
\* (UpdateForOrganization and UpdateParticipant).
THEOREM WritesStayAtHome == Spec => OtherOrganizationsUntouched
<1>1. ASSUME IInv, NEW r \in Requests, Write(r), NEW m \in DOMAIN participants, m[2] # requests[r].org
      PROVE  participants'[m] = participants[m] /\ Granted(participants[m])' = Granted(participants[m])
  <2>1. participants'[m] = participants[m]
    BY <1>1, ParticipationsTouched
  <2>2. PICK p : p = participants[m]
    OBVIOUS
  <2>3. p \in DOMAIN profiles /\ profiles[p].scope \in {Global, m[2]}
    BY <1>1, <2>2 DEF IInv, Books, ParticipantsOK
  <2>4. requests[r].org \in Organizations
    <3>1. PICK g : g = requests[r]
      OBVIOUS
    <3>2. g.pc = "writing"
      BY <1>1, <3>1 DEF Write, Writes, WriteCurrent, WriteOrganization, WriteParticipant, WriteNewProfile,
                        WriteProfile, WriteUserPool, WriteMetadata
    <3> QED
      BY <1>1, <3>1, <3>2 DEF IInv, RequestsKnow, Knows, KnowsHeld, Who, Books, OrganizationsOK
  <2>5. profiles[p].scope # requests[r].org
    BY <1>1, <2>3, <2>4, IdsAssumption
  <2>6. Granted(p)' = Granted(p)
    BY <1>1, <2>3, <2>5, ProfilesTouched
  <2> QED
    BY <2>1, <2>2, <2>6 DEF Granted
<1>2. IInv =>
        [\A r \in Requests :
           Write(r) =>
             \A m \in DOMAIN participants :
               m[2] # requests[r].org =>
                 /\ participants'[m] = participants[m]
                 /\ Granted(participants[m])' = Granted(participants[m])]_vars
  BY <1>1
<1> QED
  BY <1>2, IInvKept, PTL DEF OtherOrganizationsUntouched

\* Nobody gains by a write of its own (writable and UpdateParticipant).
THEOREM NobodyGainsByItsWrite == Spec => NobodyElevatesItself
<1>1. ASSUME IInv, NEW r \in Requests, Write(r), NEW m \in DOMAIN participants, m[1] = requests[r].user
      PROVE  Held(m[1], m[2])' \subseteq Held(m[1], m[2]) \union requests[r].held
  <2>1. participants'[m] = participants[m]
    BY <1>1, ParticipationsTouched
  <2>2. m = <<m[1], m[2]>> /\ m[2] \in DOMAIN organizations
    BY <1>1 DEF IInv, Books, ParticipantsOK
  <2>3. organizations'[m[2]] = organizations[m[2]]
    BY <1>1, <2>2, WriteCurrentStep, WriteOrganizationStep, WriteParticipantStep, WriteNewProfileStep,
       WriteProfileStep, WriteUserPoolStep, WriteMetadataStep DEF Write, Grows
  <2>4. PICK p, c, u, o : p = participants[m] /\ c = organizations[m[2]].ceiling /\ u = m[1] /\ o = m[2]
    OBVIOUS
  <2>5. p \in DOMAIN profiles /\ c \in DOMAIN profiles
    BY <1>1, <2>2, <2>4 DEF IInv, Books, ParticipantsOK, OrganizationsOK
  <2>6. /\ Granted(p)' \subseteq Granted(p) \union requests[r].held
        /\ Granted(c)' \subseteq Granted(c) \union requests[r].held
    BY <1>1, <2>5, ProfilesTouched
  <2>7. Held(u, o) = Granted(c) \intersect Granted(p)
    BY <2>2, <2>4 DEF Held
  <2>8. Held(u, o)' = Granted(c)' \intersect Granted(p)'
    BY <2>1, <2>2, <2>3, <2>4 DEF Held, Granted
  <2>9. Held(m[1], m[2])' = Held(u, o)' /\ Held(m[1], m[2]) = Held(u, o)
    BY <2>4 DEF Held, Granted
  <2> QED
    BY <2>6, <2>7, <2>8, <2>9
<1>2. IInv =>
        [\A r \in Requests :
           Write(r) =>
             \A m \in DOMAIN participants :
               m[1] = requests[r].user =>
                 Held(m[1], m[2])' \subseteq Held(m[1], m[2]) \union requests[r].held]_vars
  BY <1>1
<1> QED
  BY <1>2, IInvKept, PTL DEF NobodyElevatesItself
=============================================================================
