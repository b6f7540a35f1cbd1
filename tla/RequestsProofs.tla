--------------------------- MODULE RequestsProofs ---------------------------
(***************************************************************************)
(* What holds of the staff accounts, the addresses and service areas, and  *)
(* the storefront, whose requests read in one transaction and write in     *)
(* another (Requests): the invariants say what a request that was          *)
(* validated still carries when it comes to write.                         *)
(***************************************************************************)
EXTENDS Storefront, Locations, StaffAccess, TLAPS

-----------------------------------------------------------------------------
(* Workers *)

LEMMA IdleOp == Idle.op = "none"
  BY DEF Idle

\* Everybody but w is left at what he was doing.
OthersStay(w) == DOMAIN job' = Workers /\ \A v \in Workers \ {w} : job'[v] = job[v]

LEMMA OneServes ==
    ASSUME DOMAIN job = Workers, NEW w \in Workers, NEW j, job' = [job EXCEPT ![w] = j]
    PROVE  OthersStay(w) /\ job'[w] = j
<1>1. DOMAIN job' = Workers
  BY Zenon
<1>2. job'[w] = j /\ \A v \in Workers \ {w} : job'[v] = job[v]
  OBVIOUS
<1>3. QED BY <1>1, <1>2 DEF OthersStay
-----------------------------------------------------------------------------
(* Staff *)

\* What a request that was validated will write: of its own author nothing that
\* takes the role away, and the groups that go with the role.
ValidatedUpdate(j) ==
    /\ j.by \in Users /\ j.target \in Users /\ user[j.target] \in Account
    /\ j.role \in Roles \cup {Unset} /\ j.active \in BOOLEAN \cup {Unset}
    /\ j.staff \in BOOLEAN \cup {Unset} /\ j.groups \in (SUBSET Groups) \cup {Unset}
    /\ j.by = j.target => /\ j.role # Unset => j.role = "SUPER_ADMIN"
                          /\ j.active # Unset => j.active
    /\ j.groups # Unset => NamesProfile(j.resulting, j.groups)

ValidatedGroups(j) ==
    /\ j.target \in Users /\ user[j.target] \in Account
    /\ j.groups \in SUBSET Groups /\ NamesProfile(j.role, j.groups)

StaffJobs ==
    \A w \in Workers : \/ job[w] = Idle
                       \/ job[w].op = "update" /\ ValidatedUpdate(job[w])
                       \/ job[w].op = "groups" /\ ValidatedGroups(job[w])

StaffRows == /\ user \in [Users -> Account \cup {Unset}]
             /\ user[Root] \in Account
             /\ DOMAIN job = Workers /\ outdated \in BOOLEAN /\ requests \in 0..MaxRequests

StaffInv == StaffRows /\ StaffJobs /\ SomebodyAdministers

LEMMA StaffStarts == ASSUME StaffInit PROVE StaffInv
<1> USE StaffAssumption, UnsetAssumption, RequestsAssumption DEF StaffInit
<1>1. Superuser({}) \in Account
  BY DEF Superuser, Account, Roles
<1>2. StaffRows
  <2>1. user \in [Users -> Account \cup {Unset}] /\ user[Root] \in Account
    BY <1>1
  <2>2. DOMAIN job = Workers
    BY Zenon
  <2>3. requests \in 0..MaxRequests
    OBVIOUS
  <2>4. outdated \in BOOLEAN
    BY Zenon
  <2>5. QED BY <2>1, <2>2, <2>3, <2>4 DEF StaffRows
<1>3. StaffJobs
  BY DEF StaffJobs
<1>4. Administers(Root)
  BY <1>1 DEF Administers, Superuser
<1>5. QED BY <1>2, <1>3, <1>4 DEF StaffInv, SomebodyAdministers

\* A write of one row by the request of one worker.
LEMMA StaffWrite ==
    ASSUME StaffInv, NEW w \in Workers, NEW u \in Users,
           NEW r \in Account, NEW j,
           user' = [user EXCEPT ![u] = r], job' = [job EXCEPT ![w] = j],
           outdated' \in BOOLEAN, requests' \in 0..MaxRequests,
           \/ j = Idle
           \/ j.op = "update" /\ ValidatedUpdate(j)'
           \/ j.op = "groups" /\ ValidatedGroups(j)'
    PROVE  StaffRows' /\ StaffJobs'
<1>1. /\ user' \in [Users -> Account \cup {Unset}]
      /\ \A v \in Users : user[v] \in Account => user'[v] \in Account
  BY DEF StaffInv, StaffRows
<1>2. DOMAIN job' = Workers /\ job'[w] = j /\ \A v \in Workers \ {w} : job'[v] = job[v]
  BY DEF StaffInv, StaffRows
<1>3. StaffRows'
  BY <1>1, <1>2, UnsetAssumption DEF StaffInv, StaffRows
<1>4. ASSUME NEW v \in Workers \ {w}
      PROVE  \/ job'[v] = Idle
             \/ job'[v].op = "update" /\ ValidatedUpdate(job[v])'
             \/ job'[v].op = "groups" /\ ValidatedGroups(job[v])'
  <2>1. job'[v] = job[v]
    BY <1>2
  <2>2. CASE job[v].op = "update" /\ ValidatedUpdate(job[v])
    BY <1>1, <2>1, <2>2 DEF ValidatedUpdate
  <2>3. CASE job[v].op = "groups" /\ ValidatedGroups(job[v])
    BY <1>1, <2>1, <2>3 DEF ValidatedGroups
  <2>4. QED BY <2>1, <2>2, <2>3 DEF StaffInv, StaffJobs
<1>5. StaffJobs'
  BY <1>2, <1>4 DEF StaffJobs
<1>6. QED BY <1>3, <1>5

\* An administrator whose row a request leaves alone, or writes as it may write its
\* own author's, is one still.
LEMMA StillAdministers ==
    ASSUME StaffInv, NEW by \in Users, Administers(by),
           NEW u \in Users, NEW r \in Account, user' = [user EXCEPT ![u] = r],
           u = by => r.active /\ r.role = "SUPER_ADMIN"
    PROVE  SomebodyAdministers'
<1>1. user'[by] = IF u = by THEN r ELSE user[by]
  BY DEF StaffInv, StaffRows
<1>2. user'[by] # Unset /\ user'[by].active /\ user'[by].role = "SUPER_ADMIN"
  BY <1>1, UnsetAssumption DEF Administers
<1>3. QED BY <1>2 DEF SomebodyAdministers, Administers

LEMMA CreateStaffKeeps ==
    ASSUME StaffInv, NEW w \in Workers, CreateStaff(w)
    PROVE  StaffInv'
<1>1. PICK by \in Users, u \in Users, role \in {"ADMIN", "SUPER_ADMIN"},
           groups \in SUBSET Groups :
              /\ Administers(by) /\ user[u] = Unset
              /\ NamesProfile(role, groups)
              /\ user' = [user EXCEPT ![u] = [role |-> role, active |-> TRUE, staff |-> TRUE,
                                              groups |-> {}]]
              /\ Begin(w, IF groups = {} THEN Idle
                                ELSE [op |-> "groups", target |-> u, role |-> role,
                                      groups |-> groups])
  BY DEF CreateStaff
<1> DEFINE r == [role |-> role, active |-> TRUE, staff |-> TRUE, groups |-> {}]
           j == IF groups = {} THEN Idle
                ELSE [op |-> "groups", target |-> u, role |-> role, groups |-> groups]
<1>2. r \in Account /\ user' = [user EXCEPT ![u] = r]
  BY <1>1 DEF Account, Roles
<1>3. /\ job' = [job EXCEPT ![w] = j] /\ outdated' = outdated
      /\ requests' = requests + 1 /\ requests < MaxRequests
  BY <1>1 DEF CreateStaff, Begin, Free
<1>4. by # u
  BY <1>1 DEF Administers
<1> HIDE DEF r
<1>5. j = Idle \/ (j.op = "groups" /\ ValidatedGroups(j)')
  <2>1. CASE groups = {}
    BY <2>1
  <2>2. CASE groups # {}
    <3>1. j.op = "groups" /\ j.target = u /\ j.role = role /\ j.groups = groups
      BY <2>2
    <3> HIDE DEF j
    <3>2. user'[u] = r
      BY <1>2 DEF StaffInv, StaffRows
    <3>3. QED BY <1>1, <1>2, <3>1, <3>2 DEF ValidatedGroups, NamesProfile
  <2>3. QED BY <2>1, <2>2
<1> HIDE DEF j
<1>6. outdated' \in BOOLEAN /\ requests' \in 0..MaxRequests
  BY <1>3, RequestsAssumption DEF StaffInv, StaffRows
<1>7. StaffRows' /\ StaffJobs'
  BY <1>2, <1>3, <1>5, <1>6, StaffWrite
<1>8. SomebodyAdministers'
  <2>1. Administers(by)
    BY <1>1
  <2>2. QED BY <1>2, <1>4, <2>1, StillAdministers
<1>9. QED BY <1>7, <1>8 DEF StaffInv

\* A step that writes no row.
LEMMA StaffRead ==
    ASSUME StaffInv, NEW w \in Workers, NEW j,
           user' = user, outdated' = outdated, job' = [job EXCEPT ![w] = j],
           requests' \in 0..MaxRequests,
           j = Idle \/ (j.op = "update" /\ ValidatedUpdate(j))
    PROVE  StaffInv'
<1>1. DOMAIN job' = Workers /\ job'[w] = j /\ \A v \in Workers \ {w} : job'[v] = job[v]
  BY DEF StaffInv, StaffRows
<1>2. StaffRows' /\ SomebodyAdministers'
  BY <1>1 DEF StaffInv, StaffRows, SomebodyAdministers, Administers
<1>3. ASSUME NEW v \in Workers
      PROVE  \/ job'[v] = Idle
             \/ job'[v].op = "update" /\ ValidatedUpdate(job'[v])
             \/ job'[v].op = "groups" /\ ValidatedGroups(job'[v])
  BY <1>1 DEF StaffInv, StaffJobs
<1>4. StaffJobs'
  BY <1>3 DEF StaffJobs, ValidatedUpdate, ValidatedGroups
<1>5. QED BY <1>2, <1>4 DEF StaffInv

LEMMA UpdateStaffKeeps ==
    ASSUME StaffInv, NEW w \in Workers, UpdateStaff(w)
    PROVE  StaffInv'
<1> SUFFICES
      ASSUME NEW by \in Users, NEW u \in Users,
             NEW role \in {"ADMIN", "SUPER_ADMIN", Unset},
             NEW active \in BOOLEAN \cup {Unset}, NEW staff \in BOOLEAN \cup {Unset},
             NEW groups \in (SUBSET Groups) \cup {Unset},
             Administers(by), user[u] # Unset, user[u].staff,
             KeepsSelf(by, u, role, active, staff),
             groups # Unset => NamesProfile(Given(role, user[u].role), groups),
             Begin(w, [op |-> "update", by |-> by, target |-> u, active |-> active,
                             staff |-> staff, role |-> role, groups |-> groups,
                             resulting |-> Given(role, user[u].role)])
      PROVE  StaffInv'
  BY DEF UpdateStaff
<1> DEFINE resulting == Given(role, user[u].role)
           j == [op |-> "update", by |-> by, target |-> u, active |-> active,
                 staff |-> staff, role |-> role, groups |-> groups, resulting |-> resulting]
<1>1. /\ user' = user /\ outdated' = outdated
      /\ Begin(w, j) /\ Free(w)
  BY DEF UpdateStaff
<1>2. /\ job' = [job EXCEPT ![w] = j] /\ requests' = requests + 1 /\ requests < MaxRequests
  <2> HIDE DEF j
  <2>1. QED BY <1>1 DEF Begin, Free
<1>3. user[u] \in Account
  BY DEF StaffInv, StaffRows
<1>4. by = u => (role # Unset => role = "SUPER_ADMIN") /\ (active # Unset => active)
  BY DEF KeepsSelf, Given
<1>5. groups # Unset => NamesProfile(resulting, groups)
  OBVIOUS
<1> HIDE DEF resulting
<1>6. /\ j.op = "update" /\ j.by = by /\ j.target = u /\ j.active = active /\ j.staff = staff
      /\ j.role = role /\ j.groups = groups /\ j.resulting = resulting
  OBVIOUS
<1> HIDE DEF j
<1>7. ValidatedUpdate(j)
  BY <1>3, <1>4, <1>5, <1>6 DEF ValidatedUpdate, Roles
<1>8. requests' \in 0..MaxRequests
  BY <1>2, RequestsAssumption DEF StaffInv, StaffRows
<1>9. QED BY <1>1, <1>2, <1>6, <1>7, <1>8, StaffRead

LEMMA SaveColumnsKeeps ==
    ASSUME StaffInv, NEW w \in Workers, SaveColumns(w)
    PROVE  StaffInv'
<1> DEFINE j == job[w]
           u == j.target
           old == user[u]
           r == [old EXCEPT !.role = Given(j.role, old.role),
                            !.active = Given(j.active, old.active),
                            !.staff = Given(j.staff, old.staff)]
<1>1. j.op = "update" /\ j # Idle
  BY DEF SaveColumns, Idle
<1>2. ValidatedUpdate(j)
  BY <1>1 DEF StaffInv, StaffJobs
<1>3. /\ user \in [Users -> Account \cup {Unset}] /\ u \in Users
      /\ old \in Account
  BY <1>2 DEF ValidatedUpdate, StaffInv, StaffRows
<1>4. user' = [user EXCEPT ![u] = r]
  BY <1>3 DEF SaveColumns
<1>5. /\ Given(j.role, old.role) \in Roles
      /\ Given(j.active, old.active) \in BOOLEAN
      /\ Given(j.staff, old.staff) \in BOOLEAN
  BY <1>2, <1>3 DEF ValidatedUpdate, Given, Account
<1>6. /\ r \in Account /\ r.role = Given(j.role, old.role)
      /\ r.active = Given(j.active, old.active)
  BY <1>3, <1>5 DEF Account
<1>7. PICK next :
        /\ next = IF j.groups = Unset THEN Idle
                  ELSE [op |-> "groups", target |-> u, role |-> j.resulting,
                        groups |-> j.groups]
        /\ job' = [job EXCEPT ![w] = next] /\ requests' = requests
        /\ outdated' = (outdated \/ ~Administers(j.by))
  BY DEF SaveColumns, Go
<1> HIDE DEF r
<1>8. next = Idle \/ (next.op = "groups" /\ ValidatedGroups(next)')
  <2>1. CASE j.groups = Unset
    BY <1>7, <2>1
  <2>2. CASE j.groups # Unset
    <3>1. /\ next.op = "groups" /\ next.target = u /\ next.role = j.resulting
          /\ next.groups = j.groups
      BY <1>7, <2>2
    <3>2. user'[u] = r
      BY <1>3, <1>4
    <3>3. j.groups \in SUBSET Groups /\ NamesProfile(j.resulting, j.groups)
      BY <1>2, <2>2 DEF ValidatedUpdate
    <3> HIDE DEF j, u
    <3>4. QED BY <1>3, <1>6, <3>1, <3>2, <3>3 DEF ValidatedGroups, NamesProfile
  <2>3. QED BY <2>1, <2>2
<1>9. outdated' \in BOOLEAN /\ requests' \in 0..MaxRequests
  BY <1>7 DEF StaffInv, StaffRows
<1>10. StaffRows' /\ StaffJobs'
  BY <1>3, <1>4, <1>6, <1>7, <1>8, <1>9, StaffWrite
<1>11. CASE Administers(j.by)
  <2>1. u = j.by => r.active /\ r.role = "SUPER_ADMIN"
    BY <1>2, <1>6, <1>11 DEF ValidatedUpdate, Administers, Given
  <2>2. j.by \in Users
    BY <1>2 DEF ValidatedUpdate
  <2> HIDE DEF j, u
  <2>3. SomebodyAdministers'
    BY <1>3, <1>4, <1>6, <1>11, <2>1, <2>2, StillAdministers
  <2>4. QED BY <1>10, <2>3 DEF StaffInv
<1>12. CASE ~Administers(j.by)
  BY <1>7, <1>10, <1>12 DEF StaffInv, SomebodyAdministers
<1>13. QED BY <1>11, <1>12

\* What only writes groups leaves the administrators as they are.
LEMMA SetGroupsKeeps ==
    ASSUME StaffInv, NEW w \in Workers, SetGroups(w)
    PROVE  StaffInv'
<1> DEFINE j == job[w]
           u == j.target
           old == user[u]
           r == [old EXCEPT !.groups = j.groups]
<1>1. j.op = "groups" /\ j # Idle
  BY DEF SetGroups, Idle
<1>2. ValidatedGroups(j)
  BY <1>1 DEF StaffInv, StaffJobs
<1>3. /\ user \in [Users -> Account \cup {Unset}] /\ u \in Users
      /\ old \in Account /\ j.groups \in SUBSET Groups
  BY <1>2 DEF ValidatedGroups, StaffInv, StaffRows
<1>4. r \in Account /\ r.role = old.role /\ r.active = old.active
  BY <1>3 DEF Account
<1>5. /\ user' = [user EXCEPT ![u] = r] /\ job' = [job EXCEPT ![w] = Idle]
      /\ requests' = requests /\ outdated' = outdated
  BY DEF SetGroups, Go, Done
<1> HIDE DEF r, old, u, j
<1>6. outdated' \in BOOLEAN /\ requests' \in 0..MaxRequests
  BY <1>5 DEF StaffInv, StaffRows
<1>7. StaffRows' /\ StaffJobs'
  BY <1>3, <1>4, <1>5, <1>6, StaffWrite
<1>8. ASSUME NEW by \in Users, Administers(by) PROVE SomebodyAdministers'
  <2>1. u = by => r.active /\ r.role = "SUPER_ADMIN"
    BY <1>4, <1>8 DEF Administers, old
  <2>2. QED BY <1>3, <1>4, <1>5, <1>8, <2>1, StillAdministers
<1>9. outdated => SomebodyAdministers'
  BY <1>5 DEF SomebodyAdministers
<1>10. outdated \/ \E by \in Users : Administers(by)
  BY DEF StaffInv, SomebodyAdministers
<1>11. QED BY <1>7, <1>8, <1>9, <1>10 DEF StaffInv

LEMMA EnsureSuperuserKeeps ==
    ASSUME StaffInv, EnsureSuperuser
    PROVE  StaffInv'
<1> DEFINE r == Superuser(user[Root].groups)
<1>1. user[Root] \in Account /\ Root \in Users
  BY StaffAssumption DEF StaffInv, StaffRows
<1>2. r \in Account /\ r.active /\ r.role = "SUPER_ADMIN"
  BY <1>1 DEF Superuser, Account, Roles
<1>3. /\ user' = [user EXCEPT ![Root] = r] /\ job' = job /\ outdated' = outdated
      /\ requests' = requests + 1 /\ requests < MaxRequests
  BY <1>1 DEF EnsureSuperuser
<1> HIDE DEF r
<1>4. /\ user' \in [Users -> Account \cup {Unset}] /\ user'[Root] = r
      /\ \A v \in Users : user[v] \in Account => user'[v] \in Account
  BY <1>1, <1>2, <1>3 DEF StaffInv, StaffRows
<1>5. requests' \in 0..MaxRequests
  BY <1>3, RequestsAssumption DEF StaffInv, StaffRows
<1>6. StaffRows'
  BY <1>2, <1>3, <1>4, <1>5 DEF StaffInv, StaffRows
<1>7. ASSUME NEW v \in Workers
      PROVE  \/ job'[v] = Idle
             \/ job'[v].op = "update" /\ ValidatedUpdate(job[v])'
             \/ job'[v].op = "groups" /\ ValidatedGroups(job[v])'
  <2>1. CASE job[v].op = "update" /\ ValidatedUpdate(job[v])
    BY <1>3, <1>4, <2>1 DEF ValidatedUpdate
  <2>2. CASE job[v].op = "groups" /\ ValidatedGroups(job[v])
    BY <1>3, <1>4, <2>2 DEF ValidatedGroups
  <2>3. QED BY <1>3, <2>1, <2>2 DEF StaffInv, StaffJobs
<1>8. StaffJobs'
  BY <1>7 DEF StaffJobs
<1>9. SomebodyAdministers'
  BY <1>1, <1>2, <1>4, UnsetAssumption DEF SomebodyAdministers, Administers
<1>10. QED BY <1>6, <1>8, <1>9 DEF StaffInv

LEMMA StaffStep == ASSUME StaffInv, [StaffNext]_staffVars PROVE StaffInv'
<1>1. ASSUME NEW w \in Workers, StaffRequestDies(w) PROVE StaffInv'
  <2>1. /\ user' = user /\ outdated' = outdated /\ requests' = requests
        /\ job' = [job EXCEPT ![w] = Idle]
    BY <1>1 DEF StaffRequestDies, Go, Done
  <2>2. requests' \in 0..MaxRequests
    BY <2>1 DEF StaffInv, StaffRows
  <2>3. QED BY <2>1, <2>2, StaffRead
<1>2. CASE UNCHANGED staffVars
  BY <1>2 DEF staffVars, StaffInv, StaffRows, StaffJobs, ValidatedUpdate, ValidatedGroups,
              SomebodyAdministers, Administers
<1>3. QED
  BY <1>1, <1>2, CreateStaffKeeps, UpdateStaffKeeps, SaveColumnsKeeps, SetGroupsKeeps,
     EnsureSuperuserKeeps DEF StaffNext

THEOREM StaffInvariance == StaffSpec => []StaffInv
<1>1. StaffInit => StaffInv
  BY StaffStarts
<1>2. StaffInv /\ [StaffNext]_staffVars => StaffInv'
  BY StaffStep
<1>3. QED BY <1>1, <1>2, PTL DEF StaffSpec

\* Somebody can administer the staff, unless a request of an author who had lost the
\* role was carried out (AdminStaffUpdateSerializer.validate).
THEOREM StaffIsAdministered == StaffSpec => []SomebodyAdministers
<1>1. StaffSpec => []StaffInv
  BY StaffInvariance
<1>2. StaffInv => SomebodyAdministers
  BY DEF StaffInv
<1>3. QED BY <1>1, <1>2, PTL

\* The rows are accounts, and every worker serves one request at a time.
THEOREM StaffTypeCorrect == StaffSpec => []StaffTypeOK
<1>1. StaffInv => StaffTypeOK
  BY DEF StaffInv, StaffRows, StaffTypeOK
<1>2. QED BY <1>1, StaffInvariance, PTL

\* No profile reaches the staff accounts.
LEMMA ProfileIsNotAll ==
    ASSUME NEW r \in Account, r.role = "ADMIN", r.groups # {}, "Super Admin" \notin r.groups
    PROVE  Access(r) # All
<1> DEFINE entry == <<"staff", "GET">>
<1>1. entry \in All
  BY DEF All, Areas, Everything, Write, Read
<1>2. ASSUME NEW g \in DOMAIN Profiles PROVE entry \notin Profiles[g]
  <2>1. g \in {"Operations Admin", "Customer Support", "Catalogue Manager", "Finance",
               "Technician Coordinator"}
    BY <1>2 DEF Profiles
  <2>2. CASE g = "Operations Admin"
    BY <2>2 DEF Profiles
  <2>3. CASE g = "Customer Support"
    BY <2>3 DEF Profiles
  <2>4. CASE g = "Catalogue Manager"
    BY <2>4 DEF Profiles
  <2>5. CASE g = "Finance"
    BY <2>5 DEF Profiles
  <2>6. CASE g = "Technician Coordinator"
    BY <2>6 DEF Profiles
  <2>7. QED BY <2>1, <2>2, <2>3, <2>4, <2>5, <2>6
<1>3. entry \notin UNION {Profiles[g] : g \in r.groups \cap DOMAIN Profiles}
  BY <1>2
<1> HIDE DEF entry
<1>4. entry \notin Access(r)
  BY <1>3 DEF Access, StaffAccess
<1>5. QED BY <1>1, <1>4

\* The groups of an account change with a request for groups only.
LEMMA GroupsChange ==
    ASSUME StaffInv, StaffNext, NEW u \in Users, user[u] # Unset
    PROVE  /\ user'[u] \in Account
           /\ \/ user'[u].groups = user[u].groups
              \/ \E w \in Workers : /\ job[w].op = "groups" /\ job[w].target = u
                                    /\ user'[u].groups = job[w].groups
                                    /\ NamesProfile(job[w].role, job[w].groups)
<1> DEFINE Changed == /\ user'[u] \in Account
                      /\ \/ user'[u].groups = user[u].groups
                         \/ \E w \in Workers : /\ job[w].op = "groups" /\ job[w].target = u
                                               /\ user'[u].groups = job[w].groups
                                               /\ NamesProfile(job[w].role, job[w].groups)
<1>1. /\ user \in [Users -> Account \cup {Unset}] /\ user[u] \in Account
      /\ user[Root] \in Account /\ Root \in Users
      /\ StaffRows'
  BY StaffStep, StaffAssumption, UnsetAssumption DEF StaffInv, StaffRows
<1>2. CASE UNCHANGED user
  BY <1>1, <1>2
<1>3. ASSUME NEW w \in Workers, CreateStaff(w) PROVE Changed
  <2>1. PICK v \in Users : user[v] = Unset /\ \E r : user' = [user EXCEPT ![v] = r]
    BY <1>3 DEF CreateStaff
  <2>2. user'[u] = user[u]
    BY <1>1, <2>1
  <2>3. QED BY <1>1, <2>2
<1>4. ASSUME NEW w \in Workers, SaveColumns(w) PROVE Changed
  <2>1. job[w].op = "update" /\ job[w] # Idle
    BY <1>4 DEF SaveColumns, Idle
  <2>2. ValidatedUpdate(job[w])
    BY <2>1 DEF StaffInv, StaffJobs
  <2> DEFINE old == user[job[w].target]
             role == Given(job[w].role, old.role)
             active == Given(job[w].active, old.active)
             staff == Given(job[w].staff, old.staff)
             r == [old EXCEPT !.role = role, !.active = active, !.staff = staff]
  <2>3. old \in Account /\ user' = [user EXCEPT ![job[w].target] = r]
    BY <1>1, <1>4, <2>2 DEF SaveColumns, ValidatedUpdate
  <2>4. role \in Roles /\ active \in BOOLEAN /\ staff \in BOOLEAN
    BY <2>2, <2>3 DEF ValidatedUpdate, Given, Account
  <2> HIDE DEF role, active, staff
  <2>5. r \in Account /\ r.groups = old.groups
    BY <2>3, <2>4 DEF Account
  <2> HIDE DEF r
  <2>6. user'[u] = IF u = job[w].target THEN r ELSE user[u]
    BY <1>1, <2>3
  <2>7. QED BY <1>1, <2>5, <2>6
<1>5. ASSUME NEW w \in Workers, SetGroups(w) PROVE Changed
  <2>1. job[w].op = "groups" /\ job[w] # Idle
    BY <1>5 DEF SetGroups, Idle
  <2>2. ValidatedGroups(job[w])
    BY <2>1 DEF StaffInv, StaffJobs
  <2> DEFINE old == user[job[w].target]
             r == [old EXCEPT !.groups = job[w].groups]
  <2>3. old \in Account /\ user' = [user EXCEPT ![job[w].target] = r]
    BY <1>1, <1>5, <2>2 DEF SetGroups, ValidatedGroups
  <2>4. r \in Account /\ r.groups = job[w].groups
    BY <2>2, <2>3 DEF ValidatedGroups, Account
  <2> HIDE DEF r
  <2>5. user'[u] = IF u = job[w].target THEN r ELSE user[u]
    BY <1>1, <2>3
  <2>6. QED BY <1>1, <2>1, <2>2, <2>4, <2>5 DEF ValidatedGroups
<1>6. CASE EnsureSuperuser
  <2> DEFINE r == Superuser(user[Root].groups)
  <2>1. r \in Account /\ r.groups = user[Root].groups
    BY <1>1 DEF Superuser, Account, Roles
  <2>2. user' = [user EXCEPT ![Root] = r]
    BY <1>1, <1>6 DEF EnsureSuperuser
  <2> HIDE DEF r
  <2>3. QED BY <1>1, <2>1, <2>2
<1>7. QED
  BY <1>2, <1>3, <1>4, <1>5, <1>6 DEF StaffNext, UpdateStaff, StaffRequestDies

\* An administrator with a profile does not come to have all access by losing it
\* (AdminStaffUpdateSerializer.validate, staff_access_allowed).
THEOREM StaffProfilesAreKept == StaffSpec => ProfilesAreKept
<1> DEFINE ProfileKept(u) ==
       (/\ user[u] # Unset /\ user[u].role = "ADMIN" /\ user[u].groups # {}
        /\ user'[u].role = "ADMIN" /\ "Super Admin" \notin user'[u].groups
        /\ ~\E w \in Workers : /\ job[w].op = "groups" /\ job[w].target = u
                               /\ job[w].role # "ADMIN")
       => Access(user'[u]) # All
<1>1. StaffInv /\ [StaffNext]_staffVars => [\A u \in Users : ProfileKept(u)]_staffVars
  <2> SUFFICES ASSUME StaffInv, StaffNext, NEW u \in Users, user[u] # Unset,
                      user[u].groups # {}, user'[u].role = "ADMIN",
                      "Super Admin" \notin user'[u].groups,
                      ~\E w \in Workers : /\ job[w].op = "groups" /\ job[w].target = u
                                          /\ job[w].role # "ADMIN"
               PROVE  Access(user'[u]) # All
    OBVIOUS
  <2>1. user'[u] \in Account /\ user'[u].groups # {}
    BY GroupsChange DEF NamesProfile
  <2>2. QED BY <2>1, ProfileIsNotAll
<1>2. StaffSpec => []StaffInv
  BY StaffInvariance
<1>3. QED BY <1>1, <1>2, PTL DEF StaffSpec, ProfilesAreKept
-----------------------------------------------------------------------------
(* Addresses and service areas *)

\* What a request that reads or writes an address or the area carries.
LocationJob(j) ==
    \/ j = Idle
    \/ j.op = "save" /\ j.address \in Addresses /\ j.row \in AddressRow
    \/ j.op = "clear" /\ j.address \in Addresses
    \/ j.op = "lead" /\ j.address \in Addresses /\ j.default \in BOOLEAN
    \/ /\ j.op = "area" /\ area # Absent /\ j.to \in SUBSET Services
       /\ j.active \in BOOLEAN /\ j.named \in BOOLEAN /\ j.configured \in BOOLEAN
    \/ j.op = "read services" /\ area # Absent /\ j.to \in SUBSET Services
    \/ /\ j.op = "set services" /\ area # Absent
       /\ j.to \in SUBSET Services /\ j.old \in SUBSET Services
    \/ j.op = "ask" \/ j.op = "fall back"
    \/ j.op = "store" /\ j.serviceable \in BOOLEAN

LocationRows == /\ LocationsTypeOK
                /\ DOMAIN job = Workers
                /\ \A w \in Workers : LocationJob(job[w])

\* The area sells what was last asked for.
AreaSettled == (area # Absent /\ area.configured) => area.services = asked

\* How far a request that changes the area is on its way to what was asked for.
AreaJob(j) == /\ j.op = "area" =>
                    AreaSettled /\ (~j.named => j.configured = area.configured)
              /\ j.op = "read services" => j.to = asked
              /\ j.op = "set services" => j.to = asked /\ j.old = area.services

\* As long as somebody can say what was asked for, one request at most is changing
\* the area, and it is on its way there.
AreaFollowed ==
    asked # Absent =>
       /\ \A v, w \in Workers : ChangesArea(v) /\ ChangesArea(w) => v = w
       /\ \A w \in Workers : AreaJob(job[w])
       /\ ~Changing => AreaSettled

LocationsInv == LocationRows /\ AreaFollowed /\ OneDefault

LEMMA LocationRowsKept ==
    ASSUME LocationRows, NEW w \in Workers, OthersStay(w), LocationsTypeOK',
           LocationJob(job[w])', area # Absent => area' # Absent
    PROVE  LocationRows'
<1>1. ASSUME NEW v \in Workers, v # w PROVE LocationJob(job[v])'
  BY <1>1 DEF LocationRows, LocationJob, OthersStay
<1>2. QED BY <1>1 DEF LocationRows, OthersStay

\* A request that has nothing to do with the area.
LEMMA AreaAlone ==
    ASSUME AreaFollowed, NEW w \in Workers, OthersStay(w), UNCHANGED <<area, asked>>,
           ~ChangesArea(w), ~ChangesArea(w)'
    PROVE  AreaFollowed'
<1>1. \A v \in Workers : ChangesArea(v)' <=> ChangesArea(v)
  BY DEF ChangesArea, OthersStay
<1>2. Changing' <=> Changing
  BY <1>1 DEF Changing
<1>3. ASSUME NEW v \in Workers, AreaJob(job[v]) PROVE AreaJob(job[v])'
  BY <1>3 DEF AreaJob, AreaSettled, ChangesArea, OthersStay
<1>4. QED BY <1>1, <1>2, <1>3 DEF AreaFollowed, AreaSettled

\* A request adds a default only if it clears the others next or is known not to,
\* and does not forget to clear them.
LEMMA OneDefaultKept ==
    ASSUME OneDefault, NEW w \in Workers, OthersStay(w), unsettled \subseteq unsettled',
           job[w].op = "clear" => job[w].address \in unsettled',
           \A a \in Addresses : Default(a)' =>
              \/ Default(a) \/ a \in unsettled'
              \/ job'[w].op = "clear" /\ job'[w].address = a
    PROVE  OneDefault'
<1> SUFFICES ASSUME NEW a \in Addresses, NEW b \in Addresses, a # b,
                    Default(a)', Default(b)'
             PROVE  \/ \E v \in Workers : job'[v].op = "clear" /\ job'[v].address \in {a, b}
                    \/ {a, b} \cap unsettled' # {}
  BY DEF OneDefault
<1>1. CASE a \in unsettled' \/ b \in unsettled'
  BY <1>1
<1>2. CASE job'[w].op = "clear" /\ job'[w].address \in {a, b}
  BY <1>2
<1>3. CASE Default(a) /\ Default(b)
  <2>1. \/ \E v \in Workers : job[v].op = "clear" /\ job[v].address \in {a, b}
        \/ {a, b} \cap unsettled # {}
    BY <1>3 DEF OneDefault
  <2>2. ASSUME NEW v \in Workers, v # w, job[v].op = "clear", job[v].address \in {a, b}
        PROVE  job'[v].op = "clear" /\ job'[v].address \in {a, b}
    BY <2>2 DEF OthersStay
  <2>3. QED BY <2>1, <2>2
<1>4. QED BY <1>1, <1>2, <1>3

\* A request about addresses.
LEMMA AddressStepKept ==
    ASSUME LocationsInv, NEW w \in Workers, OthersStay(w), UnchangedButAddresses,
           address' \in [Addresses -> AddressRow \cup {Absent}],
           LocationJob(job[w])', ~ChangesArea(w), ~ChangesArea(w)', OneDefault'
    PROVE  LocationsInv'
<1>1. UNCHANGED <<area, asked, cache>>
  BY DEF UnchangedButAddresses
<1>2. LocationsTypeOK'
  BY <1>1 DEF LocationsInv, LocationRows, LocationsTypeOK
<1>3. LocationRows'
  BY <1>1, <1>2, LocationRowsKept DEF LocationsInv
<1>4. AreaFollowed'
  BY <1>1, AreaAlone DEF LocationsInv
<1>5. QED BY <1>3, <1>4 DEF LocationsInv

LEMMA CreateAddressKeeps ==
    ASSUME LocationsInv, NEW w \in Workers, CreateAddress(w)
    PROVE  LocationsInv'
<1>1. PICK a \in Addresses, default \in BOOLEAN :
         /\ address' = [address EXCEPT ![a] = [default |-> default, active |-> TRUE]]
         /\ Begin(w, IF default THEN [op |-> "clear", address |-> a] ELSE Idle)
  BY DEF CreateAddress
<1> DEFINE row == [default |-> default, active |-> TRUE]
           j == IF default THEN [op |-> "clear", address |-> a] ELSE Idle
<1>2. ~default => j = Idle
  OBVIOUS
<1>3. default => j.op = "clear" /\ j.address = a
  OBVIOUS
<1>4. row \in AddressRow /\ (row.default => default)
  BY DEF AddressRow
<1>5. job[w] = Idle /\ job' = [job EXCEPT ![w] = j]
  BY <1>1 DEF Begin, Free
<1> HIDE DEF row, j
<1>6. OthersStay(w) /\ job'[w] = j
  BY <1>5, OneServes DEF LocationsInv, LocationRows
<1>7. address' = [address EXCEPT ![a] = row] /\ address \in [Addresses -> AddressRow \cup {Absent}]
  BY <1>1 DEF row, LocationsInv, LocationRows, LocationsTypeOK
<1>8. LocationJob(job[w])' /\ ~ChangesArea(w) /\ ~ChangesArea(w)'
  <2>1. LocationJob(job[w])'
    BY <1>2, <1>3, <1>6 DEF LocationJob
  <2>2. /\ job[w].op \in {"none", "save", "clear", "lead"}
        /\ job'[w].op \in {"none", "save", "clear", "lead"}
    BY <1>2, <1>3, <1>5, <1>6 DEF Idle
  <2>3. QED BY <2>1, <2>2 DEF ChangesArea
<1>9. OneDefault'
  <2>1. \A b \in Addresses : Default(b)' =>
           Default(b) \/ (job'[w].op = "clear" /\ job'[w].address = b)
    BY <1>3, <1>4, <1>6, <1>7 DEF Default
  <2>2. unsettled' = unsettled /\ job[w].op # "clear" /\ OneDefault
    BY <1>5 DEF CreateAddress, Idle, LocationsInv
  <2>3. QED BY <1>6, <2>1, <2>2, OneDefaultKept
<1>10. address' \in [Addresses -> AddressRow \cup {Absent}]
  BY <1>4, <1>7
<1>11. UnchangedButAddresses
  BY DEF CreateAddress
<1>12. QED BY <1>6, <1>8, <1>9, <1>10, <1>11, AddressStepKept

LEMMA PatchAddressKeeps ==
    ASSUME LocationsInv, NEW w \in Workers, PatchAddress(w)
    PROVE  LocationsInv'
<1>1. PICK a \in Addresses, asks \in BOOLEAN, default \in BOOLEAN :
         /\ address[a] # Absent
         /\ Begin(w, [op |-> "save", address |-> a, asks |-> asks,
                      row |-> [address[a] EXCEPT !.default = default]])
  BY DEF PatchAddress
<1> DEFINE row == [address[a] EXCEPT !.default = default]
           j == [op |-> "save", address |-> a, asks |-> asks, row |-> row]
<1>2. row \in AddressRow
  BY <1>1 DEF AddressRow, LocationsInv, LocationRows, LocationsTypeOK
<1> HIDE DEF row
<1>3. j.op = "save" /\ j.address = a /\ j.row = row
  OBVIOUS
<1>4. job[w] = Idle /\ job' = [job EXCEPT ![w] = j]
  BY <1>1 DEF Begin, Free, row
<1> HIDE DEF j
<1>5. OthersStay(w) /\ job'[w] = j
  BY <1>4, OneServes DEF LocationsInv, LocationRows
<1>6. LocationJob(job[w])' /\ ~ChangesArea(w) /\ ~ChangesArea(w)'
  <2>1. LocationJob(job[w])'
    BY <1>2, <1>3, <1>4, <1>5 DEF LocationJob
  <2>2. /\ job[w].op \in {"none", "save", "clear", "lead"}
        /\ job'[w].op \in {"none", "save", "clear", "lead"}
    BY <1>2, <1>3, <1>4, <1>5 DEF Idle
  <2>3. QED BY <2>1, <2>2 DEF ChangesArea
<1>7. UNCHANGED <<address, unsettled>> /\ UnchangedButAddresses
  BY DEF PatchAddress
<1>8. OneDefault'
  <2>1. \A b \in Addresses : Default(b)' => Default(b)
    BY <1>7 DEF Default
  <2>2. job[w].op # "clear" /\ OneDefault
    BY <1>4 DEF Idle, LocationsInv
  <2>3. QED BY <1>5, <1>7, <2>1, <2>2, OneDefaultKept
<1>9. address' \in [Addresses -> AddressRow \cup {Absent}]
  BY <1>7 DEF LocationsInv, LocationRows, LocationsTypeOK
<1>10. QED BY <1>5, <1>6, <1>7, <1>8, <1>9, AddressStepKept

LEMMA SaveAddressKeeps ==
    ASSUME LocationsInv, NEW w \in Workers, SaveAddress(w)
    PROVE  LocationsInv'
<1> DEFINE a == job[w].address
           row == job[w].row
           j == IF row.default THEN [op |-> "clear", address |-> a] ELSE Idle
<1>1. job[w].op = "save" /\ job[w] # Idle
  BY DEF SaveAddress, Idle
<1>2. a \in Addresses /\ row \in AddressRow
  BY <1>1 DEF LocationsInv, LocationRows, LocationJob
<1>3. address' = [address EXCEPT ![a] = row] /\ job' = [job EXCEPT ![w] = j]
  BY DEF SaveAddress, Go, Enforced
<1>4. ~row.default => j = Idle
  OBVIOUS
<1>5. row.default => j.op = "clear" /\ j.address = a
  OBVIOUS
<1> HIDE DEF j, row, a
<1>6. OthersStay(w) /\ job'[w] = j
  BY <1>3, OneServes DEF LocationsInv, LocationRows
<1>7. LocationJob(job[w])' /\ ~ChangesArea(w) /\ ~ChangesArea(w)'
  <2>1. LocationJob(job[w])'
    BY <1>2, <1>4, <1>5, <1>6 DEF LocationJob
  <2>2. /\ job[w].op \in {"none", "save", "clear", "lead"}
        /\ job'[w].op \in {"none", "save", "clear", "lead"}
    BY <1>1, <1>4, <1>5, <1>6 DEF Idle
  <2>3. QED BY <2>1, <2>2 DEF ChangesArea
<1>8. address \in [Addresses -> AddressRow \cup {Absent}]
  BY DEF LocationsInv, LocationRows, LocationsTypeOK
<1>9. OneDefault'
  <2>1. \A b \in Addresses : Default(b)' =>
           Default(b) \/ (job'[w].op = "clear" /\ job'[w].address = b)
    BY <1>2, <1>3, <1>5, <1>6, <1>8 DEF Default
  <2>2. unsettled' = unsettled /\ job[w].op # "clear" /\ OneDefault
    BY <1>1 DEF SaveAddress, LocationsInv
  <2>3. QED BY <1>6, <2>1, <2>2, OneDefaultKept
<1>10. address' \in [Addresses -> AddressRow \cup {Absent}]
  BY <1>2, <1>3, <1>8
<1>11. UnchangedButAddresses
  BY DEF SaveAddress
<1>12. QED BY <1>6, <1>7, <1>9, <1>10, <1>11, AddressStepKept

\* The only step that settles a default.
LEMMA ClearOthersKeeps ==
    ASSUME LocationsInv, NEW w \in Workers, ClearOthers(w)
    PROVE  LocationsInv'
<1> DEFINE a == job[w].address
           cleared(b) == [address[b] EXCEPT !.default = FALSE]
<1>1. job[w].op = "clear"
  BY DEF ClearOthers
<1>2. /\ job' = [job EXCEPT ![w] = Idle] /\ UnchangedButAddresses
      /\ address' = [b \in Addresses |-> IF b # a /\ address[b] # Absent
                                         THEN cleared(b) ELSE address[b]]
  BY DEF ClearOthers, Go, Done
<1>3. \A b \in Addresses : address[b] \in AddressRow \cup {Absent}
  BY DEF LocationsInv, LocationRows, LocationsTypeOK
<1>4. \A b \in Addresses : address[b] # Absent =>
         cleared(b) \in AddressRow /\ cleared(b).default = FALSE
  BY <1>3 DEF AddressRow
<1> HIDE DEF cleared, a
<1>5. OthersStay(w) /\ job'[w] = Idle
  BY <1>2, OneServes DEF LocationsInv, LocationRows
<1>6. LocationJob(job[w])' /\ ~ChangesArea(w) /\ ~ChangesArea(w)'
  <2>1. LocationJob(job[w])'
    BY <1>1, <1>5 DEF LocationJob
  <2>2. /\ job[w].op \in {"none", "save", "clear", "lead"}
        /\ job'[w].op \in {"none", "save", "clear", "lead"}
    BY <1>1, <1>5 DEF Idle
  <2>3. QED BY <2>1, <2>2 DEF ChangesArea
<1>7. \A b \in Addresses : b # a => ~Default(b)'
  BY <1>2, <1>4 DEF Default
<1>8. OneDefault'
  BY <1>7 DEF OneDefault
<1>9. address' \in [Addresses -> AddressRow \cup {Absent}]
  BY <1>2, <1>3, <1>4
<1>10. QED BY <1>2, <1>5, <1>6, <1>8, <1>9, AddressStepKept

LEMMA LeadAddressKeeps ==
    ASSUME LocationsInv, NEW w \in Workers, LeadAddress(w)
    PROVE  LocationsInv'
<1>1. PICK a \in Addresses, default \in BOOLEAN :
         Begin(w, [op |-> "lead", address |-> a, default |-> default])
  <2>1. (\A b \in Addresses : address[b] = Absent) \in BOOLEAN
    OBVIOUS
  <2>2. QED BY <2>1 DEF LeadAddress
<1> DEFINE j == [op |-> "lead", address |-> a, default |-> default]
<1>2. j.op = "lead" /\ j.address = a /\ j.default = default
  OBVIOUS
<1>3. job[w] = Idle /\ job' = [job EXCEPT ![w] = j]
  BY <1>1 DEF Begin, Free
<1> HIDE DEF j
<1>4. OthersStay(w) /\ job'[w] = j
  BY <1>3, OneServes DEF LocationsInv, LocationRows
<1>5. LocationJob(job[w])' /\ ~ChangesArea(w) /\ ~ChangesArea(w)'
  <2>1. LocationJob(job[w])'
    BY <1>2, <1>3, <1>4 DEF LocationJob
  <2>2. /\ job[w].op \in {"none", "save", "clear", "lead"}
        /\ job'[w].op \in {"none", "save", "clear", "lead"}
    BY <1>2, <1>3, <1>4 DEF Idle
  <2>3. QED BY <2>1, <2>2 DEF ChangesArea
<1>6. UNCHANGED <<address, unsettled>> /\ UnchangedButAddresses
  BY DEF LeadAddress
<1>7. OneDefault'
  <2>1. \A b \in Addresses : Default(b)' => Default(b)
    BY <1>6 DEF Default
  <2>2. job[w].op # "clear" /\ OneDefault
    BY <1>3 DEF Idle, LocationsInv
  <2>3. QED BY <1>4, <1>6, <2>1, <2>2, OneDefaultKept
<1>8. address' \in [Addresses -> AddressRow \cup {Absent}]
  BY <1>6 DEF LocationsInv, LocationRows, LocationsTypeOK
<1>9. QED BY <1>4, <1>5, <1>6, <1>7, <1>8, AddressStepKept

LEMMA CommitLeadAddressKeeps ==
    ASSUME LocationsInv, NEW w \in Workers, CommitLeadAddress(w)
    PROVE  LocationsInv'
<1> DEFINE a == job[w].address
           default == job[w].default
           row == [default |-> default, active |-> TRUE]
<1>1. job[w].op = "lead" /\ job[w] # Idle
  BY DEF CommitLeadAddress, Idle
<1>2. a \in Addresses /\ default \in BOOLEAN
  BY <1>1 DEF LocationsInv, LocationRows, LocationJob
<1>3. /\ address' = [address EXCEPT ![a] = row] /\ job' = [job EXCEPT ![w] = Idle]
      /\ unsettled' = IF default THEN unsettled \cup {a} ELSE unsettled
      /\ UnchangedButAddresses
  BY DEF CommitLeadAddress, Go, Done
<1> HIDE DEF default
<1>4. row \in AddressRow /\ row.default = default
  BY <1>2 DEF AddressRow
<1> HIDE DEF row, a
<1>5. OthersStay(w) /\ job'[w] = Idle
  BY <1>3, OneServes DEF LocationsInv, LocationRows
<1>6. LocationJob(job[w])' /\ ~ChangesArea(w) /\ ~ChangesArea(w)'
  <2>1. LocationJob(job[w])'
    BY <1>1, <1>5 DEF LocationJob
  <2>2. /\ job[w].op \in {"none", "save", "clear", "lead"}
        /\ job'[w].op \in {"none", "save", "clear", "lead"}
    BY <1>1, <1>5 DEF Idle
  <2>3. QED BY <2>1, <2>2 DEF ChangesArea
<1>7. address \in [Addresses -> AddressRow \cup {Absent}]
  BY DEF LocationsInv, LocationRows, LocationsTypeOK
<1>8. OneDefault'
  <2>1. \A b \in Addresses : Default(b)' => Default(b) \/ b \in unsettled'
    BY <1>2, <1>3, <1>4, <1>7 DEF Default
  <2>2. unsettled \subseteq unsettled' /\ job[w].op # "clear" /\ OneDefault
    BY <1>1, <1>3 DEF LocationsInv
  <2>3. QED BY <1>5, <2>1, <2>2, OneDefaultKept
<1>9. address' \in [Addresses -> AddressRow \cup {Absent}]
  BY <1>2, <1>3, <1>4, <1>7
<1>10. QED BY <1>3, <1>5, <1>6, <1>8, <1>9, AddressStepKept

\* A default that is withdrawn needs no clearing.
LEMMA DestroyAddressKeeps ==
    ASSUME LocationsInv, NEW a \in Addresses, DestroyAddress(a)
    PROVE  LocationsInv'
<1> DEFINE row == Retired(address[a])
<1>1. address \in [Addresses -> AddressRow \cup {Absent}] /\ address[a] # Absent
  BY DEF DestroyAddress, LocationsInv, LocationRows, LocationsTypeOK
<1>2. row \in AddressRow /\ row.default = FALSE
  BY <1>1 DEF Retired, AddressRow
<1>3. address' = [address EXCEPT ![a] = row] /\ UNCHANGED <<unsettled, job, area, asked, cache>>
  BY <1>1 DEF DestroyAddress, UnchangedButAddresses
<1> HIDE DEF row
<1>4. LocationRows'
  <2>1. LocationsTypeOK'
    BY <1>1, <1>2, <1>3 DEF LocationsInv, LocationRows, LocationsTypeOK
  <2>2. ASSUME NEW w \in Workers PROVE LocationJob(job[w])'
    BY <1>3 DEF LocationsInv, LocationRows, LocationJob
  <2>3. QED BY <1>3, <2>1, <2>2 DEF LocationsInv, LocationRows
<1>5. AreaFollowed'
  BY <1>3 DEF LocationsInv, AreaFollowed, AreaSettled, AreaJob, Changing, ChangesArea
<1>6. OneDefault'
  <2>1. \A b \in Addresses : Default(b)' => Default(b)
    BY <1>1, <1>2, <1>3 DEF Default
  <2>2. QED BY <1>3, <2>1 DEF LocationsInv, OneDefault
<1>7. QED BY <1>4, <1>5, <1>6 DEF LocationsInv

\* A request about the area.
LEMMA AreaStepKept ==
    ASSUME LocationsInv, NEW w \in Workers, OthersStay(w), UnchangedButArea,
           area' \in AreaRow, asked' \in (SUBSET Services) \cup {Absent},
           LocationJob(job[w])', job[w].op # "clear", AreaFollowed'
    PROVE  LocationsInv'
<1>1. UNCHANGED <<address, unsettled, cache>>
  BY DEF UnchangedButArea
<1>2. Absent \notin AreaRow
  BY AbsentAssumption
<1>3. LocationsTypeOK'
  BY <1>1 DEF LocationsInv, LocationRows, LocationsTypeOK
<1>4. LocationRows'
  BY <1>2, <1>3, LocationRowsKept DEF LocationsInv
<1>5. OneDefault'
  <2>1. \A b \in Addresses : Default(b)' => Default(b)
    BY <1>1 DEF Default
  <2>2. QED BY <1>1, <2>1, OneDefaultKept DEF LocationsInv
<1>6. QED BY <1>4, <1>5 DEF LocationsInv

\* Where nobody else changes the area, what one request does to it is all there is.
LEMMA AreaFollowedKept ==
    ASSUME LocationRows, NEW w \in Workers, OthersStay(w),
           asked' # Absent => ~Overlapping(w) /\ AreaJob(job[w])'
                           /\ (ChangesArea(w)' \/ AreaSettled')
    PROVE  AreaFollowed'
<1> SUFFICES ASSUME asked' # Absent PROVE AreaFollowed'
  BY DEF AreaFollowed
<1>1. \A v \in Workers : v # w => ~ChangesArea(v)'
  BY DEF Overlapping, ChangesArea, OthersStay
<1>2. \A v \in Workers : v # w => AreaJob(job[v])'
  BY <1>1 DEF AreaJob, ChangesArea
<1>3. ~Changing' => AreaSettled'
  BY DEF Changing
<1>4. QED BY <1>1, <1>2, <1>3 DEF AreaFollowed

LEMMA CreateAreaKeeps ==
    ASSUME LocationsInv, NEW w \in Workers, CreateArea(w)
    PROVE  LocationsInv'
<1>1. PICK services \in SUBSET Services, named \in BOOLEAN :
         /\ area' = [active |-> TRUE, configured |-> named, services |-> {}]
         /\ asked' = Asked(w, services)
         /\ Begin(w, [op |-> "read services", to |-> services])
  BY DEF CreateArea
<1> DEFINE j == [op |-> "read services", to |-> services]
<1>2. j.op = "read services" /\ j.to = services
  OBVIOUS
<1>3. job[w] = Idle /\ job' = [job EXCEPT ![w] = j]
  BY <1>1 DEF Begin, Free
<1> HIDE DEF j
<1>4. OthersStay(w) /\ job'[w] = j
  BY <1>3, OneServes DEF LocationsInv, LocationRows
<1>5. area' \in AreaRow /\ Absent \notin AreaRow
  BY <1>1, AbsentAssumption DEF AreaRow
<1>6. LocationJob(job[w])'
  BY <1>2, <1>4, <1>5 DEF LocationJob
<1>7. asked' \in (SUBSET Services) \cup {Absent}
  BY <1>1 DEF Asked
<1>8. asked' # Absent => ~Overlapping(w) /\ AreaJob(job[w])' /\ ChangesArea(w)'
  BY <1>1, <1>2, <1>4 DEF Asked, AreaJob, ChangesArea
<1>9. AreaFollowed'
  BY <1>4, <1>8, AreaFollowedKept DEF LocationsInv
<1>10. job[w].op # "clear" /\ UnchangedButArea
  BY <1>3, IdleOp DEF CreateArea
<1>11. QED BY <1>4, <1>5, <1>6, <1>7, <1>9, <1>10, AreaStepKept

LEMMA PatchAreaKeeps ==
    ASSUME LocationsInv, NEW w \in Workers, PatchArea(w)
    PROVE  LocationsInv'
<1>1. PICK active \in BOOLEAN, services \in SUBSET Services, named \in BOOLEAN :
         Begin(w, [op |-> "area", active |-> active, named |-> named, to |-> services,
                   configured |-> Configured(area, named)])
  BY DEF PatchArea
<1> DEFINE configured == Configured(area, named)
           j == [op |-> "area", active |-> active, named |-> named, to |-> services,
                 configured |-> configured]
<1>2. area \in AreaRow /\ area # Absent
  BY DEF PatchArea, LocationsInv, LocationRows, LocationsTypeOK
<1>3. configured \in BOOLEAN /\ (~named => configured = area.configured)
  BY <1>2 DEF Configured, AreaRow
<1>4. job[w] = Idle /\ job' = [job EXCEPT ![w] = j]
  BY <1>1 DEF Begin, Free
<1> HIDE DEF configured
<1>5. /\ j.op = "area" /\ j.active = active /\ j.named = named /\ j.to = services
      /\ j.configured = configured
  OBVIOUS
<1> HIDE DEF j
<1>6. OthersStay(w) /\ job'[w] = j
  BY <1>4, OneServes DEF LocationsInv, LocationRows
<1>7. /\ area' = area /\ asked' = IF Overlapping(w) THEN Absent ELSE asked
      /\ UnchangedButArea
  BY DEF PatchArea
<1>8. LocationJob(job[w])'
  BY <1>2, <1>3, <1>5, <1>6, <1>7 DEF LocationJob
<1>9. asked' # Absent => ~Overlapping(w) /\ AreaJob(job[w])' /\ ChangesArea(w)'
  <2> SUFFICES ASSUME asked' # Absent PROVE ~Overlapping(w) /\ AreaJob(job[w])' /\ ChangesArea(w)'
    OBVIOUS
  <2>1. ~Overlapping(w) /\ asked' = asked /\ asked # Absent
    BY <1>7
  <2>2. job[w].op = "none"
    BY <1>4 DEF Idle
  <2>3. AreaSettled
    BY <2>1, <2>2 DEF LocationsInv, AreaFollowed, Changing, Overlapping, ChangesArea
  <2>4. AreaSettled'
    BY <1>7, <2>1, <2>3 DEF AreaSettled
  <2>5. QED BY <1>3, <1>5, <1>6, <1>7, <2>1, <2>4 DEF AreaJob, ChangesArea
<1>10. AreaFollowed'
  BY <1>6, <1>9, AreaFollowedKept DEF LocationsInv
<1>11. job[w].op # "clear"
  BY <1>4 DEF Idle
<1>12. asked' \in (SUBSET Services) \cup {Absent}
  BY <1>7 DEF LocationsInv, LocationRows, LocationsTypeOK
<1>13. QED BY <1>2, <1>6, <1>7, <1>8, <1>10, <1>11, <1>12, AreaStepKept

\* What the invariant says of a request that is changing the area.
LEMMA ChangerIsAlone ==
    ASSUME LocationsInv, NEW w \in Workers, ChangesArea(w)
    PROVE  /\ LocationJob(job[w]) /\ area \in AreaRow /\ area # Absent
           /\ job[w] # Idle /\ job[w].op # "clear"
           /\ asked # Absent => ~Overlapping(w) /\ AreaJob(job[w])
<1>1. /\ LocationJob(job[w])
      /\ job[w].op \in {"area", "read services", "set services"}
  BY DEF LocationsInv, LocationRows, ChangesArea
<1>2. job[w] # Idle /\ job[w].op # "clear"
  BY <1>1, IdleOp
<1>3. area # Absent
  BY <1>1, <1>2 DEF LocationJob
<1>4. area \in AreaRow
  BY <1>3 DEF LocationsInv, LocationRows, LocationsTypeOK
<1>5. asked # Absent => ~Overlapping(w) /\ AreaJob(job[w])
  BY DEF LocationsInv, AreaFollowed, Overlapping
<1>6. QED BY <1>1, <1>2, <1>3, <1>4, <1>5

LEMMA SaveAreaKeeps ==
    ASSUME LocationsInv, NEW w \in Workers, SaveArea(w)
    PROVE  LocationsInv'
<1> DEFINE j == job[w]
           k == IF j.named THEN [op |-> "read services", to |-> j.to] ELSE Idle
           row == [area EXCEPT !.active = j.active, !.configured = j.configured]
<1>1. j.op = "area" /\ ChangesArea(w)
  BY DEF SaveArea, ChangesArea
<1>2. /\ j.to \in SUBSET Services /\ j.active \in BOOLEAN /\ j.named \in BOOLEAN
      /\ j.configured \in BOOLEAN
  BY <1>1, ChangerIsAlone DEF LocationJob
<1>3. /\ row \in AreaRow /\ row.configured = j.configured /\ row.services = area.services
  BY <1>1, <1>2, ChangerIsAlone DEF AreaRow
<1>4. /\ area' = row /\ job' = [job EXCEPT ![w] = k] /\ UnchangedButArea
      /\ asked' = IF j.named THEN Asked(w, j.to)
                  ELSE IF Overlapping(w) THEN Absent ELSE asked
  BY DEF SaveArea, Go
<1>5. /\ j.named => k.op = "read services" /\ k.to = j.to
      /\ ~j.named => k = Idle
  OBVIOUS
<1> HIDE DEF row, k
<1>6. OthersStay(w) /\ job'[w] = k
  BY <1>4, OneServes DEF LocationsInv, LocationRows
<1>7. LocationJob(job[w])'
  BY <1>2, <1>3, <1>4, <1>5, <1>6, AbsentAssumption DEF LocationJob
<1>8. asked' # Absent =>
         ~Overlapping(w) /\ AreaJob(job[w])' /\ (ChangesArea(w)' \/ AreaSettled')
  <2>1. CASE j.named
    BY <1>4, <1>5, <1>6, <2>1 DEF Asked, AreaJob, ChangesArea
  <2>2. CASE ~j.named /\ asked' # Absent
    <3>1. ~Overlapping(w) /\ asked' = asked /\ AreaJob(j) /\ area # Absent
      BY <1>1, <1>4, <2>2, ChangerIsAlone
    <3>2. AreaSettled'
      BY <1>1, <1>3, <1>4, <2>2, <3>1 DEF AreaJob, AreaSettled
    <3>3. job'[w].op = "none"
      BY <1>5, <1>6, <2>2, IdleOp
    <3>4. QED BY <3>1, <3>2, <3>3 DEF AreaJob
  <2>3. QED BY <2>1, <2>2
<1>9. AreaFollowed'
  BY <1>6, <1>8, AreaFollowedKept DEF LocationsInv
<1>10. asked' \in (SUBSET Services) \cup {Absent}
  BY <1>2, <1>4 DEF Asked, LocationsInv, LocationRows, LocationsTypeOK
<1>11. QED BY <1>1, <1>3, <1>4, <1>6, <1>7, <1>9, <1>10, ChangerIsAlone, AreaStepKept

LEMMA ReadServicesKeeps ==
    ASSUME LocationsInv, NEW w \in Workers, ReadServices(w)
    PROVE  LocationsInv'
<1> DEFINE k == [op |-> "set services", to |-> job[w].to, old |-> area.services]
<1>1. job[w].op = "read services" /\ ChangesArea(w)
  BY DEF ReadServices, ChangesArea
<1>2. job[w].to \in SUBSET Services /\ area.services \in SUBSET Services
  BY <1>1, ChangerIsAlone DEF LocationJob, AreaRow
<1>3. UNCHANGED <<area, asked>> /\ job' = [job EXCEPT ![w] = k] /\ UnchangedButArea
  BY DEF ReadServices, Go
<1>4. k.op = "set services" /\ k.to = job[w].to /\ k.old = area.services
  OBVIOUS
<1> HIDE DEF k
<1>5. OthersStay(w) /\ job'[w] = k
  BY <1>3, OneServes DEF LocationsInv, LocationRows
<1>6. LocationJob(job[w])'
  BY <1>1, <1>2, <1>3, <1>4, <1>5, ChangerIsAlone DEF LocationJob
<1>7. asked' # Absent => ~Overlapping(w) /\ AreaJob(job[w])' /\ ChangesArea(w)'
  <2>1. asked' # Absent => ~Overlapping(w) /\ job[w].to = asked
    BY <1>1, <1>3, ChangerIsAlone DEF AreaJob
  <2>2. QED BY <1>3, <1>4, <1>5, <2>1 DEF AreaJob, ChangesArea
<1>8. AreaFollowed'
  BY <1>5, <1>7, AreaFollowedKept DEF LocationsInv
<1>9. asked' \in (SUBSET Services) \cup {Absent}
  BY <1>3 DEF LocationsInv, LocationRows, LocationsTypeOK
<1>10. QED BY <1>1, <1>3, <1>5, <1>6, <1>8, <1>9, ChangerIsAlone, AreaStepKept

\* services.set leaves what was asked for, if the services are still those it read.
LEMMA SetServicesKeeps ==
    ASSUME LocationsInv, NEW w \in Workers, SetServices(w)
    PROVE  LocationsInv'
<1> DEFINE to == job[w].to
           old == job[w].old
           services == (area.services \ (old \ to)) \cup (to \ old)
           row == [area EXCEPT !.services = services]
<1>1. job[w].op = "set services" /\ ChangesArea(w)
  BY DEF SetServices, ChangesArea
<1>2. to \in SUBSET Services /\ area \in AreaRow
  BY <1>1, ChangerIsAlone DEF LocationJob
<1>3. services \in SUBSET Services /\ (old = area.services => services = to)
  BY <1>2 DEF AreaRow
<1>4. /\ area' = row /\ asked' = asked /\ job' = [job EXCEPT ![w] = Idle]
      /\ UnchangedButArea
  BY <1>2 DEF SetServices, Go, Done, Removed, AreaRow
<1> HIDE DEF services
<1>5. row \in AreaRow /\ row.services = services
  BY <1>2, <1>3 DEF AreaRow
<1> HIDE DEF row
<1>6. OthersStay(w) /\ job'[w] = Idle
  BY <1>4, OneServes DEF LocationsInv, LocationRows
<1>7. LocationJob(job[w])'
  BY <1>6 DEF LocationJob
<1>8. asked' # Absent => ~Overlapping(w) /\ AreaJob(job[w])' /\ AreaSettled'
  <2>1. job'[w].op = "none"
    BY <1>6 DEF Idle
  <2>2. asked # Absent => ~Overlapping(w) /\ to = asked /\ old = area.services
    BY <1>1, ChangerIsAlone DEF AreaJob
  <2>3. asked # Absent => area'.services = asked'
    BY <1>3, <1>4, <1>5, <2>2
  <2>4. QED BY <1>4, <2>1, <2>2, <2>3 DEF AreaJob, AreaSettled
<1>9. AreaFollowed'
  BY <1>6, <1>8, AreaFollowedKept DEF LocationsInv
<1>10. asked' \in (SUBSET Services) \cup {Absent}
  BY <1>4 DEF LocationsInv, LocationRows, LocationsTypeOK
<1>11. QED BY <1>1, <1>4, <1>5, <1>6, <1>7, <1>9, <1>10, ChangerIsAlone, AreaStepKept

\* A command or a deletion changes the row of the area at once.
LEMMA AreaAtOnceKept ==
    ASSUME LocationsInv, UNCHANGED <<job, address, unsettled, cache>>, area' \in AreaRow,
           asked' \in (SUBSET Services) \cup {Absent}, AreaFollowed'
    PROVE  LocationsInv'
<1>1. LocationsTypeOK'
  BY DEF LocationsInv, LocationRows, LocationsTypeOK
<1>2. LocationRows'
  <2>1. ASSUME NEW w \in Workers PROVE LocationJob(job[w])'
    BY AbsentAssumption DEF LocationsInv, LocationRows, LocationJob
  <2>2. QED BY <1>1, <2>1 DEF LocationsInv, LocationRows
<1>3. OneDefault'
  BY DEF LocationsInv, OneDefault, Default
<1>4. QED BY <1>2, <1>3 DEF LocationsInv

\* Opening or closing an area leaves what it sells alone.
LEMMA OpeningKeeps ==
    ASSUME LocationsInv, UNCHANGED <<job, address, unsettled, cache, asked>>,
           area' \in AreaRow,
           \/ area = Absent /\ ~area'.configured
           \/ /\ area # Absent /\ area'.configured = area.configured
              /\ area'.services = area.services
    PROVE  LocationsInv'
<1>1. AreaFollowed'
  <2>1. CASE area = Absent /\ ~area'.configured
    <3>1. \A w \in Workers : ~ChangesArea(w)
      BY <2>1, ChangerIsAlone
    <3>2. AreaSettled'
      BY <2>1 DEF AreaSettled
    <3>3. QED BY <3>1, <3>2 DEF AreaFollowed, AreaJob, ChangesArea
  <2>2. CASE /\ area # Absent /\ area'.configured = area.configured
             /\ area'.services = area.services
    BY <2>2 DEF LocationsInv, AreaFollowed, AreaJob, AreaSettled, Changing, ChangesArea
  <2>3. QED BY <2>1, <2>2
<1>2. asked' \in (SUBSET Services) \cup {Absent}
  BY DEF LocationsInv, LocationRows, LocationsTypeOK
<1>3. QED BY <1>1, <1>2, AreaAtOnceKept

LEMMA DestroyAreaKeeps == ASSUME LocationsInv, DestroyArea PROVE LocationsInv'
<1>1. /\ area \in AreaRow /\ area # Absent
      /\ area' = [area EXCEPT !.active = FALSE]
      /\ UNCHANGED <<job, address, unsettled, cache, asked>>
  BY DEF DestroyArea, UnchangedButArea, LocationsInv, LocationRows, LocationsTypeOK
<1>2. /\ area' \in AreaRow /\ area'.configured = area.configured
      /\ area'.services = area.services
  BY <1>1 DEF AreaRow
<1>3. QED BY <1>1, <1>2, OpeningKeeps

LEMMA SeedAreasKeeps == ASSUME LocationsInv, SeedAreas PROVE LocationsInv'
<1>1. UNCHANGED <<job, address, unsettled, cache, asked>>
  BY DEF SeedAreas, UnchangedButArea
<1>2. CASE area = Absent
  <2>1. area' = [active |-> TRUE, configured |-> FALSE, services |-> {}]
    BY <1>2 DEF SeedAreas
  <2>2. area' \in AreaRow /\ ~area'.configured
    BY <2>1 DEF AreaRow
  <2>3. QED BY <1>1, <1>2, <2>2, OpeningKeeps
<1>3. CASE area # Absent
  <2>1. PICK keep \in BOOLEAN : area' = [area EXCEPT !.active = IF Launch THEN TRUE ELSE @ /\ keep]
    BY <1>3 DEF SeedAreas
  <2>2. area \in AreaRow
    BY <1>3 DEF LocationsInv, LocationRows, LocationsTypeOK
  <2> DEFINE active == IF Launch THEN TRUE ELSE area.active /\ keep
  <2>3. active \in BOOLEAN /\ area' = [area EXCEPT !.active = active]
    BY <2>1, <2>2, LocationsAssumption DEF AreaRow
  <2> HIDE DEF active
  <2>4. /\ area' \in AreaRow /\ area'.configured = area.configured
        /\ area'.services = area.services
    BY <2>2, <2>3 DEF AreaRow
  <2>5. QED BY <1>1, <1>3, <2>4, OpeningKeeps
<1>4. QED BY <1>2, <1>3

\* Nobody can say any more what was asked for if the command meets a request.
LEMMA SeedCoreServicesKeeps == ASSUME LocationsInv, SeedCoreServices PROVE LocationsInv'
<1>1. /\ area \in AreaRow /\ area # Absent
      /\ area' = [area EXCEPT !.services = @ \cup Core]
      /\ UNCHANGED <<job, address, unsettled, cache>>
      /\ asked' = IF asked = Absent \/ Changing THEN Absent ELSE asked \cup Core
  BY DEF SeedCoreServices, UnchangedButArea, LocationsInv, LocationRows, LocationsTypeOK
<1>2. /\ area' \in AreaRow /\ area'.configured = area.configured
      /\ area'.services = area.services \cup Core
  BY <1>1, LocationsAssumption DEF AreaRow
<1>3. asked' \in (SUBSET Services) \cup {Absent}
  BY <1>1, LocationsAssumption DEF LocationsInv, LocationRows, LocationsTypeOK
<1>4. AreaFollowed'
  <2> SUFFICES ASSUME asked' # Absent PROVE AreaFollowed'
    BY DEF AreaFollowed
  <2>1. asked # Absent /\ ~Changing /\ asked' = asked \cup Core
    BY <1>1
  <2>2. AreaSettled
    BY <2>1 DEF LocationsInv, AreaFollowed
  <2>3. AreaSettled'
    BY <1>1, <1>2, <2>1, <2>2 DEF AreaSettled
  <2>4. \A w \in Workers : ~ChangesArea(w)'
    BY <1>1, <2>1 DEF Changing, ChangesArea
  <2>5. QED BY <2>3, <2>4 DEF AreaFollowed, AreaJob, ChangesArea
<1>5. QED BY <1>1, <1>2, <1>3, <1>4, AreaAtOnceKept

\* A lookup leaves addresses and areas alone.
LEMMA LookupKept ==
    ASSUME LocationsInv, NEW w \in Workers, OthersStay(w), UnchangedButLookup,
           cache' \in BOOLEAN \cup {Absent}, LocationJob(job[w])',
           job[w].op \in {"none", "ask", "fall back", "store"},
           job'[w].op \in {"none", "ask", "fall back", "store"}
    PROVE  LocationsInv'
<1>1. UNCHANGED <<address, unsettled, area, asked>>
  BY DEF UnchangedButLookup
<1>2. LocationRows'
  <2>1. LocationsTypeOK'
    BY <1>1 DEF LocationsInv, LocationRows, LocationsTypeOK
  <2>2. QED BY <1>1, <2>1, LocationRowsKept DEF LocationsInv
<1>3. AreaFollowed'
  <2>1. ~ChangesArea(w) /\ ~ChangesArea(w)'
    BY DEF ChangesArea
  <2>2. QED BY <1>1, <2>1, AreaAlone DEF LocationsInv
<1>4. OneDefault'
  <2>1. \A b \in Addresses : Default(b)' => Default(b)
    BY <1>1 DEF Default
  <2>2. QED BY <1>1, <2>1, OneDefaultKept DEF LocationsInv
<1>5. QED BY <1>2, <1>3, <1>4 DEF LocationsInv

LEMMA LookupKeeps ==
    ASSUME LocationsInv, NEW w \in Workers, Lookup(w) \/ LookupStep(w)
    PROVE  LocationsInv'
<1>1. cache \in BOOLEAN \cup {Absent} /\ DOMAIN job = Workers
  BY DEF LocationsInv, LocationRows, LocationsTypeOK
<1>2. UnchangedButLookup
  BY DEF Lookup, LookupStep, ProviderAnswers, ProviderFails, ProviderRefuses, FallbackAnswers,
         FallbackFails, StoreAnswer
<1>3. job[w].op \in {"none", "ask", "fall back", "store"}
  <2>1. CASE Lookup(w)
    BY <2>1, IdleOp DEF Lookup, Begin, Free
  <2>2. CASE LookupStep(w)
    BY <2>2 DEF LookupStep, ProviderAnswers, ProviderFails, ProviderRefuses, FallbackAnswers,
                FallbackFails, StoreAnswer
  <2>3. QED BY <2>1, <2>2
<1>4. cache' \in BOOLEAN \cup {Absent}
  <2>1. CASE StoreAnswer(w)
    <3>1. job[w].op = "store" /\ job[w] # Idle /\ cache' = job[w].serviceable
      BY <2>1, IdleOp DEF StoreAnswer
    <3>2. LocationJob(job[w])
      BY DEF LocationsInv, LocationRows
    <3>3. QED BY <3>1, <3>2 DEF LocationJob
  <2>2. CASE ~StoreAnswer(w)
    BY <1>1, <2>2 DEF Lookup, LookupStep, ProviderAnswers, ProviderFails, ProviderRefuses,
                      FallbackAnswers, FallbackFails
  <2>3. QED BY <2>1, <2>2
<1>5. PICK j : /\ job' = [job EXCEPT ![w] = j]
               /\ \/ j = Idle
                  \/ j.op = "ask" \/ j.op = "fall back"
                  \/ j.op = "store" /\ j.serviceable \in BOOLEAN
  <2> DEFINE Next(j) == /\ job' = [job EXCEPT ![w] = j]
                        /\ \/ j = Idle
                           \/ j.op = "ask" \/ j.op = "fall back"
                           \/ j.op = "store" /\ j.serviceable \in BOOLEAN
             answer == [op |-> "store", serviceable |-> Serviceable]
             first == [op |-> "ask", attempt |-> 1]
             second == [op |-> "ask", attempt |-> 2]
             fallback == [op |-> "fall back"]
  <2>1. Serviceable \in BOOLEAN
    BY DEF Serviceable, LocationsInv, LocationRows, LocationsTypeOK, AreaRow
  <2>2. /\ answer.op = "store" /\ answer.serviceable \in BOOLEAN
        /\ first.op = "ask" /\ second.op = "ask" /\ fallback.op = "fall back"
    BY <2>1
  <2>3. \/ job' = [job EXCEPT ![w] = Idle] \/ job' = [job EXCEPT ![w] = first]
        \/ job' = [job EXCEPT ![w] = second] \/ job' = [job EXCEPT ![w] = fallback]
        \/ job' = [job EXCEPT ![w] = answer]
    <3> HIDE DEF answer, first, second, fallback
    <3>1. CASE Lookup(w)
      BY <3>1 DEF Lookup, Begin, first
    <3>2. CASE ProviderFails(w)
      BY <3>2 DEF ProviderFails, Failed, Go, second, fallback
    <3>3. CASE ProviderRefuses(w)
      BY <3>3 DEF ProviderRefuses, Failed, Go, fallback
    <3>4. CASE ProviderAnswers(w) \/ FallbackAnswers(w)
      BY <3>4 DEF ProviderAnswers, FallbackAnswers, Go, answer
    <3>5. CASE FallbackFails(w) \/ StoreAnswer(w)
      BY <3>5 DEF FallbackFails, StoreAnswer, Done, Go
    <3>6. QED BY <3>1, <3>2, <3>3, <3>4, <3>5 DEF LookupStep
  <2> HIDE DEF answer, first, second, fallback
  <2>4. QED BY <2>2, <2>3
<1>6. OthersStay(w) /\ job'[w] = j
  BY <1>1, <1>5, OneServes
<1>7. LocationJob(job[w])'
  BY <1>5, <1>6 DEF LocationJob
<1>8. job'[w].op \in {"none", "ask", "fall back", "store"}
  BY <1>5, <1>6, IdleOp
<1>9. QED BY <1>2, <1>3, <1>4, <1>6, <1>7, <1>8, LookupKept

\* A request that dies leaves its default unsettled, or nobody to say what was asked for.
LEMMA CrashKeeps ==
    ASSUME LocationsInv, NEW w \in Workers, Crash(w)
    PROVE  LocationsInv'
<1>1. /\ job' = [job EXCEPT ![w] = Idle] /\ UNCHANGED <<address, area, cache>>
      /\ unsettled' = IF job[w].op = "clear" THEN unsettled \cup {job[w].address} ELSE unsettled
      /\ asked' = IF job[w].op \in {"read services", "set services"} THEN Absent ELSE asked
  BY DEF Crash, Done, Go
<1>2. OthersStay(w) /\ job'[w] = Idle
  BY <1>1, OneServes DEF LocationsInv, LocationRows
<1>3. LocationRows'
  <2>1. LocationsTypeOK'
    BY <1>1 DEF LocationsInv, LocationRows, LocationsTypeOK
  <2>2. LocationJob(job[w])'
    BY <1>2 DEF LocationJob
  <2>3. QED BY <1>1, <1>2, <2>1, <2>2, LocationRowsKept DEF LocationsInv
<1>4. ~ChangesArea(w)' /\ job'[w].op = "none"
  BY <1>2, IdleOp DEF ChangesArea
<1>5. AreaFollowed'
  <2>1. CASE ~ChangesArea(w)
    <3>1. asked' = asked
      BY <1>1, <2>1 DEF ChangesArea
    <3>2. QED BY <1>1, <1>2, <1>4, <2>1, <3>1, AreaAlone DEF LocationsInv
  <2>2. CASE ChangesArea(w)
    <3>1. asked' # Absent => job[w].op = "area" /\ asked' = asked
      BY <1>1, <2>2 DEF ChangesArea
    <3>2. asked' # Absent => ~Overlapping(w) /\ AreaSettled
      BY <2>2, <3>1, ChangerIsAlone DEF AreaJob
    <3>3. asked' # Absent => ~Overlapping(w) /\ AreaJob(job[w])' /\ AreaSettled'
      BY <1>1, <1>4, <3>1, <3>2 DEF AreaJob, AreaSettled
    <3>4. QED BY <1>2, <3>3, AreaFollowedKept DEF LocationsInv
  <2>3. QED BY <2>1, <2>2
<1>6. OneDefault'
  <2>1. \A b \in Addresses : Default(b)' => Default(b)
    BY <1>1 DEF Default
  <2>2. unsettled \subseteq unsettled' /\ (job[w].op = "clear" => job[w].address \in unsettled')
    BY <1>1
  <2>3. QED BY <1>2, <2>1, <2>2, OneDefaultKept DEF LocationsInv
<1>7. QED BY <1>3, <1>5, <1>6 DEF LocationsInv

LEMMA LocationsStart == ASSUME LocationsInit PROVE LocationsInv
<1>1. LocationRows
  <2>1. DOMAIN job = Workers
    BY Zenon DEF LocationsInit
  <2>2. LocationsTypeOK
    BY DEF LocationsInit, LocationsTypeOK
  <2>3. \A w \in Workers : LocationJob(job[w])
    BY DEF LocationsInit, LocationJob
  <2>4. QED BY <2>1, <2>2, <2>3 DEF LocationRows
<1>2. AreaFollowed
  BY DEF LocationsInit, AreaFollowed
<1>3. OneDefault
  BY DEF LocationsInit, OneDefault, Default
<1>4. QED BY <1>1, <1>2, <1>3 DEF LocationsInv

LEMMA LocationsStep == ASSUME LocationsInv, [LocationsNext]_locationsVars PROVE LocationsInv'
<1>1. CASE UNCHANGED locationsVars
  <2>1. ASSUME NEW w \in Workers PROVE LocationJob(job[w])'
    BY <1>1 DEF locationsVars, LocationsInv, LocationRows, LocationJob
  <2>2. LocationRows'
    BY <1>1, <2>1 DEF locationsVars, LocationsInv, LocationRows, LocationsTypeOK
  <2>3. AreaFollowed'
    BY <1>1 DEF locationsVars, LocationsInv, AreaFollowed, AreaJob, AreaSettled, Changing,
                ChangesArea
  <2>4. OneDefault'
    BY <1>1 DEF locationsVars, LocationsInv, OneDefault, Default
  <2>5. QED BY <2>2, <2>3, <2>4 DEF LocationsInv
<1>2. CASE CacheExpires
  <2>1. UNCHANGED <<job, address, unsettled, area, asked>> /\ cache' = Absent
    BY <1>2 DEF CacheExpires, UnchangedButLookup
  <2>2. ASSUME NEW w \in Workers PROVE LocationJob(job[w])'
    BY <2>1 DEF LocationsInv, LocationRows, LocationJob
  <2>3. LocationRows'
    BY <2>1, <2>2 DEF LocationsInv, LocationRows, LocationsTypeOK
  <2>4. AreaFollowed'
    BY <2>1 DEF LocationsInv, AreaFollowed, AreaJob, AreaSettled, Changing, ChangesArea
  <2>5. OneDefault'
    BY <2>1 DEF LocationsInv, OneDefault, Default
  <2>6. QED BY <2>3, <2>4, <2>5 DEF LocationsInv
<1>3. CASE \E w \in Workers :
              \/ CreateAddress(w) \/ PatchAddress(w) \/ SaveAddress(w) \/ ClearOthers(w)
              \/ LeadAddress(w) \/ CommitLeadAddress(w)
  BY <1>3, CreateAddressKeeps, PatchAddressKeeps, SaveAddressKeeps, ClearOthersKeeps,
     LeadAddressKeeps, CommitLeadAddressKeeps
<1>4. CASE \E w \in Workers :
              \/ CreateArea(w) \/ PatchArea(w) \/ SaveArea(w) \/ ReadServices(w)
              \/ SetServices(w) \/ Lookup(w) \/ LookupStep(w) \/ Crash(w)
  BY <1>4, CreateAreaKeeps, PatchAreaKeeps, SaveAreaKeeps, ReadServicesKeeps, SetServicesKeeps,
     LookupKeeps, CrashKeeps
<1>5. QED
  BY <1>1, <1>2, <1>3, <1>4, DestroyAreaKeeps, SeedAreasKeeps, SeedCoreServicesKeeps,
     DestroyAddressKeeps DEF LocationsNext

THEOREM LocationsInvariance == LocationsSpec => []LocationsInv
<1>1. LocationsInit => LocationsInv
  BY LocationsStart
<1>2. LocationsInv /\ [LocationsNext]_locationsVars => LocationsInv'
  BY LocationsStep
<1>3. QED BY <1>1, <1>2, PTL DEF LocationsSpec

\* Two default addresses exist only while a request has yet to clear one of them, or
\* after one died before it could (enforce_single_default).
THEOREM AddressesHaveOneDefault == LocationsSpec => []OneDefault
<1>1. LocationsInv => OneDefault
  BY DEF LocationsInv
<1>2. QED BY <1>1, LocationsInvariance, PTL

\* A configured area that nobody is changing sells what was last asked for
\* (AdminServiceAreaSerializer).
THEOREM AreaIsAsAsked == LocationsSpec => []AreaSellsWhatWasAsked
<1>1. LocationsInv => AreaSellsWhatWasAsked
  BY DEF LocationsInv, AreaFollowed, AreaSettled, AreaSellsWhatWasAsked
<1>2. QED BY <1>1, LocationsInvariance, PTL

\* The rows of addresses and areas and the cached answer hold what they may hold.
THEOREM LocationsTypeCorrect == LocationsSpec => []LocationsTypeOK
<1>1. LocationsInv => LocationsTypeOK
  BY DEF LocationsInv, LocationRows
<1>2. QED BY <1>1, LocationsInvariance, PTL
-----------------------------------------------------------------------------
(* The storefront *)

\* What the request of a worker carries, and the locks it holds.
PackageJob(w) ==
    \/ /\ job[w].op = "package" /\ job[w].items \in ItemSets \cup {None}
       /\ job[w].step \in {"read", "saved"}
       /\ job[w].step = "saved" => rowLock["package"] = w
    \/ /\ job[w].op = "items" /\ job[w].items \in ItemSets \cup {None}
       /\ rowLock["package"] = w
       /\ job[w].items = None => job[w].old = {}
       /\ (job[w].items # None /\ package # Gone) => job[w].old = package

BookingJob(w) ==
    \/ /\ job[w].op = "book" /\ job[w].booking \in Bookings /\ bookings[job[w].booking] = None
       /\ job[w].row \in Row /\ Clean(job[w].row) /\ job[w].quantity \in 1..2
    \/ /\ job[w].op = "review" /\ job[w].booking \in Bookings
       /\ bookings[job[w].booking] # None
       /\ job[w].step \in {"lock", "insert"}
       /\ job[w].step = "insert" => /\ rowLock[job[w].booking] = w
                                    /\ Reviewable(job[w].booking)
    \/ /\ job[w].op = "moderate" /\ job[w].booking \in Bookings
       /\ reviews[job[w].booking] # None /\ job[w].to \in {"visible", "hidden"}

CatalogueJob(w) ==
    \/ job[w] = Idle
    \/ job[w].op = "patch" /\ job[w].row \in Row /\ job[w].step \in {"read", "save"}
    \/ job[w].op = "site" /\ job[w].row \in Row
    \/ job[w].op = "switch off" /\ service # None
    \/ job[w].op = "delete"
    \/ job[w].op = "category" /\ job[w].to \in {"active", "inactive"}
    \/ job[w].op = "no category"

StorefrontJob(w) == CatalogueJob(w) \/ PackageJob(w) \/ BookingJob(w)

\* No two requests make the same booking.
BookingsApart == \A v, w \in Workers :
    (job[v].op = "book" /\ job[w].op = "book" /\ job[v].booking = job[w].booking) => v = w

StorefrontInv == /\ StorefrontTypeOK /\ DOMAIN job = Workers
                 /\ \A w \in Workers : StorefrontJob(w)
                 /\ BookingsApart
                 /\ AdvancePayable /\ AmountMatchesTerms /\ ReferencedServiceStays

\* The terms of a row.
LEMMA EffectiveIsNat == ASSUME NEW r \in Row PROVE Effective(r) \in Nat
  BY StorefrontAssumption DEF Effective, Row

LEMMA QuantizedIsNat == ASSUME NEW n \in Nat PROVE Quantized(n) \in Nat
<1>1. n \div 100 \in Nat /\ n % 100 \in 0..99
  OBVIOUS
<1>2. (n \div 100) % 2 \in 0..1
  BY <1>1
<1>3. QED BY <1>1, <1>2 DEF Quantized

\* A share of a total is no more than the total, however it is rounded.
LEMMA QuantizedShare ==
    ASSUME NEW total \in Nat, NEW v \in Nat, v <= 100
    PROVE  Quantized(total * v) \in Nat /\ Quantized(total * v) <= total
<1> DEFINE n == total * v
           q == n \div 100
<1>1. n \in Nat /\ n <= 100 * total
  OBVIOUS
<1> HIDE DEF n
<1>2. q \in Nat /\ n % 100 \in 0..99
  BY <1>1
<1>3. q % 2 \in 0..1
  BY <1>2
<1>4. q <= total /\ (q = total => n % 100 = 0)
  BY <1>1
<1>5. Quantized(n) = (IF n % 100 < 50 THEN q ELSE IF n % 100 > 50 THEN q + 1 ELSE q + (q % 2))
  BY DEF Quantized
<1> HIDE DEF q
<1>6. Quantized(n) \in {q, q + 1} /\ (Quantized(n) = q + 1 => n % 100 >= 50)
  <2>1. CASE n % 100 < 50
    BY <1>2, <1>5, <2>1
  <2>2. CASE n % 100 > 50
    BY <1>2, <1>5, <2>2
  <2>3. CASE n % 100 = 50
    BY <1>2, <1>3, <1>5, <2>3
  <2>4. QED BY <1>2, <2>1, <2>2, <2>3
<1>7. Quantized(n) <= total /\ Quantized(n) \in Nat
  BY <1>1, <1>2, <1>4, <1>6
<1>8. QED BY <1>7 DEF n

LEMMA AmountIsNat == ASSUME NEW r \in Row, NEW v \in Nat PROVE AmountOf(r, v) \in Nat
<1>1. Effective(r) * v \in Nat
  BY EffectiveIsNat
<1>2. QED BY <1>1, QuantizedIsNat DEF AmountOf

\* The amount a row shows is the one its terms give.
Consistent(r) == r.amount = AmountOf(r, SiteValue(r))

LEMMA SyncedIsConsistent ==
    ASSUME NEW r \in Row
    PROVE  Synced(r) \in Row /\ Consistent(Synced(r))
<1> DEFINE v == ValueOf(r)
           a == AmountOf(r, v)
           s == [r EXCEPT !.value = v, !.amount = a]
<1>1. v \in Nat
  BY DEF ValueOf, Row
<1>2. a \in Nat
  BY <1>1, AmountIsNat
<1> HIDE DEF v, a
<1>3. /\ s \in Row /\ s.value = v /\ s.amount = a /\ s.type = r.type
      /\ s.base = r.base /\ s.selling = r.selling
  BY <1>1, <1>2 DEF Row
<1> HIDE DEF s
<1>4. SiteValue(s) = v
  BY <1>1, <1>3, StorefrontAssumption DEF SiteValue
<1>5. AmountOf(s, v) = a
  BY <1>3 DEF AmountOf, Effective, a
<1>6. Synced(r) = s
  BY DEF Synced, s, v, a
<1>7. QED BY <1>3, <1>4, <1>5, <1>6 DEF Consistent

LEMMA SiteSyncedIsConsistent ==
    ASSUME NEW r \in Row
    PROVE  SiteSynced(r) \in Row /\ Consistent(SiteSynced(r))
<1> DEFINE v == SiteValue(r)
           a == AmountOf(r, v)
           s == [r EXCEPT !.amount = a]
<1>1. v \in Nat
  BY DEF SiteValue, Row
<1>2. a \in Nat
  BY <1>1, AmountIsNat
<1> HIDE DEF v, a
<1>3. /\ s \in Row /\ s.value = r.value /\ s.amount = a /\ s.type = r.type
      /\ s.base = r.base /\ s.selling = r.selling
  BY <1>2 DEF Row
<1> HIDE DEF s
<1>4. SiteValue(s) = v
  BY <1>3 DEF SiteValue, v
<1>5. AmountOf(s, v) = a
  BY <1>3 DEF AmountOf, Effective, a
<1>6. SiteSynced(r) = s
  BY DEF SiteSynced, s, v, a
<1>7. QED BY <1>3, <1>4, <1>5, <1>6 DEF Consistent

LEMMA EditedIsRow == ASSUME NEW r \in Row, NEW s \in Edited(r) PROVE s \in Row
<1>1. CASE s \in {[r EXCEPT !.base = p] : p \in Prices}
  BY <1>1 DEF Row
<1>2. CASE s \in {[r EXCEPT !.selling = p] : p \in Prices \cup {None}}
  BY <1>2 DEF Row
<1>3. CASE s \in {[r EXCEPT !.type = t[1], !.value = t[2]] :
                       t \in {"FIXED", "PERCENTAGE"} \X (Values \cup {r.value, None})}
  <2>1. PICK t \in {"FIXED", "PERCENTAGE"} \X (Values \cup {r.value, None}) :
           s = [r EXCEPT !.type = t[1], !.value = t[2]]
    BY <1>3
  <2>2. t[1] \in {"FIXED", "PERCENTAGE"} /\ t[2] \in Nat \cup {None}
    BY StorefrontAssumption DEF Row
  <2>3. QED BY <2>1, <2>2 DEF Row
<1>4. CASE s \in {[r EXCEPT !.active = a] : a \in BOOLEAN}
  BY <1>4 DEF Row
<1>5. QED BY <1>1, <1>2, <1>3, <1>4 DEF Edited

\* Whether a row is on offer has nothing to do with its terms.
LEMMA SwitchedRow ==
    ASSUME NEW r \in Row, Clean(r), NEW a \in BOOLEAN
    PROVE  LET s == [r EXCEPT !.active = a]
           IN s \in Row /\ Clean(s) /\ (Consistent(r) => Consistent(s))
<1> DEFINE s == [r EXCEPT !.active = a]
<1>1. /\ s \in Row /\ s.value = r.value /\ s.amount = r.amount /\ s.type = r.type
      /\ s.base = r.base /\ s.selling = r.selling
  BY DEF Row
<1> HIDE DEF s
<1>2. Effective(s) = Effective(r) /\ SiteValue(s) = SiteValue(r)
  BY <1>1 DEF Effective, SiteValue
<1>3. Clean(s)
  BY <1>1, <1>2 DEF Clean
<1>4. Consistent(r) => Consistent(s)
  BY <1>1, <1>2 DEF Consistent, AmountOf
<1>5. s \in Row /\ Clean(s) /\ (Consistent(r) => Consistent(s))
  BY <1>1, <1>3, <1>4
<1>6. QED BY <1>5 DEF s

\* What a booking copies from terms that are clean can be paid.
LEMMA AdvanceOfTerms ==
    ASSUME NEW r \in Row, Clean(r), CanPrice(r), NEW quantity \in 1..2
    PROVE  /\ Total(r, quantity) \in Nat
           /\ Required(r, Total(r, quantity)) \in Nat
           /\ Required(r, Total(r, quantity)) <= Total(r, quantity)
<1> DEFINE total == Total(r, quantity)
<1>1. total \in Nat
  <2>1. Effective(r) \in Nat /\ Fee \in Nat /\ quantity \in Nat
    BY EffectiveIsNat, StorefrontAssumption
  <2>2. Effective(r) * quantity \in Nat /\ Fee * quantity \in Nat
    BY <2>1
  <2>3. QED BY <2>1, <2>2 DEF Total
<1> HIDE DEF total
<1>2. CASE r.type = "PERCENTAGE"
  <2>1. r.value \in Nat /\ r.value <= 100
    BY <1>2 DEF CanPrice, Clean, Row
  <2>2. QED BY <1>1, <1>2, <2>1, QuantizedShare DEF Required, total
<1>3. CASE r.type # "PERCENTAGE"
  <2>1. r.amount \in Nat
    BY DEF Row
  <2>2. QED BY <1>1, <1>3, <2>1 DEF Required, total
<1>4. QED BY <1>2, <1>3

\* What the others rely on while they are served: nobody takes their locks, changes
\* what is locked, or undoes what they have seen.
Undisturbed(v) ==
    /\ service # None => service' # None
    /\ \A x \in Bookings \cup {"package"} : rowLock[x] = v => rowLock'[x] = v
    /\ rowLock["package"] = v => package' = package
    /\ \A b \in Bookings :
          /\ bookings[b] # None =>
                bookings'[b] # None /\ (bookings[b].completed => bookings'[b].completed)
          /\ (job[v].op = "book" /\ job[v].booking = b) => bookings'[b] = bookings[b]
          /\ reviews[b] # None => reviews'[b] # None
          /\ (rowLock[b] = v /\ reviews[b] = None) => reviews'[b] = None

LEMMA JobKept ==
    ASSUME NEW v \in Workers, StorefrontJob(v), job'[v] = job[v], Undisturbed(v)
    PROVE  StorefrontJob(v)'
<1>1. CASE CatalogueJob(v)
  <2>1. CatalogueJob(v)'
    BY <1>1 DEF CatalogueJob, Undisturbed
  <2>2. QED BY <2>1 DEF StorefrontJob
<1>2. CASE PackageJob(v)
  <2>1. PackageJob(v)'
    BY <1>2 DEF PackageJob, Undisturbed
  <2>2. QED BY <2>1 DEF StorefrontJob
<1>3. CASE BookingJob(v)
  <2>1. CASE job[v].op = "book"
    BY <1>3, <2>1 DEF BookingJob, Undisturbed, StorefrontJob
  <2>2. CASE job[v].op = "review"
    BY <1>3, <2>2 DEF BookingJob, Undisturbed, StorefrontJob, Reviewable
  <2>3. CASE job[v].op = "moderate"
    BY <1>3, <2>3 DEF BookingJob, Undisturbed, StorefrontJob
  <2>4. QED BY <1>3, <2>1, <2>2, <2>3 DEF BookingJob
<1>4. QED BY <1>1, <1>2, <1>3 DEF StorefrontJob

\* Every request goes on, or one of them turns to something else than a booking.
JobsMove == /\ DOMAIN job' = Workers
            /\ \A v \in Workers : \/ job'[v] = job[v]
                                  \/ StorefrontJob(v)' /\ job'[v].op # "book"

LEMMA JobsMoveOn ==
    ASSUME DOMAIN job = Workers, NEW w \in Workers, NEW j, job' = [job EXCEPT ![w] = j],
           StorefrontJob(w)', j.op # "book"
    PROVE  JobsMove
<1>1. OthersStay(w) /\ job'[w] = j
  BY OneServes
<1>2. QED BY <1>1 DEF JobsMove, OthersStay

LEMMA JobsKept ==
    ASSUME \A v \in Workers : StorefrontJob(v), BookingsApart, JobsMove,
           \A v \in Workers : job'[v] = job[v] => Undisturbed(v)
    PROVE  (\A v \in Workers : StorefrontJob(v)') /\ BookingsApart'
<1>1. \A v \in Workers : StorefrontJob(v)'
  BY JobKept DEF JobsMove
<1>2. BookingsApart'
  BY DEF JobsMove, BookingsApart
<1>3. QED BY <1>1, <1>2

\* A step that changes the service.
LEMMA ServiceStepKept ==
    ASSUME StorefrontInv, JobsMove, UnchangedButService,
           service' \in {None, Gone} \/ (service' \in Row /\ Clean(service')),
           service # None => service' # None,
           service' = Gone => service = Gone \/ ~Referenced,
           AmountMatchesTerms'
    PROVE  StorefrontInv'
<1>1. UNCHANGED <<category, package, bookings, reviews, rowLock>>
  BY DEF UnchangedButService
<1>2. StorefrontTypeOK'
  BY <1>1 DEF StorefrontInv, StorefrontTypeOK, Clean, Effective
<1>3. ASSUME NEW v \in Workers PROVE Undisturbed(v)
  BY <1>1 DEF Undisturbed
<1>4. (\A v \in Workers : StorefrontJob(v)') /\ BookingsApart'
  BY <1>3, JobsKept DEF StorefrontInv
<1>5. Referenced' <=> Referenced
  BY <1>1 DEF Referenced, Referenced_ByBookings
<1>6. AdvancePayable' /\ ReferencedServiceStays'
  BY <1>1, <1>5 DEF StorefrontInv, AdvancePayable, ReferencedServiceStays
<1>7. QED BY <1>2, <1>4, <1>6 DEF StorefrontInv, JobsMove

\* A step that only reads of the catalogue.
LEMMA ReadKept ==
    ASSUME StorefrontInv, JobsMove, UnchangedButService, UNCHANGED <<service, seeded>>
    PROVE  StorefrontInv'
<1>1. AmountMatchesTerms'
  BY DEF StorefrontInv, AmountMatchesTerms, ServiceExists, AmountOf, Effective, SiteValue
<1>2. QED BY <1>1, ServiceStepKept DEF StorefrontInv, StorefrontTypeOK

\* A row that is saved whole.
LEMMA SaveKept ==
    ASSUME StorefrontInv, JobsMove, UnchangedButService, NEW r \in Row, Clean(r), Consistent(r),
           service' = r
    PROVE  StorefrontInv'
<1>1. r \notin {None, Gone}
  BY RowsAssumption
<1>2. AmountMatchesTerms'
  BY DEF AmountMatchesTerms, Consistent, AmountOf, Effective, SiteValue
<1>3. Clean(service') /\ service' \in Row /\ service' # None /\ service' # Gone
  BY <1>1
<1>4. QED BY <1>2, <1>3, ServiceStepKept

LEMMA CreateServiceKeeps == ASSUME StorefrontInv, CreateService PROVE StorefrontInv'
<1>1. PICK r \in NewRows : Clean(Synced(r)) /\ service' = Synced(r)
  BY DEF CreateService
<1>2. r \in Row
  <2>1. Values \subseteq Nat
    BY StorefrontAssumption
  <2>2. /\ r = [base |-> r.base, selling |-> r.selling, type |-> r.type, value |-> r.value,
               amount |-> r.amount, active |-> r.active]
        /\ r.base \in Prices /\ r.selling \in Prices \cup {None}
        /\ r.type \in {"FIXED", "PERCENTAGE"} /\ r.value \in Nat \cup {None}
        /\ r.amount = 0 /\ r.active = TRUE
    BY <2>1 DEF NewRows
  <2>3. r.active \in BOOLEAN
    BY <2>2, Zenon
  <2>4. r.amount \in Nat
    BY <2>2
  <2>5. QED BY <2>2, <2>3, <2>4 DEF Row
<1>3. Synced(r) \in Row /\ Consistent(Synced(r))
  BY <1>2, SyncedIsConsistent
<1>4. JobsMove /\ UnchangedButService
  BY DEF CreateService, StorefrontInv, JobsMove
<1>5. QED BY <1>1, <1>3, <1>4, SaveKept

LEMMA PatchServiceKeeps ==
    ASSUME StorefrontInv, NEW w \in Workers, PatchService(w) \/ SubmitForm(w)
    PROVE  StorefrontInv'
<1>1. service \in Row
  BY DEF PatchService, SubmitForm, ServiceExists, StorefrontInv, StorefrontTypeOK
<1>2. PICK r \in Edited(service) : \/ Begin(w, [op |-> "patch", step |-> "read", row |-> r])
                                   \/ Begin(w, [op |-> "site", row |-> r])
  BY DEF PatchService, SubmitForm
<1>3. r \in Row
  BY <1>1, <1>2, EditedIsRow
<1>4. PICK j : /\ job' = [job EXCEPT ![w] = j]
               /\ \/ j.op = "patch" /\ j.row \in Row /\ j.step \in {"read", "save"}
                  \/ j.op = "site" /\ j.row \in Row
  <2> DEFINE patch == [op |-> "patch", step |-> "read", row |-> r]
             site == [op |-> "site", row |-> r]
  <2>1. /\ patch.op = "patch" /\ patch.row \in Row /\ patch.step \in {"read", "save"}
        /\ site.op = "site" /\ site.row \in Row
    BY <1>3
  <2>2. job' = [job EXCEPT ![w] = patch] \/ job' = [job EXCEPT ![w] = site]
    BY <1>2 DEF Begin
  <2> HIDE DEF patch, site
  <2>3. QED BY <2>1, <2>2
<1>5. OthersStay(w) /\ job'[w] = j /\ DOMAIN job = Workers
  BY <1>4, OneServes DEF StorefrontInv
<1>6. StorefrontJob(w)'
  BY <1>4, <1>5 DEF StorefrontJob, CatalogueJob
<1>7. JobsMove
  BY <1>4, <1>5, <1>6, JobsMoveOn
<1>8. UnchangedButService /\ UNCHANGED <<service, seeded>>
  BY DEF PatchService, SubmitForm
<1>9. QED BY <1>7, <1>8, ReadKept

LEMMA IdleMoves ==
    ASSUME StorefrontInv, NEW w \in Workers, job' = [job EXCEPT ![w] = Idle]
    PROVE  JobsMove
<1>1. OthersStay(w) /\ job'[w] = Idle /\ DOMAIN job = Workers
  BY OneServes DEF StorefrontInv
<1>2. StorefrontJob(w)'
  BY <1>1 DEF StorefrontJob, CatalogueJob
<1>3. QED BY <1>1, <1>2, IdleOp, JobsMoveOn

LEMMA ReadPreviousKeeps ==
    ASSUME StorefrontInv, NEW w \in Workers, ReadPrevious(w)
    PROVE  StorefrontInv'
<1> DEFINE j == [job[w] EXCEPT !.step = "save"]
<1>1. UnchangedButService /\ UNCHANGED <<service, seeded>>
  BY DEF ReadPrevious
<1>2. CASE job' = [job EXCEPT ![w] = Idle]
  BY <1>1, <1>2, IdleMoves, ReadKept
<1>3. CASE job' = [job EXCEPT ![w] = j]
  <2>1. job[w].op = "patch" /\ job[w] # Idle
    BY IdleOp DEF ReadPrevious
  <2>2. job[w].row \in Row /\ job[w].step = "read"
    BY <2>1 DEF StorefrontInv, StorefrontJob, CatalogueJob, PackageJob, BookingJob, ReadPrevious
  <2>3. j.op = job[w].op /\ j.row = job[w].row
    OBVIOUS
  <2>4. j.step \in {"read", "save"}
    OBVIOUS
  <2> HIDE DEF j
  <2>5. OthersStay(w) /\ job'[w] = j
    BY <1>3, OneServes DEF StorefrontInv
  <2>6. StorefrontJob(w)'
    BY <2>1, <2>2, <2>3, <2>4, <2>5 DEF StorefrontJob, CatalogueJob
  <2>7. JobsMove
    BY <2>1, <2>3, <2>5, <2>6 DEF JobsMove, OthersStay
  <2>8. QED BY <1>1, <2>7, ReadKept
<1>4. QED BY <1>2, <1>3 DEF ReadPrevious, Go

\* What both the API and the site save: all of a row they may have read long ago.
LEMMA SaveServiceKeeps ==
    ASSUME StorefrontInv, NEW w \in Workers, SaveService(w) \/ SaveForm(w)
    PROVE  StorefrontInv'
<1>1. job[w].row \in Row
  BY IdleOp DEF SaveService, SaveForm, StorefrontInv, StorefrontJob, CatalogueJob, PackageJob,
                BookingJob
<1>2. JobsMove /\ UnchangedButService
  BY IdleMoves DEF SaveService, SaveForm, Save, Done, Go
<1>3. \/ UNCHANGED <<service, seeded>>
      \/ Clean(Synced(job[w].row)) /\ service' = Synced(job[w].row)
      \/ Clean(SiteSynced(job[w].row)) /\ service' = SiteSynced(job[w].row)
  BY DEF SaveService, SaveForm, Save
<1>4. CASE UNCHANGED <<service, seeded>>
  BY <1>2, <1>4, ReadKept
<1>5. CASE Clean(Synced(job[w].row)) /\ service' = Synced(job[w].row)
  <2>1. Synced(job[w].row) \in Row /\ Consistent(Synced(job[w].row))
    BY <1>1, SyncedIsConsistent
  <2>2. PICK r \in Row : Clean(r) /\ Consistent(r) /\ service' = r
    BY <1>5, <2>1
  <2>3. QED BY <1>2, <2>2, SaveKept
<1>6. CASE Clean(SiteSynced(job[w].row)) /\ service' = SiteSynced(job[w].row)
  <2>1. SiteSynced(job[w].row) \in Row /\ Consistent(SiteSynced(job[w].row))
    BY <1>1, SiteSyncedIsConsistent
  <2>2. PICK r \in Row : Clean(r) /\ Consistent(r) /\ service' = r
    BY <1>6, <2>1
  <2>3. QED BY <1>2, <2>2, SaveKept
<1>7. QED BY <1>3, <1>4, <1>5, <1>6

LEMMA DestroyServiceKeeps ==
    ASSUME StorefrontInv, NEW w \in Workers, DestroyService(w)
    PROVE  StorefrontInv'
<1> DEFINE off == [op |-> "switch off"]
           delete == [op |-> "delete"]
<1>1. /\ UnchangedButService /\ UNCHANGED <<service, seeded>>
      /\ service # None
      /\ job' = [job EXCEPT ![w] = off] \/ job' = [job EXCEPT ![w] = delete]
  BY DEF DestroyService, ServiceExists, Begin
<1>2. off.op = "switch off" /\ delete.op = "delete"
  OBVIOUS
<1> HIDE DEF off, delete
<1>3. PICK j : job' = [job EXCEPT ![w] = j] /\ j.op \in {"switch off", "delete"}
  BY <1>1, <1>2
<1>4. OthersStay(w) /\ job'[w] = j /\ DOMAIN job = Workers
  BY <1>3, OneServes DEF StorefrontInv
<1>5. StorefrontJob(w)'
  BY <1>1, <1>3, <1>4 DEF StorefrontJob, CatalogueJob
<1>6. JobsMove
  BY <1>3, <1>4, <1>5, JobsMoveOn
<1>7. QED BY <1>1, <1>6, ReadKept

\* Switching a service on or off leaves its terms.
LEMMA SwitchKept ==
    ASSUME StorefrontInv, JobsMove, UnchangedButService, UNCHANGED seeded,
           service \in Row, NEW a \in BOOLEAN, service' = [service EXCEPT !.active = a]
    PROVE  StorefrontInv'
<1>1. Clean(service)
  BY RowsAssumption DEF StorefrontInv, StorefrontTypeOK
<1>2. PICK r \in Row : /\ service' = r /\ Clean(r)
                       /\ Consistent(service) => Consistent(r)
  BY <1>1, SwitchedRow
<1>3. AmountMatchesTerms'
  <2>1. service \notin {None, Gone}
    BY RowsAssumption
  <2>2. ~seeded' => Consistent(r)
    BY <1>2, <2>1 DEF StorefrontInv, AmountMatchesTerms, ServiceExists, Consistent
  <2>3. QED BY <1>2, <2>2 DEF AmountMatchesTerms, Consistent, AmountOf, Effective, SiteValue
<1>4. r # None /\ r # Gone
  BY RowsAssumption
<1>5. QED BY <1>2, <1>3, <1>4, ServiceStepKept

LEMMA SwitchOffKeeps ==
    ASSUME StorefrontInv, NEW w \in Workers, SwitchOff(w)
    PROVE  StorefrontInv'
<1>1. /\ job' = [job EXCEPT ![w] = Idle] /\ UNCHANGED seeded /\ UnchangedButService
      /\ service' = IF service = Gone THEN Gone ELSE [service EXCEPT !.active = FALSE]
  BY DEF SwitchOff, Done, Go
<1>2. JobsMove
  BY <1>1, IdleMoves
<1>3. CASE service = Gone
  BY <1>1, <1>2, <1>3, ReadKept
<1>4. CASE service # Gone
  <2>1. service # None
    BY IdleOp DEF SwitchOff, StorefrontInv, StorefrontJob, CatalogueJob, PackageJob, BookingJob
  <2>2. service \in Row
    BY <1>4, <2>1 DEF StorefrontInv, StorefrontTypeOK
  <2>3. QED BY <1>1, <1>2, <1>4, <2>2, SwitchKept
<1>5. QED BY <1>3, <1>4

LEMMA DeleteServiceKeeps ==
    ASSUME StorefrontInv, NEW w \in Workers, DeleteService(w)
    PROVE  StorefrontInv'
<1>1. /\ job' = [job EXCEPT ![w] = Idle] /\ UNCHANGED seeded /\ UnchangedButService
      /\ service' = IF ~Referenced THEN Gone ELSE service
  BY DEF DeleteService, Done, Go, ForeignKeysHold
<1>2. JobsMove
  BY <1>1, IdleMoves
<1>3. CASE Referenced
  BY <1>1, <1>2, <1>3, ReadKept
<1>4. CASE ~Referenced
  <2>1. AmountMatchesTerms'
    BY <1>1, <1>4 DEF AmountMatchesTerms, ServiceExists
  <2>2. service' = Gone /\ Gone # None
    BY <1>1, <1>4, RowsAssumption
  <2>3. QED BY <1>1, <1>2, <1>4, <2>1, <2>2, ServiceStepKept
<1>5. QED BY <1>3, <1>4

\* A step that changes category, package and its lock, bookings or reviews, and leaves
\* the service.
LEMMA StorefrontStepKept ==
    ASSUME StorefrontInv, DOMAIN job' = Workers, UNCHANGED <<service, seeded>>,
           StorefrontTypeOK', \A v \in Workers : StorefrontJob(v)', BookingsApart',
           AdvancePayable', service = Gone => ~Referenced'
    PROVE  StorefrontInv'
<1>1. AmountMatchesTerms'
  BY DEF StorefrontInv, AmountMatchesTerms, ServiceExists, AmountOf, Effective, SiteValue
<1>2. ReferencedServiceStays'
  BY DEF ReferencedServiceStays
<1>3. QED BY <1>1, <1>2 DEF StorefrontInv

\* The command of the seed.
LEMMA SeedCatalogueKeeps == ASSUME StorefrontInv, SeedCatalogue PROVE StorefrontInv'
<1>1. /\ UNCHANGED <<package, bookings, reviews, rowLock, job>>
      /\ service # Gone
  BY DEF SeedCatalogue
<1>2. /\ service' \in Row /\ Clean(service')
      /\ ~seeded' => Consistent(service)'
  <2>1. CASE SeedListed
    <3>1. PICK s \in Seeds : IF service = None THEN service' = Fixed(s)
                             ELSE Clean(Seeded(service, s)) /\ service' = Seeded(service, s)
      BY <2>1 DEF SeedListed
    <3>2. Fixed(s) \in Row /\ Clean(Fixed(s))
      BY SeedsAssumption
    <3>3. s.base \in Prices /\ s.selling \in Prices \cup {None} /\ s.amount \in Nat
      BY <3>2 DEF Fixed, Row
    <3>4. CASE service = None
      BY <2>1, <3>1, <3>2, <3>4 DEF SeedListed
    <3>5. CASE service # None
      <4>1. service \in Row
        BY <1>1, <3>5 DEF StorefrontInv, StorefrontTypeOK
      <4>2. Seeded(service, s) \in Row
        BY <3>3, <4>1 DEF Seeded, Row
      <4>3. QED BY <2>1, <3>1, <3>5, <4>2 DEF SeedListed
    <3>6. QED BY <3>4, <3>5
  <2>2. CASE SeedCore /\ service = None
    <3> DEFINE r == [Fixed(CoreSeed) EXCEPT !.value = CoreSeed.amount]
    <3>1. Fixed(CoreSeed) \in Row /\ Clean(Fixed(CoreSeed))
      BY SeedsAssumption
    <3>2. CoreSeed.amount \in Nat
      BY <3>1 DEF Fixed, Row
    <3>3. /\ r \in Row /\ r.type = "FIXED" /\ r.value = r.amount /\ r.amount = CoreSeed.amount
          /\ r.base = Fixed(CoreSeed).base /\ r.selling = Fixed(CoreSeed).selling
          /\ Fixed(CoreSeed).amount = CoreSeed.amount
      BY <3>1, <3>2 DEF Fixed, Row
    <3>4. service' = r
      BY <2>2 DEF SeedCore
    <3> HIDE DEF r
    <3>5. Clean(r)
      BY <3>1, <3>3 DEF Clean, Effective
    <3>6. Consistent(r)
      <4>1. r.value # None
        BY <3>2, <3>3, StorefrontAssumption
      <4>2. QED BY <3>3, <4>1 DEF Consistent, AmountOf, SiteValue
    <3>7. Consistent(service)'
      BY <3>4, <3>6 DEF Consistent, AmountOf, Effective, SiteValue
    <3>8. QED BY <3>3, <3>4, <3>5, <3>7
  <2>3. CASE (SeedCore /\ service # None) \/ SeedRetired
    <3>1. service \in Row /\ Clean(service) /\ service \notin {None, Gone}
      BY <1>1, <2>3, RowsAssumption
      DEF SeedRetired, ServiceExists, StorefrontInv, StorefrontTypeOK
    <3>2. PICK a \in BOOLEAN : service' = [service EXCEPT !.active = a]
      BY <2>3 DEF SeedCore, SeedRetired
    <3>3. service' \in Row /\ Clean(service') /\ (Consistent(service) => Consistent(service'))
      BY <3>1, <3>2, SwitchedRow
    <3>4. Consistent(service') => Consistent(service)'
      BY DEF Consistent, AmountOf, Effective, SiteValue
    <3>5. ~seeded' => Consistent(service)
      BY <2>3, <3>1
      DEF SeedCore, SeedRetired, StorefrontInv, AmountMatchesTerms, ServiceExists, Consistent
    <3>6. QED BY <3>3, <3>4, <3>5
  <2>4. QED BY <2>1, <2>2, <2>3 DEF SeedCatalogue
<1>3. service' # None /\ service' # Gone
  BY <1>2, RowsAssumption
<1>4. category' \in {"active", "inactive", None, Gone}
  BY DEF SeedCatalogue, SeedListed, SeedCore, SeedRetired, StorefrontInv, StorefrontTypeOK
<1>5. StorefrontTypeOK'
  BY <1>1, <1>2, <1>4 DEF StorefrontInv, StorefrontTypeOK, Clean, Effective
<1>6. (\A v \in Workers : StorefrontJob(v)') /\ BookingsApart'
  <2>1. JobsMove
    BY <1>1 DEF StorefrontInv, JobsMove
  <2>2. ASSUME NEW v \in Workers PROVE Undisturbed(v)
    BY <1>1, <1>3 DEF Undisturbed
  <2>3. QED BY <2>1, <2>2, JobsKept DEF StorefrontInv
<1>7. AmountMatchesTerms'
  BY <1>2 DEF AmountMatchesTerms, Consistent
<1>8. AdvancePayable' /\ ReferencedServiceStays'
  BY <1>1, <1>3 DEF StorefrontInv, AdvancePayable, ReferencedServiceStays
<1>9. QED BY <1>1, <1>5, <1>6, <1>7, <1>8 DEF StorefrontInv

\* A step that changes the category.
LEMMA CategoryKept ==
    ASSUME StorefrontInv, JobsMove, UnchangedButCategory,
           category' \in {"active", "inactive", None, Gone}
    PROVE  StorefrontInv'
<1>1. UNCHANGED <<service, seeded, package, bookings, reviews, rowLock>>
  BY DEF UnchangedButCategory
<1>2. StorefrontTypeOK'
  BY <1>1 DEF StorefrontInv, StorefrontTypeOK, Clean, Effective
<1>3. ASSUME NEW v \in Workers PROVE Undisturbed(v)
  BY <1>1 DEF Undisturbed
<1>4. (\A v \in Workers : StorefrontJob(v)') /\ BookingsApart'
  BY <1>3, JobsKept DEF StorefrontInv
<1>5. AdvancePayable' /\ (service = Gone => ~Referenced')
  BY <1>1 DEF StorefrontInv, AdvancePayable, ReferencedServiceStays, Referenced,
              Referenced_ByBookings
<1>6. QED BY <1>1, <1>2, <1>4, <1>5, StorefrontStepKept DEF JobsMove

LEMMA CategoryKeeps ==
    ASSUME StorefrontInv, NEW w \in Workers,
           \/ PatchCategory(w) \/ SaveCategory(w) \/ DestroyCategory(w) \/ CommitCategory(w)
    PROVE  StorefrontInv'
<1>1. UnchangedButCategory
  BY DEF PatchCategory, SaveCategory, DestroyCategory, CommitCategory
<1>2. category \in {"active", "inactive", None, Gone}
  BY DEF StorefrontInv, StorefrontTypeOK
<1>3. category' \in {"active", "inactive", None, Gone}
  <2>1. CASE SaveCategory(w)
    <3>1. job[w].to \in {"active", "inactive"}
      BY <2>1, IdleOp DEF SaveCategory, StorefrontInv, StorefrontJob, CatalogueJob, PackageJob,
                          BookingJob
    <3>2. QED BY <2>1, <3>1 DEF SaveCategory
  <2>2. CASE ~SaveCategory(w)
    BY <1>2, <2>2 DEF PatchCategory, DestroyCategory, CommitCategory
  <2>3. QED BY <2>1, <2>2
<1>4. CASE SaveCategory(w) \/ CommitCategory(w)
  <2>1. JobsMove
    BY <1>4, IdleMoves DEF SaveCategory, CommitCategory, Done, Go
  <2>2. QED BY <1>1, <1>3, <2>1, CategoryKept
<1>5. CASE PatchCategory(w)
  <2>1. PICK to \in {"active", "inactive"} : Begin(w, [op |-> "category", to |-> to])
    BY <1>5 DEF PatchCategory
  <2> DEFINE j == [op |-> "category", to |-> to]
  <2>2. j.op = "category" /\ j.to = to
    OBVIOUS
  <2>3. job' = [job EXCEPT ![w] = j]
    BY <2>1 DEF Begin
  <2> HIDE DEF j
  <2>4. OthersStay(w) /\ job'[w] = j
    BY <2>3, OneServes DEF StorefrontInv
  <2>5. StorefrontJob(w)'
    BY <2>2, <2>4 DEF StorefrontJob, CatalogueJob
  <2>6. JobsMove
    BY <2>2, <2>4, <2>5 DEF JobsMove, OthersStay
  <2>7. QED BY <1>1, <1>3, <2>6, CategoryKept
<1>6. CASE DestroyCategory(w)
  <2> DEFINE j == [op |-> "no category", delete |-> ~ServiceExists]
  <2>1. j.op = "no category"
    OBVIOUS
  <2>2. job' = [job EXCEPT ![w] = j]
    BY <1>6 DEF DestroyCategory, Begin
  <2> HIDE DEF j
  <2>3. OthersStay(w) /\ job'[w] = j
    BY <2>2, OneServes DEF StorefrontInv
  <2>4. StorefrontJob(w)'
    BY <2>1, <2>3 DEF StorefrontJob, CatalogueJob
  <2>5. JobsMove
    BY <2>1, <2>3, <2>4 DEF JobsMove, OthersStay
  <2>6. QED BY <1>1, <1>3, <2>5, CategoryKept
<1>7. QED BY <1>4, <1>5, <1>6

LEMMA CreateCategoryKeeps == ASSUME StorefrontInv, CreateCategory PROVE StorefrontInv'
<1>1. JobsMove /\ UnchangedButCategory /\ category' = "active"
  BY DEF CreateCategory, StorefrontInv, JobsMove
<1>2. QED BY <1>1, CategoryKept

\* A step that changes the package, and leaves it to the request that has its lock.
LEMMA PackageKept ==
    ASSUME StorefrontInv, JobsMove, UnchangedButPackage,
           rowLock' \in [Bookings \cup {"package"} -> Workers \cup {None}],
           package' = Gone \/ package' \subseteq UNION ItemSets,
           service = Gone => package' = Gone \/ "this" \notin package' \/ Referenced,
           \A v \in Workers : job'[v] = job[v] =>
              /\ \A x \in Bookings \cup {"package"} : rowLock[x] = v => rowLock'[x] = v
              /\ rowLock["package"] = v => package' = package
    PROVE  StorefrontInv'
<1>1. UNCHANGED <<service, seeded, category, bookings, reviews>>
  BY DEF UnchangedButPackage
<1>2. StorefrontTypeOK'
  BY <1>1 DEF StorefrontInv, StorefrontTypeOK, Clean, Effective
<1>3. ASSUME NEW v \in Workers, job'[v] = job[v] PROVE Undisturbed(v)
  BY <1>1, <1>3 DEF Undisturbed
<1>4. (\A v \in Workers : StorefrontJob(v)') /\ BookingsApart'
  BY <1>3, JobsKept DEF StorefrontInv
<1>5. AdvancePayable' /\ (service = Gone => ~Referenced')
  BY <1>1 DEF StorefrontInv, AdvancePayable, ReferencedServiceStays, Referenced,
              Referenced_ByBookings
<1>6. QED BY <1>1, <1>2, <1>4, <1>5, StorefrontStepKept DEF JobsMove

\* A step that only reads the package.
LEMMA PackageReadKept ==
    ASSUME StorefrontInv, JobsMove, UnchangedButPackage, UNCHANGED <<package, rowLock>>
    PROVE  StorefrontInv'
<1>1. service = Gone => package = Gone \/ "this" \notin package
  BY DEF StorefrontInv, ReferencedServiceStays, Referenced
<1>2. /\ rowLock \in [Bookings \cup {"package"} -> Workers \cup {None}]
      /\ package = Gone \/ package \subseteq UNION ItemSets
  BY DEF StorefrontInv, StorefrontTypeOK
<1>3. QED BY <1>1, <1>2, PackageKept

\* What a request for the package has read, and the lock it holds.
LEMMA PackageRequest ==
    ASSUME StorefrontInv, NEW w \in Workers, job[w].op \in {"package", "items"}
    PROVE  PackageJob(w) /\ job[w] # Idle
  BY IdleOp DEF StorefrontInv, StorefrontJob, CatalogueJob, BookingJob

LEMMA WritePackageKeeps ==
    ASSUME StorefrontInv, NEW w \in Workers, WritePackage(w)
    PROVE  StorefrontInv'
<1>1. PICK items \in ItemSets \cup {None} :
         Begin(w, [op |-> "package", step |-> "read", items |-> items, new |-> package = Gone])
  BY DEF WritePackage
<1> DEFINE j == [op |-> "package", step |-> "read", items |-> items, new |-> package = Gone]
<1>2. j.op = "package" /\ j.step = "read" /\ j.items = items
  OBVIOUS
<1>3. job' = [job EXCEPT ![w] = j]
  BY <1>1 DEF Begin
<1> HIDE DEF j
<1>4. OthersStay(w) /\ job'[w] = j
  BY <1>3, OneServes DEF StorefrontInv
<1>5. StorefrontJob(w)'
  BY <1>2, <1>4 DEF StorefrontJob, PackageJob
<1>6. JobsMove
  BY <1>2, <1>4, <1>5 DEF JobsMove, OthersStay
<1>7. UnchangedButPackage /\ UNCHANGED <<package, rowLock>>
  BY DEF WritePackage
<1>8. QED BY <1>6, <1>7, PackageReadKept

LEMMA SavePackageKeeps ==
    ASSUME StorefrontInv, NEW w \in Workers, SavePackage(w)
    PROVE  StorefrontInv'
<1> DEFINE j == [job[w] EXCEPT !.step = "saved"]
<1>1. UnchangedButPackage /\ UNCHANGED package
  BY DEF SavePackage
<1>2. CASE job' = [job EXCEPT ![w] = Idle] /\ UNCHANGED rowLock
  BY <1>1, <1>2, IdleMoves, PackageReadKept
<1>3. CASE /\ rowLock["package"] = None /\ rowLock' = [rowLock EXCEPT !["package"] = w]
           /\ job' = [job EXCEPT ![w] = j]
  <2>1. /\ job[w].op = "package" /\ job[w].items \in ItemSets \cup {None}
        /\ job[w].step = "read"
    BY PackageRequest DEF SavePackage, PackageJob
  <2>2. PackageJob(w) /\ job[w] # Idle
    BY <2>1, PackageRequest
  <2>3. j.op = "package" /\ j.items = job[w].items /\ j.step = "saved"
    BY <2>1, <2>2 DEF PackageJob
  <2> HIDE DEF j
  <2>4. OthersStay(w) /\ job'[w] = j
    BY <1>3, OneServes DEF StorefrontInv
  <2>5. rowLock \in [Bookings \cup {"package"} -> Workers \cup {None}] /\ None \notin Workers
    BY StorefrontAssumption DEF StorefrontInv, StorefrontTypeOK
  <2>6. /\ rowLock' \in [Bookings \cup {"package"} -> Workers \cup {None}]
        /\ rowLock'["package"] = w
        /\ \A x \in Bookings \cup {"package"}, v \in Workers : rowLock[x] = v => rowLock'[x] = v
    BY <1>3, <2>5
  <2>7. StorefrontJob(w)'
    BY <2>1, <2>3, <2>4, <2>6 DEF StorefrontJob, PackageJob
  <2>8. JobsMove
    BY <2>3, <2>4, <2>7 DEF JobsMove, OthersStay
  <2>9. /\ package = Gone \/ package \subseteq UNION ItemSets
        /\ service = Gone => package = Gone \/ "this" \notin package
    BY DEF StorefrontInv, StorefrontTypeOK, ReferencedServiceStays, Referenced
  <2>10. QED BY <1>1, <2>6, <2>8, <2>9, PackageKept
<1>4. QED BY <1>2, <1>3 DEF SavePackage, Done, Go, PackageFree

LEMMA ClearItemsKeeps ==
    ASSUME StorefrontInv, NEW w \in Workers, ClearItems(w)
    PROVE  StorefrontInv'
<1> DEFINE old == IF package = Gone \/ job[w].items = None THEN {} ELSE package
           j == [op |-> "items", items |-> job[w].items, old |-> old]
<1>1. /\ job[w].op = "package" /\ job[w].step = "saved"
      /\ UnchangedButPackage /\ UNCHANGED <<package, rowLock>>
      /\ job' = [job EXCEPT ![w] = j]
  BY DEF ClearItems, Go
<1>2. job[w].items \in ItemSets \cup {None} /\ rowLock["package"] = w
  BY <1>1, PackageRequest DEF PackageJob
<1>3. /\ job[w].items = None => old = {}
      /\ (job[w].items # None /\ package # Gone) => old = package
  OBVIOUS
<1> HIDE DEF old
<1>4. j.op = "items" /\ j.items = job[w].items /\ j.old = old
  OBVIOUS
<1> HIDE DEF j
<1>5. OthersStay(w) /\ job'[w] = j
  BY <1>1, OneServes DEF StorefrontInv
<1>6. StorefrontJob(w)'
  BY <1>1, <1>2, <1>3, <1>4, <1>5 DEF StorefrontJob, PackageJob
<1>7. JobsMove
  BY <1>4, <1>5, <1>6 DEF JobsMove, OthersStay
<1>8. QED BY <1>1, <1>7, PackageReadKept

\* What replacing the services makes of the package.
LEMMA Replaced ==
    ASSUME StorefrontInv, NEW w \in Workers, ReplaceItems(w)
    PROVE  /\ \/ package' = package
              \/ package' \in ItemSets
              \/ package = Gone /\ package' = {}
           /\ (package' # package /\ "this" \in package') => ServiceExists
<1> DEFINE items == job[w].items
<1>1. job[w].op = "items"
  BY DEF ReplaceItems
<1>2. /\ items \in ItemSets \cup {None}
      /\ items = None => job[w].old = {}
      /\ (items # None /\ package # Gone) => job[w].old = package
  BY <1>1, PackageRequest DEF PackageJob
<1>3. CASE items = None
  <2>1. Added(items) = {} /\ Kept(job[w].old) = IF package = Gone THEN {} ELSE package
    BY <1>2, <1>3 DEF Added, Kept
  <2>2. QED BY <2>1 DEF ReplaceItems
<1>4. CASE items # None
  <2>1. Added(items) = items /\ Kept(job[w].old) = {} /\ items \in ItemSets
    BY <1>2, <1>4 DEF Added, Kept
  <2>2. QED BY <2>1 DEF ReplaceItems
<1>5. QED BY <1>3, <1>4

LEMMA ReplaceItemsKeeps ==
    ASSUME StorefrontInv, NEW w \in Workers, ReplaceItems(w)
    PROVE  StorefrontInv'
<1>1. /\ job[w].op = "items" /\ job' = [job EXCEPT ![w] = Idle]
      /\ rowLock' = [rowLock EXCEPT !["package"] = None] /\ UnchangedButPackage
  BY DEF ReplaceItems, Done, Go
<1>2. rowLock["package"] = w
  BY <1>1, PackageRequest DEF PackageJob
<1>3. rowLock \in [Bookings \cup {"package"} -> Workers \cup {None}]
  BY DEF StorefrontInv, StorefrontTypeOK
<1>4. OthersStay(w) /\ job'[w] = Idle /\ job[w] # Idle
  BY <1>1, IdleOp, OneServes DEF StorefrontInv
<1>5. \A v \in Workers : job'[v] = job[v] =>
         /\ \A x \in Bookings \cup {"package"} : rowLock[x] = v => rowLock'[x] = v
         /\ rowLock["package"] = v => package' = package
  BY <1>1, <1>2, <1>3, <1>4
<1>6. rowLock' \in [Bookings \cup {"package"} -> Workers \cup {None}]
  BY <1>1, <1>3
<1>7. package' = Gone \/ package' \subseteq UNION ItemSets
  BY Replaced DEF StorefrontInv, StorefrontTypeOK
<1>8. service = Gone => package' = Gone \/ "this" \notin package' \/ Referenced
  BY Replaced DEF ServiceExists, Referenced
<1>9. JobsMove
  BY <1>1, IdleMoves
<1>10. QED BY <1>1, <1>5, <1>6, <1>7, <1>8, <1>9, PackageKept

LEMMA DeletePackageKeeps == ASSUME StorefrontInv, DeletePackage PROVE StorefrontInv'
<1>1. /\ rowLock["package"] = None /\ package' = Gone /\ UNCHANGED <<rowLock, job>>
      /\ UnchangedButPackage
  BY DEF DeletePackage, PackageFree
<1>2. JobsMove
  BY <1>1 DEF StorefrontInv, JobsMove
<1>3. \A v \in Workers : rowLock["package"] # v
  BY <1>1, StorefrontAssumption
<1>4. rowLock' \in [Bookings \cup {"package"} -> Workers \cup {None}]
  BY <1>1 DEF StorefrontInv, StorefrontTypeOK
<1>5. QED BY <1>1, <1>2, <1>3, <1>4, PackageKept

\* A step that changes bookings, reviews and their locks, and leaves the catalogue.
LEMMA BookingKept ==
    ASSUME StorefrontInv, DOMAIN job' = Workers, UnchangedCatalogue,
           bookings' \in [Bookings -> BookingRow \cup {None}], AdvancePayable',
           reviews' \in [Bookings -> {None, "visible", "hidden"}],
           rowLock' \in [Bookings \cup {"package"} -> Workers \cup {None}],
           \A b \in Bookings : bookings[b] = None /\ bookings'[b] # None => service # Gone,
           \A v \in Workers : (job'[v] = job[v] /\ Undisturbed(v)) \/ StorefrontJob(v)',
           BookingsApart'
    PROVE  StorefrontInv'
<1>1. UNCHANGED <<service, seeded, category, package>>
  BY DEF UnchangedCatalogue
<1>2. StorefrontTypeOK'
  BY <1>1 DEF StorefrontInv, StorefrontTypeOK, Clean, Effective
<1>3. ASSUME NEW v \in Workers PROVE StorefrontJob(v)'
  BY JobKept DEF StorefrontInv
<1>4. service = Gone => ~Referenced'
  BY <1>1 DEF StorefrontInv, ReferencedServiceStays, Referenced, Referenced_ByBookings
<1>5. QED BY <1>1, <1>2, <1>3, <1>4, StorefrontStepKept

\* A step that writes no booking.
LEMMA ReviewKept ==
    ASSUME StorefrontInv, NEW w \in Workers, OthersStay(w), UnchangedCatalogue,
           UNCHANGED bookings, StorefrontJob(w)', job'[w].op # "book",
           reviews' \in [Bookings -> {None, "visible", "hidden"}],
           rowLock' \in [Bookings \cup {"package"} -> Workers \cup {None}],
           \A v \in Workers \ {w} : Undisturbed(v)
    PROVE  StorefrontInv'
<1>1. bookings' \in [Bookings -> BookingRow \cup {None}] /\ AdvancePayable'
  BY DEF StorefrontInv, StorefrontTypeOK, AdvancePayable
<1>2. BookingsApart'
  BY DEF StorefrontInv, BookingsApart, OthersStay
<1>3. \A v \in Workers : (job'[v] = job[v] /\ Undisturbed(v)) \/ StorefrontJob(v)'
  BY DEF OthersStay
<1>4. QED BY <1>1, <1>2, <1>3, BookingKept DEF OthersStay

\* What a request for a booking or a review has read.
LEMMA BookingRequest ==
    ASSUME StorefrontInv, NEW w \in Workers, job[w].op \in {"book", "review", "moderate"}
    PROVE  BookingJob(w) /\ job[w] # Idle
  BY IdleOp DEF StorefrontInv, StorefrontJob, CatalogueJob, PackageJob

LEMMA StartBookingKeeps ==
    ASSUME StorefrontInv, NEW w \in Workers, StartBooking(w)
    PROVE  StorefrontInv'
<1>1. PICK b \in Bookings, quantity \in 1..2 :
         /\ bookings[b] = None
         /\ \A v \in Workers : job[v].op = "book" => job[v].booking # b
         /\ Begin(w, [op |-> "book", booking |-> b, quantity |-> quantity, row |-> service])
  BY DEF StartBooking
<1> DEFINE j == [op |-> "book", booking |-> b, quantity |-> quantity, row |-> service]
<1>2. j.op = "book" /\ j.booking = b /\ j.quantity = quantity /\ j.row = service
  OBVIOUS
<1>3. job' = [job EXCEPT ![w] = j]
  BY <1>1 DEF Begin
<1> HIDE DEF j
<1>4. OthersStay(w) /\ job'[w] = j
  BY <1>3, OneServes DEF StorefrontInv
<1>5. /\ UNCHANGED <<bookings, reviews, rowLock>> /\ UnchangedCatalogue
      /\ UNCHANGED <<service, package>>
  BY DEF StartBooking, UnchangedCatalogue
<1>6. service \in Row /\ Clean(service)
  BY DEF StartBooking, OnOffer, ServiceExists, StorefrontInv, StorefrontTypeOK
<1>7. StorefrontJob(w)'
  <2>1. BookingJob(w)'
    BY <1>1, <1>2, <1>4, <1>5, <1>6 DEF BookingJob, Clean, Effective
  <2>2. QED BY <2>1 DEF StorefrontJob
<1>8. BookingsApart'
  BY <1>1, <1>2, <1>4 DEF StorefrontInv, BookingsApart, OthersStay
<1>9. \A v \in Workers : (job'[v] = job[v] /\ Undisturbed(v)) \/ StorefrontJob(v)'
  BY <1>4, <1>5, <1>7 DEF OthersStay, Undisturbed
<1>10. /\ bookings' \in [Bookings -> BookingRow \cup {None}] /\ AdvancePayable'
       /\ reviews' \in [Bookings -> {None, "visible", "hidden"}]
       /\ rowLock' \in [Bookings \cup {"package"} -> Workers \cup {None}]
  BY <1>5 DEF StorefrontInv, StorefrontTypeOK, AdvancePayable
<1>11. QED BY <1>4, <1>5, <1>8, <1>9, <1>10, BookingKept DEF OthersStay

LEMMA CommitBookingKeeps ==
    ASSUME StorefrontInv, NEW w \in Workers, CommitBooking(w)
    PROVE  StorefrontInv'
<1> DEFINE r == job[w].row
           b == job[w].booking
           total == Total(r, job[w].quantity)
           new == [total |-> total, advance |-> Required(r, total), completed |-> FALSE]
<1>1. /\ job[w].op = "book" /\ job' = [job EXCEPT ![w] = Idle]
      /\ UNCHANGED <<reviews, rowLock>> /\ UnchangedCatalogue /\ UNCHANGED <<service, package>>
      /\ bookings' = IF service = Gone \/ ~CanPrice(r) THEN bookings
                     ELSE [bookings EXCEPT ![b] = new]
  BY DEF CommitBooking, Done, Go, UnchangedCatalogue
<1>2. /\ b \in Bookings /\ bookings[b] = None /\ r \in Row /\ Clean(r)
      /\ job[w].quantity \in 1..2
  BY <1>1, BookingRequest DEF BookingJob
<1>3. CanPrice(r) => /\ total \in Nat /\ Required(r, total) \in Nat
                     /\ Required(r, total) <= total
  BY <1>2, AdvanceOfTerms
<1> HIDE DEF total
<1>4. CanPrice(r) => new \in BookingRow /\ new # None /\ new.advance <= new.total
  <2>1. /\ new.total = total /\ new.advance = Required(r, total)
        /\ CanPrice(r) => new \in BookingRow
    BY <1>3 DEF BookingRow
  <2>2. new \in BookingRow => new # None
    BY RowsAssumption
  <2>3. QED BY <1>3, <2>1, <2>2
<1> HIDE DEF new, r, b
<1>5. bookings \in [Bookings -> BookingRow \cup {None}]
  BY DEF StorefrontInv, StorefrontTypeOK
<1>6. /\ bookings' \in [Bookings -> BookingRow \cup {None}]
      /\ \A c \in Bookings : c # b => bookings'[c] = bookings[c]
      /\ bookings'[b] = None \/ (bookings'[b] = new /\ CanPrice(r) /\ service # Gone)
  BY <1>1, <1>2, <1>4, <1>5
<1>7. AdvancePayable'
  BY <1>4, <1>6 DEF StorefrontInv, AdvancePayable
<1>8. OthersStay(w) /\ job'[w] = Idle
  BY <1>1, OneServes DEF StorefrontInv
<1>9. \A v \in Workers : (job'[v] = job[v] /\ Undisturbed(v)) \/ StorefrontJob(v)'
  <2>1. StorefrontJob(w)'
    BY <1>8 DEF StorefrontJob, CatalogueJob
  <2>2. ASSUME NEW v \in Workers \ {w} PROVE job'[v] = job[v] /\ Undisturbed(v)
    <3>1. job[v].op = "book" => job[v].booking # b
      BY <1>1 DEF StorefrontInv, BookingsApart, b
    <3>2. QED BY <1>1, <1>2, <1>6, <1>8, <3>1 DEF OthersStay, Undisturbed
  <2>3. QED BY <2>1, <2>2
<1>10. BookingsApart'
  BY <1>8, IdleOp DEF StorefrontInv, BookingsApart, OthersStay
<1>11. /\ reviews' \in [Bookings -> {None, "visible", "hidden"}]
       /\ rowLock' \in [Bookings \cup {"package"} -> Workers \cup {None}]
  BY <1>1 DEF StorefrontInv, StorefrontTypeOK
<1>12. \A c \in Bookings : bookings[c] = None /\ bookings'[c] # None => service # Gone
  BY <1>6
<1>13. QED BY <1>1, <1>6, <1>7, <1>8, <1>9, <1>10, <1>11, <1>12, BookingKept DEF OthersStay

LEMMA CompleteBookingKeeps ==
    ASSUME StorefrontInv, NEW b \in Bookings, CompleteBooking(b)
    PROVE  StorefrontInv'
<1> DEFINE new == [bookings[b] EXCEPT !.completed = TRUE]
<1>1. /\ bookings[b] # None /\ bookings' = [bookings EXCEPT ![b] = new]
      /\ UNCHANGED <<reviews, rowLock, job>> /\ UnchangedCatalogue
      /\ UNCHANGED <<service, package>>
  BY DEF CompleteBooking, UnchangedCatalogue
<1>2. bookings \in [Bookings -> BookingRow \cup {None}] /\ bookings[b] \in BookingRow
  BY <1>1 DEF StorefrontInv, StorefrontTypeOK
<1>3. /\ new \in BookingRow /\ new.completed = TRUE
      /\ new.total = bookings[b].total /\ new.advance = bookings[b].advance
  BY <1>2 DEF BookingRow
<1> HIDE DEF new
<1>4. new # None
  BY <1>3, RowsAssumption
<1>5. /\ bookings' \in [Bookings -> BookingRow \cup {None}] /\ bookings'[b] = new
      /\ \A c \in Bookings : c # b => bookings'[c] = bookings[c]
  BY <1>1, <1>2, <1>3
<1>6. AdvancePayable'
  BY <1>1, <1>3, <1>5 DEF StorefrontInv, AdvancePayable
<1>7. ASSUME NEW v \in Workers PROVE Undisturbed(v)
  <2>1. (job[v].op = "book" /\ job[v].booking = b) => FALSE
    BY <1>1, BookingRequest DEF BookingJob
  <2>2. QED BY <1>1, <1>3, <1>4, <1>5, <2>1 DEF Undisturbed
<1>8. BookingsApart' /\ DOMAIN job' = Workers
  BY <1>1 DEF StorefrontInv, BookingsApart
<1>9. /\ reviews' \in [Bookings -> {None, "visible", "hidden"}]
      /\ rowLock' \in [Bookings \cup {"package"} -> Workers \cup {None}]
  BY <1>1 DEF StorefrontInv, StorefrontTypeOK
<1>10. \A c \in Bookings : bookings[c] = None /\ bookings'[c] # None => service # Gone
  BY <1>1, <1>5
<1>11. QED BY <1>1, <1>5, <1>6, <1>7, <1>8, <1>9, <1>10, BookingKept

LEMMA StartReviewKeeps ==
    ASSUME StorefrontInv, NEW w \in Workers, StartReview(w) \/ ModerateReview(w)
    PROVE  StorefrontInv'
<1>1. /\ UNCHANGED <<bookings, reviews, rowLock>> /\ UnchangedCatalogue
      /\ UNCHANGED <<service, package>>
  BY DEF StartReview, ModerateReview, UnchangedCatalogue
<1>2. PICK j : /\ job' = [job EXCEPT ![w] = j] /\ j.booking \in Bookings
               /\ \/ j.op = "review" /\ j.step = "lock" /\ bookings[j.booking] # None
                  \/ /\ j.op = "moderate" /\ j.to \in {"visible", "hidden"}
                     /\ reviews[j.booking] # None
  <2>1. CASE StartReview(w)
    <3>1. PICK b \in Bookings : /\ bookings[b] # None
                                /\ Begin(w, [op |-> "review", step |-> "lock", booking |-> b])
      BY <2>1 DEF StartReview
    <3> DEFINE j == [op |-> "review", step |-> "lock", booking |-> b]
    <3>2. j.op = "review" /\ j.step = "lock" /\ j.booking = b
      OBVIOUS
    <3>3. job' = [job EXCEPT ![w] = j]
      BY <3>1 DEF Begin
    <3> HIDE DEF j
    <3>4. QED BY <3>1, <3>2, <3>3
  <2>2. CASE ModerateReview(w)
    <3>1. PICK b \in Bookings, to \in {"visible", "hidden"} :
             reviews[b] # None /\ Begin(w, [op |-> "moderate", booking |-> b, to |-> to])
      BY <2>2 DEF ModerateReview
    <3> DEFINE j == [op |-> "moderate", booking |-> b, to |-> to]
    <3>2. j.op = "moderate" /\ j.booking = b /\ j.to = to
      OBVIOUS
    <3>3. job' = [job EXCEPT ![w] = j]
      BY <3>1 DEF Begin
    <3> HIDE DEF j
    <3>4. QED BY <3>1, <3>2, <3>3
  <2>3. QED BY <2>1, <2>2
<1>3. OthersStay(w) /\ job'[w] = j
  BY <1>2, OneServes DEF StorefrontInv
<1>4. StorefrontJob(w)' /\ job'[w].op # "book"
  BY <1>1, <1>2, <1>3 DEF StorefrontJob, BookingJob
<1>5. \A v \in Workers \ {w} : Undisturbed(v)
  BY <1>1 DEF Undisturbed
<1>6. /\ reviews' \in [Bookings -> {None, "visible", "hidden"}]
      /\ rowLock' \in [Bookings \cup {"package"} -> Workers \cup {None}]
  BY <1>1 DEF StorefrontInv, StorefrontTypeOK
<1>7. QED BY <1>1, <1>3, <1>4, <1>5, <1>6, ReviewKept

LEMMA LockBookingKeeps ==
    ASSUME StorefrontInv, NEW w \in Workers, LockBooking(w)
    PROVE  StorefrontInv'
<1> DEFINE b == job[w].booking
           j == [job[w] EXCEPT !.step = "insert"]
<1>1. /\ job[w].op = "review" /\ job[w].step = "lock"
      /\ UNCHANGED <<bookings, reviews>> /\ UnchangedCatalogue /\ UNCHANGED <<service, package>>
  BY DEF LockBooking, UnchangedCatalogue
<1>2. BookingJob(w) /\ b \in Bookings /\ bookings[b] # None
  BY <1>1, BookingRequest DEF BookingJob
<1>3. rowLock \in [Bookings \cup {"package"} -> Workers \cup {None}] /\ None \notin Workers
  BY StorefrontAssumption DEF StorefrontInv, StorefrontTypeOK
<1>4. reviews' \in [Bookings -> {None, "visible", "hidden"}]
  BY <1>1 DEF StorefrontInv, StorefrontTypeOK
<1>5. CASE /\ Reviewable(b) /\ rowLock[b] = None /\ rowLock' = [rowLock EXCEPT ![b] = w]
           /\ job' = [job EXCEPT ![w] = j]
  <2>1. j.op = "review" /\ j.booking = b /\ j.step = "insert"
    BY <1>1, <1>2 DEF BookingJob
  <2> HIDE DEF j, b
  <2>2. OthersStay(w) /\ job'[w] = j
    BY <1>5, OneServes DEF StorefrontInv
  <2>3. /\ rowLock' \in [Bookings \cup {"package"} -> Workers \cup {None}] /\ rowLock'[b] = w
        /\ \A x \in Bookings \cup {"package"}, v \in Workers : rowLock[x] = v => rowLock'[x] = v
    BY <1>2, <1>3, <1>5
  <2>4. StorefrontJob(w)' /\ job'[w].op # "book"
    BY <1>1, <1>2, <1>5, <2>1, <2>2, <2>3 DEF StorefrontJob, BookingJob, Reviewable
  <2>5. \A v \in Workers \ {w} : Undisturbed(v)
    BY <1>1, <2>3 DEF Undisturbed
  <2>6. QED BY <1>1, <1>4, <2>2, <2>3, <2>4, <2>5, ReviewKept
<1>6. CASE job' = [job EXCEPT ![w] = Idle] /\ UNCHANGED rowLock
  <2>1. OthersStay(w) /\ job'[w] = Idle
    BY <1>6, OneServes DEF StorefrontInv
  <2>2. StorefrontJob(w)'
    BY <2>1 DEF StorefrontJob, CatalogueJob
  <2>3. \A v \in Workers \ {w} : Undisturbed(v)
    BY <1>1, <1>6 DEF Undisturbed
  <2>4. job'[w].op # "book" /\ rowLock' \in [Bookings \cup {"package"} -> Workers \cup {None}]
    BY <1>3, <1>6, <2>1, IdleOp
  <2>5. QED BY <1>1, <1>4, <2>1, <2>2, <2>3, <2>4, ReviewKept
<1>7. QED BY <1>5, <1>6 DEF LockBooking, BookingFree, Done, Go

\* Only the holder of a booking's lock inserts its review, and releases the lock.
LEMMA InsertReviewKeeps ==
    ASSUME StorefrontInv, NEW w \in Workers, InsertReview(w)
    PROVE  StorefrontInv'
<1> DEFINE b == job[w].booking
<1>1. /\ job[w].op = "review" /\ job[w].step = "insert"
      /\ UNCHANGED bookings /\ UnchangedCatalogue /\ UNCHANGED <<service, package>>
      /\ reviews' = IF reviews[b] = None THEN [reviews EXCEPT ![b] = "visible"] ELSE reviews
      /\ rowLock' = [rowLock EXCEPT ![b] = None] /\ job' = [job EXCEPT ![w] = Idle]
  BY DEF InsertReview, UnchangedCatalogue, Done, Go
<1>2. b \in Bookings /\ rowLock[b] = w
  BY <1>1, BookingRequest DEF BookingJob
<1> HIDE DEF b
<1>3. /\ rowLock \in [Bookings \cup {"package"} -> Workers \cup {None}]
      /\ reviews \in [Bookings -> {None, "visible", "hidden"}]
  BY DEF StorefrontInv, StorefrontTypeOK
<1>4. OthersStay(w) /\ job'[w] = Idle
  BY <1>1, OneServes DEF StorefrontInv
<1>5. StorefrontJob(w)' /\ job'[w].op # "book"
  BY <1>4, IdleOp DEF StorefrontJob, CatalogueJob
<1>6. /\ reviews' \in [Bookings -> {None, "visible", "hidden"}]
      /\ rowLock' \in [Bookings \cup {"package"} -> Workers \cup {None}]
  BY <1>1, <1>3
<1>7. ASSUME NEW v \in Workers \ {w} PROVE Undisturbed(v)
  <2>1. \A x \in Bookings \cup {"package"} : rowLock[x] = v => rowLock'[x] = v
    BY <1>1, <1>2, <1>3
  <2>2. \A c \in Bookings : /\ reviews[c] # None => reviews'[c] # None
                            /\ rowLock[c] = v => reviews'[c] = reviews[c]
    BY <1>1, <1>2, <1>3
  <2>3. QED BY <1>1, <2>1, <2>2 DEF Undisturbed
<1>8. QED BY <1>1, <1>4, <1>5, <1>6, <1>7, ReviewKept

LEMMA SaveReviewKeeps ==
    ASSUME StorefrontInv, NEW w \in Workers, SaveReview(w)
    PROVE  StorefrontInv'
<1> DEFINE b == job[w].booking
<1>1. /\ job[w].op = "moderate" /\ UNCHANGED <<bookings, rowLock>> /\ UnchangedCatalogue
      /\ UNCHANGED <<service, package>>
      /\ reviews' = [reviews EXCEPT ![b] = job[w].to] /\ job' = [job EXCEPT ![w] = Idle]
  BY DEF SaveReview, UnchangedCatalogue, Done, Go
<1>2. b \in Bookings /\ reviews[b] # None /\ job[w].to \in {"visible", "hidden"}
  BY <1>1, BookingRequest DEF BookingJob
<1> HIDE DEF b
<1>3. reviews \in [Bookings -> {None, "visible", "hidden"}] /\ None \notin {"visible", "hidden"}
  BY RowsAssumption DEF StorefrontInv, StorefrontTypeOK
<1>4. OthersStay(w) /\ job'[w] = Idle
  BY <1>1, OneServes DEF StorefrontInv
<1>5. StorefrontJob(w)' /\ job'[w].op # "book"
  BY <1>4, IdleOp DEF StorefrontJob, CatalogueJob
<1>6. /\ reviews' \in [Bookings -> {None, "visible", "hidden"}]
      /\ \A c \in Bookings : (reviews'[c] = None) <=> (reviews[c] = None)
  BY <1>1, <1>2, <1>3
<1>7. \A v \in Workers \ {w} : Undisturbed(v)
  BY <1>1, <1>6 DEF Undisturbed
<1>8. rowLock' \in [Bookings \cup {"package"} -> Workers \cup {None}]
  BY <1>1 DEF StorefrontInv, StorefrontTypeOK
<1>9. QED BY <1>1, <1>4, <1>5, <1>6, <1>7, <1>8, ReviewKept

LEMMA StorefrontStarts == ASSUME StorefrontInit PROVE StorefrontInv
<1>1. DOMAIN job = Workers
  BY Zenon DEF StorefrontInit
<1>2. StorefrontTypeOK
  BY DEF StorefrontInit, StorefrontTypeOK
<1>3. \A w \in Workers : StorefrontJob(w) /\ job[w].op = "none"
  BY IdleOp DEF StorefrontInit, StorefrontJob, CatalogueJob
<1>4. BookingsApart
  BY <1>3 DEF BookingsApart
<1>5. AdvancePayable /\ AmountMatchesTerms /\ ReferencedServiceStays
  BY DEF StorefrontInit, AdvancePayable, AmountMatchesTerms, ServiceExists,
         ReferencedServiceStays, Referenced, Referenced_ByBookings
<1>6. QED BY <1>1, <1>2, <1>3, <1>4, <1>5 DEF StorefrontInv

LEMMA StorefrontStep ==
    ASSUME StorefrontInv, [StorefrontNext]_storefrontVars PROVE StorefrontInv'
<1>1. CASE UNCHANGED storefrontVars
  <2>1. JobsMove /\ UnchangedButService /\ UNCHANGED <<service, seeded>>
    BY <1>1 DEF storefrontVars, StorefrontInv, JobsMove, UnchangedButService
  <2>2. QED BY <2>1, ReadKept
<1>2. CASE \E w \in Workers :
              \/ PatchService(w) \/ ReadPrevious(w) \/ SaveService(w)
              \/ SubmitForm(w) \/ SaveForm(w)
              \/ DestroyService(w) \/ SwitchOff(w) \/ DeleteService(w)
  BY <1>2, PatchServiceKeeps, ReadPreviousKeeps, SaveServiceKeeps, DestroyServiceKeeps,
     SwitchOffKeeps, DeleteServiceKeeps
<1>3. CASE \E w \in Workers :
              \/ PatchCategory(w) \/ SaveCategory(w) \/ DestroyCategory(w) \/ CommitCategory(w)
              \/ WritePackage(w) \/ SavePackage(w) \/ ClearItems(w) \/ ReplaceItems(w)
  BY <1>3, CategoryKeeps, WritePackageKeeps, SavePackageKeeps, ClearItemsKeeps, ReplaceItemsKeeps
<1>4. CASE \E w \in Workers :
              \/ StartBooking(w) \/ CommitBooking(w)
              \/ StartReview(w) \/ LockBooking(w) \/ InsertReview(w)
              \/ ModerateReview(w) \/ SaveReview(w)
  BY <1>4, StartBookingKeeps, CommitBookingKeeps, StartReviewKeeps, LockBookingKeeps,
     InsertReviewKeeps, SaveReviewKeeps
<1>5. QED
  BY <1>1, <1>2, <1>3, <1>4, CreateCategoryKeeps, CreateServiceKeeps, SeedCatalogueKeeps,
     DeletePackageKeeps, CompleteBookingKeeps DEF StorefrontNext

THEOREM StorefrontInvariance == StorefrontSpec => []StorefrontInv
<1>1. StorefrontInit => StorefrontInv
  BY StorefrontStarts
<1>2. StorefrontInv /\ [StorefrontNext]_storefrontVars => StorefrontInv'
  BY StorefrontStep
<1>3. QED BY <1>1, <1>2, PTL DEF StorefrontSpec

\* The rows hold what their columns may hold, and no service carries an advance above
\* its price (Service.clean).
THEOREM StorefrontTypeCorrect == StorefrontSpec => []StorefrontTypeOK
<1>1. StorefrontInv => StorefrontTypeOK
  BY DEF StorefrontInv
<1>2. QED BY <1>1, StorefrontInvariance, PTL

\* No booking asks for an advance above its total (_create_booking_record).
THEOREM AdvanceIsPayable == StorefrontSpec => []AdvancePayable
<1>1. StorefrontInv => AdvancePayable
  BY DEF StorefrontInv
<1>2. QED BY <1>1, StorefrontInvariance, PTL

\* Unless the seed set prices since, customers see the amount the terms give
\* (_with_synced_advance, save_model).
THEOREM AmountIsOfTerms == StorefrontSpec => []AmountMatchesTerms
<1>1. StorefrontInv => AmountMatchesTerms
  BY DEF StorefrontInv
<1>2. QED BY <1>1, StorefrontInvariance, PTL

\* What a booking or a package refers to is never removed (destroy, PROTECT).
THEOREM ReferencedStays == StorefrontSpec => []ReferencedServiceStays
<1>1. StorefrontInv => ReferencedServiceStays
  BY DEF StorefrontInv
<1>2. QED BY <1>1, StorefrontInvariance, PTL

\* A review is inserted only for a completed booking that has none (create_review).
THEOREM ReviewsAreDue == StorefrontSpec => []ReviewIsStillDue
<1>1. StorefrontInv => ReviewIsStillDue
  <2>1. ASSUME StorefrontInv, NEW w \in Workers, job[w].op = "review", job[w].step = "insert"
        PROVE  Reviewable(job[w].booking)
    BY <2>1, BookingRequest DEF BookingJob
  <2>2. QED BY <2>1 DEF ReviewIsStillDue
<1>2. QED BY <1>1, StorefrontInvariance, PTL

\* A package holds the services of one request, however requests for it overlap
\* (_replace_items).
THEOREM PackageIsOfOneRequest == StorefrontSpec => PackageIsOneRequest
<1> DEFINE OneRequest == package' # package =>
                            \/ package' \in ItemSets \cup {Gone}
                            \/ package = Gone /\ package' = {}
<1>1. StorefrontInv /\ [StorefrontNext]_storefrontVars => [OneRequest]_storefrontVars
  <2> SUFFICES ASSUME StorefrontInv, StorefrontNext, package' # package
               PROVE  \/ package' \in ItemSets \cup {Gone}
                      \/ package = Gone /\ package' = {}
    OBVIOUS
  <2>1. CASE DeletePackage
    BY <2>1 DEF DeletePackage
  <2>2. CASE \E w \in Workers : ReplaceItems(w)
    BY <2>2, Replaced
  <2>3. CASE ~DeletePackage /\ ~\E w \in Workers : ReplaceItems(w)
    BY <2>3
    DEF StorefrontNext, CreateCategory, CreateService, SeedCatalogue, CompleteBooking,
        PatchService, ReadPrevious, SaveService, SubmitForm, SaveForm, Save, DestroyService,
        SwitchOff, DeleteService, PatchCategory, SaveCategory, DestroyCategory, CommitCategory,
        WritePackage, SavePackage, ClearItems, StartBooking, CommitBooking, StartReview,
        LockBooking, InsertReview, ModerateReview, SaveReview, UnchangedButService,
        UnchangedButCategory, UnchangedCatalogue
  <2>4. QED BY <2>1, <2>2, <2>3
<1>2. QED BY <1>1, StorefrontInvariance, PTL DEF StorefrontSpec, PackageIsOneRequest
=============================================================================
