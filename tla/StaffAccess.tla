---------------------------- MODULE StaffAccess -----------------------------
(***************************************************************************)
(* Who may use which part of the admin API, and how super administrators   *)
(* change that.  A request is authorised and validated against rows it     *)
(* reads at its beginning; its columns and then its groups are written     *)
(* later, in transactions of their own and without a lock.  The forms of   *)
(* the admin site, open to superusers only, are left out.                  *)
(***************************************************************************)
EXTENDS Requests

CONSTANTS Users, Groups,
          Root,         \* the account every start of the server restores
          Unset         \* no account; a column a request does not mention

ASSUME StaffAssumption == Root \in Users /\ Unset \notin Users \cup Workers

VARIABLES user,       \* accounts
          outdated    \* a request wrote after its author had lost the role

staffVars == <<user, job, outdated, requests>>

Roles == {"CUSTOMER", "TECHNICIAN", "ADMIN", "SUPER_ADMIN"}
Account == [role : Roles, active : BOOLEAN, staff : BOOLEAN, groups : SUBSET Groups]

ASSUME UnsetAssumption == Unset \notin Account

-----------------------------------------------------------------------------
(* Access *)

Read == {"GET", "HEAD", "OPTIONS"}
Write == Read \cup {"POST", "PUT", "PATCH"}
Everything == Write \cup {"DELETE"}

Profiles ==
    [name \in {"Operations Admin", "Customer Support", "Catalogue Manager", "Finance",
               "Technician Coordinator"} |->
        CASE name = "Operations Admin" ->
                ({"dashboard", "search", "reports"} \X Read)
                \cup ({"leads", "customers", "bookings", "work-orders", "notifications",
                       "technicians", "technician-leaves"} \X Write)
                \cup ({"time-slots", "schedule-closures", "service-areas"} \X Everything)
          [] name = "Customer Support" ->
                ({"dashboard", "search", "bookings"} \X Read)
                \cup ({"leads", "customers", "notifications"} \X Write)
          [] name = "Catalogue Manager" ->
                ({"dashboard"} \X Read)
                \cup ({"service-categories", "services", "packages", "faqs", "homepage-banners"}
                      \X Everything)
          [] name = "Finance" ->
                ({"dashboard", "reports", "bookings"} \X Read) \cup ({"payments"} \X Write)
          [] name = "Technician Coordinator" ->
                ({"dashboard", "search"} \X Read)
                \cup ({"bookings", "work-orders", "technicians", "technician-leaves"} \X Write)
                \cup ({"time-slots", "schedule-closures"} \X Everything)]

Areas == {"dashboard", "search", "reports", "leads", "customers", "bookings", "work-orders",
          "notifications", "technicians", "technician-leaves", "time-slots", "schedule-closures",
          "service-areas", "service-categories", "services", "packages", "faqs",
          "homepage-banners", "payments", "staff"}
All == Areas \X Everything

\* No group at all is as good as the group Super Admin; a group without a profile gives nothing.
StaffAccess(r) == IF ~r.staff THEN {}
                  ELSE IF r.groups = {} \/ "Super Admin" \in r.groups THEN All
                  ELSE UNION {Profiles[g] : g \in r.groups \cap DOMAIN Profiles}

Access(r) == IF ~r.active THEN {}
             ELSE IF r.role = "SUPER_ADMIN" THEN All
             ELSE IF r.role = "ADMIN" THEN StaffAccess(r) ELSE {}

\* Staff accounts are for super administrators, whatever the profiles say.
Administers(u) == user[u] # Unset /\ user[u].active /\ user[u].role = "SUPER_ADMIN"
-----------------------------------------------------------------------------
Superuser(groups) == [role |-> "SUPER_ADMIN", active |-> TRUE, staff |-> TRUE, groups |-> groups]

StaffInit == /\ user = [u \in Users |-> IF u = Root THEN Superuser({}) ELSE Unset]
             /\ job = [w \in Workers |-> Idle]
             /\ outdated = FALSE /\ requests = 0

NamesProfile_Unchecked(role, groups) == TRUE
NamesProfile(role, groups) == role = "ADMIN" => groups # {}

\* create_user first, the groups next.
CreateStaff(w) ==
    /\ Free(w)
    /\ \E by, u \in Users, role \in {"ADMIN", "SUPER_ADMIN"}, groups \in SUBSET Groups :
          /\ Administers(by) /\ user[u] = Unset
          /\ NamesProfile(role, groups)
          /\ user' = [user EXCEPT ![u] = [role |-> role, active |-> TRUE, staff |-> TRUE,
                                          groups |-> {}]]
          /\ Begin(w, IF groups = {} THEN Idle
                      ELSE [op |-> "groups", target |-> u, role |-> role, groups |-> groups])
    /\ UNCHANGED outdated

Given(value, current) == IF value = Unset THEN current ELSE value

\* Nobody may demote, deactivate or unstaff himself.
KeepsSelf_RoleOnly(by, u, role, active, staff) ==
    by = u => Given(role, user[u].role) = "SUPER_ADMIN"
KeepsSelf(by, u, role, active, staff) ==
    by = u => /\ Given(role, user[u].role) = "SUPER_ADMIN"
              /\ Given(active, user[u].active)
              /\ Given(staff, user[u].staff)

UpdateStaff(w) ==
    /\ Free(w)
    /\ \E by, u \in Users, role \in {"ADMIN", "SUPER_ADMIN", Unset},
          active, staff \in BOOLEAN \cup {Unset}, groups \in (SUBSET Groups) \cup {Unset} :
          /\ Administers(by)
          /\ user[u] # Unset /\ user[u].staff
          /\ KeepsSelf(by, u, role, active, staff)
          /\ groups # Unset => NamesProfile(Given(role, user[u].role), groups)
          /\ Begin(w, [op |-> "update", by |-> by, target |-> u, active |-> active,
                       staff |-> staff, role |-> role, groups |-> groups,
                       resulting |-> Given(role, user[u].role)])
    /\ UNCHANGED <<user, outdated>>

\* Only the columns that were mentioned are written.
SaveColumns(w) ==
    /\ job[w].op = "update"
    /\ LET j == job[w]
       IN /\ user' = [user EXCEPT ![j.target].role = Given(j.role, @),
                                  ![j.target].active = Given(j.active, @),
                                  ![j.target].staff = Given(j.staff, @)]
          /\ outdated' = (outdated \/ ~Administers(j.by))
          /\ Go(w, IF j.groups = Unset THEN Idle
                   ELSE [op |-> "groups", target |-> j.target, role |-> j.resulting,
                         groups |-> j.groups])

SetGroups(w) ==
    /\ job[w].op = "groups"
    /\ user' = [user EXCEPT ![job[w].target].groups = job[w].groups]
    /\ Done(w) /\ UNCHANGED outdated

\* The server starts again: the command leaves the groups alone.
EnsureSuperuser == /\ requests < MaxRequests
                   /\ user' = [user EXCEPT ![Root] = Superuser(@.groups)]
                   /\ requests' = requests + 1
                   /\ UNCHANGED <<job, outdated>>

StaffRequestDies(w) == /\ job[w] # Idle
                       /\ Done(w) /\ UNCHANGED <<user, outdated>>

\* A bound: nothing is followed up once a request was outdated.
StaffNext == /\ ~outdated
             /\ \/ EnsureSuperuser
                \/ \E w \in Workers : \/ CreateStaff(w) \/ UpdateStaff(w)
                                      \/ SaveColumns(w) \/ SetGroups(w) \/ StaffRequestDies(w)

StaffSpec == StaffInit /\ [][StaffNext]_staffVars
-----------------------------------------------------------------------------
(* Properties *)

\* The rows are accounts, and a worker serves one request.
StaffTypeOK == /\ user \in [Users -> Account \cup {Unset}]
               /\ DOMAIN job = Workers /\ outdated \in BOOLEAN /\ requests \in 0..MaxRequests

\* Somebody can always administer the staff: only a request whose author lost
\* the role between its check and its write can leave nobody
\* (AdminStaffUpdateSerializer.validate).
SomebodyAdministers == outdated \/ \E u \in Users : Administers(u)

\* An administrator who was given a profile never comes to have all access by
\* losing it: an update of an ADMIN names a profile or leaves the groups alone
\* (validate, staff_access_allowed).  Excepted is a request that was validated
\* for another role.
ProfilesAreKept ==
    [][\A u \in Users :
          (/\ user[u] # Unset /\ user[u].role = "ADMIN" /\ user[u].groups # {}
           /\ user'[u].role = "ADMIN" /\ "Super Admin" \notin user'[u].groups
           /\ ~\E w \in Workers : /\ job[w].op = "groups" /\ job[w].target = u
                                  /\ job[w].role # "ADMIN")
          => Access(user'[u]) # All]_staffVars
=============================================================================
