------------------------------ MODULE Locations ------------------------------
(***************************************************************************)
(* Where the work is done: the saved addresses of one customer, one service *)
(* area with the services sold there, and the lookups of addresses at an    *)
(* outside map provider.  No request here holds a lock, and the writes of   *)
(* one request are transactions of their own: a request may be overtaken,   *)
(* or die, between them.                                                    *)
(***************************************************************************)
EXTENDS Requests

CONSTANTS Addresses, Services,
          Absent,         \* a row or an answer that does not exist
          Core,           \* the services seed_catalogue adds to every active area
          Launch,         \* the area is on the launch list
          FallbackSet     \* a second provider is configured

ASSUME LocationsAssumption == /\ Absent \notin Addresses \cup Services \cup Workers \cup BOOLEAN
                              /\ Core \subseteq Services
                              /\ Launch \in BOOLEAN /\ FallbackSet \in BOOLEAN

VARIABLES address,    \* the address rows
          unsettled,  \* defaults written by a request that never clears the others
          area,       \* the row of the area, and its services
          asked,      \* the services last asked for, or Absent when requests overlapped
          cache       \* the cached answer: whether the place is serviceable

locationsVars == <<address, unsettled, area, asked, cache, job, requests>>

AddressRow == [default : BOOLEAN, active : BOOLEAN]
AreaRow == [active : BOOLEAN, configured : BOOLEAN, services : SUBSET Services]

ASSUME AbsentAssumption == Absent \notin AreaRow

LocationsInit == /\ address = [a \in Addresses |-> Absent]
                 /\ unsettled = {}
                 /\ area = Absent /\ asked = Absent /\ cache = Absent
                 /\ job = [w \in Workers |-> Idle]
                 /\ requests = 0

InUse(a) == \E v \in Workers : job[v].op \in {"save", "clear", "lead"} /\ job[v].address = a
New(a) == address[a] = Absent /\ ~InUse(a)
-----------------------------------------------------------------------------
(* Addresses of a customer *)

UnchangedButAddresses == UNCHANGED <<area, asked, cache>>

\* enforce_single_default runs whenever the saved row is the default.
Enforced_WhenAsked(row, asks) == row.default /\ asks
Enforced(row, asks) == row.default

CreateAddress(w) ==
    /\ \E a \in Addresses, default \in BOOLEAN :
          /\ New(a)
          /\ address' = [address EXCEPT ![a] = [default |-> default, active |-> TRUE]]
          /\ Begin(w, IF default THEN [op |-> "clear", address |-> a] ELSE Idle)
    /\ UNCHANGED unsettled /\ UnchangedButAddresses

\* The request may leave is_default out, and then saves it as it was read.
PatchAddress(w) ==
    /\ \E a \in Addresses, asks \in BOOLEAN, default \in BOOLEAN :
          /\ address[a] # Absent /\ address[a].active
          /\ ~asks => default = address[a].default
          /\ Begin(w, [op |-> "save", address |-> a, asks |-> asks,
                       row |-> [address[a] EXCEPT !.default = default]])
    /\ UNCHANGED <<address, unsettled>> /\ UnchangedButAddresses

SaveAddress(w) ==
    /\ job[w].op = "save"
    /\ LET a == job[w].address
           row == job[w].row
       IN /\ address' = [address EXCEPT ![a] = row]
          /\ Go(w, IF Enforced(row, job[w].asks) THEN [op |-> "clear", address |-> a] ELSE Idle)
    /\ UNCHANGED unsettled /\ UnchangedButAddresses

ClearOthers(w) ==
    /\ job[w].op = "clear"
    /\ address' = [a \in Addresses |->
                      IF a # job[w].address /\ address[a] # Absent
                      THEN [address[a] EXCEPT !.default = FALSE] ELSE address[a]]
    /\ unsettled' = {}
    /\ Done(w) /\ UnchangedButAddresses

Retired(row) == [row EXCEPT !.active = FALSE, !.default = FALSE]

DestroyAddress(a) ==
    /\ requests < MaxRequests /\ requests' = requests + 1
    /\ address[a] # Absent /\ address[a].active
    /\ address' = [address EXCEPT ![a] = Retired(@)]
    /\ UNCHANGED <<unsettled, job>> /\ UnchangedButAddresses

\* convert_lead_to_work_order: the default if the customer has no address yet.
LeadAddress(w) ==
    /\ \E a \in Addresses :
          /\ New(a)
          /\ Begin(w, [op |-> "lead", address |-> a,
                       default |-> \A b \in Addresses : address[b] = Absent])
    /\ UNCHANGED <<address, unsettled>> /\ UnchangedButAddresses

CommitLeadAddress(w) ==
    /\ job[w].op = "lead"
    /\ LET a == job[w].address
       IN /\ address' = [address EXCEPT ![a] = [default |-> job[w].default, active |-> TRUE]]
          /\ unsettled' = IF job[w].default THEN unsettled \cup {a} ELSE unsettled
    /\ Done(w) /\ UnchangedButAddresses
-----------------------------------------------------------------------------
(* The service area *)

UnchangedButArea == UNCHANGED <<address, unsettled, cache>>

ChangesArea(w) == job[w].op \in {"area", "read services", "set services"}
Changing == \E w \in Workers : ChangesArea(w)
Overlapping(w) == \E v \in Workers \ {w} : ChangesArea(v)

\* After an overlap nobody can say which services were asked for.
Asked(w, services) == IF Overlapping(w) THEN Absent ELSE services

\* POST without services means every active one, and leaves the area unconfigured.
CreateArea(w) ==
    /\ area = Absent
    /\ \E services \in SUBSET Services, named \in BOOLEAN :
          /\ ~named => services = Services
          /\ area' = [active |-> TRUE, configured |-> named, services |-> {}]
          /\ asked' = Asked(w, services)
          /\ Begin(w, [op |-> "read services", to |-> services])
    /\ UnchangedButArea

\* The row saved is the row read; services that are named make it configured.
Configured(row, named) == row.configured \/ named

PatchArea(w) ==
    /\ area # Absent
    /\ \E active \in BOOLEAN, services \in SUBSET Services, named \in BOOLEAN :
          /\ ~named => services = {}
          /\ Begin(w, [op |-> "area", active |-> active, named |-> named, to |-> services,
                       configured |-> Configured(area, named)])
          /\ asked' = IF Overlapping(w) THEN Absent ELSE asked
    /\ UNCHANGED area /\ UnchangedButArea

SaveArea(w) ==
    /\ job[w].op = "area"
    /\ area' = [area EXCEPT !.active = job[w].active, !.configured = job[w].configured]
    /\ asked' = IF job[w].named THEN Asked(w, job[w].to)
                ELSE IF Overlapping(w) THEN Absent ELSE asked
    /\ Go(w, IF job[w].named THEN [op |-> "read services", to |-> job[w].to] ELSE Idle)
    /\ UnchangedButArea

\* services.set: what is there and not asked goes, what is asked and not there comes.
ReadServices(w) ==
    /\ job[w].op = "read services"
    /\ Go(w, [op |-> "set services", to |-> job[w].to, old |-> area.services])
    /\ UNCHANGED <<area, asked>> /\ UnchangedButArea

Removed_None(to, old) == {}
Removed(to, old) == old \ to
SetServices(w) ==
    /\ job[w].op = "set services"
    /\ LET to == job[w].to
           old == job[w].old
       IN area' = [area EXCEPT !.services = (@ \ Removed(to, old)) \cup (to \ old)]
    /\ Done(w) /\ UNCHANGED asked /\ UnchangedButArea

DestroyArea == /\ requests < MaxRequests /\ requests' = requests + 1
               /\ area # Absent
               /\ area' = [area EXCEPT !.active = FALSE]
               /\ UNCHANGED <<asked, job>> /\ UnchangedButArea

\* seed_service_areas closes what is not on the launch list and opens what is;
\* with --keep-existing-active it closes nothing.
SeedAreas ==
    /\ requests < MaxRequests /\ requests' = requests + 1
    /\ Launch \/ area # Absent
    /\ \E keep \in BOOLEAN :
          area' = IF area = Absent THEN [active |-> TRUE, configured |-> FALSE, services |-> {}]
                  ELSE [area EXCEPT !.active = IF Launch THEN TRUE ELSE @ /\ keep]
    /\ UNCHANGED <<asked, job>> /\ UnchangedButArea

\* seed_catalogue sells its core services in every active area.
SeedCoreServices ==
    /\ requests < MaxRequests /\ requests' = requests + 1
    /\ area # Absent /\ area.active
    /\ area' = [area EXCEPT !.services = @ \cup Core]
    /\ asked' = IF asked = Absent \/ Changing THEN Absent ELSE asked \cup Core
    /\ UNCHANGED job /\ UnchangedButArea
-----------------------------------------------------------------------------
(* Lookups *)

UnchangedButLookup == UNCHANGED <<address, unsettled, area, asked>>

Serviceable == area # Absent /\ area.active

Lookup(w) == /\ Begin(w, IF cache # Absent THEN Idle ELSE [op |-> "ask", attempt |-> 1])
             /\ UNCHANGED cache /\ UnchangedButLookup

\* An answer in time, with a place in it.
ProviderAnswers(w) ==
    /\ job[w].op = "ask"
    /\ Go(w, [op |-> "store", serviceable |-> Serviceable])
    /\ UNCHANGED cache /\ UnchangedButLookup

\* Timeouts and server errors are tried once more.
TriesAgain(attempt) == attempt = 1

Failed_Recursive(w) == [op |-> "ask", attempt |-> 1]
Failed(w) == IF FallbackSet THEN [op |-> "fall back"] ELSE Idle

ProviderFails(w) ==
    /\ job[w].op = "ask"
    /\ Go(w, IF TriesAgain(job[w].attempt)
             THEN [op |-> "ask", attempt |-> 2] ELSE Failed(w))
    /\ UNCHANGED cache /\ UnchangedButLookup

\* A bad key, a full quota, a broken connection or answer: no second try.
ProviderRefuses(w) ==
    /\ job[w].op = "ask"
    /\ Go(w, Failed(w))
    /\ UNCHANGED cache /\ UnchangedButLookup

FallbackAnswers(w) ==
    /\ job[w].op = "fall back"
    /\ Go(w, [op |-> "store", serviceable |-> Serviceable])
    /\ UNCHANGED cache /\ UnchangedButLookup

FallbackFails(w) == /\ job[w].op = "fall back"
                    /\ Done(w) /\ UNCHANGED cache /\ UnchangedButLookup

StoreAnswer(w) == /\ job[w].op = "store"
                  /\ cache' = job[w].serviceable
                  /\ Done(w) /\ UnchangedButLookup

CacheExpires == /\ cache # Absent /\ cache' = Absent
                /\ UNCHANGED <<job, requests>> /\ UnchangedButLookup
-----------------------------------------------------------------------------
\* A worker dies between two transactions of its request.
Crash(w) == /\ job[w] # Idle
            /\ unsettled' = IF job[w].op = "clear" THEN unsettled \cup {job[w].address} ELSE unsettled
            /\ asked' = IF job[w].op \in {"read services", "set services"} THEN Absent ELSE asked
            /\ Done(w) /\ UNCHANGED <<address, area, cache>>

LookupStep(w) == \/ ProviderAnswers(w) \/ ProviderFails(w) \/ ProviderRefuses(w)
                 \/ FallbackAnswers(w) \/ FallbackFails(w) \/ StoreAnswer(w)

LocationsNext == \/ DestroyArea \/ SeedAreas \/ SeedCoreServices \/ CacheExpires
                 \/ \E a \in Addresses : DestroyAddress(a)
                 \/ \E w \in Workers :
                       \/ CreateAddress(w) \/ PatchAddress(w) \/ SaveAddress(w) \/ ClearOthers(w)
                       \/ LeadAddress(w) \/ CommitLeadAddress(w)
                       \/ CreateArea(w) \/ PatchArea(w) \/ SaveArea(w) \/ ReadServices(w) \/ SetServices(w)
                       \/ Lookup(w) \/ LookupStep(w) \/ Crash(w)

\* Every outside call has a timeout, so a lookup goes on unless its worker dies.
Fairness == \A w \in Workers : WF_locationsVars(LookupStep(w))

LocationsSpec == LocationsInit /\ [][LocationsNext]_locationsVars /\ Fairness
-----------------------------------------------------------------------------
(* Properties *)

LocationsTypeOK == /\ address \in [Addresses -> AddressRow \cup {Absent}]
                   /\ area \in AreaRow \cup {Absent}
                   /\ asked \in (SUBSET Services) \cup {Absent}
                   /\ cache \in BOOLEAN \cup {Absent}

Default(a) == address[a] # Absent /\ address[a].default

\* Two default addresses exist only while the request that wrote one of them
\* has yet to clear the others, whatever saves of old rows overlap
\* (enforce_single_default); a crash in between and a lead's address escape it.
OneDefault == \A a, b \in Addresses : (a # b /\ Default(a) /\ Default(b)) =>
    \/ \E w \in Workers : job[w].op = "clear" /\ job[w].address \in {a, b}
    \/ {a, b} \cap unsettled # {}

\* A configured area that nobody is changing sells what was last asked for, not
\* more and not less; overlapping or dying requests are excepted
\* (AdminServiceAreaSerializer).
AreaSellsWhatWasAsked ==
    (area # Absent /\ area.configured /\ asked # Absent
        /\ ~Changing)
    => area.services = asked

\* Every lookup ends with an answer or an error, however the providers fail (_get).
LookupsEnd == \A w \in Workers :
    job[w].op \in {"ask", "fall back", "store"} ~> job[w] = Idle
=============================================================================
